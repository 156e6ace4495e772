-------------------------- MODULE MCAsyncEngine --------------------------
(* Small instances of the asynchronous engine for TLC.                     *)
EXTENDS AsyncEngine
==========================================================================
