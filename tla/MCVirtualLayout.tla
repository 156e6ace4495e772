--------------------------- MODULE MCVirtualLayout ---------------------------
(* Instances of VirtualLayout for TLC. *)
EXTENDS VirtualLayout
=============================================================================
