------------------------- MODULE MCFreeBlockScan -------------------------
(* The instance for TLC is given by its cfg alone. *)
EXTENDS FreeBlockScan
==========================================================================
