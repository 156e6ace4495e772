------------------------- MODULE MCKVCacheAllocator -------------------------
(* Instances of KVCacheAllocator for TLC.  Page identities are only ever     *)
(* compared, so the physical pages form a symmetry set in the runs that      *)
(* check no liveness.                                                        *)
EXTENDS KVCacheAllocator, TLC

PageSymmetry == Permutations(Pages)
=============================================================================
