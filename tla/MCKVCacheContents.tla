------------------------ MODULE MCKVCacheContents ------------------------
(* Instances for TLC; page identities are only ever compared. *)
EXTENDS KVCacheContents, TLC

PageSymmetry == Permutations(Pages)
==========================================================================
