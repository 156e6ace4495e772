--------------------------- MODULE FreeBlockScan ---------------------------
(***************************************************************************)
(* num_free_kvblocks as the code runs it: the size of the pool is read     *)
(* first, then one slot after the other, while the manager thread spawned  *)
(* by the last step_async may still move blocks.  KVCacheAllocator has the *)
(* same count as one expression.                                           *)
(*                                                                         *)
(* The engine asks for the count at the head of step(), before requests    *)
(* enter or leave a slot.  The cache engine asks for it when it records    *)
(* the cache usage: after free_request, and right after step_async, when   *)
(* the manager of that step has just been spawned.                         *)
(***************************************************************************)
EXTENDS KVCacheAllocator

VARIABLES
  scan,    (* slot the API thread reads next; -1: no count under way        *)
  count    (* free_kvblocks + overcommitted_kvblocks so far                 *)

scanning == <<scan, count>>

ScanInit == Init /\ scan = -1 /\ count = 0

(* The first read: the pool. *)
ReadPool ==
  /\ pc[API] \in {"idle", "forward"}
  /\ pc[API] = "idle" => curr_seq_lengths = resident
  /\ scan = -1
  /\ scan' = 0
  /\ count' = pages_to_kvblocks(Cardinality(freePages))
  /\ UNCHANGED vars

(* get_num_overcommitted_kvblocks: one slot. *)
ReadSlot ==
  /\ scan \in Reqs
  /\ count' = count + mapped_pages[scan] - tokens_to_pages(curr_seq_lengths[scan])
  /\ scan' = scan + 1
  /\ UNCHANGED vars

ReturnCount ==
  /\ scan = max_batch_size
  /\ scan' = -1
  /\ count' = 0
  /\ UNCHANGED vars

(* The API thread does nothing else meanwhile; managers do. *)
ScanNext ==
  \/ scan = -1 /\ Next /\ UNCHANGED scanning
  \/ scan # -1 /\ (\E m \in Managers : ManagerStep(m)) /\ UNCHANGED scanning
  \/ ReadPool
  \/ ReadSlot
  \/ ReturnCount

ScanSpec == ScanInit /\ [][ScanNext]_<<vars, scanning>>

(* The fairness of KVCacheAllocator; a count that was begun goes on. *)
FairScanSpec == ScanSpec /\ Fairness /\ WF_<<vars, scanning>>(ReadSlot \/ ReturnCount)

(* Every term of the sum is a 64-bit unsigned difference: when a slot is     *)
(* read, its length and its blocks are such that the difference does not     *)
(* wrap around, although the manager unmaps blocks at the same time.         *)
TermsDoNotWrap ==
  scan \in Reqs => mapped_pages[scan] >= tokens_to_pages(curr_seq_lengths[scan])

(* "check pages that are free as well as overcommitted": the count returned  *)
(* is the number of blocks that no request needs.                            *)
CountsFreePages == scan = max_batch_size => count = num_free_kvblocks
============================================================================
