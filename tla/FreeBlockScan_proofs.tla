------------------------- MODULE FreeBlockScan_proofs -------------------------
(***************************************************************************)
(* The count of free blocks, read slot by slot beside a working manager.   *)
(* A count is a read: with the scan's own variables hidden, FreeBlockScan  *)
(* is KVCacheAllocator, whose invariants therefore hold during a scan.     *)
(***************************************************************************)
EXTENDS FreeBlockScan, KVCacheAllocator_proofs

(* While a count is under way the API thread is between steps, where the     *)
(* lengths are those of the resident tokens, or has just returned from       *)
(* step_async, where every request has the memory of its new length.         *)
ScanInv ==
  /\ scan \in -1 .. max_batch_size
  /\ scan # -1 => \/ pc[API] = "idle" /\ curr_seq_lengths = resident
                  \/ pc[API] = "forward"

(* num_free_kvblocks may be interleaved with the manager block by block: no  *)
(* difference it adds up ever wraps around.                                  *)
THEOREM TermsDoNotWrapHolds ==
  ASSUME StartsDuringForward
  PROVE  ScanSpec => []TermsDoNotWrap
  <1>1. ScanInit => Init /\ ScanInv
    BY SizesAssumption DEF ScanInit, ScanInv
  <1>2. [ScanNext]_<<vars, scanning>> => [Next]_vars
    BY DEF ScanNext, ReadPool, ReadSlot, ReturnCount, Next
  <1>3. ScanSpec => Spec
    BY <1>1, <1>2, PTL DEF ScanSpec, Spec
  <1>4. IInv /\ ScanInv /\ [ScanNext]_<<vars, scanning>> => ScanInv'
    <2> SUFFICES ASSUME IInv, ScanInv, [ScanNext]_<<vars, scanning>>  PROVE ScanInv'
      OBVIOUS
    <2>1. CASE scan = -1 /\ Next /\ UNCHANGED scanning
      BY <2>1, SizesAssumption DEF ScanInv, scanning
    <2>2. CASE scan # -1 /\ (\E m \in Managers : ManagerStep(m)) /\ UNCHANGED scanning
      BY <2>2, ManagerFrame DEF ScanInv, scanning
    <2>3. CASE ReadPool \/ ReadSlot \/ ReturnCount
      BY <2>3, SizesAssumption
         DEF ScanInv, ReadPool, ReadSlot, ReturnCount, Reqs, vars, memory, caller, locals
    <2>4. CASE UNCHANGED <<vars, scanning>>
      BY <2>4 DEF ScanInv, scanning, vars, caller
    <2>5. QED  BY <2>1, <2>2, <2>3, <2>4 DEF ScanNext
  <1>5. IInv /\ DataInv /\ ScanInv => TermsDoNotWrap
    <2> SUFFICES ASSUME IInv, DataInv, ScanInv, scan \in Reqs
                 PROVE  mapped_pages[scan] >= tokens_to_pages(curr_seq_lengths[scan])
      BY DEF TermsDoNotWrap
    <2>1. CASE pc[API] = "idle" /\ curr_seq_lengths = resident
      BY <2>1 DEF DataInv, BackedInv, Backed
    <2>2. CASE pc[API] = "forward"
      <3>1. mapped_pages[scan] >= tokens_to_pages(seq_lens[scan])
        BY <2>2 DEF DataInv, BackedInv, Backed
      <3>2. curr_seq_lengths[scan] <= seq_lens[scan]
        BY DEF DataInv, LengthsInv
      <3>3. QED  BY <3>1, <3>2, Numbers, LengthFits, LengthMono
    <2>3. scan # -1
      BY SizesAssumption DEF Reqs
    <2>4. QED  BY <2>1, <2>2, <2>3 DEF ScanInv
  <1>6. QED
    BY <1>1, <1>3, <1>4, <1>5, Invariant, DataInvariant, PTL DEF ScanSpec
===============================================================================
