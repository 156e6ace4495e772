---------------------- MODULE KVCacheContents_proofs ----------------------
(***************************************************************************)
(* The allocator with its threads implements KVCache, for any number of    *)
(* slots, pages, tensors and managers.  Each spawned thread is assumed to  *)
(* start during the forward pass it was spawned for.                       *)
(***************************************************************************)
EXTENDS KVCacheContents, KVCacheAllocator_proofs

(* Until cleanup, what the forward passes have written is where it was. *)
ContentsInv ==
  pc[API] \notin {"cleanup", "cleaned"} => \A r \in Reqs : Intact(r)

(* alloc_new_batch_idx has found no slot only if all it looked at are taken. *)
AllocInv ==
  pc[API] = "alloc_scan" =>
    /\ new_len # 0
    /\ chosen[API] = -1 => \A r \in Reqs : r < idx[API] => is_active_req(r)

-----------------------------------------------------------------------------
(* With the contents hidden, every step is one of the allocator. *)
LEMMA ContentsStep == [ContentsNext]_<<vars, contents>> => [Next]_vars
  BY DEF ContentsNext, Next, ApiCall, ApiStep

LEMMA ContentsSpecImplies == ContentsSpec => Spec
  <1>1. ContentsInit => Init
    BY DEF ContentsInit
  <1>2. QED  BY <1>1, ContentsStep, PTL DEF ContentsSpec, Spec

(* Only the end of a forward pass and the release of a slot change what is   *)
(* resident.                                                                 *)
LEMMA ResidentFrame ==
  ASSUME Next, ~ForwardDone, \A r \in Reqs : ~free_batch_idx(r)
  PROVE  UNCHANGED resident
  <1>1. ASSUME NEW t \in Threads, SharedStep(t)  PROVE UNCHANGED resident
    BY <1>1 DEF SharedStep, ReclaimDone, ReclaimVisit, ReleaseOne, ReleaseDone, GrowOne, caller
  <1>2. ASSUME NEW m \in Managers, ManagerStep(m)  PROVE UNCHANGED resident
    BY <1>1, <1>2 DEF ManagerStep, Threads, ManagerStart, ManagerNeed, ManagerNeedDone, ManagerRecheck,
       EagerGrow, EagerGrowDone, EagerNextStep, EagerDone, ScanPrefill, ScanVictim, UnmapVictim,
       ManagerFinish, caller
  <1>3. CASE ApiCall
    BY <1>3 DEF ApiCall, AllocStart, set_deferred_reclamation, StepAsync, StepSync, CleanupStart, caller
  <1>4. CASE ApiStep
    BY <1>1, <1>4 DEF ApiStep, Threads, AllocScan, AllocReturn, CopyLength, WaitManager, SyncLength,
       SyncRelease, SyncReleased, PrefillSkip, PrefillDemand, GrowSync, OutOfMemory, GrowSyncDone,
       SpawnManager, StepSyncReturn, CleanupRelease, CleanupDone, caller
  <1>5. CASE Stopped
    BY <1>5 DEF Stopped, vars, caller
  <1>6. QED  BY <1>2, <1>3, <1>4, <1>5 DEF Next

(* Nothing follows cleanup. *)
LEMMA CleanupLasts ==
  ASSUME IInv, Next, pc[API] \in {"cleanup", "cleaned"}
  PROVE  pc'[API] \in {"cleanup", "cleaned"}
  <1>0. API \in Threads /\ PcType
    BY TypeParts DEF IInv, Threads
  <1>1. ASSUME NEW m \in Managers, ManagerStep(m)  PROVE pc'[API] = pc[API]
    BY <1>1, ManagerFrame
  <1>2. ~ApiCall
    BY DEF ApiCall, AllocStart, free_batch_idx, set_deferred_reclamation, StepAsync, StepSync, CleanupStart
  <1>3. CASE CleanupRelease \/ CleanupDone
    BY <1>0, <1>3 DEF CleanupRelease, CleanupDone, PcType, Goto
  <1>4. CASE ApiStep /\ ~CleanupRelease /\ ~CleanupDone
    BY <1>0, <1>4 DEF ApiStep, SharedStep, ReclaimDone, ReclaimVisit, ReleaseOne, ReleaseDone, GrowOne,
       AllocScan, AllocReturn, CopyLength, WaitManager, SyncLength, SyncRelease, SyncReleased,
       PrefillSkip, PrefillDemand, GrowSync, OutOfMemory, GrowSyncDone, GrowFinished, SpawnManager,
       StepSyncReturn, ForwardDone
  <1>5. CASE Stopped
    BY <1>5 DEF Stopped, vars
  <1>6. QED  BY <1>1, <1>2, <1>3, <1>4, <1>5 DEF Next

(* A forward pass leaves every page of the step as the pass wrote it: no two *)
(* virtual pages share a physical one.                                       *)
LEMMA ForwardKeepsIntact ==
  ASSUME IInv, DataInv, ForwardDone, ForwardWrites, NEW r \in Reqs
  PROVE  Intact(r)'
  <1> SUFFICES ASSUME NEW i \in BlockIds, NEW b \in Buffers, i < tokens_to_pages(seq_lens[r])
               PROVE  /\ pagemap[r][i][b] \in Pages
                      /\ contents'[pagemap[r][i][b]] = <<r, i, b>>
    BY DEF ForwardDone, Intact, memory
  <1> DEFINE p == pagemap[r][i][b]
             here == {v \in WrittenPages(seq_lens) : pagemap[v[1]][v[2]][v[3]] = p}
  <1>1. i < mapped_pages[r]
    BY Numbers, LengthFits, MaxPagesType DEF ForwardDone, DataInv, BackedInv, Backed, BlockIds
  <1>2. p \in Pages
    BY <1>1 DEF IInv, PageOwnership, MappedPrefix
  <1>3. <<r, i, b>> \in here
    BY DEF WrittenPages
  <1>4. ASSUME NEW v \in here  PROVE v = <<r, i, b>>
    <2>1. v[1] \in Reqs /\ v[2] \in BlockIds /\ v[3] \in Buffers /\ v = <<v[1], v[2], v[3]>>
      BY DEF WrittenPages
    <2>2. pagemap[v[1]][v[2]][v[3]] = p /\ p # NoPage
      BY <1>2, MemoryAssumption
    <2>3. v[1] = r /\ v[2] = i /\ v[3] = b
      BY <2>1, <2>2 DEF IInv, PageOwnership, PagesExclusive
    <2>4. QED  BY <2>1, <2>3
  <1>5. contents'[p] = CHOOSE v \in here : TRUE
    BY <1>2, <1>3 DEF ForwardWrites
  <1>6. (CHOOSE v \in here : TRUE) \in here
    BY <1>3
  <1>7. QED  BY <1>2, <1>4, <1>5, <1>6

LEMMA ReleaseKeepsIntact ==
  ASSUME IInv, NEW s \in Reqs, free_batch_idx(s), ReleaseForgets(s), NEW r \in Reqs, Intact(r)
  PROVE  Intact(r)'
  <1> SUFFICES ASSUME NEW i \in BlockIds, NEW b \in Buffers, i < tokens_to_pages(resident'[r])
               PROVE  /\ pagemap[r][i][b] \in Pages
                      /\ contents'[pagemap[r][i][b]] = <<r, i, b>>
    BY DEF free_batch_idx, Intact, memory
  <1>1. r # s
    BY PagesZero, MaxPagesType DEF free_batch_idx, IInv, TypeOK, BlockIds
  <1>2. resident'[r] = resident[r]
    BY <1>1 DEF free_batch_idx, IInv, TypeOK
  <1>3. pagemap[r][i][b] \in Pages /\ contents[pagemap[r][i][b]] = <<r, i, b>>
    BY <1>2 DEF Intact
  <1>4. QED  BY <1>1, <1>3 DEF ReleaseForgets

LEMMA ContentsInvStep ==
  ASSUME IInv, IInv', MutexInv, DataInv, DataInv', ContentsInv, [ContentsNext]_<<vars, contents>>
  PROVE  ContentsInv'
  <1>0. API \in Threads /\ PcType
    BY TypeParts DEF IInv, Threads
  <1>1. CASE ForwardDone /\ ForwardWrites
    BY <1>1, ForwardKeepsIntact DEF ContentsInv
  <1>2. ASSUME NEW s \in Reqs, free_batch_idx(s), ReleaseForgets(s)  PROVE ContentsInv'
    BY <1>2, ReleaseKeepsIntact DEF ContentsInv, free_batch_idx
  <1>3. CASE Next /\ ~ForwardDone /\ (\A r \in Reqs : ~free_batch_idx(r)) /\ UNCHANGED contents
    <2> SUFFICES ASSUME pc'[API] \notin {"cleanup", "cleaned"},
                        NEW r \in Reqs, NEW i \in BlockIds, NEW b \in Buffers,
                        i < tokens_to_pages(resident'[r])
                 PROVE  /\ pagemap'[r][i][b] \in Pages
                        /\ contents'[pagemap'[r][i][b]] = <<r, i, b>>
      BY DEF ContentsInv, Intact
    <2>1. resident' = resident
      BY <1>3, ResidentFrame
    <2>2. pc[API] \notin {"cleanup", "cleaned"}
      BY <1>3, CleanupLasts
    <2>3. pagemap'[r][i] = pagemap[r][i]
      BY <1>3, <2>1, <2>2, ResidentPagesStep
    <2>4. Intact(r)
      BY <2>2 DEF ContentsInv
    <2>5. QED  BY <1>3, <2>1, <2>3, <2>4 DEF Intact
  <1>4. CASE UNCHANGED <<vars, contents>>
    BY <1>4 DEF ContentsInv, Intact, vars, memory, caller
  <1>5. QED  BY <1>1, <1>2, <1>3, <1>4 DEF ContentsNext

LEMMA AllocInvStep ==
  ASSUME IInv, AllocInv, [Next]_vars
  PROVE  AllocInv'
  <1>0. API \in Threads /\ PcType /\ IndexType /\ max_batch_size \in Nat
    BY TypeParts, SizesAssumption DEF IInv, Threads
  <1> USE <1>0 DEF PcType, IndexType, Goto
  <1>1. ASSUME pc'[API] # "alloc_scan"  PROVE AllocInv'
    BY <1>1 DEF AllocInv
  <1>2. ASSUME NEW seqlen \in Lengths \ {0}, AllocStart(seqlen)  PROVE AllocInv'
    BY <1>2 DEF AllocStart, AllocInv, Reqs
  <1>3. CASE AllocScan
    <2>1. /\ pc[API] = "alloc_scan" /\ idx[API] \in Reqs /\ idx'[API] = idx[API] + 1
          /\ UNCHANGED <<new_len, curr_seq_lengths>>
          /\ chosen'[API] = IF Better(idx[API], chosen[API]) THEN idx[API] ELSE chosen[API]
      BY <1>3 DEF AllocScan, caller
    <2>2. ASSUME chosen'[API] = -1  PROVE \A r \in Reqs : r < idx[API] + 1 => is_active_req(r)
      BY <2>1, <2>2 DEF AllocInv, Better, Reqs
    <2>3. QED  BY <2>1, <2>2 DEF AllocInv, is_active_req
  <1>4. ASSUME NEW m \in Managers, ManagerStep(m)  PROVE AllocInv'
    BY <1>4, ManagerFrame DEF AllocInv, is_active_req
  <1>5. CASE ApiCall /\ \A seqlen \in Lengths \ {0} : ~AllocStart(seqlen)
    BY <1>1, <1>5 DEF ApiCall, free_batch_idx, set_deferred_reclamation, StepAsync, StepSync, CleanupStart
  <1>6. CASE ApiStep /\ ~AllocScan
    BY <1>1, <1>6, ThreadsAssumption
       DEF ApiStep, SharedStep, ReclaimDone, AfterReclaim, ReclaimVisit, ReleaseOne, ReleaseDone,
       GrowOne, AllocReturn, CopyLength, WaitManager, SyncLength, SyncRelease, SyncReleased, NextSlot,
       PrefillSkip, PrefillDemand, GrowSync, OutOfMemory, GrowSyncDone, GrowFinished, SpawnManager,
       StepSyncReturn, ForwardDone, CleanupRelease, CleanupDone, Threads
  <1>7. CASE Stopped \/ UNCHANGED vars
    BY <1>7 DEF Stopped, vars, caller, locals, AllocInv, is_active_req
  <1>8. QED  BY <1>2, <1>3, <1>4, <1>5, <1>6, <1>7 DEF Next, ApiCall

-----------------------------------------------------------------------------
(* The refinement mapping under the invariants. *)
LEMMA ReadableIsResident == IInv /\ ContentsInv => Readable = resident
  <1> SUFFICES ASSUME IInv, ContentsInv  PROVE Readable = resident
    OBVIOUS
  <1>1. resident = [r \in Reqs |-> resident[r]]
    BY DEF IInv, TypeOK
  <1>2. KVStatus = "cleaned" \/ \A r \in Reqs : Intact(r)
    BY DEF KVStatus, ContentsInv
  <1>3. QED  BY <1>1, <1>2 DEF Readable

(* Both specifications count the same blocks. *)
LEMMA SameBlocks ==
  ASSUME NEW lens \in [Reqs -> Lengths]
  PROVE  Cache!Blocks(lens) = BlocksFor(lens)
  <1> DEFINE C == {v \in Reqs \X (0 .. max_context_length) : v[2] < tokens_to_pages(lens[v[1]])}
  <1>1. \A r \in Reqs : /\ tokens_to_pages(lens[r]) \in Nat
                        /\ tokens_to_pages(lens[r]) <= max_pages_per_req
    BY LengthFits
  <1>2. max_pages_per_req <= max_context_length
    BY SizesAssumption DEF max_pages_per_req, tokens_to_pages
  <1>3. C = Demand(lens)
    <2>1. ASSUME NEW v \in C  PROVE v \in Demand(lens)
      BY <1>1, <2>1, MaxPagesType DEF Demand, BlocksOf, BlockIds
    <2>2. ASSUME NEW v \in Demand(lens)  PROVE v \in C
      BY <1>1, <1>2, <2>2, MaxPagesType, SizesAssumption DEF Demand, BlocksOf, BlockIds
    <2>3. QED  BY <2>1, <2>2
  <1>4. Cache!Blocks(lens) = Cardinality(C)
    BY DEF Cache!Blocks, Cache!Cardinality, Cardinality, tokens_to_pages
  <1>5. QED  BY <1>3, <1>4 DEF BlocksFor

(* A step that leaves lengths, resident tokens and status alone. *)
LEMMA Stutter ==
  ASSUME IInv, IInv', ContentsInv, ContentsInv', UNCHANGED <<seq_lens, resident>>, KVStatus' = KVStatus
  PROVE  UNCHANGED Cache!cache
  <1>1. Readable = resident
    BY ReadableIsResident
  <1>2. (Readable = resident)'
    BY ReadableIsResident, PTL
  <1>3. QED  BY <1>1, <1>2 DEF Cache!cache

(* Every step of the allocator is a step of KVCache, or one the engine does  *)
(* not see.                                                                  *)
LEMMA RefinementStep ==
  ASSUME IInv, IInv', MutexInv, DataInv, OomInv', ContentsInv, ContentsInv', AllocInv,
         [ContentsNext]_<<vars, contents>>
  PROVE  [Cache!Next]_(Cache!cache)
  <1> DEFINE Goal == [Cache!Next]_(Cache!cache)
             StepLabels == {"copy", "prefill", "sync", "sync_release", "reclaim", "release", "grow", "map"}
  <1>1. Readable = resident
    BY ReadableIsResident
  <1>2. (Readable = resident)'
    BY ReadableIsResident, PTL
  <1>3. /\ API \in Threads /\ PcType /\ IndexType /\ CallerType /\ ControlInv
        /\ seq_lens \in [Reqs -> Lengths] /\ max_batch_size \in Nat
    BY TypeParts, SizesAssumption DEF IInv, Threads, TypeOK
  <1>4. ASSUME UNCHANGED <<seq_lens, resident>>,
               \/ pc'[API] = pc[API]
               \/ pc[API] = "idle" /\ pc'[API] = "alloc_scan"
               \/ pc[API] \in StepLabels /\ pc'[API] \in StepLabels
               \/ pc[API] = "cleanup" /\ pc'[API] = "cleaned"
        PROVE  Goal
    <2>1. KVStatus' = KVStatus
      BY <1>4 DEF KVStatus
    <2>2. QED  BY <1>4, <2>1, Stutter
  <1> USE <1>3 DEF PcType, IndexType, Goto
  <1>5. CASE ForwardDone
    <2>1. KVStatus = "forward" /\ KVStatus' = "idle"
      BY <1>5 DEF ForwardDone, KVStatus
    <2>2. resident' = seq_lens /\ UNCHANGED seq_lens
      BY <1>5 DEF ForwardDone
    <2>3. Cache!Written
      BY <1>2, <2>1, <2>2 DEF Cache!Written
    <2>4. QED  BY <2>3 DEF Cache!Next
  <1>6. ASSUME NEW r \in Reqs, free_batch_idx(r)  PROVE Goal
    <2>1. KVStatus = "idle" /\ KVStatus' = "idle"
      BY <1>6 DEF free_batch_idx, KVStatus
    <2>2. /\ seq_lens' = [seq_lens EXCEPT ![r] = 0]
          /\ resident' = [resident EXCEPT ![r] = 0]
      BY <1>6 DEF free_batch_idx
    <2>3. Cache!Release(r)
      BY <1>1, <1>2, <2>1, <2>2 DEF Cache!Release
    <2>4. QED  BY <2>3 DEF Cache!Next
  <1>7. CASE AllocReturn
    <2>1. pc[API] = "alloc_scan" /\ idx[API] \notin Reqs /\ UNCHANGED resident /\ KVStatus = "idle"
      BY <1>7 DEF AllocReturn, KVStatus
    <2>2. curr_seq_lengths = seq_lens
      BY <2>1 DEF DataInv, LengthsInv
    <2>3. CASE chosen[API] = -1
      <3>1. KVStatus' = "no_slot" /\ UNCHANGED seq_lens
        BY <1>7, <2>3 DEF AllocReturn, KVStatus
      <3>2. \A r \in Reqs : seq_lens[r] # 0
        BY <2>1, <2>2, <2>3, SlotOrder DEF AllocInv, is_active_req
      <3>3. Cache!Refuse
        BY <1>1, <1>2, <2>1, <3>1, <3>2 DEF Cache!Refuse
      <3>4. QED  BY <3>3 DEF Cache!Next
    <2>4. CASE chosen[API] # -1
      <3>1. chosen[API] \in Reqs
        BY <2>4 DEF Reqs
      <3>2. KVStatus' = "idle" /\ seq_lens' = [seq_lens EXCEPT ![chosen[API]] = new_len]
        BY <1>7, <2>4 DEF AllocReturn, KVStatus
      <3>3. seq_lens[chosen[API]] = 0
        BY <2>1, <2>2, <2>4 DEF DataInv, ApiLocalsInv
      <3>4. new_len \in 1 .. max_context_length
        BY <2>1, SizesAssumption DEF AllocInv, CallerType, Lengths
      <3>5. Cache!Admit(chosen[API], new_len)
        BY <1>1, <1>2, <2>1, <3>2, <3>3 DEF Cache!Admit
      <3>6. QED  BY <3>1, <3>4, <3>5 DEF Cache!Next
    <2>5. QED  BY <2>3, <2>4
  <1>8. ASSUME NEW lens \in StepLengths, StepAsync(lens) \/ StepSync(lens)  PROVE Goal
    <2>1. KVStatus = "idle" /\ KVStatus' = "step" /\ seq_lens' = lens /\ UNCHANGED resident
      BY <1>8 DEF StepAsync, StepSync, KVStatus
    <2>2. /\ curr_seq_lengths = seq_lens
          /\ \A r \in Reqs : resident[r] <= curr_seq_lengths[r]
      BY <1>8 DEF StepAsync, StepSync, DataInv, LengthsInv
    <2>3. \A r \in Reqs : lens[r] >= seq_lens[r]
      BY <2>2 DEF StepLengths
    <2>4. ASSUME NEW r \in Reqs, seq_lens[r] = 0  PROVE lens[r] = 0
      <3>1. resident[r] = 0
        BY <2>2, <2>4, Numbers, LengthFits
      <3>2. QED  BY <2>2, <2>4, <3>1 DEF StepLengths
    <2>5. lens \in [Reqs -> 0 .. max_context_length]
      BY DEF StepLengths, Lengths
    <2>6. Cache!Submit
      BY <1>1, <1>2, <2>1, <2>3, <2>4, <2>5 DEF Cache!Submit
    <2>7. QED  BY <2>6 DEF Cache!Next
  <1>9. CASE StepSyncReturn \/ \E m \in Managers : SpawnManager(m)
    <2>1. /\ pc[API] \in Stepping /\ idx[API] \notin Reqs /\ UNCHANGED <<seq_lens, resident>>
          /\ KVStatus = "step" /\ pc'[API] = "forward"
      BY <1>9, ThreadsAssumption DEF StepSyncReturn, SpawnManager, Stepping, KVStatus, caller, Threads
    <2>2. KVStatus' = "forward"
      BY <2>1 DEF KVStatus
    <2>3. \A r \in Reqs : Backed(r, seq_lens[r])
      BY <2>1, SlotOrder DEF DataInv, BackedInv
    <2>4. BlocksFor(seq_lens) <= TotalBlocks
      BY <2>1, <2>3, BackedFits DEF Stepping
    <2>5. Cache!Blocks(seq_lens) <= TotalBlocks
      BY <2>4, SameBlocks
    <2>6. Cache!Accept
      BY <1>1, <1>2, <2>1, <2>2, <2>5 DEF Cache!Accept
    <2>7. QED  BY <2>6 DEF Cache!Next
  <1>10. CASE OutOfMemory
    <2>1. KVStatus = "step" /\ KVStatus' = "oom" /\ UNCHANGED <<seq_lens, resident>> /\ pc'[API] = "oom"
      BY <1>10 DEF OutOfMemory, KVStatus, caller
    <2>2. BlocksFor(seq_lens)' > TotalBlocks
      BY <2>1 DEF OomInv, OomOnlyIfOversubscribed, TotalBlocks
    <2>3. BlocksFor(seq_lens) > TotalBlocks
      BY <2>1, <2>2 DEF BlocksFor, Demand
    <2>4. Cache!Blocks(seq_lens) > TotalBlocks
      BY <2>3, SameBlocks
    <2>5. Cache!Reject
      BY <1>1, <1>2, <2>1, <2>4 DEF Cache!Reject
    <2>6. QED  BY <2>5 DEF Cache!Next
  <1>11. CASE CleanupStart
    <2>1. KVStatus = "idle" /\ KVStatus' = "cleaned" /\ UNCHANGED <<seq_lens, resident>>
      BY <1>11 DEF CleanupStart, KVStatus, caller
    <2>2. Cache!Teardown
      BY <1>1, <1>2, <2>1 DEF Cache!Teardown
    <2>3. QED  BY <2>2 DEF Cache!Next
  <1>12. ASSUME NEW m \in Managers, ManagerStep(m)  PROVE Goal
    BY <1>4, <1>12, ManagerFrame
  <1>13. CASE (\E seqlen \in Lengths \ {0} : AllocStart(seqlen))
              \/ (\E val \in BOOLEAN : set_deferred_reclamation(val)) \/ AllocScan
    BY <1>4, <1>13 DEF AllocStart, set_deferred_reclamation, AllocScan, caller
  <1>14. CASE SharedStep(API)
    BY <1>4, <1>14 DEF SharedStep, ReclaimDone, AfterReclaim, ReclaimVisit, ReleaseOne, ReleaseDone,
       GrowOne, caller
  <1>15. CASE \/ (\E r \in Reqs : CopyLength(r)) \/ WaitManager \/ SyncLength \/ SyncRelease \/ SyncReleased
    BY <1>4, <1>15 DEF CopyLength, WaitManager, SyncLength, SyncRelease, SyncReleased, caller
  <1>16. CASE PrefillSkip \/ PrefillDemand \/ GrowSync \/ GrowSyncDone
    BY <1>4, <1>16 DEF PrefillSkip, PrefillDemand, GrowSync, GrowSyncDone, GrowFinished, NextSlot, caller
  <1>17. CASE CleanupRelease \/ CleanupDone
    BY <1>4, <1>17 DEF CleanupRelease, CleanupDone, caller
  <1>18. CASE Stopped \/ UNCHANGED vars
    BY <1>4, <1>18 DEF Stopped, vars, caller
  <1>19. QED
    BY <1>5, <1>6, <1>7, <1>8, <1>9, <1>10, <1>11, <1>12, <1>13, <1>14, <1>15, <1>16, <1>17, <1>18,
       ContentsStep
       DEF Next, ApiCall, ApiStep

(* The allocator, whatever its manager maps, reclaims and hands to other     *)
(* requests, implements KVCache: alloc_new_batch_idx refuses only if every   *)
(* slot is taken, step and step_async accept exactly the lengths that fit    *)
(* into memory, and the keys and values a forward pass has written stay      *)
(* readable until the slot is freed.                                         *)
THEOREM RefinesKVCache ==
  ASSUME StartsDuringForward
  PROVE  ContentsSpec => ImplementsKVCache
  <1>1. ContentsInit => Cache!Init /\ ContentsInv /\ AllocInv
    <2> SUFFICES ASSUME ContentsInit  PROVE Cache!Init /\ ContentsInv /\ AllocInv
      OBVIOUS
    <2>1. /\ pc[API] = "idle" /\ seq_lens = [r \in Reqs |-> 0] /\ resident = [r \in Reqs |-> 0]
      BY DEF ContentsInit, Init, Threads
    <2>2. \A r \in Reqs : Intact(r)
      BY <2>1, PagesZero, MaxPagesType DEF Intact, BlockIds
    <2>3. IInv
      BY InitIInv DEF ContentsInit
    <2>4. ContentsInv /\ AllocInv
      BY <2>1, <2>2 DEF ContentsInv, AllocInv
    <2>5. Readable = resident
      BY <2>3, <2>4, ReadableIsResident
    <2>6. QED  BY <2>1, <2>4, <2>5 DEF Cache!Init, KVStatus
  <1>2. IInv /\ IInv' /\ MutexInv /\ DataInv /\ DataInv' /\ ContentsInv
          /\ [ContentsNext]_<<vars, contents>> => ContentsInv'
    BY ContentsInvStep
  <1>3. IInv /\ AllocInv /\ [ContentsNext]_<<vars, contents>> => AllocInv'
    BY ContentsStep, AllocInvStep
  <1>4. ContentsSpec => [](IInv /\ MutexInv /\ DataInv /\ OomInv)
    BY ContentsSpecImplies, Invariant, MutexInvariant, DataInvariant, OomInvariant, PTL
  <1>5. ContentsSpec => [](ContentsInv /\ AllocInv)
    BY <1>1, <1>2, <1>3, <1>4, PTL DEF ContentsSpec
  <1>6. IInv /\ IInv' /\ MutexInv /\ DataInv /\ OomInv' /\ ContentsInv /\ ContentsInv' /\ AllocInv
          /\ [ContentsNext]_<<vars, contents>> => [Cache!Next]_(Cache!cache)
    BY RefinementStep
  <1>7. QED
    BY <1>1, <1>4, <1>5, <1>6, PTL DEF ContentsSpec, ImplementsKVCache, Cache!Spec
==========================================================================
