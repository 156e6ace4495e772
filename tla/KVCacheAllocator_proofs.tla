---------------------- MODULE KVCacheAllocator_proofs ----------------------
(***************************************************************************)
(* Proofs about KVCacheAllocator, for any number of slots, pages, tensors  *)
(* and manager threads, and for any page and context size, in three parts: *)
(* types, page ownership and mutual exclusion; the KV entries of a running *)
(* request; counting blocks.                                               *)
(***************************************************************************)
EXTENDS KVCacheAllocator, FiniteSetTheorems, TLAPS

-----------------------------------------------------------------------------
(* tokens_to_pages is a natural number and monotone; nothing else about the  *)
(* division is used below.                                                   *)

LEMMA DivType == ASSUME NEW n \in Nat, NEW d \in Nat \ {0} PROVE n \div d \in Nat
  OBVIOUS

LEMMA DivMono ==
  ASSUME NEW n \in Nat, NEW m \in Nat, n <= m, NEW d \in Nat \ {0}
  PROVE  n \div d <= m \div d
  OBVIOUS

LEMMA PagesType == \A n \in Nat : tokens_to_pages(n) \in Nat
  BY DivType, SizesAssumption DEF tokens_to_pages

LEMMA PagesMono == \A n, k \in Nat : n <= k => tokens_to_pages(n) <= tokens_to_pages(k)
  BY DivMono, SizesAssumption DEF tokens_to_pages

LEMMA MaxPagesType == max_pages_per_req \in Nat
  BY PagesType, SizesAssumption DEF max_pages_per_req

-----------------------------------------------------------------------------
(* Types and page ownership. *)

(* Loop indices are slots wherever an action uses them as one. *)
ControlInv ==
  /\ \A t \in Threads : pc[t] = "release" => victim[t] \in Reqs
  /\ \A t \in Threads : pc[t] = "map" => idx[t] \in Reqs
  /\ pc[API] \in {"grow", "reclaim", "release", "sync_release"} => idx[API] \in Reqs
  /\ \A m \in Managers : pc[m] = "unmap_one" => victim[m] \in Reqs

MemoryType ==
  /\ freePages \in SUBSET Pages
  /\ pagemap \in [Reqs -> [BlockIds -> [Buffers -> Pages \cup {NoPage}]]]
  /\ mapped_pages \in [Reqs -> 0 .. max_pages_per_req]

EveryPageOwned ==
  \A p \in Pages \ freePages :
    \E r \in Reqs : \E i \in BlockIds : \E b \in Buffers : pagemap[r][i][b] = p

IInv == TypeOK /\ ControlInv /\ PageOwnership

(* Mapping a block takes pages that are in the pool, hence in no slot. *)
LEMMA MapBlockOwnership ==
  ASSUME MemoryType, MappedPrefix, PagesExclusive,
         NEW r \in Reqs, mapped_pages[r] < max_pages_per_req, MapBlock(r)
  PROVE  /\ MemoryType' /\ MappedPrefix' /\ PagesExclusive'
         /\ EveryPageOwned => EveryPageOwned'
  <1> DEFINE n == mapped_pages[r]
  <1>1. PICK block \in [Buffers -> freePages] :
          /\ \A b, c \in Buffers : block[b] = block[c] => b = c
          /\ freePages' = freePages \ {block[b] : b \in Buffers}
          /\ pagemap' = [pagemap EXCEPT ![r][n] = block]
          /\ mapped_pages' = [mapped_pages EXCEPT ![r] = @ + 1]
    BY DEF MapBlock
  <1>2. n \in BlockIds /\ n \in Nat /\ n + 1 \in 0 .. max_pages_per_req
    BY MaxPagesType DEF MemoryType, BlockIds
  <1>3. \A s \in Reqs : \A i \in BlockIds :
          pagemap'[s][i] = IF s = r /\ i = n THEN block ELSE pagemap[s][i]
    BY <1>1, <1>2 DEF MemoryType
  <1>4. \A s \in Reqs : mapped_pages'[s] = IF s = r THEN n + 1 ELSE mapped_pages[s]
    BY <1>1 DEF MemoryType
  <1>5. MemoryType'
    BY <1>1, <1>2 DEF MemoryType
  <1>6. MappedPrefix'
    <2> SUFFICES ASSUME NEW s \in Reqs, NEW i \in BlockIds, NEW b \in Buffers
                 PROVE  IF i < mapped_pages'[s]
                        THEN pagemap'[s][i][b] \in Pages \ freePages'
                        ELSE pagemap'[s][i][b] = NoPage
      BY DEF MappedPrefix
    <2>1. CASE s = r /\ i = n
      BY <2>1, <1>1, <1>2, <1>3, <1>4 DEF MemoryType
    <2>2. CASE ~(s = r /\ i = n)
      <3>1. i \in Int /\ (i < mapped_pages'[s] <=> i < mapped_pages[s])
        BY <2>2, <1>2, <1>4 DEF BlockIds, MemoryType
      <3>2. pagemap'[s][i] = pagemap[s][i]
        BY <2>2, <1>3
      <3>3. QED  BY <3>1, <3>2, <1>1 DEF MappedPrefix
    <2>3. QED  BY <2>1, <2>2
  <1>7. PagesExclusive'
    <2> SUFFICES ASSUME NEW s \in Reqs, NEW u \in Reqs, NEW i \in BlockIds,
                        NEW j \in BlockIds, NEW b \in Buffers, NEW c \in Buffers,
                        pagemap'[s][i][b] = pagemap'[u][j][c],
                        pagemap'[s][i][b] # NoPage
                 PROVE  s = u /\ i = j /\ b = c
      BY DEF PagesExclusive
    <2>1. \A q \in Reqs : \A k \in BlockIds : \A d \in Buffers : pagemap[q][k][d] \notin freePages
      BY MemoryAssumption DEF MappedPrefix, MemoryType
    <2>2. CASE s = r /\ i = n
      BY <2>1, <2>2, <1>1, <1>3
    <2>3. CASE u = r /\ j = n
      BY <2>1, <2>3, <1>1, <1>3
    <2>4. CASE ~(s = r /\ i = n) /\ ~(u = r /\ j = n)
      BY <2>4, <1>3 DEF PagesExclusive
    <2>5. QED  BY <2>2, <2>3, <2>4
  <1>8. ASSUME EveryPageOwned  PROVE EveryPageOwned'
    <2> SUFFICES ASSUME NEW p \in Pages, p \notin freePages'
                 PROVE  \E s \in Reqs : \E i \in BlockIds : \E b \in Buffers : pagemap'[s][i][b] = p
      BY DEF EveryPageOwned
    <2>1. CASE p \in freePages
      <3>1. PICK b \in Buffers : block[b] = p
        BY <2>1, <1>1
      <3>2. pagemap'[r][n][b] = p
        BY <3>1, <1>2, <1>3
      <3>3. QED  BY <3>2, <1>2
    <2>2. CASE p \notin freePages
      <3>1. PICK s \in Reqs, i \in BlockIds, b \in Buffers : pagemap[s][i][b] = p
        BY <2>2, <1>8 DEF EveryPageOwned
      <3>2. ~(s = r /\ i = n)
        BY <3>1, <1>2, MemoryAssumption DEF MappedPrefix
      <3>3. pagemap'[s][i][b] = p
        BY <3>1, <3>2, <1>3
      <3>4. QED  BY <3>3
    <2>3. QED  BY <2>1, <2>2
  <1>9. QED  BY <1>5, <1>6, <1>7, <1>8

(* Unmapping a block returns pages that no other slot holds. *)
LEMMA UnmapBlockOwnership ==
  ASSUME MemoryType, MappedPrefix, PagesExclusive,
         NEW r \in Reqs, unmap_req_page_one(r)
  PROVE  /\ MemoryType' /\ MappedPrefix' /\ PagesExclusive'
         /\ EveryPageOwned => EveryPageOwned'
  <1> DEFINE n == mapped_pages[r] - 1
  <1>1. /\ mapped_pages[r] > 0
        /\ freePages' = freePages \cup {pagemap[r][n][b] : b \in Buffers}
        /\ pagemap' = [pagemap EXCEPT ![r][n] = NoBlock]
        /\ mapped_pages' = [mapped_pages EXCEPT ![r] = n]
    BY DEF unmap_req_page_one
  <1>2. n \in BlockIds /\ n \in Nat /\ n \in 0 .. max_pages_per_req /\ n < mapped_pages[r]
    BY <1>1, MaxPagesType DEF MemoryType, BlockIds
  <1>3. \A s \in Reqs : \A i \in BlockIds :
          pagemap'[s][i] = IF s = r /\ i = n THEN NoBlock ELSE pagemap[s][i]
    BY <1>1, <1>2 DEF MemoryType
  <1>4. \A s \in Reqs : mapped_pages'[s] = IF s = r THEN n ELSE mapped_pages[s]
    BY <1>1 DEF MemoryType
  <1>5. \A b \in Buffers : pagemap[r][n][b] \in Pages
    BY <1>2 DEF MappedPrefix
  <1>6. MemoryType'
    <2>1. NoBlock \in [Buffers -> Pages \cup {NoPage}]
      BY DEF NoBlock
    <2>2. QED  BY <2>1, <1>1, <1>2, <1>5 DEF MemoryType
  <1>7. MappedPrefix'
    <2> SUFFICES ASSUME NEW s \in Reqs, NEW i \in BlockIds, NEW b \in Buffers
                 PROVE  IF i < mapped_pages'[s]
                        THEN pagemap'[s][i][b] \in Pages \ freePages'
                        ELSE pagemap'[s][i][b] = NoPage
      BY DEF MappedPrefix
    <2>1. CASE s = r /\ i = n
      BY <2>1, <1>2, <1>3, <1>4 DEF NoBlock
    <2>2. CASE ~(s = r /\ i = n)
      <3>1. i \in Int /\ (i < mapped_pages'[s] <=> i < mapped_pages[s])
        BY <2>2, <1>2, <1>4 DEF BlockIds, MemoryType
      <3>2. pagemap'[s][i] = pagemap[s][i]
        BY <2>2, <1>3
      <3>3. ASSUME i < mapped_pages[s]  PROVE pagemap[s][i][b] \in Pages \ freePages'
        <4>1. pagemap[s][i][b] \in Pages \ freePages
          BY <3>3 DEF MappedPrefix
        <4>2. \A c \in Buffers : pagemap[r][n][c] # pagemap[s][i][b]
          BY <4>1, <2>2, <1>2, MemoryAssumption DEF PagesExclusive
        <4>3. QED  BY <4>1, <4>2, <1>1
      <3>4. QED  BY <3>1, <3>2, <3>3 DEF MappedPrefix
    <2>3. QED  BY <2>1, <2>2
  <1>8. PagesExclusive'
    BY <1>3 DEF PagesExclusive, NoBlock
  <1>9. ASSUME EveryPageOwned  PROVE EveryPageOwned'
    <2> SUFFICES ASSUME NEW p \in Pages, p \notin freePages'
                 PROVE  \E s \in Reqs : \E i \in BlockIds : \E b \in Buffers : pagemap'[s][i][b] = p
      BY DEF EveryPageOwned
    <2>1. p \notin freePages /\ \A b \in Buffers : pagemap[r][n][b] # p
      BY <1>1
    <2>2. PICK s \in Reqs, i \in BlockIds, b \in Buffers : pagemap[s][i][b] = p
      BY <2>1, <1>9 DEF EveryPageOwned
    <2>3. pagemap'[s][i][b] = p
      BY <2>1, <2>2, <1>3
    <2>4. QED  BY <2>3
  <1>10. QED  BY <1>6, <1>7, <1>8, <1>9

LEMMA NeedType ==
  ASSUME TypeOK, NEW r \in Reqs, NEW n \in Nat
  PROVE  need_new_page_async(r, n) \in Nat
  <1>1. tokens_to_pages(curr_seq_lengths[r] + n) \in Nat
    BY PagesType, SizesAssumption DEF TypeOK, Lengths
  <1>2. QED  BY <1>1, MaxPagesType DEF TypeOK, need_new_page_async

(* Every step keeps the page table consistent. *)
LEMMA OwnershipStep ==
  ASSUME IInv, [Next]_vars
  PROVE  MemoryType' /\ PageOwnership'
  <1>1. MemoryType /\ MappedPrefix /\ PagesExclusive
    BY DEF IInv, TypeOK, MemoryType, PageOwnership
  <1>2. pc[API] # "cleaned" => EveryPageOwned
    BY DEF IInv, PageOwnership, NoPageLeaked, EveryPageOwned
  <1>3. ASSUME NEW r \in Reqs, unmap_req_page_one(r), pc[API] = "cleaned" => pc'[API] = "cleaned"
        PROVE  MemoryType' /\ PageOwnership'
    BY <1>1, <1>2, <1>3, UnmapBlockOwnership DEF PageOwnership, NoPageLeaked, EveryPageOwned
  <1>4. ASSUME NEW r \in Reqs, MapBlock(r), mapped_pages[r] < max_pages_per_req,
               pc[API] = "cleaned" => pc'[API] = "cleaned"
        PROVE  MemoryType' /\ PageOwnership'
    BY <1>1, <1>2, <1>4, MapBlockOwnership DEF PageOwnership, NoPageLeaked, EveryPageOwned
  <1>5. ASSUME UNCHANGED memory, pc[API] = "cleaned" => pc'[API] = "cleaned"
        PROVE  MemoryType' /\ PageOwnership'
    BY <1>1, <1>2, <1>5
       DEF PageOwnership, MappedPrefix, PagesExclusive, NoPageLeaked, EveryPageOwned, MemoryType, memory
  <1> USE DEF Goto, Threads
  <1>6. ASSUME NEW t \in Threads, SharedStep(t)  PROVE MemoryType' /\ PageOwnership'
    <2>1. CASE ReclaimDone(t) \/ ReclaimVisit(t) \/ ReleaseDone(t)
      BY <2>1, <1>5 DEF ReclaimDone, ReclaimVisit, ReleaseDone, AfterReclaim, IInv, TypeOK, memory
    <2>2. CASE ReleaseOne(t)
      BY <2>2, <1>3 DEF ReleaseOne, IInv, ControlInv
    <2>3. CASE GrowOne(t)
      BY <2>3, <1>4 DEF GrowOne, is_valid_offset, IInv, ControlInv
    <2>4. QED  BY <1>6, <2>1, <2>2, <2>3 DEF SharedStep
  <1>7. CASE ApiCall
    BY <1>5, <1>7
       DEF ApiCall, AllocStart, free_batch_idx, set_deferred_reclamation, StepAsync, StepSync,
           CleanupStart, memory
  <1>8. CASE ApiStep
    <2>1. CASE SharedStep(API)
      BY <2>1, <1>6
    <2>2. CASE SyncRelease
      BY <2>2, <1>3 DEF SyncRelease, IInv, ControlInv
    <2>3. CASE CleanupRelease
      <3>1. CASE mapped_pages[idx[API]] > 0
        BY <2>3, <3>1, <1>3 DEF CleanupRelease
      <3>2. CASE ~(mapped_pages[idx[API]] > 0)
        BY <2>3, <3>2, <1>5 DEF CleanupRelease, memory
      <3>3. QED  BY <3>1, <3>2
    <2>4. CASE CleanupDone
      <3>1. pc'[API] = "cleaned"
        BY <2>4, ThreadsAssumption DEF CleanupDone, IInv, TypeOK
      <3>2. QED
        BY <3>1, <2>4, <1>1 DEF CleanupDone, PageOwnership, MappedPrefix, PagesExclusive, NoPageLeaked, MemoryType
    <2>5. CASE \/ AllocScan \/ AllocReturn \/ (\E r \in Reqs : CopyLength(r)) \/ WaitManager
               \/ SyncLength \/ SyncReleased \/ PrefillSkip \/ PrefillDemand
      BY <2>5, <1>5
         DEF AllocScan, AllocReturn, CopyLength, WaitManager, SyncLength, SyncReleased,
             PrefillSkip, PrefillDemand, memory
    <2>6. CASE \/ GrowSync \/ OutOfMemory \/ GrowSyncDone \/ (\E m \in Managers : SpawnManager(m))
               \/ StepSyncReturn \/ ForwardDone
      BY <2>6, <1>5
         DEF GrowSync, OutOfMemory, GrowSyncDone, GrowFinished, SpawnManager, StepSyncReturn,
             ForwardDone, memory
    <2>7. QED  BY <1>8, <2>1, <2>2, <2>3, <2>4, <2>5, <2>6 DEF ApiStep
  <1>9. ASSUME NEW m \in Managers, ManagerStep(m)  PROVE MemoryType' /\ PageOwnership'
    <2>1. m # API
      BY ThreadsAssumption
    <2>2. CASE SharedStep(m)
      BY <2>2, <1>6
    <2>3. CASE UnmapVictim(m)
      BY <2>1, <2>3, <1>3 DEF UnmapVictim, IInv, ControlInv, TypeOK
    <2>4. CASE \/ ManagerStart(m) \/ ManagerNeed(m) \/ ManagerNeedDone(m) \/ ManagerRecheck(m)
               \/ EagerGrow(m) \/ EagerGrowDone(m)
      BY <2>1, <2>4, <1>5
         DEF ManagerStart, ManagerNeed, ManagerNeedDone, ManagerRecheck, EagerGrow, EagerGrowDone,
             IInv, TypeOK, memory
    <2>5. CASE \/ EagerNextStep(m) \/ EagerDone(m) \/ ScanPrefill(m) \/ ScanVictim(m) \/ ManagerFinish(m)
      BY <2>1, <2>5, <1>5
         DEF EagerNextStep, EagerDone, ScanPrefill, ScanVictim, ManagerFinish, IInv, TypeOK, memory
    <2>6. QED  BY <1>9, <2>2, <2>3, <2>4, <2>5 DEF ManagerStep
  <1>10. CASE Stopped \/ UNCHANGED vars
    BY <1>5, <1>10 DEF Stopped, vars
  <1>11. QED  BY <1>7, <1>8, <1>9, <1>10 DEF Next


(* TypeOK in parts. *)
PcType ==
  /\ pc \in [Threads -> ApiLabels \cup ManagerLabels]
  /\ pc[API] \in ApiLabels
  /\ \A m \in Managers : pc[m] \in ManagerLabels

CallerType ==
  /\ curr_seq_lengths \in [Reqs -> Lengths]
  /\ deferred_reclaim \in BOOLEAN
  /\ mem_manager_running \in BOOLEAN
  /\ seq_lens \in [Reqs -> Lengths]
  /\ new_len \in Lengths
  /\ uncopied \in SUBSET Reqs
  /\ resident \in [Reqs -> Lengths]

IndexType ==
  /\ idx \in [Threads -> 0 .. max_batch_size]
  /\ victim \in [Threads -> -1 .. max_batch_size - 1]
  /\ chosen \in [Threads -> -1 .. max_batch_size - 1]

CountType ==
  /\ nr_required \in [Threads -> Nat]
  /\ retain \in [Threads -> Nat]
  /\ left \in [Threads -> Nat]
  /\ eager \in [Threads -> Nat]
  /\ nr_mapped_curr \in [Threads -> Nat]

LEMMA TypeParts == TypeOK <=> MemoryType /\ PcType /\ CallerType /\ IndexType /\ CountType
  BY DEF TypeOK, MemoryType, PcType, CallerType, IndexType, CountType

(* Every step keeps control points of the right kind of thread. *)
LEMMA PcStep ==
  ASSUME PcType, [Next]_vars
  PROVE  PcType'
  <1> USE ThreadsAssumption DEF PcType, Threads, ApiLabels, ManagerLabels, Goto
  <1>1. ASSUME NEW t \in Threads, ReclaimDone(t)  PROVE PcType'
    BY <1>1 DEF ReclaimDone, AfterReclaim
  <1>2. ASSUME NEW t \in Threads, ReclaimVisit(t)  PROVE PcType'
    BY <1>2 DEF ReclaimVisit
  <1>3. ASSUME NEW t \in Threads, ReleaseOne(t)  PROVE PcType'
    BY <1>3 DEF ReleaseOne
  <1>4. ASSUME NEW t \in Threads, ReleaseDone(t)  PROVE PcType'
    BY <1>4 DEF ReleaseDone
  <1>5. ASSUME NEW t \in Threads, GrowOne(t)  PROVE PcType'
    BY <1>5 DEF GrowOne
  <1>6. ASSUME AllocScan  PROVE PcType'
    BY <1>6 DEF AllocScan
  <1>7. ASSUME AllocReturn  PROVE PcType'
    BY <1>7 DEF AllocReturn
  <1>8. ASSUME WaitManager  PROVE PcType'
    BY <1>8 DEF WaitManager
  <1>9. ASSUME SyncLength  PROVE PcType'
    BY <1>9 DEF SyncLength
  <1>10. ASSUME SyncRelease  PROVE PcType'
    BY <1>10 DEF SyncRelease
  <1>11. ASSUME SyncReleased  PROVE PcType'
    BY <1>11 DEF SyncReleased
  <1>12. ASSUME PrefillSkip  PROVE PcType'
    BY <1>12 DEF PrefillSkip, NextSlot
  <1>13. ASSUME PrefillDemand  PROVE PcType'
    BY <1>13 DEF PrefillDemand
  <1>14. ASSUME GrowSync  PROVE PcType'
    BY <1>14 DEF GrowSync
  <1>15. ASSUME OutOfMemory  PROVE PcType'
    BY <1>15 DEF OutOfMemory
  <1>16. ASSUME GrowSyncDone  PROVE PcType'
    BY <1>16 DEF GrowSyncDone, NextSlot, GrowFinished
  <1>17. ASSUME StepSyncReturn  PROVE PcType'
    BY <1>17 DEF StepSyncReturn
  <1>18. ASSUME ForwardDone  PROVE PcType'
    BY <1>18 DEF ForwardDone
  <1>19. ASSUME CleanupStart  PROVE PcType'
    BY <1>19 DEF CleanupStart
  <1>20. ASSUME CleanupRelease  PROVE PcType'
    BY <1>20 DEF CleanupRelease
  <1>21. ASSUME CleanupDone  PROVE PcType'
    BY <1>21 DEF CleanupDone
  <1>22. ASSUME NEW seqlen \in Lengths \ {0}, AllocStart(seqlen)  PROVE PcType'
    BY <1>22 DEF AllocStart
  <1>23. ASSUME NEW r \in Reqs, free_batch_idx(r)  PROVE PcType'
    BY <1>23 DEF free_batch_idx
  <1>24. ASSUME NEW val \in BOOLEAN, set_deferred_reclamation(val)  PROVE PcType'
    BY <1>24 DEF set_deferred_reclamation
  <1>25. ASSUME NEW lens \in StepLengths, StepAsync(lens)  PROVE PcType'
    BY <1>25 DEF StepAsync
  <1>26. ASSUME NEW lens \in StepLengths, StepSync(lens)  PROVE PcType'
    BY <1>26 DEF StepSync
  <1>27. ASSUME NEW r \in Reqs, CopyLength(r)  PROVE PcType'
    BY <1>27 DEF CopyLength
  <1>28. ASSUME NEW m \in Managers, SpawnManager(m)  PROVE PcType'
    BY <1>28 DEF SpawnManager
  <1>29. ASSUME NEW m \in Managers, ManagerStart(m)  PROVE PcType'
    BY <1>29 DEF ManagerStart
  <1>30. ASSUME NEW m \in Managers, ManagerNeed(m)  PROVE PcType'
    BY <1>30 DEF ManagerNeed
  <1>31. ASSUME NEW m \in Managers, ManagerNeedDone(m)  PROVE PcType'
    BY <1>31 DEF ManagerNeedDone
  <1>32. ASSUME NEW m \in Managers, ManagerRecheck(m)  PROVE PcType'
    BY <1>32 DEF ManagerRecheck
  <1>33. ASSUME NEW m \in Managers, EagerGrow(m)  PROVE PcType'
    BY <1>33 DEF EagerGrow
  <1>34. ASSUME NEW m \in Managers, EagerGrowDone(m)  PROVE PcType'
    BY <1>34 DEF EagerGrowDone, GrowFinished
  <1>35. ASSUME NEW m \in Managers, EagerNextStep(m)  PROVE PcType'
    BY <1>35 DEF EagerNextStep
  <1>36. ASSUME NEW m \in Managers, EagerDone(m)  PROVE PcType'
    BY <1>36 DEF EagerDone
  <1>37. ASSUME NEW m \in Managers, ScanPrefill(m)  PROVE PcType'
    BY <1>37 DEF ScanPrefill
  <1>38. ASSUME NEW m \in Managers, ScanVictim(m)  PROVE PcType'
    BY <1>38 DEF ScanVictim
  <1>39. ASSUME NEW m \in Managers, UnmapVictim(m)  PROVE PcType'
    BY <1>39 DEF UnmapVictim
  <1>40. ASSUME NEW m \in Managers, ManagerFinish(m)  PROVE PcType'
    BY <1>40 DEF ManagerFinish
  <1>41. CASE Stopped \/ UNCHANGED vars
    BY <1>41 DEF Stopped, vars
  <1>42. QED
    BY <1>1, <1>2, <1>3, <1>4, <1>5, <1>6, <1>7, <1>8, <1>9, <1>10, <1>11, <1>12,
       <1>13, <1>14, <1>15, <1>16, <1>17, <1>18, <1>19, <1>20, <1>21, <1>22, <1>23,
       <1>24, <1>25, <1>26, <1>27, <1>28, <1>29, <1>30, <1>31, <1>32, <1>33, <1>34,
       <1>35, <1>36, <1>37, <1>38, <1>39, <1>40, <1>41
       DEF Next, ApiCall, ApiStep, ManagerStep, SharedStep

LEMMA CallerStep ==
  ASSUME IInv, [Next]_vars
  PROVE  CallerType'
  <1>0. CallerType /\ chosen \in [Threads -> -1 .. max_batch_size - 1]
    BY TypeParts DEF IInv, IndexType
  <1> USE <1>0, SizesAssumption, ThreadsAssumption DEF CallerType, Threads, Lengths, caller
  <1>1. ASSUME AllocReturn  PROVE CallerType'
    <2>1. CASE chosen[API] = -1
      BY <1>1, <2>1 DEF AllocReturn
    <2>2. CASE chosen[API] # -1
      <3>1. curr_seq_lengths' \in [Reqs -> Lengths] /\ seq_lens' \in [Reqs -> Lengths]
        BY <1>1, <2>2 DEF AllocReturn
      <3>2. QED  BY <1>1, <3>1 DEF AllocReturn
    <2>3. QED  BY <2>1, <2>2
  <1>2. ASSUME SyncLength  PROVE CallerType'
    BY <1>2
       DEF SyncLength
  <1>3. ASSUME GrowSyncDone  PROVE CallerType'
    BY <1>3
       DEF GrowSyncDone
  <1>4. ASSUME ForwardDone  PROVE CallerType'
    BY <1>4
       DEF ForwardDone
  <1>5. ASSUME NEW seqlen \in Lengths \ {0}, AllocStart(seqlen)  PROVE CallerType'
    BY <1>5
       DEF AllocStart
  <1>6. ASSUME NEW r \in Reqs, free_batch_idx(r)  PROVE CallerType'
    BY <1>6
       DEF free_batch_idx
  <1>7. ASSUME NEW val \in BOOLEAN, set_deferred_reclamation(val)  PROVE CallerType'
    BY <1>7
       DEF set_deferred_reclamation
  <1>8. ASSUME NEW lens \in StepLengths, StepAsync(lens)  PROVE CallerType'
    BY <1>8
       DEF StepAsync, StepLengths
  <1>9. ASSUME NEW lens \in StepLengths, StepSync(lens)  PROVE CallerType'
    BY <1>9
       DEF StepSync, StepLengths
  <1>10. ASSUME NEW r \in Reqs, CopyLength(r)  PROVE CallerType'
    BY <1>10
       DEF CopyLength
  <1>11. ASSUME NEW m \in Managers, ManagerStart(m)  PROVE CallerType'
    BY <1>11
       DEF ManagerStart
  <1>12. ASSUME NEW m \in Managers, ManagerFinish(m)  PROVE CallerType'
    BY <1>12
       DEF ManagerFinish
  <1>13. CASE \/ (\E t \in Threads : ReclaimDone(t))
             \/ (\E t \in Threads : ReclaimVisit(t))
             \/ (\E t \in Threads : ReleaseOne(t))
             \/ (\E t \in Threads : ReleaseDone(t))
             \/ (\E t \in Threads : GrowOne(t))
             \/ AllocScan
             \/ WaitManager
    BY <1>13
       DEF ReclaimDone, ReclaimVisit, ReleaseOne, ReleaseDone, GrowOne, AllocScan,
       WaitManager
  <1>14. CASE \/ SyncRelease
             \/ SyncReleased
             \/ PrefillSkip
             \/ PrefillDemand
             \/ GrowSync
             \/ OutOfMemory
             \/ StepSyncReturn
    BY <1>14
       DEF SyncRelease, SyncReleased, PrefillSkip, PrefillDemand, GrowSync, OutOfMemory,
       StepSyncReturn
  <1>15. CASE \/ CleanupStart
             \/ CleanupRelease
             \/ CleanupDone
             \/ (\E m \in Managers : SpawnManager(m))
             \/ (\E m \in Managers : ManagerNeed(m))
             \/ (\E m \in Managers : ManagerNeedDone(m))
             \/ (\E m \in Managers : ManagerRecheck(m))
    BY <1>15
       DEF CleanupStart, CleanupRelease, CleanupDone, SpawnManager, ManagerNeed,
       ManagerNeedDone, ManagerRecheck
  <1>16. CASE \/ (\E m \in Managers : EagerGrow(m))
             \/ (\E m \in Managers : EagerGrowDone(m))
             \/ (\E m \in Managers : EagerNextStep(m))
             \/ (\E m \in Managers : EagerDone(m))
             \/ (\E m \in Managers : ScanPrefill(m))
             \/ (\E m \in Managers : ScanVictim(m))
             \/ (\E m \in Managers : UnmapVictim(m))
    BY <1>16
       DEF EagerGrow, EagerGrowDone, EagerNextStep, EagerDone, ScanPrefill, ScanVictim,
       UnmapVictim
  <1>17. CASE Stopped \/ UNCHANGED vars
    BY <1>17 DEF Stopped, vars
  <1>18. QED
    BY <1>1, <1>2, <1>3, <1>4, <1>5, <1>6, <1>7, <1>8, <1>9, <1>10, <1>11, <1>12,
       <1>13, <1>14, <1>15, <1>16, <1>17
       DEF Next, ApiCall, ApiStep, ManagerStep, SharedStep

LEMMA IndexStep ==
  ASSUME IInv, [Next]_vars
  PROVE  IndexType'
  <1>0. IndexType /\ ControlInv
    BY TypeParts DEF IInv
  <1> USE <1>0, SizesAssumption, ThreadsAssumption DEF IndexType, Threads, Reqs, locals
  <1>1. ASSUME NEW t \in Threads, ReclaimDone(t)  PROVE IndexType'
    BY <1>1
       DEF ReclaimDone
  <1>2. ASSUME NEW t \in Threads, ReclaimVisit(t)  PROVE IndexType'
    BY <1>2
       DEF ReclaimVisit
  <1>3. ASSUME NEW t \in Threads, ReleaseDone(t)  PROVE IndexType'
    BY <1>3
       DEF ReleaseDone, ControlInv
  <1>4. ASSUME AllocScan  PROVE IndexType'
    BY <1>4
       DEF AllocScan
  <1>5. ASSUME AllocReturn  PROVE IndexType'
    BY <1>5
       DEF AllocReturn
  <1>6. ASSUME SyncReleased  PROVE IndexType'
    BY <1>6
       DEF SyncReleased, ControlInv
  <1>7. ASSUME PrefillSkip  PROVE IndexType'
    BY <1>7
       DEF PrefillSkip
  <1>8. ASSUME PrefillDemand  PROVE IndexType'
    BY <1>8
       DEF PrefillDemand
  <1>9. ASSUME GrowSyncDone  PROVE IndexType'
    BY <1>9
       DEF GrowSyncDone, ControlInv, GrowFinished
  <1>10. ASSUME StepSyncReturn  PROVE IndexType'
    BY <1>10
       DEF StepSyncReturn
  <1>11. ASSUME CleanupRelease  PROVE IndexType'
    BY <1>11
       DEF CleanupRelease
  <1>12. ASSUME NEW seqlen \in Lengths \ {0}, AllocStart(seqlen)  PROVE IndexType'
    BY <1>12
       DEF AllocStart
  <1>13. ASSUME NEW m \in Managers, SpawnManager(m)  PROVE IndexType'
    BY <1>13
       DEF SpawnManager
  <1>14. ASSUME NEW m \in Managers, ManagerNeed(m)  PROVE IndexType'
    BY <1>14
       DEF ManagerNeed
  <1>15. ASSUME NEW m \in Managers, ManagerNeedDone(m)  PROVE IndexType'
    BY <1>15
       DEF ManagerNeedDone
  <1>16. ASSUME NEW m \in Managers, EagerGrowDone(m)  PROVE IndexType'
    BY <1>16
       DEF EagerGrowDone, ControlInv, GrowFinished
  <1>17. ASSUME NEW m \in Managers, EagerNextStep(m)  PROVE IndexType'
    BY <1>17
       DEF EagerNextStep
  <1>18. ASSUME NEW m \in Managers, ScanPrefill(m)  PROVE IndexType'
    BY <1>18
       DEF ScanPrefill
  <1>19. ASSUME NEW m \in Managers, ScanVictim(m)  PROVE IndexType'
    BY <1>19
       DEF ScanVictim
  <1>20. ASSUME NEW m \in Managers, ManagerFinish(m)  PROVE IndexType'
    BY <1>20
       DEF ManagerFinish
  <1>21. CASE \/ (\E t \in Threads : ReleaseOne(t))
             \/ (\E t \in Threads : GrowOne(t))
             \/ WaitManager
             \/ SyncLength
             \/ SyncRelease
             \/ GrowSync
             \/ OutOfMemory
    BY <1>21
       DEF ReleaseOne, GrowOne, WaitManager, SyncLength, SyncRelease, GrowSync,
       OutOfMemory
  <1>22. CASE \/ ForwardDone
             \/ CleanupStart
             \/ CleanupDone
             \/ (\E r \in Reqs : free_batch_idx(r))
             \/ (\E val \in BOOLEAN : set_deferred_reclamation(val))
             \/ (\E lens \in StepLengths : StepAsync(lens))
             \/ (\E lens \in StepLengths : StepSync(lens))
    BY <1>22
       DEF ForwardDone, CleanupStart, CleanupDone, free_batch_idx,
       set_deferred_reclamation, StepAsync, StepSync
  <1>23. CASE \/ (\E r \in Reqs : CopyLength(r))
             \/ (\E m \in Managers : ManagerStart(m))
             \/ (\E m \in Managers : ManagerRecheck(m))
             \/ (\E m \in Managers : EagerGrow(m))
             \/ (\E m \in Managers : EagerDone(m))
             \/ (\E m \in Managers : UnmapVictim(m))
    BY <1>23
       DEF CopyLength, ManagerStart, ManagerRecheck, EagerGrow, EagerDone, UnmapVictim
  <1>24. CASE Stopped \/ UNCHANGED vars
    BY <1>24 DEF Stopped, vars
  <1>25. QED
    BY <1>1, <1>2, <1>3, <1>4, <1>5, <1>6, <1>7, <1>8, <1>9, <1>10, <1>11, <1>12,
       <1>13, <1>14, <1>15, <1>16, <1>17, <1>18, <1>19, <1>20, <1>21, <1>22, <1>23,
       <1>24
       DEF Next, ApiCall, ApiStep, ManagerStep, SharedStep

LEMMA CountStep ==
  ASSUME IInv, [Next]_vars
  PROVE  CountType'
  <1>0. TypeOK /\ CountType /\ IndexType
    BY TypeParts DEF IInv
  <1>01. \A r \in Reqs : curr_seq_lengths[r] \in Nat /\ mapped_pages[r] \in Nat
    BY <1>0, SizesAssumption, MaxPagesType DEF TypeOK, Lengths
  <1> USE <1>0, ThreadsAssumption DEF CountType, Threads, locals
  <1>1. ASSUME NEW t \in Threads, ReclaimVisit(t)  PROVE CountType'
    BY <1>1, <1>01, PagesType
       DEF ReclaimVisit, Reqs, IndexType
  <1>2. ASSUME NEW t \in Threads, ReleaseDone(t)  PROVE CountType'
    BY <1>2
       DEF ReleaseDone
  <1>3. ASSUME NEW t \in Threads, GrowOne(t)  PROVE CountType'
    BY <1>3
       DEF GrowOne
  <1>4. ASSUME AllocReturn  PROVE CountType'
    BY <1>4
       DEF AllocReturn
  <1>5. ASSUME PrefillDemand  PROVE CountType'
    BY <1>5, <1>01, PagesType
       DEF PrefillDemand, Shortfall
  <1>6. ASSUME GrowSync  PROVE CountType'
    BY <1>6
       DEF GrowSync
  <1>7. ASSUME GrowSyncDone  PROVE CountType'
    BY <1>7
       DEF GrowSyncDone
  <1>8. ASSUME NEW seqlen \in Lengths \ {0}, AllocStart(seqlen)  PROVE CountType'
    BY <1>8, PagesType, SizesAssumption
       DEF AllocStart, Lengths
  <1>9. ASSUME NEW m \in Managers, ManagerNeed(m)  PROVE CountType'
    BY <1>9, NeedType
       DEF ManagerNeed
  <1>10. ASSUME NEW m \in Managers, ManagerRecheck(m)  PROVE CountType'
    BY <1>10
       DEF ManagerRecheck
  <1>11. ASSUME NEW m \in Managers, EagerGrow(m)  PROVE CountType'
    BY <1>11, NeedType
       DEF EagerGrow
  <1>12. ASSUME NEW m \in Managers, EagerGrowDone(m)  PROVE CountType'
    BY <1>12, SizesAssumption
       DEF EagerGrowDone
  <1>13. ASSUME NEW m \in Managers, EagerNextStep(m)  PROVE CountType'
    BY <1>13
       DEF EagerNextStep
  <1>14. ASSUME NEW m \in Managers, ManagerFinish(m)  PROVE CountType'
    BY <1>14
       DEF ManagerFinish
  <1>15. CASE \/ (\E t \in Threads : ReclaimDone(t))
             \/ (\E t \in Threads : ReleaseOne(t))
             \/ AllocScan
             \/ WaitManager
             \/ SyncLength
             \/ SyncRelease
             \/ SyncReleased
    BY <1>15
       DEF ReclaimDone, ReleaseOne, AllocScan, WaitManager, SyncLength, SyncRelease,
       SyncReleased
  <1>16. CASE \/ PrefillSkip
             \/ OutOfMemory
             \/ StepSyncReturn
             \/ ForwardDone
             \/ CleanupStart
             \/ CleanupRelease
             \/ CleanupDone
    BY <1>16
       DEF PrefillSkip, OutOfMemory, StepSyncReturn, ForwardDone, CleanupStart,
       CleanupRelease, CleanupDone
  <1>17. CASE \/ (\E r \in Reqs : free_batch_idx(r))
             \/ (\E val \in BOOLEAN : set_deferred_reclamation(val))
             \/ (\E lens \in StepLengths : StepAsync(lens))
             \/ (\E lens \in StepLengths : StepSync(lens))
             \/ (\E r \in Reqs : CopyLength(r))
             \/ (\E m \in Managers : SpawnManager(m))
             \/ (\E m \in Managers : ManagerStart(m))
    BY <1>17
       DEF free_batch_idx, set_deferred_reclamation, StepAsync, StepSync, CopyLength,
       SpawnManager, ManagerStart
  <1>18. CASE \/ (\E m \in Managers : ManagerNeedDone(m))
             \/ (\E m \in Managers : EagerDone(m))
             \/ (\E m \in Managers : ScanPrefill(m))
             \/ (\E m \in Managers : ScanVictim(m))
             \/ (\E m \in Managers : UnmapVictim(m))
    BY <1>18
       DEF ManagerNeedDone, EagerDone, ScanPrefill, ScanVictim, UnmapVictim
  <1>19. CASE Stopped \/ UNCHANGED vars
    BY <1>19 DEF Stopped, vars
  <1>20. QED
    BY <1>1, <1>2, <1>3, <1>4, <1>5, <1>6, <1>7, <1>8, <1>9, <1>10, <1>11, <1>12,
       <1>13, <1>14, <1>15, <1>16, <1>17, <1>18, <1>19
       DEF Next, ApiCall, ApiStep, ManagerStep, SharedStep

(* Every step keeps loop indices within the slots where they are used. *)
LEMMA ControlStep ==
  ASSUME IInv, [Next]_vars
  PROVE  ControlInv'
  <1>0. PcType /\ ControlInv /\ IndexType
    BY TypeParts DEF IInv
  <1> USE <1>0, SizesAssumption, ThreadsAssumption
      DEF ControlInv, Threads, PcType, IndexType, Goto, caller, locals
  <1>1. ASSUME NEW t \in Threads, ReclaimDone(t)  PROVE ControlInv'
    BY <1>1 DEF ReclaimDone, AfterReclaim
  <1>2. ASSUME NEW t \in Threads, ReclaimVisit(t)  PROVE ControlInv'
    BY <1>2 DEF ReclaimVisit, Reqs
  <1>3. ASSUME NEW t \in Threads, ReleaseOne(t)  PROVE ControlInv'
    BY <1>3 DEF ReleaseOne
  <1>4. ASSUME NEW t \in Threads, ReleaseDone(t)  PROVE ControlInv'
    BY <1>4 DEF ReleaseDone
  <1>5. ASSUME NEW t \in Threads, GrowOne(t)  PROVE ControlInv'
    BY <1>5 DEF GrowOne
  <1>6. ASSUME AllocScan  PROVE ControlInv'
    BY <1>6 DEF AllocScan
  <1>7. ASSUME AllocReturn  PROVE ControlInv'
    BY <1>7 DEF AllocReturn
  <1>8. ASSUME WaitManager  PROVE ControlInv'
    BY <1>8 DEF WaitManager
  <1>9. ASSUME SyncLength  PROVE ControlInv'
    BY <1>9 DEF SyncLength
  <1>10. ASSUME SyncRelease  PROVE ControlInv'
    BY <1>10 DEF SyncRelease
  <1>11. ASSUME SyncReleased  PROVE ControlInv'
    BY <1>11 DEF SyncReleased
  <1>12. ASSUME PrefillSkip  PROVE ControlInv'
    BY <1>12 DEF PrefillSkip, NextSlot
  <1>13. ASSUME PrefillDemand  PROVE ControlInv'
    BY <1>13 DEF PrefillDemand
  <1>14. ASSUME GrowSync  PROVE ControlInv'
    BY <1>14 DEF GrowSync
  <1>15. ASSUME OutOfMemory  PROVE ControlInv'
    BY <1>15 DEF OutOfMemory
  <1>16. ASSUME GrowSyncDone  PROVE ControlInv'
    BY <1>16 DEF GrowSyncDone, NextSlot, GrowFinished
  <1>17. ASSUME StepSyncReturn  PROVE ControlInv'
    BY <1>17 DEF StepSyncReturn
  <1>18. ASSUME ForwardDone  PROVE ControlInv'
    BY <1>18 DEF ForwardDone
  <1>19. ASSUME CleanupStart  PROVE ControlInv'
    BY <1>19 DEF CleanupStart
  <1>20. ASSUME CleanupRelease  PROVE ControlInv'
    BY <1>20 DEF CleanupRelease
  <1>21. ASSUME CleanupDone  PROVE ControlInv'
    BY <1>21 DEF CleanupDone
  <1>22. ASSUME NEW seqlen \in Lengths \ {0}, AllocStart(seqlen)  PROVE ControlInv'
    BY <1>22 DEF AllocStart
  <1>23. ASSUME NEW r \in Reqs, free_batch_idx(r)  PROVE ControlInv'
    BY <1>23 DEF free_batch_idx
  <1>24. ASSUME NEW val \in BOOLEAN, set_deferred_reclamation(val)  PROVE ControlInv'
    BY <1>24 DEF set_deferred_reclamation
  <1>25. ASSUME NEW lens \in StepLengths, StepAsync(lens)  PROVE ControlInv'
    BY <1>25 DEF StepAsync
  <1>26. ASSUME NEW lens \in StepLengths, StepSync(lens)  PROVE ControlInv'
    BY <1>26 DEF StepSync
  <1>27. ASSUME NEW r \in Reqs, CopyLength(r)  PROVE ControlInv'
    BY <1>27 DEF CopyLength
  <1>28. ASSUME NEW m \in Managers, SpawnManager(m)  PROVE ControlInv'
    BY <1>28 DEF SpawnManager
  <1>29. ASSUME NEW m \in Managers, ManagerStart(m)  PROVE ControlInv'
    BY <1>29 DEF ManagerStart
  <1>30. ASSUME NEW m \in Managers, ManagerNeed(m)  PROVE ControlInv'
    BY <1>30 DEF ManagerNeed
  <1>31. ASSUME NEW m \in Managers, ManagerNeedDone(m)  PROVE ControlInv'
    BY <1>31 DEF ManagerNeedDone
  <1>32. ASSUME NEW m \in Managers, ManagerRecheck(m)  PROVE ControlInv'
    BY <1>32 DEF ManagerRecheck
  <1>33. ASSUME NEW m \in Managers, EagerGrow(m)  PROVE ControlInv'
    BY <1>33 DEF EagerGrow
  <1>34. ASSUME NEW m \in Managers, EagerGrowDone(m)  PROVE ControlInv'
    BY <1>34 DEF EagerGrowDone, GrowFinished
  <1>35. ASSUME NEW m \in Managers, EagerNextStep(m)  PROVE ControlInv'
    BY <1>35 DEF EagerNextStep
  <1>36. ASSUME NEW m \in Managers, EagerDone(m)  PROVE ControlInv'
    BY <1>36 DEF EagerDone
  <1>37. ASSUME NEW m \in Managers, ScanPrefill(m)  PROVE ControlInv'
    BY <1>37 DEF ScanPrefill
  <1>38. ASSUME NEW m \in Managers, ScanVictim(m)  PROVE ControlInv'
    BY <1>38 DEF ScanVictim, Reqs
  <1>39. ASSUME NEW m \in Managers, UnmapVictim(m)  PROVE ControlInv'
    BY <1>39 DEF UnmapVictim
  <1>40. ASSUME NEW m \in Managers, ManagerFinish(m)  PROVE ControlInv'
    BY <1>40 DEF ManagerFinish
  <1>41. CASE Stopped \/ UNCHANGED vars
    BY <1>41 DEF Stopped, vars
  <1>42. QED
    BY <1>1, <1>2, <1>3, <1>4, <1>5, <1>6, <1>7, <1>8, <1>9, <1>10, <1>11, <1>12,
       <1>13, <1>14, <1>15, <1>16, <1>17, <1>18, <1>19, <1>20, <1>21, <1>22, <1>23,
       <1>24, <1>25, <1>26, <1>27, <1>28, <1>29, <1>30, <1>31, <1>32, <1>33, <1>34,
       <1>35, <1>36, <1>37, <1>38, <1>39, <1>40, <1>41
       DEF Next, ApiCall, ApiStep, ManagerStep, SharedStep

LEMMA InitIInv == Init => IInv
  <1> SUFFICES ASSUME Init  PROVE IInv
    OBVIOUS
  <1> USE SizesAssumption, ThreadsAssumption DEF Init
  <1>1. MemoryType
    BY MaxPagesType DEF MemoryType, NoBlock
  <1>2. PcType
    BY DEF PcType, Threads, ApiLabels, ManagerLabels
  <1>3. CallerType
    <2>1. 0 \in Lengths
      BY DEF Lengths
    <2>2. deferred_reclaim \in BOOLEAN /\ mem_manager_running \in BOOLEAN
      BY Zenon
    <2>3. curr_seq_lengths \in [Reqs -> Lengths] /\ seq_lens \in [Reqs -> Lengths]
          /\ resident \in [Reqs -> Lengths]
      BY <2>1
    <2>4. new_len \in Lengths /\ uncopied \in SUBSET Reqs
      BY <2>1
    <2>5. QED  BY <2>2, <2>3, <2>4 DEF CallerType
  <1>31. IndexType /\ CountType
    BY DEF IndexType, CountType
  <1>4. ControlInv
    BY DEF ControlInv, Threads
  <1>5. PageOwnership
    BY DEF PageOwnership, MappedPrefix, PagesExclusive, NoPageLeaked, NoBlock, BlockIds
  <1>6. QED  BY <1>1, <1>2, <1>3, <1>31, <1>4, <1>5, TypeParts DEF IInv

LEMMA Invariant == Spec => []IInv
  <1>1. IInv /\ [Next]_vars => IInv'
    <2> SUFFICES ASSUME IInv, [Next]_vars  PROVE IInv'
      OBVIOUS
    <2>1. MemoryType' /\ PageOwnership'
      BY OwnershipStep
    <2>2. PcType'
      BY PcStep, TypeParts DEF IInv
    <2>3. CallerType' /\ IndexType' /\ CountType' /\ ControlInv'
      BY CallerStep, IndexStep, CountStep, ControlStep
    <2>4. QED  BY <2>1, <2>2, <2>3 DEF IInv, TypeOK, MemoryType, PcType, CallerType, IndexType, CountType
  <1>2. QED  BY <1>1, InitIInv, PTL DEF Spec

(* Every variable keeps its type: in particular mapped_pages stays within    *)
(* the virtual address range of the slot (is_valid_offset).                  *)
THEOREM TypeCorrect == Spec => []TypeOK
  <1>1. IInv => TypeOK
    BY DEF IInv
  <1>2. QED  BY <1>1, Invariant, PTL

(* No physical page is ever in two places or lost (MAP_PAGES, UNMAP_PAGES),  *)
(* even where a late manager thread works beside the API thread.             *)
THEOREM OwnershipHolds == Spec => []PageOwnership
  <1>1. IInv => PageOwnership
    BY DEF IInv
  <1>2. QED  BY <1>1, Invariant, PTL

-----------------------------------------------------------------------------
(* The flag mem_manager_running keeps the API thread and the manager apart   *)
(* if every spawned thread starts, and so sets the flag, before the forward  *)
(* pass it was spawned for ends.                                             *)

(* The flag's protocol: a manager that has not set the flag yet is covered   *)
(* by the forward pass, any other one by the flag.  Where a manager exists,  *)
(* the API thread is at none of the labels that touch the pool.              *)
MutexInv ==
  /\ \A m \in Managers : pc[m] = "spawned" => pc[API] = "forward"
  /\ \A m \in Managers : pc[m] \notin {"none", "spawned"} => mem_manager_running = TRUE
  /\ \A m \in Managers : pc[m] # "none" =>
       Async = TRUE /\ pc[API] \in {"idle", "alloc_scan", "copy", "forward", "no_slot"}
  /\ \A m, n \in Managers : pc[m] # "none" /\ pc[n] # "none" => m = n

(* Every step follows the protocol. *)
LEMMA MutexStep ==
  ASSUME StartsDuringForward, IInv, MutexInv, [Next]_vars
  PROVE  MutexInv'
  <1>0. PcType
    BY TypeParts DEF IInv
  <1> USE <1>0, ThreadsAssumption DEF MutexInv, Threads, PcType, Goto
  <1>1. ASSUME NEW t \in Threads, ReclaimDone(t)  PROVE MutexInv'
    BY <1>1 DEF ReclaimDone, AfterReclaim
  <1>2. ASSUME NEW t \in Threads, ReclaimVisit(t)  PROVE MutexInv'
    BY <1>2 DEF ReclaimVisit
  <1>3. ASSUME NEW t \in Threads, ReleaseOne(t)  PROVE MutexInv'
    BY <1>3 DEF ReleaseOne
  <1>4. ASSUME NEW t \in Threads, ReleaseDone(t)  PROVE MutexInv'
    BY <1>4 DEF ReleaseDone
  <1>5. ASSUME NEW t \in Threads, GrowOne(t)  PROVE MutexInv'
    BY <1>5 DEF GrowOne
  <1>6. ASSUME AllocScan  PROVE MutexInv'
    BY <1>6 DEF AllocScan
  <1>7. ASSUME AllocReturn  PROVE MutexInv'
    BY <1>7 DEF AllocReturn
  <1>8. ASSUME WaitManager  PROVE MutexInv'
    BY <1>8 DEF WaitManager
  <1>9. ASSUME SyncLength  PROVE MutexInv'
    BY <1>9 DEF SyncLength
  <1>10. ASSUME SyncRelease  PROVE MutexInv'
    BY <1>10 DEF SyncRelease
  <1>11. ASSUME SyncReleased  PROVE MutexInv'
    BY <1>11 DEF SyncReleased
  <1>12. ASSUME PrefillSkip  PROVE MutexInv'
    BY <1>12 DEF PrefillSkip, NextSlot
  <1>13. ASSUME PrefillDemand  PROVE MutexInv'
    BY <1>13 DEF PrefillDemand
  <1>14. ASSUME GrowSync  PROVE MutexInv'
    BY <1>14 DEF GrowSync
  <1>15. ASSUME OutOfMemory  PROVE MutexInv'
    BY <1>15 DEF OutOfMemory
  <1>16. ASSUME GrowSyncDone  PROVE MutexInv'
    BY <1>16 DEF GrowSyncDone, NextSlot, GrowFinished
  <1>17. ASSUME StepSyncReturn  PROVE MutexInv'
    BY <1>17 DEF StepSyncReturn
  <1>18. ASSUME ForwardDone  PROVE MutexInv'
    BY <1>18 DEF ForwardDone
  <1>19. ASSUME CleanupStart  PROVE MutexInv'
    BY <1>19 DEF CleanupStart
  <1>20. ASSUME CleanupRelease  PROVE MutexInv'
    BY <1>20 DEF CleanupRelease
  <1>21. ASSUME CleanupDone  PROVE MutexInv'
    BY <1>21 DEF CleanupDone
  <1>22. ASSUME NEW seqlen \in Lengths \ {0}, AllocStart(seqlen)  PROVE MutexInv'
    BY <1>22 DEF AllocStart
  <1>23. ASSUME NEW r \in Reqs, free_batch_idx(r)  PROVE MutexInv'
    BY <1>23 DEF free_batch_idx
  <1>24. ASSUME NEW val \in BOOLEAN, set_deferred_reclamation(val)  PROVE MutexInv'
    BY <1>24 DEF set_deferred_reclamation
  <1>25. ASSUME NEW lens \in StepLengths, StepAsync(lens)  PROVE MutexInv'
    BY <1>25 DEF StepAsync
  <1>26. ASSUME NEW lens \in StepLengths, StepSync(lens)  PROVE MutexInv'
    BY <1>26 DEF StepSync
  <1>27. ASSUME NEW r \in Reqs, CopyLength(r)  PROVE MutexInv'
    BY <1>27 DEF CopyLength
  <1>28. ASSUME NEW m \in Managers, SpawnManager(m)  PROVE MutexInv'
    BY <1>28 DEF SpawnManager
  <1>29. ASSUME NEW m \in Managers, ManagerStart(m)  PROVE MutexInv'
    BY <1>29 DEF ManagerStart
  <1>30. ASSUME NEW m \in Managers, ManagerNeed(m)  PROVE MutexInv'
    BY <1>30 DEF ManagerNeed
  <1>31. ASSUME NEW m \in Managers, ManagerNeedDone(m)  PROVE MutexInv'
    BY <1>31 DEF ManagerNeedDone
  <1>32. ASSUME NEW m \in Managers, ManagerRecheck(m)  PROVE MutexInv'
    BY <1>32 DEF ManagerRecheck
  <1>33. ASSUME NEW m \in Managers, EagerGrow(m)  PROVE MutexInv'
    BY <1>33 DEF EagerGrow
  <1>34. ASSUME NEW m \in Managers, EagerGrowDone(m)  PROVE MutexInv'
    BY <1>34 DEF EagerGrowDone, GrowFinished
  <1>35. ASSUME NEW m \in Managers, EagerNextStep(m)  PROVE MutexInv'
    BY <1>35 DEF EagerNextStep
  <1>36. ASSUME NEW m \in Managers, EagerDone(m)  PROVE MutexInv'
    BY <1>36 DEF EagerDone
  <1>37. ASSUME NEW m \in Managers, ScanPrefill(m)  PROVE MutexInv'
    BY <1>37 DEF ScanPrefill
  <1>38. ASSUME NEW m \in Managers, ScanVictim(m)  PROVE MutexInv'
    BY <1>38 DEF ScanVictim
  <1>39. ASSUME NEW m \in Managers, UnmapVictim(m)  PROVE MutexInv'
    BY <1>39 DEF UnmapVictim
  <1>40. ASSUME NEW m \in Managers, ManagerFinish(m)  PROVE MutexInv'
    BY <1>40 DEF ManagerFinish
  <1>41. CASE Stopped \/ UNCHANGED vars
    BY <1>41 DEF Stopped, vars
  <1>42. QED
    BY <1>1, <1>2, <1>3, <1>4, <1>5, <1>6, <1>7, <1>8, <1>9, <1>10, <1>11, <1>12,
       <1>13, <1>14, <1>15, <1>16, <1>17, <1>18, <1>19, <1>20, <1>21, <1>22, <1>23,
       <1>24, <1>25, <1>26, <1>27, <1>28, <1>29, <1>30, <1>31, <1>32, <1>33, <1>34,
       <1>35, <1>36, <1>37, <1>38, <1>39, <1>40, <1>41
       DEF Next, ApiCall, ApiStep, ManagerStep, SharedStep

LEMMA MutexInvariant ==
  ASSUME StartsDuringForward
  PROVE  Spec => []MutexInv
  <1>1. Init => MutexInv
    BY ThreadsAssumption DEF Init, MutexInv, Threads
  <1>2. IInv /\ MutexInv /\ [Next]_vars => MutexInv'
    BY MutexStep
  <1>3. QED  BY <1>1, <1>2, Invariant, PTL DEF Spec

(* step_async and cleanup never overlap a manager thread, and two manager    *)
(* threads never run side by side, provided each spawned thread starts       *)
(* during the forward pass it was spawned for.                               *)
THEOREM MutualExclusionHolds ==
  ASSUME StartsDuringForward
  PROVE  Spec => []MutualExclusion
  <1>1. IInv /\ MutexInv => MutualExclusion
    <2> SUFFICES ASSUME MutexInv, NEW t \in Threads, NEW u \in Threads, InMemory(t), InMemory(u)
                 PROVE  t = u
      BY DEF MutualExclusion
    <2>1. QED  BY ThreadsAssumption DEF MutexInv, InMemory, Threads, ManagerLabels
  <1>2. QED  BY <1>1, MutexInvariant, Invariant, PTL

-----------------------------------------------------------------------------
(***************************************************************************)
(* The KV entries of a running request stay where they are: the memory of  *)
(* a step is mapped while the model runs, and no reclaim, by either        *)
(* thread, takes a page behind tokens that are in use.  As in              *)
(* MutualExclusionHolds, each spawned thread is assumed to start           *)
(* during the forward pass it was spawned for.                             *)
(***************************************************************************)

Backed(r, len) == mapped_pages[r] >= tokens_to_pages(len)

(* Labels of a step before the model runs. *)
Stepping == {"sync", "sync_release", "prefill", "grow", "map", "reclaim", "release"}

(* The allocator's lengths lag behind the engine's only while a step takes   *)
(* them over, and never fall below what is resident.                         *)
LengthsInv ==
  /\ \A r \in Reqs : resident[r] <= curr_seq_lengths[r] /\ curr_seq_lengths[r] <= seq_lens[r]
  /\ pc[API] \in {"idle", "alloc_scan", "forward"} => curr_seq_lengths = seq_lens
  /\ pc[API] = "copy" => \A r \in Reqs \ uncopied : curr_seq_lengths[r] = seq_lens[r]
  /\ pc[API] \in Stepping =>
       \A r \in Reqs : \/ Async
                       \/ r < idx[API]
                       \/ r = idx[API] /\ pc[API] # "sync"
                       => curr_seq_lengths[r] = seq_lens[r]

(* What the API thread's locals mean at each label. *)
ApiLocalsInv ==
  /\ pc[API] \in {"idle", "copy", "forward"} => idx[API] = 0
  /\ pc[API] = "alloc_scan" /\ chosen[API] # -1 => curr_seq_lengths[chosen[API]] = 0
  /\ pc[API] \in {"grow", "reclaim", "release"} =>
       nr_required[API] > 0 /\ nr_required[API] = Shortfall(idx[API])
  /\ pc[API] = "release" =>
       /\ victim[API] # idx[API]
       /\ retain[API] >= tokens_to_pages(curr_seq_lengths[victim[API]])
  /\ pc[API] = "map" => left[API] = Shortfall(idx[API])
  /\ pc[API] = "sync_release" => seq_lens[idx[API]] = 0

(* What a manager read before stays sound although the lengths move on: a    *)
(* length only grows until its request is freed, and a slot that was idle    *)
(* holds no resident tokens before the next forward pass, which the manager  *)
(* never reaches.                                                            *)
ManagerLocalsInv ==
  \A m \in Managers :
    /\ pc[m] = "release" =>
         /\ retain[m] >= tokens_to_pages(resident[victim[m]])
         /\ pc[API] = "forward" => retain[m] >= tokens_to_pages(seq_lens[victim[m]])
    /\ pc[m] = "unmap_one" =>
         /\ resident[victim[m]] = 0
         /\ pc[API] = "forward" => seq_lens[victim[m]] = 0

(* Memory is mapped for every resident token, for the slots the step has     *)
(* passed and, while the model runs, for all of them.                        *)
BackedInv ==
  /\ pc[API] \notin {"cleanup", "cleaned"} => \A r \in Reqs : Backed(r, resident[r])
  /\ pc[API] \in Stepping => \A r \in Reqs : r < idx[API] => Backed(r, seq_lens[r])
  /\ pc[API] = "forward" => \A r \in Reqs : Backed(r, seq_lens[r])

DataInv == LengthsInv /\ ApiLocalsInv /\ ManagerLocalsInv /\ BackedInv

-----------------------------------------------------------------------------
LEMMA PagesZero == tokens_to_pages(0) = 0
  BY SizesAssumption DEF tokens_to_pages

(* The numbers that the steps below compare. *)
LEMMA Numbers ==
  ASSUME IInv
  PROVE  \A r \in Reqs :
           /\ mapped_pages[r] \in Nat /\ mapped_pages[r] <= max_pages_per_req
           /\ curr_seq_lengths[r] \in Lengths /\ seq_lens[r] \in Lengths /\ resident[r] \in Lengths
  BY MaxPagesType DEF IInv, TypeOK

LEMMA LengthFits ==
  \A len \in Lengths : /\ len \in Nat
                       /\ tokens_to_pages(len) \in Nat
                       /\ tokens_to_pages(len) <= max_pages_per_req
  BY PagesType, PagesMono, SizesAssumption DEF Lengths, max_pages_per_req

LEMMA LengthMono ==
  \A k, len \in Lengths : k <= len => tokens_to_pages(k) <= tokens_to_pages(len)
  BY PagesMono, SizesAssumption DEF Lengths

(* A manager changes nothing that belongs to the API thread. *)
LEMMA ManagerFrame ==
  ASSUME IInv, NEW m \in Managers, ManagerStep(m)
  PROVE  /\ UNCHANGED <<curr_seq_lengths, seq_lens, new_len, resident, uncopied>>
         /\ pc'[API] = pc[API] /\ idx'[API] = idx[API] /\ chosen'[API] = chosen[API]
         /\ pc[m] # "none"
         /\ \A n \in Managers \ {m} : pc'[n] = pc[n]
  <1>1. m # API /\ m \in Threads /\ API \in Threads /\ PcType /\ IndexType
    BY ThreadsAssumption, TypeParts DEF Threads, IInv
  <1> USE <1>1 DEF PcType, IndexType, Threads, Goto, caller, locals
  <1>2. CASE SharedStep(m)
    BY <1>2 DEF SharedStep, ReclaimDone, ReclaimVisit, ReleaseOne, ReleaseDone, GrowOne, AfterReclaim
  <1>3. CASE \/ ManagerStart(m) \/ ManagerNeed(m) \/ ManagerNeedDone(m) \/ ManagerRecheck(m)
             \/ EagerGrow(m) \/ EagerGrowDone(m)
    BY <1>3 DEF ManagerStart, ManagerNeed, ManagerNeedDone, ManagerRecheck, EagerGrow,
                EagerGrowDone, GrowFinished
  <1>4. CASE \/ EagerNextStep(m) \/ EagerDone(m) \/ ScanPrefill(m) \/ ScanVictim(m)
             \/ UnmapVictim(m) \/ ManagerFinish(m)
    BY <1>4 DEF EagerNextStep, EagerDone, ScanPrefill, ScanVictim, UnmapVictim, ManagerFinish
  <1>5. QED  BY <1>2, <1>3, <1>4 DEF ManagerStep

(* What a step of any thread may do to the memory of a slot: grow it, or     *)
(* give its top block back.                                                  *)
LEMMA MapEffect ==
  ASSUME IInv, NEW r \in Reqs, MapBlock(r)
  PROVE  \A s \in Reqs : mapped_pages'[s] = IF s = r THEN mapped_pages[s] + 1 ELSE mapped_pages[s]
  BY DEF MapBlock, IInv, TypeOK

LEMMA UnmapEffect ==
  ASSUME IInv, NEW r \in Reqs, unmap_req_page_one(r)
  PROVE  \A s \in Reqs : mapped_pages'[s] = IF s = r THEN mapped_pages[s] - 1 ELSE mapped_pages[s]
  BY DEF unmap_req_page_one, IInv, TypeOK

(* A manager keeps every slot backed, and its locals meaningful. *)
LEMMA ManagerKeepsData ==
  ASSUME IInv, MutexInv, DataInv, NEW m \in Managers, ManagerStep(m)
  PROVE  DataInv'
  <1>1. m # API /\ m \in Threads /\ API \in Threads /\ PcType /\ IndexType /\ CountType /\ ControlInv
    BY ThreadsAssumption, TypeParts DEF Threads, IInv
  <1>2. pc[API] \notin Stepping \cup {"cleanup", "cleaned"}
    BY ManagerFrame DEF MutexInv, Stepping
  <1>3. \A n \in Managers : n # m => pc'[n] = "none"
    BY ManagerFrame DEF MutexInv
  <1>4. LengthsInv'
    BY ManagerFrame, <1>2 DEF DataInv, LengthsInv
  <1>5. ApiLocalsInv'
    BY ManagerFrame, <1>2 DEF DataInv, ApiLocalsInv, Stepping
  <1>6. SUFFICES ManagerLocalsInv' /\ BackedInv'
    BY <1>4, <1>5 DEF DataInv
  <1>7. ASSUME UNCHANGED mapped_pages  PROVE BackedInv'
    BY <1>7, ManagerFrame, <1>2 DEF DataInv, BackedInv, Backed
  <1>8. ASSUME pc'[m] \notin {"release", "unmap_one"}  PROVE ManagerLocalsInv'
    BY <1>3, <1>8 DEF ManagerLocalsInv
  <1> USE <1>1 DEF PcType, IndexType, CountType, Threads, Goto, memory, caller, locals
  <1>9. CASE ReclaimVisit(m)
    <2>1. UNCHANGED mapped_pages
      BY <1>9 DEF ReclaimVisit
    <2>2. victim[m] \in Reqs
      BY <1>9, SizesAssumption DEF ReclaimVisit, Reqs
    <2>3. CASE pc'[m] = "release"
      <3>1. retain'[m] = tokens_to_pages(curr_seq_lengths[victim[m]]) /\ victim'[m] = victim[m]
        BY <1>9, <2>3 DEF ReclaimVisit
      <3>2. retain'[m] >= tokens_to_pages(resident[victim[m]])
        BY <3>1, <2>2, Numbers, LengthFits, LengthMono DEF DataInv, LengthsInv
      <3>3. pc[API] = "forward" => retain'[m] >= tokens_to_pages(seq_lens[victim[m]])
        BY <3>1, <2>2, Numbers, LengthFits DEF DataInv, LengthsInv
      <3>4. ManagerLocalsInv'
        BY <1>3, <2>3, <3>1, <3>2, <3>3, ManagerFrame DEF ManagerLocalsInv
      <3>5. QED  BY <3>4, <2>1, <1>7
    <2>4. CASE pc'[m] # "release"
      BY <1>7, <1>8, <1>9, <2>1, <2>4 DEF ReclaimVisit
    <2>5. QED  BY <2>3, <2>4
  <1>10. CASE ReleaseOne(m)
    <2>1. victim[m] \in Reqs /\ pc[m] = "release" /\ UNCHANGED <<victim, retain, pc>>
          /\ mapped_pages[victim[m]] > retain[m] /\ unmap_req_page_one(victim[m])
      BY <1>10 DEF ReleaseOne, ControlInv
    <2>2. ManagerLocalsInv'
      BY <2>1, ManagerFrame DEF DataInv, ManagerLocalsInv
    <2>3. \A s \in Reqs : /\ Backed(s, resident[s])'
                          /\ pc[API] = "forward" => Backed(s, seq_lens[s])'
      <3> SUFFICES ASSUME NEW s \in Reqs
                   PROVE  /\ mapped_pages'[s] >= tokens_to_pages(resident[s])
                          /\ pc[API] = "forward" => mapped_pages'[s] >= tokens_to_pages(seq_lens[s])
        BY ManagerFrame DEF Backed
      <3>1. CASE s = victim[m]
        BY <3>1, <2>1, UnmapEffect, Numbers, LengthFits DEF DataInv, ManagerLocalsInv
      <3>2. CASE s # victim[m]
        BY <3>2, <2>1, <1>2, UnmapEffect DEF DataInv, BackedInv, Backed
      <3>3. QED  BY <3>1, <3>2
    <2>4. QED  BY <2>2, <2>3, <1>2, ManagerFrame DEF BackedInv
  <1>11. CASE GrowOne(m)
    <2>1. idx[m] \in Reqs /\ MapBlock(idx[m]) /\ pc'[m] = "map"
      BY <1>11 DEF GrowOne, ControlInv
    <2>2. \A s \in Reqs : mapped_pages'[s] >= mapped_pages[s]
      BY <2>1, MapEffect, Numbers
    <2>3. BackedInv'
      BY <2>1, <2>2, <1>2, MapEffect, ManagerFrame, Numbers, LengthFits DEF DataInv, BackedInv, Backed
    <2>4. QED  BY <2>1, <2>3, <1>8
  <1>12. CASE ScanVictim(m)
    <2>1. UNCHANGED <<mapped_pages, retain>>
      BY <1>12 DEF ScanVictim
    <2>2. CASE pc'[m] = "unmap_one"
      <3>1. victim[m] \in Reqs /\ victim'[m] = victim[m] /\ curr_seq_lengths[victim[m]] = 0
        BY <1>12, <2>2, SizesAssumption DEF ScanVictim, Reqs, is_active_req
      <3>2. resident[victim[m]] = 0 /\ (pc[API] = "forward" => seq_lens[victim[m]] = 0)
        BY <3>1, Numbers, LengthFits DEF DataInv, LengthsInv
      <3>3. ManagerLocalsInv'
        BY <1>3, <2>2, <3>1, <3>2, ManagerFrame DEF ManagerLocalsInv
      <3>4. QED  BY <3>3, <2>1, <1>7
    <2>3. CASE pc'[m] # "unmap_one"
      BY <1>7, <1>8, <1>12, <2>1, <2>3 DEF ScanVictim
    <2>4. QED  BY <2>2, <2>3
  <1>13. CASE UnmapVictim(m)
    <2>1. victim[m] \in Reqs /\ pc[m] = "unmap_one" /\ pc'[m] = "finish" /\ unmap_req_page_one(victim[m])
      BY <1>13 DEF UnmapVictim, ControlInv
    <2>2. \A s \in Reqs : /\ Backed(s, resident[s])'
                          /\ pc[API] = "forward" => Backed(s, seq_lens[s])'
      <3> SUFFICES ASSUME NEW s \in Reqs
                   PROVE  /\ mapped_pages'[s] >= tokens_to_pages(resident[s])
                          /\ pc[API] = "forward" => mapped_pages'[s] >= tokens_to_pages(seq_lens[s])
        BY ManagerFrame DEF Backed
      <3>1. CASE s = victim[m]
        BY <3>1, <2>1, UnmapEffect, Numbers, PagesZero DEF DataInv, ManagerLocalsInv, unmap_req_page_one
      <3>2. CASE s # victim[m]
        BY <3>2, <2>1, <1>2, UnmapEffect DEF DataInv, BackedInv, Backed
      <3>3. QED  BY <3>1, <3>2
    <2>3. BackedInv'
      BY <2>2, <1>2, ManagerFrame DEF BackedInv
    <2>4. QED  BY <2>1, <2>3, <1>8
  <1>14. CASE \/ ReclaimDone(m) \/ ReleaseDone(m) \/ ManagerStart(m) \/ ManagerNeed(m)
              \/ ManagerNeedDone(m) \/ ManagerRecheck(m)
    BY <1>7, <1>8, <1>14
       DEF ReclaimDone, ReleaseDone, ManagerStart, ManagerNeed, ManagerNeedDone, ManagerRecheck,
           AfterReclaim
  <1>15. CASE \/ EagerGrow(m) \/ EagerGrowDone(m) \/ EagerNextStep(m) \/ EagerDone(m)
              \/ ScanPrefill(m) \/ ManagerFinish(m)
    BY <1>7, <1>8, <1>15
       DEF EagerGrow, EagerGrowDone, EagerNextStep, EagerDone, ScanPrefill, ManagerFinish, GrowFinished
  <1>16. QED
    BY <1>9, <1>10, <1>11, <1>12, <1>13, <1>14, <1>15 DEF ManagerStep, SharedStep

(* The loops over the slots: idx[API] is one past the last slot at the end. *)
LEMMA SlotOrder ==
  ASSUME IInv
  PROVE  \A r \in Reqs : /\ r < idx[API] + 1 <=> r < idx[API] \/ r = idx[API]
                         /\ idx[API] \notin Reqs => r < idx[API]
  BY SizesAssumption DEF IInv, TypeOK, Threads, Reqs

(* The calls of the API thread keep the lengths in order. *)
LEMMA ApiKeepsLengths ==
  ASSUME IInv, MutexInv, DataInv, ApiCall \/ ApiStep
  PROVE  LengthsInv'
  <1>0. API \in Threads /\ PcType /\ CallerType /\ IndexType /\ CountType /\ ControlInv
    BY TypeParts DEF Threads, IInv
  <1> USE <1>0, Numbers, LengthFits, SizesAssumption
      DEF DataInv, LengthsInv, ApiLocalsInv, Stepping, PcType, CallerType, IndexType, Threads, Goto, caller, locals
  <1>1. ASSUME AllocScan  PROVE LengthsInv'
    BY <1>1 DEF AllocScan
  <1>2. ASSUME AllocReturn  PROVE LengthsInv'
    <2>1. CASE chosen[API] = -1
      BY <1>2, <2>1 DEF AllocReturn
    <2>2. CASE chosen[API] # -1
      <3>1. chosen[API] \in Reqs /\ curr_seq_lengths[chosen[API]] = 0 /\ new_len \in Nat
        BY <1>2, <2>2 DEF AllocReturn, Reqs
      <3>2. resident[chosen[API]] = 0
        <4>1. resident[chosen[API]] <= curr_seq_lengths[chosen[API]] /\ resident[chosen[API]] \in Lengths
          BY <3>1
        <4>2. resident[chosen[API]] \in Nat
          BY <4>1, LengthFits
        <4>3. QED  BY ONLY <3>1, <4>1, <4>2
      <3>3. /\ curr_seq_lengths' = [curr_seq_lengths EXCEPT ![chosen[API]] = new_len]
            /\ seq_lens' = [seq_lens EXCEPT ![chosen[API]] = new_len]
            /\ curr_seq_lengths = seq_lens /\ pc'[API] = "idle" /\ UNCHANGED resident
        BY <1>2, <2>2 DEF AllocReturn
      <3>4. \A r \in Reqs : resident'[r] <= curr_seq_lengths'[r] /\ curr_seq_lengths'[r] <= seq_lens'[r]
        BY <3>1, <3>2, <3>3
      <3>5. QED  BY <3>3, <3>4
    <2>3. QED  BY <2>1, <2>2
  <1>3. ASSUME WaitManager  PROVE LengthsInv'
    BY <1>3 DEF WaitManager
  <1>4. ASSUME SyncLength  PROVE LengthsInv'
    BY <1>4, SlotOrder DEF SyncLength
  <1>5. ASSUME SyncReleased  PROVE LengthsInv'
    BY <1>5, SlotOrder DEF SyncReleased, ControlInv
  <1>6. ASSUME PrefillSkip  PROVE LengthsInv'
    BY <1>6, SlotOrder DEF PrefillSkip, NextSlot
  <1>7. ASSUME PrefillDemand  PROVE LengthsInv'
    BY <1>7 DEF PrefillDemand
  <1>8. ASSUME GrowSync  PROVE LengthsInv'
    BY <1>8 DEF GrowSync
  <1>9. ASSUME OutOfMemory  PROVE LengthsInv'
    BY <1>9 DEF OutOfMemory
  <1>10. ASSUME GrowSyncDone  PROVE LengthsInv'
    BY <1>10, SlotOrder DEF GrowSyncDone, GrowFinished, NextSlot, ControlInv
  <1>11. ASSUME StepSyncReturn  PROVE LengthsInv'
    BY <1>11, SlotOrder DEF StepSyncReturn
  <1>12. ASSUME ForwardDone  PROVE LengthsInv'
    BY <1>12 DEF ForwardDone
  <1>13. ASSUME CleanupStart  PROVE LengthsInv'
    BY <1>13 DEF CleanupStart
  <1>14. ASSUME CleanupDone  PROVE LengthsInv'
    BY <1>14 DEF CleanupDone
  <1>15. ASSUME NEW m \in Managers, SpawnManager(m)  PROVE LengthsInv'
    BY <1>15, SlotOrder DEF SpawnManager
  <1>16. ASSUME NEW seqlen \in Lengths \ {0}, AllocStart(seqlen)  PROVE LengthsInv'
    BY <1>16 DEF AllocStart
  <1>17. ASSUME NEW r \in Reqs, free_batch_idx(r)  PROVE LengthsInv'
    BY <1>17 DEF free_batch_idx
  <1>18. ASSUME NEW val \in BOOLEAN, set_deferred_reclamation(val)  PROVE LengthsInv'
    BY <1>18 DEF set_deferred_reclamation
  <1>19. ASSUME NEW lens \in StepLengths, StepAsync(lens)  PROVE LengthsInv'
    BY <1>19 DEF StepAsync, StepLengths, Reqs
  <1>20. ASSUME NEW lens \in StepLengths, StepSync(lens)  PROVE LengthsInv'
    <2>1. /\ pc'[API] = "sync" /\ idx'[API] = 0 /\ seq_lens' = lens
          /\ UNCHANGED <<curr_seq_lengths, resident>> /\ ~Async
      BY <1>20 DEF StepSync
    <2>2. \A r \in Reqs : lens[r] >= curr_seq_lengths[r] /\ r >= 0
      BY DEF StepLengths, Reqs
    <2>3. \A r \in Reqs : resident'[r] <= curr_seq_lengths'[r] /\ curr_seq_lengths'[r] <= seq_lens'[r]
      BY <2>1, <2>2
    <2>4. \A r \in Reqs : ~(r < idx'[API])
      BY ONLY <2>1, <2>2, SizesAssumption DEF Reqs
    <2>5. QED  BY ONLY <2>1, <2>3, <2>4 DEF LengthsInv
  <1>21. ASSUME NEW r \in Reqs, CopyLength(r)  PROVE LengthsInv'
    BY <1>21 DEF CopyLength
  <1>22. ASSUME ReclaimDone(API)  PROVE LengthsInv'
    BY <1>22 DEF ReclaimDone, AfterReclaim
  <1>23. ASSUME ReclaimVisit(API)  PROVE LengthsInv'
    BY <1>23 DEF ReclaimVisit
  <1>24. ASSUME ReleaseOne(API)  PROVE LengthsInv'
    BY <1>24 DEF ReleaseOne
  <1>25. ASSUME ReleaseDone(API)  PROVE LengthsInv'
    BY <1>25 DEF ReleaseDone
  <1>26. ASSUME GrowOne(API)  PROVE LengthsInv'
    BY <1>26 DEF GrowOne
  <1>27. ASSUME SyncRelease  PROVE LengthsInv'
    BY <1>27 DEF SyncRelease
  <1>28. ASSUME CleanupRelease  PROVE LengthsInv'
    BY <1>28 DEF CleanupRelease
  <1>29. QED
    BY <1>1, <1>2, <1>3, <1>4, <1>5, <1>6, <1>7, <1>8, <1>9, <1>10, <1>11, <1>12,
       <1>13, <1>14, <1>15, <1>16, <1>17, <1>18, <1>19, <1>20, <1>21, <1>22, <1>23,
       <1>24, <1>25, <1>26, <1>27, <1>28
       DEF ApiCall, ApiStep, SharedStep

(* The API thread's locals keep their meaning. *)
LEMMA ApiKeepsLocals ==
  ASSUME IInv, MutexInv, DataInv, ApiCall \/ ApiStep
  PROVE  ApiLocalsInv'
  <1>0. API \in Threads /\ PcType /\ CallerType /\ IndexType /\ CountType /\ ControlInv
    BY TypeParts DEF Threads, IInv
  <1> USE <1>0, Numbers, LengthFits, SizesAssumption, PagesZero
      DEF DataInv, ApiLocalsInv, Stepping, Shortfall, PcType, CallerType, IndexType, CountType, Threads, Goto, memory, caller, locals
  <1>1. ASSUME AllocScan  PROVE ApiLocalsInv'
    BY <1>1 DEF AllocScan, Better, is_active_req
  <1>2. ASSUME AllocReturn  PROVE ApiLocalsInv'
    BY <1>2 DEF AllocReturn
  <1>3. ASSUME WaitManager  PROVE ApiLocalsInv'
    BY <1>3 DEF WaitManager
  <1>4. ASSUME SyncLength  PROVE ApiLocalsInv'
    BY <1>4 DEF SyncLength
  <1>5. ASSUME SyncReleased  PROVE ApiLocalsInv'
    BY <1>5 DEF SyncReleased
  <1>6. ASSUME PrefillSkip  PROVE ApiLocalsInv'
    BY <1>6 DEF PrefillSkip, NextSlot
  <1>7. ASSUME PrefillDemand  PROVE ApiLocalsInv'
    BY <1>7 DEF PrefillDemand, is_active_req
  <1>8. ASSUME GrowSync  PROVE ApiLocalsInv'
    BY <1>8 DEF GrowSync
  <1>9. ASSUME OutOfMemory  PROVE ApiLocalsInv'
    BY <1>9 DEF OutOfMemory
  <1>10. ASSUME GrowSyncDone  PROVE ApiLocalsInv'
    BY <1>10 DEF GrowSyncDone, GrowFinished, NextSlot
  <1>11. ASSUME StepSyncReturn  PROVE ApiLocalsInv'
    BY <1>11 DEF StepSyncReturn
  <1>12. ASSUME ForwardDone  PROVE ApiLocalsInv'
    BY <1>12 DEF ForwardDone
  <1>13. ASSUME CleanupStart  PROVE ApiLocalsInv'
    BY <1>13 DEF CleanupStart
  <1>14. ASSUME CleanupDone  PROVE ApiLocalsInv'
    BY <1>14 DEF CleanupDone
  <1>15. ASSUME NEW m \in Managers, SpawnManager(m)  PROVE ApiLocalsInv'
    BY <1>15 DEF SpawnManager
  <1>16. ASSUME NEW seqlen \in Lengths \ {0}, AllocStart(seqlen)  PROVE ApiLocalsInv'
    BY <1>16 DEF AllocStart
  <1>17. ASSUME NEW r \in Reqs, free_batch_idx(r)  PROVE ApiLocalsInv'
    BY <1>17 DEF free_batch_idx
  <1>18. ASSUME NEW val \in BOOLEAN, set_deferred_reclamation(val)  PROVE ApiLocalsInv'
    BY <1>18 DEF set_deferred_reclamation
  <1>19. ASSUME NEW lens \in StepLengths, StepAsync(lens)  PROVE ApiLocalsInv'
    BY <1>19 DEF StepAsync, StepLengths
  <1>20. ASSUME NEW lens \in StepLengths, StepSync(lens)  PROVE ApiLocalsInv'
    BY <1>20 DEF StepSync, StepLengths
  <1>21. ASSUME NEW r \in Reqs, CopyLength(r)  PROVE ApiLocalsInv'
    BY <1>21 DEF CopyLength
  <1>22. ASSUME ReclaimDone(API)  PROVE ApiLocalsInv'
    BY <1>22 DEF ReclaimDone, AfterReclaim
  <1>23. ASSUME ReclaimVisit(API)  PROVE ApiLocalsInv'
    <2>1. victim[API] \in Reqs /\ idx[API] \in Reqs
      BY <1>23 DEF ReclaimVisit, Reqs, ControlInv
    <2>2. mapped_pages[idx[API]] < tokens_to_pages(curr_seq_lengths[idx[API]])
      BY <1>23, <2>1 DEF ReclaimVisit
    <2>3. CASE mapped_pages[victim[API]] <= tokens_to_pages(curr_seq_lengths[victim[API]])
      BY <1>23, <2>1, <2>3 DEF ReclaimVisit
    <2>4. CASE ~(mapped_pages[victim[API]] <= tokens_to_pages(curr_seq_lengths[victim[API]]))
      <3>1. victim[API] # idx[API]
        BY <2>2, <2>4, <2>1
      <3>2. /\ retain'[API] = tokens_to_pages(curr_seq_lengths[victim[API]])
            /\ pc'[API] = "release" /\ pc[API] = "reclaim"
            /\ UNCHANGED <<mapped_pages, curr_seq_lengths, victim, idx, nr_required, left, chosen, seq_lens>>
        BY <1>23, <2>4 DEF ReclaimVisit
      <3>3. QED  BY <3>1, <3>2, <2>1
    <2>5. QED  BY <2>3, <2>4
  <1>24. ASSUME ReleaseOne(API)  PROVE ApiLocalsInv'
    BY <1>24, UnmapEffect DEF ReleaseOne, ControlInv
  <1>25. ASSUME ReleaseDone(API)  PROVE ApiLocalsInv'
    BY <1>25 DEF ReleaseDone
  <1>26. ASSUME GrowOne(API)  PROVE ApiLocalsInv'
    BY <1>26, MapEffect DEF GrowOne, ControlInv
  <1>27. ASSUME SyncRelease  PROVE ApiLocalsInv'
    BY <1>27 DEF SyncRelease
  <1>28. ASSUME CleanupRelease  PROVE ApiLocalsInv'
    BY <1>28 DEF CleanupRelease
  <1>29. QED
    BY <1>1, <1>2, <1>3, <1>4, <1>5, <1>6, <1>7, <1>8, <1>9, <1>10, <1>11, <1>12,
       <1>13, <1>14, <1>15, <1>16, <1>17, <1>18, <1>19, <1>20, <1>21, <1>22, <1>23,
       <1>24, <1>25, <1>26, <1>27, <1>28
       DEF ApiCall, ApiStep, SharedStep

(* What a manager has read is not invalidated by the calls of the API thread. *)
LEMMA ApiKeepsManagerLocals ==
  ASSUME IInv, MutexInv, DataInv, ApiCall \/ ApiStep
  PROVE  ManagerLocalsInv'
  <1>0. API \in Threads /\ PcType /\ CallerType /\ IndexType /\ CountType /\ ControlInv
    BY TypeParts DEF Threads, IInv
  <1> USE <1>0, ThreadsAssumption, Numbers, LengthFits, SizesAssumption
      DEF DataInv, ManagerLocalsInv, MutexInv, ControlInv, Stepping, PcType, CallerType, IndexType, CountType, Threads, Goto, caller, locals
  <1>1. ASSUME AllocScan  PROVE ManagerLocalsInv'
    BY <1>1 DEF AllocScan
  <1>2. ASSUME AllocReturn  PROVE ManagerLocalsInv'
    BY <1>2 DEF AllocReturn
  <1>3. ASSUME WaitManager  PROVE ManagerLocalsInv'
    BY <1>3 DEF WaitManager
  <1>4. ASSUME SyncLength  PROVE ManagerLocalsInv'
    BY <1>4 DEF SyncLength
  <1>5. ASSUME SyncReleased  PROVE ManagerLocalsInv'
    BY <1>5 DEF SyncReleased
  <1>6. ASSUME PrefillSkip  PROVE ManagerLocalsInv'
    BY <1>6 DEF PrefillSkip, NextSlot
  <1>7. ASSUME PrefillDemand  PROVE ManagerLocalsInv'
    BY <1>7 DEF PrefillDemand
  <1>8. ASSUME GrowSync  PROVE ManagerLocalsInv'
    BY <1>8 DEF GrowSync
  <1>9. ASSUME OutOfMemory  PROVE ManagerLocalsInv'
    BY <1>9 DEF OutOfMemory
  <1>10. ASSUME GrowSyncDone  PROVE ManagerLocalsInv'
    BY <1>10 DEF GrowSyncDone, GrowFinished, NextSlot
  <1>11. ASSUME StepSyncReturn  PROVE ManagerLocalsInv'
    BY <1>11 DEF StepSyncReturn
  <1>12. ASSUME ForwardDone  PROVE ManagerLocalsInv'
    BY <1>12 DEF ForwardDone
  <1>13. ASSUME CleanupStart  PROVE ManagerLocalsInv'
    BY <1>13 DEF CleanupStart
  <1>14. ASSUME CleanupDone  PROVE ManagerLocalsInv'
    BY <1>14 DEF CleanupDone
  <1>15. ASSUME NEW m \in Managers, SpawnManager(m)  PROVE ManagerLocalsInv'
    BY <1>15 DEF SpawnManager
  <1>16. ASSUME NEW seqlen \in Lengths \ {0}, AllocStart(seqlen)  PROVE ManagerLocalsInv'
    BY <1>16 DEF AllocStart
  <1>17. ASSUME NEW r \in Reqs, free_batch_idx(r)  PROVE ManagerLocalsInv'
    BY <1>17, PagesZero DEF free_batch_idx
  <1>18. ASSUME NEW val \in BOOLEAN, set_deferred_reclamation(val)  PROVE ManagerLocalsInv'
    BY <1>18 DEF set_deferred_reclamation
  <1>19. ASSUME NEW lens \in StepLengths, StepAsync(lens)  PROVE ManagerLocalsInv'
    BY <1>19 DEF StepAsync, StepLengths
  <1>20. ASSUME NEW lens \in StepLengths, StepSync(lens)  PROVE ManagerLocalsInv'
    BY <1>20 DEF StepSync, StepLengths
  <1>21. ASSUME NEW r \in Reqs, CopyLength(r)  PROVE ManagerLocalsInv'
    BY <1>21 DEF CopyLength
  <1>22. ASSUME ReclaimDone(API)  PROVE ManagerLocalsInv'
    BY <1>22 DEF ReclaimDone, AfterReclaim
  <1>23. ASSUME ReclaimVisit(API)  PROVE ManagerLocalsInv'
    BY <1>23 DEF ReclaimVisit
  <1>24. ASSUME ReleaseOne(API)  PROVE ManagerLocalsInv'
    BY <1>24 DEF ReleaseOne
  <1>25. ASSUME ReleaseDone(API)  PROVE ManagerLocalsInv'
    BY <1>25 DEF ReleaseDone
  <1>26. ASSUME GrowOne(API)  PROVE ManagerLocalsInv'
    BY <1>26 DEF GrowOne
  <1>27. ASSUME SyncRelease  PROVE ManagerLocalsInv'
    BY <1>27 DEF SyncRelease
  <1>28. ASSUME CleanupRelease  PROVE ManagerLocalsInv'
    BY <1>28 DEF CleanupRelease
  <1>29. QED
    BY <1>1, <1>2, <1>3, <1>4, <1>5, <1>6, <1>7, <1>8, <1>9, <1>10, <1>11, <1>12,
       <1>13, <1>14, <1>15, <1>16, <1>17, <1>18, <1>19, <1>20, <1>21, <1>22, <1>23,
       <1>24, <1>25, <1>26, <1>27, <1>28
       DEF ApiCall, ApiStep, SharedStep

(* Before, during and after a step every resident token is backed. *)
LEMMA ApiKeepsBacked ==
  ASSUME IInv, MutexInv, DataInv, ApiCall \/ ApiStep
  PROVE  BackedInv'
  <1>0. API \in Threads /\ PcType /\ CallerType /\ IndexType /\ CountType /\ ControlInv
    BY TypeParts DEF Threads, IInv
  <1> USE <1>0, Numbers, LengthFits, SizesAssumption, PagesZero
      DEF DataInv, BackedInv, Backed, Stepping, PcType, CallerType, IndexType, Threads, Goto, memory, caller, locals
  <1>1. ASSUME AllocScan  PROVE BackedInv'
    BY <1>1 DEF AllocScan
  <1>2. ASSUME AllocReturn  PROVE BackedInv'
    BY <1>2 DEF AllocReturn
  <1>3. ASSUME WaitManager  PROVE BackedInv'
    BY <1>3 DEF WaitManager, ApiLocalsInv, Reqs
  <1>4. ASSUME SyncLength  PROVE BackedInv'
    BY <1>4 DEF SyncLength
  <1>5. ASSUME SyncReleased  PROVE BackedInv'
    BY <1>5, SlotOrder DEF SyncReleased, ControlInv, ApiLocalsInv
  <1>6. ASSUME PrefillSkip  PROVE BackedInv'
    BY <1>6, SlotOrder DEF PrefillSkip, NextSlot, LengthsInv, is_active_req, Shortfall
  <1>7. ASSUME PrefillDemand  PROVE BackedInv'
    BY <1>7 DEF PrefillDemand
  <1>8. ASSUME GrowSync  PROVE BackedInv'
    BY <1>8 DEF GrowSync
  <1>9. ASSUME OutOfMemory  PROVE BackedInv'
    BY <1>9 DEF OutOfMemory
  <1>10. ASSUME GrowSyncDone  PROVE BackedInv'
    <2>1. idx[API] \in Reqs /\ curr_seq_lengths[idx[API]] = seq_lens[idx[API]]
      BY <1>10 DEF GrowSyncDone, GrowFinished, LengthsInv, ControlInv
    <2>2. Backed(idx[API], seq_lens[idx[API]])
      <3>1. CASE left[API] = 0
        BY <1>10, <2>1, <3>1 DEF GrowSyncDone, GrowFinished, ApiLocalsInv, Shortfall
      <3>2. CASE ~is_valid_offset(idx[API])
        BY <2>1, <3>2, MaxPagesType DEF is_valid_offset
      <3>3. QED  BY <1>10, <3>1, <3>2 DEF GrowSyncDone, GrowFinished
    <2>3. /\ UNCHANGED <<mapped_pages, resident, seq_lens>> /\ idx'[API] = idx[API] + 1
          /\ pc[API] = "map" /\ pc'[API] \in {"prefill", "sync"}
      BY <1>10 DEF GrowSyncDone, GrowFinished, NextSlot
    <2>4. QED  BY <2>2, <2>3, SlotOrder
  <1>11. ASSUME StepSyncReturn  PROVE BackedInv'
    BY <1>11, SlotOrder DEF StepSyncReturn
  <1>12. ASSUME ForwardDone  PROVE BackedInv'
    BY <1>12 DEF ForwardDone
  <1>13. ASSUME CleanupStart  PROVE BackedInv'
    BY <1>13 DEF CleanupStart
  <1>14. ASSUME CleanupDone  PROVE BackedInv'
    BY <1>14 DEF CleanupDone
  <1>15. ASSUME NEW m \in Managers, SpawnManager(m)  PROVE BackedInv'
    BY <1>15, SlotOrder DEF SpawnManager
  <1>16. ASSUME NEW seqlen \in Lengths \ {0}, AllocStart(seqlen)  PROVE BackedInv'
    BY <1>16 DEF AllocStart
  <1>17. ASSUME NEW r \in Reqs, free_batch_idx(r)  PROVE BackedInv'
    BY <1>17 DEF free_batch_idx
  <1>18. ASSUME NEW val \in BOOLEAN, set_deferred_reclamation(val)  PROVE BackedInv'
    BY <1>18 DEF set_deferred_reclamation
  <1>19. ASSUME NEW lens \in StepLengths, StepAsync(lens)  PROVE BackedInv'
    BY <1>19 DEF StepAsync, StepLengths
  <1>20. ASSUME NEW lens \in StepLengths, StepSync(lens)  PROVE BackedInv'
    BY <1>20 DEF StepSync, StepLengths, ApiLocalsInv, Reqs
  <1>21. ASSUME NEW r \in Reqs, CopyLength(r)  PROVE BackedInv'
    BY <1>21 DEF CopyLength
  <1>22. ASSUME ReclaimDone(API)  PROVE BackedInv'
    BY <1>22 DEF ReclaimDone, AfterReclaim
  <1>23. ASSUME ReclaimVisit(API)  PROVE BackedInv'
    BY <1>23 DEF ReclaimVisit
  <1>24. ASSUME ReleaseOne(API)  PROVE BackedInv'
    <2>1. /\ victim[API] \in Reqs /\ pc[API] = "release" /\ mapped_pages[victim[API]] > retain[API]
          /\ unmap_req_page_one(victim[API])
          /\ UNCHANGED <<resident, seq_lens, idx, pc>>
      BY <1>24 DEF ReleaseOne, ControlInv
    <2>2. mapped_pages'[victim[API]] >= tokens_to_pages(curr_seq_lengths[victim[API]])
      BY <2>1, UnmapEffect DEF ApiLocalsInv, CountType
    <2>3. \A s \in Reqs : /\ mapped_pages'[s] >= tokens_to_pages(resident[s])
                          /\ s < idx[API] => mapped_pages'[s] >= tokens_to_pages(seq_lens[s])
      <3> SUFFICES ASSUME NEW s \in Reqs
                   PROVE  /\ mapped_pages'[s] >= tokens_to_pages(resident[s])
                          /\ s < idx[API] => mapped_pages'[s] >= tokens_to_pages(seq_lens[s])
        OBVIOUS
      <3>1. CASE s = victim[API]
        <4>1. s < idx[API] => curr_seq_lengths[s] = seq_lens[s]
          BY <2>1 DEF LengthsInv
        <4>2. resident[s] <= curr_seq_lengths[s]
          BY DEF LengthsInv
        <4>3. mapped_pages'[s] \in Int
          BY <2>1, UnmapEffect
        <4>4. QED  BY <3>1, <4>1, <4>2, <4>3, <2>2, LengthMono
      <3>2. CASE s # victim[API]
        BY <3>2, <2>1, UnmapEffect
      <3>3. QED  BY <3>1, <3>2
    <2>4. QED  BY <2>1, <2>3
  <1>25. ASSUME ReleaseDone(API)  PROVE BackedInv'
    BY <1>25 DEF ReleaseDone
  <1>26. ASSUME GrowOne(API)  PROVE BackedInv'
    BY <1>26, MapEffect DEF GrowOne, ControlInv
  <1>27. ASSUME SyncRelease  PROVE BackedInv'
    BY <1>27, UnmapEffect DEF SyncRelease, ControlInv, ApiLocalsInv, LengthsInv
  <1>28. ASSUME CleanupRelease  PROVE BackedInv'
    BY <1>28 DEF CleanupRelease
  <1>29. QED
    BY <1>1, <1>2, <1>3, <1>4, <1>5, <1>6, <1>7, <1>8, <1>9, <1>10, <1>11, <1>12,
       <1>13, <1>14, <1>15, <1>16, <1>17, <1>18, <1>19, <1>20, <1>21, <1>22, <1>23,
       <1>24, <1>25, <1>26, <1>27, <1>28
       DEF ApiCall, ApiStep, SharedStep

-----------------------------------------------------------------------------
LEMMA DataStep ==
  ASSUME IInv, MutexInv, DataInv, [Next]_vars
  PROVE  DataInv'
  <1>1. CASE ApiCall \/ ApiStep
    BY <1>1, ApiKeepsLengths, ApiKeepsLocals, ApiKeepsManagerLocals, ApiKeepsBacked DEF DataInv
  <1>2. ASSUME NEW m \in Managers, ManagerStep(m)  PROVE DataInv'
    BY <1>2, ManagerKeepsData
  <1>3. CASE Stopped \/ UNCHANGED vars
    BY <1>3 DEF Stopped, vars, memory, caller, locals, DataInv, LengthsInv, ApiLocalsInv,
                ManagerLocalsInv, BackedInv, Backed, Shortfall
  <1>4. QED  BY <1>1, <1>2, <1>3 DEF Next

LEMMA DataInvariant ==
  ASSUME StartsDuringForward
  PROVE  Spec => []DataInv
  <1>1. Init => DataInv
    <2> SUFFICES ASSUME Init  PROVE DataInv
      OBVIOUS
    <2>1. LengthsInv /\ ApiLocalsInv
      BY ThreadsAssumption DEF Init, LengthsInv, ApiLocalsInv, Threads, Stepping
    <2>2. ManagerLocalsInv
      BY ThreadsAssumption DEF Init, ManagerLocalsInv, Threads
    <2>3. BackedInv
      BY PagesZero, ThreadsAssumption DEF Init, BackedInv, Backed, Threads, Stepping
    <2>4. QED  BY <2>1, <2>2, <2>3 DEF DataInv
  <1>2. IInv /\ MutexInv /\ DataInv /\ [Next]_vars => DataInv'
    BY DataStep
  <1>3. QED  BY <1>1, <1>2, Invariant, MutexInvariant, PTL DEF Spec

(* While the model runs, step_async (or step) has mapped memory for every    *)
(* token of every request, and the manager working beside it takes none of   *)
(* it away.                                                                  *)
THEOREM ForwardBackedHolds ==
  ASSUME StartsDuringForward
  PROVE  Spec => []ForwardBacked
  <1>1. DataInv => ForwardBacked
    BY DEF DataInv, BackedInv, Backed, ForwardBacked
  <1>2. QED  BY <1>1, DataInvariant, PTL

(* A step that touches the page map moves one block and leaves the ghost and *)
(* the API thread's label alone.                                             *)
LEMMA PageMoves ==
  ASSUME IInv, MutexInv, Next
  PROVE  \/ UNCHANGED pagemap
         \/ /\ \E s \in Reqs : MapBlock(s) \/ unmap_req_page_one(s)
            /\ UNCHANGED resident
            /\ pc'[API] = pc[API] /\ pc[API] # "cleaned"
  <1> DEFINE Goal == \/ UNCHANGED pagemap
                     \/ /\ \E s \in Reqs : MapBlock(s) \/ unmap_req_page_one(s)
                        /\ UNCHANGED resident
                        /\ pc'[API] = pc[API] /\ pc[API] # "cleaned"
  <1>1. ControlInv /\ PcType /\ API \in Threads
    BY TypeParts DEF IInv, Threads
  <1>2. ASSUME NEW t \in Threads, SharedStep(t)  PROVE Goal
    <2>1. t \in Managers => pc[t] = "none" \/ pc[API] # "cleaned"
      BY DEF MutexInv
    <2>2. CASE ReleaseOne(t)
      BY <2>2, <2>1, <1>1 DEF ReleaseOne, ControlInv, caller, Threads
    <2>3. CASE GrowOne(t)
      BY <2>3, <2>1, <1>1 DEF GrowOne, ControlInv, caller, Threads
    <2>4. CASE ReclaimDone(t) \/ ReclaimVisit(t) \/ ReleaseDone(t)
      BY <2>4 DEF ReclaimDone, ReclaimVisit, ReleaseDone, memory
    <2>5. QED  BY <1>2, <2>2, <2>3, <2>4 DEF SharedStep
  <1>3. CASE SyncRelease
    BY <1>3, <1>1 DEF SyncRelease, ControlInv, caller
  <1>4. CASE CleanupRelease
    BY <1>4, <1>1 DEF CleanupRelease, caller, memory
  <1>5. ASSUME NEW m \in Managers, UnmapVictim(m)  PROVE Goal
    <2>1. victim[m] \in Reqs /\ unmap_req_page_one(victim[m]) /\ UNCHANGED resident
      BY <1>5, <1>1 DEF UnmapVictim, ControlInv, caller
    <2>2. pc'[API] = pc[API] /\ pc[API] # "cleaned"
      BY <1>5, <1>1, ThreadsAssumption DEF UnmapVictim, MutexInv, PcType, Goto, Threads
    <2>3. QED  BY <2>1, <2>2
  <1>6. CASE ApiCall
    BY <1>6 DEF ApiCall, AllocStart, free_batch_idx, set_deferred_reclamation, StepAsync, StepSync,
                CleanupStart, memory
  <1>7. CASE \/ AllocScan \/ AllocReturn \/ (\E r \in Reqs : CopyLength(r)) \/ WaitManager
             \/ SyncLength \/ SyncReleased \/ PrefillSkip \/ PrefillDemand
    BY <1>7 DEF AllocScan, AllocReturn, CopyLength, WaitManager, SyncLength, SyncReleased,
                PrefillSkip, PrefillDemand, memory
  <1>8. CASE \/ GrowSync \/ OutOfMemory \/ GrowSyncDone \/ (\E m \in Managers : SpawnManager(m))
             \/ StepSyncReturn \/ ForwardDone \/ CleanupDone
    BY <1>8 DEF GrowSync, OutOfMemory, GrowSyncDone, SpawnManager, StepSyncReturn, ForwardDone,
                CleanupDone, memory
  <1>9. ASSUME NEW m \in Managers,
               \/ ManagerStart(m) \/ ManagerNeed(m) \/ ManagerNeedDone(m) \/ ManagerRecheck(m)
               \/ EagerGrow(m) \/ EagerGrowDone(m) \/ EagerNextStep(m) \/ EagerDone(m)
               \/ ScanPrefill(m) \/ ScanVictim(m) \/ ManagerFinish(m)
        PROVE  Goal
    BY <1>9 DEF ManagerStart, ManagerNeed, ManagerNeedDone, ManagerRecheck, EagerGrow, EagerGrowDone,
                EagerNextStep, EagerDone, ScanPrefill, ScanVictim, ManagerFinish, memory
  <1>10. CASE Stopped
    BY <1>10 DEF Stopped, vars, memory
  <1>11. QED
    BY <1>1, <1>2, <1>3, <1>4, <1>5, <1>6, <1>7, <1>8, <1>9, <1>10
       DEF Next, ApiStep, ManagerStep, Threads

(* Moving a block touches neither the blocks below the old top of the slot   *)
(* nor those below the new one.                                              *)
LEMMA LowerBlocksStay ==
  ASSUME IInv, NEW s \in Reqs, MapBlock(s) \/ unmap_req_page_one(s),
         NEW r \in Reqs, NEW i \in BlockIds, i < mapped_pages[r], i < mapped_pages'[r]
  PROVE  pagemap'[r][i] = pagemap[r][i]
  <1>1. /\ mapped_pages \in [Reqs -> 0 .. max_pages_per_req]
        /\ pagemap \in [Reqs -> [BlockIds -> [Buffers -> Pages \cup {NoPage}]]]
    BY DEF IInv, TypeOK
  <1>2. CASE MapBlock(s)
    <2>1. PICK block : pagemap' = [pagemap EXCEPT ![s][mapped_pages[s]] = block]
      BY <1>2 DEF MapBlock
    <2>2. QED  BY <2>1, <1>1, MaxPagesType DEF BlockIds
  <1>3. CASE unmap_req_page_one(s)
    <2>1. /\ pagemap' = [pagemap EXCEPT ![s][mapped_pages[s] - 1] = NoBlock]
          /\ mapped_pages' = [mapped_pages EXCEPT ![s] = mapped_pages[s] - 1]
      BY <1>3 DEF unmap_req_page_one
    <2>2. s = r => i # mapped_pages[s] - 1
      BY <2>1, <1>1, MaxPagesType DEF BlockIds
    <2>3. QED  BY <2>1, <2>2, <1>1
  <1>4. QED  BY <1>2, <1>3

LEMMA ResidentPagesStep ==
  ASSUME IInv, IInv', MutexInv, DataInv, DataInv', Next,
         NEW r \in Reqs, NEW i \in BlockIds,
         i < tokens_to_pages(resident[r]), pc[API] # "cleanup"
  PROVE  pagemap'[r][i] = pagemap[r][i]
  <1>1. CASE UNCHANGED pagemap
    BY <1>1
  <1>2. CASE pagemap' # pagemap
    <2>1. /\ resident'[r] = resident[r]
          /\ pc[API] \notin {"cleanup", "cleaned"} /\ pc'[API] \notin {"cleanup", "cleaned"}
      BY <1>2, PageMoves
    <2>2. PICK s \in Reqs : MapBlock(s) \/ unmap_req_page_one(s)
      BY <1>2, PageMoves
    <2>3. tokens_to_pages(resident[r]) \in Nat /\ i \in Int /\ mapped_pages[r] \in Int
      BY Numbers, LengthFits, MaxPagesType DEF BlockIds
    <2>4. mapped_pages'[r] \in Int
      BY MaxPagesType DEF IInv, TypeOK
    <2>5. i < mapped_pages[r]
      BY <2>1, <2>3 DEF DataInv, BackedInv, Backed
    <2>6. mapped_pages'[r] >= tokens_to_pages(resident'[r])
      BY <2>1 DEF DataInv, BackedInv, Backed
    <2>7. i < mapped_pages'[r]
      BY <2>1, <2>3, <2>4, <2>6
    <2>8. QED  BY <2>2, <2>5, <2>7, LowerBlocksStay
  <1>3. QED  BY <1>1, <1>2

(* No step but cleanup unmaps or replaces the page behind a token that a     *)
(* finished forward pass has written, as long as its request is not freed.   *)
THEOREM ResidentPagesStayHolds ==
  ASSUME StartsDuringForward
  PROVE  Spec => ResidentPagesStay
  <1> DEFINE Stays ==
        \A r \in Reqs : \A i \in BlockIds :
          i < tokens_to_pages(resident[r]) /\ pc[API] # "cleanup" => pagemap'[r][i] = pagemap[r][i]
  <1>1. IInv /\ IInv' /\ MutexInv /\ DataInv /\ DataInv' /\ [Next]_vars => [Stays]_vars
    BY ResidentPagesStep
  <1>2. QED  BY <1>1, Invariant, MutexInvariant, DataInvariant, PTL DEF Spec, ResidentPagesStay

-----------------------------------------------------------------------------
(***************************************************************************)
(* Counting blocks: the pool and the slots together always hold all of     *)
(* physical memory, so pop_cuda_page never finds the pool empty, a step    *)
(* fails for lack of memory only if the lengths do not fit, and the number *)
(* of free blocks reported is exact.  A sum over the slots is the size of  *)
(* a set of pairs (slot, block); the only facts about sizes that are used  *)
(* are those of FiniteSetTheorems.                                         *)
(***************************************************************************)

(* Whole blocks: the quotient of a multiple. *)
LEMMA DivExact ==
  ASSUME NEW n \in Nat, NEW d \in Nat \ {0}
  PROVE  (n * d) \div d = n
  OBVIOUS

LEMMA ModZero ==
  ASSUME NEW n \in Nat, NEW d \in Nat \ {0}, n % d = 0
  PROVE  n = (n \div d) * d
  OBVIOUS

LEMMA TimesType ==
  ASSUME NEW n \in Nat, NEW d \in Nat  PROVE n * d \in Nat
  OBVIOUS

LEMMA BlockSizes ==
  /\ Cardinality(Buffers) \in Nat \ {0}
  /\ Cardinality(Pages) \in Nat
  /\ TotalBlocks \in Nat
  /\ Cardinality(Pages) = TotalBlocks * Cardinality(Buffers)
  <1>1. Cardinality(Buffers) \in Nat \ {0}
    BY MemoryAssumption, FS_CardinalityType, FS_EmptySet
  <1>2. Cardinality(Pages) \in Nat
    BY MemoryAssumption, FS_CardinalityType
  <1>3. TotalBlocks \in Nat
    BY <1>1, <1>2, DivType DEF TotalBlocks, pages_to_kvblocks, pages_per_kvblock
  <1>4. Cardinality(Pages) = TotalBlocks * Cardinality(Buffers)
    BY <1>1, <1>2, WholeBlocksAssumption, ModZero DEF TotalBlocks, pages_to_kvblocks, pages_per_kvblock
  <1>5. QED  BY <1>1, <1>2, <1>3, <1>4

LEMMA BlocksFinite ==
  ASSUME NEW n
  PROVE  IsFiniteSet(BlocksOf(n)) /\ Cardinality(BlocksOf(n)) \in Nat
  <1>1. IsFiniteSet(Reqs) /\ IsFiniteSet(BlockIds)
    BY FS_Interval, SizesAssumption, MaxPagesType DEF Reqs, BlockIds
  <1>2. IsFiniteSet(Reqs \X BlockIds)
    BY <1>1, FS_Product
  <1>3. BlocksOf(n) \in SUBSET (Reqs \X BlockIds)
    BY DEF BlocksOf
  <1>4. QED  BY <1>2, <1>3, FS_Subset, FS_CardinalityType

(* More blocks for every slot are more blocks. *)
LEMMA BlocksMono ==
  ASSUME NEW n \in [Reqs -> Int], NEW k \in [Reqs -> Int], \A r \in Reqs : n[r] <= k[r]
  PROVE  BlocksOf(n) \subseteq BlocksOf(k) /\ Cardinality(BlocksOf(n)) <= Cardinality(BlocksOf(k))
  <1>1. BlocksOf(n) \subseteq BlocksOf(k)
    BY MaxPagesType DEF BlocksOf, BlockIds
  <1>2. QED  BY <1>1, BlocksFinite, FS_Subset

(* The page map is a bijection between the virtual pages of the mapped       *)
(* blocks and the physical pages outside the pool.                           *)
LEMMA MappedPages ==
  ASSUME IInv, pc[API] # "cleaned"
  PROVE  ExistsBijection(BlocksOf(mapped_pages) \X Buffers, Pages \ freePages)
  <1> DEFINE V == BlocksOf(mapped_pages) \X Buffers
             P == Pages \ freePages
             f == [v \in V |-> pagemap[v[1][1]][v[1][2]][v[2]]]
  <1>1. \A v \in V : /\ v[1][1] \in Reqs /\ v[1][2] \in BlockIds /\ v[2] \in Buffers
                     /\ v[1][2] < mapped_pages[v[1][1]]
                     /\ v = << <<v[1][1], v[1][2]>>, v[2] >>
    BY DEF BlocksOf
  <1>2. f \in [V -> P]
    BY <1>1 DEF IInv, PageOwnership, MappedPrefix
  <1>3. ASSUME NEW v \in V, NEW w \in V, f[v] = f[w]  PROVE v = w
    <2>1. pagemap[v[1][1]][v[1][2]][v[2]] = pagemap[w[1][1]][w[1][2]][w[2]]
      BY <1>3
    <2>2. pagemap[v[1][1]][v[1][2]][v[2]] \in Pages
      BY <1>1 DEF IInv, PageOwnership, MappedPrefix
    <2>3. pagemap[v[1][1]][v[1][2]][v[2]] # NoPage
      BY <2>2, MemoryAssumption
    <2>4. v[1][1] = w[1][1] /\ v[1][2] = w[1][2] /\ v[2] = w[2]
      BY <1>1, <2>1, <2>3 DEF IInv, PageOwnership, PagesExclusive
    <2>5. QED  BY <1>1, <2>4
  <1>4. ASSUME NEW p \in P  PROVE \E v \in V : f[v] = p
    <2>1. PICK r \in Reqs, i \in BlockIds, b \in Buffers : pagemap[r][i][b] = p
      BY DEF IInv, PageOwnership, NoPageLeaked
    <2>2. i < mapped_pages[r]
      BY <2>1, MemoryAssumption DEF IInv, PageOwnership, MappedPrefix
    <2>3. << <<r, i>>, b >> \in V
      BY <2>2 DEF BlocksOf
    <2>4. f[<< <<r, i>>, b >>] = p
      BY <2>1, <2>3
    <2>5. QED  BY <2>3, <2>4
  <1>5. f \in Bijection(V, P)
    BY <1>2, <1>3, <1>4 DEF Bijection, Injection, Surjection, IsInjective
  <1>6. QED  BY <1>5 DEF ExistsBijection

(* The pool holds whole blocks: all that no slot has mapped. *)
LEMMA PoolBlocks ==
  ASSUME IInv, pc[API] # "cleaned"
  PROVE  /\ pages_to_kvblocks(Cardinality(freePages)) =
              TotalBlocks - Cardinality(BlocksOf(mapped_pages))
         /\ Cardinality(BlocksOf(mapped_pages)) <= TotalBlocks
  <1> DEFINE M == Cardinality(BlocksOf(mapped_pages))
             B == Cardinality(Buffers)
             F == Cardinality(freePages)
  <1>1. M \in Nat /\ B \in Nat \ {0} /\ TotalBlocks \in Nat
    BY BlocksFinite, BlockSizes
  <1>2. Cardinality(Pages \ freePages) = M * B
    <2>1. IsFiniteSet(BlocksOf(mapped_pages) \X Buffers)
          /\ Cardinality(BlocksOf(mapped_pages) \X Buffers) = M * B
      BY BlocksFinite, MemoryAssumption, FS_Product
    <2>2. QED  BY <2>1, MappedPages, FS_Bijection
  <1>3. freePages \in SUBSET Pages
    BY DEF IInv, TypeOK
  <1>4. F \in Nat
    BY <1>3, MemoryAssumption, FS_Subset, FS_CardinalityType
  <1>5. Cardinality(Pages \ freePages) = Cardinality(Pages) - F
    <2>1. Pages \cap freePages = freePages
      BY <1>3
    <2>2. QED  BY <2>1, <1>3, MemoryAssumption, FS_Difference, FS_Subset
  <1>6. F = TotalBlocks * B - M * B
    BY <1>1, <1>2, <1>4, <1>5, BlockSizes
  <1>7. F = (TotalBlocks - M) * B
    BY <1>1, <1>6
  <1>8. M <= TotalBlocks
    BY <1>1, <1>4, <1>7
  <1>9. F \div B = TotalBlocks - M
    BY <1>1, <1>7, <1>8, DivExact
  <1>10. QED  BY <1>8, <1>9 DEF pages_to_kvblocks, pages_per_kvblock

Mapped == Cardinality(BlocksOf(mapped_pages))

LEMMA AvailableIff ==
  ASSUME IInv, pc[API] # "cleaned", NEW n \in Nat
  PROVE  kvblocks_available(n) <=> n <= TotalBlocks - Mapped
  BY PoolBlocks, BlocksFinite, BlockSizes DEF kvblocks_available, Mapped

(* Mapping and unmapping a block changes the count by one. *)
LEMMA MapCounts ==
  ASSUME IInv, NEW r \in Reqs, is_valid_offset(r), MapBlock(r)
  PROVE  Mapped' = Mapped + 1
  <1> DEFINE v == <<r, mapped_pages[r]>>
  <1>1. v \in Reqs \X BlockIds /\ v \notin BlocksOf(mapped_pages)
    BY Numbers, MaxPagesType DEF is_valid_offset, BlockIds, BlocksOf
  <1>2. BlocksOf(mapped_pages)' = BlocksOf(mapped_pages) \cup {v}
    <2>1. \A s \in Reqs, i \in BlockIds :
            i < mapped_pages'[s] <=> i < mapped_pages[s] \/ (s = r /\ i = mapped_pages[r])
      BY MapEffect, Numbers, MaxPagesType DEF BlockIds
    <2>2. \A s \in Reqs, i \in BlockIds :
            <<s, i>> \in BlocksOf(mapped_pages)' <=> <<s, i>> \in BlocksOf(mapped_pages) \cup {v}
      BY <2>1 DEF BlocksOf
    <2>3. BlocksOf(mapped_pages)' \subseteq Reqs \X BlockIds
          /\ BlocksOf(mapped_pages) \cup {v} \subseteq Reqs \X BlockIds
      BY <1>1 DEF BlocksOf
    <2>4. QED  BY <2>2, <2>3
  <1>3. QED  BY <1>1, <1>2, BlocksFinite, FS_AddElement DEF Mapped

LEMMA UnmapCounts ==
  ASSUME IInv, NEW r \in Reqs, unmap_req_page_one(r)
  PROVE  Mapped' = Mapped - 1
  <1> DEFINE v == <<r, mapped_pages[r] - 1>>
             rest == BlocksOf(mapped_pages')
  <1>1. v \in Reqs \X BlockIds /\ v \notin rest
    <2>1. mapped_pages[r] - 1 \in BlockIds
      BY Numbers, MaxPagesType DEF unmap_req_page_one, BlockIds
    <2>2. mapped_pages'[r] = mapped_pages[r] - 1 /\ mapped_pages'[r] \in Int
      BY UnmapEffect, Numbers
    <2>3. QED  BY <2>1, <2>2 DEF BlocksOf
  <1>2. BlocksOf(mapped_pages) = rest \cup {v}
    <2>1. \A s \in Reqs, i \in BlockIds :
            i < mapped_pages[s] <=> i < mapped_pages'[s] \/ (s = r /\ i = mapped_pages[r] - 1)
      BY UnmapEffect, Numbers, MaxPagesType DEF BlockIds
    <2>2. \A s \in Reqs, i \in BlockIds :
            <<s, i>> \in BlocksOf(mapped_pages) <=> <<s, i>> \in rest \cup {v}
      BY <2>1 DEF BlocksOf
    <2>3. BlocksOf(mapped_pages) \subseteq Reqs \X BlockIds /\ rest \cup {v} \subseteq Reqs \X BlockIds
      BY <1>1 DEF BlocksOf
    <2>4. QED  BY <2>2, <2>3
  <1>3. Mapped = Cardinality(rest) + 1 /\ Cardinality(rest) \in Nat
    BY <1>1, <1>2, BlocksFinite, FS_AddElement DEF Mapped
  <1>4. Mapped' = Cardinality(rest)
    BY DEF Mapped, BlocksOf
  <1>5. QED  BY <1>3, <1>4

LEMMA SameCount ==
  ASSUME UNCHANGED mapped_pages  PROVE Mapped' = Mapped
  BY DEF Mapped, BlocksOf

-----------------------------------------------------------------------------
(* PoolCoversGrowth, in blocks. *)
PoolInv ==
  \A t \in Threads : pc[t] = "map" => left[t] <= TotalBlocks - Mapped

LEMMA PoolStep ==
  ASSUME IInv, MutexInv, PoolInv, [Next]_vars
  PROVE  PoolInv'
  <1>0. /\ PcType /\ IndexType /\ CountType /\ ControlInv /\ API \in Threads
        /\ Mapped \in Int /\ TotalBlocks \in Int
    BY TypeParts, BlocksFinite, BlockSizes DEF IInv, Threads, Mapped
  <1> USE <1>0, ThreadsAssumption DEF PcType, CountType, Threads, Goto
  (* No thread enters grow_kvcache_phys, and no memory is mapped. *)
  <1>1. ASSUME Mapped' <= Mapped, Mapped' \in Int,
               \A t \in Threads : pc'[t] = "map" => pc[t] = "map" /\ left'[t] = left[t]
        PROVE  PoolInv'
    BY <1>1 DEF PoolInv
  <1>2. ASSUME UNCHANGED mapped_pages,
               \A t \in Threads : pc'[t] = "map" => pc[t] = "map" /\ left'[t] = left[t]
        PROVE  PoolInv'
    BY <1>1, <1>2, SameCount
  <1>3. ASSUME NEW r \in Reqs, unmap_req_page_one(r), UNCHANGED left,
               \A t \in Threads : pc'[t] = "map" => pc[t] = "map"
        PROVE  PoolInv'
    BY <1>1, <1>3, UnmapCounts
  <1>4. ASSUME NEW t \in Threads, GrowOne(t)  PROVE PoolInv'
    <2>1. idx[t] \in Reqs /\ is_valid_offset(idx[t]) /\ MapBlock(idx[t]) /\ UNCHANGED pc
          /\ left' = [left EXCEPT ![t] = left[t] - 1] /\ pc[t] = "map"
      BY <1>4 DEF GrowOne, ControlInv
    <2>2. Mapped' = Mapped + 1
      BY <2>1, MapCounts
    <2>3. \A u \in Threads : pc[u] = "map" => u = t
      BY <2>1 DEF MutexInv
    <2>4. left[t] \in Int /\ left'[t] = left[t] - 1 /\ left[t] <= TotalBlocks - Mapped
      BY <2>1 DEF PoolInv
    <2>5. left'[t] <= TotalBlocks - Mapped'
      BY <2>2, <2>4
    <2>6. QED  BY <2>1, <2>3, <2>5 DEF PoolInv
  <1>5. ASSUME GrowSync  PROVE PoolInv'
    <2>1. nr_required[API] <= TotalBlocks - Mapped
      BY <1>5, AvailableIff DEF GrowSync
    <2>2. Mapped' = Mapped
      BY <1>5, SameCount DEF GrowSync, memory
    <2>3. QED  BY <1>5, <2>1, <2>2 DEF GrowSync, PoolInv
  <1>6. ASSUME NEW m \in Managers, EagerGrow(m)  PROVE PoolInv'
    <2> DEFINE n == need_new_page_async(idx[m], eager[m])
    <2>1. Mapped' = Mapped
      BY <1>6, SameCount DEF EagerGrow, memory
    <2>2. pc[API] # "cleaned"
      BY <1>6 DEF EagerGrow, MutexInv
    <2>3. n \in Nat
      BY <1>6, NeedType DEF EagerGrow, IInv
    <2>4. left'[m] <= TotalBlocks - Mapped
      BY <1>6, <2>2, <2>3, AvailableIff, PoolBlocks DEF EagerGrow, Mapped
    <2>5. QED  BY <1>6, <2>1, <2>4 DEF EagerGrow, PoolInv
  <1>7. ASSUME NEW t \in Threads, ReclaimDone(t) \/ ReclaimVisit(t) \/ ReleaseDone(t)  PROVE PoolInv'
    BY <1>2, <1>7 DEF ReclaimDone, ReclaimVisit, ReleaseDone, memory, AfterReclaim
  <1>8. ASSUME NEW t \in Threads, ReleaseOne(t)  PROVE PoolInv'
    BY <1>3, <1>8 DEF ReleaseOne, ControlInv, locals
  <1>9. CASE SyncRelease
    BY <1>3, <1>9 DEF SyncRelease, ControlInv, locals
  <1>10. CASE CleanupRelease
    BY <1>2, <1>3, <1>10 DEF CleanupRelease, memory
  <1>11. ASSUME NEW m \in Managers, UnmapVictim(m)  PROVE PoolInv'
    BY <1>3, <1>11 DEF UnmapVictim, ControlInv, locals
  <1>12. CASE ApiCall
    BY <1>2, <1>12 DEF ApiCall, AllocStart, free_batch_idx, set_deferred_reclamation, StepAsync,
                       StepSync, CleanupStart, memory, locals
  <1>13. CASE \/ AllocScan \/ AllocReturn \/ (\E r \in Reqs : CopyLength(r)) \/ WaitManager
              \/ SyncLength \/ SyncReleased
    BY <1>2, <1>13 DEF AllocScan, AllocReturn, CopyLength, WaitManager, SyncLength, SyncReleased,
                       memory, locals
  <1>14. CASE PrefillSkip \/ PrefillDemand \/ OutOfMemory \/ GrowSyncDone
    BY <1>2, <1>14 DEF PrefillSkip, PrefillDemand, OutOfMemory, GrowSyncDone, NextSlot, memory, locals
  <1>15. CASE \/ (\E m \in Managers : SpawnManager(m)) \/ StepSyncReturn \/ ForwardDone \/ CleanupDone
    BY <1>2, <1>15 DEF SpawnManager, StepSyncReturn, ForwardDone, CleanupDone, memory, locals
  <1>16. ASSUME NEW m \in Managers,
                \/ ManagerStart(m) \/ ManagerNeed(m) \/ ManagerNeedDone(m) \/ ManagerRecheck(m)
                \/ EagerGrowDone(m) \/ EagerNextStep(m) \/ EagerDone(m)
                \/ ScanPrefill(m) \/ ScanVictim(m) \/ ManagerFinish(m)
         PROVE  PoolInv'
    BY <1>2, <1>16
       DEF ManagerStart, ManagerNeed, ManagerNeedDone, ManagerRecheck, EagerGrowDone,
           EagerNextStep, EagerDone, ScanPrefill, ScanVictim, ManagerFinish, memory, locals
  <1>17. CASE Stopped \/ UNCHANGED vars
    BY <1>2, <1>17 DEF Stopped, vars, memory, locals
  <1>18. QED
    BY <1>4, <1>5, <1>6, <1>7, <1>8, <1>9, <1>10, <1>11, <1>12, <1>13, <1>14, <1>15, <1>16, <1>17
       DEF Next, ApiStep, ManagerStep, SharedStep

(* Once grow_kvcache_phys has found enough blocks in the pool, they stay     *)
(* there until it has mapped them, whatever the other thread does:           *)
(* pop_cuda_page never takes from an empty pool.                             *)
THEOREM PoolCoversGrowthHolds ==
  ASSUME StartsDuringForward
  PROVE  Spec => []PoolCoversGrowth
  <1>1. Init => PoolInv
    BY ThreadsAssumption DEF Init, PoolInv, Threads
  <1>2. IInv /\ MutexInv /\ PoolInv /\ [Next]_vars => PoolInv'
    BY PoolStep
  <1>3. IInv /\ MutexInv /\ PoolInv => PoolCoversGrowth
    <2> SUFFICES ASSUME IInv, MutexInv, PoolInv, NEW t \in Threads, pc[t] = "map"
                 PROVE  kvblocks_available(left[t])
      BY DEF PoolCoversGrowth
    <2>1. pc[API] # "cleaned"
      BY DEF MutexInv, Threads
    <2>2. left[t] \in Nat
      BY DEF IInv, TypeOK
    <2>3. QED  BY <2>1, <2>2, AvailableIff DEF PoolInv
  <1>4. QED  BY <1>1, <1>2, <1>3, Invariant, MutexInvariant, PTL DEF Spec
-----------------------------------------------------------------------------
(* A slot without overcommitted blocks. *)
Tight(r) == mapped_pages[r] <= tokens_to_pages(curr_seq_lengths[r])

(* reclaim_kvblocks_on_demand goes through the slots from the last one down  *)
(* and leaves none behind that holds more than its request needs.            *)
OomInv ==
  /\ pc[API] \in {"reclaim", "release"} => \A r \in Reqs : r > victim[API] => Tight(r)
  /\ pc[API] = "release" => retain[API] = tokens_to_pages(curr_seq_lengths[victim[API]])
  /\ pc[API] = "grow" => kvblocks_available(nr_required[API]) \/ \A r \in Reqs : Tight(r)
  /\ OomOnlyIfOversubscribed

(* The set of blocks that sequences of these lengths need. *)
LEMMA DemandBlocks ==
  ASSUME NEW lens \in [Reqs -> Lengths]
  PROVE  /\ [r \in Reqs |-> tokens_to_pages(lens[r])] \in [Reqs -> Int]
         /\ \A r \in Reqs, i \in BlockIds : <<r, i>> \in Demand(lens) <=> i < tokens_to_pages(lens[r])
         /\ IsFiniteSet(Demand(lens)) /\ BlocksFor(lens) \in Nat
  <1> DEFINE n == [r \in Reqs |-> tokens_to_pages(lens[r])]
  <1>1. n \in [Reqs -> Int]
    BY LengthFits
  <1>2. \A r \in Reqs, i \in BlockIds : <<r, i>> \in BlocksOf(n) <=> i < tokens_to_pages(lens[r])
    BY DEF BlocksOf
  <1>3. IsFiniteSet(BlocksOf(n)) /\ Cardinality(BlocksOf(n)) \in Nat
    BY BlocksFinite
  <1>4. QED  BY <1>1, <1>2, <1>3 DEF Demand, BlocksFor

LEMMA IntervalCount ==
  ASSUME NEW a \in Nat, NEW b \in Nat, a < b
  PROVE  IsFiniteSet(a .. b - 1) /\ Cardinality(a .. b - 1) = b - a
  <1>1. a \in Int /\ b - 1 \in Int /\ ~(a > b - 1) /\ (b - 1) - a + 1 = b - a
    OBVIOUS
  <1>2. QED  BY <1>1, FS_Interval

(* If no slot is overcommitted and the pool lacks blocks that slot r needs,  *)
(* all slots together need more than there is.                               *)
LEMMA Oversubscribed ==
  ASSUME IInv, pc[API] # "cleaned", \A s \in Reqs : Tight(s),
         \A s \in Reqs : curr_seq_lengths[s] <= seq_lens[s],
         NEW r \in Reqs, Shortfall(r) > 0, ~kvblocks_available(Shortfall(r))
  PROVE  BlocksFor(seq_lens) > TotalBlocks
  <1> DEFINE n == tokens_to_pages(curr_seq_lengths[r])
             M == BlocksOf(mapped_pages)
             X == {r} \X (mapped_pages[r] .. n - 1)
  <1>1. /\ n \in Nat /\ n <= max_pages_per_req /\ mapped_pages[r] \in Nat
        /\ max_pages_per_req \in Nat /\ mapped_pages[r] < n
    BY Numbers, LengthFits, MaxPagesType DEF Shortfall
  <1>2. IsFiniteSet(X) /\ Cardinality(X) = n - mapped_pages[r]
    <2>1. IsFiniteSet(mapped_pages[r] .. n - 1) /\ Cardinality(mapped_pages[r] .. n - 1) = n - mapped_pages[r]
      BY <1>1, IntervalCount
    <2>2. IsFiniteSet({r}) /\ Cardinality({r}) = 1
      BY FS_Singleton
    <2>3. IsFiniteSet(X) /\ Cardinality(X) = 1 * (n - mapped_pages[r])
      <3> DEFINE I == mapped_pages[r] .. n - 1
      <3>1. IsFiniteSet(I) /\ Cardinality(I) = n - mapped_pages[r]
        BY <2>1
      <3> HIDE DEF I, n
      <3>2. IsFiniteSet({r} \X I) /\ Cardinality({r} \X I) = Cardinality({r}) * Cardinality(I)
        BY <2>2, <3>1, FS_Product
      <3>3. X = {r} \X I
        BY Zenon DEF I
      <3> HIDE DEF X
      <3>4. QED  BY <2>2, <3>1, <3>2, <3>3
    <2>4. QED  BY <1>1, <2>3
  <1>3. \A s \in Reqs : tokens_to_pages(curr_seq_lengths[s]) <= tokens_to_pages(seq_lens[s])
    BY Numbers, LengthMono
  <1>4. seq_lens \in [Reqs -> Lengths]
    BY DEF IInv, TypeOK
  <1>5. M \subseteq Demand(seq_lens)
    <2>1. ASSUME NEW s \in Reqs, NEW i \in BlockIds, i < mapped_pages[s]
          PROVE  i < tokens_to_pages(seq_lens[s])
      BY <2>1, <1>3, Numbers, LengthFits, MaxPagesType DEF Tight, BlockIds
    <2>2. QED  BY <2>1 DEF Demand, BlocksOf
  <1>6. X \subseteq Demand(seq_lens)
    <2>1. ASSUME NEW i \in mapped_pages[r] .. n - 1
          PROVE  i \in BlockIds /\ i < tokens_to_pages(seq_lens[r])
      BY <1>1, <1>3, Numbers, LengthFits DEF BlockIds
    <2>2. \A x \in X : \E i \in mapped_pages[r] .. n - 1 : x = <<r, i>>
      OBVIOUS
    <2>3. QED  BY <2>1, <2>2, <1>4, DemandBlocks
  <1>7. M \cap X = {}
    <2> SUFFICES ASSUME NEW x \in X, x \in M  PROVE FALSE
      OBVIOUS
    <2>1. x[1] = r /\ x[2] \in mapped_pages[r] .. n - 1
      OBVIOUS
    <2>2. x[2] < mapped_pages[r]
      BY <2>1 DEF BlocksOf
    <2>3. QED  BY <1>1, <2>1, <2>2
  <1>8. Cardinality(M \cup X) = Cardinality(M) + (n - mapped_pages[r])
    <2>1. IsFiniteSet(M) /\ Cardinality(M) \in Nat
      BY BlocksFinite
    <2>2. Cardinality(M \cup X) = Cardinality(M) + Cardinality(X) - Cardinality(M \cap X)
      BY <1>2, <2>1, FS_Union
    <2>3. Cardinality(M \cap X) = 0
      BY <1>7, FS_EmptySet
    <2>4. QED  BY <1>1, <1>2, <2>1, <2>2, <2>3
  <1>9. Cardinality(M \cup X) <= BlocksFor(seq_lens)
    BY <1>4, <1>5, <1>6, DemandBlocks, FS_Subset DEF BlocksFor
  <1>10. n - mapped_pages[r] > TotalBlocks - Cardinality(M)
    BY <1>1, AvailableIff, BlocksFinite, BlockSizes DEF Shortfall, Mapped
  <1>11. QED
    BY <1>1, <1>4, <1>8, <1>9, <1>10, BlocksFinite, BlockSizes, DemandBlocks

LEMMA OomStep ==
  ASSUME IInv, MutexInv, DataInv, OomInv, [Next]_vars
  PROVE  OomInv'
  <1> DEFINE Reclaiming == {"grow", "reclaim", "release", "oom"}
  <1>0. /\ PcType /\ IndexType /\ CountType /\ ControlInv /\ API \in Threads
        /\ max_batch_size \in Nat
    BY TypeParts, SizesAssumption DEF IInv, Threads
  <1> USE <1>0, ThreadsAssumption DEF PcType, IndexType, CountType, Goto
  <1>1. ASSUME pc'[API] \notin Reclaiming  PROVE OomInv'
    BY <1>1 DEF OomInv, OomOnlyIfOversubscribed
  <1>2. ASSUME UNCHANGED <<mapped_pages, curr_seq_lengths>>  PROVE \A r \in Reqs : Tight(r) => Tight(r)'
    BY <1>2 DEF Tight
  <1>3. CASE PrefillDemand
    <2>1. CASE kvblocks_available(Shortfall(idx[API]))
      <3>1. pc'[API] = "grow" /\ nr_required'[API] = Shortfall(idx[API]) /\ UNCHANGED freePages
        BY <1>3, <2>1 DEF PrefillDemand, memory
      <3>2. kvblocks_available(nr_required[API])'
        BY <2>1, <3>1 DEF kvblocks_available
      <3>3. QED  BY <3>1, <3>2 DEF OomInv, OomOnlyIfOversubscribed
    <2>2. CASE ~kvblocks_available(Shortfall(idx[API]))
      <3>1. pc'[API] = "reclaim" /\ victim'[API] = max_batch_size - 1
        BY <1>3, <2>2 DEF PrefillDemand
      <3>2. QED  BY <3>1 DEF OomInv, OomOnlyIfOversubscribed, Reqs
    <2>3. QED  BY <2>1, <2>2
  <1>4. CASE ReclaimDone(API)
    <2>1. /\ pc'[API] = "grow" /\ UNCHANGED <<freePages, mapped_pages, curr_seq_lengths, nr_required>>
          /\ pc[API] = "reclaim" /\ (victim[API] < 0 \/ kvblocks_available(nr_required[API]))
      BY <1>4 DEF ReclaimDone, AfterReclaim, memory
    <2>2. CASE kvblocks_available(nr_required[API])
      <3>1. kvblocks_available(nr_required[API])'
        BY <2>1, <2>2 DEF kvblocks_available
      <3>2. QED  BY <2>1, <3>1 DEF OomInv, OomOnlyIfOversubscribed
    <2>3. CASE victim[API] < 0
      <3>1. \A r \in Reqs : Tight(r)
        BY <2>1, <2>3 DEF OomInv, Reqs
      <3>2. \A r \in Reqs : Tight(r)'
        BY <3>1, <2>1, <1>2
      <3>3. QED  BY <2>1, <3>2 DEF OomInv, OomOnlyIfOversubscribed
    <2>4. QED  BY <2>1, <2>2, <2>3
  <1>5. CASE ReclaimVisit(API)
    <2> DEFINE v == victim[API]
    <2>1. /\ pc[API] = "reclaim" /\ v \in Reqs /\ UNCHANGED <<mapped_pages, curr_seq_lengths>>
      BY <1>5 DEF ReclaimVisit, memory, Reqs
    <2>2. CASE Tight(v)
      <3>1. pc'[API] = "reclaim" /\ victim'[API] = v - 1
        BY <1>5, <2>1, <2>2 DEF ReclaimVisit, Tight
      <3>2. \A r \in Reqs : r > v - 1 => Tight(r)
        BY <2>1, <2>2 DEF OomInv, Reqs
      <3>3. QED  BY <3>1, <3>2, <2>1, <1>2 DEF OomInv, OomOnlyIfOversubscribed
    <2>3. CASE ~Tight(v)
      <3>1. /\ pc'[API] = "release" /\ victim'[API] = v
            /\ retain'[API] = tokens_to_pages(curr_seq_lengths[v])
        BY <1>5, <2>1, <2>3 DEF ReclaimVisit, Tight
      <3>2. \A r \in Reqs : r > v => Tight(r)'
        BY <2>1, <1>2 DEF OomInv
      <3>3. QED  BY <3>1, <3>2, <2>1 DEF OomInv, OomOnlyIfOversubscribed
    <2>4. QED  BY <2>2, <2>3
  <1>6. CASE ReleaseOne(API)
    <2>1. /\ victim[API] \in Reqs /\ unmap_req_page_one(victim[API]) /\ pc[API] = "release"
          /\ UNCHANGED <<pc, victim, retain, curr_seq_lengths, nr_required>>
      BY <1>6 DEF ReleaseOne, ControlInv, locals
    <2>2. \A r \in Reqs : r > victim[API] => Tight(r)'
      <3> SUFFICES ASSUME NEW r \in Reqs, r > victim[API]  PROVE Tight(r)'
        OBVIOUS
      <3>1. mapped_pages'[r] = mapped_pages[r]
        BY <2>1, UnmapEffect DEF Reqs
      <3>2. QED  BY <3>1, <2>1 DEF OomInv, Tight
    <2>3. QED  BY <2>1, <2>2 DEF OomInv, OomOnlyIfOversubscribed
  <1>7. CASE ReleaseDone(API)
    <2>1. /\ victim[API] \in Reqs /\ pc[API] = "release" /\ pc'[API] = "reclaim"
          /\ victim'[API] = victim[API] - 1 /\ mapped_pages[victim[API]] <= retain[API]
          /\ UNCHANGED <<mapped_pages, curr_seq_lengths>>
      BY <1>7 DEF ReleaseDone, ControlInv, memory
    <2>2. Tight(victim[API])
      BY <2>1 DEF OomInv, Tight
    <2>3. \A r \in Reqs : r > victim[API] - 1 => Tight(r)
      BY <2>1, <2>2 DEF OomInv, Reqs
    <2>4. QED  BY <2>1, <2>3, <1>2 DEF OomInv, OomOnlyIfOversubscribed
  <1>8. CASE OutOfMemory
    <2>1. /\ pc[API] = "grow" /\ ~kvblocks_available(nr_required[API]) /\ idx[API] \in Reqs
          /\ pc'[API] = "oom" /\ UNCHANGED seq_lens
      BY <1>8 DEF OutOfMemory, ControlInv, caller
    <2>2. nr_required[API] > 0 /\ nr_required[API] = Shortfall(idx[API])
      BY <2>1 DEF DataInv, ApiLocalsInv
    <2>3. BlocksFor(seq_lens) > TotalBlocks
      BY <2>1, <2>2, Oversubscribed DEF OomInv, DataInv, LengthsInv
    <2>4. (BlocksFor(seq_lens) > TotalBlocks)'
      BY <2>1, <2>3 DEF BlocksFor, Demand
    <2>5. QED  BY <2>1, <2>4 DEF OomInv, OomOnlyIfOversubscribed
  <1>9. ASSUME NEW m \in Managers, ManagerStep(m)  PROVE OomInv'
    BY <1>1, <1>9, ManagerFrame DEF MutexInv
  <1>10. CASE ApiCall
    BY <1>1, <1>10 DEF ApiCall, AllocStart, free_batch_idx, set_deferred_reclamation, StepAsync,
                       StepSync, CleanupStart
  <1>11. CASE \/ AllocScan \/ AllocReturn \/ (\E r \in Reqs : CopyLength(r)) \/ WaitManager
              \/ SyncLength \/ SyncRelease \/ SyncReleased
    BY <1>1, <1>11 DEF AllocScan, AllocReturn, CopyLength, WaitManager, SyncLength, SyncRelease,
                       SyncReleased
  <1>12. CASE PrefillSkip \/ GrowSync \/ GrowSyncDone \/ GrowOne(API)
    BY <1>1, <1>12 DEF PrefillSkip, GrowSync, GrowSyncDone, GrowFinished, GrowOne, NextSlot
  <1>13. CASE \/ (\E m \in Managers : SpawnManager(m)) \/ StepSyncReturn \/ ForwardDone
              \/ CleanupRelease \/ CleanupDone
    BY <1>1, <1>13 DEF SpawnManager, StepSyncReturn, ForwardDone, CleanupRelease, CleanupDone, Threads
  <1>14. CASE Stopped \/ UNCHANGED vars
    BY <1>14 DEF Stopped, vars, memory, caller, locals, OomInv, OomOnlyIfOversubscribed, Tight,
                 kvblocks_available, BlocksFor, Demand
  <1>15. QED
    BY <1>3, <1>4, <1>5, <1>6, <1>7, <1>8, <1>9, <1>10, <1>11, <1>12, <1>13, <1>14
       DEF Next, ApiStep, SharedStep

LEMMA OomInvariant ==
  ASSUME StartsDuringForward
  PROVE  Spec => []OomInv
  <1>1. Init => OomInv
    BY DEF Init, OomInv, OomOnlyIfOversubscribed, Threads
  <1>2. IInv /\ MutexInv /\ DataInv /\ OomInv /\ [Next]_vars => OomInv'
    BY OomStep
  <1>3. QED  BY <1>1, <1>2, Invariant, MutexInvariant, DataInvariant, PTL DEF Spec

(* step and step_async raise "OOM on demand" only if the lengths they were   *)
(* given need more blocks than there are: reclaim_kvblocks_on_demand finds   *)
(* every block that no request needs.                                        *)
THEOREM OomOnlyIfOversubscribedHolds ==
  ASSUME StartsDuringForward
  PROVE  Spec => []OomOnlyIfOversubscribed
  <1>1. OomInv => OomOnlyIfOversubscribed
    BY DEF OomInv
  <1>2. QED  BY <1>1, OomInvariant, PTL

-----------------------------------------------------------------------------
(* What is mapped covers what is needed wherever every slot is backed. *)
LEMMA BackedFits ==
  ASSUME IInv, pc[API] # "cleaned", NEW lens \in [Reqs -> Lengths],
         \A r \in Reqs : Backed(r, lens[r])
  PROVE  BlocksFor(lens) <= Mapped /\ BlocksFor(lens) <= TotalBlocks
  <1> DEFINE n == [r \in Reqs |-> tokens_to_pages(lens[r])]
  <1>1. n \in [Reqs -> Int] /\ BlocksFor(lens) \in Nat
    BY DemandBlocks
  <1>2. mapped_pages \in [Reqs -> Int] /\ \A r \in Reqs : n[r] <= mapped_pages[r]
    BY LengthFits, MaxPagesType DEF IInv, TypeOK, Backed
  <1>3. Cardinality(BlocksOf(n)) <= Cardinality(BlocksOf(mapped_pages))
    BY <1>1, <1>2, BlocksMono
  <1>4. BlocksFor(lens) <= Mapped
    BY <1>3 DEF BlocksFor, Demand, Mapped
  <1>5. QED  BY <1>1, <1>4, PoolBlocks, BlocksFinite, BlockSizes DEF Mapped

(* num_free_kvblocks, asked for between steps or while the model runs, is    *)
(* exactly the memory that the running requests do not need, and the code's  *)
(* unsigned difference does not wrap around.                                 *)
THEOREM FreeBlocksExactHolds ==
  ASSUME StartsDuringForward
  PROVE  Spec => []FreeBlocksExact
  <1>1. IInv /\ DataInv => FreeBlocksExact
    <2> SUFFICES ASSUME IInv, DataInv, pc[API] \in {"idle", "forward"},
                        pc[API] = "idle" => curr_seq_lengths = resident
                 PROVE  /\ num_free_kvblocks = TotalBlocks - BlocksFor(curr_seq_lengths)
                        /\ num_free_kvblocks >= 0
      BY DEF FreeBlocksExact
    <2>1. \A r \in Reqs : Backed(r, curr_seq_lengths[r])
      BY DEF DataInv, BackedInv, LengthsInv
    <2>2. curr_seq_lengths \in [Reqs -> Lengths]
      BY DEF IInv, TypeOK
    <2>3. BlocksFor(curr_seq_lengths) <= TotalBlocks /\ BlocksFor(curr_seq_lengths) \in Nat
      BY <2>1, <2>2, BackedFits, DemandBlocks
    <2>4. num_free_kvblocks = TotalBlocks - BlocksFor(curr_seq_lengths)
      BY <2>3, PoolBlocks, BlocksFinite, BlockSizes DEF num_free_kvblocks
    <2>5. QED  BY <2>3, <2>4, BlockSizes
  <1>2. QED  BY <1>1, Invariant, DataInvariant, PTL
=============================================================================
