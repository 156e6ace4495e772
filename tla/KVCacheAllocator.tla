-------------------------- MODULE KVCacheAllocator --------------------------
(***************************************************************************)
(* The physical-memory manager of vAttention (src/vattention/vattention.cu *)
(* with its globals in utils.h and the page macros of mux.h), together     *)
(* with the one caller that drives it, the vATTNCacheEngine of a worker.   *)
(*                                                                         *)
(* A batch slot ("reqId") owns a fixed range of virtual addresses in every *)
(* KV tensor.  A kvblock is one page in each tensor at the same offset of  *)
(* that range.  Blocks are mapped from offset 0 upwards and unmapped from  *)
(* the top, out of a pool of free physical pages.                          *)
(*                                                                         *)
(* Two kinds of threads touch this state.  The API thread runs the Python  *)
(* calls: alloc_new_batch_idx, free_batch_idx, step or step_async, the     *)
(* model's forward pass, cleanup.  Each step_async spawns a detached       *)
(* manager thread that maps memory for the next step and reclaims slack    *)
(* while the forward pass runs.  There is no lock: the only                *)
(* synchronisation is the flag mem_manager_running.                        *)
(*                                                                         *)
(* A step of the model is one access that another thread can observe: one  *)
(* request's entry read in a loop, one element of a vector copied, one     *)
(* block mapped or unmapped.                                               *)
(***************************************************************************)
EXTENDS Integers, FiniteSets

CONSTANTS
  max_batch_size,       (* number of batch slots                             *)
  max_context_length,   (* longest sequence, in tokens                       *)
  tokens_per_page,      (* tokens held by one page of one tensor             *)
  Pages,                (* physical pages obtained by reserve_physical_pages *)
  Buffers,              (* KV tensors: a K and a V tensor per layer          *)
  NoPage,               (* no physical page behind a virtual one             *)
  API,                  (* the thread that runs the Python calls             *)
  Managers,             (* identities for the spawned manager threads        *)
  EAGER_NUM_STEPS,      (* how far ahead the manager looks (10 in the code)  *)
  EAGER_NUM_KVBLOCKS,   (* when the manager stops (2 in the code)            *)
  Async,                (* the worker calls step_async, not step             *)
  EagerReclaim,         (* second argument of step (the engine passes True)  *)
  StartsDuringForward   (* environment: the operating system starts a        *)
                        (* spawned thread before the forward pass ends       *)

ASSUME SizesAssumption ==
  /\ max_batch_size \in Nat \ {0}
  /\ max_context_length \in Nat \ {0}
  /\ tokens_per_page \in Nat \ {0}
  /\ EAGER_NUM_STEPS \in Nat \ {0}
  /\ EAGER_NUM_KVBLOCKS \in Nat

ASSUME MemoryAssumption ==
  /\ IsFiniteSet(Pages)
  /\ IsFiniteSet(Buffers)
  /\ Buffers # {}
  /\ NoPage \notin Pages

ASSUME ThreadsAssumption ==
  /\ API \notin Managers
  /\ Async \in BOOLEAN
  /\ EagerReclaim \in BOOLEAN
  /\ StartsDuringForward \in BOOLEAN

(* get_num_phys_blocks keeps only whole kvblocks of physical pages. *)
ASSUME WholeBlocksAssumption == Cardinality(Pages) % Cardinality(Buffers) = 0

Reqs == 0 .. max_batch_size - 1

Threads == {API} \cup Managers

tokens_to_pages(num_tokens) ==
  (num_tokens + tokens_per_page - 1) \div tokens_per_page

max_pages_per_req == tokens_to_pages(max_context_length)

BlockIds == 0 .. max_pages_per_req - 1

Lengths == 0 .. max_context_length

pages_per_kvblock == Cardinality(Buffers)

pages_to_kvblocks(pages) == pages \div pages_per_kvblock

(* The blocks of all slots, if slot r has n[r] of them; a sum over the slots *)
(* is the size of such a set.                                                *)
BlocksOf(n) == {v \in Reqs \X BlockIds : v[2] < n[v[1]]}

(* The blocks that sequences of these lengths need. *)
Demand(lens) == BlocksOf([r \in Reqs |-> tokens_to_pages(lens[r])])

BlocksFor(lens) == Cardinality(Demand(lens))

-----------------------------------------------------------------------------
VARIABLES
  freePages,            (* cuda_pages: the pool (its order is abstracted)    *)
  pagemap,              (* cuda_pagemap: slot, block, tensor -> page         *)
  mapped_pages,         (* blocks mapped per slot                            *)
  curr_seq_lengths,     (* the allocator's view of the sequence lengths      *)
  deferred_reclaim,     (* TRUE: the manager does not shrink idle slots      *)
  mem_manager_running,  (* the synchronisation flag                          *)
  seq_lens,             (* vATTNCacheEngine.curr_seq_lens, the step argument *)
  new_len,              (* seqlen argument of alloc_new_batch_idx            *)
  uncopied,             (* elements the vector assignment has yet to write   *)
  resident,             (* ghost: tokens whose KV entries a finished forward *)
                        (* pass has written, per slot                        *)
  (* Locals of the threads: *)
  pc,                   (* control point                                     *)
  idx,                  (* reqId of the running loop                         *)
  victim,               (* reqId of a reclaiming loop                        *)
  nr_required,          (* blocks asked for                                  *)
  retain,               (* blocks release_kvcache_pages_some leaves          *)
  left,                 (* iterations left in grow_kvcache_phys              *)
  chosen,               (* new_id of alloc; next_prefill_reqId of a manager  *)
  eager,                (* eager_step_count                                  *)
  nr_mapped_curr        (* blocks counted by the eager loop                  *)

memory == <<freePages, pagemap, mapped_pages>>
caller == <<seq_lens, new_len, uncopied, resident>>
locals == <<idx, victim, nr_required, retain, left, chosen, eager, nr_mapped_curr>>
vars == <<memory, curr_seq_lengths, deferred_reclaim, mem_manager_running,
          caller, pc, locals>>

NoBlock == [b \in Buffers |-> NoPage]

Init ==
  /\ freePages = Pages
  /\ pagemap = [r \in Reqs |-> [i \in BlockIds |-> NoBlock]]
  /\ mapped_pages = [r \in Reqs |-> 0]
  /\ curr_seq_lengths = [r \in Reqs |-> 0]
  /\ deferred_reclaim = TRUE
  /\ mem_manager_running = FALSE
  /\ seq_lens = [r \in Reqs |-> 0]
  /\ new_len = 0
  /\ uncopied = {}
  /\ resident = [r \in Reqs |-> 0]
  /\ pc = [t \in Threads |-> IF t = API THEN "idle" ELSE "none"]
  /\ idx = [t \in Threads |-> 0]
  /\ victim = [t \in Threads |-> -1]
  /\ nr_required = [t \in Threads |-> 0]
  /\ retain = [t \in Threads |-> 0]
  /\ left = [t \in Threads |-> 0]
  /\ chosen = [t \in Threads |-> -1]
  /\ eager = [t \in Threads |-> 0]
  /\ nr_mapped_curr = [t \in Threads |-> 0]

-----------------------------------------------------------------------------
(* Reading the allocator's state. *)

is_active_req(r) == curr_seq_lengths[r] # 0

kvblocks_available(num_kvblocks) ==
  pages_to_kvblocks(Cardinality(freePages)) >= num_kvblocks

(* Blocks that slot r lacks for eager_step_count more tokens. *)
need_new_page_async(r, eager_step_count) ==
  LET required == tokens_to_pages(curr_seq_lengths[r] + eager_step_count)
  IN  IF \/ ~is_active_req(r)
         \/ mapped_pages[r] = max_pages_per_req
         \/ required <= mapped_pages[r]
      THEN 0
      ELSE required - mapped_pages[r]

(* Mutant: the overcommitted blocks are forgotten. *)
num_free_kvblocks_PoolOnly == pages_to_kvblocks(Cardinality(freePages))

(* What the worker is told is free: the pool and the overcommitted blocks.   *)
(* The code adds up the 64-bit unsigned differences of the slots, which is   *)
(* what all slots have less what all need; the integer is below zero exactly *)
(* where the code's result wraps around.                                     *)
num_free_kvblocks ==
  pages_to_kvblocks(Cardinality(freePages))
    + Cardinality(BlocksOf(mapped_pages)) - BlocksFor(curr_seq_lengths)

-----------------------------------------------------------------------------
(* Moving one kvblock between the pool and a slot. *)

MapBlock(r) ==
  \E block \in [Buffers -> freePages] :
    /\ \A b, c \in Buffers : block[b] = block[c] => b = c
    /\ freePages' = freePages \ {block[b] : b \in Buffers}
    /\ pagemap' = [pagemap EXCEPT ![r][mapped_pages[r]] = block]
    /\ mapped_pages' = [mapped_pages EXCEPT ![r] = @ + 1]

(* Mutant: only the first page of the pair returns to the pool. *)
unmap_req_page_one_Leaks(r) ==
  LET top == mapped_pages[r] - 1
  IN  /\ mapped_pages[r] > 0
      /\ \E b \in Buffers : freePages' = freePages \cup {pagemap[r][top][b]}
      /\ pagemap' = [pagemap EXCEPT ![r][top] = NoBlock]
      /\ mapped_pages' = [mapped_pages EXCEPT ![r] = top]

(* Mutant: the entry of the page map is not erased. *)
unmap_req_page_one_NotErased(r) ==
  LET top == mapped_pages[r] - 1
  IN  /\ mapped_pages[r] > 0
      /\ freePages' = freePages \cup {pagemap[r][top][b] : b \in Buffers}
      /\ mapped_pages' = [mapped_pages EXCEPT ![r] = top]
      /\ UNCHANGED pagemap

unmap_req_page_one(r) ==
  LET top == mapped_pages[r] - 1
  IN  /\ mapped_pages[r] > 0
      /\ freePages' = freePages \cup {pagemap[r][top][b] : b \in Buffers}
      /\ pagemap' = [pagemap EXCEPT ![r][top] = NoBlock]
      /\ mapped_pages' = [mapped_pages EXCEPT ![r] = top]

Goto(t, label) == pc' = [pc EXCEPT ![t] = label]

-----------------------------------------------------------------------------
(* reclaim_kvblocks_on_demand, run by the API thread and by a manager: from  *)
(* the last slot down, give back what exceeds the slot's current length.     *)

(* Where reclaim_kvblocks_on_demand returns to. *)
AfterReclaim(t) == IF t = API THEN "grow" ELSE "recheck"

(* Mutant: the loop stops before slot 0. *)
ReclaimDone_SkipsSlot0(t) ==
  /\ pc[t] = "reclaim"
  /\ victim[t] <= 0 \/ kvblocks_available(nr_required[t])
  /\ Goto(t, AfterReclaim(t))
  /\ victim' = [victim EXCEPT ![t] = -1]
  /\ UNCHANGED <<memory, curr_seq_lengths, deferred_reclaim, mem_manager_running, caller,
                 idx, nr_required, retain, left, chosen, eager, nr_mapped_curr>>

ReclaimDone(t) ==
  /\ pc[t] = "reclaim"
  /\ victim[t] < 0 \/ kvblocks_available(nr_required[t])
  /\ Goto(t, AfterReclaim(t))
  /\ victim' = [victim EXCEPT ![t] = -1]
  /\ UNCHANGED <<memory, curr_seq_lengths, deferred_reclaim, mem_manager_running, caller,
                 idx, nr_required, retain, left, chosen, eager, nr_mapped_curr>>

(* Mutant: the victim's blocks are all released. *)
ReclaimVisit_ReleasesAll(t) ==
  LET v == victim[t]
  IN  /\ pc[t] = "reclaim"
      /\ v >= 0
      /\ ~kvblocks_available(nr_required[t])
      /\ retain' = [retain EXCEPT ![t] = 0]
      /\ Goto(t, "release")
      /\ UNCHANGED <<memory, curr_seq_lengths, deferred_reclaim, mem_manager_running, caller,
                     idx, victim, nr_required, left, chosen, eager, nr_mapped_curr>>

(* The slot's length is read once, here; the release loop uses the copy. *)
ReclaimVisit(t) ==
  LET v == victim[t]
      required == tokens_to_pages(curr_seq_lengths[v])
  IN  /\ pc[t] = "reclaim"
      /\ v >= 0
      /\ ~kvblocks_available(nr_required[t])
      /\ IF mapped_pages[v] <= required
         THEN /\ victim' = [victim EXCEPT ![t] = v - 1]
              /\ UNCHANGED <<pc, retain>>
         ELSE /\ retain' = [retain EXCEPT ![t] = required]
              /\ Goto(t, "release")
              /\ UNCHANGED victim
      /\ UNCHANGED <<memory, curr_seq_lengths, deferred_reclaim, mem_manager_running, caller,
                     idx, nr_required, left, chosen, eager, nr_mapped_curr>>

(* release_kvcache_pages_some: one block per step. *)
ReleaseOne(t) ==
  /\ pc[t] = "release"
  /\ mapped_pages[victim[t]] > retain[t]
  /\ unmap_req_page_one(victim[t])
  /\ UNCHANGED <<curr_seq_lengths, deferred_reclaim, mem_manager_running, caller, pc, locals>>

ReleaseDone(t) ==
  /\ pc[t] = "release"
  /\ mapped_pages[victim[t]] <= retain[t]
  /\ retain' = [retain EXCEPT ![t] = 0]
  /\ victim' = [victim EXCEPT ![t] = @ - 1]
  /\ Goto(t, "reclaim")
  /\ UNCHANGED <<memory, curr_seq_lengths, deferred_reclaim, mem_manager_running, caller,
                 idx, nr_required, left, chosen, eager, nr_mapped_curr>>

(* Mutant: off by one. *)
is_valid_offset_OffByOne(r) == mapped_pages[r] <= max_pages_per_req

(* is_valid_offset: the next block still lies in the slot's address range. *)
is_valid_offset(r) == mapped_pages[r] < max_pages_per_req

(* One iteration of the loop of grow_kvcache_phys. *)
GrowOne(t) ==
  /\ pc[t] = "map"
  /\ left[t] > 0
  /\ is_valid_offset(idx[t])
  /\ MapBlock(idx[t])
  /\ left' = [left EXCEPT ![t] = @ - 1]
  /\ UNCHANGED <<curr_seq_lengths, deferred_reclaim, mem_manager_running, caller, pc,
                 idx, victim, nr_required, retain, chosen, eager, nr_mapped_curr>>

GrowFinished(t) ==
  /\ pc[t] = "map"
  /\ left[t] = 0 \/ ~is_valid_offset(idx[t])

-----------------------------------------------------------------------------
(* The API thread: requests enter and leave. *)

(* alloc_new_batch_idx(seqlen), called for a sequence the engine has no slot *)
(* for.                                                                      *)
AllocStart(seqlen) ==
  /\ pc[API] = "idle"
  /\ Goto(API, "alloc_scan")
  /\ idx' = [idx EXCEPT ![API] = 0]
  /\ chosen' = [chosen EXCEPT ![API] = -1]
  /\ new_len' = seqlen
  /\ nr_required' = [nr_required EXCEPT ![API] = tokens_to_pages(seqlen)]
  /\ UNCHANGED <<memory, curr_seq_lengths, deferred_reclaim, mem_manager_running,
                 seq_lens, uncopied, resident, victim, retain, left, eager, nr_mapped_curr>>

(* The first inactive slot is taken; a later one replaces it if it has       *)
(* enough blocks and fewer than the one held.                                *)
Better(r, held) ==
  /\ ~is_active_req(r)
  /\ \/ held = -1
     \/ /\ mapped_pages[r] >= nr_required[API]
        /\ mapped_pages[r] < mapped_pages[held]

AllocScan ==
  /\ pc[API] = "alloc_scan"
  /\ idx[API] \in Reqs
  /\ chosen' = [chosen EXCEPT ![API] = IF Better(idx[API], @) THEN idx[API] ELSE @]
  /\ idx' = [idx EXCEPT ![API] = @ + 1]
  /\ UNCHANGED <<memory, curr_seq_lengths, deferred_reclaim, mem_manager_running, caller, pc,
                 victim, nr_required, retain, left, eager, nr_mapped_curr>>

(* A valid id gets its length, in the allocator and in the cache engine; -1  *)
(* fails the engine's assertion, which ends the worker.                      *)
AllocReturn ==
  /\ pc[API] = "alloc_scan"
  /\ idx[API] \notin Reqs
  /\ IF chosen[API] # -1
     THEN /\ curr_seq_lengths' = [curr_seq_lengths EXCEPT ![chosen[API]] = new_len]
          /\ seq_lens' = [seq_lens EXCEPT ![chosen[API]] = new_len]
     ELSE UNCHANGED <<curr_seq_lengths, seq_lens>>
  /\ Goto(API, IF chosen[API] # -1 THEN "idle" ELSE "no_slot")
  /\ idx' = [idx EXCEPT ![API] = 0]
  /\ chosen' = [chosen EXCEPT ![API] = -1]
  /\ new_len' = 0
  /\ nr_required' = [nr_required EXCEPT ![API] = 0]
  /\ UNCHANGED <<memory, deferred_reclaim, mem_manager_running, uncopied, resident,
                 victim, retain, left, eager, nr_mapped_curr>>

(* free_request: the sequence finished or was preempted. *)
free_batch_idx(r) ==
  /\ pc[API] = "idle"
  /\ is_active_req(r)
  /\ curr_seq_lengths' = [curr_seq_lengths EXCEPT ![r] = 0]
  /\ seq_lens' = [seq_lens EXCEPT ![r] = 0]
  /\ resident' = [resident EXCEPT ![r] = 0]
  /\ UNCHANGED <<memory, deferred_reclaim, mem_manager_running, new_len, uncopied, pc, locals>>

set_deferred_reclamation(val) ==
  /\ pc[API] = "idle"
  /\ deferred_reclaim' = val
  /\ UNCHANGED <<memory, curr_seq_lengths, mem_manager_running, caller, pc, locals>>

-----------------------------------------------------------------------------
(* The API thread: one model step. *)

(* The lengths the engine may hand over: an idle slot has length 0, a slot   *)
(* allocated since the last step the length it was allocated with, a running *)
(* one its old length or, if it is scheduled, a longer one.                  *)
StepLengths ==
  {lens \in [Reqs -> Lengths] :
     \A r \in Reqs :
       /\ lens[r] >= curr_seq_lengths[r]
       /\ resident[r] = 0 => lens[r] = curr_seq_lengths[r]}

(* step_async up to set_curr_seq_lengths, an unsynchronised vector           *)
(* assignment that the manager of the previous step may observe half done.   *)
StepAsync(lens) ==
  /\ Async
  /\ pc[API] = "idle"
  /\ seq_lens' = lens
  /\ uncopied' = {r \in Reqs : lens[r] # curr_seq_lengths[r]}
  /\ Goto(API, "copy")
  /\ UNCHANGED <<memory, curr_seq_lengths, deferred_reclaim, mem_manager_running, new_len, resident, locals>>

CopyLength(r) ==
  /\ pc[API] = "copy"
  /\ r \in uncopied
  /\ curr_seq_lengths' = [curr_seq_lengths EXCEPT ![r] = seq_lens[r]]
  /\ uncopied' = uncopied \ {r}
  /\ UNCHANGED <<memory, deferred_reclaim, mem_manager_running, new_len, seq_lens, resident, pc, locals>>

(* Mutant: no wait. *)
WaitManager_Skipped ==
  /\ pc[API] = "copy"
  /\ uncopied = {}
  /\ Goto(API, "prefill")
  /\ UNCHANGED <<memory, curr_seq_lengths, deferred_reclaim, mem_manager_running, caller, locals>>

(* wait_kvcache_manager_sync: the loop on the flag falls through. *)
WaitManager ==
  /\ pc[API] = "copy"
  /\ uncopied = {}
  /\ ~mem_manager_running
  /\ Goto(API, "prefill")
  /\ UNCHANGED <<memory, curr_seq_lengths, deferred_reclaim, mem_manager_running, caller, locals>>

StepSync(lens) ==
  /\ ~Async
  /\ pc[API] = "idle"
  /\ seq_lens' = lens
  /\ Goto(API, "sync")
  /\ UNCHANGED <<memory, curr_seq_lengths, deferred_reclaim, mem_manager_running, new_len,
                 uncopied, resident, locals>>

(* step_sync takes over the length of one slot after the other and, with     *)
(* eager_reclaim, empties the slots that have become idle.                   *)
SyncLength ==
  LET r == idx[API]
  IN  /\ pc[API] = "sync"
      /\ r \in Reqs
      /\ curr_seq_lengths' = [curr_seq_lengths EXCEPT ![r] = seq_lens[r]]
      /\ Goto(API, IF EagerReclaim /\ seq_lens[r] = 0 /\ mapped_pages[r] # 0
                   THEN "sync_release" ELSE "prefill")
      /\ UNCHANGED <<memory, deferred_reclaim, mem_manager_running, caller, locals>>

SyncRelease ==
  /\ pc[API] = "sync_release"
  /\ mapped_pages[idx[API]] > 0
  /\ unmap_req_page_one(idx[API])
  /\ UNCHANGED <<curr_seq_lengths, deferred_reclaim, mem_manager_running, caller, pc, locals>>

SyncReleased ==
  /\ pc[API] = "sync_release"
  /\ mapped_pages[idx[API]] = 0
  /\ idx' = [idx EXCEPT ![API] = @ + 1]
  /\ Goto(API, "sync")
  /\ UNCHANGED <<memory, curr_seq_lengths, deferred_reclaim, mem_manager_running, caller,
                 victim, nr_required, retain, left, chosen, eager, nr_mapped_curr>>

(* Where the loop over the slots continues after map_pages_for_curr_step. *)
NextSlot == IF Async THEN "prefill" ELSE "sync"

(* Mutant: the last, partly filled page is not counted. *)
Shortfall_RoundsDown(r) == curr_seq_lengths[r] \div tokens_per_page - mapped_pages[r]

(* Blocks the slot lacks for the lengths of this step. *)
Shortfall(r) == tokens_to_pages(curr_seq_lengths[r]) - mapped_pages[r]

(* map_pages_for_curr_step: nothing to do for this slot. *)
PrefillSkip ==
  /\ pc[API] = "prefill"
  /\ idx[API] \in Reqs
  /\ \/ ~is_active_req(idx[API])
     \/ Shortfall(idx[API]) <= 0
  /\ idx' = [idx EXCEPT ![API] = @ + 1]
  /\ Goto(API, NextSlot)
  /\ UNCHANGED <<memory, curr_seq_lengths, deferred_reclaim, mem_manager_running, caller,
                 victim, nr_required, retain, left, chosen, eager, nr_mapped_curr>>

PrefillDemand ==
  LET nr_to_grow == Shortfall(idx[API])
  IN  /\ pc[API] = "prefill"
      /\ idx[API] \in Reqs
      /\ is_active_req(idx[API])
      /\ nr_to_grow > 0
      /\ nr_required' = [nr_required EXCEPT ![API] = nr_to_grow]
      /\ IF kvblocks_available(nr_to_grow)
         THEN /\ Goto(API, "grow")
              /\ UNCHANGED victim
         ELSE /\ Goto(API, "reclaim")
              /\ victim' = [victim EXCEPT ![API] = max_batch_size - 1]
      /\ UNCHANGED <<memory, curr_seq_lengths, deferred_reclaim, mem_manager_running, caller,
                     idx, retain, left, chosen, eager, nr_mapped_curr>>

(* grow_kvcache_phys(..., sync = true). *)
GrowSync ==
  /\ pc[API] = "grow"
  /\ kvblocks_available(nr_required[API])
  /\ left' = [left EXCEPT ![API] = nr_required[API]]
  /\ Goto(API, "map")
  /\ UNCHANGED <<memory, curr_seq_lengths, deferred_reclaim, mem_manager_running, caller,
                 idx, victim, nr_required, retain, chosen, eager, nr_mapped_curr>>

(* "OOM on demand": the exception leaves the step and ends the worker. *)
OutOfMemory ==
  /\ pc[API] = "grow"
  /\ ~kvblocks_available(nr_required[API])
  /\ Goto(API, "oom")
  /\ UNCHANGED <<memory, curr_seq_lengths, deferred_reclaim, mem_manager_running, caller, locals>>

(* End of map_pages_for_curr_step, which stores the length once more. *)
GrowSyncDone ==
  /\ GrowFinished(API)
  /\ curr_seq_lengths' = [curr_seq_lengths EXCEPT ![idx[API]] = seq_lens[idx[API]]]
  /\ idx' = [idx EXCEPT ![API] = @ + 1]
  /\ left' = [left EXCEPT ![API] = 0]
  /\ nr_required' = [nr_required EXCEPT ![API] = 0]
  /\ Goto(API, NextSlot)
  /\ UNCHANGED <<memory, deferred_reclaim, mem_manager_running, caller,
                 victim, retain, chosen, eager, nr_mapped_curr>>

(* spawn_kvcache_manager: a detached thread that has not run yet.  The flag  *)
(* is not set here but by the thread itself.                                 *)
SpawnManager(m) ==
  /\ Async
  /\ pc[API] = "prefill"
  /\ idx[API] \notin Reqs
  /\ pc[m] = "none"
  /\ pc' = [pc EXCEPT ![API] = "forward", ![m] = "spawned"]
  /\ idx' = [idx EXCEPT ![API] = 0]
  /\ UNCHANGED <<memory, curr_seq_lengths, deferred_reclaim, mem_manager_running, caller,
                 victim, nr_required, retain, left, chosen, eager, nr_mapped_curr>>

StepSyncReturn ==
  /\ pc[API] = "sync"
  /\ idx[API] \notin Reqs
  /\ Goto(API, "forward")
  /\ idx' = [idx EXCEPT ![API] = 0]
  /\ UNCHANGED <<memory, curr_seq_lengths, deferred_reclaim, mem_manager_running, caller,
                 victim, nr_required, retain, left, chosen, eager, nr_mapped_curr>>

(* The forward pass has read and written the KV entries of every token up to *)
(* the step's lengths.                                                       *)
ForwardDone ==
  /\ pc[API] = "forward"
  /\ StartsDuringForward => \A m \in Managers : pc[m] # "spawned"
  /\ resident' = seq_lens
  /\ Goto(API, "idle")
  /\ UNCHANGED <<memory, curr_seq_lengths, deferred_reclaim, mem_manager_running, new_len,
                 seq_lens, uncopied, locals>>

-----------------------------------------------------------------------------
(* The API thread: cleanup. *)

(* cleanup waits for the flag like step_async does. *)
CleanupStart ==
  /\ pc[API] = "idle"
  /\ ~mem_manager_running
  /\ Goto(API, "cleanup")
  /\ UNCHANGED <<memory, curr_seq_lengths, deferred_reclaim, mem_manager_running, caller, locals>>

CleanupRelease ==
  /\ pc[API] = "cleanup"
  /\ idx[API] \in Reqs
  /\ IF mapped_pages[idx[API]] > 0
     THEN unmap_req_page_one(idx[API]) /\ UNCHANGED idx
     ELSE idx' = [idx EXCEPT ![API] = @ + 1] /\ UNCHANGED memory
  /\ UNCHANGED <<curr_seq_lengths, deferred_reclaim, mem_manager_running, caller, pc,
                 victim, nr_required, retain, left, chosen, eager, nr_mapped_curr>>

(* The address ranges are freed and the pool's pages go back to the driver. *)
CleanupDone ==
  /\ pc[API] = "cleanup"
  /\ idx[API] \notin Reqs
  /\ freePages' = {}
  /\ Goto(API, "cleaned")
  /\ UNCHANGED <<pagemap, mapped_pages, curr_seq_lengths, deferred_reclaim,
                 mem_manager_running, caller, locals>>

-----------------------------------------------------------------------------
(* A manager thread: do_kvcache_memory_management. *)

ManagerStart(m) ==
  /\ pc[m] = "spawned"
  /\ mem_manager_running' = TRUE
  /\ Goto(m, "need")
  /\ UNCHANGED <<memory, curr_seq_lengths, deferred_reclaim, caller, locals>>

(* Sum of the blocks needed if every active slot grows by one token. *)
ManagerNeed(m) ==
  /\ pc[m] = "need"
  /\ idx[m] \in Reqs
  /\ nr_required' = [nr_required EXCEPT ![m] = @ + need_new_page_async(idx[m], 1)]
  /\ idx' = [idx EXCEPT ![m] = @ + 1]
  /\ UNCHANGED <<memory, curr_seq_lengths, deferred_reclaim, mem_manager_running, caller, pc,
                 victim, retain, left, chosen, eager, nr_mapped_curr>>

ManagerNeedDone(m) ==
  /\ pc[m] = "need"
  /\ idx[m] \notin Reqs
  /\ idx' = [idx EXCEPT ![m] = 0]
  /\ IF kvblocks_available(nr_required[m])
     THEN /\ Goto(m, "recheck")
          /\ UNCHANGED victim
     ELSE /\ Goto(m, "reclaim")
          /\ victim' = [victim EXCEPT ![m] = max_batch_size - 1]
  /\ UNCHANGED <<memory, curr_seq_lengths, deferred_reclaim, mem_manager_running, caller,
                 nr_required, retain, left, chosen, eager, nr_mapped_curr>>

(* Mutant: the early return leaves the flag set. *)
ManagerRecheck_FlagStays(m) ==
  /\ pc[m] = "recheck"
  /\ IF kvblocks_available(nr_required[m])
     THEN /\ Goto(m, "eager")
          /\ eager' = [eager EXCEPT ![m] = 1]
     ELSE /\ Goto(m, "none")
          /\ UNCHANGED eager
  /\ UNCHANGED <<memory, curr_seq_lengths, deferred_reclaim, mem_manager_running, caller,
                 idx, victim, nr_required, retain, left, chosen, nr_mapped_curr>>

(* Give up if even reclaiming did not free enough for the next step. *)
ManagerRecheck(m) ==
  /\ pc[m] = "recheck"
  /\ IF kvblocks_available(nr_required[m])
     THEN /\ Goto(m, "eager")
          /\ eager' = [eager EXCEPT ![m] = 1]
     ELSE /\ Goto(m, "finish")
          /\ UNCHANGED eager
  /\ UNCHANGED <<memory, curr_seq_lengths, deferred_reclaim, mem_manager_running, caller,
                 idx, victim, nr_required, retain, left, chosen, nr_mapped_curr>>

(* Mutant: grow_kvcache_phys does not check the pool. *)
EagerGrow_Unchecked(m) ==
  LET n == need_new_page_async(idx[m], eager[m])
  IN  /\ pc[m] = "eager"
      /\ idx[m] \in Reqs
      /\ eager[m] < EAGER_NUM_STEPS
      /\ left' = [left EXCEPT ![m] = n]
      /\ nr_mapped_curr' = [nr_mapped_curr EXCEPT ![m] = @ + n]
      /\ Goto(m, "map")
      /\ UNCHANGED <<memory, curr_seq_lengths, deferred_reclaim, mem_manager_running, caller,
                     idx, victim, nr_required, retain, chosen, eager>>

(* Head of the eager loops: grow_kvcache_phys(..., sync = false) does nothing *)
(* unless all blocks asked for are free, but they are counted all the same.   *)
EagerGrow(m) ==
  LET n == need_new_page_async(idx[m], eager[m])
  IN  /\ pc[m] = "eager"
      /\ idx[m] \in Reqs
      /\ eager[m] < EAGER_NUM_STEPS
      /\ left' = [left EXCEPT ![m] = IF kvblocks_available(n) THEN n ELSE 0]
      /\ nr_mapped_curr' = [nr_mapped_curr EXCEPT ![m] = @ + n]
      /\ Goto(m, "map")
      /\ UNCHANGED <<memory, curr_seq_lengths, deferred_reclaim, mem_manager_running, caller,
                     idx, victim, nr_required, retain, chosen, eager>>

(* After the first pass over the slots, stop once enough blocks are counted. *)
EagerGrowDone(m) ==
  /\ GrowFinished(m)
  /\ left' = [left EXCEPT ![m] = 0]
  /\ Goto(m, "eager")
  /\ IF eager[m] # 1 /\ nr_mapped_curr[m] >= EAGER_NUM_KVBLOCKS
     THEN /\ eager' = [eager EXCEPT ![m] = EAGER_NUM_STEPS]
          /\ idx' = [idx EXCEPT ![m] = 0]
     ELSE /\ idx' = [idx EXCEPT ![m] = @ + 1]
          /\ UNCHANGED eager
  /\ UNCHANGED <<memory, curr_seq_lengths, deferred_reclaim, mem_manager_running, caller,
                 victim, nr_required, retain, chosen, nr_mapped_curr>>

(* Mutant: eager_step_count is not incremented. *)
EagerNextStep_Stuck(m) ==
  /\ pc[m] = "eager"
  /\ idx[m] \notin Reqs
  /\ idx' = [idx EXCEPT ![m] = 0]
  /\ UNCHANGED <<memory, curr_seq_lengths, deferred_reclaim, mem_manager_running, caller, pc,
                 victim, nr_required, retain, left, chosen, eager, nr_mapped_curr>>

EagerNextStep(m) ==
  /\ pc[m] = "eager"
  /\ idx[m] \notin Reqs
  /\ eager' = [eager EXCEPT ![m] = @ + 1]
  /\ idx' = [idx EXCEPT ![m] = 0]
  /\ UNCHANGED <<memory, curr_seq_lengths, deferred_reclaim, mem_manager_running, caller, pc,
                 victim, nr_required, retain, left, chosen, nr_mapped_curr>>

(* No reclamation in an iteration that needed blocks, or when it is deferred. *)
EagerDone(m) ==
  /\ pc[m] = "eager"
  /\ idx[m] \in Reqs
  /\ eager[m] >= EAGER_NUM_STEPS
  /\ Goto(m, IF nr_required[m] # 0 \/ deferred_reclaim THEN "finish" ELSE "scan_prefill")
  /\ UNCHANGED <<memory, curr_seq_lengths, deferred_reclaim, mem_manager_running, caller, locals>>

(* do_reclaim_pages, first loop: the lowest inactive slot is spared. *)
ScanPrefill(m) ==
  /\ pc[m] = "scan_prefill"
  /\ IF idx[m] \in Reqs /\ is_active_req(idx[m])
     THEN /\ idx' = [idx EXCEPT ![m] = @ + 1]
          /\ UNCHANGED <<pc, victim, chosen>>
     ELSE /\ chosen' = [chosen EXCEPT ![m] = IF idx[m] \in Reqs THEN idx[m] ELSE -1]
          /\ idx' = [idx EXCEPT ![m] = 0]
          /\ victim' = [victim EXCEPT ![m] = max_batch_size - 1]
          /\ Goto(m, "scan_victim")
  /\ UNCHANGED <<memory, curr_seq_lengths, deferred_reclaim, mem_manager_running, caller,
                 nr_required, retain, left, eager, nr_mapped_curr>>

(* Mutant: active slots are not skipped. *)
ScanVictim_TakesActive(m) ==
  LET v == victim[m]
  IN  /\ pc[m] = "scan_victim"
      /\ IF v < 0
         THEN Goto(m, "finish") /\ UNCHANGED victim
         ELSE IF v = chosen[m] \/ mapped_pages[v] = 0
              THEN victim' = [victim EXCEPT ![m] = v - 1] /\ UNCHANGED pc
              ELSE Goto(m, "unmap_one") /\ UNCHANGED victim
      /\ UNCHANGED <<memory, curr_seq_lengths, deferred_reclaim, mem_manager_running, caller,
                     idx, nr_required, retain, left, chosen, eager, nr_mapped_curr>>

(* Second loop: the highest other inactive slot that has a block loses one.  *)
(* The slot may become active between the test and the unmapping.            *)
ScanVictim(m) ==
  LET v == victim[m]
  IN  /\ pc[m] = "scan_victim"
      /\ IF v < 0
         THEN Goto(m, "finish") /\ UNCHANGED victim
         ELSE IF is_active_req(v) \/ v = chosen[m] \/ mapped_pages[v] = 0
              THEN victim' = [victim EXCEPT ![m] = v - 1] /\ UNCHANGED pc
              ELSE Goto(m, "unmap_one") /\ UNCHANGED victim
      /\ UNCHANGED <<memory, curr_seq_lengths, deferred_reclaim, mem_manager_running, caller,
                     idx, nr_required, retain, left, chosen, eager, nr_mapped_curr>>

UnmapVictim(m) ==
  /\ pc[m] = "unmap_one"
  /\ unmap_req_page_one(victim[m])
  /\ Goto(m, "finish")
  /\ UNCHANGED <<curr_seq_lengths, deferred_reclaim, mem_manager_running, caller, locals>>

(* The thread clears the flag and ends. *)
ManagerFinish(m) ==
  /\ pc[m] = "finish"
  /\ mem_manager_running' = FALSE
  /\ Goto(m, "none")
  /\ idx' = [idx EXCEPT ![m] = 0]
  /\ victim' = [victim EXCEPT ![m] = -1]
  /\ nr_required' = [nr_required EXCEPT ![m] = 0]
  /\ chosen' = [chosen EXCEPT ![m] = -1]
  /\ eager' = [eager EXCEPT ![m] = 0]
  /\ nr_mapped_curr' = [nr_mapped_curr EXCEPT ![m] = 0]
  /\ UNCHANGED <<memory, curr_seq_lengths, deferred_reclaim, caller, retain, left>>

-----------------------------------------------------------------------------
SharedStep(t) ==
  \/ ReclaimDone(t)
  \/ ReclaimVisit(t)
  \/ ReleaseOne(t)
  \/ ReleaseDone(t)
  \/ GrowOne(t)

(* The calls the worker may make next. *)
ApiCall ==
  \/ \E seqlen \in Lengths \ {0} : AllocStart(seqlen)
  \/ \E r \in Reqs : free_batch_idx(r)
  \/ \E val \in BOOLEAN : set_deferred_reclamation(val)
  \/ \E lens \in StepLengths : StepAsync(lens)
  \/ \E lens \in StepLengths : StepSync(lens)
  \/ CleanupStart

(* The rest of a call once it is under way. *)
ApiStep ==
  \/ SharedStep(API)
  \/ AllocScan
  \/ AllocReturn
  \/ \E r \in Reqs : CopyLength(r)
  \/ WaitManager
  \/ SyncLength
  \/ SyncRelease
  \/ SyncReleased
  \/ PrefillSkip
  \/ PrefillDemand
  \/ GrowSync
  \/ OutOfMemory
  \/ GrowSyncDone
  \/ \E m \in Managers : SpawnManager(m)
  \/ StepSyncReturn
  \/ ForwardDone
  \/ CleanupRelease
  \/ CleanupDone

ManagerStep(m) ==
  \/ SharedStep(m)
  \/ ManagerStart(m)
  \/ ManagerNeed(m)
  \/ ManagerNeedDone(m)
  \/ ManagerRecheck(m)
  \/ EagerGrow(m)
  \/ EagerGrowDone(m)
  \/ EagerNextStep(m)
  \/ EagerDone(m)
  \/ ScanPrefill(m)
  \/ ScanVictim(m)
  \/ UnmapVictim(m)
  \/ ManagerFinish(m)

(* The worker has ended, by an exception or after cleanup. *)
Stopped ==
  /\ pc[API] \in {"no_slot", "oom", "cleaned"}
  /\ \A m \in Managers : pc[m] = "none"
  /\ UNCHANGED vars

Next ==
  \/ ApiCall
  \/ ApiStep
  \/ \E m \in Managers : ManagerStep(m)
  \/ Stopped

Spec == Init /\ [][Next]_vars

(* A call under way goes on, and a spawned thread is scheduled; nothing      *)
(* obliges the worker to make another call.                                  *)
Fairness ==
  /\ WF_vars(ApiStep)
  /\ \A m \in Managers : WF_vars(ManagerStep(m))

FairSpec == Spec /\ Fairness

-----------------------------------------------------------------------------
(* Properties. *)

ApiLabels ==
  {"idle", "alloc_scan", "copy", "prefill", "sync", "sync_release", "reclaim",
   "release", "grow", "map", "forward", "no_slot", "oom", "cleanup", "cleaned"}

ManagerLabels ==
  {"none", "spawned", "need", "reclaim", "release", "recheck", "eager", "map",
   "scan_prefill", "scan_victim", "unmap_one", "finish"}

(* Every variable has its type; in particular no slot ever has more blocks   *)
(* mapped than its virtual address range holds, so growing one request never *)
(* reaches into the next one's range (is_valid_offset).                      *)
TypeOK ==
  /\ freePages \in SUBSET Pages
  /\ pagemap \in [Reqs -> [BlockIds -> [Buffers -> Pages \cup {NoPage}]]]
  /\ mapped_pages \in [Reqs -> 0 .. max_pages_per_req]
  /\ curr_seq_lengths \in [Reqs -> Lengths]
  /\ deferred_reclaim \in BOOLEAN
  /\ mem_manager_running \in BOOLEAN
  /\ seq_lens \in [Reqs -> Lengths]
  /\ new_len \in Lengths
  /\ uncopied \in SUBSET Reqs
  /\ resident \in [Reqs -> Lengths]
  /\ pc \in [Threads -> ApiLabels \cup ManagerLabels]
  /\ pc[API] \in ApiLabels
  /\ \A m \in Managers : pc[m] \in ManagerLabels
  /\ idx \in [Threads -> 0 .. max_batch_size]
  /\ victim \in [Threads -> -1 .. max_batch_size - 1]
  /\ nr_required \in [Threads -> Nat]
  /\ retain \in [Threads -> Nat]
  /\ left \in [Threads -> Nat]
  /\ chosen \in [Threads -> -1 .. max_batch_size - 1]
  /\ eager \in [Threads -> Nat]
  /\ nr_mapped_curr \in [Threads -> Nat]

(* The blocks a slot has mapped are exactly the first mapped_pages of its    *)
(* range, each with a page in every tensor, and that page is not in the pool.*)
MappedPrefix ==
  \A r \in Reqs : \A i \in BlockIds : \A b \in Buffers :
    IF i < mapped_pages[r]
    THEN pagemap[r][i][b] \in Pages \ freePages
    ELSE pagemap[r][i][b] = NoPage

(* No physical page backs two virtual pages. *)
PagesExclusive ==
  \A r, s \in Reqs : \A i, j \in BlockIds : \A b, c \in Buffers :
    pagemap[r][i][b] = pagemap[s][j][c] /\ pagemap[r][i][b] # NoPage
      => r = s /\ i = j /\ b = c

(* No physical page is lost until cleanup hands the pool back to the driver. *)
NoPageLeaked ==
  pc[API] # "cleaned" =>
    \A p \in Pages \ freePages :
      \E r \in Reqs : \E i \in BlockIds : \E b \in Buffers : pagemap[r][i][b] = p

(* The page table of the KV cache: what MAP_PAGES, UNMAP_PAGES and the count *)
(* in mapped_pages keep true together, whoever runs them.                    *)
PageOwnership == MappedPrefix /\ PagesExclusive /\ NoPageLeaked

(* Labels at which a thread reads or writes the pool and the page map. *)
InMemory(t) ==
  pc[t] \in IF t = API
            THEN {"prefill", "sync", "sync_release", "reclaim", "release", "grow", "map", "cleanup"}
            ELSE ManagerLabels \ {"none", "spawned"}

(* step_async is to "synchronize with the background thread first": while    *)
(* the API thread maps, reclaims or cleans up, no manager is at work, and    *)
(* two managers never are.                                                   *)
MutualExclusion ==
  \A t, u \in Threads : InMemory(t) /\ InMemory(u) => t = u

(* While the model runs, every token of every request up to the length of    *)
(* the step is backed by memory, whatever the manager does meanwhile.        *)
ForwardBacked ==
  pc[API] = "forward" =>
    \A r \in Reqs : mapped_pages[r] >= tokens_to_pages(seq_lens[r])

(* The page behind KV entries that a forward pass has written stays the same *)
(* until the request is freed: no background reclaim and no growth of other  *)
(* requests unmaps or replaces it.                                           *)
ResidentPagesStay ==
  [][\A r \in Reqs : \A i \in BlockIds :
       i < tokens_to_pages(resident[r]) /\ pc[API] # "cleanup"
         => pagemap'[r][i] = pagemap[r][i]]_vars

(* pop_cuda_page never finds the pool empty: once grow_kvcache_phys has      *)
(* checked kvblocks_available, the blocks it still has to map stay free.     *)
PoolCoversGrowth ==
  \A t \in Threads : pc[t] = "map" => kvblocks_available(left[t])

TotalBlocks == pages_to_kvblocks(Cardinality(Pages))

(* A step fails for lack of memory only if the lengths it was given do not   *)
(* fit into physical memory at all: reclaim_kvblocks_on_demand finds every   *)
(* block that no request needs.                                              *)
OomOnlyIfOversubscribed ==
  pc[API] = "oom" => BlocksFor(seq_lens) > TotalBlocks

(* Between steps, the worker is told exactly the memory that the running     *)
(* requests do not need, also while a manager moves blocks; the unsigned     *)
(* subtraction does not wrap around.  (Not so between alloc_new_batch_idx    *)
(* and the step that maps the new request's memory.)                         *)
FreeBlocksExact ==
  /\ pc[API] \in {"idle", "forward"}
  /\ pc[API] = "idle" => curr_seq_lengths = resident
  => /\ num_free_kvblocks = TotalBlocks - BlocksFor(curr_seq_lengths)
     /\ num_free_kvblocks >= 0

(* A step under way returns to the model or fails; in particular the wait    *)
(* for the manager thread always ends.                                       *)
StepReturns ==
  pc[API] \in {"copy", "prefill", "sync"} ~> pc[API] \in {"forward", "oom"}

(* Every manager thread ends and clears the flag. *)
ManagerEnds ==
  \A m \in Managers : pc[m] = "spawned" ~> pc[m] = "none" /\ ~mem_manager_running

(* "allocate decode memory for next step asynchronously": when the manager   *)
(* is done while the model still runs, every running request has the block   *)
(* of its next token, if physical memory can hold the next token of all.     *)
AheadOfNextStep ==
  \A m \in Managers :
    /\ pc[m] = "finish"
    /\ pc[API] = "forward"
    /\ Cardinality(BlocksOf([r \in Reqs |-> IF is_active_req(r)
                                            THEN tokens_to_pages(curr_seq_lengths[r] + 1)
                                            ELSE 0])) <= TotalBlocks
    => \A r \in Reqs : need_new_page_async(r, 1) = 0

(* "Return one of the inactive ids using best fit": no other inactive slot   *)
(* has enough blocks with fewer to spare than the slot chosen.               *)
BestFit ==
  /\ pc[API] = "alloc_scan"
  /\ idx[API] \notin Reqs
  /\ chosen[API] # -1
  => \A r \in Reqs :
       ~is_active_req(r) /\ mapped_pages[r] >= nr_required[API]
         => /\ mapped_pages[chosen[API]] >= nr_required[API]
            /\ mapped_pages[chosen[API]] <= mapped_pages[r]

(* "If set to false, reclaim memory only when required": with                *)
(* deferred_reclaim off, a manager unmaps nothing outside                    *)
(* reclaim_kvblocks_on_demand.                                               *)
ReclaimOnlyWhenRequired ==
  [][\A m \in Managers : ~deferred_reclaim => ~UnmapVictim(m)]_vars
=============================================================================
