# vAttention: TLA+ models and proofs

vAttention serves large language models with a KV cache that is contiguous in
*virtual* memory and backed by *physical* pages on demand.  This directory holds
TLA+ modules of the code that decides which pages are mapped where and when, and
of the serving engine above it that decides which requests get them; TLC
configurations that check them on small instances; and TLAPS proofs that carry
the results about the allocator, its refinement of an abstract cache, the layout
of virtual memory, the schedulers and the three engines to every size.

## 1. The system

| Component | Where | State | Operations |
|---|---|---|---|
| KV cache allocator | `src/vattention/{vattention.cu,utils.h,mux.h,cudaInternal.h}` | pool of free pages, page map, blocks mapped and sequence length per batch slot, two flags | `alloc_new_batch_idx`, `free_batch_idx`, `step` / `step_async`, background manager, `set_deferred_reclamation`, `num_free_kvblocks`, `cleanup` |
| Virtual tensor layout | `src/vattention/vtensor.h`, `vattention.cu:36-300` | sizes and strides fixed at start | sizing of pages, slots and tensors |
| UVM backend and driver | `src/vattention/uvmInternal.h`, `src/nvidia-vattn-uvm-driver` | a second pool, for pages other than 2 MB | as above, by calls into a patched driver |
| vATTN cache engine | `.../worker/cache_engine/vATTN_cache_engine.py` | sequence id -> slot, `curr_seq_lens` | `step`, `on_step_completion`, `free_request`, `preempt_requests` |
| Worker | `.../worker/base_worker.py` | its copy of the sequences | `execute_model`, one per iteration |
| Block space managers | `.../core/block_space_manager/` | free, promised and preempted block counts | `can_allocate`, `can_append_slot`, `free`, `set_free_blocks` |
| Schedulers | `.../core/scheduler/` | waiting and running queues | `schedule`, preemption, chunked prefill |
| Sequences, sequence managers | `.../core/datatypes`, `.../core/sequence_manager` | status and tokens of each sequence | `on_schedule`, `on_step_completed` |
| Engine | `.../engine/base_llm_engine.py` | scheduler, workers, preemption queue | `step` |
| Async engine | `.../engine/async_llm_engine.py` | request tracker, streams | `add_request`, `abort`, the background loop |
| Pipeline-parallel engine | `.../engine/pipeline_parallel_llm_engine.py` | three threads and their queues | schedule, send, collect |
| Models, attention, sampling, metrics, servers, benchmarks | rest of `src/sarathi-lean` | tensors, statistics | not control of the cache |

**Interaction.**  In each iteration the engine asks the workers for their number
of free blocks, hands it to the scheduler's block manager, and schedules a batch.
A worker frees the slots of preempted sequences, gives a slot to each new
sequence (`alloc_new_batch_idx`), tells the allocator the lengths the iteration
needs (`step_async`), runs the model and frees the slots of finished sequences.
`step_async` maps what is missing, then spawns a *detached* manager thread that
maps blocks for the coming tokens and shrinks idle slots while the model runs.
Nothing is locked; the one synchronisation is the flag `mem_manager_running`,
on which `step_async` and `cleanup` spin.

**What is hard.**  The manager and the API thread share every vector of the
allocator.  `alloc_new_batch_idx`, `free_batch_idx`, `num_free_kvblocks` and the
first half of `step_async` (which overwrites the lengths) run while a manager may
still be active.  The manager acts on lengths it read earlier.  Memory is
overcommitted, so every step may have to reclaim from other slots.
Above it, the scheduler keeps books of blocks that the worker frees one step
later, preempted sequences restart with their output as prompt, the asynchronous
engine hands requests over through queues while clients come and go, and the
pipeline-parallel engine runs scheduler and completion in two threads without a
lock on the scheduler.

**What makes it correct.**  Pages are neither shared nor lost; the memory of a
running request is mapped for the whole forward pass; pages behind KV entries
that were written stay until the request is freed; the flag separates the
threads; a step fails only if its lengths cannot fit; the number of free blocks
reported is the number the next step can use; waiting ends.  A sequence is in
one queue and one batch at a time; a forward pass reads only what earlier passes
wrote for it; limits on tokens hold; the copies of the books agree; every request
ends with an output or an error that reaches its client.

## 2. Modules

| Module | Role |
|---|---|
| `KVCacheAllocator` | the allocator, its manager threads and the calls of one worker; the properties |
| `KVCache` | abstract specification: slots, lengths, readable tokens |
| `KVCacheContents` | the allocator with the contents of pages as a history variable; refinement of `KVCache` |
| `FreeBlockScan` | the allocator with `num_free_kvblocks` read slot by slot |
| `KVCacheAllocator_proofs` | proofs: types, page ownership, mutual exclusion; memory of running requests; the properties that count blocks |
| `FreeBlockScan_proofs`, `KVCacheContents_proofs` | proofs: the count read slot by slot; the refinement |
| `VirtualLayout_proofs`, `AsyncEngine_proofs` | proofs about the layout and the asynchronous engine |
| `Scheduler_proofs` | lemmas: what sorting, list comprehensions, sums and chunks of `Scheduler` compute |
| `ServingEngine_proofs`, `PipelineEngine_proofs` | proofs about the two engines that extend `Scheduler`: four layers of invariants for the first, three for the second |
| `VirtualLayout` | where a slot's tokens lie in a tensor and where its pages are mapped |
| `Scheduler` | sequences, block space managers, the five policies; extended by the two engines |
| `ServingEngine` | `BaseLLMEngine.step` with one worker |
| `PipelineEngine` | the threads of the pipeline-parallel engine |
| `AsyncEngine` | request tracker, streams and background task |
| `MC...` | instances for TLC: page symmetry, chunk sizes, schedulers and backends |

The layers meet by contract.  `KVCacheAllocator` implements `KVCache`; what
`ServingEngine` assumes of the cache (a step succeeds iff its lengths fit, the
count between steps is exact, a refused request means no slot) is what `KVCache`
and `FreeBlocksExact` say.  `AsyncEngine` takes `engine.step` as an operation that
returns outputs for some of its sequences or fails, which is what
`RequestsServed` gives it.

### KVCacheAllocator and the code

Names follow the source.  `freePages` is `cuda_pages`, `pagemap[r][i][b]` is the
entry of `cuda_pagemap` for slot `r`, block `i` of its range and tensor `b`
(a K or V tensor of a layer), `mapped_pages`, `curr_seq_lengths`,
`deferred_reclaim` and `mem_manager_running` are the globals of `utils.h`, and
`seq_lens` is the engine's `curr_seq_lens`.  The remaining variables are the locals
of the threads, with `pc` for their control point.  `resident` is a ghost: the
tokens of a slot whose KV entries a finished forward pass has written.

A step of the model is an access another thread can see: one slot's entry in a
loop over slots, one element of the vector assignment in `set_curr_seq_lengths`,
one block mapped or unmapped.  Per function:

* `alloc_new_batch_idx`: `AllocStart`, `AllocScan` per slot, `AllocReturn`
* `free_batch_idx`, `set_deferred_reclamation`: one action each
* `step_async`: `StepAsync`, `CopyLength` per slot, `WaitManager`, then per slot
  `map_pages_for_curr_step` (`PrefillSkip` or `PrefillDemand`, `GrowSync` or
  `OutOfMemory`, `GrowOne`..., `GrowSyncDone`), then `SpawnManager`
* `step`: `StepSync`, per slot `SyncLength`, `SyncRelease`..., or the same
  `map_pages_for_curr_step`, then `StepSyncReturn`
* `reclaim_kvblocks_on_demand` (both threads): `ReclaimVisit`, `ReleaseOne`...,
  `ReleaseDone`, `ReclaimDone`
* the forward pass: label `forward`, ended by `ForwardDone`
* the manager: `ManagerStart`, `ManagerNeed` per slot, `ManagerNeedDone`,
  `ManagerRecheck`, the eager loops (`EagerGrow`, `GrowOne`..., `EagerGrowDone`,
  `EagerNextStep`, `EagerDone`), `do_reclaim_pages` (`ScanPrefill`, `ScanVictim`,
  `UnmapVictim`), `ManagerFinish`
* `cleanup`: `CleanupStart`, `CleanupRelease`..., `CleanupDone`

Abstractions:

* The pool is a set: which free page is taken is arbitrary.  The code takes the
  last one, and nothing depends on it.
* Mapping or unmapping one block over all tensors is one step.  So is one
  iteration of a loop over slots, including `need_new_page_async`, which reads a
  length twice, and `alloc_new_batch_idx`'s two reads of `mapped_pages`.  With
  `StartsDuringForward` no other thread touches the pool during such a step
  (`MutualExclusion`, proved), so the coarser grain hides only which of two
  values of a length or a block count that iteration sees.
  `num_free_kvblocks` is taken as one read; `FreeBlockScan` has it slot by slot,
  between steps (`base_llm_engine.py:395`) and right after `step_async`, where the
  cache engine records its usage (`vATTN_cache_engine.py:762`, `816`).
* A sum of block counts over the slots is the number of elements of a set of
  blocks, the pairs of a slot and an index below its count (`BlocksOf`, `Demand`).
* The two backends are one: pages come from one pool and `MAP_PAGES` /
  `UNMAP_PAGES` move them.  Driver failures end the process and are left out.
* The engine may choose any lengths that keep a new slot's length and never
  shrink a running one (`StepLengths`); which sequences it picks is the
  scheduler's business.
* A worker whose call raised (`no_slot`, `oom`) or that cleaned up makes no more
  calls.
* `StartsDuringForward` is an assumption about the operating system, not about
  the code: a spawned thread executes its first instruction, which sets the
  flag, before the forward pass that follows `step_async` ends.  The runs and
  proofs that need it say so; `late_start` shows what happens without it.

### VirtualLayout and the code

`conf` is the configuration `init_kvcache_component_spec` receives; `Valid` is
what `VAttentionCacheSpec` accepts.  The sizes (`tokens_per_page`,
`virt_buff_size_per_req`, `per_request_bytes`) are the code's formulas, in
elements of the cache's data type instead of bytes.  `TokenAddress` is the
address of a token as a contiguous tensor of shape [slots, context, (layers,)
token_dim] is indexed.  `Grow` and `Shrink` are one iteration of
`grow_kvcache_phys` and `unmap_req_page_one`, without the pool, which
`KVCacheAllocator` has; that module has the pages, this one their addresses.
A cache has two `Components` (K and V, or the two of MLA), as in
`vattention.cu:183`.

### KVCache and KVCacheContents

`KVCache` has a length and a number of readable tokens per slot, and steps that
are accepted exactly when the lengths fit.  `KVCacheContents` adds what was
written last to each physical page (`contents`); a slot's tokens are readable if
the page map still points to the pages they were written to and no other request
has written there since.  The mapping: `len` is `curr_seq_lens`, `readable` the
resident tokens that are intact, `status` the control point of the API thread.

### Scheduler and the code

`sq[s]` is the Sequence object: status, prompt length, processed part, generated
tokens (`asked` remembers the prompt the client sent).  `waiting` and `running`
are the lists of `BaseScheduler`; `kept`, `prefills`, `batch`, `num_batched_tokens`,
`ignored` and `preempted` are locals of `_schedule`.  One iteration of a loop is one step:

* `ScheduleStart`: `schedule`, up to the first loop (`clear_promised_blocks`, sort)
* loop over `self.running`: `RunningKeep`, `RunningAppend`, `RunningPreempt` (one
  `_preempt` each), `RunningEnd`
* loop over incomplete prompts: `PrefillStep`, `PrefillsEnd`
* loop over `self.waiting`: `WaitingIgnore`, `WaitingAdmit`, `WaitingEnd`, with the
  assertion on the stage of a prompt where its chunk is asked for (`WaitingAsserts`)
* `orca`, `faster_transformer`: `ScheduleDecodes`, then the waiting loop
* `Return`: the rest of `schedule`, with `num_running_batches`

The order of the loops is the policy's.  `config`, chosen at the start from
`Configs`, is the scheduler type and whether the backend is vAttention.  Block managers keep counts: with
vAttention `free_blocks` is what the worker reported plus what `free` credited and
`promised_blocks` what this schedule promised; with the paged managers
`free_blocks` is the free list.  Block numbers, token values and times are left
out; arrival times are the order of the request numbers, and `now` says which of
them have passed.  `enable_rolling_prefills` is `False` in the code.

Lists are sorted by arrival and filtered by the place each element gets: its rank,
the number of elements that come before it (`Rank`, `sort_by_priority`, `Those`).
A sum over sequences is the number of elements of a set (`SumOver`, a helper of the model).  Neither needs
recursion, so the proofs can reason about lists of any length.

### ServingEngine and the code

`AddRequest`, `StepStart` (free-block count, preemption queue taken), `Schedule`,
`StepReturnsEmpty` (the early return), `ExecuteModel` (both sequence managers'
`on_schedule`, `preempt_requests`, `cache_engine.step`), `StepCompletes` (forward
pass, sampling, both `on_step_completed`, `on_step_completion`, the scheduler's
completion).  `context` are the lengths of the slots by sequence, `kv` a ghost for
the tokens written, `wtables` the worker's clone of the paged manager.  An
exception anywhere sets `error` and ends the program.

Engine and worker process the same outputs, so one copy of the sequences stands for
both, with one exception.  `check_stop` looks for stop strings in `output_text`
(`sequence.py:167-168`), which only the engine's sequence manager fills
(`engine_sequence_manager.py:34`); in the worker `_on_append_token` is `pass`
(`worker_sequence_manager.py:65-68`).  `max_tokens` and the EOS token end a sequence
on both sides, a stop string in the engine alone: the worker's copy stays PAUSED, and
its vAttention slot, or its blocks in the clone, are never freed.  `StepCompletes`
chooses which decodes end by a string, `string_stopped` remembers them, and the
properties say what these sequences may cost the others.  One worker stands for all
workers of a tensor-parallel group: they get the same calls.

### PipelineEngine and the code

Three threads: the schedule thread (`ScheduleWakes`, `Schedule`, `OnSchedule`,
`Publish`), a stage (`ExecuteModel`), the output thread (`OutputReceive`,
`OutputSequences`, `OutputFree` per element of `self.running`, `OutputComplete`).
The sequence managers are locked, so their calls are steps; the scheduler is not,
so the loops of `schedule` interleave with those of `free_finished_seqs`.
`switches`, chosen at the start, says whether the interpreter switches threads
inside the statement of `remove_finished_seqs` (`OutputRemove`, `OutputAssign`) or
the statement is one step (`OutputComplete`).  The tokens of a batch have the positions
whose text ends (`sampled.stops`) and those of them where only a stop string says so
(`sampled.strings`): the stages, which do not detokenise, do not see the latter.
The timer and watch threads only set the event of the schedule thread, which may
therefore wake at any time.  The stages' block tables are left out.

### AsyncEngine and the code

Coroutines of one event loop: what runs between two awaits is one step.
`AddRequest` is `add_request` with `start_background_loop`; `Read` one
`__anext__` of a client's loop with its exception handler; `Leave` a cancellation,
or a disconnect followed by `abort`; `IterationStart`, `StepReturns`, `StepFails`
the parts of `engine_step`; `TaskCallback` is `_log_task_completion`.  A call of
`add_request` has a number and a `stream`, the `AsyncStream` with its queue and its
`_finished`; ids may be reused if `ReuseIds`.  A loop over requests (outputs, aborts,
refusals, the streams an error is sent to) runs without an await and touches the
stream of each id by itself, so it is one step given call by call.

## 3. Runs

| Run | Instance | Shows |
|---|---|---|
| `async_safety` | 2 slots, 3 tokens in 2 blocks, 3 pages, 1 manager | all safety properties over every interleaving, and that the allocator implements `KVCache` (about 930 000 states) |
| `sync_safety` | as above, K and V tensor, 6 pages, `step` with eager reclaim | the same for the synchronous step |
| `async_liveness` | 2 slots, 2 one-token blocks, 2 pages, fairness | steps return, managers end; no term of a free-block count read beside the manager, between steps or right after `step_async`, wraps around (about 380 000 states) |
| `late_start` | `StartsDuringForward = FALSE` | `MutualExclusion` fails |
| `layout` | 2 slots, pages of 6 and 8, tokens of 1 to 3, 1 or 2 layers, contexts 1 to 5 | pages stay in the reservation and in their slot, tokens in their pages |
| `serving_safety` | five policies paged, two with vAttention; 4 requests of 1, 4 or 9 tokens, 3 slots, 4 blocks of 2, limit 8, chunk 2 | queues, preemption order, assertions, slots, resident context, batch size (about 2.4 million states) |
| `serving_fair` | the same policies, 3 requests of 1 or 3 tokens, 2 slots, 5 blocks, fairness | scheduler's and worker's tables agree but for stop strings; every request is served (about 110 000 states) |
| `append_slot` | sarathi with vAttention, 2 requests of 2 tokens, 2 blocks | a promised block is not there when the worker maps it |
| `streams` | 3 clients, 2 outputs each, an iteration may time out, fairness | streams are tracked, complete and end; no restart |
| `error_strands` | 2 clients, `engine.step` raises | a client left without an end |
| `pipeline` | 2 requests, 2 stages, 8 blocks, three policies, fairness | batches disjoint, tokens meet their batch, stages agree but for stop strings; without switches inside a statement no assertion fails and every request is served |
| `pipeline_preempted` | 3 blocks | the output of a preempted sequence is applied |

*Bounds, allocator.*  Two slots over three blocks of memory are enough for every conflict:
a slot that overcommits, an idle slot that still holds blocks, a demand that has
to reclaim, a demand that cannot be met, a slot at the end of its range, and a
partly filled last page (`tokens_per_page = 2`, odd lengths).  `EAGER_NUM_STEPS`
is 3 instead of 10, so that the eager loop has a first pass and a later one.  One
manager identity suffices where managers are exclusive (proved for any number).
Page identities are interchangeable, hence the symmetry; the liveness run uses none,
and the refinement has no liveness.
The layout sizes include tokens that divide a page and tokens that do not, contexts
that fill their last page and contexts that do not, and unequal MLA components.

*Bounds, engines.*  Three or four requests give a victim, a beneficiary and one that waits;
memory for about one and a half of them makes preemption, self-preemption and
re-admission happen; prompts of one chunk, several chunks and more than the limit
are all there.  In `serving_safety` there are more requests than slots, so that a slot
not freed is missed, and more sequences may decode than a chunk has tokens, so that
`BatchWithinChunk` is up to the policy.  `watermark_blocks` is 0, as `int(0.01 * num_gpu_blocks)` is for so
few blocks.  `serving_fair` and `pipeline` stay away from the overloads in which
`RequestsServed` and `ClonesInSync` do not hold (see below): in `serving_fair`
sequences are preempted, but some sequence always runs beside them, and of the
instances in which stop strings leave too little of the cache the property says so; `pipeline` has
memory for both its requests.

*Properties.*  `PageOwnership` is the consistency of pool, page map and counts.
`ForwardBacked` and `ResidentPagesStay` say that no reclaim, with whatever stale
length, harms a running request.  `PoolCoversGrowth` says that `pop_cuda_page`
never meets an empty pool, which would throw in the detached thread.
`OomOnlyIfOversubscribed` says that the OOM exception is never premature.
`FreeBlocksExact` ties the reported number to what the requests leave free.
`StepReturns` and `ManagerEnds` are the liveness of the spin loop and of the
manager.  `ImplementsKVCache` sums up what the layers above rely on.
`EachSequenceQueuedOnce`, `PreemptedNotReadmitted` and `ContextResident` follow a
sequence over preemption and re-admission, through the delay with which the worker
learns of it; `NoInternalError` covers every assertion and status transition of
scheduler, sequence managers and cache engine (the allocator's OOM has a property
of its own, `AppendedSlotMapped`).  Slots may run short, and the blocks of the clone,
but only by what stop strings left behind: the slots of all other sequences fit in.
`RequestsServed` excuses itself only where what is left behind leaves less of the cache
than a request of full length may need.  `InFlightOnce`, `OutputsMatchBatch` and
`StagesAgree` are what keeps the pipeline's threads together.

*Fairness.*  Allocator: weak fairness of the API thread inside a call and of each
manager: both are ordinary threads of the operating system, and the forward pass
ends; none on calls, the worker may stop calling at any time.  Serving engine: the
caller calls `step` while there are unfinished requests, and time passes (strong
fairness, since the clock is read between steps only).  Pipeline: each thread runs,
the timer wakes the schedule thread, time passes.  Async: the event loop runs every
ready coroutine and callback, a client that reads goes on reading; nobody has to
call, to leave or to fail.

*Deadlock* is checked except where the program may really stop: after a failure of
the background task (`streams`, `error_strands`) and in the pipeline, where an
assertion ends the process or the output thread waits for ever (`pipeline` with
`switches`, `pipeline_preempted`).

*Disagreements with a run.*  `findings` in `PROJECT.json` quotes the line each
contradicts.  `late_start` is a defect of the flag protocol: the flag should be set
before the thread is spawned.  `append_slot`: a request of length 2 that fills
its block is promised a second one, though the context of this step, its length, does
not need it yet; the next schedule clears the promise (`sarathi_scheduler.py:119`),
the worker's count has the block as free, another request is admitted into it, and now
the first one's context needs it as well.  No preemption is involved.  `error_strands`:
a stream enters the table that errors are propagated to only at the next iteration.
`pipeline_preempted`: preemption is recognised by a status that re-admission changes.

*Further disagreements.*  The modules state more of what comments and docs say.  TLC
refutes each of these on the instance given (constants that are not named are those
of the run of the same module that passes, `serving_fair` for the serving engine; C is the chunk size, B `num_gpu_blocks`, P the
prompts, T `max_tokens`, L `max_model_len`); they have no run of their own here.

| Property | Instance | What happens |
|---|---|---|
| `BestFit` | `sync_safety` with 3 pages, one tensor | `vattention.cu:741`: the first inactive slot is kept although a later one has enough blocks; line 728 says "best fit" |
| `ReclaimOnlyWhenRequired` | `async_liveness`, 3 pages | `vattention.cu:613`: with `deferred_reclaim` false, blocks are unmapped though none is required; `utils.h:79` says the opposite of the flag |
| `AheadOfNextStep` | 3 slots, 4 pages, deferred reclaim, requests enter while no manager runs | `vattention.cu:599`: reclaiming for one request takes the block another holds for its next token |
| `RequestStrideWholePages` | `layout` | `vtensor.h:106`: the exception tests the stride of the reservation; the kernels use that of the contiguous tensor, which need not be whole pages.  Hence the condition of `AlignedTokensMapped` |
| `CountsFreePages` | `async_liveness`, 3 pages, `EAGER_NUM_STEPS` 3 | `vattention.cu:314`: a block mapped between the read of the pool and of its slot is counted twice |
| `PrefillMemoryAllocated` | sarathi, P {1, 4}, C 2, B 3 | `sarathi_scheduler.py:149`: a decode is promised a block the rest of a running prompt needs; lines 186-187 say it "has already been allocated" |
| `RequestsServed` | sarathi with vAttention, 2 requests, P {1, 3}, T 4, L 7, C 4, B 4 | `base_llm_engine.py:408`: the early return on an empty schedule drops the preemption queue; the slot is never freed, the sequence never admitted |
| `RequestsServed` | sarathi, P {2, 5}, T 1, L 4, B 3 | `base_llm_engine.py:409`: a request that is too long is ignored in an empty schedule and nobody is told |
| `RequestsServed` | orca with vAttention, P {3}, T 1, L 4, B 3 | only sarathi and vllm clear `promised_blocks`; promises add up until nothing is admitted |
| `ClonesInSync` | sarathi paged, 1 request, P {3}, L 4, B 2 | same early return: the worker's clone is not told of a preemption |
| `CloneFreesFinished` | sarathi paged, 1 request, P {1} | `worker_sequence_manager.py:65`: the clone keeps the blocks of a request that a stop string ended; lines 22-24 say it "is supposed to work in sync block manager in scheduler" |
| `RequestsServed` without what is left behind | sarathi with vAttention | same place: two requests ended by a stop string keep 4 of 5 blocks, and the third is never admitted |
| `error # "no_slot"` | sarathi with vAttention, B 9 | same place: two requests ended by a stop string keep both slots, and the batch of the third finds none |
| `WithinMaxTokens` | sarathi, 2 requests, P {1, 3}, T 4, L 8, C 4, B 4 | `sequence.py:163`: preemption turns output into prompt, and the count starts again |
| `WithinModelLen` | sarathi, P {3}, T 2, L 4 | `sequence.py:176`: only waiting sequences are compared with `max_model_len` |
| `NoInternalError` | sarathi, chunks 3 then 1, 2 tokens per stage, P {1, 4}, `max_num_seqs` 3, B 9 | `sarathi_scheduler.py:92`: decodes outnumber the chunk, the next chunk is negative, an assertion fails |
| `NoInternalError` | sarathi with vAttention, 1 request, P {2}, T 4, L 3, C 2, B 2 | `base_scheduler.py:145-155`: a preempted sequence that has outgrown `max_model_len` is met at the head of the queue, still PAUSED, and the move to FINISHED_IGNORED is refused |
| `NoInternalError` | vllm with vAttention, 4 requests, P {2, 3}, T 5, L 5, C 3, `max_num_seqs` 2, `max_num_batched_tokens` 7, B 6 | `base_llm_engine.py:408`: a sequence that has outgrown `max_model_len` is ignored in an empty schedule; the early return drops the preemption queue, a slot is never freed, and a later batch finds none |
| `NoRestartAfterError` | `error_strands` | `async_llm_engine.py:308`: `add_request` between the end of the task and its callback starts a second loop with a new tracker |
| `TaskNeverEnds` | 2 calls, `Invalid = Ids` | `async_llm_engine.py:342`: a refused request ends the loop of all by a KeyError |
| `TaskNeverEnds` | 2 calls, one id, `ReuseIds` | `async_llm_engine.py:117`: a duplicate is not refused before the loop has taken the first, and fails an assertion |
| `NoInternalError` | `pipeline`, sarathi, 3 requests, P {1, 2}, T 3, C 1, `max_num_seqs` 3, B 20 | `sarathi_scheduler.py:92`: sequences admitted in batches of their own decode in one batch and outnumber the chunk; a prompt gets -1 tokens, and `sequence.py:88` asserts "num_tokens > 0".  Lines 197-198 know that the grouping changes in the pipeline, but provide only for 0 |
| `PreemptsExecuting` | `pipeline_preempted`, 3 requests | `base_scheduler.py:139`: the victim has just finished and is still in `self.running` |
| `RequestsServed` | `pipeline`, P {2, 5}, T 1, L 4 | `pipeline_parallel_llm_engine.py:128`: a schedule that only ignores a request reaches the output thread, which waits for tokens or takes those of another batch |
| `RequestsServed` without `~switches` | `pipeline` | `base_scheduler.py:110`: a sequence admitted between computation and assignment of `self.running` is lost |
| `FinishedLeave` | `pipeline`, 1 request, P {1}, T 1 | `sarathi_scheduler.py:277`: a running schedule writes a finished sequence back, and the engine never becomes idle |

## 4. Proofs

Results hold for any numbers of slots, pages, tensors, managers, clients, any page,
token and context size.

1. `TypeCorrect`, `OwnershipHolds` (`KVCacheAllocator_proofs`), without the
   assumption on thread start.  The inductive invariant `IInv` is `TypeOK`,
   `PageOwnership` and `ControlInv`; the last says that loop indices are slots at
   the labels that use them, without which an unmap could touch anything.
   The heart is `MapBlockOwnership` and `UnmapBlockOwnership`: a block's pages
   come from the pool, hence from no slot, and return to it from one slot only.
   This holds also with a late manager, but only because one block is moved in one
   step of the model; the data race inside such a move is what `late_start` exposes.
2. `MutualExclusionHolds` (same module), assuming `StartsDuringForward`, as do
   3 to 6.  `MutexInv`: an unstarted manager is covered by the forward pass, a
   started one by the flag, and where one exists the API thread is at a label that
   touches neither pool nor page map.
3. `ForwardBackedHolds`, `ResidentPagesStayHolds` (same module).
   `DataInv` adds: lengths never fall below what is
   resident (`LengthsInv`); what the API thread computed is still right where it
   is used (`ApiLocalsInv`); what a manager read is *sound though stale*
   (`ManagerLocalsInv`: a length it releases down to covers the resident tokens
   and, in the forward pass, the step's; a slot it found idle has no resident
   token); and memory is mapped for all of it (`BackedInv`).  The action property
   follows because a move touches only the block at the old or the new top
   (`LowerBlocksStay`), and both are above the resident ones.
4. `PoolCoversGrowthHolds`, `OomOnlyIfOversubscribedHolds`, `FreeBlocksExactHolds`
   (same module).  Blocks are pairs of a slot and an index, so a
   sum over slots is a cardinality and the library's theorems on finite sets apply.
   `PoolBlocks` counts: pages in the pool plus pages of mapped blocks are all of
   memory (from `PageOwnership`); `MapCounts` and `UnmapCounts` are the effect of a
   move.  `PoolInv`: the blocks a growth found available are still available, since
   nobody else takes any (2).  `OomInv`: the slots the reclaim loop has passed are
   tight, i.e. hold no more than their length needs; so where the demand of a slot is
   refused all slots are, no block is left to be found, and the lengths of the step
   need more blocks than there are (`Oversubscribed`).  `FreeBlocksExact`
   needs only `BackedInv`, which makes the needed blocks a subset of the mapped
   ones, so that no difference is negative (`BackedFits`).
5. `TermsDoNotWrapHolds` (`FreeBlockScan_proofs`).  A scan is made between
   steps, when the lengths are those of the resident tokens, or right after `step_async`,
   when they are those of the forward pass (`ScanInv`), and no manager takes a block of
   either (`BackedInv`).  With its own variables hidden the module is
   `KVCacheAllocator`, so 1 to 3 apply.
6. `RefinesKVCache` (`KVCacheContents_proofs`): `ContentsSpec => ImplementsKVCache`.
   `ContentsInv`: until cleanup all that was written is where it was written, since
   pages behind it stay (3) and no page has two owners (1); hence what is readable
   is what is resident.  `AllocInv`: when `alloc_new_batch_idx` finds no slot, all
   are taken.  `RefinementStep` goes through the actions: calls and returns map to
   steps of `KVCache`, all else stutters; that an accepted step fits in memory is
   counting (4), that a refused one does not is `OomInv`.
7. `MappingsReservedHolds`, `SlotsDisjointHolds`, `AlignedTokensMappedHolds`
   (`VirtualLayout_proofs`).  `LayoutInv` says that the configuration is valid and
   slots keep to `max_pages_per_req`.  The rest is arithmetic on products and
   quotients: seven small lemmas on these (`MulMono`, `DivCeil`, ...), from which the
   properties follow linearly.  No assumption on sizes besides what the code checks.
8. `TypeCorrect` of `AsyncEngine` (`AsyncEngine_proofs`), for every environment.
9. `OpenStreamsTrackedHolds`, `EndedCompleteHolds`, `NoRestartAfterErrorHolds` (same
   module), for clients with ids of their own that the engine accepts and a step that
   returns or times out (`Orderly`, the environment of `streams`).  Without
   it they are false: `error_strands` and the table above have a counterexample for
   each part.  The inductive invariant `EngineInv` has, besides types and the
   properties themselves: calls have ids of their own (`CallsInv`); a queued request
   is queued once and known to nobody but its client (`QueuedInv`); a tracked stream
   is under its own id, and finished if its id was noted as aborted (`TrackedInv`);
   the task ends only with a recorded error (`TaskInv`); and before the stop in the
   queue of a stream that is read comes the final output or an error (`StopInv`).
10. `TaskNeverEndsHolds`: if besides no step fails, the background task never ends.
11. `TypeCorrect`, `EachSequenceQueuedOnceHolds`, `PreemptsYoungestHolds`
   (`ServingEngine_proofs`), for every policy, both backends and any requests.
   `Inv` adds to the types: a live sequence is in one of the four lists, once
   (`QueueInv`); what is empty at each point of `schedule` (`ControlInv`); a batch has
   different sequences of the next `self.running`, and what is preempted waits again
   (`BatchInv`); all that was admitted is paused or in the batch (`PausedInv`), which is
   what allows `_preempt` and `on_schedule` to move it; the list is walked from old to
   young and preempted from the young end (`OrderInv`).  `MemoryInv` and `ProgressInv`
   keep counts above zero.  What sorting and filtering do to the lists is counting:
   each place of the result is the rank of exactly one element (`Scheduler_proofs`).
12. `BatchWithinChunkHolds`, `PreemptedNotReadmittedHolds` (same module), with one
   chunk size.  The decode loop of sarathi never looks at the chunk.  `ChunkInv`: all
   lists together have no more sequences than a chunk has tokens, since each was
   admitted with a token left beside those that decode; `TokensInv` ties the counter to
   the batch.  Varying chunk sizes break this (table above).
   `PreemptInv`: the head of the queue, just preempted, is `Barred` from admission in
   the same schedule, as its own blocks are all that is free and one goes to the
   sequence it was preempted for.
13. `ContextResidentHolds` (same module), if besides vAttention is used with sarathi or
   vllm: only these clear `promised_blocks`, and no others are made for it.
   `ResidentInv`: what is paused has its tokens in a slot nobody is about to free
   (`SlotsInv`); items of a batch fit the state of their sequence (`ItemsInv`); what
   waits is new or was preempted in this schedule (`WaitInv`), or else is `Stuck`: a
   step that preempted all returned early, the slots are never freed and nothing is
   admitted again, so their stale tokens are never read.  `CountInv` shows that in this
   case the cache is full.  Slots that stop strings left behind belong to finished
   sequences, which no batch has.
14. `NoInternalErrorHolds` (same module), under the assumptions of 13, in executions
   in which no admitted sequence outgrows `max_model_len` (`NoneOutgrown`, true of
   `serving_safety`).  Neither `check_stop` nor the decode loops look at that limit, and
   beyond it the property is false in two ways (table above).  The worker frees a slot
   one step after the scheduler has given it up, so the question is whether a new
   sequence can need it before.  `SafeInv`: those admitted, with those whose slot is
   still to be freed, are at most `max_num_seqs` (`SlotCountInv`, `TakenInv`) and nobody
   else has a slot but `string_stopped` (`HoldersInv`), unless an empty schedule made the engine forget the
   preemption queue.  Then `HeadBarred` holds for ever: nothing runs, so nothing is
   freed, and the head of the queue does not fit beside the slots kept.  That the head
   stays the same is first come, first served (`ArrivalInv`, `LoopInv`); that a schedule
   is empty only for such a reason is `EmptyInv`; chunks within prompts are `FitInv`.
   The request is then never served, which is a failure of liveness (table above), but
   no assertion fails.
15. `TypeCorrect` (`PipelineEngine_proofs`), for every policy, any requests and
   interleaving.  `CountInv` makes `num_running_batches` the number of batches between
   `schedule` and the end of their step, and `BlocksInv` accounts for the blocks.
16. `OutputsMatchBatchHolds`, `InFlightOnceHolds`, `StagesAgreeHolds` (same module),
   when `Room(most)`: no prompt is over `max_model_len`, every request at its longest
   has at most `most` blocks, and one block more than all of these exists
   (`can_append_slot` wants a free block even if the token needs none).  `pipeline`
   satisfies it; without it the engine mixes up batches (`pipeline_preempted`).
   `RoomInv`: nothing is preempted or ignored, so the output thread and the stages see
   the same batches (`QueuesInv`); a sequence in flight is RUNNING and in one batch
   (`FlightInv`); the stages' copy is the engine's but for what one side has done first
   and for the status after a stop string (`CopiesInv`).  That blocks never run out is `LengthInv` with `RoomyInv`.
17. `NoInternalErrorHolds` (same module), if besides sarathi has one chunk size, not
   smaller than `max_num_seqs` (`OneChunk`; without it the table above has a
   counterexample), and in executions without `switches`, as the property says.
   `SafeInv` follows an item from the step of `schedule` that picks it to the end of
   `on_step_completed`: a sequence is in one list, once (`ListsInv`, `ControlInv`); what
   is picked is paused or new and stays so whatever the output thread does (`BatchInv`);
   the decodes of a batch never outnumber the chunk (`TokensInv`); a chunk is at most
   what is left of the prompt, from the schedule to the completion (`PromptInv`,
   `SoundInv`); and the stage can set running what the engine has (`ResumeInv`).

The assumptions on constants are with the declarations: in `KVCacheAllocator`
positive sizes, finite memory of whole kvblocks, distinct threads; in
`VirtualLayout` sets of positive numbers; in `AsyncEngine` at least one call, id and
output; in `Scheduler` positive lengths and limits, and a cache that holds one request
of full length, which `_init_cache` demands; in `PipelineEngine` the paged backend.

Only model-checked:

* liveness: `StepReturns`, `ManagerEnds`, `StreamsEnd`, `RequestsServed` (fairness and
  ENABLED are outside the prover);
* `ClonesInSync` of the serving engine.  It is false without an assumption on the
  workload (table above), and holds on the instance of `serving_fair` because of the
  lengths and sizes chosen there;
* in each engine, what is outside the assumptions named with its theorems: several chunk
  sizes, vAttention under the other three policies, `NoInternalError` of the serving engine with
  the paged backend or sequences longer than `max_model_len`, a pipeline that preempts.

## 5. Plan

1. Allocator, layout, abstract cache and refinement, schedulers, serving engine,
   asynchronous and pipeline-parallel engines: modelled and checked.
2. Allocator, refinement, layout, asynchronous, serving and pipeline-parallel engines:
   proved, but for liveness.
3. *To come*: a condition on the workload alone that implies `NoneOutgrown`, and the
   weakest one under which `ClonesInSync` holds; the pipeline under preemption, once the output of a preempted
   sequence is recognised by more than its status.

## 6. Not modelled

* `map_common_pages_in_batch`: bound to Python, called nowhere in the repository.
* The UVM backend (`uvmInternal.h`): the same calls behind the macros of `mux.h`,
  into a driver that is third-party source with a patch.
* Start-up: profiling of memory, initialisation of workers, model loading.
* The numbers of a dynamic chunk schedule (`np.linspace`); the schedule is a constant.
* Paged block numbers, and the block tables of pipeline stages.
* Model execution, attention kernels (`pod_attn` and vendored code), sampling,
  tokenisation and detokenisation: they enter as lengths, tokens that stop, and pages
  that are written.
* HTTP servers, fragmentation and request metrics, logging, benchmarks, scripts.
* Interpreter lock: the C++ exception of an out-of-memory `step_async` leaves the
  section without it; the models end at the exception.
