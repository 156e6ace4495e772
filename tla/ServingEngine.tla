--------------------------- MODULE ServingEngine ---------------------------
(***************************************************************************)
(* One iteration of BaseLLMEngine.step with its worker: take the free      *)
(* block count and the preempted sequences, schedule, run the batch on the *)
(* worker (execute_model), apply the sampled tokens.                       *)
(*                                                                         *)
(* Engine and worker run one after the other here, so one copy of the      *)
(* sequence objects stands for both sequence managers, with one exception: *)
(* only the engine detokenises, so a stop string ends the engine's copy,   *)
(* while the worker's stays PAUSED and keeps its memory (string_stopped).  *)
(* The KV cache is the contract of KVCacheAllocator: a step succeeds when  *)
(* the blocks for all contexts fit (OomOnlyIfOversubscribed), and the      *)
(* count it reports between steps is exact (FreeBlocksExact).              *)
(***************************************************************************)
EXTENDS Scheduler

VARIABLES
  taken,     (* preemption_queue of the running step()                       *)
  context,   (* request -> curr_seq_lens of its slot; 0: it has no slot      *)
  kv,        (* ghost: request -> tokens whose KV entries its slot holds     *)
  wtables,   (* paged: block_tables of the worker's clone of the manager     *)
  string_stopped,  (* sequences that only the engine knows to be finished    *)
  reported   (* requests whose final output step() has returned              *)

worker == <<context, kv, wtables, string_stopped>>
vars == <<scheduler, taken, worker, reported>>

ServingInit ==
  /\ Init
  /\ taken = <<>>
  /\ context = [s \in Requests |-> 0]
  /\ kv = [s \in Requests |-> 0]
  /\ wtables = [s \in Requests |-> 0]
  /\ string_stopped = {}
  /\ reported = {}

Blocks(lens) == SumOver([s \in Requests |-> ceil_blocks(lens[s])], Requests)

AddRequest ==
  /\ phase = "idle"
  /\ \E s \in Requests, n \in Prompts : add_seq(s, n)
  /\ UNCHANGED <<taken, worker, reported>>

TimePasses ==
  /\ phase = "idle"
  /\ Tick
  /\ UNCHANGED <<taken, worker, reported>>

(* step() before the scheduler: only the vAttention manager takes the count. *)
StepStart ==
  /\ phase = "idle"
  /\ waiting # <<>> \/ running # <<>>
  /\ free_blocks' = IF VAttention THEN num_gpu_blocks - Blocks(context) ELSE free_blocks
  /\ taken' = preemption_queue
  /\ preemption_queue' = <<>>
  /\ phase' = "start"
  /\ UNCHANGED <<sq, now, waiting, running, turn, num_running_batches, promised_blocks,
                 block_tables, config, kept, prefills, outputs, error, worker, reported>>

Schedule == ScheduleStep /\ UNCHANGED <<taken, worker, reported>>

(* An empty batch: step() returns no output and forgets its locals. *)
StepReturnsEmpty ==
  /\ phase = "done"
  /\ batch = <<>>
  /\ phase' = "idle"
  /\ taken' = <<>>
  /\ ignored' = {}
  /\ preempted' = {}
  /\ UNCHANGED <<sq, now, waiting, running, turn, num_running_batches, manager, config, kept,
                 prefills, batch, num_batched_tokens, error, worker, reported>>

(* Context the cache engine sets for a scheduled sequence q. *)
ContextLen(q, chunk) ==
  IF chunk > 0 THEN q.processed + Min({chunk, q.prompt - q.processed}) ELSE q.prompt + q.output

Batched == SeqsOf(batch)

(* Slots of the preempted sequences are freed. *)
preempt_requests(ctx) == [s \in Requests |-> IF s \in Range(taken) THEN 0 ELSE ctx[s]]

(* Contexts that cache_engine.step passes to the allocator. *)
StepContexts(q) ==
  [s \in Requests |->
     IF s \in Batched THEN ContextLen(q[s], ItemOf(batch, s).chunk) ELSE preempt_requests(context)[s]]

(* The clone of the paged block manager in the worker's sequence manager:    *)
(* it frees what was preempted and appends to what it knows.                 *)
WorkerTables(q) ==
  [s \in Requests |->
     LET held == IF s \in preempted THEN 0 ELSE wtables[s]
         blocks == ceil_blocks(q[s].prompt + q[s].output)
     IN  IF s \notin Batched THEN held
         ELSE IF held > 0 THEN held + (IF held < blocks THEN 1 ELSE 0)
         ELSE IF ReservesAll THEN ceil_blocks(max_model_len)
         ELSE blocks]

(* on_schedule in engine and worker, then the worker's memory for the batch. *)
ExecuteModel ==
  LET q == on_schedule(sq, batch, preempted)
      ctx == StepContexts(q)
      tables == WorkerTables(q)
  IN  /\ phase = "done"
      /\ batch # <<>>
      /\ sq' = q
      /\ IF VAttention
         THEN context' = ctx /\ kv' = preempt_requests(kv) /\ UNCHANGED wtables
         ELSE wtables' = tables /\ UNCHANGED <<context, kv>>
      /\ UNCHANGED string_stopped
      /\ error' =
           CASE ~on_schedule_asserts(sq, batch, preempted) -> "assertion"
             [] VAttention /\ \E s \in Range(taken) : context[s] = 0 -> "not_found"
             [] VAttention /\ Cardinality({s \in Requests : ctx[s] > 0}) > max_num_seqs -> "no_slot"
             [] VAttention /\ Blocks(ctx) > num_gpu_blocks -> "oom"
             [] ~VAttention /\ Total(tables) > num_gpu_blocks -> "oom"
             [] OTHER -> "none"
      /\ phase' = "forward"
      /\ UNCHANGED <<now, waiting, running, turn, num_running_batches, manager, config, kept,
                     prefills, outputs, taken, reported>>

(* Mutant: finished sequences stay in the block manager. *)
free_finished_seqs_Skipped(gone) ==
  UNCHANGED <<free_blocks, block_tables>>

(* scheduler.free_finished_seqs *)
free_finished_seqs(gone) ==
  /\ free_blocks' = free_blocks
       + SumOver([s \in Requests |-> Credit(s, sq'[s].prompt + sq'[s].output)], gone)
  /\ block_tables' = [s \in Requests |-> IF s \in gone THEN 0 ELSE block_tables[s]]

(* The forward pass ends; sequence managers, cache engine and scheduler      *)
(* complete the step.  A decode of stops ends before max_tokens: by the EOS  *)
(* token, or, if it is in strings, by a stop string in the text, which the   *)
(* worker does not have.  The worker frees the memory of what it knows to be *)
(* finished.                                                                 *)
StepCompletes ==
  \E stops \in SUBSET Batched, strings \in SUBSET Batched :
    LET chunk(s) == ItemOf(batch, s).chunk
        done == {s \in Batched : sq'[s].status = "finished"}
        freed == {s \in Batched :
                    process_seq_output(sq[s], chunk(s), s \in stops \ strings).status = "finished"}
    IN  /\ phase = "forward"
        /\ strings \subseteq stops
        /\ \A s \in stops : prompt_processing_finished(s)
        /\ sq' = [s \in Requests |->
                    IF s \in Batched THEN process_seq_output(sq[s], chunk(s), s \in stops)
                                     ELSE sq[s]]
        /\ error' = IF \A i \in DOMAIN batch : process_asserts(sq[batch[i].seq], batch[i].chunk)
                    THEN "none" ELSE "assertion"
        /\ context' = [s \in Requests |-> IF s \in freed THEN 0 ELSE context[s]]
        /\ kv' = [s \in Requests |-> IF s \in Batched THEN context'[s] ELSE kv[s]]
        /\ wtables' = [s \in Requests |-> IF s \in freed THEN 0 ELSE wtables[s]]
        /\ string_stopped' = string_stopped \cup (done \ freed)
        /\ free_finished_seqs(done)
        /\ running' = Those(running, Requests \ done)
        /\ num_running_batches' = num_running_batches - 1
        /\ reported' = reported \cup ignored \cup done
        /\ phase' = "idle"
        /\ taken' = <<>>
        /\ batch' = <<>>
        /\ num_batched_tokens' = 0
        /\ ignored' = {}
        /\ preempted' = {}
        /\ UNCHANGED <<now, waiting, turn, promised_blocks, preemption_queue, config, kept,
                       prefills>>

Step == StepStart \/ Schedule \/ StepReturnsEmpty \/ ExecuteModel \/ StepCompletes

(* All requests served, or the program ended by an exception. *)
Stopped ==
  /\ error # "none" \/ (phase = "idle" /\ \A s \in Requests : is_finished(s))
  /\ UNCHANGED vars

Next ==
  \/ error = "none" /\ (AddRequest \/ TimePasses \/ Step)
  \/ Stopped

Spec == ServingInit /\ [][Next]_vars

(* The caller keeps calling step() while there are unfinished requests, and  *)
(* the clock does not stop (it is only looked at between steps).             *)
FairSpec == Spec /\ WF_vars(error = "none" /\ Step) /\ SF_vars(error = "none" /\ TimePasses)

-----------------------------------------------------------------------------
(* Types of the scheduler's and the worker's state. *)
TypeOK ==
  /\ sq \in [Requests -> SequenceType]
  /\ now \in 0 .. NumRequests
  /\ {waiting, running, kept, prefills, preemption_queue, taken} \subseteq Seq(Requests)
  /\ turn \in {"prefill", "decode"}
  /\ {num_running_batches, promised_blocks, free_blocks} \subseteq Nat
  /\ {block_tables, context, kv, wtables} \subseteq [Requests -> Nat]
  /\ config \in Configs
  /\ phase \in {"idle", "start", "running", "prefills", "waiting", "decodes", "done", "forward"}
  /\ batch \in Seq([seq : Requests, chunk : Int])
  /\ num_batched_tokens \in Int
  /\ {ignored, preempted, reported, string_stopped} \subseteq SUBSET Requests
  /\ error \in Errors

Queued == waiting \o running \o kept \o prefills

(* Through any number of preemptions and re-admissions, a live sequence is   *)
(* in exactly one of the scheduler's lists, exactly once, and a finished one *)
(* in none: none is lost and none is scheduled twice.                        *)
EachSequenceQueuedOnce ==
  \A s \in Requests :
    Cardinality({i \in DOMAIN Queued : Queued[i] = s}) = IF Live(s) THEN 1 ELSE 0

(* The worker frees the slot of a preempted sequence one step after the      *)
(* scheduler preempted it; by then the sequence has not been admitted again, *)
(* or the slot would be freed under a running one.                           *)
PreemptedNotReadmitted ==
  phase = "idle" => Range(preemption_queue) \cap Range(running) = {}

(* First come, first served: no sequence that decodes arrived after one that *)
(* was preempted for want of a block.                                        *)
PreemptsYoungest ==
  phase = "done" => \A p \in preempted, i \in DOMAIN batch : batch[i].chunk = 0 => batch[i].seq < p

(* No assertion, illegal state transition or missing slot ends the program,  *)
(* however preemption, re-admission and completion alternate; with a paged   *)
(* backend the allocators do not run out of blocks either.  What the worker  *)
(* keeps for sequences ended by a stop string may make slots, or blocks of   *)
(* the clone, run short: those of all other sequences alone always fit.      *)
NoInternalError ==
  LET alive == Requests \ string_stopped
  IN  \/ error = "none"
      \/ error = "no_slot" /\ Cardinality({s \in alive : context[s] > 0}) <= max_num_seqs
      \/ error = "oom" /\ (VAttention \/ SumOver(wtables, alive) <= num_gpu_blocks)

(* A forward pass attends only to tokens whose keys and values an earlier    *)
(* pass has written into the slot the sequence holds now, also after the     *)
(* sequence was preempted and its slot given away.                           *)
ContextResident ==
  phase = "forward" /\ VAttention /\ error = "none" =>
    \A i \in DOMAIN batch :
      LET s == batch[i].seq
      IN  kv[s] >= IF batch[i].chunk > 0 THEN sq[s].processed ELSE get_len(s) - 1

(* The paged managers of scheduler and worker agree between steps, and the   *)
(* scheduler's free blocks are those no table holds.  For a sequence ended   *)
(* by a stop string the worker's clone alone goes on holding blocks.         *)
ClonesInSync ==
  ~VAttention /\ error = "none" =>
    /\ free_blocks + Total(block_tables) = num_gpu_blocks
    /\ phase = "idle" =>
         \A s \in Requests : IF s \in string_stopped THEN wtables[s] > 0 /\ block_tables[s] = 0
                             ELSE wtables[s] = block_tables[s]

(* "it is supposed to work in sync block manager in scheduler": a sequence   *)
(* that has left the scheduler has no blocks in the worker's clone.          *)
CloneFreesFinished ==
  ~VAttention /\ phase = "idle" /\ error = "none" =>
    \A s \in Requests : sq[s].status = "finished" => wtables[s] = 0

(* The cache can take the rest of every prompt that sarathi set aside in its *)
(* loop over self.running, beside the blocks promised so far.                *)
PrefillMemoryAllocated ==
  phase = "prefills" /\ VAttention =>
    MapThenSumSet(LAMBDA s : ceil_blocks(sq[s].prompt) - ceil_blocks(context[s]), Range(prefills))
      <= free_blocks - promised_blocks

(* A sequence for which append_slot or allocate succeeded gets its memory:   *)
(* the allocator never runs out of blocks under the batch.                   *)
AppendedSlotMapped == error # "oom"

(* The tokens that the batch adds to its sequences. *)
BatchTokens == SumOver([i \in DOMAIN batch |-> num_tokens(batch[i])], DOMAIN batch)

(* With one chunk size, a batch of the sarathi policy has at most chunk_size *)
(* tokens.  The loop that schedules decodes never looks at chunk_size: the   *)
(* number of sequences admitted over time must keep them within it.          *)
BatchWithinChunk ==
  phase = "done" /\ policy = "sarathi" => BatchTokens <= chunk_sizes[1]

(* No request gets more than max_tokens tokens generated. *)
WithinMaxTokens == \A s \in Requests : get_len(s) - sq[s].asked <= max_tokens

(* No sequence grows past max_model_len, prompt and generated text together. *)
WithinModelLen == \A s \in Requests : sq[s].status # "ignored" => get_len(s) <= max_model_len

(* Blocks of the slots that stop strings left behind. *)
LeftBehind == SumOver([s \in Requests |-> ceil_blocks(context[s])], string_stopped)

(* Every request that was added gets its final output from step()            *)
(* eventually, unless the worker runs out of blocks or slots and ends the    *)
(* program, or the slots that stop strings left behind leave less of the     *)
(* cache than a request of full length and its next token may need.          *)
RequestsServed ==
  \A s \in Requests :
    Live(s) ~> \/ s \in reported
               \/ error \in {"oom", "no_slot"}
               \/ /\ VAttention
                  /\ num_gpu_blocks - LeftBehind < ceil_blocks(max_model_len + 1)
============================================================================
