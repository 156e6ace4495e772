----------------------- MODULE PipelineEngine_proofs -----------------------
(***************************************************************************)
(* The pipeline-parallel engine, for any number of requests, stages and    *)
(* blocks, and any interleaving of the threads.                            *)
(*                                                                         *)
(*  - Inv, with no assumption on the workload: types, the batches that     *)
(*    count as running are those between schedule() and the end of a step, *)
(*    and the blocks given out are blocks of the cache.                    *)
(*  - RoomInv, when the cache has room for every request at its longest    *)
(*    and no prompt is refused: nothing is preempted or ignored, so the    *)
(*    output thread and the stages see the same batches; a sequence that   *)
(*    is in flight is RUNNING and in one batch; and the stages' copies are *)
(*    one step ahead of or behind the engine's.                            *)
(*  - SafeInv, when in addition the chunk of sarathi is at least           *)
(*    max_num_seqs and remove_finished_seqs is not interrupted: every      *)
(*    item of a batch passes the assertions that await it, from the step   *)
(*    of schedule() that picks it to the end of on_step_completed.         *)
(***************************************************************************)
EXTENDS PipelineEngine, Scheduler_proofs

-----------------------------------------------------------------------------
(* The inductive invariants. *)

OutputsType ==
  [items : Seq(Items), preempted : SUBSET Requests, ignored : SUBSET Requests,
   at : [Requests -> Nat]]

SampledType == [of : OutputsType, stops : SUBSET Nat, strings : SUBSET Nat]

(* The state of the scheduler. *)
SchedulerTypes ==
  /\ sq \in [Requests -> SequenceType]
  /\ now \in Nat
  /\ waiting \in Seq(Requests) /\ running \in Seq(Requests)
  /\ kept \in Seq(Requests) /\ prefills \in Seq(Requests)
  /\ turn \in {"prefill", "decode"}
  /\ num_running_batches \in Nat /\ promised_blocks = 0 /\ free_blocks \in Nat
  /\ block_tables \in [Requests -> Nat]
  /\ config \in Configs
  /\ phase \in {"idle", "start", "running", "prefills", "waiting", "decodes", "done", "publish"}
  /\ batch \in Seq(Items)
  /\ num_batched_tokens \in Int
  /\ ignored \subseteq Requests /\ preempted \subseteq Requests
  /\ error \in Errors

(* The state of the other threads. *)
ThreadTypes ==
  /\ schedule_queue \in Seq(OutputsType)
  /\ execution_queue \in Seq(OutputsType) /\ sampled_queue \in Seq(OutputsType)
  /\ out_pc \in {"get", "sequences", "free", "assign"}
  /\ out \in OutputsType
  /\ sampled \in SampledType
  /\ position \in Nat /\ (out_pc = "free" => position >= 1)
  /\ unfinished \in Seq(Requests)
  /\ reported \subseteq Requests /\ string_stopped \subseteq Requests
  /\ switches \in BOOLEAN
  /\ preemptions \in [Requests -> Nat]

(* A prompt only advances. *)
ProgressInv == error = "none" => \A s \in Requests : 0 <= sq[s].processed

(* The blocks given out and the free ones are blocks of the cache. *)
BlocksInv == free_blocks + Total(block_tables) <= num_gpu_blocks

(* The batches that the output thread has yet to complete. *)
Pending == Len(execution_queue) + Len(sampled_queue) + (IF out_pc = "get" THEN 0 ELSE 1)

(* A batch counts as running from the end of schedule() to the end of the    *)
(* step; schedule() goes on only if that leaves a stage for its batch.       *)
CountInv ==
  /\ phase \in {"idle", "start", "decodes"} => batch = <<>>
  /\ phase \in {"decodes", "running", "prefills", "waiting"} =>
       num_running_batches < num_pipeline_stages
  /\ num_running_batches <= num_pipeline_stages
  /\ num_running_batches =
       Pending + (IF phase \in {"done", "publish"} /\ batch # <<>> THEN 1 ELSE 0)

Inv == SchedulerTypes /\ ThreadTypes /\ ProgressInv /\ BlocksInv /\ CountInv

(* Every request at its longest has most blocks; one block stays free, since *)
(* can_append_slot asks for a free block whether or not the next token needs *)
(* one.                                                                      *)
Room(most) ==
  /\ \A p \in Prompts : p <= max_model_len /\ ceil_blocks(p + (max_tokens - 1)) <= most
  /\ (\E c \in Configs : c.type \in {"orca", "faster_transformer"}) =>
       ceil_blocks(max_model_len) <= most
  /\ NumRequests * most < num_gpu_blocks

(* Nothing is preempted or ignored, so every schedule that is published has  *)
(* a batch, and the output thread takes the batches in the stages' order.    *)
QueuesInv ==
  /\ preempted = {} /\ ignored = {}
  /\ \A i \in DOMAIN schedule_queue :
       schedule_queue[i].preempted = {} /\ schedule_queue[i].ignored = {}
  /\ schedule_queue = sampled_queue \o execution_queue
  /\ out_pc # "get" => sampled.of = out
  /\ phase = "publish" => batch # <<>>

(* What waits is new, has no blocks, and is not in the batch. *)
WaitingInv ==
  /\ IsInjective(waiting)
  /\ \A s \in Range(waiting) :
       sq[s].status = "waiting" /\ block_tables[s] = 0 /\ s \notin SeqsOf(batch)
  /\ \A s \in Requests : sq[s].status = "absent" => block_tables[s] = 0 /\ s \notin SeqsOf(batch)

(* How long a sequence is. *)
LengthInv ==
  error = "none" =>
    \A s \in Requests :
      /\ sq[s].status = "absent" => sq[s] = Absent
      /\ sq[s].status # "absent" => sq[s].prompt \in Prompts
      /\ sq[s].status = "waiting" => sq[s].output = 0
      /\ Live(s) => sq[s].output < max_tokens

(* No block is lost, and nobody has more than most. *)
RoomyInv(most) ==
  /\ free_blocks + Total(block_tables) = num_gpu_blocks
  /\ \A s \in Requests : block_tables[s] <= most

(* Batches o and p have no sequence in common. *)
Apart(o, p) == SeqsOf(o.items) \cap SeqsOf(p.items) = {}

(* A sequence that is in flight is in one batch; the engine's object is      *)
(* RUNNING from on_schedule to on_step_completed.                            *)
FlightInv ==
  /\ \A i, j \in DOMAIN schedule_queue : i # j => Apart(schedule_queue[i], schedule_queue[j])
  /\ out_pc = "sequences" => \A i \in DOMAIN schedule_queue : Apart(schedule_queue[i], out)
  /\ phase = "publish" /\ error = "none" =>
       /\ \A i \in DOMAIN schedule_queue : SeqsOf(schedule_queue[i].items) \cap SeqsOf(batch) = {}
       /\ out_pc = "sequences" => SeqsOf(out.items) \cap SeqsOf(batch) = {}
       /\ \A s \in SeqsOf(batch) : sq[s].status = "running"
  /\ error = "none" =>
       /\ \A i \in DOMAIN schedule_queue : \A s \in SeqsOf(schedule_queue[i].items) :
            sq[s].status = "running"
       /\ out_pc = "sequences" => \A s \in SeqsOf(out.items) : sq[s].status = "running"

(* Sequences that the engine has set running and the stage has not yet. *)
Ahead ==
  {s \in Requests :
     \/ \E i \in DOMAIN execution_queue : s \in SeqsOf(execution_queue[i].items)
     \/ phase = "publish" /\ s \in SeqsOf(batch)}

(* What on_step_completed makes of sequence s, with the object q, when the   *)
(* first n items meet a sampled token and the text ends at stops; and when   *)
(* the schedule o meets the sampled tokens t.                                *)
CompletedBy(q, items, n, stops, s) ==
  LET mine == {i \in {i \in DOMAIN items : i <= n} : items[i].seq = s /\ q.status # "waiting"}
  IN  IF mine = {} THEN q
      ELSE LET i == CHOOSE i \in mine : TRUE
           IN  process_seq_output(q, items[i].chunk, i \in stops)

Completed(q, o, t, s) == CompletedBy(q, o.items, Len(t.of.items), t.stops, s)

(* The sampled tokens t as a stage sees them: without stop strings. *)
SeenBy(t) == [of |-> t.of, stops |-> t.stops \ t.strings]

(* The stage's copy is the engine's, but for the sequences that the engine   *)
(* has set running first or the stage has completed first, and for those     *)
(* that only the engine knows to be finished.                                *)
CopyInv(s) ==
  IF s \in string_stopped
  THEN sq[s].status = "finished" /\ wsq[s] = set_status(sq[s], "paused")
  ELSE IF s \in Ahead THEN sq[s] = set_status(wsq[s], "running")
  ELSE wsq[s] = IF out_pc = "sequences" THEN Completed(sq[s], out, SeenBy(sampled), s) ELSE sq[s]

CopiesInv == (phase = "publish" => error = "none") => \A s \in Requests : CopyInv(s)

RoomInv(most) ==
  /\ QueuesInv
  /\ WaitingInv
  /\ LengthInv
  /\ RoomyInv(most)
  /\ FlightInv
  /\ CopiesInv
  /\ wsq \in [Requests -> SequenceType]

-----------------------------------------------------------------------------
(* The steps of schedule(), as far as the other threads and the cache can    *)
(* tell them apart.                                                          *)

(* Every step: types, where it may lead, and the count of running batches. *)
Advances ==
  /\ SchedulerTypes'
  /\ phase \in {"start", "decodes", "running", "prefills", "waiting"}
  /\ phase' \in {"decodes", "running", "prefills", "waiting", "done"}
  /\ phase = "start" => /\ batch' = batch
                        /\ phase' = "done" \/ num_running_batches < num_pipeline_stages
  /\ phase' = "decodes" => phase = "start"
  /\ num_running_batches' =
       num_running_batches + (IF phase' = "done" /\ batch' # <<>> THEN 1 ELSE 0)
  /\ config' = config

(* Paused sequences are scheduled, or none. *)
Moves ==
  /\ UNCHANGED <<sq, waiting, free_blocks, block_tables, ignored, preempted>>
  /\ SeqsOf(batch') \subseteq SeqsOf(batch) \cup {s \in Requests : is_paused(s)}

(* A paused sequence is scheduled, and may get a block. *)
Grows ==
  /\ UNCHANGED <<sq, waiting, ignored, preempted>>
  /\ \E s \in Requests, n \in {0, 1} :
       /\ is_paused(s) /\ SeqsOf(batch') = SeqsOf(batch) \cup {s}
       /\ free_blocks > 0 /\ free_blocks' = free_blocks - n
       /\ block_tables' = [block_tables EXCEPT ![s] = block_tables[s] + n]
       /\ n = 1 => block_tables[s] < get_num_blocks(s)

(* There is no free block: a sequence loses its own. *)
Preempts ==
  /\ ~(free_blocks > 0)
  /\ UNCHANGED <<sq, batch, ignored>>
  /\ \/ UNCHANGED <<waiting, free_blocks, block_tables, preempted>>
     \/ \E v \in Requests :
          /\ free_blocks' = free_blocks + block_tables[v]
          /\ block_tables' = [block_tables EXCEPT ![v] = 0]

(* The first that waits is too long. *)
Ignores ==
  /\ UNCHANGED <<free_blocks, block_tables, batch, preempted>>
  /\ waiting # <<>> /\ TooLong(Head(waiting))
  /\ \A s \in Requests : sq'[s].processed = sq[s].processed

(* The first that waits is scheduled and gets blocks. *)
Admits ==
  LET s == Head(waiting)
      n == get_num_initial_blocks(s)
  IN  /\ UNCHANGED <<sq, ignored, preempted>>
      /\ waiting # <<>> /\ waiting' = Tail(waiting)
      /\ SeqsOf(batch') = SeqsOf(batch) \cup {s}
      /\ n <= free_blocks /\ free_blocks' = free_blocks - n
      /\ block_tables' = [block_tables EXCEPT ![s] = n]

LEMMA Paged ==
  ASSUME SchedulerTypes
  PROVE  /\ ~VAttention
         /\ policy \in {"sarathi", "vllm", "simple_chunking", "orca", "faster_transformer"}
  BY PipelineAssumption, LimitsAssumption DEF SchedulerTypes, policy, VAttention

LEMMA LengthTypes ==
  ASSUME SchedulerTypes, NEW s \in Requests
  PROVE  /\ sq[s] \in SequenceType /\ block_tables[s] \in Nat
         /\ get_len(s) \in Nat /\ get_num_blocks(s) \in Nat /\ get_num_initial_blocks(s) \in Nat
         /\ Credit(s, get_len(s)) = block_tables[s]
  <1>1. sq[s] \in SequenceType /\ block_tables[s] \in Nat /\ max_model_len \in Nat
    BY CapacityAssumption DEF SchedulerTypes
  <1>2. get_len(s) \in Nat
    BY <1>1, SequenceFields DEF get_len
  <1>3. get_num_blocks(s) \in Nat /\ ceil_blocks(max_model_len) \in Nat
    BY <1>1, <1>2, CeilBlocks DEF get_num_blocks
  <1>4. get_num_initial_blocks(s) \in Nat
    BY <1>3 DEF get_num_initial_blocks
  <1>5. Credit(s, get_len(s)) = block_tables[s]
    BY Paged DEF Credit
  <1>6. QED  BY <1>1, <1>2, <1>3, <1>4, <1>5

LEMMA NextChunkType ==
  ASSUME SchedulerTypes, ProgressInv, error = "none", NEW s \in Requests
  PROVE  get_seq_next_num_prefill_tokens(s) \in Int
  <1>1. sq[s] \in SequenceType /\ num_batched_tokens \in Int /\ 0 <= sq[s].processed
    BY DEF SchedulerTypes, ProgressInv
  <1>2. sq[s].prompt \in Int /\ sq[s].processed \in Nat /\ sq[s].processed \in Int
    BY <1>1, SequenceFields
  <1>3. ChunkSize(s) \in Int
    BY <1>2, ChunkSizeRange
  <1>4. Min({sq[s].prompt - sq[s].processed, ChunkSize(s) - num_batched_tokens}) \in Int
    BY <1>1, <1>2, <1>3, MinOfTwo
  <1>5. QED  BY <1>2, <1>4 DEF get_seq_next_num_prefill_tokens

LEMMA RunningKeepKind ==
  ASSUME SchedulerTypes, error = "none", NEW s \in Requests, RunningKeep(s)
  PROVE  Advances /\ Moves
  <1>1. /\ phase = "running" /\ running # <<>> /\ running' = Tail(running)
        /\ \/ prefills' = Append(prefills, s) /\ kept' = kept
           \/ kept' = Append(kept, s) /\ prefills' = prefills
        /\ error' \in {"assertion", "none"}
        /\ UNCHANGED <<sq, now, waiting, turn, num_running_batches, free_blocks, promised_blocks,
                       block_tables, config, phase, batch, num_batched_tokens, ignored, preempted>>
    BY DEF RunningKeep, InRunning, manager, outputs
  <1>2. running' \in Seq(Requests)
    BY <1>1, TailList DEF SchedulerTypes
  <1>3. kept' \in Seq(Requests) /\ prefills' \in Seq(Requests)
    <2>1. kept \in Seq(Requests) /\ prefills \in Seq(Requests)
      BY DEF SchedulerTypes
    <2>2. Append(kept, s) \in Seq(Requests) /\ Append(prefills, s) \in Seq(Requests)
      BY <2>1, AppendList
    <2>3. QED  BY <1>1, <2>1, <2>2
  <1>4. SchedulerTypes'
    BY <1>1, <1>2, <1>3 DEF SchedulerTypes, Errors
  <1>5. Advances
    BY <1>1, <1>4 DEF Advances, SchedulerTypes
  <1>6. QED  BY <1>1, <1>5 DEF Moves

LEMMA RunningAppendKind ==
  ASSUME SchedulerTypes, error = "none", NEW s \in Requests, RunningAppend(s)
  PROVE  Advances /\ Grows
  <1> DEFINE n == IF block_tables[s] < get_num_blocks(s) THEN 1 ELSE 0
  <1>1. /\ phase = "running" /\ running # <<>> /\ running' = Tail(running)
        /\ kept' = Append(kept, s) /\ batch' = Append(batch, Item(s, 0))
        /\ is_paused(s) /\ free_blocks > 0
        /\ promised_blocks' = promised_blocks + 0 /\ free_blocks' = free_blocks - n
        /\ block_tables' = [block_tables EXCEPT ![s] = block_tables[s] + n]
        /\ num_batched_tokens' = num_batched_tokens + (IF policy = "sarathi" THEN 1 ELSE 0)
        /\ UNCHANGED <<sq, now, waiting, turn, num_running_batches, config, phase, prefills, ignored,
                       preempted, error>>
    BY Paged DEF RunningAppend, InRunning, can_append_slot, append_slot, Decodes
  <1>2. n \in {0, 1} /\ (n = 1 => block_tables[s] < get_num_blocks(s))
    OBVIOUS
  <1> HIDE DEF n
  <1>3. running' \in Seq(Requests)
    BY <1>1, TailList DEF SchedulerTypes
  <1>4. kept' \in Seq(Requests)
    BY <1>1, AppendList DEF SchedulerTypes
  <1>5. batch' \in Seq(Items) /\ SeqsOf(batch') = SeqsOf(batch) \cup {s}
    BY <1>1, AppendItem DEF SchedulerTypes, Adds
  <1>6. /\ promised_blocks' = 0 /\ free_blocks' \in Nat /\ block_tables' \in [Requests -> Nat]
        /\ num_batched_tokens' \in Int
    BY <1>1, <1>2 DEF SchedulerTypes
  <1>7. SchedulerTypes'
    BY <1>1, <1>3, <1>4, <1>5, <1>6 DEF SchedulerTypes
  <1>8. Advances
    BY <1>1, <1>7 DEF Advances, SchedulerTypes
  <1>9. QED  BY <1>1, <1>2, <1>5, <1>8 DEF Grows

LEMMA RunningPreemptKind ==
  ASSUME SchedulerTypes, error = "none", NEW s \in Requests, RunningPreempt(s)
  PROVE  Advances /\ Preempts
  <1> DEFINE v == running[Len(running)]
  <1>1. /\ phase = "running" /\ running # <<>> /\ ~(free_blocks > 0)
        /\ UNCHANGED <<sq, now, turn, num_running_batches, promised_blocks, config, phase, kept,
                       prefills, batch, num_batched_tokens, ignored>>
    BY Paged DEF RunningPreempt, InRunning, can_append_slot
  <1>2. CASE is_executing(v)
    <2>1. /\ running' = RemoveAt(running, Len(running)) /\ waiting' = <<v>> \o waiting
          /\ free_blocks' = free_blocks + Credit(v, get_len(v))
          /\ block_tables' = [block_tables EXCEPT ![v] = 0]
          /\ preempted' = preempted \cup {v} /\ error' = error
      BY <1>2 DEF RunningPreempt, Victim, Requeue
    <2>2. running' \in Seq(Requests) /\ v \in Requests
      <3>1. running \in Seq(Requests)
        BY DEF SchedulerTypes
      <3>2. running' \in Seq(Requests) /\ v \in Range(running)
        BY <1>1, <2>1, <3>1, RemoveLast
      <3>3. QED  BY <3>1, <3>2, RangeIsSubset
    <2> HIDE DEF v
    <2>3. waiting' \in Seq(Requests)
      BY <2>1, <2>2, ConsList DEF SchedulerTypes
    <2>4. Credit(v, get_len(v)) = block_tables[v] /\ block_tables[v] \in Nat
      BY <2>2, LengthTypes
    <2>5. free_blocks' \in Nat /\ block_tables' \in [Requests -> Nat]
      BY <2>1, <2>2, <2>4 DEF SchedulerTypes
    <2>6. SchedulerTypes'
      BY <1>1, <2>1, <2>2, <2>3, <2>5 DEF SchedulerTypes
    <2>7. Advances
      BY <1>1, <2>6 DEF Advances, SchedulerTypes
    <2>8. QED  BY <1>1, <2>1, <2>2, <2>4, <2>7 DEF Preempts
  <1>3. CASE ~is_executing(v)
    <2>1. /\ error' = "assertion"
          /\ UNCHANGED <<running, waiting, free_blocks, block_tables, preempted>>
      BY <1>3 DEF RunningPreempt, Victim
    <2> HIDE DEF v
    <2>2. SchedulerTypes'
      BY <1>1, <2>1 DEF SchedulerTypes, Errors
    <2>3. Advances
      BY <1>1, <2>2 DEF Advances, SchedulerTypes
    <2>4. QED  BY <1>1, <2>1, <2>3 DEF Preempts
  <1>4. QED  BY <1>2, <1>3

LEMMA RunningEndKind ==
  ASSUME SchedulerTypes, error = "none", RunningEnd
  PROVE  Advances /\ Moves
  <1>1. /\ phase = "running" /\ turn' = "prefill"
        /\ UNCHANGED <<sq, now, waiting, free_blocks, promised_blocks, block_tables, config,
                       prefills, batch, num_batched_tokens, ignored, preempted, error>>
    BY DEF RunningEnd, manager, outputs
  <1>2. \/ phase' = "prefills" /\ UNCHANGED <<running, kept, num_running_batches>>
        \/ /\ phase' = "done" /\ running' = kept /\ kept' = <<>>
           /\ num_running_batches' = num_running_batches + (IF batch = <<>> THEN 0 ELSE 1)
    BY <1>1 DEF RunningEnd, Return
  <1>3. /\ running' \in Seq(Requests) /\ kept' \in Seq(Requests) /\ num_running_batches' \in Nat
    <2>1. /\ running \in Seq(Requests) /\ kept \in Seq(Requests) /\ <<>> \in Seq(Requests)
      BY EmptyList DEF SchedulerTypes
    <2>2. num_running_batches \in Nat
      BY DEF SchedulerTypes
    <2>3. running' \in Seq(Requests) /\ kept' \in Seq(Requests)
      BY <1>2, <2>1
    <2>4. num_running_batches' \in Nat
      BY <1>2, <2>2
    <2>5. QED  BY <2>3, <2>4
  <1>4. SchedulerTypes'
    BY <1>1, <1>2, <1>3 DEF SchedulerTypes
  <1>5. Advances
    BY <1>1, <1>2, <1>4 DEF Advances, SchedulerTypes
  <1>6. QED  BY <1>1, <1>5 DEF Moves

LEMMA PrefillStepKind ==
  ASSUME SchedulerTypes, ProgressInv, error = "none", PrefillStep
  PROVE  Advances /\ Moves
  <1> DEFINE s == Head(prefills)
             n == get_seq_next_num_prefill_tokens(s)
  <1>1. /\ phase = "prefills" /\ prefills # <<>>
        /\ prefills' = Tail(prefills) /\ kept' = Append(kept, s)
        /\ \/ /\ is_paused(s) /\ batch' = Append(batch, Item(s, n))
              /\ num_batched_tokens' = num_batched_tokens + n
           \/ UNCHANGED <<batch, num_batched_tokens>>
        /\ error' \in {"none", "assertion"}
        /\ UNCHANGED <<sq, now, waiting, running, turn, num_running_batches, free_blocks,
                       promised_blocks, block_tables, config, phase, ignored, preempted>>
    BY DEF PrefillStep, manager
  <1>2. prefills' \in Seq(Requests) /\ s \in Requests
    BY <1>1, TailList DEF SchedulerTypes
  <1>3. n \in Int
    BY <1>2, NextChunkType
  <1> HIDE DEF s, n
  <1>4. kept' \in Seq(Requests)
    BY <1>1, <1>2, AppendList DEF SchedulerTypes
  <1>5. /\ batch' \in Seq(Items) /\ num_batched_tokens' \in Int
        /\ SeqsOf(batch') \subseteq SeqsOf(batch) \cup {r \in Requests : is_paused(r)}
    <2>1. CASE UNCHANGED <<batch, num_batched_tokens>>
      BY <2>1 DEF SchedulerTypes
    <2>2. CASE /\ is_paused(s) /\ batch' = Append(batch, Item(s, n))
               /\ num_batched_tokens' = num_batched_tokens + n
      <3>1. batch' \in Seq(Items) /\ SeqsOf(batch') = SeqsOf(batch) \cup {s}
        BY <1>2, <1>3, <2>2, AppendItem DEF SchedulerTypes, Adds
      <3>2. QED  BY <1>2, <1>3, <2>2, <3>1 DEF SchedulerTypes
    <2>3. QED  BY <1>1, <2>1, <2>2
  <1>6. SchedulerTypes'
    BY <1>1, <1>2, <1>4, <1>5 DEF SchedulerTypes, Errors
  <1>7. Advances
    BY <1>1, <1>6 DEF Advances, SchedulerTypes
  <1>8. QED  BY <1>1, <1>5, <1>7 DEF Moves

LEMMA PrefillsEndKind ==
  ASSUME SchedulerTypes, error = "none", PrefillsEnd
  PROVE  Advances /\ Moves
  <1>1. /\ phase = "prefills"
        /\ UNCHANGED <<sq, now, waiting, free_blocks, promised_blocks, block_tables, config,
                       prefills, batch, num_batched_tokens, ignored, preempted, error>>
    BY DEF PrefillsEnd, manager
  <1>2. /\ turn' \in {turn, "decode"}
        /\ \/ phase' = "waiting" /\ UNCHANGED <<running, kept, num_running_batches>>
           \/ /\ phase' = "done" /\ running' = kept /\ kept' = <<>>
              /\ num_running_batches' = num_running_batches + (IF batch = <<>> THEN 0 ELSE 1)
           \/ /\ phase' = "waiting" /\ running' = kept /\ kept' = <<>>
              /\ UNCHANGED num_running_batches
    <2>1. CASE policy = "sarathi"
      BY <2>1 DEF PrefillsEnd
    <2>2. CASE policy # "sarathi" /\ policy = "simple_chunking" /\ batch # <<>>
      BY <1>1, <2>2 DEF PrefillsEnd, Return
    <2>3. CASE policy # "sarathi" /\ ~(policy = "simple_chunking" /\ batch # <<>>)
      BY <2>3 DEF PrefillsEnd
    <2>4. QED  BY <2>1, <2>2, <2>3
  <1>3. /\ running' \in Seq(Requests) /\ kept' \in Seq(Requests) /\ num_running_batches' \in Nat
    <2>1. /\ running \in Seq(Requests) /\ kept \in Seq(Requests) /\ <<>> \in Seq(Requests)
      BY EmptyList DEF SchedulerTypes
    <2>2. num_running_batches \in Nat
      BY DEF SchedulerTypes
    <2>3. running' \in Seq(Requests) /\ kept' \in Seq(Requests)
      BY <1>2, <2>1
    <2>4. num_running_batches' \in Nat
      BY <1>2, <2>2
    <2>5. QED  BY <2>3, <2>4
  <1>4. SchedulerTypes'
    BY <1>1, <1>2, <1>3 DEF SchedulerTypes
  <1>5. Advances
    BY <1>1, <1>2, <1>4 DEF Advances, SchedulerTypes
  <1>6. QED  BY <1>1, <1>5 DEF Moves

LEMMA ScheduleDecodesKind ==
  ASSUME SchedulerTypes, error = "none", ScheduleDecodes
  PROVE  Advances /\ Moves
  <1> DEFINE l == Those(running, {s \in Requests : is_paused(s)})
  <1>1. /\ phase = "decodes" /\ batch' = [i \in DOMAIN l |-> Item(l[i], 0)]
        /\ error' \in {"none", "assertion"}
        /\ UNCHANGED <<sq, now, waiting, turn, free_blocks, promised_blocks, block_tables, config,
                       prefills, num_batched_tokens, ignored, preempted>>
    BY DEF ScheduleDecodes, manager
  <1>2. /\ running' = running
        /\ \/ /\ phase' = "done" /\ kept' = <<>>
              /\ num_running_batches' = num_running_batches + (IF batch' = <<>> THEN 0 ELSE 1)
           \/ phase' = "waiting" /\ UNCHANGED <<kept, num_running_batches>>
    BY DEF ScheduleDecodes, Return
  <1>3. /\ l \in Seq(Requests) /\ Range(l) = Range(running) \cap {s \in Requests : is_paused(s)}
    BY ThoseList DEF SchedulerTypes
  <1> HIDE DEF l
  <1>4. batch' \in Seq(Items) /\ SeqsOf(batch') = Range(l)
    BY <1>1, <1>3, DecodeItems
  <1>5. kept' \in Seq(Requests) /\ num_running_batches' \in Nat
    <2>1. kept \in Seq(Requests) /\ <<>> \in Seq(Requests)
      BY EmptyList DEF SchedulerTypes
    <2>2. num_running_batches \in Nat
      BY DEF SchedulerTypes
    <2>3. kept' \in Seq(Requests)
      BY <1>2, <2>1
    <2>4. num_running_batches' \in Nat
      BY <1>2, <2>2
    <2>5. QED  BY <2>3, <2>4
  <1>6. SchedulerTypes'
    BY <1>1, <1>2, <1>4, <1>5 DEF SchedulerTypes, Errors
  <1>7. Advances
    BY <1>1, <1>2, <1>6 DEF Advances, SchedulerTypes
  <1>8. QED  BY <1>1, <1>3, <1>4, <1>7 DEF Moves

LEMMA ScheduleStartKind ==
  ASSUME SchedulerTypes, error = "none", batch = <<>>, ScheduleStart
  PROVE  Advances /\ Moves
  <1> DEFINE sorted == sort_by_priority(running)
  <1>1. /\ phase = "start"
        /\ UNCHANGED <<sq, now, waiting, turn, num_running_batches, free_blocks, block_tables,
                       config, kept, batch, num_batched_tokens, ignored, preempted, error>>
    BY DEF ScheduleStart, outputs
  <1>2. promised_blocks' = 0
    BY DEF ScheduleStart, SchedulerTypes
  <1>3. /\ phase' \in {"decodes", "running", "prefills", "waiting", "done"}
        /\ phase' = "done" \/ ~(num_running_batches >= num_pipeline_stages)
        /\ running' \in {running, sorted, <<>>} /\ prefills' \in {prefills, sorted}
    <2>1. CASE num_running_batches >= num_pipeline_stages
      BY <2>1 DEF ScheduleStart
    <2>2. CASE ~(num_running_batches >= num_pipeline_stages)
      <3>1. \/ policy = "sarathi" \/ policy = "vllm" \/ policy = "simple_chunking"
            \/ policy \in {"orca", "faster_transformer"}
        BY Paged
      <3>2. CASE policy = "sarathi"
        BY <2>2, <3>2 DEF ScheduleStart
      <3>3. CASE policy = "vllm"
        BY <2>2, <3>3 DEF ScheduleStart
      <3>4. CASE policy = "simple_chunking" /\ turn = "prefill"
        BY <2>2, <3>4 DEF ScheduleStart
      <3>5. CASE policy = "simple_chunking" /\ turn = "decode"
        BY <2>2, <3>5 DEF ScheduleStart
      <3>6. CASE policy \in {"orca", "faster_transformer"}
        BY <2>2, <3>6 DEF ScheduleStart
      <3>7. turn \in {"prefill", "decode"}
        BY DEF SchedulerTypes
      <3>8. QED  BY <3>1, <3>2, <3>3, <3>4, <3>5, <3>6, <3>7
    <2>3. QED  BY <2>1, <2>2
  <1>4. running' \in Seq(Requests) /\ prefills' \in Seq(Requests)
    <2>1. /\ running \in Seq(Requests) /\ prefills \in Seq(Requests) /\ <<>> \in Seq(Requests)
      BY EmptyList DEF SchedulerTypes
    <2>2. sorted \in Seq(Requests)
      BY <2>1, RequestsAreNumbers, SortedList
    <2> HIDE DEF sorted
    <2>3. QED  BY <1>3, <2>1, <2>2
  <1> HIDE DEF sorted
  <1>5. SchedulerTypes'
    BY <1>1, <1>2, <1>3, <1>4 DEF SchedulerTypes
  <1>6. num_running_batches \in Nat /\ num_pipeline_stages \in Nat
    BY LimitsAssumption DEF SchedulerTypes
  <1>7. phase' = "done" \/ num_running_batches < num_pipeline_stages
    BY <1>3, <1>6
  <1>8. num_running_batches' = num_running_batches + (IF phase' = "done" /\ batch' # <<>> THEN 1 ELSE 0)
    BY <1>1, <1>6
  <1>9. Advances
    BY <1>1, <1>3, <1>5, <1>7, <1>8 DEF Advances
  <1>10. QED  BY <1>1, <1>9 DEF Moves

LEMMA WaitingIgnoreKind ==
  ASSUME SchedulerTypes, error = "none", NEW s \in Requests, WaitingIgnore(s)
  PROVE  Advances /\ Ignores
  <1>1. /\ phase = "waiting" /\ waiting # <<>> /\ s = Head(waiting) /\ TooLong(s)
        /\ UNCHANGED <<now, running, turn, num_running_batches, free_blocks, promised_blocks,
                       block_tables, config, phase, kept, prefills, batch, num_batched_tokens,
                       preempted>>
    BY DEF WaitingIgnore, InWaiting, manager
  <1>2. /\ sq' \in [Requests -> SequenceType] /\ waiting' \in Seq(Requests)
        /\ ignored' \subseteq Requests /\ error' \in {"none", "state"}
        /\ \A r \in Requests : sq'[r].processed = sq[r].processed
    <2>1. sq \in [Requests -> SequenceType] /\ waiting \in Seq(Requests) /\ ignored \subseteq Requests
      BY DEF SchedulerTypes
    <2>2. CASE sq[s].status = "waiting"
      <3>1. /\ sq' = [sq EXCEPT ![s] = set_status(sq[s], "ignored")] /\ waiting' = Tail(waiting)
            /\ ignored' = ignored \cup {s} /\ error' = error
        BY <2>2 DEF WaitingIgnore
      <3>2. sq[s] \in SequenceType
        BY <2>1
      <3>3. /\ set_status(sq[s], "ignored") \in SequenceType
            /\ set_status(sq[s], "ignored").processed = sq[s].processed
        BY <3>2, SequenceConstructors DEF set_status
      <3>4. Tail(waiting) \in Seq(Requests)
        BY <1>1, <2>1, TailList
      <3>5. QED  BY <2>1, <3>1, <3>3, <3>4
    <2>3. CASE sq[s].status # "waiting"
      BY <2>1, <2>3 DEF WaitingIgnore
    <2>4. QED  BY <2>2, <2>3
  <1>3. SchedulerTypes'
    BY <1>1, <1>2 DEF SchedulerTypes, Errors
  <1>4. Advances
    BY <1>1, <1>3 DEF Advances, SchedulerTypes
  <1>5. QED  BY <1>1, <1>2, <1>4 DEF Ignores

LEMMA WaitingAdmitKind ==
  ASSUME SchedulerTypes, ProgressInv, error = "none", NEW s \in Requests, WaitingAdmit(s)
  PROVE  Advances /\ Admits
  <1> DEFINE c == get_seq_next_num_prefill_tokens(s)
             n == get_num_initial_blocks(s)
  <1>1. /\ phase = "waiting" /\ waiting # <<>> /\ s = Head(waiting)
        /\ waiting' = Tail(waiting)
        /\ batch' = Append(batch, Item(s, c))
        /\ num_batched_tokens' = num_batched_tokens + (IF policy = "vllm" THEN get_len(s) ELSE c)
        /\ error' \in {"none", "assertion"}
        /\ UNCHANGED <<sq, now, turn, num_running_batches, config, phase, prefills, ignored,
                       preempted>>
    BY DEF WaitingAdmit, InWaiting
  <1>2. /\ block_tables' = [block_tables EXCEPT ![s] = n]
        /\ promised_blocks' = promised_blocks + 0 /\ free_blocks' = free_blocks - n
        /\ free_blocks - promised_blocks - n >= (IF ReservesAll THEN 0 ELSE watermark_blocks)
    BY Paged DEF WaitingAdmit, Fits, can_allocate, allocate
  <1>3. \/ kept' = Append(kept, s) /\ running' = running
        \/ running' = Append(running, s) /\ kept' = kept
    BY DEF WaitingAdmit
  <1>4. c \in Int /\ get_len(s) \in Int /\ n \in Nat
    BY NextChunkType, LengthTypes
  <1> HIDE DEF c, n
  <1>5. promised_blocks' = 0 /\ free_blocks' \in Nat /\ n <= free_blocks
        /\ block_tables' \in [Requests -> Nat]
    <2>1. /\ promised_blocks = 0 /\ free_blocks \in Nat /\ watermark_blocks \in Nat
          /\ block_tables \in [Requests -> Nat]
      BY LimitsAssumption DEF SchedulerTypes
    <2>2. QED  BY <1>2, <1>4, <2>1
  <1>6. waiting' \in Seq(Requests)
    BY <1>1, TailList DEF SchedulerTypes
  <1>7. kept' \in Seq(Requests) /\ running' \in Seq(Requests)
    <2>1. kept \in Seq(Requests) /\ running \in Seq(Requests)
      BY DEF SchedulerTypes
    <2>2. Append(kept, s) \in Seq(Requests) /\ Append(running, s) \in Seq(Requests)
      BY <2>1, AppendList
    <2>3. QED  BY <1>3, <2>1, <2>2
  <1>8. batch' \in Seq(Items) /\ SeqsOf(batch') = SeqsOf(batch) \cup {s}
    <2>1. batch \in Seq(Items)
      BY DEF SchedulerTypes
    <2>2. Adds(batch, batch', s, c)
      BY <1>1, <1>4, <2>1, AppendItem
    <2>3. QED  BY <2>2 DEF Adds
  <1>9. num_batched_tokens' \in Int
    <2>1. num_batched_tokens \in Int
      BY DEF SchedulerTypes
    <2>2. QED  BY <1>1, <1>4, <2>1
  <1>10. SchedulerTypes'
    BY <1>1, <1>5, <1>6, <1>7, <1>8, <1>9 DEF SchedulerTypes, Errors
  <1>11. Advances
    <2>1. num_running_batches \in Nat
      BY DEF SchedulerTypes
    <2>2. phase' = "waiting" /\ num_running_batches' = num_running_batches + 0
      BY <1>1, <2>1
    <2>3. QED  BY <1>1, <1>10, <2>2 DEF Advances
  <1>12. QED  BY <1>1, <1>2, <1>5, <1>8, <1>11 DEF Admits, n

LEMMA WaitingEndKind ==
  ASSUME SchedulerTypes, error = "none", WaitingEnd
  PROVE  Advances /\ Moves
  <1> DEFINE sorted == sort_by_priority(running)
  <1>1. /\ phase = "waiting" /\ error' \in {"none", "assertion"}
        /\ UNCHANGED <<sq, now, waiting, free_blocks, promised_blocks, block_tables, config,
                       prefills, batch, num_batched_tokens, ignored, preempted>>
    BY DEF WaitingEnd, manager
  <1>2. /\ turn' \in {turn, "decode"}
        /\ \/ /\ phase' = "done" /\ running' \in {kept, running} /\ kept' = <<>>
              /\ num_running_batches' = num_running_batches + (IF batch = <<>> THEN 0 ELSE 1)
           \/ /\ phase' = "running" /\ running' = sorted
              /\ UNCHANGED <<kept, num_running_batches>>
    <2>1. CASE policy = "sarathi"
      BY <1>1, <2>1 DEF WaitingEnd, Return
    <2>2. CASE policy # "sarathi" /\ policy \in {"vllm", "simple_chunking"} /\ batch = <<>> /\ ignored = {}
      BY <2>2 DEF WaitingEnd
    <2>3. CASE /\ policy # "sarathi"
               /\ ~(policy \in {"vllm", "simple_chunking"} /\ batch = <<>> /\ ignored = {})
      BY <1>1, <2>3 DEF WaitingEnd, Return
    <2>4. QED  BY <2>1, <2>2, <2>3
  <1>3. running' \in Seq(Requests) /\ kept' \in Seq(Requests)
    <2>1. running \in Seq(Requests) /\ kept \in Seq(Requests) /\ <<>> \in Seq(Requests)
      BY EmptyList DEF SchedulerTypes
    <2>2. sorted \in Seq(Requests)
      BY <2>1, RequestsAreNumbers, SortedList
    <2> HIDE DEF sorted
    <2>3. QED  BY <1>2, <2>1, <2>2
  <1> HIDE DEF sorted
  <1>4. num_running_batches' \in Nat
    <2>1. num_running_batches \in Nat
      BY DEF SchedulerTypes
    <2>2. QED  BY <1>2, <2>1
  <1>5. SchedulerTypes'
    BY <1>1, <1>2, <1>3, <1>4 DEF SchedulerTypes, Errors
  <1>6. Advances
    BY <1>1, <1>2, <1>5 DEF Advances, SchedulerTypes
  <1>7. QED  BY <1>1, <1>6 DEF Moves

LEMMA ScheduleKinds ==
  ASSUME SchedulerTypes, ProgressInv, CountInv, error = "none", ScheduleStep
  PROVE  Advances /\ (Moves \/ Grows \/ Preempts \/ Ignores \/ Admits)
  <1>1. CASE ScheduleStart
    <2>1. batch = <<>>
      BY <1>1 DEF ScheduleStart, CountInv
    <2>2. QED  BY <1>1, <2>1, ScheduleStartKind
  <1>2. CASE ScheduleDecodes
    BY <1>2, ScheduleDecodesKind
  <1>3. CASE \E s \in Requests : RunningKeep(s) \/ RunningAppend(s) \/ RunningPreempt(s)
    BY <1>3, RunningKeepKind, RunningAppendKind, RunningPreemptKind
  <1>4. CASE RunningEnd
    BY <1>4, RunningEndKind
  <1>5. CASE PrefillStep
    BY <1>5, PrefillStepKind
  <1>6. CASE PrefillsEnd
    BY <1>6, PrefillsEndKind
  <1>7. CASE \E s \in Requests : WaitingIgnore(s) \/ WaitingAdmit(s)
    BY <1>7, WaitingIgnoreKind, WaitingAdmitKind
  <1>8. CASE WaitingEnd
    BY <1>8, WaitingEndKind
  <1>9. QED
    BY <1>1, <1>2, <1>3, <1>4, <1>5, <1>6, <1>7, <1>8 DEF ScheduleStep

-----------------------------------------------------------------------------
(* The invariant that holds with any workload, step by step. *)

(* Giving sequence s other blocks. *)
LEMMA BlocksMove ==
  ASSUME NEW t \in [Requests -> Nat], NEW s \in Requests, NEW n \in Nat
  PROVE  /\ Total(t) \in Nat /\ Total([t EXCEPT ![s] = n]) \in Nat
         /\ Total([t EXCEPT ![s] = n]) + t[s] = Total(t) + n
  <1> DEFINE u == [t EXCEPT ![s] = n]
  <1>1. u \in [Requests -> Nat]
    OBVIOUS
  <1>2. SumOver(u, Requests) + t[s] = SumOver(t, Requests) + n
    BY SumUpdate
  <1> HIDE DEF u
  <1>3. SumOver(t, Requests) \in Nat /\ SumOver(u, Requests) \in Nat
    BY <1>1, SumIsNat
  <1>4. QED  BY <1>2, <1>3 DEF Total, u

LEMMA TotalType ==
  ASSUME SchedulerTypes
  PROVE  Total(block_tables) \in Nat /\ free_blocks \in Nat /\ num_gpu_blocks \in Nat
  BY SumIsNat, CapacityAssumption DEF SchedulerTypes, Total

(* A sequence with a blocks gets b, and the free ones pay for them. *)
LEMMA BlocksBalance ==
  ASSUME NEW f \in Nat, NEW g \in Int, NEW t \in Nat, NEW u \in Nat, NEW a \in Nat, NEW b \in Nat,
         NEW m \in Nat, g + b <= f + a, u + a = t + b, f + t <= m
  PROVE  g + u <= m
  OBVIOUS

LEMMA ScheduleBlocks ==
  ASSUME SchedulerTypes, BlocksInv, Advances, Moves \/ Grows \/ Preempts \/ Ignores \/ Admits
  PROVE  BlocksInv'
  <1>1. /\ Total(block_tables) \in Nat /\ free_blocks \in Nat /\ num_gpu_blocks \in Nat
        /\ block_tables \in [Requests -> Nat] /\ waiting \in Seq(Requests)
        /\ free_blocks + Total(block_tables) <= num_gpu_blocks
    BY TotalType DEF SchedulerTypes, BlocksInv
  <1>2. CASE UNCHANGED <<free_blocks, block_tables>>
    BY <1>2 DEF BlocksInv
  <1>3. CASE Grows
    <2>1. PICK s \in Requests, n \in {0, 1} :
            /\ free_blocks' = free_blocks - n
            /\ block_tables' = [block_tables EXCEPT ![s] = block_tables[s] + n]
      BY <1>3 DEF Grows
    <2>2. block_tables[s] \in Nat /\ block_tables[s] + n \in Nat
      BY <1>1
    <2>3. /\ Total(block_tables') \in Nat
          /\ Total(block_tables') + block_tables[s] = Total(block_tables) + (block_tables[s] + n)
      <3>1. /\ Total([block_tables EXCEPT ![s] = block_tables[s] + n]) \in Nat
            /\ Total([block_tables EXCEPT ![s] = block_tables[s] + n]) + block_tables[s] = Total(block_tables) + (block_tables[s] + n)
        BY <1>1, <2>2, BlocksMove
      <3>2. QED  BY <2>1, <3>1, Zenon
    <2>4. QED  BY <1>1, <2>1, <2>2, <2>3 DEF BlocksInv
  <1>4. CASE \E v \in Requests : /\ free_blocks' = free_blocks + block_tables[v]
                                 /\ block_tables' = [block_tables EXCEPT ![v] = 0]
    <2>1. PICK v \in Requests : /\ free_blocks' = free_blocks + block_tables[v]
                                /\ block_tables' = [block_tables EXCEPT ![v] = 0]
      BY <1>4
    <2>2. block_tables[v] \in Nat
      BY <1>1
    <2>3. /\ Total(block_tables') \in Nat
          /\ Total(block_tables') + block_tables[v] = Total(block_tables) + 0
      <3>1. /\ Total([block_tables EXCEPT ![v] = 0]) \in Nat
            /\ Total([block_tables EXCEPT ![v] = 0]) + block_tables[v] = Total(block_tables) + 0
        BY <1>1, <2>2, BlocksMove
      <3>2. QED  BY <2>1, <3>1, Zenon
    <2>4. QED  BY <1>1, <2>1, <2>2, <2>3 DEF BlocksInv
  <1>5. CASE Admits
    <2> DEFINE s == Head(waiting)
               n == get_num_initial_blocks(s)
    <2>1. /\ waiting # <<>> /\ free_blocks' = free_blocks - n
          /\ block_tables' = [block_tables EXCEPT ![s] = n]
      BY <1>5 DEF Admits
    <2>2. s \in Requests
      BY <1>1, <2>1, TailList
    <2>3. block_tables[s] \in Nat /\ n \in Nat
      BY <2>2, LengthTypes
    <2> HIDE DEF s, n
    <2>4. /\ Total(block_tables') \in Nat
          /\ Total(block_tables') + block_tables[s] = Total(block_tables) + n
      <3>1. /\ Total([block_tables EXCEPT ![s] = n]) \in Nat
            /\ Total([block_tables EXCEPT ![s] = n]) + block_tables[s] = Total(block_tables) + n
        BY <1>1, <2>2, <2>3, BlocksMove
      <3>2. QED  BY <2>1, <3>1, Zenon
    <2>5. free_blocks' \in Int /\ free_blocks' + n <= free_blocks + block_tables[s]
      BY <1>1, <2>1, <2>3
    <2>6. free_blocks' + Total(block_tables') <= num_gpu_blocks
      BY <1>1, <2>3, <2>4, <2>5, BlocksBalance
    <2>7. QED  BY <2>6 DEF BlocksInv
  <1>6. QED  BY <1>2, <1>3, <1>4, <1>5 DEF Moves, Preempts, Ignores

LEMMA PendingType ==
  ASSUME ThreadTypes
  PROVE  Len(execution_queue) \in Nat /\ Len(sampled_queue) \in Nat /\ Pending \in Nat
  BY DEF ThreadTypes, Pending

LEMMA ScheduleInv ==
  ASSUME Inv, error = "none", Schedule
  PROVE  Inv'
  <1>1. SchedulerTypes /\ ThreadTypes /\ ProgressInv /\ BlocksInv /\ CountInv
    BY DEF Inv
  <1>2. UNCHANGED <<wsq, string_stopped, execution_queue, sampled_queue, schedule_queue, out_pc,
                    out, sampled, position, unfinished, reported, switches, preemptions>>
    BY DEF Schedule, stage, output_thread
  <1>3. Advances /\ (Moves \/ Grows \/ Preempts \/ Ignores \/ Admits)
    BY <1>1, ScheduleKinds DEF Schedule
  <1>4. SchedulerTypes'
    BY <1>3 DEF Advances
  <1>5. ThreadTypes'
    BY <1>1, <1>2 DEF ThreadTypes
  <1>6. ProgressInv'
    BY <1>1, <1>3 DEF ProgressInv, Moves, Grows, Preempts, Ignores, Admits
  <1>7. BlocksInv'
    BY <1>1, <1>3, ScheduleBlocks
  <1>8. CountInv'
    <2>1. Pending' = Pending /\ Pending \in Nat
      BY <1>1, <1>2, PendingType DEF Pending
    <2>2. num_running_batches \in Nat /\ num_pipeline_stages \in Nat
      BY <1>1, LimitsAssumption DEF SchedulerTypes
    <2>3. num_running_batches = Pending /\ num_running_batches <= num_pipeline_stages
      <3>1. phase \notin {"done", "publish"}
        BY <1>3 DEF Advances
      <3>2. QED  BY <1>1, <2>1, <2>2, <3>1 DEF CountInv
    <2>4. phase' \in {"idle", "start", "decodes"} => batch' = <<>>
      BY <1>1, <1>3 DEF Advances, CountInv
    <2>5. phase' = "done" \/ num_running_batches < num_pipeline_stages
      BY <1>1, <1>3 DEF Advances, CountInv
    <2>6. batch' # <<>> => num_running_batches < num_pipeline_stages
      BY <1>1, <1>3 DEF Advances, CountInv
    <2>7. /\ phase' # "publish" /\ phase' # "idle" /\ phase' # "start"
          /\ num_running_batches' =
               num_running_batches + (IF phase' = "done" /\ batch' # <<>> THEN 1 ELSE 0)
      BY <1>3 DEF Advances
    <2> HIDE DEF Pending
    <2>8. CASE phase' = "done" /\ batch' # <<>>
      <3>1. num_running_batches' = num_running_batches + 1
        BY <2>7, <2>8
      <3>2. QED  BY <2>1, <2>2, <2>3, <2>4, <2>6, <2>8, <3>1 DEF CountInv
    <2>9. CASE ~(phase' = "done" /\ batch' # <<>>)
      <3>1. num_running_batches' = num_running_batches
        BY <2>2, <2>7, <2>9
      <3>2. QED  BY <2>1, <2>2, <2>3, <2>4, <2>5, <2>7, <2>9, <3>1 DEF CountInv
    <2>10. QED  BY <2>8, <2>9
  <1>9. QED  BY <1>4, <1>5, <1>6, <1>7, <1>8 DEF Inv

LEMMA AddRequestInv ==
  ASSUME Inv, error = "none", AddRequest
  PROVE  Inv'
  <1>1. SchedulerTypes /\ ThreadTypes /\ ProgressInv /\ BlocksInv /\ CountInv
    BY DEF Inv
  <1>2. PICK s \in Requests, n \in Prompts : add_seq(s, n)
    BY DEF AddRequest
  <1>3. /\ sq' = [sq EXCEPT ![s] = NewSequence(n)] /\ waiting' = Append(waiting, s)
        /\ UNCHANGED <<now, running, turn, num_running_batches, free_blocks, promised_blocks,
                       block_tables, config, phase, kept, prefills, batch, num_batched_tokens,
                       ignored, preempted, error>>
        /\ UNCHANGED <<string_stopped, execution_queue, sampled_queue, schedule_queue, out_pc, out,
                       sampled, position, unfinished, reported, switches, preemptions>>
    BY <1>2 DEF AddRequest, add_seq, manager, outputs, output_thread
  <1>4. NewSequence(n) \in SequenceType /\ NewSequence(n).processed = 0
    BY RequestsAssumption DEF NewSequence, SequenceType
  <1>5. sq' \in [Requests -> SequenceType] /\ waiting' \in Seq(Requests)
    BY <1>1, <1>3, <1>4, AppendList DEF SchedulerTypes
  <1>6. SchedulerTypes' /\ ThreadTypes'
    BY <1>1, <1>3, <1>5 DEF SchedulerTypes, ThreadTypes
  <1>7. ProgressInv'
    <2>1. \A r \in Requests : sq'[r] = NewSequence(n) \/ sq'[r] = sq[r]
      BY <1>1, <1>3 DEF SchedulerTypes
    <2>2. QED  BY <1>1, <1>4, <2>1 DEF ProgressInv
  <1>8. BlocksInv' /\ CountInv'
    BY <1>1, <1>3 DEF BlocksInv, CountInv, Pending
  <1>9. QED  BY <1>6, <1>7, <1>8 DEF Inv

LEMMA TimePassesInv ==
  ASSUME Inv, error = "none", TimePasses \/ ScheduleWakes
  PROVE  Inv'
  <1>1. SchedulerTypes /\ ThreadTypes /\ ProgressInv /\ BlocksInv /\ CountInv
    BY DEF Inv
  <1>2. /\ phase = "idle" /\ phase' \in {"idle", "start"} /\ now' \in {now, now + 1}
        /\ UNCHANGED <<sq, waiting, running, turn, num_running_batches, free_blocks, promised_blocks,
                       block_tables, config, kept, prefills, batch, num_batched_tokens, ignored,
                       preempted, error>>
        /\ UNCHANGED <<string_stopped, execution_queue, sampled_queue, schedule_queue, out_pc, out,
                       sampled, position, unfinished, reported, switches, preemptions>>
    BY DEF TimePasses, Tick, ScheduleWakes, manager, outputs, stage, output_thread
  <1>3. now' \in Nat
    BY <1>1, <1>2 DEF SchedulerTypes
  <1>4. SchedulerTypes' /\ ThreadTypes'
    BY <1>1, <1>2, <1>3 DEF SchedulerTypes, ThreadTypes
  <1>5. ProgressInv' /\ BlocksInv'
    BY <1>1, <1>2 DEF ProgressInv, BlocksInv
  <1>6. CountInv'
    BY <1>1, <1>2 DEF CountInv, Pending
  <1>7. QED  BY <1>4, <1>5, <1>6 DEF Inv

LEMMA OutputsFields ==
  ASSUME NEW o \in OutputsType
  PROVE  /\ o.items \in Seq(Items) /\ o.preempted \subseteq Requests /\ o.ignored \subseteq Requests
         /\ SeqsOf(o.items) \subseteq Requests
         /\ \A i \in DOMAIN o.items : o.items[i].seq \in Requests /\ o.items[i].chunk \in Int
  <1>1. o.items \in Seq(Items) /\ o.preempted \subseteq Requests /\ o.ignored \subseteq Requests
    BY DEF OutputsType
  <1>2. \A i \in DOMAIN o.items : o.items[i] \in Items
    BY <1>1
  <1>3. \A i \in DOMAIN o.items : o.items[i].seq \in Requests /\ o.items[i].chunk \in Int
    BY <1>2 DEF Items
  <1>4. QED  BY <1>1, <1>3 DEF SeqsOf

(* What on_schedule leaves of a sequence. *)
LEMMA OnScheduleSequence ==
  ASSUME NEW q \in [Requests -> SequenceType], NEW items, NEW gone, NEW s \in Requests
  PROVE  /\ on_schedule(q, items, gone)[s] \in SequenceType
         /\ on_schedule(q, items, gone)[s].processed \in {0, q[s].processed}
         /\ gone = {} => on_schedule(q, items, gone)[s] =
                           IF s \in SeqsOf(items) THEN set_status(q[s], "running") ELSE q[s]
  <1> DEFINE p == [r \in Requests |-> IF r \in gone THEN reset_for_recompute(q[r]) ELSE q[r]]
             o == on_schedule(q, items, gone)
  <1>1. o = [r \in Requests |-> IF r \in SeqsOf(items) THEN set_status(p[r], "running") ELSE p[r]]
    BY DEF on_schedule
  <1>2. o[s] = IF s \in SeqsOf(items) THEN set_status(p[s], "running") ELSE p[s]
    <2> HIDE DEF p, o
    <2> QED  BY <1>1
  <1>3. p[s] = IF s \in gone THEN reset_for_recompute(q[s]) ELSE q[s]
    OBVIOUS
  <1> HIDE DEF p, o
  <1>4. q[s] \in SequenceType
    OBVIOUS
  <1>5. p[s] \in SequenceType /\ p[s].processed \in {0, q[s].processed}
    BY <1>3, <1>4, SequenceConstructors DEF reset_for_recompute
  <1>6. o[s] \in SequenceType /\ o[s].processed = p[s].processed
    <2>1. /\ set_status(p[s], "running") \in SequenceType
          /\ set_status(p[s], "running").processed = p[s].processed
      BY <1>5, SequenceConstructors DEF set_status
    <2>2. QED  BY <1>2, <1>5, <2>1
  <1>7. QED  BY <1>2, <1>3, <1>5, <1>6 DEF o

LEMMA OnScheduleInv ==
  ASSUME Inv, error = "none", OnSchedule
  PROVE  Inv'
  <1>1. SchedulerTypes /\ ThreadTypes /\ ProgressInv /\ BlocksInv /\ CountInv
    BY DEF Inv
  <1>2. /\ phase = "done"
        /\ UNCHANGED <<now, waiting, running, turn, num_running_batches, free_blocks,
                       promised_blocks, block_tables, config, kept, prefills, batch,
                       num_batched_tokens, ignored, preempted>>
        /\ UNCHANGED <<string_stopped, execution_queue, sampled_queue, schedule_queue, out_pc, out,
                       sampled, position, unfinished, reported, switches>>
    BY DEF OnSchedule, manager, outputs, stage, output_thread
  <1>3. \/ batch = <<>> /\ phase' = "idle" /\ UNCHANGED <<sq, error, preemptions>>
        \/ /\ phase' = "publish"
           /\ sq' = on_schedule(sq, batch, preempted)
           /\ error' \in {"none", "assertion"}
           /\ preemptions' =
                [s \in Requests |-> preemptions[s] + (IF s \in preempted THEN 1 ELSE 0)]
    BY DEF OnSchedule
  <1>4. /\ sq' \in [Requests -> SequenceType] /\ preemptions' \in [Requests -> Nat]
        /\ error' \in {"none", "assertion"} /\ ProgressInv'
    <2>1. /\ sq \in [Requests -> SequenceType] /\ preemptions \in [Requests -> Nat]
          /\ \A s \in Requests : 0 <= sq[s].processed
      BY <1>1 DEF SchedulerTypes, ThreadTypes, ProgressInv
    <2>2. CASE UNCHANGED <<sq, error, preemptions>>
      BY <2>1, <2>2 DEF ProgressInv
    <2>3. CASE /\ sq' = on_schedule(sq, batch, preempted)
               /\ error' \in {"none", "assertion"}
               /\ preemptions' =
                    [s \in Requests |-> preemptions[s] + (IF s \in preempted THEN 1 ELSE 0)]
      <3>1. \A s \in Requests :
              sq'[s] \in SequenceType /\ sq'[s].processed \in {0, sq[s].processed}
        BY <2>1, <2>3, OnScheduleSequence
      <3>2. sq' = [s \in Requests |-> sq'[s]]
        BY <2>3 DEF on_schedule
      <3>3. sq' \in [Requests -> SequenceType]
        BY <3>1, <3>2
      <3>4. \A s \in Requests : preemptions[s] + (IF s \in preempted THEN 1 ELSE 0) \in Nat
        BY <2>1
      <3>5. preemptions' \in [Requests -> Nat]
        BY <2>3, <3>4
      <3>6. QED  BY <2>1, <2>3, <3>1, <3>3, <3>5 DEF ProgressInv
    <2>4. QED  BY <1>3, <2>2, <2>3
  <1>5. SchedulerTypes' /\ ThreadTypes'
    BY <1>1, <1>2, <1>3, <1>4 DEF SchedulerTypes, ThreadTypes, Errors
  <1>6. BlocksInv'
    BY <1>1, <1>2 DEF BlocksInv
  <1>7. CountInv'
    BY <1>1, <1>2, <1>3 DEF CountInv, Pending
  <1>8. QED  BY <1>4, <1>5, <1>6, <1>7 DEF Inv

LEMMA OutputsTyped ==
  ASSUME SchedulerTypes, ThreadTypes
  PROVE  Outputs \in OutputsType
  BY DEF SchedulerTypes, ThreadTypes, Outputs, OutputsType

LEMMA PublishInv ==
  ASSUME Inv, error = "none", Publish
  PROVE  Inv'
  <1>1. SchedulerTypes /\ ThreadTypes /\ ProgressInv /\ BlocksInv /\ CountInv
    BY DEF Inv
  <1>2. /\ phase = "publish" /\ phase' = "idle"
        /\ schedule_queue' = Append(schedule_queue, Outputs)
        /\ execution_queue' = IF batch = <<>> THEN execution_queue ELSE Append(execution_queue, Outputs)
        /\ batch' = <<>> /\ num_batched_tokens' = 0 /\ ignored' = {} /\ preempted' = {}
        /\ UNCHANGED <<sq, now, waiting, running, turn, num_running_batches, free_blocks,
                       promised_blocks, block_tables, config, kept, prefills, error>>
        /\ UNCHANGED <<string_stopped, sampled_queue, out_pc, out, sampled, position, unfinished,
                       reported, switches, preemptions>>
    BY DEF Publish, manager, output_thread
  <1>3. /\ schedule_queue' \in Seq(OutputsType) /\ execution_queue' \in Seq(OutputsType)
        /\ Len(execution_queue') = Len(execution_queue) + (IF batch = <<>> THEN 0 ELSE 1)
    <2>1. schedule_queue \in Seq(OutputsType) /\ execution_queue \in Seq(OutputsType)
      BY <1>1 DEF ThreadTypes
    <2>2. /\ Append(schedule_queue, Outputs) \in Seq(OutputsType)
          /\ Append(execution_queue, Outputs) \in Seq(OutputsType)
          /\ Len(Append(execution_queue, Outputs)) = Len(execution_queue) + 1
          /\ Len(execution_queue) \in Nat
      BY <1>1, <2>1, OutputsTyped, AppendList
    <2>3. QED  BY <1>2, <2>1, <2>2
  <1>4. <<>> \in Seq(Items)
    BY EmptyList
  <1>5. SchedulerTypes' /\ ThreadTypes'
    BY <1>1, <1>2, <1>3, <1>4 DEF SchedulerTypes, ThreadTypes
  <1>6. ProgressInv' /\ BlocksInv'
    BY <1>1, <1>2 DEF ProgressInv, BlocksInv
  <1>7. CountInv'
    <2>1. /\ Len(execution_queue) \in Nat /\ Len(sampled_queue) \in Nat
          /\ num_running_batches \in Nat
      BY <1>1, PendingType DEF SchedulerTypes
    <2>2. num_running_batches = Pending + (IF batch = <<>> THEN 0 ELSE 1)
      BY <1>1, <1>2 DEF CountInv
    <2>3. num_running_batches = Pending' + 0
      <3>1. CASE batch = <<>>
        <4>1. Len(execution_queue') = Len(execution_queue)
          BY <1>3, <2>1, <3>1
        <4>2. QED  BY <1>2, <2>1, <2>2, <3>1, <4>1 DEF Pending
      <3>2. CASE batch # <<>>
        <4>1. Len(execution_queue') = Len(execution_queue) + 1
          BY <1>3, <2>1, <3>2
        <4>2. num_running_batches = Pending + 1
          BY <2>2, <3>2
        <4> DEFINE e == Len(execution_queue)
                   m == Len(sampled_queue)
                   x == IF out_pc = "get" THEN 0 ELSE 1
        <4>3. /\ Pending = e + m + x /\ Pending' = (e + 1) + m + x
              /\ e \in Nat /\ m \in Nat /\ x \in Nat
          BY <1>2, <2>1, <4>1 DEF Pending
        <4> HIDE DEF e, m, x
        <4>4. QED  BY <4>2, <4>3
      <3>3. QED  BY <3>1, <3>2
    <2>4. num_running_batches <= num_pipeline_stages
      BY <1>1 DEF CountInv
    <2>5. QED  BY <1>2, <2>3, <2>4 DEF CountInv
  <1>8. QED  BY <1>5, <1>6, <1>7 DEF Inv

LEMMA ExecuteModelInv ==
  ASSUME Inv, error = "none", ExecuteModel
  PROVE  Inv'
  <1>1. SchedulerTypes /\ ThreadTypes /\ ProgressInv /\ BlocksInv /\ CountInv
    BY DEF Inv
  <1>2. /\ execution_queue # <<>> /\ execution_queue' = Tail(execution_queue)
        /\ sampled_queue' = Append(sampled_queue, Head(execution_queue))
        /\ error' \in {"none", "assertion"}
        /\ UNCHANGED <<sq, now, waiting, running, turn, num_running_batches, free_blocks,
                       promised_blocks, block_tables, config, phase, kept, prefills, batch,
                       num_batched_tokens, ignored, preempted>>
        /\ UNCHANGED <<string_stopped, schedule_queue, out_pc, out, sampled, position, unfinished,
                       reported, switches, preemptions>>
    BY DEF ExecuteModel, manager, outputs, output_thread
  <1>3. /\ execution_queue' \in Seq(OutputsType) /\ sampled_queue' \in Seq(OutputsType)
        /\ Len(execution_queue') = Len(execution_queue) - 1
        /\ Len(sampled_queue') = Len(sampled_queue) + 1
    <2>1. execution_queue \in Seq(OutputsType) /\ sampled_queue \in Seq(OutputsType)
      BY <1>1 DEF ThreadTypes
    <2>2. /\ Head(execution_queue) \in OutputsType
          /\ execution_queue' \in Seq(OutputsType) /\ Len(execution_queue') = Len(execution_queue) - 1
      BY <1>2, <2>1, TailList
    <2>3. sampled_queue' \in Seq(OutputsType) /\ Len(sampled_queue') = Len(sampled_queue) + 1
      BY <1>2, <2>1, <2>2, AppendList
    <2>4. QED  BY <2>2, <2>3
  <1>4. SchedulerTypes' /\ ThreadTypes'
    BY <1>1, <1>2, <1>3 DEF SchedulerTypes, ThreadTypes, Errors
  <1>5. ProgressInv' /\ BlocksInv'
    BY <1>1, <1>2 DEF ProgressInv, BlocksInv
  <1>6. CountInv'
    <2>1. Len(execution_queue) \in Nat /\ Len(sampled_queue) \in Nat
      BY <1>1, PendingType
    <2>2. Pending' = Pending
      BY <1>2, <1>3, <2>1 DEF Pending
    <2>3. QED  BY <1>1, <1>2, <2>2 DEF CountInv
  <1>7. QED  BY <1>4, <1>5, <1>6 DEF Inv

LEMMA OutputReceiveInv ==
  ASSUME Inv, error = "none", OutputReceive
  PROVE  Inv'
  <1>1. SchedulerTypes /\ ThreadTypes /\ ProgressInv /\ BlocksInv /\ CountInv
    BY DEF Inv
  <1>2. /\ out_pc = "get" /\ out_pc' = "sequences"
        /\ schedule_queue # <<>> /\ sampled_queue # <<>>
        /\ out' = Head(schedule_queue) /\ schedule_queue' = Tail(schedule_queue)
        /\ sampled_queue' = Tail(sampled_queue)
        /\ error' \in {"none", "assertion"}
        /\ UNCHANGED <<sq, now, waiting, running, turn, num_running_batches, free_blocks,
                       promised_blocks, block_tables, config, phase, kept, prefills, batch,
                       num_batched_tokens, ignored, preempted>>
        /\ UNCHANGED <<string_stopped, execution_queue, position, unfinished, reported, switches,
                       preemptions>>
    BY DEF OutputReceive, on_sampling_completed, manager, outputs
  <1>3. /\ schedule_queue' \in Seq(OutputsType) /\ out' \in OutputsType
        /\ sampled_queue' \in Seq(OutputsType) /\ Head(sampled_queue) \in OutputsType
        /\ Len(sampled_queue') = Len(sampled_queue) - 1
    BY <1>1, <1>2, TailList DEF ThreadTypes
  <1>4. sampled' \in SampledType
    <2> DEFINE b == Head(sampled_queue)
    <2>1. PICK stops \in SUBSET {i \in DOMAIN b.items : b.items[i].chunk = 0} :
            \E strings \in SUBSET stops :
              sampled' = [of |-> b, stops |-> stops, strings |-> strings]
      BY DEF OutputReceive
    <2> PICK strings \in SUBSET stops : sampled' = [of |-> b, stops |-> stops, strings |-> strings]
      BY <2>1
    <2>2. b \in OutputsType
      BY <1>3
    <2> HIDE DEF b
    <2>3. b.items \in Seq(Items)
      BY <2>2, OutputsFields
    <2>4. DOMAIN b.items \subseteq Nat
      BY <2>3
    <2>5. stops \subseteq Nat /\ strings \subseteq Nat
      BY <2>4
    <2>6. QED  BY <2>2, <2>5 DEF SampledType
  <1>5. SchedulerTypes' /\ ThreadTypes'
    BY <1>1, <1>2, <1>3, <1>4 DEF SchedulerTypes, ThreadTypes, Errors
  <1>6. ProgressInv' /\ BlocksInv'
    BY <1>1, <1>2 DEF ProgressInv, BlocksInv
  <1>7. CountInv'
    <2>1. Len(execution_queue) \in Nat /\ Len(sampled_queue) \in Nat
      BY <1>1, PendingType
    <2>2. Pending' = Pending
      BY <1>2, <1>3, <2>1 DEF Pending
    <2>3. QED  BY <1>1, <1>2, <2>2 DEF CountInv
  <1>8. QED  BY <1>5, <1>6, <1>7 DEF Inv

(* on_step_completed changes a sequence by one of its items, or not at all. *)
LEMMA CompletedCases ==
  ASSUME NEW q, NEW o, NEW t, NEW s
  PROVE  \/ /\ Completed(q, o, t, s) = q
            /\ \A i \in DOMAIN o.items : i <= Len(t.of.items) /\ o.items[i].seq = s =>
                                           q.status = "waiting"
         \/ \E i \in DOMAIN o.items :
              /\ i <= Len(t.of.items) /\ o.items[i].seq = s /\ q.status # "waiting"
              /\ Completed(q, o, t, s) = process_seq_output(q, o.items[i].chunk, i \in t.stops)
  <1> DEFINE mine == {i \in {i \in DOMAIN o.items : i <= Len(t.of.items)} :
                        o.items[i].seq = s /\ q.status # "waiting"}
             k == CHOOSE i \in mine : TRUE
  <1>1. Completed(q, o, t, s) =
          IF mine = {} THEN q ELSE process_seq_output(q, o.items[k].chunk, k \in t.stops)
    BY Zenon DEF Completed, CompletedBy
  <1>2. mine # {} => k \in mine
    BY Zenon
  <1>3. CASE mine = {}
    <2>1. Completed(q, o, t, s) = q
      BY <1>1, <1>3, Zenon
    <2>2. QED  BY <1>3, <2>1, Zenon
  <1>4. CASE mine # {}
    <2>1. Completed(q, o, t, s) = process_seq_output(q, o.items[k].chunk, k \in t.stops)
      BY <1>1, <1>4, Zenon
    <2>2. k \in DOMAIN o.items /\ k <= Len(t.of.items) /\ o.items[k].seq = s /\ q.status # "waiting"
      BY <1>2, <1>4, Zenon
    <2>3. QED  BY <2>1, <2>2, Zenon
  <1>5. QED  BY <1>3, <1>4, Zenon

LEMMA OnStepCompleted ==
  ASSUME NEW q
  PROVE  /\ on_step_completed(q, sampled'.stops) =
              [s \in Requests |-> Completed(q[s], out', sampled', s)]
         /\ on_step_completed(q, sampled'.stops \ sampled'.strings) =
              [s \in Requests |-> Completed(q[s], out', SeenBy(sampled'), s)]
  <1>1. ASSUME NEW stops
        PROVE  on_step_completed(q, stops) =
                 [s \in Requests |->
                    CompletedBy(q[s], out'.items, Len(sampled'.of.items), stops, s)]
    BY Zenon DEF on_step_completed, CompletedBy, Paired
  <1>2. /\ SeenBy(sampled').of = sampled'.of
        /\ SeenBy(sampled').stops = sampled'.stops \ sampled'.strings
    BY DEF SeenBy
  <1>3. \A s \in Requests :
          CompletedBy(q[s], out'.items, Len(sampled'.of.items), sampled'.stops \ sampled'.strings, s)
            = Completed(q[s], out', SeenBy(sampled'), s)
    BY <1>2 DEF Completed
  <1>4. on_step_completed(q, sampled'.stops) =
          [s \in Requests |-> Completed(q[s], out', sampled', s)]
    BY <1>1, Zenon DEF Completed
  <1>5. on_step_completed(q, sampled'.stops \ sampled'.strings) =
          [s \in Requests |-> Completed(q[s], out', SeenBy(sampled'), s)]
    BY <1>1, <1>3
  <1>6. QED  BY <1>4, <1>5

LEMMA CompletedType ==
  ASSUME NEW q \in SequenceType, NEW o \in OutputsType, NEW t, NEW s
  PROVE  Completed(q, o, t, s) \in SequenceType
  <1>1. \A i \in DOMAIN o.items : o.items[i].chunk \in Int
    BY OutputsFields
  <1>2. CASE Completed(q, o, t, s) = q
    BY <1>2
  <1>3. CASE \E i \in DOMAIN o.items :
               Completed(q, o, t, s) = process_seq_output(q, o.items[i].chunk, i \in t.stops)
    <2>1. PICK i \in DOMAIN o.items :
            Completed(q, o, t, s) = process_seq_output(q, o.items[i].chunk, i \in t.stops)
      BY <1>3
    <2>2. o.items[i].chunk \in Int /\ (i \in t.stops) \in BOOLEAN
      BY <1>1
    <2>3. process_seq_output(q, o.items[i].chunk, i \in t.stops) \in SequenceType
      BY <2>2, SequenceConstructors
    <2>4. QED  BY <2>1, <2>3
  <1>4. QED  BY <1>2, <1>3, CompletedCases

LEMMA OutputSequencesInv ==
  ASSUME Inv, error = "none", OutputSequences
  PROVE  Inv'
  <1>1. SchedulerTypes /\ ThreadTypes /\ ProgressInv /\ BlocksInv /\ CountInv
    BY DEF Inv
  <1>2. /\ out_pc = "sequences" /\ out_pc' = "free" /\ position' = 1
        /\ out' = out /\ sampled' = sampled
        /\ sq' = on_step_completed(sq, sampled.stops)
        /\ string_stopped' \subseteq string_stopped \cup Requests
        /\ error' = IF on_step_completed_asserts(sq) THEN error ELSE "assertion"
        /\ UNCHANGED <<now, waiting, running, turn, num_running_batches, free_blocks,
                       promised_blocks, block_tables, config, phase, kept, prefills, batch,
                       num_batched_tokens, ignored, preempted>>
        /\ UNCHANGED <<execution_queue, sampled_queue, schedule_queue, unfinished, reported,
                       switches, preemptions>>
    BY DEF OutputSequences, manager, outputs, stage
  <1>3. sq' = [s \in Requests |-> Completed(sq[s], out, sampled, s)]
    BY <1>2, OnStepCompleted
  <1>4. sq \in [Requests -> SequenceType] /\ out \in OutputsType
    BY <1>1 DEF SchedulerTypes, ThreadTypes
  <1>5. sq' \in [Requests -> SequenceType]
    BY <1>3, <1>4, CompletedType
  <1>6. SchedulerTypes' /\ ThreadTypes'
    BY <1>1, <1>2, <1>5 DEF SchedulerTypes, ThreadTypes, Errors
  <1>7. ProgressInv'
    <2> SUFFICES ASSUME error' = "none", NEW s \in Requests
                 PROVE  0 <= sq'[s].processed
      BY DEF ProgressInv
    <2>1. sq'[s] = Completed(sq[s], out, sampled, s) /\ 0 <= sq[s].processed /\ sq[s] \in SequenceType
      BY <1>1, <1>3, <1>4 DEF ProgressInv
    <2>2. \A i \in DOMAIN out.items : i <= Len(sampled.of.items) =>
            \/ sq[out.items[i].seq].status = "waiting"
            \/ process_asserts(sq[out.items[i].seq], out.items[i].chunk)
      <3>1. on_step_completed_asserts(sq)
        BY <1>2
      <3>2. QED  BY <1>2, <3>1 DEF on_step_completed_asserts, Paired
    <2>3. CASE Completed(sq[s], out, sampled, s) = sq[s]
      BY <2>1, <2>3
    <2>4. CASE \E i \in DOMAIN out.items :
            /\ i <= Len(sampled.of.items) /\ out.items[i].seq = s /\ sq[s].status # "waiting"
            /\ Completed(sq[s], out, sampled, s)
                 = process_seq_output(sq[s], out.items[i].chunk, i \in sampled.stops)
      <3>1. PICK i \in DOMAIN out.items :
            /\ i <= Len(sampled.of.items) /\ out.items[i].seq = s /\ sq[s].status # "waiting"
            /\ Completed(sq[s], out, sampled, s)
                 = process_seq_output(sq[s], out.items[i].chunk, i \in sampled.stops)
        BY <2>4
      <3> DEFINE c == out.items[i].chunk
                 q == sq[s]
      <3>2. c \in Int /\ q.processed \in Int /\ q.prompt \in Int /\ 0 <= q.processed
        BY <1>4, <2>1, OutputsFields, SequenceFields
      <3>3. q.processed < q.prompt => c > 0
        BY <2>2, <3>1 DEF process_asserts
      <3>4. sq'[s].processed = IF q.processed < q.prompt THEN q.processed + c ELSE q.processed
        BY <2>1, <3>1 DEF process_seq_output
      <3> HIDE DEF c, q
      <3>5. QED  BY <3>2, <3>3, <3>4
    <2>5. QED  BY <2>3, <2>4, CompletedCases
  <1>8. BlocksInv'
    BY <1>1, <1>2 DEF BlocksInv
  <1>9. CountInv'
    <2>1. Pending' = Pending
      BY <1>2 DEF Pending
    <2>2. QED  BY <1>1, <1>2, <2>1 DEF CountInv
  <1>10. QED  BY <1>6, <1>7, <1>8, <1>9 DEF Inv

LEMMA OutputFreeInv ==
  ASSUME Inv, error = "none", OutputFree
  PROVE  Inv'
  <1>1. SchedulerTypes /\ ThreadTypes /\ ProgressInv /\ BlocksInv /\ CountInv
    BY DEF Inv
  <1> DEFINE s == running[position]
             n == IF is_finished(s) THEN 0 ELSE block_tables[s]
  <1>2. /\ out_pc = "free" /\ position <= Len(running) /\ position' = position + 1
        /\ free_blocks' = free_blocks + (IF is_finished(s) THEN Credit(s, get_len(s)) ELSE 0)
        /\ block_tables' = [block_tables EXCEPT ![s] = n]
        /\ UNCHANGED <<sq, now, waiting, running, turn, num_running_batches, promised_blocks,
                       config, phase, kept, prefills, batch, num_batched_tokens, ignored,
                       preempted, error>>
        /\ UNCHANGED <<string_stopped, execution_queue, sampled_queue, schedule_queue, out_pc, out,
                       sampled, unfinished, reported, switches, preemptions>>
    BY DEF OutputFree, outputs, stage
  <1>3. s \in Requests
    <2>1. running \in Seq(Requests) /\ position \in Nat /\ position >= 1
      BY <1>1, <1>2 DEF SchedulerTypes, ThreadTypes
    <2>2. position \in DOMAIN running
      BY <1>2, <2>1
    <2>3. QED  BY <2>1, <2>2
  <1>4. block_tables[s] \in Nat /\ Credit(s, get_len(s)) = block_tables[s]
    BY <1>1, <1>3, LengthTypes
  <1>5. n \in Nat /\ free_blocks \in Nat /\ block_tables \in [Requests -> Nat]
    BY <1>1, <1>4 DEF SchedulerTypes
  <1>6. free_blocks' + n = free_blocks + block_tables[s] /\ free_blocks' \in Nat
    BY <1>2, <1>4, <1>5
  <1> HIDE DEF s, n
  <1>7. block_tables' \in [Requests -> Nat] /\ position' \in Nat /\ position' >= 1
    BY <1>1, <1>2, <1>3, <1>5 DEF ThreadTypes
  <1>8. SchedulerTypes' /\ ThreadTypes'
    BY <1>1, <1>2, <1>6, <1>7 DEF SchedulerTypes, ThreadTypes
  <1>9. BlocksInv'
    <2>1. /\ Total(block_tables) \in Nat /\ num_gpu_blocks \in Nat
          /\ free_blocks + Total(block_tables) <= num_gpu_blocks
      BY <1>1, TotalType DEF BlocksInv
    <2>2. /\ Total([block_tables EXCEPT ![s] = n]) \in Nat
          /\ Total([block_tables EXCEPT ![s] = n]) + block_tables[s] = Total(block_tables) + n
      BY <1>3, <1>5, BlocksMove
    <2>3. /\ Total(block_tables') \in Nat
          /\ Total(block_tables') + block_tables[s] = Total(block_tables) + n
      BY <1>2, <2>2, Zenon
    <2>4. QED  BY <1>4, <1>5, <1>6, <2>1, <2>3 DEF BlocksInv
  <1>10. ProgressInv'
    BY <1>1, <1>2 DEF ProgressInv
  <1>11. CountInv'
    BY <1>1, <1>2 DEF CountInv, Pending
  <1>12. QED  BY <1>8, <1>9, <1>10, <1>11 DEF Inv

LEMMA StillRunningType ==
  ASSUME SchedulerTypes
  PROVE  StillRunning \in Seq(Requests)
  BY ThoseList DEF SchedulerTypes, StillRunning

LEMMA CompleteInv ==
  ASSUME Inv, error = "none", out_pc \in {"free", "assign"}, NEW l \in Seq(Requests), Complete(l)
  PROVE  Inv'
  <1>1. SchedulerTypes /\ ThreadTypes /\ ProgressInv /\ BlocksInv /\ CountInv
    BY DEF Inv
  <1>2. /\ running' = l /\ num_running_batches' = num_running_batches - 1
        /\ reported' = reported \cup out.ignored \cup {s \in SeqsOf(out.items) : is_finished(s)}
        /\ out_pc' = "get" /\ out' = NoOutputs /\ sampled' = NoSample
        /\ position' = 0 /\ unfinished' = <<>>
        /\ UNCHANGED <<sq, now, waiting, turn, free_blocks, promised_blocks, block_tables, config,
                       phase, kept, prefills, batch, num_batched_tokens, ignored, preempted, error>>
        /\ UNCHANGED <<string_stopped, execution_queue, sampled_queue, schedule_queue, switches,
                       preemptions>>
    BY DEF Complete, manager, outputs, stage
  <1>3. NoOutputs \in OutputsType /\ <<>> \in Seq(Requests)
    BY EmptyList DEF NoOutputs, OutputsType
  <1>4. NoSample \in SampledType
    BY <1>3 DEF NoSample, SampledType
  <1>5. reported' \subseteq Requests
    <2>1. reported \subseteq Requests /\ out \in OutputsType
      BY <1>1 DEF ThreadTypes
    <2>2. out.ignored \subseteq Requests /\ SeqsOf(out.items) \subseteq Requests
      BY <2>1, OutputsFields
    <2>3. QED  BY <1>2, <2>1, <2>2
  <1>6. /\ num_running_batches' \in Nat /\ num_running_batches' < num_running_batches
        /\ Pending' \in Nat
        /\ num_running_batches' =
             Pending' + (IF phase \in {"done", "publish"} /\ batch # <<>> THEN 1 ELSE 0)
    <2>1. Len(execution_queue) \in Nat /\ Len(sampled_queue) \in Nat
      BY <1>1, PendingType
    <2>2. Pending = Pending' + 1 /\ Pending' \in Nat
      BY <1>2, <2>1 DEF Pending
    <2>3. num_running_batches =
            Pending + (IF phase \in {"done", "publish"} /\ batch # <<>> THEN 1 ELSE 0)
      BY <1>1 DEF CountInv
    <2> DEFINE p == Pending'
               x == IF phase \in {"done", "publish"} /\ batch # <<>> THEN 1 ELSE 0
    <2>4. num_running_batches' = p + 1 + x - 1 /\ num_running_batches = p + 1 + x
      BY <1>2, <2>2, <2>3
    <2>5. p \in Nat /\ x \in Nat
      BY <2>2
    <2> HIDE DEF p, x
    <2>6. /\ num_running_batches' \in Nat /\ num_running_batches' < num_running_batches
          /\ num_running_batches' = p + x
      BY <2>4, <2>5
    <2>7. QED  BY <2>2, <2>6 DEF p, x
  <1>7. SchedulerTypes' /\ ThreadTypes'
    BY <1>1, <1>2, <1>3, <1>4, <1>5, <1>6 DEF SchedulerTypes, ThreadTypes
  <1>8. ProgressInv' /\ BlocksInv'
    BY <1>1, <1>2 DEF ProgressInv, BlocksInv
  <1>9. CountInv'
    <2>1. /\ num_running_batches \in Nat /\ num_pipeline_stages \in Nat
          /\ num_running_batches <= num_pipeline_stages
          /\ phase \in {"decodes", "running", "prefills", "waiting"} =>
               num_running_batches < num_pipeline_stages
          /\ phase \in {"idle", "start", "decodes"} => batch = <<>>
      BY <1>1, LimitsAssumption DEF CountInv, SchedulerTypes
    <2>2. /\ num_running_batches' <= num_pipeline_stages
          /\ phase \in {"decodes", "running", "prefills", "waiting"} =>
               num_running_batches' < num_pipeline_stages
      <3>1. num_running_batches' \in Nat /\ num_running_batches' < num_running_batches
        BY <1>6
      <3>2. QED  BY <2>1, <3>1
    <2> HIDE DEF Pending
    <2>3. QED  BY <1>2, <1>6, <2>1, <2>2 DEF CountInv
  <1>10. QED  BY <1>7, <1>8, <1>9 DEF Inv

LEMMA OutputThreadInv ==
  ASSUME Inv, error = "none", OutputThread
  PROVE  Inv'
  <1>1. SchedulerTypes /\ ThreadTypes /\ ProgressInv /\ BlocksInv /\ CountInv
    BY DEF Inv
  <1>2. CASE OutputComplete
    BY <1>1, <1>2, StillRunningType, CompleteInv DEF OutputComplete
  <1>3. CASE OutputAssign
    BY <1>1, <1>3, CompleteInv DEF OutputAssign, ThreadTypes
  <1>4. CASE OutputRemove
    <2>1. /\ out_pc = "free" /\ unfinished' = StillRunning /\ out_pc' = "assign"
          /\ UNCHANGED <<sq, now, waiting, running, turn, num_running_batches, free_blocks,
                         promised_blocks, block_tables, config, phase, kept, prefills, batch,
                         num_batched_tokens, ignored, preempted, error>>
          /\ UNCHANGED <<string_stopped, execution_queue, sampled_queue, schedule_queue, out,
                         sampled, position, reported, switches, preemptions>>
      BY <1>4 DEF OutputRemove, scheduler, manager, outputs, stage
    <2>2. SchedulerTypes' /\ ThreadTypes'
      BY <1>1, <2>1, StillRunningType DEF SchedulerTypes, ThreadTypes
    <2>3. ProgressInv' /\ BlocksInv' /\ CountInv'
      BY <1>1, <2>1 DEF ProgressInv, BlocksInv, CountInv, Pending
    <2>4. QED  BY <2>2, <2>3 DEF Inv
  <1>5. QED
    BY <1>2, <1>3, <1>4, OutputReceiveInv, OutputSequencesInv, OutputFreeInv DEF OutputThread

LEMMA InvInit == PipelineInit => Inv
  <1> SUFFICES ASSUME PipelineInit  PROVE Inv
    OBVIOUS
  <1>1. Init /\ config \in Configs
    BY DEF PipelineInit, Init
  <1>2. sq \in [Requests -> SequenceType] /\ \A s \in Requests : 0 <= sq[s].processed
    BY <1>1 DEF Init, Absent, SequenceType
  <1>3. /\ <<>> \in Seq(Requests) /\ <<>> \in Seq(Items) /\ <<>> \in Seq(OutputsType)
        /\ Len(<<>>) = 0
    BY EmptyList
  <1>4. SchedulerTypes
    BY <1>1, <1>2, <1>3, CapacityAssumption DEF Init, SchedulerTypes, Errors
  <1>5. NoOutputs \in OutputsType
    BY <1>3 DEF NoOutputs, OutputsType
  <1>6. NoSample \in SampledType
    BY <1>5 DEF NoSample, SampledType
  <1>7. ThreadTypes
    BY <1>3, <1>5, <1>6 DEF PipelineInit, ThreadTypes
  <1>8. BlocksInv
    <2> DEFINE zero == [s \in Requests |-> 0]
    <2>1. UNION {{s} \X (1 .. zero[s]) : s \in Requests} = {}
      OBVIOUS
    <2>2. Total(block_tables) = 0
      BY <1>1, <2>1, FS_EmptySet DEF Init, Total, SumOver
    <2>3. QED  BY <1>1, <2>2, CapacityAssumption DEF Init, BlocksInv
  <1>9. CountInv
    <2>1. Pending = 0
      BY <1>3 DEF PipelineInit, Pending
    <2>2. QED  BY <1>1, <2>1, LimitsAssumption DEF Init, CountInv
  <1>10. QED  BY <1>2, <1>4, <1>7, <1>8, <1>9 DEF Inv, ProgressInv

LEMMA InvNext == Inv /\ [Next]_vars => Inv'
  <1> SUFFICES ASSUME Inv, [Next]_vars  PROVE Inv'
    OBVIOUS
  <1>1. CASE Next
    <2>1. error = "none"
      BY <1>1 DEF Next
    <2>2. CASE AddRequest
      BY <2>1, <2>2, AddRequestInv
    <2>3. CASE TimePasses \/ ScheduleWakes
      BY <2>1, <2>3, TimePassesInv
    <2>4. CASE Schedule
      BY <2>1, <2>4, ScheduleInv
    <2>5. CASE OnSchedule
      BY <2>1, <2>5, OnScheduleInv
    <2>6. CASE Publish
      BY <2>1, <2>6, PublishInv
    <2>7. CASE ExecuteModel
      BY <2>1, <2>7, ExecuteModelInv
    <2>8. CASE OutputThread
      BY <2>1, <2>8, OutputThreadInv
    <2>9. QED
      BY <1>1, <2>2, <2>3, <2>4, <2>5, <2>6, <2>7, <2>8 DEF Next, ScheduleThread
  <1>2. CASE UNCHANGED vars
    <2>1. /\ UNCHANGED <<sq, now, waiting, running, turn, num_running_batches, free_blocks,
                         promised_blocks, block_tables, config, phase, kept, prefills, batch,
                         num_batched_tokens, ignored, preempted, error>>
          /\ UNCHANGED <<string_stopped, execution_queue, sampled_queue, schedule_queue, out_pc,
                         out, sampled, position, unfinished, reported, switches, preemptions>>
      BY <1>2 DEF vars, scheduler, manager, outputs, stage, output_thread
    <2>2. SchedulerTypes' /\ ThreadTypes'
      BY <2>1 DEF Inv, SchedulerTypes, ThreadTypes
    <2>3. ProgressInv' /\ BlocksInv' /\ CountInv'
      BY <2>1 DEF Inv, ProgressInv, BlocksInv, CountInv, Pending
    <2>4. QED  BY <2>2, <2>3 DEF Inv
  <1>3. QED  BY <1>1, <1>2

LEMMA InvHolds == Spec => []Inv
  BY InvInit, InvNext, PTL DEF Spec

(* Whatever the workload and the interleaving, at most num_pipeline_stages   *)
(* batches are between schedule() and the end of their step, no block is     *)
(* given out twice or freed twice, and every list holds requests.            *)
THEOREM TypeCorrect == Spec => []TypeOK
  <1>1. Inv => TypeOK
    <2> SUFFICES ASSUME Inv  PROVE TypeOK
      OBVIOUS
    <2>1. SchedulerTypes /\ ThreadTypes /\ BlocksInv /\ CountInv
      BY DEF Inv
    <2>2. free_blocks \in 0 .. num_gpu_blocks
      <3>1. Total(block_tables) \in Nat /\ free_blocks \in Nat /\ num_gpu_blocks \in Nat
        BY <2>1, TotalType
      <3>2. QED  BY <2>1, <3>1 DEF BlocksInv
    <2>3. num_running_batches \in 0 .. num_pipeline_stages
      BY <2>1, LimitsAssumption DEF SchedulerTypes, CountInv
    <2>4. QED  BY <2>1, <2>2, <2>3 DEF TypeOK, SchedulerTypes, ThreadTypes
  <1>2. QED  BY <1>1, InvHolds, PTL

-----------------------------------------------------------------------------
(* Room for every request: what the assumption gives. *)

(* The queues of the stages in one line. *)
LEMMA QueueGrows ==
  ASSUME NEW S, NEW k \in Seq(S), NEW l \in Seq(S), NEW x \in S, NEW m, NEW n,
         m = k \o l, n = Append(l, x)
  PROVE  Append(m, x) = k \o n
  OBVIOUS

LEMMA QueueMoves ==
  ASSUME NEW S, NEW k \in Seq(S), NEW l \in Seq(S), NEW x \in S
  PROVE  /\ l # <<>> => Append(k, Head(l)) \o Tail(l) = k \o l
         /\ k # <<>> => Head(k \o l) = Head(k) /\ Tail(k \o l) = Tail(k) \o l
         /\ \A i \in DOMAIN k : i \in DOMAIN (k \o l) /\ (k \o l)[i] = k[i]
         /\ \A i \in DOMAIN l : Len(k) + i \in DOMAIN (k \o l) /\ (k \o l)[Len(k) + i] = l[i]
  <1>1. ASSUME l # <<>>  PROVE Append(k, Head(l)) \o Tail(l) = k \o l
    BY <1>1
  <1>2. ASSUME k # <<>>  PROVE Head(k \o l) = Head(k) /\ Tail(k \o l) = Tail(k) \o l
    BY <1>2
  <1>3. \A i \in DOMAIN k : i \in DOMAIN (k \o l) /\ (k \o l)[i] = k[i]
    OBVIOUS
  <1>4. \A i \in DOMAIN l : Len(k) + i \in DOMAIN (k \o l) /\ (k \o l)[Len(k) + i] = l[i]
    OBVIOUS
  <1>5. QED  BY <1>1, <1>2, <1>3, <1>4

(* There is always a free block, so nobody is preempted. *)
LEMMA FreeBlock ==
  ASSUME NEW most \in Nat, Room(most), SchedulerTypes, RoomyInv(most)
  PROVE  free_blocks > 0
  <1>1. /\ block_tables \in [Requests -> Nat] /\ \A s \in Requests : block_tables[s] <= most
        /\ free_blocks + Total(block_tables) = num_gpu_blocks
        /\ NumRequests * most < num_gpu_blocks
    BY DEF SchedulerTypes, RoomyInv, Room
  <1>2. Total(block_tables) <= NumRequests * most
    BY <1>1, SumBound DEF Total
  <1>3. Total(block_tables) \in Nat /\ free_blocks \in Nat /\ num_gpu_blocks \in Nat
    BY TotalType
  <1>4. NumRequests * most \in Nat
    BY RequestsAreNumbers
  <1> DEFINE n == NumRequests * most
  <1>5. Total(block_tables) <= n /\ n < num_gpu_blocks /\ n \in Nat
    BY <1>1, <1>2, <1>4
  <1> HIDE DEF n
  <1>6. QED  BY <1>1, <1>3, <1>5

(* A sequence that is not finished has room, and a new one is not too long. *)
LEMMA HasRoom ==
  ASSUME NEW most \in Nat, Room(most), SchedulerTypes, LengthInv, error = "none",
         NEW s \in Requests, Live(s)
  PROVE  /\ get_num_blocks(s) <= most
         /\ get_num_initial_blocks(s) <= most
         /\ sq[s].status = "waiting" => ~TooLong(s)
  <1>1. /\ sq[s].prompt \in Prompts /\ sq[s].output < max_tokens
        /\ sq[s].status = "waiting" => sq[s].output = 0
    BY DEF LengthInv, Live
  <1>2. /\ sq[s].prompt \in Nat /\ sq[s].output \in Nat /\ max_tokens \in Nat \ {0}
        /\ max_model_len \in Nat
    BY RequestsAssumption, CapacityAssumption, SequenceFields DEF SchedulerTypes
  <1>3. sq[s].prompt <= max_model_len /\ ceil_blocks(sq[s].prompt + (max_tokens - 1)) <= most
    BY <1>1 DEF Room
  <1>4. get_len(s) \in Nat /\ get_len(s) <= sq[s].prompt + (max_tokens - 1)
    BY <1>1, <1>2 DEF get_len
  <1>5. get_num_blocks(s) <= most
    <2> DEFINE m == sq[s].prompt + (max_tokens - 1)
    <2>1. m \in Nat
      BY <1>2
    <2>2. ceil_blocks(get_len(s)) <= ceil_blocks(m) /\ ceil_blocks(m) \in Nat
          /\ ceil_blocks(get_len(s)) \in Nat
      <3> HIDE DEF m
      <3> QED  BY <1>4, <2>1, CeilBlocks DEF m
    <2>3. QED  BY <1>3, <2>2 DEF get_num_blocks
  <1>6. get_num_initial_blocks(s) <= most
    <2>1. ReservesAll => ceil_blocks(max_model_len) <= most
      BY DEF ReservesAll, Room, policy, SchedulerTypes
    <2>2. QED  BY <1>5, <2>1 DEF get_num_initial_blocks
  <1>7. sq[s].status = "waiting" => ~TooLong(s)
    BY <1>1, <1>2, <1>3 DEF TooLong, get_len
  <1>8. QED  BY <1>5, <1>6, <1>7

LEMMA CompletedOther ==
  ASSUME NEW q, NEW o, NEW t, NEW s, s \notin SeqsOf(o.items)
  PROVE  Completed(q, o, t, s) = q
  BY CompletedCases DEF SeqsOf

(* Sequences the stage lags behind on are in flight, and RUNNING. *)
LEMMA AheadRuns ==
  ASSUME Inv, QueuesInv, FlightInv, error = "none", NEW s \in Ahead
  PROVE  /\ s \in Requests
         /\ sq[s].status = "running"
         /\ out_pc = "sequences" => s \notin SeqsOf(out.items)
         /\ sampled_queue # <<>> => s \notin SeqsOf(Head(schedule_queue).items)
  <1>1. s \in Requests
    BY DEF Ahead
  <1>2. sampled_queue \in Seq(OutputsType) /\ execution_queue \in Seq(OutputsType)
    BY DEF Inv, ThreadTypes
  <1>3. schedule_queue = sampled_queue \o execution_queue
    BY DEF QueuesInv
  <1>4. CASE \E i \in DOMAIN execution_queue : s \in SeqsOf(execution_queue[i].items)
    <2>1. PICK i \in DOMAIN execution_queue : s \in SeqsOf(execution_queue[i].items)
      BY <1>4
    <2>2. execution_queue # <<>> /\ execution_queue[i] \in OutputsType
      BY <1>2, <2>1
    <2> DEFINE j == Len(sampled_queue) + i
    <2>3. j \in DOMAIN schedule_queue /\ schedule_queue[j] = execution_queue[i]
      BY <1>2, <1>3, <2>1, <2>2, QueueMoves
    <2>4. sampled_queue # <<>> =>
            1 \in DOMAIN schedule_queue /\ 1 # j /\ Head(schedule_queue) = schedule_queue[1]
      <3> SUFFICES ASSUME sampled_queue # <<>>
                   PROVE  1 \in DOMAIN schedule_queue /\ 1 # j
                          /\ Head(schedule_queue) = schedule_queue[1]
        OBVIOUS
      <3>1. Len(sampled_queue) \in Nat /\ Len(sampled_queue) >= 1 /\ i \in Nat /\ i >= 1
        BY <1>2, <2>1
      <3>2. 1 \in DOMAIN sampled_queue
        BY <1>2, <3>1
      <3>3. 1 \in DOMAIN schedule_queue
        BY <1>2, <1>3, <2>2, <3>2, QueueMoves
      <3>4. schedule_queue \in Seq(OutputsType)
        BY DEF Inv, ThreadTypes
      <3>5. QED  BY <3>1, <3>3, <3>4
    <2> HIDE DEF j
    <2>5. sq[s].status = "running"
      BY <2>1, <2>3 DEF FlightInv
    <2>6. out_pc = "sequences" => s \notin SeqsOf(out.items)
      BY <2>1, <2>3 DEF FlightInv, Apart
    <2>7. sampled_queue # <<>> => s \notin SeqsOf(Head(schedule_queue).items)
      BY <2>1, <2>3, <2>4 DEF FlightInv, Apart
    <2>8. QED  BY <1>1, <2>5, <2>6, <2>7
  <1>5. CASE phase = "publish" /\ s \in SeqsOf(batch)
    <2>1. sq[s].status = "running" /\ (out_pc = "sequences" => s \notin SeqsOf(out.items))
      BY <1>5 DEF FlightInv
    <2>2. sampled_queue # <<>> => s \notin SeqsOf(Head(schedule_queue).items)
      <3> SUFFICES ASSUME sampled_queue # <<>>
                   PROVE  s \notin SeqsOf(Head(schedule_queue).items)
        OBVIOUS
      <3>1. schedule_queue \in Seq(OutputsType)
        BY DEF Inv, ThreadTypes
      <3>2. Len(sampled_queue) \in Nat /\ Len(sampled_queue) >= 1 /\ Len(execution_queue) \in Nat
        BY <1>2
      <3>3. Len(schedule_queue) = Len(sampled_queue) + Len(execution_queue)
        BY <1>2, <1>3
      <3>4. 1 \in DOMAIN schedule_queue /\ Head(schedule_queue) = schedule_queue[1]
        BY <3>1, <3>2, <3>3
      <3>5. QED  BY <1>5, <3>4 DEF FlightInv
    <2>3. QED  BY <1>1, <2>1, <2>2
  <1>6. QED  BY <1>4, <1>5 DEF Ahead

-----------------------------------------------------------------------------
(* Room for every request: the invariant, step by step. *)

(* Steps that touch none of it but the control points. *)
LEMMA RoomFrame ==
  ASSUME NEW most, RoomInv(most),
         UNCHANGED <<sq, wsq, string_stopped, waiting, free_blocks, block_tables, batch, ignored,
                     preempted, error, schedule_queue, execution_queue, sampled_queue>>,
         phase' = phase \/ (phase # "publish" /\ phase' # "publish"),
         \/ UNCHANGED <<out_pc, out, sampled>>
         \/ /\ out_pc # "sequences" /\ out_pc' # "sequences"
            /\ out_pc' # "get" => out_pc # "get" /\ UNCHANGED <<out, sampled>>
  PROVE  RoomInv(most)'
  <1>1. QueuesInv'
    BY DEF RoomInv, QueuesInv
  <1>2. WaitingInv'
    BY DEF RoomInv, WaitingInv
  <1>3. LengthInv' /\ RoomyInv(most)'
    BY DEF RoomInv, LengthInv, Live, RoomyInv
  <1>4. FlightInv'
    <2>1. FlightInv
      BY DEF RoomInv
    <2>2. CASE UNCHANGED <<out_pc, out, sampled>>
      BY <2>1, <2>2 DEF FlightInv, Apart
    <2>3. CASE out_pc' # "sequences"
      BY <2>1, <2>3 DEF FlightInv, Apart
    <2>4. QED  BY <2>2, <2>3
  <1>5. CopiesInv'
    <2>1. CopiesInv
      BY DEF RoomInv
    <2>2. Ahead' = Ahead
      BY DEF Ahead
    <2>3. CASE UNCHANGED <<out_pc, out, sampled>>
      BY <2>1, <2>2, <2>3 DEF CopiesInv, CopyInv
    <2>4. CASE out_pc # "sequences" /\ out_pc' # "sequences"
      BY <2>1, <2>2, <2>4 DEF CopiesInv, CopyInv
    <2>5. QED  BY <2>3, <2>4
  <1>6. wsq' \in [Requests -> SequenceType]
    BY DEF RoomInv
  <1>7. QED  BY <1>1, <1>2, <1>3, <1>4, <1>5, <1>6 DEF RoomInv

LEMMA ScheduleRoom ==
  ASSUME NEW most \in Nat, Room(most), Inv, RoomInv(most), error = "none", Schedule
  PROVE  RoomInv(most)'
  <1>1. /\ SchedulerTypes /\ ThreadTypes /\ ProgressInv /\ CountInv
        /\ QueuesInv /\ WaitingInv /\ LengthInv /\ RoomyInv(most) /\ FlightInv /\ CopiesInv
    BY DEF Inv, RoomInv
  <1>2. UNCHANGED <<wsq, string_stopped, execution_queue, sampled_queue, schedule_queue, out_pc, out,
                    sampled>>
    BY DEF Schedule, stage, output_thread
  <1>3. Advances /\ (Moves \/ Grows \/ Preempts \/ Ignores \/ Admits)
    BY <1>1, ScheduleKinds DEF Schedule
  <1>4. phase # "publish" /\ phase' # "publish"
    BY <1>3 DEF Advances
  <1>5. free_blocks > 0 /\ waiting \in Seq(Requests) /\ block_tables \in [Requests -> Nat]
    BY <1>1, FreeBlock DEF SchedulerTypes
  <1>6. ~Preempts
    BY <1>5 DEF Preempts
  <1>7. ~Ignores
    <2> SUFFICES ASSUME Ignores  PROVE FALSE
      OBVIOUS
    <2>1. waiting # <<>> /\ TooLong(Head(waiting))
      BY DEF Ignores
    <2>2. Head(waiting) \in Requests /\ Head(waiting) \in Range(waiting)
      BY <1>5, <2>1, TailList
    <2>3. sq[Head(waiting)].status = "waiting"
      BY <1>1, <2>2 DEF WaitingInv
    <2>4. QED  BY <1>1, <2>1, <2>2, <2>3, HasRoom DEF Live
  <1>8. UNCHANGED <<sq, ignored, preempted>>
    BY <1>3, <1>6, <1>7 DEF Moves, Grows, Admits
  <1>9. QueuesInv' /\ LengthInv'
    BY <1>1, <1>2, <1>4, <1>8 DEF QueuesInv, LengthInv, Live
  <1>10. FlightInv'
    BY <1>1, <1>2, <1>4, <1>8 DEF FlightInv, Apart
  <1>11. CopiesInv'
    <2>1. Ahead' = Ahead
      BY <1>2, <1>4 DEF Ahead
    <2>2. QED  BY <1>1, <1>2, <1>4, <1>8, <2>1 DEF CopiesInv, CopyInv
  <1>12. WaitingInv' /\ RoomyInv(most)'
    <2>1. CASE Moves
      <3>1. /\ UNCHANGED <<sq, waiting, free_blocks, block_tables>>
            /\ SeqsOf(batch') \subseteq SeqsOf(batch) \cup {s \in Requests : is_paused(s)}
        BY <2>1 DEF Moves
      <3>2. WaitingInv'
        BY <1>1, <3>1 DEF WaitingInv, is_paused
      <3>3. QED  BY <1>1, <3>1, <3>2 DEF RoomyInv
    <2>2. CASE Grows
      <3>1. PICK s \in Requests, n \in {0, 1} :
              /\ is_paused(s) /\ SeqsOf(batch') = SeqsOf(batch) \cup {s}
              /\ free_blocks' = free_blocks - n
              /\ block_tables' = [block_tables EXCEPT ![s] = block_tables[s] + n]
              /\ n = 1 => block_tables[s] < get_num_blocks(s)
        BY <2>2 DEF Grows
      <3>2. waiting' = waiting
        BY <2>2 DEF Grows
      <3>3. sq[s].status = "paused" /\ s \notin Range(waiting)
        BY <1>1, <3>1 DEF WaitingInv, is_paused
      <3>4. \A r \in Requests : r # s => block_tables'[r] = block_tables[r]
        BY <1>5, <3>1
      <3>5. WaitingInv'
        <4>1. Range(waiting) \subseteq Requests
          BY <1>5, RangeIsSubset
        <4>2. QED  BY <1>1, <1>8, <3>1, <3>2, <3>3, <3>4, <4>1 DEF WaitingInv
      <3>6. get_num_blocks(s) <= most /\ get_num_blocks(s) \in Nat /\ block_tables[s] \in Nat
            /\ block_tables[s] <= most
        BY <1>1, <3>3, HasRoom, LengthTypes DEF Live, RoomyInv
      <3>7. block_tables'[s] <= most
        <4>1. block_tables'[s] = block_tables[s] + n
          BY <1>5, <3>1
        <4>2. QED  BY <3>1, <3>6, <4>1
      <3>8. free_blocks' + Total(block_tables') = num_gpu_blocks
        <4>1. block_tables[s] + n \in Nat
          BY <3>6
        <4>2. /\ Total([block_tables EXCEPT ![s] = block_tables[s] + n]) \in Nat
              /\ Total([block_tables EXCEPT ![s] = block_tables[s] + n]) + block_tables[s]
                   = Total(block_tables) + (block_tables[s] + n)
              /\ Total(block_tables) \in Nat
          BY <1>5, <4>1, BlocksMove
        <4>3. /\ Total(block_tables') \in Nat
              /\ Total(block_tables') + block_tables[s] = Total(block_tables) + (block_tables[s] + n)
          BY <3>1, <4>2, Zenon
        <4>4. /\ free_blocks \in Nat /\ num_gpu_blocks \in Nat
              /\ free_blocks + Total(block_tables) = num_gpu_blocks
          BY <1>1, TotalType DEF RoomyInv
        <4>5. QED  BY <3>1, <3>6, <4>2, <4>3, <4>4
      <3>9. RoomyInv(most)'
        BY <1>1, <3>4, <3>7, <3>8 DEF RoomyInv
      <3>10. QED  BY <3>5, <3>9
    <2>3. CASE Admits
      <3> DEFINE s == Head(waiting)
                 n == get_num_initial_blocks(s)
      <3>1. /\ waiting # <<>> /\ waiting' = Tail(waiting)
            /\ SeqsOf(batch') = SeqsOf(batch) \cup {s}
            /\ free_blocks' = free_blocks - n /\ block_tables' = [block_tables EXCEPT ![s] = n]
        BY <2>3 DEF Admits
      <3>2. /\ s \in Requests /\ s \in Range(waiting) /\ s \notin Range(waiting')
            /\ Range(waiting) = Range(waiting') \cup {s} /\ IsInjective(waiting')
        BY <1>1, <1>5, <3>1, TailList DEF WaitingInv
      <3>3. sq[s].status = "waiting" /\ block_tables[s] = 0
        BY <1>1, <3>2 DEF WaitingInv
      <3>4. n <= most /\ n \in Nat
        BY <1>1, <3>2, <3>3, HasRoom, LengthTypes DEF Live
      <3> HIDE DEF s, n
      <3>5. block_tables'[s] = n /\ \A r \in Requests : r # s => block_tables'[r] = block_tables[r]
        BY <1>5, <3>1, <3>2
      <3>6. WaitingInv'
        <4>1. Range(waiting) \subseteq Requests
          BY <1>5, RangeIsSubset
        <4>2. QED  BY <1>1, <1>8, <3>1, <3>2, <3>3, <3>5, <4>1 DEF WaitingInv
      <3>7. free_blocks' + Total(block_tables') = num_gpu_blocks
        <4>1. /\ Total([block_tables EXCEPT ![s] = n]) \in Nat
              /\ Total([block_tables EXCEPT ![s] = n]) + block_tables[s] = Total(block_tables) + n
              /\ Total(block_tables) \in Nat
          BY <1>5, <3>2, <3>4, BlocksMove
        <4>2. /\ Total(block_tables') \in Nat
              /\ Total(block_tables') + block_tables[s] = Total(block_tables) + n
          BY <3>1, <4>1, Zenon
        <4>3. /\ free_blocks \in Nat /\ num_gpu_blocks \in Nat
              /\ free_blocks + Total(block_tables) = num_gpu_blocks
          BY <1>1, TotalType DEF RoomyInv
        <4>4. QED  BY <3>1, <3>3, <3>4, <4>1, <4>2, <4>3
      <3>8. RoomyInv(most)'
        BY <1>1, <3>4, <3>5, <3>7 DEF RoomyInv
      <3>9. QED  BY <3>6, <3>8
    <2>4. QED  BY <1>3, <1>6, <1>7, <2>1, <2>2, <2>3
  <1>13. wsq' \in [Requests -> SequenceType]
    BY <1>2 DEF RoomInv
  <1>14. QED  BY <1>9, <1>10, <1>11, <1>12, <1>13 DEF RoomInv

LEMMA AddRequestRoom ==
  ASSUME NEW most \in Nat, Room(most), Inv, RoomInv(most), error = "none", AddRequest
  PROVE  RoomInv(most)'
  <1>1. /\ SchedulerTypes /\ ThreadTypes
        /\ QueuesInv /\ WaitingInv /\ LengthInv /\ RoomyInv(most) /\ FlightInv /\ CopiesInv
        /\ wsq \in [Requests -> SequenceType]
    BY DEF Inv, RoomInv
  <1>2. PICK s \in Requests, n \in Prompts : add_seq(s, n)
    BY DEF AddRequest
  <1>3. /\ sq[s].status = "absent"
        /\ sq' = [sq EXCEPT ![s] = NewSequence(n)] /\ waiting' = Append(waiting, s)
        /\ wsq' = [r \in Requests |-> IF wsq[r] = Absent THEN sq'[r] ELSE wsq[r]]
        /\ UNCHANGED <<free_blocks, block_tables, phase, batch, ignored, preempted, error>>
        /\ UNCHANGED <<string_stopped, execution_queue, sampled_queue, schedule_queue, out_pc, out,
                       sampled>>
    BY <1>2 DEF AddRequest, add_seq, manager, outputs, output_thread
  <1>4. /\ sq \in [Requests -> SequenceType] /\ waiting \in Seq(Requests)
        /\ out \in OutputsType /\ Prompts \subseteq Nat \ {0} /\ max_tokens \in Nat \ {0}
    BY <1>1, RequestsAssumption DEF SchedulerTypes, ThreadTypes
  <1>5. /\ sq'[s] = NewSequence(n) /\ \A r \in Requests : r # s => sq'[r] = sq[r]
    BY <1>3, <1>4
  <1>6. /\ NewSequence(n) \in SequenceType
        /\ NewSequence(n).status = "waiting" /\ NewSequence(n).prompt = n
        /\ NewSequence(n).output = 0
    BY <1>4 DEF NewSequence, SequenceType
  <1>7. sq[s] = Absent /\ s \notin Range(waiting)
    BY <1>1, <1>3 DEF LengthInv, WaitingInv
  <1>8. QueuesInv'
    BY <1>1, <1>3 DEF QueuesInv
  <1>9. WaitingInv'
    <2>1. Range(waiting') = Range(waiting) \cup {s} /\ IsInjective(waiting')
      BY <1>1, <1>3, <1>4, <1>7, AppendList DEF WaitingInv
    <2>2. Range(waiting) \subseteq Requests
      BY <1>4, RangeIsSubset
    <2>3. QED  BY <1>1, <1>3, <1>5, <1>6, <2>1, <2>2 DEF WaitingInv
  <1>10. LengthInv'
    <2>1. \A r \in Requests : r # s => (Live(r) <=> Live(r)')
      BY <1>5 DEF Live
    <2>2. QED  BY <1>1, <1>3, <1>4, <1>5, <1>6, <2>1 DEF LengthInv
  <1>11. RoomyInv(most)'
    BY <1>1, <1>3 DEF RoomyInv
  <1>12. \A r \in Requests : sq[r].status = "running" => sq'[r].status = "running"
    BY <1>3, <1>5
  <1>13. FlightInv'
    <2>1. /\ \A i \in DOMAIN schedule_queue : SeqsOf(schedule_queue[i].items) \subseteq Requests
          /\ SeqsOf(out.items) \subseteq Requests
      <3>1. \A i \in DOMAIN schedule_queue : schedule_queue[i] \in OutputsType
        BY <1>1 DEF ThreadTypes
      <3>2. QED  BY <1>4, <3>1, OutputsFields
    <2>2. SeqsOf(batch) \subseteq Requests
      <3>1. batch \in Seq(Items)
        BY <1>1 DEF SchedulerTypes
      <3>2. QED  BY <3>1, ItemOfBatch
    <2>3. QED  BY <1>1, <1>3, <1>12, <2>1, <2>2 DEF FlightInv, Apart
  <1>14. CopiesInv' /\ wsq' \in [Requests -> SequenceType]
    <2>1. Ahead' = Ahead
      BY <1>3 DEF Ahead
    <2>2. s \notin Ahead
      BY <1>1, <1>3, AheadRuns
    <2>3. out_pc = "sequences" => s \notin SeqsOf(out.items)
      BY <1>1, <1>3 DEF FlightInv
    <2>4. \A r \in Requests : CopyInv(r)
      BY <1>1 DEF CopiesInv
    <2>5. s \notin string_stopped /\ wsq[s] = Absent /\ wsq'[s] = sq'[s]
      <3>1. s \notin string_stopped
        BY <1>3, <2>4 DEF CopyInv
      <3>2. wsq[s] = sq[s]
        BY <2>2, <2>3, <2>4, <3>1, CompletedOther DEF CopyInv
      <3>3. QED  BY <1>3, <1>7, <3>1, <3>2
    <2>6. ASSUME NEW r \in Requests, r # s
          PROVE  wsq'[r] = wsq[r]
      <3> SUFFICES ASSUME wsq[r] = Absent  PROVE sq[r] = Absent
        BY <1>3, <1>5, <2>6
      <3>0. r \notin string_stopped
        <4>1. \A q : set_status(q, "paused") # Absent
          BY DEF set_status, Absent
        <4>2. QED  BY <2>4, <4>1 DEF CopyInv
      <3>1. CASE r \in Ahead
        <4>1. sq[r].status = "running"
          BY <1>1, <3>1, AheadRuns
        <4>2. sq[r].prompt \in Prompts
          BY <1>1, <2>6, <4>1 DEF LengthInv
        <4>3. sq[r].prompt = 0
          <5>1. sq[r] = set_status(Absent, "running")
            BY <2>4, <2>6, <3>0, <3>1 DEF CopyInv
          <5>2. set_status(Absent, "running").prompt = 0
            BY DEF set_status, Absent
          <5>3. QED  BY <5>1, <5>2
        <4>4. QED  BY <1>4, <4>2, <4>3
      <3>2. CASE r \notin Ahead /\ out_pc # "sequences"
        BY <2>4, <2>6, <3>0, <3>2 DEF CopyInv
      <3>3. CASE r \notin Ahead /\ out_pc = "sequences"
        <4> DEFINE t == SeenBy(sampled)
        <4>1. Completed(sq[r], out, t, r) = Absent
          BY <2>4, <2>6, <3>0, <3>3 DEF CopyInv
        <4> HIDE DEF t
        <4>2. CASE Completed(sq[r], out, t, r) = sq[r]
          BY <4>1, <4>2
        <4>3. CASE \E i \in DOMAIN out.items : Completed(sq[r], out, t, r)
                       = process_seq_output(sq[r], out.items[i].chunk, i \in t.stops)
          <5>1. Absent.status \in {"paused", "finished"}
            BY <4>1, <4>3 DEF process_seq_output
          <5>2. QED  BY <5>1 DEF Absent
        <4>4. QED  BY <4>2, <4>3, CompletedCases
      <3>4. QED  BY <3>1, <3>2, <3>3
    <2>7. wsq' \in [Requests -> SequenceType]
      <3>1. \A r \in Requests : wsq'[r] \in SequenceType
        BY <1>1, <1>5, <1>6, <2>5, <2>6
      <3>2. QED  BY <1>3, <3>1
    <2>8. ASSUME NEW r \in Requests
          PROVE  CopyInv(r)'
      <3>1. CASE r = s
        BY <1>3, <2>1, <2>2, <2>3, <2>5, <3>1, CompletedOther DEF CopyInv
      <3>2. CASE r # s
        BY <1>3, <1>5, <2>1, <2>4, <2>6, <2>8, <3>2 DEF CopyInv
      <3>3. QED  BY <3>1, <3>2
    <2>9. CopiesInv'
      BY <2>8 DEF CopiesInv
    <2>10. QED  BY <2>7, <2>9
  <1>15. QED  BY <1>8, <1>9, <1>10, <1>11, <1>13, <1>14 DEF RoomInv

LEMMA OnScheduleRoom ==
  ASSUME NEW most \in Nat, Room(most), Inv, RoomInv(most), error = "none", OnSchedule
  PROVE  RoomInv(most)'
  <1>1. /\ SchedulerTypes /\ ThreadTypes
        /\ QueuesInv /\ WaitingInv /\ LengthInv /\ RoomyInv(most) /\ FlightInv /\ CopiesInv
        /\ wsq \in [Requests -> SequenceType]
    BY DEF Inv, RoomInv
  <1>2. /\ phase = "done"
        /\ UNCHANGED <<waiting, free_blocks, block_tables, batch, ignored, preempted, wsq,
                       string_stopped, execution_queue, sampled_queue, schedule_queue, out_pc, out,
                       sampled>>
    BY DEF OnSchedule, manager, outputs, stage, output_thread
  <1>3. preempted = {} /\ ignored = {}
    BY <1>1 DEF QueuesInv
  <1>4. CASE batch = <<>>
    <2>1. phase' = "idle" /\ UNCHANGED <<sq, error>>
      BY <1>3, <1>4 DEF OnSchedule
    <2>2. QED  BY <1>2, <2>1, RoomFrame
  <1>5. CASE batch # <<>>
    <2>1. /\ phase' = "publish" /\ sq' = on_schedule(sq, batch, {})
          /\ error' = IF on_schedule_asserts(sq, batch, {}) THEN error ELSE "assertion"
      BY <1>3, <1>5 DEF OnSchedule
    <2>2. sq \in [Requests -> SequenceType] /\ batch \in Seq(Items) /\ out \in OutputsType
      BY <1>1 DEF SchedulerTypes, ThreadTypes
    <2>3. /\ \A s \in SeqsOf(batch) : sq'[s] = set_status(sq[s], "running")
          /\ \A s \in Requests : s \notin SeqsOf(batch) => sq'[s] = sq[s]
          /\ SeqsOf(batch) \subseteq Requests
      <3>1. SeqsOf(batch) \subseteq Requests
        BY <2>2, ItemOfBatch
      <3>2. QED  BY <2>1, <2>2, <3>1, OnScheduleSequence
    <2>4. \A q : /\ set_status(q, "running").status = "running"
                 /\ set_status(q, "running").prompt = q.prompt
                 /\ set_status(q, "running").output = q.output
      BY DEF set_status
    <2>5. error' = "none" => \A s \in SeqsOf(batch) : sq[s].status \in {"waiting", "paused"}
      BY <2>1 DEF on_schedule_asserts
    <2>6. QueuesInv'
      BY <1>1, <1>2, <1>5 DEF QueuesInv
    <2>7. WaitingInv'
      <3>1. Range(waiting) \subseteq Requests
        BY <1>1, RangeIsSubset DEF SchedulerTypes
      <3>2. QED  BY <1>1, <1>2, <2>3, <2>4, <3>1 DEF WaitingInv
    <2>8. LengthInv'
      <3> SUFFICES ASSUME error' = "none", NEW s \in Requests
                   PROVE  /\ sq'[s].status = "absent" => sq'[s] = Absent
                          /\ sq'[s].status # "absent" => sq'[s].prompt \in Prompts
                          /\ sq'[s].status = "waiting" => sq'[s].output = 0
                          /\ Live(s)' => sq'[s].output < max_tokens
        BY DEF LengthInv
      <3>1. CASE s \in SeqsOf(batch)
        BY <1>1, <2>3, <2>4, <2>5, <3>1 DEF LengthInv, Live
      <3>2. CASE s \notin SeqsOf(batch)
        BY <1>1, <2>3, <3>2 DEF LengthInv, Live
      <3>3. QED  BY <3>1, <3>2
    <2>9. RoomyInv(most)'
      BY <1>1, <1>2 DEF RoomyInv
    <2>10. /\ \A i \in DOMAIN schedule_queue : SeqsOf(schedule_queue[i].items) \subseteq Requests
           /\ SeqsOf(out.items) \subseteq Requests
      <3>1. \A i \in DOMAIN schedule_queue : schedule_queue[i] \in OutputsType
        BY <1>1 DEF ThreadTypes
      <3>2. QED  BY <2>2, <3>1, OutputsFields
    <2>11. FlightInv'
      <3>1. /\ \A i \in DOMAIN schedule_queue : \A s \in SeqsOf(schedule_queue[i].items) :
                 sq[s].status = "running"
            /\ out_pc = "sequences" => \A s \in SeqsOf(out.items) : sq[s].status = "running"
        BY <1>1 DEF FlightInv
      <3>2. /\ \A i \in DOMAIN schedule_queue : \A s \in SeqsOf(schedule_queue[i].items) :
                 sq'[s].status = "running"
            /\ out_pc = "sequences" => \A s \in SeqsOf(out.items) : sq'[s].status = "running"
        BY <2>3, <2>4, <2>10, <3>1
      <3>3. error' = "none" =>
              /\ \A i \in DOMAIN schedule_queue : SeqsOf(schedule_queue[i].items) \cap SeqsOf(batch) = {}
              /\ out_pc = "sequences" => SeqsOf(out.items) \cap SeqsOf(batch) = {}
        BY <2>5, <3>1
      <3>4. \A s \in SeqsOf(batch) : sq'[s].status = "running"
        BY <2>3, <2>4
      <3>5. QED  BY <1>1, <1>2, <3>2, <3>3, <3>4 DEF FlightInv, Apart
    <2>12. CopiesInv'
      <3> SUFFICES ASSUME error' = "none", NEW s \in Requests
                   PROVE  CopyInv(s)'
        BY <2>1 DEF CopiesInv
      <3>1. Ahead' = Ahead \cup SeqsOf(batch)
        BY <1>2, <2>1, <2>3 DEF Ahead
      <3>2. CopyInv(s)
        BY <1>1 DEF CopiesInv
      <3>3. CASE s \in SeqsOf(batch)
        <4>1. sq[s].status # "running"
          BY <2>5, <3>3
        <4>2. s \notin Ahead
          BY <1>1, <4>1, AheadRuns
        <4>3. out_pc = "sequences" => s \notin SeqsOf(out.items)
          BY <1>1, <4>1 DEF FlightInv
        <4>4. s \notin string_stopped /\ wsq[s] = sq[s]
          BY <2>5, <3>2, <3>3, <4>2, <4>3, CompletedOther DEF CopyInv
        <4>5. QED  BY <1>2, <2>3, <3>1, <3>3, <4>4 DEF CopyInv
      <3>4. CASE s \notin SeqsOf(batch)
        BY <1>2, <2>3, <3>1, <3>2, <3>4 DEF CopyInv
      <3>5. QED  BY <3>3, <3>4
    <2>13. QED
      BY <1>1, <1>2, <2>6, <2>7, <2>8, <2>9, <2>11, <2>12 DEF RoomInv
  <1>6. QED  BY <1>4, <1>5

(* Where the entries of a queue go. *)
LEMMA QueueEntries ==
  ASSUME NEW S, NEW l \in Seq(S), NEW x \in S
  PROVE  /\ \A i \in DOMAIN Append(l, x) : \/ i \in DOMAIN l /\ Append(l, x)[i] = l[i]
                                           \/ i = Len(l) + 1 /\ Append(l, x)[i] = x
         /\ \A i \in DOMAIN l : i \in DOMAIN Append(l, x) /\ Append(l, x)[i] = l[i]
         /\ Len(l) + 1 \in DOMAIN Append(l, x) /\ Append(l, x)[Len(l) + 1] = x
         /\ l # <<>> =>
              /\ 1 \in DOMAIN l /\ Head(l) = l[1] /\ Head(l) \in S
              /\ \A i \in DOMAIN Tail(l) :
                   i \in Nat \ {0} /\ i + 1 \in DOMAIN l /\ Tail(l)[i] = l[i + 1]
              /\ \A i \in DOMAIN l : i = 1 \/ (i - 1 \in DOMAIN Tail(l) /\ Tail(l)[i - 1] = l[i])
  <1>1. /\ \A i \in DOMAIN Append(l, x) : \/ i \in DOMAIN l /\ Append(l, x)[i] = l[i]
                                          \/ i = Len(l) + 1 /\ Append(l, x)[i] = x
    OBVIOUS
  <1>2. \A i \in DOMAIN l : i \in DOMAIN Append(l, x) /\ Append(l, x)[i] = l[i]
    OBVIOUS
  <1>3. Len(l) + 1 \in DOMAIN Append(l, x) /\ Append(l, x)[Len(l) + 1] = x
    OBVIOUS
  <1>4. ASSUME l # <<>>
        PROVE  /\ 1 \in DOMAIN l /\ Head(l) = l[1] /\ Head(l) \in S
               /\ \A i \in DOMAIN Tail(l) :
                    i \in Nat \ {0} /\ i + 1 \in DOMAIN l /\ Tail(l)[i] = l[i + 1]
               /\ \A i \in DOMAIN l : i = 1 \/ (i - 1 \in DOMAIN Tail(l) /\ Tail(l)[i - 1] = l[i])
    <2>1. Len(l) \in Nat \ {0} /\ DOMAIN l = 1 .. Len(l) /\ DOMAIN Tail(l) = 1 .. (Len(l) - 1)
      BY <1>4
    <2>2. 1 \in DOMAIN l /\ Head(l) = l[1] /\ Head(l) \in S
      BY <1>4, <2>1
    <2>3. \A i \in DOMAIN Tail(l) : Tail(l)[i] = l[i + 1]
      BY <1>4, <2>1
    <2>4. \A i \in DOMAIN Tail(l) : i \in Nat \ {0} /\ i + 1 \in DOMAIN l
      BY <2>1
    <2>5. \A i \in DOMAIN l : i = 1 \/ (i - 1 \in DOMAIN Tail(l) /\ (i - 1) + 1 = i)
      BY <2>1
    <2>6. QED  BY <2>2, <2>3, <2>4, <2>5
  <1>5. QED  BY <1>1, <1>2, <1>3, <1>4

(* The same for a queue m that has got x. *)
LEMMA QueueAppended ==
  ASSUME NEW S, NEW l \in Seq(S), NEW x \in S, NEW m, m = Append(l, x)
  PROVE  /\ \A i \in DOMAIN m : \/ i \in DOMAIN l /\ m[i] = l[i]
                                \/ i = Len(l) + 1 /\ m[i] = x
         /\ \A i \in DOMAIN l : i \in DOMAIN m /\ m[i] = l[i]
         /\ \E i \in DOMAIN m : m[i] = x
  <1>1. Len(l) \in Nat /\ DOMAIN l = 1 .. Len(l) /\ DOMAIN m = 1 .. (Len(l) + 1)
    OBVIOUS
  <1>2. (\A i \in 1 .. Len(l) : m[i] = l[i]) /\ m[Len(l) + 1] = x
    OBVIOUS
  <1>3. \A i \in DOMAIN m : i \in DOMAIN l \/ i = Len(l) + 1
    BY <1>1
  <1>4. Len(l) + 1 \in DOMAIN m /\ \A i \in DOMAIN l : i \in DOMAIN m
    BY <1>1
  <1>5. \A i \in DOMAIN l : m[i] = l[i]
    BY <1>1, <1>2
  <1>6. \E i \in DOMAIN m : m[i] = x
    BY <1>2, <1>4
  <1>7. \A i \in DOMAIN m : \/ i \in DOMAIN l /\ m[i] = l[i]
                            \/ i = Len(l) + 1 /\ m[i] = x
    BY <1>2, <1>3, <1>5
  <1>8. QED  BY <1>4, <1>5, <1>6, <1>7

LEMMA PublishRoom ==
  ASSUME NEW most \in Nat, Inv, RoomInv(most), error = "none", Publish
  PROVE  RoomInv(most)'
  <1>1. /\ SchedulerTypes /\ ThreadTypes
        /\ QueuesInv /\ WaitingInv /\ LengthInv /\ RoomyInv(most) /\ FlightInv /\ CopiesInv
        /\ wsq \in [Requests -> SequenceType]
    BY DEF Inv, RoomInv
  <1>2. batch # <<>>
    BY <1>1 DEF Publish, QueuesInv
  <1>3. /\ phase = "publish" /\ phase' = "idle"
        /\ schedule_queue' = Append(schedule_queue, Outputs)
        /\ execution_queue' = Append(execution_queue, Outputs)
        /\ batch' = <<>> /\ ignored' = {} /\ preempted' = {}
        /\ UNCHANGED <<sq, wsq, string_stopped, waiting, free_blocks, block_tables, error,
                       sampled_queue, out_pc, out, sampled>>
    BY <1>2 DEF Publish, manager, output_thread
  <1>4. PICK o \in OutputsType : o = Outputs
    BY <1>1, OutputsTyped
  <1>5. o.items = batch /\ o.preempted = {} /\ o.ignored = {}
    BY <1>1, <1>4 DEF Outputs, QueuesInv
  <1>6. /\ schedule_queue \in Seq(OutputsType) /\ execution_queue \in Seq(OutputsType)
        /\ sampled_queue \in Seq(OutputsType)
    BY <1>1 DEF ThreadTypes
  <1>7. SeqsOf(<<>>) = {}
    BY DEF SeqsOf
  <1>8. \A i \in DOMAIN schedule_queue' :
          \/ i \in DOMAIN schedule_queue /\ schedule_queue'[i] = schedule_queue[i]
          \/ i = Len(schedule_queue) + 1 /\ schedule_queue'[i] = o
    <2>1. schedule_queue' = Append(schedule_queue, o)
      BY <1>3, <1>4
    <2>2. QED  BY <1>6, <2>1, QueueAppended
  <1>9. /\ \A i \in DOMAIN execution_queue' :
             \/ i \in DOMAIN execution_queue /\ execution_queue'[i] = execution_queue[i]
             \/ execution_queue'[i] = o
        /\ \A i \in DOMAIN execution_queue :
             i \in DOMAIN execution_queue' /\ execution_queue'[i] = execution_queue[i]
        /\ \E i \in DOMAIN execution_queue' : execution_queue'[i] = o
    <2>1. execution_queue' = Append(execution_queue, o)
      BY <1>3, <1>4
    <2>2. QED  BY <1>6, <2>1, QueueAppended
  <1>10. QueuesInv'
    <2>1. schedule_queue' = sampled_queue' \o execution_queue'
      <3>1. schedule_queue = sampled_queue \o execution_queue
        BY <1>1 DEF QueuesInv
      <3>2. execution_queue' = Append(execution_queue, o)
        BY <1>3, <1>4
      <3>3. Append(schedule_queue, o) = sampled_queue \o execution_queue'
        BY <1>6, <3>1, <3>2, QueueGrows
      <3>4. QED  BY <1>3, <1>4, <3>3
    <2>2. QED  BY <1>1, <1>3, <1>5, <1>8, <2>1 DEF QueuesInv
  <1>11. WaitingInv'
    BY <1>1, <1>3, <1>7 DEF WaitingInv
  <1>12. LengthInv' /\ RoomyInv(most)'
    BY <1>1, <1>3 DEF LengthInv, Live, RoomyInv
  <1>13. FlightInv'
    <2>1. /\ \A i \in DOMAIN schedule_queue : Apart(schedule_queue[i], o) /\ Apart(o, schedule_queue[i])
          /\ out_pc = "sequences" => Apart(o, out)
          /\ \A s \in SeqsOf(o.items) : sq[s].status = "running"
      BY <1>1, <1>3, <1>5 DEF FlightInv, Apart
    <2>2. \A i, j \in DOMAIN schedule_queue' :
            i # j => Apart(schedule_queue'[i], schedule_queue'[j])
      BY <1>1, <1>8, <2>1 DEF FlightInv
    <2>3. out_pc = "sequences" => \A i \in DOMAIN schedule_queue' : Apart(schedule_queue'[i], out)
      BY <1>1, <1>8, <2>1 DEF FlightInv
    <2>4. \A i \in DOMAIN schedule_queue' : \A s \in SeqsOf(schedule_queue'[i].items) :
            sq[s].status = "running"
      BY <1>1, <1>8, <2>1 DEF FlightInv
    <2>5. out_pc = "sequences" => \A s \in SeqsOf(out.items) : sq[s].status = "running"
      BY <1>1 DEF FlightInv
    <2>6. QED  BY <1>3, <2>2, <2>3, <2>4, <2>5 DEF FlightInv, Apart
  <1>14. CopiesInv'
    <2>1. Ahead' = Ahead
      BY <1>3, <1>5, <1>9 DEF Ahead
    <2>2. QED  BY <1>1, <1>3, <2>1 DEF CopiesInv, CopyInv
  <1>15. QED  BY <1>1, <1>3, <1>10, <1>11, <1>12, <1>13, <1>14 DEF RoomInv

(* The first batch of a stage is in flight, and no longer ahead afterwards.  *)
LEMMA HeadExecuted ==
  ASSUME Inv, QueuesInv, FlightInv, error = "none", ExecuteModel
  PROVE  /\ \E i \in DOMAIN schedule_queue : schedule_queue[i] = Head(execution_queue)
         /\ SeqsOf(Head(execution_queue).items) \subseteq Ahead
         /\ Ahead' = Ahead \ SeqsOf(Head(execution_queue).items)
  <1>1. /\ execution_queue \in Seq(OutputsType) /\ sampled_queue \in Seq(OutputsType)
        /\ execution_queue # <<>> /\ schedule_queue = sampled_queue \o execution_queue
    BY DEF Inv, ThreadTypes, ExecuteModel, QueuesInv
  <1>2. PICK b \in OutputsType : b = Head(execution_queue)
    BY <1>1
  <1>3. execution_queue' = Tail(execution_queue) /\ UNCHANGED <<phase, batch>>
    BY DEF ExecuteModel, outputs
  <1>4. /\ 1 \in DOMAIN execution_queue /\ execution_queue[1] = b
        /\ \A i \in DOMAIN Tail(execution_queue) :
             i \in Nat \ {0} /\ i + 1 \in DOMAIN execution_queue
             /\ Tail(execution_queue)[i] = execution_queue[i + 1]
        /\ \A i \in DOMAIN execution_queue :
             i = 1 \/ (i - 1 \in DOMAIN Tail(execution_queue)
                       /\ Tail(execution_queue)[i - 1] = execution_queue[i])
    BY <1>1, <1>2, QueueEntries
  <1>5. \A i \in DOMAIN execution_queue :
          /\ Len(sampled_queue) + i \in DOMAIN schedule_queue
          /\ schedule_queue[Len(sampled_queue) + i] = execution_queue[i]
    BY <1>1, <1>2, QueueMoves
  <1>6. /\ Len(sampled_queue) + 1 \in DOMAIN schedule_queue
        /\ schedule_queue[Len(sampled_queue) + 1] = b
        /\ Len(sampled_queue) \in Nat
    BY <1>1, <1>4, <1>5
  <1>7. SeqsOf(b.items) \subseteq Ahead
    BY <1>2, <1>4, OutputsFields DEF Ahead
  <1>8. ASSUME NEW s \in SeqsOf(b.items)  PROVE s \notin Ahead'
    <2>1. \A i \in DOMAIN Tail(execution_queue) : s \notin SeqsOf(Tail(execution_queue)[i].items)
      <3> TAKE i \in DOMAIN Tail(execution_queue)
      <3>1. /\ i \in Nat \ {0} /\ i + 1 \in DOMAIN execution_queue
            /\ Tail(execution_queue)[i] = execution_queue[i + 1]
        BY <1>4
      <3>2. /\ Len(sampled_queue) + (i + 1) \in DOMAIN schedule_queue
            /\ schedule_queue[Len(sampled_queue) + (i + 1)] = Tail(execution_queue)[i]
        BY <1>5, <3>1
      <3>3. Len(sampled_queue) + (i + 1) # Len(sampled_queue) + 1
        BY <1>6, <3>1
      <3>4. QED  BY <1>6, <1>8, <3>2, <3>3 DEF FlightInv, Apart
    <2>2. phase = "publish" => s \notin SeqsOf(batch)
      BY <1>6, <1>8 DEF FlightInv
    <2>3. QED  BY <1>3, <2>1, <2>2 DEF Ahead
  <1>9. ASSUME NEW s \in Requests, s \notin SeqsOf(b.items)  PROVE s \in Ahead' <=> s \in Ahead
    <2>1. (\E i \in DOMAIN execution_queue : s \in SeqsOf(execution_queue[i].items))
          <=> \E i \in DOMAIN Tail(execution_queue) : s \in SeqsOf(Tail(execution_queue)[i].items)
      BY <1>4, <1>9
    <2>2. QED  BY <1>3, <2>1 DEF Ahead
  <1>10. Ahead' = Ahead \ SeqsOf(b.items)
    <2>1. Ahead \subseteq Requests /\ Ahead' \subseteq Requests
      BY DEF Ahead
    <2>2. QED  BY <1>8, <1>9, <2>1
  <1>11. QED  BY <1>2, <1>6, <1>7, <1>10

(* The stage sets running the sequences that the engine had set running. *)
LEMMA ExecuteModelRoom ==
  ASSUME NEW most \in Nat, Inv, RoomInv(most), error = "none", ExecuteModel
  PROVE  RoomInv(most)'
  <1>1. /\ SchedulerTypes /\ ThreadTypes
        /\ QueuesInv /\ WaitingInv /\ LengthInv /\ RoomyInv(most) /\ FlightInv /\ CopiesInv
        /\ wsq \in [Requests -> SequenceType]
    BY DEF Inv, RoomInv
  <1>2. /\ schedule_queue \in Seq(OutputsType) /\ execution_queue \in Seq(OutputsType)
        /\ sampled_queue \in Seq(OutputsType) /\ execution_queue # <<>>
        /\ schedule_queue = sampled_queue \o execution_queue
    BY <1>1 DEF ThreadTypes, ExecuteModel, QueuesInv
  <1>3. PICK b \in OutputsType : b = Head(execution_queue)
    BY <1>2
  <1>4. /\ wsq' = [s \in Requests |-> IF s \in b.ignored THEN set_status(wsq[s], "ignored")
                                      ELSE on_schedule(wsq, b.items, b.preempted)[s]]
        /\ execution_queue' = Tail(execution_queue) /\ sampled_queue' = Append(sampled_queue, b)
        /\ error' \in {error, "assertion"}
        /\ UNCHANGED <<sq, string_stopped, waiting, free_blocks, block_tables, phase, batch, ignored,
                       preempted, schedule_queue, out_pc, out, sampled>>
    BY <1>3 DEF ExecuteModel, manager, outputs, output_thread
  <1>5. /\ \E i \in DOMAIN schedule_queue : schedule_queue[i] = b
        /\ SeqsOf(b.items) \subseteq Ahead /\ Ahead' = Ahead \ SeqsOf(b.items)
    BY <1>1, <1>3, HeadExecuted
  <1>6. b.preempted = {} /\ b.ignored = {}
    BY <1>1, <1>5 DEF QueuesInv
  <1>7. \A s \in Requests :
          /\ wsq'[s] = IF s \in SeqsOf(b.items) THEN set_status(wsq[s], "running") ELSE wsq[s]
          /\ wsq'[s] \in SequenceType
    BY <1>1, <1>4, <1>6, OnScheduleSequence
  <1>8. wsq' \in [Requests -> SequenceType]
    BY <1>4, <1>7
  <1>9. QueuesInv'
    <2>1. Append(sampled_queue, Head(execution_queue)) \o Tail(execution_queue) = schedule_queue
      BY <1>2, <1>3, QueueMoves
    <2>2. schedule_queue' = sampled_queue' \o execution_queue'
      BY <1>3, <1>4, <2>1
    <2>3. QED  BY <1>1, <1>4, <2>2 DEF QueuesInv
  <1>10. WaitingInv' /\ RoomyInv(most)'
    BY <1>1, <1>4 DEF WaitingInv, RoomyInv
  <1>11. LengthInv'
    BY <1>1, <1>4 DEF LengthInv, Live
  <1>12. FlightInv'
    BY <1>1, <1>4 DEF FlightInv, Apart
  <1>13. CopiesInv'
    <2>1. \A s \in Requests : CopyInv(s)
      BY <1>1 DEF CopiesInv
    <2>2. ASSUME NEW s \in Requests
          PROVE  CopyInv(s)'
      <3>1. CASE s \in SeqsOf(b.items)
        <4>1. s \in Ahead /\ s \notin Ahead'
          BY <1>5, <3>1
        <4>2. sq[s].status = "running" /\ (out_pc = "sequences" => s \notin SeqsOf(out.items))
          BY <1>1, <4>1, AheadRuns
        <4>3. s \notin string_stopped /\ wsq'[s] = sq[s]
          BY <1>7, <2>1, <3>1, <4>1, <4>2 DEF CopyInv
        <4>4. QED  BY <1>4, <4>1, <4>2, <4>3, CompletedOther DEF CopyInv
      <3>2. CASE s \notin SeqsOf(b.items)
        <4>1. s \in Ahead' <=> s \in Ahead
          BY <1>5, <3>2
        <4>2. wsq'[s] = wsq[s]
          BY <1>7, <3>2
        <4>3. QED  BY <1>4, <2>1, <4>1, <4>2 DEF CopyInv
      <3>3. QED  BY <3>1, <3>2
    <2>3. QED  BY <1>4, <2>2 DEF CopiesInv
  <1>14. QED  BY <1>8, <1>9, <1>10, <1>11, <1>12, <1>13 DEF RoomInv

(* The output thread meets the schedule and the tokens of the same batch;    *)
(* the stage completes it first.                                             *)
LEMMA OutputReceiveRoom ==
  ASSUME NEW most \in Nat, Inv, RoomInv(most), error = "none", OutputReceive
  PROVE  RoomInv(most)'
  <1>1. /\ SchedulerTypes /\ ThreadTypes
        /\ QueuesInv /\ WaitingInv /\ LengthInv /\ RoomyInv(most) /\ FlightInv /\ CopiesInv
        /\ wsq \in [Requests -> SequenceType]
    BY DEF Inv, RoomInv
  <1>2. /\ out_pc = "get" /\ out_pc' = "sequences" /\ schedule_queue # <<>> /\ sampled_queue # <<>>
        /\ out' = Head(schedule_queue) /\ schedule_queue' = Tail(schedule_queue)
        /\ sampled'.of = Head(sampled_queue) /\ sampled_queue' = Tail(sampled_queue)
        /\ wsq' = on_step_completed(wsq, sampled'.stops \ sampled'.strings)
        /\ error' \in {error, "assertion"}
        /\ UNCHANGED <<sq, string_stopped, waiting, free_blocks, block_tables, phase, batch, ignored,
                       preempted, execution_queue>>
    BY DEF OutputReceive, on_sampling_completed, manager, outputs
  <1>3. /\ schedule_queue \in Seq(OutputsType) /\ execution_queue \in Seq(OutputsType)
        /\ sampled_queue \in Seq(OutputsType)
        /\ schedule_queue = sampled_queue \o execution_queue
    BY <1>1 DEF ThreadTypes, QueuesInv
  <1>4. out' \in OutputsType
    BY <1>2, <1>3
  <1>5. /\ 1 \in DOMAIN schedule_queue /\ schedule_queue[1] = out'
        /\ \A i \in DOMAIN schedule_queue' :
             i \in Nat \ {0} /\ i + 1 \in DOMAIN schedule_queue
             /\ schedule_queue'[i] = schedule_queue[i + 1]
    BY <1>2, <1>3, <1>4, QueueEntries
  <1>6. QueuesInv'
    <2>1. /\ Head(sampled_queue \o execution_queue) = Head(sampled_queue)
          /\ Tail(sampled_queue \o execution_queue) = Tail(sampled_queue) \o execution_queue
      BY <1>2, <1>3, <1>4, QueueMoves
    <2>2. schedule_queue' = sampled_queue' \o execution_queue' /\ sampled'.of = out'
      BY <1>2, <1>3, <2>1
    <2>3. \A i \in DOMAIN schedule_queue' :
            schedule_queue'[i].preempted = {} /\ schedule_queue'[i].ignored = {}
      BY <1>1, <1>5 DEF QueuesInv
    <2>4. QED  BY <1>1, <1>2, <2>2, <2>3 DEF QueuesInv
  <1>7. WaitingInv' /\ RoomyInv(most)'
    BY <1>1, <1>2 DEF WaitingInv, RoomyInv
  <1>8. LengthInv'
    BY <1>1, <1>2 DEF LengthInv, Live
  <1>9. FlightInv'
    <2>1. \A i, j \in DOMAIN schedule_queue' : i # j => Apart(schedule_queue'[i], schedule_queue'[j])
      <3> TAKE i, j \in DOMAIN schedule_queue'
      <3>1. /\ i + 1 \in DOMAIN schedule_queue /\ schedule_queue'[i] = schedule_queue[i + 1]
            /\ j + 1 \in DOMAIN schedule_queue /\ schedule_queue'[j] = schedule_queue[j + 1]
            /\ (i # j => i + 1 # j + 1)
        BY <1>5
      <3>2. QED  BY <1>1, <3>1 DEF FlightInv
    <2>2. \A i \in DOMAIN schedule_queue' : Apart(schedule_queue'[i], out')
      <3> TAKE i \in DOMAIN schedule_queue'
      <3>1. i + 1 \in DOMAIN schedule_queue /\ schedule_queue'[i] = schedule_queue[i + 1] /\ i + 1 # 1
        BY <1>5
      <3>2. QED  BY <1>1, <1>5, <3>1 DEF FlightInv
    <2>3. phase = "publish" =>
            /\ \A i \in DOMAIN schedule_queue' :
                 SeqsOf(schedule_queue'[i].items) \cap SeqsOf(batch) = {}
            /\ SeqsOf(out'.items) \cap SeqsOf(batch) = {}
            /\ \A s \in SeqsOf(batch) : sq[s].status = "running"
      BY <1>1, <1>5 DEF FlightInv
    <2>4. /\ \A i \in DOMAIN schedule_queue' : \A s \in SeqsOf(schedule_queue'[i].items) :
               sq[s].status = "running"
          /\ \A s \in SeqsOf(out'.items) : sq[s].status = "running"
      BY <1>1, <1>5 DEF FlightInv
    <2>5. QED  BY <1>2, <2>1, <2>2, <2>3, <2>4 DEF FlightInv, Apart
  <1>10. \A s \in Requests : wsq'[s] = Completed(wsq[s], out', SeenBy(sampled'), s)
    BY <1>2, OnStepCompleted
  <1>11. wsq' \in [Requests -> SequenceType]
    <2>1. \A s \in Requests : wsq'[s] \in SequenceType
      BY <1>1, <1>4, <1>10, CompletedType
    <2>2. wsq' = [s \in Requests |-> Completed(wsq[s], out', SeenBy(sampled'), s)]
      BY <1>2, OnStepCompleted
    <2>3. QED  BY <1>10, <2>1, <2>2
  <1>12. CopiesInv'
    <2>1. Ahead' = Ahead
      BY <1>2 DEF Ahead
    <2>2. \A s \in Requests : CopyInv(s)
      BY <1>1 DEF CopiesInv
    <2>3. ASSUME NEW s \in Requests, s \in Ahead \cup string_stopped
          PROVE  wsq'[s] = wsq[s]
      <3>1. s \in string_stopped => sq[s].status = "finished"
        BY <2>2 DEF CopyInv
      <3>2. \A r \in SeqsOf(out'.items) : sq[r].status = "running"
        BY <1>1, <1>5 DEF FlightInv
      <3>3. s \in Ahead => s \notin SeqsOf(out'.items)
        BY <1>1, <1>2, AheadRuns
      <3>4. s \notin SeqsOf(out'.items)
        BY <2>3, <3>1, <3>2, <3>3
      <3>5. QED  BY <1>10, <3>4, CompletedOther
    <2>4. ASSUME NEW s \in Requests
          PROVE  CopyInv(s)'
      <3>1. CASE s \in Ahead \cup string_stopped
        BY <1>2, <2>1, <2>2, <2>3, <3>1 DEF CopyInv
      <3>2. CASE s \notin Ahead \cup string_stopped
        <4>1. wsq[s] = sq[s]
          BY <1>2, <2>2, <3>2 DEF CopyInv
        <4>2. QED  BY <1>2, <1>10, <2>1, <3>2, <4>1 DEF CopyInv
      <3>3. QED  BY <3>1, <3>2
    <2>5. QED  BY <1>2, <2>4 DEF CopiesInv
  <1>13. QED  BY <1>6, <1>7, <1>8, <1>9, <1>11, <1>12 DEF RoomInv

(* What on_step_completed may do to a sequence, when its assertions hold. *)
LEMMA CompletedStep ==
  ASSUME NEW q \in SequenceType, NEW o \in OutputsType, NEW t, NEW s, Completed(q, o, t, s) # q,
         \A i \in DOMAIN o.items :
           i <= Len(t.of.items) /\ o.items[i].seq = s => q.status \in {"waiting", "running"}
  PROVE  /\ q.status = "running"
         /\ Completed(q, o, t, s).status \in {"paused", "finished"}
         /\ Completed(q, o, t, s).prompt = q.prompt
         /\ Completed(q, o, t, s).status = "paused" =>
              \/ Completed(q, o, t, s).output = q.output
              \/ Completed(q, o, t, s).output = q.output + 1 /\ q.output + 1 # max_tokens
  <1>1. PICK i \in DOMAIN o.items :
          /\ i <= Len(t.of.items) /\ o.items[i].seq = s /\ q.status # "waiting"
          /\ Completed(q, o, t, s) = process_seq_output(q, o.items[i].chunk, i \in t.stops)
    BY CompletedCases
  <1>2. q.status = "running"
    BY <1>1
  <1>3. \A c, stop :
          /\ process_seq_output(q, c, stop).status \in {"paused", "finished"}
          /\ process_seq_output(q, c, stop).prompt = q.prompt
          /\ process_seq_output(q, c, stop).status = "paused" =>
               \/ process_seq_output(q, c, stop).output = q.output
               \/ /\ process_seq_output(q, c, stop).output = q.output + 1
                  /\ q.output + 1 # max_tokens
    <2> TAKE c, stop
    <2>1. CASE q.processed < q.prompt
      BY <2>1 DEF process_seq_output
    <2>2. CASE ~(q.processed < q.prompt)
      BY <2>2 DEF process_seq_output
    <2>3. QED  BY <2>1, <2>2
  <1>4. QED  BY <1>1, <1>2, <1>3

(* Where the engine and the stage part, a stop string has ended the sequence *)
(* for the engine alone.                                                     *)
LEMMA SeenCompleted ==
  ASSUME NEW q, NEW o, NEW t, NEW s
  PROVE  \/ Completed(q, o, SeenBy(t), s) = Completed(q, o, t, s)
         \/ /\ Completed(q, o, t, s).status = "finished"
            /\ Completed(q, o, SeenBy(t), s) = set_status(Completed(q, o, t, s), "paused")
  <1> DEFINE mine == {i \in {i \in DOMAIN o.items : i <= Len(t.of.items)} :
                        o.items[i].seq = s /\ q.status # "waiting"}
             k == CHOOSE i \in mine : TRUE
             c == o.items[k].chunk
  <1>1. SeenBy(t).of = t.of /\ SeenBy(t).stops = t.stops \ t.strings
    BY DEF SeenBy
  <1>2. Completed(q, o, t, s) =
          IF mine = {} THEN q ELSE process_seq_output(q, c, k \in t.stops)
    BY Zenon DEF Completed, CompletedBy
  <1>3. Completed(q, o, SeenBy(t), s) =
          IF mine = {} THEN q ELSE process_seq_output(q, c, k \in t.stops \ t.strings)
    <2>1. Completed(q, o, SeenBy(t), s)
            = CompletedBy(q, o.items, Len(t.of.items), t.stops \ t.strings, s)
      BY <1>1 DEF Completed
    <2>2. CompletedBy(q, o.items, Len(t.of.items), t.stops \ t.strings, s) =
            IF mine = {} THEN q ELSE process_seq_output(q, c, k \in t.stops \ t.strings)
      BY Zenon DEF CompletedBy
    <2>3. QED  BY <2>1, <2>2, Zenon
  <1> HIDE DEF mine, k, c
  <1>4. CASE mine = {} \/ (k \in t.stops <=> k \in t.stops \ t.strings)
    BY <1>2, <1>3, <1>4
  <1>5. CASE mine # {} /\ k \in t.stops /\ k \notin t.stops \ t.strings
    <2>1. /\ Completed(q, o, t, s) = process_seq_output(q, c, TRUE)
          /\ Completed(q, o, SeenBy(t), s) = process_seq_output(q, c, FALSE)
      <3>1. (k \in t.stops) = TRUE /\ (k \in t.stops \ t.strings) = FALSE
        BY <1>5
      <3>2. QED  BY <1>2, <1>3, <1>5, <3>1, Zenon
    <2>2. \/ process_seq_output(q, c, FALSE) = process_seq_output(q, c, TRUE)
          \/ /\ process_seq_output(q, c, TRUE).status = "finished"
             /\ process_seq_output(q, c, FALSE)
                  = set_status(process_seq_output(q, c, TRUE), "paused")
      BY DEF process_seq_output, set_status
    <2>3. QED  BY <2>1, <2>2
  <1>6. QED  BY <1>4, <1>5

(* The engine completes the batch that the stage has completed. *)
LEMMA OutputSequencesRoom ==
  ASSUME NEW most \in Nat, Inv, RoomInv(most), error = "none", OutputSequences
  PROVE  RoomInv(most)'
  <1>1. /\ SchedulerTypes /\ ThreadTypes
        /\ QueuesInv /\ WaitingInv /\ LengthInv /\ RoomyInv(most) /\ FlightInv /\ CopiesInv
        /\ wsq \in [Requests -> SequenceType]
    BY DEF Inv, RoomInv
  <1>2. /\ out_pc = "sequences" /\ out_pc' = "free"
        /\ sq' = on_step_completed(sq, sampled.stops)
        /\ string_stopped' = string_stopped \cup
             {s \in Requests : /\ sq'[s].status = "finished"
                              /\ on_step_completed(sq, sampled.stops \ sampled.strings)[s].status
                                   # "finished"}
        /\ error' = IF on_step_completed_asserts(sq) THEN error ELSE "assertion"
        /\ UNCHANGED <<wsq, waiting, free_blocks, block_tables, phase, batch, ignored, preempted,
                       execution_queue, sampled_queue, schedule_queue, out, sampled>>
    BY DEF OutputSequences, manager, outputs, stage
  <1>3. sq \in [Requests -> SequenceType] /\ out \in OutputsType
    BY <1>1 DEF SchedulerTypes, ThreadTypes
  <1>4. \A s \in Requests : sq'[s] = Completed(sq[s], out, sampled, s)
    BY <1>2, OnStepCompleted
  <1>5. \A s \in Requests : s \notin SeqsOf(out.items) => sq'[s] = sq[s]
    BY <1>4, CompletedOther
  <1>6. \A s \in SeqsOf(out.items) : sq[s].status = "running"
    BY <1>1, <1>2 DEF FlightInv
  <1>7. ASSUME NEW s \in Requests, sq'[s] # sq[s]
        PROVE  /\ sq[s].status = "running" /\ sq'[s].status \in {"paused", "finished"}
               /\ sq'[s].prompt = sq[s].prompt
               /\ sq'[s].status = "paused" => \/ sq'[s].output = sq[s].output
                                              \/ /\ sq'[s].output = sq[s].output + 1
                                                 /\ sq[s].output + 1 # max_tokens
    <2>1. \A i \in DOMAIN out.items : out.items[i].seq = s => sq[s].status = "running"
      BY <1>6 DEF SeqsOf
    <2>2. sq[s] \in SequenceType /\ Completed(sq[s], out, sampled, s) # sq[s]
      BY <1>3, <1>4, <1>7
    <2>3. QED  BY <1>3, <1>4, <2>1, <2>2, CompletedStep
  <1>8. QueuesInv'
    BY <1>1, <1>2 DEF QueuesInv
  <1>9. WaitingInv'
    <2>1. Range(waiting) \subseteq Requests
      BY <1>1, RangeIsSubset DEF SchedulerTypes
    <2>2. \A s \in Requests : /\ sq[s].status = "waiting" => sq'[s] = sq[s]
                              /\ sq'[s].status = "absent" => sq'[s] = sq[s]
      BY <1>7
    <2>3. QED  BY <1>1, <1>2, <2>1, <2>2 DEF WaitingInv
  <1>10. LengthInv'
    <2> SUFFICES ASSUME NEW s \in Requests
                 PROVE  /\ sq'[s].status = "absent" => sq'[s] = Absent
                        /\ sq'[s].status # "absent" => sq'[s].prompt \in Prompts
                        /\ sq'[s].status = "waiting" => sq'[s].output = 0
                        /\ Live(s)' => sq'[s].output < max_tokens
      BY DEF LengthInv
    <2>1. CASE sq'[s] = sq[s]
      BY <1>1, <2>1 DEF LengthInv, Live
    <2>2. CASE sq'[s] # sq[s]
      <3>1. /\ sq[s].status = "running" /\ sq'[s].status \in {"paused", "finished"}
            /\ sq'[s].prompt = sq[s].prompt
            /\ sq'[s].status = "paused" => \/ sq'[s].output = sq[s].output
                                           \/ /\ sq'[s].output = sq[s].output + 1
                                              /\ sq[s].output + 1 # max_tokens
        BY <1>7, <2>2
      <3>2. sq[s].prompt \in Prompts /\ sq[s].output < max_tokens
        BY <1>1, <3>1 DEF LengthInv, Live
      <3>3. sq[s].output \in Nat /\ max_tokens \in Nat
        BY <1>3, RequestsAssumption, SequenceFields
      <3>4. sq'[s].status = "paused" => sq'[s].output < max_tokens
        BY <3>1, <3>2, <3>3
      <3>5. QED  BY <3>1, <3>2, <3>4 DEF Live
    <2>3. QED  BY <2>1, <2>2
  <1>11. RoomyInv(most)'
    BY <1>1, <1>2 DEF RoomyInv
  <1>12. FlightInv'
    <2>1. \A i \in DOMAIN schedule_queue : \A s \in SeqsOf(schedule_queue[i].items) :
            sq'[s].status = "running"
      <3> TAKE i \in DOMAIN schedule_queue
      <3> TAKE s \in SeqsOf(schedule_queue[i].items)
      <3>1. sq[s].status = "running" /\ s \notin SeqsOf(out.items)
        BY <1>1, <1>2 DEF FlightInv, Apart
      <3>2. schedule_queue[i] \in OutputsType
        BY <1>1 DEF ThreadTypes
      <3>3. s \in Requests
        BY <3>2, OutputsFields
      <3>4. QED  BY <1>5, <3>1, <3>3
    <2>2. phase = "publish" => \A s \in SeqsOf(batch) : sq'[s].status = "running"
      <3>1. SeqsOf(batch) \subseteq Requests
        BY <1>1, ItemOfBatch DEF SchedulerTypes
      <3>2. QED  BY <1>1, <1>2, <1>5, <3>1 DEF FlightInv
    <2>3. QED  BY <1>1, <1>2, <2>1, <2>2 DEF FlightInv, Apart
  <1>13. CopiesInv'
    <2>1. Ahead' = Ahead
      BY <1>2 DEF Ahead
    <2>2. \A s \in Requests : CopyInv(s)
      BY <1>1 DEF CopiesInv
    <2>3. \A s \in Requests :
            s \in string_stopped' <=>
              \/ s \in string_stopped
              \/ /\ sq'[s].status = "finished"
                 /\ Completed(sq[s], out, SeenBy(sampled), s).status # "finished"
      <3>1. \A s \in Requests :
              on_step_completed(sq, sampled.stops \ sampled.strings)[s]
                = Completed(sq[s], out, SeenBy(sampled), s)
        BY <1>2, OnStepCompleted
      <3>2. QED  BY <1>2, <3>1
    <2>4. ASSUME NEW s \in Requests
          PROVE  CopyInv(s)'
      <3>1. CASE s \in string_stopped
        <4>1. sq[s].status = "finished" /\ wsq[s] = set_status(sq[s], "paused")
          BY <2>2, <3>1 DEF CopyInv
        <4>2. sq'[s] = sq[s]
          BY <1>5, <1>6, <4>1
        <4>3. QED  BY <1>2, <2>3, <3>1, <4>1, <4>2 DEF CopyInv
      <3>2. CASE s \in Ahead /\ s \notin string_stopped
        <4>1. sq[s].status = "running" /\ s \notin SeqsOf(out.items)
          BY <1>1, <1>2, <3>2, AheadRuns
        <4>2. sq'[s] = sq[s] /\ s \notin string_stopped'
          BY <1>5, <2>3, <3>2, <4>1
        <4>3. QED  BY <1>2, <2>1, <2>2, <3>2, <4>2 DEF CopyInv
      <3>3. CASE s \notin Ahead /\ s \notin string_stopped
        <4>1. wsq[s] = Completed(sq[s], out, SeenBy(sampled), s)
          BY <1>2, <2>2, <3>3 DEF CopyInv
        <4>2. wsq[s] = sq'[s] \/ (sq'[s].status = "finished" /\ wsq[s] = set_status(sq'[s], "paused"))
          BY <1>4, <4>1, SeenCompleted
        <4>3. set_status(sq'[s], "paused").status = "paused"
          BY DEF set_status
        <4>4. IF s \in string_stopped'
              THEN sq'[s].status = "finished" /\ wsq[s] = set_status(sq'[s], "paused")
              ELSE wsq[s] = sq'[s]
          BY <2>3, <3>3, <4>1, <4>2, <4>3
        <4>5. QED  BY <1>2, <2>1, <3>3, <4>4 DEF CopyInv
      <3>4. QED  BY <3>1, <3>2, <3>3
    <2>5. QED  BY <2>4 DEF CopiesInv
  <1>14. QED
    BY <1>1, <1>2, <1>8, <1>9, <1>10, <1>11, <1>12, <1>13 DEF RoomInv

(* A finished sequence gives back all its blocks. *)
LEMMA OutputFreeRoom ==
  ASSUME NEW most \in Nat, Inv, RoomInv(most), error = "none", OutputFree
  PROVE  RoomInv(most)'
  <1>1. /\ SchedulerTypes /\ ThreadTypes
        /\ QueuesInv /\ WaitingInv /\ LengthInv /\ RoomyInv(most) /\ FlightInv /\ CopiesInv
        /\ wsq \in [Requests -> SequenceType]
    BY DEF Inv, RoomInv
  <1> DEFINE s == running[position]
             n == IF is_finished(s) THEN 0 ELSE block_tables[s]
  <1>2. /\ out_pc = "free" /\ position <= Len(running)
        /\ free_blocks' = free_blocks + (IF is_finished(s) THEN Credit(s, get_len(s)) ELSE 0)
        /\ block_tables' = [block_tables EXCEPT ![s] = n]
        /\ UNCHANGED <<sq, wsq, waiting, phase, batch, ignored, preempted, error>>
        /\ UNCHANGED <<string_stopped, execution_queue, sampled_queue, schedule_queue, out_pc, out,
                       sampled>>
    BY DEF OutputFree, outputs, stage
  <1>3. s \in Requests
    <2>1. running \in Seq(Requests) /\ position \in Nat /\ position >= 1
      BY <1>1, <1>2 DEF SchedulerTypes, ThreadTypes
    <2>2. position \in DOMAIN running
      BY <1>2, <2>1
    <2>3. QED  BY <2>1, <2>2
  <1>4. block_tables[s] \in Nat /\ Credit(s, get_len(s)) = block_tables[s]
    BY <1>1, <1>3, LengthTypes
  <1>5. n \in Nat /\ n \in {0, block_tables[s]} /\ free_blocks \in Nat
        /\ block_tables \in [Requests -> Nat]
    BY <1>1, <1>4 DEF SchedulerTypes
  <1>6. free_blocks' + n = free_blocks + block_tables[s] /\ free_blocks' \in Nat
    BY <1>2, <1>4, <1>5
  <1> HIDE DEF s, n
  <1>7. \A r \in Requests : block_tables'[r] \in {0, block_tables[r]}
    BY <1>2, <1>3, <1>5
  <1>8. RoomyInv(most)'
    <2>1. /\ Total(block_tables) \in Nat /\ num_gpu_blocks \in Nat
          /\ free_blocks + Total(block_tables) = num_gpu_blocks
      BY <1>1, TotalType DEF RoomyInv
    <2>2. /\ Total([block_tables EXCEPT ![s] = n]) \in Nat
          /\ Total([block_tables EXCEPT ![s] = n]) + block_tables[s] = Total(block_tables) + n
      BY <1>3, <1>5, BlocksMove
    <2>3. /\ Total(block_tables') \in Nat
          /\ Total(block_tables') + block_tables[s] = Total(block_tables) + n
      BY <1>2, <2>2, Zenon
    <2>4. free_blocks' + Total(block_tables') = num_gpu_blocks
      BY <1>4, <1>5, <1>6, <2>1, <2>3
    <2>5. \A r \in Requests : block_tables'[r] <= most
      BY <1>1, <1>7 DEF RoomyInv
    <2>6. QED  BY <2>4, <2>5 DEF RoomyInv
  <1>9. WaitingInv'
    <2>1. Range(waiting) \subseteq Requests
      BY <1>1, RangeIsSubset DEF SchedulerTypes
    <2>2. QED  BY <1>1, <1>2, <1>7, <2>1 DEF WaitingInv
  <1>10. QueuesInv' /\ LengthInv'
    BY <1>1, <1>2 DEF QueuesInv, LengthInv, Live
  <1>11. FlightInv'
    BY <1>1, <1>2 DEF FlightInv, Apart
  <1>12. CopiesInv'
    <2>1. Ahead' = Ahead
      BY <1>2 DEF Ahead
    <2>2. QED  BY <1>1, <1>2, <2>1 DEF CopiesInv, CopyInv
  <1>13. QED  BY <1>1, <1>2, <1>8, <1>9, <1>10, <1>11, <1>12 DEF RoomInv

LEMMA RoomInit ==
  ASSUME NEW most \in Nat, Room(most), PipelineInit
  PROVE  RoomInv(most)
  <1>1. /\ Init /\ wsq = sq /\ schedule_queue = <<>> /\ execution_queue = <<>>
        /\ sampled_queue = <<>> /\ out_pc = "get" /\ string_stopped = {}
    BY DEF PipelineInit
  <1>2. /\ sq = [s \in Requests |-> Absent] /\ waiting = <<>> /\ batch = <<>> /\ phase = "idle"
        /\ ignored = {} /\ preempted = {} /\ free_blocks = num_gpu_blocks
        /\ block_tables = [s \in Requests |-> 0]
    BY <1>1 DEF Init
  <1>3. /\ Absent.status = "absent" /\ Absent \in SequenceType
    BY DEF Absent, SequenceType
  <1>4. /\ Range(<<>>) = {} /\ IsInjective(<<>>) /\ SeqsOf(<<>>) = {} /\ <<>> \o <<>> = <<>>
    BY DEF Range, IsInjective, SeqsOf
  <1>5. QueuesInv
    BY <1>1, <1>2, <1>4 DEF QueuesInv
  <1>6. WaitingInv
    BY <1>2, <1>3, <1>4 DEF WaitingInv
  <1>7. LengthInv
    BY <1>2, <1>3 DEF LengthInv, Live
  <1>8. RoomyInv(most)
    <2> DEFINE zero == [s \in Requests |-> 0]
    <2>1. UNION {{s} \X (1 .. zero[s]) : s \in Requests} = {}
      OBVIOUS
    <2>2. Total(block_tables) = 0
      BY <1>2, <2>1, FS_EmptySet DEF Total, SumOver
    <2>3. QED  BY <1>2, <2>2, CapacityAssumption DEF RoomyInv
  <1>9. FlightInv
    BY <1>1, <1>2 DEF FlightInv
  <1>10. CopiesInv
    BY <1>1, <1>2 DEF CopiesInv, CopyInv, Ahead
  <1>11. wsq \in [Requests -> SequenceType]
    BY <1>1, <1>2, <1>3
  <1>12. QED  BY <1>5, <1>6, <1>7, <1>8, <1>9, <1>10, <1>11 DEF RoomInv

LEMMA OutputThreadRoom ==
  ASSUME NEW most \in Nat, Inv, RoomInv(most), error = "none", OutputThread
  PROVE  RoomInv(most)'
  <1>1. CASE OutputComplete \/ OutputAssign
    <2>1. PICK l : Complete(l)
      BY <1>1 DEF OutputComplete, OutputAssign
    <2>2. out_pc # "sequences" /\ out_pc' = "get"
      BY <1>1 DEF OutputComplete, OutputAssign, Complete
    <2>3. UNCHANGED <<sq, wsq, string_stopped, waiting, free_blocks, block_tables, phase, batch,
                      ignored, preempted, error, schedule_queue, execution_queue, sampled_queue>>
      BY <2>1 DEF Complete, manager, outputs, stage
    <2>4. QED  BY <2>2, <2>3, RoomFrame
  <1>2. CASE OutputRemove
    <2>1. out_pc = "free" /\ out_pc' = "assign"
      BY <1>2 DEF OutputRemove
    <2>2. UNCHANGED <<sq, wsq, string_stopped, waiting, free_blocks, block_tables, phase, batch,
                      ignored, preempted, error, schedule_queue, execution_queue, sampled_queue, out, sampled>>
      BY <1>2 DEF OutputRemove, scheduler, manager, outputs, stage
    <2>3. QED  BY <2>1, <2>2, RoomFrame
  <1>3. QED
    BY <1>1, <1>2, OutputReceiveRoom, OutputSequencesRoom, OutputFreeRoom DEF OutputThread

LEMMA RoomNext ==
  ASSUME NEW most \in Nat, Room(most), Inv, RoomInv(most), [Next]_vars
  PROVE  RoomInv(most)'
  <1>1. CASE Next
    <2>1. error = "none"
      BY <1>1 DEF Next
    <2>2. CASE AddRequest
      BY <2>1, <2>2, AddRequestRoom
    <2>3. CASE TimePasses \/ ScheduleWakes
      <3>1. /\ phase = "idle" /\ phase' \in {"idle", "start"}
            /\ UNCHANGED <<sq, wsq, string_stopped, waiting, free_blocks, block_tables, batch,
                           ignored, preempted, error, schedule_queue, execution_queue,
                           sampled_queue, out_pc, out, sampled>>
        BY <2>3 DEF TimePasses, ScheduleWakes, Tick, manager, outputs, stage, output_thread
      <3>2. QED  BY <3>1, RoomFrame
    <2>4. CASE Schedule
      BY <2>1, <2>4, ScheduleRoom
    <2>5. CASE OnSchedule
      BY <2>1, <2>5, OnScheduleRoom
    <2>6. CASE Publish
      BY <2>1, <2>6, PublishRoom
    <2>7. CASE ExecuteModel
      BY <2>1, <2>7, ExecuteModelRoom
    <2>8. CASE OutputThread
      BY <2>1, <2>8, OutputThreadRoom
    <2>9. QED
      BY <1>1, <2>2, <2>3, <2>4, <2>5, <2>6, <2>7, <2>8 DEF Next, ScheduleThread
  <1>2. CASE UNCHANGED vars
    <2>1. UNCHANGED <<sq, wsq, string_stopped, waiting, free_blocks, block_tables, phase, batch,
                      ignored, preempted, error, schedule_queue, execution_queue, sampled_queue, out_pc, out, sampled>>
      BY <1>2 DEF vars, scheduler, manager, outputs, stage, output_thread
    <2>2. QED  BY <2>1, RoomFrame
  <1>3. QED  BY <1>1, <1>2

LEMMA RoomHolds ==
  ASSUME NEW most \in Nat, Room(most)
  PROVE  Spec => [](Inv /\ RoomInv(most))
  <1>1. PipelineInit => Inv /\ RoomInv(most)
    BY InvInit, RoomInit
  <1>2. (Inv /\ RoomInv(most)) /\ [Next]_vars => (Inv /\ RoomInv(most))'
    BY InvNext, RoomNext
  <1>3. QED  BY <1>1, <1>2, PTL DEF Spec

-----------------------------------------------------------------------------
(* Room for every request: what follows. *)

(* The batches in flight, wherever they are, have no sequence in common. *)
LEMMA InFlightApart ==
  ASSUME Inv, QueuesInv, FlightInv
  PROVE  InFlightOnce
  <1>1. /\ sampled_queue \in Seq(OutputsType) /\ execution_queue \in Seq(OutputsType)
        /\ out \in OutputsType
        /\ schedule_queue = sampled_queue \o execution_queue
    BY DEF Inv, ThreadTypes, QueuesInv
  <1> DEFINE e == execution_queue
             k == Len(sampled_queue)
             m == Len(execution_queue)
             (* where entry i of InFlight is in schedule_queue *)
             at(i) == IF i <= m THEN k + i ELSE i - m
             last == IF out_pc = "sequences" THEN <<out>> ELSE <<>>
  <1>2. k \in Nat /\ m \in Nat
    BY <1>1
  <1>3. /\ last \in Seq(OutputsType) /\ Len(last) \in {0, 1}
        /\ Len(last) = 1 => out_pc = "sequences" /\ last[1] = out
    BY <1>1
  <1>4. InFlight = (e \o sampled_queue) \o last /\ InFlight \in Seq(OutputsType)
        /\ Len(InFlight) = (m + k) + Len(last)
    BY <1>1, <1>3 DEF InFlight
  <1>5. /\ \A i \in DOMAIN e : k + i \in DOMAIN schedule_queue /\ schedule_queue[k + i] = e[i]
        /\ \A i \in DOMAIN sampled_queue :
             i \in DOMAIN schedule_queue /\ schedule_queue[i] = sampled_queue[i]
    BY <1>1, QueueMoves
  <1>6. ASSUME NEW i \in DOMAIN InFlight
        PROVE  \/ /\ i \in 1 .. m + k
                  /\ at(i) \in DOMAIN schedule_queue /\ InFlight[i] = schedule_queue[at(i)]
               \/ /\ i = (m + k) + 1
                  /\ out_pc = "sequences" /\ InFlight[i] = out
    <2>1. i \in Nat /\ i >= 1 /\ i <= (m + k) + Len(last)
      BY <1>4
    <2>2. CASE i <= m
      <3>1. i \in DOMAIN e
        BY <1>1, <2>1, <2>2
      <3>2. InFlight[i] = e[i]
        BY <1>1, <1>3, <1>4, <2>1, <2>2
      <3>3. QED  BY <1>2, <1>5, <2>1, <2>2, <3>1, <3>2
    <2>3. CASE i > m /\ i <= m + k
      <3>1. i - m \in DOMAIN sampled_queue
        BY <1>1, <1>2, <2>1, <2>3
      <3>2. InFlight[i] = sampled_queue[i - m]
        BY <1>1, <1>3, <1>4, <2>1, <2>3
      <3>3. QED  BY <1>2, <1>5, <2>1, <2>3, <3>1, <3>2
    <2>4. CASE i > m + k
      <3>1. Len(last) = 1 /\ i = (m + k) + 1
        BY <1>2, <1>3, <2>1, <2>4
      <3>2. InFlight[i] = last[1]
        BY <1>1, <1>3, <1>4, <2>1, <3>1
      <3>3. QED  BY <1>3, <3>1, <3>2
    <2>5. QED  BY <1>2, <2>1, <2>2, <2>3, <2>4
  <1>7. \A i, j \in 1 .. m + k : i # j => at(i) # at(j)
    BY <1>2
  <1> HIDE DEF e, k, m, at, last
  <1>8. SUFFICES ASSUME NEW i \in DOMAIN InFlight, NEW j \in DOMAIN InFlight, i # j
                 PROVE  SeqsOf(InFlight[i].items) \cap SeqsOf(InFlight[j].items) = {}
    BY DEF InFlightOnce
  <1>9. CASE i \in 1 .. m + k /\ at(i) \in DOMAIN schedule_queue
             /\ InFlight[i] = schedule_queue[at(i)]
    <2>1. CASE j \in 1 .. m + k /\ at(j) \in DOMAIN schedule_queue
               /\ InFlight[j] = schedule_queue[at(j)]
      BY <1>7, <1>8, <1>9, <2>1 DEF FlightInv, Apart
    <2>2. CASE out_pc = "sequences" /\ InFlight[j] = out
      BY <1>9, <2>2 DEF FlightInv, Apart
    <2>3. QED  BY <1>6, <2>1, <2>2
  <1>10. CASE i = (m + k) + 1 /\ out_pc = "sequences" /\ InFlight[i] = out
    <2>1. CASE j \in 1 .. m + k /\ at(j) \in DOMAIN schedule_queue
               /\ InFlight[j] = schedule_queue[at(j)]
      BY <1>10, <2>1 DEF FlightInv, Apart
    <2>2. CASE j = (m + k) + 1
      BY <1>8, <1>10, <2>2
    <2>3. QED  BY <1>6, <2>1, <2>2
  <1>11. QED  BY <1>6, <1>9, <1>10

(* When the cache has room for every request, the output thread pairs every  *)
(* batch with the tokens sampled for it, although the two come through       *)
(* different queues: no schedule is published without a batch.               *)
THEOREM OutputsMatchBatchHolds ==
  ASSUME NEW most \in Nat, Room(most)
  PROVE  Spec => []OutputsMatchBatch
  <1>1. RoomInv(most) => OutputsMatchBatch
    BY DEF RoomInv, QueuesInv, OutputsMatchBatch
  <1>2. QED  BY <1>1, RoomHolds, PTL

(* When the cache has room for every request, no two batches in flight have  *)
(* a sequence in common, however the threads interleave: schedule() keeps    *)
(* away from what on_schedule set running until on_step_completed.           *)
THEOREM InFlightOnceHolds ==
  ASSUME NEW most \in Nat, Room(most)
  PROVE  Spec => []InFlightOnce
  <1>1. Inv /\ RoomInv(most) => InFlightOnce
    BY InFlightApart DEF RoomInv
  <1>2. QED  BY <1>1, RoomHolds, PTL

(* When the cache has room for every request, a stage's copy of a sequence   *)
(* that is not in flight is the engine's, though each completes a step at a  *)
(* time of its own; where a stop string ended the engine's, the stage's has  *)
(* the same tokens and stays PAUSED.                                         *)
THEOREM StagesAgreeHolds ==
  ASSUME NEW most \in Nat, Room(most)
  PROVE  Spec => []StagesAgree
  <1>1. Inv /\ RoomInv(most) => StagesAgree
    <2> SUFFICES ASSUME Inv, RoomInv(most), out_pc = "get", phase = "idle", NEW s \in Requests,
                        \A i \in DOMAIN InFlight : s \notin SeqsOf(InFlight[i].items)
                 PROVE  wsq[s] = IF s \in string_stopped THEN set_status(sq[s], "paused") ELSE sq[s]
      BY DEF StagesAgree
    <2>1. execution_queue \in Seq(OutputsType) /\ sampled_queue \in Seq(OutputsType)
      BY DEF Inv, ThreadTypes
    <2>2. InFlight = (execution_queue \o sampled_queue) \o <<>>
      BY <2>1 DEF InFlight
    <2>3. InFlight = execution_queue \o sampled_queue
      BY <2>1, <2>2
    <2>4. \A i \in DOMAIN execution_queue : i \in DOMAIN InFlight /\ InFlight[i] = execution_queue[i]
      BY <2>1, <2>3
    <2>5. s \notin Ahead
      BY <2>4 DEF Ahead
    <2>6. QED  BY <2>5 DEF RoomInv, CopiesInv, CopyInv
  <1>2. QED  BY <1>1, RoomHolds, PTL

-----------------------------------------------------------------------------
(* No thread is interrupted between the two halves of remove_finished_seqs,  *)
(* and sarathi has one chunk size, at least max_num_seqs.                    *)

OneChunk == Len(chunk_sizes) = 1 /\ max_num_seqs <= chunk_sizes[1]

(* A sequence is in one list of the schedule thread, once. *)
ListsInv ==
  /\ IsInjective(running) /\ IsInjective(kept) /\ IsInjective(prefills)
  /\ Range(waiting) \cap Range(running) = {}
  /\ Range(waiting) \cap Range(kept) = {}
  /\ Range(waiting) \cap Range(prefills) = {}
  /\ Range(running) \cap Range(kept) = {}
  /\ Range(running) \cap Range(prefills) = {}
  /\ Range(kept) \cap Range(prefills) = {}
  /\ \A s \in Range(running) \cup Range(kept) \cup Range(prefills) : sq[s].status # "absent"

(* Where schedule() stands. *)
ControlInv ==
  /\ phase \in {"idle", "start", "decodes", "done", "publish"} => kept = <<>> /\ prefills = <<>>
  /\ phase = "waiting" \/ (phase = "running" /\ policy # "sarathi") => prefills = <<>>
  /\ phase \in {"prefills", "waiting"} /\ policy = "sarathi" => running = <<>>
  /\ phase = "decodes" => policy \in {"orca", "faster_transformer"}
  /\ phase = "prefills" => policy \in {"sarathi", "simple_chunking"}
  /\ out_pc # "assign"

(* The policies that schedule a prompt as a whole. *)
Whole == policy \in {"vllm", "orca", "faster_transformer"}

(* What a sequence has processed. *)
PromptInv ==
  \A s \in Requests :
    /\ sq[s].processed <= sq[s].prompt
    /\ sq[s].status = "waiting" => sq[s].processed = 0
    /\ Whole /\ sq[s].status = "paused" => sq[s].processed = sq[s].prompt

(* The step of sequence q, with the given chunk, passes the assertions. *)
Fitting(q, chunk) ==
  /\ process_asserts(q, chunk)
  /\ Whole /\ q.processed < q.prompt => q.processed + chunk = q.prompt

(* Every item of a batch fits, and no sequence is there twice. *)
Sound(items) ==
  /\ \A i, j \in DOMAIN items : items[i].seq = items[j].seq => i = j
  /\ \A i \in DOMAIN items : Fitting(sq[items[i].seq], items[i].chunk)

(* The batch that schedule() is putting together. *)
BatchInv ==
  /\ Sound(batch)
  /\ phase # "publish" => \A s \in SeqsOf(batch) : sq[s].status \in {"waiting", "paused"}
  /\ phase = "running" => SeqsOf(batch) \cap Range(running) = {}
  /\ SeqsOf(batch) \cap Range(prefills) = {}

(* The batches in flight. *)
SoundInv ==
  /\ \A i \in DOMAIN schedule_queue : Sound(schedule_queue[i].items)
  /\ out_pc = "sequences" => Sound(out.items)

(* A decode takes one token of the chunk; there are no more of them than     *)
(* sequences that run.                                                       *)
TokensInv ==
  /\ batch = <<>> => num_batched_tokens = 0
  /\ policy = "sarathi" =>
       /\ Len(running) + Len(kept) + Len(prefills) <= max_num_seqs
       /\ phase \in {"running", "prefills", "waiting"} /\ (\A i \in DOMAIN batch : batch[i].chunk = 0)
            => num_batched_tokens <= Len(kept)
  /\ policy = "simple_chunking" /\ phase \in {"prefills", "waiting"} =>
       num_batched_tokens <= chunk_sizes[1]

(* The stage can set running what the engine has set running. *)
ResumeInv == \A s \in Ahead : wsq[s].status \in {"waiting", "paused"}

(* The parts about the lists of the schedule thread and the batch. *)
Parts == ListsInv /\ ControlInv /\ BatchInv /\ TokensInv

Consistent == Parts /\ PromptInv /\ SoundInv /\ ResumeInv

SafeInv == ~switches => error = "none" /\ Consistent

(* The chunk of a prompt that schedule() picks passes the assertions: what   *)
(* is left of the chunk size is not negative.                                *)
LEMMA NextChunkFits ==
  ASSUME SchedulerTypes, ProgressInv, PromptInv, TokensInv, OneChunk, error = "none",
         NEW s \in Requests, sq[s].processed < sq[s].prompt,
         phase \in {"prefills", "waiting"}, Whole => sq[s].processed = 0
  PROVE  /\ get_seq_next_num_prefill_tokens(s) \in Int
         /\ Whole => get_seq_next_num_prefill_tokens(s) # 0
         /\ get_seq_next_num_prefill_tokens(s) # 0 =>
              Fitting(sq[s], get_seq_next_num_prefill_tokens(s))
         /\ policy = "simple_chunking" =>
              num_batched_tokens + get_seq_next_num_prefill_tokens(s) <= chunk_sizes[1]
  <1> DEFINE n == get_seq_next_num_prefill_tokens(s)
             a == sq[s].prompt - sq[s].processed
             b == chunk_sizes[1] - num_batched_tokens
  <1>1. sq[s] \in SequenceType /\ num_batched_tokens \in Int /\ 0 <= sq[s].processed
    BY DEF SchedulerTypes, ProgressInv
  <1>2. sq[s].prompt \in Nat /\ sq[s].processed \in Nat
    BY <1>1, SequenceFields
  <1>3. chunk_sizes[1] \in Nat \ {0} /\ ChunkSize(s) = chunk_sizes[1]
    <2>1. ChunkSize(s) \in Nat \ {0} /\ ChunkSize(s) = chunk_sizes[1]
      BY <1>2, ChunkSizeRange DEF OneChunk
    <2>2. QED  BY <2>1
  <1>4. policy \in {"sarathi", "vllm", "simple_chunking", "orca", "faster_transformer"}
    BY Paged
  <1>5. n \in Int
    BY NextChunkType
  <1>6. CASE Whole
    <2>1. n = sq[s].prompt
      BY <1>2, <1>6 DEF Whole, get_seq_next_num_prefill_tokens, prompt_processing_finished
    <2>2. n # 0 /\ Fitting(sq[s], n)
      BY <1>2, <1>6, <2>1 DEF Fitting, process_asserts
    <2>3. QED  BY <1>5, <1>6, <2>2 DEF Whole
  <1>7. CASE policy \in {"sarathi", "simple_chunking"}
    <2>1. ~Whole
      BY <1>7 DEF Whole
    <2>2. a \in Int /\ a > 0 /\ b \in Int
      BY <1>1, <1>2, <1>3
    <2>3. Min({a, b}) = IF a <= b THEN a ELSE b
      BY <2>2, MinOfTwo
    <2>4. n = 0 \/ n = Min({a, b})
      BY <1>3, <1>7 DEF get_seq_next_num_prefill_tokens
    <2>5. n # 0 => b >= 0
      <3> SUFFICES ASSUME n # 0  PROVE b >= 0
        OBVIOUS
      <3>1. CASE policy = "sarathi"
        <4>1. \A i \in DOMAIN batch : batch[i].chunk = 0
          BY <3>1 DEF get_seq_next_num_prefill_tokens
        <4>2. num_batched_tokens <= Len(kept)
              /\ Len(running) + Len(kept) + Len(prefills) <= max_num_seqs
          BY <3>1, <4>1 DEF TokensInv
        <4>3. /\ Len(running) \in Nat /\ Len(kept) \in Nat /\ Len(prefills) \in Nat
              /\ max_num_seqs \in Nat /\ max_num_seqs <= chunk_sizes[1]
          BY LimitsAssumption DEF SchedulerTypes, OneChunk
        <4>4. QED  BY <1>1, <1>3, <4>2, <4>3
      <3>2. CASE policy = "simple_chunking"
        BY <1>1, <1>3, <3>2 DEF TokensInv
      <3>3. QED  BY <1>7, <3>1, <3>2
    <2>6. n # 0 => n > 0 /\ n <= a
      BY <2>2, <2>3, <2>4, <2>5
    <2>7. n # 0 => Fitting(sq[s], n)
      BY <1>2, <1>5, <2>1, <2>6 DEF Fitting, process_asserts
    <2>8. policy = "simple_chunking" => num_batched_tokens + n <= chunk_sizes[1]
      <3>1. policy = "simple_chunking" => num_batched_tokens <= chunk_sizes[1]
        BY DEF TokensInv
      <3>2. QED  BY <1>1, <1>3, <1>5, <2>2, <2>3, <2>4, <3>1
    <2>9. QED  BY <1>5, <2>1, <2>7, <2>8
  <1>8. QED  BY <1>4, <1>6, <1>7 DEF Whole

(* A batch with one more item. *)
LEMMA SoundAppend ==
  ASSUME batch \in Seq(Items), Sound(batch), NEW s \in Requests, NEW n \in Int,
         s \notin SeqsOf(batch), Fitting(sq[s], n), UNCHANGED <<sq, config>>,
         batch' = Append(batch, Item(s, n))
  PROVE  /\ Sound(batch)' /\ batch' # <<>> /\ SeqsOf(batch') = SeqsOf(batch) \cup {s}
         /\ (\A i \in DOMAIN batch' : batch'[i].chunk = 0) =>
              n = 0 /\ \A i \in DOMAIN batch : batch[i].chunk = 0
  <1>1. Adds(batch, batch', s, n)
    BY AppendItem
  <1>2. /\ batch' # <<>> /\ SeqsOf(batch') = SeqsOf(batch) \cup {s}
        /\ Len(batch) + 1 \in DOMAIN batch'
        /\ batch'[Len(batch) + 1].seq = s /\ batch'[Len(batch) + 1].chunk = n
        /\ \A i \in DOMAIN batch : i \in DOMAIN batch' /\ batch'[i] = batch[i]
        /\ \A i \in DOMAIN batch' : i \in DOMAIN batch \/ i = Len(batch) + 1
    BY <1>1 DEF Adds
  <1>3. \A i, j \in DOMAIN batch' : batch'[i].seq = batch'[j].seq => i = j
    BY <1>1 DEF Adds, Sound
  <1>4. \A i \in DOMAIN batch' : Fitting(sq[batch'[i].seq], batch'[i].chunk)
    BY <1>2 DEF Sound
  <1>5. \A q, c : Fitting(q, c)' <=> Fitting(q, c)
    BY DEF Fitting, process_asserts, Whole, policy
  <1>6. Sound(batch)'
    BY <1>3, <1>4, <1>5 DEF Sound, Fitting, process_asserts, Whole, policy
  <1>7. QED  BY <1>2, <1>6

LEMMA RunningKeepSafe ==
  ASSUME Inv, Parts, PromptInv, error = "none", out_pc' = out_pc, NEW s \in Requests, RunningKeep(s)
  PROVE  Parts' /\ error' = "none"
  <1>1. ListsInv /\ ControlInv /\ BatchInv /\ TokensInv /\ SchedulerTypes
    BY DEF Parts, Inv
  <1>2. /\ phase = "running" /\ running # <<>> /\ s = Head(running) /\ running' = Tail(running)
        /\ \/ prefills' = Append(prefills, s) /\ kept' = kept /\ policy = "sarathi"
           \/ kept' = Append(kept, s) /\ prefills' = prefills
        /\ ~Decodes(s) /\ error' = IF policy = "vllm" /\ is_paused(s) THEN "assertion" ELSE error
        /\ UNCHANGED <<sq, waiting, config, phase, batch, num_batched_tokens>>
    BY DEF RunningKeep, InRunning, outputs
  <1>3. /\ running \in Seq(Requests) /\ kept \in Seq(Requests) /\ prefills \in Seq(Requests)
    BY <1>1 DEF SchedulerTypes
  <1>4. /\ running' \in Seq(Requests) /\ Len(running') = Len(running) - 1
        /\ Range(running) = Range(running') \cup {s} /\ s \notin Range(running')
        /\ IsInjective(running')
    BY <1>1, <1>2, <1>3, TailList DEF ListsInv
  <1>5. /\ Range(Append(kept, s)) = Range(kept) \cup {s}
        /\ Range(Append(prefills, s)) = Range(prefills) \cup {s}
        /\ Len(Append(kept, s)) = Len(kept) + 1 /\ Len(Append(prefills, s)) = Len(prefills) + 1
        /\ IsInjective(Append(kept, s)) /\ IsInjective(Append(prefills, s))
    <2>1. s \notin Range(kept) /\ s \notin Range(prefills)
      BY <1>1, <1>4 DEF ListsInv
    <2>2. QED  BY <1>1, <1>3, <2>1, AppendList DEF ListsInv
  <1>6. ListsInv'
    <2>1. CASE prefills' = Append(prefills, s) /\ kept' = kept
      BY <1>1, <1>2, <1>4, <1>5, <2>1 DEF ListsInv
    <2>2. CASE kept' = Append(kept, s) /\ prefills' = prefills
      BY <1>1, <1>2, <1>4, <1>5, <2>2 DEF ListsInv
    <2>3. QED  BY <1>2, <2>1, <2>2
  <1>7. ControlInv'
    BY <1>1, <1>2 DEF ControlInv, policy
  <1>8. BatchInv'
    <2>1. Sound(batch)'
      BY <1>1, <1>2 DEF BatchInv, Sound, Fitting, process_asserts, Whole, policy
    <2>2. /\ SeqsOf(batch) \cap Range(running) = {} /\ SeqsOf(batch) \cap Range(prefills) = {}
          /\ \A r \in SeqsOf(batch) : sq[r].status \in {"waiting", "paused"}
      BY <1>1, <1>2 DEF BatchInv
    <2>3. SeqsOf(batch) \cap Range(running') = {} /\ SeqsOf(batch) \cap Range(prefills') = {}
      BY <1>2, <1>4, <1>5, <2>2
    <2>4. QED  BY <1>2, <2>1, <2>2, <2>3 DEF BatchInv
  <1>9. TokensInv'
    <2>1. Len(running) \in Nat /\ Len(kept) \in Nat /\ Len(prefills) \in Nat
          /\ num_batched_tokens \in Int
      BY <1>1, <1>3 DEF SchedulerTypes
    <2>2. /\ Len(kept) <= Len(kept')
          /\ Len(running') + Len(kept') + Len(prefills') = Len(running) + Len(kept) + Len(prefills)
          /\ Len(kept') \in Nat
      <3>1. CASE prefills' = Append(prefills, s) /\ kept' = kept
        <4>1. Len(prefills') = Len(prefills) + 1 /\ Len(kept') = Len(kept)
          BY <1>5, <3>1
        <4>2. QED  BY <1>4, <2>1, <4>1
      <3>2. CASE kept' = Append(kept, s) /\ prefills' = prefills
        <4>1. Len(prefills') = Len(prefills) /\ Len(kept') = Len(kept) + 1
          BY <1>5, <3>2
        <4>2. QED  BY <1>4, <2>1, <4>1
      <3>3. QED  BY <1>2, <3>1, <3>2
    <2>3. num_batched_tokens <= Len(kept) => num_batched_tokens <= Len(kept')
      BY <2>1, <2>2
    <2>4. QED  BY <1>1, <1>2, <2>2, <2>3 DEF TokensInv, policy
  <1>10. error' = "none"
    <2>1. policy = "vllm" /\ is_paused(s) => Decodes(s)
      BY DEF PromptInv, Whole, is_paused, Decodes, prompt_processing_finished
    <2>2. QED  BY <1>2, <2>1
  <1>11. QED  BY <1>6, <1>7, <1>8, <1>9, <1>10 DEF Parts

LEMMA RunningAppendSafe ==
  ASSUME Inv, Parts, PromptInv, error = "none", out_pc' = out_pc, NEW s \in Requests,
         RunningAppend(s)
  PROVE  Parts' /\ error' = "none"
  <1>1. ListsInv /\ ControlInv /\ BatchInv /\ TokensInv /\ SchedulerTypes
    BY DEF Parts, Inv
  <1>2. /\ phase = "running" /\ running # <<>> /\ s = Head(running) /\ running' = Tail(running)
        /\ kept' = Append(kept, s) /\ batch' = Append(batch, Item(s, 0)) /\ Decodes(s)
        /\ num_batched_tokens' = num_batched_tokens + (IF policy = "sarathi" THEN 1 ELSE 0)
        /\ UNCHANGED <<sq, waiting, config, phase, prefills, error>>
    BY DEF RunningAppend, InRunning
  <1>3. /\ running \in Seq(Requests) /\ kept \in Seq(Requests) /\ prefills \in Seq(Requests)
        /\ batch \in Seq(Items) /\ num_batched_tokens \in Int /\ sq[s] \in SequenceType
    BY <1>1 DEF SchedulerTypes
  <1>4. /\ running' \in Seq(Requests) /\ Len(running') = Len(running) - 1
        /\ Range(running) = Range(running') \cup {s} /\ s \notin Range(running')
        /\ IsInjective(running')
    BY <1>1, <1>2, <1>3, TailList DEF ListsInv
  <1>5. /\ Range(kept') = Range(kept) \cup {s} /\ Len(kept') = Len(kept) + 1 /\ IsInjective(kept')
    <2>1. s \notin Range(kept)
      BY <1>1, <1>4 DEF ListsInv
    <2>2. QED  BY <1>1, <1>2, <1>3, <2>1, AppendList DEF ListsInv
  <1>6. ListsInv'
    BY <1>1, <1>2, <1>4, <1>5 DEF ListsInv
  <1>7. ControlInv'
    BY <1>1, <1>2 DEF ControlInv, policy
  <1>8. /\ Sound(batch)' /\ batch' # <<>> /\ SeqsOf(batch') = SeqsOf(batch) \cup {s}
        /\ (\A i \in DOMAIN batch' : batch'[i].chunk = 0) => \A i \in DOMAIN batch : batch[i].chunk = 0
    <2>1. s \notin SeqsOf(batch) /\ Sound(batch)
      BY <1>1, <1>2, <1>4 DEF BatchInv
    <2>2. Fitting(sq[s], 0)
      <3>1. sq[s].processed = sq[s].prompt /\ sq[s].prompt \in Nat
        BY <1>2, <1>3, SequenceFields DEF Decodes, prompt_processing_finished
      <3>2. QED  BY <3>1 DEF Fitting, process_asserts
    <2>3. UNCHANGED <<sq, config>> /\ 0 \in Int
      BY <1>2
    <2>4. QED  BY <1>2, <1>3, <2>1, <2>2, <2>3, SoundAppend
  <1>9. BatchInv'
    <2>1. sq[s].status = "paused"
      BY <1>2 DEF Decodes, is_paused
    <2>2. /\ SeqsOf(batch) \cap Range(running) = {} /\ SeqsOf(batch) \cap Range(prefills) = {}
          /\ \A r \in SeqsOf(batch) : sq[r].status \in {"waiting", "paused"}
          /\ s \notin Range(prefills)
      BY <1>1, <1>2, <1>4 DEF BatchInv, ListsInv
    <2>3. SeqsOf(batch') \cap Range(running') = {} /\ SeqsOf(batch') \cap Range(prefills') = {}
      BY <1>2, <1>4, <1>8, <2>2
    <2>4. \A r \in SeqsOf(batch') : sq'[r].status \in {"waiting", "paused"}
      BY <1>2, <1>8, <2>1, <2>2
    <2>5. QED  BY <1>2, <1>8, <2>3, <2>4 DEF BatchInv
  <1>10. TokensInv'
    <2>1. Len(running) \in Nat /\ Len(kept) \in Nat /\ Len(prefills) \in Nat
      BY <1>3
    <2>2. Len(running') + Len(kept') + Len(prefills') = Len(running) + Len(kept) + Len(prefills)
      BY <1>2, <1>4, <1>5, <2>1
    <2>3. policy = "sarathi" /\ num_batched_tokens <= Len(kept) => num_batched_tokens' <= Len(kept')
      BY <1>2, <1>3, <1>5, <2>1
    <2>4. QED  BY <1>1, <1>2, <1>8, <2>2, <2>3 DEF TokensInv, policy
  <1>11. QED  BY <1>2, <1>6, <1>7, <1>9, <1>10 DEF Parts

(* The batch does not change. *)
LEMMA SoundSame ==
  ASSUME BatchInv, TokensInv, phase # "publish", phase' # "publish",
         UNCHANGED <<sq, config, batch, num_batched_tokens>>
  PROVE  /\ Sound(batch)' /\ \A s \in SeqsOf(batch') : sq'[s].status \in {"waiting", "paused"}
         /\ batch' = <<>> => num_batched_tokens' = 0
  BY DEF BatchInv, TokensInv, Sound, Fitting, process_asserts, Whole, policy

LEMMA ScheduleStartSafe ==
  ASSUME Inv, Parts, error = "none", out_pc' = out_pc, ScheduleStart
  PROVE  Parts' /\ error' = "none"
  <1>1. ListsInv /\ ControlInv /\ BatchInv /\ TokensInv /\ SchedulerTypes /\ CountInv
    BY DEF Parts, Inv
  <1>2. PICK sorted : sorted = sort_by_priority(running)
    OBVIOUS
  <1>3. /\ phase = "start" /\ UNCHANGED <<sq, waiting, config, kept, batch, num_batched_tokens, error>>
    BY DEF ScheduleStart, outputs
  <1>4. /\ batch = <<>> /\ kept = <<>> /\ prefills = <<>> /\ num_batched_tokens = 0
    BY <1>1, <1>3 DEF CountInv, ControlInv, TokensInv
  <1>5. \/ phase' \in {"done", "waiting", "decodes"} /\ UNCHANGED <<running, prefills>>
           /\ (phase' = "waiting" => policy = "vllm")
           /\ (phase' = "decodes" => policy \in {"orca", "faster_transformer"})
        \/ phase' = "running" /\ running' = sorted /\ prefills' = prefills
        \/ phase' = "prefills" /\ prefills' = sorted /\ running' = <<>> /\ policy = "simple_chunking"
    <2>1. CASE num_running_batches >= num_pipeline_stages
      BY <2>1 DEF ScheduleStart
    <2>2. CASE ~(num_running_batches >= num_pipeline_stages)
      <3>1. CASE policy = "sarathi"
        BY <1>2, <2>2, <3>1 DEF ScheduleStart
      <3>2. CASE policy = "vllm"
        BY <2>2, <3>2 DEF ScheduleStart
      <3>3. CASE policy = "simple_chunking" /\ turn = "prefill"
        BY <1>2, <2>2, <3>3 DEF ScheduleStart
      <3>4. CASE policy = "simple_chunking" /\ turn = "decode"
        BY <1>2, <2>2, <3>4 DEF ScheduleStart
      <3>5. CASE policy \in {"orca", "faster_transformer"}
        BY <2>2, <3>5 DEF ScheduleStart
      <3>6. QED  BY <1>1, <3>1, <3>2, <3>3, <3>4, <3>5, Paged DEF SchedulerTypes
    <2>3. QED  BY <2>1, <2>2
  <1>6. /\ sorted \in Seq(Requests) /\ Len(sorted) = Len(running) /\ Range(sorted) = Range(running)
        /\ IsInjective(sorted)
    BY <1>1, <1>2, RequestsAreNumbers, SortedList DEF SchedulerTypes, ListsInv
  <1>7. Range(<<>>) = {} /\ IsInjective(<<>>) /\ Len(<<>>) = 0 /\ SeqsOf(<<>>) = {}
    BY EmptyList DEF SeqsOf
  <1>8. ListsInv'
    <2>1. CASE UNCHANGED <<running, prefills>>
      BY <1>1, <1>3, <2>1 DEF ListsInv
    <2>2. CASE running' = sorted /\ prefills' = prefills
      BY <1>1, <1>3, <1>6, <2>2 DEF ListsInv
    <2>3. CASE prefills' = sorted /\ running' = <<>>
      BY <1>1, <1>3, <1>4, <1>6, <1>7, <2>3 DEF ListsInv
    <2>4. QED  BY <1>5, <2>1, <2>2, <2>3
  <1>9. ControlInv'
    BY <1>1, <1>3, <1>4, <1>5 DEF ControlInv, policy
  <1>10. BatchInv'
    BY <1>1, <1>3, <1>4, <1>5, <1>7, SoundSame DEF BatchInv
  <1>11. TokensInv'
    <2>1. Len(running) \in Nat /\ chunk_sizes[1] \in Nat
      BY <1>1, LimitsAssumption DEF SchedulerTypes
    <2>2. policy = "sarathi" => Len(running') + Len(kept') + Len(prefills') <= max_num_seqs
      <3>1. policy = "sarathi" => /\ Len(running') = Len(running) /\ Len(kept') = Len(kept)
                                  /\ Len(prefills') = Len(prefills)
        BY <1>3, <1>5, <1>6
      <3>2. QED  BY <1>1, <3>1 DEF TokensInv
    <2>3. num_batched_tokens' = 0 /\ Len(kept') = 0
      BY <1>3, <1>4, <1>7
    <2>4. QED  BY <1>3, <2>1, <2>2, <2>3 DEF TokensInv, policy
  <1>12. QED  BY <1>3, <1>8, <1>9, <1>10, <1>11 DEF Parts

LEMMA ScheduleDecodesSafe ==
  ASSUME Inv, Parts, PromptInv, error = "none", out_pc' = out_pc, ScheduleDecodes
  PROVE  Parts' /\ error' = "none"
  <1>1. ListsInv /\ ControlInv /\ BatchInv /\ TokensInv /\ SchedulerTypes /\ CountInv
    BY DEF Parts, Inv
  <1>2. PICK l : l = Those(running, {s \in Requests : is_paused(s)})
    OBVIOUS
  <1>3. /\ phase = "decodes" /\ batch' = [i \in DOMAIN l |-> Item(l[i], 0)]
        /\ error' = IF \A i \in DOMAIN l : prompt_processing_finished(l[i]) THEN error ELSE "assertion"
        /\ UNCHANGED <<sq, waiting, config, prefills, num_batched_tokens, running>>
        /\ phase' \in {"done", "waiting"} /\ kept' \in {<<>>, kept}
    BY <1>2 DEF ScheduleDecodes, Return
  <1>4. /\ batch = <<>> /\ kept = <<>> /\ prefills = <<>> /\ num_batched_tokens = 0
        /\ policy \in {"orca", "faster_transformer"}
    BY <1>1, <1>3 DEF CountInv, ControlInv, TokensInv
  <1>5. /\ l \in Seq(Requests) /\ Range(l) = Range(running) \cap {s \in Requests : is_paused(s)}
        /\ IsInjective(l)
    BY <1>1, <1>2, ThoseList DEF SchedulerTypes, ListsInv
  <1>6. /\ DOMAIN batch' = DOMAIN l /\ SeqsOf(batch') = Range(l)
        /\ \A i \in DOMAIN batch' : batch'[i].seq = l[i] /\ batch'[i].chunk = 0
    BY <1>3, <1>5, DecodeItems
  <1>7. \A i \in DOMAIN l : l[i] \in Requests /\ sq[l[i]].status = "paused"
    BY <1>5, RangeIsSubset DEF is_paused
  <1>8. \A i \in DOMAIN l : sq[l[i]].processed = sq[l[i]].prompt /\ sq[l[i]].prompt \in Nat
    <2>1. \A i \in DOMAIN l : sq[l[i]] \in SequenceType
      BY <1>1, <1>7 DEF SchedulerTypes
    <2>2. QED  BY <1>4, <1>7, <2>1, SequenceFields DEF PromptInv, Whole
  <1>9. error' = "none"
    BY <1>3, <1>8 DEF prompt_processing_finished
  <1>10. Sound(batch)'
    <2>1. \A i, j \in DOMAIN batch' : batch'[i].seq = batch'[j].seq => i = j
      BY <1>5, <1>6 DEF IsInjective
    <2>2. \A i \in DOMAIN batch' : sq'[batch'[i].seq].processed = sq'[batch'[i].seq].prompt
                                   /\ sq'[batch'[i].seq].prompt \in Nat
      BY <1>3, <1>6, <1>8
    <2>3. \A i \in DOMAIN batch' : ~(sq'[batch'[i].seq].processed < sq'[batch'[i].seq].prompt)
      BY <2>2
    <2>4. QED  BY <2>1, <2>3 DEF Sound, Fitting, process_asserts
  <1>11. Range(<<>>) = {}
    BY EmptyList
  <1>12. ListsInv' /\ kept' = <<>>
    <2>1. kept' = <<>>
      BY <1>3, <1>4
    <2>2. QED  BY <1>1, <1>3, <1>4, <2>1 DEF ListsInv
  <1>13. ControlInv'
    BY <1>1, <1>3, <1>4, <1>12 DEF ControlInv, policy
  <1>14. BatchInv'
    BY <1>3, <1>4, <1>5, <1>6, <1>10, <1>11 DEF BatchInv, is_paused
  <1>15. TokensInv'
    BY <1>3, <1>4 DEF TokensInv, policy
  <1>16. QED  BY <1>9, <1>12, <1>13, <1>14, <1>15 DEF Parts

LEMMA RunningEndSafe ==
  ASSUME Inv, Parts, error = "none", out_pc' = out_pc, RunningEnd
  PROVE  Parts' /\ error' = "none"
  <1>1. ListsInv /\ ControlInv /\ BatchInv /\ TokensInv /\ SchedulerTypes
    BY DEF Parts, Inv
  <1>2. /\ phase = "running" /\ running = <<>>
        /\ UNCHANGED <<sq, waiting, config, prefills, batch, num_batched_tokens, error>>
        /\ \/ policy = "sarathi" /\ phase' = "prefills" /\ UNCHANGED <<running, kept>>
           \/ policy # "sarathi" /\ phase' = "done" /\ running' = kept /\ kept' = <<>>
    BY DEF RunningEnd, Return, outputs
  <1>3. Range(<<>>) = {} /\ IsInjective(<<>>) /\ Len(<<>>) = 0 /\ Len(kept) \in Nat
    BY <1>1, EmptyList DEF SchedulerTypes
  <1>4. ListsInv'
    BY <1>1, <1>2, <1>3 DEF ListsInv
  <1>5. ControlInv'
    BY <1>1, <1>2 DEF ControlInv, policy
  <1>6. BatchInv'
    <2>1. /\ Sound(batch)' /\ \A s \in SeqsOf(batch') : sq'[s].status \in {"waiting", "paused"}
      BY <1>1, <1>2, SoundSame
    <2>2. QED  BY <1>1, <1>2, <2>1 DEF BatchInv
  <1>7. TokensInv'
    <2>1. policy # "simple_chunking" \/ phase' = "done"
      BY <1>2
    <2>2. policy = "sarathi" => UNCHANGED <<running, kept, prefills>>
      BY <1>2
    <2>3. QED  BY <1>1, <1>2, <2>1, <2>2 DEF TokensInv, policy
  <1>8. QED  BY <1>2, <1>4, <1>5, <1>6, <1>7 DEF Parts

LEMMA PrefillStepSafe ==
  ASSUME Inv, Parts, PromptInv, OneChunk, error = "none", out_pc' = out_pc, PrefillStep
  PROVE  Parts' /\ error' = "none"
  <1>1. ListsInv /\ ControlInv /\ BatchInv /\ TokensInv /\ SchedulerTypes /\ ProgressInv
    BY DEF Parts, Inv
  <1>2. PICK s : s = Head(prefills)
    OBVIOUS
  <1>3. PICK n : n = get_seq_next_num_prefill_tokens(s)
    OBVIOUS
  <1>4. /\ phase = "prefills" /\ prefills # <<>>
        /\ prefills' = Tail(prefills) /\ kept' = Append(kept, s)
        /\ \/ /\ is_paused(s) /\ ~prompt_processing_finished(s) /\ n # 0
              /\ batch' = Append(batch, Item(s, n))
              /\ num_batched_tokens' = num_batched_tokens + n
           \/ UNCHANGED <<batch, num_batched_tokens>>
        /\ error' = IF Stage(s) <= Len(chunk_sizes) THEN error ELSE "assertion"
        /\ UNCHANGED <<sq, waiting, running, config, phase>>
    BY <1>2, <1>3 DEF PrefillStep
  <1>5. /\ running \in Seq(Requests) /\ kept \in Seq(Requests) /\ prefills \in Seq(Requests)
        /\ batch \in Seq(Items) /\ num_batched_tokens \in Int /\ sq \in [Requests -> SequenceType]
    BY <1>1 DEF SchedulerTypes
  <1>6. /\ prefills' \in Seq(Requests) /\ s \in Requests /\ Len(prefills') = Len(prefills) - 1
        /\ Range(prefills) = Range(prefills') \cup {s} /\ s \notin Range(prefills')
        /\ IsInjective(prefills')
    BY <1>1, <1>2, <1>4, <1>5, TailList DEF ListsInv
  <1>7. /\ Range(kept') = Range(kept) \cup {s} /\ Len(kept') = Len(kept) + 1 /\ IsInjective(kept')
    <2>1. s \notin Range(kept)
      BY <1>1, <1>6 DEF ListsInv
    <2>2. QED  BY <1>1, <1>4, <1>5, <1>6, <2>1, AppendList DEF ListsInv
  <1>8. /\ sq[s] \in SequenceType /\ sq[s].prompt \in Nat /\ sq[s].processed \in Nat
    <2>1. 0 <= sq[s].processed /\ sq[s] \in SequenceType
      BY <1>1, <1>5, <1>6 DEF ProgressInv
    <2>2. QED  BY <2>1, SequenceFields
  <1>9. error' = "none"
    <2>1. Stage(s) = 1
      BY <1>6, <1>8, ChunkSizeRange DEF OneChunk
    <2>2. QED  BY <1>4, <2>1 DEF OneChunk
  <1>10. policy \in {"sarathi", "simple_chunking"}
    BY <1>1, <1>4 DEF ControlInv
  <1>11. ListsInv'
    BY <1>1, <1>4, <1>6, <1>7 DEF ListsInv
  <1>12. ControlInv'
    BY <1>1, <1>4 DEF ControlInv, policy
  <1>13. Len(running) \in Nat /\ Len(kept) \in Nat /\ Len(prefills) \in Nat
    BY <1>5
  <1>14. Len(running') + Len(kept') + Len(prefills') = Len(running) + Len(kept) + Len(prefills)
         /\ Len(kept) <= Len(kept')
    BY <1>4, <1>6, <1>7, <1>13
  <1>15. SeqsOf(batch) \cap Range(prefills) = {}
    BY <1>1 DEF BatchInv
  <1>16. CASE UNCHANGED <<batch, num_batched_tokens>>
    <2>1. /\ Sound(batch)' /\ \A r \in SeqsOf(batch') : sq'[r].status \in {"waiting", "paused"}
      BY <1>1, <1>4, <1>16, SoundSame
    <2>2. BatchInv'
      BY <1>4, <1>6, <1>15, <1>16, <2>1 DEF BatchInv
    <2>3. num_batched_tokens <= Len(kept) => num_batched_tokens <= Len(kept')
      BY <1>5, <1>7, <1>13, <1>14
    <2>4. TokensInv'
      BY <1>1, <1>4, <1>14, <1>16, <2>3 DEF TokensInv, policy
    <2>5. QED  BY <1>9, <1>11, <1>12, <2>2, <2>4 DEF Parts
  <1>17. CASE /\ is_paused(s) /\ ~prompt_processing_finished(s) /\ n # 0
              /\ batch' = Append(batch, Item(s, n))
              /\ num_batched_tokens' = num_batched_tokens + n
    <2>1. sq[s].processed < sq[s].prompt
      <3>1. sq[s].processed <= sq[s].prompt /\ sq[s].processed # sq[s].prompt
        BY <1>6, <1>17 DEF PromptInv, prompt_processing_finished
      <3>2. QED  BY <1>8, <3>1
    <2>2. ~Whole
      BY <1>10 DEF Whole
    <2>3. /\ n \in Int /\ Fitting(sq[s], n)
          /\ policy = "simple_chunking" => num_batched_tokens + n <= chunk_sizes[1]
      BY <1>1, <1>3, <1>4, <1>6, <1>17, <2>1, <2>2, NextChunkFits
    <2>4. UNCHANGED <<sq, config>> /\ s \notin SeqsOf(batch) /\ Sound(batch)
      BY <1>1, <1>4, <1>6, <1>15 DEF BatchInv
    <2>5. /\ Sound(batch)' /\ batch' # <<>> /\ SeqsOf(batch') = SeqsOf(batch) \cup {s}
          /\ ~(\A i \in DOMAIN batch' : batch'[i].chunk = 0)
      BY <1>5, <1>6, <1>17, <2>3, <2>4, SoundAppend
    <2>6. BatchInv'
      <3>1. SeqsOf(batch') \cap Range(prefills') = {}
        BY <1>6, <1>15, <2>5
      <3>2. \A r \in SeqsOf(batch') : sq'[r].status \in {"waiting", "paused"}
        BY <1>1, <1>4, <1>17, <2>5 DEF BatchInv, is_paused
      <3>3. QED  BY <1>4, <2>5, <3>1, <3>2 DEF BatchInv
    <2>7. TokensInv'
      BY <1>1, <1>4, <1>14, <1>17, <2>3, <2>5 DEF TokensInv, policy
    <2>8. QED  BY <1>9, <1>11, <1>12, <2>6, <2>7 DEF Parts
  <1>18. QED  BY <1>4, <1>16, <1>17

LEMMA PrefillsEndSafe ==
  ASSUME Inv, Parts, error = "none", out_pc' = out_pc, PrefillsEnd
  PROVE  Parts' /\ error' = "none"
  <1>1. ListsInv /\ ControlInv /\ BatchInv /\ TokensInv /\ SchedulerTypes
    BY DEF Parts, Inv
  <1>2. policy \in {"sarathi", "simple_chunking"}
    BY <1>1 DEF PrefillsEnd, ControlInv
  <1>3. /\ phase = "prefills" /\ prefills = <<>>
        /\ UNCHANGED <<sq, waiting, config, prefills, batch, num_batched_tokens, error>>
        /\ \/ policy = "sarathi" /\ phase' = "waiting" /\ UNCHANGED <<running, kept>>
           \/ /\ policy = "simple_chunking" /\ phase' \in {"done", "waiting"}
              /\ running' = kept /\ kept' = <<>>
    <2>1. CASE policy = "sarathi"
      BY <2>1 DEF PrefillsEnd
    <2>2. CASE policy = "simple_chunking" /\ batch # <<>>
      BY <2>2 DEF PrefillsEnd, Return
    <2>3. CASE policy = "simple_chunking" /\ batch = <<>>
      BY <2>3 DEF PrefillsEnd
    <2>4. QED  BY <1>2, <2>1, <2>2, <2>3
  <1>4. Range(<<>>) = {} /\ IsInjective(<<>>)
    BY EmptyList
  <1>5. ListsInv'
    BY <1>1, <1>3, <1>4 DEF ListsInv
  <1>6. ControlInv'
    BY <1>1, <1>3 DEF ControlInv, policy
  <1>7. BatchInv'
    <2>1. /\ Sound(batch)' /\ \A s \in SeqsOf(batch') : sq'[s].status \in {"waiting", "paused"}
      BY <1>1, <1>3, SoundSame
    <2>2. QED  BY <1>1, <1>3, <2>1 DEF BatchInv
  <1>8. TokensInv'
    <2>1. policy = "sarathi" => UNCHANGED <<running, kept, prefills>>
      BY <1>3
    <2>2. QED  BY <1>1, <1>3, <2>1 DEF TokensInv, policy
  <1>9. QED  BY <1>3, <1>5, <1>6, <1>7, <1>8 DEF Parts

LEMMA WaitingAdmitSafe ==
  ASSUME NEW most \in Nat, Inv, RoomInv(most), Parts, PromptInv, OneChunk, error = "none",
         out_pc' = out_pc, NEW s \in Requests, WaitingAdmit(s)
  PROVE  Parts' /\ error' = "none"
  <1>1. /\ ListsInv /\ ControlInv /\ BatchInv /\ TokensInv /\ SchedulerTypes /\ ProgressInv
        /\ WaitingInv /\ LengthInv
    BY DEF Parts, Inv, RoomInv
  <1>2. PICK n : n = get_seq_next_num_prefill_tokens(s)
    OBVIOUS
  <1>3. /\ phase = "waiting" /\ waiting # <<>> /\ s = Head(waiting) /\ waiting' = Tail(waiting)
        /\ \/ policy = "sarathi" /\ kept' = Append(kept, s) /\ running' = running
           \/ policy # "sarathi" /\ running' = Append(running, s) /\ kept' = kept
        /\ batch' = Append(batch, Item(s, n))
        /\ num_batched_tokens' = num_batched_tokens + (IF policy = "vllm" THEN get_len(s) ELSE n)
        /\ UNCHANGED <<sq, config, phase, prefills, error>>
        /\ policy \in {"sarathi", "simple_chunking"} => n # 0
        /\ policy = "sarathi" => Len(kept) < max_num_seqs
    BY <1>2, OneStage DEF OneChunk, WaitingAdmit, InWaiting, Fits, Running
  <1>4. /\ running \in Seq(Requests) /\ kept \in Seq(Requests) /\ waiting \in Seq(Requests)
        /\ batch \in Seq(Items) /\ num_batched_tokens \in Int /\ sq \in [Requests -> SequenceType]
    BY <1>1 DEF SchedulerTypes
  <1>5. /\ s \in Range(waiting) /\ Range(waiting) = Range(waiting') \cup {s}
        /\ s \notin Range(waiting')
    BY <1>1, <1>3, <1>4, TailList DEF WaitingInv
  <1>6. sq[s].status = "waiting" /\ s \notin SeqsOf(batch)
    BY <1>1, <1>5 DEF WaitingInv
  <1>7. sq[s].processed = 0 /\ sq[s].prompt \in Nat \ {0}
    BY <1>1, <1>6, RequestsAssumption DEF PromptInv, LengthInv
  <1>8. /\ Range(Append(kept, s)) = Range(kept) \cup {s}
        /\ Range(Append(running, s)) = Range(running) \cup {s}
        /\ Len(Append(kept, s)) = Len(kept) + 1
        /\ IsInjective(Append(kept, s)) /\ IsInjective(Append(running, s))
    <2>1. s \notin Range(kept) /\ s \notin Range(running)
      BY <1>1, <1>5 DEF ListsInv
    <2>2. QED  BY <1>1, <1>4, <2>1, AppendList DEF ListsInv
  <1>9. ListsInv'
    <2>1. CASE kept' = Append(kept, s) /\ running' = running
      BY <1>1, <1>3, <1>5, <1>6, <1>8, <2>1 DEF ListsInv
    <2>2. CASE running' = Append(running, s) /\ kept' = kept
      BY <1>1, <1>3, <1>5, <1>6, <1>8, <2>2 DEF ListsInv
    <2>3. QED  BY <1>3, <2>1, <2>2
  <1>10. ControlInv'
    BY <1>1, <1>3 DEF ControlInv, policy
  <1>11. /\ n \in Int /\ n # 0 /\ Fitting(sq[s], n)
         /\ policy = "simple_chunking" => num_batched_tokens + n <= chunk_sizes[1]
    <2>1. sq[s].processed < sq[s].prompt
      BY <1>7
    <2>2. /\ n \in Int /\ (Whole => n # 0) /\ (n # 0 => Fitting(sq[s], n))
          /\ policy = "simple_chunking" => num_batched_tokens + n <= chunk_sizes[1]
      BY <1>1, <1>2, <1>3, <1>7, <2>1, NextChunkFits
    <2>3. n # 0
      BY <1>1, <1>3, <2>2, Paged DEF Whole
    <2>4. QED  BY <2>2, <2>3
  <1>12. /\ Sound(batch)' /\ batch' # <<>> /\ SeqsOf(batch') = SeqsOf(batch) \cup {s}
         /\ ~(\A i \in DOMAIN batch' : batch'[i].chunk = 0)
    <2>1. UNCHANGED <<sq, config>> /\ Sound(batch)
      BY <1>1, <1>3 DEF BatchInv
    <2>2. QED  BY <1>3, <1>4, <1>6, <1>11, <2>1, SoundAppend
  <1>13. BatchInv'
    <2>1. prefills' = <<>> /\ Range(<<>>) = {}
      BY <1>1, <1>3, EmptyList DEF ControlInv
    <2>2. \A r \in SeqsOf(batch') : sq'[r].status \in {"waiting", "paused"}
      BY <1>1, <1>3, <1>6, <1>12 DEF BatchInv
    <2>3. QED  BY <1>3, <1>12, <2>1, <2>2 DEF BatchInv
  <1>14. TokensInv'
    <2>1. policy = "sarathi" => Len(running') + Len(kept') + Len(prefills') <= max_num_seqs
      <3> SUFFICES ASSUME policy = "sarathi"
                   PROVE  Len(running') + Len(kept') + Len(prefills') <= max_num_seqs
        OBVIOUS
      <3>1. running' = <<>> /\ prefills' = <<>> /\ Len(<<>>) = 0
        BY <1>1, <1>3, EmptyList DEF ControlInv
      <3>2. Len(kept') = Len(kept) + 1 /\ Len(kept) < max_num_seqs /\ Len(kept) \in Nat
            /\ max_num_seqs \in Nat
        BY <1>3, <1>4, <1>8, LimitsAssumption
      <3>3. QED  BY <3>1, <3>2
    <2>2. policy = "simple_chunking" => num_batched_tokens' <= chunk_sizes[1]
      BY <1>3, <1>11
    <2>3. QED  BY <1>3, <1>12, <2>1, <2>2 DEF TokensInv, policy
  <1>15. QED  BY <1>3, <1>9, <1>10, <1>13, <1>14 DEF Parts

LEMMA WaitingEndSafe ==
  ASSUME Inv, Parts, OneChunk, error = "none", out_pc' = out_pc, WaitingEnd
  PROVE  Parts' /\ error' = "none"
  <1>1. ListsInv /\ ControlInv /\ BatchInv /\ TokensInv /\ SchedulerTypes
    BY DEF Parts, Inv
  <1>2. PICK sorted : sorted = sort_by_priority(running)
    OBVIOUS
  <1>3. /\ phase = "waiting"
        /\ UNCHANGED <<sq, waiting, config, prefills, batch, num_batched_tokens, error>>
        /\ \/ policy = "sarathi" /\ phase' = "done" /\ running' = kept /\ kept' = <<>>
           \/ policy # "sarathi" /\ phase' = "running" /\ running' = sorted /\ kept' = kept
              /\ batch = <<>>
           \/ policy # "sarathi" /\ phase' = "done" /\ running' = running /\ kept' = <<>>
    <2>0. error' = error
      BY OneStage DEF OneChunk, WaitingEnd
    <2>1. CASE policy = "sarathi"
      BY <2>0, <2>1 DEF WaitingEnd, Return
    <2>2. CASE policy \in {"vllm", "simple_chunking"} /\ batch = <<>> /\ ignored = {}
      BY <1>2, <2>0, <2>2 DEF WaitingEnd
    <2>3. CASE policy # "sarathi"
               /\ ~(policy \in {"vllm", "simple_chunking"} /\ batch = <<>> /\ ignored = {})
      BY <2>0, <2>3 DEF WaitingEnd, Return
    <2>4. QED  BY <2>1, <2>2, <2>3
  <1>4. /\ Len(sorted) = Len(running) /\ Range(sorted) = Range(running) /\ IsInjective(sorted)
    BY <1>1, <1>2, RequestsAreNumbers, SortedList DEF SchedulerTypes, ListsInv
  <1>5. Range(<<>>) = {} /\ IsInjective(<<>>) /\ Len(<<>>) = 0 /\ SeqsOf(<<>>) = {}
    BY EmptyList DEF SeqsOf
  <1>6. ListsInv'
    <2>1. CASE running' = kept /\ kept' = <<>>
      BY <1>1, <1>3, <1>5, <2>1 DEF ListsInv
    <2>2. CASE running' = sorted /\ kept' = kept
      BY <1>1, <1>3, <1>4, <2>2 DEF ListsInv
    <2>3. CASE running' = running /\ kept' = <<>>
      BY <1>1, <1>3, <1>5, <2>3 DEF ListsInv
    <2>4. QED  BY <1>3, <2>1, <2>2, <2>3
  <1>7. ControlInv'
    BY <1>1, <1>3 DEF ControlInv, policy
  <1>8. BatchInv'
    <2>1. /\ Sound(batch)' /\ \A s \in SeqsOf(batch') : sq'[s].status \in {"waiting", "paused"}
      BY <1>1, <1>3, SoundSame
    <2>2. QED  BY <1>1, <1>3, <1>5, <2>1 DEF BatchInv
  <1>9. TokensInv'
    <2>1. policy = "sarathi" => Len(running') + Len(kept') + Len(prefills') <= max_num_seqs
      <3> SUFFICES ASSUME policy = "sarathi"
                   PROVE  Len(running') + Len(kept') + Len(prefills') <= max_num_seqs
        OBVIOUS
      <3>1. /\ running = <<>> /\ prefills = <<>> /\ prefills' = <<>> /\ running' = kept
            /\ kept' = <<>>
        BY <1>1, <1>3 DEF ControlInv
      <3>2. Len(running) + Len(kept) + Len(prefills) <= max_num_seqs
        BY <1>1 DEF TokensInv
      <3>3. Len(kept) \in Nat /\ max_num_seqs \in Nat
        BY <1>1, LimitsAssumption DEF SchedulerTypes
      <3>4. QED  BY <1>5, <3>1, <3>2, <3>3
    <2>2. QED  BY <1>1, <1>3, <2>1 DEF TokensInv, policy
  <1>10. QED  BY <1>3, <1>6, <1>7, <1>8, <1>9 DEF Parts

-----------------------------------------------------------------------------
(* No assertion fails, step by step. *)

(* A batch stays sound as long as its sequences make no progress. *)
LEMMA SoundStays ==
  ASSUME NEW items, Sound(items), config' = config,
         \A i \in DOMAIN items : /\ sq'[items[i].seq].processed = sq[items[i].seq].processed
                                 /\ sq'[items[i].seq].prompt = sq[items[i].seq].prompt
  PROVE  Sound(items)'
  BY DEF Sound, Fitting, process_asserts, Whole, policy

(* Steps that leave the sequences and the queues alone. *)
LEMMA FlightFrame ==
  ASSUME PromptInv, SoundInv, ResumeInv,
         UNCHANGED <<sq, wsq, config, schedule_queue, execution_queue>>,
         UNCHANGED <<out_pc, out>> \/ out_pc' # "sequences",
         \/ UNCHANGED <<phase, batch>>
         \/ phase # "publish" /\ phase' # "publish"
  PROVE  PromptInv' /\ SoundInv' /\ ResumeInv'
  <1>1. PromptInv'
    BY DEF PromptInv, Whole, policy
  <1>2. SoundInv'
    <2>1. CASE UNCHANGED <<out_pc, out>>
      BY <2>1 DEF SoundInv, Sound, Fitting, process_asserts, Whole, policy
    <2>2. CASE out_pc' # "sequences"
      BY <2>2 DEF SoundInv, Sound, Fitting, process_asserts, Whole, policy
    <2>3. QED  BY <2>1, <2>2
  <1>3. Ahead' = Ahead
    BY DEF Ahead
  <1>4. ResumeInv'
    BY <1>3 DEF ResumeInv
  <1>5. QED  BY <1>1, <1>2, <1>4

LEMMA ScheduleSafe ==
  ASSUME NEW most \in Nat, Room(most), OneChunk, Inv, RoomInv(most), Consistent, error = "none",
         Schedule
  PROVE  Consistent' /\ error' = "none"
  <1>1. /\ SchedulerTypes /\ ProgressInv /\ CountInv /\ WaitingInv /\ LengthInv /\ RoomyInv(most)
        /\ Parts /\ PromptInv /\ SoundInv /\ ResumeInv
    BY DEF Inv, RoomInv, Consistent
  <1>2. UNCHANGED <<wsq, execution_queue, schedule_queue, out_pc, out>>
    BY DEF Schedule, stage, output_thread
  <1>3. Advances /\ (Moves \/ Grows \/ Preempts \/ Ignores \/ Admits)
    BY <1>1, ScheduleKinds DEF Schedule
  <1>4. phase # "publish" /\ phase' # "publish" /\ config' = config
    BY <1>3 DEF Advances
  <1>5. free_blocks > 0 /\ waiting \in Seq(Requests)
    BY <1>1, FreeBlock DEF SchedulerTypes
  <1>6. waiting # <<>> => ~TooLong(Head(waiting))
    <2> SUFFICES ASSUME waiting # <<>>  PROVE ~TooLong(Head(waiting))
      OBVIOUS
    <2>1. Head(waiting) \in Requests /\ Head(waiting) \in Range(waiting)
      BY <1>5, TailList
    <2>2. sq[Head(waiting)].status = "waiting"
      BY <1>1, <2>1 DEF WaitingInv
    <2>3. QED  BY <1>1, <2>1, <2>2, HasRoom DEF Live
  <1>7. sq' = sq
    BY <1>3, <1>5, <1>6 DEF Moves, Grows, Admits, Preempts, Ignores
  <1>8. PromptInv' /\ SoundInv' /\ ResumeInv'
    BY <1>1, <1>2, <1>4, <1>7, FlightFrame
  <1>9. Parts' /\ error' = "none"
    <2>1. CASE ScheduleStart
      BY <1>1, <1>2, <2>1, ScheduleStartSafe
    <2>2. CASE ScheduleDecodes
      BY <1>1, <1>2, <2>2, ScheduleDecodesSafe
    <2>3. ASSUME NEW s \in Requests, RunningKeep(s) \/ RunningAppend(s)
          PROVE  Parts' /\ error' = "none"
      BY <1>1, <1>2, <2>3, RunningKeepSafe, RunningAppendSafe
    <2>4. ASSUME NEW s \in Requests  PROVE ~RunningPreempt(s)
      BY <1>1, <1>5, Paged DEF RunningPreempt, can_append_slot
    <2>5. CASE RunningEnd
      BY <1>1, <1>2, <2>5, RunningEndSafe
    <2>6. CASE PrefillStep
      BY <1>1, <1>2, <2>6, PrefillStepSafe
    <2>7. CASE PrefillsEnd
      BY <1>1, <1>2, <2>7, PrefillsEndSafe
    <2>8. ASSUME NEW s \in Requests, WaitingAdmit(s)
          PROVE  Parts' /\ error' = "none"
      BY <1>1, <1>2, <2>8, WaitingAdmitSafe
    <2>9. ASSUME NEW s \in Requests  PROVE ~WaitingIgnore(s)
      BY <1>6 DEF WaitingIgnore, InWaiting
    <2>10. CASE WaitingEnd
      BY <1>1, <1>2, <2>10, WaitingEndSafe
    <2>11. ScheduleStep
      BY DEF Schedule
    <2>12. QED
      BY <2>1, <2>2, <2>3, <2>4, <2>5, <2>6, <2>7, <2>8, <2>9, <2>10, <2>11 DEF ScheduleStep
  <1>10. QED  BY <1>8, <1>9 DEF Consistent

LEMMA AddRequestSafe ==
  ASSUME NEW most \in Nat, Inv, RoomInv(most), Consistent, error = "none", AddRequest
  PROVE  Consistent' /\ error' = "none"
  <1>1. /\ SchedulerTypes /\ ThreadTypes /\ QueuesInv /\ WaitingInv /\ LengthInv /\ FlightInv
        /\ ListsInv /\ ControlInv /\ BatchInv /\ TokensInv
        /\ PromptInv /\ SoundInv /\ ResumeInv
    BY DEF Inv, RoomInv, Consistent, Parts
  <1>2. PICK s \in Requests, n \in Prompts : add_seq(s, n)
    BY DEF AddRequest
  <1>3. /\ sq[s].status = "absent"
        /\ sq' = [sq EXCEPT ![s] = NewSequence(n)] /\ waiting' = Append(waiting, s)
        /\ wsq' = [r \in Requests |-> IF wsq[r] = Absent THEN sq'[r] ELSE wsq[r]]
        /\ UNCHANGED <<running, kept, prefills, config, phase, batch, num_batched_tokens, error>>
        /\ UNCHANGED <<execution_queue, schedule_queue, out_pc, out>>
    BY <1>2 DEF AddRequest, add_seq, manager, outputs, output_thread
  <1>4. /\ sq \in [Requests -> SequenceType] /\ waiting \in Seq(Requests) /\ out \in OutputsType
        /\ running \in Seq(Requests) /\ kept \in Seq(Requests) /\ prefills \in Seq(Requests)
        /\ batch \in Seq(Items) /\ schedule_queue \in Seq(OutputsType) /\ n \in Nat \ {0}
    BY <1>1, RequestsAssumption DEF SchedulerTypes, ThreadTypes
  <1>5. sq'[s] = NewSequence(n) /\ \A r \in Requests : r # s => sq'[r] = sq[r]
    BY <1>3, <1>4
  <1>6. /\ NewSequence(n).status = "waiting" /\ NewSequence(n).prompt = n
        /\ NewSequence(n).processed = 0
    BY DEF NewSequence
  <1>7. /\ s \notin Range(running) /\ s \notin Range(kept) /\ s \notin Range(prefills)
        /\ s \notin SeqsOf(batch)
    BY <1>1, <1>3 DEF ListsInv, WaitingInv
  <1>8. /\ Range(running) \subseteq Requests /\ Range(kept) \subseteq Requests
        /\ Range(prefills) \subseteq Requests /\ SeqsOf(batch) \subseteq Requests
        /\ Range(waiting') = Range(waiting) \cup {s}
    BY <1>3, <1>4, RangeIsSubset, ItemOfBatch, AppendList
  <1>9. ListsInv'
    <2>1. \A r \in Requests : sq[r].status # "absent" => sq'[r].status # "absent"
      BY <1>3, <1>5
    <2>2. QED  BY <1>1, <1>3, <1>7, <1>8, <2>1 DEF ListsInv
  <1>10. ControlInv' /\ TokensInv'
    BY <1>1, <1>3 DEF ControlInv, TokensInv, policy
  <1>11. PromptInv'
    BY <1>1, <1>3, <1>4, <1>5, <1>6 DEF PromptInv, Whole, policy
  <1>12. BatchInv'
    <2>1. PICK b : b = batch
      OBVIOUS
    <2>2. \A r \in SeqsOf(b) : sq'[r] = sq[r]
      BY <1>5, <1>7, <1>8, <2>1
    <2>3. Sound(b)'
      <3>1. \A i \in DOMAIN b : sq'[b[i].seq] = sq[b[i].seq]
        BY <2>2 DEF SeqsOf
      <3>2. Sound(b)
        BY <1>1, <2>1 DEF BatchInv
      <3>3. QED  BY <1>3, <3>1, <3>2, SoundStays
    <2>4. batch' = b
      BY <1>3, <2>1
    <2>5. Sound(batch)'
      BY <2>3, <2>4 DEF Sound, Fitting, process_asserts, Whole, policy
    <2>6. QED  BY <1>1, <1>3, <2>1, <2>2, <2>5 DEF BatchInv
  <1>13. SoundInv'
    <2>1. ASSUME NEW o \in OutputsType, Sound(o.items),
                 \A r \in SeqsOf(o.items) : sq[r].status = "running"
          PROVE  Sound(o.items)'
      <3>1. \A i \in DOMAIN o.items : o.items[i].seq \in SeqsOf(o.items) /\ o.items[i].seq \in Requests
        BY OutputsFields DEF SeqsOf
      <3>2. \A i \in DOMAIN o.items : sq'[o.items[i].seq] = sq[o.items[i].seq]
        BY <1>3, <1>5, <2>1, <3>1
      <3>3. PICK x : x = o.items
        OBVIOUS
      <3>4. Sound(x)'
        BY <1>3, <2>1, <3>2, <3>3, SoundStays
      <3>5. QED  BY <3>3, <3>4
    <2>2. \A i \in DOMAIN schedule_queue : Sound(schedule_queue[i].items)'
      <3> SUFFICES ASSUME NEW i \in DOMAIN schedule_queue
                   PROVE  Sound(schedule_queue[i].items)'
        OBVIOUS
      <3>1. PICK o : o = schedule_queue[i]
        OBVIOUS
      <3>2. o \in OutputsType /\ Sound(o.items) /\ \A r \in SeqsOf(o.items) : sq[r].status = "running"
        BY <1>1, <1>4, <3>1 DEF SoundInv, FlightInv
      <3>3. Sound(o.items)'
        BY <2>1, <3>2
      <3>4. schedule_queue'[i] = o
        BY <1>3, <3>1
      <3>5. QED  BY <3>3, <3>4 DEF Sound, Fitting, process_asserts, Whole, policy
    <2>3. out_pc = "sequences" => Sound(out.items)'
      <3> SUFFICES ASSUME out_pc = "sequences"  PROVE Sound(out.items)'
        OBVIOUS
      <3>1. PICK o : o = out
        OBVIOUS
      <3>2. o \in OutputsType /\ Sound(o.items) /\ \A r \in SeqsOf(o.items) : sq[r].status = "running"
        BY <1>1, <1>4, <3>1 DEF SoundInv, FlightInv
      <3>3. Sound(o.items)'
        BY <2>1, <3>2
      <3>4. out' = o
        BY <1>3, <3>1
      <3>5. QED  BY <3>3, <3>4 DEF Sound, Fitting, process_asserts, Whole, policy
    <2>4. QED  BY <1>3, <2>2, <2>3 DEF SoundInv
  <1>14. ResumeInv'
    <2>1. Ahead' = Ahead
      BY <1>3 DEF Ahead
    <2>2. \A r \in Ahead : wsq'[r] = wsq[r]
      <3>1. \A r \in Ahead : r \in Requests /\ wsq[r].status \in {"waiting", "paused"}
        BY <1>1 DEF ResumeInv, Ahead
      <3>2. Absent.status = "absent"
        BY DEF Absent
      <3>3. QED  BY <1>3, <3>1, <3>2
    <2>3. QED  BY <1>1, <2>1, <2>2 DEF ResumeInv
  <1>15. QED  BY <1>3, <1>9, <1>10, <1>11, <1>12, <1>13, <1>14 DEF Consistent, Parts

(* Steps that change the object of no sequence of batch o. *)
LEMMA SoundBatch ==
  ASSUME NEW o \in OutputsType, Sound(o.items), config' = config,
         \A s \in SeqsOf(o.items) : /\ sq'[s].processed = sq[s].processed
                                    /\ sq'[s].prompt = sq[s].prompt
  PROVE  Sound(o.items)'
  <1>1. \A i \in DOMAIN o.items : o.items[i].seq \in SeqsOf(o.items)
    BY DEF SeqsOf
  <1>2. PICK x : x = o.items
    OBVIOUS
  <1>3. Sound(x)'
    BY <1>1, <1>2, SoundStays
  <1>4. QED  BY <1>2, <1>3

(* The batches in flight, when the queue moves on. *)
LEMMA SoundQueues ==
  ASSUME config' = config, schedule_queue' \in Seq(OutputsType), out' \in OutputsType,
         \A o \in OutputsType :
           \/ \E i \in DOMAIN schedule_queue' : o = schedule_queue'[i]
           \/ out_pc' = "sequences" /\ o = out'
           => /\ Sound(o.items)
              /\ \A s \in SeqsOf(o.items) : /\ sq'[s].processed = sq[s].processed
                                            /\ sq'[s].prompt = sq[s].prompt
  PROVE  SoundInv'
  <1>1. \A i \in DOMAIN schedule_queue' : Sound(schedule_queue[i].items)'
    <2> SUFFICES ASSUME NEW i \in DOMAIN schedule_queue'
                 PROVE  Sound(schedule_queue[i].items)'
      OBVIOUS
    <2>1. PICK o \in OutputsType : o = schedule_queue'[i]
      OBVIOUS
    <2>2. Sound(o.items)'
      BY <2>1, SoundBatch
    <2>3. QED  BY <2>1, <2>2 DEF Sound, Fitting, process_asserts, Whole, policy
  <1>2. out_pc' = "sequences" => Sound(out.items)'
    <2> SUFFICES ASSUME out_pc' = "sequences"  PROVE Sound(out.items)'
      OBVIOUS
    <2>1. PICK o \in OutputsType : o = out'
      OBVIOUS
    <2>2. Sound(o.items)'
      BY <2>1, SoundBatch
    <2>3. QED  BY <2>1, <2>2 DEF Sound, Fitting, process_asserts, Whole, policy
  <1>3. QED  BY <1>1, <1>2 DEF SoundInv

LEMMA OnScheduleSafe ==
  ASSUME NEW most \in Nat, Inv, RoomInv(most), Consistent, error = "none", OnSchedule
  PROVE  Consistent' /\ error' = "none"
  <1>1. /\ SchedulerTypes /\ ThreadTypes /\ QueuesInv /\ WaitingInv /\ FlightInv /\ CopiesInv
        /\ ListsInv /\ ControlInv /\ BatchInv /\ TokensInv
        /\ PromptInv /\ SoundInv /\ ResumeInv
    BY DEF Inv, RoomInv, Consistent, Parts
  <1>2. /\ phase = "done"
        /\ UNCHANGED <<waiting, running, kept, prefills, config, batch, num_batched_tokens, wsq>>
        /\ UNCHANGED <<execution_queue, schedule_queue, out_pc, out>>
    BY DEF OnSchedule, outputs, stage, output_thread
  <1>3. preempted = {} /\ ignored = {}
    BY <1>1 DEF QueuesInv
  <1>4. CASE batch = <<>>
    <2>1. phase' = "idle" /\ UNCHANGED <<sq, error>>
      BY <1>3, <1>4 DEF OnSchedule
    <2>2. PromptInv' /\ SoundInv' /\ ResumeInv'
      BY <1>1, <1>2, <2>1, FlightFrame
    <2>3. ListsInv' /\ ControlInv'
      BY <1>1, <1>2, <2>1 DEF ListsInv, ControlInv, policy
    <2>4. BatchInv'
      <3>1. Sound(batch)' /\ \A s \in SeqsOf(batch') : sq'[s].status \in {"waiting", "paused"}
        BY <1>1, <1>2, <2>1, SoundSame
      <3>2. QED  BY <1>1, <1>2, <2>1, <3>1 DEF BatchInv
    <2>5. TokensInv'
      BY <1>1, <1>2, <2>1 DEF TokensInv, policy
    <2>6. QED  BY <2>1, <2>2, <2>3, <2>4, <2>5 DEF Consistent, Parts
  <1>5. CASE batch # <<>>
    <2>1. /\ phase' = "publish" /\ sq' = on_schedule(sq, batch, {})
          /\ error' = IF on_schedule_asserts(sq, batch, {}) THEN error ELSE "assertion"
      BY <1>3, <1>5 DEF OnSchedule
    <2>2. sq \in [Requests -> SequenceType] /\ batch \in Seq(Items)
      BY <1>1 DEF SchedulerTypes
    <2>3. SeqsOf(batch) \subseteq Requests /\ \A i \in DOMAIN batch : batch[i].seq \in SeqsOf(batch)
      BY <2>2, ItemOfBatch DEF SeqsOf
    <2>4. /\ \A s \in SeqsOf(batch) : sq'[s] = set_status(sq[s], "running")
          /\ \A s \in Requests : s \notin SeqsOf(batch) => sq'[s] = sq[s]
      BY <2>1, <2>2, <2>3, OnScheduleSequence
    <2>5. \A q : /\ set_status(q, "running").status = "running"
                 /\ set_status(q, "running").prompt = q.prompt
                 /\ set_status(q, "running").processed = q.processed
      BY DEF set_status
    <2>6. \A s \in Requests : sq'[s].processed = sq[s].processed /\ sq'[s].prompt = sq[s].prompt
      BY <2>4, <2>5
    <2>7. \A s \in Requests : sq'[s].status \in {sq[s].status, "running"}
      BY <2>4, <2>5
    <2>8. \A s \in SeqsOf(batch) : sq[s].status \in {"waiting", "paused"}
      BY <1>1, <1>2 DEF BatchInv
    <2>9. error' = "none"
      <3>1. Cardinality(SeqsOf(batch)) = Len(batch)
        BY <1>1, <2>2, DistinctItems DEF BatchInv, Sound
      <3>2. on_schedule_asserts(sq, batch, {})
        BY <2>8, <3>1 DEF on_schedule_asserts
      <3>3. QED  BY <2>1, <3>2
    <2>10. ListsInv'
      <3>1. /\ Range(running) \subseteq Requests /\ Range(kept) \subseteq Requests
            /\ Range(prefills) \subseteq Requests
        BY <1>1, RangeIsSubset DEF SchedulerTypes
      <3>2. \A s \in Requests : sq[s].status # "absent" => sq'[s].status # "absent"
        BY <2>7
      <3>3. QED  BY <1>1, <1>2, <3>1, <3>2 DEF ListsInv
    <2>11. ControlInv' /\ TokensInv'
      BY <1>1, <1>2, <2>1 DEF ControlInv, TokensInv, policy
    <2>12. PromptInv'
      <3>1. \A s \in Requests : /\ sq'[s].status = "waiting" => sq[s].status = "waiting"
                                /\ sq'[s].status = "paused" => sq[s].status = "paused"
        BY <2>7
      <3>2. QED  BY <1>1, <1>2, <2>6, <3>1 DEF PromptInv, Whole, policy
    <2>13. BatchInv'
      <3>1. PICK b : b = batch
        OBVIOUS
      <3>2. Sound(b)'
        BY <1>1, <1>2, <2>3, <2>6, <3>1, SoundStays DEF BatchInv
      <3>3. batch' = b
        BY <1>2, <3>1
      <3>4. Sound(batch)'
        BY <3>2, <3>3 DEF Sound, Fitting, process_asserts, Whole, policy
      <3>5. QED  BY <1>1, <1>2, <2>1, <3>4 DEF BatchInv
    <2>14. SoundInv'
      <3>1. schedule_queue' \in Seq(OutputsType) /\ out' \in OutputsType
        BY <1>1, <1>2 DEF ThreadTypes
      <3>2. \A o \in OutputsType :
              \/ \E i \in DOMAIN schedule_queue' : o = schedule_queue'[i]
              \/ out_pc' = "sequences" /\ o = out'
              => Sound(o.items)
        BY <1>1, <1>2 DEF SoundInv
      <3>3. \A o \in OutputsType : SeqsOf(o.items) \subseteq Requests
        BY OutputsFields
      <3>4. QED  BY <1>2, <2>6, <3>1, <3>2, <3>3, SoundQueues
    <2>15. ResumeInv'
      <3>1. Ahead' = Ahead \cup SeqsOf(batch)
        BY <1>2, <2>1, <2>3 DEF Ahead
      <3>2. ASSUME NEW s \in SeqsOf(batch)
            PROVE  wsq[s].status \in {"waiting", "paused"}
        <4>1. s \in Requests /\ sq[s].status \in {"waiting", "paused"}
          BY <2>3, <2>8
        <4>2. s \notin Ahead /\ (out_pc = "sequences" => s \notin SeqsOf(out.items))
          BY <1>1, <4>1, AheadRuns DEF FlightInv
        <4>3. wsq[s] = sq[s]
          <5>1. wsq[s] = IF out_pc = "sequences" THEN Completed(sq[s], out, SeenBy(sampled), s)
                         ELSE sq[s]
            BY <1>1, <1>2, <4>1, <4>2 DEF CopiesInv, CopyInv
          <5>2. QED  BY <4>2, <5>1, CompletedOther
        <4>4. QED  BY <4>1, <4>3
      <3>3. QED  BY <1>1, <1>2, <3>1, <3>2 DEF ResumeInv
    <2>16. QED
      BY <2>9, <2>10, <2>11, <2>12, <2>13, <2>14, <2>15 DEF Consistent, Parts
  <1>6. QED  BY <1>4, <1>5

LEMMA PublishSafe ==
  ASSUME NEW most \in Nat, Inv, RoomInv(most), Consistent, error = "none", Publish
  PROVE  Consistent' /\ error' = "none"
  <1>1. /\ SchedulerTypes /\ ThreadTypes /\ QueuesInv
        /\ ListsInv /\ ControlInv /\ BatchInv /\ TokensInv
        /\ PromptInv /\ SoundInv /\ ResumeInv
    BY DEF Inv, RoomInv, Consistent, Parts
  <1>2. batch # <<>>
    BY <1>1 DEF Publish, QueuesInv
  <1>3. /\ phase = "publish" /\ phase' = "idle" /\ batch' = <<>> /\ num_batched_tokens' = 0
        /\ schedule_queue' = Append(schedule_queue, Outputs)
        /\ execution_queue' = Append(execution_queue, Outputs)
        /\ UNCHANGED <<sq, wsq, waiting, running, kept, prefills, config, error, out_pc, out>>
    BY <1>2 DEF Publish, output_thread
  <1>4. PICK p \in OutputsType : p = Outputs
    BY <1>1, OutputsTyped
  <1>5. p.items = batch
    BY <1>4 DEF Outputs
  <1>6. schedule_queue \in Seq(OutputsType) /\ execution_queue \in Seq(OutputsType)
        /\ out \in OutputsType
    BY <1>1 DEF ThreadTypes
  <1>7. /\ \A i \in DOMAIN schedule_queue' :
             \/ i \in DOMAIN schedule_queue /\ schedule_queue'[i] = schedule_queue[i]
             \/ schedule_queue'[i] = p
        /\ schedule_queue' \in Seq(OutputsType)
    <2>1. schedule_queue' = Append(schedule_queue, p)
      BY <1>3, <1>4
    <2>2. schedule_queue' \in Seq(OutputsType)
      BY <1>6, <2>1
    <2>3. QED  BY <1>6, <2>1, <2>2, QueueAppended
  <1>8. \A i \in DOMAIN execution_queue' :
          \/ i \in DOMAIN execution_queue /\ execution_queue'[i] = execution_queue[i]
          \/ execution_queue'[i] = p
    <2>1. execution_queue' = Append(execution_queue, p)
      BY <1>3, <1>4
    <2>2. QED  BY <1>6, <2>1, QueueAppended
  <1>9. SeqsOf(<<>>) = {} /\ Len(<<>>) = 0 /\ Sound(<<>>)'
    BY DEF SeqsOf, Sound
  <1>10. ListsInv' /\ ControlInv'
    BY <1>1, <1>3 DEF ListsInv, ControlInv, policy
  <1>11. BatchInv'
    <2>1. Sound(batch)'
      BY <1>3 DEF Sound
    <2>2. QED  BY <1>3, <1>9, <2>1 DEF BatchInv
  <1>12. TokensInv'
    BY <1>1, <1>3 DEF TokensInv, policy
  <1>13. PromptInv'
    BY <1>1, <1>3 DEF PromptInv, Whole, policy
  <1>14. SoundInv'
    <2>1. Sound(p.items)
      BY <1>1, <1>5 DEF BatchInv
    <2>2. \A o \in OutputsType :
            \/ \E i \in DOMAIN schedule_queue' : o = schedule_queue'[i]
            \/ out_pc' = "sequences" /\ o = out'
            => Sound(o.items)
      BY <1>1, <1>3, <1>7, <2>1 DEF SoundInv
    <2>3. out' \in OutputsType
      BY <1>3, <1>6
    <2>4. QED  BY <1>3, <1>7, <2>2, <2>3, SoundQueues
  <1>15. ResumeInv'
    <2>1. Ahead' \subseteq Ahead
      BY <1>3, <1>5, <1>8 DEF Ahead
    <2>2. QED  BY <1>1, <1>3, <2>1 DEF ResumeInv
  <1>16. QED  BY <1>3, <1>10, <1>11, <1>12, <1>13, <1>14, <1>15 DEF Consistent, Parts

(* Steps of the other threads, for the schedule thread: self.running may     *)
(* lose elements.                                                            *)
LEMMA PartsFrame ==
  ASSUME Inv, Parts, UNCHANGED <<sq, waiting, kept, prefills, config, batch, num_batched_tokens>>,
         phase' = phase \/ (phase = "idle" /\ phase' = "start"), out_pc' # "assign",
         running' \in Seq(Requests), IsInjective(running'), Range(running') \subseteq Range(running),
         Len(running') <= Len(running)
  PROVE  Parts'
  <1>1. ListsInv /\ ControlInv /\ BatchInv /\ TokensInv /\ SchedulerTypes
    BY DEF Parts, Inv
  <1>2. ListsInv'
    BY <1>1 DEF ListsInv
  <1>3. running = <<>> => running' = <<>>
    BY EmptyList, EmptyRange
  <1>4. ControlInv'
    BY <1>1, <1>3 DEF ControlInv, policy
  <1>5. BatchInv'
    <2>1. Sound(batch)'
      BY <1>1 DEF BatchInv, Sound, Fitting, process_asserts, Whole, policy
    <2>2. QED  BY <1>1, <2>1 DEF BatchInv
  <1>6. TokensInv'
    <2>1. Len(running') + Len(kept) + Len(prefills) <= Len(running) + Len(kept) + Len(prefills)
      BY <1>1 DEF SchedulerTypes
    <2>2. /\ Len(running') \in Nat /\ Len(running) \in Nat /\ Len(kept) \in Nat
          /\ Len(prefills) \in Nat /\ max_num_seqs \in Nat
      BY <1>1, LimitsAssumption DEF SchedulerTypes
    <2>3. Len(running) + Len(kept) + Len(prefills) <= max_num_seqs =>
            Len(running') + Len(kept) + Len(prefills) <= max_num_seqs
      BY <2>1, <2>2
    <2>4. QED  BY <1>1, <2>3 DEF TokensInv, policy
  <1>7. QED  BY <1>2, <1>4, <1>5, <1>6 DEF Parts

(* The same when it loses none. *)
LEMMA PartsStay ==
  ASSUME Inv, Parts,
         UNCHANGED <<sq, waiting, running, kept, prefills, config, batch, num_batched_tokens>>,
         phase' = phase \/ (phase = "idle" /\ phase' = "start"), out_pc' # "assign"
  PROVE  Parts'
  <1>1. running \in Seq(Requests) /\ IsInjective(running) /\ Len(running) \in Nat
    BY DEF Inv, SchedulerTypes, Parts, ListsInv
  <1>2. /\ running' \in Seq(Requests) /\ IsInjective(running')
        /\ Range(running') \subseteq Range(running) /\ Len(running') <= Len(running)
    BY <1>1
  <1>3. QED  BY <1>2, PartsFrame

LEMMA ExecuteModelSafe ==
  ASSUME NEW most \in Nat, Inv, RoomInv(most), Consistent, error = "none", ExecuteModel
  PROVE  Consistent' /\ error' = "none"
  <1>1. /\ ThreadTypes /\ QueuesInv /\ FlightInv /\ wsq \in [Requests -> SequenceType]
        /\ Parts /\ PromptInv /\ SoundInv /\ ResumeInv
    BY DEF Inv, RoomInv, Consistent
  <1>2. PICK b : b = Head(execution_queue)
    OBVIOUS
  <1>3. /\ wsq' = [s \in Requests |-> IF s \in b.ignored THEN set_status(wsq[s], "ignored")
                                      ELSE on_schedule(wsq, b.items, b.preempted)[s]]
        /\ error' = IF on_schedule_asserts(wsq, b.items, b.preempted) THEN error ELSE "assertion"
        /\ UNCHANGED <<sq, waiting, running, kept, prefills, config, phase, batch,
                       num_batched_tokens, schedule_queue, out_pc, out>>
    BY <1>2 DEF ExecuteModel, outputs, output_thread
  <1>4. /\ \E i \in DOMAIN schedule_queue : schedule_queue[i] = b
        /\ SeqsOf(b.items) \subseteq Ahead /\ Ahead' = Ahead \ SeqsOf(b.items)
    BY <1>1, <1>2, HeadExecuted
  <1>5. b \in OutputsType /\ b.preempted = {} /\ b.ignored = {} /\ Sound(b.items)
    BY <1>1, <1>4 DEF ThreadTypes, QueuesInv, SoundInv
  <1>6. error' = "none"
    <2>1. b.items \in Seq(Items)
      BY <1>5, OutputsFields
    <2>2. Cardinality(SeqsOf(b.items)) = Len(b.items)
      BY <1>5, <2>1, DistinctItems DEF Sound
    <2>3. on_schedule_asserts(wsq, b.items, b.preempted)
      BY <1>1, <1>4, <1>5, <2>2 DEF on_schedule_asserts, ResumeInv
    <2>4. QED  BY <1>3, <2>3
  <1>7. Parts'
    <2>1. out_pc' # "assign"
      BY <1>1, <1>3 DEF Parts, ControlInv
    <2>2. QED  BY <1>1, <1>3, <2>1, PartsStay
  <1>8. PromptInv'
    BY <1>1, <1>3 DEF PromptInv, Whole, policy
  <1>9. SoundInv'
    BY <1>1, <1>3 DEF SoundInv, Sound, Fitting, process_asserts, Whole, policy
  <1>10. ResumeInv'
    <2>1. \A s \in Ahead' : s \in Requests /\ s \in Ahead /\ s \notin SeqsOf(b.items)
      BY <1>4 DEF Ahead
    <2>2. \A s \in Ahead' : wsq'[s] = wsq[s]
      BY <1>1, <1>3, <1>5, <2>1, OnScheduleSequence
    <2>3. QED  BY <1>1, <2>1, <2>2 DEF ResumeInv
  <1>11. QED  BY <1>6, <1>7, <1>8, <1>9, <1>10 DEF Consistent

(* The assertions of on_step_completed, for the schedule o that the output   *)
(* thread has taken.                                                         *)
LEMMA StepAsserts ==
  ASSUME NEW q, NEW o \in OutputsType, o = out', Sound(o.items),
         \A s \in SeqsOf(o.items) : q[s] = sq[s] /\ sq[s].status = "running"
  PROVE  on_step_completed_asserts(q)
  <1>1. \A i \in DOMAIN o.items : o.items[i].seq \in SeqsOf(o.items)
    BY DEF SeqsOf
  <1>2. \A i \in DOMAIN o.items : process_asserts(sq[o.items[i].seq], o.items[i].chunk)
    BY DEF Sound, Fitting
  <1>3. \A i \in Paired : i \in DOMAIN o.items
    BY DEF Paired
  <1>4. \A i \in Paired : /\ q[o.items[i].seq].status = "running"
                          /\ process_asserts(q[o.items[i].seq], o.items[i].chunk)
    BY <1>1, <1>2, <1>3
  <1>5. QED  BY <1>4 DEF on_step_completed_asserts

LEMMA OutputReceiveSafe ==
  ASSUME NEW most \in Nat, Inv, RoomInv(most), Consistent, error = "none", OutputReceive
  PROVE  Consistent' /\ error' = "none"
  <1>1. /\ ThreadTypes /\ QueuesInv /\ FlightInv /\ CopiesInv
        /\ Parts /\ PromptInv /\ SoundInv /\ ResumeInv
    BY DEF Inv, RoomInv, Consistent
  <1>2. /\ out_pc = "get" /\ out_pc' = "sequences" /\ schedule_queue # <<>> /\ sampled_queue # <<>>
        /\ out' = Head(schedule_queue) /\ schedule_queue' = Tail(schedule_queue)
        /\ wsq' = on_step_completed(wsq, sampled'.stops \ sampled'.strings)
        /\ error' = IF on_step_completed_asserts(wsq) THEN error ELSE "assertion"
        /\ UNCHANGED <<sq, waiting, running, kept, prefills, config, phase, batch,
                       num_batched_tokens, execution_queue>>
    BY DEF OutputReceive, on_sampling_completed, outputs
  <1>3. schedule_queue \in Seq(OutputsType) /\ schedule_queue' \in Seq(OutputsType)
    BY <1>1, <1>2 DEF ThreadTypes
  <1>4. PICK o \in OutputsType : o = out'
    BY <1>2, <1>3
  <1>5. /\ 1 \in DOMAIN schedule_queue /\ schedule_queue[1] = o
        /\ \A i \in DOMAIN schedule_queue' :
             i + 1 \in DOMAIN schedule_queue /\ schedule_queue'[i] = schedule_queue[i + 1]
    BY <1>2, <1>3, <1>4, QueueEntries
  <1>6. \A s \in Ahead : s \in Requests /\ s \notin SeqsOf(o.items)
    BY <1>1, <1>2, <1>4, AheadRuns
  <1>7. error' = "none"
    <2>1. Sound(o.items) /\ SeqsOf(o.items) \subseteq Requests
      BY <1>1, <1>5, OutputsFields DEF SoundInv
    <2>2. \A s \in SeqsOf(o.items) : wsq[s] = sq[s] /\ sq[s].status = "running"
      <3>1. \A s \in SeqsOf(o.items) : sq[s].status = "running"
        BY <1>1, <1>5 DEF FlightInv
      <3>2. \A s \in Requests :
              s \notin Ahead /\ sq[s].status = "running" => wsq[s] = sq[s]
        BY <1>1, <1>2 DEF CopiesInv, CopyInv
      <3>3. QED  BY <1>6, <2>1, <3>1, <3>2
    <2>3. on_step_completed_asserts(wsq)
      BY <1>4, <2>1, <2>2, StepAsserts
    <2>4. QED  BY <1>2, <2>3
  <1>8. Parts'
    BY <1>1, <1>2, PartsStay
  <1>9. PromptInv'
    BY <1>1, <1>2 DEF PromptInv, Whole, policy
  <1>10. SoundInv'
    <2>1. \A p \in OutputsType :
            \/ \E i \in DOMAIN schedule_queue' : p = schedule_queue'[i]
            \/ out_pc' = "sequences" /\ p = out'
            => Sound(p.items)
      BY <1>1, <1>4, <1>5 DEF SoundInv
    <2>2. QED  BY <1>2, <1>3, <1>4, <2>1, SoundQueues
  <1>11. ResumeInv'
    <2>1. Ahead' = Ahead
      BY <1>2 DEF Ahead
    <2>2. \A s \in Requests : wsq'[s] = Completed(wsq[s], out', SeenBy(sampled'), s)
      BY <1>2, OnStepCompleted
    <2>3. \A s \in Ahead : wsq'[s] = wsq[s]
      BY <1>4, <1>6, <2>2, CompletedOther
    <2>4. QED  BY <1>1, <2>1, <2>3 DEF ResumeInv
  <1>12. QED  BY <1>7, <1>8, <1>9, <1>10, <1>11 DEF Consistent

(* What a completed step leaves of the prompt. *)
LEMMA CompletedPrompt ==
  ASSUME NEW q \in SequenceType, NEW o \in OutputsType, NEW t, NEW s, q.status = "running",
         q.processed <= q.prompt, Completed(q, o, t, s) # q,
         \A i \in DOMAIN o.items : o.items[i].seq = s => Fitting(q, o.items[i].chunk)
  PROVE  /\ Completed(q, o, t, s).status \in {"paused", "finished"}
         /\ Completed(q, o, t, s).processed <= Completed(q, o, t, s).prompt
         /\ Whole => Completed(q, o, t, s).processed = Completed(q, o, t, s).prompt
  <1>1. PICK i \in DOMAIN o.items :
          /\ o.items[i].seq = s
          /\ Completed(q, o, t, s) = process_seq_output(q, o.items[i].chunk, i \in t.stops)
    BY CompletedCases
  <1>2. PICK c \in Int : c = o.items[i].chunk
    BY OutputsFields
  <1>3. Fitting(q, c) /\ q.processed \in Int /\ q.prompt \in Nat
    BY <1>1, <1>2, SequenceFields
  <1>4. ASSUME NEW stop
        PROVE  /\ process_seq_output(q, c, stop).status \in {"paused", "finished"}
               /\ process_seq_output(q, c, stop).processed <= process_seq_output(q, c, stop).prompt
               /\ Whole => process_seq_output(q, c, stop).processed
                             = process_seq_output(q, c, stop).prompt
    <2>1. CASE q.processed < q.prompt
      BY <1>3, <2>1 DEF process_seq_output, Fitting, process_asserts
    <2>2. CASE ~(q.processed < q.prompt)
      BY <1>3, <2>2 DEF process_seq_output
    <2>3. QED  BY <2>1, <2>2
  <1>5. QED  BY <1>1, <1>2, <1>4

LEMMA OutputSequencesSafe ==
  ASSUME NEW most \in Nat, Inv, RoomInv(most), Consistent, error = "none", OutputSequences
  PROVE  Consistent' /\ error' = "none"
  <1>1. /\ SchedulerTypes /\ ThreadTypes /\ QueuesInv /\ FlightInv
        /\ ListsInv /\ ControlInv /\ BatchInv /\ TokensInv
        /\ PromptInv /\ SoundInv /\ ResumeInv
    BY DEF Inv, RoomInv, Consistent, Parts
  <1>2. /\ out_pc = "sequences" /\ out_pc' = "free"
        /\ sq' = on_step_completed(sq, sampled.stops)
        /\ error' = IF on_step_completed_asserts(sq) THEN error ELSE "assertion"
        /\ UNCHANGED <<wsq, waiting, running, kept, prefills, config, phase, batch,
                       num_batched_tokens, execution_queue, schedule_queue, out, sampled>>
    BY DEF OutputSequences, outputs, stage
  <1>3. /\ sq \in [Requests -> SequenceType] /\ out \in OutputsType /\ batch \in Seq(Items)
        /\ schedule_queue \in Seq(OutputsType)
    BY <1>1 DEF SchedulerTypes, ThreadTypes
  <1>4. Sound(out.items) /\ \A s \in SeqsOf(out.items) : sq[s].status = "running"
    BY <1>1, <1>2 DEF SoundInv, FlightInv
  <1>5. \A s \in Requests : sq'[s] = Completed(sq[s], out, sampled, s)
    BY <1>2, OnStepCompleted
  <1>6. \A s \in Requests : s \notin SeqsOf(out.items) => sq'[s] = sq[s]
    BY <1>5, CompletedOther
  <1>7. ASSUME NEW s \in Requests, sq'[s] # sq[s]
        PROVE  /\ sq'[s].status \in {"paused", "finished"}
               /\ sq'[s].processed <= sq'[s].prompt /\ (Whole => sq'[s].processed = sq'[s].prompt)
    <2>1. s \in SeqsOf(out.items)
      BY <1>6, <1>7
    <2>2. sq[s] \in SequenceType /\ sq[s].status = "running" /\ sq[s].processed <= sq[s].prompt
      BY <1>1, <1>3, <1>4, <2>1 DEF PromptInv
    <2>3. \A i \in DOMAIN out.items : out.items[i].seq = s => Fitting(sq[s], out.items[i].chunk)
      BY <1>4 DEF Sound
    <2>4. Completed(sq[s], out, sampled, s) # sq[s]
      BY <1>5, <1>7
    <2>5. /\ Completed(sq[s], out, sampled, s).status \in {"paused", "finished"}
          /\ Completed(sq[s], out, sampled, s).processed <= Completed(sq[s], out, sampled, s).prompt
          /\ Whole => Completed(sq[s], out, sampled, s).processed
                        = Completed(sq[s], out, sampled, s).prompt
      BY <1>3, <2>2, <2>3, <2>4, CompletedPrompt
    <2>6. QED  BY <1>5, <2>5
  <1>8. error' = "none"
    <2>1. PICK o \in OutputsType : o = out
      BY <1>3
    <2>2. o = out' /\ Sound(o.items)
      BY <1>2, <1>4, <2>1
    <2>3. on_step_completed_asserts(sq)
      BY <1>4, <2>1, <2>2, StepAsserts
    <2>4. QED  BY <1>2, <2>3
  <1>9. SeqsOf(batch) \subseteq Requests /\ \A s \in SeqsOf(batch) : sq'[s] = sq[s]
    <2>1. SeqsOf(batch) \subseteq Requests
      BY <1>3, ItemOfBatch
    <2>2. SeqsOf(batch) \cap SeqsOf(out.items) = {}
      <3>1. CASE phase = "publish"
        BY <1>1, <1>2, <3>1 DEF FlightInv
      <3>2. CASE phase # "publish"
        BY <1>1, <1>4, <3>2 DEF BatchInv
      <3>3. QED  BY <3>1, <3>2
    <2>3. QED  BY <1>6, <2>1, <2>2
  <1>10. ListsInv'
    <2>1. /\ Range(running) \subseteq Requests /\ Range(kept) \subseteq Requests
          /\ Range(prefills) \subseteq Requests
      BY <1>1, RangeIsSubset DEF SchedulerTypes
    <2>2. \A s \in Requests : sq[s].status # "absent" => sq'[s].status # "absent"
      BY <1>7
    <2>3. QED  BY <1>1, <1>2, <2>1, <2>2 DEF ListsInv
  <1>11. ControlInv' /\ TokensInv'
    BY <1>1, <1>2 DEF ControlInv, TokensInv, policy
  <1>12. PromptInv'
    <2> SUFFICES ASSUME NEW s \in Requests
                 PROVE  /\ sq'[s].processed <= sq'[s].prompt
                        /\ sq'[s].status = "waiting" => sq'[s].processed = 0
                        /\ Whole /\ sq'[s].status = "paused" => sq'[s].processed = sq'[s].prompt
      BY <1>2 DEF PromptInv, Whole, policy
    <2>1. CASE sq'[s] = sq[s]
      BY <1>1, <2>1 DEF PromptInv
    <2>2. CASE sq'[s] # sq[s]
      BY <1>7, <2>2
    <2>3. QED  BY <2>1, <2>2
  <1>13. BatchInv'
    <2>1. PICK b : b = batch
      OBVIOUS
    <2>2. \A i \in DOMAIN b : b[i].seq \in SeqsOf(b)
      BY DEF SeqsOf
    <2>3. Sound(b)'
      BY <1>1, <1>2, <1>9, <2>1, <2>2, SoundStays DEF BatchInv
    <2>4. batch' = b
      BY <1>2, <2>1
    <2>5. Sound(batch)'
      BY <2>3, <2>4 DEF Sound, Fitting, process_asserts, Whole, policy
    <2>6. QED  BY <1>1, <1>2, <1>9, <2>5 DEF BatchInv
  <1>14. SoundInv'
    <2>1. schedule_queue' \in Seq(OutputsType) /\ out' \in OutputsType /\ out_pc' # "sequences"
      BY <1>2, <1>3
    <2>2. ASSUME NEW o \in OutputsType, NEW i \in DOMAIN schedule_queue, o = schedule_queue[i]
          PROVE  Sound(o.items) /\ \A s \in SeqsOf(o.items) : sq'[s] = sq[s]
      <3>1. Sound(o.items) /\ SeqsOf(o.items) \cap SeqsOf(out.items) = {}
        BY <1>1, <1>2, <2>2 DEF SoundInv, FlightInv, Apart
      <3>2. SeqsOf(o.items) \subseteq Requests
        BY OutputsFields
      <3>3. QED  BY <1>6, <3>1, <3>2
    <2>3. QED  BY <1>2, <2>1, <2>2, SoundQueues
  <1>15. ResumeInv'
    <2>1. Ahead' = Ahead
      BY <1>2 DEF Ahead
    <2>2. QED  BY <1>1, <1>2, <2>1 DEF ResumeInv
  <1>16. QED
    BY <1>8, <1>10, <1>11, <1>12, <1>13, <1>14, <1>15 DEF Consistent, Parts

LEMMA OutputCompleteSafe ==
  ASSUME Inv, Consistent, error = "none", OutputComplete
  PROVE  Consistent' /\ error' = "none"
  <1>1. Parts /\ PromptInv /\ SoundInv /\ ResumeInv
    BY DEF Consistent
  <1>2. PICK l : l = StillRunning
    OBVIOUS
  <1>3. /\ running' = l /\ out_pc' = "get"
        /\ UNCHANGED <<sq, wsq, waiting, kept, prefills, config, phase, batch, num_batched_tokens>>
        /\ UNCHANGED <<error, execution_queue, schedule_queue>>
    BY <1>2 DEF OutputComplete, Complete, outputs, stage
  <1>4. running \in Seq(Requests) /\ IsInjective(running)
    BY <1>1 DEF Inv, SchedulerTypes, Parts, ListsInv
  <1>5. /\ l \in Seq(Requests) /\ IsInjective(l) /\ Range(l) \subseteq Range(running)
        /\ Len(l) <= Len(running)
    BY <1>2, <1>4, ThoseList DEF StillRunning
  <1>6. Parts'
    BY <1>1, <1>3, <1>5, PartsFrame
  <1>7. PromptInv' /\ SoundInv' /\ ResumeInv'
    BY <1>1, <1>3, FlightFrame
  <1>8. QED  BY <1>3, <1>6, <1>7 DEF Consistent

LEMMA OutputFreeSafe ==
  ASSUME Inv, Consistent, error = "none", OutputFree
  PROVE  Consistent' /\ error' = "none"
  <1>1. Parts /\ PromptInv /\ SoundInv /\ ResumeInv
    BY DEF Consistent
  <1>2. /\ UNCHANGED <<sq, wsq, waiting, running, kept, prefills, config, phase, batch>>
        /\ UNCHANGED <<num_batched_tokens, error, execution_queue, schedule_queue, out_pc, out>>
    BY DEF OutputFree, outputs, stage
  <1>3. out_pc' # "assign"
    BY <1>1, <1>2 DEF Parts, ControlInv
  <1>4. Parts'
    BY <1>1, <1>2, <1>3, PartsStay
  <1>5. PromptInv' /\ SoundInv' /\ ResumeInv'
    BY <1>1, <1>2, FlightFrame
  <1>6. QED  BY <1>2, <1>4, <1>5 DEF Consistent

LEMMA SafeInit == PipelineInit => SafeInv
  <1> SUFFICES ASSUME PipelineInit  PROVE error = "none" /\ Consistent
    BY DEF SafeInv
  <1>1. /\ Init /\ schedule_queue = <<>> /\ execution_queue = <<>> /\ out_pc = "get"
    BY DEF PipelineInit
  <1>2. /\ sq = [s \in Requests |-> Absent] /\ waiting = <<>> /\ running = <<>> /\ kept = <<>>
        /\ prefills = <<>> /\ batch = <<>> /\ num_batched_tokens = 0 /\ phase = "idle"
        /\ error = "none"
    BY <1>1 DEF Init
  <1>3. Absent.status = "absent" /\ Absent.processed = 0 /\ Absent.prompt = 0
    BY DEF Absent
  <1>4. Range(<<>>) = {} /\ IsInjective(<<>>) /\ Len(<<>>) = 0 /\ SeqsOf(<<>>) = {}
    BY EmptyList DEF SeqsOf
  <1>5. ListsInv
    BY <1>2, <1>4 DEF ListsInv
  <1>6. ControlInv
    BY <1>1, <1>2 DEF ControlInv
  <1>7. BatchInv
    BY <1>2, <1>4 DEF BatchInv, Sound
  <1>8. TokensInv
    BY <1>2, <1>4, LimitsAssumption DEF TokensInv
  <1>9. PromptInv
    BY <1>2, <1>3 DEF PromptInv
  <1>10. SoundInv
    BY <1>1 DEF SoundInv
  <1>11. ResumeInv
    BY <1>1, <1>2 DEF ResumeInv, Ahead
  <1>12. QED  BY <1>2, <1>5, <1>6, <1>7, <1>8, <1>9, <1>10, <1>11 DEF Consistent, Parts

LEMMA SafeNext ==
  ASSUME NEW most \in Nat, Room(most), OneChunk, Inv, RoomInv(most), SafeInv, [Next]_vars
  PROVE  SafeInv'
  <1>1. switches' = switches
    BY DEF Next, vars, AddRequest, TimePasses, ScheduleThread, ScheduleWakes, Schedule, OnSchedule,
           Publish, ExecuteModel, OutputThread, OutputReceive, OutputSequences, OutputFree,
           OutputComplete, OutputRemove, OutputAssign, Complete, output_thread
  <1> SUFFICES ASSUME ~switches  PROVE Consistent' /\ error' = "none"
    BY <1>1 DEF SafeInv
  <1>2. Consistent /\ error = "none"
    BY DEF SafeInv
  <1>3. Parts /\ PromptInv /\ SoundInv /\ ResumeInv /\ out_pc # "assign"
    BY <1>2 DEF Consistent, Parts, ControlInv
  <1>4. ASSUME UNCHANGED <<sq, wsq, waiting, running, kept, prefills, config, batch>>,
               UNCHANGED <<num_batched_tokens, error, execution_queue, schedule_queue, out_pc, out>>,
               phase' = phase \/ (phase = "idle" /\ phase' = "start")
        PROVE  Consistent' /\ error' = "none"
    <2>1. Parts'
      BY <1>3, <1>4, PartsStay
    <2>2. PromptInv' /\ SoundInv' /\ ResumeInv'
      BY <1>3, <1>4, FlightFrame
    <2>3. QED  BY <1>2, <1>4, <2>1, <2>2 DEF Consistent
  <1>5. CASE TimePasses \/ ScheduleWakes
    <2>1. /\ phase = "idle" /\ phase' \in {"idle", "start"}
          /\ UNCHANGED <<sq, wsq, waiting, running, kept, prefills, config, batch>>
          /\ UNCHANGED <<num_batched_tokens, error, execution_queue, schedule_queue, out_pc, out>>
      BY <1>5 DEF TimePasses, ScheduleWakes, Tick, outputs, stage, output_thread
    <2>2. QED  BY <1>4, <2>1
  <1>6. CASE UNCHANGED vars
    <2>1. /\ UNCHANGED <<sq, wsq, waiting, running, kept, prefills, config, batch, phase>>
          /\ UNCHANGED <<num_batched_tokens, error, execution_queue, schedule_queue, out_pc, out>>
      BY <1>6 DEF vars, scheduler, outputs, stage, output_thread
    <2>2. QED  BY <1>4, <2>1
  <1>7. CASE AddRequest
    BY <1>2, <1>7, AddRequestSafe
  <1>8. CASE Schedule
    BY <1>2, <1>8, ScheduleSafe
  <1>9. CASE OnSchedule \/ Publish
    BY <1>2, <1>9, OnScheduleSafe, PublishSafe
  <1>10. CASE ExecuteModel
    BY <1>2, <1>10, ExecuteModelSafe
  <1>11. CASE OutputThread
    <2>1. ~OutputRemove /\ ~OutputAssign
      BY <1>3 DEF OutputRemove, OutputAssign
    <2>2. QED
      BY <1>2, <1>11, <2>1, OutputReceiveSafe, OutputSequencesSafe, OutputFreeSafe,
         OutputCompleteSafe DEF OutputThread
  <1>12. QED
    BY <1>5, <1>6, <1>7, <1>8, <1>9, <1>10, <1>11 DEF Next, ScheduleThread

(* No assertion of the sequence managers, of the scheduler or of the stages  *)
(* fails, whatever the interleaving of the threads, when every request fits  *)
(* in the cache, sarathi has one chunk size that is at least max_num_seqs,   *)
(* and the assignment of remove_finished_seqs is not interrupted.            *)
THEOREM NoInternalErrorHolds ==
  ASSUME NEW most \in Nat, Room(most), OneChunk
  PROVE  Spec => []NoInternalError
  <1>1. PipelineInit => Inv /\ RoomInv(most) /\ SafeInv
    BY InvInit, RoomInit, SafeInit
  <1>2. (Inv /\ RoomInv(most) /\ SafeInv) /\ [Next]_vars => (Inv /\ RoomInv(most) /\ SafeInv)'
    BY InvNext, RoomNext, SafeNext
  <1>3. SafeInv => NoInternalError
    BY DEF SafeInv, NoInternalError
  <1>4. QED  BY <1>1, <1>2, <1>3, PTL DEF Spec

=============================================================================
