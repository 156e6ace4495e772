----------------------------- MODULE Scheduler -----------------------------
(***************************************************************************)
(* The schedulers of sarathi-lean (src/sarathi-lean/sarathi/core):         *)
(* sequences, block space managers and the five scheduling policies        *)
(* (sarathi, vllm, simple_chunking, orca, faster_transformer).             *)
(*                                                                         *)
(* One call of schedule() is a loop over self.running and a loop over      *)
(* self.waiting, in an order that depends on the policy.  One iteration is *)
(* one step here, so that a module that extends this one can interleave    *)
(* them with other threads.  The outputs (batch, ignored, preempted) are   *)
(* complete at phase "done"; the engine that extends this module consumes  *)
(* them.                                                                   *)
(*                                                                         *)
(* With the vAttention backend the block manager counts blocks that the    *)
(* worker reported free and blocks promised since; with a paged backend it *)
(* hands out the blocks themselves, of which the count is kept.            *)
(***************************************************************************)
EXTENDS Integers, Sequences, SequencesExt

CONSTANTS
  NumRequests,             (* bound: requests a client adds                  *)
  Prompts,                 (* prompt lengths a client may send               *)
  max_tokens,              (* SamplingParams.max_tokens                      *)
  max_model_len,           (* longest sequence the model accepts             *)
  max_num_seqs,            (* most sequences in self.running                 *)
  max_num_batched_tokens,  (* token limit of the vllm policy                 *)
  chunk_sizes,             (* token limit of sarathi by stage of a prompt    *)
  tokens_per_stage,        (* prompt tokens per stage (dynamic chunking)     *)
  block_size,              (* tokens per block                               *)
  num_gpu_blocks,          (* blocks in the cache                            *)
  watermark_blocks,        (* blocks can_allocate leaves free                *)
  num_pipeline_stages,     (* batches that may be in flight                  *)
  Configs                  (* scheduler types and backends a run looks at    *)

ASSUME RequestsAssumption ==
  /\ NumRequests \in Nat \ {0}
  /\ Prompts \subseteq Nat \ {0}
  /\ max_tokens \in Nat \ {0}

(* _init_cache refuses a cache too small for one request of full length. *)
ASSUME CapacityAssumption ==
  /\ block_size \in Nat \ {0}
  /\ max_model_len \in Nat \ {0}
  /\ num_gpu_blocks \in Nat
  /\ num_gpu_blocks * block_size >= max_model_len

ASSUME LimitsAssumption ==
  /\ max_num_seqs \in Nat \ {0}
  /\ max_num_batched_tokens \in Nat \ {0}
  /\ chunk_sizes \in Seq(Nat \ {0}) \ {<<>>}
  /\ tokens_per_stage \in Nat \ {0}
  /\ watermark_blocks \in Nat
  /\ num_pipeline_stages \in Nat \ {0}
  /\ Configs \subseteq
       [type : {"sarathi", "vllm", "simple_chunking", "orca", "faster_transformer"},
        vattention : BOOLEAN]

(* Requests are numbered in the order of their arrival times. *)
Requests == 1 .. NumRequests

VARIABLES
  sq,                  (* request -> its Sequence object; asked: the length  *)
                       (* of the prompt the client sent                      *)
  now,                 (* requests up to this one have reached arrival_time  *)
  waiting,             (* self.waiting                                       *)
  running,             (* self.running                                       *)
  turn,                (* whose_turn of simple_chunking                      *)
  num_running_batches, (* batches handed out and not completed               *)
  free_blocks,         (* vAttention: blocks reported free; paged: free list *)
  promised_blocks,     (* vAttention: blocks promised by this schedule       *)
  block_tables,        (* request -> blocks given; 0: not active             *)
  preemption_queue,    (* vAttention: preempted, worker not yet told         *)
  config,              (* scheduler type and backend, fixed at start         *)
  (* Locals of schedule(): *)
  phase,               (* the loop being run                                 *)
  kept,                (* running: the next self.running                     *)
  prefills,            (* running_prefills                                   *)
  batch,               (* scheduled_seq_metadata_list                        *)
  num_batched_tokens,  (* tokens of the batch that count against the limit   *)
  ignored,             (* ignored_seq_ids                                    *)
  preempted,           (* preempted_seq_ids                                  *)
  error                (* the exception that ended the program               *)

manager == <<free_blocks, promised_blocks, block_tables, preemption_queue>>
outputs == <<batch, num_batched_tokens, ignored, preempted>>
scheduler == <<sq, now, waiting, running, turn, num_running_batches, manager, config,
               phase, kept, prefills, outputs, error>>

policy == config.type

(* The attention backend is vAttention, not a paged one. *)
VAttention == config.vattention

Errors == {"none", "assertion", "state", "oom", "no_slot", "not_found"}

-----------------------------------------------------------------------------
(* Sequences. *)

SequenceType ==
  [status : {"absent", "waiting", "running", "paused", "finished", "ignored"},
   prompt : Nat, processed : Int, output : Nat, asked : Nat]

Absent == [status |-> "absent", prompt |-> 0, processed |-> 0, output |-> 0, asked |-> 0]

NewSequence(n) ==
  [status |-> "waiting", prompt |-> n, processed |-> 0, output |-> 0, asked |-> n]

get_len(s) == sq[s].prompt + sq[s].output

prompt_processing_finished(s) == sq[s].processed = sq[s].prompt

(* Mutant: a sequence in flight counts as paused. *)
is_paused_InFlight(s) == sq[s].status \in {"running", "paused"}

is_paused(s) == sq[s].status = "paused"

is_executing(s) == sq[s].status \in {"running", "paused"}

is_finished(s) == sq[s].status \in {"finished", "ignored"}

Live(s) == sq[s].status \in {"waiting", "running", "paused"}

set_status(q, status) ==
  [status |-> status, prompt |-> q.prompt, processed |-> q.processed, output |-> q.output,
   asked |-> q.asked]

(* Mutant: the prompt is not marked unprocessed. *)
reset_for_recompute_KeepsProcessed(q) ==
  [status |-> "waiting", prompt |-> q.prompt + q.output, processed |-> q.prompt + q.output,
   output |-> 0, asked |-> q.asked]

reset_for_recompute(q) ==
  [status |-> "waiting", prompt |-> q.prompt + q.output, processed |-> 0, output |-> 0,
   asked |-> q.asked]

(* A scheduled sequence and the part of its prompt to process; 0 is a decode *)
(* step (SequenceScheduleMetadata).                                          *)
Item(s, chunk) == [seq |-> s, chunk |-> chunk]

num_tokens(item) == IF item.chunk > 0 THEN item.chunk ELSE 1

-----------------------------------------------------------------------------
(* Block space managers. *)

(* The sum of n over S, as the number of pairs of a member and a count. *)
SumOver(n, S) == Cardinality(UNION {{s} \X (1 .. n[s]) : s \in S})

Total(tables) == SumOver(tables, Requests)

ceil_blocks(n) == (n + block_size - 1) \div block_size

get_num_blocks(s) == ceil_blocks(get_len(s))

(* The paged managers of orca and faster_transformer reserve a sequence of   *)
(* full length and keep no watermark.                                        *)
ReservesAll == ~VAttention /\ policy \in {"orca", "faster_transformer"}

get_num_initial_blocks(s) == IF ReservesAll THEN ceil_blocks(max_model_len) ELSE get_num_blocks(s)

(* Mutant: blocks promised to sequences earlier in this schedule are free. *)
can_allocate_Unpromised(s) ==
  free_blocks - get_num_initial_blocks(s) >= (IF ReservesAll THEN 0 ELSE watermark_blocks)

can_allocate(s) ==
  free_blocks - promised_blocks - get_num_initial_blocks(s)
    >= (IF ReservesAll THEN 0 ELSE watermark_blocks)

allocate(s) ==
  LET n == get_num_initial_blocks(s)
  IN  /\ block_tables' = [block_tables EXCEPT ![s] = n]
      /\ promised_blocks' = promised_blocks + (IF VAttention THEN n ELSE 0)
      /\ free_blocks' = free_blocks - (IF VAttention THEN 0 ELSE n)
      /\ UNCHANGED preemption_queue

(* The next token of s starts a block. *)
Crosses(s) == ceil_blocks(get_len(s) + 1) > get_num_blocks(s)

can_append_slot(s) ==
  IF VAttention THEN Crosses(s) => free_blocks - promised_blocks > 0
                ELSE free_blocks > 0

append_slot(s) ==
  LET promise == IF VAttention /\ Crosses(s) THEN 1 ELSE 0
      take == IF ~VAttention /\ block_tables[s] < get_num_blocks(s) THEN 1 ELSE 0
  IN  /\ promised_blocks' = promised_blocks + promise
      /\ free_blocks' = free_blocks - take
      /\ block_tables' = [block_tables EXCEPT ![s] = @ + take]
      /\ UNCHANGED preemption_queue

(* Blocks that free adds for s, now n tokens long; nothing if s is inactive. *)
Credit(s, n) ==
  IF block_tables[s] = 0 THEN 0
  ELSE IF VAttention THEN ceil_blocks(n)
  ELSE block_tables[s]

-----------------------------------------------------------------------------
(* schedule(): one call, from "start" to "done". *)

Init ==
  /\ sq = [s \in Requests |-> Absent]
  /\ now = 0
  /\ waiting = <<>>
  /\ running = <<>>
  /\ turn = "prefill"
  /\ num_running_batches = 0
  /\ free_blocks = num_gpu_blocks
  /\ promised_blocks = 0
  /\ block_tables = [s \in Requests |-> 0]
  /\ preemption_queue = <<>>
  /\ config \in Configs
  /\ phase = "idle"
  /\ kept = <<>>
  /\ prefills = <<>>
  /\ batch = <<>>
  /\ num_batched_tokens = 0
  /\ ignored = {}
  /\ preempted = {}
  /\ error = "none"

(* The number of elements of seqs that do not come after seqs[i] in the order *)
(* of arrival; equal ones keep their order.                                  *)
Rank(seqs, i) ==
  Cardinality({j \in DOMAIN seqs : seqs[j] < seqs[i] \/ (seqs[j] = seqs[i] /\ j <= i)})

(* policy.sort_by_priority: first come, first served. *)
sort_by_priority(seqs) ==
  [k \in DOMAIN seqs |-> seqs[CHOOSE i \in DOMAIN seqs : Rank(seqs, i) = k]]

(* The elements of seqs that are in S, in their order: a list comprehension  *)
(* with a condition.                                                         *)
Those(seqs, S) ==
  LET places == {i \in DOMAIN seqs : seqs[i] \in S}
      place(k) == CHOOSE i \in places : Cardinality({j \in places : j <= i}) = k
  IN  [k \in 1 .. Cardinality(places) |-> seqs[place(k)]]

(* The chunk size of sarathi depends on the stage of the prompt when the     *)
(* schedule of chunk sizes is dynamic (more than one).                       *)
Stage(s) ==
  IF policy = "sarathi" /\ Len(chunk_sizes) > 1 THEN 1 + sq[s].processed \div tokens_per_stage
                                                ELSE 1

ChunkSize(s) == chunk_sizes[Min({Stage(s), Len(chunk_sizes)})]

(* Mutant: the part already processed is not subtracted. *)
get_seq_next_num_prefill_tokens_Whole(s) ==
  IF policy \notin {"sarathi", "simple_chunking"}
  THEN IF prompt_processing_finished(s) THEN 0 ELSE sq[s].prompt
  ELSE IF policy = "sarathi" /\ \E i \in DOMAIN batch : batch[i].chunk # 0 THEN 0
  ELSE Min({sq[s].prompt, ChunkSize(s) - num_batched_tokens})

(* _get_seq_next_num_prefill_tokens of sarathi and simple_chunking; the      *)
(* other policies schedule a whole prompt or a decode step (from_sequence).  *)
(* sarathi admits one prefill per batch: enable_rolling_prefills is False.   *)
get_seq_next_num_prefill_tokens(s) ==
  IF policy \notin {"sarathi", "simple_chunking"}
  THEN IF prompt_processing_finished(s) THEN 0 ELSE sq[s].prompt
  ELSE IF policy = "sarathi" /\ \E i \in DOMAIN batch : batch[i].chunk # 0 THEN 0
  ELSE Min({sq[s].prompt - sq[s].processed, ChunkSize(s) - num_batched_tokens})

(* Mutant: an empty batch counts as running. *)
Return_CountsEmpty(next_running) ==
  /\ phase' = "done"
  /\ running' = next_running
  /\ kept' = <<>>
  /\ num_running_batches' = num_running_batches + 1

(* Mutant: no batch counts as running. *)
Return_Uncounted(next_running) ==
  /\ phase' = "done"
  /\ running' = next_running
  /\ kept' = <<>>
  /\ UNCHANGED num_running_batches

(* The end of schedule(): the batch counts as running unless it is empty. *)
Return(next_running) ==
  /\ phase' = "done"
  /\ running' = next_running
  /\ kept' = <<>>
  /\ num_running_batches' = num_running_batches + (IF batch' = <<>> THEN 0 ELSE 1)

(* schedule() up to the first loop: nothing when all stages are busy. *)
ScheduleStart ==
  LET sorted == sort_by_priority(running)
  IN  /\ phase = "start"
      /\ IF num_running_batches >= num_pipeline_stages
         THEN /\ phase' = "done"
              /\ UNCHANGED <<running, prefills, promised_blocks>>
         ELSE /\ promised_blocks' = IF policy \in {"sarathi", "vllm"} THEN 0 ELSE promised_blocks
              /\ CASE policy = "sarathi" ->
                        phase' = "running" /\ running' = sorted /\ UNCHANGED prefills
                   [] policy = "vllm" ->
                        phase' = "waiting" /\ UNCHANGED <<running, prefills>>
                   [] policy = "simple_chunking" /\ turn = "prefill" ->
                        phase' = "prefills" /\ prefills' = sorted /\ running' = <<>>
                   [] policy = "simple_chunking" /\ turn = "decode" ->
                        phase' = "running" /\ running' = sorted /\ UNCHANGED prefills
                   [] OTHER ->
                        phase' = "decodes" /\ UNCHANGED <<running, prefills>>
      /\ UNCHANGED <<sq, now, waiting, turn, num_running_batches, free_blocks, block_tables,
                     preemption_queue, config, kept, outputs, error>>

(* orca and faster_transformer: all paused sequences decode. *)
ScheduleDecodes ==
  LET paused == Those(running, {s \in Requests : is_paused(s)})
  IN  /\ phase = "decodes"
      /\ batch' = [i \in DOMAIN paused |-> Item(paused[i], 0)]
      /\ error' = IF \A i \in DOMAIN paused : prompt_processing_finished(paused[i])
                  THEN error ELSE "assertion"
      /\ IF policy = "faster_transformer" /\ paused # <<>>
         THEN Return(running)
         ELSE phase' = "waiting" /\ UNCHANGED <<running, kept, num_running_batches>>
      /\ UNCHANGED <<sq, now, waiting, turn, manager, config, prefills, num_batched_tokens,
                     ignored, preempted>>

-----------------------------------------------------------------------------
(* The loop over self.running. *)

InRunning(s) == phase = "running" /\ running # <<>> /\ s = Head(running)

Decodes(s) == is_paused(s) /\ prompt_processing_finished(s)

(* Still in flight, or its prompt is incomplete (sarathi sets it aside). *)
RunningKeep(s) ==
  /\ InRunning(s)
  /\ ~Decodes(s)
  /\ running' = Tail(running)
  /\ IF policy = "sarathi" /\ is_paused(s)
     THEN prefills' = Append(prefills, s) /\ UNCHANGED kept
     ELSE kept' = Append(kept, s) /\ UNCHANGED prefills
  /\ error' = IF policy = "vllm" /\ is_paused(s) THEN "assertion" ELSE error
  /\ UNCHANGED <<sq, now, waiting, turn, num_running_batches, manager, config, phase, outputs>>

RunningAppend(s) ==
  /\ InRunning(s)
  /\ Decodes(s)
  /\ can_append_slot(s)
  /\ append_slot(s)
  /\ running' = Tail(running)
  /\ kept' = Append(kept, s)
  /\ batch' = Append(batch, Item(s, 0))
  /\ num_batched_tokens' = num_batched_tokens + (IF policy = "sarathi" THEN 1 ELSE 0)
  /\ UNCHANGED <<sq, now, waiting, turn, num_running_batches, config, phase, prefills, ignored,
                 preempted, error>>

(* Mutant: pop(0) for pop(-1), the oldest of the others goes. *)
Victim_First == IF Len(running) > 1 THEN 2 ELSE 1

(* The place of the sequence to preempt: the last of self.running, or the    *)
(* current one when it is the only one left.                                 *)
Victim == Len(running)

(* Mutant: the preempted sequence is not put back. *)
Requeue_Forgets(v) == waiting

(* A preempted sequence goes before all that wait. *)
Requeue(v) == <<v>> \o waiting

(* _preempt, once per iteration of the inner loop: asserts is_executing. *)
RunningPreempt(s) ==
  LET v == running[Victim]
  IN  /\ InRunning(s)
      /\ Decodes(s)
      /\ ~can_append_slot(s)
      /\ IF is_executing(v)
         THEN /\ running' = RemoveAt(running, Victim)
              /\ waiting' = Requeue(v)
              /\ free_blocks' = free_blocks + Credit(v, get_len(v))
              /\ block_tables' = [block_tables EXCEPT ![v] = 0]
              /\ preemption_queue' = IF VAttention THEN Append(preemption_queue, v)
                                                   ELSE preemption_queue
              /\ preempted' = preempted \cup {v}
              /\ UNCHANGED error
         ELSE /\ error' = "assertion"
              /\ UNCHANGED <<running, waiting, free_blocks, block_tables, preemption_queue,
                             preempted>>
      /\ UNCHANGED <<sq, now, turn, num_running_batches, promised_blocks, config, phase, kept,
                     prefills, batch, num_batched_tokens, ignored>>

RunningEnd ==
  /\ phase = "running"
  /\ running = <<>>
  /\ UNCHANGED outputs
  /\ IF policy = "sarathi"
     THEN phase' = "prefills" /\ UNCHANGED <<running, kept, num_running_batches>>
     ELSE Return(kept)
  /\ turn' = "prefill"
  /\ UNCHANGED <<sq, now, waiting, manager, config, prefills, error>>

-----------------------------------------------------------------------------
(* The loop over incomplete prompts (simple_chunking: over all of            *)
(* self.running).                                                            *)

PrefillStep ==
  LET s == Head(prefills)
      n == get_seq_next_num_prefill_tokens(s)
  IN  /\ phase = "prefills"
      /\ prefills # <<>>
      /\ prefills' = Tail(prefills)
      /\ kept' = Append(kept, s)
      /\ IF is_paused(s) /\ ~prompt_processing_finished(s) /\ n # 0
         THEN /\ batch' = Append(batch, Item(s, n))
              /\ num_batched_tokens' = num_batched_tokens + n
         ELSE UNCHANGED <<batch, num_batched_tokens>>
      /\ error' = IF Stage(s) <= Len(chunk_sizes) THEN error ELSE "assertion"
      /\ UNCHANGED <<sq, now, waiting, running, turn, num_running_batches, manager, config, phase,
                     ignored, preempted>>

PrefillsEnd ==
  /\ phase = "prefills"
  /\ prefills = <<>>
  /\ UNCHANGED batch
  /\ CASE policy = "sarathi" ->
            phase' = "waiting" /\ UNCHANGED <<running, kept, num_running_batches, turn>>
       [] policy = "simple_chunking" /\ batch # <<>> ->
            Return(kept) /\ turn' = "decode"
       [] OTHER ->
            /\ phase' = "waiting"
            /\ running' = kept
            /\ kept' = <<>>
            /\ UNCHANGED <<num_running_batches, turn>>
  /\ UNCHANGED <<sq, now, waiting, manager, config, prefills, num_batched_tokens, ignored,
                 preempted, error>>

-----------------------------------------------------------------------------
(* The loop over self.waiting. *)

(* waiting[0], once its arrival time has come. *)
InWaiting(s) == phase = "waiting" /\ waiting # <<>> /\ s = Head(waiting) /\ s <= now

TooLong(s) == get_len(s) > max_model_len

(* _check_request_prompt_length; only a WAITING sequence may be ignored. *)
WaitingIgnore(s) ==
  /\ InWaiting(s)
  /\ TooLong(s)
  /\ IF sq[s].status = "waiting"
     THEN /\ sq' = [sq EXCEPT ![s] = set_status(sq[s], "ignored")]
          /\ waiting' = Tail(waiting)
          /\ ignored' = ignored \cup {s}
          /\ UNCHANGED error
     ELSE /\ error' = "state"
          /\ UNCHANGED <<sq, waiting, ignored>>
  /\ UNCHANGED <<now, running, turn, num_running_batches, manager, config, phase, kept, prefills,
                 batch, num_batched_tokens, preempted>>

(* The sequences that count against max_num_seqs. *)
Running == IF policy = "sarathi" THEN kept ELSE running

(* Mutant: a sequence is admitted without a token to process. *)
Fits_AnyChunk(s) ==
  /\ can_allocate(s)
  /\ Len(Running) < max_num_seqs
  /\ policy = "vllm" => num_batched_tokens + get_len(s) <= max_num_batched_tokens

(* The conditions under which waiting[0] is admitted. *)
Fits(s) ==
  /\ can_allocate(s)
  /\ Len(Running) < max_num_seqs
  /\ policy = "vllm" => num_batched_tokens + get_len(s) <= max_num_batched_tokens
  /\ policy \in {"sarathi", "simple_chunking"} => get_seq_next_num_prefill_tokens(s) # 0

(* Where the loop asks for the chunk of waiting[0], the schedule of chunk    *)
(* sizes has a stage for it (an assertion).                                  *)
WaitingAsserts ==
  \A s \in Requests :
    InWaiting(s) /\ can_allocate(s) /\ Len(Running) < max_num_seqs => Stage(s) <= Len(chunk_sizes)

WaitingAdmit(s) ==
  /\ InWaiting(s)
  /\ ~TooLong(s)
  /\ Fits(s)
  /\ waiting' = Tail(waiting)
  /\ allocate(s)
  /\ IF policy = "sarathi"
     THEN kept' = Append(kept, s) /\ UNCHANGED running
     ELSE running' = Append(running, s) /\ UNCHANGED kept
  /\ batch' = Append(batch, Item(s, get_seq_next_num_prefill_tokens(s)))
  /\ num_batched_tokens' = num_batched_tokens
       + (IF policy = "vllm" THEN get_len(s) ELSE get_seq_next_num_prefill_tokens(s))
  /\ error' = IF WaitingAsserts THEN error ELSE "assertion"
  /\ UNCHANGED <<sq, now, turn, num_running_batches, config, phase, prefills, ignored, preempted>>

WaitingEnd ==
  /\ phase = "waiting"
  /\ \A s \in Requests : InWaiting(s) => ~TooLong(s) /\ ~Fits(s)
  /\ UNCHANGED batch
  /\ CASE policy = "sarathi" ->
            Return(kept) /\ UNCHANGED turn
       [] policy \in {"vllm", "simple_chunking"} /\ batch = <<>> /\ ignored = {} ->
            /\ phase' = "running"
            /\ running' = sort_by_priority(running)
            /\ UNCHANGED <<kept, num_running_batches, turn>>
       [] OTHER ->
            Return(running) /\ turn' = IF policy = "simple_chunking" THEN "decode" ELSE turn
  /\ error' = IF WaitingAsserts THEN error ELSE "assertion"
  /\ UNCHANGED <<sq, now, waiting, manager, config, prefills, num_batched_tokens, ignored,
                 preempted>>

ScheduleStep ==
  \/ ScheduleStart
  \/ ScheduleDecodes
  \/ \E s \in Requests : RunningKeep(s) \/ RunningAppend(s) \/ RunningPreempt(s)
  \/ RunningEnd
  \/ PrefillStep
  \/ PrefillsEnd
  \/ \E s \in Requests : WaitingIgnore(s) \/ WaitingAdmit(s)
  \/ WaitingEnd

-----------------------------------------------------------------------------
(* Calls of the engine. *)

(* add_request: requests come in the order of their arrival times. *)
add_seq(s, n) ==
  /\ sq[s].status = "absent"
  /\ s > 1 => sq[s - 1].status # "absent"
  /\ sq' = [sq EXCEPT ![s] = NewSequence(n)]
  /\ waiting' = Append(waiting, s)
  /\ UNCHANGED <<now, running, turn, num_running_batches, manager, config, phase, kept, prefills,
                 outputs, error>>

(* The clock passes the arrival time of the next request. *)
Tick ==
  /\ now < NumRequests
  /\ now' = now + 1
  /\ UNCHANGED <<sq, waiting, running, turn, num_running_batches, manager, config, phase, kept,
                 prefills, outputs, error>>

(* Sequence managers of engine and worker, on their sequence objects q.      *)

ItemOf(items, s) == items[CHOOSE i \in DOMAIN items : items[i].seq = s]

SeqsOf(items) == {items[i].seq : i \in DOMAIN items}

(* Mutant: only a waiting sequence is set running, not a paused one. *)
on_schedule_PausedStay(q, items, gone) ==
  LET p == [s \in Requests |-> IF s \in gone THEN reset_for_recompute(q[s]) ELSE q[s]]
  IN  [s \in Requests |-> IF s \in SeqsOf(items) /\ p[s].status = "waiting"
                          THEN set_status(p[s], "running") ELSE p[s]]

(* on_schedule: preempted sequences restart from their whole text, scheduled *)
(* ones run.                                                                 *)
on_schedule(q, items, gone) ==
  LET p == [s \in Requests |-> IF s \in gone THEN reset_for_recompute(q[s]) ELSE q[s]]
  IN  [s \in Requests |-> IF s \in SeqsOf(items) THEN set_status(p[s], "running") ELSE p[s]]

(* Its assertions: _preempt_seq, _resume_seq. *)
on_schedule_asserts(q, items, gone) ==
  /\ Cardinality(SeqsOf(items)) = Len(items)
  /\ \A s \in gone : q[s].status \in {"running", "paused"}
  /\ \A s \in SeqsOf(items) : s \in gone \/ q[s].status \in {"waiting", "paused"}

(* _process_seq_output: a prompt advances, and the token sampled with it is  *)
(* dropped; a decode appends its token and may stop (check_stop).            *)
process_seq_output(q, chunk, stop) ==
  IF q.processed < q.prompt
  THEN [status |-> "paused", prompt |-> q.prompt, processed |-> q.processed + chunk,
        output |-> q.output, asked |-> q.asked]
  ELSE [status |-> IF stop \/ q.output + 1 = max_tokens THEN "finished" ELSE "paused",
        prompt |-> q.prompt, processed |-> q.processed, output |-> q.output + 1,
        asked |-> q.asked]

(* update_prompt_tokens_processed asserts a positive chunk within the prompt. *)
process_asserts(q, chunk) ==
  q.processed < q.prompt => chunk > 0 /\ q.processed + chunk <= q.prompt
============================================================================
