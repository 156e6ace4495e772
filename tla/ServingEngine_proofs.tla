----------------------- MODULE ServingEngine_proofs -----------------------
(***************************************************************************)
(* The serving engine, for any number of requests, lengths and blocks, in  *)
(* four layers of inductive invariants.                                    *)
(*                                                                         *)
(*  - Inv, for every policy and both backends: where schedule() stands,    *)
(*    which sequence is in which list, who is paused, batched or           *)
(*    preempted, and the order of arrival along self.running.              *)
(*  - ChunkInv and PreemptInv, with one chunk size: the tokens of a batch  *)
(*    of sarathi, and why what was just preempted is not admitted again.   *)
(*  - ResidentInv, for the policies made for vAttention: a sequence that   *)
(*    runs has its tokens in a slot that nobody is about to free.          *)
(*  - SafeInv, for the same policies: who has a slot, and why there is one *)
(*    for every batch and every assertion holds.                           *)
(***************************************************************************)
EXTENDS ServingEngine, Scheduler_proofs

-----------------------------------------------------------------------------
(* The inductive invariants. *)

(* A live sequence is in one of the four lists, once. *)
QueueInv ==
  /\ IsInjective(waiting) /\ IsInjective(running) /\ IsInjective(kept) /\ IsInjective(prefills)
  /\ Range(waiting) \cap Range(running) = {}
  /\ Range(waiting) \cap Range(kept) = {}
  /\ Range(waiting) \cap Range(prefills) = {}
  /\ Range(running) \cap Range(kept) = {}
  /\ Range(running) \cap Range(prefills) = {}
  /\ Range(kept) \cap Range(prefills) = {}
  /\ \A s \in Requests :
       Live(s) <=> s \in Range(waiting) \cup Range(running) \cup Range(kept) \cup Range(prefills)

(* Where schedule() stands: the lists and outputs that are empty there, the  *)
(* policies that get there, and the batches that count as running.           *)
ControlInv ==
  /\ phase \in {"idle", "start", "decodes"} => batch = <<>> /\ ignored = {} /\ preempted = {}
  /\ phase \in {"idle", "start", "decodes", "done", "forward"} => kept = <<>> /\ prefills = <<>>
  /\ phase = "running" => /\ policy \in {"sarathi", "vllm", "simple_chunking"}
                          /\ policy # "sarathi" => prefills = <<>>
  /\ phase = "prefills" => /\ running = <<>>
                           /\ policy \in {"sarathi", "simple_chunking"}
                           /\ policy # "sarathi" => preempted = {}
  /\ phase = "waiting" => /\ prefills = <<>>
                          /\ policy = "sarathi" => running = <<>>
                          /\ policy # "sarathi" => kept = <<>> /\ preempted = {}
  /\ phase = "decodes" => policy \in {"orca", "faster_transformer"}
  /\ phase = "forward" => batch # <<>>
  /\ num_running_batches = IF phase \in {"done", "forward"} /\ batch # <<>> THEN 1 ELSE 0

(* What the worker's cache takes is within the cache. *)
MemoryInv == VAttention /\ error = "none" => Blocks(context) <= num_gpu_blocks

(* How far a sequence has got. *)
ProgressInv ==
  error = "none" =>
    \A s \in Requests :
      /\ 0 <= sq[s].processed /\ sq[s].processed <= sq[s].prompt
      /\ sq[s].processed < sq[s].prompt => sq[s].output = 0
      /\ sq[s].status = "waiting" => sq[s].processed = 0 /\ sq[s].output = 0
      /\ Live(s) => sq[s].prompt >= 1

(* The batch has different sequences of the next self.running, and what was  *)
(* preempted is queued again or in the batch.                                *)
BatchInv ==
  /\ \A i, j \in DOMAIN batch : batch[i].seq = batch[j].seq => i = j
  /\ Batched \subseteq Range(running) \cup Range(kept)
  /\ phase \in {"running", "prefills"} => Batched \subseteq Range(kept)
  /\ phase # "forward" =>
       \A s \in preempted : is_executing(s) /\ s \in Range(waiting) \cup Batched

(* All that was admitted is paused or scheduled. *)
PausedInv ==
  \A s \in Range(running) \cup Range(kept) \cup Range(prefills) : is_paused(s) \/ s \in Batched

(* The loop over self.running goes from old to young, and preempts from the  *)
(* young end.                                                                *)
OrderInv ==
  /\ phase = "running" =>
       /\ Ascending(running)
       /\ \A s \in Range(running) : /\ \A p \in preempted : s < p
                                    /\ \A b \in Batched : b < s
  /\ \A p \in preempted, i \in DOMAIN batch : batch[i].chunk = 0 => batch[i].seq < p

(* With one chunk size, sarathi never has more sequences than the tokens of  *)
(* a chunk: a decode of each of them fits.                                   *)
ChunkInv ==
  policy = "sarathi" =>
    /\ \A s \in Range(prefills) : ~prompt_processing_finished(s)
    /\ Len(running) + Len(kept) + Len(prefills) <= chunk_sizes[1]
    /\ num_batched_tokens <= chunk_sizes[1]
    /\ batch = <<>> => num_batched_tokens = 0
    /\ phase = "running" => \A i \in DOMAIN batch : batch[i].chunk = 0
    /\ phase \in {"running", "prefills", "waiting"} /\ error = "none" /\
         (\A i \in DOMAIN batch : batch[i].chunk = 0) => num_batched_tokens = Len(kept)

(* The counter of schedule() is the number of tokens of the batch. *)
TokensInv == policy = "sarathi" => num_batched_tokens = BatchTokens

(* waiting[0], just preempted, cannot be admitted in the same schedule: its  *)
(* own blocks are all there is, and one of them goes to the sequence it was  *)
(* preempted for; or there is no token of its prompt to process.             *)
Barred(v) ==
  \/ free_blocks - promised_blocks < get_num_blocks(v)
  \/ prompt_processing_finished(v)
  \/ /\ phase = "running" /\ running # <<>>
     /\ Decodes(Head(running)) /\ Crosses(Head(running))
     /\ free_blocks - promised_blocks <= get_num_blocks(v)

PreemptInv ==
  /\ ~VAttention => preemption_queue = <<>>
  /\ VAttention /\ phase \notin {"idle", "forward"} => Range(preemption_queue) = preempted
  /\ Range(preemption_queue) \subseteq Range(waiting)
  /\ VAttention /\ policy = "sarathi" /\ phase \in {"running", "prefills", "waiting"}
       /\ preempted # {} =>
       waiting # <<>> /\ Head(waiting) \in preempted /\ Barred(Head(waiting))

(* The slot of a paused sequence holds the tokens it has processed. *)
Resident(s) ==
  kv[s] >= IF sq[s].processed < sq[s].prompt THEN sq[s].processed ELSE get_len(s) - 1

(* What was admitted and is not in flight has its tokens in a slot that is   *)
(* not about to be freed.                                                    *)
SlotsInv ==
  \A s \in Range(running) \cup Range(kept) \cup Range(prefills) :
    is_paused(s) => Resident(s) /\ s \notin Range(taken)

(* A decode is scheduled once the prompt is finished, a chunk before.  In    *)
(* the forward pass the context ends with what the batch adds.               *)
ItemsInv ==
  /\ phase # "forward" => \A i \in DOMAIN batch :
       /\ batch[i].chunk = 0 => Decodes(batch[i].seq)
       /\ batch[i].chunk # 0 => batch[i].chunk > 0 /\ ~prompt_processing_finished(batch[i].seq)
       /\ sq[batch[i].seq].status \in {"waiting", "paused"}
  /\ phase = "forward" => \A i \in DOMAIN batch :
       LET s == batch[i].seq
       IN  /\ context[s] = ContextLen(sq[s], batch[i].chunk)
           /\ batch[i].chunk = 0 <=> prompt_processing_finished(s)
           /\ batch[i].chunk >= 0
           /\ kv[s] >= IF batch[i].chunk > 0 THEN sq[s].processed ELSE get_len(s) - 1

(* A step that preempted all of self.running returned without output: the    *)
(* preempted sequences stay paused, and their slots fill the cache for good. *)
Stuck ==
  /\ running = <<>> /\ kept = <<>> /\ prefills = <<>> /\ batch = <<>> /\ preempted = {}
  /\ Blocks(context) >= num_gpu_blocks
  /\ phase # "idle" => free_blocks <= 0
  /\ phase \notin {"idle", "start"} => promised_blocks = 0

(* What waits is new, or was preempted in this schedule, or is stuck. *)
WaitInv ==
  \A s \in Range(waiting) :
    \/ sq[s].status = "waiting"
    \/ is_paused(s) /\ ((s \in preempted /\ phase # "forward") \/ Stuck)

(* Until something is scheduled the free blocks are those the worker does    *)
(* not use; preemption before that means that there are none.                *)
CountInv ==
  /\ phase = "start" => free_blocks = num_gpu_blocks - Blocks(context)
  /\ phase \in {"running", "prefills", "waiting"} /\ batch = <<>> /\ preempted = {} =>
       free_blocks = num_gpu_blocks - Blocks(context) /\ promised_blocks = 0
  /\ phase \in {"running", "prefills", "waiting", "done"} /\ batch = <<>> /\ preempted # {} =>
       /\ Blocks(context) >= num_gpu_blocks /\ kept = <<>>
       /\ phase = "done" => running = <<>>
  /\ phase = "running" /\ batch = <<>> => kept = <<>>

ResidentParts == SlotsInv /\ ItemsInv /\ WaitInv /\ CountInv

ResidentInv ==
  VAttention /\ policy \in {"sarathi", "vllm"} /\ error = "none" => ResidentParts

(* No sequence that was admitted has outgrown max_model_len. *)
NoneOutgrown == \A s \in Requests : is_executing(s) => ~TooLong(s)

(* The sequences of the next self.running. *)
Admitted == Range(running) \cup Range(kept) \cup Range(prefills)

(* Those that were preempted, while the worker keeps their slots. *)
Leaving == Range(preemption_queue) \cup Range(taken)

(* First come, first served: admitted sequences arrived before those that    *)
(* wait, and preempted ones before those that will be refused as too long.   *)
ArrivalInv ==
  /\ Ascending(waiting)
  /\ \A s \in Admitted, t \in Range(waiting) : s < t
  /\ \A s \in Admitted \cup Leaving : s <= now
  /\ \A s \in Leaving, t \in Range(waiting) : TooLong(t) => s < t
  /\ \A s, t \in Requests : sq[s].status = "absent" /\ s < t => sq[t].status = "absent"

(* The loop over self.running goes from old to young. *)
LoopInv ==
  phase = "running" => \A k \in Range(kept) \cup Range(prefills), s \in Range(running) : k < s

(* Those the worker is about to be told of wait, or are admitted again. *)
TakenInv ==
  /\ phase = "idle" => taken = <<>>
  /\ phase # "forward" =>
       /\ Range(taken) \subseteq Range(waiting) \cup Batched
       /\ Range(taken) \cap Range(preemption_queue) = {}
       /\ ignored # {} => Range(taken) \subseteq Batched

(* A chunk is within the prompt, and vllm's is the rest of it. *)
FitInv ==
  /\ policy = "vllm" => \A s \in Requests : is_paused(s) => prompt_processing_finished(s)
  /\ \A i \in DOMAIN batch : batch[i].chunk # 0 =>
       /\ sq[batch[i].seq].processed + batch[i].chunk <= sq[batch[i].seq].prompt
       /\ policy = "vllm" =>
            sq[batch[i].seq].processed + batch[i].chunk = sq[batch[i].seq].prompt

(* waiting[0] does not fit beside the slots that the worker keeps. *)
HeadBarred ==
  /\ waiting # <<>> /\ Head(waiting) <= now /\ ~TooLong(Head(waiting))
  /\ \/ (num_gpu_blocks - Blocks(context)) - get_num_blocks(Head(waiting)) < watermark_blocks
     \/ policy = "vllm" /\ get_len(Head(waiting)) > max_num_batched_tokens

(* Nothing is admitted, scheduled or just preempted. *)
Idle == Admitted = {} /\ batch = <<>> /\ preempted = {}

(* Why a schedule is empty. *)
EmptyInv ==
  /\ batch = <<>> => num_batched_tokens = 0
  /\ phase = "running" /\ policy = "vllm" => ignored = {}
  /\ phase = "done" /\ batch = <<>> /\ preempted = {} /\ ignored = {} => running = <<>>
  /\ (phase = "done" \/ (phase = "running" /\ policy = "vllm")) /\ Idle /\ ignored = {} =>
       (waiting # <<>> /\ Head(waiting) <= now => HeadBarred)

(* Nobody else has a slot, but those whose end the worker has not seen. *)
NoOtherHolder ==
  \A s \in Requests : context[s] > 0 =>
    \/ s \in Admitted \cup Range(preemption_queue)
    \/ s \in string_stopped
    \/ s \in Range(taken) /\ phase # "forward"

(* Who has a slot.  When a step returns without output the worker is not     *)
(* told of the preempted sequences; then nothing is ever admitted again.     *)
HoldersInv ==
  /\ \A s \in Admitted : is_paused(s) => context[s] > 0
  /\ \A s \in Range(preemption_queue) : context[s] > 0
  /\ phase # "forward" => \A s \in Range(taken) : context[s] > 0
  /\ (Idle /\ HeadBarred) \/ NoOtherHolder

(* Admitted sequences and those still to be freed have a slot each. *)
SlotCountInv ==
  Len(running) + Len(kept) + Len(prefills) + Cardinality(Range(preemption_queue)) <= max_num_seqs

SafeParts ==
  ArrivalInv /\ LoopInv /\ TakenInv /\ FitInv /\ EmptyInv /\ HoldersInv /\ SlotCountInv

(* There is a slot for everyone whose end the worker has seen or will see. *)
SlotsFit == Cardinality({s \in Requests \ string_stopped : context[s] > 0}) <= max_num_seqs

(* The inductive invariant behind NoInternalError. *)
SafeInv ==
  VAttention /\ policy \in {"sarathi", "vllm"} =>
    /\ error \in {"none", "oom"} \/ (error = "no_slot" /\ SlotsFit)
    /\ error = "none" => SafeParts

-----------------------------------------------------------------------------
(* Sums of blocks. *)

LEMMA BlocksType ==
  ASSUME NEW lens \in [Requests -> Nat]
  PROVE  Blocks(lens) \in Nat
  <1>1. [s \in Requests |-> ceil_blocks(lens[s])] \in [Requests -> Nat]
    BY CeilBlocks
  <1>2. QED  BY <1>1, SumIsNat DEF Blocks

LEMMA BlocksMonotone ==
  ASSUME NEW l \in [Requests -> Nat], NEW m \in [Requests -> Nat],
         \A s \in Requests : l[s] <= m[s]
  PROVE  Blocks(l) <= Blocks(m)
  <1> DEFINE b(lens) == [s \in Requests |-> ceil_blocks(lens[s])]
  <1>1. b(l) \in [Requests -> Nat] /\ b(m) \in [Requests -> Nat]
    BY CeilBlocks
  <1>2. \A s \in Requests : b(l)[s] <= b(m)[s]
    BY CeilBlocks
  <1>3. SumOver(b(l), Requests) <= SumOver(b(m), Requests)
    <2> HIDE DEF b
    <2> QED  BY <1>1, <1>2, SumMonotone
  <1>4. QED  BY <1>3 DEF Blocks

-----------------------------------------------------------------------------
(* Types. *)

(* The type invariant, one variable at a time. *)
TypeParts ==
  /\ sq \in [Requests -> SequenceType]
  /\ now \in 0 .. NumRequests
  /\ waiting \in Seq(Requests) /\ running \in Seq(Requests)
  /\ kept \in Seq(Requests) /\ prefills \in Seq(Requests)
  /\ preemption_queue \in Seq(Requests) /\ taken \in Seq(Requests)
  /\ turn \in {"prefill", "decode"}
  /\ num_running_batches \in Nat /\ promised_blocks \in Nat /\ free_blocks \in Nat
  /\ block_tables \in [Requests -> Nat] /\ context \in [Requests -> Nat]
  /\ kv \in [Requests -> Nat] /\ wtables \in [Requests -> Nat]
  /\ config \in Configs
  /\ phase \in {"idle", "start", "running", "prefills", "waiting", "decodes", "done", "forward"}
  /\ batch \in Seq(Items)
  /\ num_batched_tokens \in Int
  /\ ignored \subseteq Requests /\ preempted \subseteq Requests /\ reported \subseteq Requests
  /\ string_stopped \subseteq Requests
  /\ error \in Errors

LEMMA TypeSplit == TypeOK <=> TypeParts
  BY DEF TypeOK, TypeParts, Items

LEMMA LengthTypes ==
  ASSUME TypeParts, NEW s \in Requests
  PROVE  /\ sq[s] \in SequenceType
         /\ get_len(s) \in Nat /\ get_num_blocks(s) \in Nat /\ get_num_initial_blocks(s) \in Nat
         /\ ceil_blocks(get_len(s) + 1) \in Nat
         /\ Credit(s, get_len(s)) \in Nat
  <1>1. sq[s] \in SequenceType /\ block_tables[s] \in Nat /\ max_model_len \in Nat
    BY CapacityAssumption DEF TypeParts
  <1>2. get_len(s) \in Nat
    BY <1>1, SequenceFields DEF get_len
  <1>3. /\ get_num_blocks(s) \in Nat /\ ceil_blocks(max_model_len) \in Nat
        /\ ceil_blocks(get_len(s) + 1) \in Nat
    BY <1>1, <1>2, CeilBlocks DEF get_num_blocks
  <1>4. get_num_initial_blocks(s) \in Nat
    BY <1>3 DEF get_num_initial_blocks
  <1>5. Credit(s, get_len(s)) \in Nat
    BY <1>1, <1>3 DEF Credit, get_num_blocks
  <1>6. QED  BY <1>1, <1>2, <1>3, <1>4, <1>5

LEMMA TypeInit == ServingInit => TypeOK
  <1> SUFFICES ASSUME ServingInit  PROVE TypeParts
    BY TypeSplit
  <1>1. sq \in [Requests -> SequenceType]
    BY DEF ServingInit, Init, Absent, SequenceType
  <1>2. QED
    BY <1>1, EmptyList, RequestsAreNumbers, CapacityAssumption
    DEF ServingInit, Init, TypeParts, Errors

-----------------------------------------------------------------------------
(* The invariant of all policies and both backends, step by step. *)

Inv ==
  /\ TypeParts
  /\ QueueInv
  /\ ControlInv
  /\ MemoryInv
  /\ ProgressInv
  /\ BatchInv
  /\ PausedInv
  /\ OrderInv

LEMMA RunningAppendStep ==
  ASSUME Inv, error = "none", NEW s \in Requests, RunningAppend(s),
         UNCHANGED <<taken, worker, reported>>
  PROVE  Inv'
  <1>1. TypeParts /\ QueueInv /\ ControlInv /\ MemoryInv /\ ProgressInv /\ BatchInv /\ PausedInv
        /\ OrderInv
    BY DEF Inv
  <1>2. /\ phase = "running" /\ running # <<>> /\ s = Head(running)
        /\ running' = Tail(running) /\ kept' = Append(kept, s)
        /\ batch' = Append(batch, Item(s, 0))
        /\ can_append_slot(s) /\ append_slot(s) /\ Decodes(s)
        /\ num_batched_tokens' = num_batched_tokens + (IF policy = "sarathi" THEN 1 ELSE 0)
        /\ UNCHANGED <<sq, now, waiting, turn, num_running_batches, config, phase, prefills, ignored,
                       preempted, error, taken, context, kv, wtables, string_stopped,
                       reported>>
    BY DEF RunningAppend, InRunning, worker
  <1>3. /\ running \in Seq(Requests) /\ kept \in Seq(Requests) /\ batch \in Seq(Items)
        /\ IsInjective(running) /\ IsInjective(kept)
    BY <1>1 DEF TypeParts, QueueInv
  <1>4. /\ running' \in Seq(Requests) /\ s \in Range(running)
        /\ Range(running) = Range(running') \cup {s}
        /\ IsInjective(running') /\ s \notin Range(running')
    BY <1>2, <1>3, TailList
  <1>5. s \notin Range(kept) /\ s \notin Batched
    BY <1>1, <1>2, <1>4 DEF QueueInv, BatchInv
  <1>6. /\ kept' \in Seq(Requests) /\ Range(kept') = Range(kept) \cup {s} /\ IsInjective(kept')
    BY <1>2, <1>3, <1>5, AppendList
  <1>7. Adds(batch, batch', s, 0)
    BY <1>2, <1>3, AppendItem
  <1>8. TypeParts'
    <2>1. /\ promised_blocks' \in Nat /\ free_blocks' \in Nat
          /\ block_tables' \in [Requests -> Nat] /\ preemption_queue' = preemption_queue
      <3>1. promised_blocks \in Nat /\ free_blocks \in Nat /\ block_tables \in [Requests -> Nat]
        BY <1>1 DEF TypeParts
      <3>2. ~VAttention => free_blocks > 0
        BY <1>2 DEF can_append_slot
      <3>3. QED  BY <1>2, <3>1, <3>2 DEF append_slot
    <2>2. num_batched_tokens' \in Int
      BY <1>1, <1>2 DEF TypeParts
    <2>3. QED  BY <1>1, <1>2, <1>4, <1>6, <1>7, <2>1, <2>2 DEF TypeParts, Adds
  <1>9. QueueInv'
    BY <1>1, <1>2, <1>4, <1>6 DEF QueueInv, Live
  <1>10. ControlInv'
    BY <1>1, <1>2 DEF ControlInv, policy
  <1>11. MemoryInv' /\ ProgressInv'
    BY <1>1, <1>2 DEF MemoryInv, ProgressInv, VAttention, Live, Blocks
  <1>12. BatchInv'
    BY <1>1, <1>2, <1>4, <1>5, <1>6, <1>7 DEF BatchInv, Adds, Batched, is_executing
  <1>13. PausedInv'
    BY <1>1, <1>2, <1>4, <1>6, <1>7 DEF PausedInv, Adds, Batched, is_paused
  <1>14. OrderInv'
    <2>1. Ascending(running') /\ \A x \in Range(running') : s < x
      <3>1. running \in Seq(Int) /\ Ascending(running)
        BY <1>1, <1>2, <1>3, ListOfNumbers DEF OrderInv
      <3>2. QED  BY <1>2, <3>1, AscendingLists
    <2>2. /\ \A x \in Range(running) : \A p \in preempted : x < p
          /\ \A b \in Batched, x \in Range(running) : b < x
      BY <1>1, <1>2 DEF OrderInv
    <2>3. \A p \in preempted, i \in DOMAIN batch' : batch'[i].chunk = 0 => batch'[i].seq < p
      BY <1>1, <1>4, <1>7, <2>2 DEF OrderInv, Adds
    <2>4. QED  BY <1>2, <1>4, <1>7, <2>1, <2>2, <2>3 DEF OrderInv, Adds, Batched
  <1>15. QED  BY <1>8, <1>9, <1>10, <1>11, <1>12, <1>13, <1>14 DEF Inv

LEMMA PolicyType ==
  ASSUME TypeParts
  PROVE  /\ policy \in {"sarathi", "vllm", "simple_chunking", "orca", "faster_transformer"}
         /\ VAttention \in BOOLEAN
  BY LimitsAssumption DEF TypeParts, policy, VAttention

LEMMA RunningKeepStep ==
  ASSUME Inv, error = "none", NEW s \in Requests, RunningKeep(s),
         UNCHANGED <<taken, worker, reported>>
  PROVE  Inv'
  <1>1. TypeParts /\ QueueInv /\ ControlInv /\ MemoryInv /\ ProgressInv /\ BatchInv /\ PausedInv
        /\ OrderInv
    BY DEF Inv
  <1>2. /\ phase = "running" /\ running # <<>> /\ s = Head(running) /\ running' = Tail(running)
        /\ \/ policy = "sarathi" /\ prefills' = Append(prefills, s) /\ kept' = kept
           \/ kept' = Append(kept, s) /\ prefills' = prefills
        /\ error' \in {"assertion", "none"}
        /\ UNCHANGED <<sq, now, waiting, turn, num_running_batches, free_blocks, promised_blocks,
                       block_tables, preemption_queue, config, phase, batch, num_batched_tokens,
                       ignored, preempted, taken, context, kv, wtables, string_stopped,
                       reported>>
    BY DEF RunningKeep, InRunning, worker, manager, outputs
  <1>3. /\ running \in Seq(Requests) /\ kept \in Seq(Requests) /\ prefills \in Seq(Requests)
        /\ IsInjective(running) /\ IsInjective(kept) /\ IsInjective(prefills)
    BY <1>1 DEF TypeParts, QueueInv
  <1>4. /\ running' \in Seq(Requests) /\ s \in Range(running)
        /\ Range(running) = Range(running') \cup {s}
        /\ IsInjective(running') /\ s \notin Range(running')
    BY <1>2, <1>3, TailList
  <1>5. s \notin Range(kept) /\ s \notin Range(prefills)
    BY <1>1, <1>4 DEF QueueInv
  <1>6. /\ kept' \in Seq(Requests) /\ prefills' \in Seq(Requests)
        /\ IsInjective(kept') /\ IsInjective(prefills')
        /\ \/ policy = "sarathi" /\ Range(prefills') = Range(prefills) \cup {s} /\ kept' = kept
           \/ Range(kept') = Range(kept) \cup {s} /\ prefills' = prefills
    <2>1. CASE policy = "sarathi" /\ prefills' = Append(prefills, s) /\ kept' = kept
      BY <1>3, <1>5, <2>1, AppendList
    <2>2. CASE kept' = Append(kept, s) /\ prefills' = prefills
      BY <1>3, <1>5, <2>2, AppendList
    <2>3. QED  BY <1>2, <2>1, <2>2
  <1>7. TypeParts'
    BY <1>1, <1>2, <1>4, <1>6 DEF TypeParts, Errors
  <1>8. QueueInv'
    BY <1>1, <1>2, <1>4, <1>5, <1>6 DEF QueueInv, Live
  <1>9. ControlInv'
    BY <1>1, <1>2 DEF ControlInv, policy
  <1>10. MemoryInv' /\ ProgressInv'
    BY <1>1, <1>2 DEF MemoryInv, ProgressInv, VAttention, Live, Blocks
  <1>11. BatchInv'
    BY <1>1, <1>2, <1>6 DEF BatchInv, Batched, is_executing
  <1>12. PausedInv'
    BY <1>1, <1>2, <1>4, <1>6 DEF PausedInv, Batched, is_paused
  <1>13. OrderInv'
    <2>1. Ascending(running')
      <3>1. running \in Seq(Int) /\ Ascending(running)
        BY <1>1, <1>2, <1>3, ListOfNumbers DEF OrderInv
      <3>2. QED  BY <1>2, <3>1, AscendingLists
    <2>2. QED  BY <1>1, <1>2, <1>4, <2>1 DEF OrderInv, Batched
  <1>14. QED  BY <1>7, <1>8, <1>9, <1>10, <1>11, <1>12, <1>13 DEF Inv

LEMMA RunningPreemptStep ==
  ASSUME Inv, error = "none", NEW s \in Requests, RunningPreempt(s),
         UNCHANGED <<taken, worker, reported>>
  PROVE  Inv'
  <1>1. TypeParts /\ QueueInv /\ ControlInv /\ MemoryInv /\ ProgressInv /\ BatchInv /\ PausedInv
        /\ OrderInv
    BY DEF Inv
  <1> DEFINE v == running[Len(running)]
  <1>2. /\ phase = "running" /\ running # <<>>
        /\ UNCHANGED <<sq, now, turn, num_running_batches, promised_blocks, config, phase, kept,
                       prefills, batch, num_batched_tokens, ignored, taken, context, kv, wtables,
                       string_stopped, reported>>
    BY DEF RunningPreempt, InRunning, worker
  <1>3. CASE is_executing(v)
    <2>1. /\ running' = RemoveAt(running, Len(running))
          /\ waiting' = <<v>> \o waiting
          /\ free_blocks' = free_blocks + Credit(v, get_len(v))
          /\ block_tables' = [block_tables EXCEPT ![v] = 0]
          /\ preemption_queue' \in {preemption_queue, Append(preemption_queue, v)}
          /\ preempted' = preempted \cup {v}
          /\ error' = error
      BY <1>3 DEF RunningPreempt, Victim, Requeue
    <2>2. running \in Seq(Requests) /\ IsInjective(running)
      BY <1>1 DEF TypeParts, QueueInv
    <2>3. /\ running' \in Seq(Requests) /\ v \in Range(running)
          /\ Range(running) = Range(running') \cup {v}
          /\ IsInjective(running') /\ v \notin Range(running')
      BY <1>2, <2>1, <2>2, RemoveLast
    <2>4. v \in Requests
      BY <2>2, <2>3, RangeIsSubset
    <2> HIDE DEF v
    <2>5. v \notin Range(waiting) /\ v \notin Range(kept) /\ v \notin Range(prefills)
          /\ v \notin Batched
      BY <1>1, <1>2, <2>3 DEF QueueInv, BatchInv
    <2>6. /\ waiting' \in Seq(Requests) /\ Range(waiting') = Range(waiting) \cup {v}
          /\ IsInjective(waiting')
      <3>1. waiting \in Seq(Requests) /\ IsInjective(waiting)
        BY <1>1 DEF TypeParts, QueueInv
      <3>2. QED  BY <2>1, <2>4, <2>5, <3>1, ConsList
    <2>7. TypeParts'
      <3>1. free_blocks' \in Nat /\ block_tables' \in [Requests -> Nat]
        <4>1. free_blocks \in Nat /\ block_tables \in [Requests -> Nat]
          BY <1>1 DEF TypeParts
        <4>2. Credit(v, get_len(v)) \in Nat
          BY <1>1, <2>4, LengthTypes
        <4>3. QED  BY <2>1, <2>4, <4>1, <4>2
      <3>2. preemption_queue' \in Seq(Requests)
        <4>1. preemption_queue \in Seq(Requests)
          BY <1>1 DEF TypeParts
        <4>2. Append(preemption_queue, v) \in Seq(Requests)
          BY <2>4, <4>1, AppendList
        <4>3. QED  BY <2>1, <4>1, <4>2
      <3>3. QED  BY <1>1, <1>2, <2>1, <2>3, <2>4, <2>6, <3>1, <3>2 DEF TypeParts
    <2>8. QueueInv'
      BY <1>1, <1>2, <2>3, <2>5, <2>6 DEF QueueInv, Live
    <2>9. ControlInv'
      BY <1>1, <1>2, <2>1 DEF ControlInv, policy
    <2>10. MemoryInv' /\ ProgressInv'
      BY <1>1, <1>2, <2>1 DEF MemoryInv, ProgressInv, VAttention, Live, Blocks
    <2>11. BatchInv'
      BY <1>1, <1>2, <1>3, <2>1, <2>3, <2>6 DEF BatchInv, Batched, is_executing
    <2>12. PausedInv'
      BY <1>1, <1>2, <2>3 DEF PausedInv, Batched, is_paused
    <2>13. OrderInv'
      <3>1. running \in Seq(Int) /\ Ascending(running)
        BY <1>1, <1>2, <2>2, ListOfNumbers DEF OrderInv
      <3>2. Ascending(running') /\ \A x \in Range(running') : x < v
        BY <1>2, <2>1, <3>1, AscendingLists DEF v
      <3>3. \A i \in DOMAIN batch : batch[i].seq < v
        <4>1. \A b \in Batched : b < v
          BY <1>1, <1>2, <2>3 DEF OrderInv
        <4>2. QED  BY <4>1 DEF Batched, SeqsOf
      <3>4. /\ \A x \in Range(running') : (\A p \in preempted' : x < p) /\ (\A b \in Batched' : b < x)
        BY <1>1, <1>2, <2>1, <2>3, <3>2 DEF OrderInv, Batched
      <3>5. \A p \in preempted', i \in DOMAIN batch : batch[i].chunk = 0 => batch[i].seq < p
        BY <1>1, <2>1, <3>3 DEF OrderInv
      <3>6. QED  BY <1>2, <3>2, <3>4, <3>5 DEF OrderInv
    <2>14. QED  BY <2>7, <2>8, <2>9, <2>10, <2>11, <2>12, <2>13 DEF Inv
  <1>4. CASE ~is_executing(v)
    <2>1. /\ error' = "assertion"
          /\ UNCHANGED <<running, waiting, free_blocks, block_tables, preemption_queue, preempted>>
      BY <1>4 DEF RunningPreempt, Victim
    <2> HIDE DEF v
    <2>2. TypeParts'
      BY <1>1, <1>2, <2>1 DEF TypeParts, Errors
    <2>3. QueueInv' /\ ControlInv' /\ MemoryInv' /\ ProgressInv'
      BY <1>1, <1>2, <2>1 DEF QueueInv, Live, ControlInv, policy, MemoryInv, ProgressInv
    <2>4. BatchInv' /\ PausedInv' /\ OrderInv'
      BY <1>1, <1>2, <2>1
      DEF BatchInv, Batched, PausedInv, is_paused, is_executing, OrderInv
    <2>5. QED  BY <2>2, <2>3, <2>4 DEF Inv
  <1>5. QED  BY <1>3, <1>4

LEMMA RunningEndStep ==
  ASSUME Inv, error = "none", RunningEnd, UNCHANGED <<taken, worker, reported>>
  PROVE  Inv'
  <1>1. TypeParts /\ QueueInv /\ ControlInv /\ MemoryInv /\ ProgressInv /\ BatchInv /\ PausedInv
        /\ OrderInv
    BY DEF Inv
  <1>2. /\ phase = "running" /\ running = <<>> /\ turn' = "prefill"
        /\ UNCHANGED <<sq, now, waiting, free_blocks, promised_blocks, block_tables,
                       preemption_queue, config, prefills, batch, num_batched_tokens, ignored,
                       preempted, error, taken, context, kv, wtables, string_stopped,
                       reported>>
    BY DEF RunningEnd, worker, manager, outputs
  <1>3. \/ /\ policy = "sarathi" /\ phase' = "prefills"
           /\ UNCHANGED <<running, kept, num_running_batches>>
        \/ /\ policy # "sarathi" /\ phase' = "done" /\ running' = kept /\ kept' = <<>>
           /\ num_running_batches' = num_running_batches + (IF batch = <<>> THEN 0 ELSE 1)
    BY <1>2 DEF RunningEnd, Return
  <1>4. /\ kept \in Seq(Requests) /\ running' \in Seq(Requests) /\ kept' \in Seq(Requests)
        /\ Range(<<>>) = {} /\ IsInjective(<<>>)
    BY <1>1, <1>2, <1>3, EmptyList DEF TypeParts
  <1>5. TypeParts'
    <2>1. num_running_batches' \in Nat
      <3>1. num_running_batches \in Nat
        BY <1>1 DEF TypeParts
      <3>2. QED  BY <1>3, <3>1
    <2>2. QED  BY <1>1, <1>2, <1>3, <1>4, <2>1 DEF TypeParts
  <1>6. QueueInv'
    BY <1>1, <1>2, <1>3, <1>4 DEF QueueInv, Live
  <1>7. ControlInv'
    BY <1>1, <1>2, <1>3 DEF ControlInv, policy
  <1>8. MemoryInv' /\ ProgressInv'
    BY <1>1, <1>2 DEF MemoryInv, ProgressInv, VAttention, Live, Blocks
  <1>9. BatchInv'
    BY <1>1, <1>2, <1>3, <1>4 DEF BatchInv, Batched, is_executing
  <1>10. PausedInv'
    BY <1>1, <1>2, <1>3, <1>4 DEF PausedInv, Batched, is_paused
  <1>11. OrderInv'
    BY <1>1, <1>2, <1>3 DEF OrderInv, Batched
  <1>12. QED  BY <1>5, <1>6, <1>7, <1>8, <1>9, <1>10, <1>11 DEF Inv

(* What schedule() starts with under the policies. *)
LEMMA ScheduleStartCases ==
  ASSUME TypeParts, ControlInv, ScheduleStart
  PROVE  /\ phase = "start" /\ num_running_batches = 0
         /\ promised_blocks' = IF policy \in {"sarathi", "vllm"} THEN 0 ELSE promised_blocks
         /\ \/ /\ policy \in {"sarathi", "simple_chunking"} /\ phase' = "running"
               /\ running' = sort_by_priority(running) /\ prefills' = prefills
            \/ policy = "vllm" /\ phase' = "waiting" /\ UNCHANGED <<running, prefills>>
            \/ /\ policy = "simple_chunking" /\ phase' = "prefills"
               /\ prefills' = sort_by_priority(running) /\ running' = <<>>
            \/ /\ policy \in {"orca", "faster_transformer"} /\ phase' = "decodes"
               /\ UNCHANGED <<running, prefills>>
         /\ UNCHANGED <<sq, now, waiting, turn, num_running_batches, free_blocks, block_tables,
                        preemption_queue, config, kept, batch, num_batched_tokens, ignored,
                        preempted, error>>
  <1>1. phase = "start" /\ num_running_batches = 0 /\ turn \in {"prefill", "decode"}
    BY DEF ScheduleStart, ControlInv, TypeParts
  <1>2. ~(num_running_batches >= num_pipeline_stages)
    BY <1>1, LimitsAssumption
  <1> DEFINE sorted == sort_by_priority(running)
  <1>3. /\ promised_blocks' = IF policy \in {"sarathi", "vllm"} THEN 0 ELSE promised_blocks
        /\ CASE policy = "sarathi" ->
                  phase' = "running" /\ running' = sorted /\ UNCHANGED prefills
             [] policy = "vllm" ->
                  phase' = "waiting" /\ UNCHANGED <<running, prefills>>
             [] policy = "simple_chunking" /\ turn = "prefill" ->
                  phase' = "prefills" /\ prefills' = sorted /\ running' = <<>>
             [] policy = "simple_chunking" /\ turn = "decode" ->
                  phase' = "running" /\ running' = sorted /\ UNCHANGED prefills
             [] OTHER ->
                  phase' = "decodes" /\ UNCHANGED <<running, prefills>>
        /\ UNCHANGED <<sq, now, waiting, turn, num_running_batches, free_blocks, block_tables,
                       preemption_queue, config, kept, batch, num_batched_tokens, ignored,
                       preempted, error>>
    BY <1>2 DEF ScheduleStart, outputs
  <1> HIDE DEF sorted
  <1>4. \/ policy = "sarathi" \/ policy = "vllm" \/ policy = "simple_chunking"
        \/ policy \in {"orca", "faster_transformer"}
    BY PolicyType
  <1>5. CASE policy = "sarathi"
    BY <1>1, <1>3, <1>5 DEF sorted
  <1>6. CASE policy = "vllm"
    BY <1>1, <1>3, <1>6 DEF sorted
  <1>7. CASE policy = "simple_chunking"
    <2>1. CASE turn = "prefill"
      BY <1>1, <1>3, <1>7, <2>1 DEF sorted
    <2>2. CASE turn = "decode"
      BY <1>1, <1>3, <1>7, <2>2 DEF sorted
    <2>3. QED  BY <1>1, <2>1, <2>2
  <1>8. CASE policy \in {"orca", "faster_transformer"}
    BY <1>1, <1>3, <1>8 DEF sorted
  <1>9. QED  BY <1>4, <1>5, <1>6, <1>7, <1>8

LEMMA ScheduleStartStep ==
  ASSUME Inv, error = "none", ScheduleStart, UNCHANGED <<taken, worker, reported>>
  PROVE  Inv'
  <1>1. TypeParts /\ QueueInv /\ ControlInv /\ MemoryInv /\ ProgressInv /\ BatchInv /\ PausedInv
        /\ OrderInv
    BY DEF Inv
  <1>2. /\ phase = "start" /\ num_running_batches = 0
        /\ promised_blocks' = IF policy \in {"sarathi", "vllm"} THEN 0 ELSE promised_blocks
        /\ UNCHANGED <<sq, now, waiting, turn, num_running_batches, free_blocks, block_tables,
                       preemption_queue, config, kept, batch, num_batched_tokens, ignored,
                       preempted, error, taken, context, kv, wtables, string_stopped,
                       reported>>
    BY <1>1, ScheduleStartCases DEF worker
  <1> DEFINE sorted == sort_by_priority(running)
  <1>3. \/ /\ policy \in {"sarathi", "simple_chunking"} /\ phase' = "running"
           /\ running' = sorted /\ prefills' = prefills
        \/ policy = "vllm" /\ phase' = "waiting" /\ UNCHANGED <<running, prefills>>
        \/ /\ policy = "simple_chunking" /\ phase' = "prefills"
           /\ prefills' = sorted /\ running' = <<>>
        \/ /\ policy \in {"orca", "faster_transformer"} /\ phase' = "decodes"
           /\ UNCHANGED <<running, prefills>>
    BY <1>1, ScheduleStartCases
  <1>4. /\ running \in Seq(Requests) /\ IsInjective(running)
        /\ kept = <<>> /\ prefills = <<>> /\ batch = <<>> /\ preempted = {}
    BY <1>1, <1>2 DEF TypeParts, QueueInv, ControlInv
  <1>5. /\ sorted \in Seq(Requests) /\ Range(sorted) = Range(running)
        /\ IsInjective(sorted) /\ Ascending(sorted)
    BY <1>4, RequestsAreNumbers, SortedList
  <1> HIDE DEF sorted
  <1>6. <<>> \in Seq(Requests) /\ Range(<<>>) = {} /\ IsInjective(<<>>)
    BY EmptyList
  <1>7. TypeParts'
    <2>1. promised_blocks' \in Nat
      BY <1>1, <1>2 DEF TypeParts
    <2>2. QED  BY <1>1, <1>2, <1>3, <1>4, <1>5, <1>6, <2>1 DEF TypeParts
  <1>8. QueueInv'
    <2>1. CASE running' = sorted /\ prefills' = prefills
      BY <1>1, <1>2, <1>4, <1>5, <2>1 DEF QueueInv, Live
    <2>2. CASE UNCHANGED <<running, prefills>>
      BY <1>1, <1>2, <2>2 DEF QueueInv, Live
    <2>3. CASE prefills' = sorted /\ running' = <<>>
      BY <1>1, <1>2, <1>4, <1>5, <1>6, <2>3 DEF QueueInv, Live
    <2>4. QED  BY <1>3, <2>1, <2>2, <2>3
  <1>9. ControlInv'
    BY <1>1, <1>2, <1>3, <1>4 DEF ControlInv, policy
  <1>10. MemoryInv' /\ ProgressInv'
    BY <1>1, <1>2 DEF MemoryInv, ProgressInv, VAttention, Live, Blocks
  <1>11. Batched = {} /\ Batched' = {}
    BY <1>2, <1>4 DEF Batched, SeqsOf
  <1>12. BatchInv'
    BY <1>1, <1>2, <1>4, <1>11 DEF BatchInv
  <1>13. PausedInv'
    BY <1>1, <1>2, <1>3, <1>4, <1>5, <1>6, <1>11 DEF PausedInv, is_paused
  <1>14. OrderInv'
    BY <1>2, <1>3, <1>4, <1>5, <1>11 DEF OrderInv
  <1>15. QED  BY <1>7, <1>8, <1>9, <1>10, <1>12, <1>13, <1>14 DEF Inv

LEMMA ChunkSizeType ==
  ASSUME TypeParts, ProgressInv, error = "none", NEW s \in Requests
  PROVE  /\ Stage(s) \in Int
         /\ ChunkSize(s) \in Nat \ {0}
         /\ Len(chunk_sizes) = 1 => ChunkSize(s) = chunk_sizes[1] /\ Stage(s) = 1
  <1>1. sq[s] \in SequenceType /\ 0 <= sq[s].processed
    BY DEF TypeParts, ProgressInv
  <1>2. sq[s].processed \in Nat
    BY <1>1, SequenceFields
  <1>3. QED  BY <1>2, ChunkSizeRange

LEMMA NextChunkType ==
  ASSUME TypeParts, ProgressInv, error = "none", NEW s \in Requests
  PROVE  get_seq_next_num_prefill_tokens(s) \in Int
  <1>1. /\ sq[s].prompt \in Int /\ sq[s].processed \in Int
        /\ ChunkSize(s) \in Int /\ num_batched_tokens \in Int
    <2>1. sq[s] \in SequenceType /\ num_batched_tokens \in Int
      BY DEF TypeParts
    <2>2. QED  BY <2>1, SequenceFields, ChunkSizeType
  <1>2. Min({sq[s].prompt - sq[s].processed, ChunkSize(s) - num_batched_tokens}) \in Int
    BY <1>1, MinOfTwo
  <1>3. QED  BY <1>1, <1>2 DEF get_seq_next_num_prefill_tokens

LEMMA PrefillStepStep ==
  ASSUME Inv, error = "none", PrefillStep, UNCHANGED <<taken, worker, reported>>
  PROVE  Inv'
  <1>1. TypeParts /\ QueueInv /\ ControlInv /\ MemoryInv /\ ProgressInv /\ BatchInv /\ PausedInv
        /\ OrderInv
    BY DEF Inv
  <1> DEFINE s == Head(prefills)
             n == get_seq_next_num_prefill_tokens(s)
  <1>2. /\ phase = "prefills" /\ prefills # <<>>
        /\ prefills' = Tail(prefills) /\ kept' = Append(kept, s)
        /\ \/ /\ n # 0 /\ batch' = Append(batch, Item(s, n))
              /\ num_batched_tokens' = num_batched_tokens + n
           \/ UNCHANGED <<batch, num_batched_tokens>>
        /\ error' \in {"none", "assertion"}
        /\ UNCHANGED <<sq, now, waiting, running, turn, num_running_batches, free_blocks,
                       promised_blocks, block_tables, preemption_queue, config, phase, ignored,
                       preempted, taken, context, kv, wtables, string_stopped,
                       reported>>
    BY DEF PrefillStep, worker, manager
  <1>3. /\ prefills \in Seq(Requests) /\ kept \in Seq(Requests) /\ batch \in Seq(Items)
        /\ IsInjective(prefills) /\ IsInjective(kept)
    BY <1>1 DEF TypeParts, QueueInv
  <1>4. /\ prefills' \in Seq(Requests) /\ s \in Range(prefills) /\ s \in Requests
        /\ Range(prefills) = Range(prefills') \cup {s}
        /\ IsInjective(prefills') /\ s \notin Range(prefills')
    BY <1>2, <1>3, TailList
  <1>5. n \in Int
    BY <1>1, <1>4, NextChunkType
  <1> HIDE DEF s, n
  <1>6. s \notin Range(kept) /\ s \notin Batched
    BY <1>1, <1>2, <1>4 DEF QueueInv, BatchInv
  <1>7. /\ kept' \in Seq(Requests) /\ Range(kept') = Range(kept) \cup {s} /\ IsInjective(kept')
    BY <1>2, <1>3, <1>4, <1>6, AppendList
  <1>8. (n # 0 /\ Adds(batch, batch', s, n)) \/ batch' = batch
    BY <1>2, <1>3, <1>4, <1>5, AppendItem
  <1>9. TypeParts'
    <2>1. num_batched_tokens' \in Int
      <3>1. num_batched_tokens \in Int
        BY <1>1 DEF TypeParts
      <3>2. QED  BY <1>2, <1>5, <3>1
    <2>2. batch' \in Seq(Items)
      BY <1>3, <1>8 DEF Adds
    <2>3. QED  BY <1>1, <1>2, <1>4, <1>7, <2>1, <2>2 DEF TypeParts, Errors
  <1>10. QueueInv'
    BY <1>1, <1>2, <1>4, <1>6, <1>7 DEF QueueInv, Live
  <1>11. ControlInv'
    BY <1>1, <1>2 DEF ControlInv, policy
  <1>12. MemoryInv' /\ ProgressInv'
    BY <1>1, <1>2 DEF MemoryInv, ProgressInv, VAttention, Live, Blocks
  <1>13. BatchInv'
    <2>1. CASE Adds(batch, batch', s, n)
      BY <1>1, <1>2, <1>6, <1>7, <2>1 DEF BatchInv, Adds, Batched, is_executing
    <2>2. CASE batch' = batch
      BY <1>1, <1>2, <1>7, <2>2 DEF BatchInv, Batched, is_executing
    <2>3. QED  BY <1>8, <2>1, <2>2
  <1>14. PausedInv'
    <2>1. Batched \subseteq Batched'
      BY <1>8 DEF Adds, Batched
    <2>2. QED  BY <1>1, <1>2, <1>4, <1>7, <2>1 DEF PausedInv, is_paused
  <1>15. OrderInv'
    BY <1>1, <1>2, <1>8 DEF OrderInv, Adds
  <1>16. QED  BY <1>9, <1>10, <1>11, <1>12, <1>13, <1>14, <1>15 DEF Inv

LEMMA PrefillsEndCases ==
  ASSUME TypeParts, ControlInv, PrefillsEnd
  PROVE  /\ phase = "prefills" /\ prefills = <<>> /\ running = <<>>
         /\ UNCHANGED <<sq, now, waiting, free_blocks, promised_blocks, block_tables,
                        preemption_queue, config, prefills, batch, num_batched_tokens, ignored,
                        preempted, error>>
         /\ turn' \in {turn, "decode"}
         /\ \/ /\ policy = "sarathi" /\ phase' = "waiting"
               /\ UNCHANGED <<running, kept, num_running_batches>>
            \/ /\ policy = "simple_chunking" /\ phase' = "done" /\ batch # <<>>
               /\ running' = kept /\ kept' = <<>>
               /\ num_running_batches' = num_running_batches + 1
            \/ /\ policy = "simple_chunking" /\ phase' = "waiting" /\ batch = <<>>
               /\ running' = kept /\ kept' = <<>> /\ UNCHANGED num_running_batches
  <1>1. /\ phase = "prefills" /\ prefills = <<>> /\ running = <<>>
        /\ UNCHANGED <<sq, now, waiting, free_blocks, promised_blocks, block_tables,
                       preemption_queue, config, prefills, batch, num_batched_tokens, ignored,
                       preempted, error>>
        /\ policy \in {"sarathi", "simple_chunking"}
    BY DEF PrefillsEnd, ControlInv, manager
  <1>2. CASE policy = "sarathi"
    BY <1>1, <1>2 DEF PrefillsEnd
  <1>3. CASE policy = "simple_chunking" /\ batch # <<>>
    BY <1>1, <1>3 DEF PrefillsEnd, Return
  <1>4. CASE policy = "simple_chunking" /\ batch = <<>>
    BY <1>1, <1>4 DEF PrefillsEnd
  <1>5. QED  BY <1>1, <1>2, <1>3, <1>4

LEMMA PrefillsEndStep ==
  ASSUME Inv, error = "none", PrefillsEnd, UNCHANGED <<taken, worker, reported>>
  PROVE  Inv'
  <1>1. TypeParts /\ QueueInv /\ ControlInv /\ MemoryInv /\ ProgressInv /\ BatchInv /\ PausedInv
        /\ OrderInv
    BY DEF Inv
  <1>2. /\ phase = "prefills" /\ prefills = <<>> /\ running = <<>>
        /\ UNCHANGED <<sq, now, waiting, free_blocks, promised_blocks, block_tables,
                       preemption_queue, config, prefills, batch, num_batched_tokens, ignored,
                       preempted, error, taken, context, kv, wtables, string_stopped,
                       reported>>
        /\ turn' \in {turn, "decode"}
    BY <1>1, PrefillsEndCases DEF worker
  <1>3. \/ /\ policy = "sarathi" /\ phase' = "waiting"
           /\ UNCHANGED <<running, kept, num_running_batches>>
        \/ /\ policy = "simple_chunking" /\ phase' = "done" /\ batch # <<>>
           /\ running' = kept /\ kept' = <<>>
           /\ num_running_batches' = num_running_batches + 1
        \/ /\ policy = "simple_chunking" /\ phase' = "waiting" /\ batch = <<>>
           /\ running' = kept /\ kept' = <<>> /\ UNCHANGED num_running_batches
    BY <1>1, PrefillsEndCases
  <1>4. /\ kept \in Seq(Requests) /\ running' \in Seq(Requests) /\ kept' \in Seq(Requests)
        /\ Range(<<>>) = {} /\ IsInjective(<<>>)
    BY <1>1, <1>2, <1>3, EmptyList DEF TypeParts
  <1>5. TypeParts'
    <2>1. num_running_batches' \in Nat
      <3>1. num_running_batches \in Nat
        BY <1>1 DEF TypeParts
      <3>2. QED  BY <1>3, <3>1
    <2>2. QED  BY <1>1, <1>2, <1>3, <1>4, <2>1 DEF TypeParts
  <1>6. QueueInv'
    BY <1>1, <1>2, <1>3, <1>4 DEF QueueInv, Live
  <1>7. ControlInv'
    BY <1>1, <1>2, <1>3 DEF ControlInv, policy
  <1>8. MemoryInv' /\ ProgressInv'
    BY <1>1, <1>2 DEF MemoryInv, ProgressInv, VAttention, Live, Blocks
  <1>9. BatchInv'
    BY <1>1, <1>2, <1>3, <1>4 DEF BatchInv, Batched, is_executing
  <1>10. PausedInv'
    BY <1>1, <1>2, <1>3, <1>4 DEF PausedInv, Batched, is_paused
  <1>11. OrderInv'
    BY <1>1, <1>2, <1>3 DEF OrderInv, Batched
  <1>12. QED  BY <1>5, <1>6, <1>7, <1>8, <1>9, <1>10, <1>11 DEF Inv

LEMMA ScheduleDecodesStep ==
  ASSUME Inv, error = "none", ScheduleDecodes, UNCHANGED <<taken, worker, reported>>
  PROVE  Inv'
  <1>1. TypeParts /\ QueueInv /\ ControlInv /\ MemoryInv /\ ProgressInv /\ BatchInv /\ PausedInv
        /\ OrderInv
    BY DEF Inv
  <1> DEFINE l == Those(running, {s \in Requests : is_paused(s)})
  <1>2. /\ phase = "decodes" /\ batch' = [i \in DOMAIN l |-> Item(l[i], 0)]
        /\ error' \in {"none", "assertion"}
        /\ UNCHANGED <<sq, now, waiting, turn, free_blocks, promised_blocks, block_tables,
                       preemption_queue, config, prefills, num_batched_tokens, ignored, preempted,
                       taken, context, kv, wtables, string_stopped,
                       reported>>
    BY DEF ScheduleDecodes, worker, manager
  <1>3. /\ running' = running
        /\ \/ /\ phase' = "done" /\ l # <<>> /\ kept' = <<>>
              /\ num_running_batches' = num_running_batches + (IF batch' = <<>> THEN 0 ELSE 1)
           \/ phase' = "waiting" /\ UNCHANGED <<kept, num_running_batches>>
    BY DEF ScheduleDecodes, Return
  <1>4. /\ running \in Seq(Requests) /\ IsInjective(running)
        /\ kept = <<>> /\ prefills = <<>> /\ preempted = {} /\ num_running_batches = 0
        /\ policy \in {"orca", "faster_transformer"}
    BY <1>1, <1>2 DEF TypeParts, QueueInv, ControlInv
  <1>5. /\ l \in Seq(Requests) /\ IsInjective(l)
        /\ Range(l) = Range(running) \cap {s \in Requests : is_paused(s)}
    BY <1>4, ThoseList
  <1> HIDE DEF l
  <1>6. /\ batch' \in Seq(Items) /\ DOMAIN batch' = DOMAIN l
        /\ batch' = <<>> <=> l = <<>>
        /\ \A i \in DOMAIN batch' : batch'[i].seq = l[i] /\ batch'[i].chunk = 0
        /\ Batched' = Range(l)
    BY <1>2, <1>5, DecodeItems DEF Batched
  <1>7. Range(<<>>) = {} /\ <<>> \in Seq(Requests)
    BY EmptyList
  <1>8. TypeParts'
    <2>1. num_running_batches' \in Nat /\ phase' \in {"done", "waiting"} /\ error' \in Errors
      BY <1>2, <1>3, <1>4 DEF Errors
    <2>2. QED  BY <1>1, <1>2, <1>3, <1>4, <1>6, <1>7, <2>1 DEF TypeParts
  <1>9. QueueInv'
    BY <1>1, <1>2, <1>3, <1>4 DEF QueueInv, Live
  <1>10. ControlInv'
    BY <1>1, <1>2, <1>3, <1>4, <1>6 DEF ControlInv, policy
  <1>11. MemoryInv' /\ ProgressInv'
    BY <1>1, <1>2 DEF MemoryInv, ProgressInv, VAttention, Live, Blocks
  <1>12. BatchInv'
    <2>1. \A i, j \in DOMAIN batch' : batch'[i].seq = batch'[j].seq => i = j
      BY <1>5, <1>6 DEF IsInjective
    <2>2. QED  BY <1>2, <1>3, <1>4, <1>5, <1>6, <2>1 DEF BatchInv
  <1>13. PausedInv'
    <2>1. \A s \in Range(running) \cup Range(kept) \cup Range(prefills) : is_paused(s)
      <3>1. Batched = {}
        BY <1>1, <1>2 DEF Batched, SeqsOf, ControlInv
      <3>2. QED  BY <1>1, <3>1 DEF PausedInv
    <2>2. QED  BY <1>2, <1>3, <1>4, <2>1 DEF PausedInv, is_paused
  <1>14. OrderInv'
    BY <1>2, <1>3, <1>4 DEF OrderInv
  <1>15. QED  BY <1>8, <1>9, <1>10, <1>11, <1>12, <1>13, <1>14 DEF Inv

LEMMA WaitingIgnoreStep ==
  ASSUME Inv, error = "none", NEW s \in Requests, WaitingIgnore(s),
         UNCHANGED <<taken, worker, reported>>
  PROVE  Inv'
  <1>1. TypeParts /\ QueueInv /\ ControlInv /\ MemoryInv /\ ProgressInv /\ BatchInv /\ PausedInv
        /\ OrderInv
    BY DEF Inv
  <1>2. /\ phase = "waiting" /\ waiting # <<>> /\ s = Head(waiting)
        /\ UNCHANGED <<now, running, turn, num_running_batches, free_blocks, promised_blocks,
                       block_tables, preemption_queue, config, phase, kept, prefills, batch,
                       num_batched_tokens, preempted, taken, context, kv, wtables, string_stopped,
                       reported>>
    BY DEF WaitingIgnore, InWaiting, worker, manager
  <1>3. CASE sq[s].status = "waiting"
    <2>1. /\ sq' = [sq EXCEPT ![s] = set_status(sq[s], "ignored")]
          /\ waiting' = Tail(waiting) /\ ignored' = ignored \cup {s} /\ error' = error
      BY <1>3 DEF WaitingIgnore
    <2>2. waiting \in Seq(Requests) /\ IsInjective(waiting) /\ sq \in [Requests -> SequenceType]
      BY <1>1 DEF TypeParts, QueueInv
    <2>3. /\ waiting' \in Seq(Requests) /\ s \in Range(waiting)
          /\ Range(waiting) = Range(waiting') \cup {s}
          /\ IsInjective(waiting') /\ s \notin Range(waiting')
      BY <1>2, <2>1, <2>2, TailList
    <2>4. /\ sq' \in [Requests -> SequenceType] /\ sq'[s] = set_status(sq[s], "ignored")
          /\ \A r \in Requests : r # s => sq'[r] = sq[r]
      BY <2>1, <2>2, SequenceConstructors
    <2>5. sq'[s].status = "ignored"
      BY <2>4 DEF set_status
    <2>6. sq'[s].processed = sq[s].processed /\ sq'[s].prompt = sq[s].prompt
          /\ sq'[s].output = sq[s].output
      BY <2>4 DEF set_status
    <2>7. TypeParts'
      BY <1>1, <1>2, <2>1, <2>3, <2>4 DEF TypeParts
    <2>8. \A r \in Requests : Live(r)' <=> Live(r) /\ r # s
      BY <2>4, <2>5 DEF Live
    <2>9. s \notin Range(running) \cup Range(kept) \cup Range(prefills) /\ s \notin Batched
          /\ s \notin preempted
      BY <1>1, <1>2, <1>3, <2>3 DEF QueueInv, BatchInv, is_executing
    <2>10. QueueInv'
      BY <1>1, <1>2, <2>3, <2>8, <2>9 DEF QueueInv
    <2>11. ControlInv'
      BY <1>1, <1>2 DEF ControlInv, policy
    <2>12. MemoryInv'
      BY <1>1, <1>2, <2>1 DEF MemoryInv, VAttention, Blocks
    <2>13. ProgressInv'
      <3>1. \A r \in Requests : /\ sq'[r].processed = sq[r].processed /\ sq'[r].prompt = sq[r].prompt
                                /\ sq'[r].output = sq[r].output
        BY <2>4, <2>6
      <3>2. \A r \in Requests : sq'[r].status = "waiting" => sq[r].status = "waiting"
        BY <2>4, <2>5
      <3>3. QED  BY <1>1, <2>1, <2>8, <3>1, <3>2 DEF ProgressInv
    <2>14. Batched' = Batched /\ \A r \in preempted : r \in Requests /\ r # s
      BY <1>1, <1>2, <2>9 DEF Batched, TypeParts
    <2>15. BatchInv'
      BY <1>1, <1>2, <2>3, <2>4, <2>14 DEF BatchInv, is_executing
    <2>16. PausedInv'
      <3>1. \A r \in Range(running) \cup Range(kept) \cup Range(prefills) : r \in Requests /\ r # s
        BY <1>1, <2>9, RangeIsSubset DEF TypeParts
      <3>2. QED  BY <1>1, <1>2, <2>4, <2>14, <3>1 DEF PausedInv, is_paused
    <2>17. OrderInv'
      BY <1>1, <1>2 DEF OrderInv
    <2>18. QED  BY <2>7, <2>10, <2>11, <2>12, <2>13, <2>15, <2>16, <2>17 DEF Inv
  <1>4. CASE sq[s].status # "waiting"
    <2>1. error' = "state" /\ UNCHANGED <<sq, waiting, ignored>>
      BY <1>4 DEF WaitingIgnore
    <2>2. TypeParts'
      BY <1>1, <1>2, <2>1 DEF TypeParts, Errors
    <2>3. QueueInv' /\ ControlInv' /\ MemoryInv' /\ ProgressInv'
      BY <1>1, <1>2, <2>1 DEF QueueInv, Live, ControlInv, policy, MemoryInv, ProgressInv
    <2>4. BatchInv' /\ PausedInv' /\ OrderInv'
      BY <1>1, <1>2, <2>1
      DEF BatchInv, Batched, PausedInv, is_paused, is_executing, OrderInv
    <2>5. QED  BY <2>2, <2>3, <2>4 DEF Inv
  <1>5. QED  BY <1>3, <1>4

LEMMA WaitingAdmitStep ==
  ASSUME Inv, error = "none", NEW s \in Requests, WaitingAdmit(s),
         UNCHANGED <<taken, worker, reported>>
  PROVE  Inv'
  <1>1. TypeParts /\ QueueInv /\ ControlInv /\ MemoryInv /\ ProgressInv /\ BatchInv /\ PausedInv
        /\ OrderInv
    BY DEF Inv
  <1> DEFINE n == get_seq_next_num_prefill_tokens(s)
  <1>2. /\ phase = "waiting" /\ waiting # <<>> /\ s = Head(waiting)
        /\ waiting' = Tail(waiting) /\ can_allocate(s) /\ allocate(s)
        /\ policy = "sarathi" => n # 0
        /\ batch' = Append(batch, Item(s, n))
        /\ num_batched_tokens' = num_batched_tokens + (IF policy = "vllm" THEN get_len(s) ELSE n)
        /\ error' \in {error, "assertion"}
        /\ UNCHANGED <<sq, now, turn, num_running_batches, config, phase, prefills, ignored,
                       preempted, taken, context, kv, wtables, string_stopped,
                       reported>>
    BY DEF WaitingAdmit, InWaiting, Fits, worker
  <1>3. \/ policy = "sarathi" /\ kept' = Append(kept, s) /\ running' = running
        \/ policy # "sarathi" /\ running' = Append(running, s) /\ kept' = kept
    BY DEF WaitingAdmit
  <1>4. n \in Int
    BY <1>1, NextChunkType
  <1> HIDE DEF n
  <1>5. /\ waiting \in Seq(Requests) /\ running \in Seq(Requests) /\ kept \in Seq(Requests)
        /\ batch \in Seq(Items)
        /\ IsInjective(waiting) /\ IsInjective(running) /\ IsInjective(kept)
    BY <1>1 DEF TypeParts, QueueInv
  <1>6. /\ waiting' \in Seq(Requests) /\ s \in Range(waiting)
        /\ Range(waiting) = Range(waiting') \cup {s}
        /\ IsInjective(waiting') /\ s \notin Range(waiting')
    BY <1>2, <1>5, TailList
  <1>7. s \notin Range(running) /\ s \notin Range(kept) /\ s \notin Range(prefills)
        /\ s \notin Batched
    BY <1>1, <1>6 DEF QueueInv, BatchInv
  <1>8. /\ running' \in Seq(Requests) /\ kept' \in Seq(Requests)
        /\ IsInjective(running') /\ IsInjective(kept')
        /\ \/ policy = "sarathi" /\ Range(kept') = Range(kept) \cup {s} /\ running' = running
           \/ policy # "sarathi" /\ Range(running') = Range(running) \cup {s} /\ kept' = kept
    <2>1. CASE policy = "sarathi" /\ kept' = Append(kept, s) /\ running' = running
      BY <1>5, <1>7, <2>1, AppendList
    <2>2. CASE policy # "sarathi" /\ running' = Append(running, s) /\ kept' = kept
      BY <1>5, <1>7, <2>2, AppendList
    <2>3. QED  BY <1>3, <2>1, <2>2
  <1>9. Adds(batch, batch', s, n)
    BY <1>2, <1>4, <1>5, AppendItem
  <1>10. TypeParts'
    <2>1. /\ promised_blocks' \in Nat /\ free_blocks' \in Nat
          /\ block_tables' \in [Requests -> Nat] /\ preemption_queue' = preemption_queue
      <3> DEFINE m == get_num_initial_blocks(s)
      <3>1. /\ promised_blocks \in Nat /\ free_blocks \in Nat /\ block_tables \in [Requests -> Nat]
            /\ watermark_blocks \in Nat
        BY <1>1, LimitsAssumption DEF TypeParts
      <3>2. m \in Nat
        BY <1>1, LengthTypes
      <3>3. /\ block_tables' = [block_tables EXCEPT ![s] = m]
            /\ promised_blocks' = promised_blocks + (IF VAttention THEN m ELSE 0)
            /\ free_blocks' = free_blocks - (IF VAttention THEN 0 ELSE m)
            /\ preemption_queue' = preemption_queue
        BY <1>2 DEF allocate
      <3>4. free_blocks - promised_blocks - m >= (IF ReservesAll THEN 0 ELSE watermark_blocks)
        BY <1>2 DEF can_allocate
      <3> HIDE DEF m
      <3>5. QED  BY <3>1, <3>2, <3>3, <3>4
    <2>2. num_batched_tokens' \in Int
      BY <1>1, <1>2, <1>4, LengthTypes DEF TypeParts
    <2>3. error' \in Errors
      BY <1>1, <1>2 DEF TypeParts, Errors
    <2>4. QED  BY <1>1, <1>2, <1>6, <1>8, <1>9, <2>1, <2>2, <2>3 DEF TypeParts, Adds
  <1>11. QueueInv'
    BY <1>1, <1>2, <1>6, <1>7, <1>8 DEF QueueInv, Live
  <1>12. ControlInv'
    BY <1>1, <1>2, <1>8 DEF ControlInv, policy
  <1>13. MemoryInv' /\ ProgressInv'
    BY <1>1, <1>2 DEF MemoryInv, ProgressInv, VAttention, Live, Blocks
  <1>14. BatchInv'
    BY <1>1, <1>2, <1>6, <1>7, <1>8, <1>9 DEF BatchInv, Adds, Batched, is_executing
  <1>15. PausedInv'
    BY <1>1, <1>2, <1>8, <1>9 DEF PausedInv, Adds, Batched, is_paused
  <1>16. OrderInv'
    <2>1. policy # "sarathi" => preempted = {}
      BY <1>1, <1>2 DEF ControlInv
    <2>2. QED  BY <1>1, <1>2, <1>9, <2>1 DEF OrderInv, Adds
  <1>17. QED  BY <1>10, <1>11, <1>12, <1>13, <1>14, <1>15, <1>16 DEF Inv

LEMMA WaitingEndCases ==
  ASSUME TypeParts, ControlInv, WaitingEnd
  PROVE  /\ phase = "waiting" /\ prefills = <<>>
         /\ UNCHANGED <<sq, now, waiting, free_blocks, promised_blocks, block_tables,
                        preemption_queue, config, prefills, batch, num_batched_tokens, ignored,
                        preempted>>
         /\ error' \in {error, "assertion"}
         /\ turn' \in {turn, "decode"}
         /\ \/ /\ policy = "sarathi" /\ phase' = "done"
               /\ running = <<>> /\ running' = kept /\ kept' = <<>>
               /\ num_running_batches' = num_running_batches + (IF batch = <<>> THEN 0 ELSE 1)
            \/ /\ policy \in {"vllm", "simple_chunking"} /\ phase' = "running" /\ batch = <<>>
               /\ preempted = {}
               /\ kept = <<>> /\ running' = sort_by_priority(running)
               /\ UNCHANGED <<kept, num_running_batches>>
            \/ /\ policy # "sarathi" /\ phase' = "done" /\ preempted = {}
               /\ kept = <<>> /\ UNCHANGED <<running, kept>>
               /\ num_running_batches' = num_running_batches + (IF batch = <<>> THEN 0 ELSE 1)
  <1>1. /\ phase = "waiting" /\ prefills = <<>>
        /\ UNCHANGED <<sq, now, waiting, free_blocks, promised_blocks, block_tables,
                       preemption_queue, config, prefills, batch, num_batched_tokens, ignored,
                       preempted>>
        /\ error' \in {error, "assertion"}
        /\ policy = "sarathi" => running = <<>>
        /\ policy # "sarathi" => kept = <<>> /\ preempted = {}
    BY DEF WaitingEnd, ControlInv, manager
  <1>2. CASE policy = "sarathi"
    BY <1>1, <1>2 DEF WaitingEnd, Return
  <1>3. CASE policy \in {"vllm", "simple_chunking"} /\ batch = <<>> /\ ignored = {}
    BY <1>1, <1>3 DEF WaitingEnd
  <1>4. CASE policy # "sarathi" /\ ~(policy \in {"vllm", "simple_chunking"} /\ batch = <<>> /\ ignored = {})
    BY <1>1, <1>4 DEF WaitingEnd, Return
  <1>5. QED  BY <1>1, <1>2, <1>3, <1>4

LEMMA WaitingEndStep ==
  ASSUME Inv, error = "none", WaitingEnd, UNCHANGED <<taken, worker, reported>>
  PROVE  Inv'
  <1>1. TypeParts /\ QueueInv /\ ControlInv /\ MemoryInv /\ ProgressInv /\ BatchInv /\ PausedInv
        /\ OrderInv
    BY DEF Inv
  <1>2. /\ phase = "waiting" /\ prefills = <<>>
        /\ UNCHANGED <<sq, now, waiting, free_blocks, promised_blocks, block_tables,
                       preemption_queue, config, prefills, batch, num_batched_tokens, ignored,
                       preempted, taken, context, kv, wtables, string_stopped,
                       reported>>
        /\ error' \in {error, "assertion"}
        /\ turn' \in {turn, "decode"}
    BY <1>1, WaitingEndCases DEF worker
  <1> DEFINE sorted == sort_by_priority(running)
  <1>3. \/ /\ policy = "sarathi" /\ phase' = "done"
           /\ running = <<>> /\ running' = kept /\ kept' = <<>>
           /\ num_running_batches' = num_running_batches + (IF batch = <<>> THEN 0 ELSE 1)
        \/ /\ policy \in {"vllm", "simple_chunking"} /\ phase' = "running" /\ batch = <<>>
           /\ preempted = {}
           /\ kept = <<>> /\ running' = sorted
           /\ UNCHANGED <<kept, num_running_batches>>
        \/ /\ policy # "sarathi" /\ phase' = "done" /\ preempted = {}
           /\ kept = <<>> /\ UNCHANGED <<running, kept>>
           /\ num_running_batches' = num_running_batches + (IF batch = <<>> THEN 0 ELSE 1)
    BY <1>1, WaitingEndCases
  <1>4. /\ running \in Seq(Requests) /\ kept \in Seq(Requests)
        /\ IsInjective(running) /\ IsInjective(kept)
    BY <1>1 DEF TypeParts, QueueInv
  <1>5. /\ sorted \in Seq(Requests) /\ Range(sorted) = Range(running)
        /\ IsInjective(sorted) /\ Ascending(sorted)
    BY <1>4, RequestsAreNumbers, SortedList
  <1> HIDE DEF sorted
  <1>6. <<>> \in Seq(Requests) /\ Range(<<>>) = {} /\ IsInjective(<<>>)
    BY EmptyList
  <1>7. /\ running' \in Seq(Requests) /\ kept' \in Seq(Requests)
        /\ IsInjective(running') /\ IsInjective(kept')
        /\ Range(running') \cup Range(kept') = Range(running) \cup Range(kept)
        /\ Range(kept') = {}
    BY <1>3, <1>4, <1>5, <1>6
  <1>8. TypeParts'
    <2>1. /\ num_running_batches' \in Nat
          /\ phase' \in {"done", "running"} /\ turn' \in {"prefill", "decode"}
      <3>1. num_running_batches \in Nat /\ turn \in {"prefill", "decode"}
        BY <1>1 DEF TypeParts
      <3>2. QED  BY <1>2, <1>3, <3>1
    <2>2. error' \in Errors
      BY <1>1, <1>2 DEF TypeParts, Errors
    <2>3. QED  BY <1>1, <1>2, <1>7, <2>1, <2>2 DEF TypeParts
  <1>9. QueueInv'
    BY <1>1, <1>2, <1>7 DEF QueueInv, Live
  <1>10. ControlInv'
    BY <1>1, <1>2, <1>3 DEF ControlInv, policy
  <1>11. MemoryInv' /\ ProgressInv'
    BY <1>1, <1>2 DEF MemoryInv, ProgressInv, VAttention, Live, Blocks
  <1>12. batch = <<>> => Batched = {}
    BY DEF Batched, SeqsOf
  <1>13. BatchInv'
    BY <1>1, <1>2, <1>3, <1>7, <1>12 DEF BatchInv, Batched, is_executing
  <1>14. PausedInv'
    BY <1>1, <1>2, <1>7 DEF PausedInv, Batched, is_paused
  <1>15. OrderInv'
    BY <1>1, <1>2, <1>3, <1>5, <1>12 DEF OrderInv, Batched
  <1>16. QED  BY <1>8, <1>9, <1>10, <1>11, <1>13, <1>14, <1>15 DEF Inv

LEMMA AddRequestStep ==
  ASSUME Inv, error = "none", AddRequest
  PROVE  Inv'
  <1>1. TypeParts /\ QueueInv /\ ControlInv /\ MemoryInv /\ ProgressInv /\ BatchInv /\ PausedInv
        /\ OrderInv
    BY DEF Inv
  <1>2. PICK s \in Requests, n \in Prompts : add_seq(s, n)
    BY DEF AddRequest
  <1>3. /\ phase = "idle" /\ sq[s].status = "absent"
        /\ sq' = [sq EXCEPT ![s] = NewSequence(n)] /\ waiting' = Append(waiting, s)
        /\ UNCHANGED <<now, running, turn, num_running_batches, free_blocks, promised_blocks,
                       block_tables, preemption_queue, config, phase, kept, prefills, batch,
                       num_batched_tokens, ignored, preempted, error, taken, context, kv, wtables,
                       string_stopped, reported>>
    BY <1>2 DEF AddRequest, add_seq, manager, outputs, worker
  <1>4. /\ waiting \in Seq(Requests) /\ IsInjective(waiting) /\ sq \in [Requests -> SequenceType]
        /\ batch = <<>> /\ preempted = {}
    BY <1>1, <1>3 DEF TypeParts, QueueInv, ControlInv
  <1>5. ~Live(s)
    BY <1>3 DEF Live
  <1>6. s \notin Range(waiting) \cup Range(running) \cup Range(kept) \cup Range(prefills)
    BY <1>1, <1>5 DEF QueueInv
  <1>7. /\ waiting' \in Seq(Requests) /\ Range(waiting') = Range(waiting) \cup {s}
        /\ IsInjective(waiting')
    BY <1>3, <1>4, <1>6, AppendList
  <1>8. n \in Nat /\ n >= 1
    BY RequestsAssumption
  <1>9. /\ NewSequence(n) \in SequenceType
        /\ NewSequence(n).status = "waiting" /\ NewSequence(n).processed = 0
        /\ NewSequence(n).prompt = n /\ NewSequence(n).output = 0
    BY <1>8 DEF NewSequence, SequenceType
  <1>10. /\ sq' \in [Requests -> SequenceType] /\ sq'[s] = NewSequence(n)
         /\ \A r \in Requests : r # s => sq'[r] = sq[r]
    BY <1>3, <1>4, <1>9
  <1>11. \A r \in Requests : Live(r)' <=> Live(r) \/ r = s
    BY <1>9, <1>10 DEF Live
  <1>12. TypeParts'
    BY <1>1, <1>3, <1>7, <1>10 DEF TypeParts
  <1>13. QueueInv'
    BY <1>1, <1>3, <1>6, <1>7, <1>11 DEF QueueInv
  <1>14. ControlInv'
    BY <1>1, <1>3 DEF ControlInv, policy
  <1>15. MemoryInv'
    BY <1>1, <1>3 DEF MemoryInv, VAttention, Blocks
  <1>16. ProgressInv'
    BY <1>1, <1>3, <1>8, <1>9, <1>10, <1>11 DEF ProgressInv
  <1>17. BatchInv' /\ OrderInv'
    BY <1>1, <1>3, <1>4 DEF BatchInv, OrderInv, Batched
  <1>18. PausedInv'
    <2>1. \A r \in Range(running) \cup Range(kept) \cup Range(prefills) : r \in Requests /\ r # s
      BY <1>1, <1>6, RangeIsSubset DEF TypeParts
    <2>2. QED  BY <1>1, <1>3, <1>10, <2>1 DEF PausedInv, is_paused, Batched
  <1>19. QED  BY <1>12, <1>13, <1>14, <1>15, <1>16, <1>17, <1>18 DEF Inv

LEMMA TimePassesStep ==
  ASSUME Inv, error = "none", TimePasses
  PROVE  Inv'
  <1>1. TypeParts /\ QueueInv /\ ControlInv /\ MemoryInv /\ ProgressInv /\ BatchInv /\ PausedInv
        /\ OrderInv
    BY DEF Inv
  <1>2. /\ now < NumRequests /\ now' = now + 1
        /\ UNCHANGED <<sq, waiting, running, turn, num_running_batches, free_blocks,
                       promised_blocks, block_tables, preemption_queue, config, phase, kept,
                       prefills, batch, num_batched_tokens, ignored, preempted, error, taken,
                       context, kv, wtables, string_stopped,
                       reported>>
    BY DEF TimePasses, Tick, manager, outputs, worker
  <1>3. TypeParts'
    <2>1. now' \in 0 .. NumRequests
      BY <1>1, <1>2, RequestsAreNumbers DEF TypeParts
    <2>2. QED  BY <1>1, <1>2, <2>1 DEF TypeParts
  <1>4. QueueInv' /\ ControlInv' /\ MemoryInv' /\ ProgressInv'
    BY <1>1, <1>2 DEF QueueInv, Live, ControlInv, policy, MemoryInv, VAttention, Blocks, ProgressInv
  <1>5. BatchInv' /\ PausedInv' /\ OrderInv'
    BY <1>1, <1>2 DEF BatchInv, Batched, PausedInv, is_paused, is_executing, OrderInv
  <1>6. QED  BY <1>3, <1>4, <1>5 DEF Inv

LEMMA StepStartStep ==
  ASSUME Inv, error = "none", StepStart
  PROVE  Inv'
  <1>1. TypeParts /\ QueueInv /\ ControlInv /\ MemoryInv /\ ProgressInv /\ BatchInv /\ PausedInv
        /\ OrderInv
    BY DEF Inv
  <1>2. /\ phase = "idle" /\ phase' = "start"
        /\ free_blocks' = IF VAttention THEN num_gpu_blocks - Blocks(context) ELSE free_blocks
        /\ taken' = preemption_queue /\ preemption_queue' = <<>>
        /\ UNCHANGED <<sq, now, waiting, running, turn, num_running_batches, promised_blocks,
                       block_tables, config, kept, prefills, batch, num_batched_tokens, ignored,
                       preempted, error, context, kv, wtables, string_stopped,
                       reported>>
    BY DEF StepStart, outputs, worker
  <1>3. TypeParts'
    <2>1. Blocks(context) \in Nat
      BY <1>1, BlocksType DEF TypeParts
    <2>2. free_blocks' \in Nat
      BY <1>1, <1>2, <2>1, CapacityAssumption DEF TypeParts, MemoryInv
    <2>3. preemption_queue' \in Seq(Requests) /\ taken' \in Seq(Requests)
      BY <1>1, <1>2, EmptyList DEF TypeParts
    <2>4. QED  BY <1>1, <1>2, <2>2, <2>3 DEF TypeParts
  <1>4. QueueInv' /\ ControlInv' /\ MemoryInv' /\ ProgressInv'
    BY <1>1, <1>2 DEF QueueInv, Live, ControlInv, policy, MemoryInv, VAttention, Blocks, ProgressInv
  <1>5. BatchInv' /\ PausedInv' /\ OrderInv'
    BY <1>1, <1>2 DEF BatchInv, Batched, PausedInv, is_paused, is_executing, OrderInv
  <1>6. QED  BY <1>3, <1>4, <1>5 DEF Inv

LEMMA StepReturnsEmptyStep ==
  ASSUME Inv, error = "none", StepReturnsEmpty
  PROVE  Inv'
  <1>1. TypeParts /\ QueueInv /\ ControlInv /\ MemoryInv /\ ProgressInv /\ BatchInv /\ PausedInv
        /\ OrderInv
    BY DEF Inv
  <1>2. /\ phase = "done" /\ batch = <<>> /\ phase' = "idle"
        /\ taken' = <<>> /\ ignored' = {} /\ preempted' = {}
        /\ UNCHANGED <<sq, now, waiting, running, turn, num_running_batches, free_blocks,
                       promised_blocks, block_tables, preemption_queue, config, kept, prefills,
                       batch, num_batched_tokens, error, context, kv, wtables, string_stopped,
                       reported>>
    BY DEF StepReturnsEmpty, manager, worker
  <1>3. TypeParts'
    BY <1>1, <1>2, EmptyList DEF TypeParts
  <1>4. QueueInv' /\ ControlInv' /\ MemoryInv' /\ ProgressInv'
    BY <1>1, <1>2 DEF QueueInv, Live, ControlInv, policy, MemoryInv, VAttention, Blocks, ProgressInv
  <1>5. BatchInv' /\ PausedInv' /\ OrderInv'
    BY <1>1, <1>2 DEF BatchInv, Batched, PausedInv, is_paused, is_executing, OrderInv
  <1>6. QED  BY <1>3, <1>4, <1>5 DEF Inv

(* on_schedule, one sequence at a time. *)
LEMMA OnSchedule ==
  ASSUME TypeParts, NEW r \in Requests
  PROVE  /\ on_schedule(sq, batch, preempted)[r] =
              (LET p == IF r \in preempted THEN reset_for_recompute(sq[r]) ELSE sq[r]
               IN  IF r \in Batched THEN set_status(p, "running") ELSE p)
         /\ on_schedule(sq, batch, preempted)[r] \in SequenceType
  <1>1. sq[r] \in SequenceType
    BY DEF TypeParts
  <1>2. on_schedule(sq, batch, preempted)[r] =
          (LET p == IF r \in preempted THEN reset_for_recompute(sq[r]) ELSE sq[r]
           IN  IF r \in Batched THEN set_status(p, "running") ELSE p)
    BY DEF on_schedule, Batched
  <1>3. reset_for_recompute(sq[r]) \in SequenceType
    BY <1>1, SequenceConstructors
  <1>4. /\ set_status(sq[r], "running") \in SequenceType
        /\ set_status(reset_for_recompute(sq[r]), "running") \in SequenceType
    BY <1>1, <1>3, SequenceConstructors
  <1>5. QED  BY <1>1, <1>2, <1>3, <1>4

(* The fields of a sequence after on_schedule. *)
LEMMA OnScheduleFields ==
  ASSUME TypeParts, NEW r \in Requests, NEW q, q = on_schedule(sq, batch, preempted)[r]
  PROVE  /\ q \in SequenceType
         /\ r \in Batched => q.status = "running"
         /\ r \notin Batched => q.status = IF r \in preempted THEN "waiting" ELSE sq[r].status
         /\ r \in preempted => /\ q.processed = 0 /\ q.output = 0
                               /\ q.prompt = sq[r].prompt + sq[r].output
         /\ r \notin preempted => /\ q.processed = sq[r].processed /\ q.output = sq[r].output
                                  /\ q.prompt = sq[r].prompt
         /\ r \notin preempted /\ r \notin Batched => q = sq[r]
  <1>1. /\ q = (LET p == IF r \in preempted THEN reset_for_recompute(sq[r]) ELSE sq[r]
                IN  IF r \in Batched THEN set_status(p, "running") ELSE p)
        /\ q \in SequenceType
    BY OnSchedule
  <1>2. CASE r \in preempted /\ r \in Batched
    BY <1>1, <1>2 DEF set_status, reset_for_recompute
  <1>3. CASE r \in preempted /\ r \notin Batched
    BY <1>1, <1>3 DEF reset_for_recompute
  <1>4. CASE r \notin preempted /\ r \in Batched
    BY <1>1, <1>4 DEF set_status
  <1>5. CASE r \notin preempted /\ r \notin Batched
    BY <1>1, <1>5
  <1>6. QED  BY <1>2, <1>3, <1>4, <1>5

(* Sequences after on_schedule keep their progress. *)
LEMMA OnScheduleProgress ==
  ASSUME Inv, error = "none", phase = "done", NEW r \in Requests,
         NEW q, q = on_schedule(sq, batch, preempted)[r]
  PROVE  /\ q \in SequenceType
         /\ q.prompt \in Nat /\ q.processed \in Nat /\ q.output \in Nat
         /\ q.processed <= q.prompt
         /\ q.processed < q.prompt => q.output = 0
         /\ q.status = "waiting" => q.processed = 0 /\ q.output = 0
         /\ q.status \in {"waiting", "running", "paused"} <=> Live(r)
         /\ q.status \in {"waiting", "running", "paused"} => q.prompt >= 1
  <1>1. TypeParts /\ QueueInv /\ ProgressInv /\ BatchInv /\ ControlInv
    BY DEF Inv
  <1>2. /\ q \in SequenceType
        /\ r \in Batched => q.status = "running"
        /\ r \notin Batched => q.status = IF r \in preempted THEN "waiting" ELSE sq[r].status
        /\ r \in preempted => /\ q.processed = 0 /\ q.output = 0
                              /\ q.prompt = sq[r].prompt + sq[r].output
        /\ r \notin preempted => /\ q.processed = sq[r].processed /\ q.output = sq[r].output
                                 /\ q.prompt = sq[r].prompt
    BY <1>1, OnScheduleFields
  <1>3. /\ sq[r].prompt \in Nat /\ sq[r].processed \in Int /\ sq[r].output \in Nat
        /\ q.prompt \in Nat /\ q.processed \in Int /\ q.output \in Nat
    <2>1. sq[r] \in SequenceType
      BY <1>1 DEF TypeParts
    <2>2. QED  BY <1>2, <2>1, SequenceFields
  <1>4. /\ 0 <= sq[r].processed /\ sq[r].processed <= sq[r].prompt
        /\ sq[r].processed < sq[r].prompt => sq[r].output = 0
        /\ sq[r].status = "waiting" => sq[r].processed = 0 /\ sq[r].output = 0
        /\ Live(r) => sq[r].prompt >= 1
    BY <1>1 DEF ProgressInv
  <1>5. r \in preempted \cup Batched => Live(r)
    <2>1. r \in preempted => Live(r)
      BY <1>1 DEF BatchInv, is_executing, Live
    <2>2. r \in Batched => Live(r)
      BY <1>1 DEF BatchInv, QueueInv
    <2>3. QED  BY <2>1, <2>2
  <1>6. q.status \in {"waiting", "running", "paused"} <=> Live(r)
    BY <1>2, <1>5 DEF Live
  <1>7. CASE r \in preempted
    BY <1>2, <1>3, <1>4, <1>5, <1>6, <1>7
  <1>8. CASE r \notin preempted
    <2>1. q.status = "waiting" => sq[r].status = "waiting"
      BY <1>2, <1>8
    <2>2. QED  BY <1>2, <1>3, <1>4, <1>6, <1>8, <2>1
  <1>9. QED  BY <1>7, <1>8

LEMMA ContextLenType ==
  ASSUME NEW q \in SequenceType, 0 <= q.processed, q.processed <= q.prompt, NEW chunk \in Int
  PROVE  ContextLen(q, chunk) \in Nat
  <1>1. q.prompt \in Nat /\ q.processed \in Nat /\ q.output \in Nat
    BY SequenceFields
  <1>2. Min({chunk, q.prompt - q.processed}) = IF chunk <= q.prompt - q.processed THEN chunk
                                               ELSE q.prompt - q.processed
    BY <1>1, MinOfTwo
  <1>3. QED  BY <1>1, <1>2 DEF ContextLen

LEMMA ExecuteModelTypes ==
  ASSUME Inv, error = "none", phase = "done", NEW q, q = on_schedule(sq, batch, preempted)
  PROVE  /\ q \in [Requests -> SequenceType]
         /\ StepContexts(q) \in [Requests -> Nat]
         /\ preempt_requests(kv) \in [Requests -> Nat]
         /\ WorkerTables(q) \in [Requests -> Nat]
  <1>1. TypeParts /\ BatchInv
    BY DEF Inv
  <1>2. /\ batch \in Seq(Items) /\ context \in [Requests -> Nat] /\ kv \in [Requests -> Nat]
        /\ wtables \in [Requests -> Nat]
    BY <1>1 DEF TypeParts
  <1>3. \A r \in Requests : /\ q[r] \in SequenceType /\ 0 <= q[r].processed
                            /\ q[r].processed <= q[r].prompt
                            /\ q[r].prompt \in Nat /\ q[r].output \in Nat
    <2> TAKE r \in Requests
    <2>1. /\ q[r] \in SequenceType /\ q[r].prompt \in Nat /\ q[r].processed \in Nat
          /\ q[r].output \in Nat /\ q[r].processed <= q[r].prompt
      BY OnScheduleProgress
    <2>2. QED  BY <2>1
  <1>4. q \in [Requests -> SequenceType]
    BY <1>3 DEF on_schedule
  <1>5. preempt_requests(context) \in [Requests -> Nat] /\ preempt_requests(kv) \in [Requests -> Nat]
    BY <1>2 DEF preempt_requests
  <1>6. StepContexts(q) \in [Requests -> Nat]
    <2>1. ASSUME NEW r \in Requests, r \in Batched
          PROVE  ContextLen(q[r], ItemOf(batch, r).chunk) \in Nat
      <3>1. ItemOf(batch, r).chunk \in Int
        BY <1>2, <2>1, ItemOfBatch DEF Batched
      <3>2. QED  BY <1>3, <3>1, ContextLenType
    <2>2. QED  BY <1>5, <2>1 DEF StepContexts
  <1>7. WorkerTables(q) \in [Requests -> Nat]
    <2>1. ceil_blocks(max_model_len) \in Nat
      BY CapacityAssumption, CeilBlocks
    <2>2. \A r \in Requests : ceil_blocks(q[r].prompt + q[r].output) \in Nat
      BY <1>3, CeilBlocks
    <2>3. QED  BY <1>2, <2>1, <2>2 DEF WorkerTables
  <1>8. QED  BY <1>4, <1>5, <1>6, <1>7

LEMMA ExecuteModelStep ==
  ASSUME Inv, error = "none", ExecuteModel
  PROVE  Inv'
  <1>1. TypeParts /\ QueueInv /\ ControlInv /\ MemoryInv /\ ProgressInv /\ BatchInv /\ PausedInv
        /\ OrderInv
    BY DEF Inv
  <1>2. /\ phase = "done" /\ batch # <<>> /\ phase' = "forward"
        /\ sq' = on_schedule(sq, batch, preempted)
        /\ UNCHANGED <<now, waiting, running, turn, num_running_batches, free_blocks,
                       promised_blocks, block_tables, preemption_queue, config, kept, prefills,
                       batch, num_batched_tokens, ignored, preempted, taken, string_stopped,
                       reported>>
    BY DEF ExecuteModel, manager, outputs
  <1>3. IF VAttention
        THEN context' = StepContexts(sq') /\ kv' = preempt_requests(kv) /\ wtables' = wtables
        ELSE wtables' = WorkerTables(sq') /\ context' = context /\ kv' = kv
    BY DEF ExecuteModel
  <1>4. /\ error' \in Errors
        /\ error' = "none" /\ VAttention => ~(Blocks(context') > num_gpu_blocks)
    <2> DEFINE a == ~on_schedule_asserts(sq, batch, preempted)
               b == VAttention /\ \E s \in Range(taken) : context[s] = 0
               c == VAttention
                      /\ Cardinality({s \in Requests : StepContexts(sq')[s] > 0}) > max_num_seqs
               d == VAttention /\ Blocks(StepContexts(sq')) > num_gpu_blocks
               e == ~VAttention /\ Total(WorkerTables(sq')) > num_gpu_blocks
    <2>1. error' = CASE a -> "assertion" [] b -> "not_found" [] c -> "no_slot"
                     [] d -> "oom" [] e -> "oom" [] OTHER -> "none"
      BY DEF ExecuteModel
    <2> HIDE DEF a, b, c, e
    <2>2. error' \in {"assertion", "not_found", "no_slot", "oom", "none"}
      <3> HIDE DEF d
      <3>1. CASE a \/ b \/ c \/ d \/ e
        BY <2>1, <3>1
      <3>2. CASE ~(a \/ b \/ c \/ d \/ e)
        BY <2>1, <3>2
      <3>3. QED  BY <3>1, <3>2
    <2>3. error' = "none" => ~d
      <3> HIDE DEF d
      <3>1. CASE a \/ b \/ c \/ d \/ e
        BY <2>1, <3>1
      <3>2. QED  BY <3>1
    <2>4. QED  BY <1>3, <2>2, <2>3 DEF Errors
  <1>5. /\ sq' \in [Requests -> SequenceType] /\ context' \in [Requests -> Nat]
        /\ kv' \in [Requests -> Nat] /\ wtables' \in [Requests -> Nat]
    <2>1. /\ sq' \in [Requests -> SequenceType]
          /\ StepContexts(sq') \in [Requests -> Nat]
          /\ preempt_requests(kv) \in [Requests -> Nat]
          /\ WorkerTables(sq') \in [Requests -> Nat]
      BY <1>2, ExecuteModelTypes
    <2>2. QED  BY <1>1, <1>3, <2>1 DEF TypeParts
  <1>6. TypeParts'
    BY <1>1, <1>2, <1>4, <1>5 DEF TypeParts
  <1>7. \A r \in Requests :
          /\ sq'[r].prompt \in Nat /\ sq'[r].processed \in Nat /\ sq'[r].output \in Nat
          /\ sq'[r].processed <= sq'[r].prompt
          /\ sq'[r].processed < sq'[r].prompt => sq'[r].output = 0
          /\ sq'[r].status = "waiting" => sq'[r].processed = 0 /\ sq'[r].output = 0
          /\ Live(r)' <=> Live(r)
          /\ Live(r)' => sq'[r].prompt >= 1
    BY <1>2, OnScheduleProgress DEF Live
  <1>8. QueueInv'
    BY <1>1, <1>2, <1>7 DEF QueueInv
  <1>9. ControlInv'
    BY <1>1, <1>2 DEF ControlInv, policy
  <1>10. MemoryInv'
    <2>1. Blocks(context') \in Nat /\ num_gpu_blocks \in Nat
      BY <1>5, BlocksType, CapacityAssumption
    <2>2. VAttention' = VAttention
      BY <1>2 DEF VAttention
    <2>3. QED  BY <1>4, <2>1, <2>2 DEF MemoryInv, Blocks
  <1>11. ProgressInv'
    BY <1>7 DEF ProgressInv
  <1>12. BatchInv'
    BY <1>1, <1>2 DEF BatchInv, Batched
  <1>13. PausedInv'
    <2> SUFFICES ASSUME NEW r \in Range(running) \cup Range(kept) \cup Range(prefills),
                        r \notin Batched
                 PROVE  sq'[r].status = "paused"
      BY <1>2 DEF PausedInv, is_paused, Batched
    <2>1. r \in Requests
      BY <1>1, RangeIsSubset DEF TypeParts
    <2>2. r \notin preempted
      BY <1>1, <1>2 DEF BatchInv, QueueInv
    <2>3. sq'[r] = sq[r]
      BY <1>1, <1>2, <2>1, <2>2, OnScheduleFields
    <2>4. QED  BY <1>1, <2>3 DEF PausedInv, is_paused
  <1>14. OrderInv'
    BY <1>1, <1>2 DEF OrderInv
  <1>15. QED  BY <1>6, <1>8, <1>9, <1>10, <1>11, <1>12, <1>13, <1>14 DEF Inv

LEMMA BatchedAreRequests ==
  ASSUME TypeParts
  PROVE  Batched \subseteq Requests
  <1>1. batch \in Seq(Items)
    BY DEF TypeParts
  <1>2. \A i \in DOMAIN batch : batch[i] \in Items
    BY <1>1
  <1>3. \A i \in DOMAIN batch : batch[i].seq \in Requests
    BY <1>2 DEF Items
  <1>4. QED  BY <1>3 DEF Batched, SeqsOf

(* What the worker frees is finished in the engine too. *)
LEMMA FreedAreDone ==
  ASSUME NEW q, NEW chunk, NEW stops, NEW strings, NEW s,
         process_seq_output(q, chunk, s \in stops \ strings).status = "finished"
  PROVE  process_seq_output(q, chunk, s \in stops).status = "finished"
  BY DEF process_seq_output

(* The step of the engine, with the sequences that its worker frees. *)
LEMMA Completion ==
  ASSUME StepCompletes, Batched \subseteq Requests
  PROVE  \E stops \in SUBSET Batched, freed \in SUBSET Batched :
           LET done == {r \in Batched : sq'[r].status = "finished"}
           IN  /\ phase = "forward" /\ freed \subseteq done
               /\ sq' = [r \in Requests |->
                           IF r \in Batched
                           THEN process_seq_output(sq[r], ItemOf(batch, r).chunk, r \in stops)
                           ELSE sq[r]]
               /\ error' = IF \A i \in DOMAIN batch : process_asserts(sq[batch[i].seq], batch[i].chunk)
                           THEN "none" ELSE "assertion"
               /\ context' = [r \in Requests |-> IF r \in freed THEN 0 ELSE context[r]]
               /\ kv' = [r \in Requests |-> IF r \in Batched THEN context'[r] ELSE kv[r]]
               /\ wtables' = [r \in Requests |-> IF r \in freed THEN 0 ELSE wtables[r]]
               /\ string_stopped' = string_stopped \cup (done \ freed)
               /\ free_finished_seqs(done)
               /\ running' = Those(running, Requests \ done)
               /\ num_running_batches' = num_running_batches - 1
               /\ reported' = reported \cup ignored \cup done
               /\ phase' = "idle" /\ taken' = <<>> /\ batch' = <<>> /\ num_batched_tokens' = 0
               /\ ignored' = {} /\ preempted' = {}
               /\ UNCHANGED <<now, waiting, turn, promised_blocks, preemption_queue, config, kept,
                              prefills>>
  <1> DEFINE done == {r \in Batched : sq'[r].status = "finished"}
             freed(stops, strings) ==
               {r \in Batched : process_seq_output(sq[r], ItemOf(batch, r).chunk,
                                                   r \in stops \ strings).status = "finished"}
  <1>1. PICK stops \in SUBSET Batched, strings \in SUBSET Batched :
          /\ phase = "forward"
          /\ sq' = [r \in Requests |->
                      IF r \in Batched
                      THEN process_seq_output(sq[r], ItemOf(batch, r).chunk, r \in stops)
                      ELSE sq[r]]
          /\ error' = IF \A i \in DOMAIN batch : process_asserts(sq[batch[i].seq], batch[i].chunk)
                      THEN "none" ELSE "assertion"
          /\ context' = [r \in Requests |-> IF r \in freed(stops, strings) THEN 0 ELSE context[r]]
          /\ kv' = [r \in Requests |-> IF r \in Batched THEN context'[r] ELSE kv[r]]
          /\ wtables' = [r \in Requests |-> IF r \in freed(stops, strings) THEN 0 ELSE wtables[r]]
          /\ string_stopped' = string_stopped \cup (done \ freed(stops, strings))
          /\ free_finished_seqs(done)
          /\ running' = Those(running, Requests \ done)
          /\ num_running_batches' = num_running_batches - 1
          /\ reported' = reported \cup ignored \cup done
          /\ phase' = "idle" /\ taken' = <<>> /\ batch' = <<>> /\ num_batched_tokens' = 0
          /\ ignored' = {} /\ preempted' = {}
          /\ UNCHANGED <<now, waiting, turn, promised_blocks, preemption_queue, config, kept,
                         prefills>>
    BY Zenon DEF StepCompletes
  <1>2. PICK f : f = freed(stops, strings)
    OBVIOUS
  <1>3. f \in SUBSET Batched
    BY <1>2
  <1>4. f \subseteq done
    <2> SUFFICES ASSUME NEW r \in f  PROVE sq'[r].status = "finished"
      BY <1>3
    <2>1. process_seq_output(sq[r], ItemOf(batch, r).chunk, r \in stops \ strings).status
            = "finished"
      BY <1>2
    <2>2. process_seq_output(sq[r], ItemOf(batch, r).chunk, r \in stops).status = "finished"
      BY <2>1, FreedAreDone
    <2>3. sq'[r] = process_seq_output(sq[r], ItemOf(batch, r).chunk, r \in stops)
      BY <1>1, <1>3
    <2>4. QED  BY <2>2, <2>3
  <1> HIDE DEF done, freed
  <1>5. QED
    <2> WITNESS stops \in SUBSET Batched, f \in SUBSET Batched
    <2> QED  BY <1>1, <1>2, <1>4, Zenon DEF done

LEMMA StepCompletesStep ==
  ASSUME Inv, error = "none", StepCompletes
  PROVE  Inv'
  <1>1. TypeParts /\ QueueInv /\ ControlInv /\ MemoryInv /\ ProgressInv /\ BatchInv /\ PausedInv
        /\ OrderInv
    BY DEF Inv
  <1>0. Batched \subseteq Requests
    BY <1>1, BatchedAreRequests
  <1> DEFINE done == {r \in Batched : sq'[r].status = "finished"}
  <1>2. PICK stops \in SUBSET Batched, freed \in SUBSET Batched :
          /\ phase = "forward" /\ freed \subseteq done
          /\ sq' = [r \in Requests |->
                      IF r \in Batched
                      THEN process_seq_output(sq[r], ItemOf(batch, r).chunk, r \in stops)
                      ELSE sq[r]]
          /\ error' = IF \A i \in DOMAIN batch : process_asserts(sq[batch[i].seq], batch[i].chunk)
                      THEN "none" ELSE "assertion"
          /\ context' = [r \in Requests |-> IF r \in freed THEN 0 ELSE context[r]]
          /\ kv' = [r \in Requests |-> IF r \in Batched THEN context'[r] ELSE kv[r]]
          /\ wtables' = [r \in Requests |-> IF r \in freed THEN 0 ELSE wtables[r]]
          /\ string_stopped' = string_stopped \cup (done \ freed)
          /\ free_finished_seqs(done)
          /\ running' = Those(running, Requests \ done)
          /\ num_running_batches' = num_running_batches - 1
          /\ reported' = reported \cup ignored \cup done
          /\ phase' = "idle" /\ taken' = <<>> /\ batch' = <<>> /\ num_batched_tokens' = 0
          /\ ignored' = {} /\ preempted' = {}
          /\ UNCHANGED <<now, waiting, turn, promised_blocks, preemption_queue, config, kept,
                         prefills>>
    BY <1>0, Completion
  <1> HIDE DEF done
  <1>3. done \subseteq Batched /\ Batched \subseteq Range(running) /\ Batched \subseteq Requests
        /\ kept = <<>> /\ prefills = <<>>
    <2>1. kept = <<>> /\ prefills = <<>>
      BY <1>1, <1>2 DEF ControlInv
    <2>2. Batched \subseteq Range(running)
      BY <1>1, <2>1, EmptyList DEF BatchInv
    <2>3. QED  BY <1>1, <2>1, <2>2, RangeIsSubset DEF TypeParts, done
  <1>4. /\ running' \in Seq(Requests) /\ IsInjective(running')
        /\ Range(running') = Range(running) \cap (Requests \ done)
    <2>1. running \in Seq(Requests) /\ IsInjective(running)
      BY <1>1 DEF TypeParts, QueueInv
    <2>2. QED  BY <1>2, <2>1, ThoseList
  <1>5. \A r \in Batched :
          /\ sq'[r] \in SequenceType
          /\ sq'[r].status \in {"paused", "finished"}
          /\ sq'[r].prompt = sq[r].prompt
          /\ error' = "none" => /\ 0 <= sq'[r].processed /\ sq'[r].processed <= sq'[r].prompt
                                /\ sq'[r].processed < sq'[r].prompt => sq'[r].output = 0
    <2> TAKE r \in Batched
    <2> DEFINE chunk == ItemOf(batch, r).chunk
               stop == r \in stops
    <2>1. r \in Requests /\ sq[r] \in SequenceType
      BY <1>1, <1>3 DEF TypeParts
    <2>2. sq'[r] = process_seq_output(sq[r], chunk, stop)
      BY <1>2, <2>1
    <2>3. /\ chunk \in Int
          /\ \E i \in DOMAIN batch : chunk = batch[i].chunk /\ batch[i].seq = r
      <3>1. batch \in Seq(Items) /\ r \in SeqsOf(batch)
        BY <1>1 DEF TypeParts, Batched
      <3>2. QED  BY <3>1, ItemOfBatch
    <2>4. /\ 0 <= sq[r].processed /\ sq[r].processed <= sq[r].prompt
          /\ sq[r].processed < sq[r].prompt => sq[r].output = 0
      BY <1>1, <2>1 DEF ProgressInv
    <2>5. error' = "none" => process_asserts(sq[r], chunk)
      BY <1>2, <2>3
    <2>6. stop \in BOOLEAN
      OBVIOUS
    <2> HIDE DEF chunk, stop
    <2>7. QED  BY <2>1, <2>2, <2>3, <2>4, <2>5, <2>6, ProcessOutput
  <1>6. \A r \in Requests \ Batched : sq'[r] = sq[r]
    BY <1>2
  <1>7. sq' \in [Requests -> SequenceType]
    <2>1. \A r \in Requests : sq'[r] \in SequenceType
      BY <1>1, <1>5, <1>6 DEF TypeParts
    <2>2. sq' = [r \in Requests |-> sq'[r]]
      BY <1>2
    <2>3. QED  BY <2>1, <2>2
  <1>8. TypeParts'
    <2>1. free_blocks' \in Nat /\ block_tables' \in [Requests -> Nat]
      <3> DEFINE n == [r \in Requests |-> Credit(r, sq'[r].prompt + sq'[r].output)]
      <3>1. free_blocks \in Nat /\ block_tables \in [Requests -> Nat]
        BY <1>1 DEF TypeParts
      <3>2. n \in [Requests -> Nat]
        <4>1. \A r \in Requests : sq'[r].prompt + sq'[r].output \in Nat
          <5>1. \A r \in Requests : sq'[r] \in SequenceType
            BY <1>7
          <5>2. \A r \in Requests : sq'[r].prompt \in Nat /\ sq'[r].output \in Nat
            BY <5>1, SequenceFields
          <5>3. QED  BY <5>2
        <4>2. \A r \in Requests : ceil_blocks(sq'[r].prompt + sq'[r].output) \in Nat
          BY <4>1, CeilBlocks
        <4>3. QED  BY <3>1, <4>2 DEF Credit
      <3>3. SumOver(n, done) \in Nat
        <4> HIDE DEF n
        <4> QED  BY <1>3, <3>2, SumIsNat
      <3>4. free_blocks' = free_blocks + SumOver(n, done)
        BY <1>2 DEF free_finished_seqs
      <3>5. block_tables' = [r \in Requests |-> IF r \in done THEN 0 ELSE block_tables[r]]
        BY <1>2 DEF free_finished_seqs
      <3>6. QED  BY <3>1, <3>3, <3>4, <3>5
    <2>2. /\ context' \in [Requests -> Nat] /\ kv' \in [Requests -> Nat]
          /\ wtables' \in [Requests -> Nat]
      <3>1. context \in [Requests -> Nat] /\ kv \in [Requests -> Nat] /\ wtables \in [Requests -> Nat]
        BY <1>1 DEF TypeParts
      <3>2. context' \in [Requests -> Nat] /\ wtables' \in [Requests -> Nat]
        BY <1>2, <3>1
      <3>3. QED  BY <1>2, <3>1, <3>2
    <2>3. num_running_batches' \in Nat
      BY <1>1, <1>2 DEF ControlInv
    <2>4. reported' \subseteq Requests /\ string_stopped' \subseteq Requests
      BY <1>1, <1>2, <1>3 DEF TypeParts
    <2>5. error' \in Errors
      BY <1>2 DEF Errors
    <2>6. QED  BY <1>1, <1>2, <1>4, <1>7, <2>1, <2>2, <2>3, <2>4, <2>5, EmptyList, SMTT(30)
               DEF TypeParts
  <1>9. QueueInv'
    <2>1. \A r \in Batched : Live(r) /\ (Live(r)' <=> r \notin done)
      BY <1>1, <1>3, <1>5 DEF QueueInv, Live, done
    <2>2. \A r \in Requests \ Batched : Live(r)' <=> Live(r)
      BY <1>6 DEF Live
    <2>3. \A r \in Requests :
            Live(r)' <=> r \in Range(waiting) \cup Range(running') \cup Range(kept) \cup Range(prefills)
      BY <1>1, <1>3, <1>4, <2>1, <2>2 DEF QueueInv
    <2>4. QED  BY <1>1, <1>2, <1>4, <2>3 DEF QueueInv
  <1>10. ControlInv'
    BY <1>1, <1>2, <1>3 DEF ControlInv
  <1>11. MemoryInv'
    <2>1. /\ context \in [Requests -> Nat] /\ context' \in [Requests -> Nat]
          /\ \A r \in Requests : context'[r] <= context[r]
      BY <1>1, <1>2, <1>8 DEF TypeParts
    <2>2. Blocks(context') <= Blocks(context)
      BY <2>1, BlocksMonotone
    <2>3. Blocks(context') \in Nat /\ Blocks(context) \in Nat /\ num_gpu_blocks \in Nat
      BY <2>1, BlocksType, CapacityAssumption
    <2>4. VAttention' = VAttention
      BY <1>2 DEF VAttention
    <2>5. QED  BY <1>1, <2>2, <2>3, <2>4 DEF MemoryInv, Blocks
  <1>12. ProgressInv'
    <2> SUFFICES ASSUME error' = "none", NEW r \in Requests
                 PROVE  /\ 0 <= sq'[r].processed /\ sq'[r].processed <= sq'[r].prompt
                        /\ sq'[r].processed < sq'[r].prompt => sq'[r].output = 0
                        /\ sq'[r].status = "waiting" => sq'[r].processed = 0 /\ sq'[r].output = 0
                        /\ Live(r)' => sq'[r].prompt >= 1
      BY DEF ProgressInv
    <2>1. CASE r \in Batched
      <3>1. Live(r) /\ sq[r].prompt >= 1
        BY <1>1, <1>3, <2>1 DEF QueueInv, ProgressInv
      <3>2. sq'[r].status # "waiting"
        BY <1>5, <2>1
      <3>3. QED  BY <1>5, <2>1, <3>1, <3>2
    <2>2. CASE r \notin Batched
      BY <1>1, <1>6, <2>2 DEF ProgressInv, Live
    <2>3. QED  BY <2>1, <2>2
  <1>13. Batched' = {}
    BY <1>2 DEF Batched, SeqsOf
  <1>14. BatchInv' /\ OrderInv'
    BY <1>2, <1>13 DEF BatchInv, OrderInv
  <1>15. PausedInv'
    <2> SUFFICES ASSUME NEW r \in Range(running')  PROVE sq'[r].status = "paused"
      BY <1>2, <1>3, EmptyList DEF PausedInv, is_paused
    <2>1. r \in Range(running) /\ r \in Requests /\ r \notin done
      BY <1>4
    <2>2. CASE r \in Batched
      BY <1>5, <2>1, <2>2 DEF done
    <2>3. CASE r \notin Batched
      BY <1>1, <1>6, <2>1, <2>3 DEF PausedInv, is_paused
    <2>4. QED  BY <2>2, <2>3
  <1>16. QED  BY <1>8, <1>9, <1>10, <1>11, <1>12, <1>14, <1>15 DEF Inv

LEMMA InvInit == ServingInit => Inv
  <1> SUFFICES ASSUME ServingInit  PROVE Inv
    OBVIOUS
  <1>1. /\ sq = [s \in Requests |-> Absent] /\ context = [s \in Requests |-> 0]
        /\ waiting = <<>> /\ running = <<>> /\ kept = <<>> /\ prefills = <<>> /\ batch = <<>>
        /\ phase = "idle" /\ num_running_batches = 0 /\ ignored = {} /\ preempted = {}
        /\ error = "none"
    BY DEF ServingInit, Init
  <1>2. TypeParts
    BY TypeInit, TypeSplit
  <1>3. \A s \in Requests : /\ sq[s].status = "absent" /\ sq[s].prompt = 0 /\ sq[s].processed = 0
                            /\ sq[s].output = 0
    BY <1>1 DEF Absent
  <1>4. QueueInv
    BY <1>1, <1>3, EmptyList DEF QueueInv, Live
  <1>5. ControlInv
    BY <1>1 DEF ControlInv
  <1>6. MemoryInv
    <2> DEFINE n == [s \in Requests |-> ceil_blocks(context[s])]
    <2>1. \A s \in Requests : n[s] = 0
      BY <1>1, CeilBlocks
    <2>2. UNION {{s} \X (1 .. n[s]) : s \in Requests} = {}
      BY <2>1
    <2>3. Blocks(context) = 0
      BY <2>2, FS_EmptySet DEF Blocks, SumOver
    <2>4. QED  BY <2>3, CapacityAssumption DEF MemoryInv
  <1>7. ProgressInv
    BY <1>3 DEF ProgressInv, Live
  <1>8. BatchInv /\ PausedInv /\ OrderInv
    BY <1>1, EmptyList DEF BatchInv, PausedInv, OrderInv, Batched, SeqsOf
  <1>9. QED  BY <1>2, <1>4, <1>5, <1>6, <1>7, <1>8 DEF Inv

LEMMA InvNext == Inv /\ [Next]_vars => Inv'
  <1> SUFFICES ASSUME Inv, [Next]_vars  PROVE Inv'
    OBVIOUS
  <1>1. CASE UNCHANGED vars
    <2>1. UNCHANGED <<sq, now, waiting, running, turn, num_running_batches, free_blocks,
                      promised_blocks, block_tables, preemption_queue, config, phase, kept,
                      prefills, batch, num_batched_tokens, ignored, preempted, error, taken,
                      context, kv, wtables, string_stopped,
                       reported>>
      BY <1>1 DEF vars, scheduler, manager, outputs, worker
    <2>2. TypeParts' /\ QueueInv' /\ ControlInv' /\ MemoryInv' /\ ProgressInv'
      BY <2>1 DEF Inv, TypeParts, QueueInv, Live, ControlInv, policy, MemoryInv, VAttention, Blocks,
                  ProgressInv
    <2>3. BatchInv' /\ PausedInv' /\ OrderInv'
      BY <2>1 DEF Inv, BatchInv, Batched, is_executing, PausedInv, is_paused, OrderInv
    <2>4. QED  BY <2>2, <2>3 DEF Inv
  <1>2. CASE error = "none" /\ (AddRequest \/ TimePasses \/ Step)
    <2>1. CASE AddRequest
      BY <1>2, <2>1, AddRequestStep
    <2>2. CASE TimePasses
      BY <1>2, <2>2, TimePassesStep
    <2>3. CASE StepStart \/ StepReturnsEmpty
      BY <1>2, <2>3, StepStartStep, StepReturnsEmptyStep
    <2>4. CASE ExecuteModel \/ StepCompletes
      BY <1>2, <2>4, ExecuteModelStep, StepCompletesStep
    <2>5. CASE Schedule
      <3>1. ScheduleStep /\ UNCHANGED <<taken, worker, reported>>
        BY <2>5 DEF Schedule
      <3>2. CASE ScheduleStart \/ ScheduleDecodes
        BY <1>2, <3>1, <3>2, ScheduleStartStep, ScheduleDecodesStep
      <3>3. CASE \E s \in Requests : RunningKeep(s) \/ RunningAppend(s) \/ RunningPreempt(s)
        BY <1>2, <3>1, <3>3, RunningKeepStep, RunningAppendStep, RunningPreemptStep
      <3>4. CASE RunningEnd \/ PrefillStep \/ PrefillsEnd
        BY <1>2, <3>1, <3>4, RunningEndStep, PrefillStepStep, PrefillsEndStep
      <3>5. CASE \E s \in Requests : WaitingIgnore(s) \/ WaitingAdmit(s)
        BY <1>2, <3>1, <3>5, WaitingIgnoreStep, WaitingAdmitStep
      <3>6. CASE WaitingEnd
        BY <1>2, <3>1, <3>6, WaitingEndStep
      <3>7. QED  BY <3>1, <3>2, <3>3, <3>4, <3>5, <3>6 DEF ScheduleStep
    <2>6. QED  BY <1>2, <2>1, <2>2, <2>3, <2>4, <2>5 DEF Step
  <1>3. QED  BY <1>1, <1>2 DEF Next, Stopped

LEMMA InvHolds == Spec => []Inv
  BY InvInit, InvNext, PTL DEF Spec

(* Types of the scheduler's and the worker's state, for every policy and     *)
(* both backends: no count goes below zero and no list gets a stray member,  *)
(* whatever the order of preemption, re-admission and completion.            *)
THEOREM TypeCorrect == Spec => []TypeOK
  <1>1. Inv => TypeOK
    BY TypeSplit DEF Inv
  <1>2. QED  BY <1>1, InvHolds, PTL

(* The youngest of the running sequences go first when blocks are short      *)
(* (RunningPreempt): no sequence that decodes arrived after a preempted one. *)
THEOREM PreemptsYoungestHolds == Spec => []PreemptsYoungest
  <1>1. Inv => PreemptsYoungest
    BY DEF Inv, OrderInv, PreemptsYoungest
  <1>2. QED  BY <1>1, InvHolds, PTL

(* The places of a sequence in a list without duplicates. *)
LEMMA PlacesOf ==
  ASSUME NEW S, NEW l \in Seq(S), IsInjective(l), NEW x
  PROVE  Cardinality({i \in DOMAIN l : l[i] = x}) = IF x \in Range(l) THEN 1 ELSE 0
  <1> DEFINE P == {i \in DOMAIN l : l[i] = x}
  <1>1. CASE x \in Range(l)
    <2>1. PICK i \in DOMAIN l : l[i] = x
      BY <1>1 DEF Range
    <2>2. \A j \in DOMAIN l : l[j] = x => j = i
      BY <2>1 DEF IsInjective
    <2>3. P = {i}
      BY <2>1, <2>2
    <2>4. QED  BY <1>1, <2>3, FS_Singleton
  <1>2. CASE x \notin Range(l)
    <2>1. P = {}
      BY <1>2 DEF Range
    <2>2. QED  BY <1>2, <2>1, FS_EmptySet
  <1>3. QED  BY <1>1, <1>2

(* A live sequence is in exactly one of the scheduler's lists, once, and a   *)
(* finished one in none, for every policy and both backends: what is         *)
(* preempted, set aside, admitted or completed is moved, never lost and      *)
(* never scheduled twice.                                                    *)
THEOREM EachSequenceQueuedOnceHolds == Spec => []EachSequenceQueuedOnce
  <1>1. ASSUME Inv  PROVE EachSequenceQueuedOnce
    <2>1. TypeParts /\ QueueInv
      BY <1>1 DEF Inv
    <2> DEFINE k == waiting \o running
               l == k \o kept
               m == l \o prefills
    <2>2. /\ waiting \in Seq(Requests) /\ running \in Seq(Requests) /\ kept \in Seq(Requests)
          /\ prefills \in Seq(Requests) /\ IsInjective(waiting) /\ IsInjective(running)
          /\ IsInjective(kept) /\ IsInjective(prefills)
      BY <2>1 DEF TypeParts, QueueInv
    <2>3. k \in Seq(Requests) /\ Range(k) = Range(waiting) \cup Range(running) /\ IsInjective(k)
      <3>1. Range(waiting) \cap Range(running) = {}
        BY <2>1 DEF QueueInv
      <3>2. QED  BY <2>2, <3>1, ConcatLists
    <2> HIDE DEF k
    <2>4. l \in Seq(Requests) /\ Range(l) = Range(k) \cup Range(kept) /\ IsInjective(l)
      <3>1. Range(k) \cap Range(kept) = {}
        BY <2>1, <2>3 DEF QueueInv
      <3>2. QED  BY <2>2, <2>3, <3>1, ConcatLists
    <2> HIDE DEF l
    <2>5. m \in Seq(Requests) /\ Range(m) = Range(l) \cup Range(prefills) /\ IsInjective(m)
      <3>1. Range(l) \cap Range(prefills) = {}
        BY <2>1, <2>3, <2>4 DEF QueueInv
      <3>2. QED  BY <2>2, <2>4, <3>1, ConcatLists
    <2>6. Queued = m
      BY DEF Queued, k, l
    <2> HIDE DEF m
    <2>7. \A s \in Requests : Live(s) <=> s \in Range(m)
      BY <2>1, <2>3, <2>4, <2>5 DEF QueueInv
    <2>8. \A s \in Requests :
            Cardinality({i \in DOMAIN m : m[i] = s}) = IF s \in Range(m) THEN 1 ELSE 0
      BY <2>5, PlacesOf
    <2>9. QED  BY <2>6, <2>7, <2>8 DEF EachSequenceQueuedOnce
  <1>2. QED  BY <1>1, InvHolds, PTL

-----------------------------------------------------------------------------
(* Batches of sarathi, with one chunk size. *)

LEMMA ConfigFixed == [Next]_vars => config' = config
  <1> SUFFICES ASSUME [Next]_vars  PROVE config' = config
    OBVIOUS
  <1>1. CASE UNCHANGED vars
    BY <1>1 DEF vars, scheduler
  <1>2. CASE AddRequest \/ TimePasses \/ StepStart \/ StepReturnsEmpty
    BY <1>2 DEF AddRequest, add_seq, TimePasses, Tick, StepStart, StepReturnsEmpty
  <1>3. CASE ExecuteModel \/ StepCompletes
    BY <1>3 DEF ExecuteModel, StepCompletes
  <1>4. CASE ScheduleStart \/ ScheduleDecodes \/ RunningEnd \/ PrefillStep \/ PrefillsEnd \/ WaitingEnd
    BY <1>4 DEF ScheduleStart, ScheduleDecodes, RunningEnd, PrefillStep, PrefillsEnd, WaitingEnd
  <1>5. CASE \E s \in Requests : \/ RunningKeep(s) \/ RunningAppend(s) \/ RunningPreempt(s)
                                 \/ WaitingIgnore(s) \/ WaitingAdmit(s)
    BY <1>5 DEF RunningKeep, RunningAppend, RunningPreempt, WaitingIgnore, WaitingAdmit
  <1>6. QED  BY <1>1, <1>2, <1>3, <1>4, <1>5 DEF Next, Stopped, Step, Schedule, ScheduleStep

LEMMA ListLengths ==
  ASSUME TypeParts
  PROVE  /\ Len(running) \in Nat /\ Len(kept) \in Nat /\ Len(prefills) \in Nat
         /\ num_batched_tokens \in Int /\ chunk_sizes[1] \in Nat \ {0}
         /\ (running = <<>> <=> Len(running) = 0) /\ (kept = <<>> <=> Len(kept) = 0)
         /\ (prefills = <<>> <=> Len(prefills) = 0)
  <1>1. /\ running \in Seq(Requests) /\ kept \in Seq(Requests) /\ prefills \in Seq(Requests)
        /\ num_batched_tokens \in Int
    BY DEF TypeParts
  <1>2. chunk_sizes[1] \in Nat \ {0}
    BY LimitsAssumption
  <1>3. QED  BY <1>1, <1>2

(* The chunk that sarathi gives to the first prompt of a batch. *)
LEMMA FirstChunk ==
  ASSUME TypeParts, ProgressInv, error = "none", Len(chunk_sizes) = 1, policy = "sarathi",
         num_batched_tokens <= chunk_sizes[1], NEW s \in Requests,
         NEW n, n = get_seq_next_num_prefill_tokens(s)
  PROVE  /\ n \in Nat
         /\ n # 0 => \A i \in DOMAIN batch : batch[i].chunk = 0
         /\ n <= chunk_sizes[1] - num_batched_tokens
         /\ (\A i \in DOMAIN batch : batch[i].chunk = 0) =>
              (n = 0 <=> prompt_processing_finished(s) \/ num_batched_tokens = chunk_sizes[1])
  <1>1. /\ sq[s].prompt \in Nat /\ sq[s].processed \in Nat /\ sq[s].processed <= sq[s].prompt
        /\ num_batched_tokens \in Int /\ chunk_sizes[1] \in Nat
    <2>1. sq[s] \in SequenceType /\ 0 <= sq[s].processed /\ sq[s].processed <= sq[s].prompt
      BY DEF TypeParts, ProgressInv
    <2>2. QED  BY <2>1, SequenceFields, ListLengths
  <1>2. ChunkSize(s) = chunk_sizes[1]
    BY ChunkSizeType
  <1>3. n = IF \E i \in DOMAIN batch : batch[i].chunk # 0 THEN 0
            ELSE Min({sq[s].prompt - sq[s].processed, chunk_sizes[1] - num_batched_tokens})
    BY <1>2 DEF get_seq_next_num_prefill_tokens
  <1>4. Min({sq[s].prompt - sq[s].processed, chunk_sizes[1] - num_batched_tokens})
          = IF sq[s].prompt - sq[s].processed <= chunk_sizes[1] - num_batched_tokens
            THEN sq[s].prompt - sq[s].processed ELSE chunk_sizes[1] - num_batched_tokens
    BY <1>1, MinOfTwo
  <1>5. prompt_processing_finished(s) <=> sq[s].processed = sq[s].prompt
    BY DEF prompt_processing_finished
  <1>6. CASE \E i \in DOMAIN batch : batch[i].chunk # 0
    BY <1>1, <1>3, <1>6
  <1>7. CASE \A i \in DOMAIN batch : batch[i].chunk = 0
    <2>1. n = IF sq[s].prompt - sq[s].processed <= chunk_sizes[1] - num_batched_tokens
              THEN sq[s].prompt - sq[s].processed ELSE chunk_sizes[1] - num_batched_tokens
      BY <1>3, <1>4, <1>7
    <2>2. QED  BY <1>1, <1>5, <1>7, <2>1
  <1>8. QED  BY <1>6, <1>7

(* sarathi schedules what is not in the batch yet only while it is paused. *)
LEMMA LoopsOverPaused ==
  ASSUME Inv, phase \in {"running", "prefills"}, NEW s \in Range(running) \cup Range(prefills)
  PROVE  is_paused(s) /\ s \notin Batched
  BY DEF Inv, PausedInv, BatchInv, QueueInv

LEMMA RunningKeepChunk ==
  ASSUME Inv, ChunkInv, error = "none", policy = "sarathi", NEW s \in Requests, RunningKeep(s)
  PROVE  ChunkInv'
  <1>1. /\ running # <<>> /\ s = Head(running) /\ running' = Tail(running) /\ ~Decodes(s)
        /\ phase = "running"
        /\ UNCHANGED <<sq, config, phase, batch, num_batched_tokens>>
    BY DEF RunningKeep, InRunning, outputs
  <1>2. /\ TypeParts /\ running \in Seq(Requests) /\ prefills \in Seq(Requests)
    BY DEF Inv, TypeParts
  <1>3. s \in Range(running) /\ Len(running') = Len(running) - 1
    BY <1>1, <1>2, TailList
  <1>4. is_paused(s) /\ ~prompt_processing_finished(s)
    BY <1>1, <1>3, LoopsOverPaused DEF Decodes
  <1>5. prefills' = Append(prefills, s) /\ kept' = kept /\ error' = error
    BY <1>4 DEF RunningKeep
  <1>6. Range(prefills') = Range(prefills) \cup {s} /\ Len(prefills') = Len(prefills) + 1
    BY <1>2, <1>5, AppendList
  <1>7. Len(running) \in Nat /\ Len(prefills) \in Nat /\ Len(kept) \in Nat
    BY <1>2, ListLengths
  <1>8. Len(running') + Len(kept') + Len(prefills') = Len(running) + Len(kept) + Len(prefills)
    BY <1>3, <1>5, <1>6, <1>7
  <1>9. QED  BY <1>1, <1>4, <1>5, <1>6, <1>8 DEF ChunkInv, prompt_processing_finished

LEMMA RunningAppendChunk ==
  ASSUME Inv, ChunkInv, error = "none", policy = "sarathi", NEW s \in Requests, RunningAppend(s)
  PROVE  ChunkInv'
  <1>1. /\ running # <<>> /\ s = Head(running) /\ running' = Tail(running)
        /\ phase = "running" /\ kept' = Append(kept, s) /\ batch' = Append(batch, Item(s, 0))
        /\ num_batched_tokens' = num_batched_tokens + 1
        /\ UNCHANGED <<sq, config, phase, prefills, error>>
    BY DEF RunningAppend, InRunning
  <1>2. /\ TypeParts /\ running \in Seq(Requests) /\ kept \in Seq(Requests) /\ batch \in Seq(Items)
    BY DEF Inv, TypeParts
  <1>3. Len(running') = Len(running) - 1 /\ Len(kept') = Len(kept) + 1
    BY <1>1, <1>2, TailList, AppendList
  <1>4. Adds(batch, batch', s, 0)
    BY <1>1, <1>2, AppendItem
  <1>5. /\ Len(running) \in Nat /\ Len(prefills) \in Nat /\ Len(kept) \in Nat
        /\ num_batched_tokens \in Int /\ chunk_sizes[1] \in Nat /\ Len(running) # 0
    BY <1>1, <1>2, ListLengths
  <1>6. /\ \A i \in DOMAIN batch : batch[i].chunk = 0
        /\ num_batched_tokens = Len(kept)
        /\ Len(running) + Len(kept) + Len(prefills) <= chunk_sizes[1]
        /\ \A r \in Range(prefills) : ~prompt_processing_finished(r)
    BY <1>1 DEF ChunkInv
  <1>7. \A i \in DOMAIN batch' : batch'[i].chunk = 0
    BY <1>4, <1>6 DEF Adds
  <1>8. /\ num_batched_tokens' = Len(kept') /\ num_batched_tokens' <= chunk_sizes[1]
        /\ Len(running') + Len(kept') + Len(prefills') <= chunk_sizes[1]
    BY <1>1, <1>3, <1>5, <1>6
  <1>9. batch' # <<>>
    BY <1>4 DEF Adds
  <1>10. QED  BY <1>1, <1>6, <1>7, <1>8, <1>9 DEF ChunkInv, prompt_processing_finished

LEMMA RunningPreemptChunk ==
  ASSUME Inv, ChunkInv, error = "none", policy = "sarathi", NEW s \in Requests, RunningPreempt(s)
  PROVE  ChunkInv'
  <1>1. /\ running # <<>> /\ phase = "running"
        /\ running' \in {running, RemoveAt(running, Len(running))}
        /\ UNCHANGED <<sq, config, phase, kept, prefills, batch, num_batched_tokens>>
    BY DEF RunningPreempt, InRunning, Victim
  <1>2. TypeParts /\ running \in Seq(Requests)
    BY DEF Inv, TypeParts
  <1>3. Len(RemoveAt(running, Len(running))) = Len(running) - 1
    BY <1>1, <1>2, RemoveLast
  <1>4. /\ Len(running) \in Nat /\ Len(prefills) \in Nat /\ Len(kept) \in Nat
        /\ chunk_sizes[1] \in Nat
    BY <1>2, ListLengths
  <1>5. Len(running) + Len(kept) + Len(prefills) <= chunk_sizes[1]
    BY DEF ChunkInv
  <1>6. Len(running') + Len(kept) + Len(prefills) <= chunk_sizes[1]
    BY <1>1, <1>3, <1>4, <1>5
  <1>7. QED  BY <1>1, <1>6 DEF ChunkInv, prompt_processing_finished

LEMMA PrefillStepChunk ==
  ASSUME Inv, ChunkInv, error = "none", policy = "sarathi", Len(chunk_sizes) = 1, PrefillStep
  PROVE  ChunkInv'
  <1> DEFINE s == Head(prefills)
             n == get_seq_next_num_prefill_tokens(s)
  <1>1. /\ phase = "prefills" /\ prefills # <<>> /\ prefills' = Tail(prefills)
        /\ kept' = Append(kept, s)
        /\ IF is_paused(s) /\ ~prompt_processing_finished(s) /\ n # 0
           THEN /\ batch' = Append(batch, Item(s, n))
                /\ num_batched_tokens' = num_batched_tokens + n
           ELSE UNCHANGED <<batch, num_batched_tokens>>
        /\ UNCHANGED <<sq, running, config, phase>>
    BY DEF PrefillStep
  <1>2. /\ TypeParts /\ ProgressInv /\ prefills \in Seq(Requests) /\ kept \in Seq(Requests)
        /\ batch \in Seq(Items)
    BY DEF Inv, TypeParts
  <1>3. /\ s \in Range(prefills) /\ s \in Requests /\ Len(prefills') = Len(prefills) - 1
        /\ Range(prefills') \subseteq Range(prefills)
    BY <1>1, <1>2, TailList
  <1>4. Len(kept') = Len(kept) + 1
    BY <1>1, <1>2, <1>3, AppendList
  <1>5. /\ Len(running) \in Nat /\ Len(prefills) \in Nat /\ Len(kept) \in Nat
        /\ num_batched_tokens \in Int /\ chunk_sizes[1] \in Nat /\ Len(prefills) # 0
    BY <1>1, <1>2, ListLengths
  <1>6. /\ Len(running) + Len(kept) + Len(prefills) <= chunk_sizes[1]
        /\ num_batched_tokens <= chunk_sizes[1]
        /\ batch = <<>> => num_batched_tokens = 0
        /\ (\A i \in DOMAIN batch : batch[i].chunk = 0) => num_batched_tokens = Len(kept)
        /\ \A r \in Range(prefills) : ~prompt_processing_finished(r)
    BY <1>1 DEF ChunkInv
  <1>7. is_paused(s) /\ ~prompt_processing_finished(s)
    BY <1>1, <1>3, <1>6, LoopsOverPaused
  <1>8. /\ n \in Nat
        /\ n # 0 => \A i \in DOMAIN batch : batch[i].chunk = 0
        /\ n <= chunk_sizes[1] - num_batched_tokens
        /\ (\A i \in DOMAIN batch : batch[i].chunk = 0) =>
             (n = 0 <=> prompt_processing_finished(s) \/ num_batched_tokens = chunk_sizes[1])
    BY <1>2, <1>3, <1>6, FirstChunk
  <1> HIDE DEF n, s
  <1>9. Len(running') + Len(kept') + Len(prefills') <= chunk_sizes[1]
    BY <1>1, <1>3, <1>4, <1>5, <1>6
  <1>10. CASE n = 0
    <2>1. batch' = batch /\ num_batched_tokens' = num_batched_tokens
      BY <1>1, <1>10
    <2>2. ~(\A i \in DOMAIN batch : batch[i].chunk = 0)
      <3>1. num_batched_tokens = Len(kept) => num_batched_tokens # chunk_sizes[1]
        BY <1>5, <1>6
      <3>2. QED  BY <1>6, <1>7, <1>8, <1>10, <3>1
    <2>3. QED  BY <1>1, <1>3, <1>6, <1>9, <2>1, <2>2 DEF ChunkInv, prompt_processing_finished
  <1>11. CASE n # 0
    <2>1. batch' = Append(batch, Item(s, n)) /\ num_batched_tokens' = num_batched_tokens + n
      BY <1>1, <1>7, <1>11
    <2>2. Adds(batch, batch', s, n)
      BY <1>2, <1>3, <1>8, <2>1, AppendItem
    <2>3. num_batched_tokens' <= chunk_sizes[1]
      BY <1>5, <1>8, <2>1
    <2>4. batch' # <<>> /\ ~(\A i \in DOMAIN batch' : batch'[i].chunk = 0)
      BY <1>11, <2>2 DEF Adds
    <2>5. QED  BY <1>1, <1>3, <1>6, <1>9, <2>3, <2>4 DEF ChunkInv, prompt_processing_finished
  <1>12. QED  BY <1>10, <1>11

LEMMA WaitingAdmitChunk ==
  ASSUME Inv, ChunkInv, error = "none", policy = "sarathi", Len(chunk_sizes) = 1,
         NEW s \in Requests, WaitingAdmit(s)
  PROVE  ChunkInv'
  <1> DEFINE n == get_seq_next_num_prefill_tokens(s)
  <1>1. /\ phase = "waiting" /\ kept' = Append(kept, s) /\ n # 0
        /\ batch' = Append(batch, Item(s, n)) /\ num_batched_tokens' = num_batched_tokens + n
        /\ UNCHANGED <<sq, running, config, phase, prefills>>
        /\ error' \in {error, "assertion"}
    BY DEF WaitingAdmit, InWaiting, Fits
  <1>2. /\ TypeParts /\ ProgressInv /\ kept \in Seq(Requests) /\ batch \in Seq(Items)
    BY DEF Inv, TypeParts
  <1>3. Len(kept') = Len(kept) + 1
    BY <1>1, <1>2, AppendList
  <1>4. running = <<>> /\ prefills = <<>>
    BY <1>1 DEF Inv, ControlInv
  <1>5. /\ Len(running) = 0 /\ Len(prefills) = 0 /\ Len(kept) \in Nat
        /\ num_batched_tokens \in Int /\ chunk_sizes[1] \in Nat
    BY <1>2, <1>4, ListLengths
  <1>6. /\ num_batched_tokens <= chunk_sizes[1]
        /\ (\A i \in DOMAIN batch : batch[i].chunk = 0) => num_batched_tokens = Len(kept)
        /\ \A r \in Range(prefills) : ~prompt_processing_finished(r)
    BY <1>1 DEF ChunkInv
  <1>7. /\ n \in Nat
        /\ n # 0 => \A i \in DOMAIN batch : batch[i].chunk = 0
        /\ n <= chunk_sizes[1] - num_batched_tokens
    BY <1>2, <1>6, FirstChunk
  <1> HIDE DEF n
  <1>8. num_batched_tokens = Len(kept)
    BY <1>1, <1>6, <1>7
  <1>9. num_batched_tokens' <= chunk_sizes[1] /\ Len(kept) + 1 <= chunk_sizes[1]
    BY <1>1, <1>5, <1>7, <1>8
  <1>10. Len(running') + Len(kept') + Len(prefills') <= chunk_sizes[1]
    BY <1>1, <1>3, <1>5, <1>9
  <1>11. Adds(batch, batch', s, n)
    BY <1>1, <1>2, <1>7, AppendItem
  <1>12. batch' # <<>> /\ ~(\A i \in DOMAIN batch' : batch'[i].chunk = 0)
    BY <1>1, <1>11 DEF Adds
  <1>13. QED  BY <1>1, <1>6, <1>9, <1>10, <1>12 DEF ChunkInv, prompt_processing_finished

LEMMA ScheduleStartChunk ==
  ASSUME Inv, ChunkInv, error = "none", policy = "sarathi", ScheduleStart
  PROVE  ChunkInv'
  <1>1. TypeParts /\ ControlInv /\ running \in Seq(Requests)
    BY DEF Inv, TypeParts
  <1>2. /\ phase = "start" /\ phase' = "running" /\ running' = sort_by_priority(running)
        /\ UNCHANGED <<sq, config, kept, prefills, batch, num_batched_tokens, error>>
    BY <1>1, ScheduleStartCases
  <1>3. Len(running') = Len(running)
    BY <1>1, <1>2, RequestsAreNumbers, SortedList
  <1>4. batch = <<>> /\ kept = <<>>
    BY <1>1, <1>2 DEF ControlInv
  <1>5. Len(kept) = 0
    BY <1>1, <1>4, ListLengths
  <1>6. QED  BY <1>2, <1>3, <1>4, <1>5 DEF ChunkInv, prompt_processing_finished

LEMMA WaitingEndChunk ==
  ASSUME Inv, ChunkInv, error = "none", policy = "sarathi", WaitingEnd
  PROVE  ChunkInv'
  <1>1. TypeParts /\ ControlInv
    BY DEF Inv
  <1>2. /\ phase' = "done" /\ running = <<>> /\ running' = kept /\ kept' = <<>>
        /\ UNCHANGED <<sq, config, prefills, batch, num_batched_tokens>>
        /\ error' \in {error, "assertion"}
    BY <1>1, WaitingEndCases
  <1>3. Len(running) = 0 /\ Len(kept) \in Nat /\ Len(prefills) \in Nat
    BY <1>1, <1>2, ListLengths
  <1>4. Len(kept') = 0
    BY <1>2
  <1>5. Len(running') + Len(kept') + Len(prefills') = Len(running) + Len(kept) + Len(prefills)
    BY <1>2, <1>3, <1>4
  <1>6. QED  BY <1>2, <1>5 DEF ChunkInv, prompt_processing_finished

LEMMA ScheduleKeepsChunk ==
  ASSUME Inv, ChunkInv, error = "none", policy = "sarathi",
         \/ RunningEnd \/ PrefillsEnd
         \/ \E s \in Requests : WaitingIgnore(s)
  PROVE  ChunkInv'
  <1>1. TypeParts /\ ControlInv
    BY DEF Inv
  <1>2. CASE RunningEnd
    BY <1>2 DEF RunningEnd, ChunkInv, prompt_processing_finished, outputs
  <1>3. CASE PrefillsEnd
    <2>1. /\ phase = "prefills" /\ phase' = "waiting"
          /\ UNCHANGED <<sq, config, running, kept, prefills, batch, num_batched_tokens, error>>
      BY <1>1, <1>3, PrefillsEndCases
    <2>2. QED  BY <2>1 DEF ChunkInv, prompt_processing_finished
  <1>4. CASE \E s \in Requests : WaitingIgnore(s)
    <2>1. /\ phase = "waiting"
          /\ UNCHANGED <<config, phase, running, kept, prefills, batch, num_batched_tokens>>
      BY <1>4 DEF WaitingIgnore, InWaiting
    <2>2. prefills = <<>>
      BY <1>1, <2>1 DEF ControlInv
    <2>3. Range(prefills) = {}
      BY <2>2, EmptyList
    <2>4. QED  BY <2>1, <2>3 DEF ChunkInv
  <1>5. QED  BY <1>2, <1>3, <1>4

LEMMA EngineChunk ==
  ASSUME Inv, ChunkInv, error = "none", policy = "sarathi",
         AddRequest \/ TimePasses \/ StepStart \/ StepReturnsEmpty \/ ExecuteModel \/ StepCompletes
  PROVE  ChunkInv'
  <1>1. TypeParts /\ ControlInv /\ running \in Seq(Requests)
    BY DEF Inv, TypeParts
  <1>2. prefills = <<>> /\ kept = <<>>
    BY <1>1 DEF AddRequest, TimePasses, StepStart, StepReturnsEmpty, ExecuteModel, StepCompletes,
                ControlInv
  <1>3. Range(prefills) = {}
    BY <1>2, EmptyList
  <1>4. Len(running) \in Nat /\ Len(kept) = 0 /\ Len(prefills) = 0 /\ chunk_sizes[1] \in Nat
        /\ Len(running) <= chunk_sizes[1]
    <2>1. Len(running) \in Nat /\ Len(kept) = 0 /\ Len(prefills) = 0 /\ chunk_sizes[1] \in Nat
      BY <1>1, <1>2, ListLengths
    <2>2. Len(running) + Len(kept) + Len(prefills) <= chunk_sizes[1]
      BY DEF ChunkInv
    <2>3. QED  BY <2>1, <2>2
  <1>5. CASE AddRequest \/ TimePasses \/ StepStart \/ StepReturnsEmpty \/ ExecuteModel
    <2>1. /\ UNCHANGED <<config, running, kept, prefills, batch, num_batched_tokens>>
          /\ phase' \notin {"running", "prefills", "waiting"}
      BY <1>5 DEF AddRequest, add_seq, TimePasses, Tick, StepStart, StepReturnsEmpty, ExecuteModel,
                  outputs
    <2>2. QED  BY <1>3, <2>1 DEF ChunkInv
  <1>6. CASE StepCompletes
    <2>1. /\ UNCHANGED <<config, kept, prefills>> /\ batch' = <<>> /\ num_batched_tokens' = 0
          /\ phase' = "idle"
          /\ \E S \in SUBSET Requests : running' = Those(running, S)
      <3>1. \A S : Requests \ S \in SUBSET Requests
        OBVIOUS
      <3>2. QED  BY <1>6, <3>1 DEF StepCompletes
    <2>2. running' \in Seq(Requests) /\ Len(running') <= Len(running)
      BY <1>1, <2>1, ThoseList
    <2>3. Len(running') \in Nat
      BY <2>2
    <2>4. Len(running') + Len(kept') + Len(prefills') <= chunk_sizes[1]
      BY <1>4, <2>1, <2>2, <2>3
    <2>5. 0 <= chunk_sizes[1]
      BY <1>4
    <2>6. QED  BY <1>3, <2>1, <2>4, <2>5 DEF ChunkInv
  <1>7. QED  BY <1>5, <1>6

LEMMA ChunkNext ==
  ASSUME Len(chunk_sizes) = 1
  PROVE  Inv /\ ChunkInv /\ [Next]_vars => ChunkInv'
  <1> SUFFICES ASSUME Inv, ChunkInv, [Next]_vars  PROVE ChunkInv'
    OBVIOUS
  <1>1. policy' = policy
    BY ConfigFixed DEF policy
  <1>2. CASE policy # "sarathi"
    BY <1>1, <1>2 DEF ChunkInv
  <1>3. CASE UNCHANGED vars
    BY <1>3 DEF vars, scheduler, outputs, ChunkInv, policy, prompt_processing_finished
  <1>4. CASE policy = "sarathi" /\ error = "none" /\ (AddRequest \/ TimePasses \/ Step)
    <2>1. CASE AddRequest \/ TimePasses \/ StepStart \/ StepReturnsEmpty \/ ExecuteModel \/ StepCompletes
      BY <1>4, <2>1, EngineChunk
    <2>2. CASE ScheduleStart
      BY <1>4, <2>2, ScheduleStartChunk
    <2>3. CASE ScheduleDecodes
      BY <1>4, <2>3 DEF ScheduleDecodes, Inv, ControlInv
    <2>4. CASE \E s \in Requests : RunningKeep(s) \/ RunningAppend(s) \/ RunningPreempt(s)
      BY <1>4, <2>4, RunningKeepChunk, RunningAppendChunk, RunningPreemptChunk
    <2>5. CASE \E s \in Requests : WaitingIgnore(s)
      BY <1>4, <2>5, ScheduleKeepsChunk
    <2>6. CASE RunningEnd \/ PrefillsEnd
      BY <1>4, <2>6, ScheduleKeepsChunk
    <2>7. CASE PrefillStep
      BY <1>4, <2>7, PrefillStepChunk
    <2>8. CASE \E s \in Requests : WaitingAdmit(s)
      BY <1>4, <2>8, WaitingAdmitChunk
    <2>9. CASE WaitingEnd
      BY <1>4, <2>9, WaitingEndChunk
    <2>10. QED  BY <1>4, <2>1, <2>2, <2>3, <2>4, <2>5, <2>6, <2>7, <2>8, <2>9
                DEF Step, Schedule, ScheduleStep
  <1>5. QED  BY <1>2, <1>3, <1>4 DEF Next, Stopped

LEMMA ChunkInit == ServingInit => ChunkInv
  <1> SUFFICES ASSUME ServingInit  PROVE ChunkInv
    OBVIOUS
  <1>1. TypeParts
    BY TypeInit, TypeSplit
  <1>2. /\ running = <<>> /\ kept = <<>> /\ prefills = <<>> /\ batch = <<>> /\ phase = "idle"
        /\ num_batched_tokens = 0
    BY DEF ServingInit, Init
  <1>3. Len(running) = 0 /\ Len(kept) = 0 /\ Len(prefills) = 0 /\ chunk_sizes[1] \in Nat
    BY <1>1, <1>2, ListLengths
  <1>4. 0 + 0 + 0 <= chunk_sizes[1] /\ 0 <= chunk_sizes[1]
    BY <1>3
  <1>5. Range(prefills) = {}
    BY <1>2, EmptyList
  <1>6. QED  BY <1>2, <1>3, <1>4, <1>5 DEF ChunkInv

LEMMA BatchTokensAppend ==
  ASSUME batch \in Seq(Items), NEW s \in Requests, NEW n \in Nat,
         batch' = Append(batch, Item(s, n))
  PROVE  BatchTokens' = BatchTokens + (IF n > 0 THEN n ELSE 1)
  <1>1. /\ Len(batch) \in Nat /\ DOMAIN batch = 1 .. Len(batch)
        /\ DOMAIN batch' = 1 .. (Len(batch) + 1)
        /\ batch'[Len(batch) + 1] = Item(s, n)
        /\ \A i \in 1 .. Len(batch) : batch'[i] = batch[i] /\ batch[i] \in Items
    BY ItemType
  <1>2. Item(s, n).chunk = n
    BY ItemType
  <1>3. \A b \in Items : num_tokens(b) \in Nat
    BY DEF num_tokens, Items
  <1>4. num_tokens(batch'[Len(batch) + 1]) = IF n > 0 THEN n ELSE 1
    BY <1>1, <1>2 DEF num_tokens
  <1>5. PICK k \in Nat : k = Len(batch)
    BY <1>1
  <1>6. PICK m : m = [i \in DOMAIN batch |-> num_tokens(batch[i])]
    OBVIOUS
  <1>7. PICK p : p = [i \in DOMAIN batch' |-> num_tokens(batch'[i])]
    OBVIOUS
  <1>8. /\ \A i \in 1 .. k : m[i] \in Nat /\ p[i] = m[i]
        /\ p[k + 1] = IF n > 0 THEN n ELSE 1
    BY <1>1, <1>3, <1>4, <1>5, <1>6, <1>7
  <1>9. p[k + 1] \in Nat
    BY <1>8
  <1>10. SumOver(p, 1 .. (k + 1)) = SumOver(m, 1 .. k) + p[k + 1]
    BY <1>8, <1>9, SumAppend
  <1>11. BatchTokens = SumOver(m, 1 .. k) /\ BatchTokens' = SumOver(p, 1 .. (k + 1))
    BY <1>1, <1>5, <1>6, <1>7 DEF BatchTokens, num_tokens, SumOver
  <1>12. QED  BY <1>8, <1>10, <1>11

LEMMA TokensNext ==
  ASSUME Len(chunk_sizes) = 1
  PROVE  Inv /\ ChunkInv /\ TokensInv /\ [Next]_vars => TokensInv'
  <1> SUFFICES ASSUME Inv, ChunkInv, TokensInv, [Next]_vars, policy = "sarathi"
               PROVE  num_batched_tokens' = BatchTokens'
    BY ConfigFixed DEF TokensInv, policy
  <1>1. num_batched_tokens = BatchTokens
    BY DEF TokensInv
  <1>2. TypeParts /\ ProgressInv /\ ControlInv /\ batch \in Seq(Items)
    BY DEF Inv, TypeParts
  <1>3. CASE batch' = batch /\ num_batched_tokens' = num_batched_tokens
    BY <1>1, <1>3 DEF BatchTokens, num_tokens, SumOver
  <1>4. ASSUME error = "none", NEW s \in Requests, RunningAppend(s)
        PROVE  num_batched_tokens' = BatchTokens'
    <2>1. batch' = Append(batch, Item(s, 0)) /\ num_batched_tokens' = num_batched_tokens + 1
      BY <1>4 DEF RunningAppend
    <2>2. QED  BY <1>1, <1>2, <2>1, BatchTokensAppend
  <1>5. ASSUME error = "none", NEW s \in Requests, NEW n, n = get_seq_next_num_prefill_tokens(s),
               n # 0, batch' = Append(batch, Item(s, n)),
               num_batched_tokens' = num_batched_tokens + n
        PROVE  num_batched_tokens' = BatchTokens'
    <2>1. n \in Nat
      BY <1>2, <1>5, FirstChunk DEF ChunkInv
    <2>2. QED  BY <1>1, <1>2, <1>5, <2>1, BatchTokensAppend
  <1>6. ASSUME error = "none", PrefillStep  PROVE num_batched_tokens' = BatchTokens'
    <2>1. Head(prefills) \in Requests
      BY <1>2, <1>6, TailList DEF PrefillStep, TypeParts
    <2>2. \/ batch' = batch /\ num_batched_tokens' = num_batched_tokens
          \/ \E n : /\ n = get_seq_next_num_prefill_tokens(Head(prefills)) /\ n # 0
                   /\ batch' = Append(batch, Item(Head(prefills), n))
                   /\ num_batched_tokens' = num_batched_tokens + n
      BY <1>6 DEF PrefillStep
    <2>3. QED  BY <1>3, <1>5, <1>6, <2>1, <2>2
  <1>7. ASSUME error = "none", NEW s \in Requests, WaitingAdmit(s)
        PROVE  num_batched_tokens' = BatchTokens'
    <2>1. \E n : /\ n = get_seq_next_num_prefill_tokens(s) /\ n # 0
               /\ batch' = Append(batch, Item(s, n))
               /\ num_batched_tokens' = num_batched_tokens + n
      BY <1>7 DEF WaitingAdmit, Fits
    <2>2. QED  BY <1>5, <1>7, <2>1
  <1>8. CASE StepCompletes
    <2>1. batch' = <<>> /\ num_batched_tokens' = 0
      BY <1>8 DEF StepCompletes
    <2>2. BatchTokens' = 0
      <3>1. DOMAIN batch' = {}
        BY <2>1
      <3>2. QED  BY <3>1, EmptySum DEF BatchTokens
    <2>3. QED  BY <2>1, <2>2
  <1>9. CASE UNCHANGED vars \/ AddRequest \/ TimePasses \/ StepStart \/ StepReturnsEmpty \/ ExecuteModel
    <2>1. batch' = batch /\ num_batched_tokens' = num_batched_tokens
      BY <1>9 DEF vars, scheduler, outputs, AddRequest, add_seq, TimePasses, Tick, StepStart,
                  StepReturnsEmpty, ExecuteModel
    <2>2. QED  BY <1>3, <2>1
  <1>10. CASE ScheduleStart \/ ScheduleDecodes \/ RunningEnd \/ PrefillsEnd \/ WaitingEnd
    <2>1. ~ScheduleDecodes
      BY <1>2 DEF ScheduleDecodes, ControlInv
    <2>2. batch' = batch /\ num_batched_tokens' = num_batched_tokens
      BY <1>2, <1>10, <2>1, ScheduleStartCases, PrefillsEndCases, WaitingEndCases
         DEF RunningEnd, outputs
    <2>3. QED  BY <1>3, <2>2
  <1>11. CASE \E s \in Requests : RunningKeep(s) \/ RunningPreempt(s) \/ WaitingIgnore(s)
    <2>1. batch' = batch /\ num_batched_tokens' = num_batched_tokens
      BY <1>11 DEF RunningKeep, RunningPreempt, WaitingIgnore, outputs
    <2>2. QED  BY <1>3, <2>1
  <1>12. QED  BY <1>4, <1>6, <1>7, <1>8, <1>9, <1>10, <1>11
              DEF Next, Stopped, Step, Schedule, ScheduleStep

(* With one chunk size, a batch of the sarathi policy has at most chunk_size *)
(* tokens, though the loop that schedules decodes never looks at chunk_size: *)
(* each sequence was once admitted with a token of the chunk left for it,    *)
(* and none joins self.running in another way.                               *)
THEOREM BatchWithinChunkHolds ==
  ASSUME Len(chunk_sizes) = 1
  PROVE  Spec => []BatchWithinChunk
  <1>1. Inv /\ ChunkInv /\ [Next]_vars => ChunkInv'
    BY ChunkNext
  <1>2. Inv /\ ChunkInv /\ TokensInv /\ [Next]_vars => TokensInv'
    BY TokensNext
  <1>3. ServingInit => TokensInv
    <2> SUFFICES ASSUME ServingInit  PROVE TokensInv
      OBVIOUS
    <2>1. num_batched_tokens = 0 /\ batch = <<>>
      BY DEF ServingInit, Init
    <2>2. DOMAIN batch = {}
      BY <2>1
    <2>3. QED  BY <2>1, <2>2, EmptySum DEF TokensInv, BatchTokens
  <1>4. ChunkInv /\ TokensInv => BatchWithinChunk
    BY DEF ChunkInv, TokensInv, BatchWithinChunk
  <1>5. QED  BY <1>1, <1>2, <1>3, <1>4, ChunkInit, InvHolds, PTL DEF Spec

-----------------------------------------------------------------------------
(* Preempted sequences wait until the worker has been told. *)

LEMMA RunningPreemptBars ==
  ASSUME Inv, PreemptInv, error = "none", NEW s \in Requests, RunningPreempt(s)
  PROVE  PreemptInv'
  <1>1. /\ TypeParts /\ QueueInv /\ running \in Seq(Requests) /\ waiting \in Seq(Requests)
        /\ preemption_queue \in Seq(Requests)
    BY DEF Inv, TypeParts
  <1>2. /\ phase = "running" /\ running # <<>> /\ s = Head(running) /\ Decodes(s)
        /\ ~can_append_slot(s)
        /\ UNCHANGED <<sq, promised_blocks, config, phase>>
    BY DEF RunningPreempt, InRunning
  <1>0. PICK v \in Requests : v = running[Len(running)]
    <2>1. running[Len(running)] \in Range(running)
      BY <1>1, <1>2, RemoveLast
    <2>2. QED  BY <1>1, <2>1, RangeIsSubset
  <1>3. CASE is_executing(v)
    <2>1. /\ running' = RemoveAt(running, Len(running))
          /\ waiting' = <<v>> \o waiting
          /\ free_blocks' = free_blocks + Credit(v, get_len(v))
          /\ preemption_queue' = IF VAttention THEN Append(preemption_queue, v)
                                 ELSE preemption_queue
          /\ preempted' = preempted \cup {v}
      BY <1>0, <1>3 DEF RunningPreempt, Victim, Requeue
    <2>2. /\ running' \in Seq(Requests) /\ Len(running') = Len(running) - 1
          /\ \A i \in 1 .. Len(running) - 1 : running'[i] = running[i]
      BY <1>1, <1>2, <2>1, RemoveLast
    <2>4. running' = <<>> => v = s
      <3>1. running' = <<>> => Len(running) = 1
        BY <1>1, <2>2
      <3>2. Head(running) = running[1]
        BY <1>1, <1>2
      <3>3. QED  BY <1>0, <1>2, <3>1, <3>2
    <2>5. running' # <<>> => Head(running') = s
      <3>1. ASSUME running' # <<>>  PROVE Head(running') = s
        <4>1. Len(running') \in Nat /\ Len(running') # 0 /\ Len(running) \in Nat
          BY <1>1, <2>2, <3>1
        <4>2. 1 \in 1 .. Len(running) - 1
          BY <2>2, <4>1
        <4>3. Head(running') = running'[1] /\ Head(running) = running[1]
          BY <1>1, <1>2, <2>2, <3>1
        <4>4. QED  BY <1>2, <2>2, <4>2, <4>3
      <3>2. QED  BY <3>1
    <2>6. waiting' # <<>> /\ Head(waiting') = v /\ Range(waiting') = Range(waiting) \cup {v}
      BY <1>1, <2>1, ConsList
    <2>7. VAttention => Range(preemption_queue') = Range(preemption_queue) \cup {v}
      BY <1>1, <2>1, AppendList
    <2>8. VAttention' = VAttention /\ policy' = policy
      BY <1>2 DEF VAttention, policy
    <2>9. VAttention => Barred(v)'
      <3> SUFFICES ASSUME VAttention  PROVE Barred(v)'
        OBVIOUS
      <3>1. Crosses(s) /\ ~(free_blocks - promised_blocks > 0)
        BY <1>2 DEF can_append_slot
      <3>2. Credit(v, get_len(v)) \in {0, get_num_blocks(v)}
        BY DEF Credit, get_num_blocks
      <3>3. free_blocks \in Nat /\ promised_blocks \in Nat /\ get_num_blocks(v) \in Nat
        BY <1>1, LengthTypes DEF TypeParts
      <3>4. free_blocks' - promised_blocks' <= get_num_blocks(v)
        BY <1>2, <2>1, <3>1, <3>2, <3>3
      <3>5. /\ get_num_blocks(v)' = get_num_blocks(v)
            /\ prompt_processing_finished(v)' <=> prompt_processing_finished(v)
            /\ Decodes(s)' <=> Decodes(s)
            /\ Crosses(s)' <=> Crosses(s)
        BY <1>2 DEF get_num_blocks, get_len, prompt_processing_finished, Decodes, is_paused, Crosses
      <3>6. CASE running' = <<>>
        <4>1. prompt_processing_finished(v)
          BY <1>2, <2>4, <3>6 DEF Decodes
        <4>2. QED  BY <3>5, <4>1 DEF Barred
      <3>7. CASE running' # <<>>
        BY <1>2, <2>5, <3>1, <3>4, <3>5, <3>7 DEF Barred, Decodes, Crosses, is_paused,
           prompt_processing_finished, get_len, get_num_blocks
      <3>8. QED  BY <3>6, <3>7
    <2>10. QED  BY <1>2, <2>1, <2>6, <2>7, <2>8, <2>9 DEF PreemptInv
  <1>4. CASE ~is_executing(v)
    <2>1. UNCHANGED <<running, waiting, free_blocks, preemption_queue, preempted>>
      BY <1>0, <1>4 DEF RunningPreempt, Victim
    <2>2. QED  BY <1>2, <2>1 DEF PreemptInv, Barred, VAttention, policy, get_num_blocks, get_len,
                                 prompt_processing_finished, Decodes, Crosses, is_paused
  <1>5. QED  BY <1>3, <1>4

LEMMA RunningAppendBars ==
  ASSUME Inv, PreemptInv, error = "none", NEW s \in Requests, RunningAppend(s)
  PROVE  PreemptInv'
  <1>1. TypeParts /\ waiting \in Seq(Requests)
    BY DEF Inv, TypeParts
  <1>2. /\ phase = "running" /\ running # <<>> /\ s = Head(running) /\ append_slot(s)
        /\ UNCHANGED <<sq, waiting, config, phase, preempted>>
    BY DEF RunningAppend, InRunning
  <1>3. /\ promised_blocks' = promised_blocks + (IF VAttention /\ Crosses(s) THEN 1 ELSE 0)
        /\ VAttention => free_blocks' = free_blocks - 0
        /\ preemption_queue' = preemption_queue
    BY <1>2 DEF append_slot
  <1>4. free_blocks \in Nat /\ promised_blocks \in Nat
    BY <1>1 DEF TypeParts
  <1>5. VAttention' = VAttention /\ policy' = policy
    BY <1>2 DEF VAttention, policy
  <1>6. ASSUME VAttention, waiting # <<>>, NEW v \in Requests, Barred(v)  PROVE Barred(v)'
    <2> DEFINE b == get_num_blocks(v)
    <2>2. b \in Nat
      BY <1>1, LengthTypes
    <2>3. b' = b /\ (prompt_processing_finished(v)' <=> prompt_processing_finished(v))
      BY <1>2 DEF get_num_blocks, get_len, prompt_processing_finished
    <2>4. \/ free_blocks - promised_blocks < b
          \/ prompt_processing_finished(v)
          \/ Crosses(s) /\ free_blocks - promised_blocks <= b
      BY <1>2, <1>6 DEF Barred
    <2>5. free_blocks' = free_blocks
      BY <1>3, <1>4, <1>6
    <2> HIDE DEF b
    <2>6. free_blocks' - promised_blocks' < b \/ prompt_processing_finished(v)
      BY <1>3, <1>4, <1>6, <2>2, <2>4, <2>5
    <2>7. QED  BY <1>2, <2>3, <2>6 DEF Barred, b
  <1>7. waiting # <<>> => Head(waiting) \in Requests
    BY <1>1
  <1>8. QED  BY <1>2, <1>3, <1>5, <1>6, <1>7 DEF PreemptInv

(* What does not touch waiting[0] or the blocks. *)
LEMMA ScheduleBars ==
  ASSUME Inv, PreemptInv, error = "none",
         \/ ScheduleStart \/ ScheduleDecodes \/ RunningEnd \/ PrefillStep \/ PrefillsEnd \/ WaitingEnd
         \/ \E s \in Requests : RunningKeep(s)
  PROVE  PreemptInv'
  <1>1. TypeParts /\ ControlInv
    BY DEF Inv
  <1>2. /\ UNCHANGED <<sq, waiting, preempted, preemption_queue, config>>
        /\ phase \notin {"idle", "forward"}
    BY DEF ScheduleStart, ScheduleDecodes, RunningEnd, PrefillStep, PrefillsEnd, WaitingEnd,
           RunningKeep, InRunning, manager, outputs
  <1>3. VAttention' = VAttention /\ policy' = policy
    BY <1>2 DEF VAttention, policy
  <1>4. /\ ~VAttention' => preemption_queue' = <<>>
        /\ VAttention' => Range(preemption_queue') = preempted'
        /\ Range(preemption_queue') \subseteq Range(waiting')
    BY <1>2, <1>3 DEF PreemptInv
  <1>5. ASSUME VAttention, policy = "sarathi", phase' \in {"running", "prefills", "waiting"},
               preempted # {}
        PROVE  waiting # <<>> /\ Head(waiting) \in preempted /\ Barred(Head(waiting))'
    <2>1. CASE ScheduleStart \/ ScheduleDecodes
      BY <1>1, <1>5, <2>1 DEF ScheduleStart, ScheduleDecodes, ControlInv
    <2>2. CASE WaitingEnd
      BY <1>1, <1>5, <2>2, WaitingEndCases
    <2>3. CASE RunningEnd \/ PrefillStep \/ PrefillsEnd \/ \E s \in Requests : RunningKeep(s)
      <3>1. /\ UNCHANGED <<free_blocks, promised_blocks>>
            /\ phase \in {"running", "prefills"}
        BY <2>3 DEF RunningEnd, PrefillStep, PrefillsEnd, RunningKeep, InRunning, manager
      <3>2. waiting # <<>> /\ Head(waiting) \in preempted /\ Barred(Head(waiting))
        BY <1>5, <3>1 DEF PreemptInv
      <3>3. phase = "running" => running = <<>> \/ ~Decodes(Head(running))
        BY <2>3 DEF RunningEnd, PrefillStep, PrefillsEnd, RunningKeep, InRunning
      <3>4. \/ free_blocks - promised_blocks < get_num_blocks(Head(waiting))
            \/ prompt_processing_finished(Head(waiting))
        BY <3>2, <3>3 DEF Barred
      <3>5. \/ free_blocks' - promised_blocks' < get_num_blocks(Head(waiting))'
            \/ prompt_processing_finished(Head(waiting))'
        BY <1>2, <3>1, <3>4 DEF get_num_blocks, get_len, prompt_processing_finished
      <3>6. QED  BY <3>2, <3>5 DEF Barred
    <2>4. QED  BY <2>1, <2>2, <2>3
  <1>6. QED  BY <1>2, <1>3, <1>4, <1>5 DEF PreemptInv

LEMMA WaitingIgnoreBars ==
  ASSUME Inv, PreemptInv, error = "none", NEW s \in Requests, WaitingIgnore(s)
  PROVE  PreemptInv'
  <1>1. /\ TypeParts /\ ControlInv /\ BatchInv /\ waiting \in Seq(Requests)
    BY DEF Inv, TypeParts
  <1>2. /\ phase = "waiting" /\ waiting # <<>> /\ s = Head(waiting)
        /\ UNCHANGED <<preempted, preemption_queue, free_blocks, promised_blocks, config, phase,
                       running>>
    BY DEF WaitingIgnore, InWaiting, manager
  <1>3. VAttention' = VAttention /\ policy' = policy
    BY <1>2 DEF VAttention, policy
  <1>4. CASE s \in preempted
    <2>1. sq[s].status # "waiting"
      BY <1>1, <1>2, <1>4 DEF BatchInv, is_executing
    <2>2. UNCHANGED <<sq, waiting>>
      BY <2>1 DEF WaitingIgnore
    <2>3. QED  BY <1>2, <1>3, <2>2 DEF PreemptInv, Barred, get_num_blocks, get_len,
                                       prompt_processing_finished, Decodes, Crosses, is_paused
  <1>5. CASE s \notin preempted
    <2>1. ~(VAttention /\ policy = "sarathi" /\ preempted # {})
      BY <1>2, <1>5 DEF PreemptInv
    <2>2. Range(preemption_queue) \subseteq preempted
      BY <1>2, EmptyList DEF PreemptInv
    <2>3. waiting' = waiting \/ Range(waiting) = Range(waiting') \cup {s}
      <3>1. waiting' = waiting \/ waiting' = Tail(waiting)
        BY DEF WaitingIgnore
      <3>2. Range(waiting) = Range(Tail(waiting)) \cup {s}
        BY <1>1, <1>2, TailList
      <3>3. QED  BY <3>1, <3>2
    <2>4. Range(preemption_queue) \subseteq Range(waiting')
      BY <1>5, <2>2, <2>3 DEF PreemptInv
    <2>5. QED  BY <1>2, <1>3, <2>1, <2>4 DEF PreemptInv
  <1>6. QED  BY <1>4, <1>5

LEMMA WaitingAdmitBars ==
  ASSUME Inv, ChunkInv, PreemptInv, error = "none", Len(chunk_sizes) = 1,
         NEW s \in Requests, WaitingAdmit(s)
  PROVE  PreemptInv'
  <1>1. /\ TypeParts /\ ControlInv /\ ProgressInv /\ waiting \in Seq(Requests)
    BY DEF Inv, TypeParts
  <1>2. /\ phase = "waiting" /\ waiting # <<>> /\ s = Head(waiting) /\ waiting' = Tail(waiting)
        /\ can_allocate(s) /\ allocate(s)
        /\ policy = "sarathi" => get_seq_next_num_prefill_tokens(s) # 0
        /\ UNCHANGED <<preempted, config, phase>>
    BY DEF WaitingAdmit, InWaiting, Fits
  <1>3. VAttention' = VAttention /\ policy' = policy /\ preemption_queue' = preemption_queue
    BY <1>2 DEF VAttention, policy, allocate
  <1>4. VAttention => preempted = {}
    <2> SUFFICES ASSUME VAttention, preempted # {}  PROVE FALSE
      OBVIOUS
    <2>1. policy = "sarathi" /\ Barred(s)
      BY <1>1, <1>2 DEF ControlInv, PreemptInv
    <2>2. ~prompt_processing_finished(s)
      <3>1. num_batched_tokens <= chunk_sizes[1]
        BY <2>1 DEF ChunkInv
      <3> DEFINE n == get_seq_next_num_prefill_tokens(s)
      <3>2. /\ n # 0 => \A i \in DOMAIN batch : batch[i].chunk = 0
            /\ (\A i \in DOMAIN batch : batch[i].chunk = 0) =>
                 (n = 0 <=> prompt_processing_finished(s) \/ num_batched_tokens = chunk_sizes[1])
        BY <1>1, <2>1, <3>1, FirstChunk
      <3>3. QED  BY <1>2, <2>1, <3>2
    <2>3. free_blocks - promised_blocks < get_num_blocks(s)
      BY <1>2, <2>1, <2>2 DEF Barred
    <2>4. free_blocks - promised_blocks - get_num_blocks(s) >= watermark_blocks
      BY <1>2 DEF can_allocate, get_num_initial_blocks, ReservesAll
    <2>5. /\ free_blocks \in Nat /\ promised_blocks \in Nat /\ get_num_blocks(s) \in Nat
          /\ watermark_blocks \in Nat
      BY <1>1, LengthTypes, LimitsAssumption DEF TypeParts
    <2>6. QED  BY <2>3, <2>4, <2>5
  <1>5. Range(preemption_queue) = {}
    BY <1>2, <1>4, EmptyList DEF PreemptInv
  <1>6. QED  BY <1>2, <1>3, <1>4, <1>5 DEF PreemptInv

LEMMA EngineBars ==
  ASSUME Inv, PreemptInv, error = "none",
         AddRequest \/ TimePasses \/ StepStart \/ StepReturnsEmpty \/ ExecuteModel \/ StepCompletes
  PROVE  PreemptInv'
  <1>1. TypeParts /\ ControlInv /\ waiting \in Seq(Requests)
    BY DEF Inv, TypeParts
  <1>2. CASE StepStart
    <2>1. /\ preemption_queue' = <<>> /\ phase = "idle" /\ phase' = "start"
          /\ UNCHANGED <<waiting, preempted, config>>
      BY <1>2 DEF StepStart, outputs
    <2>2. preempted = {}
      BY <1>1, <2>1 DEF ControlInv
    <2>3. Range(preemption_queue') = {}
      BY <2>1, EmptyList
    <2>4. QED  BY <2>1, <2>2, <2>3 DEF PreemptInv, VAttention
  <1>3. CASE AddRequest \/ TimePasses \/ StepReturnsEmpty \/ ExecuteModel \/ StepCompletes
    <2>1. UNCHANGED <<preemption_queue, config>> /\ phase' \in {"idle", "forward"}
      BY <1>3 DEF AddRequest, add_seq, TimePasses, Tick, StepReturnsEmpty, ExecuteModel, StepCompletes,
                  manager
    <2>2. Range(waiting) \subseteq Range(waiting')
      <3>1. CASE AddRequest
        <4>1. \E s \in Requests : waiting' = Append(waiting, s)
          BY <3>1 DEF AddRequest, add_seq
        <4>2. QED  BY <1>1, <4>1, AppendList
      <3>2. CASE TimePasses \/ StepReturnsEmpty \/ ExecuteModel \/ StepCompletes
        BY <3>2 DEF TimePasses, Tick, StepReturnsEmpty, ExecuteModel, StepCompletes
      <3>3. QED  BY <1>3, <3>1, <3>2
    <2>3. QED  BY <2>1, <2>2 DEF PreemptInv, VAttention
  <1>4. QED  BY <1>2, <1>3

LEMMA PreemptNext ==
  ASSUME Len(chunk_sizes) = 1
  PROVE  Inv /\ ChunkInv /\ PreemptInv /\ [Next]_vars => PreemptInv'
  <1> SUFFICES ASSUME Inv, ChunkInv, PreemptInv, [Next]_vars  PROVE PreemptInv'
    OBVIOUS
  <1>1. CASE UNCHANGED vars
    BY <1>1 DEF vars, scheduler, manager, outputs, PreemptInv, Barred, VAttention, policy,
       get_num_blocks, get_len, prompt_processing_finished, Decodes, Crosses, is_paused
  <1>2. CASE error = "none" /\ (AddRequest \/ TimePasses \/ Step)
    <2>1. CASE AddRequest \/ TimePasses \/ StepStart \/ StepReturnsEmpty \/ ExecuteModel \/ StepCompletes
      BY <1>2, <2>1, EngineBars
    <2>2. CASE ScheduleStart \/ ScheduleDecodes \/ RunningEnd \/ PrefillStep \/ PrefillsEnd \/ WaitingEnd
      BY <1>2, <2>2, ScheduleBars
    <2>3. CASE \E s \in Requests : RunningKeep(s)
      BY <1>2, <2>3, ScheduleBars
    <2>4. CASE \E s \in Requests : RunningAppend(s) \/ RunningPreempt(s)
      BY <1>2, <2>4, RunningAppendBars, RunningPreemptBars
    <2>5. CASE \E s \in Requests : WaitingIgnore(s) \/ WaitingAdmit(s)
      BY <1>2, <2>5, WaitingIgnoreBars, WaitingAdmitBars
    <2>6. QED  BY <1>2, <2>1, <2>2, <2>3, <2>4, <2>5 DEF Step, Schedule, ScheduleStep
  <1>3. QED  BY <1>1, <1>2 DEF Next, Stopped

LEMMA PreemptInit == ServingInit => PreemptInv
  BY EmptyList DEF ServingInit, Init, PreemptInv

(* With one chunk size, what the scheduler preempted in a step is not        *)
(* admitted again before the next step has told the worker to free its slot: *)
(* the blocks it gives back are all there is, and the sequence it was        *)
(* preempted for takes one of them before the loop over self.waiting.        *)
THEOREM PreemptedNotReadmittedHolds ==
  ASSUME Len(chunk_sizes) = 1
  PROVE  Spec => []PreemptedNotReadmitted
  <1>1. Inv /\ ChunkInv /\ [Next]_vars => ChunkInv'
    BY ChunkNext
  <1>2. Inv /\ ChunkInv /\ PreemptInv /\ [Next]_vars => PreemptInv'
    BY PreemptNext
  <1>3. Inv /\ PreemptInv => PreemptedNotReadmitted
    BY DEF Inv, QueueInv, PreemptInv, PreemptedNotReadmitted
  <1>4. QED  BY <1>1, <1>2, <1>3, ChunkInit, PreemptInit, InvHolds, PTL DEF Spec

-----------------------------------------------------------------------------
(* The slots of the vAttention backend, under the policies that use it. *)

(* What the steps below start from. *)
Serving ==
  /\ Inv /\ ChunkInv /\ PreemptInv /\ ResidentParts
  /\ VAttention /\ policy \in {"sarathi", "vllm"} /\ error = "none"

(* Steps that leave the sequences and the worker alone. *)
LEMMA SlotsKept ==
  ASSUME SlotsInv, UNCHANGED <<sq, kv, taken>>,
         Range(running') \cup Range(kept') \cup Range(prefills')
           \subseteq Range(running) \cup Range(kept) \cup Range(prefills)
  PROVE  SlotsInv'
  BY DEF SlotsInv, Resident, is_paused, get_len

LEMMA ItemsKept ==
  ASSUME ItemsInv, UNCHANGED <<sq, batch>>, phase # "forward", phase' # "forward"
  PROVE  ItemsInv'
  BY DEF ItemsInv, Decodes, is_paused, prompt_processing_finished

LEMMA ItemsAdded ==
  ASSUME ItemsInv, sq' = sq, phase # "forward", phase' # "forward",
         NEW s \in Requests, NEW n \in Int, Adds(batch, batch', s, n),
         n = 0 => Decodes(s), n # 0 => n > 0 /\ ~prompt_processing_finished(s),
         sq[s].status \in {"waiting", "paused"}
  PROVE  ItemsInv'
  <1> SUFFICES ASSUME NEW i \in DOMAIN batch'
               PROVE  /\ batch'[i].chunk = 0 => Decodes(batch'[i].seq)
                      /\ batch'[i].chunk # 0 => /\ batch'[i].chunk > 0
                                                /\ ~prompt_processing_finished(batch'[i].seq)
                      /\ sq[batch'[i].seq].status \in {"waiting", "paused"}
    BY DEF ItemsInv, Decodes, is_paused, prompt_processing_finished
  <1>1. CASE i \in DOMAIN batch
    <2>1. batch'[i] = batch[i]
      BY <1>1 DEF Adds
    <2>2. QED  BY <1>1, <2>1 DEF ItemsInv
  <1>2. CASE i = Len(batch) + 1
    <2>1. batch'[i].seq = s /\ batch'[i].chunk = n
      BY <1>2 DEF Adds
    <2>2. QED  BY <2>1
  <1>3. QED  BY <1>1, <1>2 DEF Adds

LEMMA RunningKeepSlots ==
  ASSUME Serving, NEW s \in Requests, RunningKeep(s), error' = "none",
         UNCHANGED <<taken, worker, reported>>
  PROVE  ResidentParts'
  <1>1. /\ Inv /\ TypeParts /\ SlotsInv /\ ItemsInv /\ WaitInv /\ CountInv
        /\ policy \in {"sarathi", "vllm"}
    BY DEF Serving, ResidentParts, Inv
  <1>2. /\ phase = "running" /\ running # <<>> /\ s = Head(running) /\ running' = Tail(running)
        /\ UNCHANGED <<sq, waiting, free_blocks, promised_blocks, phase, batch, preempted, taken,
                       context, kv>>
    BY DEF RunningKeep, InRunning, worker, manager, outputs
  <1>3. running \in Seq(Requests) /\ prefills \in Seq(Requests)
    BY <1>1 DEF TypeParts
  <1>4. s \in Range(running) /\ Range(running) = Range(running') \cup {s}
    BY <1>2, <1>3, TailList
  <1>5. is_paused(s)
    BY <1>1, <1>2, <1>4, LoopsOverPaused
  <1>6. policy = "sarathi" /\ prefills' = Append(prefills, s) /\ kept' = kept
    BY <1>1, <1>5 DEF RunningKeep
  <1>7. Range(prefills') = Range(prefills) \cup {s}
    BY <1>3, <1>6, AppendList
  <1>8. SlotsInv' /\ ItemsInv'
    <2>1. ItemsInv'
      BY <1>1, <1>2, ItemsKept
    <2>2. QED  BY <1>1, <1>2, <1>4, <1>6, <1>7, <2>1, SlotsKept
  <1>9. WaitInv'
    BY <1>1, <1>2 DEF WaitInv, Stuck, is_paused
  <1>10. CountInv'
    BY <1>1, <1>2, <1>6 DEF CountInv, Blocks
  <1>11. QED  BY <1>8, <1>9, <1>10 DEF ResidentParts

LEMMA RunningAppendSlots ==
  ASSUME Serving, NEW s \in Requests, RunningAppend(s), UNCHANGED <<taken, worker, reported>>
  PROVE  ResidentParts'
  <1>1. /\ Inv /\ TypeParts /\ SlotsInv /\ ItemsInv /\ WaitInv /\ CountInv
    BY DEF Serving, ResidentParts, Inv
  <1>2. /\ phase = "running" /\ running # <<>> /\ s = Head(running) /\ running' = Tail(running)
        /\ kept' = Append(kept, s) /\ batch' = Append(batch, Item(s, 0)) /\ Decodes(s)
        /\ UNCHANGED <<sq, waiting, phase, prefills, preempted, taken, context, kv>>
    BY DEF RunningAppend, InRunning, worker
  <1>3. running \in Seq(Requests) /\ kept \in Seq(Requests) /\ batch \in Seq(Items)
    BY <1>1 DEF TypeParts
  <1>4. Range(running) = Range(running') \cup {s} /\ Range(kept') = Range(kept) \cup {s}
    BY <1>2, <1>3, TailList, AppendList
  <1>5. Adds(batch, batch', s, 0)
    BY <1>2, <1>3, AppendItem
  <1>6. batch' # <<>> /\ sq[s].status = "paused"
    BY <1>2, <1>5 DEF Adds, Decodes, is_paused
  <1>7. SlotsInv'
    BY <1>1, <1>2, <1>4, SlotsKept
  <1>8. ItemsInv'
    BY <1>1, <1>2, <1>5, <1>6, ItemsAdded
  <1>9. WaitInv'
    BY <1>1, <1>2 DEF WaitInv, Stuck, is_paused
  <1>10. CountInv'
    BY <1>2, <1>6 DEF CountInv
  <1>11. QED  BY <1>7, <1>8, <1>9, <1>10 DEF ResidentParts

LEMMA RunningPreemptSlots ==
  ASSUME Serving, NEW s \in Requests, RunningPreempt(s), error' = "none",
         UNCHANGED <<taken, worker, reported>>
  PROVE  ResidentParts'
  <1>1. /\ Inv /\ TypeParts /\ SlotsInv /\ ItemsInv /\ WaitInv /\ CountInv /\ VAttention
    BY DEF Serving, ResidentParts, Inv
  <1>2. /\ phase = "running" /\ running # <<>> /\ s = Head(running) /\ ~can_append_slot(s)
        /\ UNCHANGED <<sq, promised_blocks, phase, kept, prefills, batch, taken, context, kv>>
    BY DEF RunningPreempt, InRunning, worker
  <1>3. running \in Seq(Requests) /\ waiting \in Seq(Requests)
    BY <1>1 DEF TypeParts
  <1>4. PICK v \in Requests : v = running[Len(running)] /\ v \in Range(running)
    <2>1. running[Len(running)] \in Range(running)
      BY <1>2, <1>3, RemoveLast
    <2>2. QED  BY <1>3, <2>1, RangeIsSubset
  <1>5. is_paused(v)
    BY <1>1, <1>2, <1>4, LoopsOverPaused
  <1>6. /\ running' = RemoveAt(running, Len(running)) /\ waiting' = <<v>> \o waiting
        /\ preempted' = preempted \cup {v}
    BY <1>4, <1>5 DEF RunningPreempt, Victim, Requeue, is_executing, is_paused
  <1>7. /\ Range(running') \subseteq Range(running) /\ Range(waiting') = Range(waiting) \cup {v}
    BY <1>2, <1>3, <1>6, RemoveLast, ConsList
  <1>8. SlotsInv'
    BY <1>1, <1>2, <1>7, SlotsKept
  <1>9. ItemsInv'
    BY <1>1, <1>2, ItemsKept
  <1>10. WaitInv'
    BY <1>1, <1>2, <1>5, <1>6, <1>7 DEF WaitInv, Stuck, is_paused
  <1>11. CountInv'
    <2>1. batch = <<>> => Blocks(context) >= num_gpu_blocks /\ kept = <<>>
      <3>1. CASE preempted = {}
        <4>1. ~(free_blocks - promised_blocks > 0)
          BY <1>1, <1>2 DEF can_append_slot
        <4>2. free_blocks \in Nat /\ Blocks(context) \in Nat /\ num_gpu_blocks \in Nat
          BY <1>1, BlocksType, CapacityAssumption DEF TypeParts
        <4>3. batch = <<>> => free_blocks = num_gpu_blocks - Blocks(context) /\ promised_blocks = 0
                              /\ kept = <<>>
          BY <1>1, <1>2, <3>1 DEF CountInv
        <4>4. QED  BY <4>1, <4>2, <4>3
      <3>2. CASE preempted # {}
        BY <1>1, <1>2, <3>2 DEF CountInv
      <3>3. QED  BY <3>1, <3>2
    <2>2. Blocks(context)' = Blocks(context)
      BY <1>2 DEF Blocks
    <2>3. preempted' # {}
      BY <1>6
    <2>4. QED  BY <1>2, <2>1, <2>2, <2>3 DEF CountInv
  <1>12. QED  BY <1>8, <1>9, <1>10, <1>11 DEF ResidentParts

LEMMA RunningEndSlots ==
  ASSUME Serving, RunningEnd, UNCHANGED <<taken, worker, reported>>
  PROVE  ResidentParts'
  <1>1. /\ Inv /\ TypeParts /\ ControlInv /\ SlotsInv /\ ItemsInv /\ WaitInv /\ CountInv
    BY DEF Serving, ResidentParts, Inv
  <1>2. /\ phase = "running" /\ running = <<>>
        /\ UNCHANGED <<sq, waiting, free_blocks, promised_blocks, batch, preempted, prefills,
                       taken, context, kv>>
        /\ \/ phase' = "prefills" /\ UNCHANGED <<running, kept>>
           \/ phase' = "done" /\ running' = kept /\ kept' = <<>>
    BY DEF RunningEnd, Return, worker, manager, outputs
  <1>3. Range(<<>>) = {}
    BY EmptyList
  <1>4. SlotsInv'
    BY <1>1, <1>2, <1>3, SlotsKept
  <1>5. ItemsInv'
    BY <1>1, <1>2, ItemsKept
  <1>6. Stuck => Stuck'
    BY <1>2 DEF Stuck, Blocks
  <1>7. WaitInv'
    BY <1>1, <1>2, <1>6 DEF WaitInv, is_paused
  <1>8. CountInv'
    BY <1>1, <1>2 DEF CountInv, Blocks
  <1>9. QED  BY <1>4, <1>5, <1>7, <1>8 DEF ResidentParts

LEMMA PrefillStepSlots ==
  ASSUME Serving, Len(chunk_sizes) = 1, PrefillStep, UNCHANGED <<taken, worker, reported>>
  PROVE  ResidentParts'
  <1>1. /\ Inv /\ TypeParts /\ ControlInv /\ ProgressInv /\ ChunkInv /\ SlotsInv /\ ItemsInv
        /\ WaitInv /\ CountInv /\ policy \in {"sarathi", "vllm"} /\ error = "none"
    BY DEF Serving, ResidentParts, Inv
  <1>2. /\ phase = "prefills" /\ prefills # <<>> /\ prefills' = Tail(prefills)
        /\ kept' = Append(kept, Head(prefills))
        /\ UNCHANGED <<sq, waiting, running, phase, preempted, taken, context, kv>>
    BY DEF PrefillStep, worker
  <1>3. policy = "sarathi"
    BY <1>1, <1>2 DEF ControlInv
  <1>4. prefills \in Seq(Requests) /\ kept \in Seq(Requests) /\ batch \in Seq(Items)
    BY <1>1 DEF TypeParts
  <1>5. PICK s \in Requests : s = Head(prefills) /\ s \in Range(prefills)
    BY <1>2, <1>4, TailList
  <1>6. /\ Range(prefills) = Range(prefills') \cup {s} /\ Range(kept') = Range(kept) \cup {s}
    BY <1>2, <1>4, <1>5, TailList, AppendList
  <1>7. /\ ~prompt_processing_finished(s) /\ num_batched_tokens <= chunk_sizes[1]
        /\ batch = <<>> => num_batched_tokens = 0
    BY <1>1, <1>3, <1>5 DEF ChunkInv
  <1>8. is_paused(s)
    BY <1>1, <1>2, <1>5, LoopsOverPaused
  <1> DEFINE n == get_seq_next_num_prefill_tokens(s)
  <1>9. IF n # 0 THEN batch' = Append(batch, Item(s, n)) ELSE batch' = batch
    BY <1>5, <1>7, <1>8 DEF PrefillStep
  <1>10. /\ n \in Nat
         /\ (\A i \in DOMAIN batch : batch[i].chunk = 0) =>
              (n = 0 <=> prompt_processing_finished(s) \/ num_batched_tokens = chunk_sizes[1])
    BY <1>1, <1>3, <1>7, FirstChunk
  <1> HIDE DEF n
  <1>11. SlotsInv'
    BY <1>1, <1>2, <1>6, SlotsKept
  <1>12. WaitInv'
    BY <1>1, <1>2 DEF WaitInv, Stuck, is_paused
  <1>13. CASE n = 0
    <2>1. batch' = batch
      BY <1>9, <1>13
    <2>2. batch # <<>>
      <3>1. chunk_sizes[1] # 0
        BY <1>1, ListLengths
      <3>2. QED  BY <1>7, <1>10, <1>13, <3>1
    <2>3. ItemsInv'
      BY <1>1, <1>2, <2>1, ItemsKept
    <2>4. CountInv'
      BY <1>2, <2>1, <2>2 DEF CountInv
    <2>5. QED  BY <1>11, <1>12, <2>3, <2>4 DEF ResidentParts
  <1>14. CASE n # 0
    <2>1. n > 0 /\ n \in Int
      BY <1>10, <1>14
    <2>2. Adds(batch, batch', s, n)
      BY <1>4, <1>9, <1>14, <2>1, AppendItem
    <2>3. ItemsInv'
      BY <1>1, <1>2, <1>7, <1>8, <1>14, <2>1, <2>2, ItemsAdded DEF is_paused
    <2>4. CountInv'
      BY <1>2, <2>2 DEF CountInv, Adds
    <2>5. QED  BY <1>11, <1>12, <2>3, <2>4 DEF ResidentParts
  <1>15. QED  BY <1>13, <1>14

LEMMA PrefillsEndSlots ==
  ASSUME Serving, PrefillsEnd, UNCHANGED <<taken, worker, reported>>
  PROVE  ResidentParts'
  <1>1. /\ Inv /\ TypeParts /\ ControlInv /\ SlotsInv /\ ItemsInv /\ WaitInv /\ CountInv
        /\ policy \in {"sarathi", "vllm"}
    BY DEF Serving, ResidentParts, Inv
  <1>2. /\ phase = "prefills" /\ phase' = "waiting"
        /\ UNCHANGED <<sq, waiting, running, kept, prefills, free_blocks, promised_blocks, batch,
                       preempted, taken, context, kv>>
    BY <1>1, PrefillsEndCases DEF worker
  <1>3. SlotsInv'
    BY <1>1, <1>2, SlotsKept
  <1>4. ItemsInv'
    BY <1>1, <1>2, ItemsKept
  <1>5. WaitInv'
    BY <1>1, <1>2 DEF WaitInv, Stuck, Blocks, is_paused
  <1>6. CountInv'
    BY <1>1, <1>2 DEF CountInv, Blocks
  <1>7. QED  BY <1>3, <1>4, <1>5, <1>6 DEF ResidentParts

LEMMA WaitingEndSlots ==
  ASSUME Serving, WaitingEnd, UNCHANGED <<taken, worker, reported>>
  PROVE  ResidentParts'
  <1>1. /\ Inv /\ TypeParts /\ ControlInv /\ SlotsInv /\ ItemsInv /\ WaitInv /\ CountInv
    BY DEF Serving, ResidentParts, Inv
  <1>2. /\ phase = "waiting"
        /\ UNCHANGED <<sq, waiting, prefills, free_blocks, promised_blocks, batch, preempted,
                       taken, context, kv>>
        /\ \/ phase' = "done" /\ running = <<>> /\ running' = kept /\ kept' = <<>>
           \/ /\ phase' = "running" /\ preempted = {} /\ kept = <<>> /\ kept' = kept
              /\ running' = sort_by_priority(running)
           \/ phase' = "done" /\ preempted = {} /\ UNCHANGED <<running, kept>>
    BY <1>1, WaitingEndCases DEF worker
  <1>3. running \in Seq(Requests) /\ kept \in Seq(Requests)
    BY <1>1 DEF TypeParts
  <1>4. /\ sort_by_priority(running) \in Seq(Requests)
        /\ Range(sort_by_priority(running)) = Range(running)
    BY <1>3, RequestsAreNumbers, SortedList
  <1>5. running = <<>> => sort_by_priority(running) = <<>>
    BY <1>3, <1>4, EmptyRange
  <1>6. Range(running') \cup Range(kept') = Range(running) \cup Range(kept)
    BY <1>2, <1>4, EmptyList
  <1>7. SlotsInv'
    BY <1>1, <1>2, <1>6, SlotsKept
  <1>8. ItemsInv'
    BY <1>1, <1>2, ItemsKept
  <1>9. Stuck => Stuck'
    BY <1>2, <1>5 DEF Stuck, Blocks
  <1>10. WaitInv'
    BY <1>1, <1>2, <1>9 DEF WaitInv, is_paused
  <1>11. CountInv'
    BY <1>1, <1>2 DEF CountInv, Blocks
  <1>12. QED  BY <1>7, <1>8, <1>10, <1>11 DEF ResidentParts

LEMMA ScheduleStartSlots ==
  ASSUME Serving, ScheduleStart, UNCHANGED <<taken, worker, reported>>
  PROVE  ResidentParts'
  <1>1. /\ Inv /\ TypeParts /\ ControlInv /\ SlotsInv /\ ItemsInv /\ WaitInv /\ CountInv
        /\ policy \in {"sarathi", "vllm"}
    BY DEF Serving, ResidentParts, Inv
  <1>2. /\ phase = "start" /\ phase' \in {"running", "waiting"} /\ promised_blocks' = 0
        /\ UNCHANGED <<sq, waiting, prefills, kept, free_blocks, batch, preempted, taken,
                       context, kv>>
        /\ running' \in {running, sort_by_priority(running)}
    BY <1>1, ScheduleStartCases DEF worker
  <1>3. running \in Seq(Requests) /\ batch = <<>> /\ preempted = {} /\ kept = <<>>
    BY <1>1, <1>2 DEF TypeParts, ControlInv
  <1>4. /\ sort_by_priority(running) \in Seq(Requests)
        /\ Range(sort_by_priority(running)) = Range(running)
    BY <1>3, RequestsAreNumbers, SortedList
  <1>5. running = <<>> => sort_by_priority(running) = <<>>
    BY <1>3, <1>4, EmptyRange
  <1>6. SlotsInv'
    BY <1>1, <1>2, <1>4, SlotsKept
  <1>7. ItemsInv'
    BY <1>1, <1>2, ItemsKept
  <1>8. Stuck => Stuck'
    BY <1>2, <1>5 DEF Stuck, Blocks
  <1>9. WaitInv'
    BY <1>1, <1>2, <1>8 DEF WaitInv, is_paused
  <1>10. CountInv'
    BY <1>1, <1>2, <1>3 DEF CountInv, Blocks
  <1>11. QED  BY <1>6, <1>7, <1>9, <1>10 DEF ResidentParts

LEMMA WaitingIgnoreSlots ==
  ASSUME Serving, NEW s \in Requests, WaitingIgnore(s), error' = "none",
         UNCHANGED <<taken, worker, reported>>
  PROVE  ResidentParts'
  <1>1. /\ TypeParts /\ QueueInv /\ BatchInv /\ SlotsInv /\ ItemsInv /\ WaitInv /\ CountInv
        /\ error = "none"
    BY DEF Serving, ResidentParts, Inv
  <1>2. /\ phase = "waiting" /\ waiting # <<>> /\ s = Head(waiting)
        /\ UNCHANGED <<running, free_blocks, promised_blocks, phase, kept, prefills, batch,
                       preempted, taken, context, kv>>
    BY DEF WaitingIgnore, InWaiting, worker, manager
  <1>3. /\ sq' = [sq EXCEPT ![s] = set_status(sq[s], "ignored")] /\ waiting' = Tail(waiting)
    BY DEF WaitingIgnore
  <1>4. waiting \in Seq(Requests) /\ sq \in [Requests -> SequenceType] /\ IsInjective(waiting)
    BY <1>1 DEF TypeParts, QueueInv
  <1>5. /\ s \in Range(waiting) /\ Range(waiting) = Range(waiting') \cup {s}
        /\ s \notin Range(waiting')
    BY <1>2, <1>3, <1>4, TailList
  <1>6. \A r \in Requests : r # s => sq'[r] = sq[r]
    BY <1>3, <1>4
  <1>7. /\ \A r \in Range(running) \cup Range(kept) \cup Range(prefills) : sq'[r] = sq[r]
        /\ \A r \in Range(waiting') : sq'[r] = sq[r]
        /\ \A i \in DOMAIN batch : sq'[batch[i].seq] = sq[batch[i].seq]
    <2>1. s \notin Range(running) \cup Range(kept) \cup Range(prefills)
      BY <1>1, <1>5 DEF QueueInv
    <2>2. /\ Range(running) \subseteq Requests /\ Range(kept) \subseteq Requests
          /\ Range(prefills) \subseteq Requests /\ Range(waiting) \subseteq Requests
      BY <1>1, RangeIsSubset DEF TypeParts
    <2>3. \A i \in DOMAIN batch : batch[i].seq \in Range(running) \cup Range(kept)
      BY <1>1 DEF BatchInv, Batched, SeqsOf
    <2>4. QED  BY <1>5, <1>6, <2>1, <2>2, <2>3
  <1>8. SlotsInv'
    BY <1>1, <1>2, <1>7 DEF SlotsInv, is_paused, Resident, get_len
  <1>9. ItemsInv'
    BY <1>1, <1>2, <1>7 DEF ItemsInv, Decodes, is_paused, prompt_processing_finished
  <1>10. Stuck => Stuck'
    BY <1>2 DEF Stuck, Blocks
  <1>11. WaitInv'
    BY <1>1, <1>2, <1>5, <1>7, <1>10 DEF WaitInv, is_paused
  <1>12. CountInv'
    BY <1>1, <1>2 DEF CountInv, Blocks
  <1>13. QED  BY <1>8, <1>9, <1>11, <1>12 DEF ResidentParts

(* The members of the lists are requests, hence numbers. *)
LEMMA MembersAreRequests ==
  ASSUME TypeParts
  PROVE  /\ Admitted \subseteq Requests /\ Leaving \subseteq Requests
         /\ Range(waiting) \subseteq Requests /\ Range(running) \subseteq Requests
         /\ Range(kept) \subseteq Requests /\ Range(prefills) \subseteq Requests
         /\ Range(preemption_queue) \subseteq Requests /\ Range(taken) \subseteq Requests
         /\ Requests \subseteq Int
  BY RangeIsSubset, RequestsAreNumbers DEF TypeParts, Admitted, Leaving

(* A sequence that waits needs a block. *)
LEMMA WaitingBlocks ==
  ASSUME TypeParts, QueueInv, ProgressInv, error = "none", NEW s \in Range(waiting)
  PROVE  /\ s \in Requests /\ sq[s].prompt \in Nat /\ sq[s].prompt >= 1
         /\ get_num_blocks(s) \in Nat /\ get_num_blocks(s) >= 1
  <1>1. s \in Requests /\ Live(s) /\ sq[s] \in SequenceType
    BY MembersAreRequests DEF QueueInv, TypeParts
  <1>2. sq[s].prompt \in Nat /\ sq[s].output \in Nat /\ sq[s].prompt >= 1
    BY <1>1, SequenceFields DEF ProgressInv
  <1>3. get_len(s) \in Nat \ {0}
    BY <1>2 DEF get_len
  <1>4. QED  BY <1>1, <1>2, <1>3, CeilBlocks DEF get_num_blocks

(* Who is admitted is new, and has a token to process. *)
LEMMA AdmitsNew ==
  ASSUME Serving, Len(chunk_sizes) = 1, NEW s \in Requests, WaitingAdmit(s),
         NEW n, n = get_seq_next_num_prefill_tokens(s)
  PROVE  /\ preempted = {} /\ \A r \in Range(waiting) : sq[r].status = "waiting"
         /\ s \in Range(waiting) /\ sq[s].status = "waiting" /\ sq[s].processed = 0
         /\ sq[s].prompt \in Nat /\ sq[s].prompt >= 1 /\ ~prompt_processing_finished(s)
         /\ n \in Int /\ n > 0 /\ (policy = "vllm" => n = sq[s].prompt)
  <1>1. /\ Inv /\ TypeParts /\ QueueInv /\ ControlInv /\ ProgressInv /\ ChunkInv /\ PreemptInv
        /\ WaitInv /\ VAttention /\ policy \in {"sarathi", "vllm"} /\ error = "none"
    BY DEF Serving, ResidentParts, Inv
  <1>2. /\ phase = "waiting" /\ waiting # <<>> /\ s = Head(waiting) /\ waiting' = Tail(waiting)
        /\ can_allocate(s) /\ (policy = "sarathi" => n # 0)
        /\ UNCHANGED <<phase, preempted, config>>
    BY DEF WaitingAdmit, InWaiting, Fits
  <1>3. waiting \in Seq(Requests)
    BY <1>1 DEF TypeParts
  <1>4. s \in Range(waiting)
    BY <1>2, <1>3, TailList
  <1>5. /\ sq[s].prompt \in Nat /\ sq[s].prompt >= 1 /\ get_num_blocks(s) >= 1
        /\ get_num_blocks(s) \in Nat
    BY <1>1, <1>4, WaitingBlocks
  <1>6. preempted = {}
    <2> SUFFICES ASSUME preempted # {}  PROVE FALSE
      OBVIOUS
    <2>1. s \in preempted
      BY <1>1, <1>2 DEF ControlInv, PreemptInv
    <2>2. PreemptInv'
      BY <1>1, WaitingAdmitBars
    <2>3. Range(preemption_queue') = preempted
      BY <1>1, <1>2, <2>2 DEF PreemptInv, VAttention
    <2>4. s \notin Range(waiting')
      BY <1>1, <1>2, <1>3, TailList DEF QueueInv
    <2>5. QED  BY <2>1, <2>2, <2>3, <2>4 DEF PreemptInv
  <1>7. ~Stuck
    <2>1. free_blocks - promised_blocks - get_num_blocks(s) >= watermark_blocks
      BY <1>1, <1>2 DEF can_allocate, get_num_initial_blocks, ReservesAll
    <2>2. free_blocks \in Nat /\ promised_blocks \in Nat /\ watermark_blocks \in Nat
      BY <1>1, LimitsAssumption DEF TypeParts
    <2>3. ~(free_blocks <= 0)
      BY <1>5, <2>1, <2>2
    <2>4. QED  BY <1>2, <2>3 DEF Stuck
  <1>8. \A r \in Range(waiting) : sq[r].status = "waiting"
    BY <1>1, <1>6, <1>7 DEF WaitInv
  <1>9. sq[s].status = "waiting" /\ sq[s].processed = 0
    BY <1>1, <1>4, <1>8 DEF ProgressInv
  <1>10. ~prompt_processing_finished(s)
    BY <1>5, <1>9 DEF prompt_processing_finished
  <1>11. n \in Int /\ n > 0 /\ (policy = "vllm" => n = sq[s].prompt)
    <2>1. CASE policy = "sarathi"
      <3>1. num_batched_tokens <= chunk_sizes[1]
        BY <1>1, <2>1 DEF ChunkInv
      <3>2. n \in Nat
        BY <1>1, <2>1, <3>1, FirstChunk
      <3>3. QED  BY <1>2, <2>1, <3>2
    <2>2. CASE policy = "vllm"
      <3>1. n = sq[s].prompt
        BY <1>10, <2>2 DEF get_seq_next_num_prefill_tokens
      <3>2. QED  BY <1>5, <3>1
    <2>3. QED  BY <1>1, <2>1, <2>2
  <1>12. QED  BY <1>4, <1>5, <1>6, <1>8, <1>9, <1>10, <1>11

LEMMA WaitingAdmitSlots ==
  ASSUME Serving, Len(chunk_sizes) = 1, NEW s \in Requests, WaitingAdmit(s),
         UNCHANGED <<taken, worker, reported>>
  PROVE  ResidentParts'
  <1>1. Inv /\ TypeParts /\ SlotsInv /\ ItemsInv
    BY DEF Serving, ResidentParts, Inv
  <1>2. PICK n : n = get_seq_next_num_prefill_tokens(s)
    OBVIOUS
  <1>3. /\ phase = "waiting" /\ waiting # <<>> /\ s = Head(waiting) /\ waiting' = Tail(waiting)
        /\ batch' = Append(batch, Item(s, n))
        /\ \/ kept' = Append(kept, s) /\ running' = running
           \/ running' = Append(running, s) /\ kept' = kept
        /\ UNCHANGED <<sq, phase, prefills, preempted, taken, context, kv>>
    BY <1>2 DEF WaitingAdmit, InWaiting, worker
  <1>4. /\ waiting \in Seq(Requests) /\ running \in Seq(Requests) /\ kept \in Seq(Requests)
        /\ batch \in Seq(Items)
    BY <1>1 DEF TypeParts
  <1>5. Range(waiting') \subseteq Range(waiting)
    BY <1>3, <1>4, TailList
  <1>6. /\ \A r \in Range(waiting) : sq[r].status = "waiting"
        /\ sq[s].status = "waiting" /\ ~prompt_processing_finished(s)
        /\ n \in Int /\ n > 0 /\ n # 0
    BY <1>2, AdmitsNew
  <1>7. Adds(batch, batch', s, n)
    BY <1>3, <1>4, <1>6, AppendItem
  <1>8. Range(running') \cup Range(kept') \subseteq Range(running) \cup Range(kept) \cup {s}
    <2>1. Range(Append(kept, s)) = Range(kept) \cup {s} /\ Range(Append(running, s)) = Range(running) \cup {s}
      BY <1>4, AppendList
    <2>2. QED  BY <1>3, <2>1
  <1>9. SlotsInv'
    BY <1>1, <1>3, <1>6, <1>8 DEF SlotsInv, Resident, is_paused, get_len
  <1>10. ItemsInv'
    BY <1>1, <1>3, <1>6, <1>7, ItemsAdded
  <1>11. WaitInv'
    BY <1>3, <1>5, <1>6 DEF WaitInv
  <1>12. CountInv'
    BY <1>3, <1>7 DEF CountInv, Adds
  <1>13. QED  BY <1>9, <1>10, <1>11, <1>12 DEF ResidentParts

LEMMA AddRequestSlots ==
  ASSUME Serving, AddRequest
  PROVE  ResidentParts'
  <1>1. /\ TypeParts /\ QueueInv /\ ControlInv /\ SlotsInv /\ ItemsInv /\ WaitInv /\ CountInv
    BY DEF Serving, ResidentParts, Inv
  <1>2. PICK s \in Requests, k \in Prompts :
          /\ phase = "idle" /\ sq[s].status = "absent"
          /\ sq' = [sq EXCEPT ![s] = NewSequence(k)] /\ waiting' = Append(waiting, s)
          /\ UNCHANGED <<running, free_blocks, promised_blocks, phase, kept, prefills, batch,
                         preempted, taken, context, kv>>
    BY DEF AddRequest, add_seq, worker, manager, outputs
  <1>3. waiting \in Seq(Requests) /\ sq \in [Requests -> SequenceType] /\ batch = <<>>
    BY <1>1, <1>2 DEF TypeParts, ControlInv
  <1>4. Range(waiting') = Range(waiting) \cup {s}
    BY <1>2, <1>3, AppendList
  <1>5. sq'[s].status = "waiting" /\ \A r \in Requests : r # s => sq'[r] = sq[r]
    BY <1>2, <1>3 DEF NewSequence
  <1>6. /\ \A r \in Range(running) \cup Range(kept) \cup Range(prefills) \cup Range(waiting) :
             sq'[r] = sq[r]
    <2>1. s \notin Range(running) \cup Range(kept) \cup Range(prefills) \cup Range(waiting)
      BY <1>1, <1>2 DEF QueueInv, Live
    <2>2. /\ Range(running) \subseteq Requests /\ Range(kept) \subseteq Requests
          /\ Range(prefills) \subseteq Requests /\ Range(waiting) \subseteq Requests
      BY <1>1, RangeIsSubset DEF TypeParts
    <2>3. QED  BY <1>5, <2>1, <2>2
  <1>7. SlotsInv'
    BY <1>1, <1>2, <1>6 DEF SlotsInv, is_paused, Resident, get_len
  <1>8. ItemsInv'
    BY <1>2, <1>3 DEF ItemsInv
  <1>9. Stuck => Stuck'
    BY <1>2 DEF Stuck, Blocks
  <1>10. WaitInv'
    BY <1>1, <1>2, <1>4, <1>5, <1>6, <1>9 DEF WaitInv, is_paused
  <1>11. CountInv'
    BY <1>2 DEF CountInv
  <1>12. QED  BY <1>7, <1>8, <1>10, <1>11 DEF ResidentParts

LEMMA TimePassesSlots ==
  ASSUME Serving, TimePasses
  PROVE  ResidentParts'
  <1>1. SlotsInv /\ ItemsInv /\ WaitInv /\ CountInv
    BY DEF Serving, ResidentParts
  <1>2. /\ phase = "idle"
        /\ UNCHANGED <<sq, waiting, running, free_blocks, promised_blocks, phase, kept, prefills,
                       batch, preempted, taken, context, kv>>
    BY DEF TimePasses, Tick, worker, manager, outputs
  <1>3. SlotsInv'
    BY <1>1, <1>2, SlotsKept
  <1>4. ItemsInv'
    BY <1>1, <1>2, ItemsKept
  <1>5. WaitInv' /\ CountInv'
    BY <1>1, <1>2 DEF WaitInv, Stuck, Blocks, is_paused, CountInv
  <1>6. QED  BY <1>3, <1>4, <1>5 DEF ResidentParts

LEMMA StepStartSlots ==
  ASSUME Serving, StepStart
  PROVE  ResidentParts'
  <1>1. /\ TypeParts /\ QueueInv /\ ControlInv /\ PreemptInv /\ SlotsInv /\ ItemsInv /\ WaitInv
        /\ CountInv /\ VAttention
    BY DEF Serving, ResidentParts, Inv
  <1>2. /\ phase = "idle" /\ phase' = "start" /\ taken' = preemption_queue
        /\ free_blocks' = num_gpu_blocks - Blocks(context)
        /\ UNCHANGED <<sq, waiting, running, promised_blocks, kept, prefills, batch, preempted,
                       context, kv>>
    BY <1>1 DEF StepStart, worker, outputs
  <1>3. SlotsInv'
    <2>1. \A r \in Range(running) \cup Range(kept) \cup Range(prefills) : r \notin Range(taken')
      BY <1>1, <1>2 DEF QueueInv, PreemptInv
    <2>2. QED  BY <1>1, <1>2, <2>1 DEF SlotsInv, is_paused, Resident, get_len
  <1>4. ItemsInv'
    BY <1>1, <1>2, ItemsKept
  <1>5. Blocks(context) \in Nat /\ num_gpu_blocks \in Nat
    BY <1>1, BlocksType, CapacityAssumption DEF TypeParts
  <1>6. Stuck => Stuck'
    <2>1. Blocks(context) >= num_gpu_blocks => free_blocks' <= 0
      BY <1>2, <1>5
    <2>2. QED  BY <1>2, <2>1 DEF Stuck, Blocks
  <1>7. preempted = {}
    BY <1>1, <1>2 DEF ControlInv
  <1>8. WaitInv'
    BY <1>1, <1>2, <1>6, <1>7 DEF WaitInv, is_paused
  <1>9. CountInv'
    BY <1>2 DEF CountInv, Blocks
  <1>10. QED  BY <1>3, <1>4, <1>8, <1>9 DEF ResidentParts

LEMMA StepReturnsEmptySlots ==
  ASSUME Serving, StepReturnsEmpty
  PROVE  ResidentParts'
  <1>1. /\ TypeParts /\ ControlInv /\ SlotsInv /\ ItemsInv /\ WaitInv /\ CountInv
    BY DEF Serving, ResidentParts, Inv
  <1>2. /\ phase = "done" /\ batch = <<>> /\ phase' = "idle" /\ taken' = <<>> /\ preempted' = {}
        /\ UNCHANGED <<sq, waiting, running, kept, prefills, batch, context, kv>>
    BY DEF StepReturnsEmpty, worker
  <1>3. SlotsInv'
    BY <1>1, <1>2, EmptyList DEF SlotsInv, is_paused, Resident, get_len
  <1>4. ItemsInv'
    BY <1>1, <1>2, ItemsKept
  <1>5. ASSUME Stuck \/ preempted # {}  PROVE Stuck'
    <2>1. kept = <<>> /\ prefills = <<>>
      BY <1>1, <1>2 DEF ControlInv
    <2>2. Blocks(context) >= num_gpu_blocks /\ running = <<>>
      BY <1>1, <1>2, <1>5 DEF CountInv, Stuck
    <2>3. QED  BY <1>2, <2>1, <2>2 DEF Stuck, Blocks
  <1>6. WaitInv'
    BY <1>1, <1>2, <1>5 DEF WaitInv, is_paused
  <1>7. CountInv'
    BY <1>2 DEF CountInv
  <1>8. QED  BY <1>3, <1>4, <1>6, <1>7 DEF ResidentParts

LEMMA ExecuteModelSlots ==
  ASSUME Serving, ExecuteModel
  PROVE  ResidentParts'
  <1>1. /\ TypeParts /\ QueueInv /\ ControlInv /\ ProgressInv /\ BatchInv /\ PausedInv /\ PreemptInv
        /\ SlotsInv /\ ItemsInv /\ WaitInv /\ VAttention /\ error = "none"
    BY DEF Serving, ResidentParts, Inv
  <1>2. /\ phase = "done" /\ batch # <<>> /\ phase' = "forward"
        /\ sq' = on_schedule(sq, batch, preempted)
        /\ context' = StepContexts(sq') /\ kv' = preempt_requests(kv)
        /\ UNCHANGED <<waiting, running, kept, prefills, batch, preempted, taken>>
    BY <1>1 DEF ExecuteModel, outputs
  <1>3. \A r \in Requests :
          /\ sq'[r] \in SequenceType
          /\ r \in Batched => sq'[r].status = "running"
          /\ r \notin Batched => sq'[r].status = IF r \in preempted THEN "waiting" ELSE sq[r].status
          /\ r \notin preempted => /\ sq'[r].processed = sq[r].processed
                                   /\ sq'[r].output = sq[r].output
                                   /\ sq'[r].prompt = sq[r].prompt
          /\ r \notin preempted /\ r \notin Batched => sq'[r] = sq[r]
    BY <1>1, <1>2, OnScheduleFields
  <1>4. kept = <<>> /\ prefills = <<>> /\ Range(kept) = {} /\ Range(prefills) = {}
    BY <1>1, <1>2, EmptyList DEF ControlInv
  <1>5. /\ Range(running) \subseteq Requests /\ Range(waiting) \subseteq Requests
        /\ kv \in [Requests -> Nat] /\ batch \in Seq(Items)
    BY <1>1, RangeIsSubset DEF TypeParts
  <1>6. Batched \subseteq Range(running)
    BY <1>1, <1>4 DEF BatchInv
  <1>7. /\ preempted \subseteq Range(waiting)
        /\ Range(waiting) \cap Range(running) = {}
    BY <1>1, <1>2 DEF PreemptInv, QueueInv
  <1>8. \A r \in Requests : kv'[r] = IF r \in Range(taken) THEN 0 ELSE kv[r]
    BY <1>2 DEF preempt_requests
  <1>9. SlotsInv'
    <2> SUFFICES ASSUME NEW r \in Range(running), sq'[r].status = "paused"
                 PROVE  Resident(r)' /\ r \notin Range(taken')
      BY <1>2, <1>4 DEF SlotsInv, is_paused
    <2>1. r \in Requests /\ r \notin Batched /\ r \notin preempted
      BY <1>3, <1>5, <1>7
    <2>2. sq'[r] = sq[r]
      BY <1>3, <2>1
    <2>3. Resident(r) /\ r \notin Range(taken)
      BY <1>1, <2>2 DEF SlotsInv, is_paused
    <2>4. kv'[r] = kv[r]
      BY <1>8, <2>1, <2>3
    <2>5. QED  BY <1>2, <2>2, <2>3, <2>4 DEF Resident, get_len
  <1>10. ItemsInv'
    <2> SUFFICES ASSUME NEW i \in DOMAIN batch, NEW s, s = batch[i].seq,
                        NEW chunk, chunk = batch[i].chunk
                 PROVE  /\ context'[s] = ContextLen(sq'[s], chunk)
                        /\ chunk = 0 <=> prompt_processing_finished(s)'
                        /\ chunk >= 0
                        /\ kv'[s] >= IF chunk > 0 THEN sq'[s].processed ELSE get_len(s)' - 1
      BY <1>2 DEF ItemsInv, get_len, prompt_processing_finished
    <2>1. s \in Batched /\ s \in Requests /\ s \in Range(running) /\ s \notin preempted
      <3>1. s \in Batched
        BY DEF Batched, SeqsOf
      <3>2. QED  BY <1>5, <1>6, <1>7, <3>1
    <2>2. /\ chunk = 0 => Decodes(s)
          /\ chunk # 0 => chunk > 0 /\ ~prompt_processing_finished(s)
          /\ sq[s].status \in {"waiting", "paused"}
      BY <1>1, <1>2 DEF ItemsInv
    <2>3. /\ sq'[s].processed = sq[s].processed /\ sq'[s].output = sq[s].output
          /\ sq'[s].prompt = sq[s].prompt
      BY <1>3, <2>1
    <2>4. context'[s] = ContextLen(sq'[s], chunk)
      <3>1. ItemOf(batch, s) = batch[i]
        <4>1. \A a, b \in DOMAIN batch : batch[a].seq = batch[b].seq => a = b
          BY <1>1 DEF BatchInv
        <4>2. s \in SeqsOf(batch)
          BY <2>1 DEF Batched
        <4>3. QED  BY <1>5, <4>1, <4>2, ItemOfBatch
      <3>2. QED  BY <1>2, <2>1, <3>1 DEF StepContexts
    <2>5. prompt_processing_finished(s)' <=> prompt_processing_finished(s)
      BY <2>3 DEF prompt_processing_finished
    <2>6. chunk = 0 <=> prompt_processing_finished(s)
      BY <2>2 DEF Decodes
    <2>7. chunk >= 0 /\ (chunk = 0 \/ chunk > 0) /\ ~(0 > 0)
      <3>1. batch[i] \in Items
        BY <1>5
      <3>2. chunk \in Int
        BY <3>1 DEF Items
      <3>3. QED  BY <2>2, <3>2
    <2>8. /\ sq[s].processed \in Int /\ sq[s].prompt \in Nat /\ sq[s].output \in Nat
          /\ sq[s].processed <= sq[s].prompt /\ kv'[s] \in Nat
      <3>1. sq[s] \in SequenceType
        BY <1>1, <2>1 DEF TypeParts
      <3>2. QED  BY <1>1, <1>5, <1>8, <2>1, <3>1, SequenceFields DEF ProgressInv
    <2>9. CASE sq[s].status = "paused"
      <3>1. Resident(s) /\ kv'[s] = kv[s]
        BY <1>1, <1>8, <2>1, <2>9 DEF SlotsInv, is_paused
      <3>2. kv'[s] >= IF sq[s].processed < sq[s].prompt THEN sq[s].processed
                      ELSE (sq[s].prompt + sq[s].output) - 1
        BY <3>1 DEF Resident, get_len
      <3>3. CASE chunk = 0
        <4>1. ~(sq[s].processed < sq[s].prompt)
          BY <2>6, <2>8, <3>3 DEF prompt_processing_finished
        <4>2. kv'[s] >= (sq'[s].prompt + sq'[s].output) - 1
          BY <2>3, <3>2, <4>1
        <4>3. get_len(s)' = sq'[s].prompt + sq'[s].output
          BY DEF get_len
        <4>4. ~(chunk > 0)
          BY <2>7, <3>3
        <4>5. kv'[s] >= IF chunk > 0 THEN sq'[s].processed ELSE get_len(s)' - 1
          BY <4>2, <4>3, <4>4
        <4>6. QED  BY <2>4, <2>5, <2>6, <2>7, <4>5
      <3>4. CASE chunk > 0 /\ chunk # 0
        <4>1. sq[s].processed < sq[s].prompt
          BY <2>6, <2>8, <3>4 DEF prompt_processing_finished
        <4>2. QED  BY <2>3, <2>4, <2>5, <2>6, <2>7, <3>2, <3>4, <4>1
      <3>5. QED  BY <2>2, <3>3, <3>4
    <2>10. CASE sq[s].status = "waiting"
      <3>1. sq[s].processed = 0 /\ chunk # 0
        BY <1>1, <2>1, <2>2, <2>10 DEF ProgressInv, Decodes, is_paused
      <3>2. chunk > 0 /\ kv'[s] >= 0
        BY <2>2, <2>8, <3>1
      <3>3. QED  BY <2>3, <2>4, <2>5, <2>6, <2>7, <3>1, <3>2
    <2>11. QED  BY <2>2, <2>9, <2>10
  <1>11. WaitInv'
    <2> SUFFICES ASSUME NEW r \in Range(waiting)  PROVE sq'[r].status = "waiting"
      BY <1>2 DEF WaitInv
    <2>1. r \in Requests /\ r \notin Batched
      BY <1>5, <1>6, <1>7
    <2>2. ~Stuck
      BY <1>2 DEF Stuck
    <2>3. r \notin preempted => sq[r].status = "waiting"
      BY <1>1, <2>2 DEF WaitInv
    <2>4. QED  BY <1>3, <2>1, <2>3
  <1>12. CountInv'
    BY <1>2 DEF CountInv
  <1>13. QED  BY <1>9, <1>10, <1>11, <1>12 DEF ResidentParts

(* The slot of a sequence holds, after the forward pass, what the batch added. *)
LEMMA CompletedResident ==
  ASSUME NEW q \in SequenceType, 0 <= q.processed, q.processed <= q.prompt,
         q.processed < q.prompt => q.output = 0,
         NEW chunk \in Int, chunk >= 0, chunk = 0 <=> q.processed = q.prompt,
         process_asserts(q, chunk), NEW stop \in BOOLEAN,
         NEW p, p = process_seq_output(q, chunk, stop)
  PROVE  ContextLen(q, chunk) >= IF p.processed < p.prompt THEN p.processed
                                 ELSE (p.prompt + p.output) - 1
  <1>1. q.prompt \in Nat /\ q.processed \in Int /\ q.output \in Nat
    BY SequenceFields
  <1>2. /\ p.prompt = q.prompt
        /\ q.processed < q.prompt => p.processed = q.processed + chunk /\ p.output = q.output
        /\ q.processed = q.prompt => p.processed = q.processed /\ p.output = q.output + 1
    BY ProcessOutput
  <1>3. CASE q.processed < q.prompt
    <2>1. chunk > 0 /\ q.processed + chunk <= q.prompt
      BY <1>3 DEF process_asserts
    <2>2. Min({chunk, q.prompt - q.processed}) = chunk
      BY <1>1, <2>1, MinOfTwo
    <2>3. ContextLen(q, chunk) = q.processed + chunk
      BY <2>1, <2>2 DEF ContextLen
    <2>4. p.processed = q.processed + chunk /\ p.prompt = q.prompt /\ p.output = 0
      BY <1>2, <1>3
    <2>5. CASE q.processed + chunk < q.prompt
      BY <1>1, <2>3, <2>4, <2>5
    <2>6. CASE q.processed + chunk = q.prompt
      <3>1. ~(p.processed < p.prompt)
        BY <1>1, <2>4, <2>6
      <3>2. ContextLen(q, chunk) >= (p.prompt + p.output) - 1
        BY <1>1, <2>3, <2>4, <2>6
      <3>3. QED  BY <3>1, <3>2
    <2>7. QED  BY <1>1, <2>1, <2>5, <2>6
  <1>4. CASE q.processed = q.prompt
    <2>1. ~(chunk > 0)
      BY <1>4
    <2>2. ContextLen(q, chunk) = q.prompt + q.output
      BY <2>1 DEF ContextLen
    <2>3. p.processed = q.prompt /\ p.prompt = q.prompt /\ p.output = q.output + 1
      BY <1>2, <1>4
    <2>4. ~(p.processed < p.prompt)
      BY <1>1, <2>3
    <2>5. ContextLen(q, chunk) >= (p.prompt + p.output) - 1
      BY <1>1, <2>2, <2>3
    <2>6. QED  BY <2>4, <2>5
  <1>5. QED  BY <1>1, <1>3, <1>4

LEMMA StepCompletesSlots ==
  ASSUME Serving, StepCompletes, error' = "none"
  PROVE  ResidentParts'
  <1>1. /\ TypeParts /\ QueueInv /\ ControlInv /\ ProgressInv /\ BatchInv /\ PausedInv
        /\ SlotsInv /\ ItemsInv /\ WaitInv /\ error = "none"
    BY DEF Serving, ResidentParts, Inv
  <1>0. Batched \subseteq Requests
    BY <1>1, BatchedAreRequests
  <1> DEFINE done == {r \in Batched : sq'[r].status = "finished"}
  <1>2. PICK stops \in SUBSET Batched, freed \in SUBSET Batched :
          /\ phase = "forward" /\ freed \subseteq done
          /\ sq' = [r \in Requests |->
                      IF r \in Batched
                      THEN process_seq_output(sq[r], ItemOf(batch, r).chunk, r \in stops)
                      ELSE sq[r]]
          /\ \A i \in DOMAIN batch : process_asserts(sq[batch[i].seq], batch[i].chunk)
          /\ context' = [r \in Requests |-> IF r \in freed THEN 0 ELSE context[r]]
          /\ kv' = [r \in Requests |-> IF r \in Batched THEN context'[r] ELSE kv[r]]
          /\ running' = Those(running, Requests \ done)
          /\ phase' = "idle" /\ taken' = <<>> /\ batch' = <<>> /\ preempted' = {}
          /\ UNCHANGED <<waiting, kept, prefills>>
    BY <1>0, Completion
  <1>3. /\ kept = <<>> /\ prefills = <<>> /\ Range(kept) = {} /\ Range(prefills) = {}
        /\ Batched \subseteq Range(running) /\ batch # <<>>
    <2>1. kept = <<>> /\ prefills = <<>> /\ batch # <<>>
      BY <1>1, <1>2 DEF ControlInv
    <2>2. QED  BY <1>1, <2>1, EmptyList DEF BatchInv
  <1>4. /\ Range(running) \subseteq Requests /\ Range(waiting) \subseteq Requests
        /\ batch \in Seq(Items) /\ running \in Seq(Requests)
    BY <1>1, RangeIsSubset DEF TypeParts
  <1>5. Range(running') \subseteq Range(running)
    BY <1>2, <1>4, ThoseList
  <1>6. SlotsInv'
    <2> SUFFICES ASSUME NEW r \in Range(running), sq'[r].status = "paused"
                 PROVE  kv'[r] >= IF sq'[r].processed < sq'[r].prompt THEN sq'[r].processed
                                  ELSE (sq'[r].prompt + sq'[r].output) - 1
      BY <1>2, <1>3, <1>5, EmptyList DEF SlotsInv, is_paused, Resident, get_len
    <2>1. r \in Requests /\ sq[r] \in SequenceType
      BY <1>1, <1>4 DEF TypeParts
    <2>2. CASE r \in Batched
      <3> DEFINE chunk == ItemOf(batch, r).chunk
                 stop == r \in stops
      <3>1. r \notin done
        OBVIOUS
      <3> HIDE DEF done
      <3>2. kv'[r] = context[r]
        BY <1>2, <2>1, <2>2, <3>1
      <3>3. sq'[r] = process_seq_output(sq[r], chunk, stop)
        BY <1>2, <2>1, <2>2
      <3>4. chunk \in Int /\ \E i \in DOMAIN batch : chunk = batch[i].chunk /\ batch[i].seq = r
        <4>1. r \in SeqsOf(batch)
          BY <2>2 DEF Batched
        <4>2. QED  BY <1>4, <4>1, ItemOfBatch
      <3> HIDE DEF chunk
      <3>5. /\ context[r] = ContextLen(sq[r], chunk) /\ chunk >= 0
            /\ chunk = 0 <=> sq[r].processed = sq[r].prompt
            /\ process_asserts(sq[r], chunk)
        BY <1>1, <1>2, <3>4 DEF ItemsInv, prompt_processing_finished
      <3>6. /\ 0 <= sq[r].processed /\ sq[r].processed <= sq[r].prompt
            /\ sq[r].processed < sq[r].prompt => sq[r].output = 0
        BY <1>1, <2>1 DEF ProgressInv
      <3>7. stop \in BOOLEAN
        OBVIOUS
      <3> HIDE DEF stop
      <3>8. ContextLen(sq[r], chunk) >= IF sq'[r].processed < sq'[r].prompt THEN sq'[r].processed
                                        ELSE (sq'[r].prompt + sq'[r].output) - 1
        BY <2>1, <3>3, <3>4, <3>5, <3>6, <3>7, CompletedResident
      <3>9. QED  BY <3>2, <3>5, <3>8
    <2>3. CASE r \notin Batched
      <3>1. sq'[r] = sq[r] /\ kv'[r] = kv[r]
        BY <1>2, <2>1, <2>3
      <3>2. Resident(r)
        BY <1>1, <3>1 DEF SlotsInv, is_paused
      <3>3. QED  BY <3>1, <3>2 DEF Resident, get_len
    <2>4. QED  BY <2>2, <2>3
  <1>7. ItemsInv'
    BY <1>2 DEF ItemsInv
  <1>8. WaitInv'
    <2> SUFFICES ASSUME NEW r \in Range(waiting)  PROVE sq'[r].status = "waiting"
      BY <1>2 DEF WaitInv
    <2>1. r \in Requests /\ r \notin Batched
      BY <1>1, <1>3, <1>4 DEF QueueInv
    <2>2. sq'[r] = sq[r]
      BY <1>2, <2>1
    <2>3. ~Stuck
      BY <1>3 DEF Stuck
    <2>4. QED  BY <1>1, <1>2, <2>2, <2>3 DEF WaitInv
  <1>9. CountInv'
    BY <1>2 DEF CountInv
  <1>10. QED  BY <1>6, <1>7, <1>8, <1>9 DEF ResidentParts

LEMMA ResidentNext ==
  ASSUME Len(chunk_sizes) = 1
  PROVE  Inv /\ ChunkInv /\ PreemptInv /\ ResidentInv /\ [Next]_vars => ResidentInv'
  <1> SUFFICES ASSUME Inv, ChunkInv, PreemptInv, ResidentInv, [Next]_vars,
                      VAttention', policy' \in {"sarathi", "vllm"}, error' = "none"
               PROVE  ResidentParts'
    BY DEF ResidentInv
  <1>1. VAttention /\ policy \in {"sarathi", "vllm"}
    BY ConfigFixed DEF VAttention, policy
  <1>2. CASE UNCHANGED vars
    <2>1. UNCHANGED <<sq, waiting, running, kept, prefills, free_blocks, promised_blocks, phase,
                      batch, preempted, error, taken, context, kv>>
      BY <1>2 DEF vars, scheduler, manager, outputs, worker
    <2>2. SlotsInv /\ ItemsInv /\ WaitInv /\ CountInv
      BY <1>1, <2>1 DEF ResidentInv, ResidentParts
    <2>3. SlotsInv' /\ ItemsInv'
      BY <2>1, <2>2 DEF SlotsInv, ItemsInv, Resident, is_paused, get_len, Decodes,
                        prompt_processing_finished
    <2>4. WaitInv' /\ CountInv'
      BY <2>1, <2>2 DEF WaitInv, Stuck, Blocks, is_paused, CountInv
    <2>5. QED  BY <2>3, <2>4 DEF ResidentParts
  <1>3. CASE error = "none" /\ (AddRequest \/ TimePasses \/ Step)
    <2>1. Serving
      BY <1>1, <1>3 DEF Serving, ResidentInv
    <2>2. CASE AddRequest \/ TimePasses
      BY <2>1, <2>2, AddRequestSlots, TimePassesSlots
    <2>3. CASE StepStart \/ StepReturnsEmpty
      BY <2>1, <2>3, StepStartSlots, StepReturnsEmptySlots
    <2>4. CASE ExecuteModel \/ StepCompletes
      BY <2>1, <2>4, ExecuteModelSlots, StepCompletesSlots
    <2>5. CASE Schedule
      <3>1. ScheduleStep /\ UNCHANGED <<taken, worker, reported>>
        BY <2>5 DEF Schedule
      <3>2. CASE ScheduleStart
        BY <2>1, <3>1, <3>2, ScheduleStartSlots
      <3>3. CASE ScheduleDecodes
        BY <1>1, <3>3 DEF ScheduleDecodes, Inv, ControlInv
      <3>4. CASE \E s \in Requests : RunningKeep(s) \/ RunningAppend(s) \/ RunningPreempt(s)
        BY <2>1, <3>1, <3>4, RunningKeepSlots, RunningAppendSlots, RunningPreemptSlots
      <3>5. CASE RunningEnd \/ PrefillStep \/ PrefillsEnd
        BY <2>1, <3>1, <3>5, RunningEndSlots, PrefillStepSlots, PrefillsEndSlots
      <3>6. CASE \E s \in Requests : WaitingIgnore(s) \/ WaitingAdmit(s)
        BY <2>1, <3>1, <3>6, WaitingIgnoreSlots, WaitingAdmitSlots
      <3>7. CASE WaitingEnd
        BY <2>1, <3>1, <3>7, WaitingEndSlots
      <3>8. QED  BY <3>1, <3>2, <3>3, <3>4, <3>5, <3>6, <3>7 DEF ScheduleStep
    <2>6. QED  BY <1>3, <2>2, <2>3, <2>4, <2>5 DEF Step
  <1>4. QED  BY <1>2, <1>3 DEF Next, Stopped

LEMMA ResidentInit == ServingInit => ResidentInv
  <1> SUFFICES ASSUME ServingInit  PROVE SlotsInv /\ ItemsInv /\ WaitInv /\ CountInv
    BY DEF ResidentInv, ResidentParts
  <1>1. /\ waiting = <<>> /\ running = <<>> /\ kept = <<>> /\ prefills = <<>> /\ batch = <<>>
        /\ phase = "idle"
    BY DEF ServingInit, Init
  <1>2. QED  BY <1>1, EmptyList DEF SlotsInv, ItemsInv, WaitInv, CountInv

(* A forward pass attends only to tokens that an earlier pass has written    *)
(* into the slot the sequence holds now, for one chunk size and the policies *)
(* that schedule for vAttention (sarathi and vllm clear promised_blocks).    *)
(* The slot of a preempted sequence is freed one step late; its tokens are   *)
(* not read after that, because the sequence restarts from its first token,  *)
(* or is never admitted again.                                               *)
THEOREM ContextResidentHolds ==
  ASSUME Len(chunk_sizes) = 1,
         \A c \in Configs : c.vattention => c.type \in {"sarathi", "vllm"}
  PROVE  Spec => []ContextResident
  <1>1. Inv /\ ChunkInv /\ [Next]_vars => ChunkInv'
    BY ChunkNext
  <1>2. Inv /\ ChunkInv /\ PreemptInv /\ [Next]_vars => PreemptInv'
    BY PreemptNext
  <1>3. Inv /\ ChunkInv /\ PreemptInv /\ ResidentInv /\ [Next]_vars => ResidentInv'
    BY ResidentNext
  <1>4. Inv /\ ResidentInv => ContextResident
    <2>1. Inv => (VAttention => policy \in {"sarathi", "vllm"})
      BY DEF Inv, TypeParts, VAttention, policy
    <2>2. QED  BY <2>1 DEF ResidentInv, ResidentParts, ItemsInv, ContextResident
  <1>5. QED  BY <1>1, <1>2, <1>3, <1>4, ChunkInit, PreemptInit, ResidentInit, InvHolds, PTL DEF Spec

-----------------------------------------------------------------------------
(* No internal error. *)

(* What the steps below start from. *)
Safe == Serving /\ SafeParts /\ NoneOutgrown /\ Len(chunk_sizes) = 1

(* Steps that leave the sequences, the queue and the worker alone. *)

LEMMA ArrivalKept ==
  ASSUME ArrivalInv, UNCHANGED <<sq, now, waiting, preemption_queue, taken>>,
         Admitted' \subseteq Admitted
  PROVE  ArrivalInv'
  BY DEF ArrivalInv, Ascending, Leaving, TooLong, get_len

LEMMA FitKept ==
  ASSUME FitInv, UNCHANGED <<sq, batch, config>>
  PROVE  FitInv'
  BY DEF FitInv, policy, is_paused, prompt_processing_finished

LEMMA BarredKept ==
  ASSUME HeadBarred, UNCHANGED <<sq, now, waiting, context, config>>
  PROVE  HeadBarred'
  BY DEF HeadBarred, Blocks, TooLong, get_num_blocks, get_len, policy

LEMMA HoldersKept ==
  ASSUME HoldersInv, UNCHANGED <<sq, now, waiting, preemption_queue, taken, context, string_stopped,
                                     config>>,
         Admitted' = Admitted, phase # "forward", phase' # "forward",
         Admitted # {} \/ UNCHANGED <<batch, preempted>>
  PROVE  HoldersInv'
  <1>1. Idle /\ HeadBarred => Idle' /\ HeadBarred'
    BY BarredKept DEF Idle
  <1>2. NoOtherHolder => NoOtherHolder'
    BY DEF NoOtherHolder
  <1>3. QED  BY <1>1, <1>2 DEF HoldersInv, is_paused

LEMMA FitAdded ==
  ASSUME FitInv, UNCHANGED <<sq, config>>,
         NEW s \in Requests, NEW n \in Int, Adds(batch, batch', s, n),
         n # 0 => /\ sq[s].processed + n <= sq[s].prompt
                  /\ policy = "vllm" => sq[s].processed + n = sq[s].prompt
  PROVE  FitInv'
  <1>1. /\ Len(batch) + 1 \in DOMAIN batch' /\ batch'[Len(batch) + 1].seq = s
        /\ batch'[Len(batch) + 1].chunk = n
        /\ \A i \in DOMAIN batch : batch'[i] = batch[i]
        /\ \A i \in DOMAIN batch' : i \in DOMAIN batch \/ i = Len(batch) + 1
    BY DEF Adds
  <1>2. QED  BY <1>1 DEF FitInv, policy, is_paused, prompt_processing_finished

LEMMA ScheduleStartSafe ==
  ASSUME Safe, ScheduleStart, UNCHANGED <<taken, worker, reported>>
  PROVE  error' = "none" /\ SafeParts'
  <1>1. /\ Inv /\ TypeParts /\ ControlInv /\ ArrivalInv /\ TakenInv /\ FitInv /\ EmptyInv
        /\ HoldersInv /\ SlotCountInv /\ policy \in {"sarathi", "vllm"} /\ error = "none"
    BY DEF Safe, Serving, SafeParts, Inv
  <1>2. /\ phase = "start" /\ phase' \in {"running", "waiting"}
        /\ phase' = "running" => policy = "sarathi"
        /\ UNCHANGED <<sq, now, waiting, preemption_queue, config, prefills, kept, batch,
                       num_batched_tokens, ignored, preempted, taken, context,
                       string_stopped, error>>
        /\ running' \in {running, sort_by_priority(running)}
    BY <1>1, ScheduleStartCases DEF worker
  <1>3. running \in Seq(Requests) /\ kept = <<>> /\ prefills = <<>>
    BY <1>1, <1>2 DEF TypeParts, ControlInv
  <1>4. Range(running') = Range(running) /\ Len(running') = Len(running)
    BY <1>2, <1>3, RequestsAreNumbers, SortedList
  <1>5. Admitted' = Admitted
    BY <1>2, <1>4 DEF Admitted
  <1>6. ArrivalInv' /\ FitInv' /\ HoldersInv'
    BY <1>1, <1>2, <1>5, ArrivalKept, FitKept, HoldersKept
  <1>7. LoopInv'
    BY <1>2, <1>3, EmptyList DEF LoopInv
  <1>8. TakenInv'
    BY <1>1, <1>2 DEF TakenInv, Batched
  <1>9. EmptyInv'
    BY <1>1, <1>2 DEF EmptyInv, policy
  <1>10. SlotCountInv'
    BY <1>1, <1>2, <1>4 DEF SlotCountInv
  <1>11. QED  BY <1>1, <1>2, <1>6, <1>7, <1>8, <1>9, <1>10 DEF SafeParts

LEMMA RunningKeepSafe ==
  ASSUME Safe, NEW s \in Requests, RunningKeep(s), UNCHANGED <<taken, worker, reported>>
  PROVE  error' = "none" /\ SafeParts'
  <1>1. /\ Inv /\ TypeParts /\ OrderInv /\ QueueInv /\ ArrivalInv /\ LoopInv /\ TakenInv /\ FitInv
        /\ EmptyInv /\ HoldersInv /\ SlotCountInv /\ policy \in {"sarathi", "vllm"}
        /\ error = "none"
    BY DEF Safe, Serving, SafeParts, Inv
  <1>2. /\ phase = "running" /\ running # <<>> /\ s = Head(running) /\ running' = Tail(running)
        /\ ~Decodes(s)
        /\ UNCHANGED <<sq, now, waiting, preemption_queue, config, phase, batch,
                       num_batched_tokens, ignored, preempted, taken, context,
                       string_stopped>>
    BY DEF RunningKeep, InRunning, worker, manager, outputs
  <1>3. running \in Seq(Requests) /\ prefills \in Seq(Requests) /\ running \in Seq(Int)
    BY <1>1, ListOfNumbers DEF TypeParts
  <1>4. /\ s \in Range(running) /\ Range(running) = Range(running') \cup {s}
        /\ Len(running') = Len(running) - 1
    BY <1>2, <1>3, TailList
  <1>5. is_paused(s)
    BY <1>1, <1>2, <1>4, LoopsOverPaused
  <1>6. policy = "sarathi" /\ prefills' = Append(prefills, s) /\ kept' = kept /\ error' = error
    <2>1. policy # "vllm"
      BY <1>1, <1>2, <1>5 DEF FitInv, Decodes
    <2>2. QED  BY <1>1, <1>5, <2>1 DEF RunningKeep
  <1>7. Range(prefills') = Range(prefills) \cup {s} /\ Len(prefills') = Len(prefills) + 1
    BY <1>3, <1>6, AppendList
  <1>8. Admitted' = Admitted
    BY <1>4, <1>6, <1>7 DEF Admitted
  <1>9. ArrivalInv' /\ FitInv' /\ HoldersInv'
    BY <1>1, <1>2, <1>8, ArrivalKept, FitKept, HoldersKept
  <1>10. LoopInv'
    <2>1. \A x \in Range(running') : s < x
      BY <1>1, <1>2, <1>3, AscendingLists DEF OrderInv
    <2>2. QED  BY <1>1, <1>2, <1>4, <1>6, <1>7, <2>1 DEF LoopInv
  <1>11. TakenInv'
    BY <1>1, <1>2 DEF TakenInv, Batched
  <1>12. EmptyInv'
    BY <1>1, <1>2, <1>6 DEF EmptyInv, policy
  <1>13. SlotCountInv'
    <2>1. Len(running) \in Nat /\ Len(kept) \in Nat /\ Len(prefills) \in Nat
      BY <1>1, ListLengths
    <2>2. Len(running') + Len(kept') + Len(prefills') = Len(running) + Len(kept) + Len(prefills)
      BY <1>4, <1>6, <1>7, <2>1
    <2>3. QED  BY <1>1, <1>2, <2>2 DEF SlotCountInv
  <1>14. QED  BY <1>1, <1>6, <1>9, <1>10, <1>11, <1>12, <1>13 DEF SafeParts

LEMMA RunningEndSafe ==
  ASSUME Safe, RunningEnd, UNCHANGED <<taken, worker, reported>>
  PROVE  error' = "none" /\ SafeParts'
  <1>1. /\ Inv /\ TypeParts /\ ControlInv /\ ArrivalInv /\ TakenInv /\ FitInv /\ EmptyInv
        /\ HoldersInv /\ SlotCountInv /\ CountInv /\ policy \in {"sarathi", "vllm"}
        /\ error = "none"
    BY DEF Safe, Serving, SafeParts, ResidentParts, Inv
  <1>2. /\ phase = "running" /\ running = <<>>
        /\ UNCHANGED <<sq, now, waiting, preemption_queue, config, batch, num_batched_tokens,
                       ignored, preempted, prefills, taken, context,
                       string_stopped, error>>
        /\ \/ policy = "sarathi" /\ phase' = "prefills" /\ UNCHANGED <<running, kept>>
           \/ policy = "vllm" /\ phase' = "done" /\ running' = kept /\ kept' = <<>>
    BY <1>1 DEF RunningEnd, Return, worker, manager, outputs
  <1>3. Range(<<>>) = {} /\ Len(<<>>) = 0
    BY EmptyList
  <1>4. Admitted' = Admitted
    BY <1>2, <1>3 DEF Admitted
  <1>5. ArrivalInv' /\ FitInv' /\ HoldersInv'
    BY <1>1, <1>2, <1>4, ArrivalKept, FitKept, HoldersKept
  <1>6. LoopInv'
    BY <1>2 DEF LoopInv
  <1>7. TakenInv'
    BY <1>1, <1>2 DEF TakenInv, Batched
  <1>8. EmptyInv'
    <2>1. CASE phase' = "prefills"
      BY <1>1, <1>2, <2>1 DEF EmptyInv
    <2>2. CASE phase' = "done"
      <3>1. policy = "vllm" /\ running' = kept
        BY <1>2, <2>2
      <3>2. batch = <<>> => running' = <<>>
        BY <1>1, <1>2, <3>1 DEF CountInv
      <3>3. Idle' => Idle
        BY <1>2, <1>4 DEF Idle
      <3>4. HeadBarred => HeadBarred'
        BY <1>2, BarredKept
      <3>5. QED  BY <1>1, <1>2, <2>2, <3>1, <3>2, <3>3, <3>4 DEF EmptyInv
    <2>3. QED  BY <1>2, <2>1, <2>2
  <1>9. SlotCountInv'
    <2>1. Len(kept) \in Nat /\ Len(prefills) \in Nat
      BY <1>1, ListLengths
    <2>2. Len(running') + Len(kept') = Len(running) + Len(kept)
      BY <1>2, <1>3, <2>1
    <2>3. QED  BY <1>1, <1>2, <2>2 DEF SlotCountInv
  <1>10. QED  BY <1>1, <1>2, <1>5, <1>6, <1>7, <1>8, <1>9 DEF SafeParts

LEMMA PrefillsEndSafe ==
  ASSUME Safe, PrefillsEnd, UNCHANGED <<taken, worker, reported>>
  PROVE  error' = "none" /\ SafeParts'
  <1>1. /\ Inv /\ TypeParts /\ ControlInv /\ ArrivalInv /\ TakenInv /\ FitInv /\ EmptyInv
        /\ HoldersInv /\ SlotCountInv /\ policy \in {"sarathi", "vllm"} /\ error = "none"
    BY DEF Safe, Serving, SafeParts, Inv
  <1>2. /\ phase = "prefills" /\ phase' = "waiting"
        /\ UNCHANGED <<sq, now, waiting, running, kept, prefills, preemption_queue, config, batch,
                       num_batched_tokens, ignored, preempted, taken, context,
                       string_stopped, error>>
    BY <1>1, PrefillsEndCases DEF worker
  <1>3. Admitted' = Admitted
    BY <1>2 DEF Admitted
  <1>4. ArrivalInv' /\ FitInv' /\ HoldersInv'
    BY <1>1, <1>2, <1>3, ArrivalKept, FitKept, HoldersKept
  <1>5. LoopInv' /\ TakenInv' /\ EmptyInv' /\ SlotCountInv'
    BY <1>1, <1>2 DEF LoopInv, TakenInv, Batched, EmptyInv, SlotCountInv
  <1>6. QED  BY <1>1, <1>2, <1>4, <1>5 DEF SafeParts

LEMMA RunningAppendSafe ==
  ASSUME Safe, NEW s \in Requests, RunningAppend(s), UNCHANGED <<taken, worker, reported>>
  PROVE  error' = "none" /\ SafeParts'
  <1>1. /\ Inv /\ TypeParts /\ OrderInv /\ ArrivalInv /\ LoopInv /\ TakenInv /\ FitInv
        /\ EmptyInv /\ HoldersInv /\ SlotCountInv /\ error = "none"
    BY DEF Safe, Serving, SafeParts, Inv
  <1>2. /\ phase = "running" /\ running # <<>> /\ s = Head(running) /\ running' = Tail(running)
        /\ kept' = Append(kept, s) /\ batch' = Append(batch, Item(s, 0))
        /\ UNCHANGED <<sq, now, waiting, preemption_queue, config, phase, prefills, ignored,
                       preempted, taken, context,
                       string_stopped, error>>
    BY DEF RunningAppend, InRunning, append_slot, worker
  <1>3. /\ running \in Seq(Requests) /\ running \in Seq(Int) /\ kept \in Seq(Requests)
        /\ batch \in Seq(Items)
    BY <1>1, ListOfNumbers DEF TypeParts
  <1>4. /\ s \in Range(running) /\ Range(running) = Range(running') \cup {s}
        /\ Len(running') = Len(running) - 1
        /\ Range(kept') = Range(kept) \cup {s} /\ Len(kept') = Len(kept) + 1
    BY <1>2, <1>3, TailList, AppendList
  <1>5. Adds(batch, batch', s, 0)
    BY <1>2, <1>3, AppendItem
  <1>6. batch' # <<>> /\ Batched' = Batched \cup {s}
    BY <1>5 DEF Adds, Batched
  <1>7. Admitted' = Admitted /\ Admitted # {}
    BY <1>2, <1>4 DEF Admitted
  <1>8. ArrivalInv' /\ HoldersInv'
    BY <1>1, <1>2, <1>7, ArrivalKept, HoldersKept
  <1>9. FitInv'
    BY <1>1, <1>2, <1>5, FitAdded
  <1>10. LoopInv'
    <2>1. \A x \in Range(running') : s < x
      BY <1>1, <1>2, <1>3, AscendingLists DEF OrderInv
    <2>2. QED  BY <1>1, <1>2, <1>4, <2>1 DEF LoopInv
  <1>11. TakenInv'
    BY <1>1, <1>2, <1>6 DEF TakenInv
  <1>12. EmptyInv'
    BY <1>1, <1>2, <1>6 DEF EmptyInv, Idle, policy
  <1>13. SlotCountInv'
    <2>1. Len(running) \in Nat /\ Len(kept) \in Nat /\ Len(prefills) \in Nat
      BY <1>1, ListLengths
    <2>2. Len(running') + Len(kept') + Len(prefills') = Len(running) + Len(kept) + Len(prefills)
      BY <1>2, <1>4, <2>1
    <2>3. QED  BY <1>1, <1>2, <2>2 DEF SlotCountInv
  <1>14. QED  BY <1>1, <1>2, <1>8, <1>9, <1>10, <1>11, <1>12, <1>13 DEF SafeParts

LEMMA RunningPreemptSafe ==
  ASSUME Safe, NEW s \in Requests, RunningPreempt(s), UNCHANGED <<taken, worker, reported>>
  PROVE  error' = "none" /\ SafeParts'
  <1>1. /\ Inv /\ TypeParts /\ OrderInv /\ QueueInv /\ ArrivalInv /\ LoopInv /\ TakenInv /\ FitInv
        /\ EmptyInv /\ HoldersInv /\ SlotCountInv /\ SlotsInv /\ VAttention /\ error = "none"
        /\ NoneOutgrown
    BY DEF Safe, Serving, SafeParts, ResidentParts, Inv
  <1>2. /\ phase = "running" /\ running # <<>>
        /\ UNCHANGED <<sq, now, config, phase, kept, prefills, batch, num_batched_tokens, ignored,
                       taken, context,
                       string_stopped>>
    BY DEF RunningPreempt, InRunning, worker
  <1>3. /\ running \in Seq(Requests) /\ running \in Seq(Int) /\ waiting \in Seq(Requests)
        /\ waiting \in Seq(Int) /\ preemption_queue \in Seq(Requests) /\ Ascending(running)
    BY <1>1, <1>2, ListOfNumbers DEF TypeParts, OrderInv
  <1>4. PICK v \in Requests : v = running[Len(running)] /\ v \in Range(running)
    <2>1. running[Len(running)] \in Range(running)
      BY <1>2, <1>3, RemoveLast
    <2>2. QED  BY <1>3, <2>1, RangeIsSubset
  <1>5. is_paused(v) /\ is_executing(v)
    BY <1>1, <1>2, <1>4, LoopsOverPaused DEF is_paused, is_executing
  <1>6. /\ running' = RemoveAt(running, Len(running)) /\ waiting' = <<v>> \o waiting
        /\ preempted' = preempted \cup {v} /\ preemption_queue' = Append(preemption_queue, v)
        /\ error' = error
    BY <1>1, <1>4, <1>5 DEF RunningPreempt, Victim, Requeue
  <1>7. /\ Range(running) = Range(running') \cup {v} /\ Len(running') = Len(running) - 1
        /\ Range(waiting') = Range(waiting) \cup {v}
        /\ Range(preemption_queue') = Range(preemption_queue) \cup {v}
        /\ \A x \in Range(running') : x < v
    BY <1>2, <1>3, <1>4, <1>6, RemoveLast, ConsList, AppendList, AscendingLists
  <1>8. v \in Admitted /\ Admitted' \subseteq Admitted /\ Admitted = Admitted' \cup {v}
    BY <1>2, <1>4, <1>7 DEF Admitted
  <1>9. \A x \in Admitted' : x < v
    BY <1>1, <1>2, <1>4, <1>7 DEF Admitted, LoopInv
  <1>10. ~TooLong(v) /\ v \notin Range(taken) /\ context[v] > 0
    BY <1>1, <1>4, <1>5, <1>8 DEF NoneOutgrown, SlotsInv, HoldersInv
  <1>11. ArrivalInv'
    <2>1. v \in Int /\ \A t \in Range(waiting) : v < t
      BY <1>1, <1>8, RequestsAreNumbers DEF ArrivalInv
    <2>2. Ascending(waiting')
      BY <1>1, <1>3, <1>6, <2>1, AscendingAdded DEF ArrivalInv
    <2>3. Leaving' = Leaving \cup {v}
      BY <1>2, <1>7 DEF Leaving
    <2>4. \A t : TooLong(t)' <=> TooLong(t)
      BY <1>2 DEF TooLong, get_len
    <2>5. \A a \in Admitted', t \in Range(waiting') : a < t
      BY <1>1, <1>7, <1>8, <1>9 DEF ArrivalInv
    <2>6. \A a \in Admitted' \cup Leaving' : a <= now'
      BY <1>1, <1>2, <1>8, <2>3 DEF ArrivalInv
    <2>7. \A a \in Leaving', t \in Range(waiting') : TooLong(t) => a < t
      BY <1>1, <1>7, <1>10, <2>1, <2>3 DEF ArrivalInv
    <2>8. \A a, t \in Requests : sq'[a].status = "absent" /\ a < t => sq'[t].status = "absent"
      BY <1>1, <1>2 DEF ArrivalInv
    <2>9. QED  BY <2>2, <2>4, <2>5, <2>6, <2>7, <2>8 DEF ArrivalInv
  <1>12. LoopInv'
    BY <1>1, <1>2, <1>7 DEF LoopInv
  <1>13. TakenInv'
    BY <1>1, <1>2, <1>7, <1>10 DEF TakenInv, Batched
  <1>14. FitInv'
    BY <1>1, <1>2, FitKept
  <1>15. EmptyInv'
    BY <1>1, <1>2, <1>6 DEF EmptyInv, Idle, policy
  <1>16. HoldersInv'
    <2>1. NoOtherHolder
      BY <1>1, <1>8 DEF HoldersInv, Idle
    <2>2. NoOtherHolder'
      BY <1>2, <1>7, <1>8, <2>1 DEF NoOtherHolder
    <2>3. QED  BY <1>1, <1>2, <1>7, <1>8, <1>10, <2>2 DEF HoldersInv, is_paused
  <1>17. SlotCountInv'
    <2>1. Len(running) \in Nat /\ Len(kept) \in Nat /\ Len(prefills) \in Nat
      BY <1>1, ListLengths
    <2>2. IsFiniteSet(Range(preemption_queue)) /\ Cardinality(Range(preemption_queue)) \in Nat
      BY <1>3, RangeSize
    <2>3. /\ Cardinality(Range(preemption_queue')) \in Nat
          /\ Cardinality(Range(preemption_queue')) <= Cardinality(Range(preemption_queue)) + 1
      <3>1. Cardinality(Range(preemption_queue) \cup {v}) =
              IF v \in Range(preemption_queue) THEN Cardinality(Range(preemption_queue))
              ELSE Cardinality(Range(preemption_queue)) + 1
        BY <2>2, FS_AddElement
      <3>2. Range(preemption_queue') = Range(preemption_queue) \cup {v}
        BY <1>7
      <3>3. QED  BY <2>2, <3>1, <3>2
    <2>4. max_num_seqs \in Nat
      BY LimitsAssumption
    <2>5. QED  BY <1>1, <1>2, <1>7, <2>1, <2>2, <2>3, <2>4 DEF SlotCountInv
  <1>18. QED  BY <1>1, <1>6, <1>11, <1>12, <1>13, <1>14, <1>15, <1>16, <1>17 DEF SafeParts

(* The next chunk of sarathi is within the prompt. *)
LEMMA ChunkWithinPrompt ==
  ASSUME TypeParts, ProgressInv, error = "none", policy = "sarathi", NEW s \in Requests,
         NEW n, n = get_seq_next_num_prefill_tokens(s)
  PROVE  n \in Int /\ (n # 0 => sq[s].processed + n <= sq[s].prompt)
  <1>1. /\ sq[s].prompt \in Int /\ sq[s].processed \in Int /\ num_batched_tokens \in Int
        /\ ChunkSize(s) \in Int
    <2>1. sq[s] \in SequenceType /\ num_batched_tokens \in Int
      BY LengthTypes DEF TypeParts
    <2>2. sq[s].prompt \in Nat /\ sq[s].processed \in Int
      BY <2>1, SequenceFields
    <2>3. ChunkSize(s) \in Nat \ {0}
      BY ChunkSizeType
    <2>4. QED  BY <2>1, <2>2, <2>3
  <1>2. n = 0 \/ n = Min({sq[s].prompt - sq[s].processed, ChunkSize(s) - num_batched_tokens})
    BY DEF get_seq_next_num_prefill_tokens
  <1> DEFINE a == sq[s].prompt - sq[s].processed
             b == ChunkSize(s) - num_batched_tokens
  <1>3. a \in Int /\ b \in Int
    BY <1>1
  <1>4. Min({a, b}) = IF a <= b THEN a ELSE b
    BY <1>3, MinOfTwo
  <1>5. n \in Int /\ (n # 0 => n <= a)
    BY <1>2, <1>3, <1>4
  <1>6. QED  BY <1>1, <1>5

LEMMA PrefillStepSafe ==
  ASSUME Safe, PrefillStep, UNCHANGED <<taken, worker, reported>>
  PROVE  error' = "none" /\ SafeParts'
  <1>1. /\ Inv /\ TypeParts /\ ControlInv /\ ProgressInv /\ ChunkInv /\ ArrivalInv /\ TakenInv
        /\ FitInv /\ EmptyInv /\ HoldersInv /\ SlotCountInv /\ policy \in {"sarathi", "vllm"}
        /\ error = "none" /\ Len(chunk_sizes) = 1
    BY DEF Safe, Serving, SafeParts, Inv
  <1>2. /\ phase = "prefills" /\ prefills # <<>> /\ prefills' = Tail(prefills)
        /\ kept' = Append(kept, Head(prefills))
        /\ UNCHANGED <<sq, now, waiting, running, preemption_queue, config, phase, ignored,
                       preempted, taken, context,
                       string_stopped>>
    BY DEF PrefillStep, manager, worker
  <1>3. policy = "sarathi"
    BY <1>1, <1>2 DEF ControlInv
  <1>4. prefills \in Seq(Requests) /\ kept \in Seq(Requests) /\ batch \in Seq(Items)
    BY <1>1 DEF TypeParts
  <1>5. PICK s \in Requests : s = Head(prefills) /\ s \in Range(prefills)
    BY <1>2, <1>4, TailList
  <1>6. /\ Range(prefills) = Range(prefills') \cup {s} /\ Range(kept') = Range(kept) \cup {s}
        /\ Len(prefills') = Len(prefills) - 1 /\ Len(kept') = Len(kept) + 1
    BY <1>2, <1>4, <1>5, TailList, AppendList
  <1>7. ~prompt_processing_finished(s) /\ num_batched_tokens <= chunk_sizes[1]
    BY <1>1, <1>3, <1>5 DEF ChunkInv
  <1>8. is_paused(s) /\ Stage(s) <= Len(chunk_sizes)
    BY <1>1, <1>2, <1>5, LoopsOverPaused, ChunkSizeType
  <1>9. error' = "none"
    BY <1>1, <1>5, <1>8 DEF PrefillStep
  <1> DEFINE n == get_seq_next_num_prefill_tokens(s)
  <1>10. IF n # 0 THEN batch' = Append(batch, Item(s, n))
         ELSE UNCHANGED <<batch, num_batched_tokens>>
    BY <1>5, <1>7, <1>8 DEF PrefillStep
  <1>11. n \in Int /\ (n # 0 => sq[s].processed + n <= sq[s].prompt)
    BY <1>1, <1>3, <1>7, ChunkWithinPrompt
  <1> HIDE DEF n
  <1>12. Admitted' = Admitted /\ Admitted # {}
    BY <1>2, <1>5, <1>6 DEF Admitted
  <1>13. ArrivalInv' /\ HoldersInv'
    BY <1>1, <1>2, <1>12, ArrivalKept, HoldersKept
  <1>14. LoopInv'
    BY <1>2 DEF LoopInv
  <1>15. SlotCountInv'
    <2>1. Len(running) \in Nat /\ Len(kept) \in Nat /\ Len(prefills) \in Nat
      BY <1>1, ListLengths
    <2>2. Len(running') + Len(kept') + Len(prefills') = Len(running) + Len(kept) + Len(prefills)
      BY <1>2, <1>6, <2>1
    <2>3. QED  BY <1>1, <1>2, <2>2 DEF SlotCountInv
  <1>16. TakenInv' /\ FitInv' /\ EmptyInv'
    <2>1. CASE n = 0
      <3>1. UNCHANGED <<batch, num_batched_tokens>>
        BY <1>10, <2>1
      <3>2. FitInv'
        BY <1>1, <1>2, <3>1, FitKept
      <3>3. TakenInv' /\ EmptyInv'
        BY <1>1, <1>2, <3>1 DEF TakenInv, EmptyInv, Batched
      <3>4. QED  BY <3>2, <3>3
    <2>2. CASE n # 0
      <3>1. Adds(batch, batch', s, n)
        BY <1>4, <1>10, <1>11, <2>2, AppendItem
      <3>2. batch' # <<>> /\ Batched' = Batched \cup {s}
        BY <3>1 DEF Adds, Batched
      <3>3. FitInv'
        BY <1>1, <1>2, <1>3, <1>11, <3>1, FitAdded
      <3>4. TakenInv' /\ EmptyInv'
        BY <1>1, <1>2, <3>2 DEF TakenInv, EmptyInv
      <3>5. QED  BY <3>3, <3>4
    <2>3. QED  BY <2>1, <2>2
  <1>17. QED  BY <1>9, <1>13, <1>14, <1>15, <1>16 DEF SafeParts

(* waiting[0] is the oldest that waits. *)
LEMMA HeadIsOldest ==
  ASSUME TypeParts, Ascending(waiting), waiting # <<>>
  PROVE  /\ Head(waiting) \in Requests /\ Head(waiting) \in Int /\ Head(waiting) \in Range(waiting)
         /\ Range(waiting) = Range(Tail(waiting)) \cup {Head(waiting)}
         /\ Ascending(Tail(waiting))
         /\ \A t \in Range(Tail(waiting)) : Head(waiting) < t
         /\ \A t \in Range(waiting) : t \in Int /\ Head(waiting) <= t
  <1>1. waiting \in Seq(Requests) /\ waiting \in Seq(Int)
    BY ListOfNumbers DEF TypeParts
  <1>2. /\ Head(waiting) \in Requests /\ Head(waiting) \in Range(waiting)
        /\ Range(waiting) = Range(Tail(waiting)) \cup {Head(waiting)}
    BY <1>1, TailList
  <1>3. Ascending(Tail(waiting)) /\ \A t \in Range(Tail(waiting)) : Head(waiting) < t
    BY <1>1, AscendingLists
  <1>4. Range(waiting) \subseteq Int
    BY <1>1, RangeIsSubset
  <1>5. QED  BY <1>2, <1>3, <1>4, RequestsAreNumbers

LEMMA WaitingIgnoreSafe ==
  ASSUME Safe, NEW s \in Requests, WaitingIgnore(s), UNCHANGED <<taken, worker, reported>>
  PROVE  error' = "none" /\ SafeParts'
  <1>1. /\ TypeParts /\ QueueInv /\ BatchInv /\ ArrivalInv /\ TakenInv /\ FitInv /\ EmptyInv
        /\ HoldersInv /\ SlotCountInv /\ WaitInv /\ NoneOutgrown /\ error = "none"
    BY DEF Safe, Serving, SafeParts, ResidentParts, Inv
  <1>2. /\ phase = "waiting" /\ waiting # <<>> /\ s = Head(waiting) /\ TooLong(s)
        /\ UNCHANGED <<now, running, preemption_queue, config, phase, kept, prefills, batch,
                       num_batched_tokens, preempted, taken, context,
                       string_stopped>>
    BY DEF WaitingIgnore, InWaiting, worker, manager
  <1>3. Ascending(waiting) /\ s \in Range(waiting)
    BY <1>1, <1>2, HeadIsOldest DEF ArrivalInv
  <1>4. sq[s].status = "waiting"
    BY <1>1, <1>2, <1>3 DEF WaitInv, NoneOutgrown, is_executing, is_paused
  <1>5. /\ sq' = [sq EXCEPT ![s] = set_status(sq[s], "ignored")] /\ waiting' = Tail(waiting)
        /\ error' = "none"
    BY <1>1, <1>4 DEF WaitingIgnore
  <1>6. /\ Range(waiting) = Range(waiting') \cup {s} /\ Ascending(waiting')
        /\ \A t \in Range(waiting') : s < t
        /\ \A t \in Range(waiting) : t \in Int /\ s <= t
    BY <1>1, <1>2, <1>3, <1>5, HeadIsOldest
  <1>7. /\ \A r \in Requests : r # s => sq'[r] = sq[r]
        /\ sq'[s].status = "ignored"
    BY <1>1, <1>5 DEF TypeParts, set_status
  <1>8. /\ Admitted \subseteq Requests /\ Range(waiting) \subseteq Requests
        /\ Leaving \subseteq Requests /\ Requests \subseteq Int
    BY <1>1, MembersAreRequests
  <1>9. s \notin Admitted /\ Admitted' = Admitted /\ Leaving' = Leaving
    BY <1>1, <1>2, <1>3 DEF Admitted, Leaving, QueueInv
  <1>10. \A i \in DOMAIN batch : batch[i].seq \in Admitted
    BY <1>1 DEF BatchInv, Batched, SeqsOf, Admitted
  <1>11. \A r \in Leaving : r < s
    BY <1>1, <1>2, <1>3 DEF ArrivalInv
  <1>12. ArrivalInv'
    <2>1. \A t \in Range(waiting') : t \in Range(waiting) /\ (TooLong(t)' <=> TooLong(t))
      <3> TAKE t \in Range(waiting')
      <3>1. t \in Requests /\ t # s
        BY <1>6, <1>8
      <3>2. QED  BY <1>6, <1>7, <3>1 DEF TooLong, get_len
    <2>2. \A r \in Requests : sq'[r].status = "absent" <=> sq[r].status = "absent"
      BY <1>4, <1>7
    <2>3. QED  BY <1>1, <1>2, <1>6, <1>9, <2>1, <2>2 DEF ArrivalInv
  <1>13. LoopInv'
    BY <1>2 DEF LoopInv
  <1>14. TakenInv'
    <2>1. Range(taken) \cap Range(waiting) = {}
      <3> SUFFICES ASSUME NEW r \in Range(taken), r \in Range(waiting)  PROVE FALSE
        OBVIOUS
      <3>1. r < s /\ s <= r /\ r \in Int /\ s \in Int
        BY <1>6, <1>8, <1>11 DEF Leaving
      <3>2. QED  BY <3>1
    <2>2. QED  BY <1>1, <1>2, <2>1 DEF TakenInv, Batched
  <1>15. FitInv'
    <2>1. \A r \in Requests : is_paused(r)' => is_paused(r) /\ sq'[r] = sq[r]
      BY <1>7 DEF is_paused
    <2>2. \A i \in DOMAIN batch : sq'[batch[i].seq] = sq[batch[i].seq]
      BY <1>7, <1>8, <1>9, <1>10
    <2>3. QED  BY <1>1, <1>2, <2>1, <2>2 DEF FitInv, policy, prompt_processing_finished
  <1>16. EmptyInv'
    BY <1>1, <1>2 DEF EmptyInv
  <1>17. HoldersInv'
    <2>1. NoOtherHolder
      BY <1>1, <1>2 DEF HoldersInv, HeadBarred
    <2>2. NoOtherHolder'
      BY <1>2, <1>9, <2>1 DEF NoOtherHolder
    <2>3. \A r \in Admitted : is_paused(r)' => is_paused(r)
      BY <1>7, <1>8, <1>9 DEF is_paused
    <2>4. QED  BY <1>1, <1>2, <1>9, <2>2, <2>3 DEF HoldersInv
  <1>18. SlotCountInv'
    BY <1>1, <1>2 DEF SlotCountInv
  <1>19. QED  BY <1>5, <1>12, <1>13, <1>14, <1>15, <1>16, <1>17, <1>18 DEF SafeParts

LEMMA WaitingAdmitSafe ==
  ASSUME Safe, NEW s \in Requests, WaitingAdmit(s), UNCHANGED <<taken, worker, reported>>
  PROVE  error' = "none" /\ SafeParts'
  <1>1. /\ Serving /\ Inv /\ TypeParts /\ ControlInv /\ ProgressInv /\ PreemptInv /\ CountInv
        /\ ArrivalInv /\ TakenInv /\ FitInv /\ EmptyInv /\ HoldersInv /\ SlotCountInv
        /\ VAttention /\ policy \in {"sarathi", "vllm"} /\ error = "none" /\ Len(chunk_sizes) = 1
    BY DEF Safe, Serving, SafeParts, ResidentParts, Inv
  <1>2. PICK n : n = get_seq_next_num_prefill_tokens(s)
    OBVIOUS
  <1>3. /\ phase = "waiting" /\ waiting # <<>> /\ s = Head(waiting) /\ s <= now
        /\ waiting' = Tail(waiting) /\ Fits(s) /\ batch' = Append(batch, Item(s, n))
        /\ \/ policy = "sarathi" /\ kept' = Append(kept, s) /\ running' = running
           \/ policy = "vllm" /\ running' = Append(running, s) /\ kept' = kept
        /\ UNCHANGED <<sq, now, config, phase, prefills, ignored, preempted, preemption_queue,
                       taken, context,
                       string_stopped, error>>
    BY <1>1, <1>2, OneStage DEF WaitingAdmit, InWaiting, allocate, worker
  <1>4. /\ running \in Seq(Requests) /\ kept \in Seq(Requests) /\ batch \in Seq(Items)
        /\ Ascending(waiting)
    BY <1>1 DEF TypeParts, ArrivalInv
  <1>5. /\ preempted = {} /\ sq[s].status = "waiting" /\ sq[s].processed = 0
        /\ n \in Int /\ n > 0 /\ (policy = "vllm" => n = sq[s].prompt) /\ sq[s].prompt \in Nat
    BY <1>1, <1>2, AdmitsNew
  <1>6. /\ Range(waiting) = Range(waiting') \cup {s} /\ Ascending(waiting')
        /\ \A t \in Range(waiting') : s < t
    BY <1>1, <1>3, <1>4, HeadIsOldest
  <1>7. Adds(batch, batch', s, n)
    BY <1>3, <1>4, <1>5, AppendItem
  <1>8. batch' # <<>> /\ Batched' = Batched \cup {s}
    BY <1>7 DEF Adds, Batched
  <1>9. /\ Range(Append(kept, s)) = Range(kept) \cup {s} /\ Len(Append(kept, s)) = Len(kept) + 1
        /\ Range(Append(running, s)) = Range(running) \cup {s}
        /\ Len(Append(running, s)) = Len(running) + 1
    BY <1>4, AppendList
  <1>10. Admitted' = Admitted \cup {s}
    BY <1>3, <1>9 DEF Admitted
  <1>11. ArrivalInv'
    <2>1. \A t : TooLong(t)' <=> TooLong(t)
      BY <1>3 DEF TooLong, get_len
    <2>2. Leaving' = Leaving
      BY <1>3 DEF Leaving
    <2>3. QED  BY <1>1, <1>3, <1>6, <1>10, <2>1, <2>2 DEF ArrivalInv
  <1>12. LoopInv'
    BY <1>3 DEF LoopInv
  <1>13. TakenInv'
    BY <1>1, <1>3, <1>6, <1>8 DEF TakenInv
  <1>14. FitInv'
    <2>1. /\ sq[s].processed + n <= sq[s].prompt
          /\ policy = "vllm" => sq[s].processed + n = sq[s].prompt
      <3>1. CASE policy = "sarathi"
        <4>1. n # 0 => sq[s].processed + n <= sq[s].prompt
          BY <1>1, <1>2, <3>1, ChunkWithinPrompt
        <4>2. QED  BY <1>5, <3>1, <4>1
      <3>2. CASE policy = "vllm"
        BY <1>5, <3>2
      <3>3. QED  BY <1>1, <3>1, <3>2
    <2>2. QED  BY <1>1, <1>3, <1>5, <1>7, <2>1, FitAdded
  <1>15. EmptyInv'
    BY <1>3, <1>8 DEF EmptyInv
  <1>16. HoldersInv'
    <2>1. ~(Idle /\ HeadBarred)
      <3> SUFFICES ASSUME Idle, HeadBarred  PROVE FALSE
        OBVIOUS
      <3>1. /\ free_blocks = num_gpu_blocks - Blocks(context) /\ promised_blocks = 0
            /\ num_batched_tokens = 0
        BY <1>1, <1>3 DEF Idle, CountInv, EmptyInv
      <3>2. free_blocks - promised_blocks - get_num_blocks(s) >= watermark_blocks
        BY <1>1, <1>3 DEF Fits, can_allocate, get_num_initial_blocks, ReservesAll
      <3>3. policy = "vllm" => get_len(s) <= max_num_batched_tokens
        <4>1. get_len(s) \in Nat
          BY <1>1, LengthTypes
        <4>2. policy = "vllm" => num_batched_tokens + get_len(s) <= max_num_batched_tokens
          BY <1>3 DEF Fits
        <4>3. QED  BY <3>1, <4>1, <4>2
      <3>4. /\ free_blocks \in Nat /\ promised_blocks \in Nat /\ get_num_blocks(s) \in Nat
            /\ watermark_blocks \in Nat /\ get_len(s) \in Nat /\ max_num_batched_tokens \in Nat
        BY <1>1, LengthTypes, LimitsAssumption DEF TypeParts
      <3>5. /\ ~((num_gpu_blocks - Blocks(context)) - get_num_blocks(s) < watermark_blocks)
            /\ policy = "vllm" => ~(get_len(s) > max_num_batched_tokens)
        BY <3>1, <3>2, <3>3, <3>4
      <3>6. QED  BY <1>3, <3>5 DEF HeadBarred
    <2>2. NoOtherHolder'
      BY <1>1, <1>3, <1>10, <2>1 DEF HoldersInv, NoOtherHolder
    <2>3. ~is_paused(s)'
      BY <1>3, <1>5 DEF is_paused
    <2>4. \A r : is_paused(r)' <=> is_paused(r)
      BY <1>3 DEF is_paused
    <2>5. QED  BY <1>1, <1>3, <1>10, <2>2, <2>3, <2>4 DEF HoldersInv
  <1>17. SlotCountInv'
    <2>1. Cardinality(Range(preemption_queue')) = 0
      <3>1. Range(preemption_queue) = {}
        BY <1>1, <1>3, <1>5 DEF PreemptInv
      <3>2. QED  BY <1>3, <3>1, FS_EmptySet
    <2>2. /\ Len(running) \in Nat /\ Len(kept) \in Nat /\ max_num_seqs \in Nat
          /\ Len(Running) < max_num_seqs /\ Len(prefills') = 0
      BY <1>1, <1>3, ListLengths, LimitsAssumption DEF Fits, ControlInv
    <2>3. CASE policy = "sarathi"
      <3>1. kept' = Append(kept, s) /\ Len(running') = 0 /\ Len(kept) < max_num_seqs
        BY <1>1, <1>3, <2>2, <2>3, ListLengths DEF ControlInv, Running
      <3>2. QED  BY <1>9, <2>1, <2>2, <3>1 DEF SlotCountInv
    <2>4. CASE policy = "vllm"
      <3>1. running' = Append(running, s) /\ Len(kept') = 0 /\ Len(running) < max_num_seqs
        BY <1>1, <1>3, <2>2, <2>4, ListLengths DEF ControlInv, Running
      <3>2. QED  BY <1>9, <2>1, <2>2, <3>1 DEF SlotCountInv
    <2>5. QED  BY <1>1, <2>3, <2>4
  <1>18. QED  BY <1>1, <1>3, <1>11, <1>12, <1>13, <1>14, <1>15, <1>16, <1>17 DEF SafeParts

LEMMA WaitingEndSafe ==
  ASSUME Safe, WaitingEnd, UNCHANGED <<taken, worker, reported>>
  PROVE  error' = "none" /\ SafeParts'
  <1>0. error' = "none"
    BY OneStage DEF Safe, Serving, WaitingEnd
  <1>1. /\ Inv /\ TypeParts /\ QueueInv /\ ControlInv /\ ProgressInv /\ ChunkInv /\ WaitInv
        /\ CountInv /\ ArrivalInv /\ TakenInv /\ FitInv /\ EmptyInv /\ HoldersInv /\ SlotCountInv
        /\ VAttention /\ policy \in {"sarathi", "vllm"} /\ error = "none" /\ Len(chunk_sizes) = 1
    BY DEF Safe, Serving, SafeParts, ResidentParts, Inv
  <1>2. /\ phase = "waiting" /\ prefills = <<>>
        /\ UNCHANGED <<sq, now, waiting, preemption_queue, config, prefills, batch,
                       num_batched_tokens, ignored, preempted, taken, context,
                       string_stopped>>
        /\ \/ /\ policy = "sarathi" /\ phase' = "done" /\ running = <<>>
              /\ running' = kept /\ kept' = <<>>
           \/ /\ policy = "vllm" /\ phase' = "running" /\ batch = <<>> /\ kept = <<>> /\ kept' = kept
              /\ running' = sort_by_priority(running)
           \/ policy = "vllm" /\ phase' = "done" /\ kept = <<>> /\ UNCHANGED <<running, kept>>
    BY <1>1, WaitingEndCases DEF worker
  <1>3. policy = "vllm" =>
          IF batch = <<>> /\ ignored = {} THEN phase' = "running" ELSE phase' = "done"
    BY DEF WaitingEnd, Return
  <1>4. running \in Seq(Requests) /\ kept \in Seq(Requests) /\ Range(<<>>) = {} /\ Len(<<>>) = 0
    BY <1>1, EmptyList DEF TypeParts
  <1>5. /\ Range(sort_by_priority(running)) = Range(running)
        /\ Len(sort_by_priority(running)) = Len(running)
    BY <1>4, RequestsAreNumbers, SortedList
  <1>6. /\ Range(running') \cup Range(kept') = Range(running) \cup Range(kept)
        /\ Len(running') + Len(kept') = Len(running) + Len(kept)
    BY <1>2, <1>4, <1>5
  <1>7. Admitted' = Admitted
    BY <1>2, <1>6 DEF Admitted
  <1>8. ArrivalInv' /\ FitInv' /\ HoldersInv'
    BY <1>1, <1>2, <1>7, ArrivalKept, FitKept, HoldersKept
  <1>9. LoopInv'
    BY <1>2, <1>4 DEF LoopInv
  <1>10. TakenInv'
    BY <1>1, <1>2 DEF TakenInv, Batched
  <1>11. EmptyInv'
    <2>1. phase' = "done" /\ batch = <<>> /\ ignored = {} => running' = <<>>
      <3> SUFFICES ASSUME phase' = "done", batch = <<>>, ignored = {}  PROVE running' = <<>>
        OBVIOUS
      <3>1. policy = "sarathi" /\ running' = kept
        BY <1>1, <1>2, <1>3
      <3>2. num_batched_tokens = 0 /\ num_batched_tokens = Len(kept)
        BY <1>1, <1>2, <3>1 DEF ChunkInv
      <3>3. QED  BY <1>1, <3>1, <3>2, ListLengths
    <2>2. ASSUME Idle, waiting # <<>>, Head(waiting) <= now  PROVE HeadBarred
      <3>1. PICK s \in Requests : s = Head(waiting) /\ s \in Range(waiting)
        BY <1>1, <2>2, HeadIsOldest DEF ArrivalInv
      <3>2. ~TooLong(s) /\ ~Fits(s)
        BY <1>2, <2>2, <3>1 DEF WaitingEnd, InWaiting
      <3>3. /\ free_blocks = num_gpu_blocks - Blocks(context) /\ promised_blocks = 0
            /\ num_batched_tokens = 0 /\ batch = <<>> /\ preempted = {}
        BY <1>1, <1>2, <2>2 DEF Idle, CountInv, EmptyInv
      <3>4. /\ free_blocks \in Nat /\ get_num_blocks(s) \in Nat /\ watermark_blocks \in Nat
            /\ get_len(s) \in Nat /\ max_num_batched_tokens \in Nat /\ Blocks(context) \in Nat
            /\ num_gpu_blocks \in Nat
        BY <1>1, LengthTypes, LimitsAssumption, BlocksType, CapacityAssumption DEF TypeParts
      <3>5. sq[s].prompt \in Nat /\ sq[s].prompt >= 1 /\ get_num_blocks(s) >= 1
        BY <1>1, <3>1, WaitingBlocks
      <3>6. Len(Running) < max_num_seqs
        <4>1. Range(running) = {} /\ Range(kept) = {}
          BY <2>2 DEF Idle, Admitted
        <4>2. running = <<>> /\ kept = <<>>
          BY <1>4, <4>1, EmptyRange
        <4>3. max_num_seqs > 0
          BY LimitsAssumption
        <4>4. QED  BY <1>4, <4>2, <4>3 DEF Running
      <3>7. CASE ~can_allocate(s)
        <4>1. ~(free_blocks - promised_blocks - get_num_blocks(s) >= watermark_blocks)
          BY <1>1, <3>7 DEF can_allocate, get_num_initial_blocks, ReservesAll
        <4>2. (num_gpu_blocks - Blocks(context)) - get_num_blocks(s) < watermark_blocks
          BY <3>3, <3>4, <4>1
        <4>3. QED  BY <2>2, <3>1, <3>2, <4>2 DEF HeadBarred
      <3>8. CASE policy = "vllm" /\ ~(num_batched_tokens + get_len(s) <= max_num_batched_tokens)
        <4>1. get_len(s) > max_num_batched_tokens
          BY <3>3, <3>4, <3>8
        <4>2. QED  BY <2>2, <3>1, <3>2, <3>8, <4>1 DEF HeadBarred
      <3>9. CASE policy = "sarathi" /\ get_seq_next_num_prefill_tokens(s) = 0
        <4>1. num_batched_tokens <= chunk_sizes[1] /\ num_batched_tokens # chunk_sizes[1]
          BY <1>1, <3>3, ListLengths
        <4>2. prompt_processing_finished(s)
          BY <1>1, <3>3, <3>9, <4>1, FirstChunk
        <4>3. sq[s].status # "waiting"
          BY <1>1, <3>5, <4>2 DEF ProgressInv, prompt_processing_finished
        <4>4. Stuck
          BY <1>1, <3>1, <3>3, <4>3 DEF WaitInv
        <4>5. Blocks(context) >= num_gpu_blocks
          BY <4>4 DEF Stuck
        <4>6. (num_gpu_blocks - Blocks(context)) - get_num_blocks(s) < watermark_blocks
          BY <3>4, <3>5, <4>5
        <4>7. QED  BY <2>2, <3>1, <3>2, <4>6 DEF HeadBarred
      <3>10. QED  BY <1>1, <3>2, <3>6, <3>7, <3>8, <3>9 DEF Fits
    <2>3. Idle' => Idle
      BY <1>2, <1>7 DEF Idle
    <2>4. HeadBarred => HeadBarred'
      BY <1>2, BarredKept
    <2>5. QED  BY <1>1, <1>2, <1>3, <2>1, <2>2, <2>3, <2>4 DEF EmptyInv, policy
  <1>12. SlotCountInv'
    <2>1. Len(running) \in Nat /\ Len(kept) \in Nat /\ Len(prefills) \in Nat
      BY <1>1, ListLengths
    <2>2. QED  BY <1>1, <1>2, <1>6, <2>1 DEF SlotCountInv
  <1>13. QED  BY <1>0, <1>8, <1>9, <1>10, <1>11, <1>12 DEF SafeParts

LEMMA AddRequestSafe ==
  ASSUME Safe, AddRequest
  PROVE  error' = "none" /\ SafeParts'
  <1>1. /\ TypeParts /\ QueueInv /\ ControlInv /\ PreemptInv /\ ArrivalInv /\ TakenInv /\ FitInv
        /\ EmptyInv /\ HoldersInv /\ SlotCountInv /\ error = "none"
    BY DEF Safe, Serving, SafeParts, Inv
  <1>2. PICK s \in Requests, k \in Prompts :
          /\ phase = "idle" /\ sq[s].status = "absent"
          /\ s > 1 => sq[s - 1].status # "absent"
          /\ sq' = [sq EXCEPT ![s] = NewSequence(k)] /\ waiting' = Append(waiting, s)
          /\ UNCHANGED <<now, running, preemption_queue, config, phase, kept, prefills, batch,
                         num_batched_tokens, ignored, preempted, taken, context,
                       string_stopped, error>>
    BY DEF AddRequest, add_seq, worker, manager, outputs
  <1>3. /\ waiting \in Seq(Requests) /\ waiting \in Seq(Int) /\ sq \in [Requests -> SequenceType]
        /\ batch = <<>> /\ taken = <<>> /\ Range(taken) = {} /\ s \in Int
    BY <1>1, <1>2, ListOfNumbers, RequestsAreNumbers, EmptyList DEF TypeParts, ControlInv, TakenInv
  <1>4. Range(waiting') = Range(waiting) \cup {s}
    BY <1>2, <1>3, AppendList
  <1>5. sq'[s].status = "waiting" /\ \A r \in Requests : r # s => sq'[r] = sq[r]
    BY <1>2, <1>3 DEF NewSequence
  <1>6. /\ Admitted \subseteq Requests /\ Range(waiting) \subseteq Requests
        /\ Leaving \subseteq Requests /\ Requests \subseteq Int
    BY <1>1, MembersAreRequests
  <1>7. Admitted' = Admitted /\ Leaving' = Leaving
    BY <1>2 DEF Admitted, Leaving
  <1>8. \A r \in Requests : sq[r].status # "absent" => r < s
    <2> TAKE r \in Requests
    <2>1. HAVE sq[r].status # "absent"
    <2>2. ~(s < r) /\ r # s
      BY <1>1, <1>2, <2>1 DEF ArrivalInv
    <2>3. r \in Int /\ s \in Int
      BY <1>6
    <2>4. QED  BY <2>2, <2>3
  <1>9. /\ \A r \in Admitted \cup Range(waiting) : sq[r].status # "absent"
        /\ Leaving \subseteq Range(waiting)
    BY <1>1, <1>3, <1>6 DEF QueueInv, Live, Admitted, Leaving, PreemptInv
  <1>10. \A r \in Admitted \cup Range(waiting) \cup Leaving : r \in Requests /\ r < s /\ r # s
    BY <1>2, <1>6, <1>8, <1>9
  <1>11. \A r \in Admitted \cup Range(waiting) : sq'[r] = sq[r]
    BY <1>5, <1>10
  <1>12. ArrivalInv'
    <2>1. Ascending(waiting')
      BY <1>1, <1>2, <1>3, <1>10, AscendingAdded DEF ArrivalInv
    <2>2. \A a \in Admitted', t \in Range(waiting') : a < t
      BY <1>1, <1>4, <1>7, <1>10 DEF ArrivalInv
    <2>3. \A a \in Admitted' \cup Leaving' : a <= now'
      BY <1>1, <1>2, <1>7 DEF ArrivalInv
    <2>4. \A a \in Leaving', t \in Range(waiting') : TooLong(t)' => a < t
      <3> TAKE a \in Leaving', t \in Range(waiting')
      <3>1. CASE t = s
        BY <1>7, <1>10, <3>1
      <3>2. CASE t # s
        <4>1. t \in Range(waiting) /\ (TooLong(t)' <=> TooLong(t))
          BY <1>4, <1>11, <3>2 DEF TooLong, get_len
        <4>2. QED  BY <1>1, <1>7, <4>1 DEF ArrivalInv
      <3>3. QED  BY <3>1, <3>2
    <2>5. ASSUME NEW a \in Requests, NEW t \in Requests, sq'[a].status = "absent", a < t
          PROVE  sq'[t].status = "absent"
      <3>1. a # s /\ sq[a].status = "absent" /\ a \in Int /\ t \in Int
        BY <1>5, <1>6, <2>5
      <3>2. sq[t].status = "absent"
        BY <1>1, <2>5, <3>1 DEF ArrivalInv
      <3>3. CASE t = s
        <4>1. s \in 1 .. NumRequests /\ a \in 1 .. NumRequests /\ NumRequests \in Nat
          BY RequestsAreNumbers DEF Requests
        <4>2. s > 1 /\ s - 1 \in Requests /\ (a = s - 1 \/ a < s - 1)
          BY <2>5, <3>3, <4>1 DEF Requests
        <4>3. sq[s - 1].status = "absent"
          BY <1>1, <3>1, <4>2 DEF ArrivalInv
        <4>4. QED  BY <1>2, <4>2, <4>3
      <3>4. CASE t # s
        BY <1>5, <3>2, <3>4
      <3>5. QED  BY <3>3, <3>4
    <2>6. QED  BY <2>1, <2>2, <2>3, <2>4, <2>5 DEF ArrivalInv
  <1>13. LoopInv'
    BY <1>2 DEF LoopInv
  <1>14. TakenInv'
    BY <1>1, <1>2, <1>3, <1>4 DEF TakenInv, Batched
  <1>15. FitInv'
    <2>1. \A r \in Requests : is_paused(r)' => is_paused(r) /\ sq'[r] = sq[r]
      BY <1>5 DEF is_paused
    <2>2. QED  BY <1>1, <1>2, <1>3, <2>1 DEF FitInv, policy, prompt_processing_finished
  <1>16. EmptyInv'
    BY <1>1, <1>2 DEF EmptyInv
  <1>17. HoldersInv'
    <2>1. ASSUME Idle, HeadBarred  PROVE Idle' /\ HeadBarred'
      <3>1. waiting # <<>> /\ waiting' # <<>> /\ Head(waiting') = Head(waiting)
        BY <1>2, <1>3, <2>1 DEF HeadBarred
      <3>2. PICK h : h = Head(waiting) /\ h \in Range(waiting)
        BY <1>1, <3>1, HeadIsOldest DEF ArrivalInv
      <3>3. sq'[h] = sq[h]
        BY <1>11, <3>2
      <3>4. QED  BY <1>2, <1>7, <2>1, <3>1, <3>2, <3>3
                 DEF Idle, HeadBarred, TooLong, get_num_blocks, get_len, Blocks, policy
    <2>2. NoOtherHolder => NoOtherHolder'
      BY <1>2, <1>7 DEF NoOtherHolder
    <2>3. \A r \in Admitted : is_paused(r)' <=> is_paused(r)
      BY <1>11 DEF is_paused
    <2>4. QED  BY <1>1, <1>2, <1>7, <2>1, <2>2, <2>3 DEF HoldersInv
  <1>18. SlotCountInv'
    BY <1>1, <1>2 DEF SlotCountInv
  <1>19. QED
    BY <1>1, <1>2, <1>12, <1>13, <1>14, <1>15, <1>16, <1>17, <1>18 DEF SafeParts

LEMMA TimePassesSafe ==
  ASSUME Safe, TimePasses
  PROVE  error' = "none" /\ SafeParts'
  <1>1. /\ TypeParts /\ ArrivalInv /\ TakenInv /\ FitInv /\ EmptyInv /\ HoldersInv /\ SlotCountInv
        /\ error = "none"
    BY DEF Safe, Serving, SafeParts, Inv
  <1>2. /\ phase = "idle" /\ now' = now + 1
        /\ UNCHANGED <<sq, waiting, running, preemption_queue, config, phase, kept, prefills,
                       batch, num_batched_tokens, ignored, preempted, taken, context,
                       string_stopped, error>>
    BY DEF TimePasses, Tick, worker, manager, outputs
  <1>3. /\ Admitted' = Admitted /\ Leaving' = Leaving /\ \A t : TooLong(t)' <=> TooLong(t)
    BY <1>2 DEF Admitted, Leaving, TooLong, get_len
  <1>4. /\ Admitted \subseteq Requests /\ Leaving \subseteq Requests /\ Requests \subseteq Int
        /\ now \in Int
    BY <1>1, MembersAreRequests DEF TypeParts
  <1>5. \A s \in Int : s <= now => s <= now'
    BY <1>2, <1>4
  <1>6. ArrivalInv'
    BY <1>1, <1>2, <1>3, <1>4, <1>5 DEF ArrivalInv
  <1>7. FitInv'
    BY <1>1, <1>2, FitKept
  <1>8. HoldersInv'
    <2>1. HeadBarred => HeadBarred'
      <3> SUFFICES ASSUME HeadBarred  PROVE HeadBarred'
        OBVIOUS
      <3>1. waiting # <<>> /\ Head(waiting) <= now
        BY DEF HeadBarred
      <3>2. Head(waiting) <= now'
        BY <1>1, <1>5, <3>1, HeadIsOldest DEF ArrivalInv
      <3>3. QED  BY <1>2, <1>3, <3>2 DEF HeadBarred, get_num_blocks, get_len, Blocks, policy
    <2>2. NoOtherHolder => NoOtherHolder'
      BY <1>2, <1>3 DEF NoOtherHolder
    <2>3. QED  BY <1>1, <1>2, <1>3, <2>1, <2>2 DEF HoldersInv, Idle, is_paused
  <1>9. LoopInv' /\ TakenInv' /\ EmptyInv' /\ SlotCountInv'
    BY <1>1, <1>2 DEF LoopInv, TakenInv, EmptyInv, SlotCountInv, Batched
  <1>10. QED  BY <1>1, <1>2, <1>6, <1>7, <1>8, <1>9 DEF SafeParts

LEMMA StepStartSafe ==
  ASSUME Safe, StepStart
  PROVE  error' = "none" /\ SafeParts'
  <1>1. /\ TypeParts /\ ControlInv /\ PreemptInv /\ ArrivalInv /\ TakenInv /\ FitInv /\ EmptyInv
        /\ HoldersInv /\ SlotCountInv /\ error = "none"
    BY DEF Safe, Serving, SafeParts, Inv
  <1>2. /\ phase = "idle" /\ phase' = "start" /\ taken' = preemption_queue
        /\ preemption_queue' = <<>>
        /\ UNCHANGED <<sq, now, waiting, running, config, kept, prefills, batch,
                       num_batched_tokens, ignored, preempted, context, string_stopped,
                       error>>
    BY DEF StepStart, worker, outputs
  <1>3. /\ taken = <<>> /\ ignored = {} /\ Range(<<>>) = {}
    BY <1>1, <1>2, EmptyList DEF TakenInv, ControlInv
  <1>4. Admitted' = Admitted /\ Leaving' = Leaving
    BY <1>2, <1>3 DEF Admitted, Leaving
  <1>5. ArrivalInv'
    BY <1>1, <1>2, <1>4 DEF ArrivalInv, TooLong, get_len
  <1>6. TakenInv'
    BY <1>1, <1>2, <1>3 DEF TakenInv, PreemptInv
  <1>7. FitInv'
    BY <1>1, <1>2, FitKept
  <1>8. HoldersInv'
    <2>1. Idle /\ HeadBarred => Idle' /\ HeadBarred'
      BY <1>2, <1>4, BarredKept DEF Idle
    <2>2. NoOtherHolder => NoOtherHolder'
      BY <1>2, <1>3, <1>4 DEF NoOtherHolder
    <2>3. QED  BY <1>1, <1>2, <1>3, <1>4, <2>1, <2>2 DEF HoldersInv, is_paused
  <1>9. SlotCountInv'
    <2>1. /\ Len(running) \in Nat /\ Len(kept) \in Nat /\ Len(prefills) \in Nat
          /\ max_num_seqs \in Nat
      BY <1>1, ListLengths, LimitsAssumption
    <2>2. preemption_queue \in Seq(Requests)
      BY <1>1 DEF TypeParts
    <2>3. Cardinality(Range(preemption_queue)) \in Nat
      BY <2>2, RangeSize
    <2>4. Cardinality(Range(preemption_queue')) = 0
      BY <1>2, <1>3, FS_EmptySet
    <2>5. QED  BY <1>1, <1>2, <2>1, <2>3, <2>4 DEF SlotCountInv
  <1>10. LoopInv' /\ EmptyInv'
    BY <1>1, <1>2 DEF LoopInv, EmptyInv
  <1>11. QED  BY <1>1, <1>2, <1>5, <1>6, <1>7, <1>8, <1>9, <1>10 DEF SafeParts

(* step() forgets the preempted sequences that it took: then the cache is    *)
(* too full for waiting[0], and nothing that could leave it is admitted.     *)
LEMMA StepReturnsEmptySafe ==
  ASSUME Safe, StepReturnsEmpty
  PROVE  error' = "none" /\ SafeParts'
  <1>1. /\ TypeParts /\ QueueInv /\ ControlInv /\ ProgressInv /\ CountInv /\ ArrivalInv /\ TakenInv
        /\ FitInv /\ EmptyInv /\ HoldersInv /\ SlotCountInv /\ error = "none"
    BY DEF Safe, Serving, SafeParts, ResidentParts, Inv
  <1>2. /\ phase = "done" /\ batch = <<>> /\ phase' = "idle" /\ taken' = <<>> /\ preempted' = {}
        /\ ignored' = {}
        /\ UNCHANGED <<sq, now, waiting, running, preemption_queue, config, kept, prefills, batch,
                       num_batched_tokens, context, string_stopped, error>>
    BY DEF StepReturnsEmpty, worker, manager
  <1>3. /\ kept = <<>> /\ prefills = <<>> /\ Range(<<>>) = {} /\ Batched = {}
    BY <1>1, <1>2, EmptyList DEF ControlInv, Batched, SeqsOf
  <1>4. Admitted' = Admitted /\ Leaving' \subseteq Leaving /\ (running = <<>> => Admitted = {})
    BY <1>2, <1>3 DEF Admitted, Leaving
  <1>5. ArrivalInv'
    BY <1>1, <1>2, <1>4 DEF ArrivalInv, TooLong, get_len
  <1>6. TakenInv'
    BY <1>2, <1>3 DEF TakenInv
  <1>7. FitInv'
    BY <1>1, <1>2, FitKept
  <1>8. HeadBarred => HeadBarred'
    BY <1>2, BarredKept
  <1>9. ASSUME NEW r \in Range(taken)  PROVE Admitted = {} /\ HeadBarred
    <2>1. r \in Range(waiting) /\ ignored = {} /\ r \in Leaving
      BY <1>1, <1>2, <1>3, <1>9 DEF TakenInv, Leaving
    <2>2. waiting # <<>>
      BY <2>1, EmptyList
    <2>3. PICK h \in Requests : h = Head(waiting) /\ h \in Range(waiting) /\ h <= r
      BY <1>1, <2>1, <2>2, HeadIsOldest DEF ArrivalInv
    <2>4. h \in Int /\ r \in Int /\ now \in Int
      <3>1. r \in Requests
        BY <1>1, <2>1, MembersAreRequests
      <3>2. now \in Int
        BY <1>1, RequestsAreNumbers DEF TypeParts
      <3>3. QED  BY <2>3, <3>1, <3>2, RequestsAreNumbers
    <2>5. h <= now
      <3>1. r <= now
        BY <1>1, <2>1 DEF ArrivalInv
      <3>2. QED  BY <2>3, <2>4, <3>1
    <2>6. ~TooLong(h)
      <3>1. TooLong(h) => r < h
        BY <1>1, <2>1, <2>3 DEF ArrivalInv
      <3>2. QED  BY <2>3, <2>4, <3>1
    <2>7. CASE preempted # {}
      <3>1. Blocks(context) >= num_gpu_blocks /\ running = <<>>
        BY <1>1, <1>2, <2>7 DEF CountInv
      <3>2. /\ Blocks(context) \in Nat /\ num_gpu_blocks \in Nat /\ watermark_blocks \in Nat
            /\ get_num_blocks(h) \in Nat /\ get_num_blocks(h) >= 1
        BY <1>1, <2>3, BlocksType, WaitingBlocks, CapacityAssumption, LimitsAssumption DEF TypeParts
      <3>3. (num_gpu_blocks - Blocks(context)) - get_num_blocks(h) < watermark_blocks
        BY <3>1, <3>2
      <3>4. QED  BY <1>4, <2>2, <2>3, <2>5, <2>6, <3>1, <3>3 DEF HeadBarred
    <2>8. CASE preempted = {}
      <3>1. running = <<>>
        BY <1>1, <1>2, <2>1, <2>8 DEF EmptyInv
      <3>2. Idle
        BY <1>2, <1>4, <2>8, <3>1 DEF Idle
      <3>3. QED  BY <1>1, <1>2, <1>4, <2>1, <2>2, <2>3, <2>5, <3>1, <3>2 DEF EmptyInv
    <2>9. QED  BY <2>7, <2>8
  <1>10. HoldersInv'
    <2>1. CASE Range(taken) = {}
      <3>1. NoOtherHolder => NoOtherHolder'
        BY <1>2, <1>4, <2>1 DEF NoOtherHolder
      <3>2. Idle => Idle'
        BY <1>2, <1>4 DEF Idle
      <3>3. QED  BY <1>1, <1>2, <1>3, <1>4, <1>8, <3>1, <3>2 DEF HoldersInv, is_paused
    <2>2. CASE Range(taken) # {}
      <3>1. Admitted = {} /\ HeadBarred
        BY <1>9, <2>2
      <3>2. Idle'
        BY <1>2, <1>4, <3>1 DEF Idle
      <3>3. QED  BY <1>1, <1>2, <1>3, <1>4, <1>8, <3>1, <3>2 DEF HoldersInv
    <2>3. QED  BY <2>1, <2>2
  <1>11. LoopInv' /\ EmptyInv' /\ SlotCountInv'
    BY <1>1, <1>2 DEF LoopInv, EmptyInv, SlotCountInv
  <1>12. QED  BY <1>1, <1>2, <1>5, <1>6, <1>7, <1>10, <1>11 DEF SafeParts

LEMMA ExecuteModelSafe ==
  ASSUME Safe, ExecuteModel
  PROVE  (error' \in {"none", "oom"} \/ (error' = "no_slot" /\ SlotsFit')) /\ SafeParts'
  <1>1. /\ TypeParts /\ QueueInv /\ ControlInv /\ ProgressInv /\ BatchInv /\ PreemptInv /\ SlotsInv
        /\ ItemsInv /\ ArrivalInv /\ TakenInv /\ FitInv /\ EmptyInv /\ HoldersInv /\ SlotCountInv
        /\ VAttention /\ error = "none"
    BY DEF Safe, Serving, SafeParts, ResidentParts, Inv
  <1>2. /\ phase = "done" /\ batch # <<>> /\ phase' = "forward"
        /\ sq' = on_schedule(sq, batch, preempted)
        /\ context' = StepContexts(sq')
        /\ UNCHANGED <<now, waiting, running, preemption_queue, config, kept, prefills, batch,
                       num_batched_tokens, ignored, preempted, taken, string_stopped>>
    BY <1>1 DEF ExecuteModel, outputs, manager
  <1>3. \A r \in Requests :
          /\ sq'[r] \in SequenceType
          /\ r \in Batched => sq'[r].status = "running"
          /\ r \notin Batched => sq'[r].status = IF r \in preempted THEN "waiting" ELSE sq[r].status
          /\ r \in preempted => sq'[r].output = 0 /\ sq'[r].prompt = sq[r].prompt + sq[r].output
          /\ r \notin preempted => /\ sq'[r].processed = sq[r].processed
                                   /\ sq'[r].output = sq[r].output
                                   /\ sq'[r].prompt = sq[r].prompt
          /\ r \notin preempted /\ r \notin Batched => sq'[r] = sq[r]
    BY <1>1, <1>2, OnScheduleFields
  <1>4. kept = <<>> /\ prefills = <<>> /\ Range(kept) = {} /\ Range(prefills) = {}
    BY <1>1, <1>2, EmptyList DEF ControlInv
  <1>5. /\ Range(running) \subseteq Requests /\ Range(waiting) \subseteq Requests
        /\ Requests \subseteq Int
        /\ context \in [Requests -> Nat] /\ batch \in Seq(Items) /\ running \in Seq(Requests)
        /\ preemption_queue \in Seq(Requests)
    BY <1>1, MembersAreRequests DEF TypeParts
  <1>6. Batched \subseteq Range(running) /\ Admitted = Range(running) /\ Admitted' = Admitted
    BY <1>1, <1>2, <1>4 DEF BatchInv, Admitted
  <1>7. /\ preempted \subseteq Range(waiting) /\ Range(preemption_queue) \subseteq Range(waiting)
        /\ Range(waiting) \cap Range(running) = {}
    BY <1>1, <1>2 DEF PreemptInv, QueueInv
  <1>8. \A s \in Batched : s \in Requests /\ s \notin preempted /\ sq[s].status \in {"waiting", "paused"}
    <2>1. \A i \in DOMAIN batch : sq[batch[i].seq].status \in {"waiting", "paused"}
      BY <1>1, <1>2 DEF ItemsInv
    <2>2. QED  BY <1>5, <1>6, <1>7, <2>1 DEF Batched, SeqsOf
  <1>9. \A s \in preempted : s \in Requests /\ is_executing(s)
    BY <1>1, <1>2, <1>5, <1>7 DEF BatchInv
  <1>10. \A s \in Requests :
           context'[s] = IF s \in Batched THEN ContextLen(sq'[s], ItemOf(batch, s).chunk)
                         ELSE IF s \in Range(taken) THEN 0 ELSE context[s]
    BY <1>2 DEF StepContexts, preempt_requests
  <1>11. NoOtherHolder
    BY <1>1, <1>2 DEF HoldersInv, Idle
  <1>12. \A s \in Requests :
           context'[s] > 0 => s \in Range(running) \cup Range(preemption_queue) \cup string_stopped
    <2> TAKE s \in Requests
    <2>1. CASE s \in Batched
      BY <1>6, <2>1
    <2>2. CASE s \notin Batched /\ s \in Range(taken)
      <3>1. context'[s] = 0
        BY <1>10, <2>2
      <3>2. QED  BY <3>1
    <2>3. CASE s \notin Batched /\ s \notin Range(taken)
      BY <1>6, <1>10, <1>11, <2>3 DEF NoOtherHolder
    <2>4. QED  BY <2>1, <2>2, <2>3
  <1>13. error' \in {"none", "oom"} \/ (error' = "no_slot" /\ SlotsFit')
    <2>1. on_schedule_asserts(sq, batch, preempted)
      <3>1. Cardinality(SeqsOf(batch)) = Len(batch)
        BY <1>1, <1>5, DistinctItems DEF BatchInv
      <3>2. QED  BY <1>8, <1>9, <3>1 DEF on_schedule_asserts, Batched, is_executing
    <2>2. ~(VAttention /\ \E s \in Range(taken) : context[s] = 0)
      <3>1. \A s \in Range(taken) : context[s] > 0
        BY <1>1, <1>2 DEF HoldersInv
      <3>2. QED  BY <3>1
    <2>3. Cardinality({s \in Requests \ string_stopped' : context'[s] > 0}) <= max_num_seqs
      <3> DEFINE H == {s \in Requests \ string_stopped' : context'[s] > 0}
                 R == Range(running)
                 Q == Range(preemption_queue)
      <3>1. H \in SUBSET (R \cup Q)
        BY <1>2, <1>12
      <3>2. /\ IsFiniteSet(R) /\ Cardinality(R) \in Nat /\ Cardinality(R) <= Len(running)
            /\ IsFiniteSet(Q) /\ Cardinality(Q) \in Nat
        BY <1>5, RangeSize
      <3>3. Len(running) \in Nat /\ Len(kept) = 0 /\ Len(prefills) = 0 /\ max_num_seqs \in Nat
        BY <1>1, <1>4, ListLengths, LimitsAssumption
      <3>4. Len(running) + Cardinality(Q) <= max_num_seqs
        BY <1>1, <3>2, <3>3 DEF SlotCountInv
      <3> HIDE DEF H, R, Q
      <3>5. R \cap Q \in SUBSET R
        OBVIOUS
      <3>6. Cardinality(R \cap Q) \in Nat
        BY <3>2, <3>5, FS_Subset, FS_CardinalityType
      <3>7. /\ IsFiniteSet(R \cup Q)
            /\ Cardinality(R \cup Q) = Cardinality(R) + Cardinality(Q) - Cardinality(R \cap Q)
        BY <3>2, FS_Union
      <3>8. IsFiniteSet(H) /\ Cardinality(H) <= Cardinality(R \cup Q)
        BY <3>1, <3>7, FS_Subset
      <3>9. Cardinality(H) \in Nat
        BY <3>8, FS_CardinalityType
      <3>10. Cardinality(H) <= max_num_seqs
        BY <3>2, <3>3, <3>4, <3>6, <3>7, <3>8, <3>9
      <3>11. QED  BY <3>10 DEF H
    <2>4. error' =
            CASE ~on_schedule_asserts(sq, batch, preempted) -> "assertion"
              [] VAttention /\ \E s \in Range(taken) : context[s] = 0 -> "not_found"
              [] VAttention /\ Cardinality({s \in Requests : context'[s] > 0}) > max_num_seqs ->
                   "no_slot"
              [] VAttention /\ Blocks(context') > num_gpu_blocks -> "oom"
              [] ~VAttention /\ Total(WorkerTables(sq')) > num_gpu_blocks -> "oom"
              [] OTHER -> "none"
      BY <1>1, <1>2, Zenon DEF ExecuteModel
    <2>5. QED  BY <1>1, <2>1, <2>2, <2>3, <2>4 DEF SlotsFit
  <1>14. ArrivalInv'
    <2>1. \A r \in Requests : TooLong(r)' <=> TooLong(r)
      <3> TAKE r \in Requests
      <3>1. sq[r].prompt \in Nat /\ sq[r].output \in Nat
        BY <1>1, SequenceFields DEF TypeParts
      <3>2. get_len(r)' = get_len(r)
        BY <1>3, <3>1 DEF get_len
      <3>3. QED  BY <3>2 DEF TooLong
    <2>2. \A r \in Requests : sq'[r].status = "absent" <=> sq[r].status = "absent"
      BY <1>3, <1>8, <1>9 DEF is_executing
    <2>3. Leaving' = Leaving
      BY <1>2 DEF Leaving
    <2>4. \A a \in Leaving, t \in Range(waiting) : TooLong(t)' => a < t
      BY <1>1, <1>5, <2>1 DEF ArrivalInv
    <2>5. \A a, t \in Requests : sq'[a].status = "absent" /\ a < t => sq'[t].status = "absent"
      BY <1>1, <2>2 DEF ArrivalInv
    <2>6. QED  BY <1>1, <1>2, <1>6, <2>3, <2>4, <2>5 DEF ArrivalInv
  <1>15. \A r \in Requests : is_paused(r)' => is_paused(r) /\ sq'[r] = sq[r] /\ r \notin Batched
    BY <1>3 DEF is_paused
  <1>16. FitInv'
    <2>1. \A i \in DOMAIN batch : /\ sq'[batch[i].seq].processed = sq[batch[i].seq].processed
                                  /\ sq'[batch[i].seq].prompt = sq[batch[i].seq].prompt
      BY <1>3, <1>8 DEF Batched, SeqsOf
    <2>2. QED  BY <1>1, <1>2, <1>15, <2>1 DEF FitInv, policy, prompt_processing_finished
  <1>17. HoldersInv'
    <2>1. \A s \in Admitted : is_paused(s)' => context'[s] > 0
      <3> TAKE s \in Admitted
      <3>1. HAVE is_paused(s)'
      <3>2. s \in Requests /\ is_paused(s) /\ s \notin Batched
        BY <1>5, <1>6, <1>15, <3>1
      <3>3. s \notin Range(taken) /\ context[s] > 0
        BY <1>1, <3>2 DEF SlotsInv, HoldersInv, Admitted
      <3>4. QED  BY <1>10, <3>2, <3>3
    <2>2. \A s \in Range(preemption_queue) : context'[s] > 0
      <3> TAKE s \in Range(preemption_queue)
      <3>1. s \in Requests /\ s \notin Batched /\ s \notin Range(taken) /\ context[s] > 0
        BY <1>1, <1>2, <1>5, <1>6, <1>7 DEF TakenInv, HoldersInv
      <3>2. QED  BY <1>10, <3>1
    <2>3. NoOtherHolder'
      BY <1>2, <1>6, <1>12 DEF NoOtherHolder
    <2>4. QED  BY <1>2, <1>6, <2>1, <2>2, <2>3 DEF HoldersInv
  <1>18. LoopInv' /\ TakenInv' /\ EmptyInv' /\ SlotCountInv'
    BY <1>1, <1>2 DEF LoopInv, TakenInv, EmptyInv, SlotCountInv
  <1>19. QED  BY <1>13, <1>14, <1>16, <1>17, <1>18 DEF SafeParts

LEMMA StepCompletesSafe ==
  ASSUME Safe, StepCompletes
  PROVE  error' = "none" /\ SafeParts'
  <1>1. /\ TypeParts /\ QueueInv /\ ControlInv /\ ProgressInv /\ BatchInv /\ PreemptInv
        /\ ItemsInv /\ ArrivalInv /\ TakenInv /\ FitInv /\ EmptyInv /\ HoldersInv /\ SlotCountInv
        /\ error = "none"
    BY DEF Safe, Serving, SafeParts, ResidentParts, Inv
  <1>0. Batched \subseteq Requests
    BY <1>1, BatchedAreRequests
  <1> DEFINE done == {r \in Batched : sq'[r].status = "finished"}
  <1>2. PICK stops \in SUBSET Batched, freed \in SUBSET Batched :
          /\ phase = "forward" /\ freed \subseteq done
          /\ sq' = [r \in Requests |->
                      IF r \in Batched
                      THEN process_seq_output(sq[r], ItemOf(batch, r).chunk, r \in stops)
                      ELSE sq[r]]
          /\ error' = IF \A i \in DOMAIN batch : process_asserts(sq[batch[i].seq], batch[i].chunk)
                      THEN "none" ELSE "assertion"
          /\ context' = [r \in Requests |-> IF r \in freed THEN 0 ELSE context[r]]
          /\ string_stopped' = string_stopped \cup (done \ freed)
          /\ running' = Those(running, Requests \ done)
          /\ phase' = "idle" /\ taken' = <<>> /\ batch' = <<>> /\ preempted' = {}
          /\ num_batched_tokens' = 0
          /\ UNCHANGED <<now, waiting, kept, prefills, preemption_queue, config>>
    BY <1>0, Completion
  <1>3. /\ kept = <<>> /\ prefills = <<>> /\ Range(<<>>) = {} /\ batch # <<>>
        /\ Batched \subseteq Range(running)
    <2>1. kept = <<>> /\ prefills = <<>> /\ batch # <<>> /\ Range(<<>>) = {}
      BY <1>1, <1>2, EmptyList DEF ControlInv
    <2>2. QED  BY <1>1, <2>1 DEF BatchInv
  <1>4. /\ Range(running) \subseteq Requests /\ Range(waiting) \subseteq Requests
        /\ Requests \subseteq Int /\ batch \in Seq(Items) /\ running \in Seq(Requests)
        /\ context \in [Requests -> Nat]
    BY <1>1, MembersAreRequests DEF TypeParts
  <1>5. /\ Range(running') = Range(running) \cap (Requests \ done)
        /\ Len(running') <= Len(running) /\ running' \in Seq(Requests)
    BY <1>2, <1>4, ThoseList
  <1>6. /\ Admitted = Range(running) /\ Admitted' = Range(running) \ done
        /\ Leaving' \subseteq Leaving
    BY <1>2, <1>3, <1>4, <1>5 DEF Admitted, Leaving
  <1>7. /\ Range(waiting) \cap Batched = {} /\ Range(preemption_queue) \subseteq Range(waiting)
    BY <1>1, <1>3 DEF QueueInv, PreemptInv
  <1>8. \A r \in Requests : r \notin Batched => sq'[r] = sq[r]
    BY <1>2
  <1> HIDE DEF done
  <1>9. ASSUME NEW r \in Batched, NEW chunk, chunk = ItemOf(batch, r).chunk
        PROVE  /\ r \in Requests /\ sq[r].status # "absent"
               /\ sq'[r].status \in {"paused", "finished"}
               /\ context[r] > 0
               /\ policy = "vllm" => sq'[r].processed = sq'[r].prompt
    <2>1. r \in Requests /\ sq[r] \in SequenceType /\ Live(r)
      BY <1>1, <1>3, <1>4, <1>9 DEF TypeParts, QueueInv
    <2>2. /\ sq[r].prompt \in Nat /\ sq[r].processed \in Nat /\ sq[r].output \in Nat
          /\ sq[r].processed <= sq[r].prompt /\ sq[r].prompt >= 1
          /\ sq[r].processed < sq[r].prompt => sq[r].output = 0
      <3>1. sq[r].prompt \in Nat /\ sq[r].processed \in Int /\ sq[r].output \in Nat
        BY <2>1, SequenceFields
      <3>2. QED  BY <1>1, <2>1, <3>1 DEF ProgressInv
    <2>3. chunk \in Int /\ \E i \in DOMAIN batch : chunk = batch[i].chunk /\ batch[i].seq = r
      <3>1. r \in SeqsOf(batch)
        BY <1>9 DEF Batched
      <3>2. QED  BY <1>4, <1>9, <3>1, ItemOfBatch
    <2>4. /\ context[r] = ContextLen(sq[r], chunk) /\ chunk >= 0
          /\ chunk = 0 <=> sq[r].processed = sq[r].prompt
          /\ chunk # 0 => sq[r].processed + chunk <= sq[r].prompt
          /\ chunk # 0 /\ policy = "vllm" => sq[r].processed + chunk = sq[r].prompt
      BY <1>1, <1>2, <2>3 DEF ItemsInv, FitInv, prompt_processing_finished
    <2> DEFINE stop == r \in stops
    <2>5. sq'[r] = process_seq_output(sq[r], chunk, stop) /\ stop \in BOOLEAN
      BY <1>2, <1>9, <2>1
    <2> HIDE DEF stop
    <2>6. /\ sq'[r].status \in {"paused", "finished"} /\ sq'[r].prompt = sq[r].prompt
          /\ sq[r].processed < sq[r].prompt => sq'[r].processed = sq[r].processed + chunk
          /\ sq[r].processed = sq[r].prompt => sq'[r].processed = sq[r].processed
      <3>1. 0 <= sq[r].processed
        BY <2>2
      <3>2. QED  BY <2>1, <2>2, <2>3, <2>5, <3>1, ProcessOutput
    <2>7. policy = "vllm" => sq'[r].processed = sq'[r].prompt
      <3>1. sq[r].processed < sq[r].prompt \/ sq[r].processed = sq[r].prompt
        BY <2>2
      <3>2. sq[r].processed < sq[r].prompt => chunk # 0
        BY <2>2, <2>4
      <3>3. QED  BY <2>4, <2>6, <3>1, <3>2
    <2>8. context[r] > 0
      <3>1. CASE chunk = 0
        <4>1. context[r] = sq[r].prompt + sq[r].output
          BY <2>4, <3>1 DEF ContextLen
        <4>2. QED  BY <2>2, <4>1
      <3>2. CASE chunk # 0
        <4>1. chunk > 0 /\ chunk <= sq[r].prompt - sq[r].processed
          BY <2>2, <2>3, <2>4, <3>2
        <4>2. Min({chunk, sq[r].prompt - sq[r].processed}) = chunk
          BY <2>2, <2>3, <4>1, MinOfTwo
        <4>3. context[r] = sq[r].processed + chunk
          BY <2>4, <4>1, <4>2 DEF ContextLen
        <4>4. QED  BY <2>2, <2>3, <4>1, <4>3
      <3>3. QED  BY <3>1, <3>2
    <2>9. QED  BY <2>1, <2>6, <2>7, <2>8 DEF Live
  <1>10. error' = "none"
    <2>1. ASSUME NEW i \in DOMAIN batch  PROVE process_asserts(sq[batch[i].seq], batch[i].chunk)
      <3>1. /\ batch[i].chunk = 0 <=> prompt_processing_finished(batch[i].seq)
            /\ batch[i].chunk >= 0
            /\ batch[i].chunk # 0 =>
                 sq[batch[i].seq].processed + batch[i].chunk <= sq[batch[i].seq].prompt
        BY <1>1, <1>2, <2>1 DEF ItemsInv, FitInv
      <3>2. batch[i].chunk \in Int /\ sq[batch[i].seq] \in SequenceType
        <4>1. batch[i] \in Items
          BY <1>4, <2>1
        <4>2. QED  BY <1>1, <4>1 DEF Items, TypeParts
      <3>3. sq[batch[i].seq].prompt \in Nat /\ sq[batch[i].seq].processed \in Int
        BY <3>2, SequenceFields
      <3>4. QED  BY <3>1, <3>2, <3>3 DEF process_asserts, prompt_processing_finished
    <2>2. QED  BY <1>2, <2>1
  <1>11. ArrivalInv'
    <2>1. \A t \in Range(waiting) : TooLong(t)' <=> TooLong(t)
      BY <1>4, <1>7, <1>8 DEF TooLong, get_len
    <2>2. \A r \in Requests : sq'[r].status = "absent" <=> sq[r].status = "absent"
      BY <1>8, <1>9
    <2>3. \A a, t \in Requests : sq'[a].status = "absent" /\ a < t => sq'[t].status = "absent"
      BY <1>1, <2>2 DEF ArrivalInv
    <2>4. Admitted' \subseteq Admitted
      BY <1>6
    <2>5. QED  BY <1>1, <1>2, <1>6, <2>1, <2>3, <2>4 DEF ArrivalInv
  <1>12. TakenInv'
    BY <1>2, <1>3 DEF TakenInv
  <1>13. FitInv'
    <2>1. policy = "vllm" => \A r \in Requests : is_paused(r)' => sq'[r].processed = sq'[r].prompt
      BY <1>1, <1>8, <1>9 DEF FitInv, is_paused, prompt_processing_finished
    <2>2. QED  BY <1>2, <2>1 DEF FitInv, policy, prompt_processing_finished
  <1>14. HoldersInv'
    <2>1. \A s \in Admitted' : s \in Requests /\ (is_paused(s)' => context'[s] > 0)
      <3> TAKE s \in Admitted'
      <3>1. s \in Requests /\ s \in Admitted /\ context'[s] = context[s]
        BY <1>2, <1>4, <1>6
      <3>2. CASE s \in Batched
        BY <1>9, <3>1, <3>2
      <3>3. CASE s \notin Batched
        BY <1>1, <1>8, <3>1, <3>3 DEF HoldersInv, is_paused
      <3>4. QED  BY <3>1, <3>2, <3>3
    <2>2. \A s \in Range(preemption_queue) : context'[s] > 0
      <3> TAKE s \in Range(preemption_queue)
      <3>1. s \in Requests /\ s \notin done /\ context[s] > 0
        BY <1>1, <1>4, <1>7 DEF HoldersInv, done
      <3>2. QED  BY <1>2, <3>1
    <2>3. NoOtherHolder
      BY <1>1, <1>3 DEF HoldersInv, Idle
    <2>4. NoOtherHolder'
      <3> SUFFICES ASSUME NEW s \in Requests, context'[s] > 0
                   PROVE  s \in Admitted' \cup Range(preemption_queue') \cup string_stopped'
        BY DEF NoOtherHolder
      <3>1. s \notin freed /\ context[s] > 0
        <4>1. s \in freed => context'[s] = 0
          BY <1>2
        <4>2. s \notin freed
          BY <4>1
        <4>3. QED  BY <1>2, <4>2
      <3>2. s \in Admitted \cup Range(preemption_queue) \cup string_stopped
        BY <1>2, <2>3, <3>1 DEF NoOtherHolder
      <3>3. QED  BY <1>2, <1>6, <3>1, <3>2
    <2>5. QED  BY <1>2, <1>3, <2>1, <2>2, <2>4 DEF HoldersInv
  <1>15. SlotCountInv'
    <2>1. /\ Len(running) \in Nat /\ Len(kept) \in Nat /\ Len(prefills) \in Nat
          /\ max_num_seqs \in Nat /\ Len(running') \in Nat
      BY <1>1, <1>5, ListLengths, LimitsAssumption
    <2>2. preemption_queue \in Seq(Requests)
      BY <1>1 DEF TypeParts
    <2>3. Cardinality(Range(preemption_queue)) \in Nat
      BY <2>2, RangeSize
    <2>4. QED  BY <1>1, <1>2, <1>5, <2>1, <2>3 DEF SlotCountInv
  <1>16. LoopInv' /\ EmptyInv'
    BY <1>2 DEF LoopInv, EmptyInv
  <1>17. QED  BY <1>10, <1>11, <1>12, <1>13, <1>14, <1>15, <1>16 DEF SafeParts

LEMMA SafeNext ==
  ASSUME Len(chunk_sizes) = 1
  PROVE  /\ Inv /\ ChunkInv /\ PreemptInv /\ ResidentInv /\ SafeInv /\ NoneOutgrown
         /\ [Next]_vars
         => SafeInv'
  <1> SUFFICES ASSUME Inv, ChunkInv, PreemptInv, ResidentInv, SafeInv, NoneOutgrown, [Next]_vars,
                      VAttention', policy' \in {"sarathi", "vllm"}
               PROVE  /\ error' \in {"none", "oom"} \/ (error' = "no_slot" /\ SlotsFit')
                      /\ error' = "none" => SafeParts'
    BY DEF SafeInv
  <1>1. VAttention /\ policy \in {"sarathi", "vllm"}
    BY ConfigFixed DEF VAttention, policy
  <1>2. /\ error \in {"none", "oom"} \/ (error = "no_slot" /\ SlotsFit)
        /\ error = "none" => SafeParts
    BY <1>1 DEF SafeInv
  <1>3. CASE UNCHANGED vars
    <2>1. UNCHANGED <<sq, now, waiting, running, preemption_queue, config, kept, prefills, phase,
                      batch, num_batched_tokens, ignored, preempted, error, taken, context,
                      string_stopped>>
      BY <1>3 DEF vars, scheduler, manager, outputs, worker
    <2>2. ASSUME SafeParts  PROVE SafeParts'
      <3>1. /\ Admitted' = Admitted /\ Leaving' = Leaving /\ Batched' = Batched
            /\ Idle' = Idle /\ (HeadBarred => HeadBarred')
        BY <2>1, BarredKept DEF Admitted, Leaving, Batched, Idle
      <3>2. ArrivalInv' /\ FitInv'
        BY <2>1, <2>2, <3>1, ArrivalKept, FitKept DEF SafeParts
      <3>3. LoopInv' /\ TakenInv' /\ EmptyInv' /\ SlotCountInv'
        BY <2>1, <2>2, <3>1 DEF SafeParts, LoopInv, TakenInv, EmptyInv, SlotCountInv, policy
      <3>4. HoldersInv'
        BY <2>1, <2>2, <3>1 DEF SafeParts, HoldersInv, NoOtherHolder, is_paused
      <3>5. QED  BY <3>2, <3>3, <3>4 DEF SafeParts
    <2>3. QED  BY <1>2, <2>1, <2>2 DEF SlotsFit
  <1>4. CASE error = "none" /\ (AddRequest \/ TimePasses \/ Step)
    <2>1. Safe
      BY <1>1, <1>2, <1>4 DEF Safe, Serving, ResidentInv
    <2>2. CASE AddRequest \/ TimePasses
      BY <2>1, <2>2, AddRequestSafe, TimePassesSafe
    <2>3. CASE StepStart \/ StepReturnsEmpty
      BY <2>1, <2>3, StepStartSafe, StepReturnsEmptySafe
    <2>4. CASE ExecuteModel \/ StepCompletes
      BY <2>1, <2>4, ExecuteModelSafe, StepCompletesSafe
    <2>5. CASE Schedule
      <3>1. ScheduleStep /\ UNCHANGED <<taken, worker, reported>>
        BY <2>5 DEF Schedule
      <3>2. CASE ScheduleStart
        BY <2>1, <3>1, <3>2, ScheduleStartSafe
      <3>3. CASE ScheduleDecodes
        BY <1>1, <3>3 DEF ScheduleDecodes, Inv, ControlInv
      <3>4. CASE \E s \in Requests : RunningKeep(s) \/ RunningAppend(s) \/ RunningPreempt(s)
        BY <2>1, <3>1, <3>4, RunningKeepSafe, RunningAppendSafe, RunningPreemptSafe
      <3>5. CASE RunningEnd \/ PrefillStep \/ PrefillsEnd
        BY <2>1, <3>1, <3>5, RunningEndSafe, PrefillStepSafe, PrefillsEndSafe
      <3>6. CASE \E s \in Requests : WaitingIgnore(s) \/ WaitingAdmit(s)
        BY <2>1, <3>1, <3>6, WaitingIgnoreSafe, WaitingAdmitSafe
      <3>7. CASE WaitingEnd
        BY <2>1, <3>1, <3>7, WaitingEndSafe
      <3>8. QED  BY <3>1, <3>2, <3>3, <3>4, <3>5, <3>6, <3>7 DEF ScheduleStep
    <2>6. QED  BY <1>4, <2>2, <2>3, <2>4, <2>5 DEF Step
  <1>5. QED  BY <1>3, <1>4 DEF Next, Stopped

LEMMA SafeInit == ServingInit => SafeInv
  <1> SUFFICES ASSUME ServingInit  PROVE error = "none" /\ SafeParts
    BY DEF SafeInv
  <1>1. /\ waiting = <<>> /\ running = <<>> /\ kept = <<>> /\ prefills = <<>> /\ batch = <<>>
        /\ preemption_queue = <<>> /\ taken = <<>> /\ phase = "idle" /\ num_batched_tokens = 0
        /\ error = "none" /\ sq = [s \in Requests |-> Absent]
        /\ context = [s \in Requests |-> 0]
    BY DEF ServingInit, Init
  <1>2. Range(<<>>) = {} /\ Len(<<>>) = 0 /\ Ascending(<<>>)
    BY EmptyList DEF Ascending
  <1>3. Admitted = {} /\ Leaving = {}
    BY <1>1, <1>2 DEF Admitted, Leaving
  <1>4. \A s \in Requests : sq[s].status = "absent" /\ ~(context[s] > 0)
    BY <1>1 DEF Absent
  <1>5. ArrivalInv /\ HoldersInv
    BY <1>1, <1>2, <1>3, <1>4 DEF ArrivalInv, HoldersInv, NoOtherHolder
  <1>6. LoopInv /\ TakenInv /\ EmptyInv
    BY <1>1, <1>2 DEF LoopInv, TakenInv, EmptyInv
  <1>7. FitInv
    BY <1>1, <1>4 DEF FitInv, is_paused
  <1>8. SlotCountInv
    <2>1. Len(running) = 0 /\ Len(kept) = 0 /\ Len(prefills) = 0 /\ max_num_seqs \in Nat
      BY <1>1, <1>2, LimitsAssumption
    <2>2. Cardinality(Range(preemption_queue)) = 0
      BY <1>1, <1>2, FS_EmptySet
    <2>3. QED  BY <2>1, <2>2 DEF SlotCountInv
  <1>9. QED  BY <1>1, <1>5, <1>6, <1>7, <1>8 DEF SafeParts

(* With vAttention, the two policies made for it and one chunk size, no      *)
(* assertion of scheduler and sequence managers fails, no status transition  *)
(* is illegal, and the worker finds the slot of every preempted sequence, as *)
(* long as no admitted sequence outgrows max_model_len (check_stop does not  *)
(* look at it).  Only the allocator may end the program, or the lack of a    *)
(* slot; and then the sequences that hold slots fit in, without those whose  *)
(* stop string the worker could not see.                                     *)
THEOREM NoInternalErrorHolds ==
  ASSUME Len(chunk_sizes) = 1,
         \A c \in Configs : c.vattention /\ c.type \in {"sarathi", "vllm"}
  PROVE  Spec /\ []NoneOutgrown => []NoInternalError
  <1>1. Inv /\ ChunkInv /\ [Next]_vars => ChunkInv'
    BY ChunkNext
  <1>2. Inv /\ ChunkInv /\ PreemptInv /\ [Next]_vars => PreemptInv'
    BY PreemptNext
  <1>3. Inv /\ ChunkInv /\ PreemptInv /\ ResidentInv /\ [Next]_vars => ResidentInv'
    BY ResidentNext
  <1>4. Inv /\ ChunkInv /\ PreemptInv /\ ResidentInv /\ SafeInv /\ NoneOutgrown /\ [Next]_vars
          => SafeInv'
    BY SafeNext
  <1>5. Inv /\ SafeInv => NoInternalError
    <2>1. Inv => VAttention /\ policy \in {"sarathi", "vllm"}
      BY DEF Inv, TypeParts, VAttention, policy
    <2>2. QED  BY <2>1 DEF SafeInv, SlotsFit, NoInternalError
  <1>6. QED
    BY <1>1, <1>2, <1>3, <1>4, <1>5, ChunkInit, PreemptInit, ResidentInit, SafeInit, InvHolds, PTL
       DEF Spec
============================================================================
