--------------------------- MODULE PipelineEngine ---------------------------
(***************************************************************************)
(* PipelineParallelLLMEngine with its workers (src/sarathi-lean/sarathi:   *)
(* engine/pipeline_parallel_llm_engine.py, pipeline_parallel_worker.py).   *)
(*                                                                         *)
(* A schedule thread calls schedule() over and over and hands batches to   *)
(* the stages; every stage executes its queue in order; an output thread   *)
(* takes the sampled tokens of the last stage and completes the step in    *)
(* the workers, in the sequence manager and in the scheduler.  The         *)
(* scheduler has no lock; the sequence managers do.                        *)
(*                                                                         *)
(* One worker stands for each stage: a stage has executed at least the     *)
(* batches that are completed and at most those that were enqueued, which  *)
(* is all that the model says of it.  The backend is paged; the engine     *)
(* never asks a stage for free blocks, as vAttention would need.           *)
(***************************************************************************)
EXTENDS Scheduler

ASSUME PipelineAssumption == \A c \in Configs : ~c.vattention

VARIABLES
  wsq,             (* the stage's copies of the sequence objects             *)
  schedule_queue,  (* scheduler_output_queue                                 *)
  string_stopped,  (* sequences that only the engine knows to be finished    *)
  execution_queue, (* the stage's batches to execute                         *)
  sampled_queue,   (* batches whose sampled tokens wait in the last stage    *)
  out_pc,          (* control point of the output thread                     *)
  out,             (* scheduler_stage_output of the output thread            *)
  sampled,         (* sampler_outputs: their batch; stops: positions whose   *)
                   (* token ends the text; strings: those of them where only *)
                   (* a stop string does                                     *)
  position,        (* index of the loop of free_finished_seqs                *)
  unfinished,      (* list computed by remove_finished_seqs                  *)
  reported,        (* requests whose final output was returned               *)
  switches,        (* environment, fixed at start: the interpreter switches  *)
                   (* threads inside the statement of remove_finished_seqs   *)
  preemptions      (* ghost: request -> times it was preempted               *)

stage == <<wsq, string_stopped, execution_queue, sampled_queue>>
output_thread == <<out_pc, out, sampled, position, unfinished, reported, switches>>
vars == <<scheduler, stage, schedule_queue, output_thread, preemptions>>

(* What schedule() returned; at: ghost, preemptions when it did. *)
Outputs == [items |-> batch, preempted |-> preempted, ignored |-> ignored, at |-> preemptions]

NoOutputs == [items |-> <<>>, preempted |-> {}, ignored |-> {}, at |-> [s \in Requests |-> 0]]

NoSample == [of |-> NoOutputs, stops |-> {}, strings |-> {}]

PipelineInit ==
  /\ Init
  /\ wsq = sq
  /\ string_stopped = {}
  /\ schedule_queue = <<>>
  /\ execution_queue = <<>>
  /\ sampled_queue = <<>>
  /\ out_pc = "get"
  /\ out = NoOutputs
  /\ sampled = NoSample
  /\ position = 0
  /\ unfinished = <<>>
  /\ reported = {}
  /\ switches \in BOOLEAN
  /\ preemptions = [s \in Requests |-> 0]

(* add_request, in the main thread at any time. *)
AddRequest ==
  /\ \E s \in Requests, n \in Prompts : add_seq(s, n)
  /\ wsq' = [s \in Requests |-> IF wsq[s] = Absent THEN sq'[s] ELSE wsq[s]]
  /\ UNCHANGED <<string_stopped, schedule_queue, execution_queue, sampled_queue, output_thread,
                 preemptions>>

TimePasses ==
  /\ phase = "idle"
  /\ Tick
  /\ UNCHANGED <<stage, schedule_queue, output_thread, preemptions>>

-----------------------------------------------------------------------------
(* The schedule thread.  The timer wakes it whatever happens. *)

ScheduleWakes ==
  /\ phase = "idle"
  /\ phase' = "start"
  /\ UNCHANGED <<sq, now, waiting, running, turn, num_running_batches, manager, config, kept,
                 prefills, outputs, error, stage, schedule_queue, output_thread, preemptions>>

Schedule == ScheduleStep /\ UNCHANGED <<stage, schedule_queue, output_thread, preemptions>>

(* Mutant: a schedule without output is published too. *)
OnSchedule_Always ==
  /\ phase = "done"
  /\ phase' = "publish"
  /\ sq' = on_schedule(sq, batch, preempted)
  /\ UNCHANGED <<now, waiting, running, turn, num_running_batches, manager, config, kept, prefills,
                 outputs, error, stage, schedule_queue, output_thread, preemptions>>

(* has_no_output: nothing happens; else on_schedule of the engine. *)
OnSchedule ==
  /\ phase = "done"
  /\ IF batch = <<>> /\ ignored = {} /\ preempted = {}
     THEN phase' = "idle" /\ UNCHANGED <<sq, error, preemptions>>
     ELSE /\ phase' = "publish"
          /\ sq' = on_schedule(sq, batch, preempted)
          /\ error' = IF on_schedule_asserts(sq, batch, preempted) THEN error ELSE "assertion"
          /\ preemptions' = [s \in Requests |-> preemptions[s] + (IF s \in preempted THEN 1 ELSE 0)]
  /\ UNCHANGED <<now, waiting, running, turn, num_running_batches, manager, config, kept, prefills,
                 outputs, stage, schedule_queue, output_thread>>

(* The output thread is told of every schedule, the stages only of those     *)
(* with a batch.                                                             *)
Publish ==
  /\ phase = "publish"
  /\ phase' = "idle"
  /\ schedule_queue' = Append(schedule_queue, Outputs)
  /\ execution_queue' = IF batch = <<>> THEN execution_queue ELSE Append(execution_queue, Outputs)
  /\ batch' = <<>>
  /\ num_batched_tokens' = 0
  /\ ignored' = {}
  /\ preempted' = {}
  /\ UNCHANGED <<sq, now, waiting, running, turn, num_running_batches, manager, config, kept,
                 prefills, error, wsq, string_stopped, sampled_queue, output_thread, preemptions>>

-----------------------------------------------------------------------------
(* A stage: _execution_loop. *)

ExecuteModel ==
  LET b == Head(execution_queue)
  IN  /\ execution_queue # <<>>
      /\ wsq' = [s \in Requests |->
                   IF s \in b.ignored THEN set_status(wsq[s], "ignored")
                   ELSE on_schedule(wsq, b.items, b.preempted)[s]]
      /\ error' = IF on_schedule_asserts(wsq, b.items, b.preempted) THEN error ELSE "assertion"
      /\ execution_queue' = Tail(execution_queue)
      /\ sampled_queue' = Append(sampled_queue, b)
      /\ UNCHANGED <<sq, now, waiting, running, turn, num_running_batches, manager, config, phase,
                     kept, prefills, outputs, string_stopped, schedule_queue, output_thread,
                     preemptions>>

-----------------------------------------------------------------------------
(* The output thread: _output_loop. *)

(* Items of the schedule that zip pairs with a sampled token. *)
Paired == {i \in DOMAIN out'.items : i <= Len(sampled'.of.items)}

(* on_step_completed of a sequence manager with the objects q that sees the  *)
(* text end at the positions of stops: a sequence that is waiting was        *)
(* preempted meanwhile, its output is dropped.                               *)
on_step_completed(q, stops) ==
  [s \in Requests |->
     LET mine == {i \in Paired : out'.items[i].seq = s /\ q[s].status # "waiting"}
     IN  IF mine = {} THEN q[s]
         ELSE LET i == CHOOSE i \in mine : TRUE
              IN  process_seq_output(q[s], out'.items[i].chunk, i \in stops)]

on_step_completed_asserts(q) ==
  \A i \in Paired :
    LET s == out'.items[i].seq
    IN  \/ q[s].status = "waiting"
        \/ q[s].status = "running" /\ process_asserts(q[s], out'.items[i].chunk)

(* Mutant: the stages are not told, as by their own on_step_completed. *)
on_sampling_completed_Pass == UNCHANGED <<wsq, error>>

(* The same in a stage, which does not detokenise: its sequence manager      *)
(* never sees a stop string.                                                 *)
on_sampling_completed ==
  /\ wsq' = on_step_completed(wsq, sampled'.stops \ sampled'.strings)
  /\ error' = IF on_step_completed_asserts(wsq) THEN error ELSE "assertion"

(* Takes a schedule and the next sampled tokens, and completes the step in   *)
(* the stages.                                                               *)
OutputReceive ==
  /\ out_pc = "get"
  /\ schedule_queue # <<>>
  /\ sampled_queue # <<>>
  /\ out' = Head(schedule_queue)
  /\ schedule_queue' = Tail(schedule_queue)
  /\ LET b == Head(sampled_queue)
     IN  \E stops \in SUBSET {i \in DOMAIN b.items : b.items[i].chunk = 0} :
           \E strings \in SUBSET stops : sampled' = [of |-> b, stops |-> stops, strings |-> strings]
  /\ sampled_queue' = Tail(sampled_queue)
  /\ on_sampling_completed
  /\ out_pc' = "sequences"
  /\ UNCHANGED <<sq, now, waiting, running, turn, num_running_batches, manager, config, phase,
                 kept, prefills, outputs, string_stopped, execution_queue, position, unfinished,
                 reported, switches, preemptions>>

(* The engine's sequence manager, which sees stop strings too. *)
OutputSequences ==
  /\ out_pc = "sequences"
  /\ out_pc' = "free"
  /\ position' = 1
  /\ UNCHANGED <<out, sampled>>
  /\ sq' = on_step_completed(sq, sampled.stops)
  /\ string_stopped' = string_stopped \cup
       {s \in Requests : /\ sq'[s].status = "finished"
                        /\ on_step_completed(sq, sampled.stops \ sampled.strings)[s].status
                             # "finished"}
  /\ error' = IF on_step_completed_asserts(sq) THEN error ELSE "assertion"
  /\ UNCHANGED <<now, waiting, running, turn, num_running_batches, manager, config, phase, kept,
                 prefills, outputs, wsq, execution_queue, sampled_queue, schedule_queue, unfinished,
                 reported, switches, preemptions>>

(* free_finished_seqs iterates over self.running by index, while schedule()  *)
(* may remove elements from it.                                              *)
OutputFree ==
  LET s == running[position]
      frees == is_finished(s)
  IN  /\ out_pc = "free"
      /\ position <= Len(running)
      /\ position' = position + 1
      /\ free_blocks' = free_blocks + (IF frees THEN Credit(s, get_len(s)) ELSE 0)
      /\ block_tables' = [block_tables EXCEPT ![s] = IF frees THEN 0 ELSE @]
      /\ UNCHANGED <<sq, now, waiting, running, turn, num_running_batches, promised_blocks,
                     preemption_queue, config, phase, kept, prefills, outputs, error, stage,
                     schedule_queue, out_pc, out, sampled, unfinished, reported, switches,
                     preemptions>>

StillRunning == Those(running, {s \in Requests : ~is_finished(s)})

(* The rest of a step: self.running is assigned, the batch no longer counts, *)
(* the outputs are returned.                                                 *)
Complete(next_running) ==
  /\ running' = next_running
  /\ num_running_batches' = num_running_batches - 1
  /\ reported' = reported \cup out.ignored \cup {s \in SeqsOf(out.items) : is_finished(s)}
  /\ out_pc' = "get"
  /\ out' = NoOutputs
  /\ sampled' = NoSample
  /\ position' = 0
  /\ unfinished' = <<>>
  /\ UNCHANGED <<sq, now, waiting, turn, manager, config, phase, kept, prefills, outputs, error,
                 stage, schedule_queue, switches, preemptions>>

OutputComplete ==
  /\ ~switches
  /\ out_pc = "free"
  /\ position > Len(running)
  /\ Complete(StillRunning)

(* remove_finished_seqs in two steps: the list is computed, and assigned. *)
OutputRemove ==
  /\ switches
  /\ out_pc = "free"
  /\ position > Len(running)
  /\ unfinished' = StillRunning
  /\ out_pc' = "assign"
  /\ UNCHANGED <<scheduler, stage, schedule_queue, out, sampled, position, reported, switches,
                 preemptions>>

OutputAssign ==
  /\ out_pc = "assign"
  /\ Complete(unfinished)

-----------------------------------------------------------------------------
ScheduleThread == ScheduleWakes \/ Schedule \/ OnSchedule \/ Publish

OutputThread ==
  \/ OutputReceive
  \/ OutputSequences
  \/ OutputFree
  \/ OutputComplete
  \/ OutputRemove
  \/ OutputAssign

(* An exception in any thread ends the process (exit_on_error). *)
Next ==
  error = "none" /\ (AddRequest \/ TimePasses \/ ScheduleThread \/ ExecuteModel \/ OutputThread)

Spec == PipelineInit /\ [][Next]_vars

(* Every thread runs; the timer keeps waking the schedule thread, and the    *)
(* clock goes on between two schedules.                                      *)
FairSpec ==
  /\ Spec
  /\ WF_vars(error = "none" /\ ScheduleThread)
  /\ WF_vars(error = "none" /\ ExecuteModel)
  /\ WF_vars(error = "none" /\ OutputThread)
  /\ SF_vars(error = "none" /\ TimePasses)

-----------------------------------------------------------------------------
(* Types of the pipeline's own state. *)
TypeOK ==
  /\ out_pc \in {"get", "sequences", "free", "assign"}
  /\ phase \in {"idle", "start", "running", "prefills", "waiting", "decodes", "done", "publish"}
  /\ position \in Nat
  /\ num_running_batches \in 0 .. num_pipeline_stages
  /\ free_blocks \in 0 .. num_gpu_blocks
  /\ {waiting, running, kept, prefills, unfinished} \subseteq Seq(Requests)
  /\ {reported, string_stopped} \subseteq SUBSET Requests
  /\ switches \in BOOLEAN
  /\ error \in Errors

(* Batches that the engine's sequence manager has yet to complete. *)
InFlight == execution_queue \o sampled_queue \o (IF out_pc = "sequences" THEN <<out>> ELSE <<>>)

(* A sequence is in at most one batch between schedule and completion: the   *)
(* threads agree, through its status alone, that it is in flight.            *)
InFlightOnce ==
  \A i, j \in DOMAIN InFlight :
    i # j => SeqsOf(InFlight[i].items) \cap SeqsOf(InFlight[j].items) = {}

(* The output thread pairs the sequences of a batch with the tokens sampled  *)
(* for that batch.                                                           *)
OutputsMatchBatch == out_pc # "get" => sampled.of = out

(* No assertion fails in any of the threads, as long as none of them is      *)
(* interrupted between the two halves of remove_finished_seqs.               *)
NoInternalError == switches \/ error = "none"

(* A stage's copy of a sequence that is not in flight is the engine's; only  *)
(* where a stop string ended the engine's does the stage's stay PAUSED, with *)
(* the same tokens.                                                          *)
StagesAgree ==
  out_pc = "get" /\ phase = "idle" =>
    \A s \in Requests :
      (\A i \in DOMAIN InFlight : s \notin SeqsOf(InFlight[i].items)) =>
        wsq[s] = IF s \in string_stopped THEN set_status(sq[s], "paused") ELSE sq[s]

(* "seq is preempted: this can happen with pipeline parallel": the tokens of *)
(* a batch are not applied to a sequence preempted since it was scheduled.   *)
PreemptedOutputDropped ==
  [][out_pc = "sequences" /\ out_pc' = "free" =>
       \A s \in SeqsOf(out.items) : preemptions[s] # out.at[s] => sq'[s] = sq[s]]_vars

(* "assert seq.is_executing()": the sequence schedule() preempts still runs, *)
(* or is about to.                                                           *)
PreemptsExecuting == [][\A s \in Requests : RunningPreempt(s) => error' = "none"]_vars

(* Every request gets its final output eventually, as long as the list that  *)
(* remove_finished_seqs assigns is the one it was computed from.             *)
RequestsServed == \A s \in Requests : Live(s) /\ ~switches ~> s \in reported

(* A finished sequence leaves the scheduler and its blocks are free again,   *)
(* so that has_unfinished_requests turns false.                              *)
FinishedLeave ==
  \A s \in Requests :
    sq[s].status = "finished" ~> s \notin Range(running \o kept) /\ block_tables[s] = 0
=============================================================================
