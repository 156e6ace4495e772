---------------------------- MODULE AsyncEngine ----------------------------
(***************************************************************************)
(* AsyncLLMEngine (src/sarathi-lean/sarathi/engine/async_llm_engine.py):   *)
(* client coroutines add requests and read their streams, a background     *)
(* task hands new requests to the engine, calls engine.step in an executor *)
(* and puts the outputs into the streams.                                  *)
(*                                                                         *)
(* All coroutines share one event loop: the code between two awaits is one *)
(* step here.  The task awaits while engine.step runs ("stepping") and at  *)
(* sleep(0) ("ready"); clients run in between.  The callback that reports  *)
(* the end of the task is one more entry of the event loop's queue.        *)
(*                                                                         *)
(* engine.step is the contract of ServingEngine: it returns outputs for    *)
(* some of the sequences it has, or raises.                                *)
(***************************************************************************)
EXTENDS Integers, Sequences, Functions

CONSTANTS
  MaxCalls,      (* bound: calls of add_request                              *)
  Ids,           (* request ids                                              *)
  ReuseIds,      (* environment: a client may send an id that was used       *)
  Invalid,       (* ids whose request engine.add_request refuses, ValueError *)
  NumOutputs,    (* bound: outputs a request gets, the last one is final     *)
  Failures       (* environment: how engine.step may fail                    *)

ASSUME CallsAssumption ==
  /\ MaxCalls \in Nat \ {0}
  /\ Ids # {}
  /\ NumOutputs \in Nat \ {0}
  /\ ReuseIds \in BOOLEAN
  /\ Invalid \subseteq Ids
  /\ Failures \subseteq {"exception", "timeout"}

Calls == 1 .. MaxCalls

VARIABLES
  num_calls,      (* calls of add_request so far; each has a stream          *)
  id,             (* call -> its request id                                  *)
  stream,         (* call -> its AsyncStream: _queue and _finished           *)
  client,         (* call -> what its coroutine is doing                     *)
  complete,       (* ghost: calls whose client has read the final output     *)
  request_streams,   (* request id -> call; 0: none                          *)
  new_requests,      (* _new_requests                                        *)
  finished_requests, (* _finished_requests (read as a set)                   *)
  loop,           (* background task: none, ready, stepping, done            *)
  callbacks,      (* ended tasks whose callback has not run yet              *)
  errored,        (* _errored_with is set                                    *)
  seqs            (* id -> outputs its sequence in the engine still gets     *)

tracker == <<request_streams, new_requests, finished_requests>>
clients == <<num_calls, id, client, complete>>
task == <<loop, callbacks, errored>>
vars == <<clients, stream, tracker, task, seqs>>

Init ==
  /\ num_calls = 0
  /\ id = [n \in Calls |-> CHOOSE i \in Ids : TRUE]
  /\ stream = [n \in Calls |-> [queue |-> <<>>, finished |-> FALSE]]
  /\ client = [n \in Calls |-> "none"]
  /\ complete = {}
  /\ request_streams = [i \in Ids |-> 0]
  /\ new_requests = <<>>
  /\ finished_requests = {}
  /\ loop = "none"
  /\ callbacks = 0
  /\ errored = FALSE
  /\ seqs = [i \in Ids |-> 0]

is_running == loop \in {"ready", "stepping"}

-----------------------------------------------------------------------------
(* Streams and tracker. *)

(* AsyncStream.put: dropped once the stream is finished. *)
put(s, item) ==
  IF s.finished THEN s ELSE [queue |-> Append(s.queue, item), finished |-> FALSE]

(* AsyncStream.finish *)
finish(s) == [queue |-> Append(s.queue, "stop"), finished |-> TRUE]

(* The tracker has the stream of call n under its request id.  A stream is   *)
(* never under another id, so that what is done to the streams of several    *)
(* ids is done to each of them by itself.                                    *)
Tracked(n) == request_streams[id[n]] = n

(* Mutant: the stream is noted in place of the request id. *)
abort_request_Stream(st, ids) ==
  /\ stream' = [n \in Calls |-> IF Tracked(n) /\ id[n] \in ids /\ ~st[n].finished
                                THEN finish(st[n]) ELSE st[n]]
  /\ finished_requests' = finished_requests \cup {request_streams[i] : i \in ids}

(* abort_request for each of ids, when the streams are st. *)
abort_request(st, ids) ==
  /\ stream' = [n \in Calls |-> IF Tracked(n) /\ id[n] \in ids /\ ~st[n].finished
                                THEN finish(st[n]) ELSE st[n]]
  /\ finished_requests' = finished_requests \cup ids

(* Mutant: the request is aborted before its last output is put, which is    *)
(* then dropped.                                                             *)
process_request_output_Late(outs) ==
  abort_request([n \in Calls |-> IF Tracked(n) /\ id[n] \in outs /\ seqs[id[n]] > 1
                                 THEN put(stream[n], "output") ELSE stream[n]],
                {i \in outs : request_streams[i] # 0 /\ seqs[i] = 1})

(* process_request_output for the output of each of outs.  An output without *)
(* a stream belongs to an aborted request.                                   *)
process_request_output(outs) ==
  abort_request([n \in Calls |-> IF Tracked(n) /\ id[n] \in outs
                                 THEN put(stream[n], IF seqs[id[n]] = 1 THEN "final" ELSE "output")
                                 ELSE stream[n]],
                {i \in outs : request_streams[i] # 0 /\ seqs[i] = 1})

(* Mutant: only the stream that was added last is told. *)
propagate_exception_One ==
  abort_request([n \in Calls |-> IF Tracked(n) /\ n = num_calls
                                 THEN put(stream[n], "error") ELSE stream[n]],
                {i \in Ids : request_streams[i] # 0 /\ request_streams[i] = num_calls})

propagate_exception ==
  abort_request([n \in Calls |-> IF Tracked(n) THEN put(stream[n], "error") ELSE stream[n]],
                {i \in Ids : request_streams[i] # 0})

-----------------------------------------------------------------------------
(* Clients. *)

Unused(i) == \A m \in 1 .. num_calls : id[m] # i

(* An id no call has used; which one does not matter. *)
FreshId(i) == Unused(i) /\ i = CHOOSE j \in Ids : Unused(j)

(* add_request: starts the background task with a new tracker if none runs,  *)
(* unless an error was recorded; refuses an id that has a stream.            *)
AddRequest(i) ==
  LET n == num_calls + 1
      starts == ~is_running
  IN  /\ num_calls < MaxCalls
      /\ ReuseIds \/ FreshId(i)
      /\ num_calls' = n
      /\ id' = [id EXCEPT ![n] = i]
      /\ IF starts /\ errored
         THEN /\ client' = [client EXCEPT ![n] = "refused"]
              /\ UNCHANGED <<loop, tracker>>
         ELSE /\ loop' = IF starts THEN "ready" ELSE loop
              /\ IF ~starts /\ request_streams[i] # 0
                 THEN /\ client' = [client EXCEPT ![n] = "refused"]
                      /\ UNCHANGED tracker
                 ELSE /\ client' = [client EXCEPT ![n] = "reading"]
                      /\ new_requests' = IF starts THEN <<n>> ELSE Append(new_requests, n)
                      /\ request_streams' = IF starts THEN [j \in Ids |-> 0] ELSE request_streams
                      /\ finished_requests' = IF starts THEN {} ELSE finished_requests
      /\ UNCHANGED <<complete, stream, callbacks, errored, seqs>>

(* What __anext__ leaves of a stream. *)
anext(s) == [queue |-> Tail(s.queue), finished |-> s.finished]

(* The client takes the next item; an exception makes it abort its request. *)
Read(n) ==
  LET item == Head(stream[n].queue)
      rest == [stream EXCEPT ![n] = anext(@)]
  IN  /\ client[n] = "reading"
      /\ stream[n].queue # <<>>
      /\ client' = [client EXCEPT ![n] = CASE item = "stop" -> "ended"
                                           [] item = "error" -> "failed"
                                           [] OTHER -> "reading"]
      /\ complete' = IF item = "final" THEN complete \cup {n} ELSE complete
      /\ abort_request(rest, IF item = "error" THEN {id[n]} ELSE {})
      /\ UNCHANGED <<num_calls, id, request_streams, new_requests, task, seqs>>

(* The client's task is cancelled, or it disconnects and the server calls    *)
(* abort, which raises when no background task runs.                         *)
Leave(n) ==
  /\ client[n] = "reading"
  /\ client' = [client EXCEPT ![n] = "left"]
  /\ \/ abort_request(stream, {id[n]})
     \/ ~is_running /\ UNCHANGED <<stream, finished_requests>>
  /\ UNCHANGED <<num_calls, id, complete, request_streams, new_requests, task, seqs>>

-----------------------------------------------------------------------------
(* The background task. *)

(* Mutant: the error is left to the callback. *)
TaskEnds_Unrecorded(error) ==
  /\ loop' = "done"
  /\ callbacks' = callbacks + 1
  /\ UNCHANGED errored

(* The task ends with an exception; its callback is queued.  Only after a    *)
(* timeout has the error been recorded before.                               *)
TaskEnds(error) ==
  /\ loop' = "done"
  /\ callbacks' = callbacks + 1
  /\ errored' = (errored \/ error)

(* Mutant: one new request per iteration, the others are dropped. *)
TakenRequests_First == {k \in DOMAIN new_requests : k = 1}

(* New requests, by their place in the queue, that have not been aborted     *)
(* meanwhile.                                                                *)
TakenRequests == {k \in DOMAIN new_requests : id[new_requests[k]] \notin finished_requests}

(* engine.add_request of the k-th one raises: a ValueError, which ends in a  *)
(* KeyError ("request_id" is no key of the request), or the assertion that   *)
(* the engine does not have the id.                                          *)
Refused(k) ==
  LET i == id[new_requests[k]]
  IN  \/ i \in Invalid
      \/ seqs[i] > 0
      \/ \E j \in TakenRequests : j < k /\ id[new_requests[j]] = i

RefusedRequests == {k \in TakenRequests : Refused(k)}

TakenFor(i) == {k \in TakenRequests : id[new_requests[k]] = i}

(* The stream of id i is the one taken last. *)
TakenStream(i) == new_requests[CHOOSE k \in TakenFor(i) : \A j \in TakenFor(i) : j <= k]

(* get_new_and_finished_requests, then engine.add_request for every new one  *)
(* up to the first that is refused, which ends the task; _engine_abort does  *)
(* nothing.                                                                  *)
IterationStart ==
  /\ loop = "ready"
  /\ stream' = [n \in Calls |-> IF n \in Range(new_requests) /\ id[n] \in finished_requests
                                THEN finish(stream[n]) ELSE stream[n]]
  /\ finished_requests' = {}
  /\ request_streams' = [i \in Ids |-> IF TakenFor(i) # {} THEN TakenStream(i)
                                       ELSE IF i \in finished_requests THEN 0
                                       ELSE request_streams[i]]
  /\ new_requests' = <<>>
  /\ seqs' = [i \in Ids |-> IF \E k \in TakenFor(i) : \A j \in RefusedRequests : k < j
                            THEN NumOutputs ELSE seqs[i]]
  /\ IF RefusedRequests = {} THEN loop' = "stepping" /\ UNCHANGED <<callbacks, errored>>
                             ELSE TaskEnds(FALSE)
  /\ UNCHANGED clients

(* engine.step returns outputs for some sequences; it makes progress. *)
StepReturns ==
  LET live == {i \in Ids : seqs[i] > 0}
  IN  /\ loop = "stepping"
      /\ \E outs \in SUBSET live :
           /\ live # {} => outs # {}
           /\ process_request_output(outs)
           /\ seqs' = [i \in Ids |-> IF i \in outs THEN seqs[i] - 1 ELSE seqs[i]]
      /\ loop' = "ready"
      /\ UNCHANGED <<clients, request_streams, new_requests, callbacks, errored>>

(* engine.step raises, or takes longer than ENGINE_ITERATION_TIMEOUT_S. *)
StepFails ==
  /\ loop = "stepping"
  /\ \E f \in Failures : TaskEnds(f = "timeout")
  /\ UNCHANGED <<clients, stream, tracker, seqs>>

(* _log_task_completion with _error_callback. *)
TaskCallback ==
  /\ callbacks > 0
  /\ callbacks' = callbacks - 1
  /\ errored' = TRUE
  /\ propagate_exception
  /\ UNCHANGED <<clients, request_streams, new_requests, loop, seqs>>

Task == IterationStart \/ StepReturns \/ StepFails \/ TaskCallback

Next ==
  \/ \E i \in Ids : AddRequest(i)
  \/ \E n \in Calls : Read(n) \/ Leave(n)
  \/ Task

Spec == Init /\ [][Next]_vars

(* The event loop runs every ready coroutine and callback; a client goes on  *)
(* reading.  No client has to call or to leave.                              *)
FairSpec ==
  /\ Spec
  /\ WF_vars(IterationStart \/ StepReturns)
  /\ WF_vars(TaskCallback)
  /\ \A n \in Calls : WF_vars(Read(n))

-----------------------------------------------------------------------------
(* What a stream delivers: an output, the last one, StopAsyncIteration, or   *)
(* the exception of the task.                                                *)
Items == {"output", "final", "stop", "error"}

(* Types of the engine's state. *)
TypeOK ==
  /\ num_calls \in 0 .. MaxCalls
  /\ id \in [Calls -> Ids]
  /\ stream \in [Calls -> [queue : Seq(Items), finished : BOOLEAN]]
  /\ client \in [Calls -> {"none", "reading", "refused", "left", "ended", "failed"}]
  /\ complete \subseteq Calls
  /\ request_streams \in [Ids -> 0 .. MaxCalls]
  /\ new_requests \in Seq(Calls)
  /\ finished_requests \subseteq Ids
  /\ loop \in {"none", "ready", "stepping", "done"}
  /\ callbacks \in Nat
  /\ errored \in BOOLEAN
  /\ seqs \in [Ids -> 0 .. NumOutputs]

Waits(n) == client[n] = "reading" /\ ~stream[n].finished

(* A client whose stream is open is not forgotten: its request is queued, or *)
(* its stream is the one of its id and the engine works on it.               *)
OpenStreamsTracked ==
  \A n \in Calls :
    Waits(n) => \/ n \in Range(new_requests)
                \/ request_streams[id[n]] = n /\ (seqs[id[n]] > 0 \/ callbacks > 0)

(* A stream that ends normally has delivered the final output. *)
EndedComplete == \A n \in Calls : client[n] = "ended" => n \in complete

(* Every client that reads comes to the end of its stream, by the final      *)
(* output or by an exception, however clients come, go and lag behind, also  *)
(* when an iteration times out; only a request the background task had not   *)
(* taken over when it failed is left waiting.                                *)
StreamsEnd ==
  \A n \in Calls :
    client[n] = "reading" ~>
      client[n] # "reading" \/ (loop = "done" /\ n \in Range(new_requests))

(* "Propagate an exception to request streams (all if request_id is None)":  *)
(* once the failure of the task has been reported, no client waits.          *)
ErrorReachesAll == loop = "done" /\ callbacks = 0 => \A n \in Calls : ~Waits(n)

(* "Background loop has errored already.": a task that failed is not started *)
(* again, with a new tracker.                                                *)
NoRestartAfterError == [][loop = "done" => loop' = "done"]_vars

(* "Task finished unexpectedly. This should never happen!": as long as       *)
(* engine.step does not fail, the background task goes on.                   *)
TaskNeverEnds == loop # "done"
============================================================================
