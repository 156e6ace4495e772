------------------------- MODULE AsyncEngine_proofs -------------------------
(***************************************************************************)
(* Proofs about the asynchronous engine: types for every environment; that *)
(* no client is forgotten, that a stream ends normally only after the      *)
(* final output, and that a task that failed is not started again, for     *)
(* clients that do not reuse ids and an engine whose step returns or times *)
(* out (the environment that the run "streams" checks).                    *)
(***************************************************************************)
EXTENDS AsyncEngine, WellFoundedInduction, TLAPS

-----------------------------------------------------------------------------
(* Types. *)

Streams == [queue : Seq(Items), finished : BOOLEAN]

(* A set of places in a queue has a last one. *)
LEMMA LastPlace ==
  ASSUME NEW L \in Nat, NEW S \in SUBSET (1 .. L), S # {}
  PROVE  \E k \in S : \A j \in S : j <= k
  <1> DEFINE T == {L - k : k \in S}
             R == {ss \in Nat \X Nat : ss[1] < ss[2]}
  <1>1. IsWellFoundedOn(R, Nat)
    BY NatLessThanWellFounded, Zenon DEF OpToRel
  <1>2. T \in SUBSET Nat /\ T # {}
    <2>1. \A k \in S : k \in Nat /\ L - k \in Nat
      OBVIOUS
    <2>2. QED  BY <2>1
  <1>3. PICK x \in T : \A y \in T : ~(<<y, x>> \in R)
    <2> HIDE DEF R, T
    <2> QED  BY <1>1, <1>2, WFMin
  <1>4. \A y \in T : x <= y
    <2> TAKE y \in T
    <2>1. x \in Nat /\ y \in Nat
      <3> HIDE DEF T
      <3> QED  BY <1>2
    <2>2. ~(y < x)
      <3>1. <<y, x>> \notin R
        BY <1>3
      <3>2. QED  BY <2>1, <3>1
    <2>3. QED  BY <2>1, <2>2
  <1>5. PICK k \in S : x = L - k
    OBVIOUS
  <1>6. \A j \in S : j <= k
    <2> TAKE j \in S
    <2>1. x <= L - j
      BY <1>4
    <2>2. QED  BY <1>5, <2>1
  <1>7. QED  BY <1>6

(* The types of the tracker, without those of the streams. *)
LEMMA TrackerTypes ==
  ASSUME TypeOK
  PROVE  /\ num_calls \in Nat /\ num_calls <= MaxCalls
         /\ id \in [Calls -> Ids]
         /\ request_streams \in [Ids -> 0 .. MaxCalls]
         /\ new_requests \in Seq(Calls)
         /\ \A m \in Calls : m \in Nat /\ m # 0 /\ id[m] \in Ids
  <1>1. /\ num_calls \in 0 .. MaxCalls
        /\ id \in [Calls -> Ids]
        /\ request_streams \in [Ids -> 0 .. MaxCalls]
        /\ new_requests \in Seq(Calls)
    BY Zenon DEF TypeOK
  <1>2. QED  BY <1>1, CallsAssumption DEF Calls

LEMMA TakenStreamTaken ==
  ASSUME TypeOK, NEW i, TakenFor(i) # {}
  PROVE  \E k \in TakenFor(i) : TakenStream(i) = new_requests[k]
  <1>1. Len(new_requests) \in Nat /\ TakenFor(i) \in SUBSET (1 .. Len(new_requests))
    BY DEF TypeOK, TakenFor, TakenRequests
  <1>2. \E k \in TakenFor(i) : \A j \in TakenFor(i) : j <= k
    BY <1>1, LastPlace
  <1>3. (CHOOSE k \in TakenFor(i) : \A j \in TakenFor(i) : j <= k) \in TakenFor(i)
    BY <1>2, Zenon
  <1>4. QED  BY <1>3, Zenon DEF TakenStream

LEMMA StreamTypes ==
  ASSUME NEW s \in Streams
  PROVE  /\ finish(s) \in Streams
         /\ \A item \in Items : put(s, item) \in Streams
  BY DEF Streams, Items, finish, put

LEMMA AbortTypes ==
  ASSUME TypeOK, NEW st \in [Calls -> Streams], NEW ids \in SUBSET Ids, abort_request(st, ids)
  PROVE  stream' \in [Calls -> Streams] /\ finished_requests' \subseteq Ids
  BY StreamTypes DEF TypeOK, abort_request

LEMMA TypeInit == Init => TypeOK
  <1>1. (CHOOSE i \in Ids : TRUE) \in Ids
    BY CallsAssumption, Zenon
  <1>2. Init => id \in [Calls -> Ids]
    BY <1>1, Zenon DEF Init
  <1>3. Init => stream \in [Calls -> [queue : Seq(Items), finished : BOOLEAN]]
    BY DEF Init, Items
  <1>4. Init => new_requests \in Seq(Calls)
    BY DEF Init
  <1>5. Init => /\ request_streams \in [Ids -> 0 .. MaxCalls]
                /\ seqs \in [Ids -> 0 .. NumOutputs]
                /\ num_calls \in 0 .. MaxCalls
    BY CallsAssumption DEF Init
  <1>6. Init => client \in [Calls -> {"none", "reading", "refused", "left", "ended", "failed"}]
    BY DEF Init
  <1>7. Init => callbacks \in Nat
    BY DEF Init
  <1>8. Init => errored \in BOOLEAN
    BY Zenon DEF Init
  <1>9. QED  BY <1>2, <1>3, <1>4, <1>5, <1>6, <1>7, <1>8, Zenon DEF Init, TypeOK

LEMMA TypeStep == TypeOK /\ [Next]_vars => TypeOK'
  <1> SUFFICES ASSUME TypeOK, [Next]_vars  PROVE TypeOK'
    OBVIOUS
  <1>1. stream \in [Calls -> Streams]
    BY DEF TypeOK, Streams
  <1>2. ASSUME NEW i \in Ids, AddRequest(i)  PROVE TypeOK'
    <2>1. num_calls + 1 \in Calls /\ num_calls' \in 0 .. MaxCalls
      BY <1>2, CallsAssumption DEF TypeOK, AddRequest, Calls
    <2>2. id' \in [Calls -> Ids]
      BY <1>2, <2>1 DEF TypeOK, AddRequest
    <2>3. /\ client' \in [Calls -> {"none", "reading", "refused", "left", "ended", "failed"}]
          /\ loop' \in {"none", "ready", "stepping", "done"}
          /\ request_streams' \in [Ids -> 0 .. MaxCalls]
          /\ new_requests' \in Seq(Calls)
          /\ finished_requests' \subseteq Ids
      <3>1. <<num_calls + 1>> \in Seq(Calls) /\ Append(new_requests, num_calls + 1) \in Seq(Calls)
        BY <2>1 DEF TypeOK
      <3>2. 0 \in 0 .. MaxCalls
        BY CallsAssumption
      <3>3. QED  BY <1>2, <2>1, <3>1, <3>2 DEF TypeOK, AddRequest, tracker
    <2>4. QED  BY <1>2, <2>1, <2>2, <2>3 DEF TypeOK, AddRequest
  <1>3. ASSUME NEW n \in Calls, Read(n)  PROVE TypeOK'
    <2> DEFINE item == Head(stream[n].queue)
               rest == [stream EXCEPT ![n] = anext(@)]
    <2>1. rest \in [Calls -> Streams]
      BY <1>1, <1>3 DEF Read, Streams, anext
    <2>2. stream' \in [Calls -> Streams] /\ finished_requests' \subseteq Ids
      <3>1. (IF item = "error" THEN {id[n]} ELSE {}) \in SUBSET Ids
        BY DEF TypeOK
      <3>2. QED  BY <1>3, <2>1, <3>1, AbortTypes DEF Read
    <2>3. QED  BY <1>3, <2>2 DEF TypeOK, Read, Streams, task
  <1>4. ASSUME NEW n \in Calls, Leave(n)  PROVE TypeOK'
    <2>1. {id[n]} \in SUBSET Ids
      BY DEF TypeOK
    <2>2. stream' \in [Calls -> Streams] /\ finished_requests' \subseteq Ids
      BY <1>1, <1>4, <2>1, AbortTypes DEF Leave, TypeOK
    <2>3. QED  BY <1>4, <2>2 DEF TypeOK, Leave, Streams, task
  <1>5. CASE IterationStart
    <2>1. stream' \in [Calls -> Streams]
      BY <1>1, <1>5, StreamTypes DEF IterationStart
    <2>2. request_streams' \in [Ids -> 0 .. MaxCalls]
      <3>1. ASSUME NEW i \in Ids, TakenFor(i) # {}  PROVE TakenStream(i) \in 0 .. MaxCalls
        <4>1. PICK k \in TakenFor(i) : TakenStream(i) = new_requests[k]
          BY <3>1, TakenStreamTaken
        <4>2. new_requests[k] \in Calls
          BY DEF TypeOK, TakenFor, TakenRequests
        <4>3. QED  BY <4>1, <4>2, CallsAssumption DEF Calls
      <3>2. 0 \in 0 .. MaxCalls
        BY CallsAssumption
      <3>3. QED  BY <1>5, <3>1, <3>2 DEF IterationStart, TypeOK
    <2>3. /\ seqs' \in [Ids -> 0 .. NumOutputs] /\ callbacks' \in Nat /\ errored' \in BOOLEAN
          /\ loop' \in {"none", "ready", "stepping", "done"}
      BY <1>5, CallsAssumption DEF IterationStart, TypeOK, TaskEnds
    <2>4. QED  BY <1>5, <2>1, <2>2, <2>3 DEF IterationStart, TypeOK, clients, Streams
  <1>6. CASE StepReturns
    <2>1. PICK outs \in SUBSET {i \in Ids : seqs[i] > 0} :
            /\ process_request_output(outs)
            /\ seqs' = [i \in Ids |-> IF i \in outs THEN seqs[i] - 1 ELSE seqs[i]]
      BY <1>6 DEF StepReturns
    <2>2. stream' \in [Calls -> Streams] /\ finished_requests' \subseteq Ids
      <3> DEFINE st == [n \in Calls |-> IF Tracked(n) /\ id[n] \in outs
                               THEN put(stream[n], IF seqs[id[n]] = 1 THEN "final" ELSE "output")
                               ELSE stream[n]]
      <3>1. st \in [Calls -> Streams]
        BY <1>1, StreamTypes DEF Items
      <3>2. {i \in outs : request_streams[i] # 0 /\ seqs[i] = 1} \in SUBSET Ids
        OBVIOUS
      <3>3. QED  BY <2>1, <3>1, <3>2, AbortTypes DEF process_request_output
    <2>3. seqs' \in [Ids -> 0 .. NumOutputs]
      BY <2>1, CallsAssumption DEF TypeOK
    <2>4. QED  BY <1>6, <2>2, <2>3 DEF StepReturns, TypeOK, clients, Streams
  <1>7. CASE StepFails
    BY <1>7 DEF StepFails, TaskEnds, TypeOK, clients, tracker
  <1>8. CASE TaskCallback
    <2>1. stream' \in [Calls -> Streams] /\ finished_requests' \subseteq Ids
      <3> DEFINE st == [n \in Calls |-> IF Tracked(n) THEN put(stream[n], "error") ELSE stream[n]]
      <3>1. st \in [Calls -> Streams]
        BY <1>1, StreamTypes DEF Items
      <3>2. {i \in Ids : request_streams[i] # 0} \in SUBSET Ids
        OBVIOUS
      <3>3. QED  BY <1>8, <3>1, <3>2, AbortTypes DEF TaskCallback, propagate_exception
    <2>2. QED  BY <1>8, <2>1 DEF TaskCallback, TypeOK, clients, Streams
  <1>9. CASE UNCHANGED vars
    BY <1>9 DEF TypeOK, vars, clients, tracker, task
  <1>10. QED  BY <1>2, <1>3, <1>4, <1>5, <1>6, <1>7, <1>8, <1>9 DEF Next, Task

(* What the variables of the engine hold, whatever ids clients send and      *)
(* however engine.step fails.                                                *)
THEOREM TypeCorrect == Spec => []TypeOK
  BY TypeInit, TypeStep, PTL DEF Spec

-----------------------------------------------------------------------------
(* The inductive invariant. *)

(* A call has its own id, and before it is made its stream is new. *)
CallsInv ==
  /\ \A m, n \in 1 .. num_calls : id[m] = id[n] => m = n
  /\ \A n \in Calls : n > num_calls =>
       client[n] = "none" /\ stream[n] = [queue |-> <<>>, finished |-> FALSE]

(* A queued request is known to nobody but its client: the tracker has no    *)
(* stream for its id and the engine no sequence, and its id has been noted   *)
(* as aborted only by the client itself, which then has stopped reading.     *)
QueuedInv ==
  /\ \A j, k \in DOMAIN new_requests : new_requests[j] = new_requests[k] => j = k
  /\ \A n \in Range(new_requests) :
       /\ n <= num_calls
       /\ seqs[id[n]] = 0
       /\ request_streams[id[n]] = 0
       /\ id[n] \in finished_requests => client[n] # "reading"

(* The tracker's streams are under their own ids, and one whose id has been  *)
(* noted as aborted is finished; the ids noted and the engine's sequences    *)
(* come from calls.                                                          *)
TrackedInv ==
  /\ \A i \in Ids : request_streams[i] # 0 =>
       /\ request_streams[i] <= num_calls
       /\ id[request_streams[i]] = i
       /\ i \in finished_requests => stream[request_streams[i]].finished
  /\ \A i \in Ids : seqs[i] > 0 \/ i \in finished_requests => ~Unused(i)

(* The task starts with the first call, and ends only with a recorded error. *)
TaskInv ==
  /\ loop = "none" => num_calls = 0
  /\ loop = "done" <=> errored
  /\ callbacks > 0 => loop = "done"

(* Before the end of a stream that is read come an exception or the final    *)
(* output, unless the client has read that already.                          *)
EndsWell(q, done) ==
  \A k \in DOMAIN q :
    q[k] = "stop" => done \/ \E j \in 1 .. k - 1 : q[j] \in {"final", "error"}

StopInv == \A n \in Calls : client[n] = "reading" => EndsWell(stream[n].queue, n \in complete)

EngineFacts ==
  /\ CallsInv
  /\ QueuedInv
  /\ TrackedInv
  /\ TaskInv
  /\ OpenStreamsTracked
  /\ StopInv
  /\ EndedComplete

EngineInv == TypeOK /\ EngineFacts

-----------------------------------------------------------------------------
(* Streams. *)

LEMMA StreamFields ==
  ASSUME NEW s \in Streams
  PROVE  /\ s.queue \in Seq(Items) /\ s.finished \in BOOLEAN
         /\ finish(s).queue = Append(s.queue, "stop") /\ finish(s).finished
         /\ anext(s).queue = Tail(s.queue) /\ anext(s).finished = s.finished
         /\ s.finished => \A item \in Items : put(s, item) = s
         /\ ~s.finished => \A item \in Items : /\ put(s, item).queue = Append(s.queue, item)
                                               /\ ~put(s, item).finished
  BY DEF Streams, finish, put, anext

LEMMA EndsWellPut ==
  ASSUME NEW q \in Seq(Items), NEW d \in BOOLEAN, EndsWell(q, d),
         NEW item \in {"output", "final", "error"}
  PROVE  EndsWell(Append(q, item), d)
  BY DEF EndsWell, Items

LEMMA EndsWellStop ==
  ASSUME NEW q \in Seq(Items), NEW d \in BOOLEAN, EndsWell(q, d),
         NEW item \in {"final", "error"}
  PROVE  EndsWell(Append(Append(q, item), "stop"), d)
  <1> DEFINE r == Append(Append(q, item), "stop")
  <1>1. /\ Len(q) \in Nat /\ DOMAIN q = 1 .. Len(q) /\ DOMAIN r = 1 .. Len(q) + 2
        /\ r[Len(q) + 1] = item
        /\ \A k \in 1 .. Len(q) : r[k] = q[k]
        /\ item # "stop"
    BY DEF Items
  <1> HIDE DEF r
  <1>2. QED  BY <1>1 DEF EndsWell

LEMMA EndsWellTail ==
  ASSUME NEW q \in Seq(Items), NEW d \in BOOLEAN, EndsWell(q, d), q # <<>>
  PROVE  /\ Head(q) = "stop" => d
         /\ Head(q) \in {"output", "final"} => EndsWell(Tail(q), d \/ Head(q) = "final")
  <1> DEFINE r == Tail(q)
  <1>1. /\ Len(q) \in Nat \ {0} /\ DOMAIN q = 1 .. Len(q) /\ DOMAIN r = 1 .. Len(q) - 1
        /\ \A k \in 1 .. Len(q) - 1 : r[k] = q[k + 1]
        /\ Head(q) = q[1]
    OBVIOUS
  <1> HIDE DEF r
  <1>2. Head(q) = "stop" => d
    BY <1>1 DEF EndsWell
  <1>3. ASSUME Head(q) \in {"output", "final"}, NEW k \in DOMAIN r, r[k] = "stop", ~d
        PROVE  Head(q) = "final" \/ \E j \in 1 .. k - 1 : r[j] \in {"final", "error"}
    <2>1. PICK j \in 1 .. k : q[j] \in {"final", "error"}
      BY <1>1, <1>3 DEF EndsWell
    <2>2. CASE j = 1
      BY <1>1, <1>3, <2>1, <2>2
    <2>3. CASE j > 1
      <3>1. j - 1 \in 1 .. k - 1 /\ r[j - 1] = q[j]
        BY <1>1, <2>3
      <3>2. QED  BY <2>1, <3>1
    <2>4. QED  BY <2>2, <2>3
  <1>4. QED  BY <1>2, <1>3 DEF EndsWell, r

(* Who is queued. *)
LEMMA QueuedIff ==
  ASSUME TypeOK, NEW n
  PROVE  /\ n \in Range(new_requests) <=> \E k \in DOMAIN new_requests : new_requests[k] = n
         /\ n \in Range(new_requests) => n \in Calls
  <1>1. n \in Range(new_requests) <=> \E k \in DOMAIN new_requests : new_requests[k] = n
    BY Zenon DEF Range
  <1>2. \A k \in DOMAIN new_requests : new_requests[k] \in Calls
    BY TrackerTypes
  <1>3. QED  BY <1>1, <1>2

LEMMA AppendPlaces ==
  ASSUME NEW S, NEW q \in Seq(S), NEW x \in S
  PROVE  /\ Len(q) \in Nat /\ DOMAIN q = 1 .. Len(q)
         /\ DOMAIN Append(q, x) = 1 .. Len(q) + 1
         /\ Append(q, x)[Len(q) + 1] = x
         /\ \A k \in 1 .. Len(q) : Append(q, x)[k] = q[k]
  OBVIOUS

LEMMA QueuedAppend ==
  ASSUME NEW S, NEW q \in Seq(S), NEW x \in S
  PROVE  Range(Append(q, x)) = Range(q) \cup {x}
  <1> DEFINE r == Append(q, x)
  <1>1. /\ Len(q) \in Nat /\ DOMAIN q = 1 .. Len(q) /\ DOMAIN r = 1 .. Len(q) + 1
        /\ r[Len(q) + 1] = x
        /\ \A k \in 1 .. Len(q) : r[k] = q[k]
    BY AppendPlaces
  <1> HIDE DEF r
  <1>2. \A y : y \in Range(r) <=> y \in Range(q) \/ y = x
    BY <1>1 DEF Range
  <1>3. QED  BY <1>2 DEF r

(* Two calls that have been made have two ids. *)
LEMMA OwnId ==
  ASSUME TypeOK, CallsInv, TrackedInv, NEW m \in Calls, NEW n \in 1 .. num_calls,
         id[m] = id[n], Tracked(m) \/ m \in 1 .. num_calls
  PROVE  m = n
  <1>1. m \in 1 .. num_calls
    <2> USE DEF Tracked
    <2>1. CASE Tracked(m)
      <3>1. id[m] \in Ids /\ request_streams[id[m]] = m /\ m # 0
        BY <2>1, TrackerTypes
      <3>2. m <= num_calls
        BY <3>1 DEF TrackedInv
      <3>3. QED  BY <3>1, <3>2, TrackerTypes
    <2>2. QED  BY <2>1
  <1>2. QED  BY <1>1 DEF CallsInv

(* What abort_request of a client's own id does. *)
LEMMA AbortOwn ==
  ASSUME TypeOK, CallsInv, TrackedInv, NEW n \in Calls, n <= num_calls,
         NEW st \in [Calls -> Streams], abort_request(st, {id[n]})
  PROVE  /\ \A m \in Calls : m # n => stream'[m] = st[m]
         /\ stream'[n] = IF Tracked(n) /\ ~st[n].finished THEN finish(st[n]) ELSE st[n]
         /\ finished_requests' = finished_requests \cup {id[n]}
  <1>1. n \in 1 .. num_calls
    BY CallsAssumption DEF TypeOK, Calls
  <1>2. ASSUME NEW m \in Calls, Tracked(m), id[m] \in {id[n]}  PROVE m = n
    BY <1>1, <1>2, OwnId
  <1>3. QED  BY <1>2 DEF abort_request

-----------------------------------------------------------------------------
(* The steps, one lemma per action. *)

(* Clients do not reuse ids or send requests that the engine refuses; the    *)
(* engine's step returns, or takes too long.                                 *)
Orderly == ~ReuseIds /\ Invalid = {} /\ Failures \subseteq {"timeout"}

LEMMA AddRequestStep ==
  ASSUME Orderly, TypeOK, TypeOK', EngineFacts, NEW i \in Ids, AddRequest(i)
  PROVE  EngineFacts'
  <1> DEFINE n == num_calls + 1
             starts == ~is_running
  <1>1. /\ n \in Calls /\ num_calls \in Nat /\ num_calls' = n
        /\ \A m \in Calls : m \in 1 .. num_calls \/ m = n \/ m > n
        /\ \A m \in Calls : m > num_calls <=> m = n \/ m > n
        /\ 1 .. n = (1 .. num_calls) \cup {n} /\ n \notin 1 .. num_calls
        /\ 1 .. num_calls \subseteq Calls
    <2>1. num_calls \in Nat /\ MaxCalls \in Nat /\ num_calls < MaxCalls /\ num_calls' = n
      BY CallsAssumption DEF AddRequest, TypeOK
    <2>2. QED  BY <2>1 DEF Calls
  <1>2. /\ id' = [id EXCEPT ![n] = i] /\ id \in [Calls -> Ids]
        /\ id'[n] = i /\ \A m \in Calls : m # n => id'[m] = id[m]
        /\ UNCHANGED <<complete, stream, callbacks, errored, seqs>>
        /\ Unused(i)
    BY <1>1 DEF AddRequest, TypeOK, Orderly, FreshId
  <1>3. /\ \A m \in Calls : m # n => client'[m] = client[m]
        /\ client'[n] \in {"reading", "refused"}
    BY <1>1 DEF AddRequest, TypeOK
  <1>4. seqs[i] = 0 /\ request_streams[i] = 0 /\ i \notin finished_requests
    <2>1. ~(seqs[i] > 0) /\ i \notin finished_requests
      BY <1>2 DEF EngineFacts, TrackedInv
    <2>2. request_streams[i] = 0
      <3> SUFFICES ASSUME request_streams[i] # 0  PROVE FALSE
        OBVIOUS
      <3>1. request_streams[i] \in 1 .. num_calls /\ id[request_streams[i]] = i
        <4>1. request_streams[i] \in Nat
          BY CallsAssumption DEF TypeOK
        <4>2. QED  BY <1>1, <4>1 DEF EngineFacts, TrackedInv
      <3>2. QED  BY <1>2, <3>1 DEF Unused
    <2>3. QED  BY <2>1, <2>2 DEF TypeOK
  <1>5. \/ /\ client'[n] = "refused" /\ loop' = loop /\ loop # "none" /\ UNCHANGED tracker
        \/ /\ client'[n] = "reading" /\ loop = "none" /\ loop' = "ready" /\ num_calls = 0
           /\ new_requests' = <<n>>
           /\ request_streams' = [j \in Ids |-> 0] /\ finished_requests' = {}
        \/ /\ client'[n] = "reading" /\ is_running /\ loop' = loop
           /\ new_requests' = Append(new_requests, n)
           /\ UNCHANGED <<request_streams, finished_requests>>
    <2>1. ~is_running => loop = "none" \/ loop = "done"
      BY DEF is_running, TypeOK
    <2>2. loop = "none" => num_calls = 0 /\ ~errored
      BY DEF EngineFacts, TaskInv
    <2>3. loop = "done" => errored
      BY DEF EngineFacts, TaskInv
    <2>4. is_running => loop # "none"
      BY DEF is_running
    <2>5. CASE starts /\ errored
      BY <1>1, <2>2, <2>5 DEF AddRequest, TypeOK
    <2>6. CASE starts /\ ~errored
      BY <1>1, <2>1, <2>2, <2>3, <2>6 DEF AddRequest, TypeOK
    <2>7. CASE is_running
      BY <1>1, <1>4, <2>4, <2>7 DEF AddRequest, TypeOK
    <2>8. QED  BY <2>5, <2>6, <2>7
  <1>queue. Range(<<n>>) = {n} /\ Range(Append(new_requests, n)) = Range(new_requests) \cup {n}
    <2>1. new_requests \in Seq(Calls)
      BY DEF TypeOK
    <2>2. Range(Append(new_requests, n)) = Range(new_requests) \cup {n}
      BY <1>1, <2>1, QueuedAppend
    <2>3. QED  BY <2>2 DEF Range
  <1>6. \A j \in Ids : ~Unused(j) => ~Unused(j)'
    BY <1>1, <1>2 DEF Unused
  <1>7. \A m \in Calls : m \in Range(new_requests)' =>
           \/ m = n
           \/ m \in Range(new_requests) /\ UNCHANGED <<request_streams, finished_requests>>
    <2>1. CASE UNCHANGED tracker
      BY <2>1 DEF tracker
    <2>2. CASE new_requests' = <<n>>
      BY <1>queue, <2>2
    <2>3. CASE /\ new_requests' = Append(new_requests, n)
               /\ UNCHANGED <<request_streams, finished_requests>>
      BY <1>queue, <2>3
    <2>4. QED  BY <1>5, <2>1, <2>2, <2>3
  <1>8. CallsInv'
    <2>1. ASSUME NEW l \in 1 .. n, NEW m \in 1 .. n, id'[l] = id'[m]  PROVE l = m
      BY <1>1, <1>2, <2>1 DEF EngineFacts, CallsInv, Unused
    <2>2. ASSUME NEW m \in Calls, m > n
          PROVE  client'[m] = "none" /\ stream'[m] = [queue |-> <<>>, finished |-> FALSE]
      BY <1>1, <1>2, <1>3, <2>2 DEF EngineFacts, CallsInv
    <2>3. QED  BY <1>1, <2>1, <2>2 DEF CallsInv
  <1>9. QueuedInv'
    <2>1. ASSUME NEW j \in DOMAIN new_requests', NEW k \in DOMAIN new_requests',
                 new_requests'[j] = new_requests'[k]
          PROVE  j = k
      <3>1. \A l \in DOMAIN new_requests : new_requests[l] # n
        BY <1>1, QueuedIff DEF EngineFacts, QueuedInv
      <3>2. CASE new_requests' = new_requests
        BY <2>1, <3>2 DEF EngineFacts, QueuedInv
      <3>3. CASE new_requests' = <<n>>
        BY <2>1, <3>3
      <3>4. CASE new_requests' = Append(new_requests, n)
        <4> DEFINE q == new_requests
                   r == Append(q, n)
        <4>1. /\ Len(q) \in Nat /\ DOMAIN q = 1 .. Len(q) /\ DOMAIN r = 1 .. Len(q) + 1
              /\ r[Len(q) + 1] = n
              /\ \A l \in 1 .. Len(q) : r[l] = q[l]
          <5>1. q \in Seq(Calls)
            BY DEF TypeOK
          <5>2. QED  BY <1>1, <5>1, AppendPlaces
        <4> HIDE DEF r
        <4>2. QED  BY <2>1, <3>1, <3>4, <4>1 DEF EngineFacts, QueuedInv, r
      <3>5. QED  BY <1>5, <3>2, <3>3, <3>4 DEF tracker
    <2>2. ASSUME NEW m \in Range(new_requests)'
          PROVE  /\ m <= n /\ seqs[id'[m]] = 0 /\ request_streams'[id'[m]] = 0
                 /\ id'[m] \in finished_requests' => client'[m] # "reading"
      <3>1. m \in Calls
        BY DEF TypeOK, Range
      <3>2. CASE m = n
        BY <1>1, <1>2, <1>4, <1>5, <3>2 DEF tracker
      <3>3. CASE m # n
        <4>1. m \in Range(new_requests) /\ UNCHANGED <<request_streams, finished_requests>>
          BY <1>7, <3>1, <3>3
        <4>2. /\ m <= num_calls /\ seqs[id[m]] = 0 /\ request_streams[id[m]] = 0
              /\ id[m] \in finished_requests => client[m] # "reading"
          BY <4>1 DEF EngineFacts, QueuedInv
        <4>3. m <= n
          BY <1>1, <3>1, <4>2 DEF Calls
        <4>4. QED  BY <1>2, <1>3, <3>1, <3>3, <4>1, <4>2, <4>3
      <3>4. QED  BY <3>2, <3>3
    <2>3. QED  BY <1>1, <1>2, <2>1, <2>2 DEF QueuedInv
  <1>10. TrackedInv'
    <2>1. ASSUME NEW j \in Ids, request_streams'[j] # 0
          PROVE  /\ request_streams'[j] <= n
                 /\ id'[request_streams'[j]] = j
                 /\ j \in finished_requests' => stream'[request_streams'[j]].finished
      <3>1. UNCHANGED <<request_streams, finished_requests>>
        BY <1>5, <2>1 DEF tracker
      <3>2. request_streams[j] \in Nat /\ request_streams[j] \in Calls
        <4>1. request_streams[j] \in 0 .. MaxCalls /\ request_streams[j] # 0
          BY <2>1, <3>1 DEF TypeOK
        <4>2. QED  BY <4>1, CallsAssumption DEF Calls
      <3>3. QED  BY <1>1, <1>2, <2>1, <3>1, <3>2 DEF EngineFacts, TrackedInv
    <2>2. ASSUME NEW j \in Ids, seqs'[j] > 0 \/ j \in finished_requests'  PROVE ~Unused(j)'
      <3>1. j \in finished_requests' => j \in finished_requests
        BY <1>5 DEF tracker
      <3>2. QED  BY <1>2, <1>6, <2>2, <3>1 DEF EngineFacts, TrackedInv
    <2>3. QED  BY <1>1, <2>1, <2>2 DEF TrackedInv
  <1>11. TaskInv'
    <2>1. \/ loop' = loop /\ loop # "none"
          \/ loop = "none" /\ loop' = "ready"
      BY <1>5 DEF is_running, tracker
    <2>2. QED  BY <1>1, <1>2, <2>1 DEF EngineFacts, TaskInv
  <1>12. OpenStreamsTracked'
    <2>1. ASSUME NEW m \in Calls, Waits(m)'
          PROVE  \/ m \in Range(new_requests)'
                 \/ request_streams'[id'[m]] = m /\ (seqs'[id'[m]] > 0 \/ callbacks' > 0)
      <3>1. CASE m = n
        <4>1. client'[n] = "reading"
          BY <2>1, <3>1 DEF Waits
        <4>2. QED  BY <1>5, <1>queue, <3>1, <4>1
      <3>2. CASE m # n
        <4>1. Waits(m)
          BY <1>2, <1>3, <2>1, <3>2 DEF Waits
        <4>2. num_calls # 0
          BY <1>1, <4>1 DEF Waits, EngineFacts, CallsInv
        <4>3. m \in Range(new_requests) => m \in Range(new_requests)'
          BY <1>5, <1>queue, <4>2 DEF tracker
        <4>4. UNCHANGED request_streams
          BY <1>5, <4>2 DEF tracker
        <4>5. QED  BY <1>2, <3>2, <4>1, <4>3, <4>4 DEF EngineFacts, OpenStreamsTracked
      <3>3. QED  BY <3>1, <3>2
    <2>2. QED  BY <2>1 DEF OpenStreamsTracked
  <1>13. StopInv'
    <2>1. EndsWell(stream[n].queue, n \in complete)
      BY <1>1 DEF EngineFacts, CallsInv, EndsWell
    <2>2. QED  BY <1>2, <1>3, <2>1 DEF EngineFacts, StopInv
  <1>14. EndedComplete'
    BY <1>2, <1>3 DEF EngineFacts, EndedComplete
  <1>15. QED  BY <1>8, <1>9, <1>10, <1>11, <1>12, <1>13, <1>14 DEF EngineFacts

(* What Read and Leave have in common: only the client's own stream changes, *)
(* and its id is noted as aborted only when it stops reading.                *)
LEMMA ClientStep ==
  ASSUME TypeOK, TypeOK', EngineFacts, NEW n \in Calls, client[n] = "reading",
         UNCHANGED <<num_calls, id, request_streams, new_requests, loop, callbacks, errored, seqs>>,
         \A m \in Calls : m # n => client'[m] = client[m] /\ stream'[m] = stream[m],
         stream[n].finished => stream'[n].finished,
         finished_requests' # finished_requests =>
           /\ finished_requests' = finished_requests \cup {id[n]}
           /\ client'[n] # "reading"
           /\ Tracked(n) => stream'[n].finished,
         complete' \in {complete, complete \cup {n}},
         client'[n] = "reading" => EndsWell(stream'[n].queue, n \in complete'),
         client'[n] = "ended" => n \in complete'
  PROVE  EngineFacts'
  <1>1. n \in 1 .. num_calls
    BY CallsAssumption DEF EngineFacts, CallsInv, TypeOK, Calls
  <1>2. CallsInv'
    BY <1>1 DEF EngineFacts, CallsInv, Calls
  <1>3. QueuedInv'
    <2>1. ASSUME NEW m \in Range(new_requests), id[m] \in finished_requests'
          PROVE  client'[m] # "reading"
      <3>1. m \in 1 .. num_calls /\ m \in Calls
        <4>1. m \in Calls
          BY QueuedIff
        <4>2. m <= num_calls
          BY DEF EngineFacts, QueuedInv
        <4>3. QED  BY <4>1, <4>2, CallsAssumption DEF TypeOK, Calls
      <3>2. CASE m = n
        <4>1. CASE finished_requests' = finished_requests
          BY <2>1, <3>2, <4>1 DEF EngineFacts, QueuedInv
        <4>2. QED  BY <3>2, <4>1
      <3>3. CASE m # n
        <4>1. id[m] # id[n]
          BY <1>1, <3>1, <3>3 DEF EngineFacts, CallsInv
        <4>2. id[m] \in finished_requests
          BY <2>1, <4>1
        <4>3. QED  BY <3>1, <3>3, <4>2 DEF EngineFacts, QueuedInv
      <3>4. QED  BY <3>2, <3>3
    <2>2. QED  BY <2>1 DEF EngineFacts, QueuedInv
  <1>4. TrackedInv'
    <2>1. ASSUME NEW i \in Ids, request_streams[i] # 0, i \in finished_requests'
          PROVE  stream'[request_streams[i]].finished
      <3>1. /\ request_streams[i] \in Calls /\ request_streams[i] \in 1 .. num_calls
            /\ id[request_streams[i]] = i
        <4>1. request_streams[i] \in 0 .. MaxCalls
          BY DEF TypeOK
        <4>2. QED  BY <2>1, <4>1, CallsAssumption DEF EngineFacts, TrackedInv, Calls
      <3>2. CASE i \in finished_requests
        BY <2>1, <3>1, <3>2 DEF EngineFacts, TrackedInv
      <3>3. CASE i \notin finished_requests
        <4>1. i = id[n]
          BY <2>1, <3>3
        <4>2. request_streams[i] = n
          BY <1>1, <3>1, <4>1 DEF EngineFacts, CallsInv
        <4>3. QED  BY <2>1, <3>3, <4>1, <4>2 DEF Tracked
      <3>4. QED  BY <3>2, <3>3
    <2>2. ASSUME NEW i \in Ids, seqs'[i] > 0 \/ i \in finished_requests'  PROVE ~Unused(i)'
      <3>1. ~Unused(id[n])
        BY <1>1 DEF Unused
      <3>2. ~Unused(i)
        BY <2>2, <3>1 DEF EngineFacts, TrackedInv
      <3>3. QED  BY <3>2 DEF Unused
    <2>3. QED  BY <2>1, <2>2 DEF EngineFacts, TrackedInv
  <1>5. TaskInv'
    BY DEF EngineFacts, TaskInv
  <1>6. OpenStreamsTracked'
    BY DEF EngineFacts, OpenStreamsTracked, Waits
  <1>7. StopInv'
    <2>1. ASSUME NEW m \in Calls, m # n  PROVE m \in complete' <=> m \in complete
      BY <2>1
    <2>2. QED  BY <2>1 DEF EngineFacts, StopInv, EndsWell
  <1>8. EndedComplete'
    BY DEF EngineFacts, EndedComplete
  <1>9. QED  BY <1>2, <1>3, <1>4, <1>5, <1>6, <1>7, <1>8 DEF EngineFacts

LEMMA ReadStep ==
  ASSUME TypeOK, TypeOK', EngineFacts, NEW n \in Calls, Read(n)
  PROVE  EngineFacts'
  <1> DEFINE item == Head(stream[n].queue)
             rest == [stream EXCEPT ![n] = anext(@)]
  <1>1. /\ stream \in [Calls -> Streams] /\ stream[n] \in Streams
        /\ stream[n].queue \in Seq(Items) /\ stream[n].queue # <<>> /\ client[n] = "reading"
    BY DEF TypeOK, Streams, Read
  <1>2. item \in Items
    BY <1>1
  <1>3. /\ rest \in [Calls -> Streams] /\ rest[n] = anext(stream[n])
        /\ \A m \in Calls : m # n => rest[m] = stream[m]
        /\ rest[n].queue = Tail(stream[n].queue) /\ rest[n].finished = stream[n].finished
    BY <1>1 DEF anext, Streams
  <1>4. n <= num_calls
    BY <1>1, CallsAssumption DEF EngineFacts, CallsInv, TypeOK, Calls
  <1>5. /\ abort_request(rest, IF item = "error" THEN {id[n]} ELSE {})
        /\ client' = [client EXCEPT ![n] = CASE item = "stop" -> "ended"
                                             [] item = "error" -> "failed"
                                             [] OTHER -> "reading"]
        /\ complete' = IF item = "final" THEN complete \cup {n} ELSE complete
        /\ UNCHANGED <<num_calls, id, request_streams, new_requests, loop, callbacks, errored, seqs>>
    BY DEF Read, task
  <1> HIDE DEF rest
  <1>6. CASE item # "error"
    <2>1. stream' = rest /\ finished_requests' = finished_requests
      <3>1. abort_request(rest, {})
        BY <1>5, <1>6
      <3>2. QED  BY <1>3, <3>1 DEF abort_request
    <2>2. /\ client'[n] = IF item = "stop" THEN "ended" ELSE "reading"
          /\ \A m \in Calls : m # n => client'[m] = client[m]
      BY <1>5, <1>6 DEF TypeOK
    <2>3. item = "stop" => n \in complete
      <3>1. EndsWell(stream[n].queue, n \in complete) /\ (n \in complete) \in BOOLEAN
        BY <1>1 DEF EngineFacts, StopInv
      <3>2. QED  BY <1>1, <3>1, EndsWellTail
    <2>4. ASSUME item # "stop"  PROVE EndsWell(stream'[n].queue, n \in complete')
      <3>1. EndsWell(Tail(stream[n].queue), n \in complete \/ item = "final")
        <4>1. EndsWell(stream[n].queue, n \in complete) /\ (n \in complete) \in BOOLEAN
          BY <1>1 DEF EngineFacts, StopInv
        <4>2. item \in {"output", "final"}
          BY <1>2, <1>6, <2>4 DEF Items
        <4>3. QED  BY <1>1, <4>1, <4>2, EndsWellTail
      <3>2. (n \in complete \/ item = "final") <=> n \in complete'
        BY <1>5
      <3>3. QED  BY <1>3, <2>1, <3>1, <3>2 DEF EndsWell
    <2>5. /\ complete' \in {complete, complete \cup {n}}
          /\ \A m \in Calls : m # n => client'[m] = client[m] /\ stream'[m] = stream[m]
          /\ stream[n].finished => stream'[n].finished
          /\ client'[n] = "ended" => n \in complete'
          /\ client'[n] = "reading" => EndsWell(stream'[n].queue, n \in complete')
      BY <1>3, <1>5, <2>1, <2>2, <2>3, <2>4
    <2>6. QED  BY <1>1, <1>5, <2>1, <2>5, ClientStep
  <1>7. CASE item = "error"
    <2>1. /\ \A m \in Calls : m # n => stream'[m] = rest[m]
          /\ stream'[n] = IF Tracked(n) /\ ~rest[n].finished THEN finish(rest[n]) ELSE rest[n]
          /\ finished_requests' = finished_requests \cup {id[n]}
      <3>1. abort_request(rest, {id[n]})
        BY <1>5, <1>7
      <3>2. QED  BY <1>3, <1>4, <3>1, AbortOwn DEF EngineFacts
    <2>2. client'[n] = "failed" /\ \A m \in Calls : m # n => client'[m] = client[m]
      BY <1>5, <1>7 DEF TypeOK
    <2>3. /\ stream[n].finished => stream'[n].finished
          /\ Tracked(n) => stream'[n].finished
      <3>1. rest[n] \in Streams
        BY <1>3
      <3>2. finish(rest[n]).finished
        BY <3>1, StreamFields
      <3>3. QED  BY <1>3, <2>1, <3>2
    <2>4. complete' = complete
      BY <1>5, <1>7
    <2>5. QED  BY <1>1, <1>3, <1>5, <2>1, <2>2, <2>3, <2>4, ClientStep
  <1>8. QED  BY <1>6, <1>7

LEMMA LeaveStep ==
  ASSUME TypeOK, TypeOK', EngineFacts, NEW n \in Calls, Leave(n)
  PROVE  EngineFacts'
  <1>1. /\ stream \in [Calls -> Streams] /\ stream[n] \in Streams /\ client[n] = "reading"
    BY DEF TypeOK, Streams, Leave
  <1>2. n <= num_calls
    BY <1>1, CallsAssumption DEF EngineFacts, CallsInv, TypeOK, Calls
  <1>3. /\ client'[n] = "left" /\ \A m \in Calls : m # n => client'[m] = client[m]
        /\ complete' = complete
        /\ UNCHANGED <<num_calls, id, request_streams, new_requests, loop, callbacks, errored, seqs>>
    BY DEF Leave, TypeOK, task
  <1>4. CASE abort_request(stream, {id[n]})
    <2>1. /\ \A m \in Calls : m # n => stream'[m] = stream[m]
          /\ stream'[n] = IF Tracked(n) /\ ~stream[n].finished THEN finish(stream[n]) ELSE stream[n]
          /\ finished_requests' = finished_requests \cup {id[n]}
      BY <1>1, <1>2, <1>4, AbortOwn DEF EngineFacts
    <2>2. finish(stream[n]).finished
      BY <1>1, StreamFields
    <2>3. QED  BY <1>1, <1>3, <2>1, <2>2, ClientStep
  <1>5. CASE UNCHANGED <<stream, finished_requests>>
    BY <1>1, <1>3, <1>5, ClientStep
  <1>6. QED  BY <1>4, <1>5 DEF Leave

(* A queued call has been made. *)
LEMMA QueuedCalled ==
  ASSUME TypeOK, QueuedInv, NEW n \in Range(new_requests)
  PROVE  n \in Calls /\ n \in 1 .. num_calls /\ id[n] \in Ids
  <1>1. n \in Calls
    BY QueuedIff
  <1>2. n <= num_calls
    BY DEF QueuedInv
  <1>3. QED  BY <1>1, <1>2, CallsAssumption DEF TypeOK, Calls

(* The call under an id of the tracker has been made. *)
LEMMA TrackedCalled ==
  ASSUME TypeOK, TrackedInv, NEW i \in Ids, request_streams[i] # 0
  PROVE  /\ request_streams[i] \in Calls /\ request_streams[i] \in 1 .. num_calls
         /\ id[request_streams[i]] = i
  <1>1. request_streams[i] \in 0 .. MaxCalls
    BY DEF TypeOK
  <1>2. QED  BY <1>1, CallsAssumption DEF TrackedInv, Calls

(* With ids of their own, the requests that are taken over are all accepted, *)
(* and each becomes the stream of its id.                                    *)
LEMMA Taken ==
  ASSUME Orderly, TypeOK, CallsInv, QueuedInv
  PROVE  /\ RefusedRequests = {}
         /\ \A n \in Range(new_requests) :
              id[n] \notin finished_requests => TakenFor(id[n]) # {} /\ TakenStream(id[n]) = n
         /\ \A i \in Ids : TakenFor(i) # {} =>
              \E n \in Range(new_requests) : id[n] = i /\ i \notin finished_requests
  <1>1. \A k \in DOMAIN new_requests :
          new_requests[k] \in Range(new_requests) /\ new_requests[k] \in 1 .. num_calls
    BY QueuedIff, QueuedCalled
  <1>2. \A j, k \in DOMAIN new_requests : id[new_requests[j]] = id[new_requests[k]] => j = k
    BY <1>1 DEF CallsInv, QueuedInv
  <1>3. ASSUME NEW k \in TakenRequests  PROVE ~Refused(k)
    <2>1. k \in DOMAIN new_requests
      BY DEF TakenRequests
    <2>2. id[new_requests[k]] \notin Invalid
      BY DEF Orderly
    <2>3. ~(seqs[id[new_requests[k]]] > 0)
      BY <1>1, <2>1 DEF QueuedInv
    <2>4. ASSUME NEW j \in TakenRequests, j < k  PROVE id[new_requests[j]] # id[new_requests[k]]
      <3>1. j \in DOMAIN new_requests /\ j \in Nat
        BY TrackerTypes DEF TakenRequests
      <3>2. j # k
        BY <2>4, <3>1
      <3>3. QED  BY <1>2, <2>1, <3>1, <3>2
    <2>5. QED  BY <2>2, <2>3, <2>4 DEF Refused
  <1>4. ASSUME NEW n \in Range(new_requests), id[n] \notin finished_requests
        PROVE  TakenFor(id[n]) # {} /\ TakenStream(id[n]) = n
    <2>1. PICK k \in DOMAIN new_requests : new_requests[k] = n
      BY QueuedIff
    <2>2. k \in TakenFor(id[n])
      BY <1>4, <2>1 DEF TakenFor, TakenRequests
    <2>3. PICK j \in TakenFor(id[n]) : TakenStream(id[n]) = new_requests[j]
      BY <2>2, TakenStreamTaken
    <2>4. j = k
      BY <1>2, <2>1 DEF TakenFor, TakenRequests
    <2>5. QED  BY <2>1, <2>2, <2>3, <2>4
  <1>5. ASSUME NEW i \in Ids, TakenFor(i) # {}
        PROVE  \E n \in Range(new_requests) : id[n] = i /\ i \notin finished_requests
    BY <1>1, <1>5 DEF TakenFor, TakenRequests
  <1>6. QED  BY <1>3, <1>4, <1>5 DEF RefusedRequests

LEMMA IterationStep ==
  ASSUME Orderly, TypeOK, TypeOK', EngineFacts, IterationStart
  PROVE  EngineFacts'
  <1>1. /\ RefusedRequests = {}
        /\ \A n \in Range(new_requests) :
             id[n] \notin finished_requests => TakenFor(id[n]) # {} /\ TakenStream(id[n]) = n
        /\ \A i \in Ids : TakenFor(i) # {} =>
             \E n \in Range(new_requests) : id[n] = i /\ i \notin finished_requests
    BY Taken DEF EngineFacts
  <1>2. /\ loop = "ready" /\ loop' = "stepping" /\ UNCHANGED <<callbacks, errored>>
        /\ UNCHANGED <<num_calls, id, client, complete>>
        /\ new_requests' = <<>> /\ finished_requests' = {}
    BY <1>1 DEF IterationStart, clients
  <1>3. \A m \in Calls : stream'[m] = IF m \in Range(new_requests) /\ id[m] \in finished_requests
                                      THEN finish(stream[m]) ELSE stream[m]
    BY DEF IterationStart
  <1>4. ASSUME NEW n \in Range(new_requests), id[n] \notin finished_requests
        PROVE  request_streams'[id[n]] = n /\ seqs'[id[n]] > 0
    <2>1. id[n] \in Ids /\ TakenFor(id[n]) # {} /\ TakenStream(id[n]) = n
      BY <1>1, <1>4, QueuedCalled DEF EngineFacts
    <2>2. seqs'[id[n]] = NumOutputs
      BY <1>1, <2>1 DEF IterationStart
    <2>3. QED  BY <2>1, <2>2, CallsAssumption DEF IterationStart
  <1>5. ASSUME NEW i \in Ids, TakenFor(i) = {}
        PROVE  /\ request_streams'[i] = IF i \in finished_requests THEN 0 ELSE request_streams[i]
               /\ seqs'[i] = seqs[i]
    BY <1>5 DEF IterationStart
  <1>6. CallsInv'
    <2>1. ASSUME NEW m \in Calls, m > num_calls  PROVE stream'[m] = stream[m]
      <3>1. m \notin Range(new_requests)
        <4> SUFFICES ASSUME m \in Range(new_requests)  PROVE FALSE
          OBVIOUS
        <4>1. m \in 1 .. num_calls
          BY QueuedCalled DEF EngineFacts
        <4>2. QED  BY <2>1, <4>1 DEF TypeOK
      <3>2. QED  BY <1>3, <3>1
    <2>2. QED  BY <1>2, <2>1 DEF EngineFacts, CallsInv
  <1>7. QueuedInv'
    BY <1>2 DEF QueuedInv, Range
  <1>8. TrackedInv'
    <2>1. ASSUME NEW i \in Ids, TakenFor(i) # {}
          PROVE  /\ request_streams'[i] <= num_calls
                 /\ id[request_streams'[i]] = i
                 /\ ~Unused(i)
      <3>1. PICK n \in Range(new_requests) : id[n] = i /\ i \notin finished_requests
        BY <1>1, <2>1
      <3>2. n \in 1 .. num_calls /\ request_streams'[i] = n
        BY <1>4, <3>1, QueuedCalled DEF EngineFacts
      <3>3. QED  BY <3>1, <3>2 DEF Unused, TypeOK
    <2>2. ASSUME NEW i \in Ids, TakenFor(i) = {}, request_streams'[i] # 0
          PROVE  request_streams'[i] <= num_calls /\ id[request_streams'[i]] = i
      BY <1>5, <2>2 DEF EngineFacts, TrackedInv
    <2>3. ASSUME NEW i \in Ids, TakenFor(i) = {}, seqs'[i] > 0  PROVE ~Unused(i)
      BY <1>5, <2>3 DEF EngineFacts, TrackedInv
    <2>4. \A i : Unused(i)' <=> Unused(i)
      BY <1>2 DEF Unused
    <2>5. QED  BY <1>2, <2>1, <2>2, <2>3, <2>4 DEF TrackedInv
  <1>9. TaskInv'
    BY <1>2 DEF EngineFacts, TaskInv
  <1>10. OpenStreamsTracked'
    <2>1. ASSUME NEW m \in Calls, Waits(m)'
          PROVE  request_streams'[id[m]] = m /\ seqs'[id[m]] > 0
      <3>1. Waits(m) /\ ~(m \in Range(new_requests) /\ id[m] \in finished_requests)
        <4>1. stream[m] \in Streams
          BY DEF TypeOK, Streams
        <4>2. finish(stream[m]).finished
          BY <4>1, StreamFields
        <4>3. QED  BY <1>2, <1>3, <2>1, <4>2 DEF Waits
      <3>2. CASE m \in Range(new_requests)
        BY <1>4, <3>1, <3>2
      <3>3. CASE m \notin Range(new_requests)
        <4>1. request_streams[id[m]] = m /\ (seqs[id[m]] > 0 \/ callbacks > 0)
          BY <3>1, <3>3 DEF EngineFacts, OpenStreamsTracked
        <4>2. ~(callbacks > 0)
          BY <1>2 DEF EngineFacts, TaskInv
        <4>3. id[m] \in Ids /\ m # 0
          <5>1. m # 0
            BY CallsAssumption DEF Calls
          <5>2. QED  BY <5>1 DEF TypeOK
        <4>4. id[m] \notin finished_requests
          <5>1. stream[m].finished = FALSE
            BY <3>1 DEF Waits, TypeOK
          <5>2. id[m] \in finished_requests => stream[request_streams[id[m]]].finished
            BY <4>1, <4>3 DEF EngineFacts, TrackedInv
          <5>3. QED  BY <4>1, <5>1, <5>2
        <4>5. TakenFor(id[m]) = {}
          BY <1>1, <4>1, <4>3 DEF EngineFacts, QueuedInv
        <4>6. QED  BY <1>5, <4>1, <4>2, <4>3, <4>4, <4>5
      <3>4. QED  BY <3>2, <3>3
    <2>2. QED  BY <1>2, <2>1 DEF OpenStreamsTracked
  <1>11. StopInv'
    BY <1>2, <1>3 DEF EngineFacts, QueuedInv, StopInv
  <1>12. EndedComplete'
    BY <1>2 DEF EngineFacts, EndedComplete
  <1>13. QED  BY <1>6, <1>7, <1>8, <1>9, <1>10, <1>11, <1>12 DEF EngineFacts

(* Delivering outputs and the error: to a stream that is open, and to no     *)
(* other, and what ends it comes after the final output or the error.        *)
Delivered(s, t) ==
  \/ t = s
  \/ ~s.finished /\ t \in {put(s, "output"), finish(put(s, "final")), finish(put(s, "error"))}

LEMMA DeliveredEndsWell ==
  ASSUME NEW s \in Streams, NEW t, Delivered(s, t), NEW d \in BOOLEAN
  PROVE  /\ s.finished => t.finished
         /\ EndsWell(s.queue, d) => EndsWell(t.queue, d)
  <1>1. CASE t = s
    BY <1>1
  <1>2. CASE ~s.finished /\ t = put(s, "output")
    <2>1. t.queue = Append(s.queue, "output") /\ s.queue \in Seq(Items)
      BY <1>2, StreamFields DEF Items
    <2>2. QED  BY <1>2, <2>1, EndsWellPut
  <1>3. ASSUME NEW item \in {"final", "error"}, ~s.finished, t = finish(put(s, item))
        PROVE  /\ s.finished => t.finished
               /\ EndsWell(s.queue, d) => EndsWell(t.queue, d)
    <2>1. item \in Items
      BY DEF Items
    <2>2. put(s, item).queue = Append(s.queue, item) /\ s.queue \in Seq(Items)
      BY <1>3, <2>1, StreamFields
    <2>3. put(s, item) \in Streams
      BY <2>1, StreamTypes
    <2>4. t.queue = Append(Append(s.queue, item), "stop") /\ t.finished
      <3> DEFINE u == put(s, item)
      <3>1. t = finish(u) /\ u \in Streams /\ u.queue = Append(s.queue, item)
        BY <1>3, <2>2, <2>3
      <3> HIDE DEF u
      <3>2. finish(u).queue = Append(u.queue, "stop") /\ finish(u).finished
        BY <3>1, StreamFields
      <3>3. QED  BY <3>1, <3>2
    <2>5. QED  BY <2>2, <2>4, EndsWellStop
  <1>4. QED  BY <1>1, <1>2, <1>3 DEF Delivered

(* What StepReturns and TaskCallback have in common. *)
LEMMA DeliverStep ==
  ASSUME TypeOK, TypeOK', EngineFacts, NEW ids \in SUBSET Ids,
         UNCHANGED <<num_calls, id, client, complete, request_streams, new_requests>>,
         finished_requests' = finished_requests \cup ids,
         \A i \in ids : request_streams[i] # 0 /\ stream'[request_streams[i]].finished,
         \A m \in Calls : Delivered(stream[m], stream'[m]) /\ (stream'[m] # stream[m] => Tracked(m)),
         \A i \in Ids : seqs'[i] <= seqs[i]
  PROVE  /\ CallsInv' /\ QueuedInv' /\ TrackedInv' /\ StopInv' /\ EndedComplete'
         /\ \A m \in Calls : Waits(m)' => Waits(m)
  <1>1. ASSUME NEW m \in Calls, NEW d \in BOOLEAN
        PROVE  /\ stream[m].finished => stream'[m].finished
               /\ EndsWell(stream[m].queue, d) => EndsWell(stream'[m].queue, d)
    <2>1. stream[m] \in Streams
      BY DEF TypeOK, Streams
    <2>2. QED  BY <2>1, DeliveredEndsWell
  <1>2. CallsInv'
    <2>1. ASSUME NEW m \in Calls, m > num_calls  PROVE stream'[m] = stream[m]
      <3> SUFFICES ASSUME Tracked(m)  PROVE FALSE
        OBVIOUS
      <3>1. id[m] \in Ids /\ request_streams[id[m]] = m /\ m # 0
        BY TrackerTypes DEF Tracked
      <3>2. m \in 1 .. num_calls
        BY <3>1, TrackedCalled DEF EngineFacts
      <3>3. QED  BY <2>1, <3>2 DEF TypeOK
    <2>2. QED  BY <2>1 DEF EngineFacts, CallsInv
  <1>3. QueuedInv'
    <2>1. ASSUME NEW n \in Range(new_requests)
          PROVE  /\ seqs'[id[n]] = 0
                 /\ id[n] \in finished_requests' => client[n] # "reading"
      <3>1. id[n] \in Ids /\ seqs[id[n]] = 0 /\ request_streams[id[n]] = 0
        BY QueuedCalled DEF EngineFacts, QueuedInv
      <3>2. seqs'[id[n]] = 0
        BY <3>1, CallsAssumption DEF TypeOK
      <3>3. id[n] \notin ids
        BY <3>1
      <3>4. QED  BY <3>2, <3>3 DEF EngineFacts, QueuedInv
    <2>2. QED  BY <2>1 DEF EngineFacts, QueuedInv
  <1>4. TrackedInv'
    <2>1. ASSUME NEW i \in Ids, request_streams[i] # 0, i \in finished_requests'
          PROVE  stream'[request_streams[i]].finished
      <3>1. request_streams[i] \in Calls
        BY <2>1, TrackedCalled DEF EngineFacts
      <3>2. CASE i \in ids
        BY <3>2
      <3>3. CASE i \in finished_requests
        BY <1>1, <2>1, <3>1, <3>3 DEF EngineFacts, TrackedInv
      <3>4. QED  BY <2>1, <3>2, <3>3
    <2>2. ASSUME NEW i \in Ids, seqs'[i] > 0 \/ i \in finished_requests'  PROVE ~Unused(i)'
      <3>1. ASSUME i \in ids  PROVE ~Unused(i)
        BY <3>1, TrackedCalled DEF EngineFacts, Unused
      <3>2. seqs'[i] > 0 => seqs[i] > 0
        BY CallsAssumption DEF TypeOK
      <3>3. ~Unused(i)
        BY <2>2, <3>1, <3>2 DEF EngineFacts, TrackedInv
      <3>4. QED  BY <3>3 DEF Unused
    <2>3. QED  BY <2>1, <2>2 DEF EngineFacts, TrackedInv
  <1>5. StopInv'
    <2>1. ASSUME NEW m \in Calls, client[m] = "reading"
          PROVE  EndsWell(stream'[m].queue, m \in complete)
      <3>1. EndsWell(stream[m].queue, m \in complete) /\ (m \in complete) \in BOOLEAN
        BY <2>1 DEF EngineFacts, StopInv
      <3>2. QED  BY <1>1, <3>1
    <2>2. QED  BY <2>1 DEF StopInv
  <1>6. EndedComplete'
    BY DEF EngineFacts, EndedComplete
  <1>7. \A m \in Calls : Waits(m)' => Waits(m)
    BY <1>1 DEF Waits
  <1>8. QED  BY <1>2, <1>3, <1>4, <1>5, <1>6, <1>7

LEMMA StepReturnsStep ==
  ASSUME TypeOK, TypeOK', EngineFacts, StepReturns
  PROVE  EngineFacts'
  <1>1. PICK outs \in SUBSET {i \in Ids : seqs[i] > 0} :
          /\ process_request_output(outs)
          /\ seqs' = [i \in Ids |-> IF i \in outs THEN seqs[i] - 1 ELSE seqs[i]]
    BY DEF StepReturns
  <1>2. /\ loop = "stepping" /\ loop' = "ready"
        /\ UNCHANGED <<num_calls, id, client, complete, request_streams, new_requests>>
        /\ UNCHANGED <<callbacks, errored>>
    BY DEF StepReturns, clients
  <1> DEFINE ids == {i \in outs : request_streams[i] # 0 /\ seqs[i] = 1}
             st == [m \in Calls |-> IF Tracked(m) /\ id[m] \in outs
                                 THEN put(stream[m], IF seqs[id[m]] = 1 THEN "final" ELSE "output")
                                 ELSE stream[m]]
  <1>3. /\ finished_requests' = finished_requests \cup ids
        /\ \A m \in Calls : stream'[m] = IF Tracked(m) /\ id[m] \in ids /\ ~st[m].finished
                                         THEN finish(st[m]) ELSE st[m]
    BY <1>1 DEF process_request_output, abort_request
  <1>4. ASSUME NEW m \in Calls
        PROVE  stream'[m] = IF Tracked(m) /\ id[m] \in outs /\ ~stream[m].finished
                            THEN IF seqs[id[m]] = 1 THEN finish(put(stream[m], "final"))
                                                    ELSE put(stream[m], "output")
                            ELSE stream[m]
    <2>1. stream[m] \in Streams /\ {"final", "output"} \subseteq Items
      BY DEF TypeOK, Streams, Items
    <2>2. /\ stream[m].finished \in BOOLEAN
          /\ stream[m].finished => \A item \in {"final", "output"} : put(stream[m], item) = stream[m]
          /\ ~stream[m].finished => \A item \in {"final", "output"} : ~put(stream[m], item).finished
      BY <2>1, StreamFields
    <2>3. Tracked(m) => request_streams[id[m]] # 0
      BY CallsAssumption DEF Tracked, Calls
    <2>4. QED  BY <1>3, <2>2, <2>3
  <1>5. ASSUME NEW m \in Calls
        PROVE  Delivered(stream[m], stream'[m]) /\ (stream'[m] # stream[m] => Tracked(m))
    BY <1>4 DEF Delivered
  <1>6. ASSUME NEW i \in ids
        PROVE  request_streams[i] # 0 /\ stream'[request_streams[i]].finished
    <2> DEFINE m == request_streams[i]
    <2>1. i \in Ids /\ m \in Calls /\ id[m] = i
      BY TrackedCalled DEF EngineFacts
    <2>2. stream[m] \in Streams /\ put(stream[m], "final") \in Streams
      BY <2>1, StreamTypes DEF TypeOK, Streams, Items
    <2>3. finish(put(stream[m], "final")).finished
      BY <2>2, StreamFields
    <2>4. QED  BY <1>4, <2>1, <2>3 DEF Tracked
  <1>7. \A i \in Ids : seqs'[i] <= seqs[i]
    BY <1>1, CallsAssumption DEF TypeOK
  <1>8. /\ CallsInv' /\ QueuedInv' /\ TrackedInv' /\ StopInv' /\ EndedComplete'
        /\ \A m \in Calls : Waits(m)' => Waits(m)
    <2>1. ids \in SUBSET Ids
      OBVIOUS
    <2> HIDE DEF ids
    <2>2. QED  BY <1>2, <1>3, <1>5, <1>6, <1>7, <2>1, DeliverStep
  <1>9. TaskInv'
    BY <1>2 DEF EngineFacts, TaskInv
  <1>10. OpenStreamsTracked'
    <2>1. ASSUME NEW m \in Calls, Waits(m)', m \notin Range(new_requests)
          PROVE  request_streams[id[m]] = m /\ seqs'[id[m]] > 0
      <3>1. Waits(m)
        BY <1>8, <2>1
      <3>2. request_streams[id[m]] = m /\ seqs[id[m]] > 0
        BY <1>2, <2>1, <3>1 DEF EngineFacts, OpenStreamsTracked, TaskInv
      <3>3. id[m] \in Ids /\ seqs[id[m]] \in Nat
        BY CallsAssumption DEF TypeOK
      <3>4. CASE id[m] \in outs /\ seqs[id[m]] = 1
        <4>1. id[m] \in ids /\ stream'[m].finished
          BY <1>6, <3>2, <3>4, CallsAssumption DEF Calls
        <4>2. QED  BY <2>1, <4>1 DEF Waits
      <3>5. CASE ~(id[m] \in outs /\ seqs[id[m]] = 1)
        BY <1>1, <3>2, <3>3, <3>5
      <3>6. QED  BY <3>4, <3>5
    <2>2. QED  BY <1>2, <2>1 DEF OpenStreamsTracked
  <1>11. QED  BY <1>8, <1>9, <1>10 DEF EngineFacts

LEMMA CallbackStep ==
  ASSUME TypeOK, TypeOK', EngineFacts, TaskCallback
  PROVE  EngineFacts'
  <1> DEFINE ids == {i \in Ids : request_streams[i] # 0}
             st == [m \in Calls |-> IF Tracked(m) THEN put(stream[m], "error") ELSE stream[m]]
  <1>1. /\ callbacks > 0 /\ loop' = loop /\ errored' = TRUE /\ callbacks' = callbacks - 1
        /\ UNCHANGED <<num_calls, id, client, complete, request_streams, new_requests>>
        /\ UNCHANGED seqs
    BY DEF TaskCallback, clients
  <1>2. /\ finished_requests' = finished_requests \cup ids
        /\ \A m \in Calls : stream'[m] = IF Tracked(m) /\ id[m] \in ids /\ ~st[m].finished
                                         THEN finish(st[m]) ELSE st[m]
    BY DEF TaskCallback, propagate_exception, abort_request
  <1>3. ASSUME NEW m \in Calls
        PROVE  /\ stream'[m] = IF Tracked(m) /\ ~stream[m].finished
                               THEN finish(put(stream[m], "error")) ELSE stream[m]
               /\ finish(put(stream[m], "error")).finished
    <2>1. stream[m] \in Streams /\ "error" \in Items
      BY DEF TypeOK, Streams, Items
    <2>2. /\ stream[m].finished \in BOOLEAN
          /\ stream[m].finished => put(stream[m], "error") = stream[m]
          /\ ~stream[m].finished => ~put(stream[m], "error").finished
      BY <2>1, StreamFields
    <2>3. put(stream[m], "error") \in Streams
      BY <2>1, StreamTypes
    <2>4. Tracked(m) => id[m] \in ids
      <3>1. id[m] \in Ids /\ m \in 1 .. MaxCalls
        BY DEF Calls, TypeOK
      <3>2. QED  BY <3>1, CallsAssumption DEF Tracked
    <2>5. finish(put(stream[m], "error")).finished
      BY <2>3, StreamFields
    <2> HIDE DEF ids
    <2>6. QED  BY <1>2, <2>2, <2>4, <2>5
  <1>4. ASSUME NEW m \in Calls
        PROVE  /\ Delivered(stream[m], stream'[m]) /\ (stream'[m] # stream[m] => Tracked(m))
               /\ Tracked(m) => stream'[m].finished
    BY <1>3 DEF Delivered
  <1>5. ASSUME NEW i \in ids
        PROVE  request_streams[i] # 0 /\ stream'[request_streams[i]].finished
    BY <1>4, TrackedCalled DEF EngineFacts, Tracked
  <1>6. \A i \in Ids : seqs'[i] <= seqs[i]
    BY <1>1, CallsAssumption DEF TypeOK
  <1>7. /\ CallsInv' /\ QueuedInv' /\ TrackedInv' /\ StopInv' /\ EndedComplete'
        /\ \A m \in Calls : Waits(m)' => Waits(m)
    <2>1. ids \in SUBSET Ids
      OBVIOUS
    <2> HIDE DEF ids
    <2>2. QED  BY <1>1, <1>2, <1>4, <1>5, <1>6, <2>1, DeliverStep
  <1>8. TaskInv'
    BY <1>1 DEF EngineFacts, TaskInv, TypeOK
  <1>9. OpenStreamsTracked'
    <2>1. ASSUME NEW m \in Calls, Waits(m)'  PROVE m \in Range(new_requests)
      <3>1. Waits(m) /\ ~Tracked(m)
        BY <1>4, <1>7, <2>1 DEF Waits
      <3>2. QED  BY <3>1 DEF EngineFacts, OpenStreamsTracked, Tracked
    <2>2. QED  BY <1>1, <2>1 DEF OpenStreamsTracked
  <1>10. QED  BY <1>7, <1>8, <1>9 DEF EngineFacts

LEMMA StepFailsStep ==
  ASSUME Orderly, TypeOK, EngineFacts, StepFails
  PROVE  EngineFacts'
  <1>1. /\ UNCHANGED <<num_calls, id, client, complete, stream>>
        /\ UNCHANGED <<request_streams, new_requests, finished_requests, seqs>>
        /\ loop' = "done" /\ errored' = TRUE /\ callbacks' = callbacks + 1
    BY DEF StepFails, TaskEnds, Orderly, clients, tracker, TypeOK
  <1>2. CallsInv' /\ QueuedInv' /\ StopInv' /\ EndedComplete'
    BY <1>1 DEF EngineFacts, CallsInv, QueuedInv, StopInv, EndedComplete
  <1>3. TrackedInv'
    BY <1>1 DEF EngineFacts, TrackedInv, Unused
  <1>4. TaskInv'
    BY <1>1 DEF TaskInv
  <1>5. OpenStreamsTracked'
    BY <1>1 DEF EngineFacts, OpenStreamsTracked, Waits, TypeOK
  <1>6. QED  BY <1>2, <1>3, <1>4, <1>5 DEF EngineFacts

-----------------------------------------------------------------------------
(* Theorems. *)

LEMMA EngineInit == Init => EngineFacts
  <1> SUFFICES ASSUME Init  PROVE EngineFacts
    OBVIOUS
  <1>1. CallsInv /\ QueuedInv /\ StopInv /\ EndedComplete
    BY CallsAssumption DEF Init, CallsInv, QueuedInv, StopInv, EndedComplete, Calls, Range
  <1>2. TrackedInv
    BY DEF Init, TrackedInv
  <1>3. TaskInv
    BY DEF Init, TaskInv
  <1>4. OpenStreamsTracked
    BY DEF Init, OpenStreamsTracked, Waits
  <1>5. QED  BY <1>1, <1>2, <1>3, <1>4 DEF EngineFacts

LEMMA EngineStep ==
  ASSUME Orderly, EngineInv, [Next]_vars
  PROVE  EngineInv'
  <1>1. TypeOK /\ EngineFacts /\ TypeOK'
    BY TypeStep DEF EngineInv
  <1> SUFFICES EngineFacts'
    BY <1>1 DEF EngineInv
  <1>2. ASSUME NEW i \in Ids, AddRequest(i)  PROVE EngineFacts'
    BY <1>1, <1>2, AddRequestStep
  <1>3. ASSUME NEW n \in Calls, Read(n)  PROVE EngineFacts'
    BY <1>1, <1>3, ReadStep
  <1>4. ASSUME NEW n \in Calls, Leave(n)  PROVE EngineFacts'
    BY <1>1, <1>4, LeaveStep
  <1>5. CASE IterationStart
    BY <1>1, <1>5, IterationStep
  <1>6. CASE StepReturns
    BY <1>1, <1>6, StepReturnsStep
  <1>7. CASE StepFails
    BY <1>1, <1>7, StepFailsStep
  <1>8. CASE TaskCallback
    BY <1>1, <1>8, CallbackStep
  <1>9. CASE UNCHANGED vars
    <2>1. UNCHANGED <<num_calls, id, client, complete, stream, request_streams, new_requests,
                      finished_requests, loop, callbacks, errored, seqs>>
      BY <1>9 DEF vars, clients, tracker, task
    <2>2. CallsInv' /\ QueuedInv' /\ StopInv' /\ EndedComplete'
      BY <1>1, <2>1 DEF EngineFacts, CallsInv, QueuedInv, StopInv, EndedComplete
    <2>3. TrackedInv'
      BY <1>1, <2>1 DEF EngineFacts, TrackedInv, Unused
    <2>4. TaskInv' /\ OpenStreamsTracked'
      BY <1>1, <2>1 DEF EngineFacts, TaskInv, OpenStreamsTracked, Waits
    <2>5. QED  BY <2>2, <2>3, <2>4 DEF EngineFacts
  <1>10. QED
    BY <1>2, <1>3, <1>4, <1>5, <1>6, <1>7, <1>8, <1>9 DEF Next, Task

LEMMA EngineInvariant ==
  ASSUME Orderly
  PROVE  Spec => []EngineInv
  <1>1. Init => EngineInv
    BY TypeInit, EngineInit DEF EngineInv
  <1>2. EngineInv /\ [Next]_vars => EngineInv'
    BY EngineStep
  <1>3. QED  BY <1>1, <1>2, PTL DEF Spec

(* No client is forgotten: however calls, departures, iterations and the     *)
(* callback of a timed-out task interleave, a client whose stream is open    *)
(* has its request queued, or its stream is the tracked one of its id and    *)
(* the engine works on it or the callback that ends it is pending.           *)
THEOREM OpenStreamsTrackedHolds ==
  ASSUME Orderly
  PROVE  Spec => []OpenStreamsTracked
  <1>1. EngineInv => OpenStreamsTracked
    BY DEF EngineInv, EngineFacts
  <1>2. QED  BY <1>1, EngineInvariant, PTL

(* A client comes to the normal end of its stream only after it has read the *)
(* final output.                                                             *)
THEOREM EndedCompleteHolds ==
  ASSUME Orderly
  PROVE  Spec => []EndedComplete
  <1>1. EngineInv => EndedComplete
    BY DEF EngineInv, EngineFacts
  <1>2. QED  BY <1>1, EngineInvariant, PTL

(* A background task that ended is never started again: by the time a client *)
(* can call add_request the timeout has been recorded.                       *)
THEOREM NoRestartAfterErrorHolds ==
  ASSUME Orderly
  PROVE  Spec => NoRestartAfterError
  <1>1. EngineInv /\ [Next]_vars => [loop = "done" => loop' = "done"]_vars
    <2> SUFFICES ASSUME EngineInv, Next, loop = "done"  PROVE loop' = "done"
      OBVIOUS
    <2>1. errored /\ ~is_running
      BY DEF EngineInv, EngineFacts, TaskInv, is_running
    <2>2. ASSUME NEW i \in Ids, AddRequest(i)  PROVE loop' = "done"
      BY <2>1, <2>2 DEF AddRequest
    <2>3. ASSUME NEW n \in Calls, Read(n) \/ Leave(n)  PROVE loop' = "done"
      BY <2>3 DEF Read, Leave, task
    <2>4. CASE Task
      BY <2>4 DEF Task, IterationStart, StepReturns, StepFails, TaskCallback
    <2>5. QED  BY <2>2, <2>3, <2>4 DEF Next
  <1>2. QED  BY <1>1, EngineInvariant, PTL DEF Spec, NoRestartAfterError

(* "Task finished unexpectedly. This should never happen!" holds of an       *)
(* engine whose step neither raises nor takes too long: nothing that clients *)
(* do to their streams ends the task.                                        *)
THEOREM TaskNeverEndsHolds ==
  ASSUME Orderly, Failures = {}
  PROVE  Spec => []TaskNeverEnds
  <1>1. Init => TaskNeverEnds
    BY DEF Init, TaskNeverEnds
  <1>2. EngineInv /\ TaskNeverEnds /\ [Next]_vars => TaskNeverEnds'
    <2> SUFFICES ASSUME EngineInv, loop # "done", [Next]_vars  PROVE loop' # "done"
      BY DEF TaskNeverEnds
    <2>1. ASSUME NEW i \in Ids, AddRequest(i)  PROVE loop' # "done"
      BY <2>1 DEF AddRequest
    <2>2. ASSUME NEW n \in Calls, Read(n) \/ Leave(n)  PROVE loop' # "done"
      BY <2>2 DEF Read, Leave, task
    <2>3. CASE IterationStart
      <3>1. RefusedRequests = {}
        BY Taken DEF EngineInv, EngineFacts
      <3>2. QED  BY <2>3, <3>1 DEF IterationStart
    <2>4. CASE StepReturns \/ StepFails \/ TaskCallback
      BY <2>4 DEF StepReturns, StepFails, TaskCallback
    <2>5. CASE UNCHANGED vars
      BY <2>5 DEF vars, task
    <2>6. QED  BY <2>1, <2>2, <2>3, <2>4, <2>5 DEF Next, Task
  <1>3. QED  BY <1>1, <1>2, EngineInvariant, PTL DEF Spec
==============================================================================
