-------------------------- MODULE ResponseQueueProofs --------------------------
(***************************************************************************)
(* Proofs about ResponseQueue, for any number of answers, overlapping      *)
(* activations and faults.                                                 *)
(***************************************************************************)
EXTENDS ResponseQueue, TLAPS, SequenceTheorems, WellFoundedInduction

Requests == Seq(WriteType \cup Tasks)

(* What is true of every suspended activation: it is well typed, one that   *)
(* sends carries an answer, and where it waits says which function it runs. *)
WellFormed(w) ==
  /\ w \in TaskType
  /\ w.pc \in SendPCs => w.cur \in Answers
  /\ w.pc = "cleaning" => IF w.sync THEN w.after = "reading"
                          ELSE w.after \in {"counting", "effect"}
  /\ w.pc = "reading" => w.sync
  /\ w.pc \in {"idle", "counting", "effect"} => ~w.sync

ActivationsOK ==
  /\ task \in [Tasks -> TaskType]
  /\ \A t \in Tasks : WellFormed(task[t])
  /\ idb \in Requests

Shape == TypeOK /\ ActivationsOK

-----------------------------------------------------------------------------
(* Operators.                                                               *)

(* The smallest of a non-empty set of numbers is one of them.               *)
LEMMA LeastNat ==
  ASSUME NEW S \in SUBSET Nat, S # {}
  PROVE  First(S) \in S /\ \A b \in S : First(S) <= b
<1>1. S \subseteq Nat
  OBVIOUS
<1>2. \E a \in S : \A b \in S : ~(<<b, a>> \in OpToRel(<, Nat))
  BY <1>1, NatLessThanWellFounded, WFMin
<1>3. \E a \in S : \A b \in S : a <= b
  <2>1. PICK a \in S : \A b \in S : ~(<<b, a>> \in OpToRel(<, Nat))
    BY <1>2
  <2>2. \A b \in S : ~(b < a)
    BY <1>1, <2>1 DEF OpToRel
  <2> QED
    BY <1>1, <2>2
<1> QED
  BY <1>3 DEF First

LEMMA FirstIsLeast ==
  ASSUME NEW S \in SUBSET Answers, S # {}
  PROVE  First(S) \in S /\ \A b \in S : First(S) <= b
BY LeastNat, ResponseQueueAssumption DEF Answers

LEMMA IdleWellFormed == WellFormed(IdleTask)
BY DEF WellFormed, IdleTask, TaskType, TaskPCs, DbWaits, Replies, NoAnswer, NoId,
       SendPCs

(* What a request of an activation looks like.                              *)
LEMMA RequestWellFormed ==
  ASSUME TypeOK, NEW w \in TaskType, NEW id \in Nat, w.cur \in Answers
  PROVE  /\ WellFormed(Request(w, id))
         /\ Request(w, id).pc = "sending"
         /\ Request(w, id).sync = w.sync
         /\ Request(w, id).cur = w.cur
BY DEF TypeOK, Request, WellFormed, TaskType, TaskPCs, Replies, SendPCs, NoId

(* A step of one activation keeps every activation well formed.             *)
LEMMA StepShape ==
  ASSUME ActivationsOK, NEW t \in Tasks, NEW w, WellFormed(w), NEW r \in Requests,
         Step(t, w, r)
  PROVE  ActivationsOK'
<1>1. w \in TaskType /\ task \in [Tasks -> TaskType]
  BY DEF WellFormed, ActivationsOK
<1>2. task' = [task EXCEPT ![t] = w]
  BY DEF Step
<1>3. \A u \in Tasks : task'[u] = IF u = t THEN w ELSE task[u]
  BY <1>1, <1>2
<1>4. \A u \in Tasks : WellFormed(task'[u])
  BY <1>3 DEF ActivationsOK
<1>5. idb' \in Requests
  BY AppendProperties DEF Step, Requests
<1> QED
  BY <1>1, <1>2, <1>4, <1>5 DEF ActivationsOK

LEMMA CleanThenCounts ==
  ASSUME NEW w \in TaskType, ~w.sync, NEW pc \in {"counting", "effect"}
  PROVE  /\ WellFormed(CleanThen(w, pc))
         /\ ~CleanThen(w, pc).sync
         /\ CleanThen(w, pc).pc \in {"cleaning", pc}
BY DEF CleanThen, WellFormed, TaskType, TaskPCs, DbWaits, SendPCs

LEMMA CleanThenReads ==
  ASSUME NEW w \in TaskType, w.sync
  PROVE  /\ WellFormed(CleanThen(w, "reading"))
         /\ CleanThen(w, "reading").sync
         /\ CleanThen(w, "reading").pc \in {"cleaning", "reading"}
BY DEF CleanThen, WellFormed, TaskType, TaskPCs, DbWaits, SendPCs

LEMMA StartedWellFormed ==
  ASSUME TypeOK, NEW q \in SUBSET Answers, q # {},
         NEW from \in {"app", "retry", "effect"}, NEW id \in Nat
  PROVE  /\ WellFormed(Started(q, from, id))
         /\ ~Started(q, from, id).sync
         /\ Started(q, from, id).pc \in
              IF PersistOffline THEN {"cleaning", "counting"} ELSE {"sending"}
<1>1. CASE PersistOffline
  <2> DEFINE w == [IdleTask EXCEPT !.from = from]
  <2>1. w \in TaskType /\ ~w.sync
    BY DEF IdleTask, TaskType, TaskPCs, DbWaits, Replies, NoAnswer, NoId
  <2>2. Started(q, from, id) = CleanThen(w, "counting")
    BY <1>1 DEF Started
  <2> HIDE DEF w
  <2> QED
    BY <1>1, <2>1, <2>2, CleanThenCounts
<1>2. CASE ~PersistOffline
  <2> DEFINE w == [IdleTask EXCEPT !.cur = First(q), !.from = from]
  <2>1. First(q) \in Answers
    BY FirstIsLeast
  <2>2. w \in TaskType /\ ~w.sync /\ w.cur \in Answers
    BY <2>1 DEF IdleTask, TaskType, TaskPCs, DbWaits, Replies, NoAnswer, NoId
  <2>3. Started(q, from, id) = Request(w, id)
    BY <1>2 DEF Started
  <2> HIDE DEF w
  <2> QED
    BY <1>2, <2>2, <2>3, RequestWellFormed
<1> QED
  BY <1>1, <1>2

(* The synchronous prefixes of the async functions.                         *)
LEMMA ProcessQueueShape ==
  ASSUME Shape, NEW q \in SUBSET Answers, NEW from \in {"app", "retry", "effect"},
         NEW r \in Requests, ProcessQueue(q, from, r)
  PROVE  ActivationsOK' /\ inFlight' \in BOOLEAN
<1>1. CASE Blocked(q, inFlight)
  BY <1>1 DEF ProcessQueue, Shape, ActivationsOK, TypeOK
<1>2. CASE ~Blocked(q, inFlight)
  <2>1. PICK t \in Tasks : Step(t, Started(q, from, rid), r)
    BY <1>2 DEF ProcessQueue
  <2>2. WellFormed(Started(q, from, rid))
    BY <1>2, StartedWellFormed DEF Shape, TypeOK, Blocked
  <2>3. inFlight' \in BOOLEAN
    BY <1>2, ResponseQueueAssumption DEF ProcessQueue
  <2> QED
    BY <2>1, <2>2, <2>3, StepShape DEF Shape
<1> QED
  BY <1>1, <1>2

LEMMA ProcessNextShape ==
  ASSUME Shape, NEW t \in Tasks, NEW q \in SUBSET Answers, NEW id \in Nat,
         NEW r \in Requests, ProcessNext(t, q, id, r)
  PROVE  ActivationsOK' /\ inFlight' \in BOOLEAN
<1>1. CASE Blocked(q, FALSE)
  BY <1>1, StepShape, IdleWellFormed DEF ProcessNext, Shape
<1>2. CASE ~Blocked(q, FALSE)
  <2>1. WellFormed(Started(q, "app", id))
    BY <1>2, StartedWellFormed DEF Shape, Blocked
  <2> QED
    BY <1>2, <2>1, StepShape, ResponseQueueAssumption DEF ProcessNext, Shape
<1> QED
  BY <1>1, <1>2

LEMMA EndSyncShape ==
  ASSUME Shape, NEW t \in Tasks, NEW q \in SUBSET Answers, NEW success, NEW drained,
         NEW r \in Requests, EndSync(t, q, success, drained, r)
  PROVE  ActivationsOK' /\ syncing' \in BOOLEAN /\ syncRef' \in BOOLEAN
<1>1. WellFormed(AfterSync(q, drained))
  BY IdleWellFormed, StartedWellFormed DEF AfterSync, Blocked, Shape, TypeOK
<1>2. Cleared(task[t], success, r) \in Requests
  <2>1. Write("clear", NoAnswer, NoId, NoDisplay, {}) \in WriteType \cup Tasks
    BY DEF Write, WriteType, NoAnswer, NoId, NoDisplay
  <2> QED
    BY <2>1, AppendProperties DEF Cleared, Requests
<1>3. syncing' \in BOOLEAN /\ syncRef' \in BOOLEAN
  BY DEF EndSync, Shape, TypeOK
<1> QED
  BY <1>1, <1>2, <1>3, StepShape DEF EndSync, Shape

LEMMA StartEffectShape ==
  ASSUME Shape, NEW r \in Requests, StartEffect(r)
  PROVE  ActivationsOK' /\ syncRef' \in BOOLEAN
<1>1. CASE ~PersistOffline \/ syncRef
  BY <1>1 DEF StartEffect, Shape, ActivationsOK, TypeOK
<1>2. CASE ~(~PersistOffline \/ syncRef)
  <2> DEFINE w == [IdleTask EXCEPT !.from = "effect"]
  <2>1. w \in TaskType /\ ~w.sync
    BY DEF IdleTask, TaskType, TaskPCs, DbWaits, Replies, NoAnswer, NoId
  <2>2. PICK t \in Tasks : Step(t, CleanThen(w, "effect"), r)
    BY <1>2 DEF StartEffect
  <2>3. syncRef' \in BOOLEAN
    BY <1>2 DEF StartEffect
  <2> HIDE DEF w
  <2> QED
    BY <2>1, <2>2, <2>3, StepShape, CleanThenCounts DEF Shape
<1> QED
  BY <1>1, <1>2

-----------------------------------------------------------------------------
(* The parts of an activation and of the requests that the steps use.       *)
LEMMA ActivationFacts ==
  ASSUME Shape, NEW t \in Tasks
  PROVE  /\ task[t] \in TaskType
         /\ WellFormed(task[t])
         /\ idb # <<>> => Tail(idb) \in Requests /\ Head(idb) \in WriteType \cup Tasks
BY HeadTailProperties DEF Shape, TypeOK, ActivationsOK, Requests

(* processQueue.                                                            *)
LEMMA CleanedUpShape ==
  ASSUME Shape, NEW t \in Tasks, CleanedUp(t)
  PROVE  Shape'
<1> DEFINE w == [task[t] EXCEPT !.pc = task[t].after]
<1>1. Step(t, w, Tail(idb)) /\ task[t].pc = "cleaning" /\ idb # <<>>
  BY DEF CleanedUp, Served
<1>2. WellFormed(w)
  BY <1>1, ActivationFacts DEF WellFormed, TaskType, TaskPCs, DbWaits, SendPCs
<1>3. ActivationsOK'
  BY <1>1, <1>2, ActivationFacts, StepShape DEF Shape
<1>4. /\ processed' \subseteq Answers /\ db' \subseteq Answers
      /\ tracked' \subseteq Answers /\ budget' \in 0 .. MaxFaults
  BY ResponseQueueAssumption DEF CleanedUp, Shape, TypeOK, May, Spend
<1> QED
  BY <1>3, <1>4 DEF CleanedUp, Shape, TypeOK, ActivationsOK, Requests, session,
     outcomes, stored

LEMMA CountedShape ==
  ASSUME Shape, NEW t \in Tasks, Counted(t)
  PROVE  Shape'
<1>1. idb # <<>> /\ Tail(idb) \in Requests
  BY ActivationFacts DEF Counted, Served
<1> DEFINE rest == /\ UNCHANGED <<session, outcomes, stored, queue, tracked>>
                   /\ UNCHANGED <<processed, rid, bootstrap, syncRef, db>>
                   /\ UNCHANGED <<responses, online, budget>>
<1>0. rest
  BY DEF Counted
<1>2. CASE Overtaken /\ Step(t, IdleTask, Tail(idb)) /\ UNCHANGED <<syncing, inFlight>>
  <2>1. ActivationsOK'
    BY <1>1, <1>2, IdleWellFormed, StepShape DEF Shape
  <2> QED
    BY <1>0, <1>2, <2>1 DEF Shape, TypeOK, ActivationsOK, Requests, session,
     outcomes, stored
<1>3. CASE /\ syncing' = TRUE
           /\ Step(t, CleanThen([IdleTask EXCEPT !.sync = TRUE], "reading"), Tail(idb))
           /\ UNCHANGED inFlight
  <2> DEFINE w == [IdleTask EXCEPT !.sync = TRUE]
  <2>1. w \in TaskType /\ w.sync
    BY DEF IdleTask, TaskType, TaskPCs, DbWaits, Replies, NoAnswer, NoId
  <2>2. Step(t, CleanThen(w, "reading"), Tail(idb))
    BY <1>3
  <2>3. ActivationsOK'
    <3> HIDE DEF w
    <3>1. WellFormed(CleanThen(w, "reading"))
      BY <2>1, CleanThenReads
    <3> QED
      BY <1>1, <2>2, <3>1, StepShape DEF Shape
  <2> QED
    BY <1>0, <1>3, <2>3 DEF Shape, TypeOK, ActivationsOK, Requests, session,
     outcomes, stored
<1>4. CASE /\ ~Overtaken /\ inFlight' = TRUE
           /\ Step(t, Request([task[t] EXCEPT !.cur = First(queue)], rid), Tail(idb))
           /\ UNCHANGED syncing
  <2> DEFINE w == [task[t] EXCEPT !.cur = First(queue)]
  <2>1. First(queue) \in Answers
    BY <1>4, FirstIsLeast DEF Overtaken, Shape, TypeOK
  <2>2. w \in TaskType /\ w.cur \in Answers
    BY <2>1, ActivationFacts DEF TaskType
  <2>3. Step(t, Request(w, rid), Tail(idb)) /\ rid \in Nat /\ TypeOK
    BY <1>4 DEF Shape, TypeOK
  <2>4. ActivationsOK'
    <3> HIDE DEF w
    <3> QED
      BY <1>1, <2>2, <2>3, RequestWellFormed, StepShape DEF Shape
  <2> QED
    BY <1>0, <1>4, <2>4 DEF Shape, TypeOK, ActivationsOK, Requests, session,
     outcomes, stored
<1> QED
  BY <1>2, <1>3, <1>4 DEF Counted

LEMMA CountFailsShape ==
  ASSUME Shape, NEW t \in Tasks, CountFails(t)
  PROVE  Shape'
<1>1. idb # <<>> /\ Tail(idb) \in Requests
  BY ActivationFacts DEF CountFails, Served
<1>2. ActivationsOK'
  BY <1>1, IdleWellFormed, StepShape DEF CountFails, Shape
<1>3. budget' \in 0 .. MaxFaults
  BY ResponseQueueAssumption DEF CountFails, Shape, TypeOK, May, Spend
<1> QED
  BY <1>2, <1>3 DEF CountFails, Shape, TypeOK, ActivationsOK, Requests, session,
     outcomes, stored

(* The server.  A request adds a response, extends one or changes nothing.  *)
LEMMA ApplyTyped ==
  ASSUME TypeOK, NEW w \in TaskType, w.cur \in Answers, Apply(w)
  PROVE  responses' \in Seq(ResponseType)
<1>1. CASE Verdict(w) # "ok"
  BY <1>1 DEF Apply, TypeOK
<1>2. CASE Verdict(w) = "ok" /\ w.target = NoId
  <2> DEFINE r == [data |-> w.data, last |-> w.cur, live |-> TRUE, display |-> display]
  <2>1. r \in ResponseType
    BY DEF ResponseType, TaskType, TypeOK
  <2>2. responses' = Append(responses, r)
    BY <1>2 DEF Apply
  <2> QED
    BY <2>1, <2>2, AppendProperties DEF TypeOK
<1>3. CASE Verdict(w) = "ok" /\ w.target # NoId
  <2> DEFINE r == [responses[w.target] EXCEPT !.data = @ \cup w.data, !.last = w.cur]
  <2>1. responses' = [responses EXCEPT ![w.target] = r]
    BY <1>3 DEF Apply
  <2>2. CASE w.target \in 1 .. Len(responses)
    <3>1. responses[w.target] \in ResponseType
      BY <2>2, ElementOfSeq DEF TypeOK
    <3>2. r \in ResponseType
      BY <3>1 DEF ResponseType, TaskType
    <3> QED
      BY <2>1, <2>2, <3>2, ExceptSeq DEF TypeOK
  <2>3. CASE w.target \notin 1 .. Len(responses)
    <3>1. responses' = responses
      BY <2>1, <2>3, LenProperties DEF TypeOK
    <3> QED
      BY <3>1 DEF TypeOK
  <2> QED
    BY <2>2, <2>3
<1> QED
  BY <1>1, <1>2, <1>3

LEMMA RepliedShape ==
  ASSUME Shape, NEW t \in Tasks, task[t].pc = "sending", NEW reply \in Replies,
         responses' \in Seq(ResponseType), budget' \in 0 .. MaxFaults,
         Replied(t, reply), RequestUnchanged
  PROVE  Shape'
<1> DEFINE w == [task[t] EXCEPT !.pc = "replied", !.reply = reply,
                                !.created = Len(responses')]
<1>1. Len(responses') \in Nat
  BY LenProperties
<1>2. WellFormed(w)
  BY <1>1, ActivationFacts, ZenonT(60) DEF WellFormed, TaskType, TaskPCs, DbWaits, SendPCs
<1>3. w \in TaskType
  BY <1>2 DEF WellFormed
<1>4. task' = [task EXCEPT ![t] = w]
  BY DEF Replied
<1> HIDE DEF w
<1>5. task' \in [Tasks -> TaskType] /\ \A u \in Tasks : WellFormed(task'[u])
  BY <1>2, <1>3, <1>4 DEF Shape, ActivationsOK
<1>6. ActivationsOK'
  BY <1>5 DEF Shape, ActivationsOK, RequestUnchanged
<1> QED
  BY <1>6 DEF RequestUnchanged, Shape, TypeOK, ActivationsOK, Requests, session,
     outcomes, stored

LEMMA NetworkShape ==
  ASSUME Shape, NEW t \in Tasks, Network(t)
  PROVE  Shape'
<1>1. task[t] \in TaskType /\ (task[t].pc = "sending" => task[t].cur \in Answers)
  BY ActivationFacts DEF WellFormed, SendPCs
<1>2. budget \in 0 .. MaxFaults /\ responses \in Seq(ResponseType) /\ TypeOK
  BY DEF Shape, TypeOK
<1>3. CASE ServerHandles(t)
  <2>1. responses' \in Seq(ResponseType)
    BY <1>1, <1>2, <1>3, ApplyTyped DEF ServerHandles
  <2>2. Verdict(task[t]) \in Replies
    BY DEF Verdict, Replies
  <2> QED
    BY <1>2, <1>3, <2>1, <2>2, RepliedShape DEF ServerHandles
<1>4. CASE ReplyLost(t)
  <2>1. responses' \in Seq(ResponseType)
    BY <1>1, <1>2, <1>4, ApplyTyped DEF ReplyLost
  <2>2. budget' \in 0 .. MaxFaults
    BY <1>2, <1>4, ResponseQueueAssumption DEF ReplyLost, May, Spend
  <2>3. "unavailable" \in Replies
    BY DEF Replies
  <2> QED
    BY <1>4, <2>1, <2>2, <2>3, RepliedShape DEF ReplyLost
<1>5. CASE RequestFails(t)
  <2>1. budget' \in 0 .. MaxFaults
    BY <1>2, <1>5, ResponseQueueAssumption DEF RequestFails, May, Spend
  <2>2. "unavailable" \in Replies
    BY DEF Replies
  <2> QED
    BY <1>2, <1>5, <2>1, <2>2, RepliedShape DEF RequestFails
<1>6. CASE ServerRefuses(t)
  <2>1. budget' \in 0 .. MaxFaults
    BY <1>2, <1>6, ResponseQueueAssumption DEF ServerRefuses, May, Spend
  <2>2. {"rejected", "recaptcha"} \subseteq Replies
    BY DEF Replies
  <2> QED
    BY <1>2, <1>6, <2>1, <2>2, RepliedShape DEF ServerRefuses
<1> QED
  BY <1>3, <1>4, <1>5, <1>6 DEF Network

-----------------------------------------------------------------------------
(* Sending: the pieces its steps share.                                     *)
LEMMA MovesOn ==
  ASSUME NEW w, WellFormed(w), w.pc \in SendPCs, NEW p \in SendPCs, NEW r \in Replies
  PROVE  /\ WellFormed([w EXCEPT !.pc = p])
         /\ WellFormed([w EXCEPT !.pc = p, !.reply = r])
BY DEF WellFormed, TaskType, TaskPCs, DbWaits, SendPCs

LEMMA FailureShape ==
  ASSUME Shape, NEW t \in Tasks, NEW card \in {"retryable", "permanent"},
         NEW r \in Requests, Failure(t, card, r)
  PROVE  ActivationsOK' /\ inFlight' = FALSE /\ surfaced' = card
BY IdleWellFormed, StepShape DEF Failure, Shape

LEMMA SuccessShape ==
  ASSUME Shape, NEW t \in Tasks, NEW q \in SUBSET Answers, NEW id \in Nat,
         NEW r \in Requests, Success(t, q, id, r)
  PROVE  /\ ActivationsOK' /\ inFlight' \in BOOLEAN
         /\ surfaced' \in {"none", "retryable", "permanent"}
BY ProcessNextShape DEF Success, Shape, TypeOK

LEMMA AdoptTyped ==
  ASSUME Shape, NEW w \in TaskType, w.cur \in Answers, Adopt(w)
  PROVE  /\ rid' \in Nat /\ bootstrap' \in BOOLEAN /\ acked' \subseteq Answers
         /\ Patched(w) \in Requests
<1>1. rid' \in Nat /\ bootstrap' \in BOOLEAN /\ acked' \subseteq Answers
  BY DEF Adopt, IdAfter, Shape, TypeOK, TaskType
<1>2. Write("patchId", NoAnswer, w.created, NoDisplay, {}) \in WriteType \cup Tasks
  BY DEF Write, WriteType, NoAnswer, NoDisplay, TaskType
<1>3. Patched(w) \in Requests
  BY <1>2, AppendProperties DEF Patched, Shape, ActivationsOK, Requests
<1> QED
  BY <1>1, <1>3

LEMMA RemoveRowTyped ==
  ASSUME TypeOK, NEW a \in Answers, NEW removed \in BOOLEAN, RemoveRow(a, removed)
  PROVE  /\ db' \subseteq Answers /\ processed' \subseteq Answers
         /\ budget' \in 0 .. MaxFaults
BY ResponseQueueAssumption DEF RemoveRow, TypeOK, May, Spend

(* Sending: its steps.                                                      *)
LEMMA SendAcceptedShape ==
  ASSUME Shape, NEW t \in Tasks, SendAccepted(t)
  PROVE  Shape'
<1>1. task[t].pc = "replied" /\ WellFormed(task[t])
  BY ActivationFacts DEF SendAccepted, Has, At
<1>2. task[t] \in TaskType /\ task[t].cur \in Answers
  BY <1>1 DEF WellFormed, SendPCs
<1>3. /\ rid' \in Nat /\ bootstrap' \in BOOLEAN /\ acked' \subseteq Answers
      /\ Patched(task[t]) \in Requests
  BY <1>2, AdoptTyped DEF SendAccepted
<1>4. queue' \in SUBSET Answers
  BY DEF SendAccepted, Shape, TypeOK
<1>5. /\ ActivationsOK' /\ inFlight' \in BOOLEAN
      /\ surfaced' \in {"none", "retryable", "permanent"}
  <2>1. CASE task[t].cur \in tracked
    <3>1. WellFormed([task[t] EXCEPT !.pc = "removing"])
      BY <1>1, MovesOn DEF SendPCs, Replies
    <3>2. Step(t, [task[t] EXCEPT !.pc = "removing"], Patched(task[t]))
      BY <2>1 DEF SendAccepted
    <3>3. ActivationsOK'
      BY <1>3, <3>1, <3>2, StepShape DEF Shape
    <3> QED
      BY <2>1, <3>3 DEF SendAccepted, Shape, TypeOK
  <2>2. CASE task[t].cur \notin tracked
    <3>1. Success(t, queue', rid', Patched(task[t]))
      BY <2>2 DEF SendAccepted
    <3> QED
      BY <1>3, <1>4, <3>1, SuccessShape
  <2> QED
    BY <2>1, <2>2
<1> QED
  BY <1>3, <1>4, <1>5 DEF SendAccepted, Shape, TypeOK, ActivationsOK, Requests, session,
     outcomes, stored

LEMMA SendDeferredShape ==
  ASSUME Shape, NEW t \in Tasks, SendDeferred(t)
  PROVE  Shape'
<1>1. ActivationsOK'
  BY IdleWellFormed, StepShape DEF SendDeferred, Shape, ActivationsOK
<1> QED
  BY <1>1 DEF SendDeferred, Shape, TypeOK, ActivationsOK, Requests, session,
     outcomes, stored

LEMMA SendRejectedShape ==
  ASSUME Shape, NEW t \in Tasks, SendRejected(t)
  PROVE  Shape'
<1>1. task[t].pc = "replied" /\ WellFormed(task[t]) /\ idb \in Requests
  BY ActivationFacts DEF SendRejected, Has, At, Shape, ActivationsOK
<1>2. task[t].cur \in Answers
  BY <1>1 DEF WellFormed, SendPCs
<1>3. /\ ActivationsOK' /\ inFlight' \in BOOLEAN
      /\ surfaced' \in {"none", "retryable", "permanent"}
  <2>1. CASE task[t].cur \in tracked
    <3>1. WellFormed([task[t] EXCEPT !.pc = "dropping"])
      BY <1>1, MovesOn DEF SendPCs, Replies
    <3>2. Step(t, [task[t] EXCEPT !.pc = "dropping"], idb)
      BY <2>1 DEF SendRejected
    <3>3. ActivationsOK'
      BY <1>1, <3>1, <3>2, StepShape DEF Shape
    <3> QED
      BY <2>1, <3>3 DEF SendRejected, Shape, TypeOK
  <2>2. CASE task[t].cur \notin tracked
    BY <1>1, <2>2, FailureShape DEF SendRejected
  <2> QED
    BY <2>1, <2>2
<1>4. queue' \subseteq Answers /\ dropped' \subseteq Answers
  BY <1>2 DEF SendRejected, Shape, TypeOK
<1> QED
  BY <1>3, <1>4 DEF SendRejected, Shape, TypeOK, ActivationsOK, Requests, session,
     outcomes, stored

LEMMA RecaptchaFailedShape ==
  ASSUME Shape, NEW t \in Tasks, RecaptchaFailed(t)
  PROVE  Shape'
<1>1. ActivationsOK' /\ inFlight' = FALSE /\ surfaced' = "permanent"
  BY FailureShape DEF RecaptchaFailed, Shape, ActivationsOK
<1> QED
  BY <1>1 DEF RecaptchaFailed, Shape, TypeOK, ActivationsOK, Requests, session,
     outcomes, stored

LEMMA BackOffShape ==
  ASSUME Shape, NEW t \in Tasks, BackOff(t)
  PROVE  Shape'
<1>1. task[t].pc = "replied" /\ WellFormed(task[t]) /\ idb \in Requests
  BY ActivationFacts DEF BackOff, Has, At, Shape, ActivationsOK
<1>2. WellFormed([task[t] EXCEPT !.pc = "backoff", !.reply = "none"])
  BY <1>1, MovesOn DEF SendPCs, Replies
<1>3. ActivationsOK'
  BY <1>1, <1>2, StepShape DEF BackOff, Shape
<1> QED
  BY <1>3 DEF BackOff, Shape, TypeOK, ActivationsOK, Requests, session,
     outcomes, stored

LEMMA ResendShape ==
  ASSUME Shape, NEW t \in Tasks, Resend(t)
  PROVE  Shape'
<1> DEFINE w == [task[t] EXCEPT !.attempt = @ + 1]
<1>1. task[t].pc = "backoff" /\ WellFormed(task[t]) /\ idb \in Requests
  BY ActivationFacts DEF Resend, At, Shape, ActivationsOK
<1>2. w \in TaskType /\ w.cur \in Answers
  BY <1>1 DEF WellFormed, TaskType, SendPCs
<1>3. Step(t, Request(w, rid), idb) /\ rid \in Nat /\ TypeOK
  BY DEF Resend, Shape, TypeOK
<1>4. ActivationsOK'
  <2> HIDE DEF w
  <2> QED
    BY <1>1, <1>2, <1>3, RequestWellFormed, StepShape DEF Shape
<1> QED
  BY <1>4 DEF Resend, Shape, TypeOK, ActivationsOK, Requests, session,
     outcomes, stored

LEMMA GiveUpShape ==
  ASSUME Shape, NEW t \in Tasks, GiveUp(t)
  PROVE  Shape'
<1>1. ActivationsOK' /\ inFlight' = FALSE /\ surfaced' = "retryable"
  BY FailureShape DEF GiveUp, Shape, ActivationsOK
<1> QED
  BY <1>1 DEF GiveUp, Shape, TypeOK, ActivationsOK, Requests, session,
     outcomes, stored

LEMMA SentRowRemovedShape ==
  ASSUME Shape, NEW t \in Tasks, SentRowRemoved(t)
  PROVE  Shape'
<1>1. /\ idb # <<>> /\ Tail(idb) \in Requests /\ TypeOK
      /\ task[t].cur \in Answers
  BY ActivationFacts DEF SentRowRemoved, Served, Shape, WellFormed, SendPCs
<1>2. /\ db' \subseteq Answers /\ processed' \subseteq Answers
      /\ budget' \in 0 .. MaxFaults /\ tracked' \subseteq Answers
  <2>1. PICK removed \in BOOLEAN :
          /\ RemoveRow(task[t].cur, removed)
          /\ tracked' = IF removed THEN tracked \ {task[t].cur} ELSE tracked
    BY DEF SentRowRemoved
  <2> QED
    BY <1>1, <2>1, RemoveRowTyped DEF TypeOK
<1>3. /\ ActivationsOK' /\ inFlight' \in BOOLEAN
      /\ surfaced' \in {"none", "retryable", "permanent"}
  <2>1. CASE task[t].pc = "removing"
    BY <1>1, <2>1, SuccessShape DEF SentRowRemoved, TypeOK
  <2>2. CASE task[t].pc # "removing"
    BY <1>1, <2>2, FailureShape DEF SentRowRemoved
  <2> QED
    BY <2>1, <2>2
<1> QED
  BY <1>2, <1>3 DEF SentRowRemoved, Shape, TypeOK, ActivationsOK, Requests, session,
     outcomes, stored

LEMMA SendingShape ==
  ASSUME Shape, NEW t \in Tasks, Sending(t)
  PROVE  Shape'
BY CleanedUpShape, CountedShape, CountFailsShape, SendAcceptedShape,
   SendDeferredShape, SendRejectedShape, RecaptchaFailedShape, BackOffShape,
   ResendShape, GiveUpShape, SentRowRemovedShape DEF Sending

-----------------------------------------------------------------------------
(* Syncing: the pieces its steps share.                                     *)
LEMMA SendRowShape ==
  ASSUME Shape, NEW t \in Tasks, NEW w \in TaskType, NEW rows \in SUBSET Answers,
         rows # {}, NEW r \in Requests, SendRow(t, w, rows, r)
  PROVE  ActivationsOK' /\ rid' \in Nat
<1> DEFINE a == First(rows)
           v == [w EXCEPT !.cur = a, !.todo = rows \ {a}]
<1>1. a \in Answers /\ IdFor(a) \in Nat
  BY FirstIsLeast DEF IdFor, Shape, TypeOK, SnapshotType
<1>2. v \in TaskType /\ v.cur \in Answers
  BY <1>1 DEF TaskType
<1>3. rid' = IdFor(a) /\ Step(t, Request(v, IdFor(a)), r) /\ TypeOK
  BY DEF SendRow, Shape
<1> HIDE DEF a, v
<1> QED
  BY <1>1, <1>2, <1>3, RequestWellFormed, StepShape DEF Shape

(* Syncing: its steps.                                                      *)
LEMMA EffectCountedShape ==
  ASSUME Shape, NEW t \in Tasks, EffectCounted(t)
  PROVE  Shape'
<1> DEFINE w == [task[t] EXCEPT !.sync = TRUE]
<1>1. /\ idb # <<>> /\ Tail(idb) \in Requests
      /\ UNCHANGED <<session, outcomes, stored, queue, tracked, processed, rid,
                     bootstrap, inFlight, db, responses, online, budget>>
  BY ActivationFacts DEF EffectCounted, Served
<1>2. CASE PendingCount = 0 \/ SyncRefused
  <2>1. ActivationsOK' /\ syncRef' = FALSE /\ syncing' = syncing
    BY <1>1, <1>2, IdleWellFormed, StepShape DEF EffectCounted, Shape
  <2> QED
    BY <1>1, <2>1 DEF Shape, TypeOK, ActivationsOK, Requests, session,
     outcomes, stored
<1>3. CASE ~(PendingCount = 0 \/ SyncRefused)
  <2>1. w \in TaskType /\ w.sync
    BY ActivationFacts DEF TaskType
  <2>2. /\ Step(t, CleanThen(w, "reading"), Tail(idb))
        /\ syncing' = TRUE /\ syncRef' = syncRef
    BY <1>3 DEF EffectCounted
  <2>3. ActivationsOK'
    <3> HIDE DEF w
    <3>1. WellFormed(CleanThen(w, "reading"))
      BY <2>1, CleanThenReads
    <3> QED
      BY <1>1, <2>2, <3>1, StepShape DEF Shape
  <2> QED
    BY <1>1, <2>2, <2>3 DEF Shape, TypeOK, ActivationsOK, Requests, session,
     outcomes, stored
<1> QED
  BY <1>2, <1>3

LEMMA RowsReadShape ==
  ASSUME Shape, NEW t \in Tasks, RowsRead(t)
  PROVE  Shape'
<1>1. /\ idb # <<>> /\ Tail(idb) \in Requests /\ task[t] \in TaskType
      /\ EntriesToSync \in SUBSET Answers /\ queue \in SUBSET Answers
  BY ActivationFacts DEF RowsRead, Served, EntriesToSync, Shape, TypeOK
<1>2. /\ ActivationsOK' /\ rid' \in Nat
      /\ syncing' \in BOOLEAN /\ syncRef' \in BOOLEAN
  <2>1. CASE EntriesToSync = {}
    <3>1. /\ EndSync(t, queue, TRUE, FALSE, Tail(idb))
          /\ UNCHANGED rid
      BY <2>1 DEF RowsRead
    <3> QED
      BY <1>1, <3>1, EndSyncShape DEF Shape, TypeOK
  <2>2. CASE EntriesToSync # {}
    <3>1. /\ SendRow(t, task[t], EntriesToSync, Tail(idb))
          /\ UNCHANGED <<syncing, syncRef>>
      BY <2>2 DEF RowsRead
    <3> QED
      BY <1>1, <2>2, <3>1, SendRowShape DEF Shape, TypeOK
  <2> QED
    BY <2>1, <2>2
<1> QED
  BY <1>2 DEF RowsRead, Shape, TypeOK, ActivationsOK, Requests, session,
     outcomes, stored

LEMMA ReadFailsShape ==
  ASSUME Shape, NEW t \in Tasks, ReadFails(t)
  PROVE  Shape'
<1>1. /\ idb # <<>> /\ Tail(idb) \in Requests /\ queue \in SUBSET Answers
  BY ActivationFacts DEF ReadFails, Served, Shape, TypeOK
<1>2. ActivationsOK' /\ syncing' \in BOOLEAN /\ syncRef' \in BOOLEAN
  BY <1>1, EndSyncShape DEF ReadFails
<1>3. budget' \in 0 .. MaxFaults
  BY ResponseQueueAssumption DEF ReadFails, Shape, TypeOK, May, Spend
<1> QED
  BY <1>2, <1>3 DEF ReadFails, Shape, TypeOK, ActivationsOK, Requests, session,
     outcomes, stored

LEMMA RowAcceptedShape ==
  ASSUME Shape, NEW t \in Tasks, RowAccepted(t)
  PROVE  Shape'
<1>1. task[t].pc = "replied" /\ WellFormed(task[t])
  BY ActivationFacts DEF RowAccepted, Has, At
<1>2. task[t] \in TaskType /\ task[t].cur \in Answers
  BY <1>1 DEF WellFormed, SendPCs
<1>3. /\ rid' \in Nat /\ bootstrap' \in BOOLEAN /\ acked' \subseteq Answers
      /\ Patched(task[t]) \in Requests
  BY <1>2, AdoptTyped DEF RowAccepted
<1>4. WellFormed([task[t] EXCEPT !.pc = "removing"])
  BY <1>1, MovesOn DEF SendPCs, Replies
<1>5. ActivationsOK'
  BY <1>3, <1>4, StepShape DEF RowAccepted, Shape
<1> QED
  BY <1>3, <1>5 DEF RowAccepted, Shape, TypeOK, ActivationsOK, Requests, session,
     outcomes, stored

LEMMA RowRejectedShape ==
  ASSUME Shape, NEW t \in Tasks, RowRejected(t)
  PROVE  Shape'
<1>1. task[t].pc = "replied" /\ WellFormed(task[t]) /\ idb \in Requests
  BY ActivationFacts DEF RowRejected, Has, At, Shape, ActivationsOK
<1>2. WellFormed([task[t] EXCEPT !.pc = "dropping"])
  BY <1>1, MovesOn DEF SendPCs, Replies
<1>3. ActivationsOK'
  BY <1>1, <1>2, StepShape DEF RowRejected, Shape
<1>4. dropped' \subseteq Answers
  BY <1>1 DEF RowRejected, WellFormed, SendPCs, Shape, TypeOK
<1> QED
  BY <1>3, <1>4 DEF RowRejected, Shape, TypeOK, ActivationsOK, Requests, session,
     outcomes, stored

LEMMA RecreateShape ==
  ASSUME Shape, NEW t \in Tasks, Recreate(t)
  PROVE  Shape'
<1>1. task[t].pc = "replied" /\ WellFormed(task[t]) /\ idb \in Requests
  BY ActivationFacts DEF Recreate, Has, At, Shape, ActivationsOK
<1>2. task[t] \in TaskType /\ task[t].cur \in Answers /\ NoId \in Nat /\ TypeOK
  BY <1>1 DEF WellFormed, SendPCs, NoId, Shape
<1>3. ActivationsOK'
  BY <1>1, <1>2, RequestWellFormed, StepShape DEF Recreate, Shape
<1>4. display' \in Nat
  <2>1. snap[task[t].cur].display \in Nat /\ display \in Nat
    BY <1>2 DEF TypeOK, SnapshotType
  <2> QED
    BY <2>1 DEF Recreate
<1> QED
  BY <1>2, <1>3, <1>4 DEF Recreate, Shape, TypeOK, ActivationsOK, Requests, outcomes,
     stored

LEMMA ForgetTyped ==
  ASSUME TypeOK, NEW gone, ForgetProcessed(gone)
  PROVE  queue' \in SUBSET Answers /\ tracked' \in SUBSET Answers
BY DEF ForgetProcessed, TypeOK

LEMMA SyncStoppedShape ==
  ASSUME Shape, NEW t \in Tasks, SyncStopped(t)
  PROVE  Shape'
<1>1. idb \in Requests /\ TypeOK
  BY DEF Shape, ActivationsOK
<1>2. queue' \in SUBSET Answers /\ tracked' \in SUBSET Answers
  BY <1>1, ForgetTyped DEF SyncStopped
<1>3. ActivationsOK' /\ syncing' \in BOOLEAN /\ syncRef' \in BOOLEAN
  BY <1>1, <1>2, EndSyncShape DEF SyncStopped
<1> QED
  BY <1>2, <1>3 DEF SyncStopped, Shape, TypeOK, ActivationsOK, Requests, session,
     outcomes, stored

LEMMA SyncedRowRemovedShape ==
  ASSUME Shape, NEW t \in Tasks, SyncedRowRemoved(t)
  PROVE  Shape'
<1> DEFINE w == [task[t] EXCEPT !.gone = @ \cup {task[t].cur}]
<1>1. /\ idb # <<>> /\ Tail(idb) \in Requests /\ TypeOK
      /\ task[t].cur \in Answers
  BY ActivationFacts DEF SyncedRowRemoved, Served, Shape, WellFormed, SendPCs
<1>2. w \in TaskType /\ w.cur \in Answers /\ w.todo \in SUBSET Answers
  BY <1>1, ActivationFacts DEF TaskType
<1>3. PICK removed \in BOOLEAN :
       /\ RemoveRow(w.cur, removed)
       /\ IF removed /\ w.todo # {}
          THEN /\ SendRow(t, w, w.todo, Tail(idb))
               /\ UNCHANGED <<queue, tracked, syncing, syncRef>>
          ELSE /\ ForgetProcessed(w.gone)
               /\ EndSync(t, queue', removed, removed, Tail(idb))
               /\ UNCHANGED rid
  BY DEF SyncedRowRemoved
<1>4. /\ db' \subseteq Answers /\ processed' \subseteq Answers
      /\ budget' \in 0 .. MaxFaults
  BY <1>1, <1>2, <1>3, RemoveRowTyped
<1> HIDE DEF w
<1>5. /\ ActivationsOK' /\ queue' \subseteq Answers /\ tracked' \subseteq Answers
      /\ rid' \in Nat /\ syncing' \in BOOLEAN /\ syncRef' \in BOOLEAN
  <2>1. CASE removed /\ w.todo # {}
    <3>1. ActivationsOK' /\ rid' \in Nat
      BY <1>1, <1>2, <1>3, <2>1, SendRowShape
    <3> QED
      BY <1>1, <1>3, <2>1, <3>1 DEF TypeOK
  <2>2. CASE ~(removed /\ w.todo # {})
    <3>1. queue' \in SUBSET Answers /\ tracked' \in SUBSET Answers
      BY <1>1, <1>3, <2>2, ForgetTyped
    <3>2. ActivationsOK' /\ syncing' \in BOOLEAN /\ syncRef' \in BOOLEAN
      BY <1>1, <1>3, <2>2, <3>1, EndSyncShape
    <3> QED
      BY <1>1, <1>3, <2>2, <3>1, <3>2 DEF TypeOK
  <2> QED
    BY <2>1, <2>2
<1> QED
  BY <1>4, <1>5 DEF SyncedRowRemoved, Shape, TypeOK, ActivationsOK, Requests, session,
     outcomes, stored

LEMMA SyncingShape ==
  ASSUME Shape, NEW t \in Tasks, Syncing(t)
  PROVE  Shape'
BY EffectCountedShape, RowsReadShape, ReadFailsShape, RowAcceptedShape,
   RowRejectedShape, RecreateShape, SyncStoppedShape, SyncedRowRemovedShape
   DEF Syncing

-----------------------------------------------------------------------------
(* The page, IndexedDB and the environment.                                 *)
LEMMA WritesTyped ==
  ASSUME NEW a \in Answers, NEW id \in Nat, NEW d \in Nat,
         NEW data \in SUBSET Answers, NEW r \in Requests
  PROVE  r \o <<Write("add", a, id, d, {}),
                Write("save", NoAnswer, id, d, data)>> \in Requests
<1> DEFINE add == Write("add", a, id, d, {})
           save == Write("save", NoAnswer, id, d, data)
<1>1. add \in WriteType \cup Tasks /\ save \in WriteType \cup Tasks
  BY DEF Write, WriteType
<1> HIDE DEF add, save
<1>2. <<add, save>> \in Requests
  BY <1>1 DEF Requests
<1>3. r \o <<add, save>> \in Requests
  BY <1>2, ConcatProperties DEF Requests
<1> QED
  BY <1>3 DEF add, save

LEMMA PatchesTyped ==
  ASSUME NEW id \in Nat, NEW d \in Nat, NEW r \in Requests, NEW p, NEW q
  PROVE  r \o (IF p THEN <<Write("patchId", NoAnswer, id, NoDisplay, {})>> ELSE <<>>)
           \o (IF q THEN <<Write("patchDisplay", NoAnswer, NoId, d, {})>> ELSE <<>>)
           \in Requests
<1> DEFINE x == Write("patchId", NoAnswer, id, NoDisplay, {})
           y == Write("patchDisplay", NoAnswer, NoId, d, {})
<1>1. x \in WriteType \cup Tasks /\ y \in WriteType \cup Tasks
  BY DEF Write, WriteType, NoId, NoDisplay
<1> HIDE DEF x, y
<1> DEFINE xs == IF p THEN <<x>> ELSE <<>>
           ys == IF q THEN <<y>> ELSE <<>>
<1>2. xs \in Requests /\ ys \in Requests
  <2>1. <<x>> \in Requests /\ <<y>> \in Requests /\ <<>> \in Requests
    BY <1>1, EmptySeq DEF Requests
  <2> QED
    BY <2>1, Zenon
<1> HIDE DEF xs, ys
<1>3. r \o xs \o ys \in Requests
  BY <1>2, ConcatProperties DEF Requests
<1> QED
  BY <1>3 DEF x, y, xs, ys

LEMMA SubmitShape ==
  ASSUME Shape, Submit
  PROVE  Shape'
<1>1. /\ next \in Answers /\ next' \in 1 .. MaxAnswers + 1
      /\ acc' \in SUBSET Answers /\ queue' \in SUBSET Answers
      /\ idb \in Requests /\ rid \in Nat /\ display \in Nat
  BY ResponseQueueAssumption DEF Submit, CanSubmit, Shape, TypeOK, ActivationsOK,
     Answers
<1>2. ActivationsOK' /\ inFlight' \in BOOLEAN
  <2>1. CASE PersistOffline
    <3>1. /\ idb' = idb \o <<Write("add", next, rid, display, {}),
                             Write("save", NoAnswer, rid, display, acc')>>
          /\ UNCHANGED <<task, inFlight>>
      BY <2>1 DEF Submit
    <3>2. idb' \in Requests
      BY <1>1, <3>1, WritesTyped
    <3> QED
      BY <3>1, <3>2 DEF Shape, TypeOK, ActivationsOK
  <2>2. CASE ~PersistOffline
    <3>1. ProcessQueue(queue', "app", idb)
      BY <2>2 DEF Submit
    <3> QED
      BY <1>1, <3>1, ProcessQueueShape
  <2> QED
    BY <2>1, <2>2
<1> QED
  BY <1>1, <1>2 DEF Submit, Shape, TypeOK, ActivationsOK, Requests, session,
     outcomes, stored

LEMMA StorageShape ==
  ASSUME Shape, Storage
  PROVE  Shape'
<1>1. /\ queue \in SUBSET Answers
      /\ idb # <<>> => Tail(idb) \in Requests /\ Head(idb) \in WriteType \cup Tasks
  BY HeadTailProperties DEF Shape, TypeOK, ActivationsOK, Requests
<1>2. CASE AnswerStored
  <2>1. idb # <<>> /\ Head(idb) \in WriteType /\ Head(idb).op = "add"
    BY <1>1, <1>2 DEF AnswerStored, Writing
  <2>2. /\ Head(idb).answer \in Answers
        /\ Snapshot(Head(idb).rid, Head(idb).display) \in SnapshotType
    BY <2>1 DEF WriteType, Snapshot, SnapshotType
  <2>3. ActivationsOK' /\ inFlight' \in BOOLEAN
    BY <1>1, <1>2, <2>1, ProcessQueueShape DEF AnswerStored
  <2>4. /\ db' \subseteq Answers /\ snap' \in [Answers -> SnapshotType]
        /\ tracked' \subseteq Answers
    BY <1>2, <2>2 DEF AnswerStored, Shape, TypeOK
  <2>5. UNCHANGED <<session, outcomes, progress, queue, processed, rid, bootstrap,
                    syncRef, syncing, responses, online, budget>>
    BY <1>2 DEF AnswerStored
  <2> QED
    BY <2>3, <2>4, <2>5 DEF Shape, TypeOK, ActivationsOK, Requests, session,
     outcomes
<1>3. CASE AnswerNotStored
  <2>1. ActivationsOK' /\ inFlight' \in BOOLEAN
    BY <1>1, <1>3, ProcessQueueShape DEF AnswerNotStored, Writing
  <2>2. budget' \in 0 .. MaxFaults
    BY <1>3, ResponseQueueAssumption DEF AnswerNotStored, Shape, TypeOK, May, Spend
  <2> QED
    BY <1>3, <2>1, <2>2 DEF AnswerNotStored, Shape, TypeOK, ActivationsOK, Requests, session,
     outcomes, stored
<1>4. CASE ProgressWritten
  <2>1. idb # <<>> /\ Head(idb) \in WriteType /\ idb' = Tail(idb)
    BY <1>1, <1>4 DEF ProgressWritten, Writing
  <2>2. progress' \in ProgressType
    <3>1. /\ Head(idb).rid \in Nat /\ Head(idb).display \in Nat
          /\ Head(idb).acc \in SUBSET Answers
      BY <2>1 DEF WriteType
    <3>2. progress \in ProgressType
      BY DEF Shape, TypeOK
    <3>3. CASE \E op \in {"patchId", "patchDisplay"} : progress' = Patch(op, Head(idb))
      <4>1. [progress EXCEPT !.rid = Head(idb).rid] \in ProgressType
        BY <3>1, <3>2 DEF ProgressType
      <4>2. [progress EXCEPT !.display = Head(idb).display] \in ProgressType
        BY <3>1, <3>2 DEF ProgressType
      <4>3. progress.saved \in BOOLEAN
        BY <3>2 DEF ProgressType
      <4> QED
        BY <3>2, <3>3, <4>1, <4>2, <4>3, Zenon DEF Patch
    <3>4. CASE progress' = NoProgress
      BY <3>4 DEF NoProgress, NoId, NoDisplay, ProgressType
    <3>5. CASE progress' = [saved |-> TRUE, rid |-> Head(idb).rid,
                            display |-> Head(idb).display, acc |-> Head(idb).acc]
      BY <3>1, <3>5 DEF ProgressType
    <3>6. \/ \E op \in {"patchId", "patchDisplay"} : progress' = Patch(op, Head(idb))
          \/ progress' = [saved |-> TRUE, rid |-> Head(idb).rid,
                          display |-> Head(idb).display, acc |-> Head(idb).acc]
          \/ progress' = NoProgress
      BY <1>4, Zenon DEF ProgressWritten
    <3> QED
      BY <3>3, <3>4, <3>5, <3>6
  <2>3. ActivationsOK'
    BY <1>1, <1>4, <2>1 DEF ProgressWritten, Shape, ActivationsOK
  <2> QED
    BY <1>4, <2>2, <2>3 DEF ProgressWritten, Shape, TypeOK, ActivationsOK, Requests, session,
     outcomes, stored
<1> QED
  BY <1>2, <1>3, <1>4 DEF Storage

LEMMA RetryShape ==
  ASSUME Shape, Retry
  PROVE  Shape'
<1>1. ActivationsOK' /\ inFlight' \in BOOLEAN
  BY ProcessQueueShape DEF Retry, Shape, TypeOK, ActivationsOK
<1> QED
  BY <1>1 DEF Retry, Shape, TypeOK, ActivationsOK, Requests, session,
     outcomes, stored

LEMMA GoOnlineShape ==
  ASSUME Shape, GoOnline
  PROVE  Shape'
<1>1. ActivationsOK' /\ syncRef' \in BOOLEAN
  <2>1. CASE page = "ready"
    BY <2>1, StartEffectShape DEF GoOnline, Shape, ActivationsOK
  <2>2. CASE page # "ready"
    BY <2>2 DEF GoOnline, Shape, TypeOK, ActivationsOK
  <2> QED
    BY <2>1, <2>2
<1> QED
  BY <1>1 DEF GoOnline, Shape, TypeOK, ActivationsOK, Requests, session,
     outcomes, stored

LEMMA GoOfflineShape ==
  ASSUME Shape, GoOffline
  PROVE  Shape'
<1>1. budget' \in 0 .. MaxFaults
  BY ResponseQueueAssumption DEF GoOffline, Shape, TypeOK, May, Spend
<1> QED
  BY <1>1 DEF GoOffline, Shape, TypeOK, ActivationsOK, Requests, session,
     outcomes, stored

LEMMA ReloadShape ==
  ASSUME Shape, Reload
  PROVE  Shape'
<1>1. budget' \in 0 .. MaxFaults
  BY ResponseQueueAssumption DEF Reload, Shape, TypeOK, May, Spend
<1>2. task' = [t \in Tasks |-> IdleTask] /\ idb' = <<>>
  BY DEF Reload
<1>3. IdleTask \in TaskType
  BY IdleWellFormed DEF WellFormed
<1>4. ActivationsOK'
  BY <1>2, <1>3, IdleWellFormed, EmptySeq DEF ActivationsOK, Requests
<1> QED
  BY <1>1, <1>4 DEF Reload, NoId, NoDisplay, Shape, TypeOK, ActivationsOK, Requests, session,
     outcomes, stored

LEMMA CreateDisplayTyped ==
  ASSUME Shape, NEW d \in Nat, CreateDisplay(d)
  PROVE  display' \in Nat /\ displays' \in Nat
BY DEF CreateDisplay, Shape, TypeOK

LEMMA StartFreshShape ==
  ASSUME Shape, StartFresh
  PROVE  Shape'
<1>1. ActivationsOK' /\ syncRef' \in BOOLEAN
  BY StartEffectShape DEF StartFresh, Shape, TypeOK, ActivationsOK
<1>2. progress' \in ProgressType
  BY DEF StartFresh, NoProgress, NoId, NoDisplay, ProgressType
<1>3. display' \in Nat /\ displays' \in Nat
  BY CreateDisplayTyped DEF StartFresh, NoDisplay
<1> QED
  BY <1>1, <1>2, <1>3 DEF StartFresh, Shape, TypeOK, ActivationsOK, Requests, outcomes

LEMMA LookupTyped ==
  ASSUME Shape, NEW ids \in SUBSET (DOMAIN responses), Live(ids) # {}
  PROVE  First(Live(ids)) \in Nat
<1>1. Live(ids) \in SUBSET Nat
  BY LenProperties DEF Live, Shape, TypeOK
<1> QED
  BY <1>1, LeastNat

LEMMA RestoreShape ==
  ASSUME Shape, Restore
  PROVE  Shape'
<1>1. PICK answered \in BOOLEAN :
        LET unknown == PendingCount = 0 /\ progress.rid = NoId
            ids == IF unknown /\ answered /\ progress.display # NoDisplay
                   THEN ResponsesOf(progress.display) ELSE {}
            found == Live(ids) # {}
            id == IF found THEN First(Live(ids)) ELSE progress.rid
            gone == ids # {} /\ ~found
            requests ==
              idb \o (IF found THEN <<Write("patchId", NoAnswer, id, NoDisplay, {})>>
                               ELSE <<>>)
                  \o (IF display' # progress.display
                      THEN <<Write("patchDisplay", NoAnswer, NoId, display', {})>>
                      ELSE <<>>)
        IN
        /\ CreateDisplay(IF gone THEN NoDisplay ELSE progress.display)
        /\ rid' = id
        /\ bootstrap' = (unknown /\ ~found)
        /\ IF online THEN StartEffect(requests)
           ELSE UNCHANGED <<task, syncRef>> /\ idb' = requests
  BY DEF Restore
<1> DEFINE unknown == PendingCount = 0 /\ progress.rid = NoId
           ids == IF unknown /\ answered /\ progress.display # NoDisplay
                  THEN ResponsesOf(progress.display) ELSE {}
           found == Live(ids) # {}
           id == IF found THEN First(Live(ids)) ELSE progress.rid
           gone == ids # {} /\ ~found
           d == IF gone THEN NoDisplay ELSE progress.display
           other == display' # progress.display
           requests ==
             idb \o (IF found THEN <<Write("patchId", NoAnswer, id, NoDisplay, {})>>
                              ELSE <<>>)
                 \o (IF other THEN <<Write("patchDisplay", NoAnswer, NoId, display', {})>>
                     ELSE <<>>)
<1>2. /\ CreateDisplay(d) /\ rid' = id /\ bootstrap' \in BOOLEAN
      /\ IF online THEN StartEffect(requests)
         ELSE UNCHANGED <<task, syncRef>> /\ idb' = requests
  BY <1>1
<1>3. progress.rid \in Nat /\ progress.display \in Nat /\ progress.acc \in SUBSET Answers
  BY DEF Shape, TypeOK, ProgressType
<1>4. id \in Nat
  <2>1. ids \in SUBSET (DOMAIN responses)
    BY DEF ResponsesOf
  <2> HIDE DEF ids
  <2> QED
    BY <1>3, <2>1, LookupTyped
<1>5. d \in Nat
  <2> HIDE DEF gone
  <2> QED
    BY <1>3 DEF NoDisplay
<1> HIDE DEF id, found, d, unknown, ids, other
<1>6. display' \in Nat /\ displays' \in Nat
  BY <1>2, <1>5, CreateDisplayTyped
<1>7. requests \in Requests
  BY <1>4, <1>6, PatchesTyped DEF Shape, ActivationsOK
<1> HIDE DEF requests
<1>8. ActivationsOK' /\ syncRef' \in BOOLEAN
  <2>1. CASE online
    BY <1>2, <1>7, <2>1, StartEffectShape
  <2>2. CASE ~online
    BY <1>2, <1>7, <2>2 DEF Shape, TypeOK, ActivationsOK
  <2> QED
    BY <2>1, <2>2
<1>9. /\ UNCHANGED <<next, outcomes, stored, queue, tracked, processed, syncing,
                     inFlight, db, responses, online, budget>>
      /\ page' = "ready" /\ acc' = progress.acc
  BY DEF Restore
<1> QED
  BY <1>2, <1>3, <1>4, <1>6, <1>8, <1>9 DEF Shape, TypeOK, ActivationsOK, Requests,
     outcomes, stored

LEMMA PageShape ==
  ASSUME Shape, Page
  PROVE  Shape'
BY StartFreshShape, RestoreShape DEF Page

LEMMA DeleteShape ==
  ASSUME Shape, Delete
  PROVE  Shape'
<1>1. budget' \in 0 .. MaxFaults
  BY ResponseQueueAssumption DEF Delete, Shape, TypeOK, May, Spend
<1>2. responses' \in Seq(ResponseType)
  <2>1. PICK i \in DOMAIN responses :
          responses' = [responses EXCEPT ![i].live = FALSE]
    BY DEF Delete
  <2> DEFINE r == [responses[i] EXCEPT !.live = FALSE]
  <2>2. i \in 1 .. Len(responses) /\ responses[i] \in ResponseType
    BY <2>1, LenProperties DEF Shape, TypeOK
  <2>3. r \in ResponseType /\ responses' = [responses EXCEPT ![i] = r]
    BY <2>1, <2>2 DEF ResponseType
  <2> HIDE DEF r
  <2> QED
    BY <2>2, <2>3, ExceptSeq DEF Shape, TypeOK
<1> QED
  BY <1>1, <1>2 DEF Delete, Shape, TypeOK, ActivationsOK, Requests, session,
     outcomes, stored

(* Every activation keeps its shape and every variable its type.            *)
LEMMA ShapeInductive == Shape /\ [Next]_vars => Shape'
<1> SUFFICES ASSUME Shape, [Next]_vars PROVE Shape'
  OBVIOUS
<1>1. CASE \E t \in Tasks : Activation(t)
  BY <1>1, SendingShape, SyncingShape, NetworkShape DEF Activation
<1>2. CASE UNCHANGED vars
  BY <1>2 DEF vars, WellFormed, Shape, TypeOK, ActivationsOK, Requests, session,
     outcomes, stored
<1> QED
  BY <1>1, <1>2, StorageShape, PageShape, SubmitShape, RetryShape, GoOnlineShape,
     GoOfflineShape, ReloadShape, DeleteShape DEF Next

LEMMA ShapeInitially == Init => Shape
<1> SUFFICES ASSUME Init PROVE Shape
  OBVIOUS
<1>1. IdleTask \in TaskType
  BY IdleWellFormed DEF WellFormed
<1>2. ActivationsOK
  BY <1>1, IdleWellFormed, EmptySeq DEF Init, ActivationsOK, Requests
<1>3. responses \in Seq(ResponseType)
  BY EmptySeq DEF Init
<1>4. task \in [Tasks -> TaskType] /\ idb \in Seq(WriteType \cup Tasks)
  BY <1>2 DEF ActivationsOK, Requests
<1>5. /\ snap \in [Answers -> SnapshotType] /\ progress \in ProgressType
      /\ display \in Nat /\ displays \in Nat
  BY DEF Init, NoId, NoDisplay, NoProgress, Snapshot, SnapshotType, ProgressType
<1>6. next \in 1 .. MaxAnswers + 1 /\ budget \in 0 .. MaxFaults /\ rid \in Nat
  BY ResponseQueueAssumption DEF Init, NoId
<1>7. TypeOK
  BY <1>3, <1>4, <1>5, <1>6 DEF Init, TypeOK
<1> QED
  BY <1>2, <1>7 DEF Shape

(* Every variable keeps its type, whatever is answered, fails or is         *)
(* reloaded, and every request carries an answer that was given.            *)
THEOREM TypeCorrect == Spec => []TypeOK
<1>1. Shape => TypeOK
  BY DEF Shape
<1> QED
  BY <1>1, ShapeInitially, ShapeInductive, PTL DEF Spec

-----------------------------------------------------------------------------
(* The locks.  SingleFlight is not inductive: that two activations never    *)
(* send together rests on what the locks mean.  An activation that drains   *)
(* IndexedDB holds syncing, one that sends from memory holds inFlight, no   *)
(* lock is held without such an activation, and the two never together.     *)
LocksOK ==
  /\ ~(syncing /\ inFlight)
  /\ \A t \in Tasks : Draining(t) => syncing
  /\ \A t \in Tasks : Delivering(t) => inFlight
  /\ SingleFlight
  /\ LocksHeld

(* One activation moves to w.  The locks keep their meaning if w holds what *)
(* it needs, if it sends only when it already did or when both locks were   *)
(* free, if a lock that is released was its own, and if a lock that is held *)
(* is held for w or for another.                                            *)
LEMMA LocksStep ==
  ASSUME Shape, LocksOK, NEW t \in Tasks, NEW w \in TaskType,
         task' = [task EXCEPT ![t] = w],
         ~(syncing' /\ inFlight'),
         w.sync => syncing',
         w.pc \in SendPCs /\ ~w.sync => inFlight',
         w.sync \/ w.pc \in SendPCs => Engaged(t) \/ ~(syncing \/ inFlight),
         syncing => syncing' \/ Draining(t),
         inFlight => inFlight' \/ Delivering(t),
         syncing' => w.sync \/ (syncing /\ ~Draining(t)),
         inFlight' => (~w.sync /\ w.pc \in SendPCs) \/ (inFlight /\ ~Delivering(t))
  PROVE  LocksOK'
<1>1. \A u \in Tasks : task'[u] = IF u = t THEN w ELSE task[u]
  BY DEF Shape, TypeOK
<1>2. ASSUME NEW u \in Tasks, u # t, Engaged(u)
      PROVE  /\ ~(w.sync \/ w.pc \in SendPCs)
             /\ Draining(u) => syncing'
             /\ Delivering(u) => inFlight'
  <2>1. ~Engaged(t)
    BY <1>2 DEF LocksOK, SingleFlight
  <2>2. syncing \/ inFlight
    BY <1>2 DEF LocksOK, Engaged
  <2> QED
    BY <1>2, <2>1, <2>2 DEF LocksOK, Engaged
<1>3. \A u \in Tasks : /\ Draining(u)' <=> IF u = t THEN w.sync ELSE Draining(u)
                       /\ Delivering(u)' <=> IF u = t THEN ~w.sync /\ w.pc \in SendPCs
                                            ELSE Delivering(u)
  BY <1>1 DEF Draining, Delivering
<1>4. \A u \in Tasks : Engaged(u)' => Engaged(u) \/ u = t
  BY <1>3 DEF Engaged
<1>5. \A u \in Tasks : Draining(u)' => syncing'
  BY <1>2, <1>3 DEF Engaged
<1>6. \A u \in Tasks : Delivering(u)' => inFlight'
  BY <1>2, <1>3 DEF Engaged
<1>7. ASSUME NEW u \in Tasks, NEW v \in Tasks, Engaged(u)', Engaged(v)'
      PROVE  u = v
  <2>1. Engaged(t)' => w.sync \/ w.pc \in SendPCs
    BY <1>3 DEF Engaged
  <2>2. CASE u # t /\ v # t
    BY <1>4, <1>7, <2>2 DEF LocksOK, SingleFlight
  <2>3. CASE u = t /\ v # t
    BY <1>2, <1>4, <1>7, <2>1, <2>3
  <2>4. CASE u # t /\ v = t
    BY <1>2, <1>4, <1>7, <2>1, <2>4
  <2> QED
    BY <2>2, <2>3, <2>4
<1>8. SingleFlight'
  BY <1>7 DEF SingleFlight
<1>9. ASSUME syncing'
      PROVE  \E u \in Tasks : Draining(u)'
  <2>1. CASE w.sync
    BY <1>3, <2>1
  <2>2. CASE ~w.sync
    <3>1. PICK u \in Tasks : Draining(u)
      BY <1>9, <2>2 DEF LocksOK, LocksHeld
    <3> QED
      BY <1>3, <1>9, <2>2, <3>1
  <2> QED
    BY <2>1, <2>2
<1>10. ASSUME inFlight'
       PROVE  \E u \in Tasks : Delivering(u)'
  <2>1. CASE ~w.sync /\ w.pc \in SendPCs
    BY <1>3, <2>1
  <2>2. CASE ~(~w.sync /\ w.pc \in SendPCs)
    <3>1. PICK u \in Tasks : Delivering(u)
      BY <1>10, <2>2 DEF LocksOK, LocksHeld
    <3> QED
      BY <1>3, <1>10, <2>2, <3>1
  <2> QED
    BY <2>1, <2>2
<1>11. LocksHeld'
  BY <1>9, <1>10 DEF LocksHeld
<1> QED
  BY <1>5, <1>6, <1>8, <1>11 DEF LocksOK

(* The activation goes on as it was, the locks stay.                        *)
LEMMA LocksKept ==
  ASSUME Shape, LocksOK, NEW t \in Tasks, NEW w \in TaskType,
         task' = [task EXCEPT ![t] = w], UNCHANGED <<syncing, inFlight>>,
         w.sync <=> Draining(t),
         ~w.sync /\ w.pc \in SendPCs <=> Delivering(t)
  PROVE  LocksOK'
<1>1. Draining(t) => syncing
  BY DEF LocksOK
<1>2. Delivering(t) => inFlight
  BY DEF LocksOK
<1>3. ~(syncing' /\ inFlight')
  BY DEF LocksOK
<1>4. w.sync \/ w.pc \in SendPCs => Engaged(t) \/ ~(syncing \/ inFlight)
  BY DEF Engaged
<1> QED
  BY <1>1, <1>2, <1>3, <1>4, LocksStep

LEMMA IdleEngagement == IdleTask \in TaskType /\ ~IdleTask.sync /\ IdleTask.pc \notin SendPCs
BY IdleWellFormed DEF WellFormed, IdleTask, SendPCs

(* An activation that is not started or that waits for a count holds no lock.*)
LEMMA CountingIsUnlocked ==
  ASSUME Shape, NEW t \in Tasks, task[t].pc \in {"idle", "counting", "effect"}
  PROVE  ~Draining(t) /\ ~Delivering(t)
BY ActivationFacts DEF WellFormed, Draining, Delivering, SendPCs

LEMMA ProcessQueueLocks ==
  ASSUME Shape, LocksOK, NEW q \in SUBSET Answers,
         NEW from \in {"app", "retry", "effect"}, NEW r,
         ProcessQueue(q, from, r), UNCHANGED syncing
  PROVE  LocksOK'
<1>1. CASE Blocked(q, inFlight)
  BY <1>1 DEF ProcessQueue, LocksOK, LocksHeld, SingleFlight, Engaged, Draining, Delivering
<1>2. CASE ~Blocked(q, inFlight)
  <2> DEFINE w == Started(q, from, rid)
  <2>1. PICK t \in Tasks : task' = [task EXCEPT ![t] = w]
    BY <1>2 DEF ProcessQueue, Step
  <2>2. /\ WellFormed(w) /\ ~w.sync
        /\ w.pc \in IF PersistOffline THEN {"cleaning", "counting"} ELSE {"sending"}
    BY <1>2, StartedWellFormed DEF Shape, TypeOK, Blocked
  <2>3. /\ ~inFlight /\ ~syncing /\ ~syncing' /\ inFlight' = ~PersistOffline
        /\ syncing \in BOOLEAN /\ inFlight \in BOOLEAN
    BY <1>2 DEF Blocked, ProcessQueue, Shape, TypeOK
  <2> HIDE DEF w
  <2>4. w \in TaskType /\ (w.pc \in SendPCs <=> inFlight')
    BY <2>2, <2>3, ResponseQueueAssumption DEF WellFormed, SendPCs
  <2> QED
    BY <2>1, <2>2, <2>3, <2>4, LocksStep
<1> QED
  BY <1>1, <1>2

LEMMA ProcessNextLocks ==
  ASSUME Shape, LocksOK, NEW t \in Tasks, Delivering(t), NEW q \in SUBSET Answers,
         NEW id \in Nat, NEW r, ProcessNext(t, q, id, r), UNCHANGED syncing
  PROVE  LocksOK'
<1>1. inFlight /\ ~syncing /\ ~syncing'
  BY DEF LocksOK
<1>2. CASE Blocked(q, FALSE)
  <2>1. task' = [task EXCEPT ![t] = IdleTask] /\ inFlight' = FALSE
    BY <1>2 DEF ProcessNext, Step
  <2> QED
    BY <1>1, <2>1, IdleEngagement, LocksStep
<1>3. CASE ~Blocked(q, FALSE)
  <2> DEFINE w == Started(q, "app", id)
  <2>1. task' = [task EXCEPT ![t] = w] /\ inFlight' = ~PersistOffline
    BY <1>3 DEF ProcessNext, Step
  <2>2. /\ WellFormed(w) /\ ~w.sync
        /\ w.pc \in IF PersistOffline THEN {"cleaning", "counting"} ELSE {"sending"}
    BY <1>3, StartedWellFormed DEF Shape, Blocked
  <2> HIDE DEF w
  <2>3. w \in TaskType /\ (w.pc \in SendPCs <=> inFlight')
    BY <2>1, <2>2, ResponseQueueAssumption DEF WellFormed, SendPCs
  <2>4. Engaged(t)
    BY DEF Engaged
  <2> QED
    BY <1>1, <2>1, <2>2, <2>3, <2>4, LocksStep
<1> QED
  BY <1>2, <1>3

LEMMA EndSyncLocks ==
  ASSUME Shape, LocksOK, NEW t \in Tasks, Draining(t), NEW q, NEW success,
         NEW drained, NEW r, EndSync(t, q, success, drained, r), UNCHANGED inFlight
  PROVE  LocksOK'
<1>1. syncing /\ ~inFlight
  BY DEF LocksOK
<1>2. AfterSync(q, drained) = IdleTask
  BY <1>1 DEF AfterSync, Blocked
<1>3. task' = [task EXCEPT ![t] = IdleTask] /\ syncing' = FALSE
  BY <1>2 DEF EndSync, Step
<1> QED
  BY <1>1, <1>3, IdleEngagement, LocksStep

LEMMA FailureLocks ==
  ASSUME Shape, LocksOK, NEW t \in Tasks, Delivering(t), NEW card, NEW r,
         Failure(t, card, r), UNCHANGED syncing
  PROVE  LocksOK'
<1>1. inFlight /\ ~syncing
  BY DEF LocksOK
<1>2. task' = [task EXCEPT ![t] = IdleTask] /\ inFlight' = FALSE
  BY DEF Failure, Step
<1> QED
  BY <1>1, <1>2, IdleEngagement, LocksStep

LEMMA StartEffectLocks ==
  ASSUME Shape, LocksOK, NEW r, StartEffect(r), UNCHANGED <<syncing, inFlight>>
  PROVE  LocksOK'
<1>1. CASE ~PersistOffline \/ syncRef
  BY <1>1 DEF StartEffect, LocksOK, LocksHeld, SingleFlight, Engaged, Draining, Delivering
<1>2. CASE ~(~PersistOffline \/ syncRef)
  <2> DEFINE v == [IdleTask EXCEPT !.from = "effect"]
             w == CleanThen(v, "effect")
  <2>1. v \in TaskType /\ ~v.sync
    BY DEF IdleTask, TaskType, TaskPCs, DbWaits, Replies, NoAnswer, NoId
  <2>2. PICK t \in Tasks : Free(t) /\ task' = [task EXCEPT ![t] = w]
    BY <1>2 DEF StartEffect, Step
  <2> HIDE DEF v
  <2>3. w \in TaskType /\ ~w.sync /\ w.pc \notin SendPCs
    BY <2>1, CleanThenCounts DEF WellFormed, SendPCs
  <2> HIDE DEF w
  <2>4. ~Draining(t) /\ ~Delivering(t)
    BY <2>2, CountingIsUnlocked DEF Free
  <2> QED
    BY <2>2, <2>3, <2>4, LocksKept
<1> QED
  BY <1>1, <1>2

(* The locks, step by step.                                                 *)

LEMMA CleanedUpLocks ==
  ASSUME Shape, LocksOK, NEW t \in Tasks, CleanedUp(t)
  PROVE  LocksOK'
<1> DEFINE w == [task[t] EXCEPT !.pc = task[t].after]
<1>1. /\ task' = [task EXCEPT ![t] = w] /\ task[t].pc = "cleaning"
      /\ UNCHANGED <<syncing, inFlight>>
  BY DEF CleanedUp, Step
<1>2. w \in TaskType /\ w.sync = task[t].sync /\ w.pc \notin SendPCs
  BY <1>1, ActivationFacts DEF WellFormed, TaskType, SendPCs
<1>3. ~Delivering(t)
  BY <1>1 DEF Delivering, SendPCs
<1> HIDE DEF w
<1> QED
  BY <1>1, <1>2, <1>3, LocksKept DEF Draining

LEMMA CountedLocks ==
  ASSUME Shape, LocksOK, NEW t \in Tasks, Counted(t)
  PROVE  LocksOK'
<1>0. ~Draining(t) /\ ~Delivering(t)
  BY CountingIsUnlocked DEF Counted
<1>1. CASE Overtaken /\ Step(t, IdleTask, Tail(idb)) /\ UNCHANGED <<syncing, inFlight>>
  BY <1>0, <1>1, IdleEngagement, LocksKept DEF Step
<1>2. CASE /\ ~Overtaken /\ syncing' = TRUE
           /\ Step(t, CleanThen([IdleTask EXCEPT !.sync = TRUE], "reading"), Tail(idb))
           /\ UNCHANGED inFlight
  <2> DEFINE v == [IdleTask EXCEPT !.sync = TRUE]
             w == CleanThen(v, "reading")
  <2>1. v \in TaskType /\ v.sync
    BY DEF IdleTask, TaskType, TaskPCs, DbWaits, Replies, NoAnswer, NoId
  <2>2. task' = [task EXCEPT ![t] = w]
    BY <1>2 DEF Step
  <2> HIDE DEF v
  <2>3. w \in TaskType /\ w.sync
    BY <2>1, CleanThenReads DEF WellFormed
  <2> HIDE DEF w
  <2>4. ~syncing /\ ~inFlight /\ ~inFlight'
    BY <1>2 DEF Overtaken
  <2> QED
    BY <1>2, <2>2, <2>3, <2>4, LocksStep
<1>3. CASE /\ ~Overtaken /\ inFlight' = TRUE
           /\ Step(t, Request([task[t] EXCEPT !.cur = First(queue)], rid), Tail(idb))
           /\ UNCHANGED syncing
  <2> DEFINE v == [task[t] EXCEPT !.cur = First(queue)]
             w == Request(v, rid)
  <2>1. First(queue) \in Answers /\ rid \in Nat /\ TypeOK
    BY <1>3, FirstIsLeast DEF Overtaken, Shape, TypeOK
  <2>2. v \in TaskType /\ v.cur \in Answers /\ ~v.sync
    BY <2>1, ActivationFacts DEF Counted, WellFormed, TaskType
  <2>3. task' = [task EXCEPT ![t] = w]
    BY <1>3 DEF Step
  <2> HIDE DEF v
  <2>4. w \in TaskType /\ ~w.sync /\ w.pc \in SendPCs
    BY <2>1, <2>2, RequestWellFormed DEF WellFormed, SendPCs
  <2> HIDE DEF w
  <2>5. ~syncing /\ ~inFlight /\ ~syncing'
    BY <1>3 DEF Overtaken
  <2> QED
    BY <1>3, <2>3, <2>4, <2>5, LocksStep
<1> QED
  BY <1>1, <1>2, <1>3 DEF Counted

LEMMA CountFailsLocks ==
  ASSUME Shape, LocksOK, NEW t \in Tasks, CountFails(t)
  PROVE  LocksOK'
BY CountingIsUnlocked, IdleEngagement, LocksKept DEF CountFails, Step

LEMMA RepliedLocks ==
  ASSUME Shape, LocksOK, NEW t \in Tasks, task[t].pc = "sending",
         NEW reply \in Replies, Shape', Replied(t, reply), RequestUnchanged
  PROVE  LocksOK'
<1> DEFINE w == [task[t] EXCEPT !.pc = "replied", !.reply = reply,
                                !.created = Len(responses')]
<1>1. task' = [task EXCEPT ![t] = w] /\ UNCHANGED <<syncing, inFlight>>
  BY DEF Replied, RequestUnchanged
<1>2. w.sync = task[t].sync /\ w.pc \in SendPCs /\ task[t].pc \in SendPCs
  BY ActivationFacts DEF TaskType, SendPCs
<1>3. w \in TaskType
  <2>1. task'[t] = w
    BY <1>1 DEF Shape, TypeOK
  <2> QED
    BY <2>1 DEF Shape, TypeOK
<1> HIDE DEF w
<1> QED
  BY <1>1, <1>2, <1>3, LocksKept DEF Draining, Delivering

LEMMA NetworkLocks ==
  ASSUME Shape, LocksOK, NEW t \in Tasks, Network(t)
  PROVE  LocksOK'
<1>1. Shape'
  BY NetworkShape
<1>2. Verdict(task[t]) \in Replies
  BY DEF Verdict, Replies
<1>3. PICK reply \in Replies : Replied(t, reply)
  BY <1>2 DEF Network, ServerHandles, ReplyLost, RequestFails, ServerRefuses, Replies
<1>4. task[t].pc = "sending" /\ RequestUnchanged
  BY DEF Network, ServerHandles, ReplyLost, RequestFails, ServerRefuses
<1> QED
  BY <1>1, <1>3, <1>4, RepliedLocks

(* A send that goes on: only where the activation waits changes.            *)
LEMMA MovesOnLocks ==
  ASSUME Shape, LocksOK, NEW t \in Tasks, task[t].pc \in SendPCs,
         NEW w, WellFormed(w), w.sync = task[t].sync, w.pc \in SendPCs,
         task' = [task EXCEPT ![t] = w], UNCHANGED <<syncing, inFlight>>
  PROVE  LocksOK'
BY LocksKept DEF Draining, Delivering, WellFormed

LEMMA SendAcceptedLocks ==
  ASSUME Shape, LocksOK, NEW t \in Tasks, SendAccepted(t)
  PROVE  LocksOK'
<1>1. task[t].pc = "replied" /\ WellFormed(task[t]) /\ ~task[t].sync
  BY ActivationFacts DEF SendAccepted, Has, At
<1>2. CASE task[t].cur \in tracked
  <2>1. /\ task' = [task EXCEPT ![t] = [task[t] EXCEPT !.pc = "removing"]]
        /\ UNCHANGED <<syncing, inFlight>>
    BY <1>2 DEF SendAccepted, Step
  <2>2. WellFormed([task[t] EXCEPT !.pc = "removing"])
    BY <1>1, MovesOn DEF SendPCs, Replies
  <2>3. /\ [task[t] EXCEPT !.pc = "removing"].sync = task[t].sync
        /\ [task[t] EXCEPT !.pc = "removing"].pc \in SendPCs
    BY ActivationFacts DEF TaskType, SendPCs
  <2> QED
    BY <1>1, <2>1, <2>2, <2>3, MovesOnLocks DEF SendPCs
<1>3. CASE task[t].cur \notin tracked
  <2>1. ProcessNext(t, queue', rid', Patched(task[t])) /\ UNCHANGED syncing
    BY <1>3 DEF SendAccepted, Success
  <2>2. queue' \in SUBSET Answers /\ rid' \in Nat
    BY SendAcceptedShape DEF Shape, TypeOK
  <2>3. Delivering(t)
    BY <1>1 DEF Delivering, SendPCs
  <2> QED
    BY <2>1, <2>2, <2>3, ProcessNextLocks
<1> QED
  BY <1>2, <1>3

LEMMA SendDeferredLocks ==
  ASSUME Shape, LocksOK, NEW t \in Tasks, SendDeferred(t)
  PROVE  LocksOK'
<1>1. /\ Delivering(t) /\ UNCHANGED syncing /\ inFlight' = FALSE
      /\ task' = [task EXCEPT ![t] = IdleTask]
  BY DEF SendDeferred, Has, At, Delivering, SendPCs, Step
<1> QED
  BY <1>1, IdleEngagement, LocksStep DEF LocksOK

LEMMA SendRejectedLocks ==
  ASSUME Shape, LocksOK, NEW t \in Tasks, SendRejected(t)
  PROVE  LocksOK'
<1>1. task[t].pc = "replied" /\ WellFormed(task[t]) /\ ~task[t].sync
  BY ActivationFacts DEF SendRejected, Has, At
<1>2. CASE task[t].cur \in tracked
  <2>1. /\ task' = [task EXCEPT ![t] = [task[t] EXCEPT !.pc = "dropping"]]
        /\ UNCHANGED <<syncing, inFlight>>
    BY <1>2 DEF SendRejected, Step
  <2>2. WellFormed([task[t] EXCEPT !.pc = "dropping"])
    BY <1>1, MovesOn DEF SendPCs, Replies
  <2>3. /\ [task[t] EXCEPT !.pc = "dropping"].sync = task[t].sync
        /\ [task[t] EXCEPT !.pc = "dropping"].pc \in SendPCs
    BY ActivationFacts DEF TaskType, SendPCs
  <2> QED
    BY <1>1, <2>1, <2>2, <2>3, MovesOnLocks DEF SendPCs
<1>3. CASE task[t].cur \notin tracked
  BY <1>1, <1>3, FailureLocks DEF SendRejected, Delivering, SendPCs
<1> QED
  BY <1>2, <1>3

LEMMA RecaptchaFailedLocks ==
  ASSUME Shape, LocksOK, NEW t \in Tasks, RecaptchaFailed(t)
  PROVE  LocksOK'
BY FailureLocks DEF RecaptchaFailed, Has, At, Delivering, SendPCs

LEMMA BackOffLocks ==
  ASSUME Shape, LocksOK, NEW t \in Tasks, BackOff(t)
  PROVE  LocksOK'
<1> DEFINE w == [task[t] EXCEPT !.pc = "backoff", !.reply = "none"]
<1>1. /\ task[t].pc = "replied" /\ WellFormed(task[t])
      /\ task' = [task EXCEPT ![t] = w] /\ UNCHANGED <<syncing, inFlight>>
  BY ActivationFacts DEF BackOff, Has, At, Step
<1>2. WellFormed(w)
  BY <1>1, MovesOn DEF SendPCs, Replies
<1>3. w.sync = task[t].sync /\ w.pc \in SendPCs
  BY ActivationFacts DEF TaskType, SendPCs
<1> HIDE DEF w
<1> QED
  BY <1>1, <1>2, <1>3, MovesOnLocks DEF SendPCs

LEMMA ResendLocks ==
  ASSUME Shape, LocksOK, NEW t \in Tasks, Resend(t)
  PROVE  LocksOK'
<1> DEFINE v == [task[t] EXCEPT !.attempt = @ + 1]
           w == Request(v, rid)
<1>1. /\ task[t].pc = "backoff" /\ WellFormed(task[t]) /\ TypeOK /\ rid \in Nat
      /\ task' = [task EXCEPT ![t] = w] /\ UNCHANGED <<syncing, inFlight>>
  BY ActivationFacts DEF Resend, At, Step, Shape, TypeOK
<1>2. v \in TaskType /\ v.cur \in Answers /\ v.sync = task[t].sync
  BY <1>1 DEF WellFormed, TaskType, SendPCs
<1> HIDE DEF v
<1>3. WellFormed(w) /\ w.sync = v.sync /\ w.pc \in SendPCs
  BY <1>1, <1>2, RequestWellFormed DEF SendPCs
<1> HIDE DEF w
<1> QED
  BY <1>1, <1>2, <1>3, MovesOnLocks DEF SendPCs

LEMMA GiveUpLocks ==
  ASSUME Shape, LocksOK, NEW t \in Tasks, GiveUp(t)
  PROVE  LocksOK'
BY FailureLocks DEF GiveUp, At, Delivering, SendPCs

LEMMA SentRowRemovedLocks ==
  ASSUME Shape, LocksOK, NEW t \in Tasks, SentRowRemoved(t)
  PROVE  LocksOK'
<1>1. /\ Delivering(t) /\ UNCHANGED syncing
      /\ queue \in SUBSET Answers /\ rid \in Nat
  BY DEF SentRowRemoved, Delivering, SendPCs, Shape, TypeOK
<1>2. CASE task[t].pc = "removing"
  BY <1>1, <1>2, ProcessNextLocks DEF SentRowRemoved, Success
<1>3. CASE task[t].pc # "removing"
  BY <1>1, <1>3, FailureLocks DEF SentRowRemoved
<1> QED
  BY <1>2, <1>3

LEMMA SendingLocks ==
  ASSUME Shape, LocksOK, NEW t \in Tasks, Sending(t)
  PROVE  LocksOK'
BY CleanedUpLocks, CountedLocks, CountFailsLocks, SendAcceptedLocks,
   SendDeferredLocks, SendRejectedLocks, RecaptchaFailedLocks, BackOffLocks,
   ResendLocks, GiveUpLocks, SentRowRemovedLocks DEF Sending

LEMMA SendRowLocks ==
  ASSUME Shape, LocksOK, NEW t \in Tasks, Draining(t), NEW w \in TaskType, w.sync,
         NEW rows \in SUBSET Answers, rows # {}, NEW r, SendRow(t, w, rows, r),
         UNCHANGED <<syncing, inFlight>>
  PROVE  LocksOK'
<1> DEFINE a == First(rows)
           v == [w EXCEPT !.cur = a, !.todo = rows \ {a}]
           x == Request(v, IdFor(a))
<1>1. a \in Answers /\ IdFor(a) \in Nat /\ TypeOK
  BY FirstIsLeast DEF IdFor, Shape, TypeOK, SnapshotType
<1>2. v \in TaskType /\ v.cur \in Answers /\ v.sync
  BY <1>1 DEF TaskType
<1>3. task' = [task EXCEPT ![t] = x]
  BY DEF SendRow, Step
<1> HIDE DEF a, v
<1>4. x \in TaskType /\ x.sync
  BY <1>1, <1>2, RequestWellFormed DEF WellFormed
<1> HIDE DEF x
<1>5. Draining(t) /\ ~Delivering(t)
  BY DEF Draining, Delivering
<1> QED
  BY <1>3, <1>4, <1>5, LocksKept

LEMMA EffectCountedLocks ==
  ASSUME Shape, LocksOK, NEW t \in Tasks, EffectCounted(t)
  PROVE  LocksOK'
<1>1. CASE PendingCount = 0 \/ SyncRefused
  BY <1>1, CountingIsUnlocked, IdleEngagement, LocksKept DEF EffectCounted, Step
<1>2. CASE ~(PendingCount = 0 \/ SyncRefused)
  <2> DEFINE v == [task[t] EXCEPT !.sync = TRUE]
             w == CleanThen(v, "reading")
  <2>1. v \in TaskType /\ v.sync
    BY ActivationFacts DEF TaskType
  <2>2. /\ task' = [task EXCEPT ![t] = w]
        /\ syncing' = TRUE /\ ~syncing /\ ~inFlight /\ ~inFlight'
    BY <1>2 DEF EffectCounted, SyncRefused, Step
  <2> HIDE DEF v
  <2>3. w \in TaskType /\ w.sync
    BY <2>1, CleanThenReads DEF WellFormed
  <2> HIDE DEF w
  <2> QED
    BY <2>2, <2>3, LocksStep
<1> QED
  BY <1>1, <1>2

LEMMA RowsReadLocks ==
  ASSUME Shape, LocksOK, NEW t \in Tasks, RowsRead(t)
  PROVE  LocksOK'
<1>1. /\ Draining(t) /\ UNCHANGED inFlight /\ task[t] \in TaskType
      /\ EntriesToSync \in SUBSET Answers
  BY ActivationFacts DEF RowsRead, WellFormed, Draining, EntriesToSync, Shape, TypeOK
<1>2. CASE EntriesToSync = {}
  BY <1>1, <1>2, EndSyncLocks DEF RowsRead
<1>3. CASE EntriesToSync # {}
  BY <1>1, <1>3, SendRowLocks DEF RowsRead, Draining
<1> QED
  BY <1>2, <1>3

LEMMA ReadFailsLocks ==
  ASSUME Shape, LocksOK, NEW t \in Tasks, ReadFails(t)
  PROVE  LocksOK'
<1>1. Draining(t) /\ UNCHANGED inFlight
  BY ActivationFacts DEF ReadFails, WellFormed, Draining
<1> QED
  BY <1>1, EndSyncLocks DEF ReadFails

LEMMA RowAcceptedLocks ==
  ASSUME Shape, LocksOK, NEW t \in Tasks, RowAccepted(t)
  PROVE  LocksOK'
<1> DEFINE w == [task[t] EXCEPT !.pc = "removing"]
<1>1. /\ task[t].pc = "replied" /\ WellFormed(task[t])
      /\ task' = [task EXCEPT ![t] = w] /\ UNCHANGED <<syncing, inFlight>>
  BY ActivationFacts DEF RowAccepted, Has, At, Step
<1>2. WellFormed(w)
  BY <1>1, MovesOn DEF SendPCs, Replies
<1>3. w.sync = task[t].sync /\ w.pc \in SendPCs
  BY ActivationFacts DEF TaskType, SendPCs
<1> HIDE DEF w
<1> QED
  BY <1>1, <1>2, <1>3, MovesOnLocks DEF SendPCs

LEMMA RowRejectedLocks ==
  ASSUME Shape, LocksOK, NEW t \in Tasks, RowRejected(t)
  PROVE  LocksOK'
<1> DEFINE w == [task[t] EXCEPT !.pc = "dropping"]
<1>1. /\ task[t].pc = "replied" /\ WellFormed(task[t])
      /\ task' = [task EXCEPT ![t] = w] /\ UNCHANGED <<syncing, inFlight>>
  BY ActivationFacts DEF RowRejected, Has, At, Step
<1>2. WellFormed(w)
  BY <1>1, MovesOn DEF SendPCs, Replies
<1>3. w.sync = task[t].sync /\ w.pc \in SendPCs
  BY ActivationFacts DEF TaskType, SendPCs
<1> HIDE DEF w
<1> QED
  BY <1>1, <1>2, <1>3, MovesOnLocks DEF SendPCs

LEMMA RecreateLocks ==
  ASSUME Shape, LocksOK, NEW t \in Tasks, Recreate(t)
  PROVE  LocksOK'
<1> DEFINE w == Request(task[t], NoId)
<1>1. /\ task[t].pc = "replied" /\ WellFormed(task[t]) /\ TypeOK /\ NoId \in Nat
      /\ task' = [task EXCEPT ![t] = w] /\ UNCHANGED <<syncing, inFlight>>
  BY ActivationFacts DEF Recreate, Has, At, Step, Shape, NoId
<1>2. task[t] \in TaskType /\ task[t].cur \in Answers
  BY <1>1 DEF WellFormed, SendPCs
<1>3. WellFormed(w) /\ w.sync = task[t].sync /\ w.pc \in SendPCs
  BY <1>1, <1>2, RequestWellFormed DEF SendPCs
<1> HIDE DEF w
<1> QED
  BY <1>1, <1>3, MovesOnLocks DEF SendPCs

LEMMA SyncStoppedLocks ==
  ASSUME Shape, LocksOK, NEW t \in Tasks, SyncStopped(t)
  PROVE  LocksOK'
BY EndSyncLocks DEF SyncStopped, Has, At, Draining

LEMMA SyncedRowRemovedLocks ==
  ASSUME Shape, LocksOK, NEW t \in Tasks, SyncedRowRemoved(t)
  PROVE  LocksOK'
<1> DEFINE w == [task[t] EXCEPT !.gone = @ \cup {task[t].cur}]
<1>1. /\ Draining(t) /\ UNCHANGED inFlight /\ task[t].cur \in Answers
  BY ActivationFacts DEF SyncedRowRemoved, Draining, WellFormed, SendPCs
<1>2. w \in TaskType /\ w.sync /\ w.todo \in SUBSET Answers
  BY <1>1, ActivationFacts DEF TaskType, Draining
<1>3. \/ /\ SendRow(t, w, w.todo, Tail(idb)) /\ w.todo # {}
         /\ UNCHANGED syncing
      \/ \E removed \in BOOLEAN : EndSync(t, queue', removed, removed, Tail(idb))
  BY DEF SyncedRowRemoved
<1> HIDE DEF w
<1> QED
  BY <1>1, <1>2, <1>3, SendRowLocks, EndSyncLocks

LEMMA SyncingLocks ==
  ASSUME Shape, LocksOK, NEW t \in Tasks, Syncing(t)
  PROVE  LocksOK'
BY EffectCountedLocks, RowsReadLocks, ReadFailsLocks, RowAcceptedLocks,
   RowRejectedLocks, RecreateLocks, SyncStoppedLocks, SyncedRowRemovedLocks
   DEF Syncing

LEMMA LocksUntouched ==
  ASSUME LocksOK, UNCHANGED <<task, syncing, inFlight>>
  PROVE  LocksOK'
BY DEF LocksOK, LocksHeld, SingleFlight, Engaged, Draining, Delivering

(* The page may start an activation, never one that sends under a held lock.*)
LEMMA PageLocks ==
  ASSUME Shape, LocksOK,
         Storage \/ Page \/ Submit \/ Retry \/ GoOnline \/ GoOffline \/ Delete
  PROVE  LocksOK'
<1>1. queue \in SUBSET Answers
  BY DEF Shape, TypeOK
<1>2. CASE AnswerStored \/ AnswerNotStored
  BY <1>1, <1>2, ProcessQueueLocks DEF AnswerStored, AnswerNotStored
<1>3. CASE ProgressWritten \/ GoOffline \/ Delete
  BY <1>3, LocksUntouched DEF ProgressWritten, GoOffline, Delete
<1>4. CASE StartFresh \/ Restore
  BY <1>4, LocksUntouched, StartEffectLocks DEF StartFresh, Restore
<1>5. CASE Submit
  <2>1. queue' \in SUBSET Answers
    BY <1>5, SubmitShape DEF Shape, TypeOK
  <2> QED
    BY <1>5, <2>1, LocksUntouched, ProcessQueueLocks DEF Submit
<1>6. CASE Retry
  BY <1>1, <1>6, ProcessQueueLocks DEF Retry
<1>7. CASE GoOnline
  BY <1>7, LocksUntouched, StartEffectLocks DEF GoOnline
<1> QED
  BY <1>2, <1>3, <1>4, <1>5, <1>6, <1>7 DEF Storage, Page

LEMMA ReloadLocks ==
  ASSUME Reload
  PROVE  LocksOK'
BY IdleEngagement DEF Reload, LocksOK, LocksHeld, SingleFlight, Engaged, Draining, Delivering

LEMMA LocksInductive == Shape /\ LocksOK /\ [Next]_vars => LocksOK'
<1> SUFFICES ASSUME Shape, LocksOK, [Next]_vars PROVE LocksOK'
  OBVIOUS
<1>1. CASE \E t \in Tasks : Activation(t)
  BY <1>1, SendingLocks, SyncingLocks, NetworkLocks DEF Activation
<1>2. CASE UNCHANGED vars
  BY <1>2, LocksUntouched DEF vars
<1> QED
  BY <1>1, <1>2, PageLocks, ReloadLocks DEF Next

LEMMA LocksInitially == Init => LocksOK
BY IdleEngagement DEF Init, LocksOK, LocksHeld, SingleFlight, Engaged, Draining, Delivering

(* No path through the queue, whatever fails, leaves a lock without owner.  *)
THEOREM LocksHaveOwners == Spec => []LocksHeld
<1>1. LocksOK => LocksHeld
  BY DEF LocksOK
<1> QED
  BY <1>1, ShapeInitially, ShapeInductive, LocksInitially, LocksInductive, PTL
     DEF Spec

(* However activations overlap, at most one of them is sending.             *)
THEOREM AtMostOneSender == Spec => []SingleFlight
<1>1. LocksOK => SingleFlight
  BY DEF LocksOK
<1> QED
  BY <1>1, ShapeInitially, ShapeInductive, LocksInitially, LocksInductive, PTL
     DEF Spec
-----------------------------------------------------------------------------
(***************************************************************************)
(* A row leaves IndexedDB only once its answer is handled.  The set of     *)
(* processed rows and the activations about to delete a row name handled   *)
(* answers only; the deletions follow those two.                           *)
(***************************************************************************)
Handled == acked \cup dropped
Removes(w) == w.pc \in {"removing", "dropping"}

Settled ==
  /\ processed \subseteq Handled
  /\ \A t \in Tasks : Removes(task[t]) => task[t].cur \in Handled

LEMMA SettledKept ==
  ASSUME Settled, UNCHANGED task, Handled \subseteq Handled',
         processed' \subseteq processed \cup Handled'
  PROVE  Settled'
BY DEF Settled

LEMMA SettledStep ==
  ASSUME Shape, Settled, NEW t \in Tasks, NEW w, task' = [task EXCEPT ![t] = w],
         Removes(w) => w.cur \in Handled', Handled \subseteq Handled',
         processed' \subseteq processed \cup Handled'
  PROVE  Settled'
<1>1. \A u \in Tasks : task'[u] = IF u = t THEN w ELSE task[u]
  BY DEF Shape, TypeOK
<1>2. ASSUME NEW u \in Tasks, Removes(task'[u])
      PROVE  task'[u].cur \in Handled'
  BY <1>1, <1>2 DEF Settled
<1> QED
  BY <1>2 DEF Settled

(* A step that handles nothing and starts no deletion.                      *)
LEMMA QuietStep ==
  ASSUME Shape, Settled, NEW t \in Tasks, NEW w, task' = [task EXCEPT ![t] = w],
         ~Removes(w), UNCHANGED <<acked, dropped, processed>>
  PROVE  Settled'
BY SettledStep DEF Handled

LEMMA IdleQuiet == ~Removes(IdleTask)
BY DEF IdleTask, Removes

LEMMA RequestQuiet ==
  ASSUME NEW w \in TaskType, NEW id
  PROVE  ~Removes(Request(w, id))
BY DEF Request, Removes, TaskType

LEMMA StartedQuiet ==
  ASSUME Shape, NEW q \in SUBSET Answers, q # {},
         NEW from \in {"app", "retry", "effect"}, NEW id \in Nat
  PROVE  ~Removes(Started(q, from, id))
BY StartedWellFormed DEF Removes, Shape

LEMMA ProcessQueueSettled ==
  ASSUME Shape, Settled, NEW q \in SUBSET Answers,
         NEW from \in {"app", "retry", "effect"}, NEW r,
         ProcessQueue(q, from, r), UNCHANGED <<acked, dropped, processed>>
  PROVE  Settled'
<1>1. CASE Blocked(q, inFlight)
  BY <1>1, SettledKept DEF ProcessQueue, Handled
<1>2. CASE ~Blocked(q, inFlight)
  <2>1. PICK t \in Tasks : task' = [task EXCEPT ![t] = Started(q, from, rid)]
    BY <1>2 DEF ProcessQueue, Step
  <2>2. ~Removes(Started(q, from, rid))
    BY <1>2, StartedQuiet DEF Blocked, Shape, TypeOK
  <2> QED
    BY <2>1, <2>2, QuietStep
<1> QED
  BY <1>1, <1>2

LEMMA ProcessNextSettled ==
  ASSUME Shape, Settled, NEW t \in Tasks, NEW q \in SUBSET Answers,
         NEW id \in Nat, NEW r, ProcessNext(t, q, id, r),
         Handled \subseteq Handled', processed' \subseteq processed \cup Handled'
  PROVE  Settled'
<1>1. CASE Blocked(q, FALSE)
  BY <1>1, IdleQuiet, SettledStep DEF ProcessNext, Step
<1>2. CASE ~Blocked(q, FALSE)
  <2>1. task' = [task EXCEPT ![t] = Started(q, "app", id)]
    BY <1>2 DEF ProcessNext, Step
  <2>2. ~Removes(Started(q, "app", id))
    BY <1>2, StartedQuiet DEF Blocked
  <2> QED
    BY <2>1, <2>2, SettledStep
<1> QED
  BY <1>1, <1>2

LEMMA EndSyncSettled ==
  ASSUME Shape, Settled, NEW t \in Tasks, NEW q \in SUBSET Answers, NEW success,
         NEW drained, NEW r, EndSync(t, q, success, drained, r),
         Handled \subseteq Handled', processed' \subseteq processed \cup Handled'
  PROVE  Settled'
<1>1. ~Removes(AfterSync(q, drained))
  BY IdleQuiet, StartedQuiet DEF AfterSync, Blocked, Shape, TypeOK
<1> QED
  BY <1>1, SettledStep DEF EndSync, Step

LEMMA StartEffectSettled ==
  ASSUME Shape, Settled, NEW r, StartEffect(r),
         UNCHANGED <<acked, dropped, processed>>
  PROVE  Settled'
<1>1. CASE ~PersistOffline \/ syncRef
  BY <1>1, SettledKept DEF StartEffect, Handled
<1>2. CASE ~(~PersistOffline \/ syncRef)
  <2> DEFINE v == [IdleTask EXCEPT !.from = "effect"]
             w == CleanThen(v, "effect")
  <2>1. v \in TaskType /\ ~v.sync
    BY DEF IdleTask, TaskType, TaskPCs, DbWaits, Replies, NoAnswer, NoId
  <2>2. PICK t \in Tasks : task' = [task EXCEPT ![t] = w]
    BY <1>2 DEF StartEffect, Step
  <2> HIDE DEF v
  <2>3. ~Removes(w)
    BY <2>1, CleanThenCounts DEF Removes
  <2> HIDE DEF w
  <2> QED
    BY <2>2, <2>3, QuietStep
<1> QED
  BY <1>1, <1>2

(* Settled, step by step.                                                   *)
LEMMA CleanedUpSettled ==
  ASSUME Shape, Settled, NEW t \in Tasks, CleanedUp(t)
  PROVE  Settled'
<1> DEFINE w == [task[t] EXCEPT !.pc = task[t].after]
<1>1. /\ task' = [task EXCEPT ![t] = w] /\ task[t].pc = "cleaning"
      /\ UNCHANGED <<acked, dropped>> /\ processed' \subseteq processed
  BY DEF CleanedUp, Step, outcomes
<1>2. ~Removes(w)
  BY <1>1, ActivationFacts DEF WellFormed, TaskType, Removes
<1> HIDE DEF w
<1> QED
  BY <1>1, <1>2, SettledStep DEF Handled

LEMMA CountedSettled ==
  ASSUME Shape, Settled, NEW t \in Tasks, Counted(t) \/ CountFails(t)
  PROVE  Settled'
<1>1. UNCHANGED <<acked, dropped, processed>>
  BY DEF Counted, CountFails, outcomes
<1>2. CASE Step(t, IdleTask, Tail(idb))
  BY <1>1, <1>2, IdleQuiet, QuietStep DEF Step
<1>3. CASE Step(t, CleanThen([IdleTask EXCEPT !.sync = TRUE], "reading"), Tail(idb))
  <2> DEFINE v == [IdleTask EXCEPT !.sync = TRUE]
             w == CleanThen(v, "reading")
  <2>1. v \in TaskType /\ v.sync
    BY DEF IdleTask, TaskType, TaskPCs, DbWaits, Replies, NoAnswer, NoId
  <2>2. task' = [task EXCEPT ![t] = w]
    BY <1>3 DEF Step
  <2> HIDE DEF v
  <2>3. ~Removes(w)
    BY <2>1, CleanThenReads DEF Removes
  <2> HIDE DEF w
  <2> QED
    BY <1>1, <2>2, <2>3, QuietStep
<1>4. CASE /\ ~Overtaken
           /\ Step(t, Request([task[t] EXCEPT !.cur = First(queue)], rid), Tail(idb))
  <2> DEFINE v == [task[t] EXCEPT !.cur = First(queue)]
             w == Request(v, rid)
  <2>1. v \in TaskType
    <3>1. First(queue) \in Answers
      BY <1>4, FirstIsLeast DEF Overtaken, Shape, TypeOK
    <3> QED
      BY <3>1, ActivationFacts DEF TaskType
  <2>2. task' = [task EXCEPT ![t] = w]
    BY <1>4 DEF Step
  <2> HIDE DEF v
  <2>3. ~Removes(w)
    BY <2>1, RequestQuiet
  <2> HIDE DEF w
  <2> QED
    BY <1>1, <2>2, <2>3, QuietStep
<1> QED
  BY <1>2, <1>3, <1>4 DEF Counted, CountFails

(* A reply that handles an answer: the next deletion is of that answer.     *)
LEMMA HandledSettled ==
  ASSUME Shape, Settled, NEW t \in Tasks, NEW pc \in {"removing", "dropping"},
         task' = [task EXCEPT ![t] = [task[t] EXCEPT !.pc = pc]],
         UNCHANGED processed, Handled' = Handled \cup {task[t].cur}
  PROVE  Settled'
<1> DEFINE w == [task[t] EXCEPT !.pc = pc]
<1>1. w.cur \in Handled'
  BY ActivationFacts DEF TaskType
<1>2. task' = [task EXCEPT ![t] = w]
  OBVIOUS
<1> HIDE DEF w
<1> QED
  BY <1>1, <1>2, SettledStep

LEMMA SendAcceptedSettled ==
  ASSUME Shape, Settled, NEW t \in Tasks, SendAccepted(t)
  PROVE  Settled'
<1>1. /\ Handled' = Handled \cup {task[t].cur} /\ UNCHANGED processed
      /\ Adopt(task[t]) /\ task[t].pc = "replied"
  BY DEF SendAccepted, Adopt, Handled, Has, At
<1>2. CASE task[t].cur \in tracked
  BY <1>1, <1>2, HandledSettled DEF SendAccepted, Step
<1>3. CASE task[t].cur \notin tracked
  <2>1. Success(t, queue', rid', Patched(task[t]))
    BY <1>3 DEF SendAccepted
  <2>2. queue' \in SUBSET Answers /\ rid' \in Nat
    BY <1>1, ActivationFacts, AdoptTyped DEF SendAccepted, Shape, TypeOK, WellFormed, SendPCs
  <2> QED
    BY <1>1, <2>1, <2>2, ProcessNextSettled DEF Success
<1> QED
  BY <1>2, <1>3

LEMMA SendRejectedSettled ==
  ASSUME Shape, Settled, NEW t \in Tasks, SendRejected(t)
  PROVE  Settled'
<1>1. Handled' = Handled \cup {task[t].cur} /\ UNCHANGED processed
  BY DEF SendRejected, Handled
<1>2. CASE task[t].cur \in tracked
  BY <1>1, <1>2, HandledSettled DEF SendRejected, Step
<1>3. CASE task[t].cur \notin tracked
  BY <1>1, <1>3, IdleQuiet, SettledStep DEF SendRejected, Failure, Step
<1> QED
  BY <1>2, <1>3

LEMMA SendEndedSettled ==
  ASSUME Shape, Settled, NEW t \in Tasks,
         SendDeferred(t) \/ RecaptchaFailed(t) \/ GiveUp(t)
  PROVE  Settled'
<1>1. task' = [task EXCEPT ![t] = IdleTask] /\ UNCHANGED <<acked, dropped, processed>>
  BY DEF SendDeferred, RecaptchaFailed, GiveUp, Failure, Step, outcomes
<1> QED
  BY <1>1, IdleQuiet, QuietStep

LEMMA SendRetriedSettled ==
  ASSUME Shape, Settled, NEW t \in Tasks, BackOff(t) \/ Resend(t)
  PROVE  Settled'
<1>1. UNCHANGED <<acked, dropped, processed>>
  BY DEF BackOff, Resend, outcomes
<1>2. CASE BackOff(t)
  <2> DEFINE w == [task[t] EXCEPT !.pc = "backoff", !.reply = "none"]
  <2>1. task' = [task EXCEPT ![t] = w]
    BY <1>2 DEF BackOff, Step
  <2>2. ~Removes(w)
    BY ActivationFacts DEF TaskType, Removes
  <2> HIDE DEF w
  <2> QED
    BY <1>1, <2>1, <2>2, QuietStep
<1>3. CASE Resend(t)
  <2> DEFINE v == [task[t] EXCEPT !.attempt = @ + 1]
             w == Request(v, rid)
  <2>1. task' = [task EXCEPT ![t] = w]
    BY <1>3 DEF Resend, Step
  <2>2. v \in TaskType
    BY ActivationFacts DEF TaskType
  <2> HIDE DEF v
  <2>3. ~Removes(w)
    BY <2>2, RequestQuiet
  <2> HIDE DEF w
  <2> QED
    BY <1>1, <2>1, <2>3, QuietStep
<1> QED
  BY <1>2, <1>3

(* The row that could not be deleted joins the processed ones; its answer   *)
(* is handled.                                                              *)
LEMMA SentRowRemovedSettled ==
  ASSUME Shape, Settled, NEW t \in Tasks, SentRowRemoved(t)
  PROVE  Settled'
<1>1. /\ UNCHANGED <<acked, dropped>> /\ Removes(task[t])
      /\ queue \in SUBSET Answers /\ rid \in Nat
  BY DEF SentRowRemoved, Removes, Shape, TypeOK
<1>2. task[t].cur \in Handled
  BY <1>1 DEF Settled
<1>3. processed' \subseteq processed \cup Handled' /\ Handled \subseteq Handled'
  BY <1>1, <1>2 DEF SentRowRemoved, RemoveRow, Handled
<1>4. CASE task[t].pc = "removing"
  BY <1>1, <1>3, <1>4, ProcessNextSettled DEF SentRowRemoved, Success
<1>5. CASE task[t].pc # "removing"
  BY <1>3, <1>5, IdleQuiet, SettledStep DEF SentRowRemoved, Failure, Step
<1> QED
  BY <1>4, <1>5

LEMMA SendingSettled ==
  ASSUME Shape, Settled, NEW t \in Tasks, Sending(t)
  PROVE  Settled'
BY CleanedUpSettled, CountedSettled, SendAcceptedSettled, SendRejectedSettled,
   SendEndedSettled, SendRetriedSettled, SentRowRemovedSettled DEF Sending

LEMMA SendRowSettled ==
  ASSUME Shape, Settled, NEW t \in Tasks, NEW w \in TaskType,
         NEW rows \in SUBSET Answers, rows # {}, NEW r, SendRow(t, w, rows, r),
         Handled \subseteq Handled', processed' \subseteq processed \cup Handled'
  PROVE  Settled'
<1> DEFINE a == First(rows)
           v == [w EXCEPT !.cur = a, !.todo = rows \ {a}]
           x == Request(v, IdFor(a))
<1>1. v \in TaskType
  BY FirstIsLeast DEF TaskType
<1>2. task' = [task EXCEPT ![t] = x]
  BY DEF SendRow, Step
<1> HIDE DEF a, v
<1>3. ~Removes(x)
  BY <1>1, RequestQuiet
<1> HIDE DEF x
<1> QED
  BY <1>2, <1>3, SettledStep

LEMMA EffectCountedSettled ==
  ASSUME Shape, Settled, NEW t \in Tasks, EffectCounted(t)
  PROVE  Settled'
<1>1. UNCHANGED <<acked, dropped, processed>>
  BY DEF EffectCounted, outcomes
<1>2. CASE PendingCount = 0 \/ SyncRefused
  BY <1>1, <1>2, IdleQuiet, QuietStep DEF EffectCounted, Step
<1>3. CASE ~(PendingCount = 0 \/ SyncRefused)
  <2> DEFINE v == [task[t] EXCEPT !.sync = TRUE]
             w == CleanThen(v, "reading")
  <2>1. v \in TaskType /\ v.sync
    BY ActivationFacts DEF TaskType
  <2>2. task' = [task EXCEPT ![t] = w]
    BY <1>3 DEF EffectCounted, Step
  <2> HIDE DEF v
  <2>3. ~Removes(w)
    BY <2>1, CleanThenReads DEF Removes
  <2> HIDE DEF w
  <2> QED
    BY <1>1, <2>2, <2>3, QuietStep
<1> QED
  BY <1>2, <1>3

LEMMA RowsReadSettled ==
  ASSUME Shape, Settled, NEW t \in Tasks, RowsRead(t) \/ ReadFails(t)
  PROVE  Settled'
<1>1. /\ Handled \subseteq Handled' /\ processed' \subseteq processed \cup Handled'
      /\ queue \in SUBSET Answers /\ EntriesToSync \in SUBSET Answers
  BY DEF RowsRead, ReadFails, outcomes, Handled, EntriesToSync, Shape, TypeOK
<1>2. \/ \E success \in BOOLEAN : EndSync(t, queue, success, FALSE, Tail(idb))
      \/ EntriesToSync # {} /\ SendRow(t, task[t], EntriesToSync, Tail(idb))
  BY DEF RowsRead, ReadFails
<1> QED
  BY <1>1, <1>2, EndSyncSettled, SendRowSettled, ActivationFacts

LEMMA RowRepliedSettled ==
  ASSUME Shape, Settled, NEW t \in Tasks, RowAccepted(t) \/ RowRejected(t)
  PROVE  Settled'
<1>1. Handled' = Handled \cup {task[t].cur} /\ UNCHANGED processed
  BY DEF RowAccepted, RowRejected, Adopt, Handled
<1> QED
  BY <1>1, HandledSettled DEF RowAccepted, RowRejected, Step

LEMMA RecreateSettled ==
  ASSUME Shape, Settled, NEW t \in Tasks, Recreate(t)
  PROVE  Settled'
<1>1. /\ UNCHANGED <<acked, dropped, processed>>
      /\ task' = [task EXCEPT ![t] = Request(task[t], NoId)]
  BY DEF Recreate, Step, outcomes
<1>2. ~Removes(Request(task[t], NoId))
  BY ActivationFacts, RequestQuiet
<1> QED
  BY <1>1, <1>2, QuietStep

LEMMA SyncStoppedSettled ==
  ASSUME Shape, Settled, NEW t \in Tasks, SyncStopped(t)
  PROVE  Settled'
<1>1. UNCHANGED <<acked, dropped, processed>> /\ queue' \in SUBSET Answers
  BY DEF SyncStopped, outcomes, ForgetProcessed, Shape, TypeOK
<1> QED
  BY <1>1, EndSyncSettled DEF SyncStopped, Handled

LEMMA SyncedRowRemovedSettled ==
  ASSUME Shape, Settled, NEW t \in Tasks, SyncedRowRemoved(t)
  PROVE  Settled'
<1> DEFINE w == [task[t] EXCEPT !.gone = @ \cup {task[t].cur}]
<1>1. UNCHANGED <<acked, dropped>> /\ Removes(task[t])
  BY DEF SyncedRowRemoved, outcomes, Removes
<1>2. task[t].cur \in Handled
  BY <1>1 DEF Settled
<1>3. w \in TaskType /\ w.todo \in SUBSET Answers /\ w.cur = task[t].cur
  BY ActivationFacts DEF TaskType, WellFormed, Removes, SyncedRowRemoved, SendPCs
<1>4. PICK removed \in BOOLEAN :
        /\ RemoveRow(w.cur, removed)
        /\ \/ SendRow(t, w, w.todo, Tail(idb)) /\ w.todo # {}
           \/ ForgetProcessed(w.gone) /\ EndSync(t, queue', removed, removed, Tail(idb))
  BY DEF SyncedRowRemoved
<1> HIDE DEF w
<1>5. processed' \subseteq processed \cup Handled' /\ Handled \subseteq Handled'
  BY <1>1, <1>2, <1>3, <1>4 DEF RemoveRow, Handled
<1>6. ForgetProcessed(w.gone) => queue' \in SUBSET Answers
  BY DEF ForgetProcessed, Shape, TypeOK
<1> QED
  BY <1>3, <1>4, <1>5, <1>6, SendRowSettled, EndSyncSettled

LEMMA SyncingSettled ==
  ASSUME Shape, Settled, NEW t \in Tasks, Syncing(t)
  PROVE  Settled'
BY EffectCountedSettled, RowsReadSettled, RowRepliedSettled, RecreateSettled,
   SyncStoppedSettled, SyncedRowRemovedSettled DEF Syncing

LEMMA NetworkSettled ==
  ASSUME Shape, Settled, NEW t \in Tasks, Network(t)
  PROVE  Settled'
<1>1. RequestUnchanged /\ \E reply \in Replies : Replied(t, reply)
  BY DEF Network, ServerHandles, ReplyLost, RequestFails, ServerRefuses, Verdict, Replies
<1>2. PICK reply \in Replies : Replied(t, reply)
  BY <1>1
<1> DEFINE w == [task[t] EXCEPT !.pc = "replied", !.reply = reply,
                                !.created = Len(responses')]
<1>3. task' = [task EXCEPT ![t] = w] /\ UNCHANGED <<acked, dropped, processed>>
  BY <1>1, <1>2 DEF Replied, RequestUnchanged, outcomes
<1>4. ~Removes(w)
  BY ActivationFacts DEF TaskType, Removes
<1> HIDE DEF w
<1> QED
  BY <1>3, <1>4, QuietStep

LEMMA PageSettled ==
  ASSUME Shape, Settled,
         Storage \/ Page \/ Submit \/ Retry \/ GoOnline \/ GoOffline \/ Delete
  PROVE  Settled'
<1>1. UNCHANGED <<acked, dropped, processed>>
  BY DEF Storage, AnswerStored, AnswerNotStored, ProgressWritten, Page, StartFresh,
     Restore, Submit, Retry, GoOnline, GoOffline, Delete, outcomes
<1>2. UNCHANGED task => Settled'
  BY <1>1, SettledKept DEF Handled
<1>3. queue \in SUBSET Answers
  BY DEF Shape, TypeOK
<1>4. CASE Storage
  BY <1>1, <1>2, <1>3, <1>4, ProcessQueueSettled DEF Storage, AnswerStored,
     AnswerNotStored, ProgressWritten
<1>5. CASE Page \/ GoOnline
  BY <1>1, <1>2, <1>5, StartEffectSettled DEF Page, StartFresh, Restore, GoOnline
<1>6. CASE Submit
  <2>1. queue' \in SUBSET Answers
    BY <1>6, SubmitShape DEF Shape, TypeOK
  <2> QED
    BY <1>1, <1>2, <1>6, <2>1, ProcessQueueSettled DEF Submit
<1>7. CASE Retry
  BY <1>1, <1>3, <1>7, ProcessQueueSettled DEF Retry
<1>8. CASE GoOffline \/ Delete
  BY <1>2, <1>8 DEF GoOffline, Delete
<1> QED
  BY <1>4, <1>5, <1>6, <1>7, <1>8

LEMMA ReloadSettled ==
  ASSUME Reload
  PROVE  Settled'
BY IdleQuiet DEF Reload, Settled

LEMMA SettledInductive == Shape /\ Settled /\ [Next]_vars => Settled'
<1> SUFFICES ASSUME Shape, Settled, [Next]_vars PROVE Settled'
  OBVIOUS
<1>1. CASE \E t \in Tasks : Activation(t)
  BY <1>1, SendingSettled, SyncingSettled, NetworkSettled DEF Activation
<1>2. CASE UNCHANGED vars
  BY <1>2, SettledKept DEF vars, Handled
<1> QED
  BY <1>1, <1>2, PageSettled, ReloadSettled DEF Next

LEMMA SettledInitially == Init => Settled
BY IdleQuiet DEF Init, Settled

(* The three steps that delete rows delete handled ones.                    *)
LEMMA HandledRowsOnly ==
  ASSUME Shape, Settled, [Next]_vars
  PROVE  \A a \in db \ db' : a \in Handled
<1>1. ASSUME NEW t \in Tasks, CleanedUp(t)
      PROVE  \A a \in db \ db' : a \in Handled
  BY <1>1 DEF CleanedUp, Settled
<1>2. ASSUME NEW t \in Tasks, SentRowRemoved(t) \/ SyncedRowRemoved(t)
      PROVE  \A a \in db \ db' : a \in Handled
  <2>1. task[t].cur \in Handled
    BY <1>2 DEF SentRowRemoved, SyncedRowRemoved, Settled, Removes
  <2>2. db \ db' \subseteq {task[t].cur}
    <3>1. [task[t] EXCEPT !.gone = @ \cup {task[t].cur}].cur = task[t].cur
      BY ActivationFacts DEF TaskType
    <3> QED
      BY <1>2, <3>1 DEF SentRowRemoved, SyncedRowRemoved, RemoveRow
  <2> QED
    BY <2>1, <2>2
<1>3. ASSUME NEW t \in Tasks, Activation(t), ~CleanedUp(t), ~SentRowRemoved(t),
             ~SyncedRowRemoved(t)
      PROVE  UNCHANGED db
  <2>1. Sending(t) => UNCHANGED db
    BY <1>3 DEF Sending, Counted, CountFails, SendAccepted, SendDeferred,
       SendRejected, RecaptchaFailed, BackOff, Resend, GiveUp
  <2>2. Syncing(t) => UNCHANGED db
    BY <1>3 DEF Syncing, EffectCounted, RowsRead, ReadFails, RowAccepted,
       RowRejected, Recreate, SyncStopped
  <2>3. Network(t) => UNCHANGED db
    BY DEF Network, ServerHandles, ReplyLost, RequestFails, ServerRefuses,
       RequestUnchanged
  <2> QED
    BY <1>3, <2>1, <2>2, <2>3 DEF Activation
<1>4. CASE Storage \/ Page \/ Submit \/ Retry \/ GoOnline \/ GoOffline \/ Reload \/ Delete
  BY <1>4 DEF Storage, AnswerStored, AnswerNotStored, ProgressWritten, Page,
     StartFresh, Restore, Submit, Retry, GoOnline, GoOffline, Reload, Delete
<1>5. CASE UNCHANGED vars
  BY <1>5 DEF vars
<1> QED
  BY <1>1, <1>2, <1>3, <1>4, <1>5 DEF Next

(* No row is deleted before its answer was accepted or refused, whatever    *)
(* fails, reloads or is retried in between.                                 *)
THEOREM RowsOutliveSends == Spec => RowsKeptUntilSettled
<1>1. Shape /\ Settled /\ [Next]_vars => [\A a \in db \ db' : a \in acked \cup dropped]_vars
  BY HandledRowsOnly DEF Handled
<1> QED
  BY <1>1, ShapeInitially, ShapeInductive, SettledInitially, SettledInductive, PTL
     DEF Spec, RowsKeptUntilSettled
=============================================================================
