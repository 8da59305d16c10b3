---------------------- MODULE ResponseQueueDeliveryProofs ----------------------
(***************************************************************************)
(* What becomes of an answer between its submission and the server's word  *)
(* on it, proved of ResponseQueue for any number of answers, overlapping   *)
(* activations and faults.                                                 *)
(***************************************************************************)
EXTENDS ResponseQueueProofs

(* The writes among the requests that IndexedDB has not completed.          *)
Writes(s) == {s[i] : i \in 1 .. Len(s)} \ Tasks

LEMMA WritesOfAppend ==
  ASSUME NEW s \in Requests, NEW x \in WriteType \cup Tasks
  PROVE  /\ Append(s, x) \in Requests
         /\ Writes(Append(s, x)) \subseteq Writes(s) \cup ({x} \ Tasks)
<1>1. /\ Append(s, x) \in Requests /\ Len(s) \in Nat
      /\ Len(Append(s, x)) = Len(s) + 1
      /\ \A i \in 1 .. Len(s) : Append(s, x)[i] = s[i]
      /\ Append(s, x)[Len(s) + 1] = x
  BY AppendProperties, LenProperties DEF Requests
<1>2. \A i \in 1 .. Len(s) + 1 : i \in 1 .. Len(s) \/ i = Len(s) + 1
  BY <1>1
<1> QED
  BY <1>1, <1>2 DEF Writes

LEMMA WriteOfOne ==
  ASSUME NEW x
  PROVE  Writes(<<x>>) \subseteq {x}
<1>1. \A i \in 1 .. Len(<<x>>) : <<x>>[i] = x
  OBVIOUS
<1> QED
  BY <1>1 DEF Writes

LEMMA WritesOfTail ==
  ASSUME NEW s \in Requests, s # <<>>
  PROVE  /\ Tail(s) \in Requests
         /\ Writes(Tail(s)) \subseteq Writes(s)
         /\ Head(s) \notin Tasks => Head(s) \in Writes(s)
<1>1. /\ Tail(s) \in Requests /\ Len(s) \in Nat \ {0}
      /\ Len(Tail(s)) = Len(s) - 1
      /\ \A i \in 1 .. Len(Tail(s)) : Tail(s)[i] = s[i + 1]
  BY HeadTailProperties, EmptySeq DEF Requests
<1>2. \A i \in 1 .. Len(Tail(s)) : i + 1 \in 1 .. Len(s)
  BY <1>1
<1>3. Head(s) = s[1] /\ 1 \in 1 .. Len(s)
  BY <1>1 DEF Requests
<1> QED
  BY <1>1, <1>2, <1>3 DEF Writes

LEMMA WritesOfConcat ==
  ASSUME NEW r \in Requests, NEW s \in Requests
  PROVE  Writes(r \o s) \subseteq Writes(r) \cup Writes(s)
<1>1. /\ Len(r) \in Nat /\ Len(s) \in Nat /\ Len(r \o s) = Len(r) + Len(s)
      /\ \A i \in 1 .. Len(r) + Len(s) :
           (r \o s)[i] = IF i <= Len(r) THEN r[i] ELSE s[i - Len(r)]
  BY ConcatProperties, LenProperties DEF Requests
<1>2. \A i \in 1 .. Len(r) + Len(s) :
        i \in 1 .. Len(r) \/ (i > Len(r) /\ i - Len(r) \in 1 .. Len(s))
  BY <1>1
<1> QED
  BY <1>1, <1>2 DEF Writes

(* A step of an activation issues no write of its own.                      *)
LEMMA WritesOfStep ==
  ASSUME NEW t \in Tasks, NEW w, NEW r \in Requests, Step(t, w, r)
  PROVE  Writes(idb') \subseteq Writes(r)
BY WritesOfAppend DEF Step

LEMMA WritesOfProcessQueue ==
  ASSUME NEW q, NEW from, NEW r \in Requests, ProcessQueue(q, from, r)
  PROVE  Writes(idb') \subseteq Writes(r)
BY WritesOfStep DEF ProcessQueue

LEMMA WritesOfProcessNext ==
  ASSUME NEW t \in Tasks, NEW q, NEW id, NEW r \in Requests, ProcessNext(t, q, id, r)
  PROVE  Writes(idb') \subseteq Writes(r)
BY WritesOfStep DEF ProcessNext

LEMMA WritesOfStartEffect ==
  ASSUME NEW r \in Requests, StartEffect(r)
  PROVE  Writes(idb') \subseteq Writes(r)
BY WritesOfStep DEF StartEffect

(* The patch of a progress row and its clearing carry no answer.            *)
LEMMA WritesOfPatched ==
  ASSUME Shape, NEW w \in TaskType
  PROVE  /\ Patched(w) \in Requests
         /\ Writes(Patched(w)) \subseteq
              Writes(idb) \cup {Write("patchId", NoAnswer, w.created, NoDisplay, {})}
<1>1. Write("patchId", NoAnswer, w.created, NoDisplay, {}) \in WriteType \cup Tasks
  BY DEF Write, WriteType, NoAnswer, NoDisplay, TaskType
<1> QED
  BY <1>1, WritesOfAppend DEF Patched, Shape, ActivationsOK

LEMMA WritesOfEndSync ==
  ASSUME NEW t \in Tasks, NEW q, NEW success, NEW drained, NEW r \in Requests,
         EndSync(t, q, success, drained, r)
  PROVE  Writes(idb') \subseteq
           Writes(r) \cup {Write("clear", NoAnswer, NoId, NoDisplay, {})}
<1>1. Write("clear", NoAnswer, NoId, NoDisplay, {}) \in WriteType \cup Tasks
  BY DEF Write, WriteType, NoAnswer, NoId, NoDisplay
<1>2. /\ Cleared(task[t], success, r) \in Requests
      /\ Writes(Cleared(task[t], success, r)) \subseteq
           Writes(r) \cup {Write("clear", NoAnswer, NoId, NoDisplay, {})}
  BY <1>1, WritesOfAppend DEF Cleared
<1> QED
  BY <1>2, WritesOfStep DEF EndSync

(* The writes a step issues: the row of the answer just given, or one that  *)
(* carries no answer; the response id it carries is null or the session's.  *)
NewWrite(x) ==
  /\ x.rid \in {NoId, rid, rid'}
  /\ x.answer = NoAnswer \/ (x.answer = next /\ next' = next + 1)

IssuesOnly(S) == \A x \in S : x \in Writes(idb) \/ NewWrite(x)

LEMMA PlainWrites ==
  ASSUME NEW id \in {NoId, rid, rid'}, NEW d, NEW data,
         NEW op \in {"save", "patchId", "patchDisplay", "clear"}
  PROVE  NewWrite(Write(op, NoAnswer, id, d, data))
BY DEF NewWrite, Write

LEMMA AcceptedWrites ==
  ASSUME Shape, NEW w \in TaskType, w.cur \in Answers, Adopt(w)
  PROVE  Patched(w) \in Requests /\ IssuesOnly(Writes(Patched(w)))
<1>1. CASE w.target = NoId
  <2>1. NewWrite(Write("patchId", NoAnswer, w.created, NoDisplay, {}))
    BY <1>1, PlainWrites DEF Adopt, IdAfter
  <2> QED
    BY <2>1, WritesOfPatched DEF IssuesOnly
<1>2. CASE w.target # NoId
  BY <1>2 DEF Patched, IssuesOnly, Shape, ActivationsOK
<1> QED
  BY <1>1, <1>2

LEMMA ServedRequests ==
  ASSUME Shape, idb # <<>>
  PROVE  /\ Tail(idb) \in Requests /\ IssuesOnly(Writes(Tail(idb)))
         /\ Head(idb) \in WriteType \cup Tasks
         /\ Head(idb) \notin Tasks => Head(idb) \in Writes(idb)
<1>1. idb \in Requests
  BY DEF Shape, ActivationsOK
<1> QED
  BY <1>1, WritesOfTail, HeadTailProperties DEF IssuesOnly, Requests

LEMMA SendingWrites ==
  ASSUME Shape, NEW t \in Tasks, Sending(t)
  PROVE  IssuesOnly(Writes(idb'))
<1>1. idb \in Requests /\ IssuesOnly(Writes(idb)) /\ (idb # <<>> => Tail(idb) \in Requests)
  BY ServedRequests DEF IssuesOnly, Shape, ActivationsOK
<1>2. CASE CleanedUp(t) \/ Counted(t) \/ CountFails(t)
  <2>1. idb # <<>> /\ \E w : Step(t, w, Tail(idb))
    BY <1>2 DEF CleanedUp, Counted, CountFails, Served
  <2> QED
    BY <2>1, WritesOfStep, ServedRequests DEF IssuesOnly
<1>3. CASE SendAccepted(t)
  <2>1. task[t] \in TaskType /\ task[t].cur \in Answers /\ Adopt(task[t])
    BY <1>3, ActivationFacts DEF SendAccepted, Has, At, WellFormed, SendPCs
  <2>2. Patched(task[t]) \in Requests /\ IssuesOnly(Writes(Patched(task[t])))
    BY <2>1, AcceptedWrites
  <2>3. \/ \E w : Step(t, w, Patched(task[t]))
        \/ ProcessNext(t, queue', rid', Patched(task[t]))
    BY <1>3 DEF SendAccepted, Success
  <2> QED
    BY <2>2, <2>3, WritesOfStep, WritesOfProcessNext DEF IssuesOnly
<1>4. CASE \/ SendDeferred(t) \/ SendRejected(t) \/ RecaptchaFailed(t) \/ BackOff(t)
           \/ Resend(t) \/ GiveUp(t)
  <2>1. \E w : Step(t, w, idb)
    BY <1>4 DEF SendDeferred, SendRejected, RecaptchaFailed, BackOff, Resend, GiveUp,
       Failure
  <2> QED
    BY <1>1, <2>1, WritesOfStep DEF IssuesOnly
<1>5. CASE SentRowRemoved(t)
  <2>1. /\ idb # <<>>
        /\ (\E w : Step(t, w, Tail(idb))) \/ ProcessNext(t, queue, rid, Tail(idb))
    BY <1>5 DEF SentRowRemoved, Served, Success, Failure
  <2> QED
    BY <2>1, WritesOfStep, WritesOfProcessNext, ServedRequests DEF IssuesOnly
<1> QED
  BY <1>2, <1>3, <1>4, <1>5 DEF Sending

LEMMA EndSyncWrites ==
  ASSUME NEW t \in Tasks, NEW q, NEW success, NEW drained, NEW r \in Requests,
         EndSync(t, q, success, drained, r), IssuesOnly(Writes(r))
  PROVE  IssuesOnly(Writes(idb'))
<1>1. NewWrite(Write("clear", NoAnswer, NoId, NoDisplay, {}))
  BY PlainWrites
<1> QED
  BY <1>1, WritesOfEndSync DEF IssuesOnly

LEMMA SyncingWrites ==
  ASSUME Shape, NEW t \in Tasks, Syncing(t)
  PROVE  IssuesOnly(Writes(idb'))
<1>1. idb \in Requests /\ IssuesOnly(Writes(idb))
  BY DEF IssuesOnly, Shape, ActivationsOK
<1>2. CASE EffectCounted(t)
  <2>1. idb # <<>> /\ \E w : Step(t, w, Tail(idb))
    BY <1>2 DEF EffectCounted, Served
  <2> QED
    BY <2>1, WritesOfStep, ServedRequests DEF IssuesOnly
<1>3. CASE RowsRead(t) \/ ReadFails(t) \/ SyncedRowRemoved(t)
  <2>1. /\ idb # <<>>
        /\ \/ \E w : Step(t, w, Tail(idb))
           \/ \E q, success, drained : EndSync(t, q, success, drained, Tail(idb))
    BY <1>3 DEF RowsRead, ReadFails, SyncedRowRemoved, Served, SendRow
  <2> QED
    BY <2>1, WritesOfStep, ServedRequests, EndSyncWrites DEF IssuesOnly
<1>4. CASE RowAccepted(t)
  <2>1. task[t] \in TaskType /\ task[t].cur \in Answers /\ Adopt(task[t])
    BY <1>4, ActivationFacts DEF RowAccepted, Has, At, WellFormed, SendPCs
  <2>2. \E w : Step(t, w, Patched(task[t]))
    BY <1>4 DEF RowAccepted
  <2> QED
    BY <2>1, <2>2, AcceptedWrites, WritesOfStep DEF IssuesOnly
<1>5. CASE RowRejected(t) \/ Recreate(t)
  <2>1. \E w : Step(t, w, idb)
    BY <1>5 DEF RowRejected, Recreate
  <2> QED
    BY <1>1, <2>1, WritesOfStep DEF IssuesOnly
<1>6. CASE SyncStopped(t)
  BY <1>1, <1>6, EndSyncWrites DEF SyncStopped
<1> QED
  BY <1>2, <1>3, <1>4, <1>5, <1>6 DEF Syncing

LEMMA SubmitWrites ==
  ASSUME Shape, Submit
  PROVE  IssuesOnly(Writes(idb'))
<1> DEFINE add == Write("add", next, rid, display, {})
           save == Write("save", NoAnswer, rid, display, acc')
<1>1. idb \in Requests /\ next \in Answers /\ next' = next + 1
  BY DEF Submit, CanSubmit, Shape, ActivationsOK
<1>2. CASE PersistOffline
  <2>1. add \in WriteType \cup Tasks /\ save \in WriteType \cup Tasks
    BY <1>1, SubmitShape DEF Write, WriteType, Shape, TypeOK
  <2>2. NewWrite(add) /\ NewWrite(save)
    BY <1>1, PlainWrites DEF NewWrite, Write
  <2>3. idb' = idb \o <<add, save>>
    BY <1>2 DEF Submit
  <2> HIDE DEF add, save
  <2>4. <<add, save>> \in Requests
    BY <2>1 DEF Requests
  <2>5. Writes(<<add, save>>) \subseteq {add, save}
    BY DEF Writes
  <2> QED
    BY <1>1, <2>2, <2>3, <2>4, <2>5, WritesOfConcat, SMTT(30) DEF IssuesOnly
<1>3. CASE ~PersistOffline
  BY <1>1, <1>3, WritesOfProcessQueue DEF Submit, IssuesOnly
<1> QED
  BY <1>2, <1>3

LEMMA RestoreWrites ==
  ASSUME Shape, Restore
  PROVE  IssuesOnly(Writes(idb'))
<1> DEFINE x == Write("patchId", NoAnswer, rid', NoDisplay, {})
           y == Write("patchDisplay", NoAnswer, NoId, display', {})
<1>1. PICK found, patched :
        LET r == idb \o (IF found THEN <<x>> ELSE <<>>)
                     \o (IF patched THEN <<y>> ELSE <<>>)
        IN  StartEffect(r) \/ idb' = r
  BY Zenon DEF Restore
<1>2. rid' \in Nat /\ display' \in Nat /\ idb \in Requests
  BY RestoreShape DEF Shape, TypeOK, ActivationsOK
<1>3. x \in WriteType \cup Tasks /\ y \in WriteType \cup Tasks
  BY <1>2 DEF Write, WriteType, NoAnswer, NoId, NoDisplay
<1>4. NewWrite(x) /\ NewWrite(y)
  BY PlainWrites
<1> HIDE DEF x, y
<1> DEFINE xs == IF found THEN <<x>> ELSE <<>>
           ys == IF patched THEN <<y>> ELSE <<>>
<1>5. /\ xs \in Requests /\ IssuesOnly(Writes(xs))
      /\ ys \in Requests /\ IssuesOnly(Writes(ys))
  <2>1. /\ <<x>> \in Requests /\ <<y>> \in Requests /\ <<>> \in Requests
        /\ Writes(<<>>) = {}
    <3>1. <<x>> \in Requests /\ <<y>> \in Requests
      BY <1>3 DEF Requests
    <3>2. <<>> \in Requests /\ Len(<<>>) = 0
      BY EmptySeq DEF Requests
    <3> QED
      BY <3>1, <3>2 DEF Writes
  <2>3. Writes(<<x>>) \subseteq {x} /\ Writes(<<y>>) \subseteq {y}
    BY WriteOfOne
  <2>2. /\ IssuesOnly(Writes(<<x>>)) /\ IssuesOnly(Writes(<<y>>))
        /\ IssuesOnly(Writes(<<>>))
    BY <1>4, <2>1, <2>3 DEF IssuesOnly
  <2> QED
    BY <2>1, <2>2, Zenon
<1>6. StartEffect(idb \o xs \o ys) \/ idb' = idb \o xs \o ys
  BY <1>1
<1> HIDE DEF xs, ys
<1>7. idb \o xs \in Requests /\ idb \o xs \o ys \in Requests
  BY <1>2, <1>5, ConcatProperties DEF Requests
<1>8. IssuesOnly(Writes(idb \o xs)) /\ IssuesOnly(Writes(idb \o xs \o ys))
  BY <1>2, <1>5, <1>7, WritesOfConcat DEF IssuesOnly
<1> QED
  BY <1>6, <1>7, <1>8, WritesOfStartEffect DEF IssuesOnly

LEMMA WritesIssued ==
  ASSUME Shape, [Next]_vars
  PROVE  \A x \in Writes(idb') : x \in Writes(idb) \/ NewWrite(x)
<1>1. idb \in Requests /\ IssuesOnly(Writes(idb))
  BY DEF IssuesOnly, Shape, ActivationsOK
<1>2. CASE Storage
  <2>1. /\ idb # <<>>
        /\ ProcessQueue(queue, "app", Tail(idb)) \/ idb' = Tail(idb)
    BY <1>2 DEF Storage, AnswerStored, AnswerNotStored, ProgressWritten, Writing
  <2> QED
    BY <2>1, ServedRequests, WritesOfProcessQueue DEF IssuesOnly
<1>3. CASE StartFresh \/ Retry \/ GoOnline
  <2>1. ProcessQueue(queue, "retry", idb) \/ StartEffect(idb) \/ idb' = idb
    BY <1>3 DEF StartFresh, Retry, GoOnline
  <2> QED
    BY <1>1, <2>1, WritesOfProcessQueue, WritesOfStartEffect DEF IssuesOnly
<1>4. CASE Reload
  BY <1>4, EmptySeq DEF Reload, Writes
<1>5. CASE \/ \E t \in Tasks : Network(t)
           \/ GoOffline \/ Delete \/ UNCHANGED vars
  BY <1>1, <1>5 DEF Network, ServerHandles, ReplyLost, RequestFails, ServerRefuses,
     RequestUnchanged, GoOffline, Delete, vars, IssuesOnly
<1> QED
  BY <1>2, <1>3, <1>4, <1>5, SendingWrites, SyncingWrites, SubmitWrites, RestoreWrites
     DEF Next, Activation, Page, IssuesOnly
-----------------------------------------------------------------------------
(***************************************************************************)
(* Where the copies of an answer are.  A send carries the head of the      *)
(* queue; a sync carries a row that is stored and not handled, and the     *)
(* rows it still has to send are of the same kind; a row that is handled   *)
(* and could not be deleted has no copy in the queue.                      *)
(***************************************************************************)
Requesting(w) == w.pc \in {"sending", "replied", "backoff"}

(* The answer of activation w, with queue q, rows d, processed rows p and   *)
(* handled answers h.                                                       *)
Carries(w, q, d, p, h) ==
  /\ w.gone \subseteq h
  /\ ~w.sync /\ Requesting(w) => w.cur \in q /\ \A b \in q : w.cur <= b
  /\ ~w.sync /\ Removes(w) => w.cur \notin q
  /\ w.sync /\ w.pc \in SendPCs =>
       w.cur \in d \ p /\ w.todo \subseteq d \ p /\ w.cur \notin w.todo

Ledger ==
  /\ \A a \in queue \cup db \cup processed \cup Handled : a < next
  /\ \A x \in Writes(idb) : x.answer < next
  /\ queue \cap db \subseteq tracked
  /\ queue \cap processed = {}

Held ==
  /\ Ledger
  /\ \A t \in Tasks : Carries(task[t], queue, db, processed, Handled)

(* Writes are of answers that were given.                                   *)
LEMMA WritesGiven ==
  ASSUME Shape, Held, [Next]_vars
  PROVE  next <= next' /\ \A x \in Writes(idb') : x.answer < next'
<1>1. next \in Nat \ {0} /\ next' \in Nat /\ (next' = next \/ next' = next + 1)
  <2>1. next \in Nat \ {0}
    BY ResponseQueueAssumption DEF Shape, TypeOK
  <2>2. CASE Submit
    BY <2>1, <2>2 DEF Submit
  <2>3. CASE ~Submit
    <3>1. UNCHANGED next
      BY <2>3, ZenonT(60) DEF Next, vars, Activation, Sending, Syncing, Network, Storage, Page,
         CleanedUp, Counted, CountFails, SendAccepted, SendDeferred, SendRejected,
         RecaptchaFailed, BackOff, Resend, GiveUp, SentRowRemoved, EffectCounted,
         RowsRead, ReadFails, RowAccepted, RowRejected, Recreate, SyncStopped,
         SyncedRowRemoved, ServerHandles, ReplyLost, RequestFails, ServerRefuses,
         RequestUnchanged, AnswerStored, AnswerNotStored, ProgressWritten,
         StartFresh, Restore, Retry, GoOnline, GoOffline, Reload, Delete, session
    <3> QED
      BY <2>1, <3>1
  <2> QED
    BY <2>2, <2>3
<1>2. ASSUME NEW x \in Writes(idb')
      PROVE  x.answer < next'
  <2>1. CASE x \in Writes(idb)
    <3>1. x.answer < next /\ x.answer \in Nat
      <4>1. x \in WriteType
        BY <2>1, ElementOfSeq DEF Writes, Shape, ActivationsOK, Requests
      <4> QED
        BY <2>1, <4>1, ResponseQueueAssumption DEF Held, Ledger, WriteType, Answers, NoAnswer
    <3> QED
      BY <1>1, <3>1
  <2>2. CASE NewWrite(x)
    BY <1>1, <2>2 DEF NewWrite, NoAnswer
  <2> QED
    BY <1>2, <2>1, <2>2, WritesIssued
<1> QED
  BY <1>1, <1>2

(* An activation that is not the one acting: nothing it relies on changes,  *)
(* or it carries no answer.                                                 *)
LEMMA BystanderCarries ==
  ASSUME Shape, Settled, Held, NEW u \in Tasks, Handled \subseteq Handled',
         \/ ~Engaged(u)
         \/ /\ queue \subseteq queue' /\ queue' \ queue \subseteq {next}
            /\ db \ processed \subseteq db' \ processed'
  PROVE  Carries(task[u], queue', db', processed', Handled')
<1> DEFINE w == task[u]
<1>1. Carries(w, queue, db, processed, Handled)
  BY DEF Held
<1>2. CASE ~Engaged(u)
  BY <1>1, <1>2 DEF Engaged, Draining, Delivering, Carries, Requesting, Removes, SendPCs
<1>3. CASE /\ queue \subseteq queue' /\ queue' \ queue \subseteq {next}
           /\ db \ processed \subseteq db' \ processed'
  <2>1. w.pc \in SendPCs => w.cur \in Answers
    BY ActivationFacts DEF WellFormed
  <2>2. Removes(w) => w.cur < next
    BY DEF Settled, Held, Ledger
  <2>3. ~w.sync /\ Requesting(w) => w.cur < next /\ w.cur \in Nat /\ next \in Nat
    BY <1>1, <2>1, ResponseQueueAssumption DEF Carries, Held, Ledger, Answers, Requesting,
       SendPCs, Shape, TypeOK
  <2>4. ASSUME ~w.sync, Requesting(w), NEW b \in queue'
        PROVE  w.cur <= b
    <3>1. b \in queue \/ b = next
      BY <1>3
    <3> QED
      BY <1>1, <2>3, <2>4, <3>1 DEF Carries
  <2>5. ASSUME ~w.sync, Removes(w)
        PROVE  w.cur \notin queue'
    <3>1. w.cur \in Nat /\ next \in Nat
      BY <2>1, <2>5, ResponseQueueAssumption DEF Removes, SendPCs, Answers, Shape, TypeOK
    <3>2. w.cur # next
      BY <2>2, <2>5, <3>1
    <3> QED
      BY <1>1, <1>3, <2>5, <3>2 DEF Carries
  <2> QED
    BY <1>1, <1>3, <2>4, <2>5 DEF Carries
<1> QED
  BY <1>2, <1>3

(* One activation moves to w.                                               *)
LEMMA HeldStep ==
  ASSUME Shape, LocksOK, Settled, Held, NEW t \in Tasks, NEW w,
         task' = [task EXCEPT ![t] = w],
         Carries(w, queue', db', processed', Handled'), Handled \subseteq Handled',
         \/ Engaged(t)
         \/ ~syncing /\ ~inFlight
         \/ /\ queue \subseteq queue' /\ queue' \ queue \subseteq {next}
            /\ db \ processed \subseteq db' \ processed',
         Ledger'
  PROVE  Held'
<1>1. \A u \in Tasks : task'[u] = IF u = t THEN w ELSE task[u]
  BY DEF Shape, TypeOK
<1>2. \A u \in Tasks : u # t => Carries(task[u], queue', db', processed', Handled')
  <2>1. Engaged(t) => \A u \in Tasks : u # t => ~Engaged(u)
    BY DEF LocksOK, SingleFlight
  <2>2. ~syncing /\ ~inFlight => \A u \in Tasks : ~Engaged(u)
    BY DEF LocksOK, Engaged
  <2> QED
    BY <2>1, <2>2, BystanderCarries
<1>3. \A u \in Tasks : Carries(task'[u], queue', db', processed', Handled')
  BY <1>1, <1>2
<1> QED
  BY <1>3 DEF Held

LEMMA HeldKept ==
  ASSUME Shape, Settled, Held, UNCHANGED task, Handled \subseteq Handled',
         queue \subseteq queue', queue' \ queue \subseteq {next},
         db \ processed \subseteq db' \ processed', Ledger'
  PROVE  Held'
<1>1. \A u \in Tasks : Carries(task[u], queue', db', processed', Handled')
  BY BystanderCarries
<1> QED
  BY <1>1 DEF Held

(* A step that moves no copy of an answer.                                  *)
Unmoved == UNCHANGED <<next, queue, tracked, processed, db, acked, dropped>>

LEMMA UnmovedLedger ==
  ASSUME Shape, Held, [Next]_vars, Unmoved
  PROVE  Ledger' /\ Handled' = Handled
BY WritesGiven DEF Unmoved, Held, Ledger, Handled

LEMMA UnmovedHeld ==
  ASSUME Shape, LocksOK, Settled, Held, [Next]_vars, Unmoved, NEW t \in Tasks, NEW w,
         task' = [task EXCEPT ![t] = w], Carries(w, queue, db, processed, Handled)
  PROVE  Held'
<1>1. Ledger' /\ Handled' = Handled
  BY UnmovedLedger
<1>2. /\ queue' = queue /\ db' = db /\ processed' = processed
  BY DEF Unmoved
<1> QED
  BY <1>1, <1>2, HeldStep

(* What the activations carry that the code starts.                         *)
LEMMA RestingCarries ==
  ASSUME NEW w, w.pc \notin SendPCs, NEW q, NEW d, NEW p, NEW h, w.gone \subseteq h
  PROVE  Carries(w, q, d, p, h)
BY DEF Carries, Requesting, Removes, SendPCs

LEMMA IdleCarries ==
  ASSUME NEW q, NEW d, NEW p, NEW h
  PROVE  Carries(IdleTask, q, d, p, h)
BY RestingCarries DEF IdleTask, SendPCs

LEMMA CleanThenParts ==
  ASSUME NEW w \in TaskType, NEW pc
  PROVE  /\ CleanThen(w, pc).pc \in {"cleaning", pc}
         /\ CleanThen(w, pc).gone = w.gone
         /\ CleanThen(w, pc).sync = w.sync
         /\ CleanThen(w, pc).from = w.from
BY DEF CleanThen, TaskType

LEMMA RequestParts ==
  ASSUME NEW w \in TaskType, NEW id
  PROVE  /\ Request(w, id).pc = "sending" /\ Request(w, id).reply = "none"
         /\ Request(w, id).target = id
         /\ Request(w, id).cur = w.cur /\ Request(w, id).gone = w.gone
         /\ Request(w, id).todo = w.todo /\ Request(w, id).sync = w.sync
         /\ Request(w, id).created = w.created /\ Request(w, id).from = w.from
BY DEF Request, TaskType

LEMMA StartedParts ==
  ASSUME NEW q \in SUBSET Answers, q # {}, NEW from \in {"app", "retry", "effect"},
         NEW id
  PROVE  LET w == Started(q, from, id) IN
         /\ ~w.sync /\ w.gone = {} /\ w.from = from
         /\ IF PersistOffline THEN w.pc \in {"cleaning", "counting"}
            ELSE w.pc = "sending" /\ w.cur = First(q) /\ w.target = id
                 /\ w.reply = "none"
<1>1. CASE PersistOffline
  <2> DEFINE v == [IdleTask EXCEPT !.from = from]
  <2>1. v \in TaskType /\ ~v.sync /\ v.gone = {} /\ v.from = from
    BY DEF IdleTask, TaskType, TaskPCs, DbWaits, Replies, NoAnswer, NoId
  <2>2. Started(q, from, id) = CleanThen(v, "counting")
    BY <1>1 DEF Started
  <2> HIDE DEF v
  <2> QED
    BY <1>1, <2>1, <2>2, CleanThenParts
<1>2. CASE ~PersistOffline
  <2> DEFINE v == [IdleTask EXCEPT !.cur = First(q), !.from = from]
  <2>1. First(q) \in Answers
    BY FirstIsLeast
  <2>2. /\ v \in TaskType /\ ~v.sync /\ v.gone = {} /\ v.from = from
        /\ v.cur = First(q)
    BY <2>1 DEF IdleTask, TaskType, TaskPCs, DbWaits, Replies, NoAnswer, NoId
  <2>3. Started(q, from, id) = Request(v, id)
    BY <1>2 DEF Started
  <2> HIDE DEF v
  <2> QED
    BY <1>2, <2>2, <2>3, RequestParts
<1> QED
  BY <1>1, <1>2

LEMMA StartedCarries ==
  ASSUME NEW q \in SUBSET Answers, q # {}, NEW from \in {"app", "retry", "effect"},
         NEW id, NEW d, NEW p, NEW h
  PROVE  Carries(Started(q, from, id), q, d, p, h)
<1>1. CASE PersistOffline
  BY <1>1, StartedParts, RestingCarries DEF SendPCs
<1>2. CASE ~PersistOffline
  BY <1>2, StartedParts, FirstIsLeast DEF Carries, Removes
<1> QED
  BY <1>1, <1>2

(* The pieces the steps share.                                              *)
LEMMA ProcessQueueHeld ==
  ASSUME Shape, LocksOK, Settled, Held, NEW q \in SUBSET Answers,
         NEW from \in {"app", "retry", "effect"}, NEW r, ProcessQueue(q, from, r),
         q = queue', Handled \subseteq Handled', UNCHANGED syncing,
         queue \subseteq queue', queue' \ queue \subseteq {next},
         db \ processed \subseteq db' \ processed', Ledger'
  PROVE  Held'
<1>1. CASE Blocked(q, inFlight)
  BY <1>1, HeldKept DEF ProcessQueue
<1>2. CASE ~Blocked(q, inFlight)
  <2>1. PICK t \in Tasks : task' = [task EXCEPT ![t] = Started(q, from, rid)]
    BY <1>2 DEF ProcessQueue, Step
  <2>2. Carries(Started(q, from, rid), queue', db', processed', Handled')
    BY <1>2, StartedCarries DEF Blocked
  <2> QED
    BY <2>1, <2>2, HeldStep
<1> QED
  BY <1>1, <1>2

LEMMA ProcessNextHeld ==
  ASSUME Shape, LocksOK, Settled, Held, NEW t \in Tasks, Engaged(t),
         NEW q \in SUBSET Answers, NEW id, NEW r, ProcessNext(t, q, id, r),
         q = queue', Handled \subseteq Handled', Ledger'
  PROVE  Held'
<1>1. CASE Blocked(q, FALSE)
  BY <1>1, IdleCarries, HeldStep DEF ProcessNext, Step
<1>2. CASE ~Blocked(q, FALSE)
  <2>1. task' = [task EXCEPT ![t] = Started(q, "app", id)]
    BY <1>2 DEF ProcessNext, Step
  <2>2. Carries(Started(q, "app", id), queue', db', processed', Handled')
    BY <1>2, StartedCarries DEF Blocked
  <2> QED
    BY <2>1, <2>2, HeldStep
<1> QED
  BY <1>1, <1>2

LEMMA EndSyncHeld ==
  ASSUME Shape, LocksOK, Settled, Held, NEW t \in Tasks, Engaged(t),
         NEW q \in SUBSET Answers, NEW success, NEW drained, NEW r,
         EndSync(t, q, success, drained, r),
         q = queue', Handled \subseteq Handled', Ledger'
  PROVE  Held'
<1>1. Carries(AfterSync(q, drained), queue', db', processed', Handled')
  BY IdleCarries, StartedCarries DEF AfterSync, Blocked
<1> QED
  BY <1>1, HeldStep DEF EndSync, Step

LEMMA StartEffectHeld ==
  ASSUME Shape, LocksOK, Settled, Held, [Next]_vars, Unmoved, NEW r, StartEffect(r)
  PROVE  Held'
<1>1. CASE ~PersistOffline \/ syncRef
  <2>1. UNCHANGED <<task, queue, db, processed>>
    BY <1>1 DEF StartEffect, Unmoved
  <2> QED
    BY <2>1, UnmovedLedger, HeldKept
<1>2. CASE ~(~PersistOffline \/ syncRef)
  <2> DEFINE v == [IdleTask EXCEPT !.from = "effect"]
             w == CleanThen(v, "effect")
  <2>1. v \in TaskType /\ v.gone = {}
    BY DEF IdleTask, TaskType, TaskPCs, DbWaits, Replies, NoAnswer, NoId
  <2>2. PICK t \in Tasks : task' = [task EXCEPT ![t] = w]
    BY <1>2 DEF StartEffect, Step
  <2> HIDE DEF v
  <2>3. Carries(w, queue, db, processed, Handled)
    BY <2>1, CleanThenParts, RestingCarries DEF SendPCs
  <2> HIDE DEF w
  <2> QED
    BY <2>2, <2>3, UnmovedHeld
<1> QED
  BY <1>1, <1>2

(* Held, step by step.                                                      *)
LEMMA CleanedUpHeld ==
  ASSUME Shape, LocksOK, Settled, Held, [Next]_vars, NEW t \in Tasks, CleanedUp(t)
  PROVE  Held'
<1> DEFINE w == [task[t] EXCEPT !.pc = task[t].after]
<1>1. PICK gone \in SUBSET processed :
        /\ db' = db \ gone /\ processed' = processed \ gone
        /\ tracked' = tracked \ gone
  BY DEF CleanedUp
<1>2. /\ task' = [task EXCEPT ![t] = w] /\ task[t].pc = "cleaning"
      /\ UNCHANGED <<queue, next, acked, dropped>>
  BY DEF CleanedUp, Step, session, outcomes
<1>3. Handled' = Handled /\ Ledger'
  BY <1>1, <1>2, WritesGiven DEF Held, Ledger, Handled
<1>4. w.pc \notin SendPCs /\ w.gone = task[t].gone
  BY <1>2, ActivationFacts DEF WellFormed, TaskType, SendPCs
<1> HIDE DEF w
<1>5. Carries(w, queue', db', processed', Handled')
  BY <1>3, <1>4, RestingCarries DEF Held, Carries
<1> QED
  BY <1>1, <1>2, <1>3, <1>5, HeldStep

LEMMA CountedHeld ==
  ASSUME Shape, LocksOK, Settled, Held, [Next]_vars, NEW t \in Tasks,
         Counted(t) \/ CountFails(t)
  PROVE  Held'
<1>1. Unmoved /\ (Counted(t) => task[t].pc = "counting")
  BY DEF Counted, CountFails, outcomes, session, Unmoved
<1>2. CASE Step(t, IdleTask, Tail(idb))
  BY <1>1, <1>2, IdleCarries, UnmovedHeld DEF Step
<1>3. CASE Step(t, CleanThen([IdleTask EXCEPT !.sync = TRUE], "reading"), Tail(idb))
  <2> DEFINE v == [IdleTask EXCEPT !.sync = TRUE]
             w == CleanThen(v, "reading")
  <2>1. v \in TaskType /\ v.gone = {}
    BY DEF IdleTask, TaskType, TaskPCs, DbWaits, Replies, NoAnswer, NoId
  <2>2. task' = [task EXCEPT ![t] = w]
    BY <1>3 DEF Step
  <2> HIDE DEF v
  <2>3. Carries(w, queue, db, processed, Handled)
    BY <2>1, CleanThenParts, RestingCarries DEF SendPCs
  <2> HIDE DEF w
  <2> QED
    BY <1>1, <2>2, <2>3, UnmovedHeld
<1>4. CASE /\ ~Overtaken /\ Counted(t)
           /\ Step(t, Request([task[t] EXCEPT !.cur = First(queue)], rid), Tail(idb))
  <2> DEFINE v == [task[t] EXCEPT !.cur = First(queue)]
             w == Request(v, rid)
  <2>1. /\ First(queue) \in Answers /\ First(queue) \in queue
        /\ \A b \in queue : First(queue) <= b
    BY <1>4, FirstIsLeast DEF Overtaken, Shape, TypeOK
  <2>2. v \in TaskType /\ v.cur = First(queue) /\ v.gone = task[t].gone /\ ~v.sync
    BY <1>1, <1>4, <2>1, ActivationFacts DEF TaskType, WellFormed
  <2>3. task' = [task EXCEPT ![t] = w] /\ task[t].gone \subseteq Handled
    BY <1>4 DEF Step, Held, Carries
  <2> HIDE DEF v
  <2>4. Carries(w, queue, db, processed, Handled)
    BY <2>1, <2>2, <2>3, RequestParts DEF Carries, Removes
  <2> HIDE DEF w
  <2> QED
    BY <1>1, <2>3, <2>4, UnmovedHeld
<1> QED
  BY <1>2, <1>3, <1>4 DEF Counted, CountFails

LEMMA NetworkHeld ==
  ASSUME Shape, LocksOK, Settled, Held, [Next]_vars, NEW t \in Tasks, Network(t)
  PROVE  Held'
<1>1. RequestUnchanged /\ task[t].pc = "sending" /\ \E reply : Replied(t, reply)
  BY DEF Network, ServerHandles, ReplyLost, RequestFails, ServerRefuses
<1>2. PICK reply : Replied(t, reply)
  BY <1>1
<1> DEFINE w == [task[t] EXCEPT !.pc = "replied", !.reply = reply,
                                !.created = Len(responses')]
<1>3. task' = [task EXCEPT ![t] = w] /\ Unmoved
  BY <1>1, <1>2 DEF Replied, RequestUnchanged, outcomes, session, Unmoved
<1>4. Carries(w, queue, db, processed, Handled)
  <2>1. /\ w.pc = "replied" /\ w.cur = task[t].cur /\ w.sync = task[t].sync
        /\ w.gone = task[t].gone /\ w.todo = task[t].todo
    BY ActivationFacts DEF TaskType
  <2>2. Carries(task[t], queue, db, processed, Handled)
    BY DEF Held
  <2> HIDE DEF w
  <2> QED
    BY <1>1, <2>1, <2>2 DEF Carries, Requesting, Removes, SendPCs
<1> HIDE DEF w
<1> QED
  BY <1>3, <1>4, UnmovedHeld

(* The acting sender is engaged and its answer is the head of the queue.    *)
LEMMA SenderHolds ==
  ASSUME Shape, Held, NEW t \in Tasks, ~task[t].sync, Requesting(task[t])
  PROVE  /\ Engaged(t) /\ task[t].cur \in queue /\ First(queue) = task[t].cur
         /\ task[t].cur < next
<1>1. Carries(task[t], queue, db, processed, Handled) /\ queue \subseteq Answers
  BY DEF Held, Shape, TypeOK
<1>2. task[t].cur \in queue /\ \A b \in queue : task[t].cur <= b
  BY <1>1 DEF Carries
<1>3. First(queue) \in queue /\ First(queue) <= task[t].cur
  BY <1>1, <1>2, FirstIsLeast
<1>4. First(queue) = task[t].cur
  <2>1. First(queue) \in Int /\ task[t].cur \in Int
    <3>1. \A a \in Answers : a \in Int
      BY ResponseQueueAssumption DEF Answers
    <3> QED
      BY <1>1, <1>2, <1>3, <3>1
  <2>2. task[t].cur <= First(queue)
    BY <1>2, <1>3
  <2> QED
    BY <1>3, <2>1, <2>2
<1> QED
  BY <1>2, <1>4 DEF Engaged, Delivering, Requesting, SendPCs, Held, Ledger

LEMMA SendAcceptedHeld ==
  ASSUME Shape, LocksOK, Settled, Held, [Next]_vars, NEW t \in Tasks,
         SendAccepted(t) \/ SendRejected(t)
  PROVE  Held'
<1>1. ~task[t].sync /\ Requesting(task[t])
  BY DEF SendAccepted, SendRejected, Has, At, Requesting
<1>2. /\ Engaged(t) /\ task[t].cur \in queue /\ First(queue) = task[t].cur
      /\ task[t].cur < next
  BY <1>1, SenderHolds
<1>3. /\ queue' = queue \ {task[t].cur} /\ queue' \in SUBSET Answers
      /\ UNCHANGED <<next, tracked, processed, db>>
      /\ Handled' = Handled \cup {task[t].cur}
  BY <1>2 DEF SendAccepted, SendRejected, session, Adopt, Handled, Shape, TypeOK
<1>4. Ledger'
  BY <1>2, <1>3, WritesGiven DEF Held, Ledger
<1>5. ASSUME NEW pc \in {"removing", "dropping"},
             task' = [task EXCEPT ![t] = [task[t] EXCEPT !.pc = pc]]
      PROVE  Held'
  <2> DEFINE w == [task[t] EXCEPT !.pc = pc]
  <2>1. /\ w.pc = pc /\ w.cur = task[t].cur /\ w.sync = task[t].sync
        /\ w.gone = task[t].gone
    BY ActivationFacts DEF TaskType
  <2>2. task' = [task EXCEPT ![t] = w] /\ task[t].gone \subseteq Handled
    BY <1>5 DEF Held, Carries
  <2> HIDE DEF w
  <2>3. Carries(w, queue', db', processed', Handled')
    BY <1>1, <1>3, <2>1, <2>2 DEF Carries, Requesting
  <2> QED
    BY <1>2, <1>3, <1>4, <2>2, <2>3, HeldStep
<1>6. CASE SendAccepted(t)
  <2>1. CASE task[t].cur \in tracked
    BY <1>5, <1>6, <2>1 DEF SendAccepted, Step
  <2>2. CASE task[t].cur \notin tracked
    <3>1. ProcessNext(t, queue', rid', Patched(task[t]))
      BY <1>6, <2>2 DEF SendAccepted, Success
    <3> QED
      BY <1>2, <1>3, <1>4, <3>1, ProcessNextHeld
  <2> QED
    BY <2>1, <2>2
<1>7. CASE SendRejected(t)
  <2>1. CASE task[t].cur \in tracked
    BY <1>5, <1>7, <2>1 DEF SendRejected, Step
  <2>2. CASE task[t].cur \notin tracked
    <3>1. task' = [task EXCEPT ![t] = IdleTask]
      BY <1>7, <2>2 DEF SendRejected, Failure, Step
    <3> QED
      BY <1>2, <1>3, <1>4, <3>1, IdleCarries, HeldStep
  <2> QED
    BY <2>1, <2>2
<1> QED
  BY <1>6, <1>7

LEMMA SendEndedHeld ==
  ASSUME Shape, LocksOK, Settled, Held, [Next]_vars, NEW t \in Tasks,
         SendDeferred(t) \/ RecaptchaFailed(t) \/ GiveUp(t)
  PROVE  Held'
<1>1. task' = [task EXCEPT ![t] = IdleTask] /\ Unmoved
  BY DEF SendDeferred, RecaptchaFailed, GiveUp, Failure, Step, outcomes, session, Unmoved
<1> QED
  BY <1>1, IdleCarries, UnmovedHeld

LEMMA SendRetriedHeld ==
  ASSUME Shape, LocksOK, Settled, Held, [Next]_vars, NEW t \in Tasks,
         BackOff(t) \/ Resend(t)
  PROVE  Held'
<1>1. Unmoved /\ ~task[t].sync /\ Requesting(task[t])
  BY DEF BackOff, Resend, outcomes, session, Unmoved, Has, At, Requesting
<1>2. Carries(task[t], queue, db, processed, Handled)
  BY DEF Held
<1>3. ASSUME NEW w, task' = [task EXCEPT ![t] = w], Requesting(w), ~w.sync,
             w.cur = task[t].cur, w.gone = task[t].gone
      PROVE  Held'
  <2>1. Carries(w, queue, db, processed, Handled)
    BY <1>1, <1>2, <1>3 DEF Carries, Requesting, Removes
  <2> QED
    BY <1>1, <1>3, <2>1, UnmovedHeld
<1>4. CASE BackOff(t)
  <2> DEFINE w == [task[t] EXCEPT !.pc = "backoff", !.reply = "none"]
  <2>1. task' = [task EXCEPT ![t] = w]
    BY <1>4 DEF BackOff, Step
  <2>2. Requesting(w) /\ ~w.sync /\ w.cur = task[t].cur /\ w.gone = task[t].gone
    BY <1>1, ActivationFacts DEF TaskType, Requesting
  <2> HIDE DEF w
  <2> QED
    BY <1>3, <2>1, <2>2
<1>5. CASE Resend(t)
  <2> DEFINE v == [task[t] EXCEPT !.attempt = @ + 1]
             w == Request(v, rid)
  <2>1. task' = [task EXCEPT ![t] = w]
    BY <1>5 DEF Resend, Step
  <2>2. /\ v \in TaskType /\ ~v.sync /\ v.cur = task[t].cur /\ v.gone = task[t].gone
    BY <1>1, ActivationFacts DEF TaskType
  <2> HIDE DEF v
  <2>3. Requesting(w) /\ ~w.sync /\ w.cur = task[t].cur /\ w.gone = task[t].gone
    BY <2>2, RequestParts DEF Requesting
  <2> HIDE DEF w
  <2> QED
    BY <1>3, <2>1, <2>3
<1> QED
  BY <1>4, <1>5

LEMMA SentRowRemovedHeld ==
  ASSUME Shape, LocksOK, Settled, Held, [Next]_vars, NEW t \in Tasks,
         SentRowRemoved(t)
  PROVE  Held'
<1>1. ~task[t].sync /\ Removes(task[t]) /\ Engaged(t)
  BY DEF SentRowRemoved, Removes, Engaged, Delivering, SendPCs
<1>2. task[t].cur \in Handled /\ task[t].cur \notin queue
  BY <1>1 DEF Settled, Held, Carries
<1>3. PICK removed \in BOOLEAN :
        /\ RemoveRow(task[t].cur, removed)
        /\ tracked' = IF removed THEN tracked \ {task[t].cur} ELSE tracked
  BY DEF SentRowRemoved
<1>4. UNCHANGED <<queue, next, acked, dropped>> /\ queue \in SUBSET Answers
  BY DEF SentRowRemoved, session, Shape, TypeOK
<1>5. Ledger' /\ Handled' = Handled
  BY <1>2, <1>3, <1>4, WritesGiven DEF Held, Ledger, RemoveRow, Handled
<1>6. CASE task[t].pc = "removing"
  BY <1>1, <1>4, <1>5, <1>6, ProcessNextHeld DEF SentRowRemoved, Success
<1>7. CASE task[t].pc # "removing"
  <2>1. task' = [task EXCEPT ![t] = IdleTask]
    BY <1>7 DEF SentRowRemoved, Failure, Step
  <2> QED
    BY <1>1, <1>5, <2>1, IdleCarries, HeldStep
<1> QED
  BY <1>6, <1>7

LEMMA SendingHeld ==
  ASSUME Shape, LocksOK, Settled, Held, [Next]_vars, NEW t \in Tasks, Sending(t)
  PROVE  Held'
BY CleanedUpHeld, CountedHeld, SendAcceptedHeld, SendEndedHeld, SendRetriedHeld,
   SentRowRemovedHeld DEF Sending

(* A sync takes its next row.                                               *)
LEMMA SendRowHeld ==
  ASSUME Shape, LocksOK, Settled, Held, NEW t \in Tasks, Engaged(t),
         NEW w \in TaskType, w.sync, NEW rows \in SUBSET Answers, rows # {},
         NEW r, SendRow(t, w, rows, r), rows \subseteq db' \ processed',
         w.gone \subseteq Handled', Handled \subseteq Handled', Ledger'
  PROVE  Held'
<1> DEFINE a == First(rows)
           v == [w EXCEPT !.cur = a, !.todo = rows \ {a}]
           x == Request(v, IdFor(a))
<1>1. a \in rows /\ a \in Answers
  BY FirstIsLeast
<1>2. /\ v \in TaskType /\ v.cur = a /\ v.todo = rows \ {a} /\ v.gone = w.gone
      /\ v.sync
  BY <1>1 DEF TaskType
<1>3. task' = [task EXCEPT ![t] = x]
  BY DEF SendRow, Step
<1> HIDE DEF a, v
<1>4. Carries(x, queue', db', processed', Handled')
  BY <1>1, <1>2, RequestParts DEF Carries
<1> HIDE DEF x
<1> QED
  BY <1>3, <1>4, HeldStep

LEMMA EffectCountedHeld ==
  ASSUME Shape, LocksOK, Settled, Held, [Next]_vars, NEW t \in Tasks, EffectCounted(t)
  PROVE  Held'
<1>1. Unmoved
  BY DEF EffectCounted, outcomes, session, Unmoved
<1>2. CASE PendingCount = 0 \/ SyncRefused
  BY <1>1, <1>2, IdleCarries, UnmovedHeld DEF EffectCounted, Step
<1>3. CASE ~(PendingCount = 0 \/ SyncRefused)
  <2> DEFINE v == [task[t] EXCEPT !.sync = TRUE]
             w == CleanThen(v, "reading")
  <2>1. v \in TaskType /\ v.gone = task[t].gone
    BY ActivationFacts DEF TaskType
  <2>2. task' = [task EXCEPT ![t] = w] /\ task[t].gone \subseteq Handled
    BY <1>3 DEF EffectCounted, Step, Held, Carries
  <2> HIDE DEF v
  <2>3. Carries(w, queue, db, processed, Handled)
    BY <2>1, <2>2, CleanThenParts, RestingCarries DEF SendPCs
  <2> HIDE DEF w
  <2> QED
    BY <1>1, <2>2, <2>3, UnmovedHeld
<1> QED
  BY <1>2, <1>3

LEMMA RowsReadHeld ==
  ASSUME Shape, LocksOK, Settled, Held, [Next]_vars, NEW t \in Tasks,
         RowsRead(t) \/ ReadFails(t)
  PROVE  Held'
<1>1. Unmoved
  BY DEF RowsRead, ReadFails, outcomes, session, Unmoved
<1>2. /\ task[t].sync /\ Engaged(t) /\ task[t] \in TaskType
      /\ task[t].gone \subseteq Handled
  BY ActivationFacts DEF RowsRead, ReadFails, WellFormed, Engaged, Draining, Held, Carries
<1>3. Ledger' /\ Handled' = Handled
  BY <1>1, UnmovedLedger
<1>4. \/ \E success \in BOOLEAN : EndSync(t, queue, success, FALSE, Tail(idb))
      \/ EntriesToSync # {} /\ SendRow(t, task[t], EntriesToSync, Tail(idb))
  BY DEF RowsRead, ReadFails
<1>5. /\ queue \in SUBSET Answers /\ queue' = queue
      /\ EntriesToSync \in SUBSET Answers /\ EntriesToSync \subseteq db' \ processed'
  BY <1>1 DEF EntriesToSync, Shape, TypeOK, Unmoved
<1>6. CASE \E success \in BOOLEAN : EndSync(t, queue, success, FALSE, Tail(idb))
  BY <1>2, <1>3, <1>5, <1>6, EndSyncHeld
<1>7. CASE EntriesToSync # {} /\ SendRow(t, task[t], EntriesToSync, Tail(idb))
  BY <1>2, <1>3, <1>5, <1>7, SendRowHeld
<1> QED
  BY <1>4, <1>6, <1>7

LEMMA RowRepliedHeld ==
  ASSUME Shape, LocksOK, Settled, Held, [Next]_vars, NEW t \in Tasks,
         RowAccepted(t) \/ RowRejected(t)
  PROVE  Held'
<1>1. /\ task[t].sync /\ task[t].pc \in SendPCs /\ Engaged(t)
      /\ Carries(task[t], queue, db, processed, Handled)
  BY DEF RowAccepted, RowRejected, Has, At, SendPCs, Engaged, Draining, Held
<1>2. /\ UNCHANGED <<queue, tracked, processed, db, next>>
      /\ Handled' = Handled \cup {task[t].cur}
  BY DEF RowAccepted, RowRejected, Adopt, Handled, session
<1>3. task[t].cur < next
  BY <1>1 DEF Carries, Held, Ledger
<1>4. Ledger'
  BY <1>2, <1>3, WritesGiven DEF Held, Ledger
<1>5. PICK pc \in {"removing", "dropping"} :
        task' = [task EXCEPT ![t] = [task[t] EXCEPT !.pc = pc]]
  BY DEF RowAccepted, RowRejected, Step
<1> DEFINE w == [task[t] EXCEPT !.pc = pc]
<1>6. /\ w.pc = pc /\ w.cur = task[t].cur /\ w.sync = task[t].sync
      /\ w.gone = task[t].gone /\ w.todo = task[t].todo
  BY ActivationFacts DEF TaskType
<1>7. task' = [task EXCEPT ![t] = w]
  BY <1>5
<1> HIDE DEF w
<1>8. Carries(w, queue', db', processed', Handled')
  BY <1>1, <1>2, <1>6 DEF Carries
<1> QED
  BY <1>1, <1>2, <1>4, <1>7, <1>8, HeldStep

LEMMA RecreateHeld ==
  ASSUME Shape, LocksOK, Settled, Held, [Next]_vars, NEW t \in Tasks, Recreate(t)
  PROVE  Held'
<1> DEFINE w == Request(task[t], NoId)
<1>1. /\ Unmoved /\ task' = [task EXCEPT ![t] = w]
      /\ task[t].sync /\ task[t].pc \in SendPCs
      /\ Carries(task[t], queue, db, processed, Handled)
  BY DEF Recreate, Step, outcomes, Unmoved, Has, At, SendPCs, Held
<1>2. Carries(w, queue, db, processed, Handled)
  BY <1>1, ActivationFacts, RequestParts DEF Carries
<1> HIDE DEF w
<1> QED
  BY <1>1, <1>2, UnmovedHeld

(* The copies of the rows a sync has handled leave the queue.               *)
LEMMA ForgottenLedger ==
  ASSUME Shape, Held, [Next]_vars, NEW gone, ForgetProcessed(gone),
         \/ UNCHANGED <<db, processed>>
         \/ \E a \in gone : /\ a \in db /\ a < next
                            /\ db' \subseteq db /\ processed' \subseteq processed \cup {a},
         UNCHANGED next, Handled' = Handled
  PROVE  Ledger' /\ queue' \in SUBSET Answers
<1>1. queue' = queue \ (gone \cap tracked) /\ tracked' = tracked \ gone
  BY DEF ForgetProcessed
<1>2. queue \cap db \subseteq tracked /\ queue \subseteq Answers
  BY DEF Held, Ledger, Shape, TypeOK
<1>3. queue' \cap db' \subseteq tracked' /\ queue' \in SUBSET Answers
  BY <1>1, <1>2
<1>4. queue' \cap processed' = {}
  BY <1>1, <1>2 DEF Held, Ledger
<1>5. \A a \in queue' \cup db' \cup processed' \cup Handled' : a < next'
  BY <1>1 DEF Held, Ledger
<1> QED
  BY <1>3, <1>4, <1>5, WritesGiven DEF Ledger

LEMMA SyncStoppedHeld ==
  ASSUME Shape, LocksOK, Settled, Held, [Next]_vars, NEW t \in Tasks, SyncStopped(t)
  PROVE  Held'
<1>1. /\ Engaged(t) /\ UNCHANGED <<db, processed, next>> /\ Handled' = Handled
      /\ ForgetProcessed(task[t].gone)
      /\ EndSync(t, queue', FALSE, FALSE, idb)
  BY DEF SyncStopped, Has, At, Engaged, Draining, outcomes, session, Handled
<1>2. Ledger' /\ queue' \in SUBSET Answers
  BY <1>1, ForgottenLedger
<1> QED
  BY <1>1, <1>2, EndSyncHeld

LEMMA SyncedRowRemovedHeld ==
  ASSUME Shape, LocksOK, Settled, Held, [Next]_vars, NEW t \in Tasks,
         SyncedRowRemoved(t)
  PROVE  Held'
<1> DEFINE w == [task[t] EXCEPT !.gone = @ \cup {task[t].cur}]
<1>1. /\ task[t].sync /\ task[t].pc \in SendPCs /\ Removes(task[t]) /\ Engaged(t)
      /\ Carries(task[t], queue, db, processed, Handled)
      /\ UNCHANGED <<next, acked, dropped>>
  BY DEF SyncedRowRemoved, SendPCs, Removes, Engaged, Draining, Held, session, outcomes
<1>2. task[t].cur \in Handled /\ Handled' = Handled /\ task[t].cur < next
  BY <1>1 DEF Settled, Handled, Held, Ledger
<1>3. /\ w \in TaskType /\ w.cur = task[t].cur /\ w.sync
      /\ w.gone = task[t].gone \cup {task[t].cur} /\ w.todo = task[t].todo
      /\ w.todo \in SUBSET Answers
  BY <1>1, ActivationFacts DEF TaskType, WellFormed
<1>4. PICK removed \in BOOLEAN :
        /\ RemoveRow(w.cur, removed)
        /\ IF removed /\ w.todo # {}
           THEN /\ SendRow(t, w, w.todo, Tail(idb))
                /\ UNCHANGED <<queue, tracked>>
           ELSE /\ ForgetProcessed(w.gone)
                /\ EndSync(t, queue', removed, removed, Tail(idb))
  BY DEF SyncedRowRemoved
<1> HIDE DEF w
<1>5. CASE removed /\ w.todo # {}
  <2>1. /\ db' = db \ {w.cur} /\ processed' = processed \ {w.cur}
        /\ UNCHANGED <<queue, tracked>> /\ SendRow(t, w, w.todo, Tail(idb))
    BY <1>4, <1>5 DEF RemoveRow
  <2>2. Ledger'
    BY <1>1, <1>2, <2>1, WritesGiven DEF Held, Ledger
  <2>3. w.todo \subseteq db' \ processed'
    BY <1>1, <1>3, <2>1 DEF Carries
  <2>4. w.gone \subseteq Handled'
    BY <1>1, <1>2, <1>3 DEF Carries
  <2> QED
    BY <1>1, <1>2, <1>3, <1>5, <2>1, <2>2, <2>3, <2>4, SendRowHeld
<1>6. CASE ~(removed /\ w.todo # {})
  <2>1. ForgetProcessed(w.gone) /\ EndSync(t, queue', removed, removed, Tail(idb))
    BY <1>4, <1>6
  <2>2. /\ w.cur \in w.gone /\ w.cur \in db /\ w.cur < next
        /\ db' \subseteq db /\ processed' \subseteq processed \cup {w.cur}
    BY <1>1, <1>2, <1>3, <1>4 DEF RemoveRow, Carries
  <2>3. Ledger' /\ queue' \in SUBSET Answers
    BY <1>1, <1>2, <2>1, <2>2, ForgottenLedger
  <2> QED
    BY <1>1, <1>2, <2>1, <2>3, EndSyncHeld
<1> QED
  BY <1>5, <1>6

LEMMA SyncingHeld ==
  ASSUME Shape, LocksOK, Settled, Held, [Next]_vars, NEW t \in Tasks, Syncing(t)
  PROVE  Held'
BY EffectCountedHeld, RowsReadHeld, RowRepliedHeld, RecreateHeld, SyncStoppedHeld,
   SyncedRowRemovedHeld DEF Syncing

LEMMA StorageHeld ==
  ASSUME Shape, LocksOK, Settled, Held, [Next]_vars, Storage
  PROVE  Held'
<1>1. queue \in SUBSET Answers
  BY DEF Shape, TypeOK
<1>2. CASE AnswerStored
  <2> DEFINE a == Head(idb).answer
  <2>1. /\ db' = db \cup {a} /\ tracked' = tracked \cup {a}
        /\ ProcessQueue(queue, "app", Tail(idb))
        /\ UNCHANGED <<queue, next, processed, syncing, acked, dropped>>
    BY <1>2 DEF AnswerStored, session, outcomes
  <2>2. a < next
    BY <1>2, ServedRequests DEF AnswerStored, Writing, Held, Ledger
  <2> HIDE DEF a
  <2>3. Ledger' /\ Handled' = Handled
    BY <2>1, <2>2, WritesGiven DEF Held, Ledger, Handled
  <2> QED
    BY <1>1, <2>1, <2>3, ProcessQueueHeld
<1>3. CASE AnswerNotStored
  <2>1. Unmoved /\ UNCHANGED <<queue, db, processed, syncing>>
    BY <1>3 DEF AnswerNotStored, session, outcomes, Unmoved
  <2> QED
    BY <1>1, <1>3, <2>1, UnmovedLedger, ProcessQueueHeld DEF AnswerNotStored
<1>4. CASE ProgressWritten
  <2>1. Unmoved /\ UNCHANGED <<task, queue, db, processed>>
    BY <1>4 DEF ProgressWritten, session, outcomes, Unmoved
  <2> QED
    BY <2>1, UnmovedLedger, HeldKept
<1> QED
  BY <1>2, <1>3, <1>4 DEF Storage

LEMMA SubmitHeld ==
  ASSUME Shape, LocksOK, Settled, Held, [Next]_vars, Submit
  PROVE  Held'
<1>1. /\ next' = next + 1 /\ next \in Nat /\ queue' = queue \cup {next}
      /\ UNCHANGED <<tracked, processed, db, acked, dropped, syncing>>
  BY ResponseQueueAssumption DEF Submit, outcomes, Shape, TypeOK
<1>2. \A a \in queue \cup db \cup processed \cup Handled : a \in Nat /\ a < next
  BY ResponseQueueAssumption DEF Held, Ledger, Shape, TypeOK, Answers, Handled
<1>3. \A a \in queue' \cup db' \cup processed' \cup Handled' : a < next'
  BY <1>1, <1>2 DEF Handled
<1>4. next \notin db /\ next \notin processed
  BY <1>1, <1>2
<1>5. Ledger' /\ Handled' = Handled
  BY <1>1, <1>3, <1>4, WritesGiven DEF Held, Ledger, Handled
<1>6. CASE PersistOffline
  <2>1. UNCHANGED task
    BY <1>6 DEF Submit
  <2> QED
    BY <1>1, <1>5, <2>1, HeldKept
<1>7. CASE ~PersistOffline
  <2>1. ProcessQueue(queue', "app", idb) /\ queue' \in SUBSET Answers
    BY <1>7, SubmitShape DEF Submit, Shape, TypeOK
  <2> QED
    BY <1>1, <1>5, <2>1, ProcessQueueHeld
<1> QED
  BY <1>6, <1>7

LEMMA PageHeld ==
  ASSUME Shape, LocksOK, Settled, Held, [Next]_vars,
         Page \/ Retry \/ GoOnline \/ GoOffline \/ Delete \/ UNCHANGED vars
  PROVE  Held'
<1>1. Unmoved /\ UNCHANGED <<queue, db, processed, syncing>>
  <2>1. UNCHANGED syncing
    BY DEF Page, StartFresh, Restore, Retry, GoOnline, GoOffline, Delete, vars
  <2> QED
    BY <2>1 DEF Page, StartFresh, Restore, Retry, GoOnline, GoOffline, Delete, outcomes,
       session, Unmoved, vars
<1>2. CASE UNCHANGED task
  BY <1>1, <1>2, UnmovedLedger, HeldKept
<1>3. CASE Page \/ GoOnline
  BY <1>1, <1>2, <1>3, StartEffectHeld DEF Page, StartFresh, Restore, GoOnline
<1>4. CASE Retry
  <2>1. ProcessQueue(queue, "retry", idb) /\ queue \in SUBSET Answers
    BY <1>4 DEF Retry, Shape, TypeOK
  <2> QED
    BY <1>1, <2>1, UnmovedLedger, ProcessQueueHeld
<1> QED
  BY <1>2, <1>3, <1>4 DEF GoOffline, Delete, vars

LEMMA ReloadHeld ==
  ASSUME Shape, LocksOK, Settled, Held, [Next]_vars, Reload
  PROVE  Held'
<1>1. /\ queue' = {} /\ processed' = {} /\ UNCHANGED <<next, db, acked, dropped>>
      /\ task' = [t \in Tasks |-> IdleTask]
  BY DEF Reload
<1>2. Ledger'
  BY <1>1, WritesGiven DEF Held, Ledger, Handled
<1> QED
  BY <1>1, <1>2, IdleCarries DEF Held

LEMMA HeldInductive == Shape /\ LocksOK /\ Settled /\ Held /\ [Next]_vars => Held'
<1> SUFFICES ASSUME Shape, LocksOK, Settled, Held, [Next]_vars PROVE Held'
  OBVIOUS
<1>1. CASE \E t \in Tasks : Activation(t)
  BY <1>1, SendingHeld, SyncingHeld, NetworkHeld DEF Activation
<1> QED
  BY <1>1, StorageHeld, SubmitHeld, PageHeld, ReloadHeld DEF Next

LEMMA HeldInitially == Init => Held
<1> SUFFICES ASSUME Init PROVE Held
  OBVIOUS
<1>1. Writes(idb) = {}
  BY EmptySeq DEF Init, Writes
<1> QED
  BY <1>1, IdleCarries DEF Init, Held, Ledger, Handled

LEMMA HeldAlways == Spec => [](Shape /\ LocksOK /\ Settled /\ Held)
BY ShapeInitially, ShapeInductive, LocksInitially, LocksInductive, SettledInitially,
   SettledInductive, HeldInitially, HeldInductive, PTL DEF Spec

(* Only a new answer joins the queue.                                       *)
LEMMA QueueGains ==
  ASSUME [Next]_vars
  PROVE  queue' \subseteq queue \cup {next}
<1>1. ASSUME NEW t \in Tasks, Activation(t)
      PROVE  queue' \subseteq queue
  <2>1. CASE Sending(t)
    BY <2>1 DEF Sending, CleanedUp, Counted, CountFails, SendAccepted, SendDeferred,
       SendRejected, RecaptchaFailed, BackOff, Resend, GiveUp, SentRowRemoved
  <2>2. CASE Syncing(t)
    BY <2>2 DEF Syncing, EffectCounted, RowsRead, ReadFails, RowAccepted, RowRejected,
       Recreate, SyncStopped, SyncedRowRemoved, ForgetProcessed
  <2>3. CASE Network(t)
    BY <2>3 DEF Network, ServerHandles, ReplyLost, RequestFails, ServerRefuses,
       RequestUnchanged
  <2> QED
    BY <1>1, <2>1, <2>2, <2>3 DEF Activation
<1>2. CASE Storage \/ Page \/ Submit \/ Retry \/ GoOnline \/ GoOffline \/ Reload \/ Delete
  BY <1>2 DEF Storage, AnswerStored, AnswerNotStored, ProgressWritten, Page,
     StartFresh, Restore, Submit, Retry, GoOnline, GoOffline, Reload, Delete
<1> QED
  BY <1>1, <1>2 DEF Next, vars

(* A hidden row is shown again by a reload only, unless it is deleted.      *)
LEMMA HiddenUntilDeleted ==
  ASSUME [Next]_vars, ~Reload, NEW a \in processed
  PROVE  a \in processed' \/ a \notin db'
<1>1. ASSUME NEW t \in Tasks, CleanedUp(t) \/ SentRowRemoved(t) \/ SyncedRowRemoved(t)
      PROVE  a \in processed' \/ a \notin db'
  BY <1>1 DEF CleanedUp, SentRowRemoved, SyncedRowRemoved, RemoveRow
<1>2. ASSUME NEW t \in Tasks, Activation(t), ~CleanedUp(t), ~SentRowRemoved(t),
             ~SyncedRowRemoved(t)
      PROVE  UNCHANGED processed
  <2>1. Sending(t) => UNCHANGED processed
    BY <1>2 DEF Sending, Counted, CountFails, SendAccepted, SendDeferred,
       SendRejected, RecaptchaFailed, BackOff, Resend, GiveUp
  <2>2. Syncing(t) => UNCHANGED processed
    BY <1>2 DEF Syncing, EffectCounted, RowsRead, ReadFails, RowAccepted, RowRejected,
       Recreate, SyncStopped
  <2>3. Network(t) => UNCHANGED processed
    BY DEF Network, ServerHandles, ReplyLost, RequestFails, ServerRefuses,
       RequestUnchanged
  <2> QED
    BY <1>2, <2>1, <2>2, <2>3 DEF Activation
<1>3. CASE Storage \/ Page \/ Submit \/ Retry \/ GoOnline \/ GoOffline \/ Delete
  BY <1>3 DEF Storage, AnswerStored, AnswerNotStored, ProgressWritten, Page,
     StartFresh, Restore, Submit, Retry, GoOnline, GoOffline, Delete
<1> QED
  BY <1>1, <1>2, <1>3 DEF Next, vars

(* However deletions fail and whichever of the two senders is at work, a    *)
(* handled row that is still stored stays hidden and is not sent again      *)
(* while the page stays open; a reload, which empties the set of hidden     *)
(* rows, is the one exception.                                              *)
THEOREM HandledRowsStay == Spec => HandledRowNotResent
<1>1. /\ Shape /\ LocksOK /\ Settled /\ Held /\ [Next]_vars
      => [\A a \in processed :
            \/ page' = "restoring"
            \/ /\ a \in processed' \/ a \notin db'
               /\ \A t \in Tasks : task'[t].pc = "sending" => task'[t].cur # a]_vars
  <2> SUFFICES ASSUME Shape, LocksOK, Settled, Held, [Next]_vars, NEW a \in processed,
                      page' # "restoring"
               PROVE  /\ a \in processed' \/ a \notin db'
                      /\ \A t \in Tasks : task'[t].pc = "sending" => task'[t].cur # a
    OBVIOUS
  <2>1. a \in processed' \/ a \notin db'
    BY HiddenUntilDeleted DEF Reload
  <2>2. a \notin queue'
    <3>1. a \notin queue /\ a < next /\ a \in Nat
      BY ResponseQueueAssumption DEF Held, Ledger, Shape, TypeOK, Answers
    <3>2. a # next
      BY <3>1
    <3> QED
      BY <3>1, <3>2, QueueGains
  <2>3. ASSUME NEW t \in Tasks, task'[t].pc = "sending"
        PROVE  task'[t].cur # a
    <3>1. Carries(task'[t], queue', db', processed', Handled')
      BY HeldInductive DEF Held
    <3>2. task'[t].cur \in queue' \/ task'[t].cur \in db' \ processed'
      BY <2>3, <3>1 DEF Carries, Requesting, SendPCs
    <3> QED
      BY <2>1, <2>2, <3>2
  <2> QED
    BY <2>1, <2>3
<1> QED
  BY <1>1, HeldAlways, PTL DEF Spec, HandledRowNotResent

-----------------------------------------------------------------------------
(***************************************************************************)
(* While the page is not reloaded, an answer that leaves the queue is      *)
(* handled: it was the one sent, or a sync has handled its row.            *)
(***************************************************************************)
LEMMA QueueLosesHandled ==
  ASSUME Shape, Settled, Held, [Next]_vars, ~Reload
  PROVE  queue \ queue' \subseteq Handled'
<1>1. ASSUME NEW t \in Tasks, SendAccepted(t) \/ SendRejected(t)
      PROVE  queue \ queue' \subseteq Handled'
  <2>1. First(queue) = task[t].cur
    BY <1>1, SenderHolds DEF SendAccepted, SendRejected, Has, At, Requesting
  <2> QED
    BY <1>1, <2>1 DEF SendAccepted, SendRejected, Adopt, Handled
<1>2. ASSUME NEW t \in Tasks, SyncStopped(t)
      PROVE  queue \ queue' \subseteq Handled'
  BY <1>2 DEF SyncStopped, ForgetProcessed, outcomes, Handled, Held, Carries
<1>3. ASSUME NEW t \in Tasks, SyncedRowRemoved(t)
      PROVE  queue \ queue' \subseteq Handled'
  <2> DEFINE w == [task[t] EXCEPT !.gone = @ \cup {task[t].cur}]
  <2>1. w.gone = task[t].gone \cup {task[t].cur}
    BY ActivationFacts DEF TaskType
  <2>2. queue' = queue \/ ForgetProcessed(w.gone)
    BY <1>3 DEF SyncedRowRemoved
  <2>3. w.gone \subseteq Handled /\ Handled' = Handled
    BY <1>3, <2>1 DEF SyncedRowRemoved, Settled, Removes, Held, Carries, outcomes, Handled
  <2> QED
    BY <2>2, <2>3 DEF ForgetProcessed
<1>4. ASSUME NEW t \in Tasks, Activation(t), ~SendAccepted(t), ~SendRejected(t),
             ~SyncStopped(t), ~SyncedRowRemoved(t)
      PROVE  UNCHANGED queue
  <2>1. Sending(t) => UNCHANGED queue
    BY <1>4 DEF Sending, CleanedUp, Counted, CountFails, SendDeferred,
       RecaptchaFailed, BackOff, Resend, GiveUp, SentRowRemoved
  <2>2. Syncing(t) => UNCHANGED queue
    BY <1>4 DEF Syncing, EffectCounted, RowsRead, ReadFails, RowAccepted,
       RowRejected, Recreate
  <2>3. Network(t) => UNCHANGED queue
    BY DEF Network, ServerHandles, ReplyLost, RequestFails, ServerRefuses,
       RequestUnchanged
  <2> QED
    BY <1>4, <2>1, <2>2, <2>3 DEF Activation
<1>5. CASE Storage \/ Page \/ Submit \/ Retry \/ GoOnline \/ GoOffline \/ Delete
  BY <1>5 DEF Storage, AnswerStored, AnswerNotStored, ProgressWritten, Page,
     StartFresh, Restore, Submit, Retry, GoOnline, GoOffline, Delete
<1>6. CASE UNCHANGED vars
  BY <1>6 DEF vars
<1> QED
  BY <1>1, <1>2, <1>3, <1>4, <1>5, <1>6 DEF Next

LEMMA HandledGrows ==
  ASSUME [Next]_vars
  PROVE  Handled \subseteq Handled'
BY ZenonT(60) DEF Next, vars, Activation, Sending, Syncing, Network, Storage, Page, CleanedUp,
   Counted, CountFails, SendAccepted, SendDeferred, SendRejected, RecaptchaFailed,
   BackOff, Resend, GiveUp, SentRowRemoved, EffectCounted, RowsRead, ReadFails,
   RowAccepted, RowRejected, Recreate, SyncStopped, SyncedRowRemoved, ServerHandles,
   ReplyLost, RequestFails, ServerRefuses, RequestUnchanged, AnswerStored,
   AnswerNotStored, ProgressWritten, StartFresh, Restore, Submit, Retry, GoOnline,
   GoOffline, Reload, Delete, outcomes, Adopt, Handled

LEMMA AnswersGiven ==
  ASSUME Shape, [Next]_vars
  PROVE  next' = next \/ (next' = next + 1 /\ next \in queue')
BY ZenonT(60) DEF Next, vars, Activation, Sending, Syncing, Network, Storage, Page, CleanedUp,
   Counted, CountFails, SendAccepted, SendDeferred, SendRejected, RecaptchaFailed,
   BackOff, Resend, GiveUp, SentRowRemoved, EffectCounted, RowsRead, ReadFails,
   RowAccepted, RowRejected, Recreate, SyncStopped, SyncedRowRemoved, ServerHandles,
   ReplyLost, RequestFails, ServerRefuses, RequestUnchanged, AnswerStored,
   AnswerNotStored, ProgressWritten, StartFresh, Restore, Submit, Retry, GoOnline,
   GoOffline, Reload, Delete, session

(* No answer is lost while the page stays open, whatever storage and the    *)
(* network do.  A reload loses the answers whose row was not written yet.   *)
THEOREM NoAnswerLost ==
  ASSUME "reload" \notin Faults
  PROVE  Spec => []AnswersAccountedFor
<1>1. Init => AnswersAccountedFor
  BY ResponseQueueAssumption DEF Init, AnswersAccountedFor, Answers
<1>2. /\ Shape /\ Settled /\ Held /\ AnswersAccountedFor /\ [Next]_vars
      => AnswersAccountedFor'
  <2> SUFFICES ASSUME Shape, Settled, Held, AnswersAccountedFor, [Next]_vars,
                      NEW a \in Answers, a < next'
               PROVE  a \in queue' \cup db' \cup Handled'
    BY DEF AnswersAccountedFor, Handled
  <2>1. ~Reload
    BY DEF Reload, May
  <2>2. a \in queue \cup db \cup Handled \/ a \in queue'
    <3>1. next \in Nat /\ a \in Nat
      BY ResponseQueueAssumption DEF Shape, TypeOK, Answers
    <3>2. a < next \/ (a = next /\ next \in queue')
      BY <3>1, AnswersGiven
    <3> QED
      BY <3>2 DEF AnswersAccountedFor, Handled
  <2>3. queue \ queue' \subseteq Handled' /\ db \ db' \subseteq Handled
    BY <2>1, QueueLosesHandled, HandledRowsOnly
  <2> QED
    BY <2>2, <2>3, HandledGrows
<1> QED
  BY <1>1, <1>2, HeldAlways, PTL DEF Spec

(***************************************************************************)
(* Which response an answer goes to.                                       *)
(***************************************************************************)
(* A step sends a request to the response the session has after the step,  *)
(* or leaves the activation without a request.                             *)
Pending(w) == w.pc \in {"sending", "replied"}
Goes(w) == ~Pending(w) \/ (w.pc = "sending" /\ w.target = rid')
Moved == \A t \in Tasks : task'[t] = task[t] \/ Goes(task'[t])

LEMMA IdleGoes == Goes(IdleTask)
BY DEF Goes, Pending, IdleTask

LEMMA RequestGoes ==
  ASSUME NEW w \in TaskType
  PROVE  Goes(Request(w, rid'))
BY RequestParts DEF Goes

LEMMA CleanThenGoes ==
  ASSUME NEW w \in TaskType, NEW pc \in DbWaits
  PROVE  Goes(CleanThen(w, pc))
BY CleanThenParts DEF Goes, Pending, DbWaits

LEMMA StartedGoes ==
  ASSUME NEW q \in SUBSET Answers, q # {}, NEW from \in {"app", "retry", "effect"}
  PROVE  Goes(Started(q, from, rid'))
<1>1. CASE PersistOffline
  BY <1>1, StartedParts DEF Goes, Pending
<1>2. CASE ~PersistOffline
  BY <1>2, StartedParts DEF Goes
<1> QED
  BY <1>1, <1>2

LEMMA OneMoves ==
  ASSUME Shape, NEW t \in Tasks, NEW w, task' = [task EXCEPT ![t] = w], Goes(w)
  PROVE  Moved
BY DEF Moved, Shape, TypeOK

LEMMA ProcessQueueMoves ==
  ASSUME Shape, NEW q \in SUBSET Answers, NEW from \in {"app", "retry", "effect"},
         NEW r, ProcessQueue(q, from, r), UNCHANGED rid
  PROVE  Moved
<1>1. CASE Blocked(q, inFlight)
  BY <1>1 DEF ProcessQueue, Moved
<1>2. CASE ~Blocked(q, inFlight)
  <2>1. PICK t \in Tasks : task' = [task EXCEPT ![t] = Started(q, from, rid')]
    BY <1>2 DEF ProcessQueue, Step
  <2>2. Goes(Started(q, from, rid'))
    BY <1>2, StartedGoes DEF Blocked
  <2> QED
    BY <2>1, <2>2, OneMoves
<1> QED
  BY <1>1, <1>2

LEMMA ProcessNextMoves ==
  ASSUME Shape, NEW t \in Tasks, NEW q \in SUBSET Answers, NEW r,
         ProcessNext(t, q, rid', r)
  PROVE  Moved
<1>1. CASE Blocked(q, FALSE)
  BY <1>1, IdleGoes, OneMoves DEF ProcessNext, Step
<1>2. CASE ~Blocked(q, FALSE)
  <2>1. task' = [task EXCEPT ![t] = Started(q, "app", rid')]
    BY <1>2 DEF ProcessNext, Step
  <2>2. Goes(Started(q, "app", rid'))
    BY <1>2, StartedGoes DEF Blocked
  <2> QED
    BY <2>1, <2>2, OneMoves
<1> QED
  BY <1>1, <1>2

LEMMA EndSyncMoves ==
  ASSUME Shape, NEW t \in Tasks, NEW q \in SUBSET Answers, NEW success, NEW drained,
         NEW r, EndSync(t, q, success, drained, r), UNCHANGED rid
  PROVE  Moved
<1>1. AfterSync(q, drained) = IdleTask
      \/ (q # {} /\ AfterSync(q, drained) = Started(q, "app", rid'))
  BY DEF AfterSync, Blocked
<1>2. Goes(AfterSync(q, drained))
  BY <1>1, IdleGoes, StartedGoes
<1> QED
  BY <1>2, OneMoves DEF EndSync, Step

LEMMA StartEffectMoves ==
  ASSUME Shape, NEW r, StartEffect(r)
  PROVE  Moved
<1>1. CASE ~PersistOffline \/ syncRef
  BY <1>1 DEF StartEffect, Moved
<1>2. CASE ~(~PersistOffline \/ syncRef)
  <2> DEFINE v == [IdleTask EXCEPT !.from = "effect"]
             w == CleanThen(v, "effect")
  <2>1. v \in TaskType
    BY DEF IdleTask, TaskType, TaskPCs, DbWaits, Replies, NoAnswer, NoId
  <2>2. PICK t \in Tasks : task' = [task EXCEPT ![t] = w]
    BY <1>2 DEF StartEffect, Step
  <2> HIDE DEF v
  <2>3. Goes(w)
    BY <2>1, CleanThenGoes DEF DbWaits
  <2> HIDE DEF w
  <2> QED
    BY <2>2, <2>3, OneMoves
<1> QED
  BY <1>1, <1>2

LEMMA SendRowMoves ==
  ASSUME Shape, NEW t \in Tasks, NEW w \in TaskType, NEW rows \in SUBSET Answers,
         rows # {}, NEW r, SendRow(t, w, rows, r)
  PROVE  Moved
<1> DEFINE v == [w EXCEPT !.cur = First(rows), !.todo = rows \ {First(rows)}]
<1>1. v \in TaskType
  BY FirstIsLeast DEF TaskType
<1>2. task' = [task EXCEPT ![t] = Request(v, rid')]
  BY DEF SendRow, Step
<1> HIDE DEF v
<1> QED
  BY <1>1, <1>2, RequestGoes, OneMoves

(* An activation that waits for something else than a reply.               *)
LEMMA WaitMoves ==
  ASSUME Shape, NEW t \in Tasks, NEW pc \in TaskPCs \ {"sending", "replied"},
         task' = [task EXCEPT ![t] = [task[t] EXCEPT !.pc = pc]]
  PROVE  Moved
<1>1. Goes([task[t] EXCEPT !.pc = pc])
  BY ActivationFacts DEF Goes, Pending, TaskType
<1> QED
  BY <1>1, OneMoves

LEMMA SendingMoves ==
  ASSUME Shape, NEW t \in Tasks, Sending(t)
  PROVE  Moved
<1>1. task[t] \in TaskType /\ WellFormed(task[t]) /\ queue \in SUBSET Answers
  BY ActivationFacts DEF Shape, TypeOK
<1>2. CASE CleanedUp(t)
  <2>1. task[t].after \in TaskPCs \ {"sending", "replied"}
    BY <1>1, <1>2 DEF CleanedUp, WellFormed, TaskPCs, DbWaits
  <2> QED
    BY <1>2, <2>1, WaitMoves DEF CleanedUp, Step
<1>3. CASE Counted(t)
  <2>1. rid' = rid
    BY <1>3 DEF Counted
  <2>2. CASE Step(t, IdleTask, Tail(idb))
    BY <2>2, IdleGoes, OneMoves DEF Step
  <2>3. CASE Step(t, CleanThen([IdleTask EXCEPT !.sync = TRUE], "reading"), Tail(idb))
    <3> DEFINE v == [IdleTask EXCEPT !.sync = TRUE]
    <3>1. v \in TaskType
      BY DEF IdleTask, TaskType, TaskPCs, DbWaits, Replies, NoAnswer, NoId
    <3>2. task' = [task EXCEPT ![t] = CleanThen(v, "reading")]
      BY <2>3 DEF Step
    <3> HIDE DEF v
    <3> QED
      BY <3>1, <3>2, CleanThenGoes, OneMoves DEF DbWaits
  <2>4. CASE /\ ~Overtaken
             /\ Step(t, Request([task[t] EXCEPT !.cur = First(queue)], rid), Tail(idb))
    <3> DEFINE v == [task[t] EXCEPT !.cur = First(queue)]
    <3>1. v \in TaskType
      BY <1>1, <2>4, FirstIsLeast DEF TaskType, Overtaken
    <3>2. task' = [task EXCEPT ![t] = Request(v, rid')]
      BY <2>1, <2>4 DEF Step
    <3> HIDE DEF v
    <3> QED
      BY <3>1, <3>2, RequestGoes, OneMoves
  <2> QED
    BY <1>3, <2>2, <2>3, <2>4 DEF Counted
<1>4. CASE CountFails(t) \/ SendDeferred(t) \/ RecaptchaFailed(t) \/ GiveUp(t)
  <2>1. task' = [task EXCEPT ![t] = IdleTask]
    BY <1>4 DEF CountFails, SendDeferred, RecaptchaFailed, GiveUp, Failure, Step
  <2> QED
    BY <2>1, IdleGoes, OneMoves
<1>5. CASE SendAccepted(t)
  <2>1. queue' \in SUBSET Answers
    BY <1>1, <1>5 DEF SendAccepted
  <2>2. \/ task' = [task EXCEPT ![t] = [task[t] EXCEPT !.pc = "removing"]]
        \/ ProcessNext(t, queue', rid', Patched(task[t]))
    BY <1>5 DEF SendAccepted, Success, Step
  <2> QED
    BY <2>1, <2>2, WaitMoves, ProcessNextMoves DEF TaskPCs, DbWaits
<1>6. CASE SendRejected(t)
  <2>1. \/ task' = [task EXCEPT ![t] = [task[t] EXCEPT !.pc = "dropping"]]
        \/ task' = [task EXCEPT ![t] = IdleTask]
    BY <1>6 DEF SendRejected, Failure, Step
  <2> QED
    BY <2>1, WaitMoves, IdleGoes, OneMoves DEF TaskPCs, DbWaits
<1>7. CASE BackOff(t)
  <2>1. task' = [task EXCEPT ![t] = [task[t] EXCEPT !.pc = "backoff", !.reply = "none"]]
    BY <1>7 DEF BackOff, Step
  <2>2. Goes([task[t] EXCEPT !.pc = "backoff", !.reply = "none"])
    BY <1>1 DEF TaskType, Goes, Pending
  <2> QED
    BY <2>1, <2>2, OneMoves
<1>8. CASE Resend(t)
  <2> DEFINE v == [task[t] EXCEPT !.attempt = @ + 1]
  <2>1. v \in TaskType
    BY <1>1 DEF TaskType
  <2>2. task' = [task EXCEPT ![t] = Request(v, rid')]
    BY <1>8 DEF Resend, Step
  <2> HIDE DEF v
  <2> QED
    BY <2>1, <2>2, RequestGoes, OneMoves
<1>9. CASE SentRowRemoved(t)
  <2>1. rid' = rid
    BY <1>9 DEF SentRowRemoved
  <2>2. task' = [task EXCEPT ![t] = IdleTask] \/ ProcessNext(t, queue, rid', Tail(idb))
    BY <1>9, <2>1 DEF SentRowRemoved, Success, Failure, Step
  <2> QED
    BY <1>1, <2>2, IdleGoes, OneMoves, ProcessNextMoves
<1> QED
  BY <1>2, <1>3, <1>4, <1>5, <1>6, <1>7, <1>8, <1>9 DEF Sending

LEMMA SyncingMoves ==
  ASSUME Shape, NEW t \in Tasks, Syncing(t)
  PROVE  Moved
<1>1. task[t] \in TaskType /\ WellFormed(task[t]) /\ queue \in SUBSET Answers
  BY ActivationFacts DEF Shape, TypeOK
<1>2. CASE EffectCounted(t)
  <2> DEFINE v == [task[t] EXCEPT !.sync = TRUE]
  <2>1. v \in TaskType
    BY <1>1 DEF TaskType
  <2>2. \/ task' = [task EXCEPT ![t] = IdleTask]
        \/ task' = [task EXCEPT ![t] = CleanThen(v, "reading")]
    BY <1>2 DEF EffectCounted, Step
  <2> HIDE DEF v
  <2> QED
    BY <2>1, <2>2, IdleGoes, CleanThenGoes, OneMoves DEF DbWaits
<1>3. CASE RowsRead(t) \/ ReadFails(t)
  <2>1. \/ EntriesToSync # {} /\ SendRow(t, task[t], EntriesToSync, Tail(idb))
        \/ UNCHANGED rid /\ \E success : EndSync(t, queue, success, FALSE, Tail(idb))
    BY <1>3 DEF RowsRead, ReadFails
  <2>2. EntriesToSync \in SUBSET Answers
    BY DEF EntriesToSync, Shape, TypeOK
  <2> QED
    BY <1>1, <2>1, <2>2, SendRowMoves, EndSyncMoves
<1>4. CASE RowAccepted(t) \/ RowRejected(t)
  <2>1. PICK pc \in {"removing", "dropping"} :
          task' = [task EXCEPT ![t] = [task[t] EXCEPT !.pc = pc]]
    BY <1>4 DEF RowAccepted, RowRejected, Step
  <2> QED
    BY <2>1, WaitMoves DEF TaskPCs, DbWaits
<1>5. CASE Recreate(t)
  <2>1. task' = [task EXCEPT ![t] = Request(task[t], rid')]
    BY <1>5 DEF Recreate, Step
  <2> QED
    BY <1>1, <2>1, RequestGoes, OneMoves
<1>6. CASE SyncStopped(t)
  <2>1. queue' \in SUBSET Answers /\ UNCHANGED rid
    BY <1>1, <1>6 DEF SyncStopped, ForgetProcessed
  <2> QED
    BY <1>6, <2>1, EndSyncMoves DEF SyncStopped
<1>7. CASE SyncedRowRemoved(t)
  <2> DEFINE w == [task[t] EXCEPT !.gone = @ \cup {task[t].cur}]
  <2>1. w \in TaskType /\ w.todo \in SUBSET Answers
    BY <1>1, <1>7 DEF SyncedRowRemoved, WellFormed, SendPCs, TaskType
  <2>2. \/ w.todo # {} /\ SendRow(t, w, w.todo, Tail(idb))
        \/ /\ UNCHANGED rid /\ ForgetProcessed(w.gone)
           /\ \E removed : EndSync(t, queue', removed, removed, Tail(idb))
    BY <1>7 DEF SyncedRowRemoved
  <2> HIDE DEF w
  <2>3. ForgetProcessed(w.gone) => queue' \in SUBSET Answers
    BY <1>1 DEF ForgetProcessed
  <2> QED
    BY <2>1, <2>2, <2>3, SendRowMoves, EndSyncMoves
<1> QED
  BY <1>2, <1>3, <1>4, <1>5, <1>6, <1>7 DEF Syncing

(* Every step but a reply moves the activations this way.                   *)
LEMMA Moves ==
  ASSUME Shape, [Next]_vars, \A t \in Tasks : ~Network(t)
  PROVE  Moved
<1>1. queue \in SUBSET Answers /\ (Submit => queue' \in SUBSET Answers)
  BY SubmitShape DEF Shape, TypeOK
<1>2. CASE Storage \/ Submit \/ Retry
  <2>1. UNCHANGED rid
    BY <1>2 DEF Storage, AnswerStored, AnswerNotStored, ProgressWritten, Submit, Retry
  <2>2. \/ UNCHANGED task
        \/ ProcessQueue(queue, "app", Tail(idb)) \/ ProcessQueue(queue, "retry", idb)
        \/ Submit /\ ProcessQueue(queue', "app", idb)
    BY <1>2 DEF Storage, AnswerStored, AnswerNotStored, ProgressWritten, Submit, Retry
  <2> QED
    BY <1>1, <2>1, <2>2, ProcessQueueMoves DEF Moved
<1>3. CASE Page \/ GoOnline
  <2>1. UNCHANGED task \/ \E r : StartEffect(r)
    BY <1>3 DEF Page, StartFresh, Restore, GoOnline
  <2> QED
    BY <2>1, StartEffectMoves DEF Moved
<1>4. CASE Reload
  BY <1>4, IdleGoes DEF Reload, Moved
<1>5. CASE GoOffline \/ Delete \/ UNCHANGED vars
  BY <1>5 DEF GoOffline, Delete, vars, Moved
<1> QED
  BY <1>2, <1>3, <1>4, <1>5, SendingMoves, SyncingMoves DEF Next, Activation

-----------------------------------------------------------------------------
(* The server adds at most one response a step, for an accepted create, and *)
(* a deleted response stays deleted.                                        *)
LEMMA ApplyResponses ==
  ASSUME TypeOK, NEW w \in TaskType, w.cur \in Answers, Apply(w)
  PROVE  /\ Len(responses) \in Nat
         /\ IF Verdict(w) = "ok" /\ w.target = NoId
            THEN /\ Len(responses') = Len(responses) + 1
                 /\ responses'[Len(responses')].live
            ELSE Len(responses') = Len(responses)
         /\ \A i \in 1 .. Len(responses) : responses'[i].live = responses[i].live
<1>1. responses \in Seq(ResponseType) /\ responses' \in Seq(ResponseType)
  BY ApplyTyped DEF TypeOK
<1>2. Len(responses) \in Nat /\ DOMAIN responses = 1 .. Len(responses)
      /\ Len(responses') \in Nat /\ DOMAIN responses' = 1 .. Len(responses')
  BY <1>1, LenProperties
<1>3. CASE Verdict(w) # "ok"
  BY <1>2, <1>3 DEF Apply
<1>4. CASE Verdict(w) = "ok" /\ w.target = NoId
  <2> DEFINE r == [data |-> w.data, last |-> w.cur, live |-> TRUE, display |-> display]
  <2>1. responses' = Append(responses, r) /\ r \in ResponseType
    BY <1>4 DEF Apply, ResponseType, TaskType, TypeOK
  <2> HIDE DEF r
  <2>2. /\ Len(responses') = Len(responses) + 1
        /\ \A i \in 1 .. Len(responses) : responses'[i] = responses[i]
        /\ responses'[Len(responses) + 1] = r
    BY <1>1, <2>1, AppendProperties
  <2>3. r.live
    BY DEF r
  <2> QED
    BY <1>2, <1>4, <2>2, <2>3
<1>5. CASE Verdict(w) = "ok" /\ w.target # NoId
  <2> DEFINE r == [responses[w.target] EXCEPT !.data = @ \cup w.data, !.last = w.cur]
  <2>1. responses' = [responses EXCEPT ![w.target] = r]
    BY <1>5 DEF Apply
  <2>2. DOMAIN responses' = DOMAIN responses
    BY <2>1
  <2>3. Len(responses') = Len(responses)
    <3> DEFINE m == Len(responses)
               n == Len(responses')
    <3>1. m \in Nat /\ n \in Nat /\ 1 .. m = 1 .. n
      BY <1>2, <2>2
    <3> HIDE DEF m, n
    <3>2. m = n
      BY <3>1
    <3> QED
      BY <3>2 DEF m, n
  <2>4. ASSUME NEW i \in 1 .. Len(responses)
        PROVE  responses'[i].live = responses[i].live
    <3>1. responses[i] \in ResponseType
      BY <1>1, ElementOfSeq
    <3>2. CASE i = w.target
      BY <1>2, <2>1, <3>1, <3>2 DEF ResponseType
    <3>3. CASE i # w.target
      BY <1>2, <2>1, <3>3
    <3> QED
      BY <3>2, <3>3
  <2> QED
    BY <1>2, <1>5, <2>3, <2>4
<1> QED
  BY <1>3, <1>4, <1>5

Creates(t) == task[t].pc = "sending" /\ Verdict(task[t]) = "ok" /\ task[t].target = NoId

LEMMA ResponsesGrow ==
  ASSUME Shape, [Next]_vars
  PROVE  /\ Len(responses) \in Nat
         /\ \/ Len(responses') = Len(responses)
            \/ /\ Len(responses') = Len(responses) + 1
               /\ \E t \in Tasks : Creates(t) /\ Network(t)
         /\ \A i \in 1 .. Len(responses) : ~responses[i].live => ~responses'[i].live
<1>1. Len(responses) \in Nat /\ DOMAIN responses = 1 .. Len(responses)
  BY LenProperties DEF Shape, TypeOK
<1>2. ASSUME NEW t \in Tasks, Network(t)
      PROVE  /\ \/ Len(responses') = Len(responses)
                \/ Len(responses') = Len(responses) + 1 /\ Creates(t)
             /\ \A i \in 1 .. Len(responses) : ~responses[i].live => ~responses'[i].live
  <2>1. task[t].pc = "sending" /\ (UNCHANGED responses \/ Apply(task[t]))
    BY <1>2 DEF Network, ServerHandles, ReplyLost, RequestFails, ServerRefuses
  <2>2. TypeOK /\ task[t] \in TaskType /\ task[t].cur \in Answers
    BY <2>1, ActivationFacts DEF WellFormed, SendPCs, Shape
  <2>3. CASE UNCHANGED responses
    BY <2>3
  <2>4. CASE Apply(task[t])
    BY <2>1, <2>2, <2>4, ApplyResponses DEF Creates
  <2> QED
    BY <2>1, <2>3, <2>4
<1>3. CASE Delete
  <2>1. PICK j \in DOMAIN responses : responses' = [responses EXCEPT ![j].live = FALSE]
    BY <1>3 DEF Delete
  <2> DEFINE r == [responses[j] EXCEPT !.live = FALSE]
  <2>2. responses' = [responses EXCEPT ![j] = r]
    BY <2>1
  <2>3. responses[j] \in ResponseType
    BY <1>1, ElementOfSeq DEF Shape, TypeOK
  <2>4. r.live = FALSE /\ r \in ResponseType
    BY <2>3 DEF ResponseType
  <2> HIDE DEF r
  <2>5. responses' \in Seq(ResponseType) /\ Len(responses') = Len(responses)
    BY <1>1, <2>2, <2>4, ExceptSeq DEF Shape, TypeOK
  <2>6. \A i \in 1 .. Len(responses) : ~responses[i].live => ~responses'[i].live
    BY <1>1, <2>2, <2>4
  <2> QED
    BY <1>1, <2>5, <2>6
<1>4. CASE ~Delete /\ \A t \in Tasks : ~Network(t)
  <2>1. UNCHANGED responses
    BY <1>4, ZenonT(60) DEF Next, vars, Activation, Sending, Syncing, Storage, Page, CleanedUp,
       Counted, CountFails, SendAccepted, SendDeferred, SendRejected, RecaptchaFailed,
       BackOff, Resend, GiveUp, SentRowRemoved, EffectCounted, RowsRead, ReadFails,
       RowAccepted, RowRejected, Recreate, SyncStopped, SyncedRowRemoved, AnswerStored,
       AnswerNotStored, ProgressWritten, StartFresh, Restore, Submit, Retry, GoOnline,
       GoOffline, Reload
  <2> QED
    BY <1>1, <2>1
<1> QED
  BY <1>1, <1>2, <1>3, <1>4

-----------------------------------------------------------------------------
(***************************************************************************)
(* Response ids.  Every id the session, its storage or a request knows is  *)
(* of a response the server has created; a reply of a create brings the id *)
(* of the response; a request that was told its response is missing named  *)
(* one that is deleted; a sync sends to the response of the session.       *)
(***************************************************************************)
Asks(w) ==
  /\ Pending(w) => w.target <= Len(responses)
  /\ Pending(w) /\ w.sync => w.target = rid
  /\ w.pc = "replied" /\ w.target = NoId /\ w.reply = "ok" =>
       w.created \in 1 .. Len(responses)
  /\ w.pc = "replied" /\ w.reply = "notFound" =>
       w.target # NoId /\ ~responses[w.target].live

(* A page that is being restored has no session and runs nothing.           *)
Resting ==
  page = "restoring" =>
    rid = NoId /\ idb = <<>> /\ \A t \in Tasks : task[t] = IdleTask

Known ==
  /\ Resting
  /\ rid <= Len(responses) /\ progress.rid <= Len(responses)
  /\ \A a \in Answers : snap[a].rid <= Len(responses)
  /\ \A x \in Writes(idb) : x.rid <= Len(responses)
  /\ \A t \in Tasks : Asks(task[t])

LEMMA RestingInductive ==
  ASSUME Shape, Resting, [Next]_vars
  PROVE  Resting'
<1>1. CASE page = "ready"
  <2>1. CASE Reload
    BY <2>1 DEF Reload, Resting
  <2>2. CASE ~Reload
    <3>1. page' = "ready"
      BY <1>1, <2>2, ZenonT(60) DEF Next, vars, Activation, Sending, Syncing, Network, Storage, Page,
         CleanedUp, Counted, CountFails, SendAccepted, SendDeferred, SendRejected,
         RecaptchaFailed, BackOff, Resend, GiveUp, SentRowRemoved, EffectCounted,
         RowsRead, ReadFails, RowAccepted, RowRejected, Recreate, SyncStopped,
         SyncedRowRemoved, ServerHandles, ReplyLost, RequestFails, ServerRefuses,
         RequestUnchanged, AnswerStored, AnswerNotStored, ProgressWritten, StartFresh,
         Restore, Submit, Retry, GoOnline, GoOffline, Delete, session
    <3> QED
      BY <3>1 DEF Resting
  <2> QED
    BY <2>1, <2>2
<1>2. CASE page = "restoring"
  <2>1. idb = <<>> /\ rid = NoId /\ \A t \in Tasks : task[t].pc = "idle"
    BY <1>2 DEF Resting, IdleTask
  <2>2. ASSUME NEW t \in Tasks
        PROVE  ~Activation(t)
    <3>1. task[t].pc = "idle"
      BY <2>1
    <3>2. ~Sending(t)
      BY <3>1 DEF Sending, CleanedUp, Counted, CountFails, SendAccepted, SendDeferred,
         SendRejected, RecaptchaFailed, BackOff, Resend, GiveUp, SentRowRemoved, Has, At
    <3>3. ~Syncing(t)
      BY <3>1 DEF Syncing, EffectCounted, RowsRead, ReadFails, RowAccepted, RowRejected,
         Recreate, SyncStopped, SyncedRowRemoved, Has, At
    <3>4. ~Network(t)
      BY <3>1 DEF Network, ServerHandles, ReplyLost, RequestFails, ServerRefuses
    <3> QED
      BY <3>2, <3>3, <3>4 DEF Activation
  <2>3. ~Storage /\ ~Submit /\ ~Retry /\ ~Reload
    BY <1>2, <2>1 DEF Storage, AnswerStored, AnswerNotStored, ProgressWritten, Writing,
       Submit, CanSubmit, Retry, Reload
  <2>4. CASE Page
    BY <2>4 DEF Page, StartFresh, Restore, Resting
  <2>5. CASE GoOnline \/ GoOffline \/ Delete \/ UNCHANGED vars
    <3>1. UNCHANGED <<page, rid, idb, task>>
      BY <1>2, <2>5 DEF GoOnline, GoOffline, Delete, session, vars
    <3> QED
      BY <1>2, <3>1 DEF Resting
  <2> QED
    BY <2>2, <2>3, <2>4, <2>5 DEF Next
<1> QED
  BY <1>1, <1>2 DEF Shape, TypeOK

(* The session's id after a step.                                           *)
Foreseen(id) ==
  \/ id \in {rid, NoId, progress.rid}
  \/ \E a \in Answers : id = snap[a].rid
  \/ id \in DOMAIN responses
  \/ \E t \in Tasks : id = task[t].created /\ task[t].pc = "replied"
                      /\ task[t].target = NoId /\ task[t].reply = "ok"

LEMMA RestoredId ==
  ASSUME Shape, Restore
  PROVE  rid' = progress.rid \/ rid' \in DOMAIN responses
<1>1. PICK ids \in SUBSET DOMAIN responses :
        rid' = IF Live(ids) # {} THEN First(Live(ids)) ELSE progress.rid
  <2>1. PICK answered \in BOOLEAN :
          LET unknown == PendingCount = 0 /\ progress.rid = NoId
              ids == IF unknown /\ answered /\ progress.display # NoDisplay
                     THEN ResponsesOf(progress.display) ELSE {}
          IN  rid' = IF Live(ids) # {} THEN First(Live(ids)) ELSE progress.rid
    BY DEF Restore
  <2> DEFINE found == IF PendingCount = 0 /\ progress.rid = NoId /\ answered
                         /\ progress.display # NoDisplay
                      THEN ResponsesOf(progress.display) ELSE {}
  <2>2. found \in SUBSET DOMAIN responses
    BY DEF ResponsesOf
  <2>3. rid' = IF Live(found) # {} THEN First(Live(found)) ELSE progress.rid
    BY <2>1
  <2> HIDE DEF found
  <2> QED
    BY <2>2, <2>3
<1>2. Live(ids) \in SUBSET Nat /\ Live(ids) \subseteq DOMAIN responses
  BY LenProperties DEF Live, Shape, TypeOK
<1> QED
  BY <1>1, <1>2, LeastNat

LEMMA SentRowId ==
  ASSUME NEW t, NEW w, NEW rows \in SUBSET Answers, rows # {}, NEW r,
         SendRow(t, w, rows, r)
  PROVE  Foreseen(rid') /\ (rid' = NoId => rid = NoId)
BY FirstIsLeast DEF SendRow, IdFor, Foreseen

LEMMA RidForeseen ==
  ASSUME Shape, [Next]_vars
  PROVE  Foreseen(rid')
<1>1. ASSUME NEW t \in Tasks, SendAccepted(t) \/ RowAccepted(t)
      PROVE  Foreseen(rid')
  BY <1>1 DEF SendAccepted, RowAccepted, Adopt, IdAfter, Has, At, Foreseen
<1>2. ASSUME NEW t \in Tasks, RowsRead(t)
      PROVE  Foreseen(rid')
  <2>1. EntriesToSync \in SUBSET Answers
    BY DEF EntriesToSync, Shape, TypeOK
  <2> QED
    BY <1>2, <2>1, SentRowId DEF RowsRead, Foreseen
<1>3. ASSUME NEW t \in Tasks, SyncedRowRemoved(t)
      PROVE  Foreseen(rid')
  <2> DEFINE w == [task[t] EXCEPT !.gone = @ \cup {task[t].cur}]
  <2>1. w.todo \in SUBSET Answers
    BY ActivationFacts DEF TaskType
  <2>2. (w.todo # {} /\ SendRow(t, w, w.todo, Tail(idb))) \/ UNCHANGED rid
    BY <1>3 DEF SyncedRowRemoved
  <2> HIDE DEF w
  <2> QED
    BY <2>1, <2>2, SentRowId DEF Foreseen
<1>4. ASSUME NEW t \in Tasks, Recreate(t)
      PROVE  Foreseen(rid')
  BY <1>4 DEF Recreate, Foreseen
<1>5. CASE Restore \/ Reload
  BY <1>5, RestoredId DEF Reload, Foreseen
<1>6. ASSUME NEW t \in Tasks, Activation(t), ~SendAccepted(t), ~RowAccepted(t),
             ~RowsRead(t), ~SyncedRowRemoved(t), ~Recreate(t)
      PROVE  UNCHANGED rid
  <2>1. Sending(t) => UNCHANGED rid
    BY <1>6 DEF Sending, CleanedUp, Counted, CountFails, SendDeferred, SendRejected,
       RecaptchaFailed, BackOff, Resend, GiveUp, SentRowRemoved
  <2>2. Syncing(t) => UNCHANGED rid
    BY <1>6 DEF Syncing, EffectCounted, ReadFails, RowRejected, SyncStopped
  <2>3. Network(t) => UNCHANGED rid
    BY DEF Network, ServerHandles, ReplyLost, RequestFails, ServerRefuses,
       RequestUnchanged
  <2> QED
    BY <1>6, <2>1, <2>2, <2>3 DEF Activation
<1>7. CASE Storage \/ StartFresh \/ Submit \/ Retry \/ GoOnline \/ GoOffline \/ Delete
           \/ UNCHANGED vars
  <2>1. UNCHANGED rid
    BY <1>7 DEF Storage, AnswerStored, AnswerNotStored, ProgressWritten, StartFresh,
       Submit, Retry, GoOnline, GoOffline, Delete, vars
  <2> QED
    BY <2>1 DEF Foreseen
<1>8. UNCHANGED rid => Foreseen(rid')
  BY DEF Foreseen
<1> QED
  BY <1>1, <1>2, <1>3, <1>4, <1>5, <1>6, <1>7, <1>8 DEF Next, Page

(* An id that is foreseen is known.                                         *)
LEMMA RidKnown ==
  ASSUME Shape, Known, [Next]_vars
  PROVE  rid' <= Len(responses)
<1>1. Len(responses) \in Nat /\ DOMAIN responses = 1 .. Len(responses)
  BY LenProperties DEF Shape, TypeOK
<1>2. Foreseen(rid')
  BY RidForeseen
<1> QED
  BY <1>1, <1>2 DEF Foreseen, Known, Asks, NoId

(* The rows of IndexedDB take their ids from the writes issued.             *)
LEMMA StoredKnown ==
  ASSUME Shape, Known, [Next]_vars
  PROVE  /\ progress'.rid <= Len(responses)
         /\ \A a \in Answers : snap'[a].rid <= Len(responses)
<1>1. NoProgress.rid = NoId /\ Len(responses) \in Nat
  BY LenProperties DEF NoProgress, Shape, TypeOK
<1>2. CASE AnswerStored
  <2> DEFINE w == Head(idb)
             s == Snapshot(w.rid, w.display)
  <2>1. w \in Writes(idb) /\ progress' = progress /\ snap' = [snap EXCEPT ![w.answer] = s]
    BY <1>2, ServedRequests DEF AnswerStored, Writing
  <2>2. w.rid <= Len(responses) /\ s.rid = w.rid
    BY <2>1 DEF Known, Snapshot
  <2> HIDE DEF w, s
  <2> QED
    BY <2>1, <2>2 DEF Known, Shape, TypeOK
<1>3. CASE ProgressWritten
  <2>1. Head(idb) \in Writes(idb) /\ snap' = snap
    BY <1>3, ServedRequests DEF ProgressWritten, Writing
  <2>2. Head(idb).rid <= Len(responses) /\ progress.rid <= Len(responses)
    BY <2>1 DEF Known
  <2>3. progress'.rid \in {Head(idb).rid, progress.rid, NoId}
    <3>1. \A op \in {"patchId", "patchDisplay"} :
            Patch(op, Head(idb)).rid \in {Head(idb).rid, progress.rid}
      BY DEF Patch, Shape, TypeOK, ProgressType
    <3> QED
      BY <1>1, <1>3, <3>1 DEF ProgressWritten
  <2> QED
    BY <1>1, <2>1, <2>2, <2>3 DEF Known, NoId
<1>4. CASE StartFresh
  BY <1>1, <1>4 DEF StartFresh, Known, NoId
<1>5. CASE ~AnswerStored /\ ~ProgressWritten /\ ~StartFresh
  <2>1. UNCHANGED <<progress, snap>>
    BY <1>5, ZenonT(60) DEF Next, vars, Activation, Sending, Syncing, Network, Storage, Page,
       CleanedUp, Counted, CountFails, SendAccepted, SendDeferred, SendRejected,
       RecaptchaFailed, BackOff, Resend, GiveUp, SentRowRemoved, EffectCounted, RowsRead,
       ReadFails, RowAccepted, RowRejected, Recreate, SyncStopped, SyncedRowRemoved,
       ServerHandles, ReplyLost, RequestFails, ServerRefuses, RequestUnchanged,
       AnswerNotStored, Restore, Submit, Retry, GoOnline, GoOffline, Reload, Delete, stored
  <2> QED
    BY <2>1 DEF Known
<1> QED
  BY <1>2, <1>3, <1>4, <1>5

(* While a sync waits for a reply no other step changes the session's id.   *)
LEMMA SyncKeepsId ==
  ASSUME Shape, LocksOK, Resting, [Next]_vars, NEW u \in Tasks, task[u].sync,
         Pending(task[u]), task'[u] = task[u]
  PROVE  rid' = rid
<1>1. Engaged(u) /\ page # "restoring"
  BY DEF Engaged, Draining, Resting, IdleTask
<1>2. \A t \in Tasks : Engaged(t) => t = u
  BY <1>1 DEF LocksOK, SingleFlight
<1>3. ASSUME NEW t \in Tasks, Activation(t)
      PROVE  rid' = rid
  <2>1. task[t] \in TaskType /\ task' \in [Tasks -> TaskType]
    BY ShapeInductive DEF Shape, TypeOK
  <2>2. CASE SendAccepted(t)
    <3>1. Engaged(t) /\ ~task[t].sync
      BY <2>2 DEF SendAccepted, Has, At, Engaged, Delivering, SendPCs
    <3> QED
      BY <1>2, <3>1
  <2>3. CASE RowAccepted(t) \/ Recreate(t)
    <3>1. Engaged(t) /\ task[t].pc = "replied"
      BY <2>3 DEF RowAccepted, Recreate, Has, At, Engaged, Draining
    <3>2. task'[t].pc # "replied"
      <4>1. [task[t] EXCEPT !.pc = "removing"].pc = "removing"
            /\ Request(task[t], NoId).pc = "sending"
        BY <2>1, RequestParts DEF TaskType
      <4>2. \/ task' = [task EXCEPT ![t] = [task[t] EXCEPT !.pc = "removing"]]
            \/ task' = [task EXCEPT ![t] = Request(task[t], NoId)]
        BY <2>3 DEF RowAccepted, Recreate, Step
      <4> QED
        BY <4>1, <4>2 DEF Shape, TypeOK
    <3> QED
      BY <1>2, <3>1, <3>2
  <2>4. CASE RowsRead(t) \/ SyncedRowRemoved(t)
    <3>1. Engaged(t) /\ ~Pending(task[t])
      BY <2>4, ActivationFacts DEF RowsRead, SyncedRowRemoved, WellFormed, Engaged,
         Draining, Pending
    <3> QED
      BY <1>2, <3>1
  <2>5. CASE Sending(t) /\ ~SendAccepted(t)
    BY <2>5 DEF Sending, CleanedUp, Counted, CountFails, SendDeferred, SendRejected,
       RecaptchaFailed, BackOff, Resend, GiveUp, SentRowRemoved
  <2>6. CASE Syncing(t) /\ ~RowAccepted(t) /\ ~Recreate(t) /\ ~RowsRead(t)
             /\ ~SyncedRowRemoved(t)
    BY <2>6 DEF Syncing, EffectCounted, ReadFails, RowRejected, SyncStopped
  <2>7. CASE Network(t)
    BY <2>7 DEF Network, ServerHandles, ReplyLost, RequestFails, ServerRefuses,
       RequestUnchanged
  <2> QED
    BY <1>3, <2>2, <2>3, <2>4, <2>5, <2>6, <2>7 DEF Activation
<1>4. CASE Reload
  BY <1>4 DEF Reload, Pending, IdleTask
<1>5. CASE Storage \/ Page \/ Submit \/ Retry \/ GoOnline \/ GoOffline \/ Delete
           \/ UNCHANGED vars
  BY <1>1, <1>5 DEF Storage, AnswerStored, AnswerNotStored, ProgressWritten, Page,
     StartFresh, Restore, Submit, Retry, GoOnline, GoOffline, Delete, vars
<1> QED
  BY <1>3, <1>4, <1>5 DEF Next

LEMMA AsksKept ==
  ASSUME Shape, LocksOK, Known, [Next]_vars, NEW u \in Tasks, task'[u] = task[u]
  PROVE  Asks(task[u])'
<1>1. /\ task[u] \in TaskType /\ Asks(task[u]) /\ Resting
      /\ Len(responses) \in Nat /\ Len(responses') \in Nat
      /\ Len(responses) <= Len(responses')
      /\ \A i \in 1 .. Len(responses) : ~responses[i].live => ~responses'[i].live
  BY ResponsesGrow, ActivationFacts DEF Known
<1>2. Pending(task[u]) /\ task[u].sync => rid' = rid
  BY <1>1, SyncKeepsId
<1>3. task[u].target \in Nat /\ task[u].created \in Nat
  BY <1>1 DEF TaskType
<1>4. task[u].pc = "replied" /\ task[u].reply = "notFound" =>
        task[u].target \in 1 .. Len(responses)
  BY <1>1, <1>3 DEF Asks, Pending, NoId
<1> QED
  BY <1>1, <1>2, <1>3, <1>4 DEF Asks, Pending

LEMMA GoingAsks ==
  ASSUME Shape, Known, [Next]_vars, NEW u \in Tasks, Goes(task'[u])
  PROVE  Asks(task[u])'
<1>1. /\ rid' <= Len(responses) /\ rid' \in Nat /\ Len(responses) \in Nat
      /\ Len(responses') \in Nat /\ Len(responses) <= Len(responses')
  BY RidKnown, ResponsesGrow, ShapeInductive, SMTT(30) DEF Shape, TypeOK
<1> QED
  BY <1>1 DEF Goes, Asks, Pending

(* What the server may answer to a request.                                 *)
LEMMA AnswerAsks ==
  ASSUME Shape, Known, [Next]_vars, NEW t \in Tasks, Network(t)
  PROVE  Asks(task[t])'
<1>1. PICK reply :
        /\ Replied(t, reply) /\ UNCHANGED rid /\ task[t].pc = "sending"
        /\ \/ Apply(task[t]) /\ reply = Verdict(task[t])
           \/ reply \in {"unavailable", "rejected", "recaptcha"}
  BY DEF Network, ServerHandles, ReplyLost, RequestFails, ServerRefuses, RequestUnchanged
<1> DEFINE w == [task[t] EXCEPT !.pc = "replied", !.reply = reply,
                                !.created = Len(responses')]
<1>2. /\ w.target = task[t].target /\ w.sync = task[t].sync /\ w.reply = reply
      /\ w.created = Len(responses') /\ w.pc = "replied"
  BY ActivationFacts DEF TaskType
<1>3. task'[t] = w
  BY <1>1 DEF Replied, Shape, TypeOK
<1> HIDE DEF w
<1>4. /\ task[t] \in TaskType /\ task[t].cur \in Answers /\ TypeOK
      /\ task[t].target <= Len(responses) /\ (task[t].sync => task[t].target = rid)
      /\ task[t].target \in Nat
  BY <1>1, ActivationFacts DEF Known, Asks, Pending, WellFormed, SendPCs, Shape, TaskType
<1>5. /\ Len(responses) \in Nat /\ Len(responses') \in Nat
      /\ Len(responses) <= Len(responses')
      /\ \A i \in 1 .. Len(responses) : ~responses[i].live => ~responses'[i].live
  BY ResponsesGrow
<1>6. reply = "ok" /\ task[t].target = NoId => Len(responses') \in 1 .. Len(responses')
  <2> SUFFICES ASSUME reply = "ok", task[t].target = NoId
               PROVE  Len(responses') = Len(responses) + 1
    BY <1>5
  <2> QED
    BY <1>1, <1>4, ApplyResponses
<1>7. reply = "notFound" => task[t].target # NoId /\ ~responses[task[t].target].live
  BY <1>1 DEF Verdict
<1>8. reply = "notFound" => task[t].target # NoId /\ ~responses'[task[t].target].live
  <2> SUFFICES ASSUME reply = "notFound"
               PROVE  task[t].target # NoId /\ ~responses'[task[t].target].live
    OBVIOUS
  <2>1. task[t].target \in 1 .. Len(responses)
    BY <1>4, <1>5, <1>7 DEF NoId
  <2> QED
    BY <1>5, <1>7, <2>1
<1> QED
  BY <1>1, <1>2, <1>3, <1>4, <1>5, <1>6, <1>8 DEF Asks, Pending

LEMMA KnownInductive == Shape /\ LocksOK /\ Known /\ [Next]_vars => Known'
<1> SUFFICES ASSUME Shape, LocksOK, Known, [Next]_vars PROVE Known'
  OBVIOUS
<1>1. Resting' /\ rid' <= Len(responses)
  BY RestingInductive, RidKnown DEF Known
<1>2. /\ Len(responses) \in Nat /\ Len(responses') \in Nat
      /\ Len(responses) <= Len(responses')
      /\ rid' \in Nat /\ progress'.rid \in Nat /\ \A a \in Answers : snap'[a].rid \in Nat
  <2>1. Shape'
    BY ShapeInductive
  <2>2. /\ rid' \in Nat /\ progress' \in ProgressType
        /\ \A a \in Answers : snap'[a] \in SnapshotType
    BY <2>1 DEF Shape, TypeOK
  <2> QED
    BY <2>2, ResponsesGrow DEF ProgressType, SnapshotType
<1>3. /\ progress'.rid <= Len(responses')
      /\ \A a \in Answers : snap'[a].rid <= Len(responses')
  BY <1>2, StoredKnown
<1>4. ASSUME NEW x \in Writes(idb')
      PROVE  x.rid <= Len(responses')
  <2>1. x.rid \in {NoId, rid, rid'} \/ x.rid <= Len(responses)
    BY WritesIssued DEF NewWrite, Known
  <2>2. rid \in Nat /\ rid <= Len(responses)
    BY DEF Known, Shape, TypeOK
  <2>3. x \in WriteType
    BY ShapeInductive, ElementOfSeq DEF Writes, Shape, ActivationsOK, Requests
  <2>4. x.rid \in Nat
    BY <2>3 DEF WriteType
  <2> QED
    BY <1>1, <1>2, <2>1, <2>2, <2>4 DEF NoId
<1>5. ASSUME NEW u \in Tasks
      PROVE  Asks(task[u])'
  <2>1. CASE \E t \in Tasks : Network(t)
    <3>1. PICK t \in Tasks : Network(t)
      BY <2>1
    <3>2. \A v \in Tasks : v # t => task'[v] = task[v]
      BY <3>1 DEF Network, ServerHandles, ReplyLost, RequestFails, ServerRefuses, Replied,
         Shape, TypeOK
    <3> QED
      BY <3>1, <3>2, AnswerAsks, AsksKept
  <2>2. CASE \A t \in Tasks : ~Network(t)
    BY <2>2, Moves, AsksKept, GoingAsks DEF Moved
  <2> QED
    BY <2>1, <2>2
<1>6. rid' <= Len(responses')
  BY <1>1, <1>2
<1> QED
  BY <1>1, <1>3, <1>4, <1>5, <1>6 DEF Known

LEMMA KnownInitially == Init => Known
<1> SUFFICES ASSUME Init PROVE Known
  OBVIOUS
<1>1. Writes(idb) = {} /\ Len(responses) = 0
  BY EmptySeq DEF Init, Writes
<1>2. \A t \in Tasks : Asks(task[t])
  BY DEF Init, Asks, Pending, IdleTask
<1> QED
  BY <1>1, <1>2 DEF Init, Known, Resting, NoProgress, Snapshot, NoId

LEMMA KnownAlways == Spec => [](Shape /\ LocksOK /\ Known)
BY ShapeInitially, ShapeInductive, LocksInitially, LocksInductive, KnownInitially,
   KnownInductive, PTL DEF Spec

(* The id is given up by a reload and by a sync whose response is missing.  *)
LEMMA IdLost ==
  ASSUME Shape, Known, [Next]_vars, rid # NoId, rid' = NoId
  PROVE  page' = "restoring" \/ ~responses[rid].live
<1>1. ASSUME NEW t \in Tasks, SendAccepted(t) \/ RowAccepted(t)
      PROVE  FALSE
  <2>1. /\ task[t].pc = "replied" /\ task[t].reply = "ok"
        /\ rid' = IF task[t].target = NoId THEN task[t].created ELSE rid
    BY <1>1 DEF SendAccepted, RowAccepted, Adopt, IdAfter, Has, At
  <2>2. task[t].target = NoId => task[t].created # NoId
    BY <2>1, ResponsesGrow DEF Known, Asks, NoId
  <2> QED
    BY <2>1, <2>2
<1>2. ASSUME NEW t \in Tasks, RowsRead(t)
      PROVE  FALSE
  <2>1. EntriesToSync \in SUBSET Answers
    BY DEF EntriesToSync, Shape, TypeOK
  <2> QED
    BY <1>2, <2>1, SentRowId DEF RowsRead
<1>3. ASSUME NEW t \in Tasks, SyncedRowRemoved(t)
      PROVE  FALSE
  <2> DEFINE w == [task[t] EXCEPT !.gone = @ \cup {task[t].cur}]
  <2>1. w.todo \in SUBSET Answers
    BY ActivationFacts DEF TaskType
  <2>2. (w.todo # {} /\ SendRow(t, w, w.todo, Tail(idb))) \/ UNCHANGED rid
    BY <1>3 DEF SyncedRowRemoved
  <2> HIDE DEF w
  <2> QED
    BY <2>1, <2>2, SentRowId
<1>4. ASSUME NEW t \in Tasks, Recreate(t)
      PROVE  ~responses[rid].live
  <2>1. /\ task[t].pc = "replied" /\ task[t].reply = "notFound" /\ task[t].sync
    BY <1>4 DEF Recreate, Has, At, Missing
  <2> QED
    BY <2>1 DEF Known, Asks, Pending
<1>5. CASE Reload
  BY <1>5 DEF Reload
<1>6. CASE Restore
  BY <1>6 DEF Restore, Known, Resting
<1>7. ASSUME NEW t \in Tasks, Activation(t), ~SendAccepted(t), ~RowAccepted(t),
             ~RowsRead(t), ~SyncedRowRemoved(t), ~Recreate(t)
      PROVE  FALSE
  <2>1. ~Sending(t)
    BY <1>7 DEF Sending, CleanedUp, Counted, CountFails, SendDeferred, SendRejected,
       RecaptchaFailed, BackOff, Resend, GiveUp, SentRowRemoved
  <2>2. ~Syncing(t)
    BY <1>7 DEF Syncing, EffectCounted, ReadFails, RowRejected, SyncStopped
  <2>3. ~Network(t)
    BY DEF Network, ServerHandles, ReplyLost, RequestFails, ServerRefuses,
       RequestUnchanged
  <2> QED
    BY <1>7, <2>1, <2>2, <2>3 DEF Activation
<1>8. ~(Storage \/ StartFresh \/ Submit \/ Retry \/ GoOnline \/ GoOffline \/ Delete
        \/ UNCHANGED vars)
  BY DEF Storage, AnswerStored, AnswerNotStored, ProgressWritten, StartFresh,
     Submit, Retry, GoOnline, GoOffline, Delete, vars
<1> QED
  BY <1>1, <1>2, <1>3, <1>4, <1>5, <1>6, <1>7, <1>8 DEF Next, Page

(* A failed request never detaches the answers that follow from the         *)
(* response they belong to: the session's id is forgotten by a reload or    *)
(* when the response is gone from the server, whatever else fails.          *)
THEOREM IdOutlivesFailures == Spec => IdKeptWhileLive
<1>1. Shape /\ Known /\ [Next]_vars
      => [rid # NoId /\ rid' = NoId =>
            page' = "restoring" \/ ~responses[rid].live]_vars
  BY IdLost
<1> QED
  BY <1>1, KnownAlways, PTL DEF Spec, IdKeptWhileLive

-----------------------------------------------------------------------------
(***************************************************************************)
(* One response.  While no reply is lost, no response is deleted and the   *)
(* page is not reloaded, a session without an id has no response on the    *)
(* server yet, or the reply that brings its id is waiting for the sender.  *)
(***************************************************************************)
LEMMA ActsAlone ==
  ASSUME NEW t \in Tasks, Activation(t)
  PROVE  \E w : task' = [task EXCEPT ![t] = w]
<1>1. Sending(t) => \E w, r : Step(t, w, r)
  BY DEF Sending, CleanedUp, Counted, CountFails, SendAccepted, SendDeferred,
     SendRejected, RecaptchaFailed, BackOff, Resend, GiveUp, SentRowRemoved, Success,
     Failure, ProcessNext
<1>2. Syncing(t) => \E w, r : Step(t, w, r)
  BY DEF Syncing, EffectCounted, RowsRead, ReadFails, RowAccepted, RowRejected, Recreate,
     SyncStopped, SyncedRowRemoved, SendRow, EndSync
<1>3. Network(t) => \E reply : Replied(t, reply)
  BY DEF Network, ServerHandles, ReplyLost, RequestFails, ServerRefuses
<1> QED
  BY <1>1, <1>2, <1>3, Zenon DEF Activation, Step, Replied

(* Only the activation itself takes up a reply.                             *)
LEMMA ReplyTaken ==
  ASSUME Shape, [Next]_vars, NEW t \in Tasks, task[t].pc = "replied",
         task[t].reply = "ok"
  PROVE  task'[t] = task[t] \/ SendAccepted(t) \/ RowAccepted(t) \/ Reload
<1>1. ASSUME NEW u \in Tasks, Activation(u), u # t
      PROVE  task'[t] = task[t]
  BY <1>1, ActsAlone DEF Shape, TypeOK
<1>2. CASE Activation(t)
  <2>1. Sending(t) => SendAccepted(t)
    BY DEF Sending, CleanedUp, Counted, CountFails, SendDeferred, SendRejected,
       RecaptchaFailed, BackOff, Resend, GiveUp, SentRowRemoved, Has, At
  <2>2. Syncing(t) => RowAccepted(t)
    BY DEF Syncing, EffectCounted, RowsRead, ReadFails, RowRejected, Recreate,
       SyncStopped, SyncedRowRemoved, Has, At, Missing
  <2>3. ~Network(t)
    BY DEF Network, ServerHandles, ReplyLost, RequestFails, ServerRefuses
  <2> QED
    BY <1>2, <2>1, <2>2, <2>3 DEF Activation
<1>3. ASSUME NEW u \in Tasks, Free(u), NEW w, task' = [task EXCEPT ![u] = w]
      PROVE  task'[t] = task[t]
  BY <1>3 DEF Free, Shape, TypeOK
<1>4. CASE Storage \/ Submit \/ Retry
  <2>1. UNCHANGED task \/ \E q, from, r : ProcessQueue(q, from, r)
    BY <1>4 DEF Storage, AnswerStored, AnswerNotStored, ProgressWritten, Submit, Retry
  <2> QED
    BY <1>3, <2>1 DEF ProcessQueue, Step
<1>5. CASE Page \/ GoOnline
  <2>1. UNCHANGED task \/ \E r : StartEffect(r)
    BY <1>5 DEF Page, StartFresh, Restore, GoOnline
  <2> QED
    BY <1>3, <2>1 DEF StartEffect, Step
<1>6. CASE GoOffline \/ Delete \/ UNCHANGED vars
  BY <1>6 DEF GoOffline, Delete, vars
<1> QED
  BY <1>1, <1>2, <1>4, <1>5, <1>6 DEF Next

Brings(t) ==
  task[t].pc = "replied" /\ task[t].reply = "ok" /\ task[t].target = NoId

Single ==
  /\ Len(responses) <= 1 /\ \A i \in 1 .. Len(responses) : responses[i].live
  /\ page = "ready"
  /\ \A t \in Tasks :
       task[t].pc = "sending" /\ task[t].target = NoId => Len(responses) = 0
  /\ rid = NoId => Len(responses) = 0 \/ \E t \in Tasks : Brings(t)

Undisturbed == Faults \cap {"lostReply", "delete", "reload"} = {}

(* The answer of the server to the one request under way.                   *)
LEMMA SingleAnswered ==
  ASSUME Undisturbed, Shape, LocksOK, Known, Single, [Next]_vars, NEW t \in Tasks,
         Network(t)
  PROVE  Single'
<1>1. PICK reply :
        /\ Replied(t, reply) /\ task[t].pc = "sending"
        /\ \/ Apply(task[t]) /\ reply = Verdict(task[t])
           \/ UNCHANGED responses
  BY DEF Network, ServerHandles, ReplyLost, RequestFails, ServerRefuses, May, Undisturbed
<1>2. /\ rid' = rid /\ page' = page /\ TypeOK
      /\ task[t] \in TaskType /\ task[t].cur \in Answers
  BY <1>1, ActivationFacts DEF Network, ServerHandles, ReplyLost, RequestFails,
     ServerRefuses, RequestUnchanged, session, WellFormed, SendPCs, Shape
<1> DEFINE w == [task[t] EXCEPT !.pc = "replied", !.reply = reply,
                                !.created = Len(responses')]
<1>3. w.pc = "replied" /\ w.reply = reply /\ w.target = task[t].target
  BY <1>2 DEF TaskType
<1>4. \A u \in Tasks : task'[u] = IF u = t THEN w ELSE task[u]
  BY <1>1 DEF Replied, Shape, TypeOK
<1> HIDE DEF w
<1>5. \A u \in Tasks : task[u].pc = "sending" => u = t
  <2>1. \A u \in Tasks : task[u].pc = "sending" => Engaged(u)
    BY DEF Engaged, Draining, Delivering, SendPCs
  <2> QED
    BY <1>1, <2>1 DEF LocksOK, SingleFlight
<1>6. \A u \in Tasks : task'[u].pc # "sending"
  BY <1>3, <1>4, <1>5
<1>7. Len(responses) \in Nat
  BY ResponsesGrow
<1>8. CASE Creates(t) /\ Apply(task[t]) /\ reply = Verdict(task[t])
  <2>1. Len(responses) = 0
    BY <1>8 DEF Creates, Single
  <2>2. Len(responses') = 1 /\ responses'[1].live
    BY <1>2, <1>8, <2>1, ApplyResponses DEF Creates
  <2>3. Brings(t)'
    BY <1>3, <1>4, <1>8 DEF Brings, Creates
  <2> QED
    BY <1>2, <1>6, <2>2, <2>3 DEF Single
<1>9. CASE ~(Creates(t) /\ Apply(task[t]) /\ reply = Verdict(task[t]))
  <2>1. /\ Len(responses') = Len(responses)
        /\ \A i \in 1 .. Len(responses') : responses'[i].live
    <3>1. CASE UNCHANGED responses
      BY <3>1 DEF Single
    <3>2. CASE Apply(task[t]) /\ reply = Verdict(task[t])
      BY <1>1, <1>2, <1>9, <3>2, ApplyResponses DEF Creates, Single
    <3> QED
      BY <1>1, <3>1, <3>2
  <2>2. \A u \in Tasks : Brings(u) => Brings(u)'
    BY <1>1, <1>4 DEF Brings
  <2> QED
    BY <1>2, <1>6, <2>1, <2>2 DEF Single
<1> QED
  BY <1>8, <1>9

LEMMA SingleMoved ==
  ASSUME Undisturbed, Shape, LocksOK, Known, Single, [Next]_vars,
         \A t \in Tasks : ~Network(t)
  PROVE  Single'
<1>1. ~Reload /\ ~Delete
  BY DEF Reload, Delete, May, Undisturbed
<1>2. UNCHANGED <<page, responses>>
  BY <1>1, ZenonT(60) DEF Next, vars, Activation, Sending, Syncing, Storage, Page, CleanedUp,
     Counted, CountFails, SendAccepted, SendDeferred, SendRejected, RecaptchaFailed,
     BackOff, Resend, GiveUp, SentRowRemoved, EffectCounted, RowsRead, ReadFails,
     RowAccepted, RowRejected, Recreate, SyncStopped, SyncedRowRemoved, AnswerStored,
     AnswerNotStored, ProgressWritten, StartFresh, Restore, Submit, Retry, GoOnline,
     GoOffline, session, Single
<1>3. ASSUME rid' = NoId
      PROVE  Len(responses) = 0 \/ \E t \in Tasks : Brings(t)'
  <2>1. rid = NoId
    <3>1. rid \in Nat /\ Len(responses) \in Nat
      BY ResponsesGrow DEF Shape, TypeOK
    <3>2. rid # NoId => rid \in 1 .. Len(responses)
      BY <3>1 DEF Known, NoId
    <3> QED
      BY <1>2, <1>3, <3>2, IdLost DEF Single
  <2>2. ASSUME NEW t \in Tasks, Brings(t)
        PROVE  Brings(t)'
    <3>1. task[t].created # NoId
      BY <2>2, ResponsesGrow DEF Brings, Known, Asks, NoId
    <3>2. ~SendAccepted(t) /\ ~RowAccepted(t)
      BY <1>3, <2>2, <3>1 DEF SendAccepted, RowAccepted, Adopt, IdAfter, Brings
    <3> QED
      BY <1>1, <2>2, <3>2, ReplyTaken DEF Brings
  <2> QED
    BY <2>1, <2>2 DEF Single
<1>4. ASSUME NEW t \in Tasks, task'[t].pc = "sending", task'[t].target = NoId
      PROVE  Len(responses) = 0
  <2>1. CASE task'[t] = task[t]
    BY <1>4, <2>1 DEF Single
  <2>2. CASE task'[t] # task[t]
    <3>1. rid' = NoId
      BY <1>4, <2>2, Moves DEF Moved, Goes, Pending
    <3>2. ASSUME NEW u \in Tasks, Brings(u)'
          PROVE  FALSE
      <4>1. LocksOK'
        BY LocksInductive
      <4>2. Engaged(u)' /\ Engaged(t)'
        BY <1>4, <3>2 DEF Brings, Engaged, Draining, Delivering, SendPCs
      <4>3. u = t
        BY <4>1, <4>2 DEF LocksOK, SingleFlight
      <4> QED
        BY <1>4, <3>2, <4>3 DEF Brings
    <3> QED
      BY <1>3, <3>1, <3>2
  <2> QED
    BY <2>1, <2>2
<1> QED
  BY <1>2, <1>3, <1>4 DEF Single

(* While no reply is lost, no response is deleted and the page stays open,  *)
(* a respondent gets one response row however the two senders take turns,   *)
(* storage fails or the connection flickers.                                *)
THEOREM OneResponseEach ==
  ASSUME Undisturbed
  PROVE  Spec => []OneResponse
<1>1. Init => Single
  <2>1. Init => Len(responses) = 0
    BY EmptySeq DEF Init
  <2> QED
    BY <2>1 DEF Init, Single, IdleTask
<1>2. Shape /\ LocksOK /\ Known /\ Single /\ [Next]_vars => Single'
  BY SingleAnswered, SingleMoved
<1>3. Single => OneResponse
  BY DEF Single, OneResponse
<1> QED
  BY <1>1, <1>2, <1>3, KnownAlways, PTL DEF Spec
=============================================================================
