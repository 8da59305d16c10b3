---------------------------- MODULE ResponseQueue ----------------------------
(***************************************************************************)
(* How a respondent's answers travel from the survey page to the server:   *)
(* the ResponseQueue class of packages/surveys with its IndexedDB store,   *)
(* the module-level locks, the page effects that drive it (reconnect,      *)
(* restore after a reload, manual retry) and the server's create/update    *)
(* endpoints as the queue sees them.                                       *)
(*                                                                         *)
(* JavaScript runs one continuation at a time, so an action is the code    *)
(* between two awaits.  A task is one activation of an async function      *)
(* (processQueue, syncPersistedResponses or the page's sync effect);       *)
(* several may be suspended at once, each at its own await.                *)
(*                                                                         *)
(* Answers are numbered in the order they are submitted, so a list of      *)
(* answers kept in submission order (the in-memory queue, the IndexedDB    *)
(* rows sorted by createdAt) is the set of its members and its head is the *)
(* smallest of them.  The last answer is the one that finishes the survey. *)
(*                                                                         *)
(* IndexedDB completes requests in the order they were issued, and the     *)
(* continuation of a request runs before the next request completes.  idb  *)
(* is that order: a write of the page, or the task waiting for its own     *)
(* request.                                                                *)
(***************************************************************************)
EXTENDS Integers, Sequences, FiniteSets

CONSTANTS
  MaxAnswers,      (* answers the respondent gives; the last one finishes   *)
  Tasks,           (* activations of async functions that may overlap       *)
  RetryAttempts,   (* config.retryAttempts                                  *)
  PersistOffline,  (* config.persistOffline                                 *)
  Linked,          (* whether the page's displays are created (createDisplay) *)
  Faults,          (* the kinds of fault the environment may cause          *)
  MaxFaults        (* how many faults it may cause in one behaviour         *)

FaultKinds == {"flicker", "unavailable", "lostReply", "reject", "recaptcha",
               "dbAdd", "db", "delete", "reload"}

ASSUME ResponseQueueAssumption ==
  /\ MaxAnswers \in Nat \ {0}
  /\ Tasks # {}
  /\ RetryAttempts \in Nat \ {0}
  /\ PersistOffline \in BOOLEAN
  /\ Linked \in BOOLEAN
  /\ Faults \subseteq FaultKinds
  /\ MaxFaults \in Nat

VARIABLES
  (*************************************************************************)
  (* The page: SurveyState, the ResponseQueue instance, the locks.          *)
  (*************************************************************************)
  next,        \* the number of the respondent's next answer
  queue,       \* ResponseQueue.queue
  tracked,     \* answers pendingDbIds maps to their IndexedDB row
  processed,   \* processedDbIdsPendingRemoval: handled rows not yet deleted
  acc,         \* surveyState.responseAcc.data
  rid,         \* surveyState.responseId, NoId when null
  bootstrap,   \* surveyState.shouldCreateResponseFromState
  display,     \* surveyState.displayId, NoDisplay when null
  surfaced,    \* the error card the respondent sees, if any
  page,        \* "restoring" until progressRestored is set
  syncRef,     \* isSyncingRef.current
  syncing,     \* syncingBySurvey
  inFlight,    \* requestInProgressBySurvey
  task,        \* the suspended activations
  (*************************************************************************)
  (* IndexedDB, the server, the environment.                                *)
  (*************************************************************************)
  db,          \* rows of pendingResponses
  snap,        \* surveyStateSnapshot of each row
  progress,    \* the row of surveyProgress
  idb,         \* IndexedDB requests issued and not completed, oldest first
  responses,   \* the server's responses, the id of a row is its index
  displays,    \* how many displays the server has created
  online,      \* navigator.onLine
  budget,      \* faults the environment may still cause
  (*************************************************************************)
  (* History: what the client has learnt of each answer.                    *)
  (*************************************************************************)
  acked,       \* answers whose acceptance the client has seen
  dropped      \* answers the client gave up as refused

vars == <<next, queue, tracked, processed, acc, rid, bootstrap, display,
          surfaced, page, syncRef, syncing, inFlight, task, db, snap, progress,
          idb, responses, displays, online, budget, acked, dropped>>

\* What most steps leave alone: the answers given and the page they are given on.
session == <<next, acc, display, displays, page>>
\* What only the end of a request changes.
outcomes == <<acked, dropped, surfaced>>
\* IndexedDB apart from the pending rows themselves.
stored == <<snap, progress>>

-----------------------------------------------------------------------------
Answers == 1 .. MaxAnswers
NoId == 0
NoAnswer == 0
NoDisplay == 0
\* Mutant: rows and queue are taken from the newest end.
Latest(S) == CHOOSE a \in S : \A b \in S : b <= a
First(S) == CHOOSE a \in S : \A b \in S : a <= b
Finishes(a) == a = MaxAnswers

(* A suspended activation: where it waits, who started it, whether it runs  *)
(* syncPersistedResponses, the answer it carries and the request it made.   *)
IdleTask ==
  [pc |-> "idle", after |-> "idle", from |-> "app", sync |-> FALSE,
   cur |-> NoAnswer, attempt |-> 0, target |-> NoId, data |-> {},
   reply |-> "none", created |-> NoId, todo |-> {}, gone |-> {}]

(* The parts of a SerializedSurveyState that are restored from it.          *)
Snapshot(id, d) == [rid |-> id, display |-> d]
NoProgress == [saved |-> FALSE, rid |-> NoId, display |-> NoDisplay, acc |-> {}]

May(kind) == kind \in Faults /\ budget > 0
Spend == budget' = budget - 1
Free(t) == task[t].pc = "idle"
At(t, pc, sync) == task[t].pc = pc /\ task[t].sync = sync

\* A task that waits for IndexedDB joins the order of its requests.
DbWaits == {"cleaning", "counting", "effect", "reading", "removing", "dropping"}
Step(t, w, requests) ==
  /\ task' = [task EXCEPT ![t] = w]
  /\ idb' = IF w.pc \in DbWaits THEN Append(requests, t) ELSE requests
Served(t) == idb # <<>> /\ Head(idb) = t
Writing(op) == idb # <<>> /\ Head(idb) \notin Tasks /\ Head(idb).op = op
Write(op, a, id, d, data) ==
  [op |-> op, answer |-> a, rid |-> id, display |-> d, acc |-> data]

Init ==
  /\ next = 1 /\ queue = {} /\ tracked = {} /\ processed = {} /\ acc = {}
  /\ rid = NoId /\ bootstrap = FALSE
  /\ displays = (IF Linked THEN 1 ELSE 0) /\ display = displays
  /\ surfaced = "none" /\ page = "ready" /\ syncRef = FALSE
  /\ syncing = FALSE /\ inFlight = FALSE
  /\ task = [t \in Tasks |-> IdleTask]
  /\ db = {} /\ snap = [a \in Answers |-> Snapshot(NoId, NoDisplay)] /\ progress = NoProgress
  /\ idb = <<>> /\ responses = <<>>
  /\ online = TRUE /\ budget = MaxFaults
  /\ acked = {} /\ dropped = {}

-----------------------------------------------------------------------------
(* sendResponse updates when a response id is known and creates otherwise;  *)
(* a create made from restored state carries every answer so far.           *)
Request(w, id) ==
  [w EXCEPT !.pc = "sending", !.reply = "none", !.target = id,
            !.data = IF id = NoId /\ bootstrap THEN acc ELSE {w.cur}]

\* retryProcessedDbIdCleanup comes first wherever rows are counted or read.
CleanThen(w, pc) ==
  IF processed = {} THEN [w EXCEPT !.pc = pc]
  ELSE [w EXCEPT !.pc = "cleaning", !.after = pc]

-----------------------------------------------------------------------------
(* processQueue.  Its synchronous prefix runs inside the caller.            *)
Blocked(q, locked) ==
  locked \/ q = {} \/ (PersistOffline /\ ~online) \/ syncing

\* With persistence the activation first counts the rows; without, it sends at once.
Started(q, from, id) ==
  IF PersistOffline
  THEN CleanThen([IdleTask EXCEPT !.from = from], "counting")
  ELSE Request([IdleTask EXCEPT !.cur = First(q), !.from = from], id)

ProcessQueue(q, from, requests) ==
  IF Blocked(q, inFlight)
  THEN UNCHANGED <<task, inFlight>> /\ idb' = requests
  ELSE /\ \E t \in Tasks : Free(t) /\ Step(t, Started(q, from, rid), requests)
       /\ inFlight' = ~PersistOffline

\* Mutant: a successful send does not start the next one.
StopAfterSend(t, q, id, requests) ==
  Step(t, IdleTask, requests) /\ inFlight' = FALSE

\* Mutant: the early return keeps the lock of the send before it.
KeepLock(t, q, id, requests) ==
  IF Blocked(q, FALSE)
  THEN Step(t, IdleTask, requests) /\ UNCHANGED inFlight
  ELSE Step(t, Started(q, "app", id), requests) /\ inFlight' = ~PersistOffline

\* The background processQueue a send starts once it has released the lock.
ProcessNext(t, q, id, requests) ==
  IF Blocked(q, FALSE)
  THEN Step(t, IdleTask, requests) /\ inFlight' = FALSE
  ELSE Step(t, Started(q, "app", id), requests) /\ inFlight' = ~PersistOffline

(* The handled rows are deleted, some possibly not; the task goes on to its *)
(* count or read.                                                           *)
CleanedUp(t) ==
  /\ Served(t) /\ task[t].pc = "cleaning"
  /\ \E gone \in SUBSET processed :
       /\ IF gone = processed THEN UNCHANGED budget ELSE May("db") /\ Spend
       /\ db' = db \ gone
       /\ processed' = processed \ gone
       /\ tracked' = tracked \ gone
  /\ Step(t, [task[t] EXCEPT !.pc = task[t].after], Tail(idb))
  /\ UNCHANGED <<session, outcomes, stored, queue, rid, bootstrap, syncRef,
                 syncing, inFlight, responses, online>>

\* countPersistedResponses.
PendingCount ==
  LET n == Cardinality(db) - Cardinality(processed) IN IF n < 0 THEN 0 ELSE n

\* With several rows pending, processQueue leaves them to a sync.
\* Mutant: it always sends the head of the queue itself.
NeverDefers == FALSE
DefersToSync == PendingCount > 1

\* The guards processQueue checks again after its awaits.
\* Mutant: a sync that began meanwhile goes unnoticed.
OvertakenBySend == inFlight \/ queue = {}
Overtaken == syncing \/ inFlight \/ queue = {}

(* The rows are counted and processQueue resumes: it defers to a sync when  *)
(* several rows are pending and otherwise sends the head of the queue.      *)
Counted(t) ==
  /\ Served(t) /\ task[t].pc = "counting"
  /\ \/ /\ Overtaken
        /\ Step(t, IdleTask, Tail(idb))
        /\ UNCHANGED <<syncing, inFlight>>
     \/ /\ ~Overtaken
        /\ DefersToSync
        /\ syncing' = TRUE
        /\ Step(t, CleanThen([IdleTask EXCEPT !.sync = TRUE], "reading"),
                Tail(idb))
        /\ UNCHANGED inFlight
     \/ /\ ~Overtaken
        /\ ~DefersToSync
        /\ inFlight' = TRUE
        /\ Step(t, Request([task[t] EXCEPT !.cur = First(queue)], rid), Tail(idb))
        /\ UNCHANGED syncing
  /\ UNCHANGED <<session, outcomes, stored, queue, tracked, processed, rid,
                 bootstrap, syncRef, db, responses, online, budget>>

(* A count that fails ends the activation; the page's effect takes it as 0. *)
CountFails(t) ==
  /\ Served(t) /\ task[t].pc \in {"counting", "effect"}
  /\ May("db") /\ Spend
  /\ Step(t, IdleTask, Tail(idb))
  /\ syncRef' = (syncRef /\ task[t].pc = "counting")
  /\ UNCHANGED <<session, outcomes, stored, queue, tracked, processed, rid,
                 bootstrap, syncing, inFlight, db, responses, online>>

-----------------------------------------------------------------------------
(* The server, as its create and update endpoints treat a request.          *)
IsFinished(r) == MaxAnswers \in r.data

\* A create names a display that is linked already, or was deleted with its response.
DisplayTaken ==
  display # NoDisplay /\ \E i \in DOMAIN responses : responses[i].display = display

Verdict(w) ==
  IF w.target = NoId
  THEN IF DisplayTaken THEN "rejected" ELSE "ok"
  ELSE IF ~responses[w.target].live THEN "notFound"
  ELSE IF IsFinished(responses[w.target]) THEN "rejected" ELSE "ok"

Apply(w) ==
  responses' =
    IF Verdict(w) # "ok" THEN responses
    ELSE IF w.target = NoId
    THEN Append(responses, [data |-> w.data, last |-> w.cur, live |-> TRUE,
                            display |-> display])
    ELSE [responses EXCEPT ![w.target].data = @ \cup w.data,
                           ![w.target].last = w.cur]

Replied(t, reply) ==
  task' = [task EXCEPT ![t].pc = "replied", ![t].reply = reply,
                       ![t].created = Len(responses')]

RequestUnchanged ==
  UNCHANGED <<session, outcomes, stored, queue, tracked, processed, rid,
              bootstrap, syncRef, syncing, inFlight, db, idb, online>>

ServerHandles(t) ==
  /\ task[t].pc = "sending" /\ online
  /\ Apply(task[t])
  /\ Replied(t, Verdict(task[t]))
  /\ UNCHANGED budget
  /\ RequestUnchanged

\* The request took effect and its reply did not arrive.
ReplyLost(t) ==
  /\ task[t].pc = "sending" /\ online
  /\ May("lostReply") /\ Spend
  /\ Apply(task[t])
  /\ Replied(t, "unavailable")
  /\ RequestUnchanged

\* The request did not reach the server, or failed there with a 5xx.
RequestFails(t) ==
  /\ task[t].pc = "sending"
  /\ \/ ~online /\ UNCHANGED budget
     \/ May("unavailable") /\ Spend
  /\ UNCHANGED responses
  /\ Replied(t, "unavailable")
  /\ RequestUnchanged

\* A terminal 4xx (validation, survey closed), or a recaptcha failure of a create.
ServerRefuses(t) ==
  /\ task[t].pc = "sending" /\ online
  /\ UNCHANGED responses
  /\ \/ May("reject") /\ Replied(t, "rejected")
     \/ May("recaptcha") /\ task[t].target = NoId /\ Replied(t, "recaptcha")
  /\ Spend
  /\ RequestUnchanged

-----------------------------------------------------------------------------
(* Replies to a request of processQueue (sendResponseWithRetry).            *)
Has(t, sync, replies) ==
  At(t, "replied", sync) /\ task[t].reply \in replies

\* The tail of sendResponse: a create's id is adopted and patched into the progress row.
IdAfter(w) == IF w.target = NoId THEN w.created ELSE rid

Adopt(w) ==
  /\ rid' = IdAfter(w)
  /\ bootstrap' = (bootstrap /\ w.target # NoId)
  /\ acked' = acked \cup {w.cur}

Patched(w) ==
  IF w.target = NoId /\ PersistOffline
  THEN Append(idb, Write("patchId", NoAnswer, w.created, NoDisplay, {})) ELSE idb

\* handleSuccessfulResponse and, for the Retry button, the cleared error card.
Success(t, q, id, requests) ==
  /\ surfaced' = IF Finishes(task[t].cur) \/ task[t].from = "retry"
                 THEN "none" ELSE surfaced
  /\ ProcessNext(t, q, id, requests)

\* handleFailedResponse.
Failure(t, card, requests) ==
  /\ surfaced' = card
  /\ inFlight' = FALSE
  /\ Step(t, IdleTask, requests)

SendAccepted(t) ==
  /\ Has(t, FALSE, {"ok"})
  /\ Adopt(task[t])
  /\ queue' = queue \ {First(queue)}
  /\ IF task[t].cur \in tracked
     THEN /\ Step(t, [task[t] EXCEPT !.pc = "removing"], Patched(task[t]))
          /\ UNCHANGED <<surfaced, inFlight>>
     ELSE Success(t, queue', rid', Patched(task[t]))
  /\ UNCHANGED <<session, stored, tracked, processed, syncRef, syncing, db,
                 responses, online, budget, dropped>>

\* With persistence a failure while offline is no failure: the row stays.
Deferred == PersistOffline /\ ~online

SendDeferred(t) ==
  /\ Deferred
  /\ \/ Has(t, FALSE, {"rejected", "recaptcha"})
     \/ At(t, "backoff", FALSE) /\ task[t].attempt + 1 >= RetryAttempts
  /\ inFlight' = FALSE
  /\ Step(t, IdleTask, idb)
  /\ UNCHANGED <<session, outcomes, stored, queue, tracked, processed, rid,
                 bootstrap, syncRef, syncing, db, responses, online, budget>>

SendRejected(t) ==
  /\ Has(t, FALSE, {"rejected"}) /\ ~Deferred
  /\ queue' = queue \ {First(queue)}
  /\ dropped' = dropped \cup {task[t].cur}
  /\ IF task[t].cur \in tracked
     THEN /\ Step(t, [task[t] EXCEPT !.pc = "dropping"], idb)
          /\ UNCHANGED <<surfaced, inFlight>>
     ELSE Failure(t, "permanent", idb)
  /\ UNCHANGED <<session, stored, tracked, processed, rid, bootstrap, syncRef,
                 syncing, db, responses, online, budget, acked>>

RecaptchaFailed(t) ==
  /\ Has(t, FALSE, {"recaptcha"}) /\ ~Deferred
  /\ Failure(t, "permanent", idb)
  /\ UNCHANGED <<session, stored, queue, tracked, processed, rid, bootstrap,
                 syncRef, syncing, db, responses, online, budget, acked,
                 dropped>>

BackOff(t) ==
  /\ Has(t, FALSE, {"unavailable", "notFound"})
  /\ Step(t, [task[t] EXCEPT !.pc = "backoff", !.reply = "none"], idb)
  /\ UNCHANGED <<session, outcomes, stored, queue, tracked, processed, rid,
                 bootstrap, syncRef, syncing, inFlight, db, responses, online,
                 budget>>

Resend(t) ==
  /\ At(t, "backoff", FALSE) /\ task[t].attempt + 1 < RetryAttempts
  /\ Step(t, Request([task[t] EXCEPT !.attempt = @ + 1], rid), idb)
  /\ UNCHANGED <<session, outcomes, stored, queue, tracked, processed, rid,
                 bootstrap, syncRef, syncing, inFlight, db, responses, online,
                 budget>>

GiveUp(t) ==
  /\ At(t, "backoff", FALSE) /\ task[t].attempt + 1 >= RetryAttempts
  /\ ~Deferred
  /\ Failure(t, "retryable", idb)
  /\ UNCHANGED <<session, stored, queue, tracked, processed, rid, bootstrap,
                 syncRef, syncing, db, responses, online, budget, acked,
                 dropped>>

(* removePendingResponseFromIndexedDB: a row that cannot be deleted is      *)
(* remembered as processed so that it is neither counted nor sent again.    *)
\* Mutant: the whole store is cleared.
RemoveEveryRow(a, removed) ==
  /\ db' = IF removed THEN {} ELSE db
  /\ processed' = IF removed THEN processed \ {a} ELSE processed \cup {a}
  /\ IF removed THEN UNCHANGED budget ELSE May("db") /\ Spend
RemoveRow(a, removed) ==
  /\ db' = IF removed THEN db \ {a} ELSE db
  /\ processed' = IF removed THEN processed \ {a} ELSE processed \cup {a}
  /\ IF removed THEN UNCHANGED budget ELSE May("db") /\ Spend

SentRowRemoved(t) ==
  /\ Served(t) /\ task[t].pc \in {"removing", "dropping"} /\ ~task[t].sync
  /\ \E removed \in BOOLEAN :
       /\ RemoveRow(task[t].cur, removed)
       /\ tracked' = IF removed THEN tracked \ {task[t].cur} ELSE tracked
  /\ IF task[t].pc = "removing"
     THEN Success(t, queue, rid, Tail(idb))
     ELSE Failure(t, "permanent", Tail(idb))
  /\ UNCHANGED <<session, stored, queue, rid, bootstrap, syncRef, syncing,
                 responses, online, acked, dropped>>

-----------------------------------------------------------------------------
(* syncPersistedResponses drains the rows in order.                         *)
\* Mutant: a request in flight does not keep a sync from starting.
SyncRefusedBySync == syncing
SyncRefused == syncing \/ inFlight

\* A row's own response id is restored; a null one keeps the id the sync has.
IdFor(a) == IF snap[a].rid # NoId THEN snap[a].rid ELSE rid

SendRow(t, w, rows, requests) ==
  LET a == First(rows) IN
  /\ rid' = IdFor(a)
  /\ Step(t, Request([w EXCEPT !.cur = a, !.todo = rows \ {a}], IdFor(a)),
          requests)

\* removeProcessedQueueItemsByDbId.
\* Mutants: the in-memory copies stay; the whole queue is forgotten.
KeepCopies(gone) ==
  /\ UNCHANGED queue
  /\ tracked' = tracked \ gone
ForgetQueue(gone) ==
  /\ queue' = {}
  /\ tracked' = tracked \ gone
ForgetProcessed(gone) ==
  /\ queue' = queue \ (gone \cap tracked)
  /\ tracked' = tracked \ gone

(* The end of a sync.  The background processQueue is started before the    *)
(* finally clause clears syncing, so its guard reads the lock still held.   *)
(* (The effect clears syncRef after its last write; no effect runs between.)*)
AfterSync(q, drained) ==
  IF drained /\ ~Blocked(q, inFlight) THEN Started(q, "app", rid) ELSE IdleTask

\* The page's effect clears the progress row after a successful sync.
Cleared(w, success, requests) ==
  IF w.from = "effect" /\ success
  THEN Append(requests, Write("clear", NoAnswer, NoId, NoDisplay, {})) ELSE requests

\* Mutant: the lock is released by the return of a successful sync only.
ReleaseOnSuccess(t, q, success, drained, requests) ==
  /\ syncing' = ~success
  /\ syncRef' = IF task[t].from = "effect" THEN FALSE ELSE syncRef
  /\ Step(t, AfterSync(q, drained), Cleared(task[t], success, requests))
EndSync(t, q, success, drained, requests) ==
  /\ syncing' = FALSE
  /\ syncRef' = IF task[t].from = "effect" THEN FALSE ELSE syncRef
  /\ Step(t, AfterSync(q, drained), Cleared(task[t], success, requests))

\* Mutant: handled rows that could not be deleted are read as well.
AllRows == db
EntriesToSync == db \ processed

RowsRead(t) ==
  /\ Served(t) /\ task[t].pc = "reading"
  /\ IF EntriesToSync = {}
     THEN EndSync(t, queue, TRUE, FALSE, Tail(idb)) /\ UNCHANGED rid
     ELSE /\ SendRow(t, task[t], EntriesToSync, Tail(idb))
          /\ UNCHANGED <<syncing, syncRef>>
  /\ UNCHANGED <<session, outcomes, stored, queue, tracked, processed,
                 bootstrap, inFlight, db, responses, online, budget>>

ReadFails(t) ==
  /\ Served(t) /\ task[t].pc = "reading"
  /\ May("db") /\ Spend
  /\ EndSync(t, queue, FALSE, FALSE, Tail(idb))
  /\ UNCHANGED <<session, outcomes, stored, queue, tracked, processed, rid,
                 bootstrap, inFlight, db, responses, online>>

RowAccepted(t) ==
  /\ Has(t, TRUE, {"ok"})
  /\ Adopt(task[t])
  /\ Step(t, [task[t] EXCEPT !.pc = "removing"], Patched(task[t]))
  /\ UNCHANGED <<session, stored, queue, tracked, processed, surfaced, syncRef,
                 syncing, inFlight, db, responses, online, budget, dropped>>

\* A recaptcha failure is a 400, which a sync takes for a permanent rejection.
RowRejected(t) ==
  /\ Has(t, TRUE, {"rejected", "recaptcha"})
  /\ dropped' = dropped \cup {task[t].cur}
  /\ Step(t, [task[t] EXCEPT !.pc = "dropping"], idb)
  /\ UNCHANGED <<session, stored, queue, tracked, processed, rid, bootstrap,
                 surfaced, syncRef, syncing, inFlight, db, responses, online,
                 budget, acked>>

(* The response an update names is gone: the row is sent again as a create  *)
(* with the display of its own snapshot.                                    *)
\* Mutant: any failure that is not a rejection detaches the session.
AnyFailure == {"notFound", "unavailable"}
Missing == {"notFound"}

Recreate(t) ==
  /\ Has(t, TRUE, Missing) /\ rid # NoId
  /\ rid' = NoId
  /\ LET d == snap[task[t].cur].display IN
     display' = IF d # NoDisplay THEN d ELSE display
  /\ Step(t, Request(task[t], NoId), idb)
  /\ UNCHANGED <<next, acc, displays, page, outcomes, stored, queue, tracked,
                 processed, bootstrap, syncRef, syncing, inFlight, db, responses,
                 online, budget>>

SyncStopped(t) ==
  /\ Has(t, TRUE, {"unavailable"})
  /\ ForgetProcessed(task[t].gone)
  /\ EndSync(t, queue', FALSE, FALSE, idb)
  /\ UNCHANGED <<session, outcomes, stored, processed, rid, bootstrap,
                 inFlight, db, responses, online, budget>>

SyncedRowRemoved(t) ==
  /\ Served(t) /\ task[t].pc \in {"removing", "dropping"} /\ task[t].sync
  /\ \E removed \in BOOLEAN :
       LET w == [task[t] EXCEPT !.gone = @ \cup {task[t].cur}] IN
       /\ RemoveRow(w.cur, removed)
       /\ IF removed /\ w.todo # {}
          THEN /\ SendRow(t, w, w.todo, Tail(idb))
               /\ UNCHANGED <<queue, tracked, syncing, syncRef>>
          ELSE /\ ForgetProcessed(w.gone)
               /\ EndSync(t, queue', removed, removed, Tail(idb))
               /\ UNCHANGED rid
  /\ UNCHANGED <<session, outcomes, stored, bootstrap, inFlight, responses,
                 online>>

-----------------------------------------------------------------------------
(* The page.  add() numbers the answer, keeps it in memory and, with        *)
(* persistence, issues the write of its row before any processing; onSubmit *)
(* then issues the write of the progress row.                               *)
\* Mutant: the ending card still takes answers.
CanAlwaysSubmit == page = "ready" /\ surfaced = "none"
CanSubmit == page = "ready" /\ surfaced = "none" /\ next \in Answers

Submit ==
  /\ CanSubmit
  /\ next' = next + 1
  /\ acc' = acc \cup {next}
  /\ queue' = queue \cup {next}
  /\ IF PersistOffline
     THEN /\ idb' = idb \o <<Write("add", next, rid, display, {}),
                             Write("save", NoAnswer, rid, display, acc')>>
          /\ UNCHANGED <<task, inFlight>>
     ELSE ProcessQueue(queue', "app", idb)
  /\ UNCHANGED <<outcomes, stored, tracked, processed, rid, bootstrap, display,
                 displays, page, syncRef, syncing, db, responses, online, budget>>

\* The row is written with the survey state of the moment it was issued.
AnswerStored ==
  /\ Writing("add")
  /\ LET w == Head(idb) IN
     /\ db' = db \cup {w.answer}
     /\ snap' = [snap EXCEPT ![w.answer] = Snapshot(w.rid, w.display)]
     /\ tracked' = tracked \cup {w.answer}
  /\ ProcessQueue(queue, "app", Tail(idb))
  /\ UNCHANGED <<session, outcomes, progress, queue, processed, rid, bootstrap,
                 syncRef, syncing, responses, online, budget>>

AnswerNotStored ==
  /\ Writing("add")
  /\ May("dbAdd") /\ Spend
  /\ ProcessQueue(queue, "app", Tail(idb))
  /\ UNCHANGED <<session, outcomes, stored, queue, tracked, processed, rid,
                 bootstrap, syncRef, syncing, db, responses, online>>

\* A patch changes one field of a progress row, if there is one.
Patch(op, w) ==
  CASE ~progress.saved -> progress
    [] progress.saved /\ op = "patchId" -> [progress EXCEPT !.rid = w.rid]
    [] progress.saved /\ op = "patchDisplay" -> [progress EXCEPT !.display = w.display]

ProgressWritten ==
  /\ LET w == Head(idb) IN
     \/ /\ Writing("save")
        /\ progress' = [saved |-> TRUE, rid |-> w.rid, display |-> w.display,
                        acc |-> w.acc]
     \/ \E op \in {"patchId", "patchDisplay"} :
          Writing(op) /\ progress' = Patch(op, w)
     \/ Writing("clear") /\ progress' = NoProgress
  /\ idb' = Tail(idb)
  /\ UNCHANGED <<session, outcomes, snap, queue, tracked, processed, rid,
                 bootstrap, syncRef, syncing, inFlight, task, db, responses,
                 online, budget>>

\* The Retry button of the error card.
Retry ==
  /\ page = "ready" /\ surfaced = "retryable"
  /\ \A t \in Tasks : task[t].from # "retry"
  /\ ~Blocked(queue, inFlight)
  /\ ProcessQueue(queue, "retry", idb)
  /\ UNCHANGED <<session, outcomes, stored, queue, tracked, processed, rid,
                 bootstrap, syncRef, syncing, db, responses, online, budget>>

(* The page's sync effect runs when the page is restored or back online,    *)
(* once at a time; it syncs when rows are pending.                          *)
StartEffect(requests) ==
  IF ~PersistOffline \/ syncRef
  THEN UNCHANGED <<task, syncRef>> /\ idb' = requests
  ELSE /\ \E t \in Tasks :
            Free(t) /\ Step(t, CleanThen([IdleTask EXCEPT !.from = "effect"],
                                         "effect"), requests)
       /\ syncRef' = TRUE

EffectCounted(t) ==
  /\ Served(t) /\ task[t].pc = "effect"
  /\ IF PendingCount = 0 \/ SyncRefused
     THEN /\ Step(t, IdleTask, Tail(idb))
          /\ syncRef' = FALSE
          /\ UNCHANGED syncing
     ELSE /\ Step(t, CleanThen([task[t] EXCEPT !.sync = TRUE], "reading"),
                  Tail(idb))
          /\ syncing' = TRUE
          /\ UNCHANGED syncRef
  /\ UNCHANGED <<session, outcomes, stored, queue, tracked, processed, rid,
                 bootstrap, inFlight, db, responses, online, budget>>

GoOnline ==
  /\ ~online /\ online' = TRUE
  /\ IF page = "ready" THEN StartEffect(idb) ELSE UNCHANGED <<task, syncRef, idb>>
  /\ UNCHANGED <<session, outcomes, stored, queue, tracked, processed, rid,
                 bootstrap, syncing, inFlight, db, responses, budget>>

GoOffline ==
  /\ online /\ online' = FALSE
  /\ May("flicker") /\ Spend
  /\ syncRef' = FALSE
  /\ UNCHANGED <<session, outcomes, stored, queue, tracked, processed, rid,
                 bootstrap, syncing, inFlight, task, db, idb, responses>>

\* The page is reloaded: memory, locks and unfinished requests are gone.
Reload ==
  /\ PersistOffline /\ page = "ready"
  /\ May("reload") /\ Spend
  /\ page' = "restoring"
  /\ queue' = {} /\ tracked' = {} /\ processed' = {} /\ acc' = {}
  /\ rid' = NoId /\ bootstrap' = FALSE /\ display' = NoDisplay
  /\ surfaced' = "none" /\ syncRef' = FALSE
  /\ syncing' = FALSE /\ inFlight' = FALSE
  /\ task' = [t \in Tasks |-> IdleTask] /\ idb' = <<>>
  /\ UNCHANGED <<stored, next, displays, db, responses, online, acked, dropped>>

\* A progress row of a survey that is complete and has nothing pending is discarded.
Complete == PendingCount = 0 /\ MaxAnswers \in progress.acc

\* createDisplay: a restored page without a display asks for a new one.
CreateDisplay(d) ==
  IF Linked /\ online /\ d = NoDisplay
  THEN display' = displays + 1 /\ displays' = displays + 1
  ELSE display' = d /\ UNCHANGED displays

\* No progress to restore: a fresh session with a display of its own.
StartFresh ==
  /\ page = "restoring" /\ (~progress.saved \/ Complete)
  /\ page' = "ready"
  /\ CreateDisplay(NoDisplay)
  /\ progress' = NoProgress
  /\ IF online THEN StartEffect(idb) ELSE UNCHANGED <<task, syncRef, idb>>
  /\ UNCHANGED <<next, acc, outcomes, snap, queue, tracked, processed, rid,
                 bootstrap, syncing, inFlight, db, responses, online, budget>>

\* getResponseIdByDisplayId: the responses of a display; a deleted one took it along.
ResponsesOf(d) == {i \in DOMAIN responses : responses[i].display = d}
Live(ids) == {i \in ids : responses[i].live}

(* The state of the session is restored.  With nothing pending and no id    *)
(* the response is looked up by its display, a request that may fail;       *)
(* unless it is found, the next create is made from the restored state.  A  *)
(* display that is gone is replaced.                                        *)
Restore ==
  /\ page = "restoring" /\ progress.saved /\ ~Complete
  /\ page' = "ready"
  /\ acc' = progress.acc
  /\ \E answered \in BOOLEAN :
       LET unknown == PendingCount = 0 /\ progress.rid = NoId
           ids == IF unknown /\ answered /\ progress.display # NoDisplay
                  THEN ResponsesOf(progress.display) ELSE {}
           found == Live(ids) # {}
           id == IF found THEN First(Live(ids)) ELSE progress.rid
           gone == ids # {} /\ ~found
           patchId == Write("patchId", NoAnswer, id, NoDisplay, {})
           patchDisplay == Write("patchDisplay", NoAnswer, NoId, display', {})
           requests ==
             idb \o (IF found THEN <<patchId>> ELSE <<>>)
                 \o (IF display' # progress.display THEN <<patchDisplay>> ELSE <<>>)
       IN
       /\ answered => online
       /\ CreateDisplay(IF gone THEN NoDisplay ELSE progress.display)
       /\ rid' = id
       /\ bootstrap' = (unknown /\ ~found)
       /\ IF online THEN StartEffect(requests)
          ELSE UNCHANGED <<task, syncRef>> /\ idb' = requests
  /\ UNCHANGED <<next, outcomes, stored, queue, tracked, processed, syncing,
                 inFlight, db, responses, online, budget>>

\* Someone deletes a response on the server.
Delete ==
  /\ May("delete") /\ Spend
  /\ \E i \in DOMAIN responses :
       responses[i].live /\ responses' = [responses EXCEPT ![i].live = FALSE]
  /\ UNCHANGED <<session, outcomes, stored, queue, tracked, processed, rid,
                 bootstrap, syncRef, syncing, inFlight, task, db, idb, online>>

-----------------------------------------------------------------------------
Sending(t) ==
  \/ CleanedUp(t) \/ Counted(t) \/ CountFails(t)
  \/ SendAccepted(t) \/ SendDeferred(t) \/ SendRejected(t)
  \/ RecaptchaFailed(t) \/ BackOff(t) \/ Resend(t) \/ GiveUp(t)
  \/ SentRowRemoved(t)

Syncing(t) ==
  \/ EffectCounted(t) \/ RowsRead(t) \/ ReadFails(t) \/ RowAccepted(t)
  \/ RowRejected(t) \/ Recreate(t) \/ SyncStopped(t) \/ SyncedRowRemoved(t)

Network(t) ==
  \/ ServerHandles(t) \/ ReplyLost(t) \/ RequestFails(t) \/ ServerRefuses(t)

Activation(t) == Sending(t) \/ Syncing(t) \/ Network(t)
Storage == AnswerStored \/ AnswerNotStored \/ ProgressWritten
Page == StartFresh \/ Restore

Next ==
  \/ \E t \in Tasks : Activation(t)
  \/ Storage
  \/ Page
  \/ Submit \/ Retry
  \/ GoOnline \/ GoOffline \/ Reload \/ Delete

Spec == Init /\ [][Next]_vars

(* Suspended activations resume, IndexedDB completes its requests, the page *)
(* is restored; the respondent and the network owe nothing.                 *)
FairSpec ==
  /\ Spec
  /\ \A t \in Tasks : WF_vars(Activation(t))
  /\ WF_vars(Storage)
  /\ WF_vars(Page)

-----------------------------------------------------------------------------
(***************************************************************************)
(* Properties.                                                             *)
(***************************************************************************)
TaskPCs == {"idle", "sending", "replied", "backoff"} \cup DbWaits
Replies == {"none", "ok", "unavailable", "notFound", "rejected", "recaptcha"}

TaskType ==
  [pc : TaskPCs, after : TaskPCs, from : {"app", "retry", "effect"},
   sync : BOOLEAN, cur : Answers \cup {NoAnswer}, attempt : Nat, target : Nat,
   data : SUBSET Answers, reply : Replies, created : Nat,
   todo : SUBSET Answers, gone : SUBSET Answers]

WriteType ==
  [op : {"add"}, answer : Answers, rid : Nat, display : Nat, acc : SUBSET Answers]
    \cup [op : {"save", "patchId", "patchDisplay", "clear"}, answer : {NoAnswer},
          rid : Nat, display : Nat, acc : SUBSET Answers]

\* In idb an activation is told from a write.
ASSUME TasksAssumption == Tasks \cap WriteType = {}

SnapshotType == [rid : Nat, display : Nat]
ProgressType == [saved : BOOLEAN, rid : Nat, display : Nat, acc : SUBSET Answers]

ResponseType ==
  [data : SUBSET Answers, last : Answers \cup {NoAnswer}, live : BOOLEAN,
   display : Nat]

\* Every variable keeps its type.
TypeOK ==
  /\ next \in 1 .. MaxAnswers + 1
  /\ queue \subseteq Answers /\ tracked \subseteq Answers
  /\ processed \subseteq Answers /\ acc \subseteq Answers
  /\ rid \in Nat /\ bootstrap \in BOOLEAN /\ display \in Nat /\ displays \in Nat
  /\ surfaced \in {"none", "retryable", "permanent"}
  /\ page \in {"ready", "restoring"} /\ syncRef \in BOOLEAN
  /\ syncing \in BOOLEAN /\ inFlight \in BOOLEAN
  /\ task \in [Tasks -> TaskType]
  /\ db \subseteq Answers /\ snap \in [Answers -> SnapshotType]
  /\ progress \in ProgressType
  /\ idb \in Seq(WriteType \cup Tasks)
  /\ responses \in Seq(ResponseType)
  /\ online \in BOOLEAN /\ budget \in 0 .. MaxFaults
  /\ acked \subseteq Answers /\ dropped \subseteq Answers

Draining(t) == task[t].sync
SendPCs == {"sending", "replied", "backoff", "removing", "dropping"}
Delivering(t) == ~task[t].sync /\ task[t].pc \in SendPCs
Engaged(t) == Draining(t) \/ Delivering(t)

(* At most one activation is sending: neither two processQueue runs nor a   *)
(* processQueue and a sync ever work on the server at the same time, though *)
(* both suspend between checking the locks and taking them.                 *)
SingleFlight == \A t, u \in Tasks : Engaged(t) /\ Engaged(u) => t = u

(* A lock is held only for an activation that still runs: of the many exits *)
(* of the functions that take the locks, early returns and failures of the  *)
(* server and of storage alike, none leaves one set behind it, which would  *)
(* keep every later answer from being sent.                                 *)
LocksHeld ==
  /\ syncing => \E t \in Tasks : Draining(t)
  /\ inFlight => \E t \in Tasks : Delivering(t)

(* While no reply is lost, no response deleted and the page not reloaded, a *)
(* respondent gets one response row: the second answer never creates        *)
(* another one, whichever of the two senders carries it.                    *)
OneResponse == Len(responses) <= 1

(* No answer vanishes while the page is not reloaded: until the server has  *)
(* accepted or refused it, a given answer is in memory or in IndexedDB,     *)
(* whatever storage does.                                                   *)
AnswersAccountedFor ==
  \A a \in Answers : a < next => a \in queue \cup db \cup acked \cup dropped

(* While storage works and the page is not reloaded, an answer whose        *)
(* acceptance was seen is not sent again, whichever of the two senders      *)
(* holds a copy of it.                                                      *)
AckedNotResent ==
  \A t \in Tasks : task[t].pc = "sending" => task[t].cur \notin acked

(* A row that was handled and could not be deleted stays hidden from every  *)
(* count and every sync until its deletion succeeds, and is not sent again  *)
(* meanwhile.  The hidden rows are known to the page only: after a reload   *)
(* the row is sent once more.                                               *)
HandledRowNotResent ==
  [][\A a \in processed :
       \/ page' = "restoring"
       \/ /\ a \in processed' \/ a \notin db'
          /\ \A t \in Tasks : task'[t].pc = "sending" => task'[t].cur # a]_vars

(* While storage works, a response receives its answers in the order they   *)
(* were given, even when the queue and a sync take turns sending and rows   *)
(* outlive a reload: an older answer never overwrites a newer one.          *)
UpdatesInOrder ==
  [][\A i \in DOMAIN responses : responses[i].last <= responses'[i].last]_vars

(* A row leaves IndexedDB only after the server has accepted or refused its *)
(* answer, across reloads, lost replies and deleted responses.              *)
RowsKeptUntilSettled == [][\A a \in db \ db' : a \in acked \cup dropped]_vars

(* The session forgets its response id only when the page is reloaded or    *)
(* the response is gone from the server: a failed request does not detach   *)
(* the answers that follow from the response they belong to.                *)
IdKeptWhileLive ==
  [][rid # NoId /\ rid' = NoId =>
       page' = "restoring" \/ ~responses[rid].live]_vars

\* Both locks are released in the end: no path out of a send keeps one.
LocksReleased == (syncing ~> ~syncing) /\ (inFlight ~> ~inFlight)

(* Without persistence every answer is settled in the end or an error card  *)
(* is shown.                                                                *)
AnswersResolved ==
  \A a \in Answers : a < next ~> a \in acked \cup dropped \/ surfaced # "none"

(* The queue refines the outbox: answers are settled once and in order.     *)
OutboxStatus ==
  [a \in Answers |-> IF a \in acked THEN "accepted"
                     ELSE IF a \in dropped THEN "refused"
                     ELSE IF a < next THEN "pending" ELSE "ungiven"]
Outbox == INSTANCE AnswerOutbox WITH Count <- MaxAnswers, status <- OutboxStatus
ImplementsOutbox == Outbox!Spec

(* When nothing is left to run while the page is online, every answer has   *)
(* been handled or the respondent sees an error card.                       *)
NothingStranded ==
  page = "ready" /\ online /\ idb = <<>> /\ (\A t \in Tasks : Free(t)) =>
    queue = {} \/ surfaced # "none"

(* A row given up as permanently rejected could never have been accepted:   *)
(* its answer is already on the server, or its response is finished.        *)
DropsOnlyUnacceptable ==
  \A a \in dropped : \E i \in DOMAIN responses :
     a \in responses[i].data \/ IsFinished(responses[i])
=============================================================================
