--------------------------- MODULE ResponseIntake ---------------------------
(***************************************************************************)
(* The server's side of a response: the requests that create, update and   *)
(* delete responses, the quotas evaluated inside their transactions, and   *)
(* the events they hand to the response pipeline                           *)
(* (put-response-handler.ts, lib/response/service.ts, ee/quotas/lib).      *)
(*                                                                         *)
(* Several requests run at once.  A transaction reads committed data only  *)
(* and keeps the row of its response locked from its first write on        *)
(* (PostgreSQL, read committed), so that what it counted can be out of     *)
(* date when it commits.  The data of a response is one answer; a quota    *)
(* accepts some of the answers.                                            *)
(***************************************************************************)
EXTENDS Naturals, Sequences, FiniteSets

CONSTANTS Responses,   \* the ids responses are given
          Answers,     \* the data the quotas tell apart
          NoAnswer,    \* an update that leaves that data as it is
          Quota,       \* the survey's quotas, newest first: the order of evaluation
          Workers,     \* requests served at the same time
          MaxRequests, \* bound: responses created and updated
          MaxUpsets    \* bound: deletions, failed evaluations and deliveries

Quotas == DOMAIN Quota

ASSUME IntakeAssumption ==
  /\ NoAnswer \notin Answers
  /\ MaxUpsets \in Nat /\ MaxRequests \in Nat
  /\ IsFiniteSet(Responses) /\ IsFiniteSet(Workers)
  /\ Answers # {}
  /\ Quota \in Seq([accepts : SUBSET Answers, limit : Nat \ {0},
                    ends : BOOLEAN, partial : BOOLEAN])

VARIABLES rows,     \* the table of responses, each with its quota links
          limit,    \* the limit of each quota; 0 once the quota is deleted
          task,     \* what each worker is doing
          requests, \* creates and updates so far
          upsets    \* deletions and failures so far

vars == <<rows, limit, task, requests, upsets>>

LinkStatus == {"none", "screenedIn", "screenedOut"}

(***************************************************************************)
(* A row.  "evaluated", "quiet" and "reported" are history: the last       *)
(* update's quotas were evaluated; nobody is to be told that the response  *)
(* is finished (a full quota finished it, or the event could not be        *)
(* queued); responseFinished was queued for its last update.               *)
(***************************************************************************)
Row == [status : {"new", "stored", "deleted"}, data : Answers, finished : BOOLEAN,
        links : [Quotas -> LinkStatus],
        evaluated : BOOLEAN, quiet : BOOLEAN, reported : BOOLEAN]

NoLimits == [q \in Quotas |-> 0]
NoLinks == [q \in Quotas |-> "none"]
NewRow == [status |-> "new", data |-> CHOOSE a \in Answers : TRUE, finished |-> FALSE,
           links |-> NoLinks, evaluated |-> TRUE,
           quiet |-> FALSE, reported |-> FALSE]

Idle == [at |-> "idle"]
Task == [at : {"read", "write", "quotas", "count", "link", "report"},
         kind : {"create", "client", "management"}, r : Responses,
         data : Answers \union {NoAnswer}, finished : BOOLEAN,
         known : [Quotas -> Nat], full : SUBSET Quotas]

Init == /\ rows = [r \in Responses |-> NewRow]
        /\ limit = [q \in Quotas |-> Quota[q].limit]
        /\ task = [w \in Workers |-> Idle]
        /\ requests = 0
        /\ upsets = 0

Busy(w) == task[w] # Idle
Works(w, r) == Busy(w) /\ task[w].r = r

\* A transaction that has written its response holds the row until it ends.
Locked(r) == \E w \in Workers :
               Works(w, r) /\ task[w].at \in {"quotas", "count", "link"}

Upset == upsets < MaxUpsets /\ upsets' = upsets + 1

Become(w, t) == task' = [task EXCEPT ![w] = t]
Start(w, at, kind, r, a, f) ==
  /\ task[w] = Idle /\ requests < MaxRequests
  /\ requests' = requests + 1
  /\ Become(w, [at |-> at, kind |-> kind, r |-> r, data |-> a, finished |-> f,
                known |-> NoLimits, full |-> {}])

----------------------------------------------------------------------------
(***************************************************************************)
(* POST: the insert is the transaction's first write; the new id is known  *)
(* to no other request before it commits.                                  *)
(***************************************************************************)
Create(w, r, a, f) ==
  /\ rows[r].status = "new"
  /\ \A v \in Workers : ~Works(v, r)
  /\ Start(w, "quotas", "create", r, a, f)
  /\ UNCHANGED <<rows, limit, upsets>>

\* PUT: the client's endpoint refuses a response already finished, the
\* management endpoint does not look.
Update(w, r, kind, a, f) ==
  /\ rows[r].status = "stored"
  /\ kind = "client" => ~rows[r].finished
  /\ Start(w, "read", kind, r, a, f)
  /\ UNCHANGED <<rows, limit, upsets>>

\* Mutant: the update replaces the data.
Overwritten(old, new) == new

Merged(old, new) == IF new = NoAnswer THEN old ELSE new

\* updateResponse merges the update into the data it reads, without a lock.
Read(w) ==
  LET t == task[w] IN
  /\ t.at = "read"
  /\ Become(w, IF rows[t.r].status = "stored"
               THEN [t EXCEPT !.at = "write",
                              !.data = Merged(rows[t.r].data, @)]
               ELSE Idle)
  /\ UNCHANGED <<rows, limit, requests, upsets>>

\* The write waits for the transaction that holds the row; a row deleted
\* meanwhile is not found, and the transaction is rolled back.
Write(w) ==
  LET t == task[w] IN
  /\ t.at = "write" /\ ~Locked(t.r)
  /\ Become(w, IF rows[t.r].status = "stored"
               THEN [t EXCEPT !.at = "quotas"] ELSE Idle)
  /\ UNCHANGED <<rows, limit, requests, upsets>>

\* getQuotas reads outside the transaction.
GetQuotas(w) ==
  /\ task[w].at = "quotas"
  /\ Become(w, [task[w] EXCEPT !.at = "count", !.known = limit])
  /\ UNCHANGED <<rows, limit, requests, upsets>>

Passed(t) == {q \in Quotas : t.known[q] > 0 /\ t.data \in Quota[q].accepts}

\* The responses that count for quota q.
Counted(q) == {r \in Responses : /\ rows[r].status = "stored"
                                 /\ rows[r].links[q] = "screenedIn"
                                 /\ Quota[q].partial \/ rows[r].finished}

\* Mutant: one response too many.
LateFull(q, t) == Cardinality(Counted(q) \ {t.r}) > t.known[q]

IsFull(q, t) == Cardinality(Counted(q) \ {t.r}) >= t.known[q]

Count(w) ==
  /\ task[w].at = "count"
  /\ Become(w, [task[w] EXCEPT !.at = "link",
                  !.full = {q \in Passed(task[w]) : IsFull(q, task[w])}])
  /\ UNCHANGED <<rows, limit, requests, upsets>>

(***************************************************************************)
(* handleQuotas links the response to the quotas it passes.  The first     *)
(* full quota decides whether the survey ends here; if the response goes   *)
(* on, only quotas that count partial responses get a link.                *)
(***************************************************************************)
Ends(t) == \E q \in t.full : Quota[q].ends /\ \A p \in t.full : q <= p
Linked(t) == {q \in Passed(t) : t.finished \/ Ends(t) \/ Quota[q].partial}

\* Mutants: links to failed quotas are kept; links are overwritten.
KeptLink(q, t, old) ==
  IF q \in Linked(t) /\ q \in t.full THEN "screenedOut"
  ELSE IF q \in Linked(t) /\ old = "none" THEN "screenedIn" ELSE old
Upserted(q, t, old) ==
  IF q \in Linked(t) THEN (IF q \in t.full THEN "screenedOut" ELSE "screenedIn")
  ELSE IF t.known[q] > 0 /\ q \notin Passed(t) THEN "none" ELSE old

NewLink(q, t, old) ==
  IF q \in Linked(t) /\ q \in t.full THEN "screenedOut"
  ELSE IF q \in Linked(t) /\ old = "none" THEN "screenedIn"
  ELSE IF t.known[q] > 0 /\ q \notin Passed(t) THEN "none"
  ELSE old

Links(t, old) == [q \in Quotas |-> NewLink(q, t, old[q])]

Finishes(t) == t.finished \/ Ends(t)

Stored(t, old) ==
  [status |-> "stored", data |-> t.data, finished |-> Finishes(t),
   links |-> Links(t, old.links), evaluated |-> TRUE,
   quiet |-> Ends(t) /\ ~t.finished /\ t.kind # "management",
   reported |-> FALSE]

\* The client's endpoints report the response as it was before the quotas
\* were evaluated, the management endpoint the one read again afterwards.
Result(t) == IF t.kind = "management" THEN Finishes(t) ELSE t.finished

Answer(t, f) == [t EXCEPT !.at = "report", !.data = NoAnswer, !.finished = f,
                          !.known = NoLimits, !.full = {}]

(***************************************************************************)
(* The links are written and the transaction commits.  A link to a quota   *)
(* deleted meanwhile is refused; the error is caught, but the transaction  *)
(* it belongs to can only be rolled back, and the request goes on.         *)
(***************************************************************************)
Commit(w) ==
  LET t == task[w] IN
  /\ t.at = "link"
  /\ IF \A q \in Linked(t) : limit[q] > 0
     THEN /\ rows' = [rows EXCEPT ![t.r] = Stored(t, @)]
          /\ Become(w, Answer(t, Result(t)))
     ELSE /\ Become(w, Answer(t, t.finished))
          /\ UNCHANGED rows
  /\ UNCHANGED <<limit, requests, upsets>>

\* An evaluation that fails outside the transaction leaves the links alone.
EvaluationFails(w) ==
  LET t == task[w] IN
  /\ t.at = "quotas" /\ Upset
  /\ rows' = [rows EXCEPT ![t.r] =
                [@ EXCEPT !.status = "stored", !.data = t.data,
                          !.finished = t.finished, !.evaluated = FALSE,
                          !.quiet = FALSE, !.reported = FALSE]]
  /\ Become(w, Answer(t, t.finished))
  /\ UNCHANGED <<limit, requests>>

----------------------------------------------------------------------------
\* Mutant: only updates report that a response is finished.
OnlyUpdates(t) == t.finished /\ t.kind # "create"

\* responseFinished follows the event of the request itself.
TellsFinished(t) == t.finished

Report(w) ==
  LET t == task[w] IN
  /\ t.at = "report"
  /\ Become(w, Idle)
  /\ rows' = IF TellsFinished(t) THEN [rows EXCEPT ![t.r].reported = TRUE]
                                 ELSE rows
  /\ UNCHANGED <<limit, requests, upsets>>

\* sendToPipeline throws: the request fails after its transaction committed.
ReportFails(w) ==
  /\ task[w].at = "report" /\ Upset
  /\ Become(w, Idle)
  /\ rows' = [rows EXCEPT ![task[w].r].quiet = TRUE]
  /\ UNCHANGED <<limit, requests>>

----------------------------------------------------------------------------
\* deleteResponse; on demand the places it took in quotas go with it.
ReducedLimit(q, r) ==
  IF rows[r].links[q] = "screenedIn" /\ limit[q] > 1
  THEN limit[q] - 1 ELSE limit[q]

DeleteResponse(r, decrementQuotas) ==
  /\ rows[r].status = "stored" /\ ~Locked(r) /\ Upset
  /\ rows' = [rows EXCEPT ![r] = [NewRow EXCEPT !.status = "deleted"]]
  /\ limit' = IF decrementQuotas
              THEN [q \in Quotas |-> ReducedLimit(q, r)] ELSE limit
  /\ UNCHANGED <<task, requests>>

\* deleteQuota: the links to the quota are deleted with it.
DeleteQuota(q) ==
  /\ limit[q] > 0 /\ Upset
  /\ limit' = [limit EXCEPT ![q] = 0]
  /\ rows' = [r \in Responses |-> [rows[r] EXCEPT !.links[q] = "none"]]
  /\ UNCHANGED <<task, requests>>

Request(w) ==
  \E r \in Responses, f \in BOOLEAN :
    \/ \E a \in Answers : Create(w, r, a, f)
    \/ \E kind \in {"client", "management"}, a \in Answers \union {NoAnswer} :
         Update(w, r, kind, a, f)

Step(w) == \/ Read(w) \/ Write(w) \/ GetQuotas(w) \/ Count(w) \/ Commit(w)
           \/ EvaluationFails(w) \/ Report(w) \/ ReportFails(w)

Next == \/ \E w \in Workers : Request(w) \/ (Busy(w) /\ Step(w))
        \/ \E r \in Responses, d \in BOOLEAN : DeleteResponse(r, d)
        \/ \E q \in Quotas : DeleteQuota(q)

Spec == Init /\ [][Next]_vars
----------------------------------------------------------------------------
\* The types of the tables, the tasks and the limits.
TypeOK ==
  /\ rows \in [Responses -> Row]
  /\ limit \in [Quotas -> Nat]
  /\ task \in [Workers -> Task \union {Idle}]
  /\ requests \in 0..MaxRequests
  /\ upsets \in 0..MaxUpsets

(***************************************************************************)
(* A quota is counted outside any lock, so it can be overshot, but by no   *)
(* more than the requests that were served at the same time: every request *)
(* sees what was committed before it counted (handleQuotas).  Responses    *)
(* whose evaluation failed are not counted against it, and the limit is    *)
(* the one the quota started with: requests that have read it before a     *)
(* deletion reduces it go on with the old one.                             *)
(***************************************************************************)
OvershootBounded ==
  \A q \in Quotas : limit[q] > 0 =>
    Cardinality({r \in Counted(q) : rows[r].evaluated})
      <= Quota[q].limit + Cardinality(Workers) - 1

(***************************************************************************)
(* The links of a response agree with the data it ends up with, however    *)
(* its updates overlapped: none to a quota its data fails, one to every    *)
(* quota its data passes and that counts it (upsertResponseQuotaLinks).    *)
(***************************************************************************)
LinksMatch ==
  \A r \in Responses, q \in Quotas :
    (rows[r].status = "stored" /\ rows[r].evaluated /\ limit[q] > 0) =>
      /\ rows[r].links[q] # "none" => rows[r].data \in Quota[q].accepts
      /\ (rows[r].data \in Quota[q].accepts
           /\ (Quota[q].partial \/ rows[r].finished)) =>
            rows[r].links[q] # "none"

(***************************************************************************)
(* Once the requests on it are answered, a finished response has been      *)
(* handed to the pipeline as finished, unless the event could not be       *)
(* queued or a full quota finished it: the client's endpoints report the   *)
(* response as it was before its quotas were evaluated.                    *)
(***************************************************************************)
FinishedReported ==
  \A r \in Responses :
    (rows[r].status = "stored" /\ rows[r].finished
       /\ \A w \in Workers : ~Works(w, r)) =>
      rows[r].reported \/ rows[r].quiet

(***************************************************************************)
(* A response screened out of a quota is not admitted to it later while    *)
(* its answer still qualifies, although places may be freed by deletions:  *)
(* createMany skips the link that exists.                                  *)
(***************************************************************************)
NeverReadmitted ==
  [][\A r \in Responses, q \in Quotas :
       rows[r].links[q] = "screenedOut" => rows'[r].links[q] # "screenedIn"]_vars

============================================================================
