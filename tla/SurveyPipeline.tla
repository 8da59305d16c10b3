--------------------------- MODULE SurveyPipeline ---------------------------
(***************************************************************************)
(* The requests that finish the responses of a survey and the background   *)
(* job each of them queues (put-response-handler.ts, pipelines.ts,         *)
(* process-response-pipeline-job.ts, packages/jobs), composed with the     *)
(* life of the survey's row: the job completes a survey that has its       *)
(* responses (autoComplete), a survey not in progress takes none.          *)
(*                                                                         *)
(* A request looks at the response, and writes it and queues the job in a  *)
(* later step, so that one response may have several jobs, or none.        *)
(* A job delivers the webhooks first and starts over when one fails, up to *)
(* its last attempt; then it runs the other side effects, whose failures   *)
(* are caught.  A job whose worker dies is taken up again by another, up   *)
(* to the number of stalls that BullMQ allows.                             *)
(***************************************************************************)
EXTENDS SurveySchedule

CONSTANTS Responses,    \* the ids of the responses
          Requests,     \* requests that may finish one: <<r, k>> is the k-th of r
          AutoComplete, \* responses after which the survey completes
          MaxAttempts,  \* attempts of a job
          MaxStalled    \* stalls of a job that BullMQ allows

ASSUME PipelineAssumption ==
  /\ IsFiniteSet(Responses)
  /\ Requests \subseteq Responses \X Nat
  /\ AutoComplete \in Nat \ {0}
  /\ MaxAttempts \in Nat \ {0}
  /\ MaxStalled \in Nat

VARIABLES stored,     \* the responses: "none", "partial" or "finished"
          job,        \* each finishing request, and then the job it queued
          effects,    \* how often each job ran its side effects
          completed   \* autoComplete has completed the survey (history)

pipelineVars == <<stored, job, effects, completed>>
vars == <<scheduleVars, pipelineVars>>

NoJob == [at |-> "none", attempt |-> 0, stalls |-> 0, count |-> 0]

Init == /\ ScheduleInit
        /\ stored = [r \in Responses |-> "none"]
        /\ job = [q \in Requests |-> NoJob]
        /\ effects = [q \in Requests |-> 0]
        /\ completed = FALSE

Goto(q, at) == job' = [job EXCEPT ![q].at = at]

----------------------------------------------------------------------------
Collecting == survey.exists /\ survey.status = "inProgress"

\* No POST has created the response, or is about to.
Fresh(r) == stored[r] = "none" /\ \A q \in Requests : q[1] = r => job[q].at = "none"

\* POST of an unfinished response: the survey must be in progress.
Submit(r) ==
  /\ Collecting /\ Fresh(r) /\ Move
  /\ stored' = [stored EXCEPT ![r] = "partial"]
  /\ UNCHANGED <<survey, today, task, job, effects, completed>>

\* A later update says that the response is not finished: one of the management
\* API, or of a client that overlaps with the finishing one.
Reopen(r) ==
  /\ survey.exists /\ stored[r] = "finished" /\ Move
  /\ stored' = [stored EXCEPT ![r] = "partial"]
  /\ UNCHANGED <<survey, today, task, job, effects, completed>>

\* The client's API: a POST creates, a PUT must find the response unfinished.
\* The management API looks neither at the flag nor at the status.
Accepts(r) == \/ Collecting /\ (Fresh(r) \/ stored[r] = "partial")
              \/ survey.exists /\ stored[r] # "none"

Receive(q) ==
  /\ job[q].at = "none"
  /\ \A p \in Requests : p[1] = q[1] /\ p[2] < q[2] => job[p].at # "none"
  /\ Accepts(q[1]) /\ Move
  /\ Goto(q, "write")
  /\ UNCHANGED <<survey, today, task, stored, effects, completed>>

Queue(q) == job' = [job EXCEPT ![q].at = "queued", ![q].attempt = 1]

\* The transaction does not look at the flag again; then the job is queued.  No
\* job is queued when a full quota finished the response, sendToPipeline throws
\* or the server dies after the transaction.
Write(q) ==
  /\ job[q].at = "write"
  /\ IF survey.exists
     THEN /\ stored' = [stored EXCEPT ![q[1]] = "finished"]
          /\ Queue(q) \/ Goto(q, "answered")
     ELSE Goto(q, "answered") /\ UNCHANGED stored
  /\ UNCHANGED <<scheduleVars, effects, completed>>

----------------------------------------------------------------------------
\* Mutant: one attempt too many.
OnceMore(j) == j.attempt <= MaxAttempts
Retried(j) == j.attempt < MaxAttempts

\* What is kept of a job that has ended: only the properties speak of it.
Ended(j, at) == [NoJob EXCEPT !.at = at, !.stalls = j.stalls]

Again(j) == [j EXCEPT !.at = "queued", !.attempt = @ + 1]

\* The organization, the survey or the webhooks cannot be read: the attempt
\* fails, and the last one drops the job.
LoadFails(q) ==
  /\ job[q].at = "queued" /\ Move
  /\ job' = [job EXCEPT ![q] = IF Retried(@) THEN Again(@) ELSE Ended(@, "unloaded")]
  /\ UNCHANGED <<survey, today, task, stored, effects, completed>>

\* Mutant: the last attempt throws like the others.
Exhausted(j) == Ended(j, "failed")
LastFailure(j) == [j EXCEPT !.at = "effects"]

\* The survey is read and its webhooks called, in one step: nobody tells a
\* worker that dies in between from one that dies after it.  The job of a survey
\* that is gone fails for good.
Deliver(q) ==
  /\ job[q].at = "queued"
  /\ job' = [job EXCEPT ![q] = IF survey.exists THEN [@ EXCEPT !.at = "effects"]
                                               ELSE Ended(@, "gone")]
  /\ UNCHANGED <<scheduleVars, stored, effects, completed>>

\* Some webhook fails: the job throws and starts over, or goes on without.
DeliveryFails(q) ==
  /\ job[q].at = "queued" /\ survey.exists /\ Move
  /\ job' = [job EXCEPT ![q] = IF Retried(@) THEN Again(@) ELSE LastFailure(@)]
  /\ UNCHANGED <<survey, today, task, stored, effects, completed>>

\* getResponseCountBySurveyId counts partial responses too.
ResponseCount == IF survey.exists
                 THEN Cardinality({r \in Responses : stored[r] # "none"}) ELSE 0

Ran(q, count) ==
  /\ job[q].at = "effects"
  /\ job' = [job EXCEPT ![q].at = "complete", ![q].count = count]
  /\ effects' = [effects EXCEPT ![q] = @ + 1]

RunEffects(q) == /\ Ran(q, ResponseCount)
                 /\ UNCHANGED <<scheduleVars, stored, completed>>

\* The count cannot be read (null, 0 here): the effects run without it.
RunUncounted(q) == /\ Ran(q, 0) /\ Move
                   /\ UNCHANGED <<survey, today, task, stored, completed>>

\* Mutant: one response too many is awaited.
MoreThan(count) == count > AutoComplete
Reached(count) == count >= AutoComplete

\* Mutant: a failing completion fails the job, which starts over.
Thrown(j) == IF Retried(j) THEN Again(j) ELSE Ended(j, "failed")

\* A failing completion is logged, and the job ends.
Caught(j) == Ended(j, "skipped")

\* handleSurveyAutoCompleteSafely writes the status whatever it was.
Complete(q) ==
  /\ job[q].at = "complete"
  /\ IF Reached(job[q].count)
     THEN /\ survey.exists
          /\ survey' = [survey EXCEPT !.status = "completed"] /\ completed' = TRUE
     ELSE UNCHANGED <<survey, completed>>
  /\ job' = [job EXCEPT ![q] = Ended(@, IF @.count = 0 THEN "skipped" ELSE "done")]
  /\ UNCHANGED <<today, task, moves, stored, effects>>

\* The survey's update fails, as it does when the survey is gone.
CompleteFails(q) ==
  /\ job[q].at = "complete" /\ Reached(job[q].count)
  /\ IF survey.exists THEN Move ELSE UNCHANGED moves
  /\ job' = [job EXCEPT ![q] = Caught(@)]
  /\ UNCHANGED <<survey, today, task, stored, effects, completed>>

\* A stalled job starts over, or fails for good when it has stalled too often.
Stalled(j) == LET k == [j EXCEPT !.at = "queued", !.stalls = @ + 1, !.count = 0]
              IN  IF j.stalls < MaxStalled THEN k ELSE Ended(k, "abandoned")

\* The worker dies.
Stalls(q) ==
  /\ job[q].at \in {"effects", "complete"} /\ Move
  /\ job' = [job EXCEPT ![q] = Stalled(@)]
  /\ UNCHANGED <<survey, today, task, stored, effects, completed>>

Process(q) == \/ Write(q) \/ LoadFails(q) \/ Deliver(q) \/ DeliveryFails(q)
              \/ RunEffects(q) \/ RunUncounted(q) \/ Complete(q) \/ CompleteFails(q)

Next == \/ ScheduleNext /\ UNCHANGED pipelineVars
        \/ \E r \in Responses : Submit(r) \/ Reopen(r)
        \/ \E q \in Requests : Receive(q) \/ Process(q) \/ Stalls(q)

(***************************************************************************)
(* The scheduling job runs every day and goes on to its end; a request     *)
(* that has begun ends; jobs are worked off, and each of their reads,      *)
(* deliveries and writes either succeeds or fails.  Nothing makes users or *)
(* respondents act.                                                        *)
(***************************************************************************)
Fairness ==
  /\ WF_vars((RunScheduler \/ Reconcile(Scheduler)) /\ UNCHANGED pipelineVars)
  /\ \A q \in Requests : WF_vars(Process(q))

Spec == Init /\ [][Next]_vars
FairSpec == Spec /\ Fairness

----------------------------------------------------------------------------
\* How a job or its request may end without having done all of its work.
Unserved == {"gone", "unloaded", "abandoned"}
Ends == Unserved \union {"answered", "skipped", "done"}

\* The types of the responses, the requests and the jobs.
TypeOK ==
  /\ ScheduleTypeOK
  /\ stored \in [Responses -> {"none", "partial", "finished"}]
  /\ job \in [Requests ->
        [at : {"none", "write", "queued", "effects", "complete"}
                \union Ends,
         attempt : 0..MaxAttempts, stalls : 0..MaxStalled + 1,
         count : 0..Cardinality(Responses)]]
  /\ effects \in [Requests -> 0..MaxStalled + 1]
  /\ completed \in BOOLEAN

(***************************************************************************)
(* Whatever fails in a job, on whichever attempt, its side effects run at  *)
(* most once, and once more for every worker that died after running them. *)
(* This is about one job: overlapping requests that finish a response, and *)
(* updates of the management API, queue one each.                          *)
(***************************************************************************)
EffectsOnce ==
  \A q \in Requests : effects[q] <= 1 + job[q].stalls /\ effects[q] <= 1 + MaxStalled

(***************************************************************************)
(* The side effects of every queued job run, even if its webhooks never    *)
(* accept a delivery: only a survey that is gone, reads that fail on the   *)
(* last attempt and too many dead workers keep them from running.          *)
(***************************************************************************)
Waiting == {q \in Requests : /\ job[q].at \notin {"none", "write", "answered"} \union Unserved
                              /\ effects[q] = 0}
EffectsRun == (Waiting # {}) ~> (Waiting = {})

(***************************************************************************)
(* A survey that has the responses it asked for when a job is queued       *)
(* completes: of two responses that finish at once, the job of the one     *)
(* written last counts both.  The job fails to do so only if it is not     *)
(* served, or the count or the survey's update fails, which ends the job.  *)
(***************************************************************************)
Enough == Cardinality({r \in Responses : stored[r] = "finished"}) >= AutoComplete

AutoCompletes ==
  \A q \in Requests :
    (job[q].at = "queued" /\ Enough)
      ~> (completed \/ ~survey.exists \/ job[q].at \in Unserved \union {"skipped"})

(***************************************************************************)
(* A schedule that is due is applied, or taken back, whoever saves,        *)
(* archives or restores the survey meanwhile.                              *)
(***************************************************************************)
Overdue == /\ survey.exists /\ survey.archivedAt = 0
           /\ \/ survey.status = "paused" /\ survey.publishOn \in 1..today
              \/ survey.status = "inProgress" /\ survey.closeOn \in 1..today
SchedulesApplied == Overdue ~> ~Overdue
============================================================================
