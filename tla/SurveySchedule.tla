--------------------------- MODULE SurveySchedule ---------------------------
(***************************************************************************)
(* The life of one survey's row: the users that save it, the daily job     *)
(* that publishes and closes surveys on their dates, archiving, restoring, *)
(* the purge of archived surveys and their deletion                        *)
(* (survey-scheduling.ts, lib/survey/service.ts, modules/survey/lib,       *)
(* process-survey-archive-purge-job.ts, api/v3/surveys/patch.ts).          *)
(*                                                                         *)
(* Each of them reads the row first and writes it later; another may have  *)
(* written in between.  Dates are days, 0 stands for null.                 *)
(***************************************************************************)
EXTENDS Naturals, FiniteSets

CONSTANTS Editors,     \* requests that save the survey at the same time
          Scheduler,   \* the worker that runs the scheduling job
          Admins,      \* the archive requests and the purge job
          Statuses,    \* the statuses a survey is given
          LastDay,     \* bound: the last day
          Retention,   \* days an archived survey is kept
          MaxMoves     \* bound: what users do and what fails

ASSUME ScheduleAssumption ==
  /\ Scheduler \notin Editors \union Admins /\ Editors \intersect Admins = {}
  /\ {"paused", "inProgress", "completed"} \subseteq Statuses
  /\ Statuses \subseteq {"draft", "paused", "inProgress", "completed"}
  /\ LastDay \in Nat \ {0} /\ Retention \in Nat /\ MaxMoves \in Nat

VARIABLES survey,   \* the row
          today,    \* the day it is
          task,     \* what each process is doing
          moves     \* what users have done and what has failed so far

scheduleVars == <<survey, today, task, moves>>

Processes == Editors \union Admins \union {Scheduler}
Dates == 0..LastDay
Schedule == [status : Statuses, publishOn : Dates, closeOn : Dates]
Survey == [exists : BOOLEAN, archivedAt : Dates,
           status : Statuses, publishOn : Dates, closeOn : Dates]

Idle == [at |-> "idle"]
Task == {Idle}
        \union [at : {"save"}, new : Schedule]
        \union [at : {"publish", "publishing", "close", "closing"}, now : Dates]
        \union [at : {"archive"}, was : Statuses]
        \union [at : {"purge"}, now : Dates]

\* normalizeSurveyScheduling refuses a close date that is not after the
\* publish date.
Ordered(s) == s.publishOn # 0 /\ s.closeOn # 0 => s.publishOn < s.closeOn

\* The dates are normalised against the status the survey had.
Normalized(was, s) ==
  LET changed == was # s.status
      publishOn == IF changed /\ s.status \in {"inProgress", "completed"}
                   THEN 0 ELSE s.publishOn
      closeOn == IF changed /\ ( \/ s.status = "completed"
                                 \/ s.status = "paused" /\ publishOn = 0 )
                 THEN 0 ELSE s.closeOn
  IN  [status |-> s.status, publishOn |-> publishOn, closeOn |-> closeOn]

\* createSurvey normalises the dates too, against no status.
Created == {s \in Survey :
              /\ s.exists /\ s.archivedAt = 0 /\ Ordered(s)
              /\ Normalized("none", s) =
                   [status |-> s.status, publishOn |-> s.publishOn,
                    closeOn |-> s.closeOn]}

ScheduleInit ==
  /\ survey \in Created
  /\ today = 1
  /\ task = [p \in Processes |-> Idle]
  /\ moves = 0

Move == moves < MaxMoves /\ moves' = moves + 1

Become(p, t) == task' = [task EXCEPT ![p] = t]
Archived == survey.archivedAt # 0

----------------------------------------------------------------------------
(***************************************************************************)
(* Saving.  The dates of the payload are normalised against the status     *)
(* read; v3's patch takes the dates it read for the payload's.             *)
(***************************************************************************)
\* Mutant: the order of the dates is not checked.
AnyPayload(s) == TRUE
Accepted(s) == Ordered(s)

BeginSave(e) ==
  /\ task[e] = Idle /\ Move
  /\ survey.exists /\ ~Archived
  /\ \E s \in Schedule :
       /\ Accepted(Normalized(survey.status, s))
       /\ Become(e, [at |-> "save", new |-> Normalized(survey.status, s)])
  /\ UNCHANGED <<survey, today>>

IsDue(date, day) == date # 0 /\ date <= day

\* The row is written as a whole, archivedAt excepted; a schedule due by now
\* is applied at once.
Save(e) ==
  LET new == task[e].new IN
  /\ task[e].at = "save"
  /\ IF survey.exists
     THEN /\ survey' = [survey EXCEPT !.status = new.status,
                          !.publishOn = new.publishOn, !.closeOn = new.closeOn]
          /\ Become(e, IF IsDue(new.publishOn, today) \/ IsDue(new.closeOn, today)
                       THEN [at |-> "publish", now |-> today] ELSE Idle)
     ELSE Become(e, Idle) /\ UNCHANGED survey
  /\ UNCHANGED <<today, moves>>

----------------------------------------------------------------------------
(***************************************************************************)
(* reconcileDueSurveySchedules: publish, then close; each transition loads *)
(* the surveys it is due for and then updates those for which it still is. *)
(***************************************************************************)
\* Mutant: the day itself is not due yet.
DueLater(day) == survey.exists /\ ~Archived /\ survey.status = "paused"
                 /\ survey.publishOn # 0 /\ survey.publishOn < day
PublishDue(day) == survey.exists /\ ~Archived /\ survey.status = "paused"
                   /\ IsDue(survey.publishOn, day)
CloseDue(day) == survey.exists /\ ~Archived /\ survey.status = "inProgress"
                 /\ IsDue(survey.closeOn, day)

\* The query of a transition: the survey is a candidate or it is not.
Queried(t) ==
  IF t.at = "publish"
  THEN [t EXCEPT !.at = IF PublishDue(t.now) THEN "publishing" ELSE "close"]
  ELSE IF CloseDue(t.now) THEN [t EXCEPT !.at = "closing"] ELSE Idle

\* The scheduling job begins with the first of the queries.
RunScheduler ==
  /\ task[Scheduler] = Idle
  /\ Become(Scheduler, Queried([at |-> "publish", now |-> today]))
  /\ UNCHANGED <<survey, today, moves>>

Load(p) ==
  /\ task[p].at \in {"publish", "close"}
  /\ Become(p, Queried(task[p]))
  /\ UNCHANGED <<survey, today, moves>>

\* Mutant: the update names the survey only.
Loaded(p) == survey.exists
StillDue(p) == IF task[p].at = "publishing" THEN PublishDue(task[p].now)
                                            ELSE CloseDue(task[p].now)

Applied(p) ==
  IF task[p].at = "publishing"
  THEN [survey EXCEPT !.status = "inProgress", !.publishOn = 0]
  ELSE [survey EXCEPT !.status = "completed", !.closeOn = 0]

Apply(p) ==
  /\ task[p].at \in {"publishing", "closing"}
  /\ survey' = IF StillDue(p) THEN Applied(p) ELSE survey
  /\ Become(p, IF task[p].at = "publishing" THEN [task[p] EXCEPT !.at = "close"]
                                            ELSE Idle)
  /\ UNCHANGED <<today, moves>>

----------------------------------------------------------------------------
\* archiveSurvey reads the status in its transaction, without a lock.
BeginArchive(a) ==
  /\ task[a] = Idle /\ Move
  /\ survey.exists /\ ~Archived
  /\ Become(a, [at |-> "archive", was |-> survey.status])
  /\ UNCHANGED <<survey, today>>

Archive(a) ==
  /\ task[a].at = "archive"
  /\ Become(a, Idle)
  /\ survey' = IF survey.exists
               THEN [survey EXCEPT !.archivedAt = today,
                       !.status = IF task[a].was = "inProgress"
                                  THEN "paused" ELSE @]
               ELSE survey
  /\ UNCHANGED <<today, moves>>

Restore ==
  /\ survey.exists /\ Archived /\ Move
  /\ survey' = [survey EXCEPT !.archivedAt = 0]
  /\ UNCHANGED <<today, task>>

----------------------------------------------------------------------------
Deleted == [survey EXCEPT !.exists = FALSE, !.archivedAt = 0, !.status = "paused",
                          !.publishOn = 0, !.closeOn = 0]

Expired(day) == Archived /\ survey.archivedAt + Retention < day

\* The purge job selects the expired surveys, then deletes one by one.
SelectExpired(a) ==
  /\ task[a] = Idle
  /\ survey.exists /\ Expired(today)
  /\ Become(a, [at |-> "purge", now |-> today])
  /\ UNCHANGED <<survey, today, moves>>

\* Mutant: the survey is not looked at again.
Selected(day) == survey.exists
Purgeable(day) == survey.exists /\ Expired(day)

\* deleteSurvey with requireArchivedBefore: the row is locked and checked again.
Purge(a) ==
  /\ task[a].at = "purge"
  /\ survey' = IF Purgeable(task[a].now) THEN Deleted ELSE survey
  /\ Become(a, Idle)
  /\ UNCHANGED <<today, moves>>

DeleteSurvey ==
  /\ survey.exists /\ Move
  /\ survey' = Deleted
  /\ UNCHANGED <<today, task>>

\* A step that throws: a save ends there, the job waits for its next run.
Throws(p) ==
  /\ task[p] # Idle /\ Move
  /\ Become(p, Idle)
  /\ UNCHANGED <<survey, today>>

NextDay ==
  /\ today < LastDay
  /\ today' = today + 1
  /\ UNCHANGED <<survey, task, moves>>

Edit(e) == BeginSave(e) \/ (task[e].at = "save" /\ Save(e))
Reconcile(p) == Load(p) \/ Apply(p)
Administer(a) == BeginArchive(a) \/ Archive(a) \/ SelectExpired(a) \/ Purge(a)

ScheduleNext == \/ \E e \in Editors : Edit(e)
                \/ \E p \in Editors \union {Scheduler} : Reconcile(p)
                \/ \E a \in Admins : Administer(a)
                \/ \E p \in Processes : Throws(p)
                \/ RunScheduler \/ Restore \/ DeleteSurvey \/ NextDay

----------------------------------------------------------------------------
\* The types of the row and of the tasks.
ScheduleTypeOK ==
  /\ survey \in Survey
  /\ today \in 1..LastDay
  /\ task \in [Processes -> Task]
  /\ moves \in 0..MaxMoves

(***************************************************************************)
(* A survey never closes before it is published: whatever saves,           *)
(* transitions and archivings interleave, its dates stay in order.         *)
(***************************************************************************)
DatesOrdered == Ordered(survey)

(***************************************************************************)
(* A transition decided on an old row does not undo what was done since:   *)
(* when a reconciliation changes the survey, the survey is not archived    *)
(* and the transition is due (the conditional update of applyTransition).  *)
(***************************************************************************)
TransitionsCurrent ==
  [][\A p \in Editors \union {Scheduler} :
       (task[p].at \in {"publishing", "closing"} /\ task'[p] # task[p]
        /\ survey' # survey) =>
         /\ survey.exists /\ survey.archivedAt = 0
         /\ \/ survey.status = "paused" /\ survey.publishOn \in 1..today
            \/ survey.status = "inProgress" /\ survey.closeOn \in 1..today]_scheduleVars

(***************************************************************************)
(* The purge never deletes a survey restored after it was selected, nor    *)
(* one archived again since (requireArchivedBefore).                       *)
(***************************************************************************)
PurgedOnlyExpired ==
  [][\A a \in Admins :
       (task[a].at = "purge" /\ task'[a] = Idle
        /\ survey.exists /\ ~survey'.exists) =>
         survey.archivedAt # 0 /\ survey.archivedAt + Retention < today]_scheduleVars
============================================================================
