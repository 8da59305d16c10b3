------------------------ MODULE SurveyPipelineProofs ------------------------
(***************************************************************************)
(* Proofs about the life of a survey and its response pipeline, for every  *)
(* number of editors, administrators, responses, days, moves and attempts. *)
(***************************************************************************)
EXTENDS SurveyPipeline, FiniteSetTheorems, TLAPS

\* What a process has in hand: a save whose dates are in order, or a day that
\* has come.
InHand ==
  \A p \in Processes :
    /\ task[p].at = "save" => Ordered(task[p].new)
    /\ task[p].at \in {"publish", "publishing", "close", "closing", "purge"} =>
         task[p].now <= today

ScheduleInv == ScheduleTypeOK /\ DatesOrdered /\ InHand

----------------------------------------------------------------------------
LEMMA TaskKinds ==
  ASSUME NEW t \in Task
  PROVE  /\ t.at = "save" => t \in [at : {"save"}, new : Schedule]
         /\ t.at \in {"publish", "publishing", "close", "closing"} =>
              t \in [at : {"publish", "publishing", "close", "closing"}, now : Dates]
         /\ t.at = "archive" => t \in [at : {"archive"}, was : Statuses]
         /\ t.at = "purge" => t \in [at : {"purge"}, now : Dates]
         /\ t.at = "idle" => t = Idle
BY DEF Task, Idle

LEMMA InitSchedule == ScheduleInit => ScheduleInv
<1> SUFFICES ASSUME ScheduleInit PROVE ScheduleInv
  OBVIOUS
<1>1. ScheduleTypeOK
  BY ScheduleAssumption DEF ScheduleInit, ScheduleTypeOK, Created, Task
<1>2. DatesOrdered
  BY DEF ScheduleInit, DatesOrdered, Created
<1>3. InHand
  BY DEF ScheduleInit, InHand, Idle
<1> QED
  BY <1>1, <1>2, <1>3 DEF ScheduleInv

LEMMA Constants ==
  /\ 0 \in Dates /\ Dates \subseteq Nat
  /\ "paused" \in Statuses /\ "inProgress" \in Statuses /\ "completed" \in Statuses
BY ScheduleAssumption DEF Dates

LEMMA NormalizedType ==
  ASSUME NEW was \in Statuses, NEW s \in Schedule
  PROVE  Normalized(was, s) \in Schedule
BY ScheduleAssumption DEF Schedule, Normalized, Dates

\* One process takes a new task: the others keep theirs.
LEMMA TaskUpdate ==
  ASSUME task \in [Processes -> Task], InHand,
         NEW p \in Processes, NEW t \in Task, Become(p, t),
         today' = today,
         t.at = "save" => Ordered(t.new),
         t.at \in {"publish", "publishing", "close", "closing", "purge"} =>
           t.now <= today
  PROVE  task' \in [Processes -> Task] /\ InHand'
BY DEF Become, InHand

LEMMA QueriedTask ==
  ASSUME NEW t, t.at \in {"publish", "close"},
         t \in [at : {"publish", "publishing", "close", "closing"}, now : Dates]
  PROVE  /\ Queried(t) \in Task
         /\ Queried(t).at # "save"
         /\ Queried(t).at \in {"publish", "publishing", "close", "closing", "purge"} =>
              Queried(t).now = t.now
BY DEF Queried, Task, Idle

----------------------------------------------------------------------------
\* Every action keeps the invariant of the schedule.
LEMMA StepBeginSave ==
  ASSUME ScheduleInv, NEW e \in Editors, BeginSave(e)
  PROVE  ScheduleInv'
<1> USE DEF ScheduleInv
<1>1. e \in Processes
  BY DEF Processes
<1>2. PICK s \in Schedule :
        /\ Accepted(Normalized(survey.status, s))
        /\ Become(e, [at |-> "save", new |-> Normalized(survey.status, s)])
  BY DEF BeginSave
<1>3. Normalized(survey.status, s) \in Schedule
  BY NormalizedType DEF ScheduleTypeOK, Survey
<1>4. [at |-> "save", new |-> Normalized(survey.status, s)] \in Task
  BY <1>3 DEF Task
<1>5. task' \in [Processes -> Task] /\ InHand'
  BY <1>1, <1>2, <1>4, TaskUpdate DEF ScheduleTypeOK, BeginSave, Accepted
<1>6. survey' = survey /\ today' = today /\ moves' \in 0..MaxMoves
  BY ScheduleAssumption DEF BeginSave, Move, ScheduleTypeOK
<1> QED
  BY <1>5, <1>6 DEF ScheduleTypeOK, DatesOrdered, Ordered

LEMMA StepSave ==
  ASSUME ScheduleInv, NEW e \in Editors, Save(e), task[e].at = "save"
  PROVE  ScheduleInv'
<1> USE DEF ScheduleInv
<1>1. e \in Processes /\ task[e].new \in Schedule /\ Ordered(task[e].new)
  BY TaskKinds DEF Processes, ScheduleTypeOK, InHand
<1>2. survey' \in Survey /\ DatesOrdered'
  BY <1>1 DEF Save, ScheduleTypeOK, Survey, Schedule, DatesOrdered, Ordered
<1>3. /\ [at |-> "publish", now |-> today] \in Task
      /\ Idle \in Task
  BY ScheduleAssumption DEF Task, ScheduleTypeOK, Dates
<1>4. task' \in [Processes -> Task] /\ InHand'
  BY <1>1, <1>3, TaskUpdate, ScheduleAssumption
  DEF Save, ScheduleTypeOK, Idle, Become, InHand
<1> QED
  BY <1>2, <1>4 DEF Save, ScheduleTypeOK

LEMMA StepReconcile ==
  ASSUME ScheduleInv, NEW p \in Editors \union {Scheduler},
         RunScheduler \/ Load(p) \/ Apply(p)
  PROVE  ScheduleInv'
<1> USE DEF ScheduleInv
<1>1. p \in Processes /\ Scheduler \in Processes
  BY DEF Processes
<1>2. CASE RunScheduler
  <2> DEFINE t == [at |-> "publish", now |-> today]
  <2>1. t \in [at : {"publish", "publishing", "close", "closing"}, now : Dates]
    BY ScheduleAssumption DEF ScheduleTypeOK, Dates
  <2>2. Queried(t) \in Task /\ Queried(t).at # "save"
        /\ (Queried(t).at \in {"publish", "publishing", "close", "closing", "purge"} =>
              Queried(t).now = today)
    BY <2>1, QueriedTask
  <2>3. Become(Scheduler, Queried(t)) /\ UNCHANGED <<survey, today, moves>>
    BY <1>2 DEF RunScheduler
  <2>4. today <= today
    BY ScheduleAssumption DEF ScheduleTypeOK
  <2> HIDE DEF t
  <2>5. task' \in [Processes -> Task] /\ InHand'
    BY <1>1, <2>2, <2>3, <2>4, TaskUpdate DEF ScheduleTypeOK
  <2> QED
    BY <2>3, <2>5 DEF ScheduleTypeOK, DatesOrdered, Ordered
<1>3. CASE Load(p)
  <2>1. task[p] \in [at : {"publish", "publishing", "close", "closing"}, now : Dates]
        /\ task[p].now <= today
    BY <1>1, <1>3, TaskKinds DEF Load, ScheduleTypeOK, InHand
  <2>2. Queried(task[p]) \in Task /\ Queried(task[p]).at # "save"
        /\ (Queried(task[p]).at \in {"publish", "publishing", "close", "closing", "purge"}
              => Queried(task[p]).now = task[p].now)
    BY <1>3, <2>1, QueriedTask DEF Load
  <2>3. task' \in [Processes -> Task] /\ InHand'
    BY <1>1, <1>3, <2>1, <2>2, TaskUpdate DEF ScheduleTypeOK, Load
  <2> QED
    BY <1>3, <2>3 DEF Load, ScheduleTypeOK, DatesOrdered, Ordered
<1>4. CASE Apply(p)
  <2>1. task[p] \in [at : {"publish", "publishing", "close", "closing"}, now : Dates]
        /\ task[p].now <= today
    BY <1>1, <1>4, TaskKinds DEF Apply, ScheduleTypeOK, InHand
  <2>2. survey' \in Survey /\ DatesOrdered'
    BY <1>4, Constants DEF Apply, Applied, ScheduleTypeOK, Survey, DatesOrdered, Ordered
  <2> DEFINE t == IF task[p].at = "publishing" THEN [task[p] EXCEPT !.at = "close"]
                                               ELSE Idle
  <2>3. t \in Task /\ t.at # "save"
        /\ (t.at \in {"publish", "publishing", "close", "closing", "purge"}
              => t.now <= today)
    BY <2>1 DEF Task, Idle
  <2>4. Become(p, t) /\ UNCHANGED <<today, moves>>
    BY <1>4 DEF Apply
  <2> HIDE DEF t
  <2>5. task' \in [Processes -> Task] /\ InHand'
    BY <1>1, <2>3, <2>4, TaskUpdate DEF ScheduleTypeOK
  <2> QED
    BY <2>2, <2>4, <2>5 DEF ScheduleTypeOK
<1> QED
  BY <1>2, <1>3, <1>4

LEMMA DeletedType == ASSUME ScheduleTypeOK
                     PROVE  Deleted \in Survey /\ Ordered(Deleted)
BY Constants DEF ScheduleTypeOK, Deleted, Survey, Ordered

LEMMA StepAdminister ==
  ASSUME ScheduleInv, NEW a \in Admins, Administer(a)
  PROVE  ScheduleInv'
<1> USE DEF ScheduleInv
<1>1. a \in Processes
  BY DEF Processes
<1>2. CASE BeginArchive(a)
  <2>1. [at |-> "archive", was |-> survey.status] \in Task
    BY DEF Task, ScheduleTypeOK, Survey
  <2>2. task' \in [Processes -> Task] /\ InHand'
    BY <1>1, <1>2, <2>1, TaskUpdate DEF BeginArchive, ScheduleTypeOK
  <2> QED
    BY <1>2, <2>2, ScheduleAssumption
    DEF BeginArchive, Move, ScheduleTypeOK, DatesOrdered, Ordered
<1>3. CASE Archive(a)
  <2>1. Idle \in Task /\ Idle.at = "idle"
    BY DEF Task, Idle
  <2>2. task' \in [Processes -> Task] /\ InHand'
    BY <1>1, <1>3, <2>1, TaskUpdate DEF Archive, ScheduleTypeOK
  <2>3. survey' \in Survey /\ DatesOrdered'
    <3>1. today \in Dates
      BY ScheduleAssumption DEF ScheduleTypeOK, Dates
    <3> QED
      BY <1>3, <3>1, Constants DEF Archive, ScheduleTypeOK, Survey, DatesOrdered, Ordered
  <2> QED
    BY <1>3, <2>2, <2>3 DEF Archive, ScheduleTypeOK
<1>4. CASE SelectExpired(a)
  <2>1. [at |-> "purge", now |-> today] \in Task
    BY ScheduleAssumption DEF Task, ScheduleTypeOK, Dates
  <2>2. task' \in [Processes -> Task] /\ InHand'
    BY <1>1, <1>4, <2>1, TaskUpdate, ScheduleAssumption DEF SelectExpired, ScheduleTypeOK
  <2> QED
    BY <1>4, <2>2 DEF SelectExpired, ScheduleTypeOK, DatesOrdered, Ordered
<1>5. CASE Purge(a)
  <2>1. Idle \in Task /\ Idle.at = "idle"
    BY DEF Task, Idle
  <2>2. task' \in [Processes -> Task] /\ InHand'
    BY <1>1, <1>5, <2>1, TaskUpdate DEF Purge, ScheduleTypeOK
  <2>3. survey' \in Survey /\ DatesOrdered'
    BY <1>5, DeletedType DEF Purge, ScheduleTypeOK, DatesOrdered, Ordered
  <2> QED
    BY <1>5, <2>2, <2>3 DEF Purge, ScheduleTypeOK
<1> QED
  BY <1>2, <1>3, <1>4, <1>5 DEF Administer

LEMMA StepOther ==
  ASSUME ScheduleInv,
         Restore \/ DeleteSurvey \/ NextDay \/ \E p \in Processes : Throws(p)
  PROVE  ScheduleInv'
<1> USE DEF ScheduleInv
<1>1. CASE Restore
  BY <1>1, ScheduleAssumption
  DEF Restore, Move, ScheduleTypeOK, Survey, Dates, DatesOrdered, Ordered, InHand
<1>2. CASE DeleteSurvey
  BY <1>2, DeletedType, ScheduleAssumption
  DEF DeleteSurvey, Move, ScheduleTypeOK, DatesOrdered, Ordered, InHand
<1>3. CASE NextDay
  <2>1. InHand'
    <3> SUFFICES ASSUME NEW p \in Processes,
                        task[p].at \in {"publish", "publishing", "close", "closing", "purge"}
                 PROVE  task[p].now <= today'
      BY <1>3 DEF InHand, NextDay, Ordered
    <3>1. task[p].now \in Nat /\ task[p].now <= today /\ today \in Nat /\ today' = today + 1
      BY <1>3, TaskKinds, ScheduleAssumption DEF InHand, NextDay, ScheduleTypeOK, Dates
    <3> QED
      BY <3>1
  <2>2. today' \in 1..LastDay
    BY <1>3, ScheduleAssumption DEF NextDay, ScheduleTypeOK
  <2> QED
    BY <1>3, <2>1, <2>2 DEF NextDay, ScheduleTypeOK, DatesOrdered, Ordered
<1>4. CASE \E p \in Processes : Throws(p)
  <2>1. PICK p \in Processes : Throws(p)
    BY <1>4
  <2>2. Idle \in Task /\ Idle.at = "idle"
    BY DEF Task, Idle
  <2>3. task' \in [Processes -> Task] /\ InHand'
    BY <2>1, <2>2, TaskUpdate DEF Throws, ScheduleTypeOK
  <2> QED
    BY <2>1, <2>3, ScheduleAssumption
    DEF Throws, Move, ScheduleTypeOK, DatesOrdered, Ordered
<1> QED
  BY <1>1, <1>2, <1>3, <1>4

LEMMA StepSchedule == ASSUME ScheduleInv, ScheduleNext PROVE ScheduleInv'
BY StepBeginSave, StepSave, StepReconcile, StepAdminister, StepOther
DEF ScheduleNext, Edit, Reconcile

----------------------------------------------------------------------------
(***************************************************************************)
(* The jobs.  A job has run its side effects at most once for each of its  *)
(* stalls, and once more when it is past them; its last stall ends it.     *)
(***************************************************************************)
Stages == {"none", "write", "queued", "effects", "complete"} \union Ends

JobRecord ==
  [at : Stages, attempt : 0..MaxAttempts, stalls : 0..MaxStalled + 1,
   count : 0..Cardinality(Responses)]

Bounded(j, n) ==
  /\ j.at # "abandoned" => j.stalls <= MaxStalled
  /\ IF j.at \in {"complete", "done", "skipped"} THEN n <= j.stalls + 1
                                                 ELSE n <= j.stalls

RunsBounded == \A q \in Requests : Bounded(job[q], effects[q])

JobTypes ==
  /\ stored \in [Responses -> {"none", "partial", "finished"}]
  /\ job \in [Requests -> JobRecord]
  /\ effects \in [Requests -> Nat]
  /\ completed \in BOOLEAN

PipelineInv == ScheduleInv /\ JobTypes /\ RunsBounded

LEMMA CountType == ResponseCount \in 0..Cardinality(Responses)
<1> DEFINE S == {r \in Responses : stored[r] # "none"}
<1>1. S \subseteq Responses /\ IsFiniteSet(Responses)
  BY PipelineAssumption
<1>2. /\ IsFiniteSet(S)
      /\ Cardinality(S) <= Cardinality(Responses)
      /\ Cardinality(S) \in Nat /\ Cardinality(Responses) \in Nat
  BY <1>1, FS_Subset, FS_CardinalityType
<1> QED
  BY <1>2 DEF ResponseCount

LEMMA Zeros ==
  /\ 0 \in 0..Cardinality(Responses) /\ 0 \in 0..MaxAttempts /\ 1 \in 0..MaxAttempts
  /\ 0 \in 0..MaxStalled + 1 /\ MaxStalled \in Nat
BY PipelineAssumption, FS_CardinalityType

LEMMA InitPipeline == Init => PipelineInv
<1> SUFFICES ASSUME Init PROVE PipelineInv
  OBVIOUS
<1>1. JobTypes
  BY Zeros DEF Init, JobTypes, JobRecord, Stages, NoJob
<1>2. RunsBounded
  BY Zeros DEF Init, RunsBounded, Bounded, NoJob
<1> QED
  BY <1>1, <1>2, InitSchedule DEF Init, PipelineInv

LEMMA StepOfSchedule ==
  ASSUME PipelineInv, ScheduleNext, UNCHANGED pipelineVars
  PROVE  PipelineInv'
BY StepSchedule DEF PipelineInv, JobTypes, RunsBounded, Bounded, pipelineVars

\* Steps of the pipeline leave the row alone, but for its status and moves.
LEMMA ScheduleKept ==
  ASSUME ScheduleInv, today' = today, task' = task, moves' \in 0..MaxMoves,
         survey' = survey \/ survey' = [survey EXCEPT !.status = "completed"]
  PROVE  ScheduleInv'
BY Constants
DEF ScheduleInv, ScheduleTypeOK, Survey, DatesOrdered, Ordered, InHand

\* A respondent's other steps change one response.
LEMMA StepRespond ==
  ASSUME PipelineInv, NEW r \in Responses, Submit(r) \/ Reopen(r)
  PROVE  PipelineInv'
<1> USE DEF PipelineInv
<1>1. moves' \in 0..MaxMoves
  BY ScheduleAssumption DEF Submit, Reopen, Move, ScheduleInv, ScheduleTypeOK
<1>2. ScheduleInv'
  BY <1>1, ScheduleKept DEF Submit, Reopen
<1>3. JobTypes' /\ RunsBounded'
  BY DEF Submit, Reopen, JobTypes, RunsBounded, Bounded
<1> QED
  BY <1>2, <1>3

\* A step of one job that keeps its own part of the invariant keeps all of it.
LEMMA JobUpdate ==
  ASSUME JobTypes, RunsBounded,
         NEW q \in Requests, NEW j \in JobRecord, NEW n \in Nat, Bounded(j, n),
         job' = [job EXCEPT ![q] = j], effects' = [effects EXCEPT ![q] = n],
         stored' \in [Responses -> {"none", "partial", "finished"}],
         completed' \in BOOLEAN
  PROVE  JobTypes' /\ RunsBounded'
BY DEF JobTypes, RunsBounded, Bounded

\* A step of one job that does not run its side effects.
LEMMA JobMoves ==
  ASSUME JobTypes, RunsBounded,
         NEW q \in Requests, NEW j \in JobRecord, Bounded(j, effects[q]),
         job' = [job EXCEPT ![q] = j], effects' = effects,
         stored' \in [Responses -> {"none", "partial", "finished"}],
         completed' \in BOOLEAN
  PROVE  JobTypes' /\ RunsBounded'
<1>1. effects' = [effects EXCEPT ![q] = effects[q]] /\ effects[q] \in Nat
  BY DEF JobTypes
<1> QED
  BY <1>1, JobUpdate

\* What the steps of a job make of its record.
LEMMA EndedJob ==
  ASSUME NEW j \in JobRecord, NEW n \in Nat, Bounded(j, n), j.at # "abandoned",
         NEW at \in Ends \ {"abandoned"},
         at \in {"skipped", "done"} \/ j.at \notin {"complete", "done", "skipped"}
  PROVE  Ended(j, at) \in JobRecord /\ Bounded(Ended(j, at), n)
<1>1. /\ Ended(j, at).at = at /\ Ended(j, at).stalls = j.stalls
      /\ j.stalls \in 0..MaxStalled + 1 /\ j.stalls \in Nat
  BY Zeros DEF Ended, NoJob, JobRecord
<1>2. Ended(j, at) \in JobRecord
  BY <1>1, Zeros DEF Ended, NoJob, JobRecord, Stages
<1>3. j.stalls <= MaxStalled
  BY DEF Bounded
<1>4. IF at \in {"complete", "done", "skipped"} THEN n <= j.stalls + 1 ELSE n <= j.stalls
  <2>1. CASE j.at \notin {"complete", "done", "skipped"}
    BY <1>1, <2>1 DEF Bounded
  <2>2. CASE at \in {"skipped", "done"}
    BY <1>1, <2>2 DEF Bounded
  <2> QED
    BY <2>1, <2>2
<1> QED
  BY <1>1, <1>2, <1>3, <1>4 DEF Bounded

LEMMA AgainJob ==
  ASSUME NEW j \in JobRecord, NEW n \in Nat, Bounded(j, n), Retried(j), j.at = "queued"
  PROVE  Again(j) \in JobRecord /\ Bounded(Again(j), n)
<1>1. j.attempt + 1 \in 0..MaxAttempts
  BY PipelineAssumption DEF Retried, JobRecord
<1> QED
  BY <1>1 DEF Again, JobRecord, Stages, Bounded

LEMMA StalledJob ==
  ASSUME NEW j \in JobRecord, NEW n \in Nat, Bounded(j, n),
         j.at \in {"effects", "complete"}
  PROVE  Stalled(j) \in JobRecord /\ Bounded(Stalled(j), n)
<1>1. /\ j.stalls \in 0..MaxStalled + 1 /\ j.stalls <= MaxStalled
      /\ j.stalls + 1 \in 0..MaxStalled + 1 /\ n <= j.stalls + 1
  BY Zeros DEF Bounded, JobRecord
<1>2. CASE j.stalls < MaxStalled
  <2> DEFINE k == [j EXCEPT !.at = "queued", !.stalls = j.stalls + 1, !.count = 0]
  <2>1. Stalled(j) = k
    BY <1>2 DEF Stalled
  <2>2. k \in JobRecord /\ k.at = "queued" /\ k.stalls = j.stalls + 1
    BY <1>1, Zeros DEF JobRecord, Stages
  <2>3. j.stalls + 1 <= MaxStalled
    BY <1>1, <1>2, Zeros
  <2> HIDE DEF k
  <2> QED
    BY <1>1, <2>1, <2>2, <2>3 DEF Bounded
<1>3. CASE ~(j.stalls < MaxStalled)
  BY <1>1, <1>3, Zeros DEF Stalled, Ended, NoJob, JobRecord, Stages, Ends, Unserved, Bounded
<1> QED
  BY <1>2, <1>3

LEMMA StepJob ==
  ASSUME PipelineInv, NEW q \in Requests, Receive(q) \/ Process(q) \/ Stalls(q)
  PROVE  PipelineInv'
<1> USE DEF PipelineInv
<1>1. moves' \in 0..MaxMoves
  BY ScheduleAssumption
  DEF Receive, Process, Write, LoadFails, Deliver, DeliveryFails, RunEffects, RunUncounted,
      Complete, CompleteFails, Stalls, Move, ScheduleInv, ScheduleTypeOK, scheduleVars
<1>2. ScheduleInv'
  BY <1>1, ScheduleKept
  DEF Receive, Process, Write, LoadFails, Deliver, DeliveryFails, RunEffects, RunUncounted,
      Complete, CompleteFails, Stalls, scheduleVars
<1>3. job[q] \in JobRecord /\ effects[q] \in Nat /\ Bounded(job[q], effects[q])
  BY DEF JobTypes, RunsBounded
<1>4. /\ stored \in [Responses -> {"none", "partial", "finished"}]
      /\ completed \in BOOLEAN /\ q[1] \in Responses
  BY PipelineAssumption DEF JobTypes
<1>5. SUFFICES JobTypes' /\ RunsBounded'
  BY <1>2
<1>6. CASE Receive(q)
  <2> DEFINE j == [job[q] EXCEPT !.at = "write"]
  <2>1. job' = [job EXCEPT ![q] = j] /\ effects' = effects /\ job[q].at = "none"
        /\ stored' = stored /\ completed' = completed
    BY <1>6 DEF Receive, Goto, JobTypes
  <2>2. j \in JobRecord /\ Bounded(j, effects[q])
    BY <1>3, <2>1 DEF JobRecord, Stages, Bounded
  <2> HIDE DEF j
  <2> QED
    BY <1>4, <2>1, <2>2, JobMoves
<1>7. CASE Write(q)
  <2>1. /\ job[q].at = "write" /\ effects' = effects /\ completed' = completed
        /\ stored' \in [Responses -> {"none", "partial", "finished"}]
    BY <1>4, <1>7 DEF Write
  <2>2. CASE Queue(q)
    <3> DEFINE j == [job[q] EXCEPT !.at = "queued", !.attempt = 1]
    <3>1. job' = [job EXCEPT ![q] = j]
      BY <2>2 DEF Queue, JobTypes
    <3>2. j \in JobRecord /\ Bounded(j, effects[q])
      BY <1>3, <2>1, Zeros DEF JobRecord, Stages, Bounded
    <3> HIDE DEF j
    <3> QED
      BY <1>4, <2>1, <3>1, <3>2, JobMoves
  <2>3. CASE Goto(q, "answered")
    <3> DEFINE j == [job[q] EXCEPT !.at = "answered"]
    <3>1. job' = [job EXCEPT ![q] = j]
      BY <2>3 DEF Goto, JobTypes
    <3>2. j \in JobRecord /\ Bounded(j, effects[q])
      BY <1>3, <2>1, Zeros DEF JobRecord, Stages, Ends, Bounded
    <3> HIDE DEF j
    <3> QED
      BY <1>4, <2>1, <3>1, <3>2, JobMoves
  <2> QED
    BY <1>7, <2>2, <2>3 DEF Write
<1>8. CASE LoadFails(q) \/ DeliveryFails(q)
  <2>1. /\ job[q].at = "queued" /\ effects' = effects /\ stored' = stored
        /\ completed' = completed
    BY <1>8 DEF LoadFails, DeliveryFails
  <2>2. CASE Retried(job[q])
    <3>1. job' = [job EXCEPT ![q] = Again(job[q])]
      BY <1>8, <2>2 DEF LoadFails, DeliveryFails
    <3> QED
      BY <1>3, <1>4, <2>1, <2>2, <3>1, AgainJob, JobMoves
  <2>3. CASE ~Retried(job[q]) /\ LoadFails(q)
    <3>1. job' = [job EXCEPT ![q] = Ended(job[q], "unloaded")]
      BY <2>3 DEF LoadFails
    <3>2. "unloaded" \in Ends \ {"abandoned"}
      BY DEF Ends, Unserved
    <3> QED
      BY <1>3, <1>4, <2>1, <3>1, <3>2, EndedJob, JobMoves
  <2>4. CASE ~Retried(job[q]) /\ DeliveryFails(q)
    <3>1. job' = [job EXCEPT ![q] = LastFailure(job[q])]
      BY <2>4 DEF DeliveryFails
    <3>2. LastFailure(job[q]) \in JobRecord /\ Bounded(LastFailure(job[q]), effects[q])
      BY <1>3, <2>1 DEF LastFailure, JobRecord, Stages, Bounded
    <3> QED
      BY <1>3, <1>4, <2>1, <3>1, <3>2, JobMoves
  <2> QED
    BY <1>8, <2>2, <2>3, <2>4
<1>9. CASE Deliver(q)
  <2>1. /\ job[q].at = "queued" /\ effects' = effects /\ stored' = stored
        /\ completed' = completed
    BY <1>9 DEF Deliver
  <2>2. CASE survey.exists
    <3> DEFINE j == [job[q] EXCEPT !.at = "effects"]
    <3>1. job' = [job EXCEPT ![q] = j]
      BY <1>9, <2>2 DEF Deliver
    <3>2. j \in JobRecord /\ Bounded(j, effects[q])
      BY <1>3, <2>1 DEF JobRecord, Stages, Bounded
    <3> HIDE DEF j
    <3> QED
      BY <1>4, <2>1, <3>1, <3>2, JobMoves
  <2>3. CASE ~survey.exists
    <3>1. job' = [job EXCEPT ![q] = Ended(job[q], "gone")]
      BY <1>9, <2>3 DEF Deliver
    <3>2. "gone" \in Ends \ {"abandoned"}
      BY DEF Ends, Unserved
    <3> QED
      BY <1>3, <1>4, <2>1, <3>1, <3>2, EndedJob, JobMoves
  <2> QED
    BY <2>2, <2>3
<1>10. CASE RunEffects(q) \/ RunUncounted(q)
  <2>1. PICK count \in 0..Cardinality(Responses) : Ran(q, count)
    BY <1>10, CountType, Zeros DEF RunEffects, RunUncounted
  <2> DEFINE j == [job[q] EXCEPT !.at = "complete", !.count = count]
             n == effects[q] + 1
  <2>2. /\ job[q].at = "effects" /\ stored' = stored /\ completed' = completed
        /\ job' = [job EXCEPT ![q] = j] /\ effects' = [effects EXCEPT ![q] = n]
    BY <1>10, <2>1 DEF RunEffects, RunUncounted, Ran, JobTypes
  <2>3. n \in Nat /\ job[q].stalls \in Nat
    BY <1>3 DEF JobRecord
  <2>4. j \in JobRecord /\ j.at = "complete" /\ j.stalls = job[q].stalls
    BY <1>3 DEF JobRecord, Stages
  <2>5. job[q].stalls <= MaxStalled /\ n <= job[q].stalls + 1
    BY <1>3, <2>2, <2>3 DEF Bounded
  <2>6. Bounded(j, n)
    BY <2>4, <2>5 DEF Bounded
  <2> HIDE DEF j, n
  <2> QED
    BY <1>4, <2>2, <2>3, <2>4, <2>6, JobUpdate
<1>11. CASE Complete(q) \/ CompleteFails(q)
  <2>1. /\ job[q].at = "complete" /\ effects' = effects /\ stored' = stored
        /\ completed' \in BOOLEAN
    BY <1>4, <1>11 DEF Complete, CompleteFails
  <2>2. PICK at \in {"skipped", "done"} : job' = [job EXCEPT ![q] = Ended(job[q], at)]
    BY <1>11 DEF Complete, CompleteFails, Caught
  <2>3. at \in Ends \ {"abandoned"}
    BY DEF Ends
  <2> QED
    BY <1>3, <1>4, <2>1, <2>2, <2>3, EndedJob, JobMoves
<1>12. CASE Stalls(q)
  <2>1. /\ job[q].at \in {"effects", "complete"} /\ effects' = effects
        /\ stored' = stored /\ completed' = completed
        /\ job' = [job EXCEPT ![q] = Stalled(job[q])]
    BY <1>12 DEF Stalls
  <2> QED
    BY <1>3, <1>4, <2>1, StalledJob, JobMoves
<1> QED
  BY <1>6, <1>7, <1>8, <1>9, <1>10, <1>11, <1>12 DEF Process

LEMMA Stutter == ASSUME PipelineInv, UNCHANGED vars PROVE PipelineInv'
BY DEF PipelineInv, ScheduleInv, ScheduleTypeOK, DatesOrdered, Ordered, InHand, JobTypes,
       RunsBounded, Bounded, vars, scheduleVars, pipelineVars

LEMMA Invariant == Spec => []PipelineInv
<1>1. PipelineInv /\ [Next]_vars => PipelineInv'
  BY StepOfSchedule, StepRespond, StepJob, Stutter DEF Next
<1> QED
  BY <1>1, InitPipeline, PTL DEF Spec

----------------------------------------------------------------------------
\* Each job runs its side effects at most once, and once more for each of its
\* workers that died, whatever fails in it, and never more than MaxStalled + 1
\* times.
THEOREM EffectsOnceTheorem == Spec => []EffectsOnce
<1>1. PipelineInv => EffectsOnce
  <2> SUFFICES ASSUME PipelineInv, NEW q \in Requests
               PROVE  effects[q] <= 1 + job[q].stalls /\ effects[q] <= 1 + MaxStalled
    BY DEF EffectsOnce
  <2>1. /\ effects[q] \in Nat /\ job[q].stalls \in 0..MaxStalled + 1 /\ MaxStalled \in Nat
        /\ Bounded(job[q], effects[q])
    BY PipelineAssumption DEF PipelineInv, JobTypes, JobRecord, RunsBounded
  <2> QED
    BY <2>1 DEF Bounded
<1> QED
  BY <1>1, Invariant, PTL

\* The variables have their types; the runs of the side effects are bounded by
\* the stalls a job may have.
THEOREM TypeTheorem == Spec => []TypeOK
<1>1. PipelineInv => TypeOK
  <2> SUFFICES ASSUME PipelineInv PROVE effects \in [Requests -> 0..MaxStalled + 1]
    BY DEF PipelineInv, ScheduleInv, JobTypes, JobRecord, Stages, TypeOK
  <2> SUFFICES ASSUME NEW q \in Requests PROVE effects[q] \in 0..MaxStalled + 1
    BY DEF PipelineInv, JobTypes
  <2>1. /\ effects[q] \in Nat /\ job[q].stalls \in 0..MaxStalled + 1 /\ MaxStalled \in Nat
        /\ Bounded(job[q], effects[q])
    BY PipelineAssumption DEF PipelineInv, JobTypes, JobRecord, RunsBounded
  <2> QED
    BY <2>1 DEF Bounded
<1> QED
  BY <1>1, Invariant, PTL

\* A survey's dates stay in order whatever interleaves.
THEOREM DatesTheorem == Spec => []DatesOrdered
BY Invariant, PTL DEF PipelineInv, ScheduleInv

\* A transition of a reconciliation is due, on a survey that is not archived,
\* when it is made.
THEOREM TransitionsTheorem == Spec => TransitionsCurrent
<1> DEFINE A == \A p \in Editors \union {Scheduler} :
       (task[p].at \in {"publishing", "closing"} /\ task'[p] # task[p]
        /\ survey' # survey) =>
         /\ survey.exists /\ survey.archivedAt = 0
         /\ \/ survey.status = "paused" /\ survey.publishOn \in 1..today
            \/ survey.status = "inProgress" /\ survey.closeOn \in 1..today
<1>1. PipelineInv /\ [Next]_vars => [A]_scheduleVars
  <2> SUFFICES ASSUME PipelineInv, Next,
                      NEW p \in Editors \union {Scheduler},
                      task[p].at \in {"publishing", "closing"},
                      task'[p] # task[p], survey' # survey
               PROVE  /\ survey.exists /\ survey.archivedAt = 0
                      /\ \/ survey.status = "paused" /\ survey.publishOn \in 1..today
                         \/ survey.status = "inProgress" /\ survey.closeOn \in 1..today
    BY DEF vars
  <2>1. p \in Processes /\ p \notin Admins /\ task \in [Processes -> Task]
    BY ScheduleAssumption DEF Processes, PipelineInv, ScheduleInv, ScheduleTypeOK
  <2>2. ScheduleNext
    BY DEF Next, Submit, Reopen, Receive, Process, Write, LoadFails, Deliver, DeliveryFails,
           Ran, RunEffects, RunUncounted, Complete, CompleteFails, Stalls, scheduleVars
  <2>3. Apply(p)
    <3>1. ASSUME NEW q \in Processes, q # p, NEW t, Become(q, t) PROVE FALSE
      BY <2>1, <3>1 DEF Become
    <3>2. ASSUME NEW e \in Editors, Save(e), task[e].at = "save" PROVE FALSE
      BY <2>1, <3>1, <3>2 DEF Save, Processes
    <3>3. ASSUME NEW q \in Editors \union {Scheduler}, Apply(q) PROVE Apply(p)
      BY <2>1, <3>1, <3>3 DEF Apply, Processes
    <3>4. ASSUME NEW a \in Admins, Archive(a) \/ Purge(a) PROVE FALSE
      BY <2>1, <3>1, <3>4 DEF Archive, Purge, Processes
    <3>5. ~(Restore \/ DeleteSurvey)
      BY DEF Restore, DeleteSurvey
    <3> QED
      BY <2>2, <3>2, <3>3, <3>4, <3>5
      DEF ScheduleNext, Edit, BeginSave, Reconcile, Load, RunScheduler, Administer,
          BeginArchive, SelectExpired, Throws, NextDay
  <2>4. /\ task[p] \in [at : {"publish", "publishing", "close", "closing"}, now : Dates]
        /\ task[p].now <= today
    BY <2>1, TaskKinds DEF PipelineInv, ScheduleInv, InHand
  <2>5. survey \in Survey /\ today \in Nat
    BY ScheduleAssumption DEF PipelineInv, ScheduleInv, ScheduleTypeOK
  <2> QED
    BY <2>3, <2>4, <2>5, ScheduleAssumption
    DEF Apply, StillDue, PublishDue, CloseDue, IsDue, Archived, Survey, Dates
<1> QED
  BY <1>1, Invariant, PTL DEF Spec, TransitionsCurrent

\* The purge deletes only a survey that is archived and expired at that moment.
THEOREM PurgeTheorem == Spec => PurgedOnlyExpired
<1> DEFINE A == \A a \in Admins :
       (task[a].at = "purge" /\ task'[a] = Idle
        /\ survey.exists /\ ~survey'.exists) =>
         survey.archivedAt # 0 /\ survey.archivedAt + Retention < today
<1>1. PipelineInv /\ [Next]_vars => [A]_scheduleVars
  <2> SUFFICES ASSUME PipelineInv, Next, NEW a \in Admins, task[a].at = "purge",
                      task'[a] = Idle, survey.exists, ~survey'.exists
               PROVE  survey.archivedAt # 0 /\ survey.archivedAt + Retention < today
    BY DEF vars
  <2>1. a \in Processes /\ a \notin Editors \union {Scheduler}
        /\ task \in [Processes -> Task] /\ task'[a] # task[a] /\ survey' # survey
    BY ScheduleAssumption DEF Processes, PipelineInv, ScheduleInv, ScheduleTypeOK, Idle
  <2>2. ScheduleNext
    BY <2>1 DEF Next, Submit, Reopen, Receive, Process, Write, LoadFails, Deliver, DeliveryFails,
           Ran, RunEffects, RunUncounted, Complete, CompleteFails, Stalls, scheduleVars
  <2>3. Purge(a)
    <3>1. ASSUME NEW q \in Processes, q # a, NEW t, Become(q, t) PROVE FALSE
      BY <2>1, <3>1 DEF Become
    <3>2. ASSUME NEW e \in Editors, Save(e), task[e].at = "save" PROVE FALSE
      BY <2>1, <3>1, <3>2 DEF Save, Processes
    <3>3. ASSUME NEW q \in Editors \union {Scheduler}, Apply(q) PROVE FALSE
      BY <2>1, <3>1, <3>3 DEF Apply, Processes
    <3>4. ASSUME NEW b \in Admins, Archive(b) \/ Purge(b) PROVE Purge(a)
      BY <2>1, <3>1, <3>4 DEF Archive, Purge, Processes
    <3>5. ~(Restore \/ DeleteSurvey)
      BY <2>1 DEF Restore, DeleteSurvey
    <3> QED
      BY <2>1, <2>2, <3>2, <3>3, <3>4, <3>5
      DEF ScheduleNext, Edit, BeginSave, Reconcile, Load, RunScheduler, Administer,
          BeginArchive, SelectExpired, Throws, NextDay
  <2>4. /\ task[a] \in [at : {"purge"}, now : Dates]
        /\ task[a].now <= today
    BY <2>1, TaskKinds DEF PipelineInv, ScheduleInv, InHand
  <2>5. survey \in Survey /\ today \in Nat
    BY ScheduleAssumption DEF PipelineInv, ScheduleInv, ScheduleTypeOK
  <2> QED
    BY <2>3, <2>4, <2>5, ScheduleAssumption
    DEF Purge, Purgeable, Expired, Archived, Survey, Dates
<1> QED
  BY <1>1, Invariant, PTL DEF Spec, PurgedOnlyExpired
============================================================================
