# Verification of the FormaiLab / AI LAB Survey repository

The repository is a TypeScript monorepo (a fork of Formbricks) that lets teams build
surveys, show them in web pages, apps and links, collect answers, and import survey
definitions (the "AI LAB" part). This directory holds TLA+ models of its stateful
parts, the TLC runs that check them on small instances, and TLAPS proofs of the
results that hold for every instance. File names below are relative to `src/`.

## 1. Inventory

| Part | State it keeps | Operations | Interacts with | What makes it hard | What must hold |
|---|---|---|---|---|---|
| **Response queue** `packages/surveys/src/lib/response-queue.ts`, `offline-storage.ts`, `survey-state.ts`, `api-client.ts` | in-memory queue, row ids, handled rows, accumulated answers, response id, display id, two module-level locks; IndexedDB rows and progress | add, processQueue, sendResponseWithRetry, syncPersistedResponses, cleanup of rows | the page's effects (callbacks), IndexedDB, the client endpoints (HTTP) | several suspended async activations, storage failures, lost replies, reloads | one sender at a time; no answer lost, resent or reordered; locks released |
| **Survey page** `packages/surveys/src/components/general/survey.tsx`, `use-online-status.ts` | online flag, restoration flag, error card, current block, history, variables | onSubmit, sync effect, restore effect, createDisplay, retry, onBack | response queue, logic | effects started in any order with the queue's activations; restored state | same as above; going back does not keep answers of another path |
| **Client response endpoints** `apps/web/app/api/v{1,2}/client/.../responses`, `apps/web/lib/response/service.ts`, `apps/web/lib/display/service.ts` | responses, displays | create, update, delete, look-up by display | queue (HTTP), quotas, pipeline | check-then-act outside the transaction, read-merge-write | links follow the stored data, every finished response is reported |
| **Quotas** `apps/web/modules/ee/quotas/lib` | links of responses to quotas | evaluate, screen in, screen out, end the survey | response endpoints (same transaction) | concurrent counts at the limit | overshoot bounded, links consistent with answers, nobody readmitted |
| **Billing** `apps/web/modules/ee/billing/lib`, `api/lib/stripe-webhook.ts`, `actions.ts` | the organization's billing record; subscriptions, schedules, idempotency keys and events at Stripe | set-up, trial, plan change, undo, reconcile, synchronize, webhook, read-through | Stripe (calls and webhooks), organization set-up | several requests and webhooks over a remote state, half-made changes, repeated and old events | nobody without a card is billed, one Hobby subscription, the record agrees with Stripe in the end |
| **AI LAB import and registry** `apps/web/modules/ai-lab-survey` | import jobs, registries, versions, publications | upload and validate, commit, transition, publish | survey compiler, database | serializable retries, replayed uploads, several jobs of one survey | a version is immutable; a job's outcome is stable and matches its version |
| **Survey compiler** `packages/survey-compiler/src` | none (pure), a lifecycle table | parse CSV/workbook, compile, adaptive blocks, lifecycle | import | large documents | only allowed transitions, nothing unresolved is published |
| **Survey scheduling** `apps/web/modules/survey/scheduling/lib` | status, publishOn, closeOn, archivedAt | reconcile (job), normalise (save) | jobs, editor | a due transition against a manual change | dates stay in order, transitions act on the row as it is, due dates are applied |
| **Survey life** `apps/web/modules/survey/lib/surveys.ts`, `modules/survey/archive`, `lib/survey/service.ts` | the survey's row | save, archive, restore, purge, delete | scheduling, pipeline (autoComplete) | a row read, then written after another wrote | a restored survey is not purged, a save does not forget a date |
| **Background jobs** `packages/jobs/src`, **response pipeline** `apps/web/modules/response-pipeline/lib` | queue of jobs, schedules | enqueue, process, retry; webhooks, follow-ups, e-mails, integrations | endpoints, telemetry | at-least-once execution, partial failure | every webhook delivered or given up, side effects once |
| **Telemetry** `telemetry.ts`, **cache** `packages/cache/src`, **license** `apps/web/modules/ee/license-check/lib` | last report, expiring locks, cached result, grace period | tryLock, get, set, del, fetch | Redis, all instances | a lock that expires under its holder | one report per interval, no lapse of an active license |
| **SDK queues and widget** `packages/js-core/src/lib` | pending updates, flush in flight, command queue, isSurveyRunning, timers | setUserId, setAttributes, processUpdates, renderWidget, logout | client API, survey page | updates made during a flush, awaits between flag and use | no update lost, one survey at a time, the widget never blocked for good |
| **Logic and navigation** `packages/surveys/src/lib/logic.ts` | none (pure) | next block, jump, score, recall | survey page | paths that change on going back | progress, no answer outside the path taken |

The rest (editor, contacts and segments, authentication, teams, integrations, storage,
e-mail, rendering, database schema) is listed with its reason in `PROJECT.json`.

## 2. Plan

Built, in order of importance:

1. **ResponseQueue** (with `AnswerOutbox`, `MCResponseQueue`, `ResponseQueueProofs`,
   `ResponseQueueDeliveryProofs`, `ResponseQueueOrderProofs`): the respondent's side of
   delivery, section 3.
2. **ImportCommit** (with `VersionRegistry`, `MCImportCommit`, `ImportCommitProofs`): jobs,
   versions and registry of the AI LAB import, section 4.
3. **ResponseIntake** (with `MCResponseIntake`, `ResponseIntakeProofs`): the server's side
   of a response, with quotas in its transactions, section 5.
4. **SurveySchedule** and **SurveyPipeline**, which extends it (with `MCSurveyPipeline`,
   `SurveyPipelineProofs`): the life of a survey's row composed with the jobs of its
   responses, section 6.
5. **Billing** (with `MCBilling`, `BillingProofs`): an organization's subscriptions at Stripe,
   section 7.

Left, in order:

6. **UpdateQueue**: the SDK's update queue, command queue and widget flag, refining an
   abstract "latest value per attribute reaches the server".
7. **TelemetryLock**, with the license's fetch lock: instances over an expiring lock.
8. **SurveyNavigation**: the block path, going back and restoring.
9. The registry's lifecycle and publication, once an action of the application calls them.

The four models of the server side and the queue share no variables: a request of
ResponseQueue is one step of ServerHandles, whose outcomes ResponseIntake produces step by
step; SurveyPipeline takes of a finishing request only what leads to its jobs.

## 3. ResponseQueue

### State and actions

JavaScript runs one continuation at a time, so an action is the code between two awaits.
`task` holds the suspended activations of processQueue, of syncPersistedResponses and of
the page's sync effect: `pc` is the await they wait at, `sync` says that
syncPersistedResponses runs, `cur` the answer carried. Answers are numbered in the order
given; the queue (FIFO) and the rows (sorted by createdAt) are sets whose head is the
least element, and the last answer finishes the survey.

| Model | Code |
|---|---|
| `queue`, `tracked`, `processed` | `queue`, `pendingDbIds`, `processedDbIdsPendingRemoval` |
| `syncing`, `inFlight` | the module-level maps `syncingBySurvey`, `requestInProgressBySurvey` |
| `rid`, `display`, `bootstrap`, `acc` | `SurveyState` |
| `db`, `snap`, `progress`, `idb` | the two object stores and the order of IndexedDB's requests |
| `responses`, `displays` | the server's rows |
| `Submit`, `AnswerStored`, `AnswerNotStored`, `ProgressWritten` | `onSubmit`, `add` and its `.then`/`.catch` |
| `ProcessQueue`, `Counted`, `CountFails` | `processQueue` up to the send |
| `SendAccepted` .. `SentRowRemoved` | the rest of `processQueue` and `sendResponseWithRetry` |
| `EffectCounted`, `RowsRead` .. `SyncedRowRemoved` | the page's sync effect and `syncPersistedResponses` |
| `ServerHandles`, `ReplyLost`, `RequestFails`, `ServerRefuses` | one HTTP request |
| `GoOnline`, `GoOffline`, `Reload`, `StartFresh`, `Restore`, `Retry`, `Delete` | page events and effects, deletion of a response |

Faults are named in `Faults` and spend from `MaxFaults`: `flicker` (going offline),
`unavailable` (no connection or 5xx), `lostReply` (the request took effect, its reply did
not arrive; also a server that fails after its commit), `reject` (a terminal 4xx),
`recaptcha`, `dbAdd` and `db` (IndexedDB refuses an add; a count, read or delete),
`delete` (someone deletes the response) and `reload`.

### Runs

| Run | Instance | Shows |
|---|---|---|
| `rq_offline` | 4 answers, 2 activations, flicker, unavailable, reject, recaptcha, budget 2 | TypeOK, OneResponse, AnswersAccountedFor, AckedNotResent, the outbox is implemented, LocksReleased |
| `rq_storage` | 3 answers, 3 activations, flicker, dbAdd, db, budget 4 | SingleFlight, LocksHeld, AnswersAccountedFor under storage faults; HandledRowNotResent: a row that was handled and could not be deleted stays hidden and unsent while the page is open |
| `rq_reload` | 3 answers, 3 activations, displays, flicker, reload, lostReply, delete, budget 3 | UpdatesInOrder, RowsKeptUntilSettled, IdKeptWhileLive |
| `rq_memory` | 4 answers, no persistence, budget 4 | AnswersResolved (liveness) |
| `rq_stranded` | no faults | NothingStranded is violated: finding 1 |
| `rq_dropped` | displays, flicker, lostReply | DropsOnlyUnacceptable is violated: finding 2 |

Bounds. Three answers are the least with an old row, a row in flight and a new answer;
the fourth gives a sync something to leave behind. Two or three activations: a sender, the
sync effect and a processQueue waiting to count. When all `Tasks` are suspended no other
activation starts: that is a bound of the model, so a step that must start one is
disabled until one ends. Two attempts exercise a resend and giving up. Displays come into
play in `rq_reload` and `rq_dropped`, where retries and restoration depend on them.
CHECK_DEADLOCK is off everywhere: the respondent finishes and the page then rests.

Which property is claimed under which faults is part of the result; the theorems below
name the faults they exclude, and each exclusion is needed:

- OneResponse: no lost reply, no reload, no deletion. After the first two the code creates
  again what the server has already, which a server without displays cannot tell apart;
  after a deletion it creates anew on purpose.
- AnswersAccountedFor: no reload. A reload forgets an answer whose row is not written yet.
- AckedNotResent and the outbox: working storage and no reload, which comes between the
  reply and the deletion of the row. A lost reply does no harm: the answer stays open.
- UpdatesInOrder: working storage. Otherwise a count issued for an older answer may send a
  newer one before its row is written, leaving the row to be sent again (against the comment
  "start processing only after the DB write completes", response-queue.ts:268-269), and an
  answer whose add failed while offline is overtaken by stored ones.
- HandledRowNotResent: no reload, as the property itself says. The set of handled rows is
  in memory only: a reload empties it, and the row is sent once more.
- SingleFlight, LocksHeld, RowsKeptUntilSettled, IdKeptWhileLive: none.

### Fairness

`FairSpec` is weak fairness of each activation (a resolved promise's continuation runs, a
request ends one way or another, a backoff timer fires), of the completion of IndexedDB
requests and of the page's restoration. Nothing is assumed of the respondent, of the
connection coming back, or of the server accepting. LocksReleased and AnswersResolved hold
under it because every request ends and attempts are bounded.

### Findings

1. An answer added while a sync drains the rows is stranded. `syncPersistedResponses`
   calls processQueue before its `finally` clears the lock that processQueue checks
   (response-queue.ts:484-495), so the "kick off" never does anything.
2. After a lost reply of the first create, the sync drops rows the server would accept:
   the retried create is refused because its display is linked already, the response id
   stays null, and each following row is refused and deleted the same way.

Not stated as runs, but visible in the state graphs: a reconnect while the old sync is
still failing is refused by its lock and nothing starts a sync later; a successful sync
clears the progress row though an answer may be stranded; a response deleted on the server
takes its display along, so the 404 fallback's create is always refused.

### Proofs

Every safety, action and refinement property of the passing runs is proved, for all values
of the constants under `ResponseQueueAssumption` (Tasks need not be finite, MaxFaults is any
number) and `TasksAssumption` (the name of an activation is not a write, so that the two are
told apart in `idb`), which speaks of the model only. Three modules, each extending the one
before.

**`ResponseQueueProofs`: types, locks, rows.**

- `TypeCorrect == Spec => []TypeOK`. TypeOK alone is not inductive: that an activation's
  answer is an answer depends on where it waits. `Shape` adds `ActivationsOK`: every
  activation is well formed (one that sends carries an answer, one that reads runs a sync,
  what follows a cleanup is a count or a read).
- `AtMostOneSender == Spec => []SingleFlight` and `LocksHaveOwners == Spec => []LocksHeld`.
  `LocksOK` joins the two: an activation that drains holds syncing, one that delivers holds
  inFlight, no lock is held without such an activation, both never at once. It is needed
  because the code takes a lock after an await, and only the second check tells that nobody
  took one in between. LocksHeld is the safety half of LocksReleased.
- `RowsOutliveSends == Spec => RowsKeptUntilSettled`. `Settled`: rows awaiting cleanup and
  activations about to delete a row belong to answers accepted or refused. The action
  property follows since every deletion is one of these.

**`ResponseQueueDeliveryProofs`: no answer lost, one response.**

- `HandledRowsStay == Spec => HandledRowNotResent`, an action property: every step but a
  reload keeps a handled row hidden until it is deleted (`HiddenUntilDeleted`), and what is
  being sent is in the queue or is a row that is not hidden. `NoAnswerLost`: without reload,
  `Spec => []AnswersAccountedFor`. Both use `Held`, which follows each answer. `Ledger`: only given answers
  are anywhere; a queued answer that has a row is tracked (its row id is known), so that
  whoever removes the row finds the copy; a processed row has no copy in the queue.
  `Carries`: a processQueue that sends carries the head of the queue; a sync carries rows
  that are not processed, and has handled the answers it will remove from the queue.
  What a sync takes from the queue has therefore been accepted or refused.
- `IdOutlivesFailures == Spec => IdKeptWhileLive`. `Known`: every response id the client
  holds anywhere (session, snapshots, progress row, writes under way, activations) is one the
  server has given out, and a page being restored has no session. An id is then reset only
  by the 404 fallback, and a 404 for the session's own id means that it is gone.
- `OneResponseEach`: under `Undisturbed`, `Spec => []OneResponse`. `Single`: a create is
  under way only while there is no response, and if there is one, the session has its id or
  an activation brings it. With `LocksOK` no second sender starts before the id is adopted.

**`ResponseQueueOrderProofs`: order, and the outbox.**

- `OlderNeverOverwrites`: under `StorageWorks`, `Spec => UpdatesInOrder`. The invariant
  `Sound` adds `Plain` (no processed rows are left over) and `InOrder`, whose parts are what
  the two senders and the order of IndexedDB's requests have to do with each other.
  `Lined`: rows are written in order and after all stored ones; a count that waits sends the
  head of the queue only if its row is written by then, or finds another row's deletion
  behind it and defers to a sync. `Backed`: an answer in memory has its row, will have it, or
  was handled by a sync that has not told the queue yet. `Orderly`: a request carries the
  oldest row, and a sync goes through the rows in order. `Newest`: no response has an answer
  newer than one still to be sent. `OldestIsSent` follows, and with it the property.
- `NotSentTwice`: under `StorageWorks` and without reload, `Spec => []AckedNotResent`. `Once`
  adds that a copy of a handled answer is on its way out: its row is being deleted, or the
  sync that handled it will remove it from the queue (`Outgoing`).
- `QueueIsOutbox`: under the same conditions `Spec => ImplementsOutbox`. Submit maps to Give,
  SendAccepted, SendRejected, RowAccepted and RowRejected to Settle of the answer they carry,
  every other step to a stutter. `EarliestIsSent` shows that the answer settled is the oldest
  open one, as AnswerOutbox demands.

`Latest`, `OvertakenBySend` and the other operators marked "Mutant" are not used by the
specification: each is the changed form of the definition after it, with which the
property named in `PROJECT.json` must fail.

Model-checked only: LocksReleased and AnswersResolved, which are liveness, and the two
findings, which are false.

### Abstractions

- IndexedDB's two object stores share one order of requests; requests of one store keep
  theirs in the browser, and the page issues both from the same code.
- No request of a page that was reloaded arrives later (`lostReply` before the reload
  covers one that took effect).
- The restore effect is one step; the look-up it makes may fail at any time. Its count of
  pending rows does not fail, where the code would take 0 (response-queue.ts:383) and, if
  the survey was finished, discard the progress row; the sync effect's count may fail.
- A display is created when the page is ready, in one step, and only offline it fails; the
  code's request (survey.tsx:355-390) ends later.
- A cleanup deletes all processed rows in one step, the code one per await (182).
- Quota-full screens, the 24 h expiry of rows, deleted blocks and the single-use 409 are
  left out; a 404 of a create (survey gone) behaves like an unavailable server.
- Backoff times are abstracted to "later"; data of an answer is the set of answers it
  carries; `syncRef` is cleared with the end of the effect's last await.

## 4. ImportCommit

### State and actions

| Model | Code |
|---|---|
| `job` | AILabSurveyImportJob: one row per source checksum (the idempotency key), its status, stored canonical survey and version |
| `versions`, `link` | AILabSurveyVersion; AILabSurveyRegistry.surveyId per external id |
| `surveys` | the Survey rows commits created; `live` until deleted |
| `client` | a user's request: between creating the job and recording the validation, or inside a commit with the rows it has read |
| `reads` | what an importer may make of a source: releases may change it between any two uploads |
| `Upload`, `Record` | validateAiLabCsvImportAction: createOrGetImportJob, then recordImportValidation, two separate writes |
| `Begin` | the reads of commitValidatedImport |
| `Refuse`, `Replay`, `Reuse`, `Create` | the four outcomes of prepareValidatedImport and decideImportCommit, with the writes of each |
| `Conflict` | P2034 and withSerializableRetry |
| `DeleteSurvey` | deleteSurvey with the foreign key's `SetNull` |

A commit is a serializable transaction. Its snapshot is taken in `Begin` and its writes
happen in one step, if the rows it writes were not changed in between; otherwise it is
`Conflict`. Two commits of one registry are in conflict because both write its row. A
registry inserted by two commits at once is also treated as a conflict. Uploads and
deletions are not serializable, so what a commit only read may have changed under it: a
`Reuse` may answer with a survey deleted, or a link replaced, a moment before.

`VersionRegistry` is the abstract specification: a log of versions, the version each source
has led to, the survey each external id collects responses with, and what users were
answered. Importing a source is one step there: `Make` the next version of a survey that
has no such version, or `Adopt` one that exists; `Withdraw` is a deletion. A source leads
to one version for good. `ImplementsRegistry` maps `versions` to the log, `job` to the
versions produced (`Produced`), the registry's links to the surveys that collect
(`Current`) and `returned` to the answers (`Answered`). The answers leave the survey out:
which one a replay answers with is finding 3.

A job's checksum is that of its stored canonical survey. A failed reading stores none; the
code leaves the old checksum in its column (service.ts:89), which nothing uses without the
stored survey. Left out: an artifact that does not compile or parse when it is committed
(service.ts:125, a refusal like the others), spurious aborts of a transaction without a
conflict (they are retried like one), and P2002 as an error of its own.

A canonical survey is the pair of its external id and content, which is what its checksum
tells apart; one workspace is modelled, languages created by a commit are left out.

### Runs

| Run | Instance | Shows |
|---|---|---|
| `import_commit` | 2 sources, 2 users, 1 external id, 2 contents, 3 attempts, releases and deletions | TypeOK, JobMatchesVersion, VersionsNumbered, RegistryLinksNewest, ValidatedCommits, JobKeepsVersion, VersionRegistry is implemented |
| `import_replay` | the same with 2 attempts, without releases and deletions | AnswersConsistent is violated: finding 3 |

Bounds. Two users are one commit and whatever interferes with it; two sources give two
jobs of one survey; two contents give a second version; versions and surveys are bounded
by the contents, since a content has one version. One external id is enough because a
commit touches one registry: a source that is read as another survey than before is, for
a job with a version, refused like one with another content. Three attempts are the code's
own number. The specification has no fairness: the properties are safety, and every user
can always upload again, so there is no deadlock.

### Proofs (`ImportCommitProofs`)

All seven properties of `import_commit` hold for any sources, users, survey ids, contents
and number of attempts. The inductive invariant `Inv == Types /\ Rows` says in addition:

- `Snapshots`: what a commit has read is of the right shape, and its versions are a prefix
  of those there now, since versions are only added.
- `Jobs`: a completed job's version is in the registry of the survey the job stores;
  `UniqueIn` and `NumberedIn` are VersionsNumbered for one registry, in a form that a
  `Create` step can be shown to keep from its snapshot; by `Links` a registry with a version
  is linked to a survey unless one was deleted.
- `Create` and `Relink` write only if the registry's row was not changed since `Begin`:
  there the snapshot equals the tables, which is where the proof uses serializability.

JobKeepsVersion follows from `VersionResolved`: a job that has a version resolves to it or
is refused.

`ImportIsRegistry == Spec => ImplementsRegistry`: the moment a commit takes effect is its
write. Create maps to Make (`CreateMakes`), Reuse and Replay to Adopt (`ReuseAdopts`,
`ReplayAdopts`), DeleteSurvey to Withdraw or, if its link was replaced, to a stutter
(`DeleteWithdraws`); everything else stutters. Two more invariants are needed, both inductive
relative to `Inv`. By `Own` no two external ids share a survey, so a deletion withdraws one.
By `ReadVersions` the version a commit read from its job is none or the job's version now; a
replay writes nothing and meets no conflict, so this is what makes its answer current.

Model-checked only: nothing. AnswersConsistent is refuted.

### Finding

3. A completed job is replayed with its own version and the registry's current survey.
   After another source of the survey was committed, committing the first job again
   reports the first version with the second one's survey (service.ts:145); no row links
   a version to the survey compiled from it.

## 5. ResponseIntake

### State and actions

| Model | Code |
|---|---|
| `rows` | the Response table with its ResponseQuotaLink rows; `evaluated`, `quiet`, `reported` are history |
| `limit` | SurveyQuota.limit, 0 once the quota is deleted |
| `task` | the requests being served, each at the call it has come to |
| `Create`, `Update` | POST and PUT up to their transaction; "already finished" is checked before it (put-response-handler.ts:110) |
| `Read`, `Write` | updateResponse: read and merge, then write and lock the row |
| `GetQuotas`, `Count`, `Commit` | evaluateResponseQuotas and handleQuotas, in the transaction: read the quotas, count, write the links |
| `EvaluationFails` | the catch of evaluateResponseQuotas: the response is stored without links |
| `Report`, `ReportFails` | sendToPipeline and the events of a finished response |
| `DeleteResponse`, `DeleteQuota` | deletions, with reduceQuotaLimits on demand |

A step is what the code does between two calls of the database. Transactions are
PostgreSQL's read committed: a read sees what has committed, a write locks its row until
the transaction ends. A response carries one answer, a quota accepts some of them, counts
partial responses or not, and may end the survey.

### Run and bounds

`intake` (0.9 million states) checks TypeOK, OvershootBounded, LinksMatch,
FinishedReported and NeverReadmitted: two workers, three responses, two quotas that one
answer qualifies for (one ends the survey, one counts partial responses), four requests
and one deletion or failure. Two workers are a request and what comes in between; with
three responses one holds the place for which the other two compete, and four requests
leave one to update a response after another changed it. The requests run out: the
deadlock check is off.

### Proofs (`ResponseIntakeProofs`)

All five properties, for any finite sets of responses and workers and any quotas.
`Inv == TypeOK /\ Tasks /\ Limits /\ LinksMatch /\ Reports /\ Bounded`:

- `Tasks`: what a request has decided fits the quotas it knows (`Fits`).
- `Bounded` counts the places taken in a quota: responses linked to it and counted, and
  requests that have found it not full and will link. A place is taken in two steps, and
  only a request that counted fewer than the limit takes one; the other workers can add at
  most one each. OvershootBounded follows since the places include the counted responses.
- `Reports`: a finished response is reported, excused, or has a request that will report.
- NeverReadmitted: `Barred`, a response screened out stays so or loses its link when its
  answer no longer qualifies.

### What the model shows besides

- A quota deleted while a response is being linked makes the insert fail. The error is
  caught (quotas/lib/utils.ts:180), but the transaction is aborted: the row stays as it was
  and the client is told that its answer was stored. `Commit`'s second branch.
- Two updates that overlap lose the answers of one, and a delayed update may write to a
  response that is finished. The code makes no other promise; LinksMatch says that the
  links follow the data that wins.
- A limit reduced by a deletion is not seen by requests that have read the quota:
  OvershootBounded is stated for the limit the quota started with.

Not modelled: editing a quota, the survey's status (see section 6), an update that leaves
out `finished`, PIN, validation, files, a deadlock of two deletions.

## 6. SurveySchedule and SurveyPipeline

### State and actions

| Model | Code |
|---|---|
| `survey` | the row: status, publishOn, closeOn, archivedAt; 0 is null |
| `task` | what each save, archive request, purge and the scheduling job have read |
| `BeginSave`, `Save` | patch of the v3 API and updateSurveyInternal: dates normalised against the status read, then the row written and a due schedule reconciled |
| `RunScheduler`, `Load`, `Apply` | reconcileDueSurveySchedules: each transition's query, then its conditional update |
| `BeginArchive`, `Archive`, `Restore` | archiveSurvey, restoreSurvey |
| `SelectExpired`, `Purge`, `DeleteSurvey` | the purge job and deleteSurvey, with requireArchivedBefore and without |
| `Throws` | a step that fails |
| `stored`, `Submit`, `Reopen` | the responses; a later update that says "not finished" |
| `Receive`, `Write`, `Queue` | a request that finishes a response: what it checks before its transaction, then the transaction and sendToPipeline, which may queue no job |
| `job` | each of these requests, and then the responseFinished job it queued |
| `LoadFails`, `Deliver`, `DeliveryFails` | an attempt of the job: its reads, its webhooks |
| `RunEffects`, `RunUncounted` | integrations, e-mails and follow-ups (failures are caught), with the count of responses or without |
| `Complete`, `CompleteFails` | autoComplete; a failing update is logged and not repeated |
| `Stalls` | a worker that dies: BullMQ starts the job again, or gives it up after `MaxStalled` |

`SurveyPipeline` extends `SurveySchedule`: the pipeline writes the survey's status and
reads whether it takes responses, so the two are checked together. Dates are days; the
job's batches of surveys, audit events and the responseCreated job, which only delivers
webhooks, are left out.

A request that finishes a response looks at it (`Receive`) before its transaction
(`Write`): put-response-handler.ts:110 against 231, and the management API does not look at
all. So two requests that overlap both finish the response and queue a job each. A request
queues no job when a full quota has finished the response, when sendToPipeline throws after
the commit (pipelines.ts:32) or when the server dies there; the client's repeated request
is then refused as "already finished". Every property of jobs is therefore about one job,
or names what it excludes.

Steps are merged where nobody can tell: the write and the queueing of the job (an
"answered" request has written and not queued), and the job's reads with its webhooks (a
worker that dies in between delivers nothing more than one that dies after). A worker that
stalls but is alive is taken for dead; deletion of single responses is not modelled.

### Run and bounds

`lifecycle` (0.3 million states, about three minutes, the slowest run) checks TypeOK,
DatesOrdered, EffectsOnce, TransitionsCurrent, PurgedOnlyExpired, EffectsRun, AutoCompletes
and SchedulesApplied: one save, one archive or purge and the scheduler at a time; two
responses of which two complete the survey, with two requests that finish the first and one
that finishes the second; two attempts; one stall allowed (BullMQ's default maxStalledCount,
which runtime.ts:166 leaves alone); days 1 and 2; three moves. Users' requests and faults
are moves. Every hazard named here needs two processes or requests; three moves are an
archive, a restore and a further archive, two overlapping finishing requests and a fault, or
a finish and two stalls. The second day makes a date due that was not, and an archived
survey expired.

### Fairness

Weak fairness of the scheduler (its job is repeated every day and BullMQ runs it) and of
each finishing request and its job (a request that has begun ends; a job is taken up by a
worker, and each of its reads, deliveries and writes succeeds or fails). A save or archive
need not go on, no user need act, and nothing need succeed. SchedulesApplied does not need a
save's own reconciliation: the daily job finds what it left.

What a job is sure to do is stated with every exception the code makes. EffectsRun: the
effects of a queued job run unless its survey is gone, its reads fail on the last attempt
(process-response-pipeline-job.ts:760-826) or it stalls too often. AutoCompletes: a job
queued when the survey has its responses leads to its completion, unless the job is not
served or "skipped", because the count (339-365) or the update (569-587) failed.

### Proofs (`SurveyPipelineProofs`)

TypeOK, DatesOrdered, EffectsOnce, TransitionsCurrent and PurgedOnlyExpired, for any number
of editors, administrators, responses, requests, days, attempts and stalls. `ScheduleInv`
adds `InHand` to the types and the order of dates: what a save has accepted is in order, and
the days that tasks remember are not after today. `RunsBounded` counts the runs of each
job's effects (`Bounded`): as many as its stalls, and one more when the job is past them;
and a job stalls at most `MaxStalled` times unless it is abandoned, so that its last stall
adds no run. EffectsRun, AutoCompletes and SchedulesApplied are liveness and model-checked
only.

### What the model shows besides

One response may have several responseFinished jobs, each running all the effects (e-mails,
integrations, follow-ups): requests that overlap, or an update that reopens it. A survey
whose last response is finished by a full quota, or whose last job is lost or skipped, does
not complete until a further job counts again. archiveSurvey reads the status without a
lock: a survey published in between is archived and in progress. autoComplete writes
"completed" whatever the status is, on an archived or paused survey too, and leaves its
dates. A save that read the survey before it was closed opens it again. None of these
contradicts a statement of the repository precisely enough to be a finding; the model
contains them all.

## 7. Billing

### State and actions

| Model | Code |
|---|---|
| `subs`, `card`, `keys`, `events` | Stripe: subscriptions with their schedules and open upgrades, payment method, idempotency keys, whether events wait to be delivered |
| `db` | OrganizationBilling: customer and snapshot |
| `task` | the requests being served, each at the call it has come to |
| `StartSetup`, `EnsureCustomer`, `StartHobby`, `StartTrial`, `CreateTrial` | ensureCloudStripeSetupForOrganization, startHobbyAction, startProTrialAction |
| `List`, `CancelRedundant`, `Relist`, `CreateHobby` | reconcileCloudStripeSubscriptionsForOrganization |
| `StartSwitch`, `StartFinalize`, `Resolve`, `Update`, `CreateSchedule`, `SetPhases`, `EndTrial` | switchOrganizationToCloudPlan: upgrade now, downgrade by a schedule, end of a trial without a card |
| `PhasesFail`, `Rollback`, `RollbackFails`, `Restore` | rollbackFailedPlanChangeScheduleUpdate, whose release may fail |
| `strays` | history: schedules that a failure left without a next phase |
| `StartUndo`, `Resume`, `Release`, `ReadPending`, `WritePending` | undoPendingOrganizationPlanChange and updatePendingPlanChangeSnapshot |
| `StartWebhook`, `StartCheckoutWebhook`, `StartRead`, `IgnoreEvent`, `ReadStripe`, `WriteDb` | the webhook (that of a completed checkout saves the card first), getOrganizationBillingWithReadThroughSync and syncOrganizationBillingFromStripe |
| `Settle`, `PeriodEnds` | Stripe: an invoice is paid or given up, a period or trial ends |
| `Fail` | a request fails at any of its calls, or its server dies |

Every call to Stripe or the database is a step. Handling an event looks at the present
state of Stripe, so an event carries nothing and only whether any waits is kept: handling one
may leave others waiting or none (Stripe delivers at least once and repeats events, and the
code ignores one older than the last synchronized), which allows every run that counting
them would. Stripe refuses to change a canceled subscription and to
attach a second schedule (`Refused`). A request that creates a schedule may fail before the
try block that would release it (getCurrentSchedulePhase, organization-billing.ts:861), and
the release itself may fail and is only logged (811-819): `Fail` and `RollbackFails`.

Simplified: a synchronization's reads of the subscriptions, the schedule (324) and the
customer (928) are one step; the count in the key of a new Hobby subscription has no upper
limit (the code lists 20 subscriptions, 1715) and keys do not expire (at Stripe after a
day); setting cancel_at_period_end again in a rollback fails only by `Fail`.

### Runs and bounds

| Run | Instance | Shows |
|---|---|---|
| `billing` | set-up, trial, switch, the owner's return from a checkout and its webhook, undo; 2 workers, 4 changes, 1 failure (1.4 million states) | TypeOK, NoCardNeverBilled, OneHobby, NoStraySchedule |
| `billing_live` | Hobby, trial, switch, undo, page visits; 2 workers, 4 changes, 1 failure (0.3 million states) | Converges, LandsOnPlan |

Four changes are sign-up, a trial, a plan change and the end of the trial, or a change, its
undo and another change. Two requests at a time give every window between a view and a
write. Owners stop asking after `MaxChanges`, so the deadlock check is off.

### Fairness

Weak fairness of a request that is served. Strong fairness of some page reading an old
snapshot again and of some event being delivered: Stripe repeats an event for three days,
pages are visited after the 5 minutes a snapshot is fresh for, and neither always meets
busy servers. Owners need not act, and periods need not end. LandsOnPlan is stated for a
customer that has a subscription or met no failure: one whose set-up failed before the first
subscription has no event that would lead to another.

A period or trial may end inside any request, except while some request reconciles or an
event waits to be delivered: reconciling takes seconds and events are delivered for three
days, while a period is a month and a trial two weeks. This is an assumption of the model,
and OneHobby and LandsOnPlan use it.

### Proofs (`BillingProofs`)

TypeOK, NoCardNeverBilled, OneHobby and NoStraySchedule hold for any number of workers,
changes and failures. `Inv == Types /\ Owned /\ Single`:

- `Types` holds what a request may rely on although its view is old (`Fits`): one that makes
  a schedule saw a paid plan, and a card has been collected by then, since cards are never
  removed. `Sound`: a paid plan or a scheduled one has a card.
- `Owned`: a schedule without a next phase is the one whose number the request that created
  it still holds, which is how Rollback knows its own from another's, or it is in `strays`.
  `OwnerKept` shows that every step keeps it accounted for.
- `Single`: OneHobby with three reasons for it. `Noticed`: a Hobby subscription beside a
  paid one has an event waiting or a webhook about to cancel it, whose event comes again if
  it fails (another request may fail for good). `Spared`: the lists of
  subscriptions to cancel leave a paid one, so a cancellation never leaves the customer
  without any. `Creating`: requests about to create a Hobby subscription whose keys are
  unused all have the same key, and there is no Hobby subscription then.

OneHobby needs the assumption on the ends of periods: otherwise a paid subscription could
turn into a Hobby one beside another. Converges and LandsOnPlan are liveness and
model-checked only.

### What the model shows besides

If the creation of a schedule fails, cancel_at_period_end, which was cleared before
(organization-billing.ts:849), is not set again. A schedule left bare by a failure is
reused by the next downgrade. Two paid subscriptions can exist side by
side (a trial begun while a checkout upgrades the Hobby subscription): reconciliation
cancels Hobby ones only.

Not modelled: the first checkout of a paid plan, billing intervals, custom and unknown
plans, entitlements, the payment-error banner, analytics, clean-up of customers, the Redis
cache, cancellations in the customer portal.

## 8. Not modelled

Of the application's 290 thousand lines most are user interface, translation of documents,
forms, queries and calls of libraries that keep no state across steps; they are listed with
their reason in `PROJECT.json`. What has such state and is not modelled yet is the rest of
the plan: the SDK's queues, the telemetry and license locks, navigation, and the registry's
publication. Liveness is model-checked only throughout; the prover does not reach it.
