----------------------------- MODULE ImportCommit -----------------------------
(***************************************************************************)
(* The AI LAB survey import: users upload a source file, which is read as  *)
(* a canonical survey and validated into an import job (one per source),   *)
(* and then commit the job, which creates a version of the survey and a    *)
(* Survey to collect responses with, or reuses those that exist.           *)
(*                                                                         *)
(* A commit is a serializable transaction: it reads a snapshot, and its    *)
(* writes take effect together, or it meets a conflict and starts again    *)
(* from a new snapshot.  Uploads and survey deletions are transactions of  *)
(* their own that commit in between; they are not serializable, so only    *)
(* their writes to rows the commit writes too are conflicts.               *)
(*                                                                         *)
(* A canonical survey is known by its checksum: a pair of the external id  *)
(* it defines and its content.  One workspace is modelled.                 *)
(***************************************************************************)
EXTENDS Integers, Sequences, FiniteSets

CONSTANTS
  Sources,      (* source files, known by their checksums                   *)
  Externals,    (* external ids of surveys: the keys of the registry        *)
  Contents,     (* what a canonical survey may define under an external id  *)
  Clients,      (* users importing at the same time                         *)
  MaxAttempts,  (* MAX_SERIALIZABLE_ATTEMPTS                                *)
  Changes       (* what may change around the imports                       *)

ChangeKinds == {"importer", "delete"}

ASSUME ImportCommitAssumption ==
  /\ MaxAttempts \in Nat \ {0}
  /\ Changes \subseteq ChangeKinds

VARIABLES
  reads,     \* what the importers deployed over time may read a source as
  job,       \* AILabSurveyImportJob of each source
  versions,  \* AILabSurveyVersion, the id of a row is its index
  link,      \* AILabSurveyRegistry.surveyId of each external id
  surveys,   \* Survey rows created by commits, the id is the index
  client,    \* what each user is doing
  returned   \* history: what commits have answered

vars == <<reads, job, versions, link, surveys, client, returned>>

-----------------------------------------------------------------------------
Definitions == Externals \X Contents
\* A source with blocking diagnostics, and a checksum that is not there.
NoDefinition == <<>>
Reading == Definitions \cup {NoDefinition}
NoVersion == 0
NoSurvey == 0
External(d) == d[1]

NoJob == [status |-> "none", checksum |-> NoDefinition, version |-> NoVersion]

\* The rows a commit of a source reads.
Snapshot(s) ==
  [job |-> job[s], versions |-> versions, link |-> link,
   live |-> {i \in DOMAIN surveys : surveys[i].live}]

Idle(s, expected) ==
  [pc |-> "ready", source |-> s, expected |-> expected, attempt |-> 0,
   snap |-> <<>>]

Init ==
  /\ reads \in [Sources -> IF "importer" \in Changes THEN {Reading}
                          ELSE {{r} : r \in Reading}]
  /\ job = [s \in Sources |-> NoJob]
  /\ versions = <<>> /\ surveys = <<>>
  /\ link = [e \in Externals |-> NoSurvey]
  /\ \E s \in Sources : client = [c \in Clients |-> Idle(s, NoDefinition)]
  /\ returned = {}

-----------------------------------------------------------------------------
(* validateAiLabCsvImportAction reads the file, creates the job or finds the *)
(* one of the same source, and then records what the reading came to.        *)
Upload(c, s) ==
  /\ client[c].pc = "ready"
  /\ \E r \in reads[s] :
       client' = [client EXCEPT ![c] = [Idle(s, r) EXCEPT !.pc = "recording"]]
  /\ job' = [job EXCEPT ![s].status = IF @ = "none" THEN "pending" ELSE @]
  /\ UNCHANGED <<reads, versions, link, surveys, returned>>

\* The status is written whatever it was; the version link is left alone.
\* The checksum is that of the stored snapshot.  A failed reading stores none: the
\* column keeps its old value, but a job without a snapshot is refused all the same.
Record(c) ==
  LET s == client[c].source
      read == client[c].expected
  IN
  /\ client[c].pc = "recording"
  /\ job' = [job EXCEPT ![s].status = IF read = NoDefinition THEN "failed"
                                      ELSE "validated",
                        ![s].checksum = read]
  /\ client' = [client EXCEPT ![c].pc = "ready"]
  /\ UNCHANGED <<reads, versions, link, surveys, returned>>

-----------------------------------------------------------------------------
(* decideImportCommit on the facts of a snapshot.                            *)
VersionsOf(vs, e) == {i \in DOMAIN vs : External(vs[i].checksum) = e}
Matching(vs, d) == {i \in DOMAIN vs : vs[i].checksum = d}

\* prepareValidatedImport: the stored snapshot is the one the user confirmed.
Prepared(snap, expected) ==
  snap.job.checksum # NoDefinition /\ snap.job.checksum = expected

\* The registry's current survey, which must still be there.
Linked(snap) == snap.link[External(snap.job.checksum)] \in snap.live

Replays(snap, expected) ==
  /\ Prepared(snap, expected)
  /\ snap.job.status = "completed"
  /\ snap.job.version \in Matching(snap.versions, snap.job.checksum)
  /\ Linked(snap)

\* A job that is linked to a version keeps to it.
\* Mutant: the link of the job is not looked at.
AnyVersion(snap) == TRUE
VersionResolved(snap) ==
  snap.job.version = NoVersion
    \/ snap.job.version \in Matching(snap.versions, snap.job.checksum)

Reuses(snap, expected) ==
  /\ Prepared(snap, expected)
  /\ snap.job.status = "validated"
  /\ VersionResolved(snap)
  /\ Matching(snap.versions, snap.job.checksum) # {}
  /\ Linked(snap)

Creates(snap, expected) ==
  /\ Prepared(snap, expected)
  /\ snap.job.status = "validated"
  /\ VersionResolved(snap)
  /\ Matching(snap.versions, snap.job.checksum) = {}

Accepted(snap, expected) ==
  Replays(snap, expected) \/ Reuses(snap, expected) \/ Creates(snap, expected)

-----------------------------------------------------------------------------
(* commitValidatedImport.                                                    *)
Committing(c) == client[c].pc = "committing"

Begin(c) ==
  /\ client[c].pc = "ready" /\ client[c].expected # NoDefinition
  /\ client' = [client EXCEPT ![c].pc = "committing", ![c].attempt = 1,
                              ![c].snap = Snapshot(client[c].source)]
  /\ UNCHANGED <<reads, job, versions, link, surveys, returned>>

Ended(c) == client' = [client EXCEPT ![c] = Idle(@.source, @.expected)]
Returned(c, v, i) ==
  returned' = returned \cup {[source |-> client[c].source, version |-> v, survey |-> i]}

\* Rows the commit writes that another transaction has changed meanwhile.
\* (One written back as it was is no change: the commit does what its retry
\* would do.)
\* Mutant: an upload between the read and the write goes unnoticed.
JobIgnored(c) == FALSE
JobChanged(c) == job[client[c].source] # client[c].snap.job

\* Mutant: two commits may write the same registry.
RegistryIgnored(c) == FALSE
RegistryChanged(c) ==
  LET snap == client[c].snap
      e == External(client[c].expected)
  IN link[e] # snap.link[e] \/ VersionsOf(versions, e) # VersionsOf(snap.versions, e)

Refuse(c) ==
  /\ Committing(c) /\ ~Accepted(client[c].snap, client[c].expected)
  /\ Ended(c)
  /\ UNCHANGED <<reads, job, versions, link, surveys, returned>>

\* A completed job is answered from its links, without a write.
Replay(c) ==
  LET snap == client[c].snap IN
  /\ Committing(c) /\ Replays(snap, client[c].expected)
  /\ Ended(c)
  /\ Returned(c, snap.job.version, snap.link[External(snap.job.checksum)])
  /\ UNCHANGED <<reads, job, versions, link, surveys>>

\* The job completes with a version that exists and the registry's survey.
Reuse(c) ==
  LET snap == client[c].snap IN
  /\ Committing(c) /\ Reuses(snap, client[c].expected)
  /\ ~JobChanged(c)
  /\ \E v \in Matching(snap.versions, snap.job.checksum) :
       /\ job' = [job EXCEPT ![client[c].source].status = "completed",
                             ![client[c].source].version = v]
       /\ Returned(c, v, snap.link[External(snap.job.checksum)])
  /\ Ended(c)
  /\ UNCHANGED <<reads, versions, link, surveys>>

\* The number after the newest version of the registry.
NextNumber(vs, e) ==
  CHOOSE n \in 1 .. Len(vs) + 1 :
    /\ \A i \in VersionsOf(vs, e) : vs[i].number < n
    /\ n = 1 \/ \E i \in VersionsOf(vs, e) : vs[i].number = n - 1

\* The registry is linked to the new survey in place of the one it had.
\* Mutant: a registry that has a survey keeps it.
KeepLink(e, i) == [link EXCEPT ![e] = IF @ = NoSurvey THEN i ELSE @]
\* Mutant: the survey is created without being linked.
LinkMissing(e, i) == link
Relink(e, i) == [link EXCEPT ![e] = i]

Create(c) ==
  LET snap == client[c].snap
      d == client[c].expected
      v == Len(versions) + 1
      i == Len(surveys) + 1
  IN
  /\ Committing(c) /\ Creates(snap, d)
  /\ ~JobChanged(c) /\ ~RegistryChanged(c)
  /\ versions' = Append(versions,
                   [checksum |-> d, number |-> NextNumber(snap.versions, External(d))])
  /\ surveys' = Append(surveys, [checksum |-> d, live |-> TRUE])
  /\ link' = Relink(External(d), i)
  /\ job' = [job EXCEPT ![client[c].source].status = "completed",
                        ![client[c].source].version = v]
  /\ Returned(c, v, i)
  /\ Ended(c)
  /\ UNCHANGED reads

\* Mutant: one attempt too many.
OneMoreAttempt(c) == client[c].attempt <= MaxAttempts
AttemptsLeft(c) == client[c].attempt < MaxAttempts

\* A conflict starts the commit again, a bounded number of times.
Conflict(c) ==
  LET snap == client[c].snap
      d == client[c].expected
  IN
  /\ Committing(c)
  /\ \/ Reuses(snap, d) /\ JobChanged(c)
     \/ Creates(snap, d) /\ (JobChanged(c) \/ RegistryChanged(c))
  /\ IF AttemptsLeft(c)
     THEN client' = [client EXCEPT ![c].attempt = @ + 1,
                                   ![c].snap = Snapshot(client[c].source)]
     ELSE Ended(c)
  /\ UNCHANGED <<reads, job, versions, link, surveys, returned>>

-----------------------------------------------------------------------------
\* deleteSurvey; the registry's foreign key is set to null with it.
DeleteSurvey(i) ==
  /\ "delete" \in Changes /\ surveys[i].live
  /\ surveys' = [surveys EXCEPT ![i].live = FALSE]
  /\ link' = [e \in Externals |-> IF link[e] = i THEN NoSurvey ELSE link[e]]
  /\ UNCHANGED <<reads, job, versions, client, returned>>

Commit(c) ==
  \/ Begin(c) \/ Refuse(c) \/ Replay(c) \/ Reuse(c) \/ Create(c) \/ Conflict(c)

Next ==
  \/ \E c \in Clients : (\E s \in Sources : Upload(c, s)) \/ Record(c) \/ Commit(c)
  \/ \E i \in DOMAIN surveys : DeleteSurvey(i)

Spec == Init /\ [][Next]_vars

-----------------------------------------------------------------------------
(***************************************************************************)
(* Properties.                                                             *)
(***************************************************************************)
JobType ==
  [status : {"none", "pending", "validated", "failed", "completed"},
   checksum : Reading, version : Nat]
VersionType == [checksum : Definitions, number : Nat \ {0}]
SurveyType == [checksum : Definitions, live : BOOLEAN]
SnapshotType ==
  [job : JobType, versions : Seq(VersionType), link : [Externals -> Nat],
   live : SUBSET Nat]
ClientType ==
  [pc : {"ready", "recording", "committing"}, source : Sources,
   expected : Reading, attempt : 0 .. MaxAttempts,
   snap : SnapshotType \cup {<<>>}]

\* Every variable keeps its type.
TypeOK ==
  /\ reads \in [Sources -> SUBSET Reading]
  /\ job \in [Sources -> JobType]
  /\ versions \in Seq(VersionType) /\ surveys \in Seq(SurveyType)
  /\ link \in [Externals -> Nat]
  /\ client \in [Clients -> ClientType]
  /\ returned \subseteq [source : Sources, version : Nat, survey : Nat]

(* A completed job is linked to a version of the canonical survey it stores, *)
(* though uploads rewrite the job while commits of it are running.           *)
JobMatchesVersion ==
  \A s \in Sources : job[s].status = "completed" =>
    job[s].version \in Matching(versions, job[s].checksum)

(* A canonical survey has one version, and a registry's versions are         *)
(* numbered 1, 2, 3, ... in the order of their commits, whoever commits.     *)
VersionsNumbered ==
  \A i \in DOMAIN versions :
    /\ Matching(versions, versions[i].checksum) = {i}
    /\ versions[i].number =
         Cardinality({j \in VersionsOf(versions, External(versions[i].checksum)) :
                        j <= i})

(* A registry's survey is compiled from its newest version.                  *)
RegistryLinksNewest ==
  \A e \in Externals : link[e] # NoSurvey =>
    \A i \in VersionsOf(versions, e) :
      (\A j \in VersionsOf(versions, e) : j <= i) =>
        surveys[link[e]].checksum = versions[i].checksum

(* Once a job has produced a version it stays the record of that version:    *)
(* no later upload or commit of its source links it to another one.          *)
JobKeepsVersion ==
  [][\A s \in Sources : job[s].version # NoVersion =>
       job'[s].version = job[s].version]_vars

(* While no survey was deleted, a validated job can be committed, unless its *)
(* source is read differently from the version it has produced before.       *)
ValidatedCommits ==
  \A s \in Sources :
    /\ job[s].status = "validated"
    /\ VersionResolved(Snapshot(s))
    /\ \A i \in DOMAIN surveys : surveys[i].live
    => Accepted(Snapshot(s), job[s].checksum)

(* The registry of versions that the rows of the import stand for.           *)
Produced == [s \in Sources |-> job[s].version]
Current ==
  [e \in Externals |-> IF link[e] = NoSurvey THEN NoDefinition
                       ELSE surveys[link[e]].checksum]
Answered == {<<r.source, r.version>> : r \in returned}

(* Commits decide on what they read earlier, and uploads, deletions and      *)
(* other commits come in between; still each takes effect at one moment, as  *)
(* VersionRegistry says: it makes the next version of a survey that has no   *)
(* such version yet, or answers with one that its source can only have led   *)
(* to.                                                                       *)
Registry == INSTANCE VersionRegistry
  WITH log <- versions, produced <- Produced, current <- Current,
       answers <- Answered
ImplementsRegistry == Registry!Spec

(* A commit answers with a version and a survey compiled from that version.  *)
AnswersConsistent ==
  \A r \in returned : surveys[r.survey].checksum = versions[r.version].checksum
=============================================================================
