-------------------------- MODULE ImportCommitProofs --------------------------
(***************************************************************************)
(* Proofs about ImportCommit, for any sources, surveys, users and number   *)
(* of attempts.                                                            *)
(*                                                                         *)
(* A commit decides on a snapshot and writes later.  The proofs rest on    *)
(* two facts about what it read: versions are only appended, so those of   *)
(* a snapshot are still the first ones (Snapshots), and a commit that      *)
(* writes found its job, and when it creates a version also its registry,  *)
(* as they are now (no conflict).  Hence a version that was not there in   *)
(* the snapshot is not there now (Unique), and its number is the next one  *)
(* (Numbers).                                                              *)
(***************************************************************************)
EXTENDS ImportCommit, FiniteSetTheorems, SequenceTheorems, TLAPS

\* The versions vs are the first ones of ws.
Starts(vs, ws) == Len(vs) <= Len(ws) /\ \A i \in 1 .. Len(vs) : ws[i] = vs[i]

\* A commit has read its facts from the versions there are, or a beginning.
Snapshots ==
  \A c \in Clients : Committing(c) =>
    /\ client[c].snap \in SnapshotType
    /\ client[c].expected \in Definitions
    /\ client[c].attempt \in 1 .. MaxAttempts
    /\ Starts(client[c].snap.versions, versions)

\* The part of TypeOK that no other invariant is needed for.
Types == TypeOK /\ Snapshots

\* A job that can be committed stores a canonical survey, and a job that was
\* committed a version of it.
Jobs ==
  \A s \in Sources :
    /\ job[s].status = "validated" => job[s].checksum \in Definitions
    /\ job[s].status = "completed" =>
         job[s].version \in Matching(versions, job[s].checksum)

\* A canonical survey has at most one version.
UniqueIn(vs) ==
  \A i, j \in DOMAIN vs : vs[i].checksum = vs[j].checksum => i = j

\* The versions of the same registry up to a version.
UpTo(vs, i) == {j \in VersionsOf(vs, External(vs[i].checksum)) : j <= i}

\* The numbers of a registry's versions count them, so the greatest number is
\* how many there are.
Greatest(vs, e, n) ==
  /\ \A i \in VersionsOf(vs, e) : vs[i].number <= n
  /\ n = 0 \/ \E i \in VersionsOf(vs, e) : vs[i].number = n

NumberedIn(vs) ==
  /\ \A i \in DOMAIN vs : vs[i].number = Cardinality(UpTo(vs, i))
  /\ \A e \in Externals : Greatest(vs, e, Cardinality(VersionsOf(vs, e)))

\* A registry with a version is linked to a survey, unless one was deleted.
Links ==
  \A e \in Externals :
    /\ link[e] \in 0 .. Len(surveys)
    /\ (link[e] = NoSurvey /\ VersionsOf(versions, e) # {}) =>
         \E i \in DOMAIN surveys : ~surveys[i].live

Rows ==
  Jobs /\ UniqueIn(versions) /\ NumberedIn(versions) /\ Links /\ RegistryLinksNewest

Inv == Types /\ Rows

-------------------------------------------------------------------------------
(* Facts about the operators.                                                *)
LEMMA DefinitionFacts ==
  ASSUME NEW d \in Definitions
  PROVE  External(d) \in Externals /\ d # NoDefinition /\ d \in Reading
BY DEF Definitions, External, NoDefinition, Reading

LEMMA RowsTyped ==
  ASSUME NEW vs \in Seq(VersionType), NEW i \in DOMAIN vs
  PROVE  /\ i \in 1 .. Len(vs)
         /\ vs[i].checksum \in Definitions
         /\ vs[i].number \in Nat
<1>1. vs[i] \in VersionType /\ i \in 1 .. Len(vs)
  OBVIOUS
<1> QED
  BY <1>1 DEF VersionType

LEMMA VersionsFinite ==
  ASSUME NEW vs \in Seq(VersionType), NEW e
  PROVE  /\ VersionsOf(vs, e) \subseteq 1 .. Len(vs)
         /\ IsFiniteSet(VersionsOf(vs, e))
         /\ Cardinality(VersionsOf(vs, e)) \in Nat
         /\ Cardinality(VersionsOf(vs, e)) <= Len(vs)
         /\ Cardinality(VersionsOf(vs, e)) = 0 => VersionsOf(vs, e) = {}
<1>1. VersionsOf(vs, e) \subseteq 1 .. Len(vs)
  BY DEF VersionsOf
<1>2. Len(vs) \in Nat
  OBVIOUS
<1>3. IsFiniteSet(1 .. Len(vs)) /\ Cardinality(1 .. Len(vs)) = Len(vs)
  <2>1. 1 \in Int /\ Len(vs) \in Int
    BY <1>2
  <2>2. /\ IsFiniteSet(1 .. Len(vs))
        /\ Cardinality(1 .. Len(vs)) = IF 1 > Len(vs) THEN 0 ELSE Len(vs) - 1 + 1
    BY <2>1, FS_Interval
  <2> QED
    BY <1>2, <2>2
<1>4. /\ IsFiniteSet(VersionsOf(vs, e))
      /\ Cardinality(VersionsOf(vs, e)) <= Len(vs)
  BY <1>1, <1>3, FS_Subset
<1> QED
  BY <1>1, <1>4, FS_CardinalityType, FS_EmptySet

\* A beginning of a sequence has the same versions as far as it goes.
LEMMA StartsSame ==
  ASSUME NEW vs \in Seq(VersionType), NEW ws \in Seq(VersionType), Starts(vs, ws),
         NEW d
  PROVE  /\ Matching(vs, d) \subseteq Matching(ws, d)
         /\ VersionsOf(vs, d) \subseteq VersionsOf(ws, d)
         /\ \A i \in VersionsOf(vs, d) : ws[i] = vs[i]
BY DEF Starts, Matching, VersionsOf

LEMMA AppendStarts ==
  ASSUME NEW vs \in Seq(VersionType), NEW x \in VersionType
  PROVE  /\ Append(vs, x) \in Seq(VersionType)
         /\ Starts(vs, Append(vs, x))
         /\ DOMAIN Append(vs, x) = DOMAIN vs \cup {Len(vs) + 1}
         /\ Append(vs, x)[Len(vs) + 1] = x
         /\ \A i \in DOMAIN vs : Append(vs, x)[i] = vs[i]
         /\ Len(vs) + 1 \notin DOMAIN vs
BY DEF Starts

LEMMA StartsTransitive ==
  ASSUME NEW us \in Seq(VersionType), NEW vs \in Seq(VersionType),
         NEW ws \in Seq(VersionType), Starts(us, vs), Starts(vs, ws)
  PROVE  Starts(us, ws)
BY DEF Starts

LEMMA SnapshotTyped ==
  ASSUME TypeOK, NEW s \in Sources
  PROVE  /\ Snapshot(s) \in SnapshotType
         /\ Snapshot(s).versions = versions
         /\ Starts(Snapshot(s).versions, versions)
<1>1. {i \in DOMAIN surveys : surveys[i].live} \subseteq Nat
  BY DEF TypeOK
<1>2. Starts(versions, versions)
  BY DEF TypeOK, Starts
<1> QED
  BY <1>1, <1>2 DEF TypeOK, Snapshot, SnapshotType

\* The next number follows the greatest one.
LEMMA NextNumberIs ==
  ASSUME NEW vs \in Seq(VersionType), NEW e, NEW n \in Nat,
         n <= Len(vs), n = 0 => VersionsOf(vs, e) = {}, Greatest(vs, e, n)
  PROVE  NextNumber(vs, e) = n + 1
<1> DEFINE V == VersionsOf(vs, e)
           P(k) == /\ \A i \in V : vs[i].number < k
                   /\ k = 1 \/ \E i \in V : vs[i].number = k - 1
<1>1. \A i \in V : vs[i].number \in Nat
  BY RowsTyped DEF VersionsOf
<1>2. /\ \A i \in V : vs[i].number <= n
      /\ n = 0 \/ \E i \in V : vs[i].number = n
      /\ n = 0 => V = {}
  BY DEF Greatest
<1>3. NextNumber(vs, e) = CHOOSE k \in 1 .. Len(vs) + 1 : P(k)
  BY DEF NextNumber
<1>4. Len(vs) \in Nat
  OBVIOUS
<1> HIDE DEF V
<1>5. n + 1 \in 1 .. Len(vs) + 1 /\ P(n + 1)
  BY <1>1, <1>2, <1>4
<1>6. ASSUME NEW k \in 1 .. Len(vs) + 1, P(k) PROVE k = n + 1
  <2>1. CASE n = 0
    BY <1>2, <1>6, <2>1
  <2>2. CASE n # 0
    <3>1. n < k
      BY <1>1, <1>2, <1>6, <2>2
    <3>2. k # 1
      BY <2>2, <3>1
    <3>3. PICK i \in V : vs[i].number = k - 1
      BY <1>6, <3>2
    <3> QED
      BY <1>1, <1>2, <3>1, <3>3
  <2> QED
    BY <2>1, <2>2
<1> HIDE DEF P
<1> QED
  BY <1>3, <1>5, <1>6

\* A commit that finds its registry unchanged takes the number that is next
\* now, though it reads it off its snapshot.
LEMMA SnapshotNumber ==
  ASSUME NEW vs \in Seq(VersionType), NEW ws \in Seq(VersionType), Starts(vs, ws),
         NEW e \in Externals, VersionsOf(vs, e) = VersionsOf(ws, e), NumberedIn(ws)
  PROVE  NextNumber(vs, e) = Cardinality(VersionsOf(ws, e)) + 1
<1> DEFINE n == Cardinality(VersionsOf(vs, e))
<1>1. n \in Nat /\ n <= Len(vs) /\ (n = 0 => VersionsOf(vs, e) = {})
  BY VersionsFinite
<1>2. Greatest(ws, e, n)
  BY DEF NumberedIn
<1>3. \A i \in VersionsOf(vs, e) : ws[i] = vs[i]
  BY StartsSame
<1>4. Greatest(vs, e, n)
  BY <1>2, <1>3 DEF Greatest
<1> QED
  BY <1>1, <1>4, NextNumberIs

\* What a new version adds to the versions of a registry.
LEMMA VersionsAppended ==
  ASSUME NEW vs \in Seq(VersionType), NEW x \in VersionType, NEW e
  PROVE  VersionsOf(Append(vs, x), e) =
           IF External(x.checksum) = e THEN VersionsOf(vs, e) \cup {Len(vs) + 1}
                                       ELSE VersionsOf(vs, e)
BY AppendStarts DEF VersionsOf

LEMMA UniqueAppend ==
  ASSUME NEW vs \in Seq(VersionType), NEW x \in VersionType, UniqueIn(vs),
         Matching(vs, x.checksum) = {}
  PROVE  UniqueIn(Append(vs, x))
BY AppendStarts DEF UniqueIn, Matching

LEMMA NumberedAppend ==
  ASSUME NEW vs \in Seq(VersionType), NEW x \in VersionType, NumberedIn(vs),
         x.number = Cardinality(VersionsOf(vs, External(x.checksum))) + 1
  PROVE  NumberedIn(Append(vs, x))
<1> DEFINE ws == Append(vs, x)
           v == Len(vs) + 1
           d == External(x.checksum)
<1>1. /\ ws \in Seq(VersionType)
      /\ DOMAIN ws = DOMAIN vs \cup {v}
      /\ ws[v] = x
      /\ v \notin DOMAIN vs
      /\ \A i \in DOMAIN vs : ws[i] = vs[i]
  BY AppendStarts
<1>2. \A e : VersionsOf(ws, e) = IF d = e THEN VersionsOf(vs, e) \cup {v}
                                         ELSE VersionsOf(vs, e)
  BY VersionsAppended
<1>3. \A e : /\ VersionsOf(vs, e) \subseteq DOMAIN vs
             /\ IsFiniteSet(VersionsOf(vs, e))
             /\ Cardinality(VersionsOf(vs, e)) \in Nat
  BY VersionsFinite DEF VersionsOf
<1>4. \A i \in DOMAIN vs : i \in Nat /\ i < v
  OBVIOUS
<1>5. \A e : Cardinality(VersionsOf(ws, e)) =
               Cardinality(VersionsOf(vs, e)) + (IF d = e THEN 1 ELSE 0)
  <2> TAKE e
  <2>1. v \notin VersionsOf(vs, e)
    BY <1>1, <1>3
  <2> QED
    BY <1>2, <1>3, <2>1, FS_AddElement
<1> HIDE DEF ws
<1>6. ASSUME NEW i \in DOMAIN ws PROVE ws[i].number = Cardinality(UpTo(ws, i))
  <2>1. CASE i = v
    <3>1. UpTo(ws, v) = VersionsOf(ws, d)
      <4>1. \A j \in VersionsOf(ws, d) : j <= v
        BY <1>2, <1>3, <1>4
      <4> QED
        BY <1>1, <4>1 DEF UpTo
    <3> QED
      BY <1>1, <1>3, <1>5, <2>1, <3>1
  <2>2. CASE i \in DOMAIN vs
    <3> DEFINE e == External(vs[i].checksum)
    <3>1. \A j \in VersionsOf(ws, e) : j <= i => j \in VersionsOf(vs, e)
      BY <1>2, <1>4, <2>2
    <3>2. UpTo(ws, i) = UpTo(vs, i)
      BY <1>1, <1>2, <2>2, <3>1 DEF UpTo
    <3> QED
      BY <1>1, <2>2, <3>2 DEF NumberedIn
  <2> QED
    BY <1>1, <2>1, <2>2
<1>7. ASSUME NEW e \in Externals
      PROVE  Greatest(ws, e, Cardinality(VersionsOf(ws, e)))
  <2> DEFINE n == Cardinality(VersionsOf(vs, e))
             V == VersionsOf(vs, e)
  <2>1. Greatest(vs, e, n) /\ n \in Nat
    BY <1>3 DEF NumberedIn
  <2>2. \A i \in V : vs[i].number \in Nat /\ ws[i].number = vs[i].number
    BY <1>1, <1>3, RowsTyped
  <2>3. CASE d = e
    <3>1. \A i \in VersionsOf(ws, e) : i = v \/ i \in V
      BY <1>2
    <3>2. ws[v].number = n + 1 /\ v \in VersionsOf(ws, e)
      BY <1>1, <1>2, <2>3
    <3>3. \A i \in V : ws[i].number <= n + 1
      BY <2>1, <2>2 DEF Greatest
    <3>4. Cardinality(VersionsOf(ws, e)) = n + 1
      BY <1>5, <2>3
    <3> QED
      BY <2>1, <3>1, <3>2, <3>3, <3>4 DEF Greatest
  <2>4. CASE d # e
    <3>1. VersionsOf(ws, e) = V
      BY <1>2, <2>4
    <3> QED
      BY <2>1, <2>2, <3>1 DEF Greatest
  <2> QED
    BY <2>3, <2>4
<1> QED
  BY <1>6, <1>7 DEF NumberedIn, ws

-------------------------------------------------------------------------------
(* What a commit that writes knows.                                          *)
LEMMA ClientFacts ==
  ASSUME TypeOK, NEW c \in Clients
  PROVE  /\ client[c].source \in Sources
         /\ client[c].expected \in Reading
         /\ client[c].attempt \in 0 .. MaxAttempts
         /\ client[c] \in ClientType
<1>1. client[c] \in ClientType
  BY DEF TypeOK
<1> QED
  BY <1>1 DEF ClientType

LEMMA CommitFacts ==
  ASSUME Types, NEW c \in Clients, Committing(c)
  PROVE  /\ client[c].snap \in SnapshotType
         /\ client[c].snap.versions \in Seq(VersionType)
         /\ client[c].snap.job \in JobType
         /\ client[c].expected \in Definitions
         /\ Starts(client[c].snap.versions, versions)
         /\ \A d : Matching(client[c].snap.versions, d) \subseteq Matching(versions, d)
<1>1. /\ client[c].snap \in SnapshotType
      /\ client[c].expected \in Definitions
      /\ Starts(client[c].snap.versions, versions)
  BY DEF Types, Snapshots
<1>2. /\ client[c].snap.versions \in Seq(VersionType)
      /\ client[c].snap.job \in JobType
  BY <1>1 DEF SnapshotType
<1>3. versions \in Seq(VersionType)
  BY DEF Types, TypeOK
<1> QED
  BY <1>1, <1>2, <1>3, StartsSame

LEMMA MatchingTyped ==
  ASSUME NEW vs \in Seq(VersionType), NEW d, NEW v \in Matching(vs, d)
  PROVE  v \in DOMAIN vs /\ v \in Nat \ {0} /\ vs[v].checksum = d
BY DEF Matching

\* A commit that reuses a version keeps the one its job is linked to.
LEMMA ReuseKeeps ==
  ASSUME Inv, NEW c \in Clients, Committing(c), Reuses(client[c].snap, client[c].expected),
         ~JobChanged(c), NEW v \in Matching(client[c].snap.versions, client[c].snap.job.checksum)
  PROVE  /\ v \in Matching(versions, job[client[c].source].checksum)
         /\ v \in Nat \ {0}
         /\ job[client[c].source].version # NoVersion =>
              v = job[client[c].source].version
<1> DEFINE s == client[c].source
<1>1. job[s] = client[c].snap.job
  BY DEF JobChanged
<1>2. versions \in Seq(VersionType) /\ UniqueIn(versions)
  BY DEF Inv, Types, TypeOK, Rows
<1>3. /\ v \in Matching(versions, job[s].checksum)
      /\ job[s].version # NoVersion => job[s].version \in Matching(versions, job[s].checksum)
  BY <1>1, CommitFacts DEF Inv, Reuses, VersionResolved
<1> QED
  BY <1>2, <1>3, MatchingTyped DEF UniqueIn

\* A commit that creates a version has no version before it.
LEMMA CreateFresh ==
  ASSUME Inv, NEW c \in Clients, Create(c)
  PROVE  /\ job[client[c].source].checksum = client[c].expected
         /\ job[client[c].source].version = NoVersion
         /\ Matching(versions, client[c].expected) = {}
         /\ NextNumber(client[c].snap.versions, External(client[c].expected)) =
              Cardinality(VersionsOf(versions, External(client[c].expected))) + 1
         /\ Cardinality(VersionsOf(versions, External(client[c].expected))) \in Nat
<1> DEFINE snap == client[c].snap
           d == client[c].expected
           s == client[c].source
<1>1. /\ snap.versions \in Seq(VersionType) /\ versions \in Seq(VersionType)
      /\ d \in Definitions
      /\ Starts(snap.versions, versions)
  BY CommitFacts DEF Create, Inv, Types, TypeOK
<1>2. /\ job[s] = snap.job
      /\ VersionsOf(versions, External(d)) = VersionsOf(snap.versions, External(d))
  BY DEF Create, JobChanged, RegistryChanged
<1>3. /\ snap.job.checksum = d
      /\ VersionResolved(snap)
      /\ Matching(snap.versions, d) = {}
  BY DEF Create, Creates, Prepared
<1>4. job[s].version = NoVersion
  BY <1>2, <1>3 DEF VersionResolved
<1>5. Matching(versions, d) \subseteq VersionsOf(versions, External(d))
  BY DEF Matching, VersionsOf
<1>6. \A i \in VersionsOf(snap.versions, External(d)) : versions[i] = snap.versions[i]
  BY <1>1, StartsSame
<1>7. VersionsOf(snap.versions, External(d)) \subseteq DOMAIN snap.versions
  BY DEF VersionsOf
<1>8. Matching(versions, d) = {}
  BY <1>2, <1>3, <1>5, <1>6, <1>7 DEF Matching
<1>9. External(d) \in Externals
  BY <1>1, DefinitionFacts
<1>10. NextNumber(snap.versions, External(d)) =
         Cardinality(VersionsOf(versions, External(d))) + 1
  BY <1>1, <1>2, <1>9, SnapshotNumber DEF Inv, Rows
<1> QED
  BY <1>1, <1>2, <1>3, <1>4, <1>8, <1>10, VersionsFinite

-------------------------------------------------------------------------------
(* Steps that leave the rows, or all but the job, as they are.               *)
LEMMA RowsUnchanged ==
  ASSUME Rows, UNCHANGED <<job, versions, link, surveys>>
  PROVE  Rows'
BY DEF Rows, Jobs, Links, RegistryLinksNewest

LEMMA RegistryUnchanged ==
  ASSUME Rows, UNCHANGED <<versions, link, surveys>>, Jobs'
  PROVE  Rows'
BY DEF Rows, Links, RegistryLinksNewest

\* A commit that ends, and versions that may be added meanwhile.
LEMMA SnapshotsKept ==
  ASSUME Types, versions' \in Seq(VersionType), Starts(versions, versions'),
         NEW c \in Clients,
         \A b \in Clients \ {c} : client'[b] = client[b],
         Committing(c)' => /\ client'[c].snap \in SnapshotType
                           /\ client'[c].expected \in Definitions
                           /\ client'[c].attempt \in 1 .. MaxAttempts
                           /\ Starts(client'[c].snap.versions, versions)
  PROVE  Snapshots'
<1> SUFFICES ASSUME NEW b \in Clients, Committing(b)'
             PROVE  /\ client'[b].snap \in SnapshotType
                    /\ client'[b].expected \in Definitions
                    /\ client'[b].attempt \in 1 .. MaxAttempts
                    /\ Starts(client'[b].snap.versions, versions')
  BY DEF Snapshots
<1>1. /\ client'[b].snap \in SnapshotType
      /\ client'[b].expected \in Definitions
      /\ client'[b].attempt \in 1 .. MaxAttempts
      /\ Starts(client'[b].snap.versions, versions)
  BY DEF Types, Snapshots, Committing
<1>2. client'[b].snap.versions \in Seq(VersionType) /\ versions \in Seq(VersionType)
  BY <1>1 DEF SnapshotType, Types, TypeOK
<1> QED
  BY <1>1, <1>2, StartsTransitive

LEMMA IdleTyped ==
  ASSUME NEW s \in Sources, NEW d \in Reading
  PROVE  Idle(s, d) \in ClientType /\ Idle(s, d).pc = "ready"
BY ImportCommitAssumption DEF Idle, ClientType

\* A commit that ends leaves the user ready for another one.
LEMMA EndedTypes ==
  ASSUME Types, NEW c \in Clients, Ended(c),
         versions' \in Seq(VersionType), Starts(versions, versions')
  PROVE  client' \in [Clients -> ClientType] /\ Snapshots'
<1>1. client' = [client EXCEPT ![c] = Idle(client[c].source, client[c].expected)]
  BY DEF Ended
<1>2. /\ Idle(client[c].source, client[c].expected) \in ClientType
      /\ Idle(client[c].source, client[c].expected).pc = "ready"
  BY ClientFacts, IdleTyped DEF Types
<1>3. client \in [Clients -> ClientType]
  BY DEF Types, TypeOK
<1>4. ~Committing(c)' /\ \A b \in Clients \ {c} : client'[b] = client[b]
  BY <1>1, <1>2, <1>3 DEF Committing
<1> QED
  BY <1>1, <1>2, <1>3, <1>4, SnapshotsKept

\* Rewriting a user leaves the others as they are.
LEMMA ClientTypes ==
  ASSUME Types, UNCHANGED versions, NEW c \in Clients, NEW x \in ClientType,
         client' = [client EXCEPT ![c] = x],
         x.pc = "committing" => /\ x.snap \in SnapshotType
                                /\ x.expected \in Definitions
                                /\ x.attempt \in 1 .. MaxAttempts
                                /\ Starts(x.snap.versions, versions)
  PROVE  client' \in [Clients -> ClientType] /\ Snapshots'
<1>1. /\ client \in [Clients -> ClientType]
      /\ versions \in Seq(VersionType)
      /\ Starts(versions, versions)
  BY DEF Types, TypeOK, Starts
<1>2. client'[c] = x /\ \A b \in Clients \ {c} : client'[b] = client[b]
  BY <1>1
<1>3. Committing(c)' => x.pc = "committing"
  BY <1>2 DEF Committing
<1> QED
  BY <1>1, <1>2, <1>3, SnapshotsKept

\* A user at a new attempt, with a new snapshot.
Attempt(y, n, sn) == [y EXCEPT !.pc = "committing", !.attempt = n, !.snap = sn]

LEMMA AttemptTyped ==
  ASSUME NEW y \in ClientType, NEW n \in 1 .. MaxAttempts, NEW sn \in SnapshotType
  PROVE  /\ Attempt(y, n, sn) \in ClientType
         /\ Attempt(y, n, sn).snap = sn
         /\ Attempt(y, n, sn).expected = y.expected
         /\ Attempt(y, n, sn).attempt = n
<1>1. n \in 0 .. MaxAttempts
  BY ImportCommitAssumption
<1>2. sn \in SnapshotType \cup {<<>>}
  OBVIOUS
<1> QED
  BY <1>1, <1>2 DEF Attempt, ClientType

-------------------------------------------------------------------------------
(* The invariant holds initially and every action keeps it.                  *)
LEMMA InitInv ==
  ASSUME Init
  PROVE  Inv
<1>1. TypeOK
  <2>1. job \in [Sources -> JobType]
    BY DEF Init, NoJob, JobType, Reading, NoVersion
  <2>2. client \in [Clients -> ClientType]
    <3>1. NoDefinition \in Reading
      BY DEF Reading
    <3> QED
      BY <3>1, IdleTyped DEF Init
  <2>3. link \in [Externals -> Nat]
    BY DEF Init, NoSurvey
  <2> QED
    BY <2>1, <2>2, <2>3 DEF Init, TypeOK
<1>2. \A c \in Clients : ~Committing(c)
  BY DEF Init, Idle, Committing
<1>3. \A s \in Sources : job[s].status = "none"
  BY DEF Init, NoJob
<1>4. versions = <<>> /\ \A e : VersionsOf(versions, e) = {}
  BY DEF Init, VersionsOf
<1>5. UniqueIn(versions) /\ NumberedIn(versions)
  BY <1>4, FS_EmptySet DEF UniqueIn, NumberedIn, Greatest
<1>6. Links /\ RegistryLinksNewest
  BY <1>4 DEF Init, Links, RegistryLinksNewest, NoSurvey
<1> QED
  BY <1>1, <1>2, <1>3, <1>5, <1>6 DEF Inv, Types, Snapshots, Rows, Jobs

LEMMA UploadInv ==
  ASSUME Inv, NEW c \in Clients, NEW s \in Sources, Upload(c, s)
  PROVE  Inv'
<1> USE DEF Inv
<1>1. job' \in [Sources -> JobType]
  BY DEF Upload, Types, TypeOK, JobType
<1>2. Jobs'
  BY DEF Upload, Rows, Jobs, Types, TypeOK, JobType
<1>3. Rows'
  BY <1>2, RegistryUnchanged DEF Upload
<1>4. client' \in [Clients -> ClientType] /\ Snapshots'
  <2>1. PICK r \in reads[s] :
          client' = [client EXCEPT ![c] = [Idle(s, r) EXCEPT !.pc = "recording"]]
    BY DEF Upload
  <2> DEFINE x == [Idle(s, r) EXCEPT !.pc = "recording"]
  <2>2. x \in ClientType /\ x.pc = "recording"
    <3>1. r \in Reading
      BY DEF Types, TypeOK
    <3> QED
      BY <3>1, IdleTyped DEF ClientType
  <2>3. client' = [client EXCEPT ![c] = x] /\ UNCHANGED versions
    BY <2>1 DEF Upload
  <2> HIDE DEF x
  <2> QED
    BY <2>2, <2>3, ClientTypes
<1> QED
  BY <1>1, <1>3, <1>4 DEF Upload, Types, TypeOK

LEMMA RecordInv ==
  ASSUME Inv, NEW c \in Clients, Record(c)
  PROVE  Inv'
<1> USE DEF Inv
<1> DEFINE s == client[c].source
           read == client[c].expected
<1>1. s \in Sources /\ read \in Reading /\ client[c] \in ClientType
  BY ClientFacts DEF Types
<1>2. /\ job' \in [Sources -> JobType]
      /\ \A t \in Sources \ {s} : job'[t] = job[t]
      /\ job'[s].status \in {"failed", "validated"}
      /\ job'[s].status = "validated" => read # NoDefinition
      /\ job'[s].checksum = read
  BY <1>1 DEF Record, Types, TypeOK, JobType
<1>3. Jobs'
  BY <1>1, <1>2 DEF Record, Rows, Jobs, Reading
<1>4. Rows'
  BY <1>3, RegistryUnchanged DEF Record
<1>5. client' \in [Clients -> ClientType] /\ Snapshots'
  <2> DEFINE x == [client[c] EXCEPT !.pc = "ready"]
  <2>1. x \in ClientType /\ x.pc = "ready"
    BY <1>1 DEF ClientType
  <2>2. client' = [client EXCEPT ![c] = x] /\ UNCHANGED versions
    BY DEF Record
  <2> HIDE DEF x
  <2> QED
    BY <2>1, <2>2, ClientTypes
<1> QED
  BY <1>2, <1>4, <1>5 DEF Record, Types, TypeOK

LEMMA BeginInv ==
  ASSUME Inv, NEW c \in Clients, Begin(c)
  PROVE  Inv'
<1> USE DEF Inv
<1> DEFINE x == Attempt(client[c], 1, Snapshot(client[c].source))
<1>1. /\ client[c].source \in Sources /\ client[c].expected \in Definitions
      /\ client[c] \in ClientType
  BY ClientFacts DEF Types, Begin, Reading
<1>2. Snapshot(client[c].source) \in SnapshotType
      /\ Starts(Snapshot(client[c].source).versions, versions)
  BY <1>1, SnapshotTyped DEF Types
<1>3. /\ x \in ClientType
      /\ x.snap = Snapshot(client[c].source)
      /\ x.expected = client[c].expected
      /\ x.attempt \in 1 .. MaxAttempts
  <2>1. 1 \in 1 .. MaxAttempts
    BY ImportCommitAssumption
  <2> QED
    BY <1>1, <1>2, <2>1, AttemptTyped
<1>4. client' = [client EXCEPT ![c] = x]
  BY DEF Begin, Attempt
<1> HIDE DEF x
<1>5. client' \in [Clients -> ClientType] /\ Snapshots'
  BY <1>1, <1>2, <1>3, <1>4, ClientTypes DEF Begin
<1> QED
  BY <1>5, RowsUnchanged DEF Begin, Types, TypeOK

LEMMA RefuseInv ==
  ASSUME Inv, NEW c \in Clients, Refuse(c)
  PROVE  Inv'
<1>1. versions' = versions /\ versions \in Seq(VersionType) /\ Starts(versions, versions)
  BY DEF Refuse, Inv, Types, TypeOK, Starts
<1>2. client' \in [Clients -> ClientType] /\ Snapshots'
  BY <1>1, EndedTypes DEF Refuse, Inv
<1> QED
  BY <1>2, RowsUnchanged DEF Refuse, Inv, Types, TypeOK

LEMMA ReplayInv ==
  ASSUME Inv, NEW c \in Clients, Replay(c)
  PROVE  Inv'
<1> DEFINE snap == client[c].snap
<1>1. versions' = versions /\ versions \in Seq(VersionType) /\ Starts(versions, versions)
  BY DEF Replay, Inv, Types, TypeOK, Starts
<1>2. client' \in [Clients -> ClientType] /\ Snapshots'
  BY <1>1, EndedTypes DEF Replay, Inv
<1>3. /\ client[c].source \in Sources
      /\ snap \in SnapshotType /\ snap.job \in JobType
      /\ client[c].expected \in Definitions /\ snap.job.checksum = client[c].expected
  BY ClientFacts, CommitFacts DEF Replay, Inv, Types, Replays, Prepared
<1>4. snap.job.version \in Nat /\ snap.link[External(snap.job.checksum)] \in Nat
  BY <1>3, DefinitionFacts DEF SnapshotType, JobType
<1>5. returned' \subseteq [source : Sources, version : Nat, survey : Nat]
  BY <1>3, <1>4 DEF Replay, Returned, Inv, Types, TypeOK
<1> QED
  BY <1>2, <1>5, RowsUnchanged DEF Replay, Inv, Types, TypeOK

LEMMA ReuseInv ==
  ASSUME Inv, NEW c \in Clients, Reuse(c)
  PROVE  Inv'
<1> DEFINE snap == client[c].snap
           s == client[c].source
<1>1. versions' = versions /\ versions \in Seq(VersionType) /\ Starts(versions, versions)
  BY DEF Reuse, Inv, Types, TypeOK, Starts
<1>2. client' \in [Clients -> ClientType] /\ Snapshots'
  BY <1>1, EndedTypes DEF Reuse, Inv
<1>3. PICK v \in Matching(snap.versions, snap.job.checksum) :
        /\ job' = [job EXCEPT ![s].status = "completed", ![s].version = v]
        /\ Returned(c, v, snap.link[External(snap.job.checksum)])
  BY DEF Reuse
<1>4. /\ s \in Sources
      /\ snap \in SnapshotType /\ snap.job \in JobType
      /\ client[c].expected \in Definitions /\ snap.job.checksum = client[c].expected
  BY ClientFacts, CommitFacts DEF Reuse, Inv, Types, Reuses, Prepared
<1>5. v \in Matching(versions, job[s].checksum) /\ v \in Nat
  BY ReuseKeeps DEF Reuse
<1>6. /\ job' \in [Sources -> JobType]
      /\ \A t \in Sources \ {s} : job'[t] = job[t]
      /\ job'[s].checksum = job[s].checksum
      /\ job'[s].version = v
      /\ job'[s].status = "completed"
  BY <1>3, <1>4, <1>5 DEF Inv, Types, TypeOK, JobType
<1>7. Jobs'
  BY <1>1, <1>5, <1>6 DEF Inv, Rows, Jobs
<1>8. snap.link[External(snap.job.checksum)] \in Nat
  BY <1>4, DefinitionFacts DEF SnapshotType
<1>9. returned' \subseteq [source : Sources, version : Nat, survey : Nat]
  BY <1>3, <1>4, <1>5, <1>8 DEF Returned, Inv, Types, TypeOK
<1> QED
  BY <1>2, <1>6, <1>7, <1>9, RegistryUnchanged DEF Reuse, Inv, Types, TypeOK

LEMMA CreateInv ==
  ASSUME Inv, NEW c \in Clients, Create(c)
  PROVE  Inv'
<1> DEFINE d == client[c].expected
           s == client[c].source
           e == External(d)
           v == Len(versions) + 1
           i == Len(surveys) + 1
           x == [checksum |-> d, number |-> Cardinality(VersionsOf(versions, e)) + 1]
<1>1. /\ TypeOK /\ Rows
      /\ s \in Sources /\ d \in Definitions /\ e \in Externals
  BY ClientFacts, CommitFacts, DefinitionFacts DEF Create, Inv, Types
<1>2. /\ job[s].checksum = d
      /\ Matching(versions, d) = {}
      /\ x \in VersionType
      /\ versions' = Append(versions, x)
  <2>1. /\ NextNumber(client[c].snap.versions, e) = Cardinality(VersionsOf(versions, e)) + 1
        /\ Cardinality(VersionsOf(versions, e)) \in Nat
    BY CreateFresh
  <2>2. x \in VersionType
    BY <1>1, <2>1 DEF VersionType
  <2>3. versions' = Append(versions, x)
    BY <2>1 DEF Create
  <2> QED
    BY <2>2, <2>3, CreateFresh
<1>3. /\ versions \in Seq(VersionType) /\ surveys \in Seq(SurveyType)
      /\ Len(versions) \in Nat /\ Len(surveys) \in Nat
  BY <1>1 DEF TypeOK
<1>4. /\ surveys' = Append(surveys, [checksum |-> d, live |-> TRUE])
      /\ link' = [link EXCEPT ![e] = i]
      /\ job' = [job EXCEPT ![s].status = "completed", ![s].version = v]
      /\ Returned(c, v, i)
      /\ Ended(c)
      /\ UNCHANGED reads
  BY DEF Create, Relink
<1>5. x.checksum = d /\ x.number = Cardinality(VersionsOf(versions, e)) + 1
  OBVIOUS
<1> HIDE DEF x
<1>6. /\ versions' \in Seq(VersionType)
      /\ Starts(versions, versions')
      /\ DOMAIN versions' = DOMAIN versions \cup {v}
      /\ versions'[v] = x
      /\ \A j \in DOMAIN versions : versions'[j] = versions[j]
      /\ v \notin DOMAIN versions
  BY <1>2, <1>3, AppendStarts
<1>7. \A a : VersionsOf(versions', a) =
               IF e = a THEN VersionsOf(versions, a) \cup {v} ELSE VersionsOf(versions, a)
  BY <1>2, <1>3, <1>5, VersionsAppended
<1>8. /\ surveys' \in Seq(SurveyType)
      /\ Len(surveys') = i
      /\ surveys'[i].checksum = d
      /\ \A j \in DOMAIN surveys : surveys'[j] = surveys[j]
      /\ DOMAIN surveys \subseteq DOMAIN surveys'
      /\ DOMAIN surveys = 1 .. Len(surveys)
  BY <1>1, <1>3, <1>4 DEF SurveyType
<1>9. /\ link' \in [Externals -> Nat]
      /\ link'[e] = i
      /\ \A a \in Externals \ {e} : link'[a] = link[a]
  BY <1>1, <1>3, <1>4 DEF TypeOK
<1>10. /\ job' \in [Sources -> JobType]
       /\ \A t \in Sources \ {s} : job'[t] = job[t]
       /\ job'[s].checksum = d /\ job'[s].version = v /\ job'[s].status = "completed"
  <2>1. job \in [Sources -> JobType] /\ v \in Nat /\ job[s] \in JobType
    BY <1>1, <1>3 DEF TypeOK
  <2>2. job' = [job EXCEPT ![s] = [job[s] EXCEPT !.status = "completed", !.version = v]]
    BY <1>4
  <2>3. LET y == [job[s] EXCEPT !.status = "completed", !.version = v]
        IN  /\ y \in JobType /\ y.checksum = job[s].checksum
            /\ y.version = v /\ y.status = "completed"
    BY <2>1 DEF JobType
  <2> QED
    BY <1>1, <1>2, <2>1, <2>2, <2>3
<1>11. client' \in [Clients -> ClientType] /\ Snapshots'
  BY <1>4, <1>6, EndedTypes DEF Inv
<1>12. returned' \subseteq [source : Sources, version : Nat, survey : Nat]
  BY <1>1, <1>3, <1>4 DEF Returned, TypeOK
<1>13. Types'
  BY <1>1, <1>4, <1>6, <1>8, <1>9, <1>10, <1>11, <1>12 DEF Types, TypeOK
<1>14. Jobs'
  <2>1. v \in Matching(versions', d)
    BY <1>5, <1>6 DEF Matching
  <2>2. \A a : Matching(versions, a) \subseteq Matching(versions', a)
    BY <1>3, <1>6, StartsSame
  <2> QED
    BY <1>1, <1>10, <2>1, <2>2 DEF Rows, Jobs
<1>15. UniqueIn(versions') /\ NumberedIn(versions')
  BY <1>1, <1>2, <1>3, <1>5, UniqueAppend, NumberedAppend DEF Rows
<1>16. Links'
  <2> SUFFICES ASSUME NEW a \in Externals
               PROVE  /\ link'[a] \in 0 .. Len(surveys')
                      /\ (link'[a] = NoSurvey /\ VersionsOf(versions', a) # {}) =>
                           \E j \in DOMAIN surveys' : ~surveys'[j].live
    BY DEF Links
  <2>1. CASE a = e
    BY <1>3, <1>8, <1>9, <2>1 DEF NoSurvey
  <2>2. CASE a # e
    <3>1. /\ link'[a] = link[a] /\ VersionsOf(versions', a) = VersionsOf(versions, a)
          /\ link[a] \in 0 .. Len(surveys)
          /\ (link[a] = NoSurvey /\ VersionsOf(versions, a) # {}) =>
               \E j \in DOMAIN surveys : ~surveys[j].live
      BY <1>1, <1>7, <1>9, <2>2 DEF Rows, Links
    <3> QED
      BY <1>3, <1>8, <3>1
  <2> QED
    BY <2>1, <2>2
<1>17. RegistryLinksNewest'
  <2> SUFFICES ASSUME NEW a \in Externals, link'[a] # NoSurvey,
                      NEW j \in VersionsOf(versions', a),
                      \A k \in VersionsOf(versions', a) : k <= j
               PROVE  surveys'[link'[a]].checksum = versions'[j].checksum
    BY DEF RegistryLinksNewest
  <2>1. CASE a = e
    <3>1. /\ VersionsOf(versions', e) = VersionsOf(versions, e) \cup {v}
          /\ VersionsOf(versions, e) \subseteq DOMAIN versions
          /\ \A k \in DOMAIN versions : k \in Nat /\ k < v
      <4>1. VersionsOf(versions, e) \subseteq DOMAIN versions
        BY DEF VersionsOf
      <4>2. VersionsOf(versions', e) = VersionsOf(versions, e) \cup {v}
        BY <1>7
      <4>3. \A k \in DOMAIN versions : k \in Nat /\ k < v
        BY <1>3
      <4> QED
        BY <4>1, <4>2, <4>3
    <3>2. v <= j /\ (j \in DOMAIN versions \/ j = v)
      BY <2>1, <3>1
    <3>3. j = v
      BY <1>3, <3>1, <3>2
    <3> QED
      BY <1>5, <1>6, <1>8, <1>9, <2>1, <3>3
  <2>2. CASE a # e
    <3>1. /\ VersionsOf(versions', a) = VersionsOf(versions, a)
          /\ link'[a] = link[a]
          /\ link[a] \in 1 .. Len(surveys)
      BY <1>1, <1>3, <1>7, <1>9, <2>2 DEF Rows, Links, NoSurvey
    <3>2. j \in DOMAIN versions
      BY <3>1 DEF VersionsOf
    <3>3. surveys[link[a]].checksum = versions[j].checksum
      BY <1>1, <3>1 DEF Rows, RegistryLinksNewest
    <3> QED
      BY <1>6, <1>8, <3>1, <3>2, <3>3
  <2> QED
    BY <2>1, <2>2
<1> QED
  BY <1>13, <1>14, <1>15, <1>16, <1>17 DEF Inv, Rows

LEMMA ConflictInv ==
  ASSUME Inv, NEW c \in Clients, Conflict(c)
  PROVE  Inv'
<1>1. /\ versions' = versions /\ versions \in Seq(VersionType)
      /\ Starts(versions, versions)
      /\ UNCHANGED <<reads, job, link, surveys, returned>>
  BY DEF Conflict, Inv, Types, TypeOK, Starts
<1>2. client' \in [Clients -> ClientType] /\ Snapshots'
  <2>1. CASE Ended(c)
    BY <1>1, <2>1, EndedTypes DEF Inv
  <2>2. CASE /\ AttemptsLeft(c)
             /\ client' = [client EXCEPT ![c].attempt = @ + 1,
                                         ![c].snap = Snapshot(client[c].source)]
    <3> DEFINE n == client[c].attempt + 1
               sn == Snapshot(client[c].source)
               x == Attempt(client[c], n, sn)
    <3>1. /\ client[c].source \in Sources /\ client[c].expected \in Definitions
          /\ client[c] \in ClientType /\ client[c].pc = "committing"
          /\ client[c].attempt \in 1 .. MaxAttempts
      BY ClientFacts, CommitFacts DEF Conflict, Committing, Inv, Types, Snapshots
    <3>2. sn \in SnapshotType /\ Starts(sn.versions, versions)
      BY <3>1, SnapshotTyped DEF Inv, Types
    <3>3. n \in 1 .. MaxAttempts
      BY <2>2, <3>1, ImportCommitAssumption DEF AttemptsLeft
    <3>4. /\ x \in ClientType /\ x.snap = sn
          /\ x.expected = client[c].expected /\ x.attempt = n
      BY <3>1, <3>2, <3>3, AttemptTyped
    <3>5. client' = [client EXCEPT ![c] = x]
      <4>1. [client[c] EXCEPT !.attempt = n, !.snap = sn] = x
        BY <3>1 DEF Attempt, ClientType
      <4>2. client' = [client EXCEPT ![c] = [client[c] EXCEPT !.attempt = n, !.snap = sn]]
        BY <2>2
      <4> QED
        BY <4>1, <4>2
    <3> HIDE DEF x, sn, n
    <3> QED
      BY <1>1, <3>1, <3>2, <3>3, <3>4, <3>5, ClientTypes DEF Inv
  <2> QED
    BY <2>1, <2>2 DEF Conflict
<1> QED
  BY <1>1, <1>2, RowsUnchanged DEF Inv, Types, TypeOK

LEMMA DeleteSurveyInv ==
  ASSUME Inv, NEW i \in DOMAIN surveys, DeleteSurvey(i)
  PROVE  Inv'
<1>1. /\ TypeOK /\ Rows /\ Snapshots
      /\ UNCHANGED <<reads, job, versions, client, returned>>
  BY DEF DeleteSurvey, Inv, Types
<1>2. /\ surveys' \in Seq(SurveyType)
      /\ DOMAIN surveys' = DOMAIN surveys /\ Len(surveys') = Len(surveys)
      /\ ~surveys'[i].live
      /\ \A j \in DOMAIN surveys : surveys'[j].checksum = surveys[j].checksum
  <2>1. surveys \in Seq(SurveyType) /\ \A j \in DOMAIN surveys : surveys[j] \in SurveyType
    BY <1>1 DEF TypeOK
  <2>2. surveys' = [surveys EXCEPT ![i] = [surveys[i] EXCEPT !.live = FALSE]]
    BY DEF DeleteSurvey
  <2>3. LET y == [surveys[i] EXCEPT !.live = FALSE]
        IN  y \in SurveyType /\ y.live = FALSE /\ y.checksum = surveys[i].checksum
    BY <2>1 DEF SurveyType
  <2> QED
    <3> DEFINE y == [surveys[i] EXCEPT !.live = FALSE]
    <3>1. /\ surveys' \in Seq(SurveyType)
          /\ DOMAIN surveys' = DOMAIN surveys /\ Len(surveys') = Len(surveys)
      BY <2>1, <2>2, <2>3, ExceptSeq
    <3>2. surveys'[i] = y /\ \A j \in DOMAIN surveys \ {i} : surveys'[j] = surveys[j]
      BY <2>2
    <3> QED
      BY <2>3, <3>1, <3>2
<1>3. /\ link' \in [Externals -> Nat]
      /\ \A e \in Externals : link'[e] = link[e] \/ link'[e] = NoSurvey
  BY <1>1 DEF DeleteSurvey, TypeOK, NoSurvey
<1>4. Types'
  BY <1>1, <1>2, <1>3 DEF Types, TypeOK, Snapshots, Committing
<1>5. Jobs' /\ UniqueIn(versions') /\ NumberedIn(versions')
  BY <1>1 DEF Rows, Jobs
<1>6. Links'
  BY <1>1, <1>2, <1>3 DEF Rows, Links, NoSurvey
<1>7. RegistryLinksNewest'
  <2>1. \A e \in Externals : link[e] # NoSurvey => link[e] \in DOMAIN surveys
    BY <1>1 DEF Rows, Links, NoSurvey, TypeOK
  <2> QED
    BY <1>1, <1>2, <1>3, <2>1 DEF Rows, RegistryLinksNewest
<1> QED
  BY <1>4, <1>5, <1>6, <1>7 DEF Inv, Rows

LEMMA StutterInv ==
  ASSUME Inv, UNCHANGED vars
  PROVE  Inv'
BY RowsUnchanged DEF vars, Inv, Types, TypeOK, Snapshots, Committing

LEMMA NextInv ==
  ASSUME Inv, [Next]_vars
  PROVE  Inv'
<1>1. ASSUME NEW c \in Clients, NEW s \in Sources, Upload(c, s) PROVE Inv'
  BY <1>1, UploadInv
<1>2. ASSUME NEW c \in Clients, Record(c) PROVE Inv'
  BY <1>2, RecordInv
<1>3. ASSUME NEW c \in Clients, Commit(c) PROVE Inv'
  BY <1>3, BeginInv, RefuseInv, ReplayInv, ReuseInv, CreateInv, ConflictInv DEF Commit
<1>4. ASSUME NEW i \in DOMAIN surveys, DeleteSurvey(i) PROVE Inv'
  BY <1>4, DeleteSurveyInv
<1>5. CASE UNCHANGED vars
  BY <1>5, StutterInv
<1> QED
  BY <1>1, <1>2, <1>3, <1>4, <1>5 DEF Next

(* The invariant the properties follow from holds in every reachable state.  *)
THEOREM Invariance ==
  Spec => []Inv
<1>1. Init => Inv
  BY InitInv
<1>2. Inv /\ [Next]_vars => Inv'
  BY NextInv
<1> QED
  BY <1>1, <1>2, PTL DEF Spec

-------------------------------------------------------------------------------
(* Every variable keeps its type, for any number of users and attempts.      *)
THEOREM TypeTheorem ==
  Spec => []TypeOK
<1>1. Inv => TypeOK
  BY DEF Inv, Types
<1> QED
  BY <1>1, Invariance, PTL

(* A completed job is linked to a version of the canonical survey it stores, *)
(* although recordImportValidation rewrites jobs while commits run.          *)
THEOREM JobsTheorem ==
  Spec => []JobMatchesVersion
<1>1. Inv => JobMatchesVersion
  BY DEF Inv, Rows, Jobs, JobMatchesVersion
<1> QED
  BY <1>1, Invariance, PTL

(* Commits of one canonical survey create one version of it, and the numbers *)
(* createVersion gives to the versions of a registry are consecutive,        *)
(* however commits overlap.                                                  *)
THEOREM NumbersTheorem ==
  Spec => []VersionsNumbered
<1>1. Inv => VersionsNumbered
  BY DEF Inv, Rows, UniqueIn, NumberedIn, UpTo, Matching, VersionsNumbered
<1> QED
  BY <1>1, Invariance, PTL

(* The survey a registry is linked to is the one of its newest version.      *)
THEOREM RegistryTheorem ==
  Spec => []RegistryLinksNewest
<1>1. Inv => RegistryLinksNewest
  BY DEF Inv, Rows
<1> QED
  BY <1>1, Invariance, PTL

\* The facts a commit started now would decide on allow it.
LEMMA ValidatedAccepted ==
  ASSUME Inv
  PROVE  ValidatedCommits
<1> SUFFICES ASSUME NEW s \in Sources, job[s].status = "validated",
                    VersionResolved(Snapshot(s)),
                    \A i \in DOMAIN surveys : surveys[i].live
             PROVE  Creates(Snapshot(s), job[s].checksum)
                      \/ Reuses(Snapshot(s), job[s].checksum)
  BY DEF ValidatedCommits, Accepted
<1> DEFINE d == job[s].checksum
           snap == Snapshot(s)
<1>1. /\ snap.job = job[s] /\ snap.versions = versions /\ snap.link = link
      /\ snap.live = {i \in DOMAIN surveys : surveys[i].live}
  BY DEF Snapshot
<1>2. d \in Definitions /\ d # NoDefinition /\ External(d) \in Externals
  BY DefinitionFacts DEF Inv, Rows, Jobs
<1>3. CASE Matching(versions, d) = {}
  BY <1>1, <1>2, <1>3 DEF Creates, Prepared
<1>4. CASE Matching(versions, d) # {}
  <2>1. VersionsOf(versions, External(d)) # {}
    BY <1>4 DEF Matching, VersionsOf
  <2>2. link[External(d)] \in DOMAIN surveys
    <3>1. /\ link[External(d)] \in 0 .. Len(surveys)
          /\ link[External(d)] # 0
      BY <1>2, <2>1 DEF Inv, Rows, Links, NoSurvey
    <3>2. surveys \in Seq(SurveyType)
      BY DEF Inv, Types, TypeOK
    <3> QED
      BY <3>1, <3>2
  <2>3. Linked(snap)
    BY <1>1, <2>2 DEF Linked
  <2> QED
    BY <1>1, <1>2, <1>4, <2>3 DEF Reuses, Prepared
<1> QED
  BY <1>3, <1>4

(* decideImportCommit accepts every validated job while no survey was        *)
(* deleted, unless its source is read differently than before.               *)
THEOREM ValidatedTheorem ==
  Spec => []ValidatedCommits
<1>1. Inv => ValidatedCommits
  BY ValidatedAccepted
<1> QED
  BY <1>1, Invariance, PTL

\* A step that leaves a job's version, once there is one.
Kept == \A s \in Sources : job[s].version # NoVersion =>
          job'[s].version = job[s].version

LEMMA StepKeeps ==
  ASSUME Inv, Next
  PROVE  Kept
<1>1. job \in [Sources -> JobType]
  BY DEF Inv, Types, TypeOK
<1>2. ASSUME NEW c \in Clients, NEW s \in Sources, Upload(c, s) PROVE Kept
  BY <1>1, <1>2 DEF Upload, Kept, JobType
<1>3. ASSUME NEW c \in Clients, Record(c) PROVE Kept
  BY <1>1, <1>3 DEF Record, Kept, JobType
<1>4. ASSUME NEW c \in Clients, Commit(c) PROVE Kept
  <2>1. CASE Reuse(c)
    <3> DEFINE s == client[c].source
    <3>1. PICK v \in Matching(client[c].snap.versions, client[c].snap.job.checksum) :
            job' = [job EXCEPT ![s].status = "completed", ![s].version = v]
      BY <2>1 DEF Reuse
    <3>2. job[s].version # NoVersion => v = job[s].version
      BY <2>1, ReuseKeeps DEF Reuse
    <3> QED
      BY <1>1, <3>1, <3>2 DEF Kept, JobType
  <2>2. CASE Create(c)
    <3> DEFINE s == client[c].source
    <3>1. job[s].version = NoVersion
      BY <2>2, CreateFresh
    <3>2. \A t \in Sources \ {s} : job'[t] = job[t]
      BY <1>1, <2>2 DEF Create
    <3> QED
      BY <3>1, <3>2 DEF Kept
  <2>3. CASE job' = job
    BY <2>3 DEF Kept
  <2> QED
    BY <1>4, <2>1, <2>2, <2>3 DEF Commit, Begin, Refuse, Replay, Conflict
<1>5. ASSUME job' = job PROVE Kept
  BY <1>5 DEF Kept
<1> QED
  BY <1>2, <1>3, <1>4, <1>5 DEF Next, DeleteSurvey

(* Once a commit has linked a job to a version, no later upload or commit    *)
(* links it to another one.                                                  *)
THEOREM KeepsTheorem ==
  Spec => JobKeepsVersion
<1>1. Inv /\ [Next]_vars => [Kept]_vars
  BY StepKeeps
<1>2. Spec => [][Kept]_vars
  BY <1>1, Invariance, PTL DEF Spec
<1> QED
  BY <1>2 DEF JobKeepsVersion, Kept

-------------------------------------------------------------------------------
(* The import is a registry of versions.  Two more facts are needed: an      *)
(* external id is linked to a survey of its own, so that a deletion takes    *)
(* one registry's survey away, and a job that had a version when a commit    *)
(* read it has it still, so that a replay answers with it.                   *)
Own ==
  \A e \in Externals : link[e] # NoSurvey =>
    /\ link[e] \in DOMAIN surveys
    /\ External(surveys[link[e]].checksum) = e

ReadVersions ==
  \A c \in Clients : Committing(c) => client[c].snap.job.version \in
    {NoVersion, job[client[c].source].version}

LEMMA OwnKept ==
  ASSUME Inv, Own, [Next]_vars
  PROVE  Own'
<1>1. /\ surveys \in Seq(SurveyType) /\ link \in [Externals -> Nat]
      /\ DOMAIN surveys = 1 .. Len(surveys) /\ Len(surveys) \in Nat
  BY DEF Inv, Types, TypeOK
<1>2. ASSUME NEW c \in Clients, Create(c) PROVE Own'
  <2> DEFINE d == client[c].expected
             i == Len(surveys) + 1
  <2>1. surveys' = Append(surveys, [checksum |-> d, live |-> TRUE])
    BY <1>2 DEF Create
  <2>2. link' = [link EXCEPT ![External(d)] = i]
    BY <1>2 DEF Create, Relink
  <2>3. /\ surveys'[i].checksum = d /\ i \in DOMAIN surveys'
        /\ \A j \in DOMAIN surveys : j \in DOMAIN surveys' /\ surveys'[j] = surveys[j]
    BY <1>1, <2>1
  <2>4. /\ External(d) \in Externals => link'[External(d)] = i
        /\ \A e \in Externals : e # External(d) => link'[e] = link[e]
    BY <1>1, <2>2
  <2> QED
    BY <2>3, <2>4 DEF Own
<1>3. ASSUME NEW i \in DOMAIN surveys, DeleteSurvey(i) PROVE Own'
  <2>1. surveys' = [surveys EXCEPT ![i].live = FALSE]
    BY <1>3 DEF DeleteSurvey
  <2>2. /\ DOMAIN surveys' = DOMAIN surveys
        /\ \A j \in DOMAIN surveys : surveys'[j].checksum = surveys[j].checksum
    BY <1>1, <2>1 DEF SurveyType
  <2>3. \A e \in Externals : link'[e] = link[e] \/ link'[e] = NoSurvey
    BY <1>3 DEF DeleteSurvey
  <2> QED
    BY <2>2, <2>3 DEF Own
<1>4. CASE UNCHANGED <<surveys, link>>
  BY <1>4 DEF Own
<1> QED
  BY <1>2, <1>3, <1>4
  DEF Next, vars, Upload, Record, Commit, Begin, Refuse, Replay, Reuse, Conflict

\* A user who is in a commit after a step was in it before, or reads now.
LEMMA StillReads ==
  ASSUME Inv, [Next]_vars, NEW c \in Clients, Committing(c)'
  PROVE  \/ Committing(c) /\ client'[c] = client[c]
         \/ client'[c].snap = Snapshot(client'[c].source) /\ UNCHANGED job
<1>1. client \in [Clients -> ClientType]
  BY DEF Inv, Types, TypeOK
<1>2. ASSUME NEW b \in Clients, Ended(b) PROVE Committing(c) /\ client'[c] = client[c]
  BY <1>1, <1>2 DEF Ended, Idle, Committing
<1>3. ASSUME NEW b \in Clients, NEW s \in Sources, Upload(b, s)
      PROVE  Committing(c) /\ client'[c] = client[c]
  BY <1>1, <1>3 DEF Upload, Committing
<1>4. ASSUME NEW b \in Clients, Record(b)
      PROVE  Committing(c) /\ client'[c] = client[c]
  BY <1>1, <1>4 DEF Record, Committing, ClientType
<1>5. ASSUME NEW b \in Clients, \/ Begin(b)
                                \/ Conflict(b) /\ ~Ended(b)
      PROVE  \/ Committing(c) /\ client'[c] = client[c]
             \/ client'[c].snap = Snapshot(client'[c].source) /\ UNCHANGED job
  <2>1. CASE b # c
    BY <1>1, <1>5, <2>1 DEF Begin, Conflict, Committing
  <2>2. CASE b = c
    BY <1>1, <1>5, <2>2 DEF Begin, Conflict, Committing, ClientType
  <2> QED
    BY <2>1, <2>2
<1>6. CASE UNCHANGED client
  BY <1>6 DEF Committing
<1> QED
  BY <1>2, <1>3, <1>4, <1>5, <1>6
  DEF Next, vars, Commit, Refuse, Replay, Reuse, Create, DeleteSurvey

LEMMA ReadVersionsKept ==
  ASSUME Inv, ReadVersions, [Next]_vars
  PROVE  ReadVersions'
<1> SUFFICES ASSUME NEW c \in Clients, Committing(c)'
             PROVE  client'[c].snap.job.version \in {NoVersion, job'[client'[c].source].version}
  BY DEF ReadVersions
<1>1. Kept
  BY StepKeeps DEF vars, Kept
<1>2. CASE Committing(c) /\ client'[c] = client[c]
  <2>1. client[c].source \in Sources
    BY ClientFacts DEF Inv, Types
  <2> QED
    BY <1>1, <1>2, <2>1 DEF ReadVersions, Kept
<1>3. CASE client'[c].snap = Snapshot(client'[c].source) /\ UNCHANGED job
  BY <1>3 DEF Snapshot
<1> QED
  BY <1>2, <1>3, StillReads

LEMMA RegistryInitially == Init => Registry!Init
<1> SUFFICES ASSUME Init PROVE Registry!Init
  OBVIOUS
<1>1. Produced = [s \in Sources |-> 0]
  BY DEF Init, Produced, NoJob, NoVersion
<1>2. Current = [e \in Externals |-> <<>>]
  BY DEF Init, Current, NoSurvey, NoDefinition
<1>3. Answered = {}
  BY DEF Init, Answered
<1> QED
  BY <1>1, <1>2, <1>3 DEF Init, Registry!Init, Registry!Nothing

\* An answer is one more pair, and one job may have become linked.
LEMMA ReturnedAnswers ==
  ASSUME NEW c \in Clients, NEW v, NEW i, Returned(c, v, i)
  PROVE  Answered' = Answered \cup {<<client[c].source, v>>}
<1> DEFINE r == [source |-> client[c].source, version |-> v, survey |-> i]
<1>1. returned' = returned \cup {r} /\ r.source = client[c].source /\ r.version = v
  BY DEF Returned
<1> HIDE DEF r
<1> QED
  BY <1>1 DEF Answered

LEMMA LinkedProduces ==
  ASSUME job \in [Sources -> JobType], NEW s \in Sources, NEW v \in Nat,
         job' = [job EXCEPT ![s].status = "completed", ![s].version = v]
  PROVE  Produced' = [Produced EXCEPT ![s] = v] /\ Produced[s] = job[s].version
BY DEF Produced, JobType

\* A commit that finds a version adopts it.
LEMMA ReuseAdopts ==
  ASSUME Inv, NEW c \in Clients, Reuse(c)
  PROVE  \E v \in DOMAIN versions : Registry!Adopt(client[c].source, v)
<1> DEFINE s == client[c].source
           snap == client[c].snap
<1>1. PICK v \in Matching(snap.versions, snap.job.checksum) :
        /\ job' = [job EXCEPT ![s].status = "completed", ![s].version = v]
        /\ Returned(c, v, snap.link[External(snap.job.checksum)])
  BY DEF Reuse
<1>2. job \in [Sources -> JobType] /\ versions \in Seq(VersionType) /\ s \in Sources
  BY ClientFacts DEF Inv, Types, TypeOK
<1>3. /\ v \in DOMAIN versions /\ v \in Nat
      /\ job[s].version # NoVersion => v = job[s].version
  BY <1>2, ReuseKeeps, MatchingTyped DEF Reuse
<1>4. Produced' = [Produced EXCEPT ![s] = v] /\ Produced[s] \in {0, v}
  BY <1>1, <1>2, <1>3, LinkedProduces DEF NoVersion
<1>5. Answered' = Answered \cup {<<s, v>>}
  BY <1>1, ReturnedAnswers
<1>6. UNCHANGED <<versions, Current>>
  BY DEF Reuse, Current
<1> QED
  BY <1>3, <1>4, <1>5, <1>6 DEF Registry!Adopt, Registry!Answer

\* A replay adopts the version its job has, which is still the one it read.
LEMMA ReplayAdopts ==
  ASSUME Inv, ReadVersions, NEW c \in Clients, Replay(c)
  PROVE  \E v \in DOMAIN versions : Registry!Adopt(client[c].source, v)
<1> DEFINE s == client[c].source
           snap == client[c].snap
           v == snap.job.version
<1>1. /\ Committing(c) /\ Replays(snap, client[c].expected)
      /\ Returned(c, v, snap.link[External(snap.job.checksum)])
      /\ UNCHANGED <<job, versions, link, surveys>>
  BY DEF Replay
<1>2. job \in [Sources -> JobType] /\ versions \in Seq(VersionType) /\ s \in Sources
  BY ClientFacts DEF Inv, Types, TypeOK
<1>3. v \in DOMAIN versions /\ v # 0
  <2>1. v \in Matching(versions, snap.job.checksum)
    BY <1>1, CommitFacts DEF Inv, Replays
  <2> QED
    BY <1>2, <2>1, MatchingTyped
<1>4. job[s].version = v
  BY <1>1, <1>3 DEF ReadVersions, NoVersion
<1>5. Produced[s] = v /\ Produced' = Produced /\ Produced \in [Sources -> Nat]
  BY <1>1, <1>2, <1>4 DEF Produced, JobType
<1>6. Produced' = [Produced EXCEPT ![s] = v]
  BY <1>2, <1>5
<1>7. Answered' = Answered \cup {<<s, v>>}
  BY <1>1, ReturnedAnswers
<1>8. UNCHANGED <<versions, Current>>
  BY <1>1 DEF Current
<1> QED
  BY <1>3, <1>5, <1>6, <1>7, <1>8 DEF Registry!Adopt, Registry!Answer

\* A commit that finds none makes the next one.
LEMMA CreateMakes ==
  ASSUME Inv, NEW c \in Clients, Create(c)
  PROVE  \E d \in Definitions : Registry!Make(client[c].source, d)
<1> DEFINE s == client[c].source
           d == client[c].expected
           e == External(d)
           v == Len(versions) + 1
           i == Len(surveys) + 1
<1>1. /\ s \in Sources /\ d \in Definitions /\ e \in Externals
      /\ job \in [Sources -> JobType] /\ link \in [Externals -> Nat]
      /\ surveys \in Seq(SurveyType) /\ Len(surveys) \in Nat /\ v \in Nat
  BY ClientFacts, CommitFacts, DefinitionFacts DEF Create, Inv, Types, TypeOK
<1>2. /\ job[s].version = 0
      /\ Matching(versions, d) = {}
      /\ NextNumber(client[c].snap.versions, e) = Cardinality(VersionsOf(versions, e)) + 1
  BY CreateFresh DEF NoVersion
<1>3. /\ versions' = Append(versions,
           [checksum |-> d, number |-> NextNumber(client[c].snap.versions, e)])
      /\ surveys' = Append(surveys, [checksum |-> d, live |-> TRUE])
      /\ link' = [link EXCEPT ![e] = i]
      /\ job' = [job EXCEPT ![s].status = "completed", ![s].version = v]
      /\ Returned(c, v, i)
  BY DEF Create, Relink
<1>4. Produced[s] = 0 /\ Produced' = [Produced EXCEPT ![s] = v]
  BY <1>1, <1>2, <1>3, LinkedProduces
<1>5. Answered' = Answered \cup {<<s, v>>}
  BY <1>3, ReturnedAnswers
<1>6. VersionsOf(versions, e) = Registry!LogOf(d[1])
  BY DEF VersionsOf, External, Registry!LogOf
<1>7. \A j \in DOMAIN versions : versions[j].checksum # d
  BY <1>2 DEF Matching
<1>8. Current' = [Current EXCEPT ![e] = d]
  <2>1. /\ surveys'[i].checksum = d
        /\ \A j \in 1 .. Len(surveys) : surveys'[j] = surveys[j]
    BY <1>1, <1>3
  <2>2. link'[e] = i /\ \A a \in Externals \ {e} : link'[a] = link[a]
    BY <1>1, <1>3
  <2>3. \A a \in Externals : link[a] # 0 => link[a] \in 1 .. Len(surveys)
    BY <1>1 DEF Inv, Rows, Links
  <2> DEFINE C == [a \in Externals |-> IF link[a] = 0 THEN NoDefinition
                                       ELSE surveys[link[a]].checksum]
             C1 == [a \in Externals |-> IF link'[a] = 0 THEN NoDefinition
                                        ELSE surveys'[link'[a]].checksum]
  <2>4. C1[e] = d
    BY <1>1, <2>1, <2>2
  <2>5. \A a \in Externals \ {e} : C1[a] = C[a]
    BY <2>1, <2>2, <2>3
  <2>6. C1 = [C EXCEPT ![e] = d]
    BY <2>4, <2>5
  <2> QED
    BY <2>6 DEF Current, NoSurvey
<1>9. Registry!Cardinality(VersionsOf(versions, e)) = Cardinality(VersionsOf(versions, e))
  BY DEF Registry!Cardinality, Cardinality
<1>10. versions' = Append(versions,
         [checksum |-> d, number |-> Registry!Cardinality(Registry!LogOf(d[1])) + 1])
  BY <1>2, <1>3, <1>6, <1>9
<1>11. Current' = [Current EXCEPT ![d[1]] = d]
  BY <1>8 DEF External
<1>12. Registry!Answer(s, v)
  BY <1>4, <1>5 DEF Registry!Answer
<1>13. Registry!Make(s, d)
  BY <1>4, <1>7, <1>10, <1>11, <1>12 DEF Registry!Make
<1> QED
  BY <1>1, <1>13

\* A deletion takes at most one registry's survey away.
LEMMA DeleteWithdraws ==
  ASSUME Inv, Own, NEW i \in DOMAIN surveys, DeleteSurvey(i)
  PROVE  \/ \E e \in Externals : Registry!Withdraw(e)
         \/ UNCHANGED <<versions, Produced, Current, Answered>>
<1>1. /\ UNCHANGED <<job, versions, returned>>
      /\ surveys' = [surveys EXCEPT ![i].live = FALSE]
      /\ link' = [e \in Externals |-> IF link[e] = i THEN NoSurvey ELSE link[e]]
      /\ surveys \in Seq(SurveyType) /\ i # NoSurvey
  BY DEF DeleteSurvey, Inv, Types, TypeOK, NoSurvey
<1>2. \A j \in DOMAIN surveys : surveys'[j].checksum = surveys[j].checksum
  BY <1>1 DEF SurveyType
<1>3. UNCHANGED <<versions, Produced, Answered>>
  BY <1>1 DEF Produced, Answered
<1>4. \A e \in Externals : Current'[e] = IF link[e] = i THEN NoDefinition ELSE Current[e]
  BY <1>1, <1>2 DEF Current, Own
<1>5. DOMAIN Current' = Externals /\ DOMAIN Current = Externals
  BY DEF Current
<1>6. CASE \E e \in Externals : link[e] = i
  <2>1. PICK e \in Externals : link[e] = i
    BY <1>6
  <2>2. \A a \in Externals : link[a] = i => a = e
    BY <1>1, <2>1 DEF Own
  <2>3. Current' = [Current EXCEPT ![e] = <<>>]
    <3>1. Current' = [a \in Externals |-> Current'[a]]
      BY DEF Current
    <3>2. [Current EXCEPT ![e] = <<>>] = [a \in Externals |-> IF a = e THEN <<>> ELSE Current[a]]
      BY <1>5
    <3> QED
      BY <1>4, <2>1, <2>2, <3>1, <3>2 DEF NoDefinition
  <2> QED
    BY <1>3, <2>3 DEF Registry!Withdraw, Registry!Nothing
<1>7. CASE \A e \in Externals : link[e] # i
  <2>1. Current' = Current
    <3>1. Current' = [a \in Externals |-> Current'[a]] /\ Current = [a \in Externals |-> Current[a]]
      BY DEF Current
    <3> QED
      BY <1>4, <1>7, <3>1
  <2> QED
    BY <1>3, <2>1
<1> QED
  BY <1>6, <1>7

LEMMA RegistryStep ==
  ASSUME Inv, Own, ReadVersions, [Next]_vars
  PROVE  [Registry!Next]_<<versions, Produced, Current, Answered>>
<1>1. ASSUME NEW c \in Clients, Reuse(c) \/ Replay(c) PROVE Registry!Next
  <2>1. \E v \in DOMAIN versions : Registry!Adopt(client[c].source, v)
    BY <1>1, ReuseAdopts, ReplayAdopts
  <2>2. client[c].source \in Sources
    BY ClientFacts DEF Inv, Types
  <2> QED
    BY <2>1, <2>2 DEF Registry!Next
<1>2. ASSUME NEW c \in Clients, Create(c) PROVE Registry!Next
  <2>1. \E d \in Definitions : Registry!Make(client[c].source, d)
    BY <1>2, CreateMakes
  <2>2. client[c].source \in Sources
    BY ClientFacts DEF Inv, Types
  <2> QED
    BY <2>1, <2>2 DEF Registry!Next, Registry!Checksums, Definitions
<1>3. ASSUME NEW i \in DOMAIN surveys, DeleteSurvey(i)
      PROVE  Registry!Next \/ UNCHANGED <<versions, Produced, Current, Answered>>
  BY <1>3, DeleteWithdraws DEF Registry!Next
\* An upload writes everything of a job but its version.
<1>4. ASSUME UNCHANGED <<versions, link, surveys, returned>>,
             job' \in [Sources -> JobType], \A s \in Sources : job'[s].version = job[s].version
      PROVE  UNCHANGED <<versions, Produced, Current, Answered>>
  BY <1>4 DEF Produced, Current, Answered
<1>5. job \in [Sources -> JobType] /\ job' \in [Sources -> JobType]
  BY NextInv DEF Inv, Types, TypeOK
<1>6. ASSUME NEW c \in Clients, NEW s \in Sources, Upload(c, s)
      PROVE  UNCHANGED <<versions, Produced, Current, Answered>>
  BY <1>4, <1>5, <1>6 DEF Upload, JobType
<1>7. ASSUME NEW c \in Clients, Record(c)
      PROVE  UNCHANGED <<versions, Produced, Current, Answered>>
  BY <1>4, <1>5, <1>7 DEF Record, JobType
<1>8. ASSUME UNCHANGED <<job, versions, link, surveys, returned>>
      PROVE  UNCHANGED <<versions, Produced, Current, Answered>>
  BY <1>4, <1>5, <1>8
<1> QED
  BY <1>1, <1>2, <1>3, <1>6, <1>7, <1>8
  DEF Next, vars, Commit, Begin, Refuse, Conflict

(* The import implements VersionRegistry: although a commit decides on rows  *)
(* it read before other users uploaded, committed or deleted, each commit,   *)
(* upload and deletion is one step of a registry of versions or changes      *)
(* nothing there, for any number of sources, surveys, users and attempts.    *)
THEOREM ImportIsRegistry ==
  Spec => ImplementsRegistry
<1>1. Init => Own /\ ReadVersions
  BY DEF Init, Idle, Own, ReadVersions, Committing
<1>2. Inv /\ Own /\ ReadVersions /\ [Next]_vars => Own' /\ ReadVersions'
  BY OwnKept, ReadVersionsKept
<1>3. Inv /\ Own /\ ReadVersions /\ [Next]_vars =>
        [Registry!Next]_<<versions, Produced, Current, Answered>>
  BY RegistryStep
<1>4. Spec => [](Own /\ ReadVersions)
  BY <1>1, <1>2, Invariance, PTL DEF Spec
<1> QED
  BY <1>3, <1>4, RegistryInitially, Invariance, PTL
  DEF Spec, ImplementsRegistry, Registry!Spec
===============================================================================
