------------------------- MODULE ResponseIntakeProofs -------------------------
(***************************************************************************)
(* Proofs about ResponseIntake, for any responses, quotas, workers and     *)
(* bounds.                                                                 *)
(*                                                                         *)
(* The overshoot of a quota is bounded because a place is taken in two     *)
(* steps: a request that has counted and found a place holds it (Admitted) *)
(* until it commits.  A count leaves fewer places held than the limit,     *)
(* apart from those of the requests being served, its own among them; and  *)
(* no other step adds a place.                                             *)
(***************************************************************************)
EXTENDS ResponseIntake, FiniteSetTheorems, TLAPS

\* Every request from its write on knows the data it stores; after getQuotas
\* it knows a limit for every quota that is still there.
Fits(t, lim) ==
  /\ t \in Task \union {Idle}
  /\ t.at \in {"write", "quotas", "count", "link"} => t.data \in Answers
  /\ t.at \in {"count", "link"} =>
       \A q \in Quotas : /\ t.known[q] <= Quota[q].limit
                         /\ lim[q] > 0 => t.known[q] > 0

\* A response nobody has reported as finished is about to be reported.
Reports ==
  \A r \in Responses :
    (rows[r].status = "stored" /\ rows[r].finished
       /\ ~rows[r].reported /\ ~rows[r].quiet) =>
      \E w \in Workers : /\ Works(w, r)
                         /\ task[w].at = "report" /\ task[w].finished

\* The responses that hold a place of the quota q, and those about to.
Held(q) == {r \in Counted(q) : rows[r].evaluated}
Admits(q, t) == t.at = "link" /\ q \in Linked(t) /\ q \notin t.full
AdmittedBy(q, tasks) == {tasks[w].r : w \in {v \in Workers : Admits(q, tasks[v])}}
Admitted(q) == AdmittedBy(q, task)
Places(q) == Held(q) \union Admitted(q)

Bound(q) == Quota[q].limit + Cardinality(Workers) - 1
Bounded == \A q \in Quotas : limit[q] > 0 => Cardinality(Places(q)) <= Bound(q)

Limits == \A q \in Quotas : limit[q] <= Quota[q].limit
Tasks == \A w \in Workers : Fits(task[w], limit)

Inv == TypeOK /\ Tasks /\ Limits /\ LinksMatch /\ Reports /\ Bounded

-------------------------------------------------------------------------------
(* Facts about the operators.                                                *)
LEMMA QuotaFacts ==
  ASSUME NEW q \in Quotas
  PROVE  /\ Quota[q].limit \in Nat \ {0}
         /\ Quota[q].accepts \subseteq Answers
         /\ Quota[q].ends \in BOOLEAN /\ Quota[q].partial \in BOOLEAN
<1> DEFINE S == [accepts : SUBSET Answers, limit : Nat \ {0},
                 ends : BOOLEAN, partial : BOOLEAN]
<1>1. Quota \in Seq(S)
  BY IntakeAssumption
<1>2. Quota[q] \in S
  <2> HIDE DEF S
  <2> QED
    BY <1>1 DEF Quotas
<1> QED
  BY <1>2

LEMMA NewRowTyped ==
  NewRow \in Row /\ NewRow.status = "new"
BY IntakeAssumption DEF NewRow, Row, NoLinks, LinkStatus

LEMMA IdleFits ==
  ASSUME NEW lim
  PROVE  Fits(Idle, lim)
BY DEF Fits, Idle

\* Every worker admits one response at most.
LEMMA AdmittedFinite ==
  ASSUME NEW q, NEW tasks
  PROVE  /\ IsFiniteSet(AdmittedBy(q, tasks))
         /\ Cardinality(AdmittedBy(q, tasks)) \in Nat
         /\ Cardinality(AdmittedBy(q, tasks)) <= Cardinality(Workers)
         /\ Cardinality(Workers) \in Nat
<1> DEFINE V == {v \in Workers : Admits(q, tasks[v])}
           f == [w \in V |-> tasks[w].r]
<1>1. IsFiniteSet(V) /\ Cardinality(V) <= Cardinality(Workers)
  <2>1. V \in SUBSET Workers
    OBVIOUS
  <2> QED
    BY <2>1, IntakeAssumption, FS_Subset
<1>2. /\ Cardinality(V) \in Nat /\ Cardinality(Workers) \in Nat
  BY <1>1, IntakeAssumption, FS_CardinalityType
<1>3. f \in Surjection(V, AdmittedBy(q, tasks))
  BY DEF Surjection, AdmittedBy
<1>4. /\ IsFiniteSet(AdmittedBy(q, tasks))
      /\ Cardinality(AdmittedBy(q, tasks)) <= Cardinality(V)
  BY <1>1, <1>3, FS_Surjection
<1>5. Cardinality(AdmittedBy(q, tasks)) \in Nat
  BY <1>4, FS_CardinalityType
<1> QED
  BY <1>1, <1>2, <1>4, <1>5

LEMMA PlacesFinite ==
  ASSUME NEW q
  PROVE  IsFiniteSet(Places(q)) /\ Cardinality(Places(q)) \in Nat
<1>1. IsFiniteSet(Held(q))
  <2>1. Held(q) \in SUBSET Responses
    BY DEF Held, Counted
  <2> QED
    BY <2>1, IntakeAssumption, FS_Subset
<1>2. IsFiniteSet(Places(q))
  BY <1>1, AdmittedFinite, FS_Union DEF Places, Admitted
<1> QED
  BY <1>2, FS_CardinalityType

\* No step that takes no place can break the bound.
LEMMA BoundKept ==
  ASSUME TypeOK, Bounded, TypeOK',
         \A q \in Quotas : limit'[q] > 0 => limit[q] > 0,
         \A q \in Quotas : limit'[q] > 0 => Places(q)' \subseteq Places(q)
  PROVE  Bounded'
<1> SUFFICES ASSUME NEW q \in Quotas, limit'[q] > 0
             PROVE  Cardinality(Places(q)') <= Bound(q)
  BY DEF Bounded, Bound
<1>1. Cardinality(Places(q)) <= Bound(q) /\ Places(q)' \subseteq Places(q)
  BY DEF Bounded
<1>2. /\ IsFiniteSet(Places(q)) /\ Cardinality(Places(q)) \in Nat
      /\ Cardinality(Workers) \in Nat
  BY PlacesFinite, AdmittedFinite
<1>3. IsFiniteSet(Places(q)') /\ Cardinality(Places(q)') <= Cardinality(Places(q))
  BY <1>1, <1>2, FS_Subset
<1>4. Cardinality(Places(q)') \in Nat /\ Bound(q) \in Int
  BY <1>2, <1>3, FS_CardinalityType, QuotaFacts DEF Bound
<1> QED
  BY <1>1, <1>2, <1>3, <1>4

LEMMA TaskChanged ==
  ASSUME TypeOK, NEW w \in Workers, NEW x \in Task \union {Idle}, Become(w, x)
  PROVE  /\ task' \in [Workers -> Task \union {Idle}]
         /\ task'[w] = x
         /\ \A v \in Workers \ {w} : task'[v] = task[v]
BY DEF TypeOK, Become

\* What the other workers are about to admit is not changed by a worker.
LEMMA AdmittedChanged ==
  ASSUME TypeOK, NEW w \in Workers, NEW x \in Task \union {Idle}, Become(w, x), NEW q
  PROVE  /\ ~Admits(q, x) => Admitted(q)' \subseteq Admitted(q)
         /\ Admitted(q)' \subseteq Admitted(q) \union {x.r}
         /\ Admitted(q) \subseteq Admitted(q)' \union {task[w].r}
<1>1. task'[w] = x /\ \A v \in Workers \ {w} : task'[v] = task[v]
  BY TaskChanged
<1> QED
  BY <1>1 DEF Admitted, AdmittedBy

\* A step of a request that touches no table and takes no place.
LEMMA QuietStep ==
  ASSUME Inv, NEW w \in Workers, NEW x, Become(w, x), Fits(x, limit),
         \A q \in Quotas : ~Admits(q, x),
         task[w].at = "report" => ~task[w].finished,
         UNCHANGED <<rows, limit>>,
         requests' \in 0..MaxRequests, upsets' \in 0..MaxUpsets
  PROVE  Inv'
<1>1. TypeOK /\ x \in Task \union {Idle}
  BY DEF Inv, Fits
<1>2. /\ task' \in [Workers -> Task \union {Idle}]
      /\ task'[w] = x
      /\ \A v \in Workers \ {w} : task'[v] = task[v]
  BY <1>1, TaskChanged
<1>3. TypeOK'
  BY <1>1, <1>2 DEF TypeOK
<1>4. Tasks'
  BY <1>2 DEF Inv, Tasks
<1>5. Limits' /\ LinksMatch'
  BY DEF Inv, Limits, LinksMatch
<1>6. Reports'
  <2> SUFFICES ASSUME NEW r \in Responses, rows[r].status = "stored", rows[r].finished,
                      ~rows[r].reported, ~rows[r].quiet
               PROVE  \E v \in Workers : /\ Works(v, r)'
                                         /\ task'[v].at = "report" /\ task'[v].finished
    BY DEF Reports
  <2>1. PICK v \in Workers : Works(v, r) /\ task[v].at = "report" /\ task[v].finished
    BY DEF Inv, Reports
  <2>2. task'[v] = task[v]
    BY <1>2, <2>1
  <2> QED
    BY <2>1, <2>2 DEF Works, Busy
<1>7. \A q \in Quotas : Places(q)' \subseteq Places(q)
  BY <1>1, AdmittedChanged DEF Places, Held, Counted
<1>8. Bounded'
  BY <1>1, <1>3, <1>7, BoundKept DEF Inv
<1> QED
  BY <1>3, <1>4, <1>5, <1>6, <1>8 DEF Inv

LEMMA Counters ==
  ASSUME TypeOK
  PROVE  /\ requests \in 0..MaxRequests /\ upsets \in 0..MaxUpsets
         /\ Upset => upsets' \in 0..MaxUpsets
         /\ (requests < MaxRequests /\ requests' = requests + 1) =>
              requests' \in 0..MaxRequests
BY IntakeAssumption DEF TypeOK, Upset

-------------------------------------------------------------------------------
(* The invariant holds initially and every action keeps it.                  *)
LEMMA InitInv ==
  ASSUME Init
  PROVE  Inv
<1>1. TypeOK
  <2>1. rows \in [Responses -> Row] /\ \A r \in Responses : rows[r].status = "new"
    BY NewRowTyped DEF Init
  <2>2. limit \in [Quotas -> Nat]
    BY QuotaFacts DEF Init
  <2>3. requests \in 0..MaxRequests /\ upsets \in 0..MaxUpsets
    BY IntakeAssumption DEF Init
  <2> QED
    BY <2>1, <2>2, <2>3 DEF Init, TypeOK
<1>2. Tasks
  BY IdleFits DEF Init, Tasks
<1>3. Limits
  BY QuotaFacts DEF Init, Limits
<1>4. \A r \in Responses : rows[r].status # "stored"
  BY NewRowTyped DEF Init
<1>5. Bounded
  <2> SUFFICES ASSUME NEW q \in Quotas PROVE Cardinality(Places(q)) <= Bound(q)
    BY DEF Bounded
  <2>1. Places(q) = {}
    BY <1>4 DEF Places, Held, Counted, Admitted, AdmittedBy, Admits, Init, Idle
  <2>2. Cardinality(Workers) \in Nat
    BY IntakeAssumption, FS_CardinalityType
  <2>3. Quota[q].limit + Cardinality(Workers) - 1 >= 0
    BY <2>2, QuotaFacts
  <2> QED
    BY <2>1, <2>3, FS_EmptySet DEF Bound
<1> QED
  BY <1>1, <1>2, <1>3, <1>4, <1>5 DEF Inv, LinksMatch, Reports

\* Every request being served has the type of a task.
LEMMA TaskFacts ==
  ASSUME Inv, NEW w \in Workers
  PROVE  /\ Fits(task[w], limit)
         /\ Busy(w) => task[w] \in Task /\ task[w].r \in Responses
         /\ task[w].at # "idle" => Busy(w)
<1>1. Fits(task[w], limit)
  BY DEF Inv, Tasks
<1> QED
  BY <1>1 DEF Fits, Busy, Task, Idle

LEMMA CreateInv ==
  ASSUME Inv, NEW w \in Workers, NEW r \in Responses, NEW a \in Answers,
         NEW f \in BOOLEAN, Create(w, r, a, f)
  PROVE  Inv'
<1> DEFINE x == [at |-> "quotas", kind |-> "create", r |-> r, data |-> a,
                 finished |-> f, known |-> NoLimits, full |-> {}]
<1>1. x \in Task /\ x.at = "quotas" /\ x.data \in Answers
  BY DEF Task, NoLimits
<1>2. Become(w, x) /\ task[w].at = "idle"
  BY DEF Create, Start, Idle
<1> HIDE DEF x
<1>3. Fits(x, limit) /\ \A q \in Quotas : ~Admits(q, x)
  BY <1>1 DEF Fits, Admits
<1>4. requests' \in 0..MaxRequests /\ upsets' \in 0..MaxUpsets
  BY Counters DEF Create, Start, Inv
<1> QED
  BY <1>2, <1>3, <1>4, QuietStep DEF Create

LEMMA UpdateInv ==
  ASSUME Inv, NEW w \in Workers, NEW r \in Responses,
         NEW kind \in {"client", "management"}, NEW a \in Answers \union {NoAnswer},
         NEW f \in BOOLEAN, Update(w, r, kind, a, f)
  PROVE  Inv'
<1> DEFINE x == [at |-> "read", kind |-> kind, r |-> r, data |-> a,
                 finished |-> f, known |-> NoLimits, full |-> {}]
<1>1. x \in Task /\ x.at = "read"
  BY DEF Task, NoLimits
<1>2. Become(w, x) /\ task[w].at = "idle"
  BY DEF Update, Start, Idle
<1> HIDE DEF x
<1>3. Fits(x, limit) /\ \A q \in Quotas : ~Admits(q, x)
  BY <1>1 DEF Fits, Admits
<1>4. requests' \in 0..MaxRequests /\ upsets' \in 0..MaxUpsets
  BY Counters DEF Update, Start, Inv
<1> QED
  BY <1>2, <1>3, <1>4, QuietStep DEF Update

\* A worker that gives up is idle again.
LEMMA GiveUpInv ==
  ASSUME Inv, NEW w \in Workers, Become(w, Idle), task[w].at # "report",
         UNCHANGED <<rows, limit, requests, upsets>>
  PROVE  Inv'
<1>1. Fits(Idle, limit) /\ \A q \in Quotas : ~Admits(q, Idle)
  BY IdleFits DEF Admits, Idle
<1>2. requests' \in 0..MaxRequests /\ upsets' \in 0..MaxUpsets
  BY Counters DEF Inv
<1> QED
  BY <1>1, <1>2, QuietStep

LEMMA ReadInv ==
  ASSUME Inv, NEW w \in Workers, Busy(w), Read(w)
  PROVE  Inv'
<1> DEFINE t == task[w]
           x == [t EXCEPT !.at = "write", !.data = Merged(rows[t.r].data, @)]
<1>1. /\ t \in Task /\ t.r \in Responses /\ t.at = "read"
      /\ UNCHANGED <<rows, limit, requests, upsets>>
  BY TaskFacts DEF Read
<1>2. CASE Become(w, Idle)
  BY <1>1, <1>2, GiveUpInv
<1>3. CASE Become(w, x)
  <2>1. Merged(rows[t.r].data, t.data) \in Answers
    <3>1. rows[t.r].data \in Answers /\ t.data \in Answers \union {NoAnswer}
      BY <1>1 DEF Inv, TypeOK, Row, Task
    <3> QED
      BY <3>1 DEF Merged
  <2>2. x \in Task /\ x.at = "write" /\ x.data \in Answers
    BY <1>1, <2>1 DEF Task
  <2> HIDE DEF x
  <2>3. Fits(x, limit) /\ \A q \in Quotas : ~Admits(q, x)
    BY <2>2 DEF Fits, Admits
  <2>4. requests' \in 0..MaxRequests /\ upsets' \in 0..MaxUpsets
    BY <1>1, Counters DEF Inv
  <2> QED
    BY <1>1, <1>3, <2>3, <2>4, QuietStep
<1> QED
  BY <1>2, <1>3 DEF Read

LEMMA WriteInv ==
  ASSUME Inv, NEW w \in Workers, Busy(w), Write(w)
  PROVE  Inv'
<1> DEFINE t == task[w]
           x == [t EXCEPT !.at = "quotas"]
<1>1. /\ t \in Task /\ t.at = "write" /\ t.data \in Answers
      /\ UNCHANGED <<rows, limit, requests, upsets>>
  BY TaskFacts DEF Write, Fits
<1>2. CASE Become(w, Idle)
  BY <1>1, <1>2, GiveUpInv
<1>3. CASE Become(w, x)
  <2>1. x \in Task /\ x.at = "quotas" /\ x.data \in Answers
    BY <1>1 DEF Task
  <2> HIDE DEF x
  <2>2. Fits(x, limit) /\ \A q \in Quotas : ~Admits(q, x)
    BY <2>1 DEF Fits, Admits
  <2>3. requests' \in 0..MaxRequests /\ upsets' \in 0..MaxUpsets
    BY <1>1, Counters DEF Inv
  <2> QED
    BY <1>1, <1>3, <2>2, <2>3, QuietStep
<1> QED
  BY <1>2, <1>3 DEF Write

LEMMA GetQuotasInv ==
  ASSUME Inv, NEW w \in Workers, Busy(w), GetQuotas(w)
  PROVE  Inv'
<1> DEFINE t == task[w]
           x == [t EXCEPT !.at = "count", !.known = limit]
<1>1. /\ t \in Task /\ t.at = "quotas" /\ t.data \in Answers
      /\ Become(w, x)
      /\ UNCHANGED <<rows, limit, requests, upsets>>
  BY TaskFacts DEF GetQuotas, Fits
<1>2. limit \in [Quotas -> Nat] /\ Limits
  BY DEF Inv, TypeOK
<1>3. x \in Task /\ x.at = "count" /\ x.data \in Answers /\ x.known = limit
  BY <1>1, <1>2 DEF Task
<1> HIDE DEF x
<1>4. Fits(x, limit) /\ \A q \in Quotas : ~Admits(q, x)
  BY <1>2, <1>3 DEF Fits, Admits, Limits
<1>5. requests' \in 0..MaxRequests /\ upsets' \in 0..MaxUpsets
  BY <1>1, Counters DEF Inv
<1> QED
  BY <1>1, <1>4, <1>5, QuietStep

(* A count finds fewer responses than the limit, or no place.                *)
LEMMA CountInv ==
  ASSUME Inv, NEW w \in Workers, Busy(w), Count(w)
  PROVE  Inv'
<1> DEFINE t == task[w]
           x == [t EXCEPT !.at = "link", !.full = {q \in Passed(t) : IsFull(q, t)}]
<1>1. /\ t \in Task /\ t.at = "count" /\ t.data \in Answers
      /\ \A q \in Quotas : /\ t.known[q] <= Quota[q].limit
                           /\ limit[q] > 0 => t.known[q] > 0
      /\ Become(w, x)
      /\ UNCHANGED <<rows, limit, requests, upsets>>
  BY TaskFacts DEF Count, Fits
<1>2. Passed(t) \subseteq Quotas
  BY DEF Passed
<1>3. /\ x \in Task /\ x.at = "link" /\ x.data = t.data /\ x.known = t.known
      /\ x.r = t.r /\ x.full = {q \in Passed(t) : IsFull(q, t)}
  BY <1>1, <1>2 DEF Task
<1> HIDE DEF x
<1>4. Passed(x) = Passed(t)
  BY <1>3 DEF Passed
<1>5. Fits(x, limit)
  BY <1>1, <1>3 DEF Fits
<1>6. /\ task' \in [Workers -> Task \union {Idle}]
      /\ task'[w] = x
      /\ \A v \in Workers \ {w} : task'[v] = task[v]
  BY <1>1, <1>3, TaskChanged DEF Inv
<1>7. TypeOK'
  BY <1>1, <1>6 DEF Inv, TypeOK
<1>8. Tasks' /\ Limits' /\ LinksMatch'
  BY <1>1, <1>5, <1>6 DEF Inv, Tasks, Limits, LinksMatch
<1>9. Reports'
  <2> SUFFICES ASSUME NEW r \in Responses, rows[r].status = "stored", rows[r].finished,
                      ~rows[r].reported, ~rows[r].quiet
               PROVE  \E v \in Workers : /\ Works(v, r)'
                                         /\ task'[v].at = "report" /\ task'[v].finished
    BY <1>1 DEF Reports
  <2>1. PICK v \in Workers : Works(v, r) /\ task[v].at = "report" /\ task[v].finished
    BY DEF Inv, Reports
  <2>2. task'[v] = task[v]
    BY <1>1, <1>6, <2>1
  <2> QED
    BY <2>1, <2>2 DEF Works, Busy
<1>10. Bounded'
  <2> SUFFICES ASSUME NEW q \in Quotas, limit[q] > 0
               PROVE  Cardinality(Places(q)') <= Bound(q)
    BY <1>1 DEF Bounded, Bound
  <2>1. Held(q)' = Held(q)
    BY <1>1 DEF Held, Counted
  <2>2. /\ IsFiniteSet(Places(q)) /\ Cardinality(Places(q)) \in Nat
        /\ IsFiniteSet(Admitted(q)') /\ Cardinality(Admitted(q)') \in Nat
        /\ Cardinality(Admitted(q)') <= Cardinality(Workers)
        /\ Cardinality(Workers) \in Nat
    BY PlacesFinite, AdmittedFinite DEF Admitted
  <2>3. Quota[q].limit \in Nat
    BY QuotaFacts
  <2>4. CASE ~Admits(q, x)
    <3>1. Places(q)' \subseteq Places(q)
      BY <1>1, <1>3, <2>1, <2>4, AdmittedChanged DEF Places, Inv
    <3>2. /\ Cardinality(Places(q)') <= Cardinality(Places(q))
          /\ Cardinality(Places(q)') \in Nat
      BY <2>2, <3>1, FS_Subset, FS_CardinalityType
    <3>3. Cardinality(Places(q)) <= Bound(q)
      BY DEF Inv, Bounded
    <3> QED
      BY <2>2, <2>3, <3>2, <3>3 DEF Bound
  <2>5. CASE Admits(q, x)
    <3> DEFINE C == Counted(q) \ {t.r}
    <3>1. ~IsFull(q, t)
      BY <1>3, <1>4, <2>5 DEF Admits, Linked
    <3>2. IsFiniteSet(C) /\ Cardinality(C) \in Nat
      <4>1. C \in SUBSET Responses
        BY DEF Counted
      <4>2. IsFiniteSet(C)
        BY <4>1, IntakeAssumption, FS_Subset
      <4> QED
        BY <4>2, FS_CardinalityType
    <3>3. Cardinality(C) < Quota[q].limit
      <4>1. t.known[q] \in Nat /\ t.known[q] <= Quota[q].limit
        BY <1>1 DEF Task
      <4>2. ~(Cardinality(C) >= t.known[q])
        BY <3>1 DEF IsFull
      <4> QED
        BY <2>3, <3>2, <4>1, <4>2
    <3>4. t.r \in Admitted(q)'
      BY <1>3, <1>6, <2>5 DEF Admitted, AdmittedBy
    <3>5. Places(q)' \subseteq C \union Admitted(q)'
      BY <2>1, <3>4 DEF Places, Held
    <3>6. /\ IsFiniteSet(C \union Admitted(q)')
          /\ Cardinality(C \union Admitted(q)') <= Cardinality(C) + Cardinality(Admitted(q)')
      <4> DEFINE M == C \intersect Admitted(q)'
      <4>1. IsFiniteSet(M)
        <5>1. M \in SUBSET C
          OBVIOUS
        <5> QED
          BY <3>2, <5>1, FS_Subset
      <4>2. Cardinality(M) \in Nat
        BY <4>1, FS_CardinalityType
      <4>3. /\ IsFiniteSet(C \union Admitted(q)')
            /\ Cardinality(C \union Admitted(q)') =
                 Cardinality(C) + Cardinality(Admitted(q)') - Cardinality(M)
        BY <2>2, <3>2, FS_Union
      <4> HIDE DEF C, M
      <4> QED
        BY <2>2, <3>2, <4>2, <4>3
    <3>7. /\ Cardinality(Places(q)') <= Cardinality(C \union Admitted(q)')
          /\ Cardinality(Places(q)') \in Nat
      BY <3>5, <3>6, FS_Subset, FS_CardinalityType
    <3>8. Cardinality(C \union Admitted(q)') \in Nat
      BY <3>6, FS_CardinalityType
    <3> HIDE DEF C
    <3> QED
      BY <2>2, <2>3, <3>2, <3>3, <3>6, <3>7, <3>8 DEF Bound
  <2> QED
    BY <2>4, <2>5
<1> QED
  BY <1>7, <1>8, <1>9, <1>10 DEF Inv

-------------------------------------------------------------------------------
(* Steps that write a row.                                                   *)
\* The row y agrees with the quotas, and takes a place of the quota q.
Agrees(y) ==
  \A q \in Quotas : (y.status = "stored" /\ y.evaluated /\ limit[q] > 0) =>
    /\ y.links[q] # "none" => y.data \in Quota[q].accepts
    /\ (y.data \in Quota[q].accepts /\ (Quota[q].partial \/ y.finished)) =>
         y.links[q] # "none"

Takes(y, q) ==
  /\ y.status = "stored" /\ y.evaluated /\ y.links[q] = "screenedIn"
  /\ Quota[q].partial \/ y.finished

LEMMA RowStep ==
  ASSUME Inv, NEW w \in Workers, NEW x, Become(w, x), Fits(x, limit),
         \A q \in Quotas : ~Admits(q, x),
         NEW r \in Responses, NEW y \in Row, rows' = [rows EXCEPT ![r] = y],
         Agrees(y),
         \A q \in Quotas : (limit[q] > 0 /\ Takes(y, q)) => r \in Places(q),
         (y.status = "stored" /\ y.finished /\ ~y.reported /\ ~y.quiet) =>
            x.at = "report" /\ x.finished /\ x # Idle /\ x.r = r,
         task[w].at = "report" => task[w].r = r,
         task[w].r = r,
         UNCHANGED limit,
         requests' \in 0..MaxRequests, upsets' \in 0..MaxUpsets
  PROVE  Inv'
<1>1. TypeOK /\ x \in Task \union {Idle}
  BY DEF Inv, Fits
<1>2. /\ task' \in [Workers -> Task \union {Idle}]
      /\ task'[w] = x
      /\ \A v \in Workers \ {w} : task'[v] = task[v]
  BY <1>1, TaskChanged
<1>3. /\ rows' \in [Responses -> Row]
      /\ rows'[r] = y
      /\ \A p \in Responses \ {r} : rows'[p] = rows[p]
  BY <1>1 DEF TypeOK
<1>4. TypeOK'
  BY <1>1, <1>2, <1>3 DEF TypeOK
<1>5. Tasks' /\ Limits'
  BY <1>2 DEF Inv, Tasks, Limits
<1>6. LinksMatch'
  <2> SUFFICES ASSUME NEW p \in Responses, NEW q \in Quotas,
                      rows'[p].status = "stored", rows'[p].evaluated, limit[q] > 0
               PROVE  /\ rows'[p].links[q] # "none" => rows'[p].data \in Quota[q].accepts
                      /\ (rows'[p].data \in Quota[q].accepts
                            /\ (Quota[q].partial \/ rows'[p].finished)) =>
                           rows'[p].links[q] # "none"
    BY DEF LinksMatch
  <2>1. CASE p = r
    BY <1>3, <2>1 DEF Agrees
  <2>2. CASE p # r
    BY <1>3, <2>2 DEF Inv, LinksMatch
  <2> QED
    BY <2>1, <2>2
<1>7. Reports'
  <2> SUFFICES ASSUME NEW p \in Responses, rows'[p].status = "stored", rows'[p].finished,
                      ~rows'[p].reported, ~rows'[p].quiet
               PROVE  \E v \in Workers : /\ Works(v, p)'
                                         /\ task'[v].at = "report" /\ task'[v].finished
    BY DEF Reports
  <2>1. CASE p = r
    BY <1>2, <1>3, <2>1 DEF Works, Busy
  <2>2. CASE p # r
    <3>1. PICK v \in Workers : Works(v, p) /\ task[v].at = "report" /\ task[v].finished
      BY <1>3, <2>2 DEF Inv, Reports
    <3>2. task'[v] = task[v]
      BY <1>2, <2>2, <3>1 DEF Works
    <3> QED
      BY <3>1, <3>2 DEF Works, Busy
  <2> QED
    BY <2>1, <2>2
<1>8. ASSUME NEW q \in Quotas, limit[q] > 0 PROVE Places(q)' \subseteq Places(q)
  <2>1. Admitted(q)' \subseteq Admitted(q)
    BY <1>1, AdmittedChanged
  <2>2. Held(q)' \subseteq Held(q) \union {r}
    BY <1>3 DEF Held, Counted
  <2>3. r \in Held(q)' => Takes(y, q)
    BY <1>3 DEF Held, Counted, Takes
  <2> QED
    BY <1>8, <2>1, <2>2, <2>3 DEF Places
<1>9. Bounded'
  BY <1>1, <1>4, <1>8, BoundKept DEF Inv
<1> QED
  BY <1>4, <1>5, <1>6, <1>7, <1>9 DEF Inv

\* The request goes on to report.
LEMMA AnswerFits ==
  ASSUME NEW t \in Task, NEW f \in BOOLEAN
  PROVE  /\ Answer(t, f) \in Task /\ Answer(t, f) # Idle
         /\ Answer(t, f).at = "report" /\ Answer(t, f).finished = f
         /\ Answer(t, f).r = t.r
         /\ Fits(Answer(t, f), limit)
         /\ \A q \in Quotas : ~Admits(q, Answer(t, f))
<1>1. /\ Answer(t, f) \in Task
      /\ Answer(t, f).at = "report" /\ Answer(t, f).finished = f
      /\ Answer(t, f).r = t.r
  BY DEF Answer, Task, NoLimits
<1> QED
  BY <1>1 DEF Fits, Admits, Idle

\* What a transaction stores agrees with the quotas it has evaluated.
LEMMA StoredFacts ==
  ASSUME NEW t \in Task, t.data \in Answers, NEW old \in Row,
         \A q \in Quotas : limit[q] > 0 => t.known[q] > 0
  PROVE  /\ Stored(t, old) \in Row
         /\ Agrees(Stored(t, old))
         /\ \A q \in Quotas : (limit[q] > 0 /\ Takes(Stored(t, old), q)) =>
                                q \in Linked(t) /\ q \notin t.full
<1> DEFINE y == Stored(t, old)
<1>1. /\ Ends(t) \in BOOLEAN /\ Finishes(t) \in BOOLEAN /\ t.finished \in BOOLEAN
  BY DEF Ends, Finishes, Task
<1>2. old.links \in [Quotas -> LinkStatus]
  BY DEF Row
<1>3. \A q \in Quotas : NewLink(q, t, old.links[q]) \in LinkStatus
  BY <1>2 DEF NewLink, LinkStatus
<1>4. /\ y.status = "stored" /\ y.data = t.data /\ y.finished = Finishes(t)
      /\ y.evaluated = TRUE
      /\ \A q \in Quotas : y.links[q] = NewLink(q, t, old.links[q])
  BY DEF Stored, Links
<1>5. y \in Row
  BY <1>1, <1>3 DEF Stored, Links, Row
<1> HIDE DEF y
<1>6. ASSUME NEW q \in Quotas, limit[q] > 0
      PROVE  /\ y.links[q] # "none" => y.data \in Quota[q].accepts
             /\ (y.data \in Quota[q].accepts /\ (Quota[q].partial \/ y.finished)) =>
                  y.links[q] # "none"
             /\ Takes(y, q) => q \in Linked(t) /\ q \notin t.full
  <2>1. q \in Passed(t) <=> t.data \in Quota[q].accepts
    BY <1>6 DEF Passed
  <2>2. q \in Linked(t) <=> q \in Passed(t) /\ (Finishes(t) \/ Quota[q].partial)
    BY Zenon DEF Linked, Finishes
  <2>3. y.links[q] # "none" => q \in Passed(t)
    BY <1>4, <1>6, <2>2 DEF NewLink
  <2>4. q \in Linked(t) => y.links[q] # "none"
    BY <1>4, <2>2 DEF NewLink
  <2>5. (q \in Linked(t) /\ q \in t.full) => y.links[q] # "screenedIn"
    BY <1>4 DEF NewLink
  <2> QED
    BY <1>4, <2>1, <2>2, <2>3, <2>4, <2>5 DEF Takes
<1> QED
  BY <1>5, <1>6 DEF Agrees, y

LEMMA CommitInv ==
  ASSUME Inv, NEW w \in Workers, Busy(w), Commit(w)
  PROVE  Inv'
<1> DEFINE t == task[w]
           r == t.r
<1>1. /\ t \in Task /\ r \in Responses /\ t.at = "link" /\ t.data \in Answers
      /\ \A q \in Quotas : limit[q] > 0 => t.known[q] > 0
      /\ UNCHANGED <<limit, requests, upsets>>
  BY TaskFacts DEF Commit, Fits
<1>2. rows[r] \in Row
  BY <1>1 DEF Inv, TypeOK
<1>3. requests' \in 0..MaxRequests /\ upsets' \in 0..MaxUpsets
  BY <1>1, Counters DEF Inv
<1>4. CASE /\ rows' = [rows EXCEPT ![r] = Stored(t, rows[r])]
           /\ Become(w, Answer(t, Result(t)))
  <2> DEFINE y == Stored(t, rows[r])
             x == Answer(t, Result(t))
  <2>1. Result(t) \in BOOLEAN /\ t.finished \in BOOLEAN
    BY <1>1 DEF Result, Finishes, Ends, Task
  <2>2. /\ x.at = "report" /\ x.finished = Result(t) /\ x # Idle /\ x.r = r
        /\ Fits(x, limit) /\ \A q \in Quotas : ~Admits(q, x)
    BY <1>1, <2>1, AnswerFits
  <2>3. /\ y \in Row /\ Agrees(y)
        /\ \A q \in Quotas : (limit[q] > 0 /\ Takes(y, q)) => Admits(q, t)
    BY <1>1, <1>2, StoredFacts DEF Admits
  <2>4. \A q \in Quotas : Admits(q, t) => r \in Places(q)
    BY DEF Places, Admitted, AdmittedBy
  <2>5. (y.finished /\ ~y.quiet) => Result(t)
    BY DEF Stored, Result, Finishes
  <2> HIDE DEF x, y
  <2> QED
    BY <1>1, <1>3, <1>4, <2>2, <2>3, <2>4, <2>5, RowStep DEF x, y
<1>5. CASE UNCHANGED rows /\ Become(w, Answer(t, t.finished))
  <2>1. t.finished \in BOOLEAN
    BY <1>1 DEF Task
  <2>2. /\ Fits(Answer(t, t.finished), limit)
        /\ \A q \in Quotas : ~Admits(q, Answer(t, t.finished))
    BY <1>1, <2>1, AnswerFits
  <2> QED
    BY <1>1, <1>3, <1>5, <2>2, QuietStep
<1> QED
  BY <1>4, <1>5 DEF Commit

LEMMA EvaluationFailsInv ==
  ASSUME Inv, NEW w \in Workers, Busy(w), EvaluationFails(w)
  PROVE  Inv'
<1> DEFINE t == task[w]
           r == t.r
           x == Answer(t, t.finished)
           y == [rows[r] EXCEPT !.status = "stored", !.data = t.data,
                   !.finished = t.finished, !.evaluated = FALSE,
                   !.quiet = FALSE, !.reported = FALSE]
<1>1. /\ t \in Task /\ r \in Responses /\ t.at = "quotas" /\ t.data \in Answers
      /\ UNCHANGED <<limit, requests>> /\ Upset
      /\ Become(w, x) /\ rows' = [rows EXCEPT ![r] = y]
  BY TaskFacts DEF EvaluationFails, Fits
<1>2. rows[r] \in Row /\ t.finished \in BOOLEAN
  BY <1>1 DEF Inv, TypeOK, Task
<1>3. requests' \in 0..MaxRequests /\ upsets' \in 0..MaxUpsets
  BY <1>1, Counters DEF Inv
<1>4. y \in Row /\ y.evaluated = FALSE /\ y.finished = t.finished
  BY <1>1, <1>2 DEF Row
<1>5. /\ x.at = "report" /\ x.finished = t.finished /\ x # Idle /\ x.r = r
      /\ Fits(x, limit) /\ \A q \in Quotas : ~Admits(q, x)
  BY <1>1, <1>2, AnswerFits
<1> HIDE DEF x, y
<1>6. Agrees(y) /\ \A q \in Quotas : ~Takes(y, q)
  BY <1>4 DEF Agrees, Takes
<1> QED
  BY <1>1, <1>3, <1>4, <1>5, <1>6, RowStep

\* An update of the history of a response takes no place.
LEMMA SameRow ==
  ASSUME Inv, NEW r \in Responses, NEW y \in Row,
         y.status = rows[r].status, y.evaluated = rows[r].evaluated,
         y.links = rows[r].links, y.data = rows[r].data,
         y.finished = rows[r].finished
  PROVE  /\ Agrees(y)
         /\ \A q \in Quotas : Takes(y, q) => r \in Places(q)
<1>1. Agrees(y)
  BY DEF Inv, LinksMatch, Agrees
<1>2. \A q \in Quotas : Takes(y, q) => r \in Places(q)
  BY DEF Takes, Places, Held, Counted
<1> QED
  BY <1>1, <1>2

LEMMA ReportInv ==
  ASSUME Inv, NEW w \in Workers, Busy(w), Report(w)
  PROVE  Inv'
<1> DEFINE t == task[w]
           r == t.r
<1>1. /\ t \in Task /\ r \in Responses /\ t.at = "report"
      /\ UNCHANGED <<limit, requests, upsets>> /\ Become(w, Idle)
  BY TaskFacts DEF Report
<1>2. requests' \in 0..MaxRequests /\ upsets' \in 0..MaxUpsets
  BY <1>1, Counters DEF Inv
<1>3. Fits(Idle, limit) /\ \A q \in Quotas : ~Admits(q, Idle)
  BY IdleFits DEF Admits, Idle
<1>4. CASE ~TellsFinished(t)
  BY <1>1, <1>2, <1>3, <1>4, QuietStep DEF Report, TellsFinished
<1>5. CASE TellsFinished(t)
  <2> DEFINE y == [rows[r] EXCEPT !.reported = TRUE]
  <2>1. rows' = [rows EXCEPT ![r] = y]
    BY <1>5 DEF Report
  <2>2. rows[r] \in Row
    BY <1>1 DEF Inv, TypeOK
  <2>3. /\ y \in Row /\ y.reported = TRUE
        /\ y.status = rows[r].status /\ y.evaluated = rows[r].evaluated
        /\ y.links = rows[r].links /\ y.data = rows[r].data
        /\ y.finished = rows[r].finished
    BY <2>2 DEF Row
  <2> HIDE DEF y
  <2>4. Agrees(y) /\ \A q \in Quotas : Takes(y, q) => r \in Places(q)
    BY <1>1, <2>3, SameRow
  <2> QED
    BY <1>1, <1>2, <1>3, <2>1, <2>3, <2>4, RowStep
<1> QED
  BY <1>4, <1>5

LEMMA ReportFailsInv ==
  ASSUME Inv, NEW w \in Workers, Busy(w), ReportFails(w)
  PROVE  Inv'
<1> DEFINE t == task[w]
           r == t.r
           y == [rows[r] EXCEPT !.quiet = TRUE]
<1>1. /\ t \in Task /\ r \in Responses /\ t.at = "report"
      /\ UNCHANGED <<limit, requests>> /\ Upset
      /\ Become(w, Idle) /\ rows' = [rows EXCEPT ![r] = y]
  BY TaskFacts DEF ReportFails
<1>2. requests' \in 0..MaxRequests /\ upsets' \in 0..MaxUpsets
  BY <1>1, Counters DEF Inv
<1>3. Fits(Idle, limit) /\ \A q \in Quotas : ~Admits(q, Idle)
  BY IdleFits DEF Admits, Idle
<1>4. rows[r] \in Row
  BY <1>1 DEF Inv, TypeOK
<1>5. /\ y \in Row /\ y.quiet = TRUE
      /\ y.status = rows[r].status /\ y.evaluated = rows[r].evaluated
      /\ y.links = rows[r].links /\ y.data = rows[r].data
      /\ y.finished = rows[r].finished
  BY <1>4 DEF Row
<1> HIDE DEF y
<1>6. Agrees(y) /\ \A q \in Quotas : Takes(y, q) => r \in Places(q)
  BY <1>1, <1>5, SameRow
<1> QED
  BY <1>1, <1>2, <1>3, <1>5, <1>6, RowStep

LEMMA DeleteResponseInv ==
  ASSUME Inv, NEW r \in Responses, NEW d \in BOOLEAN, DeleteResponse(r, d)
  PROVE  Inv'
<1> DEFINE y == [NewRow EXCEPT !.status = "deleted"]
<1>1. y \in Row /\ y.status = "deleted"
  BY NewRowTyped DEF Row
<1>2. /\ TypeOK /\ rows' = [rows EXCEPT ![r] = y]
      /\ UNCHANGED <<task, requests>> /\ Upset
  BY DEF DeleteResponse, Inv
<1> HIDE DEF y
<1>3. /\ rows' \in [Responses -> Row]
      /\ rows'[r].status = "deleted"
      /\ \A p \in Responses \ {r} : rows'[p] = rows[p]
  BY <1>1, <1>2 DEF TypeOK
<1>4. /\ limit' \in [Quotas -> Nat]
      /\ \A q \in Quotas : /\ limit'[q] <= limit[q]
                           /\ limit'[q] > 0 <=> limit[q] > 0
  BY <1>2 DEF DeleteResponse, ReducedLimit, TypeOK
<1>5. TypeOK'
  BY <1>2, <1>3, <1>4, Counters DEF TypeOK
<1>6. Tasks'
  BY <1>2, <1>4 DEF Inv, Tasks, Fits
<1>7. Limits'
  BY <1>2, <1>4, QuotaFacts DEF Inv, Limits, TypeOK
<1>8. LinksMatch'
  BY <1>3, <1>4 DEF Inv, LinksMatch
<1>9. Reports'
  BY <1>2, <1>3 DEF Inv, Reports, Works, Busy
<1>10. \A q \in Quotas : Places(q)' \subseteq Places(q)
  BY <1>2, <1>3 DEF Places, Held, Counted, Admitted, AdmittedBy
<1>11. Bounded'
  BY <1>2, <1>4, <1>5, <1>10, BoundKept DEF Inv
<1> QED
  BY <1>5, <1>6, <1>7, <1>8, <1>9, <1>11 DEF Inv

LEMMA DeleteQuotaInv ==
  ASSUME Inv, NEW p \in Quotas, DeleteQuota(p)
  PROVE  Inv'
<1>1. /\ TypeOK /\ UNCHANGED <<task, requests>> /\ Upset
  BY DEF DeleteQuota, Inv
<1>2. ASSUME NEW r \in Responses
      PROVE  /\ rows'[r] \in Row
             /\ \A q \in Quotas \ {p} : rows'[r].links[q] = rows[r].links[q]
             /\ rows'[r].status = rows[r].status /\ rows'[r].data = rows[r].data
             /\ rows'[r].finished = rows[r].finished
             /\ rows'[r].evaluated = rows[r].evaluated
             /\ rows'[r].quiet = rows[r].quiet
             /\ rows'[r].reported = rows[r].reported
  <2>1. rows[r] \in Row /\ rows[r].links \in [Quotas -> LinkStatus]
    BY <1>1 DEF TypeOK, Row
  <2>2. rows'[r] = [rows[r] EXCEPT !.links = [@ EXCEPT ![p] = "none"]]
    BY DEF DeleteQuota
  <2>3. [rows[r].links EXCEPT ![p] = "none"] \in [Quotas -> LinkStatus]
    BY <2>1 DEF LinkStatus
  <2> QED
    BY <2>1, <2>2, <2>3 DEF Row
<1>3. rows' \in [Responses -> Row]
  BY <1>2 DEF DeleteQuota
<1>4. /\ limit' \in [Quotas -> Nat]
      /\ limit'[p] = 0
      /\ \A q \in Quotas \ {p} : limit'[q] = limit[q]
  BY <1>1 DEF DeleteQuota, TypeOK
<1>5. TypeOK'
  BY <1>1, <1>3, <1>4, Counters DEF TypeOK
<1>6. Tasks'
  BY <1>1, <1>4 DEF Inv, Tasks, Fits
<1>7. Limits'
  BY <1>4, QuotaFacts DEF Inv, Limits
<1>8. LinksMatch'
  BY <1>2, <1>4 DEF Inv, LinksMatch
<1>9. Reports'
  BY <1>1, <1>2 DEF Inv, Reports, Works, Busy
<1>10. \A q \in Quotas : limit'[q] > 0 => limit[q] > 0 /\ q # p
  BY <1>4
<1>11. \A q \in Quotas \ {p} : Places(q)' \subseteq Places(q)
  BY <1>1, <1>2 DEF Places, Held, Counted, Admitted, AdmittedBy
<1>12. Bounded'
  BY <1>1, <1>5, <1>10, <1>11, BoundKept DEF Inv
<1> QED
  BY <1>5, <1>6, <1>7, <1>8, <1>9, <1>12 DEF Inv

LEMMA StutterInv ==
  ASSUME Inv, UNCHANGED vars
  PROVE  Inv'
<1>1. TypeOK' /\ Tasks' /\ Limits' /\ LinksMatch' /\ Reports'
  BY DEF Inv, vars, TypeOK, Tasks, Limits, LinksMatch, Reports, Works, Busy
<1>2. \A q \in Quotas : Places(q)' = Places(q)
  BY DEF vars, Places, Held, Counted, Admitted, AdmittedBy
<1>3. Bounded'
  BY <1>1, <1>2, BoundKept DEF Inv, vars
<1> QED
  BY <1>1, <1>3 DEF Inv

LEMMA NextInv ==
  ASSUME Inv, [Next]_vars
  PROVE  Inv'
<1>1. ASSUME NEW w \in Workers, Request(w) PROVE Inv'
  BY <1>1, CreateInv, UpdateInv DEF Request
<1>2. ASSUME NEW w \in Workers, Busy(w), Step(w) PROVE Inv'
  BY <1>2, ReadInv, WriteInv, GetQuotasInv, CountInv, CommitInv, EvaluationFailsInv,
     ReportInv, ReportFailsInv DEF Step
<1>3. ASSUME NEW r \in Responses, NEW d \in BOOLEAN, DeleteResponse(r, d) PROVE Inv'
  BY <1>3, DeleteResponseInv
<1>4. ASSUME NEW q \in Quotas, DeleteQuota(q) PROVE Inv'
  BY <1>4, DeleteQuotaInv
<1>5. CASE UNCHANGED vars
  BY <1>5, StutterInv
<1> QED
  BY <1>1, <1>2, <1>3, <1>4, <1>5 DEF Next

(* The invariant the properties follow from holds in every reachable state.  *)
THEOREM Invariance ==
  Spec => []Inv
<1>1. Init => Inv
  BY InitInv
<1>2. Inv /\ [Next]_vars => Inv'
  BY NextInv
<1> QED
  BY <1>1, <1>2, PTL DEF Spec

-------------------------------------------------------------------------------
(* Every variable keeps its type.                                            *)
THEOREM TypeTheorem ==
  Spec => []TypeOK
<1>1. Inv => TypeOK
  BY DEF Inv
<1> QED
  BY <1>1, Invariance, PTL

(* The links a response ends up with agree with its data, however many       *)
(* requests update it at the same time (handleQuotas).                       *)
THEOREM LinksTheorem ==
  Spec => []LinksMatch
<1>1. Inv => LinksMatch
  BY DEF Inv
<1> QED
  BY <1>1, Invariance, PTL

LEMMA ReportsFinished ==
  ASSUME Inv
  PROVE  FinishedReported
<1> SUFFICES ASSUME NEW r \in Responses, rows[r].status = "stored", rows[r].finished,
                    \A w \in Workers : ~Works(w, r),
                    ~(rows[r].reported \/ rows[r].quiet)
             PROVE  FALSE
  BY DEF FinishedReported
<1>1. ~rows[r].reported /\ ~rows[r].quiet
  OBVIOUS
<1> QED
  BY <1>1 DEF Inv, Reports

(* A finished response is reported to the pipeline, whichever request        *)
(* finished it and however the others overlap (put-response-handler.ts).     *)
THEOREM ReportedTheorem ==
  Spec => []FinishedReported
<1>1. Inv => FinishedReported
  BY ReportsFinished
<1> QED
  BY <1>1, Invariance, PTL

LEMMA PlacesBound ==
  ASSUME Inv
  PROVE  OvershootBounded
<1> SUFFICES ASSUME NEW q \in Quotas, limit[q] > 0
             PROVE  Cardinality(Held(q)) <= Bound(q)
  BY DEF OvershootBounded, Held, Bound
<1>1. Cardinality(Places(q)) <= Bound(q)
  BY DEF Inv, Bounded
<1>2. IsFiniteSet(Places(q)) /\ Cardinality(Places(q)) \in Nat
  BY PlacesFinite
<1>3. Held(q) \in SUBSET Places(q)
  BY DEF Places
<1>4. IsFiniteSet(Held(q)) /\ Cardinality(Held(q)) <= Cardinality(Places(q))
  BY <1>2, <1>3, FS_Subset
<1>5. Cardinality(Held(q)) \in Nat
  BY <1>4, FS_CardinalityType
<1>6. Bound(q) \in Int
  BY QuotaFacts, AdmittedFinite DEF Bound
<1> QED
  BY <1>1, <1>2, <1>4, <1>5, <1>6

(* A quota is overshot by fewer responses than there are requests served at  *)
(* the same time, although handleQuotas counts without a lock.               *)
THEOREM OvershootTheorem ==
  Spec => []OvershootBounded
<1>1. Inv => OvershootBounded
  BY PlacesBound
<1> QED
  BY <1>1, Invariance, PTL

\* No step turns a link of a response that was screened out.
Barred ==
  \A r \in Responses, q \in Quotas :
    rows[r].links[q] = "screenedOut" => rows'[r].links[q] # "screenedIn"

LEMMA StepBars ==
  ASSUME Inv, Next
  PROVE  Barred
<1>1. rows \in [Responses -> Row]
  BY DEF Inv, TypeOK
<1>2. CASE rows' = rows
  BY <1>2 DEF Barred
<1>3. ASSUME NEW w \in Workers, Busy(w), Commit(w) PROVE Barred
  <2> DEFINE t == task[w]
  <2>1. CASE rows' = rows
    BY <2>1 DEF Barred
  <2>2. CASE rows' = [rows EXCEPT ![t.r] = Stored(t, rows[t.r])]
    <3> SUFFICES ASSUME NEW r \in Responses, NEW q \in Quotas,
                        rows[r].links[q] = "screenedOut"
                 PROVE  rows'[r].links[q] # "screenedIn"
      BY DEF Barred
    <3>1. CASE r = t.r
      <4>1. rows'[r].links[q] = NewLink(q, t, rows[r].links[q])
        BY <1>1, <2>2, <3>1 DEF Stored, Links
      <4> QED
        BY <4>1 DEF NewLink
    <3>2. CASE r # t.r
      BY <1>1, <2>2, <3>2
    <3> QED
      BY <3>1, <3>2
  <2> QED
    BY <1>3, <2>1, <2>2 DEF Commit
<1>4. ASSUME NEW w \in Workers, Busy(w),
             EvaluationFails(w) \/ Report(w) \/ ReportFails(w)
      PROVE  Barred
  <2>1. \A r \in Responses : rows'[r].links = rows[r].links
    <3>1. \A r \in Responses : rows[r] \in Row
      BY <1>1
    <3>2. CASE EvaluationFails(w)
      BY <1>1, <3>1, <3>2 DEF EvaluationFails, Row
    <3>3. CASE Report(w)
      BY <1>1, <3>1, <3>3 DEF Report, Row
    <3>4. CASE ReportFails(w)
      BY <1>1, <3>1, <3>4 DEF ReportFails, Row
    <3> QED
      BY <1>4, <3>2, <3>3, <3>4
  <2> QED
    BY <2>1 DEF Barred
<1>5. ASSUME NEW r \in Responses, NEW d \in BOOLEAN, DeleteResponse(r, d) PROVE Barred
  <2>1. \A q \in Quotas : [NewRow EXCEPT !.status = "deleted"].links[q] = "none"
    BY DEF NewRow, NoLinks
  <2> QED
    BY <1>1, <1>5, <2>1 DEF DeleteResponse, Barred
<1>6. ASSUME NEW p \in Quotas, DeleteQuota(p) PROVE Barred
  <2>1. \A r \in Responses : rows'[r].links = [rows[r].links EXCEPT ![p] = "none"]
    BY <1>1, <1>6 DEF DeleteQuota, Row
  <2>2. \A r \in Responses : rows[r].links \in [Quotas -> LinkStatus]
    BY <1>1 DEF Row
  <2> QED
    BY <2>1, <2>2 DEF Barred
<1>7. ASSUME NEW w \in Workers, Request(w) PROVE rows' = rows
  BY <1>7 DEF Request, Create, Update
<1>8. ASSUME NEW w \in Workers, Read(w) \/ Write(w) \/ GetQuotas(w) \/ Count(w)
      PROVE  rows' = rows
  BY <1>8 DEF Read, Write, GetQuotas, Count
<1> QED
  BY <1>2, <1>3, <1>4, <1>5, <1>6, <1>7, <1>8 DEF Next, Step

(* A response that was screened out of a quota is not admitted to it later,  *)
(* whatever places are freed (upsertResponseQuotaLinks).                     *)
THEOREM ReadmissionTheorem ==
  Spec => NeverReadmitted
<1>1. Inv /\ [Next]_vars => [Barred]_vars
  BY StepBars
<1>2. Spec => [][Barred]_vars
  BY <1>1, Invariance, PTL DEF Spec
<1> QED
  BY <1>2 DEF NeverReadmitted, Barred
===============================================================================
