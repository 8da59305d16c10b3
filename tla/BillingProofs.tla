----------------------------- MODULE BillingProofs -----------------------------
(***************************************************************************)
(* Proofs about Billing, for any number of workers, changes and failures.  *)
(*                                                                         *)
(* What a request has seen of a subscription may be out of date; the       *)
(* invariant says what of it still holds when the request goes on (Fits),  *)
(* which subscriptions may be billed (Sound), and why no second Hobby      *)
(* subscription appears: a request about to create one has either been     *)
(* overtaken, so that its key is used, or there is no live one (Creating); *)
(* a Hobby subscription beside a paid one is about to be canceled by a     *)
(* webhook, or an event still tells of it (Noticed): other requests may    *)
(* fail and leave it.  A schedule without a next phase has the request     *)
(* that created it, or was recorded when that one left it (Owned).         *)
(***************************************************************************)
EXTENDS Billing, FiniteSetTheorems, SequenceTheorems, TLAPS

Reconciling == {"list", "cancel", "relist", "create"}
Syncing == {"sync", "write"}
Downgrading == {"unend", "schedule", "phases"}
Changing == Downgrading \cup
  {"resume", "clear", "update", "release", "end", "rollback", "restore",
   "pendingRead", "pendingWrite"}
Steps == Reconciling \cup Syncing \cup Changing \cup
  {"idle", "customer", "trial", "current"}

TaskType ==
  [pc : Steps,
   op : {"none", "own", "trial", "switch", "undo", "webhook", "read"},
   plan : Plans \cup {NoPlan}, cancel : SUBSET Nat, sub : Nat, view : SubType,
   created : BOOLEAN, sid : Nat, snap : FactsType]

\* What a request relies on, of the n subscriptions and of the card.
Fits(t, n, c) ==
  /\ t.op = "webhook" => t.pc \in Reconciling \cup Syncing
  /\ t.op = "read" => t.pc \in Syncing
  /\ t.pc = "current" => t.op = "undo" \/ (t.op = "switch" /\ t.plan \in Plans)
  /\ t.pc \in {"resume", "update"} => Paid(t.plan)
  /\ t.pc \in Changing => t.sub \in 1 .. n
  /\ t.pc \in Downgrading => c /\ Paid(t.view.plan) /\ t.plan \in Plans

\* A subscription that is billed, or will be by its schedule, has a card.
Sound(x, c) ==
  /\ x.status = "active" /\ Paid(x.plan) => c
  /\ Paid(x.schedule) => c
  /\ x.due = NoPlan \/ Paid(x.due)
  /\ x.status = "canceled" => x.schedule = NoPlan

Types ==
  /\ TypeOK /\ task \in [Workers -> TaskType]
  /\ \A w \in Workers : Fits(task[w], Len(subs), card)
  /\ \A i \in DOMAIN subs : Sound(subs[i], card)

\* A schedule without a next phase is the one its request created, or was left.
Owns(t, i, n) ==
  t.pc \in {"phases", "rollback"} /\ t.created /\ t.sub = i /\ t.sid = n
Owned ==
  \A i \in DOMAIN subs : subs[i].schedule = Bare =>
    \/ <<i, subs[i].sid>> \in strays
    \/ \E w \in Workers : Owns(task[w], i, subs[i].sid)

\* A Hobby subscription beside a paid one is about to be looked at by a webhook,
\* whose event comes again if it fails.
Serving(t) == t.op = "webhook" /\ t.pc \in {"list", "cancel"}
Noticed ==
  \/ Redundant(subs) = {}
  \/ events
  \/ \E w \in Workers :
       Serving(task[w]) /\ (At(w, "cancel") => Redundant(subs) \subseteq task[w].cancel)

\* Some paid subscription is on no request's list of those to cancel: to be
\* on it it must have been a Hobby subscription when the list was made.
Condemned(tasks) ==
  {i \in Nat : \E w \in Workers : tasks[w].pc = "cancel" /\ i \in tasks[w].cancel}
Spared(s, tasks) ==
  \A w \in Workers : tasks[w].pc = "cancel" =>
    \E i \in Live(s) : Paid(s[i].plan) /\ i \notin Condemned(tasks)

\* Of the requests about to create a Hobby subscription those whose keys are
\* not used have the same key, and there is no Hobby subscription.
NoHobby(s) == \A i \in Live(s) : s[i].plan # "hobby"
Creating(s, ks, tasks) ==
  \A v, w \in Workers :
    (/\ tasks[v].pc = "create" /\ tasks[v].sub \notin ks
     /\ tasks[w].pc = "create" /\ tasks[w].sub \notin ks) =>
       /\ NoHobby(s)
       /\ Live(s) = {} => tasks[v].sub = Len(s)
       /\ tasks[v].sub = tasks[w].sub

Single == OneHobby /\ Noticed /\ Spared(subs, task) /\ Creating(subs, keys, task)

Inv == Types /\ Owned /\ Single

-------------------------------------------------------------------------------
(* Facts about the operators.                                                *)
LEMMA Levels ==
  /\ Level("hobby") = 0 /\ Level("pro") = 1 /\ Level("scale") = 2
  /\ \A p \in Plans : Paid(p) <=> p # "hobby"
BY DEF Level, Plans, Paid

LEMMA IdleType ==
  NoFacts \in FactsType /\ Idle \in TaskType
BY DEF NoFacts, FactsType, Idle, TaskType, NewSub, SubType, Plans, Steps, NoPlan,
       Schedules

LEMMA IdleFits ==
  ASSUME NEW n, NEW c PROVE Fits(Idle, n, c)
BY DEF Idle, Fits, Reconciling, Syncing, Changing, Downgrading

LEMMA NewType ==
  ASSUME NEW p \in Plans, NEW st \in {"trialing", "active"}, NEW c,
         st = "trialing" \/ p = "hobby"
  PROVE  NewSub(p, st) \in SubType /\ Sound(NewSub(p, st), c)
BY DEF NewSub, SubType, Schedules, Plans, NoPlan, Sound, Paid

LEMMA FactsTyped ==
  ASSUME NEW s \in Seq(SubType), NEW c \in BOOLEAN
  PROVE  Facts(s, c) \in FactsType
<1>1. CASE Current(s) = {}
  BY <1>1, IdleType DEF Facts
<1>2. CASE Current(s) # {}
  <2> DEFINE i == CHOOSE j \in Current(s) : TRUE
  <2>1. i \in Live(s)
    BY <1>2 DEF Current
  <2>2. s[i] \in SubType /\ s[i].status # "canceled"
    BY <2>1 DEF Live
  <2>3. Pending(s[i]) \in Plans \cup {NoPlan}
    BY <2>2 DEF Pending, SubType, Plans
  <2> HIDE DEF i
  <2>4. Facts(s, c) = [plan |-> s[i].plan, status |-> s[i].status,
                       pending |-> Pending(s[i]), card |-> c]
    BY <1>2 DEF Facts, i
  <2> QED
    BY <2>2, <2>3, <2>4 DEF FactsType, SubType
<1> QED
  BY <1>1, <1>2

LEMMA FitsLater ==
  ASSUME NEW n \in Nat, NEW m \in Nat, n <= m, NEW c, NEW d, c => d,
         NEW t \in TaskType, Fits(t, n, c)
  PROVE  Fits(t, m, d)
BY DEF Fits, TaskType

LEMMA SoundLater ==
  ASSUME NEW x, NEW c, NEW d, c => d, Sound(x, c)
  PROVE  Sound(x, d)
BY DEF Sound

LEMMA Replaced ==
  ASSUME NEW s \in Seq(SubType), NEW i \in DOMAIN s, NEW x \in SubType
  PROVE  /\ [s EXCEPT ![i] = x] \in Seq(SubType)
         /\ Len([s EXCEPT ![i] = x]) = Len(s)
         /\ DOMAIN [s EXCEPT ![i] = x] = DOMAIN s
         /\ [s EXCEPT ![i] = x][i] = x
         /\ \A j \in DOMAIN s \ {i} : [s EXCEPT ![i] = x][j] = s[j]
OBVIOUS

LEMMA Added ==
  ASSUME NEW s \in Seq(SubType), NEW x \in SubType
  PROVE  /\ Append(s, x) \in Seq(SubType)
         /\ Len(Append(s, x)) = Len(s) + 1
         /\ Append(s, x)[Len(s) + 1] = x
         /\ \A j \in DOMAIN s : Append(s, x)[j] = s[j]
         /\ DOMAIN Append(s, x) = DOMAIN s \cup {Len(s) + 1}
OBVIOUS

-------------------------------------------------------------------------------
(* What a step has to show of the types, and of the parts of the invariant.  *)
DbType == [customer : BOOLEAN, facts : FactsType]
Counters ==
  /\ keys' \subseteq Int /\ events' \in BOOLEAN /\ db' \in DbType
  /\ changes' \in 0 .. MaxChanges /\ faults' \in 0 .. MaxFaults
  /\ strays' \subseteq Nat \X Nat /\ strays \subseteq strays'

LEMMA TasksKept ==
  ASSUME Types, NEW w \in Workers, NEW t \in TaskType,
         task' = [task EXCEPT ![w] = t],
         subs' \in Seq(SubType), Len(subs) <= Len(subs'), card => card',
         Fits(t, Len(subs'), card')
  PROVE  /\ task' \in [Workers -> TaskType]
         /\ \A v \in Workers : Fits(task'[v], Len(subs'), card')
         /\ task'[w] = t /\ \A v \in Workers \ {w} : task'[v] = task[v]
<1>1. task \in [Workers -> TaskType] /\ Len(subs) \in Nat /\ Len(subs') \in Nat
  BY DEF Types, TypeOK
<1>2. task' \in [Workers -> TaskType]
  BY <1>1
<1>3. task'[w] = t /\ \A v \in Workers \ {w} : task'[v] = task[v]
  BY <1>1
<1>4. \A v \in Workers : Fits(task[v], Len(subs), card)
  BY DEF Types
<1>5. ASSUME NEW v \in Workers \ {w} PROVE Fits(task[v], Len(subs'), card')
  BY <1>1, <1>4, FitsLater
<1> QED
  BY <1>2, <1>3, <1>5

LEMMA TypesKept ==
  ASSUME Types, Counters, task' \in [Workers -> TaskType],
         \A v \in Workers : Fits(task'[v], Len(subs'), card'),
         card' \in BOOLEAN, subs' \in Seq(SubType),
         \A i \in DOMAIN subs' : Sound(subs'[i], card')
  PROVE  Types'
<1>1. \A w \in Workers :
        LET t == task'[w] IN
        /\ t.snap \in FactsType
        /\ t.sub \in Nat /\ t.sid \in Nat /\ t.created \in BOOLEAN
        /\ t.plan \in Plans \cup {NoPlan}
  BY DEF TaskType
<1>2. TypeOK'
  BY <1>1 DEF TypeOK, Counters, DbType
<1> QED
  BY <1>2 DEF Types

LEMMA OwnedKept ==
  ASSUME Owned, NEW w \in Workers, NEW t,
         task'[w] = t, \A v \in Workers \ {w} : task'[v] = task[v],
         strays \subseteq strays',
         \A j \in DOMAIN subs' : subs'[j].schedule = Bare =>
            /\ j \in DOMAIN subs
            /\ subs[j].schedule = Bare /\ subs'[j].sid = subs[j].sid
            /\ Owns(task[w], j, subs[j].sid) =>
                 Owns(t, j, subs[j].sid) \/ <<j, subs[j].sid>> \in strays'
  PROVE  Owned'
BY DEF Owned

\* No subscription ends or begins, and none becomes a Hobby subscription.
Evolves(s, s2) ==
  /\ DOMAIN s2 = DOMAIN s /\ Len(s2) = Len(s)
  /\ \A i \in DOMAIN s : /\ s2[i].status = "canceled" <=> s[i].status = "canceled"
                         /\ Paid(s[i].plan) => Paid(s2[i].plan)
                         /\ s[i].plan \in Plans /\ s2[i].plan \in Plans

LEMMA SingleKept ==
  ASSUME Single, Evolves(subs, subs'), keys \subseteq keys',
         \A v \in Workers : task'[v] = task[v] \/ task'[v].pc \notin {"cancel", "create"},
         \/ events'
         \/ \E v \in Workers : task'[v].pc = "list" /\ task'[v].op = "webhook"
         \/ /\ subs' = subs /\ events' = events
            /\ \A v \in Workers : task'[v] = task[v] \/ ~Serving(task[v])
  PROVE  Single'
<1>1. Live(subs') = Live(subs)
  BY DEF Live, Evolves
<1>2. \A i \in Live(subs) : /\ subs'[i].plan = "hobby" => subs[i].plan = "hobby"
                            /\ Paid(subs[i].plan) => Paid(subs'[i].plan)
  BY Levels DEF Live, Evolves
<1>3. OneHobby'
  BY <1>1, <1>2 DEF Single, OneHobby
<1>4. Noticed'
  BY DEF Single, Noticed, Serving, At
<1>5. Spared(subs', task')
  <2>1. Condemned(task') \subseteq Condemned(task)
    BY DEF Condemned
  <2> QED
    BY <1>1, <1>2, <2>1 DEF Single, Spared
<1>6. Creating(subs', keys', task')
  <2>1. \A v \in Workers : (task'[v].pc = "create" /\ task'[v].sub \notin keys') =>
           task[v].pc = "create" /\ task[v].sub \notin keys /\ task'[v] = task[v]
    OBVIOUS
  <2>2. NoHobby(subs) => NoHobby(subs')
    BY <1>1, <1>2 DEF NoHobby
  <2>3. Len(subs') = Len(subs)
    BY DEF Evolves
  <2> QED
    BY <1>1, <2>1, <2>2, <2>3 DEF Single, Creating
<1> QED
  BY <1>3, <1>4, <1>5, <1>6 DEF Single

LEMMA SelfEvolves ==
  ASSUME Types PROVE Evolves(subs, subs)
<1>1. subs \in Seq(SubType)
  BY DEF Types, TypeOK
<1>2. \A i \in DOMAIN subs : subs[i] \in SubType
  BY <1>1
<1>3. \A i \in DOMAIN subs : subs[i].plan \in Plans
  BY <1>2 DEF SubType
<1> QED
  BY <1>3 DEF Evolves

\* A schedule's owner stays it, or the schedule is recorded as left.
Accounted(t, u) ==
  t.pc \in {"phases", "rollback"} =>
    \/ /\ u.pc \in {"phases", "rollback"}
       /\ u.created = t.created /\ u.sub = t.sub /\ u.sid = t.sid
    \/ t.created => <<t.sub, t.sid>> \in strays'

LEMMA OwnerKept ==
  ASSUME NEW t, NEW u, Accounted(t, u), NEW i, NEW n, Owns(t, i, n)
  PROVE  Owns(u, i, n) \/ <<i, n>> \in strays'
<1>1. t.pc \in {"phases", "rollback"} /\ t.created /\ t.sub = i /\ t.sid = n
  BY DEF Owns
<1>2. CASE <<t.sub, t.sid>> \in strays'
  BY <1>1, <1>2
<1>3. CASE <<t.sub, t.sid>> \notin strays'
  BY <1>1, <1>3 DEF Accounted, Owns
<1> QED
  BY <1>2, <1>3

\* A request goes on, and nothing else changes but the record.
LEMMA GoesOn ==
  ASSUME Inv, Counters, NEW w \in Workers, NEW t \in TaskType,
         task' = [task EXCEPT ![w] = t],
         subs' = subs, card \in BOOLEAN, card' \in BOOLEAN, card => card',
         Fits(t, Len(subs), card'),
         Accounted(task[w], t), keys \subseteq keys',
         t.pc \notin {"cancel", "create"},
         \/ events'
         \/ t.pc = "list" /\ t.op = "webhook"
         \/ events' = events /\ ~Serving(task[w])
  PROVE  Inv'
<1>1. Types /\ Owned /\ Single /\ subs \in Seq(SubType) /\ Len(subs) <= Len(subs)
  BY DEF Inv, Types, TypeOK
<1>2. /\ task' \in [Workers -> TaskType]
      /\ \A v \in Workers : Fits(task'[v], Len(subs'), card')
      /\ task'[w] = t /\ \A v \in Workers \ {w} : task'[v] = task[v]
  BY <1>1, TasksKept
<1>3. \A i \in DOMAIN subs' : Sound(subs'[i], card')
  BY <1>1, SoundLater DEF Types
<1>4. Types'
  BY <1>1, <1>2, <1>3, TypesKept
<1>5. Owned'
  BY <1>1, <1>2, OwnedKept, OwnerKept DEF Counters
<1>6. Evolves(subs, subs')
  BY <1>1, SelfEvolves
<1>7. Single'
  BY <1>1, <1>2, <1>6, SingleKept
<1> QED
  BY <1>4, <1>5, <1>7 DEF Inv

\* A request changes one subscription, and goes on.
Alike(x, y) ==
  /\ y.status = "canceled" <=> x.status = "canceled"
  /\ Paid(x.plan) => Paid(y.plan)

LEMMA ChangesSub ==
  ASSUME Inv, Counters, NEW w \in Workers, NEW t \in TaskType,
         task' = [task EXCEPT ![w] = t],
         NEW i \in DOMAIN subs, NEW x \in SubType,
         subs' = [subs EXCEPT ![i] = x], Alike(subs[i], x), Sound(x, card),
         card' = card, keys' = keys, events' = TRUE,
         Fits(t, Len(subs), card), t.pc \notin {"cancel", "create"},
         x.schedule = Bare => subs[i].schedule = Bare /\ x.sid = subs[i].sid
                              /\ Accounted(task[w], t),
         Accounted(task[w], t) \/ task[w].sub = i
  PROVE  Inv'
<1>1. Types /\ Owned /\ Single /\ subs \in Seq(SubType) /\ card \in BOOLEAN
      /\ events \in BOOLEAN /\ Len(subs) <= Len(subs)
  BY DEF Inv, Types, TypeOK
<1>2. /\ subs' \in Seq(SubType) /\ Len(subs') = Len(subs)
      /\ DOMAIN subs' = DOMAIN subs /\ subs'[i] = x
      /\ \A j \in DOMAIN subs \ {i} : subs'[j] = subs[j]
  BY <1>1, Replaced
<1>3. /\ task' \in [Workers -> TaskType]
      /\ \A v \in Workers : Fits(task'[v], Len(subs'), card')
      /\ task'[w] = t /\ \A v \in Workers \ {w} : task'[v] = task[v]
  BY <1>1, <1>2, TasksKept
<1>4. \A j \in DOMAIN subs' : Sound(subs'[j], card')
  BY <1>1, <1>2 DEF Types
<1>5. Types'
  BY <1>1, <1>2, <1>3, <1>4, TypesKept
<1>6. Owned'
  <2>1. ASSUME NEW j \in DOMAIN subs', subs'[j].schedule = Bare
        PROVE  /\ j \in DOMAIN subs
               /\ subs[j].schedule = Bare /\ subs'[j].sid = subs[j].sid
               /\ Owns(task[w], j, subs[j].sid) =>
                    Owns(t, j, subs[j].sid) \/ <<j, subs[j].sid>> \in strays'
    <3>1. CASE Accounted(task[w], t)
      BY <1>2, <2>1, <3>1, OwnerKept
    <3>2. CASE ~Accounted(task[w], t)
      BY <1>2, <2>1, <3>2 DEF Owns
    <3> QED
      BY <3>1, <3>2
  <2> QED
    BY <1>1, <1>3, <2>1, OwnedKept DEF Counters
<1>7. \A j \in DOMAIN subs : subs[j].plan \in Plans /\ subs'[j].plan \in Plans
  <2>1. \A j \in DOMAIN subs : subs[j] \in SubType /\ subs'[j] \in SubType
    BY <1>1, <1>2
  <2> QED
    BY <2>1 DEF SubType
<1>8. Evolves(subs, subs')
  BY <1>2, <1>7 DEF Evolves, Alike
<1>9. Single'
  BY <1>1, <1>3, <1>8, SingleKept
<1> QED
  BY <1>5, <1>6, <1>9 DEF Inv

\* The types of what a step begins with.
LEMMA Known ==
  ASSUME Inv
  PROVE  /\ subs \in Seq(SubType) /\ card \in BOOLEAN /\ keys \subseteq Int
         /\ events \in BOOLEAN /\ db \in DbType /\ Len(subs) \in Nat
         /\ changes \in 0 .. MaxChanges /\ faults \in 0 .. MaxFaults
         /\ MaxChanges \in Nat /\ MaxFaults \in Nat
         /\ strays \subseteq Nat \X Nat
         /\ \A i \in DOMAIN subs : subs[i] \in SubType /\ Sound(subs[i], card)
         /\ DOMAIN subs = 1 .. Len(subs)
<1>1. subs \in Seq(SubType) /\ card \in BOOLEAN /\ keys \subseteq Int
      /\ events \in BOOLEAN /\ db \in DbType
      /\ changes \in 0 .. MaxChanges /\ faults \in 0 .. MaxFaults
      /\ strays \subseteq Nat \X Nat
  BY DEF Inv, Types, TypeOK, DbType
<1>2. \A i \in DOMAIN subs : subs[i] \in SubType
  BY <1>1
<1> QED
  BY <1>1, <1>2, BillingAssumption DEF Inv, Types

LEMMA KnownTask ==
  ASSUME Inv, NEW w \in Workers
  PROVE  task[w] \in TaskType /\ Fits(task[w], Len(subs), card)
BY DEF Inv, Types

\* Going on with reconciling or synchronizing.
LEMMA GoType ==
  ASSUME Inv, NEW w \in Workers, NEW pc \in {"sync", "list"},
         pc = "list" => task[w].op # "read", NEW n, NEW c
  PROVE  LET t == [Idle EXCEPT !.pc = pc, !.op = Origin(task[w].op)] IN
         /\ t \in TaskType /\ Fits(t, n, c)
         /\ t.pc = pc
<1>1. Origin(task[w].op) \in {"webhook", "read", "own"}
      /\ (Origin(task[w].op) = "read" => task[w].op = "read")
  BY DEF Origin
<1> QED
  BY <1>1, IdleType DEF Idle, TaskType, Fits, Reconciling, Syncing, Changing,
     Downgrading, Steps

LEMMA InitInv == Init => Inv
<1> SUFFICES ASSUME Init PROVE Inv
  OBVIOUS
<1>1. TypeOK /\ task \in [Workers -> TaskType]
  <2>1. task \in [Workers -> TaskType]
    BY IdleType DEF Init
  <2>2. \A w \in Workers :
          LET t == task[w] IN
          /\ t.snap \in FactsType
          /\ t.sub \in Nat /\ t.sid \in Nat /\ t.created \in BOOLEAN
          /\ t.plan \in Plans \cup {NoPlan}
    BY <2>1 DEF TaskType
  <2>3. subs \in Seq(SubType)
    BY DEF Init
  <2>4. db \in [customer : BOOLEAN, facts : FactsType]
    BY IdleType DEF Init
  <2>5. events \in BOOLEAN
    BY Zenon DEF Init
  <2>6. changes \in 0 .. MaxChanges /\ faults \in 0 .. MaxFaults
    BY BillingAssumption DEF Init
  <2>7. card \in BOOLEAN /\ keys \subseteq Int /\ strays \subseteq Nat \X Nat
    BY DEF Init
  <2> QED
    BY <2>1, <2>2, <2>3, <2>4, <2>5, <2>6, <2>7 DEF TypeOK
<1>2. \A w \in Workers : Fits(task[w], Len(subs), card)
  BY IdleFits DEF Init
<1>3. Types
  BY <1>1, <1>2 DEF Init, Types
<1>4. Owned /\ OneHobby
  BY DEF Init, Owned, OneHobby, Live
<1>5. Redundant(subs) = {}
  BY DEF Init, Redundant, Live
<1>6. \A w \in Workers : task[w].pc = "idle"
  BY DEF Init, Idle
<1>7. Single
  BY <1>4, <1>5, <1>6 DEF Single, Noticed, Spared, Creating
<1> QED
  BY <1>3, <1>4, <1>7 DEF Inv


-------------------------------------------------------------------------------
(* The requests begin.                                                       *)
LEMMA Asks ==
  ASSUME Inv, NEW w \in Workers, At(w, "idle"), Spend,
         UNCHANGED <<subs, keys, events, db, strays, faults>>,
         card' \in BOOLEAN, card => card',
         NEW t \in TaskType, task' = [task EXCEPT ![w] = t],
         Fits(t, Len(subs), card'), t.pc \notin {"cancel", "create"}
  PROVE  Inv'
<1>1. Counters
  BY Known DEF Counters, Spend
<1>2. task[w].pc = "idle" /\ events' = events /\ keys \subseteq keys'
      /\ ~Serving(task[w])
  BY DEF At, Serving
<1> QED
  BY <1>1, <1>2, GoesOn, Known DEF Accounted

LEMMA AskType ==
  ASSUME NEW n, NEW c, NEW pc \in {"customer", "list", "trial", "current"},
         NEW op \in {"own", "trial", "undo", "webhook"}, pc = "current" <=> op = "undo",
         op = "webhook" => pc = "list"
  PROVE  LET t == [Idle EXCEPT !.pc = pc, !.op = op] IN
         t \in TaskType /\ Fits(t, n, c) /\ t.pc \notin {"cancel", "create"}
BY IdleType DEF Idle, TaskType, Steps, Fits, Reconciling, Syncing, Changing, Downgrading

LEMMA SwitchType ==
  ASSUME NEW n, NEW c, NEW p \in Plans
  PROVE  LET t == [Idle EXCEPT !.pc = "current", !.op = "switch", !.plan = p] IN
         t \in TaskType /\ Fits(t, n, c) /\ t.pc \notin {"cancel", "create"}
BY IdleType DEF Idle, TaskType, Steps, Fits, Reconciling, Syncing, Changing, Downgrading

LEMMA AskInv ==
  ASSUME Inv, NEW w \in Workers, Ask(w)
  PROVE  Inv'
<1>1. card \in BOOLEAN /\ (card => card)
  BY Known
<1>2. CASE StartSetup(w)
  <2>1. task' = [task EXCEPT ![w] = [Idle EXCEPT !.pc = "customer", !.op = "own"]]
    BY <1>2 DEF StartSetup, Become
  <2>2. UNCHANGED <<subs, card, keys, events, db, strays, faults>> /\ Spend /\ At(w, "idle")
    BY <1>2 DEF StartSetup, Asked, stripe
  <2> QED
    BY <1>1, <2>1, <2>2, AskType, Asks
<1>3. CASE StartHobby(w)
  <2>1. task' = [task EXCEPT ![w] = [Idle EXCEPT
                 !.pc = IF db.customer THEN "list" ELSE "customer", !.op = "own"]]
    BY <1>3 DEF StartHobby, Become
  <2>2. UNCHANGED <<subs, card, keys, events, db, strays, faults>> /\ Spend /\ At(w, "idle")
    BY <1>3 DEF StartHobby, Asked, stripe
  <2> QED
    BY <1>1, <2>1, <2>2, AskType, Asks
<1>4. CASE StartTrial(w)
  <2>1. task' = [task EXCEPT ![w] = [Idle EXCEPT
                 !.pc = IF db.customer THEN "trial" ELSE "customer", !.op = "trial"]]
    BY <1>4 DEF StartTrial, Become
  <2>2. UNCHANGED <<subs, card, keys, events, db, strays, faults>> /\ Spend /\ At(w, "idle")
    BY <1>4 DEF StartTrial, Asked, stripe
  <2> QED
    BY <1>1, <2>1, <2>2, AskType, Asks
<1>5. CASE StartUndo(w)
  <2>1. task' = [task EXCEPT ![w] = [Idle EXCEPT !.pc = "current", !.op = "undo"]]
    BY <1>5 DEF StartUndo, Become
  <2>2. UNCHANGED <<subs, card, keys, events, db, strays, faults>> /\ Spend /\ At(w, "idle")
    BY <1>5 DEF StartUndo, Asked, stripe
  <2> QED
    BY <1>1, <2>1, <2>2, AskType, Asks
<1>8. CASE StartCheckoutWebhook(w)
  <2>1. task' = [task EXCEPT ![w] = [Idle EXCEPT !.pc = "list", !.op = "webhook"]]
    BY <1>8 DEF StartCheckoutWebhook, Become
  <2>2. UNCHANGED <<subs, keys, events, db, strays, faults>> /\ Spend /\ At(w, "idle")
    BY <1>8 DEF StartCheckoutWebhook, Asked
  <2>3. card' \in BOOLEAN /\ (card => card')
    BY <1>8 DEF StartCheckoutWebhook
  <2> QED
    BY <2>1, <2>2, <2>3, AskType, Asks
<1>6. ASSUME NEW p \in Plans, StartSwitch(w, p) PROVE Inv'
  <2>1. task' = [task EXCEPT ![w] = [Idle EXCEPT !.pc = "current", !.op = "switch",
                                                 !.plan = p]]
    BY <1>6 DEF StartSwitch, Become
  <2>2. UNCHANGED <<subs, keys, events, db, strays, faults>> /\ Spend /\ At(w, "idle")
    BY <1>6 DEF StartSwitch, Asked, stripe
  <2>3. card' \in BOOLEAN /\ (card => card')
    BY <1>1, <1>6 DEF StartSwitch, stripe
  <2> QED
    BY <2>1, <2>2, <2>3, SwitchType, Asks
<1>7. ASSUME NEW p \in Plans, StartFinalize(w, p) PROVE Inv'
  <2>1. task' = [task EXCEPT ![w] = [Idle EXCEPT !.pc = "current", !.op = "switch",
                                                 !.plan = p]]
    BY <1>7 DEF StartFinalize, Become
  <2>2. UNCHANGED <<subs, keys, events, db, strays, faults>> /\ Spend /\ At(w, "idle")
    BY <1>7 DEF StartFinalize, Asked, stripe
  <2>3. card' \in BOOLEAN /\ (card => card')
    BY <1>1, <1>7 DEF StartFinalize, stripe
  <2> QED
    BY <2>1, <2>2, <2>3, SwitchType, Asks
<1> QED
  BY <1>2, <1>3, <1>4, <1>5, <1>6, <1>7, <1>8 DEF Ask

LEMMA StartReadInv ==
  ASSUME Inv, NEW w \in Workers, StartRead(w)
  PROVE  Inv'
<1> DEFINE t == [Idle EXCEPT !.pc = "sync", !.op = "read"]
<1>1. t \in TaskType /\ Fits(t, Len(subs), card) /\ t.pc = "sync"
  BY IdleType DEF Idle, TaskType, Steps, Fits, Reconciling, Syncing, Changing,
     Downgrading
<1>2. task' = [task EXCEPT ![w] = t] /\ task[w].pc = "idle" /\ ~Serving(task[w])
  BY DEF StartRead, Asked, At, Become, Serving
<1>3. UNCHANGED <<subs, card, keys, events, db, strays, changes, faults>>
  BY DEF StartRead, stripe
<1>4. Counters
  BY <1>3, Known DEF Counters
<1> HIDE DEF t
<1> QED
  BY <1>1, <1>2, <1>3, <1>4, GoesOn, Known DEF Accounted

LEMMA StartWebhookInv ==
  ASSUME Inv, NEW w \in Workers, StartWebhook(w)
  PROVE  Inv'
<1> DEFINE t == [Idle EXCEPT !.pc = "list", !.op = "webhook"]
<1>1. t \in TaskType /\ Fits(t, Len(subs), card) /\ t.pc = "list" /\ t.op = "webhook"
  BY IdleType DEF Idle, TaskType, Steps, Fits, Reconciling, Syncing, Changing,
     Downgrading
<1>2. task' = [task EXCEPT ![w] = t] /\ task[w].pc = "idle"
  BY DEF StartWebhook, At, Become
<1>3. UNCHANGED <<subs, card, keys, db, strays, changes, faults>> /\ events' \in BOOLEAN
  BY Known DEF StartWebhook
<1>4. Counters
  BY <1>3, Known DEF Counters
<1> HIDE DEF t
<1> QED
  BY <1>1, <1>2, <1>3, <1>4, GoesOn, Known DEF Accounted


-------------------------------------------------------------------------------
(* Synchronizing, and steps that leave Stripe alone.                         *)
\* A step of a request that changes nothing but the record.
LEMMA Quiet ==
  ASSUME Inv, NEW w \in Workers, NEW t \in TaskType,
         task' = [task EXCEPT ![w] = t], Fits(t, Len(subs), card),
         UNCHANGED <<stripe, strays, changes>>, db' \in DbType, faults' \in 0 .. MaxFaults,
         t.pc \notin {"cancel", "create"}, task[w].pc \notin {"list", "cancel"},
         Accounted(task[w], t)
  PROVE  Inv'
<1>1. UNCHANGED <<subs, card, keys, events, strays, changes>> /\ ~Serving(task[w])
  BY DEF stripe, Serving
<1>2. Counters
  BY <1>1, Known DEF Counters
<1> QED
  BY <1>1, <1>2, Known, GoesOn

LEMMA EnsureCustomerInv ==
  ASSUME Inv, NEW w \in Workers, EnsureCustomer(w)
  PROVE  Inv'
<1>1. /\ task[w].pc = "customer" /\ UNCHANGED <<stripe, strays, changes, faults>>
      /\ db' \in DbType /\ faults' \in 0 .. MaxFaults
  BY Known, IdleType DEF EnsureCustomer, At, DbType
<1>2. ASSUME NEW pc \in {"trial", "list"}, Goto(w, pc) PROVE Inv'
  <2> DEFINE t == [task[w] EXCEPT !.pc = pc]
  <2>1. t \in TaskType /\ Fits(t, Len(subs), card) /\ t.pc = pc
    BY <1>1, KnownTask DEF TaskType, Steps, Fits, Reconciling, Syncing, Changing,
       Downgrading
  <2>2. task' = [task EXCEPT ![w] = t]
    BY <1>2, KnownTask DEF Goto, Inv, Types
  <2> HIDE DEF t
  <2> QED
    BY <1>1, <2>1, <2>2, Quiet DEF Accounted
<1> QED
  BY <1>2 DEF EnsureCustomer

LEMMA IgnoreEventInv ==
  ASSUME Inv, NEW w \in Workers, IgnoreEvent(w)
  PROVE  Inv'
<1>1. task[w].pc = "sync" /\ UNCHANGED <<stripe, db, strays, changes, faults>>
      /\ task' = [task EXCEPT ![w] = Idle]
  BY DEF IgnoreEvent, At, Become
<1> QED
  BY <1>1, IdleType, IdleFits, Known, Quiet DEF Accounted, Idle

LEMMA ReadStripeInv ==
  ASSUME Inv, NEW w \in Workers, ReadStripe(w)
  PROVE  Inv'
<1> DEFINE t == [Idle EXCEPT !.pc = "write", !.op = task[w].op,
                             !.snap = Facts(subs, card)]
<1>1. task[w].pc = "sync" /\ UNCHANGED <<stripe, db, strays, changes, faults>>
      /\ task' = [task EXCEPT ![w] = t]
  BY DEF ReadStripe, At, Become
<1>2. Facts(subs, card) \in FactsType /\ task[w].op \in
        {"none", "own", "trial", "switch", "undo", "webhook", "read"}
  BY Known, KnownTask, FactsTyped DEF TaskType
<1>3. t \in TaskType /\ Fits(t, Len(subs), card) /\ t.pc = "write"
  BY <1>2, IdleType DEF Idle, TaskType, Steps, Fits, Reconciling, Syncing, Changing,
     Downgrading
<1> HIDE DEF t
<1> QED
  BY <1>1, <1>3, Known, Quiet DEF Accounted

LEMMA WriteDbInv ==
  ASSUME Inv, NEW w \in Workers, WriteDb(w)
  PROVE  Inv'
<1>1. /\ task[w].pc = "write" /\ UNCHANGED <<stripe, strays, changes, faults>>
      /\ task' = [task EXCEPT ![w] = Idle]
      /\ db' = [db EXCEPT !.facts = task[w].snap]
  BY DEF WriteDb, At, Become, Written
<1>2. task[w].snap \in FactsType
  BY KnownTask DEF TaskType
<1>3. db' \in DbType
  BY <1>1, <1>2, Known DEF DbType
<1> QED
  BY <1>1, <1>3, IdleType, IdleFits, Known, Quiet DEF Accounted, Idle

-------------------------------------------------------------------------------
(* Plan changes that do not write to Stripe.                                 *)
LEMMA GivesUp ==
  ASSUME Inv, NEW w \in Workers, task' = [task EXCEPT ![w] = Idle],
         UNCHANGED <<stripe, strays, changes>>, db' \in DbType, faults' \in 0 .. MaxFaults,
         task[w].pc \notin {"list", "cancel", "phases", "rollback"}
  PROVE  Inv'
<1>1. Accounted(task[w], Idle) /\ Idle.pc \notin {"cancel", "create"}
  BY DEF Accounted, Idle
<1> QED
  BY <1>1, IdleType, IdleFits, Quiet

LEMMA GoesToSync ==
  ASSUME Inv, NEW w \in Workers, Go(w, "sync"),
         UNCHANGED <<stripe, strays, changes>>, db' \in DbType, faults' \in 0 .. MaxFaults,
         task[w].pc \notin {"list", "cancel", "phases", "rollback"}
  PROVE  Inv'
<1> DEFINE t == [Idle EXCEPT !.pc = "sync", !.op = Origin(task[w].op)]
<1>1. t \in TaskType /\ Fits(t, Len(subs), card) /\ t.pc = "sync"
  BY GoType
<1>2. task' = [task EXCEPT ![w] = t]
  BY DEF Go, Become
<1> HIDE DEF t
<1> QED
  BY <1>1, <1>2, Quiet DEF Accounted

LEMMA ResolveInv ==
  ASSUME Inv, NEW w \in Workers, Resolve(w)
  PROVE  Inv'
<1>1. /\ task[w].pc = "current" /\ UNCHANGED <<stripe, strays, changes>>
      /\ db' \in DbType /\ faults' \in 0 .. MaxFaults
  BY Known DEF Resolve, At
<1> DEFINE next(i) == IF task[w].op = "undo" THEN "clear"
                      ELSE SwitchStep(subs[i], task[w].plan)
           t(i) == [task[w] EXCEPT !.pc = next(i), !.sub = i, !.view = subs[i],
                                   !.sid = subs[i].sid]
<1>2. PICK i \in Current(subs) :
        CASE next(i) = "refused" -> Become(w, Idle)
          [] next(i) = "sync" -> Go(w, "sync")
          [] OTHER -> Become(w, t(i))
  BY DEF Resolve
<1>3. /\ i \in DOMAIN subs /\ subs[i] \in SubType /\ subs[i].status # "canceled"
      /\ Sound(subs[i], card) /\ i \in Nat /\ i \in 1 .. Len(subs)
  BY Known DEF Current, Live
<1>4. /\ task[w] \in TaskType
      /\ task[w].op = "undo" \/ (task[w].op = "switch" /\ task[w].plan \in Plans)
  BY <1>1, KnownTask DEF Fits
<1>5. CASE next(i) = "refused"
  BY <1>1, <1>2, <1>5, GivesUp DEF Become
<1>6. CASE next(i) = "sync"
  BY <1>1, <1>2, <1>6, GoesToSync
<1>7. CASE next(i) \notin {"refused", "sync"}
  <2>1. task' = [task EXCEPT ![w] = t(i)]
    BY <1>2, <1>7 DEF Become
  <2>2. CASE task[w].op = "undo"
    <3>1. next(i) = "clear"
      BY <2>2
    <3> HIDE DEF next
    <3>2. t(i) \in TaskType /\ Fits(t(i), Len(subs), card) /\ t(i).pc = "clear"
      BY <1>3, <1>4, <2>2, <3>1 DEF TaskType, Steps, Fits, Reconciling, Syncing,
         Changing, Downgrading, SubType
    <3> HIDE DEF t
    <3> QED
      BY <1>1, <2>1, <3>2, Quiet DEF Accounted
  <2>3. CASE task[w].op = "switch" /\ task[w].plan \in Plans
    <3> DEFINE p == task[w].plan
    <3>1. next(i) = SwitchStep(subs[i], p)
      BY <2>3
    <3>2. /\ next(i) \in {"release", "resume", "unend"}
          /\ next(i) = "resume" => Paid(p)
          /\ next(i) = "unend" => Paid(subs[i].plan) /\ ~CardlessTrial(subs[i])
      BY <1>3, <1>7, <2>3, <3>1, Levels DEF SwitchStep, SubType, Plans, Paid
    <3>3. next(i) = "unend" => card
      BY <1>3, <3>2 DEF CardlessTrial, Sound, SubType
    <3> HIDE DEF next
    <3>4. t(i) \in TaskType /\ t(i).pc = next(i) /\ t(i).op = "switch"
          /\ t(i).plan = p /\ t(i).sub = i /\ t(i).view = subs[i]
      BY <1>3, <1>4, <2>3, <3>2 DEF TaskType, Steps, Changing, Downgrading, SubType
    <3> HIDE DEF t
    <3>5. Fits(t(i), Len(subs), card)
      BY <1>3, <2>3, <3>2, <3>3, <3>4 DEF Fits, Changing, Downgrading
    <3>6. t(i).pc \notin {"cancel", "create"} /\ Accounted(task[w], t(i))
      BY <1>1, <3>2, <3>4 DEF Accounted
    <3> QED
      BY <1>1, <2>1, <3>4, <3>5, <3>6, Quiet
  <2> QED
    BY <1>4, <2>2, <2>3
<1> QED
  BY <1>5, <1>6, <1>7

LEMMA UnresolvedInv ==
  ASSUME Inv, NEW w \in Workers, Unresolved(w) \/ Refused(w)
  PROVE  Inv'
<1>1. /\ UNCHANGED <<stripe, strays, changes>> /\ task' = [task EXCEPT ![w] = Idle]
      /\ db' \in DbType /\ faults' \in 0 .. MaxFaults
  BY Known DEF Unresolved, Refused, Become
<1>2. task[w].pc \notin {"list", "cancel", "phases", "rollback"}
  BY DEF Unresolved, Refused, At
<1> QED
  BY <1>1, <1>2, GivesUp


-------------------------------------------------------------------------------
(* Plan changes that write to Stripe.                                        *)
LEMMA GotoType ==
  ASSUME Inv, NEW w \in Workers, task[w].pc \in Changing,
         NEW pc \in Changing \ {"resume"}, Goto(w, pc),
         pc = "update" => task[w].pc = "resume",
         pc \in Downgrading => task[w].pc \in Downgrading
  PROVE  LET t == [task[w] EXCEPT !.pc = pc] IN
         /\ t \in TaskType /\ Fits(t, Len(subs), card)
         /\ t.pc = pc /\ t.pc \notin {"cancel", "create"}
         /\ t.created = task[w].created /\ t.sub = task[w].sub /\ t.sid = task[w].sid
         /\ task' = [task EXCEPT ![w] = t]
<1> DEFINE t == [task[w] EXCEPT !.pc = pc]
<1>1. task[w] \in TaskType /\ Fits(task[w], Len(subs), card)
  BY KnownTask
<1>2. pc \in Steps
  BY DEF Steps
<1>3. t \in TaskType /\ t.pc = pc /\ t.created = task[w].created /\ t.sub = task[w].sub
      /\ t.sid = task[w].sid /\ t.op = task[w].op /\ t.plan = task[w].plan
      /\ t.view = task[w].view
  BY <1>1, <1>2 DEF TaskType
<1>4. task' = [task EXCEPT ![w] = t]
  BY KnownTask DEF Goto, Inv, Types
<1>5. task[w].op \notin {"webhook", "read"}
  BY <1>1 DEF Fits, Reconciling, Syncing, Changing, Downgrading
<1> HIDE DEF t
<1>6. Fits(t, Len(subs), card)
  BY <1>1, <1>3, <1>5 DEF Fits, Changing, Downgrading, Reconciling
<1> QED
  BY <1>3, <1>4, <1>6 DEF t, Changing, Downgrading

\* The subscription a request changes.
LEMMA KnownSub ==
  ASSUME Inv, NEW w \in Workers, task[w].pc \in Changing
  PROVE  /\ task[w].sub \in DOMAIN subs
         /\ subs[task[w].sub] \in SubType /\ Sound(subs[task[w].sub], card)
BY Known, KnownTask DEF Fits

LEMMA Moves ==
  ASSUME Inv, NEW w \in Workers, task[w].pc \in Changing,
         NEW pc \in Changing \ {"resume"}, Goto(w, pc),
         pc = "update" => task[w].pc = "resume",
         pc \in Downgrading => task[w].pc \in Downgrading,
         task[w].pc \in {"phases", "rollback"} => pc \in {"phases", "rollback"},
         UNCHANGED <<card, keys, db, strays, changes, faults>>,
         \/ UNCHANGED <<subs, events>>
         \/ \E x \in SubType :
              /\ Changed([subs EXCEPT ![task[w].sub] = x])
              /\ Alike(subs[task[w].sub], x) /\ Sound(x, card)
              /\ x.schedule = Bare => subs[task[w].sub].schedule = Bare
                                      /\ x.sid = subs[task[w].sub].sid
  PROVE  Inv'
<1> DEFINE t == [task[w] EXCEPT !.pc = pc]
<1>1. /\ t \in TaskType /\ Fits(t, Len(subs), card)
      /\ t.pc \notin {"cancel", "create"} /\ task' = [task EXCEPT ![w] = t]
      /\ Accounted(task[w], t)
  BY GotoType DEF Accounted
<1> HIDE DEF t
<1>2. task[w].pc \notin {"list", "cancel"}
  BY DEF Changing, Downgrading
<1>3. CASE UNCHANGED <<subs, events>>
  <2>1. UNCHANGED <<stripe, strays, changes>> /\ db' \in DbType /\ faults' \in 0 .. MaxFaults
    BY <1>3, Known DEF stripe
  <2> QED
    BY <1>1, <1>2, <2>1, Quiet
<1>4. ASSUME NEW x \in SubType, Changed([subs EXCEPT ![task[w].sub] = x]),
             Alike(subs[task[w].sub], x), Sound(x, card),
             x.schedule = Bare => subs[task[w].sub].schedule = Bare
                                  /\ x.sid = subs[task[w].sub].sid
      PROVE  Inv'
  <2>1. Counters
    BY <1>4, Known DEF Counters, Changed
  <2> QED
    BY <1>1, <1>4, <2>1, KnownSub, ChangesSub DEF Changed
<1> QED
  BY <1>3, <1>4

\* Taking back the end of a subscription, or setting it.
LEMMA EndsChange ==
  ASSUME Inv, NEW w \in Workers, task[w].pc \in Changing, NEW b \in BOOLEAN
  PROVE  LET i == task[w].sub
             x == [subs[i] EXCEPT !.ends = b] IN
         /\ [subs EXCEPT ![i].ends = b] = [subs EXCEPT ![i] = x]
         /\ x \in SubType /\ Alike(subs[i], x) /\ Sound(x, card)
         /\ x.schedule = subs[i].schedule /\ x.sid = subs[i].sid
BY KnownSub DEF SubType, Alike, Sound

LEMMA ResumeInv ==
  ASSUME Inv, NEW w \in Workers, Resume(w)
  PROVE  Inv'
<1> DEFINE i == task[w].sub
           x == [subs[i] EXCEPT !.ends = FALSE]
<1>1. task[w].pc \in {"resume", "unend", "clear"} /\ task[w].pc \in Changing
  BY DEF Resume, Changing, Downgrading
<1>2. \/ UNCHANGED <<subs, events>>
      \/ Changed([subs EXCEPT ![i] = x])
  BY <1>1, EndsChange DEF Resume
<1>3. x \in SubType /\ Alike(subs[i], x) /\ Sound(x, card)
      /\ x.schedule = subs[i].schedule /\ x.sid = subs[i].sid
  BY <1>1, EndsChange
<1> HIDE DEF x
<1>4. UNCHANGED <<card, keys, db, strays, changes, faults>>
  BY DEF Resume
<1>5. \E pc \in {"update", "schedule", "release"} :
        /\ Goto(w, pc)
        /\ pc = "update" => task[w].pc = "resume"
        /\ pc = "schedule" => task[w].pc = "unend"
  BY <1>1 DEF Resume, At
<1> QED
  BY <1>1, <1>2, <1>3, <1>4, <1>5, Moves DEF Changing, Downgrading

LEMMA UpdateInv ==
  ASSUME Inv, NEW w \in Workers, Update(w)
  PROVE  Inv'
<1> DEFINE i == task[w].sub
           x == [subs[i] EXCEPT !.due = task[w].plan]
<1>1. task[w].pc = "update" /\ task[w].pc \in Changing
  BY DEF Update, At, Changing
<1>2. Paid(task[w].plan) /\ task[w].plan \in Plans
  BY <1>1, KnownTask DEF Fits, Paid, Plans
<1>3. x \in SubType /\ Alike(subs[i], x) /\ Sound(x, card)
      /\ x.schedule = subs[i].schedule /\ x.sid = subs[i].sid
      /\ [subs EXCEPT ![i].due = task[w].plan] = [subs EXCEPT ![i] = x]
  BY <1>1, <1>2, KnownSub DEF SubType, Alike, Sound
<1>4. Changed([subs EXCEPT ![i] = x])
  BY <1>3 DEF Update
<1> HIDE DEF x
<1>5. UNCHANGED <<card, keys, db, strays, changes, faults>>
  BY DEF Update
<1>6. CASE Goto(w, "clear")
  BY <1>1, <1>3, <1>4, <1>5, <1>6, Moves DEF Changing, Downgrading
<1>7. ASSUME NEW t \in TaskType, Fits(t, Len(subs), card),
             t.pc \notin {"cancel", "create"}, task' = [task EXCEPT ![w] = t]
      PROVE  Inv'
  <2>1. Counters
    BY <1>4, <1>5, Known DEF Counters, Changed
  <2>2. Accounted(task[w], t)
    BY <1>1 DEF Accounted
  <2> QED
    BY <1>1, <1>3, <1>4, <1>5, <1>7, <2>1, <2>2, KnownSub, ChangesSub DEF Changed
<1>8. CASE Go(w, "sync")
  BY <1>7, <1>8, GoType DEF Go, Become
<1>9. CASE Become(w, Idle)
  BY <1>7, <1>9, IdleType, IdleFits DEF Become, Idle
<1> QED
  BY <1>6, <1>8, <1>9 DEF Update, Upgraded

\* Releasing a schedule.
LEMMA Releasing ==
  ASSUME Inv, NEW w \in Workers, task[w].pc \in Changing
  PROVE  LET i == task[w].sub
             x == [subs[i] EXCEPT !.schedule = NoPlan] IN
         /\ Released(subs, i) = [subs EXCEPT ![i] = x]
         /\ x \in SubType /\ Alike(subs[i], x) /\ Sound(x, card)
         /\ x.schedule # Bare
BY KnownSub DEF Released, SubType, Alike, Sound, Schedules, NoPlan, Bare, Paid

LEMMA ReleaseInv ==
  ASSUME Inv, NEW w \in Workers, Release(w)
  PROVE  Inv'
<1> DEFINE i == task[w].sub
           x == [subs[i] EXCEPT !.schedule = NoPlan]
<1>1. task[w].pc = "release" /\ task[w].pc \in Changing
  BY DEF Release, At, Changing
<1>2. UNCHANGED <<subs, events>> \/ Changed([subs EXCEPT ![i] = x])
  BY <1>1, Releasing DEF Release
<1>3. x \in SubType /\ Alike(subs[i], x) /\ Sound(x, card) /\ x.schedule # Bare
  BY <1>1, Releasing
<1> HIDE DEF x
<1>4. UNCHANGED <<card, keys, db, strays, changes, faults>>
  BY DEF Release
<1>5. \E pc \in {"end", "pendingRead"} : Goto(w, pc)
  BY DEF Release
<1> QED
  BY <1>1, <1>2, <1>3, <1>4, <1>5, Moves DEF Changing, Downgrading

LEMMA EndTrialInv ==
  ASSUME Inv, NEW w \in Workers, EndTrial(w)
  PROVE  Inv'
<1> DEFINE i == task[w].sub
           x == [subs[i] EXCEPT !.ends = TRUE]
<1>1. task[w].pc = "end" /\ task[w].pc \in Changing
  BY DEF EndTrial, At, Changing
<1>2. Changed([subs EXCEPT ![i] = x])
  BY <1>1, EndsChange DEF EndTrial
<1>3. x \in SubType /\ Alike(subs[i], x) /\ Sound(x, card)
      /\ x.schedule = subs[i].schedule /\ x.sid = subs[i].sid
  BY <1>1, EndsChange
<1> HIDE DEF x
<1>4. UNCHANGED <<card, keys, db, strays, changes, faults>> /\ Goto(w, "pendingRead")
  BY DEF EndTrial
<1> QED
  BY <1>1, <1>2, <1>3, <1>4, Moves DEF Changing, Downgrading


\* The request that creates a schedule owns it.
LEMMA CreateScheduleInv ==
  ASSUME Inv, NEW w \in Workers, CreateSchedule(w)
  PROVE  Inv'
<1> DEFINE i == task[w].sub
<1>1. /\ task[w].pc = "schedule" /\ task[w].pc \in Changing
      /\ UNCHANGED <<card, keys, db, strays, changes, faults>>
  BY DEF CreateSchedule, At, Changing, Downgrading
<1>2. CASE UNCHANGED <<subs, events>> /\ Goto(w, "phases")
  BY <1>1, <1>2, Moves DEF Changing, Downgrading
<1>3. CASE /\ Viewed(w).schedule = NoPlan /\ Sub(w).schedule = NoPlan
           /\ Changed([subs EXCEPT ![i].schedule = Bare, ![i].sid = @ + 1])
           /\ Become(w, [task[w] EXCEPT !.pc = "phases", !.created = TRUE,
                                        !.sid = subs[i].sid + 1])
  <2> DEFINE x == [subs[i] EXCEPT !.schedule = Bare, !.sid = @ + 1]
             t == [task[w] EXCEPT !.pc = "phases", !.created = TRUE,
                                  !.sid = subs[i].sid + 1]
  <2>1. i \in DOMAIN subs /\ subs[i] \in SubType /\ Sound(subs[i], card)
        /\ subs[i].schedule = NoPlan /\ subs[i].status # "canceled"
    BY <1>1, <1>3, KnownSub DEF Sub, CreateSchedule, Updatable
  <2>2. x \in SubType /\ Alike(subs[i], x) /\ Sound(x, card)
        /\ x.sid = subs[i].sid + 1 /\ x.schedule = Bare
    <3>1. subs[i].sid + 1 \in Nat /\ Bare \in Schedules /\ ~Paid(Bare)
      BY <2>1 DEF SubType, Schedules, Bare, Paid
    <3>2. x \in SubType /\ x.schedule = Bare /\ x.sid = subs[i].sid + 1
          /\ x.status = subs[i].status /\ x.plan = subs[i].plan /\ x.due = subs[i].due
      BY <2>1, <3>1 DEF SubType
    <3> HIDE DEF x
    <3> QED
      BY <2>1, <3>1, <3>2 DEF Alike, Sound
  <2>3. subs' = [subs EXCEPT ![i] = x] /\ events' = TRUE
    BY <1>3, <2>1 DEF Changed
  <2>4. task' = [task EXCEPT ![w] = t]
    BY <1>3 DEF Become
  <2>5. task[w] \in TaskType /\ Fits(task[w], Len(subs), card)
        /\ subs[i].sid + 1 \in Nat
    BY <2>1, KnownTask DEF SubType
  <2>6. t \in TaskType /\ t.pc = "phases" /\ t.created /\ t.sub = i
        /\ t.sid = subs[i].sid + 1 /\ t.op = task[w].op /\ t.plan = task[w].plan
        /\ t.view = task[w].view
    BY <2>5 DEF TaskType, Steps, Changing, Downgrading
  <2> HIDE DEF x, t
  <2>7. Fits(t, Len(subs), card)
    BY <1>1, <2>5, <2>6 DEF Fits, Changing, Downgrading, Reconciling, Syncing
  <2>8. /\ subs' \in Seq(SubType) /\ Len(subs') = Len(subs) /\ Len(subs) <= Len(subs')
        /\ DOMAIN subs' = DOMAIN subs /\ subs'[i] = x
        /\ \A j \in DOMAIN subs \ {i} : subs'[j] = subs[j]
    BY <2>1, <2>2, <2>3, Known, Replaced
  <2>9. /\ task' \in [Workers -> TaskType]
        /\ \A v \in Workers : Fits(task'[v], Len(subs'), card')
        /\ task'[w] = t /\ \A v \in Workers \ {w} : task'[v] = task[v]
    BY <1>1, <2>4, <2>6, <2>7, <2>8, TasksKept DEF Inv
  <2>10. \A j \in DOMAIN subs' : Sound(subs'[j], card')
    BY <1>1, <2>2, <2>8, Known
  <2>11. Counters
    BY <1>1, <2>3, Known DEF Counters
  <2>12. Types'
    BY <1>1, <2>8, <2>9, <2>10, <2>11, Known, TypesKept DEF Inv
  <2>13. Owned'
    <3>1. Owns(task'[w], i, subs'[i].sid)
      BY <2>2, <2>6, <2>8, <2>9 DEF Owns
    <3>2. ASSUME NEW j \in DOMAIN subs \ {i}, subs[j].schedule = Bare,
                 <<j, subs[j].sid>> \notin strays
          PROVE  \E v \in Workers : Owns(task'[v], j, subs'[j].sid)
      <4>1. PICK v \in Workers : Owns(task[v], j, subs[j].sid)
        BY <3>2 DEF Inv, Owned
      <4>2. v # w
        BY <1>1, <4>1 DEF Owns
      <4> QED
        BY <2>8, <2>9, <4>1, <4>2
    <3> QED
      BY <1>1, <2>8, <3>1, <3>2 DEF Owned
  <2>14. Evolves(subs, subs')
    <3>1. \A j \in DOMAIN subs : subs[j] \in SubType /\ subs'[j] \in SubType
      BY <2>2, <2>8, Known
    <3>2. \A j \in DOMAIN subs : subs[j].plan \in Plans /\ subs'[j].plan \in Plans
      BY <3>1 DEF SubType
    <3> QED
      BY <2>2, <2>8, <3>2 DEF Evolves, Alike
  <2>15. Single'
    BY <1>1, <2>3, <2>6, <2>9, <2>14, Known, SingleKept DEF Inv
  <2> QED
    BY <2>12, <2>13, <2>15 DEF Inv
<1> QED
  BY <1>2, <1>3 DEF CreateSchedule

LEMMA SetPhasesInv ==
  ASSUME Inv, NEW w \in Workers, SetPhases(w)
  PROVE  Inv'
<1> DEFINE i == task[w].sub
           p == task[w].plan
           q == task[w].view.plan
           x == [subs[i] EXCEPT !.schedule = p, !.status = "active", !.plan = q]
           t == [task[w] EXCEPT !.pc = "pendingRead"]
<1>1. /\ task[w].pc = "phases" /\ task[w].pc \in Changing
      /\ UNCHANGED <<card, keys, db, strays, changes, faults>> /\ Goto(w, "pendingRead")
      /\ subs[i].schedule # NoPlan
  BY DEF SetPhases, At, Changing, Downgrading, Attached, Sub
<1>2. card /\ Paid(q) /\ p \in Plans /\ q \in Plans
  BY <1>1, KnownTask DEF Fits, Downgrading, Paid, Plans
<1>3. i \in DOMAIN subs /\ subs[i] \in SubType /\ Sound(subs[i], card)
      /\ subs[i].status # "canceled"
  BY <1>1, KnownSub DEF Sound
<1>4. x \in SubType /\ Alike(subs[i], x) /\ Sound(x, card) /\ x.schedule # Bare
  BY <1>2, <1>3 DEF SubType, Alike, Sound, Schedules, Bare, Plans
<1>5. subs' = [subs EXCEPT ![i] = x] /\ events' = TRUE
  BY <1>3 DEF SetPhases, Changed, Viewed
<1>6. /\ t \in TaskType /\ Fits(t, Len(subs), card)
      /\ t.pc \notin {"cancel", "create"} /\ task' = [task EXCEPT ![w] = t]
  BY <1>1, GotoType DEF Changing, Downgrading
<1> HIDE DEF x, t
<1>7. Counters
  BY <1>1, <1>5, Known DEF Counters
<1> QED
  BY <1>1, <1>3, <1>4, <1>5, <1>6, <1>7, ChangesSub

LEMMA PhasesFailInv ==
  ASSUME Inv, NEW w \in Workers, PhasesFail(w)
  PROVE  Inv'
<1> DEFINE t == [task[w] EXCEPT !.pc = "rollback"]
<1>1. /\ task[w].pc = "phases" /\ task[w].pc \in Changing /\ Goto(w, "rollback")
      /\ UNCHANGED <<stripe, db, strays, changes>>
  BY DEF PhasesFail, At, Changing, Downgrading
<1>2. faults' \in 0 .. MaxFaults /\ db' \in DbType
  BY <1>1, Known DEF PhasesFail, Fault
<1>3. /\ t \in TaskType /\ Fits(t, Len(subs), card) /\ t.pc = "rollback"
      /\ t.pc \notin {"cancel", "create"} /\ task' = [task EXCEPT ![w] = t]
      /\ Accounted(task[w], t)
  BY <1>1, GotoType DEF Changing, Downgrading, Accounted
<1> HIDE DEF t
<1> QED
  BY <1>1, <1>2, <1>3, Quiet

\* The schedule a request owns is released; another's is left to its owner.
LEMMA RollbackInv ==
  ASSUME Inv, NEW w \in Workers, Rollback(w)
  PROVE  Inv'
<1> DEFINE i == task[w].sub
           x == [subs[i] EXCEPT !.schedule = NoPlan]
           t == [task[w] EXCEPT !.pc = "restore"]
<1>1. /\ task[w].pc = "rollback" /\ task[w].pc \in Changing /\ Goto(w, "restore")
      /\ UNCHANGED <<card, keys, db, strays, changes, faults>>
  BY DEF Rollback, At, Changing, Downgrading
<1>2. /\ t \in TaskType /\ Fits(t, Len(subs), card) /\ t.pc = "restore"
      /\ t.pc \notin {"cancel", "create"} /\ task' = [task EXCEPT ![w] = t]
  BY <1>1, GotoType DEF Changing, Downgrading
<1>3. x \in SubType /\ Alike(subs[i], x) /\ Sound(x, card) /\ x.schedule # Bare
      /\ Released(subs, i) = [subs EXCEPT ![i] = x] /\ i \in DOMAIN subs
  BY <1>1, Releasing, KnownSub
<1> HIDE DEF x, t
<1>4. CASE OwnSchedule(w)
  <2>1. subs' = [subs EXCEPT ![i] = x] /\ events' = TRUE
    BY <1>3, <1>4 DEF Rollback, Changed
  <2>2. Counters
    BY <1>1, <2>1, Known DEF Counters
  <2> QED
    BY <1>1, <1>2, <1>3, <2>1, <2>2, ChangesSub
<1>5. CASE ~OwnSchedule(w)
  <2>1. UNCHANGED <<subs, events>>
    BY <1>5 DEF Rollback
  <2>2. Counters
    BY <1>1, <2>1, Known DEF Counters
  <2>3. /\ task' \in [Workers -> TaskType]
        /\ \A v \in Workers : Fits(task'[v], Len(subs'), card')
        /\ task'[w] = t /\ \A v \in Workers \ {w} : task'[v] = task[v]
    <3>1. Len(subs) <= Len(subs') /\ subs' \in Seq(SubType)
      BY <2>1, Known
    <3> QED
      BY <1>1, <1>2, <2>1, <3>1, TasksKept DEF Inv
  <2>4. Types'
    BY <1>1, <2>1, <2>2, <2>3, Known, TypesKept DEF Inv
  <2>5. ASSUME NEW j \in DOMAIN subs, subs[j].schedule = Bare
        PROVE  ~Owns(task[w], j, subs[j].sid)
    BY <1>5, <2>5 DEF OwnSchedule, Owns, Attached, Sub, Bare, NoPlan
  <2>6. Owned'
    BY <1>1, <2>1, <2>3, <2>5, OwnedKept DEF Inv
  <2>7. Evolves(subs, subs')
    BY <2>1, SelfEvolves DEF Inv
  <2>8. Single'
    BY <1>1, <1>2, <2>1, <2>3, <2>7, SingleKept DEF Inv, Serving
  <2> QED
    BY <2>4, <2>6, <2>8 DEF Inv
<1> QED
  BY <1>4, <1>5

LEMMA RestoreInv ==
  ASSUME Inv, NEW w \in Workers, Restore(w)
  PROVE  Inv'
<1> DEFINE i == task[w].sub
           x == [subs[i] EXCEPT !.ends = TRUE]
<1>1. /\ task[w].pc = "restore" /\ task[w].pc \in Changing
      /\ task' = [task EXCEPT ![w] = Idle]
      /\ UNCHANGED <<card, keys, db, strays, changes, faults>>
  BY DEF Restore, At, Changing, Become
<1>2. CASE UNCHANGED <<subs, events>>
  <2>1. UNCHANGED <<stripe, strays, changes>> /\ db' \in DbType /\ faults' \in 0 .. MaxFaults
    BY <1>1, <1>2, Known DEF stripe
  <2> QED
    BY <1>1, <2>1, GivesUp
<1>3. CASE Changed([subs EXCEPT ![i].ends = TRUE])
  <2>1. x \in SubType /\ Alike(subs[i], x) /\ Sound(x, card)
        /\ x.schedule = subs[i].schedule /\ x.sid = subs[i].sid
        /\ [subs EXCEPT ![i].ends = TRUE] = [subs EXCEPT ![i] = x]
    BY <1>1, EndsChange
  <2>2. Counters
    BY <1>1, <1>3, Known DEF Counters, Changed
  <2>3. Accounted(task[w], Idle) /\ Idle.pc \notin {"cancel", "create"}
    BY <1>1 DEF Accounted, Idle
  <2> HIDE DEF x
  <2> QED
    BY <1>1, <1>3, <2>1, <2>2, <2>3, IdleType, IdleFits, KnownSub, ChangesSub
       DEF Changed
<1> QED
  BY <1>2, <1>3 DEF Restore

LEMMA ReadPendingInv ==
  ASSUME Inv, NEW w \in Workers, ReadPending(w)
  PROVE  Inv'
<1> DEFINE t == [task[w] EXCEPT !.pc = "pendingWrite", !.snap = db.facts]
<1>1. task[w].pc = "pendingRead" /\ UNCHANGED <<stripe, db, strays, changes, faults>>
      /\ task' = [task EXCEPT ![w] = t]
  BY DEF ReadPending, At, Become
<1>2. task[w] \in TaskType /\ Fits(task[w], Len(subs), card)
      /\ db.facts \in FactsType /\ db' \in DbType /\ faults' \in 0 .. MaxFaults
  BY <1>1, Known, KnownTask DEF DbType
<1>3. t \in TaskType /\ t.pc = "pendingWrite" /\ t.op = task[w].op
      /\ t.sub = task[w].sub
  BY <1>2 DEF TaskType, Steps, Changing
<1> HIDE DEF t
<1>4. Fits(t, Len(subs), card)
  BY <1>1, <1>2, <1>3 DEF Fits, Changing, Downgrading, Reconciling, Syncing
<1> QED
  BY <1>1, <1>2, <1>3, <1>4, Quiet DEF Accounted

LEMMA WritePendingInv ==
  ASSUME Inv, NEW w \in Workers, WritePending(w)
  PROVE  Inv'
<1> DEFINE t == task[w]
           pending == IF Clears(t) THEN NoPlan ELSE t.plan
<1>1. /\ task[w].pc = "pendingWrite" /\ UNCHANGED <<stripe, strays, changes, faults>>
      /\ db' = [db EXCEPT !.facts = [t.snap EXCEPT !.pending = pending]]
      /\ Go(w, "sync") \/ Become(w, Idle)
  BY DEF WritePending, At, Upgraded
<1>2. t.snap \in FactsType /\ pending \in Plans \cup {NoPlan}
  BY KnownTask DEF TaskType
<1>3. [t.snap EXCEPT !.pending = pending] \in FactsType
  BY <1>2 DEF FactsType
<1>4. db' \in DbType /\ faults' \in 0 .. MaxFaults
  BY <1>1, <1>3, Known DEF DbType
<1>5. CASE Go(w, "sync")
  BY <1>1, <1>4, <1>5, GoesToSync
<1>6. CASE Become(w, Idle)
  BY <1>1, <1>4, <1>6, GivesUp DEF Become
<1> QED
  BY <1>1, <1>5, <1>6


-------------------------------------------------------------------------------
(* Reconciling.                                                              *)
LEMMA RedundantFacts ==
  ASSUME Inv
  PROVE  /\ Redundant(subs) \subseteq Live(subs) /\ Live(subs) \subseteq Nat
         /\ \A i \in Redundant(subs) : subs[i].plan = "hobby"
         /\ Redundant(subs) # {} => \E i \in Live(subs) : Paid(subs[i].plan)
         /\ \A i \in Live(subs) : i \in DOMAIN subs
<1>1. Live(subs) \subseteq Nat /\ \A i \in Live(subs) : i \in DOMAIN subs
  BY Known DEF Live
<1> QED
  BY <1>1 DEF Redundant

\* The types and schedules when a request reconciles without a change.
LEMMA Looks ==
  ASSUME Inv, NEW w \in Workers, NEW t \in TaskType, Become(w, t),
         UNCHANGED <<subs, card, keys, events, db, strays, changes, faults>>,
         Fits(t, Len(subs), card), task[w].pc \notin {"phases", "rollback"}
  PROVE  /\ Types' /\ Owned' /\ OneHobby'
         /\ task'[w] = t /\ \A v \in Workers \ {w} : task'[v] = task[v]
<1>1. /\ Len(subs) <= Len(subs') /\ subs' \in Seq(SubType) /\ card' \in BOOLEAN
      /\ Counters /\ task' = [task EXCEPT ![w] = t]
  BY Known DEF Counters, Become
<1>2. /\ task' \in [Workers -> TaskType]
      /\ \A v \in Workers : Fits(task'[v], Len(subs'), card')
      /\ task'[w] = t /\ \A v \in Workers \ {w} : task'[v] = task[v]
  BY <1>1, TasksKept DEF Inv
<1>3. Types'
  BY <1>1, <1>2, Known, TypesKept DEF Inv
<1>4. Owned'
  BY <1>2, OwnedKept DEF Inv, Owns
<1>5. OneHobby'
  BY DEF Inv, Single, OneHobby, Live
<1> QED
  BY <1>2, <1>3, <1>4, <1>5

LEMMA ListInv ==
  ASSUME Inv, NEW w \in Workers, List(w)
  PROVE  Inv'
<1> DEFINE R == Redundant(subs)
           pc == IF Live(subs) = {} THEN "relist"
                 ELSE IF R = {} THEN "sync" ELSE "cancel"
           t == [task[w] EXCEPT !.pc = pc, !.cancel = R]
<1>1. /\ task[w].pc = "list" /\ Become(w, t)
      /\ UNCHANGED <<subs, card, keys, events, db, strays, changes, faults>>
  BY DEF List, At, stripe
<1>2. /\ R \subseteq Live(subs) /\ R \in SUBSET Nat
      /\ R # {} => pc = "cancel"
      /\ pc \in {"relist", "sync", "cancel"} /\ (pc = "cancel" => R # {})
  BY RedundantFacts
<1>3. task[w] \in TaskType /\ Fits(task[w], Len(subs), card)
  BY KnownTask
<1> HIDE DEF R, pc
<1>4. t \in TaskType /\ t.pc = pc /\ t.cancel = R /\ t.op = task[w].op
  BY <1>2, <1>3 DEF TaskType, Steps, Reconciling, Syncing
<1> HIDE DEF t
<1>5. Fits(t, Len(subs), card)
  BY <1>1, <1>2, <1>3, <1>4 DEF Fits, Reconciling, Syncing, Changing, Downgrading
<1>6. /\ Types' /\ Owned' /\ OneHobby'
      /\ task'[w] = t /\ \A v \in Workers \ {w} : task'[v] = task[v]
  BY <1>1, <1>4, <1>5, Looks
<1>7. Noticed'
  <2>1. CASE R = {}
    BY <1>1, <2>1 DEF Noticed, R
  <2>2. CASE R # {} /\ task[w].op = "webhook"
    BY <1>1, <1>2, <1>4, <1>6, <2>2 DEF Noticed, At, R, Serving
  <2>3. CASE task[w].op # "webhook"
    BY <1>1, <1>6, <2>3 DEF Inv, Single, Noticed, At, Serving
  <2> QED
    BY <2>1, <2>2, <2>3
<1>8. Spared(subs', task')
  <2>1. Condemned(task') \subseteq Condemned(task) \cup R
    BY <1>4, <1>6 DEF Condemned
  <2>2. ASSUME NEW v \in Workers \ {w}, task[v].pc = "cancel"
        PROVE  \E i \in Live(subs) : Paid(subs[i].plan) /\ i \notin Condemned(task')
    <3>1. PICK i \in Live(subs) : Paid(subs[i].plan) /\ i \notin Condemned(task)
      BY <2>2 DEF Inv, Single, Spared
    <3>2. i \notin R
      BY <3>1, RedundantFacts DEF R, Paid
    <3> QED
      BY <2>1, <3>1, <3>2
  <2>3. ASSUME R # {}, \A v \in Workers \ {w} : task[v].pc # "cancel"
        PROVE  \E i \in Live(subs) : Paid(subs[i].plan) /\ i \notin Condemned(task')
    <3>1. PICK i \in Live(subs) : Paid(subs[i].plan)
      BY <2>3, RedundantFacts DEF R
    <3>2. i \notin R
      BY <3>1, RedundantFacts DEF R, Paid
    <3>3. Condemned(task') \subseteq R
      BY <1>4, <1>6, <2>3 DEF Condemned
    <3> QED
      BY <3>1, <3>2, <3>3
  <2> QED
    BY <1>1, <1>2, <1>4, <1>6, <2>2, <2>3 DEF Spared
<1>9. Creating(subs', keys', task')
  <2>1. t.pc # "create"
    BY <1>2, <1>4
  <2>2. \A v \in Workers : task'[v].pc = "create" => task'[v] = task[v]
    BY <1>6, <2>1
  <2> QED
    BY <1>1, <2>2 DEF Inv, Single, Creating
<1> QED
  BY <1>6, <1>7, <1>8, <1>9 DEF Inv, Single

LEMMA CancelRedundantInv ==
  ASSUME Inv, NEW w \in Workers, NEW i \in DOMAIN subs, CancelRedundant(w, i)
  PROVE  Inv'
<1> DEFINE C == task[w].cancel
           pc == IF C = {i} THEN "sync" ELSE "cancel"
           t == [task[w] EXCEPT !.pc = pc, !.cancel = @ \ {i}]
           x == CancelSub(subs[i])
<1>1. /\ task[w].pc = "cancel" /\ i \in C /\ Become(w, t)
      /\ UNCHANGED <<card, keys, db, strays, changes, faults>>
  BY DEF CancelRedundant, At
<1>2. task[w] \in TaskType /\ Fits(task[w], Len(subs), card)
      /\ subs[i] \in SubType /\ Sound(subs[i], card)
  BY Known, KnownTask
<1>3. C \in SUBSET Nat
  BY <1>2 DEF TaskType
<1>4. pc \in {"sync", "cancel"} /\ (pc = "sync" => C \ {i} = {})
  OBVIOUS
<1> HIDE DEF pc
<1>5. t \in TaskType /\ t.pc = pc /\ t.cancel = C \ {i} /\ t.op = task[w].op
  BY <1>2, <1>3, <1>4 DEF TaskType, Steps, Reconciling, Syncing
<1> HIDE DEF t
<1>6. Fits(t, Len(subs), card)
  BY <1>1, <1>2, <1>4, <1>5 DEF Fits, Reconciling, Syncing, Changing, Downgrading
<1>7. i \in Condemned(task)
  BY <1>1, <1>3 DEF Condemned
<1>8. PICK b \in Live(subs) : Paid(subs[b].plan) /\ b \notin Condemned(task)
  BY <1>1 DEF Inv, Single, Spared
<1>9. CASE subs[i].status = "canceled"
  <2>1. UNCHANGED <<subs, events>>
    BY <1>9 DEF CancelRedundant
  <2>2. /\ Types' /\ Owned' /\ OneHobby'
        /\ task'[w] = t /\ \A v \in Workers \ {w} : task'[v] = task[v]
    BY <1>1, <1>5, <1>6, <2>1, Looks
  <2>3. Noticed'
    <3>1. i \notin Redundant(subs)
      BY <1>9 DEF Redundant, Live
    <3>2. CASE Redundant(subs) \subseteq C /\ task[w].op = "webhook"
      <4>1. CASE pc = "sync"
        BY <1>4, <2>1, <3>1, <3>2, <4>1 DEF Noticed
      <4>2. CASE pc = "cancel"
        BY <1>5, <2>1, <2>2, <3>1, <3>2, <4>2 DEF Noticed, At, Serving
      <4> QED
        BY <1>4, <4>1, <4>2
    <3>3. CASE ~(Redundant(subs) \subseteq C /\ task[w].op = "webhook")
      <4>1. \/ Redundant(subs) = {}
            \/ events
            \/ \E v \in Workers \ {w} :
                 /\ Serving(task[v])
                 /\ At(v, "cancel") => Redundant(subs) \subseteq task[v].cancel
        BY <1>1, <3>3 DEF Inv, Single, Noticed, At, Serving
      <4> QED
        BY <2>1, <2>2, <4>1 DEF Noticed, At
    <3> QED
      BY <3>2, <3>3
  <2>4. Spared(subs', task')
    <3>1. Condemned(task') \subseteq Condemned(task)
      BY <1>1, <1>5, <2>2 DEF Condemned
    <3> QED
      BY <1>8, <2>1, <3>1 DEF Spared
  <2>5. Creating(subs', keys', task')
    <3>1. \A v \in Workers : task'[v].pc = "create" => task'[v] = task[v]
      BY <1>4, <1>5, <2>2
    <3> QED
      BY <1>1, <2>1, <3>1 DEF Inv, Single, Creating
  <2> QED
    BY <2>2, <2>3, <2>4, <2>5 DEF Inv, Single
<1>10. CASE subs[i].status # "canceled"
  <2>1. subs' = [subs EXCEPT ![i] = x] /\ events' = TRUE
    BY <1>10 DEF CancelRedundant, Changed
  <2>2. x \in SubType /\ Sound(x, card) /\ x.status = "canceled"
        /\ x.schedule # Bare
    BY <1>2 DEF CancelSub, SubType, Sound, Schedules, Paid, NoPlan, Bare
  <2> HIDE DEF x
  <2>3. /\ subs' \in Seq(SubType) /\ Len(subs') = Len(subs) /\ Len(subs) <= Len(subs')
        /\ DOMAIN subs' = DOMAIN subs /\ subs'[i] = x
        /\ \A j \in DOMAIN subs \ {i} : subs'[j] = subs[j]
    BY <2>1, <2>2, Known, Replaced
  <2>4. /\ task' \in [Workers -> TaskType]
        /\ \A v \in Workers : Fits(task'[v], Len(subs'), card')
        /\ task'[w] = t /\ \A v \in Workers \ {w} : task'[v] = task[v]
    BY <1>1, <1>5, <1>6, <2>3, TasksKept DEF Inv, Become
  <2>5. \A j \in DOMAIN subs' : Sound(subs'[j], card')
    BY <1>1, <2>2, <2>3, Known
  <2>6. Counters
    BY <1>1, <2>1, Known DEF Counters
  <2>7. Types'
    BY <1>1, <2>3, <2>4, <2>5, <2>6, Known, TypesKept DEF Inv
  <2>8. Owned'
    BY <1>1, <2>2, <2>3, <2>4, OwnedKept DEF Inv, Owns
  <2>9. Live(subs') = Live(subs) \ {i}
    BY <2>2, <2>3 DEF Live
  <2>10. \A j \in Live(subs') : j # i /\ subs'[j] = subs[j]
    BY <2>3, <2>9 DEF Live
  <2>11. OneHobby'
    BY <2>9, <2>10 DEF Inv, Single, OneHobby
  <2>12. Noticed'
    BY <2>1, Known DEF Noticed
  <2>13. b \in Live(subs') /\ Paid(subs'[b].plan)
    BY <1>7, <1>8, <2>9, <2>10
  <2>14. Spared(subs', task')
    <3>1. Condemned(task') \subseteq Condemned(task)
      BY <1>1, <1>5, <2>4 DEF Condemned
    <3> QED
      BY <1>8, <2>13, <3>1 DEF Spared
  <2>15. Creating(subs', keys', task')
    <3>1. \A v \in Workers : task'[v].pc = "create" => task'[v] = task[v]
      BY <1>4, <1>5, <2>4
    <3>2. NoHobby(subs) => NoHobby(subs')
      BY <2>9, <2>10 DEF NoHobby
    <3>3. Live(subs') # {}
      BY <2>13
    <3> QED
      BY <1>1, <3>1, <3>2, <3>3 DEF Inv, Single, Creating
  <2> QED
    BY <2>7, <2>8, <2>11, <2>12, <2>14, <2>15 DEF Inv, Single
<1> QED
  BY <1>9, <1>10

LEMMA RelistInv ==
  ASSUME Inv, NEW w \in Workers, Relist(w)
  PROVE  Inv'
<1> DEFINE pc == IF Live(subs) = {} THEN "create" ELSE "sync"
           t == [task[w] EXCEPT !.pc = pc, !.sub = Len(subs)]
<1>1. /\ task[w].pc = "relist" /\ Become(w, t)
      /\ UNCHANGED <<subs, card, keys, events, db, strays, changes, faults>>
  BY DEF Relist, At, stripe, KeyOf
<1>2. task[w] \in TaskType /\ Fits(task[w], Len(subs), card) /\ Len(subs) \in Nat
  BY Known, KnownTask
<1>3. pc \in {"create", "sync"} /\ (pc = "create" <=> Live(subs) = {})
  OBVIOUS
<1> HIDE DEF pc
<1>4. t \in TaskType /\ t.pc = pc /\ t.sub = Len(subs) /\ t.op = task[w].op
  BY <1>2, <1>3 DEF TaskType, Steps, Reconciling, Syncing
<1> HIDE DEF t
<1>5. Fits(t, Len(subs), card)
  BY <1>1, <1>2, <1>3, <1>4 DEF Fits, Reconciling, Syncing, Changing, Downgrading
<1>6. /\ Types' /\ Owned' /\ OneHobby'
      /\ task'[w] = t /\ \A v \in Workers \ {w} : task'[v] = task[v]
  BY <1>1, <1>4, <1>5, Looks
<1>7. Noticed'
  BY <1>1, <1>6 DEF Inv, Single, Noticed, At, Serving
<1>8. Spared(subs', task')
  <2>1. Condemned(task') \subseteq Condemned(task)
    BY <1>3, <1>4, <1>6 DEF Condemned
  <2>2. \A v \in Workers : task'[v].pc = "cancel" => task[v].pc = "cancel"
    BY <1>3, <1>4, <1>6
  <2> QED
    BY <1>1, <2>1, <2>2 DEF Inv, Single, Spared
<1>9. Creating(subs', keys', task')
  <2>1. CASE Live(subs) = {}
    <3>1. NoHobby(subs)
      BY <2>1 DEF NoHobby
    <3>2. ASSUME NEW v \in Workers, task'[v].pc = "create", task'[v].sub \notin keys
          PROVE  task'[v].sub = Len(subs)
      <4>1. CASE v = w
        BY <1>4, <1>6, <4>1
      <4>2. CASE v # w
        BY <1>6, <2>1, <3>2, <4>2 DEF Inv, Single, Creating
      <4> QED
        BY <4>1, <4>2
    <3> QED
      BY <1>1, <3>1, <3>2 DEF Creating
  <2>2. CASE Live(subs) # {}
    <3>1. \A v \in Workers : task'[v].pc = "create" => task'[v] = task[v]
      BY <1>3, <1>4, <1>6, <2>2
    <3> QED
      BY <1>1, <3>1 DEF Inv, Single, Creating
  <2> QED
    BY <2>1, <2>2
<1> QED
  BY <1>6, <1>7, <1>8, <1>9 DEF Inv, Single


\* A request creates a subscription and goes on.
LEMMA Adds ==
  ASSUME Inv, NEW w \in Workers, NEW x \in SubType, Sound(x, card),
         x.status # "canceled", x.schedule # Bare,
         Changed(Append(subs, x)),
         keys' = keys \cup {task[w].sub} \/ keys' = keys \cup {TrialKey},
         UNCHANGED <<card, db, strays, changes, faults>>,
         NEW pc \in {"sync", "list"}, Go(w, pc),
         pc = "list" => task[w].op # "read",
         task[w].pc \notin {"list", "cancel", "phases", "rollback"}
  PROVE  /\ Types' /\ Owned' /\ Noticed' /\ Spared(subs', task')
         /\ Live(subs') = Live(subs) \cup {Len(subs) + 1}
         /\ subs'[Len(subs) + 1] = x
         /\ \A j \in Live(subs) : j # Len(subs) + 1 /\ subs'[j] = subs[j]
         /\ \A v \in Workers : task'[v].pc = "create" => task'[v] = task[v] /\ v # w
<1> DEFINE t == [Idle EXCEPT !.pc = pc, !.op = Origin(task[w].op)]
           n == Len(subs) + 1
<1>1. /\ subs' = Append(subs, x) /\ events' = TRUE
      /\ task' = [task EXCEPT ![w] = t]
  BY DEF Changed, Go, Become
<1>2. /\ subs' \in Seq(SubType) /\ Len(subs') = n /\ subs'[n] = x
      /\ \A j \in DOMAIN subs : subs'[j] = subs[j]
      /\ DOMAIN subs' = DOMAIN subs \cup {n}
      /\ Len(subs) <= Len(subs') /\ n \notin DOMAIN subs /\ Len(subs) \in Nat
  BY <1>1, Known, Added
<1>3. t \in TaskType /\ Fits(t, Len(subs'), card') /\ t.pc = pc
  BY GoType
<1> HIDE DEF t, n
<1>4. /\ task' \in [Workers -> TaskType]
      /\ \A v \in Workers : Fits(task'[v], Len(subs'), card')
      /\ task'[w] = t /\ \A v \in Workers \ {w} : task'[v] = task[v]
  BY <1>1, <1>2, <1>3, TasksKept DEF Inv
<1>5. \A j \in DOMAIN subs' : Sound(subs'[j], card')
  BY <1>2, Known
<1>6. keys' \subseteq Int
  BY Known, KnownTask DEF TaskType, TrialKey
<1>7. Counters
  BY <1>1, <1>6, Known DEF Counters
<1>8. Types'
  BY <1>2, <1>4, <1>5, <1>7, Known, TypesKept DEF Inv
<1>9. Owned'
  BY <1>2, <1>4, OwnedKept DEF Inv, Owns
<1>10. Noticed'
  BY <1>1, Known DEF Noticed
<1>11. Live(subs') = Live(subs) \cup {n} /\ \A j \in Live(subs) : j # n /\ subs'[j] = subs[j]
  BY <1>2 DEF Live
<1>12. Spared(subs', task')
  <2>1. Condemned(task') \subseteq Condemned(task)
    BY <1>3, <1>4 DEF Condemned
  <2>2. \A v \in Workers : task'[v].pc = "cancel" => task[v].pc = "cancel"
    BY <1>3, <1>4
  <2> QED
    BY <1>11, <2>1, <2>2 DEF Inv, Single, Spared
<1>13. \A v \in Workers : task'[v].pc = "create" => task'[v] = task[v] /\ v # w
  BY <1>3, <1>4
<1> QED
  BY <1>2, <1>8, <1>9, <1>10, <1>11, <1>12, <1>13 DEF n

LEMMA CreateHobbyInv ==
  ASSUME Inv, NEW w \in Workers, CreateHobby(w)
  PROVE  Inv'
<1> DEFINE k == task[w].sub
           x == NewSub("hobby", "active")
<1>1. /\ task[w].pc = "create" /\ keys' = keys \cup {k} /\ Go(w, "sync")
      /\ UNCHANGED <<card, db, strays, changes, faults>>
  BY DEF CreateHobby, At
<1>2. CASE k \in keys
  <2> DEFINE t == [Idle EXCEPT !.pc = "sync", !.op = Origin(task[w].op)]
  <2>1. t \in TaskType /\ Fits(t, Len(subs), card) /\ t.pc = "sync"
    BY GoType
  <2>2. UNCHANGED <<subs, events>> /\ keys' = keys /\ task' = [task EXCEPT ![w] = t]
    BY <1>1, <1>2 DEF CreateHobby, Seen, Go, Become
  <2> HIDE DEF t
  <2>3. UNCHANGED <<stripe, strays, changes>> /\ db' \in DbType /\ faults' \in 0 .. MaxFaults
    BY <1>1, <2>2, Known DEF stripe
  <2> QED
    BY <1>1, <2>1, <2>2, <2>3, Quiet DEF Accounted
<1>3. CASE k \notin keys
  <2>1. x \in SubType /\ Sound(x, card) /\ x.plan = "hobby" /\ x.status # "canceled"
        /\ x.schedule # Bare
    BY NewType DEF NewSub, Plans, NoPlan, Bare
  <2>2. Changed(Append(subs, x))
    BY <1>3 DEF CreateHobby, Seen
  <2> HIDE DEF x
  <2>3. NoHobby(subs)
    BY <1>1, <1>3 DEF Inv, Single, Creating
  <2>4. /\ Types' /\ Owned' /\ Noticed' /\ Spared(subs', task')
        /\ Live(subs') = Live(subs) \cup {Len(subs) + 1}
        /\ \A j \in Live(subs) : subs'[j] = subs[j]
        /\ \A v \in Workers : task'[v].pc = "create" => task'[v] = task[v] /\ v # w
    BY <1>1, <2>1, <2>2, Adds
  <2>5. OneHobby'
    BY <2>3, <2>4 DEF OneHobby, NoHobby
  <2>6. \A v \in Workers : task'[v].pc = "create" => task'[v].sub \in keys'
    BY <1>1, <1>3, <2>4 DEF Inv, Single, Creating
  <2>7. Creating(subs', keys', task')
    BY <2>6 DEF Creating
  <2> QED
    BY <2>4, <2>5, <2>7 DEF Inv, Single
<1> QED
  BY <1>2, <1>3

LEMMA CreateTrialInv ==
  ASSUME Inv, NEW w \in Workers, CreateTrial(w)
  PROVE  Inv'
<1> DEFINE x == NewSub("pro", "trialing")
<1>1. /\ task[w].pc = "trial" /\ keys' = keys \cup {TrialKey}
      /\ UNCHANGED <<card, db, strays, changes, faults>>
  BY DEF CreateTrial, At
<1>2. task[w].op # "read"
  BY <1>1, KnownTask DEF Fits, Syncing
<1>3. CASE TrialKey \in keys
  <2>1. UNCHANGED <<subs, events>> /\ keys' = keys
        /\ (Go(w, "list") \/ Become(w, Idle))
    BY <1>1, <1>3 DEF CreateTrial
  <2>2. UNCHANGED <<stripe, strays, changes>> /\ db' \in DbType /\ faults' \in 0 .. MaxFaults
    BY <1>1, <2>1, Known DEF stripe
  <2>3. CASE Become(w, Idle)
    BY <1>1, <2>2, <2>3, GivesUp DEF Become
  <2>4. CASE Go(w, "list")
    <3> DEFINE t == [Idle EXCEPT !.pc = "list", !.op = Origin(task[w].op)]
    <3>1. t \in TaskType /\ Fits(t, Len(subs), card) /\ t.pc = "list"
      BY <1>2, GoType
    <3>2. task' = [task EXCEPT ![w] = t]
      BY <2>4 DEF Go, Become
    <3> HIDE DEF t
    <3> QED
      BY <1>1, <2>2, <3>1, <3>2, Quiet DEF Accounted
  <2> QED
    BY <2>1, <2>3, <2>4
<1>4. CASE TrialKey \notin keys
  <2>1. x \in SubType /\ Sound(x, card) /\ x.plan = "pro" /\ x.status # "canceled"
        /\ x.schedule # Bare
    BY NewType DEF NewSub, Plans, NoPlan, Bare
  <2>2. Changed(Append(subs, x)) /\ Go(w, "list")
    BY <1>4 DEF CreateTrial
  <2> HIDE DEF x
  <2>3. /\ Types' /\ Owned' /\ Noticed' /\ Spared(subs', task')
        /\ Live(subs') = Live(subs) \cup {Len(subs) + 1}
        /\ subs'[Len(subs) + 1] = x
        /\ \A j \in Live(subs) : subs'[j] = subs[j]
        /\ \A v \in Workers : task'[v].pc = "create" => task'[v] = task[v] /\ v # w
    BY <1>1, <1>2, <2>1, <2>2, Adds
  <2>4. OneHobby'
    BY <2>1, <2>3 DEF Inv, Single, OneHobby
  <2>5. NoHobby(subs) => NoHobby(subs')
    BY <2>1, <2>3 DEF NoHobby
  <2>6. Creating(subs', keys', task')
    BY <1>1, <2>3, <2>5 DEF Inv, Single, Creating
  <2> QED
    BY <2>3, <2>4, <2>6 DEF Inv, Single
<1> QED
  BY <1>3, <1>4

-------------------------------------------------------------------------------
(* Stripe, time and failures.                                                *)
LEMMA SettleInv ==
  ASSUME Inv, NEW i \in DOMAIN subs, Settle(i)
  PROVE  Inv'
<1> DEFINE y == [subs[i] EXCEPT !.plan = subs[i].due, !.due = NoPlan]
           z == [subs[i] EXCEPT !.due = NoPlan]
<1>1. /\ subs[i] \in SubType /\ Sound(subs[i], card) /\ subs[i].due # NoPlan
      /\ UNCHANGED <<card, keys, db, task, strays, changes, faults>>
  BY Known DEF Settle
<1>2. subs[i].due \in Plans /\ Paid(subs[i].due)
  BY <1>1 DEF Sound, Paid, Plans
<1>3. PICK x \in SubType : /\ Changed([subs EXCEPT ![i] = x])
                           /\ Alike(subs[i], x) /\ Sound(x, card)
                           /\ x.schedule = subs[i].schedule /\ x.sid = subs[i].sid
  <2>1. z \in SubType /\ Alike(subs[i], z) /\ Sound(z, card)
        /\ z.schedule = subs[i].schedule /\ z.sid = subs[i].sid
    BY <1>1 DEF SubType, Alike, Sound
  <2>2. card => /\ y \in SubType /\ Alike(subs[i], y) /\ Sound(y, card)
                /\ y.schedule = subs[i].schedule /\ y.sid = subs[i].sid
    BY <1>1, <1>2 DEF SubType, Alike, Sound
  <2>3. \/ card /\ Changed([subs EXCEPT ![i] = y])
        \/ Changed([subs EXCEPT ![i] = z])
    BY DEF Settle
  <2> HIDE DEF y, z
  <2> QED
    BY <2>1, <2>2, <2>3
<1>4. subs' = [subs EXCEPT ![i] = x] /\ events' = TRUE
  BY <1>3 DEF Changed
<1>5. /\ subs' \in Seq(SubType) /\ Len(subs') = Len(subs)
      /\ DOMAIN subs' = DOMAIN subs /\ subs'[i] = x
      /\ \A j \in DOMAIN subs \ {i} : subs'[j] = subs[j]
  BY <1>4, Known, Replaced
<1>6. \A j \in DOMAIN subs' : Sound(subs'[j], card')
  BY <1>1, <1>3, <1>5, Known
<1>7. Counters
  BY <1>1, <1>4, Known DEF Counters
<1>8. Types'
  BY <1>1, <1>5, <1>6, <1>7, Known, TypesKept DEF Inv, Types
<1>9. Owned'
  BY <1>1, <1>3, <1>5 DEF Inv, Owned
<1>10. \A j \in DOMAIN subs : subs[j].plan \in Plans /\ subs'[j].plan \in Plans
  <2>1. \A j \in DOMAIN subs : subs[j] \in SubType /\ subs'[j] \in SubType
    BY <1>5, Known
  <2> QED
    BY <2>1 DEF SubType
<1>11. Evolves(subs, subs')
  BY <1>3, <1>5, <1>10 DEF Evolves, Alike
<1>12. Single'
  BY <1>1, <1>4, <1>11, Known, SingleKept DEF Inv
<1> QED
  BY <1>8, <1>9, <1>12 DEF Inv

LEMMA NextPeriodFacts ==
  ASSUME NEW x \in SubType, card \in BOOLEAN, Sound(x, card), x.status # "canceled"
  PROVE  /\ NextPeriod(x) \in SubType /\ Sound(NextPeriod(x), card)
         /\ NextPeriod(x).schedule = NoPlan
<1>1. CASE x.ends \/ (x.status = "trialing" /\ ~card)
  <2>1. NextPeriod(x) = [x EXCEPT !.status = "canceled", !.schedule = NoPlan]
    BY <1>1 DEF NextPeriod, CancelSub
  <2> QED
    BY <2>1 DEF SubType, Sound, Schedules, Paid, NoPlan
<1>2. CASE ~(x.ends \/ (x.status = "trialing" /\ ~card))
  <2> DEFINE p == IF x.schedule \in Plans THEN x.schedule ELSE x.plan
  <2>1. NextPeriod(x) = [x EXCEPT !.status = "active", !.schedule = NoPlan, !.plan = p]
    BY <1>2 DEF NextPeriod
  <2>2. p \in Plans /\ (Paid(p) => card)
    BY <1>2 DEF SubType, Sound, Paid
  <2> HIDE DEF p
  <2> QED
    BY <2>1, <2>2 DEF SubType, Sound, Schedules, Paid, NoPlan
<1> QED
  BY <1>1, <1>2

\* A period may end inside a request, but nobody reconciles and no event is
\* waiting: no Hobby subscription stands beside a paid one.
LEMMA PeriodEndsInv ==
  ASSUME Inv, NEW i \in DOMAIN subs, PeriodEnds(i)
  PROVE  Inv'
<1> DEFINE x == NextPeriod(subs[i])
<1>1. /\ ~events
      /\ \A w \in Workers : task[w].pc \notin Reconciling /\ ~Serving(task[w])
      /\ subs[i].status # "canceled"
      /\ UNCHANGED <<card, keys, db, task, strays, faults>>
      /\ changes' \in 0 .. MaxChanges
  BY Known DEF PeriodEnds, Spend, Reconciling, Serving
<1>2. x \in SubType /\ Sound(x, card) /\ x.schedule = NoPlan
  BY <1>1, Known, NextPeriodFacts
<1>3. subs' = [subs EXCEPT ![i] = x] /\ events' = TRUE
  BY DEF PeriodEnds, Changed
<1> HIDE DEF x
<1>4. /\ subs' \in Seq(SubType) /\ Len(subs') = Len(subs)
      /\ DOMAIN subs' = DOMAIN subs /\ subs'[i] = x
      /\ \A j \in DOMAIN subs \ {i} : subs'[j] = subs[j]
  BY <1>2, <1>3, Known, Replaced
<1>5. \A j \in DOMAIN subs' : Sound(subs'[j], card')
  BY <1>1, <1>2, <1>4, Known
<1>6. Counters
  BY <1>1, <1>3, Known DEF Counters
<1>7. Types'
  BY <1>1, <1>4, <1>5, <1>6, Known, TypesKept DEF Inv, Types
<1>9. Owned'
  <2>1. ASSUME NEW j \in DOMAIN subs', subs'[j].schedule = Bare
        PROVE  j \in DOMAIN subs /\ subs'[j] = subs[j]
    BY <1>2, <1>4, <2>1 DEF Bare, NoPlan
  <2> QED
    BY <1>1, <2>1 DEF Inv, Owned
<1>10. OneHobby'
  <2>1. Redundant(subs) = {}
    BY <1>1 DEF Inv, Single, Noticed
  <2>2. i \in Live(subs) /\ Live(subs') \subseteq Live(subs)
    BY <1>1, <1>4 DEF Live
  <2>3. subs[i].plan = "hobby" \/ Paid(subs[i].plan)
    BY Known DEF SubType, Plans, Paid
  <2>4. ASSUME NEW j \in Live(subs'), j # i, subs'[j].plan = "hobby"
        PROVE  subs[j].plan = "hobby" /\ subs[i].plan # "hobby" /\ ~Paid(subs[i].plan)
    <3>1. j \in Live(subs) /\ subs[j].plan = "hobby"
      BY <1>4, <2>2, <2>4 DEF Live
    <3>2. subs[i].plan # "hobby"
      BY <2>2, <2>4, <3>1 DEF Inv, Single, OneHobby
    <3>3. ~Paid(subs[i].plan)
      BY <2>1, <2>2, <3>1 DEF Redundant
    <3> QED
      BY <3>1, <3>2, <3>3
  <2>5. \A j \in Live(subs') : subs'[j].plan = "hobby" => j = i
    BY <2>3, <2>4
  <2> QED
    BY <2>5 DEF OneHobby
<1>11. Noticed' /\ Spared(subs', task') /\ Creating(subs', keys', task')
  BY <1>1, <1>3 DEF Noticed, Spared, Creating, Reconciling
<1> QED
  BY <1>7, <1>9, <1>10, <1>11 DEF Inv, Single

\* What a request leaves is recorded.
LEMMA LeftRecorded ==
  ASSUME Inv, NEW w \in Workers, strays' = strays \union Left(w), NEW t
  PROVE  /\ strays' \subseteq Nat \X Nat /\ strays \subseteq strays'
         /\ Accounted(task[w], t)
<1>1. task[w].sub \in Nat /\ task[w].sid \in Nat
  BY KnownTask DEF TaskType
<1> QED
  BY <1>1, Known DEF Left, Accounted

LEMMA RollbackFailsInv ==
  ASSUME Inv, NEW w \in Workers, RollbackFails(w)
  PROVE  Inv'
<1> DEFINE t == [task[w] EXCEPT !.pc = "restore"]
<1>1. /\ task[w].pc = "rollback" /\ task[w].pc \in Changing /\ Goto(w, "restore")
      /\ UNCHANGED <<subs, card, keys, events, db, changes, faults>>
      /\ strays' = strays \union Left(w) /\ ~Serving(task[w])
  BY DEF RollbackFails, At, Changing, Downgrading, stripe, Serving
<1>2. /\ t \in TaskType /\ Fits(t, Len(subs), card) /\ t.pc = "restore"
      /\ task' = [task EXCEPT ![w] = t]
  BY <1>1, GotoType DEF Changing, Downgrading
<1> HIDE DEF t
<1>3. Accounted(task[w], t) /\ Counters
  BY <1>1, LeftRecorded, Known DEF Counters
<1> QED
  BY <1>1, <1>2, <1>3, Known, GoesOn

LEMMA FailInv ==
  ASSUME Inv, NEW w \in Workers, Fail(w)
  PROVE  Inv'
<1>1. /\ task' = [task EXCEPT ![w] = Idle] /\ strays' = strays \union Left(w)
      /\ UNCHANGED <<subs, card, keys, db, changes>> /\ faults' \in 0 .. MaxFaults
      /\ events' = (events \/ task[w].op = "webhook")
  BY Known DEF Fail, Become, Fault
<1>2. /\ events' \in BOOLEAN
      /\ events' \/ (events' = events /\ ~Serving(task[w]))
  BY <1>1, Known DEF Serving
<1>3. Accounted(task[w], Idle) /\ Counters
  BY <1>1, <1>2, LeftRecorded, Known DEF Counters
<1>4. Idle.pc \notin {"cancel", "create"}
  BY DEF Idle
<1> QED
  BY <1>1, <1>2, <1>3, <1>4, IdleType, IdleFits, Known, GoesOn

LEMMA StutterInv ==
  ASSUME Inv, UNCHANGED vars
  PROVE  Inv'
<1>1. UNCHANGED <<subs, card, keys, events, db, task, strays, changes, faults>>
  BY DEF vars, stripe
<1>2. Types'
  BY <1>1 DEF Inv, Types, TypeOK
<1>3. Owned' /\ OneHobby'
  BY <1>1 DEF Inv, Single, Owned, OneHobby, Live
<1>4. Noticed' /\ Spared(subs', task') /\ Creating(subs', keys', task')
  BY <1>1 DEF Inv, Single, Noticed, At
<1> QED
  BY <1>2, <1>3, <1>4 DEF Inv, Single

LEMMA NextInv ==
  ASSUME Inv, [Next]_vars
  PROVE  Inv'
<1>1. ASSUME NEW w \in Workers, Reconcile(w) PROVE Inv'
  BY <1>1, ListInv, RelistInv, CreateHobbyInv, CancelRedundantInv DEF Reconcile
<1>2. ASSUME NEW w \in Workers, Sync(w) PROVE Inv'
  BY <1>2, IgnoreEventInv, ReadStripeInv, WriteDbInv DEF Sync
<1>3. ASSUME NEW w \in Workers, Switch(w) PROVE Inv'
  BY <1>3, ResolveInv, UnresolvedInv, ResumeInv, UpdateInv, ReleaseInv, EndTrialInv,
     CreateScheduleInv, SetPhasesInv, PhasesFailInv, RollbackInv, RollbackFailsInv, RestoreInv,
     ReadPendingInv, WritePendingInv DEF Switch
<1>4. ASSUME NEW w \in Workers, Run(w) PROVE Inv'
  BY <1>1, <1>2, <1>3, <1>4, EnsureCustomerInv, CreateTrialInv DEF Run
<1>5. CASE \E w \in Workers : Ask(w) \/ StartRead(w) \/ StartWebhook(w) \/ Fail(w)
  BY <1>5, AskInv, StartReadInv, StartWebhookInv, FailInv
<1>6. CASE \E i \in DOMAIN subs : Settle(i) \/ PeriodEnds(i)
  BY <1>6, SettleInv, PeriodEndsInv
<1>7. CASE UNCHANGED vars
  BY <1>7, StutterInv
<1> QED
  BY <1>4, <1>5, <1>6, <1>7 DEF Next

(* The invariant the properties follow from holds in every reachable state.  *)
THEOREM Invariance == Spec => []Inv
<1>1. Init => Inv
  BY InitInv
<1>2. Inv /\ [Next]_vars => Inv'
  BY NextInv
<1> QED
  BY <1>1, <1>2, PTL DEF Spec

-------------------------------------------------------------------------------
(* Every variable keeps its type.                                            *)
THEOREM TypeTheorem == Spec => []TypeOK
<1>1. Inv => TypeOK
  BY DEF Inv, Types
<1> QED
  BY <1>1, Invariance, PTL

(* A subscription without a card is never billed, whatever plan changes and  *)
(* undos run at the same time (switchOrganizationToCloudPlan).               *)
THEOREM CardTheorem == Spec => []NoCardNeverBilled
<1>1. Inv => NoCardNeverBilled
  BY DEF Inv, Types, Sound, NoCardNeverBilled
<1> QED
  BY <1>1, Invariance, PTL

(* Any number of reconciliations leave one Hobby subscription at most        *)
(* (reconcileCloudStripeSubscriptionsForOrganization).                       *)
THEOREM HobbyTheorem == Spec => []OneHobby
<1>1. Inv => OneHobby
  BY DEF Inv, Single
<1> QED
  BY <1>1, Invariance, PTL

(* A schedule without a next phase belongs to a request that still runs, or  *)
(* to one that failed while it held it or whose release failed               *)
(* (rollbackFailedPlanChangeScheduleUpdate).                                 *)
THEOREM ScheduleTheorem == Spec => []NoStraySchedule
<1>1. Inv => NoStraySchedule
  BY DEF Inv, Owned, Owns, NoStraySchedule
<1> QED
  BY <1>1, Invariance, PTL

===============================================================================
