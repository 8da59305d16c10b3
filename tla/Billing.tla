-------------------------------- MODULE Billing --------------------------------
(***************************************************************************)
(* The cloud billing of one organization: its subscriptions at Stripe, the *)
(* snapshot of them the application keeps, and the requests that change    *)
(* either: plan changes of the organization's owners, webhooks, and pages  *)
(* that refresh a snapshot that has become old.                            *)
(*                                                                         *)
(* A request is a sequence of calls to Stripe and to the database; each is *)
(* a step, so what a request has read may be out of date when it writes.   *)
(* Stripe delivers an event of each change at least once; handling it      *)
(* looks at the present state of Stripe and not at what the event tells.   *)
(* So only whether there are events to be delivered is kept: one that is   *)
(* repeated is like another, and any may be found to be older than the one *)
(* synchronized last.                                                      *)
(*                                                                         *)
(* Of the prices only the plan is modelled, not the interval; of the       *)
(* entitlements nothing, since they follow the plan.  Cards are not        *)
(* removed.  A period or trial may end inside a request, but not while one *)
(* is reconciling nor while an event is waiting: a period is longer than   *)
(* the three days for which Stripe delivers an event.                      *)
(***************************************************************************)
EXTENDS Integers, Sequences, FiniteSets

CONSTANTS
  Workers,     (* requests the servers handle at the same time              *)
  Requests,    (* the requests that are made, by the names below            *)
  MaxChanges,  (* bound on what the owners ask for and on ends of periods   *)
  MaxFaults    (* bound on failed calls and requests                        *)

ASSUME BillingAssumption == MaxChanges \in Nat /\ MaxFaults \in Nat

VARIABLES
  subs,     \* the customer's subscriptions at Stripe, in order of creation
  card,     \* whether a payment method was collected
  keys,     \* idempotency keys used to create hobby subscriptions
  events,   \* whether Stripe has events to deliver
  db,       \* the organization's billing record
  task,     \* what each worker is doing
  strays,   \* schedules that were left bare by a failure (history)
  changes,  \* changes made so far
  faults    \* failures so far

stripe == <<subs, card, keys, events>>
vars == <<stripe, db, task, strays, changes, faults>>

-----------------------------------------------------------------------------
Plans == {"hobby", "pro", "scale"}
Level(p) == CASE p = "hobby" -> 0 [] p = "pro" -> 1 [] p = "scale" -> 2
NoPlan == "none"
\* A schedule without a phase after the current one.
Bare == "bare"

\* Mutant: ended subscriptions count.
AllSubs(s) == DOMAIN s
Live(s) == {i \in DOMAIN s : s[i].status # "canceled"}
Paid(p) == p \in {"pro", "scale"}

\* The live subscription of the highest plan, the newest of those.
Current(s) ==
  {i \in Live(s) : \A j \in Live(s) \ {i} :
     \/ Level(s[j].plan) < Level(s[i].plan)
     \/ Level(s[j].plan) = Level(s[i].plan) /\ j < i}

\* What a subscription becomes after its period, as far as it is announced.
Pending(x) ==
  IF x.schedule \in Plans THEN x.schedule
  ELSE IF x.ends THEN "hobby" ELSE NoPlan

\* What a synchronization learns from Stripe.
NoFacts == [plan |-> "hobby", status |-> "none", pending |-> NoPlan, card |-> FALSE]
Facts(s, c) ==
  IF Current(s) = {} THEN NoFacts
  ELSE LET x == s[CHOOSE i \in Current(s) : TRUE] IN
       [plan |-> x.plan, status |-> x.status, pending |-> Pending(x), card |-> c]

NewSub(p, status) ==
  [plan |-> p, status |-> status, ends |-> FALSE, schedule |-> NoPlan, sid |-> 0,
   due |-> NoPlan]

\* The n-th schedule of the subscription x is still attached to it.
Attached(x, n) == x.schedule # NoPlan /\ x.sid = n
CancelSub(x) == [x EXCEPT !.status = "canceled", !.schedule = NoPlan]

Idle == [pc |-> "idle", op |-> "none", plan |-> NoPlan, cancel |-> {}, sub |-> 0,
         view |-> NewSub("hobby", "canceled"), created |-> FALSE, sid |-> 0,
         snap |-> NoFacts]

Init ==
  /\ subs = <<>> /\ card = FALSE /\ keys = {}
  /\ events = FALSE
  /\ db = [customer |-> FALSE, facts |-> NoFacts]
  /\ task = [w \in Workers |-> Idle]
  /\ strays = {}
  /\ changes = 0 /\ faults = 0

-----------------------------------------------------------------------------
(* Steps.                                                                    *)
At(w, pc) == task[w].pc = pc
Goto(w, pc) == task' = [task EXCEPT ![w].pc = pc]
Become(w, t) == task' = [task EXCEPT ![w] = t]
\* Go on with what every request ends with: reconciling or synchronizing.
Origin(op) == IF op \in {"webhook", "read"} THEN op ELSE "own"
Go(w, pc) == Become(w, [Idle EXCEPT !.pc = pc, !.op = Origin(task[w].op)])

\* Stripe tells of every change of a subscription by an event.
Changed(s) ==
  /\ subs' = s
  /\ events' = TRUE

Spend == changes < MaxChanges /\ changes' = changes + 1
Asked(w, op) == At(w, "idle") /\ op \in Requests
Fault == faults < MaxFaults /\ faults' = faults + 1

-----------------------------------------------------------------------------
(* Requests.                                                                 *)
\* ensureCloudStripeSetupForOrganization, when an organization is created
\* or an owner repeats it.
StartSetup(w) ==
  /\ Asked(w, "setup") /\ Spend
  /\ Become(w, [Idle EXCEPT !.pc = "customer", !.op = "own"])
  /\ UNCHANGED <<stripe, db, strays, faults>>

\* The customer is created once; the snapshot is written over.
EnsureCustomer(w) ==
  /\ At(w, "customer")
  /\ db' = [customer |-> TRUE, facts |-> NoFacts]
  /\ IF task[w].op = "trial" THEN Goto(w, "trial") ELSE Goto(w, "list")
  /\ UNCHANGED <<stripe, strays, changes, faults>>

\* startHobbyAction, after sign-up.
StartHobby(w) ==
  /\ Asked(w, "hobby") /\ Spend
  /\ Become(w, [Idle EXCEPT !.pc = IF db.customer THEN "list" ELSE "customer",
                            !.op = "own"])
  /\ UNCHANGED <<stripe, db, strays, faults>>

\* startProTrialAction: a trial without a card, given once to a customer.
StartTrial(w) ==
  /\ Asked(w, "trial") /\ Spend
  /\ Become(w, [Idle EXCEPT !.pc = IF db.customer THEN "trial" ELSE "customer",
                            !.op = "trial"])
  /\ UNCHANGED <<stripe, db, strays, faults>>

\* A second trial is refused; if it comes at the same time as the first, its
\* idempotency key makes it the same.
TrialKey == -1
CreateTrial(w) ==
  /\ At(w, "trial")
  /\ IF TrialKey \in keys
     THEN UNCHANGED <<subs, events>> /\ (Go(w, "list") \/ Become(w, Idle))
     ELSE Changed(Append(subs, NewSub("pro", "trialing"))) /\ Go(w, "list")
  /\ keys' = keys \cup {TrialKey}
  /\ UNCHANGED <<card, db, strays, changes, faults>>

\* changeBillingPlanAction; a paid plan needs the card the snapshot knows of.
StartSwitch(w, p) ==
  /\ Asked(w, "switch") /\ db.customer /\ Spend
  /\ Paid(p) => db.facts.card
  /\ Become(w, [Idle EXCEPT !.pc = "current", !.op = "switch", !.plan = p])
  /\ UNCHANGED <<stripe, db, strays, faults>>

\* A setup checkout collected a card; the upgrade it was for is applied.
StartFinalize(w, p) ==
  /\ Asked(w, "finalize") /\ db.customer /\ Paid(p) /\ Spend
  /\ card' = TRUE
  /\ Become(w, [Idle EXCEPT !.pc = "current", !.op = "switch", !.plan = p])
  /\ UNCHANGED <<subs, keys, events, db, strays, faults>>

StartUndo(w) ==
  /\ Asked(w, "undo") /\ db.customer /\ Spend
  /\ Become(w, [Idle EXCEPT !.pc = "current", !.op = "undo"])
  /\ UNCHANGED <<stripe, db, strays, faults>>

\* webhookHandler: an event is handled by reconciling and synchronizing; others,
\* or the same again, may be left.
StartWebhook(w) ==
  /\ At(w, "idle") /\ db.customer
  /\ events /\ events' \in BOOLEAN
  /\ Become(w, [Idle EXCEPT !.pc = "list", !.op = "webhook"])
  /\ UNCHANGED <<subs, card, keys, db, strays, changes, faults>>

\* The event of a completed setup checkout: handleSetupCheckoutCompleted makes
\* the card the customer's before the event is handled like the others.
StartCheckoutWebhook(w) ==
  /\ Asked(w, "checkout") /\ db.customer /\ Spend
  /\ card' = TRUE
  /\ Become(w, [Idle EXCEPT !.pc = "list", !.op = "webhook"])
  /\ UNCHANGED <<subs, keys, events, db, strays, faults>>

\* getOrganizationBillingWithReadThroughSync with an old snapshot, and
\* waitForBillingPlanAction.
StartRead(w) ==
  /\ Asked(w, "read") /\ db.customer
  /\ Become(w, [Idle EXCEPT !.pc = "sync", !.op = "read"])
  /\ UNCHANGED <<stripe, db, strays, changes, faults>>

-----------------------------------------------------------------------------
(* reconcileCloudStripeSubscriptionsForOrganization.                         *)
\* Hobby subscriptions beside a paid one are to be canceled.
Redundant(s) ==
  IF \E i \in Live(s) : Paid(s[i].plan)
  THEN {i \in Live(s) : s[i].plan = "hobby"} ELSE {}

List(w) ==
  /\ At(w, "list")
  /\ Become(w, [task[w] EXCEPT
       !.pc = IF Live(subs) = {} THEN "relist"
              ELSE IF Redundant(subs) = {} THEN "sync" ELSE "cancel",
       !.cancel = Redundant(subs)])
  /\ UNCHANGED <<stripe, db, strays, changes, faults>>

\* A subscription that is canceled already is skipped.
CancelRedundant(w, i) ==
  /\ At(w, "cancel") /\ i \in task[w].cancel
  /\ IF subs[i].status = "canceled" THEN UNCHANGED <<subs, events>>
     ELSE Changed([subs EXCEPT ![i] = CancelSub(@)])
  /\ Become(w, [task[w] EXCEPT
       !.pc = IF task[w].cancel = {i} THEN "sync" ELSE "cancel",
       !.cancel = @ \ {i}])
  /\ UNCHANGED <<card, keys, db, strays, changes, faults>>

\* The second look before a hobby subscription is created.
\* Mutant: the number of subscriptions is not remembered.
Uncounted(s) == 0
KeyOf(s) == Len(s)
Relist(w) ==
  /\ At(w, "relist")
  /\ Become(w, [task[w] EXCEPT
       !.pc = IF Live(subs) = {} THEN "create" ELSE "sync",
       !.sub = KeyOf(subs)])
  /\ UNCHANGED <<stripe, db, strays, changes, faults>>

\* Mutant: creations are not idempotent.
Unseen(k) == FALSE
Seen(k) == k \in keys
CreateHobby(w) ==
  LET k == task[w].sub IN
  /\ At(w, "create")
  /\ IF Seen(k) THEN UNCHANGED <<subs, events>>
     ELSE Changed(Append(subs, NewSub("hobby", "active")))
  /\ keys' = keys \cup {k}
  /\ Go(w, "sync")
  /\ UNCHANGED <<card, db, strays, changes, faults>>

-----------------------------------------------------------------------------
(* syncOrganizationBillingFromStripe.                                        *)
\* An event that is not newer than the one synchronized last is ignored.
IgnoreEvent(w) ==
  /\ At(w, "sync") /\ task[w].op = "webhook"
  /\ Become(w, Idle)
  /\ UNCHANGED <<stripe, db, strays, changes, faults>>

ReadStripe(w) ==
  /\ At(w, "sync")
  /\ Become(w, [Idle EXCEPT !.pc = "write", !.op = task[w].op,
                            !.snap = Facts(subs, card)])
  /\ UNCHANGED <<stripe, db, strays, changes, faults>>

\* Mutant: only a webhook's synchronization is written.
WebhookOnly(t) == IF t.op = "webhook" THEN t.snap ELSE db.facts
Written(t) == t.snap
WriteDb(w) ==
  /\ At(w, "write")
  /\ db' = [db EXCEPT !.facts = Written(task[w])]
  /\ Become(w, Idle)
  /\ UNCHANGED <<stripe, strays, changes, faults>>

-----------------------------------------------------------------------------
(* switchOrganizationToCloudPlan and undoPendingOrganizationPlanChange.      *)
Sub(w) == subs[task[w].sub]
Viewed(w) == task[w].view

\* A trial without a card is never changed into something to be billed.
\* Mutant: the collected card is not asked for.
Unguarded(x) == FALSE
CardlessTrial(x) == x.status = "trialing" /\ ~card

\* Where a switch of the subscription x to the plan p goes on.
SwitchStep(x, p) ==
  IF x.plan = p THEN "sync"
  ELSE IF CardlessTrial(x) THEN IF p = "hobby" THEN "release" ELSE "refused"
  ELSE IF Level(p) > Level(x.plan) THEN "resume" ELSE "unend"

\* The current subscription, as it is now, decides how the change is made.
Resolve(w) ==
  /\ At(w, "current")
  /\ \E i \in Current(subs) :
       LET next == IF task[w].op = "undo" THEN "clear"
                   ELSE SwitchStep(subs[i], task[w].plan) IN
       CASE next = "refused" -> Become(w, Idle)
         [] next = "sync" -> Go(w, "sync")
         [] OTHER -> Become(w, [task[w] EXCEPT !.pc = next, !.sub = i, !.view = subs[i],
                                         !.sid = subs[i].sid])
  /\ UNCHANGED <<stripe, db, strays, changes, faults>>

Unresolved(w) ==
  /\ At(w, "current") /\ Current(subs) = {}
  /\ Become(w, Idle)
  /\ UNCHANGED <<stripe, db, strays, changes, faults>>

\* Stripe refuses to change a subscription that was canceled, to release a
\* schedule that is gone, and to attach a second one; a schedule that is gone
\* has no current phase, and the code throws before it tries to update it.
Updatable(w) == Sub(w).status # "canceled"
Refused(w) ==
  /\ \/ task[w].pc \in {"resume", "clear", "unend", "update", "schedule", "end"}
        /\ ~Updatable(w)
     \/ At(w, "release") /\ Viewed(w).schedule # NoPlan /\ ~Attached(Sub(w), task[w].sid)
     \/ At(w, "schedule") /\ Viewed(w).schedule = NoPlan /\ Sub(w).schedule # NoPlan
     \/ At(w, "schedule") /\ Viewed(w).schedule # NoPlan /\ ~Attached(Sub(w), task[w].sid)
  /\ Become(w, Idle)
  /\ UNCHANGED <<stripe, db, strays, changes, faults>>

\* cancel_at_period_end is taken back where it was seen set: before an
\* upgrade, before a schedule, and where a pending change is cleared.
Resume(w) ==
  /\ task[w].pc \in {"resume", "unend", "clear"} /\ Updatable(w)
  /\ IF Viewed(w).ends THEN Changed([subs EXCEPT ![task[w].sub].ends = FALSE])
     ELSE UNCHANGED <<subs, events>>
  /\ Goto(w, CASE At(w, "resume") -> "update"
               [] At(w, "unend") -> "schedule"
               [] At(w, "clear") -> "release")
  /\ UNCHANGED <<card, keys, db, strays, changes, faults>>

\* An upgrade is synchronized unless its payment has to be confirmed.
Upgraded(w) == Go(w, "sync") \/ Become(w, Idle)

\* The upgrade is due until its invoice is paid.
Update(w) ==
  /\ At(w, "update") /\ Updatable(w)
  /\ Changed([subs EXCEPT ![task[w].sub].due = task[w].plan])
  /\ IF Viewed(w).schedule # NoPlan THEN Goto(w, "clear") ELSE Upgraded(w)
  /\ UNCHANGED <<card, keys, db, strays, changes, faults>>

\* The schedule that was seen is released.
Released(s, i) == [s EXCEPT ![i].schedule = NoPlan]
Release(w) ==
  /\ At(w, "release")
  /\ \/ Viewed(w).schedule = NoPlan /\ UNCHANGED <<subs, events>>
     \/ /\ Viewed(w).schedule # NoPlan /\ Attached(Sub(w), task[w].sid)
        /\ Changed(Released(subs, task[w].sub))
  /\ Goto(w, IF task[w].plan = "hobby" THEN "end" ELSE "pendingRead")
  /\ UNCHANGED <<card, keys, db, strays, changes, faults>>

\* cancelTrialToHobbyAtPeriodEnd.
EndTrial(w) ==
  /\ At(w, "end") /\ Updatable(w)
  /\ Changed([subs EXCEPT ![task[w].sub].ends = TRUE])
  /\ Goto(w, "pendingRead")
  /\ UNCHANGED <<card, keys, db, strays, changes, faults>>

\* A schedule is created unless the subscription was seen with one.
CreateSchedule(w) ==
  LET i == task[w].sub IN
  /\ At(w, "schedule") /\ Updatable(w)
  /\ \/ /\ Viewed(w).schedule # NoPlan /\ Attached(Sub(w), task[w].sid)
        /\ UNCHANGED <<subs, events>> /\ Goto(w, "phases")
     \/ /\ Viewed(w).schedule = NoPlan /\ Sub(w).schedule = NoPlan
        /\ Changed([subs EXCEPT ![i].schedule = Bare, ![i].sid = @ + 1])
        /\ Become(w, [task[w] EXCEPT !.pc = "phases", !.created = TRUE,
                                     !.sid = subs[i].sid + 1])
  /\ UNCHANGED <<card, keys, db, strays, changes, faults>>

\* The first phase has the items that were read, and no trial; the second
\* is the new plan.
SetPhases(w) ==
  LET i == task[w].sub IN
  /\ At(w, "phases") /\ Attached(Sub(w), task[w].sid)
  /\ Changed([subs EXCEPT ![i].schedule = task[w].plan, ![i].status = "active",
                          ![i].plan = Viewed(w).plan])
  /\ Goto(w, "pendingRead")
  /\ UNCHANGED <<card, keys, db, strays, changes, faults>>

\* The update fails, because the schedule is gone or Stripe is failing.
PhasesFail(w) ==
  /\ At(w, "phases")
  /\ \/ ~Attached(Sub(w), task[w].sid) /\ UNCHANGED faults
     \/ Fault
  /\ Goto(w, "rollback")
  /\ UNCHANGED <<stripe, db, strays, changes>>

\* rollbackFailedPlanChangeScheduleUpdate, first the schedule it created.
\* Mutant: the schedule stays.
Kept(w) == FALSE
OwnSchedule(w) == task[w].created /\ Attached(Sub(w), task[w].sid)
Rollback(w) ==
  /\ At(w, "rollback")
  /\ IF OwnSchedule(w) THEN Changed(Released(subs, task[w].sub))
     ELSE UNCHANGED <<subs, events>>
  /\ Goto(w, "restore")
  /\ UNCHANGED <<card, keys, db, strays, changes, faults>>

\* The bare schedule a request leaves when it goes on without releasing it.
Left(w) == IF task[w].pc \in {"phases", "rollback"} /\ task[w].created
           THEN {<<task[w].sub, task[w].sid>>} ELSE {}

\* The release may fail like the update: that is logged only, and the schedule
\* stays.
RollbackFails(w) ==
  /\ At(w, "rollback") /\ OwnSchedule(w)
  /\ strays' = strays \union Left(w)
  /\ Goto(w, "restore")
  /\ UNCHANGED <<stripe, db, changes, faults>>

\* Setting cancel_at_period_end again may fail too: as Fail says, the request
\* ends without it.
Restore(w) ==
  /\ At(w, "restore")
  /\ IF Viewed(w).ends /\ Updatable(w)
     THEN Changed([subs EXCEPT ![task[w].sub].ends = TRUE])
     ELSE UNCHANGED <<subs, events>>
  /\ Become(w, Idle)
  /\ UNCHANGED <<card, keys, db, strays, changes, faults>>

\* updatePendingPlanChangeSnapshot reads the record and writes it back.
ReadPending(w) ==
  /\ At(w, "pendingRead")
  /\ Become(w, [task[w] EXCEPT !.pc = "pendingWrite", !.snap = db.facts])
  /\ UNCHANGED <<stripe, db, strays, changes, faults>>

Clears(t) == t.op = "undo" \/ Level(t.plan) > Level(t.view.plan)
WritePending(w) ==
  LET t == task[w] IN
  /\ At(w, "pendingWrite")
  /\ db' = [db EXCEPT !.facts =
              [t.snap EXCEPT !.pending = IF Clears(t) THEN NoPlan ELSE t.plan]]
  /\ IF t.op = "undo" THEN Go(w, "sync")
     ELSE IF Clears(t) THEN Upgraded(w) ELSE Become(w, Idle)
  /\ UNCHANGED <<stripe, strays, changes, faults>>

-----------------------------------------------------------------------------
(* Stripe, time and failures.                                                *)
\* The invoice of an upgrade is paid with the card, or given up.
Settle(i) ==
  /\ subs[i].due # NoPlan /\ subs[i].status # "canceled"
  /\ \/ card /\ Changed([subs EXCEPT ![i].plan = subs[i].due, ![i].due = NoPlan])
     \/ Changed([subs EXCEPT ![i].due = NoPlan])
  /\ UNCHANGED <<card, keys, db, task, strays, changes, faults>>

\* The state of a subscription after its period or trial.
NextPeriod(x) ==
  IF x.ends \/ (x.status = "trialing" /\ ~card)
  THEN CancelSub(x)
  ELSE [x EXCEPT !.status = "active", !.schedule = NoPlan,
                 !.plan = IF x.schedule \in Plans THEN x.schedule ELSE @]

PeriodEnds(i) ==
  /\ ~events
  /\ \A w \in Workers : task[w].pc \notin {"list", "cancel", "relist", "create"}
  /\ subs[i].status # "canceled" /\ NextPeriod(subs[i]) # subs[i] /\ Spend
  /\ Changed([subs EXCEPT ![i] = NextPeriod(subs[i])])
  /\ UNCHANGED <<card, keys, db, task, strays, faults>>

\* A request fails at any of its calls, or its server dies: it throws, though
\* it may have created a schedule (getCurrentSchedulePhase throws before the
\* try).  Stripe delivers the event of a failed webhook again.
Fail(w) ==
  /\ ~At(w, "idle") /\ Fault
  /\ events' = (events \/ task[w].op = "webhook")
  /\ strays' = strays \union Left(w)
  /\ Become(w, Idle)
  /\ UNCHANGED <<subs, card, keys, db, changes>>

-----------------------------------------------------------------------------
Reconcile(w) ==
  \/ List(w) \/ Relist(w) \/ CreateHobby(w)
  \/ \E i \in DOMAIN subs : CancelRedundant(w, i)

Sync(w) == IgnoreEvent(w) \/ ReadStripe(w) \/ WriteDb(w)

Switch(w) ==
  \/ Resolve(w) \/ Unresolved(w) \/ Refused(w) \/ Resume(w) \/ Update(w)
  \/ Release(w) \/ EndTrial(w) \/ CreateSchedule(w) \/ SetPhases(w)
  \/ PhasesFail(w) \/ Rollback(w) \/ RollbackFails(w) \/ Restore(w)
  \/ ReadPending(w) \/ WritePending(w)

\* A step of a request that is running.
Run(w) ==
  EnsureCustomer(w) \/ CreateTrial(w) \/ Reconcile(w) \/ Sync(w) \/ Switch(w)

Ask(w) ==
  \/ StartSetup(w) \/ StartHobby(w) \/ StartTrial(w) \/ StartUndo(w)
  \/ StartCheckoutWebhook(w)
  \/ \E p \in Plans : StartSwitch(w, p) \/ StartFinalize(w, p)

Next ==
  \/ \E w \in Workers :
       Run(w) \/ Ask(w) \/ StartRead(w) \/ StartWebhook(w) \/ Fail(w)
  \/ \E i \in DOMAIN subs : Settle(i) \/ PeriodEnds(i)

Spec == Init /\ [][Next]_vars

\* A request that was accepted runs.  Pages are visited again, after the
\* snapshot has become old.  Stripe repeats an event until it is
\* acknowledged, and is not always met by busy servers.
Fairness ==
  /\ \A w \in Workers : WF_vars(Run(w))
  /\ SF_vars(\E w \in Workers : StartRead(w))
  /\ SF_vars(\E w \in Workers : StartWebhook(w))

FairSpec == Spec /\ Fairness

-----------------------------------------------------------------------------
(* Properties.                                                               *)
Schedules == Plans \cup {NoPlan, Bare}
FactsType == [plan : Plans, status : {"none", "trialing", "active"},
              pending : Plans \cup {NoPlan}, card : BOOLEAN]
SubType == [plan : Plans, status : {"trialing", "active", "canceled"},
            ends : BOOLEAN, schedule : Schedules, sid : Nat,
            due : Plans \cup {NoPlan}]

\* The values the variables take: the subscriptions and events of Stripe, the
\* record of the organization and the requests of organization-billing.ts.
TypeOK ==
  /\ subs \in Seq(SubType) /\ card \in BOOLEAN /\ keys \subseteq Int
  /\ events \in BOOLEAN
  /\ db \in [customer : BOOLEAN, facts : FactsType]
  /\ \A w \in Workers :
       LET t == task[w] IN
       /\ t.snap \in FactsType
       /\ t.sub \in Nat /\ t.sid \in Nat /\ t.created \in BOOLEAN
       /\ t.plan \in Plans \cup {NoPlan}
  /\ strays \subseteq Nat \X Nat
  /\ changes \in 0 .. MaxChanges /\ faults \in 0 .. MaxFaults

\* A subscription without a payment method is never made billable, whatever
\* plan changes and undos follow each other or run at the same time: a trial
\* without a card ends in the Hobby plan
\* (organization-billing.ts:936-941 and 1005-1009).
NoCardNeverBilled ==
  \A i \in DOMAIN subs : subs[i].status = "active" /\ Paid(subs[i].plan) => card

\* Reconciliations that run at the same time, of sign-up, requests and
\* webhooks, never leave two Hobby subscriptions (organization-billing.ts:466).
OneHobby ==
  \A i, j \in Live(subs) :
    subs[i].plan = "hobby" /\ subs[j].plan = "hobby" => i = j

\* A schedule without a next phase is there only while the request that created
\* it runs: it is completed, or released again when its update fails
\* (organization-billing.ts:796).  It stays only where the code lets it: a
\* request that fails between the creation and the try (850-865) or dies there,
\* and a release that fails too (811-819).
NoStraySchedule ==
  \A i \in DOMAIN subs : subs[i].schedule = Bare =>
    \/ <<i, subs[i].sid>> \in strays
    \/ \E w \in Workers :
         /\ task[w].pc \in {"phases", "rollback"}
         /\ task[w].created /\ task[w].sub = i

\* A snapshot that a request wrote from old readings, out of order or beside
\* another, is replaced: in the end the record shows what Stripe has
\* (organization-billing.ts:1640).
Converges == <>[](db.customer => db.facts = Facts(subs, card))

HobbyBesidePaid ==
  \E i, j \in Live(subs) : subs[i].plan = "hobby" /\ Paid(subs[j].plan)

\* A customer ends up with a subscription, and not with a Hobby subscription
\* beside a paid one: that is canceled, and one is created when the last
\* subscription has ended (organization-billing.ts:1705).  A customer whose
\* set-up failed before the first subscription has no event that would lead to
\* one.
LandsOnPlan ==
  <>[](db.customer /\ (subs # <<>> \/ faults = 0) =>
         Live(subs) # {} /\ ~HobbyBesidePaid)
=============================================================================
