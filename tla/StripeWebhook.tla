---------------------------- MODULE StripeWebhook ----------------------------
(***************************************************************************)
(* The billing webhook for one tenant: StripeWebhookHandler of webhook.go, *)
(* the plan changes of billing/services.go it makes, and the sessions of   *)
(* session.go they are pushed to.                                          *)
(*                                                                         *)
(* Stripe, which is external, moves subscriptions, logs an event for every *)
(* move and delivers an event until one delivery is answered 200.  Every   *)
(* delivery is a handler that runs one statement at a time over the        *)
(* database; statements fail, answers of statements get lost, the context  *)
(* expires and the process crashes.  Every event here names a customer the *)
(* tenants table knows; the limits of a plan go with the plan.             *)
(***************************************************************************)
EXTENDS Naturals, Sequences, FiniteSets

CONSTANTS
    Deliveries,    \* slots for deliveries in progress
    Sessions,      \* browsers of the tenant's users
    MaxSubs,       \* bound on the subscriptions the tenant ever has
    MaxLive,       \* bound on those alive at once
    MaxEvents,     \* bound on the events Stripe logs
    Faults,        \* what may go wrong: "db", "claimReply", "writeReply", "release",
                   \* "expiry", "crash"
    MaxFaults,     \* bound on how often it does
    InOrder,       \* Stripe waits for the answer to an event before the next
    Overlap,       \* Stripe may deliver an event again at any time
    LoginsOverlap  \* users may log in while a delivery is in progress

ASSUME WebhookAssumption ==
    /\ MaxSubs \in Nat /\ MaxLive \in Nat /\ MaxEvents \in Nat /\ MaxFaults \in Nat
    /\ InOrder \in BOOLEAN /\ Overlap \in BOOLEAN /\ LoginsOverlap \in BOOLEAN

VARIABLES
    subs,      \* Stripe's subscriptions: unborn, active, cancelling or ended
    events,    \* Stripe's log; an event's id is its place in it
    acked,     \* the events a delivery of which was answered 200
    claims,    \* stripe_webhook_events
    tenant,    \* the billing columns of the row of tenants
    handler,   \* the deliveries in progress
    session,   \* the session store, by browser
    faults,    \* how many faults so far, and whether one lost the answer of a write
    handled    \* the events whose change is in the database (history)

vars == <<subs, events, acked, claims, tenant, handler, session, faults, handled>>

NoSub      == 0
Subs       == 1 .. MaxSubs
EventIds   == 1 .. MaxEvents
Plans      == {"free", "builder"}
EventKinds == {"checkout", "updated", "unpriced", "cancel_scheduled", "deferred",
               "deleted", "payment_failed", "payment_succeeded"}
Phases     == {"idle", "lookup", "claim", "work", "push", "finish", "release"}

Rows     == [plan : Plans, sub : Subs \cup {NoSub}, cancelAt : BOOLEAN,
             paymentFailed : BOOLEAN]
Handlers == [pc : Phases, event : EventIds \cup {0}, expired : BOOLEAN,
             err : BOOLEAN, push : Plans \cup {"none"}]
Browsers == [pc : {"out", "login", "in", "gone"}, plan : Plans]
FaultLog == [count : Nat, lost : BOOLEAN]

FreeRow   == [plan |-> "free", sub |-> NoSub, cancelAt |-> FALSE, paymentFailed |-> FALSE]
Idle      == [pc |-> "idle", event |-> 0, expired |-> FALSE, err |-> FALSE, push |-> "none"]
LoggedOut == [pc |-> "out", plan |-> "free"]

TypeOK ==
    /\ subs \in [Subs -> {"unborn", "active", "cancelling", "ended"}]
    /\ events \in Seq([kind : EventKinds, sub : Subs]) /\ Len(events) <= MaxEvents
    /\ acked \in SUBSET DOMAIN events /\ handled \in SUBSET DOMAIN events
    /\ claims \in SUBSET DOMAIN events
    /\ tenant \in Rows
    /\ handler \in [Deliveries -> Handlers]
    /\ \A d \in Deliveries :
          /\ handler[d].pc # "idle" => handler[d].event \in DOMAIN events
          /\ handler[d].pc = "push" => handler[d].push \in Plans
    /\ session \in [Sessions -> Browsers]
    /\ faults \in FaultLog

-----------------------------------------------------------------------------
(* Stripe (external) *)

Live(x) == subs[x] \in {"active", "cancelling"}

(* The moves of a subscription and the events that tell of them, as webhook *)
(* .go expects them: a deletion at period end is announced, then real.      *)
Moves == {<<"unborn", "checkout", "active">>,
          <<"active", "updated", "active">>,
          <<"active", "unpriced", "active">>,
          <<"active", "payment_failed", "active">>,
          <<"active", "payment_succeeded", "active">>,
          <<"active", "cancel_scheduled", "cancelling">>,
          <<"active", "deleted", "ended">>,
          <<"cancelling", "updated", "active">>,
          <<"cancelling", "deferred", "cancelling">>,
          <<"cancelling", "deleted", "ended">>}

(* CreateCheckoutSession offers a checkout to any tenant, subscribed or not. *)
Emit(x) ==
    /\ Len(events) < MaxEvents
    /\ \E m \in Moves :
          /\ m[1] = subs[x]
          /\ m[2] = "checkout" => /\ Cardinality({y \in Subs : Live(y)}) < MaxLive
                                  /\ \A y \in 1 .. x - 1 : subs[y] # "unborn"
          /\ subs' = [subs EXCEPT ![x] = m[3]]
          /\ events' = Append(events, [kind |-> m[2], sub |-> x])
    /\ UNCHANGED <<acked, claims, tenant, handler, session, faults, handled>>

InProgress(n) == \E d \in Deliveries : handler[d].pc # "idle" /\ handler[d].event = n

(* A first delivery, a retry or a duplicate: the handler starts. *)
Deliver(d, n) ==
    /\ handler[d].pc = "idle" /\ n \in DOMAIN events
    /\ Overlap \/ (n \notin acked /\ ~InProgress(n))
    /\ InOrder => \A m \in 1 .. n - 1 : m \in acked
    /\ LoginsOverlap \/ \A s \in Sessions : session[s].pc # "login"
    /\ handler' = [handler EXCEPT ![d] = [Idle EXCEPT !.pc = "lookup", !.event = n]]
    /\ UNCHANGED <<subs, events, acked, claims, tenant, session, faults, handled>>

-----------------------------------------------------------------------------
(* Plan changes: what each event does to the row, and the plan it pushes.   *)

ApplyPlan(row, sub) ==
    IF row.sub = sub /\ row.plan = "builder"
    THEN row
    ELSE [plan |-> "builder", sub |-> sub, cancelAt |-> FALSE, paymentFailed |-> FALSE]

(* Mutant: the cancellation date survives the downgrade. *)
ClearPlanKeepsCancel(row) == [FreeRow EXCEPT !.cancelAt = row.cancelAt]

(* Mutant: stripe_subscription_id is not set to NULL. *)
ClearPlanKeepsSub(row) == [FreeRow EXCEPT !.sub = row.sub]

ClearPlan(row) == FreeRow

ScheduleCancel(row)      == [row EXCEPT !.cancelAt = TRUE, !.paymentFailed = FALSE]
NotifyPaymentFailed(row) == [row EXCEPT !.paymentFailed = TRUE]

(* Mutant: the guard for cancel_at_period_end is missing. *)
handleDeferredAtOnce(row, e) ==
    CASE e.kind \in {"checkout", "updated", "payment_succeeded"} -> ApplyPlan(row, e.sub)
      [] e.kind \in {"deleted", "deferred"} -> ClearPlan(row)
      [] e.kind = "cancel_scheduled"     -> ScheduleCancel(row)
      [] e.kind = "payment_failed"       -> NotifyPaymentFailed(row)
      [] e.kind = "unpriced"             -> row

(* A checkout whose price is unknown is for the builder plan, too. *)
handleWebhookEvent(row, e) ==
    CASE e.kind \in {"checkout", "updated", "payment_succeeded"} -> ApplyPlan(row, e.sub)
      [] e.kind = "deleted"              -> ClearPlan(row)
      [] e.kind = "cancel_scheduled"     -> ScheduleCancel(row)
      [] e.kind = "payment_failed"       -> NotifyPaymentFailed(row)
      [] e.kind \in {"unpriced", "deferred"} -> row

(* Mutant: a downgrade is not pushed. *)
PushUpgradesOnly(row, e) ==
    IF e.kind \in {"checkout", "updated", "payment_succeeded"} /\ ApplyPlan(row, e.sub) # row
    THEN "builder" ELSE "none"

(* An UPDATE that changed nothing returned no tenant to push to. *)
PushOf(row, e) ==
    CASE e.kind = "deleted" -> "free"
      [] e.kind \in {"checkout", "updated", "payment_succeeded"}
             /\ ApplyPlan(row, e.sub) # row -> "builder"
      [] OTHER -> "none"

Writes(e) == e.kind \notin {"unpriced", "deferred"}

-----------------------------------------------------------------------------
(* StripeWebhookHandler, a statement at a time *)

EventOf(d) == events[handler[d].event]

Reply(d, ok) ==
    /\ handler' = [handler EXCEPT ![d] = Idle]
    /\ acked' = IF ok THEN acked \cup {handler[d].event} ELSE acked

Goto(d, phase) ==
    /\ handler' = [handler EXCEPT ![d].pc = phase]
    /\ UNCHANGED acked

Fault(kind) ==
    /\ kind \in Faults /\ faults.count < MaxFaults
    /\ faults' = [count |-> faults.count + 1, lost |-> faults.lost \/ kind = "writeReply"]

(* A statement under an expired context fails; another one may. *)
StatementFails(d) ==
    \/ handler[d].expired /\ UNCHANGED faults
    \/ Fault("db")

Lookup(d) ==
    /\ handler[d].pc = "lookup"
    /\ \/ ~handler[d].expired /\ Goto(d, "claim") /\ UNCHANGED faults
       \/ StatementFails(d) /\ Reply(d, FALSE)
    /\ UNCHANGED <<subs, events, claims, tenant, session, handled>>

(* Mutant: RowsAffected is not looked at. *)
claimRegardless(d) ==
    /\ handler[d].pc = "claim" /\ ~handler[d].expired
    /\ claims' = claims \cup {handler[d].event}
    /\ Goto(d, "work")
    /\ UNCHANGED <<subs, events, tenant, session, faults, handled>>

claimWebhookEvent(d) ==
    /\ handler[d].pc = "claim" /\ ~handler[d].expired
    /\ IF handler[d].event \in claims
       THEN Reply(d, TRUE) /\ UNCHANGED <<claims, faults>>
       ELSE /\ claims' = claims \cup {handler[d].event}
            /\ \/ Goto(d, "work") /\ UNCHANGED faults
               \/ Fault("claimReply") /\ Reply(d, FALSE)
    /\ UNCHANGED <<subs, events, tenant, session, handled>>

ClaimFails(d) ==
    /\ handler[d].pc = "claim" /\ StatementFails(d)
    /\ Reply(d, FALSE)
    /\ UNCHANGED <<subs, events, claims, tenant, session, handled>>

(* The one UPDATE of the event, its answer delivered. *)
Work(d) ==
    /\ handler[d].pc = "work" /\ (Writes(EventOf(d)) => ~handler[d].expired)
    /\ tenant' = handleWebhookEvent(tenant, EventOf(d))
    /\ handled' = handled \cup {handler[d].event}
    /\ LET plan == PushOf(tenant, EventOf(d)) IN
       handler' = [handler EXCEPT ![d].pc = IF plan = "none" THEN "finish" ELSE "push",
                                  ![d].push = plan]
    /\ UNCHANGED <<subs, events, acked, claims, session, faults>>

(* The UPDATE fails, or is done and its answer lost; either way the handler  *)
(* sees an error, which for a failed payment it ignores.                     *)
WorkFails(d) ==
    /\ handler[d].pc = "work" /\ Writes(EventOf(d))
    /\ \/ StatementFails(d) /\ UNCHANGED <<tenant, handled>>
       \/ /\ Fault("writeReply") /\ ~handler[d].expired
          /\ tenant' = handleWebhookEvent(tenant, EventOf(d))
          /\ handled' = handled \cup {handler[d].event}
    /\ handler' = [handler EXCEPT ![d].pc = "finish",
                                  ![d].err = EventOf(d).kind # "payment_failed"]
    /\ UNCHANGED <<subs, events, acked, claims, session>>

(* Every session the tenant has gets the plan (Store.UpdatePlan). *)
UpdatePlan(d) ==
    /\ handler[d].pc = "push"
    /\ session' = [s \in Sessions |->
           IF session[s].pc = "in" THEN [session[s] EXCEPT !.plan = handler[d].push]
           ELSE session[s]]
    /\ Goto(d, "finish")
    /\ UNCHANGED <<subs, events, claims, tenant, faults, handled>>

(* Mutant: a failed handler answers without releasing its claim. *)
FinishKeepsClaim(d) ==
    /\ handler[d].pc = "finish"
    /\ Reply(d, ~handler[d].err /\ ~handler[d].expired)
    /\ UNCHANGED <<subs, events, claims, tenant, session, faults, handled>>

Finish(d) ==
    /\ handler[d].pc = "finish"
    /\ IF handler[d].err \/ handler[d].expired THEN Goto(d, "release") ELSE Reply(d, TRUE)
    /\ UNCHANGED <<subs, events, claims, tenant, session, faults, handled>>

(* Mutant: the release runs under the handler's context, expired or not. *)
releaseUnderContext(d) ==
    /\ handler[d].pc = "release"
    /\ claims' = IF handler[d].expired THEN claims ELSE claims \ {handler[d].event}
    /\ Reply(d, FALSE)
    /\ UNCHANGED <<subs, events, tenant, session, faults, handled>>

(* A release that fails is only logged. *)
releaseWebhookClaim(d) ==
    /\ handler[d].pc = "release"
    /\ \/ claims' = claims \ {handler[d].event} /\ UNCHANGED faults
       \/ Fault("release") /\ UNCHANGED claims
    /\ Reply(d, FALSE)
    /\ UNCHANGED <<subs, events, tenant, session, handled>>

(* webhookHandlerTimeout passes. *)
Expire(d) ==
    /\ handler[d].pc \notin {"idle", "release"} /\ ~handler[d].expired
    /\ Fault("expiry")
    /\ handler' = [handler EXCEPT ![d].expired = TRUE]
    /\ UNCHANGED <<subs, events, acked, claims, tenant, session, handled>>

(* The process dies and restarts: deliveries and sessions are gone. *)
Crash ==
    /\ Fault("crash")
    /\ handler' = [d \in Deliveries |-> Idle]
    /\ session' = [s \in Sessions |-> LoggedOut]
    /\ UNCHANGED <<subs, events, acked, claims, tenant, handled>>

-----------------------------------------------------------------------------
(* CreateSessionHandler reads the plan, then stores the session. *)
ReadPlan(s) ==
    /\ session[s].pc = "out"
    /\ LoginsOverlap \/ \A d \in Deliveries : handler[d].pc = "idle"
    /\ session' = [session EXCEPT ![s] = [pc |-> "login", plan |-> tenant.plan]]
    /\ UNCHANGED <<subs, events, acked, claims, tenant, handler, faults, handled>>

CreateSession(s) ==
    /\ session[s].pc = "login"
    /\ session' = [session EXCEPT ![s].pc = "in"]
    /\ UNCHANGED <<subs, events, acked, claims, tenant, handler, faults, handled>>

(* DeleteSessionHandler, or the end of SessionTTL.  The next login gets an id *)
(* of its own.                                                              *)
DeleteSession(s) ==
    /\ session[s].pc = "in"
    /\ session' = [session EXCEPT ![s] = [LoggedOut EXCEPT !.pc = "gone"]]
    /\ UNCHANGED <<subs, events, acked, claims, tenant, handler, faults, handled>>

-----------------------------------------------------------------------------
Step(d) ==
    \/ Lookup(d) \/ claimWebhookEvent(d) \/ ClaimFails(d) \/ Work(d) \/ WorkFails(d)
    \/ UpdatePlan(d) \/ Finish(d) \/ releaseWebhookClaim(d)

(* A tenant on the free plan, its users logged in or not. *)
Init ==
    /\ subs = [x \in Subs |-> "unborn"]
    /\ events = <<>>
    /\ acked = {} /\ claims = {} /\ handled = {}
    /\ tenant = FreeRow
    /\ handler = [d \in Deliveries |-> Idle]
    /\ session \in [Sessions -> {LoggedOut, [pc |-> "in", plan |-> "free"]}]
    /\ faults = [count |-> 0, lost |-> FALSE]

Next ==
    \/ \E x \in Subs : Emit(x)
    \/ \E d \in Deliveries, n \in EventIds : Deliver(d, n)
    \/ \E d \in Deliveries : Step(d) \/ Expire(d)
    \/ \E s \in Sessions : ReadPlan(s) \/ CreateSession(s) \/ DeleteSession(s)
    \/ Crash

(* Stripe keeps delivering what was not answered 200; handlers and logins   *)
(* run to their end; no subscription has to move and nothing has to go      *)
(* wrong.                                                                   *)
Fairness ==
    /\ \A n \in EventIds : WF_vars(\E d \in Deliveries : Deliver(d, n))
    /\ \A d \in Deliveries : WF_vars(Step(d))
    /\ \A s \in Sessions : WF_vars(CreateSession(s))

Spec == Init /\ [][Next]_vars /\ Fairness

-----------------------------------------------------------------------------
(***************************************************************************)
(* Properties                                                              *)
(***************************************************************************)

(* However deliveries overlap, fail, expire and crash, at most one handler *)
(* is between the claim of an event and its end, and it holds the claim.    *)
Holding(d) == handler[d].pc \in {"work", "push", "finish", "release"}

ClaimExclusive ==
    /\ \A d \in Deliveries : Holding(d) => handler[d].event \in claims
    /\ \A c, d \in Deliveries :
          Holding(c) /\ Holding(d) /\ handler[c].event = handler[d].event => c = d

(* webhook.go:124, "(false, nil) - event already processed": Stripe stops   *)
(* retrying an event only when its change is in the database.  The note of  *)
(* a failed payment is best effort.                                         *)
AckedWasHandled ==
    \A n \in acked : n \in handled \/ events[n].kind = "payment_failed"

(* While faults leave no claim behind, every event takes effect in the end. *)
EveryEventHandled ==
    \A n \in EventIds :
        n \in DOMAIN events ~> n \in handled \/ (n \in acked /\ events[n].kind = "payment_failed")

Quiet == DOMAIN events = acked /\ \A d \in Deliveries : handler[d].pc = "idle"

(* handler.go:99, "active subscription flag": with every event answered, the *)
(* tenant has a plan and a subscription iff Stripe has a live one.          *)
StatusFollowsStripe ==
    Quiet => /\ tenant.sub # NoSub <=> \E x \in Subs : Live(x)
             /\ tenant.plan = "builder" <=> tenant.sub # NoSub

(* With events in order, no notice outlives the subscription it is about.   *)
NoticesNeedSubscription ==
    tenant.sub = NoSub => ~tenant.cancelAt /\ ~tenant.paymentFailed

(* services.go:80, "eliminates the stale plan window": when no plan change  *)
(* and no login is under way, sessions have the plan of the tenant, as long *)
(* as logins do not overlap deliveries and no answer of a write is lost.    *)
SessionsCurrent ==
    ~faults.lost /\ (\A d \in Deliveries : handler[d].pc # "push")
                 /\ (\A s \in Sessions : session[s].pc # "login")
        => \A s \in Sessions : session[s].pc = "in" => session[s].plan = tenant.plan

(* services.go:379, "Also clears subscription_cancel_at (reactivation) and  *)
(* payment_failed_at (payment recovered)".                                  *)
ApplyPlanClears ==
    [][\A n \in handled' \ handled :
        events[n].kind \in {"checkout", "updated", "payment_succeeded"}
            => ~tenant'.cancelAt /\ ~tenant'.paymentFailed]_vars

(* In order, the tenant's entitlement is what Stripe decided, a decision    *)
(* after the other, none left out and none undone by a retry.               *)
Decision(e) ==
    CASE e.kind \in {"checkout", "updated", "payment_succeeded"} -> e.sub
      [] e.kind = "deleted" -> NoSub
      [] OTHER -> MaxSubs + 1

Entitlement == INSTANCE Entitlement WITH
    Nobody    <- NoSub,
    Keep      <- MaxSubs + 1,
    Holders   <- Subs,
    decisions <- [n \in DOMAIN events |-> Decision(events[n])],
    done      <- Cardinality(acked \cup handled),
    holder    <- IF tenant.plan = "builder" THEN tenant.sub ELSE NoSub
ImplementsEntitlement == Entitlement!Spec
=============================================================================
