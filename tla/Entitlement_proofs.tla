--------------------------- MODULE Entitlement_proofs ---------------------------
(* Proofs about StripeWebhook that need its environment: what holds when     *)
(* Stripe does not deliver an event twice at once, when it waits for the     *)
(* answer to an event before the next, when no claim is left behind, and     *)
(* when the tenant has one subscription at a time.  Each theorem names the   *)
(* assumptions it needs.                                                     *)
EXTENDS StripeWebhook_proofs, FiniteSetTheorems

USE WebhookAssumption
USE DEF NoSub, Subs, EventIds, Plans, EventKinds, Phases

Serving(d) == handler[d].pc # "idle"

-----------------------------------------------------------------------------
(* What one step of a delivery leaves of the others, and of its own record. *)

Others(d) == \A c \in Deliveries \ {d} : handler'[c] = handler[c]

LEMMA GotoShape ==
    ASSUME TypeOK, NEW d \in Deliveries, NEW p, Goto(d, p)
    PROVE  /\ handler'[d].pc = p /\ handler'[d].event = handler[d].event
           /\ handler'[d].err = handler[d].err /\ handler'[d].push = handler[d].push
           /\ Others(d) /\ acked' = acked
<1>1. handler[d] \in Handlers
  BY DEF TypeOK
<1>2. handler'[d] = [handler[d] EXCEPT !.pc = p] /\ Others(d) /\ acked' = acked
  BY DEF TypeOK, Goto, Others
<1> QED
  BY <1>1, <1>2 DEF Handlers

LEMMA ReplyShape ==
    ASSUME TypeOK, NEW d \in Deliveries, NEW ok \in BOOLEAN, Reply(d, ok)
    PROVE  /\ handler'[d].pc = "idle" /\ Others(d)
           /\ acked' = IF ok THEN acked \cup {handler[d].event} ELSE acked
  BY DEF TypeOK, Reply, Idle, Others

LEMMA WorkShape ==
    ASSUME TypeOK, NEW d \in Deliveries, Work(d)
    PROVE  /\ handler'[d].event = handler[d].event /\ Others(d)
           /\ handler'[d].push = PushOf(tenant, EventOf(d))
           /\ handler'[d].pc = IF PushOf(tenant, EventOf(d)) = "none" THEN "finish" ELSE "push"
<1> DEFINE plan == PushOf(tenant, EventOf(d))
           p    == IF plan = "none" THEN "finish" ELSE "push"
<1>1. handler[d] \in Handlers
  BY DEF TypeOK
<1>2. handler'[d] = [handler[d] EXCEPT !.pc = p, !.push = plan] /\ Others(d)
  BY DEF Work, TypeOK, Others
<1>3. \A q, r : LET h == [handler[d] EXCEPT !.pc = q, !.push = r]
                IN  h.event = handler[d].event /\ h.pc = q /\ h.push = r
  BY <1>1 DEF Handlers
<1> HIDE DEF plan, p
<1>4. handler'[d].event = handler[d].event /\ handler'[d].pc = p /\ handler'[d].push = plan
  BY <1>2, <1>3
<1> QED
  BY <1>2, <1>4 DEF plan, p

LEMMA WorkFailsShape ==
    ASSUME TypeOK, NEW d \in Deliveries, WorkFails(d)
    PROVE  /\ handler'[d].event = handler[d].event /\ Others(d)
           /\ handler'[d].pc = "finish"
           /\ handler'[d].err \/ EventOf(d).kind = "payment_failed"
<1> DEFINE b == EventOf(d).kind # "payment_failed"
<1>1. handler[d] \in Handlers
  BY DEF TypeOK
<1>2. handler'[d] = [handler[d] EXCEPT !.pc = "finish", !.err = b] /\ Others(d)
  BY DEF WorkFails, TypeOK, Others
<1>3. LET h == [handler[d] EXCEPT !.pc = "finish", !.err = b]
      IN  h.event = handler[d].event /\ h.pc = "finish" /\ h.err = b
  BY <1>1 DEF Handlers
<1> QED
  BY <1>2, <1>3

LEMMA ExpireShape ==
    ASSUME TypeOK, NEW d \in Deliveries, Expire(d)
    PROVE  /\ handler'[d].event = handler[d].event /\ handler'[d].pc = handler[d].pc
           /\ handler'[d].err = handler[d].err /\ handler'[d].push = handler[d].push
           /\ Others(d)
<1>1. handler[d] \in Handlers
  BY DEF TypeOK
<1>2. handler'[d] = [handler[d] EXCEPT !.expired = TRUE] /\ Others(d)
  BY DEF Expire, TypeOK, Others
<1> QED
  BY <1>1, <1>2 DEF Handlers

LEMMA DeliverShape ==
    ASSUME TypeOK, NEW d \in Deliveries, NEW n \in EventIds, Deliver(d, n)
    PROVE  /\ ~Serving(d) /\ handler'[d].pc = "lookup" /\ handler'[d].event = n /\ Others(d)
           /\ UNCHANGED <<subs, events, acked, claims, tenant, session, faults, handled>>
  BY DEF TypeOK, Deliver, Idle, Others, Serving

(* A step of a delivery: one record moves, the event of the delivery may be *)
(* recorded as handled, and is answered only with the end of the delivery.  *)
LEMMA StepShape ==
    ASSUME TypeOK, NEW d \in Deliveries, Step(d) \/ Expire(d)
    PROVE  /\ Serving(d) /\ Others(d) /\ UNCHANGED <<subs, events>>
           /\ Serving(d)' => handler'[d].event = handler[d].event
           /\ handled' \in {handled, handled \cup {handler[d].event}}
           /\ \/ acked' = acked
              \/ acked' = acked \cup {handler[d].event} /\ ~Serving(d)'
<1>1. CASE Lookup(d)
  <2>1. Goto(d, "claim") \/ Reply(d, FALSE)
    BY <1>1 DEF Lookup
  <2> QED
    BY <1>1, <2>1, GotoShape, ReplyShape DEF Lookup, Serving
<1>2. CASE claimWebhookEvent(d)
  <2>1. Goto(d, "work") \/ Reply(d, FALSE) \/ Reply(d, TRUE)
    BY <1>2 DEF claimWebhookEvent
  <2> QED
    BY <1>2, <2>1, GotoShape, ReplyShape DEF claimWebhookEvent, Serving
<1>3. CASE ClaimFails(d)
  BY <1>3, ReplyShape DEF ClaimFails, Serving
<1>4. CASE Work(d)
  BY <1>4, WorkShape DEF Work, Serving
<1>5. CASE WorkFails(d)
  BY <1>5, WorkFailsShape DEF WorkFails, Serving
<1>6. CASE UpdatePlan(d)
  BY <1>6, GotoShape DEF UpdatePlan, Serving
<1>7. CASE Finish(d)
  <2>1. Goto(d, "release") \/ Reply(d, TRUE)
    BY <1>7 DEF Finish
  <2> QED
    BY <1>7, <2>1, GotoShape, ReplyShape DEF Finish, Serving
<1>8. CASE releaseWebhookClaim(d)
  BY <1>8, ReplyShape DEF releaseWebhookClaim, Serving
<1>9. CASE Expire(d)
  BY <1>9, ExpireShape DEF Expire, Serving
<1> QED
  BY <1>1, <1>2, <1>3, <1>4, <1>5, <1>6, <1>7, <1>8, <1>9 DEF Step

(* Stripe's log only grows. *)
LEMMA EmitShape ==
    ASSUME TypeOK, NEW x \in Subs, Emit(x)
    PROVE  /\ DOMAIN events' = 1 .. Len(events) + 1
           /\ \A n \in DOMAIN events : events'[n] = events[n]
           /\ events'[Len(events) + 1].sub = x
           /\ \E m \in Moves : /\ m[1] = subs[x] /\ subs' = [subs EXCEPT ![x] = m[3]]
                               /\ events'[Len(events) + 1] = [kind |-> m[2], sub |-> x]
                               /\ events' = Append(events, [kind |-> m[2], sub |-> x])
                               /\ m[2] = "checkout" => Cardinality({y \in Subs : Live(y)}) < MaxLive
           /\ Len(events') = Len(events) + 1 /\ Len(events) \in Nat
<1>1. PICK m \in Moves : /\ m[1] = subs[x] /\ subs' = [subs EXCEPT ![x] = m[3]]
                         /\ events' = Append(events, [kind |-> m[2], sub |-> x])
                         /\ m[2] = "checkout" => Cardinality({y \in Subs : Live(y)}) < MaxLive
  BY DEF Emit
<1>2. m[2] \in EventKinds
  BY DEF Moves
<1>3. [kind |-> m[2], sub |-> x] \in [kind : EventKinds, sub : Subs]
  BY <1>2
<1>4. /\ Len(events') = Len(events) + 1 /\ DOMAIN events' = 1 .. Len(events) + 1
      /\ \A n \in 1 .. Len(events) : events'[n] = events[n]
      /\ events'[Len(events) + 1] = [kind |-> m[2], sub |-> x]
  BY <1>1, <1>3, AppendProperties, LenProperties DEF TypeOK
<1>5. DOMAIN events = 1 .. Len(events) /\ Len(events) \in Nat
  BY LenProperties DEF TypeOK
<1>6. /\ m[1] = subs[x] /\ subs' = [subs EXCEPT ![x] = m[3]]
      /\ events'[Len(events) + 1] = [kind |-> m[2], sub |-> x]
      /\ events' = Append(events, [kind |-> m[2], sub |-> x])
      /\ m[2] = "checkout" => Cardinality({y \in Subs : Live(y)}) < MaxLive
  BY <1>1, <1>4
<1>7. events'[Len(events) + 1].sub = x
  BY <1>4
<1> HIDE DEF Moves
<1> QED
  BY <1>4, <1>5, <1>6, <1>7, Zenon

-----------------------------------------------------------------------------
(* An answer 200 means the change is in the database. *)

NoClaimLeft == Faults \subseteq {"db", "expiry", "writeReply"}

Settled(n)    == n \in handled \/ events[n].kind = "payment_failed"
NowSettled(n) == n \in handled' \/ events'[n].kind = "payment_failed"

(* Deliveries of one event do not overlap. *)
OnePerEvent == \A c, d \in Deliveries :
    Serving(c) /\ Serving(d) /\ handler[c].event = handler[d].event => c = d

AckInv ==
    /\ TypeOK /\ OnePerEvent
    /\ \A n \in claims : Settled(n) \/ \E d \in Deliveries : Holding(d) /\ handler[d].event = n
    /\ \A d \in Deliveries :
          /\ handler[d].pc = "push" => Settled(handler[d].event)
          /\ handler[d].pc = "finish" => handler[d].err \/ Settled(handler[d].event)
    /\ AckedWasHandled

LEMMA AckOfDelivery ==
    ASSUME AckInv, TypeOK', NEW d \in Deliveries, Others(d), UNCHANGED events,
           handled \subseteq handled',
           Serving(d)' => Serving(d) /\ handler'[d].event = handler[d].event,
           handler'[d].pc = "push" => NowSettled(handler'[d].event),
           handler'[d].pc = "finish" => handler'[d].err \/ NowSettled(handler'[d].event),
           \A n \in claims' :
               \/ n \in claims /\ n # handler[d].event
               \/ NowSettled(n)
               \/ Holding(d)' /\ handler'[d].event = n,
           \A n \in acked' : n \in acked \/ NowSettled(n)
    PROVE  AckInv'
<1>1. \A n : Settled(n) => NowSettled(n)
  BY DEF Settled, NowSettled
<1>2. OnePerEvent'
  BY DEF AckInv, OnePerEvent, Serving, Others
<1>3. \A n \in claims' : NowSettled(n) \/ \E c \in Deliveries : Holding(c)' /\ handler'[c].event = n
  <2> SUFFICES ASSUME NEW n \in claims', n \in claims, n # handler[d].event, ~Settled(n)
               PROVE  \E c \in Deliveries : Holding(c)' /\ handler'[c].event = n
    BY <1>1
  <2>1. PICK c \in Deliveries : Holding(c) /\ handler[c].event = n
    BY DEF AckInv
  <2>2. handler'[c] = handler[c]
    BY <2>1 DEF Others
  <2> QED
    BY <2>1, <2>2 DEF Holding
<1>4. \A c \in Deliveries :
          /\ handler'[c].pc = "push" => NowSettled(handler'[c].event)
          /\ handler'[c].pc = "finish" => handler'[c].err \/ NowSettled(handler'[c].event)
  <2>1. \A c \in Deliveries \ {d} :
            /\ handler'[c].pc = "push" => Settled(handler'[c].event)
            /\ handler'[c].pc = "finish" => handler'[c].err \/ Settled(handler'[c].event)
    BY DEF AckInv, Others
  <2> QED
    BY <1>1, <2>1
<1>5. AckedWasHandled'
  <2>1. \A n \in acked : Settled(n)
    BY DEF AckInv, AckedWasHandled, Settled, NowSettled
  <2>2. \A n \in acked' : NowSettled(n)
    BY <1>1, <2>1
  <2> QED
    BY <2>2 DEF AckedWasHandled, Settled, NowSettled
<1> QED
  BY <1>2, <1>3, <1>4, <1>5 DEF AckInv, Settled, NowSettled

(* A claim an unclaimed delivery of its event finds was settled before.      *)
LEMMA ClaimedWasSettled ==
    ASSUME AckInv, NEW d \in Deliveries, Serving(d), ~Holding(d), handler[d].event \in claims
    PROVE  Settled(handler[d].event)
<1>1. \A c \in Deliveries : Holding(c) /\ handler[c].event = handler[d].event => FALSE
  BY DEF AckInv, OnePerEvent, Serving, Holding
<1> QED
  BY <1>1 DEF AckInv

LEMMA AckStep ==
    ASSUME NoClaimLeft, ~Overlap
    PROVE  AckInv /\ [Next]_vars => AckInv'
<1> SUFFICES ASSUME AckInv, [Next]_vars PROVE AckInv'
  OBVIOUS
<1>1. TypeOK /\ TypeOK'
  BY TypeStep DEF AckInv
<1>2. CASE UNCHANGED <<acked, claims, handler, handled>> /\ \A n \in DOMAIN events : events'[n] = events[n]
  <2>1. \A n \in DOMAIN events : NowSettled(n) <=> Settled(n)
    BY <1>2 DEF Settled, NowSettled
  <2>2. /\ acked \subseteq DOMAIN events /\ claims \subseteq DOMAIN events
        /\ \A d \in Deliveries : handler[d].pc # "idle" => handler[d].event \in DOMAIN events
    BY <1>1 DEF TypeOK
  <2>3. OnePerEvent'
    BY <1>2 DEF AckInv, OnePerEvent, Serving
  <2>4. \A n \in claims : NowSettled(n) \/ \E d \in Deliveries : Holding(d)' /\ handler'[d].event = n
    <3> SUFFICES ASSUME NEW n \in claims, ~Settled(n)
                 PROVE  \E d \in Deliveries : Holding(d)' /\ handler'[d].event = n
      BY <2>1, <2>2
    <3>1. PICK d \in Deliveries : Holding(d) /\ handler[d].event = n
      BY DEF AckInv
    <3> QED
      BY <3>1, <1>2 DEF Holding
  <2>5. \A d \in Deliveries :
          /\ handler'[d].pc = "push" => NowSettled(handler'[d].event)
          /\ handler'[d].pc = "finish" => handler'[d].err \/ NowSettled(handler'[d].event)
    BY <1>2, <2>1, <2>2 DEF AckInv
  <2>6. AckedWasHandled'
    BY <1>2, <2>2 DEF AckInv, AckedWasHandled
  <2> QED
    BY <1>1, <1>2, <2>3, <2>4, <2>5, <2>6 DEF AckInv, Settled, NowSettled
<1>3. ASSUME NEW x \in Subs, Emit(x) PROVE AckInv'
  BY <1>1, <1>2, <1>3, EmitShape DEF Emit
<1>4. ASSUME NEW s \in Sessions, ReadPlan(s) \/ CreateSession(s) \/ DeleteSession(s) PROVE AckInv'
  BY <1>2, <1>4 DEF ReadPlan, CreateSession, DeleteSession
<1>5. ASSUME NEW d \in Deliveries, NEW n \in EventIds, Deliver(d, n) PROVE AckInv'
  <2>1. /\ ~Serving(d) /\ handler'[d].pc = "lookup" /\ handler'[d].event = n /\ Others(d)
        /\ UNCHANGED <<subs, events, acked, claims, tenant, session, faults, handled>>
    BY <1>1, <1>5, DeliverShape
  <2>2. \A c \in Deliveries : Serving(c) => handler[c].event # n
    BY <1>5 DEF Deliver, InProgress, Serving
  <2>3. OnePerEvent'
    BY <2>1, <2>2 DEF AckInv, OnePerEvent, Serving, Others
  <2>4. \A m \in claims : NowSettled(m) \/ \E c \in Deliveries : Holding(c)' /\ handler'[c].event = m
    <3> SUFFICES ASSUME NEW m \in claims, ~Settled(m)
                 PROVE  \E c \in Deliveries : Holding(c)' /\ handler'[c].event = m
      BY <2>1 DEF Settled, NowSettled
    <3>1. PICK c \in Deliveries : Holding(c) /\ handler[c].event = m
      BY DEF AckInv
    <3>2. handler'[c] = handler[c]
      BY <2>1, <3>1 DEF Others, Holding, Serving
    <3> QED
      BY <3>1, <3>2 DEF Holding
  <2>5. \A c \in Deliveries :
          /\ handler'[c].pc = "push" => NowSettled(handler'[c].event)
          /\ handler'[c].pc = "finish" => handler'[c].err \/ NowSettled(handler'[c].event)
    BY <2>1 DEF AckInv, Others, Settled, NowSettled
  <2>6. AckedWasHandled'
    BY <2>1 DEF AckInv, AckedWasHandled
  <2> QED
    BY <1>1, <2>1, <2>3, <2>4, <2>5, <2>6 DEF AckInv, Settled, NowSettled
<1>6. ASSUME NEW d \in Deliveries, Step(d) \/ Expire(d) PROVE AckInv'
  <2>1. /\ Serving(d) /\ Others(d) /\ UNCHANGED <<subs, events>>
        /\ Serving(d)' => handler'[d].event = handler[d].event
        /\ handled \subseteq handled'
    BY <1>1, <1>6, StepShape
  <2>2. ~Holding(d) /\ handler[d].event \in claims => Settled(handler[d].event)
    BY <2>1, ClaimedWasSettled
  <2>3. \A n : Settled(n) => NowSettled(n)
    BY <2>1 DEF Settled, NowSettled
  <2>4. CASE Lookup(d) \/ ClaimFails(d)
    <3>1. Goto(d, "claim") \/ Reply(d, FALSE)
      BY <2>4 DEF Lookup, ClaimFails
    <3>2. handler'[d].pc \in {"claim", "idle"} /\ acked' = acked
      BY <1>1, <3>1, GotoShape, ReplyShape
    <3>3. UNCHANGED claims /\ ~Holding(d)
      BY <2>4 DEF Lookup, ClaimFails, Holding
    <3>4. \A n \in claims : n = handler[d].event => NowSettled(n)
      BY <2>2, <2>3, <3>3
    <3> QED
      BY <1>1, <2>1, <3>2, <3>3, <3>4, AckOfDelivery
  <2>5. CASE claimWebhookEvent(d)
    <3>1. ~Holding(d) /\ handled' = handled
      BY <2>5 DEF claimWebhookEvent, Holding
    <3>2. CASE handler[d].event \in claims
      <4>1. Reply(d, TRUE) /\ UNCHANGED claims
        BY <2>5, <3>2 DEF claimWebhookEvent
      <4>2. handler'[d].pc = "idle" /\ acked' = acked \cup {handler[d].event}
        BY <1>1, <4>1, ReplyShape
      <4>3. NowSettled(handler[d].event)
        BY <2>2, <2>3, <3>1, <3>2
      <4> QED
        BY <1>1, <2>1, <4>1, <4>2, <4>3, AckOfDelivery
    <3>3. CASE handler[d].event \notin claims
      <4>1. Goto(d, "work") /\ claims' = claims \cup {handler[d].event}
        BY <2>5, <3>3 DEF claimWebhookEvent, Fault, NoClaimLeft
      <4>2. handler'[d].pc = "work" /\ handler'[d].event = handler[d].event /\ acked' = acked
        BY <1>1, <4>1, GotoShape
      <4>3. \A n \in claims' : (n \in claims /\ n # handler[d].event) \/ (Holding(d)' /\ handler'[d].event = n)
        BY <3>3, <4>1, <4>2 DEF Holding
      <4> QED
        BY <1>1, <2>1, <4>2, <4>3, AckOfDelivery
    <3> QED
      BY <3>2, <3>3
  <2>6. CASE Work(d) \/ WorkFails(d) \/ UpdatePlan(d) \/ Expire(d) \/ (Finish(d) /\ Goto(d, "release"))
    <3>1. handler'[d].event = handler[d].event /\ acked' = acked /\ claims' = claims
      BY <1>1, <2>6, WorkShape, WorkFailsShape, ExpireShape, GotoShape
         DEF Work, WorkFails, UpdatePlan, Expire, Finish
    <3>2. handler'[d].pc = "push" => NowSettled(handler'[d].event)
      <4>1. CASE Work(d)
        BY <3>1, <4>1 DEF Work, Settled, NowSettled
      <4>2. CASE WorkFails(d)
        BY <1>1, <4>2, WorkFailsShape
      <4>3. CASE UpdatePlan(d) \/ (Finish(d) /\ Goto(d, "release"))
        BY <1>1, <4>3, GotoShape DEF UpdatePlan
      <4>4. CASE Expire(d)
        BY <1>1, <2>3, <4>4, ExpireShape DEF AckInv
      <4> QED
        BY <2>6, <4>1, <4>2, <4>3, <4>4, Zenon
    <3>3. handler'[d].pc = "finish" => handler'[d].err \/ NowSettled(handler'[d].event)
      <4>1. CASE Work(d)
        BY <3>1, <4>1 DEF Work, Settled, NowSettled
      <4>2. CASE WorkFails(d)
        BY <1>1, <2>1, <4>2, WorkFailsShape DEF Settled, NowSettled, EventOf
      <4>3. CASE UpdatePlan(d)
        <5>1. handler[d].pc = "push"
          BY <4>3 DEF UpdatePlan
        <5> QED
          BY <2>3, <3>1, <5>1 DEF AckInv
      <4>4. CASE Finish(d) /\ Goto(d, "release")
        BY <1>1, <4>4, GotoShape
      <4>5. CASE Expire(d)
        <5>1. handler[d].pc = "finish" => handler[d].err \/ Settled(handler[d].event)
          BY DEF AckInv
        <5>2. handler'[d].pc = handler[d].pc /\ handler'[d].err = handler[d].err
          BY <1>1, <4>5, ExpireShape
        <5> QED
          BY <2>3, <3>1, <5>1, <5>2
      <4> QED
        BY <2>6, <4>1, <4>2, <4>3, <4>4, <4>5
    <3>4. \A n \in claims : n = handler[d].event =>
              NowSettled(n) \/ (Holding(d)' /\ handler'[d].event = n)
      <4>1. ~Holding(d) => Holding(d)' \/ Expire(d)
        BY <2>6 DEF Work, WorkFails, UpdatePlan, Finish, Holding
      <4>2. Holding(d) => Holding(d)'
        BY ZenonT(40), <1>1, <2>6, WorkShape, WorkFailsShape, ExpireShape, GotoShape
           DEF Holding, UpdatePlan, Finish
      <4> QED
        BY <2>2, <2>3, <3>1, <4>2
    <3> QED
      BY <1>1, <2>1, <3>1, <3>2, <3>3, <3>4, AckOfDelivery
  <2>7. CASE Finish(d) /\ Reply(d, TRUE)
    <3>1. handler'[d].pc = "idle" /\ acked' = acked \cup {handler[d].event}
      BY <1>1, <2>7, ReplyShape
    <3>2. CASE handler[d].err
      <4>1. Goto(d, "release")
        BY <2>7, <3>2 DEF Finish
      <4> QED
        BY <2>6, <2>7, <4>1
    <3>3. CASE ~handler[d].err
      <4>1. NowSettled(handler[d].event) /\ UNCHANGED claims
        BY <2>3, <2>7, <3>3 DEF AckInv, Finish
      <4> QED
        BY <1>1, <2>1, <3>1, <4>1, AckOfDelivery
    <3> QED
      BY <3>2, <3>3
  <2>8. CASE releaseWebhookClaim(d)
    <3>1. Reply(d, FALSE) /\ claims' = claims \ {handler[d].event}
      BY <2>8 DEF releaseWebhookClaim, Fault, NoClaimLeft
    <3>2. handler'[d].pc = "idle" /\ acked' = acked
      BY <1>1, <3>1, ReplyShape
    <3> QED
      BY <1>1, <2>1, <3>1, <3>2, AckOfDelivery
  <2>9. Finish(d) => Goto(d, "release") \/ Reply(d, TRUE)
    BY DEF Finish
  <2> QED
    BY <1>6, <2>4, <2>5, <2>6, <2>7, <2>8, <2>9 DEF Step
<1>7. ~Crash
  BY DEF Crash, Fault, NoClaimLeft
<1>8. CASE UNCHANGED vars
  BY <1>2, <1>8 DEF vars
<1> QED
  BY <1>3, <1>4, <1>5, <1>6, <1>7, <1>8 DEF Next

(* webhook.go:124: when no delivery of an event overlaps another and no fault *)
(* leaves a claim behind, an event that was answered 200 is in the database.  *)
THEOREM AckedHandled ==
    ASSUME NoClaimLeft, ~Overlap
    PROVE  Spec => []AckedWasHandled
<1>1. Init => AckInv
  <2> SUFFICES ASSUME Init PROVE AckInv
    OBVIOUS
  <2>1. TypeOK /\ acked = {} /\ claims = {} /\ \A d \in Deliveries : handler[d].pc = "idle"
    BY TypeInit DEF Init, Idle
  <2> QED
    BY <2>1 DEF AckInv, OnePerEvent, Serving, AckedWasHandled
<1>2. AckInv => AckedWasHandled
  BY DEF AckInv
<1> QED
  BY <1>1, <1>2, AckStep, PTL DEF Spec

-----------------------------------------------------------------------------
(* In order, one delivery is in progress, of the first event not answered.  *)

OrderInv ==
    /\ TypeOK
    /\ \A n \in acked : 1 .. n - 1 \subseteq acked
    /\ \A d \in Deliveries :
          Serving(d) => handler[d].event \notin acked /\ 1 .. handler[d].event - 1 \subseteq acked
    /\ \A c, d \in Deliveries : Serving(c) /\ Serving(d) => c = d
    /\ \A n \in handled : 1 .. n - 1 \subseteq acked

LEMMA OrderOfDelivery ==
    ASSUME OrderInv, TypeOK', NEW d \in Deliveries, Serving(d), Others(d),
           Serving(d)' => handler'[d].event = handler[d].event,
           handled' \in {handled, handled \cup {handler[d].event}},
           acked' = acked \/ (acked' = acked \cup {handler[d].event} /\ ~Serving(d)')
    PROVE  OrderInv'
<1>1. 1 .. handler[d].event - 1 \subseteq acked /\ acked \subseteq acked'
  BY DEF OrderInv
<1>2. \A c \in Deliveries : Serving(c)' => c = d
  BY DEF OrderInv, Serving, Others
<1>3. \A n \in acked' : 1 .. n - 1 \subseteq acked'
  BY <1>1 DEF OrderInv
<1>4. \A n \in handled' : 1 .. n - 1 \subseteq acked'
  BY <1>1 DEF OrderInv
<1>5. \A c \in Deliveries :
          Serving(c)' => handler'[c].event \notin acked' /\ 1 .. handler'[c].event - 1 \subseteq acked'
  BY <1>1, <1>2 DEF OrderInv
<1> QED
  BY <1>2, <1>3, <1>4, <1>5 DEF OrderInv

LEMMA OrderStep ==
    ASSUME InOrder, ~Overlap
    PROVE  OrderInv /\ [Next]_vars => OrderInv'
<1> SUFFICES ASSUME OrderInv, [Next]_vars PROVE OrderInv'
  OBVIOUS
<1>1. TypeOK /\ TypeOK'
  BY TypeStep DEF OrderInv
<1>2. CASE UNCHANGED <<acked, handler, handled>>
  BY <1>1, <1>2 DEF OrderInv, Serving
<1>3. ASSUME NEW d \in Deliveries, NEW n \in EventIds, Deliver(d, n) PROVE OrderInv'
  <2>1. /\ handler'[d].event = n /\ Others(d)
        /\ UNCHANGED <<acked, handled>>
    BY <1>1, <1>3, DeliverShape
  <2>2. n \notin acked /\ 1 .. n - 1 \subseteq acked
    BY <1>3 DEF Deliver
  <2>3. \A c \in Deliveries : ~Serving(c)
    <3> SUFFICES ASSUME NEW c \in Deliveries, Serving(c) PROVE FALSE
      OBVIOUS
    <3>1. handler[c].event \in EventIds /\ n \in EventIds /\ handler[c].event # n
      <4>1. handler[c].event \in DOMAIN events /\ DOMAIN events \subseteq EventIds
        BY <1>1, LenProperties DEF TypeOK, Serving
      <4> QED
        BY <1>3, <4>1 DEF Deliver, InProgress, Serving
    <3>2. handler[c].event \notin acked /\ 1 .. handler[c].event - 1 \subseteq acked
      BY DEF OrderInv
    <3> QED
      BY <2>2, <3>1, <3>2
  <2> QED
    BY <1>1, <2>1, <2>2, <2>3 DEF OrderInv, Others, Serving
<1>4. ASSUME NEW d \in Deliveries, Step(d) \/ Expire(d) PROVE OrderInv'
  BY <1>1, <1>4, StepShape, OrderOfDelivery
<1>5. ASSUME Crash PROVE OrderInv'
  <2>1. (\A d \in Deliveries : ~Serving(d)') /\ UNCHANGED <<acked, handled>>
    BY <1>5 DEF Crash, Idle, Serving
  <2> QED
    BY <1>1, <2>1 DEF OrderInv
<1>6. ASSUME NEW x \in Subs, Emit(x) PROVE OrderInv'
  BY <1>2, <1>6 DEF Emit
<1>7. ASSUME NEW s \in Sessions, ReadPlan(s) \/ CreateSession(s) \/ DeleteSession(s) PROVE OrderInv'
  BY <1>2, <1>7 DEF ReadPlan, CreateSession, DeleteSession
<1>8. CASE UNCHANGED vars
  BY <1>2, <1>8 DEF vars
<1> QED
  BY <1>3, <1>4, <1>5, <1>6, <1>7, <1>8 DEF Next

LEMMA OrderInit == Init => OrderInv
<1> SUFFICES ASSUME Init PROVE OrderInv
  OBVIOUS
<1>1. TypeOK /\ acked = {} /\ handled = {} /\ \A d \in Deliveries : handler[d].pc = "idle"
  BY TypeInit DEF Init, Idle
<1> QED
  BY <1>1 DEF OrderInv, Serving

-----------------------------------------------------------------------------
(* Sessions: a plan that is not the row's is about to be pushed. *)

SessionInv ==
    /\ OrderInv
    /\ \A s \in Sessions : session[s].pc = "login" => \A d \in Deliveries : ~Serving(d)
    /\ \A d \in Deliveries : handler[d].pc = "push" => handler[d].push = tenant.plan
    /\ ~faults.lost => \A s \in Sessions : session[s].pc \in {"in", "login"} =>
           session[s].plan = tenant.plan \/ \E d \in Deliveries : handler[d].pc = "push"

(* What is pushed is the plan of the row; nothing is pushed when it stays.  *)
LEMMA PushTells ==
    ASSUME NEW row \in Rows, NEW e \in [kind : EventKinds, sub : Subs]
    PROVE  handleWebhookEvent(row, e).plan = IF PushOf(row, e) = "none" THEN row.plan
                                             ELSE PushOf(row, e)
<1>1. FreeRow.plan = "free" /\ ApplyPlan(row, e.sub).plan = "builder"
  BY DEF FreeRow, ApplyPlan
<1>2. ScheduleCancel(row).plan = row.plan /\ NotifyPaymentFailed(row).plan = row.plan
  BY DEF ScheduleCancel, NotifyPaymentFailed, Rows
<1>3. e.kind \in EventKinds
  OBVIOUS
<1>4. CASE e.kind \in {"checkout", "updated", "payment_succeeded"}
  <2>1. /\ handleWebhookEvent(row, e) = ApplyPlan(row, e.sub)
        /\ PushOf(row, e) = IF ApplyPlan(row, e.sub) # row THEN "builder" ELSE "none"
    BY <1>4 DEF handleWebhookEvent, PushOf
  <2> QED
    BY <1>1, <2>1
<1>5. CASE e.kind = "deleted"
  BY <1>1, <1>5 DEF handleWebhookEvent, PushOf, ClearPlan
<1>6. CASE e.kind \in {"cancel_scheduled", "payment_failed", "unpriced", "deferred"}
  BY <1>2, <1>6 DEF handleWebhookEvent, PushOf
<1> QED
  BY <1>3, <1>4, <1>5, <1>6

LEMMA EventInLog ==
    ASSUME TypeOK, NEW d \in Deliveries, Serving(d)
    PROVE  EventOf(d) \in [kind : EventKinds, sub : Subs]
<1>1. events \in Seq([kind : EventKinds, sub : Subs]) /\ handler[d].event \in 1 .. Len(events)
  BY LenProperties DEF TypeOK, Serving
<1> QED
  BY <1>1, ElementOfSeq DEF EventOf

LEMMA FaultsKeepLoss ==
    ASSUME NEW kind, Fault(kind), ~faults'.lost
    PROVE  ~faults.lost /\ kind # "writeReply"
  BY DEF Fault

LEMMA SessionStep ==
    ASSUME InOrder, ~Overlap, ~LoginsOverlap
    PROVE  SessionInv /\ [Next]_vars => SessionInv'
<1> SUFFICES ASSUME SessionInv, [Next]_vars PROVE SessionInv'
  OBVIOUS
<1>1. OrderInv /\ OrderInv'
  BY OrderStep DEF SessionInv
<1>2. TypeOK /\ TypeOK'
  BY <1>1 DEF OrderInv
<1>3. CASE UNCHANGED <<tenant, handler, session, faults>>
  BY <1>1, <1>3 DEF SessionInv, Serving
<1>4. ASSUME NEW d \in Deliveries, NEW n \in EventIds, Deliver(d, n) PROVE SessionInv'
  <2>1. /\ ~Serving(d) /\ handler'[d].pc = "lookup" /\ Others(d)
        /\ UNCHANGED <<tenant, session, faults>>
    BY <1>2, <1>4, DeliverShape
  <2>2. \A s \in Sessions : session[s].pc # "login"
    BY <1>4 DEF Deliver
  <2>3. \A c \in Deliveries : handler'[c].pc = "push" <=> handler[c].pc = "push"
    BY <2>1 DEF Others, Serving
  <2>4. \A c \in Deliveries : handler'[c].pc = "push" => handler'[c].push = tenant.plan
    BY <2>1 DEF SessionInv, Others
  <2> QED
    BY <1>1, <2>1, <2>2, <2>3, <2>4 DEF SessionInv
<1>5. ASSUME NEW d \in Deliveries, Step(d) \/ Expire(d) PROVE SessionInv'
  <2>1. Serving(d) /\ Others(d)
    BY <1>2, <1>5, StepShape
  <2>2. \A c \in Deliveries \ {d} : handler[c].pc = "idle" /\ handler'[c].pc = "idle"
    BY <1>1, <2>1 DEF OrderInv, Serving, Others
  <2>3. \A s \in Sessions : session[s].pc # "login"
    BY <2>1 DEF SessionInv
  (* It is enough to look at the plan of the delivery that moves. *)
  <2>4. ASSUME handler'[d].pc = "push" => handler'[d].push = tenant'.plan,
               \A s \in Sessions : session'[s].pc # "login",
               ~faults'.lost => \A s \in Sessions : session'[s].pc = "in" =>
                   session'[s].plan = tenant'.plan \/ handler'[d].pc = "push"
        PROVE  SessionInv'
    BY <1>1, <2>2, <2>4 DEF SessionInv
  <2>5. handler[d].pc = "push" => handler[d].push = tenant.plan
    BY DEF SessionInv
  <2>6. ~faults.lost => \A s \in Sessions : session[s].pc = "in" =>
            session[s].plan = tenant.plan \/ handler[d].pc = "push"
    BY <2>2 DEF SessionInv
  <2>7. CASE Lookup(d) \/ claimWebhookEvent(d) \/ ClaimFails(d) \/ Finish(d) \/ releaseWebhookClaim(d)
    <3>1. handler[d].pc # "push" /\ UNCHANGED <<tenant, session>>
      BY <2>7 DEF Lookup, claimWebhookEvent, ClaimFails, Finish, releaseWebhookClaim
    <3>2. handler'[d].pc # "push"
      <4>1. (\E p \in {"claim", "work", "release"} : Goto(d, p)) \/ \E ok \in BOOLEAN : Reply(d, ok)
        BY <2>7 DEF Lookup, claimWebhookEvent, ClaimFails, Finish, releaseWebhookClaim
      <4> QED
        BY <1>2, <4>1, GotoShape, ReplyShape
    <3>3. ~faults'.lost => ~faults.lost
      BY <2>7, FaultsKeepLoss
         DEF Lookup, claimWebhookEvent, ClaimFails, Finish, releaseWebhookClaim, StatementFails
    <3> QED
      BY <2>3, <2>4, <2>6, <3>1, <3>2, <3>3
  <2>8. CASE Work(d)
    <3>1. /\ handler[d].pc # "push" /\ UNCHANGED <<session, faults>>
          /\ tenant' = handleWebhookEvent(tenant, EventOf(d))
      BY <2>8 DEF Work
    <3>2. tenant'.plan = IF PushOf(tenant, EventOf(d)) = "none" THEN tenant.plan
                         ELSE PushOf(tenant, EventOf(d))
      BY <1>2, <2>1, <3>1, EventInLog, PushTells DEF TypeOK
    <3>3. /\ handler'[d].push = PushOf(tenant, EventOf(d))
          /\ handler'[d].pc = IF PushOf(tenant, EventOf(d)) = "none" THEN "finish" ELSE "push"
      BY <1>2, <2>8, WorkShape
    <3> HIDE DEF Subs, Plans, EventKinds
    <3> QED
      BY <2>3, <2>4, <2>6, <3>1, <3>2, <3>3
  <2>9. CASE WorkFails(d)
    <3>1. handler[d].pc # "push" /\ UNCHANGED session /\ handler'[d].pc = "finish"
      BY <1>2, <2>9, WorkFailsShape DEF WorkFails
    <3>2. ~faults'.lost => ~faults.lost /\ UNCHANGED tenant
      BY <2>9, FaultsKeepLoss DEF WorkFails, StatementFails
    <3> QED
      BY <2>3, <2>4, <2>6, <3>1, <3>2
  <2>10. CASE UpdatePlan(d)
    <3>1. handler[d].pc = "push" /\ UNCHANGED tenant /\ handler'[d].pc = "finish"
      BY <1>2, <2>10, GotoShape DEF UpdatePlan
    <3>2. \A s \in Sessions :
              /\ session'[s].pc # "login"
              /\ session'[s].pc = "in" => session'[s].plan = handler[d].push
      <4> SUFFICES ASSUME NEW s \in Sessions
                   PROVE  /\ session'[s].pc # "login"
                          /\ session'[s].pc = "in" => session'[s].plan = handler[d].push
        OBVIOUS
      <4>1. session[s] \in Browsers /\ session[s].pc # "login"
        BY <1>2, <2>3 DEF TypeOK
      <4>2. session'[s] = IF session[s].pc = "in" THEN [session[s] EXCEPT !.plan = handler[d].push]
                          ELSE session[s]
        BY <2>10 DEF UpdatePlan
      <4> QED
        BY <4>1, <4>2 DEF Browsers
    <3> QED
      BY <2>4, <2>5, <3>1, <3>2
  <2>11. CASE Expire(d)
    <3>1. /\ handler'[d].pc = handler[d].pc /\ handler'[d].push = handler[d].push
          /\ UNCHANGED <<tenant, session>> /\ (~faults'.lost => ~faults.lost)
      BY <1>2, <2>11, ExpireShape, FaultsKeepLoss DEF Expire
    <3> QED
      BY <2>3, <2>4, <2>5, <2>6, <3>1
  <2> QED
    BY <1>5, <2>7, <2>8, <2>9, <2>10, <2>11 DEF Step
<1>6. ASSUME Crash PROVE SessionInv'
  <2>1. \A d \in Deliveries : ~Serving(d)' /\ handler'[d].pc # "push"
    BY <1>6 DEF Crash, Idle, Serving
  <2>2. \A s \in Sessions : session'[s].pc = "out"
    BY <1>6 DEF Crash, LoggedOut
  <2> QED
    BY <1>1, <2>1, <2>2 DEF SessionInv
<1>7. ASSUME NEW s \in Sessions, ReadPlan(s) \/ CreateSession(s) \/ DeleteSession(s) PROVE SessionInv'
  <2>1. UNCHANGED <<tenant, handler, faults>> /\ \A r \in Sessions \ {s} : session'[r] = session[r]
    BY <1>2, <1>7 DEF ReadPlan, CreateSession, DeleteSession, TypeOK
  <2>2. CASE ReadPlan(s)
    <3>1. session'[s].plan = tenant.plan /\ \A d \in Deliveries : ~Serving(d)
      BY <1>2, <2>2 DEF ReadPlan, TypeOK, Serving
    <3> QED
      BY <1>1, <2>1, <3>1 DEF SessionInv, Serving
  <2>3. CASE CreateSession(s)
    <3>1. session[s] \in Browsers /\ session'[s] = [session[s] EXCEPT !.pc = "in"] /\ session[s].pc = "login"
      BY <1>2, <2>3 DEF CreateSession, TypeOK
    <3>2. session'[s].pc = "in" /\ session'[s].plan = session[s].plan
      BY <3>1 DEF Browsers
    <3>3. \A r \in Sessions : /\ session'[r].pc = "login" => session[r].pc = "login"
                              /\ session'[r].pc \in {"in", "login"} =>
                                     /\ session[r].pc \in {"in", "login"}
                                     /\ session'[r].plan = session[r].plan
      BY <2>1, <3>1, <3>2
    <3>4. ASSUME NEW r \in Sessions, session'[r].pc = "login", NEW d \in Deliveries
          PROVE  ~Serving(d)'
      <4>1. session[r].pc = "login"
        BY <3>3, <3>4
      <4>2. ~Serving(d)
        BY <4>1 DEF SessionInv
      <4> QED
        BY <2>1, <4>2 DEF Serving
    <3>5. ASSUME ~faults.lost, NEW r \in Sessions, session'[r].pc \in {"in", "login"}
          PROVE  session'[r].plan = tenant.plan \/ \E d \in Deliveries : handler[d].pc = "push"
      <4>1. session[r].pc \in {"in", "login"} /\ session'[r].plan = session[r].plan
        BY <3>3, <3>5
      <4> QED
        BY <3>5, <4>1 DEF SessionInv
    <3>6. \A d \in Deliveries : handler[d].pc = "push" => handler[d].push = tenant.plan
      BY DEF SessionInv
    <3> QED
      BY <1>1, <2>1, <3>4, <3>5, <3>6 DEF SessionInv
  <2>4. CASE DeleteSession(s)
    <3>1. session'[s].pc = "gone"
      BY <1>2, <2>4 DEF DeleteSession, TypeOK, LoggedOut
    <3> QED
      BY <1>1, <2>1, <3>1 DEF SessionInv, Serving
  <2> QED
    BY <1>7, <2>2, <2>3, <2>4
<1>8. ASSUME NEW x \in Subs, Emit(x) PROVE SessionInv'
  BY <1>3, <1>8 DEF Emit
<1>9. CASE UNCHANGED vars
  BY <1>3, <1>9 DEF vars
<1> QED
  BY <1>4, <1>5, <1>6, <1>7, <1>8, <1>9 DEF Next

(* services.go:80: with events in order and no login under way during a      *)
(* delivery, no session keeps a plan the tenant does not have, whatever else *)
(* fails, expires or crashes, until the answer of a write is lost.           *)
THEOREM SessionsFollowThePlan ==
    ASSUME InOrder, ~Overlap, ~LoginsOverlap
    PROVE  Spec => []SessionsCurrent
<1>1. Init => SessionInv
  <2> SUFFICES ASSUME Init PROVE SessionInv
    OBVIOUS
  <2>1. /\ \A d \in Deliveries : handler[d].pc = "idle"
        /\ \A s \in Sessions : session[s].pc \in {"out", "in"} /\ session[s].plan = "free"
        /\ tenant.plan = "free"
    BY DEF Init, Idle, LoggedOut, FreeRow
  <2> QED
    BY <2>1, OrderInit DEF SessionInv
<1>2. SessionInv => SessionsCurrent
  BY DEF SessionInv, SessionsCurrent
<1> QED
  BY <1>1, <1>2, SessionStep, PTL DEF Spec

-----------------------------------------------------------------------------
(* The refinement.  The decisions that took effect are those of the events   *)
(* answered or handled; a handled one that was not answered is the latest,   *)
(* and the row shows it already, so that its retry changes nothing.          *)

Taken     == acked \cup handled
KeepAll   == MaxSubs + 1
Decisions == [n \in DOMAIN events |-> Decision(events[n])]
Holder    == IF tenant.plan = "builder" THEN tenant.sub ELSE NoSub

RowOK(row) == row.plan = "builder" <=> row.sub # NoSub

EntInv ==
    /\ AckInv /\ OrderInv /\ RowOK(tenant)
    /\ \A n \in handled \ acked :
          Decision(events[n]) = KeepAll \/ tenant.sub = Decision(events[n])

(* What an event makes of the row is what it decides. *)
LEMMA RowFollowsDecision ==
    ASSUME NEW row \in Rows, NEW e \in [kind : EventKinds, sub : Subs], RowOK(row)
    PROVE  /\ RowOK(handleWebhookEvent(row, e))
           /\ handleWebhookEvent(row, e).sub = IF Decision(e) = KeepAll THEN row.sub ELSE Decision(e)
<1>1. FreeRow.plan = "free" /\ FreeRow.sub = NoSub
  BY DEF FreeRow
<1>2. ScheduleCancel(row).plan = row.plan /\ ScheduleCancel(row).sub = row.sub
  BY DEF ScheduleCancel, Rows
<1>3. NotifyPaymentFailed(row).plan = row.plan /\ NotifyPaymentFailed(row).sub = row.sub
  BY DEF NotifyPaymentFailed, Rows
<1>4. e.kind \in EventKinds /\ e.sub \in Subs
  OBVIOUS
<1>5. ApplyPlan(row, e.sub).plan = "builder" /\ ApplyPlan(row, e.sub).sub = e.sub
  BY DEF ApplyPlan
<1>6. CASE e.kind \in {"checkout", "updated", "payment_succeeded"}
  <2>1. handleWebhookEvent(row, e) = ApplyPlan(row, e.sub) /\ Decision(e) = e.sub
    BY <1>6 DEF handleWebhookEvent, Decision
  <2>2. e.sub # NoSub /\ e.sub # KeepAll
    BY <1>4 DEF KeepAll
  <2> QED
    BY <1>5, <2>1, <2>2 DEF RowOK
<1>7. CASE e.kind = "deleted"
  <2>1. handleWebhookEvent(row, e) = FreeRow /\ Decision(e) = NoSub
    BY <1>7 DEF handleWebhookEvent, Decision, ClearPlan
  <2> QED
    BY <1>1, <2>1 DEF RowOK, KeepAll
<1>8. CASE e.kind \in {"cancel_scheduled", "payment_failed", "unpriced", "deferred"}
  <2>1. Decision(e) = KeepAll
    BY <1>8 DEF Decision, KeepAll
  <2>2. handleWebhookEvent(row, e) \in {row, ScheduleCancel(row), NotifyPaymentFailed(row)}
    BY <1>8 DEF handleWebhookEvent
  <2> QED
    BY <1>2, <1>3, <2>1, <2>2 DEF RowOK
<1> QED
  BY <1>4, <1>6, <1>7, <1>8

(* A step of a delivery leaves the row and the history alone, or does what  *)
(* the event says, or answers it.                                           *)
LEMMA EffectOfStep ==
    ASSUME TypeOK, NEW d \in Deliveries, Step(d) \/ Expire(d)
    PROVE  \/ UNCHANGED <<acked, handled, tenant>>
           \/ /\ handled' = handled \cup {handler[d].event} /\ UNCHANGED acked
              /\ tenant' = handleWebhookEvent(tenant, EventOf(d))
           \/ acked' = acked \cup {handler[d].event} /\ UNCHANGED <<handled, tenant>>
<1>1. UNCHANGED handled => \/ UNCHANGED acked
                           \/ acked' = acked \cup {handler[d].event}
  BY StepShape
<1>2. CASE Lookup(d) \/ claimWebhookEvent(d) \/ ClaimFails(d) \/ Finish(d) \/ releaseWebhookClaim(d)
  BY <1>1, <1>2 DEF Lookup, claimWebhookEvent, ClaimFails, Finish, releaseWebhookClaim
<1>3. CASE Work(d) \/ WorkFails(d)
  BY <1>3 DEF Work, WorkFails
<1>4. CASE UpdatePlan(d) \/ Expire(d)
  BY <1>4 DEF UpdatePlan, Expire, Goto
<1> QED
  BY <1>2, <1>3, <1>4 DEF Step

(* The delivery in progress is of the last event taken or of the next one.  *)
LEMMA NextTaken ==
    ASSUME OrderInv, NEW d \in Deliveries, Serving(d)
    PROVE  LET n == handler[d].event IN
           /\ n \in DOMAIN events /\ n \in Nat \ {0} /\ n \notin acked
           /\ handled \ acked \subseteq {n}
           /\ Taken = IF n \in handled THEN 1 .. n ELSE 1 .. n - 1
<1> DEFINE n == handler[d].event
<1>1. TypeOK
  BY DEF OrderInv
<1>2. n \in 1 .. Len(events) /\ DOMAIN events = 1 .. Len(events) /\ Len(events) \in Nat
  BY <1>1, LenProperties DEF TypeOK, Serving
<1>3. n \notin acked /\ 1 .. n - 1 \subseteq acked
  BY DEF OrderInv
<1>4. acked \subseteq 1 .. Len(events) /\ handled \subseteq 1 .. Len(events)
  BY <1>1, <1>2 DEF TypeOK
<1>5. \A m \in acked : m < n
  <2> SUFFICES ASSUME NEW m \in acked, ~(m < n) PROVE FALSE
    OBVIOUS
  <2>1. m \in Nat /\ m # n /\ 1 .. m - 1 \subseteq acked
    BY <1>3, <1>4 DEF OrderInv
  <2>2. n \in 1 .. m - 1
    BY <1>2, <2>1
  <2> QED
    BY <1>3, <2>1, <2>2
<1>6. \A m \in handled : m <= n
  <2> SUFFICES ASSUME NEW m \in handled, ~(m <= n) PROVE FALSE
    OBVIOUS
  <2>1. m \in Nat /\ 1 .. m - 1 \subseteq acked
    BY <1>4 DEF OrderInv
  <2>2. n \in 1 .. m - 1
    BY <1>2, <2>1
  <2> QED
    BY <1>3, <2>1, <2>2
<1> HIDE DEF n
<1>7. handled \ acked \subseteq {n}
  BY <1>2, <1>3, <1>4, <1>6
<1>8. Taken = IF n \in handled THEN 1 .. n ELSE 1 .. n - 1
  <2>1. n \in Nat \ {0} /\ Taken \subseteq Nat \ {0} /\ 1 .. n - 1 \subseteq Taken
    BY <1>2, <1>3, <1>4 DEF Taken
  <2>2. \A m \in Taken : m < n \/ (m = n /\ n \in handled)
    BY <1>2, <1>3, <1>4, <1>5, <1>6 DEF Taken
  <2>3. n \in handled => n \in Taken
    BY DEF Taken
  <2>4. CASE n \in handled
    <3>1. \A m \in 1 .. n : m \in 1 .. n - 1 \/ m = n
      BY <2>1
    <3>2. Taken \subseteq 1 .. n
      BY <2>1, <2>2
    <3>3. 1 .. n \subseteq Taken
      BY <2>1, <2>3, <2>4, <3>1
    <3> QED
      BY <2>4, <3>2, <3>3
  <2>5. CASE n \notin handled
    <3>1. Taken \subseteq 1 .. n - 1
      BY <2>1, <2>2, <2>5
    <3> QED
      BY <2>1, <2>5, <3>1
  <2> QED
    BY <2>4, <2>5
<1> QED
  BY <1>2, <1>3, <1>7, <1>8 DEF n

LEMMA EntStep ==
    ASSUME InOrder, ~Overlap, NoClaimLeft
    PROVE  EntInv /\ [Next]_vars => EntInv'
<1> SUFFICES ASSUME EntInv, [Next]_vars PROVE EntInv'
  OBVIOUS
<1>1. AckInv /\ AckInv' /\ OrderInv /\ OrderInv' /\ TypeOK
  BY AckStep, OrderStep DEF EntInv, OrderInv
<1>2. handled \subseteq DOMAIN events
  BY <1>1 DEF TypeOK
<1>3. CASE UNCHANGED <<tenant, acked, handled>> /\ \A n \in DOMAIN events : events'[n] = events[n]
  BY <1>1, <1>2, <1>3 DEF EntInv, RowOK, Decision
<1>4. ASSUME NEW x \in Subs, Emit(x) PROVE EntInv'
  BY <1>1, <1>3, <1>4, EmitShape DEF Emit
<1>5. ASSUME NEW d \in Deliveries, Step(d) \/ Expire(d) PROVE EntInv'
  <2> DEFINE n == handler[d].event
  <2>1. Serving(d) /\ UNCHANGED events
    BY <1>1, <1>5, StepShape
  <2>2. n \notin acked /\ handled \ acked \subseteq {n}
    BY <1>1, <2>1, NextTaken
  <2>3. CASE UNCHANGED <<acked, handled, tenant>>
    BY <1>3, <2>1, <2>3
  <2>4. CASE /\ handled' = handled \cup {n} /\ UNCHANGED acked
             /\ tenant' = handleWebhookEvent(tenant, EventOf(d))
    <3>1. tenant \in Rows /\ RowOK(tenant) /\ EventOf(d) \in [kind : EventKinds, sub : Subs]
      BY <1>1, <2>1, EventInLog DEF EntInv, TypeOK
    <3>2. RowOK(tenant') /\ (Decision(EventOf(d)) = KeepAll \/ tenant'.sub = Decision(EventOf(d)))
      BY <2>4, <3>1, RowFollowsDecision
    <3>3. handled' \ acked' \subseteq {n} /\ EventOf(d) = events'[n]
      BY <2>1, <2>2, <2>4 DEF EventOf
    <3>4. \A m \in handled' \ acked' : Decision(events'[m]) = KeepAll \/ tenant'.sub = Decision(events'[m])
      BY <3>2, <3>3
    <3> QED
      BY <1>1, <3>2, <3>4 DEF EntInv, RowOK, Decision, KeepAll
  <2>5. CASE acked' = acked \cup {n} /\ UNCHANGED <<handled, tenant>>
    BY <1>1, <2>1, <2>5 DEF EntInv, RowOK, Decision
  <2> QED
    BY <1>1, <1>5, <2>3, <2>4, <2>5, EffectOfStep
<1>6. ASSUME NEW d \in Deliveries, NEW n \in EventIds, Deliver(d, n) PROVE EntInv'
  BY <1>3, <1>6 DEF Deliver
<1>7. ASSUME NEW s \in Sessions, ReadPlan(s) \/ CreateSession(s) \/ DeleteSession(s) PROVE EntInv'
  BY <1>3, <1>7 DEF ReadPlan, CreateSession, DeleteSession
<1>8. ASSUME Crash PROVE EntInv'
  BY <1>3, <1>8 DEF Crash
<1>9. CASE UNCHANGED vars
  BY <1>3, <1>9 DEF vars
<1> QED
  BY <1>4, <1>5, <1>6, <1>7, <1>8, <1>9 DEF Next

LEMMA EntInit == Init => EntInv
<1> SUFFICES ASSUME Init PROVE EntInv
  OBVIOUS
<1>1. /\ TypeOK /\ acked = {} /\ claims = {} /\ handled = {} /\ tenant = FreeRow
      /\ \A d \in Deliveries : handler[d].pc = "idle"
  BY TypeInit DEF Init, Idle
<1>2. AckInv
  BY <1>1 DEF AckInv, OnePerEvent, Serving, AckedWasHandled
<1>3. RowOK(tenant)
  BY <1>1 DEF RowOK, FreeRow
<1> QED
  BY <1>1, <1>2, <1>3, OrderInit DEF EntInv

LEMMA DecisionType ==
    ASSUME NEW e, e.kind \in EventKinds, e.sub \in Subs
    PROVE  Decision(e) \in Subs \cup {NoSub, KeepAll}
  BY DEF Decision, KeepAll

LEMMA DecisionsOfLog ==
    ASSUME TypeOK
    PROVE  /\ Decisions \in Seq(Subs \cup {NoSub, KeepAll})
           /\ Len(Decisions) = Len(events) /\ Len(events) \in Nat
           /\ DOMAIN events = 1 .. Len(events) /\ DOMAIN Decisions = 1 .. Len(events)
<1> DEFINE S == Subs \cup {NoSub, KeepAll}
<1>1. Len(events) \in Nat /\ DOMAIN events = 1 .. Len(events)
  BY LenProperties DEF TypeOK
<1>2. \A n \in 1 .. Len(events) : Decision(events[n]) \in S
  <2> SUFFICES ASSUME NEW n \in 1 .. Len(events) PROVE Decision(events[n]) \in S
    OBVIOUS
  <2>1. events[n] \in [kind : EventKinds, sub : Subs]
    BY ElementOfSeq DEF TypeOK
  <2> QED
    BY <2>1, DecisionType
<1>3. Decisions \in [1 .. Len(events) -> S]
  BY <1>1, <1>2 DEF Decisions
<1> HIDE DEF S
<1>4. Decisions \in Seq(S)
  BY <1>1, <1>3, SeqDef
<1>5. Len(Decisions) \in Nat /\ DOMAIN Decisions = 1 .. Len(Decisions)
  BY <1>4, LenProperties
<1>6. Len(Decisions) = Len(events)
  BY <1>1, <1>3, <1>5
<1> QED
  BY <1>1, <1>4, <1>5, <1>6 DEF S

(* A move of Stripe is a decision. *)
LEMMA EmitDecides ==
    ASSUME TypeOK, TypeOK', NEW x \in Subs, Emit(x)
    PROVE  LET v == Decision(events'[Len(events) + 1]) IN
           v \in Subs \cup {NoSub, KeepAll} /\ Decisions' = Append(Decisions, v)
<1> DEFINE S == Subs \cup {NoSub, KeepAll}
           v == Decision(events'[Len(events) + 1])
<1>1. /\ Decisions \in Seq(S) /\ Len(Decisions) = Len(events) /\ Len(events) \in Nat
      /\ DOMAIN events = 1 .. Len(events)
  BY DecisionsOfLog
<1>2. /\ Len(events') = Len(events) + 1 /\ DOMAIN events' = 1 .. Len(events) + 1
      /\ \A n \in DOMAIN events : events'[n] = events[n]
  BY EmitShape
<1>3. \A n \in DOMAIN events' : Decision(events'[n]) \in S
  <2> SUFFICES ASSUME NEW n \in DOMAIN events' PROVE Decision(events'[n]) \in S
    OBVIOUS
  <2>1. events' \in Seq([kind : EventKinds, sub : Subs]) /\ n \in 1 .. Len(events')
    BY <1>2 DEF TypeOK
  <2>2. events'[n] \in [kind : EventKinds, sub : Subs]
    BY <2>1, ElementOfSeq
  <2> QED
    BY <2>2, DecisionType
<1>4. v \in S
  BY <1>1, <1>2, <1>3
<1> HIDE DEF S, v
<1>5. /\ Decisions' = [n \in 1 .. Len(events) + 1 |-> Decision(events'[n])]
      /\ Decisions' \in [1 .. Len(events) + 1 -> S]
  BY <1>2, <1>3 DEF Decisions, Decision
<1>6. Decisions' \in Seq(S) /\ Len(events) + 1 \in Nat
  BY <1>1, <1>5, SeqDef
<1>7. Len(Decisions') = Len(events) + 1
  BY <1>5, <1>6, LenProperties
<1>8. /\ Append(Decisions, v) \in Seq(S) /\ Len(Append(Decisions, v)) = Len(events) + 1
      /\ \A i \in 1 .. Len(events) : Append(Decisions, v)[i] = Decisions[i]
      /\ Append(Decisions, v)[Len(events) + 1] = v
  BY <1>1, <1>4, AppendProperties
<1>9. \A i \in 1 .. Len(events) : Decisions'[i] = Decisions[i]
  BY <1>1, <1>2, <1>5 DEF Decisions
<1>10. Decisions'[Len(events) + 1] = v
  BY <1>1, <1>5 DEF v
<1>11. \A i \in 1 .. Len(Decisions') : Decisions'[i] = Append(Decisions, v)[i]
  BY <1>1, <1>7, <1>8, <1>9, <1>10
<1>12. Decisions' = Append(Decisions, v)
  BY <1>6, <1>7, <1>8, <1>11, SeqEqual
<1> QED
  BY <1>4, <1>12 DEF S, v

(* A step of a delivery stutters, or the next decision takes effect. *)
LEMMA DeliveryTakesEffect ==
    ASSUME EntInv, AckInv', NEW d \in Deliveries, Step(d) \/ Expire(d)
    PROVE  \/ UNCHANGED <<Decisions, Cardinality(Taken), Holder>>
           \/ /\ Cardinality(Taken) < Len(Decisions)
              /\ Cardinality(Taken)' = Cardinality(Taken) + 1
              /\ Holder' = IF Decisions[Cardinality(Taken)'] = KeepAll THEN Holder
                           ELSE Decisions[Cardinality(Taken)']
              /\ UNCHANGED Decisions
<1> DEFINE n == handler[d].event
<1>1. TypeOK /\ OrderInv /\ RowOK(tenant) /\ Serving(d) /\ UNCHANGED events
  BY StepShape DEF EntInv, OrderInv
<1>2. /\ n \in DOMAIN events /\ n \in Nat \ {0} /\ n \notin acked
      /\ Taken = IF n \in handled THEN 1 .. n ELSE 1 .. n - 1
  BY <1>1, NextTaken
<1>3. /\ UNCHANGED Decisions /\ Decisions[n] = Decision(EventOf(d))
      /\ Len(Decisions) = Len(events) /\ n <= Len(Decisions) /\ Len(Decisions) \in Nat
  BY <1>1, <1>2, DecisionsOfLog DEF Decisions, EventOf
<1>4. /\ tenant \in Rows /\ EventOf(d) \in [kind : EventKinds, sub : Subs]
      /\ Holder = tenant.sub
  BY <1>1, EventInLog DEF TypeOK, Holder, RowOK
<1>5. Cardinality(1 .. n) = n /\ Cardinality(1 .. n - 1) = n - 1
  <2>1. \A b \in Nat : Cardinality(1 .. b) = b
    BY FS_Interval
  <2> HIDE DEF n
  <2> QED
    BY <1>2, <2>1
<1>6. CASE UNCHANGED <<acked, handled, tenant>>
  BY <1>3, <1>6 DEF Taken, Holder
<1>7. CASE /\ handled' = handled \cup {n} /\ UNCHANGED acked
           /\ tenant' = handleWebhookEvent(tenant, EventOf(d))
  <2>1. Taken' = 1 .. n
    BY <1>2, <1>7 DEF Taken
  <2>2. Holder' = IF Decisions[n] = KeepAll THEN Holder ELSE Decisions[n]
    BY <1>1, <1>3, <1>4, <1>7, RowFollowsDecision DEF Holder, RowOK
  <2>3. CASE n \in handled
    <3>1. Decisions[n] = KeepAll \/ tenant.sub = Decisions[n]
      BY <1>2, <1>3, <2>3 DEF EntInv, EventOf
    <3>2. Taken' = Taken
      BY <1>2, <2>1, <2>3
    <3>3. Holder' = Holder
      BY <1>4, <2>2, <3>1
    <3> QED
      BY <1>3, <3>2, <3>3
  <2>4. CASE n \notin handled
    <3>1. Cardinality(Taken) = n - 1 /\ Cardinality(Taken') = n
      BY <1>2, <1>5, <2>1, <2>4
    <3> QED
      BY <1>2, <1>3, <2>2, <3>1
  <2> QED
    BY <2>3, <2>4
<1>8. CASE acked' = acked \cup {n} /\ UNCHANGED <<handled, tenant>>
  <2>1. Taken' = 1 .. n
    BY <1>2, <1>8 DEF Taken
  <2>2. Holder' = Holder
    BY <1>8 DEF Holder
  <2>3. CASE n \in handled
    BY <1>2, <1>3, <2>1, <2>2, <2>3
  <2>4. CASE n \notin handled
    <3>1. events[n].kind = "payment_failed"
      BY <1>1, <1>8, <2>4 DEF AckInv, AckedWasHandled
    <3>2. Decisions[n] = KeepAll
      BY <1>3, <3>1 DEF EventOf, Decision, KeepAll
    <3>3. Cardinality(Taken) = n - 1 /\ Cardinality(Taken') = n
      BY <1>2, <1>5, <2>1, <2>4
    <3> QED
      BY <1>2, <1>3, <2>2, <3>2, <3>3
  <2> QED
    BY <2>3, <2>4
<1> QED
  BY <1>1, <1>6, <1>7, <1>8, EffectOfStep

(* Stripe decides, and every decision takes effect once and in order: with    *)
(* events in order and no claim left behind, the webhook with its claims,     *)
(* retries, timeouts and lost answers implements Entitlement.                 *)
THEOREM ImplementsEntitlementInOrder ==
    ASSUME InOrder, ~Overlap, NoClaimLeft
    PROVE  Spec => ImplementsEntitlement
<1>1. Init => Entitlement!Init
  <2> SUFFICES ASSUME Init PROVE Entitlement!Init
    OBVIOUS
  <2>1. events = <<>> /\ acked \cup handled = {} /\ tenant = FreeRow
    BY DEF Init
  <2>2. [n \in DOMAIN events |-> Decision(events[n])] = <<>>
    BY <2>1
  <2>3. Cardinality(acked \cup handled) = 0
    BY <2>1, FS_EmptySet
  <2> QED
    BY <2>1, <2>2, <2>3 DEF Entitlement!Init, FreeRow
<1>2. EntInv /\ EntInv' /\ [Next]_vars =>
          [Entitlement!Next]_<<Decisions, Cardinality(Taken), Holder>>
  <2> SUFFICES ASSUME EntInv, EntInv', [Next]_vars
               PROVE  Entitlement!Next \/ UNCHANGED <<Decisions, Cardinality(Taken), Holder>>
    OBVIOUS
  <2>1. TypeOK /\ TypeOK' /\ AckInv'
    BY DEF EntInv, OrderInv
  <2>2. CASE UNCHANGED <<events, acked, handled, tenant>>
    BY <2>2 DEF Decisions, Taken, Holder
  <2>3. ASSUME NEW x \in Subs, Emit(x) PROVE Entitlement!Decide
    <3>1. PICK v \in Subs \cup {NoSub, KeepAll} : Decisions' = Append(Decisions, v)
      BY <2>1, <2>3, EmitDecides, Zenon
    <3>2. UNCHANGED <<acked, handled, tenant>>
      BY <2>3 DEF Emit
    <3> QED
      BY <3>1, <3>2 DEF Entitlement!Decide, Decisions, KeepAll
  <2>4. ASSUME NEW d \in Deliveries, Step(d) \/ Expire(d)
        PROVE  Entitlement!TakeEffect \/ UNCHANGED <<Decisions, Cardinality(Taken), Holder>>
    BY <2>1, <2>4, DeliveryTakesEffect
       DEF Entitlement!TakeEffect, Decisions, Taken, Holder, KeepAll
  <2>5. ASSUME NEW d \in Deliveries, NEW n \in EventIds, Deliver(d, n)
        PROVE  UNCHANGED <<events, acked, handled, tenant>>
    BY <2>5 DEF Deliver
  <2>6. ASSUME NEW s \in Sessions, ReadPlan(s) \/ CreateSession(s) \/ DeleteSession(s)
        PROVE  UNCHANGED <<events, acked, handled, tenant>>
    BY <2>6 DEF ReadPlan, CreateSession, DeleteSession
  <2>7. Crash => UNCHANGED <<events, acked, handled, tenant>>
    BY DEF Crash
  <2>8. UNCHANGED vars => UNCHANGED <<events, acked, handled, tenant>>
    BY DEF vars
  <2> HIDE DEF Subs, EventIds
  <2> QED
    BY <2>2, <2>3, <2>4, <2>5, <2>6, <2>7, <2>8 DEF Next, Entitlement!Next
<1>3. EntInv /\ EntInv' /\ [Next]_vars =>
          [Entitlement!Next]_<<[n \in DOMAIN events |-> Decision(events[n])],
                               Cardinality(acked \cup handled),
                               IF tenant.plan = "builder" THEN tenant.sub ELSE NoSub>>
  BY <1>2 DEF Decisions, Taken, Holder
<1> QED
  BY <1>1, <1>3, EntInit, EntStep, PTL DEF Spec, ImplementsEntitlement, Entitlement!Spec

-----------------------------------------------------------------------------
(* One subscription at a time: the last decision tells who Stripe has.       *)

(* The first n decisions of dec leave the plan to v. *)
After(dec, n, v) ==
    \/ v = NoSub /\ \A m \in 1 .. n : dec[m] = KeepAll
    \/ /\ v # KeepAll
       /\ \E m \in 1 .. n : dec[m] = v /\ \A k \in m + 1 .. n : dec[k] = KeepAll

LEMMA AfterUnique ==
    ASSUME NEW dec, NEW n \in Nat, NEW u, NEW v, After(dec, n, u), After(dec, n, v)
    PROVE  u = v
<1>1. CASE \A m \in 1 .. n : dec[m] = KeepAll
  BY <1>1 DEF After
<1>2. CASE \E m \in 1 .. n : dec[m] # KeepAll
  <2>1. PICK a \in 1 .. n : dec[a] = u /\ u # KeepAll /\ \A k \in a + 1 .. n : dec[k] = KeepAll
    BY <1>2 DEF After
  <2>2. PICK b \in 1 .. n : dec[b] = v /\ v # KeepAll /\ \A k \in b + 1 .. n : dec[k] = KeepAll
    BY <1>2 DEF After
  <2>3. ~(a < b) /\ ~(b < a)
    BY <2>1, <2>2
  <2> QED
    BY <2>1, <2>2, <2>3
<1> QED
  BY <1>1, <1>2

LEMMA AfterNext ==
    ASSUME NEW dec, NEW n \in Nat \ {0}, NEW v, After(dec, n - 1, v)
    PROVE  After(dec, n, IF dec[n] = KeepAll THEN v ELSE dec[n])
<1>1. CASE dec[n] = KeepAll
  <2>1. \A m \in 1 .. n : m \in 1 .. n - 1 \/ m = n
    OBVIOUS
  <2>2. CASE v = NoSub /\ \A m \in 1 .. n - 1 : dec[m] = KeepAll
    BY <1>1, <2>1, <2>2 DEF After
  <2>3. CASE /\ v # KeepAll
             /\ \E m \in 1 .. n - 1 : dec[m] = v /\ \A k \in m + 1 .. n - 1 : dec[k] = KeepAll
    <3>1. PICK m \in 1 .. n - 1 : dec[m] = v /\ \A k \in m + 1 .. n - 1 : dec[k] = KeepAll
      BY <2>3
    <3>2. m \in 1 .. n /\ \A k \in m + 1 .. n : dec[k] = KeepAll
      BY <1>1, <3>1
    <3> QED
      BY <1>1, <2>3, <3>1, <3>2 DEF After
  <2> QED
    BY <2>2, <2>3 DEF After
<1>2. CASE dec[n] # KeepAll
  <2>1. n \in 1 .. n /\ \A k \in n + 1 .. n : dec[k] = KeepAll
    OBVIOUS
  <2> QED
    BY <1>2, <2>1 DEF After
<1> QED
  BY <1>1, <1>2

LEMMA AfterAppend ==
    ASSUME NEW S, NEW dec \in Seq(S), NEW w \in S, NEW n \in 0 .. Len(dec), NEW v
    PROVE  After(Append(dec, w), n, v) <=> After(dec, n, v)
<1>1. Len(dec) \in Nat /\ \A m \in 1 .. n : Append(dec, w)[m] = dec[m]
  BY AppendProperties, LenProperties
<1>2. n \in Nat /\ \A m \in 1 .. n : \A k \in m + 1 .. n : k \in 1 .. n
  BY <1>1
<1>3. \A m \in 1 .. n : (\A k \in m + 1 .. n : Append(dec, w)[k] = KeepAll)
                            <=> \A k \in m + 1 .. n : dec[k] = KeepAll
  BY <1>1, <1>2
<1> QED
  BY <1>1, <1>3 DEF After

(* The log, which only Stripe writes: an event that is not a checkout is about *)
(* the subscription that is alive.                                           *)
LogInv ==
    /\ \A n \in DOMAIN events :
          events[n].kind # "checkout" => After(Decisions, n - 1, events[n].sub)
    /\ \A x \in Subs : Live(x) <=> After(Decisions, Len(events), x)

TenantInv ==
    /\ EntInv /\ LogInv
    /\ After(Decisions, Cardinality(Taken), Holder)
    /\ NoticesNeedSubscription

LEMMA NobodyLive ==
    ASSUME MaxLive = 1, TypeOK, Cardinality({y \in Subs : Live(y)}) < MaxLive
    PROVE  \A y \in Subs : ~Live(y)
<1> DEFINE L == {y \in Subs : Live(y)}
<1>1. IsFiniteSet(Subs)
  BY FS_Interval
<1>2. L \in SUBSET Subs
  OBVIOUS
<1> HIDE DEF L
<1>3. IsFiniteSet(L) /\ Cardinality(L) \in Nat
  BY <1>1, <1>2, FS_Subset, FS_CardinalityType
<1>4. Cardinality(L) = 0
  BY <1>3 DEF L
<1>5. L = {}
  BY <1>3, <1>4, FS_EmptySet
<1> QED
  BY <1>5 DEF L

LEMMA LogStep ==
    ASSUME MaxLive = 1, TypeOK, TypeOK', LogInv, NEW x \in Subs, Emit(x)
    PROVE  LogInv'
<1> DEFINE S == Subs \cup {NoSub, KeepAll}
           l == Len(events)
           e == events'[l + 1]
           w == Decision(e)
<1>1. /\ DOMAIN events = 1 .. l /\ DOMAIN events' = 1 .. l + 1 /\ l \in Nat /\ Len(events') = l + 1
      /\ \A n \in 1 .. l : events'[n] = events[n]
  BY EmitShape, DecisionsOfLog
<1>2. w \in S /\ Decisions' = Append(Decisions, w)
  BY EmitDecides
<1>3. Decisions \in Seq(S) /\ Len(Decisions) = l
  BY DecisionsOfLog
<1>4. PICK m \in Moves : /\ m[1] = subs[x] /\ subs' = [subs EXCEPT ![x] = m[3]]
                         /\ e = [kind |-> m[2], sub |-> x]
                         /\ m[2] = "checkout" => Cardinality({y \in Subs : Live(y)}) < MaxLive
  BY EmitShape
<1>5. /\ e.sub = x /\ e.kind = m[2]
      /\ \A y \in Subs : subs'[y] = IF y = x THEN m[3] ELSE subs[y]
  BY <1>4 DEF TypeOK
<1>6. /\ m[2] # "checkout" => Live(x)
      /\ m[2] \in {"checkout", "updated", "payment_succeeded"} => m[3] = "active"
      /\ m[2] = "deleted" => m[3] = "ended"
      /\ m[2] \in {"unpriced", "payment_failed", "cancel_scheduled", "deferred"} =>
             m[3] \in {"active", "cancelling"}
      /\ m[2] \in EventKinds
  BY <1>4 DEF Moves, Live
<1>7. \A y \in Subs : Live(y)' <=> IF y = x THEN m[3] \in {"active", "cancelling"} ELSE Live(y)
  BY <1>5 DEF Live
<1> HIDE DEF S, e, w, l
<1>8. \A v : \A n \in 0 .. l : After(Decisions', n, v) <=> After(Decisions, n, v)
  BY <1>2, <1>3, AfterAppend
<1>9. Decisions'[l + 1] = w
  BY <1>2, <1>3, AppendProperties
<1>10. \A y \in Subs : Live(y) <=> After(Decisions, l, y)
  BY DEF LogInv, l
<1>11. \A y \in Subs : After(Decisions', l, y) <=> Live(y)
  BY <1>1, <1>8, <1>10
<1>12. \A n \in 1 .. l + 1 :
          events'[n].kind # "checkout" => After(Decisions', n - 1, events'[n].sub)
  <2>1. ASSUME NEW n \in 1 .. l, events'[n].kind # "checkout"
        PROVE  After(Decisions', n - 1, events'[n].sub)
    <3>1. events[n].kind # "checkout" /\ events'[n].sub = events[n].sub /\ n - 1 \in 0 .. l
      BY <1>1, <2>1
    <3> QED
      BY <1>1, <1>8, <3>1 DEF LogInv
  <2>2. ASSUME e.kind # "checkout" PROVE After(Decisions', l, e.sub)
    BY <1>5, <1>6, <1>11, <2>2
  <2>3. \A n \in 1 .. l + 1 : n \in 1 .. l \/ (n = l + 1 /\ n - 1 = l)
    BY <1>1
  <2> QED
    BY <2>1, <2>2, <2>3 DEF e
<1>13. \A u, v : After(Decisions', l + 1, u) /\ After(Decisions', l + 1, v) => u = v
  BY <1>1, AfterUnique
<1>14. \A v : After(Decisions', l, v) => After(Decisions', l + 1, IF w = KeepAll THEN v ELSE w)
  <2> SUFFICES ASSUME NEW v, After(Decisions', l, v)
               PROVE  After(Decisions', l + 1, IF w = KeepAll THEN v ELSE w)
    OBVIOUS
  <2>1. l + 1 \in Nat \ {0} /\ (l + 1) - 1 = l
    BY <1>1
  <2> QED
    BY <1>9, <2>1, AfterNext
<1>15. \A u, v : After(Decisions', l, u) /\ After(Decisions', l, v) => u = v
  BY <1>1, AfterUnique
<1>16. w # KeepAll => After(Decisions', l + 1, w)
  <2>1. l + 1 \in 1 .. l + 1 /\ \A k \in (l + 1) + 1 .. l + 1 : FALSE
    BY <1>1
  <2> QED
    BY <1>9, <2>1 DEF After
<1>17. \A y \in Subs : Live(y)' <=> After(Decisions', l + 1, y)
  <2>1. CASE m[2] \in {"checkout", "updated", "payment_succeeded"}
    <3>1. w = x /\ w # KeepAll
      BY <1>5, <2>1 DEF Decision, w, KeepAll
    <3>2. \A y \in Subs \ {x} : ~Live(y)
      <4>1. CASE m[2] = "checkout"
        BY <1>4, <4>1, NobodyLive
      <4>2. CASE m[2] # "checkout"
        BY <1>6, <1>11, <1>15, <4>2
      <4> QED
        BY <4>1, <4>2
    <3>3. \A y \in Subs : Live(y)' <=> y = x
      BY <1>6, <1>7, <2>1, <3>2
    <3> QED
      BY <1>13, <1>16, <3>1, <3>3
  <2>2. CASE m[2] = "deleted"
    <3>1. w = NoSub /\ w # KeepAll
      BY <1>5, <2>2 DEF Decision, w, KeepAll
    <3>2. \A y \in Subs \ {x} : ~Live(y)
      BY <1>6, <1>11, <1>15, <2>2
    <3>3. \A y \in Subs : ~Live(y)'
      BY <1>6, <1>7, <2>2, <3>2
    <3>4. NoSub \notin Subs
      OBVIOUS
    <3> QED
      BY <1>13, <1>16, <3>1, <3>3, <3>4
  <2>3. CASE m[2] \in {"unpriced", "payment_failed", "cancel_scheduled", "deferred"}
    <3>1. w = KeepAll
      BY <1>5, <2>3 DEF Decision, w, KeepAll
    <3>2. \A y \in Subs : Live(y)' <=> y = x
      BY <1>6, <1>7, <1>11, <1>15, <2>3
    <3>3. After(Decisions', l + 1, x)
      BY <1>6, <1>11, <1>14, <2>3, <3>1
    <3> QED
      BY <1>13, <3>2, <3>3
  <2> QED
    BY <1>6, <2>1, <2>2, <2>3
<1> QED
  BY <1>1, <1>12, <1>17 DEF LogInv, l

NoticeOK(row) == row.sub = NoSub => ~row.cancelAt /\ ~row.paymentFailed

(* A notice is set only about the subscription the row has. *)
LEMMA NoticesOfRow ==
    ASSUME NEW row \in Rows, NEW e \in [kind : EventKinds, sub : Subs], NoticeOK(row),
           e.kind \in {"payment_failed", "cancel_scheduled"} => row.sub = e.sub
    PROVE  NoticeOK(handleWebhookEvent(row, e))
<1>1. e.kind \in EventKinds /\ e.sub \in Subs /\ e.sub # NoSub
  OBVIOUS
<1>2. NoticeOK(FreeRow) /\ NoticeOK(ApplyPlan(row, e.sub))
  BY <1>1 DEF FreeRow, ApplyPlan, NoticeOK
<1>3. ScheduleCancel(row).sub = row.sub /\ NotifyPaymentFailed(row).sub = row.sub
  BY DEF ScheduleCancel, NotifyPaymentFailed, Rows
<1>4. CASE e.kind \in {"checkout", "updated", "payment_succeeded", "deleted", "unpriced", "deferred"}
  BY <1>2, <1>4 DEF handleWebhookEvent, ClearPlan
<1>5. CASE e.kind \in {"payment_failed", "cancel_scheduled"}
  <2>1. handleWebhookEvent(row, e) \in {ScheduleCancel(row), NotifyPaymentFailed(row)}
    BY <1>5 DEF handleWebhookEvent
  <2> QED
    BY <1>1, <1>3, <1>5, <2>1 DEF NoticeOK
<1> QED
  BY <1>1, <1>4, <1>5

LEMMA TakenBound ==
    ASSUME TypeOK
    PROVE  Cardinality(Taken) \in 0 .. Len(events) /\ Len(events) \in Nat
<1>1. Len(events) \in Nat /\ DOMAIN events = 1 .. Len(events)
  BY DecisionsOfLog
<1>2. Taken \in SUBSET (1 .. Len(events))
  BY <1>1 DEF Taken, TypeOK
<1>3. IsFiniteSet(1 .. Len(events)) /\ Cardinality(1 .. Len(events)) = Len(events)
  BY <1>1, FS_Interval
<1>4. IsFiniteSet(Taken) /\ Cardinality(Taken) <= Len(events)
  BY <1>2, <1>3, FS_Subset
<1>5. Cardinality(Taken) \in Nat
  BY <1>4, FS_CardinalityType
<1> QED
  BY <1>1, <1>4, <1>5

(* An event that sets a notice is about the subscription of the row. *)
LEMMA NoticeIsForHolder ==
    ASSUME TenantInv, NEW d \in Deliveries, Serving(d),
           EventOf(d).kind \in {"payment_failed", "cancel_scheduled"}
    PROVE  tenant.sub = EventOf(d).sub
<1> DEFINE n == handler[d].event
<1>1. TypeOK /\ OrderInv /\ RowOK(tenant) /\ LogInv
  BY DEF TenantInv, EntInv, OrderInv
<1>2. /\ n \in DOMAIN events /\ n \in Nat \ {0}
      /\ Taken = IF n \in handled THEN 1 .. n ELSE 1 .. n - 1
  BY <1>1, NextTaken
<1>3. After(Decisions, n - 1, EventOf(d).sub)
  BY <1>1, <1>2 DEF LogInv, EventOf
<1>4. Decisions[n] = KeepAll
  BY <1>2 DEF Decisions, Decision, KeepAll, EventOf
<1>5. Holder = tenant.sub
  BY <1>1 DEF Holder, RowOK
<1>6. After(Decisions, Cardinality(Taken), tenant.sub)
  BY <1>5 DEF TenantInv
<1> HIDE DEF n
<1>7. Cardinality(Taken) = IF n \in handled THEN n ELSE n - 1
  <2>1. \A b \in Nat : Cardinality(1 .. b) = b
    BY FS_Interval
  <2> QED
    BY <1>2, <2>1
<1>8. CASE n \in handled
  <2>1. After(Decisions, n, EventOf(d).sub)
    BY <1>2, <1>3, <1>4, AfterNext
  <2>2. After(Decisions, n, tenant.sub) /\ n \in Nat
    BY <1>2, <1>6, <1>7, <1>8
  <2> QED
    BY <2>1, <2>2, AfterUnique
<1>9. CASE n \notin handled
  <2>1. After(Decisions, n - 1, tenant.sub) /\ n - 1 \in Nat
    BY <1>2, <1>6, <1>7, <1>9
  <2> QED
    BY <1>3, <2>1, AfterUnique
<1> QED
  BY <1>8, <1>9

LEMMA TenantStep ==
    ASSUME InOrder, ~Overlap, NoClaimLeft, MaxLive = 1
    PROVE  TenantInv /\ [Next]_vars => TenantInv'
<1> SUFFICES ASSUME TenantInv, [Next]_vars PROVE TenantInv'
  OBVIOUS
<1>1. EntInv /\ EntInv' /\ TypeOK /\ TypeOK' /\ AckInv' /\ LogInv
  BY EntStep DEF TenantInv, EntInv, OrderInv
<1>2. ASSUME UNCHANGED <<subs, events>> PROVE LogInv'
  <2>1. UNCHANGED Decisions
    BY <1>2 DEF Decisions
  <2> QED
    BY <1>1, <1>2, <2>1 DEF LogInv, Live
<1>3. CASE UNCHANGED <<subs, events, acked, handled, tenant>>
  <2>1. UNCHANGED <<Decisions, Cardinality(Taken), Holder>>
    BY <1>3 DEF Decisions, Taken, Holder
  <2>2. After(Decisions, Cardinality(Taken), Holder) /\ NoticesNeedSubscription
    BY DEF TenantInv
  <2>3. NoticesNeedSubscription'
    BY <1>3, <2>2 DEF NoticesNeedSubscription
  <2> QED
    BY <1>1, <1>2, <1>3, <2>1, <2>2, <2>3 DEF TenantInv
<1>4. ASSUME NEW x \in Subs, Emit(x) PROVE TenantInv'
  <2>1. UNCHANGED <<acked, handled, tenant>>
    BY <1>4 DEF Emit
  <2>2. /\ Decisions \in Seq(Subs \cup {NoSub, KeepAll}) /\ Len(Decisions) = Len(events)
        /\ Cardinality(Taken) \in 0 .. Len(events)
    BY <1>1, DecisionsOfLog, TakenBound
  <2>3. PICK w \in Subs \cup {NoSub, KeepAll} : Decisions' = Append(Decisions, w)
    BY <1>1, <1>4, EmitDecides, Zenon
  <2>4. After(Decisions, Cardinality(Taken), Holder) /\ NoticesNeedSubscription
    BY DEF TenantInv
  <2>5. After(Decisions', Cardinality(Taken), Holder)
    BY <2>2, <2>3, <2>4, AfterAppend
  <2>6. UNCHANGED <<Cardinality(Taken), Holder>> /\ NoticesNeedSubscription'
    BY <2>1, <2>4 DEF Taken, Holder, NoticesNeedSubscription
  <2>7. LogInv'
    BY <1>1, <1>4, LogStep
  <2> QED
    BY <1>1, <2>5, <2>6, <2>7 DEF TenantInv
<1>5. ASSUME NEW d \in Deliveries, Step(d) \/ Expire(d) PROVE TenantInv'
  <2>1. Serving(d) /\ UNCHANGED <<subs, events>> /\ LogInv'
    BY <1>1, <1>2, <1>5, StepShape
  <2>2. After(Decisions, Cardinality(Taken), Holder) /\ NoticeOK(tenant)
    BY DEF TenantInv, NoticesNeedSubscription, NoticeOK
  <2>3. After(Decisions', Cardinality(Taken)', Holder')
    <3>1. CASE UNCHANGED <<Decisions, Cardinality(Taken), Holder>>
      BY <2>2, <3>1
    <3>2. CASE /\ Cardinality(Taken)' = Cardinality(Taken) + 1
               /\ Holder' = IF Decisions[Cardinality(Taken)'] = KeepAll THEN Holder
                            ELSE Decisions[Cardinality(Taken)']
               /\ UNCHANGED Decisions
      <4> DEFINE n == Cardinality(Taken)'
      <4>1. n \in Nat \ {0} /\ n - 1 = Cardinality(Taken)
        BY <1>1, <3>2, TakenBound
      <4> HIDE DEF n
      <4>2. After(Decisions, n, IF Decisions[n] = KeepAll THEN Holder ELSE Decisions[n])
        BY <2>2, <4>1, AfterNext
      <4> QED
        BY <3>2, <4>2 DEF n
    <3> QED
      BY <1>1, <1>5, <3>1, <3>2, DeliveryTakesEffect
  <2>4. NoticeOK(tenant')
    <3>1. CASE UNCHANGED tenant
      BY <2>2, <3>1
    <3>2. CASE tenant' = handleWebhookEvent(tenant, EventOf(d))
      <4>1. tenant \in Rows /\ EventOf(d) \in [kind : EventKinds, sub : Subs]
        BY <1>1, <2>1, EventInLog DEF TypeOK
      <4> QED
        BY <2>1, <2>2, <3>2, <4>1, NoticeIsForHolder, NoticesOfRow
    <3> QED
      BY <1>1, <1>5, <3>1, <3>2, EffectOfStep
  <2>5. NoticesNeedSubscription'
    BY <2>4 DEF NoticeOK, NoticesNeedSubscription
  <2> QED
    BY <1>1, <2>1, <2>3, <2>5 DEF TenantInv
<1>6. ASSUME NEW d \in Deliveries, NEW n \in EventIds, Deliver(d, n) PROVE TenantInv'
  BY <1>3, <1>6 DEF Deliver
<1>7. ASSUME NEW s \in Sessions, ReadPlan(s) \/ CreateSession(s) \/ DeleteSession(s) PROVE TenantInv'
  BY <1>3, <1>7 DEF ReadPlan, CreateSession, DeleteSession
<1>8. ASSUME Crash PROVE TenantInv'
  BY <1>3, <1>8 DEF Crash
<1>9. CASE UNCHANGED vars
  BY <1>3, <1>9 DEF vars
<1> QED
  BY <1>4, <1>5, <1>6, <1>7, <1>8, <1>9 DEF Next

LEMMA TenantInit == Init => TenantInv
<1> SUFFICES ASSUME Init PROVE TenantInv
  OBVIOUS
<1>1. events = <<>> /\ tenant = FreeRow /\ Taken = {} /\ \A x \in Subs : ~Live(x)
  BY DEF Init, Taken, Live
<1>2. Len(events) = 0 /\ DOMAIN events = {} /\ Cardinality(Taken) = 0
  BY <1>1, FS_EmptySet
<1>3. Holder = NoSub /\ NoticesNeedSubscription
  BY <1>1 DEF Holder, FreeRow, NoticesNeedSubscription
<1>4. \A v : After(Decisions, 0, v) <=> v = NoSub
  BY DEF After
<1>5. LogInv
  BY <1>1, <1>2, <1>4 DEF LogInv
<1> QED
  BY <1>2, <1>3, <1>4, <1>5, EntInit DEF TenantInv

(* With one subscription at a time, delivered in order, no notice of a       *)
(* cancellation or of a failed payment is shown to a tenant without one.     *)
THEOREM NoticesHaveSubscription ==
    ASSUME InOrder, ~Overlap, NoClaimLeft, MaxLive = 1
    PROVE  Spec => []NoticesNeedSubscription
<1>1. TenantInv => NoticesNeedSubscription
  BY DEF TenantInv
<1> QED
  BY <1>1, TenantInit, TenantStep, PTL DEF Spec

(* handler.go:99: once every event is answered, the tenant has the plan and  *)
(* a subscription iff Stripe has a live one.                                 *)
THEOREM StatusIsStripes ==
    ASSUME InOrder, ~Overlap, NoClaimLeft, MaxLive = 1
    PROVE  Spec => []StatusFollowsStripe
<1>1. TenantInv => StatusFollowsStripe
  <2> SUFFICES ASSUME TenantInv, Quiet PROVE StatusFollowsStripe
    BY DEF StatusFollowsStripe
  <2>1. TypeOK /\ RowOK(tenant) /\ LogInv
    BY DEF TenantInv, EntInv, OrderInv
  <2>2. Len(events) \in Nat /\ Cardinality(Taken) = Len(events)
    <3>1. Len(events) \in Nat /\ DOMAIN events = 1 .. Len(events)
      BY <2>1, DecisionsOfLog
    <3>2. Taken = 1 .. Len(events)
      BY <2>1, <3>1 DEF Taken, Quiet, TypeOK
    <3> QED
      BY <3>1, <3>2, FS_Interval
  <2>3. After(Decisions, Len(events), tenant.sub)
    <3>1. Holder = tenant.sub
      BY <2>1 DEF Holder, RowOK
    <3> QED
      BY <2>2, <3>1 DEF TenantInv
  <2>4. tenant.sub \in Subs \cup {NoSub}
    BY <2>1 DEF TypeOK, Rows
  <2>5. ASSUME tenant.sub # NoSub PROVE \E x \in Subs : Live(x)
    BY <2>1, <2>3, <2>4, <2>5 DEF LogInv
  <2>6. ASSUME NEW x \in Subs, Live(x) PROVE tenant.sub # NoSub
    <3>1. After(Decisions, Len(events), x)
      BY <2>1, <2>6 DEF LogInv
    <3>2. tenant.sub = x
      BY <2>2, <2>3, <3>1, AfterUnique
    <3> QED
      BY <3>2
  <2> QED
    BY <2>1, <2>5, <2>6 DEF StatusFollowsStripe, RowOK
<1> QED
  BY <1>1, TenantInit, TenantStep, PTL DEF Spec
=============================================================================
