------------------------ MODULE StripeWebhook_proofs ------------------------
(* Proofs about StripeWebhook, for any deliveries, sessions and bounds. *)
EXTENDS StripeWebhook, TLAPS, SequenceTheorems

USE WebhookAssumption
USE DEF NoSub, Subs, EventIds, Plans, EventKinds, Phases

-----------------------------------------------------------------------------
(* Records: what a handler assigns, what an event makes of the row. *)

LEMMA HandlerUpdates ==
    ASSUME NEW h \in Handlers, NEW p \in Phases, NEW b \in BOOLEAN,
           NEW plan \in Plans \cup {"none"}
    PROVE  /\ [h EXCEPT !.pc = p] \in Handlers
           /\ [h EXCEPT !.pc = p, !.push = plan] \in Handlers
           /\ [h EXCEPT !.pc = p, !.err = b] \in Handlers
           /\ [h EXCEPT !.expired = b] \in Handlers
<1>1. [h EXCEPT !.pc = p] \in Handlers
  BY DEF Handlers
<1>2. [h EXCEPT !.pc = p, !.push = plan] \in Handlers
  BY DEF Handlers
<1>3. [h EXCEPT !.pc = p, !.err = b] \in Handlers
  BY DEF Handlers
<1>4. [h EXCEPT !.expired = b] \in Handlers
  BY DEF Handlers
<1> QED
  BY <1>1, <1>2, <1>3, <1>4

LEMMA RowUpdates ==
    ASSUME NEW row \in Rows, NEW e \in [kind : EventKinds, sub : Subs]
    PROVE  handleWebhookEvent(row, e) \in Rows /\ PushOf(row, e) \in Plans \cup {"none"}
<1>1. FreeRow \in Rows /\ ApplyPlan(row, e.sub) \in Rows
  BY DEF FreeRow, ApplyPlan, Rows
<1>2. ScheduleCancel(row) \in Rows
  BY DEF ScheduleCancel, Rows
<1>3. NotifyPaymentFailed(row) \in Rows
  BY DEF NotifyPaymentFailed, Rows
<1>4. e.kind \in EventKinds
  OBVIOUS
<1>5. handleWebhookEvent(row, e) \in Rows
  BY <1>1, <1>2, <1>3, <1>4 DEF handleWebhookEvent, ClearPlan
<1>6. PushOf(row, e) \in Plans \cup {"none"}
  BY DEF PushOf
<1> QED
  BY <1>5, <1>6

-----------------------------------------------------------------------------
(* Type correctness of every step. *)

HandlersOK == \A c \in Deliveries :
    /\ handler[c].pc # "idle" => handler[c].event \in DOMAIN events
    /\ handler[c].pc = "push" => handler[c].push \in Plans

LEMMA FaultCount == ASSUME faults \in FaultLog, NEW kind, Fault(kind) PROVE faults' \in FaultLog
  BY DEF Fault, FaultLog

(* The conjuncts of TypeOK about the variables a delivery changes. *)
LEMMA HandlerType ==
    ASSUME TypeOK, NEW d \in Deliveries, NEW h \in Handlers,
           handler' = [handler EXCEPT ![d] = h],
           h.event = handler[d].event \/ h.pc = "idle",
           h.pc = "push" => h.push \in Plans,
           handler[d].pc # "idle", UNCHANGED events
    PROVE  /\ handler' \in [Deliveries -> Handlers]
           /\ HandlersOK'
  BY DEF TypeOK, HandlersOK

LEMMA ReplyType ==
    ASSUME TypeOK, NEW d \in Deliveries, NEW ok \in BOOLEAN, Reply(d, ok),
           handler[d].pc # "idle", UNCHANGED events
    PROVE  /\ handler' \in [Deliveries -> Handlers]
           /\ HandlersOK'
           /\ acked' \in SUBSET DOMAIN events'
<1>1. Idle \in Handlers /\ Idle.pc = "idle"
  BY DEF Idle, Handlers
<1>2. handler[d].event \in DOMAIN events
  BY DEF TypeOK
<1>3. acked' \in SUBSET DOMAIN events'
  BY <1>2 DEF TypeOK, Reply
<1> QED
  BY <1>1, <1>3, HandlerType DEF Reply

LEMMA GotoType ==
    ASSUME TypeOK, NEW d \in Deliveries, NEW p \in Phases \ {"push"}, Goto(d, p),
           handler[d].pc # "idle", UNCHANGED events
    PROVE  /\ handler' \in [Deliveries -> Handlers]
           /\ HandlersOK'
           /\ acked' \in SUBSET DOMAIN events'
<1>1. handler[d] \in Handlers
  BY DEF TypeOK
<1>2. [handler[d] EXCEPT !.pc = p] \in Handlers
  BY <1>1, HandlerUpdates
<1>3. /\ [handler[d] EXCEPT !.pc = p].event = handler[d].event
      /\ [handler[d] EXCEPT !.pc = p].pc # "push"
  BY <1>1 DEF Handlers
<1>4. handler' = [handler EXCEPT ![d] = [handler[d] EXCEPT !.pc = p]] /\ UNCHANGED acked
  BY DEF Goto
<1> QED
  BY <1>2, <1>3, <1>4, HandlerType DEF TypeOK, HandlersOK

LEMMA TypeInit == Init => TypeOK
<1> SUFFICES ASSUME Init PROVE TypeOK
  OBVIOUS
<1>1. Idle \in Handlers /\ Idle.pc = "idle" /\ FreeRow \in Rows
  BY DEF Idle, Handlers, FreeRow, Rows
<1>2. LoggedOut \in Browsers /\ [pc |-> "in", plan |-> "free"] \in Browsers
  BY DEF LoggedOut, Browsers
<1>3. events \in Seq([kind : EventKinds, sub : Subs]) /\ Len(events) <= MaxEvents
  BY DEF Init
<1> QED
  BY <1>1, <1>2, <1>3 DEF Init, TypeOK, FaultLog

LEMMA TypeStep == TypeOK /\ [Next]_vars => TypeOK'
<1> SUFFICES ASSUME TypeOK, [Next]_vars PROVE TypeOK'
  OBVIOUS
<1>1. CASE UNCHANGED vars
  BY <1>1 DEF vars, TypeOK
<1>2. ASSUME NEW x \in Subs, Emit(x) PROVE TypeOK'
  <2>1. PICK m \in Moves : /\ subs' = [subs EXCEPT ![x] = m[3]]
                           /\ events' = Append(events, [kind |-> m[2], sub |-> x])
    BY <1>2 DEF Emit
  <2>2. m[3] \in {"unborn", "active", "cancelling", "ended"} /\ m[2] \in EventKinds
    BY <2>1 DEF Moves
  <2>3. [kind |-> m[2], sub |-> x] \in [kind : EventKinds, sub : Subs]
    BY <2>2
  <2>4. /\ events' \in Seq([kind : EventKinds, sub : Subs])
        /\ Len(events') = Len(events) + 1 /\ DOMAIN events \subseteq DOMAIN events'
    BY <2>1, <2>3, AppendProperties, LenProperties DEF TypeOK
  <2>5. Len(events') <= MaxEvents
    BY <1>2, <2>4, LenProperties DEF Emit, TypeOK
  <2>6. subs' \in [Subs -> {"unborn", "active", "cancelling", "ended"}]
    BY <2>1, <2>2 DEF TypeOK
  <2> QED
    BY <1>2, <2>4, <2>5, <2>6 DEF Emit, TypeOK
<1>3. ASSUME NEW d \in Deliveries, NEW n \in EventIds, Deliver(d, n) PROVE TypeOK'
  <2>1. [Idle EXCEPT !.pc = "lookup", !.event = n] \in Handlers
    BY DEF Idle, Handlers
  <2>2. /\ [Idle EXCEPT !.pc = "lookup", !.event = n].event = n
        /\ [Idle EXCEPT !.pc = "lookup", !.event = n].pc = "lookup"
    BY DEF Idle
  <2> QED
    BY <1>3, <2>1, <2>2 DEF Deliver, TypeOK
<1>4. ASSUME NEW d \in Deliveries, Lookup(d) PROVE TypeOK'
  <2>1. handler[d].pc # "idle" /\ UNCHANGED <<subs, events, claims, tenant, session, handled>>
    BY <1>4 DEF Lookup
  <2>2. faults' \in FaultLog
    <3>1. faults \in FaultLog
      BY DEF TypeOK
    <3> QED
      BY <1>4, <3>1, FaultCount DEF Lookup, StatementFails
  <2>3. Goto(d, "claim") \/ Reply(d, FALSE)
    BY <1>4 DEF Lookup
  <2> QED
    BY <2>1, <2>2, <2>3, GotoType, ReplyType DEF TypeOK, HandlersOK
<1>5. ASSUME NEW d \in Deliveries, claimWebhookEvent(d) PROVE TypeOK'
  <2>1. handler[d].pc # "idle" /\ UNCHANGED <<subs, events, tenant, session, handled>>
    BY <1>5 DEF claimWebhookEvent
  <2>2. faults' \in FaultLog
    <3>1. faults \in FaultLog
      BY DEF TypeOK
    <3> QED
      BY <1>5, <3>1, FaultCount DEF claimWebhookEvent
  <2>3. Goto(d, "work") \/ Reply(d, FALSE) \/ Reply(d, TRUE)
    BY <1>5 DEF claimWebhookEvent
  <2>4. claims' \in SUBSET DOMAIN events'
    <3>1. claims \in SUBSET DOMAIN events /\ handler[d].event \in DOMAIN events
      BY <2>1 DEF TypeOK
    <3> QED
      BY <1>5, <2>1, <3>1 DEF claimWebhookEvent
  <2> QED
    BY <2>1, <2>2, <2>3, <2>4, GotoType, ReplyType DEF TypeOK, HandlersOK
<1>6. ASSUME NEW d \in Deliveries, ClaimFails(d) PROVE TypeOK'
  <2>1. /\ handler[d].pc # "idle" /\ UNCHANGED <<subs, events, claims, tenant, session, handled>>
        /\ Reply(d, FALSE)
    BY <1>6 DEF ClaimFails
  <2>2. faults' \in FaultLog
    BY <1>6 DEF ClaimFails, StatementFails, Fault, FaultLog, TypeOK
  <2> QED
    BY <2>1, <2>2, ReplyType DEF TypeOK, HandlersOK
<1>7. ASSUME NEW d \in Deliveries, Work(d) \/ WorkFails(d) PROVE TypeOK'
  <2>1. /\ handler[d].pc = "work" /\ handler[d] \in Handlers
        /\ handler[d].event \in DOMAIN events
        /\ UNCHANGED <<subs, events, acked, claims, session>>
    BY <1>7 DEF Work, WorkFails, TypeOK
  <2>2. EventOf(d) \in [kind : EventKinds, sub : Subs]
    <3>1. events \in Seq([kind : EventKinds, sub : Subs]) /\ handler[d].event \in 1 .. Len(events)
      BY <2>1, LenProperties DEF TypeOK
    <3> QED
      BY <3>1, ElementOfSeq DEF EventOf
  <2>3. tenant' \in Rows /\ handled' \in SUBSET DOMAIN events' /\ faults' \in FaultLog
    <3>1. handleWebhookEvent(tenant, EventOf(d)) \in Rows
      BY <2>2, RowUpdates DEF TypeOK
    <3>2. faults' \in FaultLog
      <4>1. faults \in FaultLog
        BY DEF TypeOK
      <4> QED
        BY <1>7, <4>1, FaultCount DEF Work, WorkFails, StatementFails
    <3> QED
      BY <1>7, <2>1, <3>1, <3>2 DEF Work, WorkFails, TypeOK
  <2>4. \E h \in Handlers : /\ handler' = [handler EXCEPT ![d] = h]
                            /\ h.event = handler[d].event
                            /\ h.pc = "push" => h.push \in Plans
    <3>1. CASE Work(d)
      <4> DEFINE plan == PushOf(tenant, EventOf(d))
                 p    == IF plan = "none" THEN "finish" ELSE "push"
                 h    == [handler[d] EXCEPT !.pc = p, !.push = plan]
      <4>1. plan \in Plans \cup {"none"} /\ p \in Phases
        BY <2>2, RowUpdates DEF TypeOK
      <4>2. handler' = [handler EXCEPT ![d] = h]
        BY <3>1 DEF Work
      <4>5. p = "push" => plan \in Plans
        BY <4>1
      <4> HIDE DEF plan, p
      <4>3. h \in Handlers
        BY <2>1, <4>1, HandlerUpdates
      <4>4. h.event = handler[d].event /\ h.pc = p /\ h.push = plan
        BY <2>1 DEF Handlers
      <4> QED
        BY <4>2, <4>3, <4>4, <4>5
    <3>2. CASE WorkFails(d)
      <4> DEFINE b == EventOf(d).kind # "payment_failed"
                 h == [handler[d] EXCEPT !.pc = "finish", !.err = b]
      <4>1. handler' = [handler EXCEPT ![d] = h]
        BY <3>2 DEF WorkFails
      <4>2. b \in BOOLEAN
        OBVIOUS
      <4> HIDE DEF b
      <4>3. h \in Handlers
        BY <2>1, <4>2, HandlerUpdates
      <4>4. h.event = handler[d].event /\ h.pc = "finish"
        BY <2>1 DEF Handlers
      <4> QED
        BY <4>1, <4>3, <4>4
    <3> QED
      BY <1>7, <3>1, <3>2
  <2>5. /\ handler' \in [Deliveries -> Handlers]
        /\ HandlersOK'
    BY <2>1, <2>4, HandlerType
  <2> QED
    BY <2>1, <2>3, <2>5 DEF TypeOK, HandlersOK
<1>8. ASSUME NEW d \in Deliveries, UpdatePlan(d) PROVE TypeOK'
  <2>1. /\ handler[d].pc = "push" /\ Goto(d, "finish")
        /\ UNCHANGED <<subs, events, claims, tenant, faults, handled>>
    BY <1>8 DEF UpdatePlan
  <2>2. session' \in [Sessions -> Browsers]
    <3>1. \A s \in Sessions : [session[s] EXCEPT !.plan = handler[d].push] \in Browsers
      <4>1. handler[d].push \in Plans
        BY <2>1 DEF TypeOK
      <4> QED
        BY <4>1 DEF TypeOK, Browsers
    <3> QED
      BY <1>8, <3>1 DEF UpdatePlan, TypeOK
  <2> QED
    BY <2>1, <2>2, GotoType DEF TypeOK, HandlersOK
<1>9. ASSUME NEW d \in Deliveries, Finish(d) PROVE TypeOK'
  <2>1. /\ handler[d].pc # "idle" /\ (Goto(d, "release") \/ Reply(d, TRUE))
        /\ UNCHANGED <<subs, events, claims, tenant, session, faults, handled>>
    BY <1>9 DEF Finish
  <2> QED
    BY <2>1, GotoType, ReplyType DEF TypeOK, HandlersOK
<1>10. ASSUME NEW d \in Deliveries, releaseWebhookClaim(d) PROVE TypeOK'
  <2>1. /\ handler[d].pc # "idle" /\ Reply(d, FALSE)
        /\ UNCHANGED <<subs, events, tenant, session, handled>>
    BY <1>10 DEF releaseWebhookClaim
  <2>2. claims' \in SUBSET DOMAIN events' /\ faults' \in FaultLog
    BY <1>10, <2>1 DEF releaseWebhookClaim, Fault, FaultLog, TypeOK
  <2> QED
    BY <2>1, <2>2, ReplyType DEF TypeOK, HandlersOK
<1>11. ASSUME NEW d \in Deliveries, Expire(d) PROVE TypeOK'
  <2>1. handler[d] \in Handlers /\ handler[d].pc # "idle"
    BY <1>11 DEF Expire, TypeOK
  <2>2. [handler[d] EXCEPT !.expired = TRUE] \in Handlers
    BY <2>1, HandlerUpdates
  <2>3. LET h == [handler[d] EXCEPT !.expired = TRUE]
        IN  h.event = handler[d].event /\ (h.pc = "push" => h.push \in Plans)
    <3>1. handler[d].pc = "push" => handler[d].push \in Plans
      BY DEF TypeOK
    <3> QED
      BY <2>1, <3>1 DEF Handlers
  <2>4. /\ handler' = [handler EXCEPT ![d] = [handler[d] EXCEPT !.expired = TRUE]]
        /\ UNCHANGED <<subs, events, acked, claims, tenant, session, handled>>
        /\ faults' \in FaultLog
    BY <1>11 DEF Expire, Fault, FaultLog, TypeOK
  <2> QED
    BY <2>1, <2>2, <2>3, <2>4, HandlerType DEF TypeOK, HandlersOK
<1>12. ASSUME Crash PROVE TypeOK'
  <2>1. Idle \in Handlers /\ Idle.pc = "idle" /\ LoggedOut \in Browsers
    BY DEF Idle, Handlers, LoggedOut, Browsers
  <2> QED
    BY <1>12, <2>1 DEF Crash, Fault, FaultLog, TypeOK
<1>13. ASSUME NEW s \in Sessions, ReadPlan(s) \/ CreateSession(s) \/ DeleteSession(s)
       PROVE  TypeOK'
  <2>1. [pc |-> "login", plan |-> tenant.plan] \in Browsers
    BY DEF Browsers, TypeOK, Rows
  <2>2. [session[s] EXCEPT !.pc = "in"] \in Browsers
    BY DEF TypeOK, Browsers
  <2>3. [LoggedOut EXCEPT !.pc = "gone"] \in Browsers
    BY DEF LoggedOut, Browsers
  <2>4. session' \in [Sessions -> Browsers]
    BY <1>13, <2>1, <2>2, <2>3 DEF ReadPlan, CreateSession, DeleteSession, TypeOK
  <2> QED
    BY <1>13, <2>4 DEF ReadPlan, CreateSession, DeleteSession, TypeOK
<1> QED
  BY <1>1, <1>2, <1>3, <1>4, <1>5, <1>6, <1>7, <1>8, <1>9, <1>10, <1>11, <1>12, <1>13
     DEF Next, Step

(* The log, the claims, the row, the deliveries and the sessions keep their shape. *)
THEOREM TypeCorrect == Spec => []TypeOK
  BY TypeInit, TypeStep, PTL DEF Spec

-----------------------------------------------------------------------------
(* The claim is exclusive: with TypeOK, ClaimExclusive is inductive.        *)

(* A step that keeps the claims and makes no new holder. *)
LEMMA NoNewHolder ==
    ASSUME ClaimExclusive, claims \subseteq claims',
           \A c \in Deliveries : Holding(c)' => Holding(c) /\ handler'[c].event = handler[c].event
    PROVE  ClaimExclusive'
  BY DEF ClaimExclusive

LEMMA ReplyHolders ==
    ASSUME TypeOK, NEW d \in Deliveries, NEW ok, Reply(d, ok)
    PROVE  /\ ~Holding(d)'
           /\ \A c \in Deliveries \ {d} : handler'[c] = handler[c]
  BY DEF TypeOK, Reply, Idle, Holding

LEMMA GotoHolders ==
    ASSUME TypeOK, NEW d \in Deliveries, NEW p, Goto(d, p)
    PROVE  /\ handler'[d].pc = p /\ handler'[d].event = handler[d].event
           /\ \A c \in Deliveries \ {d} : handler'[c] = handler[c]
<1>1. handler[d] \in Handlers
  BY DEF TypeOK
<1>2. /\ handler'[d] = [handler[d] EXCEPT !.pc = p]
      /\ \A c \in Deliveries \ {d} : handler'[c] = handler[c]
  BY DEF TypeOK, Goto
<1>3. [handler[d] EXCEPT !.pc = p].pc = p /\ [handler[d] EXCEPT !.pc = p].event = handler[d].event
  BY <1>1 DEF Handlers
<1> QED
  BY <1>2, <1>3

LEMMA ClaimStep == TypeOK /\ ClaimExclusive /\ [Next]_vars => ClaimExclusive'
<1> SUFFICES ASSUME TypeOK, ClaimExclusive, [Next]_vars PROVE ClaimExclusive'
  OBVIOUS
<1>1. CASE UNCHANGED <<claims, handler>>
  BY <1>1 DEF ClaimExclusive, Holding
<1>2. ASSUME NEW d \in Deliveries, NEW n \in EventIds, Deliver(d, n) PROVE ClaimExclusive'
  <2>1. /\ handler'[d] = [Idle EXCEPT !.pc = "lookup", !.event = n]
        /\ \A c \in Deliveries \ {d} : handler'[c] = handler[c]
        /\ UNCHANGED claims
    BY <1>2 DEF Deliver, TypeOK
  <2>2. ~Holding(d)'
    BY <2>1 DEF Idle, Holding
  <2> QED
    BY <2>1, <2>2, NoNewHolder DEF Holding
<1>3. ASSUME NEW d \in Deliveries, Lookup(d) \/ ClaimFails(d) \/ UpdatePlan(d) \/ Finish(d)
      PROVE  ClaimExclusive'
  <2>1. UNCHANGED claims
    BY <1>3 DEF Lookup, ClaimFails, UpdatePlan, Finish
  <2>2. \/ \E ok : Reply(d, ok)
        \/ Goto(d, "claim")
        \/ (Goto(d, "finish") \/ Goto(d, "release")) /\ handler[d].pc \in {"push", "finish"}
    BY <1>3 DEF Lookup, ClaimFails, UpdatePlan, Finish
  <2>3. \A c \in Deliveries : Holding(c)' => Holding(c) /\ handler'[c].event = handler[c].event
    BY <2>2, ReplyHolders, GotoHolders DEF Holding
  <2> QED
    BY <2>1, <2>3, NoNewHolder
<1>4. ASSUME NEW d \in Deliveries, claimWebhookEvent(d) PROVE ClaimExclusive'
  <2>1. CASE \E ok : Reply(d, ok)
    <3>1. claims \subseteq claims'
      BY <1>4 DEF claimWebhookEvent
    <3> QED
      BY <2>1, <3>1, ReplyHolders, NoNewHolder DEF Holding
  <2>2. CASE Goto(d, "work") /\ handler[d].event \notin claims
    <3>1. claims' = claims \cup {handler[d].event}
      BY <1>4, <2>2 DEF claimWebhookEvent
    <3>2. /\ handler'[d].event = handler[d].event
          /\ \A c \in Deliveries \ {d} : handler'[c] = handler[c]
      BY <2>2, GotoHolders
    <3>3. \A c \in Deliveries \ {d} : Holding(c) => handler[c].event # handler[d].event
      BY <2>2 DEF ClaimExclusive
    <3> QED
      BY <3>1, <3>2, <3>3 DEF ClaimExclusive, Holding
  <2> QED
    BY <1>4, <2>1, <2>2 DEF claimWebhookEvent
<1>5. ASSUME NEW d \in Deliveries, Work(d) \/ WorkFails(d) PROVE ClaimExclusive'
  <2>1. handler[d].pc = "work" /\ handler[d] \in Handlers /\ UNCHANGED claims
    BY <1>5 DEF Work, WorkFails, TypeOK
  <2>2. \A c \in Deliveries \ {d} : handler'[c] = handler[c]
    BY <1>5 DEF Work, WorkFails, TypeOK
  <2>3. handler'[d].event = handler[d].event
    <3>1. CASE Work(d)
      <4>1. \E p, plan : handler'[d] = [handler[d] EXCEPT !.pc = p, !.push = plan]
        BY <3>1 DEF Work, TypeOK
      <4> QED
        BY <2>1, <4>1 DEF Handlers
    <3>2. CASE WorkFails(d)
      <4>1. \E b : handler'[d] = [handler[d] EXCEPT !.pc = "finish", !.err = b]
        BY <3>2 DEF WorkFails, TypeOK
      <4> QED
        BY <2>1, <4>1 DEF Handlers
    <3> QED
      BY <1>5, <3>1, <3>2
  <2> QED
    BY <2>1, <2>2, <2>3, NoNewHolder DEF Holding
<1>6. ASSUME NEW d \in Deliveries, releaseWebhookClaim(d) PROVE ClaimExclusive'
  <2>1. /\ ~Holding(d)' /\ \A c \in Deliveries \ {d} : handler'[c] = handler[c]
        /\ claims \ {handler[d].event} \subseteq claims' /\ Holding(d)
    BY <1>6, ReplyHolders DEF releaseWebhookClaim, Holding
  <2>2. \A c \in Deliveries \ {d} : Holding(c) => handler[c].event # handler[d].event
    BY <2>1 DEF ClaimExclusive
  <2> QED
    BY <2>1, <2>2 DEF ClaimExclusive, Holding
<1>7. ASSUME NEW d \in Deliveries, Expire(d) PROVE ClaimExclusive'
  <2>1. /\ handler[d] \in Handlers /\ UNCHANGED claims
        /\ handler'[d] = [handler[d] EXCEPT !.expired = TRUE]
        /\ \A c \in Deliveries \ {d} : handler'[c] = handler[c]
    BY <1>7 DEF Expire, TypeOK
  <2>2. handler'[d].event = handler[d].event /\ handler'[d].pc = handler[d].pc
    BY <2>1 DEF Handlers
  <2> QED
    BY <2>1, <2>2, NoNewHolder DEF Holding
<1>8. ASSUME Crash PROVE ClaimExclusive'
  <2>1. \A d \in Deliveries : ~Holding(d)'
    BY <1>8 DEF Crash, Idle, Holding
  <2> QED
    BY <2>1 DEF ClaimExclusive
<1>9. ASSUME NEW x \in Subs, Emit(x) PROVE UNCHANGED <<claims, handler>>
  BY <1>9 DEF Emit
<1>10. ASSUME NEW s \in Sessions, ReadPlan(s) \/ CreateSession(s) \/ DeleteSession(s)
       PROVE  UNCHANGED <<claims, handler>>
  BY <1>10 DEF ReadPlan, CreateSession, DeleteSession
<1> QED
  BY <1>1, <1>2, <1>3, <1>4, <1>5, <1>6, <1>7, <1>8, <1>9, <1>10 DEF Next, Step, vars

(* No event is ever processed by two handlers at once, whatever fails. *)
THEOREM ClaimsExclusive == Spec => []ClaimExclusive
<1>1. Init => ClaimExclusive
  BY DEF Init, ClaimExclusive, Holding, Idle
<1> QED
  BY <1>1, TypeInit, TypeStep, ClaimStep, PTL DEF Spec
=============================================================================
