---------------------------- MODULE Access_proofs ----------------------------
(* Theorems about Access: types, keys that end for good and never early, and *)
(* sessions that are right again SessionTTL after the last change.          *)
EXTENDS Access, TLAPS

USE AccessAssumption DEF Never

(* What ended, or waits to be marked as expired, is past its time unless its *)
(* status says that it is over.                                             *)
KeysInv ==
    /\ \A k \in updates : key[k].status # "absent" /\ PastExpiry(k)
    /\ \A k \in ended : key[k].status # "absent" /\ ~Accepts(k)
    /\ ExpiredMeansExpired

Right(s) == tenant[session[s].tenant] = [state |-> "live", plan |-> session[s].plan]

(* A session that is not right began SessionTTL before its end, at the last   *)
(* change of its tenant or earlier; a login or a push in progress began in    *)
(* this tick.                                                               *)
SessionInv(s) ==
    /\ session[s].pc \in {"login", "stored"} => session[s].tenant \in Tenants
    /\ session[s].pc = "login" => Right(s) \/ changed[session[s].tenant] = now
    /\ session[s].pc = "stored" =>
          /\ session[s].expires <= now + SessionTTL
          /\ Right(s) \/ session[s].expires <= changed[session[s].tenant] + SessionTTL

PushInv == push # NoPush => push.tenant \in Tenants /\ changed[push.tenant] = now

SessionsInv == PushInv /\ (\A t \in Tenants : changed[t] <= now) /\ \A s \in Sessions : SessionInv(s)

(* A step of the key handlers and of the middleware. *)
KeyStep ==
    \/ \E s \in Sessions : SyncExpiredAPIKeys(s)
    \/ \E s \in Sessions, k \in Keys : DeleteAPIKey(s, k) \/ RevokeAPIKey(s, k)
    \/ \E s \in Sessions, k \in Keys, n \in Lifetimes : CreateAPIKey(s, k, n)
    \/ \E k \in Keys : RefuseExpired(k) \/ MarkExpired(k)

-----------------------------------------------------------------------------
(* The types hold initially and every step keeps them. *)
LEMMA TypeInit == Init => TypeOK
  BY DEF Init, TypeOK, NoKey, NoLogin, NoPush, Plans

LEMMA TypeStep == TypeOK /\ SessionsInv /\ [Next]_vars => TypeOK'
  <1> SUFFICES ASSUME TypeOK, SessionsInv, [Next]_vars PROVE TypeOK'
    OBVIOUS
  <1> USE DEF TypeOK, Plans
  <1>1. ASSUME Tick PROVE TypeOK'
    BY <1>1 DEF Tick
  <1>2. ASSUME purgeExpired PROVE TypeOK'
    BY <1>2 DEF purgeExpired, NoLogin
  <1>3. ASSUME UpdatePlan PROVE TypeOK'
    BY <1>3 DEF UpdatePlan, NoPush
  <1>4. ASSUME NEW s \in Sessions, NEW t \in Tenants, FindTenant(s, t) PROVE TypeOK'
    BY <1>4 DEF FindTenant, NoLogin
  <1>5. ASSUME NEW s \in Sessions, Create(s) \/ Delete(s) PROVE TypeOK'
    BY <1>5 DEF Create, Delete, NoLogin
  <1>6. ASSUME NEW s \in Sessions, NEW t \in Tenants, DeleteTenant(s, t) PROVE TypeOK'
    BY <1>6 DEF DeleteTenant
  <1>7. ASSUME NEW s \in Sessions, DeleteTenantProfile(s) PROVE TypeOK'
    BY <1>7 DEF DeleteTenantProfile, Get, SessionsInv, SessionInv
  <1>8. ASSUME NEW t \in Managed, NEW p \in Plans, WritePlan(t, p) PROVE TypeOK'
    BY <1>8 DEF WritePlan
  <1>9. ASSUME NEW s \in Sessions, NEW t \in Tenants, NEW p \in Plans, UpdateAdminTenantPlan(s, t, p)
        PROVE TypeOK'
    BY <1>9 DEF UpdateAdminTenantPlan
  <1>10. ASSUME KeyStep PROVE TypeOK'
    <2>1. ASSUME NEW s \in Sessions, NEW k \in Keys, NEW n \in Lifetimes, CreateAPIKey(s, k, n)
          PROVE TypeOK'
      <3>1. n \in Nat /\ now + n \in Nat
        OBVIOUS
      <3>2. session[s].tenant \in Tenants \cup {"none"}
        OBVIOUS
      <3> QED
        BY <2>1, <3>1, <3>2 DEF CreateAPIKey
    <2>2. ASSUME NEW s \in Sessions, NEW k \in Keys, DeleteAPIKey(s, k) \/ RevokeAPIKey(s, k)
          PROVE TypeOK'
      BY <2>2 DEF DeleteAPIKey, RevokeAPIKey
    <2>3. ASSUME NEW s \in Sessions, SyncExpiredAPIKeys(s) PROVE TypeOK'
      BY <2>3 DEF SyncExpiredAPIKeys
    <2>4. ASSUME NEW k \in Keys, RefuseExpired(k) PROVE TypeOK'
      BY <2>4 DEF RefuseExpired
    <2>5. ASSUME NEW k \in Keys, MarkExpired(k) PROVE TypeOK'
      BY <2>5 DEF MarkExpired
    <2> QED
      BY <1>10, <2>1, <2>2, <2>3, <2>4, <2>5 DEF KeyStep
  <1>11. ASSUME UNCHANGED vars PROVE TypeOK'
    BY <1>11 DEF vars
  <1> HIDE DEF TypeOK, Plans
  <1> QED
    BY <1>1, <1>2, <1>3, <1>4, <1>5, <1>6, <1>7, <1>8, <1>9, <1>10, <1>11 DEF Next, KeyStep

-----------------------------------------------------------------------------
(* Time passes and keys are only created absent, so what is over stays over. *)
LEMMA KeysStep == TypeOK /\ KeysInv /\ [Next]_vars => KeysInv'
  <1> SUFFICES ASSUME TypeOK, KeysInv, [Next]_vars PROVE KeysInv'
    OBVIOUS
  <1> USE DEF TypeOK, KeysInv, ExpiredMeansExpired, Accepts, Found, PastExpiry
  <1>1. ASSUME UNCHANGED <<now, key, updates, ended>> PROVE KeysInv'
    BY <1>1
  <1>2. ASSUME Tick PROVE KeysInv'
    BY <1>2 DEF Tick
  <1>3. ASSUME NEW s \in Sessions, NEW k \in Keys, NEW n \in Lifetimes, CreateAPIKey(s, k, n)
        PROVE KeysInv'
    BY <1>3 DEF CreateAPIKey
  <1>4. ASSUME NEW s \in Sessions, NEW k \in Keys, DeleteAPIKey(s, k) \/ RevokeAPIKey(s, k)
        PROVE KeysInv'
    <2>1. CASE DeleteAPIKey(s, k)
      BY <2>1 DEF DeleteAPIKey
    <2>2. CASE RevokeAPIKey(s, k)
      BY <2>2 DEF RevokeAPIKey
    <2> QED
      BY <1>4, <2>1, <2>2
  <1>5. ASSUME NEW s \in Sessions, SyncExpiredAPIKeys(s) PROVE KeysInv'
    BY <1>5 DEF SyncExpiredAPIKeys
  <1>6. ASSUME NEW k \in Keys, RefuseExpired(k) PROVE KeysInv'
    BY <1>6 DEF RefuseExpired
  <1>7. ASSUME NEW k \in Keys, MarkExpired(k) PROVE KeysInv'
    BY <1>7 DEF MarkExpired
  <1>8. ASSUME NEW s \in Sessions, NEW t \in Tenants, DeleteTenant(s, t) PROVE KeysInv'
    BY <1>8 DEF DeleteTenant
  <1> HIDE DEF TypeOK, KeysInv
  <1>9. CASE KeyStep
    BY <1>9, <1>3, <1>4, <1>5, <1>6, <1>7 DEF KeyStep
  <1>10. ASSUME \/ purgeExpired \/ UpdatePlan \/ UNCHANGED vars
                \/ \E s \in Sessions, t \in Tenants : FindTenant(s, t)
                \/ \E s \in Sessions : Create(s) \/ Delete(s) \/ DeleteTenantProfile(s)
                \/ \E t \in Managed, p \in Plans : WritePlan(t, p)
                \/ \E s \in Sessions, t \in Tenants, p \in Plans : UpdateAdminTenantPlan(s, t, p)
         PROVE  UNCHANGED <<now, key, updates, ended>>
    BY <1>10 DEF vars, purgeExpired, UpdatePlan, FindTenant, Create, Delete, DeleteTenantProfile,
                 WritePlan, UpdateAdminTenantPlan
  <1> QED
    BY <1>1, <1>2, <1>8, <1>9, <1>10 DEF Next, KeyStep

-----------------------------------------------------------------------------
(* Whatever makes a session wrong is a change of its tenant, which the time   *)
(* is kept of.                                                              *)
LEMMA SessionsStep == TypeOK /\ SessionsInv /\ [Next]_vars => SessionsInv'
  <1> SUFFICES ASSUME TypeOK, SessionsInv, [Next]_vars PROVE SessionsInv'
    OBVIOUS
  <1> USE DEF TypeOK, SessionsInv, SessionInv, PushInv, Right, Plans
  <1>1. ASSUME UNCHANGED <<now, tenant, session, push, changed>> PROVE SessionsInv'
    BY <1>1
  <1>2. ASSUME Tick PROVE SessionsInv'
    BY <1>2 DEF Tick
  <1>3. ASSUME purgeExpired PROVE SessionsInv'
    BY <1>3 DEF purgeExpired, NoLogin
  <1>4. ASSUME UpdatePlan PROVE SessionsInv'
    BY ZenonT(40), <1>4 DEF UpdatePlan, NoPush
  <1>5. ASSUME NEW s \in Sessions, NEW t \in Tenants, FindTenant(s, t) PROVE SessionsInv'
    BY <1>5 DEF FindTenant, NoLogin
  <1>6. ASSUME NEW s \in Sessions, Create(s) PROVE SessionsInv'
    BY <1>6 DEF Create
  <1>7. ASSUME NEW s \in Sessions, Delete(s) PROVE SessionsInv'
    BY <1>7 DEF Delete, NoLogin
  <1>8. ASSUME NEW t \in Managed, NEW p \in Plans, WritePlan(t, p) PROVE SessionsInv'
    BY <1>8 DEF WritePlan
  <1>9. ASSUME NEW s \in Sessions, NEW t \in Tenants, NEW p \in Plans, UpdateAdminTenantPlan(s, t, p)
        PROVE SessionsInv'
    BY <1>9 DEF UpdateAdminTenantPlan
  <1>10. ASSUME NEW s \in Sessions, DeleteTenantProfile(s) PROVE SessionsInv'
    BY <1>10 DEF DeleteTenantProfile, Get
  <1>11. ASSUME NEW s \in Sessions, NEW t \in Tenants, DeleteTenant(s, t) PROVE SessionsInv'
    BY <1>11 DEF DeleteTenant
  <1> HIDE DEF TypeOK, SessionsInv, Plans
  <1>12. ASSUME KeyStep \/ UNCHANGED vars PROVE UNCHANGED <<now, tenant, session, push, changed>>
    BY <1>12 DEF KeyStep, vars, CreateAPIKey, DeleteAPIKey, RevokeAPIKey, SyncExpiredAPIKeys,
                 RefuseExpired, MarkExpired
  <1> QED
    BY <1>1, <1>2, <1>3, <1>4, <1>5, <1>6, <1>7, <1>8, <1>9, <1>10, <1>11, <1>12 DEF Next, KeyStep

-----------------------------------------------------------------------------
(* A number is known by its quotient and its remainder. *)
LEMMA Residue ==
    ASSUME NEW a \in Nat, NEW n \in Nat \ {0}, NEW q \in Nat, NEW r \in 0 .. n - 1, a = n * q + r
    PROVE  a % n = r
  OBVIOUS

(* Remainders count up and begin again. *)
LEMMA NextResidue ==
    ASSUME NEW a \in Nat, NEW n \in Nat \ {0}
    PROVE  /\ a % n \in 0 .. n - 1
           /\ (a + 1) % n = IF a % n = n - 1 THEN 0 ELSE (a % n) + 1
  <1> DEFINE q == a \div n
             r == a % n
  <1>1. q \in Nat /\ r \in 0 .. n - 1 /\ a = n * q + r
    OBVIOUS
  <1> HIDE DEF q, r
  <1>2. CASE r = n - 1
    <2>1. a + 1 = n * (q + 1) + 0
      BY <1>1, <1>2
    <2>2. (a + 1) % n = 0
      BY <2>1, <1>1, Residue
    <2> QED
      BY <1>1, <1>2, <2>2 DEF r
  <1>3. CASE r # n - 1
    <2>1. a + 1 = n * q + (r + 1) /\ r + 1 \in 0 .. n - 1
      BY <1>1, <1>3
    <2>2. (a + 1) % n = r + 1
      BY <2>1, <1>1, Residue
    <2> QED
      BY <1>1, <1>3, <2>2 DEF r
  <1> QED
    BY <1>2, <1>3

(* A pass of the loop leaves nothing that is over, so that what is kept ended  *)
(* no longer ago than the last pass, or a pass is due.                       *)
Kept(s) ==
    session[s].pc = "stored" =>
        \/ now - session[s].expires <= now % GCInterval
        \/ /\ now % GCInterval = 0 /\ swept < now
           /\ now - session[s].expires <= GCInterval

KeptInv == swept <= now /\ \A s \in Sessions : Kept(s)

LEMMA KeptStep == TypeOK /\ KeptInv /\ [Next]_vars => KeptInv'
  <1>0. ASSUME TypeOK, swept <= now, [Next]_vars PROVE swept' <= now'
    <2>1. \/ swept' = swept /\ now' \in {now, now + 1}
          \/ swept' = now /\ now' = now
      <3>1. CASE Tick \/ purgeExpired
        BY <3>1 DEF Tick, purgeExpired
      <3>2. CASE ~(Tick \/ purgeExpired)
        BY <1>0, <3>2, ZenonT(60)
        DEF Next, vars, UpdatePlan, FindTenant, Create, Delete, DeleteTenant, DeleteTenantProfile,
            WritePlan, UpdateAdminTenantPlan, CreateAPIKey, DeleteAPIKey, RevokeAPIKey,
            SyncExpiredAPIKeys, RefuseExpired, MarkExpired
      <3> QED
        BY <3>1, <3>2
    <2> QED
      BY <1>0, <2>1 DEF TypeOK
  <1> SUFFICES ASSUME TypeOK, KeptInv, [Next]_vars, NEW s \in Sessions PROVE Kept(s)'
    BY <1>0 DEF KeptInv
  <1>1. /\ now \in Nat /\ swept \in Nat /\ now % GCInterval \in 0 .. GCInterval - 1
        /\ session[s].expires \in Nat /\ Kept(s)
    BY NextResidue DEF TypeOK, KeptInv
  <1>2. ASSUME Tick PROVE Kept(s)'
    <2>1. now' = now + 1 /\ swept' = swept /\ session' = session
          /\ (now % GCInterval = 0 => swept = now)
      BY <1>2 DEF Tick
    <2>2. now' % GCInterval = IF now % GCInterval = GCInterval - 1 THEN 0 ELSE (now % GCInterval) + 1
      BY <1>1, <2>1, NextResidue
    <2>3. swept < now'
      BY <2>1, <1>1 DEF KeptInv
    <2> QED
      BY <1>1, <2>1, <2>2, <2>3 DEF Kept
  <1>3. ASSUME purgeExpired PROVE Kept(s)'
    <2>1. now' = now /\ now % GCInterval = 0
          /\ (session'[s].pc = "stored" => session'[s] = session[s] /\ ~Expired(s))
      BY <1>3 DEF purgeExpired, NoLogin, TypeOK
    <2> QED
      BY <1>1, <2>1 DEF Kept, Expired
  <1>4. ASSUME now' = now, swept' = swept,
               session'[s].pc = "stored" => session'[s].expires = session[s].expires
                                             /\ session[s].pc = "stored"
        PROVE Kept(s)'
    BY <1>1, <1>4 DEF Kept
  <1>5. ASSUME NEW u \in Sessions, Create(u) PROVE Kept(s)'
    <2>1. now' = now /\ swept' = swept
          /\ session'[s] = IF u = s THEN [session[s] EXCEPT !.pc = "stored", !.expires = now + SessionTTL]
                           ELSE session[s]
      BY <1>5 DEF Create, TypeOK
    <2>2. CASE u = s
      <3>1. session'[s].expires = now + SessionTTL
        BY <1>1, <2>1, <2>2 DEF TypeOK
      <3>2. now' - session'[s].expires <= now' % GCInterval
        BY <1>1, <2>1, <3>1
      <3> QED
        BY <3>2 DEF Kept
    <2> QED
      BY <2>1, <2>2, <1>4
  <1>6. ASSUME NEW u \in Sessions, NEW t \in Tenants, FindTenant(u, t) PROVE Kept(s)'
    BY <1>6, <1>4 DEF FindTenant, NoLogin, TypeOK
  <1>7. ASSUME NEW u \in Sessions, Delete(u) PROVE Kept(s)'
    BY <1>7, <1>4 DEF Delete, NoLogin, TypeOK
  <1>8. ASSUME UpdatePlan PROVE Kept(s)'
    BY <1>8, <1>4 DEF UpdatePlan, TypeOK
  <1>9. ASSUME UNCHANGED <<now, swept, session>> PROVE Kept(s)'
    BY <1>9, <1>4
  <1>10. ASSUME \/ KeyStep \/ UNCHANGED vars
                \/ \E u \in Sessions, t \in Tenants : DeleteTenant(u, t)
                \/ \E u \in Sessions : DeleteTenantProfile(u)
                \/ \E t \in Managed, p \in Plans : WritePlan(t, p)
                \/ \E u \in Sessions, t \in Tenants, p \in Plans : UpdateAdminTenantPlan(u, t, p)
         PROVE  UNCHANGED <<now, swept, session>>
    BY <1>10 DEF KeyStep, vars, CreateAPIKey, DeleteAPIKey, RevokeAPIKey, SyncExpiredAPIKeys,
                 RefuseExpired, MarkExpired, DeleteTenant, DeleteTenantProfile, WritePlan,
                 UpdateAdminTenantPlan
  <1> QED
    BY <1>2, <1>3, <1>5, <1>6, <1>7, <1>8, <1>9, <1>10 DEF Next, KeyStep

-----------------------------------------------------------------------------
AccessInv == TypeOK /\ KeysInv /\ SessionsInv /\ KeptInv

LEMMA AccessInvariant == Spec => []AccessInv
  <1>1. Init => AccessInv
    <2>1. Init => KeysInv
      BY DEF Init, KeysInv, ExpiredMeansExpired, NoKey
    <2>2. Init => SessionsInv
      BY DEF Init, SessionsInv, SessionInv, PushInv, NoLogin
    <2>3. Init => KeptInv
      BY DEF Init, KeptInv, Kept, NoLogin
    <2> QED
      BY <2>1, <2>2, <2>3, TypeInit DEF AccessInv
  <1>2. AccessInv /\ [Next]_vars => AccessInv'
    BY TypeStep, KeysStep, SessionsStep, KeptStep DEF AccessInv
  <1> QED
    BY <1>1, <1>2, PTL DEF Spec

(* The rows, the logins and the background updates keep their types.         *)
THEOREM TypeCorrect == Spec => []TypeOK
  BY AccessInvariant, PTL DEF AccessInv

(* A key whose end a client was told of is never accepted again, for any      *)
(* keys, sessions and interleavings of the background updates.              *)
THEOREM EndedStayOut == Spec => []EndedKeysStayOut
  <1>1. AccessInv => EndedKeysStayOut
    BY DEF AccessInv, KeysInv, EndedKeysStayOut
  <1> QED
    BY <1>1, AccessInvariant, PTL

(* A key has the status expired only when its time is over.                  *)
THEOREM ExpiryHonest == Spec => []ExpiredMeansExpired
  <1>1. AccessInv => ExpiredMeansExpired
    BY DEF AccessInv, KeysInv
  <1> QED
    BY <1>1, AccessInvariant, PTL

(* However logins, pushes, administrators and deletions race, a session that  *)
(* is let in more than SessionTTL after the last change of its tenant is of a *)
(* live tenant and has its plan.                                            *)
THEOREM CatchUp == Spec => []SessionsCatchUp
  <1>1. AccessInv => SessionsCatchUp
    BY DEF AccessInv, TypeOK, SessionsInv, SessionInv, Right, SessionsCatchUp, Get, Expired
  <1> QED
    BY <1>1, AccessInvariant, PTL

(* The store keeps no session longer than GCInterval after its end, whatever  *)
(* the two periods are.                                                     *)
THEOREM Forgotten == Spec => []SessionsForgotten
  <1>1. AccessInv => SessionsForgotten
    <2> SUFFICES ASSUME AccessInv, NEW s \in Sessions, session[s].pc = "stored"
                 PROVE  now <= session[s].expires + GCInterval
      BY DEF SessionsForgotten
    <2>1. now \in Nat /\ session[s].expires \in Nat /\ now % GCInterval \in 0 .. GCInterval - 1
      BY NextResidue DEF AccessInv, TypeOK
    <2> QED
      BY <2>1 DEF AccessInv, KeptInv, Kept
  <1> QED
    BY <1>1, AccessInvariant, PTL
=============================================================================
