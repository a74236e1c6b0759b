------------------------------- MODULE Access -------------------------------
(***************************************************************************)
(* Who gets in: the API keys of a tenant and the middleware that checks    *)
(* them, with its background updates (apikey_handlers.go, auth.go), the    *)
(* sessions with their end (session.go), and the changes of plan and the   *)
(* deletions that sessions outlive (admin_handlers.go,                     *)
(* dashboard_handler.go, the push of the webhook).                         *)
(*                                                                         *)
(* Time goes by in ticks, which are long: a login or a webhook that has    *)
(* begun ends within the tick.  A request of the dashboard is its session  *)
(* check and its one statement.                                            *)
(***************************************************************************)
EXTENDS Naturals, FiniteSets

CONSTANTS
    Tenants,      \* tenants, some of them administrators
    Admins,       \* the tenants whose role is admin
    Managed,      \* the tenants administrators change or delete
    Keys,         \* API keys ever created
    Sessions,     \* session ids ever given out
    Lifetimes,    \* what a key may be created with: ticks, or Never
    SessionTTL,
    GCInterval,
    MaxTime       \* bound on the ticks

Never == 0

ASSUME AccessAssumption ==
    /\ Admins \subseteq Tenants /\ Managed \subseteq Tenants /\ Lifetimes \subseteq Nat
    /\ SessionTTL \in Nat \ {0} /\ GCInterval \in Nat \ {0} /\ MaxTime \in Nat

VARIABLES
    now,
    tenant,    \* the rows of tenants
    key,       \* the rows of api_keys
    updates,   \* the background updates of the middleware, not yet done
    session,   \* the logins and the session store
    push,      \* the plan a webhook has written and not yet pushed
    swept,     \* when the GC loop ran last
    ended,     \* keys whose end a client was told of (history)
    changed    \* when the plan of a tenant last changed, or it went (history)

vars == <<now, tenant, key, updates, session, push, swept, ended, changed>>

Plans    == {"free", "builder", "enterprise"}
NoKey    == [status |-> "absent", owner |-> "none", expires |-> Never]
NoLogin  == [pc |-> "unused", tenant |-> "none", plan |-> "free", expires |-> 0]
NoPush   == [tenant |-> "none", plan |-> "free"]

TypeOK ==
    /\ now \in 0 .. MaxTime /\ swept \in 0 .. MaxTime
    /\ tenant \in [Tenants -> [state : {"live", "soft_deleted", "gone"}, plan : Plans]]
    /\ key \in [Keys -> [status : {"absent", "active", "revoked", "expired", "deleted"},
                         owner : Tenants \cup {"none"}, expires : Nat]]
    /\ updates \subseteq Keys /\ ended \subseteq Keys
    /\ session \in [Sessions -> [pc : {"unused", "login", "stored", "removed"},
                                 tenant : Tenants \cup {"none"}, plan : Plans, expires : Nat]]
    /\ push \in [tenant : Tenants \cup {"none"}, plan : Plans]
    /\ changed \in [Tenants -> 0 .. MaxTime]

-----------------------------------------------------------------------------
(* The session store *)

Expired(s) == now > session[s].expires

(* Store.Get, as SessionCookieMiddleware asks for it. *)
Get(s) == session[s].pc = "stored" /\ ~Expired(s)

(* The role is the one the tenant had at login; nothing changes roles. *)
RequireRole(s) == Get(s) /\ session[s].tenant \in Admins

(* Mutant: tenants that are soft-deleted may log in. *)
FindTenantAnyState(s, t) ==
    /\ session[s].pc = "unused" /\ tenant[t].state # "gone"
    /\ session' = [session EXCEPT ![s] = [NoLogin EXCEPT !.pc = "login", !.tenant = t,
                                                        !.plan = tenant[t].plan]]
    /\ UNCHANGED <<now, tenant, key, updates, push, swept, ended, changed>>

(* CreateSessionHandler: the token names a user, whose tenant is read; *)
FindTenant(s, t) ==
    /\ session[s].pc = "unused" /\ tenant[t].state = "live"
    /\ session' = [session EXCEPT ![s] = [NoLogin EXCEPT !.pc = "login", !.tenant = t,
                                                        !.plan = tenant[t].plan]]
    /\ UNCHANGED <<now, tenant, key, updates, push, swept, ended, changed>>

(* then the session is stored under an id of its own. *)
Create(s) ==
    /\ session[s].pc = "login"
    /\ session' = [session EXCEPT ![s].pc = "stored", ![s].expires = now + SessionTTL]
    /\ UNCHANGED <<now, tenant, key, updates, push, swept, ended, changed>>

(* DeleteSessionHandler. *)
Delete(s) ==
    /\ session[s].pc = "stored"
    /\ session' = [session EXCEPT ![s] = [NoLogin EXCEPT !.pc = "removed"]]
    /\ UNCHANGED <<now, tenant, key, updates, push, swept, ended, changed>>

(* Mutant: a session is given its time twice before it is purged. *)
purgeLongExpired ==
    /\ swept < now /\ now % GCInterval = 0
    /\ session' = [s \in Sessions |->
           IF session[s].pc = "stored" /\ now > session[s].expires + SessionTTL
           THEN [NoLogin EXCEPT !.pc = "removed"] ELSE session[s]]
    /\ swept' = now
    /\ UNCHANGED <<now, tenant, key, updates, push, ended, changed>>

(* GCLoop and purgeExpired: a pass at every tick of the ticker. *)
purgeExpired ==
    /\ swept < now /\ now % GCInterval = 0
    /\ session' = [s \in Sessions |->
           IF session[s].pc = "stored" /\ Expired(s) THEN [NoLogin EXCEPT !.pc = "removed"]
           ELSE session[s]]
    /\ swept' = now
    /\ UNCHANGED <<now, tenant, key, updates, push, ended, changed>>

(* The webhook writes a plan; *)
WritePlan(t, p) ==
    /\ push = NoPush /\ tenant[t].state # "gone" /\ tenant[t].plan # p
    /\ tenant' = [tenant EXCEPT ![t].plan = p]
    /\ push' = [tenant |-> t, plan |-> p]
    /\ changed' = [changed EXCEPT ![t] = now]
    /\ UNCHANGED <<now, key, updates, session, swept, ended>>

(* then Store.UpdatePlan gives it to the stored sessions of the tenant. *)
UpdatePlan ==
    /\ push # NoPush
    /\ session' = [s \in Sessions |->
           IF session[s].pc = "stored" /\ session[s].tenant = push.tenant
           THEN [session[s] EXCEPT !.plan = push.plan] ELSE session[s]]
    /\ push' = NoPush
    /\ UNCHANGED <<now, tenant, key, updates, swept, ended, changed>>

-----------------------------------------------------------------------------
(* The handlers of the dashboard and of the administrators *)

(* CreateAPIkeysForAgentsHandler: 30 days, 90 days or forever. *)
CreateAPIKey(s, k, lifetime) ==
    /\ Get(s) /\ key[k].status = "absent"
    /\ tenant[session[s].tenant].state # "gone"
    /\ key' = [key EXCEPT ![k] = [status |-> "active", owner |-> session[s].tenant,
                  expires |-> IF lifetime = Never THEN Never ELSE now + lifetime]]
    /\ UNCHANGED <<now, tenant, updates, session, push, swept, ended, changed>>

Owned(s, k) == Get(s) /\ key[k].owner = session[s].tenant

DeleteAPIKey(s, k) ==
    /\ Owned(s, k) /\ key[k].status \notin {"absent", "deleted"}
    /\ key' = [key EXCEPT ![k].status = "deleted"]
    /\ ended' = ended \cup {k}
    /\ UNCHANGED <<now, tenant, updates, session, push, swept, changed>>

RevokeAPIKey(s, k) ==
    /\ Owned(s, k) /\ key[k].status = "active"
    /\ key' = [key EXCEPT ![k].status = "revoked"]
    /\ ended' = ended \cup {k}
    /\ UNCHANGED <<now, tenant, updates, session, push, swept, changed>>

(* Mutant: keys that never expire are swept with those that have. *)
SyncExpiredAndForever(s) ==
    /\ Get(s)
    /\ key' = [k \in Keys |-> IF Owned(s, k) /\ key[k].status = "active" /\ key[k].expires < now
                              THEN [key[k] EXCEPT !.status = "expired"] ELSE key[k]]
    /\ UNCHANGED <<now, tenant, updates, session, push, swept, ended, changed>>

PastExpiry(k) == key[k].expires # Never /\ key[k].expires < now

SyncExpiredAPIKeys(s) ==
    /\ Get(s)
    /\ key' = [k \in Keys |-> IF Owned(s, k) /\ key[k].status = "active" /\ PastExpiry(k)
                              THEN [key[k] EXCEPT !.status = "expired"] ELSE key[k]]
    /\ UNCHANGED <<now, tenant, updates, session, push, swept, ended, changed>>

(* deleted_at is set; keys and sessions stay. *)
DeleteTenantProfile(s) ==
    /\ Get(s) /\ tenant[session[s].tenant].state = "live"
    /\ tenant' = [tenant EXCEPT ![session[s].tenant].state = "soft_deleted"]
    /\ changed' = [changed EXCEPT ![session[s].tenant] = now]
    /\ UNCHANGED <<now, key, updates, session, push, swept, ended>>

(* The row, deleted or not, gets the plan; no session does. *)
UpdateAdminTenantPlan(s, t, p) ==
    /\ RequireRole(s) /\ t \in Managed /\ tenant[t].state # "gone"
    /\ tenant' = [tenant EXCEPT ![t].plan = p]
    /\ changed' = [changed EXCEPT ![t] = IF p = tenant[t].plan THEN @ ELSE now]
    /\ UNCHANGED <<now, key, updates, session, push, swept, ended>>

(* The row is gone, and its keys with it; the sessions stay. *)
DeleteTenant(s, t) ==
    /\ RequireRole(s) /\ t \in Managed /\ tenant[t].state # "gone"
    /\ tenant' = [tenant EXCEPT ![t].state = "gone"]
    /\ key' = [k \in Keys |-> IF key[k].owner = t THEN [key[k] EXCEPT !.status = "deleted"]
                              ELSE key[k]]
    /\ changed' = [changed EXCEPT ![t] = now]
    /\ UNCHANGED <<now, updates, session, push, swept, ended>>

-----------------------------------------------------------------------------
(* APIKeyMiddleware *)

(* Mutant: the lookup does not ask for the status. *)
FoundByHash(k) == key[k].status \notin {"absent", "deleted"}

Found(k) == key[k].status = "active"

(* An expired key is refused and marked in the background. *)
RefuseExpired(k) ==
    /\ Found(k) /\ PastExpiry(k)
    /\ updates' = updates \cup {k} /\ ended' = ended \cup {k}
    /\ UNCHANGED <<now, tenant, key, session, push, swept, changed>>

Accepts(k) == Found(k) /\ ~PastExpiry(k)

(* UPDATE api_keys SET status = 'expired' WHERE id = $1: whatever the status. *)
MarkExpired(k) ==
    /\ k \in updates
    /\ updates' = updates \ {k}
    /\ key' = IF key[k].status = "deleted" THEN key ELSE [key EXCEPT ![k].status = "expired"]
    /\ UNCHANGED <<now, tenant, session, push, swept, ended, changed>>

-----------------------------------------------------------------------------
Tick ==
    /\ now < MaxTime
    /\ push = NoPush /\ \A s \in Sessions : session[s].pc # "login"
    /\ now % GCInterval = 0 => swept = now
    /\ now' = now + 1
    /\ UNCHANGED <<tenant, key, updates, session, push, swept, ended, changed>>

Init ==
    /\ now = 0 /\ swept = 0
    /\ tenant = [t \in Tenants |-> [state |-> "live", plan |-> "free"]]
    /\ key = [k \in Keys |-> NoKey] /\ updates = {} /\ ended = {}
    /\ session = [s \in Sessions |-> NoLogin]
    /\ push = NoPush
    /\ changed = [t \in Tenants |-> 0]

Next ==
    \/ Tick \/ purgeExpired \/ UpdatePlan
    \/ \E s \in Sessions, t \in Tenants : FindTenant(s, t) \/ DeleteTenant(s, t)
    \/ \E s \in Sessions : Create(s) \/ Delete(s) \/ SyncExpiredAPIKeys(s) \/ DeleteTenantProfile(s)
    \/ \E t \in Managed, p \in Plans : WritePlan(t, p)
    \/ \E s \in Sessions, t \in Tenants, p \in Plans : UpdateAdminTenantPlan(s, t, p)
    \/ \E s \in Sessions, k \in Keys : DeleteAPIKey(s, k) \/ RevokeAPIKey(s, k)
    \/ \E s \in Sessions, k \in Keys, n \in Lifetimes : CreateAPIKey(s, k, n)
    \/ \E k \in Keys : RefuseExpired(k) \/ MarkExpired(k)

Spec == Init /\ [][Next]_vars

-----------------------------------------------------------------------------
(***************************************************************************)
(* Properties                                                              *)
(***************************************************************************)

(* A client told of the end of a key (revoked, deleted, refused as expired)  *)
(* never sees it accepted again, whatever the background updates do to it.   *)
EndedKeysStayOut == \A k \in ended : ~Accepts(k)

(* A key is called expired only when its time is over: neither the sweep nor  *)
(* the unguarded background update takes one that still has time.           *)
ExpiredMeansExpired == \A k \in Keys : key[k].status = "expired" => PastExpiry(k)

(* session.go:109, "avoids a 24-hour stale-plan window": however logins,      *)
(* pushes, administrators and deletions race, SessionTTL after the last       *)
(* change of a tenant every session that is let in has the plan of the row,   *)
(* and none is let in for a tenant that was deleted, either way.             *)
SessionsCatchUp ==
    \A s \in Sessions : Get(s) /\ now > changed[session[s].tenant] + SessionTTL
        => tenant[session[s].tenant] = [state |-> "live", plan |-> session[s].plan]

(* Nothing is kept longer than a pass of the GC loop after its end.          *)
SessionsForgotten ==
    \A s \in Sessions : session[s].pc = "stored" => now <= session[s].expires + GCInterval
=============================================================================
