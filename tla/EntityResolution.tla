-------------------------- MODULE EntityResolution --------------------------
(***************************************************************************)
(* Identity resolution for one tenant: the handlers of core_handlers.go    *)
(* that read and write the tables entities, entity_identifiers,            *)
(* entity_links, interactions and usage_logs, run as concurrent requests   *)
(* over PostgreSQL at READ COMMITTED.                                      *)
(*                                                                         *)
(* A request is one-shot and moves from statement to statement (pc).  What *)
(* a transaction writes is pending and invisible to the others until its   *)
(* commit; a row it wrote is locked until then.  A statement that needs a  *)
(* locked row waits, and takes its snapshot when it gets the lock.         *)
(* Metadata, display names, confidences and the recomputed statistics of   *)
(* an entity decide no branch below and are left out.                      *)
(***************************************************************************)
EXTENDS Integers, FiniteSets

CONSTANTS
    Requests,     \* HTTP requests, each served once
    Identifiers,  \* (source, value) pairs: the unique key of entity_identifiers
    ValueOf,      \* identifier -> its value; sources may share a value
    Seeded,       \* entities 1..Seeded exist at the start
    MaxEntity,    \* bound on entity ids
    Limit,        \* tenants.monthly_resolution_limit, -1 when unlimited
    Counted,      \* what usage_logs may have counted before the start
    Served,       \* the kinds of request the clients send
    MaxInFlight   \* bound on requests served at the same time

ASSUME IdentityAssumption ==
    /\ Seeded \in Nat /\ MaxEntity \in Nat /\ Seeded <= MaxEntity
    /\ Limit \in Int /\ MaxInFlight \in Nat \ {0}
    /\ Counted \subseteq Nat /\ (Limit # -1 => \A n \in Counted : n <= Limit)

VARIABLES
    state,      \* entities: absent, live, merged (soft-deleted) or erased
    owner,      \* entity_identifiers: identifier -> its entity, or None
    links,      \* entity_links: <<canonical, merged>>
    loggedOn,   \* interactions: the entity of the row request r inserted
    usage,      \* usage_logs.resolution_count of this month
    next,       \* the next entity id; ids follow created_at, the time of BEGIN
    req,        \* the handler of each request: where it is, what it has read
    tx,         \* what the transaction of each request has written
    answer      \* what each request was answered

tables == <<state, owner, links, loggedOn, usage>>
vars   == <<tables, next, req, tx, answer>>

Unlimited   == -1
None        == 0
Entities    == 1 .. MaxEntity
MaybeEntity == Entities \cup {None}
Kinds       == {"none", "resolve", "link", "log", "erase"}
Phases      == {"idle", "lookup", "create", "pick", "repoint", "absorb", "attach",
                "conflict", "write", "commit", "fetch", "done"}
Codes       == {"none", "ok", "limited", "not_found", "conflict", "error"}

Handlers     == [pc : Phases, kind : Kinds, ids : SUBSET Identifiers,
                 target : MaybeEntity, matched : SUBSET Entities,
                 canonical : MaybeEntity, fresh : MaybeEntity]
Transactions == [relink : [Identifiers -> MaybeEntity],
                 absorbed : SUBSET Entities, moved : SUBSET Requests]
Replies      == [code : Codes, ids : SUBSET Identifiers, entity : MaybeEntity]

NotStarted == [pc |-> "idle", kind |-> "none", ids |-> {}, target |-> None,
               matched |-> {}, canonical |-> None, fresh |-> None]
EmptyTx    == [relink |-> [i \in Identifiers |-> None], absorbed |-> {}, moved |-> {}]
NoAnswer   == [code |-> "none", ids |-> {}, entity |-> None]

TypeOK ==
    /\ state \in [Entities -> {"absent", "live", "merged", "erased"}]
    /\ owner \in [Identifiers -> MaybeEntity]
    /\ links \in SUBSET (MaybeEntity \X Entities)
    /\ loggedOn \in [Requests -> MaybeEntity]
    /\ usage \in Nat
    /\ next \in Nat
    /\ req \in [Requests -> Handlers]
    /\ tx \in [Requests -> Transactions]
    /\ answer \in [Requests -> Replies]

-----------------------------------------------------------------------------
(* Row locks.  A transaction locks the identifiers and interactions it has  *)
(* written, and the canonical and absorbed entity rows of a merge.          *)

IdsLockedBy(r)      == {i \in Identifiers : tx[r].relink[i] # None}
EntitiesLockedBy(r) ==
    IF tx[r].absorbed = {} THEN {} ELSE tx[r].absorbed \cup {req[r].canonical}

Live(e)   == state[e] = "live"
(* Mutant: the canonical is merged away too. *)
MergedWithCanonical(r) == req[r].matched

Merged(r) == req[r].matched \ {req[r].canonical}

(* Mutants: a merge that forgets the identifiers, or the interactions. *)
IdsForgotten(r)  == {}
RowsForgotten(r) == {}

(* The identifiers and interactions of the entities r merges away, as       *)
(* committed now.                                                           *)
IdsOfMerged(r)  == {i \in Identifiers : owner[i] \in Merged(r)}
RowsOfMerged(r) == {x \in Requests : loggedOn[x] \in Merged(r)}

(* The requests whose locks the next statement of r waits for. *)
WaitsFor(r) == {s \in Requests \ {r} :
    \/ req[r].pc \in {"create", "attach"} /\ req[r].ids \cap IdsLockedBy(s) # {}
    \/ req[r].pc = "repoint" /\ IdsOfMerged(r) \cap IdsLockedBy(s) # {}
    \/ req[r].pc = "absorb" /\ \/ req[r].matched \cap EntitiesLockedBy(s) # {}
                               \/ RowsOfMerged(r) \cap tx[s].moved # {}}

(* PostgreSQL aborts a transaction that waits inside a cycle of waits. *)
Deadlocked(r) == \E C \in SUBSET Requests :
    r \in C /\ \A x \in C : WaitsFor(x) \cap C # {}

-----------------------------------------------------------------------------
(* Mutant: ON CONFLICT DO UPDATE SET entity_id. *)
bulkUpsertIdentifiers(r, e) ==
    [i \in Identifiers |-> IF i \in req[r].ids THEN e ELSE tx[r].relink[i]]

(* The pending identifiers of r after it INSERTs its own for entity e,      *)
(* ON CONFLICT (tenant, source, value) DO NOTHING: the unowned become e's.  *)
bulkLinkIdentifiers(r, e) ==
    [i \in Identifiers |->
        IF i \in req[r].ids /\ owner[i] = None THEN e ELSE tx[r].relink[i]]

(* The handler returns; only a resolve that succeeds has a body to keep. *)
Reply(r, code) ==
    /\ answer' = [answer EXCEPT ![r] =
           IF code = "ok" /\ req[r].kind = "resolve"
           THEN [code |-> code, ids |-> req[r].ids, entity |-> req[r].canonical]
           ELSE [NoAnswer EXCEPT !.code = code]]
    /\ req' = [req EXCEPT ![r] = [NotStarted EXCEPT !.pc = "done"]]

Goto(r, phase) ==
    /\ req' = [req EXCEPT ![r].pc = phase]
    /\ UNCHANGED answer

(* A new request is served, or refused by its first statement. *)
CanStart(r, kind) ==
    /\ req[r].pc = "idle" /\ kind \in Served
    /\ Cardinality({s \in Requests : req[s].pc \notin {"idle", "done"}}) < MaxInFlight

Accept(r, kind, S, e, phase) ==
    /\ req' = [req EXCEPT ![r] = [NotStarted EXCEPT !.pc = phase, !.kind = kind,
                                                   !.ids = S, !.target = e]]
    /\ UNCHANGED answer

-----------------------------------------------------------------------------
(* ResolveEntitiesHandler *)

(* Mutant: the last unit of the quota is one too far. *)
CheckQuotaOffByOne(r) ==
    /\ CanStart(r, "resolve")
    /\ IF Limit # Unlimited /\ usage > Limit
       THEN Reply(r, "limited")
       ELSE \E S \in SUBSET Identifiers : S # {} /\ Accept(r, "resolve", S, None, "lookup")
    /\ UNCHANGED <<tables, next, tx>>

(* The quota check reads the counter in a statement of its own. *)
CheckQuota(r) ==
    /\ CanStart(r, "resolve")
    /\ IF Limit # Unlimited /\ usage >= Limit
       THEN Reply(r, "limited")
       ELSE \E S \in SUBSET Identifiers : S # {} /\ Accept(r, "resolve", S, None, "lookup")
    /\ UNCHANGED <<tables, next, tx>>

(* The live entities that own one of the identifiers. *)
Matches(r) == {e \in Entities : Live(e) /\ \E i \in req[r].ids : owner[i] = e}

(* BEGIN and the lookup.  The entity this transaction may create is as old *)
(* as its BEGIN.                                                            *)
Lookup(r) ==
    /\ req[r].pc = "lookup" /\ next \in Entities
    /\ \/ /\ Matches(r) = {}
          /\ req' = [req EXCEPT ![r].pc = "create", ![r].fresh = next]
       \/ \E e \in Matches(r) :
             /\ Matches(r) = {e}
             /\ req' = [req EXCEPT ![r].pc = "attach", ![r].canonical = e]
       \/ /\ \E e, f \in Matches(r) : e # f
          /\ req' = [req EXCEPT ![r].pc = "pick", ![r].matched = Matches(r)]
    /\ next' = next + 1
    /\ UNCHANGED <<tables, tx, answer>>

(* Case A: no match.  INSERT the entity and link the identifiers to it. *)
CreateEntity(r) ==
    /\ req[r].pc = "create" /\ WaitsFor(r) = {}
    /\ tx' = [tx EXCEPT ![r].relink = bulkLinkIdentifiers(r, req[r].fresh)]
    /\ req' = [req EXCEPT ![r].pc = "commit", ![r].canonical = req[r].fresh]
    /\ UNCHANGED <<tables, next, answer>>

(* Mutant: ORDER BY created_at DESC. *)
PickNewest(r) ==
    /\ req[r].pc = "pick"
    /\ LET alive == {e \in req[r].matched : Live(e)} IN
       \/ alive = {} /\ Reply(r, "error")
       \/ \E c \in alive :
             /\ \A e \in alive : e <= c
             /\ req' = [req EXCEPT ![r].pc = "repoint", ![r].canonical = c]
             /\ UNCHANGED answer
    /\ UNCHANGED <<tables, next, tx>>

(* Case C: the oldest match that is still live becomes the canonical. *)
PickCanonical(r) ==
    /\ req[r].pc = "pick"
    /\ LET alive == {e \in req[r].matched : Live(e)} IN
       \/ alive = {} /\ Reply(r, "error")
       \/ \E c \in alive :
             /\ \A e \in alive : c <= e
             /\ req' = [req EXCEPT ![r].pc = "repoint", ![r].canonical = c]
             /\ UNCHANGED answer
    /\ UNCHANGED <<tables, next, tx>>

(* 1. Re-point the identifiers committed to the merged entities by now. *)
RepointIdentifiers(r) ==
    /\ req[r].pc = "repoint" /\ WaitsFor(r) = {}
    /\ tx' = [tx EXCEPT ![r].relink = [i \in Identifiers |->
                 IF i \in IdsOfMerged(r) THEN req[r].canonical ELSE None]]
    /\ Goto(r, "absorb")
    /\ UNCHANGED <<tables, next>>

(* 2-8. Re-point the interactions, update the canonical row, record the     *)
(* links and soft-delete the merged rows, whatever they have become.        *)
AbsorbMerged(r) ==
    /\ req[r].pc = "absorb" /\ WaitsFor(r) = {}
    /\ tx' = [tx EXCEPT ![r].moved = RowsOfMerged(r), ![r].absorbed = Merged(r)]
    /\ Goto(r, "attach")
    /\ UNCHANGED <<tables, next>>

(* Case B, 9., and the INSERTs of LinkEntityManuallyHandler. *)
AttachIdentifiers(r) ==
    /\ req[r].pc = "attach" /\ WaitsFor(r) = {}
    /\ tx' = [tx EXCEPT ![r].relink = bulkLinkIdentifiers(r, req[r].canonical)]
    /\ Goto(r, "commit")
    /\ UNCHANGED <<tables, next>>

(* fn_increment_usage (a resolve only) and COMMIT publish every write. *)
Commit(r) ==
    /\ req[r].pc = "commit"
    /\ owner' = [i \in Identifiers |->
           IF tx[r].relink[i] # None THEN tx[r].relink[i] ELSE owner[i]]
    /\ state' = [e \in Entities |->
           IF e = req[r].fresh THEN "live"
           ELSE IF e \in tx[r].absorbed /\ Live(e) THEN "merged" ELSE state[e]]
    /\ links' = links \cup ({req[r].canonical} \X tx[r].absorbed)
    /\ loggedOn' = [x \in Requests |->
           IF x \in tx[r].moved THEN req[r].canonical ELSE loggedOn[x]]
    /\ usage' = IF req[r].kind = "resolve" THEN usage + 1 ELSE usage
    /\ tx' = [tx EXCEPT ![r] = EmptyTx]
    /\ Goto(r, "fetch")
    /\ UNCHANGED next

(* The answer is read after the commit and misses a row merged meanwhile;  *)
(* LinkEntityManuallyHandler reads the identifiers only.                    *)
FetchResolved(r) ==
    /\ req[r].pc = "fetch"
    /\ Reply(r, IF req[r].kind = "resolve" /\ ~Live(req[r].canonical) THEN "error" ELSE "ok")
    /\ UNCHANGED <<tables, next, tx>>

-----------------------------------------------------------------------------
(* LinkEntityManuallyHandler *)

LinkExists(r) ==
    /\ CanStart(r, "link")
    /\ \E e \in Entities :
           IF Live(e)
           THEN \E S \in SUBSET Identifiers : S # {} /\ Accept(r, "link", S, e, "conflict")
           ELSE Reply(r, "not_found")
    /\ UNCHANGED <<tables, next, tx>>

(* The conflict check compares values only, outside the transaction. *)
CheckConflict(r) ==
    /\ req[r].pc = "conflict"
    /\ IF \E i \in req[r].ids, j \in Identifiers :
             ValueOf[i] = ValueOf[j] /\ owner[j] \notin {None, req[r].target}
       THEN Reply(r, "conflict")
       ELSE /\ req' = [req EXCEPT ![r].pc = "attach", ![r].canonical = req[r].target]
            /\ UNCHANGED answer
    /\ UNCHANGED <<tables, next, tx>>

-----------------------------------------------------------------------------
(* LogInteractionHandler: the entity is checked, then the row inserted by a *)
(* transaction that reads nothing (external_ref: see the README).           *)

LogExists(r) ==
    /\ CanStart(r, "log")
    /\ \E e \in Entities :
           IF Live(e) THEN Accept(r, "log", {}, e, "write") ELSE Reply(r, "not_found")
    /\ UNCHANGED <<tables, next, tx>>

LogWrite(r) ==
    /\ req[r].pc = "write"
    /\ loggedOn' = [loggedOn EXCEPT ![r] = req[r].target]
    /\ Reply(r, "ok")
    /\ UNCHANGED <<state, owner, links, usage, next, tx>>

-----------------------------------------------------------------------------
(* DeleteEntityHandler: fn_anonymize_entity, a function of the database,    *)
(* erases the entity and its identifiers in one statement.                  *)
Erase(r) ==
    /\ CanStart(r, "erase")
    /\ \E e \in Entities :
          IF state[e] \in {"absent", "erased"}
          THEN Reply(r, "not_found") /\ UNCHANGED <<state, owner>>
          ELSE /\ \A s \in Requests \ {r} :
                     /\ e \notin EntitiesLockedBy(s)
                     /\ \A i \in IdsLockedBy(s) : owner[i] # e
               /\ Reply(r, "ok")
               /\ state' = [state EXCEPT ![e] = "erased"]
               /\ owner' = [i \in Identifiers |-> IF owner[i] = e THEN None ELSE owner[i]]
    /\ UNCHANGED <<links, loggedOn, usage, next, tx>>

(* Mutant: the handler returns without the deferred Rollback. *)
AbortWithoutRollback(r) == Reply(r, "error") /\ UNCHANGED <<tables, next, tx>>

(* Any statement may fail; the deferred Rollback drops the pending writes. *)
Abort(r) ==
    /\ tx' = [tx EXCEPT ![r] = EmptyTx]
    /\ Reply(r, "error")
    /\ UNCHANGED <<tables, next>>

Fail(r)         == req[r].pc \notin {"idle", "done"} /\ Abort(r)
DeadlockFail(r) == Deadlocked(r) /\ Abort(r)

-----------------------------------------------------------------------------
Start(r) == CheckQuota(r) \/ LinkExists(r) \/ LogExists(r) \/ Erase(r)

Step(r) ==
    \/ Lookup(r) \/ CreateEntity(r) \/ PickCanonical(r) \/ RepointIdentifiers(r)
    \/ AbsorbMerged(r) \/ AttachIdentifiers(r) \/ Commit(r) \/ FetchResolved(r)
    \/ CheckConflict(r) \/ LogWrite(r) \/ DeadlockFail(r)

AllDone == (\A r \in Requests : req[r].pc = "done") /\ UNCHANGED vars

Init ==
    /\ state = [e \in Entities |-> IF e <= Seeded THEN "live" ELSE "absent"]
    /\ owner \in [Identifiers -> {None} \cup 1 .. Seeded]
    /\ links = {}
    /\ loggedOn = [r \in Requests |-> None]
    /\ usage \in Counted
    /\ next = Seeded + 1
    /\ req = [r \in Requests |-> NotStarted]
    /\ tx = [r \in Requests |-> EmptyTx]
    /\ answer = [r \in Requests |-> NoAnswer]

Next == AllDone \/ \E r \in Requests : Start(r) \/ Step(r) \/ Fail(r)

(* The server and the database serve an accepted request to its end; no   *)
(* client has to call, and no statement has to fail.                       *)
Spec == Init /\ [][Next]_vars /\ \A r \in Requests : WF_vars(Step(r))

-----------------------------------------------------------------------------
(***************************************************************************)
(* Properties                                                              *)
(***************************************************************************)

(* Every soft-deleted entity has a row in entity_links to an older entity, *)
(* however merges overlap: a canonical is live when it is picked and the    *)
(* oldest of the live matches, and an entity is first soft-deleted by a     *)
(* merge that saw it live.                                                  *)
MergedIntoOlder ==
    \A e \in Entities : state[e] = "merged" => \E c \in Entities : c < e /\ <<c, e>> \in links

(* What makes MergedIntoOlder inductive.  A handler about to create knows  *)
(* an id nobody else creates and nobody sees; it only ever matched entities *)
(* that exist; and of those it merges away, the ones still live are younger *)
(* than its canonical.                                                      *)
Creating(r) == req[r].fresh # None /\ req[r].pc \in {"create", "commit"}

HandlerInv(r) ==
    /\ req[r].fresh # None => req[r].pc \in {"create", "commit", "fetch"}
    /\ Creating(r) => req[r].fresh < next /\ state[req[r].fresh] = "absent"
    /\ \A e \in req[r].matched : state[e] # "absent"
    /\ req[r].pc \in {"lookup", "create", "conflict"} => req[r].matched = {}
    /\ req[r].pc \in {"repoint", "absorb", "attach", "commit"} =>
           \A e \in Merged(r) : Live(e) => req[r].canonical \in Entities
                                         /\ req[r].canonical < e
    /\ tx[r].absorbed \subseteq Merged(r)
    /\ tx[r].absorbed # {} => req[r].pc \in {"attach", "commit"}

FreshDistinct ==
    \A r, s \in Requests :
        r # s /\ Creating(r) /\ Creating(s) => req[r].fresh # req[s].fresh

UnbornAbsent == \A e \in Entities : next <= e => state[e] = "absent"

MergeInv ==
    /\ TypeOK
    /\ \A r \in Requests : HandlerInv(r)
    /\ FreshDistinct /\ UnbornAbsent /\ MergedIntoOlder

(* The audit trail ends: from a merged entity, entity_links lead to one    *)
(* that was not merged.  (No set of merged entities keeps its links.)       *)
TrailReachesSurvivor ==
    \A S \in SUBSET {e \in Entities : state[e] = "merged"} :
        S # {} => \E e \in S, c \in Entities \ S : <<c, e>> \in links

(* An identifier moves from one entity to another only along an audited    *)
(* merge that leaves its former owner dead: no INSERT steals it.            *)
RelinkOnlyByMerge ==
    [][\A i \in Identifiers :
        owner[i] # None /\ owner'[i] \notin {None, owner[i]}
            => /\ <<owner'[i], owner[i]>> \in links'
               /\ state'[owner[i]] # "live"]_vars

(* The quota is checked before the transaction that counts: a month ends   *)
(* above its limit by less than the number of requests served at once.      *)
QuotaOverrunBounded ==
    Limit # Unlimited => usage <= Limit + MaxInFlight - 1

(* A request that was accepted is answered, deadlocked or not. *)
EveryRequestAnswered ==
    \A r \in Requests : req[r].pc # "idle" ~> req[r].pc = "done"

(* One request at a time, identifiers belong to live entities: what a merge *)
(* or an erasure kills keeps none, whatever fails on the way.               *)
LinkedToLive == \A i \in Identifiers : owner[i] # None => Live(owner[i])

(* One request at a time, a merge takes every interaction along.            *)
NoRowOnMerged == \A x \in Requests : loggedOn[x] # None => state[loggedOn[x]] # "merged"

Partition == INSTANCE IdentityPartition
                 WITH class <- owner, alive <- {e \in Entities : Live(e)}

(* One request at a time, the handlers implement a partition of the         *)
(* identifiers into entities: README.md:10.                                 *)
ImplementsPartition == Partition!Spec
=============================================================================
