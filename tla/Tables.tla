------------------------------- MODULE Tables -------------------------------
(***************************************************************************)
(* What the reads of the dashboard and of the agents read, and what other  *)
(* requests do to it between the statements of a read.  The handlers that  *)
(* write are the subject of EntityResolution, BehavioralGraph and Access;  *)
(* here each of them is the one transaction that readers see.              *)
(*                                                                         *)
(* One read is served, in any of a set of states of the tables: reads       *)
(* change nothing, so that two of them cannot disturb each other.          *)
(***************************************************************************)
EXTENDS Integers, FiniteSets, Sequences

CONSTANTS
    Entities,      \* numbers in the order of created_at
    Recs,          \* recommendations
    Tenants,       \* numbers in the order of created_at
    Seeds,         \* contents of interactions, recommendations and usage to begin with
    NewRows,       \* what can be logged: how long ago, and how it came out
    Limits,        \* monthly_resolution_limit of the plans, -1 for none
    StartTime,     \* when the read begins
    MaxTime,       \* bound on the time
    MaxChanges     \* bound on what is written during the read

Unlimited == -1

ASSUME TablesAssumption ==
    /\ Entities \subseteq Nat \ {0} /\ Tenants \subseteq Nat \ {0}
    /\ DOMAIN Limits = {"free", "builder", "enterprise"}
    /\ \A seed \in Seeds :
          /\ seed.rows \in Seq([entity : Entities, at : 0 .. StartTime, good : BOOLEAN])
          /\ seed.resolutions \in Nat
    /\ NewRows \subseteq [age : Nat, good : BOOLEAN]
    /\ StartTime \in Nat /\ MaxTime \in Nat /\ MaxChanges \in Nat

(* Nothing is logged before time began; recommendations name rows that exist. *)
ASSUME SeedsAssumption ==
    /\ StartTime <= MaxTime
    /\ \A row \in NewRows : row.age <= StartTime
    /\ \A seed \in Seeds :
          /\ seed.recs \in [Recs -> [at : Nat, followed : {"unset", "yes", "no"}, outcome : Nat]]
          /\ \A q \in Recs : seed.recs[q].outcome \in DOMAIN seed.rows \cup {0}

VARIABLES
    now,
    interactions,      \* rows in the order of insertion: entity, at, good
    entities,          \* rows: state, and last_interaction_at
    holder,            \* the entity that holds the identifiers e came with, 0 for none
    links,             \* entity_links: canonical and merged entity
    recommendations,   \* rows: at, followed, outcome (an interaction, or 0)
    tenants,           \* the tenants there are
    plan,              \* of the tenant that reads
    resolutions,       \* its resolution_count of the month
    changes,           \* how much was written since the read began
    read               \* the request that is served

data == <<interactions, entities, holder, links, recommendations, tenants, plan, resolutions>>
vars == <<now, data, changes, read>>

RowIds       == DOMAIN interactions
LiveEntities == {e \in Entities : entities[e].state = "live"}
RowsOf(e)    == {n \in RowIds : interactions[n].entity = e}

Idle    == [pc |-> "idle", kind |-> "none", status |-> "none"]
Reading == read.pc \notin {"idle", "done"}

(* A write during a read of its tables: other reads cannot see it. *)
Writes(kinds) ==
    /\ Reading /\ read.kind \in kinds /\ changes < MaxChanges
    /\ changes' = changes + 1 /\ UNCHANGED <<now, read>>

OfEntities == {"interactions", "entities", "details", "graph", "summary", "impact"}

(* The read ends with an answer. *)
Answered(r, status) == [r EXCEPT !.pc = "done", !.status = status]
Answer(status)      == read' = Answered(read, status)

Finished(kind, status) == read.pc = "done" /\ read.kind = kind /\ read.status = status

-----------------------------------------------------------------------------
(* LogInteractionHandler, with the trigger that keeps last_interaction_at. *)
LogInteraction(e, row) ==
    /\ Writes(OfEntities) /\ e \in LiveEntities
    /\ interactions' = Append(interactions, [entity |-> e, at |-> now - row.age, good |-> row.good])
    /\ entities' = [entities EXCEPT ![e].touched = now]
    /\ UNCHANGED <<holder, links, recommendations, tenants, plan, resolutions>>

(* A resolve that joins e to the older c. *)
Merge(c, e) ==
    /\ Writes(OfEntities) /\ c < e /\ c \in LiveEntities /\ e \in LiveEntities
    /\ interactions' = [n \in RowIds |->
           IF interactions[n].entity = e THEN [interactions[n] EXCEPT !.entity = c]
           ELSE interactions[n]]
    /\ holder' = [x \in Entities |-> IF holder[x] = e THEN c ELSE holder[x]]
    /\ entities' = [entities EXCEPT ![e].state = "merged"]
    /\ links' = links \cup {<<c, e>>}
    /\ resolutions' = resolutions + 1
    /\ UNCHANGED <<recommendations, tenants, plan>>

(* fn_anonymize_entity: the interactions stay. *)
Erase(e) ==
    /\ Writes(OfEntities) /\ e \in LiveEntities
    /\ holder' = [x \in Entities |-> IF holder[x] = e THEN 0 ELSE holder[x]]
    /\ entities' = [entities EXCEPT ![e].state = "erased"]
    /\ UNCHANGED <<interactions, links, recommendations, tenants, plan, resolutions>>

(* UpdateFeedback: last write wins. *)
UpdateFeedback(q, followed, n) ==
    /\ Writes({"summary", "impact"})
    /\ recommendations' = [recommendations EXCEPT ![q].followed = followed, ![q].outcome = n]
    /\ UNCHANGED <<interactions, entities, holder, links, tenants, plan, resolutions>>

DeleteTenant(t) ==
    /\ Writes({"tenants"}) /\ t \in tenants /\ tenants' = tenants \ {t}
    /\ UNCHANGED <<interactions, entities, holder, links, recommendations, plan, resolutions>>

ChangePlan(p) ==
    /\ Writes({"summary", "impact"}) /\ p # plan /\ plan' = p
    /\ UNCHANGED <<interactions, entities, holder, links, recommendations, tenants, resolutions>>

Tick == Reading /\ now < MaxTime /\ now' = now + 1 /\ UNCHANGED <<data, changes, read>>

-----------------------------------------------------------------------------
Touched(rows, e) ==
    LET at == {rows[n].at : n \in {m \in DOMAIN rows : rows[m].entity = e}}
    IN  IF at = {} THEN 0 ELSE CHOOSE t \in at : \A u \in at : u <= t

InitTables ==
    /\ now = StartTime /\ changes = 0 /\ links = {}
    /\ \E seed \in Seeds :
          /\ interactions = seed.rows
          /\ recommendations = seed.recs
          /\ resolutions = seed.resolutions
          /\ entities = [e \in Entities |-> [state |-> "live", touched |-> Touched(seed.rows, e)]]
    /\ holder = [e \in Entities |-> e]
    /\ tenants = Tenants
    /\ plan \in DOMAIN Limits

NextTables ==
    \/ Tick
    \/ \E e \in Entities : Erase(e) \/ \E row \in NewRows : LogInteraction(e, row)
    \/ \E c, e \in Entities : Merge(c, e)
    \/ \E q \in Recs, f \in {"yes", "no"}, n \in RowIds \cup {0} : UpdateFeedback(q, f, n)
    \/ \E t \in Tenants : DeleteTenant(t)
    \/ \E p \in DOMAIN Limits : ChangePlan(p)
=============================================================================
