------------------------------ MODULE Listing -------------------------------
(***************************************************************************)
(* The lists: interactions of an entity, entities (core_handlers.go) and   *)
(* tenants (admin_handlers.go), which a client walks page by page; the     *)
(* details of an entity and the graph of all of them                       *)
(* (analytics_handlers.go).                                                *)
(*                                                                         *)
(* Filters are fixed for a walk and cut the table down before anything else *)
(* happens, so the table stands for the rows that pass them.  A page is the *)
(* set of its rows; rows that sort alike come in any order, another one     *)
(* each time.                                                              *)
(***************************************************************************)
EXTENDS Tables

CONSTANTS
    Asked,          \* values of the query parameter limit
    MaxPage,        \* 200, 100 and 100 rows in the code, 500 in the graph
    DefaultPage,    \* 50 rows, 200 in the graph
    Recent          \* interactions among the details of an entity, 20 in the code

ASSUME ListingAssumption ==
    /\ Asked \subseteq Nat /\ MaxPage \in Nat \ {0} /\ DefaultPage \in 1 .. MaxPage
    /\ Recent \in Nat \ {0}

Lists == {"interactions", "entities", "tenants"}

(* ORDER BY occurred_at, last_interaction_at or created_at, all DESC. *)
SortKey(kind, x) ==
    CASE kind = "interactions" -> interactions[x].at
      [] kind = "entities"     -> entities[x].touched
      [] kind = "tenants"      -> x

Members(kind, e) ==
    CASE kind = "interactions" -> RowsOf(e)
      [] kind = "entities"     -> LiveEntities
      [] kind = "tenants"      -> tenants

Listed(kind, e) == [x \in Members(kind, e) |-> SortKey(kind, x)]

(* The rows that come first, n of them. *)
Firsts(sort, n) ==
    {A \in SUBSET DOMAIN sort :
        /\ Cardinality(A) = n \/ (A = DOMAIN sort /\ Cardinality(A) < n)
        /\ \A x \in A, y \in DOMAIN sort \ A : sort[x] >= sort[y]}

(* Mutant: the rows come in no order. *)
PagesInNoOrder(sort, offset, limit) ==
    {P \in SUBSET DOMAIN sort :
        \E A \in SUBSET DOMAIN sort : Cardinality(A) = offset /\ A \cap P = {}
                                      /\ Cardinality(P) <= limit
                                      /\ (A \cup P = DOMAIN sort \/ Cardinality(P) = limit)}

(* LIMIT and OFFSET. *)
Pages(sort, offset, limit) ==
    {P \in SUBSET DOMAIN sort :
        \E A \in Firsts(sort, offset) : A \cap P = {} /\ A \cup P \in Firsts(sort, offset + limit)}

-----------------------------------------------------------------------------
TiedRows(sort) == {x \in DOMAIN sort : \E y \in DOMAIN sort \ {x} : sort[y] = sort[x]}

(* A limit GetAllEntitiesHandler cannot take is cut down or ignored. *)
PageSize(asked) ==
    IF asked > MaxPage THEN MaxPage ELSE IF asked = 0 THEN DefaultPage ELSE asked

Phase(kind) == IF kind = "interactions" THEN "verify" ELSE "query"

(* The first page of a walk is asked for. *)
StartWalk(kind, e, limit) ==
    read' = [pc |-> Phase(kind), kind |-> kind, status |-> "none",
             about |-> e, limit |-> limit, offset |-> 0, todo |-> {"count", "page"},
             page |-> {}, seen |-> {}, tied |-> {}, start |-> Listed(kind, e)]

(* ListInteractionsHandler *)
ListInteractions ==
    /\ read = Idle
    /\ \E asked \in Asked, e \in Entities :
          IF asked \in 1 .. MaxPage THEN StartWalk("interactions", e, asked)
          ELSE Answer("bad_request")
    /\ UNCHANGED <<now, data, changes>>

(* GetAllEntitiesHandler *)
GetAllEntities ==
    /\ read = Idle
    /\ \E asked \in Asked : StartWalk("entities", 0, PageSize(asked))
    /\ UNCHANGED <<now, data, changes>>

(* GetAdminTenantsHandler *)
GetAdminTenants ==
    /\ read = Idle
    /\ \E asked \in Asked :
          IF asked \in 1 .. MaxPage THEN StartWalk("tenants", 0, asked)
          ELSE Answer("bad_request")
    /\ UNCHANGED <<now, data, changes>>

(* ListInteractionsHandler: the entity is live. *)
VerifyEntity ==
    /\ read.pc = "verify"
    /\ IF read.about \in LiveEntities THEN read' = [read EXCEPT !.pc = "query"]
       ELSE Answer("not_found")
    /\ UNCHANGED <<now, data, changes>>

(* The count of the rows decides nothing. *)
CountRows ==
    /\ read.pc = "query" /\ read.kind \in Lists /\ "count" \in read.todo
    /\ read' = [read EXCEPT !.todo = @ \ {"count"}]
    /\ UNCHANGED <<now, data, changes>>

FetchPage(kind) ==
    /\ read.pc = "query" /\ read.kind = kind /\ "page" \in read.todo
    /\ LET sort == Listed(kind, read.about) IN
       \E P \in Pages(sort, read.offset, read.limit) :
          read' = [read EXCEPT !.todo = @ \ {"page"}, !.page = P, !.seen = @ \cup P,
                               !.tied = @ \cup TiedRows(sort)]
    /\ UNCHANGED <<now, data, changes>>

(* The rows come after the count, or beside it in the list of entities. *)
FetchInteractions == FetchPage("interactions") /\ "count" \notin read.todo
FetchEntities     == FetchPage("entities")
FetchTenants      == FetchPage("tenants") /\ "count" \notin read.todo

(* The client asks for the page after it until one comes back short. *)
NextPage ==
    /\ read.pc = "query" /\ read.kind \in Lists /\ read.todo = {}
    /\ IF Cardinality(read.page) < read.limit THEN Answer("walked")
       ELSE read' = [read EXCEPT !.offset = @ + read.limit, !.todo = {"count", "page"},
                                 !.pc = Phase(read.kind)]
    /\ UNCHANGED <<now, data, changes>>

-----------------------------------------------------------------------------
(* GetEntityHandler: the row first, *)
FetchEntity ==
    /\ read = Idle
    /\ \E e \in Entities :
          IF e \in LiveEntities
          THEN read' = [pc |-> "query", kind |-> "details", status |-> "none", about |-> e,
                        identifiers |-> {}, recent |-> {},
                        todo |-> {"identifiers", "recent"}, start |-> RowsOf(e)]
          ELSE Answer("not_found")
    /\ UNCHANGED <<now, data, changes>>

HeldBy(S) == {x \in Entities : holder[x] \in S}

(* then, beside each other, its identifiers *)
FetchIdentifiers ==
    /\ read.pc = "query" /\ read.kind = "details" /\ "identifiers" \in read.todo
    /\ read' = [read EXCEPT !.todo = @ \ {"identifiers"}, !.identifiers = HeldBy({read.about})]
    /\ UNCHANGED <<now, data, changes>>

(* and its last interactions. *)
FetchRecent ==
    /\ read.pc = "query" /\ read.kind = "details" /\ "recent" \in read.todo
    /\ \E R \in Firsts(Listed("interactions", read.about), Recent) :
          read' = [read EXCEPT !.todo = @ \ {"recent"}, !.recent = R]
    /\ UNCHANGED <<now, data, changes>>

(* g.Wait *)
Joined ==
    /\ read.pc = "query" /\ read.kind = "details" /\ read.todo = {}
    /\ Answer("ok")
    /\ UNCHANGED <<now, data, changes>>

-----------------------------------------------------------------------------
(* Mutant: newest first. *)
NewestEntities(n) == CHOOSE A \in Firsts([e \in LiveEntities |-> e], n) : TRUE

(* ORDER BY created_at ASC. *)
OldestEntities(n) == CHOOSE A \in Firsts([e \in LiveEntities |-> 0 - e], n) : TRUE

(* GetEntityGraphHandler: the oldest entities, one more than asked for to see *)
(* whether there are any.                                                   *)
FetchGraphEntities ==
    /\ read = Idle
    /\ \E asked \in Asked :
          LET limit  == IF asked \in 1 .. MaxPage THEN asked ELSE DefaultPage
              listed == OldestEntities(limit)
          IN  IF listed = {} THEN Answer("empty")
              ELSE read' = [pc |-> "query", kind |-> "graph", status |-> "none", listed |-> listed,
                            truncated |-> OldestEntities(limit + 1) # listed,
                            identifiers |-> {}, edges |-> {}, links |-> {},
                            todo |-> {"identifiers", "edges", "links"},
                            start |-> UNION {RowsOf(e) : e \in listed},
                            started |-> HeldBy(listed)]
    /\ UNCHANGED <<now, data, changes>>

(* beside each other: their identifiers, *)
FetchGraphIdentifiers ==
    /\ read.pc = "query" /\ read.kind = "graph" /\ "identifiers" \in read.todo
    /\ read' = [read EXCEPT !.todo = @ \ {"identifiers"}, !.identifiers = HeldBy(read.listed)]
    /\ UNCHANGED <<now, data, changes>>

(* their interactions, counted by entity and api, *)
FetchEdges ==
    /\ read.pc = "query" /\ read.kind = "graph" /\ "edges" \in read.todo
    /\ read' = [read EXCEPT !.todo = @ \ {"edges"}, !.edges = UNION {RowsOf(e) : e \in read.listed}]
    /\ UNCHANGED <<now, data, changes>>

(* and the links that lead from them; *)
FetchLinks ==
    /\ read.pc = "query" /\ read.kind = "graph" /\ "links" \in read.todo
    /\ read' = [read EXCEPT !.todo = @ \ {"links"},
                            !.links = {l \in links : l[1] \in read.listed}]
    /\ UNCHANGED <<now, data, changes>>

(* wg.Wait *)
JoinedGraph ==
    /\ read.pc = "query" /\ read.kind = "graph" /\ read.todo = {}
    /\ Answer("ok")
    /\ UNCHANGED <<now, data, changes>>

(* A statement fails, or the context ends: the other goroutine is cancelled *)
(* and the answer is 500.                                                   *)
ListingFails ==
    /\ Reading /\ read.kind \in Lists \cup {"details", "graph"}
    /\ Answer("error")
    /\ UNCHANGED <<now, data, changes>>

NextListing ==
    \/ ListInteractions \/ GetAllEntities \/ GetAdminTenants \/ VerifyEntity \/ CountRows
    \/ FetchInteractions \/ FetchEntities \/ FetchTenants \/ NextPage
    \/ FetchEntity \/ FetchIdentifiers \/ FetchRecent \/ Joined
    \/ FetchGraphEntities \/ FetchGraphIdentifiers \/ FetchEdges \/ FetchLinks \/ JoinedGraph
    \/ ListingFails

-----------------------------------------------------------------------------
(***************************************************************************)
(* Properties                                                              *)
(***************************************************************************)

(* Whatever is logged, merged, erased or deleted between the pages: a walk    *)
(* that came to its end has seen every row that was there when it began,     *)
(* except a row that was moved up by a new interaction, rows that sort like  *)
(* another one, and what slid up when a row above was removed.              *)
WalkSeesAll ==
    \A kind \in Lists : Finished(kind, "walked") =>
        LET start   == read.start
            final   == Listed(kind, read.about)
            Removed == DOMAIN start \ DOMAIN final
        IN  \A x \in DOMAIN start \ (read.seen \cup read.tied) :
               \/ \E y \in Removed : SortKey(kind, y) >= start[x]
               \/ final[x] # start[x]

(* Merges and erasures during a read of several statements hide nothing more:  *)
(* the details of an entity leave out an interaction only for newer ones, or   *)
(* because the entity itself was merged away after its row was read; what hung *)
(* on an entity of the graph when it was listed is on the graph (a merge goes  *)
(* to an older entity, and the graph has the oldest), but for what was erased. *)
MergesHideNothing ==
    /\ Finished("details", "ok") =>
          \/ read.about \in {l[2] : l \in links}
          \/ \A n \in read.start \ read.recent :
                /\ Cardinality(read.recent) = Recent
                /\ \A m \in read.recent : interactions[m].at >= interactions[n].at
    /\ Finished("graph", "ok") =>
          /\ read.start \subseteq read.edges
          /\ \A x \in read.started \ read.identifiers : holder[x] = 0
=============================================================================
