---------------------------- MODULE Reads_proofs ----------------------------
(* Theorems about Reads: a summary has no gap between its periods, the usage *)
(* and the history say what they seem to say, the report of impact counts    *)
(* each interaction once, and the details, the graph and a walk over pages   *)
(* miss nothing but what their properties name.                             *)
EXTENDS Reads, FiniteSetTheorems, TLAPS

Rows == [entity : Entities, at : Int, good : BOOLEAN]

(* A row is of an entity that was not merged: what was erased stays erased. *)
DataInv ==
    /\ now \in Int /\ interactions \in Seq(Rows)
    /\ DOMAIN entities = Entities
    /\ \A e \in Entities : DOMAIN entities[e] = {"state", "touched"}
    /\ \A n \in RowIds : entities[interactions[n].entity].state \in {"live", "erased"}

SummaryFields == {"pc", "kind", "status", "period", "compare", "since", "until", "known", "counted",
                  "accuracy", "previous", "previousSince", "named", "with", "without"}

OfSummary == {"current", "current_builder", "accuracy", "previous"}

ShapeInv ==
    /\ {"pc", "kind", "status"} \subseteq DOMAIN read
    /\ read.pc \in OfSummary => read.kind = "summary"
    /\ read.kind = "summary" => DOMAIN read = SummaryFields

(* Whatever is to be counted of the period has been. *)
Counted ==
    \A n \in read.known :
        IF read.period = "all"
        THEN n \in read.counted \/ entities[interactions[n].entity].state = "erased"
        ELSE Between(n, read.since, read.until) => n \in read.counted

SummaryInv ==
    read.kind = "summary" =>
        /\ read.pc \in {"plan", "current", "current_builder", "accuracy", "previous", "done"}
        /\ read.known \subseteq RowIds
        /\ read.until \in Int /\ read.until <= now
        /\ read.period # "all" => read.since = read.until - Period
        /\ read.compare => read.period # "all"
        /\ read.pc \in {"accuracy", "previous"} => Counted
        /\ SummaryHasNoGap

UsageInv   == read.kind = "usage" => read.pc = "done" /\ FullMeansRefused
HistoryInv == read.kind = "history" => read.pc = "done" /\ HistoryInOrder

PlanInv == plan \in DOMAIN Limits /\ resolutions \in Nat

ReadsInv == DataInv /\ PlanInv /\ ShapeInv /\ SummaryInv /\ UsageInv /\ HistoryInv

Told == {"summary", "usage", "history"}

-----------------------------------------------------------------------------
LEMMA RowsTyped ==
    ASSUME NEW s \in Seq(Rows)
    PROVE  /\ Len(s) \in Nat /\ DOMAIN s = 1 .. Len(s)
           /\ \A n \in DOMAIN s : s[n] \in Rows /\ s[n].entity \in Entities /\ s[n].at \in Int
  <1>1. Len(s) \in Nat /\ DOMAIN s = 1 .. Len(s) /\ \A n \in 1 .. Len(s) : s[n] \in Rows
    OBVIOUS
  <1>2. \A row \in Rows : row.entity \in Entities /\ row.at \in Int
    BY DEF Rows
  <1> QED
    BY <1>1, <1>2

LEMMA ReadsInit == Init => ReadsInv
  <1> SUFFICES ASSUME Init PROVE ReadsInv
    OBVIOUS
  <1> USE DEF Init, InitTables, Idle
  <1>1. DataInv
    <2>1. PICK seed \in Seeds :
              /\ interactions = seed.rows
              /\ entities = [e \in Entities |-> [state |-> "live", touched |-> Touched(seed.rows, e)]]
      OBVIOUS
    <2>2. interactions \in Seq(Rows)
      <3>1. [entity : Entities, at : 0 .. StartTime, good : BOOLEAN] \subseteq Rows
        BY TablesAssumption DEF Rows
      <3>2. \A S, T : S \subseteq T => Seq(S) \subseteq Seq(T)
        OBVIOUS
      <3> QED
        BY ZenonT(40), <2>1, <3>1, <3>2, TablesAssumption
    <2>3. \A n \in RowIds : interactions[n].entity \in Entities
      BY <2>2, RowsTyped DEF RowIds
    <2>4. \A e \in Entities : DOMAIN entities[e] = {"state", "touched"} /\ entities[e].state = "live"
      BY <2>1
    <2>5. now \in Int /\ DOMAIN entities = Entities
      BY <2>1, TablesAssumption
    <2> QED
      BY <2>2, <2>3, <2>4, <2>5 DEF DataInv
  <1>2. ShapeInv /\ SummaryInv /\ UsageInv /\ HistoryInv
    BY DEF ShapeInv, OfSummary, SummaryInv, UsageInv, HistoryInv
  <1>3. PlanInv
    BY TablesAssumption DEF PlanInv
  <1> QED
    BY <1>1, <1>2, <1>3 DEF ReadsInv

-----------------------------------------------------------------------------
(* Writers *)

(* What a write leaves as it was. *)
Kept ==
    /\ \A n \in RowIds : n \in RowIds' /\ interactions'[n].at = interactions[n].at
    /\ \A n \in RowIds : entities[interactions[n].entity].state = "erased" =>
           entities'[interactions'[n].entity].state = "erased"

LEMMA WriterSteps ==
    ASSUME DataInv, ShapeInv, NextTables
    PROVE  DataInv' /\ Kept /\ read' = read /\ now' >= now /\ Reading
  <1> USE DEF Writes
  <1>1. CASE Tick
    BY <1>1 DEF Tick, data, DataInv, Kept, RowIds
  <1>2. ASSUME NEW e \in Entities, Erase(e)
        PROVE  DataInv' /\ Kept /\ read' = read /\ now' >= now /\ Reading
    BY <1>2 DEF Erase, DataInv, Kept, RowIds
  <1>3. ASSUME NEW e \in Entities, NEW row \in NewRows, LogInteraction(e, row)
        PROVE  DataInv' /\ Kept /\ read' = read /\ now' >= now /\ Reading
    <2> DEFINE new == [entity |-> e, at |-> now - row.age, good |-> row.good]
    <2>1. new \in Rows /\ new.entity = e
      BY TablesAssumption DEF DataInv, Rows
    <2>2. interactions' = Append(interactions, new) /\ entities[e].state = "live"
      BY <1>3 DEF LogInteraction, LiveEntities
    <2>3. /\ interactions' \in Seq(Rows)
          /\ \A n \in RowIds : n \in RowIds' /\ interactions'[n] = interactions[n]
          /\ \A n \in RowIds' \ RowIds : interactions'[n] = new
      <3> HIDE DEF new
      <3> QED
        BY <2>1, <2>2 DEF DataInv, RowIds
    <2>4. /\ DOMAIN entities' = Entities
          /\ \A x \in Entities : DOMAIN entities'[x] = {"state", "touched"}
          /\ \A x \in Entities : entities'[x].state = entities[x].state
      BY <1>3 DEF LogInteraction, DataInv
    <2>5. now' = now /\ read' = read /\ Reading
      BY <1>3 DEF LogInteraction
    <2>6. \A n \in RowIds : interactions[n].entity \in Entities
      BY RowsTyped DEF DataInv, RowIds
    <2>7. \A n \in RowIds' : entities'[interactions'[n].entity].state \in {"live", "erased"}
      <3> SUFFICES ASSUME NEW n \in RowIds'
                   PROVE  entities'[interactions'[n].entity].state \in {"live", "erased"}
        OBVIOUS
      <3>1. CASE n \in RowIds
        <4>1. interactions'[n].entity = interactions[n].entity /\ interactions[n].entity \in Entities
          BY <2>3, <2>6, <3>1
        <4>2. entities[interactions[n].entity].state \in {"live", "erased"}
          BY <3>1 DEF DataInv
        <4> QED
          BY <2>4, <4>1, <4>2
      <3>2. CASE n \notin RowIds
        <4>1. interactions'[n].entity = e
          BY <2>1, <2>3, <3>2
        <4> QED
          BY <2>2, <2>4, <4>1
      <3> QED
        BY <3>1, <3>2
    <2> QED
      BY <2>3, <2>4, <2>5, <2>6, <2>7 DEF DataInv, Kept
  <1>4. ASSUME NEW c \in Entities, NEW e \in Entities, Merge(c, e)
        PROVE  DataInv' /\ Kept /\ read' = read /\ now' >= now /\ Reading
    <2>1. c # e /\ entities[c].state = "live" /\ entities[e].state = "live"
      BY <1>4, TablesAssumption DEF Merge, LiveEntities
    <2>2. /\ RowIds' = RowIds /\ interactions' \in Seq(Rows)
          /\ \A n \in RowIds : /\ interactions'[n].at = interactions[n].at
                               /\ interactions'[n].entity = IF interactions[n].entity = e THEN c
                                                            ELSE interactions[n].entity
      <3>1. \A n \in RowIds : interactions[n] \in Rows
        BY RowsTyped DEF DataInv, RowIds
      <3>2. RowIds = 1 .. Len(interactions) /\ Len(interactions) \in Nat
        BY RowsTyped DEF DataInv, RowIds
      <3>3. \A n \in RowIds : [interactions[n] EXCEPT !.entity = c] \in Rows
        BY <3>1 DEF Rows
      <3>4. interactions' = [n \in 1 .. Len(interactions) |->
                IF interactions[n].entity = e THEN [interactions[n] EXCEPT !.entity = c]
                ELSE interactions[n]]
        BY <1>4, <3>2 DEF Merge
      <3>5. interactions' \in Seq(Rows) /\ RowIds' = RowIds
        BY <3>1, <3>2, <3>3, <3>4 DEF RowIds
      <3> QED
        BY <3>1, <3>2, <3>4, <3>5 DEF Rows
    <2>3. DOMAIN entities' = Entities /\ \A x \in Entities : DOMAIN entities'[x] = {"state", "touched"}
      BY <1>4 DEF Merge, DataInv
    <2>7. \A x \in Entities : x # e => entities'[x] = entities[x]
      BY <1>4 DEF Merge, DataInv
    <2>4. now' = now /\ read' = read /\ Reading
      BY <1>4 DEF Merge
    <2>5. \A n \in RowIds : interactions[n].entity \in Entities
      BY RowsTyped DEF DataInv, RowIds
    <2>6. \A n \in RowIds :
              /\ entities'[interactions'[n].entity].state \in {"live", "erased"}
              /\ entities[interactions[n].entity].state = "erased" =>
                    entities'[interactions'[n].entity].state = "erased"
      <3> SUFFICES ASSUME NEW n \in RowIds
                   PROVE  /\ entities'[interactions'[n].entity].state \in {"live", "erased"}
                          /\ entities[interactions[n].entity].state = "erased" =>
                                entities'[interactions'[n].entity].state = "erased"
        OBVIOUS
      <3>1. entities[interactions[n].entity].state \in {"live", "erased"}
        BY DEF DataInv
      <3>2. CASE interactions[n].entity = e
        <4>1. interactions'[n].entity = c
          BY <2>2, <3>2
        <4>2. entities'[c] = entities[c]
          BY <2>1, <2>7
        <4> QED
          BY <2>1, <3>2, <4>1, <4>2
      <3>3. CASE interactions[n].entity # e
        <4>1. interactions'[n].entity = interactions[n].entity
          BY <2>2, <3>3
        <4>2. entities'[interactions[n].entity] = entities[interactions[n].entity]
          BY <2>5, <2>7, <3>3
        <4> QED
          BY <3>1, <4>1, <4>2
      <3> QED
        BY <3>2, <3>3
    <2>8. now' \in Int /\ now' >= now
      BY <2>4 DEF DataInv
    <2>9. \A n \in RowIds' : entities'[interactions'[n].entity].state \in {"live", "erased"}
      BY <2>2, <2>6
    <2>10. DataInv'
      BY <2>2, <2>3, <2>8, <2>9 DEF DataInv
    <2>11. Kept
      BY <2>2, <2>6 DEF Kept
    <2> QED
      BY <2>4, <2>8, <2>10, <2>11
  <1>5. ASSUME NEW q \in Recs, NEW f \in {"yes", "no"}, NEW n \in RowIds \cup {0}, UpdateFeedback(q, f, n)
        PROVE  DataInv' /\ Kept /\ read' = read /\ now' >= now /\ Reading
    BY <1>5 DEF UpdateFeedback, DataInv, Kept, RowIds
  <1>6. ASSUME NEW t \in Tenants, DeleteTenant(t)
        PROVE  DataInv' /\ Kept /\ read' = read /\ now' >= now /\ Reading
    BY <1>6 DEF DeleteTenant, DataInv, Kept, RowIds
  <1>7. ASSUME NEW p \in DOMAIN Limits, ChangePlan(p)
        PROVE  DataInv' /\ Kept /\ read' = read /\ now' >= now /\ Reading
    BY <1>7 DEF ChangePlan, DataInv, Kept, RowIds
  <1> QED
    BY <1>1, <1>2, <1>3, <1>4, <1>5, <1>6, <1>7 DEF NextTables

LEMMA WritersKeep ==
    ASSUME ReadsInv, NextTables
    PROVE  ReadsInv'
  <1>1. DataInv' /\ Kept /\ read' = read /\ now' >= now /\ Reading
    BY WriterSteps DEF ReadsInv
  <1>2. ShapeInv' /\ UsageInv' /\ HistoryInv'
    BY <1>1 DEF ReadsInv, ShapeInv, UsageInv, HistoryInv, Reading
  <1>3. SummaryInv'
    <2> SUFFICES ASSUME read.kind = "summary"
                 PROVE  SummaryInv'
      BY <1>1 DEF SummaryInv
    <2>1. read.known \subseteq RowIds'
      BY <1>1 DEF ReadsInv, SummaryInv, Kept
    <2>2. read.until <= now'
      BY <1>1 DEF ReadsInv, SummaryInv, DataInv
    <2>3. Counted => Counted'
      BY <1>1 DEF ReadsInv, SummaryInv, Counted, Kept, Between
    <2>4. SummaryHasNoGap'
      BY <1>1 DEF SummaryHasNoGap, Finished, Reading
    <2> QED
      BY <1>1, <2>1, <2>2, <2>3, <2>4 DEF ReadsInv, SummaryInv
  <1>4. PlanInv'
    <2>1. plan' = plan \/ plan' \in DOMAIN Limits
      BY DEF NextTables, Tick, LogInteraction, Merge, Erase, UpdateFeedback, DeleteTenant,
             ChangePlan, data
    <2>2. resolutions' = resolutions \/ resolutions' = resolutions + 1
      BY DEF NextTables, Tick, LogInteraction, Merge, Erase, UpdateFeedback, DeleteTenant,
             ChangePlan, data
    <2> QED
      BY <2>1, <2>2 DEF ReadsInv, PlanInv
  <1> QED
    BY <1>1, <1>2, <1>3, <1>4 DEF ReadsInv

-----------------------------------------------------------------------------
(* Reads these theorems say nothing about *)

Elsewhere ==
    /\ {"pc", "kind", "status"} \subseteq DOMAIN read
    /\ read.kind \notin Told /\ read.pc \notin OfSummary

LEMMA Refused ==
    ASSUME read = Idle, NEW status, Answer(status)
    PROVE  Elsewhere'
  BY DEF Answer, Answered, Idle, Elsewhere, Told, OfSummary

LEMMA Walks ==
    ASSUME NEW kind \in Lists, NEW e, NEW limit, StartWalk(kind, e, limit)
    PROVE  Elsewhere'
  BY DEF StartWalk, Phase, Lists, Elsewhere, Told, OfSummary

LEMMA ListingStarts ==
    ASSUME ListInteractions \/ GetAllEntities \/ GetAdminTenants
           \/ FetchEntity \/ FetchGraphEntities
    PROVE  Elsewhere' /\ UNCHANGED <<now, data>>
  <1>1. read = Idle /\ UNCHANGED <<now, data>>
    BY DEF ListInteractions, GetAllEntities, GetAdminTenants, FetchEntity, FetchGraphEntities
  <1>2. CASE ListInteractions
    <2>1. PICK asked \in Asked, e \in Entities :
              StartWalk("interactions", e, asked) \/ Answer("bad_request")
      BY <1>2, Zenon DEF ListInteractions
    <2> QED
      BY <1>1, <2>1, Refused, Walks DEF Lists
  <1>3. CASE GetAllEntities
    <2>1. PICK asked \in Asked : StartWalk("entities", 0, PageSize(asked))
      BY <1>3 DEF GetAllEntities
    <2> QED
      BY <1>1, <2>1, Walks DEF Lists
  <1>4. CASE GetAdminTenants
    <2>1. PICK asked \in Asked : StartWalk("tenants", 0, asked) \/ Answer("bad_request")
      BY <1>4, Zenon DEF GetAdminTenants
    <2> QED
      BY <1>1, <2>1, Refused, Walks DEF Lists
  <1>5. CASE FetchEntity
    <2>1. PICK e \in Entities :
              \/ Answer("not_found")
              \/ read' = [pc |-> "query", kind |-> "details", status |-> "none", about |-> e,
                          identifiers |-> {}, recent |-> {},
                          todo |-> {"identifiers", "recent"}, start |-> RowsOf(e)]
      BY <1>5, Zenon DEF FetchEntity
    <2>2. CASE Answer("not_found")
      BY <1>1, <2>2, Refused
    <2>3. CASE read' = [pc |-> "query", kind |-> "details", status |-> "none", about |-> e,
                        identifiers |-> {}, recent |-> {},
                        todo |-> {"identifiers", "recent"}, start |-> RowsOf(e)]
      BY <1>1, <2>3 DEF Elsewhere, Told, OfSummary
    <2> QED
      BY <1>1, <2>1, <2>2, <2>3
  <1>6. CASE FetchGraphEntities
    <2>1. PICK listed, truncated, start, started :
              \/ Answer("empty")
              \/ read' = [pc |-> "query", kind |-> "graph", status |-> "none", listed |-> listed,
                          truncated |-> truncated,
                          identifiers |-> {}, edges |-> {}, links |-> {},
                          todo |-> {"identifiers", "edges", "links"},
                          start |-> start, started |-> started]
      BY <1>6, Zenon DEF FetchGraphEntities
    <2>2. CASE Answer("empty")
      BY <1>1, <2>2, Refused
    <2>3. CASE read' = [pc |-> "query", kind |-> "graph", status |-> "none", listed |-> listed,
                        truncated |-> truncated,
                        identifiers |-> {}, edges |-> {}, links |-> {},
                        todo |-> {"identifiers", "edges", "links"},
                        start |-> start, started |-> started]
      BY <1>1, <2>3 DEF Elsewhere, Told, OfSummary
    <2> QED
      BY <1>1, <2>1, <2>2, <2>3
  <1> QED
    BY <1>1, <1>2, <1>3, <1>4, <1>5, <1>6

LEMMA ListingSteps ==
    ASSUME ReadsInv, NextListing
    PROVE  Elsewhere' /\ UNCHANGED <<now, data>>
  <1> DEFINE Starts == \/ ListInteractions \/ GetAllEntities \/ GetAdminTenants
                       \/ FetchEntity \/ FetchGraphEntities
  <1>1. CASE Starts
    BY <1>1, ListingStarts
  <1>2. CASE ~ Starts
    <2> USE DEF ReadsInv, ShapeInv, SummaryInv, UsageInv, HistoryInv, Elsewhere, Told, OfSummary,
                Answer, Answered, Lists, Phase
    <2>1. CASE VerifyEntity
      BY <2>1 DEF VerifyEntity
    <2>2. CASE CountRows
      BY <2>2 DEF CountRows
    <2>3. CASE FetchInteractions
      BY <2>3 DEF FetchInteractions, FetchPage
    <2>4. CASE FetchEntities
      BY <2>4 DEF FetchEntities, FetchPage
    <2>5. CASE FetchTenants
      BY <2>5 DEF FetchTenants, FetchPage
    <2>6. CASE NextPage
      BY <2>6 DEF NextPage
    <2>7. CASE FetchIdentifiers
      BY <2>7 DEF FetchIdentifiers
    <2>8. CASE FetchRecent
      BY <2>8 DEF FetchRecent
    <2>9. CASE Joined
      BY <2>9 DEF Joined
    <2>10. CASE FetchGraphIdentifiers
      BY <2>10 DEF FetchGraphIdentifiers
    <2>11. CASE FetchEdges
      BY <2>11 DEF FetchEdges
    <2>12. CASE FetchLinks
      BY <2>12 DEF FetchLinks
    <2>13. CASE JoinedGraph
      BY <2>13 DEF JoinedGraph
    <2>14. CASE ListingFails
      BY <2>14 DEF ListingFails, Reading
    <2> QED
      BY <1>2, <2>1, <2>2, <2>3, <2>4, <2>5, <2>6, <2>7, <2>8,
         <2>9, <2>10, <2>11, <2>12, <2>13, <2>14 DEF NextListing
  <1> QED
    BY <1>1, <1>2

LEMMA ImpactSteps ==
    ASSUME ReadsInv,
           \/ StartImpact \/ ImpactPlan \/ EnoughRecommendations
           \/ WithRecommendations \/ WithoutRecommendations
    PROVE  Elsewhere' /\ UNCHANGED <<now, data>>
  <1> USE DEF ReadsInv, ShapeInv, SummaryInv, UsageInv, HistoryInv, Elsewhere, Told, OfSummary, Idle,
              Answer, Answered
  <1>1. CASE StartImpact
    <2>1. PICK period \in {"days", "all", "other"} :
              Answer("bad_request") \/ StartReport("impact", period, FALSE)
      BY <1>1, Zenon DEF StartImpact
    <2>2. CASE Answer("bad_request")
      BY <1>1, <2>2 DEF StartImpact
    <2>3. CASE StartReport("impact", period, FALSE)
      BY <1>1, <2>3 DEF StartImpact, StartReport
    <2> QED
      BY <2>1, <2>2, <2>3
  <1>2. CASE ImpactPlan
    BY <1>2 DEF ImpactPlan
  <1>3. CASE EnoughRecommendations
    BY <1>3 DEF EnoughRecommendations
  <1>4. CASE WithRecommendations
    BY <1>4 DEF WithRecommendations
  <1>5. CASE WithoutRecommendations
    BY <1>5 DEF WithoutRecommendations
  <1> QED
    BY <1>1, <1>2, <1>3, <1>4, <1>5

LEMMA ElsewhereKeeps ==
    ASSUME ReadsInv, Elsewhere', UNCHANGED <<now, data>>
    PROVE  ReadsInv'
  <1>1. DataInv'
    BY DEF ReadsInv, DataInv, data, RowIds
  <1>2. ShapeInv' /\ SummaryInv' /\ UsageInv' /\ HistoryInv'
    BY DEF Elsewhere, Told, OfSummary, ShapeInv, SummaryInv, UsageInv, HistoryInv
  <1>3. PlanInv'
    BY DEF ReadsInv, PlanInv, data
  <1> QED
    BY <1>1, <1>2, <1>3 DEF ReadsInv

-----------------------------------------------------------------------------
(* The summary *)

(* A step of the summary that leaves the period as it is. *)
Goes(pcs) ==
    /\ read.kind = "summary" /\ DOMAIN read' = SummaryFields
    /\ read'.pc \in pcs
    /\ \A f \in {"kind", "period", "compare", "since", "until", "known"} : read'[f] = read[f]
    /\ UNCHANGED <<now, data>>

LEMMA SummaryGoes ==
    ASSUME ReadsInv, Goes({"plan", "current", "current_builder", "accuracy", "previous", "done"}),
           read'.pc \in {"accuracy", "previous"} => Counted', SummaryHasNoGap'
    PROVE  ReadsInv'
  <1>1. DataInv' /\ PlanInv'
    BY DEF Goes, ReadsInv, DataInv, PlanInv, data, RowIds
  <1>2. read'.kind = "summary" /\ read'.known = read.known /\ read'.until = read.until
        /\ read'.since = read.since /\ read'.period = read.period /\ read'.compare = read.compare
    BY DEF Goes
  <1>3. ShapeInv' /\ UsageInv' /\ HistoryInv'
    BY <1>2 DEF Goes, ShapeInv, SummaryFields, OfSummary, UsageInv, HistoryInv
  <1>4. RowIds' = RowIds /\ now' = now
    BY DEF Goes, data, RowIds
  <1>5. SummaryInv'
    BY <1>2, <1>4 DEF Goes, ReadsInv, SummaryInv
  <1> QED
    BY <1>1, <1>3, <1>5 DEF ReadsInv

LEMMA StartSummaryKeeps ==
    ASSUME ReadsInv, StartSummary
    PROVE  ReadsInv'
  <1>1. read = Idle /\ UNCHANGED <<now, data>>
    BY DEF StartSummary
  <1>2. PICK period \in {"days", "all", "other"}, compare \in BOOLEAN :
            Answer("bad_request") \/ StartReport("summary", period, compare)
    BY Zenon DEF StartSummary
  <1>3. CASE Answer("bad_request")
    BY <1>1, <1>3, Refused, ElsewhereKeeps
  <1>4. CASE StartReport("summary", period, compare)
    <2>1. DataInv' /\ PlanInv'
      BY <1>1 DEF ReadsInv, DataInv, PlanInv, data, RowIds
    <2>2. DOMAIN read' = SummaryFields
      BY <1>4 DEF StartReport, SummaryFields
    <2>3. /\ read'.pc = "plan" /\ read'.kind = "summary" /\ read'.status = "none"
          /\ read'.period = period /\ (read'.compare => period # "all")
          /\ read'.since = PeriodStart(period) /\ read'.until = now /\ read'.known = RowIds
      BY <1>4 DEF StartReport
    <2>4. ShapeInv' /\ UsageInv' /\ HistoryInv'
      BY <2>2, <2>3 DEF ShapeInv, SummaryFields, OfSummary, UsageInv, HistoryInv
    <2>5. RowIds' = RowIds /\ now' = now
      BY <1>1 DEF data, RowIds
    <2>6. SummaryInv'
      <3>1. now \in Int
        BY DEF ReadsInv, DataInv
      <3>2. SummaryHasNoGap'
        BY <2>3 DEF SummaryHasNoGap, Finished
      <3>3. period # "all" => read'.since = now - Period
        BY <2>3 DEF PeriodStart
      <3> QED
        BY <2>3, <2>5, <3>1, <3>2, <3>3 DEF SummaryInv
    <2> QED
      BY <2>1, <2>4, <2>6 DEF ReadsInv
  <1> QED
    BY <1>2, <1>3, <1>4

LEMMA SummarySteps ==
    ASSUME ReadsInv, SummaryPlan \/ CurrentPeriod \/ RecommendationAccuracy \/ PreviousPeriod
    PROVE  ReadsInv'
  <1> USE DEF Answer, Answered, Proceed
  <1>a. /\ read.pc \in OfSummary => read.kind = "summary"
        /\ read.kind = "summary" => DOMAIN read = SummaryFields
    BY DEF ReadsInv, ShapeInv
  <1>1. CASE SummaryPlan
    <2>1. read'.pc \in {"current", "current_builder"} /\ Goes({"current", "current_builder"})
      BY <1>1 DEF SummaryPlan, ReadsInv, ShapeInv, SummaryFields, Goes
    <2> QED
      BY <2>1, SummaryGoes DEF Goes, SummaryHasNoGap, Finished
  <1>2. CASE CurrentPeriod
    <2> DEFINE counted == IF read.period = "all" THEN CountsOfLiving
                          ELSE {n \in RowIds : Between(n, read.since, read.until)}
               phase   == AfterCurrent
    <2>1. /\ read.kind = "summary" /\ DOMAIN read = SummaryFields
          /\ phase \in {"accuracy", "previous", "done"}
          /\ phase = "done" => ~ read.compare
      BY <1>a, <1>2 DEF CurrentPeriod, AfterCurrent, OfSummary
    <2>2. /\ Goes({"accuracy", "previous", "done"})
          /\ read'.counted = counted /\ read'.pc = phase
      BY <1>2, <2>1 DEF CurrentPeriod, SummaryFields, Goes
    <2>3. Counted'
      <3>1. CASE read.period = "all"
        <4>1. /\ \A n \in RowIds : interactions[n].entity \in Entities
              /\ \A n \in RowIds : entities[interactions[n].entity].state \in {"live", "erased"}
              /\ read.known \subseteq RowIds
          BY <2>1, RowsTyped DEF ReadsInv, DataInv, RowIds, SummaryInv
        <4>2. \A n \in read.known :
                  n \in counted \/ entities[interactions[n].entity].state = "erased"
          BY <3>1, <4>1 DEF CountsOfLiving, LiveEntities
        <4>3. read'.known = read.known /\ read'.period = "all" /\ UNCHANGED <<interactions, entities>>
          BY <2>2, <3>1 DEF Goes, data
        <4> QED
          BY <2>2, <4>2, <4>3 DEF Counted
      <3>2. CASE read.period # "all"
        BY <2>2, <3>2 DEF Goes, Counted, ReadsInv, SummaryInv, data, RowIds, Between
      <3> QED
        BY <3>1, <3>2
    <2>4. SummaryHasNoGap'
      BY <2>1, <2>2, <2>3 DEF Goes, Counted, SummaryHasNoGap, Finished
    <2> QED
      BY <2>2, <2>3, <2>4, SummaryGoes DEF Goes
  <1>3. CASE RecommendationAccuracy
    <2> DEFINE phase == AfterAccuracy
    <2>1. /\ read.kind = "summary" /\ DOMAIN read = SummaryFields /\ Counted
          /\ phase \in {"previous", "done"}
          /\ phase = "done" => ~ read.compare
      BY <1>a, <1>3 DEF RecommendationAccuracy, AfterAccuracy, OfSummary, ReadsInv, SummaryInv
    <2>2. /\ Goes({"previous", "done"})
          /\ read'.counted = read.counted /\ read'.pc = phase
      BY <1>3, <2>1 DEF RecommendationAccuracy, SummaryFields, Goes
    <2>3. Counted'
      BY <2>1, <2>2 DEF Goes, Counted, data, Between
    <2>4. SummaryHasNoGap'
      BY <2>1, <2>2, <2>3 DEF Goes, Counted, SummaryHasNoGap, Finished
    <2> QED
      BY <2>2, <2>3, <2>4, SummaryGoes DEF Goes
  <1>4. CASE PreviousPeriod
    <2>1. read.kind = "summary" /\ DOMAIN read = SummaryFields /\ Counted
      BY <1>a, <1>4 DEF PreviousPeriod, OfSummary, ReadsInv, SummaryInv
    <2>2. /\ Goes({"done"}) /\ read'.counted = read.counted
          /\ read'.status = "ok" =>
                /\ read'.previousSince = now - 2 * Period
                /\ read'.previous = {n \in RowIds : Between(n, now - 2 * Period, now - Period)}
      BY <1>4, <2>1 DEF PreviousPeriod, PreviousPeriodRange, SummaryFields, Goes
    <2>3. SummaryHasNoGap'
      <3> SUFFICES ASSUME read'.status = "ok"
                   PROVE  SummaryHasNoGap'
        BY DEF SummaryHasNoGap, Finished
      <3>1. CASE read.period = "all"
        BY <2>1, <2>2, <3>1 DEF Goes, Counted, SummaryHasNoGap, data
      <3>2. CASE read.period # "all"
        <4>1. /\ read.since = read.until - Period /\ read.until <= now
              /\ read.until \in Int /\ now \in Int /\ Period \in Int /\ read.known \subseteq RowIds
          BY <2>1, <3>2, ReportsAssumption DEF ReadsInv, DataInv, SummaryInv
        <4>2. \A n \in read.known : interactions[n].at \in Int
          BY <4>1, RowsTyped DEF ReadsInv, DataInv, RowIds
        <4>3. ASSUME NEW n \in read.known, Between(n, now - 2 * Period, read.until)
              PROVE  n \in read.counted \/ n \in read'.previous
          <5>1. CASE interactions[n].at >= read.since
            <6>1. Between(n, read.since, read.until)
              BY <4>1, <4>2, <4>3, <5>1 DEF Between
            <6> QED
              BY <2>1, <3>2, <6>1 DEF Counted
          <5>2. CASE ~ interactions[n].at >= read.since
            <6>1. Between(n, now - 2 * Period, now - Period)
              BY <4>1, <4>2, <4>3, <5>2 DEF Between
            <6> QED
              BY <2>2, <4>1, <6>1
          <5> QED
            BY <5>1, <5>2
        <4> QED
          BY <2>2, <3>2, <4>3 DEF Goes, SummaryHasNoGap, Between, data
      <3> QED
        BY <3>1, <3>2
    <2> QED
      BY <2>2, <2>3, SummaryGoes DEF Goes
  <1> QED
    BY <1>1, <1>2, <1>3, <1>4

LEMMA ReportFailsKeeps ==
    ASSUME ReadsInv, ReportFails
    PROVE  ReadsInv'
  <1> USE DEF Answer, Answered
  <1>1. UNCHANGED <<now, data>> /\ read.kind \in {"summary", "impact"}
    BY DEF ReportFails
  <1>2. CASE read.kind = "impact"
    <2>1. Elsewhere'
      BY <1>2 DEF ReportFails, ReadsInv, ShapeInv, Elsewhere, Told, OfSummary
    <2> QED
      BY <1>1, <2>1, ElsewhereKeeps
  <1>3. CASE read.kind = "summary"
    <2>1. Goes({"done"}) /\ read'.status = "error"
      BY <1>3 DEF ReportFails, ReadsInv, ShapeInv, SummaryFields, Goes
    <2>2. SummaryHasNoGap'
      BY <2>1 DEF SummaryHasNoGap, Finished
    <2> QED
      BY <2>1, <2>2, SummaryGoes DEF Goes
  <1> QED
    BY <1>1, <1>2, <1>3

-----------------------------------------------------------------------------
(* Usage and history, which are one statement each *)

LEMMA UsageKeeps ==
    ASSUME ReadsInv, GetMonthlyUsage
    PROVE  ReadsInv'
  <1>1. UNCHANGED <<now, data>>
    BY DEF GetMonthlyUsage
  <1>2. DataInv' /\ PlanInv'
    BY <1>1 DEF ReadsInv, DataInv, PlanInv, data, RowIds
  <1>3. /\ read'.pc = "done" /\ read'.kind = "usage" /\ read'.status = "ok"
        /\ read'.percent = PercentageUsed(resolutions, Limits[plan])
        /\ {"pc", "kind", "status"} \subseteq DOMAIN read'
    BY DEF GetMonthlyUsage
  <1>4. ASSUME NEW c \in Nat, NEW l \in Nat \ {0}
        PROVE  (1000 * c) \div l >= 1000 <=> c >= l
    OBVIOUS
  <1>5. PercentageUsed(resolutions, Limits[plan]) >= 1000
            <=> Limits[plan] # Unlimited /\ resolutions >= Limits[plan]
    <2>1. CASE Limits[plan] = Unlimited
      BY <2>1 DEF PercentageUsed, Unlimited
    <2>2. CASE Limits[plan] \in Nat \ {0}
      BY <1>4, <2>2 DEF PercentageUsed, Unlimited, ReadsInv, PlanInv
    <2> QED
      BY <2>1, <2>2, ReportsAssumption DEF ReadsInv, PlanInv
  <1>6. FullMeansRefused'
    BY <1>1, <1>3, <1>5 DEF FullMeansRefused, data
  <1>7. ShapeInv' /\ SummaryInv' /\ UsageInv' /\ HistoryInv'
    BY <1>3, <1>6 DEF ShapeInv, OfSummary, SummaryInv, UsageInv, HistoryInv
  <1> QED
    BY <1>2, <1>7 DEF ReadsInv

LEMMA MonthsInOrder ==
    ASSUME NEW d \in Dates
    PROVE  /\ \A i \in 0 .. 11 : d.day <= DaysIn(d.month - i)
                 => \E k \in 1 .. 12 : HistoryMonths(d)[k] = d.month - i
           /\ \A k \in 1 .. 11 : HistoryMonths(d)[k] <= HistoryMonths(d)[k + 1]
  <1> d.month \in Nat
    BY ReportsAssumption
  <1>1. \A i \in 0 .. 11 : MonthBefore(d, i) \in {d.month - i, d.month - i + 1}
    BY DEF MonthBefore
  <1>2. ASSUME NEW i \in 0 .. 11, d.day <= DaysIn(d.month - i)
        PROVE  \E k \in 1 .. 12 : HistoryMonths(d)[k] = d.month - i
    <2>1. ~ (d.day > DaysIn(d.month - i))
      <3>1. DaysIn(d.month - i) \in Int /\ d.day \in Int
        BY ReportsAssumption DEF DaysIn
      <3> QED
        BY <1>2, <3>1
    <2>2. MonthBefore(d, i) = d.month - i
      BY <2>1 DEF MonthBefore
    <2>3. HistoryMonths(d)[12 - i] = MonthBefore(d, 12 - (12 - i))
      BY DEF HistoryMonths
    <2>4. 12 - (12 - i) = i /\ 12 - i \in 1 .. 12
      OBVIOUS
    <2> QED
      BY <2>2, <2>3, <2>4
  <1>3. ASSUME NEW k \in 1 .. 11
        PROVE  HistoryMonths(d)[k] <= HistoryMonths(d)[k + 1]
    <2>1. HistoryMonths(d)[k] = MonthBefore(d, 12 - k)
          /\ HistoryMonths(d)[k + 1] = MonthBefore(d, 12 - (k + 1))
      BY DEF HistoryMonths
    <2>2. MonthBefore(d, 12 - k) \in {d.month - (12 - k), d.month - (12 - k) + 1}
      BY <1>1
    <2>3. MonthBefore(d, 12 - (k + 1)) \in {d.month - (12 - (k + 1)), d.month - (12 - (k + 1)) + 1}
      BY <1>1
    <2> QED
      BY <2>1, <2>2, <2>3
  <1> QED
    BY <1>2, <1>3

LEMMA HistoryKeeps ==
    ASSUME ReadsInv, GetHistoricalUsage
    PROVE  ReadsInv'
  <1>1. UNCHANGED <<now, data>> /\ read = Idle
    BY DEF GetHistoricalUsage
  <1>2. CASE Answer("forbidden")
    BY <1>1, <1>2, Refused, ElsewhereKeeps
  <1>3. ASSUME NEW d \in Dates,
               read' = [pc |-> "done", kind |-> "history", status |-> "ok",
                        today |-> d, months |-> HistoryMonths(d)]
        PROVE  ReadsInv'
    <2>1. DataInv' /\ PlanInv'
      BY <1>1 DEF ReadsInv, DataInv, PlanInv, data, RowIds
    <2>2. /\ read'.pc = "done" /\ read'.kind = "history" /\ read'.status = "ok"
          /\ read'.today = d /\ read'.months = HistoryMonths(d)
          /\ {"pc", "kind", "status"} \subseteq DOMAIN read'
      BY <1>3
    <2>3. HistoryInOrder'
      BY <2>2, MonthsInOrder DEF HistoryInOrder
    <2>4. ShapeInv' /\ SummaryInv' /\ UsageInv' /\ HistoryInv'
      BY <2>2, <2>3 DEF ShapeInv, OfSummary, SummaryInv, UsageInv, HistoryInv
    <2> QED
      BY <2>1, <2>4 DEF ReadsInv
  <1> QED
    BY <1>2, <1>3 DEF GetHistoricalUsage

-----------------------------------------------------------------------------
LEMMA ReadsStep ==
    ASSUME ReadsInv, [Next]_vars
    PROVE  ReadsInv'
  <1>1. CASE NextTables
    BY <1>1, WritersKeep
  <1>2. CASE NextListing
    BY <1>2, ListingSteps, ElsewhereKeeps
  <1>3. CASE NextReports
    BY <1>3, ImpactSteps, ElsewhereKeeps, StartSummaryKeeps, SummarySteps, ReportFailsKeeps,
       UsageKeeps, HistoryKeeps DEF NextReports
  <1>4. CASE UNCHANGED vars
    BY SMTT(30), <1>4 DEF vars, data, ReadsInv, DataInv, PlanInv, ShapeInv, SummaryInv, Counted, Between,
                UsageInv, HistoryInv, RowIds, SummaryHasNoGap, FullMeansRefused, HistoryInOrder,
                Finished
  <1> QED
    BY <1>1, <1>2, <1>3, <1>4 DEF Next

LEMMA ReadsInvariant == Spec => []ReadsInv
  <1> QED
    BY ReadsInit, ReadsStep, PTL DEF Spec

(* GetAnalyticsSummaryHandler: whatever is written while a summary is computed, *)
(* no interaction that was there when it was asked for is in neither period.   *)
THEOREM NoGap == Spec => []SummaryHasNoGap
  <1>1. ReadsInv => SummaryHasNoGap
    BY DEF ReadsInv, SummaryInv, SummaryHasNoGap, Finished
  <1> QED
    BY <1>1, ReadsInvariant, PTL

(* GetMonthlyUsageHandler: 100 % of the limit is shown exactly when the next    *)
(* resolve is refused, for every limit a plan can have.                        *)
THEOREM FullIsRefused == Spec => []FullMeansRefused
  <1>1. ReadsInv => FullMeansRefused
    BY DEF ReadsInv, UsageInv, FullMeansRefused, Finished
  <1> QED
    BY <1>1, ReadsInvariant, PTL

(* GetHistoricalUsageHandler: the twelve months are in order on every day of    *)
(* every month.                                                               *)
THEOREM MonthsOfHistory == Spec => []HistoryInOrder
  <1>1. ReadsInv => HistoryInOrder
    BY DEF ReadsInv, HistoryInv, HistoryInOrder, Finished
  <1> QED
    BY <1>1, ReadsInvariant, PTL

-----------------------------------------------------------------------------
(* What a read of each kind consists of, and which steps serve it *)

WalkFields   == {"pc", "kind", "status", "about", "limit", "offset", "todo", "page", "seen", "tied",
                 "start"}
DetailFields == {"pc", "kind", "status", "about", "identifiers", "recent", "todo", "start"}
GraphFields  == {"pc", "kind", "status", "listed", "truncated", "identifiers", "edges", "links",
                 "todo", "start", "started"}

FieldsInv ==
    /\ {"pc", "kind", "status"} \subseteq DOMAIN read
    /\ read.kind \in Lists => DOMAIN read = WalkFields /\ read.pc \in {"verify", "query", "done"}
    /\ read.kind = "details" => DOMAIN read = DetailFields /\ read.pc \in {"query", "done"}
    /\ read.kind = "graph" => DOMAIN read = GraphFields /\ read.pc \in {"query", "done"}
    /\ read.kind = "summary" =>
          /\ DOMAIN read = SummaryFields
          /\ read.pc \in {"plan", "current", "current_builder", "accuracy", "previous", "done"}
    /\ read.kind = "impact" =>
          /\ DOMAIN read = SummaryFields
          /\ read.pc \in {"plan", "enough", "with", "without", "done"}
    /\ read.kind \in {"none", "usage", "history"} => read.pc \in {"idle", "done"}
    /\ read.kind \in Lists \cup {"details", "graph", "summary", "impact", "none", "usage", "history"}

WalkStart  == ListInteractions \/ GetAllEntities \/ GetAdminTenants
WalkStep   == \/ VerifyEntity \/ CountRows \/ FetchInteractions \/ FetchEntities \/ FetchTenants
              \/ NextPage \/ ListingFails
DetailStep == FetchIdentifiers \/ FetchRecent \/ Joined \/ ListingFails
GraphStep  == FetchGraphIdentifiers \/ FetchEdges \/ FetchLinks \/ JoinedGraph \/ ListingFails
ImpactStep == \/ ImpactPlan \/ EnoughRecommendations \/ WithRecommendations
              \/ WithoutRecommendations \/ ReportFails

Serves ==
    /\ UNCHANGED <<now, data>>
    /\ read'.kind \in Lists => WalkStart \/ (WalkStep /\ read'.kind = read.kind)
    /\ read'.kind = "details" => FetchEntity \/ (DetailStep /\ read'.kind = read.kind)
    /\ read'.kind = "graph" => FetchGraphEntities \/ (GraphStep /\ read'.kind = read.kind)
    /\ read'.kind = "impact" => StartImpact \/ (ImpactStep /\ read'.kind = read.kind)

LEMMA RefusedServes ==
    ASSUME read = Idle, NEW status, Answer(status), UNCHANGED <<now, data>>
    PROVE  FieldsInv' /\ Serves
  <1>1. {"pc", "kind", "status"} \subseteq DOMAIN read' /\ read'.kind = "none" /\ read'.pc = "done"
    BY DEF Answer, Answered, Idle
  <1> QED
    BY <1>1 DEF FieldsInv, Serves, Lists

LEMMA WalkStartServes ==
    ASSUME FieldsInv, WalkStart
    PROVE  FieldsInv' /\ Serves
  <1>1. read = Idle /\ UNCHANGED <<now, data>>
    BY DEF WalkStart, ListInteractions, GetAllEntities, GetAdminTenants
  <1>2. \/ \E status : Answer(status)
        \/ \E kind \in Lists : \E e, limit : StartWalk(kind, e, limit)
    BY Zenon DEF WalkStart, ListInteractions, GetAllEntities, GetAdminTenants, Lists
  <1>3. CASE \E kind \in Lists : \E e, limit : StartWalk(kind, e, limit)
    <2>1. PICK kind \in Lists : \E e, limit : StartWalk(kind, e, limit)
      BY <1>3
    <2>a. PICK e, limit : StartWalk(kind, e, limit)
      BY <2>1
    <2>2. DOMAIN read' = WalkFields /\ read'.kind = kind /\ read'.pc \in {"verify", "query", "done"}
      BY <2>a DEF StartWalk, WalkFields, Phase
    <2>3. FieldsInv'
      BY <2>2 DEF FieldsInv, WalkFields, Lists
    <2> QED
      BY <1>1, <2>2, <2>3 DEF Serves, Lists
  <1> QED
    BY <1>1, <1>2, <1>3, RefusedServes

LEMMA GraphStarts ==
    ASSUME FetchGraphEntities
    PROVE  \E limit \in Nat \ {0} :
              \/ Answer("empty")
              \/ read' = [pc |-> "query", kind |-> "graph", status |-> "none",
                          listed |-> OldestEntities(limit),
                          truncated |-> OldestEntities(limit + 1) # OldestEntities(limit),
                          identifiers |-> {}, edges |-> {}, links |-> {},
                          todo |-> {"identifiers", "edges", "links"},
                          start |-> UNION {RowsOf(e) : e \in OldestEntities(limit)},
                          started |-> HeldBy(OldestEntities(limit))]
  <1>1. PICK asked \in Asked :
            LET limit == IF asked \in 1 .. MaxPage THEN asked ELSE DefaultPage
            IN  \/ Answer("empty")
                \/ read' = [pc |-> "query", kind |-> "graph", status |-> "none",
                            listed |-> OldestEntities(limit),
                            truncated |-> OldestEntities(limit + 1) # OldestEntities(limit),
                            identifiers |-> {}, edges |-> {}, links |-> {},
                            todo |-> {"identifiers", "edges", "links"},
                            start |-> UNION {RowsOf(e) : e \in OldestEntities(limit)},
                            started |-> HeldBy(OldestEntities(limit))]
    BY Zenon DEF FetchGraphEntities
  <1>2. (IF asked \in 1 .. MaxPage THEN asked ELSE DefaultPage) \in Nat \ {0}
    BY ListingAssumption
  <1> QED
    BY <1>1, <1>2, Zenon

LEMMA GraphStartServes ==
    ASSUME FetchGraphEntities
    PROVE  FieldsInv' /\ Serves
  <1>1. read = Idle /\ UNCHANGED <<now, data>>
    BY DEF FetchGraphEntities
  <1>2. PICK listed, truncated, start, started :
            \/ Answer("empty")
            \/ read' = [pc |-> "query", kind |-> "graph", status |-> "none", listed |-> listed,
                        truncated |-> truncated,
                        identifiers |-> {}, edges |-> {}, links |-> {},
                        todo |-> {"identifiers", "edges", "links"},
                        start |-> start, started |-> started]
    BY GraphStarts, Zenon
  <1>3. CASE Answer("empty")
    BY <1>1, <1>3, RefusedServes
  <1>4. CASE read' = [pc |-> "query", kind |-> "graph", status |-> "none", listed |-> listed,
                      truncated |-> truncated,
                      identifiers |-> {}, edges |-> {}, links |-> {},
                      todo |-> {"identifiers", "edges", "links"},
                      start |-> start, started |-> started]
    BY <1>1, <1>4 DEF FieldsInv, GraphFields, Serves, Lists
  <1> QED
    BY <1>2, <1>3, <1>4

LEMMA ListingServes ==
    ASSUME FieldsInv, NextListing
    PROVE  FieldsInv' /\ Serves
  <1> USE DEF FieldsInv, Serves, Lists, Answer, Answered, Phase,
              WalkFields, DetailFields, GraphFields, SummaryFields
  <1>1. CASE WalkStart
    BY <1>1, WalkStartServes
  <1>2. CASE FetchEntity
    <2>1. PICK e \in Entities :
              \/ Answer("not_found")
              \/ read' = [pc |-> "query", kind |-> "details", status |-> "none", about |-> e,
                          identifiers |-> {}, recent |-> {},
                          todo |-> {"identifiers", "recent"}, start |-> RowsOf(e)]
      BY <1>2, Zenon DEF FetchEntity
    <2>2. CASE Answer("not_found")
      BY <1>2, <2>2, RefusedServes DEF FetchEntity
    <2>3. CASE read' = [pc |-> "query", kind |-> "details", status |-> "none", about |-> e,
                        identifiers |-> {}, recent |-> {},
                        todo |-> {"identifiers", "recent"}, start |-> RowsOf(e)]
      <3>1. UNCHANGED <<now, data>>
        BY <1>2 DEF FetchEntity
      <3> QED
        BY <1>2, <2>3, <3>1
    <2> QED
      BY <2>1, <2>2, <2>3
  <1>3. CASE FetchGraphEntities
    BY <1>3, GraphStartServes
  <1>4. CASE VerifyEntity
    BY <1>4 DEF VerifyEntity, WalkStep
  <1>5. CASE CountRows
    BY <1>5 DEF CountRows, WalkStep
  <1>6. CASE FetchInteractions
    BY <1>6 DEF FetchInteractions, FetchPage, WalkStep
  <1>7. CASE FetchEntities
    BY <1>7 DEF FetchEntities, FetchPage, WalkStep
  <1>8. CASE FetchTenants
    BY <1>8 DEF FetchTenants, FetchPage, WalkStep
  <1>9. CASE NextPage
    BY <1>9 DEF NextPage, WalkStep
  <1>10. CASE FetchIdentifiers
    BY <1>10 DEF FetchIdentifiers, DetailStep
  <1>11. CASE FetchRecent
    BY <1>11 DEF FetchRecent, DetailStep
  <1>12. CASE Joined
    BY <1>12 DEF Joined, DetailStep
  <1>13. CASE FetchGraphIdentifiers
    BY <1>13 DEF FetchGraphIdentifiers, GraphStep
  <1>14. CASE FetchEdges
    BY <1>14 DEF FetchEdges, GraphStep
  <1>15. CASE FetchLinks
    BY <1>15 DEF FetchLinks, GraphStep
  <1>16. CASE JoinedGraph
    BY <1>16 DEF JoinedGraph, GraphStep
  <1>17. CASE ListingFails
    BY <1>17 DEF ListingFails, Reading, WalkStep, DetailStep, GraphStep
  <1> QED
    BY <1>1, <1>2, <1>3, <1>4, <1>5, <1>6, <1>7, <1>8, <1>9, <1>10, <1>11, <1>12, <1>13, <1>14,
       <1>15, <1>16, <1>17, Zenon DEF NextListing, WalkStart

LEMMA ReportsServe ==
    ASSUME FieldsInv, NextReports
    PROVE  FieldsInv' /\ Serves
  <1> USE DEF FieldsInv, Serves, Lists, Answer, Answered, SummaryFields
  <1>1. ASSUME NEW kind \in {"summary", "impact"}, NEW period, NEW compare, read = Idle,
               StartReport(kind, period, compare), UNCHANGED <<now, data>>,
               kind = "impact" => StartImpact
        PROVE  FieldsInv' /\ Serves
    BY <1>1 DEF StartReport
  <1>2. CASE StartSummary
    <2>1. PICK period \in {"days", "all", "other"}, compare \in BOOLEAN :
              Answer("bad_request") \/ StartReport("summary", period, compare)
      BY <1>2, Zenon DEF StartSummary
    <2>2. read = Idle /\ UNCHANGED <<now, data>>
      BY <1>2 DEF StartSummary
    <2> QED
      BY <1>1, <2>1, <2>2, RefusedServes
  <1>3. CASE StartImpact
    <2>1. PICK period \in {"days", "all", "other"} :
              Answer("bad_request") \/ StartReport("impact", period, FALSE)
      BY <1>3, Zenon DEF StartImpact
    <2>2. read = Idle /\ UNCHANGED <<now, data>>
      BY <1>3 DEF StartImpact
    <2> QED
      BY <1>1, <1>3, <2>1, <2>2, RefusedServes
  <1>4. CASE SummaryPlan
    BY <1>4 DEF SummaryPlan
  <1>5. CASE CurrentPeriod
    <2>1. AfterCurrent \in {"accuracy", "previous", "done"}
      BY DEF AfterCurrent
    <2>2. read.kind = "summary" /\ DOMAIN read = SummaryFields
      BY <1>5 DEF CurrentPeriod
    <2>3. /\ read'.pc \in {"accuracy", "previous", "done"}
          /\ read'.kind = "summary" /\ DOMAIN read' = SummaryFields
      BY <1>5, <2>1, <2>2 DEF CurrentPeriod, Proceed
    <2> QED
      BY <1>5, <2>3 DEF CurrentPeriod
  <1>6. CASE RecommendationAccuracy
    <2>1. AfterAccuracy \in {"previous", "done"}
      BY DEF AfterAccuracy
    <2>2. read.kind = "summary" /\ DOMAIN read = SummaryFields
      BY <1>6 DEF RecommendationAccuracy
    <2>3. /\ read'.pc \in {"previous", "done"}
          /\ read'.kind = "summary" /\ DOMAIN read' = SummaryFields
      BY <1>6, <2>1, <2>2 DEF RecommendationAccuracy, Proceed
    <2> QED
      BY <1>6, <2>3 DEF RecommendationAccuracy
  <1>7. CASE PreviousPeriod
    BY ZenonT(40), <1>7 DEF PreviousPeriod, PreviousPeriodRange
  <1>8. CASE ImpactPlan
    BY <1>8 DEF ImpactPlan, ImpactStep
  <1>9. CASE EnoughRecommendations
    BY <1>9 DEF EnoughRecommendations, ImpactStep
  <1>10. CASE WithRecommendations
    BY <1>10 DEF WithRecommendations, ImpactStep
  <1>11. CASE WithoutRecommendations
    BY <1>11 DEF WithoutRecommendations, ImpactStep
  <1>12. CASE GetMonthlyUsage
    BY <1>12 DEF GetMonthlyUsage
  <1>13. CASE GetHistoricalUsage
    <2>1. PICK d : \/ Answer("forbidden")
                   \/ read' = [pc |-> "done", kind |-> "history", status |-> "ok",
                               today |-> d, months |-> HistoryMonths(d)]
      BY <1>13, Zenon DEF GetHistoricalUsage
    <2>2. read = Idle /\ UNCHANGED <<now, data>>
      BY <1>13 DEF GetHistoricalUsage
    <2>3. CASE read' = [pc |-> "done", kind |-> "history", status |-> "ok",
                        today |-> d, months |-> HistoryMonths(d)]
      BY <2>2, <2>3
    <2> QED
      BY <2>1, <2>2, <2>3, RefusedServes
  <1>14. CASE ReportFails
    BY <1>14 DEF ReportFails, Reading, ImpactStep
  <1> QED
    BY <1>2, <1>3, <1>4, <1>5, <1>6, <1>7, <1>8, <1>9, <1>10, <1>11, <1>12, <1>13, <1>14
       DEF NextReports

LEMMA FieldsStep ==
    ASSUME ReadsInv, FieldsInv, [Next]_vars
    PROVE  FieldsInv'
  <1>1. CASE NextTables
    <2>1. read' = read
      BY <1>1, WriterSteps DEF ReadsInv
    <2> QED
      BY <2>1 DEF FieldsInv
  <1>2. CASE UNCHANGED vars
    BY <1>2 DEF vars, FieldsInv
  <1> QED
    BY <1>1, <1>2, ListingServes, ReportsServe DEF Next

LEMMA FieldsInvariant == Spec => []FieldsInv
  <1>1. Init => FieldsInv
    BY DEF Init, Idle, FieldsInv, Lists
  <1> QED
    BY <1>1, ReadsInvariant, FieldsStep, PTL DEF Spec

-----------------------------------------------------------------------------
(* The impact *)

WithRows == {read.with[q] : q \in DOMAIN read.with}

ImpactInv ==
    read.kind = "impact" =>
        /\ read.known \subseteq RowIds /\ read.without \subseteq RowIds
        /\ DOMAIN read.with \subseteq Recs
        /\ read.pc = "without" =>
              \A n \in read.known :
                  n \in WithRows <=> n \in read.named /\ Between(n, read.since, read.until)
        /\ ImpactCountsEach

LEMMA WritersKeepImpact ==
    ASSUME ReadsInv, FieldsInv, ImpactInv, NextTables
    PROVE  ImpactInv'
  <1>1. Kept /\ read' = read /\ Reading
    BY WriterSteps DEF ReadsInv
  <1> SUFFICES ASSUME read.kind = "impact"
               PROVE  ImpactInv'
    BY <1>1 DEF ImpactInv
  <1>2. read'.known \subseteq RowIds' /\ read'.without \subseteq RowIds'
    BY <1>1 DEF ImpactInv, Kept
  <1>3. \A n \in read.known : Between(n, read.since, read.until)' <=> Between(n, read.since, read.until)
    BY <1>1 DEF ImpactInv, Kept, Between
  <1>4. ImpactCountsEach'
    BY <1>1 DEF ImpactCountsEach, Finished, Reading
  <1>5. WithRows' = WithRows
    BY <1>1 DEF WithRows
  <1> QED
    BY <1>1, <1>2, <1>3, <1>4, <1>5 DEF ImpactInv

LEMMA ImpactKeeps ==
    ASSUME ReadsInv, FieldsInv, ImpactInv, Serves
    PROVE  ImpactInv'
  <1> SUFFICES ASSUME read'.kind = "impact"
               PROVE  ImpactInv'
    BY DEF ImpactInv
  <1>0. UNCHANGED <<now, data>> /\ (StartImpact \/ (ImpactStep /\ read.kind = "impact"))
    BY DEF Serves
  <1>1. CASE StartImpact
    <2>1. PICK period \in {"days", "all", "other"} :
              Answer("bad_request") \/ StartReport("impact", period, FALSE)
      BY <1>1, Zenon DEF StartImpact
    <2>2. ~ Answer("bad_request")
      BY <1>1 DEF StartImpact, Answer, Answered, Idle
    <2>3. /\ read'.pc = "plan" /\ read'.known = RowIds /\ read'.without = {} /\ read'.with = <<>>
      BY <2>1, <2>2 DEF StartReport
    <2>4. RowIds' = RowIds
      BY <1>0 DEF data, RowIds
    <2>5. DOMAIN read'.with = {}
      BY <2>3
    <2>6. ImpactCountsEach'
      BY <2>3 DEF ImpactCountsEach, Finished
    <2> QED
      BY <2>3, <2>4, <2>5, <2>6 DEF ImpactInv
  <1>2. CASE ImpactStep /\ read.kind = "impact"
    <2> USE DEF Answer, Answered
    <2>1. RowIds' = RowIds /\ interactions' = interactions /\ recommendations' = recommendations
      BY <1>0 DEF data, RowIds
    <2>2. DOMAIN read = SummaryFields
      BY <1>2 DEF FieldsInv
    <2>3. CASE ImpactPlan \/ EnoughRecommendations \/ ReportFails
      <3>1. /\ read'.known = read.known /\ read'.without = read.without /\ read'.with = read.with
            /\ read'.pc # "without" /\ (read'.pc = "done" => read'.status # "ok")
        BY <2>2, <2>3 DEF SummaryFields, ImpactPlan, EnoughRecommendations, ReportFails
      <3>2. ImpactCountsEach'
        BY <3>1 DEF ImpactCountsEach, Finished
      <3> QED
        BY <1>2, <2>1, <3>1, <3>2 DEF ImpactInv
    <2>4. CASE WithRecommendations
      <3> DEFINE named == {q \in Recs : recommendations[q].followed = "yes"
                                        /\ recommendations[q].outcome # 0}
                 with  == [q \in {x \in named : Between(recommendations[x].outcome,
                                                        read.since, read.until)}
                               |-> recommendations[q].outcome]
      <3>1. /\ read'.known = read.known /\ read'.without = read.without
            /\ read'.since = read.since /\ read'.until = read.until
            /\ read'.with = with /\ read'.pc = "without"
            /\ read'.named = {recommendations[q].outcome : q \in named}
        BY <2>2, <2>4 DEF SummaryFields, WithRecommendations
      <3>2. WithRows' = {with[q] : q \in DOMAIN with}
        BY <3>1 DEF WithRows
      <3>3. \A n : n \in WithRows' <=> n \in read'.named /\ Between(n, read.since, read.until)
        BY <3>1, <3>2
      <3>4. \A n : Between(n, read.since, read.until)' <=> Between(n, read.since, read.until)
        BY <2>1, <3>1 DEF Between
      <3>5. DOMAIN with \subseteq Recs
        OBVIOUS
      <3>6. ImpactCountsEach'
        BY <3>1 DEF ImpactCountsEach, Finished
      <3> HIDE DEF with, named
      <3> QED
        BY <1>2, <2>1, <3>1, <3>3, <3>4, <3>5, <3>6 DEF ImpactInv
    <2>5. CASE WithoutRecommendations
      <3>1. /\ read'.known = read.known /\ read'.with = read.with
            /\ read'.since = read.since /\ read'.until = read.until /\ read'.named = read.named
            /\ read'.pc = "done"
            /\ read'.without = {n \in RowIds : Between(n, read.since, read.until)} \ NamedByFollowed
        BY <2>2, <2>5 DEF SummaryFields, WithoutRecommendations
      <3>2. /\ read.known \subseteq RowIds /\ DOMAIN read.with \subseteq Recs
            /\ \A n \in read.known :
                  n \in WithRows <=> n \in read.named /\ Between(n, read.since, read.until)
        BY <1>2, <2>5 DEF ImpactInv, WithoutRecommendations
      <3>3. ASSUME NEW n \in read.known, Between(n, read.since, read.until),
                   n \in read.named <=> \E q \in Recs : /\ recommendations[q].followed = "yes"
                                                        /\ recommendations[q].outcome = n
            PROVE  n \in WithRows <=> n \notin read'.without
        <4>1. n \in NamedByFollowed <=> n \in read.named
          BY <3>3 DEF NamedByFollowed
        <4>2. n \in RowIds
          BY <3>2
        <4> QED
          BY <3>1, <3>2, <3>3, <4>1, <4>2
      <3>4. ImpactCountsEach'
        BY <2>1, <3>1, <3>3 DEF ImpactCountsEach, Between, WithRows
      <3> QED
        BY <2>1, <3>1, <3>2, <3>4 DEF ImpactInv
    <2> QED
      BY <1>2, <2>3, <2>4, <2>5 DEF ImpactStep
  <1> QED
    BY <1>0, <1>1, <1>2

LEMMA ImpactInvariant == Spec => []ImpactInv
  <1>1. Init => ImpactInv
    BY DEF Init, Idle, ImpactInv
  <1>2. ASSUME ReadsInv, FieldsInv, ImpactInv, [Next]_vars
        PROVE  ImpactInv'
    <2>1. CASE UNCHANGED vars
      BY <1>2, <2>1 DEF vars, data, ImpactInv, RowIds, WithRows, Between, ImpactCountsEach, Finished
    <2> QED
      BY <1>2, <2>1, WritersKeepImpact, ImpactKeeps, ListingServes, ReportsServe DEF Next
  <1> QED
    BY <1>1, <1>2, ReadsInvariant, FieldsInvariant, PTL DEF Spec

(* GetRecommendationImpactHandler: whatever is logged, merged, erased or voted   *)
(* on between its two statements, an interaction whose recommendations stayed   *)
(* as they were is on exactly one side of the comparison.                      *)
THEOREM EachIsCounted == Spec => []ImpactCountsEach
  <1>1. ImpactInv => ImpactCountsEach
    BY DEF ImpactInv, ImpactCountsEach, Finished
  <1> QED
    BY <1>1, ImpactInvariant, PTL

-----------------------------------------------------------------------------
(* The arithmetic of the impact *)

LEMMA DivAtLeast ==
    ASSUME NEW a \in Nat, NEW d \in Nat \ {0}, NEW w \in Nat, a >= d * w
    PROVE  a \div d >= w
  <1> DEFINE q == a \div d
  <1>1. q \in Int /\ a < d * (q + 1)
    OBVIOUS
  <1>2. CASE q < w
    <2>1. q + 1 <= w /\ q + 1 \in Int
      BY <1>1, <1>2
    <2>2. d * (q + 1) <= d * w
      <3>1. \A x, y \in Int : x <= y => d * x <= d * y
        OBVIOUS
      <3> HIDE DEF q
      <3> QED
        BY <1>1, <2>1, <3>1
    <2>3. d * (q + 1) \in Int /\ d * w \in Int
      <3> HIDE DEF q
      <3> QED
        BY <1>1
    <2> HIDE DEF q
    <2> QED
      BY <1>1, <2>2, <2>3
  <1>3. CASE ~ q < w
    BY <1>1, <1>3
  <1> QED
    BY <1>2, <1>3

LEMMA RateTyped ==
    ASSUME NEW good \in Nat, NEW all \in Nat
    PROVE  Rate(good, all) \in Nat
  <1>1. CASE all = 0
    BY <1>1 DEF Rate
  <1>2. CASE all # 0
    <2>1. 2000 * good + all \in Nat /\ 2 * all \in Nat \ {0}
      BY <1>2
    <2>2. \A a \in Nat, d \in Nat \ {0} : a \div d \in Nat
      OBVIOUS
    <2> QED
      BY <1>2, <2>1, <2>2 DEF Rate
  <1> QED
    BY <1>1, <1>2

(* What is claimed beyond the rate w of the others is claimed only of a rate    *)
(* that is no worse, and never exceeds what there was.                         *)
LEMMA AdditionalIsEarned ==
    ASSUME NEW good \in Nat, NEW all \in Nat, NEW w \in Nat
    PROVE  /\ AdditionalSuccesses(good, all, w) \in 0 .. good
           /\ AdditionalSuccesses(good, all, w) > 0 => Rate(good, all) >= w
  <1> DEFINE p     == all * w
             lost  == p \div 1000
             more  == good - lost
  <1>1. p \in Nat
    OBVIOUS
  <1>2. lost \in Nat /\ p < 1000 * lost + 1000
    <2> HIDE DEF p
    <2> QED
      BY <1>1
  <1>3. AdditionalSuccesses(good, all, w) = IF all > 0 /\ w > 0 /\ more > 0 THEN more ELSE 0
    BY DEF AdditionalSuccesses
  <1>4. more \in Int /\ more <= good
    <2> HIDE DEF lost
    <2> QED
      BY <1>2
  <1>5. ASSUME all > 0, more > 0
        PROVE  Rate(good, all) >= w
    <2>1. 1000 * good >= p
      <3> HIDE DEF p, lost
      <3> QED
        BY <1>1, <1>2, <1>5
    <2>2. (2 * all) * w = 2 * p
      OBVIOUS
    <2>3. 2000 * good + all >= (2 * all) * w
      <3> HIDE DEF p
      <3> QED
        BY <1>1, <2>1, <2>2
    <2>4. 2000 * good + all \in Nat /\ 2 * all \in Nat \ {0}
      BY <1>5
    <2>5. (2000 * good + all) \div (2 * all) >= w
      BY <2>3, <2>4, DivAtLeast
    <2> QED
      BY <1>5, <2>5 DEF Rate
  <1> HIDE DEF p, lost, more
  <1> QED
    BY <1>3, <1>4, <1>5

LEMMA ImpactFollows ==
    ASSUME IsFiniteSet(Recs), DataInv, ImpactInv
    PROVE  ImpactAgrees
  <1> SUFFICES ASSUME read.kind = "impact"
               PROVE  /\ Impact(read).additional \in 0 .. Impact(read).successes
                      /\ Impact(read).additional > 0 => Impact(read).improvement >= 0
    BY DEF ImpactAgrees, Finished
  <1> DEFINE A     == DOMAIN read.with
             G     == {q \in A : interactions[read.with[q]].good}
             W     == read.without
             V     == {n \in W : interactions[n].good}
             w     == Rate(Cardinality(V), Cardinality(W))
  <1>1. IsFiniteSet(A) /\ IsFiniteSet(RowIds) /\ W \subseteq RowIds
    <2>1. A \subseteq Recs /\ W \subseteq RowIds
      BY DEF ImpactInv
    <2>2. RowIds = 1 .. Len(interactions) /\ Len(interactions) \in Nat
      BY RowsTyped DEF DataInv, RowIds
    <2>3. IsFiniteSet(1 .. Len(interactions))
      BY <2>2, FS_Interval
    <2> HIDE DEF A, W
    <2> QED
      BY <2>1, <2>2, <2>3, FS_Subset
  <1>2. G \subseteq A /\ V \subseteq W
    OBVIOUS
  <1>3. /\ Cardinality(A) \in Nat /\ Cardinality(G) \in Nat
        /\ Cardinality(W) \in Nat /\ Cardinality(V) \in Nat
    <2> HIDE DEF A, G, W, V
    <2> QED
      BY <1>1, <1>2, FS_Subset, FS_CardinalityType
  <1>4. w \in Nat
    <2> HIDE DEF V, W
    <2> QED
      BY <1>3, RateTyped
  <1>5. /\ Impact(read).successes = Cardinality(G)
        /\ Impact(read).improvement = Rate(Cardinality(G), Cardinality(A)) - w
        /\ Impact(read).additional = AdditionalSuccesses(Cardinality(G), Cardinality(A), w)
    BY DEF Impact, Good
  <1>6. Rate(Cardinality(G), Cardinality(A)) \in Nat
    <2> HIDE DEF A, G
    <2> QED
      BY <1>3, RateTyped
  <1> HIDE DEF A, G, W, V, w
  <1>7. /\ AdditionalSuccesses(Cardinality(G), Cardinality(A), w) \in 0 .. Cardinality(G)
        /\ AdditionalSuccesses(Cardinality(G), Cardinality(A), w) > 0
              => Rate(Cardinality(G), Cardinality(A)) >= w
    BY <1>3, <1>4, AdditionalIsEarned
  <1> QED
    BY <1>4, <1>5, <1>6, <1>7

(* GetRecommendationImpactHandler: the additional successes it reports are among *)
(* those there were, and none is claimed of a rate that is worse.              *)
THEOREM ImpactIsEarned ==
    ASSUME IsFiniteSet(Recs)
    PROVE  Spec => []ImpactAgrees
  <1>1. ReadsInv /\ ImpactInv => ImpactAgrees
    BY ImpactFollows DEF ReadsInv
  <1> QED
    BY <1>1, ReadsInvariant, ImpactInvariant, PTL

-----------------------------------------------------------------------------
(* The oldest entities *)

Rank(N, k) == Cardinality({j \in N : j <= k})

LEMMA RankInRange ==
    ASSUME NEW N \in SUBSET Nat, IsFiniteSet(N), NEW k \in N
    PROVE  Cardinality(N) \in Nat /\ Rank(N, k) \in 1 .. Cardinality(N)
  <1> DEFINE B == {j \in N : j <= k}
  <1>1. IsFiniteSet(B) /\ Cardinality(B) <= Cardinality(N)
    BY FS_Subset
  <1>2. Cardinality(B) \in Nat /\ Cardinality(N) \in Nat
    BY <1>1, FS_CardinalityType
  <1>3. k \in B
    OBVIOUS
  <1>4. Cardinality(B) # 0
    BY <1>1, <1>3, FS_EmptySet
  <1> QED
    BY <1>1, <1>2, <1>4 DEF Rank

LEMMA RankUnique ==
    ASSUME NEW N \in SUBSET Nat, IsFiniteSet(N), NEW j \in N, NEW k \in N,
           Rank(N, j) = Rank(N, k)
    PROVE  j = k
  <1>1. ASSUME NEW x \in N, NEW y \in N, x < y PROVE Rank(N, x) # Rank(N, y)
    <2> DEFINE X == {i \in N : i <= x}
               Y == {i \in N : i <= y}
    <2>1. IsFiniteSet(Y)
      BY FS_Subset
    <2>2. \A i \in N : i <= x => i <= y
      BY <1>1
    <2>3. X \in SUBSET Y /\ X # Y
      <3>1. X \in SUBSET Y
        BY <2>2
      <3>2. y \in Y /\ y \notin X
        BY <1>1
      <3> HIDE DEF X, Y
      <3> QED
        BY <3>1, <3>2
    <2>4. Cardinality(Y) # Cardinality(X)
      <3> HIDE DEF X, Y
      <3> QED
        BY <2>1, <2>3, FS_Subset
    <2> QED
      BY <2>4 DEF Rank
  <1> QED
    BY <1>1

LEMMA RankOnto ==
    ASSUME NEW N \in SUBSET Nat, IsFiniteSet(N), NEW m \in 1 .. Cardinality(N)
    PROVE  \E k \in N : Rank(N, k) = m
  <1> SUFFICES ASSUME \A k \in N : Rank(N, k) # m PROVE FALSE
    OBVIOUS
  <1> DEFINE R == 1 .. Cardinality(N)
             T == R \ {m}
             f == [k \in N |-> Rank(N, k)]
  <1>0. Cardinality(N) \in Nat
    BY FS_CardinalityType
  <1>1. IsFiniteSet(R) /\ Cardinality(R) = Cardinality(N) /\ m \in R
    BY <1>0, FS_Interval
  <1>2. IsFiniteSet(T) /\ Cardinality(T) = Cardinality(N) - 1
    <2> HIDE DEF R
    <2> QED
      BY <1>1, FS_RemoveElement
  <1>3. f \in [N -> T]
    BY RankInRange
  <1>4. PICK j \in N, k \in N : j # k /\ f[j] = f[k]
    <2> HIDE DEF f, T
    <2>1. IsFiniteSet(T) /\ Cardinality(T) < Cardinality(N)
      BY <1>0, <1>2
    <2> QED
      BY <2>1, <1>3, FS_PigeonHole
  <1>5. Rank(N, j) = Rank(N, k)
    BY <1>4
  <1> QED
    BY <1>4, <1>5, RankUnique

(* Whatever the number asked for, there are first ones to choose. *)
LEMMA OldestExist ==
    ASSUME NEW N \in SUBSET Nat, IsFiniteSet(N), NEW n \in Nat \ {0}
    PROVE  Firsts([e \in N |-> 0 - e], n) # {}
  <1> DEFINE sort == [e \in N |-> 0 - e]
  <1>0. Cardinality(N) \in Nat /\ DOMAIN sort = N
    BY FS_CardinalityType
  <1>1. CASE Cardinality(N) < n
    <2>1. N \in Firsts(sort, n)
      BY <1>0, <1>1 DEF Firsts
    <2> QED
      BY <2>1
  <1>2. CASE ~ Cardinality(N) < n
    <2>1. n \in 1 .. Cardinality(N)
      BY <1>0, <1>2
    <2>2. PICK k \in N : Rank(N, k) = n
      BY <2>1, RankOnto
    <2> DEFINE A == {j \in N : j <= k}
    <2>3. A \in SUBSET N /\ Cardinality(A) = n
      BY <2>2 DEF Rank
    <2>4. \A x \in A, y \in N \ A : sort[x] >= sort[y]
      OBVIOUS
    <2>5. A \in Firsts(sort, n)
      <3> HIDE DEF A
      <3> QED
        BY <1>0, <2>3, <2>4 DEF Firsts
    <2> QED
      BY <2>5
  <1> QED
    BY <1>1, <1>2

LEMMA OldestAreOldest ==
    ASSUME IsFiniteSet(Entities), NEW n \in Nat \ {0}
    PROVE  /\ OldestEntities(n) \subseteq LiveEntities
           /\ \A e \in OldestEntities(n), c \in LiveEntities : c < e => c \in OldestEntities(n)
  <1> DEFINE sort == [e \in LiveEntities |-> 0 - e]
             old  == OldestEntities(n)
  <1>1. LiveEntities \in SUBSET Nat /\ IsFiniteSet(LiveEntities)
    <2>1. LiveEntities \subseteq Entities
      BY DEF LiveEntities
    <2> QED
      BY <2>1, FS_Subset, TablesAssumption
  <1>2. old \in Firsts(sort, n)
    <2>1. Firsts(sort, n) # {}
      BY <1>1, OldestExist
    <2> QED
      BY <2>1, Zenon DEF OldestEntities
  <1>3. old \subseteq LiveEntities /\ \A x \in old, y \in LiveEntities \ old : sort[x] >= sort[y]
    <2> HIDE DEF old
    <2> QED
      BY <1>2 DEF Firsts
  <1>4. ASSUME NEW e \in old, NEW c \in LiveEntities, c < e PROVE c \in old
    <2> HIDE DEF old
    <2>1. e \in LiveEntities /\ e \in Int /\ c \in Int
      BY <1>1, <1>3
    <2>2. sort[e] = 0 - e /\ sort[c] = 0 - c
      BY <2>1
    <2>3. ~ sort[e] >= sort[c]
      BY <1>4, <2>1, <2>2
    <2> HIDE DEF sort
    <2> QED
      BY <1>3, <2>3
  <1> QED
    BY <1>3, <1>4

-----------------------------------------------------------------------------
(* Reads of several statements beside merges *)

MergedAway(e) == e \in {l[2] : l \in links}

(* What a write does to what hangs on an entity: nothing, or the identifiers   *)
(* of an erased one are gone, or a merge gives all to an older one.            *)
Moved(c, e) ==
    /\ c < e /\ c \in LiveEntities /\ e \in LiveEntities
    /\ links' = links \cup {<<c, e>>}
    /\ \A n \in RowIds : interactions'[n].entity = IF interactions[n].entity = e THEN c
                                                   ELSE interactions[n].entity
    /\ \A x \in Entities : holder'[x] = IF holder[x] = e THEN c ELSE holder[x]

Stayed ==
    /\ links' = links
    /\ \A n \in RowIds : interactions'[n].entity = interactions[n].entity
    /\ \A x \in Entities : holder'[x] \in {holder[x], 0}

HolderInv == DOMAIN holder = Entities

LEMMA WritersMove ==
    ASSUME DataInv, HolderInv, NextTables
    PROVE  /\ Stayed \/ \E c, e \in Entities : Moved(c, e)
           /\ LiveEntities' \subseteq LiveEntities
           /\ HolderInv'
  <1> USE DEF Writes, HolderInv
  <1>1. CASE Tick
    BY <1>1 DEF Tick, data, Stayed, LiveEntities
  <1>2. ASSUME NEW e \in Entities, Erase(e)
        PROVE  Stayed /\ LiveEntities' \subseteq LiveEntities /\ HolderInv'
    BY <1>2 DEF Erase, Stayed, DataInv, LiveEntities
  <1>3. ASSUME NEW e \in Entities, NEW row \in NewRows, LogInteraction(e, row)
        PROVE  Stayed /\ LiveEntities' \subseteq LiveEntities /\ HolderInv'
    <2> DEFINE new == [entity |-> e, at |-> now - row.age, good |-> row.good]
    <2>1. interactions' = Append(interactions, new)
      BY <1>3 DEF LogInteraction
    <2>2. \A n \in RowIds : interactions'[n] = interactions[n]
      <3> HIDE DEF new
      <3> QED
        BY <2>1 DEF DataInv, RowIds
    <2>3. \A x \in Entities : entities'[x].state = entities[x].state
      BY <1>3 DEF LogInteraction, DataInv
    <2> QED
      BY <1>3, <2>2, <2>3 DEF LogInteraction, Stayed, LiveEntities
  <1>4. ASSUME NEW c \in Entities, NEW e \in Entities, Merge(c, e)
        PROVE  Moved(c, e) /\ LiveEntities' \subseteq LiveEntities /\ HolderInv'
    <2>1. \A n \in RowIds : interactions'[n].entity = IF interactions[n].entity = e THEN c
                                                      ELSE interactions[n].entity
      <3>1. \A n \in RowIds : interactions[n] \in Rows
        BY RowsTyped DEF DataInv, RowIds
      <3> QED
        BY <1>4, <3>1 DEF Merge, Rows
    <2>2. LiveEntities' \subseteq LiveEntities
      BY <1>4 DEF Merge, DataInv, LiveEntities
    <2> QED
      BY <1>4, <2>1, <2>2 DEF Merge, Moved
  <1>5. ASSUME NEW q \in Recs, NEW f \in {"yes", "no"}, NEW n \in RowIds \cup {0}, UpdateFeedback(q, f, n)
        PROVE  Stayed /\ LiveEntities' \subseteq LiveEntities /\ HolderInv'
    BY <1>5 DEF UpdateFeedback, Stayed, LiveEntities
  <1>6. ASSUME NEW t \in Tenants, DeleteTenant(t)
        PROVE  Stayed /\ LiveEntities' \subseteq LiveEntities /\ HolderInv'
    BY <1>6 DEF DeleteTenant, Stayed, LiveEntities
  <1>7. ASSUME NEW p \in DOMAIN Limits, ChangePlan(p)
        PROVE  Stayed /\ LiveEntities' \subseteq LiveEntities /\ HolderInv'
    BY <1>7 DEF ChangePlan, Stayed, LiveEntities
  <1> QED
    BY <1>1, <1>2, <1>3, <1>4, <1>5, <1>6, <1>7 DEF NextTables

(* The details: an interaction leaves its entity only with the entity. *)

Newest(recent) ==
    \A n \in read.start \ recent :
        /\ Cardinality(recent) = Recent
        /\ \A m \in recent : interactions[m].at >= interactions[n].at

DetailInv ==
    read.kind = "details" =>
        /\ read.about \in Entities /\ read.start \subseteq RowIds
        /\ MergedAway(read.about) \/ read.start \subseteq RowsOf(read.about)
        /\ "recent" \notin read.todo =>
              read.recent \subseteq RowIds /\ (MergedAway(read.about) \/ Newest(read.recent))
        /\ read.pc = "done" /\ read.status = "ok" => "recent" \notin read.todo

LEMMA WritersKeepDetail ==
    ASSUME ReadsInv, HolderInv, DetailInv, NextTables
    PROVE  DetailInv'
  <1>1. Kept /\ read' = read /\ Reading
    BY WriterSteps DEF ReadsInv
  <1>2. Stayed \/ \E c, e \in Entities : Moved(c, e)
    BY WritersMove DEF ReadsInv
  <1> SUFFICES ASSUME read.kind = "details"
               PROVE  DetailInv'
    BY <1>1 DEF DetailInv
  <1>3. read.start \subseteq RowIds /\ read.start \subseteq RowIds'
    BY <1>1 DEF DetailInv, Kept
  <1>4. MergedAway(read.about) => MergedAway(read.about)'
    <2>1. links \subseteq links'
      BY <1>2 DEF Stayed, Moved
    <2> QED
      BY <1>1, <2>1 DEF MergedAway
  <1>5. MergedAway(read.about)' \/ read.start \subseteq RowsOf(read.about)'
    <2>1. CASE MergedAway(read.about)
      BY <1>4, <2>1
    <2>2. CASE read.start \subseteq RowsOf(read.about) /\ Stayed
      BY <1>1, <1>3, <2>2 DEF RowsOf, Stayed
    <2>3. ASSUME read.start \subseteq RowsOf(read.about), NEW c \in Entities, NEW e \in Entities,
                 Moved(c, e)
          PROVE  MergedAway(read.about)' \/ read.start \subseteq RowsOf(read.about)'
      <3>1. CASE read.about = e
        <4>1. <<c, e>> \in links' /\ <<c, e>>[2] = e
          BY <2>3 DEF Moved
        <4> QED
          BY <1>1, <3>1, <4>1 DEF MergedAway
      <3>2. CASE read.about # e
        BY <1>1, <1>3, <2>3, <3>2 DEF RowsOf, Moved
      <3> QED
        BY <3>1, <3>2
    <2> QED
      BY <1>2, <2>1, <2>2, <2>3 DEF DetailInv
  <1>6. "recent" \notin read.todo =>
            read.recent \subseteq RowIds' /\ (MergedAway(read.about)' \/ Newest(read.recent)')
    <2> SUFFICES ASSUME "recent" \notin read.todo
                 PROVE  read.recent \subseteq RowIds' /\ (MergedAway(read.about)' \/ Newest(read.recent)')
      OBVIOUS
    <2>1. read.recent \subseteq RowIds /\ (MergedAway(read.about) \/ Newest(read.recent))
      BY DEF DetailInv
    <2>2. read.recent \subseteq RowIds'
      BY <1>1, <2>1 DEF Kept
    <2>3. Newest(read.recent) => Newest(read.recent)'
      <3>1. \A n \in RowIds : interactions'[n].at = interactions[n].at
        BY <1>1 DEF Kept
      <3> QED
        BY <1>1, <1>3, <2>1, <3>1 DEF Newest
    <2> QED
      BY <1>4, <2>1, <2>2, <2>3
  <1> QED
    BY <1>1, <1>3, <1>5, <1>6 DEF DetailInv, Reading

LEMMA DetailKeeps ==
    ASSUME ReadsInv, FieldsInv, DetailInv, Serves
    PROVE  DetailInv'
  <1> SUFFICES ASSUME read'.kind = "details"
               PROVE  DetailInv'
    BY DEF DetailInv
  <1>0. UNCHANGED <<interactions, links>> /\ (FetchEntity \/ (DetailStep /\ read.kind = "details"))
    BY DEF Serves, data
  <1>1. CASE FetchEntity
    <2>1. PICK e \in Entities :
              \/ Answer("not_found")
              \/ read' = [pc |-> "query", kind |-> "details", status |-> "none", about |-> e,
                          identifiers |-> {}, recent |-> {},
                          todo |-> {"identifiers", "recent"}, start |-> RowsOf(e)]
      BY <1>1, Zenon DEF FetchEntity
    <2>2. ~ Answer("not_found")
      BY <1>1 DEF FetchEntity, Answer, Answered, Idle
    <2>3. /\ read'.about = e /\ read'.todo = {"identifiers", "recent"} /\ read'.start = RowsOf(e)
          /\ read'.pc = "query"
      BY <2>1, <2>2
    <2>4. RowIds' = RowIds /\ RowsOf(e) \subseteq RowIds
      BY <1>0 DEF RowIds, RowsOf
    <2>5. (read.start \subseteq RowsOf(read.about))'
      BY <1>0, <2>3 DEF RowIds, RowsOf
    <2> QED
      BY <2>3, <2>4, <2>5 DEF DetailInv
  <1>2. CASE DetailStep /\ read.kind = "details"
    <2>1. DOMAIN read = DetailFields
      BY <1>2 DEF FieldsInv
    <2>2. CASE FetchRecent
      <3> DEFINE sort == Listed("interactions", read.about)
      <3>1. PICK R \in Firsts(sort, Recent) :
                read' = [read EXCEPT !.todo = @ \ {"recent"}, !.recent = R]
        BY <2>2 DEF FetchRecent
      <3>2. /\ read'.about = read.about /\ read'.start = read.start /\ read'.pc = "query"
            /\ read'.recent = R
        BY <2>1, <2>2, <3>1 DEF DetailFields, FetchRecent
      <3>3. DOMAIN sort = RowsOf(read.about) /\ RowsOf(read.about) \subseteq RowIds
            /\ \A n \in RowsOf(read.about) : sort[n] = interactions[n].at
        BY DEF Listed, Members, SortKey, RowsOf
      <3>4. /\ R \subseteq RowsOf(read.about)
            /\ Cardinality(R) = Recent \/ R = RowsOf(read.about)
            /\ \A m \in R, n \in RowsOf(read.about) \ R : interactions[m].at >= interactions[n].at
        <4> HIDE DEF sort
        <4> QED
          BY <3>1, <3>3 DEF Firsts
      <3>5. read.start \subseteq RowsOf(read.about) => Newest(read.recent)'
        BY <1>0, <3>2, <3>4 DEF Newest
      <3>6. MergedAway(read.about)' = MergedAway(read.about) /\ RowsOf(read.about)' = RowsOf(read.about)
            /\ RowIds' = RowIds
        BY <1>0, <3>2 DEF MergedAway, RowsOf, RowIds
      <3> QED
        BY <1>2, <3>2, <3>3, <3>4, <3>5, <3>6 DEF DetailInv
    <2>3. CASE FetchIdentifiers \/ Joined \/ ListingFails
      <3>1. /\ read'.about = read.about /\ read'.start = read.start /\ read'.recent = read.recent
            /\ "recent" \in read'.todo <=> "recent" \in read.todo
            /\ read'.pc = "done" /\ read'.status = "ok" => "recent" \notin read'.todo
        BY <1>2, <2>1, <2>3
           DEF DetailFields, FetchIdentifiers, Joined, ListingFails, Answer, Answered
      <3>2. MergedAway(read.about)' = MergedAway(read.about) /\ RowsOf(read.about)' = RowsOf(read.about)
            /\ RowIds' = RowIds /\ Newest(read.recent)' = Newest(read.recent)
        BY <1>0, <3>1 DEF MergedAway, RowsOf, RowIds, Newest
      <3> QED
        BY <1>2, <3>1, <3>2 DEF DetailInv
    <2> QED
      BY <1>2, <2>2, <2>3 DEF DetailStep
  <1> QED
    BY <1>0, <1>1, <1>2

(* The graph: whatever is merged stays among the oldest. *)

GraphInv ==
    read.kind = "graph" =>
        /\ read.listed \subseteq Entities /\ read.started \subseteq Entities
        /\ read.start \subseteq RowIds
        /\ \A e \in read.listed, c \in LiveEntities : c < e => c \in read.listed
        /\ \A n \in read.start : interactions[n].entity \in read.listed
        /\ \A x \in read.started : holder[x] \in read.listed \cup {0}
        /\ "edges" \notin read.todo => read.start \subseteq read.edges
        /\ "identifiers" \notin read.todo =>
              \A x \in read.started \ read.identifiers : holder[x] = 0
        /\ read.pc = "done" /\ read.status = "ok" => read.todo = {}

LEMMA WritersKeepGraph ==
    ASSUME ReadsInv, HolderInv, GraphInv, NextTables
    PROVE  GraphInv'
  <1>1. Kept /\ read' = read /\ Reading
    BY WriterSteps DEF ReadsInv
  <1>2. (Stayed \/ \E c, e \in Entities : Moved(c, e)) /\ LiveEntities' \subseteq LiveEntities
    BY WritersMove DEF ReadsInv
  <1> SUFFICES ASSUME read.kind = "graph"
               PROVE  GraphInv'
    BY <1>1 DEF GraphInv
  <1>3. /\ read.listed \subseteq Entities /\ read.started \subseteq Entities
        /\ read.start \subseteq RowIds /\ read.start \subseteq RowIds'
        /\ \A e \in read.listed, c \in LiveEntities : c < e => c \in read.listed
    BY <1>1 DEF GraphInv, Kept
  <1>4. \A n \in read.start : interactions'[n].entity \in read.listed
    <2>1. CASE Stayed
      BY <1>3, <2>1 DEF GraphInv, Stayed
    <2>2. ASSUME NEW c \in Entities, NEW e \in Entities, Moved(c, e), NEW n \in read.start
          PROVE  interactions'[n].entity \in read.listed
      <3>1. interactions[n].entity \in read.listed /\ n \in RowIds
        BY <1>3, <2>2 DEF GraphInv
      <3> QED
        BY <1>3, <2>2, <3>1 DEF Moved
    <2> QED
      BY <1>2, <2>1, <2>2
  <1>5. \A x \in read.started : holder'[x] \in read.listed \cup {0}
    <2>1. CASE Stayed
      BY <1>3, <2>1 DEF GraphInv, Stayed
    <2>2. ASSUME NEW c \in Entities, NEW e \in Entities, Moved(c, e), NEW x \in read.started
          PROVE  holder'[x] \in read.listed \cup {0}
      <3>1. holder[x] \in read.listed \cup {0} /\ x \in Entities
        BY <1>3, <2>2 DEF GraphInv
      <3>2. holder'[x] = IF holder[x] = e THEN c ELSE holder[x]
        BY <2>2, <3>1 DEF Moved
      <3>3. c < e /\ c \in LiveEntities /\ e # 0
        BY <2>2, TablesAssumption DEF Moved
      <3> QED
        BY <1>3, <3>1, <3>2, <3>3
    <2> QED
      BY <1>2, <2>1, <2>2
  <1>6. \A x \in read.started : holder[x] = 0 => holder'[x] = 0
    <2>1. CASE Stayed
      BY <1>3, <2>1 DEF Stayed
    <2>2. ASSUME NEW c \in Entities, NEW e \in Entities, Moved(c, e), NEW x \in read.started,
                 holder[x] = 0
          PROVE  holder'[x] = 0
      BY <1>3, <2>2, TablesAssumption DEF Moved
    <2> QED
      BY <1>2, <2>1, <2>2
  <1> QED
    BY <1>1, <1>2, <1>3, <1>4, <1>5, <1>6 DEF GraphInv, Reading

LEMMA GraphKeeps ==
    ASSUME IsFiniteSet(Entities), ReadsInv, FieldsInv, HolderInv, GraphInv, Serves
    PROVE  GraphInv'
  <1> SUFFICES ASSUME read'.kind = "graph"
               PROVE  GraphInv'
    BY DEF GraphInv
  <1>0. /\ UNCHANGED <<interactions, entities, holder>>
        /\ FetchGraphEntities \/ (GraphStep /\ read.kind = "graph")
    BY DEF Serves, data
  <1>a. RowIds' = RowIds /\ LiveEntities' = LiveEntities
    BY <1>0 DEF RowIds, LiveEntities
  <1>1. CASE FetchGraphEntities
    <2>1. PICK limit \in Nat \ {0} :
              \/ Answer("empty")
              \/ read' = [pc |-> "query", kind |-> "graph", status |-> "none",
                          listed |-> OldestEntities(limit),
                          truncated |-> OldestEntities(limit + 1) # OldestEntities(limit),
                          identifiers |-> {}, edges |-> {}, links |-> {},
                          todo |-> {"identifiers", "edges", "links"},
                          start |-> UNION {RowsOf(e) : e \in OldestEntities(limit)},
                          started |-> HeldBy(OldestEntities(limit))]
      BY <1>1, GraphStarts
    <2>2. ~ Answer("empty")
      BY <1>1 DEF FetchGraphEntities, Answer, Answered, Idle
    <2> DEFINE old == OldestEntities(limit)
    <2>3. /\ read'.listed = old /\ read'.todo = {"identifiers", "edges", "links"}
          /\ read'.start = UNION {RowsOf(e) : e \in old} /\ read'.started = HeldBy(old)
          /\ read'.pc = "query"
      BY <2>1, <2>2
    <2>4. old \subseteq Entities /\ \A e \in old, c \in LiveEntities : c < e => c \in old
      BY OldestAreOldest DEF LiveEntities
    <2> HIDE DEF old
    <2>5. read'.start \subseteq RowIds /\ \A n \in read'.start : interactions[n].entity \in old
      BY <2>3 DEF RowsOf
    <2>6. read'.started \subseteq Entities /\ \A x \in read'.started : holder[x] \in old
      BY <2>3 DEF HeldBy
    <2> QED
      BY <1>0, <1>a, <2>3, <2>4, <2>5, <2>6 DEF GraphInv
  <1>2. CASE GraphStep /\ read.kind = "graph"
    <2>1. DOMAIN read = GraphFields
      BY <1>2 DEF FieldsInv
    <2>2. /\ read'.listed = read.listed /\ read'.start = read.start /\ read'.started = read.started
          /\ read'.pc = "done" /\ read'.status = "ok" => read'.todo = {}
      BY <1>2, <2>1 DEF GraphStep, GraphFields, FetchGraphIdentifiers, FetchEdges, FetchLinks,
                        JoinedGraph, ListingFails, Answer, Answered
    <2>3. "edges" \notin read'.todo => read'.start \subseteq read'.edges
      <3>1. CASE FetchEdges
        <4>1. read'.edges = UNION {RowsOf(e) : e \in read.listed}
          BY <2>1, <3>1 DEF GraphFields, FetchEdges
        <4>2. \A n \in read.start : n \in RowIds /\ interactions[n].entity \in read.listed
          BY <1>2 DEF GraphInv
        <4> QED
          BY <2>2, <4>1, <4>2 DEF RowsOf
      <3>2. CASE ~ FetchEdges
        <4>1. read'.edges = read.edges /\ ("edges" \in read'.todo <=> "edges" \in read.todo)
          BY ZenonT(40), <1>2, <2>1, <3>2 DEF GraphStep, GraphFields, FetchGraphIdentifiers, FetchLinks,
                        JoinedGraph, ListingFails, Answer, Answered
        <4> QED
          BY <1>2, <2>2, <4>1 DEF GraphInv
      <3> QED
        BY <3>1, <3>2
    <2>4. "identifiers" \notin read'.todo =>
              \A x \in read'.started \ read'.identifiers : holder[x] = 0
      <3>1. CASE FetchGraphIdentifiers
        <4>1. read'.identifiers = HeldBy(read.listed)
          BY <2>1, <3>1 DEF GraphFields, FetchGraphIdentifiers
        <4>2. read.started \subseteq Entities /\ \A x \in read.started : holder[x] \in read.listed \cup {0}
          BY <1>2 DEF GraphInv
        <4> QED
          BY <2>2, <4>1, <4>2 DEF HeldBy
      <3>2. CASE ~ FetchGraphIdentifiers
        <4>1. /\ read'.identifiers = read.identifiers
              /\ "identifiers" \in read'.todo <=> "identifiers" \in read.todo
          BY ZenonT(40), <1>2, <2>1, <3>2 DEF GraphStep, GraphFields, FetchEdges, FetchLinks,
                        JoinedGraph, ListingFails, Answer, Answered
        <4> QED
          BY <1>2, <2>2, <4>1 DEF GraphInv
      <3> QED
        BY <3>1, <3>2
    <2> QED
      BY <1>0, <1>2, <1>a, <2>2, <2>3, <2>4 DEF GraphInv
  <1> QED
    BY <1>0, <1>1, <1>2

MergeInv == HolderInv /\ DetailInv /\ GraphInv

LEMMA MergeStep ==
    ASSUME IsFiniteSet(Entities), ReadsInv, FieldsInv, MergeInv, [Next]_vars
    PROVE  MergeInv'
  <1> USE DEF MergeInv
  <1>1. CASE NextTables
    BY <1>1, WritersMove, WritersKeepDetail, WritersKeepGraph DEF ReadsInv
  <1>2. CASE NextListing \/ NextReports
    <2>1. Serves
      BY <1>2, ListingServes, ReportsServe
    <2>2. HolderInv'
      BY <2>1 DEF Serves, data, HolderInv
    <2> QED
      BY <2>1, <2>2, DetailKeeps, GraphKeeps
  <1>3. CASE UNCHANGED vars
    BY <1>3 DEF vars, data, HolderInv, DetailInv, GraphInv, MergedAway, RowIds, RowsOf, Newest,
                LiveEntities
  <1> QED
    BY <1>1, <1>2, <1>3 DEF Next

(* GetEntityHandler and GetEntityGraphHandler: whatever is merged or erased       *)
(* between their statements, the details of an entity leave an interaction out   *)
(* only for newer ones or when the entity itself was merged away, and what hung  *)
(* on an entity of the graph is on the graph unless it was erased.              *)
THEOREM NothingIsHidden ==
    ASSUME IsFiniteSet(Entities)
    PROVE  Spec => []MergesHideNothing
  <1>1. Init => MergeInv
    BY DEF Init, InitTables, Idle, MergeInv, HolderInv, DetailInv, GraphInv
  <1>2. MergeInv => MergesHideNothing
    <2> SUFFICES ASSUME MergeInv PROVE MergesHideNothing
      OBVIOUS
    <2>1. Finished("details", "ok") =>
              \/ read.about \in {l[2] : l \in links}
              \/ \A n \in read.start \ read.recent :
                    /\ Cardinality(read.recent) = Recent
                    /\ \A m \in read.recent : interactions[m].at >= interactions[n].at
      BY DEF MergeInv, DetailInv, Finished, MergedAway, Newest
    <2>2. Finished("graph", "ok") =>
              /\ read.start \subseteq read.edges
              /\ \A x \in read.started \ read.identifiers : holder[x] = 0
      BY DEF MergeInv, GraphInv, Finished
    <2> QED
      BY <2>1, <2>2 DEF MergesHideNothing
  <1>3. ReadsInv /\ FieldsInv /\ MergeInv /\ [Next]_vars => MergeInv'
    BY MergeStep
  <1> QED
    BY <1>1, <1>2, <1>3, ReadsInvariant, FieldsInvariant, PTL DEF Spec

-----------------------------------------------------------------------------
(* Pages *)

(* A row that sorts like no other, with at least as many above it as the page   *)
(* skips, and that is not on the page: the page is full and all above it, too.  *)
LEMMA PageMisses ==
    ASSUME NEW sort, IsFiniteSet(DOMAIN sort), \A y \in DOMAIN sort : sort[y] \in Int,
           NEW o \in Nat, NEW l \in Nat \ {0}, NEW P \in Pages(sort, o, l),
           NEW x \in DOMAIN sort, x \notin P, x \notin TiedRows(sort),
           Cardinality({y \in DOMAIN sort : sort[y] > sort[x]}) >= o
    PROVE  /\ Cardinality({y \in DOMAIN sort : sort[y] > sort[x]}) >= o + l
           /\ ~ Cardinality(P) < l
  <1> DEFINE U == {y \in DOMAIN sort : sort[y] > sort[x]}
  <1>1. PICK A \in Firsts(sort, o) : A \cap P = {} /\ A \cup P \in Firsts(sort, o + l)
    BY DEF Pages
  <1> DEFINE B == A \cup P
  <1>2. /\ A \subseteq DOMAIN sort /\ P \subseteq DOMAIN sort
        /\ Cardinality(A) = o \/ Cardinality(A) < o
        /\ \A y \in A, z \in DOMAIN sort \ A : sort[y] >= sort[z]
    BY <1>1 DEF Firsts, Pages
  <1>3. /\ B \subseteq DOMAIN sort
        /\ Cardinality(B) = o + l \/ B = DOMAIN sort
        /\ \A y \in B, z \in DOMAIN sort \ B : sort[y] >= sort[z]
    <2> HIDE DEF B
    <2>1. B \in Firsts(sort, o + l)
      BY <1>1 DEF B
    <2> QED
      BY <2>1 DEF Firsts
  <1>4. /\ IsFiniteSet(A) /\ IsFiniteSet(P) /\ IsFiniteSet(B) /\ IsFiniteSet(U)
        /\ Cardinality(A) \in Nat /\ Cardinality(P) \in Nat
        /\ Cardinality(B) \in Nat /\ Cardinality(U) \in Nat
    <2>1. U \subseteq DOMAIN sort
      OBVIOUS
    <2> HIDE DEF B, U
    <2> QED
      BY <1>2, <1>3, <2>1, FS_Subset, FS_CardinalityType
  <1>5. x \notin A
    <2> SUFFICES ASSUME x \in A PROVE FALSE
      OBVIOUS
    <2>1. U \subseteq A \ {x}
      BY <1>2
    <2>2. IsFiniteSet(A \ {x}) /\ Cardinality(A \ {x}) = Cardinality(A) - 1
      BY <1>4, FS_RemoveElement
    <2>3. Cardinality(U) <= Cardinality(A \ {x})
      <3> HIDE DEF U
      <3> QED
        BY <2>1, <2>2, FS_Subset
    <2>4. Cardinality(U) >= o
      OBVIOUS
    <2> HIDE DEF U
    <2> QED
      BY <1>2, <1>4, <2>2, <2>3, <2>4
  <1>6. x \notin B
    BY <1>5
  <1>7. Cardinality(B) = o + l
    <2> HIDE DEF B
    <2> QED
      BY <1>3, <1>6
  <1>8. B \subseteq U
    <2> SUFFICES ASSUME NEW y \in B PROVE y \in U
      OBVIOUS
    <2>1. y \in DOMAIN sort /\ sort[y] >= sort[x] /\ y # x
      <3> HIDE DEF B
      <3> QED
        BY <1>3, <1>6
    <2>2. sort[y] # sort[x]
      BY <2>1 DEF TiedRows
    <2> QED
      BY <2>1, <2>2
  <1>9. Cardinality(B) <= Cardinality(U)
    <2> HIDE DEF B, U
    <2> QED
      BY <1>4, <1>8, FS_Subset
  <1>10. Cardinality(B) = Cardinality(A) + Cardinality(P)
    <2>1. Cardinality(A \cap P) = 0
      BY <1>1, FS_EmptySet
    <2>2. Cardinality(A \cup P) = Cardinality(A) + Cardinality(P) - Cardinality(A \cap P)
      BY <1>4, FS_Union
    <2> QED
      BY <1>4, <2>1, <2>2
  <1>11. Cardinality(U) >= o + l /\ ~ Cardinality(P) < l
    <2> HIDE DEF B, U
    <2> QED
      BY <1>2, <1>4, <1>7, <1>9, <1>10
  <1> QED
    BY <1>11

-----------------------------------------------------------------------------
(* What a list sorts by *)

(* Nothing was touched in the future, and only tenants were ever deleted. *)
SortInv ==
    /\ \A e \in Entities : entities[e].touched \in Int /\ entities[e].touched <= now
    /\ tenants \subseteq Tenants

LEMMA TouchedBefore ==
    ASSUME NEW seed \in Seeds, NEW e \in Entities
    PROVE  Touched(seed.rows, e) \in 0 .. StartTime
  <1> DEFINE rows == seed.rows
             at   == {rows[n].at : n \in {m \in DOMAIN rows : rows[m].entity = e}}
  <1>1. at \subseteq 0 .. StartTime
    <2> DEFINE Early == [entity : Entities, at : 0 .. StartTime, good : BOOLEAN]
    <2>1. rows \in Seq(Early)
      BY TablesAssumption
    <2>2. \A n \in DOMAIN rows : rows[n] \in Early
      <3> HIDE DEF rows, Early
      <3> QED
        BY <2>1
    <2> HIDE DEF rows
    <2> QED
      BY <2>2
  <1>2. Touched(rows, e) = IF at = {} THEN 0 ELSE CHOOSE t \in at : \A u \in at : u <= t
    BY DEF Touched
  <1>3. ASSUME at # {}
        PROVE  \E t \in at : \A u \in at : u <= t
    <2> HIDE DEF at
    <2>1. StartTime \in Nat /\ at \in SUBSET Nat /\ \A t \in at : t <= StartTime
      BY <1>1, TablesAssumption
    <2>2. IsFiniteSet(at)
      BY <2>1, FS_BoundedSetOfNaturals
    <2>3. Cardinality(at) \in 1 .. Cardinality(at)
      <3>1. Cardinality(at) \in Nat /\ Cardinality(at) # 0
        BY <1>3, <2>2, FS_CardinalityType, FS_EmptySet
      <3> QED
        BY <3>1
    <2>4. PICK t \in at : Rank(at, t) = Cardinality(at)
      BY <2>1, <2>2, <2>3, RankOnto
    <2> DEFINE below == {u \in at : u <= t}
    <2>5. below \in SUBSET at /\ Cardinality(at) = Cardinality(below)
      BY <2>4 DEF Rank
    <2>6. at = below
      <3> HIDE DEF below
      <3> QED
        BY <2>2, <2>5, FS_Subset
    <2> QED
      BY <2>6
  <1>4. StartTime \in Nat
    BY TablesAssumption
  <1> HIDE DEF at, rows
  <1>5. CASE at = {}
    BY <1>2, <1>4, <1>5 DEF rows
  <1>6. CASE at # {}
    <2>1. (CHOOSE t \in at : \A u \in at : u <= t) \in at
      BY <1>3, <1>6
    <2> QED
      BY <1>1, <1>2, <1>6, <2>1 DEF rows
  <1> QED
    BY <1>5, <1>6

LEMMA SortInit == Init => SortInv
  <1> SUFFICES ASSUME Init PROVE SortInv
    OBVIOUS
  <1> USE DEF Init, InitTables
  <1>1. PICK seed \in Seeds :
            entities = [e \in Entities |-> [state |-> "live", touched |-> Touched(seed.rows, e)]]
    OBVIOUS
  <1>2. \A e \in Entities : entities[e].touched = Touched(seed.rows, e)
    BY <1>1
  <1>3. \A e \in Entities : Touched(seed.rows, e) \in 0 .. StartTime
    BY TouchedBefore
  <1> QED
    BY <1>2, <1>3, TablesAssumption DEF SortInv

(* What a write does to the order of things: it moves rows up, and away.        *)
MovesUp ==
    /\ \A e \in Entities : /\ entities'[e].touched >= entities[e].touched
                           /\ entities[e].state = "merged" => entities'[e].state = "merged"
                           /\ RowsOf(e) \subseteq RowsOf(e)' \/ entities'[e].state = "merged"
    /\ LiveEntities' \subseteq LiveEntities /\ tenants' \subseteq tenants

LEMMA WritersMoveUp ==
    ASSUME DataInv, SortInv, NextTables
    PROVE  SortInv' /\ MovesUp
  <1> USE DEF Writes, SortInv
  <1>0. now \in Int /\ \A e \in Entities : DOMAIN entities[e] = {"state", "touched"}
    BY DEF DataInv
  <1>1. CASE Tick
    BY <1>0, <1>1 DEF Tick, data, MovesUp, LiveEntities, RowsOf, RowIds
  <1>2. ASSUME NEW e \in Entities, Erase(e)
        PROVE  SortInv' /\ MovesUp
    <2>1. \A x \in Entities : /\ entities'[x].touched = entities[x].touched
                              /\ entities'[x].state = IF x = e THEN "erased" ELSE entities[x].state
      BY <1>2 DEF Erase, DataInv
    <2>2. \A x \in Entities : RowsOf(x)' = RowsOf(x)
      BY <1>2 DEF Erase, RowsOf, RowIds
    <2>3. entities[e].state = "live" /\ UNCHANGED <<now, tenants>>
      BY <1>2 DEF Erase, LiveEntities
    <2> QED
      BY <2>1, <2>2, <2>3 DEF MovesUp, LiveEntities
  <1>3. ASSUME NEW e \in Entities, NEW row \in NewRows, LogInteraction(e, row)
        PROVE  SortInv' /\ MovesUp
    <2> DEFINE new == [entity |-> e, at |-> now - row.age, good |-> row.good]
    <2>1. interactions' = Append(interactions, new) /\ UNCHANGED <<now, tenants>>
      BY <1>3 DEF LogInteraction
    <2>2. \A n \in RowIds : n \in RowIds' /\ interactions'[n] = interactions[n]
      <3> HIDE DEF new
      <3> QED
        BY <2>1 DEF DataInv, RowIds
    <2>3. \A x \in Entities : /\ entities'[x].state = entities[x].state
                              /\ entities'[x].touched = IF x = e THEN now ELSE entities[x].touched
      BY <1>3 DEF LogInteraction, DataInv
    <2>4. \A x \in Entities : RowsOf(x) \subseteq RowsOf(x)'
      BY <2>2 DEF RowsOf
    <2> QED
      BY <1>0, <2>1, <2>3, <2>4 DEF MovesUp, LiveEntities
  <1>4. ASSUME NEW c \in Entities, NEW e \in Entities, Merge(c, e)
        PROVE  SortInv' /\ MovesUp
    <2>1. \A x \in Entities : /\ entities'[x].touched = entities[x].touched
                              /\ entities'[x].state = IF x = e THEN "merged" ELSE entities[x].state
      BY <1>4 DEF Merge, DataInv
    <2>2. UNCHANGED <<now, tenants>>
      BY <1>4 DEF Merge
    <2>3. ASSUME NEW x \in Entities, x # e PROVE RowsOf(x) \subseteq RowsOf(x)'
      <3>1. RowIds' = RowIds /\ \A n \in RowIds : interactions[n].entity # e =>
                                                       interactions'[n] = interactions[n]
        BY <1>4 DEF Merge, RowIds
      <3> QED
        BY <2>3, <3>1 DEF RowsOf
    <2> QED
      BY <2>1, <2>2, <2>3 DEF MovesUp, LiveEntities
  <1>5. ASSUME NEW q \in Recs, NEW f \in {"yes", "no"}, NEW n \in RowIds \cup {0}, UpdateFeedback(q, f, n)
        PROVE  SortInv' /\ MovesUp
    BY <1>5 DEF UpdateFeedback, MovesUp, LiveEntities, RowsOf, RowIds
  <1>6. ASSUME NEW t \in Tenants, DeleteTenant(t)
        PROVE  SortInv' /\ MovesUp
    BY <1>6 DEF DeleteTenant, MovesUp, LiveEntities, RowsOf, RowIds
  <1>7. ASSUME NEW p \in DOMAIN Limits, ChangePlan(p)
        PROVE  SortInv' /\ MovesUp
    BY <1>7 DEF ChangePlan, MovesUp, LiveEntities, RowsOf, RowIds
  <1> QED
    BY <1>1, <1>2, <1>3, <1>4, <1>5, <1>6, <1>7 DEF NextTables

-----------------------------------------------------------------------------
(* The walk through the pages *)

Key(x)   == SortKey(read.kind, x)
Here     == Members(read.kind, read.about)
Above(x) == {y \in Here : Key(y) > read.start[x]}

(* What keeps a row off the pages although it was there: nothing else does. *)
Excused(x) ==
    \/ x \in read.seen \cup read.tied
    \/ \E y \in DOMAIN read.start \ Here : Key(y) >= read.start[x]
    \/ x \in Here /\ Key(x) # read.start[x]

(* A row that is yet to come has at least as many above it as were skipped. *)
Ahead(x) ==
    /\ x \in Here /\ Key(x) = read.start[x]
    /\ Cardinality(Above(x)) >= read.offset + (IF "page" \in read.todo THEN 0 ELSE read.limit)
    /\ "page" \notin read.todo => ~ Cardinality(read.page) < read.limit

(* The keys of rows only grow; lists of entities and of tenants only shrink,  *)
(* and an entity that was merged away has no rows and gets none.            *)
StartInv ==
    /\ read.limit \in Nat \ {0} /\ read.offset \in Nat
    /\ \A x \in DOMAIN read.start : read.start[x] \in Int /\ Key(x) \in Int /\ Key(x) >= read.start[x]
    /\ read.kind = "interactions" =>
          /\ read.about \in Entities /\ DOMAIN read.start \subseteq RowIds
          /\ (DOMAIN read.start \subseteq Here \/ entities[read.about].state = "merged")
    /\ read.kind = "entities" => Here \subseteq DOMAIN read.start /\ DOMAIN read.start \subseteq Entities
    /\ read.kind = "tenants" => Here \subseteq DOMAIN read.start /\ DOMAIN read.start \subseteq Tenants

WalkInv ==
    read.kind \in Lists =>
        /\ StartInv
        /\ read.pc # "done" => \A x \in DOMAIN read.start : Excused(x) \/ Ahead(x)
        /\ read.pc = "done" /\ read.status = "walked" => \A x \in DOMAIN read.start : Excused(x)

LEMMA HereTyped ==
    ASSUME IsFiniteSet(Entities), IsFiniteSet(Tenants), DataInv, SortInv,
           NEW kind \in Lists, NEW e
    PROVE  /\ IsFiniteSet(Members(kind, e))
           /\ \A x \in Members(kind, e) : SortKey(kind, x) \in Int
  <1>1. IsFiniteSet(RowIds)
    <2>1. RowIds = 1 .. Len(interactions) /\ Len(interactions) \in Nat
      BY RowsTyped DEF DataInv, RowIds
    <2> QED
      BY <2>1, FS_Interval
  <1>2. CASE kind = "interactions"
    <2>1. Members(kind, e) \subseteq RowIds /\ \A x : SortKey(kind, x) = interactions[x].at
      BY <1>2 DEF Members, SortKey, RowsOf
    <2>2. \A x \in RowIds : interactions[x].at \in Int
      BY RowsTyped DEF DataInv, RowIds
    <2> QED
      BY <1>1, <2>1, <2>2, FS_Subset
  <1>3. CASE kind = "entities"
    <2>1. Members(kind, e) \subseteq Entities /\ \A x : SortKey(kind, x) = entities[x].touched
      BY <1>3 DEF Members, SortKey, LiveEntities
    <2> QED
      BY <2>1, FS_Subset DEF SortInv
  <1>4. CASE kind = "tenants"
    <2>1. Members(kind, e) \subseteq Tenants /\ \A x : SortKey(kind, x) = x
      BY <1>4 DEF Members, SortKey, SortInv
    <2>2. \A x \in Tenants : x \in Int
      BY TablesAssumption
    <2> QED
      BY <2>1, <2>2, FS_Subset
  <1> QED
    BY <1>2, <1>3, <1>4 DEF Lists

LEMMA MergedHasNoRows ==
    ASSUME DataInv, NEW e \in Entities, entities[e].state = "merged"
    PROVE  RowsOf(e) = {}
  BY DEF DataInv, RowsOf

(* Beside a write, the list loses nothing, or all of it, or only rows that were *)
(* there when the walk began; what it lost then stays away.                    *)
LEMMA WalkBesideWrites ==
    ASSUME ReadsInv, SortInv, StartInv, read.kind \in Lists, NextTables
    PROVE  /\ StartInv'
           /\ \A x \in DOMAIN read.start : Key(x)' \in Int /\ Key(x)' >= Key(x)
           /\ \A y \in Here : y \in Here' => Key(y) \in Int /\ Key(y)' \in Int /\ Key(y)' >= Key(y)
           /\ Here \subseteq Here' \/ Here' = {} \/ Here \subseteq DOMAIN read.start
           /\ \A y \in DOMAIN read.start \ Here : y \notin Here'
  <1>1. read' = read /\ Kept /\ DataInv' /\ DataInv
    BY WriterSteps DEF ReadsInv
  <1>2. SortInv' /\ MovesUp
    BY WritersMoveUp DEF ReadsInv
  <1>3. CASE read.kind = "interactions"
    <2>1. /\ Here = RowsOf(read.about) /\ Here' = RowsOf(read.about)'
          /\ \A x : Key(x) = interactions[x].at /\ Key(x)' = interactions'[x].at
      BY <1>1, <1>3 DEF Here, Key, Members, SortKey
    <2>2. /\ read.about \in Entities /\ DOMAIN read.start \subseteq RowIds
          /\ DOMAIN read.start \subseteq Here \/ entities[read.about].state = "merged"
      BY <1>3 DEF StartInv
    <2>3. \A x \in RowIds : x \in RowIds' /\ interactions'[x].at = interactions[x].at
                            /\ interactions[x].at \in Int
      BY <1>1, RowsTyped DEF Kept, DataInv, RowIds
    <2>4. Here \subseteq RowIds
      BY <2>1 DEF RowsOf
    <2>5. /\ entities[read.about].state = "merged" => entities'[read.about].state = "merged"
          /\ RowsOf(read.about) \subseteq RowsOf(read.about)' \/ entities'[read.about].state = "merged"
      BY <1>1, <1>2, <2>2 DEF MovesUp, RowsOf
    <2>6. entities'[read.about].state = "merged" => Here' = {}
      <3>1. \A e \in Entities : (entities[e].state = "merged" => RowsOf(e) = {})'
        BY <1>1 DEF DataInv, RowsOf
      <3> QED
        BY <2>1, <2>2, <3>1, <1>1
    <2>7. Here \subseteq Here' \/ Here' = {}
      BY <2>1, <2>5, <2>6
    <2>8. \A y \in DOMAIN read.start \ Here : y \notin Here'
      BY <2>2, <2>5, <2>6
    <2>9. StartInv'
      <3>1. DOMAIN read.start \subseteq Here' \/ entities'[read.about].state = "merged"
        BY <2>1, <2>2, <2>5
      <3>2. \A x \in DOMAIN read.start : read.start[x] \in Int /\ Key(x)' \in Int /\ Key(x)' >= read.start[x]
        BY <2>1, <2>2, <2>3 DEF StartInv
      <3>3. DOMAIN read.start \subseteq RowIds'
        BY <2>2, <2>3
      <3>4. read.limit \in Nat \ {0} /\ read.offset \in Nat
        BY DEF StartInv
      <3> QED
        BY <1>1, <1>3, <2>2, <3>1, <3>2, <3>3, <3>4 DEF StartInv
    <2> QED
      BY <2>1, <2>2, <2>3, <2>4, <2>7, <2>8, <2>9
  <1>4. CASE read.kind = "entities"
    <2>1. /\ Here = LiveEntities /\ Here' = LiveEntities'
          /\ \A x : Key(x) = entities[x].touched /\ Key(x)' = entities'[x].touched
      BY <1>1, <1>4 DEF Here, Key, Members, SortKey
    <2>2. Here' \subseteq Here /\ Here \subseteq DOMAIN read.start /\ DOMAIN read.start \subseteq Entities
      BY <1>2, <1>4, <2>1 DEF StartInv, MovesUp
    <2>3. \A x \in Entities : /\ entities[x].touched \in Int /\ entities'[x].touched \in Int
                              /\ entities'[x].touched >= entities[x].touched
      BY <1>2 DEF SortInv, MovesUp
    <2>4. StartInv'
      <3>1. \A x \in DOMAIN read.start : read.start[x] \in Int /\ Key(x)' \in Int /\ Key(x)' >= read.start[x]
        BY <2>1, <2>2, <2>3 DEF StartInv
      <3>2. read.limit \in Nat \ {0} /\ read.offset \in Nat
        BY DEF StartInv
      <3> QED
        BY <1>1, <1>4, <2>2, <3>1, <3>2 DEF StartInv
    <2> QED
      BY <2>1, <2>2, <2>3, <2>4
  <1>5. CASE read.kind = "tenants"
    <2>1. Here = tenants /\ Here' = tenants' /\ \A x : Key(x) = x /\ Key(x)' = x
      BY <1>1, <1>5 DEF Here, Key, Members, SortKey
    <2>2. Here' \subseteq Here /\ Here \subseteq DOMAIN read.start /\ DOMAIN read.start \subseteq Tenants
      BY <1>2, <1>5, <2>1 DEF StartInv, MovesUp
    <2>3. \A x \in Tenants : x \in Int
      BY TablesAssumption
    <2>4. StartInv'
      <3>1. \A x \in DOMAIN read.start : read.start[x] \in Int /\ Key(x)' \in Int /\ Key(x)' >= read.start[x]
        BY <2>1, <2>2, <2>3 DEF StartInv
      <3>2. read.limit \in Nat \ {0} /\ read.offset \in Nat
        BY DEF StartInv
      <3> QED
        BY <1>1, <1>5, <2>2, <3>1, <3>2 DEF StartInv
    <2> QED
      BY <2>1, <2>2, <2>3, <2>4
  <1> QED
    BY <1>3, <1>4, <1>5 DEF Lists

LEMMA WritersKeepWalk ==
    ASSUME IsFiniteSet(Entities), IsFiniteSet(Tenants), ReadsInv, SortInv, WalkInv, NextTables
    PROVE  WalkInv'
  <1>1. read' = read /\ DataInv' /\ Reading
    BY WriterSteps DEF ReadsInv
  <1>2. SortInv'
    BY WritersMoveUp DEF ReadsInv
  <1> SUFFICES ASSUME read.kind \in Lists
               PROVE  WalkInv'
    BY <1>1 DEF WalkInv
  <1>3. StartInv /\ \A x \in DOMAIN read.start : Excused(x) \/ Ahead(x)
    BY <1>1 DEF WalkInv, Reading
  <1>4. /\ StartInv'
        /\ \A x \in DOMAIN read.start : Key(x)' \in Int /\ Key(x)' >= Key(x)
        /\ \A y \in Here : y \in Here' => Key(y) \in Int /\ Key(y)' \in Int /\ Key(y)' >= Key(y)
        /\ Here \subseteq Here' \/ Here' = {} \/ Here \subseteq DOMAIN read.start
        /\ \A y \in DOMAIN read.start \ Here : y \notin Here'
    BY <1>3, WalkBesideWrites
  <1>5. \A x \in DOMAIN read.start : read.start[x] \in Int /\ Key(x) \in Int /\ Key(x) >= read.start[x]
    BY <1>3 DEF StartInv
  <1>6. IsFiniteSet(Here')
    <2>1. \A kind \in Lists : IsFiniteSet(Members(kind, read.about)')
      <3> SUFFICES ASSUME NEW kind \in Lists PROVE IsFiniteSet(Members(kind, read.about)')
        OBVIOUS
      <3>1. IsFiniteSet(RowIds')
        <4>1. RowIds' = 1 .. Len(interactions') /\ Len(interactions') \in Nat
          BY <1>1, RowsTyped DEF DataInv, RowIds
        <4> QED
          BY <4>1, FS_Interval
      <3>2. \/ Members(kind, read.about)' \subseteq RowIds'
            \/ Members(kind, read.about)' \subseteq Entities
            \/ Members(kind, read.about)' \subseteq Tenants
        BY <1>2 DEF Members, Lists, RowsOf, LiveEntities, SortInv
      <3> QED
        BY <3>1, <3>2, FS_Subset
    <2> QED
      BY <1>1, <2>1 DEF Here
  <1>7. ASSUME NEW x \in DOMAIN read.start
        PROVE  Excused(x)' \/ Ahead(x)'
    <2>0. /\ read.start[x] \in Int /\ Key(x) \in Int /\ Key(x)' \in Int
          /\ Key(x) >= read.start[x] /\ Key(x)' >= Key(x)
      BY <1>4, <1>5
    <2>1. Excused(x)' <=> \/ x \in read.seen \cup read.tied
                          \/ \E y \in DOMAIN read.start \ Here' : Key(y)' >= read.start[x]
                          \/ x \in Here' /\ Key(x)' # read.start[x]
      BY <1>1 DEF Excused
    <2>2. CASE x \notin Here'
      <3>1. x \in DOMAIN read.start \ Here' /\ Key(x)' >= read.start[x]
        BY <2>0, <2>2
      <3> QED
        BY <2>1, <3>1
    <2>3. CASE Excused(x)
      <3>1. CASE \E y \in DOMAIN read.start \ Here : Key(y) >= read.start[x]
        <4>1. PICK y \in DOMAIN read.start \ Here : Key(y) >= read.start[x]
          BY <3>1
        <4>2. y \notin Here' /\ Key(y)' \in Int /\ Key(y)' >= Key(y) /\ Key(y) \in Int
          BY <1>4, <1>5, <4>1
        <4>3. Key(y)' >= read.start[x]
          BY <2>0, <4>1, <4>2
        <4> QED
          BY <2>1, <4>1, <4>2, <4>3
      <3>2. CASE x \in Here /\ Key(x) # read.start[x]
        <4>1. Key(x)' # read.start[x]
          BY <2>0, <3>2
        <4> QED
          BY <2>1, <2>2, <4>1
      <3> QED
        BY <2>1, <2>3, <3>1, <3>2 DEF Excused
    <2>4. CASE Ahead(x) /\ x \in Here'
      <3>1. CASE Key(x)' # read.start[x]
        BY <2>1, <2>4, <3>1
      <3>2. CASE \E y \in Above(x) : y \notin Here'
        <4>1. PICK y \in Above(x) : y \notin Here'
          BY <3>2
        <4>2. y \in Here /\ Key(y) > read.start[x]
          BY <4>1 DEF Above
        <4>3. y \in DOMAIN read.start
          BY <1>4, <2>4, <4>1, <4>2
        <4>4. Key(y)' >= read.start[x]
          BY <1>4, <1>5, <2>0, <4>2, <4>3
        <4> QED
          BY <2>1, <4>1, <4>3, <4>4
      <3>3. CASE Key(x)' = read.start[x] /\ \A y \in Above(x) : y \in Here'
        <4>1. Above(x)' = {y \in Here' : Key(y)' > read.start[x]}
          BY <1>1 DEF Above
        <4>2. ASSUME NEW y \in Above(x) PROVE y \in Above(x)'
          <5>1. y \in Here /\ y \in Here' /\ Key(y) > read.start[x]
            BY <3>3, <4>2 DEF Above
          <5>2. Key(y)' > read.start[x]
            BY <1>4, <2>0, <5>1
          <5> QED
            BY <4>1, <5>1, <5>2
        <4>3. IsFiniteSet(Above(x)')
          BY <1>6, <4>1, FS_Subset
        <4>4. Cardinality(Above(x)) <= Cardinality(Above(x)')
          BY <4>2, <4>3, FS_Subset
        <4>5. Cardinality(Above(x)) \in Nat /\ Cardinality(Above(x)') \in Nat
          <5>1. IsFiniteSet(Above(x))
            BY <4>2, <4>3, FS_Subset
          <5> QED
            BY <4>3, <5>1, FS_CardinalityType
        <4>6. read.offset \in Nat /\ read.limit \in Nat
          BY <1>3 DEF StartInv
        <4>7. Cardinality(Above(x)') >= read.offset + (IF "page" \in read.todo THEN 0 ELSE read.limit)
          BY <2>4, <4>4, <4>5, <4>6 DEF Ahead
        <4> QED
          BY <1>1, <2>4, <3>3, <4>7 DEF Ahead
      <3> QED
        BY <3>1, <3>2, <3>3
    <2> QED
      BY <1>3, <2>2, <2>3, <2>4
  <1> QED
    BY <1>1, <1>4, <1>7 DEF WalkInv, Reading

(* A step of the walk itself leaves the tables and what they were to begin with. *)
WalkGoes ==
    /\ read.kind \in Lists /\ read.pc # "done"
    /\ \A f \in {"kind", "about", "start", "limit"} : read'[f] = read[f]
    /\ UNCHANGED <<now, data>>

LEMMA WalkStands ==
    ASSUME WalkGoes, StartInv, read'.offset \in Nat
    PROVE  /\ StartInv' /\ Here' = Here /\ \A x : Key(x)' = Key(x)
           /\ \A x : Above(x)' = Above(x)
  <1>1. /\ read'.kind = read.kind /\ read'.about = read.about
        /\ read'.start = read.start /\ read'.limit = read.limit
        /\ UNCHANGED <<interactions, entities, tenants>>
    BY DEF WalkGoes, data
  <1>2. Here' = Here /\ \A x : Key(x)' = Key(x)
    BY <1>1 DEF Here, Key, Members, SortKey, RowsOf, RowIds, LiveEntities
  <1>3. \A x : Above(x)' = Above(x)
    BY <1>1, <1>2 DEF Above
  <1>4. RowIds' = RowIds
    BY <1>1 DEF RowIds
  <1>5. StartInv'
    BY <1>1, <1>2, <1>4 DEF StartInv
  <1> QED
    BY <1>2, <1>3, <1>5

(* Steps that fetch nothing and do not turn the page. *)
LEMMA WalkRests ==
    ASSUME WalkInv, WalkGoes, read'.offset = read.offset, read'.page = read.page,
           read'.seen = read.seen, read'.tied = read.tied,
           "page" \in read'.todo <=> "page" \in read.todo,
           read'.pc = "done" => read'.status # "walked"
    PROVE  WalkInv'
  <1>1. StartInv /\ \A x \in DOMAIN read.start : Excused(x) \/ Ahead(x)
    BY DEF WalkInv, WalkGoes
  <1>2. read'.start = read.start /\ read'.limit = read.limit /\ read'.kind = read.kind
    BY DEF WalkGoes
  <1>3. /\ StartInv' /\ Here' = Here /\ \A x : Key(x)' = Key(x)
        /\ \A x : Above(x)' = Above(x)
    BY <1>1, WalkStands DEF StartInv
  <1>4. \A x : (Excused(x)' <=> Excused(x)) /\ (Ahead(x)' <=> Ahead(x))
    BY <1>2, <1>3 DEF Excused, Ahead
  <1> QED
    BY <1>1, <1>2, <1>3, <1>4 DEF WalkInv

LEMMA FetchKeeps ==
    ASSUME IsFiniteSet(Entities), IsFiniteSet(Tenants), ReadsInv, FieldsInv, SortInv, WalkInv,
           FetchPage(read.kind), read.kind \in Lists
    PROVE  WalkInv'
  <1> DEFINE sort == Listed(read.kind, read.about)
  <1>1. DOMAIN read = WalkFields
    BY DEF FieldsInv
  <1>2. PICK P \in Pages(sort, read.offset, read.limit) :
            read' = [read EXCEPT !.todo = @ \ {"page"}, !.page = P, !.seen = @ \cup P,
                                 !.tied = @ \cup TiedRows(sort)]
    BY DEF FetchPage
  <1>3. /\ read'.offset = read.offset /\ read'.page = P /\ read'.seen = read.seen \cup P
        /\ read'.tied = read.tied \cup TiedRows(sort) /\ "page" \notin read'.todo
        /\ read'.start = read.start /\ read'.limit = read.limit /\ read'.kind = read.kind
        /\ read'.about = read.about /\ read'.pc = "query"
    <2> HIDE DEF sort
    <2> QED
      BY <1>1, <1>2 DEF WalkFields, FetchPage
  <1>4. WalkGoes
    BY <1>3 DEF WalkGoes, FetchPage
  <1>5. StartInv /\ (\A x \in DOMAIN read.start : Excused(x) \/ Ahead(x)) /\ "page" \in read.todo
    BY DEF WalkInv, FetchPage
  <1>6. read.offset \in Nat /\ read.limit \in Nat \ {0}
    BY <1>5 DEF StartInv
  <1>7. /\ StartInv' /\ Here' = Here /\ \A x : Key(x)' = Key(x)
        /\ \A x : Above(x)' = Above(x)
    BY <1>3, <1>4, <1>5, <1>6, WalkStands
  <1>8. /\ DOMAIN sort = Here /\ \A y \in Here : sort[y] = Key(y)
        /\ IsFiniteSet(Here) /\ \A y \in Here : Key(y) \in Int
    BY HereTyped DEF ReadsInv, Listed, Here, Key
  <1>9. ASSUME NEW x \in DOMAIN read.start
        PROVE  Excused(x)' \/ Ahead(x)'
    <2>1. CASE Excused(x)
      BY <1>3, <1>7, <2>1 DEF Excused
    <2>2. CASE x \in read'.seen \cup read'.tied
      BY <2>2 DEF Excused
    <2>3. CASE Ahead(x) /\ x \notin read'.seen \cup read'.tied
      <3>1. x \in Here /\ Key(x) = read.start[x] /\ Cardinality(Above(x)) >= read.offset + 0
        BY <1>5, <2>3 DEF Ahead
      <3>2. {y \in DOMAIN sort : sort[y] > sort[x]} = Above(x)
        BY <1>8, <3>1 DEF Above
      <3>3. x \in DOMAIN sort /\ x \notin P /\ x \notin TiedRows(sort)
        BY <1>3, <1>8, <2>3, <3>1
      <3>4. Cardinality({y \in DOMAIN sort : sort[y] > sort[x]}) >= read.offset
        BY <1>6, <3>1, <3>2
      <3>5. IsFiniteSet(DOMAIN sort) /\ \A y \in DOMAIN sort : sort[y] \in Int
        BY <1>8
      <3>6. /\ Cardinality({y \in DOMAIN sort : sort[y] > sort[x]}) >= read.offset + read.limit
            /\ ~ Cardinality(P) < read.limit
        <4> HIDE DEF sort
        <4> QED
          BY <1>2, <1>6, <3>3, <3>4, <3>5, PageMisses
      <3>7. Cardinality(Above(x)) >= read.offset + read.limit
        <4> HIDE DEF sort
        <4> QED
          BY <3>2, <3>6
      <3> QED
        BY <1>3, <1>7, <3>1, <3>6, <3>7 DEF Ahead
    <2> QED
      BY <1>5, <2>1, <2>2, <2>3
  <1> QED
    BY <1>3, <1>7, <1>9 DEF WalkInv

LEMMA NextPageKeeps ==
    ASSUME FieldsInv, WalkInv, NextPage
    PROVE  WalkInv'
  <1>1. DOMAIN read = WalkFields /\ read.kind \in Lists /\ read.todo = {} /\ read.pc = "query"
    BY DEF FieldsInv, NextPage
  <1>2. StartInv /\ \A x \in DOMAIN read.start : Excused(x) \/ Ahead(x)
    BY <1>1 DEF WalkInv
  <1>3. read.offset \in Nat /\ read.limit \in Nat \ {0}
    BY <1>2 DEF StartInv
  <1>4. /\ \A f \in {"kind", "about", "start", "limit", "seen", "tied", "page"} : read'[f] = read[f]
        /\ UNCHANGED <<now, data>>
    BY <1>1 DEF NextPage, Answer, Answered, WalkFields
  <1>5. WalkGoes
    BY <1>1, <1>4 DEF WalkGoes
  <1>6. read'.start = read.start /\ read'.seen = read.seen /\ read'.tied = read.tied
        /\ read'.limit = read.limit /\ read'.kind = read.kind
    BY <1>4
  <1>7. CASE Cardinality(read.page) < read.limit
    <2>1. read'.offset = read.offset /\ read'.pc = "done"
      BY <1>1, <1>7 DEF NextPage, Answer, Answered, WalkFields
    <2>2. /\ StartInv' /\ Here' = Here /\ \A x : Key(x)' = Key(x)
      BY <1>2, <1>3, <1>5, <2>1, WalkStands
    <2>3. ASSUME NEW x \in DOMAIN read.start PROVE Excused(x)
      <3>1. Ahead(x) => ~ Cardinality(read.page) < read.limit
        BY <1>1 DEF Ahead
      <3> QED
        BY <1>2, <1>7, <3>1
    <2>4. \A x \in DOMAIN read.start : Excused(x)'
      BY <1>6, <2>2, <2>3 DEF Excused
    <2> QED
      BY <1>6, <2>1, <2>2, <2>4 DEF WalkInv
  <1>8. CASE ~ Cardinality(read.page) < read.limit
    <2>1. read'.offset = read.offset + read.limit /\ read'.todo = {"count", "page"}
          /\ read'.pc # "done"
      BY <1>1, <1>8 DEF NextPage, WalkFields, Phase
    <2>2. /\ StartInv' /\ Here' = Here /\ \A x : Key(x)' = Key(x)
          /\ \A x : Above(x)' = Above(x)
      BY <1>2, <1>3, <1>5, <2>1, WalkStands
    <2>3. ASSUME NEW x \in DOMAIN read.start PROVE Excused(x)' \/ Ahead(x)'
      <3>1. Excused(x) => Excused(x)'
        BY <1>6, <2>2 DEF Excused
      <3>2. Ahead(x) => Ahead(x)'
        BY <1>1, <1>3, <1>6, <2>1, <2>2 DEF Ahead
      <3> QED
        BY <1>2, <3>1, <3>2
    <2> QED
      BY <1>6, <2>1, <2>2, <2>3 DEF WalkInv
  <1> QED
    BY <1>7, <1>8

LEMMA StartKeeps ==
    ASSUME IsFiniteSet(Entities), IsFiniteSet(Tenants), ReadsInv, SortInv, WalkStart
    PROVE  WalkInv'
  <1>1. read = Idle /\ UNCHANGED <<now, data>>
    BY DEF WalkStart, ListInteractions, GetAllEntities, GetAdminTenants
  <1>2. \/ \E status : Answer(status)
        \/ \E e \in Entities, limit \in Nat \ {0} : StartWalk("interactions", e, limit)
        \/ \E limit \in Nat \ {0} : StartWalk("entities", 0, limit) \/ StartWalk("tenants", 0, limit)
    <2>1. ListInteractions => \E asked \in Asked, e \in Entities :
              (asked \in 1 .. MaxPage /\ StartWalk("interactions", e, asked)) \/ Answer("bad_request")
      BY Zenon DEF ListInteractions
    <2>2. GetAllEntities => \E asked \in Asked : StartWalk("entities", 0, PageSize(asked))
      BY Zenon DEF GetAllEntities
    <2>3. GetAdminTenants => \E asked \in Asked :
              (asked \in 1 .. MaxPage /\ StartWalk("tenants", 0, asked)) \/ Answer("bad_request")
      BY Zenon DEF GetAdminTenants
    <2>4. \A asked \in Asked : PageSize(asked) \in Nat \ {0}
      BY ListingAssumption DEF PageSize
    <2>5. \A asked \in 1 .. MaxPage : asked \in Nat \ {0}
      BY ListingAssumption
    <2> QED
      BY <2>1, <2>2, <2>3, <2>4, <2>5, Zenon DEF WalkStart
  <1>3. ASSUME NEW status, Answer(status)
        PROVE  WalkInv'
    BY <1>1, <1>3 DEF Answer, Answered, Idle, WalkInv, Lists
  <1>4. ASSUME NEW kind \in Lists, NEW e, NEW limit \in Nat \ {0}, StartWalk(kind, e, limit),
               kind = "interactions" => e \in Entities
        PROVE  WalkInv'
    <2> DEFINE start == Listed(kind, e)
    <2>1. /\ read'.kind = kind /\ read'.about = e /\ read'.start = start /\ read'.limit = limit
          /\ read'.offset = 0 /\ read'.todo = {"count", "page"} /\ read'.pc # "done"
      BY <1>4 DEF StartWalk, Phase
    <2>2. UNCHANGED <<interactions, entities, tenants>>
      BY <1>1 DEF data
    <2>3. Here' = Members(kind, e) /\ (\A x : Key(x)' = SortKey(kind, x)) /\ RowIds' = RowIds
      BY <2>1, <2>2 DEF Here, Key, Members, SortKey, RowsOf, RowIds, LiveEntities
    <2>4. /\ DOMAIN start = Members(kind, e)
          /\ \A x \in Members(kind, e) : start[x] = SortKey(kind, x)
      BY DEF Listed
    <2>5. /\ IsFiniteSet(Members(kind, e))
          /\ \A x \in Members(kind, e) : SortKey(kind, x) \in Int
      BY <1>4, HereTyped DEF ReadsInv
    <2> HIDE DEF start
    <2>6. /\ kind = "interactions" => Members(kind, e) \subseteq RowIds
          /\ kind = "entities" => Members(kind, e) \subseteq Entities
          /\ kind = "tenants" => Members(kind, e) \subseteq Tenants
      BY DEF Members, RowsOf, LiveEntities, SortInv
    <2>7. StartInv'
      <3>1. \A x \in DOMAIN start : start[x] \in Int /\ Key(x)' \in Int /\ Key(x)' >= start[x]
        BY <2>3, <2>4, <2>5
      <3> QED
        BY <1>4, <2>1, <2>3, <2>4, <2>6, <3>1 DEF StartInv
    <2>8. ASSUME NEW x \in DOMAIN start PROVE Ahead(x)'
      <3>1. x \in Here' /\ Key(x)' = start[x]
        BY <2>3, <2>4, <2>8
      <3>2. Above(x)' \subseteq Members(kind, e)
        BY <2>3 DEF Above
      <3>3. Cardinality(Above(x)') >= 0
        BY <2>5, <3>2, FS_Subset, FS_CardinalityType
      <3> QED
        BY <2>1, <3>1, <3>3 DEF Ahead
    <2> QED
      BY <2>1, <2>7, <2>8 DEF WalkInv
  <1> QED
    BY <1>2, <1>3, <1>4 DEF Lists

LEMMA WalkKeeps ==
    ASSUME IsFiniteSet(Entities), IsFiniteSet(Tenants), ReadsInv, FieldsInv, SortInv, WalkInv, Serves
    PROVE  WalkInv'
  <1> SUFFICES ASSUME read'.kind \in Lists
               PROVE  WalkInv'
    BY DEF WalkInv
  <1>1. WalkStart \/ (WalkStep /\ read.kind = read'.kind)
    BY DEF Serves
  <1>2. ASSUME WalkStep, read.kind = read'.kind
        PROVE  WalkInv'
    <2>1. DOMAIN read = WalkFields /\ read.kind \in Lists
      BY <1>2 DEF FieldsInv
    <2>2. CASE VerifyEntity \/ CountRows \/ ListingFails
      <3>1. /\ read.pc # "done" /\ UNCHANGED <<now, data>>
            /\ \A f \in {"kind", "about", "start", "limit", "offset", "page", "seen", "tied"} :
                  read'[f] = read[f]
            /\ "page" \in read'.todo <=> "page" \in read.todo
            /\ read'.pc = "done" => read'.status # "walked"
        BY <2>1, <2>2 DEF VerifyEntity, CountRows, ListingFails, Reading, Answer, Answered, WalkFields
      <3>2. WalkGoes
        BY <2>1, <3>1 DEF WalkGoes
      <3> QED
        BY <3>1, <3>2, WalkRests
    <2>3. CASE FetchInteractions \/ FetchEntities \/ FetchTenants
      <3>1. FetchPage(read.kind)
        BY <2>3 DEF FetchInteractions, FetchEntities, FetchTenants, FetchPage
      <3> QED
        BY <2>1, <3>1, FetchKeeps
    <2>4. CASE NextPage
      BY <2>4, NextPageKeeps
    <2> QED
      BY <1>2, <2>2, <2>3, <2>4 DEF WalkStep
  <1> QED
    BY <1>1, <1>2, StartKeeps

LEMMA WalkStepsKeep ==
    ASSUME IsFiniteSet(Entities), IsFiniteSet(Tenants), ReadsInv, FieldsInv, SortInv, WalkInv,
           [Next]_vars
    PROVE  SortInv' /\ WalkInv'
  <1>1. CASE NextTables
    BY <1>1, WritersMoveUp, WritersKeepWalk DEF ReadsInv
  <1>2. CASE NextListing \/ NextReports
    <2>1. Serves
      BY <1>2, ListingServes, ReportsServe
    <2>2. SortInv'
      BY <2>1 DEF Serves, data, SortInv
    <2> QED
      BY <2>1, <2>2, WalkKeeps
  <1>3. CASE UNCHANGED vars
    <2>1. SortInv'
      BY <1>3 DEF vars, data, SortInv
    <2>2. UNCHANGED <<interactions, entities, tenants, read>>
      BY <1>3 DEF vars, data
    <2>3. Here' = Here /\ (\A x : Key(x)' = Key(x)) /\ RowIds' = RowIds
      BY <2>2 DEF Here, Key, Members, SortKey, RowsOf, RowIds, LiveEntities
    <2>4. \A x : (Excused(x)' <=> Excused(x)) /\ (Ahead(x)' <=> Ahead(x))
      BY <2>2, <2>3 DEF Excused, Ahead, Above
    <2>5. StartInv' <=> StartInv
      BY <2>2, <2>3 DEF StartInv
    <2> QED
      BY <2>1, <2>2, <2>4, <2>5 DEF WalkInv
  <1> QED
    BY <1>1, <1>2, <1>3 DEF Next

LEMMA WalkEnds ==
    ASSUME WalkInv
    PROVE  WalkSeesAll
  <1> SUFFICES ASSUME NEW kind \in Lists, Finished(kind, "walked"),
                      NEW x \in DOMAIN read.start \ (read.seen \cup read.tied)
               PROVE  \/ \E y \in DOMAIN read.start \ DOMAIN Listed(kind, read.about) :
                            SortKey(kind, y) >= read.start[x]
                      \/ Listed(kind, read.about)[x] # read.start[x]
    BY DEF WalkSeesAll
  <1>1. read.kind = kind /\ Excused(x)
    BY DEF Finished, WalkInv
  <1>2. /\ DOMAIN Listed(kind, read.about) = Here
        /\ \A y : Key(y) = SortKey(kind, y)
        /\ \A y \in Here : Listed(kind, read.about)[y] = Key(y)
    BY <1>1 DEF Listed, Here, Key
  <1> QED
    BY <1>1, <1>2 DEF Excused

(* ListInteractionsHandler, GetAllEntitiesHandler, GetAdminTenantsHandler: a walk *)
(* through the pages misses a row only when a row above it was removed, when it *)
(* was moved up itself, or when it sorts like another one.                     *)
THEOREM WalksSeeAll ==
    ASSUME IsFiniteSet(Entities), IsFiniteSet(Tenants)
    PROVE  Spec => []WalkSeesAll
  <1>1. Init => SortInv /\ WalkInv
    <2>1. Init => WalkInv
      BY DEF Init, Idle, WalkInv, Lists
    <2> QED
      BY <2>1, SortInit
  <1>2. ReadsInv /\ FieldsInv /\ SortInv /\ WalkInv /\ [Next]_vars => (SortInv /\ WalkInv)'
    BY WalkStepsKeep
  <1>3. WalkInv => WalkSeesAll
    BY WalkEnds
  <1> QED
    BY <1>1, <1>2, <1>3, ReadsInvariant, FieldsInvariant, PTL DEF Spec

-----------------------------------------------------------------------------
(* Types *)

TableTypes ==
    /\ now \in StartTime .. MaxTime /\ changes \in 0 .. MaxChanges
    /\ \A n \in RowIds : interactions[n].at \in 0 .. now
    /\ \A e \in Entities : entities[e].state \in {"live", "merged", "erased"}
    /\ holder \in [Entities -> Entities \cup {0}]
    /\ \A l \in links : l \in Entities \X Entities /\ l[1] < l[2]

(* A recommendation is never without its fields. *)
RecTypes ==
    /\ DOMAIN recommendations = Recs
    /\ \A q \in Recs : /\ DOMAIN recommendations[q] = {"at", "followed", "outcome"}
                       /\ recommendations[q].outcome \in RowIds \cup {0}

PageTypes ==
    read.kind \in Lists => read.page \subseteq read.seen /\ read.limit \in 1 .. MaxPage

LEMMA TypesInit == Init => TableTypes /\ RecTypes /\ PageTypes
  <1> SUFFICES ASSUME Init PROVE TableTypes /\ RecTypes /\ PageTypes
    OBVIOUS
  <1> USE DEF Init, InitTables
  <1>1. PICK seed \in Seeds :
            /\ interactions = seed.rows /\ recommendations = seed.recs
            /\ entities = [e \in Entities |-> [state |-> "live", touched |-> Touched(seed.rows, e)]]
    OBVIOUS
  <1>2. \A n \in RowIds : interactions[n].at \in 0 .. now
    <2> DEFINE Early == [entity : Entities, at : 0 .. StartTime, good : BOOLEAN]
    <2>1. interactions \in Seq(Early)
      BY <1>1, TablesAssumption
    <2>2. \A n \in DOMAIN interactions : interactions[n] \in Early
      <3> HIDE DEF Early
      <3> QED
        BY <2>1
    <2> QED
      BY <2>2 DEF RowIds
  <1>3. \A e \in Entities : entities[e].state = "live"
    BY <1>1
  <1>4. TableTypes
    BY <1>2, <1>3, TablesAssumption, SeedsAssumption DEF TableTypes
  <1>5. RecTypes
    <2>1. recommendations \in [Recs -> [at : Nat, followed : {"unset", "yes", "no"}, outcome : Nat]]
      BY <1>1, SeedsAssumption
    <2>2. \A q \in Recs : recommendations[q].outcome \in RowIds \cup {0}
      BY <1>1, SeedsAssumption DEF RowIds
    <2> QED
      BY <2>1, <2>2 DEF RecTypes
  <1> QED
    BY <1>4, <1>5 DEF PageTypes, Idle, Lists

LEMMA WritersKeepTypes ==
    ASSUME DataInv, TableTypes, RecTypes, NextTables
    PROVE  TableTypes' /\ RecTypes'
  <1> USE DEF Writes, TableTypes, RecTypes
  <1>0. StartTime \in Nat /\ MaxTime \in Nat /\ MaxChanges \in Nat
    BY TablesAssumption
  <1>1. CASE Tick
    BY <1>0, <1>1 DEF Tick, data, RowIds
  <1>2. ASSUME NEW e \in Entities, Erase(e)
        PROVE  TableTypes' /\ RecTypes'
    <2>1. \A x \in Entities : entities'[x].state \in {entities[x].state, "erased"}
      BY <1>2 DEF Erase, DataInv
    <2> QED
      BY <1>0, <1>2, <2>1 DEF Erase, RowIds
  <1>3. ASSUME NEW e \in Entities, NEW row \in NewRows, LogInteraction(e, row)
        PROVE  TableTypes' /\ RecTypes'
    <2> DEFINE new == [entity |-> e, at |-> now - row.age, good |-> row.good]
    <2>1. interactions' = Append(interactions, new)
      BY <1>3 DEF LogInteraction
    <2>2. /\ \A n \in RowIds : n \in RowIds' /\ interactions'[n] = interactions[n]
          /\ \A n \in RowIds' \ RowIds : interactions'[n] = new
      <3> HIDE DEF new
      <3> QED
        BY <2>1 DEF DataInv, RowIds
    <2>3. new.at \in 0 .. now
      BY <1>0, SeedsAssumption, TablesAssumption
    <2>4. \A n \in RowIds' : interactions'[n].at \in 0 .. now
      <3> HIDE DEF new
      <3> QED
        BY <2>2, <2>3
    <2>5. \A x \in Entities : entities'[x].state = entities[x].state
      BY <1>3 DEF LogInteraction, DataInv
    <2>6. /\ now' = now /\ changes' = changes + 1 /\ changes < MaxChanges
          /\ UNCHANGED <<holder, links, recommendations>>
      BY <1>3 DEF LogInteraction
    <2> HIDE DEF new
    <2>7. RowIds \subseteq RowIds'
      BY <2>2
    <2> QED
      BY <1>0, <2>4, <2>5, <2>6, <2>7
  <1>4. ASSUME NEW c \in Entities, NEW e \in Entities, Merge(c, e)
        PROVE  TableTypes' /\ RecTypes'
    <2>1. RowIds' = RowIds /\ \A n \in RowIds : interactions'[n].at = interactions[n].at
      <3>1. \A n \in RowIds : interactions[n] \in Rows
        BY RowsTyped DEF DataInv, RowIds
      <3> QED
        BY <1>4, <3>1 DEF Merge, Rows, RowIds
    <2>2. \A x \in Entities : entities'[x].state \in {entities[x].state, "merged"}
      BY <1>4 DEF Merge, DataInv
    <2>3. holder' \in [Entities -> Entities \cup {0}]
      BY <1>4 DEF Merge
    <2>4. \A l \in links' : l \in Entities \X Entities /\ l[1] < l[2]
      BY <1>4 DEF Merge
    <2>5. /\ now' = now /\ changes' = changes + 1 /\ changes < MaxChanges
          /\ UNCHANGED recommendations
      BY <1>4 DEF Merge
    <2> QED
      BY <1>0, <2>1, <2>2, <2>3, <2>4, <2>5
  <1>5. ASSUME NEW q \in Recs, NEW f \in {"yes", "no"}, NEW n \in RowIds \cup {0}, UpdateFeedback(q, f, n)
        PROVE  TableTypes' /\ RecTypes'
    <2>1. RecTypes'
      BY <1>5 DEF UpdateFeedback, RowIds
    <2> QED
      BY <1>0, <1>5, <2>1 DEF UpdateFeedback, RowIds
  <1>6. ASSUME NEW t \in Tenants, DeleteTenant(t)
        PROVE  TableTypes' /\ RecTypes'
    BY <1>0, <1>6 DEF DeleteTenant, RowIds
  <1>7. ASSUME NEW p \in DOMAIN Limits, ChangePlan(p)
        PROVE  TableTypes' /\ RecTypes'
    BY <1>0, <1>7 DEF ChangePlan, RowIds
  <1> QED
    BY <1>1, <1>2, <1>3, <1>4, <1>5, <1>6, <1>7 DEF NextTables

LEMMA ReadsWriteNothing ==
    ASSUME NextListing \/ NextReports
    PROVE  changes' = changes
  <1>1. CASE NextListing
    BY <1>1 DEF NextListing, ListInteractions, GetAllEntities, GetAdminTenants, VerifyEntity,
                CountRows, FetchInteractions, FetchEntities, FetchTenants, FetchPage, NextPage,
                FetchEntity, FetchIdentifiers, FetchRecent, Joined, FetchGraphEntities,
                FetchGraphIdentifiers, FetchEdges, FetchLinks, JoinedGraph, ListingFails
  <1>2. CASE NextReports
    BY <1>2 DEF NextReports, StartSummary, SummaryPlan, CurrentPeriod, RecommendationAccuracy,
                PreviousPeriod, StartImpact, ImpactPlan, EnoughRecommendations,
                WithRecommendations, WithoutRecommendations, GetMonthlyUsage,
                GetHistoricalUsage, ReportFails
  <1> QED
    BY <1>1, <1>2

LEMMA PagesTyped ==
    ASSUME FieldsInv, PageTypes, Serves
    PROVE  PageTypes'
  <1> SUFFICES ASSUME read'.kind \in Lists
               PROVE  read'.page \subseteq read'.seen /\ read'.limit \in 1 .. MaxPage
    BY DEF PageTypes
  <1>1. CASE WalkStart
    <2>1. \/ \E status : read = Idle /\ Answer(status)
          \/ \E kind, e : \E limit \in 1 .. MaxPage : StartWalk(kind, e, limit)
      <3>1. \A asked \in Asked : PageSize(asked) \in 1 .. MaxPage
        BY ListingAssumption DEF PageSize
      <3>2. ListInteractions => \E asked \in Asked, e \in Entities :
              read = Idle /\ IF asked \in 1 .. MaxPage THEN StartWalk("interactions", e, asked)
                             ELSE Answer("bad_request")
        BY Zenon DEF ListInteractions
      <3>3. GetAllEntities => \E asked \in Asked : StartWalk("entities", 0, PageSize(asked))
        BY Zenon DEF GetAllEntities
      <3>4. GetAdminTenants => \E asked \in Asked :
              read = Idle /\ IF asked \in 1 .. MaxPage THEN StartWalk("tenants", 0, asked)
                             ELSE Answer("bad_request")
        BY Zenon DEF GetAdminTenants
      <3> QED
        BY <1>1, <3>1, <3>2, <3>3, <3>4, Zenon DEF WalkStart
    <2>2. ASSUME NEW status, read = Idle, Answer(status) PROVE read'.kind = "none"
      BY <2>2 DEF Answer, Answered, Idle
    <2>3. ASSUME NEW kind, NEW e, NEW limit \in 1 .. MaxPage, StartWalk(kind, e, limit)
          PROVE  read'.page = {} /\ read'.seen = {} /\ read'.limit = limit
      BY <2>3 DEF StartWalk
    <2> QED
      BY <2>1, <2>2, <2>3 DEF Lists
  <1>2. CASE WalkStep /\ read'.kind = read.kind
    <2>1. DOMAIN read = WalkFields /\ read.page \subseteq read.seen /\ read.limit \in 1 .. MaxPage
      BY <1>2 DEF FieldsInv, PageTypes
    <2>2. CASE VerifyEntity \/ CountRows \/ ListingFails \/ NextPage
      <3>1. read'.page = read.page /\ read'.seen = read.seen /\ read'.limit = read.limit
        BY <2>1, <2>2 DEF VerifyEntity, CountRows, ListingFails, NextPage, Answer, Answered, WalkFields
      <3> QED
        BY <2>1, <3>1
    <2>3. CASE FetchInteractions \/ FetchEntities \/ FetchTenants
      <3>1. FetchPage(read.kind)
        BY <2>3 DEF FetchInteractions, FetchEntities, FetchTenants, FetchPage
      <3>2. PICK P, T : read' = [read EXCEPT !.todo = @ \ {"page"}, !.page = P,
                                             !.seen = @ \cup P, !.tied = @ \cup T]
        BY <3>1, Zenon DEF FetchPage
      <3>3. read'.page = P /\ read'.seen = read.seen \cup P /\ read'.limit = read.limit
        BY <2>1, <3>2 DEF WalkFields
      <3> QED
        BY <2>1, <3>3
    <2> QED
      BY <1>2, <2>2, <2>3 DEF WalkStep
  <1> QED
    BY <1>1, <1>2 DEF Serves

(* For any tables, page sizes and bounds: rows are of entities that exist and   *)
(* lie in the past, links lead from old to young, recommendations name rows,  *)
(* and no page is asked for that is longer than the largest one.             *)
THEOREM TypeCorrect == Spec => []TypeOK
  <1>1. Init => TableTypes /\ RecTypes /\ PageTypes /\ SortInv
    BY TypesInit, SortInit
  <1>2. ReadsInv /\ FieldsInv /\ TableTypes /\ RecTypes /\ PageTypes /\ SortInv /\ [Next]_vars
        => (TableTypes /\ RecTypes /\ PageTypes /\ SortInv)'
    <2> SUFFICES ASSUME ReadsInv, FieldsInv, TableTypes, RecTypes, PageTypes, SortInv, [Next]_vars
                 PROVE  (TableTypes /\ RecTypes /\ PageTypes /\ SortInv)'
      OBVIOUS
    <2>1. CASE NextTables
      <3>1. DataInv /\ read' = read
        BY <2>1, WriterSteps DEF ReadsInv
      <3> QED
        BY <2>1, <3>1, WritersKeepTypes, WritersMoveUp DEF PageTypes
    <2>2. CASE NextListing \/ NextReports
      <3>1. Serves /\ changes' = changes
        BY <2>2, ListingServes, ReportsServe, ReadsWriteNothing
      <3>2. PageTypes'
        BY <3>1, PagesTyped
      <3> QED
        BY <3>1, <3>2 DEF Serves, data, TableTypes, RecTypes, SortInv, RowIds
    <2>3. CASE UNCHANGED vars
      BY <2>3 DEF vars, data, TableTypes, RecTypes, PageTypes, SortInv, RowIds
    <2> QED
      BY <2>1, <2>2, <2>3 DEF Next
  <1>3. ReadsInv /\ FieldsInv /\ TableTypes /\ RecTypes /\ PageTypes /\ SortInv => TypeOK
    <2> SUFFICES ASSUME ReadsInv, FieldsInv, TableTypes, RecTypes, PageTypes, SortInv PROVE TypeOK
      OBVIOUS
    <2>1. \A n \in RowIds : interactions[n].entity \in Entities
      BY RowsTyped DEF ReadsInv, DataInv, RowIds
    <2>2. read.kind \in Lists \cup {"none", "details", "graph", "summary", "impact", "usage", "history"}
      BY DEF FieldsInv
    <2> QED
      BY <2>1, <2>2 DEF TypeOK, ReadsInv, PlanInv, TableTypes, RecTypes, PageTypes, SortInv
  <1> QED
    BY <1>1, <1>2, <1>3, ReadsInvariant, FieldsInvariant, PTL DEF Spec
=============================================================================
