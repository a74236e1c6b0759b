----------------------- MODULE BehavioralGraph_proofs -----------------------
(* Theorems about BehavioralGraph: what is billed is what is stored, a       *)
(* recommendation and its outcome belong to one person, feedback is refused  *)
(* by races only, requests answer and insert the rows they should, and one   *)
(* more outcome moves an action's rank the way it should.                    *)
EXTENDS BehavioralGraph, FiniteSetTheorems, SequenceTheorems, WellFoundedInduction, TLAPS

USE GraphAssumption

(* The fields of requests, recommendations and rows. *)
ReqFields == {"pc", "kind", "items", "ids", "entity", "buckets", "feedback", "rec", "followed",
              "outcome", "answer", "known", "raced"}

ShapeInv ==
    /\ DOMAIN req = Requests /\ DOMAIN recs = Requests
    /\ \A r \in Requests :
          /\ DOMAIN req[r] = ReqFields
          /\ DOMAIN recs[r] = {"state", "entity", "action", "followed", "outcome", "late"}
    /\ \A n \in RowIds : DOMAIN rows[n] = {"api", "action", "ref", "good", "day", "entity", "late"}

(* Items that are being logged are finitely many. *)
UsageInv ==
    /\ UsageCountsRows /\ \E S : rows \in Seq(S)
    /\ \A r \in Requests : req[r].pc \in {"entities", "dedupe", "insert"}
                           => IsFiniteSet(DOMAIN req[r].items)

IntoInv ==
    /\ live \subseteq Entities /\ into \in [Entities -> Entities]
    /\ \A e \in live : into[e] = e

(* A recommendation is made when its request is answered. *)
MadeInv ==
    \A q \in Requests : recs[q].state # "unmade" => req[q].pc = "done" /\ recs[q].entity \in Entities

(* Row n and recommendation q are of one person. *)
Linked(n, q) ==
    /\ n \in RowIds /\ rows[n].entity \in Entities
    /\ q \in Requests /\ recs[q].state # "unmade"
    /\ into[rows[n].entity] = into[recs[q].entity]

(* Feedback in progress is about a recommendation that was made, and keeps to *)
(* its person.                                                              *)
Asks(r) ==
    /\ req[r].pc \in {"stats", "weights", "score"} => req[r].entity \in Entities
    /\ req[r].pc \in {"fetch", "outcome", "update"} =>
          /\ req[r].rec \in Requests /\ recs[req[r].rec].state # "unmade"
          /\ req[r].outcome \in RowIds \cup {0}
    /\ req[r].pc = "outcome" =>
          /\ req[r].entity \in Entities /\ into[req[r].entity] = into[recs[req[r].rec].entity]
          /\ req[r].outcome # 0
    /\ req[r].pc = "update" /\ req[r].outcome # 0 => Linked(req[r].outcome, req[r].rec)

LinkInv ==
    /\ \A r \in Requests : Asks(r)
    /\ \A q \in Requests : recs[q].outcome # 0 => Linked(recs[q].outcome, q)

GraphInv == ShapeInv /\ UsageInv /\ IntoInv /\ MadeInv /\ LinkInv

-----------------------------------------------------------------------------
LEMMA GraphInit == Init => GraphInv
  <1> SUFFICES ASSUME Init PROVE GraphInv
    OBVIOUS
  <1> USE DEF Init, NewReq, NoRec, RowIds, ReqFields
  <1>1. rows \in Seq({Stored(Seeded[n]) : n \in DOMAIN Seeded}) /\ Len(rows) = Len(Seeded)
    OBVIOUS
  <1>2. ShapeInv
    BY <1>1 DEF ShapeInv, Stored
  <1>3. UsageInv
    BY <1>1 DEF UsageInv, UsageCountsRows
  <1>4. IntoInv /\ MadeInv /\ LinkInv
    BY DEF IntoInv, MadeInv, LinkInv, Asks
  <1> QED
    BY <1>2, <1>3, <1>4 DEF GraphInv

(* The rows are a sequence, whose places the row ids are. *)
LEMMA RowsAreSequence == ASSUME UsageInv PROVE Len(rows) \in Nat /\ RowIds = 1 .. Len(rows)
  BY DEF UsageInv, RowIds

(* A step of a request that changes no table. *)
ReqStep(r) ==
    \/ StartLog(r) \/ StartRecommend(r) \/ StartFeedback(r)
    \/ CheckEntities(r) \/ Dedupe(r) \/ FetchInteractionStats(r) \/ FetchFeedbackWeights(r)
    \/ FetchRecommendation(r) \/ FetchOutcome(r) \/ Fails(r)

LEMMA ReqStepTables == ASSUME NEW r \in Requests, ReqStep(r) PROVE UNCHANGED tables
  BY DEF ReqStep, tables, StartLog, StartRecommend, StartFeedback, CheckEntities, Dedupe,
         FetchInteractionStats, FetchFeedbackWeights, FetchRecommendation, FetchOutcome, Fails

(* It changes its own request only: the request is a new one, or some of its  *)
(* fields are set.                                                          *)
LEMMA NewShape == DOMAIN NewReq = ReqFields
  BY DEF NewReq, ReqFields

LEMMA ReqStepOwn ==
    ASSUME ShapeInv, NEW r \in Requests, ReqStep(r)
    PROVE  /\ DOMAIN req' = Requests
           /\ DOMAIN req'[r] = ReqFields
           /\ \A q \in Requests \ {r} : req'[q] = req[q]
  <1>1. SUFFICES \E new : DOMAIN new = ReqFields /\ req' = [req EXCEPT ![r] = new]
    BY DEF ShapeInv
  <1>2. DOMAIN req[r] = ReqFields /\ DOMAIN NewReq = ReqFields
    BY NewShape DEF ShapeInv
  <1> USE <1>2 DEF Reply, Goto
  <1>3. CASE StartLog(r)
    <2>1. PICK kind, items : \/ req' = [req EXCEPT ![r] = [NewReq EXCEPT !.pc = "entities", !.kind = kind,
                                               !.items = items, !.known = Keys]]
                             \/ Reply(r, "invalid")
      BY <1>3, Zenon DEF StartLog
    <2> DEFINE new == [NewReq EXCEPT !.pc = "entities", !.kind = kind, !.items = items, !.known = Keys]
    <2>2. DOMAIN new = ReqFields
      OBVIOUS
    <2>3. CASE req' = [req EXCEPT ![r] = new]
      BY <2>2, <2>3, Zenon
    <2>4. CASE Reply(r, "invalid")
      BY <2>4
    <2> QED
      BY <2>1, <2>3, <2>4, Zenon
  <1>4. CASE StartRecommend(r)
    <2>1. PICK e : \/ req' = [req EXCEPT ![r] = [NewReq EXCEPT !.pc = "stats", !.kind = "recommend",
                                                              !.entity = e]]
                   \/ Reply(r, "not_found")
      BY <1>4, Zenon DEF StartRecommend
    <2> DEFINE new == [NewReq EXCEPT !.pc = "stats", !.kind = "recommend", !.entity = e]
    <2>2. DOMAIN new = ReqFields
      OBVIOUS
    <2>3. CASE req' = [req EXCEPT ![r] = new]
      BY <2>2, <2>3, Zenon
    <2>4. CASE Reply(r, "not_found")
      BY <2>4
    <2> QED
      BY <2>1, <2>3, <2>4, Zenon
  <1>5. CASE StartFeedback(r)
    BY <1>5 DEF StartFeedback
  <1>6. CASE CheckEntities(r)
    BY <1>6 DEF CheckEntities
  <1>7. CASE Dedupe(r)
    <2>1. PICK ids, pc, answer :
              req' = [req EXCEPT ![r].ids = ids, ![r].pc = pc, ![r].answer = answer]
      BY <1>7, Zenon DEF Dedupe
    <2> QED
      BY <2>1
  <1>8. CASE FetchInteractionStats(r)
    BY <1>8 DEF FetchInteractionStats
  <1>9. CASE FetchFeedbackWeights(r)
    BY <1>9 DEF FetchFeedbackWeights
  <1>10. CASE FetchRecommendation(r) \/ FetchOutcome(r) \/ Fails(r)
    BY <1>10 DEF FetchRecommendation, FetchOutcome, Fails
  <1> QED
    BY <1>3, <1>4, <1>5, <1>6, <1>7, <1>8, <1>9, <1>10 DEF ReqStep

LEMMA ShapeStep == ShapeInv /\ UsageInv /\ [Next]_vars => ShapeInv'
  <1> SUFFICES ASSUME ShapeInv, UsageInv, [Next]_vars PROVE ShapeInv'
    OBVIOUS
  <1>1. ASSUME NEW r \in Requests, ReqStep(r) PROVE ShapeInv'
    BY <1>1, ReqStepTables, ReqStepOwn DEF ShapeInv, tables, RowIds
  <1>2. ASSUME NEW r \in Requests, InsertItems(r) PROVE ShapeInv'
    <2>1. PICK S : rows \in Seq(S)
      BY DEF UsageInv
    <2> DEFINE count == Cardinality(NewItems(r))
               new   == [n \in 1 .. count |-> Stored(req[r].items[NthNew(r, n)])]
    <2>2. count \in Nat
      <3>1. NewItems(r) \subseteq DOMAIN req[r].items /\ IsFiniteSet(DOMAIN req[r].items)
        BY <1>2 DEF InsertItems, UsageInv, NewItems
      <3> QED
        BY <3>1, FS_Subset, FS_CardinalityType
    <2>3. rows' = rows \o new
      BY <1>2 DEF InsertItems
    <2>4. \A n \in 1 .. count : DOMAIN new[n] = {"api", "action", "ref", "good", "day", "entity", "late"}
      BY DEF Stored
    <2>5. \A n \in DOMAIN rows' : \/ n \in RowIds /\ rows'[n] = rows[n]
                                  \/ n - Len(rows) \in 1 .. count /\ rows'[n] = new[n - Len(rows)]
      BY <2>1, <2>2, <2>3 DEF RowIds
    <2>6. /\ DOMAIN req' = Requests /\ DOMAIN req'[r] = DOMAIN req[r]
          /\ \A q \in Requests \ {r} : req'[q] = req[q]
      BY <1>2 DEF InsertItems, ShapeInv
    <2>7. UNCHANGED recs
      BY <1>2 DEF InsertItems
    <2> HIDE DEF new, count
    <2>8. \A n \in RowIds' : DOMAIN rows'[n] = {"api", "action", "ref", "good", "day", "entity", "late"}
      BY SMTT(30), <2>4, <2>5 DEF ShapeInv, RowIds
    <2>9. \A q \in Requests : DOMAIN req'[q] = DOMAIN req[q]
      BY <2>6
    <2> QED
      BY <2>6, <2>7, <2>8, <2>9 DEF ShapeInv
  <1>3. ASSUME NEW r \in Requests, Recommend(r) PROVE ShapeInv'
    <2> DEFINE done == [NewReq EXCEPT !.pc = "done", !.kind = "recommend", !.rec = r,
                                      !.answer = "recommended"]
    <2>1. DOMAIN done = ReqFields
      BY NewShape
    <2>2. req' = [req EXCEPT ![r] = done] /\ UNCHANGED rows
      BY <1>3 DEF Recommend
    <2>3. PICK made : /\ recs' = [recs EXCEPT ![r] = made]
                      /\ DOMAIN made = {"state", "entity", "action", "followed", "outcome", "late"}
      <3>1. PICK action : recs' = [recs EXCEPT ![r] = [NoRec EXCEPT !.state = "pending",
                                       !.action = action, !.entity = req[r].entity]]
        BY <1>3, Zenon DEF Recommend
      <3>2. DOMAIN NoRec = {"state", "entity", "action", "followed", "outcome", "late"}
        BY DEF NoRec
      <3> DEFINE made == [NoRec EXCEPT !.state = "pending", !.action = action,
                                       !.entity = req[r].entity]
      <3>3. DOMAIN made = DOMAIN NoRec
        OBVIOUS
      <3> QED
        BY <3>1, <3>2, <3>3, Zenon
    <2> HIDE DEF done
    <2> QED
      BY <2>1, <2>2, <2>3 DEF ShapeInv, RowIds
  <1>4. ASSUME NEW r \in Requests, UpdateFeedback(r) PROVE ShapeInv'
    BY <1>4 DEF UpdateFeedback, ShapeInv, Reply, RowIds
  <1>5. ASSUME NEW r \in Requests, PersistRecommendation(r) \/ PersistFails(r) PROVE ShapeInv'
    BY <1>5 DEF PersistRecommendation, PersistFails, ShapeInv, RowIds
  <1>6. ASSUME NEW c \in Entities, NEW e \in Entities, Merge(c, e) PROVE ShapeInv'
    BY <1>6 DEF Merge, ShapeInv, RowIds
  <1>7. ASSUME UNCHANGED vars PROVE ShapeInv'
    BY <1>7 DEF vars, ShapeInv, RowIds
  <1> QED
    BY <1>1, <1>2, <1>3, <1>4, <1>5, <1>6, <1>7 DEF Next, Step, ReqStep

-----------------------------------------------------------------------------
(* A transaction inserts as many rows as it counts. *)
LEMMA UsageStep == ShapeInv /\ UsageInv /\ [Next]_vars => UsageInv'
  <1> SUFFICES ASSUME ShapeInv, UsageInv, [Next]_vars PROVE UsageInv'
    OBVIOUS
  <1> USE DEF UsageInv, UsageCountsRows
  <1>1. ASSUME NEW r \in Requests, ReqStep(r) PROVE UsageInv'
    <2>1. UNCHANGED <<rows, usage>>
      BY <1>1, ReqStepTables DEF tables
    <2>2. req'[r].pc \in {"entities", "dedupe", "insert"} => IsFiniteSet(DOMAIN req'[r].items)
      <3>1. CASE StartLog(r)
        <4>1. PICK kind \in {"log", "batch"}, items \in Batches :
                 \/ req' = [req EXCEPT ![r] = [NewReq EXCEPT !.pc = "entities", !.kind = kind,
                                                  !.items = items, !.known = Keys]]
                 \/ Reply(r, "invalid")
          BY <3>1, Zenon DEF StartLog
        <4>2. IsFiniteSet(DOMAIN items)
          <5>1. PICK n \in 0 .. MaxBatch : items \in [1 .. n -> Items]
            BY <4>1 DEF Batches
          <5> QED
            BY <5>1, FS_Interval
        <4>3. CASE req' = [req EXCEPT ![r] = [NewReq EXCEPT !.pc = "entities", !.kind = kind,
                                                  !.items = items, !.known = Keys]]
          <5>1. req'[r].items = items
            BY <4>3 DEF ShapeInv, NewReq
          <5> QED
            BY <5>1, <4>2
        <4>4. CASE Reply(r, "invalid")
          BY <4>4 DEF ShapeInv, Reply, ReqFields
        <4> QED
          BY <4>1, <4>3, <4>4, Zenon
      <3>2. CASE StartRecommend(r) \/ StartFeedback(r)
        <4>1. req'[r].pc \notin {"entities", "dedupe", "insert"}
          <5>1. CASE StartRecommend(r)
            <6>1. PICK e : \/ req' = [req EXCEPT ![r] = [NewReq EXCEPT !.pc = "stats",
                                                  !.kind = "recommend", !.entity = e]]
                           \/ Reply(r, "not_found")
              BY <5>1, Zenon DEF StartRecommend
            <6>2. CASE req' = [req EXCEPT ![r] = [NewReq EXCEPT !.pc = "stats",
                                                  !.kind = "recommend", !.entity = e]]
              BY <6>2 DEF ShapeInv, NewReq
            <6>3. CASE Reply(r, "not_found")
              BY <6>3 DEF Reply, ShapeInv, ReqFields
            <6> QED
              BY <6>1, <6>2, <6>3, Zenon
          <5>2. CASE StartFeedback(r)
            BY <5>2 DEF StartFeedback, ShapeInv, NewReq, ReqFields
          <5> QED
            BY <3>2, <5>1, <5>2
        <4> QED
          BY <4>1
      <3>3. CASE CheckEntities(r)
        BY <3>3 DEF CheckEntities, Goto, Reply, ShapeInv, ReqFields
      <3>4. CASE Dedupe(r)
        <4>1. PICK ids, pc, answer :
                  req' = [req EXCEPT ![r].ids = ids, ![r].pc = pc, ![r].answer = answer]
          BY <3>4, Zenon DEF Dedupe
        <4>2. req'[r].items = req[r].items /\ req[r].pc = "dedupe"
          BY <4>1, <3>4 DEF ShapeInv, ReqFields, Dedupe
        <4> QED
          BY <4>2
      <3>5. CASE FetchInteractionStats(r) \/ FetchFeedbackWeights(r)
        BY <3>5 DEF FetchInteractionStats, FetchFeedbackWeights, Goto, ShapeInv, ReqFields
      <3>6. CASE FetchRecommendation(r) \/ FetchOutcome(r) \/ Fails(r)
        BY <3>6 DEF FetchRecommendation, FetchOutcome, Fails, Goto, Reply, ShapeInv, ReqFields
      <3> QED
        BY <1>1, <3>1, <3>2, <3>3, <3>4, <3>5, <3>6 DEF ReqStep
    <2> QED
      BY <1>1, <2>1, <2>2, ReqStepOwn
  <1>2. ASSUME NEW r \in Requests, InsertItems(r) PROVE UsageInv'
    <2>1. PICK S : rows \in Seq(S)
      OBVIOUS
    <2> DEFINE count == Cardinality(NewItems(r))
               new   == [n \in 1 .. count |-> Stored(req[r].items[NthNew(r, n)])]
               T     == S \cup {new[n] : n \in 1 .. count}
    <2>2. count \in Nat
      <3>1. NewItems(r) \subseteq DOMAIN req[r].items /\ IsFiniteSet(DOMAIN req[r].items)
        BY <1>2 DEF InsertItems, NewItems
      <3> QED
        BY <3>1, FS_Subset, FS_CardinalityType
    <2>3. rows' = rows \o new /\ usage' = usage + count
      BY <1>2 DEF InsertItems
    <2>4. new \in Seq(T) /\ Len(new) = count /\ rows \in Seq(T)
      BY <2>1, <2>2
    <2>5. rows' \in Seq(T) /\ Len(rows') = Len(rows) + count
      <3> HIDE DEF new, T, count
      <3> QED
        BY <2>3, <2>4, ConcatProperties
    <2>6. \A q \in Requests : q # r => req'[q] = req[q]
      BY <1>2 DEF InsertItems, ShapeInv
    <2>7. req'[r].pc = "done"
      BY <1>2 DEF InsertItems, ShapeInv, ReqFields
    <2> HIDE DEF new, T, count
    <2> QED
      BY <2>3, <2>5, <2>6, <2>7
  <1>3. ASSUME NEW r \in Requests, Recommend(r) PROVE UsageInv'
    BY <1>3 DEF Recommend, ShapeInv, NewReq
  <1>4. ASSUME NEW r \in Requests, UpdateFeedback(r) PROVE UsageInv'
    BY <1>4 DEF UpdateFeedback, ShapeInv, Reply, ReqFields
  <1>5. ASSUME NEW r \in Requests, PersistRecommendation(r) \/ PersistFails(r) PROVE UsageInv'
    BY <1>5 DEF PersistRecommendation, PersistFails
  <1>6. ASSUME NEW c \in Entities, NEW e \in Entities, Merge(c, e) PROVE UsageInv'
    <2>1. rows' \in Seq({rows'[n] : n \in RowIds}) /\ Len(rows') = Len(rows)
      BY <1>6, RowsAreSequence DEF Merge, RowIds
    <2>2. usage' = usage
      BY <1>6 DEF Merge
    <2>3. \A r \in Requests : req'[r].pc = req[r].pc /\ req'[r].items = req[r].items
      BY <1>6 DEF Merge, ShapeInv, ReqFields
    <2> QED
      BY <2>1, <2>2, <2>3
  <1>7. ASSUME UNCHANGED vars PROVE UsageInv'
    BY <1>7 DEF vars
  <1> HIDE DEF UsageInv
  <1> QED
    BY <1>1, <1>2, <1>3, <1>4, <1>5, <1>6, <1>7 DEF Next, Step, ReqStep

-----------------------------------------------------------------------------
(* Nobody touches a request that was answered. *)
LEMMA AnsweredStays ==
    ASSUME NEW r \in Requests,
           ReqStep(r) \/ InsertItems(r) \/ Recommend(r) \/ UpdateFeedback(r)
    PROVE  req[r].pc # "done"
  BY DEF ReqStep, StartLog, StartRecommend, StartFeedback, CanStart, CheckEntities, Dedupe,
         InsertItems, FetchInteractionStats, FetchFeedbackWeights, Recommend,
         FetchRecommendation, FetchOutcome, UpdateFeedback, Fails, InProgress

LEMMA IntoStep == IntoInv /\ [Next]_vars => IntoInv'
  <1> SUFFICES ASSUME IntoInv, [Next]_vars PROVE IntoInv'
    OBVIOUS
  <1>1. ASSUME NEW c \in Entities, NEW e \in Entities, Merge(c, e) PROVE IntoInv'
    BY <1>1 DEF Merge, IntoInv
  <1>2. ASSUME UNCHANGED <<live, into>> PROVE IntoInv'
    BY <1>2 DEF IntoInv
  <1>3. ASSUME NEW r \in Requests, ReqStep(r) PROVE UNCHANGED <<live, into>>
    BY <1>3, ReqStepTables DEF tables
  <1>4. ASSUME NEW r \in Requests, InsertItems(r) \/ Recommend(r) \/ UpdateFeedback(r)
        PROVE  UNCHANGED <<live, into>>
    BY <1>4 DEF InsertItems, Recommend, UpdateFeedback
  <1>5. ASSUME NEW r \in Requests, PersistRecommendation(r) \/ PersistFails(r)
        PROVE  UNCHANGED <<live, into>>
    BY <1>5 DEF PersistRecommendation, PersistFails
  <1> QED
    BY <1>1, <1>2, <1>3, <1>4, <1>5 DEF Next, Step, ReqStep, vars

(* What a recommendation becomes: its own request makes it, and from then on   *)
(* it has an entity.                                                        *)
LEMMA MadeStep == ShapeInv /\ MadeInv /\ LinkInv /\ [Next]_vars => MadeInv'
  <1> SUFFICES ASSUME ShapeInv, MadeInv, LinkInv, [Next]_vars PROVE MadeInv'
    OBVIOUS
  <1> USE DEF MadeInv, ShapeInv
  <1>1. ASSUME NEW r \in Requests, ReqStep(r) PROVE MadeInv'
    BY <1>1, ReqStepTables, ReqStepOwn, AnsweredStays DEF tables
  <1>2. ASSUME NEW r \in Requests, InsertItems(r) PROVE MadeInv'
    BY <1>2, AnsweredStays DEF InsertItems
  <1>3. ASSUME NEW r \in Requests, Recommend(r) PROVE MadeInv'
    <2>1. req[r].entity \in Entities
      BY <1>3 DEF Recommend, LinkInv, Asks
    <2>2. req'[r].pc = "done" /\ \A q \in Requests \ {r} : req'[q] = req[q]
      BY <1>3 DEF Recommend, NewReq
    <2>3. PICK action : recs' = [recs EXCEPT ![r] = [NoRec EXCEPT !.state = "pending",
                                       !.action = action, !.entity = req[r].entity]]
      BY <1>3, Zenon DEF Recommend
    <2>4. recs'[r].entity = req[r].entity /\ \A q \in Requests \ {r} : recs'[q] = recs[q]
      BY <2>3 DEF NoRec
    <2> QED
      BY <2>1, <2>2, <2>4
  <1>4. ASSUME NEW r \in Requests, UpdateFeedback(r) PROVE MadeInv'
    <2>1. \A q \in Requests : recs'[q].state = recs[q].state /\ recs'[q].entity = recs[q].entity
      BY <1>4 DEF UpdateFeedback
    <2>2. \A q \in Requests \ {r} : req'[q] = req[q]
      BY <1>4 DEF UpdateFeedback, Reply
    <2> QED
      BY <1>4, <2>1, <2>2, AnsweredStays
  <1>5. ASSUME NEW r \in Requests, PersistRecommendation(r) \/ PersistFails(r) PROVE MadeInv'
    BY <1>5 DEF PersistRecommendation, PersistFails
  <1>6. ASSUME NEW c \in Entities, NEW e \in Entities, Merge(c, e) PROVE MadeInv'
    <2>1. \A q \in Requests : recs'[q].state = recs[q].state /\ recs'[q].entity \in {recs[q].entity, c}
      BY <1>6 DEF Merge, RepointRecommendation
    <2>2. \A q \in Requests : req'[q].pc = req[q].pc
      BY <1>6 DEF Merge, ReqFields
    <2> QED
      BY <2>1, <2>2
  <1>7. ASSUME UNCHANGED vars PROVE MadeInv'
    BY <1>7 DEF vars
  <1> HIDE DEF MadeInv, ShapeInv
  <1> QED
    BY <1>1, <1>2, <1>3, <1>4, <1>5, <1>6, <1>7 DEF Next, Step, ReqStep

-----------------------------------------------------------------------------
(* While links are kept, so is what other requests ask. *)
LEMMA LinksKept ==
    ASSUME LinkInv,
           \A n, q : Linked(n, q) => Linked(n, q)',
           \A n \in RowIds : n \in RowIds',
           \A q \in Requests : recs[q].state # "unmade" => recs'[q].state # "unmade",
           \A e \in Entities, q \in Requests : recs[q].state # "unmade" =>
               (into[e] = into[recs[q].entity] => into'[e] = into'[recs'[q].entity]),
           NEW r \in Requests,
           req'[r].pc = req[r].pc, req'[r].entity = req[r].entity, req'[r].rec = req[r].rec,
           req'[r].outcome = req[r].outcome
    PROVE  Asks(r)'
  <1>1. Asks(r)
    BY DEF LinkInv
  <1>2. CASE req[r].pc \notin {"stats", "weights", "score", "fetch", "outcome", "update"}
    BY <1>2 DEF Asks
  <1>3. CASE req[r].pc \in {"stats", "weights", "score"}
    BY <1>1, <1>3 DEF Asks
  <1>4. CASE req[r].pc \in {"fetch", "outcome", "update"}
    <2>1. /\ req[r].rec \in Requests /\ recs[req[r].rec].state # "unmade"
          /\ req[r].outcome \in RowIds \cup {0}
      BY <1>1, <1>4 DEF Asks
    <2>2. recs'[req[r].rec].state # "unmade" /\ req[r].outcome \in RowIds' \cup {0}
      BY <2>1
    <2>3. req[r].pc = "outcome" => into'[req[r].entity] = into'[recs'[req[r].rec].entity]
      BY <1>1, <2>1 DEF Asks
    <2>4. PICK n, q : n = req[r].outcome /\ q = req[r].rec
      OBVIOUS
    <2>5. req[r].pc = "update" /\ n # 0 => Linked(n, q)'
      BY <1>1, <2>4 DEF Asks
    <2>6. req'[r].outcome = n /\ req'[r].rec = q
      BY <2>4
    <2>7. req'[r].pc = "update" /\ req'[r].outcome # 0 => Linked(req[r].outcome, req[r].rec)'
      BY <2>5, <2>6 DEF Linked
    <2> QED
      BY <1>1, <1>4, <2>1, <2>2, <2>3, <2>7 DEF Asks
  <1> QED
    BY <1>2, <1>3, <1>4

LEMMA LinkStep == GraphInv /\ [Next]_vars => LinkInv'
  <1> SUFFICES ASSUME GraphInv, [Next]_vars PROVE LinkInv'
    OBVIOUS
  <1> USE DEF GraphInv, ShapeInv, ReqFields
  <1>1. ASSUME NEW r \in Requests, ReqStep(r) PROVE LinkInv'
    <2>1. UNCHANGED tables /\ \A q \in Requests \ {r} : req'[q] = req[q]
      BY <1>1, ReqStepTables, ReqStepOwn
    <2>2. Asks(r)'
      <3> USE DEF Goto, Reply
      <3>0. UNCHANGED <<live, into, rows, usage, recs>>
        BY <2>1 DEF tables
      <3>1. CASE StartLog(r)
        <4>1. req'[r].pc \in {"entities", "done"}
          <5>1. PICK kind \in {"log", "batch"}, items \in Batches :
                   \/ req' = [req EXCEPT ![r] = [NewReq EXCEPT !.pc = "entities", !.kind = kind,
                                                    !.items = items, !.known = Keys]]
                   \/ Reply(r, "invalid")
            BY <3>1, Zenon DEF StartLog
          <5>2. CASE req' = [req EXCEPT ![r] = [NewReq EXCEPT !.pc = "entities", !.kind = kind,
                                                    !.items = items, !.known = Keys]]
            BY <5>2 DEF NewReq
          <5>3. CASE Reply(r, "invalid")
            BY <5>3
          <5> QED
            BY <5>1, <5>2, <5>3, Zenon
        <4> QED
          BY <4>1 DEF Asks
      <3>2. CASE StartRecommend(r)
        <4>1. PICK e \in Entities :
                 \/ req' = [req EXCEPT ![r] = [NewReq EXCEPT !.pc = "stats", !.kind = "recommend",
                                                             !.entity = e]]
                 \/ Reply(r, "not_found")
          BY <3>2, Zenon DEF StartRecommend
        <4>2. CASE req' = [req EXCEPT ![r] = [NewReq EXCEPT !.pc = "stats", !.kind = "recommend",
                                                             !.entity = e]]
          BY <4>2 DEF NewReq, Asks
        <4>3. CASE Reply(r, "not_found")
          BY <4>3 DEF Asks
        <4> QED
          BY <4>1, <4>2, <4>3, Zenon
      <3>3. CASE StartFeedback(r)
        <4>1. PICK q \in Requests, f \in {"yes", "no"}, n \in RowIds \cup {0} :
                  /\ recs[q].state # "unmade"
                  /\ req' = [req EXCEPT ![r] = [NewReq EXCEPT !.pc = "fetch", !.kind = "feedback",
                                         !.rec = q, !.followed = f, !.outcome = n]]
          BY <3>3 DEF StartFeedback
        <4>2. req'[r].pc = "fetch" /\ req'[r].rec = q /\ req'[r].outcome = n
          BY <4>1 DEF NewReq
        <4> QED
          BY <4>1, <4>2, <3>0 DEF Asks, RowIds
      <3>4. CASE CheckEntities(r)
        BY <3>4 DEF CheckEntities, Asks
      <3>5. CASE Dedupe(r)
        <4> DEFINE pc(id) == IF req[r].kind = "log" /\ id # 0 THEN "done"
                             ELSE IF Len(req[r].ids) + 1 = Len(req[r].items) THEN "insert"
                             ELSE "dedupe"
                   answer(id) == IF req[r].kind = "log" /\ id # 0 THEN "existing" ELSE "none"
        <4>1. \E id : req' = [req EXCEPT ![r].ids = Append(req[r].ids, id), ![r].pc = pc(id),
                                         ![r].answer = answer(id)]
          BY <3>5, Zenon DEF Dedupe
        <4>2. PICK id : req' = [req EXCEPT ![r].ids = Append(req[r].ids, id), ![r].pc = pc(id),
                                           ![r].answer = answer(id)]
          BY <4>1, Zenon
        <4>3. pc(id) \in {"done", "insert", "dedupe"}
          BY Zenon
        <4> HIDE DEF pc, answer
        <4>4. req'[r].pc = pc(id)
          BY <4>2
        <4> QED
          BY <4>3, <4>4 DEF Asks
      <3>6. CASE FetchInteractionStats(r) \/ FetchFeedbackWeights(r)
        BY <3>6 DEF FetchInteractionStats, FetchFeedbackWeights, LinkInv, Asks
      <3>7. CASE FetchRecommendation(r)
        <4>1. recs[req[r].rec].state = "stored" => recs[req[r].rec].entity \in Entities
          BY <3>7 DEF FetchRecommendation, MadeInv, LinkInv, Asks
        <4> QED
          BY <3>7, <3>0, <4>1 DEF FetchRecommendation, LinkInv, Asks, RowIds
      <3>8. CASE FetchOutcome(r)
        <4>1. req'[r].pc = "done" \/ (req'[r].pc = "update" /\ rows[req[r].outcome].entity = req[r].entity)
          BY <3>8 DEF FetchOutcome
        <4>2. req'[r].rec = req[r].rec /\ req'[r].outcome = req[r].outcome /\ req'[r].entity = req[r].entity
          BY <3>8 DEF FetchOutcome
        <4>3. Asks(r) /\ req[r].pc = "outcome"
          BY <3>8 DEF FetchOutcome, LinkInv
        <4> QED
          BY <3>0, <4>1, <4>2, <4>3 DEF Asks, Linked, RowIds
      <3>9. CASE Fails(r)
        BY <3>9 DEF Fails, Asks
      <3> QED
        BY <1>1, <3>1, <3>2, <3>3, <3>4, <3>5, <3>6, <3>7, <3>8, <3>9 DEF ReqStep
    <2> QED
      BY <2>1, <2>2 DEF LinkInv, Asks, Linked, tables, RowIds
  <1>2. ASSUME NEW r \in Requests, InsertItems(r) PROVE LinkInv'
    <2>1. \A n \in RowIds : n \in RowIds' /\ rows'[n] = rows[n]
      <3>1. PICK S : rows \in Seq(S)
        BY DEF UsageInv
      <3> DEFINE count == Cardinality(NewItems(r))
      <3>2. count \in Nat
        <4>1. NewItems(r) \subseteq DOMAIN req[r].items /\ IsFiniteSet(DOMAIN req[r].items)
          BY <1>2 DEF InsertItems, NewItems, UsageInv
        <4> QED
          BY <4>1, FS_Subset, FS_CardinalityType
      <3>3. rows' = rows \o [n \in 1 .. count |-> Stored(req[r].items[NthNew(r, n)])]
        BY <1>2 DEF InsertItems
      <3> HIDE DEF count
      <3> QED
        BY <3>1, <3>2, <3>3 DEF RowIds
    <2>2. UNCHANGED <<into, recs>> /\ req'[r].pc = "done" /\ \A q \in Requests \ {r} : req'[q] = req[q]
      BY <1>2 DEF InsertItems
    <2>3. \A n, q : Linked(n, q) => Linked(n, q)'
      BY <2>1, <2>2 DEF Linked
    <2>4. \A q \in Requests \ {r} : Asks(q)'
      BY <2>1, <2>2, <2>3, LinksKept
    <2>5. Asks(r)'
      BY <2>2 DEF Asks
    <2> QED
      BY <2>2, <2>3, <2>4, <2>5 DEF LinkInv
  <1>3. ASSUME NEW r \in Requests, Recommend(r) PROVE LinkInv'
    <2>1. UNCHANGED <<into, rows>> /\ req'[r].pc = "done" /\ \A q \in Requests \ {r} : req'[q] = req[q]
      BY <1>3 DEF Recommend, NewReq
    <2>2. recs[r].state = "unmade"
      BY <1>3, AnsweredStays DEF MadeInv
    <2>3. recs'[r].outcome = 0 /\ \A q \in Requests \ {r} : recs'[q] = recs[q]
      <3>1. PICK action : recs' = [recs EXCEPT ![r] = [NoRec EXCEPT !.state = "pending",
                                       !.action = action, !.entity = req[r].entity]]
        BY <1>3, Zenon DEF Recommend
      <3> QED
        BY <3>1 DEF NoRec
    <2>4. \A n, q : Linked(n, q) => Linked(n, q)'
      BY <2>1, <2>2, <2>3 DEF Linked, RowIds
    <2>5. \A q \in Requests \ {r} : Asks(q)'
      <3>1. \A q \in Requests : recs[q].state # "unmade" => recs'[q] = recs[q]
        BY <2>2, <2>3
      <3> QED
        BY <2>1, <2>4, <3>1, LinksKept DEF RowIds
    <2>6. Asks(r)'
      BY <2>1 DEF Asks
    <2> QED
      BY <2>3, <2>4, <2>5, <2>6 DEF LinkInv
  <1>4. ASSUME NEW r \in Requests, UpdateFeedback(r) PROVE LinkInv'
    <2>1. UNCHANGED <<into, rows>> /\ req'[r].pc = "done" /\ \A q \in Requests \ {r} : req'[q] = req[q]
      BY <1>4 DEF UpdateFeedback, Reply
    <2>2. \A q \in Requests : recs'[q].state = recs[q].state /\ recs'[q].entity = recs[q].entity
      BY <1>4 DEF UpdateFeedback
    <2>3. \A q \in Requests : recs'[q].outcome = IF q = req[r].rec THEN req[r].outcome ELSE recs[q].outcome
      BY <1>4 DEF UpdateFeedback
    <2>4. req[r].outcome # 0 => Linked(req[r].outcome, req[r].rec)
      BY <1>4 DEF UpdateFeedback, LinkInv, Asks
    <2>5. \A n, q : Linked(n, q) => Linked(n, q)'
      BY <2>1, <2>2 DEF Linked, RowIds
    <2>6. \A q \in Requests \ {r} : Asks(q)'
      BY <2>1, <2>2, <2>5, LinksKept DEF RowIds
    <2>7. Asks(r)'
      BY <2>1 DEF Asks
    <2> QED
      BY <2>3, <2>4, <2>5, <2>6, <2>7 DEF LinkInv
  <1>5. ASSUME NEW r \in Requests, PersistRecommendation(r) \/ PersistFails(r) PROVE LinkInv'
    <2>1. UNCHANGED <<into, rows, req>>
      BY <1>5 DEF PersistRecommendation, PersistFails
    <2>2. /\ \A q \in Requests : recs'[q].entity = recs[q].entity
          /\ \A q \in Requests : recs'[q].outcome = recs[q].outcome
          /\ \A q \in Requests : recs[q].state # "unmade" => recs'[q].state # "unmade"
      <3>1. CASE PersistRecommendation(r)
        BY <3>1 DEF PersistRecommendation, ShapeInv
      <3>2. CASE PersistFails(r)
        BY <3>2 DEF PersistFails, ShapeInv
      <3> QED
        BY <1>5, <3>1, <3>2
    <2>3. \A n, q : Linked(n, q) => Linked(n, q)'
      BY <2>1, <2>2 DEF Linked, RowIds
    <2>4. \A x \in Entities, q \in Requests : recs[q].state # "unmade" =>
              (into[x] = into[recs[q].entity] => into'[x] = into'[recs'[q].entity])
      BY <2>1, <2>2
    <2>5. /\ \A n \in RowIds : n \in RowIds'
          /\ \A q \in Requests : /\ req'[q].pc = req[q].pc /\ req'[q].entity = req[q].entity
                                 /\ req'[q].rec = req[q].rec /\ req'[q].outcome = req[q].outcome
      BY <2>1 DEF RowIds
    <2>6. \A q \in Requests : Asks(q)'
      BY <2>2, <2>3, <2>4, <2>5, LinksKept
    <2>7. \A q \in Requests : recs'[q].outcome # 0 => Linked(recs[q].outcome, q)'
      BY <2>2, <2>3 DEF LinkInv
    <2> QED
      BY <2>6, <2>7 DEF LinkInv
  <1>6. ASSUME NEW c \in Entities, NEW e \in Entities, Merge(c, e) PROVE LinkInv'
    <2>1. /\ c # e /\ into[c] = c /\ into[e] = e
          /\ \A x \in Entities : into'[x] = IF into[x] = e THEN c ELSE into[x]
      BY <1>6 DEF Merge, IntoInv
    <2>2. \A q \in Requests : /\ recs'[q].state = recs[q].state /\ recs'[q].outcome = recs[q].outcome
                              /\ \/ recs'[q].entity = recs[q].entity
                                 \/ recs[q].entity = e /\ recs'[q].entity = c
      BY <1>6 DEF Merge, RepointRecommendation
    <2>3. RowIds' = RowIds /\ \A n \in RowIds : rows'[n].entity = IF rows[n].entity = e THEN c
                                                                 ELSE rows[n].entity
      BY <1>6 DEF Merge, RowIds
    <2>4. \A q \in Requests : /\ req'[q].pc = req[q].pc /\ req'[q].entity = req[q].entity
                              /\ req'[q].rec = req[q].rec /\ req'[q].outcome = req[q].outcome
      BY <1>6 DEF Merge
    <2>5. \A x \in Entities, q \in Requests :
              recs[q].state # "unmade" =>
                  (into[x] = into[recs[q].entity] => into'[x] = into'[recs'[q].entity])
      BY ZenonT(40), <2>1, <2>2 DEF MadeInv
    <2>6. \A n, q : Linked(n, q) => Linked(n, q)'
      <3> SUFFICES ASSUME NEW n, NEW q, Linked(n, q) PROVE Linked(n, q)'
        OBVIOUS
      <3>1. /\ n \in RowIds /\ rows[n].entity \in Entities /\ q \in Requests
            /\ recs[q].state # "unmade" /\ into[rows[n].entity] = into[recs[q].entity]
        BY DEF Linked
      <3>2. into'[rows[n].entity] = into'[recs'[q].entity]
        BY <2>5, <3>1
      <3>3. into'[rows'[n].entity] = into'[rows[n].entity] /\ rows'[n].entity \in Entities
        BY <2>1, <2>3, <3>1
      <3> QED
        BY <2>2, <2>3, <3>1, <3>2, <3>3 DEF Linked
    <2>7. \A q \in Requests : Asks(q)'
      BY <2>2, <2>3, <2>4, <2>5, <2>6, LinksKept
    <2> QED
      BY <2>2, <2>6, <2>7 DEF LinkInv
  <1>7. ASSUME UNCHANGED vars PROVE LinkInv'
    BY <1>7 DEF vars, LinkInv, Asks, Linked, RowIds
  <1> HIDE DEF GraphInv, ShapeInv
  <1> QED
    BY <1>1, <1>2, <1>3, <1>4, <1>5, <1>6, <1>7 DEF Next, Step, ReqStep

-----------------------------------------------------------------------------
LEMMA GraphInvariant == Spec => []GraphInv
  <1>1. GraphInv /\ [Next]_vars => GraphInv'
    BY ShapeStep, UsageStep, IntoStep, MadeStep, LinkStep DEF GraphInv
  <1> QED
    BY <1>1, GraphInit, PTL DEF Spec

(* Whatever fails, merges or is logged twice: as many interactions are counted *)
(* as there are rows.                                                       *)
THEOREM BilledIsStored == Spec => []UsageCountsRows
  <1>1. GraphInv => UsageCountsRows
    BY DEF GraphInv, UsageInv
  <1> QED
    BY <1>1, GraphInvariant, PTL

(* For any requests, entities and merges: the interaction that a recommendation *)
(* is linked to is of the person the recommendation was for.                *)
THEOREM OnePerson == Spec => []FeedbackOfItsPerson
  <1>1. GraphInv => FeedbackOfItsPerson
    BY DEF GraphInv, LinkInv, Linked, FeedbackOfItsPerson
  <1> QED
    BY <1>1, GraphInvariant, PTL

-----------------------------------------------------------------------------
(* What the first and the branching steps of a request make of it. *)

LEMMA StartLogShape ==
    ASSUME ShapeInv, NEW r \in Requests, StartLog(r)
    PROVE  \/ /\ req'[r].pc = "entities" /\ req'[r].answer = "none" /\ req'[r].ids = <<>>
              /\ req'[r].known = Keys /\ req'[r].items \in Batches /\ req'[r].items # <<>>
              /\ req'[r].kind = "log" => Len(req'[r].items) = 1
           \/ req'[r].pc = "done" /\ req'[r].answer = "invalid"
  <1>1. PICK kind \in {"log", "batch"}, items \in Batches :
            /\ kind = "log" => Len(items) = 1
            /\ \/ /\ req' = [req EXCEPT ![r] = [NewReq EXCEPT !.pc = "entities", !.kind = kind,
                                            !.items = items, !.known = Keys]]
                  /\ items # <<>>
               \/ Reply(r, "invalid")
    BY Zenon DEF StartLog
  <1>2. CASE req' = [req EXCEPT ![r] = [NewReq EXCEPT !.pc = "entities", !.kind = kind,
                                            !.items = items, !.known = Keys]] /\ items # <<>>
    <2>1. /\ req'[r].pc = "entities" /\ req'[r].answer = "none" /\ req'[r].ids = <<>>
          /\ req'[r].known = Keys /\ req'[r].items = items /\ req'[r].kind = kind
      BY <1>2 DEF ShapeInv, NewReq
    <2> QED
      BY <1>1, <1>2, <2>1
  <1>3. CASE Reply(r, "invalid")
    BY <1>3 DEF Reply, ShapeInv, ReqFields
  <1> QED
    BY <1>1, <1>2, <1>3, Zenon

LEMMA StartRecommendShape ==
    ASSUME ShapeInv, NEW r \in Requests, StartRecommend(r)
    PROVE  req'[r].pc \in {"stats", "done"} /\ req'[r].answer \in {"none", "not_found"}
  <1>1. PICK e \in Entities :
            \/ req' = [req EXCEPT ![r] = [NewReq EXCEPT !.pc = "stats", !.kind = "recommend",
                                                        !.entity = e]]
            \/ Reply(r, "not_found")
    BY Zenon DEF StartRecommend
  <1>2. CASE req' = [req EXCEPT ![r] = [NewReq EXCEPT !.pc = "stats", !.kind = "recommend",
                                                        !.entity = e]]
    BY <1>2 DEF ShapeInv, NewReq
  <1>3. CASE Reply(r, "not_found")
    BY <1>3 DEF Reply, ShapeInv, ReqFields
  <1> QED
    BY <1>1, <1>2, <1>3, Zenon

LEMMA StartFeedbackShape ==
    ASSUME ShapeInv, NEW r \in Requests, StartFeedback(r)
    PROVE  req'[r].pc = "fetch" /\ req'[r].answer = "none"
  BY DEF StartFeedback, ShapeInv, NewReq

LEMMA DedupeShape ==
    ASSUME ShapeInv, NEW r \in Requests, Dedupe(r)
    PROVE  LET next == Len(req[r].ids) + 1
               same == SameRef(req[r].items[next])
           IN  \E id \in IF same = {} THEN {0} ELSE same :
                  /\ req'[r].ids = Append(req[r].ids, id)
                  /\ req'[r].pc = IF req[r].kind = "log" /\ id # 0 THEN "done"
                                  ELSE IF next = Len(req[r].items) THEN "insert" ELSE "dedupe"
                  /\ req'[r].answer = IF req[r].kind = "log" /\ id # 0 THEN "existing" ELSE "none"
                  /\ req'[r].items = req[r].items /\ req'[r].known = req[r].known
                  /\ req'[r].kind = req[r].kind
  <1> DEFINE next == Len(req[r].ids) + 1
             same == SameRef(req[r].items[next])
             ids(id) == Append(req[r].ids, id)
             pc(id) == IF req[r].kind = "log" /\ id # 0 THEN "done"
                       ELSE IF next = Len(req[r].items) THEN "insert" ELSE "dedupe"
             answer(id) == IF req[r].kind = "log" /\ id # 0 THEN "existing" ELSE "none"
  <1>1. PICK id \in IF same = {} THEN {0} ELSE same :
            req' = [req EXCEPT ![r].ids = ids(id), ![r].pc = pc(id), ![r].answer = answer(id)]
    BY Zenon DEF Dedupe
  <1> HIDE DEF ids, pc, answer, next, same
  <1>2. /\ req'[r].ids = ids(id) /\ req'[r].pc = pc(id) /\ req'[r].answer = answer(id)
        /\ req'[r].items = req[r].items /\ req'[r].known = req[r].known
        /\ req'[r].kind = req[r].kind
    BY <1>1 DEF ShapeInv, ReqFields
  <1> USE DEF ids, pc, answer, next, same
  <1> QED
    BY <1>1, <1>2, Zenon

-----------------------------------------------------------------------------
(* What is not late is of a living entity: merges move it along.  A request  *)
(* that was not raced holds the entity its recommendation has.               *)

LateInv ==
    /\ \A n \in RowIds : ~rows[n].late => rows[n].entity \in live
    /\ \A q \in Requests : recs[q].state = "stored" /\ ~recs[q].late => recs[q].entity \in live
    /\ \A r \in Requests : req[r].pc = "outcome" /\ ~req[r].raced =>
          /\ recs[req[r].rec].state = "stored"
          /\ recs[req[r].rec].entity = req[r].entity

LEMMA LateStep == GraphInv /\ LateInv /\ [Next]_vars => LateInv'
  <1> SUFFICES ASSUME GraphInv, LateInv, [Next]_vars PROVE LateInv'
    OBVIOUS
  <1>0. ShapeInv /\ UsageInv /\ MadeInv /\ LinkInv
    BY DEF GraphInv
  <1> DEFINE Held(r) == req'[r].pc = "outcome" /\ ~req'[r].raced =>
                            /\ recs'[req'[r].rec].state = "stored"
                            /\ recs'[req'[r].rec].entity = req'[r].entity
  <1>1. ASSUME NEW r \in Requests, ReqStep(r) PROVE LateInv'
    <2>1. UNCHANGED <<live, rows, recs>> /\ \A q \in Requests \ {r} : req'[q] = req[q]
      BY <1>0, <1>1, ReqStepTables, ReqStepOwn DEF tables
    <2>2. Held(r)
      <3>1. CASE StartLog(r) \/ StartRecommend(r) \/ StartFeedback(r) \/ Dedupe(r)
        <4>1. req'[r].pc # "outcome"
          BY <1>0, <3>1, StartLogShape, StartRecommendShape, StartFeedbackShape, DedupeShape
        <4> QED
          BY <4>1
      <3>2. CASE FetchRecommendation(r)
        BY <1>0, <2>1, <3>2 DEF FetchRecommendation, Reply, ShapeInv, ReqFields
      <3>3. CASE CheckEntities(r) \/ FetchInteractionStats(r) \/ FetchFeedbackWeights(r)
                     \/ FetchOutcome(r) \/ Fails(r)
        <4>1. req'[r].pc # "outcome"
          BY <1>0, <3>3 DEF CheckEntities, FetchInteractionStats, FetchFeedbackWeights,
                            FetchOutcome, Fails, Reply, Goto, ShapeInv, ReqFields
        <4> QED
          BY <4>1
      <3> QED
        BY <1>1, <3>1, <3>2, <3>3 DEF ReqStep
    <2> QED
      BY <2>1, <2>2 DEF LateInv, RowIds
  <1>2. ASSUME NEW r \in Requests, InsertItems(r) PROVE LateInv'
    <2>1. PICK S : rows \in Seq(S)
      BY <1>0 DEF UsageInv
    <2> DEFINE count == Cardinality(NewItems(r))
               new   == [n \in 1 .. count |-> Stored(req[r].items[NthNew(r, n)])]
    <2>2. count \in Nat
      <3>1. NewItems(r) \subseteq DOMAIN req[r].items /\ IsFiniteSet(DOMAIN req[r].items)
        BY <1>0, <1>2 DEF InsertItems, UsageInv, NewItems
      <3> QED
        BY <3>1, FS_Subset, FS_CardinalityType
    <2>3. rows' = rows \o new /\ UNCHANGED <<live, recs>>
      BY <1>2 DEF InsertItems
    <2>4. \A n \in 1 .. count : ~new[n].late => new[n].entity \in live
      BY DEF Stored
    <2>5. \A n \in DOMAIN rows' : \/ n \in RowIds /\ rows'[n] = rows[n]
                                  \/ n - Len(rows) \in 1 .. count /\ rows'[n] = new[n - Len(rows)]
      BY <2>1, <2>2, <2>3 DEF RowIds
    <2>6. req'[r].pc = "done" /\ \A q \in Requests \ {r} : req'[q] = req[q]
      BY <1>0, <1>2 DEF InsertItems, ShapeInv, ReqFields
    <2> HIDE DEF new, count
    <2>7. \A n \in DOMAIN rows' : ~rows'[n].late => rows'[n].entity \in live
      BY <2>4, <2>5 DEF LateInv
    <2> QED
      BY <2>3, <2>6, <2>7 DEF LateInv, RowIds
  <1>3. ASSUME NEW r \in Requests, Recommend(r) PROVE LateInv'
    <2>1. UNCHANGED <<live, rows>> /\ req'[r].pc = "done" /\ \A q \in Requests \ {r} : req'[q] = req[q]
      BY <1>0, <1>3 DEF Recommend, NewReq, ShapeInv
    <2>2. recs[r].state = "unmade"
      BY <1>0, <1>3, AnsweredStays DEF MadeInv
    <2>3. recs'[r].state = "pending" /\ \A q \in Requests \ {r} : recs'[q] = recs[q]
      <3>1. PICK action : recs' = [recs EXCEPT ![r] = [NoRec EXCEPT !.state = "pending",
                                       !.action = action, !.entity = req[r].entity]]
        BY <1>3, Zenon DEF Recommend
      <3> QED
        BY <1>0, <3>1 DEF NoRec, ShapeInv
    <2>4. \A q \in Requests : req[q].pc = "outcome" => req[q].rec \in Requests \ {r}
      BY <1>0, <2>2 DEF LinkInv, Asks
    <2>5. \A n \in RowIds' : ~rows'[n].late => rows'[n].entity \in live'
      BY <2>1 DEF LateInv, RowIds
    <2>6. \A q \in Requests : recs'[q].state = "stored" /\ ~recs'[q].late => recs'[q].entity \in live'
      BY <2>1, <2>3 DEF LateInv
    <2>7. ASSUME NEW q \in Requests, req'[q].pc = "outcome", ~req'[q].raced
          PROVE  /\ recs'[req'[q].rec].state = "stored"
                 /\ recs'[req'[q].rec].entity = req'[q].entity
      <3>1. q # r
        BY <2>1, <2>7
      <3>2. req'[q] = req[q]
        BY <2>1, <3>1
      <3>3. /\ recs[req[q].rec].state = "stored" /\ recs[req[q].rec].entity = req[q].entity
            /\ req[q].pc = "outcome"
        BY <2>7, <3>2 DEF LateInv
      <3> QED
        BY <2>3, <2>4, <3>2, <3>3
    <2> QED
      BY <2>5, <2>6, <2>7 DEF LateInv
  <1>4. ASSUME NEW r \in Requests, UpdateFeedback(r) PROVE LateInv'
    <2>1. UNCHANGED <<live, rows>> /\ req'[r].pc = "done" /\ \A q \in Requests \ {r} : req'[q] = req[q]
      BY <1>0, <1>4 DEF UpdateFeedback, Reply, ShapeInv, ReqFields
    <2>2. \A q \in Requests : /\ recs'[q].state = recs[q].state /\ recs'[q].entity = recs[q].entity
                              /\ recs'[q].late = recs[q].late
      BY <1>0, <1>4 DEF UpdateFeedback, ShapeInv
    <2>3. \A q \in Requests : req[q].pc = "outcome" => req[q].rec \in Requests
      BY <1>0 DEF LinkInv, Asks
    <2>4. \A n \in RowIds' : ~rows'[n].late => rows'[n].entity \in live'
      BY <2>1 DEF LateInv, RowIds
    <2>5. \A q \in Requests : recs'[q].state = "stored" /\ ~recs'[q].late => recs'[q].entity \in live'
      BY <2>1, <2>2 DEF LateInv
    <2>6. ASSUME NEW q \in Requests, req'[q].pc = "outcome", ~req'[q].raced
          PROVE  /\ recs'[req'[q].rec].state = "stored"
                 /\ recs'[req'[q].rec].entity = req'[q].entity
      <3>1. q # r
        BY <2>1, <2>6
      <3>2. req'[q] = req[q]
        BY <2>1, <3>1
      <3>3. /\ recs[req[q].rec].state = "stored" /\ recs[req[q].rec].entity = req[q].entity
            /\ req[q].pc = "outcome"
        BY <2>6, <3>2 DEF LateInv
      <3> QED
        BY <2>2, <2>3, <3>2, <3>3
    <2> QED
      BY <2>4, <2>5, <2>6 DEF LateInv
  <1>5. ASSUME NEW r \in Requests, PersistRecommendation(r) \/ PersistFails(r) PROVE LateInv'
    <2>1. UNCHANGED <<live, rows, req>> /\ recs[r].state = "pending"
      BY <1>5 DEF PersistRecommendation, PersistFails
    <2>2. \A q \in Requests \ {r} : recs'[q] = recs[q]
      BY <1>0, <1>5 DEF PersistRecommendation, PersistFails, ShapeInv
    <2>3. recs'[r].state = "stored" /\ ~recs'[r].late => recs'[r].entity \in live
      <3>1. CASE PersistRecommendation(r)
        <4>1. recs'[r].entity = recs[r].entity /\ recs'[r].late = (recs[r].entity \notin live)
          BY <1>0, <3>1 DEF PersistRecommendation, ShapeInv
        <4> QED
          BY <4>1
      <3>2. CASE PersistFails(r)
        <4>1. recs'[r].state = "lost"
          BY <1>0, <3>2 DEF PersistFails, ShapeInv
        <4> QED
          BY <4>1
      <3> QED
        BY <1>5, <3>1, <3>2
    <2>4. \A q \in Requests : req[q].pc = "outcome" /\ ~req[q].raced =>
              req[q].rec \in Requests \ {r}
      BY <1>0, <2>1 DEF LinkInv, Asks, LateInv
    <2> QED
      BY <2>1, <2>2, <2>3, <2>4 DEF LateInv, RowIds
  <1>6. ASSUME NEW c \in Entities, NEW e \in Entities, Merge(c, e) PROVE LateInv'
    <2>1. c \in live' /\ live' = live \ {e}
      BY <1>6 DEF Merge
    <2>2. RowIds' = RowIds /\ \A n \in RowIds : rows'[n].late = rows[n].late /\
              rows'[n].entity = IF rows[n].entity = e THEN c ELSE rows[n].entity
      BY <1>0, <1>6 DEF Merge, RowIds, ShapeInv
    <2>3. \A q \in Requests : /\ recs'[q].state = recs[q].state /\ recs'[q].late = recs[q].late
                              /\ recs[q].state = "stored" =>
                                    recs'[q].entity = IF recs[q].entity = e THEN c ELSE recs[q].entity
      BY <1>0, <1>6 DEF Merge, RepointRecommendation, ShapeInv
    <2>4. \A q \in Requests : req'[q].pc = req[q].pc /\ (req[q].pc = "outcome" => req'[q].raced)
      BY <1>0, <1>6 DEF Merge, InProgress, ShapeInv, ReqFields
    <2> QED
      BY <2>1, <2>2, <2>3, <2>4 DEF LateInv
  <1>7. ASSUME UNCHANGED vars PROVE LateInv'
    BY <1>7 DEF vars, LateInv, RowIds
  <1> QED
    BY <1>1, <1>2, <1>3, <1>4, <1>5, <1>6, <1>7 DEF Next, Step, ReqStep

(* A step that answers a mismatch is the check of the outcome. *)
LEMMA RefusalIsTheCheck ==
    ASSUME GraphInv, [Next]_vars, NEW r \in Requests, req[r].pc = "outcome",
           req'[r].answer = "mismatch"
    PROVE  req[r].answer = "mismatch" \/ rows[req[r].outcome].entity # req[r].entity
  <1>0. ShapeInv
    BY DEF GraphInv
  <1>1. CASE \E q \in Requests \ {r} : ReqStep(q)
    BY <1>0, <1>1, ReqStepOwn
  <1>2. CASE ReqStep(r)
    <2>1. FetchOutcome(r) \/ Fails(r)
      BY <1>2 DEF ReqStep, StartLog, StartRecommend, StartFeedback, CanStart, CheckEntities, Dedupe,
                  FetchInteractionStats, FetchFeedbackWeights, FetchRecommendation
    <2>2. Fails(r) => req'[r].answer = "error"
      BY <1>0 DEF Fails, Reply, ShapeInv, ReqFields
    <2>3. FetchOutcome(r) /\ Goto(r, "update") => req'[r].answer = req[r].answer
      BY <1>0 DEF Goto, ShapeInv, ReqFields
    <2>4. FetchOutcome(r) => Goto(r, "update") \/ rows[req[r].outcome].entity # req[r].entity
      BY DEF FetchOutcome
    <2> QED
      BY <2>1, <2>2, <2>3, <2>4
  <1>3. ASSUME NEW q \in Requests, InsertItems(q) \/ Recommend(q) \/ UpdateFeedback(q)
        PROVE  req'[r] = req[r]
    <2>1. q # r
      BY <1>3 DEF InsertItems, Recommend, UpdateFeedback
    <2> QED
      BY <1>0, <1>3, <2>1 DEF InsertItems, Recommend, UpdateFeedback, Reply, ShapeInv
  <1>4. ASSUME NEW c \in Entities, NEW e \in Entities, Merge(c, e) PROVE req'[r].answer = req[r].answer
    BY <1>0, <1>4 DEF Merge, ShapeInv, ReqFields
  <1>5. ASSUME NEW q \in Requests, PersistRecommendation(q) \/ PersistFails(q) PROVE req' = req
    BY <1>5 DEF PersistRecommendation, PersistFails
  <1>6. UNCHANGED vars => req' = req
    BY DEF vars
  <1> QED
    BY <1>1, <1>2, <1>3, <1>4, <1>5, <1>6 DEF Next, Step, ReqStep

(* Nothing is answered before the end. *)
SilentInv == \A r \in Requests : req[r].pc # "done" => req[r].answer = "none"

LEMMA SilentStep == GraphInv /\ SilentInv /\ [Next]_vars => SilentInv'
  <1> SUFFICES ASSUME GraphInv, SilentInv, [Next]_vars PROVE SilentInv'
    OBVIOUS
  <1>0. ShapeInv
    BY DEF GraphInv
  <1>1. ASSUME NEW r \in Requests, ReqStep(r) PROVE SilentInv'
    <2>1. req'[r].pc # "done" => req'[r].answer = "none"
      <3>1. CASE StartLog(r) \/ StartRecommend(r) \/ StartFeedback(r)
        <4>1. StartRecommend(r) => req'[r].pc = "done" \/ req'[r].answer = "none"
          <5> SUFFICES ASSUME StartRecommend(r) PROVE req'[r].pc = "done" \/ req'[r].answer = "none"
            OBVIOUS
          <5>1. PICK e \in Entities :
                    \/ req' = [req EXCEPT ![r] = [NewReq EXCEPT !.pc = "stats", !.kind = "recommend",
                                                                !.entity = e]]
                    \/ Reply(r, "not_found")
            BY Zenon DEF StartRecommend
          <5>2. CASE req' = [req EXCEPT ![r] = [NewReq EXCEPT !.pc = "stats", !.kind = "recommend",
                                                                !.entity = e]]
            BY <1>0, <5>2 DEF ShapeInv, NewReq
          <5>3. CASE Reply(r, "not_found")
            BY <1>0, <5>3 DEF Reply, ShapeInv, ReqFields
          <5> QED
            BY <5>1, <5>2, <5>3, Zenon
        <4> QED
          BY <1>0, <3>1, <4>1, StartLogShape, StartFeedbackShape
      <3>2. CASE Dedupe(r)
        <4>1. PICK id :
                  /\ req'[r].pc = IF req[r].kind = "log" /\ id # 0 THEN "done"
                                  ELSE IF Len(req[r].ids) + 1 = Len(req[r].items) THEN "insert"
                                  ELSE "dedupe"
                  /\ req'[r].answer = IF req[r].kind = "log" /\ id # 0 THEN "existing" ELSE "none"
          BY <1>0, <3>2, DedupeShape, Zenon
        <4> QED
          BY <4>1
      <3>3. CASE CheckEntities(r) \/ FetchInteractionStats(r) \/ FetchFeedbackWeights(r)
        BY <1>0, <3>3 DEF SilentInv, CheckEntities, FetchInteractionStats, FetchFeedbackWeights,
                          Reply, Goto, ShapeInv, ReqFields
      <3>4. CASE FetchRecommendation(r) \/ FetchOutcome(r) \/ Fails(r)
        BY <1>0, <3>4 DEF SilentInv, FetchRecommendation, FetchOutcome, Fails, Reply, Goto,
                          ShapeInv, ReqFields
      <3> QED
        BY <1>1, <3>1, <3>2, <3>3, <3>4 DEF ReqStep
    <2> QED
      BY <1>0, <1>1, <2>1, ReqStepOwn DEF SilentInv
  <1>2. ASSUME NEW r \in Requests, InsertItems(r) \/ Recommend(r) \/ UpdateFeedback(r)
        PROVE SilentInv'
    <2>1. req'[r].pc = "done" /\ \A q \in Requests \ {r} : req'[q] = req[q]
      <3>1. CASE InsertItems(r)
        BY <1>0, <3>1 DEF InsertItems, ShapeInv, ReqFields
      <3>2. CASE Recommend(r)
        BY <1>0, <3>2 DEF Recommend, NewReq, ShapeInv
      <3>3. CASE UpdateFeedback(r)
        BY <1>0, <3>3 DEF UpdateFeedback, Reply, ShapeInv, ReqFields
      <3> QED
        BY <1>2, <3>1, <3>2, <3>3
    <2> QED
      BY <2>1 DEF SilentInv
  <1>3. ASSUME NEW r \in Requests, PersistRecommendation(r) \/ PersistFails(r) PROVE SilentInv'
    BY <1>3 DEF PersistRecommendation, PersistFails, SilentInv
  <1>4. ASSUME NEW c \in Entities, NEW e \in Entities, Merge(c, e) PROVE SilentInv'
    <2>1. \A q \in Requests : req'[q].pc = req[q].pc /\ req'[q].answer = req[q].answer
      BY <1>0, <1>4 DEF Merge, ShapeInv, ReqFields
    <2> QED
      BY <2>1 DEF SilentInv
  <1>5. ASSUME UNCHANGED vars PROVE SilentInv'
    BY <1>5 DEF vars, SilentInv
  <1> QED
    BY <1>1, <1>2, <1>3, <1>4, <1>5 DEF Next, Step, ReqStep

LEMMA LateInit == Init => LateInv /\ SilentInv
  <1> SUFFICES ASSUME Init PROVE LateInv /\ SilentInv
    OBVIOUS
  <1>1. \A r \in Requests : req[r].pc = "new" /\ req[r].answer = "none" /\ recs[r].state = "unmade"
    BY DEF Init, NewReq, NoRec
  <1>2. ASSUME NEW n \in RowIds, ~rows[n].late PROVE rows[n].entity \in live
    <2>1. rows[n] = Stored(Seeded[n])
      BY DEF Init, RowIds
    <2>2. Stored(Seeded[n]).late = (Seeded[n].entity \notin live)
      BY DEF Stored
    <2>3. Stored(Seeded[n]).entity = Seeded[n].entity
      BY DEF Stored
    <2> QED
      BY <1>2, <2>1, <2>2, <2>3
  <1> QED
    BY <1>1, <1>2 DEF LateInv, SilentInv

(* For any requests, entities and merges: feedback that names an interaction *)
(* of its person is refused only after a merge that came during the request, *)
(* or that a late insert had missed.  A request that was not raced has the   *)
(* entity of its recommendation, and two living entities of one person are   *)
(* the same.                                                                *)
THEOREM RefusalsAreRaces == Spec => RefusedOnlyByRace
  <1> DEFINE Excused(r) ==
                 LET rec == recs[req[r].rec]
                     row == rows[req[r].outcome]
                 IN  \/ into[row.entity] # into[rec.entity]
                     \/ req[r].raced \/ row.late \/ rec.late
             Excuse == \A r \in Requests : req[r].pc = "outcome" /\ req'[r].answer = "mismatch" => Excused(r)
  <1>1. GraphInv /\ LateInv /\ SilentInv /\ [Next]_vars => [Excuse]_vars
    <2> SUFFICES ASSUME GraphInv, LateInv, SilentInv, [Next]_vars, NEW r \in Requests,
                        req[r].pc = "outcome", req'[r].answer = "mismatch"
                 PROVE  Excused(r)
      OBVIOUS
    <2> DEFINE rec == recs[req[r].rec]
               row == rows[req[r].outcome]
    <2>1. row.entity # req[r].entity
      BY RefusalIsTheCheck DEF SilentInv
    <2>2. req[r].rec \in Requests /\ req[r].outcome \in RowIds
      BY DEF GraphInv, LinkInv, Asks
    <2>3. SUFFICES ASSUME ~req[r].raced, ~row.late, ~rec.late PROVE into[row.entity] # into[rec.entity]
      OBVIOUS
    <2>4. rec.state = "stored" /\ rec.entity = req[r].entity
      BY <2>3 DEF LateInv
    <2>5. row.entity \in live /\ rec.entity \in live
      BY <2>2, <2>3, <2>4 DEF LateInv
    <2> QED
      BY <2>1, <2>4, <2>5 DEF GraphInv, IntoInv
  <1> HIDE DEF Excuse
  <1>2. LateInv /\ SilentInv /\ GraphInv /\ [Next]_vars => LateInv' /\ SilentInv'
    BY LateStep, SilentStep
  <1>3. Spec => [][Excuse]_vars
    BY <1>1, <1>2, LateInit, GraphInvariant, PTL DEF Spec
  <1> QED
    BY <1>3 DEF RefusedOnlyByRace, Excuse

-----------------------------------------------------------------------------
(* The ranks of the numbers in a finite set: each has one, from 1 on.        *)

Rank(N, k) == Cardinality({j \in N : j <= k})

LEMMA RankInRange ==
    ASSUME NEW n \in Nat, NEW N \in SUBSET (1 .. n), NEW k \in N
    PROVE  IsFiniteSet(N) /\ Cardinality(N) \in Nat /\ Rank(N, k) \in 1 .. Cardinality(N)
  <1> DEFINE B == {j \in N : j <= k}
  <1>1. IsFiniteSet(1 .. n)
    BY FS_Interval
  <1>2. IsFiniteSet(N)
    BY <1>1, FS_Subset
  <1>3. IsFiniteSet(B) /\ Cardinality(B) <= Cardinality(N)
    BY <1>2, FS_Subset
  <1>4. Cardinality(B) \in Nat /\ Cardinality(N) \in Nat
    BY <1>2, <1>3, FS_CardinalityType
  <1>5. k \in B
    OBVIOUS
  <1>6. Cardinality(B) # 0
    BY <1>3, <1>5, FS_EmptySet
  <1> QED
    BY <1>2, <1>3, <1>4, <1>6 DEF Rank

LEMMA RankUnique ==
    ASSUME NEW n \in Nat, NEW N \in SUBSET (1 .. n), NEW j \in N, NEW k \in N,
           Rank(N, j) = Rank(N, k)
    PROVE  j = k
  <1>1. ASSUME NEW x \in N, NEW y \in N, x < y PROVE Rank(N, x) # Rank(N, y)
    <2> DEFINE X == {i \in N : i <= x}
               Y == {i \in N : i <= y}
    <2>1. IsFiniteSet(N) /\ Y \in SUBSET N
      BY RankInRange
    <2>2. IsFiniteSet(Y)
      BY <2>1, FS_Subset
    <2>3. X \in SUBSET Y /\ X # Y
      <3>1. \A i \in N : i \in Int
        OBVIOUS
      <3>2. y \in Y /\ y \notin X
        BY <1>1, <3>1
      <3>3. X \in SUBSET Y
        <4>1. \A i \in N : i <= x => i <= y
          BY <1>1, <3>1
        <4> QED
          BY <4>1
      <3> HIDE DEF X, Y
      <3> QED
        BY <3>2, <3>3
    <2>4. Cardinality(Y) # Cardinality(X)
      <3> HIDE DEF X, Y
      <3> QED
        BY <2>2, <2>3, FS_Subset
    <2> QED
      BY <2>4 DEF Rank
  <1> QED
    BY <1>1

LEMMA RankOnto ==
    ASSUME NEW n \in Nat, NEW N \in SUBSET (1 .. n), NEW m \in 1 .. Cardinality(N),
           IsFiniteSet(N), Cardinality(N) \in Nat
    PROVE  \E k \in N : Rank(N, k) = m
  <1> SUFFICES ASSUME \A k \in N : Rank(N, k) # m PROVE FALSE
    OBVIOUS
  <1> DEFINE T == (1 .. Cardinality(N)) \ {m}
             f == [k \in N |-> Rank(N, k)]
  <1>1. IsFiniteSet(1 .. Cardinality(N)) /\ Cardinality(1 .. Cardinality(N)) = Cardinality(N)
    BY FS_Interval
  <1>2. IsFiniteSet(T) /\ Cardinality(T) = Cardinality(N) - 1
    <2> DEFINE R == 1 .. Cardinality(N)
    <2>1. IsFiniteSet(R) /\ Cardinality(R) = Cardinality(N) /\ m \in R
      BY <1>1, Zenon
    <2> HIDE DEF R
    <2>2. IsFiniteSet(R \ {m}) /\ Cardinality(R \ {m}) = Cardinality(R) - 1
      BY <2>1, FS_RemoveElement
    <2> QED
      BY <2>1, <2>2 DEF R
  <1>3. f \in [N -> T]
    BY RankInRange
  <1>4. PICK j \in N, k \in N : j # k /\ f[j] = f[k]
    <2> HIDE DEF f, T
    <2>1. IsFiniteSet(T) /\ Cardinality(T) < Cardinality(N)
      BY <1>2
    <2> QED
      BY <1>3, <2>1, FS_PigeonHole
  <1>5. Rank(N, j) = Rank(N, k)
    BY <1>4
  <1> QED
    BY <1>4, <1>5, RankUnique

-----------------------------------------------------------------------------
(* What a log request knows between its statements. *)

(* Of an item that was looked up: the row found has its reference; without   *)
(* one, the reference was not in the table when the request came.           *)
Found(r, k) ==
    LET item == req[r].items[k]
        id   == req[r].ids[k]
    IN  /\ id = 0 => item.ref = NoRef \/ Key(item) \notin req[r].known
        /\ id # 0 => /\ id \in RowIds /\ item.ref # NoRef
                     /\ rows[id].api = item.api /\ rows[id].ref = item.ref

Logging(r) ==
    /\ req[r].items \in Seq(Items) /\ Len(req[r].items) > 0
    /\ req[r].kind = "log" => Len(req[r].items) = 1
    /\ req[r].ids \in Seq(Nat) /\ Len(req[r].ids) <= Len(req[r].items)
    /\ req[r].pc = "entities" => req[r].ids = <<>>
    /\ req[r].pc = "dedupe" => Len(req[r].ids) < Len(req[r].items)
    /\ req[r].pc = "insert" => Len(req[r].ids) = Len(req[r].items)
    /\ req[r].pc # "entities" => \A k \in DOMAIN req[r].items : req[r].items[k].entity \in Entities
    /\ req[r].known \subseteq Keys
    /\ \A k \in DOMAIN req[r].ids : Found(r, k)

(* Row n is what came of the item. *)
Holds(n, item) ==
    /\ n \in RowIds /\ rows[n].api = item.api /\ rows[n].ref = item.ref
    /\ item.ref = NoRef =>
          /\ rows[n].action = item.action /\ rows[n].good = item.good /\ rows[n].day = item.day
          /\ item.entity \in Entities /\ rows[n].entity \in Entities
          /\ into[rows[n].entity] = into[item.entity]

AnsweredRight(r) == \A k \in DOMAIN req[r].items : Holds(req[r].ids[k], req[r].items[k])

LogInv ==
    \A r \in Requests :
        /\ req[r].pc \in {"entities", "dedupe", "insert"} => Logging(r)
        /\ req[r].answer \in {"created", "existing"} => AnsweredRight(r)

(* No step takes a row away, changes what was logged, or parts its entity     *)
(* from those that were merged with it.                                     *)
RowKept(n) ==
    /\ n \in RowIds'
    /\ rows'[n].api = rows[n].api /\ rows'[n].ref = rows[n].ref
    /\ rows'[n].action = rows[n].action /\ rows'[n].good = rows[n].good
    /\ rows'[n].day = rows[n].day
    /\ rows[n].entity \in Entities =>
          /\ rows'[n].entity \in Entities
          /\ \A x \in Entities : into[x] = into[rows[n].entity] => into'[x] = into'[rows'[n].entity]

LEMMA RowsAreKept == ASSUME GraphInv, [Next]_vars, NEW n \in RowIds PROVE RowKept(n)
  <1>0. ShapeInv /\ UsageInv /\ IntoInv
    BY DEF GraphInv
  <1>1. CASE UNCHANGED <<rows, into>>
    BY <1>1 DEF RowKept, RowIds
  <1>2. ASSUME NEW r \in Requests, InsertItems(r) PROVE RowKept(n)
    <2>1. PICK S : rows \in Seq(S)
      BY <1>0 DEF UsageInv
    <2> DEFINE count == Cardinality(NewItems(r))
    <2>2. count \in Nat
      <3>1. NewItems(r) \subseteq DOMAIN req[r].items /\ IsFiniteSet(DOMAIN req[r].items)
        BY <1>0, <1>2 DEF InsertItems, NewItems, UsageInv
      <3> QED
        BY <3>1, FS_Subset, FS_CardinalityType
    <2>3. rows' = rows \o [m \in 1 .. count |-> Stored(req[r].items[NthNew(r, m)])] /\ UNCHANGED into
      BY <1>2 DEF InsertItems
    <2> HIDE DEF count
    <2>4. n \in RowIds' /\ rows'[n] = rows[n]
      BY <2>1, <2>2, <2>3 DEF RowIds
    <2> QED
      BY <2>3, <2>4 DEF RowKept
  <1>3. ASSUME NEW c \in Entities, NEW e \in Entities, Merge(c, e) PROVE RowKept(n)
    <2>1. /\ c # e /\ into[c] = c /\ into[e] = e
          /\ \A x \in Entities : into'[x] = IF into[x] = e THEN c ELSE into[x]
      BY <1>0, <1>3 DEF Merge, IntoInv
    <2>2. /\ n \in RowIds' /\ rows'[n].entity = IF rows[n].entity = e THEN c ELSE rows[n].entity
          /\ rows'[n].api = rows[n].api /\ rows'[n].ref = rows[n].ref
          /\ rows'[n].action = rows[n].action /\ rows'[n].good = rows[n].good
          /\ rows'[n].day = rows[n].day
      BY <1>0, <1>3 DEF Merge, RowIds, ShapeInv
    <2> QED
      BY <2>1, <2>2 DEF RowKept
  <1>4. ASSUME NEW r \in Requests, ReqStep(r) PROVE UNCHANGED <<rows, into>>
    BY <1>4, ReqStepTables DEF tables
  <1>5. ASSUME NEW r \in Requests, Recommend(r) \/ UpdateFeedback(r) \/ PersistRecommendation(r)
                                   \/ PersistFails(r)
        PROVE  UNCHANGED <<rows, into>>
    BY <1>5 DEF Recommend, UpdateFeedback, PersistRecommendation, PersistFails
  <1>6. UNCHANGED vars => UNCHANGED <<rows, into>>
    BY DEF vars
  <1> QED
    BY <1>1, <1>2, <1>3, <1>4, <1>5, <1>6 DEF Next, Step, ReqStep

(* A request that a step leaves alone, apart from marking it raced, knows     *)
(* after it what it knew before.                                            *)
LEMMA LogKept ==
    ASSUME \A n \in RowIds : RowKept(n), NEW r \in Requests,
           req'[r].pc = req[r].pc, req'[r].kind = req[r].kind, req'[r].items = req[r].items,
           req'[r].ids = req[r].ids, req'[r].known = req[r].known
    PROVE  /\ Logging(r) => Logging(r)'
           /\ AnsweredRight(r) => AnsweredRight(r)'
  <1>1. Keys \subseteq Keys'
    <2> SUFFICES ASSUME NEW n \in RowIds PROVE Key(rows[n]) \in Keys'
      BY DEF Keys
    <2>1. n \in RowIds' /\ <<rows'[n].api, rows'[n].ref>> = <<rows[n].api, rows[n].ref>>
      BY DEF RowKept
    <2> QED
      BY <2>1 DEF Keys, Key
  <1>2. ASSUME NEW k, Found(r, k) PROVE Found(r, k)'
    BY <1>2 DEF Found, RowKept, Key
  <1>3. ASSUME Logging(r) PROVE Logging(r)'
    BY <1>1, <1>2, <1>3 DEF Logging
  <1>4. ASSUME NEW n, NEW item, Holds(n, item) PROVE Holds(n, item)'
    BY <1>4 DEF Holds, RowKept
  <1>5. ASSUME AnsweredRight(r) PROVE AnsweredRight(r)'
    <2> SUFFICES ASSUME NEW k \in DOMAIN req[r].items
                 PROVE  Holds(req[r].ids[k], req[r].items[k])'
      BY DEF AnsweredRight
    <2>1. PICK n, item : n = req[r].ids[k] /\ item = req[r].items[k]
      OBVIOUS
    <2>2. Holds(n, item)'
      BY <1>4, <1>5, <2>1 DEF AnsweredRight
    <2>3. req'[r].ids[k] = n /\ req'[r].items[k] = item
      BY <2>1
    <2> QED
      BY <2>2, <2>3 DEF Holds
  <1> QED
    BY <1>3, <1>5

LEMMA StartLogKnows ==
    ASSUME ShapeInv, NEW r \in Requests, StartLog(r), req'[r].pc = "entities"
    PROVE  Logging(r)'
  <1>1. /\ req'[r].ids = <<>> /\ req'[r].known = Keys
        /\ req'[r].items \in Batches /\ req'[r].items # <<>>
        /\ req'[r].kind = "log" => Len(req'[r].items) = 1
    BY StartLogShape
  <1>2. UNCHANGED Keys
    BY DEF StartLog, tables, Keys, RowIds, Key
  <1>3. PICK n \in 0 .. MaxBatch : req'[r].items \in [1 .. n -> Items]
    BY <1>1 DEF Batches
  <1>4. req'[r].items \in Seq(Items) /\ Len(req'[r].items) > 0
    BY <1>1, <1>3
  <1> QED
    BY <1>1, <1>2, <1>4 DEF Logging

LEMMA CheckEntitiesKnows ==
    ASSUME GraphInv, NEW r \in Requests, Logging(r), CheckEntities(r), req'[r].pc # "done"
    PROVE  Logging(r)'
  <1>0. ShapeInv /\ live \subseteq Entities
    BY DEF GraphInv, IntoInv
  <1>1. /\ req' = [req EXCEPT ![r].pc = "dedupe"] /\ UNCHANGED rows /\ req[r].pc = "entities"
        /\ \A k \in DOMAIN req[r].items : req[r].items[k].entity \in live
    BY <1>0 DEF CheckEntities, Goto, Reply, tables, ShapeInv, ReqFields
  <1>2. /\ req'[r].pc = "dedupe" /\ req'[r].kind = req[r].kind /\ req'[r].items = req[r].items
        /\ req'[r].ids = req[r].ids /\ req'[r].known = req[r].known
    BY <1>0, <1>1 DEF ShapeInv, ReqFields
  <1>3. UNCHANGED Keys
    BY <1>1 DEF Keys, RowIds, Key
  <1>4. req[r].ids = <<>> /\ Len(req[r].ids) = 0 /\ DOMAIN req[r].ids = {}
    BY <1>1 DEF Logging
  <1>5. \A k \in DOMAIN req'[r].items : req'[r].items[k].entity \in Entities
    BY <1>0, <1>1, <1>2
  <1>6. \A k \in DOMAIN req'[r].ids : Found(r, k)'
    BY <1>2, <1>4
  <1> QED
    BY <1>2, <1>3, <1>4, <1>5, <1>6 DEF Logging

(* The lookup of the next item finds a row with its reference, or none that   *)
(* was known.                                                               *)
LEMMA DedupeKnows ==
    ASSUME GraphInv, NEW r \in Requests, Logging(r), Dedupe(r)
    PROVE  /\ req'[r].pc # "done" => Logging(r)'
           /\ req'[r].pc = "done" => AnsweredRight(r)'
  <1>0. ShapeInv /\ Len(rows) \in Nat /\ RowIds = 1 .. Len(rows)
    BY RowsAreSequence DEF GraphInv
  <1>1. PICK next, item : next = Len(req[r].ids) + 1 /\ item = req[r].items[next]
    OBVIOUS
  <1>2. PICK id \in IF SameRef(item) = {} THEN {0} ELSE SameRef(item) :
            /\ req'[r].ids = Append(req[r].ids, id)
            /\ req'[r].pc = IF req[r].kind = "log" /\ id # 0 THEN "done"
                            ELSE IF next = Len(req[r].items) THEN "insert" ELSE "dedupe"
            /\ req'[r].items = req[r].items /\ req'[r].known = req[r].known
            /\ req'[r].kind = req[r].kind
    BY <1>0, <1>1, DedupeShape, Zenon
  <1>3. /\ req[r].pc = "dedupe" /\ UNCHANGED <<rows, into>>
        /\ req[r].items \in Seq(Items) /\ req[r].ids \in Seq(Nat)
        /\ next \in DOMAIN req[r].items /\ next <= Len(req[r].items) /\ next \in Nat
    <2>1. req[r].pc = "dedupe" /\ UNCHANGED <<rows, into>>
      BY DEF Dedupe, tables
    <2>2. /\ req[r].items \in Seq(Items) /\ req[r].ids \in Seq(Nat)
          /\ Len(req[r].ids) < Len(req[r].items)
      BY <2>1 DEF Logging
    <2>3. /\ Len(req[r].items) \in Nat /\ Len(req[r].ids) \in Nat
          /\ DOMAIN req[r].items = 1 .. Len(req[r].items)
      BY <2>2
    <2> QED
      BY <1>1, <2>1, <2>2, <2>3
  <1>4. /\ id \in Nat
        /\ id = 0 => item.ref = NoRef \/ Key(item) \notin Keys
        /\ id # 0 => /\ id \in RowIds /\ item.ref # NoRef
                     /\ rows[id].api = item.api /\ rows[id].ref = item.ref
    <2>1. CASE SameRef(item) = {}
      BY <1>2, <2>1 DEF SameRef, Keys
    <2>2. CASE SameRef(item) # {}
      <3>1. id \in RowIds /\ item.ref # NoRef /\ Key(rows[id]) = Key(item)
        BY <1>2, <2>2 DEF SameRef
      <3>2. rows[id].api = item.api /\ rows[id].ref = item.ref
        BY <3>1 DEF Key
      <3> QED
        BY <1>0, <3>1, <3>2
    <2> QED
      BY <2>1, <2>2
  <1>5. /\ req'[r].ids \in Seq(Nat) /\ Len(req'[r].ids) = next /\ req'[r].ids[next] = id
        /\ \A k \in DOMAIN req[r].ids : req'[r].ids[k] = req[r].ids[k]
        /\ \A k \in DOMAIN req'[r].ids : k = next \/ k \in DOMAIN req[r].ids
    <2>1. PICK ids : ids = req[r].ids
      OBVIOUS
    <2>2. /\ Append(ids, id) \in Seq(Nat) /\ Len(Append(ids, id)) = Len(ids) + 1
          /\ \A k \in 1 .. Len(ids) : Append(ids, id)[k] = ids[k]
          /\ Append(ids, id)[Len(ids) + 1] = id
      BY <1>3, <1>4, <2>1, AppendProperties
    <2>3. DOMAIN ids = 1 .. Len(ids) /\ DOMAIN Append(ids, id) = 1 .. (Len(ids) + 1)
      BY <1>3, <2>1, <2>2
    <2>4. req'[r].ids = Append(ids, id) /\ Len(ids) \in Nat
      BY <1>2, <1>3, <2>1
    <2> QED
      BY <1>1, <2>1, <2>2, <2>3, <2>4
  <1>6. UNCHANGED <<Keys, RowIds>>
    BY <1>3 DEF Keys, RowIds, Key
  <1>7. ASSUME NEW k \in DOMAIN req'[r].ids PROVE Found(r, k)'
    <2>1. CASE k \in DOMAIN req[r].ids
      <3>1. Found(r, k)
        BY <2>1 DEF Logging
      <3>2. req'[r].ids[k] = req[r].ids[k]
        BY <1>5, <2>1
      <3> QED
        BY <1>2, <1>3, <1>6, <3>1, <3>2 DEF Found, Key
    <2>2. CASE k = next
      <3>1. req'[r].ids[k] = id /\ req'[r].items[k] = item /\ req'[r].known \subseteq Keys
        BY <1>1, <1>2, <1>5, <2>2 DEF Logging
      <3> QED
        BY <1>3, <1>4, <1>6, <3>1 DEF Found, Key
    <2> QED
      BY <1>5, <1>7, <2>1, <2>2
  <1>8. ASSUME req'[r].pc # "done" PROVE Logging(r)'
    <2>1. /\ req'[r].pc \in {"insert", "dedupe"}
          /\ req'[r].pc = "insert" <=> next = Len(req[r].items)
      BY <1>2, <1>8
    <2>2. \A k \in DOMAIN req'[r].items : req'[r].items[k].entity \in Entities
      BY <1>2, <1>3 DEF Logging
    <2>3. Len(req[r].items) \in Nat
      BY <1>3
    <2> QED
      BY <1>2, <1>3, <1>5, <1>6, <1>7, <2>1, <2>2, <2>3 DEF Logging
  <1>9. ASSUME req'[r].pc = "done" PROVE AnsweredRight(r)'
    <2>1. req[r].kind = "log" /\ id # 0 /\ Len(req[r].items) = 1
      BY <1>2, <1>9 DEF Logging
    <2>2. next = 1 /\ DOMAIN req[r].items = {1}
      BY <1>1, <1>3, <2>1
    <2>3. Holds(id, item)'
      BY <1>3, <1>4, <1>6, <2>1 DEF Holds
    <2>4. req'[r].ids[1] = id /\ req'[r].items[1] = item /\ DOMAIN req'[r].items = {1}
      BY <1>1, <1>2, <1>5, <2>2
    <2> QED
      BY <2>3, <2>4 DEF AnsweredRight, Holds
  <1> QED
    BY <1>8, <1>9

(* The n-th row inserted is for the n-th new item, and every new item has     *)
(* its row.                                                                 *)
LEMMA InsertedRows ==
    ASSUME GraphInv, NEW r \in Requests, Logging(r), InsertItems(r)
    PROVE  /\ \A n \in DOMAIN rows' \ RowIds :
                 \E k \in NewItems(r) : rows'[n] = Stored(req[r].items[k])
           /\ \A n \in RowIds : n \in DOMAIN rows' /\ rows'[n] = rows[n]
           /\ \A k \in NewItems(r) : /\ ResultId(r, k) \in DOMAIN rows'
                                     /\ rows'[ResultId(r, k)] = Stored(req[r].items[k])
  <1>0. Len(rows) \in Nat /\ RowIds = 1 .. Len(rows)
    BY RowsAreSequence DEF GraphInv
  <1>1. PICK S : rows \in Seq(S)
    BY DEF GraphInv, UsageInv
  <1>2. PICK len \in Nat : DOMAIN req[r].items = 1 .. len
    BY DEF Logging
  <1> DEFINE N == NewItems(r)
             new == [n \in 1 .. Cardinality(N) |-> Stored(req[r].items[NthNew(r, n)])]
  <1>3. N \in SUBSET (1 .. len)
    BY <1>2 DEF NewItems
  <1>4. IsFiniteSet(N) /\ Cardinality(N) \in Nat
    <2>1. IsFiniteSet(1 .. len)
      BY FS_Interval
    <2> QED
      BY <1>3, <2>1, FS_Subset, FS_CardinalityType
  <1>5. rows' = rows \o new
    BY DEF InsertItems
  <1>6. ASSUME NEW n \in 1 .. Cardinality(N) PROVE NthNew(r, n) \in N /\ Rank(N, NthNew(r, n)) = n
    <2>1. \E k \in N : Rank(N, k) = n
      <3> HIDE DEF N
      <3> QED
        BY <1>3, <1>4, RankOnto
    <2> QED
      BY <2>1 DEF NthNew, Rank
  <1>7. ASSUME NEW k \in N PROVE Rank(N, k) \in 1 .. Cardinality(N) /\ NthNew(r, Rank(N, k)) = k
    <2>1. Rank(N, k) \in 1 .. Cardinality(N)
      <3> HIDE DEF N
      <3> QED
        BY <1>3, RankInRange
    <2>2. NthNew(r, Rank(N, k)) \in N /\ Rank(N, NthNew(r, Rank(N, k))) = Rank(N, k)
      BY <1>6, <2>1
    <2> QED
      <3> HIDE DEF N
      <3> QED
        BY <1>3, <2>1, <2>2, RankUnique
  <1>8. \A k \in N : ResultId(r, k) = Len(rows) + Rank(N, k)
    BY DEF ResultId, NewItems, Rank
  <1>9. /\ \A n \in 1 .. Cardinality(N) : new[n] = Stored(req[r].items[NthNew(r, n)])
        /\ DOMAIN new = 1 .. Cardinality(N) /\ Len(new) = Cardinality(N)
    BY <1>4
  <1>10. \E T : new \in Seq(T) /\ rows \in Seq(T)
    <2> WITNESS S \cup {new[n] : n \in 1 .. Cardinality(N)}
    <2> QED
      BY <1>1, <1>4
  <1> HIDE DEF new, N
  <1>11. /\ Len(rows') = Len(rows) + Cardinality(N)
         /\ DOMAIN rows' = 1 .. (Len(rows) + Cardinality(N))
         /\ \A n \in RowIds : rows'[n] = rows[n]
         /\ \A m \in 1 .. Cardinality(N) : rows'[Len(rows) + m] = new[m]
    <2>1. PICK T : new \in Seq(T) /\ rows \in Seq(T)
      BY <1>10
    <2>2. /\ rows' \in Seq(T) /\ Len(rows') = Len(rows) + Len(new)
          /\ \A i \in 1 .. Len(rows) + Len(new) : rows'[i] =
                 IF i <= Len(rows) THEN rows[i] ELSE new[i - Len(rows)]
      BY <1>5, <2>1, ConcatProperties
    <2> QED
      BY <1>0, <1>4, <1>9, <2>2
  <1>12. ASSUME NEW n \in DOMAIN rows' \ RowIds
         PROVE \E k \in N : rows'[n] = Stored(req[r].items[k])
    <2>1. n - Len(rows) \in 1 .. Cardinality(N) /\ n = Len(rows) + (n - Len(rows))
      BY <1>0, <1>4, <1>11
    <2>2. rows'[n] = new[n - Len(rows)]
      BY <1>11, <2>1
    <2> QED
      BY <1>6, <1>9, <2>1, <2>2
  <1>13. \A n \in RowIds : n \in DOMAIN rows'
    BY <1>0, <1>4, <1>11
  <1>14. ASSUME NEW k \in N
         PROVE  ResultId(r, k) \in DOMAIN rows' /\ rows'[ResultId(r, k)] = Stored(req[r].items[k])
    <2>1. Rank(N, k) \in 1 .. Cardinality(N) /\ NthNew(r, Rank(N, k)) = k
      BY <1>7
    <2>2. rows'[Len(rows) + Rank(N, k)] = Stored(req[r].items[k])
      BY <1>9, <1>11, <2>1
    <2>3. Len(rows) + Rank(N, k) \in DOMAIN rows'
      BY <1>0, <1>4, <1>11, <2>1
    <2> QED
      BY <1>8, <2>2, <2>3
  <1> QED
    BY <1>11, <1>12, <1>13, <1>14 DEF N

LEMMA InsertAnswers ==
    ASSUME GraphInv, NEW r \in Requests, Logging(r), InsertItems(r)
    PROVE  AnsweredRight(r)'
  <1>0. ShapeInv /\ IntoInv
    BY DEF GraphInv
  <1>1. /\ req[r].pc = "insert" /\ UNCHANGED into
        /\ req'[r].items = req[r].items
        /\ req'[r].ids = [k \in DOMAIN req[r].items |-> ResultId(r, k)]
    BY <1>0 DEF InsertItems, ShapeInv, ReqFields
  <1>2. /\ \A k \in DOMAIN req[r].items : req[r].items[k].entity \in Entities
        /\ DOMAIN req[r].items = DOMAIN req[r].ids
    BY <1>1 DEF Logging
  <1> SUFFICES ASSUME NEW k \in DOMAIN req[r].items
               PROVE  Holds(req[r].ids[k], req[r].items[k])'
    BY <1>1 DEF AnsweredRight
  <1>3. PICK item, id : item = req[r].items[k] /\ id = ResultId(r, k)
    OBVIOUS
  <1>4. req'[r].ids[k] = id /\ req'[r].items[k] = item
    BY <1>1, <1>3
  <1>5. CASE req[r].ids[k] = 0
    <2>1. k \in NewItems(r)
      BY <1>5 DEF NewItems
    <2>2. id \in DOMAIN rows' /\ rows'[id] = Stored(item)
      BY <1>3, <2>1, InsertedRows
    <2>3. /\ rows'[id].api = item.api /\ rows'[id].ref = item.ref /\ rows'[id].action = item.action
          /\ rows'[id].good = item.good /\ rows'[id].day = item.day /\ rows'[id].entity = item.entity
      BY <2>2 DEF Stored
    <2> QED
      BY <1>2, <1>3, <1>4, <2>2, <2>3 DEF Holds, RowIds
  <1>6. CASE req[r].ids[k] # 0
    <2>1. Found(r, k)
      BY <1>2 DEF Logging
    <2>2. id \in RowIds /\ item.ref # NoRef /\ rows[id].api = item.api /\ rows[id].ref = item.ref
      BY <1>3, <1>6, <2>1 DEF Found, ResultId
    <2>3. id \in DOMAIN rows' /\ rows'[id] = rows[id]
      BY <2>2, InsertedRows
    <2> QED
      BY <1>4, <2>2, <2>3 DEF Holds, RowIds
  <1> QED
    BY <1>5, <1>6

(* Requests that do not log answer nothing that LogInv speaks of. *)
Idle(r) == /\ req[r].pc \notin {"entities", "dedupe", "insert"}
           /\ req[r].answer \notin {"created", "existing"}

LEMMA OthersDoNotLog ==
    ASSUME ShapeInv, SilentInv, NEW r \in Requests,
           \/ StartRecommend(r) \/ StartFeedback(r) \/ FetchInteractionStats(r)
           \/ FetchFeedbackWeights(r) \/ FetchRecommendation(r) \/ FetchOutcome(r) \/ Fails(r)
           \/ Recommend(r) \/ UpdateFeedback(r)
    PROVE  Idle(r)'
  <1>1. CASE StartRecommend(r)
    BY <1>1, StartRecommendShape DEF Idle
  <1>2. CASE StartFeedback(r)
    BY <1>2, StartFeedbackShape DEF Idle
  <1>3. CASE FetchInteractionStats(r) \/ FetchFeedbackWeights(r)
    BY <1>3 DEF FetchInteractionStats, FetchFeedbackWeights, Goto, ShapeInv, ReqFields, SilentInv, Idle
  <1>4. CASE FetchRecommendation(r) \/ FetchOutcome(r)
    <2>1. req[r].pc # "done" /\ req[r].answer = "none"
      BY <1>4 DEF FetchRecommendation, FetchOutcome, SilentInv
    <2>2. CASE FetchRecommendation(r)
      <3>1. /\ req'[r].pc \in {"update", "outcome", "done"}
            /\ req'[r].answer \in {"none", "not_found"}
        BY <2>1, <2>2 DEF FetchRecommendation, Reply, ShapeInv, ReqFields
      <3> QED
        BY <3>1 DEF Idle
    <2>3. CASE FetchOutcome(r)
      <3>1. req'[r].pc \in {"update", "done"} /\ req'[r].answer \in {"none", "mismatch"}
        BY <2>1, <2>3 DEF FetchOutcome, Goto, Reply, ShapeInv, ReqFields
      <3> QED
        BY <3>1 DEF Idle
    <2> QED
      BY <1>4, <2>2, <2>3
  <1>5. CASE Fails(r) \/ UpdateFeedback(r)
    BY <1>5 DEF Fails, UpdateFeedback, Reply, ShapeInv, ReqFields, Idle
  <1>6. CASE Recommend(r)
    BY <1>6 DEF Recommend, NewReq, ShapeInv, Idle
  <1> QED
    BY <1>1, <1>2, <1>3, <1>4, <1>5, <1>6

LEMMA LogStep == GraphInv /\ SilentInv /\ LogInv /\ [Next]_vars => LogInv'
  <1> SUFFICES ASSUME GraphInv, SilentInv, LogInv, [Next]_vars PROVE LogInv'
    OBVIOUS
  <1>0. ShapeInv
    BY DEF GraphInv
  <1> DEFINE Knows(r) == /\ req[r].pc \in {"entities", "dedupe", "insert"} => Logging(r)
                         /\ req[r].answer \in {"created", "existing"} => AnsweredRight(r)
             Same(r) == /\ req'[r].pc = req[r].pc /\ req'[r].kind = req[r].kind
                        /\ req'[r].items = req[r].items /\ req'[r].ids = req[r].ids
                        /\ req'[r].known = req[r].known /\ req'[r].answer = req[r].answer
  <1>1. ASSUME NEW q \in Requests, Same(q) PROVE Knows(q)'
    <2>1. Knows(q)
      BY DEF LogInv
    <2>2. \A n \in RowIds : RowKept(n)
      BY RowsAreKept
    <2> QED
      BY <1>1, <2>1, <2>2, LogKept
  <1>2. ASSUME NEW r \in Requests, Idle(r)' PROVE Knows(r)'
    BY <1>2 DEF Idle
  <1>3. ASSUME NEW r \in Requests, StartLog(r) PROVE Knows(r)'
    BY <1>0, <1>3, StartLogShape, StartLogKnows
  <1>4. ASSUME NEW r \in Requests, CheckEntities(r) PROVE Knows(r)'
    <2>1. Logging(r) /\ req[r].answer = "none"
      BY <1>4 DEF CheckEntities, LogInv, SilentInv
    <2>2. \/ req'[r].pc = "dedupe" /\ req'[r].answer = "none"
          \/ req'[r].pc = "done" /\ req'[r].answer = "not_found"
      BY <1>0, <1>4, <2>1 DEF CheckEntities, Goto, Reply, ShapeInv, ReqFields
    <2>3. req'[r].pc # "done" => Logging(r)'
      BY <1>4, <2>1, CheckEntitiesKnows
    <2> QED
      BY <2>2, <2>3
  <1>5. ASSUME NEW r \in Requests, Dedupe(r) PROVE Knows(r)'
    <2>1. Logging(r)
      BY <1>5 DEF Dedupe, LogInv
    <2>2. PICK id :
              /\ req'[r].pc = IF req[r].kind = "log" /\ id # 0 THEN "done"
                              ELSE IF Len(req[r].ids) + 1 = Len(req[r].items) THEN "insert"
                              ELSE "dedupe"
              /\ req'[r].answer = IF req[r].kind = "log" /\ id # 0 THEN "existing" ELSE "none"
      BY <1>0, <1>5, DedupeShape, Zenon
    <2>3. \/ req'[r].pc \in {"insert", "dedupe"} /\ req'[r].answer = "none"
          \/ req'[r].pc = "done"
      BY <2>2
    <2> QED
      BY <1>5, <2>1, <2>3, DedupeKnows
  <1>6. ASSUME NEW r \in Requests, InsertItems(r) PROVE Knows(r)'
    <2>1. Logging(r)
      BY <1>6 DEF InsertItems, LogInv
    <2>2. req'[r].pc = "done"
      BY <1>0, <1>6 DEF InsertItems, ShapeInv, ReqFields
    <2> QED
      BY <1>6, <2>1, <2>2, InsertAnswers
  <1>7. ASSUME NEW r \in Requests,
               ReqStep(r) \/ InsertItems(r) \/ Recommend(r) \/ UpdateFeedback(r)
        PROVE  LogInv'
    <2>1. \A q \in Requests \ {r} : req'[q] = req[q]
      <3>1. CASE ReqStep(r)
        BY <1>0, <3>1, ReqStepOwn
      <3>2. CASE InsertItems(r) \/ Recommend(r) \/ UpdateFeedback(r)
        BY <1>0, <3>2 DEF InsertItems, Recommend, UpdateFeedback, Reply, ShapeInv
      <3> QED
        BY <1>7, <3>1, <3>2
    <2>2. \A q \in Requests \ {r} : Same(q)
      BY <2>1
    <2>3. Knows(r)'
      <3> HIDE DEF Knows
      <3> QED
        BY <1>0, <1>2, <1>3, <1>4, <1>5, <1>6, <1>7, OthersDoNotLog DEF ReqStep
    <2>4. \A q \in Requests : Knows(q)'
      <3> HIDE DEF Knows, Same
      <3> QED
        BY <1>1, <2>2, <2>3
    <2> QED
      BY <2>4 DEF LogInv
  <1>8. ASSUME \A q \in Requests : Same(q) PROVE LogInv'
    <2>1. \A q \in Requests : Knows(q)'
      <3> HIDE DEF Knows, Same
      <3> QED
        BY <1>1, <1>8
    <2> QED
      BY <2>1 DEF LogInv
  <1>9. ASSUME NEW c \in Entities, NEW e \in Entities, Merge(c, e) PROVE \A q \in Requests : Same(q)
    BY <1>0, <1>9 DEF Merge, ShapeInv, ReqFields
  <1>10. ASSUME NEW r \in Requests, PersistRecommendation(r) \/ PersistFails(r) PROVE req' = req
    BY <1>10 DEF PersistRecommendation, PersistFails
  <1>11. UNCHANGED vars => req' = req
    BY DEF vars
  <1>12. req' = req => \A q \in Requests : Same(q)
    OBVIOUS
  <1> HIDE DEF Same
  <1> QED
    BY <1>7, <1>8, <1>9, <1>10, <1>11, <1>12 DEF Next, Step, ReqStep

LEMMA LogInvariant == Spec => [](GraphInv /\ SilentInv /\ LogInv)
  <1>1. Init => SilentInv /\ LogInv
    <2> SUFFICES ASSUME Init PROVE SilentInv /\ LogInv
      OBVIOUS
    <2>1. \A r \in Requests : req[r].pc = "new" /\ req[r].answer = "none"
      BY DEF Init, NewReq
    <2> QED
      BY <2>1 DEF SilentInv, LogInv
  <1>2. GraphInv /\ SilentInv /\ LogInv /\ [Next]_vars => SilentInv' /\ LogInv'
    BY SilentStep, LogStep
  <1> QED
    BY <1>1, <1>2, GraphInvariant, PTL DEF Spec

(* For batches of any size, with any duplicates in the table and merges in    *)
(* between: every id answered for an item is that of a row with the item's   *)
(* reference or, without one, of the item's own row.                        *)
THEOREM AnswersAreRight == Spec => []AnswersNameTheirRows
  <1>1. LogInv => AnswersNameTheirRows
    BY DEF LogInv, AnsweredRight, Holds, AnswersNameTheirRows, Key
  <1> QED
    BY <1>1, LogInvariant, PTL

(* For batches of any size: no request inserts a row with a reference that    *)
(* was in the table when it came.                                           *)
THEOREM KnownStayOut == Spec => KnownRefsNotRelogged
  <1> DEFINE NotRelogged ==
                 \A r \in Requests : req[r].pc = "insert" /\ req'[r].pc = "done" =>
                     \A n \in DOMAIN rows' \ RowIds :
                         rows'[n].ref # NoRef => Key(rows'[n]) \notin req[r].known
  <1>1. GraphInv /\ LogInv /\ [Next]_vars => [NotRelogged]_vars
    <2> SUFFICES ASSUME GraphInv, LogInv, [Next]_vars, NEW r \in Requests, req[r].pc = "insert",
                        req'[r].pc = "done", NEW n \in DOMAIN rows' \ RowIds, rows'[n].ref # NoRef
                 PROVE  Key(rows'[n]) \notin req[r].known
      OBVIOUS
    <2>0. ShapeInv
      BY DEF GraphInv
    <2>1. PICK q \in Requests : InsertItems(q)
      <3>1. ASSUME UNCHANGED RowIds PROVE FALSE
        BY <3>1 DEF RowIds
      <3>2. ASSUME NEW q \in Requests,
                   \/ ReqStep(q) \/ Recommend(q) \/ UpdateFeedback(q)
                   \/ PersistRecommendation(q) \/ PersistFails(q)
            PROVE  UNCHANGED RowIds
        BY <3>2, ReqStepTables DEF Recommend, UpdateFeedback, PersistRecommendation, PersistFails,
                                   tables, RowIds
      <3>3. ASSUME NEW c \in Entities, NEW e \in Entities, Merge(c, e) PROVE UNCHANGED RowIds
        BY <3>3 DEF Merge, RowIds
      <3>4. UNCHANGED vars => UNCHANGED RowIds
        BY DEF vars, RowIds
      <3> QED
        BY <3>1, <3>2, <3>3, <3>4 DEF Next, Step, ReqStep
    <2>2. q = r
      BY <2>0, <2>1 DEF InsertItems, ShapeInv
    <2>3. Logging(r)
      BY DEF LogInv
    <2>4. PICK k \in NewItems(r) : rows'[n] = Stored(req[r].items[k])
      BY <2>1, <2>2, <2>3, InsertedRows
    <2>5. rows'[n].api = req[r].items[k].api /\ rows'[n].ref = req[r].items[k].ref
      BY <2>4 DEF Stored
    <2>6. k \in DOMAIN req[r].ids /\ req[r].ids[k] = 0 /\ Found(r, k)
      BY <2>3, <2>4 DEF NewItems, Logging
    <2> QED
      BY <2>5, <2>6 DEF Found, Key
  <1> HIDE DEF NotRelogged
  <1>2. Spec => [][NotRelogged]_vars
    BY <1>1, LogInvariant, PTL DEF Spec
  <1> QED
    BY <1>2 DEF KnownRefsNotRelogged, NotRelogged

-----------------------------------------------------------------------------
(* The ranking of recommendations (scorer.go): what one more outcome does.    *)

HIDE GraphAssumption

LEMMA DivAtLeast ==
    ASSUME NEW a \in Nat, NEW d \in Nat \ {0}, NEW w \in Nat, a >= d * w
    PROVE  a \div d >= w
  <1> DEFINE q == a \div d
  <1>1. q \in Int /\ a < d * (q + 1)
    OBVIOUS
  <1>2. CASE q < w
    <2>1. q + 1 <= w /\ q + 1 \in Int
      BY <1>1, <1>2
    <2>2. d * (q + 1) <= d * w
      <3>1. \A x, y \in Int : x <= y => d * x <= d * y
        OBVIOUS
      <3> HIDE DEF q
      <3> QED
        BY <1>1, <2>1, <3>1
    <2>3. d * (q + 1) \in Int /\ d * w \in Int
      <3> HIDE DEF q
      <3> QED
        BY <1>1
    <2> HIDE DEF q
    <2> QED
      BY <1>1, <2>2, <2>3
  <1>3. CASE ~ q < w
    BY <1>1, <1>3
  <1> QED
    BY <1>2, <1>3

LEMMA DivIs ==
    ASSUME NEW a \in Nat, NEW d \in Nat \ {0}
    PROVE  a \div d \in Nat /\ d * (a \div d) <= a
  OBVIOUS

LEMMA UnitIs == Unit \in Nat /\ Unit > 0
  BY SMT DEF Unit

(* The share of Unit that s of t are. *)
Share(s, t) == (s * Unit) \div t

(* One more success does not lower a rate, one more failure does not raise it. *)
LEMMA RateMoves ==
    ASSUME NEW s \in Nat, NEW t \in Nat \ {0}, s <= t
    PROVE  /\ Share(s, t) \in Nat /\ Share(s + 1, t + 1) \in Nat /\ Share(s, t + 1) \in Nat
           /\ Share(s, t) <= Share(s + 1, t + 1)
           /\ Share(s, t + 1) <= Share(s, t)
  <1>0. Unit \in Nat /\ s * Unit \in Nat /\ (s + 1) * Unit \in Nat /\ t + 1 \in Nat \ {0}
        /\ (s + 1) * Unit = s * Unit + Unit /\ s * Unit <= t * Unit /\ t * Unit \in Nat
    BY UnitIs
  <1>1. /\ Share(s, t) \in Nat /\ t * Share(s, t) <= s * Unit
        /\ Share(s + 1, t + 1) \in Nat
        /\ Share(s, t + 1) \in Nat /\ (t + 1) * Share(s, t + 1) <= s * Unit
    <2> QED
      BY <1>0, DivIs DEF Share
  <1>2. PICK x \in Nat : x = Share(s, t)
    BY <1>1
  <1>3. PICK z \in Nat : z = Share(s, t + 1)
    BY <1>1
  <1>4. x <= Unit
    <2> SUFFICES ASSUME ~ x <= Unit PROVE FALSE
      OBVIOUS
    <2>1. Unit + 1 <= x
      BY <1>0, <1>2
    <2>2. t * (Unit + 1) <= t * x
      <3>1. \A y, v \in Nat : y <= v => t * y <= t * v
        OBVIOUS
      <3> QED
        BY <1>0, <2>1, <3>1
    <2>3. t * (Unit + 1) = t * Unit + t /\ t * x \in Nat
      BY <1>0
    <2> QED
      BY <1>0, <1>1, <1>2, <2>2, <2>3
  <1>5. (s + 1) * Unit >= (t + 1) * x
    <2>1. (t + 1) * x = t * x + x /\ t * x \in Nat
      OBVIOUS
    <2> QED
      BY <1>0, <1>1, <1>2, <1>4, <2>1
  <1>6. s * Unit >= t * z
    <2>1. (t + 1) * z = t * z + z /\ t * z \in Nat
      OBVIOUS
    <2> QED
      BY <1>0, <1>1, <1>3, <2>1
  <1>7. Share(s + 1, t + 1) >= x
    BY <1>0, <1>5, DivAtLeast DEF Share
  <1>8. Share(s, t) >= z
    BY <1>0, <1>6, DivAtLeast DEF Share
  <1> QED
    BY <1>1, <1>2, <1>3, <1>7, <1>8

(* Rounding, bounds and weights keep the order. *)
LEMMA RoundKeeps ==
    ASSUME NEW v \in Int, NEW w \in Int, v <= w
    PROVE  Round4(v) \in Int /\ Round4(w) \in Int /\ Round4(v) <= Round4(w)
  BY DEF Round4

LEMMA ClampKeeps ==
    ASSUME NEW v \in Int, NEW w \in Int, NEW lo \in Int, NEW hi \in Int, lo <= hi, v <= w
    PROVE  Clamp(v, lo, hi) \in Int /\ Clamp(w, lo, hi) \in Int /\ Clamp(v, lo, hi) <= Clamp(w, lo, hi)
  BY DEF Clamp

LEMMA TimesKeeps ==
    ASSUME NEW m \in Nat, NEW v \in Int, NEW w \in Int, v <= w
    PROVE  m * v \in Int /\ m * w \in Int /\ m * v <= m * w
  OBVIOUS

LEMMA PercentKeeps ==
    ASSUME NEW v \in Int, NEW w \in Int, v <= w
    PROVE  v \div 100 \in Int /\ w \div 100 \in Int /\ v \div 100 <= w \div 100
  OBVIOUS

Counted(feedback) == \A f \in feedback : f.followed \in Nat /\ f.succeeded \in Nat

LEMMA WeightTyped ==
    ASSUME NEW b, NEW feedback, Counted(feedback)
    PROVE  computeFeedbackWeight(b, feedback) \in Int
  <1> DEFINE found == {f \in feedback : f.api = b.api /\ f.action = b.action}
             f     == CHOOSE f \in found : TRUE
             v     == Unit + ((2 * f.succeeded - f.followed) * Unit) \div Larger(f.followed, 1)
  <1>1. CASE found = {}
    BY <1>1, UnitIs DEF computeFeedbackWeight
  <1>2. CASE found # {}
    <2>1. f \in found
      BY <1>2
    <2>2. f.followed \in Nat /\ f.succeeded \in Nat
      BY <2>1 DEF Counted
    <2>3. v \in Int
      <3>1. Larger(f.followed, 1) \in Nat \ {0}
        BY <2>2 DEF Larger
      <3>2. (2 * f.succeeded - f.followed) * Unit \in Int
        BY <2>2, UnitIs
      <3>3. \A x \in Int, d \in Nat \ {0} : x \div d \in Int
        OBVIOUS
      <3> QED
        BY <3>1, <3>2, <3>3, UnitIs
    <2>4. computeFeedbackWeight(b, feedback) = Clamp(v, FeedbackBounds.min, FeedbackBounds.max)
      BY <1>2, Zenon DEF computeFeedbackWeight
    <2>5. FeedbackBounds.min \in Int /\ FeedbackBounds.max \in Int
      BY UnitIs DEF FeedbackBounds
    <2> HIDE DEF v
    <2> QED
      BY <2>3, <2>4, <2>5 DEF Clamp
  <1> QED
    BY <1>1, <1>2

LEMMA WeightOfPair ==
    ASSUME NEW a, NEW b, NEW feedback, a.api = b.api, a.action = b.action
    PROVE  computeFeedbackWeight(a, feedback) = computeFeedbackWeight(b, feedback)
  BY DEF computeFeedbackWeight

(* What a bucket of rows that were logged up to today looks like. *)
Sound(b) ==
    /\ b.total \in Nat \ {0} /\ b.successes \in Nat /\ b.successes <= b.total
    /\ b.lastSuccess \in (0 .. Today) \cup {-1}

LEMMA RecencyTyped ==
    ASSUME NEW b, Sound(b)
    PROVE  computeRecency(b) \in 0 .. Unit
  <1>1. CASE b.lastSuccess = -1
    BY <1>1, UnitIs DEF computeRecency
  <1>2. CASE b.lastSuccess \in 0 .. Today
    <2>1. Today - b.lastSuccess \in 0 .. Today
      BY <1>2, ScorerAssumption
    <2>2. Recency[Today - b.lastSuccess] \in 0 .. Unit
      BY <2>1, ScorerAssumption
    <2>3. b.lastSuccess # -1
      BY <1>2, ScorerAssumption
    <2> QED
      BY <2>2, <2>3 DEF computeRecency
  <1> QED
    BY <1>1, <1>2 DEF Sound

(* A bucket of the same action with no lower a rate and no older a success *)
(* scores no less. *)
LEMMA CompositeMoves ==
    ASSUME NEW a, NEW b, NEW feedback, Counted(feedback), Sound(a), Sound(b),
           a.api = b.api, a.action = b.action,
           Share(a.successes, a.total) <= Share(b.successes, b.total),
           computeRecency(a) <= computeRecency(b)
    PROVE  /\ Composite(a, feedback) \in Int /\ Composite(b, feedback) \in Int
           /\ Composite(a, feedback) <= Composite(b, feedback)
  <1> DEFINE rate(x)   == Share(x.successes, x.total)
             points(x) == Weight.rate * rate(x) + Weight.recency * computeRecency(x)
                            + Weight.feedback * (computeFeedbackWeight(x, feedback) - Unit)
  <1>1. rate(a) \in Int /\ rate(b) \in Int
    <2>1. /\ a.successes \in Nat /\ a.total \in Nat \ {0} /\ a.successes <= a.total
          /\ b.successes \in Nat /\ b.total \in Nat \ {0} /\ b.successes <= b.total
      BY DEF Sound
    <2>2. Share(a.successes, a.total) \in Nat
      BY <2>1, RateMoves
    <2>3. Share(b.successes, b.total) \in Nat
      BY <2>1, RateMoves
    <2> QED
      BY <2>2, <2>3
  <1>2. computeRecency(a) \in Int /\ computeRecency(b) \in Int
    BY RecencyTyped
  <1>3. computeFeedbackWeight(a, feedback) \in Int
        /\ computeFeedbackWeight(a, feedback) = computeFeedbackWeight(b, feedback)
    BY WeightTyped, WeightOfPair
  <1>4. PICK d \in Int : d = computeFeedbackWeight(a, feedback) - Unit
    BY <1>3, UnitIs
  <1>5. Weight.rate * rate(a) \in Int /\ Weight.rate * rate(b) \in Int
        /\ Weight.rate * rate(a) <= Weight.rate * rate(b)
    <2> HIDE DEF rate
    <2>1. rate(a) <= rate(b)
      BY DEF rate
    <2> QED
      BY <1>1, <2>1, TimesKeeps, ScorerAssumption
  <1>6. Weight.recency * computeRecency(a) \in Int /\ Weight.recency * computeRecency(b) \in Int
        /\ Weight.recency * computeRecency(a) <= Weight.recency * computeRecency(b)
    BY <1>2, TimesKeeps, ScorerAssumption
  <1>7. Weight.feedback * d \in Int
    BY <1>4, TimesKeeps, ScorerAssumption
  <1>8. points(a) \in Int /\ points(b) \in Int /\ points(a) <= points(b)
    <2>1. computeFeedbackWeight(b, feedback) - Unit = d /\ computeFeedbackWeight(a, feedback) - Unit = d
      BY <1>3, <1>4
    <2> HIDE DEF rate
    <2> QED
      BY <1>5, <1>6, <1>7, <2>1
  <1>9. /\ Composite(a, feedback) = Round4(Clamp(points(a) \div 100, 0, Unit))
        /\ Composite(b, feedback) = Round4(Clamp(points(b) \div 100, 0, Unit))
    <2>1. Larger(a.total, 1) = a.total /\ Larger(b.total, 1) = b.total
      BY DEF Sound, Larger
    <2> QED
      BY <2>1 DEF Composite, Share
  <1> HIDE DEF points
  <1>10. /\ points(a) \div 100 \in Int /\ points(b) \div 100 \in Int
         /\ points(a) \div 100 <= points(b) \div 100
    BY <1>8, PercentKeeps
  <1>11. 0 \in Int /\ Unit \in Int /\ 0 <= Unit
    BY UnitIs
  <1>12. /\ Clamp(points(a) \div 100, 0, Unit) \in Int /\ Clamp(points(b) \div 100, 0, Unit) \in Int
         /\ Clamp(points(a) \div 100, 0, Unit) <= Clamp(points(b) \div 100, 0, Unit)
    BY <1>10, <1>11, ClampKeeps
  <1> QED
    BY <1>9, <1>12, RoundKeeps

-----------------------------------------------------------------------------
(* The order of the entries *)

LEMMA BeforeMoves ==
    ASSUME NEW a, NEW b, NEW c, NEW feedback, Sound(a), Sound(b), Sound(c),
           Composite(a, feedback) \in Int, Composite(b, feedback) \in Int,
           Composite(c, feedback) \in Int, Composite(b, feedback) <= Composite(c, feedback),
           b.successes <= c.successes, computeRecency(b) <= computeRecency(c),
           Before(a, c, feedback)
    PROVE  Before(a, b, feedback)
  <1>1. /\ computeRecency(a) \in Int /\ computeRecency(b) \in Int /\ computeRecency(c) \in Int
    BY RecencyTyped, UnitIs
  <1>2. /\ Round4(computeRecency(a)) \in Int /\ Round4(computeRecency(b)) \in Int
        /\ Round4(computeRecency(c)) \in Int
        /\ Round4(computeRecency(b)) <= Round4(computeRecency(c))
    BY <1>1, RoundKeeps
  <1>3. a.successes \in Int /\ b.successes \in Int /\ c.successes \in Int
    BY DEF Sound
  <1> QED
    BY <1>2, <1>3 DEF Before

LEMMA NotBeforeItself ==
    ASSUME NEW a, NEW feedback, Counted(feedback), Sound(a)
    PROVE  ~ Before(a, a, feedback)
  <1>1. Share(a.successes, a.total) \in Int /\ computeRecency(a) \in Int
    BY RateMoves, RecencyTyped, UnitIs DEF Sound
  <1>2. Composite(a, feedback) \in Int
    BY <1>1, CompositeMoves
  <1>3. Round4(computeRecency(a)) \in Int
    BY <1>1, RoundKeeps
  <1>4. a.successes \in Int
    BY DEF Sound
  <1> QED
    BY <1>2, <1>3, <1>4 DEF Before

-----------------------------------------------------------------------------
(* The buckets *)

LEMMA NewestIs ==
    ASSUME NEW D \in SUBSET (0 .. Today), D # {}
    PROVE  Newest(D) \in D /\ \A d \in D : d <= Newest(D)
  <1> DEFINE R    == {p \in Nat \X Nat : p[1] < p[2]}
             T    == {Today - d : d \in D}
             Top(d) == \A x \in D : x <= d
  <1>0. Today \in Nat
    BY ScorerAssumption
  <1>1. IsWellFoundedOn(R, Nat)
    <2>1. R = OpToRel(<, Nat)
      BY DEF OpToRel
    <2> QED
      BY <2>1, NatLessThanWellFounded
  <1>2. T \subseteq Nat /\ T # {}
    <2>1. \A d \in 0 .. Today : Today - d \in Nat
      BY <1>0
    <2>2. T # {}
      OBVIOUS
    <2>3. ASSUME NEW t \in T PROVE t \in Nat
      <3>1. PICK d \in D : t = Today - d
        OBVIOUS
      <3> QED
        BY <2>1, <3>1
    <2> QED
      BY <2>2, <2>3
  <1>3. \A t, u \in Nat : <<u, t>> \notin R => t <= u
    <2> SUFFICES ASSUME NEW t \in Nat, NEW u \in Nat, u < t PROVE <<u, t>> \in R
      OBVIOUS
    <2> DEFINE p == <<u, t>>
    <2>1. p \in Nat \X Nat /\ p[1] < p[2]
      OBVIOUS
    <2> QED
      BY <2>1
  <1>4. PICK t \in T : \A u \in T : t <= u
    <2> HIDE DEF R, T
    <2>1. \E t \in T : \A u \in T : <<u, t>> \notin R
      BY <1>1, <1>2, WFMin
    <2> QED
      BY <1>2, <1>3, <2>1
  <1>5. PICK d \in D : t = Today - d
    BY <1>4
  <1>6. Top(d)
    BY <1>0, <1>4, <1>5
  <1>7. Newest(D) = CHOOSE n \in D : Top(n)
    BY DEF Newest
  <1> HIDE DEF Top
  <1>8. Newest(D) \in D /\ Top(Newest(D))
    BY <1>6, <1>7
  <1> QED
    BY <1>8 DEF Top

Goods(M)    == {x \in M : x.good}
GoodDays(M) == {x.day : x \in Goods(M)}

LEMMA BucketFields ==
    ASSUME NEW M, NEW api, NEW action
    PROVE  /\ Bucket(M, api, action).api = api /\ Bucket(M, api, action).action = action
           /\ Bucket(M, api, action).total = Cardinality(M)
           /\ Bucket(M, api, action).successes = Cardinality(Goods(M))
           /\ Bucket(M, api, action).lastSuccess
                = IF Goods(M) = {} THEN -1 ELSE Newest(GoodDays(M))
  BY DEF Bucket, Goods, GoodDays

Logged(M) == IsFiniteSet(M) /\ \A x \in M : x.day \in 0 .. Today

LEMMA LastSuccessIs ==
    ASSUME NEW M, Logged(M), Goods(M) # {}
    PROVE  /\ Newest(GoodDays(M)) \in 0 .. Today
           /\ \A d \in GoodDays(M) : d <= Newest(GoodDays(M))
  <1>1. GoodDays(M) \in SUBSET (0 .. Today) /\ GoodDays(M) # {}
    BY DEF Logged, Goods, GoodDays
  <1> QED
    BY <1>1, NewestIs

LEMMA BucketSound ==
    ASSUME NEW M, NEW api, NEW action, Logged(M), M # {}
    PROVE  Sound(Bucket(M, api, action))
  <1>1. Goods(M) \subseteq M /\ IsFiniteSet(M)
    BY DEF Goods, Logged
  <1>2. /\ Cardinality(M) \in Nat /\ Cardinality(M) # 0 /\ Cardinality(Goods(M)) \in Nat
        /\ Cardinality(Goods(M)) <= Cardinality(M)
    BY <1>1, FS_Subset, FS_CardinalityType, FS_EmptySet
  <1>3. Goods(M) # {} => Newest(GoodDays(M)) \in 0 .. Today
    BY LastSuccessIs
  <1>4. /\ Bucket(M, api, action).total \in Nat \ {0}
        /\ Bucket(M, api, action).successes \in Nat
        /\ Bucket(M, api, action).successes <= Bucket(M, api, action).total
    BY <1>2, BucketFields
  <1>5. Bucket(M, api, action).lastSuccess \in (0 .. Today) \cup {-1}
    BY <1>3, BucketFields
  <1> QED
    BY <1>4, <1>5 DEF Sound

(* One more row of today, a success or a failure. *)
Better(b, c) ==
    /\ b.successes <= c.successes
    /\ Share(b.successes, b.total) <= Share(c.successes, c.total)
    /\ computeRecency(b) <= computeRecency(c)

LEMMA OneMore ==
    ASSUME NEW M, NEW api, NEW action, Logged(M), M # {},
           NEW x, x \notin M, x.day = Today, x.good \in BOOLEAN
    PROVE  /\ Sound(Bucket(M, api, action)) /\ Sound(Bucket(M \cup {x}, api, action))
           /\ x.good => Better(Bucket(M, api, action), Bucket(M \cup {x}, api, action))
           /\ ~x.good => Better(Bucket(M \cup {x}, api, action), Bucket(M, api, action))
  <1> DEFINE N == M \cup {x}
  <1>0. Today \in Nat /\ Today \in 0 .. Today
    BY ScorerAssumption
  <1>1. IsFiniteSet(M) /\ Logged(N) /\ N # {} /\ Cardinality(N) = Cardinality(M) + 1
    BY <1>0, FS_AddElement DEF Logged
  <1>b. PICK b : b = Bucket(M, api, action)
    OBVIOUS
  <1>c. PICK c : c = Bucket(N, api, action)
    OBVIOUS
  <1>2. Sound(b) /\ Sound(c)
    BY <1>1, <1>b, <1>c, BucketSound
  <1>3. /\ b.total = Cardinality(M) /\ c.total = b.total + 1
        /\ b.successes = Cardinality(Goods(M)) /\ c.successes = Cardinality(Goods(N))
        /\ b.lastSuccess = IF Goods(M) = {} THEN -1 ELSE Newest(GoodDays(M))
        /\ c.lastSuccess = IF Goods(N) = {} THEN -1 ELSE Newest(GoodDays(N))
    <2> HIDE DEF N
    <2> QED
      BY <1>1, <1>b, <1>c, BucketFields
  <1>4. /\ b.successes \in Nat /\ b.total \in Nat \ {0} /\ b.successes <= b.total
    BY <1>2 DEF Sound
  <1>5. ASSUME x.good PROVE Better(b, c)
    <2>1. Goods(N) = Goods(M) \cup {x} /\ x \notin Goods(M) /\ IsFiniteSet(Goods(M))
      BY <1>1, <1>5, FS_Subset DEF Goods
    <2>2. c.successes = b.successes + 1
      BY <1>3, <2>1, FS_AddElement
    <2>3. c.lastSuccess = Today
      <3>1. Goods(N) # {} /\ x \in Goods(N)
        BY <2>1
      <3>a. Today \in GoodDays(N)
        BY <3>1 DEF GoodDays
      <3>2. /\ Newest(GoodDays(N)) \in 0 .. Today
            /\ Today <= Newest(GoodDays(N))
        <4> HIDE DEF N
        <4> QED
          BY <1>1, <3>1, <3>a, LastSuccessIs
      <3>3. c.lastSuccess = Newest(GoodDays(N))
        BY <3>1, <1>3
      <3> QED
        BY <1>0, <3>2, <3>3
    <2>4. computeRecency(c) = Recency[0]
      BY <1>0, <2>3 DEF computeRecency
    <2>5. computeRecency(b) <= Recency[0]
      <3>1. CASE b.lastSuccess = -1
        <4>1. Recency[0] \in 0 .. Unit
          BY <1>0, ScorerAssumption
        <4> QED
          BY <3>1, <4>1, UnitIs DEF computeRecency
      <3>2. CASE b.lastSuccess # -1
        <4>1. Today - b.lastSuccess \in 0 .. Today /\ 0 \in 0 .. Today /\ 0 <= Today - b.lastSuccess
          BY <1>0, <1>2, <3>2 DEF Sound
        <4>2. computeRecency(b) = Recency[Today - b.lastSuccess]
          BY <3>2 DEF computeRecency
        <4> QED
          BY <4>1, <4>2, ScorerAssumption
      <3> QED
        BY <3>1, <3>2
    <2>6. Share(b.successes, b.total) <= Share(c.successes, c.total)
      BY <1>3, <1>4, <2>2, RateMoves
    <2>7. b.successes <= c.successes
      BY <1>4, <2>2
    <2> QED
      <3>1. computeRecency(b) <= computeRecency(c)
        BY <2>4, <2>5, Zenon
      <3> QED
        BY <2>6, <2>7, <3>1, Zenon DEF Better
  <1>6. ASSUME ~x.good PROVE Better(c, b)
    <2>1. Goods(N) = Goods(M)
      BY <1>6 DEF Goods
    <2>2. c.successes = b.successes /\ c.lastSuccess = b.lastSuccess
      <3>1. GoodDays(N) = GoodDays(M)
        BY <2>1 DEF GoodDays
      <3> HIDE DEF N
      <3> QED
        BY <1>3, <2>1, <3>1
    <2>3. Share(c.successes, c.total) <= Share(b.successes, b.total)
      <3>1. Share(b.successes, b.total + 1) <= Share(b.successes, b.total)
        BY <1>4, RateMoves
      <3>2. c.total = b.total + 1
        BY <1>3
      <3> QED
        BY <2>2, <3>1, <3>2, Zenon
    <2>4. computeRecency(c) = computeRecency(b)
      BY <2>2 DEF computeRecency
    <2>5. computeRecency(b) \in Int
      BY <1>2, RecencyTyped, UnitIs
    <2> QED
      BY <1>4, <2>2, <2>3, <2>4, <2>5 DEF Better
  <1> QED
    BY <1>b, <1>c, <1>2, <1>5, <1>6

-----------------------------------------------------------------------------
(* The buckets of a set of rows *)

PairOf(x)  == <<x.api, x.action>>
Recent(S)  == {x \in S : x.day > Today - Lookback}
Mine(S, p) == {x \in Recent(S) : PairOf(x) = p}
Its(S, p)  == Bucket(Mine(S, p), p[1], p[2])

InPairs(S, p)   == p \in {PairOf(x) : x \in Recent(S)}
Enough(S, p)    == InPairs(S, p) /\ Its(S, p).successes >= MinSuccess

LEMMA StatsAre ==
    ASSUME NEW S, NEW b
    PROVE  b \in InteractionStats(S, Lookback, MinSuccess)
             <=> \E p \in {PairOf(x) : x \in Recent(S)} :
                    b = Its(S, p) /\ Its(S, p).successes >= MinSuccess
  BY DEF InteractionStats, Its, Mine, Recent, PairOf

LEMMA PairsOfRows ==
    ASSUME NEW S, NEW p, InPairs(S, p)
    PROVE  /\ p = <<p[1], p[2]>> /\ Mine(S, p) # {}
           /\ Its(S, p).api = p[1] /\ Its(S, p).action = p[2]
  <1>1. PICK x \in Recent(S) : p = PairOf(x)
    BY DEF InPairs
  <1>2. x \in Mine(S, p)
    BY <1>1 DEF Mine
  <1>3. p = <<p[1], p[2]>>
    BY <1>1 DEF PairOf
  <1> QED
    BY <1>2, <1>3, BucketFields DEF Its

(* An action comes first when no other with enough successes is before it. *)
LEMMA FirstIs ==
    ASSUME NEW S, NEW feedback, NEW p
    PROVE  p \in Pairs(Primaries(InteractionStats(S, Lookback, MinSuccess), feedback))
             <=> /\ Enough(S, p)
                 /\ \A q : Enough(S, q) => ~Before(Its(S, q), Its(S, p), feedback)
  <1> DEFINE I == InteractionStats(S, Lookback, MinSuccess)
  <1>1. \A b : b \in I <=> \E q : Enough(S, q) /\ b = Its(S, q)
    BY StatsAre DEF Enough, InPairs
  <1>2. \A q : Enough(S, q) => q = <<Its(S, q).api, Its(S, q).action>>
    BY PairsOfRows DEF Enough
  <1>3. \A b : b \in Primaries(I, feedback)
                 <=> b \in I /\ \A a \in I : ~Before(a, b, feedback)
    BY DEF Primaries
  <1> HIDE DEF I
  <1>4. ASSUME p \in Pairs(Primaries(I, feedback))
        PROVE  /\ Enough(S, p)
               /\ \A q : Enough(S, q) => ~Before(Its(S, q), Its(S, p), feedback)
    <2>1. PICK b \in Primaries(I, feedback) : p = <<b.api, b.action>>
      BY <1>4 DEF Pairs
    <2>2. PICK q : Enough(S, q) /\ b = Its(S, q)
      BY <1>1, <1>3, <2>1
    <2>3. q = p
      BY <1>2, <2>1, <2>2, Zenon
    <2> QED
      BY <1>1, <1>3, <2>1, <2>2, <2>3, Zenon
  <1>5. ASSUME Enough(S, p),
               \A q : Enough(S, q) => ~Before(Its(S, q), Its(S, p), feedback)
        PROVE  p \in Pairs(Primaries(I, feedback))
    <2>1. Its(S, p) \in Primaries(I, feedback)
      <3>1. Its(S, p) \in I
        BY <1>1, <1>5, Zenon
      <3>2. ASSUME NEW c \in I PROVE ~Before(c, Its(S, p), feedback)
        <4>1. PICK q : Enough(S, q) /\ c = Its(S, q)
          BY <1>1, <3>2, Zenon
        <4> QED
          BY <1>5, <4>1, Zenon
      <3> QED
        BY <1>3, <3>1, <3>2, Zenon
    <2>2. p = <<Its(S, p).api, Its(S, p).action>>
      BY <1>2, <1>5, Zenon
    <2> QED
      BY <2>1, <2>2, Zenon DEF Pairs
  <1> QED
    BY <1>4, <1>5 DEF I

-----------------------------------------------------------------------------
(* One more row *)

Plus(S, x) == S \cup {x}

LEMMA Added ==
    ASSUME NEW S, Logged(S), NEW x, x \notin S, x.day = Today, x.good \in BOOLEAN,
           NEW p, p = PairOf(x), InPairs(S, p)
    PROVE  /\ Logged(Plus(S, x))
           /\ \A q : InPairs(Plus(S, x), q) <=> InPairs(S, q)
           /\ \A q : q # p => Its(Plus(S, x), q) = Its(S, q)
           /\ Mine(Plus(S, x), p) = Mine(S, p) \cup {x} /\ x \notin Mine(S, p)
           /\ \A q : InPairs(S, q) => Logged(Mine(S, q)) /\ Mine(S, q) # {} /\ Sound(Its(S, q))
  <1>0. Today \in Nat /\ Lookback \in Nat
    BY ScorerAssumption, SeededAssumption
  <1>1. PICK y \in S : y.day > Today - Lookback /\ PairOf(y) = p
    BY DEF InPairs, Recent
  <1>2. y.day \in 0 .. Today
    BY DEF Logged
  <1>3. x.day > Today - Lookback
    BY <1>0, <1>1, <1>2
  <1>4. Recent(Plus(S, x)) = Recent(S) \cup {x}
    BY <1>3 DEF Recent, Plus
  <1>5. \A q : InPairs(Plus(S, x), q) <=> InPairs(S, q)
    BY <1>4 DEF InPairs
  <1>6. \A q : q # p => Its(Plus(S, x), q) = Its(S, q)
    <2> SUFFICES ASSUME NEW q, q # p PROVE Mine(Plus(S, x), q) = Mine(S, q)
      BY DEF Its
    <2> QED
      BY <1>4 DEF Mine
  <1>7. Mine(Plus(S, x), p) = Mine(S, p) \cup {x} /\ x \notin Mine(S, p)
    BY <1>4 DEF Mine, Recent
  <1>8. Logged(Plus(S, x))
    BY <1>0, FS_AddElement DEF Logged, Plus
  <1>9. ASSUME NEW q, InPairs(S, q)
        PROVE  Logged(Mine(S, q)) /\ Mine(S, q) # {} /\ Sound(Its(S, q))
    <2>1. Mine(S, q) # {}
      BY <1>9, PairsOfRows
    <2>2. Mine(S, q) \subseteq S
      BY DEF Mine, Recent
    <2>3. Logged(Mine(S, q))
      BY <2>2, FS_Subset DEF Logged
    <2> QED
      BY <2>1, <2>3, BucketSound DEF Its
  <1> QED
    BY <1>5, <1>6, <1>7, <1>8, <1>9

(* The row moves the bucket of its action, and no other. *)
LEMMA MovesOne ==
    ASSUME NEW S, Logged(S), NEW x, x \notin S, x.day = Today, x.good \in BOOLEAN,
           NEW p, p = PairOf(x), InPairs(S, p), NEW feedback, Counted(feedback)
    PROVE  /\ Sound(Its(Plus(S, x), p))
           /\ x.good => /\ Better(Its(S, p), Its(Plus(S, x), p))
                        /\ Composite(Its(S, p), feedback)
                             <= Composite(Its(Plus(S, x), p), feedback)
           /\ ~x.good => /\ Better(Its(Plus(S, x), p), Its(S, p))
                         /\ Composite(Its(Plus(S, x), p), feedback)
                              <= Composite(Its(S, p), feedback)
           /\ Composite(Its(Plus(S, x), p), feedback) \in Int
           /\ \A q : InPairs(S, q) => Composite(Its(S, q), feedback) \in Int
  <1>1. /\ Logged(Mine(S, p)) /\ Mine(S, p) # {} /\ x \notin Mine(S, p)
        /\ Mine(Plus(S, x), p) = Mine(S, p) \cup {x} /\ Sound(Its(S, p))
    BY Added
  <1>2. /\ Sound(Its(Plus(S, x), p))
        /\ x.good => Better(Its(S, p), Its(Plus(S, x), p))
        /\ ~x.good => Better(Its(Plus(S, x), p), Its(S, p))
    BY <1>1, OneMore DEF Its
  <1>3. /\ Its(S, p).api = Its(Plus(S, x), p).api /\ Its(S, p).action = Its(Plus(S, x), p).action
    BY BucketFields DEF Its
  <1>4. ASSUME NEW a, Sound(a) PROVE Composite(a, feedback) \in Int
    <2>1. Share(a.successes, a.total) \in Int /\ computeRecency(a) \in Int
      BY <1>4, RateMoves, RecencyTyped, UnitIs DEF Sound
    <2> QED
      BY <1>4, <2>1, CompositeMoves
  <1>5. x.good => Composite(Its(S, p), feedback) <= Composite(Its(Plus(S, x), p), feedback)
    BY <1>1, <1>2, <1>3, CompositeMoves DEF Better
  <1>6. ~x.good => Composite(Its(Plus(S, x), p), feedback) <= Composite(Its(S, p), feedback)
    BY <1>1, <1>2, <1>3, CompositeMoves DEF Better
  <1>7. \A q : InPairs(S, q) => Composite(Its(S, q), feedback) \in Int
    BY <1>4, Added
  <1> QED
    BY <1>2, <1>4, <1>5, <1>6, <1>7

LEMMA SuccessKeepsFirst ==
    ASSUME NEW S, Logged(S), NEW x, x \notin S, x.day = Today, x.good = TRUE,
           NEW p, p = PairOf(x), NEW feedback, Counted(feedback),
           Enough(S, p), \A q : Enough(S, q) => ~Before(Its(S, q), Its(S, p), feedback)
    PROVE  /\ Enough(Plus(S, x), p)
           /\ \A q : Enough(Plus(S, x), q)
                        => ~Before(Its(Plus(S, x), q), Its(Plus(S, x), p), feedback)
  <1> DEFINE T == Plus(S, x)
  <1>0. InPairs(S, p) /\ x.good \in BOOLEAN
    BY DEF Enough
  <1>1. /\ \A q : InPairs(T, q) <=> InPairs(S, q)
        /\ \A q : q # p => Its(T, q) = Its(S, q)
        /\ \A q : InPairs(S, q) => Sound(Its(S, q))
    BY <1>0, Added
  <1>2. /\ Sound(Its(T, p)) /\ Better(Its(S, p), Its(T, p))
        /\ Composite(Its(S, p), feedback) <= Composite(Its(T, p), feedback)
        /\ Composite(Its(T, p), feedback) \in Int
        /\ \A q : InPairs(S, q) => Composite(Its(S, q), feedback) \in Int
    BY <1>0, MovesOne
  <1> HIDE DEF T
  <1>3. Enough(T, p)
    <2>1. Its(S, p).successes \in Nat /\ Its(T, p).successes \in Nat
      BY <1>0, <1>1, <1>2 DEF Sound
    <2> QED
      BY <1>0, <1>1, <1>2, <2>1, SeededAssumption DEF Enough, Better
  <1>4. ASSUME NEW q, Enough(T, q), Before(Its(T, q), Its(T, p), feedback) PROVE FALSE
    <2>1. CASE q = p
      BY <1>2, <1>4, <2>1, NotBeforeItself
    <2>2. CASE q # p
      <3>1. Its(T, q) = Its(S, q) /\ InPairs(S, q) /\ Enough(S, q)
        BY <1>1, <1>4, <2>2 DEF Enough
      <3>2. Before(Its(S, q), Its(S, p), feedback)
        BY <1>0, <1>1, <1>2, <1>4, <3>1, BeforeMoves DEF Better
      <3> QED
        BY <3>1, <3>2
    <2> QED
      BY <2>1, <2>2
  <1> QED
    BY <1>3, <1>4 DEF T

LEMMA FailureGainsNothing ==
    ASSUME NEW S, Logged(S), NEW x, x \notin S, x.day = Today, x.good = FALSE,
           NEW p, p = PairOf(x), NEW feedback, Counted(feedback), InPairs(S, p),
           Enough(Plus(S, x), p),
           \A q : Enough(Plus(S, x), q)
                     => ~Before(Its(Plus(S, x), q), Its(Plus(S, x), p), feedback)
    PROVE  /\ Enough(S, p)
           /\ \A q : Enough(S, q) => ~Before(Its(S, q), Its(S, p), feedback)
  <1> DEFINE T == Plus(S, x)
  <1>0. x.good \in BOOLEAN
    OBVIOUS
  <1>1. /\ \A q : InPairs(T, q) <=> InPairs(S, q)
        /\ \A q : q # p => Its(T, q) = Its(S, q)
        /\ \A q : InPairs(S, q) => Sound(Its(S, q))
    BY <1>0, Added
  <1>2. /\ Sound(Its(T, p)) /\ Better(Its(T, p), Its(S, p))
        /\ Composite(Its(T, p), feedback) <= Composite(Its(S, p), feedback)
        /\ Composite(Its(T, p), feedback) \in Int
        /\ \A q : InPairs(S, q) => Composite(Its(S, q), feedback) \in Int
    BY <1>0, MovesOne
  <1>b. Enough(T, p) /\ \A q : Enough(T, q) => ~Before(Its(T, q), Its(T, p), feedback)
    OBVIOUS
  <1> HIDE DEF T
  <1>3. Enough(S, p)
    <2>1. Its(S, p).successes \in Nat /\ Its(T, p).successes \in Nat
      BY <1>0, <1>1, <1>2 DEF Sound
    <2> QED
      BY <1>b, <1>1, <1>2, <2>1, SeededAssumption DEF Enough, Better
  <1>4. ASSUME NEW q, Enough(S, q), Before(Its(S, q), Its(S, p), feedback) PROVE FALSE
    <2>1. CASE q = p
      BY <1>1, <1>3, <1>4, <2>1, NotBeforeItself DEF Enough
    <2>2. CASE q # p
      <3>1. Its(T, q) = Its(S, q) /\ InPairs(S, q) /\ Enough(T, q)
        BY <1>1, <1>4, <2>2 DEF Enough
      <3>2. Before(Its(T, q), Its(T, p), feedback)
        BY <1>1, <1>2, <1>4, <3>1, BeforeMoves DEF Better
      <3> QED
        BY <1>b, <3>1, <3>2
    <2> QED
      BY <2>1, <2>2
  <1> QED
    BY <1>3, <1>4

-----------------------------------------------------------------------------
(* No row, and no item on its way to the table, is of the future. *)
PastItems(r) == \A k \in DOMAIN req[r].items : req[r].items[k].day \in 0 .. Today

DaysInv ==
    /\ \A n \in RowIds : rows[n].day \in 0 .. Today
    /\ \A r \in Requests : req[r].pc \in {"entities", "dedupe", "insert"} => PastItems(r)

LEMMA StartLogChecks ==
    ASSUME ShapeInv, NEW r \in Requests, StartLog(r), req'[r].pc = "entities"
    PROVE  PastItems(r)'
  <1>1. PICK kind \in {"log", "batch"}, items \in Batches :
            \/ /\ req' = [req EXCEPT ![r] = [NewReq EXCEPT !.pc = "entities", !.kind = kind,
                                            !.items = items, !.known = Keys]]
               /\ \A k \in DOMAIN items : items[k].day \in 0 .. Today
            \/ Reply(r, "invalid")
    BY Zenon DEF StartLog
  <1>2. CASE /\ req' = [req EXCEPT ![r] = [NewReq EXCEPT !.pc = "entities", !.kind = kind,
                                            !.items = items, !.known = Keys]]
             /\ \A k \in DOMAIN items : items[k].day \in 0 .. Today
    <2>1. req'[r].items = items
      BY <1>2 DEF ShapeInv, NewReq
    <2> QED
      BY <1>2, <2>1 DEF PastItems
  <1>3. CASE Reply(r, "invalid")
    BY <1>3 DEF Reply, ShapeInv, ReqFields
  <1> QED
    BY <1>1, <1>2, <1>3, Zenon

LEMMA DaysStep == GraphInv /\ SilentInv /\ LogInv /\ DaysInv /\ [Next]_vars => DaysInv'
  <1> SUFFICES ASSUME GraphInv, SilentInv, LogInv, DaysInv, [Next]_vars PROVE DaysInv'
    OBVIOUS
  <1>0. ShapeInv
    BY DEF GraphInv
  <1> DEFINE Past(r) == req[r].pc \in {"entities", "dedupe", "insert"} => PastItems(r)
             Same(r) == req'[r].pc = req[r].pc /\ req'[r].items = req[r].items
  <1>1. ASSUME NEW r \in Requests, Same(r) PROVE Past(r)'
    BY <1>1 DEF DaysInv, PastItems
  <1>2. ASSUME NEW r \in Requests, req[r].pc \in {"entities", "dedupe", "insert"},
               req'[r].items = req[r].items
        PROVE  Past(r)'
    BY <1>2 DEF DaysInv, PastItems
  <1>3. ASSUME NEW r \in Requests, StartLog(r) PROVE Past(r)'
    BY <1>0, <1>3, StartLogShape, StartLogChecks
  <1>4. ASSUME NEW r \in Requests, CheckEntities(r) \/ Dedupe(r) \/ InsertItems(r)
        PROVE  Past(r)'
    <2>1. req[r].pc \in {"entities", "dedupe", "insert"}
      BY <1>4 DEF CheckEntities, Dedupe, InsertItems
    <2>2. req'[r].items = req[r].items
      <3>1. CASE CheckEntities(r)
        BY <1>0, <3>1 DEF CheckEntities, Goto, Reply, ShapeInv, ReqFields
      <3>2. CASE Dedupe(r)
        BY <1>0, <3>2, DedupeShape, Zenon
      <3>3. CASE InsertItems(r)
        BY <1>0, <3>3 DEF InsertItems, ShapeInv, ReqFields
      <3> QED
        BY <1>4, <3>1, <3>2, <3>3
    <2> QED
      BY <1>2, <2>1, <2>2
  <1>5. ASSUME NEW r \in Requests,
               ReqStep(r) \/ InsertItems(r) \/ Recommend(r) \/ UpdateFeedback(r)
        PROVE  \A q \in Requests : Past(q)'
    <2>1. \A q \in Requests \ {r} : req'[q] = req[q]
      <3>1. CASE ReqStep(r)
        BY <1>0, <3>1, ReqStepOwn
      <3>2. CASE InsertItems(r) \/ Recommend(r) \/ UpdateFeedback(r)
        BY <1>0, <3>2 DEF InsertItems, Recommend, UpdateFeedback, Reply, ShapeInv
      <3> QED
        BY <1>5, <3>1, <3>2
    <2>2. \A q \in Requests \ {r} : Same(q)
      BY <2>1
    <2>3. ASSUME Idle(r)' PROVE Past(r)'
      BY <2>3 DEF Idle
    <2>4. Past(r)'
      <3> HIDE DEF Past
      <3> QED
        BY <1>0, <1>3, <1>4, <1>5, <2>3, OthersDoNotLog DEF ReqStep
    <2> HIDE DEF Past, Same
    <2> QED
      BY <1>1, <2>2, <2>4
  <1>6. ASSUME NEW c \in Entities, NEW e \in Entities, Merge(c, e)
        PROVE \A q \in Requests : Same(q)
    BY <1>0, <1>6 DEF Merge, ShapeInv, ReqFields
  <1>7. ASSUME NEW r \in Requests, PersistRecommendation(r) \/ PersistFails(r) PROVE req' = req
    BY <1>7 DEF PersistRecommendation, PersistFails
  <1>8. UNCHANGED vars => req' = req
    BY DEF vars
  <1>9. req' = req => \A q \in Requests : Same(q)
    OBVIOUS
  <1>10. \A q \in Requests : Past(q)'
    <2> HIDE DEF Past, Same
    <2> QED
      BY <1>1, <1>5, <1>6, <1>7, <1>8, <1>9 DEF Next, Step, ReqStep
  <1>11. ASSUME NEW r \in Requests, InsertItems(r), NEW n \in DOMAIN rows' \ RowIds
         PROVE  rows'[n].day \in 0 .. Today
    <2>1. req[r].pc = "insert"
      BY <1>11 DEF InsertItems
    <2>2. PICK k \in NewItems(r) : rows'[n] = Stored(req[r].items[k])
      BY <1>11, <2>1, InsertedRows DEF LogInv
    <2>3. rows'[n].day = req[r].items[k].day
      BY <2>2 DEF Stored
    <2> QED
      BY <2>1, <2>2, <2>3 DEF DaysInv, PastItems, NewItems
  <1>12. \/ DOMAIN rows' = RowIds
         \/ \E r \in Requests : InsertItems(r)
    <2>1. ASSUME NEW q \in Requests,
                 \/ ReqStep(q) \/ Recommend(q) \/ UpdateFeedback(q)
                 \/ PersistRecommendation(q) \/ PersistFails(q)
          PROVE  DOMAIN rows' = RowIds
      BY <2>1, ReqStepTables DEF Recommend, UpdateFeedback, PersistRecommendation, PersistFails,
                                 tables, RowIds
    <2>2. ASSUME NEW c \in Entities, NEW e \in Entities, Merge(c, e) PROVE DOMAIN rows' = RowIds
      BY <2>2 DEF Merge, RowIds
    <2>3. UNCHANGED vars => DOMAIN rows' = RowIds
      BY DEF vars, RowIds
    <2> QED
      BY <2>1, <2>2, <2>3 DEF Next, Step, ReqStep
  <1>13. \A n \in RowIds : rows'[n].day \in 0 .. Today
    <2> SUFFICES ASSUME NEW n \in RowIds PROVE rows'[n].day \in 0 .. Today
      OBVIOUS
    <2>1. rows'[n].day = rows[n].day
      BY RowsAreKept DEF RowKept
    <2> QED
      BY <2>1 DEF DaysInv
  <1>14. \A n \in RowIds' : rows'[n].day \in 0 .. Today
    BY <1>11, <1>12, <1>13 DEF RowIds
  <1> QED
    BY <1>10, <1>14 DEF DaysInv

LEMMA DaysInit == Init => DaysInv
  <1> SUFFICES ASSUME Init PROVE DaysInv
    OBVIOUS
  <1>1. \A n \in RowIds : rows[n].day \in 0 .. Today
    <2> SUFFICES ASSUME NEW n \in RowIds PROVE rows[n].day \in 0 .. Today
      OBVIOUS
    <2>1. n \in DOMAIN Seeded /\ rows[n] = Stored(Seeded[n])
      BY DEF Init, RowIds
    <2>2. rows[n].day = Seeded[n].day
      BY <2>1 DEF Stored
    <2> QED
      BY <2>1, <2>2, SeededAssumption
  <1>2. \A r \in Requests : req[r].pc = "new"
    BY DEF Init, NewReq
  <1> QED
    BY <1>1, <1>2 DEF DaysInv

LEMMA DaysInvariant == Spec => [](GraphInv /\ DaysInv)
  <1>1. GraphInv /\ SilentInv /\ LogInv /\ DaysInv /\ [Next]_vars => DaysInv'
    BY DaysStep
  <1> QED
    BY <1>1, DaysInit, LogInvariant, PTL DEF Spec

-----------------------------------------------------------------------------
(* What a recommendation is computed from is finite. *)

LEMMA RowsOfLogged ==
    ASSUME GraphInv, DaysInv, NEW e
    PROVE  Logged(RowsOf(e)) /\ \A x \in RowsOf(e) : x.id # 0
  <1> DEFINE M    == {m \in RowIds : rows[m].entity = e}
             f    == [n \in M |-> [id |-> n, api |-> rows[n].api, action |-> rows[n].action,
                                   good |-> rows[n].good, day |-> rows[n].day]]
  <1>1. Len(rows) \in Nat /\ RowIds = 1 .. Len(rows)
    BY RowsAreSequence DEF GraphInv
  <1>2. IsFiniteSet(M)
    <2>1. IsFiniteSet(1 .. Len(rows)) /\ M \subseteq 1 .. Len(rows)
      BY <1>1, FS_Interval
    <2> HIDE DEF M
    <2> QED
      BY <2>1, FS_Subset
  <1>3. RowsOf(e) = {f[n] : n \in M}
    BY DEF RowsOf
  <1>4. /\ \A n \in M : f[n].day = rows[n].day /\ f[n].id = n
        /\ f \in [M -> {f[n] : n \in M}]
    OBVIOUS
  <1>5. \A n \in M : rows[n].day \in 0 .. Today /\ n # 0
    BY <1>1 DEF DaysInv
  <1> HIDE DEF f, M
  <1>6. f \in Surjection(M, {f[n] : n \in M})
    BY <1>4 DEF Surjection
  <1>7. IsFiniteSet(RowsOf(e))
    BY <1>2, <1>3, <1>6, FS_Surjection
  <1> QED
    BY <1>3, <1>4, <1>5, <1>7 DEF Logged

LEMMA FeedbackCounted ==
    ASSUME IsFiniteSet(Requests), NEW e
    PROVE  Counted(FeedbackWeights(RecsOf(e)))
  <1> DEFINE P == {p \in Requests : recs[p].state = "stored" /\ recs[p].entity = e}
             f == [q \in P |-> [id |-> q, action |-> recs[q].action, followed |-> recs[q].followed,
                                outcome |-> recs[q].outcome]]
  <1>1. IsFiniteSet(P)
    BY FS_Subset
  <1>2. RecsOf(e) = {f[q] : q \in P}
    BY DEF RecsOf
  <1>3. f \in [P -> {f[q] : q \in P}]
    OBVIOUS
  <1> HIDE DEF f, P
  <1>4. f \in Surjection(P, {f[q] : q \in P})
    BY <1>3 DEF Surjection
  <1>5. IsFiniteSet(RecsOf(e))
    BY <1>1, <1>2, <1>4, FS_Surjection
  <1>6. ASSUME NEW T \in SUBSET RecsOf(e) PROVE Cardinality(T) \in Nat
    BY <1>5, FS_Subset, FS_CardinalityType
  <1> DEFINE told == {q \in RecsOf(e) : q.followed # "unset"}
             F(a) == {q \in told : q.action = a /\ q.followed = "yes"}
             G(a) == {q \in told : q.action = a /\ q.followed = "yes" /\ q.outcome # 0}
  <1>7. ASSUME NEW a PROVE Cardinality(F(a)) \in Nat /\ Cardinality(G(a)) \in Nat
    <2>1. F(a) \in SUBSET RecsOf(e) /\ G(a) \in SUBSET RecsOf(e)
      OBVIOUS
    <2> HIDE DEF F, G
    <2> QED
      BY <1>6, <2>1
  <1>8. ASSUME NEW w \in FeedbackWeights(RecsOf(e))
        PROVE  \E a : w.followed = Cardinality(F(a)) /\ w.succeeded = Cardinality(G(a))
    <2> DEFINE g(a) == [api |-> NoApi, action |-> a, followed |-> Cardinality(F(a)),
                        succeeded |-> Cardinality(G(a))]
    <2>1. FeedbackWeights(RecsOf(e)) = {g(a) : a \in {q.action : q \in told}}
      BY DEF FeedbackWeights
    <2> HIDE DEF F, G, told
    <2>2. PICK a : w = g(a)
      BY <1>8, <2>1
    <2> QED
      BY <2>2
  <1> HIDE DEF F, G
  <1> QED
    BY <1>7, <1>8 DEF Counted

(* For any finite set of requests, with any rows, weights and feedback:       *)
(* whenever a recommendation is computed, one more success of an action      *)
(* would not cost it its first place, one more failure would not gain it one. *)
THEOREM OutcomesCount ==
    ASSUME IsFiniteSet(Requests)
    PROVE  Spec => []OutcomesMoveTheRanking
  <1>1. ASSUME GraphInv, DaysInv PROVE OutcomesMoveTheRanking
    <2> SUFFICES ASSUME NEW r \in Requests, req[r].pc = "stats",
                        NEW p \in Pairs(InteractionStats(RowsOf(req[r].entity), Lookback, MinSuccess))
                 PROVE  LET e        == req[r].entity
                            feedback == FeedbackWeights(RecsOf(e))
                            First(S) == Pairs(Primaries(InteractionStats(S, Lookback, MinSuccess), feedback))
                            With(ok) == RowsOf(e) \cup {[id |-> 0, api |-> p[1], action |-> p[2],
                                                         good |-> ok, day |-> Today]}
                        IN  /\ p \in First(RowsOf(e)) => p \in First(With(TRUE))
                            /\ p \in First(With(FALSE)) => p \in First(RowsOf(e))
      BY Zenon DEF OutcomesMoveTheRanking
    <2> DEFINE S        == RowsOf(req[r].entity)
               feedback == FeedbackWeights(RecsOf(req[r].entity))
               new(ok)  == [id |-> 0, api |-> p[1], action |-> p[2], good |-> ok, day |-> Today]
               Is(T)    == p \in Pairs(Primaries(InteractionStats(T, Lookback, MinSuccess), feedback))
    <2>1. Logged(S) /\ \A x \in S : x.id # 0
      BY <1>1, RowsOfLogged
    <2>2. Counted(feedback)
      BY FeedbackCounted
    <2>3. InPairs(S, p)
      <3> HIDE DEF S
      <3>1. PICK b \in InteractionStats(S, Lookback, MinSuccess) : p = <<b.api, b.action>>
        BY DEF Pairs, S
      <3>2. PICK q : InPairs(S, q) /\ b = Its(S, q)
        BY <3>1, StatsAre DEF InPairs
      <3>3. q = p
        BY <3>1, <3>2, PairsOfRows
      <3> QED
        BY <3>2, <3>3
    <2>4. \A ok \in BOOLEAN : /\ PairOf(new(ok)) = p /\ new(ok).day = Today /\ new(ok).good = ok
                              /\ new(ok) \notin S
      <3> HIDE DEF S
      <3>1. \A ok \in BOOLEAN : /\ new(ok).id = 0 /\ new(ok).day = Today /\ new(ok).good = ok
                                /\ new(ok).api = p[1] /\ new(ok).action = p[2]
        OBVIOUS
      <3>2. p = <<p[1], p[2]>>
        BY <2>3, PairsOfRows
      <3> HIDE DEF new
      <3> QED
        BY <2>1, <3>1, <3>2 DEF PairOf
    <2> HIDE DEF S, feedback, new
    <2>5. Is(S) => Is(Plus(S, new(TRUE)))
      <3> SUFFICES ASSUME Is(S) PROVE Is(Plus(S, new(TRUE)))
        OBVIOUS
      <3>1. Enough(S, p) /\ \A q : Enough(S, q) => ~Before(Its(S, q), Its(S, p), feedback)
        BY FirstIs
      <3>x. PICK x : x = new(TRUE)
        OBVIOUS
      <3>2. PairOf(x) = p /\ x.day = Today /\ x.good = TRUE /\ x \notin S
        BY <2>4, <3>x
      <3>3. /\ Enough(Plus(S, x), p)
            /\ \A q : Enough(Plus(S, x), q)
                        => ~Before(Its(Plus(S, x), q), Its(Plus(S, x), p), feedback)
        BY <2>1, <2>2, <3>1, <3>2, SuccessKeepsFirst
      <3> QED
        BY <3>x, <3>3, FirstIs
    <2>6. Is(Plus(S, new(FALSE))) => Is(S)
      <3>x. PICK x : x = new(FALSE)
        OBVIOUS
      <3> SUFFICES ASSUME Is(Plus(S, x)) PROVE Is(S)
        BY <3>x
      <3>1. /\ Enough(Plus(S, x), p)
            /\ \A q : Enough(Plus(S, x), q)
                        => ~Before(Its(Plus(S, x), q), Its(Plus(S, x), p), feedback)
        BY FirstIs
      <3>2. PairOf(x) = p /\ x.day = Today /\ x.good = FALSE /\ x \notin S
        BY <2>4, <3>x
      <3>3. Enough(S, p) /\ \A q : Enough(S, q) => ~Before(Its(S, q), Its(S, p), feedback)
        BY <2>1, <2>2, <2>3, <3>1, <3>2, FailureGainsNothing
      <3> QED
        BY <3>3, FirstIs
    <2> QED
      BY <2>5, <2>6, Zenon DEF S, feedback, new, Plus
  <1>2. GraphInv /\ DaysInv => OutcomesMoveTheRanking
    BY <1>1
  <1> QED
    BY <1>2, DaysInvariant, PTL

-----------------------------------------------------------------------------
(* Types.  Most of TypeOK is part of GraphInv; the rest is inductive with it. *)

Typed(r) ==
    /\ req[r].pc \in Phases /\ req[r].answer \in Answers
    /\ \A k \in DOMAIN req[r].ids : req[r].ids[k] \in RowIds \cup {0}

TypeInv ==
    /\ \A n \in RowIds : rows[n].entity \in Entities
    /\ faults \in 0 .. MaxFaults
    /\ \A q \in Requests : recs[q].state \in {"unmade", "pending", "stored", "lost"}
    /\ \A r \in Requests : Typed(r)

LEMMA TypeInit == Init => TypeInv
  <1> SUFFICES ASSUME Init PROVE TypeInv
    OBVIOUS
  <1>1. \A n \in RowIds : rows[n].entity \in Entities
    <2> SUFFICES ASSUME NEW n \in RowIds PROVE rows[n].entity \in Entities
      OBVIOUS
    <2>1. n \in DOMAIN Seeded /\ rows[n] = Stored(Seeded[n])
      BY DEF Init, RowIds
    <2>2. rows[n].entity = Seeded[n].entity
      BY <2>1 DEF Stored
    <2> QED
      BY <2>1, <2>2, SeededAssumption
  <1>2. \A r \in Requests : req[r].pc = "new" /\ req[r].answer = "none" /\ req[r].ids = <<>>
    BY DEF Init, NewReq
  <1>3. \A r \in Requests : recs[r].state = "unmade"
    BY DEF Init, NoRec
  <1>4. faults \in 0 .. MaxFaults
    BY GraphAssumption DEF Init
  <1> QED
    BY <1>1, <1>2, <1>3, <1>4 DEF TypeInv, Typed, Phases, Answers

(* A request that keeps its ids, with a phase and an answer that there are. *)
LEMMA TypedKept ==
    ASSUME TypeInv, NEW r \in Requests, RowIds \subseteq RowIds',
           req'[r].pc \in Phases, req'[r].answer \in Answers, req'[r].ids \in {req[r].ids, <<>>}
    PROVE  Typed(r)'
  BY DEF TypeInv, Typed

LEMMA TypedStep ==
    ASSUME GraphInv, SilentInv, LogInv, TypeInv, NEW r \in Requests, RowIds \subseteq RowIds',
           \/ ReqStep(r) \/ InsertItems(r) \/ Recommend(r) \/ UpdateFeedback(r)
    PROVE  Typed(r)'
  <1>0. ShapeInv /\ req[r].answer \in Answers
    BY DEF GraphInv, TypeInv, Typed
  <1>1. CASE StartLog(r)
    <2>1. \/ req'[r].pc = "entities" /\ req'[r].answer = "none" /\ req'[r].ids = <<>>
          \/ req'[r].pc = "done" /\ req'[r].answer = "invalid"
      BY <1>0, <1>1, StartLogShape
    <2>2. CASE req'[r].pc = "entities" /\ req'[r].answer = "none" /\ req'[r].ids = <<>>
      BY <2>2, TypedKept DEF Phases, Answers
    <2>3. CASE req'[r].pc = "done" /\ req'[r].answer = "invalid"
      <3>1. req'[r].ids \in {req[r].ids, <<>>}
        <4>1. PICK kind, items : \/ req' = [req EXCEPT ![r] = [NewReq EXCEPT !.pc = "entities",
                                            !.kind = kind, !.items = items, !.known = Keys]]
                                 \/ Reply(r, "invalid")
          BY <1>1, Zenon DEF StartLog
        <4>2. CASE Reply(r, "invalid")
          BY <1>0, <4>2 DEF Reply, ShapeInv, ReqFields
        <4>3. CASE req' = [req EXCEPT ![r] = [NewReq EXCEPT !.pc = "entities",
                                            !.kind = kind, !.items = items, !.known = Keys]]
          BY <1>0, <4>3 DEF ShapeInv, NewReq
        <4> QED
          BY <4>1, <4>2, <4>3
      <3> QED
        BY <2>3, <3>1, TypedKept DEF Phases, Answers
    <2> QED
      BY <2>1, <2>2, <2>3
  <1>2. CASE StartRecommend(r)
    <2>1. req'[r].pc \in {"stats", "done"} /\ req'[r].answer \in {"none", "not_found"}
      BY <1>0, <1>2, StartRecommendShape
    <2>2. req'[r].ids \in {req[r].ids, <<>>}
      <3>1. PICK e : \/ req' = [req EXCEPT ![r] = [NewReq EXCEPT !.pc = "stats", !.kind = "recommend",
                                                                !.entity = e]]
                     \/ Reply(r, "not_found")
        BY <1>2, Zenon DEF StartRecommend
      <3>2. CASE Reply(r, "not_found")
        BY <1>0, <3>2 DEF Reply, ShapeInv, ReqFields
      <3>3. CASE req' = [req EXCEPT ![r] = [NewReq EXCEPT !.pc = "stats", !.kind = "recommend",
                                                                !.entity = e]]
        BY <1>0, <3>3 DEF ShapeInv, NewReq
      <3> QED
        BY <3>1, <3>2, <3>3
    <2> QED
      BY <2>1, <2>2, TypedKept DEF Phases, Answers
  <1>3. CASE StartFeedback(r)
    <2>1. req'[r].pc = "fetch" /\ req'[r].answer = "none" /\ req'[r].ids = <<>>
      BY <1>0, <1>3 DEF StartFeedback, ShapeInv, NewReq
    <2> QED
      BY <2>1, TypedKept DEF Phases, Answers
  <1>4. CASE CheckEntities(r)
    <2>1. \/ req'[r].pc = "dedupe" /\ req'[r].answer = req[r].answer
          \/ req'[r].pc = "done" /\ req'[r].answer = "not_found"
      BY <1>0, <1>4 DEF CheckEntities, Goto, Reply, ShapeInv, ReqFields
    <2>2. req'[r].ids = req[r].ids
      BY <1>0, <1>4 DEF CheckEntities, Goto, Reply, ShapeInv, ReqFields
    <2>3. req'[r].pc \in Phases /\ req'[r].answer \in Answers
      BY <1>0, <2>1 DEF Phases, Answers
    <2> QED
      BY <2>2, <2>3, TypedKept
  <1>5. CASE Dedupe(r)
    <2>1. PICK item : item = req[r].items[Len(req[r].ids) + 1]
      OBVIOUS
    <2>2. PICK id \in IF SameRef(item) = {} THEN {0} ELSE SameRef(item) :
              /\ req'[r].ids = Append(req[r].ids, id)
              /\ req'[r].pc = IF req[r].kind = "log" /\ id # 0 THEN "done"
                              ELSE IF Len(req[r].ids) + 1 = Len(req[r].items) THEN "insert"
                              ELSE "dedupe"
              /\ req'[r].answer = IF req[r].kind = "log" /\ id # 0 THEN "existing" ELSE "none"
      BY <1>0, <1>5, <2>1, DedupeShape, Zenon
    <2>3. req'[r].pc \in Phases /\ req'[r].answer \in Answers
      BY <2>2 DEF Phases, Answers
    <2>4. id \in RowIds \cup {0}
      BY <2>2 DEF SameRef
    <2>5. req[r].ids \in Seq(Nat)
      BY <1>5 DEF Dedupe, LogInv, Logging
    <2>6. RowIds \subseteq Nat
      BY RowsAreSequence DEF GraphInv
    <2>7. ASSUME NEW k \in DOMAIN req'[r].ids PROVE req'[r].ids[k] \in RowIds' \cup {0}
      <3>1. id \in Nat
        BY <2>4, <2>6
      <3>2. \/ k \in DOMAIN req[r].ids /\ req'[r].ids[k] = req[r].ids[k]
            \/ req'[r].ids[k] = id
        <4>1. PICK ids : ids = req[r].ids
          OBVIOUS
        <4>2. /\ Append(ids, id) \in Seq(Nat) /\ Len(Append(ids, id)) = Len(ids) + 1
              /\ \A j \in 1 .. Len(ids) : Append(ids, id)[j] = ids[j]
              /\ Append(ids, id)[Len(ids) + 1] = id
          BY <2>5, <3>1, <4>1, AppendProperties
        <4>3. DOMAIN ids = 1 .. Len(ids) /\ DOMAIN Append(ids, id) = 1 .. Len(ids) + 1
              /\ Len(ids) \in Nat
          BY <2>5, <4>1, <4>2
        <4>4. k \in 1 .. Len(ids) + 1
          BY <2>2, <2>7, <4>1, <4>3
        <4> QED
          BY <2>2, <4>1, <4>2, <4>3, <4>4
      <3> QED
        BY <2>4, <3>2 DEF TypeInv, Typed
    <2> QED
      BY <2>3, <2>7 DEF Typed
  <1>6. CASE InsertItems(r)
    <2>1. /\ req[r].pc = "insert"
          /\ req'[r].pc = "done" /\ req'[r].answer \in {"created", "error"}
          /\ req'[r].ids = [k \in DOMAIN req[r].items |-> ResultId(r, k)]
      BY <1>0, <1>6 DEF InsertItems, ShapeInv, ReqFields
    <2>2. Logging(r) /\ DOMAIN req[r].items = DOMAIN req[r].ids
      BY <2>1 DEF LogInv, Logging
    <2>3. ASSUME NEW k \in DOMAIN req[r].items PROVE ResultId(r, k) \in RowIds' \cup {0}
      <3>1. CASE req[r].ids[k] = 0
        BY <1>6, <2>2, <3>1, InsertedRows DEF NewItems, RowIds
      <3>2. CASE req[r].ids[k] # 0
        BY <2>2, <3>2 DEF ResultId, TypeInv, Typed
      <3> QED
        BY <3>1, <3>2
    <2> QED
      BY <2>1, <2>3 DEF Typed, Phases, Answers
  <1>7. CASE FetchInteractionStats(r) \/ FetchFeedbackWeights(r)
    <2>1. /\ req'[r].pc \in {"weights", "score"} /\ req'[r].answer = req[r].answer
          /\ req'[r].ids = req[r].ids
      BY <1>0, <1>7 DEF FetchInteractionStats, FetchFeedbackWeights, Goto, ShapeInv, ReqFields
    <2> QED
      BY <1>0, <2>1, TypedKept DEF Phases
  <1>8. CASE FetchRecommendation(r)
    <2>1. /\ req'[r].pc \in {"update", "outcome", "done"}
          /\ req'[r].answer \in {req[r].answer, "not_found"} /\ req'[r].ids = req[r].ids
      BY <1>0, <1>8 DEF FetchRecommendation, Reply, ShapeInv, ReqFields
    <2>2. req'[r].pc \in Phases /\ req'[r].answer \in Answers
      BY <1>0, <2>1 DEF Phases, Answers
    <2> QED
      BY <2>1, <2>2, TypedKept
  <1>9. CASE FetchOutcome(r)
    <2>1. /\ req'[r].pc \in {"update", "done"}
          /\ req'[r].answer \in {req[r].answer, "mismatch"} /\ req'[r].ids = req[r].ids
      BY <1>0, <1>9 DEF FetchOutcome, Goto, Reply, ShapeInv, ReqFields
    <2>2. req'[r].pc \in Phases /\ req'[r].answer \in Answers
      BY <1>0, <2>1 DEF Phases, Answers
    <2> QED
      BY <2>1, <2>2, TypedKept
  <1>10. CASE Fails(r) \/ UpdateFeedback(r)
    <2>1. /\ req'[r].pc = "done" /\ req'[r].answer \in {"error", "ok"}
          /\ req'[r].ids = req[r].ids
      BY <1>0, <1>10 DEF Fails, UpdateFeedback, Reply, ShapeInv, ReqFields
    <2> QED
      BY <2>1, TypedKept DEF Phases, Answers
  <1>11. CASE Recommend(r)
    <2>1. req'[r].pc = "done" /\ req'[r].answer = "recommended" /\ req'[r].ids = <<>>
      BY <1>0, <1>11 DEF Recommend, NewReq, ShapeInv
    <2> QED
      BY <2>1, TypedKept DEF Phases, Answers
  <1> QED
    BY <1>1, <1>2, <1>3, <1>4, <1>5, <1>6, <1>7, <1>8, <1>9, <1>10, <1>11 DEF ReqStep

LEMMA TypeStep == GraphInv /\ SilentInv /\ LogInv /\ TypeInv /\ [Next]_vars => TypeInv'
  <1> SUFFICES ASSUME GraphInv, SilentInv, LogInv, TypeInv, [Next]_vars PROVE TypeInv'
    OBVIOUS
  <1>0. ShapeInv
    BY DEF GraphInv
  <1>1. /\ RowIds \subseteq RowIds'
        /\ \A n \in RowIds : rows'[n].entity \in Entities
    <2> SUFFICES ASSUME NEW n \in RowIds PROVE n \in RowIds' /\ rows'[n].entity \in Entities
      OBVIOUS
    <2>1. RowKept(n) /\ rows[n].entity \in Entities
      BY RowsAreKept DEF TypeInv
    <2> QED
      BY <2>1 DEF RowKept
  <1>2. ASSUME NEW r \in Requests, InsertItems(r), NEW n \in DOMAIN rows' \ RowIds
        PROVE  rows'[n].entity \in Entities
    <2>1. req[r].pc = "insert" /\ Logging(r)
      BY <1>2 DEF InsertItems, LogInv
    <2>2. PICK k \in NewItems(r) : rows'[n] = Stored(req[r].items[k])
      BY <1>2, <2>1, InsertedRows
    <2>3. rows'[n].entity = req[r].items[k].entity
      BY <2>2 DEF Stored
    <2> QED
      BY <2>1, <2>2, <2>3 DEF Logging, NewItems
  <1>3. DOMAIN rows' = RowIds \/ \E r \in Requests : InsertItems(r)
    <2>1. ASSUME NEW q \in Requests,
                 \/ ReqStep(q) \/ Recommend(q) \/ UpdateFeedback(q)
                 \/ PersistRecommendation(q) \/ PersistFails(q)
          PROVE  DOMAIN rows' = RowIds
      BY <2>1, ReqStepTables DEF Recommend, UpdateFeedback, PersistRecommendation, PersistFails,
                                 tables, RowIds
    <2>2. ASSUME NEW c \in Entities, NEW e \in Entities, Merge(c, e) PROVE DOMAIN rows' = RowIds
      BY <2>2 DEF Merge, RowIds
    <2>3. UNCHANGED vars => DOMAIN rows' = RowIds
      BY DEF vars, RowIds
    <2> QED
      BY <2>1, <2>2, <2>3 DEF Next, Step, ReqStep
  <1>4. \A n \in RowIds' : rows'[n].entity \in Entities
    BY <1>1, <1>2, <1>3 DEF RowIds
  <1>5. faults' \in 0 .. MaxFaults
    <2>1. faults' = faults \/ (faults < MaxFaults /\ faults' = faults + 1)
      <3>1. ASSUME NEW r \in Requests, ReqStep(r) \/ InsertItems(r)
            PROVE  faults' = faults \/ (faults < MaxFaults /\ faults' = faults + 1)
        BY <3>1 DEF ReqStep, StartLog, StartRecommend, StartFeedback, CheckEntities, Dedupe,
                    FetchInteractionStats, FetchFeedbackWeights, FetchRecommendation, FetchOutcome,
                    Fails, InsertItems, Fault
      <3>2. ASSUME NEW r \in Requests,
                   Recommend(r) \/ UpdateFeedback(r) \/ PersistRecommendation(r) \/ PersistFails(r)
            PROVE  faults' = faults \/ (faults < MaxFaults /\ faults' = faults + 1)
        BY <3>2 DEF Recommend, UpdateFeedback, PersistRecommendation, PersistFails, Fault
      <3>3. ASSUME NEW c \in Entities, NEW e \in Entities, Merge(c, e) PROVE faults' = faults
        BY <3>3 DEF Merge
      <3>4. UNCHANGED vars => faults' = faults
        BY DEF vars
      <3> QED
        BY <3>1, <3>2, <3>3, <3>4 DEF Next, Step, ReqStep
    <2> QED
      BY <2>1, GraphAssumption DEF TypeInv
  <1>6. \A q \in Requests : recs'[q].state \in {"unmade", "pending", "stored", "lost"}
    <2>1. ASSUME NEW r \in Requests, ReqStep(r) \/ InsertItems(r) PROVE recs' = recs
      BY <2>1, ReqStepTables DEF tables, InsertItems
    <2>2. ASSUME NEW r \in Requests, Recommend(r)
          PROVE  \A q \in Requests : recs'[q].state \in {recs[q].state, "pending"}
      <3>1. PICK action : recs' = [recs EXCEPT ![r] = [NoRec EXCEPT !.state = "pending",
                                       !.action = action, !.entity = req[r].entity]]
        BY <2>2, Zenon DEF Recommend
      <3> QED
        BY <1>0, <3>1 DEF ShapeInv, NoRec
    <2>3. ASSUME NEW r \in Requests, UpdateFeedback(r)
          PROVE  \A q \in Requests : recs'[q].state = recs[q].state
      BY <1>0, <2>3 DEF UpdateFeedback, ShapeInv
    <2>4. ASSUME NEW r \in Requests, PersistRecommendation(r) \/ PersistFails(r)
          PROVE  \A q \in Requests : recs'[q].state \in {recs[q].state, "stored", "lost"}
      BY <1>0, <2>4 DEF PersistRecommendation, PersistFails, ShapeInv
    <2>5. ASSUME NEW c \in Entities, NEW e \in Entities, Merge(c, e)
          PROVE  \A q \in Requests : recs'[q].state = recs[q].state
      BY <1>0, <2>5 DEF Merge, ShapeInv
    <2>6. UNCHANGED vars => recs' = recs
      BY DEF vars
    <2>7. \A q \in Requests : recs'[q].state \in {recs[q].state, "pending", "stored", "lost"}
      BY <2>1, <2>2, <2>3, <2>4, <2>5, <2>6 DEF Next, Step, ReqStep
    <2> QED
      BY <2>7 DEF TypeInv
  <1>7. \A r \in Requests : Typed(r)'
    <2> DEFINE Same(r) == /\ req'[r].pc = req[r].pc /\ req'[r].answer = req[r].answer
                          /\ req'[r].ids = req[r].ids
    <2>1. ASSUME NEW r \in Requests, Same(r) PROVE Typed(r)'
      BY <1>1, <2>1 DEF TypeInv, Typed
    <2>2. ASSUME NEW r \in Requests,
                 ReqStep(r) \/ InsertItems(r) \/ Recommend(r) \/ UpdateFeedback(r)
          PROVE  \A q \in Requests : Typed(q)'
      <3>1. \A q \in Requests \ {r} : req'[q] = req[q]
        <4>1. CASE ReqStep(r)
          BY <1>0, <4>1, ReqStepOwn
        <4>2. CASE InsertItems(r) \/ Recommend(r) \/ UpdateFeedback(r)
          BY <1>0, <4>2 DEF InsertItems, Recommend, UpdateFeedback, Reply, ShapeInv
        <4> QED
          BY <2>2, <4>1, <4>2
      <3>2. \A q \in Requests \ {r} : Same(q)
        BY <3>1
      <3>3. Typed(r)'
        BY <1>1, <2>2, TypedStep
      <3> HIDE DEF Same
      <3> QED
        BY <2>1, <3>2, <3>3
    <2>3. ASSUME NEW c \in Entities, NEW e \in Entities, Merge(c, e)
          PROVE \A q \in Requests : Same(q)
      BY <1>0, <2>3 DEF Merge, ShapeInv, ReqFields
    <2>4. ASSUME NEW r \in Requests, PersistRecommendation(r) \/ PersistFails(r) PROVE req' = req
      BY <2>4 DEF PersistRecommendation, PersistFails
    <2>5. UNCHANGED vars => req' = req
      BY DEF vars
    <2>6. req' = req => \A q \in Requests : Same(q)
      OBVIOUS
    <2> HIDE DEF Same
    <2> QED
      BY <2>1, <2>2, <2>3, <2>4, <2>5, <2>6 DEF Next, Step, ReqStep
  <1> QED
    BY <1>4, <1>5, <1>6, <1>7 DEF TypeInv

(* For any requests, entities, items and bounds: the tables refer to entities, *)
(* rows and recommendations that exist, and so do the requests.              *)
THEOREM TypeCorrect == Spec => []TypeOK
  <1>1. GraphInv /\ TypeInv => TypeOK
    <2> SUFFICES ASSUME GraphInv, TypeInv PROVE TypeOK
      OBVIOUS
    <2>1. usage \in Nat
      BY RowsAreSequence DEF GraphInv, UsageInv, UsageCountsRows
    <2>2. live \subseteq Entities /\ into \in [Entities -> Entities]
      BY DEF GraphInv, IntoInv
    <2>3. \A q \in Requests : /\ recs[q].state # "unmade" => recs[q].entity \in Entities
                              /\ recs[q].outcome \in RowIds \cup {0}
      BY DEF GraphInv, MadeInv, LinkInv, Linked
    <2>4. \A r \in Requests : req[r].pc \in {"fetch", "outcome", "update"} =>
              req[r].rec \in Requests /\ req[r].outcome \in RowIds \cup {0}
      BY DEF GraphInv, LinkInv, Asks
    <2> QED
      BY <2>1, <2>2, <2>3, <2>4 DEF TypeOK, TypeInv, Typed
  <1>2. GraphInv /\ SilentInv /\ LogInv /\ TypeInv /\ [Next]_vars => TypeInv'
    BY TypeStep
  <1> QED
    BY <1>1, <1>2, TypeInit, LogInvariant, PTL DEF Spec
=============================================================================
