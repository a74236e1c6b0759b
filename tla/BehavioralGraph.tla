--------------------------- MODULE BehavioralGraph ---------------------------
(***************************************************************************)
(* The behavioural graph of one tenant: interactions are logged one by one *)
(* or in batches (core_handlers.go), recommendations are computed from     *)
(* them, answered, and persisted in the background, and feedback links a   *)
(* recommendation to the interaction that came of it (recommendation/).    *)
(*                                                                         *)
(* A request is one handler, one statement or transaction at a time, served *)
(* once; a merge of identity resolution moves rows and recommendations      *)
(* between its statements.  A row's id is its place in the table, a         *)
(* recommendation's id the request that made it.                            *)
(***************************************************************************)
EXTENDS Scorer

CONSTANTS
    Requests,      \* the requests ever served, numbered as they arrive
    Entities,      \* numbers in the order of created_at
    Items,         \* the interactions clients log
    MaxBatch,      \* bound on the items of a batch (100 in the code)
    Seeded,        \* the interactions already logged
    Lookback,      \* days, and successes, asked of a recommendation
    MinSuccess,
    Served,        \* the kinds of requests, of "log", "batch", "recommend", "feedback"
    MaxInFlight,   \* bound on the requests in progress at once
    MaxMerges,     \* bound on merges
    MaxFaults      \* bound on failed statements and lost answers

ASSUME GraphAssumption ==
    /\ Entities \subseteq Nat \ {0} /\ Requests \subseteq Nat \ {0}
    /\ MaxBatch \in Nat /\ MaxInFlight \in Nat /\ MaxMerges \in Nat /\ MaxFaults \in Nat
    /\ Len(Seeded) \in Nat /\ DOMAIN Seeded = 1 .. Len(Seeded)

(* Rows are of entities and of the past; a query asks for days and successes  *)
(* (handler.go:66).                                                         *)
ASSUME SeededAssumption ==
    /\ Lookback \in Nat /\ MinSuccess \in Nat
    /\ \A n \in DOMAIN Seeded : Seeded[n].entity \in Entities /\ Seeded[n].day \in 0 .. Today

VARIABLES
    live,     \* entities that are not soft-deleted
    into,     \* the merges: what each entity was merged into (history)
    rows,     \* the table interactions
    usage,    \* the interactions counted in usage_logs
    recs,     \* the recommendations made
    req,      \* the requests
    faults    \* how many faults so far

tables == <<live, into, rows, usage, recs>>
vars   == <<live, into, rows, usage, recs, req, faults>>

NoRef == "no ref"
NoAction == ""
Key(x) == <<x.api, x.ref>>
RowIds == DOMAIN rows
Keys   == {Key(rows[n]) : n \in RowIds}

(* A row remembers whether its entity was merged away when it was inserted. *)
Stored(item) == [api |-> item.api, action |-> item.action, ref |-> item.ref,
                 good |-> item.good, day |-> item.day, entity |-> item.entity,
                 late |-> item.entity \notin live]

NoRec  == [state |-> "unmade", entity |-> 0, action |-> NoAction, followed |-> "unset",
           outcome |-> 0, late |-> FALSE]
NewReq == [pc |-> "new", kind |-> "none", items |-> <<>>, ids |-> <<>>, entity |-> 0,
           buckets |-> {}, feedback |-> {}, rec |-> 0, followed |-> "no", outcome |-> 0,
           answer |-> "none", known |-> {}, raced |-> FALSE]

-----------------------------------------------------------------------------
InProgress(r) == req[r].pc \notin {"new", "done"}

CanStart(r, kind) ==
    /\ req[r].pc = "new" /\ kind \in Served
    /\ \A q \in Requests : q < r => req[q].pc # "new"
    /\ Cardinality({q \in Requests : InProgress(q)}) < MaxInFlight

Reply(r, answer) == req' = [req EXCEPT ![r].pc = "done", ![r].answer = answer]
Goto(r, phase)   == req' = [req EXCEPT ![r].pc = phase]

(* A statement fails, or the commit's answer is lost: the client sees a 500. *)
Fault == faults < MaxFaults /\ faults' = faults + 1

Fails(r) ==
    /\ InProgress(r) /\ req[r].pc \notin {"weights", "score"} /\ Fault
    /\ Reply(r, "error")
    /\ UNCHANGED tables

-----------------------------------------------------------------------------
(* LogInteractionHandler and LogBatchInteractionsHandler *)

Batches == UNION {[1 .. n -> Items] : n \in 0 .. MaxBatch}

(* The request is read and validated: a batch of 1 to 100 items, none of them *)
(* in the future or over a year old.                                         *)
StartLog(r) ==
    /\ \E kind \in {"log", "batch"}, items \in Batches :
          /\ CanStart(r, kind) /\ (kind = "log" => Len(items) = 1)
          /\ IF items # <<>> /\ \A k \in DOMAIN items : items[k].day \in 0 .. Today
             THEN req' = [req EXCEPT ![r] = [NewReq EXCEPT !.pc = "entities", !.kind = kind,
                              !.items = items, !.known = Keys]]
             ELSE Reply(r, "invalid")
    /\ UNCHANGED <<tables, faults>>

CheckEntities(r) ==
    /\ req[r].pc = "entities"
    /\ IF \A k \in DOMAIN req[r].items : req[r].items[k].entity \in live
       THEN Goto(r, "dedupe")
       ELSE Reply(r, "not_found")
    /\ UNCHANGED <<tables, faults>>

(* Mutant: the lookup is by entity, too. *)
SameRefOfEntity(item) ==
    {n \in RowIds : item.ref # NoRef /\ Key(rows[n]) = Key(item) /\ rows[n].entity = item.entity}

SameRef(item) == {n \in RowIds : item.ref # NoRef /\ Key(rows[n]) = Key(item)}

(* One lookup per item with an external_ref (LIMIT 1: any of the rows); a    *)
(* single interaction that is found is answered at once.                    *)
Dedupe(r) ==
    /\ req[r].pc = "dedupe"
    /\ LET next == Len(req[r].ids) + 1
           same == SameRef(req[r].items[next])
       IN  \E id \in IF same = {} THEN {0} ELSE same :
              req' = [req EXCEPT
                  ![r].ids = Append(req[r].ids, id),
                  ![r].pc = IF req[r].kind = "log" /\ id # 0 THEN "done"
                            ELSE IF next = Len(req[r].items) THEN "insert" ELSE "dedupe",
                  ![r].answer = IF req[r].kind = "log" /\ id # 0 THEN "existing" ELSE "none"]
    /\ UNCHANGED <<tables, faults>>

NewItems(r) == {k \in DOMAIN req[r].items : req[r].ids[k] = 0}

(* Mutant: the ids returned are not put back to the items they are for. *)
ResultInOrder(r, k) ==
    IF req[r].ids[k] # 0 THEN req[r].ids[k] ELSE Len(rows) + k

(* newItemIndexes: the n-th row inserted is for the n-th item that is new. *)
ResultId(r, k) ==
    IF req[r].ids[k] # 0 THEN req[r].ids[k]
    ELSE Len(rows) + Cardinality({j \in NewItems(r) : j <= k})

NthNew(r, n) == CHOOSE k \in NewItems(r) : Cardinality({j \in NewItems(r) : j <= k}) = n

(* Mutant: the usage counts every item of the batch. *)
InsertCountsAll(r) ==
    /\ req[r].pc = "insert"
    /\ LET count == Cardinality(NewItems(r)) IN
       /\ rows' = rows \o [n \in 1 .. count |-> Stored(req[r].items[NthNew(r, n)])]
       /\ usage' = usage + Len(req[r].items)
    /\ req' = [req EXCEPT ![r].ids = [k \in DOMAIN req[r].items |-> ResultId(r, k)],
                          ![r].pc = "done", ![r].answer = "created"]
    /\ UNCHANGED <<live, into, recs, faults>>

(* One transaction: the rows, a count for each, COMMIT. *)
InsertItems(r) ==
    /\ req[r].pc = "insert"
    /\ UNCHANGED faults \/ Fault
    /\ LET count == Cardinality(NewItems(r)) IN
       /\ rows' = rows \o [n \in 1 .. count |-> Stored(req[r].items[NthNew(r, n)])]
       /\ usage' = usage + count
    /\ req' = [req EXCEPT ![r].ids = [k \in DOMAIN req[r].items |-> ResultId(r, k)],
                          ![r].pc = "done",
                          ![r].answer = IF faults' = faults THEN "created" ELSE "error"]
    /\ UNCHANGED <<live, into, recs>>

-----------------------------------------------------------------------------
(* RecommendHandler and Service.Recommend *)

StartRecommend(r) ==
    /\ CanStart(r, "recommend")
    /\ \E e \in Entities :
          IF e \in live
          THEN req' = [req EXCEPT ![r] = [NewReq EXCEPT !.pc = "stats", !.kind = "recommend",
                                                       !.entity = e]]
          ELSE Reply(r, "not_found")
    /\ UNCHANGED <<tables, faults>>

RowsOf(e) == {[id |-> n, api |-> rows[n].api, action |-> rows[n].action,
               good |-> rows[n].good, day |-> rows[n].day]
                 : n \in {m \in RowIds : rows[m].entity = e}}

FetchInteractionStats(r) ==
    /\ req[r].pc = "stats"
    /\ req' = [req EXCEPT ![r].pc = "weights",
               ![r].buckets = InteractionStats(RowsOf(req[r].entity), Lookback, MinSuccess)]
    /\ UNCHANGED <<tables, faults>>

RecsOf(e) == {[id |-> q, action |-> recs[q].action, followed |-> recs[q].followed,
               outcome |-> recs[q].outcome]
                 : q \in {p \in Requests : recs[p].state = "stored" /\ recs[p].entity = e}}

(* Best effort: an error leaves the feedback empty. *)
FetchFeedbackWeights(r) ==
    /\ req[r].pc = "weights"
    /\ \/ /\ req' = [req EXCEPT ![r].pc = "score",
                     ![r].feedback = FeedbackWeights(RecsOf(req[r].entity))]
          /\ UNCHANGED faults
       \/ Fault /\ Goto(r, "score")
    /\ UNCHANGED tables

(* The best action is answered under a fresh id; the goroutine that is to     *)
(* persist it is started.                                                   *)
Recommend(r) ==
    /\ req[r].pc = "score"
    /\ LET best == Primaries(req[r].buckets, req[r].feedback) IN
       \E action \in IF best = {} THEN {NoAction} ELSE {b.action : b \in best} :
          recs' = [recs EXCEPT ![r] = [NoRec EXCEPT !.state = "pending", !.action = action,
                                                   !.entity = req[r].entity]]
    /\ req' = [req EXCEPT ![r] = [NewReq EXCEPT !.pc = "done", !.kind = "recommend",
                                               !.rec = r, !.answer = "recommended"]]
    /\ UNCHANGED <<live, into, rows, usage, faults>>

(* persistAsync: the INSERT within its five seconds. *)
PersistRecommendation(r) ==
    /\ recs[r].state = "pending"
    /\ recs' = [recs EXCEPT ![r].state = "stored", ![r].late = recs[r].entity \notin live]
    /\ UNCHANGED <<live, into, rows, usage, req, faults>>

(* The INSERT fails or takes longer; the error is only logged. *)
PersistFails(r) ==
    /\ recs[r].state = "pending" /\ Fault
    /\ recs' = [recs EXCEPT ![r].state = "lost"]
    /\ UNCHANGED <<live, into, rows, usage, req>>

-----------------------------------------------------------------------------
(* FeedbackHandler *)

(* Clients know the recommendations and the rows they were answered. *)
StartFeedback(r) ==
    /\ CanStart(r, "feedback")
    /\ \E q \in Requests, f \in {"yes", "no"}, n \in RowIds \cup {0} :
          /\ recs[q].state # "unmade"
          /\ req' = [req EXCEPT ![r] = [NewReq EXCEPT !.pc = "fetch", !.kind = "feedback",
                                 !.rec = q, !.followed = f, !.outcome = n]]
    /\ UNCHANGED <<tables, faults>>

FetchRecommendation(r) ==
    /\ req[r].pc = "fetch"
    /\ LET rec == recs[req[r].rec] IN
       IF rec.state = "stored"
       THEN req' = [req EXCEPT ![r].entity = rec.entity,
                    ![r].pc = IF req[r].outcome = 0 THEN "update" ELSE "outcome"]
       ELSE Reply(r, "not_found")
    /\ UNCHANGED <<tables, faults>>

(* Mutant: any interaction of the tenant will do. *)
AcceptAnyOutcome(r) == req[r].pc = "outcome" /\ Goto(r, "update") /\ UNCHANGED <<tables, faults>>

FetchOutcome(r) ==
    /\ req[r].pc = "outcome"
    /\ IF rows[req[r].outcome].entity = req[r].entity THEN Goto(r, "update")
       ELSE Reply(r, "mismatch")
    /\ UNCHANGED <<tables, faults>>

(* Last write wins. *)
UpdateFeedback(r) ==
    /\ req[r].pc = "update"
    /\ recs' = [recs EXCEPT ![req[r].rec].followed = req[r].followed,
                            ![req[r].rec].outcome = req[r].outcome]
    /\ Reply(r, "ok")
    /\ UNCHANGED <<live, into, rows, usage, faults>>

-----------------------------------------------------------------------------
(* Mutant: the recommendations of a merged entity stay where they are. *)
RepointNoRecommendation(q, c, e) == recs[q].entity

RepointRecommendation(q, c, e) ==
    IF recs[q].state = "stored" /\ recs[q].entity = e THEN c ELSE recs[q].entity

(* The transaction that merges e into the older c moves what hangs on e and   *)
(* soft-deletes it (EntityResolution has its statements).                   *)
Merge(c, e) ==
    /\ c < e /\ c \in live /\ e \in live
    /\ Cardinality({x \in Entities : into[x] # x}) < MaxMerges
    /\ rows' = [n \in RowIds |->
                  IF rows[n].entity = e THEN [rows[n] EXCEPT !.entity = c] ELSE rows[n]]
    /\ recs' = [q \in Requests |->
                  [recs[q] EXCEPT !.entity = RepointRecommendation(q, c, e)]]
    /\ live' = live \ {e}
    /\ into' = [x \in Entities |-> IF into[x] = e THEN c ELSE into[x]]
    /\ req'  = [r \in Requests |->
                  IF InProgress(r) THEN [req[r] EXCEPT !.raced = TRUE] ELSE req[r]]
    /\ UNCHANGED <<usage, faults>>

-----------------------------------------------------------------------------
Init ==
    /\ live = Entities
    /\ into = [e \in Entities |-> e]
    /\ rows = [n \in DOMAIN Seeded |-> Stored(Seeded[n])]
    /\ usage = Len(Seeded)
    /\ recs = [r \in Requests |-> NoRec]
    /\ req = [r \in Requests |-> NewReq]
    /\ faults = 0

Step(r) ==
    \/ CheckEntities(r) \/ Dedupe(r) \/ InsertItems(r)
    \/ FetchInteractionStats(r) \/ FetchFeedbackWeights(r) \/ Recommend(r)
    \/ FetchRecommendation(r) \/ FetchOutcome(r) \/ UpdateFeedback(r) \/ Fails(r)

Next ==
    \/ \E r \in Requests : StartLog(r) \/ StartRecommend(r) \/ StartFeedback(r) \/ Step(r)
    \/ \E r \in Requests : PersistRecommendation(r) \/ PersistFails(r)
    \/ \E c, e \in Entities : Merge(c, e)

Spec == Init /\ [][Next]_vars

-----------------------------------------------------------------------------
(***************************************************************************)
(* Properties                                                              *)
(***************************************************************************)

Phases  == {"new", "entities", "dedupe", "insert", "stats", "weights", "score", "fetch",
            "outcome", "update", "done"}
Answers == {"none", "error", "invalid", "not_found", "existing", "created", "recommended",
            "mismatch", "ok"}

(* The tables refer to entities, rows and recommendations that exist.       *)
TypeOK ==
    /\ live \subseteq Entities /\ into \in [Entities -> Entities]
    /\ \A n \in RowIds : rows[n].entity \in Entities
    /\ usage \in Nat /\ faults \in 0 .. MaxFaults
    /\ \A q \in Requests :
          /\ recs[q].state \in {"unmade", "pending", "stored", "lost"}
          /\ recs[q].state # "unmade" => recs[q].entity \in Entities
          /\ recs[q].outcome \in RowIds \cup {0}
    /\ \A r \in Requests :
          /\ req[r].pc \in Phases /\ req[r].answer \in Answers
          /\ req[r].pc \in {"fetch", "outcome", "update"} =>
                req[r].rec \in Requests /\ req[r].outcome \in RowIds \cup {0}
          /\ \A k \in DOMAIN req[r].ids : req[r].ids[k] \in RowIds \cup {0}

(* core_handlers.go:1143, "Supports idempotent logging via external_ref": a  *)
(* request logs no reference again that was in the table when it came,      *)
(* whatever was merged meanwhile.                                           *)
KnownRefsNotRelogged ==
    [][\A r \in Requests : req[r].pc = "insert" /\ req'[r].pc = "done" =>
          \A n \in DOMAIN rows' \ RowIds :
              rows'[n].ref # NoRef => Key(rows'[n]) \notin req[r].known]_vars

(* Every id answered for an item is that of a row with the item's reference; *)
(* without a reference it is the item's own row, on the item's person.      *)
AnswersNameTheirRows ==
    \A r \in Requests : req[r].answer \in {"created", "existing"} =>
        \A k \in DOMAIN req[r].items :
            LET item == req[r].items[k]
                row  == rows[req[r].ids[k]]
            IN  /\ req[r].ids[k] \in RowIds /\ Key(row) = Key(item)
                /\ item.ref = NoRef => /\ row.action = item.action /\ row.good = item.good
                                       /\ row.day = item.day
                                       /\ into[row.entity] = into[item.entity]

(* What is billed is what is stored, through failures and duplicates.        *)
UsageCountsRows == usage = Len(rows)

(* A recommendation and the interaction that feedback links to it are of the *)
(* same person, through every merge.                                        *)
FeedbackOfItsPerson ==
    \A q \in Requests : recs[q].outcome # 0 =>
        into[rows[recs[q].outcome].entity] = into[recs[q].entity]

(* Feedback that names an interaction of the right person is refused only if *)
(* a merge came during the request, or before the row or the recommendation  *)
(* it had overtaken was inserted.                                           *)
RefusedOnlyByRace ==
    [][\A r \in Requests : req[r].pc = "outcome" /\ req'[r].answer = "mismatch" =>
          LET rec == recs[req[r].rec]
              row == rows[req[r].outcome]
          IN  \/ into[row.entity] # into[rec.entity]
              \/ req[r].raced \/ row.late \/ rec.late]_vars

(* Whenever a recommendation is computed: one more success would not have     *)
(* cost an action its first place, one more failure not gained it one.      *)
Pairs(buckets) == {<<b.api, b.action>> : b \in buckets}

OutcomesMoveTheRanking ==
    \A r \in Requests : req[r].pc = "stats" =>
        LET e           == req[r].entity
            feedback    == FeedbackWeights(RecsOf(e))
            First(S)    == Pairs(Primaries(InteractionStats(S, Lookback, MinSuccess), feedback))
            With(p, ok) == RowsOf(e) \cup {[id |-> 0, api |-> p[1], action |-> p[2],
                                            good |-> ok, day |-> Today]}
        IN  \A p \in Pairs(InteractionStats(RowsOf(e), Lookback, MinSuccess)) :
                /\ p \in First(RowsOf(e)) => p \in First(With(p, TRUE))
                /\ p \in First(With(p, FALSE)) => p \in First(RowsOf(e))

(* scorer.go:102, "Neutral = 1.0 (no feedback history). >1.0 = more successes *)
(* than failures".                                                          *)
FeedbackMovesWeight ==
    \A r \in Requests : req[r].pc = "score" =>
        \A b \in req[r].buckets, f \in req[r].feedback :
            b.action = f.action /\ 2 * f.succeeded > f.followed
                => computeFeedbackWeight(b, req[r].feedback) > Unit
=============================================================================
