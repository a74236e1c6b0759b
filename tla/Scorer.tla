------------------------------- MODULE Scorer -------------------------------
(***************************************************************************)
(* The scoring engine of recommendation/scorer.go over the buckets that    *)
(* FetchInteractionStats and FetchFeedbackWeights of store.go make.        *)
(*                                                                         *)
(* A score is a fraction of Unit; a weight of the composite is a           *)
(* percentage.  exp(-lambda * days) is external: Recency.                   *)
(***************************************************************************)
EXTENDS Integers, FiniteSets, Sequences

CONSTANTS
    Recency,        \* by days since the last success: a share of Unit, which falls
    Today,          \* the day of the query
    Weight          \* percentages of rate, recency and feedback (config.go)

Unit == 1000000

ASSUME ScorerAssumption ==
    /\ Today \in Nat /\ Weight.rate \in Nat /\ Weight.recency \in Nat /\ Weight.feedback \in Nat
    /\ Recency \in [0 .. Today -> 0 .. Unit]
    /\ \A d, e \in 0 .. Today : d <= e => Recency[e] <= Recency[d]

Round4(v)  == 100 * ((v + 50) \div 100)
Clamp(v, lo, hi) == IF v < lo THEN lo ELSE IF v > hi THEN hi ELSE v
Larger(a, b) == IF a > b THEN a ELSE b
Newest(S)    == CHOOSE d \in S : \A x \in S : x <= d

(* config.go: the defaults of the bounds of a feedback weight. *)
FeedbackBounds == [min |-> Unit \div 2, max |-> Unit + Unit \div 2]

-----------------------------------------------------------------------------
(* The buckets of an entity: its interactions of the last days by api and   *)
(* action, those with enough successes (GROUP BY and HAVING).               *)
Bucket(rows, api, action) ==
    LET goods == {x \in rows : x.good} IN
    [api |-> api, action |-> action,
     total |-> Cardinality(rows), successes |-> Cardinality(goods),
     lastSuccess |-> IF goods = {} THEN -1 ELSE Newest({x.day : x \in goods}),
     lastOccurred |-> Newest({x.day : x \in rows})]

InteractionStats(rows, lookback, minSuccess) ==
    LET recent == {x \in rows : x.day > Today - lookback}
        pairs  == {<<x.api, x.action>> : x \in recent}
    IN  {b \in {Bucket({x \in recent : <<x.api, x.action>> = p}, p[1], p[2]) : p \in pairs} :
            b.successes >= minSuccess}

(* FetchFeedbackWeights: by action only, the API is left empty. *)
NoApi == "no api"

FeedbackWeights(recs) ==
    LET told == {q \in recs : q.followed # "unset"} IN
    {[api |-> NoApi, action |-> a,
      followed  |-> Cardinality({q \in told : q.action = a /\ q.followed = "yes"}),
      succeeded |-> Cardinality({q \in told : q.action = a /\ q.followed = "yes"
                                                           /\ q.outcome # 0})]
        : a \in {q.action : q \in told}}

-----------------------------------------------------------------------------
computeRecency(b) == IF b.lastSuccess = -1 THEN 0 ELSE Recency[Today - b.lastSuccess]

(* buildFeedbackMap and computeFeedbackWeight. *)
computeFeedbackWeight(b, feedback) ==
    LET found == {f \in feedback : f.api = b.api /\ f.action = b.action} IN
    IF found = {} THEN Unit
    ELSE LET f == CHOOSE f \in found : TRUE IN
         Clamp(Unit + ((2 * f.succeeded - f.followed) * Unit) \div Larger(f.followed, 1),
               FeedbackBounds.min, FeedbackBounds.max)

(* Mutant: the decay starts at the last occurrence, a success or not. *)
CompositeByOccurrence(b, feedback) ==
    LET rate  == (b.successes * Unit) \div Larger(b.total, 1)
        fresh == Recency[Today - b.lastOccurred]
    IN  Round4(Clamp((Weight.rate * rate + Weight.recency * fresh) \div 100, 0, Unit))

Composite(b, feedback) ==
    LET rate  == (b.successes * Unit) \div Larger(b.total, 1)
        delta == computeFeedbackWeight(b, feedback) - Unit
    IN  Round4(Clamp((Weight.rate * rate + Weight.recency * computeRecency(b)
                        + Weight.feedback * delta) \div 100, 0, Unit))

(* The order of sort.Slice; buckets equal in all three keys come in any order. *)
Before(a, b, feedback) ==
    LET x == Composite(a, feedback)
        y == Composite(b, feedback)
    IN  \/ x > y
        \/ x = y /\ a.successes > b.successes
        \/ x = y /\ a.successes = b.successes
                 /\ Round4(computeRecency(a)) > Round4(computeRecency(b))

(* The entries that can come first. *)
Primaries(buckets, feedback) ==
    {b \in buckets : \A a \in buckets : ~Before(a, b, feedback)}
=============================================================================
