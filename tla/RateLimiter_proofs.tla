------------------------ MODULE RateLimiter_proofs ------------------------
(* Proofs about RateLimiter, for any number of requests and keys, any limit, *)
(* window, interval and delay.                                              *)
EXTENDS RateLimiter, FiniteSetTheorems, WellFoundedInduction, TLAPS

USE DEF None

LEMMA Numbers ==
    /\ NumRequests \in Nat /\ Limit \in Nat /\ Window \in Nat /\ Interval \in Nat
    /\ MaxDelay \in Nat /\ LastArrival \in Nat /\ MaxTime \in Nat
    /\ MaxDelay < Window /\ Limit > 0 /\ None \notin Requests
  BY RateLimiterAssumption DEF Requests

(* Sets of requests are finite: their sizes are numbers that can be compared. *)
LEMMA SizeOf ==
    ASSUME NEW S \in SUBSET Requests
    PROVE  IsFiniteSet(S) /\ Cardinality(S) \in Nat
<1>1. IsFiniteSet(Requests)
  BY Numbers, FS_Interval DEF Requests
<1> QED
  BY <1>1, FS_Subset, FS_CardinalityType

LEMMA SizesCompare ==
    ASSUME NEW T \in SUBSET Requests, NEW S \in SUBSET T
    PROVE  Cardinality(S) <= Cardinality(T)
  BY SizeOf, FS_Subset

-----------------------------------------------------------------------------
(* The clock runs ahead of no decision by more than MaxDelay. *)
ClockInv ==
    /\ \A r \in Requests :
           /\ req[r].at <= now
           /\ req[r].pc \in {"load", "check"} => now <= req[r].at + MaxDelay
    /\ cleaner.at <= now

(* What is known of a request at each step, and of the one its bucket is named after. *)
StageInv ==
    \A r \in Requests :
        /\ req[r].pc # "done" => req[r].answer = "pending" /\ req[r].turn = 0
        /\ req[r].answer \in {"allowed", "refused"} => req[r].bucket # None
        /\ req[r].pc \in {"load", "check"} => req[r].key \in Keys
        /\ req[r].pc = "check" => req[r].bucket # None
        /\ req[r].pc \in {"idle", "load"} => req[r].bucket = None
        /\ req[r].bucket # None => /\ req[req[r].bucket].key = req[r].key
                                   /\ req[req[r].bucket].bucket # None

(* A bucket of the map is its key's, holds what it let in and never too much. *)
StoreInv ==
    /\ \A k \in Keys : bucket[k] # None => /\ req[bucket[k]].key = k
                                            /\ req[bucket[k]].bucket # None
    /\ \A b \in Requests :
           /\ records[b] \subseteq {q \in Allowed : req[q].bucket = b}
           /\ Cardinality(records[b]) <= Limit

(* Only what has left the window is ever evicted. *)
KeptInv ==
    \A q \in Allowed : q \in records[req[q].bucket] \/ req[q].at + Window <= now

(* A bucket to delete is still in the map, with nothing from before the pass. *)
CleanerInv ==
    \A k \in cleaner.drop :
        /\ bucket[k] # None
        /\ \A q \in records[bucket[k]] : cleaner.at <= req[q].at + MaxDelay

LimiterInv == TypeOK /\ ClockInv /\ StageInv /\ StoreInv /\ KeptInv /\ CleanerInv

-----------------------------------------------------------------------------
(* What a decision sees, and what it changes. *)
Valid(r) == InWindow(records[req[r].bucket], req[r].at)

After(r) == IF Cardinality(Valid(r)) < Limit THEN Valid(r) \cup {r} ELSE Valid(r)

LEMMA ValidIs ==
    ASSUME LimiterInv, NEW r \in Requests, req[r].pc = "check"
    PROVE  /\ req[r].bucket \in Requests
           /\ Valid(r) = {q \in records[req[r].bucket] : req[q].at + Window > req[r].at}
           /\ Valid(r) \in SUBSET Allowed /\ Valid(r) \in SUBSET Requests
           /\ r \notin Valid(r) /\ Cardinality(Valid(r)) \in Nat
           /\ Cardinality(Valid(r)) <= Limit
<1>1. req[r].bucket \in Requests /\ req[r].answer = "pending"
  BY DEF LimiterInv, TypeOK, StageInv
<1>2. Valid(r) = {q \in records[req[r].bucket] : req[q].at + Window > req[r].at}
  BY DEF Valid, InWindow
<1>3. records[req[r].bucket] \subseteq Allowed /\ Cardinality(records[req[r].bucket]) <= Limit
  BY <1>1 DEF LimiterInv, StoreInv
<1>4. Valid(r) \in SUBSET Allowed /\ Valid(r) \in SUBSET Requests /\ r \notin Valid(r)
  BY <1>1, <1>2, <1>3 DEF Allowed
<1>5. records[req[r].bucket] \in SUBSET Requests
  BY <1>1 DEF LimiterInv, TypeOK
<1>6. Cardinality(Valid(r)) <= Cardinality(records[req[r].bucket])
  BY <1>2, <1>5, SizesCompare
<1>7. Cardinality(Valid(r)) \in Nat /\ Cardinality(records[req[r].bucket]) \in Nat
  BY <1>4, <1>5, SizeOf
<1> QED
  BY <1>1, <1>2, <1>3, <1>4, <1>6, <1>7, Numbers

(* Numbers, however many, have a least one. *)
LEMMA LeastExists ==
    ASSUME NEW T \in SUBSET Nat, T # {}
    PROVE  \E t \in T : \A u \in T : t <= u
<1> DEFINE R == {p \in Nat \X Nat : p[1] < p[2]}
<1>1. IsWellFoundedOn(R, Nat)
  <2>1. R = OpToRel(<, Nat)
    BY DEF OpToRel
  <2> QED
    BY <2>1, NatLessThanWellFounded
<1>2. \A t, u \in Nat : <<u, t>> \notin R => t <= u
  <2> SUFFICES ASSUME NEW t \in Nat, NEW u \in Nat, u < t PROVE <<u, t>> \in R
    OBVIOUS
  <2> DEFINE p == <<u, t>>
  <2>1. p \in Nat \X Nat /\ p[1] < p[2]
    OBVIOUS
  <2> QED
    BY <2>1
<1> HIDE DEF R
<1>3. \E t \in T : \A u \in T : <<u, t>> \notin R
  BY <1>1, WFMin
<1> QED
  BY <1>2, <1>3

(* A bucket that records something lists something first. *)
LEMMA FirstIsThere ==
    ASSUME TypeOK, NEW S \in SUBSET Requests, S # {}
    PROVE  FirstOf(S) \in S
<1> DEFINE T == {req[q].turn : q \in S}
<1>0. \A q \in Requests : req[q].turn \in Nat
  BY DEF TypeOK
<1>1. T \in SUBSET Nat /\ T # {}
  BY <1>0
<1>2. PICK t \in T : \A u \in T : t <= u
  <2> HIDE DEF T
  <2> QED
    BY <1>1, LeastExists
<1>3. \E q \in S : \A p \in S : req[q].turn <= req[p].turn
  BY <1>2
<1> DEFINE First(q) == \A p \in S : req[q].turn <= req[p].turn
<1>4. \E q \in S : First(q)
  BY <1>3
<1>5. FirstOf(S) = CHOOSE q \in S : First(q)
  BY DEF FirstOf
<1> HIDE DEF First
<1> QED
  BY <1>4, <1>5

(* A step of r leaves the other requests alone. *)
OthersKeep(r) ==
    \A q \in Requests : q # r =>
        /\ req'[q].pc = req[q].pc /\ req'[q].at = req[q].at /\ req'[q].answer = req[q].answer
        /\ req'[q].key = req[q].key /\ req'[q].bucket = req[q].bucket
        /\ req'[q].turn = req[q].turn

LEMMA CheckChanges ==
    ASSUME LimiterInv, NEW r \in Requests, CheckRateLimit(r)
    PROVE  /\ req[r].pc = "check"
           /\ records' = [records EXCEPT ![req[r].bucket] = After(r)]
           /\ OthersKeep(r)
           /\ req'[r].at = req[r].at /\ req'[r].key = req[r].key
           /\ req'[r].bucket = req[r].bucket /\ req'[r].pc = "done"
           /\ req'[r].answer = IF Cardinality(Valid(r)) < Limit THEN "allowed" ELSE "refused"
           /\ req'[r].reset = Window + IF Valid(r) = {} THEN req[r].at
                                       ELSE req[FirstOf(Valid(r))].at
           /\ req' \in [Requests -> [pc : {"idle", "load", "check", "done"}, at : Nat,
                                     answer : Answers, key : Keys \cup {None},
                                     bucket : Requests \cup {None}, turn : Nat, reset : Nat]]
           /\ UNCHANGED <<now, bucket, cleaner>>
<1> DEFINE allowed == Cardinality(Valid(r)) < Limit
           turn    == IF allowed THEN Cardinality(Admitted) + 1 ELSE 0
           reset   == Window + IF Valid(r) = {} THEN req[r].at ELSE req[FirstOf(Valid(r))].at
           answer  == IF allowed THEN "allowed" ELSE "refused"
<1>1. Answer(r, Valid(r), allowed, After(r))
  BY Zenon DEF CheckRateLimit, Valid, After
<1>2. /\ req[r].pc = "check"
      /\ records' = [records EXCEPT ![req[r].bucket] = After(r)]
      /\ req' = [req EXCEPT ![r] = [req[r] EXCEPT !.pc = "done", !.turn = turn,
                                                  !.answer = answer, !.reset = reset]]
      /\ UNCHANGED <<now, bucket, cleaner>>
  BY <1>1 DEF Answer
<1>3. req[r] \in [pc : {"idle", "load", "check", "done"}, at : Nat, answer : Answers,
                  key : Keys \cup {None}, bucket : Requests \cup {None},
                  turn : Nat, reset : Nat]
  BY DEF LimiterInv, TypeOK
<1>4. turn \in Nat
  <2>1. Admitted \in SUBSET Requests
    BY DEF Admitted
  <2>2. Cardinality(Admitted) \in Nat
    BY <2>1, SizeOf
  <2> QED
    BY <2>2
<1>5. reset \in Nat
  <2>1. Valid(r) \in SUBSET Requests
    BY <1>2, ValidIs
  <2>2. Valid(r) # {} => FirstOf(Valid(r)) \in Requests
    BY <2>1, FirstIsThere DEF LimiterInv
  <2>3. \A q \in Requests : req[q].at \in Nat
    BY DEF LimiterInv, TypeOK
  <2> QED
    BY <2>2, <2>3, Numbers
<1>6. answer \in Answers
  BY DEF Answers
<1> HIDE DEF turn, reset, allowed, answer
<1>7. req \in [Requests -> [pc : {"idle", "load", "check", "done"}, at : Nat, answer : Answers,
                            key : Keys \cup {None}, bucket : Requests \cup {None},
                            turn : Nat, reset : Nat]]
  BY DEF LimiterInv, TypeOK
<1>8. /\ \A q \in Requests : q # r => req'[q] = req[q]
      /\ req'[r] = [req[r] EXCEPT !.pc = "done", !.turn = turn,
                                  !.answer = answer, !.reset = reset]
  BY <1>2, <1>7
<1>9. /\ req'[r].at = req[r].at /\ req'[r].key = req[r].key
      /\ req'[r].bucket = req[r].bucket /\ req'[r].pc = "done"
      /\ req'[r].answer = answer /\ req'[r].reset = reset
  BY <1>3, <1>8
<1>10. req' \in [Requests -> [pc : {"idle", "load", "check", "done"}, at : Nat,
                              answer : Answers, key : Keys \cup {None},
                              bucket : Requests \cup {None}, turn : Nat, reset : Nat]]
  BY <1>2, <1>3, <1>4, <1>5, <1>6, <1>7
<1>11. OthersKeep(r)
  BY <1>8 DEF OthersKeep
<1> QED
  BY <1>2, <1>9, <1>10, <1>11 DEF allowed, answer, reset

-----------------------------------------------------------------------------
(* The other steps of a request, field by field. *)
Records == [pc : {"idle", "load", "check", "done"}, at : Nat, answer : Answers,
            key : Keys \cup {None}, bucket : Requests \cup {None}, turn : Nat, reset : Nat]

LEMMA ReqType ==
    ASSUME TypeOK
    PROVE  /\ req \in [Requests -> Records]
           /\ \A r \in Requests : req[r] \in Records
  BY DEF TypeOK, Records

LEMMA BypassChanges ==
    ASSUME TypeOK, NEW r \in Requests, Bypass(r)
    PROVE  /\ req[r].pc = "idle" /\ req' \in [Requests -> Records] /\ OthersKeep(r)
           /\ req'[r].pc = "done" /\ req'[r].answer = "unlimited" /\ req'[r].at = req[r].at
           /\ req'[r].key = req[r].key /\ req'[r].bucket = req[r].bucket
           /\ UNCHANGED <<now, bucket, records, cleaner>>
<1> DEFINE new == [req[r] EXCEPT !.pc = "done", !.answer = "unlimited"]
<1>1. /\ req[r].pc = "idle" /\ UNCHANGED <<now, bucket, records, cleaner>>
      /\ req' = [req EXCEPT ![r] = new]
  BY DEF Bypass, IsNext
<1>2. /\ new \in Records
      /\ new.pc = "done" /\ new.answer = "unlimited" /\ new.at = req[r].at
      /\ new.key = req[r].key /\ new.bucket = req[r].bucket
  BY ReqType DEF Records, Answers
<1> HIDE DEF new
<1>3. req'[r] = new /\ req' \in [Requests -> Records]
  BY <1>1, <1>2, ReqType
<1>4. OthersKeep(r)
  BY <1>1, ReqType DEF OthersKeep
<1> QED
  BY <1>1, <1>2, <1>3, <1>4

LEMMA ArriveChanges ==
    ASSUME TypeOK, NEW r \in Requests, NEW k \in Keys, Arrive(r, k)
    PROVE  /\ req[r].pc = "idle" /\ req' \in [Requests -> Records] /\ OthersKeep(r)
           /\ req'[r].pc = "load" /\ req'[r].at = now /\ req'[r].key = k
           /\ req'[r].answer = req[r].answer /\ req'[r].bucket = req[r].bucket
           /\ req'[r].turn = req[r].turn
           /\ UNCHANGED <<now, bucket, records, cleaner>>
<1> DEFINE new == [req[r] EXCEPT !.pc = "load", !.at = now, !.key = k]
<1>1. /\ req[r].pc = "idle" /\ UNCHANGED <<now, bucket, records, cleaner>>
      /\ req' = [req EXCEPT ![r] = new]
  BY DEF Arrive, IsNext
<1>2. now \in Nat
  BY Numbers DEF TypeOK
<1>3. /\ new \in Records
      /\ new.pc = "load" /\ new.at = now /\ new.key = k /\ new.answer = req[r].answer
      /\ new.bucket = req[r].bucket /\ new.turn = req[r].turn
  BY <1>2, ReqType DEF Records
<1> HIDE DEF new
<1>4. req'[r] = new /\ req' \in [Requests -> Records]
  BY <1>1, <1>3, ReqType
<1>5. OthersKeep(r)
  BY <1>1, ReqType DEF OthersKeep
<1> QED
  BY <1>1, <1>3, <1>4, <1>5

(* The bucket a request finds, or else its own. *)
Found(r) == IF bucket[req[r].key] = None THEN r ELSE bucket[req[r].key]

LEMMA LoadChanges ==
    ASSUME TypeOK, StageInv, NEW r \in Requests, LoadBucket(r)
    PROVE  /\ req[r].pc = "load" /\ req[r].key \in Keys
           /\ req' \in [Requests -> Records] /\ OthersKeep(r)
           /\ Found(r) \in Requests /\ Found(r) # None
           /\ bucket' = [bucket EXCEPT ![req[r].key] = Found(r)]
           /\ req'[r].pc = "check" /\ req'[r].at = req[r].at /\ req'[r].key = req[r].key
           /\ req'[r].answer = req[r].answer /\ req'[r].bucket = Found(r)
           /\ req'[r].turn = req[r].turn
           /\ UNCHANGED <<now, records, cleaner>>
<1> DEFINE new == [req[r] EXCEPT !.pc = "check", !.bucket = Found(r)]
<1>1. /\ req[r].pc = "load" /\ UNCHANGED <<now, records, cleaner>>
      /\ bucket' = [bucket EXCEPT ![req[r].key] = Found(r)]
      /\ req' = [req EXCEPT ![r] = new]
  BY DEF LoadBucket, Found
<1>2. req[r].key \in Keys
  BY <1>1 DEF StageInv
<1>3. Found(r) \in Requests /\ Found(r) # None
  BY <1>2, Numbers DEF Found, TypeOK, Requests
<1>4. /\ new \in Records
      /\ new.pc = "check" /\ new.at = req[r].at /\ new.key = req[r].key
      /\ new.answer = req[r].answer /\ new.bucket = Found(r) /\ new.turn = req[r].turn
  BY <1>3, ReqType DEF Records
<1> HIDE DEF new
<1>5. req'[r] = new /\ req' \in [Requests -> Records]
  BY <1>1, <1>4, ReqType
<1>6. OthersKeep(r)
  BY <1>1, ReqType DEF OthersKeep
<1> QED
  BY <1>1, <1>2, <1>3, <1>4, <1>5, <1>6

LEMMA VisitChanges ==
    ASSUME TypeOK, NEW k \in Keys, CleanupVisit(k)
    PROVE  /\ cleaner.pc = "range" /\ k \in cleaner.left /\ bucket[k] \in Requests
           /\ records' = [records EXCEPT ![bucket[k]] = InWindow(records[bucket[k]], cleaner.at)]
           /\ cleaner' = [cleaner EXCEPT
                              !.left = @ \ {k},
                              !.drop = IF InWindow(records[bucket[k]], cleaner.at) = {}
                                       THEN @ \cup {k} ELSE @]
           /\ UNCHANGED <<now, bucket, req>>
<1>1. bucket[k] \in Requests
  BY DEF CleanupVisit, TypeOK
<1> QED
  BY <1>1 DEF CleanupVisit

LEMMA WindowShrinks ==
    ASSUME NEW S, NEW t
    PROVE  /\ InWindow(S, t) \subseteq S
           /\ InWindow(S, t) = {q \in S : req[q].at + Window > t}
  BY DEF InWindow

-----------------------------------------------------------------------------
(* The invariant, conjunct by conjunct. *)
LEMMA Initially == Init => LimiterInv
<1> SUFFICES ASSUME Init PROVE LimiterInv
  OBVIOUS
<1>1. TypeOK
  BY Numbers DEF Init, TypeOK, Answers
<1>2. ClockInv /\ StageInv /\ KeptInv /\ CleanerInv
  BY DEF Init, ClockInv, StageInv, KeptInv, CleanerInv, Allowed
<1>3. StoreInv
  <2>1. Cardinality({}) = 0
    BY FS_EmptySet
  <2> QED
    BY <2>1, Numbers DEF Init, StoreInv
<1> QED
  BY <1>1, <1>2, <1>3 DEF LimiterInv

LEMMA TypeStep == LimiterInv /\ [Next]_vars => TypeOK'
<1> SUFFICES ASSUME LimiterInv, [Next]_vars PROVE TypeOK'
  OBVIOUS
<1>0. TypeOK
  BY DEF LimiterInv
<1>1. CASE Tick
  BY <1>0, <1>1, Numbers DEF Tick, TypeOK
<1>2. CASE UNCHANGED vars
  BY <1>0, <1>2 DEF vars, TypeOK
<1>3. ASSUME NEW r \in Requests, Bypass(r) PROVE TypeOK'
  BY <1>0, <1>3, BypassChanges DEF TypeOK, Records
<1>4. ASSUME NEW r \in Requests, NEW k \in Keys, Arrive(r, k) PROVE TypeOK'
  BY <1>0, <1>4, ArriveChanges DEF TypeOK, Records
<1>5. ASSUME NEW r \in Requests, LoadBucket(r) PROVE TypeOK'
  <2>1. StageInv
    BY DEF LimiterInv
  <2>2. bucket' \in [Keys -> Requests \cup {None}]
    <3>1. /\ Found(r) \in Requests /\ bucket \in [Keys -> Requests \cup {None}]
          /\ bucket' = [bucket EXCEPT ![req[r].key] = Found(r)]
      BY <1>0, <1>5, <2>1, LoadChanges DEF TypeOK
    <3> QED
      BY <3>1
  <2> QED
    BY <1>0, <1>5, <2>1, <2>2, LoadChanges DEF TypeOK, Records
<1>6. ASSUME NEW r \in Requests, CheckRateLimit(r) PROVE TypeOK'
  <2>1. After(r) \in SUBSET Requests
    BY <1>6, CheckChanges, ValidIs DEF After
  <2>2. records' \in [Requests -> SUBSET Requests]
    BY <1>0, <1>6, <2>1, CheckChanges DEF TypeOK
  <2> QED
    BY <1>0, <1>6, <2>2, CheckChanges DEF TypeOK
<1>7. CASE CleanupStart
  BY <1>0, <1>7, Numbers DEF CleanupStart, TypeOK
<1>8. CASE CleanupRanged \/ CleanupEnd
  BY <1>0, <1>8 DEF CleanupRanged, CleanupEnd, TypeOK
<1>9. ASSUME NEW k \in Keys, CleanupVisit(k) PROVE TypeOK'
  <2> DEFINE kept == InWindow(records[bucket[k]], cleaner.at)
  <2>1. /\ bucket[k] \in Requests /\ records \in [Requests -> SUBSET Requests]
        /\ records' = [records EXCEPT ![bucket[k]] = kept]
    BY <1>0, <1>9, VisitChanges DEF TypeOK
  <2>2. kept \in SUBSET Requests
    BY <2>1, WindowShrinks
  <2>3. records' \in [Requests -> SUBSET Requests]
    <3> HIDE DEF kept
    <3> QED
      BY <2>1, <2>2
  <2>4. cleaner' \in [pc : {"idle", "range", "delete"}, at : Nat,
                      left : SUBSET Keys, drop : SUBSET Keys]
    <3>1. cleaner' = [cleaner EXCEPT !.left = @ \ {k},
                                     !.drop = IF kept = {} THEN @ \cup {k} ELSE @]
      BY <1>0, <1>9, VisitChanges, Zenon
    <3>2. cleaner \in [pc : {"idle", "range", "delete"}, at : Nat,
                       left : SUBSET Keys, drop : SUBSET Keys]
      BY <1>0 DEF TypeOK
    <3> HIDE DEF kept
    <3> QED
      BY <3>1, <3>2
  <2> QED
    BY <1>0, <1>9, <2>3, <2>4, VisitChanges DEF TypeOK
<1>10. ASSUME NEW k \in Keys, CleanupSkip(k) \/ CleanupDelete(k) PROVE TypeOK'
  BY <1>0, <1>10 DEF CleanupSkip, CleanupDelete, TypeOK
<1> QED
  BY <1>1, <1>2, <1>3, <1>4, <1>5, <1>6, <1>7, <1>8, <1>9, <1>10
  DEF Next, Serve, Cleanup, TimeIsUp

LEMMA ClockStep == LimiterInv /\ [Next]_vars => ClockInv'
<1> SUFFICES ASSUME LimiterInv, [Next]_vars PROVE ClockInv'
  OBVIOUS
<1>0. /\ TypeOK /\ ClockInv /\ StageInv /\ now \in Nat /\ cleaner.at \in Nat
      /\ \A r \in Requests : req[r].at \in Nat
  BY Numbers DEF LimiterInv, TypeOK
<1>1. CASE Tick
  BY <1>0, <1>1, Numbers DEF Tick, ClockInv
<1>2. CASE UNCHANGED vars
  BY <1>0, <1>2 DEF vars, ClockInv
<1>3. ASSUME NEW r \in Requests, Bypass(r) PROVE ClockInv'
  BY <1>0, <1>3, BypassChanges DEF ClockInv, OthersKeep
<1>4. ASSUME NEW r \in Requests, NEW k \in Keys, Arrive(r, k) PROVE ClockInv'
  BY <1>0, <1>4, ArriveChanges, Numbers DEF ClockInv, OthersKeep
<1>5. ASSUME NEW r \in Requests, LoadBucket(r) PROVE ClockInv'
  BY <1>0, <1>5, LoadChanges DEF ClockInv, OthersKeep
<1>6. ASSUME NEW r \in Requests, CheckRateLimit(r) PROVE ClockInv'
  BY <1>0, <1>6, CheckChanges DEF ClockInv, OthersKeep
<1>7. CASE CleanupStart
  BY <1>0, <1>7 DEF CleanupStart, ClockInv
<1>8. CASE CleanupRanged \/ CleanupEnd
  BY <1>0, <1>8 DEF CleanupRanged, CleanupEnd, ClockInv, TypeOK
<1>9. ASSUME NEW k \in Keys, CleanupVisit(k) \/ CleanupSkip(k) \/ CleanupDelete(k)
      PROVE  ClockInv'
  BY ZenonT(40), <1>0, <1>9 DEF CleanupVisit, CleanupSkip, CleanupDelete, ClockInv, TypeOK
<1> QED
  BY <1>1, <1>2, <1>3, <1>4, <1>5, <1>6, <1>7, <1>8, <1>9
  DEF Next, Serve, Cleanup, TimeIsUp

LEMMA StageStep == LimiterInv /\ [Next]_vars => StageInv'
<1> SUFFICES ASSUME LimiterInv, [Next]_vars PROVE StageInv'
  OBVIOUS
<1>0. /\ TypeOK /\ StageInv
      /\ \A r \in Requests : req[r].bucket \in Requests \cup {None}
  BY DEF LimiterInv, TypeOK
<1>1. CASE UNCHANGED req
  BY <1>0, <1>1 DEF StageInv
<1>2. ASSUME NEW r \in Requests, Bypass(r) PROVE StageInv'
  BY <1>0, <1>2, BypassChanges DEF StageInv, OthersKeep
<1>3. ASSUME NEW r \in Requests, NEW k \in Keys, Arrive(r, k) PROVE StageInv'
  <2>1. \A q \in Requests : req[q].bucket # r
    BY <1>0, <1>3, ArriveChanges, Numbers DEF StageInv
  <2> QED
    BY <1>0, <1>3, <2>1, ArriveChanges DEF StageInv, OthersKeep
<1>4. ASSUME NEW r \in Requests, LoadBucket(r) PROVE StageInv'
  <2>1. Found(r) # r => req[Found(r)].key = req[r].key /\ req[Found(r)].bucket # None
    BY <1>0, <1>4, LoadChanges DEF LimiterInv, StoreInv, Found
  <2> QED
    BY <1>0, <1>4, <2>1, LoadChanges DEF StageInv, OthersKeep
<1>5. ASSUME NEW r \in Requests, CheckRateLimit(r) PROVE StageInv'
  BY <1>0, <1>5, CheckChanges DEF StageInv, OthersKeep
<1> QED
  BY <1>1, <1>2, <1>3, <1>4, <1>5
  DEF Next, Serve, Cleanup, TimeIsUp, Tick, vars, CleanupStart, CleanupRanged, CleanupEnd,
      CleanupVisit, CleanupSkip, CleanupDelete

(* Those let in before are still let in, at the same time and in the same bucket. *)
LEMMA AllowedGrow ==
    ASSUME LimiterInv, [Next]_vars
    PROVE  /\ \A q \in Allowed : /\ q \in Allowed' /\ req'[q].at = req[q].at
                                 /\ req'[q].key = req[q].key /\ req'[q].bucket = req[q].bucket
           /\ \A q \in Allowed' : q \in Allowed \/ CheckRateLimit(q)
<1> DEFINE Grow == /\ \A q \in Allowed : /\ q \in Allowed' /\ req'[q].at = req[q].at
                                         /\ req'[q].key = req[q].key
                                         /\ req'[q].bucket = req[q].bucket
                   /\ \A q \in Allowed' : q \in Allowed \/ CheckRateLimit(q)
<1>0. /\ TypeOK /\ StageInv
      /\ \A q \in Allowed : q \in Requests /\ req[q].pc = "done" /\ req[q].answer = "allowed"
  BY DEF LimiterInv, StageInv, Allowed
<1>1. CASE UNCHANGED req
  BY <1>0, <1>1 DEF Allowed
<1>2. ASSUME NEW r \in Requests, Bypass(r) PROVE Grow
  BY <1>0, <1>2, BypassChanges DEF OthersKeep, Allowed
<1>3. ASSUME NEW r \in Requests, NEW k \in Keys, Arrive(r, k) PROVE Grow
  BY <1>0, <1>3, ArriveChanges DEF OthersKeep, Allowed, StageInv
<1>4. ASSUME NEW r \in Requests, LoadBucket(r) PROVE Grow
  BY <1>0, <1>4, LoadChanges DEF OthersKeep, Allowed, StageInv
<1>5. ASSUME NEW r \in Requests, CheckRateLimit(r) PROVE Grow
  BY <1>0, <1>5, CheckChanges DEF OthersKeep, Allowed, StageInv
<1> QED
  BY <1>1, <1>2, <1>3, <1>4, <1>5
  DEF Next, Serve, Cleanup, TimeIsUp, Tick, vars, CleanupStart, CleanupRanged, CleanupEnd,
      CleanupVisit, CleanupSkip, CleanupDelete

LEMMA StoreStep == LimiterInv /\ [Next]_vars => StoreInv'
<1> SUFFICES ASSUME LimiterInv, [Next]_vars PROVE StoreInv'
  OBVIOUS
<1> DEFINE KeysOk == \A k \in Keys : bucket[k] # None => /\ req[bucket[k]].key = k
                                                         /\ req[bucket[k]].bucket # None
           HoldOk == \A b \in Requests :
                         /\ records[b] \subseteq {q \in Allowed : req[q].bucket = b}
                         /\ Cardinality(records[b]) <= Limit
<1>0. /\ TypeOK /\ StageInv /\ StoreInv /\ KeysOk /\ HoldOk
      /\ \A k \in Keys : bucket[k] \in Requests \cup {None}
      /\ \A b \in Requests : records[b] \in SUBSET Requests
  BY DEF LimiterInv, TypeOK, StoreInv
<1>1. KeysOk'
  <2>1. CASE UNCHANGED <<bucket, req>>
    BY <1>0, <2>1
  <2>2. ASSUME NEW r \in Requests, Bypass(r) PROVE KeysOk'
    BY <1>0, <2>2, BypassChanges DEF OthersKeep
  <2>3. ASSUME NEW r \in Requests, NEW k \in Keys, Arrive(r, k) PROVE KeysOk'
    <3>1. \A j \in Keys : bucket[j] # r
      BY <1>0, <2>3, ArriveChanges, Numbers DEF StageInv
    <3> QED
      BY <1>0, <2>3, <3>1, ArriveChanges DEF OthersKeep
  <2>4. ASSUME NEW r \in Requests, LoadBucket(r) PROVE KeysOk'
    <3>1. /\ bucket'[req[r].key] = Found(r)
          /\ \A k \in Keys : k # req[r].key => bucket'[k] = bucket[k]
      BY <1>0, <2>4, LoadChanges DEF TypeOK
    <3> QED
      BY <1>0, <2>4, <3>1, LoadChanges DEF OthersKeep, Found
  <2>5. ASSUME NEW r \in Requests, CheckRateLimit(r) PROVE KeysOk'
    BY <1>0, <2>5, CheckChanges DEF OthersKeep
  <2>6. ASSUME NEW k \in Keys, CleanupDelete(k) PROVE KeysOk'
    <3>1. \A j \in Keys : bucket'[j] \in {None, bucket[j]}
      BY <2>6 DEF LimiterInv, TypeOK, CleanupDelete
    <3> QED
      BY <1>0, <2>6, <3>1 DEF CleanupDelete
  <2> QED
    BY <2>1, <2>2, <2>3, <2>4, <2>5, <2>6
    DEF Next, Serve, Cleanup, TimeIsUp, Tick, vars, CleanupStart, CleanupRanged, CleanupEnd,
        CleanupVisit, CleanupSkip
<1>2. ASSUME NEW b \in Requests, records'[b] \subseteq records[b]
      PROVE  /\ records'[b] \subseteq {q \in Allowed' : req'[q].bucket = b}
             /\ Cardinality(records'[b]) <= Limit
  <2>1. Cardinality(records'[b]) <= Cardinality(records[b])
    BY <1>0, <1>2, SizesCompare
  <2>2. Cardinality(records'[b]) \in Nat /\ Cardinality(records[b]) \in Nat
    BY <1>0, <1>2, SizeOf
  <2> QED
    BY <1>0, <1>2, <2>1, <2>2, Numbers, AllowedGrow
<1>3. CASE \A b \in Requests : records'[b] \subseteq records[b]
  BY <1>1, <1>2, <1>3 DEF StoreInv
<1>4. ASSUME NEW r \in Requests, CheckRateLimit(r) PROVE StoreInv'
  <2>1. /\ req[r].pc = "check" /\ records' = [records EXCEPT ![req[r].bucket] = After(r)]
        /\ req'[r].answer = IF Cardinality(Valid(r)) < Limit THEN "allowed" ELSE "refused"
        /\ req'[r].bucket = req[r].bucket
    BY <1>4, CheckChanges
  <2>2. /\ req[r].bucket \in Requests /\ r \notin Valid(r) /\ Valid(r) \in SUBSET Requests
        /\ Valid(r) \subseteq records[req[r].bucket] /\ Cardinality(Valid(r)) \in Nat
    BY <2>1, ValidIs
  <2>3. \A b \in Requests : b # req[r].bucket => records'[b] = records[b]
    BY <1>0, <2>1 DEF TypeOK
  <2>4. records'[req[r].bucket] = After(r)
    BY <1>0, <2>1, <2>2 DEF TypeOK
  <2>5. CASE Cardinality(Valid(r)) < Limit
    <3>1. records'[req[r].bucket] = Valid(r) \cup {r}
      BY <2>4, <2>5 DEF After
    <3>2. r \in Allowed'
      BY <2>1, <2>5 DEF Allowed
    <3>3. records'[req[r].bucket] \subseteq {q \in Allowed' : req'[q].bucket = req[r].bucket}
      BY <1>0, <2>1, <2>2, <3>1, <3>2, AllowedGrow
    <3>4. Cardinality(Valid(r) \cup {r}) = Cardinality(Valid(r)) + 1
      BY <2>2, SizeOf, FS_AddElement
    <3>5. Cardinality(records'[req[r].bucket]) <= Limit
      BY <2>2, <2>5, <3>1, <3>4, Numbers
    <3> QED
      BY <1>1, <1>2, <2>3, <3>3, <3>5 DEF StoreInv
  <2>6. CASE ~ Cardinality(Valid(r)) < Limit
    BY <1>3, <2>2, <2>3, <2>4, <2>6 DEF After
  <2> QED
    BY <2>5, <2>6
<1>5. ASSUME NEW k \in Keys, CleanupVisit(k) PROVE StoreInv'
  <2> DEFINE kept == InWindow(records[bucket[k]], cleaner.at)
  <2>1. /\ bucket[k] \in Requests /\ records \in [Requests -> SUBSET Requests]
        /\ records' = [records EXCEPT ![bucket[k]] = kept]
    BY <1>0, <1>5, VisitChanges DEF TypeOK
  <2>2. kept \subseteq records[bucket[k]]
    BY WindowShrinks
  <2> HIDE DEF kept
  <2> QED
    BY <1>3, <2>1, <2>2
<1>6. CASE UNCHANGED records
  BY <1>3, <1>6
<1> QED
  BY <1>4, <1>5, <1>6
  DEF Next, Serve, Cleanup, TimeIsUp, Tick, vars, CleanupStart, CleanupRanged, CleanupEnd,
      CleanupSkip, CleanupDelete, Bypass, Arrive, LoadBucket

LEMMA KeptStep == LimiterInv /\ [Next]_vars => KeptInv'
<1> SUFFICES ASSUME LimiterInv, [Next]_vars, NEW q \in Allowed'
             PROVE  q \in records'[req'[q].bucket] \/ req'[q].at + Window <= now'
  BY DEF KeptInv
<1>0. /\ TypeOK /\ KeptInv /\ now \in Nat /\ cleaner.at \in Nat /\ cleaner.at <= now
      /\ \A r \in Requests : req[r].at \in Nat /\ req[r].at <= now
      /\ records \in [Requests -> SUBSET Requests] /\ now' \in Nat /\ now <= now'
  <2>1. TypeOK /\ TypeOK' /\ ClockInv /\ KeptInv
    BY TypeStep DEF LimiterInv
  <2>2. now \in Nat /\ now' \in Nat /\ now <= now'
    <3>1. now \in Nat
      BY <2>1, Numbers DEF TypeOK
    <3>2. ASSUME NEW r \in Requests, Serve(r) PROVE now' = now
      BY <3>2 DEF Serve, LoadBucket, CheckRateLimit, Answer
    <3>3. ASSUME Cleanup PROVE now' = now
      BY <3>3 DEF Cleanup, CleanupStart, CleanupRanged, CleanupEnd, CleanupVisit, CleanupSkip,
                  CleanupDelete
    <3>4. ASSUME NEW r \in Requests, Bypass(r) \/ \E k \in Keys : Arrive(r, k) PROVE now' = now
      BY <3>4 DEF Bypass, Arrive
    <3>5. Tick => now' = now + 1
      BY DEF Tick
    <3>6. UNCHANGED vars => now' = now
      BY DEF vars
    <3>7. now' = now \/ now' = now + 1
      BY <3>2, <3>3, <3>4, <3>5, <3>6, Zenon DEF Next, TimeIsUp
    <3> QED
      BY <3>1, <3>7
  <2> QED
    BY <2>1, <2>2 DEF TypeOK, ClockInv
<1>1. CASE q \notin Allowed
  <2>1. CheckRateLimit(q) /\ q \in Requests /\ req'[q].answer = "allowed"
    BY <1>1, AllowedGrow DEF Allowed
  <2>2. req[q].pc = "check" /\ req'[q].bucket = req[q].bucket /\ q \in After(q)
    BY <2>1, CheckChanges DEF After
  <2>3. req[q].bucket \in Requests
    BY <2>1, <2>2, ValidIs
  <2>4. records'[req[q].bucket] = After(q)
    BY <1>0, <2>1, <2>3, CheckChanges
  <2> QED
    BY <2>2, <2>4
<1>2. CASE q \in Allowed
  <2>1. /\ q \in Requests /\ req'[q].at = req[q].at /\ req'[q].bucket = req[q].bucket
        /\ q \in records[req[q].bucket] \/ req[q].at + Window <= now
    BY <1>0, <1>2, AllowedGrow DEF KeptInv, Allowed
  <2>2. CASE req[q].at + Window <= now
    BY <1>0, <2>1, <2>2, Numbers
  <2>3. CASE q \in records[req[q].bucket] /\ UNCHANGED records
    BY <2>1, <2>3
  <2>4. ASSUME q \in records[req[q].bucket], NEW r \in Requests, CheckRateLimit(r)
        PROVE  q \in records'[req[q].bucket] \/ req[q].at + Window <= now
    <3>1. /\ records' = [records EXCEPT ![req[r].bucket] = After(r)] /\ req[r].bucket \in Requests
          /\ Valid(r) = {p \in records[req[r].bucket] : req[p].at + Window > req[r].at}
      BY <2>4, CheckChanges, ValidIs
    <3>2. \A b \in Requests : records'[b] = IF b = req[r].bucket THEN After(r) ELSE records[b]
      BY <1>0, <3>1
    <3>3. req[q].bucket \in Requests
      BY <1>2 DEF LimiterInv, StageInv, TypeOK, Allowed
    <3>4. CASE req[q].bucket # req[r].bucket
      BY <2>4, <3>2, <3>3, <3>4
    <3>5. CASE req[q].bucket = req[r].bucket /\ req[q].at + Window > req[r].at
      <4>1. q \in Valid(r)
        BY <2>4, <3>1, <3>5
      <4> QED
        BY <3>2, <3>3, <3>5, <4>1 DEF After
    <3>6. CASE ~ req[q].at + Window > req[r].at
      BY <1>0, <2>1, <3>6, Numbers
    <3> QED
      BY <3>4, <3>5, <3>6
  <2>5. ASSUME q \in records[req[q].bucket], NEW k \in Keys, CleanupVisit(k)
        PROVE  q \in records'[req[q].bucket] \/ req[q].at + Window <= now
    <3> DEFINE kept == InWindow(records[bucket[k]], cleaner.at)
    <3>1. records' = [records EXCEPT ![bucket[k]] = kept] /\ bucket[k] \in Requests
      BY <1>0, <2>5, VisitChanges
    <3>2. kept = {p \in records[bucket[k]] : req[p].at + Window > cleaner.at}
      BY WindowShrinks
    <3> HIDE DEF kept
    <3>3. \A b \in Requests : records'[b] = IF b = bucket[k] THEN kept ELSE records[b]
      BY <1>0, <3>1
    <3>4. req[q].bucket \in Requests
      BY <1>2 DEF LimiterInv, StageInv, TypeOK, Allowed
    <3>5. CASE req[q].at + Window > cleaner.at
      BY <2>5, <3>2, <3>3, <3>4, <3>5
    <3>6. CASE ~ req[q].at + Window > cleaner.at
      BY <1>0, <2>1, <3>6, Numbers
    <3> QED
      BY <3>5, <3>6
  <2>6. q \in records'[req[q].bucket] \/ req[q].at + Window <= now
    BY <2>1, <2>2, <2>3, <2>4, <2>5
    DEF Next, Serve, Cleanup, TimeIsUp, Tick, vars, CleanupStart, CleanupRanged, CleanupEnd,
        CleanupSkip, CleanupDelete, Bypass, Arrive, LoadBucket
  <2> QED
    BY <1>0, <2>1, <2>6, Numbers
<1> QED
  BY <1>1, <1>2

LEMMA CleanerStep == LimiterInv /\ [Next]_vars => CleanerInv'
<1> SUFFICES ASSUME LimiterInv, [Next]_vars PROVE CleanerInv'
  OBVIOUS
<1> DEFINE Late(q) == cleaner.at <= req[q].at + MaxDelay
<1>0. /\ TypeOK /\ CleanerInv /\ StageInv /\ now \in Nat
      /\ cleaner.at \in Nat /\ cleaner.at <= now /\ cleaner.drop \in SUBSET Keys
      /\ \A r \in Requests : req[r].at \in Nat
      /\ records \in [Requests -> SUBSET Requests]
      /\ bucket \in [Keys -> Requests \cup {None}]
  BY Numbers DEF LimiterInv, TypeOK, ClockInv
<1>00. \A b \in Requests : \A q \in records[b] : q \in Requests /\ req[q].pc = "done"
  BY <1>0 DEF LimiterInv, StoreInv, StageInv, Allowed
<1>01. \A k \in cleaner.drop : bucket[k] \in Requests /\ bucket[k] # None
  BY <1>0 DEF CleanerInv
<1>1. CASE UNCHANGED <<bucket, records, req, cleaner>>
  BY <1>0, <1>1 DEF CleanerInv
<1>2. ASSUME NEW r \in Requests, Bypass(r) PROVE CleanerInv'
  BY <1>0, <1>00, <1>01, <1>2, BypassChanges DEF CleanerInv, OthersKeep
<1>3. ASSUME NEW r \in Requests, NEW k \in Keys, Arrive(r, k) PROVE CleanerInv'
  BY <1>0, <1>00, <1>01, <1>3, ArriveChanges DEF CleanerInv, OthersKeep
<1>4. ASSUME NEW r \in Requests, LoadBucket(r) PROVE CleanerInv'
  <2>1. /\ \A q \in Requests : req'[q].at = req[q].at
        /\ records' = records /\ cleaner' = cleaner
    BY <1>0, <1>4, LoadChanges DEF OthersKeep
  <2>2. \A k \in cleaner.drop : bucket'[k] = bucket[k]
    BY <1>0, <1>01, <1>4, LoadChanges DEF Found
  <2> QED
    BY <1>0, <1>00, <1>01, <2>1, <2>2 DEF CleanerInv
<1>5. ASSUME NEW r \in Requests, CheckRateLimit(r) PROVE CleanerInv'
  <2>1. /\ \A q \in Requests : req'[q].at = req[q].at
        /\ bucket' = bucket /\ cleaner' = cleaner
    BY <1>0, <1>5, CheckChanges DEF OthersKeep
  <2>2. Late(r)
    <3>1. now <= req[r].at + MaxDelay
      BY <1>5, CheckChanges DEF LimiterInv, ClockInv
    <3> QED
      BY <1>0, <3>1, Numbers
  <2>3. \A b \in Requests : records'[b] \subseteq records[b] \cup {r}
    <3>1. /\ records' = [records EXCEPT ![req[r].bucket] = After(r)]
          /\ After(r) \subseteq records[req[r].bucket] \cup {r}
      BY <1>5, CheckChanges, ValidIs DEF After
    <3> QED
      BY <1>0, <3>1
  <2> QED
    BY <1>0, <1>00, <1>01, <2>1, <2>2, <2>3 DEF CleanerInv
<1>6. CASE CleanupStart
  BY <1>6 DEF CleanupStart, CleanerInv
<1>7. CASE CleanupRanged \/ CleanupEnd
  BY <1>0, <1>7 DEF CleanupRanged, CleanupEnd, CleanerInv, TypeOK
<1>8. ASSUME NEW k \in Keys, CleanupVisit(k) PROVE CleanerInv'
  <2> DEFINE kept == InWindow(records[bucket[k]], cleaner.at)
             drop == IF kept = {} THEN cleaner.drop \cup {k} ELSE cleaner.drop
  <2>1. /\ records' = [records EXCEPT ![bucket[k]] = kept] /\ bucket[k] \in Requests
        /\ bucket[k] # None
        /\ cleaner' = [cleaner EXCEPT !.left = @ \ {k}, !.drop = drop]
        /\ bucket' = bucket /\ req' = req
    BY <1>0, <1>8, VisitChanges, Zenon DEF CleanupVisit
  <2>2. kept \subseteq records[bucket[k]]
    BY WindowShrinks
  <2>3. cleaner'.at = cleaner.at /\ cleaner'.drop = drop
    <3> HIDE DEF drop
    <3> QED
      BY <1>0, <2>1 DEF TypeOK
  <2> HIDE DEF kept
  <2>4. \A b \in Requests : records'[b] = IF b = bucket[k] THEN kept ELSE records[b]
    BY <1>0, <2>1
  <2> QED
    BY <1>0, <1>01, <2>1, <2>2, <2>3, <2>4 DEF CleanerInv
<1>9. ASSUME NEW k \in Keys, CleanupSkip(k) PROVE CleanerInv'
  BY <1>0, <1>9 DEF CleanupSkip, CleanerInv, TypeOK
<1>10. ASSUME NEW k \in Keys, CleanupDelete(k) PROVE CleanerInv'
  <2>1. /\ cleaner'.at = cleaner.at /\ cleaner'.drop = cleaner.drop \ {k}
        /\ records' = records /\ req' = req
        /\ \A j \in Keys : j # k => bucket'[j] = bucket[j]
    BY <1>0, <1>10 DEF CleanupDelete, TypeOK
  <2> QED
    BY <1>0, <2>1 DEF CleanerInv
<1> QED
  BY <1>1, <1>2, <1>3, <1>4, <1>5, <1>6, <1>7, <1>8, <1>9, <1>10
  DEF Next, Serve, Cleanup, TimeIsUp, Tick, vars

LEMMA LimiterStep == LimiterInv /\ [Next]_vars => LimiterInv'
  BY TypeStep, ClockStep, StageStep, StoreStep, KeptStep, CleanerStep, Zenon DEF LimiterInv

(* Whatever the requests and the cleanup do, the types and the bookkeeping   *)
(* of the store hold.                                                       *)
THEOREM TypeCorrect == Spec => []TypeOK
<1>1. LimiterInv => TypeOK
  BY DEF LimiterInv
<1> QED
  BY <1>1, Initially, LimiterStep, PTL DEF Spec

-----------------------------------------------------------------------------
(* Those that bucket b let in with a stamp in the window from `start`, less the delay. *)
Inside(b, start) == {r \in Allowed : /\ req[r].bucket = b
                                     /\ req[r].at >= start
                                     /\ req[r].at + MaxDelay < start + Window}

(* A request let in into that window found all the others of the window in   *)
(* its bucket: none had left the window before it was decided.              *)
LEMMA WindowStep == LimiterInv /\ WindowLimit /\ [Next]_vars => WindowLimit'
<1> SUFFICES ASSUME LimiterInv, WindowLimit, [Next]_vars,
                    NEW b \in Requests, NEW start \in 0 .. MaxTime
             PROVE  Cardinality(Inside(b, start)') <= Limit
  BY DEF WindowLimit, Inside
<1>0. /\ Inside(b, start) \in SUBSET Requests /\ Inside(b, start)' \in SUBSET Requests
      /\ Cardinality(Inside(b, start)) <= Limit
      /\ now \in Nat /\ start \in Nat
      /\ \A q \in Requests : req[q].at \in Nat
  BY Numbers DEF WindowLimit, Inside, Allowed, LimiterInv, TypeOK
<1>1. CASE Inside(b, start)' \subseteq Inside(b, start)
  <2>1. Cardinality(Inside(b, start)') <= Cardinality(Inside(b, start))
    BY <1>0, <1>1, SizesCompare
  <2>2. Cardinality(Inside(b, start)') \in Nat /\ Cardinality(Inside(b, start)) \in Nat
    BY <1>0, SizeOf
  <2> QED
    BY <1>0, <2>1, <2>2, Numbers
<1>2. ASSUME NEW r \in Inside(b, start)', r \notin Inside(b, start)
      PROVE  Cardinality(Inside(b, start)') <= Limit
  <2>1. r \in Allowed' /\ r \in Requests /\ req'[r].answer = "allowed" /\ req'[r].bucket = b
        /\ req'[r].at >= start /\ req'[r].at + MaxDelay < start + Window
    BY <1>2 DEF Inside, Allowed
  <2>2. r \notin Allowed
    BY <1>2, <2>1, AllowedGrow DEF Inside
  <2>3. CheckRateLimit(r)
    BY <2>1, <2>2, AllowedGrow
  <2>4. /\ req[r].pc = "check" /\ req[r].bucket = b
        /\ req[r].at >= start /\ req[r].at + MaxDelay < start + Window
        /\ now <= req[r].at + MaxDelay /\ Cardinality(Valid(r)) < Limit
    BY <2>1, <2>3, CheckChanges DEF LimiterInv, ClockInv
  <2>5. /\ Valid(r) = {q \in records[b] : req[q].at + Window > req[r].at}
        /\ Valid(r) \in SUBSET Requests /\ Cardinality(Valid(r)) \in Nat /\ r \notin Valid(r)
    BY <2>1, <2>4, ValidIs
  <2>6. ASSUME NEW q \in Inside(b, start) PROVE q \in Valid(r)
    <3>1. /\ q \in Allowed /\ q \in Requests /\ req[q].bucket = b /\ req[q].at >= start
          /\ req[q].at + MaxDelay < start + Window
      BY <2>6 DEF Inside, Allowed
    <3>2. ~ req[q].at + Window <= now
      BY <1>0, <2>1, <2>4, <3>1, Numbers
    <3>3. q \in records[b]
      BY <3>1, <3>2 DEF LimiterInv, KeptInv
    <3>4. req[q].at + Window > req[r].at
      BY <1>0, <2>1, <2>4, <3>1, Numbers
    <3> QED
      BY <2>5, <3>3, <3>4
  <2>7. Inside(b, start)' \subseteq Valid(r) \cup {r}
    <3>1. ASSUME NEW q \in Inside(b, start)', q # r PROVE q \in Inside(b, start)
      <4>1. q \in Allowed' /\ req'[q].bucket = b /\ req'[q].at >= start
            /\ req'[q].at + MaxDelay < start + Window /\ q \in Requests
        BY <3>1 DEF Inside, Allowed
      <4>2. q \in Allowed
        BY <2>1, <2>3, <3>1, <4>1, CheckChanges DEF Allowed, OthersKeep
      <4> QED
        BY <4>1, <4>2, AllowedGrow DEF Inside
    <3> QED
      BY <2>6, <3>1
  <2>8. Cardinality(Valid(r) \cup {r}) = Cardinality(Valid(r)) + 1
    BY <2>5, SizeOf, FS_AddElement
  <2>9. Cardinality(Inside(b, start)') <= Cardinality(Valid(r) \cup {r})
    BY <2>1, <2>5, <2>7, SizesCompare
  <2>10. Cardinality(Inside(b, start)') \in Nat
    BY <1>0, SizeOf
  <2> QED
    BY <2>4, <2>5, <2>8, <2>9, <2>10, Numbers
<1> QED
  BY <1>1, <1>2

(* However many requests and keys there are and however their steps and the  *)
(* passes of the cleanup interleave, no window of a bucket has more than     *)
(* Limit requests that were let in.                                         *)
THEOREM WindowIsLimited == Spec => []WindowLimit
<1>1. Init => WindowLimit
  <2> SUFFICES ASSUME Init, NEW b \in Requests, NEW start \in 0 .. MaxTime
               PROVE  Cardinality(Inside(b, start)) <= Limit
    BY DEF WindowLimit, Inside
  <2>1. Inside(b, start) = {}
    BY DEF Init, Inside, Allowed
  <2> QED
    BY <2>1, FS_EmptySet, Numbers
<1> QED
  BY <1>1, Initially, LimiterStep, WindowStep, PTL DEF Spec

-----------------------------------------------------------------------------
(* Those of the tenant of r that were let in within the window before r. *)
Before(r) == {q \in Allowed : /\ req[q].key = req[r].key
                              /\ req[q].at + Window > req[r].at}

(* Only the decision refuses a request. *)
LEMMA RefusedByCheck ==
    ASSUME LimiterInv, [Next]_vars, NEW r \in Requests,
           req'[r].answer = "refused", req[r].answer # "refused"
    PROVE  CheckRateLimit(r)
<1>1. TypeOK /\ StageInv
  BY DEF LimiterInv
<1>2. ~ UNCHANGED req
  OBVIOUS
<1>3. ASSUME NEW p \in Requests, Bypass(p) PROVE FALSE
  BY <1>1, <1>3, BypassChanges DEF OthersKeep
<1>4. ASSUME NEW p \in Requests, NEW k \in Keys, Arrive(p, k) PROVE FALSE
  BY <1>1, <1>4, ArriveChanges DEF OthersKeep
<1>5. ASSUME NEW p \in Requests, LoadBucket(p) PROVE FALSE
  BY <1>1, <1>5, LoadChanges DEF OthersKeep
<1>6. ASSUME NEW p \in Requests, CheckRateLimit(p) PROVE p = r
  BY <1>1, <1>6, CheckChanges DEF OthersKeep
<1> QED
  BY <1>2, <1>3, <1>4, <1>5, <1>6
  DEF Next, Serve, Cleanup, TimeIsUp, Tick, vars, CleanupStart, CleanupRanged, CleanupEnd,
      CleanupVisit, CleanupSkip, CleanupDelete

LEMMA RefusedStep == LimiterInv /\ RefusedOnlyWhenFull /\ [Next]_vars => RefusedOnlyWhenFull'
<1> SUFFICES ASSUME LimiterInv, RefusedOnlyWhenFull, [Next]_vars, NEW r \in Refused'
             PROVE  Cardinality(Before(r)') >= Limit
  BY DEF RefusedOnlyWhenFull, Before
<1>0. /\ TypeOK /\ StageInv /\ r \in Requests /\ req'[r].answer = "refused"
      /\ Before(r) \in SUBSET Requests
      /\ {q \in Allowed' : /\ req'[q].key = req'[r].key
                           /\ req'[q].at + Window > req'[r].at} = Before(r)'
      /\ Before(r)' \in SUBSET Requests
  BY DEF LimiterInv, Refused, Before, Allowed
<1>1. ASSUME NEW S \in SUBSET Before(r)', Cardinality(S) >= Limit
      PROVE  Cardinality(Before(r)') >= Limit
  <2>1. Cardinality(S) <= Cardinality(Before(r)')
    BY <1>0, SizesCompare
  <2>2. Cardinality(S) \in Nat /\ Cardinality(Before(r)') \in Nat
    BY <1>0, SizeOf
  <2> QED
    BY <1>1, <2>1, <2>2, Numbers
<1>2. CASE r \in Refused
  <2>1. Cardinality(Before(r)) >= Limit
    BY <1>2 DEF RefusedOnlyWhenFull, Before
  <2>2. req[r].pc = "done" /\ req[r].answer = "refused"
    BY <1>0, <1>2 DEF Refused, StageInv
  <2>3. req'[r].at = req[r].at /\ req'[r].key = req[r].key
    <3>1. CASE UNCHANGED req
      BY <3>1
    <3>2. ASSUME NEW p \in Requests, Bypass(p) PROVE req'[r].at = req[r].at /\ req'[r].key = req[r].key
      BY <1>0, <3>2, BypassChanges DEF OthersKeep
    <3>3. ASSUME NEW p \in Requests, NEW k \in Keys, Arrive(p, k)
          PROVE  req'[r].at = req[r].at /\ req'[r].key = req[r].key
      BY <1>0, <2>2, <3>3, ArriveChanges DEF OthersKeep
    <3>4. ASSUME NEW p \in Requests, LoadBucket(p)
          PROVE  req'[r].at = req[r].at /\ req'[r].key = req[r].key
      BY <1>0, <3>4, LoadChanges DEF OthersKeep
    <3>5. ASSUME NEW p \in Requests, CheckRateLimit(p)
          PROVE  req'[r].at = req[r].at /\ req'[r].key = req[r].key
      BY <1>0, <3>5, CheckChanges DEF OthersKeep
    <3> QED
      BY <3>1, <3>2, <3>3, <3>4, <3>5
      DEF Next, Serve, Cleanup, TimeIsUp, Tick, vars, CleanupStart, CleanupRanged, CleanupEnd,
          CleanupVisit, CleanupSkip, CleanupDelete
  <2>4. Before(r) \in SUBSET Before(r)'
    BY <1>0, <2>3, AllowedGrow DEF Before
  <2> QED
    BY <1>1, <2>1, <2>4
<1>3. CASE r \notin Refused
  <2>1. CheckRateLimit(r)
    BY <1>0, <1>3, RefusedByCheck DEF Refused
  <2>2. /\ req[r].pc = "check" /\ ~ Cardinality(Valid(r)) < Limit
        /\ req'[r].at = req[r].at /\ req'[r].key = req[r].key
    BY <1>0, <2>1, CheckChanges
  <2>3. /\ Valid(r) = {q \in records[req[r].bucket] : req[q].at + Window > req[r].at}
        /\ Valid(r) \in SUBSET Allowed /\ Cardinality(Valid(r)) \in Nat
        /\ req[r].bucket \in Requests
    BY <1>0, <2>2, ValidIs
  <2>4. Cardinality(Valid(r)) >= Limit
    BY <2>2, <2>3, Numbers
  <2>5. ASSUME NEW q \in Valid(r) PROVE q \in Before(r)'
    <3>1. req[q].bucket = req[r].bucket /\ q \in Requests /\ q \in Allowed
      BY <2>3, <2>5 DEF LimiterInv, StoreInv, Allowed
    <3>2. req[q].key = req[r].key
      BY <1>0, <2>2, <2>3, <3>1 DEF StageInv
    <3>3. req'[q].key = req'[r].key /\ req'[q].at + Window > req'[r].at /\ q \in Allowed'
      BY <2>2, <2>3, <2>5, <3>1, <3>2, AllowedGrow
    <3> QED
      BY <1>0, <3>3
  <2> QED
    BY <1>1, <2>4, <2>5
<1> QED
  BY <1>2, <1>3

(* A tenant is refused only when it really had Limit requests let in within  *)
(* the window, whatever evicted records and deleted buckets meanwhile.       *)
THEOREM RefusalsAreEarned == Spec => []RefusedOnlyWhenFull
<1>1. Init => RefusedOnlyWhenFull
  BY DEF Init, RefusedOnlyWhenFull, Refused
<1> QED
  BY <1>1, Initially, LimiterStep, RefusedStep, PTL DEF Spec

-----------------------------------------------------------------------------
LEMMA ResetStep ==
    ASSUME LimiterInv, [Next]_vars, NEW r \in Requests,
           req'[r].answer = "refused", req[r].answer = "pending"
    PROVE  Cardinality({q \in records'[req[r].bucket] : req[q].at + Window > req'[r].reset}) < Limit
<1> DEFINE first == FirstOf(Valid(r))
           left  == {q \in records'[req[r].bucket] : req[q].at + Window > req'[r].reset}
<1>0. CheckRateLimit(r)
  BY RefusedByCheck
<1>1. /\ req[r].pc = "check" /\ ~ Cardinality(Valid(r)) < Limit
      /\ records' = [records EXCEPT ![req[r].bucket] = After(r)]
      /\ req'[r].reset = Window + IF Valid(r) = {} THEN req[r].at ELSE req[first].at
  BY <1>0, CheckChanges
<1>2. /\ req[r].bucket \in Requests /\ Valid(r) \in SUBSET Requests
      /\ Cardinality(Valid(r)) \in Nat /\ Cardinality(Valid(r)) <= Limit
  BY <1>1, ValidIs
<1>3. Valid(r) # {}
  BY <1>1, <1>2, FS_EmptySet, Numbers
<1>4. first \in Valid(r)
  BY <1>2, <1>3, FirstIsThere DEF LimiterInv
<1>5. records'[req[r].bucket] = Valid(r)
  BY <1>1, <1>2 DEF After, LimiterInv, TypeOK
<1>6. req'[r].reset = Window + req[first].at
  BY <1>1, <1>3
<1>7. req[first].at \in Nat
  BY <1>2, <1>4 DEF LimiterInv, TypeOK
<1>8. ~ (req[first].at + Window > req'[r].reset)
  BY <1>6, <1>7, Numbers
<1> HIDE DEF first
<1>9. left \in SUBSET (Valid(r) \ {first})
  BY <1>5, <1>8
<1>10. IsFiniteSet(Valid(r)) /\ IsFiniteSet(Valid(r) \ {first})
       /\ Cardinality(Valid(r) \ {first}) = Cardinality(Valid(r)) - 1
  BY <1>2, <1>4, SizeOf, FS_RemoveElement
<1> HIDE DEF left
<1>11. Cardinality(left) \in Nat /\ Cardinality(left) <= Cardinality(Valid(r) \ {first})
  BY <1>9, <1>10, FS_Subset, FS_CardinalityType
<1>12. Cardinality(left) < Limit
  BY <1>2, <1>10, <1>11, Numbers
<1> QED
  BY <1>12 DEF left

(* A refused request that waits for its ResetAt is promised no less than it  *)
(* gets: of what its bucket records, less than Limit then remain valid.      *)
THEOREM ResetIsHonest == Spec => ResetFreesASlot
<1>1. LimiterInv /\ [Next]_vars =>
          [\A r \in Requests :
              req'[r].answer = "refused" /\ req[r].answer = "pending" =>
                  Cardinality({q \in records'[req[r].bucket] :
                                   req[q].at + Window > req'[r].reset}) < Limit]_vars
  BY ResetStep
<1> QED
  BY <1>1, Initially, LimiterStep, PTL DEF Spec, ResetFreesASlot

(* A deleted bucket forgets only requests stamped no longer than MaxDelay    *)
(* before the pass that deletes it.                                         *)
THEOREM ForgetsLittle == Spec => ForgetsOnlyTheOverlap
<1> DEFINE Little == \A k \in Keys :
                        bucket[k] # None /\ bucket'[k] # bucket[k] =>
                            \A q \in records[bucket[k]] : cleaner.at <= req[q].at + MaxDelay
<1>1. LimiterInv /\ [Next]_vars => [Little]_vars
  <2> SUFFICES ASSUME LimiterInv, [Next]_vars, NEW k \in Keys,
                      bucket[k] # None, bucket'[k] # bucket[k],
                      NEW q \in records[bucket[k]]
               PROVE  cleaner.at <= req[q].at + MaxDelay
    OBVIOUS
  <2>1. TypeOK /\ StageInv /\ CleanerInv
    BY DEF LimiterInv
  <2>2. ASSUME NEW r \in Requests, LoadBucket(r) PROVE FALSE
    BY <2>1, <2>2, LoadChanges DEF TypeOK, Found
  <2>3. ASSUME NEW r \in Requests, CheckRateLimit(r) PROVE FALSE
    BY <2>3, CheckChanges
  <2>4. ASSUME NEW j \in Keys, CleanupDelete(j) PROVE k \in cleaner.drop
    BY <2>1, <2>4 DEF CleanupDelete, TypeOK
  <2>5. k \in cleaner.drop
    BY <2>2, <2>3, <2>4
    DEF Next, Serve, Cleanup, TimeIsUp, Tick, vars, CleanupStart, CleanupRanged, CleanupEnd,
        CleanupVisit, CleanupSkip, Bypass, Arrive
  <2> QED
    BY <2>1, <2>5 DEF CleanerInv
<1> HIDE DEF Little
<1>2. Spec => [][Little]_vars
  BY <1>1, Initially, LimiterStep, PTL DEF Spec
<1> QED
  BY <1>2 DEF Little, ForgetsOnlyTheOverlap
=============================================================================
