---------------------------- MODULE RateLimiter ----------------------------
(***************************************************************************)
(* The sliding-window limiter of middlewares/ratelimit: MemoryStore with   *)
(* its sync.Map of buckets, one mutex per bucket, and the cleanup goroutine.*)
(*                                                                         *)
(* A request is stamped first, then finds its bucket, then takes the mutex: *)
(* between two of these steps other requests and the cleanup may run, and  *)
(* time may pass.  The cleanup visits the buckets one by one under their    *)
(* mutexes and deletes those it found empty only afterwards.               *)
(***************************************************************************)
EXTENDS Naturals, FiniteSets

CONSTANTS
    NumRequests, \* bound on the HTTP requests, numbered in the order of their arrival
    Keys,        \* "<tier>:<tenant>" of limited tiers
    Limit,       \* GetMaxRequests of these tiers: base and burst
    Window,      \* config.Window, in ticks
    Interval,    \* config.CleanupInterval, in ticks
    MaxDelay,    \* bound on the ticks between a stamp and its decision
    LastArrival, \* bound on the time of the last request
    MaxTime      \* bound on time

ASSUME RateLimiterAssumption ==
    /\ {NumRequests, Limit, Window, Interval, MaxDelay, LastArrival, MaxTime} \subseteq Nat
    /\ MaxDelay < Window /\ Interval > 0 /\ Limit > 0
    /\ LastArrival + Window + Interval <= MaxTime

VARIABLES
    now,     \* the clock
    bucket,  \* the sync.Map: the bucket of a key, named by the request that stored it
    records, \* bucket -> the requests it records
    req,     \* where each request is, its stamp, key, bucket, answer and ResetAt, and its turn:
             \* a bucket lists what it records in the order in which it was let in
    cleaner  \* the cleanup goroutine: its stamp, the keys to visit, the keys to delete

vars == <<now, bucket, records, req, cleaner>>

Requests == 1 .. NumRequests
None     == 0

ASSUME NoneAssumption == None \notin Keys

Answers == {"pending", "unlimited", "allowed", "refused"}

TypeOK ==
    /\ now \in 0 .. MaxTime
    /\ bucket \in [Keys -> Requests \cup {None}]
    /\ records \in [Requests -> SUBSET Requests]
    /\ req \in [Requests -> [pc : {"idle", "load", "check", "done"}, at : Nat, answer : Answers,
                             key : Keys \cup {None}, bucket : Requests \cup {None},
                             turn : Nat, reset : Nat]]
    /\ cleaner \in [pc : {"idle", "range", "delete"}, at : Nat,
                    left : SUBSET Keys, drop : SUBSET Keys]

-----------------------------------------------------------------------------
(* The Timestamp.After(windowStart) of a request or a pass stamped at t. *)
InWindow(recorded, t) == {q \in recorded : req[q].at + Window > t}

(* The record that a bucket lists first, which need not be the oldest stamp. *)
FirstOf(recorded) == CHOOSE q \in recorded : \A p \in recorded : req[q].turn <= req[p].turn

(* Those let in so far have a turn. *)
Admitted == {q \in Requests : req[q].turn > 0}

IsNext(r) == req[r].pc = "idle" /\ \A q \in 1 .. r - 1 : req[q].pc # "idle"

(* Rate limiting is off for the path, the admin or the tier. *)
Bypass(r) ==
    /\ IsNext(r)
    /\ req' = [req EXCEPT ![r].pc = "done", ![r].answer = "unlimited"]
    /\ UNCHANGED <<now, bucket, records, cleaner>>

(* CheckRateLimit: the stamp, *)
Arrive(r, k) ==
    /\ IsNext(r) /\ now <= LastArrival
    /\ req' = [req EXCEPT ![r].pc = "load", ![r].at = now, ![r].key = k]
    /\ UNCHANGED <<now, bucket, records, cleaner>>

(* LoadOrStore of the bucket, *)
LoadBucket(r) ==
    LET b == bucket[req[r].key]
        found == IF b = None THEN r ELSE b
    IN
    /\ req[r].pc = "load"
    /\ bucket' = [bucket EXCEPT ![req[r].key] = found]
    /\ req' = [req EXCEPT ![r].pc = "check", ![r].bucket = found]
    /\ UNCHANGED <<now, records, cleaner>>

(* the answer of r, beside the records still valid, which leaves `after`; when  *)
(* there are none, the first record is r itself or nothing: its own stamp counts, *)
Answer(r, valid, allowed, after) ==
    /\ req[r].pc = "check"
    /\ records' = [records EXCEPT ![req[r].bucket] = after]
    /\ req' = [req EXCEPT ![r].pc = "done",
                          ![r].turn = IF allowed THEN Cardinality(Admitted) + 1 ELSE 0,
                          ![r].answer = IF allowed THEN "allowed" ELSE "refused",
                          ![r].reset = Window + IF valid = {} THEN req[r].at
                                                ELSE req[FirstOf(valid)].at]
    /\ UNCHANGED <<now, bucket, cleaner>>

(* Mutant: count <= limit. *)
CheckAtMost(r) ==
    LET valid   == InWindow(records[req[r].bucket], req[r].at)
        allowed == Cardinality(valid) <= Limit
    IN Answer(r, valid, allowed, IF allowed THEN valid \cup {r} ELSE valid)

(* Mutant: a refused request is recorded as well. *)
CheckRecordsRefused(r) ==
    LET valid == InWindow(records[req[r].bucket], req[r].at)
    IN Answer(r, valid, Cardinality(valid) < Limit, valid \cup {r})

(* Mutant: expired records are left to the cleanup. *)
CheckWithoutEviction(r) ==
    LET valid   == records[req[r].bucket]
        allowed == Cardinality(valid) < Limit
    IN Answer(r, valid, allowed, IF allowed THEN valid \cup {r} ELSE valid)

(* and, under its mutex: evict, decide, record. *)
CheckRateLimit(r) ==
    LET valid   == InWindow(records[req[r].bucket], req[r].at)
        allowed == Cardinality(valid) < Limit
    IN Answer(r, valid, allowed, IF allowed THEN valid \cup {r} ELSE valid)

-----------------------------------------------------------------------------
(* A tick of the ticker is due, and one at most is pending: a pass is       *)
(* stamped and ranges over the map.                                        *)
CleanupStart ==
    /\ cleaner.pc = "idle"
    /\ now >= (cleaner.at \div Interval + 1) * Interval
    /\ cleaner' = [pc |-> "range", at |-> now, left |-> Keys, drop |-> {}]
    /\ UNCHANGED <<now, bucket, records, req>>

(* Mutant: a bucket that still records requests is dropped. *)
CleanupVisitAny(k) ==
    /\ cleaner.pc = "range" /\ k \in cleaner.left /\ bucket[k] # None
    /\ records' = [records EXCEPT ![bucket[k]] = InWindow(@, cleaner.at)]
    /\ cleaner' = [cleaner EXCEPT !.left = @ \ {k}, !.drop = @ \cup {k}]
    /\ UNCHANGED <<now, bucket, req>>

(* Mutant: the buckets found empty are not remembered. *)
CleanupVisitOnly(k) ==
    /\ cleaner.pc = "range" /\ k \in cleaner.left /\ bucket[k] # None
    /\ records' = [records EXCEPT ![bucket[k]] = InWindow(@, cleaner.at)]
    /\ cleaner' = [cleaner EXCEPT !.left = @ \ {k}]
    /\ UNCHANGED <<now, bucket, req>>

(* One bucket, under its mutex.  An empty bucket has a zero lastSeen, which *)
(* is before any idleThreshold.                                            *)
CleanupVisit(k) ==
    LET valid == InWindow(records[bucket[k]], cleaner.at) IN
    /\ cleaner.pc = "range" /\ k \in cleaner.left /\ bucket[k] # None
    /\ records' = [records EXCEPT ![bucket[k]] = valid]
    /\ cleaner' = [cleaner EXCEPT !.left = @ \ {k},
                                  !.drop = IF valid = {} THEN @ \cup {k} ELSE @]
    /\ UNCHANGED <<now, bucket, req>>

(* Range finds no bucket where k would be; it sees one that is stored       *)
(* during the pass, or does not.                                           *)
CleanupSkip(k) ==
    /\ cleaner.pc = "range" /\ k \in cleaner.left /\ bucket[k] = None
    /\ cleaner' = [cleaner EXCEPT !.left = @ \ {k}]
    /\ UNCHANGED <<now, bucket, records, req>>

CleanupRanged ==
    /\ cleaner.pc = "range" /\ cleaner.left = {}
    /\ cleaner' = [cleaner EXCEPT !.pc = "delete"]
    /\ UNCHANGED <<now, bucket, records, req>>

(* Whatever has happened to the bucket since the visit. *)
CleanupDelete(k) ==
    /\ cleaner.pc = "delete" /\ k \in cleaner.drop
    /\ bucket' = [bucket EXCEPT ![k] = None]
    /\ cleaner' = [cleaner EXCEPT !.drop = @ \ {k}]
    /\ UNCHANGED <<now, records, req>>

CleanupEnd ==
    /\ cleaner.pc = "delete" /\ cleaner.drop = {}
    /\ cleaner' = [cleaner EXCEPT !.pc = "idle"]
    /\ UNCHANGED <<now, bucket, records, req>>

(* Time passes; a stamped request is decided within MaxDelay ticks. *)
Tick ==
    /\ now < MaxTime
    /\ \A r \in Requests : req[r].pc \in {"load", "check"} => now < req[r].at + MaxDelay
    /\ now' = now + 1
    /\ UNCHANGED <<bucket, records, req, cleaner>>

(* The end of modelled time, not of the program. *)
TimeIsUp == now = MaxTime /\ UNCHANGED vars

-----------------------------------------------------------------------------
Cleanup ==
    \/ CleanupStart \/ CleanupRanged \/ CleanupEnd
    \/ \E k \in Keys : CleanupVisit(k) \/ CleanupSkip(k) \/ CleanupDelete(k)

Serve(r) == LoadBucket(r) \/ CheckRateLimit(r)

Init ==
    /\ now = 0
    /\ bucket = [k \in Keys |-> None]
    /\ records = [r \in Requests |-> {}]
    /\ req = [r \in Requests |-> [pc |-> "idle", at |-> 0, answer |-> "pending",
                                  key |-> None, bucket |-> None,
                                  turn |-> 0, reset |-> 0]]
    /\ cleaner = [pc |-> "idle", at |-> 0, left |-> {}, drop |-> {}]

Next ==
    \/ Tick \/ TimeIsUp \/ Cleanup
    \/ \E r \in Requests : Bypass(r) \/ Serve(r) \/ \E k \in Keys : Arrive(r, k)

(* Time passes, the ticker keeps firing and a request in progress goes on. *)
Spec ==
    /\ Init /\ [][Next]_vars
    /\ WF_vars(Tick) /\ WF_vars(Cleanup) /\ \A r \in Requests : WF_vars(Serve(r))

-----------------------------------------------------------------------------
(***************************************************************************)
(* Properties                                                              *)
(***************************************************************************)
Allowed == {r \in Requests : req[r].answer = "allowed"}
Refused == {r \in Requests : req[r].answer = "refused"}

(* ratelimit_memory.go:58, the sliding window: however the stamps, the      *)
(* mutexes and the evictions of other requests and of the cleanup           *)
(* interleave, no window, less the delay of a stamp, has more than Limit    *)
(* requests that one bucket let in.                                        *)
WindowLimit ==
    \A b \in Requests, start \in 0 .. MaxTime :
        Cardinality({r \in Allowed : /\ req[r].bucket = b
                                     /\ req[r].at >= start
                                     /\ req[r].at + MaxDelay < start + Window}) <= Limit

(* A 429 says "You have made %d requests in the last minute": the tenant    *)
(* really was let in Limit times in the window of a refused request.       *)
RefusedOnlyWhenFull ==
    \A r \in Refused :
        Cardinality({q \in Allowed : /\ req[q].key = req[r].key
                                     /\ req[q].at + Window > req[r].at}) >= Limit

(* ResetAt of a 429 is the stamp of the first record, which need not be the *)
(* oldest: still, a slot of the bucket is free by then.                    *)
ResetFreesASlot ==
    [][\A r \in Requests :
          req'[r].answer = "refused" /\ req[r].answer = "pending" =>
              Cardinality({q \in records'[req[r].bucket] :
                               req[q].at + Window > req'[r].reset}) < Limit]_vars

(* The cleanup deletes a bucket it found empty a while ago: what the tenant *)
(* is not charged for is what it was let in for during that very pass.     *)
ForgetsOnlyTheOverlap ==
    [][\A k \in Keys :
          bucket[k] # None /\ bucket'[k] # bucket[k] =>
              \A q \in records[bucket[k]] : cleaner.at <= req[q].at + MaxDelay]_vars

(* A store that no longer gets requests becomes empty. *)
IdleBucketsForgotten == <>[](\A k \in Keys : bucket[k] = None)
=============================================================================
