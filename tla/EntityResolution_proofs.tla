----------------------- MODULE EntityResolution_proofs -----------------------
(* Proofs about EntityResolution, for any requests, identifiers and bounds:   *)
(* merges are audited, identifiers move along merges only, the quota holds up *)
(* to the requests in flight and, one request at a time, the tables stay     *)
(* clean and implement IdentityPartition.                                    *)
EXTENDS EntityResolution, TLAPS, WellFoundedInduction, FiniteSetTheorems

USE IdentityAssumption
USE DEF None, Entities, MaybeEntity, Kinds, Phases, Codes

-----------------------------------------------------------------------------
(* Records: their fields, and what a handler assigns. *)

LEMMA HandlerFields ==
    ASSUME NEW h \in Handlers
    PROVE  /\ h.ids \in SUBSET Identifiers /\ h.target \in MaybeEntity
           /\ h.matched \in SUBSET Entities
           /\ h.canonical \in MaybeEntity /\ h.fresh \in MaybeEntity
  BY DEF Handlers

LEMMA HandlerUpdates ==
    ASSUME NEW h \in Handlers, NEW p \in Phases, NEW e \in MaybeEntity,
           NEW M \in SUBSET Entities
    PROVE  /\ [h EXCEPT !.pc = p] \in Handlers
           /\ [h EXCEPT !.pc = p, !.fresh = e] \in Handlers
           /\ [h EXCEPT !.pc = p, !.canonical = e] \in Handlers
           /\ [h EXCEPT !.pc = p, !.matched = M] \in Handlers
<1>1. [h EXCEPT !.pc = p] \in Handlers
  BY DEF Handlers
<1>2. [h EXCEPT !.pc = p, !.fresh = e] \in Handlers
  BY DEF Handlers
<1>3. [h EXCEPT !.pc = p, !.canonical = e] \in Handlers
  BY DEF Handlers
<1>4. [h EXCEPT !.pc = p, !.matched = M] \in Handlers
  BY DEF Handlers
<1> QED
  BY <1>1, <1>2, <1>3, <1>4

LEMMA HandlerStarts ==
    ASSUME NEW p \in Phases, NEW k \in Kinds, NEW S \in SUBSET Identifiers,
           NEW e \in MaybeEntity
    PROVE  [NotStarted EXCEPT !.pc = p, !.kind = k, !.ids = S, !.target = e] \in Handlers
  BY DEF Handlers, NotStarted

LEMMA TransactionUpdates ==
    ASSUME NEW t \in Transactions, NEW f \in [Identifiers -> MaybeEntity],
           NEW D \in SUBSET Entities, NEW M \in SUBSET Requests
    PROVE  /\ t.relink \in [Identifiers -> MaybeEntity]
           /\ t.absorbed \in SUBSET Entities /\ t.moved \in SUBSET Requests
           /\ [t EXCEPT !.relink = f] \in Transactions
           /\ [t EXCEPT !.moved = M, !.absorbed = D] \in Transactions
           /\ EmptyTx \in Transactions
  BY DEF Transactions, EmptyTx

LEMMA ReplyType ==
    ASSUME TypeOK, NEW r \in Requests, NEW code \in Codes, Reply(r, code)
    PROVE  req' \in [Requests -> Handlers] /\ answer' \in [Requests -> Replies]
<1>1. [NotStarted EXCEPT !.pc = "done"] \in Handlers
  BY DEF Handlers, NotStarted
<1>2. [NoAnswer EXCEPT !.code = code] \in Replies
  BY DEF Replies, NoAnswer
<1>3. [code |-> code, ids |-> req[r].ids, entity |-> req[r].canonical] \in Replies
  BY DEF TypeOK, Handlers, Replies
<1> QED
  BY <1>1, <1>2, <1>3 DEF TypeOK, Reply

LEMMA AcceptType ==
    ASSUME TypeOK, NEW r \in Requests, NEW k \in Kinds, NEW S \in SUBSET Identifiers,
           NEW e \in MaybeEntity, NEW p \in Phases, Accept(r, k, S, e, p)
    PROVE  req' \in [Requests -> Handlers] /\ answer' \in [Requests -> Replies]
  BY ZenonT(40), HandlerStarts DEF TypeOK, Accept

LEMMA GotoType ==
    ASSUME TypeOK, NEW r \in Requests, NEW p \in Phases, Goto(r, p)
    PROVE  req' \in [Requests -> Handlers] /\ answer' \in [Requests -> Replies]
<1>1. [req[r] EXCEPT !.pc = p] \in Handlers
  BY ZenonT(40), HandlerUpdates DEF TypeOK
<1> QED
  BY <1>1 DEF TypeOK, Goto

LEMMA bulkLinkType ==
    ASSUME TypeOK, NEW r \in Requests, NEW e \in MaybeEntity
    PROVE  bulkLinkIdentifiers(r, e) \in [Identifiers -> MaybeEntity]
<1>1. tx[r].relink \in [Identifiers -> MaybeEntity]
  BY TransactionUpdates DEF TypeOK
<1> QED
  BY <1>1 DEF bulkLinkIdentifiers

-----------------------------------------------------------------------------
(* Type correctness of every step. *)
LEMMA TypeStep == TypeOK /\ [Next]_vars => TypeOK'
<1> SUFFICES ASSUME TypeOK, [Next]_vars PROVE TypeOK'
  OBVIOUS
<1>1. CASE UNCHANGED vars
  BY <1>1 DEF vars, tables, TypeOK
<1>2. ASSUME NEW r \in Requests, CheckQuota(r) PROVE TypeOK'
  BY <1>2, ReplyType, AcceptType DEF CheckQuota, tables, TypeOK
<1>3. ASSUME NEW r \in Requests, Lookup(r) PROVE TypeOK'
  <2>1. req[r] \in Handlers /\ Matches(r) \in SUBSET Entities /\ next \in Entities
    BY <1>3 DEF TypeOK, Lookup, Matches
  <2>2. /\ [req[r] EXCEPT !.pc = "create", !.fresh = next] \in Handlers
        /\ [req[r] EXCEPT !.pc = "pick", !.matched = Matches(r)] \in Handlers
        /\ \A e \in Entities : [req[r] EXCEPT !.pc = "attach", !.canonical = e] \in Handlers
    BY <2>1, HandlerUpdates
  <2>3. \E h \in Handlers : req' = [req EXCEPT ![r] = h]
    <3>1. CASE req' = [req EXCEPT ![r].pc = "create", ![r].fresh = next]
      BY <2>2, <3>1
    <3>2. ASSUME NEW e \in Entities,
                 req' = [req EXCEPT ![r].pc = "attach", ![r].canonical = e]
          PROVE  \E h \in Handlers : req' = [req EXCEPT ![r] = h]
      BY <2>2, <3>2
    <3>3. CASE req' = [req EXCEPT ![r].pc = "pick", ![r].matched = Matches(r)]
      BY <2>2, <3>3
    <3> QED
      BY <1>3, <2>1, <3>1, <3>2, <3>3 DEF Lookup
  <2>4. next' \in Nat /\ UNCHANGED <<tables, tx, answer>>
    BY <1>3 DEF Lookup, TypeOK
  <2> QED
    BY <2>3, <2>4 DEF TypeOK, tables
<1>4. ASSUME NEW r \in Requests, CreateEntity(r) PROVE TypeOK'
  <2>1. req[r].fresh \in MaybeEntity
    BY HandlerFields DEF TypeOK
  <2>2. [req[r] EXCEPT !.pc = "commit", !.canonical = req[r].fresh] \in Handlers
    BY <2>1, HandlerUpdates DEF TypeOK
  <2>3. [tx[r] EXCEPT !.relink = bulkLinkIdentifiers(r, req[r].fresh)] \in Transactions
    BY <2>1, bulkLinkType, TransactionUpdates DEF TypeOK
  <2> QED
    BY <1>4, <2>2, <2>3 DEF TypeOK, CreateEntity, tables
<1>5. ASSUME NEW r \in Requests, PickCanonical(r) PROVE TypeOK'
  <2>1. \A c \in req[r].matched :
            [req[r] EXCEPT !.pc = "repoint", !.canonical = c] \in Handlers
    BY HandlerFields, HandlerUpdates DEF TypeOK
  <2> QED
    BY ZenonT(40), <1>5, <2>1, ReplyType DEF TypeOK, PickCanonical, tables
<1>6. ASSUME NEW r \in Requests, RepointIdentifiers(r) PROVE TypeOK'
  <2>1. [i \in Identifiers |-> IF i \in IdsOfMerged(r) THEN req[r].canonical ELSE None]
            \in [Identifiers -> MaybeEntity]
    BY HandlerFields DEF TypeOK
  <2>2. \A f \in [Identifiers -> MaybeEntity] : [tx[r] EXCEPT !.relink = f] \in Transactions
    BY TransactionUpdates DEF TypeOK
  <2> QED
    BY <1>6, <2>1, <2>2, GotoType DEF TypeOK, RepointIdentifiers, tables
<1>7. ASSUME NEW r \in Requests, AbsorbMerged(r) PROVE TypeOK'
  <2>1. RowsOfMerged(r) \in SUBSET Requests /\ Merged(r) \in SUBSET Entities
    BY HandlerFields DEF TypeOK, RowsOfMerged, Merged
  <2>2. [tx[r] EXCEPT !.moved = RowsOfMerged(r), !.absorbed = Merged(r)] \in Transactions
    BY <2>1, TransactionUpdates DEF TypeOK
  <2> QED
    BY <1>7, <2>2, GotoType DEF TypeOK, AbsorbMerged, tables
<1>8. ASSUME NEW r \in Requests, AttachIdentifiers(r) PROVE TypeOK'
  <2>1. [tx[r] EXCEPT !.relink = bulkLinkIdentifiers(r, req[r].canonical)] \in Transactions
    BY HandlerFields, bulkLinkType, TransactionUpdates DEF TypeOK
  <2> QED
    BY <1>8, <2>1, GotoType DEF TypeOK, AttachIdentifiers, tables
<1>9. ASSUME NEW r \in Requests, Commit(r) PROVE TypeOK'
  <2>1. /\ req[r].canonical \in MaybeEntity /\ tx[r].absorbed \in SUBSET Entities
        /\ tx[r].relink \in [Identifiers -> MaybeEntity]
    BY HandlerFields, TransactionUpdates DEF TypeOK
  <2>2. tx' \in [Requests -> Transactions]
    BY <1>9, TransactionUpdates DEF TypeOK, Commit
  <2>3. /\ state' \in [Entities -> {"absent", "live", "merged", "erased"}]
        /\ owner' \in [Identifiers -> MaybeEntity]
        /\ loggedOn' \in [Requests -> MaybeEntity]
        /\ usage' \in Nat /\ next' \in Nat
    BY <1>9, <2>1 DEF TypeOK, Commit
  <2>4. links' \in SUBSET (MaybeEntity \X Entities)
    BY <1>9, <2>1 DEF TypeOK, Commit
  <2> QED
    BY <1>9, <2>2, <2>3, <2>4, GotoType DEF TypeOK, Commit
<1>10. ASSUME NEW r \in Requests, FetchResolved(r) PROVE TypeOK'
  BY <1>10, ReplyType DEF FetchResolved, tables, TypeOK
<1>11. ASSUME NEW r \in Requests, LinkExists(r) PROVE TypeOK'
  BY <1>11, ReplyType, AcceptType DEF LinkExists, tables, TypeOK
<1>12. ASSUME NEW r \in Requests, CheckConflict(r) PROVE TypeOK'
  <2>1. [req[r] EXCEPT !.pc = "attach", !.canonical = req[r].target] \in Handlers
    BY HandlerFields, HandlerUpdates DEF TypeOK
  <2> QED
    BY <1>12, <2>1, ReplyType DEF CheckConflict, tables, TypeOK
<1>13. ASSUME NEW r \in Requests, LogExists(r) PROVE TypeOK'
  BY <1>13, ReplyType, AcceptType DEF LogExists, tables, TypeOK
<1>14. ASSUME NEW r \in Requests, LogWrite(r) PROVE TypeOK'
  BY <1>14, ReplyType, HandlerFields DEF LogWrite, TypeOK
<1>15. ASSUME NEW r \in Requests, Erase(r) PROVE TypeOK'
  BY <1>15, ReplyType DEF Erase, TypeOK
<1>16. ASSUME NEW r \in Requests, Abort(r) PROVE TypeOK'
  BY <1>16, ReplyType, TransactionUpdates DEF Abort, tables, TypeOK
<1> QED
  BY <1>1, <1>2, <1>3, <1>4, <1>5, <1>6, <1>7, <1>8, <1>9, <1>10, <1>11, <1>12,
     <1>13, <1>14, <1>15, <1>16 DEF Next, Start, Step, Fail, DeadlockFail, AllDone

LEMMA TypeInit == Init => TypeOK
<1>1. NotStarted \in Handlers /\ EmptyTx \in Transactions /\ NoAnswer \in Replies
  BY DEF NotStarted, Handlers, EmptyTx, Transactions, NoAnswer, Replies
<1> QED
  BY <1>1 DEF Init, TypeOK

(* The tables and the handlers keep their shape. *)
THEOREM TypeCorrect == Spec => []TypeOK
  BY TypeInit, TypeStep, PTL DEF Spec

-----------------------------------------------------------------------------
(* Every soft-deleted entity is linked to an older one: MergeInv is         *)
(* inductive.                                                               *)

(* What a step must establish when it changes one handler and, of the       *)
(* tables, at most who owns what.                                           *)
LEMMA LocalStep ==
    ASSUME MergeInv, TypeOK', NEW r \in Requests,
           UNCHANGED <<state, links, next>>,
           \A s \in Requests \ {r} : req'[s] = req[s] /\ tx'[s] = tx[s],
           HandlerInv(r)',
           Creating(r)' => Creating(r) /\ req'[r].fresh = req[r].fresh
    PROVE  MergeInv'
<1>1. ASSUME NEW s \in Requests PROVE HandlerInv(s)'
  BY DEF MergeInv, HandlerInv, Creating, Merged, Live
<1>2. FreshDistinct'
  BY DEF MergeInv, FreshDistinct, Creating
<1> QED
  BY <1>1, <1>2 DEF MergeInv, UnbornAbsent, MergedIntoOlder

(* A handler that starts or returns leaves nothing behind. *)
LEMMA CleanHandler ==
    ASSUME NEW r \in Requests, req'[r].matched = {}, req'[r].fresh = None,
           tx'[r].absorbed = {}
    PROVE  HandlerInv(r)' /\ ~Creating(r)'
  BY DEF HandlerInv, Creating, Merged

LEMMA ReplyStep ==
    ASSUME MergeInv, TypeOK', NEW r \in Requests, NEW code, Reply(r, code),
           UNCHANGED <<state, links, next>>,
           \A s \in Requests \ {r} : tx'[s] = tx[s], tx'[r].absorbed = {}
    PROVE  MergeInv'
<1>1. /\ req'[r] = [NotStarted EXCEPT !.pc = "done"]
      /\ \A s \in Requests \ {r} : req'[s] = req[s]
  BY DEF Reply, MergeInv, TypeOK
<1>2. req'[r].matched = {} /\ req'[r].fresh = None
  BY <1>1 DEF NotStarted
<1> QED
  BY <1>1, <1>2, CleanHandler, LocalStep

LEMMA AcceptStep ==
    ASSUME MergeInv, TypeOK', NEW r \in Requests, NEW k, NEW S, NEW e, NEW p,
           Accept(r, k, S, e, p), UNCHANGED <<state, links, next, tx>>,
           req[r].pc = "idle"
    PROVE  MergeInv'
<1>1. /\ req'[r] = [NotStarted EXCEPT !.pc = p, !.kind = k, !.ids = S, !.target = e]
      /\ \A s \in Requests \ {r} : req'[s] = req[s]
  BY DEF Accept, MergeInv, TypeOK
<1>2. req'[r].matched = {} /\ req'[r].fresh = None
  BY <1>1 DEF NotStarted
<1>3. tx'[r].absorbed = {}
  BY DEF MergeInv, HandlerInv
<1> QED
  BY <1>1, <1>2, <1>3, CleanHandler, LocalStep

(* Outside a transaction there is nothing to roll back. *)
LEMMA NothingAbsorbed ==
    ASSUME MergeInv, NEW r \in Requests, req[r].pc \notin {"attach", "commit"}
    PROVE  tx[r].absorbed = {}
  BY DEF MergeInv, HandlerInv

(* BEGIN takes an id nobody has seen; the rest is the handler's own. *)
LEMMA MergeLookup ==
    ASSUME MergeInv, TypeOK', NEW r \in Requests, Lookup(r)
    PROVE  MergeInv'
<1>1. /\ UNCHANGED <<state, links, tx>> /\ next' = next + 1 /\ next \in Entities
      /\ \A s \in Requests \ {r} : req'[s] = req[s]
      /\ req[r].pc = "lookup" /\ req[r].matched = {} /\ tx[r].absorbed = {}
      /\ req[r].fresh = None
  BY SMTT(30) DEF Lookup, tables, MergeInv, TypeOK, HandlerInv
<1>2. \/ req'[r] = [req[r] EXCEPT !.pc = "create", !.fresh = next]
      \/ \E e \in Entities : req'[r] = [req[r] EXCEPT !.pc = "attach", !.canonical = e]
      \/ req'[r] = [req[r] EXCEPT !.pc = "pick", !.matched = Matches(r)]
  BY DEF Lookup, MergeInv, TypeOK, Matches
<1>3. req[r] \in Handlers
  BY DEF MergeInv, TypeOK
<1>4. \/ /\ req'[r].pc = "create" /\ req'[r].fresh = next /\ req'[r].matched = {}
      \/ /\ req'[r].pc = "attach" /\ req'[r].matched = {} /\ req'[r].fresh = None
      \/ /\ req'[r].pc = "pick" /\ req'[r].matched = Matches(r) /\ req'[r].fresh = None
  BY ZenonT(40), <1>1, <1>2, <1>3 DEF Handlers
<1>5. state[next] = "absent"
  BY <1>1 DEF MergeInv, UnbornAbsent
<1>6. HandlerInv(r)'
  BY <1>1, <1>4, <1>5 DEF HandlerInv, Creating, Merged, Matches, Live
<1>7. ASSUME NEW s \in Requests \ {r} PROVE HandlerInv(s)'
  <2>1. next \in Nat /\ req[s].fresh \in MaybeEntity
    BY HandlerFields DEF MergeInv, TypeOK
  <2> QED
    BY <1>1, <1>7, <2>1 DEF MergeInv, HandlerInv, Creating, Merged, Live
<1>8. FreshDistinct'
  <2>1. ASSUME NEW s \in Requests \ {r}, Creating(s)' PROVE req'[s].fresh < next
    BY <1>1, <2>1 DEF MergeInv, HandlerInv, Creating
  <2>2. Creating(r)' => req'[r].fresh = next
    BY <1>4 DEF Creating
  <2>3. \A s \in Requests \ {r} : req[s].fresh \in MaybeEntity
    BY HandlerFields DEF MergeInv, TypeOK
  <2> QED
    BY <1>1, <2>1, <2>2, <2>3 DEF MergeInv, FreshDistinct, Creating
<1>9. UnbornAbsent'
  BY <1>1 DEF MergeInv, UnbornAbsent
<1>10. MergedIntoOlder'
  BY <1>1 DEF MergeInv, MergedIntoOlder
<1> QED
  BY <1>6, <1>7, <1>8, <1>9, <1>10 DEF MergeInv

LEMMA MergeCommit ==
    ASSUME MergeInv, TypeOK', NEW r \in Requests, Commit(r)
    PROVE  MergeInv'
<1>1. /\ req[r].pc = "commit" /\ next' = next
      /\ \A s \in Requests \ {r} : req'[s] = req[s] /\ tx'[s] = tx[s]
      /\ tx'[r] = EmptyTx /\ req'[r] = [req[r] EXCEPT !.pc = "fetch"]
      /\ links' = links \cup ({req[r].canonical} \X tx[r].absorbed)
  BY DEF Commit, Goto, MergeInv, TypeOK
<1>2. ASSUME NEW e \in Entities
      PROVE  state'[e] = IF e = req[r].fresh THEN "live"
                         ELSE IF e \in tx[r].absorbed /\ Live(e) THEN "merged" ELSE state[e]
  BY DEF Commit
<1>3. req[r] \in Handlers /\ req[r].fresh \in MaybeEntity /\ next \in Nat
  BY HandlerFields DEF MergeInv, TypeOK
<1>4. req'[r].pc = "fetch" /\ req'[r].matched = req[r].matched /\ tx'[r].absorbed = {}
  BY <1>1, <1>3 DEF Handlers, EmptyTx
<1>5. \A e \in Entities : e = req[r].fresh => state[e] = "absent" /\ e < next
  BY <1>1 DEF MergeInv, HandlerInv, Creating
<1>6. HandlerInv(r)'
  <2>1. \A e \in req[r].matched : e \in Entities /\ state[e] # "absent"
    BY <1>3, HandlerFields DEF MergeInv, HandlerInv
  <2>2. \A e \in req[r].matched : state'[e] # "absent"
    BY <1>2, <2>1
  <2> QED
    BY <1>4, <2>2 DEF HandlerInv, Creating
<1>7. ASSUME NEW s \in Requests \ {r} PROVE HandlerInv(s)'
  <2>1. req[s].matched \subseteq Entities /\ req[s].fresh \in MaybeEntity
    BY HandlerFields DEF MergeInv, TypeOK
  <2>2. HandlerInv(s)
    BY DEF MergeInv
  <2>3. Creating(s) => state'[req[s].fresh] = "absent"
    <3>1. ASSUME Creating(s) PROVE state'[req[s].fresh] = "absent"
      <4>1. req[s].fresh \in Entities /\ state[req[s].fresh] = "absent"
        BY <2>1, <2>2, <3>1 DEF HandlerInv, Creating
      <4>2. req[s].fresh # req[r].fresh
        BY <1>1, <3>1, <4>1 DEF MergeInv, FreshDistinct, Creating
      <4> QED
        BY <1>2, <4>1, <4>2 DEF Live
    <3> QED
      BY <3>1
  <2>4. \A e \in req[s].matched : state'[e] # "absent" /\ (Live(e)' => Live(e))
    BY <1>2, <1>5, <2>1, <2>2 DEF HandlerInv, Live
  <2> QED
    BY <1>1, <2>2, <2>3, <2>4 DEF HandlerInv, Creating, Merged
<1>8. FreshDistinct'
  <2>1. ~Creating(r)'
    BY <1>4 DEF Creating
  <2>2. \A s \in Requests \ {r} : Creating(s)' => Creating(s) /\ req'[s].fresh = req[s].fresh
    BY <1>1 DEF Creating
  <2> QED
    BY <2>1, <2>2 DEF MergeInv, FreshDistinct
<1>9. UnbornAbsent'
  BY <1>1, <1>2, <1>3, <1>5 DEF MergeInv, UnbornAbsent, Live
<1>10. MergedIntoOlder'
  <2> SUFFICES ASSUME NEW e \in Entities, state'[e] = "merged"
               PROVE  \E c \in Entities : c < e /\ <<c, e>> \in links'
    BY DEF MergedIntoOlder
  <2>1. CASE state[e] = "merged"
    BY <1>1, <2>1 DEF MergeInv, MergedIntoOlder
  <2>2. CASE state[e] # "merged"
    <3>1. e \in tx[r].absorbed /\ Live(e)
      BY <1>2, <2>2
    <3>2. req[r].canonical \in Entities /\ req[r].canonical < e
      BY <1>1, <3>1 DEF MergeInv, HandlerInv
    <3> QED
      BY <1>1, <3>1, <3>2
  <2> QED
    BY <2>1, <2>2
<1> QED
  BY <1>6, <1>7, <1>8, <1>9, <1>10 DEF MergeInv

LEMMA MergeErase ==
    ASSUME MergeInv, TypeOK', NEW r \in Requests, Erase(r)
    PROVE  MergeInv'
<1>1. PICK e \in Entities :
          IF state[e] \in {"absent", "erased"}
          THEN Reply(r, "not_found") /\ UNCHANGED <<state, owner>>
          ELSE Reply(r, "ok") /\ state' = [state EXCEPT ![e] = "erased"]
  BY DEF Erase
<1>2. /\ UNCHANGED <<links, next, tx>> /\ req[r].pc = "idle"
      /\ tx[r].absorbed = {}
  BY NothingAbsorbed DEF Erase, CanStart
<1>3. CASE UNCHANGED state
  BY <1>1, <1>2, <1>3, ReplyStep
<1>4. CASE state' = [state EXCEPT ![e] = "erased"] /\ state[e] # "absent" /\ Reply(r, "ok")
  <2>1. /\ req'[r] = [NotStarted EXCEPT !.pc = "done"]
        /\ \A s \in Requests \ {r} : req'[s] = req[s]
    BY <1>4 DEF Reply, MergeInv, TypeOK
  <2>2. \A f \in Entities : /\ state[f] = "absent" <=> state'[f] = "absent"
                            /\ Live(f)' => Live(f)
                            /\ state'[f] = "merged" => state[f] = "merged"
    BY <1>4 DEF MergeInv, TypeOK, Live
  <2>3. HandlerInv(r)' /\ ~Creating(r)'
    BY <1>2, <2>1, CleanHandler DEF NotStarted
  <2>4. ASSUME NEW s \in Requests \ {r} PROVE HandlerInv(s)'
    <3>1. req[s].matched \subseteq Entities /\ req[s].fresh \in MaybeEntity
      BY HandlerFields DEF MergeInv, TypeOK
    <3>2. HandlerInv(s)
      BY DEF MergeInv
    <3>3. Creating(s) => req[s].fresh \in Entities
      BY <3>1 DEF Creating
    <3> QED
      BY <1>2, <2>1, <2>2, <3>1, <3>2, <3>3 DEF HandlerInv, Creating, Merged
  <2>5. FreshDistinct'
    BY ZenonT(40), <2>1, <2>3 DEF MergeInv, FreshDistinct, Creating
  <2>6. UnbornAbsent' /\ MergedIntoOlder'
    BY <1>2, <2>2 DEF MergeInv, UnbornAbsent, MergedIntoOlder
  <2> QED
    BY <2>3, <2>4, <2>5, <2>6 DEF MergeInv
<1> QED
  BY <1>1, <1>3, <1>4

LEMMA MergeInit == Init => MergeInv
<1> SUFFICES ASSUME Init PROVE MergeInv
  OBVIOUS
<1>1. \A r \in Requests : req[r] = NotStarted /\ tx[r] = EmptyTx
  BY DEF Init
<1>2. \A r \in Requests : HandlerInv(r) /\ ~Creating(r)
  BY <1>1 DEF HandlerInv, Creating, NotStarted, EmptyTx
<1>3. UnbornAbsent /\ MergedIntoOlder
  BY DEF Init, UnbornAbsent, MergedIntoOlder
<1> QED
  BY <1>2, <1>3, TypeInit DEF MergeInv, FreshDistinct

LEMMA MergeStep == MergeInv /\ [Next]_vars => MergeInv'
<1> SUFFICES ASSUME MergeInv, [Next]_vars PROVE MergeInv'
  OBVIOUS
<1>0. TypeOK'
  BY TypeStep DEF MergeInv
<1>1. CASE UNCHANGED vars
  BY <1>0, <1>1 DEF vars, tables, MergeInv, HandlerInv, Creating, Merged, Live, FreshDistinct,
                    UnbornAbsent, MergedIntoOlder
<1>2. ASSUME NEW r \in Requests, CheckQuota(r) PROVE MergeInv'
  BY <1>0, <1>2, ReplyStep, AcceptStep, NothingAbsorbed DEF CheckQuota, CanStart, tables
<1>4. ASSUME NEW r \in Requests, CreateEntity(r) PROVE MergeInv'
  <2>1. /\ req'[r] = [req[r] EXCEPT !.pc = "commit", !.canonical = req[r].fresh]
        /\ tx'[r] = [tx[r] EXCEPT !.relink = bulkLinkIdentifiers(r, req[r].fresh)]
        /\ \A s \in Requests \ {r} : req'[s] = req[s] /\ tx'[s] = tx[s]
        /\ UNCHANGED <<state, links, next>> /\ req[r].pc = "create"
    BY <1>4 DEF CreateEntity, MergeInv, TypeOK, tables
  <2>2. req[r] \in Handlers /\ tx[r] \in Transactions
    BY DEF MergeInv, TypeOK
  <2>3. /\ req'[r].pc = "commit" /\ req'[r].matched = req[r].matched
        /\ req'[r].fresh = req[r].fresh
        /\ tx'[r].absorbed = tx[r].absorbed
    BY <2>1, <2>2 DEF Handlers, Transactions
  <2>4. HandlerInv(r) /\ tx[r].absorbed = {} /\ req[r].matched = {}
    BY <2>1, NothingAbsorbed DEF MergeInv, HandlerInv
  <2>5. HandlerInv(r)' /\ (Creating(r)' => Creating(r))
    BY <2>1, <2>3, <2>4 DEF HandlerInv, Creating, Merged
  <2> QED
    BY <1>0, <2>1, <2>3, <2>5, LocalStep
<1>5. ASSUME NEW r \in Requests, PickCanonical(r) PROVE MergeInv'
  <2>1. tx[r].absorbed = {} /\ UNCHANGED <<state, links, next, tx>> /\ req[r].pc = "pick"
    BY <1>5, NothingAbsorbed DEF PickCanonical, tables
  <2>2. CASE Reply(r, "error")
    BY <1>0, <2>1, <2>2, ReplyStep
  <2>3. ASSUME NEW c \in req[r].matched, Live(c),
               \A e \in req[r].matched : Live(e) => c <= e,
               req' = [req EXCEPT ![r].pc = "repoint", ![r].canonical = c]
        PROVE  MergeInv'
    <3>1. /\ req'[r] = [req[r] EXCEPT !.pc = "repoint", !.canonical = c]
          /\ \A s \in Requests \ {r} : req'[s] = req[s]
      BY <2>3 DEF MergeInv, TypeOK
    <3>2. req[r] \in Handlers /\ req[r].matched \subseteq Entities
      BY HandlerFields DEF MergeInv, TypeOK
    <3>3. /\ req'[r].pc = "repoint" /\ req'[r].matched = req[r].matched
          /\ req'[r].canonical = c /\ req'[r].fresh = req[r].fresh
      BY <3>1, <3>2 DEF Handlers
    <3>4. HandlerInv(r)
      BY DEF MergeInv
    <3>5. \A e \in req[r].matched \ {c} : Live(e) => c < e
      BY <2>3, <3>2
    <3>6. HandlerInv(r)' /\ ~Creating(r)'
      BY <2>1, <3>2, <3>3, <3>4, <3>5 DEF HandlerInv, Creating, Merged, Live
    <3> QED
      BY <1>0, <2>1, <3>1, <3>6, LocalStep
  <2> QED
    BY <1>5, <2>2, <2>3 DEF PickCanonical
<1>6. ASSUME NEW r \in Requests, RepointIdentifiers(r) \/ AttachIdentifiers(r) PROVE MergeInv'
  <2>1. /\ UNCHANGED <<state, links, next>>
        /\ \A s \in Requests \ {r} : req'[s] = req[s] /\ tx'[s] = tx[s]
        /\ \E f : tx'[r] = [tx[r] EXCEPT !.relink = f]
        /\ \/ req[r].pc = "repoint" /\ req'[r] = [req[r] EXCEPT !.pc = "absorb"]
           \/ req[r].pc = "attach" /\ req'[r] = [req[r] EXCEPT !.pc = "commit"]
    BY <1>6 DEF RepointIdentifiers, AttachIdentifiers, Goto, MergeInv, TypeOK, tables
  <2>2. req[r] \in Handlers /\ tx[r] \in Transactions
    BY DEF MergeInv, TypeOK
  <2>3. /\ \/ req[r].pc = "repoint" /\ req'[r].pc = "absorb"
           \/ req[r].pc = "attach" /\ req'[r].pc = "commit"
        /\ req'[r].matched = req[r].matched /\ req'[r].fresh = req[r].fresh
        /\ req'[r].canonical = req[r].canonical /\ tx'[r].absorbed = tx[r].absorbed
    BY <2>1, <2>2 DEF Handlers, Transactions
  <2>4. HandlerInv(r)
    BY DEF MergeInv
  <2>5. HandlerInv(r)' /\ ~Creating(r)'
    BY <2>1, <2>3, <2>4 DEF HandlerInv, Creating, Merged, Live
  <2> QED
    BY <1>0, <2>1, <2>3, <2>5, LocalStep
<1>7. ASSUME NEW r \in Requests, AbsorbMerged(r) PROVE MergeInv'
  <2>1. /\ UNCHANGED <<state, links, next>> /\ req[r].pc = "absorb"
        /\ \A s \in Requests \ {r} : req'[s] = req[s] /\ tx'[s] = tx[s]
        /\ tx'[r] = [tx[r] EXCEPT !.moved = RowsOfMerged(r), !.absorbed = Merged(r)]
        /\ req'[r] = [req[r] EXCEPT !.pc = "attach"]
    BY <1>7 DEF AbsorbMerged, Goto, MergeInv, TypeOK, tables
  <2>2. req[r] \in Handlers /\ tx[r] \in Transactions
    BY DEF MergeInv, TypeOK
  <2>3. /\ req'[r].pc = "attach" /\ req'[r].matched = req[r].matched
        /\ req'[r].canonical = req[r].canonical /\ req'[r].fresh = req[r].fresh
        /\ tx'[r].absorbed = Merged(r)
    BY <2>1, <2>2 DEF Handlers, Transactions
  <2>4. HandlerInv(r)
    BY DEF MergeInv
  <2>5. HandlerInv(r)' /\ ~Creating(r)'
    BY <2>1, <2>3, <2>4 DEF HandlerInv, Creating, Merged, Live
  <2> QED
    BY <1>0, <2>1, <2>5, LocalStep
<1>8. ASSUME NEW r \in Requests, FetchResolved(r) PROVE MergeInv'
  BY <1>0, <1>8, ReplyStep, NothingAbsorbed DEF FetchResolved, tables
<1>9. ASSUME NEW r \in Requests, LinkExists(r) \/ LogExists(r) PROVE MergeInv'
  BY <1>0, <1>9, ReplyStep, AcceptStep, NothingAbsorbed DEF LinkExists, LogExists, CanStart, tables
<1>10. ASSUME NEW r \in Requests, CheckConflict(r) PROVE MergeInv'
  <2>1. /\ UNCHANGED <<state, links, next, tx>> /\ req[r].pc = "conflict"
        /\ tx[r].absorbed = {}
    BY <1>10, NothingAbsorbed DEF CheckConflict, tables
  <2>2. CASE Reply(r, "conflict")
    BY <1>0, <2>1, <2>2, ReplyStep
  <2>3. CASE req' = [req EXCEPT ![r].pc = "attach", ![r].canonical = req[r].target]
    <3>1. /\ req'[r] = [req[r] EXCEPT !.pc = "attach", !.canonical = req[r].target]
          /\ \A s \in Requests \ {r} : req'[s] = req[s]
      BY <2>3 DEF MergeInv, TypeOK
    <3>2. req[r] \in Handlers
      BY DEF MergeInv, TypeOK
    <3>3. /\ req'[r].pc = "attach" /\ req'[r].matched = req[r].matched
          /\ req'[r].fresh = req[r].fresh
      BY <3>1, <3>2 DEF Handlers
    <3>4. req[r].matched = {} /\ req[r].fresh = None
      BY <2>1 DEF MergeInv, HandlerInv
    <3>5. HandlerInv(r)' /\ ~Creating(r)'
      BY <2>1, <3>3, <3>4 DEF HandlerInv, Creating, Merged
    <3> QED
      BY <1>0, <2>1, <3>1, <3>5, LocalStep
  <2> QED
    BY <1>10, <2>2, <2>3 DEF CheckConflict
<1>11. ASSUME NEW r \in Requests, LogWrite(r) PROVE MergeInv'
  BY <1>0, <1>11, ReplyStep, NothingAbsorbed DEF LogWrite
<1>12. ASSUME NEW r \in Requests, Abort(r) PROVE MergeInv'
  <2>1. /\ tx'[r].absorbed = {} /\ \A s \in Requests \ {r} : tx'[s] = tx[s]
        /\ UNCHANGED <<state, links, next>> /\ Reply(r, "error")
    BY <1>12 DEF Abort, EmptyTx, MergeInv, TypeOK, tables
  <2> QED
    BY <1>0, <2>1, ReplyStep
<1> QED
  BY <1>0, <1>1, <1>2, <1>4, <1>5, <1>6, <1>7, <1>8, <1>9, <1>10, <1>11, <1>12,
     MergeLookup, MergeCommit, MergeErase
     DEF Next, Start, Step, Fail, DeadlockFail, AllDone

(* Every soft-deleted entity is recorded as merged into an older one. *)
THEOREM MergesAudited == Spec => []MergedIntoOlder
<1>1. MergeInv => MergedIntoOlder
  BY DEF MergeInv
<1> QED
  BY MergeInit, MergeStep, <1>1, PTL DEF Spec

LEMMA OldestExists ==
    ASSUME NEW S \in SUBSET Entities, S # {}
    PROVE  \E e \in S : \A f \in S : e <= f
<1> DEFINE R == {p \in Nat \X Nat : p[1] < p[2]}
<1>1. IsWellFoundedOn(R, Nat)
  <2>1. R = OpToRel(<, Nat)
    BY DEF OpToRel
  <2> QED
    BY <2>1, NatLessThanWellFounded
<1>2. S \subseteq Nat
  OBVIOUS
<1> HIDE DEF R
<1>3. \E e \in S : \A f \in S : <<f, e>> \notin R
  BY <1>1, <1>2, WFMin
<1>4. \A e, f \in Nat : <<f, e>> \notin R => e <= f
  <2> SUFFICES ASSUME NEW e \in Nat, NEW f \in Nat, f < e PROVE <<f, e>> \in R
    OBVIOUS
  <2> DEFINE p == <<f, e>>
  <2>1. p \in Nat \X Nat /\ p[1] < p[2]
    OBVIOUS
  <2> QED
    BY <2>1 DEF R
<1> QED
  BY <1>2, <1>3, <1>4

(* The audit trail of a merged entity ends at one that was not merged: the  *)
(* oldest of any set of merged entities is linked to one outside the set.   *)
THEOREM TrailsEnd == Spec => []TrailReachesSurvivor
<1>1. MergedIntoOlder => TrailReachesSurvivor
  <2> SUFFICES ASSUME MergedIntoOlder,
                      NEW S \in SUBSET {e \in Entities : state[e] = "merged"}, S # {}
               PROVE  \E e \in S, c \in Entities \ S : <<c, e>> \in links
    BY DEF TrailReachesSurvivor
  <2>1. PICK e \in S : \A f \in S : e <= f
    BY OldestExists
  <2>2. PICK c \in Entities : c < e /\ <<c, e>> \in links
    BY DEF MergedIntoOlder
  <2>3. c \notin S
    BY <2>1, <2>2
  <2> QED
    BY <2>1, <2>2, <2>3
<1> QED
  BY MergesAudited, <1>1, PTL

-----------------------------------------------------------------------------
(* What a step of one request does to the others, and to itself.            *)

(* A request writes its own handler and its own transaction only. *)
LEMMA OthersKeep ==
    ASSUME TypeOK, NEW r \in Requests, Start(r) \/ Step(r) \/ Abort(r),
           NEW s \in Requests \ {r}
    PROVE  req'[s] = req[s] /\ tx'[s] = tx[s]
<1>1. CASE CheckQuota(r) \/ LinkExists(r) \/ LogExists(r) \/ Erase(r)
  BY <1>1 DEF CheckQuota, LinkExists, LogExists, Erase, Reply, Accept, TypeOK
<1>2. CASE Lookup(r) \/ CreateEntity(r) \/ PickCanonical(r) \/ RepointIdentifiers(r)
  BY <1>2 DEF Lookup, CreateEntity, PickCanonical, RepointIdentifiers, Reply, Goto, TypeOK
<1>3. CASE AbsorbMerged(r) \/ AttachIdentifiers(r) \/ Commit(r) \/ FetchResolved(r)
  BY <1>3 DEF AbsorbMerged, AttachIdentifiers, Commit, FetchResolved, Reply, Goto, TypeOK
<1>4. CASE CheckConflict(r) \/ LogWrite(r) \/ Abort(r)
  BY <1>4 DEF CheckConflict, LogWrite, Abort, Reply, TypeOK
<1> QED
  BY <1>1, <1>2, <1>3, <1>4 DEF Start, Step, DeadlockFail

(* A handler that was accepted returns, or moves on to a later statement. *)
LEMMA MovesOn ==
    ASSUME TypeOK, NEW r \in Requests, Step(r) \/ Abort(r), ~Commit(r)
    PROVE  /\ usage' = usage
           /\ \/ req'[r] = [NotStarted EXCEPT !.pc = "done"]
              \/ /\ req[r].pc \notin {"idle", "fetch", "done"}
                 /\ req'[r].pc \notin {"idle", "fetch", "done"}
                 /\ req'[r].kind = req[r].kind
<1>0. req[r] \in Handlers
  BY DEF TypeOK
<1>1. CASE Lookup(r)
  BY <1>0, <1>1 DEF Lookup, Handlers, TypeOK, tables
<1>2. CASE CreateEntity(r)
  BY <1>0, <1>2 DEF CreateEntity, Handlers, TypeOK, tables
<1>3. CASE CheckConflict(r)
  <2>1. \/ Reply(r, "conflict")
        \/ req' = [req EXCEPT ![r].pc = "attach", ![r].canonical = req[r].target]
    BY <1>3 DEF CheckConflict
  <2> QED
    BY <1>0, <1>3, <2>1 DEF CheckConflict, Reply, Handlers, TypeOK, tables
<1>4. CASE PickCanonical(r)
  <2>1. \/ Reply(r, "error")
        \/ \E c : req' = [req EXCEPT ![r].pc = "repoint", ![r].canonical = c]
    BY <1>4 DEF PickCanonical
  <2> QED
    BY SMTT(30), <1>0, <1>4, <2>1 DEF PickCanonical, Reply, Handlers, TypeOK, tables
<1>5. CASE RepointIdentifiers(r) \/ AbsorbMerged(r) \/ AttachIdentifiers(r)
  BY <1>0, <1>5
     DEF RepointIdentifiers, AbsorbMerged, AttachIdentifiers, Goto, Handlers, TypeOK, tables
<1>6. CASE FetchResolved(r) \/ LogWrite(r) \/ Abort(r)
  BY <1>6 DEF FetchResolved, LogWrite, Abort, Reply, TypeOK, tables
<1> QED
  BY <1>1, <1>2, <1>4, <1>5, <1>6, <1>3 DEF Step, DeadlockFail

-----------------------------------------------------------------------------
(* The quota.  The check and the count are in different statements, so a    *)
(* resolve that passed the check is owed a unit until it commits or fails:  *)
(* the units counted and owed stay within the bound.                        *)

InFlight == {s \in Requests : req[s].pc \notin {"idle", "done"}}
Owed     == {s \in InFlight : req[s].kind = "resolve" /\ req[s].pc # "fetch"}

QuotaInv ==
    /\ TypeOK
    /\ IsFiniteSet(InFlight) /\ Cardinality(InFlight) <= MaxInFlight
    /\ Limit # Unlimited => usage + Cardinality(Owed) <= Limit + MaxInFlight - 1

LEMMA OwedFinite ==
    ASSUME QuotaInv
    PROVE  /\ IsFiniteSet(Owed) /\ Cardinality(InFlight) \in Nat
           /\ Cardinality(Owed) \in Nat /\ Cardinality(Owed) <= Cardinality(InFlight)
  BY FS_Subset, FS_CardinalityType DEF QuotaInv, Owed

(* A step that accepts nothing and counts nothing. *)
LEMMA QuotaKept ==
    ASSUME QuotaInv, TypeOK', usage' = usage,
           InFlight' \subseteq InFlight, Owed' \subseteq Owed
    PROVE  QuotaInv'
<1>1. /\ IsFiniteSet(InFlight') /\ Cardinality(InFlight') <= Cardinality(InFlight)
      /\ Cardinality(InFlight') \in Nat
  BY FS_Subset, FS_CardinalityType DEF QuotaInv
<1>2. Cardinality(Owed') <= Cardinality(Owed) /\ Cardinality(Owed') \in Nat
  BY OwedFinite, FS_Subset, FS_CardinalityType
<1>3. usage \in Nat
  BY DEF QuotaInv, TypeOK
<1> QED
  BY <1>1, <1>2, <1>3, OwedFinite DEF QuotaInv

(* A request is accepted; a resolve only below the limit. *)
LEMMA QuotaAccept ==
    ASSUME QuotaInv, TypeOK', usage' = usage, NEW r \in Requests, NEW k \in Kinds,
           CanStart(r, k), k = "resolve" /\ Limit # Unlimited => usage < Limit,
           NEW S, NEW e, NEW p \in Phases, Accept(r, k, S, e, p)
    PROVE  QuotaInv'
<1>0. usage \in Nat
  BY DEF QuotaInv, TypeOK
<1>1. /\ req'[r].kind = k /\ \A s \in Requests \ {r} : req'[s] = req[s]
      /\ req[r].pc = "idle"
  BY DEF Accept, NotStarted, QuotaInv, TypeOK, CanStart
<1>2. InFlight' \subseteq InFlight \cup {r}
  BY <1>1 DEF InFlight
<1>3. Owed' \subseteq IF k = "resolve" THEN Owed \cup {r} ELSE Owed
  BY <1>1, <1>2 DEF Owed, InFlight
<1>4. /\ IsFiniteSet(InFlight \cup {r})
      /\ Cardinality(InFlight \cup {r}) <= Cardinality(InFlight) + 1
  <2>1. IsFiniteSet(InFlight)
    BY DEF QuotaInv
  <2>2. /\ IsFiniteSet(InFlight \cup {r})
        /\ Cardinality(InFlight \cup {r}) =
             IF r \in InFlight THEN Cardinality(InFlight) ELSE Cardinality(InFlight) + 1
    BY <2>1, FS_AddElement
  <2> QED
    BY <2>2, OwedFinite
<1>5. Cardinality(InFlight) < MaxInFlight
  BY DEF CanStart, InFlight
<1>6. /\ IsFiniteSet(InFlight') /\ Cardinality(InFlight') \in Nat
      /\ Cardinality(InFlight') <= Cardinality(InFlight \cup {r})
      /\ Cardinality(InFlight \cup {r}) \in Nat
  BY <1>2, <1>4, FS_Subset, FS_CardinalityType
<1>7. Cardinality(InFlight') <= MaxInFlight
  BY <1>4, <1>5, <1>6, OwedFinite
<1>8. CASE k = "resolve"
  <2>1. Owed' \subseteq InFlight'
    BY DEF Owed
  <2>2. Cardinality(Owed') <= Cardinality(InFlight') /\ Cardinality(Owed') \in Nat
    BY <1>6, <2>1, FS_Subset, FS_CardinalityType
  <2>3. Limit # Unlimited => usage' + Cardinality(Owed') <= Limit + MaxInFlight - 1
    BY <1>0, <1>6, <1>7, <1>8, <2>2
  <2> QED
    BY <1>6, <1>7, <2>3 DEF QuotaInv
<1>9. CASE k # "resolve"
  <2>1. Cardinality(Owed') <= Cardinality(Owed) /\ Cardinality(Owed') \in Nat
    BY <1>3, <1>9, OwedFinite, FS_Subset, FS_CardinalityType
  <2> QED
    BY <1>0, <1>6, <1>7, <2>1, OwedFinite DEF QuotaInv
<1> QED
  BY <1>8, <1>9

(* A request refused by its first statement was never in flight. *)
LEMMA QuotaReply ==
    ASSUME QuotaInv, TypeOK', usage' = usage, NEW r \in Requests, NEW code, Reply(r, code)
    PROVE  QuotaInv'
<1>1. req'[r].pc = "done" /\ \A s \in Requests \ {r} : req'[s] = req[s]
  BY DEF Reply, NotStarted, QuotaInv, TypeOK
<1>2. InFlight' \subseteq InFlight /\ Owed' \subseteq Owed
  BY <1>1 DEF InFlight, Owed
<1> QED
  BY <1>2, QuotaKept

(* The counter is incremented by a resolve that was owed the unit. *)
LEMMA QuotaCommit ==
    ASSUME QuotaInv, TypeOK', NEW r \in Requests, Commit(r)
    PROVE  QuotaInv'
<1>0. usage \in Nat
  BY DEF QuotaInv, TypeOK
<1>1. /\ req'[r] = [req[r] EXCEPT !.pc = "fetch"] /\ req[r].pc = "commit"
      /\ \A s \in Requests \ {r} : req'[s] = req[s]
      /\ req[r] \in Handlers
      /\ usage' = IF req[r].kind = "resolve" THEN usage + 1 ELSE usage
  BY DEF Commit, Goto, QuotaInv, TypeOK
<1>2. req'[r].pc = "fetch" /\ req'[r].kind = req[r].kind
  BY <1>1 DEF Handlers
<1>3. InFlight' \subseteq InFlight /\ Owed' \subseteq Owed \ {r}
  BY <1>1, <1>2 DEF InFlight, Owed
<1>4. CASE req[r].kind # "resolve"
  BY <1>1, <1>3, <1>4, QuotaKept
<1>5. CASE req[r].kind = "resolve"
  <2>1. r \in Owed
    BY <1>1, <1>5 DEF Owed, InFlight
  <2>2. /\ IsFiniteSet(Owed \ {r})
        /\ Cardinality(Owed \ {r}) = Cardinality(Owed) - 1
    BY <2>1, OwedFinite, FS_RemoveElement
  <2>3. /\ Cardinality(Owed') <= Cardinality(Owed \ {r})
        /\ Cardinality(Owed') \in Nat
    BY <1>3, <2>2, FS_Subset, FS_CardinalityType
  <2>4. /\ IsFiniteSet(InFlight') /\ Cardinality(InFlight') <= Cardinality(InFlight)
        /\ Cardinality(InFlight') \in Nat
    BY <1>3, FS_Subset, FS_CardinalityType DEF QuotaInv
  <2> QED
    BY <1>0, <1>1, <1>5, <2>2, <2>3, <2>4, OwedFinite DEF QuotaInv
<1> QED
  BY <1>4, <1>5

LEMMA QuotaStep == QuotaInv /\ [Next]_vars => QuotaInv'
<1> SUFFICES ASSUME QuotaInv, [Next]_vars PROVE QuotaInv'
  OBVIOUS
<1>0. TypeOK /\ TypeOK'
  BY TypeStep DEF QuotaInv
<1>1. CASE UNCHANGED vars
  BY <1>0, <1>1, QuotaKept DEF vars, tables, InFlight, Owed
<1>2. ASSUME NEW r \in Requests, CheckQuota(r) PROVE QuotaInv'
  <2>1. usage' = usage /\ CanStart(r, "resolve") /\ usage \in Nat
    BY <1>0, <1>2 DEF CheckQuota, tables, TypeOK
  <2>2. \/ Reply(r, "limited")
        \/ /\ Limit # Unlimited => usage < Limit
           /\ \E S \in SUBSET Identifiers : Accept(r, "resolve", S, None, "lookup")
    BY <1>2, <2>1 DEF CheckQuota
  <2>3. CASE Reply(r, "limited")
    BY <1>0, <2>1, <2>3, QuotaReply
  <2>4. ASSUME Limit # Unlimited => usage < Limit, NEW S \in SUBSET Identifiers,
               Accept(r, "resolve", S, None, "lookup")
        PROVE  QuotaInv'
    BY <1>0, <2>1, <2>4, QuotaAccept
  <2> QED
    BY <2>2, <2>3, <2>4
<1>3. ASSUME NEW r \in Requests, LinkExists(r) PROVE QuotaInv'
  BY <1>0, <1>3, QuotaReply, QuotaAccept DEF LinkExists, tables
<1>4. ASSUME NEW r \in Requests, LogExists(r) PROVE QuotaInv'
  BY <1>0, <1>4, QuotaReply, QuotaAccept DEF LogExists, tables
<1>5. ASSUME NEW r \in Requests, Erase(r) PROVE QuotaInv'
  BY <1>0, <1>5, QuotaReply DEF Erase
<1>6. ASSUME NEW r \in Requests, Step(r) \/ Abort(r), ~Commit(r) PROVE QuotaInv'
  <2>1. /\ \A s \in Requests \ {r} : req'[s] = req[s]
        /\ usage' = usage
    BY <1>0, <1>6, OthersKeep, MovesOn
  <2>2. InFlight' \subseteq InFlight /\ Owed' \subseteq Owed
    BY <1>0, <1>6, <2>1, MovesOn DEF InFlight, Owed, NotStarted
  <2> QED
    BY <1>0, <2>1, <2>2, QuotaKept
<1> QED
  BY <1>0, <1>1, <1>2, <1>3, <1>4, <1>5, <1>6, QuotaCommit
     DEF Next, Start, Fail, AllDone

LEMMA QuotaInit == Init => QuotaInv
<1> SUFFICES ASSUME Init PROVE QuotaInv
  OBVIOUS
<1>1. InFlight = {} /\ Owed = {}
  BY DEF Init, InFlight, Owed, NotStarted
<1>2. usage \in Nat /\ (Limit # Unlimited => usage <= Limit)
  BY DEF Init, Unlimited
<1> QED
  BY <1>1, <1>2, TypeInit, FS_EmptySet DEF QuotaInv

(* Whatever the limit and the traffic, the month ends above its limit by    *)
(* less than the number of requests served at once.                         *)
THEOREM QuotaBounded == Spec => []QuotaOverrunBounded
<1>1. QuotaInv => QuotaOverrunBounded
  BY OwedFinite DEF QuotaInv, QuotaOverrunBounded, TypeOK
<1> QED
  BY QuotaInit, QuotaStep, <1>1, PTL DEF Spec

-----------------------------------------------------------------------------
(* An identifier changes hands only along a merge.  What a transaction      *)
(* re-points stays locked until its commit, so that the owner it read, an   *)
(* entity it merges away or nobody, is still the owner then.                *)

RelinkInv(r) ==
    /\ \A i \in IdsLockedBy(r) :
          /\ req[r].pc \in {"absorb", "attach", "commit"}
          /\ tx[r].relink[i] = req[r].canonical
          /\ owner[i] \in Merged(r) \cup {None}
    /\ req[r].pc \in {"attach", "commit"} => tx[r].absorbed = Merged(r)

IdsLockedOnce ==
    \A r, s \in Requests : r # s => IdsLockedBy(r) \cap IdsLockedBy(s) = {}

LockInv == MergeInv /\ (\A r \in Requests : RelinkInv(r)) /\ IdsLockedOnce

(* A step that changes no owner and one handler, whose new locks are free.  *)
LEMMA LockLocal ==
    ASSUME LockInv, MergeInv', NEW r \in Requests, owner' = owner, RelinkInv(r)',
           \A s \in Requests \ {r} : req'[s] = req[s] /\ tx'[s] = tx[s],
           \A s \in Requests \ {r} : IdsLockedBy(r)' \cap IdsLockedBy(s) = {}
    PROVE  LockInv'
<1>1. ASSUME NEW s \in Requests \ {r} PROVE RelinkInv(s)' /\ IdsLockedBy(s)' = IdsLockedBy(s)
  BY <1>1 DEF LockInv, RelinkInv, IdsLockedBy, Merged
<1>2. IdsLockedOnce'
  BY <1>1 DEF LockInv, IdsLockedOnce
<1> QED
  BY <1>1, <1>2 DEF LockInv

(* A handler with an empty transaction locks nothing. *)
LEMMA NoLock ==
    ASSUME NEW r \in Requests, tx[r].relink = [i \in Identifiers |-> None]
    PROVE  IdsLockedBy(r) = {}
  BY DEF IdsLockedBy

LEMMA OutsideNoLock ==
    ASSUME LockInv, NEW r \in Requests, req[r].pc \notin {"absorb", "attach", "commit"}
    PROVE  IdsLockedBy(r) = {}
  BY DEF LockInv, RelinkInv

(* A handler that returns, or starts, with no identifier locked. *)
LEMMA LockClean ==
    ASSUME LockInv, MergeInv', NEW r \in Requests, owner' = owner,
           \A s \in Requests \ {r} : req'[s] = req[s] /\ tx'[s] = tx[s],
           IdsLockedBy(r)' = {}, req'[r].pc \notin {"attach", "commit"}
    PROVE  LockInv'
<1>1. RelinkInv(r)'
  BY DEF RelinkInv
<1> QED
  BY <1>1, LockLocal

(* What bulkLinkIdentifiers locks when it waits for nobody. *)
LEMMA bulkLinkLocks ==
    ASSUME LockInv, NEW r \in Requests, NEW e \in MaybeEntity,
           req[r].pc \in {"create", "attach"}, WaitsFor(r) = {},
           tx' = [tx EXCEPT ![r].relink = bulkLinkIdentifiers(r, e)]
    PROVE  /\ tx'[r].absorbed = tx[r].absorbed
           /\ \A i \in IdsLockedBy(r)' :
                 \/ owner[i] = None /\ tx'[r].relink[i] = e
                 \/ i \in IdsLockedBy(r) /\ tx'[r].relink[i] = tx[r].relink[i]
           /\ \A s \in Requests \ {r} : IdsLockedBy(r)' \cap IdsLockedBy(s) = {}
<1>1. tx[r] \in Transactions /\ tx'[r] = [tx[r] EXCEPT !.relink = bulkLinkIdentifiers(r, e)]
  BY DEF LockInv, MergeInv, TypeOK
<1>2. tx'[r].relink = bulkLinkIdentifiers(r, e) /\ tx'[r].absorbed = tx[r].absorbed
  BY <1>1 DEF Transactions
<1>3. ASSUME NEW i \in IdsLockedBy(r)'
      PROVE  \/ owner[i] = None /\ tx'[r].relink[i] = e /\ i \in req[r].ids
             \/ i \in IdsLockedBy(r) /\ tx'[r].relink[i] = tx[r].relink[i]
  BY <1>2, <1>3 DEF IdsLockedBy, bulkLinkIdentifiers
<1>4. ASSUME NEW s \in Requests \ {r} PROVE IdsLockedBy(r)' \cap IdsLockedBy(s) = {}
  <2>1. req[r].ids \cap IdsLockedBy(s) = {}
    BY DEF WaitsFor
  <2>2. IdsLockedBy(r) \cap IdsLockedBy(s) = {}
    BY DEF LockInv, IdsLockedOnce
  <2> QED
    BY <1>3, <2>1, <2>2
<1> QED
  BY <1>2, <1>3, <1>4

LEMMA LockCreate ==
    ASSUME LockInv, MergeInv', NEW r \in Requests, CreateEntity(r)
    PROVE  LockInv'
<1>1. /\ req[r].pc = "create" /\ WaitsFor(r) = {} /\ owner' = owner
      /\ tx' = [tx EXCEPT ![r].relink = bulkLinkIdentifiers(r, req[r].fresh)]
      /\ req'[r] = [req[r] EXCEPT !.pc = "commit", !.canonical = req[r].fresh]
      /\ req[r] \in Handlers /\ req[r].fresh \in MaybeEntity
  BY HandlerFields DEF CreateEntity, LockInv, MergeInv, TypeOK, tables
<1>2. /\ req'[r].pc = "commit" /\ req'[r].canonical = req[r].fresh
      /\ req'[r].matched = req[r].matched
  BY <1>1 DEF Handlers
<1>3. tx[r].absorbed = {} /\ req[r].matched = {}
  BY <1>1, NothingAbsorbed DEF LockInv, MergeInv, HandlerInv
<1>4. IdsLockedBy(r) = {}
  BY <1>1, OutsideNoLock
<1>5. RelinkInv(r)'
  BY <1>1, <1>2, <1>3, <1>4, bulkLinkLocks DEF RelinkInv, Merged
<1>6. \A s \in Requests \ {r} : req'[s] = req[s] /\ tx'[s] = tx[s]
  BY OthersKeep DEF LockInv, MergeInv, Step
<1> QED
  BY <1>1, <1>5, <1>6, bulkLinkLocks, LockLocal

LEMMA LockAttach ==
    ASSUME LockInv, MergeInv', NEW r \in Requests, AttachIdentifiers(r)
    PROVE  LockInv'
<1>1. /\ req[r].pc = "attach" /\ WaitsFor(r) = {} /\ owner' = owner
      /\ tx' = [tx EXCEPT ![r].relink = bulkLinkIdentifiers(r, req[r].canonical)]
      /\ req'[r] = [req[r] EXCEPT !.pc = "commit"]
      /\ req[r] \in Handlers /\ req[r].canonical \in MaybeEntity
  BY HandlerFields DEF AttachIdentifiers, Goto, LockInv, MergeInv, TypeOK, tables
<1>2. /\ req'[r].pc = "commit" /\ req'[r].canonical = req[r].canonical
      /\ req'[r].matched = req[r].matched
  BY <1>1 DEF Handlers
<1>3. RelinkInv(r)
  BY DEF LockInv
<1>4. RelinkInv(r)'
  <2>1. \A i \in IdsLockedBy(r)' :
            tx'[r].relink[i] = req[r].canonical /\ owner[i] \in Merged(r) \cup {None}
    BY ZenonT(40), <1>1, <1>3, bulkLinkLocks DEF RelinkInv
  <2>2. tx'[r].absorbed = Merged(r)
    BY <1>1, <1>3, bulkLinkLocks DEF RelinkInv
  <2> QED
    BY <1>1, <1>2, <2>1, <2>2 DEF RelinkInv, Merged
<1>5. \A s \in Requests \ {r} : req'[s] = req[s] /\ tx'[s] = tx[s]
  BY OthersKeep DEF LockInv, MergeInv, Step
<1> QED
  BY <1>1, <1>4, <1>5, bulkLinkLocks, LockLocal

LEMMA LockRepoint ==
    ASSUME LockInv, MergeInv', NEW r \in Requests, RepointIdentifiers(r)
    PROVE  LockInv'
<1>1. /\ req[r].pc = "repoint" /\ WaitsFor(r) = {} /\ owner' = owner
      /\ tx'[r] = [tx[r] EXCEPT !.relink = [i \in Identifiers |->
                       IF i \in IdsOfMerged(r) THEN req[r].canonical ELSE None]]
      /\ req'[r] = [req[r] EXCEPT !.pc = "absorb"]
      /\ req[r] \in Handlers /\ tx[r] \in Transactions
  BY DEF RepointIdentifiers, Goto, LockInv, MergeInv, TypeOK, tables
<1>2. /\ req'[r].pc = "absorb" /\ req'[r].canonical = req[r].canonical
      /\ req'[r].matched = req[r].matched
      /\ tx'[r].relink = [i \in Identifiers |->
                       IF i \in IdsOfMerged(r) THEN req[r].canonical ELSE None]
  BY <1>1 DEF Handlers, Transactions
<1>3. \A i \in IdsLockedBy(r)' : i \in IdsOfMerged(r) /\ tx'[r].relink[i] = req[r].canonical
  BY <1>2 DEF IdsLockedBy
<1>4. RelinkInv(r)'
  BY <1>1, <1>2, <1>3 DEF RelinkInv, Merged, IdsOfMerged
<1>5. \A s \in Requests \ {r} : IdsLockedBy(r)' \cap IdsLockedBy(s) = {}
  BY <1>1, <1>3 DEF WaitsFor
<1>6. \A s \in Requests \ {r} : req'[s] = req[s] /\ tx'[s] = tx[s]
  BY OthersKeep DEF LockInv, MergeInv, Step
<1> QED
  BY <1>1, <1>4, <1>5, <1>6, LockLocal

LEMMA LockAbsorb ==
    ASSUME LockInv, MergeInv', NEW r \in Requests, AbsorbMerged(r)
    PROVE  LockInv'
<1>1. /\ req[r].pc = "absorb" /\ owner' = owner
      /\ tx'[r] = [tx[r] EXCEPT !.moved = RowsOfMerged(r), !.absorbed = Merged(r)]
      /\ req'[r] = [req[r] EXCEPT !.pc = "attach"]
      /\ req[r] \in Handlers /\ tx[r] \in Transactions
  BY DEF AbsorbMerged, Goto, LockInv, MergeInv, TypeOK, tables
<1>2. /\ req'[r].pc = "attach" /\ req'[r].canonical = req[r].canonical
      /\ req'[r].matched = req[r].matched
      /\ tx'[r].relink = tx[r].relink /\ tx'[r].absorbed = Merged(r)
  BY <1>1 DEF Handlers, Transactions
<1>3. IdsLockedBy(r)' = IdsLockedBy(r) /\ Merged(r)' = Merged(r)
  BY <1>2 DEF IdsLockedBy, Merged
<1>4. RelinkInv(r)'
  BY <1>1, <1>2, <1>3 DEF LockInv, RelinkInv
<1>5. \A s \in Requests \ {r} : IdsLockedBy(r)' \cap IdsLockedBy(s) = {}
  BY <1>3 DEF LockInv, IdsLockedOnce
<1>6. \A s \in Requests \ {r} : req'[s] = req[s] /\ tx'[s] = tx[s]
  BY OthersKeep DEF LockInv, MergeInv, Step
<1> QED
  BY <1>1, <1>4, <1>5, <1>6, LockLocal

(* A commit changes the owner of what it had locked only. *)
LEMMA LockCommit ==
    ASSUME LockInv, MergeInv', NEW r \in Requests, Commit(r)
    PROVE  LockInv'
<1>1. /\ \A i \in Identifiers \ IdsLockedBy(r) : owner'[i] = owner[i]
      /\ tx'[r] = EmptyTx /\ req'[r] = [req[r] EXCEPT !.pc = "fetch"]
      /\ req[r] \in Handlers
  BY DEF Commit, Goto, IdsLockedBy, LockInv, MergeInv, TypeOK
<1>2. req'[r].pc = "fetch" /\ IdsLockedBy(r)' = {}
  BY <1>1 DEF Handlers, EmptyTx, IdsLockedBy
<1>3. \A s \in Requests \ {r} : req'[s] = req[s] /\ tx'[s] = tx[s]
  BY OthersKeep DEF LockInv, MergeInv, Step
<1>4. ASSUME NEW s \in Requests \ {r} PROVE RelinkInv(s)' /\ IdsLockedBy(s)' = IdsLockedBy(s)
  <2>1. IdsLockedBy(s) \cap IdsLockedBy(r) = {} /\ RelinkInv(s)
    BY DEF LockInv, IdsLockedOnce
  <2>2. IdsLockedBy(s)' = IdsLockedBy(s) /\ Merged(s)' = Merged(s)
    BY <1>3 DEF IdsLockedBy, Merged
  <2>3. \A i \in IdsLockedBy(s) : owner'[i] = owner[i]
    BY <1>1, <2>1 DEF IdsLockedBy
  <2> QED
    BY <1>3, <2>1, <2>2, <2>3 DEF RelinkInv
<1>5. RelinkInv(r)'
  BY <1>2 DEF RelinkInv
<1>6. IdsLockedOnce'
  BY <1>2, <1>4 DEF LockInv, IdsLockedOnce
<1> QED
  BY <1>4, <1>5, <1>6 DEF LockInv

(* An erasure waits for the transactions that re-point its identifiers. *)
LEMMA LockErase ==
    ASSUME LockInv, MergeInv', NEW r \in Requests, Erase(r)
    PROVE  LockInv'
<1>1. /\ UNCHANGED tx /\ req[r].pc = "idle" /\ req'[r].pc = "done"
      /\ \A s \in Requests \ {r} : req'[s] = req[s]
  BY DEF Erase, CanStart, Reply, NotStarted, LockInv, MergeInv, TypeOK
<1>2. IdsLockedBy(r) = {} /\ \A s \in Requests : IdsLockedBy(s)' = IdsLockedBy(s)
  BY <1>1, OutsideNoLock DEF IdsLockedBy
<1>3. \A s \in Requests \ {r} : \A i \in IdsLockedBy(s) : owner'[i] = owner[i]
  BY DEF Erase, IdsLockedBy
<1>4. ASSUME NEW s \in Requests PROVE RelinkInv(s)'
  <2>1. CASE s = r
    BY <1>1, <1>2, <2>1 DEF RelinkInv
  <2>2. CASE s # r
    BY <1>1, <1>2, <1>3, <2>2 DEF LockInv, RelinkInv, Merged
  <2> QED
    BY <2>1, <2>2
<1>5. IdsLockedOnce'
  BY <1>2 DEF LockInv, IdsLockedOnce
<1> QED
  BY <1>4, <1>5 DEF LockInv

LEMMA LockStep == LockInv /\ [Next]_vars => LockInv'
<1> SUFFICES ASSUME LockInv, [Next]_vars PROVE LockInv'
  OBVIOUS
<1>0. MergeInv' /\ TypeOK
  BY MergeStep DEF LockInv, MergeInv
<1>1. CASE UNCHANGED vars
  BY <1>0, <1>1 DEF vars, tables, LockInv, RelinkInv, IdsLockedOnce, IdsLockedBy, Merged
<1>2. ASSUME NEW r \in Requests, CheckQuota(r) \/ LinkExists(r) \/ LogExists(r) PROVE LockInv'
  <2>1. /\ req[r].pc = "idle" /\ UNCHANGED <<owner, tx>>
        /\ req'[r].pc \in {"lookup", "conflict", "write", "done"}
    <3>1. CASE CheckQuota(r)
      BY ZenonT(40), <1>0, <3>1 DEF CheckQuota, CanStart, Reply, Accept, NotStarted, TypeOK, tables
    <3>2. CASE LinkExists(r)
      BY ZenonT(40), <1>0, <3>2 DEF LinkExists, CanStart, Reply, Accept, NotStarted, TypeOK, tables
    <3>3. CASE LogExists(r)
      BY ZenonT(40), <1>0, <3>3 DEF LogExists, CanStart, Reply, Accept, NotStarted, TypeOK, tables
    <3> QED
      BY <1>2, <3>1, <3>2, <3>3
  <2>2. IdsLockedBy(r)' = {}
    BY <2>1, OutsideNoLock DEF IdsLockedBy
  <2> QED
    BY <1>0, <1>2, <2>1, <2>2, OthersKeep, LockClean DEF Start
<1>3. ASSUME NEW r \in Requests,
             Lookup(r) \/ PickCanonical(r) \/ FetchResolved(r) \/ CheckConflict(r) \/ LogWrite(r)
      PROVE  LockInv'
  <2>1. /\ req[r].pc \notin {"absorb", "attach", "commit"} /\ UNCHANGED <<owner, tx>>
    BY <1>3 DEF Lookup, PickCanonical, FetchResolved, CheckConflict, LogWrite, tables
  <2>2. IdsLockedBy(r)' = {} /\ tx[r].absorbed = {}
    BY <2>1, OutsideNoLock, NothingAbsorbed DEF IdsLockedBy, LockInv
  <2>3. req'[r].pc \in {"attach", "commit"} => req'[r].matched = {}
    <3>1. CASE Lookup(r)
      <4>1. req[r].matched = {} /\ req[r] \in Handlers
        BY <1>0, <3>1 DEF Lookup, LockInv, MergeInv, HandlerInv, TypeOK
      <4>2. \/ req'[r] = [req[r] EXCEPT !.pc = "create", !.fresh = next]
            \/ \E e : req'[r] = [req[r] EXCEPT !.pc = "attach", !.canonical = e]
            \/ req'[r] = [req[r] EXCEPT !.pc = "pick", !.matched = Matches(r)]
        BY <1>0, <3>1 DEF Lookup, TypeOK
      <4> QED
        BY <4>1, <4>2 DEF Handlers
    <3>2. CASE CheckConflict(r)
      <4>1. req[r].matched = {} /\ req[r] \in Handlers
        BY <1>0, <3>2 DEF CheckConflict, LockInv, MergeInv, HandlerInv, TypeOK
      <4>2. \/ req'[r] = [NotStarted EXCEPT !.pc = "done"]
            \/ req'[r] = [req[r] EXCEPT !.pc = "attach", !.canonical = req[r].target]
        BY <1>0, <3>2 DEF CheckConflict, Reply, TypeOK
      <4>3. [NotStarted EXCEPT !.pc = "done"].pc = "done"
        BY DEF NotStarted
      <4> QED
        BY <4>1, <4>2, <4>3 DEF Handlers
    <3>3. CASE PickCanonical(r)
      <4>1. \/ Reply(r, "error")
            \/ \E c : req' = [req EXCEPT ![r].pc = "repoint", ![r].canonical = c]
        BY <3>3 DEF PickCanonical
      <4>2. \/ req'[r] = [NotStarted EXCEPT !.pc = "done"]
            \/ \E c : req'[r] = [req[r] EXCEPT !.pc = "repoint", !.canonical = c]
        BY <1>0, <4>1 DEF Reply, TypeOK
      <4>3. [NotStarted EXCEPT !.pc = "done"].pc = "done" /\ req[r] \in Handlers
        BY <1>0 DEF NotStarted, TypeOK
      <4> QED
        BY <4>2, <4>3 DEF Handlers
    <3>4. CASE FetchResolved(r) \/ LogWrite(r)
      BY <1>0, <3>4 DEF FetchResolved, LogWrite, Reply, NotStarted, TypeOK
    <3> QED
      BY <1>3, <3>1, <3>2, <3>3, <3>4
  <2>4. RelinkInv(r)'
    BY <2>1, <2>2, <2>3 DEF RelinkInv, Merged
  <2> QED
    BY <1>0, <1>3, <2>1, <2>2, <2>4, OthersKeep, LockLocal DEF Step
<1>4. ASSUME NEW r \in Requests, Abort(r) PROVE LockInv'
  <2>1. /\ owner' = owner /\ tx'[r] = EmptyTx /\ req'[r].pc = "done"
    BY <1>0, <1>4 DEF Abort, Reply, NotStarted, TypeOK, tables
  <2>2. IdsLockedBy(r)' = {}
    BY <2>1 DEF IdsLockedBy, EmptyTx
  <2> QED
    BY <1>0, <1>4, <2>1, <2>2, OthersKeep, LockClean
<1> QED
  BY <1>0, <1>1, <1>2, <1>3, <1>4, LockCreate, LockAttach, LockRepoint, LockAbsorb, LockCommit,
     LockErase
     DEF Next, Start, Step, Fail, DeadlockFail, AllDone

LEMMA LockInit == Init => LockInv
<1> SUFFICES ASSUME Init PROVE LockInv
  OBVIOUS
<1>1. \A r \in Requests : IdsLockedBy(r) = {} /\ req[r].pc = "idle"
  BY DEF Init, IdsLockedBy, EmptyTx, NotStarted
<1> QED
  BY <1>1, MergeInit DEF LockInv, RelinkInv, IdsLockedOnce

(* However requests interleave, an identifier moves from one entity to      *)
(* another only by a commit that links the two and leaves the former dead.  *)
THEOREM NoStolenIdentifier == Spec => RelinkOnlyByMerge
<1> DEFINE Moved(i) == owner[i] # None /\ owner'[i] \notin {None, owner[i]}
           Audited(i) == <<owner'[i], owner[i]>> \in links' /\ state'[owner[i]] # "live"
<1>1. ASSUME LockInv, NEW r \in Requests, Commit(r), NEW i \in Identifiers, Moved(i)
      PROVE  Audited(i)
  <2>1. /\ i \in IdsLockedBy(r) /\ owner'[i] = tx[r].relink[i] /\ req[r].pc = "commit"
    BY <1>1 DEF Commit, IdsLockedBy
  <2>2. /\ owner[i] \in tx[r].absorbed /\ owner'[i] = req[r].canonical
        /\ owner[i] \in Merged(r)
    BY <1>1, <2>1 DEF LockInv, RelinkInv
  <2>3. <<owner'[i], owner[i]>> \in links'
    BY <1>1, <2>2 DEF Commit
  <2>4. owner[i] \in Entities /\ owner[i] # req[r].fresh
    <3>1. HandlerInv(r) /\ req[r].matched \in SUBSET Entities
      BY HandlerFields, <1>1 DEF LockInv, MergeInv, TypeOK
    <3>2. owner[i] \in Entities /\ state[owner[i]] # "absent"
      BY <2>2, <3>1 DEF HandlerInv, Merged
    <3>3. req[r].fresh # None => state[req[r].fresh] = "absent"
      BY <2>1, <3>1 DEF HandlerInv, Creating
    <3> QED
      BY <3>2, <3>3
  <2>5. state'[owner[i]] # "live"
    BY <1>1, <2>2, <2>4 DEF Commit, Live
  <2> QED
    BY <2>3, <2>5
<1>2. ASSUME LockInv, NEW r \in Requests, Start(r) \/ Step(r) \/ Fail(r), ~Commit(r),
             NEW i \in Identifiers
      PROVE  ~Moved(i)
  <2>1. CASE Erase(r)
    BY <2>1 DEF Erase
  <2>2. CASE ~Erase(r)
    BY <1>2, <2>2 DEF Start, Step, Fail, DeadlockFail, Abort, CheckQuota, LinkExists, LogExists,
       Lookup, CreateEntity, PickCanonical, RepointIdentifiers, AbsorbMerged, AttachIdentifiers,
       FetchResolved, CheckConflict, LogWrite, tables
  <2> QED
    BY <2>1, <2>2
<1> HIDE DEF Moved, Audited
<1>3. LockInv /\ [Next]_vars => [\A i \in Identifiers : Moved(i) => Audited(i)]_vars
  BY <1>1, <1>2 DEF Next, AllDone
<1>4. LockInv /\ [Next]_vars =>
          [\A i \in Identifiers :
              owner[i] # None /\ owner'[i] \notin {None, owner[i]}
                  => /\ <<owner'[i], owner[i]>> \in links'
                     /\ state'[owner[i]] # "live"]_vars
  BY <1>3 DEF Moved, Audited
<1> QED
  BY LockInit, LockStep, <1>4, PTL DEF Spec, RelinkOnlyByMerge

-----------------------------------------------------------------------------
(* Served one at a time, the handlers implement the partition that          *)
(* IdentityPartition promises, for any number of requests, identifiers and  *)
(* entities, and whatever fails.                                            *)

(* The entities that own an identifier of r. *)
Held(r) == Partition!Classes(req[r].ids)

(* What a handler alone has learned of the partition, phase by phase. *)
ResolvePhases == {"lookup", "create", "pick", "repoint", "absorb"}
FinalPhases   == {"attach", "commit"}

Learned(r) ==
    /\ req[r].pc \in {"conflict", "write"} => req[r].target \in Entities /\ Live(req[r].target)
    /\ req[r].pc \in ResolvePhases => req[r].kind = "resolve"
    /\ req[r].pc \in ResolvePhases \cup FinalPhases \cup {"conflict"} => req[r].ids # {}
    /\ req[r].pc = "conflict" => req[r].kind = "link"
    /\ req[r].pc = "create" => Held(r) = {} /\ req[r].fresh # None
    /\ req[r].pc \in {"pick", "repoint", "absorb"} => req[r].matched = Held(r)
    /\ req[r].pc \in {"repoint", "absorb"} => req[r].canonical \in req[r].matched

(* What its transaction is about to publish. *)
Chosen(r) ==
    \/ /\ req[r].kind = "resolve" /\ req[r].fresh # None
       /\ Held(r) = {} /\ req[r].matched = {} /\ req[r].canonical = req[r].fresh
    \/ /\ req[r].kind = "resolve" /\ req[r].fresh = None
       /\ req[r].canonical \in Entities /\ Live(req[r].canonical)
       /\ Held(r) = req[r].matched \cup {req[r].canonical}
    \/ /\ req[r].kind = "link" /\ req[r].fresh = None
       /\ req[r].canonical \in Entities /\ Live(req[r].canonical)
       /\ Held(r) \subseteq {req[r].canonical} /\ req[r].matched = {}

(* Nothing of what it merges away is forgotten. *)
Complete(r) ==
    /\ req[r].pc \in FinalPhases => Chosen(r)
    /\ \A i \in IdsLockedBy(r) : owner[i] = None => i \in req[r].ids
    /\ req[r].pc \in {"absorb", "attach", "commit"} =>
           \A i \in Identifiers : owner[i] \in Merged(r) => tx[r].relink[i] # None
    /\ req[r].pc \in FinalPhases =>
           \A x \in Requests : loggedOn[x] \in Merged(r) => x \in tx[r].moved
    /\ req[r].pc = "commit" =>
           \A i \in req[r].ids : owner[i] # None \/ tx[r].relink[i] # None

SerialInv ==
    /\ LockInv /\ QuotaInv
    /\ \A r \in Requests : Learned(r) /\ Complete(r)
    /\ LinkedToLive /\ NoRowOnMerged

-----------------------------------------------------------------------------
(* One request at a time. *)

LEMMA Alone ==
    ASSUME MaxInFlight = 1, QuotaInv, NEW r \in Requests, InFlight = {} \/ r \in InFlight,
           NEW s \in Requests \ {r}
    PROVE  s \notin InFlight
<1>1. IsFiniteSet(InFlight) /\ Cardinality(InFlight) \in Nat /\ Cardinality(InFlight) <= 1
  BY OwedFinite DEF QuotaInv
<1>2. CASE InFlight = {}
  BY <1>2
<1>3. CASE InFlight # {}
  <2>1. Cardinality(InFlight) = 1
    BY <1>1, <1>3, FS_EmptySet
  <2>2. \E x : InFlight = {x}
    BY <1>1, <2>1, FS_Singleton
  <2> QED
    BY <1>3, <2>2
<1> QED
  BY <1>2, <1>3

LEMMA NobodyServed ==
    ASSUME MaxInFlight = 1, QuotaInv, NEW r \in Requests, NEW k, CanStart(r, k)
    PROVE  InFlight = {}
<1>1. Cardinality(InFlight) < 1
  BY DEF CanStart, InFlight
<1> QED
  BY <1>1, OwedFinite, FS_EmptySet DEF QuotaInv

LEMMA StepsAlone ==
    ASSUME MaxInFlight = 1, SerialInv, NEW r \in Requests, Start(r) \/ Step(r) \/ Fail(r)
    PROVE  /\ \A s \in Requests \ {r} : s \notin InFlight /\ req'[s] = req[s] /\ tx'[s] = tx[s]
           /\ Start(r) => InFlight = {}
<1>0. QuotaInv /\ TypeOK
  BY DEF SerialInv, QuotaInv
<1>1. CASE Start(r)
  <2>1. \E k : CanStart(r, k)
    BY <1>1 DEF Start, CheckQuota, LinkExists, LogExists, Erase
  <2> QED
    BY <1>0, <1>1, <2>1, NobodyServed, OthersKeep
<1>2. CASE ~Start(r) /\ (Step(r) \/ Fail(r))
  <2>1. (Step(r) \/ Abort(r)) /\ (Commit(r) => req[r].pc = "commit")
    BY <1>2 DEF Step, DeadlockFail, Fail, Commit
  <2>2. r \in InFlight
    BY <1>2, <2>1 DEF InFlight, Step, Fail, Lookup, CreateEntity, PickCanonical,
       RepointIdentifiers, AbsorbMerged, AttachIdentifiers, Commit, FetchResolved, CheckConflict,
       LogWrite, DeadlockFail, Deadlocked, WaitsFor
  <2> QED
    BY <1>0, <1>2, <2>1, <2>2, Alone, OthersKeep
<1> QED
  BY <1>1, <1>2

(* A handler that is not serving anything has learned nothing. *)
LEMMA IdleKnowsNothing ==
    ASSUME NEW r \in Requests, LockInv', req'[r].pc \in {"idle", "fetch", "done"}
    PROVE  Learned(r)' /\ Complete(r)'
<1>1. IdsLockedBy(r)' = {}
  BY DEF LockInv, RelinkInv
<1> QED
  BY <1>1 DEF Learned, Complete, ResolvePhases, FinalPhases

LEMMA SerialFrame ==
    ASSUME SerialInv, LockInv', QuotaInv', NEW r \in Requests,
           \A s \in Requests \ {r} : s \notin InFlight /\ req'[s] = req[s],
           Learned(r)', Complete(r)', LinkedToLive', NoRowOnMerged'
    PROVE  SerialInv'
<1>1. ASSUME NEW s \in Requests \ {r} PROVE Learned(s)' /\ Complete(s)'
  BY IdleKnowsNothing DEF InFlight
<1> QED
  BY <1>1 DEF SerialInv

(* The tables keep: only what r knows is to be shown. *)
LEMMA SerialLocal ==
    ASSUME SerialInv, LockInv', QuotaInv', NEW r \in Requests, UNCHANGED tables,
           \A s \in Requests \ {r} : s \notin InFlight /\ req'[s] = req[s],
           Learned(r)', Complete(r)'
    PROVE  SerialInv'
<1>1. LinkedToLive' /\ NoRowOnMerged'
  BY DEF SerialInv, tables, LinkedToLive, NoRowOnMerged, Live
<1> QED
  BY <1>1, SerialFrame

LEMMA SerialReturn ==
    ASSUME SerialInv, LockInv', QuotaInv', NEW r \in Requests, UNCHANGED tables,
           \A s \in Requests \ {r} : s \notin InFlight /\ req'[s] = req[s],
           NEW code, Reply(r, code)
    PROVE  SerialInv'
<1>1. req'[r].pc = "done"
  BY DEF Reply, NotStarted, SerialInv, QuotaInv, TypeOK
<1>2. Learned(r)' /\ Complete(r)'
  BY <1>1, IdleKnowsNothing
<1> QED
  BY <1>2, SerialLocal

(* What owns an identifier is live: the lookup misses no owner. *)
LEMMA HeldLive ==
    ASSUME SerialInv, NEW r \in Requests
    PROVE  /\ \A e \in Held(r) : e \in Entities /\ Live(e)
           /\ Matches(r) = Held(r)
<1>1. req[r].ids \subseteq Identifiers /\ owner \in [Identifiers -> MaybeEntity]
  BY HandlerFields DEF SerialInv, QuotaInv, TypeOK
<1>2. ASSUME NEW e \in Held(r)
      PROVE  e \in Entities /\ Live(e) /\ \E i \in req[r].ids : owner[i] = e
  <2>1. PICK i \in req[r].ids : e = owner[i] /\ owner[i] # None
    BY <1>2 DEF Held, Partition!Classes
  <2>2. LinkedToLive
    BY DEF SerialInv
  <2> QED
    BY <1>1, <2>1, <2>2 DEF LinkedToLive
<1>3. ASSUME NEW e \in Matches(r) PROVE e \in Held(r)
  BY <1>3 DEF Matches, Held, Partition!Classes
<1>4. Held(r) \subseteq Matches(r)
  BY <1>2 DEF Matches
<1> QED
  BY <1>2, <1>3, <1>4

LEMMA SerialAccept ==
    ASSUME SerialInv, LockInv', QuotaInv', NEW r \in Requests, UNCHANGED tables, tx' = tx,
           \A s \in Requests \ {r} : s \notin InFlight /\ req'[s] = req[s],
           req[r].pc = "idle", NEW k, NEW S, NEW e, NEW p, Accept(r, k, S, e, p),
           \/ p = "lookup" /\ k = "resolve" /\ S # {}
           \/ p = "conflict" /\ k = "link" /\ S # {} /\ e \in Entities /\ Live(e)
           \/ p = "write" /\ e \in Entities /\ Live(e)
    PROVE  SerialInv'
<1>1. req'[r].pc = p /\ req'[r].kind = k /\ req'[r].ids = S /\ req'[r].target = e
  BY DEF Accept, NotStarted, SerialInv, QuotaInv, TypeOK
<1>2. Learned(r)'
  BY <1>1 DEF Learned, ResolvePhases, FinalPhases, tables, Live
<1>3. IdsLockedBy(r)' = {}
  BY OutsideNoLock DEF IdsLockedBy, SerialInv
<1>4. Complete(r)'
  BY <1>1, <1>3 DEF Complete, FinalPhases
<1> QED
  BY <1>2, <1>4, SerialLocal

-----------------------------------------------------------------------------
(* The statements of a transaction, for the only request that is served.    *)

LEMMA SerialLookup ==
    ASSUME SerialInv, LockInv', QuotaInv', NEW r \in Requests, Lookup(r),
           \A s \in Requests \ {r} : s \notin InFlight /\ req'[s] = req[s]
    PROVE  SerialInv'
<1>1. /\ UNCHANGED <<tables, tx>> /\ next \in Entities /\ req[r] \in Handlers
      /\ req[r].pc = "lookup"
      /\ \/ Held(r) = {} /\ req'[r] = [req[r] EXCEPT !.pc = "create", !.fresh = next]
         \/ \E e \in Held(r) :
               /\ Held(r) = {e}
               /\ req'[r] = [req[r] EXCEPT !.pc = "attach", !.canonical = e]
         \/ req'[r] = [req[r] EXCEPT !.pc = "pick", !.matched = Held(r)]
  <2>1. UNCHANGED <<tables, tx>> /\ next \in Entities /\ req[r].pc = "lookup"
    BY DEF Lookup
  <2>2. req[r] \in Handlers /\ req \in [Requests -> Handlers] /\ Matches(r) = Held(r)
    BY HeldLive DEF SerialInv, QuotaInv, TypeOK
  <2>3. CASE Held(r) = {} /\ req' = [req EXCEPT ![r].pc = "create", ![r].fresh = next]
    BY <2>1, <2>2, <2>3
  <2>4. ASSUME NEW e \in Held(r), Held(r) = {e},
               req' = [req EXCEPT ![r].pc = "attach", ![r].canonical = e]
        PROVE  \E f \in Held(r) :
                  /\ Held(r) = {f}
                  /\ req'[r] = [req[r] EXCEPT !.pc = "attach", !.canonical = f]
    BY <2>2, <2>4
  <2>5. CASE req' = [req EXCEPT ![r].pc = "pick", ![r].matched = Held(r)]
    BY <2>1, <2>2, <2>5
  <2>6. \/ Held(r) = {} /\ req' = [req EXCEPT ![r].pc = "create", ![r].fresh = next]
        \/ \E e \in Held(r) :
              Held(r) = {e} /\ req' = [req EXCEPT ![r].pc = "attach", ![r].canonical = e]
        \/ req' = [req EXCEPT ![r].pc = "pick", ![r].matched = Held(r)]
    BY <2>2 DEF Lookup
  <2> QED
    BY <2>1, <2>2, <2>3, <2>4, <2>5, <2>6
<1>2. /\ req[r].kind = "resolve" /\ req[r].ids # {} /\ req[r].matched = {}
      /\ req[r].fresh = None
  BY <1>1 DEF SerialInv, Learned, ResolvePhases, LockInv, MergeInv, HandlerInv
<1>3. /\ req'[r].ids = req[r].ids /\ req'[r].kind = "resolve"
      /\ \/ /\ req'[r].pc = "create" /\ req'[r].fresh = next /\ Held(r) = {}
         \/ /\ req'[r].pc = "attach" /\ req'[r].matched = {} /\ req'[r].fresh = None
            /\ Held(r) = {req'[r].canonical}
         \/ req'[r].pc = "pick" /\ req'[r].matched = Held(r)
  <2>1. CASE Held(r) = {} /\ req'[r] = [req[r] EXCEPT !.pc = "create", !.fresh = next]
    BY <1>1, <1>2, <2>1 DEF Handlers
  <2>2. ASSUME NEW e, Held(r) = {e},
               req'[r] = [req[r] EXCEPT !.pc = "attach", !.canonical = e]
        PROVE  /\ req'[r].ids = req[r].ids /\ req'[r].kind = "resolve"
               /\ req'[r].pc = "attach" /\ req'[r].matched = {} /\ req'[r].fresh = None
               /\ Held(r) = {req'[r].canonical}
    BY <1>1, <1>2, <2>2 DEF Handlers
  <2>3. CASE req'[r] = [req[r] EXCEPT !.pc = "pick", !.matched = Held(r)]
    BY <1>1, <1>2, <2>3 DEF Handlers
  <2> QED
    BY <1>1, <2>1, <2>2, <2>3
<1>4. Held(r)' = Held(r)
  BY <1>1, <1>3 DEF Held, Partition!Classes, tables
<1>5. Learned(r)'
  <2>1. next # None
    BY DEF Lookup
  <2>2. CASE req'[r].pc = "create" /\ req'[r].fresh = next /\ Held(r) = {}
    BY <1>2, <1>3, <1>4, <2>1, <2>2 DEF Learned, ResolvePhases, FinalPhases
  <2>3. CASE req'[r].pc = "attach"
    BY <1>2, <1>3, <2>3 DEF Learned, ResolvePhases, FinalPhases
  <2>4. CASE req'[r].pc = "pick" /\ req'[r].matched = Held(r)
    BY <1>2, <1>3, <1>4, <2>4 DEF Learned, ResolvePhases, FinalPhases
  <2> QED
    BY <1>3, <2>2, <2>3, <2>4
<1>6. IdsLockedBy(r)' = {}
  BY <1>1, OutsideNoLock DEF IdsLockedBy, SerialInv
<1>7. req'[r].pc = "attach" => Chosen(r)'
  BY <1>1, <1>3, <1>4, HeldLive DEF Chosen, tables, Live
<1>8. req'[r].pc = "attach" => Merged(r)' = {}
  BY <1>3 DEF Merged
<1>9. Complete(r)'
  BY <1>3, <1>6, <1>7, <1>8 DEF Complete, FinalPhases
<1> QED
  BY <1>1, <1>5, <1>9, SerialLocal

LEMMA SerialCreate ==
    ASSUME SerialInv, LockInv', QuotaInv', NEW r \in Requests, CreateEntity(r),
           \A s \in Requests \ {r} : s \notin InFlight /\ req'[s] = req[s]
    PROVE  SerialInv'
<1>1. /\ UNCHANGED tables /\ req[r] \in Handlers /\ tx[r] \in Transactions
      /\ req[r].pc = "create"
      /\ tx'[r] = [tx[r] EXCEPT !.relink = bulkLinkIdentifiers(r, req[r].fresh)]
      /\ req'[r] = [req[r] EXCEPT !.pc = "commit", !.canonical = req[r].fresh]
  BY DEF CreateEntity, SerialInv, QuotaInv, TypeOK
<1>2. /\ req[r].kind = "resolve" /\ req[r].ids # {} /\ req[r].matched = {}
      /\ req[r].fresh # None /\ Held(r) = {}
  BY <1>1 DEF SerialInv, Learned, ResolvePhases, LockInv, MergeInv, HandlerInv
<1>3. /\ req'[r].pc = "commit" /\ req'[r].kind = "resolve" /\ req'[r].ids = req[r].ids
      /\ req'[r].canonical = req[r].fresh /\ req'[r].fresh = req[r].fresh
      /\ req'[r].matched = {}
      /\ tx'[r].relink = bulkLinkIdentifiers(r, req[r].fresh)
  BY <1>1, <1>2 DEF Handlers, Transactions
<1>4. Held(r)' = {} /\ Merged(r)' = {} /\ Chosen(r)'
  BY <1>1, <1>2, <1>3 DEF Held, Partition!Classes, tables, Merged, Chosen
<1>5. Learned(r)'
  BY <1>2, <1>3 DEF Learned, ResolvePhases, FinalPhases
<1>6. req[r].ids \subseteq Identifiers
  BY <1>1, HandlerFields
<1>7. \A i \in req[r].ids : owner[i] # None \/ tx'[r].relink[i] # None
  BY <1>2, <1>3, <1>6 DEF bulkLinkIdentifiers
<1>8. IdsLockedBy(r) = {}
  BY <1>1, OutsideNoLock DEF SerialInv
<1>9. \A i \in IdsLockedBy(r)' : i \in req[r].ids
  BY <1>3, <1>8 DEF IdsLockedBy, bulkLinkIdentifiers
<1>10. Complete(r)'
  BY <1>1, <1>3, <1>4, <1>7, <1>9 DEF Complete, FinalPhases, tables
<1> QED
  BY <1>1, <1>5, <1>10, SerialLocal

LEMMA SerialPick ==
    ASSUME SerialInv, LockInv', QuotaInv', NEW r \in Requests, PickCanonical(r),
           \A s \in Requests \ {r} : s \notin InFlight /\ req'[s] = req[s]
    PROVE  SerialInv'
<1>1. UNCHANGED <<tables, tx>> /\ req[r] \in Handlers /\ req[r].pc = "pick"
  BY DEF PickCanonical, SerialInv, QuotaInv, TypeOK
<1>2. CASE Reply(r, "error")
  BY <1>1, <1>2, SerialReturn
<1>3. ASSUME NEW c \in req[r].matched,
             req' = [req EXCEPT ![r].pc = "repoint", ![r].canonical = c]
      PROVE  SerialInv'
  <2>1. req'[r] = [req[r] EXCEPT !.pc = "repoint", !.canonical = c]
    BY <1>3 DEF SerialInv, QuotaInv, TypeOK
  <2>2. /\ req'[r].pc = "repoint" /\ req'[r].canonical = c
        /\ req'[r].matched = req[r].matched
        /\ req'[r].kind = req[r].kind /\ req'[r].ids = req[r].ids
    BY <1>1, <2>1 DEF Handlers
  <2>3. Held(r)' = Held(r)
    BY <1>1, <2>2 DEF Held, Partition!Classes, tables
  <2>4. req[r].kind = "resolve" /\ req[r].ids # {} /\ req[r].matched = Held(r)
    BY <1>1 DEF SerialInv, Learned, ResolvePhases
  <2>5. Learned(r)'
    BY <1>3, <2>2, <2>3, <2>4 DEF Learned, ResolvePhases, FinalPhases
  <2>6. IdsLockedBy(r)' = {}
    BY <1>1, OutsideNoLock DEF IdsLockedBy, SerialInv
  <2>7. Complete(r)'
    BY <2>2, <2>6 DEF Complete, FinalPhases
  <2> QED
    BY <1>1, <2>5, <2>7, SerialLocal
<1>4. \/ Reply(r, "error")
      \/ \E c \in req[r].matched : req' = [req EXCEPT ![r].pc = "repoint", ![r].canonical = c]
  BY DEF PickCanonical
<1> QED
  BY <1>2, <1>3, <1>4

LEMMA SerialRepoint ==
    ASSUME SerialInv, LockInv', QuotaInv', NEW r \in Requests, RepointIdentifiers(r),
           \A s \in Requests \ {r} : s \notin InFlight /\ req'[s] = req[s]
    PROVE  SerialInv'
<1>1. /\ UNCHANGED tables /\ req[r] \in Handlers /\ tx[r] \in Transactions
      /\ req[r].pc = "repoint"
      /\ tx'[r] = [tx[r] EXCEPT !.relink = [i \in Identifiers |->
                       IF i \in IdsOfMerged(r) THEN req[r].canonical ELSE None]]
      /\ req'[r] = [req[r] EXCEPT !.pc = "absorb"]
  BY DEF RepointIdentifiers, Goto, SerialInv, QuotaInv, TypeOK
<1>2. /\ req[r].kind = "resolve" /\ req[r].ids # {} /\ req[r].matched = Held(r)
      /\ req[r].canonical \in req[r].matched
  BY <1>1 DEF SerialInv, Learned, ResolvePhases
<1>3. /\ req'[r].pc = "absorb" /\ req'[r].kind = "resolve" /\ req'[r].ids = req[r].ids
      /\ req'[r].canonical = req[r].canonical /\ req'[r].matched = req[r].matched
      /\ tx'[r].relink = [i \in Identifiers |->
                       IF i \in IdsOfMerged(r) THEN req[r].canonical ELSE None]
  BY <1>1, <1>2 DEF Handlers, Transactions
<1>4. Held(r)' = Held(r) /\ Merged(r)' = Merged(r) /\ owner' = owner
  BY <1>1, <1>3 DEF Held, Partition!Classes, tables, Merged
<1>5. Learned(r)'
  BY <1>2, <1>3, <1>4 DEF Learned, ResolvePhases, FinalPhases
<1>6. req[r].canonical # None
  BY <1>2, HeldLive
<1>7. \A i \in Identifiers : owner[i] \in Merged(r) => tx'[r].relink[i] # None
  BY <1>3, <1>6 DEF IdsOfMerged
<1>8. \A i \in IdsLockedBy(r)' : owner[i] # None
  <2>1. ASSUME NEW i \in IdsLockedBy(r)' PROVE owner[i] \in Merged(r)
    BY <1>3, <2>1 DEF IdsLockedBy, IdsOfMerged
  <2>2. \A e \in Merged(r) : e # None
    BY <1>2, HeldLive DEF Merged
  <2> QED
    BY <2>1, <2>2
<1>9. Complete(r)'
  BY <1>3, <1>4, <1>7, <1>8 DEF Complete, FinalPhases
<1> QED
  BY <1>1, <1>5, <1>9, SerialLocal

LEMMA SerialAbsorb ==
    ASSUME SerialInv, LockInv', QuotaInv', NEW r \in Requests, AbsorbMerged(r),
           \A s \in Requests \ {r} : s \notin InFlight /\ req'[s] = req[s]
    PROVE  SerialInv'
<1>1. /\ UNCHANGED tables /\ req[r] \in Handlers /\ tx[r] \in Transactions
      /\ req[r].pc = "absorb"
      /\ tx'[r] = [tx[r] EXCEPT !.moved = RowsOfMerged(r), !.absorbed = Merged(r)]
      /\ req'[r] = [req[r] EXCEPT !.pc = "attach"]
  BY DEF AbsorbMerged, Goto, SerialInv, QuotaInv, TypeOK
<1>2. /\ req[r].kind = "resolve" /\ req[r].ids # {} /\ req[r].matched = Held(r)
      /\ req[r].canonical \in req[r].matched /\ req[r].fresh = None /\ Complete(r)
  BY <1>1 DEF SerialInv, Learned, ResolvePhases, LockInv, MergeInv, HandlerInv
<1>3. /\ req'[r].pc = "attach" /\ req'[r].kind = "resolve" /\ req'[r].ids = req[r].ids
      /\ req'[r].canonical = req[r].canonical /\ req'[r].matched = req[r].matched
      /\ req'[r].fresh = None
      /\ tx'[r].relink = tx[r].relink /\ tx'[r].moved = RowsOfMerged(r)
  BY <1>1, <1>2 DEF Handlers, Transactions
<1>4. /\ Held(r)' = Held(r) /\ Merged(r)' = Merged(r) /\ UNCHANGED <<owner, loggedOn, state>>
      /\ IdsLockedBy(r)' = IdsLockedBy(r)
  BY <1>1, <1>3 DEF Held, Partition!Classes, tables, Merged, IdsLockedBy
<1>5. Learned(r)'
  BY <1>2, <1>3 DEF Learned, ResolvePhases, FinalPhases
<1>6. Chosen(r)'
  <2>1. req[r].canonical \in Entities /\ Live(req[r].canonical)
    BY <1>2, HeldLive
  <2> QED
    BY <1>2, <1>3, <1>4, <2>1 DEF Chosen, Live
<1>7. \A x \in Requests : loggedOn[x] \in Merged(r) => x \in tx'[r].moved
  BY <1>3 DEF RowsOfMerged
<1>8. Complete(r)'
  BY <1>1, <1>2, <1>3, <1>4, <1>6, <1>7 DEF Complete, FinalPhases
<1> QED
  BY <1>1, <1>5, <1>8, SerialLocal

LEMMA SerialAttach ==
    ASSUME SerialInv, LockInv', QuotaInv', NEW r \in Requests, AttachIdentifiers(r),
           \A s \in Requests \ {r} : s \notin InFlight /\ req'[s] = req[s]
    PROVE  SerialInv'
<1>1. /\ UNCHANGED tables /\ req[r] \in Handlers /\ tx[r] \in Transactions
      /\ req[r].pc = "attach"
      /\ tx'[r] = [tx[r] EXCEPT !.relink = bulkLinkIdentifiers(r, req[r].canonical)]
      /\ req'[r] = [req[r] EXCEPT !.pc = "commit"]
  BY DEF AttachIdentifiers, Goto, SerialInv, QuotaInv, TypeOK
<1>2. /\ req[r].ids # {} /\ Complete(r) /\ Chosen(r) /\ req[r].fresh = None
  BY <1>1 DEF SerialInv, Learned, Complete, FinalPhases, LockInv, MergeInv, HandlerInv
<1>3. /\ req'[r].pc = "commit" /\ req'[r].kind = req[r].kind /\ req'[r].ids = req[r].ids
      /\ req'[r].canonical = req[r].canonical /\ req'[r].matched = req[r].matched
      /\ req'[r].fresh = req[r].fresh
      /\ tx'[r].relink = bulkLinkIdentifiers(r, req[r].canonical)
      /\ tx'[r].moved = tx[r].moved
  BY <1>1 DEF Handlers, Transactions
<1>4. /\ Held(r)' = Held(r) /\ Merged(r)' = Merged(r) /\ UNCHANGED <<owner, loggedOn, state>>
  BY <1>1, <1>3 DEF Held, Partition!Classes, tables, Merged
<1>5. Learned(r)'
  BY <1>2, <1>3 DEF Learned, ResolvePhases, FinalPhases
<1>6. Chosen(r)'
  BY <1>2, <1>3, <1>4 DEF Chosen, Live
<1>7. req[r].canonical # None /\ req[r].ids \subseteq Identifiers
  BY <1>1, <1>2, HandlerFields DEF Chosen
<1>8. \A i \in Identifiers : tx[r].relink[i] # None => tx'[r].relink[i] # None
  BY <1>3, <1>7 DEF bulkLinkIdentifiers
<1>9. \A i \in req[r].ids : owner[i] # None \/ tx'[r].relink[i] # None
  BY <1>3, <1>7 DEF bulkLinkIdentifiers
<1>10. \A i \in IdsLockedBy(r)' : i \in IdsLockedBy(r) \/ i \in req[r].ids
  BY <1>3 DEF IdsLockedBy, bulkLinkIdentifiers
<1>11. Complete(r)'
  BY <1>1, <1>2, <1>3, <1>4, <1>6, <1>8, <1>9, <1>10 DEF Complete, FinalPhases
<1> QED
  BY <1>1, <1>5, <1>11, SerialLocal

-----------------------------------------------------------------------------
(* What a commit publishes. *)

(* The owners and the live entities after the commit of r, in terms of what *)
(* r had learned.                                                           *)
LEMMA CommitPublishes ==
    ASSUME SerialInv, NEW r \in Requests, Commit(r)
    PROVE  /\ Chosen(r) /\ req[r].ids # {} /\ req[r].ids \subseteq Identifiers
           /\ \A i \in Identifiers :
                 owner'[i] = IF (i \in req[r].ids /\ owner[i] = None) \/ owner[i] \in Merged(r)
                             THEN req[r].canonical ELSE owner[i]
           /\ \A e \in Entities :
                 state'[e] = IF e = req[r].fresh THEN "live"
                             ELSE IF e \in Merged(r) THEN "merged" ELSE state[e]
<1>1. /\ req[r].pc = "commit" /\ Complete(r) /\ Learned(r) /\ RelinkInv(r)
      /\ req[r].ids \subseteq Identifiers /\ owner \in [Identifiers -> MaybeEntity]
  BY HandlerFields DEF Commit, SerialInv, QuotaInv, TypeOK, LockInv
<1>2. Chosen(r) /\ req[r].ids # {} /\ tx[r].absorbed = Merged(r)
  BY <1>1 DEF Complete, Learned, RelinkInv, FinalPhases
<1>3. \A e \in Merged(r) : e \in Entities /\ Live(e)
  <2>1. Merged(r) \subseteq Held(r)
    BY <1>2 DEF Chosen, Merged
  <2> QED
    BY <2>1, HeldLive
<1>4. ASSUME NEW i \in Identifiers
      PROVE  owner'[i] = IF (i \in req[r].ids /\ owner[i] = None) \/ owner[i] \in Merged(r)
                         THEN req[r].canonical ELSE owner[i]
  <2>1. owner'[i] = IF tx[r].relink[i] # None THEN tx[r].relink[i] ELSE owner[i]
    BY DEF Commit
  <2>2. CASE tx[r].relink[i] # None
    <3>1. i \in IdsLockedBy(r)
      BY <2>2 DEF IdsLockedBy
    <3>2. tx[r].relink[i] = req[r].canonical /\ owner[i] \in Merged(r) \cup {None}
      BY <1>1, <3>1 DEF RelinkInv
    <3>3. owner[i] = None => i \in req[r].ids
      BY <1>1, <3>1 DEF Complete
    <3> QED
      BY <2>1, <2>2, <3>2, <3>3
  <2>3. CASE tx[r].relink[i] = None
    BY <1>1, <2>1, <2>3 DEF Complete
  <2> QED
    BY <2>2, <2>3
<1>5. ASSUME NEW e \in Entities
      PROVE  state'[e] = IF e = req[r].fresh THEN "live"
                         ELSE IF e \in Merged(r) THEN "merged" ELSE state[e]
  BY <1>2, <1>3 DEF Commit
<1> QED
  BY <1>1, <1>2, <1>4, <1>5

LEMMA SerialCommit ==
    ASSUME SerialInv, LockInv', QuotaInv', NEW r \in Requests, Commit(r),
           \A s \in Requests \ {r} : s \notin InFlight /\ req'[s] = req[s]
    PROVE  SerialInv'
<1>1. /\ req'[r] = [req[r] EXCEPT !.pc = "fetch"] /\ req[r] \in Handlers
      /\ req[r].pc = "commit" /\ Complete(r)
      /\ owner \in [Identifiers -> MaybeEntity] /\ loggedOn \in [Requests -> MaybeEntity]
      /\ LinkedToLive /\ NoRowOnMerged
  BY DEF Commit, Goto, SerialInv, QuotaInv, TypeOK
<1>2. req'[r].pc = "fetch"
  BY <1>1 DEF Handlers
<1>3. Learned(r)' /\ Complete(r)'
  BY <1>2, IdleKnowsNothing
<1>4. /\ req[r].canonical \in Entities /\ state'[req[r].canonical] = "live"
  <2>1. req[r].fresh \in MaybeEntity /\ req[r].canonical \notin Merged(r)
    BY <1>1, HandlerFields DEF Merged
  <2>2. Chosen(r)
    BY CommitPublishes
  <2>3. CASE req[r].fresh # None
    BY <2>1, <2>2, <2>3, CommitPublishes DEF Chosen
  <2>4. CASE req[r].fresh = None
    BY <2>1, <2>2, <2>4, CommitPublishes DEF Chosen, Live
  <2> QED
    BY <2>3, <2>4
<1>5. LinkedToLive'
  <2> SUFFICES ASSUME NEW i \in Identifiers, owner'[i] # None PROVE state'[owner'[i]] = "live"
    BY DEF LinkedToLive, Live
  <2>1. CASE owner'[i] = req[r].canonical
    BY <1>4, <2>1
  <2>2. CASE owner'[i] = owner[i] /\ owner[i] \notin Merged(r)
    <3>1. owner[i] \in Entities /\ state[owner[i]] = "live"
      BY <1>1, <2>2 DEF LinkedToLive, Live
    <3> QED
      BY <2>2, <3>1, CommitPublishes
  <2> QED
    BY <2>1, <2>2, CommitPublishes
<1>6. NoRowOnMerged'
  <2> SUFFICES ASSUME NEW x \in Requests, loggedOn'[x] # None
               PROVE  state'[loggedOn'[x]] # "merged"
    BY DEF NoRowOnMerged
  <2>1. loggedOn'[x] = IF x \in tx[r].moved THEN req[r].canonical ELSE loggedOn[x]
    BY DEF Commit
  <2>2. CASE x \in tx[r].moved
    BY <1>4, <2>1, <2>2
  <2>3. CASE x \notin tx[r].moved
    <3>1. loggedOn[x] \in Entities /\ state[loggedOn[x]] # "merged"
      BY <1>1, <2>1, <2>3 DEF NoRowOnMerged
    <3>2. loggedOn[x] \notin Merged(r)
      BY <1>1, <2>3 DEF Complete, FinalPhases
    <3> QED
      BY <2>1, <2>3, <3>1, <3>2, CommitPublishes
  <2> QED
    BY <2>2, <2>3
<1> QED
  BY <1>3, <1>5, <1>6, SerialFrame

LEMMA SerialErase ==
    ASSUME SerialInv, LockInv', QuotaInv', NEW r \in Requests, Erase(r),
           \A s \in Requests \ {r} : s \notin InFlight /\ req'[s] = req[s]
    PROVE  SerialInv'
<1>1. PICK e \in Entities :
          IF state[e] \in {"absent", "erased"}
          THEN Reply(r, "not_found") /\ UNCHANGED <<state, owner>>
          ELSE /\ Reply(r, "ok") /\ state' = [state EXCEPT ![e] = "erased"]
               /\ owner' = [i \in Identifiers |-> IF owner[i] = e THEN None ELSE owner[i]]
  BY DEF Erase
<1>2. /\ UNCHANGED <<links, loggedOn, usage, next, tx>>
      /\ state \in [Entities -> {"absent", "live", "merged", "erased"}]
      /\ owner \in [Identifiers -> MaybeEntity] /\ loggedOn \in [Requests -> MaybeEntity]
      /\ LinkedToLive /\ NoRowOnMerged
  BY DEF Erase, SerialInv, QuotaInv, TypeOK
<1>3. CASE UNCHANGED <<state, owner>> /\ Reply(r, "not_found")
  BY <1>2, <1>3, SerialReturn DEF tables
<1>4. CASE /\ Reply(r, "ok") /\ state' = [state EXCEPT ![e] = "erased"]
           /\ owner' = [i \in Identifiers |-> IF owner[i] = e THEN None ELSE owner[i]]
  <2>1. req'[r].pc = "done"
    BY <1>4 DEF Reply, NotStarted, SerialInv, QuotaInv, TypeOK
  <2>2. Learned(r)' /\ Complete(r)'
    BY <2>1, IdleKnowsNothing
  <2>3. LinkedToLive' /\ NoRowOnMerged'
    BY <1>2, <1>4 DEF LinkedToLive, NoRowOnMerged, Live
  <2> QED
    BY <2>2, <2>3, SerialFrame
<1> QED
  BY <1>1, <1>3, <1>4

LEMMA SerialLog ==
    ASSUME SerialInv, LockInv', QuotaInv', NEW r \in Requests, LogWrite(r),
           \A s \in Requests \ {r} : s \notin InFlight /\ req'[s] = req[s]
    PROVE  SerialInv'
<1>1. /\ Reply(r, "ok") /\ UNCHANGED <<state, owner>> /\ req[r].pc = "write"
      /\ loggedOn' = [loggedOn EXCEPT ![r] = req[r].target]
  BY DEF LogWrite
<1>2. req'[r].pc = "done"
  BY <1>1 DEF Reply, NotStarted, SerialInv, QuotaInv, TypeOK
<1>3. Learned(r)' /\ Complete(r)'
  BY <1>2, IdleKnowsNothing
<1>4. Live(req[r].target) /\ NoRowOnMerged /\ loggedOn \in [Requests -> MaybeEntity]
  BY <1>1 DEF SerialInv, Learned, QuotaInv, TypeOK
<1>5. NoRowOnMerged'
  BY <1>1, <1>4 DEF NoRowOnMerged, Live
<1>6. LinkedToLive'
  BY <1>1 DEF SerialInv, LinkedToLive, Live
<1> QED
  BY <1>3, <1>5, <1>6, SerialFrame

LEMMA SerialStep == MaxInFlight = 1 /\ SerialInv /\ [Next]_vars => SerialInv'
<1> SUFFICES ASSUME MaxInFlight = 1, SerialInv, [Next]_vars PROVE SerialInv'
  OBVIOUS
<1>0. LockInv' /\ QuotaInv' /\ TypeOK
  BY LockStep, QuotaStep DEF SerialInv, QuotaInv
<1>1. CASE UNCHANGED vars
  <2>1. \A r \in Requests : Learned(r)' /\ Complete(r)'
    BY <1>1 DEF vars, tables, SerialInv, Learned, Complete, Chosen, Held, Partition!Classes,
                Merged, IdsLockedBy, Live
  <2> QED
    BY <1>0, <1>1, <2>1 DEF vars, tables, SerialInv, LinkedToLive, NoRowOnMerged, Live
<1>2. ASSUME NEW r \in Requests, Start(r) \/ Step(r) \/ Fail(r) PROVE SerialInv'
  <2>1. \A s \in Requests \ {r} : s \notin InFlight /\ req'[s] = req[s]
    BY <1>2, StepsAlone
  <2>2. CASE CheckQuota(r)
    <3>1. UNCHANGED <<tables, tx>> /\ req[r].pc = "idle"
      BY <2>2 DEF CheckQuota, CanStart
    <3>2. \/ Reply(r, "limited")
          \/ \E S \in SUBSET Identifiers : S # {} /\ Accept(r, "resolve", S, None, "lookup")
      BY <2>2 DEF CheckQuota
    <3> QED
      BY <1>0, <2>1, <3>1, <3>2, SerialReturn, SerialAccept
  <2>3. CASE LinkExists(r)
    <3>1. UNCHANGED <<tables, tx>> /\ req[r].pc = "idle"
      BY <2>3 DEF LinkExists, CanStart
    <3>2. \E e \in Entities :
             \/ Reply(r, "not_found")
             \/ /\ Live(e)
                /\ \E S \in SUBSET Identifiers : S # {} /\ Accept(r, "link", S, e, "conflict")
      BY <2>3 DEF LinkExists
    <3> QED
      BY <1>0, <2>1, <3>1, <3>2, SerialReturn, SerialAccept
  <2>4. CASE LogExists(r)
    <3>1. UNCHANGED <<tables, tx>> /\ req[r].pc = "idle"
      BY <2>4 DEF LogExists, CanStart
    <3>2. \E e \in Entities :
             \/ Reply(r, "not_found")
             \/ Live(e) /\ Accept(r, "log", {}, e, "write")
      BY <2>4 DEF LogExists
    <3> QED
      BY <1>0, <2>1, <3>1, <3>2, SerialReturn, SerialAccept
  <2>5. CASE FetchResolved(r) \/ Abort(r)
    BY <1>0, <2>1, <2>5, SerialReturn DEF FetchResolved, Abort
  <2>6. CASE CheckConflict(r)
    <3>1. /\ UNCHANGED <<tables, tx>> /\ req[r].pc = "conflict" /\ req[r] \in Handlers
          /\ Learned(r) /\ req[r].matched = {} /\ req[r].fresh = None
      BY <1>0, <2>6 DEF CheckConflict, SerialInv, TypeOK, LockInv, MergeInv, HandlerInv
    <3>2. CASE Reply(r, "conflict")
      BY <1>0, <2>1, <3>1, <3>2, SerialReturn
    <3>3. CASE /\ \A i \in req[r].ids : owner[i] \in {None, req[r].target}
               /\ req'[r] = [req[r] EXCEPT !.pc = "attach", !.canonical = req[r].target]
      <4>1. /\ req'[r].pc = "attach" /\ req'[r].kind = req[r].kind /\ req'[r].fresh = None
            /\ req'[r].ids = req[r].ids /\ req'[r].canonical = req[r].target
            /\ req'[r].matched = {}
        BY <3>1, <3>3 DEF Handlers
      <4>2. /\ req[r].kind = "link" /\ req[r].ids # {} /\ req[r].target \in Entities
            /\ Live(req[r].target)
        BY <3>1 DEF Learned
      <4>3. Learned(r)'
        BY <4>1, <4>2 DEF Learned, ResolvePhases, FinalPhases
      <4>4. Held(r)' \subseteq {req[r].target}
        BY <3>1, <3>3, <4>1 DEF Held, Partition!Classes, tables
      <4>5. Chosen(r)' /\ Merged(r)' = {}
        BY <3>1, <4>1, <4>2, <4>4 DEF Chosen, Merged, Live, tables
      <4>6. IdsLockedBy(r)' = {}
        BY <3>1, OutsideNoLock DEF IdsLockedBy, SerialInv
      <4>7. Complete(r)'
        BY <4>1, <4>5, <4>6 DEF Complete, FinalPhases
      <4> QED
        BY <1>0, <2>1, <3>1, <4>3, <4>7, SerialLocal
    <3>4. \/ Reply(r, "conflict")
          \/ /\ \A i \in req[r].ids : i \in Identifiers => owner[i] \in {None, req[r].target}
             /\ req' = [req EXCEPT ![r].pc = "attach", ![r].canonical = req[r].target]
      BY <2>6 DEF CheckConflict
    <3> QED
      BY <1>0, <3>1, <3>2, <3>3, <3>4, HandlerFields DEF TypeOK
  <2> QED
    BY <1>0, <1>2, <2>1, <2>2, <2>3, <2>4, <2>5, <2>6, SerialLookup, SerialCreate, SerialPick,
       SerialRepoint, SerialAbsorb, SerialAttach, SerialCommit, SerialErase, SerialLog
       DEF Start, Step, Fail, DeadlockFail
<1> QED
  BY <1>1, <1>2 DEF Next, AllDone

LEMMA SerialInit == Init => SerialInv
<1> SUFFICES ASSUME Init PROVE SerialInv
  OBVIOUS
<1>1. LockInv /\ QuotaInv
  BY LockInit, QuotaInit
<1>2. ASSUME NEW r \in Requests PROVE Learned(r) /\ Complete(r)
  <2>1. req[r].pc = "idle" /\ IdsLockedBy(r) = {}
    BY DEF Init, NotStarted, EmptyTx, IdsLockedBy
  <2> QED
    BY <2>1 DEF Learned, Complete, ResolvePhases, FinalPhases
<1>3. LinkedToLive
  BY DEF Init, LinkedToLive, Live
<1>4. NoRowOnMerged
  BY DEF Init, NoRowOnMerged
<1> QED
  BY <1>1, <1>2, <1>3, <1>4 DEF SerialInv

(* One request at a time, no identifier is left on an entity that a merge   *)
(* or an erasure killed, whatever statement fails.                          *)
THEOREM SerialLinks ==
    ASSUME MaxInFlight = 1
    PROVE  Spec => []LinkedToLive
<1>1. SerialInv => LinkedToLive
  BY DEF SerialInv
<1> QED
  BY SerialInit, SerialStep, <1>1, PTL DEF Spec

(* One request at a time, no interaction is left on a merged entity. *)
THEOREM SerialRows ==
    ASSUME MaxInFlight = 1
    PROVE  Spec => []NoRowOnMerged
<1>1. SerialInv => NoRowOnMerged
  BY DEF SerialInv
<1> QED
  BY SerialInit, SerialStep, <1>1, PTL DEF Spec

-----------------------------------------------------------------------------
(* The refinement: each step of a handler is a step of the partition, or    *)
(* changes neither the classes nor the live entities.                       *)

Alive == {e \in Entities : Live(e)}

LEMMA CommitImplements ==
    ASSUME SerialInv, NEW r \in Requests, Commit(r)
    PROVE  Partition!Next
<1> DEFINE S == req[r].ids
           c == req[r].canonical
<1>1. /\ Chosen(r) /\ S \in (SUBSET Identifiers) \ {{}}
      /\ owner' = [i \in Identifiers |-> owner'[i]]
      /\ req[r].pc = "commit" /\ HandlerInv(r) /\ req[r].fresh \in MaybeEntity
      /\ owner \in [Identifiers -> MaybeEntity]
  <2>1. HandlerInv(r) /\ req[r] \in Handlers /\ owner \in [Identifiers -> MaybeEntity]
    BY DEF SerialInv, LockInv, MergeInv, TypeOK
  <2>2. owner' = [i \in Identifiers |-> owner'[i]] /\ req[r].pc = "commit"
    BY DEF Commit
  <2>3. Chosen(r) /\ S \in (SUBSET Identifiers) \ {{}}
    BY CommitPublishes
  <2> QED
    BY <2>1, <2>2, <2>3, HandlerFields
<1>2. CASE /\ req[r].fresh # None /\ Held(r) = {} /\ req[r].matched = {}
           /\ c = req[r].fresh
  <2>1. Merged(r) = {} /\ c \in Entities /\ ~Live(c)
    BY <1>1, <1>2 DEF Merged, HandlerInv, Creating, Live
  <2>2. \A i \in S : owner[i] = None
    BY <1>2 DEF Held, Partition!Classes
  <2>3. owner' = [i \in Identifiers |-> IF i \in S THEN c ELSE owner[i]]
    BY <1>1, <2>1, <2>2, CommitPublishes
  <2>4. Alive' = Alive \cup {c}
    BY <1>2, <2>1, CommitPublishes DEF Alive, Live
  <2>5. Partition!Resolve(S)
    BY <1>2, <2>1, <2>3, <2>4 DEF Partition!Resolve, Held, Alive
  <2> QED
    BY <1>1, <2>5 DEF Partition!Next
<1>3. CASE /\ req[r].fresh = None /\ Held(r) = req[r].matched \cup {c}
           /\ c \in Entities /\ Live(c)
  <2>1. Merged(r) = Held(r) \ {c} /\ c \in Held(r)
    BY <1>3 DEF Merged
  <2>2. \A e \in Held(r) : c <= e
    BY <1>1, <1>3, <2>1, HeldLive DEF HandlerInv
  <2>3. \A i \in S : owner[i] # None => owner[i] \in Held(r)
    BY DEF Held, Partition!Classes
  <2>4. owner' = [i \in Identifiers |->
                      IF i \in S \/ owner[i] \in Held(r) THEN c ELSE owner[i]]
    BY <1>1, <2>1, <2>3, HeldLive, CommitPublishes
  <2>5. Alive' = (Alive \ Held(r)) \cup {c}
    BY <1>3, <2>1, CommitPublishes DEF Alive, Live
  <2>6. Partition!Resolve(S)
    BY <2>1, <2>2, <2>4, <2>5 DEF Partition!Resolve, Held, Alive
  <2> QED
    BY <1>1, <2>6 DEF Partition!Next
<1>4. CASE /\ req[r].fresh = None /\ Held(r) \subseteq {c} /\ req[r].matched = {}
           /\ c \in Entities /\ Live(c)
  <2>1. Merged(r) = {}
    BY <1>4 DEF Merged
  <2>2. \A i \in S : owner[i] \in {None, c}
    BY <1>4 DEF Held, Partition!Classes
  <2>3. owner' = [i \in Identifiers |-> IF i \in S THEN c ELSE owner[i]]
    BY <1>1, <2>1, <2>2, CommitPublishes
  <2>4. Alive' = Alive
    BY <1>4, <2>1, CommitPublishes DEF Alive, Live
  <2>5. c \in Alive /\ Partition!Attach(S, c)
    BY <1>4, <2>2, <2>3, <2>4 DEF Partition!Attach, Alive
  <2> QED
    BY <1>1, <2>5 DEF Partition!Next, Alive
<1> QED
  BY <1>1, <1>2, <1>3, <1>4 DEF Chosen

LEMMA EraseImplements ==
    ASSUME SerialInv, NEW r \in Requests, Erase(r)
    PROVE  Partition!Next \/ UNCHANGED <<owner, Alive>>
<1>1. /\ state \in [Entities -> {"absent", "live", "merged", "erased"}]
      /\ owner \in [Identifiers -> MaybeEntity] /\ LinkedToLive
  BY DEF SerialInv, QuotaInv, TypeOK
<1>2. PICK e \in Entities :
          \/ UNCHANGED <<state, owner>>
          \/ /\ state' = [state EXCEPT ![e] = "erased"]
             /\ owner' = [i \in Identifiers |-> IF owner[i] = e THEN None ELSE owner[i]]
  BY DEF Erase
<1>3. CASE UNCHANGED <<state, owner>>
  BY <1>3 DEF Alive, Live
<1>4. CASE /\ state' = [state EXCEPT ![e] = "erased"]
           /\ owner' = [i \in Identifiers |-> IF owner[i] = e THEN None ELSE owner[i]]
  <2>1. Alive' = Alive \ {e}
    BY <1>1, <1>4 DEF Alive, Live
  <2>2. CASE Live(e)
    <3>1. e \in Alive /\ Partition!Erase(e)
      BY <1>4, <2>1, <2>2 DEF Partition!Erase, Alive
    <3> QED
      BY <3>1 DEF Partition!Next, Alive
  <2>3. CASE ~Live(e)
    <3>1. \A i \in Identifiers : owner[i] # e
      BY <1>1, <2>3 DEF LinkedToLive
    <3>2. owner' = owner
      BY <1>1, <1>4, <3>1
    <3>3. Alive' = Alive
      BY <2>1, <2>3 DEF Alive
    <3> QED
      BY <3>2, <3>3
  <2> QED
    BY <2>2, <2>3
<1> QED
  BY <1>2, <1>3, <1>4

LEMMA OthersStutter ==
    ASSUME SerialInv, NEW r \in Requests, Start(r) \/ Step(r) \/ Fail(r), ~Commit(r), ~Erase(r)
    PROVE  UNCHANGED <<state, owner>>
  BY DEF Start, Step, Fail, DeadlockFail, Abort, CheckQuota, LinkExists, LogExists, Lookup,
     CreateEntity, PickCanonical, RepointIdentifiers, AbsorbMerged, AttachIdentifiers,
     FetchResolved, CheckConflict, LogWrite, tables

(* One request at a time, identity resolution implements the partition of   *)
(* the identifiers into entities.                                           *)
THEOREM ImplementsPartitionSerially ==
    ASSUME MaxInFlight = 1
    PROVE  Spec => ImplementsPartition
<1>1. Init => Partition!Init
  BY DEF Init, Partition!Init, Live
<1>2. SerialInv /\ [Next]_vars => [Partition!Next]_<<owner, {e \in Entities : Live(e)}>>
  <2> SUFFICES ASSUME SerialInv, [Next]_vars
               PROVE  Partition!Next \/ UNCHANGED <<owner, Alive>>
    BY DEF Alive
  <2>1. CASE UNCHANGED vars
    BY <2>1 DEF vars, tables, Alive, Live
  <2>2. ASSUME NEW r \in Requests, Start(r) \/ Step(r) \/ Fail(r)
        PROVE  Partition!Next \/ UNCHANGED <<owner, Alive>>
    <3>1. UNCHANGED <<state, owner>> => UNCHANGED <<owner, Alive>>
      BY DEF Alive, Live
    <3> QED
      BY <2>2, <3>1, CommitImplements, EraseImplements, OthersStutter
  <2> QED
    BY <2>1, <2>2 DEF Next, AllDone
<1> QED
  BY SerialInit, SerialStep, <1>1, <1>2, PTL DEF Spec, ImplementsPartition, Partition!Spec
=============================================================================
