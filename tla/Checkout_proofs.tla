--------------------------- MODULE Checkout_proofs ---------------------------
(* Theorems about Checkout: types, the customer that was offered a checkout  *)
(* is the tenant's, and only faults and wipes make another customer.         *)
EXTENDS Checkout, FiniteSetTheorems, TLAPS

USE CheckoutAssumption, NobodyAssumption

(* The advisory lock belongs to the one request inside the transaction. *)
Inside(r) == req[r].pc \in {"refetch", "create", "write", "commit"}

LockInv == \A r \in Requests : Inside(r) <=> lock = r

(* While no customer was deleted, the column is written once: a request that *)
(* is about to write it found it NULL under the lock, and a request that     *)
(* knows a customer knows the one in the column.                             *)
ColumnInv ==
    erased = {} =>
        /\ offered \subseteq {stripe_customer_id}
        /\ \A r \in Requests :
              /\ req[r].pc # "wipe"
              /\ req[r].pc \in {"create", "write", "commit"} => stripe_customer_id = NULL
              /\ req[r].pc = "session" => req[r].customer = stripe_customer_id

(* A request on its way to Stripe or to the UPDATE knows a customer. *)
KnowsInv ==
    \A r \in Requests : req[r].pc \in {"write", "commit", "session"} => req[r].customer # NULL

CheckoutInv == TypeOK /\ LockInv /\ KnowsInv /\ ColumnInv

(* Customers are only added. *)
LEMMA CustomersGrow ==
    ASSUME made \in Nat
    PROVE  1 .. made \subseteq 1 .. (made + 1) /\ made + 1 \in 1 .. (made + 1) /\ 0 \notin 1 .. made
  OBVIOUS

(* The types hold initially and every step keeps them. *)
LEMMA TypeInit == Init => TypeOK
  <1> SUFFICES ASSUME Init PROVE TypeOK
    OBVIOUS
  <1> QED
    BY DEF Init, TypeOK, Customers, Phases, NULL

LEMMA TypeStep == TypeOK /\ KnowsInv /\ [Next]_vars => TypeOK'
  <1> SUFFICES ASSUME TypeOK, KnowsInv, [Next]_vars PROVE TypeOK'
    OBVIOUS
  <1> USE DEF TypeOK, Customers, Phases, NULL, Goto, Know, Fault, EndTx
  <1>1. ASSUME NEW r \in Requests, CreateCheckout(r) \/ Fail(r) PROVE TypeOK'
    BY <1>1 DEF CreateCheckout, Fail
  <1>2. ASSUME NEW r \in Requests, FetchTenant(r) PROVE TypeOK'
    BY <1>2 DEF FetchTenant
  <1>3. ASSUME NEW r \in Requests, AcquireLock(r) PROVE TypeOK'
    BY <1>3 DEF AcquireLock
  <1>4. ASSUME NEW r \in Requests, RefetchTenant(r) PROVE TypeOK'
    BY <1>4 DEF RefetchTenant
  <1>5. ASSUME NEW r \in Requests, NewCustomer(r) PROVE TypeOK'
    <2>1. made' = made + 1 /\ made' \in Nat /\ Customers \subseteq Customers'
      BY <1>5, CustomersGrow DEF NewCustomer
    <2>2. stripe_customer_id' \in Customers' \cup {NULL} /\ erased' \in SUBSET Customers'
          /\ offered' \in SUBSET Customers'
      BY <1>5, <2>1 DEF NewCustomer
    <2>3. req' \in [Requests -> [pc : Phases, customer : Customers' \cup {NULL}]]
      <3>1. req \in [Requests -> [pc : Phases, customer : Customers' \cup {NULL}]]
        BY <2>1
      <3>2. made + 1 \in Customers'
        BY <2>1, CustomersGrow
      <3> QED
        BY <1>5, <3>1, <3>2 DEF NewCustomer
    <2>4. lock' \in Requests \cup {Nobody} /\ faults' \in Nat
      BY <1>5 DEF NewCustomer
    <2> QED
      BY <2>1, <2>2, <2>3, <2>4
  <1>6. ASSUME NEW r \in Requests, WriteCustomer(r) \/ CommitCustomer(r) PROVE TypeOK'
    BY <1>6 DEF WriteCustomer, CommitCustomer
  <1>7. ASSUME NEW r \in Requests, NewSession(r) PROVE TypeOK'
    BY <1>7 DEF NewSession, KnowsInv
  <1>8. ASSUME NEW r \in Requests, WipeCustomer(r) PROVE TypeOK'
    BY <1>8 DEF WipeCustomer
  <1>9. ASSUME NEW c \in Customers, EraseCustomer(c) PROVE TypeOK'
    BY <1>9 DEF EraseCustomer
  <1> QED
    BY <1>1, <1>2, <1>3, <1>4, <1>5, <1>6, <1>7, <1>8, <1>9
       DEF Next, Step, AllAnswered, vars

LEMMA KnowsStep == TypeOK /\ KnowsInv /\ [Next]_vars => KnowsInv'
  <1> SUFFICES ASSUME TypeOK, KnowsInv, [Next]_vars,
                      NEW s \in Requests, req'[s].pc \in {"write", "commit", "session"}
               PROVE  req'[s].customer # NULL
    BY DEF KnowsInv
  <1> USE DEF TypeOK, KnowsInv, NULL, Goto, Know
  <1>1. ASSUME NEW r \in Requests, CreateCheckout(r) \/ Fail(r) PROVE req'[s].customer # NULL
    BY <1>1 DEF CreateCheckout, Fail
  <1>2. ASSUME NEW r \in Requests, FetchTenant(r) \/ AcquireLock(r) \/ RefetchTenant(r)
        PROVE  req'[s].customer # NULL
    BY <1>2 DEF FetchTenant, AcquireLock, RefetchTenant
  <1>3. ASSUME NEW r \in Requests, NewCustomer(r) PROVE req'[s].customer # NULL
    BY <1>3 DEF NewCustomer
  <1>4. ASSUME NEW r \in Requests, WriteCustomer(r) \/ CommitCustomer(r)
        PROVE  req'[s].customer # NULL
    BY <1>4 DEF WriteCustomer, CommitCustomer
  <1>5. ASSUME NEW r \in Requests, NewSession(r) \/ WipeCustomer(r) PROVE req'[s].customer # NULL
    BY <1>5 DEF NewSession, WipeCustomer
  <1>6. ASSUME NEW c \in Customers, EraseCustomer(c) PROVE req'[s].customer # NULL
    BY <1>6 DEF EraseCustomer
  <1> QED
    BY <1>1, <1>2, <1>3, <1>4, <1>5, <1>6 DEF Next, Step, AllAnswered, vars

(* The lock follows the transaction: whoever leaves it, by whatever answer, *)
(* gives the lock back, and nobody enters without it.                        *)
LEMMA LockStep == TypeOK /\ LockInv /\ [Next]_vars => LockInv'
  <1> SUFFICES ASSUME TypeOK, LockInv, [Next]_vars PROVE LockInv'
    OBVIOUS
  <1> USE DEF TypeOK, LockInv, Inside, Goto, Know, EndTx
  <1>1. ASSUME NEW r \in Requests, CreateCheckout(r) \/ Fail(r) PROVE LockInv'
    BY <1>1 DEF CreateCheckout, Fail
  <1>2. ASSUME NEW r \in Requests, FetchTenant(r) PROVE LockInv'
    BY <1>2 DEF FetchTenant
  <1>3. ASSUME NEW r \in Requests, AcquireLock(r) PROVE LockInv'
    BY <1>3 DEF AcquireLock
  <1>4. ASSUME NEW r \in Requests, RefetchTenant(r) PROVE LockInv'
    BY <1>4 DEF RefetchTenant
  <1>5. ASSUME NEW r \in Requests, NewCustomer(r) PROVE LockInv'
    BY <1>5 DEF NewCustomer
  <1>6. ASSUME NEW r \in Requests, WriteCustomer(r) \/ CommitCustomer(r) PROVE LockInv'
    BY <1>6 DEF WriteCustomer, CommitCustomer
  <1>7. ASSUME NEW r \in Requests, NewSession(r) \/ WipeCustomer(r) PROVE LockInv'
    BY <1>7 DEF NewSession, WipeCustomer
  <1>8. ASSUME NEW c \in Customers, EraseCustomer(c) PROVE LockInv'
    BY <1>8 DEF EraseCustomer
  <1> QED
    BY <1>1, <1>2, <1>3, <1>4, <1>5, <1>6, <1>7, <1>8 DEF Next, Step, AllAnswered, vars

LEMMA ColumnStep == CheckoutInv /\ [Next]_vars => ColumnInv'
  <1> SUFFICES ASSUME CheckoutInv, [Next]_vars, erased' = {} PROVE ColumnInv'
    BY DEF ColumnInv
  <1> USE DEF CheckoutInv, TypeOK, LockInv, Inside, KnowsInv, ColumnInv, Customers, NULL,
              Goto, Know, EndTx
  <1>1. ASSUME NEW r \in Requests, CreateCheckout(r) \/ Fail(r) PROVE ColumnInv'
    BY <1>1 DEF CreateCheckout, Fail
  <1>2. ASSUME NEW r \in Requests, FetchTenant(r) \/ AcquireLock(r) PROVE ColumnInv'
    BY <1>2 DEF FetchTenant, AcquireLock
  <1>3. ASSUME NEW r \in Requests, RefetchTenant(r) PROVE ColumnInv'
    BY <1>3 DEF RefetchTenant
  <1>4. ASSUME NEW r \in Requests, NewCustomer(r) PROVE ColumnInv'
    BY <1>4 DEF NewCustomer
  <1>5. ASSUME NEW r \in Requests, WriteCustomer(r) PROVE ColumnInv'
    BY <1>5 DEF WriteCustomer
  <1>6. ASSUME NEW r \in Requests, CommitCustomer(r) PROVE ColumnInv'
    BY <1>6 DEF CommitCustomer
  <1>7. ASSUME NEW r \in Requests, NewSession(r) \/ WipeCustomer(r) PROVE ColumnInv'
    BY <1>7 DEF NewSession, WipeCustomer
  <1>8. ASSUME NEW c \in Customers, EraseCustomer(c) PROVE ColumnInv'
    BY <1>8 DEF EraseCustomer
  <1> QED
    BY <1>1, <1>2, <1>3, <1>4, <1>5, <1>6, <1>7, <1>8 DEF Next, Step, AllAnswered, vars

LEMMA InvariantInit == Init => CheckoutInv
  <1> SUFFICES ASSUME Init PROVE CheckoutInv
    OBVIOUS
  <1>1. LockInv /\ KnowsInv /\ ColumnInv
    BY DEF Init, LockInv, Inside, KnowsInv, ColumnInv
  <1> QED
    BY <1>1, TypeInit DEF CheckoutInv

LEMMA InvariantStep == CheckoutInv /\ [Next]_vars => CheckoutInv'
  BY TypeStep, KnowsStep, LockStep, ColumnStep DEF CheckoutInv

(* The column, the customers and the requests keep their types. *)
THEOREM TypeCorrect == Spec => []TypeOK
  <1>1. CheckoutInv => TypeOK
    BY DEF CheckoutInv
  <1> QED
    BY <1>1, InvariantInit, InvariantStep, PTL DEF Spec

(* At most one request is inside the transaction that makes a customer, and *)
(* it holds the advisory lock.                                              *)
THEOREM LockExclusive == Spec => []LockInv
  <1>1. CheckoutInv => LockInv
    BY DEF CheckoutInv
  <1> QED
    BY <1>1, InvariantInit, InvariantStep, PTL DEF Spec

(* As long as nobody deletes customers, the customer that was offered a     *)
(* checkout is the one in the column, whatever fails and overlaps.          *)
THEOREM OfferedKnown == Spec => []OfferedIsKnown
  <1>1. CheckoutInv => OfferedIsKnown
    BY DEF CheckoutInv, ColumnInv, OfferedIsKnown
  <1> QED
    BY <1>1, InvariantInit, InvariantStep, PTL DEF Spec

-----------------------------------------------------------------------------
(* How many customers Stripe makes.  The column is NULL while a request is   *)
(* about to fill it, nobody else knows the customer about to be written, and *)
(* a recovery has met a deleted customer.                                   *)

Writing(r) == req[r].pc \in {"write", "commit"}

FreshInv ==
    /\ \A r \in Requests : req[r].pc \in {"create", "write", "commit"} => stripe_customer_id = NULL
    /\ \A r, s \in Requests :
          Writing(s) /\ req[r].pc \in {"session", "wipe"} => req[r].customer # req[s].customer
    /\ \A r \in Requests : req[r].pc = "wipe" => req[r].customer \in erased

LEMMA FreshStep == CheckoutInv /\ FreshInv /\ [Next]_vars => FreshInv'
  <1> SUFFICES ASSUME CheckoutInv, FreshInv, [Next]_vars PROVE FreshInv'
    OBVIOUS
  <1> USE DEF CheckoutInv, TypeOK, LockInv, Inside, KnowsInv, FreshInv, Writing, Customers, NULL,
              Goto, Know, EndTx
  <1>1. ASSUME NEW r \in Requests, CreateCheckout(r) \/ Fail(r) PROVE FreshInv'
    BY <1>1 DEF CreateCheckout, Fail
  <1>2. ASSUME NEW r \in Requests, FetchTenant(r) \/ AcquireLock(r) PROVE FreshInv'
    BY <1>2 DEF FetchTenant, AcquireLock
  <1>3. ASSUME NEW r \in Requests, RefetchTenant(r) PROVE FreshInv'
    BY <1>3 DEF RefetchTenant
  <1>4. ASSUME NEW r \in Requests, NewCustomer(r) PROVE FreshInv'
    <2>1. \A q \in Requests : req[q].customer # made + 1
      OBVIOUS
    <2> QED
      BY <1>4, <2>1 DEF NewCustomer
  <1>5. ASSUME NEW r \in Requests, WriteCustomer(r) PROVE FreshInv'
    BY <1>5 DEF WriteCustomer
  <1>6. ASSUME NEW r \in Requests, CommitCustomer(r) PROVE FreshInv'
    BY <1>6 DEF CommitCustomer
  <1>7. ASSUME NEW r \in Requests, NewSession(r) \/ WipeCustomer(r) PROVE FreshInv'
    BY <1>7 DEF NewSession, WipeCustomer
  <1>8. ASSUME NEW c \in Customers, EraseCustomer(c) PROVE FreshInv'
    BY <1>8 DEF EraseCustomer
  <1> QED
    BY <1>1, <1>2, <1>3, <1>4, <1>5, <1>6, <1>7, <1>8 DEF Next, Step, AllAnswered, vars

(* W records which request wiped the column over which deleted customer.     *)
(* Each pair counts once: the customer is gone from the column for good, and *)
(* the request does not learn it again.                                      *)
Past(c, r) ==
    /\ stripe_customer_id # c
    /\ req[r].pc \in {"session", "wipe"} => req[r].customer # c
    /\ \A s \in Requests : Writing(s) => req[s].customer # c

(* There is room for one more customer when none is in the column or on its  *)
(* way there.                                                               *)
Room == stripe_customer_id = NULL /\ \A s \in Requests : ~Writing(s)

Accounts(W) ==
    /\ W \subseteq erased \X Requests
    /\ \A p \in W : Past(p[1], p[2])
    /\ made <= faults + Cardinality(W) + 1
    /\ Room => made <= faults + Cardinality(W)

BoundInv == CheckoutInv /\ FreshInv /\ \E W : Accounts(W)

LEMMA WipedFinite ==
    ASSUME IsFiniteSet(Requests), TypeOK, NEW W, W \subseteq erased \X Requests
    PROVE  /\ IsFiniteSet(W) /\ Cardinality(W) \in Nat
           /\ Cardinality(W) <= Cardinality(erased) * Cardinality(Requests)
  <1>1. IsFiniteSet(erased)
    <2>1. made \in Int /\ erased \in SUBSET (1 .. made)
      BY DEF TypeOK, Customers
    <2>2. IsFiniteSet(1 .. made)
      BY <2>1, FS_Interval
    <2> QED
      BY <2>1, <2>2, FS_Subset
  <1>2. /\ IsFiniteSet(erased \X Requests)
        /\ Cardinality(erased \X Requests) = Cardinality(erased) * Cardinality(Requests)
    BY <1>1, FS_Product
  <1> QED
    BY <1>2, FS_Subset, FS_CardinalityType

(* Every other step keeps the account as it is. *)
LEMMA AccountKept ==
    ASSUME IsFiniteSet(Requests), BoundInv, NEW W, Accounts(W), [Next]_vars,
           \A r \in Requests : ~WipeCustomer(r)
    PROVE  Accounts(W)'
  <1>1. /\ TypeOK /\ LockInv /\ KnowsInv /\ FreshInv
        /\ W \subseteq erased \X Requests /\ \A p \in W : Past(p[1], p[2])
        /\ made <= faults + Cardinality(W) + 1
        /\ Room => made <= faults + Cardinality(W)
    BY DEF BoundInv, CheckoutInv, Accounts
  <1>2. Cardinality(W) \in Nat
    BY <1>1, WipedFinite
  <1>3. \A p \in W : p[1] \in Customers /\ p[1] # NULL /\ p[1] \in erased /\ p[2] \in Requests
    <2>1. \A p \in erased \X Requests : p[1] \in erased /\ p[2] \in Requests
      OBVIOUS
    <2>2. \A c \in erased : c \in Customers /\ c # NULL
      BY <1>1 DEF TypeOK, Customers, NULL
    <2> QED
      BY <1>1, <2>1, <2>2
  <1>4. W \subseteq erased' \X Requests
    BY <1>1 DEF Next, Step, AllAnswered, vars, CreateCheckout, Fail, FetchTenant, AcquireLock,
                RefetchTenant, NewCustomer, WriteCustomer, CommitCustomer, NewSession, EraseCustomer
  <1> DEFINE size == Cardinality(W)
  <1> HIDE DEF size
  <1>5. size \in Nat /\ made <= faults + size + 1 /\ (Room => made <= faults + size)
    BY <1>1, <1>2 DEF size
  <1> SUFFICES /\ \A p \in W : Past(p[1], p[2])'
               /\ made' <= faults' + size + 1
               /\ Room' => made' <= faults' + size
    BY <1>4 DEF Accounts, size
  <1> USE <1>1, <1>3, <1>5 DEF TypeOK, LockInv, Inside, KnowsInv, FreshInv, Writing, Past, Room,
          NULL, Goto, Know, EndTx, Fault
  <1> DEFINE Kept == /\ \A p \in W : Past(p[1], p[2])'
                     /\ made' <= faults' + size + 1
                     /\ Room' => made' <= faults' + size
  <1>6. ASSUME NEW r \in Requests, CreateCheckout(r) \/ AcquireLock(r) PROVE Kept
    BY <1>6 DEF CreateCheckout, AcquireLock
  <1>7. ASSUME NEW r \in Requests, FetchTenant(r) \/ RefetchTenant(r) PROVE Kept
    BY <1>7 DEF FetchTenant, RefetchTenant
  <1>8. ASSUME NEW r \in Requests, NewCustomer(r) PROVE Kept
    <2>1. Room
      BY <1>8 DEF NewCustomer
    <2>2. \A p \in W : p[1] # made + 1
      BY DEF Customers
    <2>3. made' = made + 1 /\ made' <= faults + size + 1
      BY <1>8, <2>1 DEF NewCustomer
    <2>4. CASE Know(r, made + 1, "write") /\ UNCHANGED <<lock, faults>>
      BY <1>8, <2>2, <2>3, <2>4 DEF NewCustomer
    <2>5. CASE Fault /\ Goto(r, "failed") /\ EndTx(r)
      BY <1>8, <2>2, <2>3, <2>5 DEF NewCustomer
    <2> QED
      BY <1>8, <2>4, <2>5 DEF NewCustomer
  <1>9. ASSUME NEW r \in Requests, WriteCustomer(r) PROVE Kept
    BY <1>9 DEF WriteCustomer
  <1>10. ASSUME NEW r \in Requests, CommitCustomer(r) PROVE Kept
    BY <1>10 DEF CommitCustomer
  <1>11. ASSUME NEW r \in Requests, NewSession(r) PROVE Kept
    BY <1>11 DEF NewSession
  <1>12. ASSUME NEW r \in Requests, Fail(r) PROVE Kept
    BY <1>12 DEF Fail
  <1>13. ASSUME NEW c \in Customers, EraseCustomer(c) PROVE Kept
    BY <1>13 DEF EraseCustomer
  <1>14. CASE UNCHANGED vars
    BY <1>14 DEF vars
  <1> QED
    BY <1>6, <1>7, <1>8, <1>9, <1>10, <1>11, <1>12, <1>13, <1>14 DEF Next, Step, AllAnswered

(* A recovery enters its pair. *)
LEMMA AccountWiped ==
    ASSUME IsFiniteSet(Requests), BoundInv, NEW W, Accounts(W),
           NEW r \in Requests, WipeCustomer(r),
           NEW c, c = req[r].customer, NEW V, V = W \cup {<<c, r>>}
    PROVE  Accounts(V)'
  <1>1. /\ TypeOK /\ LockInv /\ KnowsInv /\ FreshInv
        /\ W \subseteq erased \X Requests /\ \A p \in W : Past(p[1], p[2])
        /\ made <= faults + Cardinality(W) + 1
    BY DEF BoundInv, CheckoutInv, Accounts
  <1>2. req[r].pc = "wipe" /\ c \in erased /\ c # NULL /\ UNCHANGED <<made, erased>>
    BY <1>1 DEF WipeCustomer, FreshInv, TypeOK, Customers, NULL
  <1>3. <<c, r>> \notin W
    BY <1>1, <1>2 DEF Past
  <1>4. IsFiniteSet(W) /\ Cardinality(W) \in Nat
    BY <1>1, WipedFinite
  <1>5. Cardinality(V) = Cardinality(W) + 1
    BY <1>3, <1>4, FS_AddElement
  <1>6. made <= faults + Cardinality(V)
    BY <1>1, <1>4, <1>5 DEF TypeOK
  <1>7. faults' \in Nat /\ faults <= faults' /\ Cardinality(V) \in Nat
    BY <1>1, <1>4, <1>5 DEF WipeCustomer, Fault, TypeOK
  <1>8. made' <= faults' + Cardinality(V)
    BY <1>1, <1>2, <1>6, <1>7 DEF TypeOK
  <1>9. stripe_customer_id' = NULL /\ req'[r].pc \in {"fetch", "failed"}
        /\ \A q \in Requests \ {r} : req'[q] = req[q]
    BY <1>1 DEF WipeCustomer, Know, Goto, TypeOK
  <1>10. \A p \in W : p[1] # NULL
    BY <1>1 DEF TypeOK, Customers, NULL
  <1>11. \A p \in W : Past(p[1], p[2])'
    BY <1>1, <1>9, <1>10 DEF Past, Writing
  <1>12. Past(c, r)'
    <2>1. \A s \in Requests : Writing(s) => req[s].customer # c
      BY <1>1, <1>2 DEF FreshInv
    <2>2. ASSUME NEW d, d # NULL, \A s \in Requests : Writing(s) => req[s].customer # d
          PROVE  /\ stripe_customer_id' # d
                 /\ req'[r].pc \in {"session", "wipe"} => req'[r].customer # d
                 /\ \A s \in Requests : req'[s].pc \in {"write", "commit"} => req'[s].customer # d
      BY <1>9, <2>2 DEF Writing
    <2> QED
      BY <1>2, <2>1, <2>2 DEF Past, Writing
  <1> QED
    BY <1>1, <1>2, <1>7, <1>8, <1>11, <1>12 DEF Accounts, TypeOK

(* services.go:319: however checkout requests overlap, fail and recover, Stripe *)
(* makes one customer, one more for a fault at most, and one more at most for  *)
(* each request that meets a deleted customer.                                *)
THEOREM CustomersAreBounded ==
    ASSUME IsFiniteSet(Requests)
    PROVE  Spec => []CustomersBounded
  <1>1. Init => BoundInv
    <2> SUFFICES ASSUME Init PROVE BoundInv
      OBVIOUS
    <2>1. FreshInv
      BY DEF Init, FreshInv, Writing
    <2>2. Accounts({})
      BY FS_EmptySet DEF Init, Accounts, Room, NULL
    <2> QED
      BY <2>1, <2>2, InvariantInit DEF BoundInv
  <1>2. BoundInv /\ [Next]_vars => BoundInv'
    <2> SUFFICES ASSUME BoundInv, [Next]_vars PROVE BoundInv'
      OBVIOUS
    <2>1. CheckoutInv' /\ FreshInv'
      BY InvariantStep, FreshStep DEF BoundInv
    <2>2. PICK W : Accounts(W)
      BY DEF BoundInv
    <2>3. \E V : Accounts(V)'
      <3>1. CASE \E r \in Requests : WipeCustomer(r)
        <4>1. PICK r \in Requests : WipeCustomer(r)
          BY <3>1
        <4>2. PICK c : c = req[r].customer
          OBVIOUS
        <4>3. PICK V : V = W \cup {<<c, r>>}
          OBVIOUS
        <4>4. Accounts(V)'
          BY <2>2, <4>1, <4>2, <4>3, AccountWiped
        <4> QED
          BY <4>4
      <3>2. CASE \A r \in Requests : ~WipeCustomer(r)
        BY <2>2, <3>2, AccountKept
      <3> QED
        BY <3>1, <3>2
    <2> QED
      BY <2>1, <2>3 DEF BoundInv
  <1>3. BoundInv => CustomersBounded
    <2> SUFFICES ASSUME BoundInv PROVE CustomersBounded
      OBVIOUS
    <2>1. PICK W : Accounts(W)
      BY DEF BoundInv
    <2>2. W \subseteq erased \X Requests /\ made <= faults + Cardinality(W) + 1
      BY <2>1 DEF Accounts
    <2>3. TypeOK
      BY DEF BoundInv, CheckoutInv
    <2> DEFINE most == Cardinality(erased) * Cardinality(Requests)
    <2>4. Cardinality(W) \in Nat /\ Cardinality(W) <= most
      BY <2>2, <2>3, WipedFinite
    <2>5. most \in Int
      <3>1. IsFiniteSet(erased)
        <4>1. made \in Int /\ erased \in SUBSET (1 .. made)
          BY <2>3 DEF TypeOK, Customers
        <4>2. IsFiniteSet(1 .. made)
          BY <4>1, FS_Interval
        <4> QED
          BY <4>1, <4>2, FS_Subset
      <3>2. Cardinality(erased) \in Nat /\ Cardinality(Requests) \in Nat
        BY <3>1, FS_CardinalityType
      <3> QED
        BY <3>2
    <2> HIDE DEF most
    <2>6. made <= 1 + faults + most
      BY <2>2, <2>3, <2>4, <2>5 DEF TypeOK
    <2> QED
      BY <2>6 DEF CustomersBounded, most
  <1> QED
    BY <1>1, <1>2, <1>3, PTL DEF Spec
=============================================================================
