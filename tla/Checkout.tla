------------------------------ MODULE Checkout ------------------------------
(***************************************************************************)
(* Checkout requests of one tenant: CreateCheckoutSession of               *)
(* billing/services.go and its ensureStripeCustomer, which gives the tenant *)
(* a Stripe customer under a transaction-scoped advisory lock.              *)
(*                                                                         *)
(* A request is one-shot and moves from statement to statement, and from   *)
(* Stripe call to Stripe call.  A statement or a call may fail, a new       *)
(* customer or a commit may be done and its answer lost, and customers get  *)
(* deleted in the Stripe dashboard, which is external.                      *)
(***************************************************************************)
EXTENDS Naturals, FiniteSets

CONSTANTS
    Requests,   \* checkout requests, each served once
    MaxFaults,  \* bound on the statements and calls that fail
    MaxErased   \* bound on the customers deleted in the dashboard

ASSUME CheckoutAssumption == MaxFaults \in Nat /\ MaxErased \in Nat

VARIABLES
    stripe_customer_id, \* the column of the row of tenants, or NULL
    made,               \* how many customers Stripe made; their names are 1..made
    erased,             \* the customers deleted in the dashboard
    lock,               \* who holds the advisory lock, or Nobody
    req,                \* where each request is, and the customer it knows
    offered,            \* the customers a checkout URL was answered for
    faults              \* faults so far

vars == <<stripe_customer_id, made, erased, lock, req, offered, faults>>

NULL   == 0
Nobody == "nobody"

ASSUME NobodyAssumption == Nobody \notin Requests

Customers == 1 .. made
Phases    == {"idle", "fetch", "lock", "refetch", "create", "write", "commit",
              "session", "wipe", "done", "failed"}

TypeOK ==
    /\ made \in Nat
    /\ stripe_customer_id \in Customers \cup {NULL}
    /\ erased \in SUBSET Customers
    /\ lock \in Requests \cup {Nobody}
    /\ req \in [Requests -> [pc : Phases, customer : Customers \cup {NULL}]]
    /\ offered \in SUBSET Customers
    /\ faults \in Nat

-----------------------------------------------------------------------------
Goto(r, phase) == req' = [req EXCEPT ![r].pc = phase]

Know(r, c, phase) == req' = [req EXCEPT ![r] = [pc |-> phase, customer |-> c]]

Fault == faults < MaxFaults /\ faults' = faults + 1

(* The transaction ends, and with it the lock. *)
EndTx(r) == lock' = IF lock = r THEN Nobody ELSE lock

(* Mutant: the transaction stays open on an error path. *)
FailKeepsLock(r) ==
    /\ req[r].pc \notin {"idle", "done", "failed"}
    /\ Fault /\ Goto(r, "failed")
    /\ UNCHANGED <<stripe_customer_id, made, erased, lock, offered>>

(* The next statement or call fails: deferred Rollback, 500. *)
Fail(r) ==
    /\ req[r].pc \notin {"idle", "done", "failed"}
    /\ Fault /\ Goto(r, "failed") /\ EndTx(r)
    /\ UNCHANGED <<stripe_customer_id, made, erased, offered>>

(* A request whose plan and interval name a price. *)
CreateCheckout(r) ==
    /\ req[r].pc = "idle"
    /\ Goto(r, "fetch")
    /\ UNCHANGED <<stripe_customer_id, made, erased, lock, offered, faults>>

(* ensureStripeCustomer: the fast path ... *)
FetchTenant(r) ==
    /\ req[r].pc = "fetch"
    /\ IF stripe_customer_id # NULL
       THEN Know(r, stripe_customer_id, "session")
       ELSE Goto(r, "lock")
    /\ UNCHANGED <<stripe_customer_id, made, erased, lock, offered, faults>>

(* Mutant: pg_try_advisory_xact_lock, and its answer ignored. *)
AcquireNothing(r) ==
    /\ req[r].pc = "lock"
    /\ lock' = IF lock = Nobody THEN r ELSE lock
    /\ Goto(r, "refetch")
    /\ UNCHANGED <<stripe_customer_id, made, erased, offered, faults>>

(* ... and the slow one: BEGIN, pg_advisory_xact_lock waits for the lock, *)
AcquireLock(r) ==
    /\ req[r].pc = "lock" /\ lock = Nobody
    /\ lock' = r
    /\ Goto(r, "refetch")
    /\ UNCHANGED <<stripe_customer_id, made, erased, offered, faults>>

(* Mutant: the column is not read again under the lock. *)
RefetchNothing(r) ==
    /\ req[r].pc = "refetch"
    /\ Goto(r, "create")
    /\ UNCHANGED <<stripe_customer_id, made, erased, lock, offered, faults>>

(* the column is read again under it, *)
RefetchTenant(r) ==
    /\ req[r].pc = "refetch"
    /\ IF stripe_customer_id # NULL
       THEN Know(r, stripe_customer_id, "session") /\ EndTx(r)
       ELSE Goto(r, "create") /\ UNCHANGED lock
    /\ UNCHANGED <<stripe_customer_id, made, erased, offered, faults>>

(* Stripe makes a customer, and may fail to say so, *)
NewCustomer(r) ==
    /\ req[r].pc = "create"
    /\ made' = made + 1
    /\ \/ Know(r, made + 1, "write") /\ UNCHANGED <<lock, faults>>
       \/ Fault /\ Goto(r, "failed") /\ EndTx(r)
    /\ UNCHANGED <<stripe_customer_id, erased, offered>>

(* the UPDATE locks the row of the tenant, *)
WriteCustomer(r) ==
    /\ req[r].pc = "write"
    /\ Goto(r, "commit")
    /\ UNCHANGED <<stripe_customer_id, made, erased, lock, offered, faults>>

(* and COMMIT writes it; its answer may be lost. *)
CommitCustomer(r) ==
    /\ req[r].pc = "commit"
    /\ stripe_customer_id' = req[r].customer
    /\ EndTx(r)
    /\ \/ Goto(r, "session") /\ UNCHANGED faults
       \/ Fault /\ Goto(r, "failed")
    /\ UNCHANGED <<made, erased, offered>>

(* checkoutsession.New: Stripe answers a URL, or that it has no such customer. *)
NewSession(r) ==
    /\ req[r].pc = "session"
    /\ IF req[r].customer \in erased
       THEN Goto(r, "wipe") /\ UNCHANGED offered
       ELSE Goto(r, "done") /\ offered' = offered \cup {req[r].customer}
    /\ UNCHANGED <<stripe_customer_id, made, erased, lock, faults>>

(* An UPDATE of the tenant waits for the one of a transaction (external). *)
RowLocked == \E r \in Requests : req[r].pc = "commit"

(* The recovery: the column is cleared, whatever it holds, and the request *)
(* starts over, or fails if the answer of the UPDATE is lost.              *)
WipeCustomer(r) ==
    /\ req[r].pc = "wipe" /\ ~RowLocked
    /\ stripe_customer_id' = NULL
    /\ \/ Know(r, NULL, "fetch") /\ UNCHANGED faults
       \/ Fault /\ Goto(r, "failed")
    /\ UNCHANGED <<made, erased, lock, offered>>

(* Somebody deletes a customer in the dashboard (external). *)
EraseCustomer(c) ==
    /\ c \in Customers \ erased /\ Cardinality(erased) < MaxErased
    /\ erased' = erased \cup {c}
    /\ UNCHANGED <<stripe_customer_id, made, lock, req, offered, faults>>

-----------------------------------------------------------------------------
Step(r) ==
    \/ FetchTenant(r) \/ AcquireLock(r) \/ RefetchTenant(r) \/ NewCustomer(r)
    \/ WriteCustomer(r) \/ CommitCustomer(r) \/ NewSession(r) \/ WipeCustomer(r)

(* A tenant without a customer, or with one from an earlier checkout. *)
Init ==
    /\ made \in {0, 1}
    /\ stripe_customer_id = made
    /\ erased = {} /\ offered = {}
    /\ lock = Nobody
    /\ req = [r \in Requests |-> [pc |-> "idle", customer |-> NULL]]
    /\ faults = 0

AllAnswered == (\A r \in Requests : req[r].pc \in {"done", "failed"}) /\ UNCHANGED vars

Next ==
    \/ AllAnswered
    \/ \E r \in Requests : CreateCheckout(r) \/ Step(r) \/ Fail(r)
    \/ \E c \in Customers : EraseCustomer(c)

(* A request in progress is served; nobody has to call, or to delete.       *)
Spec == Init /\ [][Next]_vars /\ \A r \in Requests : WF_vars(Step(r))

-----------------------------------------------------------------------------
(***************************************************************************)
(* Properties                                                              *)
(***************************************************************************)

(* A webhook finds its tenant by the customer of the event: a customer that *)
(* was offered a checkout is the one in the column, whatever fails, as long *)
(* as nobody deletes customers.                                            *)
OfferedIsKnown == erased = {} => offered \subseteq {stripe_customer_id}

(* services.go:319, "exactly once, guaranteed by the lock": what makes      *)
(* another customer is a fault, or a request that met a deleted one.        *)
CustomersBounded == made <= 1 + faults + Cardinality(erased) * Cardinality(Requests)

(* However requests fail, the lock is passed on and the recovery ends.      *)
EveryCheckoutAnswered == \A r \in Requests : req[r].pc # "idle" ~> req[r].pc \in {"done", "failed"}
=============================================================================
