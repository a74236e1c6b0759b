----------------------------- MODULE Entitlement -----------------------------
(***************************************************************************)
(* What the billing webhook promises: Stripe decides who holds the paid    *)
(* plan, and every decision takes effect once, in the order it was made.   *)
(***************************************************************************)
EXTENDS Naturals, Sequences

CONSTANTS Holders,   \* the subscriptions that may hold the plan
          Nobody,    \* no subscription
          Keep       \* a decision about something else

VARIABLES decisions, \* what Stripe decided so far
          done,      \* how many of them took effect
          holder     \* the subscription that holds the plan

Decide ==
    /\ \E x \in Holders \cup {Nobody, Keep} : decisions' = Append(decisions, x)
    /\ UNCHANGED <<done, holder>>

TakeEffect ==
    /\ done < Len(decisions)
    /\ done' = done + 1
    /\ holder' = IF decisions[done'] = Keep THEN holder ELSE decisions[done']
    /\ UNCHANGED decisions

Init == decisions = <<>> /\ done = 0 /\ holder = Nobody
Next == Decide \/ TakeEffect
Spec == Init /\ [][Next]_<<decisions, done, holder>>
=============================================================================
