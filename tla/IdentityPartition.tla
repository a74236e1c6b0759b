-------------------------- MODULE IdentityPartition --------------------------
(***************************************************************************)
(* What identity resolution promises: every known identifier belongs to one *)
(* live entity, and resolving a set of identifiers leaves all of them, and  *)
(* everything that shared an entity with one of them, in one entity, the    *)
(* oldest of those involved.                                                *)
(***************************************************************************)
EXTENDS Integers

CONSTANTS Identifiers, Entities, None

VARIABLES class,   \* identifier -> its entity, or None
          alive    \* the live entities

Classes(S) == {class[i] : i \in S} \ {None}

Resolve(S) ==
    \/ /\ Classes(S) = {}
       /\ \E n \in Entities \ alive :
             /\ alive' = alive \cup {n}
             /\ class' = [i \in Identifiers |-> IF i \in S THEN n ELSE class[i]]
    \/ \E c \in Classes(S) :
          /\ \A e \in Classes(S) : c <= e
          /\ alive' = (alive \ Classes(S)) \cup {c}
          /\ class' = [i \in Identifiers |->
                          IF i \in S \/ class[i] \in Classes(S) THEN c ELSE class[i]]

(* Linking by hand adds identifiers nobody else owns. *)
Attach(S, e) ==
    /\ \A i \in S : class[i] \in {None, e}
    /\ class' = [i \in Identifiers |-> IF i \in S THEN e ELSE class[i]]
    /\ UNCHANGED alive

Erase(e) ==
    /\ alive' = alive \ {e}
    /\ class' = [i \in Identifiers |-> IF class[i] = e THEN None ELSE class[i]]

(* Every identifier belongs to a live entity. *)
ClassesAlive == \A i \in Identifiers : class[i] # None => class[i] \in alive

Init ==
    /\ alive \in SUBSET Entities
    /\ class \in [Identifiers -> alive \cup {None}]

Next ==
    \/ \E S \in (SUBSET Identifiers) \ {{}} : Resolve(S) \/ \E e \in alive : Attach(S, e)
    \/ \E e \in alive : Erase(e)

Spec == Init /\ [][Next]_<<class, alive>>
=============================================================================
