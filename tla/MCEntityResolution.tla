------------------------- MODULE MCEntityResolution -------------------------
(* Small instances of EntityResolution for TLC. *)
EXTENDS EntityResolution, TLC

(* Every identifier has a value of its own. *)
OwnValues == [i \in Identifiers |-> i]

(* Every identifier has the same value, each in its own source. *)
OneValue == [i \in Identifiers |-> "value"]

NoLimit == -1

Symmetry == Permutations(Requests) \cup Permutations(Identifiers)
=============================================================================
