-------------------------------- MODULE Reads --------------------------------
(***************************************************************************)
(* A read of Listing or Reports beside the writes of Tables.               *)
(***************************************************************************)
EXTENDS Listing, Reports

Init == InitTables /\ read = Idle
Next == NextTables \/ NextListing \/ NextReports
Spec == Init /\ [][Next]_vars

(* Rows are of entities that exist, links lead from old to young, and the     *)
(* read is one that the handlers know.                                      *)
TypeOK ==
    /\ now \in StartTime .. MaxTime /\ changes \in 0 .. MaxChanges
    /\ \A n \in RowIds : interactions[n].entity \in Entities /\ interactions[n].at \in 0 .. now
    /\ \A e \in Entities : entities[e].state \in {"live", "merged", "erased"}
    /\ holder \in [Entities -> Entities \cup {0}]
    /\ \A l \in links : l \in Entities \X Entities /\ l[1] < l[2]
    /\ \A q \in Recs : recommendations[q].outcome \in RowIds \cup {0}
    /\ tenants \subseteq Tenants /\ plan \in DOMAIN Limits /\ resolutions \in Nat
    /\ read.kind \in Lists \cup {"none", "details", "graph", "summary", "impact", "usage", "history"}
    /\ read.kind \in Lists => read.page \subseteq read.seen /\ read.limit \in 1 .. MaxPage
=============================================================================
