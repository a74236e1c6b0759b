------------------------------- MODULE MCReads -------------------------------
(* Small instances of Reads for TLC. *)
EXTENDS Reads

Row(entity, at, good)       == [entity |-> entity, at |-> at, good |-> good]
Rec(at, followed, outcome)  == [at |-> at, followed |-> followed, outcome |-> outcome]

(* Two rows of the same instant; a tenant just below its limit, and at it. *)
MCSeeds == {
    [rows |-> <<Row(1, 0, TRUE), Row(1, 2, FALSE), Row(2, 4, TRUE), Row(1, 3, TRUE)>>,
     recs |-> <<Rec(1, "yes", 2), Rec(4, "no", 4)>>, resolutions |-> 1999],
    [rows |-> <<Row(3, 1, TRUE), Row(3, 1, TRUE), Row(2, 3, FALSE)>>,
     recs |-> <<Rec(3, "unset", 0), Rec(4, "yes", 3)>>, resolutions |-> 2000]}

MCNewRows == {[age |-> 0, good |-> TRUE], [age |-> 2, good |-> FALSE]}

MCLimits == [free |-> 2000, builder |-> 50000, enterprise |-> -1]

(* Every day of two years, the second one a leap year. *)
MCDates == {d \in [month : 12 * 2023 .. 12 * 2025 - 1, day : 1 .. 31] : d.day <= DaysIn(d.month)}
=============================================================================
