-------------------------- MODULE MCBehavioralGraph --------------------------
(* Small instances of BehavioralGraph for TLC. *)
EXTENDS BehavioralGraph, TLC

(* exp(-0.02 * days), where a day of the model is 40 days. *)
Decay == [d \in 0 .. 2 |-> CASE d = 0 -> 1000000 [] d = 1 -> 449329 [] d = 2 -> 201897]

(* Weights under which recency can outdo the rate of few interactions. *)
MCWeight == [rate |-> 20, recency |-> 65, feedback |-> 15]

Item(e, action, ref, good, day) ==
    [entity |-> e, api |-> "mail", action |-> action, ref |-> ref, good |-> good, day |-> day]

(* One item has the reference of a row of another entity, one is in the future. *)
MCItems == {Item(1, "call", "ref", TRUE, 2), Item(2, "write", NoRef, TRUE, 1),
            Item(1, "call", NoRef, FALSE, 3)}

MCSeeded == <<Item(1, "write", NoRef, TRUE, 0), Item(1, "call", NoRef, TRUE, 1),
              Item(2, "call", "ref", TRUE, 1)>>
=============================================================================
