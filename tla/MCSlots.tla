------------------------------ MODULE MCSlots -------------------------------
(* Instances of Slots for TLC. *)
EXTENDS Slots

\* Two for each node: a request may be answered with one slot by each donor,
\* or with two by one.
SixSlots == 1 .. 6
Zero == {0}

FairSpec == Spec /\ Fairness
=============================================================================
