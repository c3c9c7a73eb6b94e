------------------------------- MODULE MCPool -------------------------------
(***************************************************************************)
(* Instances of WarmPool for TLC.                                          *)
(***************************************************************************)
EXTENDS WarmPool, TLC

\* Placeholders are numbers, so that they can be drawn in order.
Few == 1..3
Some == 1..5
Enough == 1..6

Symmetry == Permutations(Requests)
=============================================================================
