------------------------------- MODULE MCGate -------------------------------
(***************************************************************************)
(* Instances of RequestGate for TLC.                                       *)
(***************************************************************************)
EXTENDS RequestGate

CONSTANTS q1, q2, q3

NoSkew == [p \in {q1, q2} |-> 0]
OneAhead == [p \in {q1, q2} |-> IF p = q1 THEN 1 ELSE 0]
=============================================================================
