----------------------------- MODULE MCLifecycle -----------------------------
(***************************************************************************)
(* Instances of SandboxLifecycle for TLC.                                  *)
(***************************************************************************)
EXTENDS SandboxLifecycle, TLC

CONSTANTS r1, r2, q1, q2

OneHome == [q \in {q1} |-> r1]
TwoOnOne == [q \in {q1, q2} |-> r1]
OneEach == (q1 :> r1) @@ (q2 :> r2)

\* Containers, images and data are interchangeable names.
Symmetry == Permutations(Containers) \cup Permutations(Images) \cup Permutations(Writes)
SymmetryAll == Symmetry \cup Permutations(Sandboxes) \cup Permutations(Requests)
=============================================================================
