---------------------------- MODULE MCFirecracker ----------------------------
(***************************************************************************)
(* Instances of FirecrackerManager for TLC.                                *)
(***************************************************************************)
EXTENDS FirecrackerManager

CONSTANTS c1, c2

VMs2 == 1..2
VMs3 == 1..3
All == {"create", "delete", "pause", "resume"}
ClientAndReaper == [p \in {c1, c2} |-> IF p = c1 THEN All ELSE {"reap"}]
OneAtATime == [p \in {c1} |-> All \cup {"reap"}]
PauseResume == [p \in {c1} |-> {"create", "pause", "resume"}]
TwoPause == [p \in {c1, c2} |-> IF p = c1 THEN {"create", "pause"} ELSE {"pause"}]
=============================================================================
