--------------------------- MODULE SandboxService ---------------------------
(***************************************************************************)
(* What the service is to clients that leave a sandbox alone while one of  *)
(* them pauses or resumes it: every operation happens at one instant.  A   *)
(* sandbox is created once, it runs or it is paused, it keeps the data     *)
(* written to it through every pause and resume, and it is deleted once    *)
(* and for all.                                                            *)
(***************************************************************************)
CONSTANTS
    Sandboxes,
    Writes       \* distinguishable pieces of data

VARIABLES
    status,      \* sandbox -> "new", "running", "paused" or "gone"
    data         \* sandbox -> the data it holds

serviceVars == <<status, data>>

Init ==
    /\ status = [s \in Sandboxes |-> "new"]
    /\ data = [s \in Sandboxes |-> {}]

Move(s, from, to) == status[s] = from /\ status' = [status EXCEPT ![s] = to]

Create(s) == Move(s, "new", "running") /\ UNCHANGED data

Write(s) ==
    /\ status[s] = "running"
    /\ \E w \in Writes \ data[s] : data' = [data EXCEPT ![s] = @ \cup {w}]
    /\ UNCHANGED status

Pause(s)  == Move(s, "running", "paused") /\ UNCHANGED data
Resume(s) == Move(s, "paused", "running") /\ UNCHANGED data

\* DELETE kills and removes a sandbox, in whatever state it is.
Delete(s) ==
    /\ Move(s, "running", "gone") \/ Move(s, "paused", "gone")
    /\ data' = [data EXCEPT ![s] = {}]

Next == \E s \in Sandboxes : Create(s) \/ Write(s) \/ Pause(s) \/ Resume(s) \/ Delete(s)

Spec == Init /\ [][Next]_serviceVars
=============================================================================
