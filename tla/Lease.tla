-------------------------------- MODULE Lease --------------------------------
(***************************************************************************)
(* What a lock with a lease promises to the replicas that use it: whoever  *)
(* has been told that it leads holds the lock, unless its lease has run    *)
(* out in the meantime.  Nobody else's doing can end a leader's lease.     *)
(***************************************************************************)
CONSTANTS
    Holders,   \* identities a lease can be granted to
    Nobody

VARIABLES
    holder,    \* whose the lease is
    leading,   \* those that have been told so and have not yet given it up
    lapsed     \* those whose last lease ran out

leaseVars == <<holder, leading, lapsed>>

Init ==
    /\ holder = Nobody
    /\ leading = {}
    /\ lapsed = {}

\* A free lease is granted, perhaps to one that has lost it and still works;
\* that the grantee learns of it is a step of its own.
Grant(h) ==
    /\ holder = Nobody
    /\ holder' = h
    /\ lapsed' = lapsed \ {h}
    /\ UNCHANGED leading

\* h learns, perhaps too late, that it was granted the lease.
Lead(h) ==
    /\ holder = h \/ h \in lapsed
    /\ leading' = leading \cup {h}
    /\ UNCHANGED <<holder, lapsed>>

\* h stops leading, and then its lease is ended early.
Resign(h) ==
    /\ leading' = leading \ {h}
    /\ UNCHANGED <<holder, lapsed>>

End(h) ==
    /\ holder = h
    /\ h \notin leading
    /\ holder' = Nobody
    /\ UNCHANGED <<leading, lapsed>>

\* The lease runs out by itself.
Lapse(h) ==
    /\ holder = h
    /\ holder' = Nobody
    /\ lapsed' = lapsed \cup {h}
    /\ UNCHANGED leading

Next == \E h \in Holders : Grant(h) \/ Lead(h) \/ Resign(h) \/ End(h) \/ Lapse(h)

Spec == Init /\ [][Next]_leaseVars

-----------------------------------------------------------------------------
\* A leader whose lease has not run out is the holder: at most one leads.
LeaderHolds == \A h \in leading \ lapsed : holder = h
=============================================================================
