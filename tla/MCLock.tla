------------------------------- MODULE MCLock -------------------------------
(***************************************************************************)
(* Instances of DistributedLock for TLC.                                   *)
(***************************************************************************)
EXTENDS DistributedLock, TLC

CONSTANTS l1, l2, t1, t2

First1 == l1 :> t1
First2 == (l1 :> t1) @@ (l2 :> t2)
=============================================================================
