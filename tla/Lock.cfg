\* Two replicas whose commands can be lost, repeated or late; a renewal gives
\* the key three times its ttl.
SPECIFICATION FairSpec
CONSTANTS
    l1 = l1  l2 = l2  t1 = t1  t2 = t2
    Nil = Nil
    Instances = {l1, l2}
    Tokens = {t1, t2, t3}
    Ttl = 1
    Scale = 3
    LateOps = {"acquire", "renew"}
    Renews = TRUE
    FirstToken <- First2
INVARIANTS LeaderHolds
PROPERTIES LeaseSpec DeadLeaseEnds
