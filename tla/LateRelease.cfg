SPECIFICATION Spec
CONSTANTS
    l1 = l1  l2 = l2  t1 = t1  t2 = t2
    Nil = Nil
    Instances = {l1, l2}
    Tokens = {t1, t2}
    Ttl = 2
    Scale = 1000
    LateOps = {"release"}
    Renews = FALSE
    FirstToken <- First2
INVARIANT LeaderHolds
