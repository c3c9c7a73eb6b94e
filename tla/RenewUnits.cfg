SPECIFICATION Spec
CONSTANTS
    l1 = l1  l2 = l2  t1 = t1  t2 = t2
    Nil = Nil
    Instances = {l1}
    Tokens = {t1}
    Ttl = 1
    Scale = 1000
    LateOps = {}
    Renews = TRUE
    FirstToken <- First1
INVARIANT LeaseIsBounded
