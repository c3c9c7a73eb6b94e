------------------------- MODULE RequestGate_proofs -------------------------
(***************************************************************************)
(* Proofs about RequestGate, for any number of requests in flight, any     *)
(* skew of the replicas' clocks and any size of bucket.                    *)
(***************************************************************************)
EXTENDS RequestGate, TLAPS

\* The constants, without the relation between them.
LEMMA Numbers ==
    /\ MaxSkew \in Nat /\ MaxDelay \in Nat /\ Ttl \in Nat /\ Ttl > 0 /\ KeyTtl \in Nat
    /\ Capacity \in Nat /\ Refill \in Nat /\ Cost \in Nat /\ Cost > 0
    /\ Nil \notin Nat
    /\ \A p \in Requests : Skew[p] \in Nat /\ Skew[p] <= MaxSkew
  BY GateAssumption

USE Numbers

-----------------------------------------------------------------------------
(* Types. *)

LEMMA Counted == ASSUME NEW a \in Nat, NEW b \in Nat
                 PROVE  Smaller(a, b) \in Nat /\ Smaller(a, b) <= a /\ Larger(a, b) \in Nat
  BY DEF Smaller, Larger

LEMMA ElapsedTyped == ASSUME NEW a \in Nat, NEW b \in Nat PROVE Larger(0, a - b) \in Nat
  BY DEF Larger

\* A product of naturals; and what grows with its factor.
LEMMA Product ==
  ASSUME NEW r \in Nat, NEW a \in Nat
  PROVE  a * r \in Nat
  OBVIOUS

LEMMA Grows ==
  ASSUME NEW r \in Nat, NEW a \in Nat, NEW b \in Nat, a <= b
  PROVE  r * a <= r * b
  OBVIOUS

LEMMA Adds ==
  ASSUME NEW r \in Nat, NEW a \in Nat, NEW b \in Nat
  PROVE  r * (a + b) = r * a + r * b
  OBVIOUS

LEMMA RefilledTyped ==
  ASSUME TypeOK, NEW n \in Nat
  PROVE  Refilled(n) \in 0..Capacity
  <1>1. Larger(0, n - last) \in Nat
    BY ElapsedTyped DEF TypeOK
  <1> DEFINE e == Larger(0, n - last)
             more == e * Refill
  <1>2. e \in Nat /\ Refill \in Nat
    BY <1>1
  <1> HIDE DEF e
  <1>3. more \in Nat
    BY <1>2, Product
  <1>4. Refilled(n) = IF time >= exp THEN Capacity ELSE Smaller(Capacity, tokens + more)
    BY DEF Refilled, e
  <1> HIDE DEF more
  <1>5. Smaller(Capacity, tokens + more) \in 0..Capacity
    BY <1>3 DEF TypeOK, Smaller
  <1> QED BY <1>4, <1>5

LEMMA ScriptTyped ==
  ASSUME TypeOK, NEW n \in Nat, NEW allowed \in BOOLEAN, Script(n, allowed)
  PROVE  tokens' \in 0..Capacity /\ last' = n /\ exp' = time + KeyTtl /\ rewound' \in Nat
  <1>1. Refilled(n) \in 0..Capacity
    BY RefilledTyped
  <1>2. Larger(0, last - n) \in Nat /\ rewound' = rewound + Larger(0, last - n) /\ rewound \in Nat
    BY ElapsedTyped DEF Script, TypeOK
  <1>3. tokens' = IF allowed THEN Refilled(n) - Cost ELSE Refilled(n)
    BY DEF Script
  <1>4. allowed <=> Refilled(n) >= Cost
    BY Zenon DEF Script
  <1>5. tokens' \in 0..Capacity
    <2> DEFINE r == Refilled(n)
    <2> HIDE DEF r
    <2>1. r \in 0..Capacity /\ tokens' = (IF allowed THEN r - Cost ELSE r) /\ (allowed <=> r >= Cost)
      BY <1>1, <1>3, <1>4 DEF r
    <2> QED BY <2>1
  <1> QED BY <1>2, <1>5 DEF Script

FlightOK == pc \in [Requests -> {"idle", "get", "validate", "set", "limit"}]
            /\ since \in [Requests -> Nat] /\ now \in [Requests -> Nat]

LEMMA FlightKept ==
  ASSUME TypeOK, NEW p \in Requests,
         \/ \E l \in {"get", "validate", "set"} : Goto(p, l) /\ UNCHANGED now
         \/ ToLimiter(p)
         \/ Done(p)
  PROVE  FlightOK'
  <1>1. time \in Nat /\ time + Skew[p] \in Nat
    BY DEF TypeOK
  <1> QED BY <1>1 DEF TypeOK, FlightOK, Goto, ToLimiter, Done

LEMMA FaultTyped == ASSUME TypeOK, NoFault \/ Fault PROVE faults' \in Nat
  BY DEF TypeOK, NoFault, Fault

LEMMA LimitTyped == ASSUME TypeOK, NEW p \in Requests, Limit(p)
                    PROVE  bucketVars' \in (0..Capacity) \X Nat \X Nat \X Nat \X Nat
  <1>1. now[p] \in Nat /\ time + KeyTtl \in Nat
    BY DEF TypeOK
  <1>2. CASE \E allowed \in BOOLEAN : Script(now[p], allowed)
    <2>1. tokens' \in 0..Capacity /\ last' \in Nat /\ exp' \in Nat /\ rewound' \in Nat
      BY <1>1, <1>2, ScriptTyped
    <2> QED BY <2>1 DEF Limit, TypeOK, bucketVars
  <1>3. CASE UNCHANGED <<tokens, last, exp, rewound>>
    BY <1>3 DEF Limit, TypeOK, bucketVars
  <1> QED BY <1>2, <1>3 DEF Limit

LEMMA TypesKept == TypeOK /\ [Next]_vars => TypeOK'
  <1> SUFFICES ASSUME TypeOK, [Next]_vars PROVE TypeOK'
    OBVIOUS
  <1>f. ASSUME FlightOK', faults' \in Nat, UNCHANGED <<time, revokedAt, bucketVars>>,
               verdict' \in {"valid", "invalid"}, cacheExp' \in Nat, valid' \in [Requests -> BOOLEAN]
        PROVE  TypeOK'
    BY <1>f DEF TypeOK, FlightOK, bucketVars
  <1>1. ASSUME NEW p \in Requests, Arrive(p) PROVE TypeOK'
    BY <1>1, <1>f, FlightKept DEF Arrive, authVars, TypeOK
  <1>2. ASSUME NEW p \in Requests, CacheGet(p) PROVE TypeOK'
    BY <1>2, <1>f, FlightKept, FaultTyped DEF CacheGet, Hit, TypeOK
  <1>3. ASSUME NEW p \in Requests, Validate(p) PROVE TypeOK'
    BY <1>3, <1>f, FlightKept, FaultTyped DEF Validate, authVars, TypeOK
  <1>4. ASSUME NEW p \in Requests, CacheSet(p) PROVE TypeOK'
    <2>1. time + Ttl \in Nat
      BY DEF TypeOK
    <2> QED BY <1>4, <2>1, <1>f, FlightKept, FaultTyped DEF CacheSet, TypeOK
  <1>5. ASSUME NEW p \in Requests, Limit(p) PROVE TypeOK'
    <2>1. tokens' \in 0..Capacity /\ last' \in Nat /\ exp' \in Nat /\ served' \in Nat /\ rewound' \in Nat
      BY <1>5, LimitTyped DEF bucketVars
    <2>2. FlightOK' /\ faults' \in Nat
      BY <1>5, FlightKept, FaultTyped DEF Limit
    <2> QED BY <1>5, <2>1, <2>2 DEF Limit, authVars, TypeOK, FlightOK
  <1>6. CASE Revoke
    BY <1>6 DEF Revoke, bucketVars, TypeOK
  <1>7. CASE Tick
    BY <1>7 DEF Tick, authVars, bucketVars, TypeOK
  <1>8. CASE UNCHANGED vars
    BY <1>8 DEF vars, authVars, bucketVars, TypeOK
  <1> QED BY <1>1, <1>2, <1>3, <1>4, <1>5, <1>6, <1>7, <1>8 DEF Next

\* Every variable stays in its type; the bucket never holds more than its
\* capacity nor less than nothing.
THEOREM GateTypes == Spec => []TypeOK
  <1>1. Init => TypeOK
    BY DEF Init, TypeOK
  <1> QED BY <1>1, TypesKept, PTL DEF Spec

-----------------------------------------------------------------------------
(* The cached verdict.  A verdict read before the revocation may be stored  *)
(* up to MaxDelay after it, and is then used for up to Ttl.                 *)

InTime == \A p \in Requests : pc[p] # "idle" => since[p] <= time /\ time <= since[p] + MaxDelay
RevokedBefore == revokedAt # Nil => revokedAt <= time
EntryEnds ==
    verdict = "valid" =>
        cacheExp <= IF revokedAt = Nil THEN time + Ttl ELSE revokedAt + Ttl + MaxDelay
ReadBefore ==
    \A p \in Requests : pc[p] = "set" /\ valid[p] /\ revokedAt # Nil => since[p] <= revokedAt

StaleInv == InTime /\ RevokedBefore /\ EntryEnds /\ ReadBefore /\ StaleIsBounded

\* A step of request p that leaves the table, the entry and time alone.
LEMMA StaleStep ==
  ASSUME TypeOK, StaleInv, NEW p \in Requests,
         NEW l \in {"idle", "get", "validate", "set", "limit"}, NEW at \in {0, time},
         pc' = [pc EXCEPT ![p] = l], since' = [since EXCEPT ![p] = at],
         UNCHANGED <<time, revokedAt>>, EntryEnds',
         \A q \in Requests : q # p => valid'[q] = valid[q],
         l # "idle" => at = time,
         l = "set" /\ valid'[p] => revokedAt = Nil,
         l = "limit" /\ revokedAt # Nil => at < revokedAt + Ttl + MaxDelay
  PROVE  StaleInv'
  <1> USE DEF StaleInv
  <1>a. \A q \in Requests : /\ q # p => pc'[q] = pc[q] /\ since'[q] = since[q]
                            /\ pc'[p] = l /\ since'[p] = at
    BY DEF TypeOK
  <1>1. InTime'
    BY <1>a DEF TypeOK, InTime
  <1>2. RevokedBefore'
    BY DEF RevokedBefore
  <1>3. ReadBefore'
    BY <1>a DEF ReadBefore
  <1>4. StaleIsBounded'
    BY <1>a DEF StaleIsBounded
  <1> QED BY <1>1, <1>2, <1>3, <1>4

LEMMA StaleKept == TypeOK /\ StaleInv /\ [Next]_vars => StaleInv'
  <1> SUFFICES ASSUME TypeOK, StaleInv, [Next]_vars PROVE StaleInv'
    OBVIOUS
  <1>a. time \in Nat /\ cacheExp \in Nat /\ revokedAt \in Nat \cup {Nil}
    BY DEF TypeOK
  <1>e. UNCHANGED <<time, revokedAt, verdict, cacheExp>> => EntryEnds'
    BY DEF StaleInv, EntryEnds
  <1>r. revokedAt # Nil => revokedAt <= time
    BY DEF StaleInv, RevokedBefore
  <1>1. ASSUME NEW p \in Requests, Arrive(p) PROVE StaleInv'
    BY <1>1, <1>e, StaleStep DEF Arrive, Goto, authVars
  <1>2. ASSUME NEW p \in Requests, CacheGet(p) PROVE StaleInv'
    <2>1. UNCHANGED <<time, revokedAt, verdict, cacheExp, valid>>
      BY <1>2 DEF CacheGet, Hit
    <2>2. CASE Hit(p) /\ verdict = "valid"
      <3>1. revokedAt # Nil => time < revokedAt + Ttl + MaxDelay
        BY <2>2, <1>a DEF Hit, StaleInv, EntryEnds
      <3> QED BY <2>1, <2>2, <3>1, <1>e, StaleStep DEF Hit, ToLimiter, Goto
    <2>3. CASE Done(p)
      BY <2>1, <2>3, <1>e, StaleStep DEF Done
    <2>4. CASE Goto(p, "validate")
      BY <2>1, <2>4, <1>e, StaleStep DEF Goto
    <2> QED BY <1>2, <2>2, <2>3, <2>4 DEF CacheGet, Hit
  <1>3. ASSUME NEW p \in Requests, Validate(p) PROVE StaleInv'
    <2>1. UNCHANGED <<time, revokedAt, verdict, cacheExp>>
      BY <1>3 DEF Validate, authVars
    <2>2. CASE Goto(p, "set") /\ valid' = [valid EXCEPT ![p] = revokedAt = Nil]
      <3>1. /\ \A q \in Requests : q # p => valid'[q] = valid[q]
            /\ valid'[p] => revokedAt = Nil
        BY <2>2, Zenon DEF TypeOK
      <3> QED BY <2>1, <2>2, <3>1, <1>e, StaleStep DEF Goto
    <2>3. CASE Done(p) /\ UNCHANGED valid
      BY <2>1, <2>3, <1>e, StaleStep DEF Done
    <2> QED BY <1>3, <2>2, <2>3 DEF Validate
  <1>4. ASSUME NEW p \in Requests, CacheSet(p) PROVE StaleInv'
    <2>0. UNCHANGED <<time, revokedAt>> /\ \A q \in Requests : q # p => valid'[q] = valid[q]
      BY <1>4 DEF CacheSet, TypeOK
    <2>1. valid[p] /\ revokedAt # Nil => time <= revokedAt + MaxDelay
      BY <1>4, <1>a DEF CacheSet, StaleInv, ReadBefore, InTime, TypeOK
    <2>2. EntryEnds'
      <3>1. CASE UNCHANGED <<verdict, cacheExp>>
        BY <2>0, <3>1, <1>e
      <3>2. CASE verdict' = (IF valid[p] THEN "valid" ELSE "invalid") /\ cacheExp' = time + Ttl
        BY <2>0, <2>1, <3>2, <1>a DEF EntryEnds
      <3> QED BY <1>4, <3>1, <3>2 DEF CacheSet
    <2>3. CASE valid[p]
      <3>1. revokedAt # Nil => time < revokedAt + Ttl + MaxDelay
        BY <2>1, <2>3, <1>a
      <3>2. ToLimiter(p)
        BY <1>4, <2>3 DEF CacheSet
      <3> QED BY <2>0, <2>2, <3>1, <3>2, StaleStep DEF ToLimiter, Goto
    <2>4. CASE ~valid[p]
      <3>1. Done(p)
        BY <1>4, <2>4 DEF CacheSet
      <3> QED BY <2>0, <2>2, <3>1, StaleStep DEF Done
    <2> QED BY <2>3, <2>4
  <1>5. ASSUME NEW p \in Requests, Limit(p) PROVE StaleInv'
    BY <1>5, <1>e, StaleStep DEF Limit, Done, authVars
  <1>6. CASE Revoke
    <2> USE <1>6 DEF Revoke, StaleInv
    <2>1. EntryEnds'
      BY <1>a DEF EntryEnds
    <2>2. InTime' /\ RevokedBefore'
      BY <1>a DEF InTime, RevokedBefore
    <2>3. ReadBefore' /\ StaleIsBounded'
      BY <1>a DEF InTime, ReadBefore, StaleIsBounded, TypeOK
    <2> QED BY <2>1, <2>2, <2>3
  <1>7. CASE Tick
    <2> USE <1>7 DEF Tick, authVars, StaleInv
    <2>1. InTime'
      BY <1>a DEF InTime, TypeOK
    <2>2. RevokedBefore' /\ EntryEnds'
      BY <1>a DEF RevokedBefore, EntryEnds
    <2>3. ReadBefore' /\ StaleIsBounded'
      BY DEF ReadBefore, StaleIsBounded
    <2> QED BY <2>1, <2>2, <2>3
  <1>8. CASE UNCHANGED vars
    BY <1>8 DEF vars, authVars, StaleInv, InTime, RevokedBefore, EntryEnds, ReadBefore, StaleIsBounded
  <1> QED BY <1>1, <1>2, <1>3, <1>4, <1>5, <1>6, <1>7, <1>8 DEF Next

\* A revoked key is refused once the cache's TTL and one call have passed,
\* however many requests are in flight and whichever calls fail.
THEOREM StaleVerdictsEnd == Spec => []StaleIsBounded
  <1>1. Init => StaleInv
    BY DEF Init, StaleInv, InTime, RevokedBefore, EntryEnds, ReadBefore, StaleIsBounded
  <1>2. Spec => []TypeOK
    BY GateTypes
  <1>3. Spec => []StaleInv
    BY <1>1, <1>2, StaleKept, PTL DEF Spec
  <1>4. StaleInv => StaleIsBounded
    BY DEF StaleInv
  <1> QED BY <1>3, <1>4, PTL

-----------------------------------------------------------------------------
(* The bucket.  What was served and what is left was paid for by the full   *)
(* bucket of the beginning and by the time from then to last_refill, each   *)
(* stretch once, but for what was rewound.                                  *)

ClockOK ==
    \A p \in Requests : pc[p] = "limit" =>
        now[p] <= since[p] + MaxSkew /\ since[p] <= now[p]
LastOK == last <= time + MaxSkew
BucketAge == (exp = 0 /\ tokens = Capacity) \/ last + KeyTtl <= exp + MaxSkew
Paid == served * Cost + tokens <= Capacity + Refill * (last + rewound) + Cost * faults

RateInv == InTime /\ ClockOK /\ LastOK /\ BucketAge /\ Paid

\* An expired bucket had the time to fill up.
LEMMA RefillPaid ==
  ASSUME TypeOK, BucketAge, NEW n \in Nat, n + MaxDelay >= time
  PROVE  Refilled(n) <= tokens + Refill * Larger(0, n - last)
  <1> DEFINE e == Larger(0, n - last)
             k == KeyTtl - MaxDelay - MaxSkew
  <1>1. e \in Nat /\ e >= n - last
    BY DEF TypeOK, Larger
  <1>2. k \in Nat /\ Refill * k >= Capacity
    BY GateAssumption
  <1>3. tokens \in Nat /\ time \in Nat /\ exp \in Nat /\ last \in Nat
    BY DEF TypeOK
  <1>4. ASSUME time >= exp, last + KeyTtl <= exp + MaxSkew PROVE Capacity <= tokens + Refill * e
    <2>1. k <= e
      BY <1>1, <1>2, <1>3, <1>4
    <2> HIDE DEF e, k
    <2>2. Refill * k <= Refill * e
      BY <1>1, <1>2, <2>1, Grows
    <2>3. Refill * k \in Nat /\ Refill * e \in Nat
      BY <1>1, <1>2, Product
    <2> QED BY <1>2, <1>3, <2>2, <2>3
  <1> HIDE DEF e, k
  <1>5. e * Refill = Refill * e /\ Refill * e \in Nat
    BY <1>1
  <1>6. Refilled(n) = IF time >= exp THEN Capacity ELSE Smaller(Capacity, tokens + e * Refill)
    BY DEF Refilled, e
  <1>7. CASE time >= exp
    <2>1. CASE tokens = Capacity
      BY <1>3, <1>5, <1>6, <1>7, <2>1 DEF e
    <2>2. CASE last + KeyTtl <= exp + MaxSkew
      BY <1>4, <1>6, <1>7, <2>2 DEF e
    <2> QED BY <2>1, <2>2 DEF BucketAge
  <1>8. CASE ~(time >= exp)
    <2> DEFINE m == e * Refill
    <2>1. m \in Nat /\ m = Refill * e
      BY <1>5
    <2> HIDE DEF m
    <2>2. Smaller(Capacity, tokens + m) <= tokens + m
      BY <1>3, <2>1 DEF Smaller
    <2> QED BY <1>6, <1>8, <2>1, <2>2 DEF e, m
  <1> QED BY <1>7, <1>8

\* What is added on one side of the account and on the other.
LEMMA Transfer ==
  ASSUME NEW s \in Nat, NEW u \in Nat, NEW f \in Nat, NEW g \in Nat, NEW t \in Nat, NEW k \in Nat,
         s + k <= Capacity + t + f, u + f <= s + g
  PROVE  u + k <= Capacity + t + g
  OBVIOUS

\* What a script adds to last_refill, it pays for.
LEMMA ScriptPays ==
  ASSUME TypeOK, BucketAge, Paid, NEW n \in Nat, n + MaxDelay >= time, n <= time + MaxSkew,
         NEW allowed \in BOOLEAN, Script(n, allowed)
  PROVE  /\ LastOK' \/ time' # time
         /\ last' = n
         /\ exp' = time + KeyTtl
         /\ (served + (IF allowed THEN 1 ELSE 0)) * Cost + tokens'
                <= Capacity + Refill * (last' + rewound') + Cost * faults
  <1> DEFINE d == Larger(0, n - last)
             r == Refilled(n)
             old == Refill * (last + rewound)
             more == Refill * d
             paid == served * Cost
  <1>1. /\ d \in Nat /\ last \in Nat /\ rewound \in Nat /\ tokens \in Nat /\ served \in Nat
        /\ faults \in Nat /\ time \in Nat
    <2>1. last \in Nat /\ rewound \in Nat /\ tokens \in Nat /\ served \in Nat
          /\ faults \in Nat /\ time \in Nat
      BY DEF TypeOK
    <2>2. d \in Nat
      BY <2>1, ElapsedTyped
    <2> QED BY <2>1, <2>2
  <1>2. last' + rewound' = (last + rewound) + d
    BY <1>1 DEF Script, Larger
  <1>3. Refill * (last' + rewound') = old + more
    <2>1. last + rewound \in Nat
      BY <1>1
    <2> HIDE DEF d
    <2> QED BY <1>1, <1>2, <2>1, Adds
  <1>4. r <= tokens + more /\ r \in 0..Capacity
    BY RefillPaid, RefilledTyped
  <1>5. old \in Nat /\ more \in Nat /\ paid \in Nat /\ Cost * faults \in Nat
    BY <1>1
  <1>6. paid + tokens <= Capacity + old + Cost * faults
    BY DEF Paid
  <1>7. tokens' = (IF allowed THEN r - Cost ELSE r) /\ last' = n /\ exp' = time + KeyTtl
    BY DEF Script
  <1>8. (served + (IF allowed THEN 1 ELSE 0)) * Cost = IF allowed THEN paid + Cost ELSE paid
    <2>1. (served + 1) * Cost = served * Cost + Cost /\ (served + 0) * Cost = served * Cost
      BY <1>1
    <2> QED BY <2>1
  <1> DEFINE f == Cost * faults
             s == (served + (IF allowed THEN 1 ELSE 0)) * Cost
             t == Refill * (last' + rewound')
  <1>9. s + tokens' <= Capacity + t + f
    <2>1. f \in Nat /\ paid + tokens <= Capacity + old + f /\ t = old + more
      BY <1>3, <1>5, <1>6
    <2>2. s = IF allowed THEN paid + Cost ELSE paid
      BY <1>8
    <2> HIDE DEF s, t, f, paid, old, more, r, d
    <2> QED BY <1>1, <1>4, <1>5, <1>7, <2>1, <2>2
  <1>10. LastOK' \/ time' # time
    BY <1>7 DEF LastOK
  <1> QED BY <1>7, <1>9, <1>10

LEMMA Later ==
  ASSUME NEW a \in Nat, NEW t \in Nat, NEW u \in Nat, a <= t + MaxSkew, t <= u
  PROVE  a <= u + MaxSkew
  OBVIOUS

\* A step that leaves the bucket alone.
LEMMA BucketKept ==
  ASSUME TypeOK, RateInv, UNCHANGED bucketVars, faults' = faults, time' \in Nat, time <= time'
  PROVE  LastOK' /\ BucketAge' /\ Paid'
  <1>1. LastOK'
    <2>1. last' = last /\ last \in Nat /\ time \in Nat /\ last <= time + MaxSkew
      BY DEF RateInv, LastOK, bucketVars, TypeOK
    <2>2. last <= time' + MaxSkew
      BY <2>1, Later
    <2> QED BY <2>1, <2>2 DEF LastOK
  <1>2. BucketAge' /\ Paid'
    BY DEF RateInv, BucketAge, Paid, bucketVars
  <1> QED BY <1>1, <1>2

LEMMA FaultPays ==
  ASSUME TypeOK, RateInv, UNCHANGED <<bucketVars, time>>, NoFault \/ Fault
  PROVE  LastOK' /\ BucketAge' /\ Paid'
  <1>1. LastOK' /\ BucketAge'
    BY DEF RateInv, LastOK, BucketAge, bucketVars
  <1> DEFINE f == Cost * faults
             g == Cost * faults'
             s == served * Cost
             t == Refill * (last + rewound)
  <1>2. f \in Nat /\ g \in Nat /\ f <= g /\ s \in Nat /\ t \in Nat /\ tokens \in Nat
    <2>1. faults \in Nat /\ faults' \in Nat /\ faults <= faults' /\ served \in Nat
          /\ last + rewound \in Nat /\ tokens \in Nat
      BY DEF TypeOK, NoFault, Fault
    <2>2. f <= g
      BY <2>1, Grows
    <2>3. f \in Nat /\ g \in Nat
      BY <2>1, Product
    <2>4. s \in Nat
      BY <2>1
    <2>5. t \in Nat
      BY <2>1
    <2> QED BY <2>1, <2>2, <2>3, <2>4, <2>5
  <1>3. s + tokens <= Capacity + t + f
    BY DEF RateInv, Paid
  <1>4. Paid' <=> s + tokens <= Capacity + t + g
    BY DEF Paid, bucketVars
  <1> HIDE DEF f, g, s, t
  <1> QED BY <1>1, <1>2, <1>3, <1>4

\* A step of request p, in time.
LEMMA FlightInTime ==
  ASSUME TypeOK, RateInv, NEW p \in Requests, UNCHANGED time,
         \/ \E l \in {"get", "validate", "set"} : Goto(p, l) /\ UNCHANGED now
         \/ ToLimiter(p)
         \/ Done(p)
  PROVE  InTime' /\ ClockOK'
  <1>1. time \in Nat /\ Skew[p] \in Nat /\ Skew[p] <= MaxSkew
    BY DEF TypeOK
  <1>2. CASE \E l \in {"get", "validate", "set"} : Goto(p, l) /\ UNCHANGED now
    BY <1>1, <1>2 DEF RateInv, InTime, ClockOK, Goto, TypeOK
  <1>3. CASE ToLimiter(p)
    BY <1>1, <1>3 DEF RateInv, InTime, ClockOK, ToLimiter, Goto, TypeOK
  <1>4. CASE Done(p)
    BY <1>1, <1>4 DEF RateInv, InTime, ClockOK, Done, TypeOK
  <1> QED BY <1>2, <1>3, <1>4

LEMMA LimitPays == ASSUME TypeOK, RateInv, NEW p \in Requests, Limit(p)
                   PROVE  LastOK' /\ BucketAge' /\ Paid'
  <1>1. /\ now[p] \in Nat /\ since[p] \in Nat /\ time \in Nat /\ served \in Nat /\ faults \in Nat
        /\ tokens \in Nat /\ last \in Nat /\ rewound \in Nat /\ exp \in Nat
    BY DEF TypeOK
  <1>2. now[p] + MaxDelay >= time /\ now[p] <= time + MaxSkew
    BY <1>1 DEF Limit, RateInv, InTime, ClockOK
  <1>t. time' = time
    BY DEF Limit
  <1>3. ASSUME NEW allowed \in BOOLEAN, Script(now[p], allowed),
               \/ NoFault /\ served' = IF allowed THEN served + 1 ELSE served
               \/ Fault /\ served' = served + 1
        PROVE  LastOK' /\ BucketAge' /\ Paid'
    <2> DEFINE n == now[p]
               s == (served + (IF allowed THEN 1 ELSE 0)) * Cost
               u == served' * Cost
               f == Cost * faults
               g == Cost * faults'
               t == Refill * (last' + rewound')
    <2>1. /\ s + tokens' <= Capacity + t + f
          /\ last' = n /\ exp' = time + KeyTtl /\ LastOK'
      BY <1>1, <1>2, <1>3, <1>t, ScriptPays DEF RateInv
    <2>2. BucketAge'
      BY <1>1, <1>2, <2>1 DEF BucketAge
    <2>3. tokens' \in Nat /\ last' + rewound' \in Nat
      BY <1>1, <1>3, ScriptTyped
    <2>4. f \in Nat /\ g \in Nat /\ s \in Nat /\ t \in Nat /\ u \in Nat
      BY <1>1, <1>3, <2>3 DEF NoFault, Fault
    <2>5. u + f <= s + g
      <3>1. CASE NoFault /\ served' = IF allowed THEN served + 1 ELSE served
        <4>1. u = s /\ f = g
          BY <1>1, <3>1 DEF NoFault
        <4> HIDE DEF u, s, f, g
        <4> QED BY <4>1, <2>4
      <3>2. CASE Fault /\ served' = served + 1
        <4>1. u = served * Cost + Cost /\ g = f + Cost
          BY <1>1, <3>2 DEF Fault
        <4>2. s = served * Cost \/ s = served * Cost + Cost
          BY <1>1
        <4>3. served * Cost \in Nat
          BY <1>1
        <4> DEFINE v == served * Cost
        <4> HIDE DEF u, s, f, g, v
        <4>4. v \in Nat /\ u = v + Cost /\ (s = v \/ s = v + Cost) /\ g = f + Cost
          BY <4>1, <4>2, <4>3 DEF v
        <4> QED BY <4>4, <2>4
      <3> QED BY <1>3, <3>1, <3>2
    <2>6. Paid' <=> u + tokens' <= Capacity + t + g
      BY DEF Paid
    <2> HIDE DEF s, u, f, g, t
    <2>7. u + tokens' <= Capacity + t + g
      <3>1. s + tokens' <= Capacity + t + f
        BY <2>1
      <3> QED BY <3>1, <2>3, <2>4, <2>5, Transfer
    <2> QED BY <2>1, <2>2, <2>6, <2>7
  <1>4. CASE Fault /\ served' = served + 1 /\ UNCHANGED <<tokens, last, exp, rewound>>
    <2>1. LastOK' /\ BucketAge'
      BY <1>4, <1>t DEF RateInv, LastOK, BucketAge
    <2> DEFINE v == served * Cost
               f == Cost * faults
               t == Refill * (last + rewound)
    <2>2. v \in Nat /\ f \in Nat /\ t \in Nat /\ v + tokens <= Capacity + t + f
      BY <1>1 DEF RateInv, Paid
    <2>3. served' * Cost = v + Cost /\ Cost * faults' = f + Cost
      BY <1>1, <1>4 DEF Fault
    <2>4. Paid' <=> served' * Cost + tokens <= Capacity + t + Cost * faults'
      BY <1>4 DEF Paid
    <2> HIDE DEF v, f, t
    <2>5. Paid' <=> (v + Cost) + tokens <= Capacity + t + (f + Cost)
      BY <2>3, <2>4
    <2>6. (v + Cost) + tokens <= Capacity + t + (f + Cost)
      BY <1>1, <2>2
    <2> QED BY <2>1, <2>5, <2>6
  <1> QED BY <1>3, <1>4 DEF Limit

LEMMA RateKept == TypeOK /\ RateInv /\ [Next]_vars => RateInv'
  <1> SUFFICES ASSUME TypeOK, RateInv, [Next]_vars PROVE RateInv'
    OBVIOUS
  <1>0. time \in Nat /\ time <= time
    BY DEF TypeOK
  <1>1. ASSUME NEW p \in Requests, Arrive(p) PROVE RateInv'
    BY <1>0, <1>1, FlightInTime, BucketKept DEF Arrive, RateInv
  <1>2. ASSUME NEW p \in Requests, CacheGet(p) PROVE RateInv'
    <2>1. InTime' /\ ClockOK'
      BY <1>2, FlightInTime DEF CacheGet, Hit
    <2>2. NoFault \/ Fault
      BY <1>2 DEF CacheGet
    <2>3. UNCHANGED <<bucketVars, time>>
      BY <1>2 DEF CacheGet
    <2> QED BY <2>1, <2>2, <2>3, FaultPays DEF RateInv
  <1>3. ASSUME NEW p \in Requests, Validate(p) PROVE RateInv'
    BY <1>3, FlightInTime, FaultPays DEF Validate, RateInv
  <1>4. ASSUME NEW p \in Requests, CacheSet(p) PROVE RateInv'
    BY <1>4, FlightInTime, FaultPays DEF CacheSet, RateInv
  <1>5. ASSUME NEW p \in Requests, Limit(p) PROVE RateInv'
    BY <1>5, FlightInTime, LimitPays DEF Limit, RateInv
  <1>6. CASE Revoke
    <2>1. InTime' /\ ClockOK'
      BY <1>6 DEF Revoke, RateInv, InTime, ClockOK
    <2> QED BY <1>0, <1>6, <2>1, BucketKept DEF Revoke, RateInv
  <1>7. CASE Tick
    <2>1. InTime' /\ ClockOK'
      BY <1>0, <1>7 DEF Tick, RateInv, InTime, ClockOK, TypeOK
    <2> QED BY <1>0, <1>7, <2>1, BucketKept DEF Tick, RateInv
  <1>8. CASE UNCHANGED vars
    <2>1. InTime' /\ ClockOK'
      BY <1>8 DEF vars, RateInv, InTime, ClockOK
    <2> QED BY <1>0, <1>8, <2>1, BucketKept DEF vars, RateInv
  <1> QED BY <1>1, <1>2, <1>3, <1>4, <1>5, <1>6, <1>7, <1>8 DEF Next

LEMMA PaidSuffices == TypeOK /\ RateInv => RateIsBounded
  <1> SUFFICES ASSUME TypeOK, RateInv PROVE RateIsBounded
    OBVIOUS
  <1>1. /\ time \in Nat /\ last \in Nat /\ rewound \in Nat /\ served \in Nat /\ faults \in Nat
        /\ tokens \in Nat
    BY DEF TypeOK
  <1> DEFINE a == last + rewound
             b == time + MaxSkew + rewound
             s == served * Cost
             f == Cost * faults
  <1>2. a \in Nat /\ b \in Nat /\ a <= b
    BY <1>1 DEF RateInv, LastOK
  <1>3. s \in Nat /\ f \in Nat /\ s + tokens <= Capacity + Refill * a + f
    BY <1>1 DEF RateInv, Paid
  <1>4. RateIsBounded <=> s <= Capacity + Refill * b + f
    BY DEF RateIsBounded
  <1> HIDE DEF a, b, s, f
  <1>5. Refill * a <= Refill * b
    BY <1>2, Grows
  <1> DEFINE x == Refill * a
             y == Refill * b
  <1>6. x \in Nat /\ y \in Nat /\ x <= y /\ s + tokens <= Capacity + x + f
    BY <1>2, <1>3, <1>5
  <1>7. RateIsBounded <=> s <= Capacity + y + f
    BY <1>4
  <1> HIDE DEF x, y
  <1> QED BY <1>1, <1>3, <1>6, <1>7

\* What the requests let through cost is covered by the bucket, by the time
\* that passed, by the time rewound and by the failed calls, for every
\* number of replicas, skew and order of the scripts.
THEOREM RateIsPaid == Spec => []RateIsBounded
  <1>1. Init => RateInv
    <2> SUFFICES ASSUME Init PROVE RateInv
      OBVIOUS
    <2>1. InTime /\ ClockOK /\ LastOK /\ BucketAge
      BY DEF Init, InTime, ClockOK, LastOK, BucketAge
    <2>2. Paid
      BY DEF Init, Paid
    <2> QED BY <2>1, <2>2 DEF RateInv
  <1>2. Spec => []TypeOK
    BY GateTypes
  <1>3. Spec => [](TypeOK /\ RateInv)
    BY <1>1, <1>2, RateKept, PTL DEF Spec
  <1> QED BY <1>3, PaidSuffices, PTL
=============================================================================
