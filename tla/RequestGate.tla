----------------------------- MODULE RequestGate -----------------------------
(***************************************************************************)
(* What a request passes before its handler: AuthMiddleware with the       *)
(* cached verdict on its API key, then RateLimitMiddleware with the token  *)
(* bucket script in Redis.  One key: entries and buckets of different keys *)
(* share nothing.                                                          *)
(*                                                                         *)
(* Time is a count of ticks.  Each call to Redis or the database is a step *)
(* at some time after the one before it, at most MaxDelay later (the       *)
(* clients' timeouts).  A replica's clock is ahead of Redis's by its Skew. *)
(* Tokens are in units such that a request costs Cost of them and a tick   *)
(* refills Refill.                                                         *)
(***************************************************************************)
EXTENDS Integers

CONSTANTS
    Requests,     \* requests with the key in flight at the same time
    Skew,         \* request -> how far the clock of its replica is ahead
    MaxSkew,      \* bound of Skew
    MaxDelay,     \* a call is answered, or given up, within this many ticks
    Ttl,          \* apiKeyCacheTTL
    KeyTtl,       \* EXPIRE of a bucket: 3600 seconds
    Capacity, Refill, Cost,   \* the bucket: 20, 5 a second, 1
    MaxTime,      \* bound: ticks of a behaviour
    MaxFaults,    \* bound: failed calls
    MaxHistory,   \* bound: requests served and ticks rewound before the last arrives
    Nil

\* A bucket is full again before its key expires (5 * 3600 >= 20).
ASSUME GateAssumption ==
    /\ MaxSkew \in Nat /\ MaxDelay \in Nat
    /\ Skew \in [Requests -> 0..MaxSkew]
    /\ Ttl \in Nat \ {0} /\ KeyTtl \in Nat
    /\ Capacity \in Nat /\ Refill \in Nat /\ Cost \in Nat \ {0}
    /\ KeyTtl >= MaxDelay + MaxSkew
    /\ Refill * (KeyTtl - MaxDelay - MaxSkew) >= Capacity
    /\ MaxTime \in Nat /\ MaxFaults \in Nat /\ MaxHistory \in Nat
    /\ Nil \notin Nat

VARIABLES
    time,
    revokedAt,           \* api_keys.revoked_at, or Nil
    verdict, cacheExp,   \* the entry apikey:<hash> and the time it expires
    tokens, last, exp,   \* the bucket ratelimit:<hash> and the time it expires
    pc, since,           \* request -> its next call, the time it makes it
    valid,               \* request -> what ValidateAPIKey answered
    now,                 \* request -> the clock reading it sends to the script
    served,              \* history: requests let through to their handler
    rewound,             \* history: how far last_refill has been moved back, in all
    faults

authVars == <<revokedAt, verdict, cacheExp>>
bucketVars == <<tokens, last, exp, served, rewound>>
vars == <<time, authVars, bucketVars, pc, since, valid, now, faults>>

TypeOK ==
    /\ time \in Nat
    /\ revokedAt \in Nat \cup {Nil}
    /\ verdict \in {"valid", "invalid"} /\ cacheExp \in Nat
    /\ tokens \in 0..Capacity /\ last \in Nat /\ exp \in Nat
    /\ pc \in [Requests -> {"idle", "get", "validate", "set", "limit"}]
    /\ since \in [Requests -> Nat]
    /\ valid \in [Requests -> BOOLEAN]
    /\ now \in [Requests -> Nat]
    /\ served \in Nat /\ rewound \in Nat /\ faults \in Nat

Init ==
    /\ time = 0
    /\ revokedAt = Nil
    /\ verdict = "invalid" /\ cacheExp = 0
    /\ tokens = Capacity /\ last = 0 /\ exp = 0
    /\ pc = [p \in Requests |-> "idle"]
    /\ since = [p \in Requests |-> 0]
    /\ valid = [p \in Requests |-> FALSE]
    /\ now = [p \in Requests |-> 0]
    /\ served = 0 /\ rewound = 0 /\ faults = 0

Smaller(a, b) == IF a < b THEN a ELSE b
Larger(a, b) == IF a > b THEN a ELSE b

NoFault == UNCHANGED faults
Fault == faults < MaxFaults /\ faults' = faults + 1

Goto(p, label) ==
    /\ pc' = [pc EXCEPT ![p] = label]
    /\ since' = [since EXCEPT ![p] = time]

\* The request is answered, by a handler or with an error.
Done(p) ==
    /\ pc' = [pc EXCEPT ![p] = "idle"]
    /\ since' = [since EXCEPT ![p] = 0]
    /\ now' = [now EXCEPT ![p] = 0]

\* The key was accepted: RateLimitMiddleware reads the clock and calls the
\* script.
ToLimiter(p) ==
    /\ Goto(p, "limit")
    /\ now' = [now EXCEPT ![p] = time + Skew[p]]

-----------------------------------------------------------------------------
\* A request with the key, which CreateAPIKey has stored before it was shown.
Arrive(p) ==
    /\ pc[p] = "idle" /\ served + rewound < MaxHistory
    /\ Goto(p, "get")
    /\ UNCHANGED <<time, authVars, bucketVars, valid, now, faults>>

\* Mutant of Hit: a hit makes the entry live on.
HitRenews(p) ==
    /\ time < cacheExp
    /\ cacheExp' = time + Ttl
    /\ IF verdict = "valid" THEN ToLimiter(p) ELSE Done(p)

\* A cached verdict is the answer, whatever the table says by now.
Hit(p) ==
    /\ time < cacheExp
    /\ IF verdict = "valid" THEN ToLimiter(p) ELSE Done(p)
    /\ UNCHANGED cacheExp

\* validateWithCache: Get; a miss or an error goes to the database.
CacheGet(p) ==
    /\ pc[p] = "get"
    /\ \/ Hit(p) /\ NoFault
       \/ /\ (time >= cacheExp /\ NoFault) \/ Fault
          /\ Goto(p, "validate") /\ UNCHANGED <<now, cacheExp>>
    /\ UNCHANGED <<time, revokedAt, verdict, bucketVars, valid>>

\* ValidateAPIKey; an error is answered 500.
Validate(p) ==
    /\ pc[p] = "validate"
    /\ \/ Goto(p, "set") /\ valid' = [valid EXCEPT ![p] = revokedAt = Nil] /\ NoFault
          /\ UNCHANGED now
       \/ Done(p) /\ Fault /\ UNCHANGED valid
    /\ UNCHANGED <<time, authVars, bucketVars>>

\* Both verdicts are cached; an error is ignored, the entry written or not.
CacheSet(p) ==
    LET Write == verdict' = (IF valid[p] THEN "valid" ELSE "invalid") /\ cacheExp' = time + Ttl IN
    /\ pc[p] = "set"
    /\ \/ Write /\ NoFault
       \/ Fault /\ (Write \/ UNCHANGED <<verdict, cacheExp>>)
    /\ IF valid[p] THEN ToLimiter(p) ELSE Done(p)
    /\ valid' = [valid EXCEPT ![p] = FALSE]
    /\ UNCHANGED <<time, revokedAt, bucketVars>>

-----------------------------------------------------------------------------
\* Mutant of Refilled: the refill is not cut off at the capacity.
RefilledUncapped(n) ==
    IF time >= exp THEN Capacity ELSE tokens + Larger(0, n - last) * Refill

\* The bucket a script with clock reading n finds: what is left of the old
\* one and the refill since, or a full one if the key has expired.
Refilled(n) ==
    IF time >= exp THEN Capacity
    ELSE Smaller(Capacity, tokens + Larger(0, n - last) * Refill)

\* Mutant of Script: last_refill is only written for a request that passes.
ScriptKeepsTime(n, allowed) ==
    /\ allowed = (Refilled(n) >= Cost)
    /\ tokens' = IF allowed THEN Refilled(n) - Cost ELSE Refilled(n)
    /\ last' = IF allowed THEN n ELSE last
    /\ rewound' = rewound + Larger(0, last - last')
    /\ exp' = time + KeyTtl

\* tokenBucketScript, atomic in Redis: last_refill is the reading it was
\* given, even if an earlier script brought a later one.
Script(n, allowed) ==
    /\ allowed = (Refilled(n) >= Cost)
    /\ tokens' = IF allowed THEN Refilled(n) - Cost ELSE Refilled(n)
    /\ last' = n
    /\ rewound' = rewound + Larger(0, last - n)
    /\ exp' = time + KeyTtl

\* The request passes or is answered 429; an error, with the script run or
\* not, lets it pass.
Limit(p) ==
    /\ pc[p] = "limit"
    /\ \/ \E allowed \in BOOLEAN :
            /\ Script(now[p], allowed)
            /\ \/ NoFault /\ served' = IF allowed THEN served + 1 ELSE served
               \/ Fault /\ served' = served + 1
       \/ Fault /\ served' = served + 1 /\ UNCHANGED <<tokens, last, exp, rewound>>
    /\ Done(p)
    /\ UNCHANGED <<time, authVars, valid>>

-----------------------------------------------------------------------------
\* UPDATE api_keys SET revoked_at = now(), by hand (docs/adr/0004).
Revoke ==
    /\ revokedAt = Nil
    /\ revokedAt' = time
    /\ UNCHANGED <<time, verdict, cacheExp, bucketVars, pc, since, valid, now, faults>>

\* Time passes, but no call outlasts its timeout.
Tick ==
    /\ time < MaxTime
    /\ \A p \in Requests : pc[p] # "idle" => time < since[p] + MaxDelay
    /\ time' = time + 1
    /\ UNCHANGED <<authVars, bucketVars, pc, since, valid, now, faults>>

Next ==
    \/ \E p \in Requests : Arrive(p) \/ CacheGet(p) \/ Validate(p) \/ CacheSet(p) \/ Limit(p)
    \/ Revoke
    \/ Tick

Spec == Init /\ [][Next]_vars

-----------------------------------------------------------------------------
\* A revoked key is accepted no longer than the cache's TTL after its
\* revocation, and the one call by which the entry may be late: a verdict
\* read before the revocation can be stored after it.
StaleIsBounded ==
    \A p \in Requests :
        pc[p] = "limit" /\ revokedAt # Nil => since[p] < revokedAt + Ttl + MaxDelay

\* Requests let through cost no more than a full bucket and what the time
\* since then has refilled, except that every script that ran out of order,
\* or by a clock behind, lets the time it moved last_refill back count again,
\* and that a failed call lets one request through.
RateIsBounded ==
    served * Cost <= Capacity + Refill * (time + MaxSkew + rewound) + Cost * faults

\* The bucket's promise as it is documented (docs/adr/0008: "Rate limiting is
\* correct under concurrency and shared correctly across any number of future
\* replicas").
RateAsPromised ==
    served * Cost <= Capacity + Refill * (time + MaxSkew) + Cost * faults
=============================================================================
