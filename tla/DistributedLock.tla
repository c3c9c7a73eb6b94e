--------------------------- MODULE DistributedLock ---------------------------
(***************************************************************************)
(* internal/lock: a lease on one Redis key, taken with SET NX, renewed and *)
(* released by scripts that compare the key's value with the caller's      *)
(* token.  An instance is the lock object that a replica makes at start-up *)
(* with lock.New and uses for as long as it lives, as the reaper does: try *)
(* to acquire, work, release.                                              *)
(*                                                                         *)
(* The go-redis client gives a call up, or sends it again, when no answer  *)
(* comes.  The command may then have been carried out or not, or (LateOps) *)
(* be carried out later still.                                             *)
(***************************************************************************)
EXTENDS Naturals

CONSTANTS
    Instances,    \* one per replica
    Tokens,       \* uuids lock.New can draw
    Nil,          \* no value: the key does not exist
    Ttl,          \* the lock's ttl, in milliseconds
    Scale,        \* microseconds in a millisecond: 1000; runs count with fewer
    LateOps,      \* operations a command of which can outlive its call
    Renews,       \* whether a leader calls Renew during its work
    FirstToken    \* instance -> the token of the replica's first life

ASSUME LockAssumption ==
    /\ Nil \notin Tokens
    /\ Ttl \in Nat \ {0} /\ Scale \in Nat \ {0}
    /\ LateOps \subseteq {"acquire", "renew", "release"}
    /\ Renews \in BOOLEAN
    /\ FirstToken \in [Instances -> Tokens]
    /\ \A l, m \in Instances : FirstToken[l] = FirstToken[m] => l = m

VARIABLES
    value,        \* value of the key
    left,         \* milliseconds the key has to live
    token,        \* instance -> its token
    drawn,        \* tokens drawn so far
    phase,        \* instance -> what it is doing
    answer,       \* instance -> reply to its call, "none" before Redis has run it
    late,         \* commands whose call is over and that Redis has not run
    lapsed        \* history: tokens whose last lease ran out

clientVars == <<token, drawn, phase, answer>>
redisVars == <<value, left, lapsed>>
vars == <<clientVars, redisVars, late>>

OpOf == [acquiring |-> "acquire", renewing |-> "renew", releasing |-> "release"]
Calling == DOMAIN OpOf
Phases == Calling \cup {"idle", "leading"}
Command == [op : {"acquire", "renew", "release"}, token : Tokens]

TypeOK ==
    /\ value \in Tokens \cup {Nil}
    /\ left \in Nat
    /\ token \in [Instances -> Tokens]
    /\ drawn \subseteq Tokens
    /\ phase \in [Instances -> Phases]
    /\ answer \in [Instances -> {"none", "yes", "no"}]
    /\ late \subseteq Command
    /\ lapsed \subseteq Tokens

\* lock.New draws a fresh token, once for the life of the instance.
Init ==
    /\ value = Nil
    /\ left = 0
    /\ token = FirstToken
    /\ drawn = {FirstToken[l] : l \in Instances}
    /\ phase = [l \in Instances |-> "idle"]
    /\ answer = [l \in Instances |-> "none"]
    /\ late = {}
    /\ lapsed = {}

-----------------------------------------------------------------------------
(* Redis. *)

Microseconds(ms) == Scale * ms

\* Mutant of SetNX: the key is set without an expiration.
SetForever(t, reply) ==
    /\ IF value = Nil
       THEN reply = "yes" /\ value' = t /\ lapsed' = lapsed \ {t}
       ELSE reply = "no" /\ UNCHANGED <<value, lapsed>>
    /\ UNCHANGED left

\* Mutant of SetNX: an existing key is overwritten.
SetAlways(t, reply) ==
    /\ reply = "yes" /\ value' = t /\ left' = Ttl /\ lapsed' = lapsed \ {t}

SetNX(t, reply) ==
    IF value = Nil
    THEN reply = "yes" /\ value' = t /\ left' = Ttl /\ lapsed' = lapsed \ {t}
    ELSE reply = "no" /\ UNCHANGED redisVars

\* renewScript: PEXPIRE takes milliseconds and is given microseconds.
RenewScript(t, reply) ==
    IF value = t
    THEN reply = "yes" /\ left' = Microseconds(Ttl) /\ UNCHANGED <<value, lapsed>>
    ELSE reply = "no" /\ UNCHANGED redisVars

\* Mutant of ReleaseScript: a plain DEL.
PlainDel(t, reply) == reply = "yes" /\ value' = Nil /\ left' = 0 /\ UNCHANGED lapsed

ReleaseScript(t, reply) ==
    IF value = t
    THEN reply = "yes" /\ value' = Nil /\ left' = 0 /\ UNCHANGED lapsed
    ELSE reply = "no" /\ UNCHANGED redisVars

Perform(op, t, reply) ==
    \/ op = "acquire" /\ SetNX(t, reply)
    \/ op = "renew" /\ RenewScript(t, reply)
    \/ op = "release" /\ ReleaseScript(t, reply)

\* A millisecond passes; at the end of its time the key is gone.
Tick ==
    /\ left > 0
    /\ left' = left - 1
    /\ IF left = 1 THEN value' = Nil /\ lapsed' = lapsed \cup {value} ELSE UNCHANGED <<value, lapsed>>
    /\ UNCHANGED <<clientVars, late>>

-----------------------------------------------------------------------------
(* The instances. *)

Call(l, from, to) ==
    /\ phase[l] = from
    /\ phase' = [phase EXCEPT ![l] = to]
    /\ UNCHANGED <<token, drawn, answer, redisVars, late>>

TryAcquire(l) == Call(l, "idle", "acquiring")
Renew(l) == Renews /\ Call(l, "leading", "renewing")
Release(l) == Call(l, "leading", "releasing")

Awaited(l) == phase[l] \in Calling /\ answer[l] = "none"

\* Redis runs the command l has sent, and the answer is on its way.
Execute(l) ==
    /\ Awaited(l)
    /\ \E reply \in {"yes", "no"} :
        /\ Perform(OpOf[phase[l]], token[l], reply)
        /\ answer' = [answer EXCEPT ![l] = reply]
    /\ UNCHANGED <<token, drawn, phase, late>>

\* What l does next: an acquire that is refused or fails skips the tick; a
\* renewal that fails leaves the leader at its work; a release that fails is
\* logged.
After(l, reply) ==
    CASE phase[l] = "acquiring" -> IF reply = "yes" THEN "leading" ELSE "idle"
      [] phase[l] = "renewing"  -> "leading"
      [] phase[l] = "releasing" -> "idle"

Answered(l) ==
    /\ phase[l] \in Calling
    /\ answer[l] # "none"
    /\ phase' = [phase EXCEPT ![l] = After(l, answer[l])]
    /\ answer' = [answer EXCEPT ![l] = "none"]
    /\ UNCHANGED <<token, drawn, redisVars, late>>

\* The fate of a call without an answer: its command was lost before or its
\* answer after Redis ran it, or the command is still to come.
Unanswered(l) ==
    LET c == [op |-> OpOf[phase[l]], token |-> token[l]] IN
    late' \in {late} \cup {late \cup {c} : x \in {o \in LateOps : Awaited(l) /\ o = c.op}}

\* The call returns an error, or the client sends the command again.
Fail(l) ==
    /\ phase[l] \in Calling
    /\ Unanswered(l)
    /\ \/ phase' = [phase EXCEPT ![l] = After(l, "error")]
       \/ UNCHANGED phase
    /\ answer' = [answer EXCEPT ![l] = "none"]
    /\ UNCHANGED <<token, drawn, redisVars>>

ExecuteLate(c) ==
    /\ c \in late
    /\ late' = late \ {c}
    /\ \E reply \in {"yes", "no"} : Perform(c.op, c.token, reply)
    /\ UNCHANGED clientVars

\* The replica dies and is started again: a new instance, a new token.
Restart(l) ==
    /\ \E t \in Tokens \ drawn :
        /\ token' = [token EXCEPT ![l] = t]
        /\ drawn' = drawn \cup {t}
    /\ phase' = [phase EXCEPT ![l] = "idle"]
    /\ answer' = [answer EXCEPT ![l] = "none"]
    /\ \/ phase[l] \in Calling /\ Unanswered(l)
       \/ phase[l] \notin Calling /\ UNCHANGED late
    /\ UNCHANGED redisVars

Next ==
    \/ Tick
    \/ \E l \in Instances :
        \/ TryAcquire(l) \/ Renew(l) \/ Release(l)
        \/ Execute(l) \/ Answered(l) \/ Fail(l) \/ Restart(l)
    \/ \E c \in Command : ExecuteLate(c)

Spec == Init /\ [][Next]_vars

\* Time passes, whatever the replicas do.
FairSpec == Spec /\ WF_vars(Tick)

-----------------------------------------------------------------------------
Working == {token[l] : l \in {m \in Instances : phase[m] \in {"leading", "renewing"}}}

\* The instances implement the lease, each under the token it has drawn:
\* no other replica's doing, no lost answer and no restart ends the lease of
\* one that is at work.
Promise == INSTANCE Lease WITH
    Holders <- Tokens, Nobody <- Nil, holder <- value, leading <- Working, lapsed <- lapsed
LeaseSpec == Promise!Spec

\* A replica at work whose lease has not run out has the key.
LeaderHolds == Promise!LeaderHolds

\* The lease of a dead replica comes to an end.
Dead(t) == \A l \in Instances : token[l] # t
DeadLeaseEnds == \A t \in Tokens : value = t /\ Dead(t) ~> value # t

(* Said of Renew, and not so: the configuration RenewUnits finds it violated. *)

\* A lease is never longer than the lock's ttl.
LeaseIsBounded == left <= Ttl
=============================================================================
