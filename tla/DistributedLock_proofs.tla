------------------------ MODULE DistributedLock_proofs ------------------------
(***************************************************************************)
(* Theorems about DistributedLock, for any number of replicas, any set of  *)
(* tokens and any ttl.                                                     *)
(*                                                                         *)
(* As long as no release outlives its call, the lock keeps what Lease      *)
(* promises.  The argument: tokens are never shared, so a script that      *)
(* compares tokens touches the caller's own lease only; and whoever has    *)
(* been granted the lease either still has the key or has let it run out.  *)
(***************************************************************************)
EXTENDS DistributedLock, TLAPS

\* An instance whose lease has been granted and not yet given up.
Granted(l) ==
    \/ phase[l] \in {"leading", "renewing"}
    \/ phase[l] = "acquiring" /\ answer[l] = "yes"

TokensApart == \A l, m \in Instances : token[l] = token[m] => l = m
TokensDrawn == \A l \in Instances : token[l] \in drawn
KeyExpires == value # Nil <=> left > 0
GrantedHolds == \A l \in Instances : Granted(l) => value = token[l] \/ token[l] \in lapsed
LateAllowed == \A c \in late : c.op \in LateOps
AnswersAwaited == \A l \in Instances : phase[l] \in Calling \/ answer[l] = "none"

IInv ==
    /\ TypeOK
    /\ TokensApart
    /\ TokensDrawn
    /\ KeyExpires
    /\ GrantedHolds
    /\ LateAllowed
    /\ AnswersAwaited

-----------------------------------------------------------------------------
(* What a command does to the key. *)

LEMMA TtlIsTime == Ttl \in Nat /\ Ttl > 0 /\ Microseconds(Ttl) \in Nat /\ Microseconds(Ttl) > 0
BY LockAssumption DEF Microseconds

LEMMA OpTypes ==
    /\ Calling = {"acquiring", "renewing", "releasing"}
    /\ OpOf["acquiring"] = "acquire"
    /\ OpOf["renewing"] = "renew"
    /\ OpOf["releasing"] = "release"
BY DEF Calling, OpOf

\* A command of token t leaves the key well formed, and every other token
\* that holds the key or has let it run out does so still.
LEMMA PerformIsOwn ==
    ASSUME TypeOK, KeyExpires, NEW t \in Tokens, NEW reply \in {"yes", "no"},
           NEW op \in {"acquire", "renew", "release"}, Perform(op, t, reply)
    PROVE  /\ value' \in Tokens \cup {Nil} /\ left' \in Nat /\ lapsed' \subseteq Tokens
           /\ KeyExpires'
           /\ \A u \in Tokens : u # t /\ (value = u \/ u \in lapsed) => value' = u \/ u \in lapsed'
           /\ op # "release" /\ (value = t \/ t \in lapsed) => value' = t \/ t \in lapsed'
           /\ op = "acquire" /\ reply = "yes" => value' = t
<1> USE TtlIsTime, LockAssumption DEF TypeOK, KeyExpires
<1>1. CASE op = "acquire" /\ SetNX(t, reply)
    BY <1>1 DEF SetNX, redisVars
<1>2. CASE op = "renew" /\ RenewScript(t, reply)
    BY <1>2 DEF RenewScript, redisVars
<1>3. CASE op = "release" /\ ReleaseScript(t, reply)
    BY <1>3 DEF ReleaseScript, redisVars
<1> QED
    BY <1>1, <1>2, <1>3 DEF Perform

-----------------------------------------------------------------------------
(* The inductive invariant. *)

LEMMA InitInv == Init => IInv
<1> SUFFICES ASSUME Init PROVE IInv
    OBVIOUS
<1> USE LockAssumption DEF Init
<1>1. TypeOK
    BY DEF TypeOK, Phases, Calling, OpOf
<1>2. TokensApart
    BY DEF TokensApart
<1>3. TokensDrawn
    BY DEF TokensDrawn
<1>4. KeyExpires /\ LateAllowed
    BY DEF KeyExpires, LateAllowed
<1>5. AnswersAwaited
    BY DEF AnswersAwaited
<1>6. GrantedHolds
    BY DEF GrantedHolds, Granted
<1> QED
    BY <1>1, <1>2, <1>3, <1>4, <1>5, <1>6 DEF IInv

\* An instance that changes only its own phase and answer keeps the invariant
\* if it is granted nothing by it.
LEMMA OwnStep ==
    ASSUME IInv, NEW l \in Instances,
           NEW p \in Phases, NEW a \in {"none", "yes", "no"},
           phase' = [phase EXCEPT ![l] = p],
           answer' = [answer EXCEPT ![l] = a],
           Granted(l)' => Granted(l), p \in Calling \/ a = "none",
           UNCHANGED <<token, drawn, redisVars>>,
           late' \subseteq Command, \A c \in late' : c.op \in LateOps
    PROVE  IInv'
<1>1. TypeOK'
    BY DEF IInv, TypeOK, redisVars
<1>2. TokensApart' /\ TokensDrawn' /\ KeyExpires' /\ LateAllowed'
    BY DEF IInv, TokensApart, TokensDrawn, KeyExpires, LateAllowed, redisVars
<1>3. \A m \in Instances : Granted(m)' => Granted(m)
    BY DEF IInv, TypeOK, Granted
<1>4. GrantedHolds'
    BY <1>3 DEF IInv, GrantedHolds, redisVars
<1>5. AnswersAwaited'
    BY DEF IInv, TypeOK, AnswersAwaited
<1> QED
    BY <1>1, <1>2, <1>4, <1>5 DEF IInv

LEMMA UnansweredIsTyped ==
    ASSUME IInv, NEW l \in Instances, phase[l] \in Calling, Unanswered(l)
    PROVE  late' \subseteq Command /\ \A c \in late' : c.op \in LateOps
<1> DEFINE c == [op |-> OpOf[phase[l]], token |-> token[l]]
<1>1. c \in Command
    BY OpTypes DEF IInv, TypeOK, Command
<1>2. late' = late \/ (c.op \in LateOps /\ late' = late \cup {c})
    BY DEF Unanswered
<1> QED
    BY <1>1, <1>2 DEF IInv, TypeOK, LateAllowed

LEMMA TickInv == IInv /\ Tick => IInv'
<1> SUFFICES ASSUME IInv, Tick PROVE IInv'
    OBVIOUS
<1> USE DEF Tick, clientVars
<1>1. TypeOK' /\ KeyExpires'
    BY DEF IInv, TypeOK, KeyExpires
<1>2. TokensApart' /\ TokensDrawn' /\ LateAllowed' /\ AnswersAwaited'
    BY DEF IInv, TokensApart, TokensDrawn, LateAllowed, AnswersAwaited
<1>3. GrantedHolds'
    BY DEF IInv, GrantedHolds, Granted
<1> QED
    BY <1>1, <1>2, <1>3 DEF IInv

LEMMA CallInv == ASSUME NEW l \in Instances
                 PROVE  IInv /\ (TryAcquire(l) \/ Renew(l) \/ Release(l)) => IInv'
<1> SUFFICES ASSUME IInv, TryAcquire(l) \/ Renew(l) \/ Release(l) PROVE IInv'
    OBVIOUS
<1> USE OpTypes DEF Phases
<1>0. late \subseteq Command /\ (\A c \in late : c.op \in LateOps)
      /\ answer \in [Instances -> {"none", "yes", "no"}] /\ phase \in [Instances -> Phases]
    BY DEF IInv, TypeOK, LateAllowed
<1>1. PICK p \in Phases :
        /\ p # "acquiring" \/ answer[l] = "none"
        /\ p \in Calling /\ (p # "acquiring" => phase[l] = "leading")
        /\ phase' = [phase EXCEPT ![l] = p]
        /\ UNCHANGED <<token, drawn, answer, redisVars, late>>
    <2>1. phase[l] = "idle" => answer[l] = "none"
        BY DEF IInv, AnswersAwaited
    <2> QED
        BY <2>1 DEF TryAcquire, Renew, Release, Call
<1>2. Granted(l)' => Granted(l)
    BY <1>0, <1>1 DEF Granted
<1>3. answer' = [answer EXCEPT ![l] = answer[l]] /\ answer[l] \in {"none", "yes", "no"}
    BY <1>0, <1>1
<1>4. UNCHANGED <<token, drawn, redisVars>> /\ late' \subseteq Command /\ (\A c \in late' : c.op \in LateOps)
    BY <1>0, <1>1
<1> QED
    BY <1>1, <1>2, <1>3, <1>4, OwnStep

LEMMA ExecuteInv == ASSUME NEW l \in Instances PROVE IInv /\ Execute(l) => IInv'
<1> SUFFICES ASSUME IInv, Execute(l) PROVE IInv'
    OBVIOUS
<1> USE OpTypes
<1>1. PICK reply \in {"yes", "no"} :
        /\ Perform(OpOf[phase[l]], token[l], reply)
        /\ answer' = [answer EXCEPT ![l] = reply]
    BY DEF Execute
<1>2. phase[l] \in Calling /\ UNCHANGED <<token, drawn, phase, late>>
    BY DEF Execute, Awaited
<1>3. OpOf[phase[l]] \in {"acquire", "renew", "release"} /\ token[l] \in Tokens
    BY <1>2 DEF IInv, TypeOK
<1>4. /\ value' \in Tokens \cup {Nil} /\ left' \in Nat /\ lapsed' \subseteq Tokens
      /\ KeyExpires'
      /\ \A u \in Tokens : u # token[l] /\ (value = u \/ u \in lapsed) => value' = u \/ u \in lapsed'
      /\ OpOf[phase[l]] # "release" /\ (value = token[l] \/ token[l] \in lapsed)
            => value' = token[l] \/ token[l] \in lapsed'
      /\ OpOf[phase[l]] = "acquire" /\ reply = "yes" => value' = token[l]
    BY <1>1, <1>3, PerformIsOwn DEF IInv
<1>5. TypeOK'
    BY <1>1, <1>2, <1>4 DEF IInv, TypeOK
<1>6. TokensApart' /\ TokensDrawn' /\ LateAllowed' /\ AnswersAwaited'
    BY <1>1, <1>2 DEF IInv, TypeOK, TokensApart, TokensDrawn, LateAllowed, AnswersAwaited
<1>7. GrantedHolds'
    <2> SUFFICES ASSUME NEW m \in Instances, Granted(m)'
                 PROVE  value' = token[m] \/ token[m] \in lapsed'
        BY <1>2 DEF GrantedHolds
    <2>1. CASE m # l
        <3>1. Granted(m)
            BY <2>1, <1>1, <1>2 DEF Granted, IInv, TypeOK
        <3>2. token[m] # token[l] /\ token[m] \in Tokens
            BY <2>1 DEF IInv, TokensApart, TypeOK
        <3> QED
            BY <3>1, <3>2, <1>4 DEF IInv, GrantedHolds
    <2>2. CASE m = l /\ phase[l] = "renewing"
        <3>1. value = token[l] \/ token[l] \in lapsed
            BY <2>2 DEF IInv, GrantedHolds, Granted
        <3> QED
            BY <2>2, <3>1, <1>4
    <2>3. CASE m = l /\ phase[l] # "renewing"
        <3>1. phase[l] = "acquiring" /\ answer'[l] = "yes"
            BY <2>3, <1>2 DEF Granted
        <3>2. reply = "yes"
            BY <3>1, <1>1 DEF IInv, TypeOK
        <3> QED
            BY <2>3, <3>1, <3>2, <1>4
    <2> QED
        BY <2>1, <2>2, <2>3
<1> QED
    BY <1>4, <1>5, <1>6, <1>7 DEF IInv

LEMMA AnsweredInv == ASSUME NEW l \in Instances PROVE IInv /\ Answered(l) => IInv'
<1> SUFFICES ASSUME IInv, Answered(l) PROVE IInv'
    OBVIOUS
<1> USE OpTypes
<1>1. phase[l] \in Calling /\ answer[l] \in {"none", "yes", "no"}
    BY DEF Answered, IInv, TypeOK
<1>2. PICK p \in Phases : p = After(l, answer[l])
    BY <1>1 DEF After, Phases
<1>3. phase' = [phase EXCEPT ![l] = p] /\ answer' = [answer EXCEPT ![l] = "none"]
      /\ UNCHANGED <<token, drawn, redisVars, late>>
    BY <1>2 DEF Answered
<1>4. Granted(l)' => Granted(l)
    BY <1>1, <1>2, <1>3 DEF Granted, After, IInv, TypeOK
<1>5. UNCHANGED <<token, drawn, redisVars>> /\ late' \subseteq Command /\ (\A c \in late' : c.op \in LateOps)
    BY <1>3 DEF IInv, TypeOK, LateAllowed
<1> QED
    BY <1>3, <1>4, <1>5, OwnStep

LEMMA FailInv == ASSUME NEW l \in Instances PROVE IInv /\ Fail(l) => IInv'
<1> SUFFICES ASSUME IInv, Fail(l) PROVE IInv'
    OBVIOUS
<1> USE OpTypes
<1>1. phase[l] \in Calling /\ phase \in [Instances -> Phases]
    BY DEF Fail, IInv, TypeOK
<1>2. PICK p \in Phases : p \in {After(l, "error"), phase[l]} /\ phase' = [phase EXCEPT ![l] = p]
    <2>1. After(l, "error") \in Phases /\ phase[l] \in Phases
        BY <1>1 DEF After, Phases
    <2>2. phase' = [phase EXCEPT ![l] = After(l, "error")] \/ phase' = [phase EXCEPT ![l] = phase[l]]
        BY <1>1 DEF Fail
    <2> QED
        BY <2>1, <2>2
<1>3. answer' = [answer EXCEPT ![l] = "none"] /\ UNCHANGED <<token, drawn, redisVars>>
    BY DEF Fail
<1>4. Granted(l)' => Granted(l)
    BY <1>1, <1>2, <1>3 DEF Granted, After, IInv, TypeOK
<1>5. late' \subseteq Command /\ (\A c \in late' : c.op \in LateOps)
    BY <1>1, UnansweredIsTyped DEF Fail
<1> QED
    BY <1>2, <1>3, <1>4, <1>5, OwnStep

LEMMA ExecuteLateInv == ASSUME NEW c \in Command, "release" \notin LateOps
                        PROVE  IInv /\ ExecuteLate(c) => IInv'
<1> SUFFICES ASSUME IInv, ExecuteLate(c) PROVE IInv'
    OBVIOUS
<1>1. PICK reply \in {"yes", "no"} : Perform(c.op, c.token, reply)
    BY DEF ExecuteLate
<1>2. late' \subseteq late /\ UNCHANGED <<token, drawn, phase, answer>>
    BY DEF ExecuteLate, clientVars
<1>3. c.op \in {"acquire", "renew", "release"} /\ c.token \in Tokens /\ c.op # "release"
    BY DEF Command, ExecuteLate, IInv, LateAllowed
<1>4. /\ value' \in Tokens \cup {Nil} /\ left' \in Nat /\ lapsed' \subseteq Tokens
      /\ KeyExpires'
      /\ \A u \in Tokens : u # c.token /\ (value = u \/ u \in lapsed) => value' = u \/ u \in lapsed'
      /\ value = c.token \/ c.token \in lapsed => value' = c.token \/ c.token \in lapsed'
    BY <1>1, <1>3, PerformIsOwn DEF IInv
<1>5. TypeOK'
    BY <1>2, <1>4 DEF IInv, TypeOK
<1>6. TokensApart' /\ TokensDrawn' /\ LateAllowed' /\ AnswersAwaited'
    BY <1>2 DEF IInv, TokensApart, TokensDrawn, LateAllowed, AnswersAwaited
<1>7. GrantedHolds'
    BY <1>2, <1>4 DEF IInv, TypeOK, GrantedHolds, Granted
<1> QED
    BY <1>4, <1>5, <1>6, <1>7 DEF IInv

LEMMA RestartInv == ASSUME NEW l \in Instances PROVE IInv /\ Restart(l) => IInv'
<1> SUFFICES ASSUME IInv, Restart(l) PROVE IInv'
    OBVIOUS
<1>1. PICK t \in Tokens \ drawn : token' = [token EXCEPT ![l] = t] /\ drawn' = drawn \cup {t}
    BY DEF Restart
<1>2. /\ phase' = [phase EXCEPT ![l] = "idle"] /\ answer' = [answer EXCEPT ![l] = "none"]
      /\ UNCHANGED <<value, left, lapsed>>
    BY DEF Restart, redisVars
<1>3. late' \subseteq Command /\ (\A c \in late' : c.op \in LateOps)
    BY UnansweredIsTyped DEF Restart, IInv, TypeOK, LateAllowed
<1>4. TypeOK'
    BY <1>1, <1>2, <1>3 DEF IInv, TypeOK, Phases
<1>5. TokensApart' /\ TokensDrawn'
    BY <1>1 DEF IInv, TypeOK, TokensApart, TokensDrawn
<1>6. KeyExpires' /\ LateAllowed' /\ AnswersAwaited'
    BY <1>2, <1>3 DEF IInv, TypeOK, KeyExpires, LateAllowed, AnswersAwaited
<1>7. GrantedHolds'
    <2> SUFFICES ASSUME NEW m \in Instances, Granted(m)'
                 PROVE  value' = token'[m] \/ token'[m] \in lapsed'
        BY DEF GrantedHolds
    <2>1. m # l
        BY <1>2 DEF Granted, IInv, TypeOK
    <2>2. Granted(m) /\ token'[m] = token[m]
        BY <2>1, <1>1, <1>2 DEF Granted, IInv, TypeOK
    <2> QED
        BY <2>2, <1>2 DEF IInv, GrantedHolds
<1> QED
    BY <1>4, <1>5, <1>6, <1>7 DEF IInv

LEMMA StutterInv == IInv /\ UNCHANGED vars => IInv'
<1> SUFFICES ASSUME IInv, UNCHANGED vars PROVE IInv'
    OBVIOUS
<1> USE DEF vars, clientVars, redisVars
<1>1. TypeOK' /\ TokensApart' /\ TokensDrawn' /\ KeyExpires'
    BY DEF IInv, TypeOK, TokensApart, TokensDrawn, KeyExpires
<1>2. LateAllowed' /\ AnswersAwaited' /\ GrantedHolds'
    BY DEF IInv, LateAllowed, AnswersAwaited, GrantedHolds, Granted
<1> QED
    BY <1>1, <1>2 DEF IInv

LEMMA NextInv == ASSUME "release" \notin LateOps PROVE IInv /\ [Next]_vars => IInv'
<1> SUFFICES ASSUME IInv, [Next]_vars PROVE IInv'
    OBVIOUS
<1>1. CASE Tick
    BY <1>1, TickInv
<1>2. ASSUME NEW l \in Instances, TryAcquire(l) \/ Renew(l) \/ Release(l) PROVE IInv'
    BY <1>2, CallInv
<1>3. ASSUME NEW l \in Instances, Execute(l) PROVE IInv'
    BY <1>3, ExecuteInv
<1>4. ASSUME NEW l \in Instances, Answered(l) PROVE IInv'
    BY <1>4, AnsweredInv
<1>5. ASSUME NEW l \in Instances, Fail(l) PROVE IInv'
    BY <1>5, FailInv
<1>6. ASSUME NEW l \in Instances, Restart(l) PROVE IInv'
    BY <1>6, RestartInv
<1>7. ASSUME NEW c \in Command, ExecuteLate(c) PROVE IInv'
    BY <1>7, ExecuteLateInv
<1>8. CASE UNCHANGED vars
    BY <1>8, StutterInv
<1> QED
    BY <1>1, <1>2, <1>3, <1>4, <1>5, <1>6, <1>7, <1>8 DEF Next

\* As long as no release outlives its call, a replica that works under the
\* lock and has not let its lease run out has the key: releaseScript and
\* renewScript never end the lease of another replica.
THEOREM LeaderKeepsTheKey == ASSUME "release" \notin LateOps PROVE Spec => []LeaderHolds
<1>1. Init => IInv
    BY InitInv
<1>2. IInv /\ [Next]_vars => IInv'
    BY NextInv
<1>3. IInv => LeaderHolds
    BY DEF IInv, GrantedHolds, Granted, LeaderHolds, Promise!LeaderHolds, Working
<1> QED
    BY <1>1, <1>2, <1>3, PTL DEF Spec

-----------------------------------------------------------------------------
(* Refinement: every step of the lock is a step of the lease, or none. *)

LEMMA OneChanges ==
    ASSUME IInv, NEW l \in Instances, NEW p \in Phases,
           phase' = [phase EXCEPT ![l] = p], UNCHANGED token
    PROVE  /\ p \in {"leading", "renewing"} => Working' = Working \cup {token[l]}
           /\ p \notin {"leading", "renewing"} => Working' = Working \ {token[l]}
           /\ (p \in {"leading", "renewing"} <=> phase[l] \in {"leading", "renewing"}) => UNCHANGED Working
<1>1. p \in {"leading", "renewing"} => Working' = Working \cup {token[l]}
    BY DEF Working, IInv, TypeOK
<1>2. p \notin {"leading", "renewing"} => Working' = Working \ {token[l]}
    BY DEF Working, IInv, TypeOK, TokensApart
<1>3. token[l] \in Working <=> phase[l] \in {"leading", "renewing"}
    BY DEF Working, IInv, TokensApart
<1> QED
    BY <1>1, <1>2, <1>3

LEMMA PerformIsLease ==
    ASSUME TypeOK, KeyExpires, NEW t \in Tokens, NEW reply \in {"yes", "no"},
           NEW op \in {"acquire", "renew", "release"}, Perform(op, t, reply),
           op = "release" => t \notin Working, UNCHANGED Working
    PROVE  Promise!Grant(t) \/ Promise!End(t) \/ UNCHANGED <<value, Working, lapsed>>
<1>1. CASE op = "acquire" /\ SetNX(t, reply)
    BY <1>1 DEF SetNX, redisVars, Promise!Grant
<1>2. CASE op = "renew" /\ RenewScript(t, reply)
    BY <1>2 DEF RenewScript, redisVars
<1>3. CASE op = "release" /\ ReleaseScript(t, reply)
    BY <1>3 DEF ReleaseScript, redisVars, Promise!End
<1> QED
    BY <1>1, <1>2, <1>3 DEF Perform

LEMMA InitRefines == Init => Promise!Init
BY DEF Init, Promise!Init, Working

LEMMA StepRefines ==
    ASSUME "release" \notin LateOps
    PROVE  IInv /\ [Next]_vars => [Promise!Next]_<<value, Working, lapsed>>
<1> SUFFICES ASSUME IInv, [Next]_vars
             PROVE  Promise!Next \/ UNCHANGED <<value, Working, lapsed>>
    OBVIOUS
<1> USE OpTypes
<1>1. CASE Tick
    <2>1. UNCHANGED Working
        BY <1>1 DEF Tick, clientVars, Working
    <2>2. CASE left = 1
        <3>1. value \in Tokens
            BY <2>2 DEF IInv, TypeOK, KeyExpires
        <3>2. Promise!Lapse(value)
            BY <1>1, <2>1, <2>2 DEF Tick, Promise!Lapse
        <3> QED
            BY <3>1, <3>2 DEF Promise!Next
    <2>3. CASE left # 1
        BY <1>1, <2>1, <2>3 DEF Tick
    <2> QED
        BY <2>2, <2>3
<1>2. ASSUME NEW l \in Instances, TryAcquire(l) \/ Renew(l)
      PROVE  UNCHANGED <<value, Working, lapsed>>
    <2>1. PICK p \in Phases :
            /\ phase' = [phase EXCEPT ![l] = p]
            /\ p \in {"leading", "renewing"} <=> phase[l] \in {"leading", "renewing"}
            /\ UNCHANGED <<token, redisVars>>
        BY <1>2 DEF TryAcquire, Renew, Call, Phases
    <2> QED
        BY <2>1, OneChanges DEF redisVars
<1>3. ASSUME NEW l \in Instances, Release(l)
      PROVE  Promise!Next
    <2>1. "releasing" \in Phases /\ phase' = [phase EXCEPT ![l] = "releasing"] /\ UNCHANGED <<token, redisVars>>
        BY <1>3 DEF Release, Call, Phases
    <2>2. Working' = Working \ {token[l]}
        BY <2>1, OneChanges
    <2>3. Promise!Resign(token[l]) /\ token[l] \in Tokens
        BY <2>1, <2>2 DEF Promise!Resign, redisVars, IInv, TypeOK
    <2> QED
        BY <2>3 DEF Promise!Next
<1>4. ASSUME NEW l \in Instances, Execute(l)
      PROVE  Promise!Next \/ UNCHANGED <<value, Working, lapsed>>
    <2>1. PICK reply \in {"yes", "no"} : Perform(OpOf[phase[l]], token[l], reply)
        BY <1>4 DEF Execute
    <2>2. phase[l] \in Calling /\ UNCHANGED <<token, phase>>
        BY <1>4 DEF Execute, Awaited
    <2>3. UNCHANGED Working
        BY <2>2 DEF Working
    <2>4. OpOf[phase[l]] \in {"acquire", "renew", "release"} /\ token[l] \in Tokens
        BY <2>2 DEF IInv, TypeOK
    <2>5. OpOf[phase[l]] = "release" => token[l] \notin Working
        BY <2>2 DEF Working, IInv, TokensApart
    <2>6. Promise!Grant(token[l]) \/ Promise!End(token[l]) \/ UNCHANGED <<value, Working, lapsed>>
        BY <2>1, <2>3, <2>4, <2>5, PerformIsLease DEF IInv
    <2> QED
        BY <2>4, <2>6 DEF Promise!Next
<1>5. ASSUME NEW l \in Instances, Answered(l)
      PROVE  Promise!Next \/ UNCHANGED <<value, Working, lapsed>>
    <2>1. phase[l] \in Calling /\ phase' = [phase EXCEPT ![l] = After(l, answer[l])] /\ UNCHANGED <<token, value, lapsed>>
        BY <1>5 DEF Answered, redisVars
    <2>2. After(l, answer[l]) \in Phases
        BY <2>1 DEF After, Phases
    <2>3. CASE phase[l] = "acquiring" /\ answer[l] = "yes"
        <3>1. Working' = Working \cup {token[l]}
            BY <2>1, <2>2, <2>3, OneChanges DEF After
        <3>2. value = token[l] \/ token[l] \in lapsed
            BY <2>3 DEF IInv, GrantedHolds, Granted
        <3>3. Promise!Lead(token[l]) /\ token[l] \in Tokens
            BY <2>1, <3>1, <3>2 DEF Promise!Lead, IInv, TypeOK
        <3> QED
            BY <3>3 DEF Promise!Next
    <2>4. CASE ~(phase[l] = "acquiring" /\ answer[l] = "yes")
        <3>1. After(l, answer[l]) \in {"leading", "renewing"} <=> phase[l] \in {"leading", "renewing"}
            BY <2>1, <2>4 DEF After
        <3> QED
            BY <2>1, <2>2, <3>1, OneChanges
    <2> QED
        BY <2>3, <2>4
<1>6. ASSUME NEW l \in Instances, Fail(l)
      PROVE  UNCHANGED <<value, Working, lapsed>>
    <2>1. phase[l] \in Calling /\ UNCHANGED <<token, value, lapsed>>
        BY <1>6 DEF Fail, redisVars
    <2>2. CASE UNCHANGED phase
        BY <2>1, <2>2 DEF Working
    <2>3. CASE phase' = [phase EXCEPT ![l] = After(l, "error")]
        <3>1. After(l, "error") \in Phases
            BY <2>1 DEF After, Phases
        <3>2. After(l, "error") \in {"leading", "renewing"} <=> phase[l] \in {"leading", "renewing"}
            BY <2>1 DEF After
        <3> QED
            BY <2>1, <2>3, <3>1, <3>2, OneChanges
    <2> QED
        BY <1>6, <2>2, <2>3 DEF Fail
<1>7. ASSUME NEW l \in Instances, Restart(l)
      PROVE  Promise!Next
    <2>1. PICK t \in Tokens \ drawn : token' = [token EXCEPT ![l] = t]
        BY <1>7 DEF Restart
    <2>2. phase' = [phase EXCEPT ![l] = "idle"] /\ UNCHANGED <<value, lapsed>>
        BY <1>7 DEF Restart, redisVars
    <2>3. Working' = Working \ {token[l]}
        BY <2>1, <2>2 DEF Working, IInv, TypeOK, TokensApart
    <2>4. Promise!Resign(token[l]) /\ token[l] \in Tokens
        BY <2>2, <2>3 DEF Promise!Resign, IInv, TypeOK
    <2> QED
        BY <2>4 DEF Promise!Next
<1>8. ASSUME NEW c \in Command, ExecuteLate(c)
      PROVE  Promise!Next \/ UNCHANGED <<value, Working, lapsed>>
    <2>1. PICK reply \in {"yes", "no"} : Perform(c.op, c.token, reply)
        BY <1>8 DEF ExecuteLate
    <2>2. UNCHANGED Working
        BY <1>8 DEF ExecuteLate, clientVars, Working
    <2>3. c.op \in {"acquire", "renew", "release"} /\ c.token \in Tokens /\ c.op # "release"
        BY <1>8 DEF Command, ExecuteLate, IInv, LateAllowed
    <2>4. Promise!Grant(c.token) \/ Promise!End(c.token) \/ UNCHANGED <<value, Working, lapsed>>
        BY <2>1, <2>2, <2>3, PerformIsLease DEF IInv
    <2> QED
        BY <2>3, <2>4 DEF Promise!Next
<1>9. CASE UNCHANGED vars
    BY <1>9 DEF vars, clientVars, redisVars, Working
<1> QED
    BY <1>1, <1>2, <1>3, <1>4, <1>5, <1>6, <1>7, <1>8, <1>9 DEF Next

\* As long as no release outlives its call, the lock implements the lease:
\* lost answers, repeated commands, late acquires and renewals, restarts and
\* the passing of time are steps of the lease or change nothing it can see.
THEOREM LockImplementsLease == ASSUME "release" \notin LateOps PROVE Spec => LeaseSpec
<1>1. Init => IInv /\ Promise!Init
    BY InitInv, InitRefines
<1>2. IInv /\ [Next]_vars => IInv'
    BY NextInv
<1>3. IInv /\ [Next]_vars => [Promise!Next]_<<value, Working, lapsed>>
    BY StepRefines
<1> QED
    BY <1>1, <1>2, <1>3, PTL DEF Spec, LeaseSpec, Promise!Spec, Promise!leaseVars
=============================================================================
