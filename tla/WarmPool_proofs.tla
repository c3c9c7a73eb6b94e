--------------------------- MODULE WarmPool_proofs ---------------------------
(***************************************************************************)
(* Theorems about WarmPool, for every size of the pool, any number of      *)
(* requests, faults and deaths, and with hang-ups and shutdown.            *)
(*                                                                         *)
(* The argument: only the maintainer puts ids into the channel, one that   *)
(* it has drawn fresh and with room left for it, while handlers only make  *)
(* more room; so an id moves from the maintainer's hand to the channel to  *)
(* one handler's hand and is never in two places.                          *)
(***************************************************************************)
EXTENDS WarmPool, TLAPS

\* Room for the container being made, and for those the first fill will make.
Room ==
    /\ mpc = "fill" => caller = "fill" /\ Len(warm) + unfilled <= Size
    /\ mpc \in {"create", "push"} /\ caller = "fill" => Len(warm) + unfilled < Size
    /\ mpc \in {"create", "push"} /\ caller = "topUp" => Len(warm) < Size

Distinct == \A i, j \in 1..Len(warm) : warm[i] = warm[j] => i = j

\* The id in the maintainer's hand is nowhere else.
InHand ==
    mpc = "push" => /\ making \in Placeholders
                    /\ making \notin Warm
                    /\ \A r \in Requests : held[r] # making
                    /\ state[making] # "none"

\* Every id in use has been drawn.
UsedIsDrawn ==
    /\ \A p \in Warm : state[p] # "none"
    /\ \A r \in Requests : held[r] # Nil => state[held[r]] # "none"

TakenIsHeld == \A r \in Requests : rpc[r] \in {"check", "adopt"} => held[r] # Nil

IInv ==
    /\ TypeOK
    /\ Room
    /\ HandedOutOnce
    /\ InHand
    /\ UsedIsDrawn
    /\ TakenIsHeld

-----------------------------------------------------------------------------
(* The channel as a sequence. *)

LEMMA WarmIsTyped == ASSUME warm \in Seq(Placeholders) PROVE Warm \subseteq Placeholders
BY DEF Warm

\* Sending an id that is not in the channel.
LEMMA Sent ==
    ASSUME warm \in Seq(Placeholders), Distinct, NEW p \in Placeholders, p \notin Warm,
           warm' = Append(warm, p)
    PROVE  /\ warm' \in Seq(Placeholders)
           /\ Len(warm') = Len(warm) + 1
           /\ Distinct'
           /\ Warm' = Warm \cup {p}
<1>1. warm' \in Seq(Placeholders) /\ Len(warm') = Len(warm) + 1 /\ Len(warm) \in Nat
    OBVIOUS
<1>2. \A i \in 1..Len(warm') : warm'[i] = IF i <= Len(warm) THEN warm[i] ELSE p
    OBVIOUS
<1>3. Warm' = Warm \cup {p}
    <2>1. \A i \in 1..Len(warm') : warm'[i] \in Warm \cup {p}
        BY <1>1, <1>2 DEF Warm
    <2>2. \A i \in 1..Len(warm) : i \in 1..Len(warm') /\ warm'[i] = warm[i]
        BY <1>1, <1>2
    <2>3. Len(warm') \in 1..Len(warm') /\ warm'[Len(warm')] = p
        BY <1>1, <1>2
    <2> QED
        BY <2>1, <2>2, <2>3 DEF Warm
<1>4. Distinct'
    <2>1. \A i \in 1..Len(warm) : warm[i] # p
        BY DEF Warm
    <2> QED
        BY <1>1, <1>2, <2>1 DEF Distinct
<1> QED
    BY <1>1, <1>3, <1>4

\* Receiving from a channel that is not empty.
LEMMA Received ==
    ASSUME warm \in Seq(Placeholders), Distinct, warm # <<>>, warm' = Tail(warm)
    PROVE  /\ warm' \in Seq(Placeholders)
           /\ Len(warm') = Len(warm) - 1 /\ Len(warm) > 0
           /\ Distinct'
           /\ Warm' \subseteq Warm
           /\ Head(warm) \in Warm /\ Head(warm) \notin Warm'
<1>1. /\ warm' \in Seq(Placeholders) /\ Len(warm) \in Nat
      /\ Len(warm') = Len(warm) - 1 /\ Len(warm) > 0
      /\ Head(warm) = warm[1]
    OBVIOUS
<1>2. \A i \in 1..Len(warm') : warm'[i] = warm[i + 1] /\ i + 1 \in 1..Len(warm) /\ i + 1 # 1
    BY <1>1
<1>3. Distinct'
    BY <1>1, <1>2 DEF Distinct
<1>4. Warm' \subseteq Warm
    BY <1>2 DEF Warm
<1>5. 1 \in 1..Len(warm)
    BY <1>1
<1>6. Head(warm) \in Warm
    BY <1>1, <1>5 DEF Warm
<1>7. Head(warm) \notin Warm'
    <2> SUFFICES ASSUME NEW i \in 1..Len(warm'), warm'[i] = warm[1]
                 PROVE  FALSE
        BY <1>1 DEF Warm
    <2> QED
        BY <1>2, <1>5 DEF Distinct
<1> QED
    BY <1>1, <1>3, <1>4, <1>6, <1>7

-----------------------------------------------------------------------------
(* The inductive invariant. *)

LEMMA InitInv == Init => IInv
<1> SUFFICES ASSUME Init PROVE IInv
    OBVIOUS
<1> USE PoolAssumption DEF Init
<1>1. TypeOK
    <2>1. warm \in Seq(Placeholders) /\ Len(warm) = 0
        OBVIOUS
    <2>2. rpc \in [Requests -> HandlerPoints]
        BY DEF HandlerPoints
    <2>3. faults \in 0..MaxFaults /\ deaths \in 0..MaxDeaths /\ refill \in 0..Size /\ unfilled \in 0..Size
        OBVIOUS
    <2>4. /\ held \in [Requests -> Placeholders \cup {Nil}]
          /\ mapping \in [Ids -> Native \cup {Nil}]
          /\ state \in [Ids -> {"none", "running", "dead", "removed"}]
        OBVIOUS
    <2>5. tick \in {"off", "set", "due"} /\ Len(warm) <= Size /\ making \in Placeholders \cup {Nil}
        BY <2>1
    <2>6. mpc = "fill" /\ caller = "fill" /\ cancelled \in BOOLEAN /\ gone \subseteq Requests
        OBVIOUS
    <2> HIDE DEF Init
    <2> QED
        BY <2>1, <2>2, <2>3, <2>4, <2>5, <2>6 DEF TypeOK
<1>2. Warm = {}
    BY DEF Warm
<1>3. Room /\ InHand /\ TakenIsHeld
    BY DEF Room, InHand, TakenIsHeld
<1>4. HandedOutOnce /\ UsedIsDrawn
    BY <1>2 DEF HandedOutOnce, UsedIsDrawn
<1> QED
    BY <1>1, <1>3, <1>4 DEF IInv

\* A step that leaves the channel, the hands and the containers alone.
LEMMA Aside ==
    ASSUME IInv, TypeOK', UNCHANGED <<warm, held>>,
           mpc' = "push" => mpc = "push" /\ making' = making,
           Room', TakenIsHeld',
           \A id \in Ids : state[id] # "none" => state'[id] # "none"
    PROVE  IInv'
<1>1. UNCHANGED Warm /\ Warm \subseteq Placeholders
    BY WarmIsTyped DEF Warm, IInv, TypeOK
<1>2. HandedOutOnce'
    BY <1>1 DEF IInv, HandedOutOnce
<1>3. InHand'
    BY <1>1 DEF IInv, InHand, Ids
<1>4. UsedIsDrawn'
    BY <1>1 DEF IInv, UsedIsDrawn, TypeOK, Ids
<1> QED
    BY <1>2, <1>3, <1>4 DEF IInv

LEMMA MaintainerTurns ==
    IInv /\ (Fill \/ TopUp \/ SpawnFail \/ SelectDone \/ SelectRefill \/ SelectTick) => IInv'
<1> SUFFICES ASSUME IInv, Fill \/ TopUp \/ SpawnFail \/ SelectDone \/ SelectRefill \/ SelectTick
             PROVE  IInv'
    OBVIOUS
<1>0. TypeOK /\ Room /\ TakenIsHeld /\ Len(warm) \in Nat
    BY DEF IInv, TypeOK
<1>1. UNCHANGED <<warm, requestVars, backendVars, making>> /\ mpc' # "push"
    BY <1>0 DEF Fill, TopUp, SpawnFail, SelectDone, SelectRefill, SelectTick, TypeOK, poolVars
<1>2. TypeOK'
    <2>1. CASE Fill \/ TopUp \/ SelectDone \/ SelectRefill \/ SelectTick
        BY <1>0, <2>1, PoolAssumption
        DEF TypeOK, Fill, TopUp, SelectDone, SelectRefill, SelectTick, poolVars, requestVars, backendVars, envVars
    <2>2. CASE SpawnFail
        BY <1>0, <2>2, PoolAssumption
        DEF TypeOK, SpawnFail, Fails, Fault, NoFault, poolVars, requestVars, backendVars, envVars
    <2> QED
        BY <2>1, <2>2
<1>3. Room'
    BY <1>0, <1>1, PoolAssumption
    DEF TypeOK, Room, Fill, TopUp, SpawnFail, SelectDone, SelectRefill, SelectTick
<1>4. TakenIsHeld'
    BY <1>0, <1>1 DEF TakenIsHeld, requestVars
<1> QED
    BY <1>1, <1>2, <1>3, <1>4, Aside DEF requestVars, backendVars

LEMMA MakeTyped ==
    ASSUME TypeOK, NEW id \in Ids, Make(id)
    PROVE  /\ mapping' \in [Ids -> Native \cup {Nil}]
           /\ state' \in [Ids -> {"none", "running", "dead", "removed"}]
           /\ state'[id] # "none"
           /\ \A i \in Ids : state[i] # "none" => state'[i] # "none"
BY DEF TypeOK, Make, Native, ContainerIds

LEMMA SpawnCreateInv == IInv /\ SpawnCreate => IInv'
<1> SUFFICES ASSUME IInv, SpawnCreate PROVE IInv'
    OBVIOUS
<1>1. PICK p \in Placeholders : Fresh(p) /\ Make(p) /\ making' = p
    BY DEF SpawnCreate
<1>2. /\ mpc = "create" /\ mpc' = "push"
      /\ UNCHANGED <<tick, caller, unfilled, poolVars, requestVars, envVars>>
    BY DEF SpawnCreate, Works, NoFault
<1>3. p \in Ids
    BY DEF Ids
<1>4. /\ mapping' \in [Ids -> Native \cup {Nil}]
      /\ state' \in [Ids -> {"none", "running", "dead", "removed"}]
      /\ state'[p] # "none"
      /\ \A i \in Ids : state[i] # "none" => state'[i] # "none"
    BY <1>1, <1>3, MakeTyped DEF IInv
<1>5. TypeOK'
    BY <1>1, <1>2, <1>4 DEF IInv, TypeOK, poolVars, requestVars, envVars
<1>6. UNCHANGED Warm /\ Warm \subseteq Placeholders
    BY <1>2, WarmIsTyped DEF Warm, IInv, TypeOK, poolVars
<1>7. Room' /\ HandedOutOnce' /\ TakenIsHeld'
    BY <1>2, <1>6 DEF IInv, Room, HandedOutOnce, TakenIsHeld, poolVars, requestVars
<1>8. InHand'
    <2>1. state[p] = "none"
        BY <1>1 DEF Fresh
    <2>2. p \notin Warm /\ \A r \in Requests : held[r] # p
        BY <2>1, PoolAssumption DEF IInv, UsedIsDrawn
    <2> QED
        BY <1>1, <1>2, <1>4, <1>6, <2>2 DEF InHand, requestVars
<1>9. UsedIsDrawn'
    BY <1>2, <1>4, <1>6 DEF IInv, UsedIsDrawn, TypeOK, Ids, requestVars
<1> QED
    BY <1>5, <1>7, <1>8, <1>9 DEF IInv

LEMMA SpawnPushInv == IInv /\ SpawnPush => IInv'
<1> SUFFICES ASSUME IInv, SpawnPush PROVE IInv'
    OBVIOUS
<1>1. TypeOK /\ Room /\ InHand /\ Len(warm) \in Nat /\ mpc = "push" /\ caller \in {"fill", "topUp"}
    BY DEF IInv, TypeOK, SpawnPush
<1>2. Len(warm) < Size
    BY <1>1, PoolAssumption DEF Room, TypeOK
<1>3. /\ warm' = Append(warm, making) /\ making' = Nil /\ mpc' = caller
      /\ UNCHANGED <<refill, tick, caller, unfilled, requestVars, backendVars, envVars>>
    BY <1>2 DEF SpawnPush
<1>4. making \in Placeholders /\ making \notin Warm /\ state[making] # "none"
      /\ \A r \in Requests : held[r] # making
    BY <1>1 DEF InHand
<1>5. warm \in Seq(Placeholders) /\ Distinct
    BY DEF IInv, TypeOK, HandedOutOnce, Distinct
<1>6. warm' \in Seq(Placeholders) /\ Len(warm') = Len(warm) + 1 /\ Distinct' /\ Warm' = Warm \cup {making}
    BY <1>3, <1>4, <1>5, Sent
<1>7. TypeOK'
    BY <1>1, <1>2, <1>3, <1>6, PoolAssumption DEF TypeOK, requestVars, backendVars, envVars
<1>8. Room'
    BY <1>1, <1>2, <1>3, <1>6, PoolAssumption DEF Room, TypeOK
<1>9. HandedOutOnce'
    BY <1>3, <1>4, <1>6 DEF IInv, HandedOutOnce, Distinct, requestVars
<1>10. InHand' /\ UsedIsDrawn' /\ TakenIsHeld'
    BY <1>1, <1>3, <1>4, <1>6 DEF IInv, InHand, UsedIsDrawn, TakenIsHeld, requestVars, backendVars
<1> QED
    BY <1>7, <1>8, <1>9, <1>10 DEF IInv

LEMMA TakeInv == ASSUME NEW r \in Requests PROVE IInv /\ Take(r) => IInv'
<1> SUFFICES ASSUME IInv, Take(r) PROVE IInv'
    OBVIOUS
<1>0. /\ rpc[r] = "take" /\ TypeOK /\ Room /\ Len(warm) \in Nat
      /\ UNCHANGED <<refill, gone, maintainerVars, backendVars, envVars>>
    BY DEF Take, IInv, TypeOK
<1>1. CASE warm = <<>>
    <2>1. rpc' = [rpc EXCEPT ![r] = "cold"] /\ UNCHANGED <<warm, held>>
        BY <1>1 DEF Take
    <2>2. TypeOK'
        BY <1>0, <2>1 DEF TypeOK, HandlerPoints, maintainerVars, backendVars, envVars
    <2>3. Room' /\ TakenIsHeld'
        BY <1>0, <2>1 DEF IInv, TypeOK, Room, TakenIsHeld, maintainerVars
    <2> QED
        BY <1>0, <2>1, <2>2, <2>3, Aside DEF maintainerVars, backendVars
<1>2. CASE warm # <<>>
    <2>1. /\ rpc' = [rpc EXCEPT ![r] = "check"]
          /\ held' = [held EXCEPT ![r] = Head(warm)]
          /\ warm' = Tail(warm)
        BY <1>2 DEF Take
    <2>2. warm \in Seq(Placeholders) /\ Distinct
        BY DEF IInv, TypeOK, HandedOutOnce, Distinct
    <2>3. /\ warm' \in Seq(Placeholders)
          /\ Len(warm') = Len(warm) - 1 /\ Len(warm) > 0
          /\ Distinct' /\ Warm' \subseteq Warm
          /\ Head(warm) \in Warm /\ Head(warm) \notin Warm'
        BY <1>2, <2>1, <2>2, Received
    <2>4. Warm \subseteq Placeholders /\ Nil \notin Placeholders
        BY <2>2, WarmIsTyped, PoolAssumption
    <2>5. TypeOK'
        BY <1>0, <2>1, <2>3, <2>4, PoolAssumption DEF TypeOK, HandlerPoints, maintainerVars, backendVars, envVars
    <2>6. Room'
        BY <1>0, <2>3, PoolAssumption DEF Room, TypeOK, maintainerVars
    <2>7. held \in [Requests -> Placeholders \cup {Nil}] /\ rpc \in [Requests -> HandlerPoints]
        BY <1>0 DEF TypeOK
    <2>8. HandedOutOnce'
        BY <2>1, <2>3, <2>4, <2>7 DEF IInv, HandedOutOnce, Distinct
    <2>9. InHand'
        BY <1>0, <2>1, <2>3, <2>7 DEF IInv, InHand, maintainerVars, backendVars
    <2>10. UsedIsDrawn'
        BY <1>0, <2>1, <2>3, <2>7 DEF IInv, UsedIsDrawn, backendVars
    <2>11. TakenIsHeld'
        BY <2>1, <2>3, <2>4, <2>7 DEF IInv, TakenIsHeld
    <2> QED
        BY <2>5, <2>6, <2>8, <2>9, <2>10, <2>11 DEF IInv
<1> QED
    BY <1>1, <1>2

LEMMA TakeAliveInv == ASSUME NEW r \in Requests PROVE IInv /\ TakeAlive(r) => IInv'
<1> SUFFICES ASSUME IInv, TakeAlive(r) PROVE IInv'
    OBVIOUS
<1> USE DEF TakeAlive, Works, NoFault, maintainerVars, backendVars, envVars
<1>1. TypeOK'
    BY PoolAssumption DEF IInv, TypeOK, HandlerPoints
<1>2. Room' /\ TakenIsHeld'
    BY DEF IInv, TypeOK, Room, TakenIsHeld
<1> QED
    BY <1>1, <1>2, Aside

LEMMA TakeDiscardInv == ASSUME NEW r \in Requests PROVE IInv /\ TakeDiscard(r) => IInv'
<1> SUFFICES ASSUME IInv, TakeDiscard(r) PROVE IInv'
    OBVIOUS
<1>1. /\ held' = [held EXCEPT ![r] = Nil] /\ rpc' = [rpc EXCEPT ![r] = "take"]
      /\ UNCHANGED <<gone, poolVars, maintainerVars, backendVars>>
    BY DEF TakeDiscard
<1>2. faults' \in 0..MaxFaults /\ cancelled' = cancelled /\ deaths' = deaths
    BY PoolAssumption DEF TakeDiscard, Fails, Fault, NoFault, envVars, IInv, TypeOK
<1>3. TypeOK'
    BY <1>1, <1>2 DEF IInv, TypeOK, HandlerPoints, poolVars, maintainerVars, backendVars
<1>4. UNCHANGED Warm /\ Warm \subseteq Placeholders /\ Nil \notin Placeholders
    BY <1>1, WarmIsTyped, PoolAssumption DEF Warm, IInv, TypeOK, poolVars
<1>5. Room'
    BY <1>1 DEF IInv, Room, poolVars, maintainerVars
<1>6. held \in [Requests -> Placeholders \cup {Nil}] /\ rpc \in [Requests -> HandlerPoints]
    BY DEF IInv, TypeOK
<1>7. HandedOutOnce'
    BY <1>1, <1>4, <1>6 DEF IInv, HandedOutOnce, poolVars
<1>8. InHand' /\ UsedIsDrawn'
    BY <1>1, <1>4, <1>6 DEF IInv, InHand, UsedIsDrawn, maintainerVars, backendVars
<1>9. TakenIsHeld'
    BY <1>1, <1>6 DEF IInv, TakenIsHeld
<1> QED
    BY <1>3, <1>5, <1>7, <1>8, <1>9 DEF IInv

LEMMA AdoptInv == ASSUME NEW r \in Requests PROVE IInv /\ Adopt(r) => IInv'
<1> SUFFICES ASSUME IInv, Adopt(r) PROVE IInv'
    OBVIOUS
<1> USE DEF Adopt, AdoptWarmResource, poolVars, maintainerVars, envVars
<1>1. held[r] \in Placeholders
    BY DEF IInv, TakenIsHeld, TypeOK
<1>2. Placeholder(held[r]) \in Native
    BY <1>1 DEF Native
<1>3. TypeOK'
    BY <1>2 DEF IInv, TypeOK, HandlerPoints
<1>4. Room' /\ TakenIsHeld'
    BY DEF IInv, TypeOK, Room, TakenIsHeld
<1> QED
    BY <1>3, <1>4, Aside

LEMMA ColdCreateInv == ASSUME NEW r \in Requests PROVE IInv /\ ColdCreate(r) => IInv'
<1> SUFFICES ASSUME IInv, ColdCreate(r) PROVE IInv'
    OBVIOUS
<1>1. PICK o \in {"made", "failed"} : rpc' = [rpc EXCEPT ![r] = o]
    BY DEF ColdCreate
<1>2. UNCHANGED <<held, gone, poolVars, maintainerVars>>
    BY DEF ColdCreate
<1>3. faults' \in 0..MaxFaults /\ cancelled' = cancelled /\ deaths' = deaths
    BY PoolAssumption DEF ColdCreate, Works, Fails, Fault, NoFault, envVars, IInv, TypeOK
<1>4. /\ mapping' \in [Ids -> Native \cup {Nil}]
      /\ state' \in [Ids -> {"none", "running", "dead", "removed"}]
      /\ \A i \in Ids : state[i] # "none" => state'[i] # "none"
    <2>1. CASE Make(r)
        <3>1. r \in Ids
            BY DEF Ids
        <3> QED
            BY <2>1, <3>1, MakeTyped DEF IInv
    <2>2. CASE UNCHANGED backendVars
        BY <2>2 DEF IInv, TypeOK, backendVars
    <2> QED
        BY <2>1, <2>2 DEF ColdCreate
<1>5. TypeOK'
    BY <1>1, <1>2, <1>3, <1>4 DEF IInv, TypeOK, HandlerPoints, poolVars, maintainerVars
<1>6. Room' /\ TakenIsHeld'
    BY <1>1, <1>2 DEF IInv, TypeOK, Room, TakenIsHeld, poolVars, maintainerVars
<1> QED
    BY <1>2, <1>4, <1>5, <1>6, Aside DEF poolVars, maintainerVars

LEMMA SurroundingsInv ==
    IInv /\ (TickerFires \/ Cancel \/ (\E id \in Ids : ContainerDies(id)) \/ \E r \in Requests : ClientGoes(r)) => IInv'
<1> SUFFICES ASSUME IInv,
                    TickerFires \/ Cancel \/ (\E id \in Ids : ContainerDies(id)) \/ \E r \in Requests : ClientGoes(r)
             PROVE  IInv'
    OBVIOUS
<1> USE DEF poolVars, maintainerVars, requestVars, backendVars, envVars
<1>1. CASE TickerFires \/ Cancel
    <2>1. TypeOK' /\ UNCHANGED <<warm, held, mpc, making, state, rpc, caller, unfilled>>
        BY <1>1 DEF TickerFires, Cancel, IInv, TypeOK
    <2>2. Room' /\ TakenIsHeld'
        BY <2>1 DEF IInv, Room, TakenIsHeld
    <2> QED
        BY <2>1, <2>2, Aside
<1>2. ASSUME NEW id \in Ids, ContainerDies(id) PROVE IInv'
    <2>1. TypeOK' /\ UNCHANGED <<warm, held, mpc, making, rpc, caller, unfilled>>
        BY <1>2, PoolAssumption DEF ContainerDies, IInv, TypeOK
    <2>2. \A i \in Ids : state[i] # "none" => state'[i] # "none"
        BY <1>2 DEF ContainerDies, IInv, TypeOK
    <2>3. Room' /\ TakenIsHeld'
        BY <2>1 DEF IInv, Room, TakenIsHeld
    <2> QED
        BY <2>1, <2>2, <2>3, Aside
<1>3. ASSUME NEW r \in Requests, ClientGoes(r) PROVE IInv'
    <2>1. TypeOK' /\ UNCHANGED <<warm, held, mpc, making, state, rpc, caller, unfilled>>
        BY <1>3 DEF ClientGoes, IInv, TypeOK
    <2>2. Room' /\ TakenIsHeld'
        BY <2>1 DEF IInv, Room, TakenIsHeld
    <2> QED
        BY <2>1, <2>2, Aside
<1> QED
    BY <1>1, <1>2, <1>3

LEMMA NextInv == IInv /\ [Next]_vars => IInv'
<1> SUFFICES ASSUME IInv, [Next]_vars PROVE IInv'
    OBVIOUS
<1>1. CASE Maintain
    BY <1>1, MaintainerTurns, SpawnCreateInv, SpawnPushInv DEF Maintain
<1>2. ASSUME NEW r \in Requests, Handle(r) PROVE IInv'
    BY <1>2, TakeInv, TakeAliveInv, TakeDiscardInv, AdoptInv, ColdCreateInv DEF Handle
<1>3. CASE TickerFires \/ Cancel \/ (\E id \in Ids : ContainerDies(id)) \/ \E r \in Requests : ClientGoes(r)
    BY <1>3, SurroundingsInv
<1>4. CASE UNCHANGED vars
    <2> USE <1>4 DEF vars, poolVars, maintainerVars, requestVars, backendVars, envVars
    <2>1. TypeOK'
        BY DEF IInv, TypeOK
    <2>2. Room' /\ TakenIsHeld'
        BY DEF IInv, Room, TakenIsHeld
    <2> QED
        BY <2>1, <2>2, Aside
<1> QED
    BY <1>1, <1>2, <1>3, <1>4 DEF Next

LEMMA Inductive == Spec => []IInv
<1> QED
    BY InitInv, NextInv, PTL DEF Spec

\* Every variable keeps to its type; in particular the channels never hold
\* more than their capacity.
THEOREM PoolTypes == Spec => []TypeOK
<1>1. IInv => TypeOK
    BY DEF IInv
<1> QED
    BY <1>1, Inductive, PTL

\* However many handlers call Take at once, no warm container is handed out
\* twice.
THEOREM NoDoubleHandout == Spec => []HandedOutOnce
<1>1. IInv => HandedOutOnce
    BY DEF IInv
<1> QED
    BY <1>1, Inductive, PTL

\* The discard branch of spawnOne is dead code: with one maintainer there is
\* always room for the container it has made.
THEOREM AlwaysRoom == Spec => []NoExcess
<1>1. IInv => NoExcess
    BY PoolAssumption DEF IInv, Room, NoExcess, TypeOK
<1> QED
    BY <1>1, Inductive, PTL
=============================================================================
