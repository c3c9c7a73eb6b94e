------------------------------ MODULE WarmPool ------------------------------
(***************************************************************************)
(* internal/pool for one template, over the Docker adapter: a channel of   *)
(* warm containers that one maintainer goroutine fills and that the create *)
(* handlers take from.  A warm container is made under a placeholder id    *)
(* and handed out by registering that id for the new sandbox.              *)
(*                                                                         *)
(* The pools of different templates share nothing but the adapter's map,   *)
(* in which every id is fresh, so one template stands for all.             *)
(***************************************************************************)
EXTENDS Integers, Sequences

CONSTANTS
    Size,          \* capacity of the channels, cfg.WarmPoolSize
    Placeholders,  \* numbers of the "warm-" ids, drawn in this order
    Requests,      \* calls of CreateSandbox, each with its own sandbox id
    Nil,           \* no id
    MaxFaults,     \* calls to the daemon that may fail
    MaxDeaths,     \* containers that may end by themselves
    Hangups,       \* whether a client may go away during its request
    Shutdown       \* whether the server may be told to stop

ASSUME PoolAssumption ==
    /\ Size \in Nat \ {0}
    /\ Placeholders \subseteq Nat
    /\ Requests \cap Nat = {}
    /\ Nil \notin Placeholders \cup Requests
    /\ MaxFaults \in Nat /\ MaxDeaths \in Nat
    /\ Hangups \in BOOLEAN /\ Shutdown \in BOOLEAN

VARIABLES
    warm,       \* the channel p.warm[slug] of placeholders ready to be taken
    refill,     \* signals in the channel p.refill[slug]
    tick,       \* the maintainer's ticker: "off", "set", or "due"
    mpc,        \* where the maintainer is
    caller,     \* the loop spawnOne was called from: "fill" or "topUp"
    unfilled,   \* rounds of the initial fill still to do
    making,     \* placeholder being made
    cancelled,  \* the root context is done
    rpc,        \* request -> where its handler is
    held,       \* request -> placeholder it has taken from the pool
    gone,       \* requests whose client has gone: their context is done
    mapping,    \* adapter: id -> what it is registered with
    state,      \* id -> state of the container made under it
    faults,     \* calls that have failed
    deaths      \* containers that have ended by themselves

poolVars == <<warm, refill>>
maintainerVars == <<tick, mpc, caller, unfilled, making>>
requestVars == <<rpc, held, gone>>
backendVars == <<mapping, state>>
envVars == <<cancelled, faults, deaths>>
vars == <<poolVars, maintainerVars, requestVars, backendVars, envVars>>

Ids == Placeholders \cup Requests

\* What the adapter's map can hold: Docker's id of the container made under
\* an id, or a placeholder taken for one.
Container(id) == [kind |-> "container", of |-> id]
Placeholder(p) == [kind |-> "placeholder", of |-> p]
ContainerIds == {Container(id) : id \in Ids}
Native == ContainerIds \cup {Placeholder(p) : p \in Placeholders}

HandlerPoints == {"take", "check", "adopt", "cold", "warm", "made", "failed"}

TypeOK ==
    /\ warm \in Seq(Placeholders)
    /\ Len(warm) <= Size
    /\ refill \in 0..Size
    /\ tick \in {"off", "set", "due"}
    /\ mpc \in {"fill", "create", "push", "select", "topUp", "stopped"}
    /\ caller \in {"fill", "topUp"}
    /\ unfilled \in 0..Size
    /\ making \in Placeholders \cup {Nil}
    /\ cancelled \in BOOLEAN
    /\ rpc \in [Requests -> HandlerPoints]
    /\ held \in [Requests -> Placeholders \cup {Nil}]
    /\ gone \subseteq Requests
    /\ mapping \in [Ids -> Native \cup {Nil}]
    /\ state \in [Ids -> {"none", "running", "dead", "removed"}]
    /\ faults \in 0..MaxFaults
    /\ deaths \in 0..MaxDeaths

Init ==
    /\ warm = <<>>
    /\ refill = 0
    /\ tick = "off"
    /\ mpc = "fill"
    /\ caller = "fill"
    /\ unfilled = Size
    /\ making = Nil
    /\ cancelled = FALSE
    /\ rpc = [r \in Requests |-> "take"]
    /\ held = [r \in Requests |-> Nil]
    /\ gone = {}
    /\ mapping = [id \in Ids |-> Nil]
    /\ state = [id \in Ids |-> "none"]
    /\ faults = 0
    /\ deaths = 0

-----------------------------------------------------------------------------
(* The adapter and the daemon. *)

Fault == faults < MaxFaults /\ faults' = faults + 1 /\ UNCHANGED <<cancelled, deaths>>
NoFault == UNCHANGED envVars

\* A call under a context that is done fails.
Fails(done) == (done /\ NoFault) \/ Fault
Works(done) == ~done /\ NoFault

\* CreateSandbox of the adapter.
Make(id) ==
    /\ state' = [state EXCEPT ![id] = "running"]
    /\ mapping' = [mapping EXCEPT ![id] = Container(id)]

\* KillSandbox of the adapter.
Unmake(id) ==
    /\ state' = [state EXCEPT ![id] = "removed"]
    /\ mapping' = [mapping EXCEPT ![id] = Nil]

\* The sandbox is registered with the id that Take returned, a placeholder.
AdoptWarmResource(r, p) ==
    /\ mapping' = [mapping EXCEPT ![r] = Placeholder(p)]
    /\ UNCHANGED state

\* The ids drawn so far are the least ones.
Fresh(p) == state[p] = "none" /\ \A q \in Placeholders : state[q] = "none" => p <= q

-----------------------------------------------------------------------------
(* The maintainer goroutine. *)

\* Mutant of Fill: one round too many.
FillPast ==
    /\ mpc = "fill"
    /\ IF unfilled >= 0
       THEN unfilled' = unfilled - 1 /\ mpc' = "create" /\ UNCHANGED tick
       ELSE mpc' = "select" /\ tick' = "set" /\ UNCHANGED unfilled
    /\ UNCHANGED <<caller, making, poolVars, requestVars, backendVars, envVars>>

Fill ==
    /\ mpc = "fill"
    /\ IF unfilled > 0
       THEN unfilled' = unfilled - 1 /\ mpc' = "create" /\ UNCHANGED tick
       ELSE mpc' = "select" /\ tick' = "set" /\ UNCHANGED unfilled
    /\ UNCHANGED <<caller, making, poolVars, requestVars, backendVars, envVars>>

\* Mutant of TopUp: one too many.
TopUpPast ==
    /\ mpc = "topUp"
    /\ mpc' = IF Len(warm) <= Size THEN "create" ELSE "select"
    /\ caller' = "topUp"
    /\ UNCHANGED <<tick, unfilled, making, poolVars, requestVars, backendVars, envVars>>

TopUp ==
    /\ mpc = "topUp"
    /\ mpc' = IF Len(warm) < Size THEN "create" ELSE "select"
    /\ caller' = "topUp"
    /\ UNCHANGED <<tick, unfilled, making, poolVars, requestVars, backendVars, envVars>>

SpawnCreate ==
    /\ mpc = "create"
    /\ \E p \in Placeholders :
        /\ Fresh(p)
        /\ Works(cancelled)
        /\ Make(p)
        /\ making' = p
    /\ mpc' = "push"
    /\ UNCHANGED <<tick, caller, unfilled, poolVars, requestVars>>

\* The error is logged and the loop goes on.
SpawnFail ==
    /\ mpc = "create"
    /\ Fails(cancelled)
    /\ mpc' = caller
    /\ UNCHANGED <<tick, caller, unfilled, making, poolVars, requestVars, backendVars>>

\* Into the channel, or removed again when the channel is full.
SpawnPush ==
    /\ mpc = "push"
    /\ IF Len(warm) < Size
       THEN warm' = Append(warm, making) /\ UNCHANGED backendVars
       ELSE Unmake(making) /\ UNCHANGED warm
    /\ making' = Nil
    /\ mpc' = caller
    /\ UNCHANGED <<refill, tick, caller, unfilled, requestVars, envVars>>

\* A select with several cases ready takes any of them.
SelectDone ==
    /\ mpc = "select" /\ cancelled
    /\ mpc' = "stopped"
    /\ tick' = "off"
    /\ UNCHANGED <<caller, unfilled, making, poolVars, requestVars, backendVars, envVars>>

SelectRefill ==
    /\ mpc = "select" /\ refill > 0
    /\ refill' = refill - 1
    /\ mpc' = "topUp"
    /\ UNCHANGED <<warm, tick, caller, unfilled, making, requestVars, backendVars, envVars>>

\* Mutant of SelectTick: the safety net is missing.
SelectTickIdle ==
    /\ mpc = "select" /\ tick = "due"
    /\ tick' = "set"
    /\ UNCHANGED <<mpc, caller, unfilled, making, poolVars, requestVars, backendVars, envVars>>

SelectTick ==
    /\ mpc = "select" /\ tick = "due"
    /\ tick' = "set"
    /\ mpc' = "topUp"
    /\ UNCHANGED <<caller, unfilled, making, poolVars, requestVars, backendVars, envVars>>

Maintain ==
    \/ Fill \/ TopUp
    \/ SpawnCreate \/ SpawnFail \/ SpawnPush
    \/ SelectDone \/ SelectRefill \/ SelectTick

-----------------------------------------------------------------------------
(* The create handler: Take, and adoption or a cold create. *)

\* Mutant of Take: the id stays in the channel.
TakePeek(r) ==
    /\ rpc[r] = "take"
    /\ IF warm = <<>>
       THEN rpc' = [rpc EXCEPT ![r] = "cold"] /\ UNCHANGED held
       ELSE /\ rpc' = [rpc EXCEPT ![r] = "check"]
            /\ held' = [held EXCEPT ![r] = Head(warm)]
    /\ UNCHANGED <<gone, poolVars, maintainerVars, backendVars, envVars>>

Take(r) ==
    /\ rpc[r] = "take"
    /\ IF warm = <<>>
       THEN rpc' = [rpc EXCEPT ![r] = "cold"] /\ UNCHANGED <<warm, held>>
       ELSE /\ rpc' = [rpc EXCEPT ![r] = "check"]
            /\ held' = [held EXCEPT ![r] = Head(warm)]
            /\ warm' = Tail(warm)
    /\ UNCHANGED <<refill, gone, maintainerVars, backendVars, envVars>>

\* IsRunning says yes: one signal to refill, unless Size are pending.
TakeAlive(r) ==
    /\ rpc[r] = "check"
    /\ state[held[r]] = "running"
    /\ Works(r \in gone)
    /\ refill' = IF refill < Size THEN refill + 1 ELSE refill
    /\ rpc' = [rpc EXCEPT ![r] = "adopt"]
    /\ UNCHANGED <<warm, held, gone, maintainerVars, backendVars>>

\* IsRunning says no, or fails: the id is dropped and the next one tried.
TakeDiscard(r) ==
    /\ rpc[r] = "check"
    /\ Fails(r \in gone) \/ (state[held[r]] # "running" /\ NoFault)
    /\ held' = [held EXCEPT ![r] = Nil]
    /\ rpc' = [rpc EXCEPT ![r] = "take"]
    /\ UNCHANGED <<gone, poolVars, maintainerVars, backendVars>>

Adopt(r) ==
    /\ rpc[r] = "adopt"
    /\ AdoptWarmResource(r, held[r])
    /\ rpc' = [rpc EXCEPT ![r] = "warm"]
    /\ UNCHANGED <<held, gone, poolVars, maintainerVars, envVars>>

ColdCreate(r) ==
    /\ rpc[r] = "cold"
    /\ \/ Works(r \in gone) /\ Make(r) /\ rpc' = [rpc EXCEPT ![r] = "made"]
       \/ Fails(r \in gone) /\ UNCHANGED backendVars /\ rpc' = [rpc EXCEPT ![r] = "failed"]
    /\ UNCHANGED <<held, gone, poolVars, maintainerVars>>

Handle(r) == Take(r) \/ TakeAlive(r) \/ TakeDiscard(r) \/ Adopt(r) \/ ColdCreate(r)

-----------------------------------------------------------------------------
(* The surroundings. *)

TickerFires ==
    /\ tick = "set"
    /\ tick' = "due"
    /\ UNCHANGED <<mpc, caller, unfilled, making, poolVars, requestVars, backendVars, envVars>>

ContainerDies(id) ==
    /\ state[id] = "running"
    /\ deaths < MaxDeaths
    /\ deaths' = deaths + 1
    /\ state' = [state EXCEPT ![id] = "dead"]
    /\ UNCHANGED <<mapping, cancelled, faults, poolVars, maintainerVars, requestVars>>

ClientGoes(r) ==
    /\ Hangups /\ r \notin gone /\ rpc[r] \in {"take", "check", "cold"}
    /\ gone' = gone \cup {r}
    /\ UNCHANGED <<rpc, held, poolVars, maintainerVars, backendVars, envVars>>

\* SIGINT or SIGTERM.
Cancel ==
    /\ Shutdown /\ ~cancelled
    /\ cancelled' = TRUE
    /\ UNCHANGED <<faults, deaths, poolVars, maintainerVars, requestVars, backendVars>>

Next ==
    \/ Maintain
    \/ \E r \in Requests : Handle(r) \/ ClientGoes(r)
    \/ TickerFires
    \/ \E id \in Ids : ContainerDies(id)
    \/ Cancel

Spec == Init /\ [][Next]_vars

\* Goroutines are scheduled, the ticker ticks, and a select that finds the
\* context done time after time takes that case in the end.
FairSpec ==
    /\ Spec
    /\ WF_vars(Maintain)
    /\ SF_vars(SelectDone)
    /\ WF_vars(TickerFires)
    /\ \A r \in Requests : WF_vars(Handle(r))

-----------------------------------------------------------------------------
Warm == {warm[i] : i \in 1..Len(warm)}

\* A warm container is handed out once: no id is in the channel twice, in the
\* channel and with a handler, or with two handlers.
HandedOutOnce ==
    /\ \A i, j \in 1..Len(warm) : warm[i] = warm[j] => i = j
    /\ \A r \in Requests : held[r] \notin Warm
    /\ \A r, s \in Requests : held[r] # Nil /\ held[r] = held[s] => r = s

\* The maintainer never makes a container there is no room for: what spawnOne
\* does with an excess one is never done.
NoExcess == mpc = "push" => Len(warm) < Size

\* As long as the server runs, the pool is filled again and again, also after
\* takes that found dead containers, or whose client had gone, and that sent
\* no signal; unless the instance has no placeholder left.
KeepsFilling == []<>(cancelled \/ Len(warm) = Size \/ \A p \in Placeholders : state[p] # "none")

(* Said of the pool by its comments and decision records, and not so: a
   configuration of its own finds each of these violated. *)

\* A running warm container is in the channel, on its way into it, or with a
\* handler that took it: nothing else would ever remove it.
WarmIsKept ==
    \A p \in Placeholders :
        state[p] = "running" => p \in Warm \/ p = making \/ \E r \in Requests : held[r] = p

\* A sandbox that was handed a warm container is registered with it, so that
\* the adapter's later calls reach it.
AdoptedIsReachable == \A r \in Requests : rpc[r] = "warm" => mapping[r] \in ContainerIds

\* A server told to stop stops its maintainer.
ShutdownStopsPool == cancelled ~> mpc = "stopped"

\* A warm container that dies in the channel is replaced in time.
DeadIsReplaced == \A p \in Placeholders : (state[p] = "dead" /\ p \in Warm) ~> p \notin Warm
=============================================================================
