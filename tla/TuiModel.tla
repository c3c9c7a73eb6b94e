------------------------------ MODULE TuiModel ------------------------------
(***************************************************************************)
(* cli/tui: the model behind "cage tui".  Bubble Tea calls Update with one *)
(* message at a time and then View; the commands Update returns run in     *)
(* goroutines of their own, and their results come back as messages in any *)
(* order.  The server stands for the REST API; other clients and the       *)
(* reaper change its sandboxes too.                                        *)
(*                                                                         *)
(* Left out: colours, the banner's text, window size, spinners, toasts and *)
(* the text that is typed.                                                 *)
(***************************************************************************)
EXTENDS Integers, Sequences

CONSTANTS
    Nil,
    First,        \* sandboxes at the start
    MaxIds,       \* bound: sandboxes ever
    MaxSlots,     \* bound: commands in flight at the same time
    Frames,       \* steps of the banner's reveal: bannerWidth / revealCols
    MaxKeys,      \* bound: keys that send a request
    MaxChanges,   \* bound: changes by other clients and the reaper
    MaxFaults     \* bound: requests that fail or whose answer is lost

ASSUME TuiAssumption ==
    /\ First \in Nat /\ MaxIds \in Nat /\ First <= MaxIds
    /\ MaxSlots \in Nat \ {0} /\ Frames \in Nat \ {0}
    /\ MaxKeys \in Nat /\ MaxChanges \in Nat /\ MaxFaults \in Nat
    /\ Nil \notin 1..MaxIds

VARIABLES
    view, frame,          \* m.view; steps revealed, Frames once splashDone
    items, cursor,        \* m.list: its rows and the index selected
    busy, failed, confirm,   \* m.busy, m.err # nil, m.confirm
    asked,                \* history: the sandbox selected when confirm was set
    detail, running, output, \* m.detail: sandbox, running, whose result it shows
    ticks, splashTicks,   \* timers outstanding
    cmds,                 \* slot -> command in flight, or NoCmd
    quit,
    server, drawn,        \* the server's rows, newest first; ids used so far
    keys, changes, faults

listVars == <<items, cursor>>
flagVars == <<busy, failed, confirm, asked>>
detailVars == <<detail, running, output>>
timerVars == <<frame, ticks, splashTicks>>
uiVars == <<view, listVars, flagVars, detailVars, timerVars, quit, keys>>
serverVars == <<server, drawn, changes, faults>>
vars == <<uiVars, cmds, serverVars>>

Ids == 1..MaxIds
Slots == 1..MaxSlots
Row == [id : Ids, status : {"running", "paused"}]
IsRows(s) == s \in Seq(Row) /\ \A i, j \in 1..Len(s) : s[i].id = s[j].id => i = j
ActionKinds == {"create", "pause", "resume", "delete"}
New(kind, id) == [kind |-> kind, id |-> id, state |-> "sent", rows |-> <<>>]
NoCmd == New("none", Nil)

TypeOK ==
    /\ view \in {"splash", "list", "detail"} /\ frame \in 0..Frames
    /\ IsRows(items) /\ cursor \in Nat
    /\ busy \in BOOLEAN /\ failed \in BOOLEAN /\ confirm \in BOOLEAN
    /\ {detail, output, asked} \subseteq Ids \cup {Nil} /\ running \in BOOLEAN
    /\ ticks \in Nat /\ splashTicks \in Nat
    /\ \A c \in Slots :
        /\ cmds[c].kind \in ActionKinds \cup {"fetch", "exec", "none"}
        /\ cmds[c].id \in Ids \cup {Nil}
        /\ cmds[c].state \in {"sent", "ok", "error"}
        /\ IsRows(cmds[c].rows)
    /\ quit \in BOOLEAN
    /\ IsRows(server) /\ drawn \in 0..MaxIds
    /\ keys \in 0..MaxKeys /\ changes \in 0..MaxChanges /\ faults \in 0..MaxFaults

\* New and Init: the first tick and the first frame are on their way, no
\* fetch is.
Init ==
    /\ view = "splash" /\ frame = 0
    /\ items = <<>> /\ cursor = 1
    /\ busy = FALSE /\ failed = FALSE /\ confirm = FALSE /\ asked = Nil
    /\ detail = Nil /\ running = FALSE /\ output = Nil
    /\ ticks = 1 /\ splashTicks = 1
    /\ cmds = [c \in Slots |-> NoCmd]
    /\ quit = FALSE
    /\ server = [i \in 1..First |-> [id |-> First + 1 - i, status |-> "running"]]
    /\ drawn = First
    /\ keys = 0 /\ changes = 0 /\ faults = 0

-----------------------------------------------------------------------------
\* selectedSandbox
Selected == IF cursor \in 1..Len(items) THEN items[cursor] ELSE Nil

\* View reads the id of the selected sandbox for the prompt; without one it
\* dereferences nil and the program ends.
Panics == view = "list" /\ ~failed /\ confirm /\ Selected = Nil
Up == ~quit /\ ~Panics

Free == {c \in Slots : cmds[c].kind = "none"}
Send(kind, id) ==
    \E c \in Free :
        /\ \A d \in Free : c <= d
        /\ cmds' = [cmds EXCEPT ![c] = New(kind, id)]

Key == Up /\ UNCHANGED serverVars
Asking == keys < MaxKeys /\ keys' = keys + 1

-----------------------------------------------------------------------------
(* Keys. *)

\* The first key ends the animation, the next one the splash.
SplashKey ==
    /\ Key /\ view = "splash"
    /\ \/ frame < Frames /\ frame' = Frames /\ UNCHANGED <<view, cmds, keys>>
       \/ frame = Frames /\ view' = "list" /\ Send("fetch", Nil) /\ Asking /\ UNCHANGED frame
    /\ UNCHANGED <<listVars, flagVars, detailVars, ticks, splashTicks, quit>>

ListKey == Key /\ view = "list" /\ ~confirm

\* r
Refresh ==
    /\ ListKey /\ Asking
    /\ Send("fetch", Nil)
    /\ UNCHANGED <<view, listVars, flagVars, detailVars, timerVars, quit>>

\* n
Create ==
    /\ ListKey /\ Asking
    /\ busy' = TRUE
    /\ Send("create", Nil)
    /\ UNCHANGED <<view, listVars, failed, confirm, asked, detailVars, timerVars, quit>>

\* p: by the status the list shows.
Toggle ==
    /\ ListKey /\ Asking
    /\ Selected # Nil
    /\ busy' = TRUE
    /\ Send(IF Selected.status = "running" THEN "pause" ELSE "resume", Selected.id)
    /\ UNCHANGED <<view, listVars, failed, confirm, asked, detailVars, timerVars, quit>>

\* d
AskDelete ==
    /\ ListKey /\ Selected # Nil
    /\ confirm' = TRUE /\ asked' = Selected.id
    /\ UNCHANGED <<view, listVars, busy, failed, detailVars, timerVars, quit, keys, cmds>>

\* enter
OpenDetail ==
    /\ ListKey /\ Selected # Nil
    /\ view' = "detail"
    /\ detail' = Selected.id /\ running' = FALSE /\ output' = Nil
    /\ UNCHANGED <<listVars, flagVars, timerVars, quit, keys, cmds>>

\* Other keys, and enter and p with nothing selected, go to the list, which
\* moves the selection and keeps it on a row.
Navigate ==
    /\ ListKey
    /\ cursor' \in 1..Len(items)
    /\ UNCHANGED <<view, items, flagVars, detailVars, timerVars, quit, keys, cmds>>

\* q or ctrl+c
Quit ==
    /\ ListKey
    /\ quit' = TRUE
    /\ UNCHANGED <<view, listVars, flagVars, detailVars, timerVars, keys, cmds>>

\* y deletes what is selected by now, any other key cancels.
Confirm ==
    /\ Key /\ view = "list" /\ confirm
    /\ confirm' = FALSE /\ asked' = Nil
    /\ \/ Selected # Nil /\ busy' = TRUE /\ Send("delete", Selected.id) /\ Asking
       \/ UNCHANGED <<busy, cmds, keys>>
    /\ UNCHANGED <<view, listVars, failed, detailVars, timerVars, quit>>

\* enter in the detail view: one command at a time.
RunExec ==
    /\ Key /\ view = "detail" /\ ~running /\ Asking
    /\ running' = TRUE
    /\ Send("exec", detail)
    /\ UNCHANGED <<view, listVars, flagVars, detail, output, timerVars, quit>>

\* q in the detail view
Back ==
    /\ Key /\ view = "detail" /\ Asking
    /\ view' = "list"
    /\ Send("fetch", Nil)
    /\ UNCHANGED <<listVars, flagVars, detailVars, timerVars, quit>>

-----------------------------------------------------------------------------
(* Timers. *)

SplashTick ==
    /\ Up /\ splashTicks > 0
    /\ IF view # "splash" \/ frame = Frames
       THEN splashTicks' = splashTicks - 1 /\ UNCHANGED frame
       ELSE /\ frame' = frame + 1
            /\ splashTicks' = IF frame + 1 = Frames THEN splashTicks - 1 ELSE splashTicks
    /\ UNCHANGED <<view, listVars, flagVars, detailVars, ticks, quit, keys, cmds, serverVars>>

\* Mutant of Tick: the next tick is only started where there is a list.
TickInList ==
    /\ Up /\ ticks > 0
    /\ IF view = "list" /\ ~busy
       THEN Send("fetch", Nil) /\ UNCHANGED ticks
       ELSE ticks' = ticks - 1 /\ UNCHANGED cmds
    /\ UNCHANGED <<view, listVars, flagVars, detailVars, frame, splashTicks, quit, keys, serverVars>>

\* tickMsg: every tick starts the next one, and a fetch when the list is shown
\* and no action is in flight.
Tick ==
    /\ Up /\ ticks > 0
    /\ IF view = "list" /\ ~busy THEN Send("fetch", Nil) ELSE UNCHANGED cmds
    /\ UNCHANGED <<uiVars, serverVars>>

-----------------------------------------------------------------------------
(* Results. *)

\* A result is taken from slot c, which a new fetch may take over.
Take(c, kinds) == Up /\ cmds[c].kind \in kinds /\ cmds[c].state # "sent"
Drop(c) == cmds' = [cmds EXCEPT ![c] = NoCmd]

\* Mutant of ActionResult: a failed action is still shown as going on.
ActionFailsBusy(c) ==
    /\ Take(c, ActionKinds)
    /\ busy' = (busy /\ cmds[c].state = "error")
    /\ failed' = (cmds[c].state = "error")
    /\ cmds' = [cmds EXCEPT ![c] = New("fetch", Nil)]
    /\ UNCHANGED <<view, listVars, confirm, asked, detailVars, timerVars, quit, keys, serverVars>>

\* actionResultMsg, whichever action it is the result of.
ActionResult(c) ==
    /\ Take(c, ActionKinds)
    /\ busy' = FALSE
    /\ failed' = (cmds[c].state = "error")
    /\ cmds' = [cmds EXCEPT ![c] = New("fetch", Nil)]
    /\ UNCHANGED <<view, listVars, confirm, asked, detailVars, timerVars, quit, keys, serverVars>>

\* Mutant of RefreshResult: the rows are added to the list.
RefreshAppends(c) ==
    /\ Take(c, {"fetch"})
    /\ \/ cmds[c].state = "error" /\ failed' = TRUE /\ UNCHANGED items
       \/ cmds[c].state = "ok" /\ items' = items \o cmds[c].rows /\ UNCHANGED failed
    /\ Drop(c)
    /\ UNCHANGED <<view, cursor, busy, confirm, asked, detailVars, timerVars, quit, keys, serverVars>>

\* refreshMsg: SetItems leaves the index where it is.
RefreshResult(c) ==
    /\ Take(c, {"fetch"})
    /\ \/ cmds[c].state = "error" /\ failed' = TRUE /\ UNCHANGED items
       \/ cmds[c].state = "ok" /\ items' = cmds[c].rows /\ UNCHANGED failed
    /\ Drop(c)
    /\ UNCHANGED <<view, cursor, busy, confirm, asked, detailVars, timerVars, quit, keys, serverVars>>

\* execResultMsg: to the detail view if there is one, whatever it shows.
ExecResult(c) ==
    /\ Take(c, {"exec"})
    /\ \/ view = "detail" /\ running' = FALSE /\ output' = cmds[c].id
       \/ view # "detail" /\ UNCHANGED <<running, output>>
    /\ Drop(c)
    /\ UNCHANGED <<view, listVars, flagVars, detail, timerVars, quit, keys, serverVars>>

-----------------------------------------------------------------------------
(* The server. *)

Without(id) ==
    LET i == CHOOSE i \in DOMAIN server : server[i].id = id IN
    SubSeq(server, 1, i - 1) \o SubSeq(server, i + 1, Len(server))
WithStatus(id, status) ==
    [i \in DOMAIN server |-> IF server[i].id = id THEN [id |-> id, status |-> status] ELSE server[i]]
Has(id, statuses) == \E i \in DOMAIN server : server[i].id = id /\ server[i].status \in statuses

Remove(id, statuses) == Has(id, statuses) /\ server' = Without(id)

\* What the server does for a request it accepts.
Carry(kind, id) ==
    \/ /\ kind = "create" /\ drawn < MaxIds
       /\ drawn' = drawn + 1
       /\ server' = <<[id |-> drawn + 1, status |-> "running"]>> \o server
    \/ /\ UNCHANGED drawn
       /\ \/ kind = "pause" /\ Has(id, {"running"}) /\ server' = WithStatus(id, "paused")
          \/ kind = "resume" /\ Has(id, {"paused"}) /\ server' = WithStatus(id, "running")
          \/ kind = "delete" /\ Remove(id, {"running"})
          \/ kind = "exec" /\ Has(id, {"running"}) /\ UNCHANGED server
          \/ kind = "fetch" /\ UNCHANGED server

\* A paused sandbox has nothing running that a delete could kill.
Refuses(kind, id) ==
    \/ kind \in {"pause", "exec", "delete"} /\ ~Has(id, {"running"})
    \/ kind = "resume" /\ ~Has(id, {"paused"})
    \/ kind = "create" /\ drawn = MaxIds

\* A request fails before or after it is carried out, by the client's timeout
\* for one.
Serve(c) ==
    LET Rows(state) == IF cmds[c].kind = "fetch" /\ state = "ok" THEN server ELSE <<>>
        Answer(state) ==
            cmds' = [cmds EXCEPT ![c] = [kind |-> cmds[c].kind, id |-> cmds[c].id,
                                         state |-> state, rows |-> Rows(state)]] IN
    /\ Up /\ cmds[c].kind # "none" /\ cmds[c].state = "sent"
    /\ \/ Carry(cmds[c].kind, cmds[c].id) /\ Answer("ok") /\ UNCHANGED faults
       \/ Refuses(cmds[c].kind, cmds[c].id) /\ Answer("error") /\ UNCHANGED <<server, drawn, faults>>
       \/ /\ faults < MaxFaults /\ faults' = faults + 1
          /\ Answer("error")
          /\ Carry(cmds[c].kind, cmds[c].id) \/ UNCHANGED <<server, drawn>>
    /\ UNCHANGED <<uiVars, changes>>

\* Another client; or the reaper, which removes paused sandboxes too.
Change ==
    /\ Up /\ changes < MaxChanges /\ changes' = changes + 1
    /\ \/ Carry("create", Nil)
       \/ \E id \in Ids, kind \in {"pause", "resume", "delete"} : Carry(kind, id)
       \/ \E id \in Ids : Remove(id, {"running", "paused"}) /\ UNCHANGED drawn
    /\ UNCHANGED <<uiVars, cmds, faults>>

-----------------------------------------------------------------------------
Next ==
    \/ SplashKey \/ Refresh \/ Create \/ Toggle \/ AskDelete \/ OpenDetail
    \/ Navigate \/ Quit \/ Confirm \/ RunExec \/ Back
    \/ SplashTick \/ Tick
    \/ \E c \in Slots : ActionResult(c) \/ RefreshResult(c) \/ ExecResult(c) \/ Serve(c)
    \/ Change

Spec == Init /\ [][Next]_vars

\* Timers fire, requests end (they have timeouts) and messages are handled;
\* nobody has to press a key.
FairSpec ==
    /\ Spec
    /\ WF_vars(Tick) /\ WF_vars(SplashTick)
    /\ \A c \in Slots :
        WF_vars(ActionResult(c)) /\ WF_vars(RefreshResult(c)) /\ WF_vars(ExecResult(c)) /\ WF_vars(Serve(c))

-----------------------------------------------------------------------------
InFlight(kinds) == \E c \in Slots : cmds[c].kind \in kinds

\* The interface never waits for nothing: while it is busy, which stops the
\* refreshing of the list, the result of an action is on its way, and while a
\* detail view takes no command, the result of one is.
WaitsForSomething ==
    /\ busy => InFlight(ActionKinds)
    /\ view = "detail" /\ running => InFlight({"exec"})

\* The timers of the splash and of the list do not interfere: there is always
\* one tick on its way, and a frame as long as the banner is not revealed.
TimersApart ==
    /\ ticks = 1 /\ splashTicks <= 1
    /\ view = "splash" /\ frame < Frames => splashTicks = 1

\* Fetches that overtake each other, failures and actions notwithstanding, a
\* list that stays in view is in the end what the server has.
ListConverges == <>[](Up /\ view = "list") => <>[](items = server)

(* Said of the interface by its comments and texts, and not so: with
   TuiClaims.cfg TLC finds each of these violated. *)

\* The prompt for a delete has a sandbox to name.
PromptHasSandbox == ~Panics

\* What is deleted is what was selected when the prompt was asked for.
ConfirmedIsDeleted == confirm /\ Selected # Nil => Selected.id = asked

\* busy is "true while an action (create/pause/delete) is in flight".
BusyWhileActing == InFlight(ActionKinds) => busy

\* After "press 'r' to retry" a refresh that works ends the error.
RetryClearsError ==
    [][\A c \in Slots : RefreshResult(c) /\ cmds[c].state = "ok" => ~failed']_vars

\* The detail view shows what ran in its own sandbox.
OutputIsOwn == view = "detail" /\ output # Nil => output = detail
=============================================================================
