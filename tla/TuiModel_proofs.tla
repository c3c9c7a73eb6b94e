--------------------------- MODULE TuiModel_proofs ---------------------------
(***************************************************************************)
(* Proofs about TuiModel, for any number of commands in flight, of requests *)
(* that fail and of changes by others.                                     *)
(***************************************************************************)
EXTENDS TuiModel, TLAPS, SequenceTheorems

\* Every slot holds a command.
CmdsOK ==
    /\ cmds = [c \in Slots |-> cmds[c]]
    /\ \A c \in Slots : cmds[c] = [kind |-> cmds[c].kind, id |-> cmds[c].id,
                                   state |-> cmds[c].state, rows |-> cmds[c].rows]

WaitInv == CmdsOK /\ WaitsForSomething
TimerInv == frame \in 0..Frames /\ splashTicks \in Nat /\ TimersApart

-----------------------------------------------------------------------------
(* What each kind of step does to the commands in flight.                  *)

\* A new command takes a free slot: none that is on its way is lost.
LEMMA SendKeeps ==
  ASSUME CmdsOK, NEW kind, NEW id, Send(kind, id)
  PROVE  /\ CmdsOK'
         /\ \A c \in Slots : cmds[c].kind # "none" => cmds'[c].kind = cmds[c].kind
         /\ \E c \in Slots : cmds'[c].kind = kind
  <1>1. PICK c \in Slots : cmds[c].kind = "none" /\ cmds' = [cmds EXCEPT ![c] = New(kind, id)]
    BY DEF Send, Free
  <1>2. cmds'[c] = New(kind, id) /\ \A d \in Slots : d # c => cmds'[d] = cmds[d]
    BY <1>1 DEF CmdsOK
  <1>3. CmdsOK'
    BY <1>1, <1>2 DEF CmdsOK, New
  <1> QED BY <1>1, <1>2, <1>3 DEF New

\* A result leaves its slot to a fetch or to nothing.
LEMMA ResultKeeps ==
  ASSUME CmdsOK, NEW c \in Slots, NEW kind, NEW id, cmds' = [cmds EXCEPT ![c] = New(kind, id)]
  PROVE  CmdsOK' /\ \A d \in Slots : d # c => cmds'[d] = cmds[d]
  BY DEF CmdsOK, New

\* The server's answer comes to the command that asked.
LEMMA ServeKeeps ==
  ASSUME CmdsOK, NEW c \in Slots, Serve(c)
  PROVE  CmdsOK' /\ \A d \in Slots : cmds'[d].kind = cmds[d].kind
  <1> DEFINE New2(state, rows) == [kind |-> cmds[c].kind, id |-> cmds[c].id,
                                   state |-> state, rows |-> rows]
  <1>1. PICK state, rows : cmds' = [cmds EXCEPT ![c] = New2(state, rows)]
    BY DEF Serve
  <1>2. cmds'[c] = New2(state, rows) /\ \A d \in Slots : d # c => cmds'[d] = cmds[d]
    BY <1>1 DEF CmdsOK
  <1> QED BY <1>1, <1>2 DEF CmdsOK

-----------------------------------------------------------------------------
(* The interface waits for something. *)

\* A step that keeps every command on its way and starts none that is waited
\* for keeps the invariant.
LEMMA KeepsWaiting ==
  ASSUME WaitInv, CmdsOK',
         \A c \in Slots : cmds[c].kind # "none" => cmds'[c].kind = cmds[c].kind,
         busy' => busy \/ \E c \in Slots : cmds'[c].kind \in ActionKinds,
         view' = "detail" /\ running' =>
            \/ view = "detail" /\ running
            \/ \E c \in Slots : cmds'[c].kind = "exec"
  PROVE  WaitInv'
  BY DEF WaitInv, WaitsForSomething, InFlight, ActionKinds

LEMMA WaitKept == WaitInv /\ [Next]_vars => WaitInv'
  <1> SUFFICES ASSUME WaitInv, [Next]_vars PROVE WaitInv'
    OBVIOUS
  <1> USE DEF listVars, flagVars, detailVars, timerVars
  <1>c. CmdsOK
    BY DEF WaitInv
  <1>s. ASSUME UNCHANGED cmds PROVE CmdsOK' /\ \A c \in Slots : cmds'[c].kind = cmds[c].kind
    BY <1>c, <1>s DEF CmdsOK
  <1>1. CASE SplashKey
    <2>1. CASE UNCHANGED <<view, cmds>>
      BY <1>1, <1>s, <2>1, KeepsWaiting DEF SplashKey
    <2>2. CASE view' = "list" /\ Send("fetch", Nil)
      BY <1>1, <1>c, <2>2, SendKeeps, KeepsWaiting DEF SplashKey
    <2> QED BY <1>1, <2>1, <2>2 DEF SplashKey
  <1>2. CASE Refresh
    BY <1>2, <1>c, SendKeeps, KeepsWaiting DEF Refresh
  <1>3. CASE Create
    <2>1. /\ CmdsOK' /\ \A c \in Slots : cmds[c].kind # "none" => cmds'[c].kind = cmds[c].kind
          /\ \E c \in Slots : cmds'[c].kind = "create"
      BY <1>3, <1>c, SendKeeps DEF Create
    <2> QED BY <1>3, <2>1, KeepsWaiting DEF Create, ActionKinds
  <1>4. CASE Toggle
    <2>1. PICK kind \in {"pause", "resume"} : Send(kind, Selected.id)
      BY <1>4 DEF Toggle
    <2>2. /\ CmdsOK' /\ \A c \in Slots : cmds[c].kind # "none" => cmds'[c].kind = cmds[c].kind
          /\ \E c \in Slots : cmds'[c].kind = kind
      BY <2>1, <1>c, SendKeeps
    <2> QED BY <1>4, <2>2, KeepsWaiting DEF Toggle, ActionKinds
  <1>5. CASE AskDelete
    BY <1>5, <1>s, KeepsWaiting DEF AskDelete
  <1>6. CASE OpenDetail
    BY <1>6, <1>s, KeepsWaiting DEF OpenDetail
  <1>7. CASE Navigate
    BY <1>7, <1>s, KeepsWaiting DEF Navigate
  <1>8. CASE Quit
    BY <1>8, <1>s, KeepsWaiting DEF Quit
  <1>9. CASE Confirm
    <2>1. CASE busy' = TRUE /\ Send("delete", Selected.id)
      <3>1. /\ CmdsOK' /\ \A c \in Slots : cmds[c].kind # "none" => cmds'[c].kind = cmds[c].kind
            /\ \E c \in Slots : cmds'[c].kind = "delete"
        BY <2>1, <1>c, SendKeeps
      <3> QED BY <1>9, <3>1, KeepsWaiting DEF Confirm, ActionKinds
    <2>2. CASE UNCHANGED <<busy, cmds>>
      BY <1>9, <1>s, <2>2, KeepsWaiting DEF Confirm
    <2> QED BY <1>9, <2>1, <2>2 DEF Confirm
  <1>10. CASE RunExec
    <2>1. /\ CmdsOK' /\ \A c \in Slots : cmds[c].kind # "none" => cmds'[c].kind = cmds[c].kind
          /\ \E c \in Slots : cmds'[c].kind = "exec"
      BY <1>10, <1>c, SendKeeps DEF RunExec
    <2> QED BY <1>10, <2>1, KeepsWaiting DEF RunExec
  <1>11. CASE Back
    BY <1>11, <1>c, SendKeeps, KeepsWaiting DEF Back
  <1>12. CASE SplashTick
    BY <1>12, <1>s, KeepsWaiting DEF SplashTick
  <1>13. CASE Tick
    <2>1. CASE Send("fetch", Nil)
      BY <1>13, <1>c, <2>1, SendKeeps, KeepsWaiting DEF Tick, uiVars
    <2>2. CASE UNCHANGED cmds
      BY <1>13, <1>s, <2>2, KeepsWaiting DEF Tick, uiVars
    <2> QED BY <1>13, <2>1, <2>2 DEF Tick
  <1>14. ASSUME NEW c \in Slots, ActionResult(c) PROVE WaitInv'
    <2>1. CmdsOK' /\ \A d \in Slots : d # c => cmds'[d] = cmds[d]
      BY <1>14, <1>c, ResultKeeps DEF ActionResult
    <2>2. cmds[c].kind \in ActionKinds /\ busy' = FALSE /\ UNCHANGED <<view, running>>
      BY <1>14 DEF ActionResult, Take
    <2> QED BY <2>1, <2>2 DEF WaitInv, WaitsForSomething, InFlight, ActionKinds
  <1>15. ASSUME NEW c \in Slots, RefreshResult(c) PROVE WaitInv'
    <2>1. CmdsOK' /\ \A d \in Slots : d # c => cmds'[d] = cmds[d]
      BY <1>15, <1>c, ResultKeeps DEF RefreshResult, Drop, NoCmd
    <2>2. cmds[c].kind = "fetch" /\ UNCHANGED <<view, running, busy>>
      BY <1>15 DEF RefreshResult, Take
    <2> QED BY <2>1, <2>2 DEF WaitInv, WaitsForSomething, InFlight, ActionKinds
  <1>16. ASSUME NEW c \in Slots, ExecResult(c) PROVE WaitInv'
    <2>1. CmdsOK' /\ \A d \in Slots : d # c => cmds'[d] = cmds[d]
      BY <1>16, <1>c, ResultKeeps DEF ExecResult, Drop, NoCmd
    <2>2. cmds[c].kind = "exec" /\ UNCHANGED <<view, busy>> /\ (view = "detail" => running' = FALSE)
      BY <1>16 DEF ExecResult, Take
    <2> QED BY <2>1, <2>2 DEF WaitInv, WaitsForSomething, InFlight, ActionKinds
  <1>17. ASSUME NEW c \in Slots, Serve(c) PROVE WaitInv'
    BY <1>17, <1>c, ServeKeeps, KeepsWaiting DEF Serve, uiVars
  <1>18. CASE Change
    BY <1>18, <1>s, KeepsWaiting DEF Change, uiVars
  <1>19. CASE UNCHANGED vars
    BY <1>19, <1>s, KeepsWaiting DEF vars, uiVars
  <1> QED BY <1>1, <1>2, <1>3, <1>4, <1>5, <1>6, <1>7, <1>8, <1>9, <1>10, <1>11, <1>12, <1>13,
             <1>14, <1>15, <1>16, <1>17, <1>18, <1>19 DEF Next

\* While the interface is busy the result of an action is on its way, and
\* while a detail view takes no command the result of one is, whatever fails
\* and however results overtake each other.
THEOREM NeverWaitsForNothing == Spec => []WaitsForSomething
  <1>1. Init => WaitInv
    BY DEF Init, WaitInv, CmdsOK, WaitsForSomething, NoCmd, New
  <1>2. WaitInv => WaitsForSomething
    BY DEF WaitInv
  <1> QED BY <1>1, <1>2, WaitKept, PTL DEF Spec

-----------------------------------------------------------------------------
(* The timers. *)

LEMMA TimersKept == TimerInv /\ [Next]_vars => TimerInv'
  <1> SUFFICES ASSUME TimerInv, [Next]_vars PROVE TimerInv'
    OBVIOUS
  <1> USE DEF timerVars, uiVars, TimerInv, TimersApart
  <1>1. ASSUME UNCHANGED <<view, timerVars>> PROVE TimerInv'
    BY <1>1
  <1>2. ASSUME UNCHANGED timerVars, view' # "splash" PROVE TimerInv'
    BY <1>2
  <1>f. Frames \in Nat \ {0}
    BY TuiAssumption
  <1>3. CASE SplashKey
    BY <1>3, <1>f DEF SplashKey
  <1>4. CASE SplashTick
    BY <1>4, <1>f DEF SplashTick
  <1>5. CASE Tick \/ Change \/ \E c \in Slots : Serve(c)
    BY <1>1, <1>5 DEF Tick, Change, Serve
  <1>6. CASE OpenDetail \/ Back
    BY <1>2, <1>6 DEF OpenDetail, Back
  <1>7. CASE \/ Refresh \/ Create \/ Toggle \/ AskDelete
             \/ Navigate \/ Quit \/ Confirm \/ RunExec
    BY <1>1, <1>7 DEF Refresh, Create, Toggle, AskDelete, Navigate, Quit, Confirm, RunExec
  <1>8. CASE \E c \in Slots : ActionResult(c) \/ RefreshResult(c) \/ ExecResult(c)
    BY <1>1, <1>8 DEF ActionResult, RefreshResult, ExecResult
  <1>9. CASE UNCHANGED vars
    BY <1>1, <1>9 DEF vars
  <1> QED BY <1>3, <1>4, <1>5, <1>6, <1>7, <1>8, <1>9 DEF Next

\* One tick is always on its way, and a frame of the splash as long as the
\* banner is not revealed, whatever keys are pressed.
THEOREM TimersStayApart == Spec => []TimersApart
  <1>1. Init => TimerInv
    BY TuiAssumption DEF Init, TimerInv, TimersApart
  <1>2. TimerInv => TimersApart
    BY DEF TimerInv
  <1> QED BY <1>1, <1>2, TimersKept, PTL DEF Spec
-----------------------------------------------------------------------------
(* Types: above all that no list of rows, the server's, a shown one or one  *)
(* on its way, ever names a sandbox twice.                                  *)

ScreenOK ==
    /\ view \in {"splash", "list", "detail"} /\ frame \in 0..Frames
    /\ cursor \in Nat
    /\ busy \in BOOLEAN /\ failed \in BOOLEAN /\ confirm \in BOOLEAN
    /\ detail \in Ids \cup {Nil} /\ output \in Ids \cup {Nil} /\ asked \in Ids \cup {Nil}
    /\ running \in BOOLEAN
    /\ ticks \in Nat /\ splashTicks \in Nat
    /\ quit \in BOOLEAN
    /\ keys \in 0..MaxKeys

CmdOK(cmd) ==
    /\ cmd.kind \in ActionKinds \cup {"fetch", "exec", "none"}
    /\ cmd.id \in Ids \cup {Nil}
    /\ cmd.state \in {"sent", "ok", "error"}
    /\ IsRows(cmd.rows)

\* The server draws ever higher ids.
TableOK == IsRows(server) /\ drawn \in 0..MaxIds /\ \A i \in 1..Len(server) : server[i].id <= drawn

AllCmdsOK == CmdsOK /\ \A c \in Slots : CmdOK(cmds[c])

TypeInv ==
    /\ ScreenOK /\ IsRows(items) /\ AllCmdsOK
    /\ TableOK /\ changes \in 0..MaxChanges /\ faults \in 0..MaxFaults

LEMMA NoRowsAreRows == IsRows(<<>>)
  BY DEF IsRows

LEMMA NewIsOK ==
  ASSUME NEW kind \in ActionKinds \cup {"fetch", "exec", "none"}, NEW id \in Ids \cup {Nil}
  PROVE  CmdOK(New(kind, id))
  BY NoRowsAreRows DEF New, CmdOK

\* A row more, with an id that none has.
LEMMA RowAdded ==
  ASSUME NEW s, IsRows(s), NEW x \in Row, \A i \in 1..Len(s) : s[i].id # x.id
  PROVE  IsRows(<<x>> \o s)
  <1> DEFINE t == <<x>> \o s
  <1>0. s \in Seq(Row) /\ <<x>> \in Seq(Row) /\ Len(<<x>>) = 1 /\ <<x>>[1] = x
    BY DEF IsRows
  <1>1. t \in Seq(Row) /\ Len(t) = 1 + Len(s) /\ t[1] = x
    BY <1>0, ConcatProperties
  <1>2. \A i \in 2..Len(t) : t[i] = s[i - 1] /\ i - 1 \in 1..Len(s)
    BY <1>0, <1>1, ConcatProperties
  <1>3. ASSUME NEW i \in 1..Len(t), NEW j \in 1..Len(t), t[i].id = t[j].id PROVE i = j
    <2>1. CASE i = 1 /\ j # 1
      <3>1. t[j] = s[j - 1] /\ j - 1 \in 1..Len(s)
        BY <1>0, <1>1, <1>2, <2>1
      <3> QED BY <1>1, <1>3, <2>1, <3>1
    <2>2. CASE i # 1 /\ j = 1
      <3>1. t[i] = s[i - 1] /\ i - 1 \in 1..Len(s)
        BY <1>0, <1>1, <1>2, <2>2
      <3> QED BY <1>1, <1>3, <2>2, <3>1
    <2>3. CASE i # 1 /\ j # 1
      <3>1. t[i] = s[i - 1] /\ i - 1 \in 1..Len(s) /\ t[j] = s[j - 1] /\ j - 1 \in 1..Len(s)
        BY <1>0, <1>1, <1>2, <2>3
      <3>2. i - 1 = j - 1
        BY <1>3, <3>1 DEF IsRows
      <3> QED BY <1>0, <1>1, <3>2
    <2> QED BY <2>1, <2>2, <2>3
  <1> HIDE DEF t
  <1> QED BY <1>1, <1>3 DEF IsRows, t

\* A row less.
LEMMA RowRemoved ==
  ASSUME NEW s, IsRows(s), NEW k \in 1..Len(s)
  PROVE  LET t == SubSeq(s, 1, k - 1) \o SubSeq(s, k + 1, Len(s)) IN
         IsRows(t) /\ \A i \in 1..Len(t) : \E j \in 1..Len(s) : t[i] = s[j]
  <1> DEFINE a == SubSeq(s, 1, k - 1)
             b == SubSeq(s, k + 1, Len(s))
             t == a \o b
             At(i) == IF i < k THEN i ELSE i + 1
  <1>0. s \in Seq(Row) /\ Len(s) \in Nat /\ k \in Nat
    BY DEF IsRows
  <1>1. /\ a \in Seq(Row) /\ Len(a) = k - 1 /\ \A i \in 1..(k - 1) : a[i] = s[i]
    BY <1>0, SubSeqProperties
  <1>2. /\ b \in Seq(Row) /\ Len(b) = Len(s) - k /\ \A i \in 1..(Len(s) - k) : b[i] = s[k + i]
    <2>1. k + 1 \in Int /\ Len(s) \in Int /\ \A i \in (k + 1)..Len(s) : s[i] \in Row
      BY <1>0, ElementOfSeq
    <2>2. /\ b \in Seq(Row)
          /\ Len(b) = IF k + 1 <= Len(s) THEN Len(s) - (k + 1) + 1 ELSE 0
          /\ \A i \in 1..(Len(s) - (k + 1) + 1) : b[i] = s[(k + 1) + i - 1]
      BY <2>1, SubSeqProperties
    <2>3. Len(b) = Len(s) - k
      BY <1>0, <2>2
    <2>4. ASSUME NEW i \in 1..(Len(s) - k) PROVE b[i] = s[k + i]
      <3>1. (k + 1) + i - 1 = k + i /\ i \in 1..(Len(s) - (k + 1) + 1)
        BY <1>0
      <3> QED BY <2>2, <3>1
    <2> HIDE DEF b
    <2> QED BY <2>2, <2>3, <2>4
  <1> HIDE DEF a, b
  <1>3. t \in Seq(Row) /\ Len(t) = Len(s) - 1
    <2>1. t \in Seq(Row) /\ Len(t) = Len(a) + Len(b)
      BY <1>1, <1>2, ConcatProperties
    <2>2. Len(a) + Len(b) = Len(s) - 1
      BY <1>0, <1>1, <1>2
    <2> QED BY <2>1, <2>2
  <1>4. ASSUME NEW i \in 1..Len(t) PROVE At(i) \in 1..Len(s) /\ t[i] = s[At(i)]
    <2>1. CASE i < k
      BY <1>0, <1>1, <1>2, <1>3, <2>1, ConcatProperties
    <2>2. CASE i >= k
      <3>1. t[i] = b[i - Len(a)]
        BY <1>0, <1>1, <1>2, <1>3, <2>2, ConcatProperties
      <3> QED BY <1>0, <1>1, <1>2, <1>3, <2>2, <3>1
    <2> QED BY <1>0, <1>3, <2>1, <2>2
  <1> HIDE DEF t
  <1>5. ASSUME NEW i \in 1..Len(t), NEW j \in 1..Len(t), t[i].id = t[j].id PROVE i = j
    <2>1. At(i) = At(j)
      BY <1>4, <1>5 DEF IsRows
    <2> QED BY <1>0, <1>3, <2>1
  <1>6. IsRows(t)
    BY <1>3, <1>5 DEF IsRows
  <1> QED BY <1>4, <1>6 DEF t, a, b
\* A row with another status.
LEMMA RowChanged ==
  ASSUME IsRows(server), NEW id \in Ids, NEW status \in {"running", "paused"}
  PROVE  /\ IsRows(WithStatus(id, status)) /\ Len(WithStatus(id, status)) = Len(server)
         /\ \A i \in 1..Len(server) : WithStatus(id, status)[i].id = server[i].id
  <1> DEFINE t == WithStatus(id, status)
  <1>0. server \in Seq(Row) /\ Len(server) \in Nat /\ DOMAIN server = 1..Len(server)
    BY LenProperties DEF IsRows
  <1>1. \A i \in 1..Len(server) : server[i] \in Row
    BY <1>0, ElementOfSeq
  <1>2. \A i \in 1..Len(server) : t[i] \in Row /\ t[i].id = server[i].id
    BY <1>0, <1>1 DEF WithStatus, Row
  <1>3. t = [i \in 1..Len(server) |-> t[i]]
    BY <1>0 DEF WithStatus
  <1>4. t \in [1..Len(server) -> Row]
    BY <1>2, <1>3
  <1>5. t \in Seq(Row) /\ Len(t) = Len(server)
    BY <1>0, <1>4, IsASeq, LenProperties
  <1> HIDE DEF t
  <1>6. IsRows(t)
    BY <1>2, <1>5 DEF IsRows
  <1> QED BY <1>2, <1>5, <1>6 DEF t

LEMMA RemoveKeeps ==
  ASSUME TableOK, NEW id, Remove(id, {"running", "paused"}), UNCHANGED drawn
  PROVE  TableOK'
  <1>1. PICK k \in 1..Len(server) :
            server' = SubSeq(server, 1, k - 1) \o SubSeq(server, k + 1, Len(server))
    <2> DEFINE k == CHOOSE i \in DOMAIN server : server[i].id = id
    <2>1. k \in DOMAIN server
      BY DEF Remove, Has
    <2>2. server' = SubSeq(server, 1, k - 1) \o SubSeq(server, k + 1, Len(server))
      BY DEF Remove, Without
    <2>3. DOMAIN server = 1..Len(server)
      BY LenProperties DEF TableOK, IsRows
    <2> HIDE DEF k
    <2> QED BY <2>1, <2>2, <2>3
  <1>2. IsRows(server') /\ \A i \in 1..Len(server') : \E j \in 1..Len(server) : server'[i] = server[j]
    BY <1>1, RowRemoved DEF TableOK
  <1> QED BY <1>2 DEF TableOK

LEMMA CarryKeeps ==
  ASSUME TableOK, NEW kind, NEW id \in Ids \cup {Nil}, Carry(kind, id)
  PROVE  TableOK'
  <1>0. /\ server \in Seq(Row) /\ Len(server) \in Nat /\ DOMAIN server = 1..Len(server)
        /\ MaxIds \in Nat /\ drawn \in Nat /\ Nil \notin Ids
    BY LenProperties, TuiAssumption DEF TableOK, IsRows, Ids
  <1>a. \A i \in 1..Len(server) : server[i] \in Row
    BY <1>0, ElementOfSeq
  <1>1. \A i \in 1..Len(server) : server[i] \in Row /\ server[i].id \in Ids
    BY <1>a DEF Row
  <1>2. CASE drawn < MaxIds /\ drawn' = drawn + 1
             /\ server' = <<[id |-> drawn + 1, status |-> "running"]>> \o server
    <2> DEFINE x == [id |-> drawn + 1, status |-> "running"]
    <2>1. x \in Row /\ x.id = drawn + 1
      BY <1>0, <1>2 DEF Row, Ids
    <2> HIDE DEF x
    <2>2. \A i \in 1..Len(server) : server[i].id # x.id
      BY <1>0, <1>1, <2>1 DEF TableOK, Ids
    <2>3. IsRows(<<x>> \o server)
      BY <2>1, <2>2, RowAdded DEF TableOK
    <2>4. <<x>> \in Seq(Row) /\ Len(<<x>>) = 1 /\ <<x>>[1] = x
      BY <2>1
    <2>5. /\ Len(<<x>> \o server) = 1 + Len(server) /\ (<<x>> \o server)[1] = x
          /\ \A i \in 2..(1 + Len(server)) : (<<x>> \o server)[i] = server[i - 1]
      BY <1>0, <2>4, ConcatProperties
    <2>6. server' = <<x>> \o server
      BY <1>2 DEF x
    <2>7. ASSUME NEW i \in 1..Len(server') PROVE server'[i].id <= drawn'
      <3>1. CASE i = 1
        BY <1>0, <1>2, <2>1, <2>5, <2>6, <3>1
      <3>2. CASE i # 1
        <4>1. server'[i] = server[i - 1] /\ i - 1 \in 1..Len(server)
          BY <1>0, <2>5, <2>6, <3>2
        <4>2. server[i - 1].id <= drawn /\ server[i - 1].id \in Nat
          BY <1>1, <4>1 DEF TableOK, Ids
        <4> QED BY <1>0, <1>2, <4>1, <4>2
      <3> QED BY <3>1, <3>2
    <2>8. drawn' \in 0..MaxIds
      BY <1>0, <1>2
    <2> QED BY <2>3, <2>6, <2>7, <2>8 DEF TableOK
  <1>3. ASSUME NEW st \in {"running", "paused"}, Has(id, {"running", "paused"}),
               server' = WithStatus(id, st), drawn' = drawn
        PROVE  TableOK'
    <2>1. id \in Ids
      BY <1>0, <1>1, <1>3 DEF Has
    <2> QED BY <1>3, <2>1, RowChanged DEF TableOK
  <1>4. CASE Remove(id, {"running", "paused"}) /\ drawn' = drawn
    BY <1>4, RemoveKeeps
  <1>5. CASE UNCHANGED <<server, drawn>>
    BY <1>5 DEF TableOK
  <1>6. \A st : Has(id, {st}) /\ st \in {"running", "paused"} => Has(id, {"running", "paused"})
    BY DEF Has
  <1> QED BY <1>2, <1>3, <1>4, <1>5, <1>6 DEF Carry, Remove

LEMMA SendOK ==
  ASSUME AllCmdsOK, NEW kind \in ActionKinds \cup {"fetch", "exec"}, NEW id \in Ids \cup {Nil}, Send(kind, id)
  PROVE  AllCmdsOK'
  <1>1. PICK c \in Slots : cmds' = [cmds EXCEPT ![c] = New(kind, id)]
    BY DEF Send, Free
  <1>2. cmds'[c] = New(kind, id) /\ \A d \in Slots : d # c => cmds'[d] = cmds[d]
    BY <1>1 DEF AllCmdsOK, CmdsOK
  <1>3. \A d \in Slots : CmdOK(cmds'[d])
    BY <1>2, NewIsOK DEF AllCmdsOK
  <1>4. CmdsOK'
    BY SendKeeps DEF AllCmdsOK
  <1> QED BY <1>3, <1>4 DEF AllCmdsOK, CmdOK

\* The command of slot c is replaced by a well-formed one.
LEMMA PutOK ==
  ASSUME AllCmdsOK, NEW c \in Slots, NEW kind, NEW id, NEW state, NEW rows,
         CmdOK([kind |-> kind, id |-> id, state |-> state, rows |-> rows]),
         cmds' = [cmds EXCEPT ![c] = [kind |-> kind, id |-> id, state |-> state, rows |-> rows]]
  PROVE  AllCmdsOK'
  <1> DEFINE cmd == [kind |-> kind, id |-> id, state |-> state, rows |-> rows]
  <1>1. cmds'[c] = cmd /\ \A d \in Slots : d # c => cmds'[d] = cmds[d]
    BY DEF AllCmdsOK, CmdsOK
  <1>2. \A d \in Slots : CmdOK(cmds'[d])
    BY <1>1 DEF AllCmdsOK
  <1>3. CmdsOK'
    BY <1>1 DEF AllCmdsOK, CmdsOK
  <1> QED BY <1>2, <1>3 DEF AllCmdsOK, CmdOK

LEMMA ServeOK ==
  ASSUME AllCmdsOK, TableOK, NEW c \in Slots, Serve(c)
  PROVE  AllCmdsOK' /\ TableOK'
  <1>1. CmdOK(cmds[c]) /\ cmds[c].id \in Ids \cup {Nil}
    BY DEF AllCmdsOK, CmdOK
  <1>2. TableOK'
    BY <1>1, CarryKeeps DEF Serve, TableOK
  <1>3. PICK state \in {"ok", "error"}, rows \in {server, <<>>} :
           cmds' = [cmds EXCEPT ![c] = [kind |-> cmds[c].kind, id |-> cmds[c].id,
                                        state |-> state, rows |-> rows]]
    BY DEF Serve
  <1>4. CmdOK([kind |-> cmds[c].kind, id |-> cmds[c].id, state |-> state, rows |-> rows])
    BY <1>1, NoRowsAreRows DEF CmdOK, TableOK
  <1>5. AllCmdsOK'
    BY <1>3, <1>4, PutOK
  <1> QED BY <1>2, <1>5

\* What is selected is one of the rows shown.
LEMMA SelectedIsRow ==
  ASSUME IsRows(items), cursor \in Nat, Selected # Nil
  PROVE  Selected \in Row /\ Selected.id \in Ids
  <1>1. Selected \in Row
    BY ElementOfSeq DEF Selected, IsRows
  <1> QED BY <1>1 DEF Row

LEMMA TypeInit == Init => TypeInv
  <1> SUFFICES ASSUME Init PROVE TypeInv
    OBVIOUS
  <1>0. First \in Nat /\ MaxIds \in Nat /\ First <= MaxIds /\ Frames \in Nat /\ MaxKeys \in Nat
        /\ MaxChanges \in Nat /\ MaxFaults \in Nat
    BY TuiAssumption
  <1>1. ScreenOK
    <2>1. /\ busy \in BOOLEAN /\ failed \in BOOLEAN /\ confirm \in BOOLEAN
          /\ running \in BOOLEAN /\ quit \in BOOLEAN
      BY Zenon DEF Init
    <2>2. frame \in 0..Frames /\ cursor \in Nat /\ ticks \in Nat /\ splashTicks \in Nat /\ keys \in 0..MaxKeys
      BY <1>0 DEF Init
    <2> QED BY <2>1, <2>2 DEF Init, ScreenOK
  <1>2. IsRows(items)
    BY NoRowsAreRows DEF Init
  <1>3. AllCmdsOK
    BY NewIsOK DEF Init, AllCmdsOK, CmdsOK, NoCmd, New
  <1>4. TableOK
    <2> DEFINE rows == [i \in 1..First |-> [id |-> First + 1 - i, status |-> "running"]]
    <2>1. \A i \in 1..First : rows[i] \in Row /\ rows[i].id = First + 1 - i
      BY <1>0 DEF Row, Ids
    <2>2. rows \in [1..First -> Row]
      BY <2>1
    <2>3. rows \in Seq(Row) /\ Len(rows) = First
      BY <1>0, <2>2, IsASeq, LenProperties
    <2> HIDE DEF rows
    <2>4. ASSUME NEW i \in 1..First, NEW j \in 1..First, rows[i].id = rows[j].id PROVE i = j
      BY <1>0, <2>1, <2>4
    <2>5. IsRows(rows)
      BY <2>3, <2>4 DEF IsRows
    <2>6. server = rows /\ drawn = First
      BY DEF Init, rows
    <2> QED BY <1>0, <2>1, <2>3, <2>5, <2>6 DEF TableOK
  <1> QED BY <1>0, <1>1, <1>2, <1>3, <1>4 DEF TypeInv, Init

LEMMA TypeNext == TypeInv /\ [Next]_vars => TypeInv'
  <1> SUFFICES ASSUME TypeInv, [Next]_vars PROVE TypeInv'
    OBVIOUS
  <1>0. /\ ScreenOK /\ IsRows(items) /\ AllCmdsOK /\ TableOK
        /\ changes \in 0..MaxChanges /\ faults \in 0..MaxFaults
        /\ MaxKeys \in Nat /\ MaxChanges \in Nat /\ MaxFaults \in Nat /\ Frames \in Nat /\ Nil \notin Ids
    BY TuiAssumption DEF TypeInv, Ids
  <1>a. ASSUME UNCHANGED cmds PROVE AllCmdsOK'
    BY <1>0, <1>a DEF AllCmdsOK, CmdsOK, CmdOK
  <1>b. ASSUME UNCHANGED serverVars
        PROVE  TableOK' /\ changes' \in 0..MaxChanges /\ faults' \in 0..MaxFaults
    BY <1>0, <1>b DEF TableOK, serverVars
  <1>c. ASSUME UNCHANGED uiVars PROVE ScreenOK' /\ IsRows(items')
    BY <1>0, <1>c DEF ScreenOK, uiVars, listVars, flagVars, detailVars, timerVars
  <1>d. Asking => keys' \in 0..MaxKeys
    BY <1>0 DEF Asking, ScreenOK
  <1>e. Selected # Nil => Selected.id \in Ids
    BY <1>0, SelectedIsRow DEF ScreenOK
  <1> USE DEF listVars, flagVars, detailVars, timerVars
  <1>1. CASE SplashKey \/ Refresh \/ Create \/ RunExec \/ Back
    <2>1. UNCHANGED serverVars /\ UNCHANGED items /\ ScreenOK'
      <3>1. CASE SplashKey
        BY <1>0, <1>d, <3>1 DEF SplashKey, Key, ScreenOK
      <3>2. CASE Refresh \/ Back
        BY <1>0, <1>d, <3>2 DEF Refresh, Back, Key, ListKey, ScreenOK
      <3>3. CASE Create \/ RunExec
        BY <1>0, <1>d, <3>3 DEF Create, RunExec, Key, ListKey, ScreenOK
      <3> QED BY <1>1, <3>1, <3>2, <3>3
    <2>2. UNCHANGED cmds \/ \E kind \in {"fetch", "create", "exec"}, id \in Ids \cup {Nil} : Send(kind, id)
      BY <1>0, <1>1 DEF SplashKey, Refresh, Create, RunExec, Back, ScreenOK
    <2>3. AllCmdsOK'
      BY <1>0, <1>a, <2>2, SendOK DEF ActionKinds
    <2> QED BY <1>0, <1>b, <2>1, <2>3 DEF TypeInv
  <1>2. CASE Toggle \/ Confirm
    <2>1. UNCHANGED serverVars /\ UNCHANGED items /\ ScreenOK'
      BY <1>0, <1>2, <1>d DEF Toggle, Confirm, Key, ListKey, ScreenOK
    <2>2. UNCHANGED cmds \/ \E kind \in {"pause", "resume", "delete"}, id \in Ids : Send(kind, id)
      BY <1>0, <1>2, <1>e DEF Toggle, Confirm
    <2>3. AllCmdsOK'
      BY <1>0, <1>a, <2>2, SendOK DEF ActionKinds
    <2> QED BY <1>0, <1>b, <2>1, <2>3 DEF TypeInv
  <1>3. CASE AskDelete \/ OpenDetail \/ Quit
    <2>1. UNCHANGED <<serverVars, cmds, items>> /\ ScreenOK'
      BY <1>0, <1>3, <1>e DEF AskDelete, OpenDetail, Quit, Key, ListKey, ScreenOK
    <2> QED BY <1>0, <1>a, <1>b, <2>1 DEF TypeInv
  <1>4. CASE Navigate
    <2>1. UNCHANGED <<serverVars, cmds, items>> /\ ScreenOK'
      BY <1>0, <1>4 DEF Navigate, Key, ListKey, ScreenOK
    <2> QED BY <1>0, <1>a, <1>b, <2>1 DEF TypeInv
  <1>5. CASE SplashTick
    <2>1. UNCHANGED <<serverVars, cmds, items>> /\ ScreenOK'
      BY <1>0, <1>5 DEF SplashTick, ScreenOK
    <2> QED BY <1>0, <1>a, <1>b, <2>1 DEF TypeInv
  <1>6. CASE Tick
    <2>1. AllCmdsOK'
      BY <1>0, <1>6, <1>a, SendOK DEF Tick
    <2> QED BY <1>0, <1>6, <1>b, <1>c, <2>1 DEF Tick, TypeInv
  <1>7. ASSUME NEW c \in Slots, ActionResult(c) \/ RefreshResult(c) \/ ExecResult(c) PROVE TypeInv'
    <2>1. CmdOK(cmds[c])
      BY <1>0 DEF AllCmdsOK
    <2>2. UNCHANGED serverVars /\ ScreenOK' /\ IsRows(items')
      BY <1>0, <1>7, <2>1 DEF ActionResult, RefreshResult, ExecResult, ScreenOK, CmdOK
    <2>3. PICK kind \in {"fetch", "none"} : cmds' = [cmds EXCEPT ![c] = New(kind, Nil)]
      BY <1>7 DEF ActionResult, RefreshResult, ExecResult, Drop, NoCmd
    <2>4. AllCmdsOK'
      BY <1>0, <2>3, NewIsOK, PutOK DEF New
    <2> QED BY <1>b, <2>2, <2>4 DEF TypeInv
  <1>8. ASSUME NEW c \in Slots, Serve(c) PROVE TypeInv'
    <2>1. UNCHANGED uiVars /\ changes' = changes /\ faults' \in 0..MaxFaults
      BY <1>0, <1>8 DEF Serve
    <2> QED BY <1>0, <1>8, <1>c, <2>1, ServeOK DEF TypeInv
  <1>9. CASE Change
    <2>1. UNCHANGED <<uiVars, cmds, faults>> /\ changes' \in 0..MaxChanges
      BY <1>0, <1>9 DEF Change
    <2>2. TableOK'
      BY <1>0, <1>9, CarryKeeps, RemoveKeeps DEF Change
    <2> QED BY <1>0, <1>a, <1>c, <2>1, <2>2 DEF TypeInv
  <1>10. CASE UNCHANGED vars
    BY <1>0, <1>10, <1>a, <1>b, <1>c DEF vars, TypeInv
  <1> QED BY <1>1, <1>2, <1>3, <1>4, <1>5, <1>6, <1>7, <1>8, <1>9, <1>10 DEF Next

\* No list of rows - the server's, the one shown, one on its way from either -
\* ever names a sandbox twice, however creates, deletes and answers that
\* overtake each other interleave; and everything else has its type.
THEOREM RowsAreDistinct == Spec => []TypeOK
  <1>1. TypeInv => TypeOK
    BY DEF TypeInv, TypeOK, ScreenOK, AllCmdsOK, CmdOK, TableOK
  <1> QED BY <1>1, TypeInit, TypeNext, PTL DEF Spec

=============================================================================
