------------------------- MODULE ShellSession_proofs -------------------------
(***************************************************************************)
(* Proofs about ShellSession, for either backend and any amount of input,  *)
(* of output and of room in the buffers: neither direction of the terminal *)
(* loses, repeats or reorders anything.                                    *)
(*                                                                         *)
(* Both proofs cut the stream at the places where it is kept: the output   *)
(* bash made is what the client has seen, then what is in the websocket,   *)
(* in the hand of the handler's pump, in the stream, in the hand of the    *)
(* guest's pump and in the terminal, each beginning where the one before   *)
(* ends.  A step moves a cut; a place that is torn down is no longer asked *)
(* about, and neither are those behind it that could only pass through it. *)
(***************************************************************************)
EXTENDS ShellSession, TLAPS, SequenceTheorems

Kind == {"data", "resize"}
Message == Kind \X Nat

TypeInv ==
    /\ backend \in {"docker", "firecracker"}
    /\ client \in {"on", "gone"} /\ sent \in Seq(Kind) /\ seen \in Seq(Nat)
    /\ wsUp \in Seq(Message) /\ wsDown \in Seq(Seq(Nat))
    /\ host \in {"dial", "upgrade", "read", "write", "done"}
    /\ host = "write" => hand \in Message
    /\ pump \in {"none", "read", "write", "done"} /\ chunk \in Seq(Nat)
    /\ up \in Seq(Message) /\ down \in Seq(Seq(Nat))
    /\ cancelled \in BOOLEAN /\ hostShut \in BOOLEAN /\ guestShut \in BOOLEAN
    /\ guest \in {"none", "read", "write", "drain", "done"}
    /\ guest = "write" => frame \in Message /\ frame[1] = "data"
    /\ gpump \in {"none", "read", "write", "done"} /\ gchunk \in Seq(Nat)
    /\ bash \in {"none", "on", "exited"}
    /\ ttyIn \in Seq(Nat) /\ ttyOut \in Seq(Nat)
    /\ made \in Nat /\ took \in Seq(Nat)

\* Who has started whom: nothing runs in the sandbox before the stream is
\* open, the pump not before the upgrade, and on Docker there is no agent.
StartInv ==
    /\ host = "dial" => bash = "none" /\ guest = "none" /\ gpump = "none"
    /\ host \in {"dial", "upgrade"} => pump = "none"
    /\ backend = "docker" => guest = "none" /\ gpump = "none"

\* What the stream to the sandbox may hold: pieces that fit the handler's
\* buffer and, on Docker, no resize.
Fits(piece) == Len(piece) <= GuestBuf
AllFit(pieces) == \A i \in 1..Len(pieces) : Fits(pieces[i])
OnlyData(messages) == \A i \in 1..Len(messages) : messages[i][1] = "data"

StreamInv ==
    /\ Fits(gchunk) /\ AllFit(down)
    /\ pump # "write" => chunk = <<>>
    /\ gpump \notin {"write", "done"} => gchunk = <<>>
    /\ backend = "docker" => OnlyData(up)

BaseInv == TypeInv /\ StartInv /\ StreamInv

-----------------------------------------------------------------------------
(* Types, starting order, and what the stream holds.                       *)

\* Appending to a queue and taking its head keep what holds of its elements.
LEMMA QueueKeeps ==
  ASSUME NEW S, NEW q \in Seq(S)
  PROVE  /\ Len(q) \in Nat
         /\ \A x \in S : /\ Append(q, x) \in Seq(S) /\ Len(Append(q, x)) = Len(q) + 1
                         /\ \A i \in 1..Len(q) + 1 : Append(q, x)[i] = IF i <= Len(q) THEN q[i] ELSE x
         /\ q # <<>> => /\ Head(q) = q[1] /\ Head(q) \in S /\ Tail(q) \in Seq(S)
                        /\ Len(q) >= 1 /\ Len(Tail(q)) = Len(q) - 1
                        /\ \A i \in 1..Len(q) - 1 : Tail(q)[i] = q[i + 1]
  OBVIOUS

\* A prefix of a sequence and what is left of it.
LEMMA CutTyped ==
  ASSUME NEW q \in Seq(Nat), NEW n \in 0..Len(q)
  PROVE  /\ SubSeq(q, 1, n) \in Seq(Nat) /\ Len(SubSeq(q, 1, n)) = n
         /\ \A i \in 1..n : SubSeq(q, 1, n)[i] = q[i]
         /\ SubSeq(q, n + 1, Len(q)) \in Seq(Nat) /\ Len(SubSeq(q, n + 1, Len(q))) = Len(q) - n
         /\ \A i \in 1..(Len(q) - n) : SubSeq(q, n + 1, Len(q))[i] = q[n + i]
  OBVIOUS

LEMMA NoneTyped == ASSUME NEW S PROVE <<>> \in Seq(S) /\ Len(<<>>) = 0
  OBVIOUS

\* The handler's buffer is large enough for any piece: nothing of it is lost.
LEMMA CopiedWhole ==
  ASSUME NEW q \in Seq(Nat), Fits(q)
  PROVE  Copied(q) = q
  <1>1. Len(q) \in Nat /\ Len(q) <= HostBuf
    BY ShellAssumption DEF Fits
  <1> DEFINE n == IF Len(q) < HostBuf THEN Len(q) ELSE HostBuf
  <1>2. n = Len(q)
    BY <1>1, ShellAssumption
  <1>3. Copied(q) = SubSeq(q, 1, n)
    BY DEF Copied
  <1> QED BY <1>2, <1>3

\* Appending to the stream and reading from it keep what it may hold.
LEMMA StreamKeeps ==
  /\ AllFit(<<>>) /\ OnlyData(<<>>)
  /\ \A q \in Seq(Seq(Nat)), x \in Seq(Nat) : AllFit(q) /\ Fits(x) => AllFit(Append(q, x))
  /\ \A q \in Seq(Message), x \in Message : OnlyData(q) /\ x[1] = "data" => OnlyData(Append(q, x))
  /\ \A q \in Seq(Seq(Nat)) : AllFit(q) /\ q # <<>> => AllFit(Tail(q)) /\ Fits(Head(q))
  /\ \A q \in Seq(Message) : OnlyData(q) /\ q # <<>> => OnlyData(Tail(q)) /\ Head(q)[1] = "data"
  <1>1. ASSUME NEW q \in Seq(Seq(Nat)), NEW x \in Seq(Nat), AllFit(q), Fits(x)
        PROVE  AllFit(Append(q, x))
    BY <1>1 DEF AllFit
  <1>2. ASSUME NEW q \in Seq(Message), NEW x \in Message, OnlyData(q), x[1] = "data"
        PROVE  OnlyData(Append(q, x))
    BY <1>2 DEF OnlyData
  <1>3. ASSUME NEW q \in Seq(Seq(Nat)), AllFit(q), q # <<>>
        PROVE  AllFit(Tail(q)) /\ Fits(Head(q))
    BY <1>3 DEF AllFit
  <1>4. ASSUME NEW q \in Seq(Message), OnlyData(q), q # <<>>
        PROVE  OnlyData(Tail(q)) /\ Head(q)[1] = "data"
    BY <1>4 DEF OnlyData
  <1>5. AllFit(<<>>) /\ OnlyData(<<>>)
    BY DEF AllFit, OnlyData
  <1> QED BY <1>1, <1>2, <1>3, <1>4, <1>5

LEMMA InitBase == Init => BaseInv
  <1> SUFFICES ASSUME Init PROVE BaseInv
    OBVIOUS
  <1>1. /\ <<>> \in Seq(Nat) /\ <<>> \in Seq(Seq(Nat)) /\ <<>> \in Seq(Kind)
        /\ <<>> \in Seq(Message) /\ Len(<<>>) = 0
    BY NoneTyped
  <1>2. AllFit(<<>>) /\ OnlyData(<<>>)
    BY StreamKeeps
  <1>3. Fits(<<>>)
    BY <1>1, ShellAssumption DEF Fits
  <1>4. backend \in {"docker", "firecracker"}
    BY ShellAssumption DEF Init
  <1> QED BY <1>1, <1>2, <1>3, <1>4 DEF Init, BaseInv, TypeInv, StartInv, StreamInv, Nothing

LEMMA HostKeepsBase ==
  ASSUME BaseInv, HostStep
  PROVE  BaseInv'
  <1> USE DEF BaseInv, Nothing
  <1>1. CASE Open
    BY <1>1 DEF Open, HostReturn, DockerOpens, FirecrackerDials, PtyStarts, PtyFails,
                wsVars, TypeInv, StartInv, StreamInv
  <1>2. CASE Upgrade
    <2>1. /\ UNCHANGED <<backend, chunk, up, down, guestShut, wsVars, agentVars, ttyVars>>
          /\ host' \in {"read", "done"} /\ pump' \in {pump, "read"} /\ host = "upgrade"
          /\ hand' \in {hand, Nothing}
      BY <1>2 DEF Upgrade, HostReturn
    <2>2. StreamInv'
      BY <2>1 DEF agentVars, StartInv, StreamInv
    <2>3. TypeInv' /\ StartInv'
      BY <1>2 DEF Upgrade, HostReturn, wsVars, agentVars, ttyVars, TypeInv, StartInv
    <2> QED BY <2>2, <2>3
  <1>3. CASE HostRead
    <2>1. Tail(wsUp) \in Seq(Message) /\ Head(wsUp) \in Message
      <3>1. wsUp \in Seq(Message) /\ wsUp # <<>>
        BY <1>3 DEF HostRead, TypeInv
      <3> QED BY <3>1
    <2> QED BY <1>3, <2>1 DEF HostRead, streamVars, agentVars, ttyVars, TypeInv, StartInv, StreamInv
  <1>4. CASE HostReadFails
    BY <1>4 DEF HostReadFails, HostReturn, wsVars, agentVars, ttyVars, TypeInv, StartInv, StreamInv
  <1>5. CASE HostWrite
    <2>1. up \in Seq(Message) /\ hand \in Message /\ up' = Append(up, hand)
      BY <1>5 DEF HostWrite, WriteFrame, TypeInv
    <2>2. up' \in Seq(Message)
      BY <2>1
    <2>3. backend' = "docker" => OnlyData(up')
      BY <1>5, <2>1, StreamKeeps DEF HostWrite, TypeInv, StreamInv
    <2> QED BY <1>5, <2>2, <2>3 DEF HostWrite, wsVars, agentVars, ttyVars, TypeInv, StartInv, StreamInv
  <1>6. CASE HostResize
    BY <1>6 DEF HostResize, wsVars, streamVars, agentVars, TypeInv, StartInv, StreamInv
  <1>7. CASE HostWriteFails
    <2>1. /\ host = "write" /\ host' \in {"done", "read"} /\ hostShut' \in BOOLEAN /\ cancelled' \in BOOLEAN
          /\ UNCHANGED <<backend, wsVars, pump, chunk, up, down, guestShut, agentVars, ttyVars>>
      BY <1>7 DEF HostWriteFails, HostReturn, TypeInv
    <2> QED BY <2>1 DEF wsVars, agentVars, ttyVars, TypeInv, StartInv, StreamInv
  <1> QED BY <1>1, <1>2, <1>3, <1>4, <1>5, <1>6, <1>7 DEF HostStep

LEMMA PumpKeepsBase ==
  ASSUME BaseInv, PumpStep
  PROVE  BaseInv'
  <1> USE DEF BaseInv, Nothing
  <1>0. <<>> \in Seq(Nat)
    BY NoneTyped
  <1>1. CASE PumpRead
    <2>1. /\ down \in Seq(Seq(Nat)) /\ down # <<>> /\ chunk' = Copied(Head(down)) /\ down' = Tail(down)
          /\ pump = "read" /\ pump' = "write"
          /\ UNCHANGED <<backend, wsVars, host, hand, cancelled, up, hostShut, guestShut, agentVars, ttyVars>>
      BY <1>1 DEF PumpRead, TypeInv
    <2>2. Head(down) \in Seq(Nat) /\ down' \in Seq(Seq(Nat))
      BY <2>1
    <2>3. AllFit(down') /\ Fits(Head(down))
      BY <2>1, StreamKeeps DEF StreamInv
    <2>4. chunk' \in Seq(Nat)
      BY <2>1, <2>2, <2>3, CopiedWhole
    <2> QED BY <2>1, <2>2, <2>3, <2>4 DEF wsVars, agentVars, ttyVars, TypeInv, StartInv, StreamInv
  <1>2. CASE PumpWrite
    <2>1. wsDown \in Seq(Seq(Nat)) /\ chunk \in Seq(Nat) /\ wsDown' = Append(wsDown, chunk)
      BY <1>2 DEF PumpWrite, TypeInv
    <2>2. wsDown' \in Seq(Seq(Nat))
      BY <2>1
    <2> QED BY <1>0, <1>2, <2>2 DEF PumpWrite, streamVars, agentVars, ttyVars, TypeInv, StartInv, StreamInv
  <1>3. CASE PumpEnds
    <2>1. /\ pump \in {"read", "write"} /\ pump' = "done" /\ chunk' = <<>> /\ cancelled' = TRUE
          /\ UNCHANGED <<backend, wsVars, host, hand, streamVars, agentVars, ttyVars>>
      BY <1>3 DEF PumpEnds
    <2> QED BY <1>0, <2>1 DEF wsVars, streamVars, agentVars, ttyVars, TypeInv, StartInv, StreamInv
  <1> QED BY <1>1, <1>2, <1>3 DEF PumpStep

LEMMA GuestKeepsBase ==
  ASSUME BaseInv, GuestStep
  PROVE  BaseInv'
  <1> USE DEF BaseInv, Nothing
  <1>1. CASE GuestRead
    <2>1. /\ up \in Seq(Message) /\ up # <<>> /\ up' = Tail(up) /\ guest = "read"
          /\ guest' \in {"read", "write"} /\ (guest' = "write" => frame' = Head(up) /\ Head(up)[1] = "data")
          /\ UNCHANGED <<backend, wsVars, hostVars, down, hostShut, guestShut, gpump, gchunk,
                         bash, ttyIn, ttyOut, made, took>>
      BY <1>1 DEF GuestRead, TypeInv
    <2>2. Head(up) \in Message /\ up' \in Seq(Message)
      BY <2>1
    <2>3. OnlyData(up) => OnlyData(up')
      BY <2>1, StreamKeeps
    <2> QED BY <2>1, <2>2, <2>3 DEF wsVars, hostVars, TypeInv, StartInv, StreamInv
  <1>2. CASE GuestWrite
    <2>1. frame \in Message /\ ttyIn \in Seq(Nat)
      BY <1>2 DEF GuestWrite, TypeInv
    <2>2. frame[2] \in Nat
      BY <2>1 DEF Message
    <2>3. Append(ttyIn, frame[2]) \in Seq(Nat)
      BY <2>1, <2>2
    <2>4. ttyIn' \in Seq(Nat)
      BY <1>2, <2>1, <2>3 DEF GuestWrite
    <2> QED BY <1>2, <2>4 DEF GuestWrite, wsVars, hostVars, streamVars, TypeInv, StartInv, StreamInv
  <1>3. CASE GuestEOF
    BY <1>3 DEF GuestEOF, wsVars, hostVars, streamVars, ttyVars, TypeInv, StartInv, StreamInv
  <1>4. CASE GuestReturn
    BY <1>4 DEF GuestReturn, wsVars, hostVars, streamVars, ttyVars, TypeInv, StartInv, StreamInv
  <1> QED BY <1>1, <1>2, <1>3, <1>4 DEF GuestStep

LEMMA GuestPumpKeepsBase ==
  ASSUME BaseInv, GuestPumpStep
  PROVE  BaseInv'
  <1> USE DEF BaseInv, Nothing
  <1>0. <<>> \in Seq(Nat) /\ Len(<<>>) = 0
    BY NoneTyped
  <1>1. CASE GuestPumpRead
    <2>1. PICK n \in 1..Len(ttyOut) :
             n <= GuestBuf /\ gchunk' = SubSeq(ttyOut, 1, n) /\ ttyOut' = SubSeq(ttyOut, n + 1, Len(ttyOut))
      BY <1>1 DEF GuestPumpRead
    <2>2. ttyOut \in Seq(Nat) /\ n \in 0..Len(ttyOut)
      BY <2>1 DEF TypeInv
    <2>3. gchunk' \in Seq(Nat) /\ Len(gchunk') = n /\ ttyOut' \in Seq(Nat)
      BY <2>1, <2>2, CutTyped
    <2>4. Fits(gchunk')
      BY <2>1, <2>3 DEF Fits
    <2>5. /\ UNCHANGED <<backend, wsVars, hostVars, streamVars, guest, frame, bash, ttyIn, made, took, size>>
          /\ gpump = "read" /\ gpump' = "write"
      BY <1>1 DEF GuestPumpRead
    <2>6. StreamInv'
      BY <2>4, <2>5 DEF hostVars, streamVars, StreamInv
    <2>7. TypeInv' /\ StartInv'
      BY <2>3, <2>5 DEF wsVars, hostVars, streamVars, TypeInv, StartInv
    <2> QED BY <2>6, <2>7
  <1>2. CASE GuestPumpWrite
    <2>1. Fits(<<>>)
      BY <1>0, ShellAssumption DEF Fits
    <2>2. down \in Seq(Seq(Nat)) /\ gchunk \in Seq(Nat)
      BY DEF TypeInv
    <2>3. Append(down, gchunk) \in Seq(Seq(Nat))
      BY <2>2
    <2>4. AllFit(Append(down, gchunk))
      BY <2>2, StreamKeeps DEF StreamInv
    <2>5. down' \in Seq(Seq(Nat)) /\ AllFit(down')
      BY <1>2, <2>2, <2>3, <2>4 DEF GuestPumpWrite, GuestFrame, StreamInv
    <2> QED BY <1>0, <1>2, <2>1, <2>5 DEF GuestPumpWrite, wsVars, hostVars, ttyVars, TypeInv, StartInv, StreamInv
  <1>3. CASE GuestPumpEnds
    BY <1>3 DEF GuestPumpEnds, wsVars, hostVars, streamVars, ttyVars, TypeInv, StartInv, StreamInv
  <1> QED BY <1>1, <1>2, <1>3 DEF GuestPumpStep

LEMMA RestKeepsBase ==
  ASSUME BaseInv,
         DaemonIn \/ DaemonOut \/ DaemonEnds \/ BashRead \/ BashWrite \/ BashExit \/ SandboxDies
           \/ ClientSend \/ ClientRead \/ ClientLeave
  PROVE  BaseInv'
  <1> USE DEF BaseInv, Nothing
  <1>0. <<>> \in Seq(Nat) /\ <<>> \in Seq(Seq(Nat)) /\ Len(<<>>) = 0
    BY NoneTyped
  <1>1. CASE DaemonIn
    <2>1. up \in Seq(Message) /\ up # <<>> /\ ttyIn \in Seq(Nat) /\ up' = Tail(up)
      BY <1>1 DEF DaemonIn, TypeInv
    <2>2. Tail(up) \in Seq(Message) /\ Head(up) \in Message
      BY <2>1
    <2>3. Head(up)[2] \in Nat
      BY <2>2 DEF Message
    <2>4. Append(ttyIn, Head(up)[2]) \in Seq(Nat)
      BY <2>1, <2>3
    <2>5. ttyIn' \in Seq(Nat)
      BY <1>1, <2>1, <2>4 DEF DaemonIn
    <2>6. OnlyData(up) => OnlyData(up')
      BY <2>1, StreamKeeps
    <2> QED BY <1>1, <2>1, <2>2, <2>5, <2>6 DEF DaemonIn, wsVars, hostVars, agentVars, TypeInv, StartInv, StreamInv
  <1>2. CASE DaemonOut
    <2>1. ttyOut \in Seq(Nat) /\ ttyOut # <<>> /\ down \in Seq(Seq(Nat))
      BY <1>2 DEF DaemonOut, TypeInv
    <2>2. Tail(ttyOut) \in Seq(Nat) /\ Head(ttyOut) \in Nat
      BY <2>1
    <2>3. <<Head(ttyOut)>> \in Seq(Nat) /\ Len(<<Head(ttyOut)>>) = 1
      BY <2>2
    <2>4. Fits(<<Head(ttyOut)>>)
      BY <2>3, ShellAssumption DEF Fits
    <2>5. Append(down, <<Head(ttyOut)>>) \in Seq(Seq(Nat))
      BY <2>1, <2>3
    <2>6. AllFit(Append(down, <<Head(ttyOut)>>))
      BY <2>1, <2>3, <2>4, StreamKeeps DEF StreamInv
    <2>7. down' \in Seq(Seq(Nat)) /\ AllFit(down') /\ ttyOut' \in Seq(Nat)
      BY <1>2, <2>1, <2>2, <2>5, <2>6 DEF DaemonOut, StreamInv
    <2> QED BY <1>2, <2>7 DEF DaemonOut, wsVars, hostVars, agentVars, TypeInv, StartInv, StreamInv
  <1>3. CASE DaemonEnds
    BY <1>3 DEF DaemonEnds, wsVars, hostVars, agentVars, ttyVars, TypeInv, StartInv, StreamInv
  <1>4. CASE BashRead
    <2>1. ttyIn \in Seq(Nat) /\ ttyIn # <<>> /\ took \in Seq(Nat)
      BY <1>4 DEF BashRead, TypeInv
    <2>2. Tail(ttyIn) \in Seq(Nat) /\ Append(took, Head(ttyIn)) \in Seq(Nat)
      BY <2>1
    <2> QED BY <1>4, <2>2 DEF BashRead, wsVars, hostVars, streamVars, agentVars, TypeInv, StartInv, StreamInv
  <1>5. CASE BashWrite
    <2>1. ttyOut \in Seq(Nat) /\ made \in Nat
      BY DEF TypeInv
    <2>2. Append(ttyOut, made + 1) \in Seq(Nat) /\ made + 1 \in Nat
      BY <2>1
    <2> QED BY <1>5, <2>2 DEF BashWrite, wsVars, hostVars, streamVars, agentVars, TypeInv, StartInv, StreamInv
  <1>6. CASE BashExit
    BY <1>6 DEF BashExit, wsVars, hostVars, streamVars, agentVars, TypeInv, StartInv, StreamInv
  <1>7. CASE SandboxDies
    BY <1>0, <1>7 DEF SandboxDies, wsVars, hostVars, TypeInv, StartInv, StreamInv
  <1>8. CASE ClientSend
    <2>1. PICK kind \in Kind : sent' = Append(sent, kind) /\ wsUp' = Append(wsUp, <<kind, Len(sent) + 1>>)
      BY <1>8 DEF ClientSend, Kind
    <2>2. sent \in Seq(Kind) /\ wsUp \in Seq(Message)
      BY DEF TypeInv
    <2>3. <<kind, Len(sent) + 1>> \in Message
      BY <2>2 DEF Message
    <2>4. sent' \in Seq(Kind) /\ wsUp' \in Seq(Message)
      BY <2>1, <2>2, <2>3
    <2> QED BY <1>8, <2>4 DEF ClientSend, hostVars, streamVars, agentVars, ttyVars, TypeInv, StartInv, StreamInv
  <1>9. CASE ClientRead
    <2>1. wsDown \in Seq(Seq(Nat)) /\ wsDown # <<>> /\ seen \in Seq(Nat)
      BY <1>9 DEF ClientRead, TypeInv
    <2>2. Tail(wsDown) \in Seq(Seq(Nat)) /\ Head(wsDown) \in Seq(Nat)
      BY <2>1
    <2>3. seen \o Head(wsDown) \in Seq(Nat)
      BY <2>1, <2>2
    <2> QED BY <1>9, <2>2, <2>3 DEF ClientRead, hostVars, streamVars, agentVars, ttyVars, TypeInv, StartInv, StreamInv
  <1>10. CASE ClientLeave
    BY <1>0, <1>10 DEF ClientLeave, hostVars, streamVars, agentVars, ttyVars, TypeInv, StartInv, StreamInv
  <1> QED BY <1>1, <1>2, <1>3, <1>4, <1>5, <1>6, <1>7, <1>8, <1>9, <1>10

LEMMA NextBase ==
  ASSUME BaseInv, [Next]_vars
  PROVE  BaseInv'
  <1>1. CASE UNCHANGED vars
    BY <1>1 DEF vars, wsVars, hostVars, streamVars, agentVars, ttyVars, BaseInv, TypeInv, StartInv, StreamInv
  <1> QED BY <1>1, HostKeepsBase, PumpKeepsBase, GuestKeepsBase, GuestPumpKeepsBase, RestKeepsBase DEF Next

-----------------------------------------------------------------------------
(* Output.  Run(a, b) is what bash wrote from its (a+1)th to its bth piece; *)
(* a queue of such runs is chained when each begins where the one before   *)
(* it ends.                                                                *)

Run(a, b) == [i \in 1..(b - a) |-> a + i]

Chained(q, a, b) ==
    \E f \in [0..Len(q) -> Nat] :
        /\ f[0] = a /\ f[Len(q)] = b
        /\ \A i \in 1..Len(q) : f[i - 1] <= f[i] /\ q[i] = Run(f[i - 1], f[i])

LEMMA RunTyped ==
  ASSUME NEW a \in Nat, NEW b \in Nat, a <= b
  PROVE  Run(a, b) \in Seq(Nat) /\ Len(Run(a, b)) = b - a /\ \A i \in 1..(b - a) : Run(a, b)[i] = a + i
  BY DEF Run

LEMMA RunIs ==
  ASSUME NEW a \in Nat, NEW b \in Nat, a <= b, NEW q \in Seq(Nat), Len(q) = b - a,
         \A i \in 1..(b - a) : q[i] = a + i
  PROVE  q = Run(a, b)
  <1>1. Run(a, b) \in Seq(Nat) /\ Len(Run(a, b)) = b - a /\ \A i \in 1..(b - a) : Run(a, b)[i] = a + i
    BY RunTyped
  <1>2. Len(q) = Len(Run(a, b)) /\ \A i \in 1..Len(q) : q[i] = Run(a, b)[i]
    BY <1>1
  <1> QED BY <1>1, <1>2, SeqEqual

LEMMA RunNone ==
  ASSUME NEW a \in Nat
  PROVE  Run(a, a) = <<>> /\ \A b \in Nat : a <= b /\ Run(a, b) = <<>> => b = a
  <1>1. <<>> \in Seq(Nat) /\ Len(<<>>) = a - a /\ \A i \in 1..(a - a) : <<>>[i] = a + i
    OBVIOUS
  <1>2. a <= a
    OBVIOUS
  <1>3. <<>> = Run(a, a)
    BY <1>1, <1>2, RunIs
  <1>4. ASSUME NEW b \in Nat, a <= b, Run(a, b) = <<>> PROVE b = a
    <2>1. Len(Run(a, b)) = b - a
      BY <1>4, RunTyped
    <2>2. Len(Run(a, b)) = 0
      BY <1>4
    <2> QED BY <2>1, <2>2
  <1> QED BY <1>3, <1>4

LEMMA RunNext ==
  ASSUME NEW a \in Nat, NEW b \in Nat, a <= b
  PROVE  Append(Run(a, b), b + 1) = Run(a, b + 1)
  <1>1. Run(a, b) \in Seq(Nat) /\ Len(Run(a, b)) = b - a /\ \A i \in 1..(b - a) : Run(a, b)[i] = a + i
    BY RunTyped
  <1> DEFINE q == Run(a, b)
  <1> HIDE DEF q
  <1>2. /\ Append(q, b + 1) \in Seq(Nat) /\ Len(Append(q, b + 1)) = (b + 1) - a
        /\ \A i \in 1..((b + 1) - a) : Append(q, b + 1)[i] = a + i
    <2>1. q \in Seq(Nat) /\ Len(q) = b - a /\ \A i \in 1..(b - a) : q[i] = a + i
      BY <1>1 DEF q
    <2>2. /\ Append(q, b + 1) \in Seq(Nat) /\ Len(Append(q, b + 1)) = Len(q) + 1
          /\ \A i \in 1..Len(q) + 1 : Append(q, b + 1)[i] = IF i <= Len(q) THEN q[i] ELSE b + 1
      BY <2>1, QueueKeeps
    <2> QED BY <2>1, <2>2
  <1>3. b + 1 \in Nat /\ a <= b + 1
    OBVIOUS
  <1>4. Append(q, b + 1) = Run(a, b + 1)
    BY <1>2, <1>3, RunIs
  <1> QED BY <1>4 DEF q

LEMMA RunJoin ==
  ASSUME NEW a \in Nat, NEW b \in Nat, NEW c \in Nat, a <= b, b <= c
  PROVE  Run(a, b) \o Run(b, c) = Run(a, c)
  <1>1. Run(a, b) \in Seq(Nat) /\ Len(Run(a, b)) = b - a /\ \A i \in 1..(b - a) : Run(a, b)[i] = a + i
    BY RunTyped
  <1>2. Run(b, c) \in Seq(Nat) /\ Len(Run(b, c)) = c - b /\ \A i \in 1..(c - b) : Run(b, c)[i] = b + i
    BY RunTyped
  <1>3. /\ Run(a, b) \o Run(b, c) \in Seq(Nat) /\ Len(Run(a, b) \o Run(b, c)) = c - a
        /\ \A i \in 1..(c - a) : (Run(a, b) \o Run(b, c))[i] = a + i
    BY <1>1, <1>2
  <1>4. a <= c
    OBVIOUS
  <1> QED BY <1>3, <1>4, RunIs

LEMMA RunCut ==
  ASSUME NEW a \in Nat, NEW b \in Nat, a <= b, NEW n \in 0..(b - a)
  PROVE  /\ SubSeq(Run(a, b), 1, n) = Run(a, a + n)
         /\ SubSeq(Run(a, b), n + 1, Len(Run(a, b))) = Run(a + n, b)
  <1> DEFINE q == Run(a, b)
  <1>1. q \in Seq(Nat) /\ Len(q) = b - a /\ \A i \in 1..(b - a) : q[i] = a + i
    BY RunTyped
  <1> HIDE DEF q
  <1>2. n \in 0..Len(q) /\ a + n \in Nat /\ a <= a + n /\ a + n <= b
    BY <1>1
  <1>3. /\ SubSeq(q, 1, n) \in Seq(Nat) /\ Len(SubSeq(q, 1, n)) = n
        /\ \A i \in 1..n : SubSeq(q, 1, n)[i] = q[i]
        /\ SubSeq(q, n + 1, Len(q)) \in Seq(Nat) /\ Len(SubSeq(q, n + 1, Len(q))) = Len(q) - n
        /\ \A i \in 1..(Len(q) - n) : SubSeq(q, n + 1, Len(q))[i] = q[n + i]
    BY <1>1, <1>2, CutTyped
  <1>4. Len(SubSeq(q, 1, n)) = (a + n) - a /\ \A i \in 1..((a + n) - a) : SubSeq(q, 1, n)[i] = a + i
    BY <1>1, <1>2, <1>3
  <1>5. SubSeq(q, 1, n) = Run(a, a + n)
    BY <1>2, <1>3, <1>4, RunIs
  <1>6. /\ Len(SubSeq(q, n + 1, Len(q))) = b - (a + n)
        /\ \A i \in 1..(b - (a + n)) : SubSeq(q, n + 1, Len(q))[i] = (a + n) + i
    BY <1>1, <1>2, <1>3
  <1>7. SubSeq(q, n + 1, Len(q)) = Run(a + n, b)
    BY <1>2, <1>3, <1>6, RunIs
  <1> QED BY <1>5, <1>7 DEF q

LEMMA RunHead ==
  ASSUME NEW a \in Nat, NEW b \in Nat, a <= b, Run(a, b) # <<>>
  PROVE  a + 1 <= b /\ <<Head(Run(a, b))>> = Run(a, a + 1) /\ Tail(Run(a, b)) = Run(a + 1, b)
  <1> DEFINE q == Run(a, b)
  <1>1. q \in Seq(Nat) /\ Len(q) = b - a /\ \A i \in 1..(b - a) : q[i] = a + i
    BY RunTyped
  <1>2. q # <<>>
    OBVIOUS
  <1> HIDE DEF q
  <1>3. Len(q) >= 1 /\ Head(q) = q[1] /\ Tail(q) \in Seq(Nat) /\ Len(Tail(q)) = Len(q) - 1
        /\ \A i \in 1..Len(q) - 1 : Tail(q)[i] = q[i + 1]
    BY <1>1, <1>2
  <1>4. a + 1 <= b /\ a + 1 \in Nat /\ Head(q) = a + 1
    BY <1>1, <1>3
  <1>5. Tail(q) = Run(a + 1, b)
    <2>1. Len(Tail(q)) = b - (a + 1) /\ \A i \in 1..(b - (a + 1)) : Tail(q)[i] = (a + 1) + i
      BY <1>1, <1>3
    <2> QED BY <1>3, <1>4, <2>1, RunIs
  <1>6. <<a + 1>> = Run(a, a + 1)
    <2>1. /\ <<a + 1>> \in Seq(Nat) /\ Len(<<a + 1>>) = (a + 1) - a
          /\ \A i \in 1..((a + 1) - a) : <<a + 1>>[i] = a + i
      BY <1>4
    <2>2. a <= a + 1
      OBVIOUS
    <2> QED BY <1>4, <2>1, <2>2, RunIs
  <1> QED BY <1>4, <1>5, <1>6 DEF q

LEMMA ChainNone == ASSUME NEW a \in Nat PROVE Chained(<<>>, a, a)
  <1> DEFINE f == [i \in 0..0 |-> a]
  <1>1. f \in [0..Len(<<>>) -> Nat] /\ f[0] = a /\ f[Len(<<>>)] = a /\ 1..Len(<<>>) = {}
    OBVIOUS
  <1> QED BY <1>1 DEF Chained

LEMMA ChainAppend ==
  ASSUME NEW q \in Seq(Seq(Nat)), NEW a \in Nat, NEW b \in Nat, NEW c \in Nat,
         Chained(q, a, b), b <= c
  PROVE  Chained(Append(q, Run(b, c)), a, c)
  <1>1. PICK f \in [0..Len(q) -> Nat] :
          /\ f[0] = a /\ f[Len(q)] = b
          /\ \A i \in 1..Len(q) : f[i - 1] <= f[i] /\ q[i] = Run(f[i - 1], f[i])
    BY DEF Chained
  <1> DEFINE r == Run(b, c)
             q2 == Append(q, r)
             g == [i \in 0..Len(q) + 1 |-> IF i <= Len(q) THEN f[i] ELSE c]
  <1>2. r \in Seq(Nat) /\ Len(q) \in Nat
    <2>1. r \in Seq(Nat)
      BY RunTyped
    <2> QED BY <2>1, LenProperties
  <1>3. Len(q2) = Len(q) + 1 /\ \A i \in 1..Len(q) + 1 : q2[i] = IF i <= Len(q) THEN q[i] ELSE r
    BY <1>2, QueueKeeps
  <1>4. g \in [0..Len(q2) -> Nat] /\ g[0] = a /\ g[Len(q2)] = c
    BY <1>1, <1>2, <1>3
  <1>5. ASSUME NEW i \in 1..Len(q2) PROVE g[i - 1] <= g[i] /\ q2[i] = Run(g[i - 1], g[i])
    <2>1. CASE i <= Len(q)
      <3>1. i \in 1..Len(q) /\ i - 1 \in 0..Len(q) + 1 /\ i \in 0..Len(q) + 1 /\ i - 1 <= Len(q)
        BY <1>2, <1>3, <2>1
      <3>2. g[i - 1] = f[i - 1] /\ g[i] = f[i] /\ q2[i] = q[i]
        BY <1>3, <2>1, <3>1
      <3> QED BY <1>1, <3>1, <3>2
    <2>2. CASE ~(i <= Len(q))
      <3>1. i = Len(q) + 1 /\ i - 1 = Len(q) /\ i - 1 \in 0..Len(q) + 1 /\ i \in 1..Len(q) + 1
        BY <1>2, <1>3, <2>2
      <3>2. g[i - 1] = b /\ g[i] = c /\ q2[i] = r
        BY <1>1, <1>2, <1>3, <3>1
      <3> QED BY <3>2
    <2> QED BY <2>1, <2>2
  <1> QED BY <1>4, <1>5 DEF Chained

LEMMA ChainHead ==
  ASSUME NEW q \in Seq(Seq(Nat)), NEW a \in Nat, NEW b \in Nat, Chained(q, a, b), q # <<>>
  PROVE  \E c \in Nat : a <= c /\ Head(q) = Run(a, c) /\ Chained(Tail(q), c, b)
  <1>1. PICK f \in [0..Len(q) -> Nat] :
          /\ f[0] = a /\ f[Len(q)] = b
          /\ \A i \in 1..Len(q) : f[i - 1] <= f[i] /\ q[i] = Run(f[i - 1], f[i])
    BY DEF Chained
  <1> DEFINE t == Tail(q)
             g == [i \in 0..Len(q) - 1 |-> f[i + 1]]
  <1>2. /\ Len(q) \in Nat /\ Len(q) >= 1 /\ Head(q) = q[1] /\ Len(t) = Len(q) - 1
        /\ \A i \in 1..Len(q) - 1 : t[i] = q[i + 1]
    BY QueueKeeps
  <1>3. 0 \in 0..Len(q) /\ 1 \in 0..Len(q) /\ 1 \in 1..Len(q) /\ 1 - 1 = 0
    BY <1>2
  <1>4. f[1] \in Nat /\ a <= f[1] /\ Head(q) = Run(a, f[1])
    BY <1>1, <1>2, <1>3
  <1>5. g \in [0..Len(t) -> Nat] /\ g[0] = f[1] /\ g[Len(t)] = b
    BY <1>1, <1>2
  <1>6. ASSUME NEW i \in 1..Len(t) PROVE g[i - 1] <= g[i] /\ t[i] = Run(g[i - 1], g[i])
    <2>1. /\ i \in 1..Len(q) - 1 /\ i + 1 \in 1..Len(q) /\ (i + 1) - 1 = i /\ (i - 1) + 1 = i
          /\ i - 1 \in 0..Len(q) - 1 /\ i \in 0..Len(q) - 1
      BY <1>2
    <2>2. g[i - 1] = f[i] /\ g[i] = f[i + 1] /\ t[i] = q[i + 1]
      BY <1>2, <2>1
    <2>3. f[(i + 1) - 1] <= f[i + 1] /\ q[i + 1] = Run(f[(i + 1) - 1], f[i + 1])
      BY <1>1, <2>1
    <2> QED BY <2>1, <2>2, <2>3
  <1>7. Chained(t, f[1], b)
    BY <1>5, <1>6 DEF Chained
  <1> QED BY <1>4, <1>7

-----------------------------------------------------------------------------
\* Where the output is, by its numbers: up to a the client has it, then the
\* websocket up to b, the handler's pump up to c, the stream up to d, the
\* guest's pump up to e, the terminal up to f, which is all that was made.
OutCuts(a, b, c, d, e, f) ==
    /\ seen = Run(0, a)
    /\ client = "on" => Chained(wsDown, a, b)
    /\ pump # "done" => b <= c /\ chunk = Run(b, c)
    /\ ~hostShut => Chained(down, c, d)
    /\ gpump # "done" => /\ d <= e /\ gchunk = Run(d, e)
                         /\ e <= f /\ ttyOut = Run(e, f)
                         /\ bash # "exited" => f = made

OutInv == \E a, b, c, d, e, f \in Nat : OutCuts(a, b, c, d, e, f)

LEMMA InitOut == Init => OutInv
  <1> SUFFICES ASSUME Init PROVE OutInv
    OBVIOUS
  <1>1. Run(0, 0) = <<>> /\ Chained(<<>>, 0, 0)
    BY RunNone, ChainNone
  <1>2. OutCuts(0, 0, 0, 0, 0, 0)
    BY <1>1 DEF Init, OutCuts, Nothing
  <1> QED BY <1>2 DEF OutInv

LEMMA HostKeepsOut ==
  ASSUME BaseInv, OutInv, HostStep
  PROVE  OutInv'
  <1>1. PICK a \in Nat, b \in Nat, c \in Nat, d \in Nat, e \in Nat, f \in Nat : OutCuts(a, b, c, d, e, f)
    BY DEF OutInv
  <1>2. /\ ~hostShut' => ~hostShut
        /\ pump = "done" => pump' = "done"
        /\ gpump' = "done" <=> gpump = "done"
        /\ bash' # "exited" <=> bash # "exited"
        /\ UNCHANGED <<client, seen, wsDown, chunk, down, gchunk, ttyOut, made>>
    <2> USE DEF BaseInv, TypeInv, StartInv, wsVars, streamVars, agentVars, ttyVars
    <2>1. CASE Open
      BY <2>1 DEF Open, HostReturn, DockerOpens, FirecrackerDials, PtyStarts, PtyFails
    <2>2. CASE Upgrade
      BY <2>2 DEF Upgrade, HostReturn
    <2>3. CASE HostRead
      BY <2>3 DEF HostRead
    <2>4. CASE HostReadFails
      BY <2>4 DEF HostReadFails, HostReturn
    <2>5. CASE HostWrite
      BY <2>5 DEF HostWrite
    <2>6. CASE HostResize
      BY <2>6 DEF HostResize
    <2>7. CASE HostWriteFails
      BY <2>7 DEF HostWriteFails, HostReturn
    <2> QED BY <2>1, <2>2, <2>3, <2>4, <2>5, <2>6, <2>7 DEF HostStep
  <1>3. OutCuts(a, b, c, d, e, f)'
    BY <1>1, <1>2 DEF OutCuts
  <1> QED BY <1>3 DEF OutInv

\* The handler's pump takes a run from the stream, and hands it to the websocket.
LEMMA PumpKeepsOut ==
  ASSUME BaseInv, OutInv, PumpStep
  PROVE  OutInv'
  <1>1. PICK a \in Nat, b \in Nat, c \in Nat, d \in Nat, e \in Nat, f \in Nat : OutCuts(a, b, c, d, e, f)
    BY DEF OutInv
  <1> USE DEF BaseInv, Nothing
  <1>2. CASE PumpRead
    <2>1. /\ down \in Seq(Seq(Nat)) /\ down # <<>> /\ pump = "read" /\ ~hostShut /\ chunk = <<>>
          /\ chunk' = Copied(Head(down)) /\ down' = Tail(down)
          /\ UNCHANGED <<client, seen, wsDown, hostShut, gpump, gchunk, bash, ttyOut, made>>
      BY <1>2 DEF PumpRead, TypeInv, StreamInv, wsVars, agentVars, ttyVars
    <2>2. b <= c /\ Run(b, c) = <<>> /\ Chained(down, c, d)
      BY <1>1, <2>1 DEF OutCuts
    <2>3. b = c
      BY <2>2, RunNone
    <2>4. PICK x \in Nat : c <= x /\ Head(down) = Run(c, x) /\ Chained(Tail(down), x, d)
      BY <2>1, <2>2, ChainHead
    <2>5. Head(down) \in Seq(Nat) /\ Fits(Head(down))
      BY <2>1, <2>4, RunTyped, StreamKeeps DEF StreamInv
    <2>6. chunk' = Run(c, x)
      BY <2>1, <2>4, <2>5, CopiedWhole
    <2>7. OutCuts(a, b, x, d, e, f)'
      BY <1>1, <2>1, <2>3, <2>4, <2>6 DEF OutCuts
    <2> QED BY <2>7 DEF OutInv
  <1>3. CASE PumpWrite
    <2>1. /\ wsDown \in Seq(Seq(Nat)) /\ wsDown' = Append(wsDown, chunk) /\ client = "on"
          /\ pump = "write" /\ chunk' = <<>>
          /\ UNCHANGED <<client, seen, down, hostShut, gpump, gchunk, bash, ttyOut, made>>
      BY <1>3 DEF PumpWrite, TypeInv, streamVars, agentVars, ttyVars
    <2>2. Chained(wsDown', a, c)
      BY <1>1, <2>1, ChainAppend DEF OutCuts
    <2>3. c <= c /\ Run(c, c) = <<>>
      BY RunNone
    <2>4. OutCuts(a, c, c, d, e, f)'
      BY <1>1, <2>1, <2>2, <2>3 DEF OutCuts
    <2> QED BY <2>4 DEF OutInv
  <1>4. CASE PumpEnds
    <2>1. pump' = "done" /\ UNCHANGED <<client, seen, wsDown, down, hostShut, gpump, gchunk, bash, ttyOut, made>>
      BY <1>4 DEF PumpEnds, wsVars, streamVars, agentVars, ttyVars
    <2>2. OutCuts(a, b, c, d, e, f)'
      BY <1>1, <2>1 DEF OutCuts
    <2> QED BY <2>2 DEF OutInv
  <1> QED BY <1>2, <1>3, <1>4 DEF PumpStep

\* The agent's loop writes no output; the shell it kills writes none.
LEMMA GuestKeepsOut ==
  ASSUME BaseInv, OutInv, GuestStep
  PROVE  OutInv'
  <1>1. PICK a \in Nat, b \in Nat, c \in Nat, d \in Nat, e \in Nat, f \in Nat : OutCuts(a, b, c, d, e, f)
    BY DEF OutInv
  <1>2. /\ bash' # "exited" => bash # "exited"
        /\ UNCHANGED <<client, seen, wsDown, pump, chunk, down, hostShut, gpump, gchunk, ttyOut, made>>
    BY DEF GuestStep, GuestRead, GuestWrite, GuestEOF, GuestReturn, wsVars, hostVars, streamVars, ttyVars
  <1>3. OutCuts(a, b, c, d, e, f)'
    BY <1>1, <1>2 DEF OutCuts
  <1> QED BY <1>3 DEF OutInv

\* The guest's pump takes a run from the terminal, and frames it.
LEMMA GuestPumpKeepsOut ==
  ASSUME BaseInv, OutInv, GuestPumpStep
  PROVE  OutInv'
  <1>1. PICK a \in Nat, b \in Nat, c \in Nat, d \in Nat, e \in Nat, f \in Nat : OutCuts(a, b, c, d, e, f)
    BY DEF OutInv
  <1> USE DEF BaseInv, Nothing
  <1>2. CASE GuestPumpRead
    <2>1. PICK n \in 1..Len(ttyOut) :
             gchunk' = SubSeq(ttyOut, 1, n) /\ ttyOut' = SubSeq(ttyOut, n + 1, Len(ttyOut))
      BY <1>2 DEF GuestPumpRead
    <2>2. /\ gpump = "read" /\ gchunk = <<>>
          /\ UNCHANGED <<client, seen, wsDown, pump, chunk, down, hostShut, bash, made>>
      BY <1>2 DEF GuestPumpRead, StreamInv, wsVars, hostVars, streamVars
    <2>3. d <= e /\ Run(d, e) = <<>> /\ e <= f /\ ttyOut = Run(e, f)
      BY <1>1, <2>2 DEF OutCuts
    <2>4. d = e /\ Len(ttyOut) = f - e
      BY <2>3, RunNone, RunTyped
    <2>5. n \in 0..(f - e) /\ e + n \in Nat /\ e <= e + n /\ e + n <= f
      BY <2>3, <2>4
    <2>6. gchunk' = Run(d, e + n) /\ ttyOut' = Run(e + n, f)
      BY <2>1, <2>3, <2>4, <2>5, RunCut
    <2>7. OutCuts(a, b, c, d, e + n, f)'
      BY <1>1, <2>2, <2>4, <2>5, <2>6 DEF OutCuts
    <2> QED BY <2>5, <2>7 DEF OutInv
  <1>3. CASE GuestPumpWrite
    <2>1. /\ gpump = "write" /\ gchunk' = <<>>
          /\ UNCHANGED <<client, seen, wsDown, pump, chunk, hostShut, bash, ttyOut, made>>
      BY <1>3 DEF GuestPumpWrite, wsVars, hostVars, ttyVars
    <2>2. CASE hostShut /\ gpump' = "done" /\ down' = down
      <3>1. OutCuts(a, b, c, d, e, f)'
        BY <1>1, <2>1, <2>2 DEF OutCuts
      <3> QED BY <3>1 DEF OutInv
    <2>3. CASE ~hostShut /\ down' = Append(down, gchunk)
      <3>1. down \in Seq(Seq(Nat)) /\ d <= e /\ gchunk = Run(d, e) /\ Chained(down, c, d)
        BY <1>1, <2>1, <2>3 DEF OutCuts, TypeInv
      <3>2. Chained(down', c, e)
        BY <2>3, <3>1, ChainAppend
      <3>3. e <= e /\ Run(e, e) = <<>>
        BY RunNone
      <3>4. OutCuts(a, b, c, e, e, f)'
        BY <1>1, <2>1, <2>3, <3>2, <3>3 DEF OutCuts
      <3> QED BY <3>4 DEF OutInv
    <2> QED BY <1>3, <2>2, <2>3 DEF GuestPumpWrite, GuestFrame
  <1>4. CASE GuestPumpEnds
    <2>1. gpump' = "done" /\ UNCHANGED <<client, seen, wsDown, pump, chunk, down, hostShut>>
      BY <1>4 DEF GuestPumpEnds, wsVars, hostVars, streamVars
    <2>2. OutCuts(a, b, c, d, e, f)'
      BY <1>1, <2>1 DEF OutCuts
    <2> QED BY <2>2 DEF OutInv
  <1> QED BY <1>2, <1>3, <1>4 DEF GuestPumpStep

\* On Docker the daemon is the pump between terminal and stream.
LEMMA DaemonKeepsOut ==
  ASSUME BaseInv, OutInv, DaemonIn \/ DaemonOut \/ DaemonEnds
  PROVE  OutInv'
  <1>1. PICK a \in Nat, b \in Nat, c \in Nat, d \in Nat, e \in Nat, f \in Nat : OutCuts(a, b, c, d, e, f)
    BY DEF OutInv
  <1> USE DEF BaseInv
  <1>2. CASE DaemonIn \/ DaemonEnds
    <2>1. UNCHANGED <<client, seen, wsDown, pump, chunk, down, hostShut, gpump, gchunk, bash, ttyOut, made>>
      BY <1>2 DEF DaemonIn, DaemonEnds, wsVars, hostVars, agentVars, ttyVars
    <2>2. OutCuts(a, b, c, d, e, f)'
      BY <1>1, <2>1 DEF OutCuts
    <2> QED BY <2>2 DEF OutInv
  <1>3. CASE DaemonOut
    <2>1. /\ gpump = "none" /\ gchunk = <<>> /\ down \in Seq(Seq(Nat))
          /\ ttyOut # <<>> /\ ttyOut' = Tail(ttyOut)
          /\ down' = IF hostShut THEN down ELSE Append(down, <<Head(ttyOut)>>)
          /\ UNCHANGED <<client, seen, wsDown, pump, chunk, hostShut, gpump, gchunk, bash, made>>
      BY <1>3 DEF DaemonOut, TypeInv, StartInv, StreamInv, wsVars, hostVars, agentVars
    <2>2. d <= e /\ Run(d, e) = <<>> /\ e <= f /\ ttyOut = Run(e, f)
      BY <1>1, <2>1 DEF OutCuts
    <2>3. d = e
      BY <2>2, RunNone
    <2>4. e + 1 \in Nat /\ e + 1 <= f /\ <<Head(ttyOut)>> = Run(e, e + 1) /\ ttyOut' = Run(e + 1, f)
      BY <2>1, <2>2, RunHead
    <2>5. ASSUME ~hostShut PROVE Chained(down', c, e + 1)
      <3>1. Chained(down, c, e) /\ down' = Append(down, Run(e, e + 1)) /\ e <= e + 1
        BY <1>1, <2>1, <2>3, <2>4, <2>5 DEF OutCuts
      <3> QED BY <2>1, <2>4, <3>1, ChainAppend
    <2>6. e + 1 <= e + 1 /\ Run(e + 1, e + 1) = <<>>
      BY <2>4, RunNone
    <2>7. OutCuts(a, b, c, e + 1, e + 1, f)'
      BY <1>1, <2>1, <2>4, <2>5, <2>6 DEF OutCuts
    <2> QED BY <2>4, <2>7 DEF OutInv
  <1> QED BY <1>2, <1>3

\* The shell writes the next piece, or ends.
LEMMA BashKeepsOut ==
  ASSUME BaseInv, OutInv, BashRead \/ BashWrite \/ BashExit \/ SandboxDies
  PROVE  OutInv'
  <1>1. PICK a \in Nat, b \in Nat, c \in Nat, d \in Nat, e \in Nat, f \in Nat : OutCuts(a, b, c, d, e, f)
    BY DEF OutInv
  <1> USE DEF BaseInv
  <1>2. CASE BashRead \/ BashExit
    <2>1. /\ bash' # "exited" => bash # "exited"
          /\ UNCHANGED <<client, seen, wsDown, pump, chunk, down, hostShut, gpump, gchunk, ttyOut, made>>
      BY <1>2 DEF BashRead, BashExit, wsVars, hostVars, streamVars, agentVars
    <2>2. OutCuts(a, b, c, d, e, f)'
      BY <1>1, <2>1 DEF OutCuts
    <2> QED BY <2>2 DEF OutInv
  <1>3. CASE BashWrite
    <2>1. /\ bash = "on" /\ made' = made + 1 /\ ttyOut' = Append(ttyOut, made + 1)
          /\ UNCHANGED <<client, seen, wsDown, pump, chunk, down, hostShut, gpump, gchunk, bash>>
      BY <1>3 DEF BashWrite, wsVars, hostVars, streamVars, agentVars
    <2>2. gpump # "done" => e <= f + 1 /\ ttyOut' = Run(e, f + 1) /\ f + 1 = made'
      <3> SUFFICES ASSUME gpump # "done" PROVE e <= f + 1 /\ ttyOut' = Run(e, f + 1) /\ f + 1 = made'
        OBVIOUS
      <3>1. e <= f /\ ttyOut = Run(e, f) /\ f = made
        BY <1>1, <2>1 DEF OutCuts
      <3>2. Append(Run(e, f), f + 1) = Run(e, f + 1)
        BY <3>1, RunNext
      <3> QED BY <2>1, <3>1, <3>2
    <2>3. OutCuts(a, b, c, d, e, f + 1)'
      BY <1>1, <2>1, <2>2 DEF OutCuts
    <2>4. f + 1 \in Nat
      OBVIOUS
    <2> QED BY <2>3, <2>4 DEF OutInv
  <1>4. CASE SandboxDies
    <2>1. /\ bash' = "exited" /\ ttyOut' = <<>>
          /\ gpump' # "done" => gpump # "done"
          /\ UNCHANGED <<client, seen, wsDown, pump, chunk, down, hostShut, gchunk, made>>
      BY <1>4 DEF SandboxDies, TypeInv, wsVars, hostVars
    <2>2. e <= e /\ Run(e, e) = <<>>
      BY RunNone
    <2>3. OutCuts(a, b, c, d, e, e)'
      BY <1>1, <2>1, <2>2 DEF OutCuts
    <2> QED BY <2>3 DEF OutInv
  <1> QED BY <1>2, <1>3, <1>4

\* The client reads a run from the websocket, or leaves.
LEMMA ClientKeepsOut ==
  ASSUME BaseInv, OutInv, ClientSend \/ ClientRead \/ ClientLeave
  PROVE  OutInv'
  <1>1. PICK a \in Nat, b \in Nat, c \in Nat, d \in Nat, e \in Nat, f \in Nat : OutCuts(a, b, c, d, e, f)
    BY DEF OutInv
  <1> USE DEF BaseInv
  <1>2. CASE ClientSend \/ ClientLeave
    <2>1. /\ client' = "on" => client = "on" /\ wsDown' = wsDown
          /\ UNCHANGED <<seen, pump, chunk, down, hostShut, gpump, gchunk, bash, ttyOut, made>>
      BY <1>2 DEF ClientSend, ClientLeave, hostVars, streamVars, agentVars, ttyVars
    <2>2. OutCuts(a, b, c, d, e, f)'
      BY <1>1, <2>1 DEF OutCuts
    <2> QED BY <2>2 DEF OutInv
  <1>3. CASE ClientRead
    <2>1. /\ client = "on" /\ wsDown \in Seq(Seq(Nat)) /\ wsDown # <<>>
          /\ seen' = seen \o Head(wsDown) /\ wsDown' = Tail(wsDown)
          /\ UNCHANGED <<client, pump, chunk, down, hostShut, gpump, gchunk, bash, ttyOut, made>>
      BY <1>3 DEF ClientRead, TypeInv, hostVars, streamVars, agentVars, ttyVars
    <2>2. seen = Run(0, a) /\ Chained(wsDown, a, b)
      BY <1>1, <2>1 DEF OutCuts
    <2>3. PICK x \in Nat : a <= x /\ Head(wsDown) = Run(a, x) /\ Chained(Tail(wsDown), x, b)
      BY <2>1, <2>2, ChainHead
    <2>4. seen' = Run(0, x)
      <3>1. 0 \in Nat /\ 0 <= a
        OBVIOUS
      <3>2. Run(0, a) \o Run(a, x) = Run(0, x)
        BY <2>3, <3>1, RunJoin
      <3> QED BY <2>1, <2>2, <2>3, <3>2
    <2>5. OutCuts(x, b, c, d, e, f)'
      BY <1>1, <2>1, <2>3, <2>4 DEF OutCuts
    <2> QED BY <2>5 DEF OutInv
  <1> QED BY <1>2, <1>3

LEMMA NextOut ==
  ASSUME BaseInv, OutInv, [Next]_vars
  PROVE  OutInv'
  <1>1. CASE UNCHANGED vars
    <2>1. PICK a \in Nat, b \in Nat, c \in Nat, d \in Nat, e \in Nat, f \in Nat : OutCuts(a, b, c, d, e, f)
      BY DEF OutInv
    <2>2. OutCuts(a, b, c, d, e, f)'
      BY <1>1, <2>1 DEF OutCuts, vars, wsVars, hostVars, streamVars, agentVars, ttyVars
    <2> QED BY <2>2 DEF OutInv
  <1> QED BY <1>1, HostKeepsOut, PumpKeepsOut, GuestKeepsOut, GuestPumpKeepsOut, DaemonKeepsOut,
             BashKeepsOut, ClientKeepsOut DEF Next

LEMMA OutInvShows == OutInv => OutputInOrder
  <1> SUFFICES ASSUME OutInv PROVE OutputInOrder
    OBVIOUS
  <1>1. PICK a \in Nat : seen = Run(0, a)
    BY DEF OutInv, OutCuts
  <1>2. Len(seen) = a - 0
    BY <1>1, RunTyped
  <1>3. seen = [i \in 1..a |-> i]
    BY <1>1 DEF Run
  <1> QED BY <1>2, <1>3 DEF OutputInOrder

\* Whatever the order in which the two pumps, bash, the daemon and the client
\* run, and whichever end closes first, the client has a prefix of what bash
\* wrote: no piece is lost in between, repeated or overtaken.
THEOREM OutputIsInOrder == Spec => []OutputInOrder
  <1>1. Init => BaseInv /\ OutInv
    BY InitBase, InitOut
  <1>2. BaseInv /\ OutInv /\ [Next]_vars => (BaseInv /\ OutInv)'
    BY NextBase, NextOut
  <1>3. BaseInv /\ OutInv => OutputInOrder
    BY OutInvShows
  <1> QED BY <1>1, <1>2, <1>3, PTL DEF Spec

-----------------------------------------------------------------------------
(* Input.  A place covers the messages from a (excluded) to b when what is  *)
(* in it is of them, each once and in order, with none of the data missing.*)

Covers(s, q, a, b) ==
    /\ a <= b /\ b <= Len(s)
    /\ \A i \in 1..Len(q) : a < q[i][2] /\ q[i][2] <= b /\ s[q[i][2]] = q[i][1]
    /\ \A i, j \in 1..Len(q) : i < j => q[i][2] < q[j][2]
    /\ \A n \in (a + 1)..b : s[n] = "data" => \E i \in 1..Len(q) : q[i][2] = n

\* The terminal holds only data, of which the model keeps the number.
AsData(q) == [i \in 1..Len(q) |-> <<"data", q[i]>>]

LEMMA DataTyped ==
  ASSUME NEW q \in Seq(Nat)
  PROVE  AsData(q) \in Seq(Message) /\ Len(AsData(q)) = Len(q) /\ \A i \in 1..Len(q) : AsData(q)[i] = <<"data", q[i]>>
  <1>1. \A i \in 1..Len(q) : <<"data", q[i]>> \in Message
    BY DEF Message, Kind
  <1>2. Len(q) \in Nat
    OBVIOUS
  <1> DEFINE M == Message
  <1>3. \A i \in 1..Len(q) : <<"data", q[i]>> \in M
    BY <1>1
  <1> HIDE DEF M
  <1>4. AsData(q) \in Seq(M) /\ Len(AsData(q)) = Len(q)
    BY <1>2, <1>3 DEF AsData
  <1> QED BY <1>4 DEF AsData, M

LEMMA DataKeeps ==
  ASSUME NEW q \in Seq(Nat)
  PROVE  /\ \A n \in Nat : AsData(Append(q, n)) = Append(AsData(q), <<"data", n>>)
         /\ q # <<>> => /\ AsData(q) # <<>> /\ Head(AsData(q)) = <<"data", Head(q)>>
                        /\ Tail(AsData(q)) = AsData(Tail(q))
  <1> DEFINE d == AsData(q)
  <1>1. d \in Seq(Message) /\ Len(d) = Len(q) /\ \A i \in 1..Len(q) : d[i] = <<"data", q[i]>>
    BY DataTyped
  <1> HIDE DEF d
  <1>2. ASSUME NEW n \in Nat PROVE AsData(Append(q, n)) = Append(d, <<"data", n>>)
    <2> DEFINE r == Append(q, n)
               x == AsData(r)
               y == Append(d, <<"data", n>>)
    <2>1. r \in Seq(Nat) /\ Len(r) = Len(q) + 1 /\ \A i \in 1..Len(q) + 1 : r[i] = IF i <= Len(q) THEN q[i] ELSE n
      BY QueueKeeps
    <2>2. <<"data", n>> \in Message
      BY DEF Message, Kind
    <2>3. /\ y \in Seq(Message) /\ Len(y) = Len(d) + 1
          /\ \A i \in 1..Len(d) + 1 : y[i] = IF i <= Len(d) THEN d[i] ELSE <<"data", n>>
      BY <1>1, <2>2, QueueKeeps
    <2> HIDE DEF r
    <2>4. x \in Seq(Message) /\ Len(x) = Len(r) /\ \A i \in 1..Len(r) : x[i] = <<"data", r[i]>>
      BY <2>1, DataTyped
    <2> HIDE DEF x, y
    <2>5. Len(x) = Len(y) /\ \A i \in 1..Len(x) : x[i] = y[i]
      <3>1. Len(q) \in Nat /\ Len(d) = Len(q) /\ Len(x) = Len(q) + 1 /\ Len(y) = Len(q) + 1
        BY <1>1, <2>1, <2>3, <2>4, QueueKeeps
      <3>2. ASSUME NEW i \in 1..Len(q) + 1 PROVE x[i] = y[i]
        <4>1. i \in 1..Len(r) /\ i \in 1..Len(d) + 1 /\ x[i] = <<"data", r[i]>>
          BY <2>1, <2>4, <3>1
        <4>2. CASE i <= Len(q)
          <5>1. i \in 1..Len(q) /\ i <= Len(d)
            BY <3>1, <4>2
          <5>2. r[i] = q[i] /\ y[i] = d[i] /\ d[i] = <<"data", q[i]>>
            BY <1>1, <2>1, <2>3, <4>1, <4>2, <5>1
          <5> QED BY <4>1, <5>2
        <4>3. CASE ~(i <= Len(q))
          <5>1. r[i] = n
            BY <2>1, <4>3
          <5>2. y[i] = <<"data", n>>
            BY <2>3, <3>1, <4>1, <4>3
          <5> QED BY <4>1, <5>1, <5>2
        <4> QED BY <4>2, <4>3
      <3> QED BY <3>1, <3>2
    <2>6. x = y
      BY <2>3, <2>4, <2>5, SeqEqual
    <2> QED BY <2>6 DEF x, y, r
  <1>3. ASSUME q # <<>>
        PROVE  d # <<>> /\ Head(d) = <<"data", Head(q)>> /\ Tail(d) = AsData(Tail(q))
    <2> DEFINE r == Tail(q)
               x == AsData(r)
               y == Tail(d)
    <2>1. /\ Len(q) >= 1 /\ Head(q) = q[1] /\ r \in Seq(Nat) /\ Len(r) = Len(q) - 1
          /\ \A i \in 1..Len(q) - 1 : r[i] = q[i + 1]
      BY <1>3, QueueKeeps
    <2>2. d # <<>>
      BY <1>1, <2>1
    <2>3. /\ Head(d) = d[1] /\ y \in Seq(Message) /\ Len(y) = Len(d) - 1
          /\ \A i \in 1..Len(d) - 1 : y[i] = d[i + 1]
      BY <1>1, <2>2, QueueKeeps
    <2> HIDE DEF r
    <2>4. x \in Seq(Message) /\ Len(x) = Len(r) /\ \A i \in 1..Len(r) : x[i] = <<"data", r[i]>>
      BY <2>1, DataTyped
    <2> HIDE DEF x, y
    <2>5. Len(x) = Len(y) /\ \A i \in 1..Len(x) : x[i] = y[i]
      <3>1. Len(q) \in Nat /\ Len(d) = Len(q) /\ Len(x) = Len(q) - 1 /\ Len(y) = Len(q) - 1
        BY <1>1, <2>1, <2>3, <2>4, QueueKeeps
      <3>2. ASSUME NEW i \in 1..Len(q) - 1 PROVE x[i] = y[i]
        <4>1. i + 1 \in 1..Len(q) /\ i \in 1..Len(r) /\ i \in 1..Len(d) - 1
          BY <2>1, <3>1
        <4>2. x[i] = <<"data", r[i]>> /\ r[i] = q[i + 1] /\ y[i] = d[i + 1] /\ d[i + 1] = <<"data", q[i + 1]>>
          BY <1>1, <2>1, <2>3, <2>4, <3>2, <4>1
        <4> QED BY <4>2
      <3> QED BY <3>1, <3>2
    <2>6. x = y
      BY <2>3, <2>4, <2>5, SeqEqual
    <2>7. Head(d) = <<"data", Head(q)>>
      BY <1>1, <2>1, <2>3
    <2> QED BY <2>2, <2>6, <2>7 DEF x, y, r
  <1> QED BY <1>2, <1>3 DEF d

LEMMA CoverNone ==
  ASSUME NEW s \in Seq(Kind), NEW a \in Nat, a <= Len(s)
  PROVE  Covers(s, <<>>, a, a)
  BY DEF Covers

LEMMA CoverHead ==
  ASSUME NEW s \in Seq(Kind), NEW q \in Seq(Message), NEW a \in Nat, NEW b \in Nat,
         Covers(s, q, a, b), q # <<>>
  PROVE  \E x \in Nat : Covers(s, <<Head(q)>>, a, x) /\ Covers(s, Tail(q), x, b)
  <1> DEFINE m == Head(q)
             t == Tail(q)
             x == m[2]
  <1>1. /\ Len(q) \in Nat /\ Len(q) >= 1 /\ m = q[1] /\ m \in Message /\ Len(t) = Len(q) - 1
        /\ \A i \in 1..Len(q) - 1 : t[i] = q[i + 1]
    BY QueueKeeps
  <1>2. \A i \in 1..Len(q) : q[i] \in Message /\ q[i][2] \in Nat
    BY DEF Message
  <1> HIDE DEF m, t
  <1>3. 1 \in 1..Len(q) /\ x \in Nat /\ a < x /\ x <= b /\ s[x] = m[1] /\ Len(s) \in Nat
    BY <1>1, <1>2 DEF Covers
  <1>4. Len(<<m>>) = 1 /\ <<m>>[1] = m
    OBVIOUS
  <1>5. Covers(s, <<m>>, a, x)
    <2>1. ASSUME NEW n \in (a + 1)..x, s[n] = "data" PROVE x = n
      <3>1. n \in (a + 1)..b
        BY <1>3
      <3>2. PICK i \in 1..Len(q) : q[i][2] = n
        BY <2>1, <3>1 DEF Covers
      <3>3. i # 1 => x < n
        BY <1>1, <1>3, <3>2 DEF Covers
      <3> QED BY <1>1, <1>3, <3>2, <3>3
    <2> QED BY <1>3, <1>4, <2>1 DEF Covers
  <1>6. Covers(s, t, x, b)
    <2>1. ASSUME NEW i \in 1..Len(t)
          PROVE  x < t[i][2] /\ t[i][2] <= b /\ s[t[i][2]] = t[i][1]
      <3>1. i \in 1..Len(q) - 1 /\ i + 1 \in 1..Len(q) /\ 1 < i + 1 /\ t[i] = q[i + 1]
        BY <1>1
      <3> QED BY <1>1, <1>2, <1>3, <3>1 DEF Covers
    <2>2. ASSUME NEW i \in 1..Len(t), NEW j \in 1..Len(t), i < j PROVE t[i][2] < t[j][2]
      <3>1. i + 1 \in 1..Len(q) /\ j + 1 \in 1..Len(q) /\ i + 1 < j + 1 /\ t[i] = q[i + 1] /\ t[j] = q[j + 1]
        BY <1>1, <2>2
      <3> QED BY <3>1 DEF Covers
    <2>3. ASSUME NEW n \in (x + 1)..b, s[n] = "data" PROVE \E i \in 1..Len(t) : t[i][2] = n
      <3>1. n \in (a + 1)..b
        BY <1>3
      <3>2. PICK i \in 1..Len(q) : q[i][2] = n
        BY <2>3, <3>1 DEF Covers
      <3>3. i # 1
        BY <1>1, <1>3, <3>2
      <3>4. i - 1 \in 1..Len(t) /\ t[i - 1] = q[i]
        BY <1>1, <3>3
      <3> QED BY <3>2, <3>4
    <2> QED BY <1>3, <2>1, <2>2, <2>3 DEF Covers
  <1> QED BY <1>3, <1>5, <1>6 DEF m, t

LEMMA CoverAppend ==
  ASSUME NEW s \in Seq(Kind), NEW q \in Seq(Message), NEW m \in Message,
         NEW a \in Nat, NEW b \in Nat, NEW c \in Nat,
         Covers(s, q, a, b), Covers(s, <<m>>, b, c)
  PROVE  Covers(s, Append(q, m), a, c)
  <1> DEFINE r == Append(q, m)
  <1>1. /\ Len(q) \in Nat /\ Len(r) = Len(q) + 1
        /\ \A i \in 1..Len(q) + 1 : r[i] = IF i <= Len(q) THEN q[i] ELSE m
    BY QueueKeeps
  <1> HIDE DEF r
  <1>2. Len(<<m>>) = 1 /\ <<m>>[1] = m /\ 1 \in 1..1
    OBVIOUS
  <1>3. b < m[2] /\ m[2] <= c /\ s[m[2]] = m[1] /\ \A n \in (b + 1)..c : s[n] = "data" => m[2] = n
    BY <1>2 DEF Covers
  <1>4. a <= b /\ b <= c /\ c <= Len(s) /\ a <= c /\ m[2] \in Nat /\ \A i \in 1..Len(q) : q[i][2] \in Nat
    BY DEF Covers, Message
  <1>5. ASSUME NEW i \in 1..Len(r) PROVE a < r[i][2] /\ r[i][2] <= c /\ s[r[i][2]] = r[i][1]
    BY <1>1, <1>3, <1>4 DEF Covers
  <1>6. ASSUME NEW i \in 1..Len(r), NEW j \in 1..Len(r), i < j PROVE r[i][2] < r[j][2]
    <2>1. i \in 1..Len(q) /\ r[i] = q[i]
      BY <1>1, <1>6
    <2>2. CASE j \in 1..Len(q)
      BY <1>1, <1>6, <2>1, <2>2 DEF Covers
    <2>3. CASE j \notin 1..Len(q)
      <3>1. r[j] = m
        BY <1>1, <2>3
      <3> QED BY <1>3, <1>4, <2>1, <3>1 DEF Covers
    <2> QED BY <2>2, <2>3
  <1>7. ASSUME NEW n \in (a + 1)..c, s[n] = "data" PROVE \E i \in 1..Len(r) : r[i][2] = n
    <2>1. CASE n <= b
      <3>1. n \in (a + 1)..b
        BY <2>1
      <3>2. PICK i \in 1..Len(q) : q[i][2] = n
        BY <1>7, <3>1 DEF Covers
      <3>3. i \in 1..Len(r) /\ r[i] = q[i]
        BY <1>1
      <3> QED BY <3>2, <3>3
    <2>2. CASE ~(n <= b)
      <3>1. n \in (b + 1)..c
        BY <2>2
      <3>2. m[2] = n
        BY <1>3, <1>7, <3>1
      <3>3. Len(q) + 1 \in 1..Len(r) /\ r[Len(q) + 1] = m
        BY <1>1
      <3> QED BY <3>2, <3>3
    <2> QED BY <2>1, <2>2
  <1>8. Covers(s, r, a, c)
    BY <1>4, <1>5, <1>6, <1>7 DEF Covers
  <1> QED BY <1>8 DEF r

\* A message that is no data may be left out, and so may a place that is empty.
LEMMA CoverSkip ==
  ASSUME NEW s \in Seq(Kind), NEW m \in Message, NEW a \in Nat, NEW b \in Nat,
         m[1] # "data", Covers(s, <<m>>, a, b)
  PROVE  Covers(s, <<>>, a, b)
  <1>1. Len(<<m>>) = 1 /\ <<m>>[1] = m /\ 1 \in 1..1
    OBVIOUS
  <1>2. s[m[2]] = m[1] /\ \A n \in (a + 1)..b : s[n] = "data" => m[2] = n
    BY <1>1 DEF Covers
  <1> QED BY <1>2 DEF Covers

LEMMA CoverGap ==
  ASSUME NEW s \in Seq(Kind), NEW q \in Seq(Message), NEW a \in Nat, NEW b \in Nat, NEW c \in Nat
  PROVE  /\ Covers(s, q, a, b) /\ Covers(s, <<>>, b, c) => Covers(s, q, a, c)
         /\ Covers(s, <<>>, a, b) /\ Covers(s, q, b, c) => Covers(s, q, a, c)
  <1>0. Len(s) \in Nat /\ \A i \in 1..Len(q) : q[i][2] \in Nat
    BY DEF Message
  <1>1. ASSUME Covers(s, q, a, b), Covers(s, <<>>, b, c) PROVE Covers(s, q, a, c)
    <2>1. \A n \in (b + 1)..c : s[n] # "data"
      BY <1>1 DEF Covers
    <2>2. a <= b /\ b <= c /\ c <= Len(s)
      BY <1>1 DEF Covers
    <2>3. \A i \in 1..Len(q) : a < q[i][2] /\ q[i][2] <= c /\ s[q[i][2]] = q[i][1]
      BY <1>0, <1>1, <2>2 DEF Covers
    <2>4. \A n \in (a + 1)..c : s[n] = "data" => n \in (a + 1)..b
      BY <1>0, <2>1, <2>2
    <2> QED BY <1>0, <1>1, <2>2, <2>3, <2>4 DEF Covers
  <1>2. ASSUME Covers(s, <<>>, a, b), Covers(s, q, b, c) PROVE Covers(s, q, a, c)
    <2>1. \A n \in (a + 1)..b : s[n] # "data"
      BY <1>2 DEF Covers
    <2> QED BY <1>0, <1>2, <2>1 DEF Covers
  <1> QED BY <1>1, <1>2

\* What the client sends next is covered by the websocket it is put in.
LEMMA CoverGrows ==
  ASSUME NEW s \in Seq(Kind), NEW k \in Kind, NEW q \in Seq(Message), NEW a \in Nat
  PROVE  /\ \A b \in Nat : Covers(s, q, a, b) => Covers(Append(s, k), q, a, b)
         /\ Covers(s, q, a, Len(s)) =>
              Covers(Append(s, k), Append(q, <<k, Len(s) + 1>>), a, Len(s) + 1)
  <1>0. /\ Len(s) \in Nat /\ Append(s, k) \in Seq(Kind) /\ Len(Append(s, k)) = Len(s) + 1
        /\ \A i \in 1..Len(s) + 1 : Append(s, k)[i] = IF i <= Len(s) THEN s[i] ELSE k
    BY QueueKeeps
  <1> DEFINE s2 == Append(s, k)
             m == <<k, Len(s) + 1>>
  <1> HIDE DEF s2
  <1>00. /\ s2 \in Seq(Kind) /\ Len(s2) = Len(s) + 1
         /\ \A i \in 1..Len(s) : s2[i] = s[i]
         /\ s2[Len(s) + 1] = k
    BY <1>0 DEF s2
  <1>1. ASSUME NEW b \in Nat, Covers(s, q, a, b) PROVE Covers(s2, q, a, b)
    <2>1. b <= Len(s) /\ a <= b /\ \A i \in 1..Len(q) : q[i][2] \in Nat
      BY <1>1 DEF Covers, Message
    <2>2. \A i \in 1..Len(q) : q[i][2] \in 1..Len(s)
      BY <1>0, <1>1, <2>1 DEF Covers
    <2> QED BY <1>0, <1>00, <1>1, <2>1, <2>2 DEF Covers
  <1>2. ASSUME Covers(s, q, a, Len(s)) PROVE Covers(s2, Append(q, m), a, Len(s) + 1)
    <2>1. Covers(s2, q, a, Len(s))
      BY <1>0, <1>1, <1>2
    <2>2. m \in Message /\ m[1] = k /\ m[2] = Len(s) + 1 /\ Len(<<m>>) = 1 /\ <<m>>[1] = m
      BY <1>0 DEF Message
    <2>3. Covers(s2, <<m>>, Len(s), Len(s) + 1)
      BY <1>0, <1>00, <2>2 DEF Covers
    <2>4. Len(s) \in Nat /\ Len(s) + 1 \in Nat
      BY <1>0
    <2> QED BY <1>00, <2>1, <2>2, <2>3, <2>4, CoverAppend
  <1> QED BY <1>1, <1>2 DEF s2

-----------------------------------------------------------------------------
\* Where the input is, by the numbers of the messages: up to a bash has read
\* it, then the terminal up to b, the agent's hand up to c, the stream up to
\* d, the handler's hand up to e, the websocket the rest.
InFrame == IF guest = "write" THEN <<frame>> ELSE <<>>
InHand == IF host = "write" THEN <<hand>> ELSE <<>>

InCuts(a, b, c, d, e) ==
    /\ Covers(sent, AsData(took), 0, a)
    /\ bash # "exited" => /\ Covers(sent, AsData(ttyIn), a, b)
                          /\ Covers(sent, InFrame, b, c)
                          /\ Covers(sent, up, c, d)
                          /\ host # "done" => /\ Covers(sent, InHand, d, e)
                                              /\ Covers(sent, wsUp, e, Len(sent))

InInv == \E a, b, c, d, e \in Nat : InCuts(a, b, c, d, e)

LEMMA InitIn == Init => InInv
  <1> SUFFICES ASSUME Init PROVE InInv
    OBVIOUS
  <1>1. sent = <<>> /\ Len(sent) = 0 /\ sent \in Seq(Kind)
    BY DEF Init
  <1>2. Covers(sent, <<>>, 0, 0)
    <2>1. 0 \in Nat /\ 0 <= Len(sent)
      BY <1>1
    <2> QED BY <1>1, <2>1, CoverNone
  <1>3. AsData(<<>>) = <<>>
    <2>1. AsData(<<>>) \in Seq(Message) /\ Len(AsData(<<>>)) = 0
      BY NoneTyped, DataTyped
    <2> QED BY <2>1
  <1>4. InCuts(0, 0, 0, 0, 0)
    BY <1>1, <1>2, <1>3 DEF Init, InCuts, InFrame, InHand
  <1> QED BY <1>4 DEF InInv

\* A step that only ends the handler or the shell leaves every cut where it is.
LEMMA KeepsIn ==
  ASSUME InInv,
         UNCHANGED <<sent, wsUp, up, ttyIn, took>>,
         bash' # "exited" => /\ bash # "exited" /\ InFrame' = InFrame
                             /\ host' # "done" => host # "done" /\ InHand' = InHand
  PROVE  InInv'
  <1>1. PICK a \in Nat, b \in Nat, c \in Nat, d \in Nat, e \in Nat : InCuts(a, b, c, d, e)
    BY DEF InInv
  <1>2. InCuts(a, b, c, d, e)'
    BY <1>1 DEF InCuts
  <1> QED BY <1>2 DEF InInv

\* The handler's loop takes a message from the websocket, and writes it to
\* the stream unless it is a resize that the stream does not carry.
LEMMA HostKeepsIn ==
  ASSUME BaseInv, InInv, HostStep
  PROVE  InInv'
  <1>1. PICK a \in Nat, b \in Nat, c \in Nat, d \in Nat, e \in Nat : InCuts(a, b, c, d, e)
    BY DEF InInv
  <1> USE DEF BaseInv, Nothing
  <1>0. sent \in Seq(Kind) /\ up \in Seq(Message) /\ wsUp \in Seq(Message)
    BY DEF TypeInv
  <1>2. CASE Open \/ Upgrade \/ HostReadFails
    <2>1. UNCHANGED <<sent, wsUp, up, ttyIn, took>>
      BY <1>2 DEF Open, Upgrade, HostReadFails, wsVars, agentVars, ttyVars
    <2>2. /\ bash' # "exited" => bash # "exited" /\ InFrame' = InFrame
          /\ host' # "done" => host # "done" /\ InHand' = InHand
      <3>1. CASE Open
        BY <3>1 DEF Open, HostReturn, DockerOpens, FirecrackerDials, PtyStarts, PtyFails, StartInv, InFrame, InHand
      <3>2. CASE Upgrade
        BY <3>2 DEF Upgrade, HostReturn, agentVars, ttyVars, InFrame, InHand
      <3>3. CASE HostReadFails
        BY <3>3 DEF HostReadFails, HostReturn, agentVars, ttyVars, InFrame, InHand
      <3> QED BY <1>2, <3>1, <3>2, <3>3
    <2> QED BY <2>1, <2>2, KeepsIn
  <1>3. CASE HostRead
    <2>1. /\ host = "read" /\ host' = "write" /\ wsUp # <<>> /\ wsUp' = Tail(wsUp) /\ hand' = Head(wsUp)
          /\ UNCHANGED <<sent, up, guest, frame, bash, ttyIn, took>>
      BY <1>3 DEF HostRead, streamVars, agentVars, ttyVars
    <2>2. CASE bash = "exited"
      <3>1. InCuts(a, b, c, d, e)'
        BY <1>1, <2>1, <2>2 DEF InCuts
      <3> QED BY <3>1 DEF InInv
    <2>3. CASE bash # "exited"
      <3>1. Covers(sent, <<>>, d, e) /\ Covers(sent, wsUp, e, Len(sent))
        BY <1>1, <2>1, <2>3 DEF InCuts, InHand
      <3>2. Len(sent) \in Nat
        BY <1>0, LenProperties
      <3>3. PICK x \in Nat : Covers(sent, <<Head(wsUp)>>, e, x) /\ Covers(sent, Tail(wsUp), x, Len(sent))
        BY <1>0, <2>1, <3>1, <3>2, CoverHead
      <3>4. <<Head(wsUp)>> \in Seq(Message)
        BY <1>0, <2>1
      <3>5. Covers(sent, <<Head(wsUp)>>, d, x)
        BY <1>0, <3>1, <3>3, <3>4, CoverGap
      <3>6. InHand' = <<Head(wsUp)>> /\ InFrame' = InFrame
        BY <2>1 DEF InHand, InFrame
      <3>7. InCuts(a, b, c, d, x)'
        BY <1>1, <2>1, <2>3, <3>3, <3>5, <3>6 DEF InCuts
      <3> QED BY <3>7 DEF InInv
    <2> QED BY <2>2, <2>3
  <1>4. CASE HostWrite
    <2>1. /\ host = "write" /\ host' = "read" /\ hand \in Message /\ up' = Append(up, hand)
          /\ UNCHANGED <<sent, wsUp, guest, frame, bash, ttyIn, took>>
      BY <1>4 DEF HostWrite, WriteFrame, wsVars, agentVars, ttyVars, TypeInv
    <2>2. CASE bash = "exited"
      <3>1. InCuts(a, b, c, d, e)'
        BY <1>1, <2>1, <2>2 DEF InCuts
      <3> QED BY <3>1 DEF InInv
    <2>3. CASE bash # "exited"
      <3>1. Covers(sent, up, c, d) /\ Covers(sent, <<hand>>, d, e)
        BY <1>1, <2>1, <2>3 DEF InCuts, InHand
      <3>2. Covers(sent, Append(up, hand), c, e)
        BY <1>0, <2>1, <3>1, CoverAppend
      <3>3. Covers(sent, <<>>, e, e)
        BY <1>0, <3>1, CoverNone DEF Covers
      <3>4. InHand' = <<>> /\ InFrame' = InFrame
        BY <2>1 DEF InHand, InFrame
      <3>5. InCuts(a, b, c, e, e)'
        BY <1>1, <2>1, <2>3, <3>2, <3>3, <3>4 DEF InCuts
      <3> QED BY <3>5 DEF InInv
    <2> QED BY <2>2, <2>3
  <1>5. CASE HostResize \/ HostWriteFails
    <2>1. CASE host' = "done"
      <3>1. UNCHANGED <<sent, wsUp, up, guest, frame, bash, ttyIn, took>>
        BY <1>5 DEF HostResize, HostWriteFails, wsVars, streamVars, agentVars, ttyVars
      <3>2. InFrame' = InFrame
        BY <3>1 DEF InFrame
      <3> QED BY <2>1, <3>1, <3>2, KeepsIn
    <2>2. CASE host' # "done"
      <3>1. /\ host = "write" /\ host' = "read" /\ hand \in Message /\ hand[1] = "resize"
            /\ UNCHANGED <<sent, wsUp, up, guest, frame, bash, ttyIn, took>>
        BY <1>5, <2>2 DEF HostResize, HostWriteFails, HostReturn, wsVars, streamVars, agentVars, ttyVars, TypeInv
      <3>2. InHand' = <<>> /\ InFrame' = InFrame
        BY <3>1 DEF InHand, InFrame
      <3>3. bash # "exited" => Covers(sent, <<>>, d, e)
        <4>1. bash # "exited" => Covers(sent, <<hand>>, d, e)
          BY <1>1, <3>1 DEF InCuts, InHand
        <4> QED BY <1>0, <3>1, <4>1, CoverSkip
      <3>4. InCuts(a, b, c, d, e)'
        BY <1>1, <3>1, <3>2, <3>3 DEF InCuts
      <3> QED BY <3>4 DEF InInv
    <2> QED BY <2>1, <2>2
  <1> QED BY <1>2, <1>3, <1>4, <1>5 DEF HostStep

\* The agent's loop takes a message from the stream, and writes it to the
\* terminal or, if it is a resize, sets its size.
LEMMA GuestKeepsIn ==
  ASSUME BaseInv, InInv, GuestStep
  PROVE  InInv'
  <1>1. PICK a \in Nat, b \in Nat, c \in Nat, d \in Nat, e \in Nat : InCuts(a, b, c, d, e)
    BY DEF InInv
  <1> USE DEF BaseInv, Nothing
  <1>0. /\ sent \in Seq(Kind) /\ up \in Seq(Message) /\ ttyIn \in Seq(Nat)
        /\ AsData(ttyIn) \in Seq(Message)
    BY DataTyped DEF TypeInv
  <1>2. CASE GuestRead
    <2>1. /\ guest = "read" /\ up # <<>> /\ up' = Tail(up)
          /\ \/ guest' = "write" /\ frame' = Head(up)
             \/ guest' = "read" /\ Head(up)[1] = "resize"
          /\ UNCHANGED <<sent, wsUp, host, hand, bash, ttyIn, took>>
      BY <1>2 DEF GuestRead, wsVars, hostVars
    <2>2. CASE bash = "exited"
      <3>1. InCuts(a, b, c, d, e)'
        BY <1>1, <2>1, <2>2 DEF InCuts
      <3> QED BY <3>1 DEF InInv
    <2>3. CASE bash # "exited"
      <3>1. Covers(sent, <<>>, b, c) /\ Covers(sent, up, c, d)
        BY <1>1, <2>1, <2>3 DEF InCuts, InFrame
      <3>2. PICK x \in Nat : Covers(sent, <<Head(up)>>, c, x) /\ Covers(sent, Tail(up), x, d)
        BY <1>0, <2>1, <3>1, CoverHead
      <3>3. Head(up) \in Message /\ <<Head(up)>> \in Seq(Message) /\ Tail(up) \in Seq(Message)
        BY <1>0, <2>1
      <3>4. InHand' = InHand
        BY <2>1 DEF InHand
      <3>5. CASE guest' = "write" /\ frame' = Head(up)
        <4>1. Covers(sent, <<Head(up)>>, b, x)
          BY <1>0, <3>1, <3>2, <3>3, CoverGap
        <4>2. InFrame' = <<Head(up)>>
          BY <3>5 DEF InFrame
        <4>3. InCuts(a, b, x, d, e)'
          BY <1>1, <2>1, <2>3, <3>2, <3>4, <4>1, <4>2 DEF InCuts
        <4> QED BY <4>3 DEF InInv
      <3>6. CASE guest' = "read" /\ Head(up)[1] = "resize"
        <4>1. Covers(sent, <<>>, c, x)
          BY <1>0, <3>2, <3>3, <3>6, CoverSkip
        <4>2. Covers(sent, Tail(up), c, d)
          BY <1>0, <3>2, <3>3, <4>1, CoverGap
        <4>3. InFrame' = InFrame
          BY <2>1, <3>6 DEF InFrame
        <4>4. InCuts(a, b, c, d, e)'
          BY <1>1, <2>1, <2>3, <3>4, <4>2, <4>3 DEF InCuts
        <4> QED BY <4>4 DEF InInv
      <3> QED BY <2>1, <3>5, <3>6
    <2> QED BY <2>2, <2>3
  <1>3. CASE GuestWrite
    <2>1. /\ guest = "write" /\ guest' = "read" /\ frame \in Message /\ frame[1] = "data"
          /\ bash # "exited" => ttyIn' = Append(ttyIn, frame[2])
          /\ UNCHANGED <<sent, wsUp, host, hand, up, bash, took>>
      BY <1>3 DEF GuestWrite, TypeInv, wsVars, hostVars, streamVars
    <2>2. CASE bash = "exited"
      <3>1. InCuts(a, b, c, d, e)'
        BY <1>1, <2>1, <2>2 DEF InCuts
      <3> QED BY <3>1 DEF InInv
    <2>3. CASE bash # "exited"
      <3>1. Covers(sent, AsData(ttyIn), a, b) /\ Covers(sent, <<frame>>, b, c)
        BY <1>1, <2>1, <2>3 DEF InCuts, InFrame
      <3>2. frame = <<"data", frame[2]>> /\ frame[2] \in Nat
        BY <2>1 DEF Message
      <3>3. AsData(ttyIn') = Append(AsData(ttyIn), frame)
        <4>1. AsData(Append(ttyIn, frame[2])) = Append(AsData(ttyIn), <<"data", frame[2]>>)
          BY <1>0, <3>2, DataKeeps
        <4>2. ttyIn' = Append(ttyIn, frame[2])
          BY <2>1, <2>3
        <4> QED BY <3>2, <4>1, <4>2, Zenon
      <3>4. Covers(sent, AsData(ttyIn'), a, c)
        BY <1>0, <2>1, <3>1, <3>3, CoverAppend
      <3>5. Covers(sent, <<>>, c, c)
        BY <1>0, <3>1, CoverNone DEF Covers
      <3>6. InFrame' = <<>> /\ InHand' = InHand
        BY <2>1 DEF InFrame, InHand
      <3>7. InCuts(a, c, c, d, e)'
        BY <1>1, <2>1, <2>3, <3>4, <3>5, <3>6 DEF InCuts
      <3> QED BY <3>7 DEF InInv
    <2> QED BY <2>2, <2>3
  <1>4. CASE GuestEOF \/ GuestReturn
    <2>1. UNCHANGED <<sent, wsUp, host, hand, up, ttyIn, took>>
      BY <1>4 DEF GuestEOF, GuestReturn, wsVars, hostVars, streamVars, ttyVars
    <2>2. bash' # "exited" => bash # "exited" /\ InFrame' = InFrame
      BY <1>4 DEF GuestEOF, GuestReturn, ttyVars, InFrame
    <2>3. InHand' = InHand
      BY <2>1 DEF InHand
    <2> QED BY <2>1, <2>2, <2>3, KeepsIn
  <1> QED BY <1>2, <1>3, <1>4 DEF GuestStep

\* On Docker the daemon writes what the stream holds, which is data only.
LEMMA DaemonKeepsIn ==
  ASSUME BaseInv, InInv, DaemonIn \/ DaemonOut \/ DaemonEnds
  PROVE  InInv'
  <1>1. PICK a \in Nat, b \in Nat, c \in Nat, d \in Nat, e \in Nat : InCuts(a, b, c, d, e)
    BY DEF InInv
  <1> USE DEF BaseInv
  <1>0. /\ sent \in Seq(Kind) /\ up \in Seq(Message) /\ ttyIn \in Seq(Nat)
        /\ AsData(ttyIn) \in Seq(Message)
    BY DataTyped DEF TypeInv
  <1>2. CASE DaemonIn
    <2>1. /\ guest = "none" /\ OnlyData(up) /\ up # <<>> /\ up' = Tail(up)
          /\ bash # "exited" => ttyIn' = Append(ttyIn, Head(up)[2])
          /\ UNCHANGED <<sent, wsUp, host, hand, guest, frame, bash, took>>
      BY <1>2 DEF DaemonIn, StartInv, StreamInv, wsVars, hostVars, agentVars
    <2>2. CASE bash = "exited"
      <3>1. InCuts(a, b, c, d, e)'
        BY <1>1, <2>1, <2>2 DEF InCuts
      <3> QED BY <3>1 DEF InInv
    <2>3. CASE bash # "exited"
      <3>1. Covers(sent, AsData(ttyIn), a, b) /\ Covers(sent, <<>>, b, c) /\ Covers(sent, up, c, d)
        BY <1>1, <2>1, <2>3 DEF InCuts, InFrame
      <3>2. PICK x \in Nat : Covers(sent, <<Head(up)>>, c, x) /\ Covers(sent, Tail(up), x, d)
        BY <1>0, <2>1, <3>1, CoverHead
      <3>3. Head(up) \in Message /\ <<Head(up)>> \in Seq(Message) /\ Head(up)[1] = "data"
        BY <1>0, <2>1, StreamKeeps
      <3>4. Head(up) = <<"data", Head(up)[2]>> /\ Head(up)[2] \in Nat
        BY <3>3 DEF Message
      <3>5. Covers(sent, AsData(ttyIn), a, c)
        BY <1>0, <3>1, CoverGap
      <3>6. AsData(ttyIn') = Append(AsData(ttyIn), Head(up))
        <4>1. AsData(Append(ttyIn, Head(up)[2])) = Append(AsData(ttyIn), <<"data", Head(up)[2]>>)
          BY <1>0, <3>4, DataKeeps
        <4>2. ttyIn' = Append(ttyIn, Head(up)[2])
          BY <2>1, <2>3
        <4> QED BY <3>4, <4>1, <4>2, Zenon
      <3>7. Covers(sent, AsData(ttyIn'), a, x)
        BY <1>0, <3>2, <3>3, <3>5, <3>6, CoverAppend
      <3>8. Covers(sent, <<>>, x, x)
        BY <1>0, <3>2, CoverNone DEF Covers
      <3>9. InFrame' = <<>> /\ InHand' = InHand
        BY <2>1 DEF InFrame, InHand
      <3>10. InCuts(a, x, x, d, e)'
        BY <1>1, <2>1, <2>3, <3>2, <3>7, <3>8, <3>9 DEF InCuts
      <3> QED BY <3>10 DEF InInv
    <2> QED BY <2>2, <2>3
  <1>3. CASE DaemonOut \/ DaemonEnds
    <2>1. UNCHANGED <<sent, wsUp, host, hand, up, guest, frame, bash, ttyIn, took>>
      BY <1>3 DEF DaemonOut, DaemonEnds, wsVars, hostVars, agentVars, ttyVars
    <2>2. InFrame' = InFrame /\ InHand' = InHand
      BY <2>1 DEF InFrame, InHand
    <2> QED BY <2>1, <2>2, KeepsIn
  <1> QED BY <1>2, <1>3

\* The pumps carry output only.
LEMMA PumpsKeepIn ==
  ASSUME InInv, PumpStep \/ GuestPumpStep
  PROVE  InInv'
  <1>1. UNCHANGED <<sent, wsUp, host, hand, up, guest, frame, bash, ttyIn, took>>
    BY DEF PumpStep, PumpRead, PumpWrite, PumpEnds, GuestPumpStep, GuestPumpRead, GuestPumpWrite,
           GuestPumpEnds, wsVars, hostVars, streamVars, agentVars, ttyVars
  <1>2. InFrame' = InFrame /\ InHand' = InHand
    BY <1>1 DEF InFrame, InHand
  <1> QED BY <1>1, <1>2, KeepsIn

\* Bash takes the next of what the terminal holds, writes, or ends.
LEMMA BashKeepsIn ==
  ASSUME BaseInv, InInv, BashRead \/ BashWrite \/ BashExit \/ SandboxDies
  PROVE  InInv'
  <1>1. PICK a \in Nat, b \in Nat, c \in Nat, d \in Nat, e \in Nat : InCuts(a, b, c, d, e)
    BY DEF InInv
  <1> USE DEF BaseInv
  <1>2. CASE BashRead
    <2>0. /\ sent \in Seq(Kind) /\ took \in Seq(Nat) /\ ttyIn \in Seq(Nat)
          /\ AsData(took) \in Seq(Message) /\ AsData(ttyIn) \in Seq(Message)
      BY DataTyped DEF TypeInv
    <2>1. /\ bash = "on" /\ ttyIn # <<>> /\ took' = Append(took, Head(ttyIn)) /\ ttyIn' = Tail(ttyIn)
          /\ UNCHANGED <<sent, wsUp, host, hand, up, guest, frame, bash>>
      BY <1>2 DEF BashRead, wsVars, hostVars, streamVars, agentVars
    <2>2. Covers(sent, AsData(took), 0, a) /\ Covers(sent, AsData(ttyIn), a, b)
      BY <1>1, <2>1 DEF InCuts
    <2>3. /\ Head(ttyIn) \in Nat /\ AsData(ttyIn) # <<>>
          /\ Head(AsData(ttyIn)) = <<"data", Head(ttyIn)>> /\ Tail(AsData(ttyIn)) = AsData(Tail(ttyIn))
      BY <2>0, <2>1, DataKeeps
    <2> DEFINE m == <<"data", Head(ttyIn)>>
    <2>4. PICK x \in Nat : Covers(sent, <<m>>, a, x) /\ Covers(sent, AsData(Tail(ttyIn)), x, b)
      <3>1. \E x \in Nat : Covers(sent, <<Head(AsData(ttyIn))>>, a, x) /\ Covers(sent, Tail(AsData(ttyIn)), x, b)
        BY <2>0, <2>2, <2>3, CoverHead
      <3> QED BY <2>3, <3>1
    <2>5. AsData(took') = Append(AsData(took), m)
      <3>1. AsData(Append(took, Head(ttyIn))) = Append(AsData(took), m)
        BY <2>0, <2>3, DataKeeps
      <3> QED BY <2>1, <3>1, Zenon
    <2>6. m \in Message
      BY <2>3 DEF Message, Kind
    <2> HIDE DEF m
    <2>7. Covers(sent, AsData(took'), 0, x)
      <3>1. 0 \in Nat
        OBVIOUS
      <3> QED BY <2>0, <2>2, <2>4, <2>5, <2>6, <3>1, CoverAppend
    <2>8. InFrame' = InFrame /\ InHand' = InHand
      BY <2>1 DEF InFrame, InHand
    <2>9. InCuts(x, b, c, d, e)'
      BY <1>1, <2>1, <2>4, <2>7, <2>8 DEF InCuts
    <2> QED BY <2>9 DEF InInv
  <1>3. CASE BashWrite \/ BashExit \/ SandboxDies
    <2>1. UNCHANGED <<sent, wsUp, host, hand, up, ttyIn, took>>
      BY <1>3 DEF BashWrite, BashExit, SandboxDies, wsVars, hostVars, streamVars, agentVars
    <2>2. bash' # "exited" => bash # "exited" /\ InFrame' = InFrame
      BY <1>3 DEF BashWrite, BashExit, SandboxDies, agentVars, InFrame
    <2>3. InHand' = InHand
      BY <2>1 DEF InHand
    <2> QED BY <2>1, <2>2, <2>3, KeepsIn
  <1> QED BY <1>2, <1>3

\* The client sends the next message, reads, or leaves.
LEMMA ClientKeepsIn ==
  ASSUME BaseInv, InInv, ClientSend \/ ClientRead \/ ClientLeave
  PROVE  InInv'
  <1>1. PICK a \in Nat, b \in Nat, c \in Nat, d \in Nat, e \in Nat : InCuts(a, b, c, d, e)
    BY DEF InInv
  <1> USE DEF BaseInv
  <1>2. CASE ClientSend
    <2>0. /\ sent \in Seq(Kind) /\ up \in Seq(Message) /\ wsUp \in Seq(Message)
          /\ AsData(took) \in Seq(Message) /\ AsData(ttyIn) \in Seq(Message)
          /\ InFrame \in Seq(Message) /\ InHand \in Seq(Message)
      <3>1. <<>> \in Seq(Message)
        BY NoneTyped
      <3>2. InFrame \in Seq(Message) /\ InHand \in Seq(Message)
        BY <3>1 DEF TypeInv, InFrame, InHand
      <3> QED BY <3>2, DataTyped DEF TypeInv
    <2>1. PICK kind \in Kind : sent' = Append(sent, kind) /\ wsUp' = Append(wsUp, <<kind, Len(sent) + 1>>)
      BY <1>2 DEF ClientSend, Kind
    <2>2. UNCHANGED <<host, hand, up, guest, frame, bash, ttyIn, took>>
      BY <1>2 DEF ClientSend, hostVars, streamVars, agentVars, ttyVars
    <2>3. \A q \in Seq(Message), x, y \in Nat : Covers(sent, q, x, y) => Covers(sent', q, x, y)
      BY <2>0, <2>1, CoverGrows
    <2>4. Covers(sent, wsUp, e, Len(sent)) => Covers(sent', wsUp', e, Len(sent'))
      <3>1. Len(sent') = Len(sent) + 1
        BY <2>0, <2>1, QueueKeeps
      <3>2. Covers(sent, wsUp, e, Len(sent)) =>
               Covers(Append(sent, kind), Append(wsUp, <<kind, Len(sent) + 1>>), e, Len(sent) + 1)
        BY <2>0, CoverGrows
      <3> QED BY <2>1, <3>1, <3>2
    <2>5. InFrame' = InFrame /\ InHand' = InHand
      BY <2>2 DEF InFrame, InHand
    <2>6. 0 \in Nat
      OBVIOUS
    <2>7. Covers(sent', AsData(took), 0, a)
      BY <1>1, <2>0, <2>3, <2>6 DEF InCuts
    <2>8. bash # "exited" => /\ Covers(sent', AsData(ttyIn), a, b)
                             /\ Covers(sent', InFrame, b, c)
                             /\ Covers(sent', up, c, d)
                             /\ host # "done" => /\ Covers(sent', InHand, d, e)
                                                 /\ Covers(sent', wsUp', e, Len(sent'))
      BY <1>1, <2>0, <2>3, <2>4 DEF InCuts
    <2>9. InCuts(a, b, c, d, e)'
      BY <2>2, <2>5, <2>7, <2>8 DEF InCuts
    <2> QED BY <2>9 DEF InInv
  <1>3. CASE ClientRead \/ ClientLeave
    <2>1. UNCHANGED <<sent, wsUp, host, hand, up, guest, frame, bash, ttyIn, took>>
      BY <1>3 DEF ClientRead, ClientLeave, hostVars, streamVars, agentVars, ttyVars
    <2>2. InFrame' = InFrame /\ InHand' = InHand
      BY <2>1 DEF InFrame, InHand
    <2> QED BY <2>1, <2>2, KeepsIn
  <1> QED BY <1>2, <1>3

LEMMA NextIn ==
  ASSUME BaseInv, InInv, [Next]_vars
  PROVE  InInv'
  <1>1. CASE UNCHANGED vars
    <2>1. UNCHANGED <<sent, wsUp, host, hand, up, guest, frame, bash, ttyIn, took>>
      BY <1>1 DEF vars, wsVars, hostVars, streamVars, agentVars, ttyVars
    <2>2. InFrame' = InFrame /\ InHand' = InHand
      BY <2>1 DEF InFrame, InHand
    <2> QED BY <2>1, <2>2, KeepsIn
  <1> QED BY <1>1, HostKeepsIn, PumpsKeepIn, GuestKeepsIn, DaemonKeepsIn, BashKeepsIn, ClientKeepsIn DEF Next

LEMMA InInvShows ==
  ASSUME BaseInv, InInv
  PROVE  InputInOrder
  <1>1. PICK a \in Nat : Covers(sent, AsData(took), 0, a)
    BY DEF InInv, InCuts
  <1>2. took \in Seq(Nat) /\ Len(took) \in Nat /\ \A i \in 1..Len(took) : took[i] \in Nat
    BY DEF BaseInv, TypeInv
  <1>3. Len(AsData(took)) = Len(took) /\ \A i \in 1..Len(took) : AsData(took)[i] = <<"data", took[i]>>
    BY <1>2, DataTyped
  <1>4. \A i \in 1..Len(took) : AsData(took)[i][2] = took[i] /\ AsData(took)[i][1] = "data"
    BY <1>3
  <1>5. Len(sent) \in Nat /\ a <= Len(sent)
    BY <1>1 DEF Covers, BaseInv, TypeInv
  <1>6. \A i \in 1..Len(took) : 0 < took[i] /\ took[i] <= a /\ sent[took[i]] = "data"
    BY <1>1, <1>3, <1>4 DEF Covers
  <1>7. \A i, j \in 1..Len(took) : i < j => took[i] < took[j]
    BY <1>1, <1>3, <1>4 DEF Covers
  <1>8. \A n \in (0 + 1)..a : sent[n] = "data" => \E i \in 1..Len(took) : took[i] = n
    BY <1>1, <1>3, <1>4 DEF Covers
  <1>9. ASSUME NEW i \in 1..Len(took)
        PROVE  /\ took[i] \in 1..Len(sent)
               /\ \A j \in 1..(i - 1) : took[j] < took[i]
               /\ \A n \in 1..took[i] : sent[n] = "data" <=> \E j \in 1..i : took[j] = n
    <2>1. took[i] \in 1..Len(sent)
      BY <1>2, <1>5, <1>6
    <2>2. \A j \in 1..(i - 1) : took[j] < took[i]
      BY <1>2, <1>7
    <2>3. ASSUME NEW n \in 1..took[i], sent[n] = "data" PROVE \E j \in 1..i : took[j] = n
      <3>1. n \in (0 + 1)..a
        BY <1>2, <1>6
      <3>2. PICK j \in 1..Len(took) : took[j] = n
        BY <1>8, <2>3, <3>1
      <3>3. ~(i < j)
        BY <1>2, <1>7, <3>2
      <3> QED BY <1>2, <3>2, <3>3
    <2>4. ASSUME NEW n \in 1..took[i], NEW j \in 1..i, took[j] = n PROVE sent[n] = "data"
      BY <1>2, <1>6, <2>4
    <2> QED BY <2>1, <2>2, <2>3, <2>4
  <1> QED BY <1>9 DEF InputInOrder

\* Whatever the interleaving of the two loops, the daemon and the shell, and
\* whatever resizes come in between, bash reads what the client typed: at any
\* point, every message of data up to there, once and in order.
THEOREM InputIsInOrder == Spec => []InputInOrder
  <1>1. Init => BaseInv /\ InInv
    BY InitBase, InitIn
  <1>2. BaseInv /\ InInv /\ [Next]_vars => (BaseInv /\ InInv)'
    BY NextBase, NextIn
  <1>3. BaseInv /\ InInv => InputInOrder
    BY InInvShows
  <1> QED BY <1>1, <1>2, <1>3, PTL DEF Spec
====
