---------------------------- MODULE ShellSession ----------------------------
(***************************************************************************)
(* One interactive shell: the websocket handler (internal/api/shell.go)    *)
(* with its main loop and output pump, the backend's stream to the sandbox *)
(* (a hijacked Docker exec, or vsock frames), and at the other end the     *)
(* guest agent's loop and pump around the pty (guest-agent/main.go), or    *)
(* the Docker daemon.  Every buffer is bounded, so each writer can block   *)
(* on the next; a connection can be closed from either side.               *)
(*                                                                         *)
(* Output is the numbers 1, 2, ... in the order bash writes them; a        *)
(* message of the client is its kind and its number.  A shutdown delivers  *)
(* what was written before it (the sockets are not reset).                 *)
(***************************************************************************)
EXTENDS Naturals, Sequences

CONSTANTS
    Backends,     \* the backends of the run: "docker", "firecracker"
    MaxIn,        \* bound: messages the client sends
    MaxOut,       \* bound: pieces of output bash writes
    Cap,          \* pieces a socket or pty buffers before its writer blocks
    GuestBuf,     \* pieces in the buffer of the guest's pump (4096 bytes)
    HostBuf,      \* pieces in the buffer of the handler's pump (32*1034 bytes)
    BashReads     \* whether bash goes on reading its terminal

ASSUME ShellAssumption ==
    /\ Backends \subseteq {"docker", "firecracker"}
    /\ MaxIn \in Nat /\ MaxOut \in Nat /\ Cap \in Nat \ {0}
    /\ GuestBuf \in Nat \ {0} /\ HostBuf \in Nat /\ HostBuf >= GuestBuf
    /\ BashReads \in BOOLEAN

VARIABLES
    backend,              \* the active isolation backend
    client, sent, seen,   \* "on" or "gone"; kinds of its messages; output it has
    wsUp, wsDown,         \* the websocket, in each direction
    host, hand,           \* the handler's main loop; the message it writes
    pump, chunk,          \* the handler's output pump; what it writes
    cancelled,            \* the handler's ctx
    up, down,             \* the stream to the sandbox, in each direction
    hostShut, guestShut,  \* which ends of that stream are closed
    guest, frame,         \* the agent's loop; the frame it writes to the pty
    gpump, gchunk,        \* the agent's pump; what it writes
    bash, ttyIn, ttyOut,  \* the shell and the buffers of its terminal
    made, took, size      \* output written, input read, number of the last resize

wsVars == <<client, sent, seen, wsUp, wsDown>>
hostVars == <<host, hand, pump, chunk, cancelled>>
streamVars == <<up, down, hostShut, guestShut>>
agentVars == <<guest, frame, gpump, gchunk>>
ttyVars == <<bash, ttyIn, ttyOut, made, took, size>>
vars == <<backend, wsVars, hostVars, streamVars, agentVars, ttyVars>>

Nothing == <<>>

Init ==
    /\ backend \in Backends
    /\ client = "on" /\ sent = <<>> /\ seen = <<>> /\ wsUp = <<>> /\ wsDown = <<>>
    /\ host = "dial" /\ hand = Nothing /\ pump = "none" /\ chunk = Nothing /\ cancelled = FALSE
    /\ up = <<>> /\ down = <<>> /\ hostShut = FALSE /\ guestShut = FALSE
    /\ guest = "none" /\ frame = Nothing /\ gpump = "none" /\ gchunk = Nothing
    /\ bash = "none" /\ ttyIn = <<>> /\ ttyOut = <<>> /\ made = 0 /\ took = <<>> /\ size = 0

Room(q) == Len(q) < Cap

-----------------------------------------------------------------------------
\* The deferred calls of the handler: cancel, CloseNow, shell.Close.
HostReturn ==
    /\ host' = "done" /\ cancelled' = TRUE /\ hostShut' = TRUE
    /\ hand' = Nothing

\* Docker's OpenShell: an exec with a terminal, attached to.
DockerOpens ==
    /\ backend = "docker"
    /\ bash' = "on"
    /\ UNCHANGED <<guest, gpump, guestShut>>

\* handleShellConn starts a shell on a pty and a pump; if it cannot, it
\* closes the stream.
PtyStarts == bash' = "on" /\ guest' = "read" /\ gpump' = "read" /\ UNCHANGED guestShut
PtyFails == guestShut' = TRUE /\ guest' = "done" /\ UNCHANGED <<bash, gpump>>

\* dialShellConn, whose handshake is with Firecracker's proxy: it succeeds
\* whatever becomes of the shell.
FirecrackerDials ==
    /\ backend = "firecracker"
    /\ PtyStarts \/ PtyFails

\* OpenShell: the stream is opened, or it cannot be.
Open ==
    /\ host = "dial"
    /\ \/ /\ DockerOpens \/ FirecrackerDials
          /\ host' = "upgrade" /\ UNCHANGED <<hostShut, cancelled, hand>>
       \/ HostReturn /\ UNCHANGED <<bash, guest, gpump, guestShut>>
    /\ UNCHANGED <<backend, wsVars, pump, chunk, up, down, frame, gchunk, ttyIn, ttyOut, made, took, size>>

\* websocket.Accept, then the pump's goroutine and the main loop.
Upgrade ==
    /\ host = "upgrade"
    /\ \/ client = "on" /\ host' = "read" /\ pump' = "read" /\ UNCHANGED <<cancelled, hostShut, hand>>
       \/ client = "gone" /\ HostReturn /\ UNCHANGED pump
    /\ UNCHANGED <<backend, wsVars, chunk, up, down, guestShut, agentVars, ttyVars>>

\* Main loop: conn.Read.  (A malformed control message is skipped here and
\* changes nothing; the client of the model sends none.)
HostRead ==
    /\ host = "read" /\ wsUp # <<>>
    /\ wsUp' = Tail(wsUp)
    /\ host' = "write" /\ hand' = Head(wsUp)
    /\ UNCHANGED <<backend, client, sent, seen, wsDown, pump, chunk, cancelled, streamVars, agentVars, ttyVars>>

\* conn.Read fails: the client has gone, or the pump has cancelled ctx.
HostReadFails ==
    /\ host = "read"
    /\ cancelled \/ (client = "gone" /\ wsUp = <<>>)
    /\ HostReturn
    /\ UNCHANGED <<backend, wsVars, pump, chunk, up, down, guestShut, agentVars, ttyVars>>

\* Mutant of HostWrite: every message is handed to a goroutine of its own, so
\* the newer of two can be written first.
HostWriteAny ==
    /\ host = "write" /\ ~guestShut
    /\ Room(up)
    /\ \E i \in 1..Len(wsUp) + 1 :
        LET all == <<hand>> \o wsUp IN
        /\ all[i][1] = "data"
        /\ up' = Append(up, all[i]) /\ wsUp' = Tail([all EXCEPT ![i] = hand])
    /\ host' = "read" /\ hand' = Nothing
    /\ UNCHANGED <<backend, client, sent, seen, wsDown, pump, chunk, cancelled, down,
                   hostShut, guestShut, agentVars, ttyVars>>

\* writeFrame: header and payload, once the stream has room.
WriteFrame(message) == Room(up) /\ up' = Append(up, message)

\* shell.Write, and on Firecracker shell.Resize, into the stream.
HostWrite ==
    /\ host = "write" /\ ~guestShut
    /\ hand[1] = "data" \/ backend = "firecracker"
    /\ WriteFrame(hand)
    /\ host' = "read" /\ hand' = Nothing
    /\ UNCHANGED <<backend, wsVars, pump, chunk, cancelled, down, hostShut, guestShut, agentVars, ttyVars>>

\* On Docker a resize is a call to the daemon, beside the stream.
HostResize ==
    /\ host = "write" /\ hand[1] = "resize" /\ backend = "docker"
    /\ size' = hand[2]
    /\ host' = "read" /\ hand' = Nothing
    /\ UNCHANGED <<backend, wsVars, pump, chunk, cancelled, streamVars, agentVars,
                   bash, ttyIn, ttyOut, made, took>>

\* A failed Write ends the session; a failed Resize does not.
HostWriteFails ==
    /\ host = "write" /\ guestShut
    /\ \/ hand[1] = "data" /\ HostReturn
       \/ hand[1] = "resize" /\ host' = "read" /\ hand' = Nothing /\ UNCHANGED <<cancelled, hostShut>>
    /\ UNCHANGED <<backend, wsVars, pump, chunk, up, down, guestShut, agentVars, ttyVars>>

-----------------------------------------------------------------------------
\* Mutant of Copied: a buffer smaller than the guest's frames.
CopiedShort(payload) == SubSeq(payload, 1, GuestBuf - 1)

\* FirecrackerShell.Read: copy(p, payload), whatever does not fit is lost.
Copied(payload) == SubSeq(payload, 1, IF Len(payload) < HostBuf THEN Len(payload) ELSE HostBuf)

\* shell.Read in the pump: one frame, or one read of the stream.
PumpRead ==
    /\ pump = "read" /\ ~hostShut /\ down # <<>>
    /\ chunk' = Copied(Head(down)) /\ down' = Tail(down)
    /\ pump' = "write"
    /\ UNCHANGED <<backend, wsVars, host, hand, cancelled, up, hostShut, guestShut, agentVars, ttyVars>>

\* conn.Write to the client.
PumpWrite ==
    /\ pump = "write" /\ ~cancelled /\ client = "on"
    /\ Room(wsDown) /\ wsDown' = Append(wsDown, chunk)
    /\ pump' = "read" /\ chunk' = Nothing
    /\ UNCHANGED <<backend, client, sent, seen, wsUp, host, hand, cancelled, streamVars, agentVars, ttyVars>>

\* Mutant of PumpEnds: the pump returns without cancelling ctx.
PumpEndsQuietly ==
    /\ \/ pump = "read" /\ (hostShut \/ (down = <<>> /\ guestShut))
       \/ pump = "write" /\ (cancelled \/ client = "gone")
    /\ pump' = "done" /\ chunk' = Nothing
    /\ UNCHANGED <<backend, wsVars, host, hand, cancelled, streamVars, agentVars, ttyVars>>

\* The stream has ended, or the client cannot be written to: ctx is cancelled.
PumpEnds ==
    /\ \/ pump = "read" /\ (hostShut \/ (down = <<>> /\ guestShut))
       \/ pump = "write" /\ (cancelled \/ client = "gone")
    /\ pump' = "done" /\ chunk' = Nothing /\ cancelled' = TRUE
    /\ UNCHANGED <<backend, wsVars, host, hand, streamVars, agentVars, ttyVars>>

-----------------------------------------------------------------------------
\* handleShellConn's loop: the next frame into the pty, or its size.
GuestRead ==
    /\ guest = "read" /\ up # <<>>
    /\ up' = Tail(up)
    /\ \/ Head(up)[1] = "data" /\ guest' = "write" /\ frame' = Head(up) /\ UNCHANGED size
       \/ Head(up)[1] = "resize" /\ size' = Head(up)[2] /\ UNCHANGED <<guest, frame>>
    /\ UNCHANGED <<backend, wsVars, hostVars, down, hostShut, guestShut, gpump, gchunk,
                   bash, ttyIn, ttyOut, made, took>>

\* ptmx.Write blocks while the terminal's buffer is full; its error, after
\* bash has exited, is ignored.
GuestWrite ==
    /\ guest = "write"
    /\ \/ bash = "on" /\ Room(ttyIn) /\ ttyIn' = Append(ttyIn, frame[2])
       \/ bash = "exited" /\ UNCHANGED ttyIn
    /\ guest' = "read" /\ frame' = Nothing
    /\ UNCHANGED <<backend, wsVars, hostVars, streamVars, gpump, gchunk, bash, ttyOut, made, took, size>>

\* readFrame fails: the loop waits for the pump.
GuestEOF ==
    /\ guest = "read" /\ up = <<>> /\ hostShut
    /\ guest' = "drain"
    /\ UNCHANGED <<backend, wsVars, hostVars, streamVars, frame, gpump, gchunk, ttyVars>>

\* <-done, then the deferred calls: the shell is killed, the stream closed.
GuestReturn ==
    /\ guest = "drain" /\ gpump = "done"
    /\ guest' = "done" /\ bash' = "exited" /\ guestShut' = TRUE
    /\ UNCHANGED <<backend, wsVars, hostVars, up, down, hostShut, frame, gpump, gchunk,
                   ttyIn, ttyOut, made, took, size>>

\* ptmx.Read: up to a buffer of output.
GuestPumpRead ==
    /\ gpump = "read" /\ ttyOut # <<>>
    /\ \E n \in 1..Len(ttyOut) :
        /\ n <= GuestBuf
        /\ gchunk' = SubSeq(ttyOut, 1, n)
        /\ ttyOut' = SubSeq(ttyOut, n + 1, Len(ttyOut))
    /\ gpump' = "write"
    /\ UNCHANGED <<backend, wsVars, hostVars, streamVars, guest, frame, bash, ttyIn, made, took, size>>

\* The guest's writeFrame.
GuestFrame(payload) == Room(down) /\ down' = Append(down, payload)

\* It succeeds, or fails on a closed stream.
GuestPumpWrite ==
    /\ gpump = "write"
    /\ \/ hostShut /\ gpump' = "done" /\ UNCHANGED down
       \/ ~hostShut /\ GuestFrame(gchunk) /\ gpump' = "read"
    /\ gchunk' = Nothing
    /\ UNCHANGED <<backend, wsVars, hostVars, up, hostShut, guestShut, guest, frame, ttyVars>>

\* Mutant of GuestPumpEnds: the error is looked at before the bytes read.
GuestPumpEndsEarly ==
    /\ gpump = "read" /\ bash = "exited"
    /\ gpump' = "done"
    /\ UNCHANGED <<backend, wsVars, hostVars, streamVars, guest, frame, gchunk, ttyVars>>

\* Once bash has exited and its output is read, ptmx.Read fails.
GuestPumpEnds ==
    /\ gpump = "read" /\ bash = "exited" /\ ttyOut = <<>>
    /\ gpump' = "done"
    /\ UNCHANGED <<backend, wsVars, hostVars, streamVars, guest, frame, gchunk, ttyVars>>

-----------------------------------------------------------------------------
\* The Docker daemon copies both ways, and closes the stream once the
\* command has exited and its output is copied.
DaemonIn ==
    /\ backend = "docker" /\ up # <<>>
    /\ \/ bash = "on" /\ Room(ttyIn) /\ ttyIn' = Append(ttyIn, Head(up)[2])
       \/ bash = "exited" /\ UNCHANGED ttyIn
    /\ up' = Tail(up)
    /\ UNCHANGED <<backend, wsVars, hostVars, down, hostShut, guestShut, agentVars, bash, ttyOut, made, took, size>>

DaemonOut ==
    /\ backend = "docker" /\ ttyOut # <<>>
    /\ hostShut \/ Room(down)
    /\ down' = IF hostShut THEN down ELSE Append(down, <<Head(ttyOut)>>)
    /\ ttyOut' = Tail(ttyOut)
    /\ UNCHANGED <<backend, wsVars, hostVars, up, hostShut, guestShut, agentVars, bash, ttyIn, made, took, size>>

DaemonEnds ==
    /\ backend = "docker" /\ bash = "exited" /\ ttyOut = <<>> /\ ~guestShut
    /\ guestShut' = TRUE
    /\ UNCHANGED <<backend, wsVars, hostVars, up, down, hostShut, agentVars, ttyVars>>

\* The shell and what runs in it.
BashRead ==
    /\ bash = "on" /\ ttyIn # <<>>
    /\ took' = Append(took, Head(ttyIn)) /\ ttyIn' = Tail(ttyIn)
    /\ UNCHANGED <<backend, wsVars, hostVars, streamVars, agentVars, bash, ttyOut, made, size>>

BashWrite ==
    /\ bash = "on" /\ made < MaxOut
    /\ Len(ttyOut) < Cap + 1
    /\ made' = made + 1 /\ ttyOut' = Append(ttyOut, made + 1)
    /\ UNCHANGED <<backend, wsVars, hostVars, streamVars, agentVars, bash, ttyIn, took, size>>

BashExit ==
    /\ bash = "on"
    /\ bash' = "exited"
    /\ UNCHANGED <<backend, wsVars, hostVars, streamVars, agentVars, ttyIn, ttyOut, made, took, size>>

\* The sandbox is killed, paused or crashes under the session.
SandboxDies ==
    /\ bash = "on"
    /\ bash' = "exited" /\ ttyOut' = <<>> /\ guestShut' = TRUE
    /\ IF backend = "firecracker" THEN guest' = "done" /\ gpump' = "done" ELSE UNCHANGED <<guest, gpump>>
    /\ UNCHANGED <<backend, wsVars, hostVars, up, down, hostShut, frame, gchunk, ttyIn, made, took, size>>

-----------------------------------------------------------------------------
\* The client types, resizes its window, reads, leaves.
ClientSend ==
    /\ client = "on" /\ pump # "none" /\ ~cancelled
    /\ Len(sent) < MaxIn /\ Room(wsUp)
    /\ \E kind \in {"data", "resize"} :
        /\ sent' = Append(sent, kind)
        /\ wsUp' = Append(wsUp, <<kind, Len(sent) + 1>>)
    /\ UNCHANGED <<backend, client, seen, wsDown, hostVars, streamVars, agentVars, ttyVars>>

ClientRead ==
    /\ client = "on" /\ wsDown # <<>>
    /\ seen' = seen \o Head(wsDown) /\ wsDown' = Tail(wsDown)
    /\ UNCHANGED <<backend, client, sent, wsUp, hostVars, streamVars, agentVars, ttyVars>>

ClientLeave ==
    /\ client = "on"
    /\ client' = "gone" /\ wsDown' = <<>>
    /\ UNCHANGED <<backend, sent, seen, wsUp, hostVars, streamVars, agentVars, ttyVars>>

HostStep == Open \/ Upgrade \/ HostRead \/ HostReadFails \/ HostWrite \/ HostResize \/ HostWriteFails
PumpStep == PumpRead \/ PumpWrite \/ PumpEnds
GuestStep == GuestRead \/ GuestWrite \/ GuestEOF \/ GuestReturn
GuestPumpStep == GuestPumpRead \/ GuestPumpWrite \/ GuestPumpEnds

Next ==
    \/ HostStep \/ PumpStep \/ GuestStep \/ GuestPumpStep
    \/ DaemonIn \/ DaemonOut \/ DaemonEnds
    \/ BashRead \/ BashWrite \/ BashExit \/ SandboxDies
    \/ ClientSend \/ ClientRead \/ ClientLeave

Spec == Init /\ [][Next]_vars

\* Goroutines, the daemon and a reading client make progress; bash reads its
\* terminal if BashReads; nobody has to write, exit or leave.
FairSpec ==
    /\ Spec
    /\ WF_vars(HostStep) /\ WF_vars(PumpStep) /\ WF_vars(GuestStep) /\ WF_vars(GuestPumpStep)
    /\ WF_vars(DaemonIn) /\ WF_vars(DaemonOut) /\ WF_vars(DaemonEnds)
    /\ WF_vars(ClientRead)
    /\ BashReads => WF_vars(BashRead)

-----------------------------------------------------------------------------
\* What the client sees is what bash wrote, from its first byte on, without a
\* gap or a change of order (two pumps, framing, a buffer at each end).
OutputInOrder == seen = [i \in 1..Len(seen) |-> i]

\* What bash reads is what the client typed, in order: what it has read up to
\* any point is every message that was data up to there, once each.
InputInOrder ==
    \A i \in 1..Len(took) :
        /\ took[i] \in 1..Len(sent)
        /\ \A j \in 1..(i - 1) : took[j] < took[i]
        /\ \A n \in 1..took[i] : sent[n] = "data" <=> \E j \in 1..i : took[j] = n

\* What bash has written reaches the client unless that leaves or the session
\* is over before: not even bash's exit loses output.
OutputArrives ==
    \A n \in 1..MaxOut : made >= n ~> (Len(seen) >= n \/ client = "gone" \/ hostShut)

\* The handler returns once its client has gone or its stream has ended, even
\* if it was blocked on a full buffer at that time: ctx ends the read of the
\* main loop, the pump ends on the closed sockets.
HandlerEnds ==
    client = "gone" \/ guestShut ~> host = "done" /\ pump \in {"none", "done"}

\* The session is over once the shell has exited (api/shell.go:112-113:
\* "Blocks until the client disconnects or the output pump above cancles ctx").
EndsWithShell == bash = "exited" ~> host = "done"

\* The guest's shell is killed once the session is over (guest-agent
\* main.go:176-182).
ShellIsKilled == host = "done" /\ bash = "on" ~> bash = "exited"
=============================================================================
