------------------------- MODULE FirecrackerManager -------------------------
(***************************************************************************)
(* A sandbox on the Firecracker backend: internal/firecracker's manager    *)
(* with its map of running VMs, its exit watchers, the per-sandbox root    *)
(* filesystem, sockets and pause directory, and the tap devices and        *)
(* addresses of its network manager, driven by the REST handlers and the   *)
(* reaper through the sandboxes table.                                     *)
(*                                                                         *)
(* A request is an HTTP handler or the reaper working on one row.  Only    *)
(* m.running and the address pool are under a mutex, so every call to the  *)
(* VM, the file system, the network or the table is a step of its own.     *)
(* Networking is enabled.  Reads that change nothing (get, exec, files)    *)
(* are left out: they touch no state of the manager.                       *)
(***************************************************************************)
EXTENDS Naturals, Sequences, FiniteSets

CONSTANTS
    Sandboxes,    \* sandbox ids
    VMs,          \* firecracker processes, numbered in the order they are spawned
    Requests,     \* handlers, and the reaper, that can run at the same time
    Does,         \* request -> the operations it is used for
    FaultKinds,   \* what may fail: "api", "db", "exit", "file", "net", "spawn",
                  \* "remove" (a removal whose error is only logged)
    MaxFaults,    \* bound: failures in a behaviour; "remove" is not counted
    MaxRestarts,  \* bound: restarts of the server in a behaviour
    Space,        \* addresses below the bridge's base: 256, the width of the last byte
    Nil

ASSUME FirecrackerAssumption ==
    /\ VMs \subseteq Nat /\ Nil \notin VMs
    /\ Nil \notin Nat
    /\ Nil \notin Sandboxes
    /\ Does \in [Requests -> SUBSET {"create", "delete", "pause", "resume", "reap"}]
    /\ MaxFaults \in Nat /\ MaxRestarts \in Nat
    /\ Space \in Nat \ {0}

VARIABLES
    row,          \* the sandboxes table; "lapsed" is paused and past expires_at
    running,      \* FirecrackerManager.running: the process and its guestIP
    pc, target,   \* request -> the call it makes next, the sandbox it works on
    inst,         \* request -> the instance or process in its local variables
    vm,           \* firecracker process -> what it is doing
    of,           \* firecracker process -> the sandbox it was spawned for
    watched,      \* processes a watchProcessExit goroutine waits for
    sock,         \* sandbox -> the process listening on its two socket paths
    rootfs,       \* sandbox -> whether <id>.ext4 is in the work directory
    dir,          \* sandbox -> what its pause directory holds
    refused,      \* history: sandboxes a file of which could not be removed
    nextIP, released, \* NetworkManager's counter and stack of returned offsets
    lease,        \* sandbox -> the address of its tap device while that exists
    cleanup,      \* detached RemoveImage goroutines of ResumeSandbox
    born,         \* sandbox ids already generated
    faults, restarts

vmVars == <<vm, of, watched, sock>>
fileVars == <<rootfs, dir, refused>>
netVars == <<nextIP, released, lease>>
apiVars == <<row, cleanup, born>>
procVars == <<pc, target, inst>>
vars == <<apiVars, running, procVars, vmVars, fileVars, netVars, faults, restarts>>

NoInst == [vm |-> Nil, ip |-> Nil]
Instance(v, a) == [vm |-> v, ip |-> a]
Insts == [vm : VMs \cup {Nil}, ip : Nat \cup {Nil}]
Files == {"dir", "snapshot", "manifest"}
PCs == {"idle", "create.tap", "create.spawn", "create.boot", "create.register", "create.save",
        "kill.take", "kill.process", "kill.tap", "kill.rootfs", "row.delete",
        "pause.get", "pause.freeze", "pause.snapshot", "pause.manifest", "pause.kill",
        "pause.forget", "pause.save",
        "resume.read", "resume.spawn", "resume.load", "resume.register", "resume.save",
        "image.rootfs", "image.dir"}

TypeOK ==
    /\ row \in [Sandboxes -> {"absent", "running", "paused", "lapsed"}]
    /\ running \in [Sandboxes -> Insts]
    /\ pc \in [Requests -> PCs]
    /\ target \in [Requests -> Sandboxes \cup {Nil}]
    /\ inst \in [Requests -> Insts]
    /\ vm \in [VMs -> {"free", "blank", "up", "frozen", "dead"}]
    /\ of \in [VMs -> Sandboxes \cup {Nil}]
    /\ watched \subseteq VMs
    /\ sock \in [Sandboxes -> VMs \cup {Nil}]
    /\ rootfs \in [Sandboxes -> BOOLEAN]
    /\ dir \in [Sandboxes -> SUBSET Files]
    /\ refused \subseteq Sandboxes
    /\ nextIP \in Nat
    /\ released \in Seq(Nat)
    /\ lease \in [Sandboxes -> Nat \cup {Nil}]
    /\ cleanup \subseteq [of : Sandboxes, by : VMs, at : {"image.rootfs", "image.dir"}]
    /\ born \subseteq Sandboxes
    /\ faults \in 0..MaxFaults
    /\ restarts \in 0..MaxRestarts

Init ==
    /\ row = [s \in Sandboxes |-> "absent"]
    /\ running = [s \in Sandboxes |-> NoInst]
    /\ pc = [p \in Requests |-> "idle"]
    /\ target = [p \in Requests |-> Nil]
    /\ inst = [p \in Requests |-> NoInst]
    /\ vm = [v \in VMs |-> "free"]
    /\ of = [v \in VMs |-> Nil]
    /\ watched = {}
    /\ sock = [s \in Sandboxes |-> Nil]
    /\ rootfs = [s \in Sandboxes |-> FALSE]
    /\ dir = [s \in Sandboxes |-> {}]
    /\ refused = {}
    /\ nextIP = 2
    /\ released = <<>>
    /\ lease = [s \in Sandboxes |-> Nil]
    /\ cleanup = {}
    /\ born = {}
    /\ faults = 0
    /\ restarts = 0

-----------------------------------------------------------------------------
Live(v) == v \in VMs /\ vm[v] \in {"blank", "up", "frozen"}

\* Request p goes on to its next call; or its handler returns.
Goto(p, label) == pc' = [pc EXCEPT ![p] = label] /\ UNCHANGED <<target, inst>>
Return(p) ==
    /\ pc' = [pc EXCEPT ![p] = "idle"]
    /\ target' = [target EXCEPT ![p] = Nil]
    /\ inst' = [inst EXCEPT ![p] = NoInst]

NoFault == UNCHANGED faults
Fault(kind) ==
    /\ kind \in FaultKinds
    /\ faults < MaxFaults
    /\ faults' = faults + 1

\* A process is killed; killing a dead one is an error that is only logged.
Kill(v) == vm' = [vm EXCEPT ![v] = "dead"]

\* Mutant of RemoveRootfsFile: the file is left where it is.
RemoveRootfsFileNot(s) == UNCHANGED rootfs

\* RootfsManager.Cleanup
RemoveRootfsFile(s) == rootfs' = [rootfs EXCEPT ![s] = FALSE]

\* Removals whose error the code logs and goes on after: of the root
\* filesystem, of the pause directory (of which RemoveAll may leave a part)
\* and of the sockets.
Refused(s) == "remove" \in FaultKinds /\ refused' = refused \cup {s}
TryRemoveRootfsFile(s) ==
    \/ RemoveRootfsFile(s) /\ UNCHANGED refused
    \/ rootfs[s] /\ Refused(s) /\ UNCHANGED rootfs
RemovePart(s) ==
    /\ "dir" \in dir[s]
    /\ \E left \in SUBSET dir[s] : "dir" \in left /\ dir' = [dir EXCEPT ![s] = left]
TryRemoveDir(s) ==
    \/ dir' = [dir EXCEPT ![s] = {}] /\ UNCHANGED refused
    \/ RemovePart(s) /\ Refused(s)
TryRemoveSockets(s) ==
    \/ sock' = [sock EXCEPT ![s] = Nil]
    \/ "remove" \in FaultKinds /\ UNCHANGED sock

\* A request is taken up, or the reaper comes to a row.
Begin(p, op, s, label) ==
    /\ pc[p] = "idle"
    /\ op \in Does[p]
    /\ pc' = [pc EXCEPT ![p] = label]
    /\ target' = [target EXCEPT ![p] = s]
    /\ UNCHANGED inst

Start(p, op, s, label) ==
    /\ Begin(p, op, s, label)
    /\ UNCHANGED <<apiVars, running, vmVars, fileVars, netVars, faults, restarts>>

\* Store.Save / Store.Delete: written, or an error with the write committed
\* or not.
RowCall(p, status) ==
    LET done == [row EXCEPT ![target[p]] = status] IN
    \/ NoFault /\ row' = done
    \/ Fault("db") /\ row' \in {row, done}

\* spawnProcess and waitForSocket: a new process listens on the sandbox's
\* path, unless the path is taken: then it exits and the one there is found.
Spawn(p, s) ==
    \E v \in VMs :
        /\ vm[v] = "free" /\ \A w \in VMs : w < v => vm[w] # "free"
        /\ vm' = [vm EXCEPT ![v] = IF sock[s] = Nil THEN "blank" ELSE "dead"]
        /\ of' = [of EXCEPT ![v] = s]
        /\ sock' = [sock EXCEPT ![s] = IF @ = Nil THEN v ELSE @]
        /\ inst' = [inst EXCEPT ![p].vm = v]

-----------------------------------------------------------------------------
\* allocateIP: the offset returned last, else the next one never used; the
\* last byte of the address is what is kept of it.
AllocateIP(s) ==
    LET n == Len(released) IN
    \/ /\ n > 0
       /\ lease' = [lease EXCEPT ![s] = released[n]]
       /\ released' = SubSeq(released, 1, n - 1)
       /\ UNCHANGED nextIP
    \/ /\ n = 0
       /\ lease' = [lease EXCEPT ![s] = nextIP % Space]
       /\ nextIP' = nextIP + 1
       /\ UNCHANGED released

\* ReleaseTap: the sandbox's device is deleted, the given address returned,
\* whether or not the deletion worked.
ReleaseTap(s, a) ==
    /\ lease' = [lease EXCEPT ![s] = Nil]
    /\ released' = Append(released, a)
    /\ UNCHANGED nextIP

-----------------------------------------------------------------------------
\* POST /sandboxes: a fresh uuid; PrepareForSandbox copies the template's
\* file, and removes a copy it could not finish, if that can be removed.
CreateBegin(p) ==
    \E s \in Sandboxes \ born :
        /\ born' = born \cup {s}
        /\ \/ /\ Begin(p, "create", s, "create.tap")
              /\ rootfs' = [rootfs EXCEPT ![s] = TRUE]
              /\ UNCHANGED refused /\ NoFault
           \/ /\ pc[p] = "idle" /\ "create" \in Does[p]
              /\ Fault("file")
              /\ \/ UNCHANGED <<rootfs, refused>>
                 \/ rootfs' = [rootfs EXCEPT ![s] = TRUE] /\ Refused(s)
              /\ UNCHANGED procVars
        /\ UNCHANGED <<row, running, cleanup, dir, vmVars, netVars, restarts>>

\* AllocateTap: the device, then the address; a failure undoes the device
\* and the caller removes the file.
CreateTap(p) ==
    LET s == target[p] IN
    /\ pc[p] = "create.tap"
    /\ \/ /\ AllocateIP(s)
          /\ inst' = [inst EXCEPT ![p].ip = lease'[s]]
          /\ pc' = [pc EXCEPT ![p] = "create.spawn"]
          /\ UNCHANGED <<target, rootfs, refused>> /\ NoFault
       \/ /\ Fault("net")
          /\ TryRemoveRootfsFile(s)
          /\ Return(p)
          /\ UNCHANGED netVars
    /\ UNCHANGED <<apiVars, running, vmVars, dir, restarts>>

\* The error paths of this step remove the file but keep the tap device.
CreateSpawn(p) ==
    LET s == target[p] IN
    /\ pc[p] = "create.spawn"
    /\ \/ /\ Spawn(p, s)
          /\ pc' = [pc EXCEPT ![p] = "create.boot"]
          /\ UNCHANGED <<target, rootfs, refused>> /\ NoFault
       \/ /\ Fault("spawn")
          /\ TryRemoveRootfsFile(s)
          /\ Return(p)
          /\ UNCHANGED <<vm, of, sock>>
    /\ UNCHANGED <<apiVars, running, watched, dir, netVars, restarts>>

\* The API's calls, when they work.  The five of the configuration and
\* startInstance; pauseVM; createSnapshot; loadSnapshot, which also resumes.
StartInstance(v) == vm[v] = "blank" /\ vm' = [vm EXCEPT ![v] = "up"]
PauseVM(v) == vm' = [vm EXCEPT ![v] = "frozen"]
CreateSnapshot(s) == dir' = [dir EXCEPT ![s] = @ \cup {"snapshot"}]
LoadSnapshot(v) == vm[v] = "blank" /\ vm' = [vm EXCEPT ![v] = "up"]

\* Mutant of Rollback: the process is left running.
RollbackNoKill(p) ==
    /\ UNCHANGED vm
    /\ TryRemoveRootfsFile(target[p])
    /\ ReleaseTap(target[p], inst[p].ip)
    /\ Return(p)

\* CreateSandbox's rollback: process, file, tap device.
Rollback(p) ==
    /\ Kill(inst[p].vm)
    /\ TryRemoveRootfsFile(target[p])
    /\ ReleaseTap(target[p], inst[p].ip)
    /\ Return(p)

\* The five configuration calls, startInstance and waitReady.
CreateBoot(p) ==
    LET v == inst[p].vm IN
    /\ pc[p] = "create.boot"
    /\ \/ /\ StartInstance(v)
          /\ Goto(p, "create.register") /\ NoFault
          /\ UNCHANGED <<rootfs, refused, netVars>>
       \/ ((~Live(v) /\ NoFault) \/ Fault("api")) /\ Rollback(p)
    /\ UNCHANGED <<apiVars, running, of, watched, sock, dir, restarts>>

\* Mutant of Watch: the goroutine is not started.
WatchNot(v) == UNCHANGED watched

\* go m.watchProcessExit
Watch(v) == watched' = watched \cup {v}

\* The entry under the lock, then the watcher.
CreateRegister(p) ==
    /\ pc[p] = "create.register"
    /\ running' = [running EXCEPT ![target[p]] = inst[p]]
    /\ Watch(inst[p].vm)
    /\ Goto(p, "create.save")
    /\ UNCHANGED <<apiVars, vm, of, sock, fileVars, netVars, faults, restarts>>

\* A failed Save answers 500 and leaves the VM running, unrecorded.
CreateSave(p) ==
    /\ pc[p] = "create.save"
    /\ RowCall(p, "running")
    /\ Return(p)
    /\ UNCHANGED <<cleanup, born, running, vmVars, fileVars, netVars, restarts>>

-----------------------------------------------------------------------------
\* watchProcessExit, once its process has exited: the entry is removed only
\* if it still is that process's.
WatchExit(v) ==
    /\ v \in watched /\ vm[v] = "dead"
    /\ watched' = watched \ {v}
    /\ running' = [running EXCEPT ![of[v]] = IF @.vm = v THEN NoInst ELSE @]
    /\ UNCHANGED <<apiVars, procVars, vm, of, sock, fileVars, netVars, faults, restarts>>

\* A process exits on its own: a crash or a kernel panic (boot: panic=1).
VMExit(v) ==
    /\ Live(v) /\ Fault("exit")
    /\ Kill(v)
    /\ UNCHANGED <<apiVars, running, procVars, of, watched, sock, fileVars, netVars, restarts>>

-----------------------------------------------------------------------------
\* DELETE /sandboxes/{id}: any recorded sandbox, whatever its status.
DeleteBegin(p) ==
    \E s \in Sandboxes : row[s] # "absent" /\ Start(p, "delete", s, "kill.take")

\* A paused record reaches its expires_at.  A running one may do so at any
\* time; of a paused one it is kept, since a property asks.
Expire(s) ==
    /\ row[s] = "paused"
    /\ row' = [row EXCEPT ![s] = "lapsed"]
    /\ UNCHANGED <<cleanup, born, running, procVars, vmVars, fileVars, netVars, faults, restarts>>

\* The reaper, at an expired row: kill it, or remove its image.
ReapBegin(p) ==
    \E s \in Sandboxes :
        \/ row[s] = "running" /\ Start(p, "reap", s, "kill.take")
        \/ row[s] = "lapsed" /\ Start(p, "reap", s, "image.rootfs")

\* Mutant of Forget: the entry stays in the map.
ForgetNot(s) == UNCHANGED running

\* delete(m.running, sandboxID)
Forget(s) == running' = [running EXCEPT ![s] = NoInst]

\* KillSandbox takes the entry out of the map; "no running sandbox" is an
\* error, and the record stays.
KillTake(p) ==
    LET s == target[p] IN
    /\ pc[p] = "kill.take"
    /\ \/ /\ running[s] # NoInst
          /\ inst' = [inst EXCEPT ![p] = running[s]]
          /\ Forget(s)
          /\ pc' = [pc EXCEPT ![p] = "kill.process"]
          /\ UNCHANGED target
       \/ running[s] = NoInst /\ Return(p) /\ UNCHANGED running
    /\ UNCHANGED <<apiVars, vmVars, fileVars, netVars, faults, restarts>>

\* The process and its sockets; next the tap device, if it has an address.
KillThen(p, label) ==
    /\ pc[p] = "kill.process"
    /\ Kill(inst[p].vm)
    /\ TryRemoveSockets(target[p])
    /\ Goto(p, label)
    /\ UNCHANGED <<apiVars, running, of, watched, fileVars, netVars, faults, restarts>>

\* Mutant of KillProcess: the test of guestIP is missing.
KillProcessAnyIP(p) == KillThen(p, "kill.tap")

KillProcess(p) == KillThen(p, IF inst[p].ip # Nil THEN "kill.tap" ELSE "kill.rootfs")

KillTap(p) ==
    /\ pc[p] = "kill.tap"
    /\ ReleaseTap(target[p], inst[p].ip)
    /\ Goto(p, "kill.rootfs")
    /\ UNCHANGED <<apiVars, running, vmVars, fileVars, faults, restarts>>

\* rootfs.Cleanup, whose error is KillSandbox's.
KillRootfs(p) ==
    /\ pc[p] = "kill.rootfs"
    /\ \/ NoFault /\ RemoveRootfsFile(target[p]) /\ Goto(p, "row.delete")
       \/ Fault("file") /\ Return(p) /\ UNCHANGED rootfs
    /\ UNCHANGED <<apiVars, running, vmVars, dir, refused, netVars, restarts>>

DeleteRow(p) ==
    /\ pc[p] = "row.delete"
    /\ RowCall(p, "absent")
    /\ Return(p)
    /\ UNCHANGED <<cleanup, born, running, vmVars, fileVars, netVars, restarts>>

-----------------------------------------------------------------------------
\* POST pause: the record must say "running".
PauseBegin(p) ==
    \E s \in Sandboxes : row[s] = "running" /\ Start(p, "pause", s, "pause.get")

\* The instance as it is now, and MkdirAll of pauses/<sandbox id>; either may
\* fail.
PauseGet(p) ==
    LET s == target[p] IN
    /\ pc[p] = "pause.get"
    /\ \/ /\ running[s] # NoInst /\ NoFault
          /\ inst' = [inst EXCEPT ![p] = running[s]]
          /\ dir' = [dir EXCEPT ![s] = @ \cup {"dir"}]
          /\ pc' = [pc EXCEPT ![p] = "pause.freeze"]
          /\ UNCHANGED target
       \/ /\ (running[s] = NoInst /\ NoFault) \/ Fault("file")
          /\ Return(p) /\ UNCHANGED dir
    /\ UNCHANGED <<apiVars, running, vmVars, rootfs, refused, netVars, restarts>>

\* pauseVM, to whichever process listens on the sandbox's socket; on an
\* error the VM may be paused all the same, and the directory is removed.
PauseFreeze(p) ==
    LET s == target[p]  v == sock[s]
        reached == v # Nil /\ vm[v] \in {"up", "frozen"} IN
    /\ pc[p] = "pause.freeze"
    /\ \/ reached /\ PauseVM(v) /\ NoFault /\ Goto(p, "pause.snapshot")
          /\ UNCHANGED <<dir, refused>>
       \/ /\ \/ ~reached /\ NoFault /\ UNCHANGED vm
             \/ Fault("api") /\ (UNCHANGED vm \/ (reached /\ PauseVM(v)))
          /\ TryRemoveDir(s)
          /\ Return(p)
    /\ UNCHANGED <<apiVars, running, of, watched, sock, rootfs, netVars, restarts>>

\* createSnapshot; after an error the handler goes on.
Snapshot(p, onError) ==
    LET s == target[p]  v == sock[s]
        possible == v # Nil /\ vm[v] = "frozen" /\ "dir" \in dir[s] IN
    /\ pc[p] = "pause.snapshot"
    /\ Goto(p, "pause.manifest")
    /\ \/ possible /\ NoFault /\ CreateSnapshot(s) /\ UNCHANGED refused
       \/ (Fault("api") \/ (~possible /\ NoFault)) /\ onError
    /\ UNCHANGED <<apiVars, running, vmVars, rootfs, netVars, restarts>>

\* Mutant of PauseSnapshot: the error is only logged.
PauseSnapshotKeepsDir(p) == Snapshot(p, UNCHANGED <<dir, refused>>)

\* The error is logged and the directory removed.
PauseSnapshot(p) == Snapshot(p, TryRemoveDir(target[p]))

\* The manifest is a file in the pause directory: without one, an error.
PauseManifest(p) ==
    LET s == target[p]  possible == "dir" \in dir[s] IN
    /\ pc[p] = "pause.manifest"
    /\ \/ /\ possible /\ NoFault
          /\ dir' = [dir EXCEPT ![s] = @ \cup {"manifest"}]
          /\ Goto(p, "pause.kill")
          /\ UNCHANGED refused
       \/ /\ Fault("file") \/ (~possible /\ NoFault)
          /\ TryRemoveDir(s)
          /\ Return(p)
    /\ UNCHANGED <<apiVars, running, vmVars, rootfs, netVars, restarts>>

FreeMemory(p) ==
    /\ pc[p] = "pause.kill"
    /\ Kill(inst[p].vm)
    /\ TryRemoveSockets(target[p])
    /\ Goto(p, "pause.forget")
    /\ UNCHANGED <<apiVars, running, of, watched, dir, refused, netVars, faults, restarts>>

\* Mutant of PauseKill: it cleans up as KillSandbox does.
PauseKillCleans(p) == FreeMemory(p) /\ RemoveRootfsFile(target[p])

\* The process and its sockets go; the root filesystem stays where it is.
PauseKill(p) == FreeMemory(p) /\ UNCHANGED rootfs

\* Whatever entry the sandbox has by now is deleted.
PauseForget(p) ==
    /\ pc[p] = "pause.forget"
    /\ Forget(target[p])
    /\ Goto(p, "pause.save")
    /\ UNCHANGED <<apiVars, vmVars, fileVars, netVars, faults, restarts>>

PauseSave(p) ==
    /\ pc[p] = "pause.save"
    /\ RowCall(p, "paused")
    /\ Return(p)
    /\ UNCHANGED <<cleanup, born, running, vmVars, fileVars, netVars, restarts>>

-----------------------------------------------------------------------------
\* POST resume: the record must say "paused".
ResumeBegin(p) ==
    \E s \in Sandboxes : row[s] \in {"paused", "lapsed"} /\ Start(p, "resume", s, "resume.read")

\* The manifest and the file it names must be there; stale sockets go.
ResumeRead(p) ==
    LET s == target[p] IN
    /\ pc[p] = "resume.read"
    /\ IF "manifest" \in dir[s] /\ rootfs[s]
       THEN Goto(p, "resume.spawn") /\ TryRemoveSockets(s)
       ELSE Return(p) /\ UNCHANGED sock
    /\ UNCHANGED <<apiVars, running, vm, of, watched, fileVars, netVars, faults, restarts>>

ResumeSpawn(p) ==
    /\ pc[p] = "resume.spawn"
    /\ \/ /\ Spawn(p, target[p]) /\ NoFault
          /\ pc' = [pc EXCEPT ![p] = "resume.load"] /\ UNCHANGED target
       \/ Fault("spawn") /\ Return(p) /\ UNCHANGED <<vm, of, sock>>
    /\ UNCHANGED <<apiVars, running, watched, fileVars, netVars, restarts>>

\* loadSnapshot and waitReady, through the sandbox's sockets; on an error
\* the process this handler spawned is killed.
ResumeLoad(p) ==
    LET s == target[p]  v == sock[s]
        possible == v # Nil /\ vm[v] = "blank" /\ "snapshot" \in dir[s] /\ rootfs[s] IN
    /\ pc[p] = "resume.load"
    /\ \/ possible /\ NoFault /\ LoadSnapshot(v) /\ Goto(p, "resume.register")
       \/ (Fault("api") \/ (~possible /\ NoFault)) /\ Kill(inst[p].vm) /\ Return(p)
    /\ UNCHANGED <<apiVars, running, of, watched, sock, fileVars, netVars, restarts>>

\* The new entry has no guestIP, and no watcher is started.
ResumeRegister(p) ==
    /\ pc[p] = "resume.register"
    /\ running' = [running EXCEPT ![target[p]] = Instance(inst[p].vm, Nil)]
    /\ Goto(p, "resume.save")
    /\ UNCHANGED <<apiVars, vmVars, fileVars, netVars, faults, restarts>>

\* Once the record is written, the pause's files are removed by a detached
\* goroutine.
ResumeSave(p) ==
    /\ pc[p] = "resume.save"
    /\ RowCall(p, "running")
    /\ cleanup' = IF faults' = faults
                  THEN cleanup \cup {[of |-> target[p], by |-> inst[p].vm, at |-> "image.rootfs"]}
                  ELSE cleanup
    /\ Return(p)
    /\ UNCHANGED <<born, running, vmVars, fileVars, netVars, restarts>>

-----------------------------------------------------------------------------
\* RemoveImage reads the manifest and removes the file it names, if both
\* are there (an error, also one of reading, is logged); then it removes the
\* directory, whose error is its own.
RemoveRootfs(s) ==
    /\ IF "manifest" \in dir[s] THEN TryRemoveRootfsFile(s) ELSE UNCHANGED <<rootfs, refused>>
    /\ UNCHANGED dir
RemoveDir(s) == dir' = [dir EXCEPT ![s] = {}] /\ UNCHANGED <<rootfs, refused>>
RemoveDirFails(s) == RemovePart(s) /\ refused' = refused \cup {s} /\ UNCHANGED rootfs

\* reapPaused: RemoveImage, and on success the record.
ReapRootfs(p) ==
    /\ pc[p] = "image.rootfs"
    /\ RemoveRootfs(target[p])
    /\ Goto(p, "image.dir")
    /\ UNCHANGED <<apiVars, running, vmVars, netVars, faults, restarts>>

ReapDir(p) ==
    /\ pc[p] = "image.dir"
    /\ \/ RemoveDir(target[p]) /\ Goto(p, "row.delete") /\ NoFault
       \/ Fault("file") /\ RemoveDirFails(target[p]) /\ Return(p)
    /\ UNCHANGED <<apiVars, running, vmVars, netVars, restarts>>

\* A detached goroutine: its errors are logged.
CleanupRootfs(g) ==
    /\ g.at = "image.rootfs"
    /\ RemoveRootfs(g.of)
    /\ cleanup' = (cleanup \ {g}) \cup {[g EXCEPT !.at = "image.dir"]}
    /\ UNCHANGED <<row, born, running, procVars, vmVars, netVars, faults, restarts>>

CleanupDir(g) ==
    /\ g.at = "image.dir"
    /\ cleanup' = cleanup \ {g}
    /\ \/ RemoveDir(g.of) /\ NoFault
       \/ Fault("file") /\ RemoveDirFails(g.of)
    /\ UNCHANGED <<row, born, running, procVars, vmVars, netVars, restarts>>

-----------------------------------------------------------------------------
\* The server dies and starts again: its memory, and with it the address
\* pool, is as new; Reconcile finds no sandbox in the empty map and deletes
\* every record that says "running".  The processes survive it, or are
\* killed with it by whatever supervises the server.
Restart ==
    /\ restarts < MaxRestarts
    /\ restarts' = restarts + 1
    /\ running' = [s \in Sandboxes |-> NoInst]
    /\ pc' = [p \in Requests |-> "idle"]
    /\ target' = [p \in Requests |-> Nil]
    /\ inst' = [p \in Requests |-> NoInst]
    /\ watched' = {} /\ cleanup' = {}
    /\ nextIP' = 2 /\ released' = <<>>
    /\ row' = [s \in Sandboxes |-> IF row[s] = "running" THEN "absent" ELSE row[s]]
    /\ vm' \in {vm, [v \in VMs |-> IF Live(v) THEN "dead" ELSE vm[v]]}
    /\ UNCHANGED <<born, of, sock, fileVars, lease, faults>>

Create(p) == CreateBegin(p) \/ CreateTap(p) \/ CreateSpawn(p) \/ CreateBoot(p)
             \/ CreateRegister(p) \/ CreateSave(p)
KillSandbox(p) == KillTake(p) \/ KillProcess(p) \/ KillTap(p) \/ KillRootfs(p) \/ DeleteRow(p)
Pause(p) == PauseBegin(p) \/ PauseGet(p) \/ PauseFreeze(p) \/ PauseSnapshot(p) \/ PauseManifest(p)
            \/ PauseKill(p) \/ PauseForget(p) \/ PauseSave(p)
Resume(p) == ResumeBegin(p) \/ ResumeRead(p) \/ ResumeSpawn(p) \/ ResumeLoad(p)
             \/ ResumeRegister(p) \/ ResumeSave(p)

Next ==
    \/ \E p \in Requests :
        Create(p) \/ DeleteBegin(p) \/ ReapBegin(p) \/ KillSandbox(p) \/ Pause(p) \/ Resume(p)
        \/ ReapRootfs(p) \/ ReapDir(p)
    \/ \E v \in VMs : WatchExit(v) \/ VMExit(v)
    \/ \E s \in Sandboxes : Expire(s)
    \/ \E g \in cleanup : CleanupRootfs(g) \/ CleanupDir(g)
    \/ Restart

Spec == Init /\ [][Next]_vars

\* Goroutines that wait for an exit are scheduled.
FairSpec == Spec /\ \A v \in VMs : WF_vars(WatchExit(v))
-----------------------------------------------------------------------------
\* No two sandboxes have the same address; a returned one is nobody's and
\* was returned once.
Apart ==
    /\ \A s, t \in Sandboxes : s # t /\ lease[s] # Nil => lease[s] # lease[t]
    /\ \A i, j \in 1..Len(released) : i # j => released[i] # released[j]
    /\ \A s \in Sandboxes, i \in 1..Len(released) : lease[s] # released[i]

\* allocateIP and releaseIP keep addresses apart as long as the server runs
\* and the counter has not gone past the last byte, all that offsetIP keeps.
AddressesApart == restarts = 0 /\ nextIP <= Space => Apart

\* Every live firecracker process is in m.running, where a kill finds it, or
\* held by a handler that has yet to register or to kill it.
NoOrphan ==
    restarts = 0 =>
        \A v \in VMs : Live(v) =>
            \/ \E s \in Sandboxes : running[s].vm = v
            \/ \E p \in Requests : inst[p].vm = v

\* A manifest is found only beside the snapshot it describes, whatever fails
\* and wherever the server dies (manager.go:415-439), unless a removal of the
\* sandbox's files has failed as well.
ManifestHasSnapshot ==
    \A s \in Sandboxes \ refused : "manifest" \in dir[s] => "snapshot" \in dir[s]

\* Nobody is at work on s, neither a handler nor a detached goroutine.
Quiet(s) == (\A p \in Requests : target[p] # s) /\ (\A g \in cleanup : g.of # s)

Resumed(s) == \E v, w \in VMs : v # w /\ of[v] = s /\ of[w] = s

Restorable(s) == {"snapshot", "manifest"} \subseteq dir[s] /\ rootfs[s]

\* A recorded pause can be resumed: the snapshot, the manifest and the root
\* filesystem at its exact path are on disk, also after a restart.  This is
\* about the first pause of a sandbox, no file of which could not be removed.
FirstPauseIsRestorable ==
    \A s \in Sandboxes \ refused :
        row[s] = "paused" /\ Quiet(s) /\ ~Resumed(s) => Restorable(s)

\* A pause kills the VM only once its snapshot is on disk (manager.go:440:
\* "snapshot is safely on disk - now free the process's memory").
KillsOnlyWhatIsSaved ==
    \A p \in Requests : pc[p] = "pause.kill" => "snapshot" \in dir[target[p]]

\* The same of every pause (docs/adr/0015: "The rootfs file must survive for
\* the entire duration of a pause, unmoved").
PausedIsRestorable ==
    \A s \in Sandboxes : row[s] = "paused" /\ Quiet(s) => Restorable(s)

\* A sandbox without a record, be it deleted, reaped or never created in
\* full, has left no process, no entry in m.running and, unless it was
\* resumed or a removal failed, no file.  (Its address is another matter: a
\* pause forgets it.)
NothingLeftBehind ==
    \A s \in Sandboxes : row[s] = "absent" /\ Quiet(s) /\ restarts = 0 =>
        /\ \A v \in VMs : of[v] = s => ~Live(v)
        /\ running[s] = NoInst
        /\ Resumed(s) \/ s \in refused \/ (~rootfs[s] /\ dir[s] = {})

\* A VM that CreateSandbox booted and that exits is dropped from m.running
\* (watchProcessExit: no phantom "running" sandbox); a resumed one has no
\* address in its entry.
DeadIsForgotten ==
    \A s \in Sandboxes, v \in VMs :
        running[s].vm = v /\ running[s].ip # Nil /\ vm[v] = "dead" ~> running[s].vm # v

\* The same of every VM in the map, resumed ones too (manager.go:264-268).
EveryDeadIsForgotten ==
    \A s \in Sandboxes, v \in VMs :
        running[s].vm = v /\ vm[v] = "dead" /\ Quiet(s) ~> running[s].vm # v
=============================================================================
