-------------------------- MODULE SandboxLifecycle --------------------------
(***************************************************************************)
(* The life of a sandbox on the Docker backend: the REST handlers          *)
(* (internal/api), the adapter's in-memory map from sandbox to container   *)
(* (internal/sandbox), the sandboxes table (internal/store), the reaper    *)
(* and the start-up reconciliation, in one or several replicas.            *)
(*                                                                         *)
(* A process is a request being handled or a replica's background thread   *)
(* (main's Reconcile, then the reaper goroutine); the replica's own id     *)
(* names the latter.  Nothing serialises processes, so every call to the   *)
(* database, to the daemon or to the mutex-guarded map is a step of its    *)
(* own.  Early returns that change nothing (404, 409, a failed read) are   *)
(* no step at all.                                                         *)
(***************************************************************************)
EXTENDS DockerDaemon, Naturals

CONSTANTS
    Replicas,     \* cage server processes
    Requests,     \* request handlers that can run at the same time
    HomeOf,       \* request -> the replica that serves it
    WarmIds,      \* placeholder ids pool.Take can return; {} is "no pool"
    Ops,          \* the endpoints clients use
    FaultKinds,   \* what may fail: "docker", "db", "redis", "exit"
    MaxFaults,    \* bound: failures in a behaviour
    MaxCrashes,   \* bound: replica crashes in a behaviour
    Expiry,       \* whether time passes the expires_at of records
    LeaseLoss     \* whether a lock's TTL can run out under a live holder

ASSUME LifecycleAssumption ==
    /\ Replicas \cap Requests = {}
    /\ HomeOf \in [Requests -> Replicas]
    /\ Nil \notin Replicas \cup Requests \cup WarmIds
    /\ WarmIds \cap (Containers \cup Images) = {}
    /\ Ops \subseteq {"create", "delete", "exec", "pause", "resume"}
    /\ MaxFaults \in Nat /\ MaxCrashes \in Nat
    /\ Expiry \in BOOLEAN /\ LeaseLoss \in BOOLEAN

VARIABLES
    row,          \* the sandboxes table
    mapping,      \* replica -> BackendAdapter.containers
    pc,           \* process -> the call it makes next
    target,       \* process -> the sandbox it works on
    cid,          \* process -> the container id in its local variable
    img,          \* process -> the pause reference in its local variable
    queue,        \* replica -> rows of List / ListExpired still to visit
    lock,         \* "reaper" / "reconcile" -> holder of the Redis lease
    cleanup,      \* replica -> images its detached goroutines will remove
    born,         \* sandbox ids already generated
    warm,         \* placeholder ids still in the pool
    acked,        \* sandbox -> data whose write was answered with success
    faults, crashes

jobVars == <<target, cid, img>>
lifeVars == <<row, mapping, pc, jobVars, queue, lock, cleanup, born, warm, acked>>
vars == <<daemonVars, lifeVars, faults, crashes>>

Procs == Requests \cup Replicas
Home(p) == IF p \in Replicas THEN p ELSE HomeOf[p]
Locks == {"reaper", "reconcile"}

NoRow == [status |-> "absent", image |-> Nil, expired |-> FALSE]
Row == {NoRow} \cup [status : {"running", "paused"}, image : Images \cup {Nil}, expired : BOOLEAN]
RunningRow == [status |-> "running", image |-> Nil, expired |-> FALSE]
PausedRow(i) == [status |-> "paused", image |-> i, expired |-> FALSE]
PastExpiry(x) == [status |-> x.status, image |-> x.image, expired |-> TRUE]

RequestPC == {"idle", "create.container", "create.start", "create.register", "create.save",
              "kill.lookup", "kill.unregister", "kill.stop", "kill.remove", "row.delete",
              "exec.lookup", "exec.run",
              "pause.lookup", "pause.commit", "pause.stop", "pause.remove",
              "pause.unregister", "pause.save",
              "resume.container", "resume.start", "resume.register", "resume.save"}
BootPC == {"down", "rec.list", "rec.next", "rec.delete", "rec.release"}
ReaperPC == {"tick", "reap.list", "reap.next", "kill.lookup", "kill.unregister", "kill.stop",
             "kill.remove", "reap.image", "row.delete", "reap.release"}

TypeOK ==
    /\ DaemonTypeOK
    /\ row \in [Sandboxes -> Row]
    /\ mapping \in [Replicas -> [Sandboxes -> Containers \cup WarmIds \cup {Nil}]]
    /\ pc \in [Procs -> RequestPC \cup BootPC \cup ReaperPC]
    /\ \A p \in Requests : pc[p] \in RequestPC
    /\ \A r \in Replicas : pc[r] \in BootPC \cup ReaperPC
    /\ target \in [Procs -> Sandboxes \cup {Nil}]
    /\ cid \in [Procs -> Containers \cup WarmIds \cup {Nil}]
    /\ img \in [Procs -> Images \cup {Nil}]
    /\ queue \in [Replicas -> [Sandboxes -> Row]]
    /\ lock \in [Locks -> Replicas \cup {Nil, "stale"}]
    /\ cleanup \in [Replicas -> SUBSET Images]
    /\ born \subseteq Sandboxes
    /\ warm \subseteq WarmIds
    /\ acked \in [Sandboxes -> SUBSET Writes]
    /\ faults \in 0..MaxFaults
    /\ crashes \in 0..MaxCrashes

\* The server of p's replica listens only after Reconcile has returned.
Serving(p) == pc[Home(p)] \notin BootPC

Init ==
    /\ DaemonInit
    /\ row = [s \in Sandboxes |-> NoRow]
    /\ mapping = [r \in Replicas |-> [s \in Sandboxes |-> Nil]]
    /\ pc = [p \in Procs |-> IF p \in Replicas THEN "down" ELSE "idle"]
    /\ target = [p \in Procs |-> Nil]
    /\ cid = [p \in Procs |-> Nil]
    /\ img = [p \in Procs |-> Nil]
    /\ queue = [r \in Replicas |-> [s \in Sandboxes |-> NoRow]]
    /\ lock = [k \in Locks |-> Nil]
    /\ cleanup = [r \in Replicas |-> {}]
    /\ born = {}
    /\ warm = WarmIds
    /\ acked = [s \in Sandboxes |-> {}]
    /\ faults = 0
    /\ crashes = 0

-----------------------------------------------------------------------------
\* Process p goes on to its next call.
Goto(p, label) == pc' = [pc EXCEPT ![p] = label]

\* Mutant of Return: an error in one row ends the reaper's thread.
ReturnForGood(p) ==
    /\ Goto(p, "idle")
    /\ target' = [target EXCEPT ![p] = Nil]
    /\ cid' = [cid EXCEPT ![p] = Nil]
    /\ img' = [img EXCEPT ![p] = Nil]

\* p's handler returns; the reaper's thread goes on with the next row.
Return(p) ==
    /\ Goto(p, IF p \in Replicas THEN "reap.next" ELSE "idle")
    /\ target' = [target EXCEPT ![p] = Nil]
    /\ cid' = [cid EXCEPT ![p] = Nil]
    /\ img' = [img EXCEPT ![p] = Nil]

NoFault == UNCHANGED faults
Fault(kind) ==
    /\ kind \in FaultKinds
    /\ faults < MaxFaults
    /\ faults' = faults + 1

\* An idle request starts an operation of the given kind on sandbox s.
Begin(p, op, s) ==
    /\ p \in Requests
    /\ pc[p] = "idle"
    /\ op \in Ops
    /\ Serving(p)
    /\ target' = [target EXCEPT ![p] = s]

\* Mutant of ContainerFor: the key is ignored, any entry of the map will do.
ContainerForAnyone(p, label) ==
    /\ \E s \in Sandboxes :
        LET c == mapping[Home(p)][s] IN
        c # Nil /\ cid' = [cid EXCEPT ![p] = c] /\ Goto(p, label) /\ UNCHANGED <<target, img>>
    /\ NoFault
    /\ UNCHANGED <<daemonVars, row, mapping, queue, lock, cleanup, born, warm, acked, crashes>>

\* BackendAdapter.containerFor: the id the map holds now, kept in a local;
\* "no container mapped" makes the caller return.
ContainerFor(p, label) ==
    LET c == mapping[Home(p)][target[p]] IN
    /\ \/ c # Nil /\ cid' = [cid EXCEPT ![p] = c] /\ Goto(p, label) /\ UNCHANGED <<target, img>>
       \/ c = Nil /\ Return(p)
    /\ NoFault
    /\ UNCHANGED <<daemonVars, row, mapping, queue, lock, cleanup, born, warm, acked, crashes>>

\* BackendAdapter.register / unregister, each under the map's mutex.
SetMapping(p, c) == mapping' = [mapping EXCEPT ![Home(p)][target[p]] = c]

\* A call to the daemon: done; refused because its object does not exist;
\* or failed, the daemon having carried it out or not.  Either error makes
\* the handler return.
DockerCall(p, exists, Effect, label) ==
    /\ \/ exists /\ Effect /\ Goto(p, label) /\ NoFault /\ UNCHANGED jobVars
       \/ ~exists /\ Unchanged /\ Return(p) /\ NoFault
       \/ Fault("docker") /\ (Unchanged \/ (exists /\ Effect)) /\ Return(p)
    /\ UNCHANGED <<row, mapping, queue, lock, cleanup, born, warm, acked, crashes>>

\* Store.Save (an upsert) or Store.Delete: written, or an error with the
\* write committed or not.
RowCall(p, new) ==
    \/ NoFault /\ row' = [row EXCEPT ![target[p]] = new]
    \/ Fault("db") /\ row' \in {row, [row EXCEPT ![target[p]] = new]}

-----------------------------------------------------------------------------
\* POST /sandboxes: a fresh uuid, then a warm resource if the pool has one,
\* else a cold create.  Adoption is the mere registration of the id the pool
\* returned.
CreateBegin(p) ==
    \E s \in Sandboxes \ born :
        /\ Begin(p, "create", s)
        /\ born' = born \cup {s}
        /\ \/ \E w \in warm :
                /\ warm' = warm \ {w}
                /\ cid' = [cid EXCEPT ![p] = w]
                /\ Goto(p, "create.register")
           \/ Goto(p, "create.container") /\ UNCHANGED <<warm, cid>>
        /\ UNCHANGED <<daemonVars, row, mapping, img, queue, lock, cleanup, acked, faults, crashes>>

\* ImagePull and ContainerCreate; an error may leave a created container.
CreateContainer(p) ==
    /\ pc[p] = "create.container"
    /\ \E c \in Containers :
        \/ /\ ContainerCreate(c, target[p], {})
           /\ \/ NoFault /\ cid' = [cid EXCEPT ![p] = c] /\ Goto(p, "create.start") /\ UNCHANGED <<target, img>>
              \/ Fault("docker") /\ Return(p)
        \/ Unchanged /\ Fault("docker") /\ Return(p)
    /\ UNCHANGED <<row, mapping, queue, lock, cleanup, born, warm, acked, crashes>>

\* A failed start returns without removing the created container.
CreateStart(p) ==
    /\ pc[p] = "create.start"
    /\ DockerCall(p, Exists(cid[p]), ContainerStart(cid[p]), "create.register")

CreateRegister(p) ==
    /\ pc[p] = "create.register"
    /\ SetMapping(p, cid[p])
    /\ Goto(p, "create.save")
    /\ UNCHANGED <<daemonVars, row, jobVars, queue, lock, cleanup, born, warm, acked, faults, crashes>>

\* A failed Save answers 500 and leaves the container running, unrecorded.
CreateSave(p) ==
    /\ pc[p] = "create.save"
    /\ RowCall(p, RunningRow)
    /\ Return(p)
    /\ UNCHANGED <<daemonVars, mapping, queue, lock, cleanup, born, warm, acked, crashes>>

-----------------------------------------------------------------------------
\* DELETE /sandboxes/{id}: any recorded sandbox, whatever its status.
DeleteGet(p) ==
    \E s \in Sandboxes :
        /\ row[s] # NoRow
        /\ Begin(p, "delete", s)
        /\ Goto(p, "kill.lookup")
        /\ UNCHANGED <<daemonVars, row, mapping, cid, img, queue, lock, cleanup, born, warm, acked, faults, crashes>>

\* BackendAdapter.KillSandbox, for a DELETE and for the reaper alike.
KillLookup(p) == pc[p] = "kill.lookup" /\ ContainerFor(p, "kill.unregister")

\* The mapping goes first: from here on a failure cannot be retried.
KillUnregister(p) ==
    /\ pc[p] = "kill.unregister"
    /\ SetMapping(p, Nil)
    /\ Goto(p, "kill.stop")
    /\ UNCHANGED <<daemonVars, row, jobVars, queue, lock, cleanup, born, warm, acked, faults, crashes>>

\* Mutant of KillStop: the container is stopped and never removed.
KillStopOnly(p) ==
    /\ pc[p] = "kill.stop"
    /\ DockerCall(p, Exists(cid[p]), ContainerStop(cid[p]), "row.delete")

KillStop(p) ==
    /\ pc[p] = "kill.stop"
    /\ DockerCall(p, Exists(cid[p]), ContainerStop(cid[p]), "kill.remove")

\* Mutant of KillRemove: its error is logged, and the record deleted anyway.
KillRemoveAnyway(p) ==
    /\ pc[p] = "kill.remove"
    /\ \/ Exists(cid[p]) /\ ContainerRemove(cid[p]) /\ NoFault
       \/ ~Exists(cid[p]) /\ Unchanged /\ NoFault
       \/ Fault("docker") /\ Unchanged
    /\ Goto(p, "row.delete")
    /\ UNCHANGED <<row, mapping, jobVars, queue, lock, cleanup, born, warm, acked, crashes>>

KillRemove(p) ==
    /\ pc[p] = "kill.remove"
    /\ DockerCall(p, Exists(cid[p]), ContainerRemove(cid[p]), "row.delete")

\* Mutant of DeleteRow: the record is left for the reaper to collect.
DeleteRowLater(p) ==
    /\ pc[p] = "row.delete"
    /\ NoFault
    /\ Return(p)
    /\ UNCHANGED <<daemonVars, row, mapping, queue, lock, cleanup, born, warm, acked, crashes>>

\* store.Delete after a successful kill (or image removal); no row is no error.
DeleteRow(p) ==
    /\ pc[p] = "row.delete"
    /\ RowCall(p, NoRow)
    /\ Return(p)
    /\ UNCHANGED <<daemonVars, mapping, queue, lock, cleanup, born, warm, acked, crashes>>

-----------------------------------------------------------------------------
\* POST exec, PUT and GET files: the record must say "running".
ExecGet(p) ==
    \E s \in Sandboxes :
        /\ row[s].status = "running"
        /\ Begin(p, "exec", s)
        /\ Goto(p, "exec.lookup")
        /\ UNCHANGED <<daemonVars, row, mapping, cid, img, queue, lock, cleanup, born, warm, acked, faults, crashes>>

ExecLookup(p) == pc[p] = "exec.lookup" /\ ContainerFor(p, "exec.run")

\* The command or copy runs in the container and may store data; only then
\* is the client told so.
ExecRun(p) ==
    /\ pc[p] = "exec.run"
    /\ Return(p)
    /\ \/ /\ Exists(cid[p])
          /\ \E new \in {{}} \cup {{w} : w \in Fresh} :
                /\ ContainerWrite(cid[p], new)
                /\ \/ NoFault /\ acked' = [acked EXCEPT ![target[p]] = @ \cup new]
                   \/ Fault("docker") /\ UNCHANGED acked
       \/ ~Exists(cid[p]) /\ Unchanged /\ NoFault /\ UNCHANGED acked
    /\ UNCHANGED <<row, mapping, queue, lock, cleanup, born, warm, crashes>>

-----------------------------------------------------------------------------
\* POST pause: commit the container, stop it, remove it, drop the mapping,
\* and only then record the image.
PauseGet(p) ==
    \E s \in Sandboxes :
        /\ row[s].status = "running"
        /\ Begin(p, "pause", s)
        /\ Goto(p, "pause.lookup")
        /\ UNCHANGED <<daemonVars, row, mapping, cid, img, queue, lock, cleanup, born, warm, acked, faults, crashes>>

PauseLookup(p) == pc[p] = "pause.lookup" /\ ContainerFor(p, "pause.commit")

PauseCommit(p) ==
    /\ pc[p] = "pause.commit"
    /\ \/ /\ Exists(cid[p])
          /\ \E i \in Images :
                /\ ContainerCommit(cid[p], i)
                /\ \/ NoFault /\ img' = [img EXCEPT ![p] = i] /\ Goto(p, "pause.stop") /\ UNCHANGED <<target, cid>>
                   \/ Fault("docker") /\ Return(p)
       \/ ~Exists(cid[p]) /\ NoFault /\ Unchanged /\ Return(p)
       \/ Fault("docker") /\ Unchanged /\ Return(p)
    /\ UNCHANGED <<row, mapping, queue, lock, cleanup, born, warm, acked, crashes>>

\* A failed stop or removal returns with the image committed and the record
\* and the mapping as they were.
PauseStop(p) ==
    /\ pc[p] = "pause.stop"
    /\ DockerCall(p, Exists(cid[p]), ContainerStop(cid[p]), "pause.remove")

PauseRemove(p) ==
    /\ pc[p] = "pause.remove"
    /\ DockerCall(p, Exists(cid[p]), ContainerRemove(cid[p]), "pause.unregister")

PauseUnregister(p) ==
    /\ pc[p] = "pause.unregister"
    /\ SetMapping(p, Nil)
    /\ Goto(p, "pause.save")
    /\ UNCHANGED <<daemonVars, row, jobVars, queue, lock, cleanup, born, warm, acked, faults, crashes>>

\* The upsert overwrites, or re-inserts, whatever the row has become.
PauseSave(p) ==
    /\ pc[p] = "pause.save"
    /\ RowCall(p, PausedRow(img[p]))
    /\ Return(p)
    /\ UNCHANGED <<daemonVars, mapping, queue, lock, cleanup, born, warm, acked, crashes>>

-----------------------------------------------------------------------------
\* POST resume: a new container from the recorded image.
ResumeGet(p) ==
    \E s \in Sandboxes :
        /\ row[s].status = "paused"
        /\ row[s].image # Nil
        /\ Begin(p, "resume", s)
        /\ img' = [img EXCEPT ![p] = row[s].image]
        /\ Goto(p, "resume.container")
        /\ UNCHANGED <<daemonVars, row, mapping, cid, queue, lock, cleanup, born, warm, acked, faults, crashes>>

\* Mutant of ResumeContainer: the container is made from the template.
ResumeFromTemplate(p) ==
    /\ pc[p] = "resume.container"
    /\ \E c \in Containers :
          /\ ContainerCreate(c, target[p], {})
          /\ cid' = [cid EXCEPT ![p] = c]
    /\ Goto(p, "resume.start")
    /\ NoFault
    /\ UNCHANGED <<row, mapping, target, img, queue, lock, cleanup, born, warm, acked, crashes>>

ResumeContainer(p) ==
    /\ pc[p] = "resume.container"
    /\ \/ /\ image[img[p]] = "present"
          /\ \E c \in Containers :
                /\ ContainerCreate(c, target[p], disk[img[p]])
                /\ \/ NoFault /\ cid' = [cid EXCEPT ![p] = c] /\ Goto(p, "resume.start") /\ UNCHANGED <<target, img>>
                   \/ Fault("docker") /\ Return(p)
       \/ image[img[p]] # "present" /\ NoFault /\ Unchanged /\ Return(p)
       \/ Fault("docker") /\ Unchanged /\ Return(p)
    /\ UNCHANGED <<row, mapping, queue, lock, cleanup, born, warm, acked, crashes>>

ResumeStart(p) ==
    /\ pc[p] = "resume.start"
    /\ DockerCall(p, Exists(cid[p]), ContainerStart(cid[p]), "resume.register")

\* Mutant of ResumeRegister: the clean-up is started before the Save.
ResumeRegisterAndClean(p) ==
    /\ pc[p] = "resume.register"
    /\ SetMapping(p, cid[p])
    /\ cleanup' = [cleanup EXCEPT ![Home(p)] = @ \cup {img[p]}]
    /\ Goto(p, "resume.save")
    /\ UNCHANGED <<daemonVars, row, jobVars, queue, lock, born, warm, acked, faults, crashes>>

ResumeRegister(p) ==
    /\ pc[p] = "resume.register"
    /\ SetMapping(p, cid[p])
    /\ Goto(p, "resume.save")
    /\ UNCHANGED <<daemonVars, row, jobVars, queue, lock, cleanup, born, warm, acked, faults, crashes>>

\* Mutant of ResumeSave: the image is never cleaned up.
ResumeSaveOnly(p) ==
    /\ pc[p] = "resume.save"
    /\ RowCall(p, RunningRow)
    /\ Return(p)
    /\ UNCHANGED <<daemonVars, mapping, queue, lock, cleanup, born, warm, acked, crashes>>

\* Mutant of ResumeSave: the image is cleaned up even if the Save failed.
ResumeSaveAndClean(p) ==
    /\ pc[p] = "resume.save"
    /\ RowCall(p, RunningRow)
    /\ cleanup' = [cleanup EXCEPT ![Home(p)] = @ \cup {img[p]}]
    /\ Return(p)
    /\ UNCHANGED <<daemonVars, mapping, queue, lock, born, warm, acked, crashes>>

\* Mutant of ResumeSave: PausedImageID is not reset.
ResumeSaveKeepsImage(p) ==
    /\ pc[p] = "resume.save"
    /\ RowCall(p, [RunningRow EXCEPT !.image = img[p]])
    /\ Return(p)
    /\ UNCHANGED <<daemonVars, mapping, queue, lock, cleanup, born, warm, acked, crashes>>

\* Only after a successful Save is the goroutine that removes the image started.
ResumeSave(p) ==
    /\ pc[p] = "resume.save"
    /\ LET saved == [row EXCEPT ![target[p]] = RunningRow] IN
       \/ NoFault /\ row' = saved /\ cleanup' = [cleanup EXCEPT ![Home(p)] = @ \cup {img[p]}]
       \/ Fault("db") /\ row' \in {row, saved} /\ UNCHANGED cleanup
    /\ Return(p)
    /\ UNCHANGED <<daemonVars, mapping, queue, lock, born, warm, acked, crashes>>

\* The detached goroutine: one attempt, its error only logged.
CleanupImage(r) ==
    \E i \in cleanup[r] :
        /\ cleanup' = [cleanup EXCEPT ![r] = @ \ {i}]
        /\ \/ NoFault /\ image[i] = "present" /\ ImageRemove(i)
           \/ NoFault /\ image[i] # "present" /\ Unchanged
           \/ Fault("docker") /\ (Unchanged \/ (image[i] = "present" /\ ImageRemove(i)))
        /\ UNCHANGED <<row, mapping, pc, jobVars, queue, lock, born, warm, acked, crashes>>

-----------------------------------------------------------------------------
\* Mutant of TryAcquire: SET without NX.
TryAcquireAlways(k, r) == lock' = [lock EXCEPT ![k] = r]

\* DistributedLock on Redis: SET NX, and a delete that compares the token.
\* A token dies with its process: what a crashed replica held is "stale".
TryAcquire(k, r) == lock[k] = Nil /\ lock' = [lock EXCEPT ![k] = r]

\* A failed Release is only logged; if Redis has not carried it out, the
\* lease has to run out.
Release(k, r, label) ==
    /\ Goto(r, label)
    /\ LET released == IF lock[k] = r THEN [lock EXCEPT ![k] = Nil] ELSE lock IN
       \/ NoFault /\ lock' = released
       \/ Fault("redis") /\ lock' \in {lock, released}
    /\ UNCHANGED <<daemonVars, row, mapping, jobVars, queue, cleanup, born, warm, acked, crashes>>

\* Nothing renews a lease.  Unless LeaseLoss, the work it covers is done
\* within the TTL.
Covered(k, r) == pc[r] \in IF k = "reaper" THEN ReaperPC \ {"tick"} ELSE BootPC \ {"down"}
LeaseExpires(k) ==
    /\ lock[k] # Nil
    /\ lock[k] \in Replicas /\ Covered(k, lock[k]) => LeaseLoss
    /\ lock' = [lock EXCEPT ![k] = Nil]
    /\ UNCHANGED <<daemonVars, row, mapping, pc, jobVars, queue, cleanup, born, warm, acked, faults, crashes>>

\* main starts and calls Reconcile, which gives up (logged only) when the
\* lock is held or Redis fails, having taken the lock or not.
Boot(r) ==
    /\ r \in Replicas
    /\ pc[r] = "down"
    /\ \/ TryAcquire("reconcile", r) /\ Goto(r, "rec.list") /\ NoFault
       \/ lock["reconcile"] # Nil /\ Goto(r, "tick") /\ NoFault /\ UNCHANGED lock
       \/ Fault("redis") /\ Goto(r, "tick") /\ (UNCHANGED lock \/ TryAcquire("reconcile", r))
    /\ UNCHANGED <<daemonVars, row, mapping, jobVars, queue, cleanup, born, warm, acked, crashes>>

\* Reconcile: store.List, of which only the running rows matter.
ReconcileList(r) ==
    /\ pc[r] = "rec.list"
    /\ \/ /\ NoFault
          /\ queue' = [queue EXCEPT ![r] =
                [s \in Sandboxes |-> IF row[s].status = "running" THEN row[s] ELSE NoRow]]
          /\ Goto(r, "rec.next")
       \/ Fault("db") /\ Goto(r, "rec.release") /\ UNCHANGED queue
    /\ UNCHANGED <<daemonVars, row, mapping, jobVars, lock, cleanup, born, warm, acked, crashes>>

\* BackendAdapter.IsRunning: no mapping counts as not running.  Reconcile
\* runs before anything is mapped, so it never comes to ask the daemon.
IsRunning(r, s) == Running(mapping[r][s])

ReconcileNext(r) ==
    /\ pc[r] = "rec.next"
    /\ \/ \E s \in Sandboxes :
            /\ queue[r][s] # NoRow
            /\ queue' = [queue EXCEPT ![r][s] = NoRow]
            /\ IF IsRunning(r, s) THEN UNCHANGED <<pc, target>>
               ELSE Goto(r, "rec.delete") /\ target' = [target EXCEPT ![r] = s]
       \/ /\ \A s \in Sandboxes : queue[r][s] = NoRow
          /\ Goto(r, "rec.release")
          /\ UNCHANGED <<queue, target>>
    /\ UNCHANGED <<daemonVars, row, mapping, cid, img, lock, cleanup, born, warm, acked, faults, crashes>>

ReconcileDelete(r) ==
    /\ pc[r] = "rec.delete"
    /\ RowCall(r, NoRow)
    /\ Goto(r, "rec.next")
    /\ target' = [target EXCEPT ![r] = Nil]
    /\ UNCHANGED <<daemonVars, mapping, cid, img, queue, lock, cleanup, born, warm, acked, crashes>>

ReconcileRelease(r) == pc[r] = "rec.release" /\ Release("reconcile", r, "tick")

-----------------------------------------------------------------------------
\* One tick of the reaper that wins its lock, or that Redis gives the lock
\* to without the answer getting through.
ReaperTick(r) ==
    /\ pc[r] = "tick"
    /\ TryAcquire("reaper", r)
    /\ \/ NoFault /\ Goto(r, "reap.list")
       \/ Fault("redis") /\ UNCHANGED pc
    /\ UNCHANGED <<daemonVars, row, mapping, jobVars, queue, cleanup, born, warm, acked, crashes>>

\* Mutant of ReapList: only the paused rows are selected.
ReapListPaused(r) ==
    /\ pc[r] = "reap.list"
    /\ NoFault
    /\ queue' = [queue EXCEPT ![r] =
           [s \in Sandboxes |-> IF row[s].expired /\ row[s].status = "paused" THEN row[s] ELSE NoRow]]
    /\ Goto(r, "reap.next")
    /\ UNCHANGED <<daemonVars, row, mapping, jobVars, lock, cleanup, born, warm, acked, crashes>>

\* reap: a snapshot of the expired rows, then one row after the other.
ReapList(r) ==
    /\ pc[r] = "reap.list"
    /\ \/ /\ NoFault
          /\ queue' = [queue EXCEPT ![r] =
                [s \in Sandboxes |-> IF row[s].expired THEN row[s] ELSE NoRow]]
          /\ Goto(r, "reap.next")
       \/ Fault("db") /\ Goto(r, "reap.release") /\ UNCHANGED queue
    /\ UNCHANGED <<daemonVars, row, mapping, jobVars, lock, cleanup, born, warm, acked, crashes>>

\* reapRunning or reapPaused, by the status in the snapshot.
ReapNext(r) ==
    /\ pc[r] = "reap.next"
    /\ \/ \E s \in Sandboxes :
            /\ queue[r][s] # NoRow
            /\ queue' = [queue EXCEPT ![r][s] = NoRow]
            /\ target' = [target EXCEPT ![r] = s]
            /\ img' = [img EXCEPT ![r] = queue[r][s].image]
            /\ Goto(r, IF queue[r][s].status = "running" THEN "kill.lookup"
                       ELSE IF queue[r][s].image = Nil THEN "row.delete" ELSE "reap.image")
       \/ /\ \A s \in Sandboxes : queue[r][s] = NoRow
          /\ Goto(r, "reap.release")
          /\ UNCHANGED <<queue, target, img>>
    /\ UNCHANGED <<daemonVars, row, mapping, cid, lock, cleanup, born, warm, acked, faults, crashes>>

ReapImage(r) ==
    /\ pc[r] = "reap.image"
    /\ DockerCall(r, image[img[r]] = "present", ImageRemove(img[r]), "row.delete")

ReapRelease(r) == pc[r] = "reap.release" /\ Release("reaper", r, "tick")

-----------------------------------------------------------------------------
\* A record's expires_at passes.
Expire(s) ==
    /\ Expiry
    /\ row[s] # NoRow
    /\ ~row[s].expired
    /\ row' = [row EXCEPT ![s] = PastExpiry(row[s])]
    /\ UNCHANGED <<daemonVars, mapping, pc, jobVars, queue, lock, cleanup, born, warm, acked, faults, crashes>>

\* A container's main process ends without cage's doing.
ContainerExit(c) ==
    /\ container[c] = "running"
    /\ Fault("exit")
    /\ ContainerStop(c)
    /\ UNCHANGED <<lifeVars, crashes>>

\* A replica dies: its requests, its goroutines and its map are gone.
Crash(r) ==
    /\ crashes < MaxCrashes
    /\ pc[r] # "down"
    /\ crashes' = crashes + 1
    /\ pc' = [p \in Procs |-> IF p = r THEN "down" ELSE IF Home(p) = r THEN "idle" ELSE pc[p]]
    /\ target' = [p \in Procs |-> IF Home(p) = r THEN Nil ELSE target[p]]
    /\ cid' = [p \in Procs |-> IF Home(p) = r THEN Nil ELSE cid[p]]
    /\ img' = [p \in Procs |-> IF Home(p) = r THEN Nil ELSE img[p]]
    /\ mapping' = [mapping EXCEPT ![r] = [s \in Sandboxes |-> Nil]]
    /\ queue' = [queue EXCEPT ![r] = [s \in Sandboxes |-> NoRow]]
    /\ cleanup' = [cleanup EXCEPT ![r] = {}]
    /\ lock' = [k \in Locks |-> IF lock[k] = r THEN "stale" ELSE lock[k]]
    /\ UNCHANGED <<daemonVars, row, born, warm, acked, faults>>

-----------------------------------------------------------------------------
Create(p) == CreateBegin(p) \/ CreateContainer(p) \/ CreateStart(p) \/ CreateRegister(p) \/ CreateSave(p)
Kill(p)   == KillLookup(p) \/ KillUnregister(p) \/ KillStop(p) \/ KillRemove(p) \/ DeleteRow(p)
Exec(p)   == ExecGet(p) \/ ExecLookup(p) \/ ExecRun(p)
Pause(p)  == PauseGet(p) \/ PauseLookup(p) \/ PauseCommit(p) \/ PauseStop(p) \/ PauseRemove(p)
             \/ PauseUnregister(p) \/ PauseSave(p)
Resume(p) == ResumeGet(p) \/ ResumeContainer(p) \/ ResumeStart(p) \/ ResumeRegister(p) \/ ResumeSave(p)

Reconcile(r) == Boot(r) \/ ReconcileList(r) \/ ReconcileNext(r) \/ ReconcileDelete(r) \/ ReconcileRelease(r)
Reap(r)      == ReaperTick(r) \/ ReapList(r) \/ ReapNext(r) \/ ReapImage(r) \/ ReapRelease(r)

Handler(p) == Create(p) \/ DeleteGet(p) \/ Kill(p) \/ Exec(p) \/ Pause(p) \/ Resume(p)
Background(r) == Reconcile(r) \/ Reap(r) \/ Kill(r)

Next ==
    \/ \E p \in Requests : Handler(p)
    \/ \E r \in Replicas : Background(r) \/ CleanupImage(r) \/ Crash(r)
    \/ \E k \in Locks : LeaseExpires(k)
    \/ \E s \in Sandboxes : Expire(s)
    \/ \E c \in Containers : ContainerExit(c)

Spec == Init /\ [][Next]_vars

\* The reaper's goroutine and a started handler are scheduled by the Go
\* runtime; nothing obliges a client to start a request.
InProgress(p) == pc[p] # "idle" /\ Handler(p)
FairSpec ==
    /\ Spec
    /\ \A p \in Requests : WF_vars(InProgress(p))
    /\ \A r \in Replicas : WF_vars(Background(r)) /\ WF_vars(CleanupImage(r))
    /\ \A k \in Locks : WF_vars(LeaseExpires(k))

-----------------------------------------------------------------------------
(* Ownership. *)

\* Every id the service holds for a sandbox - in a replica's map, in a
\* handler's local variable, in a record or in the reaper's snapshot - names
\* a container or image made for that very sandbox, however stale it is.
OwnResources ==
    /\ \A r \in Replicas, s \in Sandboxes :
        mapping[r][s] \in Containers => madeFor[mapping[r][s]] = s
    /\ \A p \in Procs :
        /\ cid[p] \in Containers => madeFor[cid[p]] = target[p]
        /\ img[p] \in Images => madeFor[img[p]] = target[p]
    /\ \A s \in Sandboxes :
        /\ row[s].image \in Images => madeFor[row[s].image] = s
        /\ \A r \in Replicas : queue[r][s].image \in Images => madeFor[queue[r][s].image] = s

\* No container or image of a sandbox ever holds data that was stored in
\* another sandbox, through any interleaving of exec, pause and resume.
NoForeignData ==
    \A s \in Sandboxes, x \in Containers \cup Images :
        madeFor[x] # s => disk[x] \cap acked[s] = {}

(* Pause references. *)

Pausing == {"pause.stop", "pause.remove", "pause.unregister", "pause.save"}

\* The image a resume leaves to its detached RemoveImage goroutine is never
\* one that a record still needs to be resumed from, nor one that a pause in
\* progress is about to record.
CleanupIsUnreferenced ==
    \A r \in Replicas : \A i \in cleanup[r] :
        /\ \A s \in Sandboxes : row[s].image # i
        /\ \A p \in Procs : pc[p] \in Pausing => img[p] # i

\* A record says "paused" exactly when it names a pause reference: the
\* "inconsistent state" ResumeSandbox guards against does not arise.
PauseRecorded ==
    \A s \in Sandboxes : row[s].status = "paused" <=> row[s].image # Nil

\* While no call fails and no replica dies, a paused record can be resumed:
\* its image exists, unless the reaper has removed it and is about to delete
\* the record.
PausedIsResumable ==
    \A s \in Sandboxes :
        row[s].status = "paused" =>
            \/ image[row[s].image] = "present"
            \/ \E r \in Replicas : pc[r] = "row.delete" /\ target[r] = s

(* Forgetting a sandbox. *)

\* DELETE and the reaper delete a record only once the container, or the
\* image, that they looked up for it is gone from the daemon.
ForgetsOnlyWhatIsGone ==
    \A p \in Procs : pc[p] = "row.delete" =>
        /\ cid[p] # Nil \/ img[p] # Nil
        /\ cid[p] # Nil => ~Exists(cid[p])
        /\ img[p] # Nil => image[img[p]] # "present"

\* The reaper's lock keeps two replicas from reaping at the same time, also
\* across crashes.
OneReaper ==
    \A r, t \in Replicas : Covered("reaper", r) /\ Covered("reaper", t) => r = t

(* What the record says and what the daemon has, between operations. *)

Busy(s) == \E p \in Procs : target[p] = s
Settled(s) == ~Busy(s) /\ \A r \in Replicas : cleanup[r] = {}
ContainersOf(s) == {c \in Containers : madeFor[c] = s /\ Exists(c)}
ImagesOf(s) == {i \in Images : madeFor[i] = s /\ image[i] = "present"}
MappedTo(s) == {mapping[r][s] : r \in Replicas} \ {Nil}

\* If nothing fails and nobody else works on a sandbox that a client pauses or
\* resumes, as with one client that waits for its answers, then whenever
\* nobody works on a sandbox its record is the truth: running with one
\* container, which is the mapped one; paused with one image, the recorded
\* one, and no container; or absent, with nothing left behind.
RecordIsTruth ==
    \A s \in Sandboxes : Settled(s) =>
        /\ row[s].status = "running" =>
              Cardinality(ContainersOf(s)) = 1 /\ MappedTo(s) = ContainersOf(s) /\ ImagesOf(s) = {}
        /\ row[s].status = "paused" =>
              ContainersOf(s) = {} /\ MappedTo(s) = {} /\ ImagesOf(s) = {row[s].image}
        /\ row[s].status = "absent" =>
              ContainersOf(s) = {} /\ MappedTo(s) = {} /\ ImagesOf(s) = {}

\* Data whose write was acknowledged is in the sandbox for as long as it has
\* a record, through any number of pauses and resumes, if nobody else works on
\* it meanwhile (see LostWrite.cfg for a write during a pause).
AckedDataSurvives ==
    \A s \in Sandboxes :
        /\ row[s].status = "running" /\ Settled(s) =>
              \A r \in Replicas : mapping[r][s] \in Containers => acked[s] \subseteq disk[mapping[r][s]]
        /\ row[s].status = "paused" /\ Settled(s) => acked[s] \subseteq disk[row[s].image]

(* The service as its clients see it. *)

\* A handler that has drawn the id of s and not yet recorded it.
BeingCreated(s) == \E p \in Requests :
    target[p] = s /\ pc[p] \in {"create.container", "create.start", "create.register", "create.save"}

ServiceStatus(s) ==
    IF row[s] # NoRow THEN row[s].status
    ELSE IF s \in born /\ ~BeingCreated(s) THEN "gone" ELSE "new"

\* Where a recorded sandbox's data is: in its pause image; in its container;
\* or, unregistered, in the container the handler at work has looked up.
Holding(s) ==
    CASE row[s].status = "paused" -> {row[s].image}
      [] row[s].status = "running" ->
            IF MappedTo(s) # {} THEN MappedTo(s) ELSE {cid[p] : p \in {q \in Procs : target[q] = s}}
      [] row[s].status = "absent" -> {}

ServiceData(s) == UNION {disk[x] : x \in Holding(s) \cap (Containers \cup Images)}

\* On the same conditions, the calls an operation is made of look to clients
\* like one indivisible step of the service: its Save or Delete of the record,
\* or the write into the container.
Service == INSTANCE SandboxService WITH
    status <- [s \in Sandboxes |-> ServiceStatus(s)],
    data <- [s \in Sandboxes |-> ServiceData(s)]
ServiceSpec == Service!Spec

(* Progress. *)

\* The reaper removes the record of every sandbox whose time has passed.
ExpiredIsReaped == \A s \in Sandboxes : row[s].expired ~> row[s] = NoRow

(* Said of the program by its documentation and its comments, and not so: a
   configuration of its own finds each of these violated. *)

\* A paused sandbox nobody works on occupies no memory: it has no running
\* container.
PausedFreesMemory ==
    \A s \in Sandboxes :
        row[s].status = "paused" /\ ~Busy(s) => \A c \in ContainersOf(s) : ~Running(c)

\* Reconcile drops a record only when the daemon runs no container of it.
ReconcileDropsOnlyDead ==
    \A r \in Replicas : pc[r] = "rec.delete" =>
        \A c \in ContainersOf(target[r]) : ~Running(c)

\* A DELETE that found a record, and that nothing failed, leaves none.
DeleteRemoves ==
    [][\A q \in Requests :
          pc[q] \in {"kill.lookup", "kill.unregister", "kill.stop", "kill.remove", "row.delete"}
          /\ pc'[q] = "idle" => row'[target[q]] = NoRow]_vars

\* The reaper forgets a paused sandbox only if it is abandoned: what has been
\* resumed since it was listed keeps its record.
ReapsOnlyAbandoned ==
    \A r \in Replicas :
        pc[r] = "row.delete" /\ img[r] # Nil => row[target[r]].status # "running"

\* An expired paused sandbox is collected, or it is resumed and stays in use.
ExpiredPauseIsCollected ==
    \A s \in Sandboxes :
        row[s].expired /\ row[s].status = "paused" ~> row[s].status # "paused" \/ ~row[s].expired

-----------------------------------------------------------------------------
(* The parts that make the invariants above inductive. *)

Resting == {"idle", "tick", "down", "rec.list", "rec.next", "rec.release",
            "reap.list", "reap.next", "reap.release"}
Resuming == {"resume.container", "resume.start", "resume.register", "resume.save"}
HasContainer == {"create.start", "create.register", "kill.unregister", "kill.stop", "kill.remove",
                 "exec.run", "pause.commit", "resume.start", "resume.register"}
HasNoImage == {"kill.lookup", "kill.unregister", "kill.stop", "kill.remove"}

\* The local variables a process has set when it is about to make a call.
JobOK(label, t, c, i) ==
    /\ label \in Resting => t = Nil /\ c = Nil /\ i = Nil
    /\ label \notin Resting => t \in Sandboxes
    /\ label \in HasContainer => c # Nil
    /\ label \in HasNoImage => i = Nil
    /\ label \in Pausing \cup Resuming \cup {"reap.image"} => i \in Images
    /\ label \in {"reap.image", "kill.lookup"} => c = Nil
    /\ label = "rec.delete" => c = Nil /\ i = Nil

JobsOK == \A p \in Procs : JobOK(pc[p], target[p], cid[p], img[p])

\* The reaper's snapshot satisfies what the table does.
SnapshotRecorded ==
    \A r \in Replicas, s \in Sandboxes : queue[r][s].status = "paused" <=> queue[r][s].image # Nil

\* Nobody holds an id that the daemon has not given out.
HeldIsKnown ==
    /\ \A r \in Replicas, s \in Sandboxes :
        /\ mapping[r][s] \in Containers => container[mapping[r][s]] # "free"
        /\ queue[r][s].image \in Images => image[queue[r][s].image] # "free"
    /\ \A p \in Procs :
        /\ cid[p] \in Containers => container[cid[p]] # "free"
        /\ img[p] \in Images => image[img[p]] # "free"
    /\ \A s \in Sandboxes : row[s].image \in Images => image[row[s].image] # "free"
    /\ \A r \in Replicas : \A i \in cleanup[r] : image[i] # "free"

\* Until it is recorded, the image of a pause is known to the pause alone.
PauseImageIsPrivate ==
    \A p \in Procs : pc[p] \in Pausing =>
        /\ \A q \in Procs \ {p} : img[q] # img[p]
        /\ \A s \in Sandboxes : row[s].image # img[p]
        /\ \A r \in Replicas, s \in Sandboxes : queue[r][s].image # img[p]
        /\ \A r \in Replicas : img[p] \notin cleanup[r]

\* A piece of data is in the containers and images of one sandbox only, and
\* acknowledged data was stored in a container of the sandbox it is of.
DataIsOwned ==
    /\ \A x, y \in Containers \cup Images :
        disk[x] \cap disk[y] # {} => madeFor[x] = madeFor[y]
    /\ \A s \in Sandboxes : \A w \in acked[s] :
        \E x \in Containers \cup Images : w \in disk[x] /\ madeFor[x] = s

\* An id the daemon has not given out holds nothing.
FreeIsEmpty ==
    /\ \A c \in Containers : container[c] = "free" => disk[c] = {}
    /\ \A i \in Images : image[i] = "free" => disk[i] = {}

TypeInv == TypeOK /\ JobsOK /\ PauseRecorded /\ SnapshotRecorded
OwnerInv == HeldIsKnown /\ OwnResources
=============================================================================
