----------------------- MODULE SandboxLifecycle_proofs -----------------------
(***************************************************************************)
(* Proofs about SandboxLifecycle, for any number of replicas, requests,    *)
(* sandboxes, containers, images and faults.                               *)
(***************************************************************************)
EXTENDS SandboxLifecycle, TLAPS

-----------------------------------------------------------------------------
(* Processes: their program counters and local variables. *)

JobTypeOK ==
    /\ pc \in [Procs -> RequestPC \cup BootPC \cup ReaperPC]
    /\ \A p \in Requests : pc[p] \in RequestPC
    /\ \A r \in Replicas : pc[r] \in BootPC \cup ReaperPC
    /\ target \in [Procs -> Sandboxes \cup {Nil}]
    /\ cid \in [Procs -> Containers \cup WarmIds \cup {Nil}]
    /\ img \in [Procs -> Images \cup {Nil}]

JobInv == JobTypeOK /\ JobsOK

\* Labels a process of p's kind may have.
PCOf(p) == IF p \in Requests THEN RequestPC ELSE BootPC \cup ReaperPC

\* A step in which only p moves, to a state with well-formed locals, keeps
\* every process well formed.
LEMMA JobStep ==
  ASSUME JobInv, NEW p \in Procs,
         NEW l \in PCOf(p), NEW t \in Sandboxes \cup {Nil},
         NEW c \in Containers \cup WarmIds \cup {Nil}, NEW i \in Images \cup {Nil},
         pc' = [pc EXCEPT ![p] = l], target' = [target EXCEPT ![p] = t],
         cid' = [cid EXCEPT ![p] = c], img' = [img EXCEPT ![p] = i],
         JobOK(l, t, c, i)
  PROVE  JobInv'
  <1>1. JobTypeOK'
    BY LifecycleAssumption DEF JobInv, JobTypeOK, PCOf, Procs
  <1>2. JobsOK'
    BY DEF JobInv, JobTypeOK, JobsOK
  <1> QED BY <1>1, <1>2 DEF JobInv

\* A handler that returns, or a reaper that goes on, holds nothing any more.
LEMMA JobReturn ==
  ASSUME JobInv, NEW p \in Procs, Return(p)
  PROVE  JobInv'
  <1> DEFINE l == IF p \in Replicas THEN "reap.next" ELSE "idle"
  <1>1. l \in PCOf(p) /\ JobOK(l, Nil, Nil, Nil)
    BY LifecycleAssumption DEF PCOf, Procs, RequestPC, BootPC, ReaperPC, JobOK, Resting,
       HasContainer, HasNoImage, Pausing, Resuming
  <1> QED BY <1>1, JobStep DEF Return, Goto

\* A process that only goes on to another call keeps its local variables.
LEMMA JobGoto ==
  ASSUME JobInv, NEW p \in Procs, NEW l \in PCOf(p),
         Goto(p, l), UNCHANGED jobVars,
         JobOK(l, target[p], cid[p], img[p])
  PROVE  JobInv'
  <1>1. /\ target' = [target EXCEPT ![p] = target[p]]
        /\ cid' = [cid EXCEPT ![p] = cid[p]]
        /\ img' = [img EXCEPT ![p] = img[p]]
    BY DEF JobInv, JobTypeOK, jobVars
  <1>2. target[p] \in Sandboxes \cup {Nil} /\ cid[p] \in Containers \cup WarmIds \cup {Nil} /\ img[p] \in Images \cup {Nil}
    BY DEF JobInv, JobTypeOK
  <1> QED BY <1>1, <1>2, JobStep DEF Goto

\* A process that reads an id from the adapter's map, or a fresh one from
\* the daemon or the pool, keeps it as its container id.
LEMMA JobCid ==
  ASSUME JobInv, NEW p \in Procs, NEW l \in PCOf(p), NEW c \in Containers \cup WarmIds,
         Goto(p, l), cid' = [cid EXCEPT ![p] = c], UNCHANGED <<target, img>>,
         JobOK(l, target[p], c, img[p])
  PROVE  JobInv'
  <1>1. target' = [target EXCEPT ![p] = target[p]] /\ img' = [img EXCEPT ![p] = img[p]]
    BY DEF JobInv, JobTypeOK
  <1>2. target[p] \in Sandboxes \cup {Nil} /\ img[p] \in Images \cup {Nil}
    BY DEF JobInv, JobTypeOK
  <1> QED BY <1>1, <1>2, JobStep DEF Goto

\* A request that begins sets its target, and nothing else unless it is a
\* create that got a warm id or a resume.
LEMMA JobBegin ==
  ASSUME JobInv, NEW p \in Requests, NEW op, NEW s \in Sandboxes, Begin(p, op, s),
         NEW l \in {"create.container", "kill.lookup", "exec.lookup", "pause.lookup"},
         Goto(p, l), UNCHANGED <<cid, img>>
  PROVE  JobInv'
  <1>1. p \in Procs /\ pc[p] = "idle" /\ target[p] = Nil /\ cid[p] = Nil /\ img[p] = Nil
    BY DEF JobInv, JobsOK, JobOK, Begin, Procs, Resting
  <1>2. l \in PCOf(p) /\ JobOK(l, s, Nil, Nil)
    BY DEF PCOf, RequestPC, JobOK, Resting, HasContainer, HasNoImage, Pausing, Resuming
  <1>3. cid' = [cid EXCEPT ![p] = Nil] /\ img' = [img EXCEPT ![p] = Nil]
    BY <1>1 DEF JobInv, JobTypeOK
  <1> QED BY <1>1, <1>2, <1>3, JobStep DEF Begin, Goto

\* The adapter's map, the table and the reaper's snapshot.
TableInv ==
    /\ row \in [Sandboxes -> Row]
    /\ queue \in [Replicas -> [Sandboxes -> Row]]
    /\ mapping \in [Replicas -> [Sandboxes -> Containers \cup WarmIds \cup {Nil}]]
    /\ PauseRecorded
    /\ SnapshotRecorded

LEMMA HomeIsReplica == ASSUME NEW p \in Procs PROVE Home(p) \in Replicas
  BY LifecycleAssumption DEF Home, Procs

\* Every step of a request keeps the processes well formed.
LEMMA JobHandler ==
  ASSUME JobInv, TableInv, warm \subseteq WarmIds, NEW p \in Requests,
         Create(p) \/ DeleteGet(p) \/ Exec(p) \/ Pause(p) \/ Resume(p)
  PROVE  JobInv'
  <1> USE DEF PCOf, Procs, RequestPC, JobOK, Resting, HasContainer, HasNoImage, Pausing, Resuming
  <1>0. /\ p \in Procs /\ p \notin Replicas /\ pc[p] \in RequestPC
        /\ JobOK(pc[p], target[p], cid[p], img[p])
        /\ target[p] \in Sandboxes \cup {Nil} /\ cid[p] \in Containers \cup WarmIds \cup {Nil}
        /\ img[p] \in Images \cup {Nil}
        /\ Home(p) \in Replicas
    BY LifecycleAssumption, HomeIsReplica DEF JobInv, JobTypeOK, JobsOK
  <1>a. /\ Nil \notin Sandboxes \cup Containers \cup Images \cup WarmIds
    BY LifecycleAssumption, DaemonAssumption
  <1>1. CASE CreateBegin(p)
    <2> PICK s \in Sandboxes \ born : CreateBegin(p)!(s)
      BY <1>1 DEF CreateBegin
    <2>1. CASE UNCHANGED <<warm, cid>> /\ Goto(p, "create.container")
      BY <2>1, JobBegin DEF CreateBegin
    <2>2. ASSUME NEW w \in warm, cid' = [cid EXCEPT ![p] = w], Goto(p, "create.register")
          PROVE  JobInv'
      <3>1. img[p] = Nil /\ img' = [img EXCEPT ![p] = Nil]
        BY <1>0 DEF Begin, JobInv, JobTypeOK
      <3>2. w \in WarmIds /\ JobOK("create.register", s, w, Nil)
        BY <1>a, <2>2
      <3>3. target' = [target EXCEPT ![p] = s]
        BY DEF Begin
      <3>4. pc' = [pc EXCEPT ![p] = "create.register"] /\ "create.register" \in PCOf(p)
        BY <1>0, <2>2 DEF Goto
      <3> HIDE DEF PCOf, Procs, RequestPC, JobOK, Resting, HasContainer, HasNoImage, Pausing, Resuming
      <3> QED BY <1>0, <2>2, <3>1, <3>2, <3>3, <3>4, JobStep
    <2> QED BY <2>1, <2>2
  <1>2. CASE CreateContainer(p)
    BY <1>a, <1>0, <1>2, JobCid, JobReturn DEF CreateContainer
  <1>3. CASE CreateStart(p)
    BY <1>0, <1>3, JobGoto, JobReturn DEF CreateStart, DockerCall
  <1>4. CASE CreateRegister(p)
    BY <1>0, <1>4, JobGoto DEF CreateRegister
  <1>5. CASE CreateSave(p)
    BY <1>0, <1>5, JobReturn DEF CreateSave
  <1>6. CASE DeleteGet(p)
    BY <1>6, JobBegin DEF DeleteGet
  <1>7. CASE ExecGet(p)
    BY <1>7, JobBegin DEF ExecGet
  <1>8. CASE ExecLookup(p)
    BY <1>a, <1>0, <1>8, JobCid, JobReturn DEF ExecLookup, ContainerFor, TableInv
  <1>9. CASE ExecRun(p)
    BY <1>0, <1>9, JobReturn DEF ExecRun
  <1>10. CASE PauseGet(p)
    BY <1>10, JobBegin DEF PauseGet
  <1>11. CASE PauseLookup(p)
    BY <1>a, <1>0, <1>11, JobCid, JobReturn DEF PauseLookup, ContainerFor, TableInv
  <1>12. CASE PauseCommit(p)
    <2>1. CASE Return(p)
      BY <1>0, <2>1, JobReturn
    <2>2. ASSUME NEW i \in Images, img' = [img EXCEPT ![p] = i], Goto(p, "pause.stop"), UNCHANGED <<target, cid>>
          PROVE  JobInv'
      <3>1. target' = [target EXCEPT ![p] = target[p]] /\ cid' = [cid EXCEPT ![p] = cid[p]]
        BY <2>2 DEF JobInv, JobTypeOK
      <3> QED BY <1>0, <1>12, <2>2, <3>1, JobStep DEF Goto, PauseCommit
    <2> QED BY <1>12, <2>1, <2>2 DEF PauseCommit
  <1>13. CASE PauseStop(p)
    BY <1>0, <1>13, JobGoto, JobReturn DEF PauseStop, DockerCall
  <1>14. CASE PauseRemove(p)
    BY <1>0, <1>14, JobGoto, JobReturn DEF PauseRemove, DockerCall
  <1>15. CASE PauseUnregister(p)
    BY <1>0, <1>15, JobGoto DEF PauseUnregister
  <1>16. CASE PauseSave(p)
    BY <1>0, <1>16, JobReturn DEF PauseSave
  <1>17. CASE ResumeGet(p)
    <2> PICK s \in Sandboxes : ResumeGet(p)!(s)
      BY <1>17 DEF ResumeGet
    <2>1. row[s].image \in Images
      BY DEF TableInv, Row, NoRow
    <2>2. cid[p] = Nil /\ cid' = [cid EXCEPT ![p] = Nil]
      BY <1>0 DEF Begin, JobInv, JobTypeOK
    <2> QED BY <1>0, <2>1, <2>2, JobStep DEF Begin, Goto
  <1>18. CASE ResumeContainer(p)
    BY <1>a, <1>0, <1>18, JobCid, JobReturn DEF ResumeContainer
  <1>19. CASE ResumeStart(p)
    BY <1>0, <1>19, JobGoto, JobReturn DEF ResumeStart, DockerCall
  <1>20. CASE ResumeRegister(p)
    BY <1>0, <1>20, JobGoto DEF ResumeRegister
  <1>21. CASE ResumeSave(p)
    BY <1>0, <1>21, JobReturn DEF ResumeSave
  <1> QED BY <1>1, <1>2, <1>3, <1>4, <1>5, <1>6, <1>7, <1>8, <1>9, <1>10, <1>11, <1>12, <1>13,
             <1>14, <1>15, <1>16, <1>17, <1>18, <1>19, <1>20, <1>21
          DEF Create, Exec, Pause, Resume

\* So does every call of KillSandbox and Store.Delete, for a request or a reaper.
LEMMA JobKill ==
  ASSUME JobInv, TableInv, NEW p \in Procs, Kill(p)
  PROVE  JobInv'
  <1> USE DEF PCOf, Procs, RequestPC, ReaperPC, JobOK, Resting, HasContainer, HasNoImage, Pausing, Resuming
  <1>0. /\ JobOK(pc[p], target[p], cid[p], img[p])
        /\ target[p] \in Sandboxes \cup {Nil} /\ cid[p] \in Containers \cup WarmIds \cup {Nil}
        /\ img[p] \in Images \cup {Nil}
        /\ Home(p) \in Replicas
    BY LifecycleAssumption, HomeIsReplica DEF JobInv, JobTypeOK, JobsOK
  <1>a. /\ Nil \notin Sandboxes \cup Containers \cup Images \cup WarmIds
    BY LifecycleAssumption, DaemonAssumption
  <1>1. CASE KillLookup(p)
    BY <1>a, <1>0, <1>1, JobCid, JobReturn DEF KillLookup, ContainerFor, TableInv
  <1>2. CASE KillUnregister(p)
    BY <1>0, <1>2, JobGoto DEF KillUnregister
  <1>3. CASE KillStop(p)
    BY <1>0, <1>3, JobGoto, JobReturn DEF KillStop, DockerCall
  <1>4. CASE KillRemove(p)
    BY <1>0, <1>4, JobGoto, JobReturn DEF KillRemove, DockerCall
  <1>5. CASE DeleteRow(p)
    BY <1>0, <1>5, JobReturn DEF DeleteRow
  <1> QED BY <1>1, <1>2, <1>3, <1>4, <1>5 DEF Kill

\* And every step of a replica's own thread.
LEMMA JobBackground ==
  ASSUME JobInv, TableInv, NEW r \in Replicas, Reconcile(r) \/ Reap(r)
  PROVE  JobInv'
  <1> USE DEF PCOf, Procs, BootPC, ReaperPC, JobOK, Resting, HasContainer, HasNoImage, Pausing, Resuming
  <1>0. /\ r \in Procs /\ r \notin Requests
        /\ JobOK(pc[r], target[r], cid[r], img[r])
        /\ target[r] \in Sandboxes \cup {Nil} /\ cid[r] \in Containers \cup WarmIds \cup {Nil}
        /\ img[r] \in Images \cup {Nil}
        /\ cid = [cid EXCEPT ![r] = cid[r]] /\ img = [img EXCEPT ![r] = img[r]]
        /\ target = [target EXCEPT ![r] = target[r]]
    BY LifecycleAssumption DEF JobInv, JobTypeOK, JobsOK
  <1>a. /\ Nil \notin Sandboxes \cup Containers \cup Images \cup WarmIds
    BY LifecycleAssumption, DaemonAssumption
  <1>1. CASE Boot(r)
    BY <1>0, <1>1, JobGoto DEF Boot
  <1>2. CASE ReconcileList(r)
    BY <1>0, <1>2, JobGoto DEF ReconcileList
  <1>3. CASE ReconcileNext(r)
    <2>1. CASE Goto(r, "rec.release") /\ UNCHANGED target
      BY <1>0, <1>3, <2>1, JobGoto DEF ReconcileNext, jobVars
    <2>2. CASE UNCHANGED <<pc, target>>
      BY <1>3, <2>2 DEF ReconcileNext, JobInv, JobTypeOK, JobsOK
    <2>3. ASSUME NEW s \in Sandboxes, Goto(r, "rec.delete"), target' = [target EXCEPT ![r] = s]
          PROVE  JobInv'
      <3>1. cid[r] = Nil /\ img[r] = Nil /\ UNCHANGED <<cid, img>>
        BY <1>0, <1>3 DEF ReconcileNext
      <3>2. "rec.delete" \in PCOf(r) /\ JobOK("rec.delete", s, Nil, Nil)
        BY <1>0
      <3>3. cid' = [cid EXCEPT ![r] = Nil] /\ img' = [img EXCEPT ![r] = Nil]
        BY <1>0, <3>1
      <3> QED BY <1>0, <2>3, <3>2, <3>3, JobStep DEF Goto
    <2> QED BY <1>3, <2>1, <2>2, <2>3 DEF ReconcileNext
  <1>4. CASE ReconcileDelete(r)
    <2>1. cid[r] = Nil /\ img[r] = Nil /\ UNCHANGED <<cid, img>>
      BY <1>0, <1>4 DEF ReconcileDelete
    <2>2. cid' = [cid EXCEPT ![r] = Nil] /\ img' = [img EXCEPT ![r] = Nil]
      BY <1>0, <2>1
    <2>3. "rec.next" \in PCOf(r) /\ JobOK("rec.next", Nil, Nil, Nil)
      BY <1>0
    <2>4. Goto(r, "rec.next") /\ target' = [target EXCEPT ![r] = Nil]
      BY <1>4 DEF ReconcileDelete
    <2> QED BY <1>0, <2>2, <2>3, <2>4, JobStep DEF Goto
  <1>5. CASE ReconcileRelease(r)
    BY <1>0, <1>5, JobGoto DEF ReconcileRelease, Release
  <1>6. CASE ReaperTick(r)
    <2>1. CASE Goto(r, "reap.list")
      BY <1>0, <1>6, <2>1, JobGoto DEF ReaperTick
    <2>2. CASE UNCHANGED pc
      BY <1>6, <2>2 DEF ReaperTick, JobInv, JobTypeOK, JobsOK, jobVars
    <2> QED BY <1>6, <2>1, <2>2 DEF ReaperTick
  <1>7. CASE ReapList(r)
    BY <1>0, <1>7, JobGoto DEF ReapList
  <1>8. CASE ReapNext(r)
    <2>1. CASE Goto(r, "reap.release") /\ UNCHANGED <<target, img>>
      BY <1>0, <1>8, <2>1, JobGoto DEF ReapNext, jobVars
    <2>2. ASSUME NEW s \in Sandboxes,
                 queue[r][s] # NoRow,
                 target' = [target EXCEPT ![r] = s],
                 img' = [img EXCEPT ![r] = queue[r][s].image],
                 Goto(r, IF queue[r][s].status = "running" THEN "kill.lookup"
                         ELSE IF queue[r][s].image = Nil THEN "row.delete" ELSE "reap.image")
          PROVE  JobInv'
      <3> DEFINE l == IF queue[r][s].status = "running" THEN "kill.lookup"
                      ELSE IF queue[r][s].image = Nil THEN "row.delete" ELSE "reap.image"
      <3>1. queue[r][s] \in Row /\ (queue[r][s].status = "paused" <=> queue[r][s].image # Nil)
        BY DEF TableInv, SnapshotRecorded
      <3>2. cid[r] = Nil /\ cid' = [cid EXCEPT ![r] = Nil]
        BY <1>0, <1>8 DEF ReapNext
      <3>3. l \in PCOf(r) /\ JobOK(l, s, Nil, queue[r][s].image) /\ queue[r][s].image \in Images \cup {Nil}
        BY <1>0, <2>2, <3>1 DEF Row, NoRow
      <3> QED BY <1>0, <2>2, <3>2, <3>3, JobStep DEF Goto
    <2> QED BY <1>8, <2>1, <2>2 DEF ReapNext
  <1>9. CASE ReapImage(r)
    BY <1>0, <1>9, JobGoto, JobReturn DEF ReapImage, DockerCall
  <1>10. CASE ReapRelease(r)
    BY <1>0, <1>10, JobGoto DEF ReapRelease, Release
  <1> QED BY <1>1, <1>2, <1>3, <1>4, <1>5, <1>6, <1>7, <1>8, <1>9, <1>10 DEF Reconcile, Reap

\* A crash leaves the replica's processes at rest.
LEMMA JobCrash == ASSUME JobInv, NEW r \in Replicas, Crash(r) PROVE JobInv'
  <1>1. JobTypeOK'
    BY LifecycleAssumption DEF Crash, JobInv, JobTypeOK, Procs, Home, RequestPC, BootPC
  <1>2. ASSUME NEW p \in Procs PROVE JobOK(pc[p], target[p], cid[p], img[p])'
    <2>1. CASE Home(p) = r
      <3>1. pc'[p] \in {"down", "idle"} /\ target'[p] = Nil /\ cid'[p] = Nil /\ img'[p] = Nil
        BY <2>1 DEF Crash
      <3> QED BY <3>1 DEF JobOK, Resting, HasContainer, HasNoImage, Pausing, Resuming
    <2>2. CASE Home(p) # r
      <3>1. p # r
        BY <2>2 DEF Home
      <3>2. pc'[p] = pc[p] /\ target'[p] = target[p] /\ cid'[p] = cid[p] /\ img'[p] = img[p]
        BY <2>2, <3>1 DEF Crash
      <3> QED BY <3>2 DEF JobInv, JobsOK, JobOK
    <2> QED BY <2>1, <2>2
  <1> QED BY <1>1, <1>2 DEF JobInv, JobsOK

-----------------------------------------------------------------------------
(* The daemon: every step of the system is at most one call to it. *)

\* What a step may do to the daemon's state.
DaemonStep ==
    \/ UNCHANGED daemonVars
    \/ \E c \in Containers : Exists(c) /\ (ContainerStart(c) \/ ContainerStop(c) \/ ContainerRemove(c))
    \/ \E p \in Procs, c \in Containers :
         \/ pc[p] = "create.container" /\ ContainerCreate(c, target[p], {})
         \/ pc[p] = "resume.container" /\ ContainerCreate(c, target[p], disk[img[p]])
    \/ \E p \in Procs, i \in Images : Exists(cid[p]) /\ ContainerCommit(cid[p], i)
    \/ \E i \in Images : image[i] = "present" /\ ImageRemove(i)
    \/ \E p \in Procs, new \in SUBSET Fresh :
         /\ pc[p] = "exec.run" /\ Exists(cid[p]) /\ ContainerWrite(cid[p], new)
         /\ acked' \in {acked, [acked EXCEPT ![target[p]] = @ \cup new]}

LEMMA HandlerDaemonStep ==
  ASSUME JobInv, NEW p \in Requests, Handler(p)
  PROVE  DaemonStep
  <1> USE DEF DaemonStep, DockerCall, Unchanged, daemonVars
  <1>0. p \in Procs
    BY DEF Procs
  <1>1. CASE CreateBegin(p) \/ CreateRegister(p) \/ CreateSave(p)
    BY <1>1 DEF CreateBegin, CreateRegister, CreateSave
  <1>2. CASE CreateContainer(p)
    BY <1>0, <1>2 DEF CreateContainer
  <1>3. CASE CreateStart(p)
    BY <1>3 DEF CreateStart, Exists
  <1>4. CASE DeleteGet(p) \/ KillLookup(p) \/ KillUnregister(p) \/ DeleteRow(p)
    BY <1>4 DEF DeleteGet, KillLookup, ContainerFor, KillUnregister, DeleteRow
  <1>5. CASE KillStop(p)
    BY <1>5 DEF KillStop, Exists
  <1>6. CASE KillRemove(p)
    BY <1>6 DEF KillRemove, Exists
  <1>7. CASE ExecGet(p) \/ ExecLookup(p)
    BY <1>7 DEF ExecGet, ExecLookup, ContainerFor
  <1>8. CASE ExecRun(p)
    BY <1>0, <1>8 DEF ExecRun
  <1>9. CASE PauseGet(p) \/ PauseLookup(p) \/ PauseUnregister(p) \/ PauseSave(p)
    BY <1>9 DEF PauseGet, PauseLookup, ContainerFor, PauseUnregister, PauseSave
  <1>10. CASE PauseCommit(p)
    BY <1>0, <1>10 DEF PauseCommit
  <1>11. CASE PauseStop(p)
    BY <1>11 DEF PauseStop, Exists
  <1>12. CASE PauseRemove(p)
    BY <1>12 DEF PauseRemove, Exists
  <1>13. CASE ResumeGet(p) \/ ResumeRegister(p) \/ ResumeSave(p)
    BY <1>13 DEF ResumeGet, ResumeRegister, ResumeSave
  <1>14. CASE ResumeContainer(p)
    BY <1>0, <1>14 DEF ResumeContainer
  <1>15. CASE ResumeStart(p)
    BY <1>15 DEF ResumeStart, Exists
  <1> QED BY <1>1, <1>2, <1>3, <1>4, <1>5, <1>6, <1>7, <1>8, <1>9, <1>10, <1>11, <1>12, <1>13, <1>14, <1>15
          DEF Handler, Create, Kill, Exec, Pause, Resume

LEMMA BackgroundDaemonStep ==
  ASSUME JobInv, NEW r \in Replicas, Background(r) \/ CleanupImage(r) \/ Crash(r), cleanup[r] \subseteq Images
  PROVE  DaemonStep
  <1> USE DEF DaemonStep, DockerCall, Unchanged, daemonVars
  <1>1. CASE Reconcile(r)
    BY <1>1 DEF Reconcile, Boot, ReconcileList, ReconcileNext, ReconcileDelete, ReconcileRelease, Release
  <1>2. CASE ReaperTick(r) \/ ReapList(r) \/ ReapNext(r) \/ ReapRelease(r)
    BY <1>2 DEF ReaperTick, ReapList, ReapNext, ReapRelease, Release
  <1>3. CASE ReapImage(r)
    <2>1. img[r] \in Images
      BY <1>3 DEF ReapImage, JobInv, JobsOK, JobOK, Procs
    <2> QED BY <1>3, <2>1 DEF ReapImage
  <1>4. CASE KillLookup(r) \/ KillUnregister(r) \/ DeleteRow(r)
    BY <1>4 DEF KillLookup, ContainerFor, KillUnregister, DeleteRow
  <1>5. CASE KillStop(r)
    BY <1>5 DEF KillStop, Exists
  <1>6. CASE KillRemove(r)
    BY <1>6 DEF KillRemove, Exists
  <1>7. CASE CleanupImage(r)
    BY <1>7 DEF CleanupImage
  <1>8. CASE Crash(r)
    BY <1>8 DEF Crash
  <1> QED BY <1>1, <1>2, <1>3, <1>4, <1>5, <1>6, <1>7, <1>8 DEF Background, Reap, Kill

LEMMA NextDaemonStep ==
  ASSUME JobInv, \A r \in Replicas : cleanup[r] \subseteq Images, [Next]_vars
  PROVE  DaemonStep
  <1>1. CASE \E p \in Requests : Handler(p)
    BY <1>1, HandlerDaemonStep
  <1>2. CASE \E r \in Replicas : Background(r) \/ CleanupImage(r) \/ Crash(r)
    BY <1>2, BackgroundDaemonStep
  <1>3. CASE \E k \in Locks : LeaseExpires(k)
    BY <1>3 DEF LeaseExpires, DaemonStep
  <1>4. CASE \E s \in Sandboxes : Expire(s)
    BY <1>4 DEF Expire, DaemonStep
  <1>5. CASE \E c \in Containers : ContainerExit(c)
    BY <1>5 DEF ContainerExit, DaemonStep, Exists
  <1>6. CASE UNCHANGED vars
    BY <1>6 DEF vars, DaemonStep
  <1> QED BY <1>1, <1>2, <1>3, <1>4, <1>5, <1>6 DEF Next

\* The daemon's state keeps its type.
LEMMA DaemonTypeStep ==
  ASSUME DaemonTypeOK, JobInv, DaemonStep
  PROVE  DaemonTypeOK'
  <1> USE DEF DaemonTypeOK, ContainerState, ImageState
  <1>1. CASE UNCHANGED daemonVars
    BY <1>1 DEF daemonVars
  <1>2. ASSUME NEW c \in Containers, ContainerStart(c) \/ ContainerStop(c) \/ ContainerRemove(c)
        PROVE  DaemonTypeOK'
    BY <1>2 DEF ContainerStart, ContainerStop, ContainerRemove
  <1>3. ASSUME NEW p \in Procs, NEW c \in Containers,
               \/ pc[p] = "create.container" /\ ContainerCreate(c, target[p], {})
               \/ pc[p] = "resume.container" /\ ContainerCreate(c, target[p], disk[img[p]])
        PROVE  DaemonTypeOK'
    <2>1. target[p] \in Sandboxes /\ (pc[p] = "resume.container" => img[p] \in Images)
      BY <1>3 DEF JobInv, JobsOK, JobOK, Resting, Resuming
    <2> QED BY <1>3, <2>1 DEF ContainerCreate
  <1>4. ASSUME NEW p \in Procs, NEW i \in Images, Exists(cid[p]), ContainerCommit(cid[p], i)
        PROVE  DaemonTypeOK'
    BY <1>4 DEF ContainerCommit, Exists
  <1>5. ASSUME NEW i \in Images, ImageRemove(i) PROVE DaemonTypeOK'
    BY <1>5 DEF ImageRemove
  <1>6. ASSUME NEW p \in Procs, NEW new \in SUBSET Fresh, Exists(cid[p]), ContainerWrite(cid[p], new)
        PROVE  DaemonTypeOK'
    BY <1>6 DEF ContainerWrite, Exists, Fresh
  <1> QED BY <1>1, <1>2, <1>3, <1>4, <1>5, <1>6 DEF DaemonStep

-----------------------------------------------------------------------------
(* The table, the adapter's maps, the snapshots and the detached goroutines. *)

RowStep ==
    \/ row' = row
    \/ \E p \in Procs : target[p] \in Sandboxes /\
         \/ pc[p] \in {"create.save", "resume.save"} /\ row' = [row EXCEPT ![target[p]] = RunningRow]
         \/ pc[p] = "pause.save" /\ ~(pc'[p] \in Pausing) /\ row' = [row EXCEPT ![target[p]] = PausedRow(img[p])]
         \/ pc[p] \in {"row.delete", "rec.delete"} /\ row' = [row EXCEPT ![target[p]] = NoRow]
    \/ \E s \in Sandboxes : row[s] # NoRow /\ row' = [row EXCEPT ![s] = PastExpiry(row[s])]

MappingStep ==
    \/ mapping' = mapping
    \/ \E p \in Procs : target[p] \in Sandboxes /\
         \/ pc[p] \in {"create.register", "resume.register"} /\ SetMapping(p, cid[p])
         \/ SetMapping(p, Nil)
    \/ \E r \in Replicas : mapping' = [mapping EXCEPT ![r] = [s \in Sandboxes |-> Nil]]

QueueStep ==
    \/ queue' = queue
    \/ \E r \in Replicas : \E f \in [Sandboxes -> Row] :
         /\ queue' = [queue EXCEPT ![r] = f]
         /\ \A s \in Sandboxes : f[s] \in {row[s], NoRow}
    \/ \E r \in Replicas, s \in Sandboxes : queue' = [queue EXCEPT ![r][s] = NoRow]

CleanupStep ==
    \/ cleanup' = cleanup
    \/ \E r \in Replicas, i \in Images : cleanup' = [cleanup EXCEPT ![r] = @ \ {i}]
    \/ \E r \in Replicas : cleanup' = [cleanup EXCEPT ![r] = {}]
    \/ \E p \in Procs :
         /\ pc[p] = "resume.save"
         /\ cleanup' = [cleanup EXCEPT ![Home(p)] = @ \cup {img[p]}]
         /\ row' = [row EXCEPT ![target[p]] = RunningRow]

TableStep == RowStep /\ MappingStep /\ QueueStep /\ CleanupStep

LEMMA HandlerTableStep ==
  ASSUME JobInv, NEW p \in Procs, Handler(p)
  PROVE  TableStep
  <1> USE DEF TableStep, RowStep, MappingStep, QueueStep, CleanupStep, ContainerFor, DockerCall
  <1>0. pc[p] \notin Resting => target[p] \in Sandboxes
    BY DEF JobInv, JobsOK, JobOK
  <1>1. CASE CreateBegin(p) \/ CreateContainer(p) \/ CreateStart(p)
    BY <1>1 DEF CreateBegin, CreateContainer, CreateStart
  <1>2. CASE CreateRegister(p)
    BY <1>0, <1>2 DEF CreateRegister, Resting
  <1>3. CASE CreateSave(p)
    BY <1>0, <1>3 DEF CreateSave, RowCall, Resting
  <1>4. CASE DeleteGet(p) \/ KillLookup(p) \/ KillStop(p) \/ KillRemove(p)
    BY <1>4 DEF DeleteGet, KillLookup, KillStop, KillRemove
  <1>5. CASE KillUnregister(p)
    BY <1>0, <1>5 DEF KillUnregister, Resting
  <1>6. CASE DeleteRow(p)
    BY <1>0, <1>6 DEF DeleteRow, RowCall, Resting
  <1>7. CASE Exec(p)
    BY <1>7 DEF Exec, ExecGet, ExecLookup, ExecRun
  <1>8. CASE PauseGet(p) \/ PauseLookup(p) \/ PauseCommit(p) \/ PauseStop(p) \/ PauseRemove(p)
    BY <1>8 DEF PauseGet, PauseLookup, PauseCommit, PauseStop, PauseRemove
  <1>9. CASE PauseUnregister(p)
    BY <1>0, <1>9 DEF PauseUnregister, Resting
  <1>10. CASE PauseSave(p)
    <2>1. pc'[p] \notin Pausing
      BY <1>10 DEF PauseSave, Return, Goto, Pausing, JobInv, JobTypeOK
    <2> QED BY <1>0, <1>10, <2>1 DEF PauseSave, RowCall, Resting
  <1>11. CASE ResumeGet(p) \/ ResumeContainer(p) \/ ResumeStart(p)
    BY <1>11 DEF ResumeGet, ResumeContainer, ResumeStart
  <1>12. CASE ResumeRegister(p)
    BY <1>0, <1>12 DEF ResumeRegister, Resting
  <1>13. CASE ResumeSave(p)
    BY <1>0, <1>13 DEF ResumeSave, RowCall, NoFault, Fault, Resting
  <1> QED BY <1>1, <1>2, <1>3, <1>4, <1>5, <1>6, <1>7, <1>8, <1>9, <1>10, <1>11, <1>12, <1>13
          DEF Handler, Create, Kill, Pause, Resume

LEMMA BackgroundTableStep ==
  ASSUME JobInv, TableInv, NEW r \in Replicas, Background(r) \/ CleanupImage(r) \/ Crash(r),
         cleanup[r] \subseteq Images
  PROVE  TableStep
  <1> USE DEF TableStep, RowStep, MappingStep, QueueStep, CleanupStep, DockerCall
  <1>0. r \in Procs /\ (pc[r] \notin Resting => target[r] \in Sandboxes)
    BY DEF JobInv, JobsOK, JobOK, Procs
  <1>1. CASE Kill(r)
    BY <1>0, <1>1, HandlerTableStep DEF Handler
  <1>2. CASE ReconcileList(r)
    <2> DEFINE f == [s \in Sandboxes |-> IF row[s].status = "running" THEN row[s] ELSE NoRow]
    <2>1. f \in [Sandboxes -> Row] /\ \A s \in Sandboxes : f[s] \in {row[s], NoRow}
      BY DEF TableInv, Row, NoRow
    <2>2. queue' = [queue EXCEPT ![r] = f] \/ queue' = queue
      BY <1>2 DEF ReconcileList
    <2> HIDE DEF f
    <2> QED BY <1>2, <2>1, <2>2 DEF ReconcileList
  <1>3. CASE ReapList(r)
    <2> DEFINE f == [s \in Sandboxes |-> IF row[s].expired THEN row[s] ELSE NoRow]
    <2>1. f \in [Sandboxes -> Row] /\ \A s \in Sandboxes : f[s] \in {row[s], NoRow}
      BY DEF TableInv, Row, NoRow
    <2>2. queue' = [queue EXCEPT ![r] = f] \/ queue' = queue
      BY <1>3 DEF ReapList
    <2> HIDE DEF f
    <2> QED BY <1>3, <2>1, <2>2 DEF ReapList
  <1>4. CASE ReconcileNext(r) \/ ReapNext(r)
    BY <1>4 DEF ReconcileNext, ReapNext
  <1>5. CASE ReconcileDelete(r)
    BY <1>0, <1>5 DEF ReconcileDelete, RowCall, Resting
  <1>6. CASE Boot(r) \/ ReconcileRelease(r) \/ ReaperTick(r) \/ ReapRelease(r) \/ ReapImage(r)
    BY <1>6 DEF Boot, ReconcileRelease, ReaperTick, ReapRelease, Release, ReapImage
  <1>7. CASE CleanupImage(r)
    BY <1>7 DEF CleanupImage
  <1>8. CASE Crash(r)
    <2> DEFINE f == [s \in Sandboxes |-> NoRow]
    <2>1. f \in [Sandboxes -> Row] /\ \A s \in Sandboxes : f[s] \in {row[s], NoRow}
      BY DEF Row, NoRow
    <2>2. queue' = [queue EXCEPT ![r] = f]
      BY <1>8 DEF Crash
    <2> HIDE DEF f
    <2> QED BY <1>8, <2>1, <2>2 DEF Crash
  <1> QED BY <1>1, <1>2, <1>3, <1>4, <1>5, <1>6, <1>7, <1>8 DEF Background, Reconcile, Reap

LEMMA NextTableStep ==
  ASSUME JobInv, TableInv, \A r \in Replicas : cleanup[r] \subseteq Images, [Next]_vars
  PROVE  TableStep
  <1>1. CASE \E p \in Requests : Handler(p)
    BY <1>1, HandlerTableStep DEF Procs
  <1>2. CASE \E r \in Replicas : Background(r) \/ CleanupImage(r) \/ Crash(r)
    BY <1>2, BackgroundTableStep
  <1> USE DEF TableStep, RowStep, MappingStep, QueueStep, CleanupStep
  <1>3. CASE \E k \in Locks : LeaseExpires(k)
    BY <1>3 DEF LeaseExpires
  <1>4. CASE \E s \in Sandboxes : Expire(s)
    BY <1>4 DEF Expire
  <1>5. CASE \E c \in Containers : ContainerExit(c)
    BY <1>5 DEF ContainerExit, lifeVars
  <1>6. CASE UNCHANGED vars
    BY <1>6 DEF vars, lifeVars
  <1> QED BY <1>1, <1>2, <1>3, <1>4, <1>5, <1>6 DEF Next

\* The table's invariants follow from the shape of its steps.
LEMMA TableInvStep ==
  ASSUME JobInv, TableInv, TableStep
  PROVE  TableInv'
  <1>0. /\ RunningRow \in Row /\ RunningRow.status # "paused" /\ RunningRow.image = Nil
        /\ NoRow \in Row /\ NoRow.status # "paused" /\ NoRow.image = Nil
        /\ \A i \in Images : PausedRow(i) \in Row /\ PausedRow(i).status = "paused" /\ PausedRow(i).image = i
    BY DEF Row, NoRow, RunningRow, PausedRow
  <1> USE DEF TableStep, TableInv, Row, NoRow, RunningRow, PausedRow, PastExpiry
  <1>1. row' \in [Sandboxes -> Row] /\ PauseRecorded'
    <2>1. ASSUME NEW p \in Procs, target[p] \in Sandboxes, NEW new \in Row,
                 row' = [row EXCEPT ![target[p]] = new], new.status = "paused" <=> new.image # Nil
          PROVE  row' \in [Sandboxes -> Row] /\ PauseRecorded'
      BY <2>1 DEF PauseRecorded
    <2>2. ASSUME NEW s \in Sandboxes, row[s] # NoRow, row' = [row EXCEPT ![s] = PastExpiry(row[s])]
          PROVE  row' \in [Sandboxes -> Row] /\ PauseRecorded'
      BY <2>2 DEF PauseRecorded
    <2>3. ASSUME NEW p \in Procs, pc[p] = "pause.save" PROVE img[p] \in Images /\ img[p] # Nil
      BY <2>3, DaemonAssumption DEF JobInv, JobsOK, JobOK, Pausing
    <2>4. CASE row' = row
      BY <2>4 DEF PauseRecorded
    <2>5. ASSUME NEW p \in Procs, target[p] \in Sandboxes,
                 NEW new \in {RunningRow, PausedRow(img[p]), NoRow}, row' = [row EXCEPT ![target[p]] = new],
                 new = PausedRow(img[p]) => pc[p] = "pause.save"
          PROVE  row' \in [Sandboxes -> Row] /\ PauseRecorded'
      <3>1. new \in Row /\ (new.status = "paused" <=> new.image # Nil)
        <4> HIDE DEF Row, NoRow, RunningRow, PausedRow
        <4> QED BY <1>0, <2>3, <2>5
      <3> QED BY <2>1, <2>5, <3>1
    <2>6. \/ row' = row
          \/ \E p \in Procs : target[p] \in Sandboxes /\
               \E new \in {RunningRow, PausedRow(img[p]), NoRow} :
                   /\ row' = [row EXCEPT ![target[p]] = new]
                   /\ new = PausedRow(img[p]) => pc[p] = "pause.save"
          \/ \E s \in Sandboxes : row[s] # NoRow /\ row' = [row EXCEPT ![s] = PastExpiry(row[s])]
      BY DEF RowStep
    <2> QED BY <2>2, <2>4, <2>5, <2>6
  <1>2. mapping' \in [Replicas -> [Sandboxes -> Containers \cup WarmIds \cup {Nil}]]
    <2>1. \A p \in Procs : cid[p] \in Containers \cup WarmIds \cup {Nil}
      BY DEF JobInv, JobTypeOK
    <2>2. ASSUME NEW p \in Procs, target[p] \in Sandboxes, NEW c \in {cid[p], Nil}, SetMapping(p, c)
          PROVE  mapping' \in [Replicas -> [Sandboxes -> Containers \cup WarmIds \cup {Nil}]]
      BY <2>1, <2>2, HomeIsReplica DEF SetMapping
    <2>3. ASSUME NEW r \in Replicas, mapping' = [mapping EXCEPT ![r] = [s \in Sandboxes |-> Nil]]
          PROVE  mapping' \in [Replicas -> [Sandboxes -> Containers \cup WarmIds \cup {Nil}]]
      BY <2>3
    <2> QED BY <2>2, <2>3 DEF MappingStep
  <1>3. queue' \in [Replicas -> [Sandboxes -> Row]] /\ SnapshotRecorded'
    <2>1. ASSUME NEW r \in Replicas, NEW f \in [Sandboxes -> Row],
                 queue' = [queue EXCEPT ![r] = f], \A s \in Sandboxes : f[s] \in {row[s], NoRow}
          PROVE  queue' \in [Replicas -> [Sandboxes -> Row]] /\ SnapshotRecorded'
      BY <2>1 DEF SnapshotRecorded, PauseRecorded
    <2>2. ASSUME NEW r \in Replicas, NEW s \in Sandboxes, queue' = [queue EXCEPT ![r][s] = NoRow]
          PROVE  queue' \in [Replicas -> [Sandboxes -> Row]] /\ SnapshotRecorded'
      BY <2>2 DEF SnapshotRecorded
    <2> QED BY <2>1, <2>2 DEF QueueStep, SnapshotRecorded
  <1> QED BY <1>1, <1>2, <1>3

\* The image a goroutine will remove is one a resume had as its pause reference.
LEMMA CleanupTypeStep ==
  ASSUME JobInv, CleanupStep, cleanup \in [Replicas -> SUBSET Images]
  PROVE  cleanup' \in [Replicas -> SUBSET Images]
  <1>1. ASSUME NEW p \in Procs, pc[p] = "resume.save",
               cleanup' = [cleanup EXCEPT ![Home(p)] = @ \cup {img[p]}]
        PROVE  cleanup' \in [Replicas -> SUBSET Images]
    <2>1. img[p] \in Images /\ Home(p) \in Replicas
      BY <1>1, HomeIsReplica DEF JobInv, JobsOK, JobOK, Resuming
    <2> QED BY <1>1, <2>1
  <1> QED BY <1>1 DEF CleanupStep

-----------------------------------------------------------------------------
(* Locks, ghosts and bounds. *)

RestTypeOK ==
    /\ lock \in [Locks -> Replicas \cup {Nil, "stale"}]
    /\ born \subseteq Sandboxes
    /\ warm \subseteq WarmIds
    /\ acked \in [Sandboxes -> SUBSET Writes]
    /\ faults \in 0..MaxFaults
    /\ crashes \in 0..MaxCrashes

LEMMA RestHandler ==
  ASSUME JobInv, RestTypeOK, NEW p \in Procs, Handler(p)
  PROVE  RestTypeOK'
  <1> USE LifecycleAssumption DEF RestTypeOK, NoFault, Fault, RowCall, DockerCall, ContainerFor
  <1>1. CASE Create(p)
    BY <1>1 DEF Create, CreateBegin, CreateContainer, CreateStart, CreateRegister, CreateSave
  <1>2. CASE DeleteGet(p) \/ Kill(p)
    BY <1>2 DEF DeleteGet, Kill, KillLookup, KillUnregister, KillStop, KillRemove, DeleteRow
  <1>3. CASE ExecGet(p) \/ ExecLookup(p)
    BY <1>3 DEF ExecGet, ExecLookup
  <1>4. CASE ExecRun(p)
    BY <1>4 DEF ExecRun, Fresh
  <1>5. CASE Pause(p)
    BY <1>5 DEF Pause, PauseGet, PauseLookup, PauseCommit, PauseStop, PauseRemove, PauseUnregister, PauseSave
  <1>6. CASE Resume(p)
    BY <1>6 DEF Resume, ResumeGet, ResumeContainer, ResumeStart, ResumeRegister, ResumeSave
  <1> QED BY <1>1, <1>2, <1>3, <1>4, <1>5, <1>6 DEF Handler, Exec

LEMMA RestNext ==
  ASSUME JobInv, RestTypeOK, [Next]_vars
  PROVE  RestTypeOK'
  <1> USE LifecycleAssumption
  <1>1. ASSUME NEW p \in Requests, Handler(p) PROVE RestTypeOK'
    BY <1>1, RestHandler DEF Procs
  <1>2. ASSUME NEW r \in Replicas, Kill(r) PROVE RestTypeOK'
    BY <1>2, RestHandler DEF Procs, Handler
  <1>3. ASSUME NEW r \in Replicas, Reconcile(r) PROVE RestTypeOK'
    BY <1>3 DEF RestTypeOK, NoFault, Fault, RowCall, Reconcile, Boot, ReconcileList, ReconcileNext,
         ReconcileDelete, ReconcileRelease, Release, TryAcquire, Locks
  <1>4. ASSUME NEW r \in Replicas, Reap(r) PROVE RestTypeOK'
    BY <1>4 DEF RestTypeOK, NoFault, Fault, DockerCall, Reap, ReaperTick, ReapList, ReapNext,
         ReapImage, ReapRelease, Release, TryAcquire, Locks
  <1>5. ASSUME NEW r \in Replicas, CleanupImage(r) \/ Crash(r) PROVE RestTypeOK'
    BY <1>5 DEF RestTypeOK, NoFault, Fault, CleanupImage, Crash
  <1>6. ASSUME NEW k \in Locks, LeaseExpires(k) PROVE RestTypeOK'
    BY <1>6 DEF RestTypeOK, LeaseExpires
  <1>7. ASSUME NEW s \in Sandboxes, Expire(s) PROVE RestTypeOK'
    BY <1>7 DEF RestTypeOK, Expire
  <1>8. ASSUME NEW c \in Containers, ContainerExit(c) PROVE RestTypeOK'
    BY <1>8 DEF RestTypeOK, ContainerExit, Fault, lifeVars
  <1>9. CASE UNCHANGED vars
    BY <1>9 DEF RestTypeOK, vars, lifeVars
  <1> QED BY <1>1, <1>2, <1>3, <1>4, <1>5, <1>6, <1>7, <1>8, <1>9 DEF Next, Background

-----------------------------------------------------------------------------
(* Type correctness. *)

\* TypeInv is the conjunction of the parts treated above.
LEMMA TypeParts ==
  TypeInv <=> JobInv /\ DaemonTypeOK /\ TableInv /\ RestTypeOK /\ cleanup \in [Replicas -> SUBSET Images]
  BY DEF TypeInv, TypeOK, JobInv, JobTypeOK, TableInv, RestTypeOK

LEMMA TypeInit == Init => TypeInv
  <1> SUFFICES ASSUME Init PROVE TypeInv
    OBVIOUS
  <1> USE DEF Init
  <1>1. JobInv
    BY LifecycleAssumption DEF JobInv, JobTypeOK, JobsOK, JobOK, Procs, RequestPC, BootPC, ReaperPC,
       Resting, Resuming, Pausing, HasContainer, HasNoImage
  <1>2. DaemonTypeOK
    BY DEF DaemonInit, DaemonTypeOK, ContainerState, ImageState
  <1>3. TableInv
    BY DEF TableInv, Row, NoRow, PauseRecorded, SnapshotRecorded
  <1>4. RestTypeOK /\ cleanup \in [Replicas -> SUBSET Images]
    BY LifecycleAssumption DEF RestTypeOK
  <1> QED BY <1>1, <1>2, <1>3, <1>4, TypeParts

LEMMA JobNext == ASSUME TypeInv, [Next]_vars PROVE JobInv'
  <1>0. JobInv /\ TableInv /\ warm \subseteq WarmIds
    BY TypeParts DEF RestTypeOK
  <1>1. ASSUME NEW p \in Requests, Handler(p) PROVE JobInv'
    BY <1>0, <1>1, JobHandler, JobKill DEF Handler, Procs
  <1>2. ASSUME NEW r \in Replicas, Background(r) \/ Crash(r) PROVE JobInv'
    BY <1>0, <1>2, JobBackground, JobKill, JobCrash DEF Background, Procs
  <1>3. CASE UNCHANGED <<pc, jobVars>>
    BY <1>0, <1>3 DEF JobInv, JobTypeOK, JobsOK, jobVars
  <1>4. ASSUME NEW r \in Replicas, CleanupImage(r) PROVE UNCHANGED <<pc, jobVars>>
    BY <1>4 DEF CleanupImage
  <1>5. ASSUME NEW k \in Locks, LeaseExpires(k) PROVE UNCHANGED <<pc, jobVars>>
    BY <1>5 DEF LeaseExpires
  <1>6. ASSUME NEW s \in Sandboxes, Expire(s) PROVE UNCHANGED <<pc, jobVars>>
    BY <1>6 DEF Expire
  <1>7. ASSUME NEW c \in Containers, ContainerExit(c) PROVE UNCHANGED <<pc, jobVars>>
    BY <1>7 DEF ContainerExit, lifeVars
  <1>8. UNCHANGED vars => UNCHANGED <<pc, jobVars>>
    BY DEF vars, lifeVars
  <1> QED BY <1>1, <1>2, <1>3, <1>4, <1>5, <1>6, <1>7, <1>8 DEF Next

LEMMA TypeNext == TypeInv /\ [Next]_vars => TypeInv'
  <1> SUFFICES ASSUME TypeInv, [Next]_vars PROVE TypeInv'
    OBVIOUS
  <1>1. JobInv /\ DaemonTypeOK /\ TableInv /\ RestTypeOK /\ cleanup \in [Replicas -> SUBSET Images]
    BY TypeParts
  <1>2. DaemonStep /\ TableStep
    BY <1>1, NextDaemonStep, NextTableStep
  <1>3. JobInv'
    BY JobNext
  <1>4. DaemonTypeOK'
    BY <1>1, <1>2, DaemonTypeStep
  <1>5. TableInv' /\ cleanup' \in [Replicas -> SUBSET Images]
    BY <1>1, <1>2, TableInvStep, CleanupTypeStep DEF TableStep
  <1>6. RestTypeOK'
    BY <1>1, RestNext
  <1> QED BY <1>3, <1>4, <1>5, <1>6, TypeParts DEF TypeInv, TypeOK, JobInv, JobTypeOK, TableInv, RestTypeOK

\* Every variable keeps its type, and every process its well-formed locals,
\* in every behaviour of the system.
THEOREM TypeCorrect == Spec => []TypeInv
  BY TypeInit, TypeNext, PTL DEF Spec

\* In particular TypeOK, the type invariant the runs check.
THEOREM Typing == Spec => []TypeOK
  BY TypeCorrect, PTL DEF TypeInv

\* A record says "paused" exactly when it names a pause reference, so
\* ResumeSandbox never meets the state it calls inconsistent.
THEOREM PauseIsRecorded == Spec => []PauseRecorded
  BY TypeCorrect, PTL DEF TypeInv

-----------------------------------------------------------------------------
(* Ownership. *)

\* An id the daemon has given out stays with the sandbox it was made for.
LEMMA DaemonKeeps ==
  ASSUME DaemonTypeOK, DaemonStep
  PROVE  /\ \A c \in Containers : container[c] # "free" =>
               container'[c] # "free" /\ madeFor'[c] = madeFor[c]
         /\ \A i \in Images : image[i] # "free" =>
               image'[i] # "free" /\ madeFor'[i] = madeFor[i]
  <1> USE DaemonAssumption DEF DaemonTypeOK, DaemonStep, ContainerStart, ContainerStop, ContainerRemove,
          ContainerCreate, ContainerCommit, ImageRemove, ContainerWrite, daemonVars
  <1>1. ASSUME NEW c \in Containers, container[c] # "free"
        PROVE  container'[c] # "free" /\ madeFor'[c] = madeFor[c]
    BY <1>1
  <1>2. ASSUME NEW i \in Images, image[i] # "free"
        PROVE  image'[i] # "free" /\ madeFor'[i] = madeFor[i]
    BY <1>2
  <1> QED BY <1>1, <1>2

\* Where the ids in a process's local variables come from.
MoveStep ==
    \A p \in Procs :
        /\ \/ cid'[p] \in WarmIds \cup {Nil}
           \/ /\ target'[p] = target[p]
              /\ \/ cid'[p] = cid[p]
                 \/ target[p] \in Sandboxes /\ cid'[p] = mapping[Home(p)][target[p]]
                 \/ \E data \in SUBSET Writes : cid'[p] \in Containers /\ ContainerCreate(cid'[p], target[p], data)
        /\ \/ img'[p] = Nil
           \/ target'[p] = target[p] /\ img'[p] = img[p]
           \/ target'[p] \in Sandboxes /\ img'[p] = row[target'[p]].image
           \/ p \in Replicas /\ target'[p] \in Sandboxes /\ img'[p] = queue[p][target'[p]].image
           \/ /\ target'[p] = target[p] /\ cid'[p] = cid[p] /\ Exists(cid[p])
              /\ img'[p] \in Images /\ ContainerCommit(cid[p], img'[p])

\* A process whose locals do not move, or are reset.
LEMMA MoveSimple ==
  ASSUME JobInv, NEW p \in Procs, UNCHANGED jobVars \/ Return(p)
  PROVE  MoveStep
  BY DEF MoveStep, jobVars, Return, JobInv, JobTypeOK

\* containerFor puts the mapped id into the local variable.
LEMMA MoveLookup ==
  ASSUME JobInv, NEW p \in Procs, NEW l, ContainerFor(p, l), pc[p] \notin Resting
  PROVE  MoveStep
  <1>1. target[p] \in Sandboxes
    BY DEF JobInv, JobsOK, JobOK
  <1>2. CASE Return(p)
    BY <1>2, MoveSimple
  <1>3. CASE cid' = [cid EXCEPT ![p] = mapping[Home(p)][target[p]]] /\ UNCHANGED <<target, img>>
    BY <1>1, <1>3 DEF MoveStep, JobInv, JobTypeOK
  <1> QED BY <1>2, <1>3 DEF ContainerFor

\* A request at rest begins on some sandbox.
LEMMA MoveBegin ==
  ASSUME JobInv, NEW p \in Requests, NEW op, NEW s \in Sandboxes, Begin(p, op, s),
         \/ UNCHANGED <<cid, img>>
         \/ UNCHANGED img /\ \E w \in WarmIds : cid' = [cid EXCEPT ![p] = w]
         \/ UNCHANGED cid /\ img' = [img EXCEPT ![p] = row[s].image]
  PROVE  MoveStep
  <1>1. p \in Procs /\ cid[p] = Nil /\ img[p] = Nil
    BY DEF JobInv, JobsOK, JobOK, Begin, Procs, Resting
  <1>2. \A q \in Procs \ {p} : target'[q] = target[q] /\ cid'[q] = cid[q] /\ img'[q] = img[q]
    BY <1>1 DEF JobInv, JobTypeOK, Begin
  <1>3. target'[p] = s /\ (cid'[p] = Nil \/ cid'[p] \in WarmIds) /\ (img'[p] = Nil \/ img'[p] = row[s].image)
    BY <1>1 DEF JobInv, JobTypeOK, Begin
  <1> QED BY <1>2, <1>3 DEF MoveStep

LEMMA MoveHandler ==
  ASSUME TypeInv, NEW p \in Procs,
         (p \in Requests /\ Handler(p)) \/ Kill(p)
  PROVE  MoveStep
  <1> USE DEF DockerCall, Resting
  <1>0. JobInv /\ warm \subseteq WarmIds
    BY TypeParts DEF RestTypeOK
  <1>1. CASE p \in Requests /\ CreateBegin(p)
    BY <1>0, <1>1, MoveBegin DEF CreateBegin
  <1>2. CASE CreateContainer(p)
    <2>1. CASE Return(p)
      BY <1>0, <2>1, MoveSimple
    <2>2. ASSUME NEW c \in Containers, ContainerCreate(c, target[p], {}), cid' = [cid EXCEPT ![p] = c],
                 UNCHANGED <<target, img>>
          PROVE  MoveStep
      BY <1>0, <2>2 DEF MoveStep, JobInv, JobTypeOK
    <2> QED BY <1>2, <2>1, <2>2 DEF CreateContainer
  <1>3. CASE CreateStart(p) \/ CreateRegister(p) \/ CreateSave(p)
    BY <1>0, <1>3, MoveSimple DEF CreateStart, CreateRegister, CreateSave
  <1>4. CASE p \in Requests /\ (DeleteGet(p) \/ ExecGet(p) \/ PauseGet(p))
    BY <1>0, <1>4, MoveBegin DEF DeleteGet, ExecGet, PauseGet
  <1>5. CASE KillLookup(p) \/ ExecLookup(p) \/ PauseLookup(p)
    BY <1>0, <1>5, MoveLookup DEF KillLookup, ExecLookup, PauseLookup
  <1>6. CASE KillUnregister(p) \/ KillStop(p) \/ KillRemove(p) \/ DeleteRow(p)
    BY <1>0, <1>6, MoveSimple DEF KillUnregister, KillStop, KillRemove, DeleteRow
  <1>7. CASE ExecRun(p)
    BY <1>0, <1>7, MoveSimple DEF ExecRun
  <1>8. CASE PauseCommit(p)
    <2>1. CASE Return(p)
      BY <1>0, <2>1, MoveSimple
    <2>2. ASSUME NEW i \in Images, Exists(cid[p]), ContainerCommit(cid[p], i), img' = [img EXCEPT ![p] = i],
                 UNCHANGED <<target, cid>>
          PROVE  MoveStep
      BY <1>0, <2>2 DEF MoveStep, JobInv, JobTypeOK
    <2> QED BY <1>8, <2>1, <2>2 DEF PauseCommit
  <1>9. CASE PauseStop(p) \/ PauseRemove(p) \/ PauseUnregister(p) \/ PauseSave(p)
    BY <1>0, <1>9, MoveSimple DEF PauseStop, PauseRemove, PauseUnregister, PauseSave
  <1>10. CASE p \in Requests /\ ResumeGet(p)
    BY <1>0, <1>10, MoveBegin DEF ResumeGet
  <1>11. CASE ResumeContainer(p)
    <2>1. CASE Return(p)
      BY <1>0, <2>1, MoveSimple
    <2>2. ASSUME NEW c \in Containers, ContainerCreate(c, target[p], disk[img[p]]),
                 cid' = [cid EXCEPT ![p] = c], UNCHANGED <<target, img>>
          PROVE  MoveStep
      <3>1. disk[img[p]] \in SUBSET Writes
        BY <1>0, <1>11 DEF ResumeContainer, JobInv, JobsOK, JobOK, Resuming, TypeInv, TypeOK, DaemonTypeOK
      <3> QED BY <1>0, <2>2, <3>1 DEF MoveStep, JobInv, JobTypeOK
    <2> QED BY <1>11, <2>1, <2>2 DEF ResumeContainer
  <1>12. CASE ResumeStart(p) \/ ResumeRegister(p) \/ ResumeSave(p)
    BY <1>0, <1>12, MoveSimple DEF ResumeStart, ResumeRegister, ResumeSave
  <1> QED BY <1>1, <1>2, <1>3, <1>4, <1>5, <1>6, <1>7, <1>8, <1>9, <1>10, <1>11, <1>12
          DEF Handler, Create, Kill, Exec, Pause, Resume

LEMMA MoveBackground ==
  ASSUME TypeInv, NEW r \in Replicas, Reconcile(r) \/ Reap(r) \/ CleanupImage(r) \/ Crash(r)
  PROVE  MoveStep
  <1> USE DEF DockerCall
  <1>0. JobInv /\ r \in Procs
    BY TypeParts DEF Procs
  <1>1. CASE Boot(r) \/ ReconcileList(r) \/ ReconcileRelease(r) \/ CleanupImage(r)
    BY <1>0, <1>1, MoveSimple DEF Boot, ReconcileList, ReconcileRelease, Release, CleanupImage, jobVars
  <1>2. CASE ReconcileNext(r) \/ ReconcileDelete(r)
    <2>1. cid[r] = Nil /\ img[r] = Nil
      BY <1>0, <1>2 DEF ReconcileNext, ReconcileDelete, JobInv, JobsOK, JobOK, Resting
    <2>2. UNCHANGED <<cid, img>> /\ \A q \in Procs \ {r} : target'[q] = target[q]
      BY <1>0, <1>2 DEF ReconcileNext, ReconcileDelete, JobInv, JobTypeOK
    <2> QED BY <2>1, <2>2 DEF MoveStep
  <1>3. CASE ReaperTick(r) \/ ReapList(r) \/ ReapImage(r) \/ ReapRelease(r)
    BY <1>0, <1>3, MoveSimple DEF ReaperTick, ReapList, ReapImage, ReapRelease, Release, jobVars
  <1>4. CASE ReapNext(r)
    <2>1. CASE UNCHANGED jobVars
      BY <1>0, <2>1, MoveSimple
    <2>2. ASSUME NEW s \in Sandboxes, target' = [target EXCEPT ![r] = s],
                 img' = [img EXCEPT ![r] = queue[r][s].image], UNCHANGED cid
          PROVE  MoveStep
      <3>1. cid[r] = Nil
        BY <1>0, <1>4 DEF ReapNext, JobInv, JobsOK, JobOK, Resting
      <3> QED BY <1>0, <2>2, <3>1 DEF MoveStep, JobInv, JobTypeOK
    <2> QED BY <1>4, <2>1, <2>2 DEF ReapNext, jobVars
  <1>5. CASE Crash(r)
    BY <1>5 DEF Crash, MoveStep
  <1> QED BY <1>1, <1>2, <1>3, <1>4, <1>5 DEF Reconcile, Reap

LEMMA NextMoveStep == ASSUME TypeInv, [Next]_vars PROVE MoveStep
  <1>1. ASSUME NEW p \in Requests, Handler(p) PROVE MoveStep
    BY <1>1, MoveHandler DEF Procs
  <1>2. ASSUME NEW r \in Replicas, Background(r) \/ CleanupImage(r) \/ Crash(r) PROVE MoveStep
    BY <1>2, MoveHandler, MoveBackground DEF Background, Procs
  <1>3. CASE UNCHANGED jobVars
    BY <1>3 DEF MoveStep, jobVars
  <1>4. ASSUME NEW k \in Locks, LeaseExpires(k) PROVE UNCHANGED jobVars
    BY <1>4 DEF LeaseExpires
  <1>5. ASSUME NEW s \in Sandboxes, Expire(s) PROVE UNCHANGED jobVars
    BY <1>5 DEF Expire
  <1>6. ASSUME NEW c \in Containers, ContainerExit(c) PROVE UNCHANGED jobVars
    BY <1>6 DEF ContainerExit, lifeVars
  <1> QED BY <1>1, <1>2, <1>3, <1>4, <1>5, <1>6 DEF Next, vars, lifeVars

\* Where the ids in the tables come from.
LEMMA TableSource ==
  ASSUME JobInv, TableInv, TableStep, cleanup \in [Replicas -> SUBSET Images]
  PROVE  /\ \A s \in Sandboxes : row'[s].image \in {row[s].image, Nil} \/
               \E p \in Procs : target[p] = s /\ pc[p] = "pause.save" /\ pc'[p] \notin Pausing /\ row'[s].image = img[p]
         /\ \A r \in Replicas, s \in Sandboxes : mapping'[r][s] \in {mapping[r][s], Nil} \/
               \E p \in Procs : target[p] = s /\ mapping'[r][s] = cid[p]
         /\ \A r \in Replicas, s \in Sandboxes : queue'[r][s].image \in {queue[r][s].image, row[s].image, Nil}
         /\ \A r \in Replicas : \A i \in cleanup'[r] : i \in cleanup[r] \/
               \E p \in Procs : pc[p] = "resume.save" /\ i = img[p] /\ row' = [row EXCEPT ![target[p]] = RunningRow]
  <1> USE DEF TableStep, TableInv, NoRow
  <1>1. ASSUME NEW s \in Sandboxes
        PROVE  row'[s].image \in {row[s].image, Nil} \/
                 \E p \in Procs : target[p] = s /\ pc[p] = "pause.save" /\ pc'[p] \notin Pausing /\ row'[s].image = img[p]
    <2>1. CASE row' = row
      BY <2>1
    <2>2. ASSUME NEW p \in Procs, target[p] \in Sandboxes,
                 row' = [row EXCEPT ![target[p]] = RunningRow] \/ row' = [row EXCEPT ![target[p]] = NoRow]
          PROVE  row'[s].image \in {row[s].image, Nil}
      BY <2>2 DEF RunningRow
    <2>3. ASSUME NEW p \in Procs, target[p] \in Sandboxes, row' = [row EXCEPT ![target[p]] = PausedRow(img[p])]
          PROVE  row'[s].image = row[s].image \/ (target[p] = s /\ row'[s].image = img[p])
      BY <2>3 DEF PausedRow
    <2>4. ASSUME NEW t \in Sandboxes, row' = [row EXCEPT ![t] = PastExpiry(row[t])]
          PROVE  row'[s].image = row[s].image
      BY <2>4 DEF PastExpiry
    <2> QED BY <2>1, <2>2, <2>3, <2>4 DEF RowStep
  <1>2. ASSUME NEW r \in Replicas, NEW s \in Sandboxes
        PROVE  mapping'[r][s] \in {mapping[r][s], Nil} \/ \E p \in Procs : target[p] = s /\ mapping'[r][s] = cid[p]
    <2>1. ASSUME NEW p \in Procs, target[p] \in Sandboxes, NEW c, SetMapping(p, c)
          PROVE  mapping'[r][s] = mapping[r][s] \/ (target[p] = s /\ mapping'[r][s] = c)
      BY <2>1, HomeIsReplica DEF SetMapping
    <2>2. ASSUME NEW t \in Replicas, mapping' = [mapping EXCEPT ![t] = [u \in Sandboxes |-> Nil]]
          PROVE  mapping'[r][s] \in {mapping[r][s], Nil}
      BY <2>2
    <2> QED BY <2>1, <2>2 DEF MappingStep
  <1>3. ASSUME NEW r \in Replicas, NEW s \in Sandboxes
        PROVE  queue'[r][s].image \in {queue[r][s].image, row[s].image, Nil}
    <2>1. ASSUME NEW t \in Replicas, NEW f \in [Sandboxes -> Row], queue' = [queue EXCEPT ![t] = f],
                 \A u \in Sandboxes : f[u] \in {row[u], NoRow}
          PROVE  queue'[r][s].image \in {queue[r][s].image, row[s].image, Nil}
      <3>1. f[s] \in {row[s], NoRow}
        BY <2>1
      <3>2. queue'[r][s] \in {queue[r][s], f[s]}
        BY <2>1
      <3> QED BY <3>1, <3>2
    <2>2. ASSUME NEW t \in Replicas, NEW u \in Sandboxes, queue' = [queue EXCEPT ![t][u] = NoRow]
          PROVE  queue'[r][s].image \in {queue[r][s].image, Nil}
      BY <2>2
    <2> QED BY <2>1, <2>2 DEF QueueStep
  <1>4. ASSUME NEW r \in Replicas, NEW i \in cleanup'[r]
        PROVE  i \in cleanup[r] \/
               \E p \in Procs : pc[p] = "resume.save" /\ i = img[p] /\ row' = [row EXCEPT ![target[p]] = RunningRow]
    <2>1. ASSUME NEW p \in Procs, cleanup' = [cleanup EXCEPT ![Home(p)] = @ \cup {img[p]}]
          PROVE  i \in cleanup[r] \/ i = img[p]
      BY <2>1, HomeIsReplica
    <2> QED BY <2>1 DEF CleanupStep
  <1> QED BY <1>1, <1>2, <1>3, <1>4

\* An id held for sandbox s: given out by the daemon, and for s.
ContainerFits(c, s) == c \in Containers => container[c] # "free" /\ madeFor[c] = s
ImageFits(i, s) == i \in Images => image[i] # "free" /\ madeFor[i] = s

LEMMA FitsKeeps ==
  ASSUME DaemonTypeOK, DaemonStep
  PROVE  /\ \A c, s : ContainerFits(c, s) => ContainerFits(c, s)'
         /\ \A i, s : ImageFits(i, s) => ImageFits(i, s)'
  BY DaemonKeeps DEF ContainerFits, ImageFits

LEMMA OwnerParts ==
  ASSUME TypeInv
  PROVE  OwnerInv <=>
    /\ \A r \in Replicas, s \in Sandboxes : ContainerFits(mapping[r][s], s) /\ ImageFits(queue[r][s].image, s)
    /\ \A p \in Procs : ContainerFits(cid[p], target[p]) /\ ImageFits(img[p], target[p])
    /\ \A s \in Sandboxes : ImageFits(row[s].image, s)
    /\ \A r \in Replicas : \A i \in cleanup[r] : image[i] # "free"
  BY DEF OwnerInv, HeldIsKnown, OwnResources, ContainerFits, ImageFits

LEMMA OwnerInit == Init => OwnerInv
  <1> SUFFICES ASSUME Init PROVE OwnerInv
    OBVIOUS
  <1> USE DaemonAssumption DEF Init, DaemonInit, NoRow
  <1>1. HeldIsKnown
    BY DEF HeldIsKnown
  <1>2. OwnResources
    BY DEF OwnResources
  <1> QED BY <1>1, <1>2 DEF OwnerInv

LEMMA OwnerNext == TypeInv /\ OwnerInv /\ [Next]_vars => OwnerInv'
  <1> SUFFICES ASSUME TypeInv, OwnerInv, [Next]_vars PROVE OwnerInv'
    OBVIOUS
  <1>1. JobInv /\ DaemonTypeOK /\ TableInv /\ cleanup \in [Replicas -> SUBSET Images]
    BY TypeParts
  <1>2. DaemonStep /\ TableStep /\ MoveStep /\ TypeInv'
    BY <1>1, NextDaemonStep, NextTableStep, NextMoveStep, TypeNext
  <1>3. /\ \A c, s : ContainerFits(c, s) => ContainerFits(c, s)'
        /\ \A i, s : ImageFits(i, s) => ImageFits(i, s)'
    BY <1>1, <1>2, FitsKeeps
  <1>4. /\ \A r \in Replicas, s \in Sandboxes : ContainerFits(mapping[r][s], s) /\ ImageFits(queue[r][s].image, s)
        /\ \A p \in Procs : ContainerFits(cid[p], target[p]) /\ ImageFits(img[p], target[p])
        /\ \A s \in Sandboxes : ImageFits(row[s].image, s)
        /\ \A r \in Replicas : \A i \in cleanup[r] : image[i] # "free"
    BY OwnerParts
  <1>a. /\ \A s : ImageFits(Nil, s)'
        /\ \A s : \A c \in WarmIds \cup {Nil} : ContainerFits(c, s)'
    BY DaemonAssumption, LifecycleAssumption DEF ImageFits, ContainerFits
  <1>5. ASSUME NEW p \in Procs PROVE ContainerFits(cid[p], target[p])'
    <2>1. CASE cid'[p] \in WarmIds \cup {Nil}
      BY <2>1, <1>a DEF ContainerFits
    <2>2. CASE target'[p] = target[p] /\ cid'[p] = cid[p]
      BY <1>3, <1>4, <2>2 DEF ContainerFits
    <2>3. CASE target'[p] = target[p] /\ target[p] \in Sandboxes /\ cid'[p] = mapping[Home(p)][target[p]]
      <3>1. ContainerFits(mapping[Home(p)][target[p]], target[p])
        BY <1>4, <2>3, HomeIsReplica
      <3> QED BY <1>3, <2>3, <3>1 DEF ContainerFits
    <2>4. ASSUME NEW data \in SUBSET Writes, cid'[p] \in Containers, target'[p] = target[p],
                 ContainerCreate(cid'[p], target[p], data)
          PROVE  ContainerFits(cid[p], target[p])'
      BY <1>1, <2>4 DEF ContainerFits, ContainerCreate, DaemonTypeOK
    <2> QED BY <1>2, <2>1, <2>2, <2>3, <2>4 DEF MoveStep
  <1>6. ASSUME NEW p \in Procs PROVE ImageFits(img[p], target[p])'
    <2>1. CASE img'[p] = Nil
      BY <2>1, <1>a DEF ImageFits
    <2>2. CASE target'[p] = target[p] /\ img'[p] = img[p]
      BY <1>3, <1>4, <2>2 DEF ImageFits
    <2>3. CASE target'[p] \in Sandboxes /\ img'[p] = row[target'[p]].image
      BY <1>3, <1>4, <2>3 DEF ImageFits
    <2>4. CASE p \in Replicas /\ target'[p] \in Sandboxes /\ img'[p] = queue[p][target'[p]].image
      BY <1>3, <1>4, <2>4 DEF ImageFits
    <2>5. CASE /\ target'[p] = target[p] /\ cid'[p] = cid[p] /\ Exists(cid[p])
               /\ img'[p] \in Images /\ ContainerCommit(cid[p], img'[p])
      <3>1. madeFor[cid[p]] = target[p]
        BY <1>4, <2>5 DEF ContainerFits, Exists
      <3> QED BY <1>1, <2>5, <3>1 DEF ImageFits, ContainerCommit, DaemonTypeOK
    <2> QED BY <1>2, <2>1, <2>2, <2>3, <2>4, <2>5 DEF MoveStep
  <1>b. /\ \A s \in Sandboxes : row'[s].image \in {row[s].image, Nil} \/
               \E p \in Procs : target[p] = s /\ row'[s].image = img[p]
        /\ \A r \in Replicas, s \in Sandboxes : mapping'[r][s] \in {mapping[r][s], Nil} \/
               \E p \in Procs : target[p] = s /\ mapping'[r][s] = cid[p]
        /\ \A r \in Replicas, s \in Sandboxes : queue'[r][s].image \in {queue[r][s].image, row[s].image, Nil}
        /\ \A r \in Replicas : \A i \in cleanup'[r] : i \in cleanup[r] \/ \E p \in Procs : i = img[p]
    BY <1>1, <1>2, TableSource
  <1>c. /\ \A s : \A i \in Images : image[i] # "free" /\ madeFor[i] = s => image'[i] # "free" /\ madeFor'[i] = s
        /\ \A i \in Images : image[i] # "free" => image'[i] # "free"
        /\ \A s : \A c \in Containers : container[c] # "free" /\ madeFor[c] = s => container'[c] # "free" /\ madeFor'[c] = s
    BY <1>1, <1>2, DaemonKeeps
  <1>d. Nil \notin Images /\ Nil \notin Containers
    BY DaemonAssumption
  <1> USE DEF ImageFits, ContainerFits
  <1>7. ASSUME NEW s \in Sandboxes PROVE ImageFits(row[s].image, s)'
    BY <1>4, <1>b, <1>c, <1>d
  <1>8. ASSUME NEW r \in Replicas, NEW s \in Sandboxes PROVE ContainerFits(mapping[r][s], s)'
    BY <1>4, <1>b, <1>c, <1>d
  <1>9. ASSUME NEW r \in Replicas, NEW s \in Sandboxes PROVE ImageFits(queue[r][s].image, s)'
    BY <1>4, <1>b, <1>c, <1>d
  <1>10. ASSUME NEW r \in Replicas, NEW i \in cleanup'[r] PROVE image'[i] # "free"
    <2>1. i \in Images
      BY <1>2 DEF TypeInv, TypeOK
    <2> QED BY <1>4, <1>b, <1>c, <2>1
  <1>11. HeldIsKnown'
    BY <1>5, <1>6, <1>7, <1>8, <1>9, <1>10 DEF HeldIsKnown
  <1>12. OwnResources'
    BY <1>5, <1>6, <1>7, <1>8, <1>9 DEF OwnResources
  <1> QED BY <1>11, <1>12 DEF OwnerInv

\* Whatever the interleaving, no handler, record or reaper ever names another
\* sandbox's container or image.
THEOREM Ownership == Spec => []OwnResources
  <1>1. Init => TypeInv /\ OwnerInv
    BY TypeInit, OwnerInit
  <1>2. TypeInv /\ OwnerInv /\ [Next]_vars => (TypeInv /\ OwnerInv)'
    BY TypeNext, OwnerNext
  <1> QED BY <1>1, <1>2, PTL DEF Spec, OwnerInv

-----------------------------------------------------------------------------
(* What a process knows of the daemon when it deletes a record, and what the
   others know of the image of a pause. *)

\* A step of process p leaves the program counter and locals of the others.
Frame(p) ==
    \A q \in Procs \ {p} : pc'[q] = pc[q] /\ target'[q] = target[q] /\ cid'[q] = cid[q] /\ img'[q] = img[q]

\* How p gets to Store.Delete, and into the second half of a pause.
PcMove(p) ==
    /\ pc'[p] = "row.delete" =>
        \/ pc[p] = "row.delete" /\ cid'[p] = cid[p] /\ img'[p] = img[p]
        \/ cid'[p] \in Containers /\ container'[cid'[p]] = "removed" /\ img'[p] = Nil
        \/ img'[p] \in Images /\ image'[img'[p]] = "removed" /\ cid'[p] = Nil
    /\ pc'[p] \in Pausing =>
        \/ pc[p] \in Pausing /\ img'[p] = img[p]
        \/ img'[p] \in Images /\ image[img'[p]] = "free" /\ UNCHANGED <<row, queue, cleanup>>

PcStep ==
    \/ UNCHANGED <<pc, jobVars>>
    \/ \E p \in Procs : Frame(p) /\ PcMove(p)
    \/ \A q \in Procs :
         \/ pc'[q] = pc[q] /\ target'[q] = target[q] /\ cid'[q] = cid[q] /\ img'[q] = img[q]
         \/ pc'[q] \in Resting /\ img'[q] = Nil

\* A process that goes elsewhere than to Store.Delete or into a pause.
LEMMA PcAway ==
  ASSUME JobInv, NEW p \in Procs, Frame(p), pc'[p] # "row.delete", pc'[p] \notin Pausing
  PROVE  PcStep
  BY DEF PcStep, PcMove

LEMMA FrameReturn == ASSUME JobInv, NEW p \in Procs, Return(p)
                     PROVE  Frame(p) /\ pc'[p] \in {"reap.next", "idle"}
  BY DEF Return, Goto, JobInv, JobTypeOK, Frame

LEMMA FrameGoto == ASSUME JobInv, NEW p \in Procs, NEW l, Goto(p, l), UNCHANGED jobVars
                   PROVE  Frame(p) /\ pc'[p] = l
  BY DEF Goto, JobInv, JobTypeOK, Frame, jobVars

LEMMA PcHandler ==
  ASSUME TypeInv, NEW p \in Procs, Handler(p)
  PROVE  PcStep
  <1> USE DEF Pausing
  <1>0. JobInv /\ DaemonTypeOK /\ JobOK(pc[p], target[p], cid[p], img[p])
    BY TypeParts DEF JobInv, JobsOK
  <1>1. CASE Return(p)
    BY <1>0, <1>1, FrameReturn, PcAway
  <1>2. ASSUME NEW l, l # "row.delete", l \notin Pausing, Goto(p, l), UNCHANGED jobVars
        PROVE  PcStep
    BY <1>0, <1>2, FrameGoto, PcAway
  <1>3. ASSUME NEW l, l \in Pausing, pc[p] \in Pausing, Goto(p, l), UNCHANGED jobVars
        PROVE  PcStep
    <2>1. Frame(p) /\ pc'[p] = l /\ img'[p] = img[p]
      BY <1>0, <1>3, FrameGoto DEF jobVars
    <2> QED BY <1>3, <2>1 DEF PcStep, PcMove
  <1>4. ASSUME NEW l, l # "row.delete", l \notin Pausing, Goto(p, l),
               \/ UNCHANGED <<target, img>> /\ \E c : cid' = [cid EXCEPT ![p] = c]
               \/ UNCHANGED img /\ (\E s : target' = [target EXCEPT ![p] = s])
                    /\ (cid' = cid \/ \E c : cid' = [cid EXCEPT ![p] = c])
               \/ UNCHANGED cid /\ (\E s : target' = [target EXCEPT ![p] = s])
                    /\ \E i : img' = [img EXCEPT ![p] = i]
        PROVE  PcStep
    <2>1. Frame(p) /\ pc'[p] = l
      BY <1>0, <1>4 DEF Goto, JobInv, JobTypeOK, Frame
    <2> QED BY <1>0, <1>4, <2>1, PcAway
  <1>5. CASE CreateBegin(p)
    BY <1>4, <1>5 DEF CreateBegin, Begin
  <1>6. CASE CreateContainer(p)
    BY <1>1, <1>4, <1>6 DEF CreateContainer
  <1>7. CASE CreateStart(p) \/ CreateRegister(p) \/ CreateSave(p)
    BY <1>1, <1>2, <1>7 DEF CreateStart, CreateRegister, CreateSave, DockerCall
  <1>8. CASE DeleteGet(p) \/ ExecGet(p) \/ PauseGet(p) \/ ResumeGet(p)
    BY <1>4, <1>8 DEF DeleteGet, ExecGet, PauseGet, ResumeGet, Begin
  <1>9. CASE KillLookup(p) \/ ExecLookup(p) \/ PauseLookup(p)
    BY <1>1, <1>4, <1>9 DEF KillLookup, ExecLookup, PauseLookup, ContainerFor
  <1>10. CASE KillUnregister(p) \/ KillStop(p) \/ DeleteRow(p) \/ ExecRun(p)
    BY <1>1, <1>2, <1>10 DEF KillUnregister, KillStop, DeleteRow, ExecRun, DockerCall
  <1>11. CASE KillRemove(p)
    <2>1. CASE Exists(cid[p]) /\ ContainerRemove(cid[p]) /\ Goto(p, "row.delete") /\ UNCHANGED jobVars
      <3>1. Frame(p) /\ pc'[p] = "row.delete" /\ cid'[p] = cid[p] /\ img'[p] = img[p]
        BY <1>0, <2>1, FrameGoto DEF jobVars
      <3>2. img[p] = Nil
        BY <1>0, <1>11 DEF KillRemove, JobOK, HasNoImage
      <3>3. cid[p] \in Containers /\ container'[cid[p]] = "removed"
        BY <1>0, <2>1 DEF Exists, ContainerRemove, DaemonTypeOK
      <3> QED BY <3>1, <3>2, <3>3 DEF PcStep, PcMove
    <2> QED BY <1>1, <1>11, <2>1 DEF KillRemove, DockerCall
  <1>12. CASE PauseCommit(p)
    <2>1. ASSUME NEW i \in Images, ContainerCommit(cid[p], i), img' = [img EXCEPT ![p] = i],
                 Goto(p, "pause.stop"), UNCHANGED <<target, cid>>
          PROVE  PcStep
      <3>1. Frame(p) /\ pc'[p] = "pause.stop" /\ img'[p] = i
        BY <1>0, <2>1 DEF Goto, JobInv, JobTypeOK, Frame
      <3>2. image[i] = "free" /\ UNCHANGED <<row, queue, cleanup>>
        BY <1>12, <2>1 DEF ContainerCommit, PauseCommit
      <3> QED BY <3>1, <3>2 DEF PcStep, PcMove
    <2> QED BY <1>1, <1>12, <2>1 DEF PauseCommit
  <1>13. CASE PauseStop(p) \/ PauseRemove(p) \/ PauseUnregister(p) \/ PauseSave(p)
    BY <1>1, <1>3, <1>13 DEF PauseStop, PauseRemove, PauseUnregister, PauseSave, DockerCall
  <1>14. CASE ResumeContainer(p)
    BY <1>1, <1>4, <1>14 DEF ResumeContainer
  <1>15. CASE ResumeStart(p) \/ ResumeRegister(p) \/ ResumeSave(p)
    BY <1>1, <1>2, <1>15 DEF ResumeStart, ResumeRegister, ResumeSave, DockerCall
  <1> QED BY <1>5, <1>6, <1>7, <1>8, <1>9, <1>10, <1>11, <1>12, <1>13, <1>14, <1>15
          DEF Handler, Create, Kill, Exec, Pause, Resume

LEMMA PcBackground ==
  ASSUME TypeInv, NEW r \in Replicas, Background(r) \/ Crash(r)
  PROVE  PcStep
  <1> USE DEF Pausing
  <1>0. r \in Procs /\ JobInv /\ DaemonTypeOK /\ TableInv /\ JobOK(pc[r], target[r], cid[r], img[r])
    BY TypeParts DEF JobInv, JobsOK, Procs
  <1>1. CASE Kill(r)
    BY <1>0, <1>1, PcHandler DEF Handler
  <1>2. ASSUME NEW l, l # "row.delete", l \notin Pausing, Goto(r, l), UNCHANGED <<cid, img>>,
               target' = target \/ \E s : target' = [target EXCEPT ![r] = s]
        PROVE  PcStep
    <2>1. Frame(r) /\ pc'[r] = l
      BY <1>0, <1>2 DEF Goto, JobInv, JobTypeOK, Frame
    <2> QED BY <1>0, <1>2, <2>1, PcAway
  <1>3. CASE Boot(r) \/ ReconcileList(r) \/ ReconcileDelete(r) \/ ReconcileRelease(r)
    BY <1>2, <1>3 DEF Boot, ReconcileList, ReconcileDelete, ReconcileRelease, Release, jobVars
  <1>4. CASE ReconcileNext(r)
    <2>1. CASE UNCHANGED <<pc, target>>
      BY <1>4, <2>1 DEF ReconcileNext, PcStep, jobVars
    <2> QED BY <1>2, <1>4, <2>1 DEF ReconcileNext
  <1>5. CASE ReaperTick(r) \/ ReapList(r) \/ ReapRelease(r)
    <2>1. CASE UNCHANGED <<pc, jobVars>>
      BY <2>1 DEF PcStep
    <2> QED BY <1>2, <1>5, <2>1 DEF ReaperTick, ReapList, ReapRelease, Release, jobVars
  <1>6. CASE ReapNext(r)
    <2>1. CASE Goto(r, "reap.release") /\ UNCHANGED <<target, img>>
      BY <1>2, <1>6, <2>1 DEF ReapNext
    <2>2. ASSUME NEW s \in Sandboxes, queue[r][s] # NoRow, target' = [target EXCEPT ![r] = s],
                 img' = [img EXCEPT ![r] = queue[r][s].image],
                 Goto(r, IF queue[r][s].status = "running" THEN "kill.lookup"
                         ELSE IF queue[r][s].image = Nil THEN "row.delete" ELSE "reap.image")
          PROVE  PcStep
      <3>1. queue[r][s].status = "running" \/ (queue[r][s].status = "paused" /\ queue[r][s].image # Nil)
        BY <1>0, <2>2 DEF TableInv, SnapshotRecorded, Row
      <3>2. pc'[r] \in {"kill.lookup", "reap.image"}
        BY <1>0, <2>2, <3>1 DEF Goto, JobInv, JobTypeOK
      <3>3. Frame(r)
        BY <1>0, <1>6, <2>2 DEF ReapNext, Goto, JobInv, JobTypeOK, Frame
      <3> QED BY <1>0, <3>2, <3>3, PcAway
    <2> QED BY <1>6, <2>1, <2>2 DEF ReapNext
  <1>7. CASE ReapImage(r)
    <2>1. CASE Return(r)
      BY <1>0, <2>1, FrameReturn, PcAway
    <2>2. CASE ImageRemove(img[r]) /\ Goto(r, "row.delete") /\ UNCHANGED jobVars
      <3>1. Frame(r) /\ pc'[r] = "row.delete" /\ cid'[r] = cid[r] /\ img'[r] = img[r]
        BY <1>0, <2>2, FrameGoto DEF jobVars
      <3>2. cid[r] = Nil /\ img[r] \in Images
        BY <1>0, <1>7 DEF ReapImage, JobOK
      <3>3. image'[img[r]] = "removed"
        BY <1>0, <2>2, <3>2 DEF ImageRemove, DaemonTypeOK
      <3> QED BY <1>0, <3>1, <3>2, <3>3 DEF PcStep, PcMove
    <2> QED BY <1>7, <2>1, <2>2 DEF ReapImage, DockerCall
  <1>8. CASE Crash(r)
    BY <1>0, <1>8 DEF Crash, PcStep, Resting, Home
  <1> QED BY <1>1, <1>3, <1>4, <1>5, <1>6, <1>7, <1>8 DEF Background, Reconcile, Reap

LEMMA NextPcStep == ASSUME TypeInv, [Next]_vars PROVE PcStep
  <1>1. ASSUME NEW p \in Requests, Handler(p) PROVE PcStep
    BY <1>1, PcHandler DEF Procs
  <1>2. ASSUME NEW r \in Replicas, Background(r) \/ Crash(r) PROVE PcStep
    BY <1>2, PcBackground
  <1>3. CASE UNCHANGED <<pc, jobVars>>
    BY <1>3 DEF PcStep
  <1>4. ASSUME NEW r \in Replicas, CleanupImage(r) PROVE UNCHANGED <<pc, jobVars>>
    BY <1>4 DEF CleanupImage
  <1>5. ASSUME NEW k \in Locks, LeaseExpires(k) PROVE UNCHANGED <<pc, jobVars>>
    BY <1>5 DEF LeaseExpires
  <1>6. ASSUME NEW s \in Sandboxes, Expire(s) PROVE UNCHANGED <<pc, jobVars>>
    BY <1>6 DEF Expire
  <1>7. ASSUME NEW c \in Containers, ContainerExit(c) PROVE UNCHANGED <<pc, jobVars>>
    BY <1>7 DEF ContainerExit, lifeVars
  <1> QED BY <1>1, <1>2, <1>3, <1>4, <1>5, <1>6, <1>7 DEF Next, vars, lifeVars

\* What the daemon has removed stays removed.
LEMMA RemovedStays ==
  ASSUME DaemonTypeOK, DaemonStep
  PROVE  /\ \A c \in Containers : container[c] = "removed" => container'[c] = "removed"
         /\ \A i \in Images : image[i] = "removed" => image'[i] = "removed"
  <1> USE DaemonAssumption DEF DaemonTypeOK, DaemonStep, ContainerStart, ContainerStop, ContainerRemove,
          ContainerCreate, ContainerCommit, ImageRemove, ContainerWrite, daemonVars, Exists
  <1>1. ASSUME NEW c \in Containers, container[c] = "removed" PROVE container'[c] = "removed"
    BY <1>1
  <1>2. ASSUME NEW i \in Images, image[i] = "removed" PROVE image'[i] = "removed"
    BY <1>2
  <1> QED BY <1>1, <1>2

\* A process about to delete a record has removed what it had looked up.
ForgetInv ==
    \A p \in Procs : pc[p] = "row.delete" =>
        \/ cid[p] \in Containers /\ container[cid[p]] = "removed" /\ img[p] = Nil
        \/ img[p] \in Images /\ image[img[p]] = "removed" /\ cid[p] = Nil

LEMMA ForgetNext == TypeInv /\ ForgetInv /\ [Next]_vars => ForgetInv'
  <1> SUFFICES ASSUME TypeInv, ForgetInv, [Next]_vars, NEW p \in Procs, pc'[p] = "row.delete"
               PROVE  \/ cid'[p] \in Containers /\ container'[cid'[p]] = "removed" /\ img'[p] = Nil
                      \/ img'[p] \in Images /\ image'[img'[p]] = "removed" /\ cid'[p] = Nil
    BY DEF ForgetInv
  <1>1. DaemonTypeOK /\ DaemonStep /\ PcStep
    BY TypeParts, NextDaemonStep, NextPcStep
  <1>2. /\ \A c \in Containers : container[c] = "removed" => container'[c] = "removed"
        /\ \A i \in Images : image[i] = "removed" => image'[i] = "removed"
    BY <1>1, RemovedStays
  <1>3. CASE pc[p] = "row.delete" /\ cid'[p] = cid[p] /\ img'[p] = img[p]
    BY <1>2, <1>3 DEF ForgetInv
  <1>4. ASSUME NEW q \in Procs, Frame(q), PcMove(q)
        PROVE  \/ pc[p] = "row.delete" /\ cid'[p] = cid[p] /\ img'[p] = img[p]
               \/ cid'[p] \in Containers /\ container'[cid'[p]] = "removed" /\ img'[p] = Nil
               \/ img'[p] \in Images /\ image'[img'[p]] = "removed" /\ cid'[p] = Nil
    BY <1>4 DEF Frame, PcMove
  <1> QED BY <1>1, <1>3, <1>4 DEF PcStep, Resting, jobVars

\* DELETE and the reaper never forget a container or image they looked up
\* and that still exists, however the calls of others are interleaved.
THEOREM Forgetting == Spec => []ForgetsOnlyWhatIsGone
  <1>1. Init => TypeInv /\ ForgetInv
    BY TypeInit DEF Init, ForgetInv
  <1>2. TypeInv /\ ForgetInv /\ [Next]_vars => (TypeInv /\ ForgetInv)'
    BY TypeNext, ForgetNext
  <1>3. TypeInv /\ ForgetInv => ForgetsOnlyWhatIsGone
    BY DaemonAssumption DEF ForgetInv, ForgetsOnlyWhatIsGone, Exists
  <1> QED BY <1>1, <1>2, <1>3, PTL DEF Spec

-----------------------------------------------------------------------------
(* The detached clean-up and the images others still need. *)

PrivateInv == PauseImageIsPrivate /\ CleanupIsUnreferenced

\* A process in the second half of a pause holds the image it held before,
\* or has just had it committed.
LEMMA PausingImage ==
  ASSUME PcStep, NEW p \in Procs, pc'[p] \in Pausing
  PROVE  \/ pc[p] \in Pausing /\ img'[p] = img[p]
         \/ /\ img'[p] \in Images /\ image[img'[p]] = "free"
            /\ UNCHANGED <<row, queue, cleanup>> /\ Frame(p)
  <1>1. ASSUME NEW q \in Procs, Frame(q), PcMove(q)
        PROVE  \/ pc[p] \in Pausing /\ img'[p] = img[p]
               \/ /\ img'[p] \in Images /\ image[img'[p]] = "free"
                  /\ UNCHANGED <<row, queue, cleanup>> /\ Frame(p)
    BY <1>1 DEF Frame, PcMove
  <1> QED BY <1>1 DEF PcStep, Resting, Pausing, jobVars

LEMMA PrivateNext == TypeInv /\ OwnerInv /\ PrivateInv /\ [Next]_vars => PrivateInv'
  <1> SUFFICES ASSUME TypeInv, OwnerInv, PrivateInv, [Next]_vars PROVE PrivateInv'
    OBVIOUS
  <1>1. JobInv /\ TableInv /\ cleanup \in [Replicas -> SUBSET Images]
    BY TypeParts
  <1>2. TableStep /\ MoveStep /\ PcStep /\ TypeInv'
    BY <1>1, NextTableStep, NextMoveStep, NextPcStep, TypeNext
  <1>3. Nil \notin Images
    BY DaemonAssumption
  <1>4. /\ \A s \in Sandboxes : row'[s].image \in {row[s].image, Nil} \/
             \E p \in Procs : target[p] = s /\ pc[p] = "pause.save" /\ pc'[p] \notin Pausing /\ row'[s].image = img[p]
        /\ \A r \in Replicas, s \in Sandboxes : queue'[r][s].image \in {queue[r][s].image, row[s].image, Nil}
        /\ \A r \in Replicas : \A i \in cleanup'[r] : i \in cleanup[r] \/
             \E p \in Procs : pc[p] = "resume.save" /\ i = img[p] /\ row' = [row EXCEPT ![target[p]] = RunningRow]
    BY <1>1, <1>2, TableSource
  <1>5. ASSUME NEW p \in Procs, pc'[p] \in Pausing
        PROVE  /\ \A q \in Procs \ {p} : img'[q] # img'[p]
               /\ \A s \in Sandboxes : row'[s].image # img'[p]
               /\ \A r \in Replicas, s \in Sandboxes : queue'[r][s].image # img'[p]
               /\ \A r \in Replicas : img'[p] \notin cleanup'[r]
    <2>1. CASE pc[p] \in Pausing /\ img'[p] = img[p]
      <3>1. img[p] \in Images /\ image[img[p]] # "free"
        BY <1>1, <2>1 DEF OwnerInv, HeldIsKnown, JobInv, JobsOK, JobOK
      <3>2. ASSUME NEW q \in Procs \ {p} PROVE img'[q] # img[p]
        BY <1>2, <1>3, <2>1, <3>1 DEF MoveStep, PrivateInv, PauseImageIsPrivate, ContainerCommit
      <3>3. ASSUME NEW s \in Sandboxes PROVE row'[s].image # img[p]
        BY <1>3, <1>4, <1>5, <2>1, <3>1 DEF PrivateInv, PauseImageIsPrivate
      <3>4. ASSUME NEW r \in Replicas, NEW s \in Sandboxes PROVE queue'[r][s].image # img[p]
        BY <1>3, <1>4, <2>1, <3>1 DEF PrivateInv, PauseImageIsPrivate
      <3>5. ASSUME NEW r \in Replicas PROVE img[p] \notin cleanup'[r]
        BY <1>4, <2>1 DEF PrivateInv, PauseImageIsPrivate, Pausing
      <3> QED BY <2>1, <3>2, <3>3, <3>4, <3>5
    <2>2. CASE /\ img'[p] \in Images /\ image[img'[p]] = "free"
               /\ UNCHANGED <<row, queue, cleanup>> /\ Frame(p)
      BY <1>1, <2>2 DEF Frame, OwnerInv, HeldIsKnown
    <2> QED BY <1>2, <1>5, <2>1, <2>2, PausingImage
  <1>6. ASSUME NEW r \in Replicas, NEW i \in cleanup'[r], NEW s \in Sandboxes
        PROVE  row'[s].image # i
    <2>1. i \in Images
      BY <1>2 DEF TypeInv, TypeOK
    <2>2. CASE i \in cleanup[r]
      BY <1>3, <1>4, <2>1, <2>2 DEF PrivateInv, CleanupIsUnreferenced, PauseImageIsPrivate, Pausing
    <2>3. ASSUME NEW p \in Procs, pc[p] = "resume.save", i = img[p],
                 row' = [row EXCEPT ![target[p]] = RunningRow], row'[s].image = i
          PROVE  FALSE
      <3>1. target[p] # s
        BY <1>1, <1>3, <2>1, <2>3 DEF TableInv, RunningRow
      <3>2. madeFor[i] = s
        BY <1>1, <2>1, <2>3, <3>1 DEF TableInv, OwnerInv, OwnResources
      <3> QED BY <2>1, <2>3, <3>1, <3>2 DEF OwnerInv, OwnResources
    <2> QED BY <1>4, <2>2, <2>3
  <1>7. PauseImageIsPrivate'
    BY <1>5 DEF PauseImageIsPrivate
  <1>8. CleanupIsUnreferenced'
    BY <1>5, <1>6 DEF CleanupIsUnreferenced
  <1> QED BY <1>7, <1>8 DEF PrivateInv

\* The goroutine a resume detaches never removes an image that a record, or
\* a pause in progress, still needs.
THEOREM CleanupIsSafe == Spec => []CleanupIsUnreferenced
  <1>1. Init => TypeInv /\ OwnerInv /\ PrivateInv
    BY TypeInit, OwnerInit DEF Init, PrivateInv, PauseImageIsPrivate, CleanupIsUnreferenced, Pausing
  <1>2. TypeInv /\ OwnerInv /\ PrivateInv /\ [Next]_vars => (TypeInv /\ OwnerInv /\ PrivateInv)'
    BY TypeNext, OwnerNext, PrivateNext
  <1> QED BY <1>1, <1>2, PTL DEF Spec, PrivateInv

-----------------------------------------------------------------------------
(* The data clients store. *)

\* Only the call that answers a client acknowledges anything.
LEMMA AckedHandler ==
  ASSUME NEW p \in Procs, Handler(p)
  PROVE  acked' = acked \/ ExecRun(p)
  <1> USE DEF DockerCall, ContainerFor
  <1>1. CASE Create(p)
    BY <1>1 DEF Create, CreateBegin, CreateContainer, CreateStart, CreateRegister, CreateSave
  <1>2. CASE DeleteGet(p) \/ Kill(p)
    BY <1>2 DEF DeleteGet, Kill, KillLookup, KillUnregister, KillStop, KillRemove, DeleteRow
  <1>3. CASE ExecGet(p) \/ ExecLookup(p)
    BY <1>3 DEF ExecGet, ExecLookup
  <1>4. CASE Pause(p)
    BY <1>4 DEF Pause, PauseGet, PauseLookup, PauseCommit, PauseStop, PauseRemove, PauseUnregister, PauseSave
  <1>5. CASE Resume(p)
    BY <1>5 DEF Resume, ResumeGet, ResumeContainer, ResumeStart, ResumeRegister, ResumeSave
  <1> QED BY <1>1, <1>2, <1>3, <1>4, <1>5 DEF Handler, Exec

LEMMA AckedNext == ASSUME [Next]_vars PROVE acked' = acked \/ \E p \in Procs : ExecRun(p)
  <1>1. ASSUME NEW p \in Requests, Handler(p) PROVE acked' = acked \/ \E q \in Procs : ExecRun(q)
    BY <1>1, AckedHandler DEF Procs
  <1>2. ASSUME NEW r \in Replicas, Kill(r) PROVE acked' = acked
    BY <1>2 DEF Kill, KillLookup, ContainerFor, KillUnregister, KillStop, KillRemove, DockerCall, DeleteRow
  <1>3. ASSUME NEW r \in Replicas, Reconcile(r) PROVE acked' = acked
    BY <1>3 DEF Reconcile, Boot, ReconcileList, ReconcileNext, ReconcileDelete, ReconcileRelease, Release
  <1>4. ASSUME NEW r \in Replicas, Reap(r) PROVE acked' = acked
    BY <1>4 DEF Reap, ReaperTick, ReapList, ReapNext, ReapImage, DockerCall, ReapRelease, Release
  <1>5. ASSUME NEW r \in Replicas, CleanupImage(r) \/ Crash(r) PROVE acked' = acked
    BY <1>5 DEF CleanupImage, Crash
  <1>6. ASSUME NEW k \in Locks, LeaseExpires(k) PROVE acked' = acked
    BY <1>6 DEF LeaseExpires
  <1>7. ASSUME NEW s \in Sandboxes, Expire(s) PROVE acked' = acked
    BY <1>7 DEF Expire
  <1>8. ASSUME NEW c \in Containers, ContainerExit(c) PROVE acked' = acked
    BY <1>8 DEF ContainerExit, lifeVars
  <1> QED BY <1>1, <1>2, <1>3, <1>4, <1>5, <1>6, <1>7, <1>8 DEF Next, Background, vars, lifeVars

\* What a step does to the filesystems: nothing, a copy between a container
\* and an image made for the same sandbox, or the storing of new data.
DiskStep ==
    \/ UNCHANGED <<disk, madeFor, acked>>
    \/ \E x, y \in Containers \cup Images, s \in Sandboxes : \E data :
         /\ disk[x] = {} /\ (data = {} \/ (data = disk[y] /\ madeFor[y] = s))
         /\ disk' = [disk EXCEPT ![x] = data]
         /\ madeFor' = [madeFor EXCEPT ![x] = s]
         /\ acked' = acked
    \/ \E c \in Containers, s \in Sandboxes, new \in SUBSET Fresh :
         /\ madeFor[c] = s /\ madeFor' = madeFor
         /\ disk' = [disk EXCEPT ![c] = @ \cup new]
         /\ acked' \in {acked, [acked EXCEPT ![s] = @ \cup new]}

LEMMA NextDiskStep ==
  ASSUME TypeInv, OwnerInv, FreeIsEmpty, [Next]_vars
  PROVE  DiskStep
  <1>1. JobInv /\ DaemonTypeOK /\ DaemonStep
    BY TypeParts, NextDaemonStep
  <1>2. CASE acked' = acked
    <2>1. CASE UNCHANGED <<disk, madeFor>>
      BY <1>2, <2>1 DEF DiskStep
    <2>2. ASSUME NEW p \in Procs, NEW c \in Containers,
                 \/ pc[p] = "create.container" /\ ContainerCreate(c, target[p], {})
                 \/ pc[p] = "resume.container" /\ ContainerCreate(c, target[p], disk[img[p]])
          PROVE  DiskStep
      <3>1. target[p] \in Sandboxes /\ disk[c] = {}
        BY <1>1, <2>2 DEF JobInv, JobsOK, JobOK, Resting, FreeIsEmpty, ContainerCreate
      <3>2. CASE ContainerCreate(c, target[p], {})
        BY <1>2, <3>1, <3>2 DEF DiskStep, ContainerCreate
      <3>3. CASE pc[p] = "resume.container" /\ ContainerCreate(c, target[p], disk[img[p]])
        <4>1. img[p] \in Images /\ madeFor[img[p]] = target[p]
          BY <1>1, <3>3 DEF JobInv, JobsOK, JobOK, Resuming, OwnerInv, OwnResources
        <4> QED BY <1>2, <3>1, <3>3, <4>1 DEF DiskStep, ContainerCreate
      <3> QED BY <2>2, <3>2, <3>3
    <2>3. ASSUME NEW p \in Procs, NEW i \in Images, Exists(cid[p]), ContainerCommit(cid[p], i)
          PROVE  DiskStep
      <3>1. cid[p] \in Containers /\ disk[i] = {}
        BY <2>3 DEF Exists, ContainerCommit, FreeIsEmpty
      <3>2. target[p] \in Sandboxes /\ madeFor[cid[p]] = target[p]
        BY <1>1, <3>1, DaemonAssumption DEF JobInv, JobsOK, JobOK, OwnerInv, OwnResources
      <3> QED BY <1>2, <2>3, <3>1, <3>2 DEF DiskStep, ContainerCommit
    <2>4. ASSUME NEW p \in Procs, NEW new \in SUBSET Fresh,
                 pc[p] = "exec.run", Exists(cid[p]), ContainerWrite(cid[p], new)
          PROVE  DiskStep
      <3>1. cid[p] \in Containers /\ target[p] \in Sandboxes /\ madeFor[cid[p]] = target[p]
        BY <1>1, <2>4 DEF JobInv, JobsOK, JobOK, Resting, Exists, OwnerInv, OwnResources
      <3> QED BY <1>2, <2>4, <3>1 DEF DiskStep, ContainerWrite
    <2> QED BY <1>1, <2>1, <2>2, <2>3, <2>4
            DEF DaemonStep, daemonVars, ContainerStart, ContainerStop, ContainerRemove, ImageRemove
  <1>3. ASSUME NEW p \in Procs, ExecRun(p) PROVE DiskStep
    <2>1. CASE Unchanged /\ acked' = acked
      BY <2>1 DEF Unchanged, daemonVars, DiskStep
    <2>2. ASSUME Exists(cid[p]), NEW new \in SUBSET Fresh, ContainerWrite(cid[p], new),
                 acked' \in {acked, [acked EXCEPT ![target[p]] = @ \cup new]}
          PROVE  DiskStep
      <3>1. cid[p] \in Containers /\ target[p] \in Sandboxes /\ madeFor[cid[p]] = target[p]
        BY <1>1, <1>3, <2>2 DEF ExecRun, JobInv, JobsOK, JobOK, Resting, Exists, OwnerInv, OwnResources
      <3> QED BY <2>2, <3>1 DEF DiskStep, ContainerWrite
    <2> QED BY <1>3, <2>1, <2>2 DEF ExecRun
  <1> QED BY <1>2, <1>3, AckedNext

LEMMA FreeNext == TypeInv /\ FreeIsEmpty /\ [Next]_vars => FreeIsEmpty'
  <1> SUFFICES ASSUME TypeInv, FreeIsEmpty, [Next]_vars PROVE FreeIsEmpty'
    OBVIOUS
  <1>1. JobInv /\ DaemonTypeOK /\ DaemonStep
    BY TypeParts, NextDaemonStep
  <1> USE DaemonAssumption DEF DaemonTypeOK, DaemonStep, ContainerStart, ContainerStop, ContainerRemove,
          ContainerCreate, ContainerCommit, ImageRemove, ContainerWrite, daemonVars, Exists, FreeIsEmpty
  <1>2. ASSUME NEW c \in Containers, container'[c] = "free" PROVE disk'[c] = {}
    BY <1>1, <1>2
  <1>3. ASSUME NEW i \in Images, image'[i] = "free" PROVE disk'[i] = {}
    BY <1>1, <1>3
  <1> QED BY <1>2, <1>3

LEMMA DataNext == TypeInv /\ OwnerInv /\ DataIsOwned /\ FreeIsEmpty /\ [Next]_vars => DataIsOwned'
  <1> SUFFICES ASSUME TypeInv, OwnerInv, DataIsOwned, FreeIsEmpty, [Next]_vars PROVE DataIsOwned'
    OBVIOUS
  <1>1. DiskStep /\ FreeIsEmpty'
    BY NextDiskStep, FreeNext
  <1>2. /\ disk \in [Containers \cup Images -> SUBSET Writes]
        /\ madeFor \in [Containers \cup Images -> Sandboxes \cup {Nil}]
        /\ acked \in [Sandboxes -> SUBSET Writes]
    BY DEF TypeInv, TypeOK, DaemonTypeOK
  <1> DEFINE Apart == \A x, y \in Containers \cup Images : disk[x] \cap disk[y] # {} => madeFor[x] = madeFor[y]
             Stored == \A s \in Sandboxes : \A w \in acked[s] :
                          \E x \in Containers \cup Images : w \in disk[x] /\ madeFor[x] = s
  <1>3. Apart /\ Stored
    BY DEF DataIsOwned
  <1>4. ASSUME UNCHANGED <<disk, madeFor, acked>> PROVE Apart' /\ Stored'
    BY <1>3, <1>4
  <1>5. ASSUME NEW x \in Containers \cup Images, NEW y \in Containers \cup Images, NEW s \in Sandboxes, NEW data,
               disk[x] = {}, data = {} \/ (data = disk[y] /\ madeFor[y] = s),
               disk' = [disk EXCEPT ![x] = data], madeFor' = [madeFor EXCEPT ![x] = s], acked' = acked
        PROVE  Apart' /\ Stored'
    <2>1. Apart'
      BY <1>2, <1>3, <1>5
    <2>2. Stored'
      BY <1>2, <1>3, <1>5
    <2> QED BY <2>1, <2>2
  <1>6. ASSUME NEW c \in Containers, NEW s \in Sandboxes, NEW new \in SUBSET Fresh,
               madeFor[c] = s, madeFor' = madeFor, disk' = [disk EXCEPT ![c] = @ \cup new],
               acked' \in {acked, [acked EXCEPT ![s] = @ \cup new]}
        PROVE  Apart' /\ Stored'
    <2>1. \A z \in Containers \cup Images : disk[z] \cap new = {}
      BY <1>6 DEF Fresh
    <2>2. Apart'
      BY <1>2, <1>3, <1>6, <2>1
    <2>3. Stored'
      BY <1>2, <1>3, <1>6
    <2> QED BY <2>2, <2>3
  <1>7. Apart' /\ Stored'
    <2> HIDE DEF Apart, Stored
    <2> QED BY <1>1, <1>4, <1>5, <1>6, Zenon DEF DiskStep
  <1> QED BY <1>7 DEF DataIsOwned

\* Data acknowledged to the client of one sandbox is in no container or
\* image of another, through any interleaving of exec, pause and resume.
THEOREM Isolation == Spec => []NoForeignData
  <1>1. Init => TypeInv /\ OwnerInv /\ DataIsOwned /\ FreeIsEmpty
    BY TypeInit, OwnerInit DEF Init, DaemonInit, DataIsOwned, FreeIsEmpty
  <1>2. TypeInv /\ OwnerInv /\ DataIsOwned /\ FreeIsEmpty /\ [Next]_vars
          => (TypeInv /\ OwnerInv /\ DataIsOwned /\ FreeIsEmpty)'
    BY TypeNext, OwnerNext, DataNext, FreeNext
  <1>3. DataIsOwned => NoForeignData
    BY DEF DataIsOwned, NoForeignData
  <1> QED BY <1>1, <1>2, <1>3, PTL DEF Spec

-----------------------------------------------------------------------------
(* The reaper's lock. *)

Reaping(r) == pc[r] \in ReaperPC \ {"tick"}

LockInv == \A r \in Replicas : Reaping(r) => lock["reaper"] = r

\* Requests leave the locks and the replicas' own threads alone.
LEMMA LockHandler ==
  ASSUME JobInv, NEW p \in Procs, Handler(p)
  PROVE  lock' = lock /\ \A r \in Replicas \ {p} : pc'[r] = pc[r]
  <1> USE DEF DockerCall, ContainerFor, Goto, Return, JobInv, JobTypeOK
  <1>1. CASE Create(p)
    BY <1>1 DEF Create, CreateBegin, CreateContainer, CreateStart, CreateRegister, CreateSave, Procs
  <1>2. CASE DeleteGet(p) \/ Kill(p)
    BY <1>2 DEF DeleteGet, Kill, KillLookup, KillUnregister, KillStop, KillRemove, DeleteRow, Procs
  <1>3. CASE Exec(p)
    BY <1>3 DEF Exec, ExecGet, ExecLookup, ExecRun, Procs
  <1>4. CASE Pause(p)
    BY <1>4 DEF Pause, PauseGet, PauseLookup, PauseCommit, PauseStop, PauseRemove, PauseUnregister, PauseSave, Procs
  <1>5. CASE Resume(p)
    BY <1>5 DEF Resume, ResumeGet, ResumeContainer, ResumeStart, ResumeRegister, ResumeSave, Procs
  <1> QED BY <1>1, <1>2, <1>3, <1>4, <1>5 DEF Handler

\* The reaper's thread reaps under its lock, whatever it does in between.
LEMMA LockBackground ==
  ASSUME TypeInv, LockInv, NEW r \in Replicas, Background(r) \/ CleanupImage(r) \/ Crash(r)
  PROVE  LockInv'
  <1>0. JobInv /\ r \in Procs /\ lock \in [Locks -> Replicas \cup {Nil, "stale"}]
    BY TypeParts DEF Procs, RestTypeOK
  <1>1. CASE Kill(r)
    <2>1. lock' = lock /\ \A t \in Replicas \ {r} : pc'[t] = pc[t]
      BY <1>0, <1>1, LockHandler DEF Handler
    <2>2. Reaping(r)
      BY <1>1 DEF Kill, KillLookup, KillUnregister, KillStop, KillRemove, DeleteRow, Reaping, ReaperPC
    <2> QED BY <2>1, <2>2 DEF LockInv, Reaping
  <1>2. ASSUME UNCHANGED lock, \A t \in Replicas \ {r} : pc'[t] = pc[t], Reaping(r) \/ ~Reaping(r)'
        PROVE  LockInv'
    BY <1>2 DEF LockInv, Reaping
  <1>3. CASE Reconcile(r)
    <2>1. \A t \in Replicas \ {r} : pc'[t] = pc[t]
      BY <1>0, <1>3 DEF Reconcile, Boot, ReconcileList, ReconcileNext, ReconcileDelete, ReconcileRelease,
         Release, Goto, JobInv, JobTypeOK, Procs
    <2>2. ~Reaping(r)'
      BY <1>0, <1>3 DEF Reconcile, Boot, ReconcileList, ReconcileNext, ReconcileDelete, ReconcileRelease,
         Release, Goto, JobInv, JobTypeOK, Procs, Reaping, ReaperPC
    <2>3. lock'["reaper"] = lock["reaper"]
      BY <1>0, <1>3 DEF Reconcile, Boot, ReconcileList, ReconcileNext, ReconcileDelete, ReconcileRelease,
         Release, TryAcquire, Locks
    <2> QED BY <2>1, <2>2, <2>3 DEF LockInv, Reaping
  <1>4. CASE ReaperTick(r)
    <2>1. lock["reaper"] = Nil /\ lock'["reaper"] = r
      BY <1>0, <1>4 DEF ReaperTick, TryAcquire, Locks
    <2>2. \A t \in Replicas : ~Reaping(t)
      BY <2>1, LifecycleAssumption DEF LockInv
    <2>3. \A t \in Replicas \ {r} : pc'[t] = pc[t]
      BY <1>0, <1>4 DEF ReaperTick, Goto, JobInv, JobTypeOK, Procs
    <2> QED BY <2>1, <2>2, <2>3 DEF LockInv, Reaping
  <1>5. CASE ReapList(r) \/ ReapNext(r) \/ ReapImage(r)
    <2>1. \A t \in Replicas \ {r} : pc'[t] = pc[t]
      BY <1>0, <1>5 DEF ReapList, ReapNext, ReapImage, DockerCall, Goto, Return, JobInv, JobTypeOK, Procs
    <2>2. Reaping(r) /\ lock' = lock
      BY <1>5 DEF ReapList, ReapNext, ReapImage, DockerCall, Reaping, ReaperPC
    <2> QED BY <1>2, <2>1, <2>2
  <1>6. CASE ReapRelease(r)
    <2>1. pc'[r] = "tick" /\ \A t \in Replicas \ {r} : pc'[t] = pc[t]
      BY <1>0, <1>6 DEF ReapRelease, Release, Goto, JobInv, JobTypeOK, Procs
    <2>2. Reaping(r) /\ lock["reaper"] = r
      BY <1>6 DEF ReapRelease, Reaping, ReaperPC, LockInv
    <2>3. \A t \in Replicas \ {r} : ~Reaping(t)
      BY <2>2 DEF LockInv
    <2> QED BY <2>1, <2>3 DEF LockInv, Reaping
  <1>7. CASE CleanupImage(r)
    BY <1>7 DEF CleanupImage, LockInv, Reaping
  <1>8. CASE Crash(r)
    <2>1. ASSUME NEW t \in Replicas, Reaping(t)' PROVE t # r /\ Reaping(t)
      BY <1>8, <2>1 DEF Crash, Reaping, ReaperPC, Procs, Home
    <2>2. ASSUME NEW t \in Replicas, lock["reaper"] = t, t # r PROVE lock'["reaper"] = t
      BY <1>8, <2>2 DEF Crash, Locks
    <2> QED BY <2>1, <2>2 DEF LockInv
  <1> QED BY <1>1, <1>3, <1>4, <1>5, <1>6, <1>7, <1>8 DEF Background, Reap

\* The 30 s of the reaper's lock run out while its holder, alive, still reaps:
\* nothing renews them.
Overrun ==
    \E r \in Replicas :
        /\ lock["reaper"] = r /\ Covered("reaper", r)
        /\ lock'["reaper"] # r /\ pc'[r] = pc[r]

LEMMA LockNext == TypeInv /\ LockInv /\ [Next]_vars /\ [~Overrun]_vars => LockInv'
  <1> SUFFICES ASSUME TypeInv, LockInv, [Next]_vars, [~Overrun]_vars PROVE LockInv'
    OBVIOUS
  <1>0. JobInv /\ lock \in [Locks -> Replicas \cup {Nil, "stale"}]
    BY TypeParts DEF RestTypeOK
  <1>1. ASSUME NEW p \in Requests, Handler(p) PROVE LockInv'
    <2>1. p \in Procs /\ p \notin Replicas
      BY LifecycleAssumption DEF Procs
    <2> QED BY <1>0, <1>1, <2>1, LockHandler DEF LockInv, Reaping
  <1>2. ASSUME NEW r \in Replicas, Background(r) \/ CleanupImage(r) \/ Crash(r) PROVE LockInv'
    BY <1>2, LockBackground
  <1>3. ASSUME NEW k \in Locks, LeaseExpires(k) PROVE LockInv'
    <2>1. CASE k = "reaper"
      <3>1. ASSUME NEW r \in Replicas, Reaping(r) PROVE FALSE
        <4>1. lock["reaper"] = r /\ lock["reaper"] # Nil /\ Covered("reaper", r)
          BY <1>3, <2>1, <3>1 DEF LeaseExpires, LockInv, Reaping, Covered
        <4>2. lock'["reaper"] = Nil /\ pc' = pc
          BY <1>0, <1>3, <2>1 DEF LeaseExpires, Locks
        <4>3. Overrun /\ lock' # lock
          BY <4>1, <4>2 DEF Overrun
        <4> QED BY <4>3 DEF vars, lifeVars
      <3> QED BY <1>3, <3>1 DEF LeaseExpires, LockInv, Reaping
    <2>2. CASE k # "reaper"
      BY <1>0, <1>3, <2>2 DEF LeaseExpires, LockInv, Reaping, Locks
    <2> QED BY <2>1, <2>2
  <1>4. CASE UNCHANGED <<pc, lock>>
    BY <1>4 DEF LockInv, Reaping
  <1>5. ASSUME NEW s \in Sandboxes, Expire(s) PROVE UNCHANGED <<pc, lock>>
    BY <1>5 DEF Expire
  <1>6. ASSUME NEW c \in Containers, ContainerExit(c) PROVE UNCHANGED <<pc, lock>>
    BY <1>6 DEF ContainerExit, lifeVars
  <1> QED BY <1>1, <1>2, <1>3, <1>4, <1>5, <1>6 DEF Next, vars, lifeVars

\* Two replicas reap at the same time only after a lease has run out under a
\* live holder, as in SlowReap.cfg: no lost answer, no failed release and no
\* crash, in any number, is enough.
THEOREM Exclusion == Spec /\ [][~Overrun]_vars => []OneReaper
  <1>1. Init => TypeInv /\ LockInv
    BY TypeInit DEF Init, LockInv, Reaping, ReaperPC, Procs
  <1>2. TypeInv /\ LockInv /\ [Next]_vars /\ [~Overrun]_vars => (TypeInv /\ LockInv)'
    BY TypeNext, LockNext
  <1>3. LockInv => OneReaper
    BY DEF LockInv, Reaping, OneReaper, Covered
  <1> QED BY <1>1, <1>2, <1>3, PTL DEF Spec

-----------------------------------------------------------------------------
(* A paused record and its image, while no call fails and no replica dies. *)

\* A handler's step is a step of that handler alone.
LEMMA HandlerFrame == ASSUME JobInv, NEW p \in Procs, Handler(p) PROVE Frame(p)
  <1> USE DEF JobInv, JobTypeOK, Frame, Goto, Return, jobVars, DockerCall, ContainerFor
  <1>1. CASE Create(p)
    BY <1>1 DEF Create, Begin, CreateBegin, CreateContainer, CreateStart, CreateRegister, CreateSave
  <1>2. CASE DeleteGet(p) \/ Kill(p)
    BY <1>2 DEF Begin, DeleteGet, Kill, KillLookup, KillUnregister, KillStop, KillRemove, DeleteRow
  <1>3. CASE Exec(p)
    BY <1>3 DEF Begin, Exec, ExecGet, ExecLookup, ExecRun
  <1>4. CASE Pause(p)
    BY <1>4 DEF Begin, Pause, PauseGet, PauseLookup, PauseCommit, PauseStop, PauseRemove, PauseUnregister, PauseSave
  <1>5. CASE Resume(p)
    BY <1>5 DEF Begin, Resume, ResumeGet, ResumeContainer, ResumeStart, ResumeRegister, ResumeSave
  <1> QED BY <1>1, <1>2, <1>3, <1>4, <1>5 DEF Handler

\* So is a step of a replica's background thread.
LEMMA BackgroundFrame == ASSUME JobInv, NEW r \in Replicas, Background(r) PROVE Frame(r)
  <1>0. r \in Procs
    BY DEF Procs
  <1>1. CASE Kill(r)
    BY <1>0, <1>1, HandlerFrame DEF Handler
  <1> USE DEF JobInv, JobTypeOK, Frame, Goto, Return, jobVars, DockerCall, Release
  <1>2. CASE Reconcile(r)
    BY <1>0, <1>2 DEF Reconcile, Boot, ReconcileList, ReconcileNext, ReconcileDelete, ReconcileRelease
  <1>3. CASE Reap(r)
    BY <1>0, <1>3 DEF Reap, ReaperTick, ReapList, ReapNext, ReapImage, ReapRelease
  <1> QED BY <1>1, <1>2, <1>3 DEF Background

\* Of all that a handler does, only a pause's commit concerns images.
LEMMA ImageHandler ==
  ASSUME NEW p \in Procs, Handler(p)
  PROVE  image' = image \/ PauseCommit(p)
  <1> USE DEF DockerCall, ContainerFor, Unchanged, daemonVars, ContainerCreate, ContainerStart,
              ContainerStop, ContainerRemove
  <1>1. CASE Create(p)
    BY <1>1 DEF Create, CreateBegin, CreateContainer, CreateStart, CreateRegister, CreateSave
  <1>2. CASE DeleteGet(p) \/ Kill(p)
    BY <1>2 DEF DeleteGet, Kill, KillLookup, KillUnregister, KillStop, KillRemove, DeleteRow
  <1>3. CASE Exec(p)
    BY <1>3 DEF Exec, ExecGet, ExecLookup, ExecRun, ContainerWrite
  <1>4. CASE Pause(p)
    BY <1>4 DEF Pause, PauseGet, PauseLookup, PauseStop, PauseRemove, PauseUnregister, PauseSave
  <1>5. CASE Resume(p)
    BY <1>5 DEF Resume, ResumeGet, ResumeContainer, ResumeStart, ResumeRegister, ResumeSave
  <1> QED BY <1>1, <1>2, <1>3, <1>4, <1>5 DEF Handler

\* Who removes an image: a detached clean-up, or the reaper on its way to
\* deleting the record of the sandbox.
RemovedBy(i) ==
    \/ \E r \in Replicas : i \in cleanup[r] /\ UNCHANGED <<row, pc, jobVars>>
    \/ \E r \in Replicas :
         /\ pc[r] = "reap.image" /\ img[r] = i /\ row' = row
         /\ pc'[r] = "row.delete" /\ target'[r] = target[r]

LEMMA ImageLoss ==
  ASSUME TypeInv, "docker" \notin FaultKinds, [Next]_vars,
         NEW i \in Images, image[i] = "present", image'[i] # "present"
  PROVE  RemovedBy(i)
  <1>0. JobInv /\ DaemonTypeOK /\ cleanup \in [Replicas -> SUBSET Images]
    BY TypeParts
  <1>1. ASSUME NEW p \in Procs, Handler(p) PROVE FALSE
    BY <1>0, <1>1, ImageHandler DEF PauseCommit, ContainerCommit, Unchanged, daemonVars, DaemonTypeOK
  <1>2. ASSUME NEW r \in Replicas, Reconcile(r) PROVE image' = image
    BY <1>2 DEF Reconcile, Boot, ReconcileList, ReconcileNext, ReconcileDelete, ReconcileRelease, Release, daemonVars
  <1>3. ASSUME NEW r \in Replicas, Reap(r) PROVE RemovedBy(i)
    <2>1. CASE ReaperTick(r) \/ ReapList(r) \/ ReapNext(r) \/ ReapRelease(r)
      BY <2>1 DEF ReaperTick, ReapList, ReapNext, ReapRelease, Release, daemonVars
    <2>2. CASE ReapImage(r)
      <3>1. r \in Procs /\ img[r] \in Images
        BY <1>0, <2>2 DEF ReapImage, JobInv, JobsOK, JobOK, Procs
      <3>2. ImageRemove(img[r]) /\ Goto(r, "row.delete") /\ UNCHANGED jobVars /\ row' = row
        BY <2>2 DEF ReapImage, DockerCall, Fault, Unchanged, daemonVars
      <3>3. i = img[r]
        BY <1>0, <3>1, <3>2 DEF ImageRemove, DaemonTypeOK
      <3> QED BY <1>0, <2>2, <3>1, <3>2, <3>3 DEF RemovedBy, ReapImage, Goto, jobVars, JobInv, JobTypeOK
    <2> QED BY <1>3, <2>1, <2>2 DEF Reap
  <1>4. ASSUME NEW r \in Replicas, CleanupImage(r) PROVE RemovedBy(i)
    <2>1. PICK j \in cleanup[r] : image' = image \/ ImageRemove(j)
      BY <1>4 DEF CleanupImage, Unchanged, daemonVars
    <2>2. i = j
      BY <1>0, <2>1 DEF ImageRemove, DaemonTypeOK
    <2> QED BY <1>4, <2>2 DEF RemovedBy, CleanupImage
  <1>5. ASSUME NEW r \in Replicas, Crash(r) PROVE image' = image
    BY <1>5 DEF Crash, daemonVars
  <1>6. ASSUME NEW k \in Locks, LeaseExpires(k) PROVE image' = image
    BY <1>6 DEF LeaseExpires, daemonVars
  <1>7. ASSUME NEW s \in Sandboxes, Expire(s) PROVE image' = image
    BY <1>7 DEF Expire, daemonVars
  <1>8. ASSUME NEW c \in Containers, ContainerExit(c) PROVE image' = image
    BY <1>8 DEF ContainerExit, ContainerStop
  <1> QED BY <1>1, <1>2, <1>3, <1>4, <1>5, <1>6, <1>7, <1>8 DEF Next, Background, Handler, Procs, vars, daemonVars

\* A replica that is about to delete a record stays so until it has.
LEMMA DeleteStays ==
  ASSUME TypeInv, "db" \notin FaultKinds, MaxCrashes = 0, [Next]_vars,
         NEW r \in Replicas, pc[r] = "row.delete"
  PROVE  \/ pc'[r] = "row.delete" /\ target'[r] = target[r]
         \/ row' = [row EXCEPT ![target[r]] = NoRow]
  <1>0. JobInv /\ RestTypeOK /\ r \in Procs
    BY TypeParts DEF Procs
  <1>1. ASSUME NEW p \in Requests, Handler(p) PROVE pc'[r] = pc[r] /\ target'[r] = target[r]
    BY <1>0, <1>1, HandlerFrame, LifecycleAssumption DEF Frame, Procs
  <1>2. ASSUME NEW t \in Replicas, t # r, Background(t) PROVE pc'[r] = pc[r] /\ target'[r] = target[r]
    BY <1>0, <1>2, BackgroundFrame DEF Frame
  <1>3. ASSUME Background(r) PROVE row' = [row EXCEPT ![target[r]] = NoRow]
    <2>1. DeleteRow(r)
      BY <1>3 DEF Background, Reconcile, Boot, ReconcileList, ReconcileNext, ReconcileDelete, ReconcileRelease,
         Reap, ReaperTick, ReapList, ReapNext, ReapImage, ReapRelease,
         Kill, KillLookup, KillUnregister, KillStop, KillRemove
    <2> QED BY <2>1 DEF DeleteRow, RowCall, Fault
  <1>4. ASSUME NEW t \in Replicas, CleanupImage(t) PROVE UNCHANGED <<pc, jobVars>>
    BY <1>4 DEF CleanupImage
  <1>5. ASSUME NEW t \in Replicas, Crash(t) PROVE FALSE
    BY <1>0, <1>5 DEF Crash, RestTypeOK
  <1>6. ASSUME NEW k \in Locks, LeaseExpires(k) PROVE UNCHANGED <<pc, jobVars>>
    BY <1>6 DEF LeaseExpires
  <1>7. ASSUME NEW s \in Sandboxes, Expire(s) PROVE UNCHANGED <<pc, jobVars>>
    BY <1>7 DEF Expire
  <1>8. ASSUME NEW c \in Containers, ContainerExit(c) PROVE UNCHANGED <<pc, jobVars>>
    BY <1>8 DEF ContainerExit, lifeVars
  <1> QED BY <1>1, <1>2, <1>3, <1>4, <1>5, <1>6, <1>7, <1>8 DEF Next, vars, lifeVars, jobVars

\* The image of a pause in progress exists.
PausingPresent == \A p \in Procs : pc[p] \in Pausing => image[img[p]] = "present"

ResumableInv == PausingPresent /\ PausedIsResumable

LEMMA ResumableNext ==
  ASSUME FaultKinds \cap {"docker", "db"} = {}, MaxCrashes = 0
  PROVE  TypeInv /\ OwnerInv /\ PrivateInv /\ ResumableInv /\ [Next]_vars => ResumableInv'
  <1> SUFFICES ASSUME TypeInv, OwnerInv, PrivateInv, ResumableInv, [Next]_vars PROVE ResumableInv'
    OBVIOUS
  <1>1. JobInv /\ DaemonTypeOK /\ TableInv /\ cleanup \in [Replicas -> SUBSET Images]
    BY TypeParts
  <1>2. TableStep /\ MoveStep /\ PcStep /\ TableInv'
    BY <1>1, NextTableStep, NextMoveStep, NextPcStep, TableInvStep
  <1>3. ASSUME NEW i \in Images, image[i] = "present", image'[i] # "present" PROVE RemovedBy(i)
    BY <1>3, ImageLoss
  <1>4. ASSUME NEW p \in Procs, pc'[p] \in Pausing PROVE image'[img'[p]] = "present"
    <2>1. CASE pc[p] \in Pausing /\ img'[p] = img[p]
      <3>1. img[p] \in Images /\ image[img[p]] = "present"
        BY <1>1, <2>1 DEF ResumableInv, PausingPresent, JobInv, JobsOK, JobOK
      <3>2. ~RemovedBy(img[p])
        BY <2>1 DEF RemovedBy, PrivateInv, PauseImageIsPrivate, Pausing, Procs
      <3> QED BY <1>3, <2>1, <3>1, <3>2
    <2>2. CASE img'[p] \in Images /\ image[img'[p]] = "free"
      <3>1. ContainerCommit(cid[p], img'[p])
        BY <1>2, <2>2, DaemonAssumption DEF MoveStep, OwnerInv, HeldIsKnown
      <3> QED BY <1>1, <2>2, <3>1 DEF ContainerCommit, DaemonTypeOK
    <2> QED BY <1>2, <1>4, <2>1, <2>2, PausingImage
  <1>5. ASSUME NEW s \in Sandboxes, row'[s].status = "paused"
        PROVE  image'[row'[s].image] = "present" \/ \E r \in Replicas : pc'[r] = "row.delete" /\ target'[r] = s
    <2> DEFINE i == row'[s].image
    <2>1. i \in Images
      BY <1>2, <1>5 DEF TableInv, PauseRecorded, Row, NoRow
    <2>2. CASE i = row[s].image
      <3>1. row[s].status = "paused"
        BY <1>1, <2>1, <2>2, DaemonAssumption DEF TableInv, PauseRecorded
      <3>2. CASE image[i] = "present"
        <4>1. CASE RemovedBy(i)
          <5>1. PICK r \in Replicas : /\ pc[r] = "reap.image" /\ img[r] = i
                                      /\ pc'[r] = "row.delete" /\ target'[r] = target[r]
            BY <2>2, <4>1 DEF RemovedBy, PrivateInv, CleanupIsUnreferenced
          <5>2. target[r] = madeFor[i] /\ madeFor[i] = s
            BY <2>1, <2>2, <5>1 DEF OwnerInv, OwnResources, Procs
          <5> QED BY <5>1, <5>2
        <4> QED BY <1>3, <2>1, <3>2, <4>1
      <3>3. ASSUME NEW r \in Replicas, pc[r] = "row.delete", target[r] = s
            PROVE  pc'[r] = "row.delete" /\ target'[r] = s
        BY <1>1, <1>5, <3>3, DeleteStays DEF TableInv, NoRow
      <3> QED BY <2>2, <3>1, <3>2, <3>3 DEF ResumableInv, PausedIsResumable
    <2>3. ASSUME NEW p \in Procs, pc[p] = "pause.save", i = img[p], i # row[s].image
          PROVE  image'[i] = "present"
      <3>1. image[i] = "present"
        BY <2>3 DEF ResumableInv, PausingPresent, Pausing
      <3>2. ~RemovedBy(i)
        BY <2>3 DEF RemovedBy
      <3> QED BY <1>3, <2>1, <3>1, <3>2
    <2> QED BY <1>1, <1>2, <2>1, <2>2, <2>3, TableSource, DaemonAssumption
  <1> QED BY <1>4, <1>5 DEF ResumableInv, PausingPresent, PausedIsResumable

\* While no call to the daemon or the database fails and no replica dies, a
\* paused record names an image that exists, or the reaper that has removed
\* it is about to delete the record: through any interleaving of requests,
\* reapers and clean-ups, with the pool and with records that expire.
THEOREM Resumable ==
  ASSUME FaultKinds \cap {"docker", "db"} = {}, MaxCrashes = 0
  PROVE  Spec => []PausedIsResumable
  <1>1. Init => TypeInv /\ OwnerInv /\ PrivateInv /\ ResumableInv
    BY TypeInit, OwnerInit DEF Init, PrivateInv, PauseImageIsPrivate, CleanupIsUnreferenced, Pausing,
       ResumableInv, PausingPresent, PausedIsResumable, NoRow
  <1>2. TypeInv /\ OwnerInv /\ PrivateInv /\ ResumableInv /\ [Next]_vars
          => (TypeInv /\ OwnerInv /\ PrivateInv /\ ResumableInv)'
    BY TypeNext, OwnerNext, PrivateNext, ResumableNext
  <1> QED BY <1>1, <1>2, PTL DEF Spec, ResumableInv
=============================================================================
