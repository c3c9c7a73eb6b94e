--------------------- MODULE FirecrackerManager_proofs ---------------------
(***************************************************************************)
(* Proofs about FirecrackerManager, for any number of sandboxes,           *)
(* processes, requests and failures.                                       *)
(***************************************************************************)
EXTENDS FirecrackerManager, TLAPS

-----------------------------------------------------------------------------
(* Types.  What a request holds depends on where it is: past AllocateTap an *)
(* address, past spawnProcess a process.                                    *)

WithIP == {"create.spawn", "create.boot", "create.register", "kill.tap"}
WithVM == {"create.boot", "create.register", "resume.load", "resume.register", "resume.save"}

LocalsOK(l, t, i) ==
    /\ l # "idle" => t \in Sandboxes
    /\ l \in WithIP => i.ip \in Nat
    /\ l \in WithVM => i.vm \in VMs

Locals ==
    /\ pc \in [Requests -> PCs]
    /\ target \in [Requests -> Sandboxes \cup {Nil}]
    /\ inst \in [Requests -> Insts]
    /\ \A p \in Requests : LocalsOK(pc[p], target[p], inst[p])

TableType ==
    /\ row \in [Sandboxes -> {"absent", "running", "paused", "lapsed"}]
    /\ cleanup \subseteq [of : Sandboxes, by : VMs, at : {"image.rootfs", "image.dir"}]
    /\ born \subseteq Sandboxes
RunType == running \in [Sandboxes -> Insts]
VMType ==
    /\ vm \in [VMs -> {"free", "blank", "up", "frozen", "dead"}]
    /\ of \in [VMs -> Sandboxes \cup {Nil}]
    /\ watched \subseteq VMs
    /\ sock \in [Sandboxes -> VMs \cup {Nil}]
FileType ==
    /\ rootfs \in [Sandboxes -> BOOLEAN]
    /\ dir \in [Sandboxes -> SUBSET Files]
    /\ refused \subseteq Sandboxes
NetType ==
    /\ nextIP \in Nat
    /\ released \in Seq(Nat)
    /\ lease \in [Sandboxes -> Nat \cup {Nil}]
CountType == faults \in 0..MaxFaults /\ restarts \in 0..MaxRestarts

TypeInv == Locals /\ TableType /\ RunType /\ VMType /\ FileType /\ NetType /\ CountType

LEMMA TypeInvIsTypeOK == TypeInv => TypeOK
  BY DEF TypeInv, Locals, TableType, RunType, VMType, FileType, NetType, CountType, TypeOK

LEMMA NoInstTyped == NoInst \in Insts /\ NoInst.ip = Nil /\ NoInst.vm = Nil
  BY DEF NoInst, Insts

\* A request that moves to a place with what it has to hold there.
LEMMA Moved ==
  ASSUME Locals, NEW p \in Requests,
         NEW l \in PCs, NEW t \in Sandboxes \cup {Nil}, NEW i \in Insts,
         pc' = [pc EXCEPT ![p] = l], target' = [target EXCEPT ![p] = t],
         inst' = [inst EXCEPT ![p] = i], LocalsOK(l, t, i)
  PROVE  Locals'
  <1>1. /\ pc' \in [Requests -> PCs]
        /\ target' \in [Requests -> Sandboxes \cup {Nil}]
        /\ inst' \in [Requests -> Insts]
    BY DEF Locals
  <1>2. ASSUME NEW q \in Requests PROVE LocalsOK(pc'[q], target'[q], inst'[q])
    <2>1. CASE q = p
      BY <2>1 DEF Locals
    <2>2. CASE q # p
      <3>1. pc'[q] = pc[q] /\ target'[q] = target[q] /\ inst'[q] = inst[q]
        BY <2>2 DEF Locals
      <3> QED BY <3>1 DEF Locals
    <2> QED BY <2>1, <2>2
  <1> QED BY <1>1, <1>2 DEF Locals

LEMMA Gone ==
  ASSUME Locals, NEW p \in Requests, NEW l \in PCs, Goto(p, l), LocalsOK(l, target[p], inst[p])
  PROVE  Locals'
  <1>1. /\ target[p] \in Sandboxes \cup {Nil} /\ inst[p] \in Insts
        /\ target' = [target EXCEPT ![p] = target[p]] /\ inst' = [inst EXCEPT ![p] = inst[p]]
    BY DEF Locals, Goto
  <1> QED BY <1>1, Moved DEF Goto

LEMMA Returned ==
  ASSUME Locals, NEW p \in Requests, Return(p)
  PROVE  Locals'
  <1>1. "idle" \in PCs /\ LocalsOK("idle", Nil, NoInst)
    BY DEF PCs, LocalsOK, WithIP, WithVM
  <1> QED BY <1>1, NoInstTyped, Moved DEF Return

LEMMA Begun ==
  ASSUME Locals, NEW p \in Requests, NEW op, NEW s \in Sandboxes,
         NEW l \in PCs \ (WithIP \cup WithVM), Begin(p, op, s, l)
  PROVE  Locals'
  <1>1. inst[p] \in Insts /\ inst' = [inst EXCEPT ![p] = inst[p]]
    BY DEF Locals, Begin
  <1>2. LocalsOK(l, s, inst[p])
    BY DEF LocalsOK
  <1> QED BY <1>1, <1>2, Moved DEF Begin

\* A request that is handed an instance.
LEMMA Handed ==
  ASSUME Locals, NEW p \in Requests, NEW l \in PCs, NEW i \in Insts,
         pc' = [pc EXCEPT ![p] = l], inst' = [inst EXCEPT ![p] = i], UNCHANGED target,
         LocalsOK(l, target[p], i)
  PROVE  Locals'
  <1>1. target[p] \in Sandboxes \cup {Nil} /\ target' = [target EXCEPT ![p] = target[p]]
    BY DEF Locals
  <1> QED BY <1>1, Moved

\* A request that spawns a process has it afterwards.
LEMMA SpawnSettled ==
  ASSUME Locals, NEW p \in Requests, NEW s, Spawn(p, s), UNCHANGED target,
         NEW l \in PCs, pc' = [pc EXCEPT ![p] = l], pc[p] # "idle",
         l \in WithIP => inst[p].ip \in Nat
  PROVE  Locals'
  <1>1. PICK v \in VMs : inst' = [inst EXCEPT ![p].vm = v]
    BY DEF Spawn
  <1> DEFINE i == [inst[p] EXCEPT !.vm = v]
  <1>2. i \in Insts /\ i.vm = v /\ i.ip = inst[p].ip /\ inst' = [inst EXCEPT ![p] = i]
    BY <1>1 DEF Locals, Insts
  <1>3. LocalsOK(l, target[p], i)
    BY <1>2 DEF Locals, LocalsOK
  <1> HIDE DEF i
  <1> QED BY <1>2, <1>3, Handed

\* Every step of a request.
Step(p) ==
    \/ Create(p) \/ DeleteBegin(p) \/ ReapBegin(p) \/ KillSandbox(p) \/ Pause(p) \/ Resume(p)
    \/ ReapRootfs(p) \/ ReapDir(p)

LEMMA LocalsStep ==
  ASSUME TypeInv, NEW p \in Requests, Step(p)
  PROVE  Locals'
  <1>a. Locals /\ LocalsOK(pc[p], target[p], inst[p]) /\ pc[p] \in PCs
    BY DEF TypeInv, Locals
  <1> USE <1>a DEF PCs, LocalsOK, WithIP, WithVM
  <1>1. CASE CreateBegin(p)
    <2>1. CASE UNCHANGED procVars
      BY <2>1 DEF procVars, Locals
    <2>2. CASE \E s \in Sandboxes : Begin(p, "create", s, "create.tap")
      BY <2>2, Begun
    <2> QED BY <1>1, <2>1, <2>2 DEF CreateBegin
  <1>2. CASE CreateTap(p)
    <2>1. CASE Return(p)
      BY <2>1, Returned
    <2>2. CASE /\ AllocateIP(target[p]) /\ inst' = [inst EXCEPT ![p].ip = lease'[target[p]]]
               /\ pc' = [pc EXCEPT ![p] = "create.spawn"] /\ UNCHANGED target
      <3> DEFINE a == lease'[target[p]]
                 i == [inst[p] EXCEPT !.ip = a]
      <3>1. target[p] \in Sandboxes
        BY <1>2 DEF CreateTap
      <3>2. a \in Nat
        BY <2>2, <3>1, FirecrackerAssumption DEF AllocateIP, TypeInv, NetType
      <3>3. i \in Insts /\ i.ip = a /\ inst' = [inst EXCEPT ![p] = i]
        BY <2>2, <3>2 DEF Locals, Insts
      <3> HIDE DEF a, i
      <3> QED BY <2>2, <3>1, <3>2, <3>3, Handed
    <2> QED BY <1>2, <2>1, <2>2 DEF CreateTap
  <1>3. CASE CreateSpawn(p)
    BY <1>3, SpawnSettled, Returned DEF CreateSpawn
  <1>4. CASE CreateBoot(p)
    BY <1>4, Gone, Returned DEF CreateBoot, Rollback
  <1>5. CASE CreateRegister(p)
    BY <1>5, Gone DEF CreateRegister
  <1>6. CASE CreateSave(p)
    BY <1>6, Returned DEF CreateSave
  <1>7. CASE DeleteBegin(p)
    BY <1>7, Begun DEF DeleteBegin, Start
  <1>8. CASE ReapBegin(p)
    BY <1>8, Begun DEF ReapBegin, Start
  <1>9. CASE KillTake(p)
    <2>1. running[target[p]] \in Insts
      BY <1>9 DEF KillTake, TypeInv, RunType
    <2> QED BY <1>9, <2>1, Handed, Returned DEF KillTake
  <1>10. CASE KillProcess(p)
    <2>1. inst[p].ip # Nil => inst[p].ip \in Nat
      BY DEF Locals, Insts
    <2> QED BY <1>10, <2>1, Gone DEF KillProcess, KillThen
  <1>11. CASE KillTap(p)
    BY <1>11, Gone DEF KillTap
  <1>12. CASE KillRootfs(p)
    BY <1>12, Gone, Returned DEF KillRootfs
  <1>13. CASE DeleteRow(p)
    BY <1>13, Returned DEF DeleteRow
  <1>14. CASE PauseBegin(p)
    BY <1>14, Begun DEF PauseBegin, Start
  <1>15. CASE PauseGet(p)
    <2>1. running[target[p]] \in Insts
      BY <1>15 DEF PauseGet, TypeInv, RunType
    <2> QED BY <1>15, <2>1, Handed, Returned DEF PauseGet
  <1>16. CASE PauseFreeze(p)
    BY <1>16, Gone, Returned DEF PauseFreeze
  <1>17. CASE PauseSnapshot(p)
    BY <1>17, Gone DEF PauseSnapshot, Snapshot
  <1>18. CASE PauseManifest(p)
    BY <1>18, Gone, Returned DEF PauseManifest
  <1>19. CASE PauseKill(p)
    BY <1>19, Gone DEF PauseKill, FreeMemory
  <1>20. CASE PauseForget(p)
    BY <1>20, Gone DEF PauseForget
  <1>21. CASE PauseSave(p)
    BY <1>21, Returned DEF PauseSave
  <1>22. CASE ResumeBegin(p)
    BY <1>22, Begun DEF ResumeBegin, Start
  <1>23. CASE ResumeRead(p)
    BY <1>23, Gone, Returned DEF ResumeRead
  <1>24. CASE ResumeSpawn(p)
    BY <1>24, SpawnSettled, Returned DEF ResumeSpawn
  <1>25. CASE ResumeLoad(p)
    BY <1>25, Gone, Returned DEF ResumeLoad
  <1>26. CASE ResumeRegister(p)
    BY <1>26, Gone DEF ResumeRegister
  <1>27. CASE ResumeSave(p)
    BY <1>27, Returned DEF ResumeSave
  <1>28. CASE ReapRootfs(p)
    BY <1>28, Gone DEF ReapRootfs
  <1>29. CASE ReapDir(p)
    BY <1>29, Gone, Returned DEF ReapDir
  <1> QED
    BY <1>1, <1>2, <1>3, <1>4, <1>5, <1>6, <1>7, <1>8, <1>9, <1>10, <1>11, <1>12, <1>13, <1>14,
       <1>15, <1>16, <1>17, <1>18, <1>19, <1>20, <1>21, <1>22, <1>23, <1>24, <1>25, <1>26, <1>27,
       <1>28, <1>29 DEF Step, Create, KillSandbox, Pause, Resume

\* Everything that is not a request's step.
Other ==
    \/ \E v \in VMs : WatchExit(v) \/ VMExit(v)
    \/ \E s \in Sandboxes : Expire(s)
    \/ \E g \in cleanup : CleanupRootfs(g) \/ CleanupDir(g)
    \/ Restart

LEMMA NextSplit == Next => Other \/ \E p \in Requests : Step(p)
  BY DEF Next, Other, Step

LEMMA RowTyped ==
  ASSUME TableType, NEW p, NEW status \in {"absent", "running", "paused", "lapsed"}, RowCall(p, status)
  PROVE  row' \in [Sandboxes -> {"absent", "running", "paused", "lapsed"}]
  BY DEF TableType, RowCall

LEMMA TableStep ==
  ASSUME TypeInv, NEW p \in Requests, Step(p)
  PROVE  TableType'
  <1> USE DEF TypeInv, TableType
  <1>1. CASE CreateBegin(p)
    BY <1>1 DEF CreateBegin
  <1>2. CASE CreateSave(p)
    BY <1>2, RowTyped DEF CreateSave
  <1>3. CASE DeleteRow(p)
    BY <1>3, RowTyped DEF DeleteRow
  <1>4. CASE PauseSave(p)
    BY <1>4, RowTyped DEF PauseSave
  <1>5. CASE ResumeSave(p)
    <2>1. target[p] \in Sandboxes /\ inst[p].vm \in VMs
      BY <1>5 DEF ResumeSave, Locals, LocalsOK, WithVM
    <2>2. cleanup' \subseteq cleanup \cup {[of |-> target[p], by |-> inst[p].vm, at |-> "image.rootfs"]}
      BY <1>5 DEF ResumeSave
    <2> QED BY <1>5, <2>1, <2>2, RowTyped DEF ResumeSave
  <1>6. CASE UNCHANGED apiVars
    BY <1>6 DEF apiVars
  <1> QED
    BY <1>1, <1>2, <1>3, <1>4, <1>5, <1>6
       DEF Step, Create, KillSandbox, Pause, Resume, CreateTap, CreateSpawn, CreateBoot, CreateRegister,
           DeleteBegin, ReapBegin, Start, KillTake, KillProcess, KillThen, KillTap, KillRootfs,
           PauseBegin, PauseGet, PauseFreeze, PauseSnapshot, Snapshot, PauseManifest, PauseKill,
           FreeMemory, PauseForget, ResumeBegin, ResumeRead, ResumeSpawn, ResumeLoad, ResumeRegister,
           ReapRootfs, ReapDir

LEMMA RunStep ==
  ASSUME TypeInv, NEW p \in Requests, Step(p)
  PROVE  RunType'
  <1> USE DEF TypeInv, RunType
  <1>1. CASE CreateRegister(p)
    BY <1>1 DEF CreateRegister, Locals
  <1>2. CASE KillTake(p)
    BY <1>2, NoInstTyped DEF KillTake, Forget
  <1>3. CASE PauseForget(p)
    BY <1>3, NoInstTyped DEF PauseForget, Forget
  <1>4. CASE ResumeRegister(p)
    <2>1. Instance(inst[p].vm, Nil) \in Insts
      BY DEF Locals, Insts, Instance
    <2> QED BY <1>4, <2>1 DEF ResumeRegister
  <1>5. CASE UNCHANGED running
    BY <1>5
  <1> QED
    BY <1>1, <1>2, <1>3, <1>4, <1>5
       DEF Step, Create, KillSandbox, Pause, Resume, CreateBegin, CreateTap, CreateSpawn, CreateBoot,
           CreateSave, DeleteBegin, ReapBegin, Start, KillProcess, KillThen, KillTap, KillRootfs,
           DeleteRow, PauseBegin, PauseGet, PauseFreeze, PauseSnapshot, Snapshot, PauseManifest,
           PauseKill, FreeMemory, PauseSave, ResumeBegin, ResumeRead, ResumeSpawn, ResumeLoad,
           ResumeSave, ReapRootfs, ReapDir

LEMMA SpawnTyped ==
  ASSUME VMType, NEW p, NEW s \in Sandboxes, Spawn(p, s), UNCHANGED watched
  PROVE  VMType'
  BY DEF VMType, Spawn

LEMMA KillTyped ==
  ASSUME VMType, NEW v, Kill(v), UNCHANGED <<of, watched>>,
         sock' \in [Sandboxes -> VMs \cup {Nil}]
  PROVE  VMType'
  BY DEF VMType, Kill

LEMMA VMStep ==
  ASSUME TypeInv, NEW p \in Requests, Step(p)
  PROVE  VMType'
  <1>a. VMType /\ LocalsOK(pc[p], target[p], inst[p])
    BY DEF TypeInv, Locals
  <1> USE <1>a DEF LocalsOK, WithVM
  <1>b. UNCHANGED vmVars => VMType'
    BY DEF vmVars, VMType
  <1>c. ASSUME NEW v, NEW state \in {"up", "frozen"}, vm' = [vm EXCEPT ![v] = state],
               UNCHANGED <<of, watched, sock>>
        PROVE  VMType'
    BY <1>c DEF VMType
  <1>1. CASE CreateSpawn(p)
    BY <1>1, SpawnTyped DEF CreateSpawn, VMType
  <1>2. CASE CreateBoot(p)
    BY <1>2, <1>c, KillTyped DEF CreateBoot, StartInstance, Rollback, VMType
  <1>3. CASE CreateRegister(p)
    BY <1>3 DEF CreateRegister, Watch, VMType
  <1>4. CASE KillProcess(p)
    BY <1>4, KillTyped DEF KillProcess, KillThen, TryRemoveSockets, VMType
  <1>5. CASE PauseFreeze(p)
    BY <1>5, <1>c DEF PauseFreeze, PauseVM, VMType
  <1>6. CASE PauseKill(p)
    BY <1>6, KillTyped DEF PauseKill, FreeMemory, TryRemoveSockets, VMType
  <1>7. CASE ResumeRead(p)
    BY <1>7 DEF ResumeRead, TryRemoveSockets, VMType
  <1>8. CASE ResumeSpawn(p)
    BY <1>8, SpawnTyped DEF ResumeSpawn, VMType
  <1>9. CASE ResumeLoad(p)
    BY <1>9, <1>c, KillTyped DEF ResumeLoad, LoadSnapshot, VMType
  <1> QED
    BY <1>1, <1>2, <1>3, <1>4, <1>5, <1>6, <1>7, <1>8, <1>9, <1>b
       DEF Step, Create, KillSandbox, Pause, Resume, CreateBegin, CreateTap, CreateSave,
           DeleteBegin, ReapBegin, Start, KillTake, KillTap, KillRootfs, DeleteRow, PauseBegin,
           PauseGet, PauseSnapshot, Snapshot, PauseManifest, PauseForget, PauseSave, ResumeBegin,
           ResumeRegister, ResumeSave, ReapRootfs, ReapDir

\* What is left after a removal: nothing, unless the removal was refused.
RootfsGone(s) ==
    \/ rootfs' = [rootfs EXCEPT ![s] = FALSE]
    \/ rootfs' = rootfs /\ s \in refused'
DirGone(s) ==
    \/ dir' = [dir EXCEPT ![s] = {}]
    \/ s \in refused' /\ \E left \in SUBSET Files : dir' = [dir EXCEPT ![s] = left]

LEMMA TriedRootfs ==
  ASSUME NEW s, TryRemoveRootfsFile(s)
  PROVE  RootfsGone(s) /\ refused' \in {refused, refused \cup {s}}
  BY DEF TryRemoveRootfsFile, RemoveRootfsFile, Refused, RootfsGone

LEMMA TriedDir ==
  ASSUME FileType, NEW s \in Sandboxes, TryRemoveDir(s) \/ RemoveDir(s) \/ RemoveDirFails(s)
  PROVE  DirGone(s) /\ refused' \in {refused, refused \cup {s}}
  <1>1. RemovePart(s) => \E left \in SUBSET Files : dir' = [dir EXCEPT ![s] = left]
    BY DEF RemovePart, FileType
  <1> QED BY <1>1 DEF TryRemoveDir, RemoveDir, RemoveDirFails, Refused, DirGone

LEMMA TriedImage ==
  ASSUME NEW s, RemoveRootfs(s)
  PROVE  /\ dir' = dir
         /\ \/ "manifest" \in dir[s] /\ RootfsGone(s) /\ refused' \in {refused, refused \cup {s}}
            \/ "manifest" \notin dir[s] /\ UNCHANGED <<rootfs, refused>>
  BY TriedRootfs DEF RemoveRootfs

\* A step removes, or fails to remove, files of the sandbox it works on.
LEMMA RefusedStep ==
  ASSUME TypeInv, NEW p \in Requests, Step(p)
  PROVE  \/ refused' = refused
         \/ /\ ~CreateBegin(p) /\ target[p] \in Sandboxes
            /\ refused' = refused \cup {target[p]}
         \/ CreateBegin(p) /\ \E s \in Sandboxes \ born : born' = born \cup {s} /\ refused' = refused \cup {s}
  <1>1. CASE CreateBegin(p)
    BY <1>1 DEF CreateBegin, Refused
  <1>2. CASE CreateTap(p) \/ CreateSpawn(p) \/ CreateBoot(p) \/ ReapRootfs(p) \/ ReapDir(p)
             \/ PauseFreeze(p) \/ PauseSnapshot(p) \/ PauseManifest(p)
    <2>1. target[p] \in Sandboxes /\ ~CreateBegin(p)
      BY <1>2 DEF CreateTap, CreateSpawn, CreateBoot, ReapRootfs, ReapDir, PauseFreeze, PauseSnapshot, Snapshot,
         PauseManifest, TypeInv, Locals, LocalsOK, CreateBegin, Begin, Fault
    <2>2. refused' \in {refused, refused \cup {target[p]}}
      BY <1>2 DEF CreateTap, CreateSpawn, CreateBoot, Rollback, ReapRootfs, RemoveRootfs, ReapDir, RemoveDir,
         RemoveDirFails, PauseFreeze, PauseSnapshot, Snapshot, PauseManifest, TryRemoveDir,
         TryRemoveRootfsFile, Refused
    <2> QED BY <2>1, <2>2
  <1> QED
    BY <1>1, <1>2
       DEF Step, Create, KillSandbox, Pause, Resume, CreateRegister, CreateSave, DeleteBegin, ReapBegin,
           Start, KillTake, KillProcess, KillThen, KillTap, KillRootfs, DeleteRow, PauseBegin, PauseGet,
           PauseKill, FreeMemory, PauseForget, PauseSave, ResumeBegin, ResumeRead, ResumeSpawn, ResumeLoad,
           ResumeRegister, ResumeSave, fileVars

LEMMA FilesTyped ==
  ASSUME FileType, NEW s, refused' \subseteq Sandboxes,
         rootfs' = rootfs \/ \E there \in BOOLEAN : rootfs' = [rootfs EXCEPT ![s] = there],
         dir' = dir \/ \E held \in SUBSET Files : dir' = [dir EXCEPT ![s] = held]
  PROVE  FileType'
  BY DEF FileType

LEMMA FileStep ==
  ASSUME TypeInv, NEW p \in Requests, Step(p)
  PROVE  FileType'
  <1>a. FileType /\ LocalsOK(pc[p], target[p], inst[p]) /\ refused' \subseteq Sandboxes
    BY RefusedStep DEF TypeInv, Locals, FileType
  <1> USE <1>a
  <1>b. UNCHANGED fileVars => FileType'
    BY DEF fileVars, FileType
  <1>1. CASE CreateBegin(p)
    BY <1>1 DEF CreateBegin, FileType
  <1>2. CASE CreateTap(p) \/ CreateSpawn(p) \/ CreateBoot(p) \/ KillRootfs(p)
    <2>1. dir' = dir /\ rootfs' \in {rootfs, [rootfs EXCEPT ![target[p]] = FALSE]}
      BY <1>2 DEF CreateTap, CreateSpawn, CreateBoot, Rollback, KillRootfs, RemoveRootfsFile, TryRemoveRootfsFile
    <2> QED BY <2>1 DEF FileType
  <1>3. CASE PauseGet(p) \/ PauseFreeze(p) \/ PauseSnapshot(p) \/ PauseManifest(p)
    <2>0. target[p] \in Sandboxes
      BY <1>3 DEF PauseGet, PauseFreeze, PauseSnapshot, Snapshot, PauseManifest, LocalsOK
    <2>1. rootfs' = rootfs
      BY <1>3 DEF PauseGet, PauseFreeze, PauseSnapshot, Snapshot, PauseManifest
    <2>2. \/ dir' = dir
          \/ DirGone(target[p])
          \/ \E f \in Files : dir' = [dir EXCEPT ![target[p]] = dir[target[p]] \cup {f}]
      BY <1>3, <2>0, TriedDir
         DEF PauseGet, PauseFreeze, PauseSnapshot, Snapshot, CreateSnapshot, PauseManifest, Files
    <2>3. dir' = dir \/ \E held \in SUBSET Files : dir' = [dir EXCEPT ![target[p]] = held]
      BY <2>0, <2>2 DEF DirGone, FileType
    <2> QED BY <2>1, <2>3, FilesTyped
  <1>4. CASE PauseKill(p)
    BY <1>4 DEF PauseKill, FreeMemory, FileType
  <1>5. CASE ReapRootfs(p) \/ ReapDir(p)
    <2>0. target[p] \in Sandboxes
      BY <1>5 DEF ReapRootfs, ReapDir, LocalsOK
    <2>1. \/ RemoveRootfs(target[p])
          \/ DirGone(target[p]) /\ rootfs' = rootfs
      BY <1>5, <2>0, TriedDir DEF ReapRootfs, ReapDir, RemoveDir, RemoveDirFails
    <2>2. CASE RemoveRootfs(target[p])
      BY <2>2, TriedImage, FilesTyped DEF RootfsGone
    <2>3. CASE DirGone(target[p]) /\ rootfs' = rootfs
      BY <2>3, FilesTyped DEF DirGone
    <2> QED BY <2>1, <2>2, <2>3
  <1> QED
    BY <1>1, <1>2, <1>3, <1>4, <1>5, <1>b
       DEF Step, Create, KillSandbox, Pause, Resume, CreateRegister, CreateSave, DeleteBegin, ReapBegin,
           Start, KillTake, KillProcess, KillThen, KillTap, DeleteRow, PauseBegin, PauseForget,
           PauseSave, ResumeBegin, ResumeRead, ResumeSpawn, ResumeLoad, ResumeRegister, ResumeSave

LEMMA ReleaseTyped ==
  ASSUME NetType, NEW s, NEW a \in Nat, ReleaseTap(s, a)
  PROVE  NetType'
  <1>1. Append(released, a) \in Seq(Nat)
    BY DEF NetType
  <1>2. [lease EXCEPT ![s] = Nil] \in [Sandboxes -> Nat \cup {Nil}]
    BY DEF NetType
  <1> QED BY <1>1, <1>2 DEF NetType, ReleaseTap

LEMMA LastByte == ASSUME NEW n \in Nat PROVE n % Space \in Nat /\ (n < Space => n % Space = n)
  BY FirecrackerAssumption

LEMMA AllocateTyped ==
  ASSUME NetType, NEW s, AllocateIP(s)
  PROVE  NetType'
  <1>1. CASE Len(released) > 0
    <2> DEFINE n == Len(released)
    <2>1. n \in Nat /\ released[n] \in Nat /\ SubSeq(released, 1, n - 1) \in Seq(Nat)
      BY <1>1 DEF NetType
    <2>2. [lease EXCEPT ![s] = released[n]] \in [Sandboxes -> Nat \cup {Nil}]
      BY <2>1 DEF NetType
    <2>3. /\ lease' = [lease EXCEPT ![s] = released[n]]
          /\ released' = SubSeq(released, 1, n - 1) /\ nextIP' = nextIP
      BY <1>1 DEF AllocateIP
    <2> QED BY <2>1, <2>2, <2>3 DEF NetType
  <1>2. CASE Len(released) = 0
    <2>1. nextIP % Space \in Nat
      BY LastByte DEF NetType
    <2> QED BY <1>2, <2>1 DEF NetType, AllocateIP
  <1> QED BY <1>1, <1>2 DEF AllocateIP

LEMMA NetStep ==
  ASSUME TypeInv, NEW p \in Requests, Step(p)
  PROVE  NetType'
  <1>a. NetType /\ LocalsOK(pc[p], target[p], inst[p])
    BY DEF TypeInv, Locals
  <1> USE <1>a
  <1>b. UNCHANGED netVars => NetType'
    BY DEF netVars, NetType
  <1>1. CASE CreateTap(p)
    BY <1>1, <1>b, AllocateTyped DEF CreateTap
  <1>2. CASE CreateBoot(p)
    <2>1. inst[p].ip \in Nat
      BY <1>2 DEF CreateBoot, LocalsOK, WithIP
    <2> QED BY <1>2, <2>1, <1>b, ReleaseTyped DEF CreateBoot, Rollback
  <1>3. CASE KillTap(p)
    BY <1>3, ReleaseTyped DEF KillTap, LocalsOK, WithIP
  <1> QED
    BY <1>1, <1>2, <1>3, <1>b
       DEF Step, Create, KillSandbox, Pause, Resume, CreateBegin, CreateSpawn, CreateRegister,
           CreateSave, DeleteBegin, ReapBegin, Start, KillTake, KillProcess, KillThen, KillRootfs,
           DeleteRow, PauseBegin, PauseGet, PauseFreeze, PauseSnapshot, Snapshot, PauseManifest,
           PauseKill, FreeMemory, PauseForget, PauseSave, ResumeBegin, ResumeRead, ResumeSpawn,
           ResumeLoad, ResumeRegister, ResumeSave, ReapRootfs, ReapDir

LEMMA FaultTyped ==
  ASSUME CountType, UNCHANGED restarts, NoFault \/ \E kind : Fault(kind)
  PROVE  CountType'
  BY FirecrackerAssumption DEF CountType, NoFault, Fault

LEMMA StepIsNoRestart ==
  ASSUME NEW p \in Requests, Step(p)
  PROVE  UNCHANGED restarts /\ (NoFault \/ \E kind : Fault(kind))
  BY DEF NoFault, Step, Create, KillSandbox, Pause, Resume, CreateBegin, CreateTap, CreateSpawn, CreateBoot,
         CreateRegister, CreateSave, DeleteBegin, ReapBegin, Start, KillTake, KillProcess, KillThen,
         KillTap, KillRootfs, DeleteRow, RowCall, PauseBegin, PauseGet, PauseFreeze, PauseSnapshot,
         Snapshot, PauseManifest, PauseKill, FreeMemory, PauseForget, PauseSave, ResumeBegin,
         ResumeRead, ResumeSpawn, ResumeLoad, ResumeRegister, ResumeSave, ReapRootfs, ReapDir

LEMMA CountStep ==
  ASSUME TypeInv, NEW p \in Requests, Step(p)
  PROVE  CountType'
  BY StepIsNoRestart, FaultTyped DEF TypeInv

LEMMA OtherTypes ==
  ASSUME TypeInv, Other
  PROVE  TypeInv'
  <1> USE DEF TypeInv
  <1>a. UNCHANGED procVars => Locals'
    BY DEF procVars, Locals
  <1>b. /\ UNCHANGED apiVars => TableType'
        /\ UNCHANGED vmVars => VMType'
        /\ UNCHANGED fileVars => FileType'
        /\ UNCHANGED netVars => NetType'
        /\ UNCHANGED running => RunType'
    BY DEF apiVars, vmVars, fileVars, netVars, TableType, VMType, FileType, NetType, RunType
  <1>c. UNCHANGED <<faults, restarts>> => CountType'
    BY DEF CountType
  <1>1. ASSUME NEW v \in VMs, WatchExit(v) PROVE TypeInv'
    <2>1. VMType'
      BY <1>1 DEF WatchExit, VMType
    <2>2. RunType'
      BY <1>1, NoInstTyped DEF WatchExit, RunType
    <2> QED BY <1>1, <1>a, <1>b, <1>c, <2>1, <2>2 DEF WatchExit, apiVars, procVars, fileVars, netVars
  <1>2. ASSUME NEW v \in VMs, VMExit(v) PROVE TypeInv'
    <2>1. VMType'
      BY <1>2, KillTyped DEF VMExit, VMType
    <2>2. CountType'
      BY <1>2, FaultTyped DEF VMExit
    <2> QED BY <1>2, <1>a, <1>b, <2>1, <2>2 DEF VMExit
  <1>3. ASSUME NEW s \in Sandboxes, Expire(s) PROVE TypeInv'
    <2>1. TableType'
      BY <1>3 DEF Expire, TableType
    <2> QED BY <1>3, <1>a, <1>b, <1>c, <2>1 DEF Expire
  <1>4. ASSUME NEW g \in cleanup, CleanupRootfs(g) PROVE TypeInv'
    <2>0. g \in [of : Sandboxes, by : VMs, at : {"image.rootfs", "image.dir"}]
      BY DEF TableType
    <2>1. TableType'
      BY <1>4, <2>0 DEF CleanupRootfs, TableType
    <2>2. FileType'
      <3>1. RemoveRootfs(g.of) /\ g.of \in Sandboxes
        BY <1>4, <2>0 DEF CleanupRootfs
      <3>2. /\ refused' \subseteq Sandboxes /\ dir' = dir
            /\ rootfs' = rootfs \/ rootfs' = [rootfs EXCEPT ![g.of] = FALSE]
        BY <3>1, TriedImage DEF RootfsGone, FileType
      <3> QED BY <3>2 DEF FileType
    <2> QED BY <1>4, <1>a, <1>b, <1>c, <2>1, <2>2 DEF CleanupRootfs
  <1>5. ASSUME NEW g \in cleanup, CleanupDir(g) PROVE TypeInv'
    <2>1. TableType'
      BY <1>5 DEF CleanupDir, TableType
    <2>0. g.of \in Sandboxes
      BY DEF TableType
    <2>2. FileType'
      BY <1>5, <2>0, TriedDir, FilesTyped DEF CleanupDir, RemoveDir, RemoveDirFails, DirGone, FileType
    <2>3. CountType'
      BY <1>5, FaultTyped DEF CleanupDir
    <2> QED BY <1>5, <1>a, <1>b, <2>1, <2>2, <2>3 DEF CleanupDir
  <1>6. CASE Restart
    <2>1. Locals'
      BY <1>6, NoInstTyped DEF Restart, Locals, PCs, LocalsOK, WithIP, WithVM
    <2>2. TableType'
      BY <1>6 DEF Restart, TableType
    <2>3. VMType'
      BY <1>6 DEF Restart, VMType
    <2>4. NetType'
      BY <1>6 DEF Restart, NetType
    <2>5. RunType' /\ FileType'
      BY <1>6, <1>b, NoInstTyped DEF Restart, RunType
    <2>6. CountType'
      BY <1>6, FirecrackerAssumption DEF Restart, CountType
    <2> QED BY <2>1, <2>2, <2>3, <2>4, <2>5, <2>6
  <1> QED BY <1>1, <1>2, <1>3, <1>4, <1>5, <1>6 DEF Other

LEMMA TypesKept == TypeInv /\ [Next]_vars => TypeInv'
  <1> SUFFICES ASSUME TypeInv, [Next]_vars PROVE TypeInv'
    OBVIOUS
  <1>1. CASE UNCHANGED vars
    BY <1>1 DEF vars, apiVars, vmVars, fileVars, netVars, procVars, TypeInv, Locals, TableType, RunType,
       VMType, FileType, NetType, CountType
  <1>2. CASE Other
    BY <1>2, OtherTypes
  <1>3. ASSUME NEW p \in Requests, Step(p) PROVE TypeInv'
    BY <1>3, LocalsStep, TableStep, RunStep, VMStep, FileStep, NetStep, CountStep DEF TypeInv
  <1> QED BY <1>1, <1>2, <1>3, NextSplit

LEMMA InitTyped == Init => TypeInv
  <1> SUFFICES ASSUME Init PROVE TypeInv
    OBVIOUS
  <1>1. Locals
    BY NoInstTyped DEF Init, Locals, PCs, LocalsOK, WithIP, WithVM
  <1>2. TableType /\ VMType /\ FileType /\ RunType
    BY NoInstTyped DEF Init, TableType, VMType, FileType, RunType
  <1>3. NetType /\ CountType
    BY FirecrackerAssumption DEF Init, NetType, CountType
  <1> QED BY <1>1, <1>2, <1>3 DEF TypeInv

\* Every variable stays in its type; with TypeInv, a request past AllocateTap
\* has an address and one past spawnProcess a process.
THEOREM TypeCorrect == Spec => []TypeOK
  <1>1. Spec => []TypeInv
    BY InitTyped, TypesKept, PTL DEF Spec
  <1> QED BY <1>1, TypeInvIsTypeOK, PTL

-----------------------------------------------------------------------------
(* Addresses.  While the server runs, the address of a tap device that will *)
(* be returned is in one place: with the request that creates or kills the  *)
(* sandbox, or in the sandbox's entry in m.running.                         *)

Creating == {"create.tap", "create.spawn", "create.boot", "create.register"}
Holding == {"create.spawn", "create.boot", "create.register", "kill.process", "kill.tap"}
Holds(p) == pc[p] \in Holding /\ inst[p].ip # Nil

Fresh ==
    \A s \in Sandboxes \ born : row[s] = "absent" /\ running[s] = NoInst /\ lease[s] = Nil
Known == \A p \in Requests : target[p] # Nil => target[p] \in born

\* Before its row is written, nobody else works on a sandbox.
CreatesAlone ==
    \A p \in Requests : pc[p] \in Creating =>
        /\ row[target[p]] = "absent" /\ running[target[p]] = NoInst
        /\ pc[p] = "create.tap" => lease[target[p]] = Nil
        /\ \A q \in Requests : q # p => target[q] # target[p]

HeldByOne ==
    \A p \in Requests : Holds(p) =>
        /\ inst[p].ip = lease[target[p]] /\ running[target[p]].ip = Nil
        /\ \A q \in Requests : q # p /\ Holds(q) => target[q] # target[p]

Registered == \A s \in Sandboxes : running[s].ip # Nil => running[s].ip = lease[s]

Owned == Fresh /\ Known /\ CreatesAlone /\ HeldByOne /\ Registered

LEMMA TargetTyped ==
  ASSUME TypeInv, NEW p \in Requests, pc[p] # "idle"
  PROVE  target[p] \in Sandboxes /\ target[p] # Nil
  BY FirecrackerAssumption DEF TypeInv, Locals, LocalsOK

\* A request that goes on, or returns, without an address changing hands.
LEMMA OwnGo ==
  ASSUME TypeInv, Owned, NEW p \in Requests,
         NEW l, NEW t \in {target[p], Nil}, NEW i,
         pc' = [pc EXCEPT ![p] = l], target' = [target EXCEPT ![p] = t], inst' = [inst EXCEPT ![p] = i],
         UNCHANGED <<lease, born>>,
         \A s \in Sandboxes : row'[s] = row[s] \/ (s = target[p] /\ l \notin Creating),
         \A s \in Sandboxes : \/ running'[s] = running[s]
                              \/ s = target[p] /\ l \notin Creating /\ running'[s].ip = Nil,
         l \in Creating => pc[p] \in Creating /\ t = target[p] /\ l # "create.tap",
         l \in Holding /\ i.ip # Nil => Holds(p) /\ t = target[p] /\ i.ip = inst[p].ip
  PROVE  Owned'
  <1> USE DEF Owned
  <1>a. \A q \in Requests : /\ q # p => pc'[q] = pc[q] /\ target'[q] = target[q] /\ inst'[q] = inst[q]
                            /\ pc'[p] = l /\ target'[p] = t /\ inst'[p] = i
    BY DEF TypeInv, Locals
  <1>b. \A q \in Requests : pc[q] \in Creating \cup Holding => target[q] \in Sandboxes /\ target[q] # Nil
    BY TargetTyped DEF Creating, Holding
  <1>c. Nil \notin Sandboxes
    BY FirecrackerAssumption
  <1>1. Fresh'
    BY <1>c DEF Fresh, Known
  <1>2. Known'
    BY <1>a DEF Known
  <1>3. CreatesAlone'
    <2> SUFFICES ASSUME NEW q \in Requests, pc'[q] \in Creating
                 PROVE  /\ row'[target'[q]] = "absent" /\ running'[target'[q]] = NoInst
                        /\ pc'[q] = "create.tap" => lease'[target'[q]] = Nil
                        /\ \A r \in Requests : r # q => target'[r] # target'[q]
      BY DEF CreatesAlone
    <2>1. pc[q] \in Creating /\ target'[q] = target[q] /\ (pc'[q] = "create.tap" => pc[q] = "create.tap")
      BY <1>a
    <2>2. \A r \in Requests : r # q => target'[r] # target'[q]
      BY <2>1, <1>a, <1>b DEF CreatesAlone
    <2>3. q # p => target[p] # target[q]
      BY <2>1 DEF CreatesAlone
    <2> QED BY <2>1, <2>2, <2>3, <1>a, <1>b DEF CreatesAlone
  <1>4. \A q \in Requests : Holds(q)' => Holds(q) /\ target'[q] = target[q] /\ inst'[q].ip = inst[q].ip
    BY <1>a DEF Holds
  <1>5. HeldByOne'
    <2> SUFFICES ASSUME NEW q \in Requests, Holds(q)'
                 PROVE  /\ inst'[q].ip = lease'[target'[q]] /\ running'[target'[q]].ip = Nil
                        /\ \A r \in Requests : r # q /\ Holds(r)' => target'[r] # target'[q]
      BY DEF HeldByOne
    <2>1. target[q] \in Sandboxes
      BY <1>4, <1>b DEF Holds
    <2> QED BY <1>4, <2>1 DEF HeldByOne
  <1>6. Registered'
    BY DEF Registered
  <1> QED BY <1>1, <1>2, <1>3, <1>5, <1>6

\* The forms of OwnGo: to another call, back, with another process.
LEMMA OwnGoto ==
  ASSUME TypeInv, Owned, NEW p \in Requests, NEW l, Goto(p, l),
         UNCHANGED <<netVars, born>>,
         \A s \in Sandboxes : row'[s] = row[s] \/ (s = target[p] /\ l \notin Creating),
         \A s \in Sandboxes : \/ running'[s] = running[s]
                              \/ s = target[p] /\ l \notin Creating /\ running'[s].ip = Nil,
         l \in Creating => pc[p] \in Creating /\ l # "create.tap",
         l \in Holding => pc[p] \in Holding
  PROVE  Owned'
  <1>1. target' = [target EXCEPT ![p] = target[p]] /\ inst' = [inst EXCEPT ![p] = inst[p]]
    BY DEF Goto, TypeInv, Locals
  <1>2. l \in Holding /\ inst[p].ip # Nil => Holds(p)
    BY DEF Holds
  <1> QED BY <1>1, <1>2, OwnGo DEF Goto, netVars

LEMMA OwnReturn ==
  ASSUME TypeInv, Owned, NEW p \in Requests, Return(p),
         UNCHANGED <<netVars, born, running>>,
         \A s \in Sandboxes : row'[s] = row[s] \/ s = target[p]
  PROVE  Owned'
  <1>1. "idle" \notin Creating /\ "idle" \notin Holding
    BY DEF Creating, Holding
  <1> QED BY <1>1, OwnGo DEF Return, netVars

LEMMA OwnSpawn ==
  ASSUME TypeInv, Owned, NEW p \in Requests, NEW l, Spawn(p, target[p]), UNCHANGED target,
         pc' = [pc EXCEPT ![p] = l],
         UNCHANGED <<netVars, born, row, running>>,
         l \in Creating => pc[p] \in Creating /\ l # "create.tap",
         l \in Holding => pc[p] \in Holding
  PROVE  Owned'
  <1>1. PICK v \in VMs : inst' = [inst EXCEPT ![p].vm = v]
    BY DEF Spawn
  <1> DEFINE i == [inst[p] EXCEPT !.vm = v]
  <1>2. /\ i.ip = inst[p].ip /\ inst' = [inst EXCEPT ![p] = i]
        /\ target' = [target EXCEPT ![p] = target[p]]
    BY <1>1 DEF TypeInv, Locals, Insts
  <1>3. l \in Holding /\ i.ip # Nil => Holds(p)
    BY <1>2 DEF Holds
  <1> HIDE DEF i
  <1> QED BY <1>2, <1>3, OwnGo DEF netVars

LEMMA OwnBegin ==
  ASSUME TypeInv, Owned, NEW p \in Requests, NEW op, NEW s \in Sandboxes,
         NEW l \in {"kill.take", "image.rootfs", "pause.get", "resume.read"},
         Start(p, op, s, l), row[s] # "absent"
  PROVE  Owned'
  <1> USE DEF Owned
  <1>a. \A q \in Requests : /\ q # p => pc'[q] = pc[q] /\ target'[q] = target[q]
                            /\ pc'[p] = l /\ target'[p] = s
    BY DEF TypeInv, Locals, Start, Begin
  <1>b. UNCHANGED <<row, running, lease, born, inst>> /\ l \notin Creating /\ l \notin Holding
    BY DEF Start, Begin, apiVars, netVars, Creating, Holding
  <1>1. s \in born
    BY DEF Fresh
  <1>2. \A q \in Requests : Holds(q)' => Holds(q) /\ q # p
    BY <1>a, <1>b DEF Holds
  <1>3. Fresh' /\ Registered'
    BY <1>b DEF Fresh, Registered
  <1>4. Known'
    BY <1>a, <1>b, <1>1 DEF Known
  <1>5. CreatesAlone'
    BY <1>a, <1>b DEF CreatesAlone
  <1>6. HeldByOne'
    BY <1>a, <1>b, <1>2 DEF HeldByOne
  <1> QED BY <1>3, <1>4, <1>5, <1>6

\* CreateBegin: a fresh uuid is nobody's.
LEMMA OwnCreateBegin ==
  ASSUME TypeInv, Owned, NEW p \in Requests, CreateBegin(p)
  PROVE  Owned'
  <1> USE DEF Owned
  <1>1. PICK s \in Sandboxes \ born : CreateBegin(p)!(s)
    BY DEF CreateBegin
  <1>a. born' = born \cup {s} /\ UNCHANGED <<row, running, lease, inst>>
    BY <1>1 DEF Begin, procVars, netVars
  <1>b. s # Nil
    BY FirecrackerAssumption
  <1>2. CASE Begin(p, "create", s, "create.tap")
    <2>a. \A q \in Requests : /\ q # p => pc'[q] = pc[q] /\ target'[q] = target[q]
                              /\ pc'[p] = "create.tap" /\ target'[p] = s
      BY <1>2 DEF TypeInv, Locals, Begin
    <2>1. \A q \in Requests : target[q] # s
      BY <1>b DEF Known
    <2>2. row[s] = "absent" /\ running[s] = NoInst /\ lease[s] = Nil
      BY DEF Fresh
    <2>3. \A q \in Requests : Holds(q)' => Holds(q) /\ q # p
      BY <2>a, <1>a DEF Holds, Holding
    <2>4. Fresh' /\ Registered' /\ Known'
      BY <1>a, <2>a DEF Fresh, Registered, Known
    <2>5. CreatesAlone'
      BY <1>a, <2>a, <2>1, <2>2 DEF CreatesAlone
    <2>6. HeldByOne'
      BY <1>a, <2>a, <2>3 DEF HeldByOne
    <2> QED BY <2>4, <2>5, <2>6
  <1>3. CASE UNCHANGED procVars
    BY <1>3, <1>a DEF procVars, Fresh, Registered, Known, CreatesAlone, HeldByOne, Holds
  <1> QED BY <1>1, <1>2, <1>3

\* AllocateTap: the address goes to the request that asked.
LEMMA OwnAllocate ==
  ASSUME TypeInv, Owned, NEW p \in Requests, pc[p] = "create.tap", AllocateIP(target[p]),
         inst' = [inst EXCEPT ![p].ip = lease'[target[p]]],
         pc' = [pc EXCEPT ![p] = "create.spawn"],
         UNCHANGED <<target, row, running, born>>
  PROVE  Owned'
  <1> USE DEF Owned
  <1>0. target[p] \in Sandboxes /\ target[p] # Nil
    BY TargetTyped
  <1>a. \A q \in Requests : /\ q # p => pc'[q] = pc[q] /\ inst'[q] = inst[q]
                            /\ pc'[p] = "create.spawn" /\ inst'[p].ip = lease'[target[p]]
    BY DEF TypeInv, Locals, Insts
  <1>b. \A s \in Sandboxes : s # target[p] => lease'[s] = lease[s]
    BY DEF AllocateIP, TypeInv, NetType
  <1>c. "create.tap" \in Creating /\ "create.spawn" \in Creating /\ "create.tap" \notin Holding
    BY DEF Creating, Holding
  <1>d. \A q \in Requests : q # p => target[q] # target[p]
    BY <1>c DEF CreatesAlone
  <1>e. running[target[p]] = NoInst /\ row[target[p]] = "absent"
    BY <1>c DEF CreatesAlone
  <1>f. \A q \in Requests : pc[q] \in Creating \cup Holding => target[q] \in Sandboxes
    BY TargetTyped DEF Creating, Holding
  <1>g. \A q \in Requests : q # p => (Holds(q)' <=> Holds(q))
    BY <1>a DEF Holds
  <1>1. target[p] \in born
    BY <1>0 DEF Known
  <1>2. Fresh' /\ Known'
    BY <1>1, <1>b DEF Fresh, Known
  <1>3. CreatesAlone'
    BY <1>a, <1>b, <1>c, <1>d, <1>f DEF CreatesAlone
  <1>4. HeldByOne'
    <2> SUFFICES ASSUME NEW q \in Requests, Holds(q)'
                 PROVE  /\ inst'[q].ip = lease'[target[q]] /\ running[target[q]].ip = Nil
                        /\ \A r \in Requests : r # q /\ Holds(r)' => target[r] # target[q]
      BY DEF HeldByOne
    <2>1. CASE q = p
      BY <2>1, <1>a, <1>d, <1>e, NoInstTyped
    <2>2. CASE q # p
      <3>1. Holds(q) /\ target[q] \in Sandboxes /\ target[q] # target[p]
        BY <2>2, <1>d, <1>f, <1>g DEF Holds
      <3> QED BY <2>2, <3>1, <1>a, <1>b, <1>g DEF HeldByOne
    <2> QED BY <2>1, <2>2
  <1>5. Registered'
    BY <1>b, <1>e, NoInstTyped DEF Registered
  <1> QED BY <1>2, <1>3, <1>4, <1>5

\* ReleaseTap: the request that held the address holds it no more.
LEMMA OwnRelease ==
  ASSUME TypeInv, Owned, NEW p \in Requests, Holds(p), ReleaseTap(target[p], inst[p].ip),
         NEW l, l \notin Creating \cup Holding, Goto(p, l) \/ (l = "idle" /\ Return(p)),
         UNCHANGED <<row, running, born>>
  PROVE  Owned'
  <1> USE DEF Owned
  <1>a. \A q \in Requests : /\ q # p => pc'[q] = pc[q] /\ inst'[q] = inst[q] /\ target'[q] = target[q]
                            /\ pc'[p] = l /\ target'[p] \in {target[p], Nil}
    BY DEF TypeInv, Locals, Goto, Return
  <1>b. \A s \in Sandboxes : lease'[s] = IF s = target[p] THEN Nil ELSE lease[s]
    BY DEF ReleaseTap, TypeInv, NetType
  <1>f. \A q \in Requests : pc[q] \in Creating \cup Holding => target[q] \in Sandboxes
    BY TargetTyped DEF Creating, Holding
  <1>g. \A q \in Requests : Holds(q)' => q # p /\ Holds(q) /\ target[q] # target[p]
    BY <1>a DEF Holds, HeldByOne
  <1>1. running[target[p]].ip = Nil /\ target[p] \in Sandboxes
    BY <1>f DEF HeldByOne, Holds
  <1>2. Fresh'
    BY <1>b DEF Fresh
  <1>3. Known'
    BY <1>a DEF Known
  <1>4. CreatesAlone'
    <2> SUFFICES ASSUME NEW q \in Requests, pc'[q] \in Creating
                 PROVE  /\ row[target'[q]] = "absent" /\ running[target'[q]] = NoInst
                        /\ pc'[q] = "create.tap" => lease'[target'[q]] = Nil
                        /\ \A r \in Requests : r # q => target'[r] # target'[q]
      BY DEF CreatesAlone
    <2>1. q # p /\ pc[q] \in Creating /\ target'[q] = target[q] /\ target[q] \in Sandboxes
      BY <1>a, <1>f
    <2>2. target[q] # Nil /\ \A r \in Requests : r # q => target[r] # target[q]
      BY <2>1, FirecrackerAssumption DEF CreatesAlone
    <2> QED BY <2>1, <2>2, <1>a, <1>b DEF CreatesAlone
  <1>5. HeldByOne'
    BY <1>a, <1>b, <1>f, <1>g DEF HeldByOne, Holds
  <1>6. Registered'
    BY <1>1, <1>b DEF Registered
  <1> QED BY <1>2, <1>3, <1>4, <1>5, <1>6

\* CreateRegister: from the request to the entry.
LEMMA OwnRegister ==
  ASSUME TypeInv, Owned, NEW p \in Requests, CreateRegister(p)
  PROVE  Owned'
  <1> USE DEF Owned
  <1>0. /\ pc[p] = "create.register" /\ target[p] \in Sandboxes /\ target[p] # Nil
        /\ inst[p].ip \in Nat /\ inst[p].ip # Nil
    BY TargetTyped, FirecrackerAssumption DEF CreateRegister, TypeInv, Locals, LocalsOK, WithIP
  <1>a. \A q \in Requests : /\ q # p => pc'[q] = pc[q]
                            /\ pc'[p] = "create.save"
    BY DEF CreateRegister, Goto, TypeInv, Locals
  <1>b. \A s \in Sandboxes : running'[s] = IF s = target[p] THEN inst[p] ELSE running[s]
    BY DEF CreateRegister, TypeInv, RunType
  <1>c. UNCHANGED <<target, inst, row, born, lease>>
    BY DEF CreateRegister, Goto, apiVars, netVars
  <1>d. /\ Holds(p) /\ "create.register" \in Creating
        /\ "create.save" \notin Creating /\ "create.save" \notin Holding
    BY <1>0 DEF Holds, Creating, Holding
  <1>e. target[p] \in born /\ inst[p].ip = lease[target[p]] /\ \A q \in Requests : q # p => target[q] # target[p]
    BY <1>0, <1>d DEF Known, HeldByOne, CreatesAlone
  <1>f. \A q \in Requests : pc[q] \in Creating \cup Holding => target[q] \in Sandboxes
    BY TargetTyped DEF Creating, Holding
  <1>g. \A q \in Requests : Holds(q)' => q # p /\ Holds(q)
    BY <1>a, <1>c, <1>d DEF Holds
  <1>1. Fresh' /\ Known'
    BY <1>b, <1>c, <1>e DEF Fresh, Known
  <1>2. CreatesAlone'
    BY <1>a, <1>b, <1>c, <1>d, <1>e, <1>f DEF CreatesAlone
  <1>3. HeldByOne'
    BY <1>b, <1>c, <1>e, <1>f, <1>g DEF HeldByOne, Holds
  <1>4. Registered'
    BY <1>b, <1>c, <1>e DEF Registered
  <1> QED BY <1>1, <1>2, <1>3, <1>4

\* KillTake: from the entry to the request.
LEMMA OwnTake ==
  ASSUME TypeInv, Owned, NEW p \in Requests, KillTake(p), running[target[p]] # NoInst
  PROVE  Owned'
  <1> USE DEF Owned
  <1>0. pc[p] = "kill.take" /\ target[p] \in Sandboxes /\ target[p] # Nil
    BY TargetTyped DEF KillTake
  <1>a. \A q \in Requests : /\ q # p => pc'[q] = pc[q] /\ inst'[q] = inst[q]
                            /\ pc'[p] = "kill.process" /\ inst'[p] = running[target[p]]
    BY DEF KillTake, TypeInv, Locals
  <1>b. \A s \in Sandboxes : running'[s] = IF s = target[p] THEN NoInst ELSE running[s]
    BY DEF KillTake, Forget, TypeInv, RunType
  <1>c. UNCHANGED <<target, row, born, lease>>
    BY DEF KillTake, apiVars, netVars
  <1>d. "kill.process" \notin Creating
    BY DEF Creating
  <1>f. \A q \in Requests : pc[q] \in Creating \cup Holding => target[q] \in Sandboxes
    BY TargetTyped DEF Creating, Holding
  <1>g. \A q \in Requests : q # p => (Holds(q)' <=> Holds(q))
    BY <1>a, <1>c DEF Holds
  <1>1. Fresh' /\ Known'
    BY <1>b, <1>c DEF Fresh, Known
  <1>2. CreatesAlone'
    BY <1>a, <1>b, <1>c, <1>d, <1>f DEF CreatesAlone
  <1>3. HeldByOne'
    <2> SUFFICES ASSUME NEW q \in Requests, Holds(q)'
                 PROVE  /\ inst'[q].ip = lease[target[q]] /\ running'[target[q]].ip = Nil
                        /\ \A r \in Requests : r # q /\ Holds(r)' => target[r] # target[q]
      BY <1>c DEF HeldByOne
    <2>1. CASE q = p
      <3>1. running[target[p]].ip # Nil
        BY <2>1, <1>a DEF Holds
      <3>2. \A r \in Requests : r # p /\ Holds(r) => target[r] # target[p]
        BY <3>1 DEF HeldByOne
      <3> QED BY <2>1, <3>1, <3>2, <1>0, <1>a, <1>b, <1>g, NoInstTyped DEF Registered
    <2>2. CASE q # p
      <3>1. Holds(q) /\ target[q] \in Sandboxes
        BY <2>2, <1>f, <1>g DEF Holds
      <3>2. Holds(p)' => target[p] # target[q]
        BY <3>1, <1>a DEF Holds, HeldByOne
      <3> QED BY <2>2, <3>1, <3>2, <1>a, <1>b, <1>g, NoInstTyped DEF HeldByOne
    <2> QED BY <2>1, <2>2
  <1>4. Registered'
    BY <1>b, <1>c, NoInstTyped DEF Registered
  <1> QED BY <1>1, <1>2, <1>3, <1>4

LEMMA RowChanges ==
  ASSUME TypeInv, NEW p \in Requests, NEW status, RowCall(p, status)
  PROVE  \A s \in Sandboxes : row'[s] = row[s] \/ s = target[p]
  BY DEF RowCall, TypeInv, TableType

LEMMA OwnedStep ==
  ASSUME TypeInv, Owned, NEW p \in Requests, Step(p)
  PROVE  Owned'
  <1> USE DEF Creating, Holding
  <1>a. UNCHANGED netVars => UNCHANGED lease
    BY DEF netVars
  <1>1. CASE CreateBegin(p)
    BY <1>1, OwnCreateBegin
  <1>2. CASE CreateTap(p)
    <2>1. CASE Return(p)
      <3>1. UNCHANGED <<netVars, row, running, born>>
        BY <1>2, <2>1, FirecrackerAssumption DEF CreateTap, Return, apiVars, TypeInv, Locals
      <3> QED BY <2>1, <3>1, OwnReturn
    <2>2. CASE ~Return(p)
      BY <1>2, <2>2, OwnAllocate DEF CreateTap, apiVars
    <2> QED BY <2>1, <2>2
  <1>3. CASE CreateSpawn(p)
    BY <1>3, OwnSpawn, OwnReturn DEF CreateSpawn, apiVars
  <1>4. CASE CreateBoot(p)
    <2>1. CASE Rollback(p)
      <3>1. Holds(p)
        BY <1>4, FirecrackerAssumption DEF CreateBoot, Holds, TypeInv, Locals, LocalsOK, WithIP
      <3> QED BY <1>4, <2>1, <3>1, OwnRelease DEF CreateBoot, Rollback, apiVars
    <2>2. CASE Goto(p, "create.register") /\ UNCHANGED netVars
      BY <1>4, <2>2, OwnGoto DEF CreateBoot, apiVars
    <2> QED BY <1>4, <2>1, <2>2 DEF CreateBoot
  <1>5. CASE CreateRegister(p)
    BY <1>5, OwnRegister
  <1>6. CASE CreateSave(p)
    BY <1>6, RowChanges, OwnReturn DEF CreateSave
  <1>7. CASE DeleteBegin(p)
    BY <1>7, OwnBegin DEF DeleteBegin
  <1>8. CASE ReapBegin(p)
    BY <1>8, OwnBegin DEF ReapBegin
  <1>9. CASE KillTake(p)
    BY <1>9, OwnTake, OwnReturn DEF KillTake, apiVars
  <1>10. CASE KillProcess(p)
    BY <1>10, OwnGoto DEF KillProcess, KillThen, apiVars
  <1>11. CASE KillTap(p)
    <2>1. Holds(p)
      BY <1>11, FirecrackerAssumption DEF KillTap, Holds, TypeInv, Locals, LocalsOK, WithIP
    <2> QED BY <1>11, <2>1, OwnRelease DEF KillTap, apiVars
  <1>12. CASE KillRootfs(p)
    BY <1>12, OwnGoto, OwnReturn DEF KillRootfs, apiVars
  <1>13. CASE DeleteRow(p)
    BY <1>13, RowChanges, OwnReturn DEF DeleteRow
  <1>14. CASE PauseBegin(p)
    BY <1>14, OwnBegin DEF PauseBegin
  <1>15. CASE PauseGet(p)
    <2>1. CASE pc' = [pc EXCEPT ![p] = "pause.freeze"] /\ inst' = [inst EXCEPT ![p] = running[target[p]]]
               /\ UNCHANGED target
      <3>1. target' = [target EXCEPT ![p] = target[p]]
        BY <2>1 DEF TypeInv, Locals
      <3> QED BY <1>15, <2>1, <3>1, OwnGo DEF PauseGet, apiVars, netVars
    <2> QED BY <1>15, <2>1, OwnReturn DEF PauseGet, apiVars
  <1>16. CASE PauseFreeze(p)
    BY <1>16, OwnGoto, OwnReturn DEF PauseFreeze, apiVars
  <1>17. CASE PauseSnapshot(p)
    BY <1>17, OwnGoto DEF PauseSnapshot, Snapshot, apiVars
  <1>18. CASE PauseManifest(p)
    BY <1>18, OwnGoto, OwnReturn DEF PauseManifest, apiVars
  <1>19. CASE PauseKill(p)
    BY <1>19, OwnGoto DEF PauseKill, FreeMemory, apiVars
  <1>20. CASE PauseForget(p)
    <2>1. \A s \in Sandboxes : running'[s] = running[s] \/ (s = target[p] /\ running'[s].ip = Nil)
      BY <1>20, NoInstTyped DEF PauseForget, Forget, TypeInv, RunType
    <2> QED BY <1>20, <2>1, OwnGoto DEF PauseForget, apiVars
  <1>21. CASE PauseSave(p)
    BY <1>21, RowChanges, OwnReturn DEF PauseSave
  <1>22. CASE ResumeBegin(p)
    BY <1>22, OwnBegin DEF ResumeBegin
  <1>23. CASE ResumeRead(p)
    BY <1>23, OwnGoto, OwnReturn DEF ResumeRead, apiVars
  <1>24. CASE ResumeSpawn(p)
    BY <1>24, OwnSpawn, OwnReturn DEF ResumeSpawn, apiVars
  <1>25. CASE ResumeLoad(p)
    BY <1>25, OwnGoto, OwnReturn DEF ResumeLoad, apiVars
  <1>26. CASE ResumeRegister(p)
    <2>1. \A s \in Sandboxes : running'[s] = running[s] \/ (s = target[p] /\ running'[s].ip = Nil)
      BY <1>26 DEF ResumeRegister, Instance, TypeInv, RunType
    <2> QED BY <1>26, <2>1, OwnGoto DEF ResumeRegister, apiVars
  <1>27. CASE ResumeSave(p)
    BY <1>27, RowChanges, OwnReturn DEF ResumeSave
  <1>28. CASE ReapRootfs(p)
    BY <1>28, OwnGoto DEF ReapRootfs, apiVars
  <1>29. CASE ReapDir(p)
    BY <1>29, OwnGoto, OwnReturn DEF ReapDir, apiVars
  <1> QED
    BY <1>1, <1>2, <1>3, <1>4, <1>5, <1>6, <1>7, <1>8, <1>9, <1>10, <1>11, <1>12, <1>13, <1>14,
       <1>15, <1>16, <1>17, <1>18, <1>19, <1>20, <1>21, <1>22, <1>23, <1>24, <1>25, <1>26, <1>27,
       <1>28, <1>29 DEF Step, Create, KillSandbox, Pause, Resume

\* A step of nobody's, while the server runs.
LEMMA OwnedOther ==
  ASSUME TypeInv, Owned, Other, restarts' = 0
  PROVE  Owned'
  <1> USE DEF Owned
  <1>1. /\ UNCHANGED <<procVars, netVars, born>>
        /\ \A s \in Sandboxes : row'[s] = row[s] \/ row[s] = "paused"
        /\ \A s \in Sandboxes : running'[s] \in {running[s], NoInst}
    <2>1. ASSUME NEW v \in VMs, WatchExit(v) PROVE <1>1!1 /\ <1>1!2 /\ <1>1!3
      BY <2>1 DEF WatchExit, apiVars, TypeInv, RunType
    <2>2. ASSUME NEW v \in VMs, VMExit(v) PROVE <1>1!1 /\ <1>1!2 /\ <1>1!3
      BY <2>2 DEF VMExit, apiVars
    <2>3. ASSUME NEW s \in Sandboxes, Expire(s) PROVE <1>1!1 /\ <1>1!2 /\ <1>1!3
      BY <2>3 DEF Expire, TypeInv, TableType
    <2>4. ASSUME NEW g \in cleanup, CleanupRootfs(g) \/ CleanupDir(g) PROVE <1>1!1 /\ <1>1!2 /\ <1>1!3
      BY <2>4 DEF CleanupRootfs, CleanupDir
    <2>5. ~Restart
      BY DEF Restart, TypeInv, CountType
    <2> QED BY <2>1, <2>2, <2>3, <2>4, <2>5 DEF Other
  <1>2. UNCHANGED <<pc, target, inst, lease>>
    BY <1>1 DEF procVars, netVars
  <1>3. \A q \in Requests : pc[q] \in Creating \cup Holding => target[q] \in Sandboxes
    BY TargetTyped DEF Creating, Holding
  <1>4. Fresh' /\ Known'
    BY <1>1, <1>2 DEF Fresh, Known
  <1>5. CreatesAlone'
    BY <1>1, <1>2, <1>3 DEF CreatesAlone
  <1>6. HeldByOne'
    BY <1>1, <1>2, <1>3, NoInstTyped DEF HeldByOne, Holds
  <1>7. Registered'
    BY <1>1, <1>2, NoInstTyped DEF Registered
  <1> QED BY <1>4, <1>5, <1>6, <1>7

-----------------------------------------------------------------------------
(* The addresses themselves.  Apart alone is not inductive: the next one is *)
(* new only because every address handed out lies below the counter.        *)

Below ==
    /\ \A s \in Sandboxes : lease[s] # Nil => lease[s] < nextIP
    /\ \A i \in 1..Len(released) : released[i] < nextIP

\* The stack of returned offsets without its top.
LEMMA Popped ==
  ASSUME NEW q \in Seq(Nat), Len(q) > 0
  PROVE  LET r == SubSeq(q, 1, Len(q) - 1) IN
         Len(r) = Len(q) - 1 /\ \A i \in 1..(Len(q) - 1) : r[i] = q[i]
  OBVIOUS

\* allocateIP, for a sandbox without a device.
LEMMA AllocateApart ==
  ASSUME NetType, Apart, Below, NEW s \in Sandboxes, lease[s] = Nil, AllocateIP(s), nextIP' <= Space
  PROVE  Apart' /\ Below'
  <1> DEFINE n == Len(released)
  <1>0. n \in Nat /\ nextIP \in Nat /\ \A i \in 1..n : released[i] \in Nat
    BY DEF NetType
  <1>a. Nil \notin Nat /\ Space \in Nat
    BY FirecrackerAssumption
  <1>1. CASE n > 0
    <2>1. /\ lease' = [lease EXCEPT ![s] = released[n]]
          /\ released' = SubSeq(released, 1, n - 1) /\ nextIP' = nextIP
      BY <1>1, <1>0 DEF AllocateIP
    <2>2. Len(released') = n - 1 /\ \A i \in 1..(n - 1) : released'[i] = released[i]
      BY <2>1, <1>1, Popped DEF NetType
    <2>3. \A t \in Sandboxes : lease'[t] = IF t = s THEN released[n] ELSE lease[t]
      BY <2>1 DEF NetType
    <2>4. n \in 1..n /\ \A i \in 1..(n - 1) : i \in 1..n /\ i # n
      BY <1>0, <1>1
    <2>5. Apart'
      <3> HIDE DEF n
      <3>1. \A t, u \in Sandboxes : t # u /\ lease'[t] # Nil => lease'[t] # lease'[u]
        BY <2>3, <2>4 DEF Apart, n
      <3>2. \A i, j \in 1..(n - 1) : i # j => released'[i] # released'[j]
        BY <2>2, <2>4 DEF Apart, n
      <3>3. \A t \in Sandboxes, i \in 1..(n - 1) : lease'[t] # released'[i]
        BY <2>2, <2>3, <2>4 DEF Apart, n
      <3> QED BY <2>2, <3>1, <3>2, <3>3 DEF Apart
    <2>6. Below'
      BY <2>1, <2>2, <2>3, <2>4 DEF Below
    <2> QED BY <2>5, <2>6
  <1>2. CASE n = 0
    <2>1. lease' = [lease EXCEPT ![s] = nextIP % Space] /\ nextIP' = nextIP + 1 /\ released' = released
      BY <1>2 DEF AllocateIP
    <2>2. nextIP % Space = nextIP
      BY <2>1, <1>0, <1>a, LastByte
    <2>3. \A t \in Sandboxes : lease'[t] = IF t = s THEN nextIP ELSE lease[t]
      BY <2>1, <2>2 DEF NetType
    <2>4. \A t \in Sandboxes : lease[t] \in Nat \cup {Nil} /\ lease[t] # nextIP
      BY <1>0, <1>a DEF Below, NetType
    <2>5. Apart'
      BY <2>1, <2>3, <2>4, <1>2 DEF Apart
    <2>6. Below'
      BY <2>1, <2>3, <2>4, <1>0, <1>2 DEF Below
    <2> QED BY <2>5, <2>6
  <1> QED BY <1>0, <1>1, <1>2

\* ReleaseTap, called with the address of the sandbox's device.
LEMMA ReleaseApart ==
  ASSUME NetType, Apart, Below, NEW s \in Sandboxes, lease[s] # Nil, ReleaseTap(s, lease[s])
  PROVE  Apart' /\ Below'
  <1> DEFINE n == Len(released)
  <1>0. n \in Nat /\ nextIP \in Nat /\ lease[s] \in Nat
    BY DEF NetType
  <1>1. lease' = [lease EXCEPT ![s] = Nil] /\ released' = Append(released, lease[s]) /\ nextIP' = nextIP
    BY DEF ReleaseTap
  <1>2. /\ Len(released') = n + 1 /\ released'[n + 1] = lease[s]
        /\ \A i \in 1..n : released'[i] = released[i]
    BY <1>1 DEF NetType
  <1>3. \A t \in Sandboxes : lease'[t] = IF t = s THEN Nil ELSE lease[t]
    BY <1>1 DEF NetType
  <1>4. \A i \in 1..(n + 1) : i \in 1..n \/ i = n + 1
    BY <1>0
  <1>5. \A i \in 1..n : released[i] \in Nat /\ released[i] # Nil
    BY FirecrackerAssumption DEF NetType
  <1>6. ASSUME NEW i \in 1..(n + 1), NEW j \in 1..(n + 1), i # j PROVE released'[i] # released'[j]
    BY <1>2, <1>4, <1>6 DEF Apart
  <1>7. ASSUME NEW t \in Sandboxes, NEW i \in 1..(n + 1) PROVE lease'[t] # released'[i]
    BY <1>2, <1>3, <1>4, <1>5 DEF Apart
  <1>8. Apart'
    BY <1>2, <1>3, <1>6, <1>7 DEF Apart
  <1>9. Below'
    BY <1>1, <1>2, <1>3, <1>4 DEF Below
  <1> QED BY <1>8, <1>9

NetInv == nextIP <= Space => Apart /\ Below

LEMMA NetKept ==
  ASSUME TypeInv, Owned, NetInv, NEW p \in Requests, Step(p)
  PROVE  NetInv'
  <1> USE DEF TypeInv, NetInv
  <1>a. UNCHANGED netVars => NetInv'
    BY DEF netVars, Apart, Below
  <1>b. ASSUME Holds(p), ReleaseTap(target[p], inst[p].ip) PROVE NetInv'
    <2>1. target[p] \in Sandboxes
      BY <1>b, TargetTyped DEF Holds, Holding
    <2>2. inst[p].ip = lease[target[p]] /\ lease[target[p]] # Nil
      BY <1>b DEF Owned, HeldByOne, Holds
    <2>3. nextIP' = nextIP
      BY <1>b DEF ReleaseTap
    <2> QED BY <1>b, <2>1, <2>2, <2>3, ReleaseApart
  <1>c. pc[p] \in {"create.boot", "kill.tap"} => Holds(p)
    BY FirecrackerAssumption DEF Holds, Holding, Locals, LocalsOK, WithIP
  <1>1. CASE CreateTap(p)
    <2>1. CASE AllocateIP(target[p])
      <3>1. target[p] \in Sandboxes /\ lease[target[p]] = Nil
        BY <1>1, TargetTyped DEF CreateTap, Owned, CreatesAlone, Creating
      <3>2. nextIP \in Nat /\ Space \in Nat /\ nextIP' \in {nextIP, nextIP + 1}
        BY <2>1, FirecrackerAssumption DEF AllocateIP, NetType
      <3> QED BY <2>1, <3>1, <3>2, AllocateApart
    <2> QED BY <1>1, <2>1, <1>a DEF CreateTap
  <1>2. CASE CreateBoot(p)
    BY <1>2, <1>a, <1>b, <1>c DEF CreateBoot, Rollback
  <1>3. CASE KillTap(p)
    BY <1>3, <1>b, <1>c DEF KillTap
  <1> QED
    BY <1>1, <1>2, <1>3, <1>a
       DEF Step, Create, KillSandbox, Pause, Resume, CreateBegin, CreateSpawn, CreateRegister,
           CreateSave, DeleteBegin, ReapBegin, Start, KillTake, KillProcess, KillThen, KillRootfs,
           DeleteRow, PauseBegin, PauseGet, PauseFreeze, PauseSnapshot, Snapshot, PauseManifest,
           PauseKill, FreeMemory, PauseForget, PauseSave, ResumeBegin, ResumeRead, ResumeSpawn,
           ResumeLoad, ResumeRegister, ResumeSave, ReapRootfs, ReapDir

\* The inductive invariant.  A restart forgets who owns what and starts the
\* counter over, so it speaks of the time before the first one.
IInv == TypeInv /\ (restarts = 0 => Owned /\ NetInv)

LEMMA InitIInv == Init => IInv
  <1> SUFFICES ASSUME Init PROVE IInv
    OBVIOUS
  <1>1. Owned
    BY FirecrackerAssumption
       DEF Init, Owned, Fresh, Known, CreatesAlone, Creating, HeldByOne, Holds, Holding, Registered, NoInst
  <1>2. NetInv
    BY FirecrackerAssumption DEF Init, NetInv, Apart, Below
  <1> QED BY <1>1, <1>2, InitTyped DEF IInv

LEMMA IInvKept == IInv /\ [Next]_vars => IInv'
  <1> SUFFICES ASSUME IInv, [Next]_vars, restarts' = 0 PROVE Owned' /\ NetInv'
    BY TypesKept DEF IInv
  <1>1. CASE UNCHANGED vars
    BY <1>1 DEF IInv, vars, apiVars, netVars, procVars, Owned, Fresh, Known, CreatesAlone, HeldByOne,
       Holds, Registered, NetInv, Apart, Below
  <1>2. CASE Other
    <2>1. restarts = 0 /\ UNCHANGED netVars
      BY <1>2 DEF Other, WatchExit, VMExit, Expire, CleanupRootfs, CleanupDir, Restart, IInv, TypeInv, CountType
    <2>2. NetInv'
      BY <2>1 DEF IInv, NetInv, Apart, Below, netVars
    <2> QED BY <1>2, <2>1, <2>2, OwnedOther DEF IInv
  <1>3. ASSUME NEW p \in Requests, Step(p) PROVE Owned' /\ NetInv'
    <2>1. restarts = 0
      BY <1>3, StepIsNoRestart DEF IInv
    <2> QED BY <1>3, <2>1, OwnedStep, NetKept DEF IInv
  <1> QED BY <1>1, <1>2, <1>3, NextSplit

\* No two tap devices have the same address and no returned address is in
\* use or returned twice, while the server runs and the counter fits a byte.
THEOREM AddressesStayApart == Spec => []AddressesApart
  <1>1. Spec => []IInv
    BY InitIInv, IInvKept, PTL DEF Spec
  <1>2. IInv => AddressesApart
    BY DEF IInv, NetInv, AddressesApart
  <1> QED BY <1>1, <1>2, PTL

-----------------------------------------------------------------------------
(* Requests mind their own locals, and do what they are used for.           *)

LEMMA OthersStay ==
  ASSUME Locals, NEW p \in Requests, Step(p), NEW q \in Requests \ {p}
  PROVE  pc'[q] = pc[q] /\ target'[q] = target[q] /\ inst'[q] = inst[q]
  <1> USE DEF Locals, Begin, Start, Goto, Return, Spawn, procVars
  <1>1. CASE Create(p)
    BY <1>1 DEF Create, CreateBegin, CreateTap, CreateSpawn, CreateBoot, Rollback, CreateRegister, CreateSave
  <1>2. CASE DeleteBegin(p) \/ ReapBegin(p) \/ KillSandbox(p)
    BY <1>2 DEF DeleteBegin, ReapBegin, KillSandbox, KillTake, KillProcess, KillThen, KillTap, KillRootfs, DeleteRow
  <1>3. CASE Pause(p)
    BY <1>3 DEF Pause, PauseBegin, PauseGet, PauseFreeze, PauseSnapshot, Snapshot, PauseManifest, PauseKill,
       FreeMemory, PauseForget, PauseSave
  <1>4. CASE Resume(p)
    BY <1>4 DEF Resume, ResumeBegin, ResumeRead, ResumeSpawn, ResumeLoad, ResumeRegister, ResumeSave
  <1>5. CASE ReapRootfs(p) \/ ReapDir(p)
    BY <1>5 DEF ReapRootfs, ReapDir
  <1> QED BY <1>1, <1>2, <1>3, <1>4, <1>5 DEF Step

PauseAt == {"pause.get", "pause.freeze", "pause.snapshot", "pause.manifest", "pause.kill",
            "pause.forget", "pause.save"}
ResumeAt == {"resume.read", "resume.spawn", "resume.load", "resume.register", "resume.save"}

MayDo ==
    \A p \in Requests :
        /\ pc[p] \in PauseAt => "pause" \in Does[p]
        /\ pc[p] \in ResumeAt => "resume" \in Does[p]

\* A pause or a resume goes on from where it was, or begins.
LEMMA StaysInOperation ==
  ASSUME Locals, NEW p \in Requests, Step(p)
  PROVE  /\ pc'[p] \in PauseAt => Pause(p) /\ (pc[p] \in PauseAt \/ (PauseBegin(p) /\ "pause" \in Does[p]))
         /\ pc'[p] \in ResumeAt => Resume(p) /\ (pc[p] \in ResumeAt \/ (ResumeBegin(p) /\ "resume" \in Does[p]))
  <1> USE DEF Locals, Begin, Start, Goto, Return, procVars, PauseAt, ResumeAt
  <1>1. CASE Create(p)
    BY <1>1 DEF Create, CreateBegin, CreateTap, CreateSpawn, CreateBoot, Rollback, CreateRegister, CreateSave
  <1>2. CASE DeleteBegin(p) \/ ReapBegin(p) \/ KillSandbox(p)
    BY <1>2 DEF DeleteBegin, ReapBegin, KillSandbox, KillTake, KillProcess, KillThen, KillTap, KillRootfs, DeleteRow
  <1>3. CASE Pause(p)
    BY <1>3 DEF Pause, PauseBegin, PauseGet, PauseFreeze, PauseSnapshot, Snapshot, PauseManifest, PauseKill,
       FreeMemory, PauseForget, PauseSave
  <1>4. CASE Resume(p)
    BY <1>4 DEF Resume, ResumeBegin, ResumeRead, ResumeSpawn, ResumeLoad, ResumeRegister, ResumeSave
  <1>5. CASE ReapRootfs(p) \/ ReapDir(p)
    BY <1>5 DEF ReapRootfs, ReapDir
  <1> QED BY <1>1, <1>2, <1>3, <1>4, <1>5 DEF Step

\* What is nobody's step leaves every request where it is, or at rest.
LEMMA OtherLocals ==
  ASSUME Locals, Other
  PROVE  UNCHANGED procVars \/ (Restart /\ \A p \in Requests : pc'[p] = "idle")
  BY DEF Other, WatchExit, VMExit, Expire, CleanupRootfs, CleanupDir, Restart, procVars

LEMMA MayDoKept == ASSUME Locals, MayDo, [Next]_vars PROVE MayDo'
  <1>1. ASSUME NEW p \in Requests, Step(p) PROVE MayDo'
    BY <1>1, OthersStay, StaysInOperation DEF MayDo
  <1>2. CASE Other
    BY <1>2, OtherLocals DEF MayDo, PauseAt, ResumeAt, procVars
  <1> QED BY <1>1, <1>2, NextSplit DEF MayDo, vars, procVars

LEMMA AlwaysMayDo == Spec => []MayDo
  <1>1. Init => TypeInv /\ MayDo
    BY InitTyped DEF Init, MayDo, PauseAt, ResumeAt
  <1>2. TypeInv /\ MayDo /\ [Next]_vars => (TypeInv /\ MayDo)'
    BY TypesKept, MayDoKept DEF TypeInv
  <1> QED BY <1>1, <1>2, PTL DEF Spec

-----------------------------------------------------------------------------
(* Manifests.  A failed snapshot is only noticed by the manifest's own      *)
(* failure: the directory it is to be written to is gone.                   *)

\* A pause that is about to write its manifest and finds the directory there
\* has its snapshot in it.
DirHasSnapshot ==
    \A p \in Requests : pc[p] = "pause.manifest" =>
        ("dir" \in dir[target[p]] => "snapshot" \in dir[target[p]] \/ target[p] \in refused)

ManifestInv == DirHasSnapshot /\ ManifestHasSnapshot

\* No sandbox is paused by two requests at a time.
PausesApart ==
    \A p, q \in Requests : pc[p] \in PauseAt /\ pc[q] \in PauseAt /\ target[p] = target[q] => p = q

\* The only pause there is of a sandbox moves to its manifest with the
\* directory as it left it.
LEMMA ManifestStep ==
  ASSUME PausesApart, TypeInv, ManifestInv, NEW p \in Requests, Step(p)
  PROVE  DirHasSnapshot' /\ ManifestHasSnapshot'
  <1>a. Locals /\ LocalsOK(pc[p], target[p], inst[p]) /\ FileType
    BY DEF TypeInv, Locals
  <1>b. \A q \in Requests \ {p} : pc'[q] = pc[q] /\ target'[q] = target[q]
    BY <1>a, OthersStay
  <1>0. refused \subseteq refused'
    BY RefusedStep
  <1>c. ASSUME pc[p] \in PauseAt, NEW q \in Requests \ {p}, pc'[q] = "pause.manifest",
               \A s \in Sandboxes \ {target[p]} : dir'[s] = dir[s]
        PROVE  "dir" \in dir'[target'[q]] => "snapshot" \in dir'[target'[q]] \/ target'[q] \in refused'
    <2>1. pc[q] = "pause.manifest" /\ target'[q] = target[q]
      BY <1>b, <1>c
    <2>2. target[q] \in Sandboxes
      BY <2>1, TargetTyped
    <2>3. target[q] # target[p]
      BY <1>c, <2>1 DEF PausesApart, PauseAt
    <2> QED BY <1>0, <1>c, <2>1, <2>2, <2>3 DEF ManifestInv, DirHasSnapshot
  <1>d. ASSUME dir' = dir, pc'[p] # "pause.manifest" PROVE DirHasSnapshot' /\ ManifestHasSnapshot'
    BY <1>0, <1>b, <1>d DEF ManifestInv, DirHasSnapshot, ManifestHasSnapshot
  <1>e. ASSUME NEW s \in Sandboxes, DirGone(s), pc'[p] # "pause.manifest"
        PROVE  DirHasSnapshot' /\ ManifestHasSnapshot'
    <2>1. \A t \in Sandboxes \ refused' : t # s => dir'[t] = dir[t]
      BY <1>a, <1>e DEF DirGone, FileType
    <2>2. s \notin refused' => dir'[s] = {}
      BY <1>a, <1>e DEF DirGone, FileType
    <2>3. ManifestHasSnapshot'
      BY <1>0, <2>1, <2>2 DEF ManifestInv, ManifestHasSnapshot
    <2>4. ASSUME NEW q \in Requests, pc'[q] = "pause.manifest", target'[q] \notin refused',
                 "dir" \in dir'[target'[q]]
          PROVE  "snapshot" \in dir'[target'[q]]
      <3>1. q # p /\ pc[q] = "pause.manifest" /\ target'[q] = target[q]
        BY <1>b, <1>e, <2>4
      <3>2. target[q] \in Sandboxes
        BY <3>1, TargetTyped
      <3> QED BY <1>0, <2>1, <2>2, <2>4, <3>1, <3>2 DEF ManifestInv, DirHasSnapshot
    <2> QED BY <2>3, <2>4 DEF DirHasSnapshot
  <1>1. CASE PauseGet(p)
    <2>1. pc[p] \in PauseAt /\ pc'[p] # "pause.manifest"
      BY <1>1, <1>a DEF PauseGet, PauseAt, Return, Locals
    <2>2. \A s \in Sandboxes \ {target[p]} : dir'[s] = dir[s]
      BY <1>1, <1>a DEF PauseGet, FileType
    <2>3. DirHasSnapshot'
      BY <1>c, <2>1, <2>2 DEF DirHasSnapshot
    <2>4. ManifestHasSnapshot'
      BY <1>0, <1>1, <1>a DEF PauseGet, ManifestInv, ManifestHasSnapshot, FileType
    <2> QED BY <2>3, <2>4
  <1>2. CASE PauseFreeze(p)
    <2>1. target[p] \in Sandboxes /\ pc'[p] # "pause.manifest"
      BY <1>2, <1>a DEF PauseFreeze, Goto, Return, Locals, LocalsOK
    <2> QED BY <1>2, <1>a, <2>1, <1>d, <1>e, TriedDir DEF PauseFreeze
  <1>3. CASE PauseSnapshot(p)
    <2>1. /\ target[p] \in Sandboxes /\ pc[p] \in PauseAt /\ target'[p] = target[p]
          /\ dir' = [dir EXCEPT ![target[p]] = @ \cup {"snapshot"}] \/ DirGone(target[p])
      BY <1>3, <1>a, TriedDir DEF PauseSnapshot, Snapshot, CreateSnapshot, PauseAt, Goto, LocalsOK
    <2>2. "dir" \in dir'[target'[p]] => "snapshot" \in dir'[target'[p]] \/ target'[p] \in refused'
      BY <1>a, <2>1 DEF FileType, DirGone
    <2>3. \A s \in Sandboxes \ {target[p]} : dir'[s] = dir[s]
      BY <1>a, <2>1 DEF FileType, DirGone
    <2>4. DirHasSnapshot'
      BY <1>c, <2>1, <2>2, <2>3 DEF DirHasSnapshot
    <2>5. ManifestHasSnapshot'
      BY <1>0, <1>a, <2>1 DEF ManifestInv, ManifestHasSnapshot, FileType, DirGone
    <2> QED BY <2>4, <2>5
  <1>4. CASE PauseManifest(p)
    <2>1. target[p] \in Sandboxes /\ pc'[p] # "pause.manifest"
      BY <1>4, <1>a DEF PauseManifest, Goto, Return, Locals, LocalsOK
    <2>2. CASE "dir" \in dir[target[p]] /\ dir' = [dir EXCEPT ![target[p]] = @ \cup {"manifest"}]
      <3>1. "snapshot" \in dir[target[p]] \/ target[p] \in refused
        BY <1>4, <2>2 DEF PauseManifest, ManifestInv, DirHasSnapshot
      <3>2. ManifestHasSnapshot'
        BY <1>0, <1>a, <2>2, <3>1 DEF ManifestInv, ManifestHasSnapshot, FileType
      <3>3. \A s \in Sandboxes \ {target[p]} : dir'[s] = dir[s]
        BY <1>a, <2>2 DEF FileType
      <3>4. DirHasSnapshot'
        BY <1>4, <1>c, <2>1, <3>3 DEF DirHasSnapshot, PauseManifest, PauseAt
      <3> QED BY <3>2, <3>4
    <2> QED BY <1>4, <1>a, <2>1, <2>2, <1>e, TriedDir DEF PauseManifest
  <1>5. CASE ReapDir(p)
    <2>1. target[p] \in Sandboxes /\ pc'[p] # "pause.manifest"
      BY <1>5, <1>a DEF ReapDir, Goto, Return, Locals, LocalsOK
    <2> QED BY <1>5, <1>a, <2>1, <1>e, TriedDir DEF ReapDir
  <1>6. CASE dir' = dir /\ ~Pause(p)
    BY <1>6, <1>a, <1>d, StaysInOperation DEF PauseAt
  <1>7. CASE PauseBegin(p) \/ PauseKill(p) \/ PauseForget(p) \/ PauseSave(p)
    BY <1>7, <1>a, <1>d DEF PauseBegin, Start, Begin, PauseKill, FreeMemory, PauseForget, PauseSave, Goto, Return,
       Locals, fileVars
  <1>8. Step(p) => \/ Pause(p) \/ ReapDir(p) \/ dir' = dir
    BY DEF Step, Create, KillSandbox, Resume, CreateBegin, CreateTap, CreateSpawn, CreateBoot,
       CreateRegister, CreateSave, DeleteBegin, ReapBegin, Start, KillTake, KillProcess, KillThen,
       KillTap, KillRootfs, DeleteRow, ResumeBegin, ResumeRead, ResumeSpawn, ResumeLoad, ResumeRegister,
       ResumeSave, ReapRootfs, RemoveRootfs, fileVars
  <1> QED BY <1>1, <1>2, <1>3, <1>4, <1>5, <1>6, <1>7, <1>8 DEF Pause

LEMMA ManifestKept == TypeInv /\ ManifestInv /\ PausesApart /\ [Next]_vars => ManifestInv'
  <1> SUFFICES ASSUME TypeInv, ManifestInv, PausesApart, [Next]_vars PROVE DirHasSnapshot' /\ ManifestHasSnapshot'
    BY DEF ManifestInv
  <1>1. ASSUME NEW p \in Requests, Step(p) PROVE DirHasSnapshot' /\ ManifestHasSnapshot'
    BY <1>1, ManifestStep
  <1>2. CASE Other
    <2>0. /\ dir' = dir \/ \E s \in Sandboxes : DirGone(s)
          /\ refused \subseteq refused'
      <3>1. ASSUME NEW g \in cleanup, CleanupDir(g) PROVE DirGone(g.of) /\ refused \subseteq refused' /\ g.of \in Sandboxes
        BY <3>1, TriedDir DEF CleanupDir, TypeInv, TableType
      <3>2. ASSUME NEW g \in cleanup, CleanupRootfs(g) PROVE dir' = dir /\ refused \subseteq refused'
        BY <3>2, TriedImage DEF CleanupRootfs
      <3> QED BY <1>2, <3>1, <3>2 DEF Other, WatchExit, VMExit, Expire, Restart, fileVars
    <2>1. \A s \in Sandboxes \ refused' : dir'[s] = dir[s] \/ dir'[s] = {}
      BY <2>0 DEF DirGone, TypeInv, FileType
    <2>2. ManifestHasSnapshot'
      BY <2>0, <2>1 DEF ManifestInv, ManifestHasSnapshot
    <2>3. UNCHANGED procVars => DirHasSnapshot'
      BY <2>0, <2>1 DEF TypeInv, Locals, LocalsOK, ManifestInv, DirHasSnapshot, procVars
    <2>4. (\A p \in Requests : pc'[p] = "idle") => DirHasSnapshot'
      BY DEF DirHasSnapshot
    <2> QED BY <1>2, <2>2, <2>3, <2>4, OtherLocals DEF TypeInv
  <1>3. CASE UNCHANGED vars
    BY <1>3 DEF vars, procVars, fileVars, ManifestInv, DirHasSnapshot, ManifestHasSnapshot
  <1> QED BY <1>1, <1>2, <1>3, NextSplit

\* If no sandbox is paused by two requests at a time, a manifest is only ever
\* found beside its snapshot: whatever else runs at the same time, pauses of
\* other sandboxes too, whatever fails and wherever the server dies, unless
\* a removal of that sandbox's files is what failed.  (Two pauses of one
\* sandbox: TwoPauses.cfg; a failed removal: FailedRemoval.cfg.)
THEOREM ManifestsPerSandbox == Spec /\ []PausesApart => []ManifestHasSnapshot
  <1>1. Init => TypeInv /\ ManifestInv
    BY InitTyped DEF Init, ManifestInv, DirHasSnapshot, ManifestHasSnapshot
  <1>2. TypeInv /\ ManifestInv /\ PausesApart /\ [Next]_vars => (TypeInv /\ ManifestInv)'
    BY TypesKept, ManifestKept
  <1> QED BY <1>1, <1>2, PTL DEF Spec, ManifestInv

OnePauser == \A p, q \in Requests : "pause" \in Does[p] \cap Does[q] => p = q

\* So it is if all pauses are taken up by one request after the other.
THEOREM ManifestsAreComplete == ASSUME OnePauser PROVE Spec => []ManifestHasSnapshot
  <1>1. MayDo => PausesApart
    BY DEF MayDo, OnePauser, PausesApart
  <1> QED BY <1>1, AlwaysMayDo, ManifestsPerSandbox, PTL

-----------------------------------------------------------------------------
(* Orphans.  A live process is found in m.running, or is with a handler     *)
(* whose next call registers it or kills it; two calls overwrite an entry   *)
(* without looking, and the invariant says that there is no live process in *)
(* it then.                                                                 *)

\* No process, or one that has exited.
ExitedIn(state, v) == v = Nil \/ state[v] = "dead"

LiveIn(state, v) == v \in VMs /\ state[v] \in {"blank", "up", "frozen"}

Answering == {"create.boot", "create.register", "kill.process", "resume.load", "resume.register"}

Accounted ==
    \A v \in VMs : LiveIn(vm, v) =>
        \/ \E s \in Sandboxes : running[s].vm = v
        \/ \E p \in Requests : pc[p] \in Answering /\ inst[p].vm = v

\* From PauseGet on, the entry is the one the pause has read, or none; it is
\* forgotten when its process is gone, and stays away until the record says so.
PauseHolds ==
    \A p \in Requests :
        /\ pc[p] \in {"pause.freeze", "pause.snapshot", "pause.manifest", "pause.kill", "pause.forget"} =>
               running[target[p]] \in {inst[p], NoInst}
        /\ pc[p] = "pause.forget" => ExitedIn(vm, inst[p].vm)
        /\ pc[p] = "pause.save" => running[target[p]] = NoInst

PausedHasExited ==
    \A s \in Sandboxes : row[s] \in {"paused", "lapsed"} =>
        \/ ExitedIn(vm, running[s].vm)
        \/ \E p \in Requests : pc[p] = "resume.save" /\ target[p] = s

ResumesExited ==
    \A p \in Requests : pc[p] \in ResumeAt \ {"resume.save"} => ExitedIn(vm, running[target[p]].vm)

FateInv == Accounted /\ PauseHolds /\ PausedHasExited /\ ResumesExited

\* While a request resumes a sandbox, no other pauses or resumes it.
ResumesApart ==
    \A p, q \in Requests :
        pc[p] \in ResumeAt /\ pc[q] \in PauseAt \cup ResumeAt /\ target[p] = target[q] => p = q

\* A process that has exited does not come back, and every live one was so
\* before or has just been spawned.
LEMMA VMFate ==
  ASSUME TypeInv, NEW p \in Requests, Step(p)
  PROVE  /\ \A v \in VMs : vm[v] = "dead" => vm'[v] = "dead"
         /\ \A v \in VMs : LiveIn(vm', v) => LiveIn(vm, v) \/ (pc'[p] \in Answering /\ inst'[p].vm = v)
  <1> USE DEF LiveIn
  <1>a. VMType /\ Locals
    BY DEF TypeInv
  <1>b. UNCHANGED vmVars => vm' = vm
    BY DEF vmVars
  <1>c. ASSUME NEW v, Kill(v)
        PROVE  /\ \A w \in VMs : vm[w] = "dead" => vm'[w] = "dead"
               /\ \A w \in VMs : LiveIn(vm', w) => LiveIn(vm, w)
    BY <1>a, <1>c DEF Kill, VMType
  <1>d. ASSUME NEW t, Spawn(p, t)
        PROVE  /\ \A w \in VMs : vm[w] = "dead" => vm'[w] = "dead"
               /\ \A w \in VMs : LiveIn(vm', w) => LiveIn(vm, w) \/ inst'[p].vm = w
    BY <1>a, <1>d DEF Spawn, VMType, Locals, Insts
  <1>1. CASE CreateSpawn(p) \/ ResumeSpawn(p)
    BY <1>1, <1>a, <1>d DEF CreateSpawn, ResumeSpawn, Answering, Locals
  <1>2. CASE CreateBoot(p)
    BY <1>2, <1>a, <1>c DEF CreateBoot, StartInstance, Rollback, VMType
  <1>3. CASE KillProcess(p) \/ PauseKill(p)
    BY <1>3, <1>c DEF KillProcess, KillThen, PauseKill, FreeMemory
  <1>4. CASE PauseFreeze(p)
    BY <1>4, <1>a DEF PauseFreeze, PauseVM, VMType
  <1>5. CASE ResumeLoad(p)
    BY <1>5, <1>a, <1>c DEF ResumeLoad, LoadSnapshot, VMType
  <1>6. CASE vm' = vm
    BY <1>6
  <1> QED
    BY <1>1, <1>2, <1>3, <1>4, <1>5, <1>6, <1>b
       DEF Step, Create, KillSandbox, Pause, Resume, CreateBegin, CreateTap, CreateRegister, CreateSave,
           DeleteBegin, ReapBegin, Start, KillTake, KillTap, KillRootfs, DeleteRow, PauseBegin,
           PauseGet, PauseSnapshot, Snapshot, PauseManifest, PauseForget, PauseSave, ResumeBegin,
           ResumeRead, ResumeRegister, ResumeSave, ReapRootfs, ReapDir

\* An entry changes by being dropped, or when its handler registers it.
LEMMA EntryFate ==
  ASSUME TypeInv, NEW p \in Requests, Step(p), NEW s \in Sandboxes
  PROVE  \/ running'[s] = running[s]
         \/ running'[s] = NoInst
         \/ s = target[p] /\ (CreateRegister(p) \/ ResumeRegister(p))
  <1> USE DEF TypeInv, RunType
  <1>1. CASE KillTake(p) \/ PauseForget(p)
    BY <1>1 DEF KillTake, PauseForget, Forget
  <1>2. CASE CreateRegister(p) \/ ResumeRegister(p)
    BY <1>2 DEF CreateRegister, ResumeRegister
  <1>3. CASE running' = running
    BY <1>3
  <1> QED
    BY <1>1, <1>2, <1>3
       DEF Step, Create, KillSandbox, Pause, Resume, CreateBegin, CreateTap, CreateSpawn, CreateBoot,
           CreateSave, DeleteBegin, ReapBegin, Start, KillProcess, KillThen, KillTap, KillRootfs,
           DeleteRow, PauseBegin, PauseGet, PauseFreeze, PauseSnapshot, Snapshot, PauseManifest,
           PauseKill, FreeMemory, PauseSave, ResumeBegin, ResumeRead, ResumeSpawn, ResumeLoad,
           ResumeSave, ReapRootfs, ReapDir

\* While no call to the table fails, a record becomes "paused" by a pause,
\* and a resume ends with it running.
LEMMA RecordFate ==
  ASSUME TypeInv, "db" \notin FaultKinds, NEW p \in Requests, Step(p),
         NEW s \in Sandboxes, row'[s] \in {"paused", "lapsed"}
  PROVE  /\ row[s] \in {"paused", "lapsed"} \/ (PauseSave(p) /\ s = target[p])
         /\ ~(pc[p] = "resume.save" /\ target[p] = s)
  <1>a. /\ row \in [Sandboxes -> {"absent", "running", "paused", "lapsed"}]
        /\ pc[p] # "idle" => target[p] \in Sandboxes
    BY DEF TypeInv, TableType, Locals, LocalsOK
  <1>b. ASSUME NEW status, RowCall(p, status) PROVE row' = [row EXCEPT ![target[p]] = status]
    BY <1>b DEF RowCall, Fault
  <1>1. CASE CreateSave(p)
    BY <1>1, <1>a, <1>b DEF CreateSave
  <1>2. CASE DeleteRow(p)
    BY <1>2, <1>a, <1>b DEF DeleteRow
  <1>3. CASE PauseSave(p)
    BY <1>3, <1>a, <1>b DEF PauseSave
  <1>4. CASE ResumeSave(p)
    BY <1>4, <1>a, <1>b DEF ResumeSave
  <1>5. CASE row' = row /\ pc[p] # "resume.save"
    BY <1>5
  <1> QED
    BY <1>1, <1>2, <1>3, <1>4, <1>5
       DEF Step, Create, KillSandbox, Pause, Resume, CreateBegin, CreateTap, CreateSpawn, CreateBoot,
           CreateRegister, DeleteBegin, ReapBegin, Start, Begin, KillTake, KillProcess, KillThen, KillTap,
           KillRootfs, PauseBegin, PauseGet, PauseFreeze, PauseSnapshot, Snapshot, PauseManifest, PauseKill,
           FreeMemory, PauseForget, ResumeBegin, ResumeRead, ResumeSpawn, ResumeLoad, ResumeRegister,
           ReapRootfs, ReapDir, apiVars

LEMMA ExitedStays ==
  ASSUME TypeInv, NEW p \in Requests, Step(p), NEW v \in VMs \cup {Nil}, ExitedIn(vm, v)
  PROVE  ExitedIn(vm', v)
  BY VMFate DEF ExitedIn

\* Who is accounted for stays so: the new process, the entries, and what the
\* request at work has in hand.
LEMMA AccountedBy ==
  ASSUME TypeInv, Accounted, NEW p \in Requests, Step(p),
         \A s \in Sandboxes : LiveIn(vm', running[s].vm) =>
             \/ running'[s].vm = running[s].vm
             \/ pc'[p] \in Answering /\ inst'[p].vm = running[s].vm,
         pc[p] \in Answering /\ LiveIn(vm', inst[p].vm) =>
             \/ pc'[p] \in Answering /\ inst'[p].vm = inst[p].vm
             \/ \E s \in Sandboxes : running'[s].vm = inst[p].vm
  PROVE  Accounted'
  <1> SUFFICES ASSUME NEW v \in VMs, LiveIn(vm', v)
               PROVE  \/ \E s \in Sandboxes : running'[s].vm = v
                      \/ \E q \in Requests : pc'[q] \in Answering /\ inst'[q].vm = v
    BY DEF Accounted
  <1>1. LiveIn(vm, v) \/ (pc'[p] \in Answering /\ inst'[p].vm = v)
    BY VMFate
  <1>2. \A s \in Sandboxes : running[s].vm = v => LiveIn(vm', running[s].vm)
    BY DEF LiveIn
  <1>3. inst[p].vm = v => LiveIn(vm', inst[p].vm)
    BY DEF LiveIn
  <1>4. ASSUME NEW q \in Requests \ {p}, pc[q] \in Answering, inst[q].vm = v
        PROVE  pc'[q] \in Answering /\ inst'[q].vm = v
    BY <1>4, OthersStay DEF TypeInv
  <1> QED BY <1>1, <1>2, <1>3, <1>4 DEF Accounted

LEMMA AccountedStep ==
  ASSUME TypeInv, Owned, FateInv, NEW p \in Requests, Step(p)
  PROVE  Accounted'
  <1>a. Accounted /\ Locals /\ RunType /\ LocalsOK(pc[p], target[p], inst[p])
    BY DEF FateInv, TypeInv, Locals
  <1>b. ~LiveIn(vm', NoInst.vm) /\ ~LiveIn(vm', Nil)
    BY NoInstTyped, FirecrackerAssumption DEF LiveIn
  <1>c. \A v : ExitedIn(vm', v) => ~LiveIn(vm', v)
    BY <1>b DEF ExitedIn, LiveIn
  <1>d. \A v \in VMs : vm'[v] = "dead" => ~LiveIn(vm', v)
    BY DEF LiveIn
  <1>1. CASE running' = running /\ pc[p] \notin Answering
    BY <1>1, <1>a, AccountedBy
  <1>2. CASE CreateBoot(p)
    <2>1. CASE Goto(p, "create.register")
      BY <1>2, <2>1, <1>a, AccountedBy DEF CreateBoot, Goto, Answering, Locals
    <2>2. CASE Kill(inst[p].vm)
      <3>1. vm'[inst[p].vm] = "dead" /\ inst[p].vm \in VMs
        BY <1>2, <2>2, <1>a DEF Kill, CreateBoot, LocalsOK, WithVM, TypeInv, VMType
      <3> QED BY <1>2, <3>1, <1>a, <1>d, AccountedBy DEF CreateBoot
    <2> QED BY <1>2, <2>1, <2>2 DEF CreateBoot, Rollback
  <1>3. CASE CreateRegister(p)
    <2>1. running[target[p]] = NoInst /\ target[p] \in Sandboxes
      BY <1>3, <1>a DEF CreateRegister, Owned, CreatesAlone, Creating, LocalsOK
    <2>2. running' = [running EXCEPT ![target[p]] = inst[p]]
      BY <1>3 DEF CreateRegister
    <2> QED BY <2>1, <2>2, <1>a, <1>b, AccountedBy DEF RunType
  <1>4. CASE KillTake(p) /\ running[target[p]] # NoInst
    <2>1. /\ target[p] \in Sandboxes /\ running' = [running EXCEPT ![target[p]] = NoInst]
          /\ pc'[p] = "kill.process" /\ inst'[p] = running[target[p]] /\ pc[p] \notin Answering
      BY <1>4, <1>a DEF KillTake, Forget, LocalsOK, Locals, Answering
    <2> QED BY <2>1, <1>a, AccountedBy DEF RunType, Answering
  <1>5. CASE KillProcess(p)
    <2>1. running' = running /\ Kill(inst[p].vm) /\ inst[p].vm \in VMs \cup {Nil}
      BY <1>5, <1>a DEF KillProcess, KillThen, Locals, Insts
    <2>2. ~LiveIn(vm', inst[p].vm)
      BY <2>1, <1>b, <1>d DEF Kill, TypeInv, VMType
    <2> QED BY <2>1, <2>2, <1>a, AccountedBy
  <1>6. CASE PauseForget(p)
    <2>1. /\ target[p] \in Sandboxes /\ running' = [running EXCEPT ![target[p]] = NoInst]
          /\ pc[p] = "pause.forget" /\ pc[p] \notin Answering /\ vm' = vm
      BY <1>6, <1>a DEF PauseForget, Forget, LocalsOK, Answering, vmVars
    <2>2. ExitedIn(vm', running[target[p]].vm)
      BY <2>1, NoInstTyped DEF FateInv, PauseHolds, ExitedIn
    <2> QED BY <2>1, <2>2, <1>a, <1>c, AccountedBy DEF RunType
  <1>7. CASE ResumeLoad(p)
    <2>1. CASE Goto(p, "resume.register")
      BY <1>7, <2>1, <1>a, AccountedBy DEF ResumeLoad, Goto, Answering, Locals
    <2>2. CASE Kill(inst[p].vm)
      <3>1. vm'[inst[p].vm] = "dead" /\ inst[p].vm \in VMs
        BY <1>7, <2>2, <1>a DEF Kill, ResumeLoad, LocalsOK, WithVM, TypeInv, VMType
      <3> QED BY <1>7, <3>1, <1>a, <1>d, AccountedBy DEF ResumeLoad
    <2> QED BY <1>7, <2>1, <2>2 DEF ResumeLoad
  <1>8. CASE ResumeRegister(p)
    <2>1. /\ target[p] \in Sandboxes
          /\ running' = [running EXCEPT ![target[p]] = Instance(inst[p].vm, Nil)]
          /\ pc[p] = "resume.register" /\ vm' = vm
      BY <1>8, <1>a DEF ResumeRegister, LocalsOK, vmVars
    <2>2. ExitedIn(vm', running[target[p]].vm)
      BY <2>1 DEF FateInv, ResumesExited, ResumeAt, ExitedIn
    <2> QED BY <2>1, <2>2, <1>a, <1>c, AccountedBy DEF RunType, Instance
  <1> QED
    BY <1>1, <1>2, <1>3, <1>4, <1>5, <1>6, <1>7, <1>8
       DEF Answering, Step, Create, KillSandbox, Pause, Resume, CreateBegin, CreateTap, CreateSpawn,
           CreateSave, DeleteBegin, ReapBegin, Start, Begin, KillTake, KillTap, KillRootfs,
           DeleteRow, PauseBegin, PauseGet, PauseFreeze, PauseSnapshot, Snapshot, PauseManifest,
           PauseKill, FreeMemory, PauseSave, ResumeBegin, ResumeRead, ResumeSpawn,
           ResumeSave, ReapRootfs, ReapDir

\* No other request registers a process for a sandbox that is being paused
\* or resumed.
LEMMA EntryUndisturbed ==
  ASSUME ResumesApart, TypeInv, Owned, NEW p \in Requests, Step(p),
         NEW q \in Requests \ {p}, pc[q] \in PauseAt \cup ResumeAt
  PROVE  running'[target[q]] \in {running[target[q]], NoInst}
  <1>1. target[q] \in Sandboxes
    BY TargetTyped DEF PauseAt, ResumeAt
  <1>2. ~(CreateRegister(p) /\ target[q] = target[p])
    BY DEF CreateRegister, Owned, CreatesAlone, Creating
  <1>3. ~(ResumeRegister(p) /\ target[q] = target[p])
    BY DEF ResumeRegister, ResumesApart, ResumeAt
  <1> QED BY <1>1, <1>2, <1>3, EntryFate

LEMMA PauseHoldsStep ==
  ASSUME ResumesApart, TypeInv, Owned, FateInv, NEW p \in Requests, Step(p)
  PROVE  PauseHolds'
  <1> DEFINE Held(q) ==
        /\ pc[q] \in {"pause.freeze", "pause.snapshot", "pause.manifest", "pause.kill", "pause.forget"} =>
               running[target[q]] \in {inst[q], NoInst}
        /\ pc[q] = "pause.forget" => ExitedIn(vm, inst[q].vm)
        /\ pc[q] = "pause.save" => running[target[q]] = NoInst
  <1>a. Locals /\ \A q \in Requests : Held(q) /\ inst[q].vm \in VMs \cup {Nil}
    BY DEF FateInv, PauseHolds, TypeInv, Locals, Insts
  <1>1. ASSUME NEW q \in Requests \ {p} PROVE Held(q)'
    <2>1. pc'[q] = pc[q] /\ target'[q] = target[q] /\ inst'[q] = inst[q]
      BY <1>a, OthersStay
    <2>2. pc[q] \in PauseAt => running'[target[q]] \in {running[target[q]], NoInst}
      BY EntryUndisturbed
    <2>3. pc[q] = "pause.forget" => ExitedIn(vm', inst[q].vm)
      BY <1>a, ExitedStays
    <2>4. ExitedIn(vm', inst[q].vm) => ExitedIn(vm', inst'[q].vm)
      BY <2>1 DEF ExitedIn
    <2> QED BY <1>a, <2>1, <2>2, <2>3, <2>4 DEF PauseAt
  <1>2. Held(p)'
    <2>1. CASE PauseGet(p)
      BY <2>1, <1>a DEF PauseGet, Return, Locals
    <2>2. CASE PauseFreeze(p) \/ PauseSnapshot(p) \/ PauseManifest(p)
      BY <2>2, <1>a DEF PauseFreeze, PauseSnapshot, Snapshot, PauseManifest, Goto, Return, Locals
    <2>3. CASE PauseKill(p)
      <3>1. /\ pc[p] = "pause.kill" /\ pc'[p] = "pause.forget" /\ Kill(inst[p].vm)
            /\ UNCHANGED <<running, target, inst>>
        BY <2>3, <1>a DEF PauseKill, FreeMemory, Goto, Locals
      <3>2. ExitedIn(vm', inst'[p].vm)
        BY <1>a, <3>1 DEF ExitedIn, Kill, TypeInv, VMType
      <3> QED BY <1>a, <3>1, <3>2
    <2>4. CASE PauseForget(p)
      <3>1. target[p] \in Sandboxes
        BY <2>4, TargetTyped DEF PauseForget
      <3> QED BY <2>4, <3>1, <1>a DEF PauseForget, Forget, Goto, Locals, TypeInv, RunType
    <2>5. CASE PauseBegin(p) \/ PauseSave(p)
      BY <2>5, <1>a DEF PauseBegin, Start, Begin, PauseSave, Return, Locals
    <2>6. CASE pc'[p] \notin PauseAt
      BY <2>6 DEF PauseAt
    <2> QED BY <2>1, <2>2, <2>3, <2>4, <2>5, <2>6, <1>a, StaysInOperation DEF Pause
  <1> QED BY <1>1, <1>2 DEF PauseHolds

LEMMA PausedHasExitedStep ==
  ASSUME "db" \notin FaultKinds, TypeInv, Owned, FateInv, NEW p \in Requests, Step(p)
  PROVE  PausedHasExited'
  <1> SUFFICES ASSUME NEW s \in Sandboxes, row'[s] \in {"paused", "lapsed"}
               PROVE  \/ ExitedIn(vm', running'[s].vm)
                      \/ \E q \in Requests : pc'[q] = "resume.save" /\ target'[q] = s
    BY DEF PausedHasExited
  <1>a. ExitedIn(vm', NoInst.vm) /\ \A v \in VMs \cup {Nil} : ExitedIn(vm, v) => ExitedIn(vm', v)
    BY NoInstTyped, ExitedStays DEF ExitedIn
  <1>b. running[s].vm \in VMs \cup {Nil}
    BY DEF TypeInv, RunType, Insts
  <1>1. CASE PauseSave(p) /\ s = target[p]
    <2>1. running'[s] = NoInst
      BY <1>1 DEF PauseSave, FateInv, PauseHolds
    <2> QED BY <1>a, <2>1 DEF ExitedIn
  <1>2. CASE row[s] \in {"paused", "lapsed"}
    <2>1. ~(CreateRegister(p) /\ s = target[p])
      BY <1>2 DEF CreateRegister, Owned, CreatesAlone, Creating
    <2>2. CASE ResumeRegister(p) /\ s = target[p]
      BY <2>2 DEF ResumeRegister, Goto, TypeInv, Locals
    <2>3. CASE ExitedIn(vm, running[s].vm) /\ running'[s] \in {running[s], NoInst}
      BY <1>a, <1>b, <2>3 DEF ExitedIn
    <2>4. ASSUME NEW q \in Requests, pc[q] = "resume.save", target[q] = s
          PROVE  pc'[q] = "resume.save" /\ target'[q] = s
      BY <2>4, RecordFate, OthersStay DEF TypeInv
    <2> QED BY <1>2, <2>1, <2>2, <2>3, <2>4, EntryFate DEF FateInv, PausedHasExited
  <1> QED BY <1>1, <1>2, RecordFate

LEMMA ResumesExitedStep ==
  ASSUME ResumesApart, ResumesApart', TypeInv, Owned, FateInv, NEW p \in Requests, Step(p)
  PROVE  ResumesExited'
  <1> SUFFICES ASSUME NEW q \in Requests, pc'[q] \in ResumeAt \ {"resume.save"}
               PROVE  ExitedIn(vm', running'[target'[q]].vm)
    BY DEF ResumesExited
  <1>a. ExitedIn(vm', NoInst.vm) /\ \A v \in VMs \cup {Nil} : ExitedIn(vm, v) => ExitedIn(vm', v)
    BY NoInstTyped, ExitedStays DEF ExitedIn
  <1>b. Locals /\ \A s \in Sandboxes : running[s].vm \in VMs \cup {Nil}
    BY DEF TypeInv, RunType, Insts
  <1>1. CASE q # p
    <2>1. pc'[q] = pc[q] /\ target'[q] = target[q]
      BY <1>1, <1>b, OthersStay
    <2>2. running'[target[q]] \in {running[target[q]], NoInst}
      BY <1>1, <2>1, EntryUndisturbed
    <2>3. target[q] \in Sandboxes /\ ExitedIn(vm, running[target[q]].vm)
      BY <2>1, TargetTyped DEF FateInv, ResumesExited, ResumeAt
    <2> QED BY <1>a, <1>b, <2>1, <2>2, <2>3 DEF ExitedIn
  <1>2. CASE q = p /\ pc[p] \in ResumeAt
    <2>1. Resume(p) /\ pc[p] \in ResumeAt
      BY <1>2, <1>b, StaysInOperation
    <2>2. pc[p] # "resume.save" /\ pc[p] # "resume.register" /\ running' = running /\ target'[p] = target[p]
      BY <1>2, <2>1, <1>b DEF Resume, ResumeBegin, Start, Begin, ResumeRead, ResumeSpawn, ResumeLoad,
         ResumeRegister, ResumeSave, Goto, Return, Locals, ResumeAt
    <2>3. target[p] \in Sandboxes /\ ExitedIn(vm, running[target[p]].vm)
      BY <2>1, <2>2, TargetTyped DEF FateInv, ResumesExited, ResumeAt
    <2> QED BY <1>2, <1>a, <1>b, <2>2, <2>3 DEF ExitedIn
  <1>3. CASE q = p /\ pc[p] \notin ResumeAt
    <2>1. ResumeBegin(p) /\ "resume" \in Does[p]
      BY <1>3, <1>b, StaysInOperation
    <2>2. PICK s \in Sandboxes : row[s] \in {"paused", "lapsed"} /\ Start(p, "resume", s, "resume.read")
      BY <2>1 DEF ResumeBegin
    <2>3. target'[p] = s /\ running' = running
      BY <2>2, <1>b DEF Start, Begin, Locals
    <2>4. ASSUME NEW r \in Requests, pc[r] \in ResumeAt, target[r] = s PROVE FALSE
      <3>1. r # p
        BY <1>3, <2>4
      <3>2. pc'[r] \in ResumeAt /\ target'[r] = s
        BY <1>b, <2>4, <3>1, OthersStay
      <3>3. pc'[p] \in ResumeAt
        BY <1>3
      <3> QED BY <2>3, <3>1, <3>2, <3>3 DEF ResumesApart
    <2>5. ExitedIn(vm, running[s].vm)
      BY <1>3, <2>2, <2>4 DEF FateInv, PausedHasExited, ResumeAt
    <2> QED BY <1>3, <1>a, <1>b, <2>3, <2>5 DEF ExitedIn
  <1> QED BY <1>1, <1>2, <1>3

\* An exit, its watcher, a detached clean-up or an expiry.
LEMMA FateOther ==
  ASSUME TypeInv, FateInv, Other, restarts' = 0
  PROVE  FateInv'
  <1>1. /\ UNCHANGED procVars
        /\ \A s \in Sandboxes : row'[s] \in {"paused", "lapsed"} => row[s] \in {"paused", "lapsed"}
        /\ \A s \in Sandboxes : running'[s] = running[s] \/ (running'[s] = NoInst /\ ExitedIn(vm', running[s].vm))
        /\ vm' = vm \/ \E v \in VMs : vm' = [vm EXCEPT ![v] = "dead"]
    <2>1. ASSUME NEW v \in VMs, WatchExit(v) PROVE <1>1!1 /\ <1>1!2 /\ <1>1!3 /\ <1>1!4
      BY <2>1 DEF WatchExit, apiVars, TypeInv, RunType, ExitedIn
    <2>2. ASSUME NEW v \in VMs, VMExit(v) PROVE <1>1!1 /\ <1>1!2 /\ <1>1!3 /\ <1>1!4
      BY <2>2 DEF VMExit, Kill, apiVars
    <2>3. ASSUME NEW s \in Sandboxes, Expire(s) PROVE <1>1!1 /\ <1>1!2 /\ <1>1!3 /\ <1>1!4
      BY <2>3 DEF Expire, vmVars, TypeInv, TableType
    <2>4. ASSUME NEW g \in cleanup, CleanupRootfs(g) \/ CleanupDir(g) PROVE <1>1!1 /\ <1>1!2 /\ <1>1!3 /\ <1>1!4
      BY <2>4 DEF CleanupRootfs, CleanupDir, vmVars
    <2>5. ~Restart
      BY DEF Restart, TypeInv, CountType
    <2> QED BY <2>1, <2>2, <2>3, <2>4, <2>5 DEF Other
  <1>2. UNCHANGED <<pc, target, inst>>
    BY <1>1 DEF procVars
  <1>3. /\ \A v \in VMs : LiveIn(vm', v) => LiveIn(vm, v)
        /\ \A v \in VMs \cup {Nil} : ExitedIn(vm, v) => ExitedIn(vm', v)
        /\ \A v : ExitedIn(vm', v) => ~LiveIn(vm', v)
        /\ ExitedIn(vm', NoInst.vm)
    BY <1>1, NoInstTyped, FirecrackerAssumption DEF LiveIn, ExitedIn, TypeInv, VMType
  <1>4. /\ \A s \in Sandboxes : running[s].vm \in VMs \cup {Nil}
        /\ \A p \in Requests : inst[p].vm \in VMs \cup {Nil}
    BY DEF TypeInv, RunType, Locals, Insts
  <1>5. \A p \in Requests : pc[p] # "idle" => target[p] \in Sandboxes
    BY TargetTyped
  <1>6. \A s \in Sandboxes : ExitedIn(vm, running[s].vm) => ExitedIn(vm', running'[s].vm)
    <2>1. \A s \in Sandboxes : running'[s] = running[s] => (ExitedIn(vm', running[s].vm) <=> ExitedIn(vm', running'[s].vm))
      BY DEF ExitedIn
    <2>2. \A s \in Sandboxes : running'[s] = NoInst => ExitedIn(vm', running'[s].vm)
      BY <1>3 DEF ExitedIn
    <2> QED BY <1>1, <1>3, <1>4, <2>1, <2>2
  <1>7. Accounted'
    <2> SUFFICES ASSUME NEW v \in VMs, LiveIn(vm', v)
                 PROVE  \/ \E s \in Sandboxes : running'[s].vm = v
                        \/ \E q \in Requests : pc[q] \in Answering /\ inst[q].vm = v
      BY <1>2 DEF Accounted
    <2>1. ASSUME NEW s \in Sandboxes, running[s].vm = v PROVE running'[s].vm = v
      <3>1. ExitedIn(vm', running[s].vm) => ExitedIn(vm', v)
        BY <2>1 DEF ExitedIn
      <3> QED BY <1>1, <1>3, <2>1, <3>1
    <2> QED BY <1>3, <2>1 DEF FateInv, Accounted
  <1>8. PauseHolds'
    <2>1. \A p \in Requests : ExitedIn(vm, inst[p].vm) => ExitedIn(vm', inst'[p].vm)
      <3>1. \A p \in Requests : ExitedIn(vm', inst[p].vm) <=> ExitedIn(vm', inst'[p].vm)
        BY <1>2 DEF ExitedIn
      <3> QED BY <1>3, <1>4, <3>1
    <2> QED BY <1>1, <1>2, <1>5, <2>1 DEF FateInv, PauseHolds
  <1>9. PausedHasExited'
    BY <1>1, <1>2, <1>6 DEF FateInv, PausedHasExited
  <1>10. ResumesExited'
    <2>1. \A p \in Requests : ExitedIn(vm', running'[target'[p]].vm) <=> ExitedIn(vm', running'[target[p]].vm)
      BY <1>2 DEF ExitedIn
    <2> QED BY <1>2, <1>5, <1>6, <2>1 DEF FateInv, ResumesExited, ResumeAt
  <1> QED BY <1>7, <1>8, <1>9, <1>10 DEF FateInv

OrphanInv == IInv /\ (restarts = 0 => FateInv)

LEMMA OrphanKept ==
  ASSUME "db" \notin FaultKinds
  PROVE  OrphanInv /\ ResumesApart /\ ResumesApart' /\ [Next]_vars => OrphanInv'
  <1> SUFFICES ASSUME OrphanInv, ResumesApart, ResumesApart', [Next]_vars PROVE OrphanInv'
    OBVIOUS
  <1>1. IInv' /\ TypeInv
    BY IInvKept DEF OrphanInv, IInv
  <1>2. ASSUME restarts' = 0, NEW p \in Requests, Step(p) PROVE FateInv'
    <2>1. restarts = 0
      BY <1>2, StepIsNoRestart
    <2> QED BY <1>2, <2>1, AccountedStep, PauseHoldsStep, PausedHasExitedStep, ResumesExitedStep
            DEF OrphanInv, IInv, FateInv
  <1>3. ASSUME restarts' = 0, Other PROVE FateInv'
    <2>1. restarts = 0
      BY <1>1, <1>3 DEF Other, WatchExit, VMExit, Expire, CleanupRootfs, CleanupDir, Restart, TypeInv, CountType
    <2> QED BY <1>1, <1>3, <2>1, FateOther DEF OrphanInv
  <1>4. CASE UNCHANGED vars
    BY <1>1, <1>4 DEF OrphanInv, vars, apiVars, procVars, vmVars, FateInv, Accounted, PauseHolds,
       PausedHasExited, ResumesExited, LiveIn, ExitedIn
  <1> QED BY <1>1, <1>2, <1>3, <1>4, NextSplit DEF OrphanInv

LEMMA InitOrphanInv == Init => OrphanInv
  BY InitIInv, FirecrackerAssumption, NoInstTyped
     DEF Init, OrphanInv, ResumeAt, FateInv, Accounted, LiveIn, PauseHolds,
         PausedHasExited, ResumesExited

\* While the server runs and no call to the table fails, no live process is
\* lost: it is in m.running or with a handler, whatever else fails and however
\* creates, kills, reapings, pauses and resumes are interleaved, as long as
\* nobody else pauses or resumes a sandbox that is being resumed.  A failed
\* Save breaks it (RetryResume.cfg), and so do two resumes of one sandbox,
\* where the second to register overwrites the first one's entry, and a pause
\* that began before the resume, which forgets the entry whatever it is by
\* then.
THEOREM NobodyIsLostPerSandbox ==
  ASSUME "db" \notin FaultKinds
  PROVE  Spec /\ []ResumesApart => []NoOrphan
  <1>1. Init => OrphanInv
    BY InitOrphanInv
  <1>2. OrphanInv /\ ResumesApart /\ ResumesApart' /\ [Next]_vars => OrphanInv'
    BY OrphanKept
  <1>3. OrphanInv => NoOrphan
    BY DEF OrphanInv, FateInv, Accounted, LiveIn, NoOrphan, Live
  <1> QED BY <1>1, <1>2, <1>3, PTL DEF Spec

\* Only one request resumes, and it is the one that pauses.
OneResumer ==
    \A p, q \in Requests : "resume" \in Does[p] /\ Does[q] \cap {"pause", "resume"} # {} => p = q

\* So it is if one client does all the pauses and resumes, with creates, kills
\* and the reaper beside it.
THEOREM NobodyIsLost ==
  ASSUME OneResumer, "db" \notin FaultKinds
  PROVE  Spec => []NoOrphan
  <1>1. MayDo => ResumesApart
    BY DEF MayDo, OneResumer, ResumesApart
  <1> QED BY <1>1, AlwaysMayDo, NobodyIsLostPerSandbox, PTL

-----------------------------------------------------------------------------
(* Pauses, one request at a time: a client that waits for its answers, and  *)
(* the reaper between them.  Whatever fails and however often the server    *)
(* restarts, the first pause of a sandbox has all its files.                *)

\* The call request q is about to make for sandbox s.
At(q, s) == IF target[q] = s THEN pc[q] ELSE "idle"

Killing == {"kill.process", "kill.tap", "kill.rootfs"}
Reading == {"resume.read", "resume.spawn"}
Loading == {"resume.load", "resume.register", "resume.save"}
ImageAt == {"image.rootfs", "image.dir"}
Spawned(s) == \E v \in VMs : of[v] = s

\* What a request that is somewhere knows of its sandbox.
PlaceOK(q, s) ==
    /\ s \notin born => row[s] = "absent" /\ running[s] = NoInst /\ At(q, s) = "idle"
    /\ At(q, s) \in Creating \cup {"create.save"} => row[s] = "absent"
    /\ At(q, s) \in Creating \cup Killing \cup {"pause.save"} => running[s] = NoInst
    /\ At(q, s) \in PauseAt => row[s] = "running"
    /\ At(q, s) = "pause.manifest" => ("dir" \in dir[s] => "snapshot" \in dir[s] \/ s \in refused)
    /\ At(q, s) \in ImageAt => row[s] = "lapsed"
    /\ At(q, s) \in Reading => row[s] # "absent"

\* A recorded sandbox has had a process; a resume gives it another.
ProcessesOK(q, s) ==
    /\ row[s] # "absent" \/ At(q, s) \in {"create.boot", "create.register", "create.save"} => Spawned(s)
    /\ At(q, s) \in Loading => Resumed(s)

\* Of a sandbox that was never resumed: where its files are, unless removals
\* failed.
OnDisk(q, s) ==
    ~Resumed(s) =>
        /\ row[s] \in {"paused", "lapsed"} => running[s] = NoInst
        /\ row[s] = "paused" => At(q, s) \in {"idle", "kill.take"} \cup Reading
        /\ row[s] = "paused" => s \in refused \/ Restorable(s)
        /\ running[s] # NoInst \/ At(q, s) \in Creating \cup (PauseAt \ {"pause.get"}) =>
               s \in refused \/ rootfs[s]
        /\ At(q, s) \in {"pause.kill", "pause.forget", "pause.save"} => s \in refused \/ Restorable(s)

SandboxOK(q, s) == PlaceOK(q, s) /\ ProcessesOK(q, s) /\ OnDisk(q, s)

\* Detached clean-ups are of resumed sandboxes.
CleanupsOK == \A g \in cleanup : Resumed(g.of)
FreeIsNobodys == \A v \in VMs : vm[v] = "free" => of[v] = Nil

PauseInv(q) == FreeIsNobodys /\ CleanupsOK /\ \A s \in Sandboxes : SandboxOK(q, s)

\* A process is spawned for the sandbox at hand, or none is.
LEMMA OfFate ==
  ASSUME NEW q \in Requests, Step(q)
  PROVE  of' = of \/ (Spawn(q, target[q]) /\ (CreateSpawn(q) \/ ResumeSpawn(q)))
  <1>1. CASE CreateSpawn(q) \/ ResumeSpawn(q)
    BY <1>1 DEF CreateSpawn, ResumeSpawn
  <1>2. CASE UNCHANGED of
    BY <1>2
  <1> QED
    BY <1>1, <1>2
       DEF Step, Create, KillSandbox, Pause, Resume, CreateBegin, CreateTap, CreateBoot, CreateRegister,
           CreateSave, DeleteBegin, ReapBegin, Start, vmVars, KillTake, KillProcess, KillThen, KillTap,
           KillRootfs, DeleteRow, PauseBegin, PauseGet, PauseFreeze, PauseSnapshot, Snapshot,
           PauseManifest, PauseKill, FreeMemory, PauseForget, PauseSave, ResumeBegin, ResumeRead,
           ResumeLoad, ResumeRegister, ResumeSave, ReapRootfs, ReapDir

\* What a new process makes true of its sandbox.
LEMMA SpawnCounts ==
  ASSUME TypeInv, FreeIsNobodys, NEW q, NEW s \in Sandboxes, Spawn(q, s)
  PROVE  /\ Spawned(s)' /\ (Spawned(s) => Resumed(s)')
         /\ \A t \in Sandboxes : Resumed(t) => Resumed(t)'
         /\ \A t \in Sandboxes : t # s => (Spawned(t)' <=> Spawned(t)) /\ (Resumed(t)' <=> Resumed(t))
         /\ FreeIsNobodys'
  <1>1. PICK v \in VMs : vm[v] = "free" /\ vm' = [vm EXCEPT ![v] = IF sock[s] = Nil THEN "blank" ELSE "dead"]
                         /\ of' = [of EXCEPT ![v] = s]
    BY DEF Spawn
  <1>2. of[v] = Nil /\ of'[v] = s /\ \A w \in VMs : w # v => of'[w] = of[w] /\ vm'[w] = vm[w]
    BY <1>1 DEF FreeIsNobodys, TypeInv, VMType
  <1>3. vm'[v] # "free"
    BY <1>1 DEF TypeInv, VMType
  <1>4. \A t \in Sandboxes, w \in VMs : of[w] = t => of'[w] = t /\ w # v
    BY <1>2, FirecrackerAssumption
  <1>5. \A t \in Sandboxes, w \in VMs : t # s /\ of'[w] = t => of[w] = t
    BY <1>2
  <1>6. Spawned(s)'
    BY <1>2 DEF Spawned
  <1>7. Spawned(s) => Resumed(s)'
    BY <1>2, <1>4 DEF Spawned, Resumed
  <1>8. \A t \in Sandboxes : Resumed(t) => Resumed(t)'
    <2> SUFFICES ASSUME NEW t \in Sandboxes, NEW v1, NEW v2, v1 # v2, of[v1] = t, of[v2] = t, v1 \in VMs, v2 \in VMs
                 PROVE  Resumed(t)'
      BY DEF Resumed
    <2> QED BY <1>4 DEF Resumed
  <1>9. ASSUME NEW t \in Sandboxes, t # s
        PROVE  (Spawned(t)' <=> Spawned(t)) /\ (Resumed(t)' <=> Resumed(t))
    <2>1. \A w \in VMs : of'[w] = t <=> of[w] = t
      BY <1>4, <1>5, <1>9
    <2> QED BY <2>1 DEF Spawned, Resumed
  <1> QED BY <1>2, <1>3, <1>6, <1>7, <1>8, <1>9 DEF FreeIsNobodys

\* A request works on one sandbox.
LEMMA Elsewhere ==
  ASSUME TypeInv, NEW q \in Requests, Step(q), ~CreateBegin(q),
         NEW s \in Sandboxes, s # target'[q], At(q, s) = "idle"
  PROVE  /\ row'[s] = row[s] /\ running'[s] = running[s]
         /\ rootfs'[s] = rootfs[s] /\ dir'[s] = dir[s] /\ refused \subseteq refused'
         /\ At(q, s)' = "idle"
  <1>a. /\ Locals /\ RunType /\ FileType /\ TableType /\ At(q, s)' = "idle"
        /\ refused \subseteq refused'
    BY RefusedStep DEF TypeInv, At
  <1>b. pc[q] # "idle" => s # target[q]
    BY DEF At
  <1> USE <1>a, <1>b DEF TableType, RunType, FileType, RemoveRootfsFile, RemoveRootfs, RemoveDir, RowCall,
      TryRemoveRootfsFile, TryRemoveDir, RemovePart, RemoveDirFails
  <1>1. CASE CreateTap(q) \/ CreateSpawn(q) \/ CreateBoot(q) \/ CreateRegister(q) \/ CreateSave(q)
    BY <1>1 DEF CreateTap, CreateSpawn, CreateBoot, Rollback, CreateRegister, CreateSave, apiVars, fileVars
  <1>2. CASE DeleteBegin(q) \/ ReapBegin(q) \/ PauseBegin(q) \/ ResumeBegin(q)
    BY <1>2 DEF DeleteBegin, ReapBegin, PauseBegin, ResumeBegin, Start, apiVars, fileVars
  <1>3. CASE KillSandbox(q)
    BY <1>3 DEF KillSandbox, KillTake, Forget, KillProcess, KillThen, KillTap, KillRootfs, DeleteRow, apiVars, fileVars
  <1>4. CASE PauseGet(q) \/ PauseFreeze(q) \/ PauseSnapshot(q) \/ PauseManifest(q)
    BY <1>4 DEF PauseGet, PauseFreeze, PauseSnapshot, Snapshot, CreateSnapshot, PauseManifest, apiVars
  <1>5. CASE PauseKill(q) \/ PauseForget(q) \/ PauseSave(q)
    BY <1>5 DEF PauseKill, FreeMemory, PauseForget, Forget, PauseSave, apiVars, fileVars
  <1>6. CASE ResumeRead(q) \/ ResumeSpawn(q) \/ ResumeLoad(q) \/ ResumeRegister(q) \/ ResumeSave(q)
    BY <1>6 DEF ResumeRead, ResumeSpawn, ResumeLoad, ResumeRegister, ResumeSave, apiVars, fileVars
  <1>7. CASE ReapRootfs(q) \/ ReapDir(q)
    BY <1>7 DEF ReapRootfs, ReapDir, apiVars, fileVars
  <1> QED
    BY <1>1, <1>2, <1>3, <1>4, <1>5, <1>6, <1>7 DEF Step, Create, Pause, Resume

\* A request that begins says so of one sandbox; nothing else changes.
LEMMA BeginOK ==
  ASSUME TypeInv, NEW q \in Requests, NEW op, NEW s \in Sandboxes,
         NEW l \in {"kill.take", "image.rootfs", "pause.get", "resume.read"}, Start(q, op, s, l),
         SandboxOK(q, s), At(q, s) = "idle", row[s] # "absent",
         l = "image.rootfs" => row[s] = "lapsed",
         l = "pause.get" => row[s] = "running"
  PROVE  SandboxOK(q, s)'
  <1>1. At(q, s)' = l
    BY DEF At, Start, Begin, TypeInv, Locals
  <1>2. UNCHANGED <<row, running, rootfs, dir, refused, of, born>>
    BY DEF Start, apiVars, vmVars, fileVars
  <1>3. (Spawned(s)' <=> Spawned(s)) /\ (Resumed(s)' <=> Resumed(s)) /\ (Restorable(s)' <=> Restorable(s))
    BY <1>2 DEF Spawned, Resumed, Restorable
  <1> QED BY <1>1, <1>2, <1>3 DEF SandboxOK, PlaceOK, ProcessesOK, OnDisk, Creating, Killing, PauseAt, ImageAt, Reading, Loading

LEMMA AtMoves ==
  ASSUME TypeInv, NEW q \in Requests, NEW s \in Sandboxes
  PROVE  /\ \A l \in PCs : pc' = [pc EXCEPT ![q] = l] /\ target' = target /\ s = target[q] => At(q, s)' = l
         /\ \A l \in PCs : Goto(q, l) /\ s = target[q] => At(q, s)' = l
         /\ Return(q) => At(q, s)' = "idle"
  BY FirecrackerAssumption DEF At, Goto, Return, TypeInv, Locals

\* Counting the processes of a sandbox when none is spawned.
LEMMA NoneSpawned ==
  ASSUME UNCHANGED of, NEW s
  PROVE  (Spawned(s)' <=> Spawned(s)) /\ (Resumed(s)' <=> Resumed(s))
  BY DEF Spawned, Resumed

LEMMA RowAfter ==
  ASSUME TypeInv, NEW q \in Requests, NEW status, RowCall(q, status), target[q] \in Sandboxes
  PROVE  row'[target[q]] \in {row[target[q]], status}
  BY DEF RowCall, TypeInv, TableType

LEMMA CreateOK ==
  ASSUME TypeInv, FreeIsNobodys, NEW q \in Requests, Create(q), ~CreateBegin(q),
         NEW s \in Sandboxes, s = target[q], SandboxOK(q, s)
  PROVE  SandboxOK(q, s)'
  <1>a. At(q, s) = pc[q] /\ FileType /\ RunType /\ refused \subseteq refused'
    BY RefusedStep DEF At, TypeInv, Step
  <1> USE <1>a DEF FileType, RunType, PCs, Creating, Killing, PauseAt, ImageAt, Reading, Loading
  <1>1. CASE CreateTap(q)
    <2>1. /\ UNCHANGED <<row, running, of, born>>
          /\ At(q, s)' = "idle" \/ (At(q, s)' = "create.spawn" /\ rootfs' = rootfs)
      BY <1>1, AtMoves DEF CreateTap, apiVars, vmVars
    <2> QED BY <1>1, <2>1, NoneSpawned DEF CreateTap, SandboxOK, PlaceOK, ProcessesOK, OnDisk
  <1>2. CASE CreateSpawn(q)
    <2>1. /\ UNCHANGED <<row, running, born>>
          /\ \/ At(q, s)' = "idle" /\ UNCHANGED of
             \/ At(q, s)' = "create.boot" /\ rootfs' = rootfs /\ Spawn(q, s)
      BY <1>2, AtMoves DEF CreateSpawn, apiVars
    <2>2. (At(q, s)' = "create.boot" => Spawned(s)') /\ (Resumed(s) => Resumed(s)')
      BY <2>1, SpawnCounts, NoneSpawned
    <2> QED BY <1>2, <2>1, <2>2 DEF CreateSpawn, SandboxOK, PlaceOK, ProcessesOK, OnDisk
  <1>3. CASE CreateBoot(q)
    <2>1. /\ UNCHANGED <<row, running, of, born>>
          /\ At(q, s)' = "idle" \/ (At(q, s)' = "create.register" /\ rootfs' = rootfs)
      BY <1>3, AtMoves DEF CreateBoot, Rollback, apiVars
    <2> QED BY <1>3, <2>1, NoneSpawned DEF CreateBoot, SandboxOK, PlaceOK, ProcessesOK, OnDisk
  <1>4. CASE CreateRegister(q)
    <2>1. /\ UNCHANGED <<row, of, born, rootfs, dir>> /\ At(q, s)' = "create.save"
      BY <1>4, AtMoves DEF CreateRegister, apiVars, fileVars
    <2> QED BY <1>4, <2>1, NoneSpawned DEF CreateRegister, SandboxOK, PlaceOK, ProcessesOK, OnDisk
  <1>5. CASE CreateSave(q)
    <2>1. /\ UNCHANGED <<running, of, born, rootfs, dir>> /\ At(q, s)' = "idle"
          /\ row'[s] \in {row[s], "running"}
      BY <1>5, AtMoves, RowAfter DEF CreateSave, vmVars, fileVars
    <2> QED BY <1>5, <2>1, NoneSpawned DEF CreateSave, SandboxOK, PlaceOK, ProcessesOK, OnDisk
  <1> QED BY <1>1, <1>2, <1>3, <1>4, <1>5 DEF Create

LEMMA KillOK ==
  ASSUME TypeInv, NEW q \in Requests, KillSandbox(q),
         NEW s \in Sandboxes, s = target[q], SandboxOK(q, s)
  PROVE  SandboxOK(q, s)'
  <1>a. At(q, s) = pc[q] /\ FileType /\ RunType /\ refused \subseteq refused'
    BY RefusedStep DEF At, TypeInv, Step
  <1> USE <1>a DEF FileType, RunType, PCs, Creating, Killing, PauseAt, ImageAt, Reading, Loading
  <1>1. CASE KillTake(q)
    <2>1. /\ UNCHANGED <<row, of, born, rootfs, dir>>
          /\ \/ At(q, s)' = "idle" /\ UNCHANGED running
             \/ At(q, s)' = "kill.process" /\ running[s] # NoInst /\ running'[s] = NoInst
      BY <1>1, AtMoves DEF KillTake, Forget, apiVars, vmVars, fileVars
    <2> QED BY <1>1, <2>1, NoneSpawned DEF KillTake, SandboxOK, PlaceOK, ProcessesOK, OnDisk, Restorable
  <1>2. CASE KillProcess(q) \/ KillTap(q)
    <2>1. /\ UNCHANGED <<row, running, of, born, rootfs, dir>>
          /\ At(q, s) \in Killing /\ At(q, s)' \in Killing
      BY <1>2, AtMoves DEF KillProcess, KillThen, KillTap, apiVars, vmVars, fileVars
    <2> QED BY <1>2, <2>1, NoneSpawned DEF SandboxOK, PlaceOK, ProcessesOK, OnDisk
  <1>3. CASE KillRootfs(q)
    <2>1. /\ UNCHANGED <<row, running, of, born, dir>>
          /\ At(q, s)' \in {"row.delete", "idle"}
      BY <1>3, AtMoves DEF KillRootfs, apiVars, vmVars
    <2> QED BY <1>3, <2>1, NoneSpawned DEF KillRootfs, SandboxOK, PlaceOK, ProcessesOK, OnDisk
  <1>4. CASE DeleteRow(q)
    <2>1. /\ UNCHANGED <<running, of, born, rootfs, dir>> /\ At(q, s)' = "idle"
          /\ row'[s] \in {row[s], "absent"}
      BY <1>4, AtMoves, RowAfter DEF DeleteRow, vmVars, fileVars
    <2> QED BY <1>4, <2>1, NoneSpawned DEF DeleteRow, SandboxOK, PlaceOK, ProcessesOK, OnDisk
  <1> QED BY <1>1, <1>2, <1>3, <1>4 DEF KillSandbox

LEMMA PauseOK ==
  ASSUME TypeInv, NEW q \in Requests, Pause(q), ~PauseBegin(q),
         NEW s \in Sandboxes, s = target[q], SandboxOK(q, s)
  PROVE  SandboxOK(q, s)'
  <1>a. At(q, s) = pc[q] /\ FileType /\ RunType /\ refused \subseteq refused'
    BY RefusedStep DEF At, TypeInv, Step
  <1> USE <1>a DEF FileType, RunType, PCs, Creating, Killing, PauseAt, ImageAt, Reading, Loading
  <1>1. CASE PauseGet(q)
    <2>1. /\ UNCHANGED <<row, running, of, born, rootfs>>
          /\ At(q, s)' = "idle" \/ (At(q, s)' = "pause.freeze" /\ running[s] # NoInst)
      BY <1>1, AtMoves DEF PauseGet, apiVars, vmVars
    <2> QED BY <1>1, <2>1, NoneSpawned DEF PauseGet, SandboxOK, PlaceOK, ProcessesOK, OnDisk
  <1>2. CASE PauseFreeze(q)
    <2>1. /\ UNCHANGED <<row, running, of, born, rootfs>>
          /\ At(q, s)' \in {"idle", "pause.snapshot"}
      BY <1>2, AtMoves DEF PauseFreeze, apiVars
    <2> QED BY <1>2, <2>1, NoneSpawned DEF PauseFreeze, SandboxOK, PlaceOK, ProcessesOK, OnDisk
  <1>3. CASE PauseSnapshot(q)
    <2>1. /\ UNCHANGED <<row, running, of, born, rootfs>> /\ At(q, s)' = "pause.manifest"
          /\ dir'[s] = {} \/ "snapshot" \in dir'[s] \/ s \in refused'
      BY <1>3, AtMoves, TriedDir DEF PauseSnapshot, Snapshot, CreateSnapshot, DirGone, apiVars, vmVars
    <2> QED BY <1>3, <2>1, NoneSpawned DEF PauseSnapshot, Snapshot, SandboxOK, PlaceOK, ProcessesOK, OnDisk
  <1>4. CASE PauseManifest(q)
    <2>1. /\ UNCHANGED <<row, running, of, born, rootfs>>
          /\ \/ At(q, s)' = "idle"
             \/ At(q, s)' = "pause.kill" /\ "dir" \in dir[s] /\ dir'[s] = dir[s] \cup {"manifest"}
      BY <1>4, AtMoves DEF PauseManifest, apiVars, vmVars
    <2> QED BY <1>4, <2>1, NoneSpawned DEF PauseManifest, SandboxOK, PlaceOK, ProcessesOK, OnDisk, Restorable
  <1>5. CASE PauseKill(q)
    <2>1. /\ UNCHANGED <<row, running, of, born, rootfs, dir>> /\ At(q, s)' = "pause.forget"
      BY <1>5, AtMoves DEF PauseKill, FreeMemory, apiVars
    <2> QED BY <1>5, <2>1, NoneSpawned DEF PauseKill, FreeMemory, SandboxOK, PlaceOK, ProcessesOK, OnDisk, Restorable
  <1>6. CASE PauseForget(q)
    <2>1. /\ UNCHANGED <<row, of, born, rootfs, dir>> /\ At(q, s)' = "pause.save" /\ running'[s] = NoInst
      BY <1>6, AtMoves DEF PauseForget, Forget, apiVars, vmVars, fileVars
    <2> QED BY <1>6, <2>1, NoneSpawned DEF PauseForget, SandboxOK, PlaceOK, ProcessesOK, OnDisk, Restorable
  <1>7. CASE PauseSave(q)
    <2>1. /\ UNCHANGED <<running, of, born, rootfs, dir>> /\ At(q, s)' = "idle"
          /\ row'[s] \in {row[s], "paused"}
      BY <1>7, AtMoves, RowAfter DEF PauseSave, vmVars, fileVars
    <2> QED BY <1>7, <2>1, NoneSpawned DEF PauseSave, SandboxOK, PlaceOK, ProcessesOK, OnDisk, Restorable
  <1> QED BY <1>1, <1>2, <1>3, <1>4, <1>5, <1>6, <1>7 DEF Pause

LEMMA ResumeOK ==
  ASSUME TypeInv, FreeIsNobodys, NEW q \in Requests, Resume(q), ~ResumeBegin(q),
         NEW s \in Sandboxes, s = target[q], SandboxOK(q, s)
  PROVE  SandboxOK(q, s)'
  <1>a. At(q, s) = pc[q] /\ FileType /\ RunType /\ refused \subseteq refused'
    BY RefusedStep DEF At, TypeInv, Step
  <1> USE <1>a DEF FileType, RunType, PCs, Creating, Killing, PauseAt, ImageAt, Reading, Loading
  <1>1. CASE ResumeRead(q)
    <2>1. /\ UNCHANGED <<row, running, of, born, rootfs, dir>>
          /\ At(q, s)' \in {"idle", "resume.spawn"}
      BY <1>1, AtMoves DEF ResumeRead, apiVars, fileVars
    <2> QED BY <1>1, <2>1, NoneSpawned DEF ResumeRead, SandboxOK, PlaceOK, ProcessesOK, OnDisk, Restorable
  <1>2. CASE ResumeSpawn(q)
    <2>1. /\ UNCHANGED <<row, running, born, rootfs, dir>>
          /\ \/ At(q, s)' = "idle" /\ UNCHANGED of
             \/ At(q, s)' = "resume.load" /\ Spawn(q, s)
      BY <1>2, AtMoves DEF ResumeSpawn, apiVars, fileVars
    <2>2. CASE Spawn(q, s)
      <3>1. Spawned(s)
        BY <1>2 DEF ResumeSpawn, SandboxOK, PlaceOK, ProcessesOK
      <3>2. Spawned(s)' /\ Resumed(s)'
        BY <2>2, <3>1, SpawnCounts
      <3> QED BY <1>2, <2>1, <3>2 DEF ResumeSpawn, SandboxOK, PlaceOK, ProcessesOK, OnDisk
    <2> QED BY <1>2, <2>1, <2>2, NoneSpawned DEF ResumeSpawn, SandboxOK, PlaceOK, ProcessesOK, OnDisk, Restorable
  <1>3. CASE ResumeLoad(q) \/ ResumeRegister(q)
    <2>1. /\ UNCHANGED <<row, of, born, rootfs, dir>>
          /\ At(q, s)' \in {"idle", "resume.register", "resume.save"} /\ At(q, s) \in Loading
      BY <1>3, AtMoves DEF ResumeLoad, ResumeRegister, apiVars, fileVars, vmVars
    <2> QED BY <1>3, <2>1, NoneSpawned DEF SandboxOK, PlaceOK, ProcessesOK, OnDisk
  <1>4. CASE ResumeSave(q)
    <2>1. /\ UNCHANGED <<running, of, born, rootfs, dir>> /\ At(q, s)' = "idle"
          /\ row'[s] \in {row[s], "running"}
      BY <1>4, AtMoves, RowAfter DEF ResumeSave, vmVars, fileVars
    <2>2. Spawned(s)
      BY <1>4 DEF ResumeSave, SandboxOK, ProcessesOK, Resumed, Spawned
    <2> QED BY <1>4, <2>1, <2>2, NoneSpawned DEF ResumeSave, SandboxOK, PlaceOK, ProcessesOK, OnDisk
  <1> QED BY <1>1, <1>2, <1>3, <1>4 DEF Resume

LEMMA ReapOK ==
  ASSUME TypeInv, NEW q \in Requests, ReapRootfs(q) \/ ReapDir(q),
         NEW s \in Sandboxes, s = target[q], SandboxOK(q, s)
  PROVE  SandboxOK(q, s)'
  <1>1. At(q, s) \in ImageAt /\ UNCHANGED <<row, running, of, born>>
    BY DEF At, ReapRootfs, ReapDir, ImageAt, apiVars, vmVars
  <1>2. At(q, s)' \in {"image.dir", "row.delete", "idle"}
    BY AtMoves DEF ReapRootfs, ReapDir, PCs
  <1> QED BY <1>1, <1>2, NoneSpawned DEF SandboxOK, PlaceOK, ProcessesOK, OnDisk, Creating, Killing, PauseAt, ImageAt, Reading, Loading

LEMMA SandboxStep ==
  ASSUME TypeInv, NEW q \in Requests, PauseInv(q), Step(q), NEW s \in Sandboxes
  PROVE  SandboxOK(q, s)'
  <1>a. Locals /\ FreeIsNobodys /\ SandboxOK(q, s)
    BY DEF TypeInv, PauseInv
  <1>1. CASE CreateBegin(q)
    <2>1. /\ UNCHANGED <<row, running, dir, of>> /\ pc[q] = "idle"
          /\ \/ UNCHANGED <<procVars, rootfs>>
             \/ \E t \in Sandboxes \ born : /\ rootfs' = [rootfs EXCEPT ![t] = TRUE] /\ t \in refused'
                                            /\ UNCHANGED procVars
             \/ /\ pc' = [pc EXCEPT ![q] = "create.tap"]
                /\ \E t \in Sandboxes \ born :
                      /\ target' = [target EXCEPT ![q] = t] /\ rootfs' = [rootfs EXCEPT ![t] = TRUE]
                      /\ born' = born \cup {t}
          /\ born \subseteq born' /\ refused \subseteq refused'
      BY <1>1 DEF CreateBegin, Begin, Refused, vmVars
    <2>2. At(q, s) = "idle"
      BY <2>1 DEF At
    <2>3. ASSUME UNCHANGED procVars, rootfs'[s] = rootfs[s] \/ s \in refused'
          PROVE  SandboxOK(q, s)'
      BY <2>1, <2>2, <2>3, <1>a, NoneSpawned
         DEF procVars, At, SandboxOK, PlaceOK, ProcessesOK, OnDisk, Restorable, Creating, Killing, PauseAt,
             ImageAt, Reading, Loading
    <2>5. ASSUME NEW t \in Sandboxes \ born, rootfs' = [rootfs EXCEPT ![t] = TRUE], t \in refused'
          PROVE  rootfs'[s] = rootfs[s] \/ s \in refused'
      BY <2>5 DEF TypeInv, FileType
    <2>4. ASSUME NEW t \in Sandboxes \ born, target' = [target EXCEPT ![q] = t],
                 pc' = [pc EXCEPT ![q] = "create.tap"],
                 rootfs' = [rootfs EXCEPT ![t] = TRUE], born' = born \cup {t}
          PROVE  SandboxOK(q, s)'
      <3>1. At(q, s)' = IF s = t THEN "create.tap" ELSE "idle"
        BY <1>a, <2>4 DEF At, Locals
      <3>2. rootfs'[s] = IF s = t THEN TRUE ELSE rootfs[s]
        BY <2>4 DEF TypeInv, FileType
      <3>3. s = t => row[s] = "absent" /\ running[s] = NoInst
        BY <1>a DEF SandboxOK, PlaceOK
      <3> QED
        BY <2>1, <2>2, <2>4, <3>1, <3>2, <3>3, <1>a, NoneSpawned
           DEF SandboxOK, PlaceOK, ProcessesOK, OnDisk, Restorable, Creating, Killing, PauseAt, ImageAt,
               Reading, Loading
    <2> QED BY <2>1, <2>3, <2>4, <2>5
  <1>2. CASE DeleteBegin(q) \/ ReapBegin(q) \/ PauseBegin(q) \/ ResumeBegin(q)
    <2>1. PICK t \in Sandboxes, l \in {"kill.take", "image.rootfs", "pause.get", "resume.read"},
               op \in {"delete", "reap", "pause", "resume"} :
             /\ Start(q, op, t, l) /\ row[t] # "absent"
             /\ l = "image.rootfs" => row[t] = "lapsed"
             /\ l = "pause.get" => row[t] = "running"
      BY <1>2 DEF DeleteBegin, ReapBegin, PauseBegin, ResumeBegin
    <2>2. At(q, s) = "idle" /\ target'[q] = t
      BY <2>1, <1>a DEF Start, Begin, At, Locals
    <2>3. CASE s = t
      BY <2>1, <2>2, <2>3, <1>a, BeginOK
    <2>4. CASE s # t
      <3>1. UNCHANGED <<row, running, rootfs, dir, refused, of, born>> /\ At(q, s)' = "idle"
        BY <2>1, <2>2, <2>4 DEF Start, apiVars, fileVars, vmVars, At
      <3> QED BY <2>2, <3>1, <1>a, NoneSpawned DEF SandboxOK, PlaceOK, ProcessesOK, OnDisk, Restorable
    <2> QED BY <2>3, <2>4
  <1>3. CASE pc[q] # "idle" /\ ~CreateBegin(q) /\ s # target[q]
    <2>1. target'[q] \in {target[q], Nil} /\ born' = born
      BY <1>a, <1>3 DEF Step, Create, KillSandbox, Pause, Resume, CreateTap, CreateSpawn, CreateBoot,
         Rollback, CreateRegister, CreateSave, DeleteBegin, ReapBegin, Start, Begin, KillTake, KillProcess,
         KillThen, KillTap, KillRootfs, DeleteRow, PauseBegin, PauseGet, PauseFreeze, PauseSnapshot, Snapshot,
         PauseManifest, PauseKill, FreeMemory, PauseForget, PauseSave, ResumeBegin, ResumeRead,
         ResumeSpawn, ResumeLoad, ResumeRegister, ResumeSave, ReapRootfs, ReapDir, Goto, Return, Locals, apiVars
    <2>2. s # target'[q] /\ At(q, s) = "idle"
      BY <1>3, <2>1, FirecrackerAssumption DEF At
    <2>3. (Spawned(s)' <=> Spawned(s)) /\ (Resumed(s)' <=> Resumed(s))
      BY <1>a, <1>3, OfFate, SpawnCounts, NoneSpawned, TargetTyped
    <2>4. /\ row'[s] = row[s] /\ running'[s] = running[s]
          /\ rootfs'[s] = rootfs[s] /\ dir'[s] = dir[s] /\ At(q, s)' = "idle"
          /\ refused \subseteq refused'
      BY <1>3, <2>2, Elsewhere
    <2> QED BY <2>1, <2>2, <2>3, <2>4, <1>a DEF SandboxOK, PlaceOK, ProcessesOK, OnDisk, Restorable
  <1>4. CASE s = target[q] /\ ~CreateBegin(q) /\ ~DeleteBegin(q) /\ ~ReapBegin(q) /\ ~PauseBegin(q) /\ ~ResumeBegin(q)
    BY <1>4, <1>a, CreateOK, KillOK, PauseOK, ResumeOK, ReapOK DEF Step
  <1>5. \/ CreateBegin(q) \/ DeleteBegin(q) \/ ReapBegin(q) \/ PauseBegin(q) \/ ResumeBegin(q)
        \/ pc[q] # "idle"
    BY DEF Step, Create, KillSandbox, Pause, Resume, CreateTap, CreateSpawn, CreateBoot,
       CreateRegister, CreateSave, KillTake, KillProcess,
       KillThen, KillTap, KillRootfs, DeleteRow, PauseGet, PauseFreeze, PauseSnapshot, Snapshot,
       PauseManifest, PauseKill, FreeMemory, PauseForget, PauseSave, ResumeRead,
       ResumeSpawn, ResumeLoad, ResumeRegister, ResumeSave, ReapRootfs, ReapDir
  <1> QED BY <1>1, <1>2, <1>3, <1>4, <1>5

LEMMA CleanupsStep ==
  ASSUME TypeInv, NEW q \in Requests, PauseInv(q), Step(q)
  PROVE  FreeIsNobodys' /\ CleanupsOK'
  <1>1. \A s \in Sandboxes : Resumed(s) => Resumed(s)'
    BY OfFate, SpawnCounts, NoneSpawned, TargetTyped DEF PauseInv, CreateSpawn, ResumeSpawn
  <1>2. FreeIsNobodys'
    <2>1. CASE of' = of
      <3>1. \A v \in VMs : vm'[v] = "free" => vm[v] = "free"
        <4>1. \/ UNCHANGED vm
              \/ Spawn(q, target[q])
              \/ \E v : Kill(v) \/ PauseVM(v) \/ vm' = [vm EXCEPT ![v] = "up"]
          BY DEF Step, Create, KillSandbox, Pause, Resume, CreateBegin, CreateTap, CreateSpawn, CreateBoot,
                 StartInstance, Rollback, CreateRegister, CreateSave, DeleteBegin, ReapBegin, Start, vmVars,
                 KillTake, KillProcess, KillThen, KillTap, KillRootfs, DeleteRow, PauseBegin, PauseGet,
                 PauseFreeze, PauseSnapshot, Snapshot, PauseManifest, PauseKill, FreeMemory, PauseForget,
                 PauseSave, ResumeBegin, ResumeRead, ResumeSpawn, ResumeLoad, LoadSnapshot,
                 ResumeRegister, ResumeSave, ReapRootfs, ReapDir
        <4> QED BY <4>1 DEF Spawn, Kill, PauseVM, TypeInv, VMType
      <3> QED BY <2>1, <3>1 DEF PauseInv, FreeIsNobodys
    <2>2. CASE of' # of
      BY <2>2, OfFate, SpawnCounts, TargetTyped DEF PauseInv, CreateSpawn, ResumeSpawn
    <2> QED BY <2>1, <2>2
  <1>3. CleanupsOK'
    <2>1. CASE ResumeSave(q)
      <3>1. PICK t \in Sandboxes : t = target[q] /\ pc[q] = "resume.save" /\ of' = of
        BY <2>1, TargetTyped DEF ResumeSave, vmVars
      <3>2. Resumed(t)'
        BY <3>1, NoneSpawned DEF PauseInv, SandboxOK, ProcessesOK, Loading, At
      <3>3. \A g \in cleanup' : g \in cleanup \/ g.of = t
        BY <2>1, <3>1 DEF ResumeSave
      <3>4. ASSUME NEW g \in cleanup' PROVE Resumed(g.of)'
        BY <3>2, <3>3, <1>1 DEF PauseInv, CleanupsOK, TypeInv, TableType
      <3> QED BY <3>4 DEF CleanupsOK
    <2>2. CASE cleanup' = cleanup
      BY <1>1, <2>2 DEF PauseInv, CleanupsOK, TypeInv, TableType
    <2> QED
      BY <2>1, <2>2
         DEF Step, Create, KillSandbox, Pause, Resume, CreateBegin, CreateTap, CreateSpawn, CreateBoot,
             CreateRegister, CreateSave, DeleteBegin, ReapBegin, Start, apiVars, KillTake, KillProcess,
             KillThen, KillTap, KillRootfs, DeleteRow, PauseBegin, PauseGet, PauseFreeze, PauseSnapshot,
             Snapshot, PauseManifest, PauseKill, FreeMemory, PauseForget, PauseSave, ResumeBegin,
             ResumeRead, ResumeSpawn, ResumeLoad, ResumeRegister, ReapRootfs, ReapDir
  <1> QED BY <1>2, <1>3

\* An exit, a watcher, an expiry, a clean-up or a restart.
LEMMA PauseOther ==
  ASSUME TypeInv, NEW q \in Requests, PauseInv(q), Other
  PROVE  PauseInv(q)'
  <1> USE DEF PauseInv, SandboxOK
  <1>a. of' = of /\ born' = born
    BY DEF Other, WatchExit, VMExit, Expire, CleanupRootfs, CleanupDir, Restart, apiVars, vmVars
  <1>b. \A s : (Spawned(s)' <=> Spawned(s)) /\ (Resumed(s)' <=> Resumed(s))
    BY <1>a DEF Spawned, Resumed
  <1>c. refused \subseteq refused'
    <2>1. ASSUME NEW g \in cleanup, CleanupRootfs(g) \/ CleanupDir(g) PROVE refused \subseteq refused'
      BY <2>1, TriedImage DEF CleanupRootfs, CleanupDir, RemoveDir, RemoveDirFails
    <2> QED BY <2>1 DEF Other, WatchExit, VMExit, Expire, Restart, fileVars
  <1>1. FreeIsNobodys'
    <2>1. \A v \in VMs : vm'[v] = "free" => vm[v] = "free"
      BY DEF Other, WatchExit, VMExit, Kill, Expire, CleanupRootfs, CleanupDir, Restart, vmVars, TypeInv, VMType
    <2> QED BY <1>a, <2>1 DEF FreeIsNobodys
  <1>2. CleanupsOK'
    <2>1. \A g \in cleanup' : \E h \in cleanup : g.of = h.of
      BY DEF Other, WatchExit, VMExit, Expire, CleanupRootfs, CleanupDir, Restart, apiVars, TypeInv, TableType
    <2>2. ASSUME NEW g \in cleanup' PROVE Resumed(g.of)'
      BY <1>b, <2>1 DEF CleanupsOK
    <2> QED BY <2>2 DEF CleanupsOK
  <1>3. ASSUME NEW s \in Sandboxes PROVE SandboxOK(q, s)'
    <2> USE DEF PlaceOK, ProcessesOK, OnDisk
    <2>a. SandboxOK(q, s) /\ RunType /\ TableType /\ FileType
      BY DEF TypeInv
    <2>1. ASSUME NEW v \in VMs, WatchExit(v) \/ VMExit(v) PROVE SandboxOK(q, s)'
      <3>1. /\ UNCHANGED <<row, rootfs, dir>> /\ At(q, s)' = At(q, s)
            /\ running'[s] = running[s] \/ running'[s] = NoInst
        BY <2>a, <2>1 DEF WatchExit, VMExit, apiVars, fileVars, procVars, At, RunType
      <3> QED BY <2>a, <3>1, <1>a, <1>b, <1>c DEF Restorable
    <2>2. ASSUME NEW t \in Sandboxes, Expire(t) PROVE SandboxOK(q, s)'
      <3>1. /\ UNCHANGED <<running, rootfs, dir>> /\ At(q, s)' = At(q, s)
            /\ row'[s] = row[s] \/ (row[s] = "paused" /\ row'[s] = "lapsed")
        BY <2>a, <2>2 DEF Expire, fileVars, procVars, At, TableType
      <3> QED BY <2>a, <3>1, <1>a, <1>b, <1>c DEF Restorable, ImageAt, PauseAt, Creating
    <2>3. ASSUME NEW g \in cleanup, CleanupRootfs(g) \/ CleanupDir(g) PROVE SandboxOK(q, s)'
      <3>1. /\ UNCHANGED <<row, running>> /\ At(q, s)' = At(q, s)
            /\ dir'[s] = dir[s] \/ dir'[s] = {} \/ s \in refused'
            /\ ~Resumed(s) => rootfs'[s] = rootfs[s] /\ dir'[s] = dir[s]
        <4>1. g.of \in Sandboxes /\ Resumed(g.of)
          BY DEF CleanupsOK, TypeInv, TableType
        <4>2. /\ dir' = dir \/ DirGone(g.of)
              /\ rootfs' = rootfs \/ RootfsGone(g.of)
          BY <2>a, <2>3, <4>1, TriedDir, TriedImage DEF CleanupRootfs, CleanupDir, RemoveDir, RemoveDirFails
        <4> QED BY <2>a, <2>3, <4>1, <4>2
                DEF CleanupRootfs, CleanupDir, DirGone, RootfsGone, procVars, At, FileType
      <3> QED BY <2>a, <3>1, <1>a, <1>b, <1>c DEF Restorable
    <2>4. CASE Restart
      <3>1. /\ UNCHANGED <<rootfs, dir>> /\ At(q, s)' = "idle" /\ running'[s] = NoInst
            /\ row'[s] = row[s] \/ row'[s] = "absent"
        BY <2>a, <2>4, FirecrackerAssumption DEF Restart, fileVars, At, TableType
      <3> QED BY <2>a, <3>1, <1>a, <1>b, <1>c
              DEF Restorable, ImageAt, PauseAt, Creating, Killing, Reading, Loading
    <2> QED BY <2>1, <2>2, <2>3, <2>4 DEF Other
  <1> QED BY <1>1, <1>2, <1>3

LEMMA PauseInvKept ==
  ASSUME NEW q \in Requests, Requests = {q}
  PROVE  TypeInv /\ PauseInv(q) /\ [Next]_vars => PauseInv(q)'
  <1> SUFFICES ASSUME TypeInv, PauseInv(q), [Next]_vars PROVE PauseInv(q)'
    OBVIOUS
  <1>1. CASE Step(q)
    BY <1>1, SandboxStep, CleanupsStep DEF PauseInv
  <1>2. CASE Other
    BY <1>2, PauseOther
  <1>3. CASE UNCHANGED vars
    <2>1. UNCHANGED <<row, running, cleanup, born, pc, target, vm, of, rootfs, dir, refused>>
      BY <1>3 DEF vars, apiVars, procVars, vmVars, fileVars
    <2> QED
      BY <2>1 DEF PauseInv, FreeIsNobodys, CleanupsOK, SandboxOK, PlaceOK, ProcessesOK, OnDisk, Restorable,
         Spawned, Resumed, At
  <1> QED BY <1>1, <1>2, <1>3, NextSplit

LEMMA InitPauseInv == ASSUME NEW q \in Requests, Init PROVE PauseInv(q)
  BY FirecrackerAssumption
     DEF Init, PauseInv, FreeIsNobodys, CleanupsOK, SandboxOK, PlaceOK, ProcessesOK, OnDisk, Restorable,
         Spawned, Resumed, At, Creating, Killing, PauseAt, ImageAt, Reading, Loading, NoInst

\* A record that says "paused" has its snapshot, its manifest and its root
\* filesystem on disk until the sandbox is first resumed: for a client that
\* waits for its answers and the reaper between its requests, whatever fails
\* (a call to the VM, the table, the disk, the network; a spawn; an exit) but
\* a removal of that sandbox's files, and however often the server restarts.
\* After a resume it is not so (SecondPause.cfg), nor between two requests (a
\* delete of a sandbox that is being paused removes its root filesystem).
THEOREM FirstPauseHasItsFiles ==
  ASSUME NEW q \in Requests, Requests = {q}
  PROVE  Spec => []FirstPauseIsRestorable
  <1>1. Init => TypeInv /\ PauseInv(q)
    BY InitTyped, InitPauseInv
  <1>2. TypeInv /\ PauseInv(q) /\ [Next]_vars => (TypeInv /\ PauseInv(q))'
    BY TypesKept, PauseInvKept
  <1>3. PauseInv(q) => FirstPauseIsRestorable
    BY DEF PauseInv, SandboxOK, OnDisk, FirstPauseIsRestorable
  <1> QED BY <1>1, <1>2, <1>3, PTL DEF Spec
-----------------------------------------------------------------------------
(* What is left of a sandbox that has no record, one request at a time,     *)
(* when every call to the table works.                                      *)

\* An entry, and what a request is to answer for, is of a process of the
\* sandbox.
LinkOK(q, s) ==
    /\ running[s].vm # Nil => of[running[s].vm] = s
    /\ At(q, s) \in Answering /\ inst[q].vm # Nil => of[inst[q].vm] = s

\* A sandbox with no record, or with a pause's, has no entry unless its
\* create or its resume is about to write the record.
EntryOK(q, s) ==
    /\ row[s] \in {"paused", "lapsed"} /\ running[s] # NoInst => At(q, s) = "resume.save"
    /\ row[s] = "absent" /\ running[s] # NoInst => At(q, s) # "idle"
    /\ At(q, s) = "row.delete" => running[s] = NoInst
    /\ At(q, s) \in {"kill.take"} \cup Killing \cup Loading => row[s] # "absent"

\* Of a sandbox that was never resumed and of which no removal failed: where
\* it has no files.
FilesOK(q, s) ==
    ~Resumed(s) /\ s \notin refused =>
        /\ row[s] = "absent" /\ At(q, s) = "idle" => ~rootfs[s] /\ dir[s] = {}
        /\ row[s] = "running" /\ At(q, s) \notin PauseAt \ {"pause.get"} => dir[s] = {}
        /\ row[s] = "lapsed" => (rootfs[s] => "manifest" \in dir[s])
        /\ At(q, s) \in Creating \cup Killing \cup {"create.save", "pause.get", "row.delete"} => dir[s] = {}
        /\ At(q, s) \in {"image.dir", "row.delete"} => ~rootfs[s]

TidyOK(q, s) == LinkOK(q, s) /\ EntryOK(q, s) /\ FilesOK(q, s)

LEMMA RowWritten ==
  ASSUME "db" \notin FaultKinds, TypeInv, NEW q \in Requests, NEW status, RowCall(q, status),
         target[q] \in Sandboxes
  PROVE  row'[target[q]] = status
  BY DEF RowCall, Fault, TypeInv, TableType

LEMMA SpawnLinks ==
  ASSUME TypeInv, FreeIsNobodys, NEW q \in Requests, NEW s \in Sandboxes, Spawn(q, s)
  PROVE  /\ inst'[q].vm # Nil => of'[inst'[q].vm] = s
         /\ \A v \in VMs, t \in Sandboxes : of[v] = t => of'[v] = t
  <1>1. PICK v \in VMs : /\ vm[v] = "free" /\ of' = [of EXCEPT ![v] = s]
                         /\ inst' = [inst EXCEPT ![q].vm = v]
    BY DEF Spawn
  <1>2. of[v] = Nil /\ of'[v] = s /\ \A w \in VMs : w # v => of'[w] = of[w]
    BY <1>1 DEF FreeIsNobodys, TypeInv, VMType
  <1>3. inst'[q].vm = v
    BY <1>1 DEF TypeInv, Locals, Insts
  <1> QED BY <1>2, <1>3, FirecrackerAssumption

LEMMA TidyCreate ==
  ASSUME "db" \notin FaultKinds, TypeInv, FreeIsNobodys, NEW q \in Requests, Create(q), ~CreateBegin(q),
         NEW s \in Sandboxes, s = target[q], SandboxOK(q, s), TidyOK(q, s)
  PROVE  TidyOK(q, s)'
  <1>a. /\ At(q, s) = pc[q] /\ FileType /\ RunType /\ Locals /\ refused \subseteq refused'
        /\ running[s].vm \in VMs \cup {Nil} /\ inst[q].vm \in VMs \cup {Nil}
    BY RefusedStep DEF At, TypeInv, RunType, Locals, Insts, Step
  <1> USE <1>a DEF FileType, PCs, Creating, Killing, PauseAt, Answering, Loading, SandboxOK, TidyOK
  <1>1. CASE CreateTap(q)
    <2>1. /\ UNCHANGED <<row, running, of, dir>>
          /\ At(q, s)' = "create.spawn" \/ (At(q, s)' = "idle" /\ (rootfs'[s] = FALSE \/ s \in refused'))
      BY <1>1, AtMoves, TriedRootfs DEF CreateTap, RootfsGone, apiVars, vmVars
    <2> QED BY <1>1, <2>1, NoneSpawned DEF CreateTap, PlaceOK, LinkOK, EntryOK, FilesOK
  <1>2. CASE CreateSpawn(q)
    <2>1. /\ UNCHANGED <<row, running, dir>>
          /\ \/ At(q, s)' = "idle" /\ (rootfs'[s] = FALSE \/ s \in refused') /\ UNCHANGED of
             \/ At(q, s)' = "create.boot" /\ Spawn(q, s)
      BY <1>2, AtMoves, TriedRootfs DEF CreateSpawn, RootfsGone, apiVars
    <2>2. CASE Spawn(q, s)
      BY <1>2, <2>1, <2>2, SpawnLinks, SpawnCounts DEF CreateSpawn, PlaceOK, LinkOK, EntryOK, FilesOK
    <2>3. CASE At(q, s)' = "idle"
      BY <1>2, <2>1, <2>2, <2>3, NoneSpawned DEF CreateSpawn, PlaceOK, LinkOK, EntryOK, FilesOK
    <2> QED BY <2>1, <2>2, <2>3
  <1>3. CASE CreateBoot(q)
    <2>1. /\ UNCHANGED <<row, running, of, dir>>
          /\ \/ At(q, s)' = "create.register" /\ inst' = inst
             \/ At(q, s)' = "idle" /\ (rootfs'[s] = FALSE \/ s \in refused')
      BY <1>3, AtMoves, TriedRootfs DEF CreateBoot, Rollback, RootfsGone, Goto, apiVars
    <2> QED BY <1>3, <2>1, NoneSpawned DEF CreateBoot, PlaceOK, LinkOK, EntryOK, FilesOK
  <1>4. CASE CreateRegister(q)
    <2>1. /\ UNCHANGED <<row, of, rootfs, dir>> /\ At(q, s)' = "create.save" /\ running'[s] = inst[q]
      BY <1>4, AtMoves DEF CreateRegister, RunType, apiVars, fileVars
    <2> QED BY <1>4, <2>1, NoneSpawned DEF CreateRegister, PlaceOK, LinkOK, EntryOK, FilesOK
  <1>5. CASE CreateSave(q)
    <2>1. /\ UNCHANGED <<running, of, rootfs, dir>> /\ At(q, s)' = "idle" /\ row'[s] = "running"
      BY <1>5, AtMoves, RowWritten DEF CreateSave, vmVars, fileVars
    <2> QED BY <1>5, <2>1, NoneSpawned DEF CreateSave, LinkOK, EntryOK, FilesOK
  <1> QED BY <1>1, <1>2, <1>3, <1>4, <1>5 DEF Create

LEMMA TidyKill ==
  ASSUME "db" \notin FaultKinds, TypeInv, NEW q \in Requests, KillSandbox(q),
         NEW s \in Sandboxes, s = target[q], SandboxOK(q, s), TidyOK(q, s)
  PROVE  TidyOK(q, s)'
  <1>a. /\ At(q, s) = pc[q] /\ FileType /\ RunType /\ Locals /\ NoInst.vm = Nil /\ refused \subseteq refused'
        /\ running[s].vm \in VMs \cup {Nil} /\ inst[q].vm \in VMs \cup {Nil}
        /\ row[s] \in {"absent", "running", "paused", "lapsed"}
    BY NoInstTyped, RefusedStep DEF At, TypeInv, RunType, Locals, Insts, TableType, Step
  <1> USE <1>a DEF FileType, PCs, Creating, Killing, PauseAt, Answering, Loading, SandboxOK, TidyOK
  <1>1. CASE KillTake(q)
    <2>1. /\ UNCHANGED <<row, of, rootfs, dir>>
          /\ \/ At(q, s)' = "idle" /\ UNCHANGED running
             \/ /\ At(q, s)' = "kill.process" /\ running[s] # NoInst /\ running'[s] = NoInst
                /\ inst'[q] = running[s]
      BY <1>1, AtMoves DEF KillTake, Forget, RunType, Locals, apiVars, vmVars, fileVars
    <2> QED BY <1>1, <2>1, NoneSpawned DEF KillTake, OnDisk, LinkOK, EntryOK, FilesOK
  <1>2. CASE KillProcess(q) \/ KillTap(q)
    <2>1. /\ UNCHANGED <<row, running, of, rootfs, dir, inst>>
          /\ At(q, s) \in Killing /\ At(q, s)' \in Killing \ Answering
      BY <1>2, AtMoves DEF KillProcess, KillThen, KillTap, Goto, apiVars, vmVars, fileVars
    <2> QED BY <1>2, <2>1, NoneSpawned DEF LinkOK, EntryOK, FilesOK
  <1>3. CASE KillRootfs(q)
    <2>1. /\ UNCHANGED <<row, running, of, dir>>
          /\ \/ At(q, s)' = "row.delete" /\ rootfs'[s] = FALSE
             \/ At(q, s)' = "idle" /\ rootfs' = rootfs
      BY <1>3, AtMoves DEF KillRootfs, RemoveRootfsFile, apiVars, vmVars
    <2> QED BY <1>3, <2>1, NoneSpawned DEF KillRootfs, PlaceOK, LinkOK, EntryOK, FilesOK
  <1>4. CASE DeleteRow(q)
    <2>1. /\ UNCHANGED <<running, of, rootfs, dir>> /\ At(q, s)' = "idle" /\ row'[s] = "absent"
      BY <1>4, AtMoves, RowWritten DEF DeleteRow, vmVars, fileVars
    <2> QED BY <1>4, <2>1, NoneSpawned DEF DeleteRow, LinkOK, EntryOK, FilesOK
  <1> QED BY <1>1, <1>2, <1>3, <1>4 DEF KillSandbox

LEMMA TidyPause ==
  ASSUME "db" \notin FaultKinds, TypeInv, NEW q \in Requests, Pause(q), ~PauseBegin(q),
         NEW s \in Sandboxes, s = target[q], SandboxOK(q, s), TidyOK(q, s)
  PROVE  TidyOK(q, s)'
  <1>a. /\ At(q, s) = pc[q] /\ FileType /\ RunType /\ NoInst.vm = Nil /\ refused \subseteq refused'
    BY NoInstTyped, RefusedStep DEF At, TypeInv, Step
  <1> USE <1>a DEF FileType, PCs, Creating, Killing, PauseAt, Answering, Loading, SandboxOK, TidyOK
  <1>1. CASE PauseGet(q)
    <2>1. /\ UNCHANGED <<row, running, of, rootfs>>
          /\ At(q, s)' = "pause.freeze" \/ (At(q, s)' = "idle" /\ UNCHANGED dir)
      BY <1>1, AtMoves DEF PauseGet, apiVars, vmVars
    <2> QED BY <1>1, <2>1, NoneSpawned DEF PauseGet, PlaceOK, LinkOK, EntryOK, FilesOK
  <1>2. CASE PauseFreeze(q) \/ PauseSnapshot(q) \/ PauseManifest(q)
    <2>1. /\ UNCHANGED <<row, running, of, rootfs>> /\ At(q, s) \in PauseAt
          /\ \/ At(q, s)' \in {"pause.snapshot", "pause.manifest", "pause.kill"}
             \/ At(q, s)' = "idle" /\ (dir'[s] = {} \/ s \in refused')
      BY <1>2, AtMoves, TriedDir DEF DirGone, PauseFreeze, PauseSnapshot, Snapshot, PauseManifest, apiVars, vmVars
    <2> QED BY <1>2, <2>1, NoneSpawned DEF PlaceOK, LinkOK, EntryOK, FilesOK
  <1>3. CASE PauseKill(q)
    <2>1. /\ UNCHANGED <<row, running, of, rootfs, dir>> /\ At(q, s)' = "pause.forget"
      BY <1>3, AtMoves DEF PauseKill, FreeMemory, apiVars
    <2> QED BY <1>3, <2>1, NoneSpawned DEF PauseKill, FreeMemory, PlaceOK, LinkOK, EntryOK, FilesOK
  <1>4. CASE PauseForget(q)
    <2>1. /\ UNCHANGED <<row, of, rootfs, dir>> /\ At(q, s)' = "pause.save" /\ running'[s] = NoInst
      BY <1>4, AtMoves DEF PauseForget, Forget, RunType, apiVars, vmVars, fileVars
    <2> QED BY <1>4, <2>1, NoneSpawned DEF PauseForget, PlaceOK, LinkOK, EntryOK, FilesOK
  <1>5. CASE PauseSave(q)
    <2>1. /\ UNCHANGED <<running, of, rootfs, dir>> /\ At(q, s)' = "idle" /\ row'[s] = "paused"
      BY <1>5, AtMoves, RowWritten DEF PauseSave, vmVars, fileVars
    <2> QED BY <1>5, <2>1, NoneSpawned DEF PauseSave, PlaceOK, LinkOK, EntryOK, FilesOK
  <1> QED BY <1>1, <1>2, <1>3, <1>4, <1>5 DEF Pause

LEMMA TidyResume ==
  ASSUME "db" \notin FaultKinds, TypeInv, FreeIsNobodys, NEW q \in Requests, Resume(q), ~ResumeBegin(q),
         NEW s \in Sandboxes, s = target[q], SandboxOK(q, s), TidyOK(q, s)
  PROVE  TidyOK(q, s)'
  <1>a. /\ At(q, s) = pc[q] /\ FileType /\ RunType /\ Locals /\ refused \subseteq refused'
        /\ running[s].vm \in VMs \cup {Nil} /\ inst[q].vm \in VMs \cup {Nil}
    BY RefusedStep DEF At, TypeInv, RunType, Locals, Insts, Step
  <1> USE <1>a DEF FileType, PCs, Creating, Killing, PauseAt, Answering, Reading, Loading, SandboxOK, TidyOK
  <1>1. CASE ResumeRead(q)
    <2>1. /\ UNCHANGED <<row, running, of, rootfs, dir>>
          /\ At(q, s)' \in {"idle", "resume.spawn"}
      BY <1>1, AtMoves DEF ResumeRead, apiVars, fileVars
    <2> QED BY <1>1, <2>1, NoneSpawned DEF ResumeRead, PlaceOK, LinkOK, EntryOK, FilesOK
  <1>2. CASE ResumeSpawn(q)
    <2>1. /\ UNCHANGED <<row, running, rootfs, dir>> /\ row[s] # "absent"
          /\ \/ At(q, s)' = "idle" /\ UNCHANGED of
             \/ At(q, s)' = "resume.load" /\ Spawn(q, s)
      BY <1>2, AtMoves DEF ResumeSpawn, PlaceOK, apiVars, fileVars
    <2>2. CASE Spawn(q, s)
      <3>1. Spawned(s)
        BY <2>1 DEF ProcessesOK
      <3>2. Resumed(s)' /\ LinkOK(q, s)'
        BY <2>1, <2>2, <3>1, SpawnLinks, SpawnCounts DEF LinkOK
      <3> QED BY <1>2, <2>1, <2>2, <3>2 DEF ResumeSpawn, EntryOK, FilesOK
    <2>3. CASE At(q, s)' = "idle"
      BY <1>2, <2>1, <2>2, <2>3, NoneSpawned DEF ResumeSpawn, LinkOK, EntryOK, FilesOK
    <2> QED BY <2>1, <2>2, <2>3
  <1>3. CASE ResumeLoad(q)
    <2>1. /\ UNCHANGED <<row, running, of>>
          /\ At(q, s)' = "idle" \/ (At(q, s)' = "resume.register" /\ inst' = inst)
          /\ Resumed(s)
      BY <1>3, AtMoves DEF ResumeLoad, Goto, ProcessesOK, apiVars
    <2> QED BY <1>3, <2>1, NoneSpawned DEF ResumeLoad, LinkOK, EntryOK, FilesOK
  <1>4. CASE ResumeRegister(q)
    <2>1. /\ UNCHANGED <<row, of>> /\ At(q, s)' = "resume.save" /\ running'[s].vm = inst[q].vm /\ Resumed(s)
      BY <1>4, AtMoves DEF ResumeRegister, RunType, Instance, ProcessesOK, apiVars, vmVars
    <2> QED BY <1>4, <2>1, NoneSpawned DEF ResumeRegister, LinkOK, EntryOK, FilesOK
  <1>5. CASE ResumeSave(q)
    <2>1. /\ UNCHANGED <<running, of>> /\ At(q, s)' = "idle" /\ row'[s] = "running" /\ Resumed(s)
      BY <1>5, AtMoves, RowWritten DEF ResumeSave, ProcessesOK, vmVars
    <2> QED BY <1>5, <2>1, NoneSpawned DEF ResumeSave, LinkOK, EntryOK, FilesOK
  <1> QED BY <1>1, <1>2, <1>3, <1>4, <1>5 DEF Resume

LEMMA TidyReap ==
  ASSUME TypeInv, NEW q \in Requests, ReapRootfs(q) \/ ReapDir(q),
         NEW s \in Sandboxes, s = target[q], SandboxOK(q, s), TidyOK(q, s)
  PROVE  TidyOK(q, s)'
  <1>a. At(q, s) = pc[q] /\ FileType /\ refused \subseteq refused'
    BY RefusedStep DEF At, TypeInv, Step
  <1>1. pc[q] \in ImageAt /\ UNCHANGED <<row, running, of>> /\ row[s] = "lapsed"
    BY <1>a DEF ReapRootfs, ReapDir, ImageAt, SandboxOK, PlaceOK, apiVars, vmVars
  <1>2. \/ s \in refused' /\ At(q, s)' \in {"image.dir", "row.delete", "idle"}
        \/ At(q, s)' = "image.dir" /\ rootfs'[s] = (rootfs[s] /\ "manifest" \notin dir[s])
        \/ pc[q] = "image.dir" /\ At(q, s)' = "row.delete" /\ dir'[s] = {} /\ rootfs' = rootfs
    <2>1. CASE ReapRootfs(q)
      <3>1. At(q, s)' = "image.dir" /\ RemoveRootfs(s)
        BY <2>1, AtMoves DEF ReapRootfs, PCs
      <3>2. "manifest" \in dir[s] /\ rootfs'[s] = FALSE => rootfs'[s] = (rootfs[s] /\ "manifest" \notin dir[s])
        OBVIOUS
      <3>3. "manifest" \notin dir[s] /\ rootfs' = rootfs => rootfs'[s] = (rootfs[s] /\ "manifest" \notin dir[s])
        BY <1>a DEF FileType
      <3> QED BY <1>a, <3>1, <3>2, <3>3, TriedImage DEF RootfsGone, FileType
    <2>2. CASE ReapDir(q)
      BY <1>a, <2>2, AtMoves DEF ReapDir, RemoveDir, RemoveDirFails, FileType, PCs
    <2> QED BY <2>1, <2>2
  <1> QED BY <1>a, <1>1, <1>2, NoneSpawned DEF TidyOK, LinkOK, EntryOK, FilesOK, ImageAt, Answering, Creating, Killing,
         Loading, PauseAt

LEMMA TidyStep ==
  ASSUME "db" \notin FaultKinds, TypeInv, NEW q \in Requests, PauseInv(q), Step(q),
         NEW s \in Sandboxes, TidyOK(q, s)
  PROVE  TidyOK(q, s)'
  <1>a. /\ Locals /\ FreeIsNobodys /\ SandboxOK(q, s)
        /\ running[s].vm \in VMs \cup {Nil}
    BY DEF TypeInv, PauseInv, RunType, Insts
  <1> USE DEF TidyOK, Creating, Killing, PauseAt, Answering, Loading
  <1>1. CASE CreateBegin(q)
    <2>1. /\ UNCHANGED <<row, running, dir, of, inst>> /\ pc[q] = "idle"
          /\ \/ UNCHANGED <<procVars, rootfs>>
             \/ \E t \in Sandboxes \ born : /\ rootfs' = [rootfs EXCEPT ![t] = TRUE] /\ t \in refused'
                                            /\ UNCHANGED procVars
             \/ /\ pc' = [pc EXCEPT ![q] = "create.tap"]
                /\ \E t \in Sandboxes \ born :
                      target' = [target EXCEPT ![q] = t] /\ rootfs' = [rootfs EXCEPT ![t] = TRUE]
          /\ refused \subseteq refused'
      BY <1>1 DEF CreateBegin, Begin, Refused, vmVars, procVars
    <2>2. At(q, s) = "idle"
      BY <2>1 DEF At
    <2>3. ASSUME UNCHANGED procVars, rootfs'[s] = rootfs[s] \/ s \in refused'
          PROVE  TidyOK(q, s)'
      BY <2>1, <2>2, <2>3, <1>a, NoneSpawned DEF procVars, At, LinkOK, EntryOK, FilesOK
    <2>5. ASSUME NEW t \in Sandboxes \ born, rootfs' = [rootfs EXCEPT ![t] = TRUE], t \in refused'
          PROVE  rootfs'[s] = rootfs[s] \/ s \in refused'
      BY <2>5 DEF TypeInv, FileType
    <2>4. ASSUME NEW t \in Sandboxes \ born, target' = [target EXCEPT ![q] = t],
                 pc' = [pc EXCEPT ![q] = "create.tap"], rootfs' = [rootfs EXCEPT ![t] = TRUE]
          PROVE  TidyOK(q, s)'
      <3>1. At(q, s)' = IF s = t THEN "create.tap" ELSE "idle"
        BY <1>a, <2>4 DEF At, Locals
      <3>2. rootfs'[s] = IF s = t THEN TRUE ELSE rootfs[s]
        BY <2>4 DEF TypeInv, FileType
      <3>3. s = t => row[s] = "absent" /\ running[s] = NoInst
        BY <1>a DEF SandboxOK, PlaceOK
      <3> QED BY <2>1, <2>2, <3>1, <3>2, <3>3, <1>a, NoneSpawned DEF LinkOK, EntryOK, FilesOK
    <2> QED BY <2>1, <2>3, <2>4, <2>5
  <1>2. CASE DeleteBegin(q) \/ ReapBegin(q) \/ PauseBegin(q) \/ ResumeBegin(q)
    <2>1. PICK t \in Sandboxes, l \in {"kill.take", "image.rootfs", "pause.get", "resume.read"},
               op \in {"delete", "reap", "pause", "resume"} :
             /\ Start(q, op, t, l) /\ row[t] # "absent"
             /\ l = "pause.get" => row[t] = "running"
      BY <1>2 DEF DeleteBegin, ReapBegin, PauseBegin, ResumeBegin
    <2>2. /\ At(q, s) = "idle" /\ UNCHANGED <<row, running, rootfs, dir, refused, of, inst>>
          /\ At(q, s)' = IF s = t THEN l ELSE "idle"
      BY <2>1, <1>a DEF Start, Begin, At, Locals, apiVars, fileVars, vmVars
    <2> QED BY <2>1, <2>2, <1>a, NoneSpawned DEF LinkOK, EntryOK, FilesOK, SandboxOK, OnDisk
  <1>3. CASE pc[q] # "idle" /\ ~CreateBegin(q) /\ s # target[q]
    <2>1. target'[q] \in {target[q], Nil}
      BY <1>a, <1>3 DEF Step, Create, KillSandbox, Pause, Resume, CreateTap, CreateSpawn, CreateBoot,
         Rollback, CreateRegister, CreateSave, DeleteBegin, ReapBegin, Start, Begin, KillTake, KillProcess,
         KillThen, KillTap, KillRootfs, DeleteRow, PauseBegin, PauseGet, PauseFreeze, PauseSnapshot, Snapshot,
         PauseManifest, PauseKill, FreeMemory, PauseForget, PauseSave, ResumeBegin, ResumeRead,
         ResumeSpawn, ResumeLoad, ResumeRegister, ResumeSave, ReapRootfs, ReapDir, Goto, Return, Locals
    <2>2. s # target'[q] /\ At(q, s) = "idle"
      BY <1>3, <2>1, FirecrackerAssumption DEF At
    <2>3. Resumed(s)' <=> Resumed(s)
      BY <1>a, <1>3, OfFate, SpawnCounts, NoneSpawned, TargetTyped
    <2>4. /\ row'[s] = row[s] /\ running'[s] = running[s]
          /\ rootfs'[s] = rootfs[s] /\ dir'[s] = dir[s] /\ At(q, s)' = "idle"
          /\ refused \subseteq refused'
      BY <1>3, <2>2, Elsewhere
    <2>5. \A v \in VMs : of[v] = s => of'[v] = s
      BY <1>a, <1>3, OfFate, SpawnLinks, TargetTyped
    <2>6. LinkOK(q, s)'
      BY <2>4, <2>5, <1>a DEF LinkOK
    <2> QED BY <2>2, <2>3, <2>4, <2>6, <1>a DEF EntryOK, FilesOK
  <1>4. CASE s = target[q] /\ ~CreateBegin(q) /\ ~DeleteBegin(q) /\ ~ReapBegin(q) /\ ~PauseBegin(q) /\ ~ResumeBegin(q)
    BY <1>4, <1>a, TidyCreate, TidyKill, TidyPause, TidyResume, TidyReap DEF Step
  <1>5. \/ CreateBegin(q) \/ DeleteBegin(q) \/ ReapBegin(q) \/ PauseBegin(q) \/ ResumeBegin(q)
        \/ pc[q] # "idle"
    BY DEF Step, Create, KillSandbox, Pause, Resume, CreateTap, CreateSpawn, CreateBoot,
       CreateRegister, CreateSave, KillTake, KillProcess,
       KillThen, KillTap, KillRootfs, DeleteRow, PauseGet, PauseFreeze, PauseSnapshot, Snapshot,
       PauseManifest, PauseKill, FreeMemory, PauseForget, PauseSave, ResumeRead,
       ResumeSpawn, ResumeLoad, ResumeRegister, ResumeSave, ReapRootfs, ReapDir
  <1> QED BY <1>1, <1>2, <1>3, <1>4, <1>5

LEMMA TidyOther ==
  ASSUME TypeInv, NEW q \in Requests, PauseInv(q), Other, restarts' = 0,
         NEW s \in Sandboxes, TidyOK(q, s)
  PROVE  TidyOK(q, s)'
  <1> USE DEF TidyOK
  <1>a. /\ of' = of /\ UNCHANGED procVars /\ ~Restart
        /\ RunType /\ TableType /\ FileType /\ SandboxOK(q, s)
    BY DEF Other, WatchExit, VMExit, Expire, CleanupRootfs, CleanupDir, Restart, vmVars, TypeInv, CountType, PauseInv
  <1>b. (Resumed(s)' <=> Resumed(s)) /\ At(q, s)' = At(q, s) /\ inst' = inst
    BY <1>a DEF Resumed, At, procVars
  <1>1. ASSUME NEW v \in VMs, WatchExit(v) \/ VMExit(v) PROVE TidyOK(q, s)'
    <2>1. /\ UNCHANGED <<row, rootfs, dir, refused>>
          /\ running'[s] = running[s] \/ running'[s] = NoInst
      BY <1>a, <1>1 DEF WatchExit, VMExit, apiVars, fileVars, RunType
    <2> QED BY <2>1, <1>a, <1>b, NoInstTyped DEF LinkOK, EntryOK, FilesOK
  <1>2. ASSUME NEW t \in Sandboxes, Expire(t) PROVE TidyOK(q, s)'
    <2>1. /\ UNCHANGED <<running, rootfs, dir, refused>>
          /\ row'[s] = row[s] \/ (row[s] = "paused" /\ row'[s] = "lapsed")
      BY <1>a, <1>2 DEF Expire, fileVars, TableType
    <2> QED BY <2>1, <1>a, <1>b DEF LinkOK, EntryOK, FilesOK, SandboxOK, OnDisk, Restorable
  <1>3. ASSUME NEW g \in cleanup, CleanupRootfs(g) \/ CleanupDir(g) PROVE TidyOK(q, s)'
    <2>1. /\ UNCHANGED <<row, running>>
          /\ ~Resumed(s) => rootfs'[s] = rootfs[s] /\ dir'[s] = dir[s]
          /\ refused \subseteq refused'
      <3>1. g.of \in Sandboxes /\ Resumed(g.of)
        BY DEF PauseInv, CleanupsOK, TypeInv, TableType
      <3>2. /\ dir' = dir \/ DirGone(g.of)
            /\ rootfs' = rootfs \/ RootfsGone(g.of)
            /\ refused \subseteq refused'
        BY <1>a, <1>3, <3>1, TriedDir, TriedImage DEF CleanupRootfs, CleanupDir, RemoveDir, RemoveDirFails
      <3> QED BY <1>a, <1>3, <3>1, <3>2 DEF CleanupRootfs, CleanupDir, DirGone, RootfsGone, FileType
    <2> QED BY <2>1, <1>a, <1>b DEF LinkOK, EntryOK, FilesOK
  <1> QED BY <1>1, <1>2, <1>3, <1>a DEF Other

TidyInv(q) ==
    /\ OrphanInv /\ PauseInv(q)
    /\ restarts = 0 => \A s \in Sandboxes : TidyOK(q, s)

LEMMA TidyKept ==
  ASSUME NEW q \in Requests, Requests = {q}, "db" \notin FaultKinds
  PROVE  TidyInv(q) /\ [Next]_vars => TidyInv(q)'
  <1> SUFFICES ASSUME TidyInv(q), [Next]_vars PROVE TidyInv(q)'
    OBVIOUS
  <1>1. TypeInv /\ PauseInv(q) /\ OrphanInv' /\ PauseInv(q)'
    BY OrphanKept, PauseInvKept DEF TidyInv, OrphanInv, IInv, ResumesApart
  <1>2. ASSUME restarts' = 0, Step(q), NEW s \in Sandboxes PROVE TidyOK(q, s)'
    BY <1>1, <1>2, TidyStep, StepIsNoRestart DEF TidyInv
  <1>3. ASSUME restarts' = 0, Other, NEW s \in Sandboxes PROVE TidyOK(q, s)'
    <2>1. restarts = 0
      BY <1>1, <1>3 DEF Other, WatchExit, VMExit, Expire, CleanupRootfs, CleanupDir, Restart, TypeInv, CountType
    <2> QED BY <1>1, <1>3, <2>1, TidyOther DEF TidyInv
  <1>4. ASSUME UNCHANGED vars, restarts' = 0, NEW s \in Sandboxes PROVE TidyOK(q, s)'
    <2>1. UNCHANGED <<row, running, pc, target, inst, of, rootfs, dir, refused, restarts>>
      BY <1>4 DEF vars, apiVars, procVars, vmVars, fileVars
    <2> QED BY <1>4, <2>1 DEF TidyInv, TidyOK, LinkOK, EntryOK, FilesOK, Resumed, At
  <1> QED BY <1>1, <1>2, <1>3, <1>4, NextSplit DEF TidyInv

\* While the server runs, a sandbox without a record that nobody is at work
\* on has left no live process and no entry in m.running and, unless it was
\* ever resumed or a removal of its files failed, neither its root filesystem
\* nor its pause directory: however its create failed and whatever exits,
\* spawns, VM calls, files and devices failed in its life, for a client that
\* waits for its answers and the reaper between its requests.  Removals of
\* other sandboxes' files may fail as well.  A failed Save leaves a running VM
\* without a record.
THEOREM NothingIsLeftBehind ==
  ASSUME NEW q \in Requests, Requests = {q}, "db" \notin FaultKinds
  PROVE  Spec => []NothingLeftBehind
  <1>1. Init => TidyInv(q)
    <2> SUFFICES ASSUME Init PROVE TidyInv(q)
      OBVIOUS
    <2>1. OrphanInv /\ PauseInv(q)
      BY InitOrphanInv, InitPauseInv
    <2> QED
      BY <2>1, NoInstTyped, FirecrackerAssumption
         DEF Init, TidyInv, TidyOK, LinkOK, EntryOK, FilesOK, At, Answering, Creating, Killing, Loading, PauseAt
  <1>2. TidyInv(q) /\ [Next]_vars => TidyInv(q)'
    BY TidyKept
  <1>3. TidyInv(q) => NothingLeftBehind
    <2> SUFFICES ASSUME TidyInv(q), NEW s \in Sandboxes, row[s] = "absent", Quiet(s), restarts = 0
                 PROVE  /\ \A v \in VMs : of[v] = s => ~Live(v)
                        /\ running[s] = NoInst
                        /\ Resumed(s) \/ s \in refused \/ (~rootfs[s] /\ dir[s] = {})
      BY DEF NothingLeftBehind
    <2>1. At(q, s) = "idle" /\ TidyOK(q, s) /\ target[q] # s
      BY DEF At, Quiet, TidyInv
    <2>2. running[s] = NoInst /\ (Resumed(s) \/ s \in refused \/ (~rootfs[s] /\ dir[s] = {}))
      BY <2>1 DEF TidyOK, EntryOK, FilesOK
    <2>3. ASSUME NEW v \in VMs, of[v] = s, Live(v) PROVE FALSE
      <3>1. v # Nil /\ LiveIn(vm, v)
        BY <2>3, FirecrackerAssumption DEF Live, LiveIn
      <3>2. CASE \E t \in Sandboxes : running[t].vm = v
        <4>1. PICK t \in Sandboxes : running[t].vm = v
          BY <3>2
        <4>2. of[v] = t
          BY <3>1, <4>1 DEF TidyInv, TidyOK, LinkOK
        <4> QED BY <2>2, <2>3, <3>1, <4>1, <4>2, NoInstTyped
      <3>3. CASE pc[q] \in Answering /\ inst[q].vm = v
        <4>1. target[q] \in Sandboxes
          BY <3>3, TargetTyped DEF TidyInv, OrphanInv, IInv, Answering
        <4>2. of[v] = target[q]
          BY <3>1, <3>3, <4>1 DEF TidyInv, TidyOK, LinkOK, At
        <4> QED BY <2>1, <2>3, <4>2
      <3> QED BY <3>1, <3>2, <3>3 DEF TidyInv, OrphanInv, FateInv, Accounted
    <2> QED BY <2>2, <2>3
  <1> QED BY <1>1, <1>2, <1>3, PTL DEF Spec
=============================================================================
