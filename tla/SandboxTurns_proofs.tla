------------------------ MODULE SandboxTurns_proofs ------------------------
(***************************************************************************)
(* Proofs about SandboxLifecycle for one replica whose clients take turns: *)
(* while one of them pauses or resumes a sandbox, nobody else works on     *)
(* that sandbox.  Create, delete and exec requests and the reaper          *)
(* interleave as they like.  Then the record of every sandbox that nobody  *)
(* works on is the truth, what was acknowledged is there, and the service  *)
(* does in one step, as SandboxService says, what its handlers do in many. *)
(***************************************************************************)
EXTENDS SandboxLifecycle_proofs, FiniteSetTheorems

\* One replica, without a pool, that lives on; no call to the daemon or the
\* table fails, but Redis may and containers may exit.  The reaper may be at
\* work, but then no paused sandbox is resumed: one it has listed as paused
\* and that is resumed before its turn loses its record (StaleReap.cfg).
OneReplica(r) ==
    /\ Replicas = {r}
    /\ FaultKinds \subseteq {"redis", "exit"} /\ MaxCrashes = 0
    /\ WarmIds = {}
    /\ Expiry => "resume" \notin Ops

LEMMA ReplicaFacts ==
  ASSUME NEW r, OneReplica(r)
  PROVE  /\ r \in Replicas /\ r \in Procs /\ r \notin Requests /\ Replicas = {r}
         /\ \A p \in Procs : Home(p) = r /\ (p \in Requests \/ p = r)
         /\ \A p \in Requests : p \in Procs /\ p \notin Replicas
         /\ \A kind \in {"docker", "db"} : ~Fault(kind)
  BY LifecycleAssumption, HomeIsReplica DEF OneReplica, Procs, Fault

\* The calls at which a handler must be alone with its sandbox.  For a create
\* that goes without saying: nobody else knows the id.
Creating == {"create.container", "create.start", "create.register", "create.save"}
Moving == {"pause.commit"} \cup Pausing \cup Resuming
Lone == Creating \cup Moving

TakingTurns ==
    \A p, q \in Procs : pc[p] \in Moving /\ target[q] = target[p] => q = p

-----------------------------------------------------------------------------
(* What a call to the daemon does to the containers and images of the       *)
(* sandboxes: only those of the sandbox t it is made for change.            *)

\* x is a container or an image of s, or was one.
Given(x, s) ==
    /\ x \in Containers \cup Images /\ madeFor[x] = s
    /\ x \in Containers => container[x] # "free"
    /\ x \in Images => image[x] # "free"

SameDaemon(s) ==
    /\ ContainersOf(s)' = ContainersOf(s)
    /\ ImagesOf(s)' = ImagesOf(s)
    /\ \A x : Given(x, s) => disk'[x] = disk[x]

LEMMA GivenNow ==
  ASSUME NEW s
  PROVE  \A x : x \in ContainersOf(s) \cup ImagesOf(s) => Given(x, s)
  BY DaemonAssumption DEF Given, ContainersOf, ImagesOf, Exists

LEMMA AfterNothing ==
  ASSUME UNCHANGED daemonVars, NEW s
  PROVE  SameDaemon(s)
  BY DEF SameDaemon, ContainersOf, ImagesOf, Exists, daemonVars

LEMMA AfterCreate ==
  ASSUME DaemonTypeOK, NEW c \in Containers, NEW t \in Sandboxes, NEW data, ContainerCreate(c, t, data)
  PROVE  /\ \A s \in Sandboxes \ {t} : SameDaemon(s)
         /\ ContainersOf(t)' = ContainersOf(t) \cup {c}
         /\ ImagesOf(t)' = ImagesOf(t)
         /\ disk' = [disk EXCEPT ![c] = data]
         /\ \A s : ~Given(c, s)
  <1> USE DaemonAssumption DEF DaemonTypeOK, ContainerCreate, ContainersOf, ImagesOf, Exists
  <1>1. \A s : ~Given(c, s)
    BY DEF Given
  <1>2. \A s \in Sandboxes : ImagesOf(s)' = ImagesOf(s)
    OBVIOUS
  <1>3. ContainersOf(t)' = ContainersOf(t) \cup {c}
    OBVIOUS
  <1>4. \A s \in Sandboxes \ {t} : ContainersOf(s)' = ContainersOf(s)
    OBVIOUS
  <1>5. ASSUME NEW s, NEW x, Given(x, s) PROVE disk'[x] = disk[x]
    <2>1. x # c /\ x \in Containers \cup Images
      BY <1>1, <1>5 DEF Given
    <2> QED BY <2>1
  <1> QED BY <1>1, <1>2, <1>3, <1>4, <1>5 DEF SameDaemon

LEMMA AfterStartStop ==
  ASSUME DaemonTypeOK, NEW c, Exists(c), ContainerStart(c) \/ ContainerStop(c), NEW s
  PROVE  SameDaemon(s) /\ disk' = disk
  BY DEF SameDaemon, DaemonTypeOK, ContainerStart, ContainerStop, ContainersOf, ImagesOf, Exists

LEMMA AfterRemove ==
  ASSUME DaemonTypeOK, NEW t \in Sandboxes, NEW c \in ContainersOf(t), ContainerRemove(c)
  PROVE  /\ \A s \in Sandboxes \ {t} : SameDaemon(s)
         /\ ContainersOf(t)' = ContainersOf(t) \ {c}
         /\ ImagesOf(t)' = ImagesOf(t)
         /\ disk' = disk
  BY DEF SameDaemon, DaemonTypeOK, ContainerRemove, ContainersOf, ImagesOf, Exists

LEMMA AfterCommit ==
  ASSUME DaemonTypeOK, NEW t \in Sandboxes, NEW c \in ContainersOf(t), NEW i \in Images, ContainerCommit(c, i)
  PROVE  /\ \A s \in Sandboxes \ {t} : SameDaemon(s)
         /\ ContainersOf(t)' = ContainersOf(t)
         /\ ImagesOf(t)' = ImagesOf(t) \cup {i}
         /\ disk' = [disk EXCEPT ![i] = disk[c]]
         /\ image[i] = "free"
  <1> USE DaemonAssumption DEF DaemonTypeOK, ContainerCommit, ContainersOf, ImagesOf, Exists
  <1>1. \A s : ~Given(i, s)
    BY DEF Given
  <1>2. \A s \in Sandboxes : ContainersOf(s)' = ContainersOf(s)
    OBVIOUS
  <1>3. ImagesOf(t)' = ImagesOf(t) \cup {i}
    OBVIOUS
  <1>4. \A s \in Sandboxes \ {t} : ImagesOf(s)' = ImagesOf(s)
    OBVIOUS
  <1>5. ASSUME NEW s, NEW x, Given(x, s) PROVE disk'[x] = disk[x]
    <2>1. x # i /\ x \in Containers \cup Images
      BY <1>1, <1>5 DEF Given
    <2> QED BY <2>1
  <1> QED BY <1>1, <1>2, <1>3, <1>4, <1>5 DEF SameDaemon

LEMMA AfterWrite ==
  ASSUME DaemonTypeOK, NEW t \in Sandboxes, NEW c \in ContainersOf(t), NEW new, ContainerWrite(c, new)
  PROVE  /\ \A s \in Sandboxes \ {t} : SameDaemon(s)
         /\ ContainersOf(t)' = ContainersOf(t)
         /\ ImagesOf(t)' = ImagesOf(t)
         /\ disk' = [disk EXCEPT ![c] = @ \cup new]
  <1> USE DaemonAssumption DEF DaemonTypeOK, ContainerWrite, ContainersOf, ImagesOf, Exists
  <1>1. \A s \in Sandboxes \ {t} : ~Given(c, s)
    BY DEF Given
  <1>2. \A s : ContainersOf(s)' = ContainersOf(s) /\ ImagesOf(s)' = ImagesOf(s)
    OBVIOUS
  <1>3. ASSUME NEW s \in Sandboxes \ {t}, NEW x, Given(x, s) PROVE disk'[x] = disk[x]
    <2>1. x # c /\ x \in Containers \cup Images
      BY <1>1, <1>3 DEF Given
    <2> QED BY <2>1
  <1> QED BY <1>2, <1>3 DEF SameDaemon

LEMMA AfterImageRemove ==
  ASSUME DaemonTypeOK, NEW i \in Images, ImageRemove(i), NEW s
  PROVE  /\ ContainersOf(s)' = ContainersOf(s) /\ ImagesOf(s)' = ImagesOf(s) \ {i} /\ disk' = disk
         /\ madeFor[i] # s => SameDaemon(s)
  BY DEF DaemonTypeOK, ImageRemove, ContainersOf, ImagesOf, Exists, SameDaemon

-----------------------------------------------------------------------------
(* The invariant: what there is of a sandbox, and what the processes that   *)
(* work on it may rely on.                                                  *)

\* Its containers, the id it is mapped to, and its images but for those that
\* the detached clean-up is to remove.
Has(r, s, containers, mapped, images) ==
    /\ ContainersOf(s) = containers
    /\ mapping[r][s] = mapped
    /\ ImagesOf(s) \ cleanup[r] = images

Stores(s, x) == x \in Containers \cup Images /\ acked[s] \subseteq disk[x]

Runs(s) == row[s].status = "running"
PausedAt(s, i) == row[s].status = "paused" /\ row[s].image = i
New(r, s) == row[s] = NoRow /\ acked[s] = {} /\ queue[r][s] = NoRow

\* A handler alone with sandbox s, about to make call l with container c and
\* image i in its local variables.
AtWork(l, c, i, r, s) ==
    LET Paused == PausedAt(s, i) /\ Stores(s, i)
        Copied == Stores(s, c) /\ disk[i] = disk[c]
    IN
    /\ l = "create.container" => New(r, s) /\ Has(r, s, {}, Nil, {})
    /\ l \in {"create.start", "create.register"} => New(r, s) /\ Has(r, s, {c}, Nil, {}) /\ disk[c] = {}
    /\ l = "create.save" => New(r, s) /\ Has(r, s, {c}, c, {}) /\ disk[c] = {}
    /\ l = "pause.commit" => Runs(s) /\ Has(r, s, {c}, c, {}) /\ Stores(s, c)
    /\ l \in {"pause.stop", "pause.remove"} => Runs(s) /\ Has(r, s, {c}, c, {i}) /\ Copied
    /\ l = "pause.unregister" => Runs(s) /\ Has(r, s, {}, c, {i}) /\ Copied
    /\ l = "pause.save" => Runs(s) /\ Has(r, s, {}, Nil, {i}) /\ Copied
    /\ l = "resume.container" => Paused /\ Has(r, s, {}, Nil, {i})
    /\ l \in {"resume.start", "resume.register"} => Paused /\ Has(r, s, {c}, Nil, {i}) /\ disk[c] = disk[i]
    /\ l = "resume.save" => Paused /\ Has(r, s, {c}, c, {i}) /\ disk[c] = disk[i]

\* What there is of a sandbox on which nobody works alone.  Its container is
\* mapped; or a kill has unregistered it and is to remove it; or it is removed
\* and a kill is to delete the record.  Whoever has looked it up has that one.
Gone(r, s) == row[s] = NoRow /\ Has(r, s, {}, Nil, {})

RunningWith(r, s, c) ==
    /\ \/ Has(r, s, {c}, c, {}) /\ Stores(s, c)
       \/ /\ Has(r, s, {c}, Nil, {})
          /\ \E p \in Procs : target[p] = s /\ cid[p] = c /\ pc[p] \in {"kill.stop", "kill.remove"}
       \/ /\ Has(r, s, {}, Nil, {})
          /\ \E p \in Procs : target[p] = s /\ cid[p] = c /\ pc[p] = "row.delete"
    /\ \A p \in Procs : target[p] = s => cid[p] \in {c, Nil}

\* Its image is there, or the reaper has removed it and is to delete the record.
PausedWith(r, s, i) ==
    \/ Has(r, s, {}, Nil, {i}) /\ Stores(s, i)
    \/ Has(r, s, {}, Nil, {}) /\ target[r] = s /\ pc[r] = "row.delete"

Shared(r, s) ==
    \/ Gone(r, s)
    \/ Runs(s) /\ \E c \in Containers : RunningWith(r, s, c)
    \/ \E i \in Images : PausedAt(s, i) /\ PausedWith(r, s, i)

\* A process that may have company at sandbox s.
Working(p, r, s) ==
    /\ pc[p] \in {"kill.unregister", "kill.stop", "kill.remove", "exec.run"} => ContainersOf(s) \subseteq {cid[p]}
    /\ pc[p] \in {"kill.stop", "kill.remove"} => mapping[r][s] = Nil
    /\ pc[p] = "row.delete" => Has(r, s, {}, Nil, {}) /\ (row[s].status = "paused" => p = r)
    /\ pc[p] = "reap.image" => PausedAt(s, img[p])

\* Nobody works on s alone.
Crowd(s) == \A p \in Procs : target[p] = s => pc[p] \notin Lone

SandboxOK(r, s) ==
    /\ \A p \in Procs : target[p] = s => Working(p, r, s)
    /\ \A p \in Procs : target[p] = s /\ pc[p] \in Lone =>
          /\ \A q \in Procs : target[q] = s => q = p
          /\ AtWork(pc[p], cid[p], img[p], r, s)
    /\ Crowd(s) => Shared(r, s)

\* The replica's thread: it finds nothing to reconcile; what it reaps has
\* expired, and what it has listed as paused still is.
ThreadOK(r) ==
    /\ pc[r] # "rec.delete"
    /\ pc[r] \in BootPC => /\ \A p \in Requests : pc[p] = "idle"
                           /\ \A s \in Sandboxes : row[s] = NoRow /\ queue[r][s] = NoRow
    /\ target[r] # Nil => Expiry /\ queue[r][target[r]] = NoRow
    /\ \A s \in Sandboxes :
         /\ queue[r][s].status = "paused" => PausedAt(s, queue[r][s].image)
         /\ queue[r][s] # NoRow \/ row[s].expired => Expiry
    /\ \A p \in Procs : pc[p] \in Resuming => ~Expiry

\* An id not yet drawn is nobody's.
Unborn(r) == \A s \in Sandboxes \ born : New(r, s) /\ \A p \in Procs : target[p] # s

TurnsInv(r) == ThreadOK(r) /\ Unborn(r) /\ \A s \in Sandboxes : SandboxOK(r, s)

Orderly(r) == TypeInv /\ OwnerInv /\ TurnsInv(r)

LEMMA TurnsInit == ASSUME NEW r, OneReplica(r), Init PROVE TurnsInv(r)
  <1> USE ReplicaFacts, DaemonAssumption DEF Init
  <1>1. \A s : ContainersOf(s) = {} /\ ImagesOf(s) = {}
    BY DEF DaemonInit, ContainersOf, ImagesOf, Exists
  <1>2. \A p \in Procs : target[p] = Nil
    OBVIOUS
  <1>3. \A s \in Sandboxes : Gone(r, s)
    BY <1>1 DEF Gone, Has
  <1>4. \A s \in Sandboxes : SandboxOK(r, s)
    BY <1>2, <1>3 DEF SandboxOK, Shared
  <1>5. ThreadOK(r)
    <2>1. ~NoRow.expired /\ NoRow.status = "absent"
      BY DEF NoRow
    <2>2. \A p \in Procs : pc[p] \notin Resuming /\ pc[p] # "rec.delete"
      BY DEF Resuming
    <2>3. \A p \in Requests : pc[p] = "idle"
      OBVIOUS
    <2> QED BY <1>2, <2>1, <2>2, <2>3 DEF ThreadOK
  <1>6. Unborn(r)
    BY <1>2 DEF Unborn, New
  <1> QED BY <1>4, <1>5, <1>6 DEF TurnsInv

-----------------------------------------------------------------------------
(* What every step starts from. *)

LEMMA Facts ==
  ASSUME NEW r, OneReplica(r), TypeInv
  PROVE  /\ JobInv /\ DaemonTypeOK /\ PauseRecorded /\ SnapshotRecorded /\ warm = {} /\ crashes = 0
         /\ pc \in [Procs -> RequestPC \cup BootPC \cup ReaperPC]
         /\ target \in [Procs -> Sandboxes \cup {Nil}]
         /\ cid \in [Procs -> Containers \cup {Nil}] /\ img \in [Procs -> Images \cup {Nil}]
         /\ row \in [Sandboxes -> Row] /\ queue \in [Replicas -> [Sandboxes -> Row]]
         /\ mapping \in [Replicas -> [Sandboxes -> Containers \cup {Nil}]]
         /\ cleanup \in [Replicas -> SUBSET Images] /\ acked \in [Sandboxes -> SUBSET Writes]
         /\ born \subseteq Sandboxes
  <1>1. JobInv /\ DaemonTypeOK /\ TableInv /\ RestTypeOK /\ cleanup \in [Replicas -> SUBSET Images]
    BY TypeParts
  <1>2. WarmIds = {} /\ MaxCrashes = 0
    BY DEF OneReplica
  <1>3. Containers \cup WarmIds \cup {Nil} = Containers \cup {Nil}
    BY <1>2
  <1>4. /\ pc \in [Procs -> RequestPC \cup BootPC \cup ReaperPC]
        /\ target \in [Procs -> Sandboxes \cup {Nil}]
        /\ cid \in [Procs -> Containers \cup {Nil}] /\ img \in [Procs -> Images \cup {Nil}]
    BY <1>1, <1>3 DEF JobInv, JobTypeOK
  <1>5. /\ row \in [Sandboxes -> Row] /\ queue \in [Replicas -> [Sandboxes -> Row]]
        /\ mapping \in [Replicas -> [Sandboxes -> Containers \cup {Nil}]]
        /\ PauseRecorded /\ SnapshotRecorded
    BY <1>1, <1>3 DEF TableInv
  <1>6. warm = {} /\ crashes = 0 /\ acked \in [Sandboxes -> SUBSET Writes] /\ born \subseteq Sandboxes
    BY <1>1, <1>2 DEF RestTypeOK
  <1> QED BY <1>1, <1>4, <1>5, <1>6

\* A process at a call works on a sandbox, and the ids it holds are of it.
LEMMA AtCall ==
  ASSUME NEW r, OneReplica(r), TypeInv, NEW p \in Procs, pc[p] \notin Resting
  PROVE  /\ target[p] \in Sandboxes /\ target[p] # Nil
         /\ JobOK(pc[p], target[p], cid[p], img[p])
         /\ cid[p] \in Containers \cup {Nil} /\ img[p] \in Images \cup {Nil}
         /\ pc[p] \in HasContainer => cid[p] \in Containers
  <1>1. JobOK(pc[p], target[p], cid[p], img[p])
    BY Facts DEF JobInv, JobsOK
  <1>2. target[p] \in Sandboxes /\ (pc[p] \in HasContainer => cid[p] # Nil)
    BY <1>1 DEF JobOK
  <1> QED BY <1>1, <1>2, Facts, DaemonAssumption

LEMMA HeldIsGiven ==
  ASSUME NEW r, OneReplica(r), TypeInv, OwnerInv, NEW p \in Procs
  PROVE  /\ cid[p] \in Containers => Given(cid[p], target[p])
         /\ img[p] \in Images => Given(img[p], target[p])
  BY DaemonAssumption, OwnerParts DEF ContainerFits, ImageFits, Given

\* A container that exists is found among those of the sandbox it is held for.
LEMMA HeldExists ==
  ASSUME NEW r, OneReplica(r), TypeInv, OwnerInv, NEW p \in Procs
  PROVE  Exists(cid[p]) <=> cid[p] \in ContainersOf(target[p])
  BY HeldIsGiven DEF ContainersOf, Exists, Given

\* The kinds of record.
LEMMA Records ==
  /\ NoRow.status = "absent" /\ NoRow.image = Nil /\ ~NoRow.expired
  /\ RunningRow.status = "running" /\ RunningRow.image = Nil /\ ~RunningRow.expired
  /\ \A i : PausedRow(i).status = "paused" /\ PausedRow(i).image = i /\ ~PausedRow(i).expired
  /\ \A x : PastExpiry(x).status = x.status /\ PastExpiry(x).image = x.image
  /\ \A x \in Row : /\ x.status \in {"absent", "running", "paused"} /\ (x.status = "absent" <=> x = NoRow)
                    /\ x.expired \in BOOLEAN
  <1>1. NoRow.status = "absent" /\ NoRow.image = Nil /\ ~NoRow.expired
    BY DEF NoRow
  <1>2. RunningRow.status = "running" /\ RunningRow.image = Nil /\ ~RunningRow.expired
    BY DEF RunningRow
  <1>3. \A i : PausedRow(i).status = "paused" /\ PausedRow(i).image = i /\ ~PausedRow(i).expired
    BY DEF PausedRow
  <1>4. \A x : PastExpiry(x).status = x.status /\ PastExpiry(x).image = x.image
    BY DEF PastExpiry
  <1>5. ASSUME NEW x \in Row
        PROVE  /\ x.status \in {"absent", "running", "paused"} /\ (x.status = "absent" <=> x = NoRow)
               /\ x.expired \in BOOLEAN
    <2>1. NoRow.expired \in BOOLEAN
      BY DEF NoRow
    <2>2. CASE x # NoRow
      BY <2>2 DEF Row
    <2> QED BY <1>1, <2>1, <2>2
  <1> QED BY <1>1, <1>2, <1>3, <1>4, <1>5

-----------------------------------------------------------------------------
(* A step that concerns other sandboxes. *)

Untouched(r, s) ==
    /\ row'[s].status = row[s].status /\ row'[s].image = row[s].image
    /\ row[s] = NoRow => row'[s] = NoRow
    /\ acked'[s] = acked[s] /\ mapping'[r][s] = mapping[r][s]
    /\ queue'[r][s] \in {queue[r][s], NoRow, row[s]}
    /\ ContainersOf(s)' = ContainersOf(s)
    /\ ImagesOf(s)' \ cleanup'[r] = ImagesOf(s) \ cleanup[r]
    /\ \A x : Given(x, s) => disk'[x] = disk[x]

\* The same processes work on s, and they have not moved.
SameJobs(s) ==
    \A p \in Procs :
        /\ target'[p] = s <=> target[p] = s
        /\ target[p] = s => pc'[p] = pc[p] /\ cid'[p] = cid[p] /\ img'[p] = img[p]

LEMMA HasKept ==
  ASSUME NEW r, NEW s, Untouched(r, s)
  PROVE  /\ \A x, m, y : Has(r, s, x, m, y) => Has(r, s, x, m, y)'
         /\ \A x : Given(x, s) /\ Stores(s, x) => Stores(s, x)'
         /\ Runs(s) => Runs(s)'
         /\ \A i : PausedAt(s, i) => PausedAt(s, i)'
         /\ New(r, s) => New(r, s)'
  <1>1. \A x, m, y : Has(r, s, x, m, y) => Has(r, s, x, m, y)'
    BY DEF Untouched, Has
  <1>2. \A x : Given(x, s) /\ Stores(s, x) => Stores(s, x)'
    BY DEF Untouched, Stores
  <1>3. (Runs(s) => Runs(s)') /\ \A i : PausedAt(s, i) => PausedAt(s, i)'
    BY DEF Untouched, Runs, PausedAt
  <1>4. New(r, s) => New(r, s)'
    BY DEF Untouched, New
  <1> QED BY <1>1, <1>2, <1>3, <1>4

LEMMA WorkKept ==
  ASSUME NEW r, NEW s, Untouched(r, s), NEW l, NEW c, NEW i,
         (c \in Containers /\ Given(c, s)) \/ c = Nil, (i \in Images /\ Given(i, s)) \/ i = Nil,
         AtWork(l, c, i, r, s)
  PROVE  AtWork(l, c, i, r, s)'
  <1>1. \A x : x \in {c, i} /\ Stores(s, x) => Stores(s, x)'
    BY HasKept, DaemonAssumption DEF Stores
  <1>2. /\ \A x, m, y : Has(r, s, x, m, y) => Has(r, s, x, m, y)'
        /\ Runs(s) => Runs(s)'
        /\ PausedAt(s, i) => PausedAt(s, i)'
        /\ New(r, s) => New(r, s)'
    BY HasKept
  <1>3. \A m, y : Has(r, s, {c}, m, y) => disk'[c] = disk[c]
    BY GivenNow DEF Has, Untouched
  <1>4. Stores(s, c) => disk'[c] = disk[c]
    BY DaemonAssumption DEF Stores, Given, Untouched
  <1>5. \A x, m : Has(r, s, x, m, {i}) => disk'[i] = disk[i]
    BY GivenNow DEF Has, Untouched
  <1> QED BY <1>1, <1>2, <1>3, <1>4, <1>5 DEF AtWork

LEMMA SharedKept ==
  ASSUME NEW r \in Procs, NEW s, Untouched(r, s), SameJobs(s)
  PROVE  /\ Gone(r, s) => Gone(r, s)'
         /\ \A c \in Containers : RunningWith(r, s, c) => RunningWith(r, s, c)'
         /\ \A i \in Images : PausedWith(r, s, i) => PausedWith(r, s, i)'
         /\ Shared(r, s) => Shared(r, s)'
  <1> USE HasKept, GivenNow
  <1>1. Gone(r, s) => Gone(r, s)'
    BY DEF Gone, Untouched
  <1>2. ASSUME NEW c \in Containers, RunningWith(r, s, c) PROVE RunningWith(r, s, c)'
    <2>1. \A p \in Procs : target'[p] = s => cid'[p] \in {c, Nil}
      BY <1>2 DEF SameJobs, RunningWith
    <2>2. CASE Has(r, s, {c}, c, {}) /\ Stores(s, c)
      <3>1. Given(c, s)
        BY <2>2 DEF Has
      <3> QED BY <2>1, <2>2, <3>1 DEF RunningWith
    <2>3. ASSUME NEW p \in Procs, target[p] = s, cid[p] = c
          PROVE  target'[p] = s /\ cid'[p] = c /\ pc'[p] = pc[p]
      BY <2>3 DEF SameJobs
    <2>4. CASE Has(r, s, {c}, Nil, {})
               /\ \E p \in Procs : target[p] = s /\ cid[p] = c /\ pc[p] \in {"kill.stop", "kill.remove"}
      BY <2>1, <2>3, <2>4 DEF RunningWith
    <2>5. CASE Has(r, s, {}, Nil, {}) /\ \E p \in Procs : target[p] = s /\ cid[p] = c /\ pc[p] = "row.delete"
      BY <2>1, <2>3, <2>5 DEF RunningWith
    <2> QED BY <1>2, <2>2, <2>4, <2>5 DEF RunningWith
  <1>3. ASSUME NEW i \in Images, PausedWith(r, s, i) PROVE PausedWith(r, s, i)'
    <2>1. CASE Has(r, s, {}, Nil, {i}) /\ Stores(s, i)
      <3>1. Given(i, s)
        BY <2>1 DEF Has
      <3> QED BY <2>1, <3>1 DEF PausedWith
    <2>2. CASE Has(r, s, {}, Nil, {}) /\ target[r] = s /\ pc[r] = "row.delete"
      BY <2>2 DEF SameJobs, PausedWith
    <2> QED BY <1>3, <2>1, <2>2 DEF PausedWith
  <1> QED BY <1>1, <1>2, <1>3 DEF Shared

\* Where nothing is touched and nobody has moved, all is as it was.
LEMMA AsideKept ==
  ASSUME NEW r, OneReplica(r), TypeInv, OwnerInv, NEW s \in Sandboxes, SandboxOK(r, s),
         Untouched(r, s), SameJobs(s)
  PROVE  SandboxOK(r, s)'
  <1>1. ASSUME NEW p \in Procs, target'[p] = s PROVE Working(p, r, s)'
    <2>1. /\ Working(p, r, s) /\ target[p] = s
          /\ pc'[p] = pc[p] /\ cid'[p] = cid[p] /\ img'[p] = img[p]
      BY <1>1 DEF SandboxOK, SameJobs
    <2>2. ContainersOf(s)' = ContainersOf(s) /\ mapping'[r][s] = mapping[r][s] /\ row'[s].status = row[s].status
      BY DEF Untouched
    <2> QED BY <2>1, <2>2, HasKept DEF Working
  <1>2. ASSUME NEW p \in Procs, target'[p] = s, pc'[p] \in Lone
        PROVE  /\ \A q \in Procs : target'[q] = s => q = p
               /\ AtWork(pc[p], cid[p], img[p], r, s)'
    <2>1. target[p] = s /\ pc'[p] = pc[p] /\ cid'[p] = cid[p] /\ img'[p] = img[p]
      BY <1>2 DEF SameJobs
    <2>2. AtWork(pc[p], cid[p], img[p], r, s) /\ \A q \in Procs : target[q] = s => q = p
      BY <1>2, <2>1 DEF SandboxOK
    <2>3. /\ (cid[p] \in Containers /\ Given(cid[p], s)) \/ cid[p] = Nil
          /\ (img[p] \in Images /\ Given(img[p], s)) \/ img[p] = Nil
      BY <2>1, HeldIsGiven, Facts
    <2>4. ASSUME NEW l, NEW c, NEW i, l = pc[p], c = cid[p], i = img[p] PROVE AtWork(l, c, i, r, s)'
      BY <2>2, <2>3, <2>4, WorkKept
    <2> QED BY <2>1, <2>2, <2>4 DEF SameJobs, AtWork
  <1>3. ASSUME Crowd(s)' PROVE Shared(r, s)'
    <2>1. Crowd(s)
      BY <1>3 DEF Crowd, SameJobs
    <2> QED BY <2>1, ReplicaFacts, SharedKept DEF SandboxOK
  <1> QED BY <1>1, <1>2, <1>3 DEF SandboxOK

-----------------------------------------------------------------------------
(* A step of one process, which works on t and on t only. *)

On(p, r, t) ==
    /\ target[p] \in {t, Nil} /\ target'[p] \in {t, Nil} /\ Frame(p)
    /\ \A s \in Sandboxes \ {t} : Untouched(r, s)
    /\ SandboxOK(r, t)'
    /\ born' \in {born, born \cup {t}} /\ t \in born'

LEMMA OnKeeps ==
  ASSUME NEW r, OneReplica(r), Orderly(r), ThreadOK(r)',
         NEW p \in Procs, NEW t \in Sandboxes, On(p, r, t)
  PROVE  TurnsInv(r)'
  <1>1. \A s \in Sandboxes \ {t} : SameJobs(s)
    BY DaemonAssumption DEF On, Frame, SameJobs
  <1>2. \A s \in Sandboxes : SandboxOK(r, s)'
    BY <1>1, AsideKept DEF On, Orderly, TurnsInv
  <1>3. ASSUME NEW s \in Sandboxes, s \notin born' PROVE New(r, s)' /\ \A q \in Procs : target'[q] # s
    <2>1. s # t /\ s \notin born
      BY <1>3 DEF On
    <2>2. New(r, s) /\ \A q \in Procs : target[q] # s
      BY <2>1 DEF Orderly, TurnsInv, Unborn
    <2> QED BY <1>1, <2>1, <2>2, HasKept DEF On, SameJobs
  <1> QED BY <1>2, <1>3 DEF TurnsInv, Unborn

\* Where a call does nothing to a sandbox, nothing of it is touched.
LEMMA Elsewhere ==
  ASSUME NEW r, NEW s, SameDaemon(s), cleanup' = cleanup, queue' = queue,
         row'[s] = row[s], acked'[s] = acked[s], mapping'[r][s] = mapping[r][s]
  PROVE  Untouched(r, s)
  BY DEF Untouched, SameDaemon

LEMMA MappingSet ==
  ASSUME NEW r, OneReplica(r), TypeInv, NEW p \in Procs, target[p] \in Sandboxes, NEW c, SetMapping(p, c)
  PROVE  mapping'[r][target[p]] = c /\ \A s \in Sandboxes \ {target[p]} : mapping'[r][s] = mapping[r][s]
  <1>1. Home(p) = r /\ r \in Replicas /\ mapping \in [Replicas -> [Sandboxes -> Containers \cup {Nil}]]
    BY Facts, ReplicaFacts
  <1> QED BY <1>1 DEF SetMapping

-----------------------------------------------------------------------------
(* The calls of a handler that is alone with its sandbox. *)

LEMMA Alone ==
  ASSUME NEW r, OneReplica(r), Orderly(r), NEW p \in Procs, pc[p] \in Lone
  PROVE  /\ target[p] \in Sandboxes /\ target[p] \in born
         /\ AtWork(pc[p], cid[p], img[p], r, target[p])
         /\ \A q \in Procs : target[q] = target[p] => q = p
         /\ p \notin Replicas /\ pc[p] \notin Resting
  <1>1. pc[p] \notin Resting
    BY DEF Lone, Creating, Moving, Pausing, Resuming, Resting
  <1>2. target[p] \in Sandboxes
    BY <1>1, AtCall DEF Orderly
  <1>3. p \notin Replicas
    BY Facts DEF Orderly, JobInv, JobTypeOK, BootPC, ReaperPC, Lone, Creating, Moving, Pausing, Resuming
  <1> QED BY <1>1, <1>2, <1>3 DEF Orderly, TurnsInv, SandboxOK, Unborn

\* It goes on to call l.
LEMMA GoesOn ==
  ASSUME NEW r, OneReplica(r), Orderly(r), NEW p \in Procs, pc[p] \in Lone, Handler(p),
         NEW l \in Lone, Goto(p, l), target' = target, UNCHANGED born,
         \A s \in Sandboxes \ {target[p]} : Untouched(r, s),
         NEW t, t = target[p], AtWork(l, cid[p], img[p], r, t)'
  PROVE  On(p, r, t)
  <1>1. Frame(p) /\ pc'[p] = l
    BY Facts, HandlerFrame DEF Goto, Orderly
  <1>2. \A q \in Procs : target'[q] = t => q = p
    BY Alone
  <1>3. Working(p, r, t)'
    BY <1>1 DEF Working, Lone, Creating, Moving, Pausing, Resuming
  <1>4. AtWork(pc[p], cid[p], img[p], r, t)'
    BY <1>1 DEF AtWork
  <1>5. SandboxOK(r, t)'
    BY <1>1, <1>2, <1>3, <1>4 DEF SandboxOK, Crowd
  <1> QED BY <1>1, <1>5, Alone DEF On

\* It returns.
LEMMA GoesHome ==
  ASSUME NEW r, OneReplica(r), Orderly(r), NEW p \in Procs, pc[p] \in Lone, Handler(p),
         Return(p), UNCHANGED born,
         \A s \in Sandboxes \ {target[p]} : Untouched(r, s),
         NEW t, t = target[p], Shared(r, t)'
  PROVE  On(p, r, t)
  <1>1. Frame(p) /\ target'[p] = Nil
    BY Facts, HandlerFrame DEF Return, Orderly
  <1>2. \A q \in Procs : target'[q] # t
    BY <1>1, Alone, DaemonAssumption DEF Frame
  <1>3. SandboxOK(r, t)'
    BY <1>2 DEF SandboxOK
  <1> QED BY <1>1, <1>3, Alone DEF On

LEMMA LoneLabels ==
  /\ {"create.container", "create.start", "create.register", "create.save"} \subseteq Lone
  /\ {"pause.commit", "pause.stop", "pause.remove", "pause.unregister", "pause.save"} \subseteq Lone
  /\ {"resume.container", "resume.start", "resume.register", "resume.save"} \subseteq Lone
  BY DEF Lone, Creating, Moving, Pausing, Resuming

\* What the lemmas on its calls start from.
LEMMA AloneFacts ==
  ASSUME NEW r, OneReplica(r), Orderly(r), NEW p \in Procs, pc[p] \in Lone
  PROVE  /\ target[p] \in Sandboxes /\ AtWork(pc[p], cid[p], img[p], r, target[p])
         /\ DaemonTypeOK /\ Home(p) = r /\ r \in Replicas /\ TypeInv
         /\ row \in [Sandboxes -> Row] /\ cleanup \in [Replicas -> SUBSET Images]
         /\ cid \in [Procs -> Containers \cup {Nil}] /\ img \in [Procs -> Images \cup {Nil}]
         /\ \A kind \in {"docker", "db"} : ~Fault(kind)
  BY Alone, Facts, ReplicaFacts DEF Orderly

\* A handler that is done leaves its sandbox to nobody.
LEMMA LeftRunning ==
  ASSUME NEW r, OneReplica(r), Orderly(r), NEW p \in Procs, pc[p] \in Lone, Handler(p), Return(p),
         NEW t, t = target[p], NEW c \in Containers,
         Runs(t)', Has(r, t, {c}, c, {})', Stores(t, c)'
  PROVE  Shared(r, t)'
  <1>1. Frame(p) /\ target'[p] = Nil
    BY Facts, HandlerFrame DEF Return, Orderly
  <1>2. \A q \in Procs : target'[q] # t
    BY <1>1, Alone, DaemonAssumption DEF Frame
  <1>3. RunningWith(r, t, c)'
    BY <1>2 DEF RunningWith
  <1> QED BY <1>3 DEF Shared

LEMMA TurnCreate ==
  ASSUME NEW r, OneReplica(r), Orderly(r), NEW p \in Procs,
         CreateContainer(p) \/ CreateStart(p) \/ CreateRegister(p) \/ CreateSave(p)
  PROVE  On(p, r, target[p])
  <1>0. pc[p] \in Lone /\ Handler(p)
    BY LoneLabels DEF CreateContainer, CreateStart, CreateRegister, CreateSave, Handler, Create
  <1> PICK t, c : t \in Sandboxes /\ t = target[p] /\ c = cid[p]
    BY <1>0, AloneFacts
  <1>a. /\ AtWork(pc[p], c, img[p], r, t) /\ DaemonTypeOK /\ TypeInv
        /\ row \in [Sandboxes -> Row] /\ cid \in [Procs -> Containers \cup {Nil}]
        /\ \A kind \in {"docker", "db"} : ~Fault(kind)
    BY <1>0, AloneFacts
  <1>1. CASE CreateContainer(p)
    <2>1. New(r, t) /\ Has(r, t, {}, Nil, {})
      BY <1>1, <1>a DEF CreateContainer, AtWork
    <2>2. PICK d \in Containers : /\ ContainerCreate(d, t, {}) /\ cid' = [cid EXCEPT ![p] = d]
                                  /\ Goto(p, "create.start") /\ UNCHANGED <<target, img>>
      BY <1>1, <1>a DEF CreateContainer
    <2>3. UNCHANGED <<row, mapping, queue, cleanup, born, acked>>
      BY <1>1 DEF CreateContainer
    <2>4. /\ \A s \in Sandboxes \ {t} : SameDaemon(s)
          /\ ContainersOf(t)' = ContainersOf(t) \cup {d}
          /\ ImagesOf(t)' = ImagesOf(t)
          /\ disk' = [disk EXCEPT ![d] = {}]
      BY <1>a, <2>2, AfterCreate
    <2>5. disk'[d] = {} /\ cid'[p] = d
      BY <1>a, <2>2, <2>4 DEF DaemonTypeOK
    <2>6. AtWork("create.start", cid[p], img[p], r, t)'
      BY <2>1, <2>3, <2>4, <2>5 DEF AtWork, Has, New
    <2>7. \A s \in Sandboxes \ {t} : Untouched(r, s)
      BY <2>3, <2>4, Elsewhere
    <2> QED BY <1>0, <2>2, <2>3, <2>6, <2>7, GoesOn, LoneLabels
  <1>2. CASE CreateStart(p)
    <2>1. New(r, t) /\ Has(r, t, {c}, Nil, {}) /\ disk[c] = {}
      BY <1>2, <1>a DEF CreateStart, AtWork
    <2>2. Exists(c)
      BY <2>1 DEF Has, ContainersOf
    <2>3. /\ ContainerStart(c) /\ Goto(p, "create.register") /\ UNCHANGED jobVars
          /\ UNCHANGED <<row, mapping, queue, cleanup, born, acked>>
      BY <1>2, <1>a, <2>2 DEF CreateStart, DockerCall
    <2>4. \A s : SameDaemon(s) /\ disk' = disk
      BY <1>a, <2>2, <2>3, AfterStartStop
    <2>5. AtWork("create.register", cid[p], img[p], r, t)'
      BY <2>1, <2>3, <2>4 DEF AtWork, Has, New, SameDaemon, jobVars
    <2>6. \A s \in Sandboxes \ {t} : Untouched(r, s)
      BY <2>3, <2>4, Elsewhere
    <2> QED BY <1>0, <2>3, <2>5, <2>6, GoesOn, LoneLabels DEF jobVars
  <1>3. CASE CreateRegister(p)
    <2>1. New(r, t) /\ Has(r, t, {c}, Nil, {}) /\ disk[c] = {}
      BY <1>3, <1>a DEF CreateRegister, AtWork
    <2>2. /\ SetMapping(p, c) /\ Goto(p, "create.save") /\ UNCHANGED jobVars
          /\ UNCHANGED <<daemonVars, row, queue, cleanup, born, acked>>
      BY <1>3 DEF CreateRegister
    <2>3. mapping'[r][t] = c /\ \A s \in Sandboxes \ {t} : mapping'[r][s] = mapping[r][s]
      BY <1>a, <2>2, MappingSet
    <2>4. \A s : SameDaemon(s)
      BY <2>2, AfterNothing
    <2>5. AtWork("create.save", cid[p], img[p], r, t)'
      BY <2>1, <2>2, <2>3, <2>4 DEF AtWork, Has, New, SameDaemon, jobVars, daemonVars
    <2>6. \A s \in Sandboxes \ {t} : Untouched(r, s)
      BY <2>2, <2>3, <2>4, Elsewhere
    <2> QED BY <1>0, <2>2, <2>5, <2>6, GoesOn, LoneLabels DEF jobVars
  <1>4. CASE CreateSave(p)
    <2>1. New(r, t) /\ Has(r, t, {c}, c, {}) /\ disk[c] = {}
      BY <1>4, <1>a DEF CreateSave, AtWork
    <2>2. /\ row' = [row EXCEPT ![t] = RunningRow] /\ Return(p)
          /\ UNCHANGED <<daemonVars, mapping, queue, cleanup, born, acked>>
      BY <1>4, <1>a DEF CreateSave, RowCall
    <2>3. \A s : SameDaemon(s)
      BY <2>2, AfterNothing
    <2>4. c \in Containers
      BY <2>1 DEF Has, ContainersOf
    <2>5. Runs(t)' /\ Has(r, t, {c}, c, {})' /\ Stores(t, c)'
      BY <1>a, <2>1, <2>2, <2>3, <2>4, Records DEF Runs, Has, New, Stores, SameDaemon, daemonVars
    <2>6. Shared(r, t)'
      BY <1>0, <2>2, <2>4, <2>5, LeftRunning
    <2>7. \A s \in Sandboxes \ {t} : Untouched(r, s)
      BY <1>a, <2>2, <2>3, Elsewhere
    <2> QED BY <1>0, <2>2, <2>6, <2>7, GoesHome
  <1> QED BY <1>1, <1>2, <1>3, <1>4

LEMMA TurnPause ==
  ASSUME NEW r, OneReplica(r), Orderly(r), NEW p \in Procs,
         PauseCommit(p) \/ PauseStop(p) \/ PauseRemove(p) \/ PauseUnregister(p) \/ PauseSave(p)
  PROVE  On(p, r, target[p])
  <1>0. pc[p] \in Lone /\ Handler(p)
    BY LoneLabels DEF PauseCommit, PauseStop, PauseRemove, PauseUnregister, PauseSave, Handler, Pause
  <1> PICK t, c, i : t \in Sandboxes /\ t = target[p] /\ c = cid[p] /\ i = img[p]
    BY <1>0, AloneFacts
  <1>a. /\ AtWork(pc[p], c, i, r, t) /\ DaemonTypeOK /\ TypeInv /\ r \in Replicas
        /\ row \in [Sandboxes -> Row]
        /\ cid \in [Procs -> Containers \cup {Nil}] /\ img \in [Procs -> Images \cup {Nil}]
        /\ \A kind \in {"docker", "db"} : ~Fault(kind)
    BY <1>0, AloneFacts
  <1>2. CASE PauseCommit(p)
    <2>1. Runs(t) /\ Has(r, t, {c}, c, {}) /\ Stores(t, c)
      BY <1>2, <1>a DEF PauseCommit, AtWork
    <2>2. Exists(c) /\ c \in ContainersOf(t) /\ c \in Containers
      BY <2>1 DEF Has, ContainersOf
    <2>3. PICK j \in Images : /\ ContainerCommit(c, j) /\ img' = [img EXCEPT ![p] = j]
                              /\ Goto(p, "pause.stop") /\ UNCHANGED <<target, cid>>
      BY <1>2, <1>a, <2>2 DEF PauseCommit
    <2>4. UNCHANGED <<row, mapping, queue, cleanup, born, acked>>
      BY <1>2 DEF PauseCommit
    <2>5. /\ \A s \in Sandboxes \ {t} : SameDaemon(s)
          /\ ContainersOf(t)' = ContainersOf(t)
          /\ ImagesOf(t)' = ImagesOf(t) \cup {j}
          /\ disk' = [disk EXCEPT ![j] = disk[c]]
          /\ image[j] = "free"
      BY <1>a, <2>2, <2>3, AfterCommit
    \* The daemon's new image is none of those the clean-up knows of.
    <2>6. j \notin cleanup[r]
      BY <1>a, <2>5 DEF Orderly, OwnerInv, HeldIsKnown
    <2>7. j # c /\ disk'[j] = disk[c] /\ disk'[c] = disk[c] /\ img'[p] = j
      BY <1>a, <2>2, <2>3, <2>5, DaemonAssumption DEF DaemonTypeOK
    <2>8. Has(r, t, {c}, c, {j})' /\ Stores(t, c)' /\ Runs(t)'
      BY <2>1, <2>4, <2>5, <2>6, <2>7 DEF Has, Stores, Runs
    <2>9. AtWork("pause.stop", cid[p], img[p], r, t)'
      BY <2>3, <2>7, <2>8 DEF AtWork
    <2>10. \A s \in Sandboxes \ {t} : Untouched(r, s)
      BY <2>4, <2>5, Elsewhere
    <2> QED BY <1>0, <2>3, <2>4, <2>9, <2>10, GoesOn, LoneLabels
  <1>3. CASE PauseStop(p)
    <2>1. Runs(t) /\ Has(r, t, {c}, c, {i}) /\ Stores(t, c) /\ disk[i] = disk[c]
      BY <1>3, <1>a DEF PauseStop, AtWork
    <2>2. Exists(c)
      BY <2>1 DEF Has, ContainersOf
    <2>3. /\ ContainerStop(c) /\ Goto(p, "pause.remove") /\ UNCHANGED jobVars
          /\ UNCHANGED <<row, mapping, queue, cleanup, born, acked>>
      BY <1>3, <1>a, <2>2 DEF PauseStop, DockerCall
    <2>4. \A s : SameDaemon(s) /\ disk' = disk
      BY <1>a, <2>2, <2>3, AfterStartStop
    <2>5. AtWork("pause.remove", cid[p], img[p], r, t)'
      BY <2>1, <2>3, <2>4 DEF AtWork, Has, Stores, Runs, SameDaemon, jobVars
    <2>6. \A s \in Sandboxes \ {t} : Untouched(r, s)
      BY <2>3, <2>4, Elsewhere
    <2> QED BY <1>0, <2>3, <2>5, <2>6, GoesOn, LoneLabels DEF jobVars
  <1>4. CASE PauseRemove(p)
    <2>1. Runs(t) /\ Has(r, t, {c}, c, {i}) /\ Stores(t, c) /\ disk[i] = disk[c]
      BY <1>4, <1>a DEF PauseRemove, AtWork
    <2>2. Exists(c) /\ c \in ContainersOf(t)
      BY <2>1 DEF Has, ContainersOf
    <2>3. /\ ContainerRemove(c) /\ Goto(p, "pause.unregister") /\ UNCHANGED jobVars
          /\ UNCHANGED <<row, mapping, queue, cleanup, born, acked>>
      BY <1>4, <1>a, <2>2 DEF PauseRemove, DockerCall
    <2>4. /\ \A s \in Sandboxes \ {t} : SameDaemon(s)
          /\ ContainersOf(t)' = ContainersOf(t) \ {c}
          /\ ImagesOf(t)' = ImagesOf(t)
          /\ disk' = disk
      BY <1>a, <2>2, <2>3, AfterRemove
    <2>5. AtWork("pause.unregister", cid[p], img[p], r, t)'
      BY <2>1, <2>3, <2>4 DEF AtWork, Has, Stores, Runs, jobVars
    <2>6. \A s \in Sandboxes \ {t} : Untouched(r, s)
      BY <2>3, <2>4, Elsewhere
    <2> QED BY <1>0, <2>3, <2>5, <2>6, GoesOn, LoneLabels DEF jobVars
  <1>5. CASE PauseUnregister(p)
    <2>1. Runs(t) /\ Has(r, t, {}, c, {i}) /\ Stores(t, c) /\ disk[i] = disk[c]
      BY <1>5, <1>a DEF PauseUnregister, AtWork
    <2>2. /\ SetMapping(p, Nil) /\ Goto(p, "pause.save") /\ UNCHANGED jobVars
          /\ UNCHANGED <<daemonVars, row, queue, cleanup, born, acked>>
      BY <1>5 DEF PauseUnregister
    <2>3. mapping'[r][t] = Nil /\ \A s \in Sandboxes \ {t} : mapping'[r][s] = mapping[r][s]
      BY <1>a, <2>2, MappingSet
    <2>4. \A s : SameDaemon(s)
      BY <2>2, AfterNothing
    <2>5. AtWork("pause.save", cid[p], img[p], r, t)'
      BY <2>1, <2>2, <2>3, <2>4 DEF AtWork, Has, Stores, Runs, SameDaemon, jobVars, daemonVars
    <2>6. \A s \in Sandboxes \ {t} : Untouched(r, s)
      BY <2>2, <2>3, <2>4, Elsewhere
    <2> QED BY <1>0, <2>2, <2>5, <2>6, GoesOn, LoneLabels DEF jobVars
  <1>6. CASE PauseSave(p)
    <2>1. Runs(t) /\ Has(r, t, {}, Nil, {i}) /\ Stores(t, c) /\ disk[i] = disk[c]
      BY <1>6, <1>a DEF PauseSave, AtWork
    <2>2. /\ row' = [row EXCEPT ![t] = PausedRow(i)] /\ Return(p)
          /\ UNCHANGED <<daemonVars, mapping, queue, cleanup, born, acked>>
      BY <1>6, <1>a DEF PauseSave, RowCall
    <2>3. \A s : SameDaemon(s)
      BY <2>2, AfterNothing
    <2>4. i \in Images
      BY <2>1 DEF Has, ImagesOf
    <2>5. PausedAt(t, i)' /\ PausedWith(r, t, i)'
      BY <1>a, <2>1, <2>2, <2>3, <2>4, Records DEF PausedAt, PausedWith, Has, Stores, SameDaemon, daemonVars
    <2>6. Shared(r, t)'
      BY <2>4, <2>5 DEF Shared
    <2>7. \A s \in Sandboxes \ {t} : Untouched(r, s)
      BY <1>a, <2>2, <2>3, Elsewhere
    <2> QED BY <1>0, <2>2, <2>6, <2>7, GoesHome
  <1> QED BY <1>2, <1>3, <1>4, <1>5, <1>6

LEMMA TurnResume ==
  ASSUME NEW r, OneReplica(r), Orderly(r), NEW p \in Procs,
         ResumeContainer(p) \/ ResumeStart(p) \/ ResumeRegister(p) \/ ResumeSave(p)
  PROVE  On(p, r, target[p])
  <1>0. pc[p] \in Lone /\ Handler(p)
    BY LoneLabels DEF ResumeContainer, ResumeStart, ResumeRegister, ResumeSave, Handler, Resume
  <1> PICK t, c, i : t \in Sandboxes /\ t = target[p] /\ c = cid[p] /\ i = img[p]
    BY <1>0, AloneFacts
  <1>a. /\ AtWork(pc[p], c, i, r, t) /\ DaemonTypeOK /\ TypeInv /\ Home(p) = r /\ r \in Replicas
        /\ row \in [Sandboxes -> Row] /\ cleanup \in [Replicas -> SUBSET Images]
        /\ cid \in [Procs -> Containers \cup {Nil}] /\ img \in [Procs -> Images \cup {Nil}]
        /\ \A kind \in {"docker", "db"} : ~Fault(kind)
    BY <1>0, AloneFacts
  <1>1. CASE ResumeContainer(p)
    <2>1. PausedAt(t, i) /\ Stores(t, i) /\ Has(r, t, {}, Nil, {i})
      BY <1>1, <1>a DEF ResumeContainer, AtWork
    <2>2. image[i] = "present" /\ i \in Images
      BY <2>1 DEF Has, ImagesOf
    <2>3. PICK d \in Containers : /\ ContainerCreate(d, t, disk[i]) /\ cid' = [cid EXCEPT ![p] = d]
                                  /\ Goto(p, "resume.start") /\ UNCHANGED <<target, img>>
      BY <1>1, <1>a, <2>2 DEF ResumeContainer
    <2>4. UNCHANGED <<row, mapping, queue, cleanup, born, acked>>
      BY <1>1 DEF ResumeContainer
    <2>5. /\ \A s \in Sandboxes \ {t} : SameDaemon(s)
          /\ ContainersOf(t)' = ContainersOf(t) \cup {d}
          /\ ImagesOf(t)' = ImagesOf(t)
          /\ disk' = [disk EXCEPT ![d] = disk[i]]
      BY <1>a, <2>3, AfterCreate
    <2>6. d # i /\ disk'[d] = disk[i] /\ disk'[i] = disk[i] /\ cid'[p] = d
      BY <1>a, <2>2, <2>3, <2>5, DaemonAssumption DEF DaemonTypeOK
    <2>7. AtWork("resume.start", cid[p], img[p], r, t)'
      BY <2>1, <2>3, <2>4, <2>5, <2>6 DEF AtWork, Has, Stores, PausedAt
    <2>8. \A s \in Sandboxes \ {t} : Untouched(r, s)
      BY <2>4, <2>5, Elsewhere
    <2> QED BY <1>0, <2>3, <2>4, <2>7, <2>8, GoesOn, LoneLabels
  <1>2. CASE ResumeStart(p)
    <2>1. PausedAt(t, i) /\ Stores(t, i) /\ Has(r, t, {c}, Nil, {i}) /\ disk[c] = disk[i]
      BY <1>2, <1>a DEF ResumeStart, AtWork
    <2>2. Exists(c)
      BY <2>1 DEF Has, ContainersOf
    <2>3. /\ ContainerStart(c) /\ Goto(p, "resume.register") /\ UNCHANGED jobVars
          /\ UNCHANGED <<row, mapping, queue, cleanup, born, acked>>
      BY <1>2, <1>a, <2>2 DEF ResumeStart, DockerCall
    <2>4. \A s : SameDaemon(s) /\ disk' = disk
      BY <1>a, <2>2, <2>3, AfterStartStop
    <2>5. AtWork("resume.register", cid[p], img[p], r, t)'
      BY <2>1, <2>3, <2>4 DEF AtWork, Has, Stores, PausedAt, SameDaemon, jobVars
    <2>6. \A s \in Sandboxes \ {t} : Untouched(r, s)
      BY <2>3, <2>4, Elsewhere
    <2> QED BY <1>0, <2>3, <2>5, <2>6, GoesOn, LoneLabels DEF jobVars
  <1>3. CASE ResumeRegister(p)
    <2>1. PausedAt(t, i) /\ Stores(t, i) /\ Has(r, t, {c}, Nil, {i}) /\ disk[c] = disk[i]
      BY <1>3, <1>a DEF ResumeRegister, AtWork
    <2>2. /\ SetMapping(p, c) /\ Goto(p, "resume.save") /\ UNCHANGED jobVars
          /\ UNCHANGED <<daemonVars, row, queue, cleanup, born, acked>>
      BY <1>3 DEF ResumeRegister
    <2>3. mapping'[r][t] = c /\ \A s \in Sandboxes \ {t} : mapping'[r][s] = mapping[r][s]
      BY <1>a, <2>2, MappingSet
    <2>4. \A s : SameDaemon(s)
      BY <2>2, AfterNothing
    <2>5. AtWork("resume.save", cid[p], img[p], r, t)'
      BY <2>1, <2>2, <2>3, <2>4 DEF AtWork, Has, Stores, PausedAt, SameDaemon, jobVars, daemonVars
    <2>6. \A s \in Sandboxes \ {t} : Untouched(r, s)
      BY <2>2, <2>3, <2>4, Elsewhere
    <2> QED BY <1>0, <2>2, <2>5, <2>6, GoesOn, LoneLabels DEF jobVars
  \* The image goes from the record to the clean-up.
  <1>4. CASE ResumeSave(p)
    <2>1. PausedAt(t, i) /\ Stores(t, i) /\ Has(r, t, {c}, c, {i}) /\ disk[c] = disk[i]
      BY <1>4, <1>a DEF ResumeSave, AtWork
    <2>2. /\ row' = [row EXCEPT ![t] = RunningRow] /\ cleanup' = [cleanup EXCEPT ![r] = @ \cup {i}]
          /\ Return(p) /\ UNCHANGED <<daemonVars, mapping, queue, born, acked>>
      BY <1>4, <1>a DEF ResumeSave
    <2>3. \A s : SameDaemon(s)
      BY <2>2, AfterNothing
    <2>4. c \in Containers /\ i \in ImagesOf(t) /\ cleanup'[r] = cleanup[r] \cup {i}
      BY <1>a, <2>1, <2>2 DEF Has, ContainersOf
    <2>5. Runs(t)' /\ Stores(t, c)' /\ Has(r, t, {c}, c, {})'
      <3>1. Runs(t)'
        BY <1>a, <2>2, Records DEF Runs
      <3>2. Has(r, t, {c}, c, {})'
        BY <2>1, <2>2, <2>3, <2>4 DEF Has, SameDaemon
      <3>3. Stores(t, c)'
        BY <2>1, <2>2, <2>4 DEF Stores, daemonVars
      <3> QED BY <3>1, <3>2, <3>3
    <2>6. Shared(r, t)'
      BY <1>0, <2>2, <2>4, <2>5, LeftRunning
    <2>7. ASSUME NEW s \in Sandboxes \ {t} PROVE Untouched(r, s)
      <3>1. i \notin ImagesOf(s)
        BY <2>4 DEF ImagesOf
      <3> QED BY <1>a, <2>2, <2>3, <2>4, <3>1 DEF Untouched, SameDaemon
    <2> QED BY <1>0, <2>2, <2>6, <2>7, GoesHome
  <1> QED BY <1>1, <1>2, <1>3, <1>4

-----------------------------------------------------------------------------
(* The calls of a process that may have company. *)

LEMMA Company ==
  ASSUME NEW r, OneReplica(r), Orderly(r), NEW p \in Procs, pc[p] \notin Resting, pc[p] \notin Lone
  PROVE  /\ target[p] \in Sandboxes /\ target[p] # Nil /\ target[p] \in born
         /\ Crowd(target[p]) /\ Shared(r, target[p])
         /\ \A q \in Procs : target[q] = target[p] => Working(q, r, target[p])
  <1>1. target[p] \in Sandboxes /\ target[p] # Nil
    BY AtCall DEF Orderly
  <1>2. SandboxOK(r, target[p]) /\ target[p] \in born
    BY <1>1 DEF Orderly, TurnsInv, Unborn
  <1>3. Crowd(target[p])
    BY <1>2 DEF SandboxOK, Crowd
  <1> QED BY <1>1, <1>2, <1>3 DEF SandboxOK

LEMMA CompanyFacts ==
  ASSUME NEW r, OneReplica(r), Orderly(r), NEW p \in Procs, pc[p] \notin Resting, pc[p] \notin Lone
  PROVE  /\ target[p] \in Sandboxes /\ Working(p, r, target[p])
         /\ JobInv /\ DaemonTypeOK /\ TypeInv /\ OwnerInv /\ Home(p) = r /\ r \in Replicas /\ r \in Procs
         /\ pc \in [Procs -> RequestPC \cup BootPC \cup ReaperPC]
         /\ target \in [Procs -> Sandboxes \cup {Nil}]
         /\ cid \in [Procs -> Containers \cup {Nil}]
         /\ row \in [Sandboxes -> Row]
         /\ mapping \in [Replicas -> [Sandboxes -> Containers \cup {Nil}]]
         /\ \A kind \in {"docker", "db"} : ~Fault(kind)
  BY Company, Facts, ReplicaFacts DEF Orderly

\* Nothing is added to s, and its record says what it said.
Fewer(r, s) ==
    /\ row'[s].status = row[s].status /\ row'[s].image = row[s].image
    /\ mapping'[r][s] \in {mapping[r][s], Nil}
    /\ ContainersOf(s)' \subseteq ContainersOf(s)
    /\ ImagesOf(s)' \ cleanup'[r] \subseteq ImagesOf(s) \ cleanup[r]

\* What s has is what it had.
Steady(r, s) ==
    /\ Gone(r, s) => Gone(r, s)'
    /\ \A c \in Containers : Runs(s) /\ RunningWith(r, s, c) => RunningWith(r, s, c)'
    /\ \A i \in Images : PausedAt(s, i) /\ PausedWith(r, s, i) => PausedWith(r, s, i)'

LEMMA SteadyShared ==
  ASSUME NEW r, NEW s, Shared(r, s), Fewer(r, s), Steady(r, s)
  PROVE  Shared(r, s)'
  BY DEF Shared, Fewer, Steady, Runs, PausedAt

LEMMA FewerWorks ==
  ASSUME NEW r, NEW s, Fewer(r, s), NEW p \in Procs, NEW q \in Procs \ {p}, Frame(p), Working(q, r, s)
  PROVE  Working(q, r, s)'
  <1>1. Has(r, s, {}, Nil, {}) => Has(r, s, {}, Nil, {})'
    BY DEF Has, Fewer
  <1> QED BY <1>1 DEF Working, Fewer, Frame, PausedAt

\* One more process at s, or one less, or one at its next call: s does not
\* change, unless it is the one that is to remove the container or the record.
LEMMA Bystander ==
  ASSUME NEW r \in Procs, NEW s, NEW p \in Procs, Frame(p), Untouched(r, s),
         target[p] = s => pc[p] # "row.delete",
         target[p] = s /\ pc[p] \in {"kill.stop", "kill.remove"} =>
            \/ ~Exists(cid[p])
            \/ target'[p] = s /\ cid'[p] = cid[p] /\ pc'[p] \in {"kill.stop", "kill.remove"},
         target'[p] = s => cid'[p] \in {Nil, mapping[r][s]} \/ (target[p] = s /\ cid'[p] = cid[p])
  PROVE  Fewer(r, s) /\ Steady(r, s)
  <1> USE HasKept, GivenNow
  <1>1. Fewer(r, s)
    BY DEF Fewer, Untouched
  <1>2. Gone(r, s) => Gone(r, s)'
    BY DEF Gone, Untouched
  <1>3. ASSUME NEW c \in Containers, RunningWith(r, s, c) PROVE RunningWith(r, s, c)'
    <2>1. mapping[r][s] \in {c, Nil}
      BY <1>3 DEF RunningWith, Has
    <2>2. \A q \in Procs : target'[q] = s => cid'[q] \in {c, Nil}
      BY <1>3, <2>1 DEF RunningWith, Frame
    <2>3. CASE Has(r, s, {c}, c, {}) /\ Stores(s, c)
      <3>1. Given(c, s)
        BY <2>3 DEF Has
      <3> QED BY <2>2, <2>3, <3>1 DEF RunningWith
    <2>4. ASSUME Has(r, s, {c}, Nil, {}), NEW q \in Procs, target[q] = s, cid[q] = c,
                 pc[q] \in {"kill.stop", "kill.remove"}
          PROVE  RunningWith(r, s, c)'
      <3>1. Exists(cid[q])
        BY <2>4 DEF Has, ContainersOf
      <3>2. target'[q] = s /\ cid'[q] = c /\ pc'[q] \in {"kill.stop", "kill.remove"}
        BY <2>4, <3>1 DEF Frame
      <3> QED BY <2>2, <2>4, <3>2 DEF RunningWith
    <2>5. ASSUME Has(r, s, {}, Nil, {}), NEW q \in Procs, target[q] = s, cid[q] = c, pc[q] = "row.delete"
          PROVE  RunningWith(r, s, c)'
      <3>1. target'[q] = s /\ cid'[q] = c /\ pc'[q] = "row.delete"
        BY <2>5 DEF Frame
      <3> QED BY <2>2, <2>5, <3>1 DEF RunningWith
    <2> QED BY <1>3, <2>3, <2>4, <2>5 DEF RunningWith
  <1>4. ASSUME NEW i \in Images, PausedWith(r, s, i) PROVE PausedWith(r, s, i)'
    <2>1. CASE Has(r, s, {}, Nil, {i}) /\ Stores(s, i)
      <3>1. Given(i, s)
        BY <2>1 DEF Has
      <3> QED BY <2>1, <3>1 DEF PausedWith
    <2>2. CASE Has(r, s, {}, Nil, {}) /\ target[r] = s /\ pc[r] = "row.delete"
      BY <2>2 DEF Frame, PausedWith
    <2> QED BY <1>4, <2>1, <2>2 DEF PausedWith
  <1> QED BY <1>1, <1>2, <1>3, <1>4 DEF Steady

\* The process goes on or returns, and the others may stay.
LEMMA GoesAlong ==
  ASSUME NEW r, OneReplica(r), Orderly(r), NEW p \in Procs, pc[p] \notin Resting, pc[p] \notin Lone,
         Frame(p), UNCHANGED born,
         NEW t, t = target[p], \A s \in Sandboxes \ {t} : Untouched(r, s),
         \/ target'[p] = Nil
         \/ target'[p] = t /\ pc'[p] \notin Lone /\ Working(p, r, t)',
         Shared(r, t)',
         \A q \in Procs \ {p} : target[q] = t => Working(q, r, t)'
  PROVE  On(p, r, t)
  <1>1. t \in Sandboxes /\ t # Nil /\ t \in born /\ Crowd(t)
    BY Company
  <1>2. SandboxOK(r, t)'
    <2>1. ASSUME NEW q \in Procs, target'[q] = t
          PROVE  Working(q, r, t)' /\ pc'[q] \notin Lone
      <3>1. CASE q = p
        BY <1>1, <2>1, <3>1
      <3>2. CASE q # p
        BY <1>1, <2>1, <3>2 DEF Frame, Crowd
      <3> QED BY <3>1, <3>2
    <2> QED BY <2>1 DEF SandboxOK
  <1> QED BY <1>1, <1>2 DEF On

\* What the sandbox has stays as it was.
OnSteadily(p, r, t) == On(p, r, t) /\ Crowd(t) /\ Fewer(r, t) /\ Steady(r, t)

LEMMA GoesAlongSteadily ==
  ASSUME NEW r, OneReplica(r), Orderly(r), NEW p \in Procs, pc[p] \notin Resting, pc[p] \notin Lone,
         Frame(p), UNCHANGED born,
         NEW t, t = target[p], \A s \in Sandboxes \ {t} : Untouched(r, s),
         \/ target'[p] = Nil
         \/ target'[p] = t /\ pc'[p] \notin Lone /\ Working(p, r, t)',
         Fewer(r, t), Steady(r, t)
  PROVE  OnSteadily(p, r, t)
  <1>1. Shared(r, t)'
    BY Company, SteadyShared
  <1>2. \A q \in Procs \ {p} : target[q] = t => Working(q, r, t)'
    BY Company, FewerWorks
  <1> QED BY <1>1, <1>2, Company, GoesAlong DEF OnSteadily

\* From here on the process has the sandbox to itself.
LEMMA TakesItsTurn ==
  ASSUME NEW r, NEW p \in Procs, NEW t, TakingTurns', target'[p] = t, pc'[p] \in Moving,
         AtWork(pc[p], cid[p], img[p], r, t)'
  PROVE  SandboxOK(r, t)'
  <1>1. \A q \in Procs : target'[q] = t => q = p
    BY DEF TakingTurns
  <1>2. Working(p, r, t)'
    BY DEF Working, Moving, Pausing, Resuming
  <1>3. pc'[p] \in Lone
    BY DEF Lone
  <1> QED BY <1>1, <1>2, <1>3 DEF SandboxOK, Crowd

\* What is mapped runs, and is all there is.
LEMMA Mapped ==
  ASSUME NEW r, NEW s, Shared(r, s), mapping[r][s] # Nil
  PROVE  \E c \in Containers : Runs(s) /\ RunningWith(r, s, c) /\ Has(r, s, {c}, c, {}) /\ Stores(s, c)
  BY DEF Shared, Gone, RunningWith, PausedWith, Has


LEMMA SharedLabels ==
  \A l \in {"kill.lookup", "kill.unregister", "kill.stop", "kill.remove", "row.delete", "exec.lookup",
            "exec.run", "pause.lookup", "reap.image"} : l \notin Resting /\ l \notin Lone
  BY DEF Resting, Lone, Creating, Moving, Pausing, Resuming

LEMMA TurnLookup ==
  ASSUME NEW r, OneReplica(r), Orderly(r), NEW p \in Procs, KillLookup(p) \/ ExecLookup(p)
  PROVE  OnSteadily(p, r, target[p])
  <1>0. pc[p] \notin Resting /\ pc[p] \notin Lone /\ pc[p] \in {"kill.lookup", "exec.lookup"} /\ Handler(p)
    BY SharedLabels DEF KillLookup, ExecLookup, Handler, Kill, Exec
  <1> PICK t, m : t \in Sandboxes /\ t = target[p] /\ m = mapping[r][t]
    BY <1>0, CompanyFacts
  <1>a. /\ JobInv /\ Home(p) = r /\ r \in Procs /\ pc \in [Procs -> RequestPC \cup BootPC \cup ReaperPC]
        /\ target \in [Procs -> Sandboxes \cup {Nil}] /\ cid \in [Procs -> Containers \cup {Nil}]
    BY <1>0, CompanyFacts
  <1>1. Frame(p)
    BY <1>0, <1>a, HandlerFrame
  <1>2. UNCHANGED <<daemonVars, row, mapping, queue, cleanup, born, acked>>
    BY DEF KillLookup, ExecLookup, ContainerFor
  <1>3. \A s : Untouched(r, s)
    BY <1>2, AfterNothing, Elsewhere
  <1>4. CASE m = Nil
    <2>1. target'[p] = Nil
      BY <1>a, <1>4 DEF KillLookup, ExecLookup, ContainerFor, Return
    <2>2. Fewer(r, t) /\ Steady(r, t)
      BY <1>0, <1>1, <1>3, <1>a, <2>1, DaemonAssumption, Bystander
    <2> QED BY <1>0, <1>1, <1>2, <1>3, <2>1, <2>2, GoesAlongSteadily
  <1>5. CASE m # Nil
    <2>1. target'[p] = t /\ cid'[p] = m /\ pc'[p] \in {"kill.unregister", "exec.run"}
      BY <1>a, <1>5 DEF KillLookup, ExecLookup, ContainerFor, Goto
    <2>2. Fewer(r, t) /\ Steady(r, t)
      BY <1>0, <1>1, <1>3, <1>a, <2>1, Bystander
    <2>3. ContainersOf(t) = {m}
      BY <1>0, <1>5, Company, Mapped DEF Has
    <2>4. Working(p, r, t)' /\ pc'[p] \notin Lone
      BY <1>3, <2>1, <2>3, SharedLabels DEF Working, Untouched
    <2> QED BY <1>0, <1>1, <1>2, <1>3, <2>1, <2>2, <2>4, GoesAlongSteadily
  <1> QED BY <1>4, <1>5

\* A pause that finds the container must have it to itself from here on.
LEMMA TurnPauseLookup ==
  ASSUME NEW r, OneReplica(r), Orderly(r), TakingTurns', NEW p \in Procs, PauseLookup(p)
  PROVE  OnSteadily(p, r, target[p])
  <1>0. pc[p] \notin Resting /\ pc[p] \notin Lone /\ pc[p] = "pause.lookup" /\ Handler(p)
    BY SharedLabels DEF PauseLookup, Handler, Pause
  <1> PICK t, m : t \in Sandboxes /\ t = target[p] /\ m = mapping[r][t]
    BY <1>0, CompanyFacts
  <1>a. /\ JobInv /\ Home(p) = r /\ r \in Procs /\ pc \in [Procs -> RequestPC \cup BootPC \cup ReaperPC]
        /\ target \in [Procs -> Sandboxes \cup {Nil}] /\ cid \in [Procs -> Containers \cup {Nil}]
    BY <1>0, CompanyFacts
  <1>1. Frame(p)
    BY <1>0, <1>a, HandlerFrame
  <1>2. UNCHANGED <<daemonVars, row, mapping, queue, cleanup, born, acked>>
    BY DEF PauseLookup, ContainerFor
  <1>3. \A s : Untouched(r, s)
    BY <1>2, AfterNothing, Elsewhere
  <1>4. CASE m = Nil
    <2>1. target'[p] = Nil
      BY <1>a, <1>4 DEF PauseLookup, ContainerFor, Return
    <2>2. Fewer(r, t) /\ Steady(r, t)
      BY <1>0, <1>1, <1>3, <1>a, <2>1, DaemonAssumption, Bystander
    <2> QED BY <1>0, <1>1, <1>2, <1>3, <2>1, <2>2, GoesAlongSteadily
  <1>5. CASE m # Nil
    <2>1. target'[p] = t /\ cid'[p] = m /\ pc'[p] = "pause.commit"
      BY <1>a, <1>5 DEF PauseLookup, ContainerFor, Goto
    <2>2. m \in Containers /\ Runs(t) /\ Has(r, t, {m}, m, {}) /\ Stores(t, m) /\ Given(m, t)
      <3>1. PICK c \in Containers : Runs(t) /\ Has(r, t, {c}, c, {}) /\ Stores(t, c)
        BY <1>0, <1>5, Company, Mapped
      <3>2. c = m
        BY <3>1 DEF Has
      <3> QED BY <3>1, <3>2, GivenNow DEF Has
    <2>3. Runs(t)' /\ Has(r, t, {m}, m, {})' /\ Stores(t, m)'
      BY <1>3, <2>2, HasKept
    <2>4. AtWork(pc[p], cid[p], img[p], r, t)'
      BY <2>1, <2>3 DEF AtWork
    <2>5. SandboxOK(r, t)'
      BY <2>1, <2>4, TakesItsTurn DEF Moving
    <2>6. Fewer(r, t) /\ Steady(r, t)
      BY <1>0, <1>1, <1>3, <1>a, <2>1, Bystander
    <2> QED BY <1>0, <1>1, <1>2, <1>3, <2>1, <2>5, <2>6, Company DEF On, OnSteadily
  <1> QED BY <1>4, <1>5

LEMMA TurnUnregister ==
  ASSUME NEW r, OneReplica(r), Orderly(r), NEW p \in Procs, KillUnregister(p)
  PROVE  OnSteadily(p, r, target[p])
  <1>0. pc[p] \notin Resting /\ pc[p] \notin Lone /\ pc[p] = "kill.unregister" /\ Handler(p)
    BY SharedLabels DEF KillUnregister, Handler, Kill
  <1> PICK t, c : t \in Sandboxes /\ t = target[p] /\ c = cid[p]
    BY <1>0, CompanyFacts
  <1>a. /\ JobInv /\ TypeInv /\ r \in Procs /\ Working(p, r, t)
        /\ pc \in [Procs -> RequestPC \cup BootPC \cup ReaperPC]
    BY <1>0, CompanyFacts
  <1>b. c \in Containers
    BY <1>0, <1>a, AtCall DEF HasContainer
  <1>1. Frame(p) /\ target' = target /\ cid' = cid /\ pc'[p] = "kill.stop"
    BY <1>0, <1>a, HandlerFrame DEF KillUnregister, Goto, jobVars
  <1>2. SetMapping(p, Nil) /\ UNCHANGED <<daemonVars, row, queue, cleanup, born, acked>>
    BY DEF KillUnregister
  <1>3. mapping'[r][t] = Nil /\ \A s \in Sandboxes \ {t} : mapping'[r][s] = mapping[r][s]
    BY <1>a, <1>2, MappingSet
  <1>4. \A s : SameDaemon(s)
    BY <1>2, AfterNothing
  <1>5. \A s \in Sandboxes \ {t} : Untouched(r, s)
    BY <1>2, <1>3, <1>4, Elsewhere
  <1>6. \A x, m, y : Has(r, t, x, m, y) => Has(r, t, x, Nil, y)'
    BY <1>2, <1>3, <1>4 DEF Has, SameDaemon
  <1>7. Fewer(r, t)
    BY <1>2, <1>3, <1>4 DEF Fewer, SameDaemon
  <1>8. Steady(r, t)
    <2>1. Gone(r, t) => Gone(r, t)'
      BY <1>2, <1>6 DEF Gone
    <2>2. ASSUME NEW d \in Containers, RunningWith(r, t, d) PROVE RunningWith(r, t, d)'
      <3>1. d = c /\ \A q \in Procs : target'[q] = t => cid'[q] \in {d, Nil}
        BY <1>1, <1>b, <2>2, DaemonAssumption DEF RunningWith
      <3>2. CASE Has(r, t, {d}, d, {})
        BY <1>1, <1>6, <3>1, <3>2 DEF RunningWith
      <3>3. CASE /\ Has(r, t, {d}, Nil, {})
                 /\ \E q \in Procs : target[q] = t /\ cid[q] = d /\ pc[q] \in {"kill.stop", "kill.remove"}
        BY <1>1, <1>6, <3>1, <3>3 DEF RunningWith
      <3>4. ASSUME Has(r, t, {}, Nil, {}), NEW q \in Procs, target[q] = t, cid[q] = d, pc[q] = "row.delete"
            PROVE  RunningWith(r, t, d)'
        <4>1. pc'[q] = "row.delete" /\ target'[q] = t /\ cid'[q] = d
          BY <1>0, <1>1, <3>4 DEF Frame
        <4> QED BY <1>6, <3>1, <3>4, <4>1 DEF RunningWith
      <3> QED BY <2>2, <3>2, <3>3, <3>4 DEF RunningWith
    <2>3. ASSUME NEW i \in Images, PausedWith(r, t, i) PROVE PausedWith(r, t, i)'
      <3>1. pc[r] = "row.delete" => pc'[r] = "row.delete"
        BY <1>0, <1>1, <1>a DEF Frame
      <3>2. Stores(t, i) => Stores(t, i)'
        BY <1>2 DEF Stores, daemonVars
      <3> QED BY <1>1, <1>6, <2>3, <3>1, <3>2 DEF PausedWith
    <2> QED BY <2>1, <2>2, <2>3 DEF Steady
  <1>9. Working(p, r, t)' /\ pc'[p] \notin Lone
    BY <1>0, <1>1, <1>3, <1>4, <1>a, SharedLabels DEF Working, SameDaemon
  <1> QED BY <1>0, <1>1, <1>2, <1>5, <1>7, <1>8, <1>9, GoesAlongSteadily

LEMMA TurnStop ==
  ASSUME NEW r, OneReplica(r), Orderly(r), NEW p \in Procs, KillStop(p)
  PROVE  OnSteadily(p, r, target[p])
  <1>0. pc[p] \notin Resting /\ pc[p] \notin Lone /\ pc[p] = "kill.stop" /\ Handler(p)
    BY SharedLabels DEF KillStop, Handler, Kill
  <1> PICK t, c : t \in Sandboxes /\ t = target[p] /\ c = cid[p]
    BY <1>0, CompanyFacts
  <1>a. /\ JobInv /\ DaemonTypeOK /\ r \in Procs /\ Working(p, r, t)
        /\ pc \in [Procs -> RequestPC \cup BootPC \cup ReaperPC]
        /\ target \in [Procs -> Sandboxes \cup {Nil}] /\ cid \in [Procs -> Containers \cup {Nil}]
        /\ ~Fault("docker")
    BY <1>0, CompanyFacts
  <1>1. Frame(p)
    BY <1>0, <1>a, HandlerFrame
  <1>2. UNCHANGED <<row, mapping, queue, cleanup, born, acked>>
    BY DEF KillStop, DockerCall
  <1>3. CASE Exists(c)
    <2>1. ContainerStop(c) /\ Goto(p, "kill.remove") /\ UNCHANGED jobVars
      BY <1>3, <1>a DEF KillStop, DockerCall
    <2>2. \A s : SameDaemon(s)
      BY <1>3, <1>a, <2>1, AfterStartStop
    <2>3. \A s : Untouched(r, s)
      BY <1>2, <2>2, Elsewhere
    <2>4. target'[p] = t /\ cid'[p] = c /\ pc'[p] = "kill.remove"
      BY <1>a, <2>1 DEF Goto, jobVars
    <2>5. Fewer(r, t) /\ Steady(r, t)
      BY <1>0, <1>1, <1>a, <2>3, <2>4, Bystander
    <2>6. Working(p, r, t)' /\ pc'[p] \notin Lone
      BY <1>0, <1>a, <2>3, <2>4, SharedLabels DEF Working, Untouched
    <2> QED BY <1>0, <1>1, <1>2, <2>3, <2>4, <2>5, <2>6, GoesAlongSteadily
  <1>4. CASE ~Exists(c)
    <2>1. Unchanged /\ target'[p] = Nil
      BY <1>4, <1>a DEF KillStop, DockerCall, Return
    <2>2. \A s : Untouched(r, s)
      BY <1>2, <2>1, AfterNothing, Elsewhere DEF Unchanged
    <2>3. Fewer(r, t) /\ Steady(r, t)
      BY <1>0, <1>1, <1>4, <1>a, <2>1, <2>2, DaemonAssumption, Bystander
    <2> QED BY <1>0, <1>1, <1>2, <2>1, <2>2, <2>3, GoesAlongSteadily
  <1> QED BY <1>3, <1>4

LEMMA TurnRemove ==
  ASSUME NEW r, OneReplica(r), Orderly(r), NEW p \in Procs, KillRemove(p)
  PROVE  OnSteadily(p, r, target[p])
  <1>0. pc[p] \notin Resting /\ pc[p] \notin Lone /\ pc[p] = "kill.remove" /\ Handler(p)
    BY SharedLabels DEF KillRemove, Handler, Kill
  <1> PICK t, c : t \in Sandboxes /\ t = target[p] /\ c = cid[p]
    BY <1>0, CompanyFacts
  <1>a. /\ JobInv /\ DaemonTypeOK /\ TypeInv /\ OwnerInv /\ r \in Procs /\ Working(p, r, t)
        /\ pc \in [Procs -> RequestPC \cup BootPC \cup ReaperPC]
        /\ target \in [Procs -> Sandboxes \cup {Nil}] /\ cid \in [Procs -> Containers \cup {Nil}]
        /\ ~Fault("docker")
    BY <1>0, CompanyFacts
  <1>1. Frame(p)
    BY <1>0, <1>a, HandlerFrame
  <1>2. UNCHANGED <<row, mapping, queue, cleanup, born, acked>>
    BY DEF KillRemove, DockerCall
  <1>3. CASE Exists(c)
    <2>1. ContainerRemove(c) /\ Goto(p, "row.delete") /\ UNCHANGED jobVars
      BY <1>3, <1>a DEF KillRemove, DockerCall
    <2>2. c \in ContainersOf(t) /\ ContainersOf(t) = {c} /\ mapping[r][t] = Nil
      BY <1>0, <1>3, <1>a, HeldExists DEF Working
    <2>3. /\ \A s \in Sandboxes \ {t} : SameDaemon(s)
          /\ ContainersOf(t)' = {}
          /\ ImagesOf(t)' = ImagesOf(t)
          /\ disk' = disk
      BY <1>a, <2>1, <2>2, AfterRemove
    <2>4. \A s \in Sandboxes \ {t} : Untouched(r, s)
      BY <1>2, <2>3, Elsewhere
    <2>5. target' = target /\ cid' = cid /\ pc'[p] = "row.delete"
      BY <1>a, <2>1 DEF Goto, jobVars
    <2>6. Runs(t) /\ ImagesOf(t) \ cleanup[r] = {} /\ ~Gone(r, t) /\ \A i : ~PausedWith(r, t, i)
      <3>1. ~Gone(r, t) /\ \A i : ~PausedWith(r, t, i)
        BY <2>2 DEF Gone, PausedWith, Has
      <3>2. PICK d : Runs(t) /\ RunningWith(r, t, d)
        BY <1>0, <3>1, Company DEF Shared
      <3> QED BY <3>1, <3>2 DEF RunningWith, Has
    <2>7. Has(r, t, {}, Nil, {})'
      BY <1>2, <2>2, <2>3, <2>6 DEF Has
    <2>8. Fewer(r, t)
      BY <1>2, <2>3 DEF Fewer
    <2>9. ASSUME NEW d \in Containers, RunningWith(r, t, d) PROVE RunningWith(r, t, d)'
      <3>1. d = c
        BY <2>2, <2>9 DEF RunningWith, Has
      <3>2. \A q \in Procs : target'[q] = t => cid'[q] \in {d, Nil}
        BY <2>5, <2>9 DEF RunningWith
      <3> QED BY <2>5, <2>7, <3>1, <3>2 DEF RunningWith
    <2>10. Steady(r, t)
      BY <2>6, <2>9 DEF Steady
    <2>11. Working(p, r, t)' /\ pc'[p] \notin Lone
      <3>1. row'[t].status # "paused"
        BY <1>2, <2>6 DEF Runs
      <3> QED BY <2>5, <2>7, <3>1, SharedLabels DEF Working
    <2> QED BY <1>0, <1>1, <1>2, <2>4, <2>5, <2>8, <2>10, <2>11, GoesAlongSteadily
  <1>4. CASE ~Exists(c)
    <2>1. Unchanged /\ target'[p] = Nil
      BY <1>4, <1>a DEF KillRemove, DockerCall, Return
    <2>2. \A s : Untouched(r, s)
      BY <1>2, <2>1, AfterNothing, Elsewhere DEF Unchanged
    <2>3. Fewer(r, t) /\ Steady(r, t)
      BY <1>0, <1>1, <1>4, <1>a, <2>1, <2>2, DaemonAssumption, Bystander
    <2> QED BY <1>0, <1>1, <1>2, <2>1, <2>2, <2>3, GoesAlongSteadily
  <1> QED BY <1>3, <1>4

\* Whoever deletes the record leaves nothing behind, and the reaper is the
\* only one that deletes that of a paused sandbox.
LEMMA TurnDelete ==
  ASSUME NEW r, OneReplica(r), Orderly(r), NEW p \in Procs, DeleteRow(p)
  PROVE  On(p, r, target[p])
  <1>0. pc[p] \notin Resting /\ pc[p] \notin Lone /\ pc[p] = "row.delete" /\ Handler(p)
    BY SharedLabels DEF DeleteRow, Handler, Kill
  <1> PICK t : t \in Sandboxes /\ t = target[p]
    BY <1>0, CompanyFacts
  <1>a. /\ JobInv /\ r \in Procs /\ Working(p, r, t) /\ row \in [Sandboxes -> Row]
        /\ pc \in [Procs -> RequestPC \cup BootPC \cup ReaperPC]
        /\ target \in [Procs -> Sandboxes \cup {Nil}]
        /\ ~Fault("db")
    BY <1>0, CompanyFacts
  <1>1. Frame(p)
    BY <1>0, <1>a, HandlerFrame
  <1>2. /\ row' = [row EXCEPT ![t] = NoRow] /\ target'[p] = Nil
        /\ UNCHANGED <<daemonVars, mapping, queue, cleanup, born, acked>>
    BY <1>a DEF DeleteRow, RowCall, Return
  <1>3. \A s : SameDaemon(s)
    BY <1>2, AfterNothing
  <1>4. \A s \in Sandboxes \ {t} : Untouched(r, s)
    BY <1>2, <1>3, <1>a, Elsewhere
  <1>5. Has(r, t, {}, Nil, {}) /\ (row[t].status = "paused" => p = r)
    BY <1>0, <1>a DEF Working
  <1>6. Has(r, t, {}, Nil, {})' /\ row'[t] = NoRow
    BY <1>2, <1>3, <1>5, <1>a DEF Has, SameDaemon
  <1>7. Shared(r, t)'
    BY <1>6 DEF Shared, Gone
  <1>8. ASSUME NEW q \in Procs \ {p}, target[q] = t PROVE Working(q, r, t)'
    <2>1. pc'[q] = pc[q] /\ Working(q, r, t)
      BY <1>0, <1>1, <1>8, Company DEF Frame
    <2>2. pc[q] # "reap.image"
      <3>1. SUFFICES ASSUME pc[q] = "reap.image" PROVE FALSE
        OBVIOUS
      <3>2. q = r
        BY <1>a, <3>1, ReplicaFacts DEF JobInv, JobTypeOK, RequestPC
      <3> QED BY <1>5, <1>8, <2>1, <3>1, <3>2 DEF Working, PausedAt
    <2> QED BY <1>6, <2>1, <2>2, Records DEF Working, Has
  <1> QED BY <1>0, <1>1, <1>2, <1>4, <1>7, <1>8, GoesAlong

LEMMA TurnExec ==
  ASSUME NEW r, OneReplica(r), Orderly(r), NEW p \in Procs, ExecRun(p)
  PROVE  OnSteadily(p, r, target[p])
  <1>0. pc[p] \notin Resting /\ pc[p] \notin Lone /\ pc[p] = "exec.run" /\ Handler(p)
    BY SharedLabels DEF ExecRun, Handler, Exec
  <1> PICK t, c : t \in Sandboxes /\ t = target[p] /\ c = cid[p]
    BY <1>0, CompanyFacts
  <1>a. /\ JobInv /\ DaemonTypeOK /\ TypeInv /\ OwnerInv /\ r \in Procs /\ Working(p, r, t)
        /\ pc \in [Procs -> RequestPC \cup BootPC \cup ReaperPC]
        /\ target \in [Procs -> Sandboxes \cup {Nil}] /\ cid \in [Procs -> Containers \cup {Nil}]
        /\ acked \in [Sandboxes -> SUBSET Writes] /\ ~Fault("docker")
    BY <1>0, CompanyFacts, Facts
  <1>1. Frame(p) /\ target'[p] = Nil
    BY <1>0, <1>a, HandlerFrame DEF ExecRun, Return
  <1>2. UNCHANGED <<row, mapping, queue, cleanup, born>>
    BY DEF ExecRun
  <1>3. CASE Exists(c)
    <2>1. PICK new : ContainerWrite(c, new) /\ acked' = [acked EXCEPT ![t] = @ \cup new]
      BY <1>3, <1>a DEF ExecRun
    <2>2. c \in ContainersOf(t) /\ ContainersOf(t) = {c} /\ c \in Containers
      BY <1>0, <1>3, <1>a, HeldExists DEF Working, ContainersOf
    <2>3. /\ \A s \in Sandboxes \ {t} : SameDaemon(s)
          /\ ContainersOf(t)' = ContainersOf(t)
          /\ ImagesOf(t)' = ImagesOf(t)
          /\ disk' = [disk EXCEPT ![c] = @ \cup new]
      BY <1>a, <2>1, <2>2, AfterWrite
    <2>4. \A s \in Sandboxes \ {t} : Untouched(r, s)
      BY <1>2, <1>a, <2>1, <2>3, Elsewhere
    <2>5. disk'[c] = disk[c] \cup new /\ acked'[t] = acked[t] \cup new
      BY <1>a, <2>1, <2>2, <2>3 DEF DaemonTypeOK
    <2>6. \A x, m, y : Has(r, t, x, m, y) => Has(r, t, x, m, y)'
      BY <1>2, <2>3 DEF Has
    <2>7. Fewer(r, t)
      BY <1>2, <2>3 DEF Fewer
    <2>8. ~Gone(r, t) /\ \A i : ~PausedWith(r, t, i)
      BY <2>2 DEF Gone, PausedWith, Has
    <2>9. ASSUME NEW d \in Containers, RunningWith(r, t, d) PROVE RunningWith(r, t, d)'
      <3>1. d = c
        BY <2>2, <2>9 DEF RunningWith, Has
      <3>2. \A q \in Procs : target'[q] = t => cid'[q] \in {d, Nil}
        BY <1>1, <2>9, DaemonAssumption DEF RunningWith, Frame
      <3>3. CASE Has(r, t, {d}, d, {}) /\ Stores(t, d)
        <4>1. Has(r, t, {d}, d, {})' /\ Stores(t, d)'
          BY <2>5, <2>6, <3>1, <3>3 DEF Stores
        <4> QED BY <3>2, <4>1 DEF RunningWith
      <3>4. ASSUME Has(r, t, {d}, Nil, {}), NEW q \in Procs, target[q] = t, cid[q] = d,
                   pc[q] \in {"kill.stop", "kill.remove"}
            PROVE  RunningWith(r, t, d)'
        <4>1. target'[q] = t /\ cid'[q] = d /\ pc'[q] \in {"kill.stop", "kill.remove"}
          BY <1>0, <1>1, <3>4 DEF Frame
        <4> QED BY <2>6, <3>2, <3>4, <4>1 DEF RunningWith
      <3>5. ~Has(r, t, {}, Nil, {})
        BY <2>2 DEF Has
      <3> QED BY <2>9, <3>3, <3>4, <3>5 DEF RunningWith
    <2>10. Steady(r, t)
      BY <2>8, <2>9 DEF Steady
    <2> QED BY <1>0, <1>1, <1>2, <2>4, <2>7, <2>10, GoesAlongSteadily
  <1>4. CASE ~Exists(c)
    <2>1. Unchanged /\ UNCHANGED acked
      BY <1>4, <1>a DEF ExecRun
    <2>2. \A s : Untouched(r, s)
      BY <1>2, <2>1, AfterNothing, Elsewhere DEF Unchanged
    <2>3. Fewer(r, t) /\ Steady(r, t)
      BY <1>0, <1>1, <1>a, <2>2, DaemonAssumption, Bystander
    <2> QED BY <1>0, <1>1, <1>2, <2>2, <2>3, GoesAlongSteadily
  <1> QED BY <1>3, <1>4

LEMMA TurnImage ==
  ASSUME NEW r, OneReplica(r), Orderly(r), ReapImage(r)
  PROVE  On(r, r, target[r])
  <1>0. r \in Procs /\ r \in Replicas /\ pc[r] \notin Resting /\ pc[r] \notin Lone /\ pc[r] = "reap.image"
    BY SharedLabels, ReplicaFacts DEF ReapImage
  <1> PICK t, i : t \in Sandboxes /\ t = target[r] /\ i = img[r]
    BY <1>0, CompanyFacts
  <1>a. /\ JobInv /\ DaemonTypeOK /\ TypeInv /\ OwnerInv /\ Working(r, r, t)
        /\ pc \in [Procs -> RequestPC \cup BootPC \cup ReaperPC]
        /\ target \in [Procs -> Sandboxes \cup {Nil}] /\ ~Fault("docker")
    BY <1>0, CompanyFacts
  <1>b. i \in Images /\ madeFor[i] = t
    BY <1>0, <1>a, AtCall, HeldIsGiven DEF JobOK, Given
  <1>1. Frame(r)
    BY <1>0, <1>a, BackgroundFrame DEF Background, Reap
  <1>2. UNCHANGED <<row, mapping, queue, cleanup, born, acked>>
    BY DEF ReapImage, DockerCall
  <1>3. CASE image[i] = "present"
    <2>1. ImageRemove(i) /\ Goto(r, "row.delete") /\ UNCHANGED jobVars
      BY <1>3, <1>a DEF ReapImage, DockerCall
    <2>2. /\ \A s \in Sandboxes \ {t} : SameDaemon(s)
          /\ ContainersOf(t)' = ContainersOf(t) /\ ImagesOf(t)' = ImagesOf(t) \ {i}
      BY <1>a, <1>b, <2>1, AfterImageRemove
    <2>3. \A s \in Sandboxes \ {t} : Untouched(r, s)
      BY <1>2, <2>2, Elsewhere
    <2>4. target'[r] = t /\ pc'[r] = "row.delete"
      BY <1>0, <1>a, <2>1 DEF Goto, jobVars
    <2>5. PausedAt(t, i)
      BY <1>0, <1>a DEF Working
    <2>6. Has(r, t, {}, Nil, {i})
      <3>1. ~Gone(r, t) /\ ~Runs(t)
        BY <2>5, Records DEF Gone, Runs, PausedAt
      <3>2. PausedWith(r, t, i)
        BY <1>0, <2>5, <3>1, Company DEF Shared, PausedAt
      <3> QED BY <1>0, <3>2 DEF PausedWith
    <2>7. Has(r, t, {}, Nil, {})' /\ PausedAt(t, i)'
      BY <1>2, <2>2, <2>5, <2>6 DEF Has, PausedAt
    <2>8. Shared(r, t)'
      BY <1>b, <2>4, <2>7 DEF Shared, PausedWith
    <2>9. Fewer(r, t)
      BY <1>2, <2>2 DEF Fewer
    <2>10. \A q \in Procs \ {r} : target[q] = t => Working(q, r, t)'
      BY <1>0, <1>1, <2>9, Company, FewerWorks
    <2>11. Working(r, r, t)' /\ pc'[r] \notin Lone
      BY <2>4, <2>7, SharedLabels DEF Working
    <2> QED BY <1>0, <1>1, <1>2, <2>3, <2>4, <2>8, <2>10, <2>11, GoesAlong
  <1>4. CASE image[i] # "present"
    <2>1. Unchanged /\ target'[r] = Nil
      BY <1>0, <1>4, <1>a DEF ReapImage, DockerCall, Return
    <2>2. \A s : Untouched(r, s)
      BY <1>2, <2>1, AfterNothing, Elsewhere DEF Unchanged
    <2>3. Fewer(r, t) /\ Steady(r, t)
      BY <1>0, <1>1, <1>a, <2>1, <2>2, DaemonAssumption, Bystander
    <2> QED BY <1>0, <1>1, <1>2, <2>1, <2>2, <2>3, GoesAlongSteadily DEF OnSteadily
  <1> QED BY <1>3, <1>4

-----------------------------------------------------------------------------
(* A process that was at rest takes up a sandbox. *)

LEMMA AtRestFacts ==
  ASSUME NEW r, OneReplica(r), Orderly(r), NEW p \in Procs, pc[p] \in Resting
  PROVE  /\ target[p] = Nil /\ cid[p] = Nil /\ img[p] = Nil
         /\ JobInv /\ TypeInv /\ warm = {} /\ r \in Replicas /\ r \in Procs
         /\ pc \in [Procs -> RequestPC \cup BootPC \cup ReaperPC]
         /\ target \in [Procs -> Sandboxes \cup {Nil}]
         /\ cid \in [Procs -> Containers \cup {Nil}] /\ img \in [Procs -> Images \cup {Nil}]
         /\ row \in [Sandboxes -> Row] /\ queue \in [Replicas -> [Sandboxes -> Row]]
         /\ PauseRecorded /\ SnapshotRecorded /\ born \subseteq Sandboxes
  BY Facts, ReplicaFacts DEF Orderly, JobInv, JobsOK, JobOK

\* It may find others there, but none that works alone.
LEMMA JoinsIn ==
  ASSUME NEW r, OneReplica(r), Orderly(r), TakingTurns', NEW p \in Procs, pc[p] \in Resting,
         Frame(p), UNCHANGED born, \A s \in Sandboxes : Untouched(r, s),
         NEW t \in Sandboxes, ~New(r, t), target'[p] = t, cid'[p] = Nil,
         pc'[p] \notin Lone, Working(p, r, t)'
  PROVE  OnSteadily(p, r, t)
  <1>1. target[p] = Nil /\ r \in Procs /\ t # Nil
    BY AtRestFacts, DaemonAssumption
  <1>2. SandboxOK(r, t) /\ t \in born
    BY DEF Orderly, TurnsInv, Unborn
  <1>3. \A l \in Lone : l \notin Resting /\ (l \in Moving \/ l \in Creating)
    BY DEF Lone, Creating, Moving, Pausing, Resuming, Resting
  <1>4. Crowd(t)
    <2>1. SUFFICES ASSUME NEW q \in Procs, target[q] = t, pc[q] \in Lone PROVE FALSE
      BY DEF Crowd
    <2>2. q # p /\ target'[q] = t /\ pc'[q] = pc[q]
      BY <1>3, <2>1 DEF Frame
    <2>3. pc[q] \notin Moving
      BY <2>1, <2>2 DEF TakingTurns
    <2>4. AtWork(pc[q], cid[q], img[q], r, t)
      BY <1>2, <2>1 DEF SandboxOK
    <2>5. New(r, t)
      BY <1>3, <2>1, <2>3, <2>4 DEF AtWork, Creating
    <2> QED BY <2>5
  <1>5. Fewer(r, t) /\ Steady(r, t)
    BY <1>1, Bystander
  <1>6. Shared(r, t)'
    BY <1>2, <1>4, <1>5, SteadyShared DEF SandboxOK
  <1>7. ASSUME NEW q \in Procs, target'[q] = t PROVE Working(q, r, t)' /\ pc'[q] \notin Lone
    <2>1. CASE q = p
      BY <2>1
    <2>2. CASE q # p
      <3>1. target[q] = t /\ pc'[q] = pc[q]
        BY <1>7, <2>2 DEF Frame
      <3>2. Working(q, r, t)
        BY <1>2, <3>1 DEF SandboxOK
      <3> QED BY <1>4, <1>5, <2>2, <3>1, <3>2, FewerWorks DEF Crowd
    <2> QED BY <2>1, <2>2
  <1>8. SandboxOK(r, t)'
    BY <1>6, <1>7 DEF SandboxOK
  <1> QED BY <1>1, <1>2, <1>4, <1>5, <1>8 DEF On, OnSteadily

LEMMA TurnGet ==
  ASSUME NEW r, OneReplica(r), Orderly(r), TakingTurns', NEW p \in Procs,
         DeleteGet(p) \/ ExecGet(p) \/ PauseGet(p)
  PROVE  \E t \in Sandboxes : OnSteadily(p, r, t)
  <1>0. pc[p] = "idle" /\ pc[p] \in Resting /\ Handler(p)
    BY DEF DeleteGet, ExecGet, PauseGet, Begin, Resting, Handler, Exec, Pause
  <1>a. /\ JobInv /\ cid[p] = Nil /\ pc \in [Procs -> RequestPC \cup BootPC \cup ReaperPC]
        /\ target \in [Procs -> Sandboxes \cup {Nil}]
    BY <1>0, AtRestFacts
  <1>1. PICK t \in Sandboxes :
            /\ row[t] # NoRow /\ target' = [target EXCEPT ![p] = t]
            /\ pc'[p] \in {"kill.lookup", "exec.lookup", "pause.lookup"}
    <2>1. CASE DeleteGet(p)
      BY <1>a, <2>1 DEF DeleteGet, Begin, Goto
    <2>2. CASE ExecGet(p)
      BY <1>a, <2>2, Records DEF ExecGet, Begin, Goto
    <2>3. CASE PauseGet(p)
      BY <1>a, <2>3, Records DEF PauseGet, Begin, Goto
    <2> QED BY <2>1, <2>2, <2>3
  <1>2. UNCHANGED <<daemonVars, row, mapping, cid, queue, cleanup, born, acked>>
    BY DEF DeleteGet, ExecGet, PauseGet
  <1>3. \A s : Untouched(r, s)
    BY <1>2, AfterNothing, Elsewhere
  <1>4. Frame(p)
    BY <1>0, <1>a, HandlerFrame
  <1>5. pc'[p] \notin Lone /\ Working(p, r, t)'
    BY <1>1, SharedLabels DEF Working
  <1>6. target'[p] = t /\ cid'[p] = Nil /\ ~New(r, t)
    BY <1>1, <1>2, <1>a DEF New
  <1> QED BY <1>0, <1>2, <1>3, <1>4, <1>5, <1>6, JoinsIn

LEMMA TurnCreateBegin ==
  ASSUME NEW r, OneReplica(r), Orderly(r), NEW p \in Procs, CreateBegin(p)
  PROVE  \E t \in Sandboxes : On(p, r, t)
  <1>0. pc[p] \in Resting /\ Handler(p)
    BY DEF CreateBegin, Begin, Resting, Handler, Create
  <1>a. /\ JobInv /\ target[p] = Nil /\ warm = {} /\ pc \in [Procs -> RequestPC \cup BootPC \cup ReaperPC]
        /\ target \in [Procs -> Sandboxes \cup {Nil}]
    BY <1>0, AtRestFacts
  <1>1. PICK t \in Sandboxes \ born :
            target' = [target EXCEPT ![p] = t] /\ born' = born \cup {t} /\ Goto(p, "create.container")
    BY <1>a DEF CreateBegin, Begin
  <1>2. UNCHANGED <<daemonVars, row, mapping, queue, cleanup, acked>>
    BY DEF CreateBegin
  <1>3. \A s : Untouched(r, s)
    BY <1>2, AfterNothing, Elsewhere
  <1>4. Frame(p) /\ target'[p] = t /\ pc'[p] = "create.container"
    BY <1>0, <1>1, <1>a, HandlerFrame DEF Goto
  <1>5. New(r, t) /\ (\A q \in Procs : target[q] # t) /\ SandboxOK(r, t)
    BY <1>1 DEF Orderly, TurnsInv, Unborn
  <1>6. Has(r, t, {}, Nil, {})
    <2>1. Shared(r, t)
      BY <1>5 DEF SandboxOK, Crowd
    <2> QED BY <1>5, <2>1, Records DEF Shared, Gone, New, Runs, PausedAt
  <1>7. New(r, t)' /\ Has(r, t, {}, Nil, {})'
    BY <1>3, <1>5, <1>6, HasKept
  <1>8. AtWork(pc[p], cid[p], img[p], r, t)'
    BY <1>4, <1>7 DEF AtWork
  <1>9. \A q \in Procs : target'[q] = t => q = p
    BY <1>4, <1>5 DEF Frame
  <1>10. SandboxOK(r, t)'
    <2>1. Working(p, r, t)' /\ pc'[p] \in Lone
      BY <1>4, LoneLabels DEF Working
    <2> QED BY <1>8, <1>9, <2>1, <1>4 DEF SandboxOK, Crowd
  <1> QED BY <1>1, <1>3, <1>4, <1>10, <1>a DEF On

LEMMA TurnResumeGet ==
  ASSUME NEW r, OneReplica(r), Orderly(r), TakingTurns', NEW p \in Procs, ResumeGet(p)
  PROVE  \E t \in Sandboxes : On(p, r, t)
  <1>0. pc[p] \in Resting /\ Handler(p) /\ p \in Requests
    BY DEF ResumeGet, Begin, Resting, Handler, Resume
  <1>a. /\ JobInv /\ target[p] = Nil /\ pc \in [Procs -> RequestPC \cup BootPC \cup ReaperPC] /\ r \in Procs
        /\ target \in [Procs -> Sandboxes \cup {Nil}] /\ img \in [Procs -> Images \cup {Nil}]
    BY <1>0, AtRestFacts
  <1>1. PICK t \in Sandboxes : /\ row[t].status = "paused" /\ target' = [target EXCEPT ![p] = t]
                               /\ img' = [img EXCEPT ![p] = row[t].image] /\ Goto(p, "resume.container")
    BY DEF ResumeGet, Begin
  <1>2. UNCHANGED <<daemonVars, row, mapping, queue, cleanup, born, acked>>
    BY DEF ResumeGet
  <1>3. \A s : Untouched(r, s)
    BY <1>2, AfterNothing, Elsewhere
  <1>4. Frame(p) /\ target'[p] = t /\ pc'[p] = "resume.container" /\ img'[p] = row[t].image
    BY <1>0, <1>1, <1>a, HandlerFrame DEF Goto
  <1>5. pc'[p] \in Moving
    BY <1>4 DEF Moving, Resuming
  <1>6. \A q \in Procs : target[q] # t
    BY <1>1, <1>4, <1>5, <1>a, DaemonAssumption DEF TakingTurns, Frame
  <1>7. SandboxOK(r, t) /\ t \in born
    BY <1>1, Records DEF Orderly, TurnsInv, Unborn, New
  <1>8. Shared(r, t)
    BY <1>6, <1>7 DEF SandboxOK, Crowd
  <1>9. PICK i \in Images : PausedAt(t, i) /\ Has(r, t, {}, Nil, {i}) /\ Stores(t, i)
    <2>1. ~Gone(r, t) /\ ~Runs(t)
      BY <1>1, Records DEF Gone, Runs
    <2>2. PICK i \in Images : PausedAt(t, i) /\ PausedWith(r, t, i)
      BY <1>8, <2>1 DEF Shared
    <2>3. target[r] # t
      BY <1>6, <1>a
    <2> QED BY <2>2, <2>3 DEF PausedWith
  <1>10. Given(i, t)
    BY <1>9, GivenNow DEF Has
  <1>11. PausedAt(t, i)' /\ Has(r, t, {}, Nil, {i})' /\ Stores(t, i)' /\ img'[p] = i
    <2>1. PausedAt(t, i)' /\ Has(r, t, {}, Nil, {i})' /\ Stores(t, i)'
      BY <1>3, <1>9, <1>10, HasKept
    <2>2. img'[p] = i
      BY <1>4, <1>9 DEF PausedAt
    <2> QED BY <2>1, <2>2
  <1>12. AtWork(pc[p], cid[p], img[p], r, t)'
    BY <1>4, <1>11 DEF AtWork
  <1>13. SandboxOK(r, t)'
    BY <1>4, <1>5, <1>12, TakesItsTurn
  <1> QED BY <1>2, <1>3, <1>4, <1>7, <1>13, <1>a DEF On

\* The reaper takes up the next of the rows it has listed.
LEMMA TurnReap ==
  ASSUME NEW r, OneReplica(r), Orderly(r), TakingTurns', ReapNext(r),
         ~(\A s \in Sandboxes : queue[r][s] = NoRow)
  PROVE  \E t \in Sandboxes : OnSteadily(r, r, t)
  <1>0. pc[r] = "reap.next" /\ pc[r] \in Resting /\ r \in Procs
    BY ReplicaFacts DEF ReapNext, Resting
  <1>a. /\ JobInv /\ cid[r] = Nil /\ r \in Replicas /\ SnapshotRecorded
        /\ pc \in [Procs -> RequestPC \cup BootPC \cup ReaperPC]
        /\ target \in [Procs -> Sandboxes \cup {Nil}] /\ img \in [Procs -> Images \cup {Nil}]
        /\ queue \in [Replicas -> [Sandboxes -> Row]]
    BY <1>0, AtRestFacts
  <1>1. PICK t \in Sandboxes :
            /\ queue[r][t] # NoRow
            /\ queue' = [queue EXCEPT ![r][t] = NoRow]
            /\ target' = [target EXCEPT ![r] = t]
            /\ img' = [img EXCEPT ![r] = queue[r][t].image]
            /\ Goto(r, IF queue[r][t].status = "running" THEN "kill.lookup"
                       ELSE IF queue[r][t].image = Nil THEN "row.delete" ELSE "reap.image")
    BY DEF ReapNext
  <1>2. UNCHANGED <<daemonVars, row, mapping, cid, cleanup, born, acked>>
    BY DEF ReapNext
  <1>3. ASSUME NEW s \in Sandboxes PROVE Untouched(r, s)
    <2>1. SameDaemon(s)
      BY <1>2, AfterNothing
    <2>2. queue'[r][s] \in {queue[r][s], NoRow}
      BY <1>1, <1>a
    <2> QED BY <1>2, <2>1, <2>2 DEF Untouched, SameDaemon
  <1>4. Frame(r)
    BY <1>0, <1>a, BackgroundFrame DEF Background, Reap
  <1>5. target'[r] = t /\ cid'[r] = Nil /\ img'[r] = queue[r][t].image /\ ~New(r, t)
    BY <1>0, <1>1, <1>2, <1>a DEF New
  <1>6. pc'[r] = "kill.lookup" \/ (pc'[r] = "reap.image" /\ queue[r][t].status = "paused")
    <2>1. queue[r][t].status \in {"running", "paused"}
      BY <1>1, <1>a, Records
    <2>2. queue[r][t].status = "paused" => queue[r][t].image # Nil
      BY <1>a DEF SnapshotRecorded
    <2> QED BY <1>0, <1>1, <1>a, <2>1, <2>2 DEF Goto
  <1>7. pc'[r] \notin Lone /\ Working(r, r, t)'
    <2>1. pc'[r] = "reap.image" => PausedAt(t, queue[r][t].image)
      BY <1>6 DEF Orderly, TurnsInv, ThreadOK
    <2>2. pc'[r] = "reap.image" => PausedAt(t, img[r])'
      BY <1>2, <1>5, <2>1 DEF PausedAt
    <2> QED BY <1>6, <2>2, SharedLabels DEF Working
  <1> QED BY <1>0, <1>2, <1>3, <1>4, <1>5, <1>7, JoinsIn

-----------------------------------------------------------------------------
(* The steps that work on no sandbox. *)

Aside(r) ==
    /\ \A s \in Sandboxes : Untouched(r, s) /\ SameJobs(s)
    /\ UNCHANGED born

LEMMA AsideKeeps ==
  ASSUME NEW r, OneReplica(r), Orderly(r), ThreadOK(r)', Aside(r)
  PROVE  TurnsInv(r)'
  <1>1. \A s \in Sandboxes : SandboxOK(r, s)'
    BY AsideKept DEF Orderly, TurnsInv, Aside
  <1>2. ASSUME NEW s \in Sandboxes, s \notin born' PROVE New(r, s)' /\ \A q \in Procs : target'[q] # s
    <2>1. New(r, s) /\ \A q \in Procs : target[q] # s
      BY <1>2 DEF Orderly, TurnsInv, Unborn, Aside
    <2> QED BY <2>1, HasKept DEF Aside, SameJobs
  <1> QED BY <1>1, <1>2 DEF TurnsInv, Unborn

\* A step of the thread between two sandboxes.
LEMMA ThreadAside ==
  ASSUME NEW r, OneReplica(r), Orderly(r), NEW p \in Procs, Frame(p), target[p] = Nil, target'[p] = Nil,
         UNCHANGED <<daemonVars, row, mapping, cleanup, born, acked>>,
         \A s \in Sandboxes : queue'[r][s] \in {queue[r][s], NoRow, row[s]}
  PROVE  Aside(r)
  <1>1. ASSUME NEW s \in Sandboxes PROVE Untouched(r, s)
    <2>1. SameDaemon(s)
      BY AfterNothing
    <2> QED BY <2>1 DEF Untouched, SameDaemon
  <1>2. \A s \in Sandboxes : SameJobs(s)
    BY DaemonAssumption DEF SameJobs, Frame
  <1> QED BY <1>1, <1>2 DEF Aside

LEMMA AsideThread ==
  ASSUME NEW r, OneReplica(r), Orderly(r), Reconcile(r) \/ Reap(r),
         ~ReapImage(r), ReapNext(r) => \A s \in Sandboxes : queue[r][s] = NoRow
  PROVE  Aside(r)
  <1>0. r \in Procs /\ r \in Replicas /\ pc[r] # "rec.delete"
    BY ReplicaFacts DEF Orderly, TurnsInv, ThreadOK
  <1>1. pc[r] \in Resting
    BY <1>0 DEF Reconcile, Boot, ReconcileList, ReconcileNext, ReconcileDelete, ReconcileRelease,
                Reap, ReaperTick, ReapList, ReapNext, ReapRelease, Resting
  <1>a. /\ JobInv /\ target[r] = Nil /\ pc \in [Procs -> RequestPC \cup BootPC \cup ReaperPC]
        /\ target \in [Procs -> Sandboxes \cup {Nil}] /\ queue \in [Replicas -> [Sandboxes -> Row]]
    BY <1>0, <1>1, AtRestFacts
  <1>2. Frame(r)
    BY <1>0, <1>a, BackgroundFrame DEF Background
  <1>3. CASE Boot(r) \/ ReconcileRelease(r) \/ ReaperTick(r) \/ ReapRelease(r)
    <2>1. UNCHANGED <<daemonVars, row, mapping, jobVars, queue, cleanup, born, acked>>
      BY <1>3 DEF Boot, ReconcileRelease, ReaperTick, ReapRelease, Release
    <2> QED BY <1>0, <1>2, <1>a, <2>1, ThreadAside DEF jobVars
  <1>4. CASE ReconcileList(r) \/ ReapList(r)
    <2>1. UNCHANGED <<daemonVars, row, mapping, jobVars, cleanup, born, acked>>
      BY <1>4 DEF ReconcileList, ReapList
    <2>2. \A s \in Sandboxes : queue'[r][s] \in {queue[r][s], NoRow, row[s]}
      <3>1. CASE ReconcileList(r)
        BY <1>0, <1>a, <3>1 DEF ReconcileList
      <3>2. CASE ReapList(r)
        BY <1>0, <1>a, <3>2 DEF ReapList
      <3> QED BY <1>4, <3>1, <3>2
    <2> QED BY <1>0, <1>2, <1>a, <2>1, <2>2, ThreadAside DEF jobVars
  <1>5. CASE ReconcileNext(r) \/ ReapNext(r)
    <2>1. \A s \in Sandboxes : queue[r][s] = NoRow
      <3>1. ReconcileNext(r) => pc[r] \in BootPC
        BY DEF ReconcileNext, BootPC
      <3> QED BY <1>5, <3>1 DEF Orderly, TurnsInv, ThreadOK
    <2>2. UNCHANGED <<daemonVars, row, mapping, target, queue, cleanup, born, acked>>
      BY <1>5, <2>1 DEF ReconcileNext, ReapNext
    <2> QED BY <1>0, <1>2, <1>a, <2>2, ThreadAside
  <1>6. ~ReconcileDelete(r)
    BY <1>0 DEF ReconcileDelete
  <1> QED BY <1>3, <1>4, <1>5, <1>6 DEF Reconcile, Reap

LEMMA AsideCleanup ==
  ASSUME NEW r, OneReplica(r), Orderly(r), CleanupImage(r)
  PROVE  Aside(r)
  <1>1. /\ DaemonTypeOK /\ r \in Replicas /\ cleanup \in [Replicas -> SUBSET Images] /\ ~Fault("docker")
    BY Facts, ReplicaFacts DEF Orderly
  <1>2. PICK i \in cleanup[r] :
            /\ cleanup' = [cleanup EXCEPT ![r] = @ \ {i}]
            /\ (image[i] = "present" /\ ImageRemove(i)) \/ (image[i] # "present" /\ Unchanged)
            /\ UNCHANGED <<row, mapping, pc, jobVars, queue, lock, born, warm, acked, crashes>>
    BY <1>1 DEF CleanupImage
  <1>3. i \in Images /\ cleanup'[r] = cleanup[r] \ {i}
    BY <1>1, <1>2
  <1>4. ASSUME NEW s \in Sandboxes
        PROVE  /\ ContainersOf(s)' = ContainersOf(s) /\ ImagesOf(s)' \ cleanup'[r] = ImagesOf(s) \ cleanup[r]
               /\ \A x : Given(x, s) => disk'[x] = disk[x]
    <2>1. CASE ImageRemove(i)
      BY <1>1, <1>2, <1>3, <2>1, AfterImageRemove
    <2>2. CASE image[i] # "present" /\ Unchanged
      <3>1. SameDaemon(s)
        BY <2>2, AfterNothing DEF Unchanged
      <3>2. i \notin ImagesOf(s)
        BY <2>2 DEF ImagesOf
      <3> QED BY <1>3, <3>1, <3>2 DEF SameDaemon
    <2> QED BY <1>2, <2>1, <2>2
  <1>5. \A s \in Sandboxes : Untouched(r, s) /\ SameJobs(s)
    BY <1>2, <1>4 DEF Untouched, SameJobs, jobVars
  <1> QED BY <1>2, <1>5 DEF Aside

LEMMA AsideElse ==
  ASSUME NEW r, OneReplica(r), Orderly(r),
         \/ \E k \in Locks : LeaseExpires(k)
         \/ \E s \in Sandboxes : Expire(s)
         \/ \E c \in Containers : ContainerExit(c)
         \/ UNCHANGED vars
  PROVE  Aside(r)
  <1>1. DaemonTypeOK /\ row \in [Sandboxes -> Row]
    BY Facts DEF Orderly
  <1>2. UNCHANGED <<mapping, pc, jobVars, queue, cleanup, born, acked>>
    BY DEF LeaseExpires, Expire, ContainerExit, lifeVars, vars
  <1>3. \A s : SameJobs(s)
    BY <1>2 DEF SameJobs, jobVars
  <1>4. CASE (\E k \in Locks : LeaseExpires(k)) \/ UNCHANGED vars
    <2>1. UNCHANGED <<daemonVars, row>>
      BY <1>4 DEF LeaseExpires, vars, lifeVars
    <2>2. \A s : Untouched(r, s)
      BY <1>2, <2>1, AfterNothing, Elsewhere
    <2> QED BY <1>2, <1>3, <2>2 DEF Aside
  <1>5. CASE \E s \in Sandboxes : Expire(s)
    <2>1. PICK t \in Sandboxes : row[t] # NoRow /\ row' = [row EXCEPT ![t] = PastExpiry(row[t])]
                                 /\ UNCHANGED daemonVars
      BY <1>5 DEF Expire
    <2>2. ASSUME NEW s \in Sandboxes PROVE Untouched(r, s)
      <3>1. SameDaemon(s)
        BY <2>1, AfterNothing
      <3>2. /\ row'[s].status = row[s].status /\ row'[s].image = row[s].image
            /\ row[s] = NoRow => row'[s] = NoRow
        BY <1>1, <2>1, Records
      <3> QED BY <1>2, <3>1, <3>2 DEF Untouched, SameDaemon
    <2> QED BY <1>2, <1>3, <2>2 DEF Aside
  <1>6. CASE \E c \in Containers : ContainerExit(c)
    <2>1. PICK c \in Containers : container[c] = "running" /\ ContainerStop(c) /\ UNCHANGED lifeVars
      BY <1>6 DEF ContainerExit
    <2>2. Exists(c)
      BY <2>1 DEF Exists
    <2>3. \A s : SameDaemon(s)
      BY <1>1, <2>1, <2>2, AfterStartStop
    <2>4. \A s : Untouched(r, s)
      BY <2>1, <2>3, Elsewhere DEF lifeVars
    <2> QED BY <1>2, <1>3, <2>4 DEF Aside
  <1> QED BY <1>4, <1>5, <1>6

-----------------------------------------------------------------------------
(* What the replica's thread relies on stays so. *)

\* How a handler changes the record of its sandbox.
HandlerRow(p) ==
    \/ row' = row
    \/ \E new \in {NoRow, RunningRow, PausedRow(img[p])} :
          /\ row' = [row EXCEPT ![target[p]] = new]
          /\ pc[p] \in {"create.save", "pause.save", "resume.save", "row.delete"}

LEMMA HandlerRows ==
  ASSUME NEW p \in Procs, Handler(p)
  PROVE  HandlerRow(p) /\ queue' = queue
  <1> USE DEF HandlerRow, ContainerFor, DockerCall, RowCall, NoFault, Fault
  <1>1. CASE Create(p)
    BY <1>1 DEF Create, CreateBegin, CreateContainer, CreateStart, CreateRegister, CreateSave
  <1>2. CASE DeleteGet(p) \/ Kill(p)
    BY <1>2 DEF DeleteGet, Kill, KillLookup, KillUnregister, KillStop, KillRemove, DeleteRow
  <1>3. CASE Exec(p)
    BY <1>3 DEF Exec, ExecGet, ExecLookup, ExecRun
  <1>4. CASE Pause(p)
    BY <1>4 DEF Pause, PauseGet, PauseLookup, PauseCommit, PauseStop, PauseRemove, PauseUnregister, PauseSave
  <1>5. CASE Resume(p)
    BY <1>5 DEF Resume, ResumeGet, ResumeContainer, ResumeStart, ResumeRegister, ResumeSave
  <1> QED BY <1>1, <1>2, <1>3, <1>4, <1>5 DEF Handler

\* A resume is in progress because a client asked for it.
LEMMA ResumingStays ==
  ASSUME JobInv, NEW p \in Procs, Handler(p), pc'[p] \in Resuming
  PROVE  pc[p] \in Resuming \/ "resume" \in Ops
  <1> USE DEF JobInv, JobTypeOK, Resuming, Goto, Return, ContainerFor, DockerCall, jobVars, Begin
  <1>1. CASE Create(p)
    BY <1>1 DEF Create, CreateBegin, CreateContainer, CreateStart, CreateRegister, CreateSave
  <1>2. CASE DeleteGet(p) \/ Kill(p)
    BY <1>2 DEF DeleteGet, Kill, KillLookup, KillUnregister, KillStop, KillRemove, DeleteRow
  <1>3. CASE Exec(p)
    BY <1>3 DEF Exec, ExecGet, ExecLookup, ExecRun
  <1>4. CASE Pause(p)
    BY <1>4 DEF Pause, PauseGet, PauseLookup, PauseCommit, PauseStop, PauseRemove, PauseUnregister, PauseSave
  <1>5. CASE Resume(p)
    BY <1>5 DEF Resume, ResumeGet, ResumeContainer, ResumeStart, ResumeRegister, ResumeSave
  <1> QED BY <1>1, <1>2, <1>3, <1>4, <1>5 DEF Handler

\* While the replica starts, no request is served.
LEMMA StartsAlone ==
  ASSUME NEW r, OneReplica(r), ThreadOK(r), NEW p \in Requests, Handler(p)
  PROVE  pc[r] \notin BootPC
  <1>1. pc[p] = "idle" => Serving(p)
    BY DEF Handler, Create, Kill, Exec, Pause, Resume, CreateBegin, DeleteGet, ExecGet, PauseGet, ResumeGet, Begin,
           CreateContainer, CreateStart, CreateRegister, CreateSave,
           KillLookup, KillUnregister, KillStop, KillRemove, DeleteRow, ExecLookup, ExecRun,
           PauseLookup, PauseCommit, PauseStop, PauseRemove, PauseUnregister, PauseSave,
           ResumeContainer, ResumeStart, ResumeRegister, ResumeSave
  <1> QED BY <1>1, ReplicaFacts DEF Serving, ThreadOK

\* What the reaper has listed as paused only the reaper deletes.
LEMMA ListedStays ==
  ASSUME NEW r, OneReplica(r), Orderly(r), NEW p \in Procs, HandlerRow(p),
         NEW s \in Sandboxes, queue[r][s].status = "paused"
  PROVE  row'[s] = row[s]
  <1>1. SUFFICES ASSUME pc[p] \in {"create.save", "pause.save", "resume.save", "row.delete"}, target[p] = s
                 PROVE  FALSE
    BY Facts DEF HandlerRow, Orderly
  <1>2. queue[r][s] # NoRow
    BY Records
  <1>3. row[s].status = "paused" /\ SandboxOK(r, s) /\ Expiry /\ (target[r] = s => queue[r][s] = NoRow)
    <2>1. SandboxOK(r, s) /\ ThreadOK(r)
      BY DEF Orderly, TurnsInv
    <2>2. row[s].status = "paused" /\ Expiry
      BY <1>2, <2>1 DEF ThreadOK, PausedAt
    <2>3. target[r] = s => queue[r][s] = NoRow
      BY <2>1, DaemonAssumption DEF ThreadOK
    <2> QED BY <2>1, <2>2, <2>3
  <1>4. CASE pc[p] = "row.delete"
    <2>1. p = r
      BY <1>1, <1>3, <1>4 DEF SandboxOK, Working
    <2> QED BY <1>1, <1>2, <1>3, <2>1
  <1>5. CASE pc[p] = "resume.save"
    BY <1>3, <1>5 DEF Orderly, TurnsInv, ThreadOK, Resuming
  <1>6. CASE pc[p] \in {"create.save", "pause.save"}
    <2>1. AtWork(pc[p], cid[p], img[p], r, s)
      BY <1>1, <1>3, <1>6, LoneLabels DEF SandboxOK
    <2> QED BY <1>2, <1>3, <1>6, <2>1, Records DEF AtWork, New, Runs
  <1> QED BY <1>1, <1>4, <1>5, <1>6

LEMMA FreshRows ==
  ASSUME NEW r, OneReplica(r), Orderly(r), NEW p \in Procs, HandlerRow(p), NEW s \in Sandboxes
  PROVE  row'[s].expired => row[s].expired
  <1>1. row \in [Sandboxes -> Row]
    BY Facts DEF Orderly
  <1>2. ~NoRow.expired /\ ~RunningRow.expired /\ ~PausedRow(img[p]).expired
    BY Records
  <1> QED BY <1>1, <1>2 DEF HandlerRow

LEMMA ThreadHandler ==
  ASSUME NEW r, OneReplica(r), Orderly(r), NEW p \in Requests, Handler(p)
  PROVE  ThreadOK(r)'
  <1>0. p \in Procs /\ r \in Procs /\ p # r /\ ThreadOK(r) /\ JobInv
    BY Facts, ReplicaFacts DEF Orderly, TurnsInv
  <1>1. Frame(p) /\ HandlerRow(p) /\ queue' = queue
    BY <1>0, HandlerFrame, HandlerRows
  <1>2. pc'[r] = pc[r] /\ target'[r] = target[r] /\ pc[r] \notin BootPC
    BY <1>0, <1>1, StartsAlone DEF Frame
  <1>3. ASSUME NEW s \in Sandboxes
        PROVE  /\ queue'[r][s].status = "paused" => PausedAt(s, queue[r][s].image)'
               /\ queue'[r][s] # NoRow \/ row'[s].expired => Expiry
    <2>1. queue'[r][s].status = "paused" => PausedAt(s, queue[r][s].image)'
      BY <1>0, <1>1, ListedStays DEF ThreadOK, PausedAt
    <2>2. queue'[r][s] # NoRow \/ row'[s].expired => Expiry
      BY <1>0, <1>1, FreshRows DEF ThreadOK
    <2> QED BY <2>1, <2>2
  <1>4. ASSUME NEW q \in Procs, pc'[q] \in Resuming PROVE ~Expiry
    <2>1. CASE q = p
      BY <1>0, <1>4, <2>1, ResumingStays DEF ThreadOK, OneReplica
    <2>2. CASE q # p
      BY <1>0, <1>1, <1>4, <2>2 DEF ThreadOK, Frame
    <2> QED BY <2>1, <2>2
  <1> QED BY <1>0, <1>1, <1>2, <1>3, <1>4 DEF ThreadOK

\* The thread goes on, having changed nothing but a record that it is to delete.
LEMMA ThreadGoesOn ==
  ASSUME NEW r, OneReplica(r), Orderly(r), Frame(r), pc'[r] \in ReaperPC, target'[r] \in {target[r], Nil},
         HandlerRow(r), queue' = queue
  PROVE  ThreadOK(r)'
  <1>0. r \in Procs /\ ThreadOK(r)
    BY ReplicaFacts DEF Orderly, TurnsInv
  <1>1. pc'[r] \notin BootPC /\ pc'[r] # "rec.delete" /\ pc'[r] \notin Resuming
    BY DEF ReaperPC, BootPC, Resuming
  <1>2. ASSUME NEW s \in Sandboxes
        PROVE  /\ queue'[r][s].status = "paused" => PausedAt(s, queue[r][s].image)'
               /\ queue'[r][s] # NoRow \/ row'[s].expired => Expiry
    <2>1. queue'[r][s].status = "paused" => PausedAt(s, queue[r][s].image)'
      BY <1>0, ListedStays DEF ThreadOK, PausedAt
    <2>2. queue'[r][s] # NoRow \/ row'[s].expired => Expiry
      BY <1>0, FreshRows DEF ThreadOK
    <2> QED BY <2>1, <2>2
  <1>3. \A q \in Procs : pc'[q] \in Resuming => ~Expiry
    BY <1>0, <1>1 DEF ThreadOK, Frame
  <1> QED BY <1>0, <1>1, <1>2, <1>3 DEF ThreadOK

LEMMA ThreadKill ==
  ASSUME NEW r, OneReplica(r), Orderly(r), Kill(r)
  PROVE  ThreadOK(r)'
  <1>0. r \in Procs /\ r \in Replicas /\ JobInv /\ Handler(r)
    BY Facts, ReplicaFacts DEF Orderly, Handler
  <1>1. Frame(r) /\ HandlerRow(r) /\ queue' = queue
    BY <1>0, HandlerFrame, HandlerRows
  <1>2. pc'[r] \in ReaperPC /\ target'[r] \in {target[r], Nil}
    <2> USE <1>0 DEF JobInv, JobTypeOK, ReaperPC, Goto, Return, ContainerFor, DockerCall, jobVars
    <2>1. CASE KillLookup(r) \/ KillUnregister(r)
      BY <2>1 DEF KillLookup, KillUnregister
    <2>2. CASE KillStop(r) \/ KillRemove(r) \/ DeleteRow(r)
      BY <2>2 DEF KillStop, KillRemove, DeleteRow
    <2> QED BY <2>1, <2>2 DEF Kill
  <1> QED BY <1>1, <1>2, ThreadGoesOn

LEMMA ThreadReap ==
  ASSUME NEW r, OneReplica(r), Orderly(r), Reap(r)
  PROVE  ThreadOK(r)'
  <1>0. /\ r \in Procs /\ r \in Replicas /\ JobInv /\ ThreadOK(r)
        /\ pc \in [Procs -> RequestPC \cup BootPC \cup ReaperPC]
        /\ target \in [Procs -> Sandboxes \cup {Nil}] /\ queue \in [Replicas -> [Sandboxes -> Row]]
    BY Facts, ReplicaFacts DEF Orderly, TurnsInv
  <1>1. Frame(r) /\ row' = row /\ HandlerRow(r)
    BY <1>0, BackgroundFrame DEF Background, Reap, ReaperTick, ReapList, ReapNext, ReapImage, ReapRelease,
                                 DockerCall, Release, HandlerRow
  <1>2. CASE ReaperTick(r) \/ ReapImage(r) \/ ReapRelease(r)
    <2>1. pc'[r] \in ReaperPC /\ target'[r] \in {target[r], Nil} /\ queue' = queue
      BY <1>0, <1>2 DEF ReaperTick, ReapImage, ReapRelease, Release, DockerCall, Goto, Return, jobVars, ReaperPC
    <2> QED BY <1>1, <2>1, ThreadGoesOn
  <1>3. CASE ReapList(r)
    <2>1. pc'[r] \in ReaperPC /\ target' = target
      BY <1>0, <1>3 DEF ReapList, Goto, jobVars, ReaperPC
    <2>2. CASE queue' = queue
      BY <1>1, <2>1, <2>2, ThreadGoesOn
    <2>3. CASE queue' # queue
      <3>1. \A s \in Sandboxes : queue'[r][s] = IF row[s].expired THEN row[s] ELSE NoRow
        BY <1>0, <1>3, <2>3 DEF ReapList
      <3>2. target'[r] = Nil
        BY <1>0, <1>3, <2>1, AtRestFacts DEF ReapList, Resting
      <3>3. ASSUME NEW s \in Sandboxes
            PROVE  /\ queue'[r][s].status = "paused" => PausedAt(s, queue[r][s].image)'
                   /\ queue'[r][s] # NoRow \/ row'[s].expired => Expiry
        BY <1>0, <1>1, <3>1, Records DEF ThreadOK, PausedAt
      <3>4. pc'[r] \notin BootPC /\ pc'[r] # "rec.delete" /\ pc'[r] \notin Resuming
        BY <2>1 DEF ReaperPC, BootPC, Resuming
      <3>5. \A q \in Procs : pc'[q] \in Resuming => ~Expiry
        BY <1>0, <1>1, <3>4 DEF ThreadOK, Frame
      <3> QED BY <3>2, <3>3, <3>4, <3>5 DEF ThreadOK
    <2> QED BY <2>2, <2>3
  <1>4. CASE ReapNext(r)
    <2>1. pc'[r] \in ReaperPC
      BY <1>0, <1>4 DEF ReapNext, Goto, ReaperPC
    <2>2. CASE UNCHANGED <<queue, target>>
      BY <1>1, <2>1, <2>2, ThreadGoesOn
    <2>3. ASSUME NEW t \in Sandboxes, queue[r][t] # NoRow, queue' = [queue EXCEPT ![r][t] = NoRow],
                 target' = [target EXCEPT ![r] = t]
          PROVE  ThreadOK(r)'
      <3>1. target'[r] = t /\ queue'[r][t] = NoRow /\ \A s \in Sandboxes : queue'[r][s] \in {queue[r][s], NoRow}
        BY <1>0, <2>3
      <3>2. Expiry
        BY <1>0, <2>3 DEF ThreadOK
      <3>3. \A s \in Sandboxes : queue'[r][s].status = "paused" => PausedAt(s, queue[r][s].image)'
        BY <1>0, <1>1, <3>1, Records DEF ThreadOK, PausedAt
      <3>4. pc'[r] \notin BootPC /\ pc'[r] # "rec.delete" /\ pc'[r] \notin Resuming
        BY <2>1 DEF ReaperPC, BootPC, Resuming
      <3>5. \A q \in Procs : pc'[q] \notin Resuming
        BY <1>0, <1>1, <3>2, <3>4 DEF ThreadOK, Frame
      <3> QED BY <3>1, <3>2, <3>3, <3>4, <3>5 DEF ThreadOK
    <2> QED BY <1>4, <2>2, <2>3 DEF ReapNext
  <1> QED BY <1>2, <1>3, <1>4 DEF Reap

LEMMA ThreadReconcile ==
  ASSUME NEW r, OneReplica(r), Orderly(r), Reconcile(r)
  PROVE  ThreadOK(r)'
  <1>0. /\ r \in Procs /\ r \in Replicas /\ JobInv /\ ThreadOK(r)
        /\ pc \in [Procs -> RequestPC \cup BootPC \cup ReaperPC]
        /\ queue \in [Replicas -> [Sandboxes -> Row]]
    BY Facts, ReplicaFacts DEF Orderly, TurnsInv
  <1>1. pc[r] \in BootPC /\ pc[r] # "rec.delete"
    BY <1>0 DEF Reconcile, Boot, ReconcileList, ReconcileNext, ReconcileDelete, ReconcileRelease, BootPC, ThreadOK
  <1>2. pc[r] \in Resting
    BY <1>1 DEF BootPC, Resting
  <1>3. /\ \A s \in Sandboxes : row[s] = NoRow /\ queue[r][s] = NoRow
        /\ \A p \in Requests : pc[p] = "idle"
    BY <1>0, <1>1 DEF ThreadOK
  <1>4. Frame(r) /\ row' = row
    BY <1>0, <1>1, BackgroundFrame DEF Background, Reconcile, Boot, ReconcileList, ReconcileNext,
                                 ReconcileDelete, ReconcileRelease, Release
  <1>5. pc'[r] \in BootPC \cup ReaperPC /\ pc'[r] # "rec.delete" /\ target' = target
        /\ \A s \in Sandboxes : queue'[r][s] = NoRow
    <2>1. CASE Boot(r) \/ ReconcileRelease(r)
      BY <1>0, <1>3, <2>1 DEF Boot, ReconcileRelease, Release, Goto, jobVars, BootPC, ReaperPC
    <2>2. CASE ReconcileList(r)
      <3>1. pc'[r] \in BootPC \cup ReaperPC /\ pc'[r] # "rec.delete" /\ target' = target
        BY <1>0, <2>2 DEF ReconcileList, Goto, jobVars, BootPC
      <3>2. \A s \in Sandboxes : queue'[r][s] = NoRow
        BY <1>0, <1>3, <2>2 DEF ReconcileList
      <3> QED BY <3>1, <3>2
    <2>3. CASE ReconcileNext(r)
      BY <1>0, <1>3, <2>3 DEF ReconcileNext, Goto, BootPC
    <2> QED BY <1>1, <2>1, <2>2, <2>3 DEF Reconcile, ReconcileDelete
  <1>6. target'[r] = Nil
    BY <1>0, <1>2, <1>5, AtRestFacts
  <1>7. \A p \in Requests : pc'[p] = "idle"
    BY <1>0, <1>3, <1>4, ReplicaFacts DEF Frame
  <1>8. \A s \in Sandboxes : queue'[r][s].status # "paused" /\ row'[s] = NoRow /\ ~row'[s].expired
    BY <1>3, <1>4, <1>5, Records
  <1>9. \A q \in Procs : pc'[q] \notin Resuming
    <2>1. pc'[r] \notin Resuming /\ "idle" \notin Resuming
      BY <1>5 DEF BootPC, ReaperPC, Resuming
    <2> QED BY <1>7, <2>1, ReplicaFacts
  <1> QED BY <1>5, <1>6, <1>7, <1>8, <1>9 DEF ThreadOK

LEMMA ThreadElse ==
  ASSUME NEW r, OneReplica(r), Orderly(r),
         \/ CleanupImage(r)
         \/ \E k \in Locks : LeaseExpires(k)
         \/ \E s \in Sandboxes : Expire(s)
         \/ \E c \in Containers : ContainerExit(c)
         \/ UNCHANGED vars
  PROVE  ThreadOK(r)'
  <1>0. ThreadOK(r) /\ row \in [Sandboxes -> Row]
    BY Facts DEF Orderly, TurnsInv
  <1>1. UNCHANGED <<pc, target, queue>>
    BY DEF CleanupImage, LeaseExpires, Expire, ContainerExit, lifeVars, vars, jobVars
  <1>2. ASSUME NEW s \in Sandboxes
        PROVE  /\ row'[s].status = row[s].status /\ row'[s].image = row[s].image
               /\ row'[s].expired => row[s].expired \/ Expiry
               /\ row[s] = NoRow => row'[s] = NoRow
    <2>1. CASE row' = row
      BY <2>1
    <2>2. CASE \E t \in Sandboxes : Expire(t)
      <3>1. PICK t \in Sandboxes : row[t] # NoRow /\ row' = [row EXCEPT ![t] = PastExpiry(row[t])] /\ Expiry
        BY <2>2 DEF Expire
      <3> QED BY <1>0, <3>1, Records
    <2> QED BY <2>1, <2>2 DEF CleanupImage, LeaseExpires, ContainerExit, lifeVars, vars
  <1> QED BY <1>0, <1>1, <1>2 DEF ThreadOK, PausedAt

LEMMA OneReplicaNext ==
  ASSUME NEW r, OneReplica(r), Orderly(r), [Next]_vars
  PROVE  \/ \E p \in Requests : Handler(p)
         \/ Kill(r) \/ Reconcile(r) \/ Reap(r) \/ CleanupImage(r)
         \/ \E k \in Locks : LeaseExpires(k)
         \/ \E s \in Sandboxes : Expire(s)
         \/ \E c \in Containers : ContainerExit(c)
         \/ UNCHANGED vars
  <1>0. ~(crashes < MaxCrashes)
    <2>1. crashes = 0 /\ MaxCrashes = 0
      BY Facts DEF Orderly, OneReplica
    <2> QED BY <2>1
  <1>1. ~Crash(r)
    BY <1>0 DEF Crash
  <1> QED BY <1>1 DEF Next, Background, OneReplica

LEMMA ThreadKept ==
  ASSUME NEW r, OneReplica(r), Orderly(r), [Next]_vars
  PROVE  ThreadOK(r)'
  BY OneReplicaNext, ThreadHandler, ThreadKill, ThreadReconcile, ThreadReap, ThreadElse

-----------------------------------------------------------------------------
(* The invariant holds while clients take turns. *)

LEMMA TurnHandler ==
  ASSUME NEW r, OneReplica(r), Orderly(r), TakingTurns', NEW p \in Procs, Handler(p)
  PROVE  \E t \in Sandboxes : On(p, r, t)
  <1>0. \A l : pc[p] = l /\ l \notin Resting => target[p] \in Sandboxes
    BY AtCall DEF Orderly
  <1>a. pc[p] \in Lone \/ pc[p] \in {"kill.lookup", "kill.unregister", "kill.stop", "kill.remove", "row.delete",
                                     "exec.lookup", "exec.run", "pause.lookup"} => target[p] \in Sandboxes
    BY <1>0, Alone, SharedLabels
  <1>1. CASE Create(p)
    BY <1>1, <1>a, TurnCreateBegin, TurnCreate, LoneLabels
       DEF Create, CreateContainer, CreateStart, CreateRegister, CreateSave
  <1>2. CASE DeleteGet(p) \/ ExecGet(p) \/ PauseGet(p)
    BY <1>2, TurnGet DEF OnSteadily
  <1>3. CASE Kill(p)
    BY <1>3, <1>a, TurnLookup, TurnUnregister, TurnStop, TurnRemove, TurnDelete
       DEF Kill, KillLookup, KillUnregister, KillStop, KillRemove, DeleteRow, OnSteadily
  <1>4. CASE ExecLookup(p) \/ ExecRun(p)
    BY <1>4, <1>a, TurnLookup, TurnExec DEF ExecLookup, ExecRun, OnSteadily
  <1>5. CASE PauseLookup(p)
    BY <1>5, <1>a, TurnPauseLookup DEF PauseLookup, OnSteadily
  <1>6. CASE PauseCommit(p) \/ PauseStop(p) \/ PauseRemove(p) \/ PauseUnregister(p) \/ PauseSave(p)
    BY <1>6, <1>a, TurnPause, LoneLabels DEF PauseCommit, PauseStop, PauseRemove, PauseUnregister, PauseSave
  <1>7. CASE ResumeGet(p)
    BY <1>7, TurnResumeGet
  <1>8. CASE ResumeContainer(p) \/ ResumeStart(p) \/ ResumeRegister(p) \/ ResumeSave(p)
    BY <1>8, <1>a, TurnResume, LoneLabels DEF ResumeContainer, ResumeStart, ResumeRegister, ResumeSave
  <1> QED BY <1>1, <1>2, <1>3, <1>4, <1>5, <1>6, <1>7, <1>8 DEF Handler, Exec, Pause, Resume

\* A step works on one sandbox, or on none.
LEMMA Steps ==
  ASSUME NEW r, OneReplica(r), Orderly(r), TakingTurns', [Next]_vars
  PROVE  Aside(r) \/ \E p \in Procs, t \in Sandboxes : On(p, r, t)
  <1>0. r \in Procs /\ \A p \in Requests : p \in Procs
    BY ReplicaFacts
  <1>1. CASE \E p \in Requests : Handler(p)
    BY <1>0, <1>1, TurnHandler
  <1>2. CASE Kill(r)
    BY <1>0, <1>2, TurnHandler DEF Handler
  <1>3. CASE ReapImage(r)
    <2>1. target[r] \in Sandboxes
      BY <1>0, <1>3, SharedLabels, AtCall DEF ReapImage, Orderly
    <2> QED BY <1>0, <1>3, <2>1, TurnImage
  <1>4. CASE ReapNext(r) /\ ~\A s \in Sandboxes : queue[r][s] = NoRow
    BY <1>0, <1>4, TurnReap DEF OnSteadily
  <1>5. CASE /\ Reconcile(r) \/ Reap(r)
             /\ ~ReapImage(r)
             /\ ReapNext(r) => \A s \in Sandboxes : queue[r][s] = NoRow
    BY <1>5, AsideThread
  <1>6. CASE CleanupImage(r)
    BY <1>6, AsideCleanup
  <1>7. CASE \/ \E k \in Locks : LeaseExpires(k)
             \/ \E s \in Sandboxes : Expire(s)
             \/ \E c \in Containers : ContainerExit(c)
             \/ UNCHANGED vars
    BY <1>7, AsideElse
  <1> QED BY <1>1, <1>2, <1>3, <1>4, <1>5, <1>6, <1>7, OneReplicaNext

LEMMA TurnsNext ==
  ASSUME NEW r, OneReplica(r)
  PROVE  Orderly(r) /\ TakingTurns' /\ [Next]_vars => Orderly(r)'
  <1> SUFFICES ASSUME Orderly(r), TakingTurns', [Next]_vars PROVE Orderly(r)'
    OBVIOUS
  <1>1. TypeInv' /\ OwnerInv'
    BY TypeNext, OwnerNext DEF Orderly
  <1>2. ThreadOK(r)'
    BY ThreadKept
  <1>3. TurnsInv(r)'
    BY <1>2, Steps, OnKeeps, AsideKeeps
  <1> QED BY <1>1, <1>3 DEF Orderly

LEMMA InOrder == ASSUME NEW r, OneReplica(r) PROVE Spec /\ []TakingTurns => []Orderly(r)
<1>1. Init => Orderly(r)
    BY TypeInit, OwnerInit, TurnsInit DEF Orderly
<1>2. Orderly(r) /\ TakingTurns' /\ [Next]_vars => Orderly(r)'
    BY TurnsNext
<1> QED
    BY <1>1, <1>2, PTL DEF Spec

\* A sandbox nobody works on.
LEMMA SettledFacts ==
  ASSUME NEW r, OneReplica(r), Orderly(r), NEW s \in Sandboxes, Settled(s)
  PROVE  /\ Replicas = {r} /\ cleanup[r] = {} /\ MappedTo(s) = {mapping[r][s]} \ {Nil}
         /\ \/ Gone(r, s)
            \/ Runs(s) /\ \E c \in Containers : Has(r, s, {c}, c, {}) /\ Stores(s, c)
            \/ \E i \in Images : PausedAt(s, i) /\ Has(r, s, {}, Nil, {i}) /\ Stores(s, i)
  <1>1. Replicas = {r} /\ cleanup[r] = {} /\ MappedTo(s) = {mapping[r][s]} \ {Nil}
    BY DEF Settled, MappedTo, OneReplica
  <1>2. \A p \in Procs : target[p] # s
    BY DEF Settled, Busy
  <1>3. Shared(r, s)
    BY <1>2 DEF Orderly, TurnsInv, SandboxOK, Crowd
  <1> QED BY <1>1, <1>2, <1>3, ReplicaFacts DEF Shared, RunningWith, PausedWith

\* While clients take turns at the sandboxes of one replica and no call to
\* the daemon or the database fails, the record of a sandbox nobody works on
\* is the truth, with any number of requests and the reaper at work on any of
\* them: running with exactly one container, the mapped one; paused with
\* exactly one image, the recorded one; or absent with nothing left behind.
THEOREM RecordTellsTruth ==
  ASSUME NEW r, OneReplica(r) PROVE Spec /\ []TakingTurns => []RecordIsTruth
<1>1. Orderly(r) => RecordIsTruth
  <2> SUFFICES ASSUME Orderly(r), NEW s \in Sandboxes, Settled(s)
               PROVE  /\ row[s].status = "running" =>
                            Cardinality(ContainersOf(s)) = 1 /\ MappedTo(s) = ContainersOf(s) /\ ImagesOf(s) = {}
                      /\ row[s].status = "paused" =>
                            ContainersOf(s) = {} /\ MappedTo(s) = {} /\ ImagesOf(s) = {row[s].image}
                      /\ row[s].status = "absent" =>
                            ContainersOf(s) = {} /\ MappedTo(s) = {} /\ ImagesOf(s) = {}
    BY DEF RecordIsTruth
  <2>1. cleanup[r] = {} /\ MappedTo(s) = {mapping[r][s]} \ {Nil}
    BY SettledFacts
  <2>2. CASE Gone(r, s)
    BY <2>1, <2>2, Records DEF Gone, Has
  <2>3. ASSUME NEW c \in Containers, Runs(s), Has(r, s, {c}, c, {})
        PROVE  Cardinality(ContainersOf(s)) = 1 /\ MappedTo(s) = ContainersOf(s) /\ ImagesOf(s) = {}
    <3>1. Cardinality({c}) = 1
      BY FS_Singleton
    <3> QED BY <2>1, <2>3, <3>1, DaemonAssumption DEF Has
  <2>4. ASSUME NEW i \in Images, PausedAt(s, i), Has(r, s, {}, Nil, {i})
        PROVE  ContainersOf(s) = {} /\ MappedTo(s) = {} /\ ImagesOf(s) = {row[s].image}
    BY <2>1, <2>4 DEF Has, PausedAt
  <2> QED BY <2>2, <2>3, <2>4, SettledFacts DEF Runs, PausedAt
<1> QED
    BY <1>1, InOrder, PTL

\* For those clients, what a write was acknowledged for is in the sandbox's
\* container while it runs and in its pause image while it is paused, through
\* any number of pauses and resumes.
THEOREM AckedIsKept ==
  ASSUME NEW r, OneReplica(r) PROVE Spec /\ []TakingTurns => []AckedDataSurvives
<1>1. Orderly(r) => AckedDataSurvives
  <2> SUFFICES ASSUME Orderly(r), NEW s \in Sandboxes, Settled(s)
               PROVE  /\ row[s].status = "running" =>
                            \A p \in Replicas : mapping[p][s] \in Containers => acked[s] \subseteq disk[mapping[p][s]]
                      /\ row[s].status = "paused" => acked[s] \subseteq disk[row[s].image]
    BY DEF AckedDataSurvives
  <2> QED BY SettledFacts, Records DEF Gone, Runs, PausedAt, Has, Stores
<1> QED
    BY <1>1, InOrder, PTL

-----------------------------------------------------------------------------
(* When clients take turns whatever they do. *)

\* Nothing is paused, nor about to be.
NoPauses ==
    /\ \A p \in Procs : pc[p] # "pause.lookup" /\ pc[p] \notin Moving
    /\ \A s \in Sandboxes : row[s].status # "paused"

LEMMA NoPausesHandler ==
  ASSUME JobInv, NoPauses, "pause" \notin Ops, NEW p \in Procs, Handler(p)
  PROVE  pc'[p] # "pause.lookup" /\ pc'[p] \notin Moving
  <1>0. pc[p] # "pause.lookup" /\ pc[p] \notin Moving
    BY DEF NoPauses
  <1> USE DEF JobInv, JobTypeOK, Moving, Pausing, Resuming, Goto, Return, ContainerFor, DockerCall, jobVars, Begin
  <1>1. CASE Create(p)
    BY <1>1 DEF Create, CreateBegin, CreateContainer, CreateStart, CreateRegister, CreateSave
  <1>2. CASE DeleteGet(p) \/ Kill(p)
    BY <1>2 DEF DeleteGet, Kill, KillLookup, KillUnregister, KillStop, KillRemove, DeleteRow
  <1>3. CASE Exec(p)
    BY <1>3 DEF Exec, ExecGet, ExecLookup, ExecRun
  <1>4. ~Pause(p)
    BY <1>0 DEF Pause, PauseGet, PauseLookup, PauseCommit, PauseStop, PauseRemove, PauseUnregister, PauseSave
  <1>5. ~Resume(p)
    BY <1>0 DEF Resume, ResumeGet, ResumeContainer, ResumeStart, ResumeRegister, ResumeSave, NoPauses
  <1> QED BY <1>1, <1>2, <1>3, <1>4, <1>5 DEF Handler

LEMMA NoPausesNext ==
  ASSUME NEW r, OneReplica(r), "pause" \notin Ops, TypeInv, NoPauses, [Next]_vars
  PROVE  NoPauses'
  <1>0. /\ JobInv /\ TableInv /\ row \in [Sandboxes -> Row]
        /\ \A q \in Replicas : cleanup[q] \subseteq Images
    BY TypeParts, Facts
  <1>1. JobInv'
    BY JobNext
  <1>2. ASSUME NEW p \in Procs PROVE pc'[p] # "pause.lookup" /\ pc'[p] \notin Moving
    <2>1. CASE p \in Replicas
      BY <1>1, <2>1 DEF JobInv, JobTypeOK, BootPC, ReaperPC, Moving, Pausing, Resuming
    <2>2. CASE p \in Requests
      <3>1. CASE pc'[p] = pc[p]
        BY <1>2, <3>1 DEF NoPauses
      <3>2. CASE Handler(p)
        BY <1>0, <1>2, <3>2, NoPausesHandler
      <3>3. ASSUME NEW q \in Requests, q # p, Handler(q) PROVE pc'[p] = pc[p]
        BY <1>0, <1>2, <3>3, HandlerFrame DEF Frame, Procs
      <3>4. ASSUME NEW q \in Replicas, Background(q) PROVE pc'[p] = pc[p]
        BY <1>0, <1>2, <2>2, <3>4, BackgroundFrame, LifecycleAssumption DEF Frame
      <3>5. ASSUME NEW q \in Replicas, Crash(q) PROVE pc'[p] = pc[p] \/ pc'[p] = "idle"
        BY <1>2, <2>2, <3>5, LifecycleAssumption DEF Crash
      <3>6. "idle" # "pause.lookup" /\ "idle" \notin Moving
        BY DEF Moving, Pausing, Resuming
      <3>7. ASSUME \/ \E q \in Replicas : CleanupImage(q)
                   \/ \E k \in Locks : LeaseExpires(k)
                   \/ \E s \in Sandboxes : Expire(s)
                   \/ \E c \in Containers : ContainerExit(c)
                   \/ UNCHANGED vars
            PROVE  pc'[p] = pc[p]
        BY <3>7 DEF CleanupImage, LeaseExpires, Expire, ContainerExit, vars, lifeVars
      <3> QED BY <3>1, <3>2, <3>3, <3>4, <3>5, <3>6, <3>7 DEF Next
    <2> QED BY <2>1, <2>2 DEF Procs
  <1>3. ASSUME NEW s \in Sandboxes PROVE row'[s].status # "paused"
    <2>1. RowStep
      BY <1>0, NextTableStep DEF TableStep
    <2>2. \A p \in Procs : pc[p] # "pause.save"
      BY DEF NoPauses, Moving, Pausing
    <2> QED BY <1>0, <2>1, <2>2, Records DEF RowStep, NoPauses
  <1> QED BY <1>2, <1>3 DEF NoPauses

LEMMA NeverPaused ==
  ASSUME NEW r, OneReplica(r) PROVE "pause" \notin Ops => (Spec => []NoPauses)
<1> SUFFICES ASSUME "pause" \notin Ops PROVE Spec => []NoPauses
    OBVIOUS
<1>1. Init => NoPauses
  <2> SUFFICES ASSUME Init PROVE NoPauses
    OBVIOUS
  <2>1. \A p \in Procs : pc[p] \in {"down", "idle"}
    BY DEF Init
  <2> QED BY <2>1, Records DEF Init, NoPauses, Moving, Pausing, Resuming
<1>2. TypeInv /\ NoPauses /\ [Next]_vars => NoPauses'
    BY NoPausesNext
<1> QED
    BY <1>1, <1>2, TypeCorrect, PTL DEF Spec

\* There is one client and no reaper to come in between, or nobody pauses.
InTurn == ((\E q : Requests = {q}) /\ ~Expiry) \/ "pause" \notin Ops

\* A client that sends one request after the other needs no agreement, as long
\* as no record expires; nor do any number of them that create, use and delete
\* sandboxes and never pause one, with the reaper at work.
THEOREM TurnsAreTaken ==
  ASSUME NEW r, OneReplica(r), InTurn PROVE Spec => []TakingTurns
<1>1. NoPauses => TakingTurns
    BY DEF NoPauses, TakingTurns
<1>2. ASSUME NEW q, Requests = {q}, ~Expiry PROVE TypeInv /\ ThreadOK(r) => TakingTurns
  <2> SUFFICES ASSUME TypeInv, ThreadOK(r), NEW p \in Procs, NEW x \in Procs,
                      pc[p] \in Moving, target[x] = target[p]
               PROVE  x = p
    BY DEF TakingTurns
  <2>1. target[p] # Nil
    BY AtCall DEF Moving, Pausing, Resuming, Resting
  <2>2. target[r] = Nil
    BY <1>2 DEF ThreadOK
  <2> QED BY <1>2, <2>1, <2>2, ReplicaFacts
<1>3. ASSUME NEW q, Requests = {q}, ~Expiry PROVE Orderly(r) /\ [Next]_vars => TakingTurns'
  <2>1. TypeInv' /\ ThreadOK(r)' => TakingTurns'
    BY <1>2, <1>3, PTL
  <2> QED BY <2>1, ThreadKept, TypeNext DEF Orderly
<1>4. Init => Orderly(r)
    BY TypeInit, OwnerInit, TurnsInit DEF Orderly
<1>5. Orderly(r) /\ TakingTurns' /\ [Next]_vars => Orderly(r)'
    BY TurnsNext
<1>6. Orderly(r) => TypeInv /\ ThreadOK(r)
    BY DEF Orderly, TurnsInv
<1>7. CASE "pause" \notin Ops
    BY <1>1, <1>7, NeverPaused, PTL
<1>8. CASE (\E q : Requests = {q}) /\ ~Expiry
  <2>1. PICK q : Requests = {q} /\ ~Expiry
    BY <1>8
  <2>2. TypeInv /\ ThreadOK(r) => TakingTurns
    BY <1>2, <2>1
  <2>3. Orderly(r) /\ [Next]_vars => TakingTurns'
    BY <1>3, <2>1
  <2> QED BY <1>4, <1>5, <1>6, <2>2, <2>3, PTL DEF Spec
<1> QED
    BY <1>7, <1>8 DEF InTurn

-----------------------------------------------------------------------------
(* The service: what clients see of each sandbox, and which steps of the     *)
(* handlers change it.                                                       *)

LEMMA StatusIs ==
  ASSUME NEW s
  PROVE  /\ row[s] # NoRow => ServiceStatus(s) = row[s].status
         /\ row[s] = NoRow /\ s \in born /\ ~BeingCreated(s) => ServiceStatus(s) = "gone"
         /\ row[s] = NoRow /\ (s \notin born \/ BeingCreated(s)) => ServiceStatus(s) = "new"
  BY DEF ServiceStatus

LEMMA StatusIsNext ==
  ASSUME NEW s
  PROVE  /\ row'[s] # NoRow => ServiceStatus(s)' = row'[s].status
         /\ row'[s] = NoRow /\ s \in born' /\ ~BeingCreated(s)' => ServiceStatus(s)' = "gone"
         /\ row'[s] = NoRow /\ (s \notin born' \/ BeingCreated(s)') => ServiceStatus(s)' = "new"
  BY DEF ServiceStatus

\* The container of a running sandbox: the mapped one, or, unregistered, the
\* one that everybody at work on it has looked up.
Held(r, s, c) ==
    \/ mapping[r][s] = c
    \/ /\ mapping[r][s] = Nil
       /\ \E p \in Procs : target[p] = s /\ cid[p] = c
       /\ \A p \in Procs : target[p] = s => cid[p] \in {c, Nil}

DataIs(r, s) ==
    /\ row[s] = NoRow => ServiceData(s) = {}
    /\ \A i \in Images : PausedAt(s, i) => ServiceData(s) = disk[i]
    /\ Runs(s) => \A c \in Containers : Held(r, s, c) => ServiceData(s) = disk[c]

LEMMA DataNow == ASSUME NEW r, OneReplica(r), NEW s PROVE DataIs(r, s)
  <1>0. MappedTo(s) = {mapping[r][s]} \ {Nil}
    BY DEF MappedTo, OneReplica
  <1>1. row[s] = NoRow => ServiceData(s) = {}
    BY Records DEF ServiceData, Holding
  <1>2. ASSUME NEW i \in Images, PausedAt(s, i) PROVE ServiceData(s) = disk[i]
    <2>1. Holding(s) = {i}
      BY <1>2 DEF Holding, PausedAt
    <2> QED BY <2>1 DEF ServiceData
  <1>3. ASSUME NEW c \in Containers, Runs(s), mapping[r][s] = c PROVE ServiceData(s) = disk[c]
    <2>1. MappedTo(s) = {c}
      BY <1>0, <1>3, DaemonAssumption
    <2>2. Holding(s) = {c}
      BY <1>3, <2>1 DEF Holding, Runs
    <2> QED BY <2>2 DEF ServiceData
  <1>4. ASSUME NEW c \in Containers, Runs(s), mapping[r][s] = Nil, NEW p \in Procs, target[p] = s, cid[p] = c,
               \A q \in Procs : target[q] = s => cid[q] \in {c, Nil}
        PROVE  ServiceData(s) = disk[c]
    <2>1. MappedTo(s) = {}
      BY <1>0, <1>4
    <2>2. Holding(s) = {cid[q] : q \in {x \in Procs : target[x] = s}}
      BY <1>4, <2>1 DEF Holding, Runs
    <2>3. c \in Holding(s) /\ Holding(s) \subseteq {c, Nil}
      BY <1>4, <2>2
    <2>4. Holding(s) \cap (Containers \cup Images) = {c}
      BY <2>3, DaemonAssumption
    <2> QED BY <2>4 DEF ServiceData
  <1> QED BY <1>1, <1>2, <1>3, <1>4 DEF DataIs, Held

LEMMA DataThen == ASSUME NEW r, OneReplica(r), NEW s PROVE DataIs(r, s)'
  BY DataNow, PTL

\* A client sees nothing of the step happen to s.
Quiet(s) == ServiceStatus(s)' = ServiceStatus(s) /\ ServiceData(s)' = ServiceData(s)

LEMMA StillAbsent ==
  ASSUME NEW r, OneReplica(r), NEW s, row[s] = NoRow, row'[s] = NoRow,
         s \notin born \/ BeingCreated(s) <=> s \notin born' \/ BeingCreated(s)'
  PROVE  Quiet(s)
  <1>1. ServiceStatus(s)' = ServiceStatus(s)
    BY StatusIs, StatusIsNext
  <1>2. ServiceData(s) = {} /\ ServiceData(s)' = {}
    BY DataNow, DataThen DEF DataIs
  <1> QED BY <1>1, <1>2 DEF Quiet

LEMMA StillRunning ==
  ASSUME NEW r, OneReplica(r), NEW s, Runs(s), Runs(s)', NEW c \in Containers, disk'[c] = disk[c],
         Held(r, s, c), Held(r, s, c)'
  PROVE  Quiet(s)
  <1>1. ServiceStatus(s) = "running" /\ ServiceStatus(s)' = "running"
    BY StatusIs, StatusIsNext, Records DEF Runs
  <1>2. DataIs(r, s) /\ DataIs(r, s)'
    BY DataNow, DataThen
  <1>3. ServiceData(s) = disk[c] /\ ServiceData(s)' = disk'[c]
    BY <1>2 DEF DataIs
  <1> QED BY <1>1, <1>3 DEF Quiet

LEMMA StillPaused ==
  ASSUME NEW r, OneReplica(r), NEW s, NEW i \in Images, PausedAt(s, i), PausedAt(s, i)', disk'[i] = disk[i]
  PROVE  Quiet(s)
  <1>1. ServiceStatus(s) = "paused" /\ ServiceStatus(s)' = "paused"
    BY StatusIs, StatusIsNext, Records DEF PausedAt
  <1>2. DataIs(r, s) /\ DataIs(r, s)'
    BY DataNow, DataThen
  <1>3. ServiceData(s) = disk[i] /\ ServiceData(s)' = disk'[i]
    BY <1>2 DEF DataIs
  <1> QED BY <1>1, <1>3 DEF Quiet

LEMMA RunningHeld ==
  ASSUME NEW r, NEW s, NEW c, RunningWith(r, s, c)
  PROVE  Held(r, s, c)
  BY DEF RunningWith, Held, Has

LEMMA RunningHeldNext ==
  ASSUME NEW r, NEW s, NEW c, RunningWith(r, s, c)'
  PROVE  Held(r, s, c)'
  BY DEF RunningWith, Held, Has

LEMMA WhereItRuns ==
  ASSUME NEW r, OneReplica(r), Orderly(r), NEW s \in Sandboxes, Runs(s)
  PROVE  \E c \in Containers : Held(r, s, c) /\ Given(c, s)
  <1>0. SandboxOK(r, s) /\ TypeInv /\ OwnerInv
    BY DEF Orderly, TurnsInv
  <1>1. CASE Crowd(s)
    <2>1. ~Gone(r, s) /\ \A i : ~PausedAt(s, i)
      BY Records DEF Gone, Runs, PausedAt
    <2>2. PICK c \in Containers : RunningWith(r, s, c)
      BY <1>0, <1>1, <2>1 DEF SandboxOK, Shared
    <2>3. CASE c \in ContainersOf(s)
      BY <2>2, <2>3, RunningHeld, GivenNow
    <2>4. CASE \E p \in Procs : target[p] = s /\ cid[p] = c
      BY <1>0, <2>2, <2>4, RunningHeld, HeldIsGiven
    <2> QED BY <2>2, <2>3, <2>4 DEF RunningWith, Has
  <1>2. ASSUME NEW p \in Procs, target[p] = s, pc[p] \in Lone
        PROVE  \E c \in Containers : Held(r, s, c) /\ Given(c, s)
    <2> PICK c, i : c = cid[p] /\ i = img[p]
      OBVIOUS
    <2>1. AtWork(pc[p], c, i, r, s) /\ \A q \in Procs : target[q] = s => q = p
      BY <1>0, <1>2 DEF SandboxOK
    <2>2. pc[p] \in {"pause.commit", "pause.stop", "pause.remove", "pause.unregister", "pause.save"}
      BY <1>2, <2>1, Records DEF Lone, Creating, Moving, Pausing, Resuming, AtWork, New, Runs, PausedAt
    <2>3. Stores(s, c) /\ mapping[r][s] \in {c, Nil}
      BY <2>1, <2>2 DEF AtWork, Has
    <2>4. c \in Containers
      BY <1>0, <2>3, Facts, DaemonAssumption DEF Stores
    <2>5. Held(r, s, c)
      BY <1>2, <2>1, <2>3 DEF Held
    <2> QED BY <1>0, <1>2, <2>4, <2>5, HeldIsGiven
  <1> QED BY <1>1, <1>2 DEF Crowd

LEMMA WhereItIsPaused ==
  ASSUME NEW r, OneReplica(r), Orderly(r), NEW s \in Sandboxes, row[s].status = "paused"
  PROVE  \E i \in Images : PausedAt(s, i) /\ Given(i, s)
  <1>1. row[s].image # Nil /\ row[s] \in Row
    BY Facts DEF Orderly, PauseRecorded
  <1>2. row[s].image \in Images
    BY <1>1, Records DEF Row
  <1>3. madeFor[row[s].image] = s /\ image[row[s].image] # "free"
    BY <1>2 DEF Orderly, OwnerInv, OwnResources, HeldIsKnown
  <1> QED BY <1>2, <1>3, DaemonAssumption DEF PausedAt, Given

\* Where nothing is touched and nobody has moved, there is nothing to see.
LEMMA UntouchedQuiet ==
  ASSUME NEW r, OneReplica(r), Orderly(r), NEW s \in Sandboxes, Untouched(r, s), SameJobs(s),
         s \in born' <=> s \in born
  PROVE  Quiet(s)
  <1>1. row[s] \in Row
    BY Facts DEF Orderly
  <1>2. CASE row[s] = NoRow
    <2>1. BeingCreated(s)' <=> BeingCreated(s)
      BY ReplicaFacts DEF SameJobs, BeingCreated
    <2> QED BY <1>2, <2>1, StillAbsent DEF Untouched
  <1>3. CASE Runs(s)
    <2>1. PICK c \in Containers : Held(r, s, c) /\ Given(c, s)
      BY <1>3, WhereItRuns
    <2>2. Held(r, s, c)'
      BY <2>1 DEF Held, Untouched, SameJobs
    <2>3. disk'[c] = disk[c] /\ Runs(s)'
      BY <1>3, <2>1, HasKept DEF Untouched
    <2> QED BY <1>3, <2>1, <2>2, <2>3, StillRunning
  <1>4. CASE row[s].status = "paused"
    <2>1. PICK i \in Images : PausedAt(s, i) /\ Given(i, s)
      BY <1>4, WhereItIsPaused
    <2>2. disk'[i] = disk[i] /\ PausedAt(s, i)'
      BY <2>1, HasKept DEF Untouched
    <2> QED BY <2>1, <2>2, StillPaused
  <1> QED BY <1>1, <1>2, <1>3, <1>4, Records DEF Runs

LEMMA AsideQuiet ==
  ASSUME NEW r, OneReplica(r), Orderly(r), Aside(r), NEW s \in Sandboxes
  PROVE  Quiet(s)
  BY UntouchedQuiet DEF Aside

LEMMA OthersQuiet ==
  ASSUME NEW r, OneReplica(r), Orderly(r), NEW p \in Procs, NEW t \in Sandboxes, On(p, r, t),
         NEW s \in Sandboxes \ {t}
  PROVE  Quiet(s)
  <1>1. Untouched(r, s) /\ (s \in born' <=> s \in born)
    BY DEF On
  <1>2. SameJobs(s)
    BY DaemonAssumption DEF On, Frame, SameJobs
  <1> QED BY <1>1, <1>2, UntouchedQuiet

\* What a process does in company shows only if it changes the record or
\* writes into the container.
LEMMA SteadyQuiet ==
  ASSUME NEW r, OneReplica(r), Orderly(r), NEW p \in Procs, NEW t \in Sandboxes, OnSteadily(p, r, t),
         row'[t] = row[t], UNCHANGED <<disk, born>>, target'[p] = t => pc'[p] \notin Creating
  PROVE  \A s \in Sandboxes : Quiet(s)
  <1>0. On(p, r, t) /\ Crowd(t) /\ Fewer(r, t) /\ Steady(r, t)
    BY DEF OnSteadily
  <1> SUFFICES Quiet(t)
    BY <1>0, OthersQuiet
  <1>1. row[t] \in Row
    BY Facts DEF Orderly
  <1>2. Shared(r, t)
    BY <1>0 DEF Orderly, TurnsInv, SandboxOK
  <1>3. CASE row[t] = NoRow
    <2>1. ASSUME NEW q \in Requests, target[q] = t PROVE pc[q] \notin Creating
      BY <1>0, <2>1, ReplicaFacts DEF Crowd, Lone
    <2>2. ASSUME NEW q \in Requests, target'[q] = t PROVE pc'[q] \notin Creating
      BY <1>0, <2>1, <2>2, ReplicaFacts DEF On, Frame
    <2>3. ~BeingCreated(t) /\ ~BeingCreated(t)'
      BY <2>1, <2>2 DEF BeingCreated, Creating
    <2> QED BY <1>3, <2>3, StillAbsent
  <1>4. CASE Runs(t)
    <2>1. ~Gone(r, t) /\ \A i : ~PausedAt(t, i)
      BY <1>4, Records DEF Gone, Runs, PausedAt
    <2>2. PICK c \in Containers : RunningWith(r, t, c)
      BY <1>2, <2>1 DEF Shared
    <2>3. RunningWith(r, t, c)' /\ Runs(t)'
      BY <1>0, <1>4, <2>2 DEF Steady, Runs
    <2> QED BY <1>4, <2>2, <2>3, RunningHeld, RunningHeldNext, StillRunning
  <1>5. CASE row[t].status = "paused"
    <2>1. PICK i \in Images : PausedAt(t, i)
      BY <1>5, WhereItIsPaused
    <2>2. PausedAt(t, i)'
      BY <2>1 DEF PausedAt
    <2> QED BY <2>1, <2>2, StillPaused
  <1> QED BY <1>1, <1>3, <1>4, <1>5, Records DEF Runs

-----------------------------------------------------------------------------
(* The calls nobody sees. *)

LEMMA LookedUpQuiet ==
  ASSUME NEW r, OneReplica(r), Orderly(r), TakingTurns', NEW p \in Procs,
         KillLookup(p) \/ ExecLookup(p) \/ PauseLookup(p) \/ KillUnregister(p) \/ KillStop(p) \/ KillRemove(p)
  PROVE  \A s \in Sandboxes : Quiet(s)
  <1>0. pc[p] \in {"kill.lookup", "exec.lookup", "pause.lookup", "kill.unregister", "kill.stop", "kill.remove"}
    BY DEF KillLookup, ExecLookup, PauseLookup, KillUnregister, KillStop, KillRemove
  <1>a. /\ target[p] \in Sandboxes /\ pc \in [Procs -> RequestPC \cup BootPC \cup ReaperPC]
        /\ \A kind \in {"docker", "db"} : ~Fault(kind)
    BY <1>0, SharedLabels, CompanyFacts
  <1>1. OnSteadily(p, r, target[p])
    BY TurnLookup, TurnPauseLookup, TurnUnregister, TurnStop, TurnRemove
  <1>2. UNCHANGED <<row, disk, born>>
    <2>1. CASE KillLookup(p) \/ ExecLookup(p) \/ PauseLookup(p)
      BY <2>1 DEF KillLookup, ExecLookup, PauseLookup, ContainerFor, daemonVars
    <2>2. CASE KillUnregister(p)
      BY <2>2 DEF KillUnregister, daemonVars
    <2>3. CASE KillStop(p) \/ KillRemove(p)
      BY <1>a, <2>3 DEF KillStop, KillRemove, DockerCall, ContainerStop, ContainerRemove, Unchanged, daemonVars
    <2> QED BY <2>1, <2>2, <2>3
  <1>3. pc'[p] \notin Creating
    <2>1. pc'[p] \in {"kill.unregister", "exec.run", "pause.commit", "kill.stop", "kill.remove", "row.delete",
                      "reap.next", "idle"}
      BY <1>a DEF KillLookup, ExecLookup, PauseLookup, ContainerFor, KillUnregister, KillStop, KillRemove,
                  DockerCall, Goto, Return
    <2> QED BY <2>1 DEF Creating
  <1> QED BY <1>1, <1>2, <1>3, <1>a, SteadyQuiet

LEMMA GetQuiet ==
  ASSUME NEW r, OneReplica(r), Orderly(r), TakingTurns', NEW p \in Procs,
         DeleteGet(p) \/ ExecGet(p) \/ PauseGet(p)
  PROVE  \A s \in Sandboxes : Quiet(s)
  <1>0. pc[p] \in Resting
    BY DEF DeleteGet, ExecGet, PauseGet, Begin, Resting
  <1>1. PICK t \in Sandboxes : OnSteadily(p, r, t)
    BY TurnGet
  <1>2. UNCHANGED <<row, disk, born>>
    BY DEF DeleteGet, ExecGet, PauseGet, daemonVars
  <1>3. pc'[p] \notin Creating
    <2>1. pc'[p] \in {"kill.lookup", "exec.lookup", "pause.lookup"}
      BY <1>0, AtRestFacts DEF DeleteGet, ExecGet, PauseGet, Goto
    <2> QED BY <2>1 DEF Creating
  <1> QED BY <1>1, <1>2, <1>3, SteadyQuiet

LEMMA ReapNextQuiet ==
  ASSUME NEW r, OneReplica(r), Orderly(r), TakingTurns', ReapNext(r),
         ~(\A s \in Sandboxes : queue[r][s] = NoRow)
  PROVE  \A s \in Sandboxes : Quiet(s)
  <1>0. pc[r] = "reap.next" /\ pc[r] \in Resting /\ r \in Procs
    BY ReplicaFacts DEF ReapNext, Resting
  <1>1. PICK t \in Sandboxes : OnSteadily(r, r, t)
    BY TurnReap
  <1>2. UNCHANGED <<row, disk, born>>
    BY DEF ReapNext, daemonVars
  <1>3. pc'[r] \notin Creating
    <2>1. pc'[r] \in {"kill.lookup", "row.delete", "reap.image"}
      BY <1>0, AtRestFacts DEF ReapNext, Goto
    <2> QED BY <2>1 DEF Creating
  <1> QED BY <1>0, <1>1, <1>2, <1>3, SteadyQuiet

\* The id a create has drawn is as new as it was before.
LEMMA CreateBeginQuiet ==
  ASSUME NEW r, OneReplica(r), Orderly(r), NEW p \in Requests, CreateBegin(p)
  PROVE  \A s \in Sandboxes : Quiet(s)
  <1>0. pc[p] \in Resting /\ p \in Procs
    BY ReplicaFacts DEF CreateBegin, Begin, Resting
  <1>a. /\ warm = {} /\ pc \in [Procs -> RequestPC \cup BootPC \cup ReaperPC]
        /\ target \in [Procs -> Sandboxes \cup {Nil}]
    BY <1>0, AtRestFacts
  <1>1. PICK t \in Sandboxes : On(p, r, t)
    BY <1>0, TurnCreateBegin
  <1>2. PICK u \in Sandboxes \ born :
            target' = [target EXCEPT ![p] = u] /\ Goto(p, "create.container")
    BY <1>a DEF CreateBegin, Begin
  <1>3. target'[p] = u /\ pc'[p] = "create.container" /\ u = t
    BY <1>0, <1>1, <1>2, <1>a, DaemonAssumption DEF Goto, On
  <1>4. row[t] = NoRow /\ row' = row
    BY <1>2, <1>3 DEF CreateBegin, Orderly, TurnsInv, Unborn, New
  <1>5. BeingCreated(t)'
    BY <1>3 DEF BeingCreated
  <1>6. Quiet(t)
    BY <1>2, <1>3, <1>4, <1>5, StillAbsent
  <1> QED BY <1>0, <1>1, <1>6, OthersQuiet

LEMMA ResumeGetQuiet ==
  ASSUME NEW r, OneReplica(r), Orderly(r), TakingTurns', NEW p \in Procs, ResumeGet(p)
  PROVE  \A s \in Sandboxes : Quiet(s)
  <1>0. pc[p] \in Resting
    BY DEF ResumeGet, Begin, Resting
  <1>a. target \in [Procs -> Sandboxes \cup {Nil}]
    BY <1>0, AtRestFacts
  <1>1. PICK t \in Sandboxes : On(p, r, t)
    BY TurnResumeGet
  <1>2. PICK u \in Sandboxes : row[u].status = "paused" /\ target' = [target EXCEPT ![p] = u]
    BY DEF ResumeGet, Begin
  <1>3. u = t
    BY <1>1, <1>2, <1>a, DaemonAssumption DEF On
  <1>4. row' = row /\ disk' = disk
    BY DEF ResumeGet, daemonVars
  <1>5. PICK i \in Images : PausedAt(t, i)
    BY <1>2, <1>3, WhereItIsPaused
  <1>6. Quiet(t)
    BY <1>4, <1>5, StillPaused DEF PausedAt
  <1> QED BY <1>1, <1>6, OthersQuiet

\* The calls of a create up to its Save.
LEMMA CreateQuiet ==
  ASSUME NEW r, OneReplica(r), Orderly(r), NEW p \in Procs,
         CreateContainer(p) \/ CreateStart(p) \/ CreateRegister(p)
  PROVE  \A s \in Sandboxes : Quiet(s)
  <1>0. pc[p] \in Lone /\ pc[p] \in Creating
    BY LoneLabels DEF CreateContainer, CreateStart, CreateRegister, Creating
  <1> PICK t, c : t \in Sandboxes /\ t = target[p] /\ c = cid[p]
    BY <1>0, AloneFacts
  <1>a. /\ AtWork(pc[p], c, img[p], r, t) /\ p \in Requests
        /\ pc \in [Procs -> RequestPC \cup BootPC \cup ReaperPC]
        /\ \A kind \in {"docker", "db"} : ~Fault(kind)
    BY <1>0, AloneFacts, Alone, Facts, ReplicaFacts DEF Procs, Orderly
  <1>1. On(p, r, t)
    BY TurnCreate
  <1>2. row[t] = NoRow /\ row' = row
    BY <1>a DEF CreateContainer, CreateStart, CreateRegister, DockerCall, AtWork, New
  <1>3. Exists(c) \/ pc[p] # "create.start"
    BY <1>a DEF AtWork, Has, ContainersOf
  <1>4. target' = target /\ pc'[p] \in Creating
    BY <1>a, <1>3 DEF CreateContainer, CreateStart, CreateRegister, DockerCall, Goto, Creating, jobVars
  <1>5. BeingCreated(t) /\ BeingCreated(t)'
    BY <1>0, <1>4, <1>a DEF BeingCreated, Creating
  <1>6. Quiet(t)
    BY <1>2, <1>5, StillAbsent
  <1> QED BY <1>1, <1>6, OthersQuiet

\* The calls of a pause up to its Save.
LEMMA PauseQuiet ==
  ASSUME NEW r, OneReplica(r), Orderly(r), NEW p \in Procs,
         PauseCommit(p) \/ PauseStop(p) \/ PauseRemove(p) \/ PauseUnregister(p)
  PROVE  \A s \in Sandboxes : Quiet(s)
  <1>0. pc[p] \in Lone
    BY LoneLabels DEF PauseCommit, PauseStop, PauseRemove, PauseUnregister
  <1> PICK t, c : t \in Sandboxes /\ t = target[p] /\ c = cid[p]
    BY <1>0, AloneFacts
  <1>a. /\ AtWork(pc[p], c, img[p], r, t) /\ DaemonTypeOK /\ TypeInv
        /\ \A q \in Procs : target[q] = t => q = p
        /\ c \in Containers \cup {Nil} /\ \A kind \in {"docker", "db"} : ~Fault(kind)
    BY <1>0, AloneFacts, Alone
  <1>b. On(p, r, t)
    BY TurnPause
  <1>1. Runs(t) /\ Stores(t, c) /\ mapping[r][t] \in {c, Nil}
    BY <1>a DEF PauseCommit, PauseStop, PauseRemove, PauseUnregister, AtWork, Has
  <1>2. c \in Containers
    BY <1>1, <1>a, DaemonAssumption DEF Stores
  <1>3. SUFFICES ASSUME row' = row, target' = target, cid' = cid, disk'[c] = disk[c], mapping'[r][t] \in {c, Nil}
                 PROVE  \A s \in Sandboxes : Quiet(s)
    <2>1. CASE PauseUnregister(p)
      <3>1. SetMapping(p, Nil) /\ row' = row /\ target' = target /\ cid' = cid /\ disk' = disk
        BY <2>1 DEF PauseUnregister, jobVars, daemonVars
      <3>2. mapping'[r][t] = Nil
        BY <1>a, <3>1, MappingSet
      <3> QED BY <3>1, <3>2
    <2>2. CASE PauseStop(p) \/ PauseRemove(p)
      <3>1. Exists(c)
        BY <1>a, <2>2 DEF PauseStop, PauseRemove, AtWork, Has, ContainersOf
      <3> QED BY <1>1, <1>a, <2>2, <3>1 DEF PauseStop, PauseRemove, DockerCall, ContainerStop, ContainerRemove, jobVars
    <2>3. CASE PauseCommit(p)
      <3>1. Exists(c)
        BY <1>a, <2>3 DEF PauseCommit, AtWork, Has, ContainersOf
      <3>2. PICK i \in Images : ContainerCommit(c, i) /\ UNCHANGED <<row, mapping, target, cid>>
        BY <1>a, <2>3, <3>1 DEF PauseCommit
      <3>3. disk'[c] = disk[c]
        BY <1>2, <1>a, <3>2, DaemonAssumption DEF ContainerCommit, DaemonTypeOK
      <3> QED BY <1>1, <3>2, <3>3
    <2> QED BY <2>1, <2>2, <2>3
  <1>4. Held(r, t, c) /\ Held(r, t, c)'
    BY <1>1, <1>3, <1>a DEF Held
  <1>5. Runs(t)'
    BY <1>1, <1>3 DEF Runs
  <1>6. Quiet(t)
    BY <1>1, <1>2, <1>3, <1>4, <1>5, StillRunning
  <1> QED BY <1>6, <1>b, OthersQuiet

\* The calls of a resume up to its Save.
LEMMA ResumeQuiet ==
  ASSUME NEW r, OneReplica(r), Orderly(r), NEW p \in Procs,
         ResumeContainer(p) \/ ResumeStart(p) \/ ResumeRegister(p)
  PROVE  \A s \in Sandboxes : Quiet(s)
  <1>0. pc[p] \in Lone
    BY LoneLabels DEF ResumeContainer, ResumeStart, ResumeRegister
  <1> PICK t, c, i : t \in Sandboxes /\ t = target[p] /\ c = cid[p] /\ i = img[p]
    BY <1>0, AloneFacts
  <1>a. /\ AtWork(pc[p], c, i, r, t) /\ DaemonTypeOK /\ \A kind \in {"docker", "db"} : ~Fault(kind)
    BY <1>0, AloneFacts
  <1>b. On(p, r, t)
    BY TurnResume
  <1>1. PausedAt(t, i) /\ ImagesOf(t) \ cleanup[r] = {i}
    BY <1>a DEF ResumeContainer, ResumeStart, ResumeRegister, AtWork, Has
  <1>2. i \in Images
    BY <1>1 DEF ImagesOf
  <1>3. Exists(c) \/ pc[p] # "resume.start"
    BY <1>a DEF AtWork, Has, ContainersOf
  <1>4. row' = row /\ disk'[i] = disk[i]
    <2>1. CASE ResumeContainer(p)
      BY <1>a, <1>2, <2>1, DaemonAssumption DEF ResumeContainer, ContainerCreate, DaemonTypeOK, Unchanged, daemonVars
    <2>2. CASE ResumeStart(p)
      BY <1>a, <1>3, <2>2 DEF ResumeStart, DockerCall, ContainerStart
    <2>3. CASE ResumeRegister(p)
      BY <2>3 DEF ResumeRegister, daemonVars
    <2> QED BY <2>1, <2>2, <2>3
  <1>5. Quiet(t)
    BY <1>1, <1>2, <1>4, StillPaused DEF PausedAt
  <1> QED BY <1>5, <1>b, OthersQuiet

-----------------------------------------------------------------------------
(* The steps clients see, each one step of the service. *)

LEMMA Moves ==
  ASSUME NEW t \in Sandboxes, NEW from, NEW to, \A s \in Sandboxes \ {t} : Quiet(s),
         ServiceStatus(t) = from, ServiceStatus(t)' = to
  PROVE  Service!Move(t, from, to)
  BY DEF Quiet, Service!Move

\* Each Save of a record is the operation of the service it ends.
LEMMA SavesSeen ==
  ASSUME NEW r, OneReplica(r), Orderly(r), NEW p \in Procs, CreateSave(p) \/ PauseSave(p) \/ ResumeSave(p)
  PROVE  /\ CreateSave(p) => Service!Create(target[p])
         /\ PauseSave(p) => Service!Pause(target[p])
         /\ ResumeSave(p) => Service!Resume(target[p])
  <1>0. pc[p] \in Lone
    BY LoneLabels DEF CreateSave, PauseSave, ResumeSave
  <1> PICK t, c, i : t \in Sandboxes /\ t = target[p] /\ c = cid[p] /\ i = img[p]
    BY <1>0, AloneFacts
  <1>a. /\ AtWork(pc[p], c, i, r, t) /\ row \in [Sandboxes -> Row] /\ p \in Requests
        /\ c \in Containers \cup {Nil}
        /\ \A kind \in {"docker", "db"} : ~Fault(kind)
        /\ \A q \in Procs : target[q] = t => q = p
    BY <1>0, AloneFacts, Alone, ReplicaFacts DEF Procs
  <1>b. \A s \in Sandboxes \ {t} : Quiet(s)
    BY TurnCreate, TurnPause, TurnResume, OthersQuiet
  <1>c. disk' = disk /\ mapping' = mapping
    BY DEF CreateSave, PauseSave, ResumeSave, daemonVars
  <1>d. DataIs(r, t) /\ DataIs(r, t)'
    BY DataNow, DataThen
  <1>e. ASSUME ServiceData(t)' = ServiceData(t)
        PROVE  UNCHANGED [s \in Sandboxes |-> ServiceData(s)]
    BY <1>b, <1>e DEF Quiet
  <1>1. ASSUME CreateSave(p) PROVE Service!Create(t)
    <2>1. row[t] = NoRow /\ Has(r, t, {c}, c, {}) /\ disk[c] = {} /\ BeingCreated(t)
      BY <1>a, <1>1 DEF CreateSave, AtWork, New, BeingCreated
    <2>2. row'[t] = RunningRow
      BY <1>a, <1>1 DEF CreateSave, RowCall
    <2>3. ServiceStatus(t) = "new" /\ ServiceStatus(t)' = "running"
      BY <2>1, <2>2, StatusIs, StatusIsNext, Records
    <2>4. c \in Containers /\ Held(r, t, c)' /\ Runs(t)'
      BY <1>c, <2>1, <2>2, Records DEF Has, ContainersOf, Held, Runs
    <2>5. ServiceData(t) = {} /\ ServiceData(t)' = {}
      BY <1>c, <1>d, <2>1, <2>4 DEF DataIs
    <2> QED BY <1>b, <1>e, <2>3, <2>5, Moves DEF Service!Create
  <1>2. ASSUME PauseSave(p) PROVE Service!Pause(t)
    <2>1. Runs(t) /\ Has(r, t, {}, Nil, {i}) /\ Stores(t, c) /\ disk[i] = disk[c]
      BY <1>a, <1>2 DEF PauseSave, AtWork
    <2>2. row'[t] = PausedRow(i) /\ PausedAt(t, i)'
      BY <1>a, <1>2, Records DEF PauseSave, RowCall, PausedAt
    <2>3. ServiceStatus(t) = "running" /\ ServiceStatus(t)' = "paused"
      BY <2>1, <2>2, StatusIs, StatusIsNext, Records DEF Runs
    <2>4. i \in Images /\ c \in Containers /\ Held(r, t, c)
      BY <1>a, <2>1, DaemonAssumption DEF Has, ImagesOf, Stores, Held
    <2>5. ServiceData(t) = disk[c] /\ ServiceData(t)' = disk'[i]
      BY <1>d, <2>1, <2>2, <2>4 DEF DataIs
    <2> QED BY <1>b, <1>c, <1>e, <2>1, <2>3, <2>5, Moves DEF Service!Pause
  <1>3. ASSUME ResumeSave(p) PROVE Service!Resume(t)
    <2>1. PausedAt(t, i) /\ Has(r, t, {c}, c, {i}) /\ disk[c] = disk[i]
      BY <1>a, <1>3 DEF ResumeSave, AtWork
    <2>2. row'[t] = RunningRow
      BY <1>a, <1>3 DEF ResumeSave
    <2>3. ServiceStatus(t) = "paused" /\ ServiceStatus(t)' = "running"
      BY <2>1, <2>2, StatusIs, StatusIsNext, Records DEF PausedAt
    <2>4. i \in Images /\ c \in Containers /\ Held(r, t, c)' /\ Runs(t)'
      BY <1>c, <2>1, <2>2, Records DEF Has, ContainersOf, ImagesOf, Held, Runs
    <2>5. ServiceData(t) = disk[i] /\ ServiceData(t)' = disk'[c]
      BY <1>d, <2>1, <2>4 DEF DataIs
    <2> QED BY <1>b, <1>c, <1>e, <2>1, <2>3, <2>5, Moves DEF Service!Resume
  <1> QED BY <1>1, <1>2, <1>3

\* Of those that delete the record of a sandbox the first is seen to.
LEMMA DeleteSeen ==
  ASSUME NEW r, OneReplica(r), Orderly(r), NEW p \in Procs, DeleteRow(p)
  PROVE  Service!Delete(target[p]) \/ \A s \in Sandboxes : Quiet(s)
  <1>0. pc[p] \notin Resting /\ pc[p] \notin Lone /\ pc[p] = "row.delete"
    BY SharedLabels DEF DeleteRow
  <1> PICK t : t \in Sandboxes /\ t = target[p]
    BY <1>0, CompanyFacts
  <1>a. /\ Working(p, r, t) /\ row \in [Sandboxes -> Row] /\ Crowd(t) /\ t \in born
        /\ target \in [Procs -> Sandboxes \cup {Nil}] /\ t # Nil
        /\ ~Fault("db")
    BY <1>0, CompanyFacts, Company
  <1>b. On(p, r, t)
    BY TurnDelete
  <1>c. \A s \in Sandboxes \ {t} : Quiet(s)
    BY <1>b, OthersQuiet
  <1>1. row'[t] = NoRow /\ target'[p] = Nil /\ born' = born
    BY <1>a DEF DeleteRow, RowCall, Return
  <1>2. ~BeingCreated(t)
    BY <1>a, ReplicaFacts, LoneLabels DEF Crowd, BeingCreated
  <1>3. ~BeingCreated(t)'
    <2>1. SUFFICES ASSUME NEW q \in Requests, target'[q] = t,
                          pc'[q] \in {"create.container", "create.start", "create.register", "create.save"}
                   PROVE  FALSE
      BY DEF BeingCreated
    <2>2. q # p /\ target[q] = t /\ pc[q] = pc'[q]
      BY <1>1, <1>a, <1>b, <2>1, ReplicaFacts DEF On, Frame
    <2> QED BY <1>a, <2>1, <2>2, ReplicaFacts, LoneLabels DEF Crowd
  <1>4. CASE row[t] = NoRow
    <2>1. Quiet(t)
      BY <1>1, <1>2, <1>3, <1>4, StillAbsent
    <2> QED BY <1>c, <2>1
  <1>5. CASE row[t] # NoRow
    <2>1. ServiceStatus(t) \in {"running", "paused"} /\ ServiceStatus(t)' = "gone"
      <3>1. row[t].status \in {"running", "paused"}
        BY <1>5, <1>a, Records
      <3> QED BY <1>1, <1>3, <1>5, <1>a, <3>1, StatusIs, StatusIsNext
    <2>2. ServiceData(t)' = {}
      BY <1>1, DataThen DEF DataIs
    <2>3. [s \in Sandboxes |-> ServiceData(s)]' = [[s \in Sandboxes |-> ServiceData(s)] EXCEPT ![t] = {}]
      BY <1>c, <2>2 DEF Quiet
    <2>4. Service!Move(t, ServiceStatus(t), "gone")
      BY <1>c, <2>1, Moves
    <2> QED BY <2>1, <2>3, <2>4 DEF Service!Delete
  <1> QED BY <1>4, <1>5

LEMMA WriteSeen ==
  ASSUME NEW r, OneReplica(r), Orderly(r), NEW p \in Procs, ExecRun(p)
  PROVE  Service!Write(target[p]) \/ \A s \in Sandboxes : Quiet(s)
  <1>0. pc[p] \notin Resting /\ pc[p] \notin Lone /\ pc[p] = "exec.run"
    BY SharedLabels DEF ExecRun
  <1> PICK t, c : t \in Sandboxes /\ t = target[p] /\ c = cid[p]
    BY <1>0, CompanyFacts
  <1>a. /\ TypeInv /\ OwnerInv /\ DaemonTypeOK /\ Working(p, r, t) /\ Shared(r, t) /\ ~Fault("docker")
        /\ target \in [Procs -> Sandboxes \cup {Nil}] /\ t # Nil
    BY <1>0, CompanyFacts, Company
  <1>b. OnSteadily(p, r, t) /\ On(p, r, t) /\ Steady(r, t)
    BY TurnExec DEF OnSteadily
  <1>c. \A s \in Sandboxes \ {t} : Quiet(s)
    BY <1>b, OthersQuiet
  <1>d. row' = row /\ born' = born /\ target'[p] = Nil
    BY <1>a DEF ExecRun, Return
  <1>1. CASE ~Exists(c)
    <2>1. disk' = disk
      BY <1>1 DEF ExecRun, Unchanged, daemonVars
    <2> QED BY <1>a, <1>b, <1>d, <2>1, SteadyQuiet
  <1>2. CASE Exists(c)
    <2>1. ContainersOf(t) = {c} /\ c \in Containers
      BY <1>0, <1>2, <1>a, HeldExists DEF Working, ContainersOf
    <2>2. PICK d \in Containers : Runs(t) /\ RunningWith(r, t, d)
      BY <1>a, <2>1 DEF Shared, Gone, PausedWith, Has
    <2>3. d = c
      BY <2>1, <2>2 DEF RunningWith, Has
    <2>4. Runs(t)' /\ Held(r, t, c) /\ Held(r, t, c)'
      BY <1>b, <1>d, <2>2, <2>3, RunningHeld, RunningHeldNext DEF Steady, Runs
    <2>5. PICK new \in {{}} \cup {{w} : w \in Fresh} : ContainerWrite(c, new)
      BY <1>2, <1>a DEF ExecRun
    <2>6. disk'[c] = disk[c] \cup new
      BY <1>a, <2>1, <2>5 DEF ContainerWrite, DaemonTypeOK
    <2>7. ServiceStatus(t) = "running" /\ ServiceStatus(t)' = "running"
      BY <2>2, <2>4, StatusIs, StatusIsNext, Records DEF Runs
    <2>8. ServiceData(t) = disk[c] /\ ServiceData(t)' = disk[c] \cup new
      BY <2>1, <2>2, <2>4, <2>6, DataNow, DataThen DEF DataIs
    <2>9. CASE new = {}
      BY <1>c, <2>7, <2>8, <2>9 DEF Quiet
    <2>10. CASE new # {}
      <3>1. PICK w \in Fresh : new = {w}
        BY <2>5, <2>10
      <3>2. w \in Writes \ ServiceData(t)
        BY <2>1, <2>8, <3>1 DEF Fresh
      <3>3. [s \in Sandboxes |-> ServiceData(s)]'
               = [[s \in Sandboxes |-> ServiceData(s)] EXCEPT ![t] = @ \cup {w}]
        BY <1>c, <2>8, <3>1 DEF Quiet
      <3>4. UNCHANGED [s \in Sandboxes |-> ServiceStatus(s)]
        BY <1>c, <2>7 DEF Quiet
      <3> QED BY <2>7, <3>2, <3>3, <3>4 DEF Service!Write
    <2> QED BY <2>9, <2>10
  <1> QED BY <1>1, <1>2

\* The record of a sandbox whose image the reaper has removed still says that
\* it is paused.
LEMMA ImageReapedQuiet ==
  ASSUME NEW r, OneReplica(r), Orderly(r), ReapImage(r)
  PROVE  \A s \in Sandboxes : Quiet(s)
  <1>0. r \in Procs /\ pc[r] \notin Resting /\ pc[r] \notin Lone /\ pc[r] = "reap.image"
    BY SharedLabels, ReplicaFacts DEF ReapImage
  <1> PICK t, i : t \in Sandboxes /\ t = target[r] /\ i = img[r]
    BY <1>0, CompanyFacts
  <1>1. On(r, r, t)
    BY TurnImage
  <1>2. PausedAt(t, i)
    BY <1>0, CompanyFacts DEF Working
  <1>3. i \in Images
    BY <1>0, <1>2, WhereItIsPaused DEF PausedAt
  <1>4. UNCHANGED <<row, disk>>
    BY DEF ReapImage, DockerCall, ImageRemove, Unchanged, daemonVars
  <1>5. Quiet(t)
    BY <1>2, <1>3, <1>4, StillPaused DEF PausedAt
  <1> QED BY <1>0, <1>1, <1>5, OthersQuiet

-----------------------------------------------------------------------------
LEMMA InitRefines == ASSUME Init PROVE Service!Init
  <1>1. \A s \in Sandboxes : row[s] = NoRow /\ s \notin born
    BY DEF Init
  <1>2. \A s \in Sandboxes : ServiceStatus(s) = "new"
    BY <1>1, StatusIs
  <1>3. \A s \in Sandboxes : ServiceData(s) = {}
    BY <1>1, Records DEF ServiceData, Holding
  <1> QED BY <1>2, <1>3 DEF Service!Init

LEMMA HandlerRefines ==
  ASSUME NEW r, OneReplica(r), Orderly(r), TakingTurns', NEW p \in Procs, Handler(p)
  PROVE  \/ \E s \in Sandboxes : \/ Service!Create(s) \/ Service!Write(s) \/ Service!Pause(s)
                                 \/ Service!Resume(s) \/ Service!Delete(s)
         \/ \A s \in Sandboxes : Quiet(s)
  <1>a. pc[p] \in Lone \cup {"row.delete", "exec.run"} => target[p] \in Sandboxes
    BY SharedLabels, AloneFacts, CompanyFacts
  <1>1. CASE CreateBegin(p)
    BY <1>1, CreateBeginQuiet DEF CreateBegin, Begin
  <1>2. CASE DeleteGet(p) \/ ExecGet(p) \/ PauseGet(p)
    BY <1>2, GetQuiet
  <1>3. CASE ResumeGet(p)
    BY <1>3, ResumeGetQuiet
  <1>4. CASE \/ KillLookup(p) \/ ExecLookup(p) \/ PauseLookup(p)
             \/ KillUnregister(p) \/ KillStop(p) \/ KillRemove(p)
    BY <1>4, LookedUpQuiet
  <1>5. CASE CreateContainer(p) \/ CreateStart(p) \/ CreateRegister(p)
    BY <1>5, CreateQuiet
  <1>6. CASE PauseCommit(p) \/ PauseStop(p) \/ PauseRemove(p) \/ PauseUnregister(p)
    BY <1>6, PauseQuiet
  <1>7. CASE ResumeContainer(p) \/ ResumeStart(p) \/ ResumeRegister(p)
    BY <1>7, ResumeQuiet
  <1>8. CASE CreateSave(p) \/ PauseSave(p) \/ ResumeSave(p)
    <2>1. target[p] \in Sandboxes
      BY <1>8, <1>a, LoneLabels DEF CreateSave, PauseSave, ResumeSave
    <2> QED BY <1>8, <2>1, SavesSeen
  <1>9. CASE DeleteRow(p)
    BY <1>9, <1>a, DeleteSeen DEF DeleteRow
  <1>10. CASE ExecRun(p)
    BY <1>10, <1>a, WriteSeen DEF ExecRun
  <1> QED BY <1>1, <1>2, <1>3, <1>4, <1>5, <1>6, <1>7, <1>8, <1>9, <1>10 DEF Handler, Create, Kill, Exec, Pause, Resume

LEMMA StepRefines ==
  ASSUME NEW r, OneReplica(r), Orderly(r), TakingTurns', [Next]_vars
  PROVE  [Service!Next]_<<[s \in Sandboxes |-> ServiceStatus(s)], [s \in Sandboxes |-> ServiceData(s)]>>
  <1>0. r \in Procs /\ \A p \in Requests : p \in Procs
    BY ReplicaFacts
  <1>1. ASSUME NEW p \in Procs, Handler(p) PROVE Service!Next \/ \A s \in Sandboxes : Quiet(s)
    BY <1>1, HandlerRefines DEF Service!Next
  <1>2. CASE \/ ReapNext(r) /\ ~\A s \in Sandboxes : queue[r][s] = NoRow
             \/ ReapImage(r)
    BY <1>2, ReapNextQuiet, ImageReapedQuiet DEF Quiet
  <1>3. CASE \/ /\ Reconcile(r) \/ Reap(r)
                /\ ~ReapImage(r)
                /\ ReapNext(r) => \A s \in Sandboxes : queue[r][s] = NoRow
             \/ CleanupImage(r)
             \/ \E k \in Locks : LeaseExpires(k)
             \/ \E s \in Sandboxes : Expire(s)
             \/ \E c \in Containers : ContainerExit(c)
             \/ UNCHANGED vars
    <2>1. Aside(r)
      BY <1>3, AsideThread, AsideCleanup, AsideElse
    <2> QED BY <2>1, AsideQuiet DEF Quiet
  <1>4. CASE \E p \in Procs : Handler(p)
    BY <1>1, <1>4 DEF Quiet
  <1> QED BY <1>0, <1>2, <1>3, <1>4, OneReplicaNext DEF Handler

\* For clients that take turns the service does each operation in one step, at
\* the Save or Delete of its record or at the write into the container: the
\* other calls its handlers make, the kills of one sandbox that run into each
\* other, the reaper, the start-up reconciliation and the clean-up of images
\* change nothing that a client sees.
THEOREM ServiceImplemented ==
  ASSUME NEW r, OneReplica(r) PROVE Spec /\ []TakingTurns => ServiceSpec
<1>1. Init => Service!Init
    BY InitRefines
<1>2. Orderly(r) /\ TakingTurns' /\ [Next]_vars
        => [Service!Next]_<<[s \in Sandboxes |-> ServiceStatus(s)], [s \in Sandboxes |-> ServiceData(s)]>>
    BY StepRefines
<1> QED
    BY <1>1, <1>2, InOrder, PTL DEF Spec, ServiceSpec, Service!Spec, Service!serviceVars

\* So for one client that sends one request after the other, and for any
\* number of them that never pause, all three hold without a word about turns.
THEOREM InTurnAllHold ==
  ASSUME NEW r, OneReplica(r), InTurn
  PROVE  Spec => []RecordIsTruth /\ []AckedDataSurvives /\ ServiceSpec
<1>1. Spec /\ []TakingTurns => ServiceSpec
    BY ServiceImplemented
<1> QED
    BY <1>1, TurnsAreTaken, RecordTellsTruth, AckedIsKept, PTL

=============================================================================
