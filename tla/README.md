# Cage in TLA+

Cage is a server that runs untrusted code in sandboxes. This directory holds
TLA+ models of its parts that keep state, the TLC configurations that check
them on small instances, and proofs, checked by TLAPS, that the main properties hold for all
instances. Paths below are relative to the repository's source; line numbers
of every modelled definition are in `PROJECT.json` (`map`).

## 1. Inventory

| Component | State it keeps | Operations | Talks to |
|---|---|---|---|
| REST handlers (`internal/api/handlers.go`) | none; local variables of each request | create, delete, exec, read and write file, pause, resume, list, get | store, backend, pool |
| Docker backend adapter (`internal/sandbox/adapter.go`) | in-memory map sandbox -> container, under a mutex | create, kill, exec, files, pause, resume, remove image, is-running, adopt | Docker manager; used by handlers, reaper, reconciliation, pool |
| Docker manager (`internal/sandbox/sandbox.go`) | none | sequences of Docker calls | Docker daemon |
| Metadata store (`internal/store`) | table `sandboxes` (status, `paused_image_id`, `expires_at`) | upsert, delete, get, list, list expired | Postgres |
| Reaper (`internal/reaper`) | ticker; snapshot of the expired rows | lock, list, kill or remove image, delete row, release | lock, store, backend |
| Reconciliation (`internal/reconcile`) | snapshot of the rows | at start-up: list, is-running, delete | lock, store, backend |
| Distributed lock (`internal/lock`) | one Redis key with a time to live; the instance's token | try-acquire, renew, release | Redis |
| Warm pool (`internal/pool`) | two channels per template; maintainer goroutine | fill, top up, take | backend; used by create |
| Server (`cmd/cage/main.go`) | wiring, root context | boot, graceful shutdown | all of the above |
| Firecracker backend (`internal/firecracker`) | map of running VMs, pause directories and root filesystems on disk, tap devices and addresses | create, kill, pause (snapshot), resume, exit watcher | VM processes, guest agent |
| Guest agent, shell bridge (`guest-agent`, `internal/api/shell.go`) | connections, pump goroutines | exec, files, interactive shell | each other, over vsock and WebSocket |
| Rate limiter (`internal/ratelimit`) | a token bucket per key in Redis | allow (Lua script) | Redis; fails open |
| API keys and their cache (`internal/api/middleware.go`, `internal/cache`) | verdicts with a life of 5 minutes | validate | Redis, store |
| Terminal UI (`cli/tui`) | message-loop model | key presses, refresh, results | REST interface |
| CLI, Go SDK, config, logging, metrics, migrations | none that changes | | |

What is hard, and what makes each part correct:

* **Handlers, adapter and reaper** have no mutual exclusion per sandbox. Every
  Docker or database call of one interleaves with every call of another,
  daemon calls fail half done, replicas crash, each replica has its own map.
  Correct: no resources or data pass between sandboxes; a paused record stays
  resumable; clean-up spares what is referred to; records are dropped only when
  their container or image is gone; expired sandboxes go away; to clients
  that take turns at a sandbox, every operation looks indivisible.
* **The lock** must keep replicas apart though answers are lost, commands are
  repeated by the client or run late, leases run out and replicas restart.
* **The pool** is shared by all create handlers and a maintainer with a select
  over three events. Correct: a container goes to one request, none is made in
  excess, the pool is filled again whatever happened.
* **Firecracker**: the exit watcher works against kill, pause and resume on a
  map that is read under a mutex and used after it; calls to the VM, the network,
  the disk and the database fail in the middle of each operation, and clean-ups fail
  with no more than a line in the log. Correct: no address twice, no process that
  nobody can kill, no manifest without its snapshot, nothing left of a deleted
  sandbox, no dead VM on the list of running ones.
* **Shell**: four copying loops with bounded buffers between them, ended from
  either side. Correct: nothing lost or reordered, and the handler ends.
* **Rate limiter**: replicas with clocks of their own write one bucket.
  **Key cache**: a verdict outlives a revocation. Correct: how much, and how
  long, in terms of the TTLs and timeouts.
* **UI**: answers of commands overtake one another and find another screen.
  Correct: it never waits for nothing, timers go on, the list converges.

`PROJECT.json` lists each hazard at its line, with the properties aimed at it.

## 2. Modules

| Module | Models |
|---|---|
| `DockerDaemon` | the daemon as the code uses it: containers and images with their data; operations only, extended by the next |
| `SandboxLifecycle`, `SandboxLifecycle_proofs` | handlers, adapter, store, reaper and reconciliation of several replicas; its theorems for any number of clients |
| `SandboxTurns_proofs` | its theorems for one replica whose clients take turns, with the refinement of `SandboxService` |
| `SandboxService` | abstract specification: the service as clients that take turns see it; implemented by `SandboxLifecycle` |
| `Lease` | abstract specification: what a lease promises to its holders |
| `DistributedLock`, `DistributedLock_proofs` | `internal/lock` on Redis with time, lost answers and late commands; implements `Lease`; its theorems, with the refinement |
| `WarmPool`, `WarmPool_proofs` | `internal/pool` and the create handler's use of it; its theorems |
| `FirecrackerManager`, `FirecrackerManager_proofs` | `internal/firecracker`'s manager and network, with the handlers and the reaper on top; its theorems |
| `ShellSession`, `ShellSession_proofs` | one interactive shell, from the client through `internal/api/shell.go` to Docker's exec or the guest agent; its theorems |
| `RequestGate`, `RequestGate_proofs` | API key lookup with its cache, then the rate limiter; its theorems |
| `TuiModel`, `TuiModel_proofs` | the message loop of `cli/tui`; its theorems |
| `MC...` | instances for TLC, where a configuration needs more than constants; `ShellSession` and `TuiModel` are run as they are |

### SandboxLifecycle and the code

A process is a request or a replica's background thread (boot: `Reconcile`;
then the reaper). `pc` names the call it makes next, `target`, `cid` and `img`
are its local variables. Each call to Docker, to the database or to the
mutex-guarded map is one action, since that is the grain at which processes
interleave: `PauseSandbox` is `PauseGet`, `PauseLookup`, `PauseCommit`,
`PauseStop`, `PauseRemove`, `PauseUnregister`, `PauseSave`. Reads that end in an
early return without an effect are no steps.

* `row` is the table; `mapping[r]` is the map of replica `r`; `queue[r]` the
  snapshot a reaper or reconciliation works through; `cleanup[r]` the detached
  goroutines that remove an image after a resume.
* A failing call (`Fault`) takes effect or not, and returns an error. That also
  covers a cancelled request context, whose calls fail from then on one by one.
* A file write or exec stores a piece of data in the container's `disk`; commit
  copies it to an image and resume back; `acked` is what clients were told.
* `Expire` lets the time of a row pass; `LeaseExpires` ends a lease - under a
  live holder only if `LeaseLoss`; `Crash` loses all of a replica's memory.
* An adopted warm container is registered with the pool's placeholder id, as
  the code does; the daemon knows no such id.

The template image, resource limits, environment, output and names are data
no property tells apart and are left out. The history variables are `madeFor`,
`acked` and `born`.

`ServiceSpec` maps this to `SandboxService`: a sandbox's status is its record's,
and its data is found in the recorded image, in the mapped container, or - after
the map entry is gone and before the record is written - in the container the
handler at work has looked up. Every call then maps to no step of the service but the
one that commits the operation. The service's delete is of a running or a paused
sandbox, but the code carries it out for a paused one only in the reaper: a DELETE
request finds no container in the map and fails (`DeletePaused`, section 4).

### DistributedLock and the code

An instance is the lock object of one life of a replica: it draws its token
once. A call is sent, run by Redis (`Execute`), and answered; or it fails
(`Fail`), in which case its command may have run, may never run, or - for the
operations in `LateOps` - may still run later, also after the client's automatic
retry. The scripts compare tokens as the Lua code does. `Renew` multiplies the
time to live as the code's microseconds do, by `Scale`.

### WarmPool and the code

One template; the channels `warm` and `refill` are a sequence and a count. The
maintainer's program counter follows `maintain`, `topUp` and `spawnOne`; the
handlers are at the points of `Take` and of `CreateSandbox` around it. `gone`
are clients whose request context is done, `cancelled` is the root context.
A container that could not be started is left out here; `SandboxLifecycle` has
that case.

### FirecrackerManager and the code

A request is a handler or the reaper on one row. `running` is the manager's map,
which the mutex guards; `inst` is the instance a request took from it, or the
process it has just spawned. VM processes are numbered in the order they are
spawned, and `vm` says what each does ("blank" before boot, "up", "frozen",
"dead"); `sock` says which process listens on a sandbox's socket path, for a
call goes to the path and not to a process. `rootfs` and `dir` are the files that outlive
the process; `nextIP` and `released` are the address counter and the stack of
returned ones, `lease` the address a tap device was set up for.

* `CreateTap`, `CreateSpawn`, `CreateBoot`, `CreateRegister` are the parts of
  `CreateSandbox`, each with what its error paths clean up: those of `CreateSpawn`
  leave tap device and address, those of `CreateBoot` call `Rollback`.
* `KillTake` removes the entry under the mutex and then works outside it.
  `KillThen` skips the tap device of an entry without address.
* Pausing is freeze, snapshot, manifest, kill, forget, and then the handler's
  save; `PauseSnapshot`'s error path removes the directory and goes on.
* A removal whose error is only logged or dropped (the root filesystem by
  `Cleanup`, the pause directory, a stale socket, the files of `RemoveImage`) may do
  nothing and the code goes on (fault kind "remove"): `TryRemoveRootfsFile`,
  `TryRemoveDir`, `RemovePart`. `refused` is history: the sandboxes this has
  happened to.
* `WatchExit` is the watcher's goroutine: it drops the entry if it is still that
  of its process. `VMExit` ends a process at any time.
* `Restart` loses the map, the counter, the handlers and the watchers; VMs,
  files and tap devices outlive the server.

### ShellSession and the code

Both backends are in one module: `backend` is chosen in `Init`. On either there
is the client, the handler's main loop (`host`) and its pump; on Firecracker
the agent's loop (`guest`), its pump and the frames between; on Docker the daemon
copies. Sockets and the terminal hold `Cap` pieces, and a writer waits for room.
Output is numbered as the shell writes it, so that a gap, a cut or a swap shows;
`Copied` is the copy into the caller's buffer that drops what does not fit.
The deferred calls of a returning function are one step (`HostReturn`).

### RequestGate and the code

One API key. `Arrive`, `CacheGet`, `Validate`, `CacheSet` and `Limit` are the
calls a request makes; between two of them time passes, at most `MaxDelay` (the
timeouts of the Redis and database clients). `Script` is the Lua script: it
works with the clock reading of the request's replica (`Skew` ahead of Redis's)
and the expiry that Redis counts. Errors fail open as in the code: a cache error goes to the
database, a limiter error passes. `served` and `rewound` are history: requests
passed, and how far the script has set `last_refill` back.

### TuiModel and the code

Each action is one message `Update` handles, with the commands it returns put
into `cmds`; a command is sent, served by the server at some time and answered.
`server` is what the REST interface would list, changed by other clients and the reaper
too; it refuses to delete a sandbox that is not running, which the reaper may still remove.
`Tick` and `SplashTick` are the two timers, counted in `ticks` and `splashTicks`.
`asked` is history: what was selected when the prompt was shown.

## 3. What is checked

All runs are exhaustive on their instance. "Violation" runs are in section 4.

| Run | Instance | Shows |
|---|---|---|
| `Serial` | 2 sandboxes, 1 request at a time, 3 containers, 2 images, 2 data, no failures | `RecordIsTruth`, `AckedDataSurvives` after any sequence of operations; `ServiceSpec`, the refinement of `SandboxService` |
| `Races` | 2 sandboxes, 2 requests and the reaper, 2 containers, 2 images, a warm start, expiry; create, exec, pause, resume | `OwnResources`, `NoForeignData`, `PausedIsResumable` |
| `Faults` | 2 replicas, 2 requests, 1 sandbox, 2 containers, one failure of any kind, one crash, expiry, all operations | `TypeOK`, `CleanupIsUnreferenced`, `PauseRecorded`, `ForgetsOnlyWhatIsGone`, `OneReaper` |
| `Reaping` | 2 sandboxes, create, delete and exec, two Redis failures or exits, fair | `ExpiredIsReaped`, `RecordIsTruth` |
| `Lock` | 2 replicas and a restart (3 tokens), ttl of 1 tick, renewals (to 3 ticks), late acquires and renewals, fair | `LeaderHolds`, `LeaseSpec` (refinement), `DeadLeaseEnds` |
| `Pool` | a pool of 2, 2 requests, one failing call, one death, hang-ups, shutdown, fair | `TypeOK`, `HandedOutOnce`, `NoExcess`, `KeepsFilling` |
| `Fleet` | 2 sandboxes, 2 VMs, a client and the reaper at the same time, two failures of VM calls, files, spawning, network and exits, fair | `TypeOK`, `AddressesApart`, `NoOrphan`, `DeadIsForgotten` |
| `Snapshots` | 2 sandboxes, 3 VMs, one request at a time, two failures of VM calls, spawning, network and exits, any number of failed removals, one restart | `ManifestHasSnapshot`, `FirstPauseIsRestorable`, `NothingLeftBehind` |
| `Shell` | both backends, 3 inputs, 3 outputs, sockets of 1 and buffers of 2 pieces, fair | `OutputInOrder`, `InputInOrder`, `OutputArrives`, `HandlerEnds` |
| `Gate` | 2 requests, one clock 1 ahead, calls up to 1 late, a bucket of 1 request and a half, 6 ticks, one failure | `TypeOK`, `StaleIsBounded`, `RateIsBounded` |
| `Tui` | 1 sandbox and 1 to come, 2 commands in flight, 3 keys, one change by others, one failure, fair | `TypeOK`, `WaitsForSomething`, `TimersApart`, `ListConverges` |

Why these bounds.

* *Lifecycle.* A race on one sandbox is between two handlers, or a handler and
  the reaper. In `Races`, two containers and two images let a pause overlap
  another pause, a resume and an exec, and two sandboxes are what foreign data
  needs. One failure (`Faults`) reaches every error path; a second one only
  repeats a path from a state that the first one, or a concurrent operation,
  already produced. `Serial` has a spare container and image so that a sandbox can
  be paused, resumed and paused again next to another one.
* *Lock and pool.* Three tokens are an old life, its successor and a rival. A
  `Scale` of 3 for the code's 1000 makes a renewed lease longer than the `Ttl`,
  which is all that matters. Size 2 tells "empty", "room" and "full" apart, and
  six placeholders refill the pool twice.
* *Firecracker.* Two VMs and an older exit watcher are what a confusion of
  entries needs; three are a VM, its resumed successor and that one's. A failing
  database is left out of `Fleet` and `Snapshots`: one failing Save breaks `NoOrphan`
  (`RetryResume`), and leaves a booted VM with its files and no record. Failing file
  writes are left out of `Snapshots` for its size; the theorems of section 5 have
  them. Failed removals do not count towards `MaxFaults`. `Space` is 256, far above what 2 sandboxes use; what
  happens at the limit is in the proof.
* *Shell.* With sockets of one piece and buffers of two, every writer can be
  blocked by the next with something in every buffer; three pieces are one more
  than a buffer, so a frame can be split.
* *Gate.* Six ticks are three times the cache's TTL of 2, and one more than the
  bucket's life of 5, the shortest in which it is full again. The bucket holds 3, a
  request costs 2 and a tick refills 1: full, empty and one short all occur.
* *UI.* Two slots let two answers overtake each other. Three keys create, delete
  and refresh; one change by another client makes the list differ.

The bounds that are not of the code are `MaxFaults`, `MaxCrashes`, `MaxRestarts`, `MaxDeaths`,
`MaxTime`, `MaxHistory`, `MaxIn`, `MaxOut`, `MaxSlots`, `MaxKeys`, `MaxChanges`,
`MaxIds`, and the sizes of the sets of ids, none of which is ever reused.
`SYMMETRY` is used only in runs without liveness properties. The safety properties
of all runs are proved in section 5 for all bounds; the bounds matter for
the liveness properties, and for what the violations of section 4 show.

Deadlock is not checked where the system may stop: in `Pool` when the placeholders are
spent or the maintainer has ended; in `Fleet` and `Snapshots` when no id is left; in
`Shell` when the session is over; in `Gate` at the last tick; in `Tui` after the
user quits. In the others, the reaper's tick or Redis's clock always goes on.

Conditions. `RecordIsTruth`, `AckedDataSurvives` and `ServiceSpec` are stated for
clients that take turns (one request at a time in `Serial`, no pauses in
`Reaping`), `PausedIsResumable` for calls that do not fail.
`ManifestHasSnapshot`, `FirstPauseIsRestorable` and `NothingLeftBehind` are about sandboxes
no removal of whose files has failed (`refused`; a file that cannot be removed stays, and
`manager.go:173-202` and `:562` only log it).
`FirstPauseIsRestorable` is about a sandbox not yet resumed, `NoOrphan` about one
life of the server with a working database, `DeadIsForgotten` about VMs that
`CreateSandbox` booted, `HandlerEnds` about a shell that reads its input. Section 4
shows what happens beyond each.

Fairness. `SandboxLifecycle!FairSpec`: goroutines of a running process are
scheduled (weak fairness of handlers in progress, background thread, clean-up);
a lease's time passes. No client has to send a request, and no time has to
come. `DistributedLock!FairSpec`: time passes. `WarmPool!FairSpec`: goroutines are
scheduled, the ticker ticks; a Go select picks among ready cases at random, so
the case that is ready again and again is taken in the end (strong fairness of
`SelectDone`). `FirecrackerManager!FairSpec`: a watcher whose process has exited is
scheduled. `ShellSession!FairSpec`: the goroutines of handler and agent and the
daemon's copying are scheduled, the client reads what arrives, and the shell reads
its terminal if `BashReads`; nobody has to type, write, leave or exit.
`TuiModel!FairSpec`: timers fire, requests end (the client's timeout), and messages are
handled; no key has to be pressed.

## 4. Where the code and what is said of it differ

One listed run expects a violation: `SecondPause`, `PausedIsRestorable`.
`RemoveImage`, which the resume handler runs in the background, deletes the root
filesystem the resumed VM runs on, so its next pause cannot be resumed, though
`docs/adr/0015-firecracker-snapshot-pause-resume.md:26` says that the file "must survive for the entire duration of a
pause, unmoved".

The following configurations are kept beside it. Every property of theirs is one
that TLC finds violated, and shows one more such disagreement; run them by hand with
`tlc -config <name>.cfg <module>` (`TuiClaims` has several: TLC stops at one, keep one at a time).

| Configuration (module) | Property | What happens |
|---|---|---|
| `RetryKill` (MCLifecycle) | `ExpiredIsReaped` | `KillSandbox` unregisters the mapping before it stops and removes, so the reaper's "retry next tick" (`reaper.go:74`) can never succeed. |
| `Restart` (MCLifecycle) | `ReconcileDropsOnlyDead` | After a restart the map is empty: every running sandbox looks dead and its record is deleted (`adr/0002:24`). |
| `SlowReap` (MCLifecycle) | `OneReaper` | The lease of 30 s (`cmd/cage/main.go:140`) is not renewed during `reap`; a reap that outlasts it runs beside another replica's, though README.md:52 says "no double-reaping". |
| `RetryImage` (MCLifecycle) | `ExpiredPauseIsCollected` | An image removed without the answer getting through, or whose record could not be deleted, makes `RemoveImage` fail on every later tick (`reaper.go:104-107`, "retry next tick"). |
| `DeletePaused` (MCLifecycle) | `DeleteRemoves` | A DELETE of a paused sandbox finds no container in the map (`adapter.go:64-66`) and answers 500 (`handlers.go:178`); README.md:226 and `docs/api/openapi.yaml:133` promise "Kill and remove a sandbox". |
| `StaleReap` (MCLifecycle) | `ReapsOnlyAbandoned` | A sandbox that is resumed after the reaper has listed it as paused loses its record, though its container runs: `reaper.go:88-112` acts on the row as listed, on what it calls "an abandoned paused sandbox" (`:83`). |
| `DoubleResume` (MCLifecycle) | `PausedFreesMemory` | Two resumes start two containers; the next pause stops one (`adr/0005:26`, "no live container exists"). |
| `LostWrite` (MCLifecycle) | `AckedDataSurvives` | The container runs on between commit and stop; a write acknowledged then is lost with it (`adr/0005:15`). |
| `LateRelease` (MCLock) | `LeaderHolds` | The token is drawn once per instance (`lock.go:35` says "unique per-acquisition"): a release that runs late ends the instance's next lease. |
| `RenewUnits` (MCLock) | `LeaseIsBounded` | `Renew` gives microseconds to `PEXPIRE` (`lock.go:62`). Nothing calls it yet. |
| `PoolAdopt` (MCPool) | `AdoptedIsReachable` | A warm-started sandbox is registered with the placeholder, not with a container id (`adapter.go:151`). |
| `PoolHangup` (MCPool) | `WarmIsKept` | With the request's context done, every liveness check in `Take` fails and drops a running container that nothing removes (`pool.go:125-129`). |
| `PoolShutdown` (MCPool) | `ShutdownStopsPool` | `topUp` under a cancelled context fails again and again and never returns to the select (`pool.go:82-86`; `adr/0011:25`). |
| `PoolDeath` (MCPool) | `DeadIsReplaced` | A container that dies in the channel still counts; the "safety-net ticker" of `pool.go:65` does not replace it. |
| `ResumedExit` (MCFirecracker) | `EveryDeadIsForgotten` | `ResumeSandbox` starts no exit watcher, so a resumed VM that dies stays on the map as running, which `watchProcessExit` (`manager.go:264-268`) is there to prevent. |
| `RetryResume` (MCFirecracker) | `NoOrphan` | When the Save after a resume fails the record still says paused; the second resume replaces the map's entry and nobody can kill the first VM. |
| `TwoPauses` (MCFirecracker) | `ManifestHasSnapshot` | Of two pauses at a time, one's failed snapshot removes the directory and goes on; the other makes it again, and the first writes its manifest beside no snapshot, which the code's order is there to prevent (`manager.go:415-439`). |
| `FailedRemoval` (MCFirecracker) | `KillsOnlyWhatIsSaved` | When the snapshot fails and its directory cannot be removed either, the pause writes its manifest there and kills the VM, though "snapshot is safely on disk" (`manager.go:440`). |
| `ShellExit` (ShellSession) | `EndsWithShell` | On Firecracker the agent does not close the stream when the shell exits: the handler waits until the client leaves, though `api/shell.go:112-113` says the pump ends the session. |
| `ShellIdle` (ShellSession) | `ShellIsKilled` | After the host has gone the agent waits for its pump, which waits for output of a shell that is killed only afterwards (`guest-agent/main.go:176-182`). |
| `ShellStuck` (ShellSession) | `HandlerEnds` | A shell that reads no input fills every buffer; then the handler is blocked in a write and does not notice that the client has gone. |
| `RateReorder` (MCGate) | `RateAsPromised` | The script stores its caller's clock reading even if a later one was there, and the time in between refills again. Replicas whose clocks differ do this at every alternation (`adr/0008`, "shared correctly across any number of future replicas"). |
| `TuiClaims` (TuiModel) | `PromptHasSandbox` | The prompt of a delete dereferences the selection; a refresh may have emptied the list. |
| `TuiClaims` (TuiModel) | `ConfirmedIsDeleted` | A refresh between prompt and 'y' may put another sandbox under the cursor; that one is deleted. |
| `TuiClaims` (TuiModel) | `RetryClearsError` | A refresh that works does not clear the error, so "press 'r' to retry" does not help. |
| `TuiClaims` (TuiModel) | `OutputIsOwn` | The result of a command is shown in whichever sandbox's view is open when it comes. |
| `TuiClaims` (TuiModel) | `BusyWhileActing` | The first answer clears `busy` ("true while an action (create/pause/delete) is in flight", `model.go:37`), although another action is still under way. |

## 5. What is proved

Every theorem is of the specification with all constants arbitrary, under the
`ASSUME`s of the modules (ids of different kinds differ, sizes are naturals, a
handler's buffer holds what the guest's does, and for the gate: a bucket is full
again before its key expires), which TLC evaluates in the runs. A theorem that
needs more says so in an `ASSUME` of its own; below, each such hypothesis is given with
the configuration of section 4 that shows what happens without it. All are
inductive invariants: one lemma for `Init`, one for each group of
actions, and the theorem from both.

**SandboxLifecycle.** `TypeInv` is the first inductive invariant: types, which
local variables are set at each `pc` (`JobsOK`), and "paused iff it names an
image" for the table and for the snapshots (`TypeCorrect`, `Typing`,
`PauseIsRecorded`). On top of it, `OwnerInv` adds that nobody holds an id the
daemon has not given out: without it, a fresh container could be created for
sandbox A under an id that someone already holds for B (`Ownership`).
`CleanupIsSafe` needs `PauseImageIsPrivate`: until it is recorded, a pause's image
is known to that pause alone, so that saving it cannot bring back a reference
that a clean-up is about to remove. `Isolation` needs
`DataIsOwned` and `FreeIsEmpty`: data shared by two disks means both were made
for the same sandbox. `Forgetting`: the one action that brings a process to the
deletion of a row is the one that removed what it looked up, and removed ids are
never given out again. `Exclusion`: there is one reaper at a time unless a reaping has
overrun its lease, that is, a lease has run out under a live holder (`Overrun`); the
code does not rule that out (`SlowReap`), and the other theorems hold with it. `Resumable`: while no call to
the daemon or the database fails and no replica dies, a paused record's image
exists or its reaper is about to delete the record, with any number of
requests, replicas and reapers; it needs that the image of a pause in progress exists
(`PausingPresent`) and `CleanupIsSafe`'s invariant. (With failures it does not
hold: `RetryImage`.)

**SandboxLifecycle for clients that take turns.** `OneReplica(r)`: one replica
`r`, which lives on, any number of request handlers; calls to Redis may fail, containers
may exit and leases may run out, other calls work; no pool. The reaper may be at work, but
then no paused sandbox is resumed: one that `reap` has listed as paused and that is
resumed before its turn comes loses its record, though its container runs
(`StaleReap`). Any number of sandboxes, containers, images and data.
The hypothesis on the clients is `TakingTurns`: while one process is in the
middle of a pause or a resume (`Moving`), nobody else works on that sandbox. Creates, execs, deletes
and the reaper interleave as they like, also on the same sandbox. `LostWrite` and
`DoubleResume` are what happens to clients that do not take turns.

The invariant (`Orderly`) adds to types and `OwnerInv` what is true of every
sandbox between any two calls (`TurnsInv`). A sandbox has a process alone with it, one
that creates, pauses or resumes it, and is `AtWork`, which has a line for each
call: where the data is and what already exists before it is made (after the
commit and before the stop, for instance, both container and image have
it). Or it is `Shared`, whoever else works on it: never created or gone; running, with one container
that is mapped, or unregistered by a kill that is about to remove it, or removed by a kill
about to delete the record; or paused, with one image beside those the clean-up is
to remove, or none and a reaper about to delete the record. `Working` says what each
process in such company relies on. `ThreadOK` is about the replica's own thread, and an id not drawn yet is
nobody's (`Unborn`). From it follow:

* `RecordTellsTruth` and `AckedIsKept`: the record of a sandbox at rest is the
  truth, and what was acknowledged is in its container or pause image.
* `ServiceImplemented`: `SandboxLifecycle` implements `SandboxService`, where each
  operation is one step. A row written or deleted, and a write into a container, is a
  step of the service; every other call of the handlers, the reaper, reconciliation or
  the clean-up is none, since the data moves under the abstraction while `AtWork`
  holds it in two places. Of kills of one sandbox that run into each other the first to
  delete the record is the step. A paused sandbox's deletion is a step of the reaper
  only. The theorem is about safety: a refused DELETE (`DeletePaused`) is none of
  the service's steps, and the service does not promise that a request succeeds.
* `TurnsAreTaken`: the hypothesis holds by itself for one request at a time without expiry (the
  conditions of `Serial`) and for any number of clients that never pause, with the
  reaper beside them (those of `Reaping`, and more). `InTurnAllHold`: so there the three
  hold without a word about turns.

**DistributedLock.** Under `"release" \notin LateOps` (no release is run by Redis
after its caller has given up; `LateRelease`), a working
leader whose lease has not run out has the key (`LeaderKeepsTheKey`), and the
lock implements `Lease` (`LockImplementsLease`): each action maps to a grant, a
notice, a resignation, an end, a lapse, or to nothing. The inductive invariant
says that tokens of different instances differ and are drawn (`TokensApart`),
that the key exists exactly while it has time to live (`KeyExpires`), that a
positive answer on its way finds the key or a lapsed lease (`GrantedHolds`), and
what can be outstanding (`LateAllowed`, `AnswersAwaited`).

**WarmPool.** Types with channel capacities (`PoolTypes`); no container is
handed out twice (`NoDoubleHandout`), by the invariant that ids in the channel, in
the maker's and in the handlers' hands are pairwise apart and already drawn; and
`AlwaysRoom`: the maintainer's check before it creates is still true when it
pushes, since only it adds to the channel, and the rounds left of the initial
fill are covered - so the branch of `spawnOne` for an excess container is dead.

**FirecrackerManager.** `TypeCorrect`. `AddressesStayApart`: while the server
lives and the counter has not gone past `Space`, no address is held twice,
returned twice, or held and free. The invariant (`Owned`) follows each address
through the hands that can return it: the address in an entry of the map, or in
the hands of a request that creates or kills, is the one the sandbox's tap device
was set up for; and while a request has it in hand, neither the map nor another
request does. That rests on `CreatesAlone`: before its row is written nobody else
works on a sandbox.

In all of these theorems removals may fail at any time; the three about files
except the sandboxes this has happened to (`refused`; `FailedRemoval`).

* `ManifestsPerSandbox`, if no two requests pause the same sandbox at a time
  (`PausesApart`; `TwoPauses`): a pause about
  to write its manifest that finds the directory finds the snapshot in it
  (`DirHasSnapshot`), for a failed snapshot has removed the directory. Every other
  request may run beside it, every call fail, and the server restart anywhere.
  `ManifestsAreComplete`: so it is if one request does all the pauses.
* `NobodyIsLostPerSandbox`, if nobody else pauses or resumes a sandbox that is being
  resumed (`ResumesApart`) and the database works (`RetryResume`), with any number of
  clients and the reaper: `FateInv` follows each live process
  to the entry or to the request whose next call registers or kills it
  (`Accounted`), and says why an entry that is overwritten or forgotten has
  no live process in it: a pause forgets what it has killed (`PauseHolds`), and
  a paused record's process has exited (`PausedHasExited`, `ResumesExited`).
  `NobodyIsLost`: so it is if one request does the pauses and the resumes, as in `Fleet`.
* `FirstPauseHasItsFiles`, one request at a time, whatever fails and wherever the
  server dies: `PauseInv` says for each sandbox what the request at its place knows of its record
  (`PlaceOK`), which processes it has had (`ProcessesOK`), and until the first
  resume where its files are (`OnDisk`); detached clean-ups are only of resumed
  sandboxes. After a resume it does not hold (`SecondPause`); nor with two
  requests, where a delete removes the root filesystem of a sandbox that is being paused.
* `NothingIsLeftBehind`, one request at a time and a database that works, in
  one life of the server: on top of both, `TidyOK` says of which sandbox an entry
  or process in hand is (`LinkOK`), when an entry may be there without a record
  that says "running" (`EntryOK`), and where there are no files (`FilesOK`).

**ShellSession.** `OutputIsInOrder` and `InputIsInOrder`, for both backends, any sizes of
buffers and sockets, any amount of input and output and every way to end. Both
invariants (`OutInv`, `InInv`) cut the stream at the places that keep it. For
output: what the client has seen, the websocket, the handler's pump, the stream,
the agent's pump and the terminal each hold a run of consecutive numbers (a queue:
a chain of runs, `Chained`), each beginning where the one before ends; a place that
is torn down (the client gone, the stream shut, a pump ended) is not asked about any more, and what
is behind it can no longer pass. That a piece always fits the handler's buffer (`Fits`) is why `Copied` loses
nothing. For input: each place `Covers` a range of the client's messages, which
leaves out none of the data; a resize that is applied on the way leaves a gap without data.

**RequestGate.** `GateTypes` (the bucket stays between empty and `Capacity`).
`StaleVerdictsEnd`: a revoked key is let through no longer than one cache TTL and
one call after its revocation; the invariant dates the cached verdict, and the
answer of a validation still to be stored, by the revocation. `RateIsPaid`: what
passes is paid for by a full bucket, the time since, the time moved back and one
request per failed call. Its invariant (`RateInv`) says that calls are in time,
that clock readings and `last_refill` are within the skew and delay of Redis's
time, that a bucket which expires has had time to fill, and that served requests
and remaining tokens are within the budget.

**TuiModel.** `RowsAreDistinct` is type correctness, whose point is that no list
names a sandbox twice: the server's, the one on the screen and those on their
way, although creates, deletes and refreshes overtake one another.
`NeverWaitsForNothing` needs that a command in a slot is of the kind
its result is handled as (`CmdsOK`); `TimersStayApart` needs the phase of the
splash.

**Only model-checked**: the liveness properties `ExpiredIsReaped`, `DeadLeaseEnds`,
`KeepsFilling`, `DeadIsForgotten`, `OutputArrives`, `HandlerEnds`, `ListConverges`
(liveness under fairness is beyond the prover).

## 6. Not modelled

* The guest agent's exec and file requests and `vsockClient.send`: one JSON
  request and one answer on a connection of its own, without state (15 s deadline).
* `AdoptWarmResource` on Firecracker: the pool is for Docker, nothing calls it.
* The bridge and its rules: set up once at start-up. The deletion of a tap device
  whose failure is ignored (`network.go:150-155`): the address is returned all the same.
* Of the server's shutdown only the pool's part: draining HTTP requests is
  net/http's, and a drained request is a request that ends.
* The templates table: only read by the server. Keys are generated by a tool and
  never changed but for the revocation, which is modelled.
* CLI commands other than shell and tui, and the SDK: one request each, no state.
  Logging, metrics, configuration, migrations: nothing interleaves. Text, layout
  and typing in the UI. The filter of its list ('/'), which belongs to the bubbles
  library: while one is on, `model.go:234` drops the command by which `SetItems` would
  filter again.
* Postgres, Redis, Docker and Firecracker themselves, beyond what the callers
  rely on; single statements and scripts are atomic.

Some hazards are known and have no property, since nothing the code or its
documents say rules them out: a tap device and address that stay taken when a
VM fails to spawn (`manager.go:180-194`) and after every pause; the record of a
VM that has crashed, which neither a delete nor the reaper can remove, since
`KillSandbox` finds no entry; errors of start-up that are dropped
(`cmd/cage/main.go:92`, `:105`) and a template that is not skipped (`:127`);
`store.List`, which returns the rows read before an error as if they were all; and
'q', which leaves the UI's detail view even as part of a command being typed.

## 7. What is left

The composition of `WarmPool` with `SandboxLifecycle` beyond the adopted id.
