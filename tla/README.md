# A TLA+ development of Lando's shared state

This directory models the parts of Lando Core 4 in which several processes, or
one process before and after its death, share files, processes and locks. It is
checked with TLC on small instances and, where section 4 says so, proved with
TLAPS for every value of the constants. Paths are relative to the repository
root.

## 1. The system

Lando is a command-line program. Every command is a process of its own; several
commands, their child processes and detached workers run at once and share a
user-data root, app roots and a container engine. There is no server that
orders them. What keeps them consistent is a stack of small protocols over
files, and these protocols are what this project is about. On top of them run a
few schedules inside one process, which have their own hazards.

| Component | State it keeps | Operations | Hard behaviours | What makes it correct |
|---|---|---|---|---|
| Advisory lock `state-store/src/lock.ts` | a lock file with its owner's record; an in-process guard | acquire with polling and reclaiming, release, expiry | files replaced between two awaits; dead owners; I/O errors in the middle | one holder at a time; no live owner's file removed; every wait ends |
| State bucket `state-store/src/{bucket,service,atomic}.ts` | one file per bucket, temporaries | get, set, update/modify/mutate/transition, remove | reads without the lock, damage, death while writing, quarantine | no lost update, no half-written value, no leftover |
| Managed-file transactions `managed-file/src/transaction*.ts` | journal, stages, backups, targets | prepare, commit, recover, ensureConsistent | death between any two file operations; editors that take no lock | all or nothing; foreign edits survive; blocked means inert |
| Source store `source-acquisition/src/` | entries, leases, root records, lockfiles | open, publish, repair, registerRoot, release, gc | a collector racing sessions; a replaced tree; dead sessions | what is leased or pinned stays |
| Volume initialization `state-store/src/volume-initialization.ts`, `engine/src/lifecycle/volume-initialization.ts` | one claim record per physical volume | record creation, begin, finish | volumes deleted and made again at any time | one claim per generation, final outcomes |
| App mutation lock, global mutation, plan-wide volume coordination `engine/src/{operations,global-app,lifecycle}` | lock files, keys held by a fiber, tokens in the environment | nested acquisition, re-verification, release | hooks that run commands, moved roots, partly held key sets, concurrent fibers | a body holds its keys; no circular wait; no child waits for its parent |
| Detached workers `engine/src/subsystems/{detached-worker,host-proxy}` | worker record, run directory, process | claim, spawn, reuse, stop, reap, close | death before the record is durable; late answers; reused process ids | no lost worker, files of the recorded worker, no stranger struck |
| Service start schedule `container-runtime/src/dependency-schedule.ts` | outcomes per service | waves of starts and gates | cycles, optional edges, partial failure | a service starts only when its conditions hold; nothing is hidden |
| Event service `engine/src/services/event-*.ts` | history, bounded queues | publish, subscribe, take, stop | slow subscribers; publications that are under way | history and queues agree; a miss is counted |
| Accelerated start `engine/src/operations/{start,stop,destroy}*.ts`, `accelerated-start-*.ts`, the file-sync parts of `provider-lando` and `file-sync-mutagen` | start journal, saved plan and volumes, sync sessions, Landofile | start with rotation, stop, destroy, each resuming what another left | death, failure or refusal between any two records; an edited Landofile; a lost ledger | no write is given up; a writer has its intent on disk; every volume has a record |
| Scratch apps `engine/src/scratch-app` | registry, instance directories, cached plans, labelled resources | acquire, detach, close the scope, destroy, poweroff, collect | no lock spans two stores; deaths and failures between any two calls; a lost registry | the entry goes last; one collection recovers everything |
| Global app `engine/src/global-app` | policy, its plan | enable, reconcile, stop | commands that meet | consumers keep what they use |
| Managed-file service and ledger `managed-file/src/{service,ledger,marker}.ts`, `engine/src/plugins/context.ts` | the ledger of generated files; the files themselves | apply, remove, adopt, release | an editor that takes no lock; calls cut short; a lost ledger | a user's text is never lost; a file taken over is left alone; the ledger tells the truth |
| Everything else | — | planner, Landofile loading, drivers, CLI, plugins, renderers, docs | mostly sequential or pure | covered by the repository's tests |

They interact from the bottom up: buckets, transactions, the source store,
volume records, operation locks and workers all use the advisory lock. Journals,
registries and claims are buckets. The source store is bound to Landofile
loading through lockfiles, and volume claims to providers through creation
receipts. Start, stop, restart and destroy run inside the app mutation lock,
the volumes' locks inside that. `PROJECT.json` lists every component with its
sources, and its `hazards` list says at which line each hard behaviour bites
and which property covers it.

## 2. Modules

| Module | Models | Extends / composes |
|---|---|---|
| `LockContract` | what a lock promises | — |
| `AdvisoryLock` | `lock.ts`, one action per await | refines `LockContract` |
| `AdvisoryLockProofs` | theorems on it | `AdvisoryLock` |
| `SharedRecord` | what a durable shared value promises | — |
| `StateBucket` | one bucket | refines `SharedRecord` |
| `StateBucketProofs` | theorems on it | `StateBucket` |
| `FileTransaction` | one app root's transactions | — |
| `FileTransactionProofs` | theorems on it | `FileTransaction` |
| `SourceStore` | one source store, its sessions and a collector | — |
| `StoresProofs` | theorems on it and on `ScratchApps` | `SourceStore`, `ScratchApps` |
| `VolumeInitialization` | claims of one volume name | — |
| `OperationLocks` | the lock phases of whole commands: app, policy, global app, volumes | — |
| `LockOrder` | what the order of locks asks of commands and their programs | `OperationLocks` |
| `OperationLocksProofs` | theorems on both | `OperationLocks`, `LockOrder` |
| `WorkerLifecycle` | an app's detached host-proxy worker and the commands around it | — |
| `WorkerLifecycleProofs` | theorems on it | `WorkerLifecycle` |
| `ServiceStart` | waves of service starts over a dependency graph | — |
| `EventDelivery` | publications, history and bounded queues | — |
| `AcceleratedStart` | starts, stops and destroys of an app with synchronised volumes | — |
| `AppStartProofs` | theorems on the three parts of a start | `ServiceStart`, `VolumeInitialization`, `AcceleratedStart` |
| `ManagedFiles` | generated files, their ledger and the user who edits them | — |
| `PluginServicesProofs` | theorems on the two services plugins call | `EventDelivery`, `ManagedFiles` |
| `ScratchApps` | scratch apps, the commands that make and reap them, and the collector | — |
| `MCEngineParts` | one instance of six parts | `VolumeInitialization`, `WorkerLifecycle`, `ServiceStart`, `EventDelivery`, `AcceleratedStart`, `MCManagedFiles` |
| `MCStores` | one instance of three parts | `MCStateBucket`, `MCSourceStore`, `ScratchApps` |
| other `MC*` | constant values and symmetry for TLC | the module named |

Each file operation that is awaited is a step of its own when others can see
its effect, so that every interleaving the event loop or the operating system
can produce is a behaviour. Operations whose names end in a suffix
(`Create_Overwrites`) are mutants: plausible bugs, used to show that a property
depends on the code; they are not part of any `Next`.

### AdvisoryLock

A file at the lock path is an element of `Ino`, never reused: it stands for the
tuple the code compares (dev, ino, mtime, ctime), which the write of the owner
record changes once more. A fiber's `pc` is its position in `acquire`: `try`
(the exclusive create), `made` (the record write), `exists`, `read`, `confirm`
and `unlink` (lstat, read, lstat, unlink of a contended path), `pause`/`sleep`;
`hold` is the caller's body and `drop` the point between the token check and the
unlink of a release. `GuardFree` is the in-process guard, `Crash` the death of
a process with all its fibers, `Tick` the clock. Left out: the `onWait`
announcement, which changes no state.

### StateBucket

The file's value is the set of marks of the updates it contains, so that a lost
update is visible. A bucket's spec, one of `Specs`, is chosen in the initial state.
`Quarantine` renames whatever the path names when it runs, a step after the
read that failed, as `service.ts` does. All locked variants (`update`, `modify`,
`mutate`, `transition`) are the operation `update`; `Keep` is their outcome
that writes nothing.

### FileTransaction

A path is described by which object it names: nothing, the file the plan
found, the inode that was staged, or a stranger's file; `dirty` holds objects
edited in place. The check `verifyState` (same digest, mode and inode) becomes
"same object, not dirty". `Plan` .. `RemoveCommitted` follow `prepare` and
`commit`; `Peek` .. `Turn` follow `ensureConsistent` and `recover`, whose
`Preflight` classifies each entry (`Disposition`). `VerifyEntry` is the last
look before a mutation, and `RenameStage`, `UnlinkTarget` and `LinkStage` are
the mutations, separate steps because the code looks and acts by path. `Meddle`
is any program that edits the app's files. A commit that is refused because a
source it read has changed leaves its journal, and the next command rolls it
forward: that is the code's design and the model's. Left out: the directory
policy and pinned parents of a create, ACLs, symlinks and hard links to a target
(each only adds a way for a verification to fail), and the window between the
check and the unlink of a stage.

### SourceStore

A session is a process. A key stands for a git commit, pinned directly by a
lockfile; the npm and ref index records, staging leftovers and report texts are
left out. Ages are relative to the running collection's cutoff: `recent` is
the set of keys used since. `Thresholds` says whether `--older-than` exceeds
any session's life (`TRUE`, like the default of 30 days) or can be anything, zero
included (`FALSE`). The collector reads lockfiles and leases one by one, first
for its report without the lock, then again under the lock for every
candidate. `torn` remembers keys whose replacement a death cut short. The code
protects an entry that is leased or pinned whether or not it is valid (has an
intact `entry.json`); `PinnedKept` speaks of valid ones, because damage from
outside, not the collector, may have emptied the others.

### VolumeInitialization

A volume deleted and made again has a new generation. `ClaimEdge` is the
transition table, `Write` is `planVolumeInitializationWrite`, one atomic bucket mutation;
`Locate`, `CoordinationLock`, `Verify` and `RecordCreation` are the recorder.
Callers that seed take no lock here, which allows more than the code does.

### OperationLocks

A command is a fiber with a program, the list of phases its operation opens
and closes (`startApp`, `stopApp`, `restartApp`, `startRotating`, `globalStart`,
`destroyApp`, written from `start.ts`, `stop.ts`, `restart.ts`,
`start-file-sync-rotation.ts`, `destroy.ts` and the global app's service).
`frames` is the stack of open phases: the keys a fiber's context holds, the
locks it has to give back, and the environment it found. A hook launches a
child command in another process with its parent's `LANDO_APP_LOCK_HOLDERS` and
waits for it. `EnterApp`, `borrowedMutationOwner`, `AcquireApp`, `Recheck` are
`withAppMutationLock`; `EnterPlan`, `TakePermit`, `TakeFile` are
`withPlanVolumeCoordination`, whose in-process permit has no deadline. Failures,
one death, deadlines and one moved app can occur anywhere. A volume lock is
taken with the store's default options, by which a live owner expires after 30
seconds (`LiveOwnersExpire`) although `sdk/src/services/state-store.ts:124`
speaks of serialized callers; `expired` is the history of it. The order in
which well-behaved commands lock is: app, volumes in key order, policy, global
app, the global app's volumes. Commands are restricted as the code's users are
told to: no volume is shared between the global app and a user app, and a hook's
child does not lock other apps that share its parent's volumes (`LockOrder`
states this for any programs, `MCLockOrder` gives these their ranks). `destroy` locks
the first app it resolves before the sorted list (`destroy.ts:67`), so two
destroys can wait for one another until a deadline; `Teardown` names those
fibers and `CommandsEnd` includes them.

### WorkerLifecycle

A worker is named by the order of its start. `record` is `worker.json`, `files`
and `socket` the shared run directory with the worker that made them, `life`
each process. A command that holds the record's lock reuses the worker
(`Reuse`), or replaces it (`Replace`, `Owned`, `Shutdown`, `AwaitExit`, `SigTerm`,
`SigKill`, `Remove`) and spawns another (`Spawn` .. `Persist`); `Close` ends a
session's own worker. The lock does not expire live owners here, as the code
asks (`expireLiveOwner: false`), which is why `OperationsEnd` matters.
`Change` is the claim's transition table; an illegal operation fails the
command in the code and never ends in the model, so `OperationsEnd` would show
it. `excused` counts the workers the code cannot keep track of, each by an
action that needs a bounded accident: the command died between the spawn and
the record or in the middle of a stop; a worker answered after the two seconds
of the probe; a worker the user signalled ends late and removes the run
directory of its successor, since `removeSessionState` does not ask whose it is.

### ServiceStart and EventDelivery

`ServiceStart` chooses any plan of services with required and optional
conditions, and runs the waves of `dependency-schedule.ts`: who is ready, in
which order the members of a wave end, who is skipped, and when a cycle is
reported. `EventDelivery` separates the redaction of an event, which yields,
from its commit to history and queues, which does not; an invalid event that
nobody may get is retained in the history without being validated, as the code
does. `MCEngineParts` joins these two, the workers, the volume claims, the
accelerated starts and the managed files in one instance, as `MCStores` joins the
buckets, the source store and the scratch apps: the parts share no state, a behaviour is one of
one part, the others rest.

### AcceleratedStart

Four parties keep a record of an app whose mounts are synchronised into
volumes: the start journal (`journal`), the provider with its saved plan and
its volumes (`applied`, `targets`), the sync engine's ledger (`engine`,
`sessions`) and the Landofile. `dirty` is what the containers (`writers`) wrote
and the engine has not brought back. A command (`cmd`) goes through the steps of
`start.ts` and `start-internal.ts` (rotation, preflight, preparation of volumes,
sessions, intent, containers, saved plan, completion), of `stop-internal.ts`, or
of `destroy-file-sync.ts` and `destroy-execute.ts` (writers stopped, drain,
disposal, volumes, receipt, saved plan, journal); `Rotate` leads a start through
the same disposal. `EndCommand` ends any command between any two steps: it
stands for death, failure and refusal alike, so every guard that a state does
not meet is a refusal. `JournalEdge` and `Advance` are the journal's transition
table.

Assumed: the app mutation lock holds, so one command is under way at most
(`OperationLocks` is about that); a command reads the Landofile once; each call
of the engine and each record is one step; the engine's ledger is lost as a
whole and between commands only; volumes are those the provider prepares, which
is the case where the engine copies into volumes at all
(`windows-sync-targets.ts`). `skipped` is the history of finding 5.

### ManagedFiles

What a file says is a marker or fence, the text under it and, around a block,
the user's text; a user's text is the number of the edit it was written by, so
that its loss is visible, and a checksum is the content itself. `kind` says
whether Lando owns the file, a file whose format has no slot for a marker (a
JSON array), or a block in the user's file. A caller holds the ledger's lock from
`TakeLedger` to `RecordLedger`. `DecideApply` is `decideFile` and `decideBlock`,
one file at a time, each with its own read; the writes come after the last
decision (`Backup`, `WriteFile`), the ledger after the last write. `remove`,
`adopt` and `release` decide and write path by path. `CutShort` stands for death
and for a failing read or write, between any two steps. `PassView` is the check
a plugin's view makes before the service gets the lock. `strayed` is the
history of the paths that the user changed or a broken call left behind.

Left out: `plan` and `status`, which change nothing; events; rendering, formats
and path containment; the app's name in the ledger's path (one app); names of
backups. A read and a write are two steps, and what the user writes between
them is overwritten: `EditsSpared` is about what a call saw.

### ScratchApps

Four places tell of a scratch app: its entry (`registry`), its directory
(`dirs`), the plan cached there (`plans`) and what the provider has under its
label (`storage`, `containers`). A runner is a process with one command:
`Register` .. `MarkRunning` acquire an app, `AcquireFails` is the cleanup of a
failed acquisition, `Detach` and `CloseScope` end a foreground one; `Inspect`,
`Scan`, `Stop`, `Destroy`, `RemoveRoot`, `Unlink` are the reaper, which all of
them, `BeginDestroy` (destroy and poweroff) and the collector (`BeginGc`ff) run.
No lock spans two of its calls, so commands meet between any two.

Two things follow from that and are excluded from `UnlinkedLast` by the
history `crossed`. The collector reads the registry first, then directories and
labels: an app registered in between looks like an orphan and is reaped while it
is acquired. Its acquisition starts its containers, may then not mark itself
running, and its own cleanup returns at once because the entry is gone
(`destroy.ts:40`), although `spec/19-scratch-apps.md` has an ordinary failure
reap the app; the containers stay until the next collection. The lock
`scratch/<scratch-id>/lock` that `spec/12-caches-and-persistence.md:79` lists is
taken nowhere. `GcLeavesNothing` has no such exclusion: whatever came before,
one collection during which nobody else acts and nothing fails leaves only apps
with an entry, a directory, and a living owner or none. A detached acquisition
that dies leaves an entry without an owner, which the collector keeps.

Left out: events, routes, snapshots, the copy of the source, the admission of
global services, and the collector's report, which only reads.

### Locks inside the other modules

`StateBucket`, `FileTransaction`, `SourceStore`, `VolumeInitialization`,
`OperationLocks` and `WorkerLifecycle` take a lock file as the lock of
`LockContract`, with a dead owner's lock reclaimed at once. `lock_races` and the
theorem `Refinement` show that the file protocol implements that contract as
long as one waiter reclaims at a time and none goes for a file in use, and
`lock_double_reclaim` shows where it does not; results of the other modules are
under the assumption that this case does not occur.

## 3. Runs

| Run | Instance | What it shows |
|---|---|---|
| `lock_races` | two fibers of one process, one of another, live owners expiring, I/O errors, a death | exclusion is lost only after a disturbance; the file protocol implements `LockContract`; a live owner's file stays; a takeover is justified; a release spares siblings |
| `lock_progress` | two processes, a death, fairness | every acquire ends; a dead owner's file is reclaimed |
| `lock_double_reclaim` | three processes, a death | violation: finding 1 |
| `stores` | three processes, two operations each, four specs of a bucket; two sessions, one collection, a death and a meddling of a source store; two runners, one scratch app, two accidents | a bucket is a shared record; no self-inflicted damage; leased entries, registered roots and pinned entries stay; a scratch app's entry goes last, and one undisturbed collection clears what was left behind |
| `bucket_quarantine_race` | a reader that quarantines | violation: finding 2 |
| `transactions` | write, create and remove in one transaction, two commands; two transactions and two deaths, or outside edits, fairness | all or nothing; what is overwritten, kept and left alone; when recovery refuses; no stage left; every journal is settled |
| `sources_age_zero` | the source store of `stores` with a short threshold | violation: finding 3 |
| `operation_locks` | two of four commands and a hook's child over two apps, the global app and three volumes, a death, a move, fairness | bodies hold their keys; one command per app; no circular wait; no child behind its parent; every command ends |
| `nested_relock` | a restart that drops one of two volumes | violation: finding 4 |
| `engine_parts` | two commands and two workers, an accident, a recycled pid; two commands, three generations and two owners of a volume; an app of two mounts; all plans of three services; two publishers and two subscribers; two callers of two owners, two paths of three kinds | workers: none lost, files match the record, only known ones are struck, operations end; claims: one per generation, no regression; starts: no write given up, no writer before the intent, no volume stranded but by finding 5; services: conditions first, cycles reported, nothing hidden; events: none missed uncounted; managed files: no text a call saw is lost, what was taken over is left alone, the ledger tells what is on disk |
| `targets_stranded` | an app of two mounts | violation: finding 5 |
| `foreign_handover` | Core and a plugin, one path, two calls | violation: finding 6 |

Bounds. Two actors give every pairwise race and a third one of the races with an
intermediary (a waiter that overtakes another waiter); one death leaves every
intermediate state once. `transactions` spends a budget (`WithinBudget`: runs +
deaths + 2 * edits <= 4), so a recovery dies too, or an edit meets two runs, or
two edits meet none of the rest. Clock bounds exceed timeout plus staleness, so
each deadline passes in every phase. Three generations allow a stale handle of
the first while the third is current. One key and one root suffice for
`SourceStore` because no step of the code relates two keys, except that any
unreadable lockfile withholds everything, which is `doubt`. `lock_races` has two
processes, so a double reclaim by two bystanders is out of its reach; the theorem
covers it. `operation_locks` has the two apps share two volumes in opposite plan
orders, so an unsorted order of keys would deadlock; `MaxCommands` 2 and a child
are three concurrent fibers. Two mounts are needed for a plan that changes
in part; commands, deaths and edits of that app are unbounded, the state is
finite. For managed files a budget (`MaxChanges` 4) is shared by calls, edits,
cut calls and lost ledgers, which has every order of four of them; a budget of
five (1.5 million states) and three paths (13 million) were also checked by hand
with the same result. Two workers suffice for one to be replaced by the
other; three were also checked by hand (2.4 million states) with the same
result. Three services have every cycle, chain and diamond-free shape of up to
three dependencies with two conditions. A queue of one and a history of two
overflow within three events. For scratch apps two runners have every race of two commands, a budget of two
accidents (failed calls, killed commands, lost registries) every pair of them;
three accidents (3.6 million states), and two apps with one, were also checked
by hand with the same result.
Symmetry is over exchangeable processes, fibers,
sessions and inode names in runs without liveness. `CHECK_DEADLOCK FALSE`
everywhere: the bounds on operations, deaths and the clock end every behaviour.

Fairness. `lock_progress` assumes that awaits of a live process settle (weak
fairness of a fiber's acquiring and releasing steps) and that time passes.
It assumes nothing of a caller's body, which may hold the lock for ever.
`transactions` assumes that a live process goes on and that commands keep coming
(the journal's recovery is only ever started by a command); it assumes neither
deaths nor edits. `operation_locks` assumes that a started command goes on and a
launched child starts. `engine_parts` assumes that a command in the middle of a
worker operation goes on; it asks nothing of the workers, which may hang or die,
so every wait for one must have its own deadline.

## 4. Proofs

Each theorem holds for every value of the constants that satisfies the named
`ASSUME`s of the modules: constants are of their types and special values are
distinct. TLC evaluates the assumptions in every run. An invariant that is not
inductive is proved through a stronger one, named below; one lemma per action
shows that it is kept.

- `AdvisoryLockProofs` (any fibers, processes, times, deaths, I/O errors, either
  expiry policy). `TypeCorrect`. `ExclusionTheorem`, `OwnerKeepsFile` and
  `Refinement` through `ReclaimInv`: a fiber has a file exactly while it is a
  live creator (`OwnFiles`), a waiter past its lstat has seen a file that was
  made (`SeenFiles`), and undisturbed, every creator's file is the one at the
  path (`CreatorsAtPath`) and a fiber about to unlink is the only one, the path
  then naming a file nobody uses (`ReclaimersAtPath`). Two owners would own one
  file. A step is then a contract step or a stutter, or it disturbs.
  `TakeoverTheorem` through `JudgedFiles`: a judgement stays true of its file
  because a file's identity is never used again. `SiblingsTheorem` has a
  hypothesis, `SiblingsGuarded`: the fibers of a process go through the guard of
  `withAdvisoryLockUsing` (an `acquireAdvisoryLockAt` by itself does not). Then
  one of them at most is past it (`OnePermit`), so the path of one about to
  unlink names its own file, none, or that of another process (`DropsApart`).
- `FileTransactionProofs` (any commands, files, transactions, deaths, edits).
  `TypeCorrect`, which includes that a process past `acquireLock` is the one
  holder of `transaction.lock`. `EditsSurvive`, `PreImagesKept`, `BlockedStays`
  through `FileInv`: a file about to be mutated was raced, or is untouched and
  backed up (`ArmedSafe`), and nobody is inside a blocked journal
  (`BlockedQuiet`). A step arms a file by verifying it, leaves armed files
  alone, or respects the lock; one lemma for each kind.
  `AllOrNothingHolds`, `NeverBlockedAlone` and `StagesRemoved` through
  `CalmInv`, while nobody meddles: the journal's state says what is true of every
  entry (`JournalTells`), a process knows more while it prepares (`StepTells`),
  and in the middle of the list the entries behind it are applied, those ahead
  are as it found them and the one under its hands is where its last step left
  it (`EntriesTell`, `HandTells`). Every such state of an entry is one of
  recovery's dispositions (`Fits`), so a death anywhere leaves a state that
  preflight accepts.
- `StateBucketProofs`. `TypeCorrect`; `TempsRemoved` through `TempInv`;
  `Refinement` and `QuarantinesAreDue` through `RecordInv`, for buckets whose
  mutations lock and which no plain `get` quarantines (`LockedSpecs`): the value
  read under the lock is the file's value until the lock is given back.
  `SelfDamage`: only what comes from outside leaves a damaged file.
- `StoresProofs`. `TypeCorrect`; `LeasesKept` through `PresentInv`: a
  session about to lease has seen its entry, a swap puts an entry back before
  the lock goes, and the collector has read every lease that names its
  candidate (`LeasesLooked`). `RootsKept` through `RootInv`; `PinsKept` through
  `PinInv`, for thresholds longer than a session: the keys of sessions are
  recent, and so is a pin the collector has not seen. For scratch apps
  `ScratchTypes`, and `EntryGoesLast` through `ScratchInv`: unless somebody
  crossed it, whoever acquires an app is alone with it (`AloneWith`), what can be
  destroyed has its cached plan (`PlanTells`), and a reaper without a plan has
  nothing to destroy (`ReapTells`). `CollectionLeavesNothing` through `AloneInv`:
  what the undisturbed collector has read is still so, then every app is sound, a
  candidate or the one being reaped (`ReadsTell`), and of that one each finished
  step of the reaper has removed its part (`WorkTells`).
- `WorkerLifecycleProofs`. `TypeCorrect`, `StrangersSpared` (inductive by
  itself), `WorkersKept` and `FilesMatch`, through `OwnInv` (the lock's holder
  and nobody else is inside an operation), `GoalInv`, `RecordInv` and
  `QuietInv`: as long as nothing is excused, the record, the files and the live
  workers tell one story at every step of an operation.
- `AppStartProofs`. For the schedule (any services, conditions and plan)
  `ScheduleTypes`, `Ordered`, `CyclesReported` and `NothingIsHidden`, together
  `AllAccounted`, through `ScheduleInv`: members of a wave were ready when it was
  formed and what settled stays settled (`WaveReady`, `SettledBehind`), what is
  left when nothing is ready waits for itself (`StuckPending`).
  For the claims `ClaimsTypes`, `OneClaim`, `Outcomes`, `NoRegress` through
  `ClaimInv`: the record never names a generation that is yet to come
  (`GenerationsInOrder`), and the claims of the current generation are in it
  (`ClaimsRecorded`).
  For synchronised mounts (any mounts) `AcceleratedTypes`, `WritesKept`,
  `IntentPrecedesWriters`, `StrandedWereSkipped` through `IInv`: as long as the
  engine knows the app, a volume with a writer or with writes of its own has its
  session (`EngineInv`); when it has forgotten the app, such a volume belongs to
  the saved plan or to an attempt past its intent (`WriterInv`), and then no
  start makes its session anew (`AttemptInv`) and no destroy goes on
  (`DisposalInv`). `PlanInv` ties journal, saved plan and command together. The
  two steps that could give writes up have a lemma of their own.
- `OperationLocksProofs` (any commands, processes, apps, volumes and programs,
  balanced or not, any deaths, moves and expiries). `LockTypesHold`,
  `BodiesHoldTheirKeys`, `AppsHaveOneCommand` and `ChildrenGoUnwaited` through
  `LocksInv`. A key around a body is locked by its phase or by one around that
  (`Covered`); the phases of a fiber lock different files, each of them its own
  with its permit, and a live fiber owns nothing else (`StackInv`), so that the
  end of an inner phase gives back nothing an outer one needs; a command that did
  not move names its app as it is (`Rooted`), so two commands on one app would
  own one lock. A child runs only while its parent waits for it, and its
  environment names every app lock of that parent (`Awaited`), because a process
  names the locks of all its fibers (`EnvTells`) as long as they close in the
  reverse of the order they opened (`~overlapped`); a lock the parent holds is
  then borrowed and never queued for. Assumed of programs
  (`ProgramsAssumption`): a hook's child is another command in a process of its
  own, and there are finitely many volumes.
  `NobodyWaitsInACircle` asks for more (`LockOrder`):
  the locks have ranks, and a program opens a phase only if its keys come later
  than all that is open and all its launchers hold (`Later`), or are open
  already; a plan's volumes are ranked by key. What is open around a hook is
  ranked up to its child's floor and the child works above it, except for an app
  its launcher holds. `Course` names the states such a program goes through, so
  that the assumption speaks of one instruction at a time; TLC evaluates it on
  the programs of `operation_locks`, and the restart of `nested_relock` is a
  program that fails it (finding 4). Proved through `OrderInv`: a fiber and the
  rest of its program are on its course (`OnCourse`), it asks for keys behind all
  it holds (`Asks`, `Behind`), a permit belongs to the file being taken or to one
  taken (`Permitted`), and the app a child asks for is locked where its launcher
  holds it (`SameApp`). Whoever waits for a lock or a child then waits for
  somebody further on (`Place`), and one of a circle would be the furthest. By the
  same measure none waits for itself (`OrderedNeverWaitForThemselves`).
- `PluginServicesProofs`. For the event service `EventTypesHold` and
  `EventsAccounted`, through `EventInv`: the history and each snapshot end the
  log where they were read (`EndsAt`), what a subscriber got stands in the log
  behind its subscription, in order (`InLog`), and got and dropped add up to
  what was committed since (`Logged`).
  For managed files (any owners, paths, callers, batches and number of edits)
  `FilesTypes`, `LedgerTrue`, `EditsKept`, `HandsKeptOff` through `FilesInv`.
  None of the three properties is inductive: a call decides on what it has seen
  and on jobs it has not done yet (`PendingDisk`), so the invariant follows the
  draft instead of the ledger. What a call is going to record of a path is what
  the last of its jobs there leaves (`LastFor`) or, without a job, what the file
  holds already (`Jobless`); no entry Lando calls its own holds a word of the
  user's (`Clean`), which is why overwriting an unedited file loses none; and a
  job keeps what it overwrites (`JobKeeps`), is not on an unmarked file
  (`JobMarked`) and not on an adopted one (`AtWork`). `PendingOnDisk` needs that
  a set of positions has a last one (`LastOne`), which the well-foundedness of
  the subsets of an interval gives. Assumed: the paths are finitely many, and a
  text of the user's is none of Lando's (who writes what Lando writes has
  changed nothing).

Proved, and therefore in no passing run: `NoTempLeft`, `BlockedIsInert`,
`OutcomeByClaimer`, `QuarantinesOnlyCorrupt` (which the buckets of `stores` keep
because they are `LockedSpecs`). Model-checked only: liveness under fairness
(`AcquireSettles`, `DeadOwnerReclaimed`, `JournalSettles`, `CommandsEnd`,
`OperationsEnd`), which is outside what TLAPS can prove.

## 5. Findings

1. `lock_double_reclaim`. Two waiters that both judged a dead owner's file can
   both pass the second lstat; the slower unlink (`lock.ts:177`) removes the
   lock the faster one has made since, and both run their bodies. The comment
   at `lock.ts:14` and `spec/12-caches-and-persistence.md:173` promise
   serialization.
2. `bucket_quarantine_race`. A `get` takes no lock; the file it moves away
   (`service.ts:69`) may be the good one a locked update wrote since its read.
3. `sources_age_zero`. The collector's last look reads lockfiles before leases
   (`gc-prune.ts:124`), while a session moves its claim from lease to lockfile.
   With `--older-than=0` an entry pinned in that moment is removed, which the
   spec says never happens. With a threshold longer than a session's life it
   cannot, because the entry's touch then makes it recent (`PinnedKept`).
4. `nested_relock`. `volume-coordination.ts:156` reuses held volume keys only
   when every key of the nested plan is held; otherwise it locks all of them
   again, in a process whose permits for some it holds itself. A restart whose
   applied plan shares one of two volumes with the new one waits for its own
   permit, which has no deadline. The test `volume-coordination.test.ts:267`
   says nested callers reuse what they hold.

5. `targets_stranded`. A start of a destroyed app that ends after its volumes
   were prepared and before its first session leaves the engine's receipt of the
   earlier destroy (`completed`). The destroy that follows trusts it
   (`destroy-file-sync.ts:131`), skips the volumes and clears the journal, the
   only record of them; from then on starts refuse and destroys find nothing.
   `spec/05-runtime-providers.md:131` says a destroy disposes the attempt's
   sessions and targets from any phase.

6. `foreign_handover`. A plugin's view looks for paths of other owners before the
   service takes the ledger's lock, and `adopt` and `release` take any owner's
   entry (`context.ts:121`, `context.ts:207`). A release that a plugin asks for
   while Core generates the file hands Core's file to the user.
   `spec/10-plugins.md:216` says cross-owner calls must be prevented.

## 6. Not modelled

| Part | Why |
|---|---|
| The guard of loaders (`transaction-guard.ts`) | left for later; the transactions below it are modelled |
| Build orchestrator | runs its steps with the modelled schedule; skipping by recorded results is left for later |
| Global app's policy | a bucket with the modelled protocol; admission of its consumers is left for later |
| Planner, Landofile loading, SDK schemas | pure functions over data that tests cover better |
| Inside of a sync engine call (Mutagen's daemon, the ledger's own crash recovery) | one step each in `AcceleratedStart` |
| Container runtime drivers, source transports, HTTP client | I/O whose state is another system's |
| Data mover, updates, MCP server | candidates for later |
| Command line, renderers, documentation, scripts, bundled plugins, vendored code | sequential or stateless, or not part of the running system |

The covered share of the repository's lines is small because the repository is
large (320 000 lines, most of it schemas, plugins, drivers, scripts and
front end); the models cover the code where processes share state.

## 7. What the plan has left

1. `GuardedLoad`: a loader after the transaction guard, composed with
   `FileTransaction`.
2. The global app's policy against the consumers it was admitted for.
3. The build orchestrator's skipping of steps by their recorded results.
