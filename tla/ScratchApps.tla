----------------------------- MODULE ScratchApps -----------------------------
(***************************************************************************)
(* Disposable apps (engine/src/scratch-app).  Acquiring one registers it,  *)
(* makes its directory, caches its plan, lets the provider create volumes  *)
(* and containers, and marks the entry running; the scope of a foreground  *)
(* acquisition, a destroy, a poweroff and the collector reap it.           *)
(*                                                                         *)
(* Four places tell of an app: the registry, a bucket whose writes go by   *)
(* one transition table; its directory; the plan cached in it; and what    *)
(* the provider has under its label.  No lock spans two of them, so each   *)
(* call is a step, and commands meet between any two.                      *)
(*                                                                         *)
(* A runner is a process with one command; it can run another one later,   *)
(* as a new process.  Events, routes and snapshots are left out, and so is *)
(* the collector's report without --prune, which only reads.               *)
(***************************************************************************)
EXTENDS Naturals

CONSTANTS
  App,         \* scratch ids, never used twice (synthesizeId)
  Runner,
  None,        \* no entry, no app, nobody
  MaxAccidents \* bound: calls that fail or find the provider away, commands that are killed (or
               \* interrupted before the startup's cleanup), quarantines of the registry

\* What the registry says of an app.
Entry == [status : {"acquiring", "running", "destroyed-pending-cleanup"},
          detached : BOOLEAN, owner : Runner \cup {None}]

ASSUME ScratchAssumption ==
  /\ None \notin App \cup Runner \cup Entry
  /\ MaxAccidents \in Nat

VARIABLES
  registry,    \* registry.bin: the entry of each app
  dirs,        \* apps whose instance directory exists
  plans,       \* apps whose directory holds a cached plan
  storage,     \* apps with labelled volumes
  containers,  \* apps with labelled containers
  run,         \* the command of each runner
  born,        \* ids taken so far
  accidents,
  crossed,     \* history: another command went for the app while it was acquired, or its entry was lost
  spared,      \* history: apps destroyed with --keep-volumes
  alone        \* history: the collection during which nothing else happened and nothing failed

disk == <<dirs, plans>>
provider == <<storage, containers>>
counts == <<born, accidents>>
scratchVars == <<registry, disk, provider, run, counts, crossed, spared, alone>>

NothingSeen == [containers |-> FALSE, storage |-> FALSE]
Resting == [kind |-> "none", step |-> "rest", app |-> None, detached |-> FALSE,
            keepOnFailure |-> FALSE, retained |-> FALSE, failed |-> FALSE, keepVolumes |-> FALSE, plan |-> FALSE,
            entry |-> None, seen |-> NothingSeen,
            entries |-> None, directories |-> {}, candidates |-> {}]
\* A foreground acquisition that is done, its scope open.
Holding(a) == [Resting EXCEPT !.kind = "acquire", !.step = "held", !.app = a]
\* The cleanup of a failed acquisition, or of a scope that closes.
Cleaning(a, failed, plan) ==
  [Resting EXCEPT !.kind = "acquire", !.step = "reap", !.app = a, !.failed = failed, !.plan = plan]

At(c, step) == run[c].step = step
Turn(c, step) == run' = [run EXCEPT ![c].step = step]
Leave(c) == run' = [run EXCEPT ![c] = Resting]
Accident == accidents < MaxAccidents /\ accidents' = accidents + 1 /\ UNCHANGED born

ScratchInit ==
  /\ registry = [a \in App |-> None] /\ run = [c \in Runner |-> Resting]
  /\ dirs = {} /\ plans = {} /\ storage = {} /\ containers = {}
  /\ born = {} /\ accidents = 0
  /\ crossed = {} /\ spared = {} /\ alone = None

-----------------------------------------------------------------------------
(* The registry.                                                            *)

\* scratchRegistryTransitions: the statuses each write starts from.
From == [step \in {"mark-running", "detach", "mark-pending-cleanup"} |->
  CASE step = "mark-running" -> {"acquiring"}
    [] step = "detach" -> {"acquiring", "running"}
    [] step = "mark-pending-cleanup" -> {"acquiring", "running", "destroyed-pending-cleanup"}]

Legal(step, a) == registry[a] # None /\ registry[a].status \in From[step]

\* The table decides the status and who is detached; the owner is the one the caller's entry names.
Upsert(step, a, owner) ==
  registry' = [registry EXCEPT ![a] =
    [status |-> CASE step = "mark-running" -> "running"
                  [] step = "detach" -> @.status
                  [] step = "mark-pending-cleanup" -> "destroyed-pending-cleanup",
     detached |-> step = "detach" \/ @.detached,
     owner |-> owner]]

\* ownerPidIsDead: the process that acquired the app in the foreground has ended.
OwnerDead(a, entry) ==
  ~entry.detached /\ entry.owner # None /\ ~(run[entry.owner].kind = "acquire" /\ run[entry.owner].app = a)

-----------------------------------------------------------------------------
(* Acquisition.                                                             *)

AcquireSteps == {"materialize", "plan", "volumes", "containers", "mark"}

Register(c, a) ==
  /\ At(c, "rest") /\ a \notin born
  /\ \E detached, keepOnFailure \in BOOLEAN :
       /\ registry' = [registry EXCEPT ![a] =
            [status |-> "acquiring", detached |-> detached, owner |-> IF detached THEN None ELSE c]]
       /\ run' = [run EXCEPT ![c] = [@ EXCEPT !.kind = "acquire", !.step = "materialize", !.app = a,
                                              !.detached = detached, !.keepOnFailure = keepOnFailure]]
  /\ born' = born \cup {a}
  /\ UNCHANGED <<disk, provider, accidents, crossed, spared>>

MakeRoot(c) ==
  /\ At(c, "materialize") /\ dirs' = dirs \cup {run[c].app} /\ Turn(c, "plan")
  /\ UNCHANGED <<registry, plans, provider, counts, crossed, spared>>

\* The write of the plan makes the directory again, should it be gone.
WritePlan(c) ==
  /\ At(c, "plan") /\ Turn(c, "volumes")
  /\ dirs' = dirs \cup {run[c].app} /\ plans' = plans \cup {run[c].app}
  /\ UNCHANGED <<registry, provider, counts, crossed, spared>>

CreateVolumes(c) ==
  /\ At(c, "volumes") /\ storage' = storage \cup {run[c].app} /\ Turn(c, "containers")
  /\ UNCHANGED <<registry, disk, containers, counts, crossed, spared>>

StartContainers(c) ==
  /\ At(c, "containers") /\ containers' = containers \cup {run[c].app} /\ Turn(c, "mark")
  /\ UNCHANGED <<registry, disk, storage, counts, crossed, spared>>

MarkRunning(c) ==
  LET a == run[c].app IN
  /\ At(c, "mark") /\ Legal("mark-running", a)
  /\ Upsert("mark-running", a, IF run[c].detached THEN None ELSE c)
  /\ IF run[c].detached THEN Leave(c) ELSE run' = [run EXCEPT ![c] = Holding(a)]
  /\ UNCHANGED <<disk, provider, counts, crossed, spared>>

\* unlessKeepOnFailure, without a plan before startup; then the cleanup of withScratchAcquisition.
GiveUp(c) ==
  IF run[c].keepOnFailure THEN Leave(c)
  ELSE \E plan \in BOOLEAN :
         /\ plan = FALSE => run[c].step \in {"materialize", "plan"}
         /\ plan = TRUE => ~At(c, "materialize")
         /\ run' = [run EXCEPT ![c] = Cleaning(run[c].app, TRUE, plan)]

AcquireFails(c) ==
  /\ run[c].step \in AcquireSteps
  /\ IF At(c, "mark") /\ ~Legal("mark-running", run[c].app) THEN UNCHANGED counts ELSE Accident
  /\ GiveUp(c)
  /\ UNCHANGED <<registry, disk, provider, crossed, spared>>

\* apps:scratch:run --keep, when its tool has run.
Detach(c) ==
  /\ At(c, "held")
  /\ \/ /\ Legal("detach", run[c].app) /\ Upsert("detach", run[c].app, None)
        /\ run' = [run EXCEPT ![c].step = "close", ![c].retained = TRUE]
        /\ UNCHANGED counts
     \/ /\ IF Legal("detach", run[c].app) THEN Accident ELSE UNCHANGED counts
        /\ Turn(c, "close")
        /\ UNCHANGED registry
  /\ UNCHANGED <<disk, provider, crossed, spared>>

\* The finalizer's answer to "is this app mine?".
Owned(entry, exists) == IF entry # None THEN ~entry.detached ELSE exists

\* An unreadable registry counts as an absent entry, and an unreadable directory as there.
CloseScope(c) ==
  LET a == run[c].app IN
  /\ run[c].step \in {"held", "close"}
  /\ \E entry \in {registry[a], None}, exists \in {TRUE, (a \in dirs)} :
       /\ IF entry = registry[a] /\ exists = (a \in dirs) THEN UNCHANGED counts ELSE Accident
       /\ IF Owned(entry, exists) /\ ~run[c].retained
            THEN run' = [run EXCEPT ![c] = Cleaning(a, FALSE, TRUE)]
            ELSE Leave(c)
  /\ UNCHANGED <<registry, disk, provider, crossed, spared>>

-----------------------------------------------------------------------------
(* The reaper.                                                              *)

\* The next candidate, or the end of the command; a cleanup's error is only logged.
EndReap(c) == IF run[c].kind = "gc"
  THEN run' = [run EXCEPT ![c] = [Resting EXCEPT !.kind = "gc", !.step = "next",
                                                 !.candidates = run[c].candidates]]
  ELSE Leave(c)

\* Mutant: an absent entry ends every reap, not only the cleanup of a failed acquisition.
Inspect_Registered(c) ==
  /\ At(c, "reap")
  /\ IF registry[run[c].app] = None THEN EndReap(c)
     ELSE run' = [run EXCEPT ![c].entry = registry[run[c].app],
                             ![c].step = IF run[c].plan THEN "stop" ELSE "scan"]
  /\ UNCHANGED <<registry, disk, provider, counts, crossed, spared>>

Inspect(c) ==
  /\ At(c, "reap")
  /\ IF run[c].failed /\ registry[run[c].app] = None THEN EndReap(c)
     ELSE run' = [run EXCEPT ![c].entry = registry[run[c].app],
                             ![c].step = IF run[c].plan THEN "stop" ELSE "scan"]
  /\ UNCHANGED <<registry, disk, provider, counts, crossed, spared>>

\* Without a plan the labels tell what there is, now; a provider that is away shows nothing.
Scan(c) ==
  /\ At(c, "scan")
  /\ \E away \in BOOLEAN :
       /\ IF away THEN Accident ELSE UNCHANGED counts
       /\ run' = [run EXCEPT ![c].step = "stop", ![c].seen =
            [containers |-> ~away /\ run[c].app \in containers,
             storage |-> ~away /\ run[c].app \in storage /\ ~run[c].keepVolumes]]
  /\ UNCHANGED <<registry, disk, provider, crossed, spared>>

Stop(c) ==
  /\ At(c, "stop") /\ Turn(c, "destroy")
  /\ containers' = IF run[c].plan \/ run[c].seen.containers THEN containers \ {run[c].app} ELSE containers
  /\ UNCHANGED <<registry, disk, storage, counts, crossed, spared>>

Destroy(c) ==
  /\ At(c, "destroy") /\ Turn(c, "rm")
  /\ containers' = IF run[c].plan THEN containers \ {run[c].app} ELSE containers
  /\ storage' = IF ~run[c].keepVolumes /\ (run[c].plan \/ run[c].seen.storage)
                  THEN storage \ {run[c].app} ELSE storage
  /\ spared' = IF run[c].keepVolumes THEN spared \cup {run[c].app} ELSE spared
  /\ UNCHANGED <<registry, disk, counts, crossed>>

RemoveRoot(c) ==
  /\ At(c, "rm") /\ Turn(c, "unlink")
  /\ dirs' = dirs \ {run[c].app} /\ plans' = plans \ {run[c].app}
  /\ UNCHANGED <<registry, provider, counts, crossed, spared>>

Unlink(c) ==
  /\ At(c, "unlink") /\ registry' = [registry EXCEPT ![run[c].app] = None] /\ EndReap(c)
  /\ UNCHANGED <<disk, provider, counts, crossed, spared>>

\* Before its first step a reap fails without a trace.
ReapRefused(c) ==
  /\ run[c].step \in {"reap", "scan"} /\ Accident /\ EndReap(c)
  /\ UNCHANGED <<registry, disk, provider, crossed, spared>>

\* Mutant: a failed step is passed over.
ReapFails_PassedOver(c) ==
  /\ run[c].step \in {"stop", "destroy", "rm"} /\ Accident
  /\ Turn(c, CASE At(c, "stop") -> "destroy" [] At(c, "destroy") -> "rm" [] At(c, "rm") -> "unlink")
  /\ UNCHANGED <<registry, disk, provider, crossed, spared>>

\* A later failure, or an interruption, leaves the entry marked, if the mark can be written.
ReapFails(c) ==
  LET a == run[c].app IN
  /\ run[c].step \in {"stop", "destroy", "rm", "unlink"} /\ Accident
  /\ \/ /\ run[c].entry # None /\ Legal("mark-pending-cleanup", a)
        /\ Upsert("mark-pending-cleanup", a, run[c].entry.owner)
     \/ UNCHANGED registry
  /\ EndReap(c)
  /\ UNCHANGED <<disk, provider, crossed, spared>>

-----------------------------------------------------------------------------
(* Destroy and poweroff, and the collector.                                 *)

\* The cached plan is read first; history notes whom the command may meet.
Target(c, a, task) ==
  /\ run' = [run EXCEPT ![c] = [task EXCEPT !.step = "reap", !.app = a, !.plan = a \in plans]]
  /\ crossed' = IF \E o \in Runner \ {c} : run[o].app = a /\ run[o].step \in AcquireSteps
                  THEN crossed \cup {a} ELSE crossed

\* destroy needs an entry; poweroff takes what runs under the label too.
BeginDestroy(c, a) ==
  /\ At(c, "rest")
  /\ \E keepVolumes \in BOOLEAN :
       /\ registry[a] # None \/ (a \in containers /\ ~keepVolumes)
       /\ Target(c, a, [Resting EXCEPT !.kind = "destroy", !.keepVolumes = keepVolumes])
  /\ UNCHANGED <<registry, disk, provider, counts, spared>>

BeginGc(c) ==
  /\ At(c, "rest")
  /\ run' = [run EXCEPT ![c] = [@ EXCEPT !.kind = "gc", !.step = "directories", !.entries = registry]]
  /\ UNCHANGED <<registry, disk, provider, counts, crossed, spared>>

ListDirectories(c) ==
  /\ At(c, "directories")
  /\ run' = [run EXCEPT ![c] = [@ EXCEPT !.step = "labels", !.directories = dirs]]
  /\ UNCHANGED <<registry, disk, provider, counts, crossed, spared>>

\* Mutant: only what the registry knows is looked at.
Candidates_Registered(entries, directories, labels) ==
  {a \in App : entries[a] # None /\ (\/ entries[a].status = "destroyed-pending-cleanup"
                                    \/ a \notin directories
                                    \/ OwnerDead(a, entries[a]))}

Candidates(entries, directories, labels) ==
  {a \in App :
     IF entries[a] = None THEN a \in directories \cup labels
     ELSE \/ entries[a].status = "destroyed-pending-cleanup"
          \/ a \notin directories
          \/ OwnerDead(a, entries[a])}

ListLabels(c) ==
  /\ At(c, "labels")
  /\ \E labels \in {containers \cup storage, {}} :
       /\ IF labels # containers \cup storage THEN Accident ELSE UNCHANGED counts
       /\ run' = [run EXCEPT ![c] = [Resting EXCEPT !.kind = "gc", !.step = "next",
            !.candidates = Candidates(run[c].entries, run[c].directories, labels)]]
  /\ UNCHANGED <<registry, disk, provider, crossed, spared>>

NextCandidate(c) ==
  /\ At(c, "next")
  /\ \/ run[c].candidates = {} /\ Leave(c) /\ UNCHANGED crossed
     \/ \E a \in run[c].candidates :
          Target(c, a, [run[c] EXCEPT !.candidates = @ \ {a}])
  /\ UNCHANGED <<registry, disk, provider, counts, spared>>

-----------------------------------------------------------------------------
(* The environment.                                                         *)

Die(c) ==
  /\ ~At(c, "rest") /\ Accident /\ Leave(c)
  /\ UNCHANGED <<registry, disk, provider, crossed, spared>>

LoseRegistry ==
  /\ \E a \in App : registry[a] # None
  /\ Accident
  /\ registry' = [a \in App |-> None]
  /\ crossed' = crossed \cup {a \in App : registry[a] # None}
  /\ UNCHANGED <<disk, provider, run, spared>>

-----------------------------------------------------------------------------
Work(c) ==
  \/ MakeRoot(c) \/ WritePlan(c) \/ CreateVolumes(c) \/ StartContainers(c) \/ MarkRunning(c)
  \/ AcquireFails(c) \/ Detach(c) \/ CloseScope(c)
  \/ Inspect(c) \/ Scan(c) \/ Stop(c) \/ Destroy(c) \/ RemoveRoot(c) \/ Unlink(c)
  \/ ReapRefused(c) \/ ReapFails(c)
  \/ ListDirectories(c) \/ ListLabels(c) \/ NextCandidate(c)

ScratchNext ==
  \/ \E c \in Runner : BeginGc(c) /\ alone' = c
  \/ \E c \in Runner :
       Work(c) /\ alone' = IF alone = c /\ UNCHANGED accidents /\ run'[c].kind = "gc" THEN c ELSE None
  \/ /\ \/ \E c \in Runner, a \in App : Register(c, a) \/ BeginDestroy(c, a)
        \/ \E c \in Runner : Die(c)
        \/ LoseRegistry
     /\ alone' = None

ScratchSpec == ScratchInit /\ [][ScratchNext]_scratchVars

-----------------------------------------------------------------------------
Command ==
  [kind : {"none", "acquire", "destroy", "gc"},
   step : AcquireSteps \cup {"rest", "held", "close", "reap", "scan", "stop", "destroy", "rm", "unlink",
                             "directories", "labels", "next"},
   app : App \cup {None}, detached : BOOLEAN, keepOnFailure : BOOLEAN, retained : BOOLEAN,
   failed : BOOLEAN, keepVolumes : BOOLEAN, plan : BOOLEAN, entry : Entry \cup {None},
   seen : [containers : BOOLEAN, storage : BOOLEAN],
   entries : [App -> Entry \cup {None}] \cup {None},
   directories : SUBSET App, candidates : SUBSET App]

ScratchTypeOK ==
  /\ registry \in [App -> Entry \cup {None}] /\ run \in [Runner -> Command]
  /\ dirs \subseteq App /\ plans \subseteq App /\ storage \subseteq App /\ containers \subseteq App
  /\ born \subseteq App /\ crossed \subseteq App /\ spared \subseteq App
  /\ accidents \in Nat /\ alone \in Runner \cup {None}

\* "Finalization MUST destroy resources before unlinking state" (19-scratch-apps.md), whichever of
\* its steps fails or is the last of a killed command: an app without an entry has no containers, no
\* directory and no volumes but those the user kept.  Not so where the entry was lost, or where
\* somebody went for the app while it was still being acquired.
UnlinkedLast ==
  \A a \in born \ crossed :
    registry[a] = None => a \notin containers \cup dirs /\ (a \in storage => a \in spared)

\* One collection, if it meets no failure and nobody else acts meanwhile, recovers whatever earlier
\* deaths, failures, losses and meetings left behind ("recovers both lost registry entries and
\* host-only artifacts"): what remains has an entry, a directory and a living owner or none.
GcLeavesNothing ==
  [][\A c \in Runner :
       alone = c /\ At(c, "next") /\ run'[c] = Resting /\ UNCHANGED accidents =>
         \A a \in born : a \in dirs \cup containers \cup storage \/ registry[a] # None =>
           /\ a \in dirs /\ registry[a] # None
           /\ registry[a].status # "destroyed-pending-cleanup"
           /\ ~OwnerDead(a, registry[a])]_scratchVars
=============================================================================
