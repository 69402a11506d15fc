--------------------------- MODULE AcceleratedStart ---------------------------
(***************************************************************************)
(* Starts, stops and destroys of an app whose files are synchronised into  *)
(* volumes (engine/src/operations: accelerated-start-*, start-internal,    *)
(* start-file-sync*, stop-internal, destroy-file-sync, destroy-execute).   *)
(*                                                                         *)
(* Four parties keep a record of such an app: the start journal, the       *)
(* provider with its saved plan and its volumes, the sync engine with its  *)
(* sessions, and the Landofile.  A command changes them one after another  *)
(* and may end between any two steps, because it fails, refuses or dies;   *)
(* the next one goes by what the four then say.  Commands of an app        *)
(* exclude each other (app mutation lock), so one is under way at most.    *)
(*                                                                         *)
(* A plan is the set of the mounts it accelerates, the empty one ordinary; *)
(* a mount stands for its session, with its whole spec, and its volume.    *)
(* Each call of the engine and each record is one step: what the engine    *)
(* does inside one is its own ledger's business.                           *)
(***************************************************************************)
EXTENDS FiniteSets

CONSTANT Mount

Accelerable == SUBSET Mount

VARIABLES
  landofile,   \* the plan the Landofile asks for
  journal,     \* the start attempt: its phase and plan
  applied,     \* the provider's saved plan, if any
  targets,     \* sync volumes the provider has prepared
  writers,     \* sync volumes that running app containers write to
  engine,      \* the sync engine's disposal phase of the app
  sessions,    \* the engine's sessions of the app
  dirty,       \* volumes with writes that are not back in the project yet
  cmd,         \* the command under way: its kind and step, the plan it is to apply, the plan
               \* whose sync it disposes of, and the phase of the attempt it resumed
  lost,        \* history: volumes whose writes were given up
  skipped      \* history: volumes a destroy passed over because of an old completion receipt

acceleratedVars == <<landofile, journal, applied, targets, writers, engine, sessions, dirty, cmd,
                     lost, skipped>>
disk == <<journal, applied>>
volumes == <<targets, writers, dirty>>
sync == <<engine, sessions>>
ghostSync == <<lost, skipped>>

NoStart == [phase |-> "completed", plan |-> {}]
NotApplied == [saved |-> FALSE, plan |-> {}]
NoCommand == [kind |-> "none", step |-> "idle", plan |-> {}, old |-> {}, resumed |-> "none"]

AcceleratedInit ==
  /\ landofile \in Accelerable /\ journal = NoStart /\ applied = NotApplied
  /\ targets = {} /\ writers = {} /\ dirty = {}
  /\ engine = "absent" /\ sessions = {}
  /\ cmd = NoCommand /\ lost = {} /\ skipped = {}

-----------------------------------------------------------------------------
(* What a command finds.                                                    *)

Unfinished == journal.phase # "completed"

\* inspectAppliedFileSync: volumes of the app without a saved accelerated plan are "unknown".
Inspected == IF applied.plan # {} THEN "accelerated"
             ELSE IF targets # {} THEN "unknown"
             ELSE IF applied.saved THEN "ordinary" ELSE "missing"

\* hasExactFileSyncSessionCoverage of a saved plan.
Covered == applied.plan # {} /\ sessions = applied.plan

DisposalCommitted == engine \in {"disposing", "completed"}

Idle == cmd.kind = "none"
At(step) == cmd.step = step
Turn(step) == cmd' = [cmd EXCEPT !.step = step]
Done == cmd' = NoCommand
Begin(kind, step, planned, old) ==
  /\ Idle
  /\ cmd' = [kind |-> kind, step |-> step, plan |-> planned, old |-> old, resumed |-> "none"]
  /\ UNCHANGED <<landofile, disk, volumes, sync, ghostSync>>

-----------------------------------------------------------------------------
(* Start: rotation and preflight.                                           *)

BeginStart == Begin("start", "rotate", landofile, {})

\* An unfinished attempt of the same identity is resumed, never superseded.
NothingToRotate ==
  IF Unfinished THEN journal.plan = cmd.plan
  ELSE Inspected # "accelerated" \/ (~DisposalCommitted /\ applied.plan = cmd.plan)

Rotate ==
  /\ At("rotate")
  /\ \/ NothingToRotate /\ Turn("preflight")
     \/ /\ ~Unfinished /\ ~NothingToRotate
        /\ DisposalCommitted \/ Covered
        /\ cmd' = [cmd EXCEPT !.step = "quiesce", !.old = applied.plan]
  /\ UNCHANGED <<landofile, disk, volumes, sync, ghostSync>>

\* No attempt is open; a drained engine is woken before hooks can write.
PreflightApplied ==
  /\ At("preflight") /\ ~Unfinished /\ Inspected # "unknown"
  /\ IF Inspected = "accelerated"
       THEN Covered /\ engine \in {"active", "drained"} /\ engine' = "active"
       ELSE UNCHANGED engine
  /\ Turn("begin")
  /\ UNCHANGED <<landofile, disk, volumes, sessions, ghostSync>>

PreflightPending ==
  /\ At("preflight") /\ Unfinished
  /\ sessions \subseteq cmd.plan
  /\ Inspected = "accelerated" => Covered
  /\ Turn("reprepare")
  /\ UNCHANGED <<landofile, disk, volumes, sync, ghostSync>>

PrepareTarget(m) ==
  /\ cmd.step \in {"reprepare", "prepare"}
  /\ m \in cmd.plan \ targets
  /\ targets' = targets \cup {m}
  /\ UNCHANGED <<landofile, disk, writers, dirty, sync, cmd, ghostSync>>

InvalidateDrain ==
  /\ At("reprepare") /\ cmd.plan \subseteq targets
  /\ \/ engine \in {"active", "drained"} /\ engine' = "active"
     \/ engine \in {"absent", "completed"} /\ sessions = {} /\ UNCHANGED engine
  /\ Turn("begin")
  /\ UNCHANGED <<landofile, disk, volumes, sessions, ghostSync>>

-----------------------------------------------------------------------------
(* Start: the attempt.                                                      *)

JournalEdge == [step \in {"record-sessions", "record-apply-intent", "complete"} |->
  CASE step = "record-sessions" ->
         [from |-> {"preparing"}, to |-> "sessions-ready",
          settled |-> {"sessions-ready", "apply-intent", "completed"}]
    [] step = "record-apply-intent" ->
         [from |-> {"sessions-ready"}, to |-> "apply-intent",
          settled |-> {"apply-intent", "completed"}]
    [] step = "complete" ->
         [from |-> {"apply-intent"}, to |-> "completed", settled |-> {"completed"}]]

Advance(step) ==
  \/ /\ journal.phase \in JournalEdge[step].from
     /\ journal' = [journal EXCEPT !.phase = JournalEdge[step].to]
  \/ journal.phase \in JournalEdge[step].settled /\ UNCHANGED journal

BeginJournal ==
  /\ At("begin") /\ cmd.plan # {}
  /\ IF Unfinished
       THEN cmd' = [cmd EXCEPT !.step = "sessions", !.resumed = journal.phase] /\ UNCHANGED journal
       ELSE Turn("prepare") /\ journal' = [phase |-> "preparing", plan |-> cmd.plan]
  /\ UNCHANGED <<landofile, applied, volumes, sync, ghostSync>>

BeginOrdinary ==
  /\ At("begin") /\ cmd.plan = {} /\ Inspected \in {"missing", "ordinary"}
  /\ Turn("apply")
  /\ UNCHANGED <<landofile, disk, volumes, sync, ghostSync>>

Prepared ==
  /\ At("prepare") /\ cmd.plan \subseteq targets
  /\ Turn("sessions")
  /\ UNCHANGED <<landofile, disk, volumes, sync, ghostSync>>

\* A session that is gone after the app may have written is not made again: the bundled engine
\* cannot recover one.
CreateSession(m) ==
  /\ At("sessions") /\ cmd.resumed # "apply-intent"
  /\ m \in cmd.plan \ sessions
  /\ engine \in {"absent", "active", "completed"} /\ engine' = "active"
  /\ sessions' = sessions \cup {m}
  /\ lost' = lost \cup (dirty \cap {m})
  /\ UNCHANGED <<landofile, disk, volumes, cmd, skipped>>

RecordSessions ==
  /\ At("sessions") /\ cmd.plan \subseteq sessions
  /\ Advance("record-sessions") /\ Turn("intent")
  /\ UNCHANGED <<landofile, applied, volumes, sync, ghostSync>>

RecordApplyIntent_Unrecorded ==
  /\ At("intent") /\ Turn("apply")
  /\ UNCHANGED <<landofile, disk, volumes, sync, ghostSync>>

RecordApplyIntent ==
  /\ At("intent")
  /\ Advance("record-apply-intent") /\ Turn("apply")
  /\ UNCHANGED <<landofile, applied, volumes, sync, ghostSync>>

ApplyContainers ==
  /\ At("apply")
  /\ writers' = cmd.plan /\ Turn("remember")
  /\ UNCHANGED <<landofile, disk, targets, dirty, sync, ghostSync>>

RememberApplied ==
  /\ At("remember")
  /\ applied' = [saved |-> TRUE, plan |-> cmd.plan]
  /\ IF cmd.plan = {} THEN Done ELSE Turn("complete")
  /\ UNCHANGED <<landofile, journal, volumes, sync, ghostSync>>

CompleteStart ==
  /\ At("complete")
  /\ Advance("complete") /\ Done
  /\ UNCHANGED <<landofile, applied, volumes, sync, ghostSync>>

-----------------------------------------------------------------------------
(* The engine's drain, in a stop and in a disposal.                         *)

DrainApp ==
  /\ engine \in {"active", "drained"} /\ engine' = "drained"
  /\ dirty' = dirty \ sessions

-----------------------------------------------------------------------------
(* Stop.                                                                    *)

BeginStop ==
  \/ /\ Unfinished /\ journal.plan = landofile /\ sessions \subseteq landofile
     /\ Begin("stop", "halt", {}, landofile)
  \/ /\ ~Unfinished /\ applied.saved /\ Inspected # "unknown"
     /\ Inspected = "accelerated" => Covered
     /\ Begin("stop", "halt", {}, applied.plan)

Halt ==
  /\ At("halt")
  /\ writers' = {}
  /\ IF cmd.old # {} /\ sessions # {} THEN Turn("final") ELSE Done
  /\ UNCHANGED <<landofile, disk, targets, dirty, sync, ghostSync>>

FinalDrain ==
  /\ At("final")
  /\ DrainApp /\ Done
  /\ UNCHANGED <<landofile, disk, targets, writers, sessions, ghostSync>>

-----------------------------------------------------------------------------
(* Destroy, and the disposal of sync it shares with a rotation.             *)

RetainedUnapplied == Unfinished /\ Inspected # "accelerated"

BeginDestroy ==
  \/ /\ Unfinished /\ journal.plan = landofile
     /\ Inspected = "accelerated" => DisposalCommitted \/ Covered
     /\ Begin("destroy", "quiesce", {}, landofile)
  \/ /\ ~Unfinished /\ applied.saved /\ Inspected = "accelerated"
     /\ DisposalCommitted \/ Covered
     /\ Begin("destroy", "quiesce", {}, applied.plan)
  \/ /\ ~Unfinished /\ Inspected = "ordinary"
     /\ Begin("destroy", "retire", {}, {})

\* quiesceForFileSync.
Quiesce ==
  /\ At("quiesce") /\ ~RetainedUnapplied /\ engine # "completed"
  /\ writers' = {} /\ Turn("drain")
  /\ UNCHANGED <<landofile, disk, targets, dirty, sync, ghostSync>>

QuiesceRetained_Uncovered ==
  /\ At("quiesce") /\ RetainedUnapplied /\ ~DisposalCommitted
  /\ writers' = {}
  /\ sessions \subseteq cmd.old
  /\ Turn("drain")
  /\ UNCHANGED <<landofile, disk, targets, dirty, sync, ghostSync>>

\* quiesceRetainedFileSync: of an attempt that may have let the app write, every volume must
\* have its session.
QuiesceRetained ==
  /\ At("quiesce") /\ RetainedUnapplied /\ ~DisposalCommitted
  /\ writers' = {}
  /\ sessions \subseteq cmd.old
  /\ journal.phase = "apply-intent" => targets \cap cmd.old \subseteq sessions
  /\ Turn("drain")
  /\ UNCHANGED <<landofile, disk, targets, dirty, sync, ghostSync>>

\* Disposal has begun before: no writer is left.
ResumeRetained ==
  /\ At("quiesce") /\ RetainedUnapplied /\ engine = "disposing"
  /\ Turn("drain")
  /\ UNCHANGED <<landofile, disk, volumes, sync, ghostSync>>

\* Nothing is left to dispose of, the receipt says.
SkipDisposal ==
  /\ At("quiesce") /\ engine = "completed"
  /\ skipped' = skipped \cup (targets \cap cmd.old)
  /\ Turn("retire")
  /\ UNCHANGED <<landofile, disk, volumes, sync, lost>>

Drain ==
  /\ At("drain")
  /\ \/ DrainApp /\ Turn("dispose")
     \/ engine = "disposing" /\ Turn("dispose") /\ UNCHANGED <<engine, dirty>>
     \/ engine = "absent" /\ Turn("targets") /\ UNCHANGED <<engine, dirty>>
  /\ UNCHANGED <<landofile, disk, targets, writers, sessions, ghostSync>>

Dispose ==
  /\ At("dispose") /\ engine \in {"drained", "disposing"}
  /\ engine' = "disposing" /\ sessions' = {} /\ Turn("targets")
  /\ UNCHANGED <<landofile, disk, volumes, ghostSync>>

DisposeTarget(m) ==
  /\ At("targets") /\ m \in targets \cap cmd.old
  /\ targets' = targets \ {m} /\ dirty' = dirty \ {m}
  /\ lost' = lost \cup (dirty \cap {m})
  /\ UNCHANGED <<landofile, disk, writers, sync, cmd, skipped>>

CompleteDisposal_BeforeTargets ==
  /\ At("targets")
  /\ engine' = IF engine = "disposing" THEN "completed" ELSE engine
  /\ Turn("retire")
  /\ UNCHANGED <<landofile, disk, volumes, sessions, ghostSync>>

CompleteDisposal ==
  /\ At("targets") /\ targets \cap cmd.old = {}
  /\ engine' = IF engine = "disposing" THEN "completed" ELSE engine
  /\ Turn("retire")
  /\ UNCHANGED <<landofile, disk, volumes, sessions, ghostSync>>

\* provider.destroy takes the containers down, then forgets the plan.
Retire ==
  /\ At("retire")
  /\ writers' = {} /\ Turn("forget")
  /\ UNCHANGED <<landofile, disk, targets, dirty, sync, ghostSync>>

Forget ==
  /\ At("forget")
  /\ applied' = NotApplied
  /\ IF cmd.kind = "start" THEN Turn("preflight") ELSE Turn("clear")
  /\ UNCHANGED <<landofile, journal, volumes, sync, ghostSync>>

ClearJournal ==
  /\ At("clear")
  /\ journal' = [journal EXCEPT !.phase = "completed"]
  /\ Done
  /\ UNCHANGED <<landofile, applied, volumes, sync, ghostSync>>

-----------------------------------------------------------------------------
(* What else happens.                                                       *)

\* A command refuses, fails or dies; where the code refuses, nothing else is possible.
EndCommand ==
  /\ ~Idle /\ Done
  /\ UNCHANGED <<landofile, disk, volumes, sync, ghostSync>>

AppWrites(m) ==
  /\ m \in writers /\ dirty' = dirty \cup {m}
  /\ UNCHANGED <<landofile, disk, targets, writers, sync, cmd, ghostSync>>

SessionSyncs(m) ==
  /\ engine = "active" /\ m \in sessions \cap dirty /\ dirty' = dirty \ {m}
  /\ UNCHANGED <<landofile, disk, targets, writers, sync, cmd, ghostSync>>

\* A command reads the Landofile once, when it begins.
EditLandofile ==
  /\ Idle /\ landofile' \in Accelerable \ {landofile}
  /\ UNCHANGED <<disk, volumes, sync, cmd, ghostSync>>

\* The engine's ledger and history are deleted between two commands.
LoseLedger ==
  /\ Idle /\ engine # "absent"
  /\ engine' = "absent" /\ sessions' = {}
  /\ UNCHANGED <<landofile, disk, volumes, cmd, ghostSync>>

StartSteps == \/ BeginStart \/ Rotate \/ PreflightApplied \/ PreflightPending
              \/ (\E m \in Mount : PrepareTarget(m) \/ CreateSession(m)) \/ InvalidateDrain
              \/ BeginJournal \/ BeginOrdinary \/ Prepared \/ RecordSessions
              \/ RecordApplyIntent \/ ApplyContainers \/ RememberApplied \/ CompleteStart
StopSteps == BeginStop \/ Halt \/ FinalDrain
DestroySteps == \/ BeginDestroy \/ Quiesce \/ QuiesceRetained \/ ResumeRetained
                \/ SkipDisposal \/ Drain \/ Dispose \/ (\E m \in Mount : DisposeTarget(m))
                \/ CompleteDisposal \/ Retire \/ Forget \/ ClearJournal
Surroundings == (\E m \in Mount : AppWrites(m) \/ SessionSyncs(m)) \/ EditLandofile \/ LoseLedger

AcceleratedNext == StartSteps \/ StopSteps \/ DestroySteps \/ EndCommand \/ Surroundings

AcceleratedSpec == AcceleratedInit /\ [][AcceleratedNext]_acceleratedVars

-----------------------------------------------------------------------------
(* Properties.                                                              *)

\* Types; an unfinished attempt accelerates something, an accelerated plan is a saved one.
AcceleratedTypeOK ==
  /\ landofile \in Accelerable
  /\ journal \in [phase : {"preparing", "sessions-ready", "apply-intent", "completed"},
                   plan : Accelerable]
  /\ Unfinished => journal.plan # {}
  /\ applied \in [saved : BOOLEAN, plan : Accelerable]
  /\ applied.plan # {} => applied.saved
  /\ {targets, writers, sessions, dirty, lost, skipped} \subseteq Accelerable
  /\ engine \in {"absent", "active", "drained", "disposing", "completed"}
  /\ cmd \in [kind : {"none", "start", "stop", "destroy"},
               step : {"idle", "rotate", "preflight", "reprepare", "begin", "prepare", "sessions",
                       "intent", "apply", "remember", "complete", "halt", "final", "quiesce",
                       "drain", "dispose", "targets", "retire", "forget", "clear"},
               plan : Accelerable, old : Accelerable,
               resumed : {"none", "preparing", "sessions-ready", "apply-intent"}]
  /\ Idle <=> At("idle")

\* No write of the app is given up: however starts, stops, destroys and rotations are cut
\* short and repeated, the Landofile edited in between or the engine's ledger lost, a volume
\* is removed, or gets a fresh session, only when everything in it is back in the project
\* (destroy-file-sync.ts: "destroying its volume could lose changes"; the coverage checks,
\* quiesceRetained and the drain before every disposal).
NoWriteLost == lost = {}

\* Before an attempt has recorded its intent to apply, no app writes to a volume, unless the
\* app ran from a saved plan: destroy discards the session-less volumes of such an attempt on
\* the word of the journal alone.
NoEarlyWriter ==
  Unfinished /\ journal.phase # "apply-intent" /\ Inspected # "accelerated" => writers = {}

\* What the app's volumes belong to: the saved plan or an open attempt.
Explained == applied.plan \cup (IF Unfinished THEN journal.plan ELSE {})

\* No prepared volume is left behind that neither the saved plan nor the journal names, which
\* a start then refuses for and no destroy removes, but for those a destroy passed over on the
\* word of an old completion receipt: disposal removes the volumes before the receipt, the
\* receipt before the plan, the plan before the journal, and each step is found again.
OnlySkippedAreStranded == targets \subseteq Explained \cup skipped

\* "destroy disposes the attempt's sessions and targets from any phase, then clears the
\* journal" (spec/05-runtime-providers.md): no volume is left without either record at all.
TargetsExplained == targets \subseteq Explained
=============================================================================
