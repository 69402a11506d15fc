--------------------------- MODULE FileTransaction ---------------------------
(***************************************************************************)
(* The managed-file transaction coordinator of managed-file/src: a set of  *)
(* targets under one app root is written, created and removed through a    *)
(* durable journal, and recovered by rolling forward.                      *)
(*                                                                         *)
(* Files are abstracted to which object a path names.  A target path names *)
(* nothing, the file the plan found ("orig"), the inode staged for it      *)
(* ("stage") or a file somebody else put there ("alien"); "dirty" holds    *)
(* the objects edited in place since.  So "same digest, mode and inode"    *)
(* becomes "same object, not dirty", with the mode of a staged inode in    *)
(* "wide".  transaction.lock is taken as the lock of LockContract, and a   *)
(* dead owner's lock as reclaimed at once.  Directory policy, ACL checks   *)
(* and symlinks are left out: they only add ways to fail a verification.   *)
(***************************************************************************)
EXTENDS Naturals, FiniteSets

CONSTANTS
  Process,      \* Lando commands working on the app root
  File,         \* the targets of a request
  Op,           \* what the request asks for each: "write", "create" or "remove"
  Nobody,       \* no lock holder
  MaxRuns,      \* bound: transactions prepared
  MaxCrashes,   \* bound: processes that die
  MaxMeddles    \* bound: changes by programs that take no lock

ASSUME FileAssumption == File # {}
ASSUME OpAssumption == Op \in [File -> {"write", "create", "remove"}]
ASSUME NobodyAssumption == Nobody \notin Process
ASSUME BoundsAssumption == MaxRuns \in Nat /\ MaxCrashes \in Nat /\ MaxMeddles \in Nat

VARIABLES
  journal,   \* state of transaction.json
  entries,   \* files with an entry in the current or last journal
  had,       \* entries whose "before" is present
  target,    \* what each target path names
  staged,    \* what each stage path names
  dirty,     \* objects edited in place: pairs <<file, object>>
  wide,      \* files whose staged inode has its final mode
  backups,   \* files with an intact backup of their "orig"
  stale,     \* has a read-condition source changed since the plan?
  lock,      \* holder of transaction.lock
  pc, role, todo, cur, disp,        \* each process
  runs, crashes, meddles,           \* spent bounds
  lost,      \* history: files of which an outside edit was overwritten
  raced      \* history: files meddled with between a verification and its rename

disk == <<target, staged, dirty, wide, backups, stale>>
plan == <<entries, had>>
spent == <<runs, crashes, meddles>>
history == <<lost, raced>>
vars == <<journal, plan, disk, lock, pc, role, todo, cur, disp, spent, history>>

Disposition == {"pending", "applied", "needs-mode", "linked"}
NoDisp == [f \in File |-> "applied"]

Goto(p, step) == pc' = [pc EXCEPT ![p] = step]

Init ==
  /\ journal = "absent" /\ entries = {} /\ had = {}
  /\ target \in [File -> {"none", "orig"}]
  /\ staged = [f \in File |-> "none"]
  /\ dirty = {} /\ wide = {} /\ backups = {} /\ stale = FALSE
  /\ lock = Nobody
  /\ pc = [p \in Process |-> "idle"]
  /\ role = [p \in Process |-> "run"]
  /\ todo = [p \in Process |-> {}]
  /\ cur = [p \in Process |-> CHOOSE f \in File : TRUE]
  /\ disp = [p \in Process |-> NoDisp]
  /\ runs = 0 /\ crashes = 0 /\ meddles = 0
  /\ lost = {} /\ raced = {}

-----------------------------------------------------------------------------
(* What verifyState, verifyBackup and the stage checks accept.              *)

Clean(f, object) == <<f, object>> \notin dirty
\* New outputs stay owner-only; an existing output keeps its mode, a create gets its own.
NeedsMode(f) == Op[f] = "create" \/ (Op[f] = "write" /\ f \in had)

IsBefore(f) == IF f \in had THEN target[f] = "orig" /\ Clean(f, "orig")
                            ELSE target[f] = "none"
IsAfter(f) == IF Op[f] = "remove"
                THEN target[f] = "none"
                ELSE target[f] = "stage" /\ Clean(f, "stage") /\ (NeedsMode(f) => f \in wide)
BackupIntact(f) == f \in had => f \in backups
StageIntact(f) == staged[f] = "stage" /\ Clean(f, "stage")
Linked(f) == target[f] = "stage" /\ staged[f] = "stage"

Verified_StageOnly(f) ==
  /\ Op[f] # "create" => BackupIntact(f)
  /\ Op[f] # "remove" => StageIntact(f)

Verified_NoBackup(f) ==
  /\ IsBefore(f)
  /\ Op[f] # "remove" => StageIntact(f)

\* mutateEntry and publishCreate, up to their rename, unlink or link.
Verified(f) ==
  /\ IsBefore(f)
  /\ Op[f] # "create" => BackupIntact(f)
  /\ Op[f] # "remove" => StageIntact(f)
  /\ Op[f] = "create" => f \notin wide

-----------------------------------------------------------------------------
(* Leaving: the scope closes, releases the lock, and the process moves on.  *)

Release(p) ==
  /\ Goto(p, "idle")
  /\ lock' = Nobody
  /\ todo' = [todo EXCEPT ![p] = {}]
  /\ disp' = [disp EXCEPT ![p] = NoDisp]
  /\ UNCHANGED <<role, cur, spent, history>>

\* removeRecordedStage: only an unchanged, singly linked stage of this transaction goes.
WithoutOwnStages ==
  [f \in File |-> IF f \in entries /\ StageIntact(f) /\ ~Linked(f) THEN "none" ELSE staged[f]]

Conflict_JustFails(p) == Release(p) /\ UNCHANGED <<journal, plan, disk>>

\* A conflict: recovery marks the journal blocked, a commit just fails.
Conflict(p) ==
  IF role[p] = "recover"
    THEN /\ Goto(p, "block")
         /\ UNCHANGED <<journal, plan, disk, lock, role, todo, cur, disp, spent, history>>
    ELSE Release(p) /\ UNCHANGED <<journal, plan, disk>>

Block(p) ==
  /\ pc[p] = "block"
  /\ journal' = "blocked"
  /\ Release(p)
  /\ UNCHANGED <<plan, disk>>

-----------------------------------------------------------------------------
(* prepare                                                                  *)

\* The bound lets a process start only as many transactions.
Prepare(p) ==
  /\ pc[p] = "idle" /\ lock = Nobody
  /\ runs < MaxRuns
  /\ lock' = p /\ runs' = runs + 1
  /\ role' = [role EXCEPT ![p] = "run"]
  /\ Goto(p, "plan")
  /\ UNCHANGED <<journal, plan, disk, todo, cur, disp, crashes, meddles, history>>

\* A journal is in the way, a create's path is taken, or a target or a read-condition source
\* has not the content the request expects, which may always happen.
PlanRefused(p) ==
  /\ pc[p] = "plan"
  /\ Release(p)
  /\ UNCHANGED <<journal, plan, disk>>

\* Snapshots every target; whatever is there becomes the "orig" of this transaction.
Plan(p) ==
  /\ pc[p] = "plan"
  /\ journal = "absent"
  /\ \A f \in File : Op[f] = "create" => target[f] = "none"
  /\ had' = {f \in File : target[f] # "none"}
  /\ entries' = {f \in File : Op[f] = "remove" => target[f] # "none"}
  /\ target' = [f \in File |-> IF target[f] = "none" THEN "none" ELSE "orig"]
  /\ staged' = [f \in File |-> "none"]
  /\ dirty' = {} /\ wide' = {} /\ backups' = {} /\ stale' = FALSE
  /\ todo' = [todo EXCEPT ![p] = entries']
  /\ Goto(p, "backup")
  /\ UNCHANGED <<journal, lock, role, cur, disp, spent, history>>

\* A backup is written from the planned bytes, not from the file.
MakeBackup(p) ==
  /\ pc[p] = "backup"
  /\ \E f \in todo[p] \cap had :
       /\ backups' = backups \cup {f}
       /\ todo' = [todo EXCEPT ![p] = @ \ {f}]
  /\ UNCHANGED <<journal, plan, target, staged, dirty, wide, stale, lock, pc, role, cur, disp,
                 spent, history>>

BackedUp(p) ==
  /\ pc[p] = "backup" /\ todo[p] \cap had = {}
  /\ todo' = [todo EXCEPT ![p] = {f \in entries : Op[f] # "remove"}]
  /\ Goto(p, "stage")
  /\ UNCHANGED <<journal, plan, disk, lock, role, cur, disp, spent, history>>

MakeStage(p) ==
  /\ pc[p] = "stage"
  /\ \E f \in todo[p] :
       /\ staged[f] = "none"
       /\ staged' = [staged EXCEPT ![f] = "stage"]
       /\ todo' = [todo EXCEPT ![p] = @ \ {f}]
  /\ UNCHANGED <<journal, plan, target, dirty, wide, backups, stale, lock, pc, role, cur, disp,
                 spent, history>>

JournalPrepared(p) ==
  /\ pc[p] = "stage" /\ todo[p] = {}
  /\ journal' = "prepared"
  /\ Goto(p, "verify")
  /\ UNCHANGED <<plan, disk, lock, role, todo, cur, disp, spent, history>>

PrepareFails_KeepsStages(p) ==
  /\ pc[p] \in {"backup", "stage"}
  /\ Release(p)
  /\ UNCHANGED <<journal, plan, disk>>

\* An error or interruption before the journal exists: the finalizer removes own stages.
PrepareFails(p) ==
  /\ pc[p] \in {"backup", "stage"}
  /\ staged' = WithoutOwnStages
  /\ Release(p)
  /\ UNCHANGED <<journal, plan, target, dirty, wide, backups, stale>>

-----------------------------------------------------------------------------
(* commit                                                                   *)

\* Every before-state, every backup and the read conditions.
CommitVerify(p) ==
  /\ pc[p] = "verify"
  /\ IF ~stale /\ \A f \in entries : IsBefore(f) /\ BackupIntact(f)
       THEN /\ Goto(p, "begin")
            /\ UNCHANGED <<journal, plan, disk, lock, role, todo, cur, disp, spent, history>>
       ELSE Conflict(p)

\* journalTransitions "begin-commit"; settled when the journal says committing already.
BeginCommit(p) ==
  /\ pc[p] = "begin"
  /\ journal \in {"prepared", "committing"}
  /\ journal' = "committing"
  /\ Goto(p, IF role[p] = "run" THEN "recheck" ELSE "preflight")
  /\ UNCHANGED <<plan, disk, lock, role, todo, cur, disp, spent, history>>

CommitRecheck(p) ==
  /\ pc[p] = "recheck"
  /\ IF ~stale
       THEN /\ todo' = [todo EXCEPT ![p] = entries]
            /\ disp' = [disp EXCEPT ![p] = [f \in File |-> "pending"]]
            /\ Goto(p, "apply")
            /\ UNCHANGED <<journal, plan, disk, lock, role, cur, spent, history>>
       ELSE Conflict(p)

-----------------------------------------------------------------------------
(* Applying one entry.                                                      *)

Turn(p, f) == pc[p] = "apply" /\ f \in todo[p]
Done(p, f) ==
  /\ todo' = [todo EXCEPT ![p] = @ \ {f}]
  /\ Goto(p, "apply")

\* lstat of a stage or target that is gone: an I/O error, which does not block.
Vanished(p, f) ==
  \/ disp[p][f] = "pending" /\ Op[f] = "write" /\ staged[f] = "none" /\ IsBefore(f)
  \/ disp[p][f] = "needs-mode" /\ target[f] = "none"

\* The last check of target, stage and backup before the mutation.
VerifyEntry(p, f) ==
  /\ Turn(p, f) /\ disp[p][f] = "pending" /\ ~Vanished(p, f)
  /\ IF Verified(f)
       THEN /\ cur' = [cur EXCEPT ![p] = f]
            /\ Goto(p, "armed")
            /\ UNCHANGED <<journal, plan, disk, lock, role, todo, disp, spent, history>>
       ELSE Conflict(p)

Overwrites(f) == target[f] = "alien" \/ (target[f] = "orig" /\ ~Clean(f, "orig"))

\* rename(stage, target) replaces whatever is at the target by now.
RenameStage(p) ==
  LET f == cur[p] IN
  /\ pc[p] = "armed" /\ Op[f] = "write" /\ staged[f] # "none"
  /\ target' = [target EXCEPT ![f] = staged[f]]
  /\ staged' = [staged EXCEPT ![f] = "none"]
  /\ lost' = IF Overwrites(f) THEN lost \cup {f} ELSE lost
  /\ Goto(p, "renamed")
  /\ UNCHANGED <<journal, plan, dirty, wide, backups, stale, lock, role, todo, cur, disp,
                 spent, raced>>

\* chmod through the target path, then verifyState(after).
FinishRename(p) ==
  LET f == cur[p] IN
  /\ pc[p] = "renamed" /\ target[f] # "none"
  /\ wide' = IF target[f] = "stage" /\ NeedsMode(f) THEN wide \cup {f} ELSE wide
  /\ IF target[f] = "stage" /\ Clean(f, "stage")
       THEN /\ Done(p, f)
            /\ UNCHANGED <<journal, lock, role, cur, disp, spent, history>>
       ELSE IF role[p] = "recover"
         THEN Goto(p, "block") /\ UNCHANGED <<journal, lock, role, todo, cur, disp, spent, history>>
         ELSE Release(p) /\ UNCHANGED journal
  /\ UNCHANGED <<plan, target, staged, dirty, backups, stale>>

UnlinkTarget(p) ==
  LET f == cur[p] IN
  /\ pc[p] = "armed" /\ Op[f] = "remove" /\ target[f] # "none"
  /\ target' = [target EXCEPT ![f] = "none"]
  /\ lost' = IF Overwrites(f) THEN lost \cup {f} ELSE lost
  /\ Goto(p, "removed")
  /\ UNCHANGED <<journal, plan, staged, dirty, wide, backups, stale, lock, role, todo, cur, disp,
                 spent, raced>>

FinishRemove(p) ==
  LET f == cur[p] IN
  /\ pc[p] = "removed"
  /\ IF IsAfter(f)
       THEN Done(p, f) /\ UNCHANGED <<journal, plan, disk, lock, role, cur, disp, spent, history>>
       ELSE Conflict(p)

\* link() fails with EEXIST where rename would overwrite.
LinkStage(p) ==
  LET f == cur[p] IN
  /\ pc[p] = "armed" /\ Op[f] = "create" /\ staged[f] # "none"
  /\ IF target[f] = "none"
       THEN /\ target' = [target EXCEPT ![f] = staged[f]]
            /\ Goto(p, "linked")
            /\ UNCHANGED <<journal, plan, staged, dirty, wide, backups, stale, lock, role, todo,
                           cur, disp, spent, history>>
       ELSE Conflict(p)

ChmodLinked(p) ==
  LET f == cur[p] IN
  /\ pc[p] = "linked" /\ target[f] # "none"
  /\ IF Linked(f)
       THEN /\ wide' = wide \cup {f}
            /\ Goto(p, "chmodded")
            /\ UNCHANGED <<journal, plan, target, staged, dirty, backups, stale, lock, role, todo,
                           cur, disp, spent, history>>
       ELSE Conflict(p)

UnlinkOwnedStage(p) ==
  LET f == cur[p] IN
  /\ pc[p] = "chmodded"
  /\ IF Linked(f)
       THEN /\ staged' = [staged EXCEPT ![f] = "none"]
            /\ Done(p, f)
            /\ UNCHANGED <<journal, plan, target, dirty, wide, backups, stale, lock, role, cur,
                           disp, spent, history>>
       ELSE Conflict(p)

\* lstat, rename, unlink, link or open failed with ENOENT.
PathVanished(p) ==
  LET f == cur[p] IN
  /\ \/ \E g \in File : Turn(p, g) /\ Vanished(p, g)
     \/ pc[p] = "armed" /\ Op[f] # "remove" /\ staged[f] = "none"
     \/ pc[p] = "armed" /\ Op[f] = "remove" /\ target[f] = "none"
     \/ pc[p] \in {"renamed", "linked"} /\ target[f] = "none"
  /\ Release(p)
  /\ UNCHANGED <<journal, plan, disk>>

-----------------------------------------------------------------------------
(* Completion: journal, stages, journal.                                    *)

FinishCommit(p) ==
  /\ pc[p] = "apply" /\ todo[p] = {}
  /\ journal' = "committed"
  /\ Goto(p, "cleanup")
  /\ UNCHANGED <<plan, disk, lock, role, todo, cur, disp, spent, history>>

CleanupStages(p) ==
  /\ pc[p] = "cleanup"
  /\ staged' = WithoutOwnStages
  /\ Goto(p, "retire")
  /\ UNCHANGED <<journal, plan, target, dirty, wide, backups, stale, lock, role, todo, cur, disp,
                 spent, history>>

RemoveCommitted(p) ==
  /\ pc[p] = "retire"
  /\ journal' = "absent"
  /\ Release(p)
  /\ UNCHANGED <<plan, disk>>

-----------------------------------------------------------------------------
(* ensureConsistent: peek without a lock, then recover under it.            *)

Peek(p) ==
  /\ pc[p] = "idle" /\ journal # "absent"
  /\ Goto(p, "recover")
  /\ role' = [role EXCEPT ![p] = "recover"]
  /\ UNCHANGED <<journal, plan, disk, lock, todo, cur, disp, spent, history>>

LockForRecovery(p) ==
  /\ pc[p] = "recover" /\ lock = Nobody
  /\ lock' = p
  /\ Goto(p, "inspect")
  /\ UNCHANGED <<journal, plan, disk, role, todo, cur, disp, spent, history>>

\* Nothing to do any more, or a human has to look.
RecoverReturns(p) ==
  /\ pc[p] = "inspect"
  /\ journal \in {"absent", "blocked"}
  /\ Release(p)
  /\ UNCHANGED <<journal, plan, disk>>

RecoverResumes_NoRollForward(p) ==
  /\ pc[p] = "inspect"
  /\ journal \in {"prepared", "committing", "committed"}
  /\ Goto(p, "cleanup")
  /\ UNCHANGED <<journal, plan, disk, lock, role, todo, cur, disp, spent, history>>

RecoverResumes(p) ==
  /\ pc[p] = "inspect"
  /\ journal \in {"prepared", "committing", "committed"}
  /\ Goto(p, IF journal = "committed" THEN "cleanup" ELSE "begin")
  /\ UNCHANGED <<journal, plan, disk, lock, role, todo, cur, disp, spent, history>>

Fits_NoModeRepair(f, d) ==
  /\ Op[f] # "create" => BackupIntact(f)
  /\ CASE d = "applied"    -> IsAfter(f) /\ staged[f] = "none"
       [] d = "pending"    -> IsBefore(f) /\ (Op[f] # "remove" => StageIntact(f) /\ f \notin wide)
       [] d = "needs-mode" -> FALSE
       [] d = "linked"     -> Op[f] = "create" /\ Linked(f) /\ Clean(f, "stage")

\* classifyEntry and classifyCreate; an entry none of these fits is a conflict.
Fits(f, d) ==
  /\ Op[f] # "create" => BackupIntact(f)
  /\ CASE d = "applied"    -> IsAfter(f) /\ staged[f] = "none"
       [] d = "pending"    -> IsBefore(f) /\ (Op[f] # "remove" => StageIntact(f) /\ f \notin wide)
       [] d = "needs-mode" -> /\ NeedsMode(f) /\ f \notin wide
                              /\ target[f] = "stage" /\ Clean(f, "stage") /\ staged[f] = "none"
       [] d = "linked"     -> Op[f] = "create" /\ Linked(f) /\ Clean(f, "stage")

Preflight(p) ==
  /\ pc[p] = "preflight"
  /\ IF \A f \in entries : \E d \in Disposition : Fits(f, d)
       THEN /\ disp' = [disp EXCEPT ![p] =
                          [f \in File |-> IF f \in entries
                                            THEN CHOOSE d \in Disposition : Fits(f, d)
                                            ELSE "applied"]]
            /\ todo' = [todo EXCEPT ![p] = entries]
            /\ Goto(p, "apply")
            /\ UNCHANGED <<journal, plan, disk, lock, role, cur, spent, history>>
       ELSE Conflict(p)

SkipApplied(p, f) ==
  /\ Turn(p, f) /\ disp[p][f] = "applied"
  /\ Done(p, f)
  /\ UNCHANGED <<journal, plan, disk, lock, role, cur, disp, spent, history>>

FinishAppliedMode(p, f) ==
  /\ Turn(p, f) /\ disp[p][f] = "needs-mode" /\ ~Vanished(p, f)
  /\ IF target[f] = "stage" /\ Clean(f, "stage")
       THEN /\ wide' = wide \cup {f}
            /\ Done(p, f)
            /\ UNCHANGED <<journal, plan, target, staged, dirty, backups, stale, lock, role, cur,
                           disp, spent, history>>
       ELSE Conflict(p)

FinishLinkedCreate(p, f) ==
  /\ Turn(p, f) /\ disp[p][f] = "linked"
  /\ IF Linked(f) /\ Clean(f, "stage")
       THEN /\ cur' = [cur EXCEPT ![p] = f]
            /\ Goto(p, IF f \in wide THEN "chmodded" ELSE "linked")
            /\ UNCHANGED <<journal, plan, disk, lock, role, todo, disp, spent, history>>
       ELSE Conflict(p)

-----------------------------------------------------------------------------
(* The environment.                                                         *)

\* A process dies at any point.  It comes back as a new command with nothing in memory.
Crash(p) ==
  /\ pc[p] # "idle" /\ crashes < MaxCrashes
  /\ crashes' = crashes + 1
  /\ lock' = IF lock = p THEN Nobody ELSE lock
  /\ Goto(p, "idle")
  /\ todo' = [todo EXCEPT ![p] = {}]
  /\ disp' = [disp EXCEPT ![p] = NoDisp]
  /\ UNCHANGED <<journal, plan, disk, role, cur, runs, meddles, history>>

\* An editor, a git checkout, a user: somebody who takes no lock.
Meddle(f) ==
  /\ meddles < MaxMeddles
  /\ meddles' = meddles + 1
  /\ raced' = IF \E p \in Process : pc[p] = "armed" /\ cur[p] = f THEN raced \cup {f} ELSE raced
  /\ \/ /\ target' = [target EXCEPT ![f] = "alien"]
        /\ UNCHANGED <<staged, dirty, backups>>
     \/ /\ target[f] # "none"
        /\ target' = [target EXCEPT ![f] = "none"]
        /\ UNCHANGED <<staged, dirty, backups>>
     \/ /\ target[f] \in {"orig", "stage"}
        /\ dirty' = dirty \cup {<<f, target[f]>>}
        /\ UNCHANGED <<target, staged, backups>>
     \/ /\ staged[f] = "stage"
        /\ \E object \in {"none", "alien"} : staged' = [staged EXCEPT ![f] = object]
        /\ UNCHANGED <<target, dirty, backups>>
     \/ /\ f \in backups
        /\ backups' = backups \ {f}
        /\ UNCHANGED <<target, staged, dirty>>
  /\ UNCHANGED <<journal, plan, wide, stale, lock, pc, role, todo, cur, disp, runs, crashes, lost>>

SourceChanges ==
  /\ meddles < MaxMeddles /\ ~stale
  /\ meddles' = meddles + 1
  /\ stale' = TRUE
  /\ UNCHANGED <<journal, plan, target, staged, dirty, wide, backups, lock, pc, role, todo, cur,
                 disp, runs, crashes, history>>

Preparing(p) == \/ Prepare(p) \/ PlanRefused(p) \/ Plan(p) \/ MakeBackup(p) \/ BackedUp(p)
                \/ MakeStage(p) \/ JournalPrepared(p) \/ PrepareFails(p)
Committing(p) == CommitVerify(p) \/ BeginCommit(p) \/ CommitRecheck(p)
Applying(p) == \/ \E f \in File : \/ VerifyEntry(p, f) \/ SkipApplied(p, f)
                                  \/ FinishAppliedMode(p, f) \/ FinishLinkedCreate(p, f)
               \/ RenameStage(p) \/ FinishRename(p) \/ UnlinkTarget(p) \/ FinishRemove(p)
               \/ LinkStage(p) \/ ChmodLinked(p) \/ UnlinkOwnedStage(p) \/ PathVanished(p)
Completing(p) == FinishCommit(p) \/ CleanupStages(p) \/ RemoveCommitted(p)
Recovering(p) == \/ Peek(p) \/ LockForRecovery(p) \/ RecoverReturns(p) \/ RecoverResumes(p)
                 \/ Preflight(p) \/ Block(p)

Working(p) == Preparing(p) \/ Committing(p) \/ Applying(p) \/ Completing(p) \/ Recovering(p)

Next == \/ \E p \in Process : Working(p) \/ Crash(p)
        \/ \E f \in File : Meddle(f)
        \/ SourceChanges

Spec == Init /\ [][Next]_vars

\* Somebody runs Lando commands again as long as a journal is left, and a running command
\* keeps going.  Nothing forces a new transaction, a failure or an outside change.
Fairness == \A p \in Process : WF_vars(Working(p) /\ runs' = runs) /\ WF_vars(Peek(p))

FairSpec == Spec /\ Fairness

-----------------------------------------------------------------------------
(* Properties.                                                              *)

Step == {"idle", "recover", "plan", "backup", "stage", "verify", "begin", "recheck", "apply",
         "armed", "renamed", "removed", "linked", "chmodded", "cleanup", "retire", "inspect",
         "preflight", "block"}

\* Every variable has its type, and a process past acquireLock is the one lock holder.
TypeOK ==
  /\ journal \in {"absent", "prepared", "committing", "committed", "blocked"}
  /\ entries \subseteq File /\ had \subseteq File
  /\ target \in [File -> {"none", "orig", "stage", "alien"}]
  /\ staged \in [File -> {"none", "stage", "alien"}]
  /\ dirty \subseteq File \X {"orig", "stage"}
  /\ wide \subseteq File /\ backups \subseteq File /\ stale \in BOOLEAN
  /\ lock \in Process \cup {Nobody}
  /\ pc \in [Process -> Step]
  /\ \A p \in Process : lock = p <=> pc[p] \notin {"idle", "recover"}
  /\ role \in [Process -> {"run", "recover"}]
  /\ todo \in [Process -> SUBSET File] /\ cur \in [Process -> File]
  /\ disp \in [Process -> [File -> Disposition]]
  /\ runs \in 0..MaxRuns /\ crashes \in 0..MaxCrashes /\ meddles \in 0..MaxMeddles
  /\ lost \subseteq File /\ raced \subseteq File

\* An edit somebody else made to a target is overwritten only when it fell between the last
\* verification and the rename or unlink (transaction-fs.ts, mutateEntry); a path published
\* by link (transaction-create-link.ts, publishCreate) is never overwritten at all.
NoEditOverwritten == lost \subseteq {f \in raced : Op[f] # "create"}

\* With nobody meddling, commit and recovery are all or nothing whatever dies when: while
\* the journal is absent or prepared the targets are all as planned or all as requested,
\* and a committed journal means all as requested (transaction.ts, transaction-recovery.ts).
AllOrNothing ==
  meddles = 0 =>
    /\ journal = "prepared" => \A f \in entries : IsBefore(f)
    /\ journal = "absent" => (\A f \in entries : IsBefore(f)) \/ (\A f \in entries : IsAfter(f))
    /\ journal = "committed" => \A f \in entries : IsAfter(f)

\* Deaths and failures alone never leave a state that recovery refuses: preflight finds a
\* disposition for every entry at every point a commit or another recovery stopped.
OnlyMeddlingBlocks == meddles = 0 => journal # "blocked"

\* A blocked journal waits for a human: no process changes it, a target or a stage.
BlockedIsInert ==
  [][journal = "blocked" /\ meddles' = meddles => UNCHANGED <<journal, target, staged>>]_vars

\* Lando destroys the content a target had only when its backup is intact, unless somebody
\* interfered between the last check and the mutation (verifyBackup before every mutation).
PreImageKept ==
  [][\A f \in File : target[f] = "orig" /\ target'[f] # "orig" /\ meddles' = meddles
                       => f \in backups \cup raced]_vars

\* Without deaths and meddling, a finished or failed transaction leaves no stage behind:
\* the finalizer of prepare, the renames and the unlinks account for every one.
NoStageLeft ==
  (journal = "absent" /\ lock = Nobody /\ crashes = 0 /\ meddles = 0)
    => staged = [f \in File |-> "none"]

\* Every journal is eventually retired or declared blocked, whatever dies or changes on the way.
JournalSettles == journal \in {"prepared", "committing", "committed"}
                    ~> journal \in {"absent", "blocked"}

-----------------------------------------------------------------------------
(* The inductive strengthening of the three file safety properties.        *)

\* A file somebody raced, or one that is untouched and, if it is to be replaced, backed up.
Covered(f) ==
  f \in raced \/ (~Overwrites(f) /\ (Op[f] # "create" /\ target[f] = "orig" => f \in backups))

\* The file a process is about to mutate is such a file.
ArmedSafe == \A p \in Process : pc[p] = "armed" => Covered(cur[p])

\* Nobody is in the middle of a transaction whose journal is blocked.
BlockedQuiet ==
  journal = "blocked" => \A p \in Process : pc[p] \in {"idle", "recover", "plan", "inspect"}

FileInv == TypeOK /\ ArmedSafe /\ BlockedQuiet /\ NoEditOverwritten
=============================================================================
