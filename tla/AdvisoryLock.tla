---------------------------- MODULE AdvisoryLock ----------------------------
(***************************************************************************)
(* The advisory lock file of state-store/src/lock.ts.  A fiber owns the    *)
(* lock while the file it created with open("wx") stays at the lock path.  *)
(* Waiters poll, and reclaim the file of an owner that is dead or stale:   *)
(* lstat, read the record, lstat again, unlink.  Each await is a step of   *)
(* its own, so the check and the unlink can be separated by other fibers.  *)
(*                                                                         *)
(* A file at the path is an element of Ino that is never used twice, which *)
(* stands for what the code compares (dev, ino, mtime, ctime); writing the *)
(* owner record changes it once more (field "written" of an identity).     *)
(* makeLockToken gives every call its own token and a call creates at most *)
(* one file, so a record's token is the file's Ino.                        *)
(***************************************************************************)
EXTENDS Integers, FiniteSets

CONSTANTS
  Fiber,            \* callers of withAdvisoryLockUsing and acquireAdvisoryLockAt
  Proc,             \* operating-system processes
  ProcOf,           \* the process of each fiber
  Guarded,          \* fibers that go through the in-process guard
  Ino,              \* identities of files created at the lock path
  NoFile,           \* nothing at the lock path
  Unsafe,           \* a symlink, directory, hard link or foreign file at the path
  Stale,            \* LOCK_STALE_MS
  Timeout,          \* timeoutMs
  Retry,            \* retryMs
  ExpireLiveOwner,  \* options.expireLiveOwner !== false
  IOFaults,         \* may a file operation fail?
  MaxClock,         \* bound: the clock stops here
  MaxCrashes        \* bound: processes that may die

ASSUME FibersAssumption ==
  /\ ProcOf \in [Fiber -> Proc]
  /\ Guarded \subseteq Fiber
ASSUME FilesAssumption == NoFile \notin Ino /\ Unsafe \notin Ino /\ NoFile # Unsafe
ASSUME TimesAssumption ==
  /\ Stale \in Nat /\ Timeout \in Nat /\ Retry \in Nat
  /\ MaxClock \in Nat /\ MaxCrashes \in Nat
ASSUME SwitchesAssumption == ExpireLiveOwner \in BOOLEAN /\ IOFaults \in BOOLEAN

VARIABLES
  now,        \* the wall clock
  path,       \* what is at the lock path
  file,       \* the files created so far: creator, creation time, record written?, mtime
  dead,       \* crashed processes
  pc,         \* where each fiber stands
  mine,       \* the file a fiber created in its current call
  call,       \* the locals of the acquire loop
  disturbed   \* history: a reclaim overlapped another one or took a live owner's file

vars == <<now, path, file, dead, pc, mine, call, disturbed>>

Waiting == {"guard", "try", "made", "abort", "exists", "read", "confirm", "unlink",
            "pause", "sleep"}
Owning  == {"hold", "drop"}
Step    == {"idle", "dead"} \cup Waiting \cup Owning

Record == [by : Fiber, createdAt : Nat, written : BOOLEAN, mtime : Nat]
Identity == [ino : Ino \cup {NoFile}, written : BOOLEAN, mtime : Nat]
NoIdentity == [ino |-> NoFile, written |-> FALSE, mtime |-> 0]

\* "seen" is the clock read at the head of the loop, "ident" the first lstat.
Call == [seen : Nat, deadline : Nat, wake : Nat, ident : Identity]
NoCall == [seen |-> 0, deadline |-> 0, wake |-> 0, ident |-> NoIdentity]

Alive(f) == ProcOf[f] \notin dead
Goto(f, step) == pc' = [pc EXCEPT ![f] = step]
Moves(f, from, to) == pc[f] = from /\ Goto(f, to)

\* lstat: null, or what identifies the file now at the path.
LockIdentity ==
  IF path \in Ino
    THEN [ino |-> path, written |-> file[path].written, mtime |-> file[path].mtime]
    ELSE NoIdentity

Init ==
  /\ now = 0
  /\ path \in {NoFile, Unsafe}
  /\ file = [i \in {} |-> NoFile]
  /\ dead = {}
  /\ pc = [f \in Fiber |-> "idle"]
  /\ mine = [f \in Fiber |-> NoFile]
  /\ call = [f \in Fiber |-> NoCall]
  /\ disturbed = FALSE

-----------------------------------------------------------------------------
(* The call: guard, deadline, and the head of the retry loop.              *)

Begin(f) ==
  /\ Moves(f, "idle", "guard")
  /\ UNCHANGED <<now, path, file, dead, mine, call, disturbed>>

\* Mutant: no guard.
GuardFree_None(f) == TRUE

\* One permit per lock file and process; a fiber keeps it until it is idle again.
GuardFree(f) ==
  f \in Guarded =>
    \A g \in Guarded \ {f} : ProcOf[g] = ProcOf[f] => pc[g] \in {"idle", "guard", "dead"}

\* Bounds: a call starts early enough to meet its deadline, and while there is a
\* file identity left for it.
InBounds ==
  /\ now + Timeout + Retry <= MaxClock
  /\ Cardinality({g \in Fiber : pc[g] \in Waiting \ {"guard", "made", "abort"}})
       < Cardinality(Ino \ DOMAIN file)

Enter(f) ==
  /\ GuardFree(f)
  /\ InBounds
  /\ Moves(f, "guard", "try")
  /\ call' = [call EXCEPT ![f] = [@ EXCEPT !.seen = now, !.deadline = now + Timeout]]
  /\ UNCHANGED <<now, path, file, dead, mine, disturbed>>

-----------------------------------------------------------------------------
(* Creating the file and writing the owner record.                         *)

\* Mutant: open("w"), which reuses the path instead of failing with EEXIST.
Create_Overwrites(f) ==
  /\ Moves(f, "try", "made")
  /\ \E i \in Ino \ DOMAIN file :
       /\ path' = i
       /\ mine' = [mine EXCEPT ![f] = i]
       /\ file' = [j \in DOMAIN file \cup {i} |->
                     IF j = i THEN [by |-> f, createdAt |-> call[f].seen,
                                    written |-> FALSE, mtime |-> now]
                              ELSE file[j]]
  /\ UNCHANGED <<now, dead, call, disturbed>>

Create(f) ==
  /\ path = NoFile
  /\ Moves(f, "try", "made")
  /\ \E i \in Ino \ DOMAIN file :
       /\ path' = i
       /\ mine' = [mine EXCEPT ![f] = i]
       /\ file' = [j \in DOMAIN file \cup {i} |->
                     IF j = i THEN [by |-> f, createdAt |-> call[f].seen,
                                    written |-> FALSE, mtime |-> now]
                              ELSE file[j]]
  /\ UNCHANGED <<now, dead, call, disturbed>>

WriteRecord(f) ==
  /\ Moves(f, "made", "hold")
  /\ file' = [file EXCEPT ![mine[f]].written = TRUE, ![mine[f]].mtime = now]
  /\ call' = [call EXCEPT ![f] = NoCall]
  /\ UNCHANGED <<now, path, dead, mine, disturbed>>

Quit(f) ==
  /\ Goto(f, "idle")
  /\ mine' = [mine EXCEPT ![f] = NoFile]
  /\ call' = [call EXCEPT ![f] = NoCall]
  /\ UNCHANGED <<now, file, dead, disturbed>>

\* chmod, enforce, write or sync failed: unlink the file if it is still at the path.
WriteFails(f) ==
  /\ IOFaults
  /\ pc[f] = "made"
  /\ \/ /\ path = mine[f]
        /\ Goto(f, "abort")
        /\ UNCHANGED <<now, path, file, dead, mine, call, disturbed>>
     \/ /\ path # mine[f]
        /\ Quit(f)
        /\ UNCHANGED path

\* unlink names the path, so it removes whatever is there by now.
AbortUnlink(f) ==
  /\ pc[f] = "abort"
  /\ path' = NoFile
  /\ Quit(f)

-----------------------------------------------------------------------------
(* A contended attempt.                                                    *)

Contended(f) ==
  /\ path # NoFile
  /\ Moves(f, "try", "exists")
  /\ UNCHANGED <<now, path, file, dead, mine, call, disturbed>>

Inspect(f) ==
  /\ path # Unsafe
  /\ Moves(f, "exists", IF path = NoFile THEN "pause" ELSE "read")
  /\ call' = [call EXCEPT ![f].ident = LockIdentity]
  /\ UNCHANGED <<now, path, file, dead, mine, disturbed>>

InspectUnsafe(f) ==
  /\ pc[f] = "exists"
  /\ path = Unsafe
  /\ Quit(f)
  /\ UNCHANGED path

\* Mutants: the threshold is off by one; a dead owner's record is left to expire.
Takeover_AtStale(f) ==
  IF path \in Ino /\ file[path].written
  THEN \/ ExpireLiveOwner /\ call[f].seen - file[path].createdAt >= Stale
       \/ ~Alive(file[path].by)
  ELSE call[f].seen - call[f].ident.mtime > Stale

Takeover_OnlyExpired(f) ==
  IF path \in Ino /\ file[path].written
  THEN ExpireLiveOwner /\ call[f].seen - file[path].createdAt > Stale
  ELSE call[f].seen - call[f].ident.mtime > Stale

\* An absent or unparsable record counts by the mtime of the lstat before it.
Takeover(f) ==
  IF path \in Ino /\ file[path].written
  THEN \/ ExpireLiveOwner /\ call[f].seen - file[path].createdAt > Stale
       \/ ~Alive(file[path].by)
  ELSE call[f].seen - call[f].ident.mtime > Stale

ReadRecord(f) ==
  /\ Moves(f, "read", IF Takeover(f) THEN "confirm" ELSE "pause")
  /\ UNCHANGED <<now, path, file, dead, mine, call, disturbed>>

\* The creator lives and its call has not ended.
InUse(i) == Alive(file[i].by) /\ mine[file[i].by] = i

Confirm(f) ==
  /\ Moves(f, "confirm", IF LockIdentity = call[f].ident THEN "unlink" ELSE "pause")
  /\ disturbed' = (\/ disturbed
                   \/ /\ LockIdentity = call[f].ident
                      /\ \/ InUse(path)
                         \/ \E g \in Fiber : pc[g] = "unlink")
  /\ UNCHANGED <<now, path, file, dead, mine, call>>

\* ENOENT is ignored; otherwise the path is removed, whatever is there by now.
ReclaimUnlink(f) ==
  /\ Moves(f, "unlink", "pause")
  /\ path' = NoFile
  /\ UNCHANGED <<now, file, dead, mine, call, disturbed>>

\* "retry" and "held" both come here.
GiveUp(f) ==
  /\ pc[f] = "pause"
  /\ now >= call[f].deadline
  /\ Quit(f)
  /\ UNCHANGED path

Sleep(f) ==
  /\ now < call[f].deadline
  /\ Moves(f, "pause", "sleep")
  /\ call' = [call EXCEPT ![f] = [@ EXCEPT !.wake = now + Retry, !.ident = NoIdentity,
                                         !.seen = 0]]
  /\ UNCHANGED <<now, path, file, dead, mine, disturbed>>

\* Mutant: every attempt gets a deadline of its own.
Wake_NewDeadline(f) ==
  /\ now >= call[f].wake
  /\ Moves(f, "sleep", "try")
  /\ call' = [call EXCEPT ![f] = [@ EXCEPT !.seen = now, !.wake = 0, !.deadline = now + Timeout]]
  /\ UNCHANGED <<now, path, file, dead, mine, disturbed>>

Wake(f) ==
  /\ now >= call[f].wake
  /\ Moves(f, "sleep", "try")
  /\ call' = [call EXCEPT ![f] = [@ EXCEPT !.seen = now, !.wake = 0]]
  /\ UNCHANGED <<now, path, file, dead, mine, disturbed>>

\* lstat, verify, read or unlink threw: the acquire fails with a lock error.
AttemptFails(f) ==
  /\ IOFaults
  /\ pc[f] \in {"try", "made", "abort", "exists", "read", "confirm", "unlink"}
  /\ Quit(f)
  /\ UNCHANGED path

-----------------------------------------------------------------------------
(* Release: read the record, unlink if it carries this call's token.       *)

ReleaseCheck(f) ==
  /\ pc[f] = "hold"
  /\ \/ /\ path = mine[f]
        /\ Goto(f, "drop")
        /\ UNCHANGED <<now, path, file, dead, mine, call, disturbed>>
     \/ /\ path # mine[f]
        /\ Quit(f)
        /\ UNCHANGED path

ReleaseUnlink(f) ==
  /\ pc[f] = "drop"
  /\ path' = NoFile
  /\ Quit(f)

\* verify, read or unlink threw: a defect, and the file stays behind.
ReleaseFails(f) ==
  /\ IOFaults
  /\ pc[f] \in Owning
  /\ Quit(f)
  /\ UNCHANGED path

-----------------------------------------------------------------------------
(* The environment.                                                        *)

Crash(p) ==
  /\ p \notin dead
  /\ Cardinality(dead) < MaxCrashes
  /\ dead' = dead \cup {p}
  /\ pc' = [f \in Fiber |-> IF ProcOf[f] = p THEN "dead" ELSE pc[f]]
  /\ mine' = [f \in Fiber |-> IF ProcOf[f] = p THEN NoFile ELSE mine[f]]
  /\ call' = [f \in Fiber |-> IF ProcOf[f] = p THEN NoCall ELSE call[f]]
  /\ UNCHANGED <<now, path, file, disturbed>>

Tick ==
  /\ now < MaxClock
  /\ now' = now + 1
  /\ UNCHANGED <<path, file, dead, pc, mine, call, disturbed>>

Acquiring(f) ==
  \/ Enter(f) \/ Create(f) \/ WriteRecord(f) \/ WriteFails(f) \/ AbortUnlink(f)
  \/ Contended(f) \/ Inspect(f) \/ InspectUnsafe(f) \/ ReadRecord(f) \/ Confirm(f)
  \/ ReclaimUnlink(f) \/ GiveUp(f) \/ Sleep(f) \/ Wake(f) \/ AttemptFails(f)

Releasing(f) == ReleaseCheck(f) \/ ReleaseUnlink(f) \/ ReleaseFails(f)

Next == \/ \E f \in Fiber : Begin(f) \/ Acquiring(f) \/ Releasing(f)
        \/ \E p \in Proc : Crash(p)
        \/ Tick

Spec == Init /\ [][Next]_vars

\* Every await settles while its process lives, and time passes.
Fairness == /\ \A f \in Fiber : WF_vars(Acquiring(f)) /\ WF_vars(Releasing(f))
            /\ WF_vars(Tick)
FairSpec == Spec /\ Fairness

-----------------------------------------------------------------------------
(* Every variable has its type; the path names only files that were made.   *)
TypeOK ==
  /\ now \in Nat
  /\ path \in DOMAIN file \cup {NoFile, Unsafe}
  /\ DOMAIN file \subseteq Ino
  /\ file \in [DOMAIN file -> Record]
  /\ dead \subseteq Proc
  /\ pc \in [Fiber -> Step]
  /\ mine \in [Fiber -> DOMAIN file \cup {NoFile}]
  /\ call \in [Fiber -> Call]
  /\ disturbed \in BOOLEAN

(* No two callers hold the lock at once: what withAdvisoryLockUsing is for. *)
MutualExclusion ==
  \A f, g \in Fiber : pc[f] \in Owning /\ pc[g] \in Owning => f = g

(* The reclaim protocol itself, over any crashes, I/O errors and clocks:    *)
(* exclusion is lost only after a waiter decided to unlink the file of a    *)
(* caller still using it, or while another waiter was between its second    *)
(* lstat and its unlink.                                                    *)
ExclusiveUnlessDisturbed == ~disturbed => MutualExclusion

(* Unless that happened, the file of a caller in the middle of its call     *)
(* disappears only by that caller's own unlink; nobody else's release,      *)
(* failed create or reclaim removes it.                                     *)
LiveOwnerKeepsFile ==
  [][\A f \in Fiber :
       (/\ ~disturbed /\ mine[f] \in Ino /\ Alive(f)
        /\ path = mine[f] /\ path' # path)
       => pc[f] \in {"drop", "abort"} /\ pc'[f] = "idle"]_vars

(* The two lstats around the read pin down the file that was judged: a      *)
(* waiter goes on to unlink only a file whose owner is dead, whose record   *)
(* is expired (when live owners expire), or which never got a record and is *)
(* stale.  The record read in between may have been another file's.         *)
TakeoverJustified ==
  [][\A f \in Fiber :
       pc[f] = "confirm" /\ pc'[f] = "unlink" /\ path \in Ino =>
         \/ file[path].written /\ ~Alive(file[path].by)
         \/ file[path].written /\ ExpireLiveOwner /\ now - file[path].createdAt > Stale
         \/ ~file[path].written /\ now - file[path].mtime > Stale]_vars

(* "This guard closes the release-unlink race between fibers in the same    *)
(* process": between a release's token check and its unlink, no sibling has *)
(* taken over the expired file and put its own at the path.                 *)
ReleaseSparesSiblings ==
  [][\A f \in Fiber :
       pc[f] = "drop" /\ pc'[f] = "idle" /\ path' # path /\ path # mine[f]
         => ProcOf[file[path].by] # ProcOf[f]]_vars

(* An acquire that got past the guard ends, with the lock or with an error, *)
(* whatever the other processes do: "retry" answers also meet the deadline. *)
AcquireSettles ==
  \A f \in Fiber : pc[f] \in Waiting \ {"guard"} ~> pc[f] \notin Waiting \ {"guard"}

(* A file left by a dead process does not outlive the attempt of a waiter   *)
(* that can tell: it has a record, or it is past the stale threshold.       *)
DeadOwnerReclaimed ==
  \A f \in Fiber, i \in Ino :
    (/\ pc[f] = "try" /\ path = i /\ ~Alive(file[i].by)
     /\ file[i].written \/ call[f].seen - file[i].mtime > Stale)
    ~> (path # i \/ ~Alive(f))

-----------------------------------------------------------------------------
(* The inductive strengthening of ExclusiveUnlessDisturbed.                 *)

\* Steps at which a fiber has a file of its own.
Creator == {"made", "abort"} \cup Owning

\* A fiber has a file exactly while it is a live creator, and it is the file's "by".
OwnFiles ==
  \A f \in Fiber :
    /\ pc[f] \in Creator => mine[f] \in DOMAIN file /\ file[mine[f]].by = f
    /\ pc[f] \notin Creator => mine[f] = NoFile
    /\ pc[f] = "dead" <=> ~Alive(f)

\* A waiter past its first lstat has seen a file that was created.
SeenFiles ==
  \A f \in Fiber :
    pc[f] \in {"read", "confirm", "unlink"} => call[f].ident.ino \in DOMAIN file

\* Undisturbed, the file at the path is that of every creator, ...
CreatorsAtPath == ~disturbed => \A f \in Fiber : pc[f] \in Creator => path = mine[f]

\* ... and the file a reclaimer is about to unlink, alone, which nobody uses.
ReclaimersAtPath ==
  ~disturbed =>
    \A f \in Fiber : pc[f] = "unlink" =>
      /\ path \in DOMAIN file
      /\ ~InUse(path)
      /\ \A g \in Fiber : pc[g] = "unlink" => g = f

ReclaimInv == TypeOK /\ OwnFiles /\ SeenFiles /\ CreatorsAtPath /\ ReclaimersAtPath

-----------------------------------------------------------------------------
Mode(f) == CASE pc[f] \in Waiting -> "waiting"
             [] pc[f] \in Owning  -> "inside"
             [] pc[f] = "dead"    -> "lost"
             [] OTHER             -> "out"

modes == [f \in Fiber |-> Mode(f)]

Contract == INSTANCE LockContract WITH Client <- Fiber, mode <- modes

(* Until a reclaim disturbs it, the file protocol implements LockContract:  *)
(* every step is a request, a grant to a caller that is then alone inside,  *)
(* a wait given up, a release, a death, or invisible to the callers.        *)
ImplementsContract ==
  Contract!ContractInit /\ [][disturbed' \/ Contract!ContractNext]_modes
=============================================================================
