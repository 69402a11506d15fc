--------------------------- MODULE OperationLocks ---------------------------
(***************************************************************************)
(* The locks Lando commands take around what they change: one file lock    *)
(* per app (app-mutation-lock.ts), the policy lock over the global app's   *)
(* (global-app/mutation.ts), and one lock per physical volume of a plan    *)
(* (volume-coordination.ts).  A lock file is granted as LockContract says. *)
(*                                                                         *)
(* A command is one fiber running a program: phases that open and close    *)
(* around its body, and hooks that launch a child command and wait for it. *)
(* Phases nest, and a phase whose keys the fiber's context already holds   *)
(* takes no lock.                                                          *)
(***************************************************************************)
EXTENDS Integers, Sequences, FiniteSets

CONSTANTS
  Fiber, Proc, ProcOf,   \* commands and the processes they run in
  Nobody,
  App, Movable,          \* apps, and those whose root can move
  Volume,                \* coordination keys, in their sort order
  Program,               \* the programs each fiber may run
  ParentOf,              \* the command whose hook launches a fiber, or Nobody
  Teardown,              \* fibers whose programs lock several apps
  AncestryVisible,       \* the process table shows who launched whom
  LiveOwnersExpire,      \* some body outlives the stale threshold of a volume lock
  Mortal,                \* processes that may die
  MaxCommands, MaxMoves

ASSUME LocksAssumption ==
  /\ ProcOf \in [Fiber -> Proc]
  /\ ParentOf \in [Fiber -> Fiber \cup {Nobody}]
  /\ Nobody \notin Fiber
  /\ Volume \subseteq Nat
  /\ MaxMoves \in Nat
  /\ "volume" \notin App
  /\ AncestryVisible \in BOOLEAN

VolumeLock(v) == <<"volume", v>>
VolumeLocks == {VolumeLock(v) : v \in Volume}
AppLocks == App \X (0..MaxMoves)
Lock == VolumeLocks \cup AppLocks

\* What a program is made of: phases of apps and plans and their ends, and hooks of its children.
Instruction(f) ==
  [do : {"app"}, app : App] \cup [do : {"plan"}, keys : SUBSET VolumeLocks]
  \cup [do : {"hook"}, child : {h \in Fiber : ParentOf[h] = f}] \cup [do : {"end", "coordinate"}]

\* A hook's child is another command, in a process of its own.
ASSUME ProgramsAssumption ==
  /\ IsFiniteSet(Volume)
  /\ \A f \in Fiber : Program[f] \subseteq Seq(Instruction(f))
  /\ \A f \in Fiber : ParentOf[f] # f
  /\ \A f, g \in Fiber : ParentOf[f] # Nobody /\ f # g => ProcOf[f] # ProcOf[g]

VARIABLES
  owner,      \* lock file -> the fiber it names, or Nobody
  permit,     \* the in-process guard of a volume's lock file
  env,        \* LANDO_APP_LOCK_HOLDERS of each process
  root,       \* where each app's root is now
  dead,       \* processes that died
  pc, todo, frames, want,   \* each fiber: step, rest of its program, open phases, keys to take
  drifted,    \* history: fibers whose app moved while they held its lock
  expired,    \* history: live owners and the volume locks taken over from them
  overlapped  \* history: phases of one process closed in the order they opened

state == <<root, dead, drifted>>
vars == <<owner, permit, env, root, dead, pc, todo, frames, want, drifted, expired, overlapped>>

\* withAppMutationLock: the key is made from the app and its root as it is now.
appMutationLockKey(a) == <<a, root[a]>>

Alive(f) == ProcOf[f] \notin dead
Live(l) == owner[l] # Nobody /\ Alive(owner[l])

\* What the fiber's context says it holds.
Held(f) == UNION {frames[f][i].keys : i \in DOMAIN frames[f]}
\* The keys of the phases around the code that runs: not those of one being opened or closed.
Around(f) == UNION {frames[f][i].keys : i \in {j \in DOMAIN frames[f] :
  pc[f] \in {"check", "guard", "file", "leave", "unwind"} => j < Len(frames[f])}}
Top(f) == frames[f][Len(frames[f])]
WithTop(f, frame) == frames' = [frames EXCEPT ![f][Len(frames[f])] = frame]
Push(f, frame) == frames' = [frames EXCEPT ![f] = Append(@, frame)]
Runs(f, kind) == pc[f] = "run" /\ todo[f] # <<>> /\ Head(todo[f]).do = kind
Advance(f) == todo' = [todo EXCEPT ![f] = Tail(@)]
Goto(f, step) == pc' = [pc EXCEPT ![f] = step]

Init ==
  /\ owner = [l \in Lock |-> Nobody]
  /\ permit = [p \in Proc |-> [l \in VolumeLocks |-> Nobody]]
  /\ env = [p \in Proc |-> {}]
  /\ root = [a \in App |-> 0]
  /\ dead = {}
  /\ pc = [f \in Fiber |-> "idle"]
  /\ todo = [f \in Fiber |-> <<>>]
  /\ frames = [f \in Fiber |-> <<>>]
  /\ want = [f \in Fiber |-> {}]
  /\ drifted = {} /\ expired = {} /\ overlapped = FALSE

-----------------------------------------------------------------------------
(* Commands and their programs.                                            *)

Phase(a) == [do |-> "app", app |-> a]
Plan(keys) == [do |-> "plan", keys |-> {VolumeLock(v) : v \in keys}]
Hook(f) == [do |-> "hook", child |-> f]
End == [do |-> "end"]
Coordinate == [do |-> "coordinate"]
\* Policy first, then the global app; refused from inside a bare global phase.
withGlobalMutation(body) ==
  <<Coordinate, Phase("policy"), Phase("global")>> \o body \o <<End, End>>

startApp(a, keys, body) == <<Phase(a), Plan(keys)>> \o body \o <<End, End>>
\* File sync settings changed: the applied plan's volumes first.
startRotating(a, old, keys) == <<Phase(a), Plan(old), End, Plan(keys), End, End>>
stopApp(a, keys) == startApp(a, keys, <<>>)
\* Stop and start run inside the volumes of the new plan.
restartApp(a, old, keys) ==
  <<Phase(a), Plan(keys)>> \o stopApp(a, keys) \o startRotating(a, old, keys) \o <<End, End>>
globalStart(keys) == withGlobalMutation(startApp("global", keys, <<>>))
\* The first resolved app is locked before the sorted list of them all.
destroyApp(first, second, third, keys) ==
  <<Phase(first), Phase(second), Phase(third), Plan(keys)>>

Begin(f) ==
  /\ pc[f] = "idle" /\ Alive(f)
  /\ IF ParentOf[f] = Nobody
     THEN Cardinality({g \in Fiber : ParentOf[g] = Nobody /\ pc[g] # "idle"}) < MaxCommands
     ELSE Runs(ParentOf[f], "launched") /\ Head(todo[ParentOf[f]]).child = f
  /\ \E program \in Program[f] : todo' = [todo EXCEPT ![f] = program]
  /\ Goto(f, "run")
  /\ UNCHANGED <<owner, permit, env, frames, want, expired, overlapped, state>>

\* The child inherits the environment of its parent as it is at the launch.
Launch(f) ==
  /\ Runs(f, "hook")
  /\ LET child == Head(todo[f]).child
     IN  /\ todo' = [todo EXCEPT ![f] = <<[do |-> "launched", child |-> child]>> \o Tail(@)]
         /\ env' = [env EXCEPT ![ProcOf[child]] = env[ProcOf[f]]]
  /\ UNCHANGED <<owner, permit, pc, frames, want, expired, overlapped, state>>

HookReturns(f) ==
  /\ Runs(f, "launched")
  /\ pc[Head(todo[f]).child] \in {"done", "dead"}
  /\ Advance(f)
  /\ UNCHANGED <<owner, permit, env, pc, frames, want, expired, overlapped, state>>

-----------------------------------------------------------------------------
(* withAppMutationLock                                                     *)

\* globalPolicyLockUpgrade
EnterCoordinator(f) ==
  /\ Runs(f, "coordinate")
  /\ LET holds == {l[1] : l \in Held(f)}
     IN  IF "global" \in holds /\ "policy" \notin holds
         THEN Goto(f, "unwind") /\ UNCHANGED todo
         ELSE Advance(f) /\ UNCHANGED pc
  /\ UNCHANGED <<owner, permit, env, frames, want, expired, overlapped, state>>

EnterApp(f) ==
  /\ Runs(f, "app")
  /\ LET key == appMutationLockKey(Head(todo[f]).app)
     IN  \/ /\ key \in Held(f)
            /\ Push(f, [keys |-> {key}, locks |-> {}, env |-> {}])
            /\ Advance(f)
            /\ UNCHANGED <<pc, want>>
         \/ /\ key \notin Held(f)
            /\ want' = [want EXCEPT ![f] = {key}]
            /\ Goto(f, "peek")
            /\ UNCHANGED <<todo, frames>>
  /\ UNCHANGED <<owner, permit, env, expired, overlapped, state>>

Wanted(f) == CHOOSE l \in want[f] : TRUE

IsAncestor(g, f) ==
  \/ ParentOf[f] # Nobody /\ ProcOf[ParentOf[f]] = ProcOf[g]
  \/ /\ ParentOf[f] # Nobody /\ ParentOf[ParentOf[f]] # Nobody
     /\ ProcOf[ParentOf[ParentOf[f]]] = ProcOf[g]

\* Mutant: only the process table is asked, never the inherited tokens.
Borrowed_NoTokens(f, l) ==
  /\ Live(l) /\ ProcOf[owner[l]] # ProcOf[f]
  /\ AncestryVisible /\ IsAncestor(owner[l], f)

\* A live owner in another process that launched this one, by ancestry or token.
Borrowed(f, l) ==
  /\ Live(l) /\ ProcOf[owner[l]] # ProcOf[f]
  /\ \/ AncestryVisible /\ IsAncestor(owner[l], f)
     \/ <<l, owner[l]>> \in env[ProcOf[f]]

borrowedMutationOwner(f) ==
  /\ pc[f] = "peek"
  /\ IF Borrowed(f, Wanted(f))
     THEN Goto(f, "unwind") /\ want' = [want EXCEPT ![f] = {}]
     ELSE Goto(f, "wait") /\ UNCHANGED want
  /\ UNCHANGED <<owner, permit, env, todo, frames, expired, overlapped, state>>

\* The holders list with this lock's entry replaced by the new token.
installHolderEnv(holders, l, f) == {h \in holders : h[1] # l} \cup {<<l, f>>}

AcquireApp(f) ==
  /\ pc[f] = "wait"
  /\ ~Live(Wanted(f))
  /\ LET l == Wanted(f)  p == ProcOf[f]
     IN  /\ owner' = [owner EXCEPT ![l] = f]
         /\ Push(f, [keys |-> {l}, locks |-> {l}, env |-> env[p]])
         /\ env' = [env EXCEPT ![p] = installHolderEnv(@, l, f)]
  /\ want' = [want EXCEPT ![f] = {}]
  /\ Goto(f, "check")
  /\ UNCHANGED <<permit, todo, expired, overlapped, state>>

\* AppLockTimeoutError: the file still names a live owner at the deadline.
AppTimeout(f) ==
  /\ pc[f] = "wait"
  /\ Live(Wanted(f))
  /\ want' = [want EXCEPT ![f] = {}]
  /\ Goto(f, "unwind")
  /\ UNCHANGED <<owner, permit, env, todo, frames, expired, overlapped, state>>

\* Mutant: the identity is not looked at again once the lock is held.
SameIdentity_AnyRoot(f) == TRUE

\* The root may have moved while the command waited.
SameIdentity(f) == appMutationLockKey(Head(todo[f]).app) \in Top(f).keys

Recheck(f) ==
  /\ pc[f] = "check"
  /\ IF SameIdentity(f)
     THEN Goto(f, "run") /\ Advance(f)
     ELSE Goto(f, "unwind") /\ UNCHANGED todo
  /\ UNCHANGED <<owner, permit, env, frames, want, expired, overlapped, state>>

-----------------------------------------------------------------------------
(* withPlanVolumeCoordination                                              *)

\* Mutant: a nested phase locks its keys again.
AllHeld_Never(f, keys) == keys = {}

AllHeld(f, keys) == keys \subseteq Held(f)

EnterPlan(f) ==
  /\ Runs(f, "plan")
  /\ LET keys == Head(todo[f]).keys
     IN  /\ Push(f, [keys |-> keys, locks |-> {}, env |-> {}])
         /\ \/ /\ AllHeld(f, keys)
               /\ Advance(f)
               /\ UNCHANGED <<pc, want>>
            \/ /\ ~AllHeld(f, keys)
               /\ want' = [want EXCEPT ![f] = keys]
               /\ Goto(f, "guard")
               /\ UNCHANGED todo
  /\ UNCHANGED <<owner, permit, env, expired, overlapped, state>>

\* Mutant: keys in the order the plan lists its stores; one command's plan lists them backwards.
NextKey_PlanOrder(f) ==
  IF f = CHOOSE g \in Fiber : pc[g] \notin {"idle", "done", "dead"}
  THEN CHOOSE l \in want[f] : \A k \in want[f] : k[2] <= l[2]
  ELSE CHOOSE l \in want[f] : \A k \in want[f] : l[2] <= k[2]

\* uniqueByCoordinationKey sorts.
NextKey(f) == CHOOSE l \in want[f] : \A k \in want[f] : l[2] <= k[2]

\* One permit per lock file and process; the wait has no deadline.
TakePermit(f) ==
  /\ pc[f] = "guard"
  /\ permit[ProcOf[f]][NextKey(f)] = Nobody
  /\ permit' = [permit EXCEPT ![ProcOf[f]][NextKey(f)] = f]
  /\ Goto(f, "file")
  /\ UNCHANGED <<owner, env, todo, frames, want, expired, overlapped, state>>

\* The default options let a waiter take the file of an owner that is only slow.
TakeFile(f) ==
  /\ pc[f] = "file"
  /\ LET l == NextKey(f)
     IN  /\ Live(l) => LiveOwnersExpire
         /\ expired' = IF Live(l) THEN expired \cup {<<owner[l], l>>} ELSE expired
         /\ owner' = [owner EXCEPT ![l] = f]
         /\ WithTop(f, [Top(f) EXCEPT !.locks = @ \cup {l}])
         /\ want' = [want EXCEPT ![f] = @ \ {l}]
         /\ IF want[f] = {l} THEN Goto(f, "run") /\ Advance(f)
                             ELSE Goto(f, "guard") /\ UNCHANGED todo
  /\ UNCHANGED <<permit, env, overlapped, state>>

VolumeTimeout(f) ==
  /\ pc[f] = "file"
  /\ Live(NextKey(f))
  /\ permit' = [permit EXCEPT ![ProcOf[f]][NextKey(f)] = Nobody]
  /\ want' = [want EXCEPT ![f] = {}]
  /\ Goto(f, "unwind")
  /\ UNCHANGED <<owner, env, todo, frames, expired, overlapped, state>>

-----------------------------------------------------------------------------
(* Closing phases.                                                         *)

Pop(f) == frames' = [frames EXCEPT ![f] = SubSeq(@, 1, Len(@) - 1)]

\* The body of the innermost phase succeeded; at the end of a program, of every phase.
Leave(f) ==
  /\ pc[f] = "run"
  /\ \/ todo[f] = <<>> /\ Goto(f, "unwind") /\ UNCHANGED <<todo, frames>>
     \/ /\ Runs(f, "end")
        /\ Advance(f)
        /\ IF Top(f).locks = {} THEN Pop(f) /\ UNCHANGED pc
                                ELSE Goto(f, "leave") /\ UNCHANGED frames
  /\ UNCHANGED <<owner, permit, env, want, expired, overlapped, state>>

\* The body of a phase, or the verification of its volumes, failed.
Fail(f) ==
  /\ pc[f] = "run" /\ frames[f] # <<>> /\ ~Runs(f, "launched")
  /\ Goto(f, "unwind")
  /\ UNCHANGED <<owner, permit, env, todo, frames, want, expired, overlapped, state>>

\* Mutant: the release does not look whose lock it is.
Released_Unchecked(f, l) == [owner EXCEPT ![l] = Nobody]

\* Release checks the token, so a lock taken over by another fiber stays.
Released(f, l) == IF owner[l] = f THEN [owner EXCEPT ![l] = Nobody] ELSE owner

ReleaseLock(f) ==
  /\ pc[f] \in {"leave", "unwind"}
  /\ frames[f] # <<>> /\ Top(f).locks # {}
  /\ LET l == CHOOSE l \in Top(f).locks : \A k \in Top(f).locks : k[2] <= l[2]
         p == ProcOf[f]
     IN  /\ owner' = Released(f, l)
         /\ IF Top(f).locks = {l}
            THEN Pop(f) /\ Goto(f, IF pc[f] = "leave" THEN "run" ELSE "unwind")
            ELSE WithTop(f, [Top(f) EXCEPT !.locks = @ \ {l}]) /\ UNCHANGED pc
         /\ IF l \in VolumeLocks
            THEN /\ permit' = [permit EXCEPT ![p][l] = Nobody]
                 /\ UNCHANGED <<env, overlapped>>
            ELSE /\ env' = [env EXCEPT ![p] = Top(f).env]
                 /\ overlapped' = (overlapped \/ env[p] # installHolderEnv(Top(f).env, l, f))
                 /\ UNCHANGED permit
  /\ UNCHANGED <<todo, want, expired, state>>

\* A phase that took no lock of its own gives none back.
ClosePhase(f) ==
  /\ pc[f] = "unwind"
  /\ frames[f] # <<>> /\ Top(f).locks = {}
  /\ Pop(f)
  /\ UNCHANGED <<owner, permit, env, pc, todo, want, expired, overlapped, state>>

Finish(f) ==
  /\ pc[f] = "unwind" /\ frames[f] = <<>>
  /\ Goto(f, "done")
  /\ todo' = [todo EXCEPT ![f] = <<>>]
  /\ UNCHANGED <<owner, permit, env, frames, want, expired, overlapped, state>>

-----------------------------------------------------------------------------
(* The environment.                                                        *)

Crash(p) ==
  /\ p \in Mortal \ dead
  /\ dead' = dead \cup {p}
  /\ LET lost == {f \in Fiber : ProcOf[f] = p /\ pc[f] # "done"}
     IN  /\ pc' = [f \in Fiber |-> IF f \in lost THEN "dead" ELSE pc[f]]
         /\ todo' = [f \in Fiber |-> IF f \in lost THEN <<>> ELSE todo[f]]
         /\ frames' = [f \in Fiber |-> IF f \in lost THEN <<>> ELSE frames[f]]
         /\ want' = [f \in Fiber |-> IF f \in lost THEN {} ELSE want[f]]
  /\ permit' = [permit EXCEPT ![p] = [l \in VolumeLocks |-> Nobody]]
  /\ UNCHANGED <<owner, env, root, drifted, expired, overlapped>>

\* The app's directory is moved, or a link above it now leads elsewhere.
Move(a) ==
  /\ a \in Movable /\ root[a] < MaxMoves
  /\ root' = [root EXCEPT ![a] = @ + 1]
  /\ drifted' = drifted \cup {f \in Fiber : \E l \in Around(f) : l[1] = a}
  /\ UNCHANGED <<owner, permit, env, dead, pc, todo, frames, want, expired, overlapped>>

Step(f) ==
  \/ Launch(f) \/ HookReturns(f)
  \/ EnterCoordinator(f) \/ EnterApp(f) \/ borrowedMutationOwner(f) \/ AcquireApp(f)
  \/ AppTimeout(f) \/ Recheck(f)
  \/ EnterPlan(f) \/ TakePermit(f) \/ TakeFile(f) \/ VolumeTimeout(f)
  \/ Leave(f) \/ ReleaseLock(f) \/ ClosePhase(f) \/ Finish(f)

Next == \/ \E f \in Fiber : Begin(f) \/ Step(f) \/ Fail(f)
        \/ \E p \in Proc : Crash(p)
        \/ \E a \in App : Move(a)

Spec == Init /\ [][Next]_vars

\* A command that was started goes on; a launched child starts.
Fairness == \A f \in Fiber : /\ WF_vars(Step(f))
                             /\ ParentOf[f] # Nobody => WF_vars(Begin(f))
FairSpec == Spec /\ Fairness

-----------------------------------------------------------------------------
Steps == {"idle", "run", "peek", "wait", "check", "guard", "file", "leave", "unwind",
          "done", "dead"}
Frame == [keys : SUBSET Lock, locks : SUBSET Lock, env : SUBSET (Lock \X Fiber)]

TypeOK ==
  /\ owner \in [Lock -> Fiber \cup {Nobody}]
  /\ permit \in [Proc -> [VolumeLocks -> Fiber \cup {Nobody}]]
  /\ env \in [Proc -> SUBSET (Lock \X Fiber)]
  /\ root \in [App -> 0..MaxMoves]
  /\ dead \subseteq Proc
  /\ pc \in [Fiber -> Steps]
  /\ \A f \in Fiber : \A i \in DOMAIN frames[f] : frames[f][i] \in Frame
  /\ want \in [Fiber -> SUBSET Lock]
  /\ drifted \subseteq Fiber /\ expired \subseteq Fiber \X Lock /\ overlapped \in BOOLEAN

(* "Nested operations reuse locks already held": whatever the nesting, a    *)
(* body runs with every key of every phase around it locked by its fiber,   *)
(* and no inner phase gave back what an outer one needs.  A volume lock can *)
(* be lost to a waiter that found its owner too slow.                       *)
BodyHoldsItsKeys ==
  \A f \in Fiber : \A l \in Around(f) : owner[l] = f \/ <<f, l>> \in expired

(* Two commands never change one app at once, unless its root moved while   *)
(* one of them was at it.  A root that moves while a command still waits    *)
(* makes that command fail, not run under a lock nobody else will ask for.  *)
OneCommandPerApp ==
  \A f, g \in Fiber : \A k \in Around(f), l \in Around(g) :
    f # g /\ k \in AppLocks /\ k[1] = l[1] => f \in drifted \/ g \in drifted

WaitsFor(f, g) ==
  \/ pc[f] = "wait" /\ owner[Wanted(f)] = g /\ Alive(g)
  \/ pc[f] = "guard" /\ permit[ProcOf[f]][NextKey(f)] = g
  \/ pc[f] = "file" /\ owner[NextKey(f)] = g /\ Alive(g)
  \/ Runs(f, "launched") /\ Head(todo[f]).child = g /\ pc[g] \notin {"done", "dead"}

\* Concurrent commands of one process that close their phases in the order they opened
\* them drop each other's tokens; only the process table then shows an ancestor.
TokensTell == AncestryVisible \/ ~overlapped

(* Commands that start, stop and restart apps and the global app never wait *)
(* for one another in a circle, so no wait among them needs its deadline:   *)
(* app, then volumes in key order, then policy, then the global app.  An    *)
(* app that moved under its command is another app to its nested phases.    *)
NoCircularWait ==
  TokensTell => ~\E S \in SUBSET (Fiber \ (Teardown \cup drifted)) : S # {} /\ \A f \in S : \E g \in S : WaitsFor(f, g)

(* "Waiting on a live parent would deadlock when that parent awaits its     *)
(* child": a child never queues behind the command that launched it, even   *)
(* where only the inherited tokens tell, unless concurrent commands of one  *)
(* process closed their phases in the order they opened them.               *)
ChildNeverQueuesBehindParent ==
  \A f, g \in Fiber :
    pc[f] = "wait" /\ owner[Wanted(f)] = g /\ ParentOf[f] = g /\ Runs(g, "launched")
      => ~TokensTell

(* A nested phase never waits for a permit its own fiber holds: the guard   *)
(* has no deadline and is not reentrant.                                    *)
NeverWaitsForItself == \A f \in Fiber : ~WaitsFor(f, f)

(* Every command ends, those that lock several apps in different orders     *)
(* included: a circle of waits is broken by a deadline.                     *)
CommandsEnd == <>[](\A f \in Fiber : pc[f] \in {"idle", "done", "dead"})
=============================================================================
