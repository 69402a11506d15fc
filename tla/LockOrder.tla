----------------------------- MODULE LockOrder -----------------------------
(***************************************************************************)
(* The order in which commands take their locks: an app, the volumes of    *)
(* its plan by key, the policy lock, the global app, its volumes.  It is   *)
(* nowhere in the code: it is what the callers of withAppMutationLock,     *)
(* withGlobalMutation and withPlanVolumeCoordination have in common, and   *)
(* the condition under which programs other than those of the instance     *)
(* checked never wait for one another in a circle.                         *)
(***************************************************************************)
EXTENDS OperationLocks

CONSTANTS
  Rank, TopRank,   \* the place of each lock in the order, and the last one
  Floor,           \* every lock the launchers of a fiber hold is ranked up to here
  Inherited,       \* the apps that a fiber's launcher holds when it launches it
  Course           \* fiber -> the phases open with what is left of its program

\* An app's lock wherever its root is.
Named(l) == IF l \in AppLocks THEN <<l[1], 0>> ELSE l
Names(keys) == {Named(l) : l \in keys}

\* What the phases of a stack name.
Inside(stack) == UNION {stack[i] : i \in 1..Len(stack)}

\* A key ranked behind all that is open and all that the launchers hold.
Later(f, stack, k) == Rank[k] > Floor[f] /\ \A h \in Inside(stack) : Rank[h] < Rank[k]

\* A phase is nested in one of the same keys or its keys come later, and a plan takes its volumes
\* by key; a hook's child is told what its launchers hold, and may ask for an app of theirs before
\* it holds anything.
Orderly(f, stack, x) ==
  CASE x.do = "app" ->
         \/ <<x.app, 0>> \in Inside(stack)
         \/ Later(f, stack, <<x.app, 0>>)
         \/ stack = <<>> /\ x.app \in Inherited[f]
    [] x.do = "plan" ->
         /\ \A k, l \in x.keys : k[2] < l[2] => Rank[k] < Rank[l]
         /\ x.keys \subseteq Inside(stack) \/ \A k \in x.keys : Later(f, stack, k)
    [] x.do = "hook" ->
         /\ Floor[f] < Floor[x.child]
         /\ \A h \in Inside(stack) : Rank[h] <= Floor[x.child]
         /\ \A a \in Inherited[x.child] : <<a, 0>> \in Inside(stack)
    [] x.do = "end" -> stack # <<>>
    [] OTHER -> TRUE

\* What is open after an instruction.
After(stack, x) ==
  CASE x.do = "app"  -> Append(stack, {<<x.app, 0>>})
    [] x.do = "plan" -> Append(stack, x.keys)
    [] x.do = "end"  -> SubSeq(stack, 1, Len(stack) - 1)
    [] OTHER -> stack

ASSUME LockOrderAssumption ==
  /\ TopRank \in Nat /\ Rank \in [Lock -> 1..TopRank] /\ Floor \in [Fiber -> 0..TopRank]
  /\ Inherited \in [Fiber -> SUBSET App]
  /\ \A k, l \in AppLocks : k[1] = l[1] => Rank[k] = Rank[l]

\* Every program keeps the order, from its first instruction to its last.
ASSUME CoursesAssumption ==
  \A f \in Fiber \ Teardown :
    /\ Course[f] \subseteq Seq(SUBSET Lock) \X Seq(Instruction(f))
    /\ \A program \in Program[f] : <<<<>>, program>> \in Course[f]
    /\ \A c \in Course[f] : c[2] # <<>> =>
         /\ Orderly(f, c[1], Head(c[2]))
         /\ <<After(c[1], Head(c[2])), Tail(c[2])>> \in Course[f]
=============================================================================
