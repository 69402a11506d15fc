--------------------------- MODULE MCAdvisoryLock ---------------------------
(* Small instances of AdvisoryLock. *)
EXTENDS AdvisoryLock, TLC

CONSTANTS f1, f2, f3, p1, p2, p3, i1, i2, i3

\* Three commands, one fiber each.
OneEach == f1 :> p1 @@ f2 :> p2 @@ f3 :> p3
\* Two fibers of one process against a second process.
TwoAndOne == f1 :> p1 @@ f2 :> p1 @@ f3 :> p2
\* Two commands.
TwoEach == f1 :> p1 @@ f3 :> p2

\* Any file identity can be used next.
InoSymmetry == Permutations(Ino)
\* With one fiber per process, fibers and processes are exchangeable together.
PairSymmetry ==
  { [x \in Ino \cup Fiber \cup Proc |->
       IF x \in Fiber THEN a[x]
       ELSE IF x \in Ino THEN b[x]
       ELSE ProcOf[a[CHOOSE f \in Fiber : ProcOf[f] = x]]]
    : a \in Permutations(Fiber), b \in Permutations(Ino) }
\* Siblings are exchangeable.
SiblingSymmetry ==
  { a @@ b : a \in { a \in Permutations(Fiber) : \A f \in Fiber : ProcOf[a[f]] = ProcOf[f] },
             b \in Permutations(Ino) }
=============================================================================
