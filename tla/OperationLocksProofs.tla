------------------------ MODULE OperationLocksProofs ------------------------
(***************************************************************************)
(* Theorems about OperationLocks, for any commands, processes, apps,       *)
(* volumes and programs.  First the invariant the owners of locks follow   *)
(* from, one lemma per action and the theorems; then the same for the      *)
(* order of the locks, the only part that asks the programs to keep the    *)
(* order LockOrder assumes.                                                *)
(***************************************************************************)
EXTENDS LockOrder, SequenceTheorems, FiniteSetTheorems, WellFoundedInduction, TLAPS

-----------------------------------------------------------------------------
(* The invariant.                                                          *)

Idle == {"idle", "done", "dead"}
Opening == {"check", "guard", "file", "leave", "unwind"}
Work(f) == Instruction(f) \cup [do : {"launched"}, child : {h \in Fiber : ParentOf[h] = f}]
Works == UNION {Work(f) : f \in Fiber}

LockTypes ==
  /\ owner \in [Lock -> Fiber \cup {Nobody}]
  /\ permit \in [Proc -> [VolumeLocks -> Fiber \cup {Nobody}]]
  /\ env \in [Proc -> SUBSET (Lock \X Fiber)]
  /\ root \in [App -> 0..MaxMoves] /\ dead \subseteq Proc
  /\ pc \in [Fiber -> Steps] /\ want \in [Fiber -> SUBSET Lock]
  /\ todo \in [Fiber -> Seq(Works)]
  /\ \A f \in Fiber : todo[f] # <<>> => Head(todo[f]) \in Work(f) /\ Tail(todo[f]) \in Seq(Instruction(f))
  /\ frames \in [Fiber -> Seq(Frame)]
  /\ drifted \subseteq Fiber /\ expired \subseteq Fiber \X VolumeLocks /\ overlapped \in BOOLEAN

\* The phases of a fiber lock different files, each of them its own unless it was taken over; and
\* what a live fiber owns, a phase of its locked.
StackInv(f) ==
  /\ \A i \in 1..Len(frames[f]) :
       /\ frames[f][i].locks \subseteq frames[f][i].keys
       /\ frames[f][i].locks \subseteq VolumeLocks \/ \E l \in AppLocks : frames[f][i].locks = {l}
       /\ \A k \in 1..Len(frames[f]) : k # i => frames[f][i].locks \cap frames[f][k].locks = {}
       /\ \A l \in frames[f][i].locks :
            /\ owner[l] = f \/ <<f, l>> \in expired
            /\ l \in VolumeLocks => permit[ProcOf[f]][l] = f
  /\ \A l \in Lock : owner[l] = f /\ Alive(f) => \E i \in 1..Len(frames[f]) : l \in frames[f][i].locks

\* The phases around the code that runs have their keys locked by themselves or by those around.
Covered(f) ==
  \A i \in 1..Len(frames[f]) : (pc[f] \in Opening => i < Len(frames[f])) =>
    \A l \in frames[f][i].keys : \E k \in 1..i : l \in frames[f][k].locks

\* Unless it moved under its command, an app is locked where it is.
Rooted(f) == f \notin drifted => \A l \in Around(f) \cap AppLocks : l[2] = root[l[1]]

\* Where a fiber is in opening a phase.
StepInv(f) ==
  /\ pc[f] \in Idle => frames[f] = <<>>
  /\ ~Alive(f) => pc[f] \in {"done", "dead"}
  /\ pc[f] \in {"peek", "wait", "check", "guard", "file"} => todo[f] # <<>>
  /\ pc[f] = "leave" => todo[f] = <<>> \/ Head(todo[f]).do # "launched"
  /\ pc[f] \in {"peek", "wait"} => \E l \in AppLocks : want[f] = {l} /\ l \notin Held(f)
  /\ pc[f] = "check" => /\ frames[f] # <<>> /\ Top(f).keys = Top(f).locks
                        /\ \E l \in AppLocks : Top(f).keys = {l}
  /\ pc[f] \in {"guard", "file"} =>
       /\ frames[f] # <<>> /\ want[f] # {} /\ want[f] \subseteq Top(f).keys
       /\ Top(f).keys \subseteq Top(f).locks \cup want[f] /\ Top(f).keys \subseteq VolumeLocks
  /\ pc[f] = "file" => /\ permit[ProcOf[f]][NextKey(f)] = f
                       /\ \A i \in 1..Len(frames[f]) : NextKey(f) \notin frames[f][i].locks
  /\ Rooted(f)

\* Who launched a child waits for it, and the child's environment names what the parent holds.
Launched(f) == Runs(ParentOf[f], "launched") /\ Head(todo[ParentOf[f]]).child = f
NotBehindParent(f) ==
  pc[f] = "wait" /\ ParentOf[f] # Nobody /\ Alive(ParentOf[f]) /\ TokensTell => owner[Wanted(f)] # ParentOf[f]
Awaited(f) ==
  ParentOf[f] # Nobody /\ Alive(ParentOf[f]) =>
    /\ pc[f] \notin Idle => Launched(f)
    /\ Launched(f) /\ pc[f] \notin {"done", "dead"} /\ ~overlapped =>
         \A l \in AppLocks : owner[l] = ParentOf[f] => <<l, ParentOf[f]>> \in env[ProcOf[f]]
    /\ NotBehindParent(f)

\* The environment of a process names the app locks its fibers hold.
EnvTells(f) == ~overlapped => \A l \in AppLocks : owner[l] = f /\ Alive(f) => <<l, f>> \in env[ProcOf[f]]

LocksInv ==
  /\ LockTypes
  /\ \A f \in Fiber : StackInv(f) /\ Covered(f) /\ StepInv(f) /\ EnvTells(f) /\ Awaited(f)

-----------------------------------------------------------------------------
(* Locks, programs, first and last keys.                                   *)

LEMMA LockSets ==
  /\ VolumeLocks \cap AppLocks = {} /\ Lock = VolumeLocks \cup AppLocks
  /\ \A l \in VolumeLocks : l[1] = "volume" /\ l[2] \in Nat /\ l = <<l[1], l[2]>>
  /\ \A l \in AppLocks : l[1] \in App /\ l[2] \in 0..MaxMoves /\ l = <<l[1], l[2]>>
  /\ \A l \in Lock : l[1] \in App => l \in AppLocks
BY LocksAssumption DEF LocksAssumption, Lock, VolumeLocks, VolumeLock, AppLocks

LEMMA WorkFacts ==
  ASSUME LockTypes, NEW f \in Fiber, todo[f] # <<>>
  PROVE  /\ Tail(todo[f]) \in Seq(Works)
         /\ Tail(todo[f]) # <<>> =>
              /\ Head(Tail(todo[f])) \in Work(f) /\ Head(Tail(todo[f])).do # "launched"
              /\ Tail(Tail(todo[f])) \in Seq(Instruction(f))
         /\ Head(todo[f]).do = "app" => Head(todo[f]).app \in App
         /\ Head(todo[f]).do = "plan" => Head(todo[f]).keys \subseteq VolumeLocks
         /\ Head(todo[f]).do \in {"hook", "launched"} =>
              Head(todo[f]).child \in Fiber /\ ParentOf[Head(todo[f]).child] = f
<1>1. todo[f] \in Seq(Works) /\ Head(todo[f]) \in Work(f) /\ Tail(todo[f]) \in Seq(Instruction(f))
  BY DEF LockTypes
<1>2. Tail(todo[f]) \in Seq(Works)
  BY <1>1, HeadTailProperties
<1>3. ASSUME Tail(todo[f]) # <<>>
      PROVE  /\ Head(Tail(todo[f])) \in Instruction(f)
             /\ Tail(Tail(todo[f])) \in Seq(Instruction(f))
  BY <1>1, <1>3, HeadTailProperties
<1>4. \A x \in Instruction(f) : x \in Work(f) /\ x.do # "launched"
  BY DEF Work, Instruction
<1> DEFINE x == Head(todo[f])
<1>5. /\ x.do = "app" => x.app \in App
      /\ x.do = "plan" => x.keys \subseteq VolumeLocks
      /\ x.do \in {"hook", "launched"} => x.child \in Fiber /\ ParentOf[x.child] = f
  <2>1. x \in Work(f)
    BY <1>1
  <2> HIDE DEF x
  <2>2. CASE x \in [do : {"app"}, app : App]
    BY <2>2
  <2>3. CASE x \in [do : {"plan"}, keys : SUBSET VolumeLocks]
    BY <2>3
  <2>4. CASE x \in [do : {"hook"}, child : {h \in Fiber : ParentOf[h] = f}]
    BY <2>4
  <2>5. CASE x \in [do : {"end", "coordinate"}]
    BY <2>5
  <2>6. CASE x \in [do : {"launched"}, child : {h \in Fiber : ParentOf[h] = f}]
    BY <2>6
  <2> QED
    BY <2>1, <2>2, <2>3, <2>4, <2>5, <2>6 DEF Work, Instruction
<1> QED
  BY <1>2, <1>3, <1>4, <1>5

LEMMA FirstNumber ==
  ASSUME NEW N, N \subseteq Nat, N # {}
  PROVE  \E n \in N : \A k \in N : n <= k
<1> DEFINE T == {0..n : n \in N}
<1>1. T \subseteq FiniteSubsetsOf(Nat)
  <2> SUFFICES ASSUME NEW n \in N PROVE 0..n \in FiniteSubsetsOf(Nat)
    OBVIOUS
  <2>1. n \in Int /\ 0 \in Int /\ 0..n \subseteq Nat
    OBVIOUS
  <2>2. IsFiniteSet(0..n)
    BY <2>1, FS_Interval
  <2> QED
    BY <2>1, <2>2 DEF FiniteSubsetsOf
<1>2. PICK S \in T : \A U \in T : <<U, S>> \notin StrictSubsetOrdering(Nat)
  <2>1. T # {}
    OBVIOUS
  <2>2. IsWellFoundedOn(StrictSubsetOrdering(Nat), FiniteSubsetsOf(Nat))
    BY FS_StrictSubsetOrderingWellFounded
  <2> HIDE DEF T
  <2> QED
    BY <1>1, <2>1, <2>2, WFMin
<1>3. PICK n \in N : S = 0..n
  BY <1>2
<1>4. ASSUME NEW k \in N, k < n PROVE FALSE
  <2>1. k \in Nat /\ n \in Nat
    OBVIOUS
  <2>2. 0..k \subseteq 0..n /\ n \in 0..n /\ n \notin 0..k /\ 0..n \subseteq Nat
    BY <1>4, <2>1
  <2>3. 0..k \in T
    OBVIOUS
  <2>4. <<0..k, 0..n>> \in StrictSubsetOrdering(Nat)
    BY <2>2 DEF StrictSubsetOrdering
  <2> HIDE DEF T
  <2> QED
    BY <1>2, <1>3, <2>3, <2>4
<1>5. \A k \in N : n <= k
  BY <1>4
<1> QED
  BY <1>5

LEMMA LastNumber ==
  ASSUME NEW V, V \subseteq Nat, IsFiniteSet(V), NEW N, N \subseteq V, N # {}
  PROVE  \E n \in N : \A k \in N : k <= n
<1> DEFINE Above(n) == {v \in V : v >= n}
           T == {Above(n) : n \in N}
<1>1. T \subseteq FiniteSubsetsOf(V)
  <2> SUFFICES ASSUME NEW n \in N PROVE Above(n) \in FiniteSubsetsOf(V)
    OBVIOUS
  <2>1. Above(n) \subseteq V
    OBVIOUS
  <2>2. IsFiniteSet(Above(n))
    BY <2>1, FS_Subset
  <2> QED
    BY <2>1, <2>2 DEF FiniteSubsetsOf
<1>2. PICK S \in T : \A U \in T : <<U, S>> \notin StrictSubsetOrdering(V)
  <2>1. T # {}
    OBVIOUS
  <2>2. IsWellFoundedOn(StrictSubsetOrdering(V), FiniteSubsetsOf(V))
    BY FS_StrictSubsetOrderingWellFounded
  <2> HIDE DEF T
  <2> QED
    BY <1>1, <2>1, <2>2, WFMin
<1>3. PICK n \in N : S = Above(n)
  BY <1>2
<1>4. ASSUME NEW k \in N, k > n PROVE FALSE
  <2>1. k \in Nat /\ n \in Nat /\ n \in V
    OBVIOUS
  <2>2. n \in Above(n) /\ n \notin Above(k) /\ Above(n) \subseteq V
    BY <1>4, <2>1
  <2>3. \A v \in Above(k) : v \in Nat /\ v >= n
    BY <1>4, <2>1
  <2>4. Above(k) \subseteq Above(n)
    BY <2>3
  <2>5. Above(k) \in T
    OBVIOUS
  <2> HIDE DEF Above, T
  <2>6. <<Above(k), Above(n)>> \in StrictSubsetOrdering(V)
    BY <2>2, <2>4 DEF StrictSubsetOrdering
  <2> QED
    BY <1>2, <1>3, <2>5, <2>6
<1>5. \A k \in N : k <= n
  BY <1>4
<1> QED
  BY <1>5

\* A set of volume locks has a first one, in the order of their keys, and a last one.
LEMMA FirstKey ==
  ASSUME NEW K, K \subseteq VolumeLocks, K # {}
  PROVE  \E l \in K : \A k \in K : l[2] <= k[2]
<1> DEFINE N == {l[2] : l \in K}
<1>1. N \subseteq Nat /\ N # {}
  BY LockSets
<1>2. PICK n \in N : \A k \in N : n <= k
  BY <1>1, FirstNumber
<1>3. PICK l \in K : l[2] = n
  OBVIOUS
<1>4. \A k \in K : k[2] \in N
  OBVIOUS
<1> QED
  BY <1>2, <1>3, <1>4

LEMMA LastKey ==
  ASSUME NEW K, K \subseteq VolumeLocks, K # {}
  PROVE  \E l \in K : \A k \in K : k[2] <= l[2]
<1> DEFINE N == {l[2] : l \in K}
<1>1. N \subseteq Volume /\ N # {} /\ Volume \subseteq Nat /\ IsFiniteSet(Volume)
  BY LocksAssumption, ProgramsAssumption DEF LocksAssumption, ProgramsAssumption, VolumeLocks, VolumeLock
<1>2. PICK n \in N : \A k \in N : k <= n
  BY <1>1, LastNumber
<1>3. PICK l \in K : l[2] = n
  OBVIOUS
<1>4. \A k \in K : k[2] \in N
  OBVIOUS
<1> QED
  BY <1>2, <1>3, <1>4

LEMMA NextKeyWanted ==
  ASSUME NEW f \in Fiber, want[f] \subseteq VolumeLocks, want[f] # {}
  PROVE  NextKey(f) \in want[f]
<1>1. \E l \in want[f] : \A k \in want[f] : l[2] <= k[2]
  BY FirstKey
<1> QED
  BY <1>1 DEF NextKey

\* The lock a fiber gives back next.
Last(f) == CHOOSE l \in Top(f).locks : \A k \in Top(f).locks : k[2] <= l[2]

LEMMA TopFacts ==
  ASSUME LockTypes, NEW f \in Fiber, frames[f] # <<>>
  PROVE  /\ Len(frames[f]) \in Nat \ {0} /\ Len(frames[f]) \in 1..Len(frames[f])
         /\ Top(f) \in Frame /\ Top(f) = frames[f][Len(frames[f])]
<1>1. frames[f] \in Seq(Frame)
  BY DEF LockTypes
<1>2. Len(frames[f]) \in Nat \ {0} /\ Len(frames[f]) \in 1..Len(frames[f])
  BY <1>1
<1>3. frames[f][Len(frames[f])] \in Frame
  BY <1>1, <1>2, ElementOfSeq
<1> QED
  BY <1>2, <1>3 DEF Top

LEMMA LastIsTop ==
  ASSUME LockTypes, NEW f \in Fiber, StackInv(f), frames[f] # <<>>, Top(f).locks # {}
  PROVE  Last(f) \in Top(f).locks
<1>1. Top(f).locks \subseteq VolumeLocks \/ \E l \in AppLocks : Top(f).locks = {l}
  BY TopFacts DEF StackInv
<1>2. \E l \in Top(f).locks : \A k \in Top(f).locks : k[2] <= l[2]
  <2>1. CASE Top(f).locks \subseteq VolumeLocks
    BY <2>1, LastKey
  <2>2. ASSUME NEW l \in AppLocks, Top(f).locks = {l} PROVE l[2] <= l[2]
    BY LockSets, LocksAssumption DEF LocksAssumption
  <2> QED
    BY <1>1, <2>1, <2>2
<1> QED
  BY <1>2 DEF Last

-----------------------------------------------------------------------------
(* What opening and closing a phase does to a stack of phases.             *)

LEMMA Pushed ==
  ASSUME LockTypes, NEW f \in Fiber, NEW x \in Frame, Push(f, x)
  PROVE  /\ frames' \in [Fiber -> Seq(Frame)] /\ \A g \in Fiber : g # f => frames'[g] = frames[g]
         /\ Len(frames'[f]) = Len(frames[f]) + 1 /\ Len(frames[f]) \in Nat
         /\ frames'[f][Len(frames[f]) + 1] = x /\ Top(f)' = x
         /\ \A i \in 1..Len(frames[f]) : frames'[f][i] = frames[f][i]
<1>1. frames \in [Fiber -> Seq(Frame)] /\ frames[f] \in Seq(Frame)
  BY DEF LockTypes
<1>2. frames'[f] = Append(frames[f], x) /\ \A g \in Fiber : g # f => frames'[g] = frames[g]
  BY <1>1 DEF Push
<1>3. Append(frames[f], x) \in Seq(Frame)
  BY <1>1, AppendProperties
<1>4. /\ Len(frames'[f]) = Len(frames[f]) + 1 /\ Len(frames[f]) \in Nat
      /\ frames'[f][Len(frames[f]) + 1] = x
      /\ \A i \in 1..Len(frames[f]) : frames'[f][i] = frames[f][i]
  BY <1>1, <1>2, AppendProperties
<1>5. frames' \in [Fiber -> Seq(Frame)]
  BY <1>1, <1>3 DEF Push
<1>6. Top(f)' = frames'[f][Len(frames'[f])]
  BY DEF Top
<1> QED
  BY <1>2, <1>4, <1>5, <1>6

LEMMA Topped ==
  ASSUME LockTypes, NEW f \in Fiber, frames[f] # <<>>, NEW x \in Frame, WithTop(f, x)
  PROVE  /\ frames' \in [Fiber -> Seq(Frame)] /\ \A g \in Fiber : g # f => frames'[g] = frames[g]
         /\ Len(frames'[f]) = Len(frames[f]) /\ frames'[f] # <<>>
         /\ frames'[f][Len(frames[f])] = x /\ Top(f)' = x
         /\ \A i \in 1..Len(frames[f]) : i # Len(frames[f]) => frames'[f][i] = frames[f][i]
<1>1. frames \in [Fiber -> Seq(Frame)] /\ frames[f] \in Seq(Frame)
  BY DEF LockTypes
<1>2. Len(frames[f]) \in Nat \ {0} /\ Len(frames[f]) \in 1..Len(frames[f])
  BY TopFacts
<1>3. /\ frames'[f] = [frames[f] EXCEPT ![Len(frames[f])] = x]
      /\ \A g \in Fiber : g # f => frames'[g] = frames[g]
  BY <1>1 DEF WithTop
<1>4. /\ [frames[f] EXCEPT ![Len(frames[f])] = x] \in Seq(Frame)
      /\ Len([frames[f] EXCEPT ![Len(frames[f])] = x]) = Len(frames[f])
      /\ \A i \in 1..Len(frames[f]) :
           [frames[f] EXCEPT ![Len(frames[f])] = x][i] = IF i = Len(frames[f]) THEN x ELSE frames[f][i]
  BY <1>1, <1>2, ExceptSeq
<1>5. frames' \in [Fiber -> Seq(Frame)]
  BY <1>1, <1>3, <1>4 DEF WithTop
<1>6. Top(f)' = frames'[f][Len(frames'[f])]
  BY DEF Top
<1>7. frames'[f] # <<>>
  BY <1>2, <1>3, <1>4
<1> QED
  BY <1>2, <1>3, <1>4, <1>5, <1>6, <1>7

LEMMA Popped ==
  ASSUME LockTypes, NEW f \in Fiber, Pop(f)
  PROVE  /\ frames' \in [Fiber -> Seq(Frame)] /\ \A g \in Fiber : g # f => frames'[g] = frames[g]
         /\ Len(frames[f]) \in Nat /\ Len(frames'[f]) \in Nat
         /\ frames[f] # <<>> => Len(frames'[f]) = Len(frames[f]) - 1
         /\ frames[f] = <<>> => frames'[f] = <<>>
         /\ \A i \in 1..Len(frames'[f]) : i \in 1..Len(frames[f]) /\ frames'[f][i] = frames[f][i]
         /\ \A i \in 1..Len(frames[f]) : i # Len(frames[f]) => i \in 1..Len(frames'[f])
<1>1. frames \in [Fiber -> Seq(Frame)] /\ frames[f] \in Seq(Frame) /\ Len(frames[f]) \in Nat
  BY DEF LockTypes
<1> DEFINE n == Len(frames[f])
<1>2. /\ frames'[f] = SubSeq(frames[f], 1, n - 1)
      /\ \A g \in Fiber : g # f => frames'[g] = frames[g]
  BY <1>1 DEF Pop
<1>3. \A i \in 1..(n - 1) : frames[f][i] \in Frame
  BY <1>1, ElementOfSeq
<1>4. /\ SubSeq(frames[f], 1, n - 1) \in Seq(Frame)
      /\ Len(SubSeq(frames[f], 1, n - 1)) = IF 1 <= n - 1 THEN n - 1 - 1 + 1 ELSE 0
      /\ \A i \in 1..(n - 1 - 1 + 1) : SubSeq(frames[f], 1, n - 1)[i] = frames[f][1 + i - 1]
  BY <1>1, <1>3, SubSeqProperties
<1>5. frames' \in [Fiber -> Seq(Frame)]
  BY <1>1, <1>4 DEF Pop
<1>6. frames[f] # <<>> => n > 0
  BY <1>1
<1>7. frames[f] = <<>> => frames'[f] = <<>>
  BY <1>1, <1>2, <1>4
<1>8. Len(frames'[f]) = IF n > 0 THEN n - 1 ELSE 0
  BY <1>1, <1>2, <1>4
<1>9. \A i \in 1..(n - 1) : frames'[f][i] = frames[f][i]
  BY <1>1, <1>2, <1>4
<1>10. /\ \A i \in 1..Len(frames'[f]) : i \in 1..Len(frames[f]) /\ i \in 1..(n - 1)
       /\ \A i \in 1..Len(frames[f]) : i # Len(frames[f]) => i \in 1..Len(frames'[f])
  <2> HIDE DEF n
  <2> QED
    BY <1>1, <1>8 DEF n
<1>11. Len(frames'[f]) \in Nat
  BY <1>1, <1>8
<1> HIDE DEF n
<1> QED
  BY <1>1, <1>2, <1>5, <1>6, <1>7, <1>8, <1>9, <1>10, <1>11 DEF n

LEMMA AroundIs ==
  ASSUME frames \in [Fiber -> Seq(Frame)], (frames \in [Fiber -> Seq(Frame)])', NEW f \in Fiber
  PROVE  /\ \A l : l \in Around(f) <=> \E i \in 1..Len(frames[f]) :
              (pc[f] \in Opening => i < Len(frames[f])) /\ l \in frames[f][i].keys
         /\ \A l : l \in Around(f)' <=> \E i \in 1..Len(frames'[f]) :
              (pc'[f] \in Opening => i < Len(frames'[f])) /\ l \in frames'[f][i].keys
         /\ \A l : l \in Held(f) <=> \E i \in 1..Len(frames[f]) : l \in frames[f][i].keys
         /\ \A l : l \in Held(f)' <=> \E i \in 1..Len(frames'[f]) : l \in frames'[f][i].keys
<1>1. DOMAIN frames[f] = 1..Len(frames[f]) /\ DOMAIN frames'[f] = 1..Len(frames'[f])
  OBVIOUS
<1>2. \A l : l \in Around(f) <=> \E i \in 1..Len(frames[f]) :
              (pc[f] \in Opening => i < Len(frames[f])) /\ l \in frames[f][i].keys
  BY <1>1 DEF Around, Opening
<1>3. \A l : l \in Around(f)' <=> \E i \in 1..Len(frames'[f]) :
              (pc'[f] \in Opening => i < Len(frames'[f])) /\ l \in frames'[f][i].keys
  BY <1>1 DEF Around, Opening
<1>4. \A l : l \in Held(f) <=> \E i \in 1..Len(frames[f]) : l \in frames[f][i].keys
  BY <1>1 DEF Held
<1>5. \A l : l \in Held(f)' <=> \E i \in 1..Len(frames'[f]) : l \in frames'[f][i].keys
  BY <1>1 DEF Held
<1> QED
  BY <1>2, <1>3, <1>4, <1>5

\* The key a fiber asks for next depends on its wanted keys only.
FirstOf(K) == CHOOSE l \in K : \A k \in K : l[2] <= k[2]
AnyOf(K) == CHOOSE l \in K : TRUE

LEMMA SameWish ==
  ASSUME NEW f, want'[f] = want[f]
  PROVE  NextKey(f)' = NextKey(f) /\ Wanted(f)' = Wanted(f)
<1>1. NextKey(f) = FirstOf(want[f]) /\ NextKey(f)' = FirstOf(want'[f])
  BY DEF NextKey, FirstOf
<1>2. Wanted(f) = AnyOf(want[f]) /\ Wanted(f)' = AnyOf(want'[f])
  BY DEF Wanted, AnyOf
<1> QED
  BY <1>1, <1>2

\* What a step of one fiber may not do to another fiber g.
Spares(g) ==
  /\ frames'[g] = frames[g] /\ pc'[g] = pc[g] /\ want'[g] = want[g] /\ todo'[g] = todo[g]
  /\ \A l \in Lock : owner'[l] = g => owner[l] = g
  /\ \A l \in Lock : owner[l] = g /\ Alive(g) => owner'[l] = g \/ <<g, l>> \in expired'
  /\ \A l \in VolumeLocks : permit[ProcOf[g]][l] = g => permit'[ProcOf[g]][l] = g

LEMMA SparedKept ==
  ASSUME LockTypes, LockTypes', NEW g \in Fiber, StackInv(g), Covered(g), StepInv(g),
         Spares(g), expired \subseteq expired', UNCHANGED state
  PROVE  StackInv(g)' /\ Covered(g)' /\ StepInv(g)'
<1>1. frames'[g] = frames[g] /\ pc'[g] = pc[g] /\ want'[g] = want[g] /\ todo'[g] = todo[g] /\ dead' = dead
  BY DEF Spares, state
<1>2. Alive(g)' = Alive(g)
  BY <1>1 DEF Alive
<1>3. ~Alive(g) => frames[g] = <<>>
  BY DEF StepInv, Idle
<1>4. \A i \in 1..Len(frames[g]) : Alive(g)
  <2> SUFFICES ASSUME ~Alive(g), NEW i \in 1..Len(frames[g]) PROVE FALSE
    OBVIOUS
  <2>1. Len(frames[g]) = 0
    BY <1>3
  <2> QED
    BY <2>1
<1>5. \A i \in 1..Len(frames[g]) : frames[g][i].locks \subseteq Lock
  <2>1. \A i \in 1..Len(frames[g]) : frames[g][i] \in Frame
    BY ElementOfSeq DEF LockTypes
  <2> QED
    BY <2>1 DEF Frame
<1>6. StackInv(g)'
  <2>1. ASSUME NEW i \in 1..Len(frames[g]), NEW l \in frames[g][i].locks
        PROVE  /\ owner'[l] = g \/ <<g, l>> \in expired'
               /\ l \in VolumeLocks => permit'[ProcOf[g]][l] = g
    BY <1>4, <1>5, <2>1 DEF StackInv, Spares
  <2>2. ASSUME NEW l \in Lock, owner'[l] = g, Alive(g)
        PROVE \E i \in 1..Len(frames[g]) : l \in frames[g][i].locks
    BY <2>2 DEF StackInv, Spares
  <2> QED
    BY <1>1, <1>2, <2>1, <2>2 DEF StackInv
<1>7. Covered(g)'
  BY <1>1 DEF Covered
<1>8. Around(g)' = Around(g) /\ Held(g)' = Held(g) /\ Top(g)' = Top(g)
  BY <1>1 DEF Around, Held, Top
<1>9. StepInv(g)'
  <2>1. drifted' = drifted /\ root' = root
    BY DEF state
  <2>2. NextKey(g)' = NextKey(g)
    BY <1>1, SameWish
  <2>3. /\ pc'[g] = "file" => permit'[ProcOf[g]][NextKey(g)] = g
    <3>1. ASSUME pc[g] = "file" PROVE NextKey(g) \in VolumeLocks
      <4>1. want[g] # {} /\ want[g] \subseteq VolumeLocks
        BY <3>1 DEF StepInv
      <4> QED
        BY <4>1, NextKeyWanted
    <3> QED
      BY <1>1, <3>1 DEF StepInv, Spares
  <2> QED
    BY <1>1, <1>2, <1>8, <2>1, <2>2, <2>3 DEF StepInv, Rooted
<1> QED
  BY <1>6, <1>7, <1>9

-----------------------------------------------------------------------------
(* What a step leaves alone.                                               *)

OnlyOf(f) ==
  \A g \in Fiber \ {f} :
    frames'[g] = frames[g] /\ pc'[g] = pc[g] /\ want'[g] = want[g] /\ todo'[g] = todo[g]

LEMMA ParentIsAnother ==
  ASSUME NEW f \in Fiber, ParentOf[f] # Nobody
  PROVE  /\ ParentOf[f] \in Fiber /\ ParentOf[f] # f
         /\ \A g \in Fiber : g # f => ProcOf[g] # ProcOf[f]
BY LocksAssumption, ProgramsAssumption DEF LocksAssumption, ProgramsAssumption

LEMMA AwaitedKept ==
  ASSUME LocksInv, NEW f \in Fiber, NEW g \in Fiber, OnlyOf(f), UNCHANGED state,
         ~Runs(f, "launched"), ~Runs(f, "launched")', pc[f] \notin Idle, NotBehindParent(f)',
         \A l \in Lock : \A h \in Fiber : h # f /\ owner'[l] = h => owner[l] = h,
         overlapped => overlapped',
         \A l \in AppLocks : \A h \in Fiber : h \notin {f, g} /\ ~overlapped' /\ owner'[l] = h
           /\ <<l, h>> \in env[ProcOf[g]] => <<l, h>> \in env'[ProcOf[g]]
  PROVE  Awaited(g)'
<1> DEFINE p == ParentOf[g]
<1> SUFFICES ASSUME p # Nobody, Alive(p)'
             PROVE  /\ pc'[g] \notin Idle => Launched(g)'
                    /\ Launched(g)' /\ pc'[g] \notin {"done", "dead"} /\ ~overlapped' =>
                         \A l \in AppLocks : owner'[l] = p => <<l, p>> \in env'[ProcOf[g]]
                    /\ NotBehindParent(g)'
  BY DEF Awaited
<1>1. p \in Fiber /\ p # g
  BY ParentIsAnother
<1>2. Alive(p) /\ Awaited(g)
  BY <1>1 DEF Alive, state, LocksInv
<1>3. CASE p = f
  <2>1. ~Launched(g) /\ ~Launched(g)'
    BY <1>3 DEF Launched, Runs
  <2>2. pc[g] \in Idle
    BY <1>2, <2>1 DEF Awaited
  <2>3. pc'[g] = pc[g]
    BY <1>1, <1>3 DEF OnlyOf
  <2> QED
    BY <2>1, <2>2, <2>3 DEF Idle, NotBehindParent
<1>4. CASE p # f
  <2>1. pc'[p] = pc[p] /\ todo'[p] = todo[p]
    BY <1>1, <1>4 DEF OnlyOf
  <2>2. Launched(g)' <=> Launched(g)
    BY <2>1 DEF Launched, Runs
  <2>3. (pc'[g] \notin Idle => pc[g] \notin Idle) /\ (pc'[g] \notin {"done", "dead"} => pc[g] \notin {"done", "dead"})
    BY DEF OnlyOf, Idle
  <2>4. pc'[g] \notin Idle => Launched(g)'
    BY <1>2, <2>2, <2>3 DEF Awaited
  <2>5. ASSUME Launched(g)', pc'[g] \notin {"done", "dead"}, ~overlapped', NEW l \in AppLocks, owner'[l] = p
        PROVE  <<l, p>> \in env'[ProcOf[g]]
    <3>1. owner[l] = p /\ ~overlapped
      BY <1>1, <1>4, <2>5 DEF Lock
    <3>2. <<l, p>> \in env[ProcOf[g]]
      BY <1>2, <2>2, <2>3, <2>5, <3>1 DEF Awaited
    <3> QED
      BY <1>1, <1>4, <2>5, <3>2
  <2>6. ASSUME g # f, pc'[g] = "wait", TokensTell' PROVE owner'[Wanted(g)'] # p
    <3>1. pc[g] = "wait" /\ want'[g] = want[g]
      BY <2>6 DEF OnlyOf
    <3>2. Wanted(g)' = Wanted(g)
      BY <3>1, SameWish
    <3>3. Wanted(g) \in Lock
      <4>1. PICK l \in AppLocks : want[g] = {l}
        BY <3>1 DEF LocksInv, StepInv
      <4> QED
        BY <4>1 DEF Wanted, Lock
    <3>4. owner[Wanted(g)] # p
      BY <1>2, <2>6, <3>1 DEF Awaited, NotBehindParent, TokensTell
    <3> QED
      BY <1>1, <1>4, <3>2, <3>3, <3>4
  <2>7. NotBehindParent(g)'
    BY <2>6 DEF NotBehindParent
  <2> QED
    BY <2>4, <2>5, <2>7
<1> QED
  BY <1>3, <1>4

LEMMA Quiet ==
  ASSUME LocksInv, LockTypes', NEW f \in Fiber, OnlyOf(f),
         UNCHANGED <<owner, env, overlapped, expired, state>>,
         \A g \in Fiber \ {f} : \A l \in VolumeLocks :
           permit[ProcOf[g]][l] = g => permit'[ProcOf[g]][l] = g,
         ~Runs(f, "launched"), ~Runs(f, "launched")', pc[f] \notin Idle, NotBehindParent(f)',
         StackInv(f)', Covered(f)', StepInv(f)'
  PROVE  LocksInv'
<1>1. UNCHANGED state
  BY DEF state
<1>2. ASSUME NEW g \in Fiber \ {f} PROVE StackInv(g)' /\ Covered(g)' /\ StepInv(g)'
  <2>1. Spares(g)
    BY DEF Spares, OnlyOf
  <2> QED
    BY <1>1, <2>1, SparedKept DEF LocksInv
<1>3. ASSUME NEW g \in Fiber PROVE Awaited(g)'
  BY <1>1, AwaitedKept
<1>4. ASSUME NEW g \in Fiber PROVE EnvTells(g)'
  <2>1. EnvTells(g)
    BY DEF LocksInv
  <2>2. Alive(g)' <=> Alive(g)
    BY DEF Alive, state
  <2> QED
    BY <2>1, <2>2 DEF EnvTells
<1> QED
  BY <1>2, <1>3, <1>4 DEF LocksInv

\* A fiber that goes on with its program never finds a launched hook at its head.
LEMMA Advanced ==
  ASSUME LockTypes, NEW f \in Fiber, todo[f] # <<>>, Advance(f)
  PROVE  /\ todo' \in [Fiber -> Seq(Works)]
         /\ \A g \in Fiber : todo'[g] # <<>> =>
              Head(todo'[g]) \in Work(g) /\ Tail(todo'[g]) \in Seq(Instruction(g))
         /\ ~Runs(f, "launched")' /\ (todo'[f] = <<>> \/ Head(todo'[f]).do # "launched")
         /\ \A g \in Fiber : g # f => todo'[g] = todo[g]
<1>1. todo \in [Fiber -> Seq(Works)]
  BY DEF LockTypes
<1>2. todo'[f] = Tail(todo[f]) /\ \A g \in Fiber : g # f => todo'[g] = todo[g]
  BY <1>1 DEF Advance
<1>3. todo' \in [Fiber -> Seq(Works)]
  BY <1>1, WorkFacts DEF Advance
<1>4. ~Runs(f, "launched")' /\ (todo'[f] = <<>> \/ Head(todo'[f]).do # "launched")
  BY <1>2, WorkFacts DEF Runs
<1>5. \A g \in Fiber : todo'[g] # <<>> =>
              Head(todo'[g]) \in Work(g) /\ Tail(todo'[g]) \in Seq(Instruction(g))
  BY <1>2, WorkFacts DEF LockTypes
<1> QED
  BY <1>2, <1>3, <1>4, <1>5

\* What a fiber's own phases need when no lock changes hands.
LEMMA StackSame ==
  ASSUME NEW f \in Fiber, StackInv(f), frames'[f] = frames[f], UNCHANGED <<owner, expired, dead>>,
         \A i \in 1..Len(frames[f]) : \A l \in frames[f][i].locks \cap VolumeLocks : permit'[ProcOf[f]][l] = f
  PROVE  StackInv(f)'
<1>1. Alive(f)' <=> Alive(f)
  BY DEF Alive
<1> QED
  BY <1>1 DEF StackInv

LEMMA StackPushed ==
  ASSUME LockTypes, NEW f \in Fiber, StackInv(f), UNCHANGED <<owner, expired, dead, permit>>,
         NEW x \in Frame, Push(f, x), x.locks = {}
  PROVE  StackInv(f)'
<1> DEFINE n == Len(frames[f])
<1>1. /\ n \in Nat /\ Len(frames'[f]) = n + 1 /\ frames'[f][n + 1] = x
      /\ \A i \in 1..n : frames'[f][i] = frames[f][i]
  BY Pushed
<1>2. Alive(f)' <=> Alive(f)
  BY DEF Alive
<1> HIDE DEF n
<1>3. \A i \in 1..Len(frames'[f]) : i \in 1..n \/ i = n + 1
  BY <1>1
<1>4. \A i \in 1..n : i \in 1..Len(frames'[f])
  BY <1>1
<1>5. ASSUME NEW i \in 1..Len(frames'[f])
      PROVE  /\ frames'[f][i].locks \subseteq frames'[f][i].keys
             /\ frames'[f][i].locks \subseteq VolumeLocks \/ \E l \in AppLocks : frames'[f][i].locks = {l}
             /\ \A k \in 1..Len(frames'[f]) : k # i => frames'[f][i].locks \cap frames'[f][k].locks = {}
             /\ \A l \in frames'[f][i].locks :
                  /\ owner'[l] = f \/ <<f, l>> \in expired'
                  /\ l \in VolumeLocks => permit'[ProcOf[f]][l] = f
  <2>1. CASE i = n + 1
    BY <1>1, <2>1
  <2>2. CASE i \in 1..n
    <3>1. frames'[f][i] = frames[f][i]
      BY <1>1, <2>2
    <3>2. \A k \in 1..n : k # i => frames[f][i].locks \cap frames[f][k].locks = {}
      BY <2>2 DEF StackInv, n
    <3>3. \A k \in 1..Len(frames'[f]) : k # i => frames'[f][i].locks \cap frames'[f][k].locks = {}
      BY <1>1, <1>3, <3>1, <3>2
    <3>4. /\ frames[f][i].locks \subseteq frames[f][i].keys
          /\ frames[f][i].locks \subseteq VolumeLocks \/ \E l \in AppLocks : frames[f][i].locks = {l}
          /\ \A l \in frames[f][i].locks :
               /\ owner[l] = f \/ <<f, l>> \in expired
               /\ l \in VolumeLocks => permit[ProcOf[f]][l] = f
      BY <2>2 DEF StackInv, n
    <3> QED
      BY <3>1, <3>3, <3>4
  <2> QED
    BY <1>3, <2>1, <2>2
<1>6. ASSUME NEW l \in Lock, owner'[l] = f, Alive(f)'
      PROVE  \E i \in 1..Len(frames'[f]) : l \in frames'[f][i].locks
  BY <1>1, <1>2, <1>4, <1>6 DEF StackInv, n
<1> QED
  BY <1>5, <1>6 DEF StackInv

LEMMA StackPopped ==
  ASSUME LockTypes, NEW f \in Fiber, StackInv(f), UNCHANGED <<owner, expired, dead, permit>>,
         Pop(f), frames[f] # <<>> => Top(f).locks = {}
  PROVE  StackInv(f)'
<1> DEFINE n == Len(frames[f])
<1>1. /\ \A i \in 1..Len(frames'[f]) : i \in 1..n /\ frames'[f][i] = frames[f][i]
      /\ \A i \in 1..n : i # n => i \in 1..Len(frames'[f])
  BY Popped
<1>2. Alive(f)' <=> Alive(f)
  BY DEF Alive
<1>3. \A i \in 1..n : i = n => frames[f][i].locks = {}
  <2>1. frames[f] = <<>> => n = 0
    OBVIOUS
  <2> QED
    BY <2>1 DEF Top
<1> HIDE DEF n
<1>4. ASSUME NEW l \in Lock, owner'[l] = f, Alive(f)'
      PROVE  \E i \in 1..Len(frames'[f]) : l \in frames'[f][i].locks
  <2>1. PICK i \in 1..n : l \in frames[f][i].locks
    BY <1>2, <1>4 DEF StackInv, n
  <2>2. i # n
    BY <1>3, <2>1
  <2> QED
    BY <1>1, <2>1, <2>2
<1> QED
  BY <1>1, <1>4 DEF StackInv, n

LEMMA CoveredSame ==
  ASSUME NEW f \in Fiber, Covered(f), frames'[f] = frames[f], pc'[f] \in Opening \/ pc[f] \notin Opening
  PROVE  Covered(f)'
BY DEF Covered

LEMMA CoveredPushed ==
  ASSUME LockTypes, NEW f \in Fiber, Covered(f), NEW x \in Frame, Push(f, x), pc[f] \notin Opening,
         pc'[f] \notin Opening => \A l \in x.keys :
           l \in x.locks \/ \E k \in 1..Len(frames[f]) : l \in frames[f][k].locks
  PROVE  Covered(f)'
<1> DEFINE n == Len(frames[f])
<1>1. /\ n \in Nat /\ Len(frames'[f]) = n + 1 /\ frames'[f][n + 1] = x
      /\ \A i \in 1..n : frames'[f][i] = frames[f][i]
  BY Pushed
<1> HIDE DEF n
<1>2. ASSUME NEW i \in 1..n, NEW l \in frames'[f][i].keys PROVE \E k \in 1..i : l \in frames'[f][k].locks
  <2>1. PICK k \in 1..i : l \in frames[f][k].locks
    BY <1>1, <1>2 DEF Covered, n
  <2>2. k \in 1..n
    BY <1>1
  <2> QED
    BY <1>1, <2>1, <2>2
<1>3. ASSUME pc'[f] \notin Opening, NEW l \in x.keys PROVE \E k \in 1..(n + 1) : l \in frames'[f][k].locks
  <2>1. \A k \in 1..n : k \in 1..(n + 1)
    BY <1>1
  <2>2. n + 1 \in 1..(n + 1)
    BY <1>1
  <2> QED
    BY <1>1, <1>3, <2>1, <2>2 DEF n
<1>4. \A i \in 1..(n + 1) : i \in 1..n \/ (i = n + 1 /\ ~(i < n + 1))
  BY <1>1
<1> QED
  BY <1>1, <1>2, <1>3, <1>4 DEF Covered

LEMMA CoveredPopped ==
  ASSUME LockTypes, NEW f \in Fiber, Covered(f), Pop(f)
  PROVE  Covered(f)'
<1> DEFINE n == Len(frames[f])
<1>1. /\ Len(frames'[f]) \in Nat /\ n \in Nat
      /\ frames[f] # <<>> => Len(frames'[f]) = n - 1
      /\ frames[f] = <<>> => frames'[f] = <<>>
      /\ \A i \in 1..Len(frames'[f]) : i \in 1..n /\ frames'[f][i] = frames[f][i]
  BY Popped
<1> HIDE DEF n
<1>2. \A i \in 1..Len(frames'[f]) : i < n /\ i \in 1..n
  BY <1>1
<1>3. ASSUME NEW i \in 1..Len(frames'[f]), NEW l \in frames'[f][i].keys
      PROVE  \E k \in 1..i : l \in frames'[f][k].locks
  <2>1. PICK k \in 1..i : l \in frames[f][k].locks
    BY <1>1, <1>2, <1>3 DEF Covered, n
  <2>2. k \in 1..Len(frames'[f])
    BY <1>1
  <2> QED
    BY <1>1, <2>1, <2>2
<1> QED
  BY <1>3 DEF Covered

-----------------------------------------------------------------------------
(* Steps that move a fiber along and change no lock.                       *)

LEMMA RootedSame ==
  ASSUME LockTypes, NEW f \in Fiber, Rooted(f), frames' = frames, UNCHANGED state,
         pc'[f] \in Opening \/ pc[f] \notin Opening
  PROVE  Rooted(f)'
<1>1. frames \in [Fiber -> Seq(Frame)] /\ frames' \in [Fiber -> Seq(Frame)]
  BY DEF LockTypes
<1>2. Around(f)' \subseteq Around(f)
  BY <1>1, AroundIs
<1> QED
  BY <1>2 DEF Rooted, state

LEMMA RootedPopped ==
  ASSUME LockTypes, NEW f \in Fiber, Rooted(f), Pop(f), UNCHANGED state
  PROVE  Rooted(f)'
<1>1. frames \in [Fiber -> Seq(Frame)] /\ frames' \in [Fiber -> Seq(Frame)]
  BY Popped DEF LockTypes
<1>2. \A i \in 1..Len(frames'[f]) : i \in 1..Len(frames[f]) /\ frames'[f][i] = frames[f][i] /\ i < Len(frames[f])
  BY Popped
<1>3. Around(f)' \subseteq Around(f)
  BY <1>1, <1>2, AroundIs
<1> QED
  BY <1>3 DEF Rooted, state

LEMMA RootedPushed ==
  ASSUME LockTypes, NEW f \in Fiber, Rooted(f), NEW x \in Frame, Push(f, x), UNCHANGED state,
         pc[f] \notin Opening,
         pc'[f] \notin Opening => x.keys \cap AppLocks \subseteq Around(f)
  PROVE  Rooted(f)'
<1> DEFINE n == Len(frames[f])
<1>1. /\ n \in Nat /\ Len(frames'[f]) = n + 1 /\ frames'[f][n + 1] = x
      /\ \A i \in 1..n : frames'[f][i] = frames[f][i]
  BY Pushed
<1>2. frames \in [Fiber -> Seq(Frame)] /\ frames' \in [Fiber -> Seq(Frame)]
  BY Pushed DEF LockTypes
<1>3. \A i \in 1..(n + 1) : i \in 1..n \/ (i = n + 1 /\ ~(i < n + 1))
  BY <1>1
<1> HIDE DEF n
<1>4. ASSUME NEW l \in Around(f)' \cap AppLocks PROVE l \in Around(f)
  <2>1. PICK i \in 1..(n + 1) : (pc'[f] \in Opening => i < n + 1) /\ l \in frames'[f][i].keys
    BY <1>1, <1>2, <1>4, AroundIs
  <2>2. CASE i \in 1..n
    BY <1>1, <1>2, <2>1, <2>2, AroundIs DEF n
  <2>3. CASE i = n + 1 /\ ~(i < n + 1)
    BY <1>1, <1>4, <2>1, <2>3
  <2> QED
    BY <1>3, <2>2, <2>3
<1> QED
  BY <1>4 DEF Rooted, state

LEMMA Where ==
  ASSUME LocksInv, NEW f \in Fiber
  PROVE  LockTypes /\ StackInv(f) /\ Covered(f) /\ StepInv(f) /\ Rooted(f)
BY DEF LocksInv, StepInv

LEMMA PermitsOfAll ==
  ASSUME LocksInv, NEW f \in Fiber, permit' = permit
  PROVE  /\ permit' \in [Proc -> [VolumeLocks -> Fiber \cup {Nobody}]]
         /\ \A i \in 1..Len(frames[f]) : \A l \in frames[f][i].locks \cap VolumeLocks : permit'[ProcOf[f]][l] = f
         /\ \A g \in Fiber \ {f} : \A l \in VolumeLocks :
              permit[ProcOf[g]][l] = g => permit'[ProcOf[g]][l] = g
BY DEF LocksInv, LockTypes, StackInv

\* A fiber that gives up what it was doing and unwinds, its phases still open.
LEMMA Unwinds ==
  ASSUME LocksInv, NEW f \in Fiber,
         UNCHANGED <<owner, env, todo, frames, expired, overlapped, state>>,
         pc[f] \notin Idle, ~Runs(f, "launched"), Goto(f, "unwind"),
         want' = want \/ want' = [want EXCEPT ![f] = {}],
         permit' \in [Proc -> [VolumeLocks -> Fiber \cup {Nobody}]],
         \A i \in 1..Len(frames[f]) : \A l \in frames[f][i].locks \cap VolumeLocks : permit'[ProcOf[f]][l] = f,
         \A g \in Fiber \ {f} : \A l \in VolumeLocks :
           permit[ProcOf[g]][l] = g => permit'[ProcOf[g]][l] = g
  PROVE  LocksInv'
<1>1. LockTypes /\ StackInv(f) /\ Covered(f) /\ StepInv(f) /\ Rooted(f)
  BY Where
<1>2. pc' = [pc EXCEPT ![f] = "unwind"] /\ pc \in [Fiber -> Steps] /\ want \in [Fiber -> SUBSET Lock]
  BY <1>1 DEF LockTypes, Goto
<1>3. pc'[f] = "unwind" /\ \A g \in Fiber : g # f => pc'[g] = pc[g] /\ want'[g] = want[g]
  BY <1>2
<1>4. LockTypes'
  <2>1. pc' \in [Fiber -> Steps] /\ want' \in [Fiber -> SUBSET Lock]
    BY <1>2 DEF Steps
  <2> QED
    BY <1>1, <2>1 DEF LockTypes, state
<1>5. OnlyOf(f) /\ ~Runs(f, "launched")'
  BY <1>3 DEF OnlyOf, Runs
<1>6. StackInv(f)'
  BY <1>1, StackSame DEF state
<1>7. pc'[f] \in Opening
  BY <1>3 DEF Opening
<1>8. Covered(f)' /\ Rooted(f)'
  BY <1>1, <1>7, CoveredSame, RootedSame
<1>9. StepInv(f)'
  BY <1>1, <1>3, <1>8 DEF StepInv, Idle, Alive, state
<1>10. NotBehindParent(f)'
  BY <1>3 DEF NotBehindParent
<1> QED
  BY <1>4, <1>5, <1>6, <1>8, <1>9, <1>10, Quiet

\* A fiber that gets on with its program, its phases still open and those that open covered.
LEMMA GoesOn ==
  ASSUME LocksInv, NEW f \in Fiber,
         UNCHANGED <<owner, permit, env, want, frames, expired, overlapped, state>>,
         pc[f] \notin Idle, ~Runs(f, "launched"), todo[f] # <<>>, Advance(f), Goto(f, "run"),
         Covered(f)', Rooted(f)'
  PROVE  LocksInv'
<1>1. LockTypes /\ StackInv(f) /\ Covered(f) /\ StepInv(f) /\ Rooted(f)
  BY Where
<1>2. pc' = [pc EXCEPT ![f] = "run"] /\ pc \in [Fiber -> Steps]
  BY <1>1 DEF LockTypes, Goto
<1>3. pc'[f] = "run" /\ \A g \in Fiber : g # f => pc'[g] = pc[g]
  BY <1>2
<1>4. LockTypes'
  <2>1. pc' \in [Fiber -> Steps]
    BY <1>2 DEF Steps
  <2>2. /\ todo' \in [Fiber -> Seq(Works)]
        /\ \A g \in Fiber : todo'[g] # <<>> =>
              Head(todo'[g]) \in Work(g) /\ Tail(todo'[g]) \in Seq(Instruction(g))
    BY <1>1, Advanced
  <2> QED
    BY <1>1, <2>1, <2>2 DEF LockTypes, state
<1>5. OnlyOf(f) /\ ~Runs(f, "launched")'
  BY <1>1, <1>3, Advanced DEF OnlyOf
<1>6. StackInv(f)'
  BY <1>1, PermitsOfAll, StackSame DEF state
<1>7. StepInv(f)'
  BY <1>1, <1>3 DEF StepInv, Idle, Alive, state
<1>8. NotBehindParent(f)'
  BY <1>3 DEF NotBehindParent
<1> QED
  BY <1>4, <1>5, <1>6, <1>7, <1>8, Quiet

LEMMA CoordinatorKeeps ==
  ASSUME LocksInv, NEW f \in Fiber, EnterCoordinator(f)
  PROVE  LocksInv'
<1>1. LockTypes /\ StackInv(f) /\ Covered(f) /\ StepInv(f) /\ Rooted(f)
  BY Where
<1>2. pc[f] = "run" /\ todo[f] # <<>> /\ ~Runs(f, "launched") /\ pc[f] \notin Idle /\ pc[f] \notin Opening
  BY DEF EnterCoordinator, Runs, Idle, Opening
<1>3. UNCHANGED <<owner, permit, env, frames, want, expired, overlapped, state>>
  BY DEF EnterCoordinator
<1>4. CASE Goto(f, "unwind") /\ todo' = todo
  BY <1>2, <1>3, <1>4, PermitsOfAll, Unwinds
<1>5. CASE Advance(f) /\ pc' = pc
  <2>1. Goto(f, "run")
    BY <1>1, <1>2, <1>5 DEF Goto, LockTypes
  <2>2. Covered(f)' /\ Rooted(f)'
    BY <1>1, <1>2, <1>3, CoveredSame, RootedSame
  <2> QED
    BY <1>2, <1>3, <1>5, <2>1, <2>2, GoesOn
<1> QED
  BY <1>4, <1>5 DEF EnterCoordinator

LEMMA AppTimeoutKeeps ==
  ASSUME LocksInv, NEW f \in Fiber, AppTimeout(f)
  PROVE  LocksInv'
<1>1. /\ pc[f] = "wait" /\ pc[f] \notin Idle /\ ~Runs(f, "launched") /\ Goto(f, "unwind")
      /\ want' = [want EXCEPT ![f] = {}] /\ permit' = permit
      /\ UNCHANGED <<owner, env, todo, frames, expired, overlapped, state>>
  BY DEF AppTimeout, Idle, Runs
<1> QED
  BY <1>1, PermitsOfAll, Unwinds

LEMMA FailKeeps ==
  ASSUME LocksInv, NEW f \in Fiber, Fail(f)
  PROVE  LocksInv'
<1>1. /\ pc[f] = "run" /\ pc[f] \notin Idle /\ ~Runs(f, "launched") /\ Goto(f, "unwind")
      /\ want' = want /\ permit' = permit
      /\ UNCHANGED <<owner, env, todo, frames, expired, overlapped, state>>
  BY DEF Fail, Idle, Runs
<1> QED
  BY <1>1, PermitsOfAll, Unwinds

LEMMA RecheckKeeps ==
  ASSUME LocksInv, NEW f \in Fiber, Recheck(f)
  PROVE  LocksInv'
<1>1. LockTypes /\ StackInv(f) /\ Covered(f) /\ StepInv(f) /\ Rooted(f)
  BY Where
<1>2. pc[f] = "check" /\ todo[f] # <<>> /\ ~Runs(f, "launched") /\ pc[f] \notin Idle
  BY <1>1 DEF Recheck, Runs, Idle, StepInv
<1>3. UNCHANGED <<owner, permit, env, frames, want, expired, overlapped, state>>
  BY DEF Recheck
<1>4. CASE Goto(f, "unwind") /\ todo' = todo
  BY <1>2, <1>3, <1>4, PermitsOfAll, Unwinds
<1>5. CASE SameIdentity(f) /\ Goto(f, "run") /\ Advance(f)
  <2> DEFINE n == Len(frames[f])
  <2>1. frames[f] # <<>> /\ Top(f).keys = Top(f).locks
    BY <1>1, <1>2 DEF StepInv
  <2>2. n \in 1..n /\ n \in Nat /\ Top(f) = frames[f][n]
    BY <1>1, <2>1, TopFacts
  <2>3. PICK l \in AppLocks : Top(f).keys = {l}
    BY <1>1, <1>2 DEF StepInv
  <2>4. l = appMutationLockKey(Head(todo[f]).app)
    BY <1>5, <2>3 DEF SameIdentity
  <2>5. l[2] = root[l[1]]
    BY <2>4 DEF appMutationLockKey
  <2>6. pc[f] \in Opening /\ \A i \in 1..n : i = n \/ i < n
    BY <1>2, <2>2 DEF Opening
  <2>7. Covered(f)'
    <3>1. ASSUME NEW i \in 1..n, NEW k \in frames[f][i].keys PROVE \E j \in 1..i : k \in frames[f][j].locks
      <4>1. CASE i = n
        BY <2>1, <2>2, <3>1, <4>1
      <4>2. CASE i < n
        BY <1>1, <3>1, <4>2 DEF Covered
      <4> QED
        BY <2>6, <4>1, <4>2
    <3> QED
      BY <1>3, <3>1 DEF Covered
  <2>8. Rooted(f)'
    <3>1. frames \in [Fiber -> Seq(Frame)] /\ frames' \in [Fiber -> Seq(Frame)]
      BY <1>1, <1>3 DEF LockTypes
    <3>2. ASSUME NEW k \in Around(f)' PROVE k \in Around(f) \/ k = l
      <4>1. PICK i \in 1..n : k \in frames[f][i].keys
        BY <1>3, <3>1, <3>2, AroundIs
      <4>2. CASE i = n
        BY <2>2, <2>3, <4>1, <4>2
      <4>3. CASE i < n
        BY <3>1, <4>1, <4>3, AroundIs
      <4> QED
        BY <2>6, <4>2, <4>3
    <3> QED
      BY <1>1, <1>3, <2>5, <3>2 DEF Rooted, state
  <2> QED
    BY <1>2, <1>3, <1>5, <2>7, <2>8, GoesOn
<1> QED
  BY <1>4, <1>5 DEF Recheck

LEMMA BorrowKeeps ==
  ASSUME LocksInv, NEW f \in Fiber, borrowedMutationOwner(f)
  PROVE  LocksInv'
<1>1. LockTypes /\ StackInv(f) /\ Covered(f) /\ StepInv(f) /\ Rooted(f)
  BY Where
<1>2. /\ pc[f] = "peek" /\ pc[f] \notin Idle /\ ~Runs(f, "launched")
      /\ UNCHANGED <<owner, permit, env, todo, frames, expired, overlapped, state>>
  BY DEF borrowedMutationOwner, Idle, Runs
<1>3. CASE Goto(f, "unwind") /\ want' = [want EXCEPT ![f] = {}]
  BY <1>2, <1>3, PermitsOfAll, Unwinds
<1>4. CASE ~Borrowed(f, Wanted(f)) /\ Goto(f, "wait") /\ want' = want
  <2>1. pc' = [pc EXCEPT ![f] = "wait"] /\ pc \in [Fiber -> Steps]
    BY <1>1, <1>4 DEF LockTypes, Goto
  <2>2. pc'[f] = "wait" /\ \A g \in Fiber : g # f => pc'[g] = pc[g]
    BY <2>1
  <2>3. LockTypes'
    <3>1. pc' \in [Fiber -> Steps]
      BY <2>1 DEF Steps
    <3> QED
      BY <1>1, <1>2, <1>4, <3>1 DEF LockTypes, state
  <2>4. OnlyOf(f) /\ ~Runs(f, "launched")'
    BY <1>2, <1>4, <2>2 DEF OnlyOf, Runs
  <2>5. pc[f] \notin Opening
    BY <1>2 DEF Opening
  <2>6. StackInv(f)' /\ Covered(f)' /\ Rooted(f)'
    <3>1. StackInv(f)'
      BY <1>1, <1>2, PermitsOfAll, StackSame DEF state
    <3> QED
      BY <1>1, <1>2, <2>5, <3>1, CoveredSame, RootedSame
  <2>7. PICK l \in AppLocks : want[f] = {l} /\ l \notin Held(f)
    BY <1>1, <1>2 DEF StepInv
  <2>8. Held(f)' = Held(f)
    BY <1>2 DEF Held
  <2>9. StepInv(f)'
    BY <1>1, <1>2, <1>4, <2>2, <2>6, <2>7, <2>8 DEF StepInv, Idle, Alive, state
  <2>10. NotBehindParent(f)'
    <3> DEFINE p == ParentOf[f]
    <3> SUFFICES ASSUME p # Nobody, Alive(p), TokensTell, owner[Wanted(f)] = p PROVE FALSE
      <4>1. Wanted(f)' = Wanted(f)
        BY <1>4, SameWish
      <4> QED
        BY <1>2, <4>1 DEF NotBehindParent, Alive, state, TokensTell
    <3>1. p \in Fiber /\ ProcOf[p] # ProcOf[f] /\ p # Nobody
      BY ParentIsAnother
    <3>2. Wanted(f) = l
      BY <2>7 DEF Wanted
    <3>3. Live(Wanted(f))
      BY DEF Live
    <3>4. ~AncestryVisible /\ <<l, p>> \notin env[ProcOf[f]]
      BY <1>4, <3>1, <3>2, <3>3 DEF Borrowed, IsAncestor
    <3>5. ~overlapped
      BY <3>4 DEF TokensTell
    <3>6. Awaited(f)
      BY DEF LocksInv
    <3>7. Launched(f) /\ pc[f] \notin {"done", "dead"}
      BY <1>2, <3>6 DEF Awaited
    <3>8. <<l, p>> \in env[ProcOf[f]]
      BY <3>2, <3>5, <3>6, <3>7 DEF Awaited
    <3> QED
      BY <3>4, <3>8
  <2> QED
    BY <1>2, <2>3, <2>4, <2>6, <2>9, <2>10, PermitsOfAll, Quiet
<1> QED
  BY <1>3, <1>4 DEF borrowedMutationOwner

LEMMA FinishKeeps ==
  ASSUME LocksInv, NEW f \in Fiber, Finish(f)
  PROVE  LocksInv'
<1>1. LockTypes /\ StackInv(f) /\ Covered(f) /\ StepInv(f) /\ Rooted(f)
  BY Where
<1>2. /\ pc[f] = "unwind" /\ pc[f] \notin Idle /\ ~Runs(f, "launched") /\ frames[f] = <<>>
      /\ UNCHANGED <<owner, permit, env, frames, want, expired, overlapped, state>>
  BY DEF Finish, Idle, Runs
<1>3. /\ pc' = [pc EXCEPT ![f] = "done"] /\ pc \in [Fiber -> Steps]
      /\ todo' = [todo EXCEPT ![f] = <<>>] /\ todo \in [Fiber -> Seq(Works)]
  BY <1>1 DEF LockTypes, Finish, Goto
<1>4. /\ pc'[f] = "done" /\ todo'[f] = <<>>
      /\ \A g \in Fiber : g # f => pc'[g] = pc[g] /\ todo'[g] = todo[g]
  BY <1>3
<1>5. LockTypes'
  <2>1. pc' \in [Fiber -> Steps]
    BY <1>3 DEF Steps
  <2>2. todo' \in [Fiber -> Seq(Works)]
    <3>1. <<>> \in Seq(Works)
      OBVIOUS
    <3> QED
      BY <1>3, <3>1
  <2>3. \A g \in Fiber : todo'[g] # <<>> =>
              Head(todo'[g]) \in Work(g) /\ Tail(todo'[g]) \in Seq(Instruction(g))
    BY <1>1, <1>4 DEF LockTypes
  <2> QED
    BY <1>1, <1>2, <2>1, <2>2, <2>3 DEF LockTypes, state
<1>6. OnlyOf(f) /\ ~Runs(f, "launched")'
  BY <1>2, <1>4 DEF OnlyOf, Runs
<1>7. StackInv(f)' /\ Covered(f)' /\ Rooted(f)'
  <2>1. StackInv(f)'
    BY <1>1, <1>2, PermitsOfAll, StackSame DEF state
  <2>2. Len(frames[f]) = 0
    BY <1>2
  <2>3. Covered(f)'
    BY <1>2, <2>2 DEF Covered
  <2>4. Around(f)' = {}
    BY <1>2 DEF Around
  <2> QED
    BY <2>1, <2>3, <2>4 DEF Rooted
<1>8. StepInv(f)'
  BY <1>1, <1>2, <1>4, <1>7 DEF StepInv, Idle, Alive, state
<1>9. NotBehindParent(f)'
  BY <1>4 DEF NotBehindParent
<1> QED
  BY <1>2, <1>5, <1>6, <1>7, <1>8, <1>9, PermitsOfAll, Quiet

\* A fiber that enters or leaves a phase without a lock.
LEMMA PhaseKeeps ==
  ASSUME LocksInv, LockTypes', NEW f \in Fiber, OnlyOf(f),
         UNCHANGED <<owner, permit, env, overlapped, expired, state>>,
         pc[f] \notin Idle, ~Runs(f, "launched"), ~Runs(f, "launched")', pc'[f] # "wait",
         StackInv(f)', Covered(f)', StepInv(f)'
  PROVE  LocksInv'
<1>1. NotBehindParent(f)'
  BY DEF NotBehindParent
<1> QED
  BY <1>1, PermitsOfAll, Quiet

LEMMA EnterAppKeeps ==
  ASSUME LocksInv, NEW f \in Fiber, EnterApp(f)
  PROVE  LocksInv'
<1>1. LockTypes /\ StackInv(f) /\ Covered(f) /\ StepInv(f) /\ Rooted(f)
  BY Where
<1> DEFINE key == appMutationLockKey(Head(todo[f]).app)
           x == [keys |-> {key}, locks |-> {}, env |-> {}]
<1>2. /\ pc[f] = "run" /\ todo[f] # <<>> /\ ~Runs(f, "launched") /\ pc[f] \notin Idle /\ pc[f] \notin Opening
      /\ Head(todo[f]).do = "app"
      /\ UNCHANGED <<owner, permit, env, expired, overlapped, state>>
  BY DEF EnterApp, Runs, Idle, Opening
<1>3. key \in AppLocks /\ key \in Lock
  <2>1. Head(todo[f]).app \in App
    BY <1>1, <1>2, WorkFacts
  <2> QED
    BY <1>1, <2>1 DEF appMutationLockKey, LockTypes, AppLocks, Lock
<1>4. CASE key \in Held(f) /\ Push(f, x) /\ Advance(f) /\ pc' = pc /\ want' = want
  <2>1. x \in Frame
    BY <1>3 DEF Frame
  <2>2. x.locks = {} /\ x.keys = {key}
    OBVIOUS
  <2> HIDE DEF x
  <2>3. LockTypes'
    <3>1. frames' \in [Fiber -> Seq(Frame)]
      BY <1>1, <1>4, <2>1, Pushed
    <3>2. /\ todo' \in [Fiber -> Seq(Works)]
          /\ \A g \in Fiber : todo'[g] # <<>> =>
               Head(todo'[g]) \in Work(g) /\ Tail(todo'[g]) \in Seq(Instruction(g))
      BY <1>1, <1>2, <1>4, Advanced
    <3> QED
      BY <1>1, <1>2, <1>4, <3>1, <3>2 DEF LockTypes, state
  <2>4. OnlyOf(f) /\ ~Runs(f, "launched")'
    BY <1>1, <1>2, <1>4, <2>1, Pushed, Advanced DEF OnlyOf
  <2>5. StackInv(f)'
    BY <1>1, <1>2, <1>4, <2>1, <2>2, StackPushed DEF state
  <2>6. key \in Around(f) /\ \E k \in 1..Len(frames[f]) : key \in frames[f][k].locks
    <3>1. frames \in [Fiber -> Seq(Frame)] /\ frames' \in [Fiber -> Seq(Frame)]
      BY <1>1, <2>3 DEF LockTypes
    <3>2. PICK i \in 1..Len(frames[f]) : key \in frames[f][i].keys
      BY <1>4, <3>1, AroundIs
    <3>3. PICK k \in 1..i : key \in frames[f][k].locks
      BY <1>1, <1>2, <3>2 DEF Covered
    <3>4. k \in 1..Len(frames[f])
      OBVIOUS
    <3> QED
      BY <1>2, <3>1, <3>2, <3>3, <3>4, AroundIs
  <2>7. Covered(f)' /\ Rooted(f)'
    BY <1>1, <1>2, <1>4, <2>1, <2>2, <2>6, CoveredPushed, RootedPushed
  <2>8. StepInv(f)'
    BY <1>1, <1>2, <1>4, <2>7 DEF StepInv, Idle, Alive, state
  <2> QED
    BY <1>2, <1>4, <2>3, <2>4, <2>5, <2>7, <2>8, PhaseKeeps
<1>5. CASE key \notin Held(f) /\ want' = [want EXCEPT ![f] = {key}] /\ Goto(f, "peek")
           /\ todo' = todo /\ frames' = frames
  <2>1. /\ pc' = [pc EXCEPT ![f] = "peek"] /\ pc \in [Fiber -> Steps]
        /\ want' = [want EXCEPT ![f] = {key}] /\ want \in [Fiber -> SUBSET Lock]
    BY <1>1, <1>5 DEF LockTypes, Goto
  <2>2. /\ pc'[f] = "peek" /\ want'[f] = {key}
        /\ \A g \in Fiber : g # f => pc'[g] = pc[g] /\ want'[g] = want[g]
    BY <2>1
  <2>3. LockTypes'
    <3>1. pc' \in [Fiber -> Steps] /\ want' \in [Fiber -> SUBSET Lock]
      BY <1>3, <2>1 DEF Steps
    <3> QED
      BY <1>1, <1>2, <1>5, <3>1 DEF LockTypes, state
  <2>4. OnlyOf(f) /\ ~Runs(f, "launched")'
    BY <1>5, <2>2 DEF OnlyOf, Runs
  <2>5. StackInv(f)'
    BY <1>1, <1>2, <1>5, PermitsOfAll, StackSame DEF state
  <2>6. Covered(f)' /\ Rooted(f)'
    BY <1>1, <1>2, <1>5, CoveredSame, RootedSame
  <2>7. Held(f)' = Held(f)
    BY <1>5 DEF Held
  <2>8. StepInv(f)'
    BY <1>1, <1>2, <1>3, <1>5, <2>2, <2>6, <2>7 DEF StepInv, Idle, Alive, state
  <2> QED
    BY <1>2, <2>2, <2>3, <2>4, <2>5, <2>6, <2>8, PhaseKeeps
<1> QED
  BY <1>4, <1>5 DEF EnterApp

LEMMA EnterPlanKeeps ==
  ASSUME LocksInv, NEW f \in Fiber, EnterPlan(f)
  PROVE  LocksInv'
<1>1. LockTypes /\ StackInv(f) /\ Covered(f) /\ StepInv(f) /\ Rooted(f)
  BY Where
<1> DEFINE keys == Head(todo[f]).keys
           x == [keys |-> keys, locks |-> {}, env |-> {}]
<1>2. /\ pc[f] = "run" /\ todo[f] # <<>> /\ ~Runs(f, "launched") /\ pc[f] \notin Idle /\ pc[f] \notin Opening
      /\ Head(todo[f]).do = "plan" /\ Push(f, x)
      /\ UNCHANGED <<owner, permit, env, expired, overlapped, state>>
  BY DEF EnterPlan, Runs, Idle, Opening
<1>3. keys \subseteq VolumeLocks /\ keys \subseteq Lock
  BY <1>1, <1>2, WorkFacts DEF Lock
<1>4. x \in Frame /\ x.locks = {} /\ x.keys = keys
  BY <1>3 DEF Frame
<1> HIDE DEF x, keys
<1>5. keys \cap AppLocks = {}
  BY <1>3, LockSets
<1>6. StackInv(f)'
  BY <1>1, <1>2, <1>4, StackPushed DEF state
<1>7. Rooted(f)'
  BY <1>1, <1>2, <1>4, <1>5, RootedPushed
<1>8. frames' \in [Fiber -> Seq(Frame)] /\ frames \in [Fiber -> Seq(Frame)]
  BY <1>1, <1>2, <1>4, Pushed DEF LockTypes
<1>9. /\ \A g \in Fiber : g # f => frames'[g] = frames[g]
      /\ Top(f)' = x /\ frames'[f] # <<>>
  <2>1. Len(frames'[f]) = Len(frames[f]) + 1 /\ Len(frames[f]) \in Nat
    BY <1>1, <1>2, <1>4, Pushed
  <2> QED
    BY <1>1, <1>2, <1>4, <2>1, Pushed
<1>10. CASE keys \subseteq Held(f) /\ Advance(f) /\ pc' = pc /\ want' = want
  <2>1. LockTypes'
    <3>1. /\ todo' \in [Fiber -> Seq(Works)]
          /\ \A g \in Fiber : todo'[g] # <<>> =>
               Head(todo'[g]) \in Work(g) /\ Tail(todo'[g]) \in Seq(Instruction(g))
      BY <1>1, <1>2, <1>10, Advanced
    <3> QED
      BY <1>1, <1>2, <1>8, <1>10, <3>1 DEF LockTypes, state
  <2>2. OnlyOf(f) /\ ~Runs(f, "launched")'
    BY <1>1, <1>2, <1>9, <1>10, Advanced DEF OnlyOf
  <2>3. ASSUME NEW l \in keys PROVE \E k \in 1..Len(frames[f]) : l \in frames[f][k].locks
    <3>1. PICK i \in 1..Len(frames[f]) : l \in frames[f][i].keys
      BY <1>8, <1>10, <2>3, AroundIs
    <3>2. PICK k \in 1..i : l \in frames[f][k].locks
      BY <1>1, <1>2, <3>1 DEF Covered
    <3>3. k \in 1..Len(frames[f])
      BY <1>8
    <3> QED
      BY <3>2, <3>3
  <2>4. Covered(f)'
    BY <1>1, <1>2, <1>4, <2>3, CoveredPushed
  <2>5. StepInv(f)'
    BY <1>1, <1>2, <1>7, <1>10 DEF StepInv, Idle, Alive, state
  <2> QED
    BY <1>2, <1>6, <1>10, <2>1, <2>2, <2>4, <2>5, PhaseKeeps
<1>11. CASE ~(keys \subseteq Held(f)) /\ want' = [want EXCEPT ![f] = keys] /\ Goto(f, "guard") /\ todo' = todo
  <2>1. /\ pc' = [pc EXCEPT ![f] = "guard"] /\ pc \in [Fiber -> Steps]
        /\ want' = [want EXCEPT ![f] = keys] /\ want \in [Fiber -> SUBSET Lock]
    BY <1>1, <1>11 DEF LockTypes, Goto
  <2>2. /\ pc'[f] = "guard" /\ want'[f] = keys /\ pc'[f] \in Opening
        /\ \A g \in Fiber : g # f => pc'[g] = pc[g] /\ want'[g] = want[g]
    BY <2>1 DEF Opening
  <2>3. LockTypes'
    <3>1. pc' \in [Fiber -> Steps] /\ want' \in [Fiber -> SUBSET Lock]
      BY <1>3, <2>1 DEF Steps
    <3> QED
      BY <1>1, <1>2, <1>8, <1>11, <3>1 DEF LockTypes, state
  <2>4. OnlyOf(f) /\ ~Runs(f, "launched")'
    BY <1>9, <1>11, <2>2 DEF OnlyOf, Runs
  <2>5. Covered(f)'
    BY <1>1, <1>2, <1>4, <2>2, CoveredPushed
  <2>6. keys # {}
    BY <1>11
  <2>7. StepInv(f)'
    BY <1>1, <1>2, <1>3, <1>4, <1>7, <1>9, <1>11, <2>2, <2>6 DEF StepInv, Idle, Alive, state
  <2> QED
    BY <1>2, <1>6, <2>2, <2>3, <2>4, <2>5, <2>7, PhaseKeeps
<1> QED
  BY <1>10, <1>11 DEF EnterPlan, AllHeld, keys

LEMMA ClosePhaseKeeps ==
  ASSUME LocksInv, NEW f \in Fiber, ClosePhase(f)
  PROVE  LocksInv'
<1>1. LockTypes /\ StackInv(f) /\ Covered(f) /\ StepInv(f) /\ Rooted(f)
  BY Where
<1>2. /\ pc[f] = "unwind" /\ ~Runs(f, "launched") /\ pc[f] \notin Idle
      /\ Pop(f) /\ Top(f).locks = {}
      /\ UNCHANGED <<owner, permit, env, pc, todo, want, expired, overlapped, state>>
  BY DEF ClosePhase, Runs, Idle
<1>3. LockTypes'
  <2>1. frames' \in [Fiber -> Seq(Frame)]
    BY <1>1, <1>2, Popped
  <2> QED
    BY <1>1, <1>2, <2>1 DEF LockTypes, state
<1>4. OnlyOf(f) /\ ~Runs(f, "launched")'
  BY <1>1, <1>2, Popped DEF OnlyOf, Runs
<1>5. StackInv(f)' /\ Covered(f)' /\ Rooted(f)'
  BY <1>1, <1>2, StackPopped, CoveredPopped, RootedPopped DEF state
<1>6. StepInv(f)'
  BY <1>1, <1>2, <1>5 DEF StepInv, Idle, Alive, state
<1> QED
  BY <1>2, <1>3, <1>4, <1>5, <1>6, PhaseKeeps

LEMMA LeaveKeeps ==
  ASSUME LocksInv, NEW f \in Fiber, Leave(f)
  PROVE  LocksInv'
<1>1. LockTypes /\ StackInv(f) /\ Covered(f) /\ StepInv(f) /\ Rooted(f)
  BY Where
<1>2. /\ pc[f] = "run" /\ pc[f] \notin Idle
      /\ UNCHANGED <<owner, permit, env, want, expired, overlapped, state>>
  BY DEF Leave, Idle
<1>3. CASE todo[f] = <<>> /\ Goto(f, "unwind") /\ todo' = todo /\ frames' = frames
  <2>1. ~Runs(f, "launched")
    BY <1>3 DEF Runs
  <2> QED
    BY <1>2, <1>3, <2>1, PermitsOfAll, Unwinds
<1>4. CASE Runs(f, "end") /\ Advance(f) /\ Top(f).locks = {} /\ Pop(f) /\ pc' = pc
  <2>1. todo[f] # <<>> /\ ~Runs(f, "launched")
    BY <1>4 DEF Runs
  <2>2. LockTypes'
    <3>1. frames' \in [Fiber -> Seq(Frame)]
      BY <1>1, <1>4, Popped
    <3>2. /\ todo' \in [Fiber -> Seq(Works)]
          /\ \A g \in Fiber : todo'[g] # <<>> =>
               Head(todo'[g]) \in Work(g) /\ Tail(todo'[g]) \in Seq(Instruction(g))
      BY <1>1, <1>4, <2>1, Advanced
    <3> QED
      BY <1>1, <1>2, <1>4, <3>1, <3>2 DEF LockTypes, state
  <2>3. OnlyOf(f) /\ ~Runs(f, "launched")'
    BY <1>1, <1>2, <1>4, <2>1, Popped, Advanced DEF OnlyOf
  <2>4. StackInv(f)' /\ Covered(f)' /\ Rooted(f)'
    BY <1>1, <1>2, <1>4, StackPopped, CoveredPopped, RootedPopped DEF state
  <2>5. StepInv(f)'
    BY <1>1, <1>2, <1>4, <2>4 DEF StepInv, Idle, Alive, state
  <2> QED
    BY <1>2, <1>4, <2>1, <2>2, <2>3, <2>4, <2>5, PhaseKeeps
<1>5. CASE Runs(f, "end") /\ Advance(f) /\ Goto(f, "leave") /\ frames' = frames
  <2>1. todo[f] # <<>> /\ ~Runs(f, "launched")
    BY <1>5 DEF Runs
  <2>2. pc' = [pc EXCEPT ![f] = "leave"] /\ pc \in [Fiber -> Steps]
    BY <1>1, <1>5 DEF LockTypes, Goto
  <2>3. pc'[f] = "leave" /\ pc'[f] \in Opening /\ \A g \in Fiber : g # f => pc'[g] = pc[g]
    BY <2>2 DEF Opening
  <2>4. LockTypes'
    <3>1. pc' \in [Fiber -> Steps]
      BY <2>2 DEF Steps
    <3>2. /\ todo' \in [Fiber -> Seq(Works)]
          /\ \A g \in Fiber : todo'[g] # <<>> =>
               Head(todo'[g]) \in Work(g) /\ Tail(todo'[g]) \in Seq(Instruction(g))
      BY <1>1, <1>5, <2>1, Advanced
    <3> QED
      BY <1>1, <1>2, <1>5, <3>1, <3>2 DEF LockTypes, state
  <2>5. OnlyOf(f) /\ ~Runs(f, "launched")'
    BY <1>1, <1>2, <1>5, <2>1, <2>3, Advanced DEF OnlyOf
  <2>6. StackInv(f)'
    BY <1>1, <1>2, <1>5, PermitsOfAll, StackSame DEF state
  <2>7. Covered(f)' /\ Rooted(f)'
    BY <1>1, <1>2, <1>5, <2>3, CoveredSame, RootedSame
  <2>8. StepInv(f)'
    <3>1. todo'[f] = <<>> \/ Head(todo'[f]).do # "launched"
      BY <1>1, <1>5, <2>1, Advanced
    <3> QED
      BY <1>1, <1>2, <2>3, <2>7, <3>1 DEF StepInv, Idle, Alive, state
  <2> QED
    BY <1>2, <2>1, <2>3, <2>4, <2>5, <2>6, <2>7, <2>8, PhaseKeeps
<1> QED
  BY <1>3, <1>4, <1>5 DEF Leave

-----------------------------------------------------------------------------
(* Steps that take and give back.                                          *)

LEMMA PermitKept ==
  ASSUME LocksInv, NEW f \in Fiber, NEW k \in VolumeLocks, NEW w, w = f \/ w = Nobody,
         permit[ProcOf[f]][k] = f \/ permit[ProcOf[f]][k] = Nobody,
         permit' = [permit EXCEPT ![ProcOf[f]][k] = w]
  PROVE  /\ permit' \in [Proc -> [VolumeLocks -> Fiber \cup {Nobody}]]
         /\ permit'[ProcOf[f]][k] = w
         /\ \A l \in VolumeLocks : l # k => permit'[ProcOf[f]][l] = permit[ProcOf[f]][l]
         /\ \A g \in Fiber \ {f} : \A l \in VolumeLocks :
              permit[ProcOf[g]][l] = g => permit'[ProcOf[g]][l] = g
<1>1. permit \in [Proc -> [VolumeLocks -> Fiber \cup {Nobody}]] /\ ProcOf \in [Fiber -> Proc]
  BY LocksAssumption DEF LocksInv, LockTypes, LocksAssumption
<1>2. ProcOf[f] \in Proc /\ Nobody \notin Fiber
  BY <1>1, LocksAssumption DEF LocksAssumption
<1>3. permit' \in [Proc -> [VolumeLocks -> Fiber \cup {Nobody}]]
  BY <1>1
<1>4. permit'[ProcOf[f]][k] = w /\ \A l \in VolumeLocks : l # k => permit'[ProcOf[f]][l] = permit[ProcOf[f]][l]
  BY <1>1, <1>2
<1>5. ASSUME NEW g \in Fiber \ {f}, NEW l \in VolumeLocks, permit[ProcOf[g]][l] = g
      PROVE  permit'[ProcOf[g]][l] = g
  <2>1. CASE ProcOf[g] = ProcOf[f]
    BY <1>2, <1>4, <1>5, <2>1
  <2>2. CASE ProcOf[g] # ProcOf[f]
    BY <1>1, <1>5, <2>2
  <2> QED
    BY <2>1, <2>2
<1> QED
  BY <1>3, <1>4, <1>5

LEMMA Opens ==
  ASSUME LocksInv, NEW f \in Fiber, pc[f] \in {"guard", "file"}
  PROVE  /\ LockTypes /\ StackInv(f) /\ Covered(f) /\ StepInv(f) /\ Rooted(f)
         /\ NextKey(f) \in want[f] /\ NextKey(f) \in VolumeLocks /\ NextKey(f) \in Top(f).keys
         /\ frames[f] # <<>> /\ todo[f] # <<>>
         /\ Len(frames[f]) \in Nat /\ Len(frames[f]) \in 1..Len(frames[f])
         /\ Top(f) = frames[f][Len(frames[f])] /\ Top(f) \in Frame
         /\ pc[f] \notin Idle /\ ~Runs(f, "launched") /\ pc[f] \in Opening /\ Alive(f)
<1>1. LockTypes /\ StackInv(f) /\ Covered(f) /\ StepInv(f) /\ Rooted(f)
  BY Where
<1>2. /\ frames[f] # <<>> /\ want[f] # {} /\ want[f] \subseteq Top(f).keys
      /\ Top(f).keys \subseteq VolumeLocks /\ todo[f] # <<>>
  BY <1>1 DEF StepInv
<1>3. NextKey(f) \in want[f]
  BY <1>2, NextKeyWanted
<1>4. pc[f] \notin Idle /\ ~Runs(f, "launched") /\ pc[f] \in Opening
  BY DEF Idle, Runs, Opening
<1>5. Alive(f)
  BY <1>1, <1>4 DEF StepInv, Idle
<1> QED
  BY <1>1, <1>2, <1>3, <1>4, <1>5, TopFacts

LEMMA TakePermitKeeps ==
  ASSUME LocksInv, NEW f \in Fiber, TakePermit(f)
  PROVE  LocksInv'
<1> DEFINE k == NextKey(f)
<1>1. pc[f] = "guard"
  BY DEF TakePermit
<1>2. /\ LockTypes /\ StackInv(f) /\ Covered(f) /\ StepInv(f) /\ Rooted(f)
      /\ k \in VolumeLocks /\ pc[f] \notin Idle /\ ~Runs(f, "launched") /\ pc[f] \in Opening
  BY <1>1, Opens
<1>3. /\ permit[ProcOf[f]][k] = Nobody
      /\ permit' = [permit EXCEPT ![ProcOf[f]][k] = f]
      /\ UNCHANGED <<owner, env, todo, frames, want, expired, overlapped, state>>
      /\ Goto(f, "file")
  BY DEF TakePermit
<1>4. /\ pc' = [pc EXCEPT ![f] = "file"] /\ pc \in [Fiber -> Steps]
  BY <1>2, <1>3 DEF LockTypes, Goto
<1>5. pc'[f] = "file" /\ pc'[f] \in Opening /\ \A g \in Fiber : g # f => pc'[g] = pc[g]
  BY <1>4 DEF Opening
<1> HIDE DEF k
<1>6. /\ permit' \in [Proc -> [VolumeLocks -> Fiber \cup {Nobody}]]
      /\ permit'[ProcOf[f]][k] = f
      /\ \A l \in VolumeLocks : l # k => permit'[ProcOf[f]][l] = permit[ProcOf[f]][l]
      /\ \A g \in Fiber \ {f} : \A l \in VolumeLocks :
           permit[ProcOf[g]][l] = g => permit'[ProcOf[g]][l] = g
  BY <1>2, <1>3, PermitKept
<1>7. LockTypes'
  <2>1. pc' \in [Fiber -> Steps]
    BY <1>4 DEF Steps
  <2> QED
    BY <1>2, <1>3, <1>6, <2>1 DEF LockTypes, state
<1>8. OnlyOf(f) /\ ~Runs(f, "launched")' /\ NotBehindParent(f)'
  BY <1>3, <1>5 DEF OnlyOf, Runs, NotBehindParent
<1>9. Nobody # f
  BY LocksAssumption DEF LocksAssumption
<1>10. \A i \in 1..Len(frames[f]) : k \notin frames[f][i].locks
  BY <1>2, <1>3, <1>9 DEF StackInv
<1>11. \A i \in 1..Len(frames[f]) : \A l \in frames[f][i].locks \cap VolumeLocks : permit'[ProcOf[f]][l] = f
  BY <1>2, <1>6, <1>10 DEF StackInv
<1>12. StackInv(f)'
  BY <1>2, <1>3, <1>11, StackSame DEF state
<1>13. Covered(f)' /\ Rooted(f)'
  BY <1>2, <1>3, <1>5, CoveredSame, RootedSame
<1>14. k = NextKey(f)' /\ Top(f)' = Top(f)
  BY <1>3, SameWish DEF k, Top
<1>15. StepInv(f)'
  BY <1>1, <1>2, <1>3, <1>5, <1>6, <1>10, <1>13, <1>14 DEF StepInv, Idle, Alive, state
<1> QED
  BY <1>2, <1>3, <1>6, <1>7, <1>8, <1>12, <1>13, <1>15, Quiet

LEMMA VolumeTimeoutKeeps ==
  ASSUME LocksInv, NEW f \in Fiber, VolumeTimeout(f)
  PROVE  LocksInv'
<1> DEFINE k == NextKey(f)
<1>1. pc[f] = "file"
  BY DEF VolumeTimeout
<1>2. /\ StackInv(f) /\ StepInv(f) /\ k \in VolumeLocks /\ pc[f] \notin Idle /\ ~Runs(f, "launched")
  BY <1>1, Opens
<1>3. /\ permit' = [permit EXCEPT ![ProcOf[f]][k] = Nobody]
      /\ want' = [want EXCEPT ![f] = {}] /\ Goto(f, "unwind")
      /\ UNCHANGED <<owner, env, todo, frames, expired, overlapped, state>>
  BY DEF VolumeTimeout
<1>4. permit[ProcOf[f]][k] = f /\ \A i \in 1..Len(frames[f]) : k \notin frames[f][i].locks
  BY <1>1, <1>2 DEF StepInv
<1> HIDE DEF k
<1>5. /\ permit' \in [Proc -> [VolumeLocks -> Fiber \cup {Nobody}]]
      /\ \A l \in VolumeLocks : l # k => permit'[ProcOf[f]][l] = permit[ProcOf[f]][l]
      /\ \A g \in Fiber \ {f} : \A l \in VolumeLocks :
           permit[ProcOf[g]][l] = g => permit'[ProcOf[g]][l] = g
  <2>1. k \in VolumeLocks
    BY <1>2
  <2>2. permit[ProcOf[f]][k] = f \/ permit[ProcOf[f]][k] = Nobody
    BY <1>4
  <2>3. permit' = [permit EXCEPT ![ProcOf[f]][k] = Nobody]
    BY <1>3
  <2> QED
    BY <2>1, <2>2, <2>3, PermitKept
<1>6. \A i \in 1..Len(frames[f]) : \A l \in frames[f][i].locks \cap VolumeLocks : permit'[ProcOf[f]][l] = f
  <2> SUFFICES ASSUME NEW i \in 1..Len(frames[f]), NEW l \in frames[f][i].locks, l \in VolumeLocks
               PROVE  permit'[ProcOf[f]][l] = f
    OBVIOUS
  <2>1. permit[ProcOf[f]][l] = f
    BY <1>2 DEF StackInv
  <2>2. l # k
    BY <1>4
  <2> QED
    BY <1>5, <2>1, <2>2
<1> QED
  BY <1>2, <1>3, <1>5, <1>6, Unwinds

\* A step of one fiber that may change lock files and the environment of its process.
LEMMA Changes ==
  ASSUME LocksInv, LockTypes', NEW f \in Fiber, OnlyOf(f), UNCHANGED state, expired \subseteq expired',
         \A l \in Lock : \A h \in Fiber : h # f /\ owner'[l] = h => owner[l] = h,
         \A l \in Lock : \A h \in Fiber \ {f} :
           owner[l] = h /\ Alive(h) => owner'[l] = h \/ <<h, l>> \in expired',
         \A g \in Fiber \ {f} : \A l \in VolumeLocks :
           permit[ProcOf[g]][l] = g => permit'[ProcOf[g]][l] = g,
         ~Runs(f, "launched"), ~Runs(f, "launched")', pc[f] \notin Idle, pc'[f] # "wait",
         overlapped => overlapped',
         \A p \in Proc : p # ProcOf[f] => env'[p] = env[p],
         ~overlapped' => \A l \in AppLocks : \A h \in Fiber :
           owner'[l] = h => <<l, h>> \in env'[ProcOf[f]] \/ (owner[l] = h /\ <<l, h>> \notin env[ProcOf[f]]),
         StackInv(f)', Covered(f)', StepInv(f)'
  PROVE  LocksInv'
<1>1. ASSUME NEW g \in Fiber \ {f} PROVE StackInv(g)' /\ Covered(g)' /\ StepInv(g)'
  <2>1. Spares(g)
    BY DEF Spares, OnlyOf
  <2> QED
    BY <2>1, SparedKept DEF LocksInv
<1>2. ASSUME NEW g \in Fiber PROVE Awaited(g)'
  <2>1. NotBehindParent(f)'
    BY DEF NotBehindParent
  <2>2. ProcOf[g] \in Proc
    BY LocksAssumption DEF LocksAssumption
  <2>3. ASSUME NEW l \in AppLocks, NEW h \in Fiber, h \notin {f, g}, ~overlapped', owner'[l] = h,
               <<l, h>> \in env[ProcOf[g]]
        PROVE  <<l, h>> \in env'[ProcOf[g]]
    BY <2>2, <2>3
  <2> QED
    BY <2>1, <2>3, AwaitedKept
<1>3. ASSUME NEW g \in Fiber PROVE EnvTells(g)'
  <2>1. EnvTells(g)
    BY DEF LocksInv
  <2>2. Alive(g)' <=> Alive(g)
    BY DEF Alive, state
  <2>3. ProcOf[g] \in Proc
    BY LocksAssumption DEF LocksAssumption
  <2>4. ASSUME ~overlapped', NEW l \in AppLocks, owner'[l] = g, Alive(g) PROVE <<l, g>> \in env'[ProcOf[g]]
    <3>1. CASE ProcOf[g] = ProcOf[f]
      BY <2>1, <2>4, <3>1 DEF EnvTells
    <3>2. CASE ProcOf[g] # ProcOf[f]
      BY <2>1, <2>3, <2>4, <3>2 DEF EnvTells, Lock
    <3> QED
      BY <3>1, <3>2
  <2> QED
    BY <2>2, <2>4 DEF EnvTells
<1> QED
  BY <1>1, <1>2, <1>3 DEF LocksInv

LEMMA AcquireAppKeeps ==
  ASSUME LocksInv, NEW f \in Fiber, AcquireApp(f)
  PROVE  LocksInv'
<1> DEFINE P == ProcOf[f]
           n == Len(frames[f])
<1>1. LockTypes /\ StackInv(f) /\ Covered(f) /\ StepInv(f) /\ Rooted(f)
  BY Where
<1>2. pc[f] = "wait" /\ pc[f] \notin Idle /\ ~Runs(f, "launched") /\ pc[f] \notin Opening /\ todo[f] # <<>>
  BY <1>1 DEF AcquireApp, Idle, Runs, Opening, StepInv
<1>3. PICK l \in AppLocks : want[f] = {l} /\ l \notin Held(f)
  BY <1>1, <1>2 DEF StepInv
<1>4. Wanted(f) = l /\ l \in Lock /\ l \notin VolumeLocks
  BY <1>3, LockSets DEF Wanted
<1> DEFINE x == [keys |-> {l}, locks |-> {l}, env |-> env[P]]
<1>5. /\ ~Live(l) /\ owner' = [owner EXCEPT ![l] = f] /\ Push(f, x)
      /\ env' = [env EXCEPT ![P] = installHolderEnv(env[P], l, f)]
      /\ want' = [want EXCEPT ![f] = {}] /\ Goto(f, "check")
      /\ UNCHANGED <<permit, todo, expired, overlapped, state>>
  BY <1>4 DEF AcquireApp
<1>6. P \in Proc /\ Nobody # f /\ Nobody \notin Fiber
  BY LocksAssumption DEF LocksAssumption
<1>7. x \in Frame /\ x.keys = {l} /\ x.locks = {l}
  BY <1>1, <1>4, <1>6 DEF Frame, LockTypes
<1> HIDE DEF x
<1>8. /\ n \in Nat /\ Len(frames'[f]) = n + 1 /\ frames'[f][n + 1] = x /\ Top(f)' = x
      /\ \A i \in 1..n : frames'[f][i] = frames[f][i]
      /\ frames' \in [Fiber -> Seq(Frame)] /\ frames \in [Fiber -> Seq(Frame)]
      /\ \A g \in Fiber : g # f => frames'[g] = frames[g]
  BY <1>1, <1>5, <1>7, Pushed DEF LockTypes
<1>9. /\ pc' = [pc EXCEPT ![f] = "check"] /\ pc \in [Fiber -> Steps]
      /\ want \in [Fiber -> SUBSET Lock] /\ owner \in [Lock -> Fiber \cup {Nobody}]
      /\ env \in [Proc -> SUBSET (Lock \X Fiber)]
  BY <1>1, <1>5 DEF LockTypes, Goto
<1>10. /\ pc'[f] = "check" /\ pc'[f] \in Opening
       /\ \A g \in Fiber : g # f => pc'[g] = pc[g] /\ want'[g] = want[g]
       /\ owner'[l] = f /\ \A k \in Lock : k # l => owner'[k] = owner[k]
  BY <1>4, <1>5, <1>9 DEF Opening
<1>11. /\ env'[P] = {h \in env[P] : h[1] # l} \cup {<<l, f>>}
       /\ \A p \in Proc : p # P => env'[p] = env[p]
  BY <1>5, <1>6, <1>9 DEF installHolderEnv
<1>12. LockTypes'
  <2>1. pc' \in [Fiber -> Steps] /\ want' \in [Fiber -> SUBSET Lock]
    BY <1>5, <1>9 DEF Steps
  <2>2. owner' \in [Lock -> Fiber \cup {Nobody}]
    BY <1>5, <1>9
  <2>3. installHolderEnv(env[P], l, f) \in SUBSET (Lock \X Fiber)
    BY <1>4, <1>6, <1>9 DEF installHolderEnv
  <2>4. env' \in [Proc -> SUBSET (Lock \X Fiber)]
    BY <1>5, <1>9, <2>3
  <2> QED
    BY <1>1, <1>5, <1>8, <2>1, <2>2, <2>4 DEF LockTypes, state
<1>13. OnlyOf(f) /\ ~Runs(f, "launched")' /\ pc'[f] # "wait"
  BY <1>5, <1>8, <1>10 DEF OnlyOf, Runs
<1>14. Alive(f)' /\ Alive(f)
  BY <1>1, <1>2, <1>5 DEF StepInv, Alive, state
<1>15. \A i \in 1..n : l \notin frames[f][i].keys /\ l \notin frames[f][i].locks
  <2>1. \A i \in 1..n : l \notin frames[f][i].keys
    BY <1>3, <1>8, AroundIs
  <2> QED
    BY <1>1, <2>1 DEF StackInv
<1>16. (\A i \in 1..(n + 1) : i \in 1..n \/ i = n + 1) /\ (\A i \in 1..n : i \in 1..(n + 1)) /\ n + 1 \in 1..(n + 1)
  BY <1>8
<1> HIDE DEF n, P
<1>17. StackInv(f)'
  <2>1. ASSUME NEW i \in 1..(n + 1)
        PROVE  /\ frames'[f][i].locks \subseteq frames'[f][i].keys
               /\ frames'[f][i].locks \subseteq VolumeLocks \/ \E k \in AppLocks : frames'[f][i].locks = {k}
               /\ \A k \in frames'[f][i].locks :
                    /\ owner'[k] = f \/ <<f, k>> \in expired'
                    /\ k \in VolumeLocks => permit'[ProcOf[f]][k] = f
    <3>1. CASE i = n + 1
      BY <1>4, <1>7, <1>8, <1>10, <3>1
    <3>2. CASE i \in 1..n
      <4>1. frames'[f][i] = frames[f][i] /\ frames[f][i] \in Frame
        BY <1>8, <3>2, ElementOfSeq DEF n
      <4>2. /\ frames[f][i].locks \subseteq frames[f][i].keys
            /\ frames[f][i].locks \subseteq VolumeLocks \/ \E k \in AppLocks : frames[f][i].locks = {k}
            /\ \A k \in frames[f][i].locks :
                 /\ owner[k] = f \/ <<f, k>> \in expired
                 /\ k \in VolumeLocks => permit[ProcOf[f]][k] = f
        BY <1>1, <3>2 DEF StackInv, n
      <4>3. \A k \in frames[f][i].locks : k \in Lock /\ k # l
        BY <1>15, <3>2, <4>1 DEF Frame
      <4> QED
        BY <1>5, <1>10, <4>1, <4>2, <4>3
    <3> QED
      BY <1>16, <3>1, <3>2
  <2>2. ASSUME NEW i \in 1..(n + 1), NEW k \in 1..(n + 1), k # i
        PROVE  frames'[f][i].locks \cap frames'[f][k].locks = {}
    <3>1. CASE i \in 1..n /\ k \in 1..n
      BY <1>1, <1>8, <2>2, <3>1 DEF StackInv, n
    <3>2. CASE i = n + 1 /\ k \in 1..n
      BY <1>7, <1>8, <1>15, <3>2
    <3>3. CASE i \in 1..n /\ k = n + 1
      BY <1>7, <1>8, <1>15, <3>3
    <3> QED
      BY <1>16, <2>2, <3>1, <3>2, <3>3
  <2>3. ASSUME NEW k \in Lock, owner'[k] = f
        PROVE  \E i \in 1..(n + 1) : k \in frames'[f][i].locks
    <3>1. CASE k = l
      BY <1>7, <1>8, <1>16, <3>1
    <3>2. CASE k # l
      <4>1. PICK i \in 1..n : k \in frames[f][i].locks
        BY <1>1, <1>10, <1>14, <2>3, <3>2 DEF StackInv, n
      <4> QED
        BY <1>8, <1>16, <4>1
    <3> QED
      BY <3>1, <3>2
  <2> QED
    BY <1>8, <2>1, <2>2, <2>3 DEF StackInv
<1>18. Covered(f)'
  BY <1>1, <1>2, <1>5, <1>7, <1>10, CoveredPushed
<1>19. Rooted(f)'
  BY <1>1, <1>2, <1>5, <1>7, <1>10, RootedPushed
<1>20. StepInv(f)'
  <2>1. frames'[f] # <<>>
    BY <1>8
  <2> QED
    BY <1>2, <1>3, <1>5, <1>7, <1>8, <1>10, <1>14, <1>19, <2>1 DEF StepInv, Idle
<1>21. \A k \in Lock : \A h \in Fiber : h # f /\ owner'[k] = h => owner[k] = h
  BY <1>4, <1>10
<1>22. \A k \in Lock : \A h \in Fiber \ {f} : owner[k] = h /\ Alive(h) => owner'[k] = h
  <2>1. \A h \in Fiber : owner[l] = h => ~Alive(h)
    BY <1>5, <1>6 DEF Live
  <2> QED
    BY <1>4, <1>10, <2>1
<1>23. ASSUME NEW k \in AppLocks, NEW h \in Fiber, owner'[k] = h
       PROVE  <<k, h>> \in env'[P] \/ (owner[k] = h /\ <<k, h>> \notin env[P])
  <2>1. CASE k = l
    BY <1>10, <1>11, <1>23, <2>1
  <2>2. CASE k # l
    <3>1. owner[k] = h
      BY <1>10, <1>23, <2>2 DEF Lock
    <3>2. <<k, h>> \in env[P] => <<k, h>> \in env'[P]
      BY <1>11, <2>2
    <3> QED
      BY <3>1, <3>2
  <2> QED
    BY <2>1, <2>2
<1> QED
  <2>1. \A g \in Fiber \ {f} : \A k \in VolumeLocks :
           permit[ProcOf[g]][k] = g => permit'[ProcOf[g]][k] = g
    BY <1>5
  <2>2. expired \subseteq expired' /\ UNCHANGED state /\ (overlapped => overlapped')
    BY <1>5
  <2> QED
    BY <1>2, <1>11, <1>12, <1>13, <1>17, <1>18, <1>20, <1>21, <1>22, <1>23, <2>1, <2>2, Changes DEF P

LEMMA TakeFileKeeps ==
  ASSUME LocksInv, NEW f \in Fiber, TakeFile(f)
  PROVE  LocksInv'
<1> DEFINE l == NextKey(f)
           n == Len(frames[f])
           x == [Top(f) EXCEPT !.locks = @ \cup {l}]
<1>1. pc[f] = "file"
  BY DEF TakeFile
<1>2. /\ LockTypes /\ StackInv(f) /\ Covered(f) /\ StepInv(f) /\ Rooted(f)
      /\ l \in want[f] /\ l \in VolumeLocks /\ l \in Top(f).keys
      /\ frames[f] # <<>> /\ todo[f] # <<>>
      /\ n \in Nat /\ n \in 1..n /\ Top(f) = frames[f][n] /\ Top(f) \in Frame
      /\ pc[f] \notin Idle /\ ~Runs(f, "launched") /\ pc[f] \in Opening /\ Alive(f)
  BY <1>1, Opens
<1>3. /\ expired' = IF Live(l) THEN expired \cup {<<owner[l], l>>} ELSE expired
      /\ owner' = [owner EXCEPT ![l] = f] /\ WithTop(f, x)
      /\ want' = [want EXCEPT ![f] = want[f] \ {l}]
      /\ (want[f] = {l} /\ Goto(f, "run") /\ Advance(f)) \/ (want[f] # {l} /\ Goto(f, "guard") /\ todo' = todo)
      /\ UNCHANGED <<permit, env, overlapped, state>>
  BY <1>2 DEF TakeFile
<1>4. l \in Lock /\ l \notin AppLocks
  BY <1>2, LockSets
<1>5. x \in Frame /\ x.keys = Top(f).keys /\ x.locks = Top(f).locks \cup {l}
  BY <1>2, <1>4 DEF Frame
<1> HIDE DEF x, l
<1>6. /\ frames' \in [Fiber -> Seq(Frame)] /\ \A g \in Fiber : g # f => frames'[g] = frames[g]
      /\ Len(frames'[f]) = n /\ frames'[f] # <<>> /\ frames'[f][n] = x /\ Top(f)' = x
      /\ \A i \in 1..n : i # n => frames'[f][i] = frames[f][i]
  BY <1>2, <1>3, <1>5, Topped
<1>7. /\ pc \in [Fiber -> Steps] /\ want \in [Fiber -> SUBSET Lock] /\ owner \in [Lock -> Fiber \cup {Nobody}]
      /\ frames \in [Fiber -> Seq(Frame)] /\ frames[f] \in Seq(Frame)
  BY <1>2 DEF LockTypes
<1>8. /\ pc' \in [Fiber -> Steps] /\ \A g \in Fiber : g # f => pc'[g] = pc[g] /\ want'[g] = want[g]
      /\ want'[f] = want[f] \ {l}
      /\ owner'[l] = f /\ \A k \in Lock : k # l => owner'[k] = owner[k]
      /\ pc'[f] = "run" \/ pc'[f] = "guard"
      /\ pc'[f] = "run" => want[f] = {l} /\ Advance(f)
      /\ pc'[f] = "guard" => want[f] # {l} /\ todo' = todo
  <2>1. (pc' = [pc EXCEPT ![f] = "run"] /\ want[f] = {l} /\ Advance(f))
        \/ (pc' = [pc EXCEPT ![f] = "guard"] /\ want[f] # {l} /\ todo' = todo)
    BY <1>3 DEF Goto
  <2>2. pc' \in [Fiber -> Steps] /\ \A g \in Fiber : g # f => pc'[g] = pc[g]
    BY <1>7, <2>1 DEF Steps
  <2>3. \A g \in Fiber : g # f => want'[g] = want[g]
    BY <1>3, <1>7
  <2>4. want'[f] = want[f] \ {l} /\ owner'[l] = f /\ \A k \in Lock : k # l => owner'[k] = owner[k]
    BY <1>3, <1>4, <1>7
  <2>5. (pc'[f] = "run" /\ want[f] = {l} /\ Advance(f)) \/ (pc'[f] = "guard" /\ want[f] # {l} /\ todo' = todo)
    BY <1>7, <2>1
  <2> QED
    BY <2>2, <2>3, <2>4, <2>5
<1>9. /\ todo' \in [Fiber -> Seq(Works)]
      /\ \A g \in Fiber : todo'[g] # <<>> =>
           Head(todo'[g]) \in Work(g) /\ Tail(todo'[g]) \in Seq(Instruction(g))
      /\ \A g \in Fiber : g # f => todo'[g] = todo[g]
      /\ ~Runs(f, "launched")'
  <2>1. CASE Advance(f)
    BY <1>2, <2>1, Advanced
  <2>2. CASE todo' = todo /\ pc'[f] = "guard"
    BY <1>2, <2>2 DEF LockTypes, Runs
  <2> QED
    BY <1>8, <2>1, <2>2
<1>10. expired \subseteq expired' /\ expired' \subseteq Fiber \X VolumeLocks
       /\ \A h \in Fiber : owner[l] = h /\ Alive(h) => <<h, l>> \in expired'
  <2>1. CASE Live(l)
    <3>1. owner[l] \in Fiber
      BY <1>4, <1>7, <2>1 DEF Live
    <3>2. expired' = expired \cup {<<owner[l], l>>}
      BY <1>3, <2>1
    <3> QED
      BY <1>2, <3>1, <3>2 DEF LockTypes
  <2>2. CASE ~Live(l)
    <3>1. Nobody \notin Fiber
      BY LocksAssumption DEF LocksAssumption
    <3> QED
      BY <1>2, <1>3, <2>2, <3>1 DEF LockTypes, Live
  <2> QED
    BY <2>1, <2>2
<1>11. LockTypes'
  <2>1. want' \in [Fiber -> SUBSET Lock]
    BY <1>3, <1>7
  <2>2. owner' \in [Lock -> Fiber \cup {Nobody}]
    BY <1>3, <1>7
  <2> QED
    BY <1>2, <1>3, <1>6, <1>8, <1>9, <1>10, <2>1, <2>2 DEF LockTypes, state
<1>12. OnlyOf(f) /\ pc'[f] # "wait"
  BY <1>6, <1>8, <1>9 DEF OnlyOf
<1>13. permit[ProcOf[f]][l] = f /\ \A i \in 1..n : l \notin frames[f][i].locks
  BY <1>1, <1>2 DEF StepInv, l
<1>14. /\ Top(f).keys \subseteq VolumeLocks /\ want[f] \subseteq Top(f).keys
       /\ Top(f).keys \subseteq Top(f).locks \cup want[f]
  BY <1>1, <1>2 DEF StepInv
<1>15. Alive(f)' /\ \A i \in 1..n : frames[f][i] \in Frame
  BY <1>2, <1>3, <1>7, ElementOfSeq DEF Alive, state
<1>16. \A i \in 1..n : i = n \/ i < n
  BY <1>2
<1>17. \A i \in 1..n : \A k \in 1..i : k \in 1..n
  BY <1>2
<1> HIDE DEF n
<1>18. StackInv(f)'
  <2>1. ASSUME NEW i \in 1..n
        PROVE  /\ frames'[f][i].locks \subseteq frames'[f][i].keys
               /\ frames'[f][i].locks \subseteq VolumeLocks \/ \E k \in AppLocks : frames'[f][i].locks = {k}
               /\ \A k \in frames'[f][i].locks :
                    /\ owner'[k] = f \/ <<f, k>> \in expired'
                    /\ k \in VolumeLocks => permit'[ProcOf[f]][k] = f
    <3>1. /\ frames[f][i].locks \subseteq frames[f][i].keys
          /\ frames[f][i].locks \subseteq VolumeLocks \/ \E k \in AppLocks : frames[f][i].locks = {k}
          /\ \A k \in frames[f][i].locks :
               /\ owner[k] = f \/ <<f, k>> \in expired
               /\ k \in VolumeLocks => permit[ProcOf[f]][k] = f
               /\ k \in Lock /\ k # l
      BY <1>2, <1>13, <1>15, <2>1 DEF StackInv, n, Frame
    <3>2. /\ \A k \in frames[f][i].locks :
               /\ owner'[k] = f \/ <<f, k>> \in expired'
               /\ k \in VolumeLocks => permit'[ProcOf[f]][k] = f
      BY <1>3, <1>8, <1>10, <3>1
    <3>3. CASE i = n
      <4>1. x.locks \subseteq x.keys /\ x.locks \subseteq VolumeLocks
        BY <1>2, <1>5, <1>14, <3>1, <3>3
      <4>2. ASSUME NEW k \in x.locks
            PROVE  /\ owner'[k] = f \/ <<f, k>> \in expired'
                   /\ k \in VolumeLocks => permit'[ProcOf[f]][k] = f
        <5>1. CASE k = l
          BY <1>3, <1>8, <1>13, <5>1
        <5>2. CASE k \in Top(f).locks
          BY <1>2, <3>2, <3>3, <5>2
        <5> QED
          BY <1>5, <5>1, <5>2
      <4> QED
        BY <1>6, <3>3, <4>1, <4>2
    <3>4. CASE i # n
      BY <1>6, <3>1, <3>2, <3>4
    <3> QED
      BY <3>3, <3>4
  <2>2. ASSUME NEW i \in 1..n, NEW k \in 1..n, k # i
        PROVE  frames'[f][i].locks \cap frames'[f][k].locks = {}
    <3>1. frames[f][i].locks \cap frames[f][k].locks = {}
      BY <1>2, <2>2 DEF StackInv, n
    <3>2. /\ frames'[f][i].locks \subseteq frames[f][i].locks \cup {l}
          /\ frames'[f][k].locks \subseteq frames[f][k].locks \cup {l}
      BY <1>2, <1>5, <1>6
    <3>3. l \notin frames'[f][i].locks \/ l \notin frames'[f][k].locks
      BY <1>6, <1>13, <2>2
    <3> QED
      BY <1>13, <3>1, <3>2, <3>3
  <2>3. ASSUME NEW k \in Lock, owner'[k] = f
        PROVE  \E i \in 1..n : k \in frames'[f][i].locks
    <3>1. CASE k = l
      BY <1>2, <1>5, <1>6, <3>1
    <3>2. CASE k # l
      <4>1. PICK i \in 1..n : k \in frames[f][i].locks
        BY <1>2, <1>8, <2>3, <3>2 DEF StackInv, n
      <4>2. frames[f][i].locks \subseteq frames'[f][i].locks
        BY <1>2, <1>5, <1>6
      <4> QED
        BY <4>1, <4>2
    <3> QED
      BY <3>1, <3>2
  <2> QED
    BY <1>6, <2>1, <2>2, <2>3 DEF StackInv
<1>19. Covered(f)'
  <2>1. ASSUME NEW i \in 1..n, i < n, NEW k \in frames'[f][i].keys PROVE \E j \in 1..i : k \in frames'[f][j].locks
    <3>1. frames'[f][i] = frames[f][i]
      BY <1>6, <2>1, <1>2
    <3>2. PICK j \in 1..i : k \in frames[f][j].locks
      BY <1>2, <2>1, <3>1 DEF Covered, n
    <3>3. j \in 1..n /\ frames[f][j].locks \subseteq frames'[f][j].locks
      BY <1>2, <1>5, <1>6, <1>17
    <3> QED
      BY <3>2, <3>3
  <2>2. ASSUME pc'[f] = "run" PROVE x.keys \subseteq x.locks
    BY <1>5, <1>8, <1>14, <2>2
  <2>3. ASSUME pc'[f] \notin Opening, NEW k \in frames'[f][n].keys PROVE \E j \in 1..n : k \in frames'[f][j].locks
    BY <1>2, <1>6, <1>8, <2>2, <2>3 DEF Opening
  <2> QED
    BY <1>6, <1>16, <2>1, <2>3 DEF Covered
<1>20. Rooted(f)'
  <2>1. frames \in [Fiber -> Seq(Frame)] /\ frames' \in [Fiber -> Seq(Frame)]
    BY <1>6, <1>7
  <2>2. ASSUME NEW k \in Around(f)' \cap AppLocks PROVE k \in Around(f)
    <3>1. PICK i \in 1..n : k \in frames'[f][i].keys
      BY <1>6, <2>1, <2>2, AroundIs
    <3>2. i # n
      BY <1>5, <1>6, <1>14, <2>2, <3>1, LockSets
    <3>3. i < n /\ k \in frames[f][i].keys
      BY <1>6, <1>16, <3>1, <3>2
    <3> QED
      BY <2>1, <3>3, AroundIs DEF n
  <2> QED
    BY <1>2, <1>3, <2>2 DEF Rooted, state
<1>21. StepInv(f)'
  <2>1. pc'[f] = "guard" => want'[f] # {}
    BY <1>2, <1>8
  <2>2. x.keys \subseteq x.locks \cup want'[f] /\ want'[f] \subseteq x.keys /\ x.keys \subseteq VolumeLocks
    BY <1>5, <1>8, <1>14
  <2>3. pc'[f] = "guard" => todo'[f] # <<>>
    BY <1>2, <1>8
  <2> QED
    BY <1>6, <1>8, <1>15, <1>20, <2>1, <2>2, <2>3 DEF StepInv, Idle
<1>22. \A k \in Lock : \A h \in Fiber : h # f /\ owner'[k] = h => owner[k] = h
  BY <1>4, <1>8
<1>23. \A k \in Lock : \A h \in Fiber \ {f} : owner[k] = h /\ Alive(h) => owner'[k] = h \/ <<h, k>> \in expired'
  BY <1>8, <1>10
<1>24. ASSUME NEW k \in AppLocks, NEW h \in Fiber, owner'[k] = h
       PROVE  <<k, h>> \in env'[ProcOf[f]] \/ (owner[k] = h /\ <<k, h>> \notin env[ProcOf[f]])
  BY <1>3, <1>4, <1>8, <1>24 DEF Lock
<1> QED
  <2>1. \A g \in Fiber \ {f} : \A k \in VolumeLocks :
           permit[ProcOf[g]][k] = g => permit'[ProcOf[g]][k] = g
    BY <1>3
  <2>2. UNCHANGED state /\ (overlapped => overlapped') /\ env' = env
    BY <1>3
  <2> QED
    BY <1>2, <1>9, <1>10, <1>11, <1>12, <1>18, <1>19, <1>21, <1>22, <1>23, <1>24, <2>1, <2>2, Changes

LEMMA ReleaseLockKeeps ==
  ASSUME LocksInv, NEW f \in Fiber, ReleaseLock(f)
  PROVE  LocksInv'
<1> DEFINE l == Last(f)
           n == Len(frames[f])
           P == ProcOf[f]
           x == [Top(f) EXCEPT !.locks = @ \ {l}]
<1>1. /\ pc[f] \in {"leave", "unwind"} /\ frames[f] # <<>> /\ Top(f).locks # {}
      /\ pc[f] \notin Idle /\ ~Runs(f, "launched") /\ pc[f] \in Opening
  BY DEF ReleaseLock, Idle, Runs, Opening
<1>2. LockTypes /\ StackInv(f) /\ Covered(f) /\ StepInv(f) /\ Rooted(f)
  BY Where
<1>3. n \in Nat /\ n \in 1..n /\ Top(f) = frames[f][n] /\ Top(f) \in Frame
  BY <1>1, <1>2, TopFacts
<1>4. l \in Top(f).locks /\ l \in Lock
  BY <1>1, <1>2, <1>3, LastIsTop DEF Frame
<1>5. /\ owner' = Released(f, l)
      /\ \/ Top(f).locks = {l} /\ Pop(f) /\ Goto(f, IF pc[f] = "leave" THEN "run" ELSE "unwind")
         \/ Top(f).locks # {l} /\ WithTop(f, x) /\ pc' = pc
      /\ \/ l \in VolumeLocks /\ permit' = [permit EXCEPT ![P][l] = Nobody] /\ UNCHANGED <<env, overlapped>>
         \/ /\ l \notin VolumeLocks /\ env' = [env EXCEPT ![P] = Top(f).env] /\ permit' = permit
            /\ overlapped' = (overlapped \/ env[P] # installHolderEnv(Top(f).env, l, f))
      /\ UNCHANGED <<todo, want, expired, state>>
  BY DEF ReleaseLock, Last
<1>6. x \in Frame /\ x.keys = Top(f).keys /\ x.locks = Top(f).locks \ {l} /\ x.locks \subseteq Top(f).locks
  BY <1>3 DEF Frame
<1> HIDE DEF x, l
<1>7. P \in Proc /\ Nobody # f /\ Nobody \notin Fiber
  BY LocksAssumption DEF LocksAssumption
<1>8. /\ owner \in [Lock -> Fiber \cup {Nobody}] /\ pc \in [Fiber -> Steps]
      /\ env \in [Proc -> SUBSET (Lock \X Fiber)] /\ frames \in [Fiber -> Seq(Frame)]
  BY <1>2 DEF LockTypes
<1>9. /\ owner' \in [Lock -> Fiber \cup {Nobody}] /\ owner'[l] # f
      /\ \A k \in Lock : k # l => owner'[k] = owner[k]
      /\ \A k \in Lock : \A h \in Fiber : owner'[k] = h => owner[k] = h
      /\ \A k \in Lock : \A h \in Fiber \ {f} : owner[k] = h => owner'[k] = h
  <2>1. CASE owner[l] = f
    <3>1. owner' = [owner EXCEPT ![l] = Nobody]
      BY <1>5, <2>1 DEF Released
    <3> QED
      BY <1>4, <1>7, <1>8, <2>1, <3>1
  <2>2. CASE owner[l] # f
    <3>1. owner' = owner
      BY <1>5, <2>2 DEF Released
    <3> QED
      BY <1>8, <2>2, <3>1
  <2> QED
    BY <2>1, <2>2
\* The phases that stay: n of them with the last one changed, or one less.
<1>10. \A i \in 1..n : \A k \in 1..n : k # i => frames[f][i].locks \cap frames[f][k].locks = {}
  BY <1>2 DEF StackInv
<1>11. \A i \in 1..n : i # n => l \notin frames[f][i].locks
  BY <1>3, <1>4, <1>10
<1>12. /\ frames' \in [Fiber -> Seq(Frame)] /\ \A g \in Fiber : g # f => frames'[g] = frames[g]
       /\ \A i \in 1..Len(frames'[f]) :
            /\ i \in 1..n /\ frames'[f][i].keys = frames[f][i].keys
            /\ frames'[f][i].locks \subseteq frames[f][i].locks /\ l \notin frames'[f][i].locks
            /\ \A k \in frames[f][i].locks : k = l \/ k \in frames'[f][i].locks
            /\ i < n => frames'[f][i] = frames[f][i]
       /\ \A i \in 1..n : i < n => i \in 1..Len(frames'[f])
  <2>1. CASE Pop(f)
    <3>1. /\ frames' \in [Fiber -> Seq(Frame)] /\ \A g \in Fiber : g # f => frames'[g] = frames[g]
          /\ Len(frames'[f]) = n - 1
          /\ \A i \in 1..Len(frames'[f]) : i \in 1..n /\ frames'[f][i] = frames[f][i]
          /\ \A i \in 1..n : i # n => i \in 1..Len(frames'[f])
      BY <1>1, <1>2, <2>1, Popped
    <3>2. \A i \in 1..Len(frames'[f]) : i # n
      BY <1>3, <3>1
    <3>3. \A i \in 1..n : i < n => i # n
      BY <1>3
    <3> HIDE DEF n
    <3> QED
      BY <1>11, <3>1, <3>2, <3>3
  <2>2. CASE WithTop(f, x)
    <3>1. /\ frames' \in [Fiber -> Seq(Frame)] /\ \A g \in Fiber : g # f => frames'[g] = frames[g]
          /\ Len(frames'[f]) = n /\ frames'[f][n] = x
          /\ \A i \in 1..n : i # n => frames'[f][i] = frames[f][i]
      BY <1>1, <1>2, <1>6, <2>2, Topped
    <3>2. \A i \in 1..n : i < n => i # n
      BY <1>3
    <3> HIDE DEF n
    <3> QED
      BY <1>3, <1>6, <1>11, <3>1, <3>2
  <2> QED
    BY <1>5, <2>1, <2>2
<1>13. /\ pc' \in [Fiber -> Steps] /\ \A g \in Fiber : g # f => pc'[g] = pc[g]
       /\ pc'[f] \in {"run", "leave", "unwind"}
       /\ pc'[f] = "run" => Top(f).locks = {l} /\ Pop(f)
  <2>1. CASE Top(f).locks = {l} /\ Pop(f) /\ Goto(f, IF pc[f] = "leave" THEN "run" ELSE "unwind")
    <3>1. pc' = [pc EXCEPT ![f] = "run"] \/ pc' = [pc EXCEPT ![f] = "unwind"]
      BY <2>1 DEF Goto
    <3> QED
      BY <1>8, <2>1, <3>1 DEF Steps
  <2>2. CASE pc' = pc
    BY <1>1, <1>8, <2>2
  <2> QED
    BY <1>5, <2>1, <2>2
<1>14. /\ permit' \in [Proc -> [VolumeLocks -> Fiber \cup {Nobody}]]
       /\ \A k \in VolumeLocks : k # l => permit'[P][k] = permit[P][k]
       /\ \A g \in Fiber \ {f} : \A k \in VolumeLocks :
            permit[ProcOf[g]][k] = g => permit'[ProcOf[g]][k] = g
  <2>1. CASE l \in VolumeLocks
    <3>1. permit[P][l] = f
      BY <1>2, <1>3, <1>4, <2>1 DEF StackInv
    <3>2. permit' = [permit EXCEPT ![P][l] = Nobody]
      BY <1>5, <2>1
    <3> QED
      BY <2>1, <3>1, <3>2, PermitKept
  <2>2. CASE l \notin VolumeLocks
    BY <1>2, <1>5, <2>2 DEF LockTypes
  <2> QED
    BY <2>1, <2>2
<1>15. env' \in [Proc -> SUBSET (Lock \X Fiber)] /\ \A p \in Proc : p # P => env'[p] = env[p]
  <2>1. CASE env' = env
    BY <1>8, <2>1
  <2>2. CASE env' = [env EXCEPT ![P] = Top(f).env]
    <3>1. Top(f).env \in SUBSET (Lock \X Fiber)
      BY <1>3 DEF Frame
    <3> QED
      BY <1>7, <1>8, <2>2, <3>1
  <2> QED
    BY <1>5, <2>1, <2>2
<1>16. overlapped' \in BOOLEAN /\ (overlapped => overlapped')
  <2>1. overlapped \in BOOLEAN
    BY <1>2 DEF LockTypes
  <2>2. CASE overlapped' = overlapped
    BY <2>1, <2>2
  <2>3. CASE overlapped' = (overlapped \/ env[P] # installHolderEnv(Top(f).env, l, f))
    BY <2>1, <2>3, Zenon
  <2> QED
    BY <1>5, <2>2, <2>3
<1>17. LockTypes'
  BY <1>2, <1>5, <1>9, <1>12, <1>13, <1>14, <1>15, <1>16 DEF LockTypes, state
<1>18. OnlyOf(f) /\ ~Runs(f, "launched")' /\ pc'[f] # "wait"
  <2>1. pc'[f] = "run" => pc[f] = "leave"
    <3>1. CASE Goto(f, IF pc[f] = "leave" THEN "run" ELSE "unwind")
      BY <1>8, <3>1 DEF Goto
    <3> QED
      BY <1>1, <1>5, <3>1
  <2>2. todo'[f] = todo[f] /\ (pc[f] = "leave" => todo[f] = <<>> \/ Head(todo[f]).do # "launched")
    BY <1>2, <1>5 DEF StepInv
  <2>3. ~Runs(f, "launched")'
    BY <2>1, <2>2 DEF Runs
  <2> QED
    BY <1>5, <1>12, <1>13, <2>3 DEF OnlyOf
<1>19. Alive(f) /\ Alive(f)' /\ UNCHANGED state
  BY <1>1, <1>2, <1>5 DEF StepInv, Alive, Idle, state
<1>20. \A i \in 1..n : frames[f][i].locks \subseteq Lock
  <2>1. frames[f] \in Seq(Frame)
    BY <1>8
  <2>2. \A i \in 1..n : frames[f][i] \in Frame
    BY <2>1, ElementOfSeq
  <2> QED
    BY <2>2 DEF Frame
<1> DEFINE m == Len(frames'[f])
<1>21. m \in Nat
  BY <1>12
<1>22. \A i \in 1..m :
         i \in 1..n /\ (i < m => i < n) /\ (pc'[f] \notin Opening => i < n) /\ \A k \in 1..i : k \in 1..m
  <2>1. \A i \in 1..m : i \in 1..n
    BY <1>12
  <2>2. pc'[f] \notin Opening => m = n - 1
    BY <1>1, <1>2, <1>13, Popped DEF Opening
  <2>3. m > n => FALSE
    <3>1. m > n => m \in 1..m
      BY <1>3, <1>21
    <3> QED
      BY <1>3, <1>21, <2>1, <3>1
  <2> HIDE DEF m, n
  <2> QED
    BY <1>3, <1>21, <2>1, <2>2, <2>3
<1>23. StackInv(f)'
  <2>1. ASSUME NEW i \in 1..m
        PROVE  /\ frames'[f][i].locks \subseteq frames'[f][i].keys
               /\ frames'[f][i].locks \subseteq VolumeLocks \/ \E k \in AppLocks : frames'[f][i].locks = {k}
               /\ \A k \in frames'[f][i].locks :
                    /\ owner'[k] = f \/ <<f, k>> \in expired'
                    /\ k \in VolumeLocks => permit'[P][k] = f
    <3>1. /\ frames[f][i].locks \subseteq frames[f][i].keys
          /\ frames[f][i].locks \subseteq VolumeLocks \/ \E k \in AppLocks : frames[f][i].locks = {k}
          /\ \A k \in frames[f][i].locks :
               /\ owner[k] = f \/ <<f, k>> \in expired
               /\ k \in VolumeLocks => permit[P][k] = f
      BY <1>2, <1>22 DEF StackInv
    <3>2. /\ frames'[f][i].keys = frames[f][i].keys /\ frames'[f][i].locks \subseteq frames[f][i].locks
          /\ l \notin frames'[f][i].locks /\ frames'[f][i].locks \subseteq Lock
      BY <1>12, <1>20, <1>22
    <3>3. frames'[f][i].locks \subseteq VolumeLocks \/ \E k \in AppLocks : frames'[f][i].locks = {k}
      <4>1. CASE frames'[f][i] = frames[f][i]
        BY <3>1, <4>1
      <4>2. CASE i = n /\ ~Pop(f)
        <5>1. Top(f).locks # {l}
          BY <1>5, <4>2
        <5>2. Top(f).locks \subseteq VolumeLocks
          BY <1>3, <1>4, <3>1, <4>2, <5>1
        <5> QED
          BY <1>3, <3>2, <4>2, <5>2
      <4>3. Pop(f) => frames'[f][i] = frames[f][i]
        BY <1>2, <2>1, Popped
      <4>4. i # n => i < n
        BY <1>3, <1>22
      <4> QED
        BY <1>12, <2>1, <4>1, <4>2, <4>3, <4>4
    <3> QED
      BY <1>5, <1>9, <1>14, <3>1, <3>2, <3>3
  <2>2. ASSUME NEW i \in 1..m, NEW k \in 1..m, k # i
        PROVE  frames'[f][i].locks \cap frames'[f][k].locks = {}
    BY <1>10, <1>12, <1>22, <2>2
  <2>3. ASSUME NEW k \in Lock, owner'[k] = f
        PROVE  \E i \in 1..m : k \in frames'[f][i].locks
    <3>1. k # l /\ owner[k] = f
      BY <1>9, <2>3
    <3>2. PICK i \in 1..n : k \in frames[f][i].locks
      BY <1>2, <1>19, <3>1 DEF StackInv
    <3>3. i \in 1..m
      <4>1. CASE i < n
        BY <1>12, <3>2, <4>1
      <4>2. CASE i = n
        <5>1. Top(f).locks # {l}
          BY <1>3, <3>1, <3>2, <4>2
        <5>2. m = n
          BY <1>1, <1>2, <1>5, <1>6, <5>1, Topped
        <5> QED
          BY <3>2, <5>2
      <4> QED
        BY <1>3, <4>1, <4>2
    <3> QED
      BY <1>12, <3>1, <3>2, <3>3
  <2> QED
    BY <2>1, <2>2, <2>3 DEF StackInv
<1>24. Covered(f)'
  <2>1. ASSUME NEW i \in 1..m, pc'[f] \in Opening => i < m, NEW k \in frames'[f][i].keys
        PROVE  \E j \in 1..i : k \in frames'[f][j].locks
    <3>1. i < n /\ i \in 1..n /\ frames'[f][i].keys = frames[f][i].keys
      BY <1>12, <1>22, <2>1
    <3>2. PICK j \in 1..i : k \in frames[f][j].locks
      BY <1>2, <2>1, <3>1 DEF Covered
    <3>3. j \in 1..m /\ j < n
      BY <1>3, <1>22, <3>1
    <3>4. frames'[f][j] = frames[f][j]
      BY <1>12, <3>3
    <3> QED
      BY <3>2, <3>4
  <2> QED
    BY <2>1 DEF Covered
<1>25. Rooted(f)'
  <2>1. ASSUME NEW k \in Around(f)' PROVE k \in Around(f)
    <3>1. PICK i \in 1..m : (pc'[f] \in Opening => i < m) /\ k \in frames'[f][i].keys
      BY <1>8, <1>12, <2>1, AroundIs
    <3>2. i < n /\ i \in 1..n /\ k \in frames[f][i].keys
      BY <1>12, <1>22, <3>1
    <3> QED
      BY <1>8, <1>12, <3>2, AroundIs
  <2> QED
    BY <1>2, <1>5, <2>1 DEF Rooted, state
<1>26. StepInv(f)'
  <2>1. pc'[f] = "leave" => pc[f] = "leave"
    <3>1. CASE Goto(f, IF pc[f] = "leave" THEN "run" ELSE "unwind")
      BY <1>8, <3>1 DEF Goto
    <3> QED
      BY <1>5, <3>1
  <2>2. pc'[f] = "leave" => todo'[f] = <<>> \/ Head(todo'[f]).do # "launched"
    BY <1>2, <1>5, <2>1 DEF StepInv
  <2> QED
    BY <1>13, <1>19, <1>25, <2>2 DEF StepInv, Idle
\* The environment of the time before the phase still names what the process holds.
<1>27. ASSUME ~overlapped', NEW k \in AppLocks, NEW h \in Fiber, owner'[k] = h
       PROVE  <<k, h>> \in env'[P] \/ (owner[k] = h /\ <<k, h>> \notin env[P])
  <2>1. owner[k] = h /\ (k # l \/ h # f)
    BY <1>9, <1>27 DEF Lock
  <2>2. CASE env' = env
    BY <2>1, <2>2
  <2>3. CASE /\ env' = [env EXCEPT ![P] = Top(f).env]
             /\ overlapped' = (overlapped \/ env[P] # installHolderEnv(Top(f).env, l, f))
    <3>1. env'[P] = Top(f).env
      BY <1>7, <1>8, <2>3
    <3>2. env[P] = installHolderEnv(Top(f).env, l, f)
      BY <1>27, <2>3
    <3>3. <<k, h>> \in env[P] => <<k, h>> \in Top(f).env
      BY <2>1, <3>2 DEF installHolderEnv
    <3> QED
      BY <2>1, <3>1, <3>3
  <2> QED
    BY <1>5, <2>2, <2>3
<1> HIDE DEF m, n
<1> QED
  <2>1. \A k \in Lock : \A h \in Fiber : h # f /\ owner'[k] = h => owner[k] = h
    BY <1>9
  <2>2. \A k \in Lock : \A h \in Fiber \ {f} : owner[k] = h /\ Alive(h) => owner'[k] = h \/ <<h, k>> \in expired'
    BY <1>9
  <2>3. \A g \in Fiber \ {f} : \A k \in VolumeLocks : permit[ProcOf[g]][k] = g => permit'[ProcOf[g]][k] = g
    BY <1>14
  <2>4. expired \subseteq expired'
    BY <1>5
  <2> QED
    BY <1>1, <1>15, <1>16, <1>17, <1>18, <1>19, <1>23, <1>24, <1>26, <1>27, <2>1, <2>2, <2>3, <2>4, Changes

-----------------------------------------------------------------------------
(* Commands that begin, launch and wait; deaths and moves.                 *)

\* A fiber that neither holds nor closes anything: its phases are none, or stay as they are.
LEMMA HeldKept ==
  ASSUME LocksInv, NEW f \in Fiber,
         UNCHANGED <<owner, permit, frames, want, expired, dead, root, drifted>>,
         pc[f] = "idle" \/ pc[f] = "run", pc'[f] = "run", Alive(f)
  PROVE  StackInv(f)' /\ Covered(f)' /\ StepInv(f)'
<1>1. LockTypes /\ StackInv(f) /\ Covered(f) /\ StepInv(f) /\ Rooted(f)
  BY Where
<1>2. pc[f] \notin Opening /\ UNCHANGED state
  BY DEF Opening, state
<1>3. StackInv(f)' /\ Covered(f)' /\ Rooted(f)'
  <2>1. StackInv(f)'
    BY <1>1, PermitsOfAll, StackSame
  <2> QED
    BY <1>1, <1>2, <2>1, CoveredSame, RootedSame
<1>4. StepInv(f)'
  BY <1>1, <1>3 DEF StepInv, Idle, Alive
<1> QED
  BY <1>3, <1>4

LEMMA RestKept ==
  ASSUME LocksInv, LockTypes', NEW f \in Fiber, OnlyOf(f),
         UNCHANGED <<owner, permit, expired, overlapped, state>>, NEW g \in Fiber \ {f}
  PROVE  StackInv(g)' /\ Covered(g)' /\ StepInv(g)'
<1>1. Spares(g)
  BY DEF Spares, OnlyOf
<1>2. UNCHANGED state /\ expired \subseteq expired'
  OBVIOUS
<1> QED
  BY <1>1, <1>2, SparedKept DEF LocksInv

LEMMA BeginKeeps ==
  ASSUME LocksInv, NEW f \in Fiber, Begin(f)
  PROVE  LocksInv'
<1>1. LockTypes /\ StackInv(f) /\ Covered(f) /\ StepInv(f) /\ Rooted(f)
  BY Where
<1>2. /\ pc[f] = "idle" /\ Alive(f) /\ Goto(f, "run")
      /\ ParentOf[f] # Nobody => Launched(f)
      /\ UNCHANGED <<owner, permit, env, frames, want, expired, overlapped, state>>
  BY DEF Begin, Launched
<1>3. PICK program \in Program[f] : todo' = [todo EXCEPT ![f] = program]
  BY DEF Begin
<1>4. program \in Seq(Instruction(f))
  BY ProgramsAssumption DEF ProgramsAssumption
<1>5. pc' = [pc EXCEPT ![f] = "run"] /\ pc \in [Fiber -> Steps] /\ todo \in [Fiber -> Seq(Works)]
  BY <1>1, <1>2 DEF LockTypes, Goto
<1>6. /\ pc'[f] = "run" /\ todo'[f] = program
      /\ \A g \in Fiber : g # f => pc'[g] = pc[g] /\ todo'[g] = todo[g]
  BY <1>3, <1>5
<1>7. \A y \in Instruction(f) : y \in Work(f) /\ y \in Works /\ y.do # "launched"
  BY DEF Work, Works, Instruction
<1>8. program # <<>> => /\ Head(program) \in Instruction(f) /\ Tail(program) \in Seq(Instruction(f))
  BY <1>4, HeadTailProperties
<1>9. ~Runs(f, "launched")' /\ ~Runs(f, "launched")
  BY <1>2, <1>6, <1>7, <1>8 DEF Runs
<1>10. LockTypes'
  <2>1. program \in Seq(Works)
    BY <1>4, <1>7
  <2>2. pc' \in [Fiber -> Steps] /\ todo' \in [Fiber -> Seq(Works)]
    BY <1>3, <1>5, <2>1 DEF Steps
  <2>3. \A g \in Fiber : todo'[g] # <<>> => Head(todo'[g]) \in Work(g) /\ Tail(todo'[g]) \in Seq(Instruction(g))
    BY <1>1, <1>6, <1>7, <1>8 DEF LockTypes
  <2> QED
    BY <1>1, <1>2, <2>2, <2>3 DEF LockTypes, state
<1>11. OnlyOf(f)
  BY <1>2, <1>6 DEF OnlyOf
<1>12. StackInv(f)' /\ Covered(f)' /\ StepInv(f)'
  BY <1>2, <1>6, HeldKept DEF state
<1>13. ASSUME NEW g \in Fiber \ {f} PROVE StackInv(g)' /\ Covered(g)' /\ StepInv(g)'
  BY <1>2, <1>10, <1>11, RestKept
<1>14. ASSUME NEW g \in Fiber PROVE Awaited(g)' /\ EnvTells(g)'
  <2>1. Awaited(g) /\ EnvTells(g)
    BY DEF LocksInv
  <2>2. dead' = dead
    BY <1>2 DEF state
  <2>3. EnvTells(g)'
    BY <1>2, <2>1, <2>2 DEF EnvTells, Alive
  <2>4. CASE ParentOf[g] = Nobody
    BY <2>3, <2>4 DEF Awaited
  <2>5. CASE ParentOf[g] # Nobody /\ ParentOf[g] = f
    <3>1. g # f /\ ~Launched(g) /\ ~Launched(g)'
      BY <1>9, <2>5, ParentIsAnother DEF Launched
    <3>2. pc[g] \in Idle
      BY <1>2, <2>1, <2>5, <3>1 DEF Awaited
    <3>3. pc'[g] \in Idle /\ pc'[g] # "wait"
      BY <1>6, <3>1, <3>2 DEF Idle
    <3> QED
      BY <2>3, <3>1, <3>3 DEF Awaited, NotBehindParent
  <2>6. CASE ParentOf[g] # Nobody /\ ParentOf[g] # f
    <3>1. ParentOf[g] \in Fiber /\ ParentOf[g] # g
      BY <2>6, ParentIsAnother
    <3>2. (Launched(g)' <=> Launched(g)) /\ (Alive(ParentOf[g])' <=> Alive(ParentOf[g]))
      BY <1>6, <2>2, <2>6, <3>1 DEF Launched, Runs, Alive
    <3>3. (TokensTell' <=> TokensTell) /\ Wanted(g)' = Wanted(g)
      BY <1>2, SameWish DEF TokensTell
    <3>4. CASE g = f
      BY <1>2, <1>6, <2>1, <2>3, <2>6, <3>2, <3>4 DEF Awaited, NotBehindParent
    <3>5. CASE g # f
      BY <1>2, <1>6, <2>1, <2>3, <2>6, <3>2, <3>3, <3>5 DEF Awaited, NotBehindParent
    <3> QED
      BY <3>4, <3>5
  <2> QED
    BY <2>4, <2>5, <2>6
<1> QED
  BY <1>10, <1>12, <1>13, <1>14 DEF LocksInv

LEMMA LaunchKeeps ==
  ASSUME LocksInv, NEW f \in Fiber, Launch(f)
  PROVE  LocksInv'
<1> DEFINE c == Head(todo[f]).child
           w == [do |-> "launched", child |-> c]
<1>1. LockTypes /\ StackInv(f) /\ Covered(f) /\ StepInv(f) /\ Rooted(f)
  BY Where
<1>2. /\ pc[f] = "run" /\ todo[f] # <<>> /\ Head(todo[f]).do = "hook"
      /\ todo' = [todo EXCEPT ![f] = <<w>> \o Tail(todo[f])]
      /\ env' = [env EXCEPT ![ProcOf[c]] = env[ProcOf[f]]]
      /\ UNCHANGED <<owner, permit, pc, frames, want, expired, overlapped, state>>
  BY <1>1 DEF Launch, Runs, LockTypes
<1>3. Alive(f) /\ ~Runs(f, "launched")
  BY <1>1, <1>2 DEF StepInv, Runs
<1>4. c \in Fiber /\ ParentOf[c] = f /\ f # Nobody /\ c # f /\ \A g \in Fiber : g # c => ProcOf[g] # ProcOf[c]
  <2>1. c \in Fiber /\ ParentOf[c] = f /\ f # Nobody
    BY <1>1, <1>2, WorkFacts, LocksAssumption DEF LocksAssumption
  <2> QED
    BY <2>1, ParentIsAnother
<1>5. todo \in [Fiber -> Seq(Works)] /\ env \in [Proc -> SUBSET (Lock \X Fiber)] /\ ProcOf \in [Fiber -> Proc]
  BY <1>1, LocksAssumption DEF LockTypes, LocksAssumption
<1>6. w \in Work(f) /\ w \in Works /\ w.do = "launched" /\ w.child = c
  BY <1>4 DEF Work, Works
<1> HIDE DEF c, w
<1>7. Tail(todo[f]) \in Seq(Instruction(f)) /\ Tail(todo[f]) \in Seq(Works)
  BY <1>1, <1>2, WorkFacts DEF LockTypes
<1>8. /\ <<w>> \o Tail(todo[f]) \in Seq(Works) /\ <<w>> \o Tail(todo[f]) # <<>>
      /\ Head(<<w>> \o Tail(todo[f])) = w /\ Tail(<<w>> \o Tail(todo[f])) = Tail(todo[f])
  <2> DEFINE s == <<w>> \o Tail(todo[f])
  <2>1. <<w>> \in Seq(Works) /\ Len(<<w>>) = 1 /\ <<w>>[1] = w
    BY <1>6
  <2>2. s \in Seq(Works) /\ Len(s) = 1 + Len(Tail(todo[f]))
        /\ \A i \in 1..Len(s) : s[i] = IF i <= 1 THEN w ELSE Tail(todo[f])[i - 1]
    BY <1>7, <2>1, ConcatProperties
  <2>3. Len(Tail(todo[f])) \in Nat
    BY <1>7
  <2>4. s # <<>> /\ s[1] = w
    BY <2>2, <2>3
  <2>5. Head(s) = w
    BY <2>2, <2>4
  <2>6. Tail(s) \in Seq(Works) /\ Len(Tail(s)) = Len(Tail(todo[f]))
        /\ \A i \in 1..Len(Tail(s)) : Tail(s)[i] = Tail(todo[f])[i]
    <3>1. Tail(s) \in Seq(Works) /\ Len(Tail(s)) = Len(s) - 1 /\ \A i \in 1..Len(Tail(s)) : Tail(s)[i] = s[i + 1]
      BY <2>2, <2>4, HeadTailProperties
    <3> HIDE DEF s
    <3> QED
      BY <2>2, <2>3, <3>1
  <2>7. Tail(s) = Tail(todo[f])
    <3> HIDE DEF s
    <3> QED
      BY <1>7, <2>6, SeqEqual
  <2> QED
    BY <2>2, <2>4, <2>5, <2>7
<1>9. todo'[f] = <<w>> \o Tail(todo[f]) /\ \A g \in Fiber : g # f => todo'[g] = todo[g]
  BY <1>2, <1>5
<1>10. env'[ProcOf[c]] = env[ProcOf[f]] /\ \A g \in Fiber : g # c => env'[ProcOf[g]] = env[ProcOf[g]]
  BY <1>2, <1>4, <1>5
<1>11. LockTypes'
  <2>1. todo' \in [Fiber -> Seq(Works)]
    BY <1>2, <1>5, <1>8
  <2>2. \A g \in Fiber : todo'[g] # <<>> => Head(todo'[g]) \in Work(g) /\ Tail(todo'[g]) \in Seq(Instruction(g))
    BY <1>1, <1>6, <1>7, <1>8, <1>9 DEF LockTypes
  <2>3. env' \in [Proc -> SUBSET (Lock \X Fiber)]
    BY <1>2, <1>5
  <2> QED
    BY <1>1, <1>2, <2>1, <2>2, <2>3 DEF LockTypes, state
<1>12. OnlyOf(f)
  BY <1>2, <1>9 DEF OnlyOf
<1>13. StackInv(f)' /\ Covered(f)' /\ StepInv(f)'
  BY <1>2, <1>3, HeldKept DEF state
<1>14. ASSUME NEW g \in Fiber \ {f} PROVE StackInv(g)' /\ Covered(g)' /\ StepInv(g)'
  BY <1>2, <1>11, <1>12, RestKept
<1>15. dead' = dead /\ \A g \in Fiber : Alive(g)' <=> Alive(g)
  BY <1>2 DEF state, Alive
<1>16. Awaited(c) /\ pc[c] \in Idle
  <2>1. Awaited(c) /\ ~Launched(c)
    BY <1>3, <1>4 DEF LocksInv, Launched
  <2> QED
    BY <1>3, <1>4, <2>1 DEF Awaited
<1>17. ASSUME NEW g \in Fiber PROVE EnvTells(g)'
  <2>1. EnvTells(g)
    BY DEF LocksInv
  <2>2. CASE g # c
    BY <1>2, <1>10, <1>15, <2>1, <2>2 DEF EnvTells
  <2>3. CASE g = c
    <3>1. frames[c] = <<>> /\ StackInv(c)
      BY <1>4, <1>16 DEF LocksInv, StepInv
    <3>2. \A l \in AppLocks : ~(owner[l] = c /\ Alive(c))
      <4>1. Len(frames[c]) = 0
        BY <3>1
      <4> QED
        BY <3>1, <4>1 DEF StackInv, Lock
    <3> QED
      BY <1>2, <1>15, <2>3, <3>2 DEF EnvTells
  <2> QED
    BY <2>2, <2>3
<1>18. ASSUME NEW g \in Fiber PROVE Awaited(g)'
  <2>1. Awaited(g)
    BY DEF LocksInv
  <2>2. /\ (TokensTell' <=> TokensTell) /\ Wanted(g)' = Wanted(g)
        /\ pc' = pc /\ owner' = owner /\ overlapped' = overlapped
    BY <1>2, SameWish DEF TokensTell
  <2>3. CASE ParentOf[g] = Nobody
    BY <2>3 DEF Awaited
  <2>4. CASE ParentOf[g] # Nobody /\ ParentOf[g] = f /\ g # c
    <3>1. ~Launched(g) /\ ~Launched(g)'
      BY <1>3, <1>6, <1>8, <1>9, <2>4 DEF Launched
    <3>2. pc[g] \in Idle
      BY <1>3, <2>1, <2>4, <3>1 DEF Awaited
    <3> QED
      BY <2>2, <3>1, <3>2 DEF Awaited, NotBehindParent, Idle
  <2>5. CASE g = c
    <3>1. EnvTells(f)
      BY DEF LocksInv
    <3>2. ~overlapped => \A l \in AppLocks : owner[l] = f => <<l, f>> \in env'[ProcOf[c]]
      BY <1>3, <1>10, <3>1 DEF EnvTells
    <3> QED
      BY <1>4, <1>16, <2>2, <2>5, <3>2 DEF Awaited, NotBehindParent, Idle
  <2>6. CASE ParentOf[g] # Nobody /\ ParentOf[g] # f
    <3>1. ParentOf[g] \in Fiber /\ g # c
      BY <1>4, <2>6, ParentIsAnother
    <3>2. /\ (Launched(g)' <=> Launched(g)) /\ (Alive(ParentOf[g])' <=> Alive(ParentOf[g]))
          /\ env'[ProcOf[g]] = env[ProcOf[g]]
      BY <1>9, <1>10, <1>15, <2>2, <2>6, <3>1 DEF Launched, Runs
    <3> QED
      BY <2>1, <2>2, <2>6, <3>2 DEF Awaited, NotBehindParent
  <2> QED
    BY <2>3, <2>4, <2>5, <2>6
<1> QED
  BY <1>11, <1>13, <1>14, <1>17, <1>18 DEF LocksInv

LEMMA HookReturnsKeeps ==
  ASSUME LocksInv, NEW f \in Fiber, HookReturns(f)
  PROVE  LocksInv'
<1>1. LockTypes /\ StackInv(f) /\ Covered(f) /\ StepInv(f) /\ Rooted(f)
  BY Where
<1>2. /\ pc[f] = "run" /\ todo[f] # <<>> /\ Advance(f) /\ Runs(f, "launched")
      /\ pc[Head(todo[f]).child] \in {"done", "dead"}
      /\ UNCHANGED <<owner, permit, env, pc, frames, want, expired, overlapped, state>>
  BY DEF HookReturns, Runs
<1>3. /\ todo' \in [Fiber -> Seq(Works)]
      /\ \A g \in Fiber : todo'[g] # <<>> => Head(todo'[g]) \in Work(g) /\ Tail(todo'[g]) \in Seq(Instruction(g))
      /\ ~Runs(f, "launched")' /\ \A g \in Fiber : g # f => todo'[g] = todo[g]
  BY <1>1, <1>2, Advanced
<1>4. LockTypes'
  BY <1>1, <1>2, <1>3 DEF LockTypes, state
<1>5. OnlyOf(f) /\ Alive(f)
  BY <1>1, <1>2, <1>3 DEF OnlyOf, StepInv
<1>6. StackInv(f)' /\ Covered(f)' /\ StepInv(f)'
  BY <1>2, <1>5, HeldKept DEF state
<1>7. ASSUME NEW g \in Fiber \ {f} PROVE StackInv(g)' /\ Covered(g)' /\ StepInv(g)'
  BY <1>2, <1>4, <1>5, RestKept
<1>8. ASSUME NEW g \in Fiber PROVE Awaited(g)' /\ EnvTells(g)'
  <2>1. Awaited(g) /\ EnvTells(g)
    BY DEF LocksInv
  <2>2. dead' = dead
    BY <1>2 DEF state
  <2>3. EnvTells(g)'
    BY <1>2, <2>1, <2>2 DEF EnvTells, Alive
  <2>4. CASE ParentOf[g] = Nobody
    BY <2>3, <2>4 DEF Awaited
  <2>5. CASE ParentOf[g] # Nobody /\ ParentOf[g] = f
    <3>1. ~Launched(g)'
      BY <1>3, <2>5 DEF Launched
    <3>2. pc[g] \in Idle
      BY <1>2, <1>5, <2>1, <2>5 DEF Awaited, Launched, Idle
    <3> QED
      BY <1>2, <2>3, <3>1, <3>2 DEF Awaited, NotBehindParent, Idle
  <2>6. CASE ParentOf[g] # Nobody /\ ParentOf[g] # f
    <3>1. ParentOf[g] \in Fiber
      BY <2>6, ParentIsAnother
    <3>2. (Launched(g)' <=> Launched(g)) /\ (Alive(ParentOf[g])' <=> Alive(ParentOf[g]))
      BY <1>2, <1>3, <2>2, <2>6, <3>1 DEF Launched, Runs, Alive
    <3>3. (TokensTell' <=> TokensTell) /\ Wanted(g)' = Wanted(g)
      BY <1>2, SameWish DEF TokensTell
    <3> QED
      BY <1>2, <2>1, <2>3, <2>6, <3>2, <3>3 DEF Awaited, NotBehindParent
  <2> QED
    BY <2>4, <2>5, <2>6
<1> QED
  BY <1>4, <1>6, <1>7, <1>8 DEF LocksInv

LEMMA CrashKeeps ==
  ASSUME LocksInv, NEW p \in Proc, Crash(p)
  PROVE  LocksInv'
<1> DEFINE lost == {f \in Fiber : ProcOf[f] = p /\ pc[f] # "done"}
<1>1. LockTypes /\ \A f \in Fiber : StackInv(f) /\ Covered(f) /\ StepInv(f) /\ EnvTells(f) /\ Awaited(f)
  BY DEF LocksInv
<1>2. /\ dead' = dead \cup {p} /\ p \notin dead
      /\ permit' = [permit EXCEPT ![p] = [l \in VolumeLocks |-> Nobody]]
      /\ UNCHANGED <<owner, env, root, drifted, expired, overlapped>>
  BY DEF Crash
<1>3. /\ pc' = [f \in Fiber |-> IF f \in lost THEN "dead" ELSE pc[f]]
      /\ todo' = [f \in Fiber |-> IF f \in lost THEN <<>> ELSE todo[f]]
      /\ frames' = [f \in Fiber |-> IF f \in lost THEN <<>> ELSE frames[f]]
      /\ want' = [f \in Fiber |-> IF f \in lost THEN {} ELSE want[f]]
  BY DEF Crash
<1>4. /\ ProcOf \in [Fiber -> Proc] /\ permit \in [Proc -> [VolumeLocks -> Fiber \cup {Nobody}]]
      /\ pc \in [Fiber -> Steps] /\ todo \in [Fiber -> Seq(Works)] /\ frames \in [Fiber -> Seq(Frame)]
      /\ want \in [Fiber -> SUBSET Lock]
  BY <1>1, LocksAssumption DEF LockTypes, LocksAssumption
<1>5. /\ \A f \in Fiber : ProcOf[f] # p => f \notin lost
      /\ \A f \in lost : f \in Fiber /\ ProcOf[f] = p
  OBVIOUS
<1>6. \A f \in Fiber : f \notin lost =>
        pc'[f] = pc[f] /\ todo'[f] = todo[f] /\ frames'[f] = frames[f] /\ want'[f] = want[f]
  BY <1>3
<1>7. \A f \in lost : pc'[f] = "dead" /\ todo'[f] = <<>> /\ frames'[f] = <<>> /\ want'[f] = {}
  BY <1>3
\* A fiber of the process that died is over and keeps no phase.
<1>8. \A f \in Fiber : ProcOf[f] = p => pc'[f] \in {"done", "dead"} /\ frames'[f] = <<>> /\ ~Alive(f)'
  <2> SUFFICES ASSUME NEW f \in Fiber, ProcOf[f] = p
               PROVE  pc'[f] \in {"done", "dead"} /\ frames'[f] = <<>> /\ ~Alive(f)'
    OBVIOUS
  <2>1. ~Alive(f)'
    BY <1>2 DEF Alive
  <2>2. CASE f \in lost
    BY <1>7, <2>1, <2>2
  <2>3. CASE f \notin lost
    <3>1. pc[f] = "done"
      BY <2>3
    <3>2. frames[f] = <<>>
      BY <1>1, <3>1 DEF StepInv, Idle
    <3> QED
      BY <1>6, <2>1, <2>3, <3>1, <3>2
  <2> QED
    BY <2>2, <2>3
<1>9. \A f \in Fiber : ProcOf[f] # p => (Alive(f)' <=> Alive(f))
  BY <1>2 DEF Alive
<1>10. \A f \in Fiber : Alive(f)' => ProcOf[f] # p /\ Alive(f)
  BY <1>2 DEF Alive
<1>11. LockTypes'
  <2>1. pc' \in [Fiber -> Steps]
    BY <1>3, <1>4 DEF Steps
  <2>2. todo' \in [Fiber -> Seq(Works)] /\ frames' \in [Fiber -> Seq(Frame)]
    <3>1. <<>> \in Seq(Works) /\ <<>> \in Seq(Frame)
      OBVIOUS
    <3> HIDE DEF lost
    <3> QED
      BY <1>3, <1>4, <3>1
  <2>3. want' \in [Fiber -> SUBSET Lock]
    BY <1>3, <1>4
  <2>4. \A g \in Fiber : todo'[g] # <<>> => Head(todo'[g]) \in Work(g) /\ Tail(todo'[g]) \in Seq(Instruction(g))
    <3> HIDE DEF lost
    <3> QED
      BY <1>1, <1>6, <1>7 DEF LockTypes
  <2>5. permit' \in [Proc -> [VolumeLocks -> Fiber \cup {Nobody}]]
    BY <1>2, <1>4
  <2>6. dead' \subseteq Proc
    BY <1>1, <1>2 DEF LockTypes
  <2> QED
    BY <1>1, <1>2, <2>1, <2>2, <2>3, <2>4, <2>5, <2>6 DEF LockTypes
<1> HIDE DEF lost
<1>12. ASSUME NEW f \in Fiber, ProcOf[f] = p
       PROVE  StackInv(f)' /\ Covered(f)' /\ StepInv(f)' /\ EnvTells(f)'
  <2>1. pc'[f] \in {"done", "dead"} /\ frames'[f] = <<>> /\ ~Alive(f)' /\ Len(frames'[f]) = 0
    BY <1>8, <1>12
  <2>2. Around(f)' = {}
    BY <2>1 DEF Around
  <2> QED
    BY <2>1, <2>2 DEF StackInv, Covered, StepInv, EnvTells, Rooted, Idle
<1>13. ASSUME NEW f \in Fiber, ProcOf[f] # p
       PROVE  StackInv(f)' /\ Covered(f)' /\ StepInv(f)' /\ EnvTells(f)'
  <2>1. /\ pc'[f] = pc[f] /\ todo'[f] = todo[f] /\ frames'[f] = frames[f] /\ want'[f] = want[f]
        /\ (Alive(f)' <=> Alive(f)) /\ permit'[ProcOf[f]] = permit[ProcOf[f]]
    BY <1>2, <1>4, <1>5, <1>6, <1>9, <1>13
  <2>2. StackInv(f) /\ Covered(f) /\ StepInv(f) /\ EnvTells(f)
    BY <1>1
  <2>3. StackInv(f)' /\ Covered(f)' /\ EnvTells(f)'
    BY <1>2, <2>1, <2>2 DEF StackInv, Covered, EnvTells
  <2>4. Around(f)' = Around(f) /\ Held(f)' = Held(f) /\ Top(f)' = Top(f) /\ NextKey(f)' = NextKey(f)
    BY <2>1, SameWish DEF Around, Held, Top
  <2>5. StepInv(f)'
    BY <1>2, <2>1, <2>2, <2>4 DEF StepInv, Rooted
  <2> QED
    BY <2>3, <2>5
<1>14. ASSUME NEW f \in Fiber PROVE Awaited(f)'
  <2> DEFINE q == ParentOf[f]
  <2> SUFFICES ASSUME q # Nobody, Alive(q)' PROVE Awaited(f)'
    BY DEF Awaited
  <2>1. q \in Fiber /\ ProcOf[q] # p /\ Alive(q)
    BY <1>10, ParentIsAnother
  <2>2. Awaited(f)
    BY <1>1
  <2>3. Launched(f)' <=> Launched(f)
    BY <1>5, <1>6, <2>1 DEF Launched, Runs
  <2>4. CASE ProcOf[f] = p
    BY <1>8, <2>4 DEF Awaited, NotBehindParent, Idle
  <2>5. CASE ProcOf[f] # p
    <3>1. pc'[f] = pc[f] /\ want'[f] = want[f]
      BY <1>5, <1>6, <2>5
    <3>2. Wanted(f)' = Wanted(f) /\ (TokensTell' <=> TokensTell)
      BY <1>2, <3>1, SameWish DEF TokensTell
    <3> QED
      BY <1>2, <2>1, <2>2, <2>3, <3>1, <3>2 DEF Awaited, NotBehindParent
  <2> QED
    BY <2>4, <2>5
<1> QED
  BY <1>11, <1>12, <1>13, <1>14 DEF LocksInv

LEMMA MoveKeeps ==
  ASSUME LocksInv, NEW a \in App, Move(a)
  PROVE  LocksInv'
<1>1. LockTypes /\ \A f \in Fiber : StackInv(f) /\ Covered(f) /\ StepInv(f) /\ EnvTells(f) /\ Awaited(f)
  BY DEF LocksInv
<1>2. /\ root[a] < MaxMoves /\ root' = [root EXCEPT ![a] = @ + 1]
      /\ drifted' = drifted \cup {f \in Fiber : \E l \in Around(f) : l[1] = a}
      /\ UNCHANGED <<owner, permit, env, dead, pc, todo, frames, want, expired, overlapped>>
  BY DEF Move
<1>3. root \in [App -> 0..MaxMoves] /\ MaxMoves \in Nat
  BY <1>1, LocksAssumption DEF LockTypes, LocksAssumption
<1>4. root' \in [App -> 0..MaxMoves] /\ \A b \in App : b # a => root'[b] = root[b]
  BY <1>2, <1>3
<1>5. LockTypes'
  BY <1>1, <1>2, <1>4 DEF LockTypes
<1>6. ASSUME NEW f \in Fiber
      PROVE  StackInv(f)' /\ Covered(f)' /\ StepInv(f)' /\ EnvTells(f)' /\ Awaited(f)'
  <2>1. StackInv(f) /\ Covered(f) /\ StepInv(f) /\ EnvTells(f) /\ Awaited(f)
    BY <1>1
  <2>2. (Alive(f)' <=> Alive(f)) /\ (Launched(f)' <=> Launched(f)) /\ (TokensTell' <=> TokensTell)
        /\ (Alive(ParentOf[f])' <=> Alive(ParentOf[f]))
    BY <1>2 DEF Alive, Launched, Runs, TokensTell
  <2>3. StackInv(f)' /\ Covered(f)' /\ EnvTells(f)'
    BY <1>2, <2>1, <2>2 DEF StackInv, Covered, EnvTells
  <2>4. /\ Around(f)' = Around(f) /\ Held(f)' = Held(f) /\ Top(f)' = Top(f)
        /\ NextKey(f)' = NextKey(f) /\ Wanted(f)' = Wanted(f)
    BY <1>2, SameWish DEF Around, Held, Top
  <2>5. Rooted(f)'
    <3> SUFFICES ASSUME f \notin drifted', NEW l \in Around(f) \cap AppLocks PROVE l[2] = root'[l[1]]
      BY <2>4 DEF Rooted
    <3>1. f \notin drifted /\ l[1] # a /\ l[1] \in App
      BY <1>2, LockSets
    <3>2. l[2] = root[l[1]]
      BY <2>1, <3>1 DEF StepInv, Rooted
    <3> QED
      BY <1>4, <3>1, <3>2
  <2>6. StepInv(f)'
    BY <1>2, <2>1, <2>2, <2>4, <2>5 DEF StepInv
  <2>7. Awaited(f)'
    BY <1>2, <2>1, <2>2, <2>4 DEF Awaited, NotBehindParent
  <2> QED
    BY <2>3, <2>6, <2>7
<1> QED
  BY <1>5, <1>6 DEF LocksInv

LEMMA InitLocks ==
  Init => LocksInv
<1> SUFFICES ASSUME Init PROVE LocksInv
  OBVIOUS
<1>1. LockTypes
  <2>1. <<>> \in Seq(Works) /\ <<>> \in Seq(Frame)
    OBVIOUS
  <2>2. todo \in [Fiber -> Seq(Works)] /\ frames \in [Fiber -> Seq(Frame)]
    BY <2>1 DEF Init
  <2>3. root \in [App -> 0..MaxMoves]
    BY LocksAssumption DEF Init, LocksAssumption
  <2> QED
    BY <2>2, <2>3 DEF Init, LockTypes, Steps
<1>2. ASSUME NEW f \in Fiber
      PROVE  StackInv(f) /\ Covered(f) /\ StepInv(f) /\ EnvTells(f) /\ Awaited(f)
  <2>1. /\ frames[f] = <<>> /\ Len(frames[f]) = 0 /\ pc[f] = "idle" /\ dead = {} /\ f # Nobody
        /\ \A l \in Lock : owner[l] = Nobody
    BY LocksAssumption DEF Init, LocksAssumption
  <2>2. Around(f) = {}
    BY <2>1 DEF Around
  <2>3. StackInv(f) /\ Covered(f) /\ StepInv(f)
    BY <2>1, <2>2 DEF StackInv, Covered, StepInv, Rooted, Alive, Idle
  <2>4. EnvTells(f)
    BY <2>1 DEF EnvTells, Lock
  <2>5. Awaited(f)
    <3>1. ParentOf[f] # Nobody => ~Launched(f)
      BY ParentIsAnother DEF Init, Launched, Runs
    <3> QED
      BY <2>1, <3>1 DEF Awaited, NotBehindParent, Idle
  <2> QED
    BY <2>3, <2>4, <2>5
<1> QED
  BY <1>1, <1>2 DEF LocksInv

LEMMA StutterLocks ==
  ASSUME LocksInv, UNCHANGED vars
  PROVE  LocksInv'
<1>1. UNCHANGED <<owner, permit, env, root, dead, pc, todo, frames, want, drifted, expired, overlapped>>
  BY DEF vars
<1>2. LockTypes'
  BY <1>1 DEF LocksInv, LockTypes
<1>3. ASSUME NEW f \in Fiber
      PROVE  StackInv(f)' /\ Covered(f)' /\ StepInv(f)' /\ EnvTells(f)' /\ Awaited(f)'
  <2>1. StackInv(f) /\ Covered(f) /\ StepInv(f) /\ EnvTells(f) /\ Awaited(f)
    BY DEF LocksInv
  <2>2. /\ Around(f)' = Around(f) /\ Held(f)' = Held(f) /\ Top(f)' = Top(f)
        /\ NextKey(f)' = NextKey(f) /\ Wanted(f)' = Wanted(f)
    BY <1>1, SameWish DEF Around, Held, Top
  <2> QED
    BY <1>1, <2>1, <2>2 DEF StackInv, Covered, StepInv, Rooted, EnvTells, Awaited, NotBehindParent,
                            Launched, Runs, TokensTell, Alive
<1> QED
  BY <1>2, <1>3 DEF LocksInv

LEMMA NextKeepsLocks ==
  ASSUME LocksInv, [Next]_vars
  PROVE  LocksInv'
<1>1. ASSUME NEW f \in Fiber, Begin(f) \/ Step(f) \/ Fail(f) PROVE LocksInv'
  <2>1. CASE Begin(f)
    BY <2>1, BeginKeeps
  <2>2. CASE Launch(f)
    BY <2>2, LaunchKeeps
  <2>3. CASE HookReturns(f)
    BY <2>3, HookReturnsKeeps
  <2>4. CASE EnterCoordinator(f)
    BY <2>4, CoordinatorKeeps
  <2>5. CASE EnterApp(f)
    BY <2>5, EnterAppKeeps
  <2>6. CASE borrowedMutationOwner(f)
    BY <2>6, BorrowKeeps
  <2>7. CASE AcquireApp(f)
    BY <2>7, AcquireAppKeeps
  <2>8. CASE AppTimeout(f)
    BY <2>8, AppTimeoutKeeps
  <2>9. CASE Recheck(f)
    BY <2>9, RecheckKeeps
  <2>10. CASE EnterPlan(f)
    BY <2>10, EnterPlanKeeps
  <2>11. CASE TakePermit(f)
    BY <2>11, TakePermitKeeps
  <2>12. CASE TakeFile(f)
    BY <2>12, TakeFileKeeps
  <2>13. CASE VolumeTimeout(f)
    BY <2>13, VolumeTimeoutKeeps
  <2>14. CASE Leave(f)
    BY <2>14, LeaveKeeps
  <2>15. CASE ReleaseLock(f)
    BY <2>15, ReleaseLockKeeps
  <2>16. CASE ClosePhase(f)
    BY <2>16, ClosePhaseKeeps
  <2>17. CASE Finish(f)
    BY <2>17, FinishKeeps
  <2>18. CASE Fail(f)
    BY <2>18, FailKeeps
  <2> QED
    BY <1>1, <2>1, <2>2, <2>3, <2>4, <2>5, <2>6, <2>7, <2>8, <2>9, <2>10, <2>11, <2>12, <2>13, <2>14,
       <2>15, <2>16, <2>17, <2>18 DEF Step
<1>2. ASSUME NEW p \in Proc, Crash(p) PROVE LocksInv'
  BY <1>2, CrashKeeps
<1>3. ASSUME NEW a \in App, Move(a) PROVE LocksInv'
  BY <1>3, MoveKeeps
<1>4. CASE UNCHANGED vars
  BY <1>4, StutterLocks
<1> QED
  BY <1>1, <1>2, <1>3, <1>4 DEF Next

-----------------------------------------------------------------------------
(* The theorems.                                                           *)

(* Every reachable state satisfies the inductive invariant of the locks.     *)
THEOREM LocksHold ==
  Spec => []LocksInv
<1>1. Init => LocksInv
  BY InitLocks
<1>2. LocksInv /\ [Next]_vars => LocksInv'
  BY NextKeepsLocks
<1> QED
  BY <1>1, <1>2, PTL DEF Spec

(* Locks, permits, environments and phases keep their types.                  *)
THEOREM LockTypesHold ==
  Spec => []TypeOK
<1>1. LocksInv => TypeOK
  <2> SUFFICES ASSUME LocksInv PROVE TypeOK
    OBVIOUS
  <2>1. LockTypes
    BY DEF LocksInv
  <2>2. \A f \in Fiber : \A i \in DOMAIN frames[f] : frames[f][i] \in Frame
    BY <2>1, ElementOfSeq DEF LockTypes
  <2>3. expired \subseteq Fiber \X Lock
    BY <2>1 DEF LockTypes, Lock
  <2> QED
    BY <2>1, <2>2, <2>3 DEF LockTypes, TypeOK
<1> QED
  BY <1>1, LocksHold, PTL

LEMMA KeysAreLocked ==
  ASSUME LocksInv, NEW f \in Fiber, NEW l \in Around(f)
  PROVE  l \in Lock /\ (owner[l] = f \/ <<f, l>> \in expired)
<1>1. LockTypes /\ StackInv(f) /\ Covered(f)
  BY DEF LocksInv
<1>2. DOMAIN frames[f] = 1..Len(frames[f]) /\ frames[f] \in Seq(Frame)
  BY <1>1 DEF LockTypes
<1>3. PICK i \in 1..Len(frames[f]) : (pc[f] \in Opening => i < Len(frames[f])) /\ l \in frames[f][i].keys
  BY <1>2 DEF Around, Opening
<1>4. PICK k \in 1..i : l \in frames[f][k].locks
  BY <1>1, <1>3 DEF Covered
<1>5. k \in 1..Len(frames[f])
  BY <1>2
<1>6. frames[f][i] \in Frame
  BY <1>2, ElementOfSeq
<1> QED
  BY <1>1, <1>3, <1>4, <1>5, <1>6 DEF StackInv, Frame

(* Whatever commands run beside it and however its phases nest, a body runs   *)
(* with every key of every phase around it locked by its own fiber; a volume   *)
(* lock is lost to a waiter that found its owner too slow, and no other way.   *)
THEOREM BodiesHoldTheirKeys ==
  Spec => []BodyHoldsItsKeys
<1>1. LocksInv => BodyHoldsItsKeys
  BY KeysAreLocked DEF BodyHoldsItsKeys
<1> QED
  BY <1>1, LocksHold, PTL

(* Two commands never change one app at once unless its root moved under one   *)
(* of them: their keys would be the same lock, and it has one owner.           *)
THEOREM AppsHaveOneCommand ==
  Spec => []OneCommandPerApp
<1>1. LocksInv => OneCommandPerApp
  <2> SUFFICES ASSUME LocksInv, NEW f \in Fiber, NEW g \in Fiber, NEW k \in Around(f), NEW l \in Around(g),
                      f # g, k \in AppLocks, k[1] = l[1], f \notin drifted, g \notin drifted
               PROVE  FALSE
    BY DEF OneCommandPerApp
  <2>1. l \in AppLocks
    BY KeysAreLocked, LockSets
  <2>2. k[2] = root[k[1]] /\ l[2] = root[l[1]]
    BY <2>1 DEF LocksInv, StepInv, Rooted
  <2>3. k = l
    BY <2>1, <2>2, LockSets
  <2>4. <<f, k>> \notin expired /\ <<g, k>> \notin expired
    BY LockSets DEF LocksInv, LockTypes
  <2> QED
    BY <2>3, <2>4, KeysAreLocked
<1> QED
  BY <1>1, LocksHold, PTL

(* A hook's child never queues for a lock its waiting parent holds, unless     *)
(* only the tokens could tell and phases of one process closed out of order.   *)
THEOREM ChildrenGoUnwaited ==
  Spec => []ChildNeverQueuesBehindParent
<1>1. LocksInv => ChildNeverQueuesBehindParent
  <2> SUFFICES ASSUME LocksInv, NEW f \in Fiber, NEW g \in Fiber, pc[f] = "wait", owner[Wanted(f)] = g,
                      ParentOf[f] = g, Runs(g, "launched"), TokensTell
               PROVE  FALSE
    BY DEF ChildNeverQueuesBehindParent
  <2>1. g # Nobody
    BY LocksAssumption DEF LocksAssumption
  <2>2. Alive(g)
    BY DEF LocksInv, StepInv, Runs
  <2>3. NotBehindParent(f)
    BY <2>1, <2>2 DEF LocksInv, Awaited
  <2> QED
    BY <2>1, <2>2, <2>3 DEF NotBehindParent
<1> QED
  BY <1>1, LocksHold, PTL

-----------------------------------------------------------------------------
(* The order of the locks.  What is open and what is left of a program are *)
(* a pair of its course, and a fiber asks only for what comes later.       *)

\* The phases around the next instruction: not the one being opened or closed.
Depth(f) ==
  IF pc[f] \in {"check", "guard", "file", "leave"} THEN Len(frames[f]) - 1 ELSE Len(frames[f])

Stacked(f, stack) ==
  Len(stack) = Depth(f) /\ \A i \in 1..Len(stack) : stack[i] = Names(frames[f][i].keys)

\* What is left of a program, a hook that is being waited for included.
Left(f, program) ==
  \/ todo[f] = program
  \/ /\ program # <<>> /\ todo[f] # <<>> /\ Tail(program) = Tail(todo[f])
     /\ Head(todo[f]).do = "launched" /\ Head(program) = Hook(Head(todo[f]).child)

OnCourse(f) ==
  pc[f] \in {"run", "peek", "wait", "check", "guard", "file", "leave"} =>
    \E c \in Course[f] : Stacked(f, c[1]) /\ Left(f, c[2])

\* A lock that comes later than all that is open, or that a launcher of the fiber holds.
Behind(f, k) ==
  /\ \A i \in 1..Depth(f) : \A h \in frames[f][i].keys : Rank[h] < Rank[k]
  /\ \/ Rank[k] > Floor[f]
     \/ frames[f] = <<>> /\ k[1] \in Inherited[f]

Asks(f) ==
  /\ pc[f] \in {"peek", "wait"} =>
       /\ Head(todo[f]).do = "app"
       /\ \A k \in want[f] : k[1] = Head(todo[f]).app /\ Behind(f, k)
  /\ pc[f] = "check" => Head(todo[f]).do = "app"
  /\ pc[f] \in {"guard", "file"} =>
       /\ Head(todo[f]).do = "plan" /\ Top(f).keys = Head(todo[f]).keys
       /\ \A k \in want[f] : Behind(f, k) /\ \A l \in Top(f).locks : l[2] < k[2]

Ordered(f) == OnCourse(f) /\ Asks(f)

\* A permit is that of the file a fiber is about to take, or of one it has.
Permitted(f) ==
  \A p \in Proc, l \in VolumeLocks : permit[p][l] = f =>
    /\ ProcOf[f] = p
    /\ \/ pc[f] = "file" /\ l = NextKey(f)
       \/ \E i \in 1..Len(frames[f]) : l \in frames[f][i].locks

\* The app a child asks for, its launcher holds where the child looks for it.
SameApp(f) ==
  /\ pc[f] \in {"peek", "wait"} /\ ParentOf[f] # Nobody
  /\ Alive(ParentOf[f]) /\ ParentOf[f] \notin drifted
  => \A k \in Around(ParentOf[f]), l \in want[f] : k[1] = l[1] => k = l

OrderInv ==
  \A f \in Fiber : /\ Permitted(f) /\ SameApp(f)
                   /\ f \notin Teardown \cup drifted => Ordered(f)

LEMMA NamedLocks ==
  /\ \A l \in AppLocks : Named(l) = <<l[1], 0>> /\ Named(l) \in AppLocks /\ Named(l)[1] = l[1]
  /\ \A l \in VolumeLocks : Named(l) = l
  /\ \A l \in Lock : Named(l) \in Lock /\ Rank[Named(l)] = Rank[l]
  /\ \A keys \in SUBSET VolumeLocks : Names(keys) = keys
<1>1. \A l \in AppLocks : Named(l) = <<l[1], 0>> /\ Named(l) \in AppLocks /\ Named(l)[1] = l[1]
  <2>1. \A l \in AppLocks : l[1] \in App /\ 0 \in 0..MaxMoves
    BY LocksAssumption DEF LocksAssumption, AppLocks
  <2> QED
    BY <2>1 DEF Named, AppLocks
<1>2. \A l \in VolumeLocks : Named(l) = l
  BY LockSets DEF Named
<1>3. \A l \in Lock : Named(l) \in Lock /\ Rank[Named(l)] = Rank[l]
  BY <1>1, <1>2, LockSets, LockOrderAssumption DEF LockOrderAssumption
<1>4. \A keys \in SUBSET VolumeLocks : Names(keys) = keys
  BY <1>2 DEF Names
<1> QED
  BY <1>1, <1>2, <1>3, <1>4

LEMMA OrderlyIs ==
  ASSUME NEW f, NEW stack, NEW x, Orderly(f, stack, x)
  PROVE  /\ x.do = "app" => \/ <<x.app, 0>> \in Inside(stack)
                            \/ Later(f, stack, <<x.app, 0>>)
                            \/ stack = <<>> /\ x.app \in Inherited[f]
         /\ x.do = "plan" => /\ \A k, l \in x.keys : k[2] < l[2] => Rank[k] < Rank[l]
                             /\ x.keys \subseteq Inside(stack) \/ \A k \in x.keys : Later(f, stack, k)
         /\ x.do = "hook" => /\ Floor[f] < Floor[x.child]
                             /\ \A h \in Inside(stack) : Rank[h] <= Floor[x.child]
                             /\ \A a \in Inherited[x.child] : <<a, 0>> \in Inside(stack)
         /\ x.do = "end" => stack # <<>>
BY DEF Orderly

LEMMA AfterIs ==
  ASSUME NEW stack, NEW x
  PROVE  /\ x.do = "app" => After(stack, x) = Append(stack, {<<x.app, 0>>})
         /\ x.do = "plan" => After(stack, x) = Append(stack, x.keys)
         /\ x.do = "end" => After(stack, x) = SubSeq(stack, 1, Len(stack) - 1)
         /\ x.do \in {"hook", "coordinate"} => After(stack, x) = stack
BY DEF After

\* Where a program stands on its course, and where its next instruction leads.
LEMMA CourseOf ==
  ASSUME LocksInv, NEW f \in Fiber \ Teardown, OnCourse(f),
         pc[f] \in {"run", "peek", "wait", "check", "guard", "file", "leave"}
  PROVE  \E stack \in Seq(SUBSET Lock), program \in Seq(Instruction(f)) :
           /\ <<stack, program>> \in Course[f] /\ Stacked(f, stack) /\ Left(f, program)
           /\ program # <<>> =>
                /\ Orderly(f, stack, Head(program))
                /\ <<After(stack, Head(program)), Tail(program)>> \in Course[f]
<1>1. PICK c \in Course[f] : Stacked(f, c[1]) /\ Left(f, c[2])
  BY DEF OnCourse
<1>2. Course[f] \subseteq Seq(SUBSET Lock) \X Seq(Instruction(f))
  BY CoursesAssumption DEF CoursesAssumption
<1>3. c[1] \in Seq(SUBSET Lock) /\ c[2] \in Seq(Instruction(f)) /\ c = <<c[1], c[2]>>
  BY <1>1, <1>2
<1>4. c[2] # <<>> => /\ Orderly(f, c[1], Head(c[2]))
                     /\ <<After(c[1], Head(c[2])), Tail(c[2])>> \in Course[f]
  BY <1>1, CoursesAssumption DEF CoursesAssumption
<1> QED
  BY <1>1, <1>3, <1>4

LEMMA OrderedSame ==
  ASSUME NEW f \in Fiber, Ordered(f),
         pc'[f] = pc[f], todo'[f] = todo[f], frames'[f] = frames[f], want'[f] = want[f]
  PROVE  Ordered(f)'
<1>1. Depth(f)' = Depth(f) /\ Top(f)' = Top(f)
  BY DEF Depth, Top
<1>2. \A stack, program : (Stacked(f, stack) => Stacked(f, stack)') /\ (Left(f, program) => Left(f, program)')
  BY <1>1 DEF Stacked, Left
<1>3. OnCourse(f)'
  BY <1>2 DEF Ordered, OnCourse
<1>4. \A k : Behind(f, k) => Behind(f, k)'
  BY <1>1 DEF Behind
<1>5. Asks(f)'
  BY <1>1, <1>4 DEF Ordered, Asks
<1> QED
  BY <1>3, <1>5 DEF Ordered

LEMMA OrderedOver ==
  ASSUME NEW f \in Fiber, pc'[f] \in {"idle", "unwind", "done", "dead"}
  PROVE  Ordered(f)'
BY DEF Ordered, OnCourse, Asks

LEMMA PermittedKept ==
  ASSUME NEW f \in Fiber, Permitted(f),
         \A p \in Proc, l \in VolumeLocks : permit'[p][l] = f => permit[p][l] = f,
         pc[f] = "file" => pc'[f] = "file" /\ want'[f] = want[f],
         \A i \in 1..Len(frames[f]) : \A l \in frames[f][i].locks :
           \E k \in 1..Len(frames'[f]) : l \in frames'[f][k].locks
  PROVE  Permitted(f)'
<1>1. pc[f] = "file" => NextKey(f)' = NextKey(f)
  BY SameWish
<1> QED
  BY <1>1 DEF Permitted

\* A fiber whose child asks for an app waits for that child.
LEMMA LauncherWaits ==
  ASSUME LocksInv, NEW f \in Fiber, NEW g \in Fiber, ParentOf[g] = f, Alive(f),
         pc[g] \in {"peek", "wait"}, Begin(f) \/ Step(f) \/ Fail(f)
  PROVE  FALSE
<1>1. Launched(g)
  <2>1. f # Nobody /\ Awaited(g) /\ pc[g] \notin Idle
    BY LocksAssumption DEF LocksAssumption, LocksInv, Idle
  <2> QED
    BY <2>1 DEF Awaited
<1>2. pc[f] = "run" /\ Runs(f, "launched") /\ Head(todo[f]).child = g
  BY <1>1 DEF Launched, Runs
<1>3. ~HookReturns(f)
  BY <1>2 DEF HookReturns
<1>4. ~Begin(f) /\ ~Launch(f) /\ ~EnterCoordinator(f) /\ ~EnterApp(f) /\ ~EnterPlan(f) /\ ~Leave(f) /\ ~Fail(f)
  BY <1>2 DEF Begin, Launch, EnterCoordinator, EnterApp, EnterPlan, Leave, Fail, Runs
<1>5. /\ ~borrowedMutationOwner(f) /\ ~AcquireApp(f) /\ ~AppTimeout(f) /\ ~Recheck(f) /\ ~TakePermit(f)
      /\ ~TakeFile(f) /\ ~VolumeTimeout(f) /\ ~ReleaseLock(f) /\ ~ClosePhase(f) /\ ~Finish(f)
  BY <1>2 DEF borrowedMutationOwner, AcquireApp, AppTimeout, Recheck, TakePermit, TakeFile, VolumeTimeout,
              ReleaseLock, ClosePhase, Finish
<1> QED
  BY <1>3, <1>4, <1>5 DEF Step

\* What a step of one fiber leaves alone of the others.
Apart(f) ==
  /\ OnlyOf(f) /\ UNCHANGED state
  /\ \A g \in Fiber \ {f} : \A p \in Proc, l \in VolumeLocks : permit'[p][l] = g => permit[p][l] = g

LEMMA ActsApart ==
  ASSUME LocksInv, NEW f \in Fiber, Begin(f) \/ Step(f) \/ Fail(f)
  PROVE  Apart(f)
<1>1. LockTypes /\ Nobody \notin Fiber
  BY LocksAssumption DEF LocksInv, LocksAssumption
<1>3. CASE Begin(f) \/ Fail(f) \/ HookReturns(f) \/ EnterCoordinator(f) \/ Recheck(f) \/ Finish(f) \/ AppTimeout(f)
            \/ borrowedMutationOwner(f)
  BY <1>1, <1>3 DEF Begin, Fail, HookReturns, EnterCoordinator, Recheck, Finish, AppTimeout,
                    borrowedMutationOwner, Goto, Advance, Apart, OnlyOf, LockTypes
<1>4. CASE Launch(f)
  BY <1>1, <1>4 DEF Launch, Apart, OnlyOf, LockTypes
<1>5. CASE EnterApp(f) \/ AcquireApp(f) \/ EnterPlan(f)
  BY <1>1, <1>5 DEF EnterApp, AcquireApp, EnterPlan, Push, Goto, Advance, Apart, OnlyOf, LockTypes
<1>6. CASE Leave(f) \/ ClosePhase(f)
  BY <1>1, <1>6 DEF Leave, ClosePhase, Pop, Goto, Advance, Apart, OnlyOf, LockTypes
<1>7. CASE TakePermit(f)
  BY <1>1, <1>7 DEF TakePermit, Goto, Apart, OnlyOf, LockTypes
<1>8. CASE TakeFile(f)
  <2>1. /\ UNCHANGED <<permit, state>> /\ WithTop(f, [Top(f) EXCEPT !.locks = @ \cup {NextKey(f)}])
        /\ want' = [want EXCEPT ![f] = @ \ {NextKey(f)}]
        /\ pc' = [pc EXCEPT ![f] = "run"] \/ pc' = [pc EXCEPT ![f] = "guard"]
        /\ todo' = [todo EXCEPT ![f] = Tail(@)] \/ todo' = todo
    BY <1>8 DEF TakeFile, Goto, Advance
  <2>2. \A g \in Fiber \ {f} : frames'[g] = frames[g] /\ want'[g] = want[g]
    BY <1>1, <2>1 DEF WithTop, LockTypes
  <2>3. \A g \in Fiber \ {f} : pc'[g] = pc[g] /\ todo'[g] = todo[g]
    BY <1>1, <2>1 DEF LockTypes
  <2> QED
    BY <2>1, <2>2, <2>3 DEF Apart, OnlyOf
<1>9. CASE VolumeTimeout(f)
  BY <1>1, <1>9 DEF VolumeTimeout, Goto, Apart, OnlyOf, LockTypes
<1>10. CASE ReleaseLock(f)
  <2>1. UNCHANGED <<todo, want, state>>
    BY <1>10 DEF ReleaseLock
  <2>2. PICK l : \/ l \in VolumeLocks /\ permit' = [permit EXCEPT ![ProcOf[f]][l] = Nobody]
                 \/ permit' = permit
    BY <1>10 DEF ReleaseLock
  <2>3. \/ Pop(f) /\ (Goto(f, "run") \/ Goto(f, "unwind"))
        \/ pc' = pc /\ \E x : WithTop(f, x)
    BY <1>10 DEF ReleaseLock
  <2>4. \A g \in Fiber \ {f} : frames'[g] = frames[g] /\ pc'[g] = pc[g]
    BY <1>1, <2>3 DEF Pop, WithTop, Goto, LockTypes
  <2>5. ASSUME NEW g \in Fiber, NEW p \in Proc, NEW k \in VolumeLocks, permit'[p][k] = g PROVE permit[p][k] = g
    <3>1. permit \in [Proc -> [VolumeLocks -> Fiber \cup {Nobody}]] /\ g # Nobody
      BY <1>1 DEF LockTypes
    <3> QED
      BY <2>2, <2>5, <3>1
  <2> QED
    BY <2>1, <2>4, <2>5 DEF Apart, OnlyOf
<1> QED
  BY <1>3, <1>4, <1>5, <1>6, <1>7, <1>8, <1>9, <1>10 DEF Step

LEMMA OthersInOrder ==
  ASSUME LocksInv, OrderInv, NEW f \in Fiber, Begin(f) \/ Step(f) \/ Fail(f),
         Permitted(f)', f \notin Teardown \cup drifted => Ordered(f)',
         \/ SameApp(f)'
         \/ pc'[f] \in {"peek", "wait"} => pc[f] \in {"peek", "wait"} /\ want'[f] = want[f]
  PROVE  OrderInv'
<1>1. Apart(f)
  BY ActsApart
<1>2. /\ \A g \in Fiber \ {f} : frames'[g] = frames[g] /\ pc'[g] = pc[g] /\ want'[g] = want[g] /\ todo'[g] = todo[g]
      /\ drifted' = drifted /\ dead' = dead
  BY <1>1 DEF Apart, OnlyOf, state
<1>3. ASSUME NEW g \in Fiber \ {f} PROVE Permitted(g)' /\ (g \notin Teardown \cup drifted' => Ordered(g)')
  <2>1. Permitted(g) /\ (g \notin Teardown \cup drifted => Ordered(g))
    BY DEF OrderInv
  <2>2. Permitted(g)'
    BY <1>1, <1>2, <2>1, PermittedKept DEF Apart
  <2> QED
    BY <1>2, <2>1, <2>2, OrderedSame
<1>4. ASSUME NEW g \in Fiber, pc'[g] \in {"peek", "wait"} => pc[g] \in {"peek", "wait"} /\ want'[g] = want[g]
      PROVE SameApp(g)'
  <2> DEFINE q == ParentOf[g]
  <2> SUFFICES ASSUME pc'[g] \in {"peek", "wait"}, q # Nobody, Alive(q)', q \notin drifted',
                      NEW k \in Around(q)', NEW l \in want'[g], k[1] = l[1]
               PROVE  k = l
    BY DEF SameApp
  <2>1. q \in Fiber /\ q # g
    BY ParentIsAnother
  <2>2. Alive(q) /\ pc[g] \in {"peek", "wait"} /\ want'[g] = want[g] /\ q \notin drifted
    BY <1>2, <1>4 DEF Alive
  <2>3. q # f
    BY <2>1, <2>2, LauncherWaits
  <2>4. Around(q)' = Around(q)
    BY <1>2, <2>1, <2>3 DEF Around
  <2> QED
    BY <2>2, <2>4 DEF OrderInv, SameApp
<1>5. ASSUME NEW g \in Fiber PROVE SameApp(g)'
  BY <1>2, <1>4
<1> QED
  BY <1>2, <1>3, <1>5 DEF OrderInv

-----------------------------------------------------------------------------
(* One lemma per action.                                                   *)

Acting == {"run", "peek", "wait", "check", "guard", "file"}

\* The pair of its course at which a fiber is about to run its next instruction.
LEMMA NextOnCourse ==
  ASSUME LocksInv, NEW f \in Fiber \ Teardown, OnCourse(f), pc[f] \in Acting,
         todo[f] # <<>>, Head(todo[f]).do # "launched"
  PROVE  \E stack \in Seq(SUBSET Lock) :
           /\ Stacked(f, stack) /\ Orderly(f, stack, Head(todo[f]))
           /\ <<After(stack, Head(todo[f])), Tail(todo[f])>> \in Course[f]
<1>1. pc[f] \in {"run", "peek", "wait", "check", "guard", "file", "leave"}
  BY DEF Acting
<1>2. PICK stack \in Seq(SUBSET Lock), program \in Seq(Instruction(f)) :
        /\ <<stack, program>> \in Course[f] /\ Stacked(f, stack) /\ Left(f, program)
        /\ program # <<>> =>
             /\ Orderly(f, stack, Head(program))
             /\ <<After(stack, Head(program)), Tail(program)>> \in Course[f]
  BY <1>1, CourseOf
<1>3. program = todo[f]
  BY <1>2 DEF Left
<1> QED
  BY <1>2, <1>3

LEMMA Proceeds ==
  ASSUME NEW f \in Fiber, pc'[f] = "run", NEW stack, Stacked(f, stack)', NEW program, todo'[f] = program,
         <<stack, program>> \in Course[f]
  PROVE  Ordered(f)'
<1>1. Left(f, program)'
  BY DEF Left
<1>2. OnCourse(f)'
  BY <1>1 DEF OnCourse
<1>3. Asks(f)'
  BY DEF Asks
<1> QED
  BY <1>2, <1>3 DEF Ordered

\* The phase that was opened is the next of the stack.
LEMMA StackedPush ==
  ASSUME NEW f \in Fiber, NEW stack \in Seq(SUBSET Lock), Stacked(f, stack), NEW K, Names(K) \in SUBSET Lock,
         Len(frames'[f]) = Len(stack) + 1, pc'[f] = "run", frames'[f][Len(stack) + 1].keys = K,
         \A i \in 1..Len(stack) : frames'[f][i].keys = frames[f][i].keys
  PROVE  Stacked(f, Append(stack, Names(K)))'
<1> DEFINE n == Len(stack)
           s == Append(stack, Names(K))
<1>1. n \in Nat /\ Len(s) = n + 1 /\ s[n + 1] = Names(K) /\ \A i \in 1..n : s[i] = stack[i]
  BY AppendProperties
<1>2. Depth(f)' = n + 1
  BY DEF Depth
<1>3. \A i \in 1..n : stack[i] = Names(frames[f][i].keys)
  BY DEF Stacked
<1>4. ASSUME NEW i \in 1..(n + 1) PROVE s[i] = Names(frames'[f][i].keys)
  <2>1. CASE i = n + 1
    BY <1>1, <2>1
  <2>2. CASE i \in 1..n
    <3>1. frames'[f][i].keys = frames[f][i].keys
      BY <2>2
    <3> QED
      BY <1>1, <1>3, <2>2, <3>1
  <2> QED
    BY <1>1, <2>1, <2>2
<1> HIDE DEF s
<1> QED
  BY <1>1, <1>2, <1>4 DEF Stacked, s

LEMMA StackedPop ==
  ASSUME NEW f \in Fiber, NEW stack \in Seq(SUBSET Lock), Stacked(f, stack), stack # <<>>,
         Depth(f)' = Len(stack) - 1,
         \A i \in 1..(Len(stack) - 1) : frames'[f][i].keys = frames[f][i].keys
  PROVE  Stacked(f, SubSeq(stack, 1, Len(stack) - 1))'
<1> DEFINE n == Len(stack)
           s == SubSeq(stack, 1, n - 1)
<1>1. n \in Nat /\ n > 0
  OBVIOUS
<1>2. Len(s) = n - 1 /\ \A i \in 1..(n - 1) : s[i] = stack[i]
  <2>1. \A i \in 1..(n - 1) : stack[i] \in SUBSET Lock
    BY <1>1, ElementOfSeq
  <2>2. /\ Len(s) = IF 1 <= n - 1 THEN n - 1 - 1 + 1 ELSE 0
        /\ \A i \in 1..(n - 1 - 1 + 1) : s[i] = stack[1 + i - 1]
    BY <1>1, <2>1, SubSeqProperties
  <2> HIDE DEF s, n
  <2>3. Len(s) = n - 1 /\ n - 1 - 1 + 1 = n - 1 /\ \A i \in 1..(n - 1) : 1 + i - 1 = i
    BY <1>1, <2>2
  <2> QED
    BY <2>2, <2>3
<1>3. \A i \in 1..n : stack[i] = Names(frames[f][i].keys)
  BY DEF Stacked
<1>4. ASSUME NEW i \in 1..(n - 1) PROVE s[i] = Names(frames'[f][i].keys)
  <2>1. i \in 1..n
    BY <1>1
  <2> QED
    BY <1>2, <1>3, <2>1
<1> HIDE DEF s
<1> QED
  BY <1>2, <1>4 DEF Stacked, s

\* The keys of a phase that is open are named in the stack.
LEMMA InStack ==
  ASSUME LockTypes, NEW f \in Fiber, NEW stack \in Seq(SUBSET Lock), Stacked(f, stack)
  PROVE  /\ Len(stack) \in Nat /\ Len(stack) <= Len(frames[f])
         /\ \A i \in 1..Len(stack) : i \in 1..Len(frames[f]) /\ frames[f][i].keys \subseteq Lock
         /\ \A i \in 1..Len(stack) : \A h \in frames[f][i].keys : Named(h) \in Inside(stack)
         /\ \A k \in Inside(stack) : \E i \in 1..Len(stack) : \E h \in frames[f][i].keys : Named(h) = k
<1>1. frames[f] \in Seq(Frame) /\ Len(frames[f]) \in Nat
  BY DEF LockTypes
<1>2. Len(stack) \in Nat /\ Len(stack) <= Len(frames[f])
  BY <1>1 DEF Stacked, Depth
<1>3. ASSUME NEW i \in 1..Len(stack) PROVE i \in 1..Len(frames[f]) /\ frames[f][i].keys \subseteq Lock
  <2>1. i \in 1..Len(frames[f])
    BY <1>1, <1>2
  <2>2. frames[f][i] \in Frame
    BY <1>1, <2>1, ElementOfSeq
  <2> QED
    BY <2>1, <2>2 DEF Frame
<1>4. \A i \in 1..Len(stack) : stack[i] = {Named(h) : h \in frames[f][i].keys}
  BY DEF Stacked, Names
<1>5. \A i \in 1..Len(stack) : \A h \in frames[f][i].keys : Named(h) \in Inside(stack)
  BY <1>4 DEF Inside
<1>6. ASSUME NEW k \in Inside(stack) PROVE \E i \in 1..Len(stack) : \E h \in frames[f][i].keys : Named(h) = k
  <2>1. PICK i \in 1..Len(stack) : k \in stack[i]
    BY DEF Inside
  <2> QED
    BY <1>4, <2>1
<1> QED
  BY <1>2, <1>3, <1>5, <1>6

\* What comes later than a stack comes later than the keys that are open.
LEMMA LaterThanOpen ==
  ASSUME LockTypes, NEW f \in Fiber, NEW stack \in Seq(SUBSET Lock), Stacked(f, stack),
         NEW k \in Lock, Later(f, stack, Named(k))
  PROVE  /\ Rank[k] > Floor[f]
         /\ \A i \in 1..Len(stack) : \A h \in frames[f][i].keys : Rank[h] < Rank[k]
<1>1. Rank[Named(k)] = Rank[k]
  BY NamedLocks
<1>2. ASSUME NEW i \in 1..Len(stack), NEW h \in frames[f][i].keys PROVE Rank[h] < Rank[k]
  <2>1. h \in Lock /\ Named(h) \in Inside(stack)
    BY InStack
  <2>2. Rank[Named(h)] = Rank[h]
    BY <2>1, NamedLocks
  <2> QED
    BY <1>1, <2>1, <2>2 DEF Later
<1> QED
  BY <1>1, <1>2 DEF Later

\* The fibers that are over, and those that give up, have nothing to keep.
LEMMA GivesUp ==
  ASSUME LocksInv, OrderInv, NEW f \in Fiber, Begin(f) \/ Step(f) \/ Fail(f),
         pc'[f] \in {"idle", "unwind", "done", "dead"}, pc[f] # "file",
         \A p \in Proc, l \in VolumeLocks : permit'[p][l] = f => permit[p][l] = f,
         \A i \in 1..Len(frames[f]) : \A l \in frames[f][i].locks :
           \E k \in 1..Len(frames'[f]) : l \in frames'[f][k].locks
  PROVE  OrderInv'
<1>1. Permitted(f)'
  BY PermittedKept DEF OrderInv
<1>2. Ordered(f)'
  BY OrderedOver
<1> QED
  BY <1>1, <1>2, OthersInOrder

LEMMA RunningOrders ==
  ASSUME LocksInv, OrderInv, NEW f \in Fiber, NEW program \in Program[f],
         Begin(f), todo' = [todo EXCEPT ![f] = program]
  PROVE  OrderInv'
<1>1. LockTypes /\ StepInv(f) /\ Permitted(f)
  BY Where DEF OrderInv
<1>2. pc[f] = "idle" /\ pc'[f] = "run" /\ todo'[f] = program /\ frames' = frames /\ permit' = permit
  BY <1>1 DEF Begin, Goto, LockTypes
<1>3. Permitted(f)'
  BY <1>1, <1>2, PermittedKept
<1>4. ASSUME f \notin Teardown PROVE Ordered(f)'
  <2>1. frames'[f] = <<>> /\ <<<<>>, program>> \in Course[f]
    BY <1>1, <1>2, <1>4, CoursesAssumption DEF StepInv, Idle, CoursesAssumption
  <2>2. Stacked(f, <<>>)'
    BY <1>2, <2>1 DEF Stacked, Depth
  <2> QED
    BY <1>2, <2>1, <2>2, Proceeds
<1> QED
  BY <1>2, <1>3, <1>4, OthersInOrder

LEMMA LaunchOrders ==
  ASSUME LocksInv, OrderInv, NEW f \in Fiber, Launch(f)
  PROVE  OrderInv'
<1> DEFINE x == Head(todo[f])
           child == x.child
<1>1. LockTypes /\ Permitted(f) /\ pc[f] = "run" /\ todo[f] # <<>> /\ x.do = "hook" /\ Step(f)
  BY Where DEF OrderInv, Launch, Runs, Step
<1>2. UNCHANGED <<permit, pc, frames, want, state>>
  BY DEF Launch
<1>3. todo'[f] = <<[do |-> "launched", child |-> child]>> \o Tail(todo[f])
  BY <1>1 DEF Launch, LockTypes
<1>4. /\ todo'[f] # <<>> /\ Head(todo'[f]) = [do |-> "launched", child |-> child]
      /\ Tail(todo'[f]) = Tail(todo[f])
  <2>1. Tail(todo[f]) \in Seq(Works)
    BY <1>1, WorkFacts
  <2> QED
    BY <1>3, <2>1
<1>5. Permitted(f)'
  BY <1>1, <1>2, PermittedKept
<1>6. ASSUME f \notin Teardown \cup drifted PROVE Ordered(f)'
  <2>1. OnCourse(f)
    BY <1>6 DEF OrderInv, Ordered
  <2>2. pc[f] \in {"run", "peek", "wait", "check", "guard", "file", "leave"}
    BY <1>1
  <2>3. PICK stack \in Seq(SUBSET Lock), program \in Seq(Instruction(f)) :
           <<stack, program>> \in Course[f] /\ Stacked(f, stack) /\ Left(f, program)
    BY <1>6, <2>1, <2>2, CourseOf
  <2>4. program = todo[f]
    BY <1>1, <2>3 DEF Left
  <2>5. x = Hook(child)
    <3>1. x \in Instruction(f)
      BY <1>1, <2>4, HeadTailProperties
    <3>2. x \in [do : {"hook"}, child : {h \in Fiber : ParentOf[h] = f}]
      BY <1>1, <3>1 DEF Instruction
    <3> HIDE DEF x
    <3> QED
      BY <3>2 DEF Hook
  <2>6. Left(f, program)'
    BY <1>1, <1>4, <2>4, <2>5 DEF Left
  <2>7. Stacked(f, stack)'
    BY <1>2, <2>3 DEF Stacked, Depth
  <2>8. OnCourse(f)'
    BY <2>3, <2>6, <2>7 DEF OnCourse
  <2>9. Asks(f)'
    BY <1>1, <1>2 DEF Asks
  <2> QED
    BY <2>8, <2>9 DEF Ordered
<1> QED
  BY <1>1, <1>2, <1>5, <1>6, OthersInOrder

LEMMA HookReturnsOrders ==
  ASSUME LocksInv, OrderInv, NEW f \in Fiber, HookReturns(f)
  PROVE  OrderInv'
<1>1. LockTypes /\ Permitted(f) /\ pc[f] = "run" /\ todo[f] # <<>> /\ Head(todo[f]).do = "launched" /\ Step(f)
  BY Where DEF OrderInv, HookReturns, Runs, Step
<1>2. UNCHANGED <<permit, pc, frames, want, state>> /\ todo'[f] = Tail(todo[f])
  BY <1>1 DEF HookReturns, Advance, LockTypes
<1>3. Permitted(f)'
  BY <1>1, <1>2, PermittedKept
<1>4. ASSUME f \notin Teardown \cup drifted PROVE Ordered(f)'
  <2>1. OnCourse(f)
    BY <1>4 DEF OrderInv, Ordered
  <2>2. pc[f] \in {"run", "peek", "wait", "check", "guard", "file", "leave"}
    BY <1>1
  <2>3. PICK stack \in Seq(SUBSET Lock), program \in Seq(Instruction(f)) :
           /\ <<stack, program>> \in Course[f] /\ Stacked(f, stack) /\ Left(f, program)
           /\ program # <<>> => <<After(stack, Head(program)), Tail(program)>> \in Course[f]
    BY <1>4, <2>1, <2>2, CourseOf
  <2>4. program # todo[f]
    <3>1. \A y \in Instruction(f) : y.do # "launched"
      BY DEF Instruction
    <3> QED
      BY <1>1, <3>1, HeadTailProperties
  <2>5. program # <<>> /\ Tail(program) = Tail(todo[f]) /\ Head(program).do = "hook"
    BY <2>3, <2>4 DEF Left, Hook
  <2>6. <<stack, todo'[f]>> \in Course[f]
    BY <1>2, <2>3, <2>5, AfterIs
  <2>7. Stacked(f, stack)'
    BY <1>2, <2>3 DEF Stacked, Depth
  <2> QED
    BY <1>1, <1>2, <2>6, <2>7, Proceeds
<1> QED
  BY <1>1, <1>2, <1>3, <1>4, OthersInOrder

LEMMA CoordinatorOrders ==
  ASSUME LocksInv, OrderInv, NEW f \in Fiber, EnterCoordinator(f)
  PROVE  OrderInv'
<1>1. LockTypes /\ Permitted(f) /\ pc[f] = "run" /\ todo[f] # <<>> /\ Head(todo[f]).do = "coordinate" /\ Step(f)
  BY Where DEF OrderInv, EnterCoordinator, Runs, Step
<1>2. UNCHANGED <<permit, frames, want, state>>
  BY DEF EnterCoordinator
<1>3. CASE Goto(f, "unwind")
  <2>1. pc'[f] = "unwind"
    BY <1>1, <1>3 DEF Goto, LockTypes
  <2> QED
    BY <1>1, <1>2, <2>1, GivesUp
<1>4. CASE Advance(f) /\ pc' = pc
  <2>1. todo'[f] = Tail(todo[f])
    BY <1>1, <1>4 DEF Advance, LockTypes
  <2>2. Permitted(f)'
    BY <1>1, <1>2, PermittedKept
  <2>3. ASSUME f \notin Teardown \cup drifted PROVE Ordered(f)'
    <3>1. OnCourse(f) /\ pc[f] \in Acting
      BY <1>1, <2>3 DEF OrderInv, Ordered, Acting
    <3>2. PICK stack \in Seq(SUBSET Lock) :
             Stacked(f, stack) /\ <<After(stack, Head(todo[f])), Tail(todo[f])>> \in Course[f]
      BY <1>1, <2>3, <3>1, NextOnCourse
    <3>3. Stacked(f, stack)'
      BY <1>2, <1>4, <3>2 DEF Stacked, Depth
    <3> QED
      BY <1>1, <1>4, <2>1, <3>2, <3>3, AfterIs, Proceeds
  <2> QED
    BY <1>1, <1>2, <1>4, <2>2, <2>3, OthersInOrder
<1> QED
  BY <1>3, <1>4 DEF EnterCoordinator

\* The key of an app by name, its rank and where it is held.
LEMMA AppKey ==
  ASSUME LocksInv, NEW a \in App
  PROVE  /\ appMutationLockKey(a) \in AppLocks /\ appMutationLockKey(a) \in Lock
         /\ appMutationLockKey(a)[1] = a /\ Named(appMutationLockKey(a)) = <<a, 0>>
         /\ \A g \in Fiber \ drifted : \A k \in Around(g) : k[1] = a => k = appMutationLockKey(a)
<1> DEFINE key == appMutationLockKey(a)
<1>1. LockTypes
  BY DEF LocksInv
<1>2. key \in AppLocks /\ key \in Lock /\ key[1] = a /\ key[2] = root[a]
  BY <1>1 DEF appMutationLockKey, LockTypes, AppLocks, Lock
<1>3. Named(key) = <<a, 0>>
  BY <1>2, NamedLocks
<1>4. ASSUME NEW g \in Fiber \ drifted, NEW k \in Around(g), k[1] = a PROVE k = key
  <2>1. k \in AppLocks
    BY <1>4, KeysAreLocked, LockSets
  <2>2. k[2] = root[k[1]]
    BY <1>4, <2>1, Where DEF Rooted
  <2> QED
    BY <1>2, <1>4, <2>1, <2>2, LockSets
<1> QED
  BY <1>2, <1>3, <1>4

LEMMA EnterAppOrders ==
  ASSUME LocksInv, OrderInv, NEW f \in Fiber, EnterApp(f)
  PROVE  OrderInv'
<1>a. PICK app : app = Head(todo[f]).app
  OBVIOUS
<1>b. PICK key : key = appMutationLockKey(app)
  OBVIOUS
<1> DEFINE x == [keys |-> {key}, locks |-> {}, env |-> {}]
<1>1. LockTypes /\ LockTypes' /\ Permitted(f) /\ Step(f)
  BY Where, EnterAppKeeps DEF OrderInv, Step, LocksInv
<1>2. /\ pc[f] = "run" /\ todo[f] # <<>> /\ Head(todo[f]).do = "app" /\ pc[f] \in Acting
      /\ UNCHANGED <<permit, state>>
  BY DEF EnterApp, Runs, Acting
<1>3. app \in App
  BY <1>a, <1>1, <1>2, WorkFacts
<1>4. /\ key \in AppLocks /\ key \in Lock /\ key[1] = app /\ Named(key) = <<app, 0>>
      /\ \A g \in Fiber \ drifted : \A k \in Around(g) : k[1] = app => k = key
  BY <1>b, <1>3, AppKey
<1>5. Len(frames[f]) \in Nat /\ frames[f] \in Seq(Frame) /\ Depth(f) = Len(frames[f])
  BY <1>1, <1>2 DEF LockTypes, Depth
<1>6. ASSUME f \notin Teardown \cup drifted
      PROVE  \E stack \in Seq(SUBSET Lock) :
               /\ Stacked(f, stack) /\ Orderly(f, stack, Head(todo[f]))
               /\ <<Append(stack, {<<app, 0>>}), Tail(todo[f])>> \in Course[f]
  <2>1. OnCourse(f)
    BY <1>6 DEF OrderInv, Ordered
  <2>2. PICK stack \in Seq(SUBSET Lock) :
           /\ Stacked(f, stack) /\ Orderly(f, stack, Head(todo[f]))
           /\ <<After(stack, Head(todo[f])), Tail(todo[f])>> \in Course[f]
    BY <1>2, <1>6, <2>1, NextOnCourse
  <2> QED
    BY <1>a, <1>2, <2>2, AfterIs
<1>7. CASE key \in Held(f) /\ Push(f, x) /\ Advance(f) /\ pc' = pc /\ want' = want
  <2>1. x \in Frame /\ x.keys = {key}
    BY <1>4 DEF Frame
  <2> HIDE DEF x
  <2>2. /\ Len(frames'[f]) = Len(frames[f]) + 1 /\ frames'[f][Len(frames[f]) + 1] = x
        /\ \A i \in 1..Len(frames[f]) : frames'[f][i] = frames[f][i]
    BY <1>1, <1>7, <2>1, Pushed
  <2>3. todo'[f] = Tail(todo[f])
    BY <1>1, <1>7 DEF Advance, LockTypes
  <2>4. Permitted(f)'
    BY <1>1, <1>2, <1>5, <2>2, PermittedKept
  <2>5. ASSUME f \notin Teardown \cup drifted PROVE Ordered(f)'
    <3>1. PICK stack \in Seq(SUBSET Lock) :
             /\ Stacked(f, stack) /\ <<Append(stack, {<<app, 0>>}), Tail(todo[f])>> \in Course[f]
      BY <1>6, <2>5
    <3>2. Len(stack) = Len(frames[f])
      BY <1>5, <3>1 DEF Stacked
    <3>3. Names({key}) = {<<app, 0>>} /\ Names({key}) \in SUBSET Lock
      BY <1>4, NamedLocks DEF Names
    <3>4. Stacked(f, Append(stack, Names({key})))'
      BY <1>2, <1>7, <2>1, <2>2, <3>1, <3>2, <3>3, StackedPush
    <3>5. Stacked(f, Append(stack, {<<app, 0>>}))'
      BY <3>3, <3>4
    <3> QED
      BY <1>2, <1>7, <2>3, <3>1, <3>5, Proceeds
  <2> QED
    BY <1>1, <1>7, <2>4, <2>5, OthersInOrder
<1>8. CASE key \notin Held(f) /\ want' = [want EXCEPT ![f] = {key}] /\ Goto(f, "peek")
           /\ todo' = todo /\ frames' = frames
  <2>1. pc'[f] = "peek" /\ want'[f] = {key}
    BY <1>1, <1>8 DEF Goto, LockTypes
  <2>2. Permitted(f)'
    BY <1>1, <1>2, <1>8, PermittedKept
  <2>3. SameApp(f)'
    <3> DEFINE q == ParentOf[f]
    <3> SUFFICES ASSUME q # Nobody, q \notin drifted', NEW k \in Around(q)', k[1] = key[1]
                 PROVE  k = key
      BY <2>1 DEF SameApp
    <3>1. q \in Fiber /\ q # f
      BY ParentIsAnother
    <3>2. OnlyOf(f) /\ drifted' = drifted
      BY <1>1, ActsApart DEF Apart, state
    <3>3. Around(q)' = Around(q)
      BY <3>1, <3>2 DEF OnlyOf, Around
    <3> QED
      BY <1>4, <3>1, <3>2, <3>3
  <2>4. ASSUME f \notin Teardown \cup drifted PROVE Ordered(f)'
    <3>1. PICK stack \in Seq(SUBSET Lock) : Stacked(f, stack) /\ Orderly(f, stack, Head(todo[f]))
      BY <1>6, <2>4
    <3>2. Len(stack) = Len(frames[f])
      BY <1>5, <3>1 DEF Stacked
    <3>3. \/ <<app, 0>> \in Inside(stack)
          \/ Later(f, stack, <<app, 0>>)
          \/ stack = <<>> /\ app \in Inherited[f]
      BY <1>a, <1>2, <3>1, OrderlyIs
    <3>4. <<app, 0>> \notin Inside(stack)
      <4> SUFFICES ASSUME <<app, 0>> \in Inside(stack) PROVE FALSE
        OBVIOUS
      <4>1. PICK i \in 1..Len(stack) : \E h \in frames[f][i].keys : Named(h) = <<app, 0>>
        BY <1>1, <3>1, InStack
      <4>2. PICK h \in frames[f][i].keys : Named(h) = <<app, 0>>
        BY <4>1
      <4>3. h \in Lock /\ i \in 1..Len(frames[f])
        BY <1>1, <3>1, InStack
      <4>4. h[1] = app
        BY <1>3, <4>2, <4>3, NamedLocks, LockSets
      <4>5. h \in Around(f) /\ h \in Held(f)
        <5>1. frames \in [Fiber -> Seq(Frame)] /\ frames' \in [Fiber -> Seq(Frame)] /\ pc[f] \notin Opening
          BY <1>1, <1>2 DEF LockTypes, Opening
        <5> QED
          BY <4>3, <5>1, AroundIs
      <4> QED
        BY <1>4, <1>8, <2>4, <4>4, <4>5
    <3>5. Depth(f)' = Len(frames[f]) /\ frames'[f] = frames[f]
      BY <1>8, <2>1 DEF Depth
    <3>6. Behind(f, key)'
      <4>1. CASE Later(f, stack, <<app, 0>>)
        <5>1. /\ Rank[key] > Floor[f]
              /\ \A i \in 1..Len(stack) : \A h \in frames[f][i].keys : Rank[h] < Rank[key]
          BY <1>1, <1>4, <3>1, <4>1, LaterThanOpen
        <5> QED
          BY <3>2, <3>5, <5>1 DEF Behind
      <4>2. CASE stack = <<>> /\ app \in Inherited[f]
        <5>1. Len(frames[f]) = 0 /\ frames[f] = <<>>
          BY <1>5, <3>2, <4>2
        <5> QED
          BY <1>4, <3>5, <4>2, <5>1 DEF Behind
      <4> QED
        BY <3>3, <3>4, <4>1, <4>2
    <3>7. Asks(f)'
      BY <1>a, <1>2, <1>4, <1>8, <2>1, <3>6 DEF Asks
    <3>8. OnCourse(f)'
      <4>1. PICK c \in Course[f] : Stacked(f, c[1]) /\ Left(f, c[2])
        BY <1>2, <2>4 DEF OrderInv, Ordered, OnCourse
      <4>2. Stacked(f, c[1])' /\ Left(f, c[2])'
        BY <1>5, <1>8, <3>5, <4>1 DEF Stacked, Left
      <4> QED
        BY <4>1, <4>2 DEF OnCourse
    <3> QED
      BY <3>7, <3>8 DEF Ordered
  <2> QED
    BY <1>1, <2>2, <2>3, <2>4, OthersInOrder
<1> QED
  BY <1>a, <1>b, <1>7, <1>8 DEF EnterApp

\* A fiber that moves on between two steps of one and the same depth.
LEMMA StaysOrdered ==
  ASSUME LockTypes, NEW f \in Fiber, Ordered(f), Depth(f)' = Depth(f), todo'[f] = todo[f], want'[f] = want[f],
         \A i \in 1..Depth(f) : frames'[f][i].keys = frames[f][i].keys, frames[f] = <<>> => frames'[f] = <<>>,
         \/ pc[f] \in {"peek", "wait"} /\ pc'[f] \in {"peek", "wait"}
         \/ pc[f] \in {"guard", "file"} /\ pc'[f] \in {"guard", "file"} /\ Top(f)' = Top(f)
         \/ pc[f] = "leave" /\ pc'[f] = "leave"
  PROVE  Ordered(f)'
<1>1. \A k : Behind(f, k) => Behind(f, k)'
  BY DEF Behind
<1>2. Asks(f)'
  BY <1>1 DEF Ordered, Asks
<1>3. PICK c \in Course[f] : Stacked(f, c[1]) /\ Left(f, c[2])
  BY DEF Ordered, OnCourse
<1>4. Stacked(f, c[1])' /\ Left(f, c[2])'
  BY <1>3 DEF Stacked, Left
<1>5. OnCourse(f)'
  BY <1>4 DEF OnCourse
<1> QED
  BY <1>2, <1>5 DEF Ordered

LEMMA BorrowOrders ==
  ASSUME LocksInv, OrderInv, NEW f \in Fiber, borrowedMutationOwner(f)
  PROVE  OrderInv'
<1>1. LockTypes /\ Permitted(f) /\ pc[f] = "peek" /\ Step(f)
  BY Where DEF OrderInv, borrowedMutationOwner, Step
<1>2. UNCHANGED <<permit, todo, frames, state>>
  BY DEF borrowedMutationOwner
<1>3. CASE Goto(f, "unwind")
  <2>1. pc'[f] = "unwind"
    BY <1>1, <1>3 DEF Goto, LockTypes
  <2> QED
    BY <1>1, <1>2, <2>1, GivesUp
<1>4. CASE Goto(f, "wait") /\ want' = want
  <2>1. pc'[f] = "wait"
    BY <1>1, <1>4 DEF Goto, LockTypes
  <2>2. Permitted(f)'
    BY <1>1, <1>2, PermittedKept
  <2>3. ASSUME f \notin Teardown \cup drifted PROVE Ordered(f)'
    <3>1. Depth(f)' = Depth(f)
      BY <1>1, <1>2, <2>1 DEF Depth
    <3> QED
      BY <1>1, <1>2, <1>4, <2>1, <2>3, <3>1, StaysOrdered DEF OrderInv
  <2> QED
    BY <1>1, <1>4, <2>1, <2>2, <2>3, OthersInOrder
<1> QED
  BY <1>3, <1>4 DEF borrowedMutationOwner

LEMMA AcquireAppOrders ==
  ASSUME LocksInv, OrderInv, NEW f \in Fiber, AcquireApp(f)
  PROVE  OrderInv'
<1> DEFINE l == Wanted(f)
           x == [keys |-> {l}, locks |-> {l}, env |-> env[ProcOf[f]]]
<1>1. LockTypes /\ StepInv(f) /\ Permitted(f) /\ pc[f] = "wait" /\ Step(f)
  BY Where DEF OrderInv, AcquireApp, Step
<1>2. UNCHANGED <<permit, todo, state>> /\ Push(f, x) /\ Goto(f, "check")
  BY DEF AcquireApp
<1>3. x \in Frame
  <2>1. l \in Lock
    <3>1. PICK k \in AppLocks : want[f] = {k}
      BY <1>1 DEF StepInv
    <3> QED
      BY <3>1 DEF Wanted, Lock
  <2>2. env[ProcOf[f]] \in SUBSET (Lock \X Fiber)
    BY <1>1, LocksAssumption DEF LockTypes, LocksAssumption
  <2> QED
    BY <2>1, <2>2 DEF Frame
<1> HIDE DEF x
<1>4. /\ Len(frames'[f]) = Len(frames[f]) + 1 /\ Len(frames[f]) \in Nat
      /\ \A i \in 1..Len(frames[f]) : frames'[f][i] = frames[f][i]
  BY <1>1, <1>2, <1>3, Pushed
<1>5. pc'[f] = "check"
  BY <1>1, <1>2 DEF Goto, LockTypes
<1>6. Permitted(f)'
  BY <1>1, <1>2, <1>4, PermittedKept
<1>7. ASSUME f \notin Teardown \cup drifted PROVE Ordered(f)'
  <2>1. Depth(f)' = Len(frames[f]) /\ Depth(f) = Len(frames[f])
    BY <1>1, <1>4, <1>5 DEF Depth
  <2>2. PICK c \in Course[f] : Stacked(f, c[1]) /\ Left(f, c[2])
    BY <1>1, <1>7 DEF OrderInv, Ordered, OnCourse
  <2>3. Stacked(f, c[1])' /\ Left(f, c[2])'
    BY <1>2, <1>4, <2>1, <2>2 DEF Stacked, Left
  <2>4. OnCourse(f)'
    BY <2>3 DEF OnCourse
  <2>5. Asks(f)'
    BY <1>1, <1>2, <1>5, <1>7 DEF OrderInv, Ordered, Asks
  <2> QED
    BY <2>4, <2>5 DEF Ordered
<1> QED
  BY <1>1, <1>5, <1>6, <1>7, OthersInOrder

LEMMA AppTimeoutOrders ==
  ASSUME LocksInv, OrderInv, NEW f \in Fiber, AppTimeout(f) \/ Fail(f)
  PROVE  OrderInv'
<1>1. /\ LockTypes /\ pc[f] \in {"wait", "run"} /\ pc' = [pc EXCEPT ![f] = "unwind"]
      /\ UNCHANGED <<permit, frames>> /\ (Step(f) \/ Fail(f))
  BY Where DEF AppTimeout, Fail, Goto, Step
<1>2. pc'[f] = "unwind"
  BY <1>1 DEF LockTypes
<1> QED
  BY <1>1, <1>2, GivesUp

LEMMA RecheckOrders ==
  ASSUME LocksInv, OrderInv, NEW f \in Fiber, Recheck(f)
  PROVE  OrderInv'
<1>1. LockTypes /\ StepInv(f) /\ Permitted(f) /\ pc[f] = "check" /\ Step(f)
  BY Where DEF OrderInv, Recheck, Step
<1>2. UNCHANGED <<permit, frames, want, state>>
  BY DEF Recheck
<1>3. CASE Goto(f, "unwind")
  <2>1. pc'[f] = "unwind"
    BY <1>1, <1>3 DEF Goto, LockTypes
  <2> QED
    BY <1>1, <1>2, <2>1, GivesUp
<1>4. CASE SameIdentity(f) /\ Goto(f, "run") /\ Advance(f)
  <2>a. PICK app : app = Head(todo[f]).app
    OBVIOUS
  <2>b. PICK key : key = appMutationLockKey(app)
    OBVIOUS
  <2> DEFINE n == Len(frames[f])
  <2>1. pc'[f] = "run" /\ todo'[f] = Tail(todo[f]) /\ todo[f] # <<>> /\ frames[f] # <<>>
    BY <1>1, <1>4 DEF Goto, Advance, LockTypes, StepInv
  <2>2. n \in Nat \ {0} /\ Top(f) = frames[f][n] /\ frames[f] \in Seq(Frame)
    BY <1>1, <2>1, TopFacts DEF LockTypes
  <2>3. Top(f).keys = {key}
    BY <1>1, <1>4, <2>a, <2>b DEF StepInv, SameIdentity
  <2>4. Permitted(f)'
    BY <1>1, <1>2, PermittedKept
  <2>5. ASSUME f \notin Teardown \cup drifted PROVE Ordered(f)'
    <3>1. Head(todo[f]).do = "app" /\ OnCourse(f) /\ pc[f] \in Acting
      BY <1>1, <2>5 DEF OrderInv, Ordered, Asks, Acting
    <3>2. app \in App
      BY <1>1, <2>1, <2>a, <3>1, WorkFacts
    <3>3. PICK stack \in Seq(SUBSET Lock) :
             Stacked(f, stack) /\ <<After(stack, Head(todo[f])), Tail(todo[f])>> \in Course[f]
      BY <2>1, <2>5, <3>1, NextOnCourse
    <3>4. <<Append(stack, {<<app, 0>>}), Tail(todo[f])>> \in Course[f]
      BY <2>a, <3>1, <3>3, AfterIs
    <3>5. Names({key}) = {<<app, 0>>} /\ Names({key}) \in SUBSET Lock
      <4>1. key \in Lock /\ Named(key) = <<app, 0>>
        BY <2>b, <3>2, AppKey
      <4> QED
        BY <4>1, NamedLocks DEF Names
    <3>6. Len(stack) + 1 = n /\ Len(stack) \in Nat
      BY <1>1, <2>2, <3>3 DEF Stacked, Depth
    <3>7. Stacked(f, Append(stack, Names({key})))'
      <4>1. /\ Len(frames'[f]) = Len(stack) + 1 /\ frames'[f][Len(stack) + 1].keys = {key}
            /\ \A i \in 1..Len(stack) : frames'[f][i].keys = frames[f][i].keys
        BY <1>2, <2>2, <2>3, <3>6
      <4> QED
        BY <2>1, <3>3, <3>5, <4>1, StackedPush
    <3>8. Stacked(f, Append(stack, {<<app, 0>>}))'
      BY <3>5, <3>7
    <3> HIDE DEF n
    <3> QED
      BY <2>1, <3>4, <3>8, Proceeds
  <2> QED
    BY <1>1, <2>1, <2>4, <2>5, OthersInOrder
<1> QED
  BY <1>3, <1>4 DEF Recheck

LEMMA EnterPlanOrders ==
  ASSUME LocksInv, OrderInv, NEW f \in Fiber, EnterPlan(f)
  PROVE  OrderInv'
<1>a. PICK keys : keys = Head(todo[f]).keys
  OBVIOUS
<1> DEFINE x == [keys |-> keys, locks |-> {}, env |-> {}]
<1>1. LockTypes /\ Permitted(f) /\ Step(f)
  BY Where DEF OrderInv, Step
<1>2. /\ pc[f] = "run" /\ todo[f] # <<>> /\ Head(todo[f]).do = "plan" /\ pc[f] \in Acting
      /\ Push(f, x) /\ UNCHANGED <<permit, state>>
  BY <1>a DEF EnterPlan, Runs, Acting
<1>3. keys \subseteq VolumeLocks
  BY <1>a, <1>1, <1>2, WorkFacts
<1>4. x \in Frame /\ x.keys = keys /\ x.locks = {}
  BY <1>3 DEF Frame, Lock
<1> HIDE DEF x
<1>5. Len(frames[f]) \in Nat /\ Depth(f) = Len(frames[f])
  BY <1>1, <1>2 DEF LockTypes, Depth
<1>6. /\ Len(frames'[f]) = Len(frames[f]) + 1 /\ frames'[f][Len(frames[f]) + 1] = x /\ Top(f)' = x
      /\ \A i \in 1..Len(frames[f]) : frames'[f][i] = frames[f][i]
  BY <1>1, <1>2, <1>4, Pushed
<1>7. Permitted(f)'
  BY <1>1, <1>2, <1>5, <1>6, PermittedKept
<1>8. ASSUME f \notin Teardown \cup drifted
      PROVE  \E stack \in Seq(SUBSET Lock) :
               /\ Stacked(f, stack) /\ Len(stack) = Len(frames[f]) /\ Orderly(f, stack, Head(todo[f]))
               /\ <<Append(stack, keys), Tail(todo[f])>> \in Course[f]
  <2>1. OnCourse(f)
    BY <1>8 DEF OrderInv, Ordered
  <2>2. PICK stack \in Seq(SUBSET Lock) :
           /\ Stacked(f, stack) /\ Orderly(f, stack, Head(todo[f]))
           /\ <<After(stack, Head(todo[f])), Tail(todo[f])>> \in Course[f]
    BY <1>2, <1>8, <2>1, NextOnCourse
  <2>3. After(stack, Head(todo[f])) = Append(stack, keys)
    BY <1>a, <1>2, AfterIs
  <2>4. Len(stack) = Len(frames[f])
    BY <1>5, <2>2 DEF Stacked
  <2> QED
    BY <2>2, <2>3, <2>4
<1>9. CASE Advance(f) /\ pc' = pc
  <2>1. todo'[f] = Tail(todo[f])
    BY <1>1, <1>9 DEF Advance, LockTypes
  <2>2. ASSUME f \notin Teardown \cup drifted PROVE Ordered(f)'
    <3>1. PICK stack \in Seq(SUBSET Lock) :
             /\ Stacked(f, stack) /\ Len(stack) = Len(frames[f])
             /\ <<Append(stack, keys), Tail(todo[f])>> \in Course[f]
      BY <1>8, <2>2
    <3>2. Names(keys) = keys /\ Names(keys) \in SUBSET Lock
      BY <1>3, NamedLocks DEF Lock
    <3>3. Stacked(f, Append(stack, Names(keys)))'
      BY <1>2, <1>4, <1>6, <1>9, <3>1, <3>2, StackedPush
    <3>4. Stacked(f, Append(stack, keys))'
      BY <3>2, <3>3
    <3> QED
      BY <1>2, <1>9, <2>1, <3>1, <3>4, Proceeds
  <2> QED
    BY <1>1, <1>2, <1>7, <1>9, <2>2, OthersInOrder
<1>10. CASE ~AllHeld(f, keys) /\ want' = [want EXCEPT ![f] = keys] /\ Goto(f, "guard") /\ todo' = todo
  <2>1. pc'[f] = "guard" /\ want'[f] = keys
    BY <1>1, <1>10 DEF Goto, LockTypes
  <2>2. ASSUME f \notin Teardown \cup drifted PROVE Ordered(f)'
    <3>1. PICK stack \in Seq(SUBSET Lock) :
             Stacked(f, stack) /\ Len(stack) = Len(frames[f]) /\ Orderly(f, stack, Head(todo[f]))
      BY <1>8, <2>2
    <3>2. keys \subseteq Inside(stack) \/ \A k \in keys : Later(f, stack, k)
      BY <1>a, <1>2, <3>1, OrderlyIs
    <3>3. ~(keys \subseteq Inside(stack))
      <4> SUFFICES ASSUME NEW k \in keys, k \in Inside(stack) PROVE k \in Held(f)
        BY <1>10 DEF AllHeld
      <4>1. PICK i \in 1..Len(stack) : \E h \in frames[f][i].keys : Named(h) = k
        BY <1>1, <3>1, InStack
      <4>2. PICK h \in frames[f][i].keys : Named(h) = k
        BY <4>1
      <4>3. h \in Lock /\ i \in 1..Len(frames[f])
        BY <1>1, <3>1, InStack
      <4>4. h = k
        BY <1>3, <4>2, <4>3, NamedLocks, LockSets
      <4>5. DOMAIN frames[f] = 1..Len(frames[f])
        BY <1>1 DEF LockTypes
      <4> QED
        BY <4>2, <4>3, <4>4, <4>5 DEF Held
    <3>4. Depth(f)' = Len(frames[f])
      BY <1>5, <1>6, <2>1 DEF Depth
    <3>5. ASSUME NEW k \in keys PROVE Behind(f, k)'
      <4>1. k \in Lock /\ Named(k) = k
        BY <1>3, NamedLocks DEF Lock
      <4>2. /\ Rank[k] > Floor[f]
            /\ \A i \in 1..Len(stack) : \A h \in frames[f][i].keys : Rank[h] < Rank[k]
        BY <1>1, <3>1, <3>2, <3>3, <4>1, LaterThanOpen
      <4> QED
        BY <1>6, <3>1, <3>4, <4>2 DEF Behind
    <3>6. Asks(f)'
      BY <1>a, <1>2, <1>4, <1>6, <1>10, <2>1, <3>5 DEF Asks
    <3>7. OnCourse(f)'
      <4>1. PICK c \in Course[f] : Stacked(f, c[1]) /\ Left(f, c[2])
        BY <1>2, <2>2 DEF OrderInv, Ordered, OnCourse
      <4>2. Stacked(f, c[1])' /\ Left(f, c[2])'
        BY <1>5, <1>6, <1>10, <3>4, <4>1 DEF Stacked, Left
      <4> QED
        BY <4>1, <4>2 DEF OnCourse
    <3> QED
      BY <3>6, <3>7 DEF Ordered
  <2> QED
    BY <1>1, <1>7, <2>1, <2>2, OthersInOrder
<1> QED
  BY <1>a, <1>9, <1>10 DEF EnterPlan

LEMMA TakePermitOrders ==
  ASSUME LocksInv, OrderInv, NEW f \in Fiber, TakePermit(f)
  PROVE  OrderInv'
<1>1. LockTypes /\ StepInv(f) /\ Permitted(f) /\ pc[f] = "guard" /\ Step(f) /\ frames[f] # <<>>
  BY Where, Opens DEF OrderInv, TakePermit, Step
<1>2. /\ permit' = [permit EXCEPT ![ProcOf[f]][NextKey(f)] = f]
      /\ UNCHANGED <<todo, frames, want, state>>
  BY DEF TakePermit
<1>3. pc'[f] = "file" /\ NextKey(f)' = NextKey(f)
  BY <1>1, <1>2, SameWish DEF TakePermit, Goto, LockTypes
<1>4. Permitted(f)'
  <2> SUFFICES ASSUME NEW p \in Proc, NEW k \in VolumeLocks, permit'[p][k] = f
               PROVE  /\ ProcOf[f] = p
                      /\ k = NextKey(f) \/ \E i \in 1..Len(frames[f]) : k \in frames[f][i].locks
    BY <1>2, <1>3 DEF Permitted
  <2>1. permit[p][k] = f \/ (p = ProcOf[f] /\ k = NextKey(f))
    BY <1>1, <1>2 DEF LockTypes
  <2> QED
    BY <1>1, <2>1 DEF Permitted
<1>5. ASSUME f \notin Teardown \cup drifted PROVE Ordered(f)'
  <2>1. Depth(f)' = Depth(f) /\ Top(f)' = Top(f)
    BY <1>1, <1>2, <1>3 DEF Depth, Top
  <2> QED
    BY <1>1, <1>2, <1>3, <1>5, <2>1, StaysOrdered DEF OrderInv
<1> QED
  BY <1>1, <1>3, <1>4, <1>5, OthersInOrder

LEMMA TakeFileOrders ==
  ASSUME LocksInv, OrderInv, NEW f \in Fiber, TakeFile(f)
  PROVE  OrderInv'
<1>a. PICK l : l = NextKey(f)
  OBVIOUS
<1> DEFINE n == Len(frames[f])
           x == [Top(f) EXCEPT !.locks = @ \cup {l}]
<1>1. pc[f] = "file" /\ Step(f) /\ Permitted(f)
  BY DEF TakeFile, Step, OrderInv
<1>2. /\ LockTypes /\ StepInv(f) /\ l \in want[f] /\ l \in VolumeLocks /\ l \in Lock
      /\ frames[f] # <<>> /\ todo[f] # <<>>
      /\ n \in Nat /\ n \in 1..n /\ Top(f) = frames[f][n] /\ Top(f) \in Frame
  BY <1>a, <1>1, Opens DEF Lock
<1>3. /\ WithTop(f, x) /\ want' = [want EXCEPT ![f] = want[f] \ {l}]
      /\ (want[f] = {l} /\ Goto(f, "run") /\ Advance(f)) \/ (want[f] # {l} /\ Goto(f, "guard") /\ todo' = todo)
      /\ UNCHANGED <<permit, state>>
  BY <1>a, <1>2 DEF TakeFile
<1>4. x \in Frame /\ x.keys = Top(f).keys /\ x.locks = Top(f).locks \cup {l}
  BY <1>2 DEF Frame
<1> HIDE DEF x
<1>5. /\ Len(frames'[f]) = n /\ frames'[f] # <<>> /\ frames'[f][n] = x /\ Top(f)' = x
      /\ \A i \in 1..n : i # n => frames'[f][i] = frames[f][i]
  BY <1>2, <1>3, <1>4, Topped
<1>6. \A i \in 1..n : frames'[f][i].keys = frames[f][i].keys /\ frames[f][i].locks \subseteq frames'[f][i].locks
  BY <1>2, <1>4, <1>5
<1>7. want'[f] = want[f] \ {l} /\ (pc'[f] = "run" \/ pc'[f] = "guard")
  BY <1>2, <1>3 DEF LockTypes, Goto
<1>8. Permitted(f)'
  <2> SUFFICES ASSUME NEW p \in Proc, NEW k \in VolumeLocks, permit'[p][k] = f
               PROVE  ProcOf[f] = p /\ \E i \in 1..n : k \in frames'[f][i].locks
    BY <1>5 DEF Permitted
  <2>1. ProcOf[f] = p /\ (k = l \/ \E i \in 1..n : k \in frames[f][i].locks)
    BY <1>a, <1>1, <1>3 DEF Permitted
  <2>2. l \in frames'[f][n].locks
    BY <1>4, <1>5
  <2> HIDE DEF n
  <2> QED
    BY <1>2, <1>6, <2>1, <2>2
<1>9. ASSUME f \notin Teardown \cup drifted PROVE Ordered(f)'
  <2>1. OnCourse(f) /\ Asks(f) /\ Depth(f) = n - 1 /\ pc[f] \in Acting
    BY <1>1, <1>9 DEF OrderInv, Ordered, Depth, Acting
  <2>2. CASE want[f] = {l} /\ Goto(f, "run") /\ Advance(f)
    <3>a. PICK keys : keys = Head(todo[f]).keys
      OBVIOUS
    <3>1. Head(todo[f]).do = "plan" /\ Top(f).keys = keys
      BY <1>1, <2>1, <3>a DEF Asks
    <3>2. pc'[f] = "run" /\ todo'[f] = Tail(todo[f])
      BY <1>2, <2>2 DEF Goto, Advance, LockTypes
    <3>3. keys \subseteq VolumeLocks
      BY <1>2, <3>a, <3>1, WorkFacts
    <3>4. PICK stack \in Seq(SUBSET Lock) :
             Stacked(f, stack) /\ <<After(stack, Head(todo[f])), Tail(todo[f])>> \in Course[f]
      BY <1>2, <1>9, <2>1, <3>1, NextOnCourse
    <3>5. <<Append(stack, keys), Tail(todo[f])>> \in Course[f]
      <4>1. After(stack, Head(todo[f])) = Append(stack, keys)
        BY <3>a, <3>1, AfterIs
      <4> QED
        BY <3>4, <4>1
    <3>6. Names(keys) = keys /\ Names(keys) \in SUBSET Lock
      BY <3>3, NamedLocks DEF Lock
    <3>7. Len(stack) \in Nat /\ Len(stack) + 1 = n /\ \A i \in 1..Len(stack) : i \in 1..n
      <4>1. Len(stack) \in Nat /\ Len(stack) = n - 1
        BY <2>1, <3>4 DEF Stacked
      <4> HIDE DEF n
      <4> QED
        BY <1>2, <4>1
    <3>8. Stacked(f, Append(stack, Names(keys)))'
      <4>1. /\ Len(frames'[f]) = Len(stack) + 1 /\ frames'[f][Len(stack) + 1].keys = keys
            /\ \A i \in 1..Len(stack) : frames'[f][i].keys = frames[f][i].keys
        BY <1>4, <1>5, <1>6, <3>1, <3>7
      <4> QED
        BY <3>2, <3>4, <3>6, <4>1, StackedPush
    <3>9. Stacked(f, Append(stack, keys))'
      BY <3>6, <3>8
    <3> QED
      BY <3>2, <3>5, <3>9, Proceeds
  <2>3. CASE want[f] # {l} /\ Goto(f, "guard") /\ todo' = todo
    <3>1. pc'[f] = "guard"
      BY <1>2, <2>3 DEF Goto, LockTypes
    <3>2. Depth(f)' = n - 1 /\ \A i \in 1..(n - 1) : i \in 1..n
      BY <1>2, <1>5, <3>1 DEF Depth
    <3>3. \A k : Behind(f, k) => Behind(f, k)'
      BY <1>2, <1>6, <2>1, <3>2 DEF Behind
    <3>4. want[f] \subseteq VolumeLocks
      BY <1>1, <1>2 DEF StepInv
    <3>5. \A k \in want[f] \ {l} : l[2] < k[2]
      <4>1. \A k \in want[f] : l[2] <= k[2]
        <5>1. \E j \in want[f] : \A k \in want[f] : j[2] <= k[2]
          BY <1>2, <3>4, FirstKey
        <5> QED
          BY <1>a, <5>1 DEF NextKey
      <4> QED
        BY <1>2, <3>4, <4>1, LockSets
    <3>6. Asks(f)'
      <4>1. Head(todo[f]).do = "plan" /\ Top(f).keys = Head(todo[f]).keys
        BY <1>1, <2>1 DEF Asks
      <4>2. \A k \in want'[f] : Behind(f, k)' /\ \A j \in x.locks : j[2] < k[2]
        BY <1>1, <1>4, <1>7, <2>1, <3>3, <3>5 DEF Asks
      <4> QED
        BY <1>4, <1>5, <2>3, <3>1, <4>1, <4>2 DEF Asks
    <3>7. PICK c \in Course[f] : Stacked(f, c[1]) /\ Left(f, c[2])
      BY <1>1, <2>1 DEF OnCourse
    <3>8. Stacked(f, c[1])' /\ Left(f, c[2])'
      BY <1>6, <2>1, <2>3, <3>2, <3>7 DEF Stacked, Left
    <3>9. OnCourse(f)'
      BY <3>7, <3>8 DEF OnCourse
    <3> QED
      BY <3>6, <3>9 DEF Ordered
  <2> QED
    BY <1>3, <2>2, <2>3
<1> QED
  BY <1>1, <1>7, <1>8, <1>9, OthersInOrder

LEMMA VolumeTimeoutOrders ==
  ASSUME LocksInv, OrderInv, NEW f \in Fiber, VolumeTimeout(f)
  PROVE  OrderInv'
<1>1. LockTypes /\ Permitted(f) /\ pc[f] = "file" /\ Step(f) /\ NextKey(f) \in VolumeLocks
  BY Where, Opens DEF OrderInv, VolumeTimeout, Step
<1>2. permit' = [permit EXCEPT ![ProcOf[f]][NextKey(f)] = Nobody] /\ frames' = frames /\ ProcOf[f] \in Proc
  BY LocksAssumption DEF VolumeTimeout, LocksAssumption
<1>3. pc'[f] = "unwind"
  BY <1>1 DEF VolumeTimeout, Goto, LockTypes
<1>4. Permitted(f)'
  <2> SUFFICES ASSUME NEW p \in Proc, NEW k \in VolumeLocks, permit'[p][k] = f
               PROVE  ProcOf[f] = p /\ \E i \in 1..Len(frames[f]) : k \in frames[f][i].locks
    BY <1>2 DEF Permitted
  <2>1. Nobody # f
    BY LocksAssumption DEF LocksAssumption
  <2>2. permit[p][k] = f /\ ~(p = ProcOf[f] /\ k = NextKey(f))
    BY <1>1, <1>2, <2>1 DEF LockTypes
  <2> QED
    BY <1>1, <2>2 DEF Permitted
<1> QED
  BY <1>1, <1>3, <1>4, OrderedOver, OthersInOrder

LEMMA LeaveOrders ==
  ASSUME LocksInv, OrderInv, NEW f \in Fiber, Leave(f)
  PROVE  OrderInv'
<1>1. LockTypes /\ Permitted(f) /\ pc[f] = "run" /\ Step(f) /\ UNCHANGED <<permit, want, state>>
  BY Where DEF OrderInv, Leave, Step
<1>2. CASE Goto(f, "unwind") /\ frames' = frames
  <2>1. pc'[f] = "unwind"
    BY <1>1, <1>2 DEF Goto, LockTypes
  <2> QED
    BY <1>1, <1>2, <2>1, GivesUp
<1>3. CASE /\ Runs(f, "end") /\ Advance(f)
           /\ (Top(f).locks = {} /\ Pop(f) /\ pc' = pc) \/ (Goto(f, "leave") /\ frames' = frames)
  <2> DEFINE n == Len(frames[f])
  <2>1. todo[f] # <<>> /\ Head(todo[f]).do = "end" /\ todo'[f] = Tail(todo[f]) /\ pc[f] \in Acting
    BY <1>1, <1>3 DEF Runs, Advance, LockTypes, Acting
  <2>2. /\ n \in Nat /\ Depth(f) = n /\ frames[f] \in Seq(Frame)
        /\ frames[f] # <<>> => n \in 1..n /\ Top(f) = frames[f][n]
    BY <1>1 DEF LockTypes, Depth, Top
  <2>3. /\ frames[f] # <<>> => Depth(f)' = n - 1
        /\ \A i \in 1..(n - 1) : frames'[f][i] = frames[f][i]
        /\ \A i \in 1..n : frames[f][i].locks # {} => i \in 1..Len(frames'[f]) /\ frames'[f][i] = frames[f][i]
        /\ pc'[f] = "run" \/ pc'[f] = "leave"
    <3>1. CASE Top(f).locks = {} /\ Pop(f) /\ pc' = pc
      <4>1. /\ Len(frames'[f]) \in Nat
            /\ frames[f] # <<>> => Len(frames'[f]) = n - 1
            /\ \A i \in 1..Len(frames'[f]) : i \in 1..n /\ frames'[f][i] = frames[f][i]
            /\ \A i \in 1..n : i # n => i \in 1..Len(frames'[f])
        BY <1>1, <3>1, Popped
      <4>2. frames[f] # <<>> => Depth(f)' = n - 1
        BY <1>1, <3>1, <4>1 DEF Depth
      <4>3. n > 0 => frames[f] # <<>>
        BY <2>2
      <4>4. \A i \in 1..(n - 1) : frames'[f][i] = frames[f][i]
        BY <2>2, <4>1, <4>3
      <4>5. \A i \in 1..n : frames[f][i].locks # {} => i # n
        BY <2>2, <3>1, <4>3
      <4> HIDE DEF n
      <4> QED
        BY <1>1, <3>1, <4>1, <4>2, <4>4, <4>5
    <3>2. CASE Goto(f, "leave") /\ frames' = frames
      <4>1. pc'[f] = "leave"
        BY <1>1, <3>2 DEF Goto, LockTypes
      <4> QED
        BY <2>2, <3>2, <4>1 DEF Depth
    <3> QED
      BY <1>3, <3>1, <3>2
  <2>4. Permitted(f)'
    BY <1>1, <2>3, PermittedKept
  <2>5. ASSUME f \notin Teardown \cup drifted PROVE Ordered(f)'
    <3>1. OnCourse(f)
      BY <2>5 DEF OrderInv, Ordered
    <3>2. PICK stack \in Seq(SUBSET Lock) :
             /\ Stacked(f, stack) /\ Orderly(f, stack, Head(todo[f]))
             /\ <<After(stack, Head(todo[f])), Tail(todo[f])>> \in Course[f]
      BY <2>1, <2>5, <3>1, NextOnCourse
    <3>3. stack # <<>> /\ <<SubSeq(stack, 1, Len(stack) - 1), Tail(todo[f])>> \in Course[f]
      BY <2>1, <3>2, OrderlyIs, AfterIs
    <3>4. Len(stack) = n /\ frames[f] # <<>>
      BY <2>2, <3>2, <3>3 DEF Stacked
    <3>5. /\ Depth(f)' = Len(stack) - 1
          /\ \A i \in 1..(Len(stack) - 1) : frames'[f][i].keys = frames[f][i].keys
      BY <2>3, <3>4
    <3>6. Stacked(f, SubSeq(stack, 1, Len(stack) - 1))'
      BY <3>2, <3>3, <3>5, StackedPop
    <3>7. OnCourse(f)'
      <4>1. PICK c \in Course[f] : c = <<SubSeq(stack, 1, Len(stack) - 1), Tail(todo[f])>>
        BY <3>3
      <4>2. Left(f, c[2])' /\ Stacked(f, c[1])'
        BY <2>1, <3>6, <4>1 DEF Left
      <4> QED
        BY <4>2 DEF OnCourse
    <3>8. Asks(f)'
      BY <2>3 DEF Asks
    <3> QED
      BY <3>7, <3>8 DEF Ordered
  <2> QED
    BY <1>1, <2>3, <2>4, <2>5, OthersInOrder
<1> QED
  BY <1>2, <1>3 DEF Leave

LEMMA ReleaseLockOrders ==
  ASSUME LocksInv, OrderInv, NEW f \in Fiber, ReleaseLock(f)
  PROVE  OrderInv'
<1>a. PICK l : l = Last(f)
  OBVIOUS
<1> DEFINE n == Len(frames[f])
           x == [Top(f) EXCEPT !.locks = @ \ {l}]
<1>1. /\ pc[f] \in {"leave", "unwind"} /\ frames[f] # <<>> /\ Top(f).locks # {}
      /\ LockTypes /\ StackInv(f) /\ Permitted(f) /\ Step(f)
  BY Where DEF ReleaseLock, Step, OrderInv
<1>2. n \in Nat /\ n \in 1..n /\ Top(f) = frames[f][n] /\ Top(f) \in Frame
  BY <1>1, TopFacts
<1>3. l \in Top(f).locks /\ l \in Lock
  BY <1>a, <1>1, <1>2, LastIsTop DEF Frame
<1>4. /\ \/ Top(f).locks = {l} /\ Pop(f) /\ Goto(f, IF pc[f] = "leave" THEN "run" ELSE "unwind")
         \/ Top(f).locks # {l} /\ WithTop(f, x) /\ pc' = pc
      /\ \/ l \in VolumeLocks /\ permit' = [permit EXCEPT ![ProcOf[f]][l] = Nobody]
         \/ l \notin VolumeLocks /\ permit' = permit
      /\ UNCHANGED <<todo, want, state>>
  BY <1>a DEF ReleaseLock, Last
<1>5. x \in Frame /\ x.keys = Top(f).keys /\ x.locks = Top(f).locks \ {l}
  BY <1>2 DEF Frame
<1> HIDE DEF x
<1>6. /\ \A i \in 1..(n - 1) : frames'[f][i].keys = frames[f][i].keys
      /\ \A i \in 1..n : \A k \in frames[f][i].locks :
           k # l => i \in 1..Len(frames'[f]) /\ k \in frames'[f][i].locks
      /\ pc'[f] \in {"run", "leave"} => pc[f] = "leave" /\ Depth(f)' = n - 1
      /\ pc'[f] \in {"run", "leave", "unwind"}
  <2>1. CASE Top(f).locks = {l} /\ Pop(f) /\ Goto(f, IF pc[f] = "leave" THEN "run" ELSE "unwind")
    <3>1. /\ Len(frames'[f]) = n - 1
          /\ \A i \in 1..Len(frames'[f]) : i \in 1..n /\ frames'[f][i] = frames[f][i]
          /\ \A i \in 1..n : i # n => i \in 1..Len(frames'[f])
      BY <1>1, <2>1, Popped
    <3>2. pc'[f] = IF pc[f] = "leave" THEN "run" ELSE "unwind"
      BY <1>1, <2>1 DEF Goto, LockTypes
    <3>3. pc'[f] = "run" => Depth(f)' = n - 1
      BY <3>1 DEF Depth
    <3>4. \A i \in 1..n : \A k \in frames[f][i].locks : k # l => i # n
      BY <1>2, <2>1
    <3> HIDE DEF n
    <3> QED
      BY <3>1, <3>2, <3>3, <3>4
  <2>2. CASE WithTop(f, x) /\ pc' = pc
    <3>1. /\ Len(frames'[f]) = n /\ frames'[f][n] = x
          /\ \A i \in 1..n : i # n => frames'[f][i] = frames[f][i]
      BY <1>1, <1>5, <2>2, Topped
    <3>2. pc'[f] = "leave" => Depth(f)' = n - 1
      BY <3>1 DEF Depth
    <3>3. \A i \in 1..(n - 1) : i \in 1..n /\ i # n
      BY <1>2
    <3> HIDE DEF n
    <3> QED
      BY <1>1, <1>2, <1>5, <2>2, <3>1, <3>2, <3>3
  <2> QED
    BY <1>4, <2>1, <2>2
<1>7. Permitted(f)'
  <2> SUFFICES ASSUME NEW p \in Proc, NEW k \in VolumeLocks, permit'[p][k] = f
               PROVE  ProcOf[f] = p /\ \E i \in 1..Len(frames'[f]) : k \in frames'[f][i].locks
    BY DEF Permitted
  <2>1. permit[p][k] = f /\ ~(p = ProcOf[f] /\ k = l)
    <3>1. Nobody # f /\ permit \in [Proc -> [VolumeLocks -> Fiber \cup {Nobody}]] /\ ProcOf[f] \in Proc
      BY <1>1, LocksAssumption DEF LocksAssumption, LockTypes
    <3> QED
      BY <1>4, <3>1
  <2>2. ProcOf[f] = p /\ \E i \in 1..n : k \in frames[f][i].locks
    BY <1>1, <2>1 DEF Permitted
  <2> HIDE DEF n
  <2> QED
    BY <1>6, <2>1, <2>2
<1>8. ASSUME f \notin Teardown \cup drifted PROVE Ordered(f)'
  <2>1. CASE pc'[f] = "unwind"
    BY <2>1, OrderedOver
  <2>2. CASE pc'[f] \in {"run", "leave"}
    <3>1. pc[f] = "leave" /\ Depth(f) = n - 1 /\ Depth(f)' = n - 1
      BY <1>6, <2>2 DEF Depth
    <3>2. PICK c \in Course[f] : Stacked(f, c[1]) /\ Left(f, c[2])
      BY <1>8, <3>1 DEF OrderInv, Ordered, OnCourse
    <3>3. Left(f, c[2])'
      BY <1>4, <3>2 DEF Left
    <3>4. Stacked(f, c[1])'
      BY <1>6, <3>1, <3>2 DEF Stacked
    <3>5. OnCourse(f)'
      BY <3>3, <3>4 DEF OnCourse
    <3>6. Asks(f)'
      BY <2>2 DEF Asks
    <3> QED
      BY <3>5, <3>6 DEF Ordered
  <2> QED
    BY <1>6, <2>1, <2>2
<1> QED
  BY <1>1, <1>6, <1>7, <1>8, OthersInOrder

LEMMA ClosePhaseOrders ==
  ASSUME LocksInv, OrderInv, NEW f \in Fiber, ClosePhase(f)
  PROVE  OrderInv'
<1>1. /\ pc[f] = "unwind" /\ frames[f] # <<>> /\ Top(f).locks = {} /\ Pop(f) /\ UNCHANGED <<permit, pc>>
      /\ LockTypes /\ Step(f)
  BY Where DEF ClosePhase, Step
<1>2. Top(f) = frames[f][Len(frames[f])]
  BY <1>1, TopFacts
<1>3. \A i \in 1..Len(frames[f]) : \A l \in frames[f][i].locks : i # Len(frames[f])
  BY <1>1, <1>2
<1>4. /\ \A i \in 1..Len(frames'[f]) : frames'[f][i] = frames[f][i]
      /\ \A i \in 1..Len(frames[f]) : i # Len(frames[f]) => i \in 1..Len(frames'[f])
  BY <1>1, Popped
<1>5. \A i \in 1..Len(frames[f]) : \A l \in frames[f][i].locks :
        \E k \in 1..Len(frames'[f]) : l \in frames'[f][k].locks
  BY <1>3, <1>4
<1> QED
  BY <1>1, <1>5, GivesUp

LEMMA FinishOrders ==
  ASSUME LocksInv, OrderInv, NEW f \in Fiber, Finish(f)
  PROVE  OrderInv'
<1>1. pc[f] = "unwind" /\ UNCHANGED <<permit, frames>> /\ LockTypes /\ Step(f)
  BY Where DEF Finish, Step
<1>2. pc'[f] = "done"
  BY <1>1 DEF Finish, Goto, LockTypes
<1> QED
  BY <1>1, <1>2, GivesUp

LEMMA BeginOrders ==
  ASSUME LocksInv, OrderInv, NEW f \in Fiber, Begin(f)
  PROVE  OrderInv'
<1>1. PICK program \in Program[f] : todo' = [todo EXCEPT ![f] = program]
  BY DEF Begin
<1> QED
  BY <1>1, RunningOrders

\* The fibers of a process that died are over; the others go on as they were.
LEMMA CrashOrders ==
  ASSUME LocksInv, OrderInv, NEW p \in Proc, Crash(p)
  PROVE  OrderInv'
<1> DEFINE lost == {f \in Fiber : ProcOf[f] = p /\ pc[f] # "done"}
<1>1. /\ dead' = dead \cup {p} /\ drifted' = drifted
      /\ permit' = [permit EXCEPT ![p] = [l \in VolumeLocks |-> Nobody]]
      /\ permit \in [Proc -> [VolumeLocks -> Fiber \cup {Nobody}]] /\ Nobody \notin Fiber
  BY LocksAssumption DEF Crash, LocksInv, LockTypes, LocksAssumption
<1>2. /\ pc' = [f \in Fiber |-> IF f \in lost THEN "dead" ELSE pc[f]]
      /\ todo' = [f \in Fiber |-> IF f \in lost THEN <<>> ELSE todo[f]]
      /\ frames' = [f \in Fiber |-> IF f \in lost THEN <<>> ELSE frames[f]]
      /\ want' = [f \in Fiber |-> IF f \in lost THEN {} ELSE want[f]]
  BY DEF Crash
<1>3. \A f \in Fiber : \/ ProcOf[f] = p /\ pc'[f] = "dead"
                       \/ ProcOf[f] = p /\ pc[f] = "done" /\ pc'[f] = "done"
                       \/ /\ ProcOf[f] # p
                          /\ pc'[f] = pc[f] /\ todo'[f] = todo[f] /\ frames'[f] = frames[f] /\ want'[f] = want[f]
  BY <1>2
<1> HIDE DEF lost
<1>4. \A q \in Proc, l \in VolumeLocks : \A f \in Fiber : permit'[q][l] = f => q # p /\ permit[q][l] = f
  BY <1>1
<1>5. ASSUME NEW f \in Fiber PROVE Permitted(f)' /\ (f \notin Teardown \cup drifted => Ordered(f)')
  <2>1. Permitted(f) /\ (f \notin Teardown \cup drifted => Ordered(f))
    BY DEF OrderInv
  <2>2. CASE ProcOf[f] = p
    <3>1. \A q \in Proc, l \in VolumeLocks : permit'[q][l] # f
      BY <1>4, <2>1, <2>2 DEF Permitted
    <3>2. pc'[f] \in {"done", "dead"}
      BY <1>3, <2>2
    <3> QED
      BY <3>1, <3>2, OrderedOver DEF Permitted
  <2>3. CASE ProcOf[f] # p
    <3>1. pc'[f] = pc[f] /\ todo'[f] = todo[f] /\ frames'[f] = frames[f] /\ want'[f] = want[f]
      BY <1>3, <2>3
    <3>2. Permitted(f)'
      BY <1>4, <2>1, <3>1, PermittedKept
    <3> QED
      BY <2>1, <3>1, <3>2, OrderedSame
  <2> QED
    BY <2>2, <2>3
<1>6. ASSUME NEW f \in Fiber PROVE SameApp(f)'
  <2> SUFFICES ASSUME pc'[f] \in {"peek", "wait"}, ParentOf[f] # Nobody, Alive(ParentOf[f])',
                      ParentOf[f] \notin drifted',
                      NEW k \in Around(ParentOf[f])', NEW l \in want'[f], k[1] = l[1]
               PROVE  k = l
    BY DEF SameApp
  <2>1. ParentOf[f] \in Fiber
    BY ParentIsAnother
  <2>2. ProcOf[ParentOf[f]] # p /\ Alive(ParentOf[f])
    BY <1>1 DEF Alive
  <2>3. pc'[f] = pc[f] /\ want'[f] = want[f]
    BY <1>3
  <2>4. Around(ParentOf[f])' = Around(ParentOf[f])
    BY <1>3, <2>1, <2>2 DEF Around
  <2> QED
    BY <1>1, <2>2, <2>3, <2>4 DEF OrderInv, SameApp
<1> QED
  BY <1>1, <1>5, <1>6 DEF OrderInv

\* Nothing changes of what the commands do, and no fiber comes back from a move.
LEMMA SameOrders ==
  ASSUME OrderInv, UNCHANGED <<permit, dead, pc, todo, frames, want>>, drifted \subseteq drifted'
  PROVE  OrderInv'
<1>1. ASSUME NEW f \in Fiber PROVE Permitted(f)' /\ (f \notin Teardown \cup drifted' => Ordered(f)')
  <2>1. Permitted(f) /\ (f \notin Teardown \cup drifted' => Ordered(f))
    BY DEF OrderInv
  <2> QED
    BY <2>1, PermittedKept, OrderedSame
<1>2. ASSUME NEW f \in Fiber PROVE SameApp(f)'
  <2>1. Around(ParentOf[f])' = Around(ParentOf[f]) /\ (Alive(ParentOf[f])' <=> Alive(ParentOf[f]))
    BY DEF Around, Alive
  <2>2. SameApp(f)
    BY DEF OrderInv
  <2> QED
    BY <2>1, <2>2 DEF SameApp
<1> QED
  BY <1>1, <1>2 DEF OrderInv

LEMMA InitOrders ==
  Init => OrderInv
<1> SUFFICES ASSUME Init, NEW f \in Fiber PROVE Permitted(f) /\ SameApp(f) /\ Ordered(f)
  BY DEF OrderInv
<1>1. pc[f] = "idle" /\ f # Nobody /\ \A p \in Proc, l \in VolumeLocks : permit[p][l] = Nobody
  BY LocksAssumption DEF Init, LocksAssumption
<1> QED
  BY <1>1 DEF Permitted, SameApp, Ordered, OnCourse, Asks

LEMMA NextKeepsOrder ==
  ASSUME LocksInv, OrderInv, [Next]_vars
  PROVE  OrderInv'
<1>1. ASSUME NEW f \in Fiber, Begin(f) \/ Step(f) \/ Fail(f) PROVE OrderInv'
  <2>1. CASE Begin(f)
    BY <2>1, BeginOrders
  <2>2. CASE Launch(f)
    BY <2>2, LaunchOrders
  <2>3. CASE HookReturns(f)
    BY <2>3, HookReturnsOrders
  <2>4. CASE EnterCoordinator(f)
    BY <2>4, CoordinatorOrders
  <2>5. CASE EnterApp(f)
    BY <2>5, EnterAppOrders
  <2>6. CASE borrowedMutationOwner(f)
    BY <2>6, BorrowOrders
  <2>7. CASE AcquireApp(f)
    BY <2>7, AcquireAppOrders
  <2>8. CASE AppTimeout(f) \/ Fail(f)
    BY <2>8, AppTimeoutOrders
  <2>9. CASE Recheck(f)
    BY <2>9, RecheckOrders
  <2>10. CASE EnterPlan(f)
    BY <2>10, EnterPlanOrders
  <2>11. CASE TakePermit(f)
    BY <2>11, TakePermitOrders
  <2>12. CASE TakeFile(f)
    BY <2>12, TakeFileOrders
  <2>13. CASE VolumeTimeout(f)
    BY <2>13, VolumeTimeoutOrders
  <2>14. CASE Leave(f)
    BY <2>14, LeaveOrders
  <2>15. CASE ReleaseLock(f)
    BY <2>15, ReleaseLockOrders
  <2>16. CASE ClosePhase(f)
    BY <2>16, ClosePhaseOrders
  <2>17. CASE Finish(f)
    BY <2>17, FinishOrders
  <2> QED
    BY <1>1, <2>1, <2>2, <2>3, <2>4, <2>5, <2>6, <2>7, <2>8, <2>9, <2>10, <2>11, <2>12, <2>13, <2>14,
       <2>15, <2>16, <2>17 DEF Step
<1>2. ASSUME NEW p \in Proc, Crash(p) PROVE OrderInv'
  BY <1>2, CrashOrders
<1>3. ASSUME NEW a \in App, Move(a) PROVE OrderInv'
  BY <1>3, SameOrders DEF Move
<1>4. CASE UNCHANGED vars
  BY <1>4, SameOrders DEF vars
<1> QED
  BY <1>1, <1>2, <1>3, <1>4 DEF Next

\* How far a fiber that waits has come in the order: at a lock, at its file, or at a child.
Place(f) ==
  IF pc[f] = "wait" THEN 4 * Rank[Wanted(f)]
  ELSE IF pc[f] = "guard" THEN 4 * Rank[NextKey(f)]
  ELSE IF pc[f] = "file" THEN 4 * Rank[NextKey(f)] + 1
  ELSE 4 * Floor[Head(todo[f]).child] + 2

Blocked(f) == pc[f] \in {"wait", "guard", "file"} \/ Runs(f, "launched")

\* What the proof knows of each fiber of a circle.
Queued(f) == f \notin Teardown \cup drifted /\ Ordered(f) /\ Blocked(f)

LEMMA AskedFor ==
  ASSUME LocksInv, NEW f \in Fiber, Queued(f), pc[f] \in {"wait", "guard", "file"}
  PROVE  \E k \in Lock : /\ Behind(f, k)
                         /\ pc[f] = "wait" => k = Wanted(f) /\ k \in AppLocks /\ want[f] = {k}
                         /\ pc[f] # "wait" => /\ k = NextKey(f) /\ k \in VolumeLocks /\ frames[f] # <<>>
                                              /\ \A l \in Top(f).locks : l[2] < k[2]
<1>1. StepInv(f) /\ Asks(f)
  BY Where DEF Queued, Ordered
<1>2. CASE pc[f] = "wait"
  <2>1. PICK k \in AppLocks : want[f] = {k}
    BY <1>1, <1>2 DEF StepInv
  <2>2. Wanted(f) = k
    BY <2>1 DEF Wanted
  <2>3. Behind(f, k)
    BY <1>1, <1>2, <2>1 DEF Asks
  <2> QED
    BY <1>2, <2>1, <2>2, <2>3 DEF Lock
<1>3. CASE pc[f] \in {"guard", "file"}
  <2>1. NextKey(f) \in want[f] /\ NextKey(f) \in VolumeLocks /\ frames[f] # <<>>
    BY <1>3, Opens
  <2>2. Behind(f, NextKey(f)) /\ \A l \in Top(f).locks : l[2] < NextKey(f)[2]
    BY <1>1, <1>3, <2>1 DEF Asks
  <2> QED
    BY <1>3, <2>1, <2>2 DEF Lock
<1> QED
  BY <1>2, <1>3

\* A hook's child is ranked behind what is open around the hook.
LEMMA HookOnCourse ==
  ASSUME LocksInv, NEW f \in Fiber, Queued(f), Runs(f, "launched"), NEW c, c = Head(todo[f]).child
  PROVE  /\ c \in Fiber /\ ParentOf[c] = f /\ Floor[f] < Floor[c]
         /\ \A i \in 1..Len(frames[f]) : \A h \in frames[f][i].keys : Rank[h] <= Floor[c]
         /\ \A a \in Inherited[c] : \E i \in 1..Len(frames[f]) :
              \E h \in frames[f][i].keys : h \in Lock /\ Named(h) = <<a, 0>>
<1>1. LockTypes /\ pc[f] = "run" /\ todo[f] # <<>> /\ Head(todo[f]).do = "launched"
  BY Where DEF Runs
<1>2. c \in Fiber /\ ParentOf[c] = f
  BY <1>1, WorkFacts
<1>3. OnCourse(f) /\ f \notin Teardown /\ pc[f] \in {"run", "peek", "wait", "check", "guard", "file", "leave"}
  BY <1>1 DEF Queued, Ordered
<1>4. PICK stack \in Seq(SUBSET Lock), program \in Seq(Instruction(f)) :
         /\ <<stack, program>> \in Course[f] /\ Stacked(f, stack) /\ Left(f, program)
         /\ program # <<>> => Orderly(f, stack, Head(program))
  BY <1>3, CourseOf
<1>5. program # todo[f]
  <2>1. \A y \in Instruction(f) : y.do # "launched"
    BY DEF Instruction
  <2> QED
    BY <1>1, <2>1, HeadTailProperties
<1>6. program # <<>> /\ Head(program) = Hook(c)
  BY <1>4, <1>5 DEF Left
<1>7. Head(program).do = "hook" /\ Head(program).child = c
  BY <1>6 DEF Hook
<1>8. /\ Floor[f] < Floor[c]
      /\ \A h \in Inside(stack) : Rank[h] <= Floor[c]
      /\ \A a \in Inherited[c] : <<a, 0>> \in Inside(stack)
  BY <1>4, <1>6, <1>7, OrderlyIs
<1>9. Len(stack) = Len(frames[f])
  BY <1>1, <1>4 DEF Stacked, Depth
<1>10. ASSUME NEW i \in 1..Len(frames[f]), NEW h \in frames[f][i].keys PROVE Rank[h] <= Floor[c]
  <2>1. h \in Lock /\ Named(h) \in Inside(stack)
    BY <1>1, <1>4, <1>9, InStack
  <2> QED
    BY <1>8, <2>1, NamedLocks
<1>11. ASSUME NEW a \in Inherited[c]
       PROVE  \E i \in 1..Len(frames[f]) : \E h \in frames[f][i].keys : h \in Lock /\ Named(h) = <<a, 0>>
  <2>1. <<a, 0>> \in Inside(stack)
    BY <1>8
  <2>2. PICK i \in 1..Len(stack) : \E h \in frames[f][i].keys : Named(h) = <<a, 0>>
    BY <1>1, <1>4, <2>1, InStack
  <2>3. frames[f][i].keys \subseteq Lock
    BY <1>1, <1>4, InStack
  <2> QED
    BY <1>9, <2>2, <2>3
<1> QED
  BY <1>2, <1>8, <1>10, <1>11

LEMMA PlaceIs ==
  ASSUME LocksInv, NEW f \in Fiber, Queued(f)
  PROVE  Place(f) \in 0..(4 * TopRank + 2)
<1>1. /\ TopRank \in Nat /\ \A k \in Lock : Rank[k] \in 1..TopRank
      /\ \A c \in Fiber : Floor[c] \in 0..TopRank
  BY LockOrderAssumption DEF LockOrderAssumption
<1>2. CASE pc[f] \in {"wait", "guard", "file"}
  <2>1. PICK k \in Lock : (pc[f] = "wait" => k = Wanted(f)) /\ (pc[f] # "wait" => k = NextKey(f))
    BY <1>2, AskedFor
  <2>2. Place(f) = 4 * Rank[k] \/ Place(f) = 4 * Rank[k] + 1
    BY <1>2, <2>1 DEF Place
  <2>3. Rank[k] \in 1..TopRank
    BY <1>1
  <2> QED
    BY <1>1, <2>2, <2>3
<1>3. CASE Runs(f, "launched")
  <2>a. PICK c : c = Head(todo[f]).child
    OBVIOUS
  <2>1. Place(f) = 4 * Floor[c] + 2
    BY <1>3, <2>a DEF Place, Runs
  <2>2. Floor[c] \in 0..TopRank
    BY <1>1, <1>3, <2>a, HookOnCourse
  <2> QED
    BY <1>1, <2>1, <2>2
<1> QED
  BY <1>2, <1>3 DEF Queued, Blocked

\* A fiber that waits has come further than any lock it holds.
LEMMA BeyondItsLocks ==
  ASSUME LocksInv, NEW g \in Fiber, Queued(g), NEW l \in Lock,
         NEW i \in 1..Len(frames[g]), l \in frames[g][i].locks
  PROVE  Place(g) > 4 * Rank[l] + 1
<1>1. LockTypes /\ StackInv(g) /\ \A k \in Lock : Rank[k] \in Nat
  BY Where, LockOrderAssumption DEF LockOrderAssumption
<1>2. l \in frames[g][i].keys /\ Len(frames[g]) \in Nat
  BY <1>1 DEF StackInv, LockTypes
<1>3. CASE pc[g] \in {"wait", "guard", "file"}
  <2>1. PICK k \in Lock : /\ Behind(g, k)
                          /\ pc[g] = "wait" => k = Wanted(g)
                          /\ pc[g] # "wait" => /\ k = NextKey(g) /\ k \in VolumeLocks /\ frames[g] # <<>>
                                               /\ \A j \in Top(g).locks : j[2] < k[2]
    BY <1>3, AskedFor
  <2>2. Rank[l] < Rank[k]
    <3>1. CASE i \in 1..Depth(g)
      BY <1>2, <2>1, <3>1 DEF Behind
    <3>2. CASE i \notin 1..Depth(g)
      <4>1. pc[g] \in {"guard", "file"} /\ i = Len(frames[g])
        BY <1>2, <1>3, <3>2 DEF Depth
      <4>2. l \in Top(g).locks /\ l \in Top(g).keys
        BY <1>2, <4>1 DEF Top
      <4>3. k \in Top(g).keys /\ l[2] < k[2]
        BY <2>1, <4>1, <4>2, Opens
      <4>4. Head(todo[g]).do = "plan" /\ Top(g).keys = Head(todo[g]).keys /\ todo[g] # <<>>
        BY <4>1, Opens DEF Queued, Ordered, Asks
      <4>5. OnCourse(g) /\ pc[g] \in Acting /\ g \notin Teardown
        BY <4>1 DEF Queued, Ordered, Acting
      <4>6. \E stack : Orderly(g, stack, Head(todo[g]))
        BY <4>4, <4>5, NextOnCourse
      <4>7. \A j, h \in Head(todo[g]).keys : j[2] < h[2] => Rank[j] < Rank[h]
        BY <4>4, <4>6, OrderlyIs
      <4> QED
        BY <4>2, <4>3, <4>4, <4>7
    <3> QED
      BY <3>1, <3>2
  <2>3. Place(g) = 4 * Rank[k] \/ Place(g) = 4 * Rank[k] + 1
    BY <1>3, <2>1 DEF Place
  <2>4. Rank[k] \in Nat /\ Rank[l] \in Nat
    BY <1>1
  <2> QED
    BY <2>2, <2>3, <2>4
<1>4. CASE Runs(g, "launched")
  <2>a. PICK c : c = Head(todo[g]).child
    OBVIOUS
  <2>1. Place(g) = 4 * Floor[c] + 2
    BY <1>4, <2>a DEF Place, Runs
  <2>2. c \in Fiber /\ Rank[l] <= Floor[c]
    BY <1>2, <1>4, <2>a, HookOnCourse
  <2>3. Rank[l] \in Nat /\ Floor[c] \in Nat
    BY <1>1, <2>2, LockOrderAssumption DEF LockOrderAssumption
  <2> QED
    BY <2>1, <2>2, <2>3
<1> QED
  BY <1>3, <1>4 DEF Queued, Blocked

\* Whom a fiber waits for at a lock has come further.
LEMMA LockGoesUp ==
  ASSUME LocksInv, OrderInv, NEW f \in Fiber, NEW g \in Fiber, Queued(f), Queued(g), WaitsFor(f, g),
         pc[f] \in {"wait", "guard", "file"}
  PROVE  Place(f) < Place(g)
<1>1. PICK k \in Lock : /\ pc[f] = "wait" => k = Wanted(f)
                        /\ pc[f] # "wait" => k = NextKey(f) /\ k \in VolumeLocks
  BY AskedFor
<1>2. Rank[k] \in Nat
  BY LockOrderAssumption DEF LockOrderAssumption
<1>3. Place(f) = IF pc[f] = "file" THEN 4 * Rank[k] + 1 ELSE 4 * Rank[k]
  BY <1>1 DEF Place
<1>4. ~Runs(f, "launched")
  BY DEF Runs
<1>5. Place(g) \in Nat
  BY PlaceIs, LockOrderAssumption DEF LockOrderAssumption
<1>6. CASE owner[k] = g /\ Alive(g)
  <2>1. \E i \in 1..Len(frames[g]) : k \in frames[g][i].locks
    BY <1>6, Where DEF StackInv
  <2>2. Place(g) > 4 * Rank[k] + 1
    BY <2>1, BeyondItsLocks
  <2> QED
    BY <1>2, <1>3, <1>5, <2>2
<1>7. CASE pc[f] = "guard" /\ permit[ProcOf[f]][k] = g
  <2>1. ProcOf[f] \in Proc /\ k \in VolumeLocks
    BY <1>1, <1>7, LocksAssumption DEF LocksAssumption
  <2>2. \/ pc[g] = "file" /\ k = NextKey(g)
        \/ \E i \in 1..Len(frames[g]) : k \in frames[g][i].locks
    BY <1>7, <2>1 DEF OrderInv, Permitted
  <2>3. Place(g) >= 4 * Rank[k] + 1
    <3>1. CASE pc[g] = "file" /\ k = NextKey(g)
      <4>1. Place(g) = 4 * Rank[k] + 1
        BY <3>1 DEF Place
      <4> QED
        BY <1>2, <4>1
    <3>2. CASE \E i \in 1..Len(frames[g]) : k \in frames[g][i].locks
      <4>1. Place(g) > 4 * Rank[k] + 1
        BY <3>2, BeyondItsLocks
      <4> QED
        BY <1>2, <1>5, <4>1
    <3> QED
      BY <2>2, <3>1, <3>2
  <2> QED
    BY <1>2, <1>3, <1>5, <1>7, <2>3
<1> QED
  BY <1>1, <1>4, <1>6, <1>7 DEF WaitsFor

\* The child a fiber waits for has come further: it is told what its launchers hold.
LEMMA HookGoesUp ==
  ASSUME LocksInv, OrderInv, TokensTell, NEW f \in Fiber, NEW g \in Fiber, Queued(f), Queued(g),
         Runs(f, "launched"), Head(todo[f]).child = g
  PROVE  Place(f) < Place(g)
<1>1. /\ ParentOf[g] = f /\ pc[f] = "run"
      /\ \A a \in Inherited[g] : \E i \in 1..Len(frames[f]) :
           \E h \in frames[f][i].keys : h \in Lock /\ Named(h) = <<a, 0>>
  BY HookOnCourse DEF Runs
<1>2. Place(f) = 4 * Floor[g] + 2
  BY DEF Place, Runs
<1>3. (\A k \in Lock : Rank[k] \in Nat) /\ \A c \in Fiber : Floor[c] \in Nat
  BY LockOrderAssumption DEF LockOrderAssumption
<1>4. CASE pc[g] \in {"wait", "guard", "file"}
  <2>1. PICK k \in Lock : /\ Behind(g, k)
                          /\ pc[g] = "wait" => k = Wanted(g) /\ k \in AppLocks /\ want[g] = {k}
                          /\ pc[g] # "wait" => k = NextKey(g) /\ frames[g] # <<>>
    BY <1>4, AskedFor
  <2>2. Place(g) = 4 * Rank[k] \/ Place(g) = 4 * Rank[k] + 1
    BY <1>4, <2>1 DEF Place
  <2>3. CASE Rank[k] > Floor[g]
    BY <1>2, <1>3, <2>2, <2>3
  <2>4. CASE frames[g] = <<>> /\ k[1] \in Inherited[g]
    <3>1. pc[g] = "wait" /\ k = Wanted(g) /\ k \in AppLocks /\ want[g] = {k}
      BY <1>4, <2>1, <2>4
    <3>2. PICK i \in 1..Len(frames[f]) : \E h \in frames[f][i].keys : h \in Lock /\ Named(h) = <<k[1], 0>>
      BY <1>1, <2>4
    <3>3. PICK h \in frames[f][i].keys : h \in Lock /\ Named(h) = <<k[1], 0>>
      BY <3>2
    <3>4. h \in AppLocks /\ h[1] = k[1]
      BY <3>1, <3>3, NamedLocks, LockSets
    <3>5. h \in Around(f)
      <4>1. LockTypes
        BY DEF LocksInv
      <4>2. DOMAIN frames[f] = 1..Len(frames[f])
        BY <4>1 DEF LockTypes
      <4> QED
        BY <1>1, <3>3, <4>2 DEF Around
    <3>6. Alive(f) /\ f # Nobody /\ f \notin drifted
      BY <1>1, Where, LocksAssumption DEF StepInv, LocksAssumption, Queued
    <3>7. SameApp(g) /\ NotBehindParent(g)
      BY <1>1, <3>6 DEF OrderInv, LocksInv, Awaited
    <3>8. h = k
      BY <1>1, <3>1, <3>4, <3>5, <3>6, <3>7 DEF SameApp
    <3>9. owner[k] = f
      <4>1. owner[k] = f \/ <<f, k>> \in expired
        BY <3>5, <3>8, KeysAreLocked
      <4>2. expired \subseteq Fiber \X VolumeLocks
        BY DEF LocksInv, LockTypes
      <4> QED
        BY <3>1, <4>1, <4>2, LockSets
    <3> QED
      BY <1>1, <3>1, <3>6, <3>7, <3>9 DEF NotBehindParent
  <2> QED
    BY <2>1, <2>3, <2>4 DEF Behind
<1>5. CASE Runs(g, "launched")
  <2>a. PICK c : c = Head(todo[g]).child
    OBVIOUS
  <2>1. Place(g) = 4 * Floor[c] + 2
    BY <1>5, <2>a DEF Place, Runs
  <2>2. c \in Fiber /\ Floor[g] < Floor[c]
    BY <1>5, <2>a, HookOnCourse
  <2> QED
    BY <1>2, <1>3, <2>1, <2>2
<1> QED
  BY <1>4, <1>5 DEF Queued, Blocked

-----------------------------------------------------------------------------
(* The theorem that follows from the order.                                *)

(* However many commands run and whatever their programs, as long as each takes  *)
(* its locks in the order and the tokens tell who launched whom, those that lock *)
(* one app at a time never wait for one another in a circle: the one that has    *)
(* come furthest waits for nobody among them.                                    *)
THEOREM NobodyWaitsInACircle ==
  Spec => []NoCircularWait
<1>1. LocksInv /\ OrderInv => NoCircularWait
  <2> SUFFICES ASSUME LocksInv, OrderInv, TokensTell, NEW S \in SUBSET (Fiber \ (Teardown \cup drifted)),
                      S # {}, \A f \in S : \E g \in S : WaitsFor(f, g)
               PROVE  FALSE
    BY DEF NoCircularWait
  <2>1. ASSUME NEW f \in S PROVE f \in Fiber /\ Queued(f)
    <3>1. f \in Fiber /\ f \notin Teardown \cup drifted
      OBVIOUS
    <3>2. Blocked(f)
      BY DEF WaitsFor, Blocked
    <3> QED
      BY <3>1, <3>2 DEF OrderInv, Queued
  <2> DEFINE Places == {Place(f) : f \in S}
             V == 0..(4 * TopRank + 2)
  <2>2. Places \subseteq V /\ Places # {}
    BY <2>1, PlaceIs
  <2>3. TopRank \in Nat
    BY LockOrderAssumption DEF LockOrderAssumption
  <2>4. IsFiniteSet(V) /\ V \subseteq Nat
    <3>1. 4 * TopRank + 2 \in Nat
      BY <2>3
    <3> QED
      BY <3>1, FS_Interval
  <2>5. PICK n \in Places : \A k \in Places : k <= n
    <3> HIDE DEF Places, V
    <3> QED
      BY <2>2, <2>4, LastNumber
  <2>6. PICK f \in S : Place(f) = n
    OBVIOUS
  <2>7. PICK g \in S : WaitsFor(f, g)
    OBVIOUS
  <2>8. Place(f) < Place(g)
    <3>1. CASE pc[f] \in {"wait", "guard", "file"}
      BY <2>1, <2>7, <3>1, LockGoesUp
    <3>2. CASE pc[f] \notin {"wait", "guard", "file"}
      BY <2>1, <2>7, <3>2, HookGoesUp DEF WaitsFor
    <3> QED
      BY <3>1, <3>2
  <2>9. Place(f) \in Nat /\ Place(g) \in Nat /\ Place(g) <= Place(f)
    <3>1. Place(f) \in V /\ Place(g) \in V
      BY <2>2
    <3>2. Place(g) <= Place(f)
      BY <2>5, <2>6
    <3> QED
      BY <2>4, <3>1, <3>2
  <2> HIDE DEF Places, V
  <2> QED
    BY <2>8, <2>9
<1>2. Init => OrderInv
  BY InitOrders
<1>3. LocksInv /\ OrderInv /\ [Next]_vars => OrderInv'
  BY NextKeepsOrder
<1> QED
  BY <1>1, <1>2, <1>3, LocksHold, PTL DEF Spec

(* A command whose program keeps the order never waits for a permit, a file or a *)
(* child that is its own, whatever the others do.  A nested phase of which the   *)
(* command holds some keys and not all breaks the order, and does make it wait.  *)
THEOREM OrderedNeverWaitForThemselves ==
  Spec => [](\A f \in Fiber \ (Teardown \cup drifted) : ~WaitsFor(f, f))
<1> DEFINE Inv == \A f \in Fiber \ (Teardown \cup drifted) : ~WaitsFor(f, f)
<1>1. LocksInv /\ OrderInv => Inv
  <2> SUFFICES ASSUME LocksInv, OrderInv, NEW f \in Fiber \ (Teardown \cup drifted), WaitsFor(f, f)
               PROVE  FALSE
    OBVIOUS
  <2>1. Queued(f)
    BY DEF OrderInv, Queued, WaitsFor, Blocked
  <2>2. pc[f] \in {"wait", "guard", "file"}
    <3> SUFFICES ASSUME Runs(f, "launched"), Head(todo[f]).child = f PROVE FALSE
      BY DEF WaitsFor
    <3>1. ParentOf[f] = f
      BY <2>1, HookOnCourse
    <3> QED
      BY <3>1, ProgramsAssumption DEF ProgramsAssumption
  <2>3. Place(f) < Place(f)
    BY <2>1, <2>2, LockGoesUp
  <2>4. Place(f) \in Nat
    BY <2>1, PlaceIs, LockOrderAssumption DEF LockOrderAssumption
  <2> QED
    BY <2>3, <2>4
<1>2. Init => OrderInv
  BY InitOrders
<1>3. LocksInv /\ OrderInv /\ [Next]_vars => OrderInv'
  BY NextKeepsOrder
<1> QED
  BY <1>1, <1>2, <1>3, LocksHold, PTL DEF Spec
=============================================================================
