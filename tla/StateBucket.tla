---------------------------- MODULE StateBucket -----------------------------
(***************************************************************************)
(* One bucket of state-store: a file read by anybody, replaced atomically  *)
(* through a temporary file, and changed by read-modify-write operations   *)
(* that may hold an advisory lock (bucket.ts, service.ts, atomic.ts).      *)
(*                                                                         *)
(* A value is the set of marks of the updates it holds.  The lock is the   *)
(* lock of LockContract, and a dead owner's is taken as reclaimed at once. *)
(***************************************************************************)
EXTENDS Naturals, FiniteSets

CONSTANTS
  Process,
  Specs,          \* the bucket specs considered
  Nobody,         \* no lock holder
  MaxOps,         \* bound: operations of a process
  MaxCrashes,     \* bound: processes that die
  MaxDamages      \* bound: files damaged from outside

\* A bucket's spec, and the operations its callers use.
BucketSpec == [lock : {"advisory", "none"},
               onCorrupt : {"quarantine", "discard", "fail"},
               onVersionMismatch : {"migrate", "discard"},
               uses : SUBSET {"get", "update", "set", "remove"}]
ASSUME SpecsAssumption == Specs \subseteq BucketSpec
ASSUME NobodyAssumption == Nobody \notin Process
ASSUME BoundsAssumption == MaxOps \in Nat /\ MaxCrashes \in Nat /\ MaxDamages \in Nat

Mark == Process \X (1..MaxOps)
Content == [state : {"absent", "good", "old", "corrupt"}, marks : SUBSET Mark]
Absent == [state |-> "absent", marks |-> {}]
Good(marks) == [state |-> "good", marks |-> marks]

VARIABLES
  spec,      \* the spec the bucket was opened with
  file,      \* what the bucket's path names
  temps,     \* temporary files, named by the operation that created them
  lock,      \* holder of the bucket's lock
  pc, op, base,               \* each process: step, operation, value read
  ops, crashes, damages       \* spent bounds

local == <<pc, op, base>>
spent == <<crashes, damages>>
vars == <<spec, file, temps, lock, local, ops, spent>>

Init ==
  /\ spec \in Specs
  /\ file \in {Absent, Good({}), [state |-> "old", marks |-> {}]}
  /\ temps = {} /\ lock = Nobody
  /\ pc = [p \in Process |-> "idle"]
  /\ op = [p \in Process |-> "get"]
  /\ base = [p \in Process |-> {}]
  /\ ops = [p \in Process |-> 0]
  /\ crashes = 0 /\ damages = 0

Goto(p, step) == pc' = [pc EXCEPT ![p] = step]
Current(p) == <<p, ops[p]>>
Value(p) == IF op[p] = "update" THEN base[p] \cup {Current(p)} ELSE {Current(p)}

\* The operation's scope closes: the lock is released, the caller has its answer.
Finish(p) ==
  /\ Goto(p, "idle")
  /\ lock' = IF lock = p THEN Nobody ELSE lock
  /\ base' = [base EXCEPT ![p] = {}]
  /\ UNCHANGED op

-----------------------------------------------------------------------------
\* The first step of an operation once any lock it needs is held.
First(kind) == CASE kind \in {"get", "update"} -> "read"
                 [] kind = "set" -> "write"
                 [] kind = "remove" -> "remove"

NeedsLock_WritesOnly(kind) == kind \in {"set", "remove"} /\ spec.lock = "advisory"

\* get takes no lock; every mutation takes the bucket's, if it has one.
NeedsLock(kind) == kind # "get" /\ spec.lock = "advisory"

Begin(p) ==
  /\ pc[p] = "idle" /\ ops[p] < MaxOps
  /\ \E kind \in spec.uses :
       /\ op' = [op EXCEPT ![p] = kind]
       /\ Goto(p, IF NeedsLock(kind) THEN "lock" ELSE First(kind))
  /\ ops' = [ops EXCEPT ![p] = @ + 1]
  /\ UNCHANGED <<file, temps, lock, base, spent>>

AcquireLock(p) ==
  /\ pc[p] = "lock" /\ lock = Nobody
  /\ lock' = p
  /\ Goto(p, First(op[p]))
  /\ UNCHANGED <<file, temps, op, base, ops, spent>>

LockTimesOut(p) ==
  /\ pc[p] = "lock" /\ lock # Nobody
  /\ Finish(p)
  /\ UNCHANGED <<file, temps, ops, spent>>

\* What get goes on with: the decoded or migrated value, or the fallback.
Decoded == CASE file.state = "good" -> file.marks
             [] file.state = "old" /\ spec.onVersionMismatch = "migrate" -> file.marks
             [] OTHER -> {}

Read(p) ==
  /\ pc[p] = "read"
  /\ IF file.state = "corrupt" /\ spec.onCorrupt # "discard"
       THEN IF spec.onCorrupt = "fail"
              THEN Finish(p)
              ELSE Goto(p, "quarantine") /\ UNCHANGED <<lock, op, base>>
       ELSE IF op[p] = "get"
              THEN Finish(p)
              ELSE /\ base' = [base EXCEPT ![p] = Decoded]
                   /\ Goto(p, "write")
                   /\ UNCHANGED <<lock, op>>
  /\ UNCHANGED <<file, temps, ops, spent>>

\* rename(file, file.corrupt-<now>): whatever the path names by now.
Quarantine(p) ==
  /\ pc[p] = "quarantine"
  /\ file' = Absent
  /\ IF op[p] = "get" THEN Finish(p) ELSE Goto(p, "write") /\ UNCHANGED <<lock, op, base>>
  /\ UNCHANGED <<temps, ops, spent>>

\* mutate and transition may keep the value, or the caller's function may fail.
Keep(p) ==
  /\ pc[p] = "write" /\ op[p] = "update"
  /\ Finish(p)
  /\ UNCHANGED <<file, temps, ops, spent>>

WriteTemp_InPlace(p) ==
  /\ pc[p] = "write"
  /\ file' = [state |-> "corrupt", marks |-> file.marks]
  /\ Goto(p, "rename")
  /\ UNCHANGED <<temps, lock, op, base, ops, spent>>

\* The whole value is written and synced under a fresh name.
WriteTemp(p) ==
  /\ pc[p] = "write"
  /\ temps' = temps \cup {Current(p)}
  /\ Goto(p, "rename")
  /\ UNCHANGED <<file, lock, op, base, ops, spent>>

\* A failure at any point before the rename removes the temporary file.
WriteFails(p) ==
  /\ pc[p] \in {"write", "rename"}
  /\ temps' = temps \ {Current(p)}
  /\ Finish(p)
  /\ UNCHANGED <<file, ops, spent>>

Rename(p) ==
  /\ pc[p] = "rename"
  /\ file' = Good(Value(p))
  /\ temps' = temps \ {Current(p)}
  /\ Finish(p)
  /\ UNCHANGED <<ops, spent>>

Remove(p) ==
  /\ pc[p] = "remove"
  /\ file' = Absent
  /\ Finish(p)
  /\ UNCHANGED <<temps, ops, spent>>

-----------------------------------------------------------------------------
(* The environment.                                                         *)

Crash(p) ==
  /\ pc[p] # "idle" /\ crashes < MaxCrashes
  /\ crashes' = crashes + 1
  /\ Finish(p)
  /\ UNCHANGED <<file, temps, ops, damages>>

Damage ==
  /\ damages < MaxDamages
  /\ file.state # "absent"
  /\ damages' = damages + 1
  /\ file' = [file EXCEPT !.state = "corrupt"]
  /\ UNCHANGED <<temps, lock, local, ops, crashes>>

Step(p) == \/ Begin(p) \/ AcquireLock(p) \/ LockTimesOut(p) \/ Read(p) \/ Quarantine(p) \/ Keep(p)
           \/ WriteTemp(p) \/ WriteFails(p) \/ Rename(p) \/ Remove(p)

Next ==
  /\ UNCHANGED spec
  /\ (\E p \in Process : Step(p) \/ Crash(p)) \/ Damage

Spec == Init /\ [][Next]_vars

-----------------------------------------------------------------------------
(* Properties.                                                              *)

\* Types; with an advisory lock, whoever mutates holds it.
TypeOK ==
  /\ spec \in Specs
  /\ file \in Content
  /\ temps \subseteq Mark /\ lock \in Process \cup {Nobody}
  /\ pc \in [Process -> {"idle", "lock", "read", "quarantine", "write", "rename", "remove"}]
  /\ op \in [Process -> {"get", "update", "set", "remove"}]
  /\ base \in [Process -> SUBSET Mark] /\ ops \in [Process -> 0..MaxOps]
  /\ crashes \in 0..MaxCrashes /\ damages \in 0..MaxDamages
  /\ spec.lock = "advisory" =>
       \A p \in Process : lock = p <=> op[p] # "get" /\ pc[p] \notin {"idle", "lock"}

\* The bucket keeps the promise of SharedRecord: no update is lost to another, and no
\* readable value vanishes except through a write or a removal (bucket.ts, lockedWrite).
Record == INSTANCE SharedRecord WITH
  uses <- spec.uses, record <- file.marks,
  damaged <- file.state = "corrupt" \/ (file.state = "old" /\ spec.onVersionMismatch = "discard")
ImplementsRecord == Record!RecordSpec

\* Neither a death nor a failed write leaves a file that cannot be decoded (atomic.ts).
NoSelfDamage == damages = 0 => file.state # "corrupt"

\* A temporary file outlives its operation only if the process died (removeCreatedFile):
\* there are never more leftovers than deaths.
NoTempLeft ==
  Cardinality({t \in temps : t # Current(t[1]) \/ pc[t[1]] # "rename"}) <= crashes

\* Only what cannot be decoded is moved out of the way by a quarantine.
QuarantinesOnlyCorrupt ==
  [][\A p \in Process : pc[p] = "quarantine" /\ pc'[p] # "quarantine" /\ file' # file
                        => file.state = "corrupt"]_vars
=============================================================================
