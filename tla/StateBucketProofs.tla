--------------------------- MODULE StateBucketProofs ---------------------------
(***************************************************************************)
(* What a bucket guarantees for any number of processes, operations,       *)
(* deaths and damages.                                                     *)
(***************************************************************************)
EXTENDS StateBucket, FiniteSetTheorems, TLAPS

\* Mutations hold the bucket's lock, and so does whoever quarantines: get takes no lock.
LockedSpecs ==
  \A s \in Specs : s.lock = "advisory" /\ (s.onCorrupt = "quarantine" => "get" \notin s.uses)

LEMMA FinishEnds ==
  ASSUME TypeOK, NEW p \in Process, Finish(p)
  PROVE  /\ pc' \in [Process -> {"idle", "lock", "read", "quarantine", "write", "rename", "remove"}]
         /\ pc'[p] = "idle" /\ \A q \in Process \ {p} : pc'[q] = pc[q]
         /\ lock' \in Process \cup {Nobody}
         /\ lock' # p /\ \A q \in Process \ {p} : lock' = q <=> lock = q
         /\ base' \in [Process -> SUBSET Mark] /\ base'[p] = {}
         /\ \A q \in Process \ {p} : base'[q] = base[q]
         /\ UNCHANGED op
  BY NobodyAssumption DEF NobodyAssumption, Finish, Goto, TypeOK

\* A process in the middle of an operation has a number for it; a get waits for no lock.
Begun ==
  \A p \in Process : /\ pc[p] # "idle" => ops[p] >= 1
                     /\ pc[p] = "lock" => op[p] # "get"
TypeInv == TypeOK /\ Begun

LEMMA TypeInit == Init => TypeInv
<1> SUFFICES ASSUME Init PROVE TypeInv
  OBVIOUS
<1>1. file \in Content
  BY DEF Init, Content, Absent, Good
<1> QED
  BY <1>1, NobodyAssumption, BoundsAssumption
  DEF NobodyAssumption, BoundsAssumption, Init, TypeInv, TypeOK, Begun

LEMMA TypeNext == TypeInv /\ [Next]_vars => TypeInv'
<1> SUFFICES ASSUME TypeInv, [Next]_vars PROVE TypeInv'
  OBVIOUS
<1> USE SpecsAssumption, NobodyAssumption, BoundsAssumption
    DEF SpecsAssumption, NobodyAssumption, BoundsAssumption
<1> USE DEF TypeInv, TypeOK, Begun, Goto, local, spent
<1>a. UNCHANGED spec
  BY DEF Next, vars
<1>b. spec.uses \subseteq {"get", "update", "set", "remove"}
  BY DEF BucketSpec
<1>1. ASSUME NEW p \in Process, Begin(p) PROVE TypeInv'
  <2>1. PICK kind \in spec.uses :
          /\ op' = [op EXCEPT ![p] = kind]
          /\ pc' = [pc EXCEPT ![p] = IF NeedsLock(kind) THEN "lock" ELSE First(kind)]
    BY <1>1 DEF Begin
  <2>2. kind \in {"get", "update", "set", "remove"}
    BY <1>b
  <2>3. /\ First(kind) \in {"read", "write", "remove"}
        /\ spec.lock = "advisory" => (NeedsLock(kind) <=> kind # "get")
    BY <2>2 DEF First, NeedsLock
  <2>4. ops' \in [Process -> 0..MaxOps]
    BY <1>1 DEF Begin
  <2>5. /\ pc[p] = "idle" /\ UNCHANGED <<file, temps, lock, base, crashes, damages>>
        /\ ops'[p] >= 1 /\ \A q \in Process \ {p} : ops'[q] = ops[q]
    BY <1>1 DEF Begin
  <2>6. /\ pc'[p] \in {"lock", "read", "write", "remove"} /\ op'[p] = kind
        /\ spec.lock = "advisory" => pc'[p] = IF kind = "get" THEN "read" ELSE "lock"
    BY <2>1, <2>2, <2>3 DEF First
  <2>7. \A q \in Process \ {p} : pc'[q] = pc[q] /\ op'[q] = op[q]
    BY <2>1
  <2>8. /\ pc' \in [Process -> {"idle", "lock", "read", "quarantine", "write", "rename", "remove"}]
        /\ op' \in [Process -> {"get", "update", "set", "remove"}]
    BY <2>1, <2>2, <2>3
  <2>9. ASSUME spec'.lock = "advisory", NEW q \in Process
        PROVE  lock' = q <=> op'[q] # "get" /\ pc'[q] \notin {"idle", "lock"}
    <3>1. CASE q = p
      BY <1>a, <2>5, <2>6, <2>9, <3>1
    <3>2. CASE q # p
      BY <1>a, <2>5, <2>7, <2>9, <3>2
    <3> QED BY <3>1, <3>2
  <2>10. Begun'
    <3>1. kind = "get" => pc'[p] # "lock"
      BY <2>1 DEF NeedsLock, First
    <3> QED BY <2>5, <2>6, <2>7, <3>1
  <2>11. spec'.lock = "advisory" =>
           \A q \in Process : lock' = q <=> op'[q] # "get" /\ pc'[q] \notin {"idle", "lock"}
    BY <2>9
  <2>12. /\ spec' \in Specs /\ file' \in Content /\ temps' \subseteq Mark
         /\ lock' \in Process \cup {Nobody} /\ base' \in [Process -> SUBSET Mark]
         /\ crashes' \in 0..MaxCrashes /\ damages' \in 0..MaxDamages
    BY <1>a, <2>5
  <2> HIDE DEF Begun
  <2> QED BY <2>4, <2>8, <2>10, <2>11, <2>12
<1>2. ASSUME NEW p \in Process, AcquireLock(p) PROVE TypeInv'
  <2>1. First(op[p]) \in {"read", "write", "remove"}
    BY DEF First
  <2>2. /\ pc[p] = "lock" /\ op[p] # "get" /\ lock = Nobody /\ lock' = p
        /\ pc' = [pc EXCEPT ![p] = First(op[p])]
        /\ UNCHANGED <<file, temps, op, base, ops, crashes, damages>>
    BY <1>2 DEF AcquireLock
  <2> HIDE DEF First
  <2> QED BY <1>a, <2>1, <2>2
<1>3. ASSUME NEW p \in Process, LockTimesOut(p) PROVE TypeInv'
  BY <1>a, <1>3, FinishEnds DEF LockTimesOut
<1>4. ASSUME NEW p \in Process, Read(p) PROVE TypeInv'
  <2>1. Decoded \subseteq Mark
    BY DEF Decoded, Content
  <2>2. UNCHANGED <<file, temps, ops, crashes, damages>>
    BY <1>4 DEF Read
  <2>3. CASE Finish(p)
    BY <1>a, <1>4, <2>2, <2>3, FinishEnds DEF Read
  <2>4. CASE ~Finish(p)
    <3>1. /\ pc[p] = "read" /\ pc' \in {[pc EXCEPT ![p] = "quarantine"], [pc EXCEPT ![p] = "write"]}
          /\ base' \in {base, [base EXCEPT ![p] = Decoded]} /\ UNCHANGED <<lock, op>>
      BY <1>4, <2>4 DEF Read
    <3> QED BY <1>a, <2>1, <2>2, <3>1
  <2> QED BY <2>3, <2>4
<1>5. ASSUME NEW p \in Process, Quarantine(p) PROVE TypeInv'
  <2>1. file' \in Content
    BY <1>5 DEF Quarantine, Content, Absent
  <2> QED BY <1>a, <1>5, <2>1, FinishEnds DEF Quarantine
<1>6. ASSUME NEW p \in Process, Keep(p) PROVE TypeInv'
  BY <1>a, <1>6, FinishEnds DEF Keep
<1>7. ASSUME NEW p \in Process, WriteTemp(p) PROVE TypeInv'
  <2>1. Current(p) \in Mark
    <3>1. ops[p] \in 1..MaxOps
      BY <1>7 DEF WriteTemp
    <3> QED BY <3>1 DEF Current, Mark
  <2> QED BY <1>a, <1>7, <2>1 DEF WriteTemp
<1>8. ASSUME NEW p \in Process, WriteFails(p) PROVE TypeInv'
  BY <1>a, <1>8, FinishEnds DEF WriteFails
<1>9. ASSUME NEW p \in Process, Rename(p) PROVE TypeInv'
  <2>1. Current(p) \in Mark
    <3>1. ops[p] \in 1..MaxOps
      BY <1>9 DEF Rename
    <3> QED BY <3>1 DEF Current, Mark
  <2>2. file' \in Content
    BY <1>9, <2>1 DEF Rename, Good, Value, Content
  <2> QED BY <1>a, <1>9, <2>2, FinishEnds DEF Rename
<1>10. ASSUME NEW p \in Process, Remove(p) PROVE TypeInv'
  <2>1. file' \in Content
    BY <1>10 DEF Remove, Content, Absent
  <2> QED BY <1>a, <1>10, <2>1, FinishEnds DEF Remove
<1>11. ASSUME NEW p \in Process, Crash(p) PROVE TypeInv'
  BY <1>a, <1>11, FinishEnds DEF Crash
<1>12. CASE Damage
  <2>1. file' \in Content
    BY <1>12 DEF Damage, Content
  <2> QED BY <1>a, <1>12, <2>1 DEF Damage
<1>13. CASE UNCHANGED vars
  BY <1>13 DEF vars
<1> HIDE DEF TypeInv
<1> QED
  BY <1>1, <1>2, <1>3, <1>4, <1>5, <1>6, <1>7, <1>8, <1>9, <1>10, <1>11, <1>12, <1>13
  DEF Next, Step

(* Every variable keeps its type; with an advisory lock a process that      *)
(* mutates holds it.                                                        *)
THEOREM TypeCorrect == Spec => []TypeOK
<1>1. TypeInv => TypeOK
  BY DEF TypeInv
<1> QED BY <1>1, TypeInit, TypeNext, PTL DEF Spec

-----------------------------------------------------------------------------
(* The refinement of SharedRecord.                                          *)

\* The value the record has lost, or holds in a form nobody can read.
Lost == file.state = "corrupt" \/ (file.state = "old" /\ spec.onVersionMismatch = "discard")

\* What a process has read is what the file holds, as long as it holds the lock.
ValueRead ==
  \A p \in Process :
    /\ pc[p] # "idle" => op[p] \in spec.uses
    /\ pc[p] \in {"write", "rename"} /\ op[p] = "update" => base[p] = file.marks \/ (base[p] = {} /\ Lost)
    /\ pc[p] = "quarantine" =>
         op[p] # "get" /\ base[p] = {} /\ file.state = "corrupt" /\ spec.onCorrupt = "quarantine"
    /\ pc[p] \in {"idle", "lock", "read"} => base[p] = {}
    /\ op[p] = "get" => pc[p] \notin {"write", "rename", "remove"}
    /\ pc[p] \in {"quarantine", "read"} => op[p] \in {"get", "update"}
    /\ pc[p] \in {"write", "rename"} => op[p] \in {"update", "set"}
    /\ pc[p] = "remove" => op[p] = "remove"

AbsentHoldsNothing == file.state = "absent" => file.marks = {}

RecordInv == LockedSpecs /\ TypeInv /\ ValueRead /\ AbsentHoldsNothing

LEMMA RecordInvInit == LockedSpecs /\ Init => RecordInv
  BY TypeInit DEF Init, RecordInv, ValueRead, AbsentHoldsNothing, Absent, Good

\* Whoever changes the file's value is alone between its read and its write.
LEMMA Alone ==
  ASSUME RecordInv, NEW p \in Process, NEW q \in Process, p # q,
         op[p] # "get", pc[p] \notin {"idle", "lock"}
  PROVE  pc[q] \notin {"write", "rename", "quarantine", "remove"}
<1>1. spec.lock = "advisory"
  BY DEF RecordInv, LockedSpecs, TypeInv, TypeOK
<1>2. lock = p
  BY <1>1 DEF RecordInv, TypeInv, TypeOK
<1>3. op[q] = "get" \/ pc[q] \in {"idle", "lock"}
  BY <1>1, <1>2 DEF RecordInv, TypeInv, TypeOK
<1> QED BY <1>3 DEF RecordInv, ValueRead

\* A process that is done, or that read without a change, leaves the others' view alone.
LEMMA ViewKept ==
  ASSUME RecordInv, TypeInv', NEW p \in Process, UNCHANGED <<spec, file>>,
         pc'[p] = "idle", base'[p] = {}, \A q \in Process \ {p} : pc'[q] = pc[q] /\ base'[q] = base[q],
         UNCHANGED op
  PROVE  ValueRead' /\ AbsentHoldsNothing'
<1> USE DEF RecordInv, ValueRead, AbsentHoldsNothing, Lost
<1>1. ASSUME NEW q \in Process, q # p
      PROVE  pc'[q] = pc[q] /\ base'[q] = base[q] /\ op'[q] = op[q]
  BY <1>1
<1> QED BY <1>1

\* The same for a process that has replaced the value.
LEMMA ViewReplaced ==
  ASSUME RecordInv, TypeInv', NEW p \in Process, UNCHANGED <<spec, op>>,
         op[p] # "get", pc[p] \notin {"idle", "lock"},
         pc'[p] = "idle", base'[p] = {}, \A q \in Process \ {p} : pc'[q] = pc[q] /\ base'[q] = base[q],
         file'.state = "absent" => file'.marks = {}
  PROVE  ValueRead' /\ AbsentHoldsNothing'
<1>1. ASSUME NEW q \in Process, q # p
      PROVE  /\ pc'[q] = pc[q] /\ base'[q] = base[q] /\ op'[q] = op[q]
             /\ pc[q] \notin {"write", "rename", "quarantine", "remove"}
  BY <1>1, Alone
<1> QED BY <1>1 DEF RecordInv, ValueRead, AbsentHoldsNothing

LEMMA RecordStep ==
  ASSUME RecordInv, [Next]_vars
  PROVE  /\ RecordInv'
         /\ Record!Next \/ UNCHANGED <<spec, file>>
         /\ \A p \in Process :
              pc[p] = "quarantine" /\ pc'[p] # "quarantine" /\ file' # file => file.state = "corrupt"
<1>0. LockedSpecs /\ TypeInv /\ TypeInv' /\ ValueRead /\ AbsentHoldsNothing /\ TypeOK /\ TypeOK'
  BY TypeNext DEF RecordInv, TypeInv
<1>a. UNCHANGED spec
  BY DEF Next, vars
<1>b. spec.lock = "advisory" /\ spec.uses \subseteq {"get", "update", "set", "remove"}
      /\ (spec.onCorrupt = "quarantine" => "get" \notin spec.uses)
  BY <1>0, SpecsAssumption DEF SpecsAssumption, LockedSpecs, TypeOK, BucketSpec
<1> DEFINE Maps == Record!Next \/ UNCHANGED <<spec, file>>
<1> DEFINE View == ValueRead' /\ AbsentHoldsNothing'
<1>c. ASSUME NEW p \in Process, Finish(p), UNCHANGED file PROVE View /\ Maps
  BY <1>0, <1>a, <1>c, FinishEnds, ViewKept DEF RecordInv
<1>1. ASSUME NEW p \in Process, Begin(p) PROVE View /\ Maps
  <2>1. PICK kind \in spec.uses :
          /\ op' = [op EXCEPT ![p] = kind]
          /\ pc' = [pc EXCEPT ![p] = IF NeedsLock(kind) THEN "lock" ELSE First(kind)]
    BY <1>1 DEF Begin, Goto
  <2>2. /\ kind \in {"get", "update", "set", "remove"}
        /\ pc[p] = "idle" /\ UNCHANGED <<file, base>>
    BY <1>b, <1>1 DEF Begin
  <2>3. pc'[p] = IF kind = "get" THEN "read" ELSE "lock"
    BY <1>0, <1>b, <2>1, <2>2 DEF TypeOK, NeedsLock, First
  <2>4. op'[p] = kind /\ \A q \in Process \ {p} : pc'[q] = pc[q] /\ op'[q] = op[q]
    BY <1>0, <2>1 DEF TypeOK
  <2>5. base'[p] = {}
    BY <1>0, <1>1, <2>2 DEF ValueRead
  <2> QED
    BY <1>0, <1>a, <2>2, <2>3, <2>4, <2>5 DEF ValueRead, AbsentHoldsNothing, Lost
<1>2. ASSUME NEW p \in Process, AcquireLock(p) PROVE View /\ Maps
  <2>1. /\ pc[p] = "lock" /\ op[p] \in {"update", "set", "remove"} /\ UNCHANGED <<file, op, base>>
        /\ pc' = [pc EXCEPT ![p] = First(op[p])]
    BY <1>0, <1>2 DEF AcquireLock, Goto, TypeOK, TypeInv, Begun
  <2>2. /\ pc'[p] = CASE op[p] = "update" -> "read" [] op[p] = "set" -> "write" [] op[p] = "remove" -> "remove"
        /\ \A q \in Process \ {p} : pc'[q] = pc[q]
    BY <1>0, <2>1 DEF TypeOK, First
  <2> QED
    BY <1>0, <1>a, <2>1, <2>2 DEF ValueRead, AbsentHoldsNothing, Lost
<1>3. ASSUME NEW p \in Process, LockTimesOut(p) PROVE View /\ Maps
  BY <1>c, <1>3 DEF LockTimesOut
<1>4. ASSUME NEW p \in Process, Read(p) PROVE View /\ Maps
  <2>1. pc[p] = "read" /\ UNCHANGED file
    BY <1>4 DEF Read
  <2>2. CASE Finish(p)
    BY <1>c, <2>1, <2>2
  <2>3. ASSUME ~Finish(p), file.state = "corrupt", spec.onCorrupt = "quarantine"
        PROVE  View
    <3>1. pc' = [pc EXCEPT ![p] = "quarantine"] /\ UNCHANGED <<lock, op, base>>
      BY <1>4, <2>3 DEF Read, Goto
    <3>2. op[p] # "get"
      BY <1>0, <1>b, <2>1, <2>3 DEF ValueRead
    <3> QED
      BY <1>0, <1>a, <2>1, <2>3, <3>1, <3>2 DEF ValueRead, AbsentHoldsNothing, Lost, TypeOK
  <2>4. ASSUME ~Finish(p), ~(file.state = "corrupt" /\ spec.onCorrupt = "quarantine")
        PROVE  View
    <3>1. /\ op[p] # "get" /\ base' = [base EXCEPT ![p] = Decoded] /\ UNCHANGED <<lock, op>>
          /\ pc' = [pc EXCEPT ![p] = "write"]
          /\ file.state = "corrupt" => spec.onCorrupt = "discard"
      <4>1. spec.onCorrupt \in {"quarantine", "discard", "fail"}
        BY <1>0, SpecsAssumption DEF SpecsAssumption, TypeOK, BucketSpec
      <4> QED BY <1>4, <2>4, <4>1 DEF Read, Goto
    <3>2. Decoded = file.marks \/ (Decoded = {} /\ Lost)
      <4>1. /\ file.state \in {"absent", "good", "old", "corrupt"}
            /\ spec.onVersionMismatch \in {"migrate", "discard"}
        BY <1>0, SpecsAssumption DEF SpecsAssumption, TypeOK, BucketSpec, Content
      <4> QED BY <1>0, <4>1 DEF Decoded, Lost, AbsentHoldsNothing
    <3>3. op[p] = "update"
      BY <1>0, <2>1, <3>1 DEF ValueRead
    <3> QED
      BY <1>0, <1>a, <2>1, <3>1, <3>2, <3>3 DEF ValueRead, AbsentHoldsNothing, Lost, TypeOK
  <2> QED BY <1>a, <2>1, <2>2, <2>3, <2>4
<1>5. ASSUME NEW p \in Process, Quarantine(p)
      PROVE  View /\ Maps /\ file.state = "corrupt"
  <2>1. /\ pc[p] = "quarantine" /\ op[p] = "update" /\ base[p] = {} /\ file.state = "corrupt"
        /\ file' = Absent /\ UNCHANGED <<op, base>> /\ pc' = [pc EXCEPT ![p] = "write"]
    BY <1>0, <1>5 DEF Quarantine, ValueRead, Goto
  <2>2. ASSUME NEW q \in Process, q # p
        PROVE  pc[q] \notin {"write", "rename", "quarantine", "remove"} /\ pc'[q] = pc[q]
    BY <1>0, <2>1, <2>2, Alone DEF TypeOK
  <2>3. View
    BY <1>0, <1>a, <2>1, <2>2 DEF ValueRead, AbsentHoldsNothing, Absent, TypeOK
  <2>4. Record!Next
    BY <1>a, <2>1 DEF Record!Next, Record!Repair, Absent
  <2> QED BY <2>1, <2>3, <2>4
<1>6. ASSUME NEW p \in Process, Keep(p) \/ WriteFails(p) PROVE View /\ Maps
  BY <1>c, <1>6 DEF Keep, WriteFails
<1>7. ASSUME NEW p \in Process, WriteTemp(p) PROVE View /\ Maps
  <2>1. pc[p] = "write" /\ pc' = [pc EXCEPT ![p] = "rename"] /\ UNCHANGED <<file, op, base>>
    BY <1>7 DEF WriteTemp, Goto
  <2> QED
    BY <1>0, <1>a, <2>1 DEF ValueRead, AbsentHoldsNothing, Lost, TypeOK
<1>8. ASSUME NEW p \in Process, Rename(p) PROVE View /\ Maps
  <2>1. pc[p] = "rename" /\ file' = Good(Value(p)) /\ Finish(p) /\ op[p] \in {"update", "set"}
    BY <1>0, <1>8 DEF Rename, ValueRead
  <2>2. View
    BY <1>0, <1>a, <2>1, FinishEnds, ViewReplaced DEF Good
  <2>3. Current(p) \in Mark /\ op[p] \in spec.uses
    <3>1. ops[p] \in 1..MaxOps
      BY <1>0, <2>1, BoundsAssumption DEF BoundsAssumption, TypeInv, TypeOK, Begun
    <3> QED BY <1>0, <2>1, <3>1 DEF Current, Mark, ValueRead
  <2>4. CASE op[p] = "set"
    <3>1. Record!Set(Current(p))
      BY <2>1, <2>3, <2>4 DEF Record!Set, Good, Value
    <3> QED BY <1>a, <2>2, <2>3, <3>1 DEF Record!Next
  <2>5. CASE op[p] = "update"
    <3>1. base[p] = file.marks \/ (base[p] = {} /\ Lost)
      BY <1>0, <2>1, <2>5 DEF ValueRead
    <3>2. Record!Update(Current(p))
      BY <2>1, <2>3, <2>5, <3>1 DEF Record!Update, Good, Value, Lost
    <3> QED BY <1>a, <2>2, <2>3, <3>2 DEF Record!Next
  <2> QED BY <2>1, <2>4, <2>5
<1>9. ASSUME NEW p \in Process, Remove(p) PROVE View /\ Maps
  <2>1. pc[p] = "remove" /\ file' = Absent /\ Finish(p) /\ op[p] = "remove" /\ "remove" \in spec.uses
    BY <1>0, <1>9 DEF Remove, ValueRead
  <2>2. View
    BY <1>0, <1>a, <2>1, FinishEnds, ViewReplaced DEF Absent
  <2>3. Record!Remove
    BY <2>1 DEF Record!Remove, Absent
  <2> QED BY <1>a, <2>2, <2>3 DEF Record!Next
<1>10. ASSUME NEW p \in Process, Crash(p) PROVE View /\ Maps
  BY <1>c, <1>10 DEF Crash
<1>11. ASSUME Damage PROVE View /\ Maps
  <2>1. /\ file'.state = "corrupt" /\ file'.marks = file.marks
        /\ UNCHANGED <<pc, op, base>>
    BY <1>0, <1>11 DEF Damage, TypeOK, Content, local
  <2>2. View
    BY <1>0, <1>a, <2>1 DEF ValueRead, AbsentHoldsNothing, Lost
  <2>3. Record!Damage
    BY <2>1 DEF Record!Damage
  <2> QED BY <1>a, <2>2, <2>3 DEF Record!Next
<1>12. ASSUME UNCHANGED vars PROVE View /\ Maps
  BY <1>0, <1>12 DEF vars, local, ValueRead, AbsentHoldsNothing, Lost
<1>13. View /\ Maps
  BY <1>1, <1>2, <1>3, <1>4, <1>5, <1>6, <1>7, <1>8, <1>9, <1>10, <1>11, <1>12 DEF Next, Step
<1>14. ASSUME NEW p \in Process, pc[p] = "quarantine", file' # file PROVE file.state = "corrupt"
  BY <1>0, <1>14 DEF ValueRead
<1> QED BY <1>0, <1>13, <1>14 DEF RecordInv

(* A bucket is a shared record, for any number of processes and operations, *)
(* any deaths and damages, when its mutations are locked and nobody         *)
(* quarantines without the lock.                                            *)
THEOREM Refinement == LockedSpecs /\ Spec => ImplementsRecord
<1>1. LockedSpecs /\ Init => Record!Init
  <2> SUFFICES ASSUME LockedSpecs, Init PROVE Record!Init
    OBVIOUS
  <2>1. spec.uses \subseteq {"get", "update", "set", "remove"}
    BY SpecsAssumption DEF SpecsAssumption, Init, BucketSpec
  <2> QED BY <2>1 DEF Init, Record!Init, Absent, Good
<1>2. RecordInv /\ [Next]_vars => [Record!Next]_<<spec.uses, file.marks,
        file.state = "corrupt" \/ (file.state = "old" /\ spec.onVersionMismatch = "discard")>>
  BY RecordStep
<1> QED
  BY <1>1, <1>2, RecordInvInit, RecordStep, PTL DEF Spec, ImplementsRecord, Record!RecordSpec

(* Under the same condition a quarantine moves corrupt content only.        *)
THEOREM QuarantinesAreDue == LockedSpecs /\ Spec => QuarantinesOnlyCorrupt
<1>1. RecordInv /\ [Next]_vars =>
        \A p \in Process :
          pc[p] = "quarantine" /\ pc'[p] # "quarantine" /\ file' # file => file.state = "corrupt"
  BY RecordStep
<1> QED
  BY <1>1, RecordInvInit, RecordStep, PTL DEF Spec, QuarantinesOnlyCorrupt

-----------------------------------------------------------------------------
(* Temporary files.                                                         *)

\* Temporary files whose operation is over.
Leftovers == {t \in temps : t # Current(t[1]) \/ pc[t[1]] # "rename"}

TempInv == TypeInv /\ IsFiniteSet(Leftovers) /\ Cardinality(Leftovers) <= crashes

LEMMA TempInvInit == Init => TempInv
<1> SUFFICES ASSUME Init PROVE TempInv
  OBVIOUS
<1>1. Leftovers = {} /\ crashes = 0
  BY DEF Init, Leftovers
<1> QED BY <1>1, TypeInit, FS_EmptySet DEF TempInv

\* Only a death in front of the rename leaves a file more.
LEMMA LeftoversStep ==
  ASSUME TypeInv, [Next]_vars
  PROVE  \/ Leftovers' \subseteq Leftovers /\ UNCHANGED crashes
         \/ crashes' = crashes + 1 /\ \E t : Leftovers' \subseteq Leftovers \cup {t}
<1> USE DEF TypeInv, TypeOK, Goto, local, spent
<1>a. \A t \in temps : t[1] \in Process
  BY DEF Mark
<1>b. ASSUME NEW p \in Process, Finish(p), UNCHANGED ops, temps' \subseteq temps
      PROVE  Leftovers' \subseteq Leftovers \cup {Current(p)}
  BY <1>a, <1>b DEF Finish, Leftovers, Current
<1>1. ASSUME NEW p \in Process, Begin(p) PROVE Leftovers' \subseteq Leftovers /\ UNCHANGED crashes
  BY <1>a, <1>1 DEF Begin, Leftovers, Current
<1>2. ASSUME NEW p \in Process, AcquireLock(p)
      PROVE  Leftovers' \subseteq Leftovers /\ UNCHANGED crashes
  BY <1>a, <1>2 DEF AcquireLock, Leftovers, Current
<1>3. ASSUME NEW p \in Process, pc[p] \notin {"rename"}, Finish(p), UNCHANGED <<ops, temps, crashes>>
      PROVE  Leftovers' \subseteq Leftovers /\ UNCHANGED crashes
  BY <1>a, <1>3 DEF Finish, Leftovers, Current
<1>4. ASSUME NEW p \in Process, Finish(p), temps' = temps \ {Current(p)}, UNCHANGED <<ops, crashes>>
      PROVE  Leftovers' \subseteq Leftovers /\ UNCHANGED crashes
  BY <1>a, <1>4 DEF Finish, Leftovers, Current
<1>5. ASSUME NEW p \in Process, NEW step \in {"quarantine", "write"}, pc[p] \notin {"rename"},
             pc' = [pc EXCEPT ![p] = step], UNCHANGED <<ops, temps, crashes>>
      PROVE  Leftovers' \subseteq Leftovers /\ UNCHANGED crashes
  BY <1>a, <1>5 DEF Leftovers, Current
<1>6. ASSUME NEW p \in Process, Read(p) \/ Quarantine(p)
      PROVE  Leftovers' \subseteq Leftovers /\ UNCHANGED crashes
  <2>1. /\ pc[p] \notin {"rename"} /\ UNCHANGED <<ops, temps, crashes>>
        /\ \/ Finish(p)
           \/ \E step \in {"quarantine", "write"} : pc' = [pc EXCEPT ![p] = step]
    BY <1>6 DEF Read, Quarantine
  <2> QED BY <1>3, <1>5, <2>1
<1>7. ASSUME NEW p \in Process, LockTimesOut(p) \/ Keep(p) \/ Remove(p)
      PROVE  Leftovers' \subseteq Leftovers /\ UNCHANGED crashes
  BY <1>3, <1>7 DEF LockTimesOut, Keep, Remove
<1>8. ASSUME NEW p \in Process, WriteFails(p) \/ Rename(p)
      PROVE  Leftovers' \subseteq Leftovers /\ UNCHANGED crashes
  BY <1>4, <1>8 DEF WriteFails, Rename
<1>9. ASSUME NEW p \in Process, WriteTemp(p)
      PROVE  Leftovers' \subseteq Leftovers /\ UNCHANGED crashes
  <2>1. /\ temps' = temps \cup {Current(p)} /\ pc' = [pc EXCEPT ![p] = "rename"]
        /\ UNCHANGED <<ops, crashes>>
    BY <1>9 DEF WriteTemp
  <2>2. Current(p)[1] = p /\ pc'[p] = "rename" /\ \A q \in Process : Current(q)' = Current(q)
    BY <2>1 DEF Current
  <2> QED BY <1>a, <2>1, <2>2 DEF Leftovers
<1>10. ASSUME NEW p \in Process, Crash(p)
       PROVE  crashes' = crashes + 1 /\ \E t : Leftovers' \subseteq Leftovers \cup {t}
  BY <1>b, <1>10 DEF Crash
<1>11. ASSUME Damage \/ UNCHANGED vars PROVE Leftovers' \subseteq Leftovers /\ UNCHANGED crashes
  BY <1>11 DEF Damage, vars, Leftovers, Current
<1> QED
  BY <1>1, <1>2, <1>6, <1>7, <1>8, <1>9, <1>10, <1>11 DEF Next, Step

(* There are never more abandoned temporary files than deaths.              *)
THEOREM TempsRemoved == Spec => []NoTempLeft
<1>1. TempInv /\ [Next]_vars => TempInv'
  <2> SUFFICES ASSUME TempInv, [Next]_vars PROVE TempInv'
    OBVIOUS
  <2>1. TypeInv' /\ crashes \in Nat /\ Cardinality(Leftovers) \in Nat
    BY TypeNext, FS_CardinalityType, BoundsAssumption DEF TempInv, TypeInv, TypeOK, BoundsAssumption
  <2>2. CASE Leftovers' \subseteq Leftovers /\ UNCHANGED crashes
    <3>1. IsFiniteSet(Leftovers') /\ Cardinality(Leftovers') <= Cardinality(Leftovers)
      BY <2>2, FS_Subset DEF TempInv
    <3>2. Cardinality(Leftovers') \in Nat
      BY <3>1, FS_CardinalityType
    <3> QED BY <2>1, <2>2, <3>1, <3>2 DEF TempInv
  <2>3. ASSUME crashes' = crashes + 1, NEW t, Leftovers' \subseteq Leftovers \cup {t} PROVE TempInv'
    <3>1. /\ IsFiniteSet(Leftovers \cup {t})
          /\ Cardinality(Leftovers \cup {t}) <= Cardinality(Leftovers) + 1
          /\ Cardinality(Leftovers \cup {t}) \in Nat
      <4>1. /\ IsFiniteSet(Leftovers \cup {t})
            /\ \/ Cardinality(Leftovers \cup {t}) = Cardinality(Leftovers)
               \/ Cardinality(Leftovers \cup {t}) = Cardinality(Leftovers) + 1
        BY FS_AddElement DEF TempInv
      <4> QED BY <2>1, <4>1
    <3>2. /\ IsFiniteSet(Leftovers')
          /\ Cardinality(Leftovers') <= Cardinality(Leftovers \cup {t})
      BY <2>3, <3>1, FS_Subset
    <3>3. Cardinality(Leftovers') \in Nat
      BY <3>2, FS_CardinalityType
    <3> QED BY <2>1, <2>3, <3>1, <3>2, <3>3 DEF TempInv
  <2> QED BY <2>2, <2>3, LeftoversStep DEF TempInv
<1>2. TempInv => NoTempLeft
  BY DEF TempInv, NoTempLeft, Leftovers
<1> QED BY <1>1, <1>2, TempInvInit, PTL DEF Spec

(***************************************************************************)
(* A file that cannot be decoded was damaged from outside: no death, no     *)
(* failed write and no interleaving of the operations makes one.            *)
(***************************************************************************)
THEOREM SelfDamage == Spec => []NoSelfDamage
<1>1. Init => TypeInv /\ NoSelfDamage
  BY TypeInit DEF Init, NoSelfDamage, Absent, Good
<1>2. TypeInv /\ NoSelfDamage /\ [Next]_vars => TypeInv' /\ NoSelfDamage'
  <2> SUFFICES ASSUME TypeInv, NoSelfDamage, [Next]_vars PROVE NoSelfDamage'
    BY TypeNext
  <2>1. ASSUME NEW p \in Process, Step(p)
        PROVE  damages' = damages /\ (file' = file \/ file'.state \in {"absent", "good"})
    BY <2>1 DEF Step, Begin, AcquireLock, LockTimesOut, Read, Quarantine, Keep, WriteTemp,
                WriteFails, Rename, Remove, Finish, Absent, Good, spent
  <2>2. ASSUME NEW p \in Process, Crash(p) PROVE damages' = damages /\ file' = file
    BY <2>2 DEF Crash
  <2>3. CASE Damage
    <3>1. damages \in Nat /\ damages' = damages + 1
      BY <2>3, BoundsAssumption DEF Damage, TypeInv, TypeOK, BoundsAssumption
    <3> QED BY <3>1 DEF NoSelfDamage
  <2>4. CASE UNCHANGED vars
    BY <2>4 DEF vars, spent, NoSelfDamage
  <2> QED BY <2>1, <2>2, <2>3, <2>4 DEF Next, NoSelfDamage
<1> QED BY <1>1, <1>2, PTL DEF Spec
=============================================================================
