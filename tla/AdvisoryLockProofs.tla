------------------------- MODULE AdvisoryLockProofs -------------------------
(***************************************************************************)
(* What the lock file protocol guarantees for any number of callers,       *)
(* processes, crashes, I/O errors and any clock.                           *)
(***************************************************************************)
EXTENDS AdvisoryLock, TLAPS

-----------------------------------------------------------------------------
(* Types.                                                                  *)

LEMMA TypeInit == Init => TypeOK
<1> USE FilesAssumption DEF FilesAssumption
<1> SUFFICES ASSUME Init PROVE TypeOK
  OBVIOUS
<1>1. NoCall \in Call
  BY DEF NoCall, Call, NoIdentity, Identity
<1>2. DOMAIN file = {}
  BY DEF Init
<1>3. file \in [DOMAIN file -> Record]
  BY <1>2 DEF Init
<1> QED
  BY <1>1, <1>2, <1>3 DEF Init, TypeOK, Step

LEMMA TypeNext == TypeOK /\ [Next]_vars => TypeOK'
<1> USE FibersAssumption, FilesAssumption, TimesAssumption
        DEF FibersAssumption, FilesAssumption, TimesAssumption
<1> SUFFICES ASSUME TypeOK, [Next]_vars PROVE TypeOK'
  OBVIOUS
<1> USE DEF TypeOK, Moves, Goto, Step, Waiting, Owning
<1>0. ASSUME NEW f \in Fiber, Quit(f) 
      PROVE path' \in {path, NoFile} => TypeOK'
  <2>1. NoCall \in Call
    BY DEF NoCall, Call, NoIdentity, Identity
  <2> QED BY <1>0, <2>1 DEF Quit
<1>1. ASSUME NEW f \in Fiber, Begin(f) PROVE TypeOK'
  BY <1>1 DEF Begin
<1>2. ASSUME NEW f \in Fiber, Enter(f) PROVE TypeOK'
  <2>1. [call[f] EXCEPT !.seen = now, !.deadline = now + Timeout] \in Call
    <3>1. call[f] \in Call /\ now + Timeout \in Nat
      OBVIOUS
    <3> HIDE TimesAssumption DEF TypeOK
    <3>2. now \in Nat
      BY DEF TypeOK
    <3>3. ASSUME NEW n \in Nat, NEW m \in Nat
          PROVE  [call[f] EXCEPT !.seen = n, !.deadline = m] \in Call
      BY <3>1 DEF Call
    <3> QED BY <3>1, <3>2, <3>3
  <2> QED BY <1>2, <2>1 DEF Enter
<1>3. ASSUME NEW f \in Fiber, Create(f) PROVE TypeOK'
  <2>1. PICK i \in Ino \ DOMAIN file :
          /\ path' = i
          /\ mine' = [mine EXCEPT ![f] = i]
          /\ file' = [j \in DOMAIN file \cup {i} |->
                        IF j = i THEN [by |-> f, createdAt |-> call[f].seen,
                                       written |-> FALSE, mtime |-> now]
                                 ELSE file[j]]
    BY <1>3 DEF Create
  <2>2. call[f].seen \in Nat
    BY DEF Call
  <2>3. [by |-> f, createdAt |-> call[f].seen, written |-> FALSE, mtime |-> now] \in Record
    BY <2>2 DEF Record
  <2>4. DOMAIN file' \subseteq Ino /\ file' \in [DOMAIN file' -> Record]
    BY <2>1, <2>3
  <2> QED BY <1>3, <2>1, <2>4 DEF Create
<1>4. ASSUME NEW f \in Fiber, WriteRecord(f) PROVE TypeOK'
  <2>1. NoCall \in Call
    BY DEF NoCall, Call, NoIdentity, Identity
  <2>2. DOMAIN file' = DOMAIN file /\ file' \in [DOMAIN file -> Record]
    BY <1>4 DEF WriteRecord, Record
  <2> QED BY <1>4, <2>1, <2>2 DEF WriteRecord
<1>5. ASSUME NEW f \in Fiber, WriteFails(f) PROVE TypeOK'
  BY <1>5, <1>0 DEF WriteFails
<1>6. ASSUME NEW f \in Fiber, AbortUnlink(f) \/ ReleaseUnlink(f) PROVE TypeOK'
  BY <1>6, <1>0 DEF AbortUnlink, ReleaseUnlink
<1>7. ASSUME NEW f \in Fiber, Contended(f) PROVE TypeOK'
  BY <1>7 DEF Contended
<1>8. ASSUME NEW f \in Fiber, Inspect(f) PROVE TypeOK'
  <2>1. LockIdentity \in Identity
    BY <1>8 DEF Inspect, LockIdentity, Identity, NoIdentity, Record
  <2>2. call' \in [Fiber -> Call]
    BY <1>8, <2>1 DEF Inspect, Call
  <2> QED BY <1>8, <2>2 DEF Inspect
<1>9. ASSUME NEW f \in Fiber, InspectUnsafe(f) \/ GiveUp(f) \/ AttemptFails(f) \/ ReleaseFails(f)
      PROVE TypeOK'
  BY <1>9, <1>0 DEF InspectUnsafe, GiveUp, AttemptFails, ReleaseFails
<1>10. ASSUME NEW f \in Fiber, ReadRecord(f) PROVE TypeOK'
  BY <1>10 DEF ReadRecord
<1>11. ASSUME NEW f \in Fiber, Confirm(f) PROVE TypeOK'
  BY <1>11 DEF Confirm
<1>12. ASSUME NEW f \in Fiber, ReclaimUnlink(f) PROVE TypeOK'
  BY <1>12 DEF ReclaimUnlink
<1>13. ASSUME NEW f \in Fiber, Sleep(f) PROVE TypeOK'
  <2>1. [call[f] EXCEPT !.wake = now + Retry, !.ident = NoIdentity, !.seen = 0] \in Call
    <3>1. call[f] \in Call /\ now + Retry \in Nat
      OBVIOUS
    <3> HIDE TimesAssumption DEF TypeOK
    <3>2. NoIdentity \in Identity
      BY DEF NoIdentity, Identity
    <3>3. ASSUME NEW n \in Nat, NEW i \in Identity
          PROVE  [call[f] EXCEPT !.wake = n, !.ident = i, !.seen = 0] \in Call
      BY <3>1 DEF Call
    <3> QED BY <3>1, <3>2, <3>3
  <2> QED BY <1>13, <2>1 DEF Sleep
<1>14. ASSUME NEW f \in Fiber, Wake(f) PROVE TypeOK'
  <2>1. [call[f] EXCEPT !.seen = now, !.wake = 0] \in Call
    BY DEF Call
  <2> QED BY <1>14, <2>1 DEF Wake
<1>15. ASSUME NEW f \in Fiber, ReleaseCheck(f) PROVE TypeOK'
  BY <1>15, <1>0 DEF ReleaseCheck
<1>16. ASSUME NEW p \in Proc, Crash(p) PROVE TypeOK'
  <2>1. NoCall \in Call
    BY DEF NoCall, Call, NoIdentity, Identity
  <2> QED BY <1>16, <2>1 DEF Crash
<1>17. CASE Tick
  BY <1>17 DEF Tick
<1>18. CASE UNCHANGED vars
  BY <1>18 DEF vars
<1> QED
  BY <1>1, <1>2, <1>3, <1>4, <1>5, <1>6, <1>7, <1>8, <1>9, <1>10, <1>11, <1>12, <1>13,
     <1>14, <1>15, <1>16, <1>17, <1>18 DEF Next, Acquiring, Releasing

(* Every variable keeps its type, whatever the clock and the faults.       *)
THEOREM TypeCorrect == Spec => []TypeOK
  BY TypeInit, TypeNext, PTL DEF Spec

-----------------------------------------------------------------------------
(* The invariant of the reclaim protocol.  A file identity is never used    *)
(* twice, so a waiter whose second lstat agrees with its first goes on to   *)
(* unlink the very file it judged; as long as that file is out of use and   *)
(* no other reclaimer is under way, nothing can take its place before.      *)
LEMMA ReclaimInvInit == Init => ReclaimInv
  BY TypeInit DEF Init, ReclaimInv, OwnFiles, SeenFiles, CreatorsAtPath, ReclaimersAtPath,
     Creator, Owning, Alive

LEMMA ReclaimInvNext == ReclaimInv /\ [Next]_vars => ReclaimInv'
<1> SUFFICES ASSUME ReclaimInv, [Next]_vars PROVE ReclaimInv'
  OBVIOUS
<1> USE FibersAssumption, FilesAssumption DEF FibersAssumption, FilesAssumption
<1>0. TypeOK /\ TypeOK'
  BY TypeNext DEF ReclaimInv
<1> DEFINE Rest == OwnFiles /\ SeenFiles /\ CreatorsAtPath /\ ReclaimersAtPath
<1> USE DEF TypeOK, Moves, Goto, Creator, Owning, Alive, InUse,
           OwnFiles, SeenFiles, CreatorsAtPath, ReclaimersAtPath
<1>a. Rest
  BY DEF ReclaimInv
\* A call that ends away from "unlink" leaves the rest as it is.
<1>b. ASSUME NEW f \in Fiber, Quit(f), Alive(f), path' \in {path, NoFile},
             path' = NoFile => (~disturbed => path \in {NoFile, mine[f]})
      PROVE  Rest'
  BY <1>0, <1>a, <1>b DEF Quit
<1>1. ASSUME NEW f \in Fiber, Begin(f) \/ Enter(f) \/ Contended(f) \/ Sleep(f) \/ Wake(f)
      PROVE  Rest'
  BY <1>0, <1>a, <1>1 DEF Begin, Enter, Contended, Sleep, Wake
<1>2. ASSUME NEW f \in Fiber, Create(f) PROVE Rest'
  BY <1>0, <1>a, <1>2 DEF Create
<1>3. ASSUME NEW f \in Fiber, WriteRecord(f) PROVE Rest'
  BY <1>0, <1>a, <1>3 DEF WriteRecord
<1>4. ASSUME NEW f \in Fiber, WriteFails(f) PROVE Rest'
  BY <1>0, <1>a, <1>4, <1>b DEF WriteFails
<1>5. ASSUME NEW f \in Fiber, AbortUnlink(f) \/ ReleaseUnlink(f) PROVE Rest'
  BY <1>0, <1>a, <1>5, <1>b DEF AbortUnlink, ReleaseUnlink
<1>6. ASSUME NEW f \in Fiber, Inspect(f) PROVE Rest'
  BY <1>0, <1>a, <1>6 DEF Inspect, LockIdentity
<1>7. ASSUME NEW f \in Fiber, InspectUnsafe(f) \/ GiveUp(f) \/ AttemptFails(f) \/ ReleaseFails(f)
      PROVE  Rest'
  BY <1>0, <1>a, <1>7, <1>b DEF InspectUnsafe, GiveUp, AttemptFails, ReleaseFails
<1>8. ASSUME NEW f \in Fiber, ReadRecord(f) PROVE Rest'
  BY <1>0, <1>a, <1>8 DEF ReadRecord
<1>9. ASSUME NEW f \in Fiber, Confirm(f) PROVE Rest'
  BY <1>0, <1>a, <1>9 DEF Confirm, LockIdentity, NoIdentity
<1>10. ASSUME NEW f \in Fiber, ReclaimUnlink(f) PROVE Rest'
  BY <1>0, <1>a, <1>10 DEF ReclaimUnlink
<1>11. ASSUME NEW f \in Fiber, ReleaseCheck(f) PROVE Rest'
  BY <1>0, <1>a, <1>11, <1>b DEF ReleaseCheck
<1>12. ASSUME NEW p \in Proc, Crash(p) PROVE Rest'
  BY <1>0, <1>a, <1>12 DEF Crash
<1>13. ASSUME Tick \/ UNCHANGED vars PROVE Rest'
  BY <1>0, <1>a, <1>13 DEF Tick, vars
<1>14. Rest'
  BY <1>1, <1>2, <1>3, <1>4, <1>5, <1>6, <1>7, <1>8, <1>9, <1>10, <1>11, <1>12, <1>13
     DEF Next, Acquiring, Releasing
<1> QED BY <1>0, <1>14 DEF ReclaimInv

(* Unless a waiter went for a file in use or two waiters reclaimed at once, *)
(* no two callers hold the lock: for any number of callers and any faults.  *)
THEOREM ExclusionTheorem == Spec => []ExclusiveUnlessDisturbed
<1>1. ReclaimInv => ExclusiveUnlessDisturbed
  BY DEF ReclaimInv, OwnFiles, CreatorsAtPath, ExclusiveUnlessDisturbed, MutualExclusion,
         Creator, Owning
<1> QED BY <1>1, ReclaimInvInit, ReclaimInvNext, PTL DEF Spec
(* Under the same condition the file of a caller in the middle of its call  *)
(* is removed by nobody else.                                               *)
THEOREM OwnerKeepsFile == Spec => LiveOwnerKeepsFile
<1> USE FilesAssumption DEF FilesAssumption
<1> DEFINE Kept == \A f \in Fiber :
       (/\ ~disturbed /\ mine[f] \in Ino /\ Alive(f)
        /\ path = mine[f] /\ path' # path)
       => pc[f] \in {"drop", "abort"} /\ pc'[f] = "idle"
<1>1. ReclaimInv /\ [Next]_vars => Kept \/ UNCHANGED vars
  <2> SUFFICES ASSUME ReclaimInv, Next,
                      NEW f \in Fiber, ~disturbed, mine[f] \in Ino, Alive(f),
                      path = mine[f], path' # path
               PROVE  pc[f] \in {"drop", "abort"} /\ pc'[f] = "idle"
    OBVIOUS
  <2> USE DEF ReclaimInv, TypeOK, OwnFiles, Creator, Owning, Moves, Goto
  <2>1. file[path].by = f /\ InUse(path)
    BY DEF InUse
  <2>2. ~ \E g \in Fiber : ReclaimUnlink(g)
    BY <2>1 DEF ReclaimUnlink, ReclaimersAtPath
  <2>3. ~ \E g \in Fiber : Create(g)
    BY DEF Create
  <2>4. PICK g \in Fiber : AbortUnlink(g) \/ ReleaseUnlink(g)
    BY <2>2, <2>3 DEF Next, Acquiring, Releasing, Begin, Enter, WriteRecord, WriteFails, Quit,
       Contended, Inspect, InspectUnsafe, ReadRecord, Confirm, GiveUp, Sleep, Wake,
       AttemptFails, ReleaseCheck, ReleaseFails, Crash, Tick
  <2>5. mine[g] = path
    BY <2>4 DEF AbortUnlink, ReleaseUnlink, CreatorsAtPath
  <2>6. g = f
    BY <2>1, <2>4, <2>5 DEF AbortUnlink, ReleaseUnlink
  <2> QED
    BY <2>4, <2>6 DEF AbortUnlink, ReleaseUnlink, Quit
<1> QED BY <1>1, ReclaimInvInit, ReclaimInvNext, PTL DEF Spec, LiveOwnerKeepsFile
-----------------------------------------------------------------------------
(* The refinement of LockContract.                                          *)

\* A fiber's step changes the mode of that fiber alone.
LEMMA ModeOfStep ==
  ASSUME TypeOK, NEW f \in Fiber, NEW step \in Step, Goto(f, step),
         NEW m, \/ step \in Waiting /\ m = "waiting"
                \/ step \in Owning /\ m = "inside"
                \/ step = "idle" /\ m = "out"
  PROVE  modes' = [modes EXCEPT ![f] = m]
<1>1. pc' = [pc EXCEPT ![f] = step]
  BY DEF Goto
<1>2. ASSUME NEW g \in Fiber PROVE Mode(g)' = IF g = f THEN m ELSE Mode(g)
  <2>1. CASE g = f
    <3>1. pc'[g] = step
      BY <1>1, <2>1 DEF TypeOK
    <3> QED BY <2>1, <3>1 DEF Mode, Waiting, Owning
  <2>2. CASE g # f
    <3>1. pc'[g] = pc[g]
      BY <1>1, <2>2 DEF TypeOK
    <3> QED BY <2>2, <3>1 DEF Mode
  <2> QED BY <2>1, <2>2
<1>3. modes' = [g \in Fiber |-> Mode(g)']
  BY DEF modes
<1> QED BY <1>2, <1>3 DEF modes

LEMMA StepImplementsContract ==
  ReclaimInv /\ [Next]_vars => disturbed' \/ Contract!ContractNext \/ UNCHANGED modes
<1> SUFFICES ASSUME ReclaimInv, [Next]_vars, ~disturbed'
             PROVE  Contract!ContractNext \/ UNCHANGED modes
  OBVIOUS
<1> USE FibersAssumption, FilesAssumption DEF FibersAssumption, FilesAssumption
<1>a. TypeOK /\ TypeOK' /\ OwnFiles /\ CreatorsAtPath
  BY TypeNext DEF ReclaimInv
\* The steps of an acquire that only change where it stands.
<1>1. ASSUME NEW f \in Fiber, NEW step \in Waiting, pc[f] \in Waiting, Goto(f, step)
      PROVE  UNCHANGED modes
  <2>1. modes' = [modes EXCEPT ![f] = "waiting"]
    BY <1>a, <1>1, ModeOfStep DEF Step
  <2>2. Mode(f) = "waiting"
    BY <1>1 DEF Mode, Waiting, Owning
  <2>3. [modes EXCEPT ![f] = "waiting"] = modes
    BY <2>2 DEF modes
  <2> QED BY <2>1, <2>3
<1>2. ASSUME NEW f \in Fiber, pc[f] = "hold", Goto(f, "drop") PROVE UNCHANGED modes
  <2>1. modes' = [modes EXCEPT ![f] = "inside"]
    BY <1>a, <1>2, ModeOfStep DEF Step, Owning, Waiting
  <2>2. Mode(f) = "inside"
    BY <1>2 DEF Mode, Owning, Waiting
  <2>3. [modes EXCEPT ![f] = "inside"] = modes
    BY <2>2 DEF modes
  <2> QED BY <2>1, <2>3
\* A call that ends.
<1>3. ASSUME NEW f \in Fiber, pc[f] \in Waiting \cup Owning, Quit(f)
      PROVE  Contract!ContractNext
  <2>1. modes' = [modes EXCEPT ![f] = "out"]
    BY <1>a, <1>3, ModeOfStep DEF Step, Owning, Waiting, Quit
  <2>2. modes[f] = "waiting" \/ modes[f] = "inside"
    BY <1>3 DEF modes, Mode, Owning, Waiting
  <2>3. Contract!GiveUp(f) \/ Contract!Leave(f)
    BY <2>1, <2>2 DEF Contract!GiveUp, Contract!Leave
  <2> QED BY <2>3 DEF Contract!ContractNext
<1>4. ASSUME NEW f \in Fiber, Begin(f) PROVE Contract!ContractNext
  <2>1. modes' = [modes EXCEPT ![f] = "waiting"]
    BY <1>a, <1>4, ModeOfStep DEF Begin, Moves, Step, Waiting
  <2>2. modes[f] = "out"
    BY <1>4 DEF Begin, Moves, modes, Mode, Owning, Waiting
  <2>3. Contract!Request(f)
    BY <2>1, <2>2 DEF Contract!Request
  <2> QED BY <2>3 DEF Contract!ContractNext
\* The grant: its file is at the path, so that of an owner inside is not.
<1>5. ASSUME NEW f \in Fiber, WriteRecord(f) PROVE Contract!ContractNext
  <2>1. modes' = [modes EXCEPT ![f] = "inside"]
    <3>1. Goto(f, "hold") /\ "hold" \in Step /\ "hold" \in Owning
      BY <1>5 DEF WriteRecord, Moves, Step, Owning
    <3> QED BY <1>a, <3>1, ModeOfStep
  <2>2. modes[f] = "waiting"
    BY <1>5 DEF WriteRecord, Moves, modes, Mode, Waiting, Owning
  <2>3. ASSUME NEW g \in Fiber, modes[g] = "inside" PROVE FALSE
    <3>1. pc[g] \in Owning
      BY <2>3 DEF modes, Mode
    <3>2. ~disturbed /\ pc[f] = "made"
      BY <1>5 DEF WriteRecord, Moves
    <3>3. file[mine[f]].by = f /\ file[mine[g]].by = g /\ mine[f] = path /\ mine[g] = path
      BY <1>a, <3>1, <3>2 DEF OwnFiles, CreatorsAtPath, Creator
    <3> QED BY <3>1, <3>2, <3>3 DEF Owning
  <2>4. Contract!Grant(f)
    BY <2>1, <2>2, <2>3 DEF Contract!Grant
  <2> QED BY <2>4 DEF Contract!ContractNext
<1>6. ASSUME NEW p \in Proc, Crash(p) PROVE Contract!ContractNext
  <2> DEFINE lost == {f \in Fiber : ProcOf[f] = p}
  <2>1. ASSUME NEW f \in Fiber
        PROVE  Mode(f)' = IF f \in lost THEN "lost" ELSE modes[f]
    BY <1>6, <2>1 DEF Crash, Mode, modes, Waiting, Owning
  <2>2. modes' = [f \in Fiber |-> IF f \in lost THEN "lost" ELSE modes[f]]
    BY <2>1 DEF modes
  <2>3. Contract!Lose(lost) /\ lost \in SUBSET Fiber
    BY <2>2 DEF Contract!Lose
  <2> QED BY <2>3 DEF Contract!ContractNext
<1>7. CASE Tick \/ UNCHANGED vars
  BY <1>7 DEF Tick, vars, modes, Mode
<1>8. ASSUME NEW f \in Fiber,
             \/ Enter(f) \/ Create(f) \/ Contended(f) \/ Inspect(f) \/ ReadRecord(f)
             \/ Confirm(f) \/ ReclaimUnlink(f) \/ Sleep(f) \/ Wake(f)
      PROVE  UNCHANGED modes
  <2>1. pc[f] \in Waiting /\ \E step \in Waiting : Goto(f, step)
    BY <1>8 DEF Enter, Create, Contended, Inspect, ReadRecord, Confirm, ReclaimUnlink, Sleep,
       Wake, Moves, Waiting
  <2> QED BY <1>1, <2>1
<1>9. ASSUME NEW f \in Fiber,
             \/ InspectUnsafe(f) \/ GiveUp(f) \/ AttemptFails(f) \/ AbortUnlink(f)
             \/ ReleaseUnlink(f) \/ ReleaseFails(f)
      PROVE  Contract!ContractNext
  <2>1. pc[f] \in Waiting \cup Owning /\ Quit(f)
    BY <1>9 DEF InspectUnsafe, GiveUp, AttemptFails, AbortUnlink, ReleaseUnlink, ReleaseFails,
       Waiting, Owning
  <2> QED BY <1>3, <2>1
<1>10. ASSUME NEW f \in Fiber, WriteFails(f)
       PROVE  Contract!ContractNext \/ UNCHANGED modes
  <2>1. pc[f] \in Waiting /\ (Goto(f, "abort") \/ Quit(f)) /\ "abort" \in Waiting
    BY <1>10 DEF WriteFails, Waiting
  <2> QED BY <1>1, <1>3, <2>1
<1>11. ASSUME NEW f \in Fiber, ReleaseCheck(f)
       PROVE  Contract!ContractNext \/ UNCHANGED modes
  BY <1>2, <1>3, <1>11 DEF ReleaseCheck, Owning
<1> QED
  BY <1>4, <1>5, <1>6, <1>7, <1>8, <1>9, <1>10, <1>11 DEF Next, Acquiring, Releasing

(* The file protocol implements what LockContract promises, for any number  *)
(* of callers, until a reclaim disturbs it.                                 *)
THEOREM Refinement == Spec => ImplementsContract
<1>1. Init => Contract!ContractInit
  BY DEF Init, Contract!ContractInit, modes, Mode, Waiting, Owning
<1>2. ReclaimInv /\ [Next]_vars => [disturbed' \/ Contract!ContractNext]_modes
  BY StepImplementsContract
<1> QED
  BY <1>1, <1>2, ReclaimInvInit, ReclaimInvNext, PTL DEF Spec, ImplementsContract
-----------------------------------------------------------------------------
(* What a waiter judged.                                                    *)

\* A waiter whose first lstat still agrees with the path has read that file's record.
Justified(f) ==
  \/ file[path].written /\ ~Alive(file[path].by)
  \/ file[path].written /\ ExpireLiveOwner /\ call[f].seen - file[path].createdAt > Stale
  \/ ~file[path].written /\ call[f].seen - file[path].mtime > Stale

JudgedFiles ==
  \A f \in Fiber :
    /\ call[f].seen <= now
    /\ pc[f] \in {"read", "confirm"} /\ call[f].ident.written => file[call[f].ident.ino].written
    /\ (/\ pc[f] \in {"read", "confirm"} /\ path \in Ino /\ path = call[f].ident.ino
        /\ file[path].written = call[f].ident.written)
       => /\ ~file[path].written => file[path].mtime = call[f].ident.mtime
          /\ pc[f] = "confirm" => Justified(f)

LEMMA JudgedNext == ReclaimInv /\ JudgedFiles /\ [Next]_vars => JudgedFiles'
<1> SUFFICES ASSUME ReclaimInv, JudgedFiles, [Next]_vars PROVE JudgedFiles'
  OBVIOUS
<1> USE FibersAssumption, FilesAssumption, TimesAssumption
        DEF FibersAssumption, FilesAssumption, TimesAssumption
<1>a. TypeOK /\ OwnFiles /\ SeenFiles
  BY DEF ReclaimInv
<1> USE DEF TypeOK, Moves, Goto, Alive, JudgedFiles, Justified
<1>b. \A f \in Fiber : /\ call[f].seen \in Nat /\ call[f].ident.mtime \in Nat
                       /\ call[f].ident.written \in BOOLEAN
  BY <1>a DEF Call, Identity
<1>c. \A i \in DOMAIN file : /\ file[i].by \in Fiber /\ file[i].createdAt \in Nat
                             /\ file[i].written \in BOOLEAN /\ file[i].mtime \in Nat
  BY <1>a DEF Record
<1>1. ASSUME NEW f \in Fiber, Quit(f), path' \in {path, NoFile} PROVE JudgedFiles'
  BY <1>a, <1>1 DEF Quit, NoCall
<1>2. ASSUME NEW f \in Fiber,
             Begin(f) \/ Contended(f) \/ Confirm(f) \/ ReclaimUnlink(f)
      PROVE  JudgedFiles'
  <2>1. \A g \in Fiber : pc'[g] \in {"read", "confirm"} => g # f /\ pc'[g] = pc[g]
    BY <1>a, <1>2 DEF Begin, Contended, Confirm, ReclaimUnlink
  <2>2. UNCHANGED <<now, file, dead, call>> /\ path' \in {path, NoFile}
    BY <1>2 DEF Begin, Contended, Confirm, ReclaimUnlink
  <2> QED BY <1>a, <2>1, <2>2
<1>11. ASSUME NEW f \in Fiber, Enter(f) \/ Sleep(f) \/ Wake(f) PROVE JudgedFiles'
  <2>1. \A g \in Fiber \ {f} : call'[g] = call[g] /\ pc'[g] = pc[g]
    BY <1>a, <1>11 DEF Enter, Sleep, Wake
  <2>2. call'[f].seen \in {0, now} /\ pc'[f] \in {"try", "sleep"} /\ now' = now
    <3>1. call[f] \in Call
      BY <1>a
    <3>2. CASE Enter(f)
      BY <1>a, <3>1, <3>2 DEF Enter, Call
    <3>3. CASE Sleep(f)
      BY <1>a, <3>1, <3>3 DEF Sleep, Call
    <3>4. CASE Wake(f)
      BY <1>a, <3>1, <3>4 DEF Wake, Call
    <3> QED BY <1>11, <3>2, <3>3, <3>4
  <2>3. UNCHANGED <<path, file, dead>>
    BY <1>11 DEF Enter, Sleep, Wake
  <2> QED BY <1>a, <1>b, <2>1, <2>2, <2>3
\* A new file is none that a waiter has seen.
<1>3. ASSUME NEW f \in Fiber, Create(f) PROVE JudgedFiles'
  BY <1>a, <1>3 DEF Create, SeenFiles
<1>4. ASSUME NEW f \in Fiber, WriteRecord(f) PROVE JudgedFiles'
  <2>1. \A g \in Fiber \ {f} : call'[g] = call[g] /\ pc'[g] = pc[g]
    BY <1>a, <1>4 DEF WriteRecord
  <2>2. call'[f].seen = 0 /\ pc'[f] = "hold" /\ UNCHANGED <<now, path, dead>>
    BY <1>a, <1>4 DEF WriteRecord, NoCall
  <2>3. mine[f] \in DOMAIN file
    BY <1>a, <1>4 DEF WriteRecord, OwnFiles, Creator
  <2>4. file'[mine[f]].written /\ DOMAIN file' = DOMAIN file
    BY <1>a, <1>4, <2>3 DEF WriteRecord, Record
  <2>5. \A i \in DOMAIN file :
          /\ file'[i].by = file[i].by /\ file'[i].createdAt = file[i].createdAt
          /\ i # mine[f] => file'[i] = file[i]
    BY <1>a, <1>4, <2>3 DEF WriteRecord, Record
  <2> QED BY <1>a, <1>b, <1>c, <2>1, <2>2, <2>3, <2>4, <2>5 DEF SeenFiles
<1>5. ASSUME NEW f \in Fiber, Inspect(f) PROVE JudgedFiles'
  <2>1. \A g \in Fiber \ {f} : call'[g] = call[g] /\ pc'[g] = pc[g]
    BY <1>a, <1>5 DEF Inspect
  <2>2. /\ call'[f].seen = call[f].seen /\ call'[f].ident = LockIdentity
        /\ pc'[f] \in {"pause", "read"}
        /\ pc'[f] = "read" => path \in Ino
    BY <1>a, <1>5 DEF Inspect, Call
  <2>3. UNCHANGED <<now, path, file, dead>>
    BY <1>5 DEF Inspect
  <2>4. ASSUME NEW g \in Fiber, g # f
        PROVE  UNCHANGED <<call[g], pc[g]>>
    BY <2>1, <2>4
  <2>5. /\ call'[f].seen <= now'
        /\ pc'[f] = "read" =>
             /\ call'[f].ident.ino = path'
             /\ call'[f].ident.written = file'[path'].written
             /\ call'[f].ident.mtime = file'[path'].mtime
    BY <1>a, <2>2, <2>3 DEF LockIdentity
  <2>6. pc'[f] # "confirm"
    BY <2>2
  <2>7. ASSUME NEW g \in Fiber, g # f, Justified(g) PROVE Justified(g)'
    BY <2>3, <2>4, <2>7
  <2> HIDE DEF TypeOK, Justified
  <2> QED BY <2>2, <2>3, <2>4, <2>5, <2>6, <2>7
<1>6. ASSUME NEW f \in Fiber, ReadRecord(f) PROVE JudgedFiles'
  BY <1>a, <1>b, <1>c, <1>6 DEF ReadRecord, Takeover
<1>7. ASSUME NEW f \in Fiber, WriteFails(f) \/ ReleaseCheck(f) PROVE JudgedFiles'
  BY <1>a, <1>7, <1>1 DEF WriteFails, ReleaseCheck
<1>8. ASSUME NEW f \in Fiber,
             \/ AbortUnlink(f) \/ ReleaseUnlink(f) \/ InspectUnsafe(f) \/ GiveUp(f)
             \/ AttemptFails(f) \/ ReleaseFails(f)
      PROVE  JudgedFiles'
  BY <1>a, <1>8, <1>1 DEF AbortUnlink, ReleaseUnlink, InspectUnsafe, GiveUp, AttemptFails,
     ReleaseFails
<1>9. ASSUME NEW p \in Proc, Crash(p) PROVE JudgedFiles'
  BY <1>a, <1>c, <1>9 DEF Crash, NoCall
<1>10. ASSUME Tick \/ UNCHANGED vars PROVE JudgedFiles'
  BY <1>a, <1>b, <1>10 DEF Tick, vars
<1> HIDE DEF JudgedFiles
<1> QED
  BY <1>2, <1>3, <1>4, <1>5, <1>6, <1>7, <1>8, <1>9, <1>10, <1>11
  DEF Next, Acquiring, Releasing

(* A waiter goes on to unlink only a file whose owner is dead, whose record *)
(* has expired, or which never got one and is stale.                        *)
THEOREM TakeoverTheorem == Spec => TakeoverJustified
<1> DEFINE Step1 == \A f \in Fiber :
       pc[f] = "confirm" /\ pc'[f] = "unlink" /\ path \in Ino =>
         \/ file[path].written /\ ~Alive(file[path].by)
         \/ file[path].written /\ ExpireLiveOwner /\ now - file[path].createdAt > Stale
         \/ ~file[path].written /\ now - file[path].mtime > Stale
<1>1. Init => JudgedFiles
  BY DEF Init, JudgedFiles, NoCall
<1>2. ReclaimInv /\ JudgedFiles /\ [Next]_vars => Step1 \/ UNCHANGED vars
  <2> SUFFICES ASSUME ReclaimInv, JudgedFiles, Next, NEW f \in Fiber,
                      pc[f] = "confirm", pc'[f] = "unlink", path \in Ino
               PROVE  \/ file[path].written /\ ~Alive(file[path].by)
                      \/ file[path].written /\ ExpireLiveOwner /\ now - file[path].createdAt > Stale
                      \/ ~file[path].written /\ now - file[path].mtime > Stale
    OBVIOUS
  <2> USE FibersAssumption, FilesAssumption, TimesAssumption
          DEF FibersAssumption, FilesAssumption, TimesAssumption, ReclaimInv, TypeOK
  <2> USE DEF Moves, Goto
  <2>1. Confirm(f)
    <3>1. ASSUME NEW g \in Fiber, Quit(g) PROVE FALSE
      BY <3>1 DEF Quit
    <3>2. ASSUME NEW g \in Fiber,
                 \/ Begin(g) \/ Enter(g) \/ Create(g) \/ WriteRecord(g) \/ Contended(g)
                 \/ Inspect(g) \/ ReadRecord(g) \/ ReclaimUnlink(g) \/ Sleep(g) \/ Wake(g)
          PROVE  FALSE
      BY <3>2 DEF Begin, Enter, Create, WriteRecord, Contended, Inspect, ReadRecord,
         ReclaimUnlink, Sleep, Wake
    <3>3. ASSUME NEW g \in Fiber, WriteFails(g) \/ ReleaseCheck(g) PROVE FALSE
      BY <3>1, <3>3 DEF WriteFails, ReleaseCheck
    <3>4. ASSUME NEW g \in Fiber,
                 \/ AbortUnlink(g) \/ InspectUnsafe(g) \/ GiveUp(g) \/ AttemptFails(g)
                 \/ ReleaseUnlink(g) \/ ReleaseFails(g)
          PROVE  FALSE
      BY <3>1, <3>4 DEF AbortUnlink, InspectUnsafe, GiveUp, AttemptFails, ReleaseUnlink,
         ReleaseFails
    <3>5. ASSUME NEW g \in Fiber, Confirm(g) PROVE g = f
      BY <3>5 DEF Confirm
    <3>6. ~ \E p \in Proc : Crash(p)
      BY DEF Crash
    <3>7. ~ Tick
      BY DEF Tick
    <3> QED BY <3>2, <3>3, <3>4, <3>5, <3>6, <3>7 DEF Next, Acquiring, Releasing
  <2>2. LockIdentity = call[f].ident
    BY <2>1 DEF Confirm, Moves, Goto
  <2>3. path = call[f].ident.ino /\ file[path].written = call[f].ident.written
    BY <2>2 DEF LockIdentity
  <2>4. Justified(f) /\ call[f].seen <= now
    BY <2>3 DEF JudgedFiles
  <2>5. call[f].seen \in Nat /\ file[path].createdAt \in Nat /\ file[path].mtime \in Nat
    BY DEF Call, Record
  <2> QED BY <2>4, <2>5 DEF Justified
<1> QED
  BY <1>1, <1>2, JudgedNext, ReclaimInvInit, ReclaimInvNext, PTL DEF Spec, TakeoverJustified
-----------------------------------------------------------------------------
(* What the in-process guard is for.                                       *)

\* Every lock is taken through withAdvisoryLockUsing, except by a process's only caller.
SiblingsGuarded ==
  \A f, g \in Fiber : f # g /\ ProcOf[f] = ProcOf[g] => f \in Guarded

Outside == {"idle", "guard", "dead"}

\* Of the callers of a process one at most is past the guard.
OnePermit ==
  \A f, g \in Fiber :
    f # g /\ ProcOf[f] = ProcOf[g] => pc[f] \in Outside \/ pc[g] \in Outside

\* What stands in for the file a release has checked is no sibling's.
DropsApart ==
  \A f \in Fiber : pc[f] = "drop" =>
    \/ path \in {mine[f], NoFile}
    \/ path \in DOMAIN file /\ ProcOf[file[path].by] # ProcOf[f]

\* Past the guard a step stays there or goes out; only Enter passes it.
LEMMA PermitNext ==
  ASSUME SiblingsGuarded, TypeOK, OnePermit, [Next]_vars
  PROVE  OnePermit'
<1> USE FibersAssumption DEF FibersAssumption, SiblingsGuarded, OnePermit, Outside
<1>1. ASSUME NEW f \in Fiber, NEW step \in Step, Goto(f, step),
             pc[f] \in Outside => step \in Outside
      PROVE  OnePermit'
  BY <1>1 DEF TypeOK, Goto
<1>2. ASSUME NEW f \in Fiber, Enter(f) PROVE OnePermit'
  <2>1. \A g \in Fiber : g # f /\ ProcOf[g] = ProcOf[f] => pc[g] \in Outside
    BY <1>2 DEF Enter, GuardFree
  <2> QED BY <1>2, <2>1 DEF TypeOK, Enter, Moves, Goto
<1>3. ASSUME NEW f \in Fiber, Quit(f) PROVE OnePermit'
  BY <1>1, <1>3 DEF Quit, Step
<1>4. ASSUME NEW f \in Fiber,
             \/ Begin(f) \/ Create(f) \/ WriteRecord(f) \/ Contended(f) \/ Inspect(f)
             \/ ReadRecord(f) \/ Confirm(f) \/ ReclaimUnlink(f) \/ Sleep(f) \/ Wake(f)
      PROVE  OnePermit'
  <2>1. \E step \in Step : Goto(f, step) /\ (pc[f] \in Outside => step \in Outside)
    BY <1>4 DEF Begin, Create, WriteRecord, Contended, Inspect, ReadRecord, Confirm,
       ReclaimUnlink, Sleep, Wake, Moves, Step, Waiting, Owning
  <2> QED BY <1>1, <2>1
<1>5. ASSUME NEW f \in Fiber, WriteFails(f) \/ ReleaseCheck(f) PROVE OnePermit'
  <2>1. Quit(f) \/ \E step \in Step : Goto(f, step) /\ pc[f] \notin Outside
    BY <1>5 DEF WriteFails, ReleaseCheck, Step, Waiting, Owning
  <2> QED BY <1>1, <1>3, <2>1
<1>6. ASSUME NEW f \in Fiber,
             \/ AbortUnlink(f) \/ InspectUnsafe(f) \/ GiveUp(f) \/ AttemptFails(f)
             \/ ReleaseUnlink(f) \/ ReleaseFails(f)
      PROVE  OnePermit'
  BY <1>3, <1>6 DEF AbortUnlink, InspectUnsafe, GiveUp, AttemptFails, ReleaseUnlink,
     ReleaseFails
<1>7. ASSUME NEW p \in Proc, Crash(p) PROVE OnePermit'
  BY <1>7 DEF Crash
<1>8. CASE Tick \/ UNCHANGED vars
  BY <1>8 DEF Tick, vars
<1> QED
  BY <1>2, <1>4, <1>5, <1>6, <1>7, <1>8 DEF Next, Acquiring, Releasing

LEMMA DropsApartNext ==
  ASSUME SiblingsGuarded, ReclaimInv, OnePermit, DropsApart, [Next]_vars
  PROVE  DropsApart'
<1> USE FibersAssumption, FilesAssumption DEF FibersAssumption, FilesAssumption
<1>a. TypeOK /\ OwnFiles
  BY DEF ReclaimInv
<1> USE <1>a DEF TypeOK, Moves, Goto, DropsApart
\* A step that brings nobody to "drop" and no file to the path.
<1>1. ASSUME NEW f \in Fiber, NEW step, Goto(f, step), step # "drop",
             path' \in {path, NoFile}, \A g \in Fiber : g # f => mine'[g] = mine[g],
             DOMAIN file' = DOMAIN file, \A i \in DOMAIN file : file'[i].by = file[i].by
      PROVE  DropsApart'
  BY <1>1
<1>2. ASSUME NEW f \in Fiber, Quit(f), path' \in {path, NoFile} PROVE DropsApart'
  BY <1>1, <1>2 DEF Quit
\* The creator holds the permit, so no sibling of its is releasing.
<1>3. ASSUME NEW f \in Fiber, Create(f) PROVE DropsApart'
  <2>1. PICK i \in Ino \ DOMAIN file :
          /\ path' = i
          /\ mine' = [mine EXCEPT ![f] = i]
          /\ file' = [j \in DOMAIN file \cup {i} |->
                        IF j = i THEN [by |-> f, createdAt |-> call[f].seen,
                                       written |-> FALSE, mtime |-> now]
                                 ELSE file[j]]
    BY <1>3 DEF Create
  <2>2. path' \in DOMAIN file' /\ file'[path'].by = f
    BY <2>1
  <2>3. ASSUME NEW g \in Fiber, pc'[g] = "drop" PROVE ProcOf[f] # ProcOf[g]
    BY <1>3, <2>3 DEF Create, OnePermit, Outside
  <2> QED BY <2>2, <2>3
<1>4. ASSUME NEW f \in Fiber, WriteRecord(f) PROVE DropsApart'
  <2>1. DOMAIN file' = DOMAIN file /\ \A i \in DOMAIN file : file'[i].by = file[i].by
    BY <1>4 DEF WriteRecord, Record
  <2> QED BY <1>1, <1>4, <2>1 DEF WriteRecord
<1>5. ASSUME NEW f \in Fiber,
             \/ Begin(f) \/ Enter(f) \/ Contended(f) \/ Inspect(f) \/ ReadRecord(f)
             \/ Confirm(f) \/ ReclaimUnlink(f) \/ Sleep(f) \/ Wake(f)
      PROVE  DropsApart'
  <2>1. /\ \E step \in Step : Goto(f, step) /\ step # "drop"
        /\ path' \in {path, NoFile} /\ UNCHANGED <<file, mine>>
    BY <1>5 DEF Begin, Enter, Contended, Inspect, ReadRecord, Confirm, ReclaimUnlink, Sleep,
       Wake, Step, Waiting
  <2> QED BY <1>1, <2>1
<1>6. ASSUME NEW f \in Fiber, WriteFails(f) PROVE DropsApart'
  BY <1>1, <1>2, <1>6 DEF WriteFails
<1>7. ASSUME NEW f \in Fiber, ReleaseCheck(f) PROVE DropsApart'
  BY <1>2, <1>7 DEF ReleaseCheck
<1>8. ASSUME NEW f \in Fiber,
             \/ AbortUnlink(f) \/ InspectUnsafe(f) \/ GiveUp(f) \/ AttemptFails(f)
             \/ ReleaseUnlink(f) \/ ReleaseFails(f)
      PROVE  DropsApart'
  BY <1>2, <1>8 DEF AbortUnlink, InspectUnsafe, GiveUp, AttemptFails, ReleaseUnlink,
     ReleaseFails
<1>9. ASSUME NEW p \in Proc, Crash(p) PROVE DropsApart'
  BY <1>9 DEF Crash
<1>10. CASE Tick \/ UNCHANGED vars
  BY <1>10 DEF Tick, vars
<1> HIDE DEF DropsApart
<1> QED
  BY <1>3, <1>4, <1>5, <1>6, <1>7, <1>8, <1>9, <1>10 DEF Next, Acquiring, Releasing

(* When the callers of a process go through the guard, a release that has   *)
(* checked its token never unlinks the file of a sibling, however late its  *)
(* unlink comes and whoever took the file over in between.                  *)
THEOREM SiblingsTheorem ==
  ASSUME SiblingsGuarded PROVE Spec => ReleaseSparesSiblings
<1> DEFINE Spared == \A f \in Fiber :
       pc[f] = "drop" /\ pc'[f] = "idle" /\ path' # path /\ path # mine[f]
         => ProcOf[file[path].by] # ProcOf[f]
<1> DEFINE Inv == ReclaimInv /\ OnePermit /\ DropsApart
<1>1. Init => Inv
  BY ReclaimInvInit DEF Init, OnePermit, Outside, DropsApart
<1>2. Inv /\ [Next]_vars => Inv'
  BY ReclaimInvNext, PermitNext, DropsApartNext DEF ReclaimInv
<1>3. Inv /\ [Next]_vars => Spared
  <2> SUFFICES ASSUME Inv, [Next]_vars, NEW f \in Fiber, pc[f] = "drop", pc'[f] = "idle",
                      path' # path, path # mine[f]
               PROVE  ProcOf[file[path].by] # ProcOf[f]
    OBVIOUS
  <2>1. path # NoFile
    <3> SUFFICES ASSUME path = NoFile PROVE FALSE
      OBVIOUS
    <3>1. PICK g \in Fiber : Create(g)
      BY DEF vars, Next, Acquiring, Releasing, Begin, Enter, WriteRecord, WriteFails,
         AbortUnlink, Quit, Contended, Inspect, InspectUnsafe, ReadRecord, Confirm,
         ReclaimUnlink, GiveUp, Sleep, Wake, AttemptFails, ReleaseCheck, ReleaseUnlink,
         ReleaseFails, Crash, Tick
    <3> QED BY <3>1 DEF Create, Moves, Goto, ReclaimInv, TypeOK
  <2> QED BY <2>1 DEF DropsApart
<1> QED BY <1>1, <1>2, <1>3, PTL DEF Spec, ReleaseSparesSiblings
=============================================================================
