------------------------ MODULE FileTransactionProofs ------------------------
(***************************************************************************)
(* What the managed-file transaction guarantees for any number of          *)
(* processes, files, transactions, deaths and outside edits.               *)
(***************************************************************************)
EXTENDS FileTransaction, TLAPS

-----------------------------------------------------------------------------
(* Types, and that whoever works holds the lock.                           *)

LEMMA TypeInit == Init => TypeOK
<1> SUFFICES ASSUME Init PROVE TypeOK
  OBVIOUS
<1>1. (CHOOSE f \in File : TRUE) \in File
  BY FileAssumption DEF FileAssumption
<1> USE NobodyAssumption, BoundsAssumption
    DEF NobodyAssumption, BoundsAssumption, Init, Step, Disposition, NoDisp
<1>2. /\ pc \in [Process -> Step] /\ role \in [Process -> {"run", "recover"}]
      /\ todo \in [Process -> SUBSET File]
      /\ target \in [File -> {"none", "orig", "stage", "alien"}]
      /\ staged \in [File -> {"none", "stage", "alien"}]
  OBVIOUS
<1>3. cur \in [Process -> File]
  BY <1>1
<1>4. disp \in [Process -> [File -> Disposition]]
  OBVIOUS
<1>5. \A p \in Process : lock = p <=> pc[p] \notin {"idle", "recover"}
  OBVIOUS
<1>6. /\ runs \in 0..MaxRuns /\ crashes \in 0..MaxCrashes /\ meddles \in 0..MaxMeddles
  OBVIOUS
<1> QED
  BY <1>2, <1>3, <1>4, <1>5, <1>6 DEF TypeOK

LEMMA TypeNext == TypeOK /\ [Next]_vars => TypeOK'
<1> USE NobodyAssumption, BoundsAssumption DEF NobodyAssumption, BoundsAssumption
<1> SUFFICES ASSUME TypeOK, [Next]_vars PROVE TypeOK'
  OBVIOUS
<1> USE DEF TypeOK, Goto, Step, Disposition, plan, disk, spent, history
<1>r. ASSUME NEW p \in Process, lock = p, Release(p),
             journal' \in {journal, "absent", "blocked"}, UNCHANGED <<plan, target, dirty, backups, stale>>,
             staged' \in [File -> {"none", "stage", "alien"}], wide' \in SUBSET File
      PROVE  TypeOK'
  BY <1>r DEF Release, NoDisp
<1>c. ASSUME NEW p \in Process, lock = p, Conflict(p) PROVE TypeOK'
  <2>1. CASE role[p] = "recover"
    BY <1>c, <2>1 DEF Conflict
  <2>2. CASE role[p] # "recover"
    BY <1>c, <1>r, <2>2 DEF Conflict
  <2> QED BY <2>1, <2>2
<1>k. ASSUME NEW p \in Process, lock = p, NEW step \in Step \ {"idle", "recover"},
             pc' = [pc EXCEPT ![p] = step],
             todo' \in [Process -> SUBSET File], cur' \in [Process -> File],
             disp' \in [Process -> [File -> Disposition]],
             target' \in [File -> {"none", "orig", "stage", "alien"}],
             staged' \in [File -> {"none", "stage", "alien"}], wide' \in SUBSET File,
             UNCHANGED <<journal, plan, dirty, backups, stale, lock, role, spent>>,
             lost' \in SUBSET File, raced' \in SUBSET File
      PROVE  TypeOK'
  BY <1>k
<1>1. ASSUME NEW p \in Process, Prepare(p) PROVE TypeOK'
  BY <1>1, <1>r DEF Prepare
<1>2. ASSUME NEW p \in Process, PlanRefused(p) PROVE TypeOK'
  BY <1>2, <1>r DEF PlanRefused
<1>3. ASSUME NEW p \in Process, Plan(p) PROVE TypeOK'
  BY <1>3, <1>r DEF Plan
<1>4. ASSUME NEW p \in Process, MakeBackup(p) PROVE TypeOK'
  BY <1>4, <1>r DEF MakeBackup
<1>5. ASSUME NEW p \in Process, BackedUp(p) PROVE TypeOK'
  BY <1>5, <1>r DEF BackedUp
<1>6. ASSUME NEW p \in Process, MakeStage(p) PROVE TypeOK'
  BY <1>6, <1>r DEF MakeStage
<1>7. ASSUME NEW p \in Process, JournalPrepared(p) PROVE TypeOK'
  BY <1>7, <1>r DEF JournalPrepared
<1>8. ASSUME NEW p \in Process, PrepareFails(p) PROVE TypeOK'
  BY <1>8, <1>r DEF PrepareFails, WithoutOwnStages
<1>9. ASSUME NEW p \in Process, CommitVerify(p) PROVE TypeOK'
  <2>1. lock = p
    BY <1>9 DEF CommitVerify, Turn
  <2>2. CASE ~stale /\ \A f \in entries : IsBefore(f) /\ BackupIntact(f)
    <3>1. /\ pc' = [pc EXCEPT ![p] = "begin"]
          /\ todo' \in [Process -> SUBSET File] /\ cur' \in [Process -> File]
          /\ disp' \in [Process -> [File -> Disposition]]
      BY <1>9, <2>2 DEF CommitVerify, Turn, Done
    <3>2. /\ target' \in [File -> {"none", "orig", "stage", "alien"}]
          /\ staged' \in [File -> {"none", "stage", "alien"}] /\ wide' \in SUBSET File
      BY <1>9, <2>2 DEF CommitVerify, Turn, Done
    <3>3. /\ UNCHANGED <<journal, plan, dirty, backups, stale, lock, role, spent>>
          /\ lost' \in SUBSET File /\ raced' \in SUBSET File
      BY <1>9, <2>2 DEF CommitVerify, Turn, Done
    <3> QED BY <1>k, <2>1, <3>1, <3>2, <3>3
  <2>3. CASE ~(~stale /\ \A f \in entries : IsBefore(f) /\ BackupIntact(f))
    <3>1. Conflict(p)
      BY <1>9, <2>3 DEF CommitVerify
    <3> QED BY <1>c, <2>1, <3>1
  <2> QED BY <2>2, <2>3
<1>10. ASSUME NEW p \in Process, BeginCommit(p) PROVE TypeOK'
  BY <1>10, <1>r DEF BeginCommit
<1>11. ASSUME NEW p \in Process, CommitRecheck(p) PROVE TypeOK'
  <2>1. lock = p
    BY <1>11 DEF CommitRecheck, Turn
  <2>2. CASE ~stale
    <3>0. disp' = [disp EXCEPT ![p] = [f \in File |-> "pending"]]
      BY <1>11, <2>2 DEF CommitRecheck
    <3>1. /\ pc' = [pc EXCEPT ![p] = "apply"]
          /\ todo' \in [Process -> SUBSET File] /\ cur' \in [Process -> File]
          /\ disp' \in [Process -> [File -> Disposition]]
      <4>1. [f \in File |-> "pending"] \in [File -> Disposition]
        OBVIOUS
      <4>2. disp' \in [Process -> [File -> Disposition]]
        BY <3>0, <4>1
      <4> QED BY <1>11, <2>2, <4>2 DEF CommitRecheck
    <3>2. /\ target' \in [File -> {"none", "orig", "stage", "alien"}]
          /\ staged' \in [File -> {"none", "stage", "alien"}] /\ wide' \in SUBSET File
      BY <1>11, <2>2 DEF CommitRecheck, Turn, Done
    <3>3. /\ UNCHANGED <<journal, plan, dirty, backups, stale, lock, role, spent>>
          /\ lost' \in SUBSET File /\ raced' \in SUBSET File
      BY <1>11, <2>2 DEF CommitRecheck, Turn, Done
    <3> QED BY <1>k, <2>1, <3>1, <3>2, <3>3
  <2>3. CASE stale
    <3>1. Conflict(p)
      BY <1>11, <2>3 DEF CommitRecheck
    <3> QED BY <1>c, <2>1, <3>1
  <2> QED BY <2>2, <2>3
<1>12. ASSUME NEW p \in Process, RenameStage(p) PROVE TypeOK'
  BY <1>12, <1>r DEF RenameStage
<1>13. ASSUME NEW p \in Process, FinishRename(p) PROVE TypeOK'
  <2>1. lock = p
    BY <1>13 DEF FinishRename
  <2>2. wide' \in SUBSET File
    BY <1>13 DEF FinishRename
  <2>3. CASE Release(p)
    BY <1>r, <1>13, <2>1, <2>2, <2>3 DEF FinishRename
  <2>4. ASSUME NEW step \in {"apply", "block"}, pc' = [pc EXCEPT ![p] = step],
               todo' \in [Process -> SUBSET File],
               UNCHANGED <<journal, lock, role, cur, disp, spent, history>>
        PROVE  TypeOK'
    <3>1. UNCHANGED <<plan, target, staged, dirty, backups, stale>>
      BY <1>13 DEF FinishRename
    <3> QED BY <1>k, <2>1, <2>2, <2>4, <3>1
  <2>5. CASE target[cur[p]] = "stage" /\ Clean(cur[p], "stage")
    <3>1. /\ pc' = [pc EXCEPT ![p] = "apply"] /\ todo' = [todo EXCEPT ![p] = @ \ {cur[p]}]
          /\ UNCHANGED <<journal, lock, role, cur, disp, spent, history>>
      BY <1>13, <2>5 DEF FinishRename, Done
    <3> QED BY <2>4, <3>1
  <2>6. CASE ~(target[cur[p]] = "stage" /\ Clean(cur[p], "stage"))
    <3>1. CASE role[p] = "recover"
      <4>1. /\ pc' = [pc EXCEPT ![p] = "block"]
            /\ UNCHANGED <<journal, lock, role, todo, cur, disp, spent, history>>
        BY <1>13, <2>6, <3>1 DEF FinishRename
      <4> QED BY <2>4, <4>1
    <3>2. CASE role[p] # "recover"
      <4>1. Release(p) /\ UNCHANGED journal
        BY <1>13, <2>6, <3>2 DEF FinishRename
      <4> QED BY <2>3, <4>1
    <3> QED BY <3>1, <3>2
  <2> QED BY <2>5, <2>6
<1>14. ASSUME NEW p \in Process, UnlinkTarget(p) PROVE TypeOK'
  BY <1>14, <1>r DEF UnlinkTarget
<1>15. ASSUME NEW p \in Process, FinishRemove(p) PROVE TypeOK'
  <2>1. lock = p
    BY <1>15 DEF FinishRemove, Turn
  <2>2. CASE IsAfter(cur[p])
    <3>1. /\ pc' = [pc EXCEPT ![p] = "apply"]
          /\ todo' \in [Process -> SUBSET File] /\ cur' \in [Process -> File]
          /\ disp' \in [Process -> [File -> Disposition]]
      <4>1. Done(p, cur[p]) /\ UNCHANGED <<cur, disp>>
        BY <1>15, <2>2 DEF FinishRemove
      <4> QED BY <4>1 DEF Done
    <3>2. /\ target' \in [File -> {"none", "orig", "stage", "alien"}]
          /\ staged' \in [File -> {"none", "stage", "alien"}] /\ wide' \in SUBSET File
      BY <1>15, <2>2 DEF FinishRemove, Turn, Done
    <3>3. /\ UNCHANGED <<journal, plan, dirty, backups, stale, lock, role, spent>>
          /\ lost' \in SUBSET File /\ raced' \in SUBSET File
      BY <1>15, <2>2 DEF FinishRemove, Turn, Done
    <3> QED BY <1>k, <2>1, <3>1, <3>2, <3>3
  <2>3. CASE ~(IsAfter(cur[p]))
    <3>1. Conflict(p)
      BY <1>15, <2>3 DEF FinishRemove
    <3> QED BY <1>c, <2>1, <3>1
  <2> QED BY <2>2, <2>3
<1>16. ASSUME NEW p \in Process, LinkStage(p) PROVE TypeOK'
  <2>1. lock = p
    BY <1>16 DEF LinkStage, Turn
  <2>2. CASE target[cur[p]] = "none"
    <3>1. /\ pc' = [pc EXCEPT ![p] = "linked"]
          /\ todo' \in [Process -> SUBSET File] /\ cur' \in [Process -> File]
          /\ disp' \in [Process -> [File -> Disposition]]
      BY <1>16, <2>2 DEF LinkStage, Turn, Done
    <3>2. /\ target' \in [File -> {"none", "orig", "stage", "alien"}]
          /\ staged' \in [File -> {"none", "stage", "alien"}] /\ wide' \in SUBSET File
      BY <1>16, <2>2 DEF LinkStage, Turn, Done
    <3>3. /\ UNCHANGED <<journal, plan, dirty, backups, stale, lock, role, spent>>
          /\ lost' \in SUBSET File /\ raced' \in SUBSET File
      BY <1>16, <2>2 DEF LinkStage, Turn, Done
    <3> QED BY <1>k, <2>1, <3>1, <3>2, <3>3
  <2>3. CASE ~(target[cur[p]] = "none")
    <3>1. Conflict(p)
      BY <1>16, <2>3 DEF LinkStage
    <3> QED BY <1>c, <2>1, <3>1
  <2> QED BY <2>2, <2>3
<1>17. ASSUME NEW p \in Process, ChmodLinked(p) PROVE TypeOK'
  <2>1. lock = p
    BY <1>17 DEF ChmodLinked, Turn
  <2>2. CASE Linked(cur[p])
    <3>1. /\ pc' = [pc EXCEPT ![p] = "chmodded"]
          /\ todo' \in [Process -> SUBSET File] /\ cur' \in [Process -> File]
          /\ disp' \in [Process -> [File -> Disposition]]
      BY <1>17, <2>2 DEF ChmodLinked, Turn, Done
    <3>2. /\ target' \in [File -> {"none", "orig", "stage", "alien"}]
          /\ staged' \in [File -> {"none", "stage", "alien"}] /\ wide' \in SUBSET File
      BY <1>17, <2>2 DEF ChmodLinked, Turn, Done
    <3>3. /\ UNCHANGED <<journal, plan, dirty, backups, stale, lock, role, spent>>
          /\ lost' \in SUBSET File /\ raced' \in SUBSET File
      BY <1>17, <2>2 DEF ChmodLinked, Turn, Done
    <3> QED BY <1>k, <2>1, <3>1, <3>2, <3>3
  <2>3. CASE ~(Linked(cur[p]))
    <3>1. Conflict(p)
      BY <1>17, <2>3 DEF ChmodLinked
    <3> QED BY <1>c, <2>1, <3>1
  <2> QED BY <2>2, <2>3
<1>18. ASSUME NEW p \in Process, UnlinkOwnedStage(p) PROVE TypeOK'
  <2>1. lock = p
    BY <1>18 DEF UnlinkOwnedStage, Turn
  <2>2. CASE Linked(cur[p])
    <3>1. /\ pc' = [pc EXCEPT ![p] = "apply"]
          /\ todo' \in [Process -> SUBSET File] /\ cur' \in [Process -> File]
          /\ disp' \in [Process -> [File -> Disposition]]
      BY <1>18, <2>2 DEF UnlinkOwnedStage, Turn, Done
    <3>2. /\ target' \in [File -> {"none", "orig", "stage", "alien"}]
          /\ staged' \in [File -> {"none", "stage", "alien"}] /\ wide' \in SUBSET File
      BY <1>18, <2>2 DEF UnlinkOwnedStage, Turn, Done
    <3>3. /\ UNCHANGED <<journal, plan, dirty, backups, stale, lock, role, spent>>
          /\ lost' \in SUBSET File /\ raced' \in SUBSET File
      BY <1>18, <2>2 DEF UnlinkOwnedStage, Turn, Done
    <3> QED BY <1>k, <2>1, <3>1, <3>2, <3>3
  <2>3. CASE ~(Linked(cur[p]))
    <3>1. Conflict(p)
      BY <1>18, <2>3 DEF UnlinkOwnedStage
    <3> QED BY <1>c, <2>1, <3>1
  <2> QED BY <2>2, <2>3
<1>19. ASSUME NEW p \in Process, PathVanished(p) PROVE TypeOK'
  <2>1. lock = p /\ Release(p) /\ UNCHANGED <<journal, plan, disk>>
    BY <1>19 DEF PathVanished, Turn
  <2> QED BY <1>r, <2>1
<1>20. ASSUME NEW p \in Process, FinishCommit(p) PROVE TypeOK'
  BY <1>20, <1>r DEF FinishCommit
<1>21. ASSUME NEW p \in Process, CleanupStages(p) PROVE TypeOK'
  BY <1>21, <1>r DEF CleanupStages, WithoutOwnStages
<1>22. ASSUME NEW p \in Process, RemoveCommitted(p) PROVE TypeOK'
  BY <1>22, <1>r DEF RemoveCommitted
<1>23. ASSUME NEW p \in Process, Peek(p) PROVE TypeOK'
  BY <1>23, <1>r DEF Peek
<1>24. ASSUME NEW p \in Process, LockForRecovery(p) PROVE TypeOK'
  BY <1>24, <1>r DEF LockForRecovery
<1>25. ASSUME NEW p \in Process, RecoverReturns(p) PROVE TypeOK'
  BY <1>25, <1>r DEF RecoverReturns
<1>26. ASSUME NEW p \in Process, RecoverResumes(p) PROVE TypeOK'
  BY <1>26, <1>r DEF RecoverResumes
<1>27. ASSUME NEW p \in Process, Preflight(p) PROVE TypeOK'
  <2>1. lock = p
    BY <1>27 DEF Preflight, Turn
  <2>2. CASE \A f \in entries : \E d \in Disposition : Fits(f, d)
    <3>0. /\ pc' = [pc EXCEPT ![p] = "apply"] /\ todo' = [todo EXCEPT ![p] = entries]
          /\ disp' = [disp EXCEPT ![p] =
                        [f \in File |-> IF f \in entries
                                          THEN CHOOSE d \in Disposition : Fits(f, d)
                                          ELSE "applied"]]
          /\ UNCHANGED cur
      BY <1>27, <2>2 DEF Preflight
    <3>1. /\ pc' = [pc EXCEPT ![p] = "apply"]
          /\ todo' \in [Process -> SUBSET File] /\ cur' \in [Process -> File]
          /\ disp' \in [Process -> [File -> Disposition]]
      <4>1. \A f \in entries : (CHOOSE d \in Disposition : Fits(f, d)) \in Disposition
        <5> TAKE f \in entries
        <5>1. \E d \in Disposition : Fits(f, d)
          BY <2>2
        <5> HIDE DEF Disposition
        <5> QED BY <5>1
      <4>2. [f \in File |-> IF f \in entries THEN CHOOSE d \in Disposition : Fits(f, d)
                                             ELSE "applied"] \in [File -> Disposition]
        BY <4>1
      <4>3. disp' \in [Process -> [File -> Disposition]]
        BY <3>0, <4>2
      <4> QED BY <3>0, <4>3
    <3>2. /\ target' \in [File -> {"none", "orig", "stage", "alien"}]
          /\ staged' \in [File -> {"none", "stage", "alien"}] /\ wide' \in SUBSET File
      BY <1>27, <2>2 DEF Preflight, Turn, Done
    <3>3. /\ UNCHANGED <<journal, plan, dirty, backups, stale, lock, role, spent>>
          /\ lost' \in SUBSET File /\ raced' \in SUBSET File
      BY <1>27, <2>2 DEF Preflight, Turn, Done
    <3> QED BY <1>k, <2>1, <3>1, <3>2, <3>3
  <2>3. CASE ~(\A f \in entries : \E d \in Disposition : Fits(f, d))
    <3>1. Conflict(p)
      BY <1>27, <2>3 DEF Preflight
    <3> QED BY <1>c, <2>1, <3>1
  <2> QED BY <2>2, <2>3
<1>28. ASSUME NEW p \in Process, Block(p) PROVE TypeOK'
  BY <1>28, <1>r DEF Block
<1>29. ASSUME NEW p \in Process, Crash(p) PROVE TypeOK'
  <2>1. p # Nobody
    OBVIOUS
  <2> QED BY <1>29, <2>1 DEF Crash, NoDisp
<1>30. ASSUME NEW p \in Process, NEW f \in File, VerifyEntry(p, f) PROVE TypeOK'
  <2>1. lock = p
    BY <1>30 DEF VerifyEntry, Turn
  <2>2. CASE Verified(f)
    <3>1. /\ pc' = [pc EXCEPT ![p] = "armed"]
          /\ todo' \in [Process -> SUBSET File] /\ cur' \in [Process -> File]
          /\ disp' \in [Process -> [File -> Disposition]]
      BY <1>30, <2>2 DEF VerifyEntry, Turn, Done
    <3>2. /\ target' \in [File -> {"none", "orig", "stage", "alien"}]
          /\ staged' \in [File -> {"none", "stage", "alien"}] /\ wide' \in SUBSET File
      BY <1>30, <2>2 DEF VerifyEntry, Turn, Done
    <3>3. /\ UNCHANGED <<journal, plan, dirty, backups, stale, lock, role, spent>>
          /\ lost' \in SUBSET File /\ raced' \in SUBSET File
      BY <1>30, <2>2 DEF VerifyEntry, Turn, Done
    <3> QED BY <1>k, <2>1, <3>1, <3>2, <3>3
  <2>3. CASE ~(Verified(f))
    <3>1. Conflict(p)
      BY <1>30, <2>3 DEF VerifyEntry
    <3> QED BY <1>c, <2>1, <3>1
  <2> QED BY <2>2, <2>3
<1>31. ASSUME NEW p \in Process, NEW f \in File, SkipApplied(p, f) PROVE TypeOK'
  BY <1>31, <1>r DEF SkipApplied, Turn, Done
<1>32. ASSUME NEW p \in Process, NEW f \in File, FinishAppliedMode(p, f) PROVE TypeOK'
  <2>1. lock = p
    BY <1>32 DEF FinishAppliedMode, Turn
  <2>2. CASE target[f] = "stage" /\ Clean(f, "stage")
    <3>1. /\ pc' = [pc EXCEPT ![p] = "apply"]
          /\ todo' \in [Process -> SUBSET File] /\ cur' \in [Process -> File]
          /\ disp' \in [Process -> [File -> Disposition]]
      BY <1>32, <2>2 DEF FinishAppliedMode, Turn, Done
    <3>2. /\ target' \in [File -> {"none", "orig", "stage", "alien"}]
          /\ staged' \in [File -> {"none", "stage", "alien"}] /\ wide' \in SUBSET File
      BY <1>32, <2>2 DEF FinishAppliedMode, Turn, Done
    <3>3. /\ UNCHANGED <<journal, plan, dirty, backups, stale, lock, role, spent>>
          /\ lost' \in SUBSET File /\ raced' \in SUBSET File
      BY <1>32, <2>2 DEF FinishAppliedMode, Turn, Done
    <3> QED BY <1>k, <2>1, <3>1, <3>2, <3>3
  <2>3. CASE ~(target[f] = "stage" /\ Clean(f, "stage"))
    <3>1. Conflict(p)
      BY <1>32, <2>3 DEF FinishAppliedMode
    <3> QED BY <1>c, <2>1, <3>1
  <2> QED BY <2>2, <2>3
<1>33. ASSUME NEW p \in Process, NEW f \in File, FinishLinkedCreate(p, f) PROVE TypeOK'
  <2>1. lock = p
    BY <1>33 DEF FinishLinkedCreate, Turn
  <2>2. CASE Linked(f) /\ Clean(f, "stage")
    <3>1. /\ pc' = [pc EXCEPT ![p] = IF f \in wide THEN "chmodded" ELSE "linked"]
          /\ todo' \in [Process -> SUBSET File] /\ cur' \in [Process -> File]
          /\ disp' \in [Process -> [File -> Disposition]]
      BY <1>33, <2>2 DEF FinishLinkedCreate, Turn, Done
    <3>2. /\ target' \in [File -> {"none", "orig", "stage", "alien"}]
          /\ staged' \in [File -> {"none", "stage", "alien"}] /\ wide' \in SUBSET File
      BY <1>33, <2>2 DEF FinishLinkedCreate, Turn, Done
    <3>3. /\ UNCHANGED <<journal, plan, dirty, backups, stale, lock, role, spent>>
          /\ lost' \in SUBSET File /\ raced' \in SUBSET File
      BY <1>33, <2>2 DEF FinishLinkedCreate, Turn, Done
    <3> QED BY <1>k, <2>1, <3>1, <3>2, <3>3
  <2>3. CASE ~(Linked(f) /\ Clean(f, "stage"))
    <3>1. Conflict(p)
      BY <1>33, <2>3 DEF FinishLinkedCreate
    <3> QED BY <1>c, <2>1, <3>1
  <2> QED BY <2>2, <2>3
<1>34. ASSUME NEW f \in File, Meddle(f) PROVE TypeOK'
  BY <1>34 DEF Meddle
<1>35. ASSUME SourceChanges PROVE TypeOK'
  BY <1>35 DEF SourceChanges
<1>36. ASSUME UNCHANGED vars PROVE TypeOK'
  BY <1>36 DEF vars
<1> QED
  <2> HIDE DEF TypeOK
  <2> QED
    BY <1>1, <1>2, <1>3, <1>4, <1>5, <1>6, <1>7, <1>8, <1>9, <1>10, <1>11, <1>12, <1>13, <1>14, <1>15, <1>16, <1>17, <1>18, <1>19, <1>20, <1>21, <1>22, <1>23, <1>24, <1>25, <1>26, <1>27, <1>28, <1>29, <1>30, <1>31, <1>32, <1>33, <1>34, <1>35, <1>36
    DEF Next, Working, Preparing, Committing, Applying, Completing, Recovering

\* Every variable keeps its type and every working process holds the lock, whatever the bounds.
THEOREM TypeCorrect == Spec => []TypeOK
<1> QED BY TypeInit, TypeNext, PTL DEF Spec

-----------------------------------------------------------------------------
(* Edits, backups and blocked journals.                                    *)

\* What one step of a process p does to the state its safety rests on.  It arms itself only
\* with a verified file, leaves the others alone and touches the disk only with the lock.
Arms(p) ==
  /\ pc'[p] = "armed" => Verified(cur'[p]) /\ UNCHANGED disk
  /\ \A q \in Process \ {p} : pc'[q] = pc[q] /\ cur'[q] = cur[q]
  /\ UNCHANGED <<raced, meddles>>
  /\ lock = p \/ UNCHANGED disk

\* It overwrites only what the armed process may, and never what is not backed up.
Spares(p) ==
  /\ lost' \subseteq {f \in raced : Op[f] # "create"}
  /\ \A f \in File : target[f] = "orig" /\ target'[f] # "orig" => f \in backups \cup raced

\* It leaves a blocked journal alone, and is out of the way when it blocks one.
Respects(p) ==
  /\ journal = "blocked" => UNCHANGED <<journal, target, staged>>
  /\ journal' = "blocked" => pc'[p] \in {"idle", "recover", "plan", "inspect"}
  /\ journal' = "blocked" => journal = "blocked" \/ lock = p

Safe(p) == Arms(p) /\ Spares(p) /\ Respects(p)

LEMMA SafeSteps == ASSUME FileInv, NEW p \in Process, Working(p) PROVE Safe(p)
<1> USE NobodyAssumption DEF NobodyAssumption
<1> USE DEF FileInv, Goto, Safe, Arms, Spares, Respects, plan, disk, spent, history
<1>0. /\ lost \subseteq {f \in raced : Op[f] # "create"}
      /\ pc \in [Process -> Step] /\ cur \in [Process -> File]
      /\ target \in [File -> {"none", "orig", "stage", "alien"}]
      /\ lock = p <=> pc[p] \notin {"idle", "recover"}
      /\ journal = "blocked" => pc[p] \in {"idle", "recover", "plan", "inspect"}
  BY DEF TypeOK, BlockedQuiet, NoEditOverwritten
<1>1. ASSUME pc[p] = "armed", Op[cur[p]] # "create"
      PROVE  /\ cur[p] \in File
             /\ Overwrites(cur[p]) => cur[p] \in raced
             /\ target[cur[p]] = "orig" => cur[p] \in backups \cup raced
  BY <1>0, <1>1 DEF ArmedSafe, Covered
<1> HIDE DEF FileInv
<1>r. ASSUME lock = p, Release(p), journal' = "blocked" => journal = "blocked" \/ pc[p] = "block",
             journal = "blocked" => UNCHANGED <<journal, target, staged>>, UNCHANGED target
      PROVE  Safe(p)
  BY <1>0, <1>r DEF Release
<1>c. ASSUME lock = p, Conflict(p), pc[p] \notin {"plan", "inspect"} PROVE Safe(p)
  <2>1. CASE role[p] = "recover"
    BY <1>0, <1>c, <2>1 DEF Conflict
  <2>2. CASE role[p] # "recover"
    BY <1>0, <1>r, <1>c, <2>2 DEF Conflict
  <2> QED BY <2>1, <2>2
<1>2. ASSUME Prepare(p) PROVE Safe(p)
  BY <1>0, <1>1, <1>r, <1>2 DEF Prepare, Release
<1>3. ASSUME PlanRefused(p) PROVE Safe(p)
  BY <1>0, <1>1, <1>r, <1>3 DEF PlanRefused, Release
<1>4. ASSUME Plan(p) PROVE Safe(p)
  BY <1>0, <1>1, <1>r, <1>4 DEF Plan, Release
<1>5. ASSUME MakeBackup(p) PROVE Safe(p)
  BY <1>0, <1>1, <1>r, <1>5 DEF MakeBackup, Release
<1>6. ASSUME BackedUp(p) PROVE Safe(p)
  BY <1>0, <1>1, <1>r, <1>6 DEF BackedUp, Release
<1>7. ASSUME MakeStage(p) PROVE Safe(p)
  BY <1>0, <1>1, <1>r, <1>7 DEF MakeStage, Release
<1>8. ASSUME JournalPrepared(p) PROVE Safe(p)
  BY <1>0, <1>1, <1>r, <1>8 DEF JournalPrepared, Release
<1>9. ASSUME PrepareFails(p) PROVE Safe(p)
  BY <1>0, <1>1, <1>r, <1>9 DEF PrepareFails, Release
<1>10. ASSUME CommitVerify(p) PROVE Safe(p)
  <2>1. CASE ~stale /\ \A f \in entries : IsBefore(f) /\ BackupIntact(f)
    BY <1>0, <1>10, <2>1 DEF CommitVerify
  <2>2. CASE ~(~stale /\ \A f \in entries : IsBefore(f) /\ BackupIntact(f))
    <3>1. lock = p /\ pc[p] \notin {"plan", "inspect"} /\ Conflict(p)
      BY <1>0, <1>10, <2>2 DEF CommitVerify
    <3> QED BY <1>c, <3>1
  <2> QED BY <2>1, <2>2
<1>11. ASSUME BeginCommit(p) PROVE Safe(p)
  BY <1>0, <1>1, <1>r, <1>11 DEF BeginCommit, Release
<1>12. ASSUME CommitRecheck(p) PROVE Safe(p)
  <2>1. CASE ~stale
    BY <1>0, <1>12, <2>1 DEF CommitRecheck
  <2>2. CASE stale
    <3>1. lock = p /\ pc[p] \notin {"plan", "inspect"} /\ Conflict(p)
      BY <1>0, <1>12, <2>2 DEF CommitRecheck
    <3> QED BY <1>c, <3>1
  <2> QED BY <2>1, <2>2
<1>13. ASSUME RenameStage(p) PROVE Safe(p)
  BY <1>0, <1>1, <1>r, <1>13 DEF RenameStage, Release
<1>14. ASSUME FinishRename(p) PROVE Safe(p)
  BY <1>0, <1>1, <1>r, <1>14 DEF FinishRename, Done, Release
<1>15. ASSUME UnlinkTarget(p) PROVE Safe(p)
  BY <1>0, <1>1, <1>r, <1>15 DEF UnlinkTarget, Release
<1>16. ASSUME FinishRemove(p) PROVE Safe(p)
  <2>1. CASE IsAfter(cur[p])
    BY <1>0, <1>16, <2>1 DEF FinishRemove, Done
  <2>2. CASE ~(IsAfter(cur[p]))
    <3>1. lock = p /\ pc[p] \notin {"plan", "inspect"} /\ Conflict(p)
      BY <1>0, <1>16, <2>2 DEF FinishRemove
    <3> QED BY <1>c, <3>1
  <2> QED BY <2>1, <2>2
<1>17. ASSUME LinkStage(p) PROVE Safe(p)
  <2>1. CASE target[cur[p]] = "none"
    BY <1>0, <1>17, <2>1 DEF LinkStage
  <2>2. CASE ~(target[cur[p]] = "none")
    <3>1. lock = p /\ pc[p] \notin {"plan", "inspect"} /\ Conflict(p)
      BY <1>0, <1>17, <2>2 DEF LinkStage
    <3> QED BY <1>c, <3>1
  <2> QED BY <2>1, <2>2
<1>18. ASSUME ChmodLinked(p) PROVE Safe(p)
  <2>1. CASE Linked(cur[p])
    BY <1>0, <1>18, <2>1 DEF ChmodLinked
  <2>2. CASE ~(Linked(cur[p]))
    <3>1. lock = p /\ pc[p] \notin {"plan", "inspect"} /\ Conflict(p)
      BY <1>0, <1>18, <2>2 DEF ChmodLinked
    <3> QED BY <1>c, <3>1
  <2> QED BY <2>1, <2>2
<1>19. ASSUME UnlinkOwnedStage(p) PROVE Safe(p)
  <2>1. CASE Linked(cur[p])
    BY <1>0, <1>19, <2>1 DEF UnlinkOwnedStage, Done
  <2>2. CASE ~(Linked(cur[p]))
    <3>1. lock = p /\ pc[p] \notin {"plan", "inspect"} /\ Conflict(p)
      BY <1>0, <1>19, <2>2 DEF UnlinkOwnedStage
    <3> QED BY <1>c, <3>1
  <2> QED BY <2>1, <2>2
<1>20. ASSUME PathVanished(p) PROVE Safe(p)
  BY <1>0, <1>1, <1>r, <1>20 DEF PathVanished, Turn, Release
<1>21. ASSUME FinishCommit(p) PROVE Safe(p)
  BY <1>0, <1>1, <1>r, <1>21 DEF FinishCommit, Release
<1>22. ASSUME CleanupStages(p) PROVE Safe(p)
  BY <1>0, <1>1, <1>r, <1>22 DEF CleanupStages, Release
<1>23. ASSUME RemoveCommitted(p) PROVE Safe(p)
  BY <1>0, <1>1, <1>r, <1>23 DEF RemoveCommitted, Release
<1>24. ASSUME Peek(p) PROVE Safe(p)
  BY <1>0, <1>1, <1>r, <1>24 DEF Peek, Release
<1>25. ASSUME LockForRecovery(p) PROVE Safe(p)
  BY <1>0, <1>1, <1>r, <1>25 DEF LockForRecovery, Release
<1>26. ASSUME RecoverReturns(p) PROVE Safe(p)
  BY <1>0, <1>1, <1>r, <1>26 DEF RecoverReturns, Release
<1>27. ASSUME RecoverResumes(p) PROVE Safe(p)
  BY <1>0, <1>1, <1>r, <1>27 DEF RecoverResumes, Release
<1>28. ASSUME Preflight(p) PROVE Safe(p)
  <2>1. CASE \A f \in entries : \E d \in Disposition : Fits(f, d)
    BY <1>0, <1>28, <2>1 DEF Preflight
  <2>2. CASE ~(\A f \in entries : \E d \in Disposition : Fits(f, d))
    <3>1. lock = p /\ pc[p] \notin {"plan", "inspect"} /\ Conflict(p)
      BY <1>0, <1>28, <2>2 DEF Preflight
    <3> QED BY <1>c, <3>1
  <2> QED BY <2>1, <2>2
<1>29. ASSUME Block(p) PROVE Safe(p)
  BY <1>0, <1>1, <1>r, <1>29 DEF Block, Release
<1>30. ASSUME NEW f \in File, VerifyEntry(p, f) PROVE Safe(p)
  <2>1. CASE Verified(f)
    BY <1>0, <1>30, <2>1 DEF VerifyEntry, Turn
  <2>2. CASE ~(Verified(f))
    <3>1. lock = p /\ pc[p] \notin {"plan", "inspect"} /\ Conflict(p)
      BY <1>0, <1>30, <2>2 DEF VerifyEntry, Turn
    <3> QED BY <1>c, <3>1
  <2> QED BY <2>1, <2>2
<1>31. ASSUME NEW f \in File, SkipApplied(p, f) PROVE Safe(p)
  BY <1>0, <1>1, <1>r, <1>31 DEF SkipApplied, Turn, Done, Release
<1>32. ASSUME NEW f \in File, FinishAppliedMode(p, f) PROVE Safe(p)
  <2>1. CASE target[f] = "stage" /\ Clean(f, "stage")
    BY <1>0, <1>32, <2>1 DEF FinishAppliedMode, Turn, Done
  <2>2. CASE ~(target[f] = "stage" /\ Clean(f, "stage"))
    <3>1. lock = p /\ pc[p] \notin {"plan", "inspect"} /\ Conflict(p)
      BY <1>0, <1>32, <2>2 DEF FinishAppliedMode, Turn
    <3> QED BY <1>c, <3>1
  <2> QED BY <2>1, <2>2
<1>33. ASSUME NEW f \in File, FinishLinkedCreate(p, f) PROVE Safe(p)
  <2>1. CASE Linked(f) /\ Clean(f, "stage")
    BY <1>0, <1>33, <2>1 DEF FinishLinkedCreate, Turn
  <2>2. CASE ~(Linked(f) /\ Clean(f, "stage"))
    <3>1. lock = p /\ pc[p] \notin {"plan", "inspect"} /\ Conflict(p)
      BY <1>0, <1>33, <2>2 DEF FinishLinkedCreate, Turn
    <3> QED BY <1>c, <3>1
  <2> QED BY <2>1, <2>2
<1> QED
  BY <1>2, <1>3, <1>4, <1>5, <1>6, <1>7, <1>8, <1>9, <1>10, <1>11, <1>12, <1>13, <1>14, <1>15, <1>16, <1>17, <1>18, <1>19, <1>20, <1>21, <1>22, <1>23, <1>24, <1>25, <1>26, <1>27, <1>28, <1>29, <1>30, <1>31, <1>32, <1>33
  DEF Working, Preparing, Committing, Applying, Completing, Recovering

LEMMA FileInit == Init => FileInv
<1> SUFFICES ASSUME Init PROVE FileInv
  OBVIOUS
<1>1. TypeOK
  BY TypeInit
<1>2. ArmedSafe /\ BlockedQuiet /\ NoEditOverwritten
  BY DEF Init, ArmedSafe, BlockedQuiet, NoEditOverwritten
<1> QED BY <1>1, <1>2 DEF FileInv

\* A verified file is its before-state, so that nothing of somebody else's is in its place.
LEMMA VerifiedIsSafe ==
  ASSUME NEW f, Verified(f)
  PROVE  /\ ~Overwrites(f)
         /\ Op[f] # "create" /\ target[f] = "orig" => f \in backups
BY DEF Verified, IsBefore, Overwrites, BackupIntact

LEMMA FileNext == FileInv /\ [Next]_vars => FileInv'
<1> SUFFICES ASSUME FileInv, [Next]_vars PROVE FileInv'
  OBVIOUS
<1>t. TypeOK /\ TypeOK'
  BY TypeNext DEF FileInv
<1>u. /\ \A q \in Process : lock = q <=> pc[q] \notin {"idle", "recover"}
      /\ cur \in [Process -> File] /\ Nobody \notin Process
  BY <1>t, NobodyAssumption DEF TypeOK, NobodyAssumption
<1>s. ArmedSafe /\ BlockedQuiet /\ NoEditOverwritten
  BY DEF FileInv
<1>1. ASSUME NEW p \in Process, Working(p) PROVE FileInv'
  <2>1. Arms(p) /\ Spares(p) /\ Respects(p)
    BY <1>1, SafeSteps DEF Safe
  <2>2. ArmedSafe'
    <3> SUFFICES ASSUME NEW q \in Process, pc'[q] = "armed"
                 PROVE  Covered(cur[q])'
      BY DEF ArmedSafe
    <3>1. CASE q = p
      <4>1. Verified(cur'[p]) /\ UNCHANGED disk
        BY <2>1, <3>1 DEF Arms
      <4>2. /\ ~Overwrites(cur'[p])
            /\ Op[cur'[p]] # "create" /\ target[cur'[p]] = "orig" => cur'[p] \in backups
        BY <4>1, VerifiedIsSafe
      <4> QED BY <3>1, <4>1, <4>2 DEF disk, Covered, Overwrites, Clean
    <3>2. CASE q # p
      <4>1. pc[q] = "armed" /\ cur'[q] = cur[q] /\ raced' = raced
        BY <2>1, <3>2 DEF Arms
      <4>2. lock = q
        BY <1>u, <4>1
      <4>3. UNCHANGED disk
        BY <2>1, <3>2, <4>2 DEF Arms
      <4>4. Covered(cur[q])
        BY <1>s, <4>1 DEF ArmedSafe
      <4> QED BY <4>1, <4>3, <4>4 DEF disk, Covered, Overwrites, Clean
    <3> QED BY <3>1, <3>2
  <2>3. BlockedQuiet'
    <3> SUFFICES ASSUME journal' = "blocked", NEW q \in Process
                 PROVE  pc'[q] \in {"idle", "recover", "plan", "inspect"}
      BY DEF BlockedQuiet
    <3>1. CASE q = p
      BY <2>1, <3>1 DEF Respects
    <3>2. CASE q # p
      <4>1. pc'[q] = pc[q]
        BY <2>1, <3>2 DEF Arms
      <4>2. journal = "blocked" \/ lock = p
        BY <2>1 DEF Respects
      <4> QED BY <1>s, <1>u, <3>2, <4>1, <4>2 DEF BlockedQuiet
    <3> QED BY <3>1, <3>2
  <2>4. NoEditOverwritten'
    BY <2>1 DEF Spares, Arms, NoEditOverwritten
  <2> QED BY <1>t, <2>2, <2>3, <2>4 DEF FileInv
<1>2. ASSUME NEW p \in Process, Crash(p) PROVE FileInv'
  <2>1. /\ UNCHANGED <<journal, target, dirty, backups, cur, lost, raced>>
        /\ \A q \in Process : pc'[q] = pc[q] \/ pc'[q] = "idle"
    BY <1>2, <1>t DEF Crash, Goto, disk, history, TypeOK
  <2>2. ArmedSafe' /\ BlockedQuiet' /\ NoEditOverwritten'
    BY <1>s, <2>1 DEF ArmedSafe, BlockedQuiet, NoEditOverwritten, Covered, Overwrites, Clean
  <2> QED BY <1>t, <2>2 DEF FileInv
<1>3. ASSUME NEW f \in File, Meddle(f) PROVE FileInv'
  <2>1. UNCHANGED <<journal, pc, cur, lost>> /\ raced \subseteq raced'
    BY <1>3 DEF Meddle
  <2>2. ArmedSafe'
    <3> SUFFICES ASSUME NEW q \in Process, pc[q] = "armed", cur[q] \notin raced'
                 PROVE  Covered(cur[q])'
      BY <2>1 DEF ArmedSafe, Covered, Overwrites, Clean
    <3>1. cur[q] # f
      BY <1>3, <1>u DEF Meddle
    <3>2. /\ target'[cur[q]] = target[cur[q]]
          /\ \A object : <<cur[q], object>> \in dirty' => <<cur[q], object>> \in dirty
          /\ cur[q] \in backups => cur[q] \in backups'
      BY <1>3, <1>t, <1>u, <3>1 DEF Meddle, TypeOK
    <3>3. cur[q] \notin raced /\ Covered(cur[q])
      BY <1>s, <2>1 DEF ArmedSafe
    <3> QED BY <2>1, <3>2, <3>3 DEF Covered, Overwrites, Clean
  <2>3. BlockedQuiet' /\ NoEditOverwritten'
    BY <1>s, <2>1 DEF BlockedQuiet, NoEditOverwritten
  <2> QED BY <1>t, <2>2, <2>3 DEF FileInv
<1>4. ASSUME SourceChanges \/ UNCHANGED vars PROVE FileInv'
  <2>1. UNCHANGED <<journal, target, dirty, backups, pc, cur, lost, raced>>
    BY <1>4 DEF SourceChanges, vars, disk, history
  <2>2. ArmedSafe' /\ BlockedQuiet' /\ NoEditOverwritten'
    BY <1>s, <2>1 DEF ArmedSafe, BlockedQuiet, NoEditOverwritten, Covered, Overwrites, Clean
  <2> QED BY <1>t, <2>2 DEF FileInv
<1> QED BY <1>1, <1>2, <1>3, <1>4 DEF Next

LEMMA FileInvariant == Spec => []FileInv
<1> QED BY FileInit, FileNext, PTL DEF Spec

\* No edit of anybody is overwritten unless it raced the rename of its own file, for any
\* number of commands, files, deaths and edits.
THEOREM EditsSurvive == Spec => []NoEditOverwritten
<1>1. FileInv => NoEditOverwritten
  BY DEF FileInv
<1> QED BY FileInvariant, <1>1, PTL

LEMMA InertStep ==
  FileInv /\ [Next]_vars
    => [journal = "blocked" /\ meddles' = meddles => UNCHANGED <<journal, target, staged>>]_vars
<1> SUFFICES ASSUME FileInv, Next, journal = "blocked", meddles' = meddles
             PROVE  UNCHANGED <<journal, target, staged>>
  OBVIOUS
<1>1. ASSUME NEW p \in Process, Working(p) PROVE UNCHANGED <<journal, target, staged>>
  BY <1>1, SafeSteps DEF Safe, Respects
<1>2. ASSUME NEW p \in Process, Crash(p) PROVE UNCHANGED <<journal, target, staged>>
  BY <1>2 DEF Crash, disk
<1>3. meddles \in Nat
  BY BoundsAssumption DEF BoundsAssumption, FileInv, TypeOK
<1>4. \A f \in File : ~Meddle(f)
  BY <1>3 DEF Meddle
<1>5. ~SourceChanges
  BY <1>3 DEF SourceChanges
<1> QED BY <1>1, <1>2, <1>4, <1>5 DEF Next

\* A blocked journal and the files under it stay as they are, whoever runs whatever command.
THEOREM BlockedStays == Spec => BlockedIsInert
<1> QED BY FileInvariant, InertStep, PTL DEF Spec, BlockedIsInert

LEMMA KeepStep ==
  FileInv /\ [Next]_vars
    => [\A f \in File : target[f] = "orig" /\ target'[f] # "orig" /\ meddles' = meddles
                          => f \in backups \cup raced]_vars
<1> SUFFICES ASSUME FileInv, Next, NEW f \in File, target[f] = "orig", target'[f] # "orig",
                    meddles' = meddles
             PROVE  f \in backups \cup raced
  OBVIOUS
<1>1. ASSUME NEW p \in Process, Working(p) PROVE f \in backups \cup raced
  BY <1>1, SafeSteps DEF Safe, Spares
<1>2. \A p \in Process : ~Crash(p)
  BY DEF Crash, disk
<1>3. meddles \in Nat
  BY BoundsAssumption DEF BoundsAssumption, FileInv, TypeOK
<1>4. \A g \in File : ~Meddle(g)
  BY <1>3 DEF Meddle
<1>5. ~SourceChanges
  BY <1>3 DEF SourceChanges
<1> QED BY <1>1, <1>2, <1>4, <1>5 DEF Next

\* What a target held is backed up before Lando destroys it, unless the file was raced.
THEOREM PreImagesKept == Spec => PreImageKept
<1> QED BY FileInvariant, KeepStep, PTL DEF Spec, PreImageKept
-----------------------------------------------------------------------------
(* Nobody meddles: all or nothing.                                         *)

Building == {"backup", "stage"}
\* Steps on one entry, after its verification.
Mutating == {"armed", "renamed", "removed", "linked", "chmodded"}

Stageless == \A f \in File : staged[f] = "none"

\* Only entries that are written have a stage, and a created path was free.
Shape ==
  /\ dirty = {} /\ ~stale
  /\ \A f \in entries : Op[f] = "create" => f \notin had
  /\ \A f \in File : staged[f] # "alien"
  /\ \A f \in File : f \notin entries \/ Op[f] = "remove" => staged[f] = "none"

\* What the journal's state says of the files, whoever does or does not work on them.
JournalTells ==
  /\ journal # "blocked"
  /\ journal = "absent" => (\A f \in entries : IsBefore(f)) \/ (\A f \in entries : IsAfter(f))
  /\ journal = "absent" /\ lock = Nobody /\ crashes = 0 => Stageless
  /\ journal = "prepared" => \A f \in entries : Fits(f, "pending")
  /\ journal = "committing" => \A f \in entries : \E d \in Disposition : Fits(f, d)
  /\ journal = "committed" => \A f \in entries : Fits(f, "applied")

\* What a process knows while it prepares, and where the journal is when it commits.
StepTells(p) ==
  /\ pc[p] # "block"
  /\ pc[p] \in {"plan", "inspect"} /\ journal = "absent" /\ crashes = 0 => Stageless
  /\ pc[p] \in {"recover", "inspect"} => role[p] = "recover"
  /\ pc[p] \in Building =>
       /\ journal = "absent" /\ todo[p] \subseteq entries
       /\ \A f \in entries : IsBefore(f) /\ f \notin wide
  /\ pc[p] = "backup" => entries \cap had \subseteq backups \cup todo[p]
  /\ pc[p] = "stage" =>
       \A f \in entries : /\ BackupIntact(f)
                          /\ Op[f] # "remove" => f \in todo[p] \/ staged[f] = "stage"
                          /\ Op[f] = "remove" => f \notin todo[p]
  /\ pc[p] = "verify" => journal = "prepared"
  /\ pc[p] = "begin" =>
       journal \in IF role[p] = "run" THEN {"prepared"} ELSE {"prepared", "committing"}
  /\ pc[p] = "recheck" => journal = "committing" /\ \A f \in entries : Fits(f, "pending")
  /\ pc[p] = "preflight" => journal = "committing"
  /\ pc[p] \in {"cleanup", "retire"} => journal = "committed"

\* Where a process is in the list of entries: those behind it are applied, those ahead are as
\* it found them.
EntriesTell(p) ==
  /\ pc[p] \in {"apply"} \cup Mutating =>
       /\ journal = "committing" /\ todo[p] \subseteq entries
       /\ \A f \in entries \ todo[p] : Fits(f, "applied")
       /\ \A f \in todo[p] : pc[p] = "apply" \/ f # cur[p] => Fits(f, disp[p][f])

\* Where the last step left the entry under the hands of a process.
HandTells(p) ==
  /\ pc[p] \in Mutating => cur[p] \in todo[p] /\ (Op[cur[p]] # "create" => BackupIntact(cur[p]))
  /\ pc[p] = "armed" => Fits(cur[p], "pending")
  /\ pc[p] = "renamed" => /\ Op[cur[p]] = "write" /\ cur[p] \notin wide
                          /\ target[cur[p]] = "stage" /\ staged[cur[p]] = "none"
  /\ pc[p] = "removed" => Op[cur[p]] = "remove" /\ target[cur[p]] = "none"
  /\ pc[p] \in {"linked", "chmodded"} =>
       /\ Op[cur[p]] = "create" /\ Linked(cur[p])
       /\ cur[p] \in wide <=> pc[p] = "chmodded"

Calm == Shape /\ JournalTells /\ \A p \in Process : StepTells(p) /\ EntriesTell(p) /\ HandTells(p)

\* The invariant, for as long as nobody has meddled.
CalmInv == meddles = 0 => Calm

\* What is left alone reads the same after a step.
LEMMA SameFiles ==
  ASSUME UNCHANGED <<plan, disk>>
  PROVE  /\ \A f, d : Fits(f, d)' <=> Fits(f, d)
         /\ \A f : (IsBefore(f)' <=> IsBefore(f)) /\ (IsAfter(f)' <=> IsAfter(f))
         /\ \A f : (BackupIntact(f)' <=> BackupIntact(f)) /\ (Linked(f)' <=> Linked(f))
         /\ (Shape' <=> Shape) /\ (Stageless' <=> Stageless)
BY DEF plan, disk, Fits, IsBefore, IsAfter, BackupIntact, StageIntact, Linked, NeedsMode, Clean,
       Shape, Stageless

\* A step on one file leaves the dispositions of the others.
LEMMA OtherFiles ==
  ASSUME NEW c, UNCHANGED <<plan, dirty, backups>>,
         \A f \in File \ {c} : /\ target'[f] = target[f] /\ staged'[f] = staged[f]
                               /\ f \in wide' <=> f \in wide
  PROVE  \A f \in File \ {c}, d \in Disposition : Fits(f, d)' <=> Fits(f, d)
BY DEF plan, Fits, IsBefore, IsAfter, BackupIntact, StageIntact, Linked, NeedsMode, Clean

\* The dispositions, one by one, while no object is dirty.
LEMMA FitsPending ==
  ASSUME Shape, NEW f \in entries
  PROVE  Fits(f, "pending") <=>
           /\ Op[f] # "create" => BackupIntact(f)
           /\ IsBefore(f)
           /\ Op[f] # "remove" => staged[f] = "stage" /\ f \notin wide
BY DEF Shape, Fits, StageIntact, Clean

LEMMA FitsApplied ==
  ASSUME Shape, NEW f \in entries
  PROVE  Fits(f, "applied") <=>
           /\ Op[f] # "create" => BackupIntact(f)
           /\ staged[f] = "none"
           /\ IF Op[f] = "remove" THEN target[f] = "none"
                                  ELSE target[f] = "stage" /\ (NeedsMode(f) => f \in wide)
BY DEF Shape, Fits, IsAfter, Clean

LEMMA FitsOther ==
  ASSUME Shape, NEW f \in entries
  PROVE  /\ Fits(f, "needs-mode") <=>
              /\ Op[f] # "create" => BackupIntact(f)
              /\ NeedsMode(f) /\ f \notin wide /\ target[f] = "stage" /\ staged[f] = "none"
         /\ Fits(f, "linked") <=> Op[f] = "create" /\ Linked(f)
BY DEF Shape, Fits, Linked, Clean

\* A process works alone: the others keep their place, and without the lock it touches nothing.
Alone(p) ==
  /\ \A q \in Process \ {p} : /\ pc'[q] = pc[q] /\ role'[q] = role[q] /\ todo'[q] = todo[q]
                              /\ cur'[q] = cur[q] /\ disp'[q] = disp[q]
  /\ lock = p \/ UNCHANGED <<journal, plan, disk>>
  /\ UNCHANGED crashes

Kept(p) == /\ Alone(p) /\ Shape' /\ JournalTells'
           /\ StepTells(p)' /\ EntriesTell(p)' /\ HandTells(p)'

LEMMA OthersKeep ==
  ASSUME TypeOK, NEW p \in Process, NEW q \in Process \ {p}, Alone(p),
         StepTells(q), EntriesTell(q), HandTells(q)
  PROVE  StepTells(q)' /\ EntriesTell(q)' /\ HandTells(q)'
<1>1. CASE lock = p
  <2>1. pc[q] \in {"idle", "recover"}
    BY <1>1 DEF TypeOK
  <2> QED BY <2>1 DEF Alone, StepTells, EntriesTell, HandTells, Building, Mutating
<1>2. CASE UNCHANGED <<journal, plan, disk>>
  BY <1>2, SameFiles DEF Alone, StepTells, EntriesTell, HandTells, Building, Mutating, plan, disk
<1> QED BY <1>1, <1>2 DEF Alone

\* A step inside the list of entries: only the entry c changes, and it has a disposition.
LEMMA EntryStep ==
  ASSUME TypeOK, Calm, NEW p \in Process, lock = p, pc[p] \in {"apply"} \cup Mutating,
         NEW c \in todo[p], pc[p] = "apply" \/ c = cur[p],
         \A f \in File \ {c}, d \in Disposition : Fits(f, d)' <=> Fits(f, d),
         \E d \in Disposition : Fits(c, d)',
         UNCHANGED <<journal, plan, lock, role, disp, crashes>>,
         NEW step \in {"apply"} \cup Mutating, pc' = [pc EXCEPT ![p] = step],
         \/ /\ step = "apply" /\ todo' = [todo EXCEPT ![p] = @ \ {c}] /\ cur' = cur
            /\ Fits(c, "applied")'
         \/ step # "apply" /\ todo' = todo /\ cur' = [cur EXCEPT ![p] = c]
  PROVE  Alone(p) /\ JournalTells' /\ StepTells(p)' /\ EntriesTell(p)'
<1>0. /\ pc \in [Process -> Step] /\ todo \in [Process -> SUBSET File]
      /\ cur \in [Process -> File] /\ disp \in [Process -> [File -> Disposition]]
      /\ lock # Nobody /\ c \in File /\ entries \subseteq File
  BY NobodyAssumption DEF TypeOK, NobodyAssumption
<1>1. /\ journal = "committing" /\ todo[p] \subseteq entries
      /\ \A f \in entries \ todo[p] : Fits(f, "applied")
      /\ \A f \in todo[p] \ {c} : Fits(f, disp[p][f])
      /\ \A f \in entries : \E d \in Disposition : Fits(f, d)
  BY DEF Calm, EntriesTell, JournalTells
<1>2. pc'[p] = step /\ UNCHANGED <<entries, had>>
  BY <1>0 DEF plan
<1>3. Alone(p)
  BY <1>0 DEF Alone
<1>4. JournalTells'
  BY <1>0, <1>1, <1>2 DEF JournalTells
<1>5. StepTells(p)'
  BY <1>2 DEF StepTells, Building, Mutating
<1>6. EntriesTell(p)'
  <2>1. \A f \in File : disp[p][f] \in Disposition
    BY <1>0
  <2>2. "applied" \in Disposition
    BY DEF Disposition
  <2>3. CASE step = "apply"
    <3>1. todo'[p] = todo[p] \ {c}
      BY <1>0, <2>3
    <3> QED BY <1>0, <1>1, <1>2, <2>1, <2>2, <2>3, <3>1 DEF EntriesTell
  <2>4. CASE step # "apply"
    <3>1. todo'[p] = todo[p] /\ cur'[p] = c
      BY <1>0, <2>4
    <3> QED BY <1>0, <1>1, <1>2, <2>1, <2>2, <2>4, <3>1 DEF EntriesTell
  <2> QED BY <2>3, <2>4
<1> QED BY <1>3, <1>4, <1>5, <1>6

-----------------------------------------------------------------------------
(* Nobody meddles: the steps.                                              *)

\* A process that gives the lock back leaves only what the journal says.
LEMMA ReleaseKeeps ==
  ASSUME TypeOK, NEW p \in Process, lock = p, Release(p), Shape', JournalTells'
  PROVE  Kept(p)
<1>0. /\ pc \in [Process -> Step] /\ todo \in [Process -> SUBSET File]
      /\ disp \in [Process -> [File -> Disposition]]
  BY DEF TypeOK
<1>1. pc'[p] = "idle" /\ Alone(p)
  BY <1>0 DEF Release, Goto, Alone, spent
<1> QED
  BY <1>1 DEF Kept, StepTells, EntriesTell, HandTells, Building, Mutating

LEMMA PreparingKeeps ==
  ASSUME TypeOK, Calm, NEW p \in Process, Preparing(p)
  PROVE  Kept(p)
<1>0. /\ pc \in [Process -> Step] /\ role \in [Process -> {"run", "recover"}]
      /\ todo \in [Process -> SUBSET File] /\ entries \subseteq File /\ had \subseteq File
      /\ lock = p <=> pc[p] \notin {"idle", "recover"}
      /\ p # Nobody
  BY NobodyAssumption DEF TypeOK, NobodyAssumption
<1>t. target \in [File -> {"none", "orig", "stage", "alien"}]
      /\ staged \in [File -> {"none", "stage", "alien"}]
  BY DEF TypeOK
<1>h. ASSUME pc'[p] \in Building \cup {"plan", "verify"} PROVE EntriesTell(p)' /\ HandTells(p)'
  BY <1>h DEF EntriesTell, HandTells, Building, Mutating
<1>1. CASE Prepare(p)
  <2>1. /\ pc' = [pc EXCEPT ![p] = "plan"] /\ role' = [role EXCEPT ![p] = "run"]
        /\ lock = Nobody /\ lock' = p
        /\ UNCHANGED <<journal, plan, disk, todo, cur, disp, crashes>>
    BY <1>1 DEF Prepare, Goto
  <2>2. Alone(p) /\ pc'[p] = "plan"
    BY <1>0, <2>1 DEF Alone
  <2>3. Shape' /\ JournalTells'
    BY <1>0, <2>1, SameFiles DEF Calm, JournalTells, plan
  <2>4. StepTells(p)'
    BY <2>1, <2>2, SameFiles DEF Calm, JournalTells, StepTells, Building
  <2> QED BY <1>h, <2>2, <2>3, <2>4 DEF Kept
<1>2. CASE PlanRefused(p)
  <2>1. /\ pc[p] = "plan" /\ lock = p /\ lock' = Nobody
        /\ UNCHANGED <<journal, plan, disk, crashes>>
    BY <1>0, <1>2 DEF PlanRefused, Release, spent
  <2>2. Shape' /\ JournalTells'
    BY <2>1, SameFiles DEF Calm, JournalTells, StepTells, plan
  <2> QED BY <1>2, <2>1, <2>2, ReleaseKeeps DEF PlanRefused
<1>3. CASE Plan(p)
  <2>1. /\ pc' = [pc EXCEPT ![p] = "backup"] /\ lock = p /\ lock' = p
        /\ journal = "absent" /\ UNCHANGED <<journal, role, cur, disp, crashes>>
        /\ todo' = [todo EXCEPT ![p] = entries']
    BY <1>0, <1>3 DEF Plan, Goto, spent
  <2>2. /\ entries' \subseteq File /\ had' \subseteq entries'
        /\ \A f \in entries' : Op[f] = "create" => f \notin had'
        /\ \A f \in File : target'[f] = IF f \in had' THEN "orig" ELSE "none"
        /\ \A f \in File : staged'[f] = "none"
        /\ dirty' = {} /\ wide' = {} /\ ~stale'
    BY <1>3 DEF Plan
  <2>3. Alone(p) /\ pc'[p] = "backup" /\ todo'[p] = entries'
    BY <1>0, <2>1 DEF Alone
  <2>4. Shape'
    BY <2>2 DEF Shape
  <2>5. \A f \in entries' : IsBefore(f)'
    BY <2>2 DEF IsBefore, Clean
  <2>6. JournalTells'
    BY <1>0, <2>1, <2>5 DEF JournalTells
  <2>7. StepTells(p)'
    BY <2>1, <2>2, <2>3, <2>5 DEF StepTells, Building
  <2> QED BY <1>h, <2>3, <2>4, <2>6, <2>7 DEF Kept, Building
<1>4. CASE MakeBackup(p)
  <2>1. PICK f \in todo[p] \cap had :
          backups' = backups \cup {f} /\ todo' = [todo EXCEPT ![p] = @ \ {f}]
    BY <1>4 DEF MakeBackup
  <2>2. /\ pc[p] = "backup" /\ lock = p
        /\ UNCHANGED <<journal, plan, target, staged, dirty, wide, stale, lock, pc, role, cur, disp,
                       crashes>>
    BY <1>0, <1>4 DEF MakeBackup, spent
  <2>3. Alone(p) /\ pc'[p] = "backup" /\ todo'[p] = todo[p] \ {f}
    BY <1>0, <2>1, <2>2 DEF Alone
  <2>4. Shape' /\ (\A g : IsBefore(g)' <=> IsBefore(g))
    BY <2>2 DEF Calm, Shape, IsBefore, Clean, plan
  <2>5. journal = "absent" /\ \A g \in entries : IsBefore(g)
    BY <2>2 DEF Calm, StepTells, Building
  <2>6. JournalTells'
    BY <1>0, <2>2, <2>4, <2>5 DEF JournalTells, plan
  <2>7. StepTells(p)'
    BY <2>1, <2>2, <2>3, <2>4 DEF Calm, StepTells, Building, plan
  <2> QED BY <1>h, <2>3, <2>4, <2>6, <2>7 DEF Kept, Building
<1>5. CASE BackedUp(p)
  <2>1. /\ pc[p] = "backup" /\ todo[p] \cap had = {} /\ lock = p
        /\ todo' = [todo EXCEPT ![p] = {f \in entries : Op[f] # "remove"}]
        /\ pc' = [pc EXCEPT ![p] = "stage"]
        /\ UNCHANGED <<journal, plan, disk, lock, role, cur, disp, crashes>>
    BY <1>0, <1>5 DEF BackedUp, Goto, spent
  <2>2. /\ Alone(p) /\ pc'[p] = "stage"
        /\ todo'[p] = {f \in entries : Op[f] # "remove"}
    BY <1>0, <2>1 DEF Alone
  <2>3. Shape' /\ JournalTells'
    BY <1>0, <2>1, SameFiles DEF Calm, JournalTells, plan
  <2>4. \A f \in entries : BackupIntact(f)
    BY <2>1 DEF Calm, StepTells, BackupIntact
  <2>5. StepTells(p)'
    BY <2>1, <2>2, <2>4, SameFiles DEF Calm, StepTells, Building, plan, disk
  <2> QED BY <1>h, <2>2, <2>3, <2>5 DEF Kept, Building
<1>6. CASE MakeStage(p)
  <2>1. PICK f \in todo[p] :
          staged' = [staged EXCEPT ![f] = "stage"] /\ todo' = [todo EXCEPT ![p] = @ \ {f}]
    BY <1>6 DEF MakeStage
  <2>2. /\ pc[p] = "stage" /\ lock = p
        /\ UNCHANGED <<journal, plan, target, dirty, wide, backups, stale, lock, pc, role, cur, disp,
                       crashes>>
    BY <1>0, <1>6 DEF MakeStage, spent
  <2>3. Alone(p) /\ pc'[p] = "stage" /\ todo'[p] = todo[p] \ {f}
    BY <1>0, <2>1, <2>2 DEF Alone
  <2>4. /\ journal = "absent" /\ todo[p] \subseteq entries
        /\ \A g \in entries : IsBefore(g) /\ BackupIntact(g)
        /\ f \in entries /\ f \in File /\ Op[f] # "remove"
    BY <1>0, <2>2 DEF Calm, StepTells, Building
  <2>5. Shape'
    BY <1>t, <2>1, <2>2, <2>4 DEF Calm, Shape, plan
  <2>6. \A g : (IsBefore(g)' <=> IsBefore(g)) /\ (BackupIntact(g)' <=> BackupIntact(g))
    BY <2>2 DEF IsBefore, BackupIntact, Clean, plan
  <2>7. JournalTells'
    BY <1>0, <2>2, <2>4, <2>6 DEF JournalTells, plan
  <2>8. StepTells(p)'
    BY <1>0, <1>t, <2>1, <2>2, <2>3, <2>4, <2>6 DEF Calm, StepTells, Building, plan
  <2> QED BY <1>h, <2>3, <2>5, <2>7, <2>8 DEF Kept, Building
<1>7. CASE JournalPrepared(p)
  <2>1. /\ pc[p] = "stage" /\ todo[p] = {} /\ lock = p
        /\ journal' = "prepared" /\ pc' = [pc EXCEPT ![p] = "verify"]
        /\ UNCHANGED <<plan, disk, lock, role, todo, cur, disp, crashes>>
    BY <1>0, <1>7 DEF JournalPrepared, Goto, spent
  <2>2. Alone(p) /\ pc'[p] = "verify"
    BY <1>0, <2>1 DEF Alone
  <2>3. \A f \in entries : Fits(f, "pending")
    BY <2>1, FitsPending DEF Calm, StepTells, Building
  <2>4. Shape' /\ JournalTells'
    BY <2>1, <2>3, SameFiles DEF Calm, JournalTells, plan
  <2>5. StepTells(p)'
    BY <2>1, <2>2 DEF StepTells, Building
  <2> QED BY <1>h, <2>2, <2>4, <2>5 DEF Kept
<1>8. CASE PrepareFails(p)
  <2>1. /\ pc[p] \in Building /\ lock = p /\ lock' = Nobody
        /\ staged' = WithoutOwnStages
        /\ UNCHANGED <<journal, plan, target, dirty, wide, backups, stale, crashes>>
    BY <1>0, <1>8 DEF PrepareFails, Release, spent, Building
  <2>2. /\ journal = "absent" /\ \A f \in entries : IsBefore(f)
    BY <2>1 DEF Calm, StepTells
  <2>3. Stageless'
    BY <1>t, <2>1, <2>2 DEF Calm, Shape, WithoutOwnStages, StageIntact, Linked, IsBefore, Clean,
                           Stageless
  <2>4. Shape'
    BY <2>1, <2>3 DEF Calm, Shape, Stageless, plan
  <2>5. \A f \in entries' : IsBefore(f)'
    BY <2>1, <2>2 DEF IsBefore, Clean, plan
  <2>6. JournalTells'
    BY <2>1, <2>2, <2>3, <2>5 DEF JournalTells
  <2> QED BY <1>8, <2>1, <2>4, <2>6, ReleaseKeeps DEF PrepareFails
<1> QED BY <1>1, <1>2, <1>3, <1>4, <1>5, <1>6, <1>7, <1>8 DEF Preparing

LEMMA CommittingKeeps ==
  ASSUME TypeOK, Calm, NEW p \in Process, Committing(p)
  PROVE  Kept(p)
<1>0. /\ pc \in [Process -> Step] /\ role \in [Process -> {"run", "recover"}]
      /\ todo \in [Process -> SUBSET File] /\ entries \subseteq File
      /\ disp \in [Process -> [File -> Disposition]]
      /\ lock = p <=> pc[p] \notin {"idle", "recover"}
      /\ p # Nobody
  BY NobodyAssumption DEF TypeOK, NobodyAssumption
<1>h. ASSUME pc'[p] \in {"begin", "recheck", "preflight"} PROVE EntriesTell(p)' /\ HandTells(p)'
  BY <1>h DEF EntriesTell, HandTells, Mutating
<1>1. CASE CommitVerify(p)
  <2>1. journal = "prepared" /\ pc[p] = "verify"
    BY <1>1 DEF CommitVerify, Calm, StepTells
  <2>2. ~stale /\ \A f \in entries : IsBefore(f) /\ BackupIntact(f)
    BY <2>1, FitsPending DEF Calm, JournalTells, Shape, BackupIntact
  <2>3. /\ pc' = [pc EXCEPT ![p] = "begin"] /\ lock = p
        /\ UNCHANGED <<journal, plan, disk, lock, role, todo, cur, disp, crashes>>
    BY <1>0, <1>1, <2>2 DEF CommitVerify, Goto, spent
  <2>4. Alone(p) /\ pc'[p] = "begin"
    BY <1>0, <2>3 DEF Alone
  <2>5. Shape' /\ JournalTells'
    BY <2>1, <2>3, SameFiles DEF Calm, JournalTells, plan
  <2>6. StepTells(p)'
    BY <2>1, <2>3, <2>4 DEF StepTells, Building
  <2> QED BY <1>h, <2>4, <2>5, <2>6 DEF Kept
<1>2. CASE BeginCommit(p)
  <2> DEFINE next == IF role[p] = "run" THEN "recheck" ELSE "preflight"
  <2>1. /\ pc[p] = "begin" /\ lock = p /\ pc' = [pc EXCEPT ![p] = next]
        /\ journal \in {"prepared", "committing"} /\ journal' = "committing"
        /\ UNCHANGED <<plan, disk, lock, role, todo, cur, disp, crashes>>
    BY <1>0, <1>2 DEF BeginCommit, Goto, spent
  <2>2. Alone(p) /\ pc'[p] = next
    BY <1>0, <2>1 DEF Alone
  <2>3. Shape' /\ JournalTells'
    BY <2>1, SameFiles DEF Calm, JournalTells, Disposition, plan
  <2>4. role[p] = "run" => \A f \in entries : Fits(f, "pending")
    BY <2>1 DEF Calm, StepTells, JournalTells
  <2>5. StepTells(p)'
    BY <2>1, <2>2, <2>4, SameFiles DEF StepTells, Building, plan
  <2> QED BY <1>h, <2>2, <2>3, <2>5 DEF Kept
<1>3. CASE CommitRecheck(p)
  <2>1. /\ pc[p] = "recheck" /\ journal = "committing" /\ ~stale
        /\ \A f \in entries : Fits(f, "pending")
    BY <1>3 DEF CommitRecheck, Calm, StepTells, Shape
  <2>2. /\ lock = p /\ pc' = [pc EXCEPT ![p] = "apply"]
        /\ todo' = [todo EXCEPT ![p] = entries]
        /\ disp' = [disp EXCEPT ![p] = [f \in File |-> "pending"]]
        /\ UNCHANGED <<journal, plan, disk, lock, role, cur, crashes>>
    BY <1>0, <1>3, <2>1 DEF CommitRecheck, Goto, spent
  <2>3. /\ Alone(p) /\ pc'[p] = "apply" /\ todo'[p] = entries
        /\ \A f \in File : disp'[p][f] = "pending"
    BY <1>0, <2>2 DEF Alone
  <2>4. Shape' /\ JournalTells'
    BY <2>1, <2>2, SameFiles DEF Calm, JournalTells, plan
  <2>5. StepTells(p)' /\ HandTells(p)'
    BY <2>3 DEF StepTells, HandTells, Building, Mutating
  <2>6. EntriesTell(p)'
    BY <1>0, <2>1, <2>2, <2>3, SameFiles DEF EntriesTell, plan
  <2> QED BY <2>3, <2>4, <2>5, <2>6 DEF Kept
<1> QED BY <1>1, <1>2, <1>3 DEF Committing

LEMMA RecoveringKeeps ==
  ASSUME TypeOK, Calm, NEW p \in Process, Recovering(p)
  PROVE  Kept(p)
<1>0. /\ pc \in [Process -> Step] /\ role \in [Process -> {"run", "recover"}]
      /\ todo \in [Process -> SUBSET File] /\ entries \subseteq File
      /\ disp \in [Process -> [File -> Disposition]]
      /\ lock = p <=> pc[p] \notin {"idle", "recover"}
      /\ p # Nobody
  BY NobodyAssumption DEF TypeOK, NobodyAssumption
<1>h. ASSUME pc'[p] \in {"recover", "inspect", "begin", "cleanup"}
      PROVE  EntriesTell(p)' /\ HandTells(p)'
  BY <1>h DEF EntriesTell, HandTells, Mutating
<1>1. CASE Peek(p)
  <2>1. /\ pc' = [pc EXCEPT ![p] = "recover"] /\ role' = [role EXCEPT ![p] = "recover"]
        /\ UNCHANGED <<journal, plan, disk, lock, todo, cur, disp, crashes>>
    BY <1>1 DEF Peek, Goto, spent
  <2>2. Alone(p) /\ pc'[p] = "recover" /\ role'[p] = "recover"
    BY <1>0, <2>1 DEF Alone
  <2>3. Shape' /\ JournalTells'
    BY <2>1, SameFiles DEF Calm, JournalTells, plan
  <2>4. StepTells(p)'
    BY <2>2 DEF StepTells, Building
  <2> QED BY <1>h, <2>2, <2>3, <2>4 DEF Kept
<1>2. CASE LockForRecovery(p)
  <2>1. /\ pc[p] = "recover" /\ pc' = [pc EXCEPT ![p] = "inspect"]
        /\ lock = Nobody /\ lock' = p
        /\ UNCHANGED <<journal, plan, disk, role, todo, cur, disp, crashes>>
    BY <1>2 DEF LockForRecovery, Goto, spent
  <2>2. Alone(p) /\ pc'[p] = "inspect"
    BY <1>0, <2>1 DEF Alone
  <2>3. Shape' /\ JournalTells'
    BY <1>0, <2>1, SameFiles DEF Calm, JournalTells, plan
  <2>4. StepTells(p)'
    BY <2>1, <2>2, SameFiles DEF Calm, JournalTells, StepTells, Building
  <2> QED BY <1>h, <2>2, <2>3, <2>4 DEF Kept
<1>3. CASE RecoverReturns(p)
  <2>1. /\ pc[p] = "inspect" /\ lock = p /\ lock' = Nobody
        /\ UNCHANGED <<journal, plan, disk, crashes>>
    BY <1>0, <1>3 DEF RecoverReturns, Release, spent
  <2>2. Shape' /\ JournalTells'
    BY <2>1, SameFiles DEF Calm, JournalTells, StepTells, plan
  <2> QED BY <1>3, <2>1, <2>2, ReleaseKeeps DEF RecoverReturns
<1>4. CASE RecoverResumes(p)
  <2> DEFINE next == IF journal = "committed" THEN "cleanup" ELSE "begin"
  <2>1. /\ pc[p] = "inspect" /\ lock = p /\ pc' = [pc EXCEPT ![p] = next]
        /\ journal \in {"prepared", "committing", "committed"}
        /\ UNCHANGED <<journal, plan, disk, lock, role, todo, cur, disp, crashes>>
    BY <1>0, <1>4 DEF RecoverResumes, Goto, spent
  <2>2. Alone(p) /\ pc'[p] = next
    BY <1>0, <2>1 DEF Alone
  <2>3. Shape' /\ JournalTells'
    BY <2>1, SameFiles DEF Calm, JournalTells, plan
  <2>4. StepTells(p)'
    BY <2>1, <2>2 DEF Calm, StepTells, Building
  <2> QED BY <1>h, <2>2, <2>3, <2>4 DEF Kept
<1>5. CASE Preflight(p)
  <2>1. /\ pc[p] = "preflight" /\ journal = "committing"
        /\ \A f \in entries : \E d \in Disposition : Fits(f, d)
    BY <1>5 DEF Preflight, Calm, StepTells, JournalTells
  <2>2. /\ lock = p /\ pc' = [pc EXCEPT ![p] = "apply"]
        /\ todo' = [todo EXCEPT ![p] = entries]
        /\ disp' = [disp EXCEPT ![p] = [f \in File |-> IF f \in entries
                                          THEN CHOOSE d \in Disposition : Fits(f, d)
                                          ELSE "applied"]]
        /\ UNCHANGED <<journal, plan, disk, lock, role, cur, crashes>>
    BY <1>0, <1>5, <2>1 DEF Preflight, Goto, spent
  <2>3. /\ Alone(p) /\ pc'[p] = "apply" /\ todo'[p] = entries
        /\ \A f \in entries : disp'[p][f] = CHOOSE d \in Disposition : Fits(f, d)
    BY <1>0, <2>2 DEF Alone
  <2>4. Shape' /\ JournalTells'
    BY <2>1, <2>2, SameFiles DEF Calm, JournalTells, plan
  <2>5. StepTells(p)' /\ HandTells(p)'
    BY <2>3 DEF StepTells, HandTells, Building, Mutating
  <2>6. \A f \in entries : Fits(f, disp'[p][f])
    BY <2>1, <2>3
  <2>7. EntriesTell(p)'
    BY <2>1, <2>2, <2>3, <2>6, SameFiles DEF EntriesTell, plan
  <2> QED BY <2>3, <2>4, <2>5, <2>7 DEF Kept
<1>6. ~Block(p)
  BY DEF Block, Calm, StepTells
<1> QED BY <1>1, <1>2, <1>3, <1>4, <1>5, <1>6 DEF Recovering

LEMMA CompletingKeeps ==
  ASSUME TypeOK, Calm, NEW p \in Process, Completing(p)
  PROVE  Kept(p)
<1>0. /\ pc \in [Process -> Step] /\ entries \subseteq File
      /\ lock = p <=> pc[p] \notin {"idle", "recover"}
      /\ p # Nobody
  BY NobodyAssumption DEF TypeOK, NobodyAssumption
<1>h. ASSUME pc'[p] \in {"cleanup", "retire"}, journal' = "committed"
      PROVE  StepTells(p)' /\ EntriesTell(p)' /\ HandTells(p)'
  BY <1>h DEF StepTells, EntriesTell, HandTells, Building, Mutating
<1>1. CASE FinishCommit(p)
  <2>1. /\ pc[p] = "apply" /\ lock = p /\ todo[p] = {} /\ journal' = "committed"
        /\ pc' = [pc EXCEPT ![p] = "cleanup"]
        /\ UNCHANGED <<plan, disk, lock, role, todo, cur, disp, crashes>>
    BY <1>0, <1>1 DEF FinishCommit, Goto, spent
  <2>2. Alone(p) /\ pc'[p] = "cleanup"
    BY <1>0, <2>1 DEF Alone
  <2>3. \A f \in entries : Fits(f, "applied")
    BY <2>1 DEF Calm, EntriesTell
  <2>4. Shape' /\ JournalTells'
    BY <2>1, <2>3, SameFiles DEF Calm, JournalTells, plan
  <2> QED BY <1>h, <2>1, <2>2, <2>4 DEF Kept
<1>2. CASE CleanupStages(p)
  <2>1. /\ pc[p] = "cleanup" /\ lock = p /\ staged' = WithoutOwnStages
        /\ pc' = [pc EXCEPT ![p] = "retire"]
        /\ UNCHANGED <<journal, plan, target, dirty, wide, backups, stale, lock, role, todo, cur,
                       disp, crashes>>
    BY <1>0, <1>2 DEF CleanupStages, Goto, spent
  <2>2. Alone(p) /\ pc'[p] = "retire"
    BY <1>0, <2>1 DEF Alone
  <2>3. journal = "committed" /\ \A f \in entries : Fits(f, "applied")
    BY <2>1 DEF Calm, StepTells, JournalTells
  <2>4. Stageless /\ staged' = staged
    <3>1. Stageless
      BY <2>3, FitsApplied DEF Calm, Shape, Stageless
    <3>2. staged \in [File -> {"none", "stage", "alien"}]
      BY DEF TypeOK
    <3> QED BY <2>1, <3>1, <3>2 DEF Stageless, WithoutOwnStages
  <2>5. Shape' /\ JournalTells'
    BY <2>1, <2>3, <2>4, SameFiles DEF Calm, JournalTells, plan, disk
  <2> QED BY <1>h, <2>1, <2>2, <2>3, <2>5 DEF Kept
<1>3. CASE RemoveCommitted(p)
  <2>1. /\ pc[p] = "retire" /\ lock = p /\ lock' = Nobody /\ journal' = "absent"
        /\ UNCHANGED <<plan, disk, crashes>>
    BY <1>0, <1>3 DEF RemoveCommitted, Release, spent
  <2>2. \A f \in entries : Fits(f, "applied")
    BY <2>1 DEF Calm, StepTells, JournalTells
  <2>3. (\A f \in entries : IsAfter(f)) /\ Stageless
    BY <2>2, FitsApplied DEF Calm, Shape, Stageless, IsAfter, Clean
  <2>4. Shape' /\ JournalTells'
    BY <2>1, <2>3, SameFiles DEF Calm, JournalTells, plan
  <2> QED BY <1>3, <2>1, <2>4, ReleaseKeeps DEF RemoveCommitted
<1> QED BY <1>1, <1>2, <1>3 DEF Completing

\* A process that ends an entry: the rest is as before, and the entry is applied.
LEMMA DoneKeeps ==
  ASSUME TypeOK, Calm, NEW p \in Process, lock = p, pc[p] \in {"apply"} \cup Mutating,
         NEW c \in todo[p], pc[p] = "apply" \/ c = cur[p], Done(p, c),
         UNCHANGED <<plan, dirty, backups>>,
         \A f \in File \ {c} : /\ target'[f] = target[f] /\ staged'[f] = staged[f]
                               /\ f \in wide' <=> f \in wide,
         Fits(c, "applied")', Shape',
         UNCHANGED <<journal, lock, role, cur, disp, crashes>>
  PROVE  Kept(p)
<1>1. \A f \in File \ {c}, d \in Disposition : Fits(f, d)' <=> Fits(f, d)
  BY OtherFiles
<1>2. /\ pc' = [pc EXCEPT ![p] = "apply"] /\ todo' = [todo EXCEPT ![p] = @ \ {c}]
      /\ \E d \in Disposition : Fits(c, d)'
  BY DEF Done, Goto, Disposition
<1>3. Alone(p) /\ JournalTells' /\ StepTells(p)' /\ EntriesTell(p)'
  BY <1>1, <1>2, EntryStep
<1>4. pc'[p] = "apply"
  BY <1>2 DEF TypeOK
<1>5. HandTells(p)'
  BY <1>4 DEF HandTells, Mutating
<1> QED BY <1>3, <1>5 DEF Kept

\* A process that goes on with an entry, to its next step on it.
LEMMA HandKeeps ==
  ASSUME TypeOK, Calm, NEW p \in Process, lock = p, pc[p] \in {"apply"} \cup Mutating,
         NEW c \in todo[p], pc[p] = "apply" \/ c = cur[p],
         UNCHANGED <<plan, dirty, backups>>,
         \A f \in File \ {c} : /\ target'[f] = target[f] /\ staged'[f] = staged[f]
                               /\ f \in wide' <=> f \in wide,
         NEW d \in Disposition, Fits(c, d)', Shape',
         NEW step \in Mutating, pc' = [pc EXCEPT ![p] = step],
         cur' = [cur EXCEPT ![p] = c],
         UNCHANGED <<journal, lock, role, todo, disp, crashes>>,
         pc'[p] = step /\ cur'[p] = c => HandTells(p)'
  PROVE  Kept(p)
<1>1. \A f \in File \ {c}, e \in Disposition : Fits(f, e)' <=> Fits(f, e)
  BY OtherFiles
<1>2. step # "apply" /\ step \in {"apply"} \cup Mutating
  BY DEF Mutating
<1>3. Alone(p) /\ JournalTells' /\ StepTells(p)' /\ EntriesTell(p)'
  BY <1>1, <1>2, EntryStep
<1>4. pc'[p] = step /\ cur'[p] = c
  BY DEF TypeOK
<1> QED BY <1>3, <1>4 DEF Kept

\* What a process finds at the entry it works on.
LEMMA AtEntry ==
  ASSUME TypeOK, Calm, NEW p \in Process, pc[p] \in {"apply"} \cup Mutating
  PROVE  /\ lock = p /\ journal = "committing" /\ todo[p] \subseteq entries
         /\ entries \subseteq File
         /\ pc[p] = "apply" => \A f \in todo[p] : Fits(f, disp[p][f])
         /\ pc[p] # "apply" => cur[p] \in todo[p]
  BY DEF TypeOK, Calm, EntriesTell, HandTells, Mutating

\* A step that finds a path gone ends the command and leaves the journal as it is.
LEMMA VanishedKeeps ==
  ASSUME TypeOK, Calm, NEW p \in Process, PathVanished(p)
  PROVE  Kept(p)
<1>1. pc[p] \in {"apply"} \cup Mutating
  BY DEF PathVanished, Turn, Mutating
<1>2. lock = p /\ journal = "committing" /\ Release(p) /\ UNCHANGED <<journal, plan, disk, crashes>>
  BY <1>1, AtEntry DEF PathVanished, Release, spent
<1>3. Shape' /\ JournalTells'
  BY <1>2, SameFiles DEF Calm, JournalTells, plan
<1> QED BY <1>2, <1>3, ReleaseKeeps

LEMMA ChoosingKeeps ==
  ASSUME TypeOK, Calm, NEW p \in Process, NEW f \in File,
         \/ VerifyEntry(p, f) \/ SkipApplied(p, f)
         \/ FinishAppliedMode(p, f) \/ FinishLinkedCreate(p, f)
  PROVE  Kept(p)
<1>0. /\ pc[p] = "apply" /\ f \in todo[p]
  BY DEF VerifyEntry, SkipApplied, FinishAppliedMode, FinishLinkedCreate, Turn
<1>1. /\ lock = p /\ journal = "committing" /\ todo[p] \subseteq entries /\ f \in entries
      /\ Fits(f, disp[p][f]) /\ Shape
  BY <1>0, AtEntry DEF Calm
<1>2. "applied" \in Disposition /\ "pending" \in Disposition /\ "linked" \in Disposition
  BY DEF Disposition
<1>3. CASE VerifyEntry(p, f)
  <2>1. /\ Op[f] # "create" => BackupIntact(f)
        /\ Fits(f, "pending")
        /\ Verified(f)
    BY <1>1, <1>3, FitsPending DEF VerifyEntry, Verified, StageIntact, Clean, Shape
  <2>2. /\ cur' = [cur EXCEPT ![p] = f] /\ pc' = [pc EXCEPT ![p] = "armed"]
        /\ UNCHANGED <<journal, plan, disk, lock, role, todo, disp, crashes>>
    BY <1>3, <2>1 DEF VerifyEntry, Goto, spent
  <2>3. Shape' /\ Fits(f, "pending")' /\ (BackupIntact(f)' <=> BackupIntact(f))
    BY <1>1, <2>1, <2>2, SameFiles DEF plan, disk
  <2>4. pc'[p] = "armed" /\ cur'[p] = f => HandTells(p)'
    BY <1>0, <2>1, <2>2, <2>3 DEF HandTells, Mutating
  <2> QED BY <1>0, <1>1, <1>2, <2>2, <2>3, <2>4, HandKeeps DEF Mutating, disk
<1>4. CASE SkipApplied(p, f)
  <2>1. /\ Fits(f, "applied") /\ Done(p, f)
        /\ UNCHANGED <<journal, plan, disk, lock, role, cur, disp, crashes>>
    BY <1>1, <1>4 DEF SkipApplied, spent
  <2>2. Shape' /\ Fits(f, "applied")'
    BY <1>1, <2>1, SameFiles DEF plan, disk
  <2> QED BY <1>0, <1>1, <2>1, <2>2, DoneKeeps DEF disk
<1>5. CASE FinishAppliedMode(p, f)
  <2>1. Fits(f, "needs-mode") /\ target[f] = "stage" /\ Clean(f, "stage")
    BY <1>1, <1>5, FitsOther DEF FinishAppliedMode, Shape, Clean
  <2>2. /\ Done(p, f) /\ wide' = wide \cup {f}
        /\ UNCHANGED <<journal, plan, target, staged, dirty, backups, stale, lock, role, cur, disp,
                       crashes>>
    BY <1>5, <2>1 DEF FinishAppliedMode, spent
  <2>3. Shape'
    BY <1>1, <2>2 DEF Shape, plan
  <2>4. Fits(f, "applied")'
    BY <1>1, <2>1, <2>2, FitsOther DEF Fits, IsAfter, BackupIntact, NeedsMode, Clean, plan
  <2> QED BY <1>0, <1>1, <2>2, <2>3, <2>4, DoneKeeps
<1>6. CASE FinishLinkedCreate(p, f)
  <2> DEFINE next == IF f \in wide THEN "chmodded" ELSE "linked"
  <2>1. Fits(f, "linked") /\ Op[f] = "create" /\ Linked(f) /\ Clean(f, "stage")
    BY <1>1, <1>6, FitsOther DEF FinishLinkedCreate, Shape, Clean
  <2>2. /\ cur' = [cur EXCEPT ![p] = f] /\ pc' = [pc EXCEPT ![p] = next]
        /\ UNCHANGED <<journal, plan, disk, lock, role, todo, disp, crashes>>
    BY <1>6, <2>1 DEF FinishLinkedCreate, Goto, spent
  <2>3. Shape' /\ Fits(f, "linked")' /\ Linked(f)'
    BY <1>1, <2>1, <2>2, SameFiles DEF plan, disk
  <2>4. pc'[p] = next /\ cur'[p] = f => HandTells(p)'
    BY <1>0, <2>1, <2>2, <2>3 DEF HandTells, Mutating, disk
  <2>5. next \in Mutating
    BY DEF Mutating
  <2> QED BY <1>0, <1>1, <1>2, <2>2, <2>3, <2>4, <2>5, HandKeeps DEF disk
<1> QED BY <1>3, <1>4, <1>5, <1>6

LEMMA MutatingKeeps ==
  ASSUME TypeOK, Calm, NEW p \in Process, NEW c, c = cur[p],
         \/ RenameStage(p) \/ FinishRename(p) \/ UnlinkTarget(p) \/ FinishRemove(p)
         \/ LinkStage(p) \/ ChmodLinked(p) \/ UnlinkOwnedStage(p)
  PROVE  Kept(p)
<1>0. pc[p] \in Mutating
  BY DEF RenameStage, FinishRename, UnlinkTarget, FinishRemove, LinkStage, ChmodLinked,
         UnlinkOwnedStage, Mutating
<1>1. /\ lock = p /\ journal = "committing" /\ todo[p] \subseteq entries /\ c \in todo[p]
      /\ c \in entries /\ c \in File /\ Shape /\ HandTells(p)
      /\ Op[c] # "create" => BackupIntact(c)
  BY <1>0, AtEntry DEF Calm, HandTells, Mutating
<1>2. /\ "applied" \in Disposition /\ "needs-mode" \in Disposition /\ "linked" \in Disposition
      /\ cur = [cur EXCEPT ![p] = c]
      /\ target \in [File -> {"none", "orig", "stage", "alien"}]
      /\ staged \in [File -> {"none", "stage", "alien"}]
  BY DEF Disposition, TypeOK
<1>3. CASE RenameStage(p)
  <2>1. /\ Fits(c, "pending") /\ Op[c] = "write" /\ staged[c] = "stage" /\ c \notin wide
        /\ BackupIntact(c)
    BY <1>1, <1>3, FitsPending DEF RenameStage, HandTells
  <2>2. /\ target' = [target EXCEPT ![c] = "stage"] /\ staged' = [staged EXCEPT ![c] = "none"]
        /\ pc' = [pc EXCEPT ![p] = "renamed"]
        /\ UNCHANGED <<journal, plan, dirty, wide, backups, stale, lock, role, todo, cur, disp,
                       crashes>>
    BY <1>3, <2>1 DEF RenameStage, Goto, spent
  <2>3. Shape'
    BY <1>1, <1>2, <2>2 DEF Shape, plan
  <2>4. /\ target'[c] = "stage" /\ staged'[c] = "none" /\ c \notin wide' /\ BackupIntact(c)'
        /\ c \in entries'
    BY <1>1, <1>2, <2>1, <2>2 DEF BackupIntact, plan
  <2>5. \E d \in Disposition : Fits(c, d)'
    <3>1. CASE NeedsMode(c)'
      <4>1. Fits(c, "needs-mode")'
        BY <2>1, <2>3, <2>4, <3>1 DEF Fits, Clean, Shape
      <4> QED BY <1>2, <4>1
    <3>2. CASE ~NeedsMode(c)'
      <4>1. Fits(c, "applied")'
        BY <2>1, <2>3, <2>4, <3>2 DEF Fits, IsAfter, Clean, Shape
      <4> QED BY <1>2, <4>1
    <3> QED BY <3>1, <3>2
  <2>6. pc'[p] = "renamed" /\ cur'[p] = c => HandTells(p)'
    BY <1>1, <2>1, <2>2, <2>4 DEF HandTells, Mutating
  <2>7. \A f \in File \ {c} : /\ target'[f] = target[f] /\ staged'[f] = staged[f]
                              /\ f \in wide' <=> f \in wide
    BY <1>2, <2>2
  <2>8. PICK d \in Disposition : Fits(c, d)'
    BY <2>5
  <2> QED BY <1>0, <1>1, <1>2, <2>2, <2>3, <2>6, <2>7, <2>8, HandKeeps DEF Mutating
<1>4. CASE FinishRename(p)
  <2>1. /\ Op[c] = "write" /\ target[c] = "stage" /\ staged[c] = "none" /\ Clean(c, "stage")
        /\ BackupIntact(c)
    BY <1>1, <1>4 DEF FinishRename, HandTells, Shape, Clean
  <2>2. /\ Done(p, c) /\ wide' = IF NeedsMode(c) THEN wide \cup {c} ELSE wide
        /\ UNCHANGED <<journal, plan, target, staged, dirty, backups, stale, lock, role, cur, disp,
                       crashes>>
    BY <1>4, <2>1 DEF FinishRename, spent
  <2>3. Shape'
    BY <1>1, <2>2 DEF Shape, plan
  <2>4. Fits(c, "applied")'
    BY <1>1, <2>1, <2>2 DEF Fits, IsAfter, BackupIntact, NeedsMode, Clean, plan
  <2> QED BY <1>0, <1>1, <2>2, <2>3, <2>4, DoneKeeps
<1>5. CASE UnlinkTarget(p)
  <2>1. Op[c] = "remove" /\ BackupIntact(c) /\ staged[c] = "none"
    BY <1>1, <1>5 DEF UnlinkTarget, Shape
  <2>2. /\ target' = [target EXCEPT ![c] = "none"] /\ pc' = [pc EXCEPT ![p] = "removed"]
        /\ UNCHANGED <<journal, plan, staged, dirty, wide, backups, stale, lock, role, todo, cur,
                       disp, crashes>>
    BY <1>5 DEF UnlinkTarget, Goto, spent
  <2>3. Shape'
    BY <1>1, <2>2 DEF Shape, plan
  <2>4. target'[c] = "none" /\ BackupIntact(c)'
    BY <1>1, <1>2, <2>1, <2>2 DEF BackupIntact, plan
  <2>5. Fits(c, "applied")'
    BY <2>1, <2>2, <2>4 DEF Fits, IsAfter
  <2>6. pc'[p] = "removed" /\ cur'[p] = c => HandTells(p)'
    BY <1>1, <2>1, <2>2, <2>4 DEF HandTells, Mutating
  <2>7. \A f \in File \ {c} : /\ target'[f] = target[f] /\ staged'[f] = staged[f]
                              /\ f \in wide' <=> f \in wide
    BY <1>2, <2>2
  <2> QED BY <1>0, <1>1, <1>2, <2>2, <2>3, <2>5, <2>6, <2>7, HandKeeps DEF Mutating
<1>6. CASE FinishRemove(p)
  <2>1. Op[c] = "remove" /\ target[c] = "none" /\ BackupIntact(c) /\ staged[c] = "none"
    BY <1>1, <1>6 DEF FinishRemove, HandTells, Shape
  <2>2. Done(p, c) /\ UNCHANGED <<journal, plan, disk, lock, role, cur, disp, crashes>>
    BY <1>6, <2>1 DEF FinishRemove, IsAfter, spent
  <2>3. Shape' /\ Fits(c, "applied")'
    BY <1>1, <2>1, <2>2, SameFiles, FitsApplied DEF plan, disk
  <2> QED BY <1>0, <1>1, <2>2, <2>3, DoneKeeps DEF disk
<1>7. CASE LinkStage(p)
  <2>1. /\ Fits(c, "pending") /\ Op[c] = "create" /\ staged[c] = "stage" /\ c \notin wide
        /\ target[c] = "none"
    BY <1>1, <1>7, FitsPending DEF LinkStage, HandTells, Shape, IsBefore
  <2>2. /\ target' = [target EXCEPT ![c] = "stage"] /\ pc' = [pc EXCEPT ![p] = "linked"]
        /\ UNCHANGED <<journal, plan, staged, dirty, wide, backups, stale, lock, role, todo, cur,
                       disp, crashes>>
    BY <1>7, <2>1 DEF LinkStage, Goto, spent
  <2>3. Shape'
    BY <1>1, <2>2 DEF Shape, plan
  <2>4. Linked(c)' /\ c \notin wide'
    BY <1>1, <1>2, <2>1, <2>2 DEF Linked
  <2>5. Fits(c, "linked")'
    BY <2>1, <2>3, <2>4 DEF Fits, Clean, Shape
  <2>6. pc'[p] = "linked" /\ cur'[p] = c => HandTells(p)'
    BY <1>1, <2>1, <2>2, <2>4 DEF HandTells, Mutating
  <2>7. \A f \in File \ {c} : /\ target'[f] = target[f] /\ staged'[f] = staged[f]
                              /\ f \in wide' <=> f \in wide
    BY <1>2, <2>2
  <2> QED BY <1>0, <1>1, <1>2, <2>2, <2>3, <2>5, <2>6, <2>7, HandKeeps DEF Mutating
<1>8. CASE ChmodLinked(p)
  <2>1. Op[c] = "create" /\ Linked(c)
    BY <1>1, <1>8 DEF ChmodLinked, HandTells
  <2>2. /\ wide' = wide \cup {c} /\ pc' = [pc EXCEPT ![p] = "chmodded"]
        /\ UNCHANGED <<journal, plan, target, staged, dirty, backups, stale, lock, role, todo, cur,
                       disp, crashes>>
    BY <1>8, <2>1 DEF ChmodLinked, Goto, spent
  <2>3. Shape' /\ Linked(c)'
    BY <1>1, <2>1, <2>2 DEF Shape, Linked, plan
  <2>4. Fits(c, "linked")'
    BY <2>1, <2>3 DEF Fits, Clean, Shape
  <2>5. pc'[p] = "chmodded" /\ cur'[p] = c => HandTells(p)'
    BY <1>1, <2>1, <2>2, <2>3 DEF HandTells, Mutating
  <2> QED BY <1>0, <1>1, <1>2, <2>2, <2>3, <2>4, <2>5, HandKeeps DEF Mutating
<1>9. CASE UnlinkOwnedStage(p)
  <2>1. Op[c] = "create" /\ Linked(c) /\ c \in wide
    BY <1>1, <1>9 DEF UnlinkOwnedStage, HandTells
  <2>2. /\ Done(p, c) /\ staged' = [staged EXCEPT ![c] = "none"]
        /\ UNCHANGED <<journal, plan, target, dirty, wide, backups, stale, lock, role, cur, disp,
                       crashes>>
    BY <1>9, <2>1 DEF UnlinkOwnedStage, spent
  <2>3. Shape'
    BY <1>1, <1>2, <2>2 DEF Shape, plan
  <2>4. staged'[c] = "none" /\ target'[c] = "stage" /\ c \in wide'
    BY <1>1, <1>2, <2>1, <2>2 DEF Linked
  <2>5. Fits(c, "applied")'
    BY <2>1, <2>3, <2>4 DEF Fits, IsAfter, Clean, Shape
  <2>6. \A f \in File \ {c} : /\ target'[f] = target[f] /\ staged'[f] = staged[f]
                              /\ f \in wide' <=> f \in wide
    BY <1>2, <2>2
  <2> QED BY <1>0, <1>1, <2>2, <2>3, <2>5, <2>6, DoneKeeps
<1> QED BY <1>3, <1>4, <1>5, <1>6, <1>7, <1>8, <1>9

-----------------------------------------------------------------------------
(* Nobody meddles: the theorems.                                           *)

LEMMA CalmInit == Init => CalmInv
<1> SUFFICES ASSUME Init PROVE Calm
  BY DEF CalmInv
<1>1. Shape /\ JournalTells
  BY DEF Init, Shape, JournalTells, Stageless
<1>2. \A p \in Process : StepTells(p) /\ EntriesTell(p) /\ HandTells(p)
  BY DEF Init, StepTells, EntriesTell, HandTells, Building, Mutating
<1> QED BY <1>1, <1>2 DEF Calm

LEMMA CalmNext == TypeOK /\ CalmInv /\ [Next]_vars => CalmInv'
<1> SUFFICES ASSUME TypeOK, CalmInv, [Next]_vars, meddles' = 0 PROVE Calm'
  BY DEF CalmInv
<1>0. meddles \in Nat /\ crashes \in Nat
  BY BoundsAssumption DEF TypeOK, BoundsAssumption
<1>1. ASSUME NEW p \in Process, Working(p) PROVE Calm'
  <2>1. meddles' = meddles
    BY <1>1 DEF Working, Preparing, Committing, Applying, Completing, Recovering, Prepare,
         PlanRefused, Plan, MakeBackup, BackedUp, MakeStage, JournalPrepared, PrepareFails,
         CommitVerify, BeginCommit, CommitRecheck, VerifyEntry, SkipApplied, FinishAppliedMode,
         FinishLinkedCreate, RenameStage, FinishRename, UnlinkTarget, FinishRemove, LinkStage,
         ChmodLinked, UnlinkOwnedStage, PathVanished, FinishCommit, CleanupStages,
         RemoveCommitted, Peek, LockForRecovery, RecoverReturns, RecoverResumes, Preflight, Block,
         Release, Conflict, spent
  <2>2. Calm
    BY <2>1 DEF CalmInv
  <2>3. Kept(p)
    BY <1>1, <2>2, PreparingKeeps, CommittingKeeps, RecoveringKeeps, CompletingKeeps,
       VanishedKeeps, ChoosingKeeps, MutatingKeeps DEF Working, Applying
  <2>4. \A q \in Process \ {p} : StepTells(q)' /\ EntriesTell(q)' /\ HandTells(q)'
    BY <2>2, <2>3, OthersKeep DEF Calm, Kept
  <2> QED BY <2>3, <2>4 DEF Calm, Kept
<1>2. ASSUME NEW p \in Process, Crash(p) PROVE Calm'
  <2>1. /\ UNCHANGED <<journal, plan, disk, role, cur>> /\ crashes' > 0 /\ Calm
        /\ pc' = [pc EXCEPT ![p] = "idle"]
        /\ todo' = [todo EXCEPT ![p] = {}] /\ disp' = [disp EXCEPT ![p] = NoDisp]
    BY <1>0, <1>2 DEF Crash, Goto, CalmInv
  <2>2. /\ pc'[p] = "idle" /\ crashes' # 0
        /\ \A q \in Process \ {p} : pc'[q] = pc[q] /\ todo'[q] = todo[q] /\ disp'[q] = disp[q]
    BY <1>0, <2>1 DEF TypeOK, Crash
  <2>3. Shape' /\ JournalTells'
    BY <2>1, <2>2, SameFiles DEF Calm, JournalTells, plan
  <2>4. ASSUME NEW q \in Process PROVE StepTells(q)' /\ EntriesTell(q)' /\ HandTells(q)'
    <3>1. CASE q = p
      BY <2>2, <3>1 DEF StepTells, EntriesTell, HandTells, Building, Mutating
    <3>2. CASE q # p
      <4>1. /\ StepTells(q) /\ EntriesTell(q) /\ HandTells(q)
            /\ pc'[q] = pc[q] /\ todo'[q] = todo[q] /\ disp'[q] = disp[q]
        BY <2>1, <2>2, <3>2 DEF Calm
      <4>2. StepTells(q)'
        BY <2>1, <2>2, <4>1, SameFiles DEF StepTells, Building, plan, disk
      <4>3. EntriesTell(q)' /\ HandTells(q)'
        BY <2>1, <4>1, SameFiles DEF EntriesTell, HandTells, Mutating, plan, disk
      <4> QED BY <4>2, <4>3
    <3> QED BY <3>1, <3>2
  <2> QED BY <2>3, <2>4 DEF Calm
<1>3. \A f \in File : ~Meddle(f)
  BY <1>0 DEF Meddle
<1>4. ~SourceChanges
  BY <1>0 DEF SourceChanges
<1>5. CASE UNCHANGED vars
  <2>1. /\ UNCHANGED <<journal, plan, disk, lock, pc, role, todo, cur, disp, crashes>> /\ Calm
    BY <1>5 DEF vars, spent, CalmInv
  <2>2. Shape' /\ JournalTells'
    BY <2>1, SameFiles DEF Calm, JournalTells, plan
  <2>3. \A q \in Process : StepTells(q)' /\ EntriesTell(q)' /\ HandTells(q)'
    BY <2>1, SameFiles DEF Calm, StepTells, EntriesTell, HandTells, Building, Mutating, plan, disk
  <2> QED BY <2>2, <2>3 DEF Calm
<1> QED BY <1>1, <1>2, <1>3, <1>4, <1>5 DEF Next

LEMMA CalmHolds == Spec => [](TypeOK /\ CalmInv)
<1>1. TypeOK /\ CalmInv /\ [Next]_vars => (TypeOK /\ CalmInv)'
  BY TypeNext, CalmNext
<1> QED BY <1>1, TypeInit, CalmInit, PTL DEF Spec

\* Commits and recoveries are all or nothing, for any commands, files, transactions and
\* deaths, as long as nobody else changes the files (transaction.ts, transaction-recovery.ts).
THEOREM AllOrNothingHolds == Spec => []AllOrNothing
<1>1. TypeOK /\ CalmInv => AllOrNothing
  <2> SUFFICES ASSUME TypeOK, Calm PROVE AllOrNothing
    BY DEF CalmInv, AllOrNothing
  <2>1. journal = "prepared" => \A f \in entries : IsBefore(f)
    BY FitsPending DEF Calm, JournalTells
  <2>2. journal = "committed" => \A f \in entries : IsAfter(f)
    BY DEF Calm, JournalTells, Fits
  <2> QED BY <2>1, <2>2 DEF AllOrNothing, Calm, JournalTells
<1> QED BY <1>1, CalmHolds, PTL

\* Deaths and failures alone never make recovery give a journal up: preflight knows every
\* state in which a commit or another recovery can have stopped (transaction-recovery.ts).
THEOREM NeverBlockedAlone == Spec => []OnlyMeddlingBlocks
<1>1. CalmInv => OnlyMeddlingBlocks
  BY DEF CalmInv, Calm, JournalTells, OnlyMeddlingBlocks
<1> QED BY <1>1, CalmHolds, PTL

\* Without a death, neither a commit nor a failed prepare leaves a stage behind
\* (transaction.ts: the finalizer of prepare, and cleanup before the journal goes).
THEOREM StagesRemoved == Spec => []NoStageLeft
<1>1. TypeOK /\ CalmInv => NoStageLeft
  <2> SUFFICES ASSUME TypeOK, Calm, journal = "absent", lock = Nobody, crashes = 0
               PROVE  staged = [f \in File |-> "none"]
    BY DEF CalmInv, NoStageLeft
  <2>1. \A f \in File : staged[f] = "none"
    BY DEF Calm, JournalTells, Stageless
  <2> QED BY <2>1 DEF TypeOK
<1> QED BY <1>1, CalmHolds, PTL
=============================================================================
