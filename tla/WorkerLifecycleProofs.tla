------------------------ MODULE WorkerLifecycleProofs ------------------------
(***************************************************************************)
(* What holds of an app's detached workers for any number of commands,     *)
(* workers, deaths, late answers, signals and process ids used again.      *)
(***************************************************************************)
EXTENDS WorkerLifecycle, TLAPS

\* The steps in which a command is ending the recorded worker.
Stopping == {"shutdown", "await", "sigterm", "awaitTerm", "sigkill", "awaitKill"}
Preparing == {"payload", "ready", "persist"}
Ended == {"terminate", "terminating"}

Living(w) == life[w] \notin {"unborn", "gone"}

\* The child a command has spawned is not recorded yet, and takes the place of no other worker.
OwnInv ==
  \A p \in Command :
    /\ own[p] # None => /\ pc[p] \in Preparing \cup Ended /\ goal[p] = "start"
                        /\ record = None /\ life[own[p]] # "unborn"
    /\ pc[p] \in Preparing => own[p] # None
    /\ pc[p] = "persist" => life[own[p]] \in {"serving", "closing", "gone"}
    /\ pc[p] = "spawn" => record = None /\ goal[p] = "start"

\* A command on its way to end a worker knows which one, and the claim says so.
GoalInv ==
  \A p \in Command :
    /\ session[p] # NoSession => session[p].worker # None
    /\ pc[p] # "idle" /\ goal[p] = "close" => session[p] # NoSession
    /\ pc[p] \in Stopping \cup {"remove", "probe", "reap"} /\ goal[p] = "close" =>
         record = session[p].worker
    /\ pc[p] \in Ended => \/ own[p] # None
                          \/ /\ goal[p] = "close" /\ claim = "stopping"
                             /\ record = session[p].worker
    /\ pc[p] \in Stopping => record \in known /\ record # None /\ claim = "stopping"
    /\ pc[p] = "probe" => record # None
    /\ pc[p] \in {"reuse", "replace"} => goal[p] # "close"
    /\ pc[p] = "close" => goal[p] = "close"

\* The recorded worker has served, and has ended before its record goes.
RecordInv ==
  /\ record # None => life[record] \in {"serving", "closing", "gone"}
  /\ \A p \in Command : pc[p] = "remove" /\ record # None => life[record] = "gone"
  /\ \A p \in Command : pc[p] = "awaitKill" /\ record # None => life[record] = "gone"
  /\ \A w \in told : life[w] # "unborn"

\* Unless an accident happened, a worker lives only as the recorded one or as the child of the
\* lock holder, is ending only at the hands of a command that waits for it, and the shared
\* files are its own.
Quiet ==
  \A w \in Worker : Living(w) =>
    /\ w = record \/ \E p \in Command : own[p] = w
    /\ w \in told \/ life[w] = "closing" =>
         \E p \in Command :
           /\ pc[p] \in Stopping \cup {"terminating"}
           /\ w = IF pc[p] = "terminating" THEN Child(p) ELSE record
    /\ life[w] \in {"binding", "serving"} => files = w
    /\ life[w] = "serving" => socket = w
    /\ \A p \in Command : pc[p] = "reap" => w # record

QuietInv == excused = {} => Quiet

WorkerInv == OwnInv /\ GoalInv /\ RecordInv /\ QuietInv /\ OnlyKnownAreStruck

-----------------------------------------------------------------------------
(* Types.                                                                   *)

LEMMA Numbers == None \notin Worker /\ \A w \in Worker : w # None /\ w \in Nat
  BY BoundsAssumption DEF BoundsAssumption, Worker, None

LEMMA TypeInit == Init => TypeOK
<1> SUFFICES ASSUME Init PROVE TypeOK
  OBVIOUS
<1>1. 0 \in 0..MaxAccidents
  BY BoundsAssumption DEF BoundsAssumption
<1>2. NoSession \in [worker : Worker \cup {None}, child : BOOLEAN]
  BY DEF NoSession
<1> QED BY <1>1, <1>2, NobodyAssumption DEF NobodyAssumption, Init, TypeOK

LEMMA TypeNext == TypeOK /\ GoalInv /\ [Next]_vars => TypeOK'
<1> SUFFICES ASSUME TypeOK, GoalInv, [Next]_vars PROVE TypeOK'
  OBVIOUS
<1> USE NobodyAssumption
    DEF NobodyAssumption, TypeOK, rundir, process, holding, ghosts, Goto, Unlock
<1>a. NoSession \in [worker : Worker \cup {None}, child : BOOLEAN]
  BY DEF NoSession
<1>b. accidents < MaxAccidents => accidents + 1 \in 0..MaxAccidents
  BY BoundsAssumption DEF BoundsAssumption
<1>c. \A operation \in DOMAIN Edge : Edge[operation].to \in {"absent", "starting", "ready", "stopping"}
  BY DEF Edge
<1>d. {"spawn", "publish", "reuse", "stop", "remove", "reap-stale"} = DOMAIN Edge
  BY DEF Edge
<1>1. ASSUME NEW p \in Command, Start(p) PROVE TypeOK'
  BY <1>1 DEF Start, Hold
<1>2. ASSUME NEW p \in Command, Stop(p) PROVE TypeOK'
  BY <1>2 DEF Stop, Hold
<1>3. ASSUME NEW p \in Command, Close(p) PROVE TypeOK'
  BY <1>3 DEF Close, Hold
<1>4. ASSUME NEW p \in Command, Reuse(p) PROVE TypeOK'
  BY <1>4 DEF Reuse
<1>5. ASSUME NEW p \in Command, CannotReuse(p) PROVE TypeOK'
  BY <1>5 DEF CannotReuse
<1>6. ASSUME NEW p \in Command, Spawn(p) PROVE TypeOK'
  BY <1>6, <1>c, <1>d DEF Spawn, Change
<1>7. ASSUME NEW p \in Command, SpawnFails(p) PROVE TypeOK'
  BY <1>7 DEF SpawnFails
<1>8. ASSUME NEW p \in Command, WritePayload(p) PROVE TypeOK'
  BY <1>8 DEF WritePayload
<1>9. ASSUME NEW p \in Command, ReadReady(p) PROVE TypeOK'
  BY <1>9 DEF ReadReady
<1>10. ASSUME NEW p \in Command, PrepareFails(p) PROVE TypeOK'
  BY <1>10 DEF PrepareFails
<1>11. ASSUME NEW p \in Command, Persist(p) PROVE TypeOK'
  BY <1>11 DEF Persist
<1>12. ASSUME NEW p \in Command, Terminate(p) PROVE TypeOK'
  <2>1. Child(p) \in Worker
    BY <1>12 DEF Terminate, GoalInv, Child, Ended
  <2> QED BY <1>12, <2>1 DEF Terminate
<1>13. ASSUME NEW p \in Command, TerminateKills(p) PROVE TypeOK'
  BY <1>13 DEF TerminateKills
<1>14. ASSUME NEW p \in Command, Terminated(p) PROVE TypeOK'
  <2>1. CASE goal[p] = "close"
    BY <1>14, <2>1 DEF Terminated
  <2>2. CASE goal[p] # "close"
    BY <1>14, <2>2 DEF Terminated
  <2> QED BY <2>1, <2>2
<1>15. ASSUME NEW p \in Command, Replace(p) PROVE TypeOK'
  BY <1>15 DEF Replace
<1>16. ASSUME NEW p \in Command, Owned(p) PROVE TypeOK'
  BY <1>16 DEF Owned, Change, Edge, Answers
<1>17. ASSUME NEW p \in Command, NotOwned(p) PROVE TypeOK'
  BY <1>17 DEF NotOwned
<1>18. ASSUME NEW p \in Command, Shutdown(p) PROVE TypeOK'
  BY <1>18 DEF Shutdown
<1>19. ASSUME NEW p \in Command, AwaitExit(p) PROVE TypeOK'
  BY <1>19 DEF AwaitExit
<1>20. ASSUME NEW p \in Command, AwaitTimesOut(p) PROVE TypeOK'
  BY <1>20 DEF AwaitTimesOut
<1>21. ASSUME NEW p \in Command, WillNotExit(p) PROVE TypeOK'
  BY <1>21 DEF WillNotExit
<1>22. ASSUME NEW p \in Command, SigTerm(p) PROVE TypeOK'
  <2>1. record \in Worker
    BY <1>22 DEF SigTerm, GoalInv, Stopping
  <2> QED BY <1>22, <2>1 DEF SigTerm, Strike
<1>23. ASSUME NEW p \in Command, SigKill(p) PROVE TypeOK'
  BY <1>23 DEF SigKill, Strike
<1>24. ASSUME NEW p \in Command, Remove(p) PROVE TypeOK'
  <2>1. claim' \in {"absent", "starting", "ready", "stopping"}
    BY <1>24 DEF Remove, Change, Edge
  <2> QED BY <1>24, <1>a, <2>1 DEF Remove
<1>25. ASSUME NEW p \in Command, CloseNothing(p) PROVE TypeOK'
  BY <1>25, <1>a DEF CloseNothing
<1>26. ASSUME NEW p \in Command, CloseOwn(p) PROVE TypeOK'
  BY <1>26, <1>c, <1>d DEF CloseOwn, Change
<1>27. ASSUME NEW p \in Command, AnswersLate(p) PROVE TypeOK'
  BY <1>27, <1>b DEF AnswersLate, Answers
<1>28. ASSUME NEW p \in Command, Quit(p) PROVE TypeOK'
  BY <1>28, <1>a DEF Quit
<1>29. ASSUME NEW p \in Command, Crash(p) PROVE TypeOK'
  BY <1>29, <1>a, <1>b DEF Crash
<1>30. ASSUME NEW w \in Worker, InputEnds(w) PROVE TypeOK'
  BY <1>30 DEF InputEnds
<1>31. ASSUME NEW w \in Worker, WriteCredentials(w) PROVE TypeOK'
  BY <1>31 DEF WriteCredentials
<1>32. ASSUME NEW w \in Worker, Listen(w) PROVE TypeOK'
  BY <1>32 DEF Listen
<1>33. ASSUME NEW w \in Worker, StopServing(w) PROVE TypeOK'
  BY <1>33 DEF StopServing
<1>34. ASSUME NEW w \in Worker, Exit(w) PROVE TypeOK'
  BY <1>34 DEF Exit
<1>35. ASSUME NEW w \in Worker, WorkerDies(w) PROVE TypeOK'
  BY <1>35 DEF WorkerDies
<1>36. ASSUME NEW w \in Worker, UserStops(w) PROVE TypeOK'
  BY <1>36, <1>b DEF UserStops
<1>37. ASSUME NEW w \in Worker, Recycle(w) PROVE TypeOK'
  BY <1>37 DEF Recycle
<1>38. CASE UNCHANGED vars
  BY <1>38 DEF vars
<1> HIDE DEF TypeOK, OwnInv, GoalInv, RecordInv, QuietInv
<1> QED
  BY <1>1, <1>2, <1>3, <1>4, <1>5, <1>6, <1>7, <1>8, <1>9, <1>10, <1>11, <1>12, <1>13,
     <1>14, <1>15, <1>16, <1>17, <1>18, <1>19, <1>20, <1>21, <1>22, <1>23, <1>24, <1>25,
     <1>26, <1>27, <1>28, <1>29, <1>30, <1>31, <1>32, <1>33, <1>34, <1>35, <1>36, <1>37,
     <1>38
  DEF Next, Operating, Starting, Ending, Working

-----------------------------------------------------------------------------
(* The invariant.                                                           *)

LEMMA InvInit == Init => WorkerInv
<1> SUFFICES ASSUME Init PROVE WorkerInv
  OBVIOUS
<1>1. OwnInv /\ GoalInv
  BY DEF Init, OwnInv, GoalInv, Preparing, Ended, Stopping
<1>2. RecordInv /\ QuietInv /\ OnlyKnownAreStruck
  BY DEF Init, RecordInv, QuietInv, Quiet, Living, OnlyKnownAreStruck
<1> QED BY <1>1, <1>2 DEF WorkerInv

\* The lock has one holder.
LEMMA Sole ==
  ASSUME TypeOK, NEW p \in Command, NEW q \in Command, pc[p] # "idle", pc[q] # "idle"
  PROVE  p = q
  BY DEF TypeOK

LEMMA OwnNext == TypeOK /\ OwnInv /\ GoalInv /\ [Next]_vars => OwnInv'
<1> SUFFICES ASSUME TypeOK, OwnInv, GoalInv, [Next]_vars PROVE OwnInv'
  OBVIOUS
<1> USE NobodyAssumption
    DEF NobodyAssumption, TypeOK, OwnInv, Preparing, Ended, rundir, process,
        holding, ghosts, Goto, Unlock
<1>1. ASSUME NEW p \in Command, Start(p) PROVE OwnInv'
  BY <1>1 DEF Start, Hold
<1>2. ASSUME NEW p \in Command, Stop(p) PROVE OwnInv'
  BY <1>2 DEF Stop, Hold
<1>3. ASSUME NEW p \in Command, Close(p) PROVE OwnInv'
  BY <1>3 DEF Close, Hold
<1>4. ASSUME NEW p \in Command, Reuse(p) PROVE OwnInv'
  BY <1>4 DEF Reuse
<1>5. ASSUME NEW p \in Command, CannotReuse(p) PROVE OwnInv'
  BY <1>5 DEF CannotReuse
<1>6. ASSUME NEW p \in Command, Spawn(p) PROVE OwnInv'
  BY <1>6, Numbers DEF Spawn, Change
<1>7. ASSUME NEW p \in Command, SpawnFails(p) PROVE OwnInv'
  BY <1>7 DEF SpawnFails
<1>8. ASSUME NEW p \in Command, WritePayload(p) PROVE OwnInv'
  BY <1>8 DEF WritePayload
<1>9. ASSUME NEW p \in Command, ReadReady(p) PROVE OwnInv'
  BY <1>9 DEF ReadReady
<1>10. ASSUME NEW p \in Command, PrepareFails(p) PROVE OwnInv'
  BY <1>10 DEF PrepareFails
<1>11. ASSUME NEW p \in Command, Persist(p) PROVE OwnInv'
  BY <1>11 DEF Persist
<1>12. ASSUME NEW p \in Command, Terminate(p) PROVE OwnInv'
  BY <1>12 DEF Terminate
<1>13. ASSUME NEW p \in Command, TerminateKills(p) PROVE OwnInv'
  BY <1>13 DEF TerminateKills
<1>14. ASSUME NEW p \in Command, Terminated(p) PROVE OwnInv'
  BY <1>14 DEF Terminated
<1>15. ASSUME NEW p \in Command, Replace(p) PROVE OwnInv'
  BY <1>15 DEF Replace
<1>16. ASSUME NEW p \in Command, Owned(p) PROVE OwnInv'
  BY <1>16 DEF Owned, Change
<1>17. ASSUME NEW p \in Command, NotOwned(p) PROVE OwnInv'
  BY <1>17 DEF NotOwned
<1>18. ASSUME NEW p \in Command, Shutdown(p) PROVE OwnInv'
  BY <1>18 DEF Shutdown
<1>19. ASSUME NEW p \in Command, AwaitExit(p) PROVE OwnInv'
  BY <1>19 DEF AwaitExit
<1>20. ASSUME NEW p \in Command, AwaitTimesOut(p) PROVE OwnInv'
  BY <1>20 DEF AwaitTimesOut
<1>21. ASSUME NEW p \in Command, WillNotExit(p) PROVE OwnInv'
  BY <1>21 DEF WillNotExit
<1>22. ASSUME NEW p \in Command, SigTerm(p) PROVE OwnInv'
  BY <1>22 DEF SigTerm, Strike
<1>23. ASSUME NEW p \in Command, SigKill(p) PROVE OwnInv'
  BY <1>23 DEF SigKill, Strike
<1>24. ASSUME NEW p \in Command, Remove(p) PROVE OwnInv'
  BY <1>24 DEF Remove, Change
<1>25. ASSUME NEW p \in Command, CloseNothing(p) PROVE OwnInv'
  BY <1>25 DEF CloseNothing
<1>26. ASSUME NEW p \in Command, CloseOwn(p) PROVE OwnInv'
  BY <1>26 DEF CloseOwn, Change
<1>27. ASSUME NEW p \in Command, AnswersLate(p) PROVE OwnInv'
  BY <1>27 DEF AnswersLate
<1>28. ASSUME NEW p \in Command, Quit(p) PROVE OwnInv'
  BY <1>28 DEF Quit
<1>29. ASSUME NEW p \in Command, Crash(p) PROVE OwnInv'
  BY <1>29 DEF Crash
<1>30. ASSUME NEW w \in Worker, InputEnds(w) PROVE OwnInv'
  BY <1>30 DEF InputEnds
<1>31. ASSUME NEW w \in Worker, WriteCredentials(w) PROVE OwnInv'
  BY <1>31 DEF WriteCredentials
<1>32. ASSUME NEW w \in Worker, Listen(w) PROVE OwnInv'
  BY <1>32 DEF Listen
<1>33. ASSUME NEW w \in Worker, StopServing(w) PROVE OwnInv'
  BY <1>33 DEF StopServing
<1>34. ASSUME NEW w \in Worker, Exit(w) PROVE OwnInv'
  BY <1>34 DEF Exit
<1>35. ASSUME NEW w \in Worker, WorkerDies(w) PROVE OwnInv'
  BY <1>35 DEF WorkerDies
<1>36. ASSUME NEW w \in Worker, UserStops(w) PROVE OwnInv'
  BY <1>36 DEF UserStops
<1>37. ASSUME NEW w \in Worker, Recycle(w) PROVE OwnInv'
  BY <1>37 DEF Recycle
<1>38. CASE UNCHANGED vars
  BY <1>38 DEF vars
<1> HIDE DEF TypeOK, OwnInv, GoalInv, RecordInv, QuietInv
<1> QED
  BY <1>1, <1>2, <1>3, <1>4, <1>5, <1>6, <1>7, <1>8, <1>9, <1>10, <1>11, <1>12, <1>13,
     <1>14, <1>15, <1>16, <1>17, <1>18, <1>19, <1>20, <1>21, <1>22, <1>23, <1>24, <1>25,
     <1>26, <1>27, <1>28, <1>29, <1>30, <1>31, <1>32, <1>33, <1>34, <1>35, <1>36, <1>37,
     <1>38
  DEF Next, Operating, Starting, Ending, Working

LEMMA GoalNext == TypeOK /\ OwnInv /\ GoalInv /\ [Next]_vars => GoalInv'
<1> SUFFICES ASSUME TypeOK, OwnInv, GoalInv, [Next]_vars PROVE GoalInv'
  OBVIOUS
<1> USE NobodyAssumption
    DEF NobodyAssumption, TypeOK, GoalInv, Preparing, Ended, Stopping, rundir,
        process, holding, ghosts, Goto, Unlock
<1>1. ASSUME NEW p \in Command, Start(p) PROVE GoalInv'
  BY <1>1 DEF Start, Hold
<1>2. ASSUME NEW p \in Command, Stop(p) PROVE GoalInv'
  BY <1>2 DEF Stop, Hold
<1>3. ASSUME NEW p \in Command, Close(p) PROVE GoalInv'
  BY <1>3 DEF Close, Hold
<1>4. ASSUME NEW p \in Command, Reuse(p) PROVE GoalInv'
  BY <1>4 DEF Reuse, Answers
<1>5. ASSUME NEW p \in Command, CannotReuse(p) PROVE GoalInv'
  BY <1>5 DEF CannotReuse
<1>6. ASSUME NEW p \in Command, Spawn(p) PROVE GoalInv'
  BY <1>6 DEF Spawn, Change
<1>7. ASSUME NEW p \in Command, SpawnFails(p) PROVE GoalInv'
  BY <1>7 DEF SpawnFails
<1>8. ASSUME NEW p \in Command, WritePayload(p) PROVE GoalInv'
  BY <1>8 DEF WritePayload
<1>9. ASSUME NEW p \in Command, ReadReady(p) PROVE GoalInv'
  BY <1>9 DEF ReadReady
<1>10. ASSUME NEW p \in Command, PrepareFails(p) PROVE GoalInv'
  BY <1>10 DEF PrepareFails, OwnInv
<1>11. ASSUME NEW p \in Command, Persist(p) PROVE GoalInv'
  BY <1>11 DEF Persist, OwnInv
<1>12. ASSUME NEW p \in Command, Terminate(p) PROVE GoalInv'
  BY <1>12 DEF Terminate
<1>13. ASSUME NEW p \in Command, TerminateKills(p) PROVE GoalInv'
  BY <1>13 DEF TerminateKills
<1>14. ASSUME NEW p \in Command, Terminated(p) PROVE GoalInv'
  <2>1. CASE goal[p] = "close"
    BY <1>14, <2>1 DEF Terminated, OwnInv
  <2>2. CASE goal[p] # "close"
    BY <1>14, <2>2 DEF Terminated, OwnInv
  <2> QED BY <2>1, <2>2
<1>15. ASSUME NEW p \in Command, Replace(p) PROVE GoalInv'
  <2>1. CASE record = None
    BY <1>15, <2>1 DEF Replace
  <2>2. CASE record # None
    BY <1>15, <2>2 DEF Replace
  <2> QED BY <2>1, <2>2
<1>16. ASSUME NEW p \in Command, Owned(p) PROVE GoalInv'
  BY <1>16, Sole, Numbers DEF Owned, Change, Edge, Answers
<1>17. ASSUME NEW p \in Command, NotOwned(p) PROVE GoalInv'
  BY <1>17 DEF NotOwned
<1>18. ASSUME NEW p \in Command, Shutdown(p) PROVE GoalInv'
  BY <1>18 DEF Shutdown
<1>19. ASSUME NEW p \in Command, AwaitExit(p) PROVE GoalInv'
  BY <1>19 DEF AwaitExit
<1>20. ASSUME NEW p \in Command, AwaitTimesOut(p) PROVE GoalInv'
  BY <1>20 DEF AwaitTimesOut
<1>21. ASSUME NEW p \in Command, WillNotExit(p) PROVE GoalInv'
  BY <1>21 DEF WillNotExit
<1>22. ASSUME NEW p \in Command, SigTerm(p) PROVE GoalInv'
  BY <1>22 DEF SigTerm, Strike
<1>23. ASSUME NEW p \in Command, SigKill(p) PROVE GoalInv'
  BY <1>23 DEF SigKill, Strike
<1>24. ASSUME NEW p \in Command, Remove(p) PROVE GoalInv'
  BY <1>24 DEF Remove, Change
<1>25. ASSUME NEW p \in Command, CloseNothing(p) PROVE GoalInv'
  BY <1>25 DEF CloseNothing
<1>26. ASSUME NEW p \in Command, CloseOwn(p) PROVE GoalInv'
  <2>1. CASE session[p].child
    BY <1>26, <2>1 DEF CloseOwn, Change, Edge
  <2>2. CASE ~session[p].child
    BY <1>26, <2>2 DEF CloseOwn, Change, Edge
  <2> QED BY <2>1, <2>2
<1>27. ASSUME NEW p \in Command, AnswersLate(p) PROVE GoalInv'
  BY <1>27 DEF AnswersLate
<1>28. ASSUME NEW p \in Command, Quit(p) PROVE GoalInv'
  BY <1>28 DEF Quit
<1>29. ASSUME NEW p \in Command, Crash(p) PROVE GoalInv'
  BY <1>29 DEF Crash
<1>30. ASSUME NEW w \in Worker, InputEnds(w) PROVE GoalInv'
  BY <1>30 DEF InputEnds
<1>31. ASSUME NEW w \in Worker, WriteCredentials(w) PROVE GoalInv'
  BY <1>31 DEF WriteCredentials
<1>32. ASSUME NEW w \in Worker, Listen(w) PROVE GoalInv'
  BY <1>32 DEF Listen
<1>33. ASSUME NEW w \in Worker, StopServing(w) PROVE GoalInv'
  BY <1>33 DEF StopServing
<1>34. ASSUME NEW w \in Worker, Exit(w) PROVE GoalInv'
  BY <1>34 DEF Exit
<1>35. ASSUME NEW w \in Worker, WorkerDies(w) PROVE GoalInv'
  BY <1>35 DEF WorkerDies
<1>36. ASSUME NEW w \in Worker, UserStops(w) PROVE GoalInv'
  BY <1>36 DEF UserStops
<1>37. ASSUME NEW w \in Worker, Recycle(w) PROVE GoalInv'
  BY <1>37 DEF Recycle
<1>38. CASE UNCHANGED vars
  BY <1>38 DEF vars
<1> HIDE DEF TypeOK, OwnInv, GoalInv, RecordInv, QuietInv
<1> QED
  BY <1>1, <1>2, <1>3, <1>4, <1>5, <1>6, <1>7, <1>8, <1>9, <1>10, <1>11, <1>12, <1>13,
     <1>14, <1>15, <1>16, <1>17, <1>18, <1>19, <1>20, <1>21, <1>22, <1>23, <1>24, <1>25,
     <1>26, <1>27, <1>28, <1>29, <1>30, <1>31, <1>32, <1>33, <1>34, <1>35, <1>36, <1>37,
     <1>38
  DEF Next, Operating, Starting, Ending, Working

LEMMA RecordNext == TypeOK /\ OwnInv /\ GoalInv /\ RecordInv /\ [Next]_vars => RecordInv'
<1> SUFFICES ASSUME TypeOK, OwnInv, GoalInv, RecordInv, [Next]_vars PROVE RecordInv'
  OBVIOUS
<1> USE NobodyAssumption
    DEF NobodyAssumption, TypeOK, RecordInv, rundir, process, holding, ghosts,
        Goto, Unlock
<1>1. ASSUME NEW p \in Command, Start(p) PROVE RecordInv'
  BY <1>1 DEF Start, Hold
<1>2. ASSUME NEW p \in Command, Stop(p) PROVE RecordInv'
  BY <1>2 DEF Stop, Hold
<1>3. ASSUME NEW p \in Command, Close(p) PROVE RecordInv'
  BY <1>3 DEF Close, Hold
<1>4. ASSUME NEW p \in Command, Reuse(p) PROVE RecordInv'
  BY <1>4 DEF Reuse
<1>5. ASSUME NEW p \in Command, CannotReuse(p) PROVE RecordInv'
  BY <1>5 DEF CannotReuse
<1>6. ASSUME NEW p \in Command, Spawn(p) PROVE RecordInv'
  BY <1>6 DEF Spawn, Change
<1>7. ASSUME NEW p \in Command, SpawnFails(p) PROVE RecordInv'
  BY <1>7 DEF SpawnFails
<1>8. ASSUME NEW p \in Command, WritePayload(p) PROVE RecordInv'
  BY <1>8 DEF WritePayload
<1>9. ASSUME NEW p \in Command, ReadReady(p) PROVE RecordInv'
  BY <1>9 DEF ReadReady
<1>10. ASSUME NEW p \in Command, PrepareFails(p) PROVE RecordInv'
  BY <1>10 DEF PrepareFails
<1>11. ASSUME NEW p \in Command, Persist(p) PROVE RecordInv'
  BY <1>11 DEF Persist, OwnInv, Preparing
<1>12. ASSUME NEW p \in Command, Terminate(p) PROVE RecordInv'
  BY <1>12 DEF Terminate, Child, OwnInv, GoalInv, Ended
<1>13. ASSUME NEW p \in Command, TerminateKills(p) PROVE RecordInv'
  BY <1>13 DEF TerminateKills
<1>14. ASSUME NEW p \in Command, Terminated(p) PROVE RecordInv'
  <2>1. CASE goal[p] = "close"
    BY <1>14, <2>1 DEF Terminated, OwnInv, GoalInv, Child, Ended
  <2>2. CASE goal[p] # "close"
    BY <1>14, <2>2 DEF Terminated, OwnInv, GoalInv, Child, Ended
  <2> QED BY <2>1, <2>2
<1>15. ASSUME NEW p \in Command, Replace(p) PROVE RecordInv'
  BY <1>15 DEF Replace
<1>16. ASSUME NEW p \in Command, Owned(p) PROVE RecordInv'
  BY <1>16 DEF Owned, Change
<1>17. ASSUME NEW p \in Command, NotOwned(p) PROVE RecordInv'
  BY <1>17 DEF NotOwned
<1>18. ASSUME NEW p \in Command, Shutdown(p) PROVE RecordInv'
  BY <1>18 DEF Shutdown
<1>19. ASSUME NEW p \in Command, AwaitExit(p) PROVE RecordInv'
  BY <1>19 DEF AwaitExit, Occupied
<1>20. ASSUME NEW p \in Command, AwaitTimesOut(p) PROVE RecordInv'
  BY <1>20 DEF AwaitTimesOut
<1>21. ASSUME NEW p \in Command, WillNotExit(p) PROVE RecordInv'
  BY <1>21 DEF WillNotExit
<1>22. ASSUME NEW p \in Command, SigTerm(p) PROVE RecordInv'
  BY <1>22 DEF SigTerm, Strike, GoalInv, Stopping
<1>23. ASSUME NEW p \in Command, SigKill(p) PROVE RecordInv'
  BY <1>23 DEF SigKill, Strike, GoalInv, Stopping
<1>24. ASSUME NEW p \in Command, Remove(p) PROVE RecordInv'
  BY <1>24 DEF Remove, Change
<1>25. ASSUME NEW p \in Command, CloseNothing(p) PROVE RecordInv'
  BY <1>25 DEF CloseNothing
<1>26. ASSUME NEW p \in Command, CloseOwn(p) PROVE RecordInv'
  BY <1>26 DEF CloseOwn, Change
<1>27. ASSUME NEW p \in Command, AnswersLate(p) PROVE RecordInv'
  BY <1>27 DEF AnswersLate
<1>28. ASSUME NEW p \in Command, Quit(p) PROVE RecordInv'
  BY <1>28 DEF Quit
<1>29. ASSUME NEW p \in Command, Crash(p) PROVE RecordInv'
  BY <1>29 DEF Crash
<1>30. ASSUME NEW w \in Worker, InputEnds(w) PROVE RecordInv'
  BY <1>30 DEF InputEnds
<1>31. ASSUME NEW w \in Worker, WriteCredentials(w) PROVE RecordInv'
  BY <1>31 DEF WriteCredentials
<1>32. ASSUME NEW w \in Worker, Listen(w) PROVE RecordInv'
  <2>1. CASE socket = None
    BY <1>32, <2>1 DEF Listen
  <2>2. CASE socket # None
    BY <1>32, <2>2 DEF Listen
  <2> QED BY <2>1, <2>2
<1>33. ASSUME NEW w \in Worker, StopServing(w) PROVE RecordInv'
  BY <1>33 DEF StopServing
<1>34. ASSUME NEW w \in Worker, Exit(w) PROVE RecordInv'
  BY <1>34 DEF Exit
<1>35. ASSUME NEW w \in Worker, WorkerDies(w) PROVE RecordInv'
  BY <1>35 DEF WorkerDies
<1>36. ASSUME NEW w \in Worker, UserStops(w) PROVE RecordInv'
  BY <1>36 DEF UserStops, Running
<1>37. ASSUME NEW w \in Worker, Recycle(w) PROVE RecordInv'
  BY <1>37 DEF Recycle
<1>38. CASE UNCHANGED vars
  BY <1>38 DEF vars
<1> HIDE DEF TypeOK, OwnInv, GoalInv, RecordInv, QuietInv
<1> QED
  BY <1>1, <1>2, <1>3, <1>4, <1>5, <1>6, <1>7, <1>8, <1>9, <1>10, <1>11, <1>12, <1>13,
     <1>14, <1>15, <1>16, <1>17, <1>18, <1>19, <1>20, <1>21, <1>22, <1>23, <1>24, <1>25,
     <1>26, <1>27, <1>28, <1>29, <1>30, <1>31, <1>32, <1>33, <1>34, <1>35, <1>36, <1>37,
     <1>38
  DEF Next, Operating, Starting, Ending, Working

LEMMA ExcusedGrows == [Next]_vars => excused \subseteq excused'
  BY DEF Next, Operating, Starting, Ending, Working, vars, ghosts, Start, Stop, Close, Hold,
         Reuse, CannotReuse, Spawn, SpawnFails, WritePayload, ReadReady, PrepareFails, Persist,
         Terminate, TerminateKills, Terminated, Replace, Owned, NotOwned, Shutdown, AwaitExit,
         AwaitTimesOut, WillNotExit, SigTerm, SigKill, Remove, CloseNothing, CloseOwn,
         AnswersLate, Quit, Crash, InputEnds, WriteCredentials, Listen, StopServing, Exit,
         WorkerDies, UserStops, Recycle

\* No two workers live at once.
LEMMA Alone ==
  ASSUME TypeOK, OwnInv, Quiet, NEW v \in Worker, NEW w \in Worker, Living(v), Living(w)
  PROVE  v = w
  BY Sole, Numbers DEF OwnInv, Quiet, Preparing, Ended

LEMMA QuietNext ==
  TypeOK /\ OwnInv /\ GoalInv /\ RecordInv /\ QuietInv /\ [Next]_vars => QuietInv'
<1> SUFFICES ASSUME TypeOK, OwnInv, GoalInv, RecordInv, Quiet, excused = {}, excused' = {},
                    [Next]_vars
             PROVE  Quiet'
  BY ExcusedGrows DEF QuietInv
<1> USE NobodyAssumption
    DEF NobodyAssumption, TypeOK, Quiet, Living, Child, Stopping, rundir,
        process, holding, ghosts, Goto, Unlock
<1>1. ASSUME NEW p \in Command, Start(p) PROVE Quiet'
  BY <1>1 DEF Start, Hold
<1>2. ASSUME NEW p \in Command, Stop(p) PROVE Quiet'
  BY <1>2 DEF Stop, Hold
<1>3. ASSUME NEW p \in Command, Close(p) PROVE Quiet'
  BY <1>3 DEF Close, Hold
<1>4. ASSUME NEW p \in Command, Reuse(p) PROVE Quiet'
  BY <1>4 DEF Reuse
<1>5. ASSUME NEW p \in Command, CannotReuse(p) PROVE Quiet'
  BY <1>5 DEF CannotReuse
<1>6. ASSUME NEW p \in Command, Spawn(p) PROVE Quiet'
  <2>1. \A v \in Worker : ~Living(v)
    BY <1>6, Numbers DEF Spawn, OwnInv, Preparing, Ended
  <2>2. PICK w \in Worker : /\ life[w] = "unborn" /\ life' = [life EXCEPT ![w] = "born"]
                            /\ own' = [own EXCEPT ![p] = w]
    BY <1>6 DEF Spawn
  <2>3. w \notin told
    BY <2>2 DEF RecordInv
  <2> QED BY <1>6, <2>1, <2>2, <2>3, Sole DEF Spawn
<1>7. ASSUME NEW p \in Command, SpawnFails(p) PROVE Quiet'
  BY <1>7 DEF SpawnFails
<1>8. ASSUME NEW p \in Command, WritePayload(p) PROVE Quiet'
  BY <1>8 DEF WritePayload
<1>9. ASSUME NEW p \in Command, ReadReady(p) PROVE Quiet'
  BY <1>9 DEF ReadReady
<1>10. ASSUME NEW p \in Command, PrepareFails(p) PROVE Quiet'
  BY <1>10 DEF PrepareFails
<1>11. ASSUME NEW p \in Command, Persist(p) PROVE Quiet'
  <2>1. \A v \in Worker : Living(v) => v = own[p] /\ v \notin told /\ life[v] # "closing"
    BY <1>11, Numbers DEF Persist, OwnInv, Preparing, Ended
  <2>2. \A q \in Command : pc'[q] = "idle"
    BY <1>11 DEF Persist
  <2> QED BY <1>11, <2>1, <2>2 DEF Persist
<1>12. ASSUME NEW p \in Command, Terminate(p) PROVE Quiet'
  BY <1>12 DEF Terminate
<1>13. ASSUME NEW p \in Command, TerminateKills(p) PROVE Quiet'
  BY <1>13 DEF TerminateKills
<1>14. ASSUME NEW p \in Command, Terminated(p) PROVE Quiet'
  BY <1>14 DEF Terminated
<1>15. ASSUME NEW p \in Command, Replace(p) PROVE Quiet'
  BY <1>15, Numbers DEF Replace
<1>16. ASSUME NEW p \in Command, Owned(p) PROVE Quiet'
  BY <1>16 DEF Owned, Change
<1>17. ASSUME NEW p \in Command, NotOwned(p) PROVE Quiet'
  <2>1. ASSUME record \in Worker, Living(record) PROVE FALSE
    <3>1. life[record] \in {"serving", "closing"}
      BY <2>1, Numbers DEF RecordInv
    <3>2. life[record] # "closing"
      BY <1>17, <2>1 DEF NotOwned
    <3> QED BY <1>17, <2>1, <3>1, <3>2, Numbers DEF NotOwned, Answers
  <2> QED BY <1>17, <2>1, Sole DEF NotOwned
<1>18. ASSUME NEW p \in Command, Shutdown(p) PROVE Quiet'
  BY <1>18 DEF Shutdown
<1>19. ASSUME NEW p \in Command, AwaitExit(p) PROVE Quiet'
  <2>1. record \in Worker /\ life[record] = "gone"
    BY <1>19 DEF AwaitExit, Occupied, GoalInv
  <2>2. \A v \in Worker : Living(v) => v \notin told /\ life[v] # "closing"
    BY <1>19, <2>1 DEF AwaitExit
  <2> QED BY <1>19, <2>2, Sole DEF AwaitExit
<1>20. ASSUME NEW p \in Command, AwaitTimesOut(p) PROVE Quiet'
  BY <1>20 DEF AwaitTimesOut
<1>21. ASSUME NEW p \in Command, WillNotExit(p) PROVE Quiet'
  <2>1. record \in Worker /\ life[record] = "gone"
    BY <1>21 DEF WillNotExit, RecordInv, GoalInv
  <2>2. \A v \in Worker : Living(v) => v \notin told /\ life[v] # "closing"
    BY <1>21, <2>1 DEF WillNotExit
  <2> QED BY <1>21, <2>2, Sole DEF WillNotExit
<1>22. ASSUME NEW p \in Command, SigTerm(p) PROVE Quiet'
  BY <1>22 DEF SigTerm, Strike
<1>23. ASSUME NEW p \in Command, SigKill(p) PROVE Quiet'
  BY <1>23 DEF SigKill, Strike
<1>24. ASSUME NEW p \in Command, Remove(p) PROVE Quiet'
  <2>1. \A v \in Worker : ~Living(v)
    BY <1>24, Numbers DEF Remove, OwnInv, RecordInv, Preparing, Ended
  <2> QED BY <1>24, <2>1 DEF Remove
<1>25. ASSUME NEW p \in Command, CloseNothing(p) PROVE Quiet'
  BY <1>25 DEF CloseNothing
<1>26. ASSUME NEW p \in Command, CloseOwn(p) PROVE Quiet'
  BY <1>26 DEF CloseOwn, Change
<1>27. ASSUME NEW p \in Command, AnswersLate(p) PROVE Quiet'
  BY <1>27 DEF AnswersLate
<1>28. ASSUME NEW p \in Command, Quit(p) PROVE Quiet'
  BY <1>28 DEF Quit
<1>29. ASSUME NEW p \in Command, Crash(p) PROVE Quiet'
  <2>1. own[p] = None /\ (record = None \/ claim # "stopping")
    BY <1>29 DEF Crash
  <2>2. pc[p] \notin Stopping \cup {"terminating"}
    BY <1>29, <2>1 DEF GoalInv, Ended
  <2>3. \A v \in Worker : Living(v) => v \notin told /\ life[v] # "closing"
    BY <1>29, <2>2 DEF Crash
  <2>4. \A v \in Worker : Living(v) => v = record \/ \E q \in Command : own'[q] = v
    BY <1>29, <2>1 DEF Crash
  <2> QED BY <1>29, <2>3, <2>4, Sole DEF Crash
<1>30. ASSUME NEW w \in Worker, InputEnds(w) PROVE Quiet'
  BY <1>30 DEF InputEnds
<1>31. ASSUME NEW w \in Worker, WriteCredentials(w) PROVE Quiet'
  BY <1>31, Alone DEF WriteCredentials
<1>32. ASSUME NEW w \in Worker, Listen(w) PROVE Quiet'
  BY <1>32 DEF Listen
<1>33. ASSUME NEW w \in Worker, StopServing(w) PROVE Quiet'
  BY <1>33 DEF StopServing
<1>34. ASSUME NEW w \in Worker, Exit(w) PROVE Quiet'
  BY <1>34, Alone DEF Exit
<1>35. ASSUME NEW w \in Worker, WorkerDies(w) PROVE Quiet'
  BY <1>35 DEF WorkerDies
<1>36. ASSUME NEW w \in Worker, UserStops(w) PROVE Quiet'
  BY <1>36 DEF UserStops
<1>37. ASSUME NEW w \in Worker, Recycle(w) PROVE Quiet'
  BY <1>37 DEF Recycle
<1>38. CASE UNCHANGED vars
  BY <1>38 DEF vars
<1> HIDE DEF TypeOK, OwnInv, GoalInv, RecordInv, QuietInv
<1> QED
  BY <1>1, <1>2, <1>3, <1>4, <1>5, <1>6, <1>7, <1>8, <1>9, <1>10, <1>11, <1>12, <1>13,
     <1>14, <1>15, <1>16, <1>17, <1>18, <1>19, <1>20, <1>21, <1>22, <1>23, <1>24, <1>25,
     <1>26, <1>27, <1>28, <1>29, <1>30, <1>31, <1>32, <1>33, <1>34, <1>35, <1>36, <1>37,
     <1>38
  DEF Next, Operating, Starting, Ending, Working

LEMMA StruckNext == GoalInv /\ OnlyKnownAreStruck /\ [Next]_vars => OnlyKnownAreStruck'
<1> SUFFICES ASSUME GoalInv, OnlyKnownAreStruck, [Next]_vars PROVE OnlyKnownAreStruck'
  OBVIOUS
<1>1. ASSUME NEW p \in Command, SigTerm(p) \/ SigKill(p) PROVE OnlyKnownAreStruck'
  BY <1>1 DEF SigTerm, SigKill, Strike, GoalInv, Stopping, OnlyKnownAreStruck
<1>2. ASSUME NEW p \in Command, Owned(p) PROVE OnlyKnownAreStruck'
  BY <1>2 DEF Owned, OnlyKnownAreStruck
<1>3. CASE UNCHANGED <<known, struck>>
  BY <1>3 DEF OnlyKnownAreStruck
<1> QED
  BY <1>1, <1>2, <1>3
  DEF Next, Operating, Starting, Ending, Working, vars, ghosts, Start, Stop, Close, Hold,
      Reuse, CannotReuse, Spawn, SpawnFails, WritePayload, ReadReady, PrepareFails, Persist,
      Terminate, TerminateKills, Terminated, Replace, NotOwned, Shutdown, AwaitExit,
      AwaitTimesOut, WillNotExit, Remove, CloseNothing, CloseOwn,
      AnswersLate, Quit, Crash, InputEnds, WriteCredentials, Listen, StopServing, Exit,
      WorkerDies, UserStops, Recycle

LEMMA Invariant == Spec => [](TypeOK /\ WorkerInv)
<1>1. Init => TypeOK /\ WorkerInv
  BY TypeInit, InvInit
<1>2. TypeOK /\ WorkerInv /\ [Next]_vars => (TypeOK /\ WorkerInv)'
  BY TypeNext, OwnNext, GoalNext, RecordNext, QuietNext, StruckNext DEF WorkerInv
<1> QED BY <1>1, <1>2, PTL DEF Spec

-----------------------------------------------------------------------------
(* The theorems.                                                            *)

\* Every variable keeps its type, and exactly the lock holder is in an operation.
THEOREM TypeCorrect == Spec => []TypeOK
  BY Invariant, PTL

\* Whatever commands and workers do and whenever they die, a worker that runs is the recorded one
\* or the child of a command, unless one of the four accidents happened.
THEOREM WorkersKept == Spec => []NoWorkerLost
<1>1. TypeOK /\ WorkerInv => NoWorkerLost
  BY DEF WorkerInv, QuietInv, Quiet, Living, Running, NoWorkerLost
<1> QED BY <1>1, Invariant, PTL

\* Without an accident the credentials and the socket under the shared paths are those of the
\* recorded worker while it serves.
THEOREM FilesMatch == Spec => []FilesMatchRecord
<1>1. ASSUME TypeOK, WorkerInv PROVE FilesMatchRecord
  <2> SUFFICES ASSUME excused = {}, Running(record) PROVE files = record /\ socket = record
    BY DEF FilesMatchRecord
  <2>1. record \in Worker /\ life[record] = "serving"
    BY <1>1 DEF Running, TypeOK, WorkerInv, RecordInv
  <2> QED BY <1>1, <2>1 DEF WorkerInv, QuietInv, Quiet, Living
<1> QED BY <1>1, Invariant, PTL

\* A signal reaches a stranger only in the stead of a worker that had identified itself.
THEOREM StrangersSpared == Spec => []OnlyKnownAreStruck
<1>1. WorkerInv => OnlyKnownAreStruck
  BY DEF WorkerInv
<1> QED BY <1>1, Invariant, PTL
=============================================================================
