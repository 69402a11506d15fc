--------------------------- MODULE WorkerLifecycle ---------------------------
(***************************************************************************)
(* The detached host-proxy worker of an app: started by one command, found *)
(* again by others, replaced and removed                                   *)
(* (engine/src/subsystems/detached-worker and host-proxy).                 *)
(*                                                                         *)
(* What the commands know of a worker is its record, worker.json, changed  *)
(* under the record's advisory lock, which is taken at its promise         *)
(* (LockContract; it does not expire a live owner here).  The run          *)
(* directory with the credentials, the shim and the socket is shared by    *)
(* every worker the app ever has.  A worker is named by the order of its   *)
(* start; its session id and its process id are its name.                  *)
(***************************************************************************)
EXTENDS Naturals, FiniteSets

CONSTANTS
  Command,        \* processes of Lando commands
  Nobody,         \* no lock holder
  MaxWorkers,     \* bound: workers spawned
  MaxAccidents,   \* bound: deaths of commands, late answers and signals of the user
  MaxRecycled     \* bound: process ids given to a stranger

ASSUME BoundsAssumption == {MaxWorkers, MaxAccidents, MaxRecycled} \subseteq Nat
ASSUME NobodyAssumption == Nobody \notin Command

Worker == 1..MaxWorkers
None == 0      \* no worker

VARIABLES
  record,      \* the worker worker.json names
  files,       \* the worker that wrote the credentials and the shim
  socket,      \* the worker that made host-proxy.sock
  life,        \* what each worker process is doing
  told,        \* workers that were sent SIGTERM
  recycled,    \* workers gone whose process id another program has
  lock, pc,    \* holder of the record's lock, step of each command
  goal,        \* why a command holds the lock: "start", "stop" or "close"
  claim,       \* the holder's WorkerClaimState
  own,         \* the child each command is responsible for until it is published
  session,     \* the worker a command may close again, and whether it is its child
  accidents,   \* bounded events so far
  excused,     \* history: workers nobody could keep track of
  known,       \* history: workers that identified themselves before they were stopped
  struck       \* history: workers in whose stead a stranger got a signal

rundir == <<record, files, socket>>
process == <<life, told, recycled>>
holding == <<lock, pc, goal, claim>>
ghosts == <<excused, known, struck>>
vars == <<rundir, process, holding, own, session, accidents, ghosts>>

NoSession == [worker |-> None, child |-> FALSE]

Init ==
  /\ record = None /\ files = None /\ socket = None
  /\ life = [w \in Worker |-> "unborn"] /\ told = {} /\ recycled = {}
  /\ lock = Nobody /\ pc = [p \in Command |-> "idle"]
  /\ goal = [p \in Command |-> "stop"] /\ claim = "absent"
  /\ own = [p \in Command |-> None]
  /\ session = [p \in Command |-> NoSession]
  /\ accidents = 0 /\ excused = {} /\ known = {} /\ struck = {}

-----------------------------------------------------------------------------
(* The claim of the lock holder.                                            *)

Edge == [operation \in {"spawn", "publish", "reuse", "stop", "remove", "reap-stale"} |->
  CASE operation = "spawn"      -> [from |-> {"absent"}, to |-> "starting"]
    [] operation = "publish"    -> [from |-> {"absent", "starting"}, to |-> "ready"]
    [] operation = "reuse"      -> [from |-> {"ready"}, to |-> "ready"]
    [] operation = "stop"       -> [from |-> {"ready"}, to |-> "stopping"]
    [] operation = "remove"     -> [from |-> {"stopping", "absent"}, to |-> "absent"]
    [] operation = "reap-stale" -> [from |-> {"ready", "starting", "absent"}, to |-> "absent"]]

\* An illegal operation would fail the command; here it would never end.
Change(operation) ==
  /\ claim \in Edge[operation].from
  /\ claim' = Edge[operation].to

Goto(p, step) == pc' = [pc EXCEPT ![p] = step] /\ UNCHANGED <<lock, goal>>
Unlock(p) ==
  /\ lock' = Nobody
  /\ pc' = [pc EXCEPT ![p] = "idle"]
  /\ goal' = [goal EXCEPT ![p] = "stop"]
  /\ claim' = "absent"

\* WorkerClaim.hold: the claim of a record that exists is "ready".
Hold(p, why) ==
  /\ pc[p] = "idle" /\ lock = Nobody
  /\ lock' = p
  /\ goal' = [goal EXCEPT ![p] = why]
  /\ claim' = IF record = None THEN "absent" ELSE "ready"
  /\ pc' = [pc EXCEPT ![p] = CASE why = "start" -> "reuse" [] why = "stop" -> "replace"
                               [] why = "close" -> "close"]
  /\ UNCHANGED <<rundir, process, own, session, accidents, ghosts>>

-----------------------------------------------------------------------------
(* A start: reuse, or replace and spawn.                                    *)

Running(w) == w # None /\ life[w] \in {"born", "starting", "binding", "serving"}
Answers(w) == w # None /\ life[w] = "serving" /\ socket = w

\* The record's worker identifies itself, takes the new plan, and its shim is there.
Reuse(p) ==
  /\ pc[p] = "reuse"
  /\ Answers(record) /\ files # None
  /\ claim \in Edge["reuse"].from
  /\ session' = [session EXCEPT ![p] = [worker |-> record, child |-> FALSE]]
  /\ Unlock(p)
  /\ UNCHANGED <<rundir, process, own, accidents, ghosts>>

\* No record, no answer, another configuration, a dead bridge or a plan it cannot take.
CannotReuse(p) ==
  /\ pc[p] = "reuse"
  /\ Goto(p, "replace")
  /\ UNCHANGED <<rundir, process, claim, own, session, accidents, ghosts>>

Spawn(p) ==
  /\ pc[p] = "spawn"
  /\ \E w \in Worker :
       /\ life[w] = "unborn" /\ \A v \in Worker : v < w => life[v] # "unborn"
       /\ life' = [life EXCEPT ![w] = "born"]
       /\ own' = [own EXCEPT ![p] = w]
  /\ Change("spawn")
  /\ Goto(p, "payload")
  /\ UNCHANGED <<rundir, told, recycled, session, accidents, ghosts>>

SpawnFails(p) ==
  /\ pc[p] = "spawn"
  /\ Unlock(p)
  /\ UNCHANGED <<rundir, process, own, session, accidents, ghosts>>

WritePayload(p) ==
  /\ pc[p] = "payload" /\ life[own[p]] = "born"
  /\ life' = [life EXCEPT ![own[p]] = "starting"]
  /\ Goto(p, "ready")
  /\ UNCHANGED <<rundir, told, recycled, claim, own, session, accidents, ghosts>>

ReadReady(p) ==
  /\ pc[p] = "ready" /\ life[own[p]] = "serving"
  /\ Goto(p, "persist")
  /\ UNCHANGED <<rundir, process, claim, own, session, accidents, ghosts>>

\* The worker exits or stays silent too long, the record cannot be written, or the command is
\* interrupted: the finalizer of acquireUseRelease ends the worker that was not retained.
PrepareFails_OnExit(p) ==
  /\ pc[p] \in {"payload", "ready", "persist"} /\ life[own[p]] = "gone"
  /\ Goto(p, "terminate")
  /\ UNCHANGED <<rundir, process, claim, own, session, accidents, ghosts>>

PrepareFails(p) ==
  /\ pc[p] \in {"payload", "ready", "persist"}
  /\ Goto(p, "terminate")
  /\ UNCHANGED <<rundir, process, claim, own, session, accidents, ghosts>>

\* persist, retained and publish are one uninterruptible step.
Persist(p) ==
  /\ pc[p] = "persist"
  /\ claim \in Edge["publish"].from
  /\ record' = own[p]
  /\ session' = [session EXCEPT ![p] = [worker |-> own[p], child |-> TRUE]]
  /\ own' = [own EXCEPT ![p] = None]
  /\ Unlock(p)
  /\ UNCHANGED <<files, socket, process, accidents, ghosts>>

-----------------------------------------------------------------------------
(* The end of a child through its process handle.                           *)

\* The child of this operation, or of the one that opened the session.
Child(p) == IF own[p] # None THEN own[p] ELSE session[p].worker

Terminate(p) ==
  /\ pc[p] = "terminate"
  /\ told' = told \cup {Child(p)}
  /\ Goto(p, "terminating")
  /\ UNCHANGED <<rundir, life, recycled, claim, own, session, accidents, ghosts>>

TerminateKills(p) ==
  /\ pc[p] = "terminating" /\ life[Child(p)] # "gone"
  /\ life' = [life EXCEPT ![Child(p)] = "gone"]
  /\ UNCHANGED <<rundir, told, recycled, holding, own, session, accidents, ghosts>>

Terminated_NoWait(p) ==
  /\ pc[p] = "terminating"
  /\ own' = [own EXCEPT ![p] = None]
  /\ IF goal[p] = "close" THEN Goto(p, "remove") /\ UNCHANGED claim ELSE Unlock(p)
  /\ UNCHANGED <<rundir, process, session, accidents, ghosts>>

Terminated(p) ==
  /\ pc[p] = "terminating" /\ life[Child(p)] = "gone"
  /\ own' = [own EXCEPT ![p] = None]
  /\ IF goal[p] = "close" THEN Goto(p, "remove") /\ UNCHANGED claim ELSE Unlock(p)
  /\ UNCHANGED <<rundir, process, session, accidents, ghosts>>

-----------------------------------------------------------------------------
(* The end of the recorded worker: removeHostProxyClaim and                 *)
(* terminateControlRecord.                                                  *)

Replace(p) ==
  /\ pc[p] = "replace"
  /\ Goto(p, IF record = None THEN "reap" ELSE "probe")
  /\ UNCHANGED <<rundir, process, claim, own, session, accidents, ghosts>>

Owned_ByPid(p) ==
  /\ pc[p] = "probe" /\ (life[record] # "gone" \/ record \in recycled)
  /\ Change("stop")
  /\ Goto(p, "shutdown")
  /\ UNCHANGED <<rundir, process, own, session, accidents, ghosts>>

Owned(p) ==
  /\ pc[p] = "probe" /\ Answers(record)
  /\ known' = known \cup {record}
  /\ Change("stop")
  /\ Goto(p, "shutdown")
  /\ UNCHANGED <<rundir, process, own, session, accidents, excused, struck>>

NotOwned(p) ==
  /\ pc[p] = "probe" /\ ~Answers(record)
  /\ Goto(p, "reap")
  /\ UNCHANGED <<rundir, process, claim, own, session, accidents, ghosts>>

\* The worker is alive and answers after the two seconds of the probe.
AnswersLate(p) ==
  /\ pc[p] = "probe" /\ Answers(record) /\ accidents < MaxAccidents
  /\ accidents' = accidents + 1
  /\ excused' = excused \cup {record}
  /\ Goto(p, "reap")
  /\ UNCHANGED <<rundir, process, claim, own, session, known, struck>>

\* The request is accepted, or lost.
Shutdown(p) ==
  /\ pc[p] = "shutdown"
  /\ \/ Answers(record) /\ life' = [life EXCEPT ![record] = "closing"]
     \/ UNCHANGED life
  /\ Goto(p, "await")
  /\ UNCHANGED <<rundir, told, recycled, claim, own, session, accidents, ghosts>>

\* What a signal, and the check whether a process exists, finds under the worker's id.
Occupied(w) == life[w] # "gone" \/ w \in recycled

AwaitExit(p) ==
  /\ pc[p] \in {"await", "awaitTerm", "awaitKill"} /\ ~Occupied(record)
  /\ Goto(p, "remove")
  /\ UNCHANGED <<rundir, process, claim, own, session, accidents, ghosts>>

AwaitTimesOut(p) ==
  /\ pc[p] \in {"await", "awaitTerm"} /\ Occupied(record)
  /\ Goto(p, IF pc[p] = "await" THEN "sigterm" ELSE "sigkill")
  /\ UNCHANGED <<rundir, process, claim, own, session, accidents, ghosts>>

\* The process outlives SIGKILL: the operation dies and leaves the record.
WillNotExit(p) ==
  /\ pc[p] = "awaitKill" /\ Occupied(record)
  /\ Unlock(p)
  /\ UNCHANGED <<rundir, process, own, session, accidents, ghosts>>

Strike == struck' = IF record \in recycled THEN struck \cup {record} ELSE struck

SigTerm(p) ==
  /\ pc[p] = "sigterm"
  /\ told' = told \cup {record}
  /\ Strike
  /\ Goto(p, "awaitTerm")
  /\ UNCHANGED <<rundir, life, recycled, claim, own, session, accidents, excused, known>>

SigKill(p) ==
  /\ pc[p] = "sigkill"
  /\ life' = [life EXCEPT ![record] = "gone"]
  /\ Strike
  /\ Goto(p, "awaitKill")
  /\ UNCHANGED <<rundir, told, recycled, claim, own, session, accidents, excused, known>>

\* The whole run directory goes, with the record.
Remove(p) ==
  /\ pc[p] \in {"remove", "reap"}
  /\ record' = None /\ files' = None /\ socket' = None
  /\ IF goal[p] = "start"
       THEN Change(IF pc[p] = "reap" THEN "reap-stale" ELSE "remove") /\ Goto(p, "spawn")
       ELSE claim \in Edge[IF pc[p] = "reap" THEN "reap-stale" ELSE "remove"].from /\ Unlock(p)
  /\ session' = IF goal[p] = "close" THEN [session EXCEPT ![p] = NoSession] ELSE session
  /\ UNCHANGED <<process, own, accidents, ghosts>>

-----------------------------------------------------------------------------
(* The end of a session.                                                    *)

Start(p) == session[p] = NoSession /\ Hold(p, "start")
Stop(p) == session[p] = NoSession /\ Hold(p, "stop")
Close(p) == session[p] # NoSession /\ Hold(p, "close")

\* Another worker has been recorded since, or none.
CloseNothing(p) ==
  /\ pc[p] = "close" /\ record # session[p].worker
  /\ session' = [session EXCEPT ![p] = NoSession]
  /\ Unlock(p)
  /\ UNCHANGED <<rundir, process, own, accidents, ghosts>>

CloseOwn_Unchecked(p) ==
  /\ pc[p] = "close"
  /\ IF session[p].child /\ record # None THEN Change("stop") /\ Goto(p, "terminate")
     ELSE UNCHANGED claim /\ Goto(p, "replace")
  /\ UNCHANGED <<rundir, process, own, session, accidents, ghosts>>

CloseOwn(p) ==
  /\ pc[p] = "close" /\ record = session[p].worker
  /\ IF session[p].child THEN Change("stop") /\ Goto(p, "terminate")
     ELSE UNCHANGED claim /\ Goto(p, "probe")
  /\ UNCHANGED <<rundir, process, own, session, accidents, ghosts>>

-----------------------------------------------------------------------------
(* The worker.                                                              *)

\* Standard input ends before the payload: the parent is dead.
InputEnds(w) ==
  /\ life[w] = "born" /\ \A p \in Command : own[p] # w
  /\ life' = [life EXCEPT ![w] = "gone"]
  /\ UNCHANGED <<rundir, told, recycled, holding, own, session, accidents, ghosts>>

WriteCredentials(w) ==
  /\ life[w] = "starting"
  /\ files' = w
  /\ life' = [life EXCEPT ![w] = "binding"]
  /\ UNCHANGED <<record, socket, told, recycled, holding, own, session, accidents, ghosts>>

\* A path in use ends the worker, which removes the credentials whoever wrote them.
Listen(w) ==
  /\ life[w] = "binding"
  /\ IF socket = None
       THEN socket' = w /\ life' = [life EXCEPT ![w] = "serving"] /\ UNCHANGED files
       ELSE files' = None /\ life' = [life EXCEPT ![w] = "gone"] /\ UNCHANGED socket
  /\ UNCHANGED <<record, told, recycled, holding, own, session, accidents, ghosts>>

\* SIGTERM is looked at once the worker serves.
StopServing(w) ==
  /\ life[w] = "serving" /\ w \in told
  /\ life' = [life EXCEPT ![w] = "closing"]
  /\ UNCHANGED <<rundir, told, recycled, holding, own, session, accidents, ghosts>>

\* The server closes at once and the requests in flight end, then removeSessionState.
Exit(w) ==
  /\ life[w] = "closing"
  /\ files' = None /\ socket' = None
  /\ life' = [life EXCEPT ![w] = "gone"]
  /\ UNCHANGED <<record, told, recycled, holding, own, session, accidents, ghosts>>

WorkerDies(w) ==
  /\ life[w] \notin {"unborn", "gone"}
  /\ life' = [life EXCEPT ![w] = "gone"]
  /\ UNCHANGED <<rundir, told, recycled, holding, own, session, accidents, ghosts>>

-----------------------------------------------------------------------------
(* Everything else.                                                         *)

\* A command ends, or dies at any point with the lock, which others reclaim.
Quit(p) ==
  /\ pc[p] = "idle" /\ session[p] # NoSession
  /\ session' = [session EXCEPT ![p] = NoSession]
  /\ UNCHANGED <<rundir, process, holding, own, accidents, ghosts>>

Crash(p) ==
  /\ pc[p] # "idle" /\ accidents < MaxAccidents
  /\ accidents' = accidents + 1
  /\ excused' = excused \cup {w \in Worker : \/ w = own[p]
                                             \/ w = record /\ claim = "stopping"}
  /\ own' = [own EXCEPT ![p] = None]
  /\ session' = [session EXCEPT ![p] = NoSession]
  /\ Unlock(p)
  /\ UNCHANGED <<rundir, process, known, struck>>

\* The user, or a logout, stops a worker.
UserStops(w) ==
  /\ Running(w) /\ accidents < MaxAccidents
  /\ accidents' = accidents + 1
  /\ told' = told \cup {w} /\ excused' = excused \cup {w}
  /\ UNCHANGED <<rundir, life, recycled, holding, own, session, known, struck>>

\* Another program gets the process id.
Recycle(w) ==
  /\ life[w] = "gone" /\ w \notin recycled /\ Cardinality(recycled) < MaxRecycled
  /\ recycled' = recycled \cup {w}
  /\ UNCHANGED <<rundir, life, told, holding, own, session, accidents, ghosts>>

Starting(p) == \/ Reuse(p) \/ CannotReuse(p) \/ Spawn(p) \/ SpawnFails(p) \/ WritePayload(p)
               \/ ReadReady(p) \/ PrepareFails(p) \/ Persist(p)
Ending(p) == \/ Terminate(p) \/ TerminateKills(p) \/ Terminated(p) \/ Replace(p) \/ Owned(p)
             \/ NotOwned(p) \/ Shutdown(p) \/ AwaitExit(p) \/ AwaitTimesOut(p) \/ WillNotExit(p)
             \/ SigTerm(p) \/ SigKill(p) \/ Remove(p) \/ CloseNothing(p) \/ CloseOwn(p)
Operating(p) == Starting(p) \/ Ending(p)
Working(w) == \/ InputEnds(w) \/ WriteCredentials(w) \/ Listen(w) \/ StopServing(w) \/ Exit(w)
              \/ WorkerDies(w) \/ UserStops(w) \/ Recycle(w)

Next ==
  \/ \E p \in Command : \/ Start(p) \/ Stop(p) \/ Close(p) \/ Operating(p)
                        \/ AnswersLate(p) \/ Quit(p) \/ Crash(p)
  \/ \E w \in Worker : Working(w)

Spec == Init /\ [][Next]_vars

\* A command that holds the lock goes on; every wait in it has a deadline.  Nothing is asked
\* of a worker: it may hang at any point.
FairSpec == Spec /\ \A p \in Command : WF_vars(Operating(p))

-----------------------------------------------------------------------------
(* Properties.                                                              *)

\* Types; a command is past "idle" exactly while it holds the lock.
TypeOK ==
  /\ {record, files, socket} \subseteq Worker \cup {None}
  /\ life \in [Worker -> {"unborn", "born", "starting", "binding", "serving", "closing", "gone"}]
  /\ told \subseteq Worker /\ recycled \subseteq Worker
  /\ lock \in Command \cup {Nobody}
  /\ pc \in [Command -> {"idle", "reuse", "replace", "probe", "reap", "shutdown", "await", "sigterm",
                         "awaitTerm", "sigkill", "awaitKill", "remove", "spawn", "payload", "ready",
                         "persist", "terminate", "terminating", "close"}]
  /\ \A p \in Command : lock = p <=> pc[p] # "idle"
  /\ goal \in [Command -> {"start", "stop", "close"}]
  /\ claim \in {"absent", "starting", "ready", "stopping"}
  /\ own \in [Command -> Worker \cup {None}]
  /\ session \in [Command -> [worker : Worker \cup {None}, child : BOOLEAN]]
  /\ accidents \in 0..MaxAccidents
  /\ excused \subseteq Worker /\ known \subseteq Worker /\ struck \subseteq Worker

\* No worker is lost: one that runs is the recorded one, or the child or the victim of the
\* command that holds the lock.  The exceptions need an accident: a command that died between
\* the spawn and the record or in the middle of a stop, a worker that answered its probe late,
\* or one the user stopped whose slow exit took its successor's socket (lifecycle.ts).
NoWorkerLost ==
  excused = {} =>
    \A w \in Worker : Running(w) => w = record \/ \E p \in Command : own[p] = w

\* Without such an accident a recorded worker that serves is reachable under the shared paths:
\* no predecessor, failed start or close has removed or replaced its credentials or socket.
FilesMatchRecord ==
  excused = {} /\ Running(record) => files = record /\ socket = record

\* A signal by process id reaches a stranger only when the worker had identified itself in the
\* same operation and left since ("Ownership and identity validation must precede any shutdown
\* request or signal", lifecycle.ts).
OnlyKnownAreStruck == struck \subseteq known

\* Every operation gives the lock back, whatever the workers do: the lock has no expiry for a
\* live owner, so an operation that hung would block the app's commands.
OperationsEnd == []<>(lock = Nobody)
=============================================================================
