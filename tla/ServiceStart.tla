----------------------------- MODULE ServiceStart -----------------------------
(***************************************************************************)
(* The order in which a provider starts the services of an app:            *)
(* runDependencySchedule (container-runtime/src/dependency-schedule.ts)    *)
(* over the graph and with the handlers of runServiceStartSchedule         *)
(* (service-start-schedule.ts).                                            *)
(*                                                                         *)
(* Between a service and those that depend on it stand gates, one for each *)
(* condition asked of it.  Nodes run in waves: all those whose             *)
(* predecessors have settled, one after another.  The code takes a wave in *)
(* the order of its ids, the model in any order; what a node of a wave     *)
(* comes to is looked at only after the wave.                              *)
(***************************************************************************)
EXTENDS Naturals, FiniteSets

CONSTANTS
  Service,
  Condition,         \* conditions of depends_on; "service_started" needs no probe
  MaxDependencies    \* bound: entries of depends_on in the plan

Dependency == [dependent : Service, service : Service, condition : Condition, required : BOOLEAN]

VARIABLES
  plan,       \* the depends_on entries of every service
  outcome,    \* a node: "succeeded", "failed", "blocked", or "pending"
  wave,       \* nodes of the current wave that have not run
  phase,      \* "run", and how the schedule ended: "settled", "cycle" or "error"
  blockers    \* the BlockedService entries: a service and its unmet gate

scheduleVars == <<plan, outcome, wave, phase, blockers>>

-----------------------------------------------------------------------------
(* buildServiceStartGraph.                                                  *)

StartNode(s) == [kind |-> "start", service |-> s]
Gate(d) == [kind |-> "gate", service |-> d.service, condition |-> d.condition]
Gates == {Gate(d) : d \in plan}
Nodes == {StartNode(s) : s \in Service} \cup Gates
IsStart(n) == n.kind = "start"

Edges == {[from |-> StartNode(g.service), to |-> g, required |-> TRUE] : g \in Gates}
         \cup {[from |-> Gate(d), to |-> StartNode(d.dependent), required |-> d.required] : d \in plan}

OptionalOnly_Some(n) == \E d \in plan : StartNode(d.service) = n /\ ~d.required

\* A start that nobody requires and somebody asks for may fail.
OptionalOnly(n) ==
  /\ \E d \in plan : StartNode(d.service) = n
  /\ \A d \in plan : StartNode(d.service) = n => ~d.required

Plans == {{list[i] : i \in 1..MaxDependencies} : list \in [1..MaxDependencies -> Dependency]} \cup {{}}

ScheduleInit ==
  /\ plan \in Plans
  /\ outcome = [n \in Nodes |-> "pending"]
  /\ wave = {} /\ phase = "run" /\ blockers = {}

-----------------------------------------------------------------------------
(* runDependencySchedule.                                                   *)

Pending == {n \in Nodes : outcome[n] = "pending"}

Ready_RequiredOnly == {n \in Pending : \A e \in Edges : e.to = n /\ e.required => e.from \notin Pending}

Ready == {n \in Pending : \A e \in Edges : e.to = n => e.from \notin Pending}

NextWave ==
  /\ phase = "run" /\ wave = {}
  /\ IF Pending = {} THEN phase' = "settled" /\ UNCHANGED wave
     ELSE IF Ready = {} THEN phase' = "cycle" /\ UNCHANGED wave
     ELSE wave' = Ready /\ UNCHANGED phase
  /\ UNCHANGED <<plan, outcome, blockers>>

BlockedBy(n) == {e.from : e \in {e \in Edges : /\ e.to = n /\ e.required
                                               /\ outcome[e.from] \in {"failed", "blocked"}}}

Settle(n, result) ==
  /\ outcome' = [outcome EXCEPT ![n] = result]
  /\ wave' = wave \ {n}

\* A handler runs when nothing required stands in its way.
Runs(n) == phase = "run" /\ n \in wave /\ BlockedBy(n) = {}

Block(n) ==
  /\ phase = "run" /\ n \in wave
  /\ \E unmet \in BlockedBy(n) :
       blockers' = IF IsStart(n) THEN blockers \cup {[service |-> n.service, unmet |-> unmet]} ELSE blockers
  /\ Settle(n, "blocked")
  /\ UNCHANGED <<plan, phase>>

-----------------------------------------------------------------------------
(* The handlers of runServiceStartSchedule.                                 *)

StartService(n) ==
  /\ Runs(n) /\ IsStart(n)
  /\ Settle(n, "succeeded")
  /\ UNCHANGED <<plan, phase, blockers>>

\* A start that somebody requires ends the whole schedule with its error.
StartFails(n) ==
  /\ Runs(n) /\ IsStart(n)
  /\ IF OptionalOnly(n) THEN Settle(n, "failed") /\ UNCHANGED phase
     ELSE phase' = "error" /\ UNCHANGED <<outcome, wave>>
  /\ UNCHANGED <<plan, blockers>>

\* The condition holds, or the probe or the wait for the exit says no.
RunGate(n) ==
  /\ Runs(n) /\ ~IsStart(n)
  /\ \E result \in {"succeeded", "failed"} :
       /\ n.condition = "service_started" => result = "succeeded"
       /\ Settle(n, result)
  /\ UNCHANGED <<plan, phase, blockers>>

ScheduleNext == NextWave \/ \E n \in Nodes : Block(n) \/ StartService(n) \/ StartFails(n) \/ RunGate(n)

ScheduleSpec == ScheduleInit /\ [][ScheduleNext]_scheduleVars

-----------------------------------------------------------------------------
(* Properties.                                                              *)

\* Types; a wave holds pending nodes of a running schedule.
ScheduleTypeOK ==
  /\ plan \subseteq Dependency
  /\ outcome \in [Nodes -> {"pending", "succeeded", "failed", "blocked"}]
  /\ wave \subseteq Nodes
  /\ phase \in {"run", "settled", "cycle", "error"}
  /\ \A b \in blockers : b.service \in Service /\ b.unmet \in Gates

\* The services on a dependency cycle and those behind one.
Stuck == UNION {S \in SUBSET Service :
                  \A s \in S : \E d \in plan : d.dependent = s /\ d.service \in S}

\* What depends_on means: a service is started only after each condition it asks for has been
\* decided, optional ones too, and only if the required ones hold (the handlers' comment
\* "Services are started behind synthetic gate nodes").
DependenciesFirst ==
  \A d \in plan : outcome[StartNode(d.dependent)] \in {"succeeded", "failed"} =>
    /\ outcome[Gate(d)] # "pending"
    /\ d.required => outcome[Gate(d)] = "succeeded" /\ outcome[StartNode(d.service)] = "succeeded"

\* A cycle is always reported, and only a cycle is; no service on it or behind it was touched,
\* and unless a start failed every other service has been settled by then.
CyclesAreReported ==
  /\ phase = "settled" => Stuck = {}
  /\ phase = "cycle" =>
       Stuck = {s \in Service : outcome[StartNode(s)] = "pending"} /\ Stuck # {}

\* A settled schedule hides nothing: a service that is not up failed and was only optional to
\* others, or is listed with a required gate that failed or whose own service is not up.
NothingHidden ==
  phase = "settled" =>
    \A s \in Service :
      \/ outcome[StartNode(s)] = "succeeded"
      \/ outcome[StartNode(s)] = "failed" /\ \A d \in plan : d.service = s => ~d.required
      \/ \E b \in blockers :
           /\ b.service = s
           /\ \E d \in plan : d.dependent = s /\ d.required /\ Gate(d) = b.unmet
           /\ outcome[b.unmet] = "failed" \/ outcome[StartNode(b.unmet.service)] # "succeeded"

\* A schedule that ends in any way leaves no service unexplained.
NothingUnexplained == CyclesAreReported /\ NothingHidden
=============================================================================
