---------------------------- MODULE AppStartProofs ----------------------------
(***************************************************************************)
(* What starting an app guarantees: the schedule of its services, for any  *)
(* plan of services and conditions; the claims on its volumes, for any     *)
(* number of commands, app roots and generations of a volume; and the      *)
(* journal of its synchronised mounts, for any number of mounts and any    *)
(* sequence of commands, each cut short anywhere.                          *)
(***************************************************************************)
EXTENDS ServiceStart, VolumeInitialization, AcceleratedStart, SequenceTheorems, TLAPS

-----------------------------------------------------------------------------
(* The start schedule.                                                      *)

Outcome == {"pending", "succeeded", "failed", "blocked"}

-----------------------------------------------------------------------------
(* The graph: a gate stands behind the start of its service, a start behind *)
(* the gates it asks for.                                                   *)

LEMMA StartsAndGates ==
  /\ \A s \in Service : StartNode(s) \in Nodes /\ IsStart(StartNode(s)) /\ StartNode(s).service = s
  /\ \A s, t \in Service : StartNode(s) = StartNode(t) => s = t
  /\ \A d \in plan : Gate(d) \in Nodes /\ ~IsStart(Gate(d)) /\ Gate(d).service = d.service
  /\ \A n \in Nodes : \/ \E s \in Service : n = StartNode(s)
                      \/ \E d \in plan : n = Gate(d)
  BY DEF StartNode, Gate, Gates, Nodes, IsStart

LEMMA IntoGate ==
  ASSUME plan \subseteq Dependency, NEW d \in plan
  PROVE  /\ [from |-> StartNode(d.service), to |-> Gate(d), required |-> TRUE] \in Edges
         /\ \A e \in Edges : e.to = Gate(d) => e.from = StartNode(d.service)
<1>1. \A c \in plan : c.service \in Service /\ c.dependent \in Service
  BY DEF Dependency
<1>2. StartNode(Gate(d).service) = StartNode(d.service)
  BY DEF StartNode, Gate
<1>3. [from |-> StartNode(d.service), to |-> Gate(d), required |-> TRUE] \in Edges
  BY <1>2 DEF Edges, Gates
<1>4. ASSUME NEW e \in Edges, e.to = Gate(d) PROVE e.from = StartNode(d.service)
  <2>1. CASE \E g \in Gates : e = [from |-> StartNode(g.service), to |-> g, required |-> TRUE]
    BY <2>1, <1>4, <1>2
  <2>2. CASE \E c \in plan : e = [from |-> Gate(c), to |-> StartNode(c.dependent), required |-> c.required]
    <3>1. PICK c \in plan : e = [from |-> Gate(c), to |-> StartNode(c.dependent), required |-> c.required]
      BY <2>2
    <3> QED BY <3>1, <1>4, <1>1, StartsAndGates
  <2> QED BY <2>1, <2>2 DEF Edges
<1> QED BY <1>3, <1>4

LEMMA IntoStart ==
  ASSUME plan \subseteq Dependency, NEW s \in Service
  PROVE  /\ \A d \in plan : d.dependent = s =>
              [from |-> Gate(d), to |-> StartNode(s), required |-> d.required] \in Edges
         /\ \A e \in Edges : e.to = StartNode(s) =>
              \E d \in plan : d.dependent = s /\ e.from = Gate(d) /\ (e.required <=> d.required)
<1>1. \A c \in plan : c.service \in Service /\ c.dependent \in Service
  BY DEF Dependency
<1>2. ASSUME NEW d \in plan, d.dependent = s
      PROVE  [from |-> Gate(d), to |-> StartNode(s), required |-> d.required] \in Edges
  BY <1>2 DEF Edges
<1>3. ASSUME NEW e \in Edges, e.to = StartNode(s)
      PROVE  \E d \in plan : d.dependent = s /\ e.from = Gate(d) /\ (e.required <=> d.required)
  <2>1. CASE \E g \in Gates : e = [from |-> StartNode(g.service), to |-> g, required |-> TRUE]
    BY <2>1, <1>3, StartsAndGates DEF Gates
  <2>2. CASE \E c \in plan : e = [from |-> Gate(c), to |-> StartNode(c.dependent), required |-> c.required]
    BY <2>2, <1>3, <1>1, StartsAndGates
  <2> QED BY <2>1, <2>2 DEF Edges
<1> QED BY <1>2, <1>3

LEMMA EdgeEnds ==
  ASSUME plan \subseteq Dependency, NEW e \in Edges
  PROVE  e.from \in Nodes /\ e.to \in Nodes
<1>1. \A c \in plan : c.service \in Service /\ c.dependent \in Service
  BY DEF Dependency
<1>2. CASE \E g \in Gates : e = [from |-> StartNode(g.service), to |-> g, required |-> TRUE]
  BY <1>2, <1>1, StartsAndGates DEF Gates
<1>3. CASE \E c \in plan : e = [from |-> Gate(c), to |-> StartNode(c.dependent), required |-> c.required]
  BY <1>3, <1>1, StartsAndGates
<1> QED BY <1>2, <1>3 DEF Edges

LEMMA GraphStays == UNCHANGED plan => Nodes' = Nodes /\ Edges' = Edges
  BY DEF Nodes, Edges, Gates, StartNode, Gate

-----------------------------------------------------------------------------
(* Types.                                                                   *)

LEMMA ScheduleTypesStart == ScheduleInit => ScheduleTypeOK
<1> SUFFICES ASSUME ScheduleInit PROVE ScheduleTypeOK
  OBVIOUS
<1>1. ASSUME NEW list \in [1..MaxDependencies -> Dependency], plan = {list[i] : i \in 1..MaxDependencies}
      PROVE  plan \subseteq Dependency
  BY <1>1
<1>2. plan \subseteq Dependency
  BY <1>1 DEF ScheduleInit, Plans
<1> QED BY <1>2 DEF ScheduleInit, ScheduleTypeOK

\* A step runs nodes of the current wave, or makes the next one.
LEMMA Steps ==
  ASSUME ScheduleTypeOK, ScheduleNext
  PROVE  /\ plan' = plan /\ phase = "run"
         /\ \/ NextWave
            \/ \E n \in wave : \E result \in {"succeeded", "failed", "blocked"} :
                 /\ Settle(n, result)
                 /\ phase' = "run"
                 /\ result = "blocked" => BlockedBy(n) # {}
                 /\ result # "blocked" => BlockedBy(n) = {}
                 /\ result = "failed" /\ IsStart(n) => OptionalOnly(n)
                 /\ IF result = "blocked" /\ IsStart(n)
                      THEN \E unmet \in BlockedBy(n) :
                             blockers' = blockers \cup {[service |-> n.service, unmet |-> unmet]}
                      ELSE blockers' = blockers
            \/ phase' = "error" /\ UNCHANGED <<outcome, wave, blockers>>
<1>1. CASE NextWave
  BY <1>1 DEF NextWave
<1>2. CASE \E n \in Nodes : Block(n)
  BY <1>2 DEF Block
<1>3. CASE \E n \in Nodes : StartService(n)
  BY <1>3 DEF StartService, Runs
<1>4. CASE \E n \in Nodes : StartFails(n)
  BY <1>4 DEF StartFails, Runs
<1>5. CASE \E n \in Nodes : RunGate(n)
  BY <1>5 DEF RunGate, Runs
<1> QED BY <1>1, <1>2, <1>3, <1>4, <1>5 DEF ScheduleNext

LEMMA ScheduleTypesStep == ScheduleTypeOK /\ [ScheduleNext]_scheduleVars => ScheduleTypeOK'
<1> SUFFICES ASSUME ScheduleTypeOK, [ScheduleNext]_scheduleVars PROVE ScheduleTypeOK'
  OBVIOUS
<1>1. CASE UNCHANGED scheduleVars
  <2>1. Nodes' = Nodes /\ Gates' = Gates
    BY <1>1 DEF scheduleVars, Nodes, Gates, StartNode, Gate
  <2> QED BY <1>1, <2>1 DEF scheduleVars, ScheduleTypeOK
<1>2. CASE ScheduleNext
  <2>1. plan' = plan /\ phase = "run"
    BY <1>2, Steps
  <2>2. Nodes' = Nodes /\ Gates' = Gates
    BY <2>1 DEF Nodes, Gates, StartNode, Gate
  <2>3. CASE NextWave
    BY <2>3, <2>2 DEF NextWave, ScheduleTypeOK, Ready, Pending
  <2>4. CASE phase' = "error" /\ UNCHANGED <<outcome, wave, blockers>>
    BY <2>4, <2>1, <2>2 DEF ScheduleTypeOK
  <2>5. ASSUME NEW n \in wave, NEW result \in {"succeeded", "failed", "blocked"},
               Settle(n, result), phase' = "run",
               IF result = "blocked" /\ IsStart(n)
                 THEN \E unmet \in BlockedBy(n) :
                        blockers' = blockers \cup {[service |-> n.service, unmet |-> unmet]}
                 ELSE blockers' = blockers
        PROVE  ScheduleTypeOK'
    <3>1. outcome' \in [Nodes -> Outcome] /\ wave' \subseteq Nodes
      BY <2>5 DEF ScheduleTypeOK, Settle, Outcome
    <3>2. CASE blockers' = blockers
      BY <3>1, <3>2, <2>1, <2>2, <2>5 DEF ScheduleTypeOK, Outcome
    <3>3. CASE result = "blocked" /\ IsStart(n)
      <4>1. PICK unmet \in BlockedBy(n) :
              blockers' = blockers \cup {[service |-> n.service, unmet |-> unmet]}
        BY <2>5, <3>3
      <4>2. PICK s \in Service : n = StartNode(s)
        BY <3>3, StartsAndGates DEF ScheduleTypeOK
      <4>3. n.service = s
        BY <4>2, StartsAndGates
      <4>4. PICK e \in Edges : e.to = n /\ unmet = e.from
        BY DEF BlockedBy
      <4>5. unmet \in Gates
        BY <4>2, <4>4, IntoStart DEF ScheduleTypeOK, Gates
      <4>6. \A b \in blockers' : b.service \in Service /\ b.unmet \in Gates
        BY <4>1, <4>3, <4>5 DEF ScheduleTypeOK
      <4> QED BY <4>6, <3>1, <2>1, <2>2, <2>5 DEF ScheduleTypeOK, Outcome
    <3> QED BY <2>5, <3>2, <3>3
  <2> QED BY <1>2, <2>3, <2>4, <2>5, Steps
<1> QED BY <1>1, <1>2

\* Every variable of the schedule keeps its type.
THEOREM ScheduleTypes == ScheduleSpec => []ScheduleTypeOK
<1>1. ScheduleInit => ScheduleTypeOK
  BY ScheduleTypesStart
<1>2. ScheduleTypeOK /\ [ScheduleNext]_scheduleVars => ScheduleTypeOK'
  BY ScheduleTypesStep
<1> QED BY <1>1, <1>2, PTL DEF ScheduleSpec

-----------------------------------------------------------------------------
(* What a node that is not pending tells of those before it.                *)

Settled(n) == outcome[n] # "pending"

\* The nodes of a wave are pending and have nothing pending before them.
WaveReady == \A n \in wave : ~Settled(n) /\ \A e \in Edges : e.to = n => Settled(e.from)

\* A settled node has settled predecessors; it ran only if the required ones succeeded, and was
\* blocked only if one of these did not.
SettledBehind ==
  \A n \in Nodes : Settled(n) =>
    /\ \A e \in Edges : e.to = n => Settled(e.from)
    /\ outcome[n] # "blocked" =>
         \A e \in Edges : e.to = n /\ e.required => outcome[e.from] = "succeeded"
    /\ outcome[n] = "blocked" =>
         \E e \in Edges : e.to = n /\ e.required /\ outcome[e.from] \in {"failed", "blocked"}

\* Services that wait for one another, or for such services, are never reached.
StuckPending == \A S \in SUBSET Service :
  (\A s \in S : \E d \in plan : d.dependent = s /\ d.service \in S)
    => \A s \in S : ~Settled(StartNode(s))

\* At the end nothing is pending, or everything pending waits for something pending.
Ends ==
  /\ phase = "settled" => \A n \in Nodes : Settled(n)
  /\ phase = "cycle" => /\ \E n \in Nodes : ~Settled(n)
                        /\ \A n \in Nodes : ~Settled(n) =>
                             \E e \in Edges : e.to = n /\ ~Settled(e.from)

\* A start that failed was optional, and a blocked one is on the list with its gate.
Accounted == \A s \in Service :
  /\ outcome[StartNode(s)] = "failed" => \A d \in plan : d.service = s => ~d.required
  /\ outcome[StartNode(s)] = "blocked" =>
       \E b \in blockers :
         /\ b.service = s
         /\ \E d \in plan : d.dependent = s /\ d.required /\ Gate(d) = b.unmet
         /\ outcome[b.unmet] \in {"failed", "blocked"}

ScheduleInv == WaveReady /\ SettledBehind /\ StuckPending /\ Ends /\ Accounted

LEMMA InvInit == ScheduleInit => ScheduleInv
<1> SUFFICES ASSUME ScheduleInit PROVE ScheduleInv
  OBVIOUS
<1>1. ScheduleTypeOK
  BY ScheduleTypesStart
<1>2. \A n \in Nodes : outcome[n] = "pending"
  BY DEF ScheduleInit
<1>3. \A s \in Service : StartNode(s) \in Nodes
  BY StartsAndGates
<1>4. WaveReady /\ SettledBehind /\ Ends
  BY <1>2 DEF ScheduleInit, WaveReady, SettledBehind, Ends, Settled
<1>5. StuckPending
  <2> SUFFICES ASSUME NEW S \in SUBSET Service, NEW s \in S PROVE ~Settled(StartNode(s))
    BY DEF StuckPending
  <2> QED BY <1>2, <1>3 DEF Settled
<1>6. Accounted
  BY <1>2, <1>3 DEF Accounted
<1> QED BY <1>4, <1>5, <1>6 DEF ScheduleInv

LEMMA WaveStep ==
  ASSUME ScheduleTypeOK, ScheduleInv, NextWave
  PROVE  ScheduleInv'
<1>1. UNCHANGED <<plan, outcome, blockers>> /\ Nodes' = Nodes /\ Edges' = Edges
  BY GraphStays DEF NextWave
<1>2. wave' \subseteq Ready
  BY DEF NextWave, ScheduleInv
<1>3. WaveReady'
  <2> SUFFICES ASSUME NEW n \in wave'
               PROVE  ~Settled(n)' /\ \A e \in Edges : e.to = n => Settled(e.from)'
    BY <1>1 DEF WaveReady
  <2>1. n \in Pending /\ \A e \in Edges : e.to = n => e.from \notin Pending
    BY <1>2 DEF Ready
  <2>2. \A e \in Edges : e.from \in Nodes
    BY EdgeEnds DEF ScheduleTypeOK
  <2> QED BY <2>1, <2>2, <1>1 DEF Pending, Settled
<1>4. SettledBehind' /\ StuckPending' /\ Accounted'
  <2>1. SettledBehind'
    BY <1>1 DEF ScheduleInv, SettledBehind, Settled
  <2>2. StuckPending'
    BY <1>1 DEF ScheduleInv, StuckPending, Settled
  <2>3. Accounted'
    BY <1>1 DEF ScheduleInv, Accounted
  <2> QED BY <2>1, <2>2, <2>3
<1>5. Ends'
  <2>1. CASE Pending = {}
    BY <2>1, <1>1 DEF NextWave, Ends, Pending, Settled
  <2>2. CASE Pending # {} /\ Ready = {}
    <3>1. phase' = "cycle"
      BY <2>2 DEF NextWave
    <3>2. \E n \in Nodes : ~Settled(n)
      BY <2>2 DEF Pending, Settled
    <3>3. ASSUME NEW n \in Nodes, ~Settled(n)
          PROVE  \E e \in Edges : e.to = n /\ ~Settled(e.from)
      <4>1. n \in Pending /\ n \notin Ready
        BY <3>3, <2>2 DEF Pending, Settled
      <4> QED BY <4>1 DEF Ready, Pending, Settled
    <3> QED BY <3>1, <3>2, <3>3, <1>1 DEF Ends, Settled
  <2>3. CASE Pending # {} /\ Ready # {}
    BY <2>3 DEF NextWave, Ends
  <2> QED BY <2>1, <2>2, <2>3
<1> QED BY <1>3, <1>4, <1>5 DEF ScheduleInv

\* A node of the wave gets its outcome.
LEMMA SettleStep ==
  ASSUME ScheduleTypeOK, ScheduleInv, plan' = plan, NEW n \in wave,
         NEW result \in {"succeeded", "failed", "blocked"}, Settle(n, result), phase' = "run",
         result = "blocked" => BlockedBy(n) # {},
         result # "blocked" => BlockedBy(n) = {},
         result = "failed" /\ IsStart(n) => OptionalOnly(n),
         IF result = "blocked" /\ IsStart(n)
           THEN \E unmet \in BlockedBy(n) :
                  blockers' = blockers \cup {[service |-> n.service, unmet |-> unmet]}
           ELSE blockers' = blockers
  PROVE  ScheduleInv'
<1>1. n \in Nodes /\ outcome[n] = "pending" /\ \A e \in Edges : e.to = n => Settled(e.from)
  BY DEF ScheduleTypeOK, ScheduleInv, WaveReady, Settled
<1>2. Nodes' = Nodes /\ Edges' = Edges
  BY GraphStays
<1>3. /\ outcome'[n] = result
      /\ \A m \in Nodes \ {n} : outcome'[m] = outcome[m]
  BY <1>1 DEF Settle, ScheduleTypeOK
<1>4. \A m \in Nodes : Settled(m) => m # n /\ outcome'[m] = outcome[m] /\ Settled(m)'
  BY <1>1, <1>3 DEF Settled
<1>5. \A e \in Edges : e.from \in Nodes /\ e.to \in Nodes
  BY EdgeEnds DEF ScheduleTypeOK
<1>6. \A m \in Nodes : Settled(m)' => Settled(m) \/ m = n
  BY <1>3 DEF Settled
<1>7. WaveReady'
  <2> SUFFICES ASSUME NEW m \in wave'
               PROVE  ~Settled(m)' /\ \A e \in Edges : e.to = m => Settled(e.from)'
    BY <1>2 DEF WaveReady
  <2>1. m \in wave /\ m # n /\ m \in Nodes
    BY DEF Settle, ScheduleTypeOK
  <2>2. ~Settled(m) /\ \A e \in Edges : e.to = m => Settled(e.from)
    BY <2>1 DEF ScheduleInv, WaveReady
  <2> QED BY <2>1, <2>2, <1>4, <1>5, <1>6
<1>8. SettledBehind'
  <2>1. ASSUME NEW m \in Nodes, Settled(m)
        PROVE  /\ \A e \in Edges : e.to = m => Settled(e.from)'
               /\ outcome'[m] # "blocked" =>
                    \A e \in Edges : e.to = m /\ e.required => outcome'[e.from] = "succeeded"
               /\ outcome'[m] = "blocked" =>
                    \E e \in Edges : e.to = m /\ e.required /\ outcome'[e.from] \in {"failed", "blocked"}
    BY <2>1, <1>4, <1>5 DEF ScheduleInv, SettledBehind
  <2>2. \A e \in Edges : e.to = n => Settled(e.from)' /\ outcome'[e.from] = outcome[e.from]
    BY <1>1, <1>4, <1>5
  <2>3. ASSUME result # "blocked", NEW e \in Edges, e.to = n, e.required
        PROVE  outcome'[e.from] = "succeeded"
    <3>1. outcome[e.from] \notin {"failed", "blocked"}
      BY <2>3 DEF BlockedBy
    <3>2. outcome[e.from] # "pending"
      BY <2>3, <1>1 DEF Settled
    <3> QED BY <3>1, <3>2, <2>2, <2>3, <1>5 DEF ScheduleTypeOK
  <2>4. ASSUME result = "blocked"
        PROVE  \E e \in Edges : e.to = n /\ e.required /\ outcome'[e.from] \in {"failed", "blocked"}
    BY <2>4, <2>2 DEF BlockedBy
  <2> QED BY <2>1, <2>2, <2>3, <2>4, <1>2, <1>3, <1>6 DEF SettledBehind
<1>9. StuckPending'
  <2> SUFFICES ASSUME NEW S \in SUBSET Service,
                      \A s \in S : \E d \in plan : d.dependent = s /\ d.service \in S,
                      NEW s \in S
               PROVE  ~Settled(StartNode(s))'
    BY DEF StuckPending
  <2>1. \A t \in S : ~Settled(StartNode(t))
    BY DEF ScheduleInv, StuckPending
  <2>2. StartNode(s) # n
    <3> SUFFICES ASSUME StartNode(s) = n PROVE FALSE
      OBVIOUS
    <3>1. PICK d \in plan : d.dependent = s /\ d.service \in S
      OBVIOUS
    <3>2. Settled(Gate(d))
      <4>1. [from |-> Gate(d), to |-> StartNode(s), required |-> d.required] \in Edges
        BY <3>1, IntoStart DEF ScheduleTypeOK
      <4> QED BY <4>1, <1>1
    <3>3. Settled(StartNode(d.service))
      <4>1. [from |-> StartNode(d.service), to |-> Gate(d), required |-> TRUE] \in Edges
        BY IntoGate DEF ScheduleTypeOK
      <4>2. Gate(d) \in Nodes
        BY StartsAndGates
      <4> QED BY <3>2, <4>1, <4>2 DEF ScheduleInv, SettledBehind
    <3> QED BY <3>1, <3>3, <2>1
  <2> QED BY <2>1, <2>2, <1>6, StartsAndGates
<1>10. Ends'
  BY DEF Ends
<1>11. Accounted'
  <2> SUFFICES ASSUME NEW s \in Service
               PROVE  /\ outcome'[StartNode(s)] = "failed" => \A d \in plan : d.service = s => ~d.required
                      /\ outcome'[StartNode(s)] = "blocked" =>
                           \E b \in blockers' :
                             /\ b.service = s
                             /\ \E d \in plan : d.dependent = s /\ d.required /\ Gate(d) = b.unmet
                             /\ outcome'[b.unmet] \in {"failed", "blocked"}
    BY DEF Accounted, Gate
  <2>1. blockers \subseteq blockers'
    OBVIOUS
  <2>2. CASE StartNode(s) # n
    <3>1. outcome'[StartNode(s)] = outcome[StartNode(s)]
      BY <2>2, <1>3, StartsAndGates
    <3>2. ASSUME outcome[StartNode(s)] = "blocked"
          PROVE  \E b \in blockers' :
                   /\ b.service = s
                   /\ \E d \in plan : d.dependent = s /\ d.required /\ Gate(d) = b.unmet
                   /\ outcome'[b.unmet] \in {"failed", "blocked"}
      <4>1. PICK b \in blockers :
              /\ b.service = s
              /\ \E d \in plan : d.dependent = s /\ d.required /\ Gate(d) = b.unmet
              /\ outcome[b.unmet] \in {"failed", "blocked"}
        BY <3>2 DEF ScheduleInv, Accounted
      <4>2. b.unmet \in Nodes
        BY <4>1, StartsAndGates
      <4>3. outcome'[b.unmet] = outcome[b.unmet]
        BY <4>1, <4>2, <1>1, <1>3
      <4> QED BY <4>1, <4>3, <2>1
    <3> QED BY <3>1, <3>2 DEF ScheduleInv, Accounted
  <2>3. CASE StartNode(s) = n
    <3>1. IsStart(n) /\ n.service = s
      BY <2>3, StartsAndGates
    <3>2. ASSUME result = "failed" PROVE \A d \in plan : d.service = s => ~d.required
      BY <2>3, <3>1, <3>2 DEF OptionalOnly
    <3>3. ASSUME result = "blocked"
          PROVE  \E b \in blockers' :
                   /\ b.service = s
                   /\ \E d \in plan : d.dependent = s /\ d.required /\ Gate(d) = b.unmet
                   /\ outcome'[b.unmet] \in {"failed", "blocked"}
      <4>1. PICK unmet \in BlockedBy(n) :
              blockers' = blockers \cup {[service |-> s, unmet |-> unmet]}
        BY <3>1, <3>3
      <4>2. PICK e \in Edges : /\ e.to = n /\ e.required /\ unmet = e.from
                               /\ outcome[e.from] \in {"failed", "blocked"}
        BY DEF BlockedBy
      <4>3. PICK d \in plan : d.dependent = s /\ e.from = Gate(d) /\ (e.required <=> d.required)
        BY <2>3, <4>2, IntoStart DEF ScheduleTypeOK
      <4>4. outcome'[unmet] \in {"failed", "blocked"}
        BY <4>2, <1>1, <1>3, <1>5
      <4>5. d.required /\ Gate(d) = unmet
        BY <4>2, <4>3
      <4> DEFINE b == [service |-> s, unmet |-> unmet]
      <4>6. b \in blockers' /\ b.service = s /\ b.unmet = unmet
        BY <4>1
      <4> HIDE DEF b
      <4>7. \E c \in plan : c.dependent = s /\ c.required /\ Gate(c) = unmet
        BY <4>3, <4>5
      <4> QED BY <4>4, <4>6, <4>7
    <3> QED BY <2>3, <3>2, <3>3, <1>3
  <2> QED BY <2>2, <2>3
<1> QED BY <1>7, <1>8, <1>9, <1>10, <1>11 DEF ScheduleInv

LEMMA InvNext == ScheduleTypeOK /\ ScheduleInv /\ [ScheduleNext]_scheduleVars => ScheduleInv'
<1> SUFFICES ASSUME ScheduleTypeOK, ScheduleInv, [ScheduleNext]_scheduleVars PROVE ScheduleInv'
  OBVIOUS
<1>1. CASE UNCHANGED scheduleVars
  <2>1. UNCHANGED <<plan, outcome, wave, phase, blockers>> /\ Nodes' = Nodes /\ Edges' = Edges
    BY <1>1, GraphStays DEF scheduleVars
  <2>2. WaveReady' /\ SettledBehind' /\ Ends'
    BY <2>1 DEF ScheduleInv, WaveReady, SettledBehind, Ends, Settled
  <2>3. StuckPending'
    BY <2>1 DEF ScheduleInv, StuckPending, Settled
  <2>4. Accounted'
    BY <2>1 DEF ScheduleInv, Accounted
  <2> QED BY <2>2, <2>3, <2>4 DEF ScheduleInv
<1>2. CASE ScheduleNext
  <2>1. CASE phase' = "error" /\ UNCHANGED <<outcome, wave, blockers>>
    <3>1. plan' = plan
      BY <1>2, Steps
    <3>2. Nodes' = Nodes /\ Edges' = Edges
      BY <3>1, GraphStays
    <3>3. WaveReady' /\ SettledBehind' /\ Ends'
      BY <2>1, <3>1, <3>2 DEF ScheduleInv, WaveReady, SettledBehind, Ends, Settled
    <3>4. StuckPending'
      BY <2>1, <3>1 DEF ScheduleInv, StuckPending, Settled
    <3>5. Accounted'
      BY <2>1, <3>1 DEF ScheduleInv, Accounted
    <3> QED BY <3>3, <3>4, <3>5 DEF ScheduleInv
  <2> QED BY <1>2, <2>1, Steps, WaveStep, SettleStep
<1> QED BY <1>1, <1>2

LEMMA ScheduleInvariant == ScheduleSpec => [](ScheduleTypeOK /\ ScheduleInv)
<1>1. ScheduleInit => ScheduleTypeOK /\ ScheduleInv
  BY ScheduleTypesStart, InvInit
<1>2. ScheduleTypeOK /\ ScheduleInv /\ [ScheduleNext]_scheduleVars => (ScheduleTypeOK /\ ScheduleInv)'
  BY ScheduleTypesStep, InvNext
<1> QED BY <1>1, <1>2, PTL DEF ScheduleSpec

-----------------------------------------------------------------------------
(* The theorems.                                                            *)

\* A service is started only after every condition it asks for has been decided, and only if
\* the required ones hold: the promise of depends_on, for every plan.
THEOREM Ordered == ScheduleSpec => []DependenciesFirst
<1>1. ASSUME ScheduleTypeOK, ScheduleInv PROVE DependenciesFirst
  <2> SUFFICES ASSUME NEW d \in plan, outcome[StartNode(d.dependent)] \in {"succeeded", "failed"}
               PROVE  /\ outcome[Gate(d)] # "pending"
                      /\ d.required => /\ outcome[Gate(d)] = "succeeded"
                                       /\ outcome[StartNode(d.service)] = "succeeded"
    BY DEF DependenciesFirst
  <2>1. d.dependent \in Service /\ d.service \in Service
    BY <1>1 DEF ScheduleTypeOK, Dependency
  <2>2. StartNode(d.dependent) \in Nodes /\ Gate(d) \in Nodes
    BY <2>1, StartsAndGates
  <2>3. [from |-> Gate(d), to |-> StartNode(d.dependent), required |-> d.required] \in Edges
    BY <1>1, <2>1, IntoStart DEF ScheduleTypeOK
  <2>4. [from |-> StartNode(d.service), to |-> Gate(d), required |-> TRUE] \in Edges
    BY <1>1, IntoGate DEF ScheduleTypeOK
  <2>5. Settled(Gate(d)) /\ (d.required => outcome[Gate(d)] = "succeeded")
    BY <1>1, <2>2, <2>3 DEF ScheduleInv, SettledBehind, Settled
  <2>6. d.required => outcome[StartNode(d.service)] = "succeeded"
    BY <1>1, <2>2, <2>4, <2>5 DEF ScheduleInv, SettledBehind, Settled
  <2> QED BY <2>5, <2>6 DEF Settled
<1> QED BY <1>1, ScheduleInvariant, PTL

\* A cycle, and only a cycle, is reported, with exactly the services it keeps from starting.
THEOREM CyclesReported == ScheduleSpec => []CyclesAreReported
<1>1. ASSUME ScheduleTypeOK, ScheduleInv PROVE CyclesAreReported
  <2>1. ASSUME NEW s \in Stuck PROVE s \in Service /\ ~Settled(StartNode(s))
    <3>1. PICK S \in SUBSET Service :
            s \in S /\ \A t \in S : \E d \in plan : d.dependent = t /\ d.service \in S
      BY DEF Stuck
    <3> QED BY <1>1, <3>1 DEF ScheduleInv, StuckPending
  <2>2. ASSUME phase = "settled" PROVE Stuck = {}
    <3> SUFFICES ASSUME NEW s \in Stuck PROVE FALSE
      OBVIOUS
    <3>1. s \in Service /\ ~Settled(StartNode(s))
      BY <2>1
    <3>2. StartNode(s) \in Nodes
      BY <3>1, StartsAndGates
    <3> QED BY <1>1, <2>2, <3>1, <3>2 DEF ScheduleInv, Ends
  <2>3. ASSUME phase = "cycle"
        PROVE  Stuck = {s \in Service : outcome[StartNode(s)] = "pending"} /\ Stuck # {}
    <3> DEFINE P == {s \in Service : outcome[StartNode(s)] = "pending"}
    <3>1. /\ \E n \in Nodes : ~Settled(n)
          /\ \A n \in Nodes : ~Settled(n) => \E e \in Edges : e.to = n /\ ~Settled(e.from)
      BY <1>1, <2>3 DEF ScheduleInv, Ends
    <3>2. ASSUME NEW d \in plan, ~Settled(Gate(d)) PROVE d.service \in P
      <4>1. PICK e \in Edges : e.to = Gate(d) /\ ~Settled(e.from)
        BY <3>1, <3>2, StartsAndGates
      <4>2. e.from = StartNode(d.service)
        BY <1>1, <4>1, IntoGate DEF ScheduleTypeOK
      <4> QED BY <1>1, <4>1, <4>2 DEF ScheduleTypeOK, Dependency, Settled
    <3>3. ASSUME NEW s \in P PROVE \E d \in plan : d.dependent = s /\ d.service \in P
      <4>1. PICK e \in Edges : e.to = StartNode(s) /\ ~Settled(e.from)
        BY <3>1, StartsAndGates DEF Settled
      <4>2. PICK d \in plan : d.dependent = s /\ e.from = Gate(d)
        BY <1>1, <4>1, IntoStart DEF ScheduleTypeOK
      <4> QED BY <3>2, <4>1, <4>2
    <3>4. P \subseteq Stuck
      BY <3>3 DEF Stuck
    <3>5. Stuck \subseteq P
      BY <2>1 DEF Settled
    <3>6. P # {}
      <4>1. PICK n \in Nodes : ~Settled(n)
        BY <3>1
      <4>2. CASE \E s \in Service : n = StartNode(s)
        BY <4>1, <4>2 DEF Settled
      <4>3. CASE \E d \in plan : n = Gate(d)
        BY <4>1, <4>3, <3>2
      <4> QED BY <4>2, <4>3, StartsAndGates
    <3> QED BY <3>4, <3>5, <3>6
  <2> QED BY <2>2, <2>3 DEF CyclesAreReported
<1> QED BY <1>1, ScheduleInvariant, PTL

\* A settled schedule accounts for every service that is not up.
THEOREM NothingIsHidden == ScheduleSpec => []NothingHidden
<1>1. ASSUME ScheduleTypeOK, ScheduleInv PROVE NothingHidden
  <2> SUFFICES ASSUME phase = "settled", NEW s \in Service, outcome[StartNode(s)] # "succeeded"
               PROVE  \/ outcome[StartNode(s)] = "failed" /\ \A d \in plan : d.service = s => ~d.required
                      \/ \E b \in blockers :
                           /\ b.service = s
                           /\ \E d \in plan : d.dependent = s /\ d.required /\ Gate(d) = b.unmet
                           /\ outcome[b.unmet] = "failed" \/ outcome[StartNode(b.unmet.service)] # "succeeded"
    BY DEF NothingHidden
  <2>1. StartNode(s) \in Nodes
    BY StartsAndGates
  <2>2. outcome[StartNode(s)] \in {"failed", "blocked"}
    BY <1>1, <2>1 DEF ScheduleTypeOK, ScheduleInv, Ends, Settled
  <2>3. CASE outcome[StartNode(s)] = "failed"
    BY <1>1, <2>3 DEF ScheduleInv, Accounted
  <2>4. CASE outcome[StartNode(s)] = "blocked"
    <3>1. PICK b \in blockers :
            /\ b.service = s
            /\ \E d \in plan : d.dependent = s /\ d.required /\ Gate(d) = b.unmet
            /\ outcome[b.unmet] \in {"failed", "blocked"}
      BY <1>1, <2>4 DEF ScheduleInv, Accounted
    <3>2. PICK d \in plan : d.dependent = s /\ d.required /\ Gate(d) = b.unmet
      BY <3>1
    <3>3. ASSUME outcome[b.unmet] = "blocked"
          PROVE  outcome[StartNode(b.unmet.service)] # "succeeded"
      <4>1. Gate(d) \in Nodes /\ Gate(d).service = d.service
        BY StartsAndGates
      <4>2. PICK e \in Edges : e.to = Gate(d) /\ outcome[e.from] \in {"failed", "blocked"}
        BY <1>1, <3>2, <3>3, <4>1 DEF ScheduleInv, SettledBehind, Settled
      <4>3. e.from = StartNode(d.service)
        BY <1>1, <4>2, IntoGate DEF ScheduleTypeOK
      <4> QED BY <3>2, <4>1, <4>2, <4>3
    <3> QED BY <3>1, <3>3
  <2> QED BY <2>2, <2>3, <2>4
<1> QED BY <1>1, ScheduleInvariant, PTL

\* However a schedule ends, a cycle is told and every service that is not up is accounted for.
THEOREM AllAccounted == ScheduleSpec => []NothingUnexplained
<1>1. CyclesAreReported /\ NothingHidden => NothingUnexplained
  BY DEF NothingUnexplained
<1> QED BY <1>1, CyclesReported, NothingIsHidden, PTL

-----------------------------------------------------------------------------
(* The claims on a volume.                                                  *)

LEMMA ClaimEdges ==
  /\ ClaimEdge["record-creation"] = [from |-> {"absent"}, to |-> "fresh"]
  /\ ClaimEdge["begin"] = [from |-> {"fresh"}, to |-> "in-progress"]
  /\ ClaimEdge["finish-seeded"] = [from |-> {"in-progress"}, to |-> "seeded"]
  /\ ClaimEdge["finish-failed"] = [from |-> {"in-progress"}, to |-> "failed"]
  BY DEF ClaimEdge

\* What a write does to the record, by its operation.
LEMMA CreationWrites ==
  ASSUME NEW p \in Process, Write(p, "record-creation"), initRecord \in Record \cup {NoRecord}
  PROVE  \/ UNCHANGED initRecord
         \/ /\ initRecord' = [id |-> id[p], phase |-> "fresh", op |-> NoHolder]
            /\ Generation(initRecord) # id[p].gen
<1>1. CASE ~Advances(p, "record-creation", id[p])
  BY <1>1 DEF Write
<1>2. CASE Advances(p, "record-creation", id[p])
  <2>1. PhaseFor(id[p]) = "absent"
    BY <1>2, ClaimEdges DEF Advances
  <2>2. ~Matches(id[p])
    BY <2>1 DEF PhaseFor, Matches, Record, Phase
  <2>3. Generation(initRecord) # id[p].gen
    BY <1>2, <2>2 DEF Advances, Allowed, BaselineDrifted
  <2>4. initRecord' = [id |-> id[p], phase |-> "fresh", op |-> NoHolder]
    BY <1>2, ClaimEdges DEF Write
  <2> QED BY <2>3, <2>4
<1> QED BY <1>1, <1>2

LEMMA BeginWrites ==
  ASSUME NEW p \in Process, Write(p, "begin")
  PROVE  IF Advances(p, "begin", id[p])
           THEN /\ initRecord # NoRecord /\ initRecord.id = id[p] /\ initRecord.phase = "fresh"
                /\ initRecord' = [id |-> id[p], phase |-> "in-progress", op |-> p]
           ELSE UNCHANGED initRecord
  BY ClaimEdges DEF Write, Advances, PhaseFor, Matches

LEMMA FinishWrites ==
  ASSUME NEW p \in Process, NEW operation \in {"finish-seeded", "finish-failed"},
         Write(p, operation)
  PROVE  \/ UNCHANGED initRecord
         \/ /\ initRecord # NoRecord /\ initRecord.id = id[p] /\ initRecord.phase = "in-progress"
            /\ initRecord.op = p
            /\ \E ph \in {"seeded", "failed"} :
                 initRecord' = [id |-> id[p], phase |-> ph, op |-> p]
  BY ClaimEdges DEF Write, Advances, Allowed, MeetsPreconditions, PhaseFor, Matches

-----------------------------------------------------------------------------
(* Types.                                                                   *)

LEMMA ClaimsTypesStart == ClaimsInit => ClaimsTypeOK
  BY GenerationsAssumption, DistinctAssumption
  DEF GenerationsAssumption, DistinctAssumption, ClaimsInit, ClaimsTypeOK

LEMMA ClaimsTypesStep == ClaimsTypeOK /\ [ClaimsNext]_claimsVars => ClaimsTypeOK'
<1> SUFFICES ASSUME ClaimsTypeOK, [ClaimsNext]_claimsVars PROVE ClaimsTypeOK'
  OBVIOUS
<1> USE GenerationsAssumption, DistinctAssumption, NoneAssumption
    DEF GenerationsAssumption, DistinctAssumption, NoneAssumption
<1> USE DEF ClaimsTypeOK, Proceed, Leave
<1>a. ASSUME NEW p \in Process, id[p] \in Identity, NEW ph \in Phase,
             NEW o \in Process \cup {NoHolder}
      PROVE  [id |-> id[p], phase |-> ph, op |-> o] \in Record
  BY <1>a DEF Record
<1>1. ASSUME NEW p \in Process, CreateVolume(p) PROVE ClaimsTypeOK'
  <2>1. PICK o \in Owner : volume' = [gen |-> made + 1, owner |-> o, origin |-> "created"]
    BY <1>1 DEF CreateVolume
  <2>2. made + 1 \in 1..MaxGenerations
    BY <1>1 DEF CreateVolume
  <2>3. volume' \in Identity
    BY <2>1, <2>2 DEF Identity
  <2> QED BY <1>1, <2>2, <2>3 DEF CreateVolume
<1>2. ASSUME NEW p \in Process, Locate(p) PROVE ClaimsTypeOK'
  BY <1>2 DEF Locate
<1>3. ASSUME NEW p \in Process, CoordinationLock(p) PROVE ClaimsTypeOK'
  BY <1>3 DEF CoordinationLock
<1>4. ASSUME NEW p \in Process, LockTimesOut(p) PROVE ClaimsTypeOK'
  BY <1>4 DEF LockTimesOut
<1>5. ASSUME NEW p \in Process, Verify(p) PROVE ClaimsTypeOK'
  BY <1>5 DEF Verify
<1>6. ASSUME NEW p \in Process, OpenForCreation(p) PROVE ClaimsTypeOK'
  BY <1>6 DEF OpenForCreation
<1>7. ASSUME NEW p \in Process, RecordCreation(p) PROVE ClaimsTypeOK'
  <2>1. id[p] \in Identity
    BY <1>7 DEF RecordCreation
  <2>2. initRecord' \in Record \cup {NoRecord}
    BY <1>7, <1>a, <2>1, CreationWrites DEF RecordCreation, Phase
  <2> QED BY <1>7, <2>2 DEF RecordCreation
<1>8. ASSUME NEW p \in Process, OpenHandle(p) PROVE ClaimsTypeOK'
  BY <1>8 DEF OpenHandle
<1>9. ASSUME NEW p \in Process, BeginClaim(p) PROVE ClaimsTypeOK'
  <2>1. id[p] \in Identity
    BY <1>9 DEF BeginClaim
  <2>2. initRecord' \in Record \cup {NoRecord}
    BY <1>9, <1>a, <2>1, BeginWrites DEF BeginClaim, Phase
  <2> QED BY <1>9, <2>1, <2>2 DEF BeginClaim
<1>10. ASSUME NEW p \in Process, Finish(p) PROVE ClaimsTypeOK'
  <2>1. id[p] \in Identity
    BY <1>10 DEF Finish
  <2>2. initRecord' \in Record \cup {NoRecord}
    BY <1>10, <1>a, <2>1, FinishWrites DEF Finish, Phase
  <2> QED BY <1>10, <2>2 DEF Finish
<1>11. ASSUME NEW p \in Process, GiveUp(p) PROVE ClaimsTypeOK'
  BY <1>11 DEF GiveUp
<1>12. CASE DeleteVolume
  BY <1>12 DEF DeleteVolume
<1>13. CASE AdoptVolume
  <2>1. PICK o \in Owner : volume' = [gen |-> made + 1, owner |-> o, origin |-> "adopted"]
    BY <1>13 DEF AdoptVolume
  <2>2. made + 1 \in 1..MaxGenerations
    BY <1>13 DEF AdoptVolume
  <2>3. volume' \in Identity
    BY <2>1, <2>2 DEF Identity
  <2> QED BY <1>13, <2>2, <2>3 DEF AdoptVolume
<1>14. CASE UNCHANGED claimsVars
  BY <1>14 DEF claimsVars
<1> HIDE DEF ClaimsTypeOK
<1> QED
  BY <1>1, <1>2, <1>3, <1>4, <1>5, <1>6, <1>7, <1>8, <1>9, <1>10, <1>11, <1>12, <1>13, <1>14
  DEF ClaimsNext, Recording, Seeding

(* Every variable keeps its type; a recorder past the lock holds it.        *)
THEOREM ClaimsTypes == ClaimsSpec => []ClaimsTypeOK
  BY ClaimsTypesStart, ClaimsTypesStep, PTL DEF ClaimsSpec

LEMMA WrittenRecord ==
  ASSUME ClaimsTypeOK, NEW p \in Process, id[p] # NoVolume, NEW ph \in Phase,
         NEW o \in Process \cup {NoHolder}
  PROVE  [id |-> id[p], phase |-> ph, op |-> o] # NoRecord
<1>1. [id |-> id[p], phase |-> ph, op |-> o] \in Record
  BY DEF ClaimsTypeOK, Record
<1> QED BY <1>1, NoneAssumption DEF NoneAssumption

-----------------------------------------------------------------------------
(* Claims and outcomes.                                                     *)

\* Generations are recorded in their order: the lock holder's is not behind the record.
GenerationsInOrder ==
  /\ volume # NoVolume => volume.gen = made
  /\ Generation(initRecord) <= made
  /\ \A p \in Process : id[p] # NoVolume => id[p].gen <= made
  /\ \A p \in Process : claimStep[p] \in {"open", "record"} => Generation(initRecord) <= id[p].gen

\* A claim is about a volume no later than the record's, and no longer fresh if about its own.
ClaimsRecorded ==
  \A c \in claims :
    /\ initRecord # NoRecord /\ c[1].gen <= initRecord.id.gen
    /\ c[1].gen = initRecord.id.gen => c[1] = initRecord.id /\ initRecord.phase # "fresh"

ClaimInv ==
  ClaimsTypeOK /\ GenerationsInOrder /\ ClaimsRecorded /\ OneClaimPerGeneration /\ OutcomeByClaimer

\* How a step may change the record and the claims.
RecordForward ==
  initRecord # NoRecord =>
    /\ initRecord' # NoRecord
    /\ \/ initRecord'.id.gen > initRecord.id.gen
       \/ initRecord' = initRecord
       \/ initRecord'.id = initRecord.id /\ Rank(initRecord.phase) < Rank(initRecord'.phase)

LEMMA ClaimInvInit == ClaimsInit => ClaimInv
<1> SUFFICES ASSUME ClaimsInit PROVE ClaimInv
  OBVIOUS
<1>1. Generation(initRecord) = 0 /\ made = 0
  BY DEF ClaimsInit, Generation
<1> QED
  BY <1>1, ClaimsTypesStart DEF ClaimsInit, ClaimInv, GenerationsInOrder, ClaimsRecorded,
     OneClaimPerGeneration, OutcomeByClaimer

\* The steps that touch neither the record nor the claims.
Quiet(p) == \/ CreateVolume(p) \/ Locate(p) \/ CoordinationLock(p) \/ LockTimesOut(p)
            \/ Verify(p) \/ OpenForCreation(p) \/ OpenHandle(p) \/ GiveUp(p)

LEMMA GenerationType ==
  ASSUME ClaimsTypeOK
  PROVE  /\ made \in Nat /\ Generation(initRecord) \in Nat
         /\ volume # NoVolume => volume.gen \in Nat
         /\ \A p \in Process : id[p] # NoVolume => id[p].gen \in Nat
         /\ \A c \in claims : c[1].gen \in Nat
         /\ initRecord # NoRecord => initRecord.id.gen \in Nat /\ initRecord.id.gen = Generation(initRecord)
  BY GenerationsAssumption DEF GenerationsAssumption, ClaimsTypeOK, Identity, Record, Generation

LEMMA QuietKeepsClaims ==
  ASSUME ClaimInv, ClaimsTypeOK', DeleteVolume \/ AdoptVolume \/ UNCHANGED claimsVars
                            \/ \E p \in Process : Quiet(p)
  PROVE  ClaimInv' /\ RecordForward
<1> USE DEF ClaimInv
<1>1. UNCHANGED <<initRecord, claims>>
  BY DEF Quiet, DeleteVolume, AdoptVolume, claimsVars, CreateVolume, Locate, CoordinationLock,
     LockTimesOut, Verify, OpenForCreation, OpenHandle, GiveUp
<1>2. (ClaimsRecorded /\ OneClaimPerGeneration /\ OutcomeByClaimer)' /\ RecordForward
  BY <1>1 DEF ClaimsRecorded, OneClaimPerGeneration, OutcomeByClaimer, RecordForward
<1>3. GenerationsInOrder'
  <2> USE GenerationType DEF GenerationsInOrder, Proceed, Leave
  <2>0. ClaimsTypeOK /\ Generation(initRecord)' = Generation(initRecord)
    BY <1>1 DEF Generation
  <2>1. ASSUME NEW p \in Process, CreateVolume(p) PROVE GenerationsInOrder'
    <3>1. /\ volume'.gen = made + 1 /\ made' = made + 1
          /\ id' = [id EXCEPT ![p] = volume'] /\ claimStep' = [claimStep EXCEPT ![p] = "locate"]
      BY <2>1 DEF CreateVolume
    <3> QED BY <2>0, <3>1 DEF ClaimsTypeOK
  <2>2. ASSUME NEW p \in Process, CoordinationLock(p) PROVE GenerationsInOrder'
    BY <2>0, <2>2 DEF CoordinationLock, ClaimsTypeOK
  <2>3. ASSUME NEW p \in Process, Verify(p) PROVE GenerationsInOrder'
    BY <2>0, <2>3 DEF Verify, ClaimsTypeOK
  <2>4. ASSUME NEW p \in Process, OpenForCreation(p) PROVE GenerationsInOrder'
    BY <2>0, <2>4 DEF OpenForCreation, ClaimsTypeOK
  <2>5. ASSUME NEW p \in Process, OpenHandle(p) PROVE GenerationsInOrder'
    BY <2>0, <2>5 DEF OpenHandle, ClaimsTypeOK
  <2>6. ASSUME NEW p \in Process, Locate(p) PROVE GenerationsInOrder'
    BY <2>0, <2>6 DEF Locate, ClaimsTypeOK
  <2>7. ASSUME NEW p \in Process, LockTimesOut(p) \/ GiveUp(p) PROVE GenerationsInOrder'
    BY <2>0, <2>7 DEF LockTimesOut, GiveUp, ClaimsTypeOK
  <2>8. CASE DeleteVolume
    BY <2>0, <2>8 DEF DeleteVolume
  <2>9. CASE AdoptVolume
    <3>1. volume'.gen = made + 1 /\ made' = made + 1 /\ UNCHANGED <<id, claimStep>>
      BY <2>9 DEF AdoptVolume
    <3> QED BY <2>0, <3>1
  <2>10. CASE UNCHANGED claimsVars
    BY <2>0, <2>10 DEF claimsVars
  <2> QED
    BY <2>1, <2>2, <2>3, <2>4, <2>5, <2>6, <2>7, <2>8, <2>9, <2>10 DEF Quiet
<1> QED BY <1>2, <1>3

LEMMA CreationKeepsClaims ==
  ASSUME ClaimInv, ClaimsTypeOK', NEW p \in Process, RecordCreation(p)
  PROVE  ClaimInv' /\ RecordForward
<1> USE DEF ClaimInv
<1>1. claimStep[p] = "record" /\ id[p] # NoVolume /\ UNCHANGED <<volume, made, claims>>
  BY DEF RecordCreation, ClaimsTypeOK
<1>2. \/ UNCHANGED initRecord
      \/ /\ initRecord' = [id |-> id[p], phase |-> "fresh", op |-> NoHolder]
         /\ Generation(initRecord) < id[p].gen
  BY <1>1, CreationWrites, GenerationType DEF RecordCreation, ClaimsTypeOK, GenerationsInOrder
<1>3. /\ \A q \in Process : id'[q] # NoVolume => id'[q] = id[q]
      /\ \A q \in Process : claimStep'[q] \in {"open", "record"} => FALSE
  <2>1. \A q \in Process \ {p} : claimStep[q] \notin {"open", "record"}
    BY <1>1 DEF ClaimsTypeOK
  <2> QED BY <2>1 DEF RecordCreation, Leave, Proceed, ClaimsTypeOK
<1>4. Generation(initRecord)' = Generation(initRecord) \/ Generation(initRecord)' = id[p].gen
  BY <1>1, <1>2, WrittenRecord DEF Generation, Phase
<1>5. GenerationsInOrder'
  BY <1>1, <1>3, <1>4, GenerationType DEF GenerationsInOrder
<1>6. RecordForward
  BY <1>1, <1>2, GenerationType, WrittenRecord DEF RecordForward, Phase
<1>7. (ClaimsRecorded /\ OneClaimPerGeneration /\ OutcomeByClaimer)'
  BY <1>1, <1>2, <1>6, GenerationType
  DEF ClaimsRecorded, OneClaimPerGeneration, OutcomeByClaimer, RecordForward
<1> QED BY <1>5, <1>6, <1>7

LEMMA BeginKeepsClaims ==
  ASSUME ClaimInv, ClaimsTypeOK', NEW p \in Process, BeginClaim(p)
  PROVE  ClaimInv' /\ RecordForward
<1> USE DEF ClaimInv
<1>1. claimStep[p] = "opened" /\ id[p] # NoVolume /\ UNCHANGED <<volume, made>>
  BY DEF BeginClaim, ClaimsTypeOK
<1>2. CASE ~Advances(p, "begin", id[p])
  <2>1. UNCHANGED <<initRecord, claims>> /\ Leave(p)
    BY <1>2, BeginWrites DEF BeginClaim
  <2>2. GenerationsInOrder'
    BY <1>1, <2>1 DEF GenerationsInOrder, Leave, Proceed, ClaimsTypeOK, Generation
  <2> QED
    BY <2>1, <2>2 DEF ClaimsRecorded, OneClaimPerGeneration, OutcomeByClaimer, RecordForward
<1>3. CASE Advances(p, "begin", id[p])
  <2>1. /\ initRecord # NoRecord /\ initRecord.id = id[p] /\ initRecord.phase = "fresh"
        /\ initRecord' = [id |-> id[p], phase |-> "in-progress", op |-> p]
        /\ claims' = claims \cup {<<id[p], p>>}
        /\ Proceed(p, "seeding") /\ UNCHANGED id
    BY <1>3, BeginWrites DEF BeginClaim
  <2>2. initRecord' # NoRecord
    BY <1>1, <2>1, WrittenRecord DEF Phase
  <2>3. GenerationsInOrder'
    BY <1>1, <2>1, <2>2 DEF GenerationsInOrder, Proceed, ClaimsTypeOK, Generation
  <2>4. RecordForward
    BY <2>1, <2>2 DEF RecordForward, Rank
  <2>5. \A c \in claims : c[1].gen # id[p].gen
    BY <2>1 DEF ClaimsRecorded
  <2>6. ClaimsRecorded' /\ OneClaimPerGeneration' /\ OutcomeByClaimer'
    BY <2>1, <2>2, <2>5, GenerationType
    DEF ClaimsRecorded, OneClaimPerGeneration, OutcomeByClaimer
  <2> QED BY <2>3, <2>4, <2>6
<1> QED BY <1>2, <1>3

LEMMA FinishKeepsClaims ==
  ASSUME ClaimInv, ClaimsTypeOK', NEW p \in Process, Finish(p)
  PROVE  ClaimInv' /\ RecordForward
<1> USE DEF ClaimInv
<1>1. UNCHANGED <<volume, made, claimStep, id, claims>>
  BY DEF Finish
<1>2. PICK operation \in {"finish-seeded", "finish-failed"} : Write(p, operation)
  BY DEF Finish
<1>3. CASE UNCHANGED initRecord
  BY <1>1, <1>3 DEF GenerationsInOrder, ClaimsRecorded, OneClaimPerGeneration, OutcomeByClaimer,
     RecordForward, Generation
<1>4. ASSUME NEW ph \in {"seeded", "failed"}, initRecord # NoRecord, initRecord.id = id[p],
             initRecord.phase = "in-progress", initRecord.op = p,
             initRecord' = [id |-> id[p], phase |-> ph, op |-> p]
      PROVE  ClaimInv' /\ RecordForward
  <2>1. initRecord' # NoRecord
    <3>1. id[p] # NoVolume
      BY DEF Finish, ClaimsTypeOK
    <3> QED BY <1>4, <3>1, WrittenRecord DEF Phase
  <2>2. GenerationsInOrder'
    BY <1>1, <1>4, <2>1 DEF GenerationsInOrder, Generation
  <2>3. RecordForward
    BY <1>4, <2>1 DEF RecordForward, Rank
  <2>4. ClaimsRecorded' /\ OneClaimPerGeneration' /\ OutcomeByClaimer'
    BY <1>1, <1>4, <2>1 DEF ClaimsRecorded, OneClaimPerGeneration, OutcomeByClaimer
  <2> QED BY <2>2, <2>3, <2>4
<1> QED BY <1>2, <1>3, <1>4, FinishWrites

LEMMA ClaimInvNext == ClaimInv /\ [ClaimsNext]_claimsVars => ClaimInv' /\ (RecordForward \/ UNCHANGED claimsVars)
<1> SUFFICES ASSUME ClaimInv, [ClaimsNext]_claimsVars PROVE ClaimInv' /\ (RecordForward \/ UNCHANGED claimsVars)
  OBVIOUS
<1>1. ClaimsTypeOK'
  BY ClaimsTypesStep DEF ClaimInv
<1> QED
  BY <1>1, QuietKeepsClaims, CreationKeepsClaims, BeginKeepsClaims, FinishKeepsClaims
  DEF ClaimsNext, Recording, Seeding, Quiet

(* A generation of the volume is claimed once at most, whatever handles,    *)
(* deletions and repeated receipts there are.                               *)
THEOREM OneClaim == ClaimsSpec => []OneClaimPerGeneration
<1>1. ClaimInv => OneClaimPerGeneration
  BY DEF ClaimInv
<1> QED BY <1>1, ClaimInvInit, ClaimInvNext, PTL DEF ClaimsSpec

(* An outcome was written by the operation that claimed that very volume.   *)
THEOREM Outcomes == ClaimsSpec => []OutcomeByClaimer
<1>1. ClaimInv => OutcomeByClaimer
  BY DEF ClaimInv
<1> QED BY <1>1, ClaimInvInit, ClaimInvNext, PTL DEF ClaimsSpec

(* The record goes forward only, by generation and then by phase.           *)
THEOREM NoRegress == ClaimsSpec => RecordNeverRegresses
  BY ClaimInvInit, ClaimInvNext, PTL DEF ClaimsSpec, RecordNeverRegresses, RecordForward

-----------------------------------------------------------------------------
(* Synchronised mounts: no write is given up, no app writes to a volume     *)
(* before the journal says it may, and no volume is left without a record   *)
(* but for an old completion receipt.                                       *)
(*                                                                          *)
(* The argument: as long as the engine knows the app, every volume with a   *)
(* writer or with writes of its own has its session (EngineInv); when it    *)
(* has forgotten the app, such a volume belongs to the saved plan or to an  *)
(* attempt that recorded its intent (WriterInv), and then neither a start   *)
(* makes the session anew nor a destroy goes on (AttemptInv, DisposalInv).  *)

\* The engine's phase tells what it holds, and a drained app is quiet.
EngineInv ==
  /\ engine \in {"absent", "disposing", "completed"} => sessions = {}
  /\ engine \in {"active", "drained", "disposing"} => Explained # {}
  /\ engine # "absent" => writers \cup dirty \subseteq sessions
  /\ engine = "drained" => writers \cup dirty = {}

\* Only a saved plan and an attempt past its intent have volumes in use.
WriterInv ==
  /\ writers \cup dirty \subseteq targets
  /\ writers \cup dirty \subseteq
       applied.plan \cup (IF journal.phase = "apply-intent" THEN journal.plan ELSE {})

\* The journal, the saved plan and the start under way agree on the plan.
PlanInv ==
  /\ Unfinished /\ applied.plan # {} => journal.plan = applied.plan
  /\ cmd.step \in {"preflight", "reprepare", "begin", "prepare", "sessions", "intent", "apply",
                   "remember"} /\ Unfinished => journal.plan = cmd.plan
  /\ cmd.step \in {"reprepare", "prepare", "sessions", "intent", "complete"} => Unfinished
  /\ cmd.step \in {"apply", "remember"} =>
       IF cmd.plan = {} THEN ~Unfinished /\ applied.plan = {} ELSE journal.phase = "apply-intent"
  /\ At("complete") => journal.phase = "apply-intent" /\ applied.plan = journal.plan
  /\ cmd.step \in {"preflight", "begin"} /\ ~Unfinished /\ applied.plan # {} =>
       applied.plan = cmd.plan

\* What a start has secured when it is at a step.
AttemptInv ==
  /\ cmd.step \in {"reprepare", "begin", "prepare", "sessions"} /\ applied.plan # {} => Covered
  /\ At("begin") /\ Unfinished => cmd.plan \subseteq targets
  /\ cmd.step \in {"sessions", "intent", "apply"} => cmd.plan \subseteq targets
  /\ cmd.step \in {"intent", "apply"} => cmd.plan \subseteq sessions
  /\ cmd.step \in {"begin", "prepare", "sessions", "intent", "apply"} =>
       engine \in {"absent", "active", "completed"}
  /\ At("prepare") => journal.phase = "preparing"
  /\ cmd.resumed # "none" =>
       cmd.step \in {"sessions", "intent", "apply", "remember", "complete"}
  /\ At("sessions") => (cmd.resumed = "apply-intent" <=> journal.phase = "apply-intent")
  /\ At("intent") => journal.phase # "preparing"

\* What a stop, a disposal or a destroy has secured when it is at a step.
DisposalInv ==
  /\ cmd.step \in {"quiesce", "drain", "dispose", "targets", "retire", "forget", "clear"} =>
       /\ applied.plan # {} => cmd.old = applied.plan
       /\ Unfinished => cmd.old = journal.plan /\ cmd.kind # "start"
  /\ At("quiesce") => RetainedUnapplied \/ DisposalCommitted \/ Covered
  /\ cmd.step \in {"drain", "dispose", "targets", "retire", "forget", "clear", "final"} =>
       writers = {}
  /\ cmd.step \in {"drain", "targets", "retire", "forget", "clear"} /\ engine = "absent" =>
       dirty = {}
  /\ At("dispose") => engine \in {"drained", "disposing"}
  /\ At("targets") => engine \in {"disposing", "absent"}
  /\ cmd.step \in {"retire", "forget", "clear"} =>
       engine \in {"completed", "absent"} /\ targets \cap cmd.old \subseteq skipped
  /\ At("clear") => applied.plan = {}

HistoryInv == NoWriteLost /\ OnlySkippedAreStranded

IInv == /\ AcceleratedTypeOK /\ EngineInv /\ WriterInv /\ PlanInv /\ AttemptInv /\ DisposalInv
        /\ HistoryInv

-----------------------------------------------------------------------------
(* The two places where writes could be given up.                           *)

\* A start that makes a session anew does so for a volume that holds nothing of the app.
LEMMA FreshSessionLosesNothing ==
  ASSUME IInv, NEW m \in Mount, CreateSession(m)
  PROVE  m \notin dirty
<1> USE DEF IInv, CreateSession, At
<1>1. CASE engine # "absent"
  BY <1>1 DEF EngineInv
<1>2. CASE engine = "absent"
  <2>1. sessions = {}
    BY <1>2 DEF EngineInv
  <2>2. applied.plan = {}
    BY <2>1 DEF AttemptInv, Covered
  <2>3. journal.phase # "apply-intent"
    BY DEF AttemptInv
  <2> QED BY <2>2, <2>3 DEF WriterInv
<1> QED BY <1>1, <1>2

\* A destroy or rotation removes a volume only after the drain brought everything back.
LEMMA DisposedTargetLosesNothing ==
  ASSUME IInv, NEW m \in Mount, DisposeTarget(m)
  PROVE  m \notin dirty
<1> USE DEF IInv, DisposeTarget, At
<1>1. CASE engine = "disposing"
  BY <1>1 DEF EngineInv
<1>2. CASE engine = "absent"
  BY <1>2 DEF DisposalInv
<1> QED BY <1>1, <1>2 DEF DisposalInv

-----------------------------------------------------------------------------
(* The steps keep the invariant.                                            *)

LEMMA InitHolds == AcceleratedInit => IInv
  BY DEF AcceleratedInit, IInv, AcceleratedTypeOK, EngineInv, WriterInv, PlanInv, AttemptInv,
         DisposalInv, HistoryInv, NoWriteLost, OnlySkippedAreStranded, Explained, Unfinished,
         NoStart, NotApplied, NoCommand, Idle, At, Accelerable

\* Start, up to the attempt's record.
LEMMA PreparingKeeps ==
  ASSUME IInv,
         \/ BeginStart \/ Rotate \/ PreflightApplied \/ PreflightPending \/ InvalidateDrain
         \/ \E m \in Mount : PrepareTarget(m)
  PROVE  IInv'
<1> USE DEF IInv, AcceleratedTypeOK, EngineInv, WriterInv, PlanInv, AttemptInv, DisposalInv,
            HistoryInv, NoWriteLost, OnlySkippedAreStranded, Explained, Unfinished, Inspected,
            Covered, DisposalCommitted, RetainedUnapplied, Idle, At, Turn, Accelerable,
            disk, volumes, sync, ghostSync
<1>1. CASE BeginStart
  BY <1>1 DEF BeginStart, Begin
<1>2. CASE Rotate
  <2>1. CASE NothingToRotate /\ Turn("preflight")
    <3>1. AcceleratedTypeOK' /\ EngineInv' /\ WriterInv' /\ HistoryInv'
      BY <1>2, <2>1 DEF Rotate
    <3>2. PlanInv' /\ AttemptInv'
      BY <1>2, <2>1 DEF Rotate, NothingToRotate
    <3>3. DisposalInv'
      BY <1>2, <2>1 DEF Rotate
    <3> QED BY <3>1, <3>2, <3>3
  <2>2. CASE ~Unfinished /\ cmd' = [cmd EXCEPT !.step = "quiesce", !.old = applied.plan]
    BY <1>2, <2>2 DEF Rotate, NothingToRotate
  <2> QED BY <1>2, <2>1, <2>2 DEF Rotate
<1>3. CASE PreflightApplied
  BY <1>3 DEF PreflightApplied
<1>4. CASE PreflightPending
  BY <1>4 DEF PreflightPending
<1>5. CASE InvalidateDrain
  BY <1>5 DEF InvalidateDrain
<1>6. ASSUME NEW m \in Mount, PrepareTarget(m) PROVE IInv'
  BY <1>6 DEF PrepareTarget
<1> QED BY <1>1, <1>2, <1>3, <1>4, <1>5, <1>6

\* Start, from the attempt's record on.
LEMMA AttemptKeeps ==
  ASSUME IInv,
         \/ BeginJournal \/ BeginOrdinary \/ Prepared \/ RecordSessions \/ RecordApplyIntent
         \/ ApplyContainers \/ RememberApplied \/ CompleteStart
         \/ \E m \in Mount : CreateSession(m)
  PROVE  IInv'
<1> USE DEF IInv, AcceleratedTypeOK, EngineInv, WriterInv, PlanInv, AttemptInv, DisposalInv,
            HistoryInv, NoWriteLost, OnlySkippedAreStranded, Explained, Unfinished, Inspected,
            Covered, DisposalCommitted, RetainedUnapplied, Idle, At, Turn, Done, NoCommand,
            Accelerable, disk, volumes, sync, ghostSync
<1>1. CASE BeginJournal
  <2>1. CASE Unfinished
    <3>1. AcceleratedTypeOK'
      <4>1. journal.phase \in {"preparing", "sessions-ready", "apply-intent"}
        BY <2>1
      <4>2. /\ cmd' = [cmd EXCEPT !.step = "sessions", !.resumed = journal.phase]
            /\ ~Idle
            /\ UNCHANGED <<landofile, disk, volumes, sync, ghostSync>>
        BY <1>1, <2>1 DEF BeginJournal
      <4> QED BY <4>1, <4>2
    <3>2. EngineInv' /\ HistoryInv'
      BY <1>1, <2>1 DEF BeginJournal
    <3>3. WriterInv'
      BY <1>1, <2>1 DEF BeginJournal
    <3>4. PlanInv'
      BY <1>1, <2>1 DEF BeginJournal
    <3>5. AttemptInv'
      BY <1>1, <2>1 DEF BeginJournal
    <3>6. DisposalInv'
      BY <1>1, <2>1 DEF BeginJournal
    <3> QED BY <3>1, <3>2, <3>3, <3>4, <3>5, <3>6
  <2>2. CASE ~Unfinished
    <3>1. AcceleratedTypeOK' /\ EngineInv' /\ WriterInv' /\ HistoryInv'
      BY <1>1, <2>2 DEF BeginJournal
    <3>2. PlanInv' /\ AttemptInv'
      BY <1>1, <2>2 DEF BeginJournal
    <3>3. DisposalInv'
      BY <1>1, <2>2 DEF BeginJournal
    <3> QED BY <3>1, <3>2, <3>3
  <2> QED BY <2>1, <2>2
<1>2. CASE BeginOrdinary
  BY <1>2 DEF BeginOrdinary
<1>3. CASE Prepared
  <2>1. AcceleratedTypeOK' /\ EngineInv' /\ WriterInv' /\ HistoryInv'
    BY <1>3 DEF Prepared
  <2>2. PlanInv'
    BY <1>3 DEF Prepared
  <2>3. AttemptInv'
    BY <1>3 DEF Prepared
  <2>4. DisposalInv'
    BY <1>3 DEF Prepared
  <2> QED BY <2>1, <2>2, <2>3, <2>4
<1>4. ASSUME NEW m \in Mount, CreateSession(m) PROVE IInv'
  <2>1. lost' = {}
    BY <1>4, FreshSessionLosesNothing DEF CreateSession
  <2> QED BY <1>4, <2>1 DEF CreateSession
<1>5. CASE RecordSessions
  BY <1>5 DEF RecordSessions, Advance, JournalEdge
<1>6. CASE RecordApplyIntent
  BY <1>6 DEF RecordApplyIntent, Advance, JournalEdge
<1>7. CASE ApplyContainers
  BY <1>7 DEF ApplyContainers
<1>8. CASE RememberApplied
  BY <1>8 DEF RememberApplied
<1>9. CASE CompleteStart
  BY <1>9 DEF CompleteStart, Advance, JournalEdge
<1> QED BY <1>1, <1>2, <1>3, <1>4, <1>5, <1>6, <1>7, <1>8, <1>9

LEMMA StopKeeps ==
  ASSUME IInv, StopSteps
  PROVE  IInv'
<1> USE DEF IInv, AcceleratedTypeOK, EngineInv, WriterInv, PlanInv, AttemptInv, DisposalInv,
            HistoryInv, NoWriteLost, OnlySkippedAreStranded, Explained, Unfinished,
            Covered, Idle, At, Turn, Done, NoCommand, Accelerable,
            disk, volumes, sync, ghostSync
<1>1. CASE BeginStop
  BY <1>1 DEF BeginStop, Begin
<1>2. CASE Halt
  BY <1>2 DEF Halt
<1>3. CASE FinalDrain
  BY <1>3 DEF FinalDrain, DrainApp
<1> QED BY <1>1, <1>2, <1>3 DEF StopSteps

\* Destroy and rotation, up to the removal of the volumes.
LEMMA DisposingKeeps ==
  ASSUME IInv,
         \/ BeginDestroy \/ Quiesce \/ QuiesceRetained \/ ResumeRetained \/ SkipDisposal
         \/ Drain \/ Dispose
         \/ \E m \in Mount : DisposeTarget(m)
  PROVE  IInv'
<1> USE DEF IInv, AcceleratedTypeOK, EngineInv, WriterInv, PlanInv, AttemptInv, DisposalInv,
            HistoryInv, NoWriteLost, OnlySkippedAreStranded, Explained, Unfinished, Inspected,
            Covered, DisposalCommitted, RetainedUnapplied, Idle, At, Turn, Accelerable,
            disk, volumes, sync, ghostSync
<1>1. CASE BeginDestroy
  BY <1>1 DEF BeginDestroy, Begin
<1>2. CASE Quiesce
  BY <1>2 DEF Quiesce
<1>3. CASE QuiesceRetained
  BY <1>3 DEF QuiesceRetained
<1>4. CASE ResumeRetained
  BY <1>4 DEF ResumeRetained
<1>5. CASE SkipDisposal
  BY <1>5 DEF SkipDisposal
<1>6. CASE Drain
  BY <1>6 DEF Drain, DrainApp
<1>7. CASE Dispose
  BY <1>7 DEF Dispose
<1>8. ASSUME NEW m \in Mount, DisposeTarget(m) PROVE IInv'
  <2>1. lost' = {}
    BY <1>8, DisposedTargetLosesNothing DEF DisposeTarget
  <2> QED BY <1>8, <2>1 DEF DisposeTarget
<1> QED BY <1>1, <1>2, <1>3, <1>4, <1>5, <1>6, <1>7, <1>8

\* Destroy and rotation, from the completion receipt on; the end of a command, and what
\* happens around it.
LEMMA RetiringKeeps ==
  ASSUME IInv, CompleteDisposal \/ Retire \/ Forget \/ ClearJournal \/ EndCommand \/ Surroundings
  PROVE  IInv'
<1> USE DEF IInv, AcceleratedTypeOK, EngineInv, WriterInv, PlanInv, AttemptInv, DisposalInv,
            HistoryInv, NoWriteLost, OnlySkippedAreStranded, Explained, Unfinished, Inspected,
            Covered, DisposalCommitted, RetainedUnapplied, Idle, At, Turn, Done, NoCommand,
            NotApplied, Accelerable, disk, volumes, sync, ghostSync
<1>1. CASE CompleteDisposal
  BY <1>1 DEF CompleteDisposal
<1>2. CASE Retire
  BY <1>2 DEF Retire
<1>3. CASE Forget
  BY <1>3 DEF Forget
<1>4. CASE ClearJournal
  BY <1>4 DEF ClearJournal
<1>5. CASE EndCommand
  BY <1>5 DEF EndCommand
<1>6. ASSUME NEW m \in Mount, AppWrites(m) PROVE IInv'
  BY <1>6 DEF AppWrites
<1>7. ASSUME NEW m \in Mount, SessionSyncs(m) PROVE IInv'
  BY <1>7 DEF SessionSyncs
<1>8. CASE EditLandofile
  BY <1>8 DEF EditLandofile
<1>9. CASE LoseLedger
  BY <1>9 DEF LoseLedger
<1> QED BY <1>1, <1>2, <1>3, <1>4, <1>5, <1>6, <1>7, <1>8, <1>9 DEF Surroundings

LEMMA StepKeeps == IInv /\ [AcceleratedNext]_acceleratedVars => IInv'
<1> SUFFICES ASSUME IInv, [AcceleratedNext]_acceleratedVars PROVE IInv'
  OBVIOUS
<1>1. CASE StartSteps
  BY <1>1, PreparingKeeps, AttemptKeeps DEF StartSteps
<1>2. CASE DestroySteps
  BY <1>2, DisposingKeeps, RetiringKeeps DEF DestroySteps
<1>3. CASE UNCHANGED acceleratedVars
  BY <1>3 DEF acceleratedVars, IInv, AcceleratedTypeOK, EngineInv, WriterInv, PlanInv, AttemptInv,
              DisposalInv, HistoryInv, NoWriteLost, OnlySkippedAreStranded, Explained, Unfinished,
              Inspected, Covered, DisposalCommitted, RetainedUnapplied, Idle, At
<1> QED BY <1>1, <1>2, <1>3, StopKeeps, RetiringKeeps DEF AcceleratedNext

LEMMA InvariantHolds == AcceleratedSpec => []IInv
  BY InitHolds, StepKeeps, PTL DEF AcceleratedSpec

-----------------------------------------------------------------------------
(* Theorems.                                                                *)

\* Every variable keeps its type, an unfinished attempt accelerates a mount, and an
\* accelerated plan is a saved one.
THEOREM AcceleratedTypes == AcceleratedSpec => []AcceleratedTypeOK
<1>1. IInv => AcceleratedTypeOK
  BY DEF IInv
<1> QED BY <1>1, InvariantHolds, PTL

\* No write of the app to a synchronised volume is given up by a start, stop or destroy
\* (start-file-sync.ts, destroy-file-sync.ts: coverage and drain before every disposal).
THEOREM WritesKept == AcceleratedSpec => []NoWriteLost
<1>1. IInv => NoWriteLost
  BY DEF IInv, HistoryInv
<1> QED BY <1>1, InvariantHolds, PTL

\* No app writes to a volume of an attempt before the journal records the intent to apply it
\* (start-internal.ts: record-apply-intent before the provider's apply).
THEOREM IntentPrecedesWriters == AcceleratedSpec => []NoEarlyWriter
<1>1. IInv => NoEarlyWriter
  BY DEF IInv, WriterInv, NoEarlyWriter, Inspected, Unfinished, AcceleratedTypeOK
<1> QED BY <1>1, InvariantHolds, PTL

\* A volume that neither the saved plan nor an open attempt names was passed over by a destroy
\* that trusted an old completion receipt (destroy-file-sync.ts: phase === "completed").
THEOREM StrandedWereSkipped == AcceleratedSpec => []OnlySkippedAreStranded
<1>1. IInv => OnlySkippedAreStranded
  BY DEF IInv, HistoryInv
<1> QED BY <1>1, InvariantHolds, PTL
=============================================================================
