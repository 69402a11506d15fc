----------------------------- MODULE EventDelivery -----------------------------
(***************************************************************************)
(* The event service of one process (engine/src/services/event-service.ts  *)
(* and event-delivery.ts): fibers publish, subscribers read from bounded   *)
(* queues that drop what does not fit, some with the history so far.       *)
(*                                                                         *)
(* A publication redacts the event first, which yields to other fibers;    *)
(* its commit to history and queues is one synchronous block.  What the    *)
(* manifest's handlers do with the event after that is theirs.  An event   *)
(* is named by a number; redaction keeps the name.                         *)
(***************************************************************************)
EXTENDS Naturals, Sequences

Seqs == INSTANCE SequencesExt

CONSTANTS
  Publisher, Subscriber,
  Capacity,       \* of a subscriber's queue
  HistoryCap,     \* events the history keeps
  MaxEvents       \* bound: publications

ASSUME CapacityAssumption == Capacity \in Nat /\ HistoryCap \in Nat /\ MaxEvents \in Nat

VARIABLES
  events,         \* publications begun
  history,        \* the retained events
  queue,          \* each subscriber's queue
  mode,           \* "none", "queue", "history" (subscribed), or "stopped"
  snapshot,       \* what subscribeWithHistory handed out
  received,       \* what the subscriber has taken
  dropped,        \* what did not fit
  fiber,          \* what each publisher is doing: its step, event and manifest flag
  committed,      \* history: every committed event, in order
  joined          \* history: events committed before each subscription

eventsVars == <<events, history, queue, mode, snapshot, received, dropped, fiber, committed, joined>>
reader == <<mode, snapshot, received, joined>>

NotPublishing == [step |-> "idle", event |-> 0, manifest |-> FALSE]

EventsInit ==
  /\ events = 0 /\ history = <<>> /\ committed = <<>>
  /\ queue = [s \in Subscriber |-> <<>>]
  /\ mode = [s \in Subscriber |-> "none"]
  /\ snapshot = [s \in Subscriber |-> <<>>]
  /\ received = [s \in Subscriber |-> <<>>]
  /\ dropped = [s \in Subscriber |-> 0]
  /\ fiber = [p \in Publisher |-> NotPublishing]
  /\ joined = [s \in Subscriber |-> 0]

-----------------------------------------------------------------------------
(* Subscriptions.                                                           *)

Subscribed(s) == mode[s] \in {"queue", "history"}

\* trackedSubscribe and trackedSubscribeQueue: from now on, without the history.
Subscribe(s) ==
  /\ mode[s] = "none"
  /\ mode' = [mode EXCEPT ![s] = "queue"]
  /\ joined' = [joined EXCEPT ![s] = Len(committed)]
  /\ UNCHANGED <<events, history, queue, snapshot, received, dropped, fiber, committed>>

SubscribeWithHistory_Later(s) ==
  /\ mode[s] \in {"none", "joining"}
  /\ IF mode[s] = "none"
       THEN /\ mode' = [mode EXCEPT ![s] = "joining"]
            /\ snapshot' = [snapshot EXCEPT ![s] = history]
            /\ joined' = [joined EXCEPT ![s] = Len(committed)]
       ELSE mode' = [mode EXCEPT ![s] = "history"] /\ UNCHANGED <<snapshot, joined>>
  /\ UNCHANGED <<events, history, queue, received, dropped, fiber, committed>>

\* The queue is registered and the history is read in one synchronous block.
SubscribeWithHistory(s) ==
  /\ mode[s] = "none"
  /\ mode' = [mode EXCEPT ![s] = "history"]
  /\ snapshot' = [snapshot EXCEPT ![s] = history]
  /\ joined' = [joined EXCEPT ![s] = Len(committed)]
  /\ UNCHANGED <<events, history, queue, received, dropped, fiber, committed>>

Take(s) ==
  /\ queue[s] # <<>>
  /\ received' = [received EXCEPT ![s] = Append(@, Head(queue[s]))]
  /\ queue' = [queue EXCEPT ![s] = Tail(@)]
  /\ UNCHANGED <<events, history, mode, snapshot, dropped, fiber, committed, joined>>

\* stop ends the deliveries; what is queued can still be taken.
StopDelivery(s) ==
  /\ mode[s] = "history"
  /\ mode' = [mode EXCEPT ![s] = "stopped"]
  /\ UNCHANGED <<events, history, queue, snapshot, received, dropped, fiber, committed, joined>>

\* The subscription's scope closes and the queue is shut down.
CloseSubscription(s) ==
  /\ mode[s] # "none"
  /\ mode' = [mode EXCEPT ![s] = "none"]
  /\ queue' = [queue EXCEPT ![s] = <<>>]
  /\ snapshot' = [snapshot EXCEPT ![s] = <<>>]
  /\ received' = [received EXCEPT ![s] = <<>>]
  /\ dropped' = [dropped EXCEPT ![s] = 0]
  /\ joined' = [joined EXCEPT ![s] = 0]
  /\ UNCHANGED <<events, history, fiber, committed>>

-----------------------------------------------------------------------------
(* Publications.                                                            *)

\* Whether manifest subscribers want the event is asked before the redaction.
Publish(p) ==
  /\ fiber[p].step = "idle" /\ events < MaxEvents
  /\ events' = events + 1
  /\ \E wanted \in BOOLEAN :
       fiber' = [fiber EXCEPT ![p] = [step |-> "redact", event |-> events + 1, manifest |-> wanted]]
  /\ UNCHANGED <<history, queue, reader, dropped, committed>>

HasDelivery(p) == fiber[p].manifest \/ \E s \in Subscriber : Subscribed(s)

\* Only an event somebody may get is validated.
Invalid(p) ==
  /\ fiber[p].step = "redact" /\ HasDelivery(p)
  /\ fiber' = [fiber EXCEPT ![p] = NotPublishing]
  /\ UNCHANGED <<events, history, queue, reader, dropped, committed>>

Retained(e) ==
  IF HistoryCap = 0 THEN history
  ELSE IF Len(history) < HistoryCap THEN Append(history, e) ELSE Append(Tail(history), e)

Fits(s) == Subscribed(s) /\ Len(queue[s]) < Capacity
Misses(s) == Subscribed(s) /\ Len(queue[s]) >= Capacity

CommitPublication(p) ==
  /\ fiber[p].step = "redact"
  /\ LET e == fiber[p].event IN
       /\ history' = Retained(e)
       /\ committed' = Append(committed, e)
       /\ queue' = [s \in Subscriber |-> IF Fits(s) THEN Append(queue[s], e) ELSE queue[s]]
       /\ dropped' = [s \in Subscriber |-> IF Misses(s) THEN dropped[s] + 1 ELSE dropped[s]]
  /\ fiber' = [fiber EXCEPT ![p] = NotPublishing]
  /\ UNCHANGED <<events, reader>>

\* The fiber ends while it redacts.
Interrupted(p) ==
  /\ fiber[p].step = "redact"
  /\ fiber' = [fiber EXCEPT ![p] = NotPublishing]
  /\ UNCHANGED <<events, history, queue, reader, dropped, committed>>

Publishing(p) == Publish(p) \/ Invalid(p) \/ CommitPublication(p) \/ Interrupted(p)
Reading(s) == Subscribe(s) \/ SubscribeWithHistory(s) \/ Take(s) \/ StopDelivery(s) \/ CloseSubscription(s)

EventsNext == (\E p \in Publisher : Publishing(p)) \/ (\E s \in Subscriber : Reading(s))

EventsSpec == EventsInit /\ [][EventsNext]_eventsVars

-----------------------------------------------------------------------------
(* Properties.                                                              *)

\* Types; a queue is never longer than its capacity.
EventsTypeOK ==
  /\ events \in 0..MaxEvents
  /\ history \in Seq(1..MaxEvents) /\ committed \in Seq(1..MaxEvents)
  /\ \A s \in Subscriber :
       /\ queue[s] \in Seq(1..MaxEvents) /\ Len(queue[s]) <= Capacity
       /\ snapshot[s] \in Seq(1..MaxEvents) /\ received[s] \in Seq(1..MaxEvents)
       /\ dropped[s] \in Nat /\ joined[s] \in Nat
  /\ mode \in [Subscriber -> {"none", "queue", "history", "stopped"}]
  /\ fiber \in [Publisher -> [step : {"idle", "redact"}, event : 0..MaxEvents,
                              manifest : BOOLEAN]]

Delivered(s) == received[s] \o queue[s]
InOrder(some, all) ==
  \E at \in [1..Len(some) -> 1..Len(all)] :
    /\ \A i \in 1..Len(some) : all[at[i]] = some[i]
    /\ \A i, j \in 1..Len(some) : i < j => at[i] < at[j]
Since(s) == SubSeq(committed, joined[s] + 1, Len(committed))

\* A subscriber sees every event committed since it joined, once and in the order of the
\* commits, except those its full queue refused, and these are counted; one that asked for the
\* history has no gap and no overlap between it and its queue (subscribeWithHistory's snapshot
\* and registration against publications that are under way).
NothingMissedUncounted ==
  \A s \in Subscriber :
    /\ Subscribed(s) => Len(Delivered(s)) + dropped[s] = Len(Since(s))
    /\ InOrder(Delivered(s), Since(s))
    /\ mode[s] = "history" =>
         /\ Seqs!IsSuffix(snapshot[s], SubSeq(committed, 1, joined[s]))
         /\ dropped[s] = 0 => Seqs!IsSuffix(snapshot[s] \o Delivered(s), committed)
=============================================================================
