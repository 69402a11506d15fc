------------------------- MODULE PluginServicesProofs -------------------------
(***************************************************************************)
(* What the services plugins call guarantee: the event service, to any     *)
(* subscribers, for any capacities; the managed files, for any owners,     *)
(* paths, callers and batches, and a user who edits at any time.           *)
(***************************************************************************)
EXTENDS EventDelivery, ManagedFiles, SequenceTheorems, FiniteSetTheorems, WellFoundedInduction, TLAPS

-----------------------------------------------------------------------------
(* Events.                                                                  *)

Event == 1..MaxEvents

\* EventsTypeOK with the domains of its functions, and an event for every fiber that redacts.
EventTypes ==
  /\ events \in 0..MaxEvents /\ history \in Seq(Event) /\ committed \in Seq(Event)
  /\ queue \in [Subscriber -> Seq(Event)] /\ \A s \in Subscriber : Len(queue[s]) <= Capacity
  /\ snapshot \in [Subscriber -> Seq(Event)] /\ received \in [Subscriber -> Seq(Event)]
  /\ dropped \in [Subscriber -> Nat] /\ joined \in [Subscriber -> Nat]
  /\ mode \in [Subscriber -> {"none", "queue", "history", "stopped"}]
  /\ fiber \in [Publisher -> [step : {"idle", "redact"}, event : 0..MaxEvents, manifest : BOOLEAN]]
  /\ \A p \in Publisher : fiber[p].step = "redact" => fiber[p].event \in Event

\* The first of some is at this place of all, its last at the end.
EndsAt(some, all, last) ==
  Len(some) <= last /\ \A i \in 1..Len(some) : some[i] = all[last - Len(some) + i]
\* What a subscriber got, at which places of the log it stands, and how much it lacks.
InLog(got, all, first) ==
  \E place \in [1..Len(got) -> Nat] :
    /\ \A i \in 1..Len(got) : first < place[i] /\ place[i] <= Len(all) /\ all[place[i]] = got[i]
    /\ \A i, j \in 1..Len(got) : i < j => place[i] < place[j]
Logged(s) ==
  /\ joined[s] <= Len(committed)
  /\ EndsAt(snapshot[s], committed, joined[s])
  /\ mode[s] = "none" => received[s] = <<>> /\ queue[s] = <<>> /\ dropped[s] = 0 /\ snapshot[s] = <<>>
  /\ InLog(Delivered(s), committed, joined[s])
  /\ Subscribed(s) =>
       /\ Len(Delivered(s)) + dropped[s] = Len(committed) - joined[s]
       /\ dropped[s] = 0 => \A i \in 1..Len(Delivered(s)) : Delivered(s)[i] = committed[joined[s] + i]
EventInv ==
  /\ EventTypes
  /\ EndsAt(history, committed, Len(committed)) /\ Len(history) <= HistoryCap
  /\ \A s \in Subscriber : Logged(s)

LEMMA DeliveredSeq ==
  ASSUME EventTypes, NEW s \in Subscriber
  PROVE  /\ Delivered(s) \in Seq(Event) /\ Len(Delivered(s)) = Len(received[s]) + Len(queue[s])
         /\ Len(committed) \in Nat /\ Len(history) \in Nat /\ Len(snapshot[s]) \in Nat
         /\ Len(Delivered(s)) \in Nat
  BY DEF EventTypes, Delivered

LEMMA NothingInLog == \A all, first : InLog(<<>>, all, first)
<1> TAKE all, first
<1>1. 1..Len(<<>>) = {}
  OBVIOUS
<1>2. [i \in 1..Len(<<>>) |-> 0] \in [1..Len(<<>>) -> Nat]
  OBVIOUS
<1> QED
  BY <1>1, <1>2 DEF InLog

LEMMA EventsStart == EventsInit => EventInv
<1> SUFFICES ASSUME EventsInit PROVE EventInv
  OBVIOUS
<1>1. EventTypes
  BY CapacityAssumption DEF CapacityAssumption, EventsInit, EventTypes, NotPublishing, Event
<1>2. \A s \in Subscriber : Delivered(s) = <<>>
  BY DEF EventsInit, Delivered
<1>3. ASSUME NEW s \in Subscriber PROVE Logged(s)
  BY <1>2, NothingInLog DEF EventsInit, Logged, Subscribed, EndsAt
<1> QED
  BY <1>1, <1>3, CapacityAssumption DEF CapacityAssumption, EventInv, EventsInit, EndsAt

\* A subscriber whom a step does not concern.
LEMMA LoggedStays ==
  ASSUME NEW s \in Subscriber, Logged(s), committed' = committed, joined'[s] = joined[s],
         snapshot'[s] = snapshot[s], mode'[s] = mode[s], received'[s] = received[s],
         queue'[s] = queue[s], dropped'[s] = dropped[s]
  PROVE  Logged(s)'
BY DEF Logged, Subscribed, Delivered

\* A subscriber that joins now, or has left, has got nothing of what was committed since.
LEMMA LoggedAnew ==
  ASSUME EventInv, NEW s \in Subscriber, committed' = committed, received'[s] = <<>>, queue'[s] = <<>>,
         dropped'[s] = 0,
         \/ mode'[s] \in {"queue", "history"} /\ joined'[s] = Len(committed) /\ snapshot'[s] \in {<<>>, history}
         \/ mode'[s] = "none" /\ joined'[s] = 0 /\ snapshot'[s] = <<>>
  PROVE  Logged(s)'
<1>1. Delivered(s)' = <<>>
  BY DEF Delivered
<1>2. Len(committed) \in Nat
  BY DEF EventInv, EventTypes
<1>3. InLog(Delivered(s), committed, joined[s])'
  BY <1>1, NothingInLog
<1>4. EndsAt(snapshot[s], committed, joined[s])' /\ joined'[s] <= Len(committed')
  <2>1. /\ EndsAt(history, committed, Len(committed))
        /\ EndsAt(<<>>, committed, Len(committed)) /\ EndsAt(<<>>, committed, 0)
    BY <1>2 DEF EventInv, EndsAt
  <2> QED
    BY <1>2, <2>1
<1>5. Len(Delivered(s)') = 0
  BY <1>1
<1> QED
  BY <1>2, <1>3, <1>4, <1>5 DEF Logged, Subscribed

LEMMA SubscribeKeeps ==
  ASSUME EventInv, NEW s \in Subscriber, Subscribe(s) \/ SubscribeWithHistory(s)
  PROVE  EventInv'
<1>1. EventTypes'
  <2>1. EventTypes /\ Len(committed) \in Nat
    BY DEF EventInv, EventTypes
  <2>2. mode' \in [Subscriber -> {"none", "queue", "history", "stopped"}]
    BY <2>1 DEF EventTypes, Subscribe, SubscribeWithHistory
  <2>3. joined' \in [Subscriber -> Nat]
    BY <2>1 DEF EventTypes, Subscribe, SubscribeWithHistory
  <2>4. snapshot' \in [Subscriber -> Seq(Event)]
    BY <2>1 DEF EventTypes, Subscribe, SubscribeWithHistory
  <2>5. /\ UNCHANGED <<events, history, queue, received, dropped, fiber, committed>>
    BY DEF Subscribe, SubscribeWithHistory
  <2> QED
    BY <2>1, <2>2, <2>3, <2>4, <2>5 DEF EventTypes
<1>2. Logged(s)'
  <2>1. Logged(s) /\ mode[s] = "none" /\ received'[s] = <<>> /\ queue'[s] = <<>> /\ dropped'[s] = 0
    BY DEF EventInv, Logged, Subscribe, SubscribeWithHistory
  <2>2. CASE SubscribeWithHistory(s)
    BY <2>1, <2>2, LoggedAnew DEF EventInv, EventTypes, SubscribeWithHistory
  <2>3. CASE Subscribe(s)
    <3>1. snapshot[s] = <<>>
      BY <2>1 DEF EventInv, Logged
    <3> QED
      BY <2>1, <2>3, <3>1, LoggedAnew DEF EventInv, EventTypes, Subscribe
  <2> QED
    BY <2>2, <2>3
<1>3. \A o \in Subscriber \ {s} : Logged(o)'
  BY LoggedStays DEF EventInv, EventTypes, Subscribe, SubscribeWithHistory
<1> QED
  BY <1>1, <1>2, <1>3 DEF EventInv, EndsAt, Subscribe, SubscribeWithHistory

\* What is taken moves from the queue to what was received.
LEMMA TakeMoves ==
  ASSUME NEW S, NEW r \in Seq(S), NEW q \in Seq(S), q # <<>>
  PROVE  Append(r, Head(q)) \o Tail(q) = r \o q
<1> DEFINE a == Append(r, Head(q))
           t == Tail(q)
           d == a \o t
<1>1. Len(r) \in Nat /\ Len(q) \in Nat /\ Head(q) = q[1] /\ Head(q) \in S /\ Len(q) >= 1
  BY HeadTailProperties
<1>2. a \in Seq(S) /\ Len(a) = Len(r) + 1 /\ a[Len(r) + 1] = q[1] /\ \A i \in 1..Len(r) : a[i] = r[i]
  BY <1>1, AppendProperties
<1>3. t \in Seq(S) /\ Len(t) = Len(q) - 1 /\ \A i \in 1..Len(q) - 1 : t[i] = q[i + 1]
  BY <1>1, HeadTailProperties
<1> HIDE DEF a, t
<1>4. d \in Seq(S) /\ Len(d) = Len(a) + Len(t)
      /\ \A i \in 1..Len(a) + Len(t) : d[i] = IF i <= Len(a) THEN a[i] ELSE t[i - Len(a)]
  BY <1>2, <1>3, ConcatProperties
<1>5. r \o q \in Seq(S) /\ Len(r \o q) = Len(r) + Len(q)
      /\ \A i \in 1..Len(r) + Len(q) : (r \o q)[i] = IF i <= Len(r) THEN r[i] ELSE q[i - Len(r)]
  BY ConcatProperties
<1> HIDE DEF d
<1>6. Len(d) = Len(r \o q)
  BY <1>1, <1>2, <1>3, <1>4, <1>5
<1>7. ASSUME NEW i \in 1..Len(d) PROVE d[i] = (r \o q)[i]
  <2>1. i \in 1..Len(a) + Len(t) /\ i \in 1..Len(r) + Len(q)
    BY <1>4, <1>5, <1>6
  <2>2. CASE i <= Len(r)
    BY <1>1, <1>2, <1>4, <1>5, <2>1, <2>2
  <2>3. CASE i = Len(r) + 1
    BY <1>1, <1>2, <1>4, <1>5, <2>1, <2>3
  <2>4. CASE i > Len(r) + 1
    <3>0. i \in Nat /\ i <= Len(r) + Len(q)
      BY <1>1, <2>1
    <3>1. PICK j \in 1..Len(q) - 1 : j = i - (Len(r) + 1) /\ j + 1 = i - Len(r)
      <4>1. /\ i - (Len(r) + 1) \in 1..Len(q) - 1
            /\ (i - (Len(r) + 1)) + 1 = i - Len(r)
        BY <1>1, <2>4, <3>0
      <4> QED
        BY <4>1
    <3>2. d[i] = t[j]
      BY <1>1, <1>2, <1>4, <2>1, <2>4, <3>1
    <3>3. (r \o q)[i] = q[j + 1]
      BY <1>1, <1>5, <2>1, <2>4, <3>1
    <3> QED
      BY <1>3, <3>2, <3>3
  <2> QED
    BY <1>1, <2>1, <2>2, <2>3, <2>4
<1> QED
  BY <1>4, <1>5, <1>6, <1>7, SeqEqual DEF a, t, d

LEMMA TakeKeeps ==
  ASSUME EventInv, NEW s \in Subscriber, Take(s)
  PROVE  EventInv'
<1>1. /\ received[s] \in Seq(Event) /\ queue[s] \in Seq(Event) /\ queue[s] # <<>>
      /\ received'[s] = Append(received[s], Head(queue[s])) /\ queue'[s] = Tail(queue[s])
      /\ \A o \in Subscriber \ {s} : received'[o] = received[o] /\ queue'[o] = queue[o]
  BY DEF EventInv, EventTypes, Take
<1>2. Delivered(s)' = Delivered(s) /\ received'[s] # <<>>
  <2>1. Head(queue[s]) \in Event
    BY <1>1, HeadTailProperties
  <2>2. Append(received[s], Head(queue[s])) \o Tail(queue[s]) = received[s] \o queue[s]
    BY <1>1, TakeMoves
  <2>3. Append(received[s], Head(queue[s])) # <<>>
    BY <1>1, <2>1, AppendProperties
  <2> QED
    BY <1>1, <2>2, <2>3 DEF Delivered
<1>3. EventTypes'
  <2>1. received'[s] \in Seq(Event) /\ queue'[s] \in Seq(Event) /\ Len(queue'[s]) <= Capacity
    BY <1>1, CapacityAssumption DEF EventInv, EventTypes, CapacityAssumption
  <2>2. received' \in [Subscriber -> Seq(Event)] /\ queue' \in [Subscriber -> Seq(Event)]
    BY <1>1, <2>1 DEF EventInv, EventTypes, Take
  <2> QED
    BY <1>1, <2>1, <2>2 DEF EventInv, EventTypes, Take
<1>4. Logged(s)'
  <2>1. Logged(s) /\ mode[s] # "none"
    BY <1>1 DEF EventInv, Logged
  <2> QED
    BY <1>2, <2>1 DEF Logged, Subscribed, Take
<1>5. \A o \in Subscriber \ {s} : Logged(o)'
  BY <1>1, LoggedStays DEF EventInv, Take
<1> QED
  BY <1>3, <1>4, <1>5 DEF EventInv, Take

LEMMA StopDeliveryKeeps ==
  ASSUME EventInv, NEW s \in Subscriber, StopDelivery(s)
  PROVE  EventInv'
<1>1. mode[s] = "history" /\ mode'[s] = "stopped" /\ \A o \in Subscriber \ {s} : mode'[o] = mode[o]
  BY DEF EventInv, EventTypes, StopDelivery
<1>2. EventTypes'
  BY DEF EventInv, EventTypes, StopDelivery
<1>3. Logged(s)'
  BY <1>1 DEF EventInv, Logged, Subscribed, Delivered, StopDelivery
<1>4. \A o \in Subscriber \ {s} : Logged(o)'
  BY <1>1, LoggedStays DEF EventInv, StopDelivery
<1> QED
  BY <1>2, <1>3, <1>4 DEF EventInv, StopDelivery

LEMMA CloseSubscriptionKeeps ==
  ASSUME EventInv, NEW s \in Subscriber, CloseSubscription(s)
  PROVE  EventInv'
<1>1. /\ mode'[s] = "none" /\ queue'[s] = <<>> /\ received'[s] = <<>> /\ snapshot'[s] = <<>>
      /\ dropped'[s] = 0 /\ joined'[s] = 0
      /\ \A o \in Subscriber \ {s} :
           /\ mode'[o] = mode[o] /\ queue'[o] = queue[o] /\ received'[o] = received[o]
           /\ snapshot'[o] = snapshot[o] /\ dropped'[o] = dropped[o] /\ joined'[o] = joined[o]
  BY DEF EventInv, EventTypes, CloseSubscription
<1>2. EventTypes'
  <2>1. <<>> \in Seq(Event) /\ Len(<<>>) <= Capacity
    BY CapacityAssumption DEF CapacityAssumption
  <2>2. /\ queue' \in [Subscriber -> Seq(Event)] /\ snapshot' \in [Subscriber -> Seq(Event)]
        /\ received' \in [Subscriber -> Seq(Event)]
    BY <2>1 DEF EventInv, EventTypes, CloseSubscription
  <2>3. /\ mode' \in [Subscriber -> {"none", "queue", "history", "stopped"}]
        /\ dropped' \in [Subscriber -> Nat] /\ joined' \in [Subscriber -> Nat]
    BY DEF EventInv, EventTypes, CloseSubscription
  <2> QED
    BY <1>1, <2>1, <2>2, <2>3 DEF EventInv, EventTypes, CloseSubscription
<1>3. Logged(s)'
  BY <1>1, LoggedAnew DEF CloseSubscription
<1>4. \A o \in Subscriber \ {s} : Logged(o)'
  BY <1>1, LoggedStays DEF EventInv, CloseSubscription
<1> QED
  BY <1>2, <1>3, <1>4 DEF EventInv, CloseSubscription

\* A publication up to its commit concerns no subscriber.
LEMMA PublishKeeps ==
  ASSUME EventInv, NEW p \in Publisher, Publish(p) \/ Invalid(p) \/ Interrupted(p)
  PROVE  EventInv'
<1>1. UNCHANGED <<history, queue, reader, dropped, committed>>
  BY DEF Publish, Invalid, Interrupted
<1>2. /\ events' \in 0..MaxEvents
      /\ fiber' \in [Publisher -> [step : {"idle", "redact"}, event : 0..MaxEvents, manifest : BOOLEAN]]
      /\ \A q \in Publisher : fiber'[q].step = "redact" => fiber'[q].event \in Event
  <2>1. /\ NotPublishing \in [step : {"idle", "redact"}, event : 0..MaxEvents, manifest : BOOLEAN]
        /\ NotPublishing.step = "idle"
    BY CapacityAssumption DEF CapacityAssumption, NotPublishing
  <2>2. CASE Invalid(p) \/ Interrupted(p)
    <3>1. fiber' = [fiber EXCEPT ![p] = NotPublishing] /\ events' = events
      BY <2>2 DEF Invalid, Interrupted
    <3> QED
      BY <2>1, <3>1 DEF EventInv, EventTypes
  <2>3. CASE Publish(p)
    <3>1. events + 1 \in Event /\ events + 1 \in 0..MaxEvents
      BY <2>3, CapacityAssumption DEF CapacityAssumption, EventInv, EventTypes, Publish, Event
    <3> QED
      BY <2>3, <3>1 DEF EventInv, EventTypes, Publish
  <2> QED
    BY <2>2, <2>3
<1>3. EventTypes'
  BY <1>1, <1>2 DEF EventInv, EventTypes, reader
<1>4. \A s \in Subscriber : Logged(s)'
  BY <1>1, LoggedStays DEF EventInv, reader
<1> QED
  BY <1>1, <1>3, <1>4 DEF EventInv

LEMMA EndsOn ==
  ASSUME NEW S, NEW all \in Seq(S), NEW on \in Seq(S), NEW some \in Seq(S), NEW last \in Nat,
         last <= Len(all), EndsAt(some, all, last), \A i \in 1..Len(all) : on[i] = all[i]
  PROVE  EndsAt(some, on, last)
<1>1. Len(some) \in Nat /\ Len(all) \in Nat /\ Len(some) <= last
  BY DEF EndsAt
<1>2. ASSUME NEW i \in 1..Len(some) PROVE some[i] = on[last - Len(some) + i]
  <2>1. last - Len(some) + i \in 1..Len(all)
    BY <1>1
  <2>2. on[last - Len(some) + i] = all[last - Len(some) + i]
    BY <2>1
  <2> QED
    BY <2>2 DEF EndsAt
<1> QED
  BY <1>1, <1>2 DEF EndsAt

\* The same event at the end of a log and of what ends it.
LEMMA EndsAppend ==
  ASSUME NEW S, NEW all \in Seq(S), NEW some \in Seq(S), NEW e \in S, EndsAt(some, all, Len(all))
  PROVE  EndsAt(Append(some, e), Append(all, e), Len(Append(all, e)))
<1> DEFINE a == Append(all, e)
           z == Append(some, e)
<1>1. Len(some) \in Nat /\ Len(all) \in Nat /\ Len(some) <= Len(all)
  BY DEF EndsAt
<1>2. Len(a) = Len(all) + 1 /\ a[Len(all) + 1] = e /\ \A i \in 1..Len(all) : a[i] = all[i]
  BY AppendProperties
<1>3. Len(z) = Len(some) + 1 /\ z[Len(some) + 1] = e /\ \A i \in 1..Len(some) : z[i] = some[i]
  BY AppendProperties
<1> HIDE DEF a, z
<1>4. ASSUME NEW i \in 1..Len(z) PROVE z[i] = a[Len(a) - Len(z) + i]
  <2>1. CASE i = Len(some) + 1
    <3>1. Len(a) - Len(z) + i = Len(all) + 1
      BY <1>1, <1>2, <1>3, <2>1
    <3> QED
      BY <1>2, <1>3, <2>1, <3>1
  <2>2. CASE i \in 1..Len(some)
    <3>1. Len(a) - Len(z) + i = Len(all) - Len(some) + i /\ Len(all) - Len(some) + i \in 1..Len(all)
      BY <1>1, <1>2, <1>3, <2>2
    <3>2. a[Len(all) - Len(some) + i] = all[Len(all) - Len(some) + i]
      BY <1>2, <3>1
    <3>3. some[i] = all[Len(all) - Len(some) + i]
      BY <2>2 DEF EndsAt
    <3> QED
      BY <1>3, <2>2, <3>1, <3>2, <3>3
  <2> QED
    BY <1>1, <1>3, <2>1, <2>2
<1>5. Len(z) <= Len(a)
  BY <1>1, <1>2, <1>3
<1> QED
  BY <1>4, <1>5 DEF EndsAt, a, z

LEMMA EndsTail ==
  ASSUME NEW S, NEW all \in Seq(S), NEW some \in Seq(S), some # <<>>, EndsAt(some, all, Len(all))
  PROVE  EndsAt(Tail(some), all, Len(all))
<1>1. Len(some) \in Nat /\ Len(all) \in Nat /\ Len(some) <= Len(all) /\ Len(Tail(some)) = Len(some) - 1
      /\ \A i \in 1..Len(some) - 1 : Tail(some)[i] = some[i + 1]
  BY HeadTailProperties DEF EndsAt
<1>2. ASSUME NEW i \in 1..Len(some) - 1 PROVE Tail(some)[i] = all[Len(all) - Len(Tail(some)) + i]
  <2>1. i + 1 \in 1..Len(some) /\ Len(all) - Len(Tail(some)) + i = Len(all) - Len(some) + (i + 1)
    BY <1>1
  <2>2. some[i + 1] = all[Len(all) - Len(some) + (i + 1)]
    BY <2>1 DEF EndsAt
  <2> QED
    BY <1>1, <2>1, <2>2
<1> QED
  BY <1>1, <1>2 DEF EndsAt

\* The log and a sequence that stands in it, when both get the same event at their end.
LEMMA InLogOn ==
  ASSUME NEW all \in Seq(Event), NEW got \in Seq(Event), NEW first \in Nat, NEW e \in Event,
         first <= Len(all), InLog(got, all, first)
  PROVE  InLog(got, Append(all, e), first) /\ InLog(Append(got, e), Append(all, e), first)
<1>1. PICK place \in [1..Len(got) -> Nat] :
        /\ \A i \in 1..Len(got) : first < place[i] /\ place[i] <= Len(all) /\ all[place[i]] = got[i]
        /\ \A i, j \in 1..Len(got) : i < j => place[i] < place[j]
  BY DEF InLog
<1>2. /\ Len(all) \in Nat /\ Len(got) \in Nat
      /\ Len(Append(all, e)) = Len(all) + 1 /\ Append(all, e)[Len(all) + 1] = e
      /\ \A i \in 1..Len(all) : Append(all, e)[i] = all[i]
      /\ Len(Append(got, e)) = Len(got) + 1 /\ Append(got, e)[Len(got) + 1] = e
      /\ \A i \in 1..Len(got) : Append(got, e)[i] = got[i]
  BY AppendProperties
<1>3. InLog(got, Append(all, e), first)
  <2>1. \A i \in 1..Len(got) :
          first < place[i] /\ place[i] <= Len(Append(all, e)) /\ Append(all, e)[place[i]] = got[i]
    BY <1>1, <1>2
  <2> QED
    BY <1>1, <2>1 DEF InLog
<1>4. InLog(Append(got, e), Append(all, e), first)
  <2>0. 1..Len(Append(got, e)) = 1..Len(got) \cup {Len(got) + 1} /\ Len(all) + 1 \in Nat
    BY <1>2
  <2> DEFINE on == [i \in 1..Len(Append(got, e)) |-> IF i = Len(got) + 1 THEN Len(all) + 1 ELSE place[i]]
  <2>1. on \in [1..Len(Append(got, e)) -> Nat]
    BY <2>0
  <2>2. \A i \in 1..Len(Append(got, e)) :
          first < on[i] /\ on[i] <= Len(Append(all, e)) /\ Append(all, e)[on[i]] = Append(got, e)[i]
    BY <1>1, <1>2
  <2>3. ASSUME NEW i \in 1..Len(Append(got, e)), NEW j \in 1..Len(Append(got, e)), i < j
        PROVE  on[i] < on[j]
    <3>1. i \in 1..Len(got) /\ on[i] = place[i]
      BY <1>2, <2>3
    <3>2. CASE j \in 1..Len(got)
      BY <1>1, <1>2, <2>3, <3>1, <3>2
    <3>3. CASE j = Len(got) + 1
      BY <1>1, <1>2, <2>0, <3>1, <3>3
    <3> QED
      BY <2>0, <3>2, <3>3
  <2> HIDE DEF on
  <2> QED
    BY <2>1, <2>2, <2>3 DEF InLog
<1> QED
  BY <1>3, <1>4

LEMMA AppendMoves ==
  \A r, q \in Seq(Event), e \in Event : r \o Append(q, e) = Append(r \o q, e)
<1> TAKE r, q \in Seq(Event), e \in Event
<1>1. Append(q, e) = q \o <<e>> /\ <<e>> \in Seq(Event) /\ r \o q \in Seq(Event)
  BY AppendIsConcat, ConcatProperties
<1>2. Append(r \o q, e) = (r \o q) \o <<e>>
  BY <1>1, AppendIsConcat
<1> QED
  BY <1>1, <1>2, ConcatAssociative

LEMMA CommitKeeps ==
  ASSUME EventInv, NEW p \in Publisher, CommitPublication(p)
  PROVE  EventInv'
<1> DEFINE e == fiber[p].event
<1>1. e \in Event /\ committed' = Append(committed, e) /\ history' = Retained(e)
  BY DEF EventInv, EventTypes, CommitPublication
<1> HIDE DEF e
<1>2. /\ committed \in Seq(Event) /\ Len(committed) \in Nat /\ committed' \in Seq(Event)
      /\ Len(committed') = Len(committed) + 1 /\ committed'[Len(committed) + 1] = e
      /\ \A i \in 1..Len(committed) : committed'[i] = committed[i]
  BY <1>1, AppendProperties DEF EventInv, EventTypes
<1>3. history' \in Seq(Event) /\ EndsAt(history', committed', Len(committed')) /\ Len(history') <= HistoryCap
  <2>1. history \in Seq(Event) /\ EndsAt(history, committed, Len(committed)) /\ Len(history) \in Nat
        /\ Len(history) <= HistoryCap /\ HistoryCap \in Nat
    BY CapacityAssumption DEF CapacityAssumption, EventInv, EventTypes
  <2>2. CASE HistoryCap = 0
    <3>1. history' = history /\ Len(history) = 0
      BY <1>1, <2>1, <2>2 DEF Retained
    <3> QED
      BY <1>2, <2>1, <2>2, <3>1 DEF EndsAt
  <2>3. CASE HistoryCap # 0 /\ Len(history) < HistoryCap
    <3>1. history' = Append(history, e)
      BY <1>1, <2>1, <2>3 DEF Retained
    <3>2. history' \in Seq(Event) /\ Len(history') = Len(history) + 1
      BY <1>1, <2>1, <3>1, AppendProperties
    <3> QED
      BY <1>1, <1>2, <2>1, <2>3, <3>1, <3>2, EndsAppend
  <2>4. CASE HistoryCap # 0 /\ Len(history) = HistoryCap
    <3>1. history # <<>> /\ Tail(history) \in Seq(Event) /\ Len(Tail(history)) = Len(history) - 1
      BY <2>1, <2>4, HeadTailProperties
    <3>2. history' = Append(Tail(history), e)
      BY <1>1, <2>1, <2>4 DEF Retained
    <3>3. history' \in Seq(Event) /\ Len(history') = Len(history)
      BY <1>1, <2>1, <3>1, <3>2, AppendProperties
    <3>4. EndsAt(Tail(history), committed, Len(committed))
      BY <1>2, <2>1, <3>1, EndsTail
    <3> QED
      BY <1>1, <1>2, <2>1, <2>4, <3>1, <3>2, <3>3, <3>4, EndsAppend
  <2> QED
    BY <2>1, <2>2, <2>3, <2>4
<1>4. EventTypes'
  <2>1. ASSUME NEW s \in Subscriber PROVE queue'[s] \in Seq(Event) /\ Len(queue'[s]) <= Capacity
    <3>1. queue[s] \in Seq(Event) /\ Len(queue[s]) <= Capacity /\ Len(queue[s]) \in Nat /\ Capacity \in Nat
      BY CapacityAssumption DEF CapacityAssumption, EventInv, EventTypes
    <3>2. queue'[s] = IF Fits(s) THEN Append(queue[s], e) ELSE queue[s]
      BY DEF CommitPublication, e
    <3> QED
      BY <1>1, <3>1, <3>2, AppendProperties DEF Fits
  <2>2. queue' \in [Subscriber -> Seq(Event)] /\ dropped' \in [Subscriber -> Nat]
    BY <2>1 DEF EventInv, EventTypes, CommitPublication
  <2>3. fiber' = [fiber EXCEPT ![p] = NotPublishing] /\ UNCHANGED <<events, reader>>
    BY DEF CommitPublication
  <2>4. /\ NotPublishing \in [step : {"idle", "redact"}, event : 0..MaxEvents, manifest : BOOLEAN]
        /\ NotPublishing.step = "idle"
    BY CapacityAssumption DEF CapacityAssumption, NotPublishing
  <2>5. /\ fiber' \in [Publisher -> [step : {"idle", "redact"}, event : 0..MaxEvents, manifest : BOOLEAN]]
        /\ \A o \in Publisher : fiber'[o].step = "redact" => fiber'[o].event \in Event
    BY <2>3, <2>4 DEF EventInv, EventTypes
  <2> QED
    BY <1>2, <1>3, <2>1, <2>2, <2>3, <2>5 DEF EventInv, EventTypes, reader
<1>5. ASSUME NEW s \in Subscriber PROVE Logged(s)'
  <2>1. /\ Logged(s) /\ joined'[s] = joined[s] /\ snapshot'[s] = snapshot[s] /\ mode'[s] = mode[s]
        /\ received'[s] = received[s] /\ joined[s] \in Nat /\ Len(snapshot[s]) \in Nat
        /\ dropped[s] \in Nat /\ received[s] \in Seq(Event) /\ queue[s] \in Seq(Event)
    BY DEF EventInv, EventTypes, CommitPublication, reader
  <2>2. joined'[s] <= Len(committed') /\ EndsAt(snapshot'[s], committed', joined'[s])
    <3>1. EndsAt(snapshot[s], committed, joined[s]) /\ joined[s] <= Len(committed) /\ snapshot[s] \in Seq(Event)
      BY <2>1 DEF Logged, EventInv, EventTypes
    <3> QED
      BY <1>2, <2>1, <3>1, EndsOn
  <2>3. Delivered(s) \in Seq(Event) /\ Len(Delivered(s)) \in Nat
    BY DeliveredSeq DEF EventInv
  <2>4. InLog(Delivered(s), committed', joined[s]) /\ InLog(Append(Delivered(s), e), committed', joined[s])
    BY <1>1, <1>2, <2>1, <2>3, InLogOn DEF Logged
  <2>5. CASE Fits(s)
    <3>0. queue'[s] = Append(queue[s], e) /\ dropped'[s] = dropped[s] /\ mode[s] # "none"
      <4>1. ~Misses(s) /\ mode[s] # "none"
        BY <2>1, <2>5, CapacityAssumption DEF CapacityAssumption, Fits, Misses, Subscribed
      <4> QED
        BY <2>5, <4>1 DEF CommitPublication, e
    <3>1. Delivered(s)' = Append(Delivered(s), e)
      <4>1. received[s] \o Append(queue[s], e) = Append(received[s] \o queue[s], e)
        <5>1. received[s] \in Seq(Event) /\ queue[s] \in Seq(Event) /\ e \in Event
          BY <1>1, <2>1
        <5> QED
          BY <5>1, AppendMoves
      <4> QED
        BY <2>1, <3>0, <4>1 DEF Delivered
    <3>2. /\ Len(Delivered(s)') = Len(Delivered(s)) + 1 /\ Delivered(s)'[Len(Delivered(s)) + 1] = e
          /\ \A i \in 1..Len(Delivered(s)) : Delivered(s)'[i] = Delivered(s)[i]
      BY <1>1, <2>3, <3>1, AppendProperties
    <3>3. InLog(Delivered(s), committed, joined[s])'
      BY <2>1, <2>4, <3>1
    <3>4. Len(Delivered(s)') + dropped[s] = Len(committed') - joined[s]
      <4>1. Len(Delivered(s)) + dropped[s] = Len(committed) - joined[s]
        BY <2>1, <2>5 DEF Logged, Fits
      <4> QED
        BY <1>2, <2>1, <2>3, <3>2, <4>1
    <3>5. ASSUME dropped[s] = 0, NEW i \in 1..Len(Delivered(s)')
          PROVE  Delivered(s)'[i] = committed'[joined[s] + i]
      <4>1. Len(Delivered(s)) = Len(committed) - joined[s]
        BY <2>1, <2>3, <2>5, <3>5 DEF Logged, Fits
      <4>2. CASE i = Len(Delivered(s)) + 1
        <5>1. joined[s] + i = Len(committed) + 1
          BY <1>2, <2>1, <2>3, <4>1, <4>2
        <5> QED
          BY <1>2, <3>2, <4>2, <5>1
      <4>3. CASE i \in 1..Len(Delivered(s))
        <5>1. joined[s] + i \in 1..Len(committed)
          BY <1>2, <2>1, <2>3, <4>1, <4>3
        <5>2. Delivered(s)[i] = committed[joined[s] + i]
          BY <2>1, <2>5, <3>5, <4>3 DEF Logged, Fits
        <5> QED
          BY <1>2, <3>2, <4>3, <5>1, <5>2
      <4> QED
        BY <2>3, <3>2, <4>2, <4>3
    <3> QED
      BY <2>1, <2>2, <3>0, <3>1, <3>3, <3>4, <3>5 DEF Logged, Subscribed
  <2>6. CASE ~Fits(s)
    <3>1. queue'[s] = queue[s] /\ dropped'[s] = IF Misses(s) THEN dropped[s] + 1 ELSE dropped[s]
      BY <2>6 DEF CommitPublication
    <3>2. Delivered(s)' = Delivered(s)
      BY <2>1, <3>1 DEF Delivered
    <3>3. InLog(Delivered(s), committed, joined[s])'
      BY <2>1, <2>4, <3>2
    <3>4. Subscribed(s) => Misses(s)
      BY <2>6, CapacityAssumption, <2>1 DEF CapacityAssumption, Fits, Misses
    <3>5. CASE Subscribed(s)
      <4>1. dropped'[s] = dropped[s] + 1 /\ Len(Delivered(s)) + dropped[s] = Len(committed) - joined[s]
        BY <2>1, <3>1, <3>4, <3>5 DEF Logged
      <4>2. Len(Delivered(s)') + dropped'[s] = Len(committed') - joined'[s] /\ dropped'[s] # 0
        <5>1. Len(Delivered(s)') = Len(Delivered(s))
          BY <3>2
        <5> QED
          <6>1. /\ Len(committed') = Len(committed) + 1 /\ Len(committed) \in Nat
                /\ joined'[s] = joined[s] /\ joined[s] \in Nat /\ dropped[s] \in Nat
                /\ Len(Delivered(s)) \in Nat
            BY <1>2, <2>1, <2>3
          <6> QED
            BY <4>1, <5>1, <6>1
      <4>3. mode'[s] # "none"
        BY <2>1, <3>5 DEF Subscribed
      <4> QED
        BY <2>2, <3>3, <4>2, <4>3 DEF Logged
    <3>6. CASE ~Subscribed(s)
      BY <2>1, <2>2, <3>1, <3>2, <3>3, <3>6 DEF Logged, Subscribed, Misses
    <3> QED
      BY <3>5, <3>6
  <2> QED
    BY <2>5, <2>6
<1> QED
  BY <1>3, <1>4, <1>5 DEF EventInv

LEMMA EventStep == EventInv /\ [EventsNext]_eventsVars => EventInv'
<1> SUFFICES ASSUME EventInv, [EventsNext]_eventsVars PROVE EventInv'
  OBVIOUS
<1>1. CASE UNCHANGED eventsVars
  BY <1>1 DEF eventsVars, EventInv, EventTypes, Logged, Subscribed, Delivered
<1>2. ASSUME NEW p \in Publisher, Publishing(p) PROVE EventInv'
  BY <1>2, PublishKeeps, CommitKeeps DEF Publishing
<1>3. ASSUME NEW s \in Subscriber, Reading(s) PROVE EventInv'
  BY <1>3, SubscribeKeeps, TakeKeeps, StopDeliveryKeeps, CloseSubscriptionKeeps DEF Reading
<1> QED
  BY <1>1, <1>2, <1>3 DEF EventsNext

THEOREM EventInvariant == EventsSpec => []EventInv
<1> QED
  BY EventsStart, EventStep, PTL DEF EventsSpec

LEMMA SuffixFromEnds ==
  ASSUME NEW S, NEW s \in Seq(S), NEW t \in Seq(S), EndsAt(s, t, Len(t))
  PROVE  Seqs!IsSuffix(s, t)
<1> DEFINE r == Seqs!Reverse(s)
           q == Seqs!Reverse(t)
<1>0. Len(s) \in Nat /\ Len(t) \in Nat /\ Len(s) <= Len(t)
  BY DEF EndsAt
<1>1. r \in Seq(S) /\ Len(r) = Len(s) /\ \A i \in 1..Len(s) : r[i] = s[(Len(s) - i) + 1]
  BY DEF Seqs!Reverse
<1>2. q \in Seq(S) /\ Len(q) = Len(t) /\ \A i \in 1..Len(t) : q[i] = t[(Len(t) - i) + 1]
  BY DEF Seqs!Reverse
<1> HIDE DEF r, q
<1>3. ASSUME NEW i \in 1..Len(r) PROVE r[i] = q[i]
  <2>1. PICK j \in 1..Len(s) : j = (Len(s) - i) + 1 /\ (Len(t) - Len(s)) + j = (Len(t) - i) + 1
    <3>1. (Len(s) - i) + 1 \in 1..Len(s) /\ (Len(t) - Len(s)) + ((Len(s) - i) + 1) = (Len(t) - i) + 1
      BY <1>0, <1>1
    <3> QED
      BY <3>1
  <2>2. s[j] = t[Len(t) - Len(s) + j]
    BY DEF EndsAt
  <2>3. r[i] = s[j]
    BY <1>1, <2>1
  <2>4. i \in 1..Len(t)
    BY <1>0, <1>1
  <2>5. q[i] = t[(Len(t) - i) + 1]
    BY <1>2, <2>4
  <2> QED
    BY <2>1, <2>2, <2>3, <2>5
<1>4. SubSeq(r, 1, Len(r)) = SubSeq(q, 1, Len(r))
  BY <1>0, <1>1, <1>2, <1>3
<1> QED
  BY <1>0, <1>1, <1>2, <1>4 DEF Seqs!IsSuffix, Seqs!IsPrefix, r, q

\* Places in the log after the subscription are places in what was committed since.
LEMMA SinceOrdered ==
  ASSUME NEW all \in Seq(Event), NEW got \in Seq(Event), NEW first \in Nat, first <= Len(all),
         InLog(got, all, first)
  PROVE  InOrder(got, SubSeq(all, first + 1, Len(all)))
<1> DEFINE since == SubSeq(all, first + 1, Len(all))
<1>1. Len(all) \in Nat /\ Len(got) \in Nat
  OBVIOUS
<1>2. Len(since) = Len(all) - first /\ \A i \in 1..Len(all) - first : since[i] = all[first + i]
  <2>1. \A i \in first + 1..Len(all) : all[i] \in Event
    BY <1>1
  <2>2. /\ Len(since) = IF first + 1 <= Len(all) THEN Len(all) - (first + 1) + 1 ELSE 0
        /\ \A i \in 1..Len(all) - (first + 1) + 1 : since[i] = all[(first + 1) + i - 1]
    BY <1>1, <2>1, SubSeqProperties
  <2> HIDE DEF since
  <2>3. ASSUME NEW i \in 1..Len(all) - first PROVE since[i] = all[first + i]
    <3>1. i \in 1..Len(all) - (first + 1) + 1 /\ (first + 1) + i - 1 = first + i
      BY <1>1
    <3> QED
      BY <2>2, <3>1
  <2> QED
    BY <1>1, <2>2, <2>3
<1>3. PICK place \in [1..Len(got) -> Nat] :
        /\ \A i \in 1..Len(got) : first < place[i] /\ place[i] <= Len(all) /\ all[place[i]] = got[i]
        /\ \A i, j \in 1..Len(got) : i < j => place[i] < place[j]
  BY DEF InLog
<1> HIDE DEF since
<1> DEFINE to == [i \in 1..Len(got) |-> place[i] - first]
<1>4. ASSUME NEW i \in 1..Len(got) PROVE to[i] \in 1..Len(since) /\ since[to[i]] = got[i]
  <2>1. place[i] \in Nat /\ first < place[i] /\ place[i] <= Len(all) /\ all[place[i]] = got[i]
    BY <1>3
  <2>2. PICK k \in 1..Len(all) - first : k = place[i] - first /\ first + k = place[i]
    <3>1. place[i] - first \in 1..Len(all) - first /\ first + (place[i] - first) = place[i]
      BY <1>1, <2>1
    <3> QED
      BY <3>1
  <2>3. to[i] = k /\ since[k] = all[place[i]]
    BY <1>2, <2>2
  <2> HIDE DEF to
  <2> QED
    BY <1>2, <2>1, <2>2, <2>3
<1>5. ASSUME NEW i \in 1..Len(got), NEW j \in 1..Len(got), i < j PROVE to[i] < to[j]
  <2>1. place[i] \in Nat /\ place[j] \in Nat /\ place[i] < place[j]
    BY <1>3, <1>5
  <2> QED
    BY <2>1
<1>6. to \in [1..Len(got) -> 1..Len(since)]
  BY <1>4
<1> HIDE DEF to
<1> QED
  BY <1>4, <1>5, <1>6 DEF InOrder, since

\* What the history held and what came since are one stretch of the log.
LEMMA NoGap ==
  ASSUME EventInv, NEW s \in Subscriber, mode[s] = "history", dropped[s] = 0
  PROVE  Seqs!IsSuffix(snapshot[s] \o Delivered(s), committed)
<1> DEFINE old == snapshot[s]
           new == Delivered(s)
           both == old \o new
<1>1. /\ old \in Seq(Event) /\ new \in Seq(Event) /\ committed \in Seq(Event)
      /\ Len(old) \in Nat /\ Len(new) \in Nat /\ Len(committed) \in Nat /\ joined[s] \in Nat
  BY DeliveredSeq DEF EventInv, EventTypes
<1>2. Logged(s) /\ Subscribed(s)
  BY DEF EventInv, Subscribed
<1>3. /\ Len(old) <= joined[s] /\ Len(new) = Len(committed) - joined[s]
      /\ \A i \in 1..Len(old) : old[i] = committed[joined[s] - Len(old) + i]
      /\ \A i \in 1..Len(new) : new[i] = committed[joined[s] + i]
  BY <1>1, <1>2 DEF Logged, EndsAt
<1> HIDE DEF old, new
<1>4. both \in Seq(Event) /\ Len(both) = Len(old) + Len(new)
      /\ \A i \in 1..Len(old) + Len(new) : both[i] = IF i <= Len(old) THEN old[i] ELSE new[i - Len(old)]
  BY <1>1, ConcatProperties
<1> HIDE DEF both
<1>5. ASSUME NEW i \in 1..Len(both) PROVE both[i] = committed[Len(committed) - Len(both) + i]
  <2>1. /\ i \in 1..Len(old) + Len(new) /\ Len(committed) - Len(both) + i = joined[s] - Len(old) + i
    BY <1>1, <1>3, <1>4
  <2>2. CASE i <= Len(old)
    <3>1. i \in 1..Len(old) /\ both[i] = old[i]
      BY <1>1, <1>4, <2>1, <2>2
    <3> QED
      BY <1>3, <2>1, <3>1
  <2>3. CASE i > Len(old)
    <3>1. PICK j \in 1..Len(new) : j = i - Len(old) /\ joined[s] + j = joined[s] - Len(old) + i
      <4>1. i - Len(old) \in 1..Len(new) /\ joined[s] + (i - Len(old)) = joined[s] - Len(old) + i
        BY <1>1, <2>1, <2>3
      <4> QED
        BY <4>1
    <3>2. both[i] = new[j]
      BY <1>1, <1>4, <2>1, <2>3, <3>1
    <3> QED
      BY <1>3, <2>1, <3>1, <3>2
  <2> QED
    BY <1>1, <2>1, <2>2, <2>3
<1>6. Len(both) <= Len(committed)
  BY <1>1, <1>3, <1>4
<1>7. EndsAt(both, committed, Len(committed))
  BY <1>5, <1>6 DEF EndsAt
<1> QED
  BY <1>1, <1>4, <1>7, SuffixFromEnds DEF both, old, new

LEMMA SnapshotEnds ==
  ASSUME EventInv, NEW s \in Subscriber
  PROVE  Seqs!IsSuffix(snapshot[s], SubSeq(committed, 1, joined[s]))
<1> DEFINE before == SubSeq(committed, 1, joined[s])
<1>1. /\ snapshot[s] \in Seq(Event) /\ committed \in Seq(Event) /\ Len(committed) \in Nat
      /\ joined[s] \in Nat /\ joined[s] <= Len(committed) /\ EndsAt(snapshot[s], committed, joined[s])
      /\ Len(snapshot[s]) \in Nat
  BY DEF EventInv, EventTypes, Logged
<1>2. before \in Seq(Event) /\ Len(before) = joined[s] /\ \A i \in 1..joined[s] : before[i] = committed[i]
  <2>1. \A i \in 1..joined[s] : committed[i] \in Event
    BY <1>1
  <2> QED
    BY <1>1, <2>1
<1> HIDE DEF before
<1>3. ASSUME NEW i \in 1..Len(snapshot[s]) PROVE snapshot[s][i] = before[joined[s] - Len(snapshot[s]) + i]
  <2>1. joined[s] - Len(snapshot[s]) + i \in 1..joined[s]
    BY <1>1 DEF EndsAt
  <2>2. before[joined[s] - Len(snapshot[s]) + i] = committed[joined[s] - Len(snapshot[s]) + i]
    BY <1>2, <2>1
  <2> QED
    BY <1>1, <2>2 DEF EndsAt
<1>4. EndsAt(snapshot[s], before, Len(before))
  BY <1>1, <1>2, <1>3 DEF EndsAt
<1> QED
  BY <1>1, <1>2, <1>4, SuffixFromEnds DEF before

\* Every state of the event service is well formed, and no queue is longer than its capacity.
THEOREM EventTypesHold == EventsSpec => []EventsTypeOK
<1>1. EventInv => EventsTypeOK
  BY DEF EventInv, EventTypes, EventsTypeOK, Event
<1> QED
  BY <1>1, EventInvariant, PTL

\* Whatever the capacities, and however publications, subscriptions and reads interleave, a
\* subscriber misses no event that is not counted, and its history and its queue have neither a gap
\* nor an overlap.
THEOREM EventsAccounted == EventsSpec => []NothingMissedUncounted
<1>1. EventInv => NothingMissedUncounted
  <2> SUFFICES ASSUME EventInv PROVE NothingMissedUncounted
    OBVIOUS
  <2>1. ASSUME NEW s \in Subscriber
        PROVE  /\ Subscribed(s) => Len(Delivered(s)) + dropped[s] = Len(Since(s))
               /\ InOrder(Delivered(s), Since(s))
    <3>1. /\ committed \in Seq(Event) /\ Len(committed) \in Nat /\ joined[s] \in Nat /\ Logged(s)
          /\ joined[s] <= Len(committed) /\ Delivered(s) \in Seq(Event)
      BY DeliveredSeq DEF EventInv, EventTypes, Logged
    <3>2. Len(Since(s)) = Len(committed) - joined[s]
      BY <3>1 DEF Since
    <3>3. InOrder(Delivered(s), Since(s))
      BY <3>1, SinceOrdered DEF Logged, Since
    <3> QED
      BY <3>1, <3>2, <3>3 DEF Logged
  <2> QED
    BY <2>1, SnapshotEnds, NoGap DEF NothingMissedUncounted
<1> QED
  BY <1>1, EventInvariant, PTL

-----------------------------------------------------------------------------
(* Managed files.                                                           *)

Disk == Content \cup {NoFile}
Item == [path : Path, body : Body \cup {NoText}]
JobType == [path : Path, seen : Disk, write : Disk, backup : BOOLEAN]

FileTypes ==
  /\ kind \in [Path -> {"file", "bare", "block"}] /\ tree \in [Path -> Disk]
  /\ saved \subseteq Word /\ strayed \subseteq Path /\ edits \in 0..MaxEdits
  /\ ledger \in [Path -> Entry \cup {NoEntry}]
  /\ at \in [Caller -> {"idle", "wait", "work"}] /\ holder \in Caller \cup {NoCaller}
  /\ \A c \in Caller : at[c] = "work" <=> holder = c
  /\ call \in [Caller -> Call \cup {NoCall}]
  /\ draft \in [Caller -> [Path -> Entry \cup {NoEntry}]]
  /\ todo \in [Caller -> Seq(Item)] /\ jobs \in [Caller -> Seq(JobType)]
  /\ \A c \in Caller : at[c] # "work" => jobs[c] = <<>>

\* Lando records what it writes, which is nothing the user wrote.
Clean(e) == Managed(e) => e.sum.own \in Body /\ e.sum.rest = {}
Told(p, content, e) == content # NoFile /\ Summed(p, content) = e.sum

\* What a job is about to overwrite is kept, and was Lando's.
JobKeeps(j) ==
  Words(j.seen) \subseteq
    Texts(j.write) \cup saved \cup (IF j.backup THEN Words(Summed(j.path, j.seen)) ELSE {})
JobMarked(j) == kind[j.path] # "bare" /\ j.seen # NoFile => j.seen.mark # NoMark

\* The last job on its path, and a path without a job.
LastFor(c, i) == \A k \in 1..Len(jobs[c]) : jobs[c][k].path = jobs[c][i].path => k <= i
Jobless(c, p) == \A i \in 1..Len(jobs[c]) : jobs[c][i].path # p

\* A caller between its look at the ledger and the ledger's new value.  What it is going to record
\* is what its jobs leave, or what is there already; no job touches what the user has taken over.
AtWork(c) ==
  /\ call[c].op # "none"
  /\ \A p \in Path : Clean(draft[c][p])
  /\ call[c].op = "apply" => \A i \in 1..Len(todo[c]) : todo[c][i].body \in Body
  /\ call[c].op = "remove" =>
       /\ \A i, k \in 1..Len(todo[c]) : todo[c][i].path = todo[c][k].path => i = k
       /\ \A i \in 1..Len(todo[c]) :
            Managed(ledger[todo[c][i].path]) /\ draft[c][todo[c][i].path] = ledger[todo[c][i].path]
  /\ \A i \in 1..Len(jobs[c]) :
       /\ JobKeeps(jobs[c][i]) /\ JobMarked(jobs[c][i])
       /\ call[c].op # "adopt" => ~Adopted(ledger[jobs[c][i].path])
  /\ call[c].op = "apply" => \A p \in Path : Adopted(ledger[p]) => draft[c][p] = ledger[p]
  /\ \A i \in 1..Len(jobs[c]) :
       LastFor(c, i) /\ Managed(draft[c][jobs[c][i].path])
         => Told(jobs[c][i].path, jobs[c][i].write, draft[c][jobs[c][i].path])
  /\ \A p \in Path \ strayed : Jobless(c, p) /\ Managed(draft[c][p]) => Told(p, tree[p], draft[c][p])

\* The inductive invariant: the ledger, the draft made of it and the jobs agree with the disk.
FilesInv ==
  /\ FileTypes /\ LedgerTellsTruth
  /\ \A p \in Path : Clean(ledger[p])
  /\ \A c \in Caller : at[c] = "work" => AtWork(c)

LEMMA FilesStart == FilesInit => FilesInv
<1> SUFFICES ASSUME FilesInit PROVE FilesInv
  OBVIOUS
<1>1. [mark : {NoMark}, own : {NoText}, rest : {{}}] \subseteq Content
  BY DEF Content
<1>2. FileTypes
  <2>1. tree \in [Path -> Disk]
    BY <1>1 DEF FilesInit, Disk
  <2>2. todo \in [Caller -> Seq(Item)] /\ jobs \in [Caller -> Seq(JobType)]
    BY DEF FilesInit
  <2>3. 0 \in 0..MaxEdits
    BY ManagedFilesAssumption DEF ManagedFilesAssumption
  <2> QED
    BY <2>1, <2>2, <2>3, ManagedFilesAssumption DEF ManagedFilesAssumption, FilesInit, FileTypes, Blank
<1>3. \A p \in Path : ~Managed(ledger[p])
  BY DEF FilesInit, Blank, Managed
<1> QED
  BY <1>2, <1>3 DEF FilesInv, FilesInit, LedgerTellsTruth, Clean

\* Someone who is not at work changes nothing of him who is.
LEMMA AtWorkStays ==
  ASSUME NEW c \in Caller, AtWork(c), FileTypes,
         call'[c] = call[c], draft'[c] = draft[c], todo'[c] = todo[c], jobs'[c] = jobs[c],
         ledger' = ledger, kind' = kind, saved \subseteq saved', strayed \subseteq strayed',
         \A p \in Path \ strayed' : tree'[p] = tree[p]
  PROVE  AtWork(c)'
<1>1. \A i \in 1..Len(jobs[c]) : JobKeeps(jobs[c][i])' /\ JobMarked(jobs[c][i])'
  BY DEF AtWork, JobKeeps, JobMarked, Words, Texts, Summed
<1> QED
  BY <1>1 DEF AtWork, LastFor, Jobless, Told, Summed, Clean, Managed, Adopted

LEMMA PassViewKeeps ==
  ASSUME FilesInv, NEW c \in Caller, PassView(c)
  PROVE  FilesInv'
<1>1. FileTypes'
  BY DEF FilesInv, FileTypes, PassView
<1>2. ASSUME NEW o \in Caller, at'[o] = "work" PROVE AtWork(o)'
  <2>1. o # c /\ at[o] = "work"
    BY <1>2 DEF FilesInv, FileTypes, PassView
  <2> QED
    BY <2>1, AtWorkStays DEF FilesInv, FileTypes, PassView
<1> QED
  BY <1>1, <1>2 DEF FilesInv, PassView, LedgerTellsTruth, Clean, Managed, Unedited, Summed

LEMMA EditByUserKeeps ==
  ASSUME FilesInv, NEW p \in Path, EditByUser(p)
  PROVE  FilesInv'
<1>1. PICK content \in Edits(p, edits + 1) : tree' = [tree EXCEPT ![p] = content]
  BY DEF EditByUser
<1>2. edits + 1 \in Word /\ edits' \in 0..MaxEdits
  BY ManagedFilesAssumption DEF ManagedFilesAssumption, EditByUser, FilesInv, FileTypes, Word
<1>3. content \in Disk
  <2>1. tree[p] = NoFile \/ tree[p] \in Content
    BY DEF FilesInv, FileTypes, Disk
  <2>2. CASE tree[p] = NoFile
    BY <1>1, <1>2, <2>2 DEF Edits, Content, Disk
  <2>3. CASE tree[p] # NoFile
    <3>1. Texts(tree[p]) \subseteq Body \cup Word
      BY <2>1, <2>3 DEF Texts, Content
    <3>2. Stripped(p, tree[p], tree[p].mark) \in Content
      BY <2>1, <2>3, <3>1 DEF Stripped, Content
    <3>3. [tree[p] EXCEPT !.own = edits + 1] \in Content /\ [tree[p] EXCEPT !.rest = @ \cup {edits + 1}] \in Content
      BY <1>2, <2>1, <2>3 DEF Content
    <3> QED
      BY <1>1, <2>3, <3>2, <3>3 DEF Edits, Disk
  <2> QED
    BY <2>2, <2>3
<1>4. FileTypes'
  BY <1>1, <1>2, <1>3 DEF FilesInv, FileTypes, EditByUser, caller
<1>5. \A q \in Path \ strayed' : tree'[q] = tree[q]
  BY <1>1 DEF FilesInv, FileTypes, EditByUser
<1>6. ASSUME NEW o \in Caller, at'[o] = "work" PROVE AtWork(o)'
  BY <1>5, <1>6, AtWorkStays DEF FilesInv, EditByUser, caller
<1> QED
  BY <1>4, <1>5, <1>6 DEF FilesInv, EditByUser, LedgerTellsTruth, Clean, Managed, Unedited, Summed

LEMMA QuarantineKeeps ==
  ASSUME FilesInv, QuarantineLedger
  PROVE  FilesInv'
<1>1. \A p \in Path : ledger'[p] = NoEntry
  BY DEF QuarantineLedger, Blank
<1>2. FileTypes'
  BY DEF FilesInv, FileTypes, QuarantineLedger, Blank, caller
<1>3. \A c \in Caller : at[c] # "work"
  BY ManagedFilesAssumption DEF ManagedFilesAssumption, FilesInv, FileTypes, QuarantineLedger
<1> QED
  BY <1>1, <1>2, <1>3 DEF FilesInv, QuarantineLedger, LedgerTellsTruth, Clean, Managed, caller

LEMMA WiderSeq ==
  ASSUME NEW S, NEW T, S \subseteq T, NEW s \in Seq(S)
  PROVE  s \in Seq(T)
  OBVIOUS

\* A call's work list: the files of a batch, or each selected path once, in some order.
\* What TakeLedger puts on the list.
WorkOf(r, s) == r.files \o [i \in DOMAIN s |-> [path |-> s[i], body |-> NoText]]

LEMMA WorkList ==
  ASSUME FilesInv, NEW c \in Caller, NEW r \in Call, NEW s \in Orders(Selected(c, r))
  PROVE  /\ WorkOf(r, s) \in Seq(Item)
         /\ r.op = "apply" => \A i \in 1..Len(WorkOf(r, s)) : WorkOf(r, s)[i].body \in Body
         /\ r.op = "remove" =>
              /\ \A i, k \in 1..Len(WorkOf(r, s)) : WorkOf(r, s)[i].path = WorkOf(r, s)[k].path => i = k
              /\ \A i \in 1..Len(WorkOf(r, s)) : Managed(ledger[WorkOf(r, s)[i].path])
<1> DEFINE S == Selected(c, r)
           list == [i \in DOMAIN s |-> [path |-> s[i], body |-> NoText]]
<1>1. S \subseteq Path
  BY DEF Selected, Call
<1>2. Cardinality(S) \in Nat
  BY <1>1, FS_Subset, FS_CardinalityType, ManagedFilesAssumption DEF ManagedFilesAssumption
<1>3. s \in [1..Cardinality(S) -> S] /\ \A i, k \in DOMAIN s : s[i] = s[k] => i = k
  BY DEF Orders
<1>4. list \in Seq(Item) /\ Len(list) = Cardinality(S)
  <2>1. list \in [1..Cardinality(S) -> Item]
    BY <1>1, <1>3 DEF Item
  <2> QED
    BY <1>2, <2>1
<1>5. r.files \in Seq([path : Path, body : Body])
  <2>1. r.files \in Batches \cup {<<>>}
    BY DEF Call
  <2> QED
    BY <2>1, EmptySeq, ManagedFilesAssumption DEF ManagedFilesAssumption
<1>6. r.files \in Seq(Item)
  <2>1. [path : Path, body : Body] \subseteq Item
    BY DEF Item
  <2> QED
    BY <1>5, <2>1, WiderSeq
<1>7. r.files \o list \in Seq(Item)
  BY <1>4, <1>6, ConcatProperties
<1>8. ASSUME r.op = "apply", NEW i \in 1..Len(r.files \o list) PROVE (r.files \o list)[i].body \in Body
  <2>1. S = {}
    BY <1>8 DEF Selected, Call
  <2>2. Len(list) = 0
    BY <1>4, <2>1, FS_EmptySet
  <2>3. Len(r.files \o list) = Len(r.files) /\ (r.files \o list)[i] = r.files[i]
    BY <1>4, <1>6, <1>8, <2>2
  <2>4. r.files[i] \in [path : Path, body : Body]
    BY <1>5, <1>8, <2>3, ElementOfSeq
  <2> QED
    BY <2>3, <2>4
<1>9. ASSUME r.op = "remove"
      PROVE  /\ Len(r.files \o list) = Cardinality(S)
             /\ \A i \in 1..Cardinality(S) : (r.files \o list)[i].path = s[i]
  <2>1. r.files = <<>>
    BY <1>9 DEF Call
  <2>2. r.files \o list = list
    BY <1>4, <2>1
  <2> QED
    BY <1>3, <1>4, <2>2
<1>10. ASSUME r.op = "remove" PROVE \A p \in S : Managed(ledger[p])
  BY <1>10 DEF Selected
<1> HIDE DEF S, list
<1>11. ASSUME r.op = "remove"
       PROVE  /\ \A i, k \in 1..Len(r.files \o list) : (r.files \o list)[i].path = (r.files \o list)[k].path => i = k
              /\ \A i \in 1..Len(r.files \o list) : Managed(ledger[(r.files \o list)[i].path])
  BY <1>3, <1>9, <1>10, <1>11
<1> QED
  BY <1>7, <1>8, <1>11 DEF list, WorkOf

LEMMA TakeLedgerKeeps ==
  ASSUME FilesInv, NEW c \in Caller, TakeLedger(c)
  PROVE  FilesInv'
<1>0. PICK r \in Call :
        /\ \/ r = call[c] /\ UNCHANGED call
           \/ call' = [call EXCEPT ![c] = r]
        /\ \E s \in Orders(Selected(c, r)) : todo' = [todo EXCEPT ![c] = WorkOf(r, s)]
  BY DEF TakeLedger, WorkOf
<1>1. PICK s \in Orders(Selected(c, r)) : todo' = [todo EXCEPT ![c] = WorkOf(r, s)]
  BY <1>0
<1>2. r.op \in {"apply", "remove", "adopt", "release"}
  BY DEF Call
<1>3. \A o \in Caller : at[o] # "work"
  BY ManagedFilesAssumption DEF ManagedFilesAssumption, FilesInv, FileTypes, TakeLedger
<1>4. FileTypes'
  <2>1. todo' \in [Caller -> Seq(Item)] /\ call' \in [Caller -> Call \cup {NoCall}]
    BY <1>0, <1>1, WorkList DEF FilesInv, FileTypes
  <2>2. \A o \in Caller : at'[o] = "work" <=> holder' = o
    BY <1>3 DEF FilesInv, FileTypes, TakeLedger
  <2> QED
    BY <2>1, <2>2 DEF FilesInv, FileTypes, TakeLedger
<1>5. jobs'[c] = <<>> /\ draft'[c] = ledger /\ call'[c] = r
  BY <1>0, <1>1, <1>3 DEF FilesInv, FileTypes, TakeLedger
<1>6. todo'[c] \in Seq(Item)
  BY <1>4 DEF FileTypes
<1>7. AtWork(c)'
  <2>1. r.op = "apply" => \A i \in 1..Len(todo'[c]) : todo'[c][i].body \in Body
    BY <1>0, <1>1, WorkList DEF FilesInv, FileTypes
  <2>2. r.op = "remove" =>
          /\ \A i, k \in 1..Len(todo'[c]) : todo'[c][i].path = todo'[c][k].path => i = k
          /\ \A i \in 1..Len(todo'[c]) : Managed(ledger[todo'[c][i].path])
    BY <1>0, <1>1, WorkList DEF FilesInv, FileTypes
  <2>3. \A p \in Path : Clean(ledger[p])
    BY DEF FilesInv
  <2>4. \A p \in Path \ strayed : Managed(ledger[p]) => Told(p, tree[p], ledger[p])
    BY DEF FilesInv, TakeLedger, LedgerTellsTruth, Told, Unedited
  <2>5. UNCHANGED <<kind, tree, saved, ledger, strayed>>
    BY DEF TakeLedger
  <2> QED
    BY <1>2, <1>5, <1>6, <2>1, <2>2, <2>3, <2>4, <2>5
    DEF AtWork, Clean, Managed, Told, Summed, Jobless
<1>8. holder' # NoCaller /\ ledger' = ledger
  BY ManagedFilesAssumption DEF ManagedFilesAssumption, TakeLedger
<1>9. \A o \in Caller : at'[o] = "work" => o = c
  BY <1>3 DEF FilesInv, FileTypes, TakeLedger
<1> QED
  BY <1>4, <1>7, <1>8, <1>9 DEF FilesInv, LedgerTellsTruth, Clean, Managed

\* A set of positions has a last one.
LEMMA LastOne ==
  ASSUME NEW n \in Nat, NEW M, M \subseteq 1..n, M # {}
  PROVE  \E i \in M : \A k \in M : k <= i
<1> DEFINE T == {i..n : i \in M}
<1>1. T \subseteq FiniteSubsetsOf(1..n)
  <2> SUFFICES ASSUME NEW i \in M PROVE i..n \in FiniteSubsetsOf(1..n)
    OBVIOUS
  <2>1. i..n \subseteq 1..n /\ IsFiniteSet(i..n)
    BY FS_Interval
  <2> QED
    BY <2>1 DEF FiniteSubsetsOf
<1>2. PICK S \in T : \A U \in T : <<U, S>> \notin StrictSubsetOrdering(1..n)
  <2>1. T # {}
    OBVIOUS
  <2>2. IsWellFoundedOn(StrictSubsetOrdering(1..n), FiniteSubsetsOf(1..n))
    BY FS_StrictSubsetOrderingWellFounded
  <2> HIDE DEF T
  <2> QED
    BY <1>1, <2>1, <2>2, WFMin
<1>3. PICK i \in M : S = i..n
  BY <1>2
<1>4. ASSUME NEW k \in M, k > i PROVE FALSE
  <2>1. k..n \subseteq i..n /\ i \in i..n /\ i \notin k..n /\ i..n \subseteq 1..n
    BY <1>4
  <2> QED
    BY <1>2, <1>3, <2>1 DEF StrictSubsetOrdering
<1> QED
  BY <1>4

LEMMA PendingWhenJobless ==
  ASSUME NEW c \in Caller, jobs[c] \in Seq(JobType), NEW p \in Path, Jobless(c, p)
  PROVE  PendingDisk(c, p) = tree[p]
BY DEF PendingDisk, Jobless

LEMMA PendingIsLast ==
  ASSUME NEW c \in Caller, jobs[c] \in Seq(JobType), NEW i \in 1..Len(jobs[c]), LastFor(c, i)
  PROVE  PendingDisk(c, jobs[c][i].path) = jobs[c][i].write
<1> DEFINE mine == {k \in DOMAIN jobs[c] : jobs[c][k].path = jobs[c][i].path}
<1>1. i \in mine /\ \A k \in mine : k <= i /\ k \in Nat
  BY DEF LastFor
<1>2. i = CHOOSE m \in mine : \A k \in mine : k <= m
  BY <1>1
<1> QED
  BY <1>1, <1>2 DEF PendingDisk

LEMMA PendingOnDisk ==
  ASSUME NEW c \in Caller, jobs[c] \in Seq(JobType), NEW p \in Path, tree[p] \in Disk
  PROVE  PendingDisk(c, p) \in Disk
<1>1. CASE Jobless(c, p)
  BY <1>1, PendingWhenJobless
<1>2. CASE ~Jobless(c, p)
  <2> DEFINE mine == {k \in 1..Len(jobs[c]) : jobs[c][k].path = p}
  <2>1. mine # {} /\ mine \subseteq 1..Len(jobs[c]) /\ Len(jobs[c]) \in Nat
    BY <1>2 DEF Jobless
  <2>2. PICK i \in mine : \A k \in mine : k <= i
    BY <2>1, LastOne
  <2>3. LastFor(c, i) /\ jobs[c][i].path = p
    BY <2>2 DEF LastFor
  <2>4. jobs[c][i] \in JobType
    BY <2>2, ElementOfSeq
  <2> QED
    BY <2>2, <2>3, <2>4, PendingIsLast DEF JobType
<1> QED
  BY <1>1, <1>2

LEMMA DecidedTypes ==
  ASSUME FilesInv, NEW c \in Caller, at[c] = "work", todo[c] # <<>>,
         NEW e \in Entry \cup {NoEntry}, NEW new \in Seq(JobType), Decided(c, e, new), strayed' \subseteq strayed
  PROVE  /\ FileTypes' /\ Head(todo[c]).path \in Path /\ holder' # NoCaller
         /\ todo'[c] = Tail(todo[c]) /\ jobs'[c] = jobs[c] \o new
         /\ \A p \in Path : draft'[c][p] = IF p = Head(todo[c]).path THEN e ELSE draft[c][p]
         /\ \A o \in Caller : at'[o] = "work" => o = c
<1>1. todo[c] \in Seq(Item) /\ jobs[c] \in Seq(JobType) /\ draft[c] \in [Path -> Entry \cup {NoEntry}]
  BY DEF FilesInv, FileTypes
<1>2. Head(todo[c]) \in Item /\ Tail(todo[c]) \in Seq(Item)
  BY <1>1
<1>3. Head(todo[c]).path \in Path
  BY <1>2 DEF Item
<1>4. jobs[c] \o new \in Seq(JobType)
  BY <1>1, ConcatProperties
<1>5. /\ todo'[c] = Tail(todo[c]) /\ jobs'[c] = jobs[c] \o new
      /\ \A p \in Path : draft'[c][p] = IF p = Head(todo[c]).path THEN e ELSE draft[c][p]
  BY <1>1 DEF FilesInv, FileTypes, Decided
<1>6. todo' \in [Caller -> Seq(Item)] /\ jobs' \in [Caller -> Seq(JobType)]
  BY <1>2, <1>4 DEF FilesInv, FileTypes, Decided
<1>7. draft' \in [Caller -> [Path -> Entry \cup {NoEntry}]]
  BY <1>1, <1>3 DEF FilesInv, FileTypes, Decided
<1>8. \A o \in Caller : at[o] # "work" => jobs'[o] = <<>>
  BY DEF FilesInv, FileTypes, Decided
<1>9. holder = c /\ holder' # NoCaller /\ \A o \in Caller : at'[o] = "work" => o = c
  BY ManagedFilesAssumption DEF ManagedFilesAssumption, FilesInv, FileTypes, Decided
<1>10. FileTypes'
  BY <1>6, <1>7, <1>8 DEF FilesInv, FileTypes, Decided
<1> QED
  BY <1>3, <1>5, <1>9, <1>10

\* What is left to decide on, after a decision on the first.
LEMMA RestOfWork ==
  ASSUME NEW s \in Seq(Item), s # <<>>
  PROVE  /\ Tail(s) \in Seq(Item) /\ Len(Tail(s)) = Len(s) - 1
         /\ \A i \in 1..Len(Tail(s)) : i + 1 \in 1..Len(s) /\ Tail(s)[i] = s[i + 1]
         /\ Head(s) = s[1] /\ 1 \in 1..Len(s)
BY HeadTailProperties

\* The parts of AtWork that do not depend on whether there is a new file operation.
LEMMA DecidedRest ==
  ASSUME FilesInv, NEW c \in Caller, at[c] = "work", todo[c] # <<>>,
         NEW e \in Entry \cup {NoEntry}, NEW new \in Seq(JobType), Decided(c, e, new), strayed' \subseteq strayed,
         Clean(e),
         call[c].op = "apply" /\ Adopted(ledger[Head(todo[c]).path]) => e = draft[c][Head(todo[c]).path]
  PROVE  /\ \A p \in Path : Clean(draft'[c][p])
         /\ call[c].op = "apply" => \A i \in 1..Len(todo'[c]) : todo'[c][i].body \in Body
         /\ call[c].op = "remove" =>
              /\ \A i, k \in 1..Len(todo'[c]) : todo'[c][i].path = todo'[c][k].path => i = k
              /\ \A i \in 1..Len(todo'[c]) : /\ Managed(ledger[todo'[c][i].path])
                                             /\ draft'[c][todo'[c][i].path] = ledger[todo'[c][i].path]
         /\ call[c].op = "apply" => \A p \in Path : Adopted(ledger[p]) => draft'[c][p] = ledger[p]
<1> DEFINE p == Head(todo[c]).path
<1>1. /\ p \in Path /\ todo'[c] = Tail(todo[c])
      /\ \A q \in Path : draft'[c][q] = IF q = p THEN e ELSE draft[c][q]
  BY DecidedTypes
<1>2. AtWork(c) /\ todo[c] \in Seq(Item)
  BY DEF FilesInv, FileTypes
<1>3. /\ Tail(todo[c]) \in Seq(Item) /\ Len(Tail(todo[c])) = Len(todo[c]) - 1 /\ Len(todo[c]) \in Nat
      /\ \A i \in 1..Len(Tail(todo[c])) : i + 1 \in 1..Len(todo[c]) /\ Tail(todo[c])[i] = todo[c][i + 1]
      /\ p = todo[c][1].path /\ 1 \in 1..Len(todo[c])
  BY <1>2, RestOfWork
<1>4. \A i \in 1..Len(Tail(todo[c])) : Tail(todo[c])[i].path \in Path
  <2> SUFFICES ASSUME NEW i \in 1..Len(Tail(todo[c])) PROVE Tail(todo[c])[i].path \in Path
    OBVIOUS
  <2>1. Tail(todo[c])[i] \in Item
    BY <1>3, ElementOfSeq
  <2> QED
    BY <2>1 DEF Item
<1> HIDE DEF p
<1>5. \A q \in Path : Clean(draft'[c][q])
  BY <1>1, <1>2 DEF AtWork
<1>6. call[c].op = "apply" => \A i \in 1..Len(todo'[c]) : todo'[c][i].body \in Body
  BY <1>1, <1>2, <1>3 DEF AtWork
<1>7. ASSUME call[c].op = "remove", NEW i \in 1..Len(todo'[c]), NEW k \in 1..Len(todo'[c]),
             todo'[c][i].path = todo'[c][k].path
      PROVE  i = k
  BY <1>1, <1>2, <1>3, <1>7 DEF AtWork
<1>8. ASSUME call[c].op = "remove", NEW i \in 1..Len(todo'[c])
      PROVE  Managed(ledger[todo'[c][i].path]) /\ draft'[c][todo'[c][i].path] = ledger[todo'[c][i].path]
  <2>1. i + 1 # 1 /\ i + 1 \in 1..Len(todo[c]) /\ todo'[c][i] = todo[c][i + 1]
    BY <1>1, <1>3, <1>8
  <2>2. todo[c][i + 1].path # p
    BY <1>2, <1>3, <1>8, <2>1 DEF AtWork
  <2> QED
    BY <1>1, <1>2, <1>3, <1>4, <1>8, <2>1, <2>2 DEF AtWork
<1>9. call[c].op = "apply" => \A q \in Path : Adopted(ledger[q]) => draft'[c][q] = ledger[q]
  BY <1>1, <1>2 DEF AtWork, p
<1> QED
  BY <1>5, <1>6, <1>7, <1>8, <1>9

LEMMA JobAt ==
  ASSUME NEW c \in Caller, jobs[c] \in Seq(JobType), NEW i \in 1..Len(jobs[c])
  PROVE  jobs[c][i] \in JobType /\ jobs[c][i].path \in Path
<1>1. jobs[c][i] \in JobType
  BY ElementOfSeq
<1> QED
  BY <1>1 DEF JobType

\* A decision that writes nothing.
LEMMA NothingDecided ==
  ASSUME FilesInv, NEW c \in Caller, at[c] = "work", todo[c] # <<>>,
         NEW e \in Entry \cup {NoEntry}, Decided(c, e, <<>>), strayed' \subseteq strayed,
         strayed \subseteq strayed' \cup {Head(todo[c]).path}, Clean(e),
         call[c].op = "apply" /\ Adopted(ledger[Head(todo[c]).path]) => e = draft[c][Head(todo[c]).path],
         Managed(e) => \/ e = draft[c][Head(todo[c]).path] /\ strayed' = strayed
                       \/ Told(Head(todo[c]).path, PendingDisk(c, Head(todo[c]).path), e)
  PROVE  FilesInv'
<1> DEFINE p == Head(todo[c]).path
           new == <<>>
<1>0. new \in Seq(JobType) /\ Decided(c, e, new)
  OBVIOUS
<1> HIDE DEF new
<1>1. /\ FileTypes' /\ p \in Path /\ holder' # NoCaller /\ jobs'[c] = jobs[c] \o new
      /\ \A q \in Path : draft'[c][q] = IF q = p THEN e ELSE draft[c][q]
      /\ \A o \in Caller : at'[o] = "work" => o = c
  BY <1>0, DecidedTypes
<1>2. AtWork(c) /\ jobs[c] \in Seq(JobType)
  BY DEF FilesInv, FileTypes
<1>3. jobs'[c] = jobs[c]
  BY <1>1, <1>2 DEF new
<1>4. UNCHANGED <<kind, tree, saved, ledger, call>>
  BY DEF Decided
<1>5. \A i \in 1..Len(jobs[c]) : jobs[c][i].path \in Path
  BY <1>2, JobAt
<1>6. \A i \in 1..Len(jobs[c]) : LastFor(c, i) /\ jobs[c][i].path = p /\ Managed(e) => Told(p, jobs[c][i].write, e)
  <2> SUFFICES ASSUME NEW i \in 1..Len(jobs[c]), LastFor(c, i), jobs[c][i].path = p, Managed(e)
               PROVE  Told(p, jobs[c][i].write, e)
    OBVIOUS
  <2>1. CASE Told(p, PendingDisk(c, p), e)
    BY <1>2, <2>1, PendingIsLast
  <2>2. CASE e = draft[c][p]
    BY <1>2, <2>2 DEF AtWork
  <2> QED
    BY <2>1, <2>2
<1>7. p \notin strayed' /\ Jobless(c, p) /\ Managed(e) => Told(p, tree[p], e)
  <2> SUFFICES ASSUME p \notin strayed', Jobless(c, p), Managed(e) PROVE Told(p, tree[p], e)
    OBVIOUS
  <2>1. CASE Told(p, PendingDisk(c, p), e)
    BY <1>1, <1>2, <2>1, PendingWhenJobless
  <2>2. CASE e = draft[c][p] /\ strayed' = strayed
    BY <1>1, <1>2, <2>2 DEF AtWork
  <2> QED
    BY <2>1, <2>2
<1>8. strayed \subseteq strayed' \cup {p}
  OBVIOUS
<1>9. AtWork(c)'
  <2>1. /\ \A q \in Path : Clean(draft'[c][q])
        /\ call[c].op = "apply" => \A i \in 1..Len(todo'[c]) : todo'[c][i].body \in Body
        /\ call[c].op = "remove" =>
              /\ \A i, k \in 1..Len(todo'[c]) : todo'[c][i].path = todo'[c][k].path => i = k
              /\ \A i \in 1..Len(todo'[c]) : /\ Managed(ledger[todo'[c][i].path])
                                             /\ draft'[c][todo'[c][i].path] = ledger[todo'[c][i].path]
        /\ call[c].op = "apply" => \A q \in Path : Adopted(ledger[q]) => draft'[c][q] = ledger[q]
    BY <1>0, DecidedRest
  <2> HIDE DEF p
  <2>2. \A i \in 1..Len(jobs[c]) : JobKeeps(jobs[c][i])' /\ JobMarked(jobs[c][i])'
    BY <1>2, <1>3, <1>4 DEF AtWork, JobKeeps, JobMarked, Words, Texts, Summed
  <2>3. \A i \in 1..Len(jobs[c]) :
          LastFor(c, i) /\ Managed(draft'[c][jobs[c][i].path])
            => Told(jobs[c][i].path, jobs[c][i].write, draft'[c][jobs[c][i].path])
    BY <1>1, <1>2, <1>5, <1>6 DEF AtWork
  <2>4. \A q \in Path \ strayed' : Jobless(c, q) /\ Managed(draft'[c][q]) => Told(q, tree[q], draft'[c][q])
    BY <1>1, <1>2, <1>7, <1>8 DEF AtWork
  <2>5. call[c].op # "none" /\ \A i \in 1..Len(jobs[c]) : call[c].op # "adopt" => ~Adopted(ledger[jobs[c][i].path])
    BY <1>2 DEF AtWork
  <2> QED
    BY <1>3, <1>4, <2>1, <2>2, <2>3, <2>4, <2>5
    DEF AtWork, Clean, Managed, Adopted, Told, Summed, LastFor, Jobless
<1> QED
  BY <1>1, <1>4, <1>9 DEF FilesInv, LedgerTellsTruth, Clean, Managed

\* A decision that a file be written.
LEMMA JobDecided ==
  ASSUME FilesInv, NEW c \in Caller, at[c] = "work", todo[c] # <<>>,
         NEW e \in Entry \cup {NoEntry}, NEW j \in JobType, j.path = Head(todo[c]).path,
         Decided(c, e, <<j>>), strayed' = strayed, Clean(e), JobKeeps(j), JobMarked(j),
         call[c].op # "adopt" => ~Adopted(ledger[j.path]),
         Managed(e) => Told(j.path, j.write, e)
  PROVE  FilesInv'
<1> DEFINE p == Head(todo[c]).path
           n == Len(jobs[c])
           new == <<j>>
<1>0. new \in Seq(JobType) /\ Decided(c, e, new) /\ strayed' \subseteq strayed
  OBVIOUS
<1> HIDE DEF new
<1>1. /\ FileTypes' /\ p \in Path /\ holder' # NoCaller /\ jobs'[c] = jobs[c] \o new
      /\ \A q \in Path : draft'[c][q] = IF q = p THEN e ELSE draft[c][q]
      /\ \A o \in Caller : at'[o] = "work" => o = c
  <2>1. /\ FileTypes' /\ Head(todo[c]).path \in Path /\ holder' # NoCaller
        /\ todo'[c] = Tail(todo[c]) /\ jobs'[c] = jobs[c] \o new
        /\ \A q \in Path : draft'[c][q] = IF q = Head(todo[c]).path THEN e ELSE draft[c][q]
        /\ \A o \in Caller : at'[o] = "work" => o = c
    BY ONLY <1>0, DecidedTypes, FilesInv, at[c] = "work", todo[c] # <<>>, c \in Caller, e \in Entry \cup {NoEntry}
  <2> QED
    BY <2>1
<1>2. AtWork(c) /\ jobs[c] \in Seq(JobType) /\ n \in Nat
  BY DEF FilesInv, FileTypes
<1>3. /\ Len(jobs'[c]) = n + 1 /\ jobs'[c][n + 1] = j /\ \A i \in 1..n : jobs'[c][i] = jobs[c][i]
  BY <1>1, <1>2 DEF new
<1>4. UNCHANGED <<kind, tree, saved, ledger, call, strayed>>
  BY DEF Decided
<1>5. \A i \in 1..n : jobs[c][i].path \in Path
  BY <1>2, JobAt
<1>6. AtWork(c)'
  <2>1. /\ \A q \in Path : Clean(draft'[c][q])
        /\ call[c].op = "apply" => \A i \in 1..Len(todo'[c]) : todo'[c][i].body \in Body
        /\ call[c].op = "remove" =>
              /\ \A i, k \in 1..Len(todo'[c]) : todo'[c][i].path = todo'[c][k].path => i = k
              /\ \A i \in 1..Len(todo'[c]) : /\ Managed(ledger[todo'[c][i].path])
                                             /\ draft'[c][todo'[c][i].path] = ledger[todo'[c][i].path]
        /\ call[c].op = "apply" => \A q \in Path : Adopted(ledger[q]) => draft'[c][q] = ledger[q]
    BY <1>0, DecidedRest
  <2> HIDE DEF p, n
  <2>2. \A i \in 1..n + 1 : i \in 1..n \/ i = n + 1
    BY <1>2
  <2>3. \A i \in 1..n + 1 : /\ JobKeeps(jobs'[c][i]) /\ JobMarked(jobs'[c][i])
                            /\ call[c].op # "adopt" => ~Adopted(ledger[jobs'[c][i].path])
    BY <1>2, <1>3, <2>2 DEF AtWork, n
  <2>4. \A i \in 1..n + 1 : JobKeeps(jobs[c][i])' /\ JobMarked(jobs[c][i])'
    BY <1>4, <2>3 DEF JobKeeps, JobMarked, Words, Texts, Summed
  <2>5. ASSUME NEW i \in 1..n + 1, LastFor(c, i)', Managed(draft'[c][jobs'[c][i].path])
        PROVE  Told(jobs'[c][i].path, jobs'[c][i].write, draft'[c][jobs'[c][i].path])
    <3>1. CASE i = n + 1
      BY <1>1, <1>3, <2>5, <3>1 DEF p
    <3>2. CASE i \in 1..n
      <4>0. n + 1 \in 1..Len(jobs'[c]) /\ ~(n + 1 <= i)
        BY <1>2, <1>3, <3>2
      <4>1. jobs[c][i].path # p
        BY <1>3, <2>5, <3>2, <4>0 DEF LastFor, p
      <4>2. LastFor(c, i)
        BY <1>2, <1>3, <2>5, <3>2 DEF LastFor, n
      <4>3. jobs'[c][i] = jobs[c][i] /\ draft'[c][jobs[c][i].path] = draft[c][jobs[c][i].path]
        BY <1>1, <1>3, <1>5, <3>2, <4>1
      <4> QED
        BY <1>2, <2>5, <3>2, <4>2, <4>3 DEF AtWork, n
    <3> QED
      BY <2>2, <3>1, <3>2
  <2>6. ASSUME NEW q \in Path \ strayed, Jobless(c, q)', Managed(draft'[c][q]) PROVE Told(q, tree[q], draft'[c][q])
    <3>1. q # p /\ Jobless(c, q)
      BY <1>2, <1>3, <2>6 DEF Jobless, p, n
    <3> QED
      BY <1>1, <1>2, <2>6, <3>1 DEF AtWork
  <2>7. call[c].op # "none"
    BY <1>2 DEF AtWork
  <2> QED
    BY <1>3, <1>4, <2>1, <2>3, <2>4, <2>5, <2>6, <2>7 DEF AtWork, Clean, Managed, Adopted, Told, Summed
<1> QED
  BY <1>1, <1>4, <1>6 DEF FilesInv, LedgerTellsTruth, Clean, Managed

\* The call ends.
LEMMA ReturnTypes ==
  ASSUME FileTypes, NEW c \in Caller, at[c] = "work", Return(c),
         ledger' \in [Path -> Entry \cup {NoEntry}], strayed' \subseteq Path, UNCHANGED <<kind, tree, saved, edits>>
  PROVE  /\ FileTypes' /\ \A o \in Caller : at'[o] # "work"
<1>1. \A o \in Caller : at'[o] # "work"
  BY DEF FileTypes, Return
<1>2. holder' = NoCaller /\ NoCaller \notin Caller
  BY ManagedFilesAssumption DEF ManagedFilesAssumption, Return
<1>3. draft' \in [Caller -> [Path -> Entry \cup {NoEntry}]]
  BY DEF FileTypes, Return, Blank
<1>4. todo' \in [Caller -> Seq(Item)] /\ jobs' \in [Caller -> Seq(JobType)] /\ \A o \in Caller : jobs'[o] = <<>>
  <2>1. <<>> \in Seq(Item) /\ <<>> \in Seq(JobType)
    OBVIOUS
  <2>2. \A o \in Caller \ {c} : at[o] # "work"
    BY DEF FileTypes
  <2> QED
    BY <2>1, <2>2 DEF FileTypes, Return
<1>5. call' \in [Caller -> Call \cup {NoCall}] /\ at' \in [Caller -> {"idle", "wait", "work"}]
  BY DEF FileTypes, Return
<1> QED
  BY <1>1, <1>2, <1>3, <1>4, <1>5 DEF FileTypes

LEMMA FailKeeps ==
  ASSUME FilesInv, NEW c \in Caller, at[c] = "work", Fail(c), UNCHANGED <<kind, tree, saved, ledger, edits>>
  PROVE  FilesInv'
<1>1. FileTypes' /\ \A o \in Caller : at'[o] # "work"
  BY ReturnTypes DEF FilesInv, FileTypes, Fail
<1>2. AtWork(c) /\ jobs[c] \in Seq(JobType)
  BY DEF FilesInv, FileTypes
<1>3. ASSUME NEW p \in Path \ strayed', Managed(ledger[p]) PROVE Told(p, tree[p], ledger[p])
  <2>1. p \notin strayed /\ draft[c][p] = ledger[p] /\ Jobless(c, p)
    BY <1>2, <1>3 DEF Fail, Jobless
  <2> QED
    BY <1>2, <1>3, <2>1 DEF AtWork
<1> QED
  BY <1>1, <1>3 DEF FilesInv, LedgerTellsTruth, Told, Unedited, Managed, Summed, Clean

LEMMA RecordLedgerKeeps ==
  ASSUME FilesInv, NEW c \in Caller, RecordLedger(c)
  PROVE  FilesInv'
<1>1. AtWork(c) /\ draft[c] \in [Path -> Entry \cup {NoEntry}] /\ at[c] = "work"
  BY DEF FilesInv, FileTypes, RecordLedger
<1>2. FileTypes' /\ \A o \in Caller : at'[o] # "work"
  BY <1>1, ReturnTypes DEF FilesInv, FileTypes, RecordLedger
<1>3. \A p \in Path \ strayed : Managed(draft[c][p]) => Told(p, tree[p], draft[c][p])
  BY <1>1 DEF AtWork, Jobless, RecordLedger
<1>4. ledger' = draft[c] /\ UNCHANGED <<kind, tree, strayed>> /\ \A p \in Path : Clean(draft[c][p])
  BY <1>1 DEF AtWork, RecordLedger
<1> QED
  BY <1>2, <1>3, <1>4 DEF FilesInv, LedgerTellsTruth, Told, Unedited, Managed, Summed, Clean

LEMMA CutShortKeeps ==
  ASSUME FilesInv, NEW c \in Caller, CutShort(c)
  PROVE  FilesInv'
BY FailKeeps DEF CutShort

\* The jobs left after the first is done.
LEMMA RestOfJobs ==
  ASSUME NEW s \in Seq(JobType), s # <<>>
  PROVE  /\ Tail(s) \in Seq(JobType) /\ Len(Tail(s)) = Len(s) - 1 /\ Len(s) \in Nat
         /\ \A i \in 1..Len(Tail(s)) : i + 1 \in 1..Len(s) /\ Tail(s)[i] = s[i + 1]
         /\ \A k \in 1..Len(s) : k = 1 \/ k - 1 \in 1..Len(Tail(s))
         /\ Head(s) = s[1] /\ 1 \in 1..Len(s) /\ s[1] \in JobType
BY HeadTailProperties

LEMMA WriteFileKeeps ==
  ASSUME FilesInv, NEW c \in Caller, WriteFile(c)
  PROVE  FilesInv'
<1> DEFINE job == Head(jobs[c])
           p == job.path
           rest == Tail(jobs[c])
<1>1. AtWork(c) /\ jobs[c] \in Seq(JobType) /\ at[c] = "work" /\ jobs[c] # <<>>
  BY DEF FilesInv, FileTypes, WriteFile, Works
<1>2. /\ rest \in Seq(JobType) /\ Len(rest) = Len(jobs[c]) - 1 /\ Len(jobs[c]) \in Nat
      /\ \A i \in 1..Len(rest) : i + 1 \in 1..Len(jobs[c]) /\ rest[i] = jobs[c][i + 1]
      /\ \A k \in 1..Len(jobs[c]) : k = 1 \/ k - 1 \in 1..Len(rest)
      /\ job = jobs[c][1] /\ 1 \in 1..Len(jobs[c]) /\ job \in JobType
  BY <1>1, RestOfJobs
<1>3. p \in Path /\ job.write \in Disk
  BY <1>2 DEF JobType
<1> HIDE DEF job, rest
<1>4. /\ jobs'[c] = rest /\ tree' = [tree EXCEPT ![p] = job.write] /\ strayed' = strayed \ {p}
      /\ UNCHANGED <<kind, saved, ledger, holder, at, call, todo, draft, edits>>
  BY <1>1 DEF FilesInv, FileTypes, WriteFile, job, rest
<1>5. FileTypes'
  <2>1. jobs' \in [Caller -> Seq(JobType)] /\ \A o \in Caller : at[o] # "work" => jobs'[o] = <<>>
    BY <1>1, <1>2 DEF FilesInv, FileTypes, WriteFile, rest
  <2> QED
    BY <1>3, <1>4, <2>1 DEF FilesInv, FileTypes
<1>6. holder' # NoCaller /\ \A o \in Caller : at'[o] = "work" => o = c
  BY <1>1, <1>4, ManagedFilesAssumption DEF ManagedFilesAssumption, FilesInv, FileTypes
<1>7. AtWork(c)'
  <2>1. \A i \in 1..Len(rest) : /\ JobKeeps(rest[i]) /\ JobMarked(rest[i])
                                /\ call[c].op # "adopt" => ~Adopted(ledger[rest[i].path])
    BY <1>1, <1>2 DEF AtWork
  <2>2. \A i \in 1..Len(rest) : JobKeeps(jobs[c][i])' /\ JobMarked(jobs[c][i])'
    BY <1>4, <2>1 DEF JobKeeps, JobMarked, Words, Texts, Summed
  <2>3. ASSUME NEW i \in 1..Len(rest), LastFor(c, i)', Managed(draft[c][rest[i].path])
        PROVE  Told(rest[i].path, rest[i].write, draft[c][rest[i].path])
    <3>1. ASSUME NEW k \in 1..Len(jobs[c]), jobs[c][k].path = jobs[c][i + 1].path PROVE k <= i + 1
      <4>1. CASE k = 1
        BY <1>2, <4>1
      <4>2. CASE k - 1 \in 1..Len(rest)
        <5>1. rest[k - 1] = jobs[c][k] /\ rest[i] = jobs[c][i + 1]
          BY <1>2, <3>1, <4>2
        <5>2. k - 1 <= i
          BY <1>4, <2>3, <3>1, <4>2, <5>1 DEF LastFor
        <5> QED
          BY <1>2, <3>1, <5>2
      <4> QED
        BY <1>2, <4>1, <4>2
    <3>2. LastFor(c, i + 1)
      BY <3>1 DEF LastFor
    <3> QED
      BY <1>1, <1>2, <2>3, <3>2 DEF AtWork
  <2>4. ASSUME NEW q \in Path \ strayed', Jobless(c, q)', Managed(draft[c][q]) PROVE Told(q, tree'[q], draft[c][q])
    <3>1. \A k \in 1..Len(jobs[c]) : k = 1 \/ jobs[c][k].path # q
      <4> SUFFICES ASSUME NEW k \in 1..Len(jobs[c]), k # 1 PROVE jobs[c][k].path # q
        OBVIOUS
      <4>1. k - 1 \in 1..Len(rest) /\ jobs[c][k] = rest[k - 1]
        BY <1>2
      <4> QED
        BY <1>4, <2>4, <4>1 DEF Jobless
    <3>2. CASE q = p
      <4>1. LastFor(c, 1)
        BY <1>2, <3>1, <3>2 DEF LastFor
      <4>2. Told(p, job.write, draft[c][p])
        BY <1>1, <1>2, <2>4, <3>2, <4>1 DEF AtWork
      <4>3. tree'[p] = job.write
        BY <1>3, <1>4 DEF FilesInv, FileTypes
      <4> QED
        BY <3>2, <4>2, <4>3
    <3>3. CASE q # p
      <4>1. Jobless(c, q) /\ q \notin strayed /\ tree'[q] = tree[q]
        BY <1>2, <1>4, <2>4, <3>1, <3>3 DEF Jobless, FilesInv, FileTypes
      <4> QED
        BY <1>1, <2>4, <4>1 DEF AtWork
    <3> QED
      BY <3>2, <3>3
  <2>5. /\ call[c].op # "none" /\ \A q \in Path : Clean(draft[c][q])
        /\ call[c].op = "apply" => \A i \in 1..Len(todo[c]) : todo[c][i].body \in Body
        /\ call[c].op = "remove" =>
              /\ \A i, k \in 1..Len(todo[c]) : todo[c][i].path = todo[c][k].path => i = k
              /\ \A i \in 1..Len(todo[c]) :
                   Managed(ledger[todo[c][i].path]) /\ draft[c][todo[c][i].path] = ledger[todo[c][i].path]
        /\ call[c].op = "apply" => \A q \in Path : Adopted(ledger[q]) => draft[c][q] = ledger[q]
    BY <1>1 DEF AtWork
  <2> QED
    BY <1>4, <2>1, <2>2, <2>3, <2>4, <2>5 DEF AtWork, Clean, Managed, Adopted, Told, Summed
<1> QED
  BY <1>4, <1>5, <1>6, <1>7 DEF FilesInv, LedgerTellsTruth, Clean, Managed

LEMMA BackupKeeps ==
  ASSUME FilesInv, NEW c \in Caller, Backup(c)
  PROVE  FilesInv'
<1> DEFINE job == Head(jobs[c])
           done == [job EXCEPT !.backup = FALSE]
<1>1. AtWork(c) /\ jobs[c] \in Seq(JobType) /\ at[c] = "work" /\ jobs[c] # <<>> /\ job.backup
  BY DEF FilesInv, FileTypes, Backup, Works
<1>2. /\ job = jobs[c][1] /\ 1 \in 1..Len(jobs[c]) /\ job \in JobType
  BY <1>1, RestOfJobs
<1>3. /\ done \in JobType /\ done.path = job.path /\ done.seen = job.seen /\ done.write = job.write
      /\ done.backup = FALSE
  BY <1>2 DEF JobType
<1>4. /\ jobs'[c] = [jobs[c] EXCEPT ![1] = done]
      /\ saved' = saved \cup Words(Summed(job.path, job.seen))
      /\ UNCHANGED <<kind, tree, ledger, holder, at, call, todo, draft, strayed, edits>>
  BY <1>1, <1>2 DEF FilesInv, FileTypes, Backup
<1> HIDE DEF job, done
<1>5. /\ jobs'[c] \in Seq(JobType) /\ Len(jobs'[c]) = Len(jobs[c]) /\ jobs'[c][1] = done
      /\ \A i \in 1..Len(jobs[c]) : i # 1 => jobs'[c][i] = jobs[c][i]
  BY <1>1, <1>2, <1>3, <1>4
<1>6. FileTypes'
  <2>1. jobs' \in [Caller -> Seq(JobType)] /\ \A o \in Caller : at[o] # "work" => jobs'[o] = <<>>
    BY <1>1, <1>5 DEF FilesInv, FileTypes, Backup
  <2>2. saved' \subseteq Word
    BY <1>4 DEF FilesInv, FileTypes, Words
  <2> QED
    BY <1>4, <2>1, <2>2 DEF FilesInv, FileTypes
<1>7. holder' # NoCaller /\ \A o \in Caller : at'[o] = "work" => o = c
  BY <1>1, <1>4, ManagedFilesAssumption DEF ManagedFilesAssumption, FilesInv, FileTypes
<1>8. \A i \in 1..Len(jobs[c]) : /\ jobs'[c][i].path = jobs[c][i].path /\ jobs'[c][i].write = jobs[c][i].write
                                 /\ jobs'[c][i].seen = jobs[c][i].seen
  BY <1>2, <1>3, <1>5
<1>9. ASSUME NEW i \in 1..Len(jobs[c]) PROVE JobKeeps(jobs[c][i])' /\ JobMarked(jobs[c][i])'
  <2>1. JobKeeps(jobs[c][i]) /\ JobMarked(jobs[c][i])
    BY <1>1, <1>9 DEF AtWork
  <2>2. CASE i = 1
    BY <1>2, <1>3, <1>4, <1>5, <2>1, <2>2 DEF JobKeeps, JobMarked, Words, Texts, Summed
  <2>3. CASE i # 1
    BY <1>4, <1>5, <1>9, <2>1, <2>3 DEF JobKeeps, JobMarked, Words, Texts, Summed
  <2> QED
    BY <2>2, <2>3
<1>10. AtWork(c)'
  <2>1. \A q \in Path : Jobless(c, q)' => Jobless(c, q)
    BY <1>5, <1>8 DEF Jobless
  <2>2. \A i \in 1..Len(jobs[c]) : LastFor(c, i)' => LastFor(c, i)
    BY <1>5, <1>8 DEF LastFor
  <2>3. \A i \in 1..Len(jobs'[c]) : JobKeeps(jobs[c][i])' /\ JobMarked(jobs[c][i])'
    BY <1>5, <1>9
  <2>4. \A i \in 1..Len(jobs'[c]) : call[c].op # "adopt" => ~Adopted(ledger[jobs'[c][i].path])
    BY <1>1, <1>5, <1>8 DEF AtWork
  <2>5. \A i \in 1..Len(jobs'[c]) : LastFor(c, i)' /\ Managed(draft[c][jobs'[c][i].path])
          => Told(jobs'[c][i].path, jobs'[c][i].write, draft[c][jobs'[c][i].path])
    BY <1>1, <1>5, <1>8, <2>2 DEF AtWork
  <2>6. \A q \in Path \ strayed : Jobless(c, q)' /\ Managed(draft[c][q]) => Told(q, tree[q], draft[c][q])
    BY <1>1, <2>1 DEF AtWork
  <2>7. /\ call[c].op # "none" /\ \A q \in Path : Clean(draft[c][q])
        /\ call[c].op = "apply" => \A i \in 1..Len(todo[c]) : todo[c][i].body \in Body
        /\ call[c].op = "remove" =>
              /\ \A i, k \in 1..Len(todo[c]) : todo[c][i].path = todo[c][k].path => i = k
              /\ \A i \in 1..Len(todo[c]) :
                   Managed(ledger[todo[c][i].path]) /\ draft[c][todo[c][i].path] = ledger[todo[c][i].path]
        /\ call[c].op = "apply" => \A q \in Path : Adopted(ledger[q]) => draft[c][q] = ledger[q]
    BY <1>1 DEF AtWork
  <2> QED
    BY <1>4, <2>3, <2>4, <2>5, <2>6, <2>7 DEF AtWork, Clean, Managed, Adopted, Told, Summed
<1> QED
  BY <1>4, <1>6, <1>7, <1>10 DEF FilesInv, LedgerTellsTruth, Clean, Managed

\* What an apply wants a file to hold, and the entry it makes of it.
LEMMA DesiredFacts ==
  ASSUME NEW p \in Path, NEW o \in FileOwner, NEW body \in Body, kind[p] \in {"file", "bare", "block"}
  PROVE  LET want == Desired(p, o, body)
             entry == [owner |-> o, mark |-> MarkerOf[o], sum |-> want, state |-> "managed"]
         IN /\ want \in Content /\ want.own \in Body /\ want.rest = {}
            /\ entry \in Entry /\ Clean(entry) /\ Managed(entry) /\ ~Adopted(entry)
            /\ \A now \in Disk : Placed(p, now, want) \in Content /\ Told(p, Placed(p, now, want), entry)
<1> DEFINE want == Desired(p, o, body)
           entry == [owner |-> o, mark |-> MarkerOf[o], sum |-> want, state |-> "managed"]
<1>1. MarkerOf[o] \in Mark
  BY DEF Mark
<1>2. want \in Content /\ want.own \in Body /\ want.rest = {}
  BY <1>1 DEF Desired, Content
<1> HIDE DEF want
<1>3. entry \in Entry
  BY <1>1, <1>2 DEF Entry
<1>4. entry # NoEntry
  BY <1>3, ManagedFilesAssumption DEF ManagedFilesAssumption
<1>5. Clean(entry) /\ Managed(entry) /\ ~Adopted(entry)
  BY <1>2, <1>4 DEF Clean, Managed, Adopted
<1>6. ASSUME NEW now \in Disk PROVE Placed(p, now, want) \in Content /\ Told(p, Placed(p, now, want), entry)
  <2>1. Placed(p, now, want) \in Content
    BY <1>2 DEF Placed, Content, Disk
  <2>2. Summed(p, Placed(p, now, want)) = want
    BY <1>2 DEF Placed, Content, Disk, Summed
  <2>3. Placed(p, now, want) # NoFile
    BY <2>1, ManagedFilesAssumption DEF ManagedFilesAssumption
  <2> QED
    BY <2>1, <2>2, <2>3 DEF Told
<1> QED
  BY <1>2, <1>3, <1>5, <1>6 DEF want

\* What Lando wrote and nobody edited holds no word of the user's.
LEMMA UneditedIsLandos ==
  ASSUME NEW p \in Path, NEW now \in Content, NEW e \in Entry \cup {NoEntry},
         Clean(e), ~Adopted(e), Unedited(p, now, e)
  PROVE  Words(Summed(p, now)) = {} /\ Managed(e)
<1>1. e \in Entry /\ e # NoEntry
  BY DEF Unedited
<1>2. Managed(e)
  BY <1>1 DEF Adopted, Managed, Entry
<1>3. Summed(p, now) = e.sum /\ e.sum \in Content /\ e.sum.own \in Body /\ e.sum.rest = {}
  BY <1>1, <1>2 DEF Unedited, Clean, Entry
<1> QED
  BY <1>2, <1>3, ManagedFilesAssumption DEF ManagedFilesAssumption, Words, Texts

\* Around a block the user's text stays; the rest of the file is what a backup is of.
LEMMA OverwriteKeeps ==
  ASSUME NEW p \in Path, NEW now \in Content, NEW want \in Content, want.rest = {}
  PROVE  Words(now) \subseteq Texts(Placed(p, now, want)) \cup Words(Summed(p, now))
<1>1. now # NoFile /\ Summed(p, now) # NoFile /\ Placed(p, now, want) # NoFile
  BY ManagedFilesAssumption DEF ManagedFilesAssumption, Content, Summed, Placed
<1> QED
  BY <1>1 DEF Words, Texts, Placed, Summed, Content

LEMMA DecideApplyKeeps ==
  ASSUME FilesInv, NEW c \in Caller, DecideApply(c)
  PROVE  FilesInv'
<1> DEFINE p == Head(todo[c]).path
           o == ActsFor[c]
           e == draft[c][p]
           now == PendingDisk(c, p)
           body == Head(todo[c]).body
           want == Desired(p, o, body)
           entry == [owner |-> o, mark |-> MarkerOf[o], sum |-> want, state |-> "managed"]
           handed == [entry EXCEPT !.sum = Summed(p, now), !.state = "adopted"]
           claimed == now # NoFile /\ Claimed(p, now, MarkerOf[o], e)
           same == claimed /\ Summed(p, now) = want /\ (kind[p] = "bare" => Unedited(p, now, e))
           write(backup) == Job(p, now, Placed(p, now, want), backup)
<1>1. AtWork(c) /\ at[c] = "work" /\ todo[c] # <<>> /\ call[c].op = "apply"
  BY DEF FilesInv, DecideApply, Decides
<1>2. todo[c] \in Seq(Item) /\ jobs[c] \in Seq(JobType)
  BY DEF FilesInv, FileTypes
<1>3. p \in Path /\ body \in Body /\ o \in FileOwner
  <2>1. Head(todo[c]) \in Item /\ Head(todo[c]) = todo[c][1] /\ 1 \in 1..Len(todo[c])
    BY <1>1, <1>2, RestOfWork, ElementOfSeq
  <2> QED
    BY <1>1, <2>1, ManagedFilesAssumption DEF ManagedFilesAssumption, Item, AtWork
<1>4. kind[p] \in {"file", "bare", "block"} /\ e \in Entry \cup {NoEntry} /\ Clean(e) /\ tree[p] \in Disk
  BY <1>1, <1>3 DEF FilesInv, FileTypes, AtWork
<1>5. now \in Disk
  BY <1>2, <1>3, <1>4, PendingOnDisk
<1>6. Adopted(ledger[p]) => Adopted(e)
  BY <1>1, <1>3 DEF AtWork
<1>7. /\ want \in Content /\ want.own \in Body /\ want.rest = {}
      /\ entry \in Entry /\ Clean(entry) /\ Managed(entry) /\ ~Adopted(entry)
      /\ Placed(p, now, want) \in Content /\ Told(p, Placed(p, now, want), entry)
  BY <1>3, <1>4, <1>5, DesiredFacts
<1>8. now # NoFile => handed \in Entry /\ Clean(handed) /\ ~Managed(handed)
  <2> SUFFICES ASSUME now # NoFile PROVE handed \in Entry /\ Clean(handed) /\ ~Managed(handed)
    OBVIOUS
  <2>1. Summed(p, now) \in Content
    BY <1>5 DEF Disk, Summed, Content
  <2> HIDE DEF now, want, p, o
  <2> QED
    BY <1>7, <2>1 DEF Entry, Clean, Managed
<1>9. \A backup \in BOOLEAN :
        /\ write(backup) \in JobType /\ write(backup).path = p /\ write(backup).seen = now
        /\ write(backup).write = Placed(p, now, want) /\ write(backup).backup = backup
  BY <1>3, <1>5, <1>7 DEF Job, JobType, Disk
<1>10. \/ Adopted(e) /\ Decided(c, e, <<>>) /\ strayed' = strayed
       \/ ~Adopted(e) /\ now = NoFile /\ Decided(c, entry, <<write(FALSE)>>) /\ strayed' = strayed
       \/ ~Adopted(e) /\ now # NoFile /\ ~claimed /\ Decided(c, handed, <<>>) /\ strayed' = strayed
       \/ ~Adopted(e) /\ same /\ Decided(c, entry, <<>>) /\ strayed' = strayed \ {p}
       \/ ~Adopted(e) /\ claimed /\ Unedited(p, now, e) /\ Decided(c, entry, <<write(FALSE)>>) /\ strayed' = strayed
       \/ ~Adopted(e) /\ claimed /\ Decided(c, entry, <<write(TRUE)>>) /\ strayed' = strayed
       \/ Decided(c, e, <<>>) /\ strayed' = strayed
       \/ Fail(c) /\ UNCHANGED <<kind, tree, saved, ledger, edits>>
  BY DEF DecideApply
<1>11. claimed => now \in Content /\ (kind[p] # "bare" => now.mark # NoMark)
  <2>1. MarkerOf[o] \in Mark
    BY <1>3 DEF Mark
  <2> QED
    BY <1>5, <2>1, ManagedFilesAssumption DEF ManagedFilesAssumption, Claimed, Disk
<1>12. same => Told(p, now, entry)
  BY DEF Told
<1> HIDE DEF e, now, body, want, entry, handed, claimed, same, write
<1>13. ASSUME ~Adopted(e), NEW backup \in BOOLEAN, Decided(c, entry, <<write(backup)>>), strayed' = strayed,
              now = NoFile \/ (claimed /\ (Unedited(p, now, e) \/ backup))
       PROVE  FilesInv'
  <2>1. JobMarked(write(backup))
    BY <1>9, <1>11, <1>13 DEF JobMarked
  <2>2. JobKeeps(write(backup))
    <3>1. CASE now = NoFile
      BY <1>9, <3>1 DEF JobKeeps, Words, Texts
    <3>2. CASE claimed /\ Unedited(p, now, e)
      BY <1>3, <1>4, <1>7, <1>9, <1>11, <1>13, <3>2, OverwriteKeeps, UneditedIsLandos DEF JobKeeps
    <3>3. CASE claimed /\ backup
      BY <1>3, <1>7, <1>9, <1>11, <3>3, OverwriteKeeps DEF JobKeeps
    <3> QED
      BY <1>13, <3>1, <3>2, <3>3
  <2> DEFINE j == write(backup)
  <2>3. j \in JobType /\ j.path = p /\ Told(j.path, j.write, entry) /\ ~Adopted(ledger[j.path])
    BY <1>6, <1>7, <1>9, <1>13
  <2>4. Decided(c, entry, <<j>>) /\ JobKeeps(j) /\ JobMarked(j)
    BY <1>13, <2>1, <2>2
  <2> HIDE DEF j
  <2> QED
    BY <1>1, <1>7, <1>13, <2>3, <2>4, JobDecided
<1>14. CASE Decided(c, e, <<>>) /\ strayed' = strayed
  BY <1>1, <1>4, <1>14, NothingDecided DEF e
<1>15. CASE ~Adopted(e) /\ now # NoFile /\ Decided(c, handed, <<>>) /\ strayed' = strayed
  BY <1>1, <1>6, <1>8, <1>15, NothingDecided
<1>16. CASE ~Adopted(e) /\ same /\ Decided(c, entry, <<>>) /\ strayed' = strayed \ {p}
  BY <1>1, <1>6, <1>7, <1>12, <1>16, NothingDecided DEF now
<1>17. CASE Fail(c) /\ UNCHANGED <<kind, tree, saved, ledger, edits>>
  BY <1>1, <1>17, FailKeeps
<1> QED
  BY <1>10, <1>13, <1>14, <1>15, <1>16, <1>17

LEMMA DecideRemoveKeeps ==
  ASSUME FilesInv, NEW c \in Caller, DecideRemove(c)
  PROVE  FilesInv'
<1> DEFINE p == Head(todo[c]).path
           e == draft[c][p]
           now == tree[p]
           claimed == now # NoFile /\ Claimed(p, now, e.mark, e)
           job == Job(p, now, Remainder(p, now), FALSE)
<1>1. /\ AtWork(c) /\ at[c] = "work" /\ todo[c] # <<>> /\ call[c].op = "remove" /\ strayed' = strayed
      /\ todo[c] \in Seq(Item)
  BY DEF FilesInv, FileTypes, DecideRemove, Decides
<1>2. p \in Path /\ Managed(ledger[p]) /\ e = ledger[p]
  <2>1. Head(todo[c]) \in Item /\ Head(todo[c]) = todo[c][1] /\ 1 \in 1..Len(todo[c])
    BY <1>1, RestOfWork, ElementOfSeq
  <2> QED
    BY <1>1, <2>1 DEF Item, AtWork
<1>3. /\ e \in Entry \cup {NoEntry} /\ Clean(e) /\ now \in Disk /\ Managed(e) /\ ~Adopted(e)
      /\ kind[p] \in {"file", "bare", "block"}
  BY <1>2 DEF FilesInv, FileTypes, Managed, Adopted
<1>4. e \in Entry /\ e.mark \in Mark
  BY <1>3 DEF Managed, Entry
<1>5. ~Managed(NoEntry) /\ Clean(NoEntry)
  BY DEF Managed, Clean
<1>6. \/ Decided(c, NoEntry, <<>>)
      \/ claimed /\ Unedited(p, now, e) /\ Decided(c, NoEntry, <<job>>)
      \/ Decided(c, e, <<>>)
  BY DEF DecideRemove
<1>7. CASE claimed /\ Unedited(p, now, e) /\ Decided(c, NoEntry, <<job>>)
  <2>1. now \in Content /\ now # NoFile
    BY <1>3, <1>7 DEF Disk
  <2>2. Remainder(p, now) \in Disk
    BY <2>1 DEF Remainder, Disk, Content
  <2>3. /\ job \in JobType /\ job.path = p /\ job.seen = now /\ job.write = Remainder(p, now)
        /\ job.backup = FALSE
    BY <1>2, <1>3, <2>2 DEF Job, JobType
  <2> HIDE DEF e, now, job, claimed
  <2>4. Words(now) \subseteq Texts(Remainder(p, now))
    <3>1. Words(Summed(p, now)) = {}
      BY <1>2, <1>3, <1>7, <2>1, UneditedIsLandos
    <3>2. CASE kind[p] = "block"
      <4>1. Summed(p, now).own = now.own /\ Summed(p, now) # NoFile /\ Remainder(p, now) # NoFile
        BY <2>1, <3>2, ManagedFilesAssumption DEF ManagedFilesAssumption, Summed, Content, Remainder
      <4>2. Remainder(p, now).rest = now.rest
        BY <3>2 DEF Remainder
      <4> QED
        BY <2>1, <3>1, <4>1, <4>2 DEF Words, Texts
    <3>3. CASE kind[p] # "block"
      BY <3>1, <3>3 DEF Summed
    <3> QED
      BY <3>2, <3>3
  <2>5. JobKeeps(job)
    BY <2>3, <2>4 DEF JobKeeps
  <2>6. JobMarked(job)
    BY <1>4, <1>7, <2>3, ManagedFilesAssumption DEF ManagedFilesAssumption, JobMarked, Claimed, claimed
  <2>7. ~Adopted(ledger[job.path])
    BY <1>2, <2>3 DEF Managed, Adopted
  <2> QED
    BY <1>1, <1>5, <1>7, <2>3, <2>5, <2>6, <2>7, JobDecided
<1>8. CASE Decided(c, NoEntry, <<>>)
  BY <1>1, <1>5, <1>8, NothingDecided
<1>9. CASE Decided(c, e, <<>>)
  BY <1>1, <1>3, <1>9, NothingDecided
<1> QED
  BY <1>6, <1>7, <1>8, <1>9

LEMMA DecideHandoverKeeps ==
  ASSUME FilesInv, NEW c \in Caller, DecideHandover(c)
  PROVE  FilesInv'
<1> DEFINE p == Head(todo[c]).path
           e == draft[c][p]
           now == tree[p]
           next == IF Managed(e) THEN [e EXCEPT !.state = "adopted"] ELSE e
           changes == /\ call[c].op = "adopt" /\ e # NoEntry /\ now # NoFile
                      /\ Stripped(p, now, e.mark) # now
           job == Job(p, now, Stripped(p, now, e.mark), FALSE)
<1>1. /\ AtWork(c) /\ at[c] = "work" /\ todo[c] # <<>> /\ call[c].op \in {"adopt", "release"}
      /\ strayed' = strayed /\ todo[c] \in Seq(Item)
  BY DEF FilesInv, FileTypes, DecideHandover, Decides
<1>2. p \in Path
  <2>1. Head(todo[c]) \in Item
    BY <1>1, RestOfWork, ElementOfSeq
  <2> QED
    BY <2>1 DEF Item
<1>3. e \in Entry \cup {NoEntry} /\ now \in Disk /\ kind[p] \in {"file", "bare", "block"}
  BY <1>2 DEF FilesInv, FileTypes
<1>4. next \in Entry \cup {NoEntry} /\ ~Managed(next) /\ Clean(next)
  <2> HIDE DEF e
  <2>1. CASE Managed(e)
    <3>1. [e EXCEPT !.state = "adopted"] \in Entry
      BY <1>3, <2>1 DEF Managed, Entry
    <3>2. [e EXCEPT !.state = "adopted"].state = "adopted"
      BY <1>3, <2>1 DEF Managed, Entry
    <3> QED
      BY <2>1, <3>1, <3>2 DEF Managed, Clean
  <2>2. CASE ~Managed(e)
    BY <1>3, <2>2 DEF Clean
  <2> QED
    BY <2>1, <2>2
<1>5. \/ changes /\ Decided(c, next, <<job>>)
      \/ Decided(c, next, <<>>)
  BY DEF DecideHandover
<1>6. CASE changes /\ Decided(c, next, <<job>>)
  <2>1. now \in Content /\ now # NoFile /\ e \in Entry /\ e.mark \in Mark
    BY <1>3, <1>6 DEF Disk, Entry
  <2>2. Stripped(p, now, e.mark) \in Content
    <3>1. Texts(now) \subseteq Body \cup Word
      BY <2>1 DEF Texts, Content
    <3> QED
      BY <2>1, <3>1 DEF Stripped, Content
  <2>3. /\ job \in JobType /\ job.path = p /\ job.seen = now /\ job.write = Stripped(p, now, e.mark)
        /\ job.backup = FALSE
    BY <1>2, <1>3, <2>2 DEF Job, JobType, Disk
  <2>4. now.mark = e.mark /\ kind[p] # "bare"
    BY <1>6 DEF Stripped
  <2> HIDE DEF e, now, job, next
  <2>5. Words(now) \subseteq Texts(Stripped(p, now, e.mark))
    <3>1. Stripped(p, now, e.mark) # NoFile
      BY <2>2, ManagedFilesAssumption DEF ManagedFilesAssumption
    <3>2. CASE kind[p] = "block"
      BY <2>1, <2>4, <3>1, <3>2 DEF Stripped, Texts, Words
    <3>3. CASE kind[p] # "block"
      BY <2>1, <2>4, <3>1, <3>3 DEF Stripped, Texts, Words, Content
    <3> QED
      BY <3>2, <3>3
  <2>6. JobKeeps(job)
    BY <2>3, <2>5 DEF JobKeeps
  <2>7. JobMarked(job)
    BY <2>1, <2>3, <2>4, ManagedFilesAssumption DEF ManagedFilesAssumption, JobMarked
  <2> QED
    BY <1>1, <1>4, <1>6, <2>3, <2>6, <2>7, JobDecided
<1>7. CASE Decided(c, next, <<>>)
  <2> HIDE DEF next
  <2> QED
    BY <1>1, <1>4, <1>7, NothingDecided
<1> QED
  BY <1>5, <1>6, <1>7

LEMMA FilesStep == FilesInv /\ [FilesNext]_filesVars => FilesInv'
<1> SUFFICES ASSUME FilesInv, [FilesNext]_filesVars PROVE FilesInv'
  OBVIOUS
<1>1. ASSUME NEW c \in Caller, PassView(c) PROVE FilesInv'
  BY <1>1, PassViewKeeps
<1>2. ASSUME NEW c \in Caller, TakeLedger(c) PROVE FilesInv'
  BY <1>2, TakeLedgerKeeps
<1>3. ASSUME NEW c \in Caller, DecideApply(c) PROVE FilesInv'
  BY <1>3, DecideApplyKeeps
<1>4. ASSUME NEW c \in Caller, DecideRemove(c) PROVE FilesInv'
  BY <1>4, DecideRemoveKeeps
<1>5. ASSUME NEW c \in Caller, DecideHandover(c) PROVE FilesInv'
  BY <1>5, DecideHandoverKeeps
<1>6. ASSUME NEW c \in Caller, Backup(c) PROVE FilesInv'
  BY <1>6, BackupKeeps
<1>7. ASSUME NEW c \in Caller, WriteFile(c) PROVE FilesInv'
  BY <1>7, WriteFileKeeps
<1>8. ASSUME NEW c \in Caller, RecordLedger(c) PROVE FilesInv'
  BY <1>8, RecordLedgerKeeps
<1>9. ASSUME NEW c \in Caller, CutShort(c) PROVE FilesInv'
  BY <1>9, CutShortKeeps
<1>10. ASSUME NEW p \in Path, EditByUser(p) PROVE FilesInv'
  BY <1>10, EditByUserKeeps
<1>11. CASE QuarantineLedger
  BY <1>11, QuarantineKeeps
<1>12. CASE UNCHANGED filesVars
  <2>1. FileTypes'
    BY <1>12 DEF FilesInv, FileTypes, filesVars, caller
  <2>2. ASSUME NEW o \in Caller, at'[o] = "work" PROVE AtWork(o)'
    BY <1>12, <2>2, AtWorkStays DEF FilesInv, filesVars, caller
  <2> QED
    BY <1>12, <2>1, <2>2 DEF FilesInv, filesVars, caller, LedgerTellsTruth, Clean, Managed, Unedited, Summed
<1> QED
  BY <1>1, <1>2, <1>3, <1>4, <1>5, <1>6, <1>7, <1>8, <1>9, <1>10, <1>11, <1>12 DEF FilesNext

\* The invariant holds whatever the callers, the user and the accidents do.
THEOREM FilesInvariant == FilesSpec => []FilesInv
<1> QED
  BY FilesStart, FilesStep, PTL DEF FilesSpec

\* Every state of the managed files is well formed.
THEOREM FilesTypes == FilesSpec => []FilesTypeOK
<1>1. FilesInv => FilesTypeOK
  BY DEF FilesInv, FileTypes, FilesTypeOK, Disk
<1> QED
  BY <1>1, FilesInvariant, PTL

\* Between calls a managed path holds what its entry says, unless the user changed it since or a
\* call that wrote it was cut short: what service.ts reports as a conflict is one of these.
THEOREM LedgerTrue == FilesSpec => []LedgerTellsTruth
<1>1. FilesInv => LedgerTellsTruth
  BY DEF FilesInv
<1> QED
  BY <1>1, FilesInvariant, PTL

\* The one step that changes a file of the user's without being the user's.
LEMMA OnlyJobsWrite ==
  ASSUME FilesInv, [FilesNext]_filesVars, edits' = edits, NEW c \in Caller, holder = c,
         NEW p \in Path, tree'[p] # tree[p]
  PROVE  /\ WriteFile(c) /\ AtWork(c) /\ jobs[c] \in Seq(JobType) /\ jobs[c] # <<>>
         /\ Head(jobs[c]).path = p /\ tree'[p] = Head(jobs[c]).write
<1>1. PICK o \in Caller : WriteFile(o)
  <2>1. \A q \in Path : ~EditByUser(q)
    BY DEF EditByUser, FilesInv, FileTypes
  <2>2. ~UNCHANGED tree
    OBVIOUS
  <2>3. \A o, e, new : Decided(o, e, new) => UNCHANGED tree
    BY DEF Decided
  <2> QED
    BY <2>1, <2>2, <2>3 DEF FilesNext, filesVars, PassView, TakeLedger, DecideApply, DecideRemove,
       DecideHandover, Backup, RecordLedger, CutShort, QuarantineLedger
<1>2. o = c
  BY <1>1 DEF WriteFile, Works, FilesInv, FileTypes
<1>3. AtWork(c) /\ jobs[c] \in Seq(JobType) /\ jobs[c] # <<>>
  BY <1>1, <1>2 DEF WriteFile, Works, FilesInv, FileTypes
<1>4. Head(jobs[c]).path = p /\ tree'[p] = Head(jobs[c]).write
  BY <1>1, <1>2 DEF WriteFile, FilesInv, FileTypes
<1> QED
  BY <1>1, <1>2, <1>3, <1>4

\* "refuses to silently clobber a user edit": what the user had written when a call looked at a
\* file is in the file or in a backup after the call has changed it.
THEOREM EditsKept == FilesSpec => EditsSpared
<1>1. ASSUME FilesInv, [FilesNext]_filesVars, ByCaller, NEW c \in Caller, holder = c,
             NEW p \in Path, tree'[p] # tree[p]
      PROVE  Words(Head(jobs[c]).seen) \subseteq Texts(tree'[p]) \cup saved'
  <2>1. /\ WriteFile(c) /\ AtWork(c) /\ jobs[c] \in Seq(JobType) /\ jobs[c] # <<>>
        /\ tree'[p] = Head(jobs[c]).write
    BY <1>1, OnlyJobsWrite DEF ByCaller
  <2>2. JobKeeps(Head(jobs[c]))
    BY <2>1, RestOfJobs DEF AtWork
  <2> QED
    BY <2>1, <2>2 DEF WriteFile, JobKeeps
<1>2. FilesInv /\ [FilesNext]_filesVars =>
        [\A c \in Caller : \A p \in Path :
           ByCaller /\ holder = c /\ tree'[p] # tree[p]
             => Words(Head(jobs[c]).seen) \subseteq Texts(tree'[p]) \cup saved']_filesVars
  BY <1>1
<1> QED
  BY <1>2, FilesInvariant, PTL DEF FilesSpec, EditsSpared

\* Only adopt changes a file whose entry is adopted, and no call one it found without a marker.
THEOREM HandsKeptOff == FilesSpec => HandsOff
<1>1. ASSUME FilesInv, [FilesNext]_filesVars, ByCaller, NEW c \in Caller, holder = c,
             NEW p \in Path, tree'[p] # tree[p]
      PROVE  /\ Adopted(ledger[p]) => call[c].op = "adopt"
             /\ LET seen == Head(jobs[c]).seen
                IN kind[p] # "bare" /\ seen # NoFile => seen.mark # NoMark
  <2>1. /\ WriteFile(c) /\ AtWork(c) /\ jobs[c] \in Seq(JobType) /\ jobs[c] # <<>> /\ Head(jobs[c]).path = p
    BY <1>1, OnlyJobsWrite DEF ByCaller
  <2>2. JobMarked(Head(jobs[c])) /\ (call[c].op # "adopt" => ~Adopted(ledger[Head(jobs[c]).path]))
    BY <2>1, RestOfJobs DEF AtWork
  <2> QED
    BY <2>1, <2>2 DEF JobMarked
<1>2. FilesInv /\ [FilesNext]_filesVars =>
        [\A c \in Caller : \A p \in Path :
           ByCaller /\ holder = c /\ tree'[p] # tree[p]
             => /\ Adopted(ledger[p]) => call[c].op = "adopt"
                /\ LET seen == Head(jobs[c]).seen
                   IN kind[p] # "bare" /\ seen # NoFile => seen.mark # NoMark]_filesVars
  BY <1>1
<1> QED
  BY <1>2, FilesInvariant, PTL DEF FilesSpec, HandsOff
=============================================================================
