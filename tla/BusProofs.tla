-------------------------------- MODULE BusProofs --------------------------------
(***************************************************************************)
(* Theorems about the message bus, for every number of agents, topics,     *)
(* messages, channels and sending tasks, every capacity, queue limit and   *)
(* retention: its types, and that what it delivers is exact.               *)
(***************************************************************************)
EXTENDS BusHistory, SequenceLemmas

--------------------------------------------------------------------------------
(* Types *)

LEMMA InitTyped == Init => TypeOK
BY CapacityAssumption, QueueAssumption, EmptySeq DEF Init, TypeOK, Idle

(* The bus changes by one of its operations, or not at all. *)
Step ==
    \/ \E p \in Pids, t \in Topics, c \in Chans : Subscribe(p, t, c)
    \/ \E p \in Pids, t \in Topics : Unsubscribe(p, t)
    \/ \E c \in Chans : Receive(c)
    \/ \E c \in Chans : Drop(c)
    \/ \E k \in Tasks, m \in Messages, t \in Topics : Publish(k, t, m)
    \/ \E k \in Tasks, m \in Messages, p \in Pids : SendDirect(k, p, m)
    \/ \E k \in Tasks : SendNext(k)
    \/ \E p \in Pids, t \in Topics \cup {None}, m \in Messages : QueueForOffline(p, t, m)
    \/ \E p \in Pids : DeliverQueued(p)
    \/ ExpireOldMessages(Retention)
    \/ Tick

LEMMA NextStep == Next => Step
BY DEF Next, Step

LEMMA SubscribeTyped ==
  ASSUME TypeOK, NEW p \in Pids, NEW t \in Topics, NEW c \in Chans, Subscribe(p, t, c)
  PROVE  TypeOK'
<1>1. [pid |-> p, chan |-> c] \in Subscription
  BY DEF Subscription
<1>2. Append(subscriptions[t], [pid |-> p, chan |-> c]) \in Seq(Subscription)
  BY <1>1, AppendProperties DEF TypeOK
<1> QED BY <1>2 DEF TypeOK, Subscribe, offline

LEMMA UnsubscribeTyped ==
  ASSUME TypeOK, NEW p \in Pids, NEW t \in Topics, Unsubscribe(p, t)
  PROVE  TypeOK'
<1>1. Only(subscriptions[t], {s \in Subscription : s.pid # p}) \in Seq(Subscription)
  BY OnlyType DEF TypeOK
<1> QED BY <1>1 DEF TypeOK, Unsubscribe, offline

LEMMA ReceiveTyped ==
  ASSUME TypeOK, NEW c \in Chans, Receive(c)
  PROVE  TypeOK'
<1>1. buffer[c] \in Seq(Messages) /\ buffer[c] # <<>> /\ Len(buffer[c]) <= Capacity
  BY DEF TypeOK, Receive
<1>2. Tail(buffer[c]) \in Seq(Messages) /\ Len(Tail(buffer[c])) <= Capacity
  BY <1>1, HeadTailProperties, LenProperties, CapacityAssumption
<1> QED BY <1>2 DEF TypeOK, Receive, offline

LEMMA DropTyped ==
  ASSUME TypeOK, NEW c \in Chans, Drop(c)
  PROVE  TypeOK'
BY EmptySeq, CapacityAssumption DEF TypeOK, Drop, offline

LEMMA BeginTyped ==
  ASSUME TypeOK, NEW k \in Tasks, NEW m \in Messages, NEW targets \in Seq(Chans),
         Begin(k, m, targets)
  PROVE  TypeOK'
<1>1. m # None
  BY NoneAssumption
<1>2. sending' \in [Tasks -> [msg : Messages \cup {None}, todo : Seq(Chans)]]
  BY EmptySeq DEF TypeOK, Begin, Idle
<1>3. \A l \in Tasks : sending'[l].msg = None <=> sending'[l].todo = <<>>
  BY <1>1 DEF TypeOK, Begin, Idle
<1> QED BY <1>2, <1>3 DEF TypeOK, Begin, offline

LEMMA ChansOfType ==
  ASSUME TypeOK, NEW t \in Topics
  PROVE  /\ ChansOf(t) \in Seq(Chans)
         /\ ToSet(ChansOf(t)) = {s.chan : s \in ToSet(subscriptions[t])}
<1>1. subscriptions[t] \in Seq(Subscription) /\ DOMAIN subscriptions[t] = 1 .. Len(subscriptions[t])
      /\ Len(subscriptions[t]) \in Nat
  BY LenProperties DEF TypeOK
<1>2. \A i \in DOMAIN subscriptions[t] : subscriptions[t][i] \in [pid : Pids, chan : Chans]
  BY <1>1, ElementOfSeq DEF Subscription
<1>3. ChansOf(t) \in Seq(Chans)
  <2>1. \A i \in 1 .. Len(subscriptions[t]) : subscriptions[t][i].chan \in Chans
    BY <1>1, <1>2
  <2> QED BY <1>1, <2>1, IsASeq DEF ChansOf
<1>4. ToSet(ChansOf(t)) = {s.chan : s \in ToSet(subscriptions[t])}
  BY DEF ChansOf, ToSet
<1> QED BY <1>3, <1>4

LEMMA SendNextTyped ==
  ASSUME TypeOK, NEW k \in Tasks, SendNext(k)
  PROVE  TypeOK'
<1> DEFINE c == Head(sending[k].todo)
           rest == Tail(sending[k].todo)
<1>1. sending[k] \in [msg : Messages \cup {None}, todo : Seq(Chans)] /\ sending[k].todo # <<>>
      /\ sending[k].msg \in Messages
  BY DEF TypeOK, SendNext
<1>2. c \in Chans /\ rest \in Seq(Chans)
  BY <1>1, HeadTailProperties
<1>3. AfterSend(k) \in [msg : Messages \cup {None}, todo : Seq(Chans)]
      /\ (AfterSend(k).msg = None <=> AfterSend(k).todo = <<>>)
  BY <1>1, <1>2, EmptySeq, NoneAssumption DEF AfterSend, Idle
<1>4. Append(buffer[c], sending[k].msg) \in Seq(Messages)
      /\ Len(Append(buffer[c], sending[k].msg)) = Len(buffer[c]) + 1
      /\ Len(buffer[c]) \in Nat
  BY <1>1, <1>2, AppendProperties, LenProperties DEF TypeOK
<1> HIDE DEF c, rest
<1>5. \/ buffer' = buffer
      \/ Len(buffer[c]) < Capacity /\ buffer' = [buffer EXCEPT ![c] = Append(@, sending[k].msg)]
  BY DEF SendNext, c
<1>6. buffer' \in [Chans -> Seq(Messages)] /\ \A d \in Chans : Len(buffer'[d]) <= Capacity
  <2>1. CASE buffer' = buffer
    BY <2>1 DEF TypeOK
  <2>2. CASE Len(buffer[c]) < Capacity /\ buffer' = [buffer EXCEPT ![c] = Append(@, sending[k].msg)]
    <3>1. Len(Append(buffer[c], sending[k].msg)) <= Capacity
      BY <1>4, <2>2, CapacityAssumption
    <3> QED BY <1>2, <1>4, <2>2, <3>1 DEF TypeOK
  <2> QED BY <1>5, <2>1, <2>2
<1>7. sending' = [sending EXCEPT ![k] = AfterSend(k)]
      /\ UNCHANGED <<subscriptions, direct, receiver, queue, now>>
  BY DEF SendNext, offline
<1> QED BY <1>3, <1>6, <1>7 DEF TypeOK

LEMMA QueueForOfflineTyped ==
  ASSUME TypeOK, NEW p \in Pids, NEW t \in Topics \cup {None}, NEW m \in Messages,
         QueueForOffline(p, t, m)
  PROVE  TypeOK'
<1> DEFINE e == [topic |-> t, message |-> m, created |-> now]
<1>1. e \in Queued
  BY DEF Queued, TypeOK
<1>2. Append(queue[p], e) \in Seq(Queued) /\ Len(Append(queue[p], e)) = Len(queue[p]) + 1
      /\ Len(queue[p]) \in Nat
  BY <1>1, AppendProperties, LenProperties DEF TypeOK
<1>3. Len(queue[p]) < MaxQueue /\ queue' = [queue EXCEPT ![p] = Append(@, e)]
      /\ UNCHANGED <<channels, now>>
  BY DEF QueueForOffline
<1> HIDE DEF e
<1> QED BY <1>2, <1>3, QueueAssumption DEF TypeOK, channels

LEMMA DeliverQueuedTyped ==
  ASSUME TypeOK, NEW p \in Pids, DeliverQueued(p)
  PROVE  TypeOK'
BY EmptySeq, QueueAssumption DEF TypeOK, DeliverQueued, channels

LEMMA ExpireTyped ==
  ASSUME TypeOK, ExpireOldMessages(Retention)
  PROVE  TypeOK'
<1>1. \A p \in Pids : /\ Only(queue[p], Lasting(Retention)) \in Seq(Queued)
                     /\ Len(Only(queue[p], Lasting(Retention))) <= Len(queue[p])
                     /\ Len(queue[p]) \in Nat
  BY OnlyType, OnlyLength, LenProperties DEF TypeOK
<1>2. \A p \in Pids : Len(Only(queue[p], Lasting(Retention))) <= MaxQueue
  BY <1>1, OnlyType, LenProperties, QueueAssumption DEF TypeOK
<1> QED BY <1>1, <1>2 DEF TypeOK, ExpireOldMessages, channels

LEMMA TickTyped ==
  ASSUME TypeOK, Tick
  PROVE  TypeOK'
BY DEF TypeOK, Tick, channels

LEMMA StepTyped == TypeOK /\ [Step]_vars => TypeOK'
<1> SUFFICES ASSUME TypeOK, [Step]_vars PROVE TypeOK'
  OBVIOUS
<1>1. CASE UNCHANGED vars
  BY <1>1 DEF TypeOK, vars
<1>2. ASSUME NEW k \in Tasks, NEW m \in Messages, NEW t \in Topics, Publish(k, t, m)
      PROVE  TypeOK'
  BY <1>2, ChansOfType, BeginTyped DEF Publish
<1>3. ASSUME NEW k \in Tasks, NEW m \in Messages, NEW p \in Pids, SendDirect(k, p, m)
      PROVE  TypeOK'
  <2>1. direct[p] \in Chans
    BY <1>3 DEF TypeOK, SendDirect
  <2>2. <<direct[p]>> \in Seq(Chans)
    BY <2>1
  <2> QED BY <1>3, <2>2, BeginTyped DEF SendDirect
<1> QED BY <1>1, <1>2, <1>3, SubscribeTyped, UnsubscribeTyped, ReceiveTyped, DropTyped,
         SendNextTyped, QueueForOfflineTyped, DeliverQueuedTyped, ExpireTyped, TickTyped
    DEF Step

--------------------------------------------------------------------------------
(* Channels: what holds of the history between two steps *)

Flow(c) == received[c] \o buffer[c]

(* What has been addressed to a channel and is not on its way any more. *)
Arrived(c, k) == {m \in Messages : c \in owed[m] /\ ~InFlight(k, c, m)}

HistoryTyped ==
    /\ received \in [Chans -> Seq(Messages)]
    /\ log \in [Tasks -> Seq(Messages)]
    /\ owed \in [Messages -> SUBSET Chans]
    /\ queued \in [Pids -> Seq(Queued)]
    /\ delivered \in [Pids -> Seq(Messages)]

(* A channel is made for one subscription. *)
ChansOnce ==
    \A t \in Topics :
        /\ Distinct(subscriptions[t])
        /\ \A x, y \in ToSet(subscriptions[t]) : x.chan = y.chan => x = y
        /\ \A x \in ToSet(subscriptions[t]) : receiver[x.chan] # "unused"

(* A task is sending its latest message, to each channel once. *)
SendsLatest ==
    \A k \in Tasks :
        /\ Distinct(sending[k].todo)
        /\ sending[k].msg # None =>
              /\ log[k] # <<>> /\ log[k][Len(log[k])] = sending[k].msg
              /\ ToSet(sending[k].todo) \subseteq owed[sending[k].msg]

(* No message is sent twice, and only what was sent is in a channel. *)
SentOnce ==
    /\ \A k \in Tasks : Distinct(log[k])
    /\ \A k, l \in Tasks : k # l => ToSet(log[k]) \cap ToSet(log[l]) = {}
    /\ \A c \in Chans : ToSet(Flow(c)) \subseteq Used

StreamsAt(c, k) ==
    receiver[c] # "dropped" => Only(Flow(c), ToSet(log[k])) = Only(log[k], Arrived(c, k))

Streams == \A c \in Chans, k \in Tasks : StreamsAt(c, k)

ChannelInv ==
    TypeOK /\ HistoryTyped /\ ChansOnce /\ SendsLatest /\ SentOnce /\ Streams

LEMMA FlowType ==
  ASSUME TypeOK, HistoryTyped, NEW c \in Chans
  PROVE  Flow(c) \in Seq(Messages)
BY ConcatProperties DEF TypeOK, HistoryTyped, Flow

(* A step after which the same messages are in each channel, on their way and
   in the logs. *)
LEMMA SameStreams ==
  ASSUME ChannelInv, UNCHANGED <<sending, log, owed>>,
         \A c \in Chans : Flow(c)' = Flow(c) \/ receiver'[c] = "dropped",
         \A c \in Chans : ToSet(Flow(c))' \subseteq ToSet(Flow(c)),
         \A c \in Chans : receiver[c] = "dropped" => receiver'[c] = "dropped"
  PROVE  SendsLatest' /\ SentOnce' /\ Streams'
<1>1. SendsLatest' /\ Used' = Used
  BY DEF ChannelInv, SendsLatest, Used
<1>2. SentOnce'
  BY <1>1 DEF ChannelInv, SentOnce
<1>3. ASSUME NEW c \in Chans, NEW k \in Tasks, receiver'[c] # "dropped"
      PROVE  Only(Flow(c), ToSet(log[k]))' = Only(log[k], Arrived(c, k))'
  <2>1. Flow(c)' = Flow(c) /\ receiver[c] # "dropped"
    BY <1>3
  <2>2. Arrived(c, k)' = Arrived(c, k)
    BY DEF Arrived, InFlight
  <2>3. Only(Flow(c), ToSet(log[k])) = Only(log[k], Arrived(c, k))
    BY <2>1 DEF ChannelInv, Streams, StreamsAt
  <2> QED BY <2>1, <2>2, <2>3
<1>4. Streams'
  BY <1>3 DEF Streams, StreamsAt
<1> QED BY <1>1, <1>2, <1>4

LEMMA SubscribeStreams ==
  ASSUME ChannelInv, NEW p \in Pids, NEW t \in Topics, NEW c \in Chans, Subscribe(p, t, c),
         UNCHANGED history
  PROVE  ChannelInv'
<1> DEFINE s == [pid |-> p, chan |-> c]
<1>1. TypeOK' /\ HistoryTyped'
  BY SubscribeTyped DEF ChannelInv, HistoryTyped, history
<1>2. SendsLatest' /\ SentOnce' /\ Streams'
  <2>1. \A d \in Chans : Flow(d)' = Flow(d)
    BY DEF Flow, Subscribe, history
  <2>2. \A d \in Chans : receiver[d] = "dropped" => receiver'[d] = "dropped"
    BY DEF ChannelInv, TypeOK, Subscribe
  <2> QED BY <2>1, <2>2, SameStreams DEF Subscribe, history
<1>3. ASSUME NEW u \in Topics
      PROVE  /\ Distinct(subscriptions'[u])
             /\ \A x, y \in ToSet(subscriptions'[u]) : x.chan = y.chan => x = y
             /\ \A x \in ToSet(subscriptions'[u]) : receiver'[x.chan] # "unused"
  <2>1. /\ subscriptions[u] \in Seq(Subscription)
        /\ Distinct(subscriptions[u])
        /\ \A x, y \in ToSet(subscriptions[u]) : x.chan = y.chan => x = y
        /\ \A x \in ToSet(subscriptions[u]) : receiver[x.chan] # "unused"
    BY DEF ChannelInv, TypeOK, ChansOnce
  <2>2. \A x \in ToSet(subscriptions[u]) : x.chan \in Chans /\ x.chan # c
    BY <2>1, ToSetType DEF Subscribe, Subscription
  <2>3. \A d \in Chans : receiver[d] # "unused" => receiver'[d] # "unused"
    BY DEF ChannelInv, TypeOK, Subscribe
  <2>4. receiver'[c] # "unused"
    BY DEF ChannelInv, TypeOK, Subscribe
  <2>5. CASE u # t
    <3>1. subscriptions'[u] = subscriptions[u]
      BY <2>5 DEF ChannelInv, TypeOK, Subscribe
    <3> QED BY <2>1, <2>2, <2>3, <3>1
  <2>6. CASE u = t
    <3>1. subscriptions'[u] = Append(subscriptions[u], s) /\ s \in Subscription
      BY <2>6 DEF ChannelInv, TypeOK, Subscribe, Subscription
    <3>2. s \notin ToSet(subscriptions[u]) /\ s.chan = c
      BY <2>2
    <3>3. ToSet(subscriptions'[u]) = ToSet(subscriptions[u]) \cup {s}
          /\ Distinct(subscriptions'[u])
      BY <2>1, <3>1, <3>2, ToSetAppend, DistinctAppend
    <3> HIDE DEF s
    <3> QED BY <2>1, <2>2, <2>3, <2>4, <3>2, <3>3
  <2> QED BY <2>5, <2>6
<1>4. ChansOnce'
  BY <1>3 DEF ChansOnce
<1> QED BY <1>1, <1>2, <1>4 DEF ChannelInv

LEMMA UnsubscribeStreams ==
  ASSUME ChannelInv, NEW p \in Pids, NEW t \in Topics, Unsubscribe(p, t), UNCHANGED history
  PROVE  ChannelInv'
<1> DEFINE others == {s \in Subscription : s.pid # p}
<1>1. TypeOK' /\ HistoryTyped'
  BY UnsubscribeTyped DEF ChannelInv, HistoryTyped, history
<1>2. SendsLatest' /\ SentOnce' /\ Streams'
  <2>1. \A d \in Chans : Flow(d)' = Flow(d)
    BY DEF Flow, Unsubscribe, history
  <2> QED BY <2>1, SameStreams DEF Unsubscribe, history
<1>3. subscriptions' = [subscriptions EXCEPT ![t] = Only(@, others)] /\ receiver' = receiver
  BY DEF Unsubscribe
<1> HIDE DEF others
<1>4. ASSUME NEW u \in Topics
      PROVE  ToSet(subscriptions'[u]) \subseteq ToSet(subscriptions[u]) /\ Distinct(subscriptions'[u])
  <2>1. subscriptions[u] \in Seq(Subscription) /\ Distinct(subscriptions[u])
    BY DEF ChannelInv, TypeOK, ChansOnce
  <2>2. subscriptions'[u] = subscriptions[u] \/ subscriptions'[u] = Only(subscriptions[u], others)
    BY <1>3 DEF ChannelInv, TypeOK
  <2> QED BY <2>1, <2>2, OnlyRange, OnlyDistinct
<1>5. ChansOnce'
  BY <1>3, <1>4 DEF ChannelInv, ChansOnce
<1> QED BY <1>1, <1>2, <1>5 DEF ChannelInv

LEMMA TakeStreams ==
  ASSUME ChannelInv, NEW c \in Chans, Take(c)
  PROVE  ChannelInv'
<1>1. /\ buffer[c] \in Seq(Messages) /\ buffer[c] # <<>> /\ received[c] \in Seq(Messages)
      /\ Head(buffer[c]) \in Messages
  BY HeadTailProperties DEF ChannelInv, TypeOK, HistoryTyped, Take, Receive
<1>2. Append(received[c], Head(buffer[c])) \in Seq(Messages)
  BY <1>1, AppendProperties
<1>3. TypeOK'
  BY ReceiveTyped DEF ChannelInv, Take
<1>4. HistoryTyped'
  BY <1>2 DEF ChannelInv, HistoryTyped, Take
<1>5. ASSUME NEW d \in Chans PROVE Flow(d)' = Flow(d)
  <2>1. CASE d = c
    <3>1. received'[c] = Append(received[c], Head(buffer[c])) /\ buffer'[c] = Tail(buffer[c])
      BY DEF Take, Receive, ChannelInv, TypeOK, HistoryTyped
    <3> QED BY <1>1, <2>1, <3>1, MoveHead DEF Flow
  <2>2. CASE d # c
    BY <2>2 DEF Flow, Take, Receive, ChannelInv, TypeOK, HistoryTyped
  <2> QED BY <2>1, <2>2
<1>6. SendsLatest' /\ SentOnce' /\ Streams'
  BY <1>5, SameStreams DEF Take, Receive
<1>7. ChansOnce'
  BY DEF ChannelInv, ChansOnce, Take, Receive
<1> QED BY <1>3, <1>4, <1>6, <1>7 DEF ChannelInv

LEMMA DropStreams ==
  ASSUME ChannelInv, NEW c \in Chans, Drop(c), UNCHANGED history
  PROVE  ChannelInv'
<1>1. TypeOK' /\ HistoryTyped'
  BY DropTyped DEF ChannelInv, HistoryTyped, history
<1>2. \A d \in Chans : d # c => Flow(d)' = Flow(d)
  BY DEF Flow, Drop, history, ChannelInv, TypeOK
<1>3. receiver' = [receiver EXCEPT ![c] = "dropped"] /\ receiver \in [Chans -> {"unused", "open", "dropped"}]
  BY DEF Drop, ChannelInv, TypeOK
<1>4. ToSet(Flow(c))' \subseteq ToSet(Flow(c))
  <2>1. received[c] \in Seq(Messages) /\ buffer[c] \in Seq(Messages) /\ <<>> \in Seq(Messages)
    BY EmptySeq DEF ChannelInv, TypeOK, HistoryTyped
  <2>2. Flow(c)' = received[c] \o <<>>
    BY DEF Flow, Drop, history, ChannelInv, TypeOK
  <2> QED BY <2>1, <2>2, ToSetConcat, ToSetEmpty DEF Flow
<1>5. SendsLatest' /\ SentOnce' /\ Streams'
  <2>1. \A d \in Chans : ToSet(Flow(d))' \subseteq ToSet(Flow(d))
    BY <1>2, <1>4
  <2>2. \A d \in Chans : Flow(d)' = Flow(d) \/ receiver'[d] = "dropped"
    BY <1>2, <1>3
  <2>3. \A d \in Chans : receiver[d] = "dropped" => receiver'[d] = "dropped"
    BY <1>3
  <2> QED BY <2>1, <2>2, <2>3, SameStreams DEF Drop, history
<1>6. \A d \in Chans : receiver[d] # "unused" => receiver'[d] # "unused"
  BY <1>3
<1>7. ASSUME NEW t \in Topics PROVE \A x \in ToSet(subscriptions[t]) : x.chan \in Chans
  <2>1. subscriptions[t] \in Seq(Subscription)
    BY DEF ChannelInv, TypeOK
  <2>2. ToSet(subscriptions[t]) \subseteq Subscription
    BY <2>1, ToSetType
  <2> QED BY <2>2 DEF Subscription
<1>8. ChansOnce'
  BY <1>6, <1>7 DEF ChannelInv, ChansOnce, Drop
<1> QED BY <1>1, <1>5, <1>8 DEF ChannelInv

(* A step that touches no channel. *)
LEMMA ElsewhereStreams ==
  ASSUME ChannelInv, TypeOK', HistoryTyped', UNCHANGED <<channels, received, log, owed>>
  PROVE  ChannelInv'
<1>1. \A c \in Chans : Flow(c)' = Flow(c)
  BY DEF Flow, channels
<1>2. SendsLatest' /\ SentOnce' /\ Streams'
  BY <1>1, SameStreams DEF channels
<1> QED BY <1>2 DEF ChannelInv, ChansOnce, channels

LEMMA UsedApart ==
  ASSUME NEW m \in Fresh
  PROVE  /\ m \in Messages /\ m \notin Used /\ \A k \in Tasks : m \notin ToSet(log[k])
         /\ \A p \in Pids : m \notin ToSet(Payloads(queued[p]))
BY DEF Fresh, Used

(* A send begins: the message is owed to its targets, and still on its way to
   all of them. *)
LEMMA BeginStreams ==
  ASSUME ChannelInv, NEW k \in Tasks, NEW m \in Fresh,
         NEW targets \in Seq(Chans), Distinct(targets),
         Begin(k, m, targets), Sent(k, m, targets)
  PROVE  ChannelInv'
<1>1. /\ m \in Messages /\ m # None /\ m \notin Used
      /\ \A l \in Tasks : m \notin ToSet(log[l])
  BY UsedApart, NoneAssumption
<1>2. /\ log \in [Tasks -> Seq(Messages)] /\ owed \in [Messages -> SUBSET Chans]
      /\ sending \in [Tasks -> [msg : Messages \cup {None}, todo : Seq(Chans)]]
  BY DEF ChannelInv, TypeOK, HistoryTyped
<1>3. /\ log' = [log EXCEPT ![k] = Append(@, m)] /\ owed' = [owed EXCEPT ![m] = ToSet(targets)]
      /\ sending[k] = Idle
      /\ sending' = [sending EXCEPT ![k] = IF targets = <<>> THEN Idle
                                           ELSE [msg |-> m, todo |-> targets]]
      /\ UNCHANGED <<subscriptions, direct, buffer, receiver, queue, now, received, queued, delivered>>
  BY DEF Begin, Sent, offline
<1>4. /\ log'[k] = Append(log[k], m) /\ log[k] \in Seq(Messages) /\ log'[k] \in Seq(Messages)
      /\ log'[k] # <<>> /\ Len(log'[k]) = Len(log[k]) + 1 /\ log'[k][Len(log'[k])] = m
      /\ ToSet(log'[k]) = ToSet(log[k]) \cup {m}
      /\ \A l \in Tasks : l # k => log'[l] = log[l] /\ sending'[l] = sending[l]
  BY <1>1, <1>2, <1>3, AppendProperties, ToSetAppend
<1>5. TypeOK'
  BY <1>1, BeginTyped DEF ChannelInv
<1>6. HistoryTyped'
  <2>1. ToSet(targets) \in SUBSET Chans
    BY ToSetType
  <2> QED BY <1>2, <1>3, <1>4, <2>1 DEF ChannelInv, HistoryTyped
<1>7. ChansOnce'
  BY <1>3 DEF ChannelInv, ChansOnce
<1>8. sending'[k] = Idle \/ (sending'[k] = [msg |-> m, todo |-> targets] /\ targets # <<>>)
  BY <1>2, <1>3
<1>9. SendsLatest'
  <2>1. Distinct(<<>>)
    BY DEF Distinct
  <2>2. \A l \in Tasks : l # k =>
          /\ Distinct(sending'[l].todo)
          /\ sending'[l].msg # None =>
                /\ log'[l] # <<>> /\ log'[l][Len(log'[l])] = sending'[l].msg
                /\ ToSet(sending'[l].todo) \subseteq owed'[sending'[l].msg]
    <3> SUFFICES ASSUME NEW l \in Tasks, l # k
                 PROVE  /\ Distinct(sending[l].todo)
                        /\ sending[l].msg # None =>
                              /\ log[l] # <<>> /\ log[l][Len(log[l])] = sending[l].msg
                              /\ ToSet(sending[l].todo) \subseteq owed'[sending[l].msg]
      BY <1>4
    <3>1. ASSUME sending[l].msg # None
          PROVE  sending[l].msg # m /\ sending[l].msg \in Messages
      <4>1. log[l] # <<>> /\ log[l][Len(log[l])] = sending[l].msg /\ log[l] \in Seq(Messages)
        BY <1>2, <3>1 DEF ChannelInv, SendsLatest
      <4>2. Len(log[l]) \in DOMAIN log[l]
        BY <4>1, EmptySeq, LenProperties
      <4>3. sending[l].msg \in ToSet(log[l])
        BY <4>1, <4>2, InToSet
      <4> QED BY <1>1, <4>1, <4>3, ToSetType
    <3> QED BY <1>2, <1>3, <3>1 DEF ChannelInv, SendsLatest
  <2>3. Distinct(sending'[k].todo)
    BY <1>8, <2>1 DEF Idle
  <2>4. sending'[k].msg # None =>
          sending'[k].msg = m /\ ToSet(sending'[k].todo) \subseteq owed'[m]
    BY <1>1, <1>2, <1>3, <1>8 DEF Idle
  <2> QED BY <1>4, <2>2, <2>3, <2>4 DEF SendsLatest
<1>10. Used' = Used \cup {m}
  BY <1>4 DEF Used
<1>11. \A c \in Chans : Flow(c)' = Flow(c) /\ Flow(c) \in Seq(Messages) /\ ToSet(Flow(c)) \subseteq Used
  BY <1>3, FlowType DEF Flow, ChannelInv, SentOnce
<1>12. SentOnce'
  <2>1. Distinct(log'[k])
    BY <1>1, <1>4, DistinctAppend DEF ChannelInv, SentOnce
  <2>2. \A l, n \in Tasks : l # n => ToSet(log'[l]) \cap ToSet(log'[n]) = {}
    <3>1. ASSUME NEW l \in Tasks, l # k
          PROVE  ToSet(log'[l]) = ToSet(log[l]) /\ ToSet(log[l]) \cap ToSet(log'[k]) = {}
      BY <1>1, <1>4, <3>1 DEF ChannelInv, SentOnce
    <3> SUFFICES ASSUME NEW l \in Tasks, NEW n \in Tasks, l # n
                 PROVE  ToSet(log'[l]) \cap ToSet(log'[n]) = {}
      OBVIOUS
    <3>2. CASE l = k
      BY <3>1, <3>2
    <3>3. CASE n = k
      BY <3>1, <3>3
    <3>4. CASE l # k /\ n # k
      BY <3>1, <3>4 DEF ChannelInv, SentOnce
    <3> QED BY <3>2, <3>3, <3>4
  <2>3. \A l \in Tasks : Distinct(log'[l])
    BY <1>4, <2>1 DEF ChannelInv, SentOnce
  <2> QED BY <1>10, <1>11, <2>2, <2>3 DEF SentOnce
<1>13. ASSUME NEW c \in Chans, NEW l \in Tasks, receiver'[c] # "dropped"
       PROVE  Only(Flow(c), ToSet(log[l]))' = Only(log[l], Arrived(c, l))'
  <2>1. Only(Flow(c), ToSet(log[l])) = Only(log[l], Arrived(c, l))
    BY <1>3, <1>13 DEF ChannelInv, Streams, StreamsAt
  <2>2. \A x \in Messages : x # m => owed'[x] = owed[x]
    BY <1>2, <1>3
  <2>3. ASSUME NEW x \in ToSet(log[l])
        PROVE  x \in Arrived(c, l) <=> x \in Arrived(c, l)'
    <3>1. x \in Messages /\ x # m /\ x # None
      BY <1>1, <1>2, ToSetType, NoneAssumption
    <3>2. InFlight(l, c, x)' = InFlight(l, c, x)
      <4>1. CASE l = k
        BY <1>3, <1>8, <3>1, <4>1 DEF InFlight, Idle
      <4>2. CASE l # k
        BY <1>4, <4>2 DEF InFlight
      <4> QED BY <4>1, <4>2
    <3> QED BY <2>2, <3>1, <3>2 DEF Arrived
  <2>4. Only(log[l], Arrived(c, l)) = Only(log[l], Arrived(c, l)')
    BY <1>2, <2>3, OnlySame
  <2>5. CASE l # k
    BY <1>4, <1>11, <2>1, <2>4, <2>5
  <2>6. CASE l = k
    <3>1. m \notin ToSet(Flow(c))
      BY <1>1, <1>11
    <3>2. Only(Flow(c), ToSet(log[k])') = Only(Flow(c), ToSet(log[k]))
      BY <1>4, <1>11, <3>1, OnlySame
    <3>3. m \notin Arrived(c, k)'
      <4>1. owed'[m] = ToSet(targets)
        BY <1>1, <1>2, <1>3
      <4>2. CASE targets = <<>>
        BY <4>1, <4>2, ToSetEmpty DEF Arrived
      <4>3. CASE targets # <<>>
        BY <1>2, <1>3, <4>1, <4>3 DEF Arrived, InFlight
      <4> QED BY <4>2, <4>3
    <3>4. Only(Append(log[k], m), Arrived(c, k)') = Only(log[k], Arrived(c, k)')
      BY <1>1, <1>4, <3>3, OnlyAppend
    <3> QED BY <1>4, <1>11, <2>1, <2>4, <2>6, <3>2, <3>4
  <2> QED BY <2>5, <2>6
<1>14. Streams'
  BY <1>13 DEF Streams, StreamsAt
<1> QED BY <1>5, <1>6, <1>7, <1>9, <1>12, <1>14 DEF ChannelInv

LEMMA SendStreams ==
  ASSUME ChannelInv, NEW k \in Tasks, NEW m \in Fresh, Send(k, m)
  PROVE  ChannelInv'
<1>1. ASSUME NEW t \in Topics, Publish(k, t, m), Sent(k, m, ChansOf(t)) PROVE ChannelInv'
  <2>1. ChansOf(t) \in Seq(Chans)
    BY ChansOfType DEF ChannelInv
  <2>2. Distinct(ChansOf(t))
    <3>1. \A i \in DOMAIN subscriptions[t] : subscriptions[t][i] \in ToSet(subscriptions[t])
      BY InToSet
    <3> QED BY <3>1 DEF Distinct, ChansOf, ChannelInv, ChansOnce
  <2> QED BY <1>1, <2>1, <2>2, BeginStreams DEF Publish
<1>2. ASSUME NEW p \in Pids, SendDirect(k, p, m), Sent(k, m, <<direct[p]>>) PROVE ChannelInv'
  <2>1. direct[p] \in Chans
    BY <1>2 DEF ChannelInv, TypeOK, SendDirect
  <2>2. <<direct[p]>> \in Seq(Chans) /\ Distinct(<<direct[p]>>)
    BY <2>1 DEF Distinct
  <2> QED BY <1>2, <2>2, BeginStreams DEF SendDirect
<1> QED BY <1>1, <1>2 DEF Send

(* The message in flight arrives at the next of its channels. *)
LEMMA SendNextStreams ==
  ASSUME ChannelInv, NEW k \in Tasks, SendNext(k), UNCHANGED history
  PROVE  ChannelInv'
<1> DEFINE d == Head(sending[k].todo)
           rest == Tail(sending[k].todo)
           m == sending[k].msg
<1>1. /\ sending \in [Tasks -> [msg : Messages \cup {None}, todo : Seq(Chans)]]
      /\ sending[k].todo # <<>> /\ m \in Messages /\ m # None /\ sending[k].todo \in Seq(Chans)
      /\ log \in [Tasks -> Seq(Messages)] /\ buffer \in [Chans -> Seq(Messages)]
      /\ received \in [Chans -> Seq(Messages)]
      /\ receiver \in [Chans -> {"unused", "open", "dropped"}]
  BY NoneAssumption DEF ChannelInv, TypeOK, HistoryTyped, SendNext
<1>2. /\ d \in Chans /\ rest \in Seq(Chans) /\ d \notin ToSet(rest) /\ Distinct(rest)
      /\ ToSet(sending[k].todo) = {d} \cup ToSet(rest)
  BY <1>1, HeadTailProperties, DistinctTail, ToSetTail DEF ChannelInv, SendsLatest
<1>3. /\ sending' = [sending EXCEPT ![k] = AfterSend(k)]
      /\ UNCHANGED <<subscriptions, direct, receiver, received, log, owed, queued, delivered>>
      /\ \/ receiver[d] = "dropped" /\ buffer' = buffer
         \/ receiver[d] = "open" /\ buffer' = [buffer EXCEPT ![d] = Append(@, m)]
  BY DEF SendNext, history
<1>4. /\ rest = <<>> => sending'[k] = Idle
      /\ rest # <<>> => sending'[k] = [msg |-> m, todo |-> rest]
      /\ \A l \in Tasks : l # k => sending'[l] = sending[l]
  BY <1>1, <1>3 DEF AfterSend
<1>5. TypeOK' /\ HistoryTyped' /\ ChansOnce'
  BY <1>3, SendNextTyped DEF ChannelInv, HistoryTyped, ChansOnce
<1> HIDE DEF d, rest, m
<1>6. SendsLatest'
  <2>1. Distinct(<<>>)
    BY DEF Distinct
  <2>2. Distinct(sending'[k].todo) /\ (sending'[k].msg = None \/ sending'[k].msg = m)
    BY <1>2, <1>4, <2>1 DEF Idle
  <2>3. log[k] # <<>> /\ log[k][Len(log[k])] = m /\ ToSet(rest) \subseteq owed[m]
    BY <1>1, <1>2 DEF ChannelInv, SendsLatest, m
  <2>4. sending'[k].msg # None => ToSet(sending'[k].todo) = ToSet(rest)
    BY <1>4 DEF Idle
  <2> QED BY <1>3, <1>4, <2>2, <2>3, <2>4 DEF ChannelInv, SendsLatest
<1>7. m \in ToSet(log[k])
  <2>1. log[k] # <<>> /\ log[k][Len(log[k])] = m /\ log[k] \in Seq(Messages)
    BY <1>1 DEF ChannelInv, SendsLatest, m
  <2>2. Len(log[k]) \in DOMAIN log[k]
    BY <2>1, EmptySeq, LenProperties
  <2> QED BY <2>1, <2>2, InToSet
<1>8. ASSUME NEW c \in Chans
      PROVE  /\ Flow(c) \in Seq(Messages)
             /\ Flow(c)' = Flow(c) \/ (c = d /\ receiver[d] = "open" /\ Flow(c)' = Append(Flow(c), m))
             /\ c # d \/ receiver[d] = "dropped" => Flow(c)' = Flow(c)
             /\ c = d /\ receiver[d] = "open" => Flow(c)' = Append(Flow(c), m)
  <2>1. Flow(c) \in Seq(Messages)
    BY FlowType DEF ChannelInv
  <2>2. CASE buffer'[c] = buffer[c] /\ (c # d \/ receiver[d] = "dropped")
    BY <1>3, <2>1, <2>2 DEF Flow
  <2>3. CASE c = d /\ receiver[d] = "open" /\ buffer'[c] = Append(buffer[c], m)
    <3>1. received[c] \o Append(buffer[c], m) = Append(received[c] \o buffer[c], m)
      BY <1>1, ConcatAppend
    <3> QED BY <1>3, <2>1, <2>3, <3>1 DEF Flow
  <2> QED BY <1>1, <1>2, <1>3, <2>2, <2>3
<1>9. SentOnce'
  <2>1. Used' = Used
    BY <1>3 DEF Used
  <2>2. m \in Used
    BY <1>7 DEF Used
  <2>3. ASSUME NEW c \in Chans PROVE ToSet(Flow(c)') \subseteq Used
    <3>1. ToSet(Flow(c)) \subseteq Used
      BY DEF ChannelInv, SentOnce
    <3>2. ToSet(Append(Flow(c), m)) = ToSet(Flow(c)) \cup {m}
      BY <1>1, <1>8, ToSetAppend
    <3>3. Flow(c)' = Flow(c) \/ Flow(c)' = Append(Flow(c), m)
      BY <1>8
    <3> QED BY <2>2, <3>1, <3>2, <3>3
  <2> QED BY <1>3, <2>1, <2>3 DEF ChannelInv, SentOnce
<1>10. \A c \in Chans, l \in Tasks, x \in Messages : l # k => InFlight(l, c, x)' = InFlight(l, c, x)
  BY <1>4 DEF InFlight
<1>11. \A c \in Chans, x \in Messages : InFlight(k, c, x) <=> x = m /\ (c = d \/ c \in ToSet(rest))
  BY <1>2 DEF InFlight, m
<1>12. \A c \in Chans, x \in Messages : InFlight(k, c, x)' <=> x = m /\ c \in ToSet(rest)
  BY <1>4, NoneAssumption, ToSetEmpty DEF InFlight, Idle
<1>13. ASSUME NEW c \in Chans, NEW l \in Tasks, receiver'[c] # "dropped"
       PROVE  Only(Flow(c)', ToSet(log[l])) = Only(log[l], Arrived(c, l)')
  <2>1. Only(Flow(c), ToSet(log[l])) = Only(log[l], Arrived(c, l))
    BY <1>3, <1>13 DEF ChannelInv, Streams, StreamsAt
  <2>2. CASE l # k
    <3>1. Arrived(c, l)' = Arrived(c, l)
      BY <1>3, <1>10, <2>2 DEF Arrived
    <3>2. m \notin ToSet(log[l])
      BY <1>7, <2>2 DEF ChannelInv, SentOnce
    <3>3. Only(Append(Flow(c), m), ToSet(log[l])) = Only(Flow(c), ToSet(log[l]))
      BY <1>1, <1>8, <3>2, OnlyAppend
    <3> QED BY <1>8, <2>1, <3>1, <3>3
  <2>3. CASE l = k /\ c # d
    <3>1. Arrived(c, l)' = Arrived(c, l)
      BY <1>3, <1>11, <1>12, <2>3 DEF Arrived
    <3> QED BY <1>8, <2>1, <2>3, <3>1
  <2>4. CASE l = k /\ c = d
    <3>1. receiver[d] = "open"
      BY <1>3, <1>13, <2>4
    <3>2. Flow(c)' = Append(Flow(c), m)
      BY <1>8, <2>4, <3>1
    <3>3. Only(Flow(c)', ToSet(log[k])) = Append(Only(Flow(c), ToSet(log[k])), m)
      BY <1>1, <1>7, <1>8, <3>2, OnlyAppend
    <3>4. PICK front \in Seq(Messages) : log[k] = Append(front, m) /\ m \notin ToSet(front)
      <4>1. log[k] # <<>> /\ log[k][Len(log[k])] = m /\ log[k] \in Seq(Messages) /\ Distinct(log[k])
        BY <1>1 DEF ChannelInv, SendsLatest, SentOnce, m
      <4> QED BY <4>1, DistinctLast
    <3>5. m \notin Arrived(c, k) /\ m \in Arrived(c, k)'
      <4>1. c \in owed[m]
        BY <1>1, <1>2, <2>4 DEF ChannelInv, SendsLatest, m
      <4> QED BY <1>1, <1>2, <1>3, <1>11, <1>12, <2>4, <4>1 DEF Arrived
    <3>6. \A x \in ToSet(front) : x \in Arrived(c, k) <=> x \in Arrived(c, k)'
      BY <1>3, <1>11, <1>12, <3>4 DEF Arrived
    <3>7. Only(front, Arrived(c, k)) = Only(front, Arrived(c, k)')
      BY <3>6, OnlySame
    <3>8. Only(log[k], Arrived(c, k)) = Only(front, Arrived(c, k))
      BY <1>1, <3>4, <3>5, OnlyAppend
    <3>9. Only(log[k], Arrived(c, k)') = Append(Only(front, Arrived(c, k)'), m)
      BY <1>1, <3>4, <3>5, OnlyAppend
    <3> QED BY <2>1, <2>4, <3>3, <3>7, <3>8, <3>9
  <2> QED BY <2>2, <2>3, <2>4
<1>14. Streams'
  BY <1>3, <1>13 DEF Streams, StreamsAt
<1> QED BY <1>5, <1>6, <1>9, <1>14 DEF ChannelInv

--------------------------------------------------------------------------------
(* Queues *)

LEMMA PayloadsType ==
  ASSUME NEW s \in Seq(Queued)
  PROVE  /\ Payloads(s) \in Seq(Messages) /\ Len(Payloads(s)) = Len(s)
         /\ DOMAIN Payloads(s) = DOMAIN s
         /\ \A i \in DOMAIN s : Payloads(s)[i] = s[i].message
         /\ ToSet(Payloads(s)) = {q.message : q \in ToSet(s)}
<1>1. Len(s) \in Nat /\ DOMAIN s = 1 .. Len(s)
  BY LenProperties
<1>2. \A i \in 1 .. Len(s) : s[i] \in [topic : Topics \cup {None}, message : Messages, created : Nat]
  BY ElementOfSeq DEF Queued
<1>3. \A i \in 1 .. Len(s) : s[i].message \in Messages
  BY <1>2
<1>4. Payloads(s) \in Seq(Messages)
  BY <1>1, <1>3, IsASeq DEF Payloads
<1>5. ToSet(Payloads(s)) = {q.message : q \in ToSet(s)}
  BY DEF Payloads, ToSet
<1>6. DOMAIN Payloads(s) = 1 .. Len(s) /\ \A i \in DOMAIN s : Payloads(s)[i] = s[i].message
  BY <1>1 DEF Payloads
<1> QED BY <1>1, <1>4, <1>5, <1>6, LenProperties

LEMMA PayloadsConcat ==
  ASSUME NEW s \in Seq(Queued), NEW t \in Seq(Queued)
  PROVE  Payloads(s \o t) = Payloads(s) \o Payloads(t)
<1>1. s \o t \in Seq(Queued) /\ Len(s \o t) = Len(s) + Len(t) /\ Len(s) \in Nat /\ Len(t) \in Nat
      /\ DOMAIN s = 1 .. Len(s) /\ DOMAIN t = 1 .. Len(t) /\ DOMAIN (s \o t) = 1 .. Len(s) + Len(t)
  BY ConcatProperties, LenProperties
<1>2. /\ Payloads(s \o t) \in Seq(Messages)
      /\ Payloads(s) \o Payloads(t) \in Seq(Messages)
      /\ Len(Payloads(s \o t)) = Len(s) + Len(t)
      /\ Len(Payloads(s) \o Payloads(t)) = Len(s) + Len(t)
  <2>1. /\ Payloads(s \o t) \in Seq(Messages) /\ Len(Payloads(s \o t)) = Len(s \o t)
        /\ Payloads(s) \in Seq(Messages) /\ Len(Payloads(s)) = Len(s)
        /\ Payloads(t) \in Seq(Messages) /\ Len(Payloads(t)) = Len(t)
    BY <1>1, PayloadsType
  <2>2. /\ Payloads(s) \o Payloads(t) \in Seq(Messages)
        /\ Len(Payloads(s) \o Payloads(t)) = Len(Payloads(s)) + Len(Payloads(t))
    BY <2>1, ConcatProperties
  <2>3. Len(Payloads(s \o t)) = Len(s) + Len(t)
    BY <1>1, <2>1
  <2> QED BY <2>1, <2>2, <2>3
<1>3. ASSUME NEW i \in 1 .. Len(s) + Len(t)
      PROVE  Payloads(s \o t)[i] = (Payloads(s) \o Payloads(t))[i]
  <2>1. Payloads(s \o t)[i] = (s \o t)[i].message
    BY <1>1, PayloadsType
  <2>2. (Payloads(s) \o Payloads(t))[i]
          = IF i <= Len(s) THEN Payloads(s)[i] ELSE Payloads(t)[i - Len(s)]
    BY PayloadsType, ConcatProperties
  <2>3. (s \o t)[i] = IF i <= Len(s) THEN s[i] ELSE t[i - Len(s)]
    BY ConcatProperties
  <2>4. CASE i <= Len(s)
    <3>1. i \in DOMAIN s
      BY <1>1, <2>4
    <3> QED BY <2>1, <2>2, <2>3, <2>4, <3>1, PayloadsType
  <2>5. CASE ~ (i <= Len(s))
    <3>1. i - Len(s) \in DOMAIN t
      BY <1>1, <2>5
    <3> QED BY <2>1, <2>2, <2>3, <2>5, <3>1, PayloadsType
  <2> QED BY <2>4, <2>5
<1> QED BY <1>2, <1>3, SeqEqual

(* The entries whose message is in a set. *)
Carrying(M) == {q \in Queued : q.message \in M}

(* What has been delivered to an agent, as entries. *)
Handed(p) == Only(queued[p], Carrying(ToSet(delivered[p])))

InQueue(p) == ToSet(delivered[p]) \cup ToSet(Payloads(queue[p]))

(* No message is accepted twice. *)
QueuedOnce ==
    \A p \in Pids :
        /\ Distinct(queued[p])
        /\ \A x, y \in ToSet(queued[p]) : x.message = y.message => x = y

(* Entries are handed out, in the queue, or gone for good. *)
QueueAt(p) ==
    /\ delivered[p] = Payloads(Handed(p))
    /\ Handed(p) \o queue[p] = Only(queued[p], Carrying(InQueue(p)))
    /\ \A q \in ToSet(queued[p]) : q.message \in InQueue(p) \/ ~Live(q, Retention)

QueueInv == TypeOK /\ HistoryTyped /\ QueuedOnce /\ \A p \in Pids : QueueAt(p)

LEMMA HandedType ==
  ASSUME QueueInv, NEW p \in Pids
  PROVE  /\ queued[p] \in Seq(Queued) /\ queue[p] \in Seq(Queued) /\ delivered[p] \in Seq(Messages)
         /\ Handed(p) \in Seq(Queued)
         /\ ToSet(delivered[p]) = {q.message : q \in ToSet(Handed(p))}
         /\ ToSet(Handed(p)) \subseteq ToSet(queued[p])
         /\ ToSet(queue[p]) \subseteq ToSet(queued[p])
         /\ ToSet(Handed(p)) \cap ToSet(queue[p]) = {}
         /\ ToSet(queued[p]) \subseteq Queued
<1>1. queued[p] \in Seq(Queued) /\ queue[p] \in Seq(Queued) /\ delivered[p] \in Seq(Messages)
  BY DEF QueueInv, TypeOK, HistoryTyped
<1>2. Handed(p) \in Seq(Queued) /\ ToSet(Handed(p)) \subseteq ToSet(queued[p])
  BY <1>1, OnlyType, OnlyRange DEF Handed
<1>3. delivered[p] = Payloads(Handed(p)) /\ Handed(p) \o queue[p] = Only(queued[p], Carrying(InQueue(p)))
  BY DEF QueueInv, QueueAt
<1>4. ToSet(delivered[p]) = {q.message : q \in ToSet(Handed(p))}
  BY <1>2, <1>3, PayloadsType
<1>5. ToSet(Handed(p) \o queue[p]) \subseteq ToSet(queued[p]) /\ Distinct(Handed(p) \o queue[p])
  BY <1>1, <1>3, OnlyRange, OnlyDistinct DEF QueueInv, QueuedOnce
<1>6. ToSet(Handed(p) \o queue[p]) = ToSet(Handed(p)) \cup ToSet(queue[p])
      /\ ToSet(Handed(p)) \cap ToSet(queue[p]) = {}
  BY <1>1, <1>2, <1>5, ToSetConcat, DistinctConcat
<1> QED BY <1>1, <1>2, <1>4, <1>5, <1>6, ToSetType

(* What stays when the expired entries of a queue are left out. *)
LEMMA LastingRest ==
  ASSUME QueueInv, NEW p \in Pids
  PROVE  LET left == Only(queue[p], Lasting(Retention))
             flow == ToSet(delivered[p]) \cup ToSet(Payloads(left))
         IN  /\ left \in Seq(Queued)
             /\ Handed(p) \o left = Only(queued[p], Carrying(flow))
             /\ \A q \in ToSet(queued[p]) : q.message \in flow \/ ~Live(q, Retention)
<1> DEFINE L == Lasting(Retention)
           left == Only(queue[p], L)
           flow == ToSet(delivered[p]) \cup ToSet(Payloads(left))
<1>1. /\ queued[p] \in Seq(Queued) /\ queue[p] \in Seq(Queued)
      /\ Handed(p) \in Seq(Queued)
      /\ ToSet(delivered[p]) = {q.message : q \in ToSet(Handed(p))}
      /\ ToSet(Handed(p)) \subseteq ToSet(queued[p])
      /\ ToSet(queue[p]) \subseteq ToSet(queued[p])
      /\ ToSet(Handed(p)) \cap ToSet(queue[p]) = {}
      /\ ToSet(queued[p]) \subseteq Queued
  BY HandedType
<1>2. left \in Seq(Queued) /\ ToSet(left) = ToSet(queue[p]) \cap L
      /\ ToSet(Payloads(left)) = {q.message : q \in ToSet(left)}
      /\ ToSet(Payloads(queue[p])) = {q.message : q \in ToSet(queue[p])}
  BY <1>1, OnlyType, OnlyRange, PayloadsType
<1> HIDE DEF L, left
<1>3. flow \subseteq InQueue(p)
  BY <1>2 DEF InQueue
<1>4. \A x, y \in ToSet(queued[p]) : x.message = y.message => x = y
  BY DEF QueueInv, QueuedOnce
<1>5. \A x \in ToSet(Handed(p)) : x \in Carrying(flow)
  BY <1>1 DEF Carrying
<1>6. \A x \in ToSet(queue[p]) : x \in Carrying(flow) <=> x \in L
  <2> TAKE x \in ToSet(queue[p])
  <2>1. ASSUME x \in L PROVE x \in Carrying(flow)
    BY <1>1, <1>2, <2>1 DEF Carrying
  <2>2. ASSUME x \in Carrying(flow) PROVE x \in L
    <3>1. PICK y \in ToSet(Handed(p)) \cup ToSet(left) : x.message = y.message
      BY <1>1, <1>2, <2>2 DEF Carrying
    <3>2. y = x
      BY <1>1, <1>2, <1>4, <3>1
    <3> QED BY <1>1, <1>2, <3>1, <3>2
  <2> QED BY <2>1, <2>2
<1>7. Only(Handed(p), Carrying(flow)) = Handed(p)
  BY <1>1, <1>5, OnlyAll
<1>8. Only(queue[p], Carrying(flow)) = left
  BY <1>1, <1>6, OnlySame DEF left
<1>9. Only(Handed(p) \o queue[p], Carrying(flow))
        = Only(Handed(p), Carrying(flow)) \o Only(queue[p], Carrying(flow))
  <2>1. queue[p] \in Seq(Queued) /\ Handed(p) \in Seq(Queued)
    BY <1>1
  <2>2. \A S : Only(Handed(p) \o queue[p], S) = Only(Handed(p), S) \o Only(queue[p], S)
    BY <2>1, OnlyConcat
  <2> QED BY <2>2
<1>9a. Only(Handed(p) \o queue[p], Carrying(flow)) = Handed(p) \o left
  BY <1>7, <1>8, <1>9
<1>10. Carrying(InQueue(p)) \cap Carrying(flow) = Carrying(flow)
  BY <1>3 DEF Carrying
<1>11. Only(Only(queued[p], Carrying(InQueue(p))), Carrying(flow)) = Only(queued[p], Carrying(flow))
  BY <1>1, <1>10, OnlyTwice
<1>12. Handed(p) \o left = Only(queued[p], Carrying(flow))
  BY <1>9a, <1>11 DEF QueueInv, QueueAt
<1>13. ASSUME NEW q \in ToSet(queued[p]), q.message \notin flow PROVE ~Live(q, Retention)
  <2>1. CASE q.message \notin InQueue(p)
    BY <2>1 DEF QueueInv, QueueAt
  <2>2. CASE q.message \in InQueue(p)
    <3>1. PICK x \in ToSet(queue[p]) : x.message = q.message
      BY <1>2, <1>13, <2>2 DEF InQueue
    <3>2. x = q
      BY <1>1, <1>4, <3>1
    <3>3. q \notin L
      BY <1>2, <1>13, <3>1, <3>2
    <3> QED BY <1>1, <3>3 DEF L, Lasting
  <2> QED BY <2>1, <2>2
<1> QED BY <1>2, <1>12, <1>13 DEF left, L

(* A step that leaves an agent's queue and its history alone. *)
LEMMA SameQueue ==
  ASSUME QueueInv, NEW p \in Pids, queue'[p] = queue[p], queued'[p] = queued[p],
         delivered'[p] = delivered[p], now' = now \/ now' = now + 1
  PROVE  QueueAt(p)'
<1>1. Handed(p)' = Handed(p) /\ InQueue(p)' = InQueue(p)
  BY DEF Handed, InQueue, Carrying
<1>2. ASSUME NEW q \in ToSet(queued[p]), ~Live(q, Retention) PROVE ~Live(q, Retention)'
  <2>1. q \in [topic : Topics \cup {None}, message : Messages, created : Nat] /\ now \in Nat
    BY HandedType DEF Queued, QueueInv, TypeOK
  <2> QED BY <1>2, <2>1, QueueAssumption DEF Live
<1>3. /\ delivered[p] = Payloads(Handed(p))
      /\ Handed(p) \o queue[p] = Only(queued[p], Carrying(InQueue(p)))
      /\ \A q \in ToSet(queued[p]) : q.message \in InQueue(p) \/ ~Live(q, Retention)
  BY DEF QueueInv, QueueAt
<1>4. Carrying(InQueue(p))' = Carrying(InQueue(p))
  BY <1>1 DEF Carrying
<1> QED BY <1>1, <1>2, <1>3, <1>4 DEF QueueAt

LEMMA EnqueueQueues ==
  ASSUME QueueInv, NEW p \in Pids, NEW t \in Topics \cup {None}, NEW m \in Fresh,
         Enqueue(p, t, m)
  PROVE  QueueInv'
<1> DEFINE e == [topic |-> t, message |-> m, created |-> now]
<1>1. m \in Messages /\ m \notin ToSet(Payloads(queued[p]))
  BY UsedApart
<1>2. e \in Queued /\ e.message = m /\ e.created = now
  BY <1>1 DEF Queued, QueueInv, TypeOK
<1>3. /\ queue' = [queue EXCEPT ![p] = Append(@, e)]
      /\ queued' = [queued EXCEPT ![p] = Append(@, e)]
      /\ UNCHANGED <<received, log, owed, delivered, now, channels>>
  BY DEF Enqueue, QueueForOffline
<1> HIDE DEF e
<1>4. TypeOK'
  BY <1>1, QueueForOfflineTyped DEF QueueInv, Enqueue
<1>5. /\ queued[p] \in Seq(Queued) /\ queue[p] \in Seq(Queued) /\ delivered[p] \in Seq(Messages)
      /\ Handed(p) \in Seq(Queued)
      /\ ToSet(delivered[p]) = {q.message : q \in ToSet(Handed(p))}
      /\ ToSet(Handed(p)) \subseteq ToSet(queued[p])
      /\ ToSet(queue[p]) \subseteq ToSet(queued[p])
      /\ ToSet(queued[p]) \subseteq Queued
  BY HandedType
<1>6. queued'[p] = Append(queued[p], e) /\ queue'[p] = Append(queue[p], e)
      /\ Append(queued[p], e) \in Seq(Queued)
  BY <1>2, <1>3, <1>5, AppendProperties DEF QueueInv, TypeOK, HistoryTyped
<1>7. HistoryTyped'
  BY <1>3, <1>6 DEF QueueInv, HistoryTyped
<1>8. \A q \in ToSet(queued[p]) : q.message # m
  BY <1>1, <1>5, PayloadsType
<1>9. ToSet(queued'[p]) = ToSet(queued[p]) \cup {e} /\ e \notin ToSet(queued[p])
      /\ ToSet(queue'[p]) = ToSet(queue[p]) \cup {e}
  BY <1>2, <1>5, <1>6, <1>8, ToSetAppend
<1>10. Distinct(queued'[p]) /\ \A x, y \in ToSet(queued'[p]) : x.message = y.message => x = y
  <2>1. Distinct(queued[p]) /\ \A x, y \in ToSet(queued[p]) : x.message = y.message => x = y
    BY DEF QueueInv, QueuedOnce
  <2>2. Distinct(queued'[p])
    BY <1>2, <1>5, <1>6, <1>9, <2>1, DistinctAppend
  <2> QED BY <1>2, <1>8, <1>9, <2>1, <2>2
<1>11. QueuedOnce'
  BY <1>3, <1>10 DEF QueueInv, QueuedOnce, HistoryTyped
<1>12. m \notin ToSet(delivered[p])
  BY <1>5, <1>8
<1>13. Handed(p)' = Handed(p)
  <2>1. e \notin Carrying(ToSet(delivered[p]))
    BY <1>2, <1>12 DEF Carrying
  <2>2. Only(Append(queued[p], e), Carrying(ToSet(delivered[p]))) = Handed(p)
    BY <1>2, <1>5, <2>1, OnlyAppend DEF Handed
  <2> QED BY <1>3, <1>6, <2>2 DEF Handed, Carrying
<1>14. InQueue(p)' = InQueue(p) \cup {m}
  <2>1. /\ ToSet(Payloads(queue[p])) = {q.message : q \in ToSet(queue[p])}
        /\ ToSet(Payloads(Append(queue[p], e))) = {q.message : q \in ToSet(Append(queue[p], e))}
    BY <1>2, <1>5, AppendProperties, PayloadsType
  <2>2. ToSet(Payloads(queue'[p])) = ToSet(Payloads(queue[p])) \cup {m}
    BY <1>2, <1>6, <1>9, <2>1
  <2> QED BY <1>3, <2>2 DEF InQueue
<1>15. Handed(p) \o Append(queue[p], e) = Only(Append(queued[p], e), Carrying(InQueue(p) \cup {m}))
  <2>1. Handed(p) \o Append(queue[p], e) = Append(Handed(p) \o queue[p], e)
    BY <1>2, <1>5, ConcatAppend
  <2>2. Handed(p) \o queue[p] = Only(queued[p], Carrying(InQueue(p)))
    BY DEF QueueInv, QueueAt
  <2>3. \A x \in ToSet(queued[p]) : x \in Carrying(InQueue(p)) <=> x \in Carrying(InQueue(p) \cup {m})
    BY <1>8 DEF Carrying
  <2>4. Only(queued[p], Carrying(InQueue(p))) = Only(queued[p], Carrying(InQueue(p) \cup {m}))
    BY <1>5, <2>3, OnlySame
  <2>5. e \in Carrying(InQueue(p) \cup {m})
    BY <1>2 DEF Carrying
  <2> DEFINE C == Carrying(InQueue(p) \cup {m})
  <2>6. Only(Append(queued[p], e), C) = Append(Only(queued[p], C), e)
    <3>1. queued[p] \in Seq(Queued) /\ e \in Queued /\ e \in C
      BY <1>2, <1>5, <2>5
    <3> HIDE DEF C
    <3> QED BY <3>1, OnlyAppend
  <2> QED BY <2>1, <2>2, <2>4, <2>6
<1>16. QueueAt(p)'
  <2>1. delivered'[p] = Payloads(Handed(p))'
    BY <1>3, <1>13 DEF QueueInv, QueueAt, Payloads
  <2>2. (Handed(p) \o queue[p])' = Only(queued'[p], Carrying(InQueue(p))')
    BY <1>6, <1>13, <1>14, <1>15 DEF Carrying
  <2>3. \A q \in ToSet(queued'[p]) : q.message \in InQueue(p)' \/ ~Live(q, Retention)'
    BY <1>2, <1>3, <1>9, <1>14 DEF QueueInv, QueueAt, Live
  <2> QED BY <2>1, <2>2, <2>3 DEF QueueAt
<1>17. ASSUME NEW r \in Pids, r # p PROVE QueueAt(r)'
  <2>1. queue'[r] = queue[r] /\ queued'[r] = queued[r] /\ delivered'[r] = delivered[r] /\ now' = now
    BY <1>3, <1>17 DEF QueueInv, TypeOK, HistoryTyped
  <2> QED BY <2>1, SameQueue
<1> QED BY <1>4, <1>7, <1>11, <1>16, <1>17 DEF QueueInv

LEMMA DeliverQueues ==
  ASSUME QueueInv, NEW p \in Pids, Deliver(p)
  PROVE  QueueInv'
<1> DEFINE left == Only(queue[p], Lasting(Retention))
           flow == ToSet(delivered[p]) \cup ToSet(Payloads(left))
<1>1. /\ left \in Seq(Queued)
      /\ Handed(p) \o left = Only(queued[p], Carrying(flow))
      /\ \A q \in ToSet(queued[p]) : q.message \in flow \/ ~Live(q, Retention)
  BY LastingRest
<1>2. /\ queue' = [queue EXCEPT ![p] = <<>>]
      /\ delivered' = [delivered EXCEPT ![p] = @ \o Payloads(left)]
      /\ UNCHANGED <<received, log, owed, queued, now, channels>>
  BY DEF Deliver, DeliverQueued, Deliverable
<1>3. /\ queued[p] \in Seq(Queued) /\ delivered[p] \in Seq(Messages) /\ Handed(p) \in Seq(Queued)
      /\ Payloads(left) \in Seq(Messages)
  BY <1>1, HandedType, PayloadsType
<1> HIDE DEF left
<1>4. TypeOK'
  BY DeliverQueuedTyped DEF QueueInv, Deliver
<1>5. delivered'[p] = delivered[p] \o Payloads(left) /\ queue'[p] = <<>>
      /\ delivered'[p] \in Seq(Messages)
  BY <1>2, <1>3, ConcatProperties DEF QueueInv, TypeOK, HistoryTyped
<1>6. HistoryTyped' /\ QueuedOnce'
  BY <1>2, <1>5 DEF QueueInv, HistoryTyped, QueuedOnce
<1>7. ToSet(delivered'[p]) = flow
  BY <1>3, <1>5, ToSetConcat
<1>8. InQueue(p)' = flow
  <2>1. Payloads(<<>>) = <<>>
    BY DEF Payloads
  <2> QED BY <1>5, <1>7, <2>1, ToSetEmpty DEF InQueue, Payloads
<1>9. Handed(p)' = Handed(p) \o left
  BY <1>1, <1>2, <1>7 DEF Handed, Carrying
<1>10. QueueAt(p)'
  <2>1. delivered'[p] = Payloads(Handed(p) \o left)
    <3>1. delivered[p] = Payloads(Handed(p))
      BY DEF QueueInv, QueueAt
    <3> QED BY <1>1, <1>3, <1>5, <3>1, PayloadsConcat
  <2>2. Handed(p)' \o queue'[p] = Handed(p)'
    <3>1. Handed(p) \o left \in Seq(Queued)
      BY <1>1, <1>3, ConcatProperties
    <3> QED BY <1>5, <1>9, <3>1, ConcatEmptySeq
  <2>3. Handed(p)' = Only(queued'[p], Carrying(InQueue(p))')
    BY <1>1, <1>2, <1>8, <1>9 DEF Carrying
  <2>4. \A q \in ToSet(queued'[p]) : q.message \in InQueue(p)' \/ ~Live(q, Retention)'
    BY <1>1, <1>2, <1>8 DEF Live
  <2>5. delivered'[p] = Payloads(Handed(p))'
    BY <1>9, <2>1 DEF Payloads
  <2> QED BY <2>2, <2>3, <2>4, <2>5 DEF QueueAt
<1>11. ASSUME NEW r \in Pids, r # p PROVE QueueAt(r)'
  <2>1. queue'[r] = queue[r] /\ queued'[r] = queued[r] /\ delivered'[r] = delivered[r] /\ now' = now
    BY <1>2, <1>11 DEF QueueInv, TypeOK, HistoryTyped
  <2> QED BY <2>1, SameQueue
<1> QED BY <1>4, <1>6, <1>10, <1>11 DEF QueueInv

LEMMA ExpireQueues ==
  ASSUME QueueInv, ExpireOldMessages(Retention), UNCHANGED history
  PROVE  QueueInv'
<1>1. TypeOK' /\ HistoryTyped' /\ QueuedOnce'
  BY ExpireTyped DEF QueueInv, HistoryTyped, QueuedOnce, history
<1>2. ASSUME NEW p \in Pids PROVE QueueAt(p)'
  <2> DEFINE left == Only(queue[p], Lasting(Retention))
             flow == ToSet(delivered[p]) \cup ToSet(Payloads(left))
  <2>1. /\ left \in Seq(Queued)
        /\ Handed(p) \o left = Only(queued[p], Carrying(flow))
        /\ \A q \in ToSet(queued[p]) : q.message \in flow \/ ~Live(q, Retention)
    BY LastingRest
  <2>2. queue'[p] = left /\ queued' = queued /\ delivered' = delivered /\ now' = now
    BY DEF ExpireOldMessages, history
  <2> HIDE DEF left
  <2>3. InQueue(p)' = flow /\ Handed(p)' = Handed(p)
    BY <2>2 DEF InQueue, Handed, Carrying, Payloads
  <2>4. delivered'[p] = Payloads(Handed(p))'
    BY <2>2, <2>3 DEF Payloads, QueueInv, QueueAt
  <2>5. Carrying(InQueue(p))' = Carrying(flow)
    BY <2>3 DEF Carrying
  <2>6. (Handed(p) \o queue[p])' = Only(queued'[p], Carrying(InQueue(p))')
    BY <2>1, <2>2, <2>3, <2>5
  <2>7. \A q \in ToSet(queued'[p]) : q.message \in InQueue(p)' \/ ~Live(q, Retention)'
    BY <2>1, <2>2, <2>3 DEF Live
  <2> QED BY <2>4, <2>6, <2>7 DEF QueueAt
<1> QED BY <1>1, <1>2 DEF QueueInv

(* A step that touches no queue. *)
LEMMA ElsewhereQueues ==
  ASSUME QueueInv, TypeOK', HistoryTyped', UNCHANGED <<queue, queued, delivered>>,
         now' = now \/ now' = now + 1
  PROVE  QueueInv'
BY SameQueue DEF QueueInv, QueuedOnce

--------------------------------------------------------------------------------
(* The theorems *)

LEMMA InitInv == HistoryInit => ChannelInv /\ QueueInv
<1> SUFFICES ASSUME HistoryInit PROVE ChannelInv /\ QueueInv
  OBVIOUS
<1>1. TypeOK
  BY InitTyped DEF HistoryInit
<1>2. HistoryTyped
  BY EmptySeq DEF HistoryInit, HistoryTyped
<1>3. Distinct(<<>>)
  BY DEF Distinct
<1>4. ChansOnce /\ SendsLatest /\ QueuedOnce
  BY <1>3, ToSetEmpty DEF HistoryInit, Init, Idle, ChansOnce, SendsLatest, QueuedOnce
<1>5. \A c \in Chans : Flow(c) = <<>>
  BY EmptySeq, ConcatEmptySeq DEF HistoryInit, Init, Flow
<1>6. SentOnce
  BY <1>3, <1>5, ToSetEmpty DEF HistoryInit, SentOnce
<1>7. Streams
  BY <1>5, OnlyEmpty DEF HistoryInit, Streams, StreamsAt
<1>8. Payloads(<<>>) = <<>>
  BY DEF Payloads
<1>9. ASSUME NEW p \in Pids PROVE QueueAt(p)
  <2>1. Handed(p) = <<>> /\ delivered[p] = <<>> /\ queue[p] = <<>> /\ queued[p] = <<>>
    BY OnlyEmpty DEF Handed, HistoryInit, Init
  <2>2. <<>> \o <<>> = <<>>
    BY EmptySeq, ConcatEmptySeq
  <2> QED BY <1>8, <2>1, <2>2, OnlyEmpty, ToSetEmpty DEF QueueAt
<1> QED BY <1>1, <1>2, <1>4, <1>6, <1>7, <1>9 DEF ChannelInv, QueueInv

LEMMA NextInv == ChannelInv /\ QueueInv /\ [HistoryNext]_<<vars, history>> => ChannelInv' /\ QueueInv'
<1> SUFFICES ASSUME ChannelInv, QueueInv, [HistoryNext]_<<vars, history>>
             PROVE  ChannelInv' /\ QueueInv'
  OBVIOUS
<1>1. ASSUME NEW k \in Tasks, NEW m \in Fresh, Send(k, m) PROVE ChannelInv' /\ QueueInv'
  <2>1. ChannelInv'
    BY <1>1, SendStreams
  <2>2. UNCHANGED <<queue, now, queued, delivered>>
    BY <1>1 DEF Send, Publish, SendDirect, Begin, Sent, offline
  <2> QED BY <2>1, <2>2, ElsewhereQueues DEF ChannelInv
<1>2. ASSUME NEW c \in Chans, Take(c) PROVE ChannelInv' /\ QueueInv'
  <2>1. ChannelInv'
    BY <1>2, TakeStreams
  <2>2. UNCHANGED <<queue, now, queued, delivered>>
    BY <1>2 DEF Take, Receive, offline
  <2> QED BY <2>1, <2>2, ElsewhereQueues DEF ChannelInv
<1>3. ASSUME NEW p \in Pids, NEW t \in Topics \cup {None}, NEW m \in Fresh, Enqueue(p, t, m)
      PROVE  ChannelInv' /\ QueueInv'
  <2>1. QueueInv'
    BY <1>3, EnqueueQueues
  <2>2. UNCHANGED <<channels, received, log, owed>>
    BY <1>3 DEF Enqueue, QueueForOffline
  <2> QED BY <2>1, <2>2, ElsewhereStreams DEF QueueInv
<1>4. ASSUME NEW p \in Pids, Deliver(p) PROVE ChannelInv' /\ QueueInv'
  <2>1. QueueInv'
    BY <1>4, DeliverQueues
  <2>2. UNCHANGED <<channels, received, log, owed>>
    BY <1>4 DEF Deliver, DeliverQueued
  <2> QED BY <2>1, <2>2, ElsewhereStreams DEF QueueInv
<1>5. ASSUME UNCHANGED history,
             \/ \E p \in Pids, t \in Topics : (\E c \in Chans : Subscribe(p, t, c)) \/ Unsubscribe(p, t)
             \/ \E c \in Chans : Drop(c)
             \/ \E k \in Tasks : SendNext(k)
      PROVE  ChannelInv' /\ QueueInv'
  <2>1. ChannelInv'
    BY <1>5, SubscribeStreams, UnsubscribeStreams, DropStreams, SendNextStreams
  <2>2. UNCHANGED <<queue, now, queued, delivered>>
    BY <1>5 DEF Subscribe, Unsubscribe, Drop, SendNext, offline, history
  <2> QED BY <2>1, <2>2, ElsewhereQueues DEF ChannelInv
<1>6. ASSUME UNCHANGED history, ExpireOldMessages(Retention) PROVE ChannelInv' /\ QueueInv'
  <2>1. QueueInv'
    BY <1>6, ExpireQueues
  <2>2. UNCHANGED <<channels, received, log, owed>>
    BY <1>6 DEF ExpireOldMessages, history
  <2> QED BY <2>1, <2>2, ElsewhereStreams DEF QueueInv
<1>7. ASSUME UNCHANGED history, Tick PROVE ChannelInv' /\ QueueInv'
  <2>1. TypeOK' /\ HistoryTyped'
    BY <1>7, TickTyped DEF ChannelInv, HistoryTyped, history
  <2>2. UNCHANGED <<channels, received, log, owed, queue, queued, delivered>> /\ now' = now + 1
    BY <1>7 DEF Tick, history
  <2> QED BY <2>1, <2>2, ElsewhereStreams, ElsewhereQueues
<1>8. CASE UNCHANGED <<vars, history>>
  <2>1. TypeOK' /\ HistoryTyped'
    BY <1>8 DEF ChannelInv, TypeOK, HistoryTyped, vars, history
  <2>2. UNCHANGED <<channels, received, log, owed, queue, queued, delivered, now>>
    BY <1>8 DEF vars, channels, history
  <2> QED BY <2>1, <2>2, ElsewhereStreams, ElsewhereQueues
<1> QED BY <1>1, <1>2, <1>3, <1>4, <1>5, <1>6, <1>7, <1>8 DEF HistoryNext

LEMMA Exact == ChannelInv /\ QueueInv => DeliveryExact
<1> SUFFICES ASSUME ChannelInv, QueueInv PROVE StreamExact /\ QueueExact
  BY DEF DeliveryExact
<1>1. StreamExact
  BY DEF ChannelInv, Streams, StreamsAt, StreamExact, Stream, Flow, Arrived
<1>2. ASSUME NEW p \in Pids
      PROVE  LET flow == delivered[p] \o Payloads(queue[p])
                 kept == Only(queued[p], {q \in Queued : q.message \in ToSet(flow)})
             IN  /\ flow = Payloads(kept)
                 /\ \A q \in ToSet(queued[p]) : q \in ToSet(kept) \/ ~Live(q, Retention)
  <2> DEFINE flow == delivered[p] \o Payloads(queue[p])
             kept == Only(queued[p], {q \in Queued : q.message \in ToSet(flow)})
  <2>1. /\ queued[p] \in Seq(Queued) /\ queue[p] \in Seq(Queued)
        /\ delivered[p] \in Seq(Messages) /\ Handed(p) \in Seq(Queued)
        /\ ToSet(queued[p]) \subseteq Queued
    BY HandedType
  <2>2. Payloads(queue[p]) \in Seq(Messages)
    BY <2>1, PayloadsType
  <2>3. ToSet(flow) = InQueue(p)
    BY <2>1, <2>2, ToSetConcat DEF InQueue
  <2>4. kept = Handed(p) \o queue[p]
    BY <2>3 DEF QueueInv, QueueAt, Carrying
  <2>5. flow = Payloads(kept)
    <3>1. Payloads(Handed(p) \o queue[p]) = Payloads(Handed(p)) \o Payloads(queue[p])
      BY <2>1, PayloadsConcat
    <3> QED BY <2>4, <3>1 DEF QueueInv, QueueAt
  <2>6. ToSet(kept) = ToSet(queued[p]) \cap {q \in Queued : q.message \in ToSet(flow)}
    BY <2>1, OnlyRange
  <2>7. \A q \in ToSet(queued[p]) : q \in ToSet(kept) \/ ~Live(q, Retention)
    BY <2>1, <2>3, <2>6 DEF QueueInv, QueueAt
  <2> QED BY <2>5, <2>7
<1>3. QueueExact
  BY <1>2 DEF QueueExact
<1> QED BY <1>1, <1>3

(* The variables of the bus keep their types, no channel and no queue is
   overfull, and a task holds a message exactly while it has channels to send it
   to, whatever is called in whatever order. *)
THEOREM BusTyped == Spec => []TypeOK
<1>1. Init => TypeOK
  BY InitTyped
<1>2. TypeOK /\ [Next]_vars => TypeOK'
  BY StepTyped, NextStep
<1> QED BY <1>1, <1>2, PTL DEF Spec

(* The same of the bus with its history. *)
THEOREM TypeCorrect == HistorySpec => []TypeOK
<1>1. HistoryInit => ChannelInv /\ QueueInv
  BY InitInv
<1>2. ChannelInv /\ QueueInv /\ [HistoryNext]_<<vars, history>> => ChannelInv' /\ QueueInv'
  BY NextInv
<1>3. ChannelInv => TypeOK
  BY DEF ChannelInv
<1> QED BY <1>1, <1>2, <1>3, PTL DEF HistorySpec

(* Through a channel or through a queue, nothing arrives twice or out of order, and
   nothing is lost but to a receiver that is gone and to the retention. *)
THEOREM Delivery == HistorySpec => []DeliveryExact
<1>1. HistoryInit => ChannelInv /\ QueueInv
  BY InitInv
<1>2. ChannelInv /\ QueueInv /\ [HistoryNext]_<<vars, history>> => ChannelInv' /\ QueueInv'
  BY NextInv
<1>3. ChannelInv /\ QueueInv => DeliveryExact
  BY Exact
<1> QED BY <1>1, <1>2, <1>3, PTL DEF HistorySpec
================================================================================
