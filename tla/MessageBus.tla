------------------------------- MODULE MessageBus -------------------------------
(***************************************************************************)
(* The in-memory message bus of openhawk-bus: topics, direct messages and  *)
(* the queues kept for agents that are offline.                            *)
(*                                                                         *)
(* Every subscription is a bounded tokio channel.  The bus state is behind *)
(* one mutex, and each operation is one step, but publish and send_direct  *)
(* clone the senders under the mutex and send after releasing it, waiting  *)
(* at each channel that is full: subscriptions change, receivers are       *)
(* dropped and other tasks send in the meantime.                           *)
(***************************************************************************)
EXTENDS Naturals, Sequences, FiniteSets, SequencesExt, Filters

CONSTANTS
    Pids,       \* agents
    Topics,
    Messages,   \* well-formed messages; the others are rejected by validate
    Chans,      \* channels a subscribe may create
    Tasks,      \* async tasks that send
    Capacity,   \* of a channel (256)
    MaxQueue,   \* max_queue, messages queued for one agent
    Retention,  \* retention_secs
    MaxTime,    \* bound: the clock
    None

ASSUME CapacityAssumption == Capacity \in Nat \ {0}
ASSUME QueueAssumption == MaxQueue \in Nat /\ Retention \in Nat /\ MaxTime \in Nat
ASSUME NoneAssumption == None \notin Chans \cup Topics \cup Messages

VARIABLES
    subscriptions,  \* topic -> [pid, chan] in order of subscription
    direct,         \* pid -> the channel of its latest subscription
    buffer,         \* channel -> messages in it
    receiver,       \* channel -> "unused", "open" or "dropped"
    sending,        \* task -> the message it is sending, and to which channels yet
    queue,          \* pid -> messages kept while it is offline
    now             \* the clock, in seconds

channels == <<subscriptions, direct, buffer, receiver, sending>>
offline == <<queue, now>>
vars == <<subscriptions, direct, buffer, receiver, sending, queue, now>>

Subscription == [pid : Pids, chan : Chans]
Queued == [topic : Topics \cup {None}, message : Messages, created : Nat]
Idle == [msg |-> None, todo |-> <<>>]

Init ==
    /\ subscriptions = [t \in Topics |-> <<>>]
    /\ direct = [p \in Pids |-> None]
    /\ buffer = [c \in Chans |-> <<>>]
    /\ receiver = [c \in Chans |-> "unused"]
    /\ sending = [k \in Tasks |-> Idle]
    /\ queue = [p \in Pids |-> <<>>]
    /\ now = 0

Live(q, age) == q.created + age > now
Lasting(age) == {q \in Queued : Live(q, age)}

Payloads(kept) == [i \in DOMAIN kept |-> kept[i].message]

--------------------------------------------------------------------------------
(* Subscriptions *)

(* A new channel, one sender under the topic and one as the agent's direct
   channel, which replaces the earlier one. *)
Subscribe(p, t, c) ==
    /\ receiver[c] = "unused"
    /\ receiver' = [receiver EXCEPT ![c] = "open"]
    /\ subscriptions' = [subscriptions EXCEPT ![t] = Append(@, [pid |-> p, chan |-> c])]
    /\ direct' = [direct EXCEPT ![p] = c]
    /\ UNCHANGED <<buffer, sending, offline>>

Subscribed(p, t) == \E i \in DOMAIN subscriptions[t] : subscriptions[t][i].pid = p

(* All of the agent's subscriptions to the topic; its direct channel stays.
   Without any (TopicNotFound, NotSubscribed) nothing happens. *)
Unsubscribe(p, t) ==
    /\ Subscribed(p, t)
    /\ subscriptions' = [subscriptions EXCEPT ![t] = Only(@, {s \in Subscription : s.pid # p})]
    /\ UNCHANGED <<direct, buffer, receiver, sending, offline>>

(* The agent takes the next message. *)
Receive(c) ==
    /\ receiver[c] = "open"
    /\ buffer[c] # <<>>
    /\ buffer' = [buffer EXCEPT ![c] = Tail(@)]
    /\ UNCHANGED <<subscriptions, direct, receiver, sending, offline>>

(* The agent drops its receiver, or dies. *)
Drop(c) ==
    /\ receiver[c] = "open"
    /\ receiver' = [receiver EXCEPT ![c] = "dropped"]
    /\ buffer' = [buffer EXCEPT ![c] = <<>>]
    /\ UNCHANGED <<subscriptions, direct, sending, offline>>

--------------------------------------------------------------------------------
(* Sending *)

Begin(k, m, targets) ==
    /\ sending[k] = Idle
    /\ sending' = [sending EXCEPT ![k] = IF targets = <<>> THEN Idle
                                         ELSE [msg |-> m, todo |-> targets]]
    /\ UNCHANGED <<subscriptions, direct, buffer, receiver, offline>>

ChansOf(t) == [i \in DOMAIN subscriptions[t] |-> subscriptions[t][i].chan]

Publish(k, t, m) == Begin(k, m, ChansOf(t))

(* Without a direct channel: NoSubscriber. *)
SendDirect(k, p, m) == direct[p] # None /\ Begin(k, m, <<direct[p]>>)

AfterSend(k) ==
    LET rest == Tail(sending[k].todo)
    IN  IF rest = <<>> THEN Idle ELSE [sending[k] EXCEPT !.todo = rest]

(* Mutant: an unbounded channel. *)
SendNext_Unbounded(k) ==
    /\ sending[k].todo # <<>>
    /\ LET c == Head(sending[k].todo)
       IN  buffer' = IF receiver[c] = "dropped" THEN buffer
                     ELSE [buffer EXCEPT ![c] = Append(@, sending[k].msg)]
    /\ sending' = [sending EXCEPT ![k] = AfterSend(k)]
    /\ UNCHANGED <<subscriptions, direct, receiver, offline>>

(* Mutant: try_send, which drops the message when the channel is full. *)
SendNext_Try(k) ==
    /\ sending[k].todo # <<>>
    /\ LET c == Head(sending[k].todo)
       IN  buffer' = IF receiver[c] = "dropped" \/ Len(buffer[c]) = Capacity THEN buffer
                     ELSE [buffer EXCEPT ![c] = Append(@, sending[k].msg)]
    /\ sending' = [sending EXCEPT ![k] = AfterSend(k)]
    /\ UNCHANGED <<subscriptions, direct, receiver, offline>>

(* Mutant: a send to a dropped receiver waits like one to a full channel. *)
SendNext_Waits(k) ==
    /\ sending[k].todo # <<>>
    /\ LET c == Head(sending[k].todo)
       IN  /\ receiver[c] # "dropped" /\ Len(buffer[c]) < Capacity
           /\ buffer' = [buffer EXCEPT ![c] = Append(@, sending[k].msg)]
    /\ sending' = [sending EXCEPT ![k] = AfterSend(k)]
    /\ UNCHANGED <<subscriptions, direct, receiver, offline>>

(* The send to the next channel completes: at once with an error, which is
   ignored, when its receiver is gone; when there is room otherwise. *)
SendNext(k) ==
    /\ sending[k].todo # <<>>
    /\ LET c == Head(sending[k].todo)
       IN  \/ receiver[c] = "dropped" /\ UNCHANGED buffer
           \/ /\ receiver[c] = "open" /\ Len(buffer[c]) < Capacity
              /\ buffer' = [buffer EXCEPT ![c] = Append(@, sending[k].msg)]
    /\ sending' = [sending EXCEPT ![k] = AfterSend(k)]
    /\ UNCHANGED <<subscriptions, direct, receiver, offline>>

--------------------------------------------------------------------------------
(* Messages for offline agents *)

QueueForOffline(p, t, m) ==
    /\ Len(queue[p]) < MaxQueue   \* or QueueFull, and nothing happens
    /\ queue' = [queue EXCEPT ![p] =
                    Append(@, [topic |-> t, message |-> m, created |-> now])]
    /\ UNCHANGED <<channels, now>>

(* What deliver_queued returns. *)
Deliverable(p) == Payloads(Only(queue[p], Lasting(Retention)))

(* Mutant: the queue is read, not taken. *)
DeliverQueued_Keeps(p) ==
    /\ queue[p] # <<>>
    /\ UNCHANGED <<channels, now, queue>>

(* The queue is taken whole, and what has expired by now is left out. *)
DeliverQueued(p) ==
    /\ queue[p] # <<>>
    /\ queue' = [queue EXCEPT ![p] = <<>>]
    /\ UNCHANGED <<channels, now>>

ExpireOldMessages(age) ==
    /\ queue' = [p \in Pids |-> Only(queue[p], Lasting(age))]
    /\ UNCHANGED <<channels, now>>

Tick ==
    /\ now < MaxTime
    /\ now' = now + 1
    /\ UNCHANGED <<channels, queue>>

--------------------------------------------------------------------------------
Next ==
    \/ \E p \in Pids, t \in Topics :
          \/ \E c \in Chans : Subscribe(p, t, c)
          \/ Unsubscribe(p, t)
    \/ \E c \in Chans : Receive(c) \/ Drop(c)
    \/ \E k \in Tasks :
          \/ \E m \in Messages : \/ \E t \in Topics : Publish(k, t, m)
                              \/ \E p \in Pids : SendDirect(k, p, m)
          \/ SendNext(k)
    \/ \E p \in Pids :
          \/ \E m \in Messages, t \in Topics \cup {None} : QueueForOffline(p, t, m)
          \/ DeliverQueued(p)
    \/ ExpireOldMessages(Retention)
    \/ Tick

Spec == Init /\ [][Next]_vars

(* A task that waits at a channel gets its turn (tokio queues the senders that
   wait, first come first served), and receivers keep reading. *)
FairSpec ==
    /\ Spec
    /\ \A k \in Tasks : SF_vars(SendNext(k))
    /\ \A c \in Chans : WF_vars(Receive(c))

--------------------------------------------------------------------------------
(* Properties *)

(* Every variable keeps its type; a task holds a message exactly while it has
   channels to send it to, all of them in use, and no channel is overfull. *)
TypeOK ==
    /\ subscriptions \in [Topics -> Seq(Subscription)]
    /\ direct \in [Pids -> Chans \cup {None}]
    /\ buffer \in [Chans -> Seq(Messages)]
    /\ receiver \in [Chans -> {"unused", "open", "dropped"}]
    /\ sending \in [Tasks -> [msg : Messages \cup {None}, todo : Seq(Chans)]]
    /\ queue \in [Pids -> Seq(Queued)]
    /\ now \in Nat
    /\ \A k \in Tasks : sending[k].msg = None <=> sending[k].todo = <<>>
    /\ \A c \in Chans : Len(buffer[c]) <= Capacity
    /\ \A p \in Pids : Len(queue[p]) <= MaxQueue

(* A publish or a direct message gets through, or its receivers are gone. *)
Sending(k) == sending[k] # Idle
SendEnds == \A k \in Tasks : Sending(k) ~> ~Sending(k)
================================================================================
