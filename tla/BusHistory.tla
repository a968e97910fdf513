------------------------------- MODULE BusHistory -------------------------------
(***************************************************************************)
(* MessageBus with the history of what was sent, received, queued and      *)
(* delivered, to say what the bus owes its users.  Every message is sent   *)
(* or queued once at most, so that it can be told apart.                   *)
(***************************************************************************)
EXTENDS MessageBus

VARIABLES
    received,   \* channel -> messages its receiver has taken
    log,        \* task -> messages it has sent, in order
    owed,       \* message -> channels it was addressed to when its send began
    queued,     \* pid -> entries accepted for it, in order
    delivered   \* pid -> messages deliver_queued has returned

history == <<received, log, owed, queued, delivered>>

HistoryInit ==
    /\ Init
    /\ received = [c \in Chans |-> <<>>]
    /\ log = [k \in Tasks |-> <<>>]
    /\ owed = [m \in Messages |-> {}]
    /\ queued = [p \in Pids |-> <<>>]
    /\ delivered = [p \in Pids |-> <<>>]

(* Messages not used yet. *)
Used == UNION {ToSet(log[k]) : k \in Tasks}
Fresh == Messages \ (Used \cup (UNION {ToSet(Payloads(queued[p])) : p \in Pids}))

Sent(k, m, targets) ==
    /\ log' = [log EXCEPT ![k] = Append(@, m)]
    /\ owed' = [owed EXCEPT ![m] = ToSet(targets)]
    /\ UNCHANGED <<received, queued, delivered>>

Send(k, m) ==
    \/ \E t \in Topics : Publish(k, t, m) /\ Sent(k, m, ChansOf(t))
    \/ \E p \in Pids : SendDirect(k, p, m) /\ Sent(k, m, <<direct[p]>>)

Take(c) ==
    /\ Receive(c)
    /\ received' = [received EXCEPT ![c] = Append(@, Head(buffer[c]))]
    /\ UNCHANGED <<log, owed, queued, delivered>>

Enqueue(p, t, m) ==
    /\ QueueForOffline(p, t, m)
    /\ queued' = [queued EXCEPT ![p] =
                     Append(@, [topic |-> t, message |-> m, created |-> now])]
    /\ UNCHANGED <<received, log, owed, delivered>>

Deliver(p) ==
    /\ DeliverQueued(p)
    /\ delivered' = [delivered EXCEPT ![p] = @ \o Deliverable(p)]
    /\ UNCHANGED <<received, log, owed, queued>>

HistoryNext ==
    \/ \E k \in Tasks, m \in Fresh : Send(k, m)
    \/ \E c \in Chans : Take(c)
    \/ \E p \in Pids : \/ \E m \in Fresh, t \in Topics \cup {None} : Enqueue(p, t, m)
                       \/ Deliver(p)
    \/ /\ \/ \E p \in Pids, t \in Topics :
                (\E c \in Chans : Subscribe(p, t, c)) \/ Unsubscribe(p, t)
          \/ \E c \in Chans : Drop(c)
          \/ \E k \in Tasks : SendNext(k)
          \/ ExpireOldMessages(Retention)
          \/ Tick
       /\ UNCHANGED history

HistorySpec == HistoryInit /\ [][HistoryNext]_<<vars, history>>

--------------------------------------------------------------------------------
(* Properties *)

(* What has gone into a channel, of the messages of one task. *)
Stream(c, k) ==
    Only(received[c] \o buffer[c], ToSet(log[k]))

InFlight(k, c, m) == sending[k].msg = m /\ c \in ToSet(sending[k].todo)

(* Whatever subscriptions come and go and however slow the receivers are, the
   messages of one task reach a channel that is not dropped in the order they
   were sent, each of them once: exactly those that were addressed to it, but
   for the one on its way. *)
StreamExact ==
    \A c \in Chans, k \in Tasks : receiver[c] # "dropped" =>
        Stream(c, k) = Only(log[k], {m \in Messages : c \in owed[m] /\ ~InFlight(k, c, m)})

(* The messages queued for an agent come out in the order they were accepted
   and at most once each; only what has outlived its retention goes missing. *)
QueueExact ==
    \A p \in Pids :
        LET flow == delivered[p] \o Payloads(queue[p])
            kept == Only(queued[p], {q \in Queued : q.message \in ToSet(flow)})
        IN  /\ flow = Payloads(kept)
            /\ \A q \in ToSet(queued[p]) : q \in ToSet(kept) \/ ~Live(q, Retention)

(* Through a channel or through a queue: nothing twice, nothing out of order, and
   nothing lost without the reason that the code gives. *)
DeliveryExact == StreamExact /\ QueueExact
================================================================================
