-------------------------------- MODULE Client --------------------------------
(***************************************************************************)
(* A HawkClient of openhawk-sdk-rust: the bus, the memory and the handlers *)
(* of one process, shared by its threads.  dispatch runs the handler with  *)
(* the mutex of the registry held: a handler that calls its client again   *)
(* waits for itself, and one that panics poisons the mutex.                *)
(***************************************************************************)
EXTENDS MemoryStore

CONSTANTS
    Threads,
    Methods,        \* a method is handled by what a thread has registered for it
    MaxSent,        \* bound: messages published
    MaxRegistered   \* bound: handlers registered, or refused, before the last call of register_handler

VARIABLES
    handlers,       \* method -> who registered its handler, or None
    holder,         \* the thread that holds the mutex, or None
    poisoned,
    thread,         \* what each thread is doing
    subscriptions,  \* the threads with a receiver, in the order they subscribed
    inbox,          \* thread -> its receiver's messages
    memory,         \* the client's own store
    sent,           \* messages published: the number of the last one
    registered,     \* history: <<thread, method>>, in the order they had the registry
    handled         \* history: [thread, by, id, method, handler, end], in order

vars == <<handlers, holder, poisoned, thread, subscriptions, inbox, memory, sent, registered, handled>>

(* `op`: the call that waits for the mutex, with its method or message; `to`: the
   receivers that a message goes to yet. *)
Idle == [pc |-> "idle", op |-> "none", method |-> None, by |-> None, id |-> 0, to |-> <<>>]

connect ==
    /\ handlers = [m \in Methods |-> None]
    /\ holder = None /\ poisoned = FALSE
    /\ thread = [t \in Threads |-> Idle]
    /\ subscriptions = <<>> /\ inbox = [t \in Threads |-> <<>>]
    /\ memory = NewStore
    /\ sent = 0 /\ registered = <<>> /\ handled = <<>>

At(t, pc) == thread[t].pc = pc
Goto(t, locals) == thread' = [thread EXCEPT ![t] = locals]
NotBus == UNCHANGED <<subscriptions, inbox, sent>>

--------------------------------------------------------------------------------
(* The bus is the client's own: its messages reach the receivers of this process,
   those that are there when publish looks.  A payload with another version or no
   method is refused. *)
publish(t, version, method) ==
    /\ At(t, "idle") /\ sent < MaxSent
    /\ sent' = sent + 1
    /\ IF version = "2.0" /\ method # None
       THEN Goto(t, [Idle EXCEPT !.pc = "send", !.method = method, !.by = t, !.id = sent', !.to = subscriptions])
       ELSE UNCHANGED thread
    /\ UNCHANGED <<handlers, holder, poisoned, subscriptions, inbox, memory, registered, handled>>

(* One receiver after another, with an await between them: those of two publishers
   interleave.  (A receiver has room for 256 messages.) *)
Send(t) ==
    /\ At(t, "send")
    /\ LET l == thread[t]
       IN  IF l.to = <<>> THEN Goto(t, Idle) /\ UNCHANGED inbox
           ELSE /\ inbox' = [inbox EXCEPT ![Head(l.to)] = Append(@, [method |-> l.method, by |-> t, id |-> l.id])]
                /\ Goto(t, [l EXCEPT !.to = Tail(@)])
    /\ UNCHANGED <<handlers, holder, poisoned, subscriptions, memory, sent, registered, handled>>

subscribe(t) ==
    /\ At(t, "idle") /\ t \notin Range(subscriptions)
    /\ subscriptions' = Append(subscriptions, t)
    /\ UNCHANGED <<handlers, holder, poisoned, thread, inbox, memory, sent, registered, handled>>

memory_set(t, scope, key, value) ==
    /\ At(t, "idle")
    /\ memory' = store(memory, scope, key, value)
    /\ UNCHANGED <<handlers, holder, poisoned, thread, subscriptions, inbox, sent, registered, handled>>

memory_get(key) == {e.value : e \in query(memory, key)}

--------------------------------------------------------------------------------
register_handler(t, method) ==
    /\ At(t, "idle") /\ Len(registered) < MaxRegistered
    /\ Goto(t, [Idle EXCEPT !.pc = "lock", !.op = "register", !.method = method])
    /\ UNCHANGED <<handlers, holder, poisoned, memory, registered, handled>> /\ NotBus

(* The loop of the scaffold: recv, then dispatch. *)
Receive(t) ==
    /\ At(t, "idle") /\ inbox[t] # <<>>
    /\ inbox' = [inbox EXCEPT ![t] = Tail(@)]
    /\ LET m == Head(inbox[t])
       IN  Goto(t, [pc |-> "lock", op |-> "dispatch", method |-> m.method, by |-> m.by, id |-> m.id, to |-> <<>>])
    /\ UNCHANGED <<handlers, holder, poisoned, subscriptions, memory, sent, registered, handled>>

(* lock().unwrap() on a poisoned mutex: this thread panics too. *)
Unwrap(t) ==
    /\ At(t, "lock") /\ holder = None /\ poisoned
    /\ Goto(t, [Idle EXCEPT !.pc = "panicked"])
    /\ UNCHANGED <<handlers, holder, poisoned, memory, registered, handled>> /\ NotBus

(* Mutant: the later handler wins. *)
Register_Replaces(t) ==
    /\ At(t, "lock") /\ holder = None /\ ~poisoned /\ thread[t].op = "register"
    /\ registered' = Append(registered, <<t, thread[t].method>>)
    /\ handlers' = [handlers EXCEPT ![thread[t].method] = t]
    /\ Goto(t, Idle)
    /\ UNCHANGED <<holder, poisoned, memory, handled>> /\ NotBus

(* DuplicateHandler, or the handler goes in. *)
Register(t) ==
    /\ At(t, "lock") /\ holder = None /\ ~poisoned /\ thread[t].op = "register"
    /\ registered' = Append(registered, <<t, thread[t].method>>)
    /\ handlers' = IF handlers[thread[t].method] # None THEN handlers
                   ELSE [handlers EXCEPT ![thread[t].method] = t]
    /\ Goto(t, Idle)
    /\ UNCHANGED <<holder, poisoned, memory, handled>> /\ NotBus

(* Mutant: a message without a handler keeps the mutex. *)
Dispatch_KeepsLock(t) ==
    /\ At(t, "lock") /\ holder = None /\ ~poisoned /\ thread[t].op = "dispatch"
    /\ holder' = t
    /\ LET l == thread[t]
       IN  IF handlers[l.method] = None
           THEN Goto(t, Idle) /\ UNCHANGED handled
           ELSE /\ handled' = Append(handled, [thread |-> t, by |-> l.by, id |-> l.id, method |-> l.method,
                                               handler |-> handlers[l.method], end |-> "running"])
                /\ Goto(t, [l EXCEPT !.pc = "handler"])
    /\ UNCHANGED <<handlers, poisoned, memory, registered>> /\ NotBus

(* Mutant: a poisoned mutex is taken for a sound one, into_inner. *)
Dispatch_Poisoned(t) ==
    /\ At(t, "lock") /\ holder = None /\ thread[t].op = "dispatch"
    /\ LET l == thread[t]
       IN  IF handlers[l.method] = None
           THEN Goto(t, Idle) /\ UNCHANGED <<holder, handled>>
           ELSE /\ holder' = t
                /\ handled' = Append(handled, [thread |-> t, by |-> l.by, id |-> l.id, method |-> l.method,
                                               handler |-> handlers[l.method], end |-> "running"])
                /\ Goto(t, [l EXCEPT !.pc = "handler"])
    /\ UNCHANGED <<handlers, poisoned, memory, registered>> /\ NotBus

(* A message without a handler is dropped. *)
Dispatch(t) ==
    /\ At(t, "lock") /\ holder = None /\ ~poisoned /\ thread[t].op = "dispatch"
    /\ LET l == thread[t]
       IN  IF handlers[l.method] = None
           THEN Goto(t, Idle) /\ UNCHANGED <<holder, handled>>
           ELSE /\ holder' = t
                /\ handled' = Append(handled, [thread |-> t, by |-> l.by, id |-> l.id, method |-> l.method,
                                               handler |-> handlers[l.method], end |-> "running"])
                /\ Goto(t, [l EXCEPT !.pc = "handler"])
    /\ UNCHANGED <<handlers, poisoned, memory, registered>> /\ NotBus

(* The handler returns, panics, or calls register_handler or dispatch of the
   same client: std's mutex then blocks for ever or panics. *)
Ends(t, end) ==
    handled' = [i \in DOMAIN handled |->
                   IF handled[i].thread = t /\ handled[i].end = "running" THEN [handled[i] EXCEPT !.end = end]
                   ELSE handled[i]]

HandlerReturns(t) ==
    /\ At(t, "handler")
    /\ holder' = None /\ Ends(t, "returned") /\ Goto(t, Idle)
    /\ UNCHANGED <<handlers, poisoned, memory, registered>> /\ NotBus

HandlerPanics(t) ==
    /\ At(t, "handler")
    /\ holder' = None /\ poisoned' = TRUE /\ Ends(t, "panicked")
    /\ Goto(t, [Idle EXCEPT !.pc = "panicked"])
    /\ UNCHANGED <<handlers, memory, registered>> /\ NotBus

HandlerReenters(t) ==
    /\ At(t, "handler")
    /\ Goto(t, [thread[t] EXCEPT !.pc = "stuck"])
    /\ UNCHANGED <<handlers, holder, poisoned, memory, registered, handled>> /\ NotBus

ThreadStep(t) ==
    \/ Send(t) \/ Receive(t) \/ Unwrap(t) \/ Register(t) \/ Dispatch(t)
    \/ HandlerReturns(t) \/ HandlerPanics(t) \/ HandlerReenters(t)

Next ==
    \E t \in Threads :
        \/ \E version \in {"1.0", "2.0"}, m \in Methods \cup {None} : publish(t, version, m)
        \/ \E m \in Methods : register_handler(t, m)
        \/ subscribe(t) \/ memory_set(t, Agent("1"), <<"k">>, "v") \/ ThreadStep(t)

Spec == connect /\ [][Next]_vars

(* A thread in a call, or with a message to receive, keeps running. *)
FairSpec == Spec /\ \A t \in Threads : WF_vars(ThreadStep(t))

--------------------------------------------------------------------------------
(* Properties *)

(* A receiver handles the messages of one publisher once and in their order,
   however those of others come between; all messages of a method meet one handler,
   that of the first thread to register one; and nothing is handled while another
   handler runs, after one that panicked, or after one that called its client. *)
ClientSound ==
    /\ \A i, j \in DOMAIN handled :
          i < j /\ handled[i].thread = handled[j].thread /\ handled[i].by = handled[j].by
              => handled[i].id < handled[j].id
    /\ \A i \in DOMAIN handled :
          \E k \in DOMAIN registered :
              /\ registered[k] = <<handled[i].handler, handled[i].method>>
              /\ \A j \in 1 .. k - 1 : registered[j][2] # handled[i].method
    /\ \A i \in DOMAIN handled : handled[i].end # "returned" => i = Len(handled)

Waiting(t) == At(t, "lock") /\ \A r \in Threads : ~At(r, "stuck")

(* A call that waits for the registry gets it, or panics with it, unless a
   handler has called its own client. *)
CallsReturn == \A t \in Threads : Waiting(t) ~> ~Waiting(t)
================================================================================
