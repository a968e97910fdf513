--------------------------- MODULE AgentManagerProofs ---------------------------
(***************************************************************************)
(* The safety properties of AgentManager, for any pids, callers, faults    *)
(* and restarts.                                                           *)
(*                                                                         *)
(* A pid may be given away and a Child waited for between any two steps of *)
(* a call, so that nothing a call has looked up is true of the process     *)
(* later on.  What remains true is that a process that was seen dead stays *)
(* dead under its generation, that an entry is of the latest process of    *)
(* its pid until that was waited for, and that no pid is tracked twice.    *)
(***************************************************************************)
EXTENDS AgentManager, TLAPS

Spawning == {"insert", "track"}
Stopping == {"stopping", "stopping_row", "term", "poll", "kill", "sigkill", "log",
             "remove", "stopped_row"}
Signalling == {"sigstop", "paused", "paused_row", "sigcont", "running", "running_row"}
Calling == Spawning \cup Stopping \cup Signalling

In(t, pcs) == op[t].pc \in pcs

OpType == [call : {"none", "spawn", "stop", "pause", "resume", "budget"},
           pc : {"idle"} \cup Calling, pid : Pids \cup {None}, gen : Nat]

Base ==
    /\ proc \in [Pids -> {"none", "running", "suspended", "zombie"}]
    /\ gen \in [Pids -> 0 .. MaxGen]
    /\ map \in [Pids -> Entry \cup {None}]
    /\ row \in [Pids -> States \cup {None}]
    /\ faults \in 0 .. MaxFaults /\ restarts \in 0 .. MaxRestarts

Shape ==
    /\ op \in [Threads -> OpType]
    /\ \A t \in Threads : /\ At(t, "idle") <=> op[t] = NoCall
                          /\ In(t, Calling) => Pid(t) \in Pids
                          /\ In(t, Spawning) <=> op[t].call = "spawn"

(* Of a process that was waited for, the entry knows. *)
Entries ==
    \A p \in Pids : map[p] # None =>
        /\ row[p] # None
        /\ map[p].gen <= gen[p]
        /\ ~map[p].reaped => map[p].gen = gen[p] /\ proc[p] # "none"
        /\ map[p].reaped => ~(map[p].gen = gen[p] /\ Alive(p))

(* A process that is being spawned is there, and tracked by nobody else. *)
Spawned(t) ==
    In(t, Spawning) =>
        /\ gen[Pid(t)] = op[t].gen /\ proc[Pid(t)] # "none"
        /\ map[Pid(t)] # None => map[Pid(t)].reaped
        /\ At(t, "track") => map[Pid(t)] = None /\ row[Pid(t)] # None

Dead(t) == ~(Alive(Pid(t)) /\ gen[Pid(t)] = op[t].gen)

(* A stop has the agent of the map in hand until that is dead. *)
Stopped(t) ==
    In(t, Stopping) =>
        /\ row[Pid(t)] # None
        /\ op[t].gen <= gen[Pid(t)]
        /\ IF map[Pid(t)] = None THEN Dead(t) ELSE map[Pid(t)].gen = op[t].gen
        /\ In(t, {"log", "remove", "stopped_row"}) => Dead(t)

Apart ==
    \A t, u \in Threads : t # u /\ Pid(t) = Pid(u) =>
        /\ ~(In(t, Spawning) /\ In(u, Spawning))
        /\ ~(In(t, Stopping) /\ At(u, "track"))

IInv ==
    /\ Base /\ Shape /\ Entries /\ Apart
    /\ \A t \in Threads : Spawned(t) /\ Stopped(t)

LEMMA TypeFromInv ==
    ASSUME IInv
    PROVE  TypeOK /\ StopKills
<1>1. TypeOK
  BY DEF IInv, Base, Shape, Entries, TypeOK
<1>2. StopKills
  BY DEF IInv, Stopped, StopKills, Dead, In, At, Stopping
<1> QED BY <1>1, <1>2

LEMMA InitInv ==
    ASSUME Init
    PROVE  IInv
<1>1. \A t \in Threads : op[t] = NoCall
  BY DEF Init
<1>2. NoCall \in OpType /\ NoCall.pc = "idle" /\ NoCall.call = "none"
  BY DEF NoCall, OpType
<1>3. \A t \in Threads : op[t].pc = "idle" /\ op[t].call = "none"
  BY <1>1, <1>2
<1>4. Base
  BY BoundsAssumption DEF Init, Base, States
<1>5. Shape
  BY <1>1, <1>2, <1>3 DEF Init, Shape, At, In, Calling, Spawning, Stopping, Signalling
<1>6. Entries
  BY DEF Init, Entries
<1>7. Apart /\ \A t \in Threads : Spawned(t) /\ Stopped(t)
  BY <1>3 DEF Apart, Spawned, Stopped, In, At, Spawning, Stopping
<1> QED BY <1>4, <1>5, <1>6, <1>7 DEF IInv

--------------------------------------------------------------------------------
(* Shapes of a step *)

(* The thread goes on to q, in the same part of its call. *)
Move(t, q) == /\ op' = [op EXCEPT ![t].pc = q]
              /\ \/ q \in Spawning /\ In(t, Spawning)
                 \/ q \in Stopping /\ In(t, Stopping)
                 \/ q \in Signalling /\ In(t, Signalling)
End(t) == op' = [op EXCEPT ![t] = NoCall]

LEMMA PcSets ==
    /\ "idle" \notin Calling
    /\ Spawning \cap Stopping = {} /\ Spawning \cap Signalling = {} /\ Stopping \cap Signalling = {}
    /\ Spawning \subseteq Calling /\ Stopping \subseteq Calling /\ Signalling \subseteq Calling
BY DEF Calling, Spawning, Stopping, Signalling

LEMMA MoveEffect ==
    ASSUME IInv, NEW t \in Threads, NEW q, Move(t, q)
    PROVE  /\ \A u \in Threads \ {t} : op'[u] = op[u]
           /\ op'[t].pc = q /\ op'[t].pid = op[t].pid /\ op'[t].gen = op[t].gen
           /\ op'[t].call = op[t].call
           /\ Shape'
<1>1. /\ \A u \in Threads \ {t} : op'[u] = op[u]
      /\ op'[t] = [op[t] EXCEPT !.pc = q]
  BY DEF Move, IInv, Shape
<1>2. op[t] \in OpType
  BY DEF IInv, Shape
<1>3. /\ op'[t].pc = q /\ op'[t].pid = op[t].pid /\ op'[t].gen = op[t].gen
      /\ op'[t].call = op[t].call
  BY <1>1, <1>2 DEF OpType
<1>4. q \in Calling /\ q # "idle" /\ In(t, Calling)
  BY PcSets DEF Move, In
<1>5. op' \in [Threads -> OpType]
  BY <1>2, <1>4 DEF Move, OpType, IInv, Shape
<1>6. op'[t] # NoCall
  BY <1>3, <1>4 DEF NoCall
<1>7. In(t, Spawning) <=> q \in Spawning
  BY PcSets DEF Move, In
<1>8. Shape'
  BY <1>1, <1>3, <1>4, <1>5, <1>6, <1>7 DEF IInv, Shape, At, In, Pid
<1> QED BY <1>1, <1>3, <1>8

LEMMA EndEffect ==
    ASSUME IInv, NEW t \in Threads, End(t)
    PROVE  /\ \A u \in Threads \ {t} : op'[u] = op[u]
           /\ op'[t].pc = "idle"
           /\ Shape'
<1>1. /\ \A u \in Threads \ {t} : op'[u] = op[u]
      /\ op'[t] = NoCall
  BY DEF End, IInv, Shape
<1>2. NoCall \in OpType /\ NoCall.pc = "idle" /\ NoCall.call # "spawn"
  BY DEF NoCall, OpType
<1>3. op' \in [Threads -> OpType]
  BY <1>2 DEF End, IInv, Shape
<1>4. ASSUME NEW u \in Threads
      PROVE  /\ At(u, "idle")' <=> op'[u] = NoCall
             /\ In(u, Calling)' => Pid(u)' \in Pids
             /\ In(u, Spawning)' <=> op'[u].call = "spawn"
  <2>1. CASE u = t
    BY <1>1, <1>2, <2>1, PcSets DEF At, In
  <2>2. CASE u # t
    <3>1. op'[u] = op[u]
      BY <1>1, <2>2
    <3>2. /\ At(u, "idle") <=> op[u] = NoCall
          /\ In(u, Calling) => Pid(u) \in Pids
          /\ In(u, Spawning) <=> op[u].call = "spawn"
      BY DEF IInv, Shape
    <3> QED BY <3>1, <3>2 DEF At, In, Pid
  <2> QED BY <2>1, <2>2
<1> QED BY <1>1, <1>2, <1>3, <1>4 DEF Shape

LEMMA MoveApart ==
    ASSUME IInv, NEW t \in Threads, NEW q, Move(t, q), q # "track"
    PROVE  Apart'
<1>1. /\ In(t, Spawning)' => In(t, Spawning)
      /\ In(t, Stopping)' => In(t, Stopping)
      /\ ~At(t, "track")'
  <2>1. op'[t].pc = q
    BY MoveEffect
  <2>2. /\ q \in Spawning => In(t, Spawning)
        /\ q \in Stopping => In(t, Stopping)
    BY PcSets DEF Move
  <2> QED BY <2>1, <2>2 DEF In, At
<1>2. \A u \in Threads \ {t} : op'[u] = op[u]
  BY MoveEffect
<1>3. op'[t].pid = op[t].pid
  BY MoveEffect
<1> QED BY <1>1, <1>2, <1>3 DEF IInv, Apart, In, At, Pid

LEMMA EndApart ==
    ASSUME IInv, NEW t \in Threads, End(t)
    PROVE  Apart'
<1>1. ~In(t, Spawning)' /\ ~In(t, Stopping)' /\ ~At(t, "track")'
  BY EndEffect, PcSets DEF In, At
<1>2. \A u \in Threads \ {t} : op'[u] = op[u]
  BY EndEffect
<1> QED BY <1>1, <1>2 DEF IInv, Apart, In, At, Pid

(* A step that makes, waits for, tracks and forgets no process, revives none,
   and removes no row. *)
Mild ==
    /\ UNCHANGED gen
    /\ \A p \in Pids :
          /\ proc'[p] = "none" <=> proc[p] = "none"
          /\ Alive(p)' => Alive(p)
          /\ map'[p] = None <=> map[p] = None
          /\ map[p] # None => map'[p].gen = map[p].gen /\ map'[p].reaped = map[p].reaped
          /\ row[p] # None => row'[p] # None

LEMMA MildEntries ==
    ASSUME IInv, Mild
    PROVE  Entries'
<1>1. ASSUME NEW p \in Pids, map'[p] # None
      PROVE  /\ row'[p] # None
             /\ map'[p].gen <= gen'[p]
             /\ ~map'[p].reaped => map'[p].gen = gen'[p] /\ proc'[p] # "none"
             /\ map'[p].reaped => ~(map'[p].gen = gen'[p] /\ Alive(p)')
  BY <1>1 DEF IInv, Entries, Mild
<1> QED BY <1>1 DEF Entries

LEMMA MildThread ==
    ASSUME IInv, Mild, NEW t \in Threads, op'[t].pid = op[t].pid, op'[t].gen = op[t].gen,
           In(t, Spawning)' => In(t, Spawning), At(t, "track")' => At(t, "track"),
           In(t, Stopping)' => In(t, Stopping),
           In(t, {"log", "remove", "stopped_row"})' => Dead(t)'
    PROVE  Spawned(t)' /\ Stopped(t)'
<1>1. In(t, Spawning)' \/ In(t, Stopping)' => Pid(t) \in Pids
  BY PcSets DEF IInv, Shape, In
<1> DEFINE p == Pid(t)
<1>2. Pid(t)' = p
  BY DEF Pid
<1>3. Spawned(t)'
  <2>1. SUFFICES ASSUME In(t, Spawning)'
                 PROVE  /\ gen'[p] = op'[t].gen /\ proc'[p] # "none"
                        /\ map'[p] # None => map'[p].reaped
                        /\ At(t, "track")' => map'[p] = None /\ row'[p] # None
    BY <1>2 DEF Spawned
  <2>2. p \in Pids /\ In(t, Spawning) /\ Spawned(t)
    BY <1>1, <2>1 DEF IInv
  <2>3. /\ gen[p] = op[t].gen /\ proc[p] # "none"
        /\ map[p] # None => map[p].reaped
        /\ At(t, "track") => map[p] = None /\ row[p] # None
    BY <2>2 DEF Spawned
  <2> QED BY <2>2, <2>3 DEF Mild
<1>4. Stopped(t)'
  <2>1. SUFFICES ASSUME In(t, Stopping)'
                 PROVE  /\ row'[p] # None
                        /\ op'[t].gen <= gen'[p]
                        /\ IF map'[p] = None THEN Dead(t)' ELSE map'[p].gen = op'[t].gen
                        /\ In(t, {"log", "remove", "stopped_row"})' => Dead(t)'
    BY <1>2 DEF Stopped
  <2>2. p \in Pids /\ In(t, Stopping) /\ Stopped(t)
    BY <1>1, <2>1 DEF IInv
  <2>3. /\ row[p] # None
        /\ op[t].gen <= gen[p]
        /\ IF map[p] = None THEN Dead(t) ELSE map[p].gen = op[t].gen
    BY <2>2 DEF Stopped
  <2>4. Dead(t) => Dead(t)'
    BY <1>2, <2>2 DEF Mild, Dead
  <2> QED BY <2>2, <2>3, <2>4 DEF Mild
<1> QED BY <1>3, <1>4

LEMMA MildOther ==
    ASSUME IInv, Mild, NEW t \in Threads, op'[t] = op[t]
    PROVE  Spawned(t)' /\ Stopped(t)'
<1>1. In(t, {"log", "remove", "stopped_row"}) => In(t, Stopping) /\ Pid(t) \in Pids
  BY PcSets DEF IInv, Shape, In, Stopping
<1>2. In(t, {"log", "remove", "stopped_row"}) => Dead(t)'
  BY <1>1 DEF IInv, Stopped, Mild, Dead, Pid
<1> QED BY <1>2, MildThread DEF In, At

LEMMA MildMove ==
    ASSUME IInv, Mild, Base', NEW t \in Threads, NEW q, Move(t, q), q # "track",
           q \in {"log", "remove", "stopped_row"} => Dead(t)'
    PROVE  IInv'
<1>1. Shape' /\ Apart' /\ Entries'
  BY MoveEffect, MoveApart, MildEntries
<1>2. \A u \in Threads \ {t} : Spawned(u)' /\ Stopped(u)'
  BY MoveEffect, MildOther
<1>3. Spawned(t)' /\ Stopped(t)'
  <2>1. /\ op'[t].pid = op[t].pid /\ op'[t].gen = op[t].gen /\ op'[t].pc = q
    BY MoveEffect
  <2>2. /\ In(t, Spawning)' => In(t, Spawning)
        /\ In(t, Stopping)' => In(t, Stopping)
        /\ ~At(t, "track")'
    BY <2>1, PcSets DEF Move, In, At
  <2>3. In(t, {"log", "remove", "stopped_row"})' => Dead(t)'
    BY <2>1 DEF In
  <2> QED BY <2>1, <2>2, <2>3, MildThread
<1> QED BY <1>1, <1>2, <1>3 DEF IInv

LEMMA MildEnd ==
    ASSUME IInv, Mild, Base', NEW t \in Threads, End(t)
    PROVE  IInv'
<1>1. Shape' /\ Apart' /\ Entries'
  BY EndEffect, EndApart, MildEntries
<1>2. \A u \in Threads \ {t} : Spawned(u)' /\ Stopped(u)'
  BY EndEffect, MildOther
<1>3. Spawned(t)' /\ Stopped(t)'
  BY EndEffect, PcSets DEF Spawned, Stopped, In
<1> QED BY <1>1, <1>2, <1>3 DEF IInv

LEMMA MildSame ==
    ASSUME IInv, Mild, Base', UNCHANGED op
    PROVE  IInv'
<1>1. Shape' /\ Apart'
  BY DEF IInv, Shape, Apart, At, In, Pid
<1>2. \A u \in Threads : Spawned(u)' /\ Stopped(u)'
  BY MildOther
<1> QED BY <1>1, <1>2, MildEntries DEF IInv

--------------------------------------------------------------------------------
(* The actions that are mild *)

LEMMA Unchanged ==
    ASSUME IInv, UNCHANGED <<proc, gen, map, row>>, faults' \in 0 .. MaxFaults, UNCHANGED restarts
    PROVE  Mild /\ Base'
BY DEF IInv, Base, Mild, Alive

LEMMA StopMove ==
    ASSUME NEW t \in Threads, NEW q \in Stopping, Goto(t, q), In(t, Stopping)
    PROVE  Move(t, q)
BY DEF Goto, Move

LEMMA SignalMove ==
    ASSUME NEW t \in Threads, NEW q \in Signalling, Goto(t, q), In(t, Signalling)
    PROVE  Move(t, q)
BY DEF Goto, Move

LEMMA BeginStep ==
    ASSUME IInv, NEW t \in Threads, NEW p \in Pids,
           NEW call \in {"stop", "pause", "resume", "budget"},
           NEW pc \in {"stopping", "sigstop", "sigcont"}, Begin(t, call, pc, p)
    PROVE  IInv'
<1>1. Mild /\ Base'
  BY Unchanged DEF Begin, os, IInv, Base
<1>2. CASE map[p] = None
  BY <1>1, <1>2, MildEnd DEF Begin, Return, End
<1>3. CASE map[p] # None
  <2> DEFINE new == [call |-> call, pc |-> pc, pid |-> p, gen |-> map[p].gen]
  <2>1. op' = [op EXCEPT ![t] = new]
    BY <1>3 DEF Begin
  <2>2. op'[t] = new /\ \A u \in Threads \ {t} : op'[u] = op[u]
    BY <2>1 DEF IInv, Shape
  <2>3. map[p].gen \in Nat
    BY <1>3 DEF IInv, Base, Entry
  <2>4. pc \in Calling /\ pc \notin Spawning
    BY DEF Calling, Spawning, Stopping, Signalling
  <2>5. new \in OpType
    BY <2>3, <2>4 DEF OpType
  <2>6. op' \in [Threads -> OpType]
    BY <2>1, <2>5 DEF IInv, Shape
  <2>7. ASSUME NEW u \in Threads
        PROVE  /\ At(u, "idle")' <=> op'[u] = NoCall
               /\ In(u, Calling)' => Pid(u)' \in Pids
               /\ In(u, Spawning)' <=> op'[u].call = "spawn"
    <3>1. CASE u = t
      BY <2>2, <2>4, <3>1 DEF At, In, Pid, NoCall
    <3>2. CASE u # t
      <4>1. op'[u] = op[u]
        BY <2>2, <3>2
      <4>2. /\ At(u, "idle") <=> op[u] = NoCall
            /\ In(u, Calling) => Pid(u) \in Pids
            /\ In(u, Spawning) <=> op[u].call = "spawn"
        BY DEF IInv, Shape
      <4> QED BY <4>1, <4>2 DEF At, In, Pid
    <3> QED BY <3>1, <3>2
  <2>8. Shape'
    BY <2>6, <2>7 DEF Shape
  <2>9. Apart'
    <3>1. ~In(t, Spawning)' /\ Pid(t)' = p /\ ~At(t, "track")'
      BY <2>2, <2>4 DEF In, Pid, At, Spawning
    <3>2. \A u \in Threads \ {t} : At(u, "track")' => Pid(u)' # p
      BY <1>3, <2>2 DEF IInv, Spawned, At, In, Pid, Spawning
    <3> QED BY <2>2, <3>1, <3>2 DEF IInv, Apart, In, At, Pid
  <2>10. Spawned(t)' /\ Stopped(t)'
    <3>1. Spawned(t)'
      BY <2>2, <2>4 DEF Spawned, In
    <3>2. Pid(t)' = p /\ op'[t].gen = map[p].gen
      BY <2>2 DEF Pid
    <3>3. row[p] # None /\ map[p].gen <= gen[p]
      BY <1>3 DEF IInv, Entries
    <3>4. ~In(t, {"log", "remove", "stopped_row"})'
      <4>1. op'[t].pc = pc
        BY <2>2
      <4> QED BY <4>1 DEF In
    <3>5. row'[p] # None /\ map'[p] # None /\ map'[p].gen = map[p].gen /\ gen'[p] = gen[p]
      BY <1>1, <1>3, <3>3 DEF Mild
    <3>6. Stopped(t)'
      BY <3>2, <3>3, <3>4, <3>5 DEF Stopped
    <3> QED BY <3>1, <3>6
  <2>11. \A u \in Threads \ {t} : Spawned(u)' /\ Stopped(u)'
    BY <1>1, <2>2, MildOther
  <2> QED BY <1>1, <2>8, <2>9, <2>10, <2>11, MildEntries DEF IInv
<1> QED BY <1>2, <1>3

LEMMA UpdateMapStep ==
    ASSUME IInv, NEW t \in Threads, NEW state \in States, NEW q, UpdateMap(t, state, q),
           In(t, Calling), Move(t, q), q \notin {"track", "log", "remove", "stopped_row"}
    PROVE  IInv'
<1>1. Pid(t) \in Pids /\ UNCHANGED <<proc, gen, row, faults, restarts>>
  BY DEF IInv, Shape, UpdateMap, os
<1>2. \A p \in Pids : map'[p] = (IF p = Pid(t) /\ map[p] # None
                                 THEN [map[p] EXCEPT !.state = state] ELSE map[p])
  BY <1>1 DEF UpdateMap, IInv, Base
<1>3. \A e \in Entry : /\ [e EXCEPT !.state = state] \in Entry
                       /\ [e EXCEPT !.state = state].gen = e.gen
                       /\ [e EXCEPT !.state = state].reaped = e.reaped
  BY DEF Entry
<1>4. \A p \in Pids : map[p] # None => map[p] \in Entry
  BY DEF IInv, Base
<1>5. map' \in [Pids -> Entry \cup {None}]
  BY <1>1, <1>2, <1>3, <1>4 DEF UpdateMap, IInv, Base
<1>6. Base'
  BY <1>1, <1>5 DEF IInv, Base
<1>7. Mild
  <2>1. \A p \in Pids : /\ map'[p] = None <=> map[p] = None
                        /\ map[p] # None => map'[p].gen = map[p].gen /\ map'[p].reaped = map[p].reaped
    <3>1. ASSUME NEW p \in Pids, map[p] # None
          PROVE  map'[p] # None /\ map'[p].gen = map[p].gen /\ map'[p].reaped = map[p].reaped
      <4>1. map[p] \in Entry
        BY <1>4, <3>1
      <4>2. map'[p] = map[p] \/ map'[p] = [map[p] EXCEPT !.state = state]
        BY <1>2
      <4> QED BY <1>3, <3>1, <4>1, <4>2, NoneAssumption
    <3> QED BY <1>2, <3>1
  <2> QED BY <1>1, <2>1 DEF Mild, Alive
<1> QED BY <1>6, <1>7, MildMove

LEMMA UpdateRowMild ==
    ASSUME IInv, NEW t \in Threads, NEW state \in States, NEW q, UpdateRow(t, state, q),
           In(t, Calling)
    PROVE  Mild /\ Base'
<1>1. Pid(t) \in Pids /\ UNCHANGED <<proc, gen, map, faults, restarts>>
  BY DEF IInv, Shape, UpdateRow, os
<1>2. \A p \in Pids : row'[p] = (IF p = Pid(t) /\ row[p] # None THEN state ELSE row[p])
  BY <1>1 DEF UpdateRow, IInv, Base
<1>3. row' \in [Pids -> States \cup {None}]
  BY <1>1 DEF UpdateRow, IInv, Base
<1> QED BY <1>1, <1>2, <1>3, NoneAssumption DEF Mild, Alive, IInv, Base

(* What a signal does to a process. *)
LEMMA SignalMild ==
    ASSUME IInv, NEW t \in Threads, Pid(t) \in Pids,
           NEW s \in {"running", "suspended", "zombie"},
           s \in {"running", "suspended"} => proc[Pid(t)] # "none",
           proc' = [proc EXCEPT ![Pid(t)] = IF @ = "zombie" THEN @ ELSE s],
           proc[Pid(t)] # "none",
           UNCHANGED <<gen, map, row, faults, restarts>>
    PROVE  Mild /\ Base'
<1>1. \A p \in Pids : proc'[p] = (IF p = Pid(t) /\ proc[p] # "zombie" THEN s ELSE proc[p])
  BY DEF IInv, Base
<1>2. proc' \in [Pids -> {"none", "running", "suspended", "zombie"}]
  BY DEF IInv, Base
<1> QED BY <1>1, <1>2 DEF Mild, Base, IInv, Alive

LEMMA SignalStep ==
    ASSUME IInv, NEW t \in Threads, NEW s \in {"running", "suspended", "zombie"},
           NEW q, Move(t, q), q # "track",
           proc' = [proc EXCEPT ![Pid(t)] = IF @ = "zombie" THEN @ ELSE s],
           proc[Pid(t)] # "none", In(t, Calling), UNCHANGED <<gen, map, row, faults, restarts>>,
           q \in {"log", "remove", "stopped_row"} => Dead(t)'
    PROVE  IInv'
<1>1. Pid(t) \in Pids
  BY DEF IInv, Shape
<1>2. Mild /\ Base'
  BY <1>1, SignalMild
<1> QED BY <1>2, MildMove

LEMMA SignalFails ==
    ASSUME IInv, NEW t \in Threads, Return(t, "err"), UNCHANGED <<proc, gen, map, row, faults, restarts>>
    PROVE  IInv'
<1>1. Mild /\ Base'
  BY Unchanged DEF IInv, Base
<1> QED BY <1>1, MildEnd DEF Return, End

LEMMA StopSteps ==
    ASSUME IInv, NEW t \in Threads,
           \/ MarkStopping(t) \/ RecordStopping(t) \/ SendTerm(t) \/ Deadline(t)
           \/ GetChild(t) \/ SendKill(t) \/ LogForced(t) \/ RecordStopped(t)
    PROVE  IInv'
<1>1. CASE MarkStopping(t)
  <2>1. In(t, Stopping) /\ "stopping_row" \in Stopping
    BY <1>1 DEF MarkStopping, At, In, Stopping
  <2>2. UpdateMap(t, "Stopping", "stopping_row") /\ "Stopping" \in States
    BY <1>1 DEF MarkStopping, States
  <2>3. Move(t, "stopping_row")
    BY <2>1, <2>2, StopMove DEF UpdateMap
  <2> QED BY <2>1, <2>2, <2>3, PcSets, UpdateMapStep DEF In
<1>2. CASE RecordStopping(t)
  <2>1. In(t, Stopping) /\ "term" \in Stopping
    BY <1>2 DEF RecordStopping, At, In, Stopping
  <2>2. UpdateRow(t, "Stopping", "term") /\ "Stopping" \in States
    BY <1>2 DEF RecordStopping, States
  <2>3. Move(t, "term")
    BY <2>1, <2>2, StopMove DEF UpdateRow
  <2>4. Mild /\ Base'
    BY <2>1, <2>2, PcSets, UpdateRowMild DEF In
  <2> QED BY <2>3, <2>4, MildMove
<1>3. CASE SendTerm(t)
  <2>1. In(t, Stopping) /\ "poll" \in Stopping /\ In(t, Calling)
    BY <1>3, PcSets DEF SendTerm, At, In, Stopping
  <2>2. CASE proc[Pid(t)] = "none"
    BY <1>3, <2>2, SignalFails DEF SendTerm, Signal
  <2>3. CASE proc[Pid(t)] # "none"
    <3>1. proc' = proc /\ Goto(t, "poll") /\ UNCHANGED <<gen, map, row, faults, restarts>>
      BY <1>3, <2>3 DEF SendTerm, Signal, IInv, Base
    <3>2. Mild /\ Base'
      BY <3>1, Unchanged DEF IInv, Base
    <3> QED BY <2>1, <3>1, <3>2, StopMove, MildMove
  <2> QED BY <2>2, <2>3
<1>4. CASE Deadline(t)
  <2>1. In(t, Stopping) /\ "kill" \in Stopping
    BY <1>4 DEF Deadline, At, In, Stopping
  <2>2. Mild /\ Base'
    BY <1>4, Unchanged DEF Deadline, os, IInv, Base
  <2> QED BY <1>4, <2>1, <2>2, StopMove, MildMove DEF Deadline
<1>5. CASE GetChild(t)
  <2> DEFINE q == IF map[Pid(t)] = None \/ map[Pid(t)].reaped THEN "log" ELSE "sigkill"
  <2>1. In(t, Stopping) /\ q \in Stopping /\ Pid(t) \in Pids
    BY <1>5, PcSets DEF GetChild, At, In, Stopping, IInv, Shape
  <2>2. Mild /\ Base'
    BY <1>5, Unchanged DEF GetChild, os, IInv, Base
  <2>3. map[Pid(t)] = None \/ map[Pid(t)].reaped => Dead(t)
    BY <2>1 DEF IInv, Stopped, Entries, Dead
  <2>4. op'[t].pid = op[t].pid /\ op'[t].gen = op[t].gen
    <3>1. Move(t, q)
      BY <1>5, <2>1, StopMove DEF GetChild
    <3> QED BY <3>1, MoveEffect
  <2>5. Dead(t) => Dead(t)'
    BY <2>1, <2>2, <2>4 DEF Mild, Dead, Pid
  <2>6. q \in {"log", "remove", "stopped_row"} => Dead(t)'
    BY <2>3, <2>5
  <2> QED BY <1>5, <2>1, <2>2, <2>6, StopMove, MildMove DEF GetChild
<1>6. CASE SendKill(t)
  <2>1. In(t, Stopping) /\ "log" \in Stopping /\ In(t, Calling) /\ Pid(t) \in Pids
    BY <1>6, PcSets DEF SendKill, At, In, Stopping, IInv, Shape
  <2>2. UNCHANGED <<gen, map, row, faults, restarts>> /\ Goto(t, "log")
    BY <1>6 DEF SendKill, Signal
  <2>3. Move(t, "log")
    BY <2>1, <2>2, StopMove
  <2>4. Pid(t)' = Pid(t)
    BY <2>3, MoveEffect DEF Pid
  <2>5. CASE proc[Pid(t)] = "none"
    <3>1. UNCHANGED proc
      BY <1>6, <2>5 DEF SendKill
    <3>2. Mild /\ Base'
      BY <2>2, <3>1, Unchanged DEF IInv, Base
    <3>3. Dead(t)'
      BY <2>4, <2>5, <3>1 DEF Dead, Alive
    <3> QED BY <2>3, <3>2, <3>3, MildMove
  <2>6. CASE proc[Pid(t)] # "none"
    <3>1. proc' = [proc EXCEPT ![Pid(t)] = IF @ = "zombie" THEN @ ELSE "zombie"]
      BY <1>6, <2>6 DEF SendKill, Signal
    <3>2. proc'[Pid(t)] = "zombie"
      BY <2>1, <3>1 DEF IInv, Base
    <3>3. Dead(t)'
      BY <2>4, <3>2 DEF Dead, Alive
    <3> QED BY <2>1, <2>2, <2>3, <2>6, <3>1, <3>3, SignalStep
  <2> QED BY <2>5, <2>6
<1>7. CASE LogForced(t)
  <2>1. In(t, Stopping) /\ "remove" \in Stopping /\ In(t, {"log", "remove", "stopped_row"})
        /\ Pid(t) \in Pids
    BY <1>7, PcSets DEF LogForced, At, In, Stopping, IInv, Shape
  <2>2. Mild /\ Base'
    BY <1>7, Unchanged DEF LogForced, os, IInv, Base
  <2>3. Move(t, "remove")
    BY <1>7, <2>1, StopMove DEF LogForced
  <2>4. Dead(t)
    BY <2>1 DEF IInv, Stopped
  <2>5. Pid(t)' = Pid(t) /\ op'[t].gen = op[t].gen
    BY <2>3, MoveEffect DEF Pid
  <2>6. Dead(t)'
    BY <2>1, <2>2, <2>4, <2>5 DEF Mild, Dead
  <2> QED BY <2>2, <2>3, <2>6, MildMove
<1>8. CASE RecordStopped(t)
  <2>1. In(t, Calling)
    BY <1>8, PcSets DEF RecordStopped, At, In, Stopping
  <2>2. Mild /\ Base'
    BY <1>8, <2>1, UpdateRowMild DEF RecordStopped, States
  <2> QED BY <1>8, <2>2, MildEnd DEF RecordStopped, UpdateRow, Return, End
<1> QED BY <1>1, <1>2, <1>3, <1>4, <1>5, <1>6, <1>7, <1>8

LEMMA PauseSteps ==
    ASSUME IInv, NEW t \in Threads, PauseStep(t)
    PROVE  IInv'
<1>1. ASSUME NEW pc \in Signalling, At(t, pc)
      PROVE  In(t, Signalling) /\ In(t, Calling)
  BY <1>1, PcSets DEF At, In
<1>2. {"paused", "paused_row", "running", "running_row", "sigstop", "sigcont"} \subseteq Signalling
  BY DEF Signalling
<1>3. CASE SendStop(t)
  <2>1. In(t, Signalling) /\ In(t, Calling)
    BY <1>1, <1>2, <1>3 DEF SendStop
  <2>2. CASE proc[Pid(t)] = "none"
    BY <1>3, <2>2, SignalFails DEF SendStop, Signal
  <2>3. CASE proc[Pid(t)] # "none"
    <3>1. /\ proc' = [proc EXCEPT ![Pid(t)] = IF @ = "zombie" THEN @ ELSE "suspended"]
          /\ Goto(t, "paused") /\ UNCHANGED <<gen, map, row, faults, restarts>>
      BY <1>3, <2>3 DEF SendStop, Signal
    <3>2. Move(t, "paused")
      BY <1>2, <2>1, <3>1, SignalMove
    <3> QED BY <2>1, <2>3, <3>1, <3>2, SignalStep
  <2> QED BY <2>2, <2>3
<1>4. CASE SendCont(t)
  <2>1. In(t, Signalling) /\ In(t, Calling)
    BY <1>1, <1>2, <1>4 DEF SendCont
  <2>2. CASE proc[Pid(t)] = "none"
    BY <1>4, <2>2, SignalFails DEF SendCont, Signal
  <2>3. CASE proc[Pid(t)] # "none"
    <3>1. /\ proc' = [proc EXCEPT ![Pid(t)] = IF @ = "zombie" THEN @ ELSE "running"]
          /\ Goto(t, "running") /\ UNCHANGED <<gen, map, row, faults, restarts>>
      BY <1>4, <2>3 DEF SendCont, Signal
    <3>2. Move(t, "running")
      BY <1>2, <2>1, <3>1, SignalMove
    <3> QED BY <2>1, <2>3, <3>1, <3>2, SignalStep
  <2> QED BY <2>2, <2>3
<1>5. CASE MarkPaused(t)
  <2>1. In(t, Signalling) /\ In(t, Calling)
    BY <1>1, <1>2, <1>5 DEF MarkPaused
  <2>2. UpdateMap(t, "Paused", "paused_row") /\ "Paused" \in States
    BY <1>5 DEF MarkPaused, States
  <2>3. Move(t, "paused_row")
    BY <1>2, <2>1, <2>2, SignalMove DEF UpdateMap
  <2> QED BY <2>1, <2>2, <2>3, UpdateMapStep
<1>6. CASE MarkRunning(t)
  <2>1. In(t, Signalling) /\ In(t, Calling)
    BY <1>1, <1>2, <1>6 DEF MarkRunning
  <2>2. UpdateMap(t, "Running", "running_row") /\ "Running" \in States
    BY <1>6 DEF MarkRunning, States
  <2>3. Move(t, "running_row")
    BY <1>2, <2>1, <2>2, SignalMove DEF UpdateMap
  <2> QED BY <2>1, <2>2, <2>3, UpdateMapStep
<1>7. CASE RecordPaused(t) \/ RecordRunning(t)
  <2>1. In(t, Calling)
    BY <1>1, <1>2, <1>7 DEF RecordPaused, RecordRunning
  <2>2. PICK state \in States : UpdateRow(t, state, "return")
    BY <1>7 DEF RecordPaused, RecordRunning, States
  <2>3. Mild /\ Base'
    BY <2>1, <2>2, UpdateRowMild
  <2> QED BY <2>2, <2>3, MildEnd DEF UpdateRow, Return, End
<1> QED BY <1>3, <1>4, <1>5, <1>6, <1>7 DEF PauseStep

LEMMA FaultStep ==
    ASSUME IInv, NEW t \in Threads, Fault(t)
    PROVE  IInv'
<1>1. faults' \in 0 .. MaxFaults
  <2>1. faults \in 0 .. MaxFaults
    BY DEF IInv, Base
  <2>2. faults < MaxFaults /\ faults' = faults + 1
    BY DEF Fault, StatementFails
  <2> QED BY <2>1, <2>2, BoundsAssumption
<1>2. Mild /\ Base'
  BY <1>1, Unchanged DEF Fault, StatementFails, os
<1> QED BY <1>2, MildEnd DEF Fault, StatementFails, Return, End

LEMMA ExitStep ==
    ASSUME IInv, NEW p \in Pids, Exit(p)
    PROVE  IInv'
<1>1. \A r \in Pids : proc'[r] = (IF r = p THEN "zombie" ELSE proc[r])
  BY DEF Exit, IInv, Base
<1>2. Mild
  BY <1>1 DEF Mild, Exit, Alive
<1>3. Base'
  BY DEF Exit, IInv, Base
<1> QED BY <1>2, <1>3, MildSame DEF Exit

--------------------------------------------------------------------------------
(* The actions that are not *)

LEMMA ReapOrphanStep ==
    ASSUME IInv, NEW p \in Pids, ReapOrphan(p)
    PROVE  IInv'
<1>1. /\ \A r \in Pids : proc'[r] = (IF r = p THEN "none" ELSE proc[r])
      /\ UNCHANGED <<gen, map, row, op, faults, restarts>>
  BY DEF ReapOrphan, IInv, Base
<1>2. Base' /\ Shape' /\ Apart'
  BY <1>1 DEF ReapOrphan, IInv, Base, Shape, Apart, At, In, Pid
<1>3. map[p] = None \/ map[p].gen # gen[p]
  BY DEF ReapOrphan, Held
<1>4. Entries'
  BY <1>1, <1>3 DEF IInv, Entries, Alive
<1>5. ASSUME NEW t \in Threads
      PROVE  Spawned(t)' /\ Stopped(t)'
  <2>1. Pid(t)' = Pid(t) /\ In(t, Spawning)' = In(t, Spawning) /\ In(t, Stopping)' = In(t, Stopping)
    BY <1>1 DEF Pid, In
  <2>2. In(t, Spawning) => Pid(t) \in Pids /\ Pid(t) # p
    <3>1. ASSUME In(t, Spawning)
          PROVE  op[t].call = "spawn" /\ gen[Pid(t)] = op[t].gen /\ Pid(t) \in Pids
      BY <3>1, PcSets DEF IInv, Shape, Spawned, In
    <3> QED BY <3>1 DEF ReapOrphan, Held
  <2>3. Spawned(t)'
    BY <1>1, <2>1, <2>2 DEF IInv, Spawned, At
  <2>4. In(t, Stopping) => Pid(t) \in Pids
    BY PcSets DEF IInv, Shape, In
  <2>5. In(t, Stopping) /\ Dead(t) => Dead(t)'
    BY <1>1, <2>1, <2>4 DEF Dead, Alive
  <2>6. Stopped(t)'
    BY <1>1, <2>1, <2>5 DEF IInv, Stopped, In
  <2> QED BY <2>3, <2>6
<1> QED BY <1>2, <1>4, <1>5 DEF IInv

(* A free pid is given to a process. *)
Given(p) ==
    /\ proc[p] = "none" /\ gen[p] < MaxGen
    /\ proc' = [proc EXCEPT ![p] = "running"]
    /\ gen' = [gen EXCEPT ![p] = @ + 1]
    /\ UNCHANGED <<map, row, faults, restarts>>

LEMMA GivenEffect ==
    ASSUME IInv, NEW p \in Pids, Given(p)
    PROVE  /\ Base' /\ Entries'
           /\ gen'[p] = gen[p] + 1 /\ proc'[p] = "running"
           /\ map'[p] # None => map'[p].reaped
           /\ \A t \in Threads : op'[t] = op[t] => Spawned(t)' /\ Stopped(t)'
           /\ \A t \in Threads : In(t, Spawning) => Pid(t) # p
<1>1. /\ \A r \in Pids : /\ proc'[r] = (IF r = p THEN "running" ELSE proc[r])
                         /\ gen'[r] = (IF r = p THEN gen[r] + 1 ELSE gen[r])
      /\ UNCHANGED <<map, row, faults, restarts>>
  BY DEF Given, IInv, Base
<1>2. \A r \in Pids : gen[r] \in 0 .. MaxGen
  BY DEF IInv, Base
<1>3. Base'
  <2>1. gen' \in [Pids -> 0 .. MaxGen]
    BY <1>1, <1>2, BoundsAssumption DEF Given, IInv, Base
  <2> QED BY <1>1, <2>1 DEF Given, IInv, Base
<1>4. map[p] # None => map[p].reaped /\ map[p].gen <= gen[p] /\ map[p].gen \in Nat
  BY DEF Given, IInv, Entries, Base, Entry
<1>5. Entries'
  <2>1. ASSUME NEW r \in Pids, map'[r] # None
        PROVE  /\ row'[r] # None
               /\ map'[r].gen <= gen'[r]
               /\ ~map'[r].reaped => map'[r].gen = gen'[r] /\ proc'[r] # "none"
               /\ map'[r].reaped => ~(map'[r].gen = gen'[r] /\ Alive(r)')
    <3>1. CASE r = p
      BY <1>1, <1>2, <1>4, <2>1, <3>1 DEF IInv, Entries
    <3>2. CASE r # p
      BY <1>1, <2>1, <3>2 DEF IInv, Entries, Alive
    <3> QED BY <3>1, <3>2
  <2> QED BY <2>1 DEF Entries
<1>6. ASSUME NEW t \in Threads, In(t, Spawning)
      PROVE  Pid(t) # p /\ Pid(t) \in Pids
  BY <1>6, PcSets DEF Given, IInv, Shape, Spawned, In
<1>7. ASSUME NEW t \in Threads, op'[t] = op[t]
      PROVE  Spawned(t)' /\ Stopped(t)'
  <2>1. Pid(t)' = Pid(t) /\ In(t, Spawning)' = In(t, Spawning) /\ In(t, Stopping)' = In(t, Stopping)
    BY <1>7 DEF Pid, In
  <2>2. Spawned(t)'
    BY <1>1, <1>6, <1>7, <2>1 DEF IInv, Spawned, At
  <2>3. In(t, Stopping) => Pid(t) \in Pids
    BY PcSets DEF IInv, Shape, In
  <2>4. op[t].gen \in Nat
    BY DEF IInv, Shape, OpType
  <2>5. ASSUME In(t, Stopping), Dead(t)
        PROVE  Dead(t)'
    <3>1. op[t].gen <= gen[Pid(t)]
      BY <2>5 DEF IInv, Stopped
    <3> QED BY <1>1, <1>2, <1>7, <2>1, <2>3, <2>4, <2>5, <3>1 DEF Dead, Alive
  <2>6. ASSUME In(t, Stopping)
        PROVE  op'[t].gen <= gen'[Pid(t)]
    <3>1. op[t].gen <= gen[Pid(t)] /\ gen[Pid(t)] \in Nat
      <4>1. gen[Pid(t)] \in 0 .. MaxGen
        BY <1>2, <2>3, <2>6
      <4>2. op[t].gen <= gen[Pid(t)]
        BY <2>6 DEF IInv, Stopped
      <4> QED BY <4>1, <4>2, BoundsAssumption
    <3>2. gen'[Pid(t)] = gen[Pid(t)] \/ gen'[Pid(t)] = gen[Pid(t)] + 1
      BY <1>1, <2>3, <2>6
    <3> QED BY <1>7, <2>4, <3>1, <3>2
  <2>7. Stopped(t)'
    BY <1>1, <1>7, <2>1, <2>5, <2>6 DEF IInv, Stopped, In
  <2> QED BY <2>2, <2>7
<1> QED BY <1>1, <1>3, <1>4, <1>5, <1>6, <1>7

LEMMA OtherProcessStep ==
    ASSUME IInv, NEW p \in Pids, OtherProcess(p)
    PROVE  IInv'
<1>1. Given(p) /\ UNCHANGED op
  BY DEF OtherProcess, Given
<1>2. Shape' /\ Apart'
  BY <1>1 DEF IInv, Shape, Apart, At, In, Pid
<1> QED BY <1>1, <1>2, GivenEffect DEF IInv

LEMMA SpawnsStep ==
    ASSUME IInv, NEW t \in Threads, Spawn(t)
    PROVE  IInv'
<1>1. PICK p \in Pids :
          /\ Given(p)
          /\ op' = [op EXCEPT ![t] = [call |-> "spawn", pc |-> "insert", pid |-> p,
                                      gen |-> gen'[p]]]
  BY DEF Spawn, Given
<1> DEFINE new == [call |-> "spawn", pc |-> "insert", pid |-> p, gen |-> gen'[p]]
<1>2. op'[t] = new /\ \A u \in Threads \ {t} : op'[u] = op[u]
  BY <1>1 DEF IInv, Shape
<1>3. "insert" \in Spawning /\ "insert" \in Calling /\ "insert" \notin Stopping
  BY DEF Spawning, Calling, Stopping
<1>4. gen'[p] \in Nat
  BY <1>1, GivenEffect, BoundsAssumption DEF Base
<1>5. new \in OpType
  BY <1>3, <1>4 DEF OpType
<1>6. op' \in [Threads -> OpType]
  BY <1>1, <1>5 DEF IInv, Shape
<1>7. Shape'
  <2>1. ASSUME NEW u \in Threads
        PROVE  /\ At(u, "idle")' <=> op'[u] = NoCall
               /\ In(u, Calling)' => Pid(u)' \in Pids
               /\ In(u, Spawning)' <=> op'[u].call = "spawn"
    <3>1. CASE u = t
      BY <1>2, <1>3, <3>1 DEF At, In, Pid, NoCall
    <3>2. CASE u # t
      <4>1. op'[u] = op[u]
        BY <1>2, <3>2
      <4>2. /\ At(u, "idle") <=> op[u] = NoCall
            /\ In(u, Calling) => Pid(u) \in Pids
            /\ In(u, Spawning) <=> op[u].call = "spawn"
        BY DEF IInv, Shape
      <4> QED BY <4>1, <4>2 DEF At, In, Pid
    <3> QED BY <3>1, <3>2
  <2> QED BY <1>6, <2>1 DEF Shape
<1>8. Pid(t)' = p /\ ~In(t, Stopping)' /\ ~At(t, "track")'
  BY <1>2, <1>3 DEF Pid, In, At
<1>9. Apart'
  <2>1. \A u \in Threads \ {t} : /\ In(u, Spawning)' => Pid(u)' # p
                                 /\ At(u, "track")' => In(u, Spawning)'
    BY <1>1, <1>2, GivenEffect DEF In, Pid, At, Spawning
  <2> QED BY <1>2, <1>8, <2>1 DEF IInv, Apart, In, At, Pid
<1>10. Spawned(t)' /\ Stopped(t)'
  <2>1. proc'[p] = "running" /\ (map'[p] # None => map'[p].reaped) /\ op'[t].gen = gen'[p]
    BY <1>1, <1>2, GivenEffect
  <2> QED BY <1>8, <2>1 DEF Spawned, Stopped
<1>11. \A u \in Threads \ {t} : Spawned(u)' /\ Stopped(u)'
  BY <1>1, <1>2, GivenEffect
<1> QED BY <1>1, <1>7, <1>9, <1>10, <1>11, GivenEffect DEF IInv

LEMMA SpawnInsertStep ==
    ASSUME IInv, NEW t \in Threads, SpawnInsert(t)
    PROVE  IInv'
<1>1. In(t, Spawning) /\ Pid(t) \in Pids
  BY PcSets DEF SpawnInsert, At, In, Spawning, IInv, Shape
<1>2. CASE row[Pid(t)] # None
  <2>1. End(t) /\ UNCHANGED <<proc, gen, map, row, faults, restarts>>
    BY <1>2 DEF SpawnInsert, Return, End, os
  <2>2. Mild /\ Base'
    BY <2>1, Unchanged DEF IInv, Base
  <2> QED BY <2>1, <2>2, MildEnd
<1>3. CASE row[Pid(t)] = None
  <2>1. /\ row' = [row EXCEPT ![Pid(t)] = "Running"] /\ Goto(t, "track")
        /\ UNCHANGED <<proc, gen, map, faults, restarts>>
    BY <1>3 DEF SpawnInsert, os
  <2>2. \A p \in Pids : row'[p] = (IF p = Pid(t) THEN "Running" ELSE row[p])
    BY <2>1 DEF IInv, Base
  <2>3. Base'
    BY <1>1, <2>1 DEF IInv, Base, States
  <2>4. "Running" # None
    BY NoneAssumption DEF States
  <2>5. Mild
    BY <2>1, <2>2, <2>4 DEF Mild, Alive
  <2>6. Move(t, "track")
    BY <1>1, <2>1 DEF Move, Goto, Spawning
  <2>7. /\ \A u \in Threads \ {t} : op'[u] = op[u]
        /\ op'[t].pc = "track" /\ op'[t].pid = op[t].pid /\ op'[t].gen = op[t].gen
        /\ Shape'
    BY <2>6, MoveEffect
  <2>8. \A u \in Threads \ {t} : Spawned(u)' /\ Stopped(u)'
    BY <2>5, <2>7, MildOther
  <2>9. Pid(t)' = Pid(t)
    BY <2>7 DEF Pid
  <2>10. Spawned(t)'
    <3>1. map[Pid(t)] = None
      BY <1>1, <1>3 DEF IInv, Entries
    <3>2. gen[Pid(t)] = op[t].gen /\ proc[Pid(t)] # "none"
      BY <1>1 DEF IInv, Spawned
    <3> QED BY <1>1, <2>1, <2>2, <2>4, <2>7, <2>9, <3>1, <3>2 DEF Spawned
  <2>11. Stopped(t)'
    BY <2>7 DEF Stopped, In, Stopping
  <2>12. Apart'
    <3>1. ~In(t, Stopping)'
      BY <2>7 DEF In, Stopping
    <3>2. \A u \in Threads : In(u, Stopping) => row[Pid(u)] # None
      BY DEF IInv, Stopped
    <3>3. \A u \in Threads \ {t} : Pid(u)' = Pid(t) => ~In(u, Stopping)' /\ ~In(u, Spawning)'
      BY <1>1, <1>3, <2>7, <3>2 DEF IInv, Apart, In, Pid
    <3> QED BY <2>7, <2>9, <3>1, <3>3 DEF IInv, Apart, In, At, Pid
  <2> QED BY <2>3, <2>5, <2>7, <2>8, <2>10, <2>11, <2>12, MildEntries DEF IInv
<1> QED BY <1>2, <1>3

LEMMA SpawnTrackStep ==
    ASSUME IInv, NEW t \in Threads, SpawnTrack(t)
    PROVE  IInv'
<1> DEFINE p == Pid(t)
           new == [state |-> "Running", gen |-> op[t].gen, reaped |-> FALSE]
<1>1. In(t, Spawning) /\ At(t, "track") /\ p \in Pids
  BY PcSets DEF SpawnTrack, At, In, Spawning, IInv, Shape
<1>2. End(t) /\ UNCHANGED <<proc, gen, row, faults, restarts>>
  BY DEF SpawnTrack, Return, End, os
<1>3. \A r \in Pids : map'[r] = (IF r = p THEN new ELSE map[r])
  BY DEF SpawnTrack, IInv, Base
<1>4. new \in Entry
  BY DEF IInv, Shape, OpType, Entry, States
<1>5. map' \in [Pids -> Entry \cup {None}]
  BY <1>4 DEF SpawnTrack, IInv, Base
<1>6. Base'
  BY <1>2, <1>5 DEF IInv, Base
<1>7. row[p] # None /\ gen[p] = op[t].gen /\ proc[p] # "none" /\ gen[p] \in Nat
  BY <1>1, BoundsAssumption DEF IInv, Spawned, Base
<1>8. Entries'
  <2>1. ASSUME NEW r \in Pids, map'[r] # None
        PROVE  /\ row'[r] # None
               /\ map'[r].gen <= gen'[r]
               /\ ~map'[r].reaped => map'[r].gen = gen'[r] /\ proc'[r] # "none"
               /\ map'[r].reaped => ~(map'[r].gen = gen'[r] /\ Alive(r)')
    <3>1. CASE r = p
      BY <1>2, <1>3, <1>7, <3>1
    <3>2. CASE r # p
      BY <1>2, <1>3, <2>1, <3>2 DEF IInv, Entries, Alive
    <3> QED BY <3>1, <3>2
  <2> QED BY <2>1 DEF Entries
<1>9. Shape' /\ Apart' /\ op'[t].pc = "idle" /\ \A u \in Threads \ {t} : op'[u] = op[u]
  BY <1>2, EndEffect, EndApart
<1>10. Spawned(t)' /\ Stopped(t)'
  BY <1>9, PcSets DEF Spawned, Stopped, In
<1>11. ASSUME NEW u \in Threads \ {t}
       PROVE  Spawned(u)' /\ Stopped(u)'
  <2>1. op'[u] = op[u] /\ Pid(u)' = Pid(u)
    BY <1>9 DEF Pid
  <2>2. Pid(u) = p => ~In(u, Spawning) /\ ~In(u, Stopping)
    BY <1>1 DEF IInv, Apart
  <2>3. In(u, Spawning) \/ In(u, Stopping) => Pid(u) \in Pids /\ map'[Pid(u)] = map[Pid(u)]
    BY <1>3, <2>2, PcSets DEF IInv, Shape, In
  <2>4. Spawned(u)'
    BY <1>2, <2>1, <2>3 DEF IInv, Spawned, In, At
  <2>5. Dead(u)' <=> Dead(u)
    BY <1>2, <2>1 DEF Dead, Alive
  <2>6. Stopped(u)'
    BY <1>2, <2>1, <2>3, <2>5 DEF IInv, Stopped, In
  <2> QED BY <2>4, <2>6
<1> QED BY <1>6, <1>8, <1>9, <1>10, <1>11 DEF IInv

LEMMA PollStep ==
    ASSUME IInv, NEW t \in Threads, Poll(t)
    PROVE  IInv'
<1> DEFINE p == Pid(t)
<1>1. In(t, Stopping) /\ p \in Pids
  BY PcSets DEF Poll, At, In, Stopping, IInv, Shape
<1>2. Goto(t, "remove") /\ UNCHANGED <<gen, strays, row, faults, restarts>>
  BY DEF Poll
<1>3. Move(t, "remove")
  BY <1>1, <1>2, StopMove DEF Stopping
<1>4. /\ \A u \in Threads \ {t} : op'[u] = op[u]
      /\ op'[t].pc = "remove" /\ Pid(t)' = p /\ op'[t].gen = op[t].gen
      /\ Shape' /\ Apart'
  BY <1>3, MoveEffect, MoveApart DEF Pid
<1>5. CASE map[p] = None
  <2>1. UNCHANGED <<proc, gen, map, row, faults, restarts>>
    BY <1>2, <1>5 DEF Poll
  <2>2. Mild /\ Base'
    BY <2>1, Unchanged DEF IInv, Base
  <2>3. Dead(t)
    BY <1>1, <1>5 DEF IInv, Stopped
  <2>4. Dead(t)'
    BY <1>4, <2>1, <2>3 DEF Dead, Alive
  <2> QED BY <1>3, <2>2, <2>4, MildMove
<1>6. CASE map[p] # None
  <2>1. /\ map' = [map EXCEPT ![p].reaped = TRUE]
        /\ proc' = IF map[p].reaped THEN proc ELSE [proc EXCEPT ![p] = "none"]
    BY <1>6 DEF Poll, Reap
  <2>2. map[p] \in Entry
    BY <1>1, <1>6 DEF IInv, Base
  <2>3. [map[p] EXCEPT !.reaped = TRUE] \in Entry
    BY <2>2 DEF Entry
  <2>4. /\ \A r \in Pids \ {p} : map'[r] = map[r] /\ proc'[r] = proc[r]
        /\ map'[p] = [map[p] EXCEPT !.reaped = TRUE]
        /\ proc'[p] = IF map[p].reaped THEN proc[p] ELSE "none"
    BY <1>1, <2>1 DEF IInv, Base
  <2>5. map'[p].reaped /\ map'[p].gen = map[p].gen /\ map'[p] # None
    BY <2>2, <2>3, <2>4, NoneAssumption DEF Entry
  <2>6. map' \in [Pids -> Entry \cup {None}]
    BY <1>1, <2>1, <2>3 DEF IInv, Base
  <2>7. proc' \in [Pids -> {"none", "running", "suspended", "zombie"}]
    BY <1>1, <2>1 DEF IInv, Base
  <2>8. Base'
    BY <1>2, <2>6, <2>7 DEF IInv, Base
  <2>9. ~(map[p].gen = gen'[p] /\ proc'[p] \in {"running", "suspended"})
    <3>1. CASE map[p].reaped
      <4>1. proc'[p] = proc[p] /\ gen'[p] = gen[p]
        BY <1>2, <2>4, <3>1
      <4>2. ~(map[p].gen = gen[p] /\ Alive(p))
        BY <1>1, <1>6, <3>1 DEF IInv, Entries
      <4> QED BY <4>1, <4>2 DEF Alive
    <3>2. CASE ~map[p].reaped
      BY <2>4, <3>2 DEF Alive
    <3> QED BY <3>1, <3>2
  <2>10. Entries'
    <3>1. ASSUME NEW r \in Pids, map'[r] # None
          PROVE  /\ row'[r] # None
                 /\ map'[r].gen <= gen'[r]
                 /\ ~map'[r].reaped => map'[r].gen = gen'[r] /\ proc'[r] # "none"
                 /\ map'[r].reaped => ~(map'[r].gen = gen'[r] /\ Alive(r)')
      <4>1. CASE r = p
        <5>1. row[p] # None /\ map[p].gen <= gen[p]
          BY <1>1, <1>6 DEF IInv, Entries
        <5> QED BY <1>2, <2>5, <2>9, <4>1, <5>1 DEF Alive
      <4>2. CASE r # p
        BY <1>2, <2>4, <3>1, <4>2 DEF IInv, Entries, Alive
      <4> QED BY <4>1, <4>2
    <3> QED BY <3>1 DEF Entries
  <2>11. op[t].gen = map[p].gen /\ row[p] # None /\ op[t].gen <= gen[p]
    BY <1>1, <1>6 DEF IInv, Stopped
  <2>12. Dead(t)'
    BY <1>4, <2>9, <2>11 DEF Dead, Alive
  <2>13. Spawned(t)' /\ Stopped(t)'
    <3>1. ~In(t, Spawning)'
      BY <1>4 DEF In, Spawning
    <3> QED BY <1>2, <1>4, <2>5, <2>11, <2>12, <3>1 DEF Spawned, Stopped
  <2>14. ASSUME NEW u \in Threads \ {t}
         PROVE  Spawned(u)' /\ Stopped(u)'
    <3>1. op'[u] = op[u] /\ Pid(u)' = Pid(u)
      BY <1>4 DEF Pid
    <3>2. In(u, Spawning) \/ In(u, Stopping) => Pid(u) \in Pids
      BY PcSets DEF IInv, Shape, In
    <3>3. ASSUME In(u, Spawning), Pid(u) = p
          PROVE  proc'[p] = proc[p] /\ ~At(u, "track")
      <4>1. map[p].reaped /\ ~At(u, "track")
        BY <1>6, <3>3 DEF IInv, Spawned
      <4> QED BY <2>4, <4>1
    <3>4. Spawned(u)'
      <4>1. CASE Pid(u) = p
        BY <1>2, <2>5, <3>1, <3>3, <4>1 DEF IInv, Spawned, In, At
      <4>2. CASE Pid(u) # p
        BY <1>2, <2>4, <3>1, <3>2, <4>2 DEF IInv, Spawned, In, At
      <4> QED BY <4>1, <4>2
    <3>5. In(u, Stopping) /\ Dead(u) => Dead(u)'
      BY <1>2, <2>4, <3>1, <3>2 DEF Dead, Alive
    <3>6. Stopped(u)'
      <4>1. CASE Pid(u) = p
        <5>1. ASSUME In(u, Stopping)
              PROVE  /\ row[p] # None /\ op[u].gen <= gen[p] /\ map[p].gen = op[u].gen
                     /\ In(u, {"log", "remove", "stopped_row"}) => Dead(u)
          BY <1>6, <4>1, <5>1 DEF IInv, Stopped
        <5>2. /\ In(u, Stopping)' <=> In(u, Stopping)
              /\ In(u, {"log", "remove", "stopped_row"})' <=> In(u, {"log", "remove", "stopped_row"})
          BY <3>1 DEF In
        <5>3. ASSUME In(u, Stopping)'
              PROVE  /\ row'[p] # None /\ op'[u].gen <= gen'[p]
                     /\ map'[p] # None /\ map'[p].gen = op'[u].gen
                     /\ In(u, {"log", "remove", "stopped_row"})' => Dead(u)'
          BY <1>2, <2>5, <3>1, <3>5, <5>1, <5>2, <5>3
        <5>4. Pid(u)' = p
          BY <3>1, <4>1
        <5> QED BY <5>3, <5>4 DEF Stopped
      <4>2. CASE Pid(u) # p
        <5>1. In(u, Stopping) => map'[Pid(u)] = map[Pid(u)]
          BY <2>4, <3>2, <4>2
        <5>2. Stopped(u)
          BY DEF IInv
        <5> QED BY <1>2, <3>1, <3>5, <5>1, <5>2 DEF Stopped, In
      <4> QED BY <4>1, <4>2
    <3> QED BY <3>4, <3>6
  <2> QED BY <1>4, <2>8, <2>10, <2>13, <2>14 DEF IInv
<1> QED BY <1>5, <1>6

LEMMA RemoveStep ==
    ASSUME IInv, NEW t \in Threads, Remove(t)
    PROVE  IInv'
<1> DEFINE p == Pid(t)
<1>1. In(t, Stopping) /\ p \in Pids /\ In(t, {"log", "remove", "stopped_row"})
  BY PcSets DEF Remove, At, In, Stopping, IInv, Shape
<1>2. Goto(t, "stopped_row") /\ UNCHANGED <<proc, gen, row, faults, restarts>>
  BY DEF Remove, os
<1>3. Move(t, "stopped_row")
  BY <1>1, <1>2, StopMove DEF Stopping
<1>4. /\ \A u \in Threads \ {t} : op'[u] = op[u]
      /\ op'[t].pc = "stopped_row" /\ Pid(t)' = p /\ op'[t].gen = op[t].gen
      /\ Shape' /\ Apart'
  BY <1>3, MoveEffect, MoveApart DEF Pid
<1>5. \A r \in Pids : map'[r] = (IF r = p THEN None ELSE map[r])
  BY DEF Remove, IInv, Base
<1>6. Base'
  BY <1>2 DEF Remove, IInv, Base
<1>7. Entries'
  BY <1>2, <1>5 DEF IInv, Entries, Alive
<1>8. Dead(t) /\ row[p] # None /\ op[t].gen <= gen[p]
  BY <1>1 DEF IInv, Stopped
<1>9. Spawned(t)' /\ Stopped(t)'
  <2>1. ~In(t, Spawning)'
    BY <1>4 DEF In, Spawning
  <2>2. Dead(t)'
    BY <1>2, <1>4, <1>8 DEF Dead, Alive
  <2> QED BY <1>1, <1>2, <1>4, <1>5, <1>8, <2>1, <2>2 DEF Spawned, Stopped
<1>10. ASSUME NEW u \in Threads \ {t}
       PROVE  Spawned(u)' /\ Stopped(u)'
  <2>1. op'[u] = op[u] /\ Pid(u)' = Pid(u)
    BY <1>4 DEF Pid
  <2>2. In(u, Spawning) \/ In(u, Stopping) => Pid(u) \in Pids
    BY PcSets DEF IInv, Shape, In
  <2>3. Spawned(u)'
    BY <1>2, <1>5, <2>1, <2>2 DEF IInv, Spawned, In, At
  <2>4. Dead(u) => Dead(u)'
    BY <1>2, <2>1 DEF Dead, Alive
  <2>5. ASSUME In(u, Stopping), Pid(u) = p
        PROVE  Dead(u)
    <3>1. CASE map[p] = None
      BY <2>5, <3>1 DEF IInv, Stopped
    <3>2. CASE map[p] # None
      <4>1. op[u].gen = op[t].gen
        BY <1>1, <2>5, <3>2 DEF IInv, Stopped
      <4> QED BY <1>8, <2>5, <4>1 DEF Dead
    <3> QED BY <3>1, <3>2
  <2>6. Stopped(u)'
    <3>1. CASE Pid(u) = p
      BY <1>1, <1>2, <1>5, <2>1, <2>4, <2>5, <3>1 DEF IInv, Stopped, In
    <3>2. CASE Pid(u) # p
      BY <1>2, <1>5, <2>1, <2>2, <2>4, <3>2 DEF IInv, Stopped, In
    <3> QED BY <3>1, <3>2
  <2> QED BY <2>3, <2>6
<1> QED BY <1>4, <1>6, <1>7, <1>9, <1>10 DEF IInv

LEMMA RestartStep ==
    ASSUME IInv, Restart
    PROVE  IInv'
<1>1. NoCall \in OpType /\ NoCall.pc = "idle" /\ NoCall.call # "spawn"
  BY DEF NoCall, OpType
<1>2. \A t \in Threads : op'[t] = NoCall
  BY DEF Restart
<1>3. UNCHANGED <<proc, gen, row, faults>> /\ \A p \in Pids : map'[p] = None
  BY DEF Restart, os
<1>4. restarts' \in 0 .. MaxRestarts
  <2>1. restarts \in 0 .. MaxRestarts
    BY DEF IInv, Base
  <2> QED BY <2>1, BoundsAssumption DEF Restart
<1>5. Base'
  BY <1>3, <1>4 DEF Restart, IInv, Base
<1>6. op' \in [Threads -> OpType]
  BY <1>1 DEF Restart
<1>7. Shape'
  BY <1>1, <1>2, <1>6, PcSets DEF Shape, At, In
<1>8. Entries'
  BY <1>3 DEF Entries
<1>9. \A t \in Threads : ~In(t, Spawning)' /\ ~In(t, Stopping)' /\ ~At(t, "track")'
  BY <1>1, <1>2, PcSets DEF In, At
<1>10. Apart' /\ \A t \in Threads : Spawned(t)' /\ Stopped(t)'
  BY <1>9 DEF Apart, Spawned, Stopped
<1> QED BY <1>5, <1>7, <1>8, <1>10 DEF IInv

LEMMA CallStep ==
    ASSUME IInv, NEW t \in Threads, Call(t)
    PROVE  IInv'
<1>1. CASE Spawn(t)
  BY <1>1, SpawnsStep
<1>2. CASE \E p \in Pids : Stop(t, p) \/ Pause(t, p) \/ Resume(t, p) \/ EnforceBudget(t, p)
  BY <1>2, BeginStep DEF Stop, Pause, Resume, EnforceBudget
<1> QED BY <1>1, <1>2 DEF Call

LEMMA NextInv ==
    ASSUME IInv, [Next]_vars
    PROVE  IInv'
<1>1. CASE UNCHANGED vars
  <2>1. Mild /\ Base' /\ UNCHANGED op
    BY <1>1, Unchanged DEF vars, IInv, Base
  <2> QED BY <2>1, MildSame
<1>2. ASSUME NEW t \in Threads, StopStep(t)
      PROVE  IInv'
  BY <1>2, StopSteps, PollStep, RemoveStep DEF StopStep
<1>3. ASSUME NEW t \in Threads, SpawnStep(t)
      PROVE  IInv'
  BY <1>3, SpawnInsertStep, SpawnTrackStep DEF SpawnStep
<1>4. CASE Step
  BY <1>2, <1>3, <1>4, CallStep, PauseSteps, FaultStep, ExitStep, ReapOrphanStep,
     OtherProcessStep, RestartStep DEF Step
<1> QED BY <1>1, <1>4 DEF Next

(* The type invariant: an entry holds the latest process of its pid until that
   one has been waited for, and has a row. *)
THEOREM TypeCorrect == Spec => []TypeOK
<1>1. IInv /\ [Next]_vars => IInv'
  BY NextInv
<1>2. Init => IInv
  BY InitInv
<1>3. IInv => TypeOK
  BY TypeFromInv
<1> QED BY <1>1, <1>2, <1>3, PTL DEF Spec

--------------------------------------------------------------------------------
(* One call at a time *)

(* The map, the table and the process agree about p. *)
Agree(p) ==
    IF map[p] = None THEN row[p] \in {None, "Stopped"}
    ELSE /\ ~map[p].reaped
         /\ map[p].state = row[p]
         /\ map[p].state = "Running" => proc[p] # "suspended"
         /\ map[p].state = "Paused" => proc[p] # "running"

(* The process t is to signal is that of the entry. *)
Meant(t) ==
    /\ map[Pid(t)] # None
    /\ ~map[Pid(t)].reaped
    /\ map[Pid(t)].gen = op[t].gen

(* What is true of the agent in a call that nobody else disturbs. *)
Phase(t) ==
    /\ In(t, Spawning) => map[Pid(t)] = None /\ proc[Pid(t)] # "suspended"
    /\ At(t, "insert") => Agree(Pid(t))
    /\ At(t, "track") => row[Pid(t)] = "Running"
    /\ In(t, {"stopping", "sigstop", "sigcont"}) => Agree(Pid(t))
    /\ In(t, {"stopping", "stopping_row", "term", "poll", "kill", "sigkill"} \cup Signalling) => Meant(t)
    /\ In(t, {"stopping_row", "term", "poll", "kill", "sigkill"}) => map[Pid(t)].state = "Stopping"
    /\ At(t, "stopped_row") => map[Pid(t)] = None
    /\ At(t, "paused_row") => map[Pid(t)].state = "Paused"
    /\ At(t, "running_row") => map[Pid(t)].state = "Running"
    /\ In(t, {"paused", "paused_row"}) => proc[Pid(t)] # "running"
    /\ In(t, {"running", "running_row"}) => proc[Pid(t)] # "suspended"

Alone == \A t, u \in Threads : t # u => At(t, "idle") \/ At(u, "idle")

CalmInv ==
    calm => /\ strays = {}
            /\ Alone
            /\ \A p \in Pids : (\A t \in Threads : ~At(t, "idle") => Pid(t) # p) => Agree(p)
            /\ \A t \in Threads : ~At(t, "idle") => Phase(t)

LEMMA InitCalm ==
    ASSUME Init
    PROVE  CalmInv
<1>1. \A t \in Threads : At(t, "idle")
  BY DEF Init, At, NoCall
<1>2. \A p \in Pids : Agree(p)
  BY DEF Init, Agree
<1>3. strays = {}
  BY DEF Init
<1> QED BY <1>1, <1>2, <1>3 DEF CalmInv, Alone

(* The end of a process and the start of another do not disturb. *)
LEMMA EnvironmentCalm ==
    ASSUME IInv, CalmInv, UNCHANGED <<map, row, op, strays>>, calm' => calm,
           \A p \in Pids : proc'[p] = proc[p]
              \/ /\ proc'[p] # "suspended"
                 /\ proc'[p] = "running" => map[p] = None \/ map[p].reaped
    PROVE  CalmInv'
<1> SUFFICES ASSUME calm, calm'
             PROVE  CalmInv'
  BY DEF CalmInv
<1>1. Alone' /\ strays' = {}
  BY DEF CalmInv, Alone, At
<1>2. ASSUME NEW p \in Pids, Agree(p)
      PROVE  Agree(p)'
  BY <1>2 DEF Agree
<1>3. \A t \in Threads : Pid(t)' = Pid(t) /\ (At(t, "idle")' <=> At(t, "idle"))
  BY DEF Pid, At
<1>4. ASSUME NEW t \in Threads, ~At(t, "idle")
      PROVE  Phase(t)'
  <2> DEFINE p == Pid(t)
  <2>1. p \in Pids /\ Phase(t)
    BY <1>4 DEF IInv, Shape, CalmInv, OpType, At, In
  <2>2. Agree(p) => /\ map[p] = None => row[p] \in {None, "Stopped"}
                    /\ map[p] # None => /\ ~map[p].reaped
                                        /\ map[p].state = row[p]
                                        /\ map[p].state = "Running" => proc'[p] # "suspended"
                                        /\ map[p].state = "Paused" => proc'[p] # "running"
    BY <2>1 DEF Agree
  <2>3. Agree(p) => Agree(p)'
    BY <1>3, <2>2 DEF Agree
  <2>4. Meant(t) => /\ Meant(t)'
                    /\ proc[p] # "running" => proc'[p] # "running"
                    /\ proc[p] # "suspended" => proc'[p] # "suspended"
    BY <1>3, <2>1 DEF Meant
  <2>5. proc[p] # "suspended" => proc'[p] # "suspended"
    BY <2>1
  <2>6. In(t, {"paused", "paused_row"}) => Meant(t)
    BY <2>1 DEF Phase, In, Signalling
  <2> QED BY <1>3, <2>1, <2>3, <2>4, <2>5, <2>6 DEF Phase, In, At
<1> QED BY <1>1, <1>2, <1>3, <1>4 DEF CalmInv

(* A step of the only thread that is in a call. *)
LEMMA ThreadCalm ==
    ASSUME IInv, CalmInv, calm, NEW t \in Threads, NEW p \in Pids, Shape',
           \A u \in Threads \ {t} : At(u, "idle") /\ op'[u] = op[u],
           ~At(t, "idle") => Pid(t) = p,
           \A r \in Pids \ {p} : proc'[r] = proc[r] /\ map'[r] = map[r] /\ row'[r] = row[r],
           UNCHANGED strays,
           At(t, "idle")' => Agree(p)',
           ~At(t, "idle")' => Pid(t)' = p /\ Phase(t)'
    PROVE  CalmInv'
<1>1. \A u \in Threads \ {t} : At(u, "idle")'
  BY DEF At
<1>2. Alone' /\ strays' = {}
  BY <1>1 DEF CalmInv, Alone
<1>3. ASSUME NEW r \in Pids, \A u \in Threads : ~At(u, "idle")' => Pid(u)' # r
      PROVE  Agree(r)'
  <2>1. CASE r = p
    BY <1>3, <2>1
  <2>2. CASE r # p
    <3>1. Agree(r)
      BY <2>2 DEF CalmInv
    <3> QED BY <2>2, <3>1 DEF Agree
  <2> QED BY <2>1, <2>2
<1> QED BY <1>1, <1>2, <1>3 DEF CalmInv

LEMMA Working ==
    ASSUME IInv, CalmInv, calm, NEW t \in Threads, ~At(t, "idle")
    PROVE  /\ Pid(t) \in Pids
           /\ Phase(t)
           /\ \A u \in Threads \ {t} : At(u, "idle")
BY DEF IInv, Shape, CalmInv, Alone, OpType, At, In

LEMMA MoveCalm ==
    ASSUME IInv, CalmInv, calm, NEW t \in Threads, NEW q, Move(t, q), UNCHANGED strays,
           \A r \in Pids \ {Pid(t)} : proc'[r] = proc[r] /\ map'[r] = map[r] /\ row'[r] = row[r],
           Phase(t)'
    PROVE  CalmInv'
<1>1. ~At(t, "idle") /\ q # "idle"
  BY PcSets DEF Move, At, In
<1>2. PICK p \in Pids : p = Pid(t)
  BY <1>1, Working
<1>3. /\ \A u \in Threads \ {t} : At(u, "idle") /\ op'[u] = op[u]
      /\ Shape' /\ Pid(t)' = p /\ ~At(t, "idle")'
  BY <1>1, <1>2, Working, MoveEffect DEF Pid, At
<1> QED BY <1>2, <1>3, ThreadCalm

LEMMA EndCalm ==
    ASSUME IInv, CalmInv, calm, NEW t \in Threads, ~At(t, "idle"), End(t), UNCHANGED strays,
           NEW p \in Pids, p = Pid(t), Agree(p)',
           \A r \in Pids \ {p} : proc'[r] = proc[r] /\ map'[r] = map[r] /\ row'[r] = row[r]
    PROVE  CalmInv'
<1>1. /\ \A u \in Threads \ {t} : At(u, "idle") /\ op'[u] = op[u]
      /\ Shape' /\ At(t, "idle")'
  BY Working, EndEffect DEF At
<1> QED BY <1>1, ThreadCalm

(* The process of an entry that is not reaped is there, and its own. *)
LEMMA MeantIsThere ==
    ASSUME IInv, NEW t \in Threads, Pid(t) \in Pids, Meant(t)
    PROVE  proc[Pid(t)] # "none" /\ gen[Pid(t)] = op[t].gen /\ row[Pid(t)] # None
BY DEF IInv, Entries, Meant

(* Nothing but the place in the call changes. *)
LEMMA WaitCalm ==
    ASSUME IInv, CalmInv, calm, NEW t \in Threads,
           NEW q \in {"term", "poll", "kill", "sigkill"}, Move(t, q),
           UNCHANGED <<proc, map, strays>>,
           \A r \in Pids \ {Pid(t)} : row'[r] = row[r],
           In(t, {"stopping_row", "term", "poll", "kill"})
    PROVE  CalmInv'
<1>1. ~At(t, "idle")
  BY PcSets DEF Move, At, In
<1>2. Meant(t) /\ map[Pid(t)].state = "Stopping"
  BY <1>1, Working DEF Phase, In
<1>3. Pid(t)' = Pid(t) /\ op'[t].pc = q /\ op'[t].gen = op[t].gen
  BY MoveEffect DEF Pid
<1>4. Meant(t)' /\ map'[Pid(t)].state = "Stopping"
  BY <1>2, <1>3 DEF Meant
<1>5. Phase(t)'
  BY <1>3, <1>4 DEF Phase, In, At, Spawning, Signalling
<1> QED BY <1>5, MoveCalm

LEMMA DeadCalm ==
    ASSUME IInv, CalmInv, calm, NEW t \in Threads, NEW q \in {"log", "remove"}, Move(t, q),
           UNCHANGED strays,
           \A r \in Pids \ {Pid(t)} : proc'[r] = proc[r] /\ map'[r] = map[r] /\ row'[r] = row[r]
    PROVE  CalmInv'
<1>1. op'[t].pc = q
  BY MoveEffect
<1>2. Phase(t)'
  BY <1>1 DEF Phase, In, At, Spawning, Signalling
<1> QED BY <1>2, MoveCalm

(* The halves of update_state. *)
LEMMA UpdateMapCalm ==
    ASSUME IInv, IInv', CalmInv, calm, NEW t \in Threads, NEW state \in States,
           NEW next \in {"stopping_row", "paused_row", "running_row"},
           UpdateMap(t, state, next), Move(t, next),
           In(t, {"stopping"} \cup Signalling),
           next = "stopping_row" => state = "Stopping",
           next = "paused_row" => state = "Paused" /\ proc[Pid(t)] # "running",
           next = "running_row" => state = "Running" /\ proc[Pid(t)] # "suspended"
    PROVE  CalmInv'
<1>1. ~At(t, "idle")
  BY PcSets DEF Move, At, In
<1>2. PICK p \in Pids : p = Pid(t)
  BY <1>1, Working
<1>3. Pid(t)' = p /\ op'[t].pc = next /\ op'[t].gen = op[t].gen
  BY <1>2, MoveEffect DEF Pid
<1>4. Meant(t)
  BY <1>1, Working DEF Phase, In
<1>5. map[p] \in Entry /\ map[p].gen = op[t].gen /\ ~map[p].reaped
  BY <1>2, <1>4 DEF IInv, Base, Meant
<1>6. /\ map'[p] = [map[p] EXCEPT !.state = state]
      /\ \A r \in Pids \ {p} : map'[r] = map[r]
  BY <1>2, <1>4 DEF UpdateMap, IInv, Base, Meant
<1>7. UNCHANGED <<proc, gen, row, strays>>
  BY DEF UpdateMap, os
<1>8. /\ map'[p] # None /\ map'[p].gen = op[t].gen /\ ~map'[p].reaped
      /\ map'[p].state = state
  <2>1. map'[p] \in Entry
    BY <1>5, <1>6 DEF Entry
  <2> QED BY <1>5, <1>6, <2>1, NoneAssumption DEF Entry
<1>9. Meant(t)'
  BY <1>3, <1>8 DEF Meant
<1>10. Phase(t)'
  BY <1>2, <1>3, <1>7, <1>8, <1>9 DEF Phase, In, At, Spawning, Signalling
<1> QED BY <1>2, <1>6, <1>7, <1>10, MoveCalm

LEMMA UpdateRowCalm ==
    ASSUME IInv, IInv', CalmInv, calm, NEW t \in Threads, NEW state \in States,
           UpdateRow(t, state, "return"),
           \/ At(t, "stopped_row") /\ state = "Stopped"
           \/ At(t, "paused_row") /\ state = "Paused"
           \/ At(t, "running_row") /\ state = "Running"
    PROVE  CalmInv'
<1>1. ~At(t, "idle")
  BY DEF At
<1>2. PICK p \in Pids : p = Pid(t)
  BY <1>1, Working
<1>3. Phase(t) /\ row[p] # None
  <2>1. Phase(t)
    BY <1>1, Working
  <2>2. CASE At(t, "stopped_row")
    BY <1>2, <2>1, <2>2 DEF IInv, Stopped, In, At, Stopping
  <2>3. CASE In(t, {"paused_row", "running_row"})
    BY <1>2, <2>1, <2>3, MeantIsThere DEF Phase, In, Signalling
  <2> QED BY <2>1, <2>2, <2>3 DEF In, At
<1>4. /\ row'[p] = state
      /\ \A r \in Pids \ {p} : row'[r] = row[r]
  BY <1>2, <1>3 DEF UpdateRow, IInv, Base
<1>5. UNCHANGED <<proc, map, strays>> /\ End(t)
  BY DEF UpdateRow, os, Return, End
<1>6. Agree(p)'
  <2>1. CASE At(t, "stopped_row")
    BY <1>2, <1>3, <1>4, <1>5, <2>1 DEF Phase, Agree, At
  <2>2. CASE At(t, "paused_row")
    BY <1>2, <1>3, <1>4, <1>5, <2>2 DEF Phase, Agree, At, In, Meant, Signalling
  <2>3. CASE At(t, "running_row")
    BY <1>2, <1>3, <1>4, <1>5, <2>3 DEF Phase, Agree, At, In, Meant, Signalling
  <2> QED BY <2>1, <2>2, <2>3
<1> QED BY <1>1, <1>2, <1>4, <1>5, <1>6, EndCalm

LEMMA StopCalm ==
    ASSUME IInv, IInv', CalmInv, calm, NEW t \in Threads, StopStep(t)
    PROVE  CalmInv'
<1>1. ~At(t, "idle")
  BY DEF StopStep, MarkStopping, RecordStopping, SendTerm, Poll, Deadline, GetChild, SendKill,
         LogForced, Remove, RecordStopped, At
<1>2. PICK p \in Pids : p = Pid(t) /\ Phase(t)
  BY <1>1, Working
<1>3. ASSUME NEW q \in Stopping, Goto(t, q), At(t, "stopping") \/ In(t, Stopping)
      PROVE  Move(t, q)
  BY <1>3, StopMove DEF At, In, Stopping
<1>4. In(t, {"stopping", "stopping_row", "term", "poll", "kill", "sigkill"}) =>
          /\ Meant(t) /\ map[p] # None /\ ~map[p].reaped
          /\ proc[p] # "none" /\ gen[p] = op[t].gen
  <2>1. Meant(t) => /\ map[p] # None /\ ~map[p].reaped
                    /\ proc[p] # "none" /\ gen[p] = op[t].gen
    BY <1>2, MeantIsThere DEF Meant
  <2>2. In(t, {"stopping", "stopping_row", "term", "poll", "kill", "sigkill"}) => Meant(t)
    BY <1>2 DEF Phase, In
  <2> QED BY <2>1, <2>2
<1>5. CASE MarkStopping(t)
  <2>1. UpdateMap(t, "Stopping", "stopping_row") /\ In(t, {"stopping"} \cup Signalling) /\ In(t, Stopping)
    BY <1>5 DEF MarkStopping, At, In, Stopping
  <2>2. Move(t, "stopping_row")
    BY <1>3, <2>1 DEF UpdateMap, Stopping
  <2> QED BY <2>1, <2>2, UpdateMapCalm DEF States
<1>6. CASE RecordStopping(t)
  <2>1. In(t, Stopping) /\ In(t, {"stopping_row", "term", "poll", "kill"})
    BY <1>6 DEF RecordStopping, At, In, Stopping
  <2>2. Move(t, "term")
    BY <1>3, <1>6, <2>1 DEF RecordStopping, UpdateRow, Stopping
  <2>3. \A r \in Pids \ {Pid(t)} : row'[r] = row[r]
    BY <1>2, <1>6 DEF RecordStopping, UpdateRow, IInv, Base
  <2> QED BY <1>6, <2>1, <2>2, <2>3, WaitCalm DEF RecordStopping, UpdateRow, os
<1>7. CASE SendTerm(t)
  <2>1. In(t, Stopping) /\ In(t, {"stopping_row", "term", "poll", "kill"})
    BY <1>7 DEF SendTerm, At, In, Stopping
  <2>2. proc[p] # "none" /\ gen[p] = op[t].gen
    BY <1>4, <2>1 DEF In
  <2>3. proc' = proc /\ strays' = strays /\ Goto(t, "poll") /\ UNCHANGED <<map, row>>
    BY <1>2, <1>7, <2>2 DEF SendTerm, Signal, IInv, Base
  <2>4. Move(t, "poll")
    BY <1>3, <2>1, <2>3 DEF Stopping
  <2> QED BY <2>1, <2>3, <2>4, WaitCalm
<1>8. CASE Poll(t)
  <2>1. Move(t, "remove")
    BY <1>3, <1>8 DEF Poll, At, In, Stopping
  <2>2. map[p] # None
    BY <1>4, <1>8 DEF Poll, At, In
  <2>3. \A r \in Pids \ {p} : proc'[r] = proc[r] /\ map'[r] = map[r] /\ row'[r] = row[r]
    BY <1>2, <1>8, <2>2 DEF Poll, Reap, IInv, Base
  <2> QED BY <1>2, <1>8, <2>1, <2>3, DeadCalm DEF Poll
<1>9. CASE Deadline(t)
  <2>1. Move(t, "kill")
    BY <1>3, <1>9 DEF Deadline, At, In, Stopping
  <2> QED BY <1>9, <2>1, WaitCalm DEF Deadline, At, In, os
<1>10. CASE GetChild(t)
  <2>1. Goto(t, "sigkill")
    BY <1>2, <1>4, <1>10 DEF GetChild, At, In
  <2>2. Move(t, "sigkill")
    BY <1>3, <1>10, <2>1 DEF GetChild, At, In, Stopping
  <2> QED BY <1>10, <2>2, WaitCalm DEF GetChild, At, In, os
<1>11. CASE SendKill(t)
  <2>1. proc[p] # "none" /\ gen[p] = op[t].gen
    BY <1>4, <1>11 DEF SendKill, At, In
  <2>2. Goto(t, "log") /\ strays' = strays /\ UNCHANGED <<map, row>>
    BY <1>2, <1>11, <2>1 DEF SendKill, Signal
  <2>3. Move(t, "log")
    BY <1>3, <1>11, <2>2 DEF SendKill, At, In, Stopping
  <2>4. \A r \in Pids \ {Pid(t)} : proc'[r] = proc[r]
    BY <1>2, <1>11, <2>1 DEF SendKill, Signal, IInv, Base
  <2> QED BY <2>2, <2>3, <2>4, DeadCalm
<1>12. CASE LogForced(t)
  <2>1. Move(t, "remove")
    BY <1>3, <1>12 DEF LogForced, At, In, Stopping
  <2> QED BY <1>12, <2>1, DeadCalm DEF LogForced, os
<1>13. CASE Remove(t)
  <2>1. Move(t, "stopped_row")
    BY <1>3, <1>13 DEF Remove, At, In, Stopping
  <2>2. UNCHANGED <<proc, row, strays>> /\ map'[p] = None /\ \A r \in Pids \ {p} : map'[r] = map[r]
    BY <1>2, <1>13 DEF Remove, os, IInv, Base
  <2>3. Pid(t)' = p /\ op'[t].pc = "stopped_row"
    BY <1>2, <2>1, MoveEffect DEF Pid
  <2>4. Phase(t)'
    BY <2>2, <2>3 DEF Phase, In, At, Spawning, Signalling
  <2> QED BY <1>2, <2>1, <2>2, <2>4, MoveCalm
<1>14. CASE RecordStopped(t)
  BY <1>14, UpdateRowCalm DEF RecordStopped, States
<1> QED BY <1>5, <1>6, <1>7, <1>8, <1>9, <1>10, <1>11, <1>12, <1>13, <1>14 DEF StopStep

LEMMA PauseCalm ==
    ASSUME IInv, IInv', CalmInv, calm, NEW t \in Threads, PauseStep(t)
    PROVE  CalmInv'
<1>1. In(t, Signalling) /\ ~At(t, "idle")
  BY DEF PauseStep, SendStop, MarkPaused, RecordPaused, SendCont, MarkRunning, RecordRunning,
         At, In, Signalling
<1>2. PICK p \in Pids : p = Pid(t) /\ Phase(t)
  BY <1>1, Working
<1>3. Meant(t) /\ proc[p] # "none" /\ gen[p] = op[t].gen
  BY <1>1, <1>2, MeantIsThere DEF Phase, In
<1>4. ASSUME NEW q \in Signalling, Goto(t, q)
      PROVE  Move(t, q) /\ Pid(t)' = p /\ op'[t].pc = q /\ op'[t].gen = op[t].gen
  BY <1>1, <1>2, <1>4, SignalMove, MoveEffect DEF Pid
<1>5. CASE SendStop(t)
  <2>1. Goto(t, "paused") /\ strays' = strays /\ UNCHANGED <<map, row>>
    BY <1>2, <1>3, <1>5 DEF SendStop, Signal
  <2>2. \A r \in Pids : proc'[r] = (IF r = p /\ proc[r] # "zombie" THEN "suspended" ELSE proc[r])
    BY <1>2, <1>3, <1>5 DEF SendStop, Signal, IInv, Base
  <2>3. Move(t, "paused") /\ Pid(t)' = p /\ op'[t].pc = "paused" /\ op'[t].gen = op[t].gen
    BY <1>4, <2>1 DEF Signalling
  <2>4. Meant(t)'
    BY <1>2, <1>3, <2>1, <2>3 DEF Meant
  <2>5. Phase(t)'
    BY <1>2, <2>2, <2>3, <2>4 DEF Phase, In, At, Spawning, Signalling
  <2> QED BY <1>2, <2>1, <2>2, <2>3, <2>5, MoveCalm
<1>6. CASE SendCont(t)
  <2>1. Goto(t, "running") /\ strays' = strays /\ UNCHANGED <<map, row>>
    BY <1>2, <1>3, <1>6 DEF SendCont, Signal
  <2>2. \A r \in Pids : proc'[r] = (IF r = p /\ proc[r] # "zombie" THEN "running" ELSE proc[r])
    BY <1>2, <1>3, <1>6 DEF SendCont, Signal, IInv, Base
  <2>3. Move(t, "running") /\ Pid(t)' = p /\ op'[t].pc = "running" /\ op'[t].gen = op[t].gen
    BY <1>4, <2>1 DEF Signalling
  <2>4. Meant(t)'
    BY <1>2, <1>3, <2>1, <2>3 DEF Meant
  <2>5. Phase(t)'
    BY <1>2, <2>2, <2>3, <2>4 DEF Phase, In, At, Spawning, Signalling
  <2> QED BY <1>2, <2>1, <2>2, <2>3, <2>5, MoveCalm
<1>7. CASE MarkPaused(t)
  <2>1. UpdateMap(t, "Paused", "paused_row") /\ proc[p] # "running"
    BY <1>2, <1>7 DEF MarkPaused, Phase, At, In
  <2>2. Move(t, "paused_row")
    BY <1>4, <2>1 DEF UpdateMap, Signalling
  <2> QED BY <1>1, <1>2, <2>1, <2>2, UpdateMapCalm DEF States, In
<1>8. CASE MarkRunning(t)
  <2>1. UpdateMap(t, "Running", "running_row") /\ proc[p] # "suspended"
    BY <1>2, <1>8 DEF MarkRunning, Phase, At, In
  <2>2. Move(t, "running_row")
    BY <1>4, <2>1 DEF UpdateMap, Signalling
  <2> QED BY <1>1, <1>2, <2>1, <2>2, UpdateMapCalm DEF States, In
<1>9. CASE RecordPaused(t)
  BY <1>9, UpdateRowCalm DEF RecordPaused, States
<1>10. CASE RecordRunning(t)
  BY <1>10, UpdateRowCalm DEF RecordRunning, States
<1> QED BY <1>5, <1>6, <1>7, <1>8, <1>9, <1>10 DEF PauseStep

LEMMA SpawnCalm ==
    ASSUME IInv, IInv', CalmInv, calm, StayCalm, calm', NEW t \in Threads, Spawn(t)
    PROVE  CalmInv'
<1>1. PICK p \in Pids :
          /\ Given(p)
          /\ op' = [op EXCEPT ![t] = [call |-> "spawn", pc |-> "insert", pid |-> p,
                                      gen |-> gen'[p]]]
  BY DEF Spawn, Given
<1>2. Pid(t)' = p /\ op'[t].pc = "insert" /\ \A u \in Threads \ {t} : op'[u] = op[u]
  BY <1>1 DEF IInv, Shape, Pid
<1>3. \A u \in Threads \ {t} : At(u, "idle")
  <2>1. ~At(t, "idle")'
    BY <1>2 DEF At
  <2>2. \A u \in Threads \ {t} : At(u, "idle")'
    BY <2>1 DEF StayCalm
  <2> QED BY <1>2, <2>2 DEF At
<1>4. At(t, "idle") /\ strays' = strays
  BY DEF Spawn
<1>5. Agree(p) /\ map[p] = None
  <2>1. Agree(p)
    BY <1>3, <1>4 DEF CalmInv
  <2>2. map[p] # None => map[p].reaped
    BY <1>1 DEF Given, IInv, Entries
  <2> QED BY <2>1, <2>2 DEF Agree
<1>6. /\ map'[p] = None /\ Agree(p)' /\ proc'[p] = "running"
      /\ \A r \in Pids \ {p} : proc'[r] = proc[r] /\ map'[r] = map[r] /\ row'[r] = row[r]
  BY <1>1, <1>5 DEF Given, Agree, IInv, Base
<1>7. Phase(t)'
  BY <1>2, <1>6 DEF Phase, In, At, Spawning, Signalling
<1>8. Shape' /\ ~At(t, "idle")'
  BY <1>2 DEF IInv, At
<1> QED BY <1>2, <1>3, <1>4, <1>6, <1>7, <1>8, ThreadCalm

LEMMA SpawnStepCalm ==
    ASSUME IInv, IInv', CalmInv, calm, NEW t \in Threads, SpawnStep(t)
    PROVE  CalmInv'
<1>1. ~At(t, "idle") /\ In(t, Spawning)
  BY DEF SpawnStep, SpawnInsert, SpawnTrack, At, In, Spawning
<1>2. PICK p \in Pids : p = Pid(t) /\ Phase(t)
  BY <1>1, Working
<1>3. map[p] = None /\ proc[p] # "suspended"
  BY <1>1, <1>2 DEF Phase
<1>4. CASE SpawnInsert(t) /\ row[p] # None
  <2>1. End(t) /\ UNCHANGED <<proc, map, row, strays>>
    BY <1>2, <1>4 DEF SpawnInsert, Return, End, os
  <2>2. Agree(p)'
    BY <1>2, <1>4, <2>1 DEF SpawnInsert, Phase, Agree
  <2> QED BY <1>1, <1>2, <2>1, <2>2, EndCalm
<1>5. CASE SpawnInsert(t) /\ row[p] = None
  <2>1. /\ row' = [row EXCEPT ![p] = "Running"] /\ Goto(t, "track")
        /\ UNCHANGED <<proc, map, strays>>
    BY <1>2, <1>5 DEF SpawnInsert, os
  <2>2. Move(t, "track")
    BY <1>1, <2>1 DEF Move, Goto, Spawning
  <2>3. Pid(t)' = p /\ op'[t].pc = "track"
    BY <1>2, <2>2, MoveEffect DEF Pid
  <2>4. row'[p] = "Running" /\ \A r \in Pids \ {p} : row'[r] = row[r]
    BY <2>1 DEF IInv, Base
  <2>5. Phase(t)'
    BY <1>3, <2>1, <2>3, <2>4 DEF Phase, In, At, Signalling
  <2> QED BY <1>2, <2>1, <2>2, <2>4, <2>5, MoveCalm
<1>6. CASE SpawnTrack(t)
  <2>1. End(t) /\ UNCHANGED <<proc, row, strays>>
    BY <1>6 DEF SpawnTrack, Return, End, os
  <2> DEFINE new == [state |-> "Running", gen |-> op[t].gen, reaped |-> FALSE]
  <2>2. map'[p] = new /\ \A r \in Pids \ {p} : map'[r] = map[r]
    BY <1>2, <1>6 DEF SpawnTrack, IInv, Base
  <2>3. new \in Entry
    BY DEF IInv, Shape, OpType, Entry, States
  <2>4. row[p] = "Running"
    BY <1>2, <1>6 DEF SpawnTrack, Phase
  <2>5. map'[p] # None
    BY <2>2, <2>3, NoneAssumption
  <2>6. ~map'[p].reaped /\ map'[p].state = "Running"
    BY <2>2
  <2>7. Agree(p)'
    BY <1>3, <2>1, <2>4, <2>5, <2>6 DEF Agree
  <2> QED BY <1>1, <1>2, <2>1, <2>2, <2>7, EndCalm
<1> QED BY <1>4, <1>5, <1>6 DEF SpawnStep

LEMMA BeginCalm ==
    ASSUME IInv, IInv', CalmInv, calm, StayCalm, calm', NEW t \in Threads, NEW p \in Pids,
           NEW call \in {"stop", "pause", "resume", "budget"},
           NEW pc \in {"stopping", "sigstop", "sigcont"}, Begin(t, call, pc, p)
    PROVE  CalmInv'
<1>1. UNCHANGED <<proc, map, row, strays>> /\ At(t, "idle")
  BY DEF Begin, os
<1>2. CASE map[p] = None
  <2>1. op' = op
    BY <1>1, <1>2 DEF Begin, Return, IInv, Shape
  <2> QED BY <1>1, <2>1, EnvironmentCalm
<1>3. CASE map[p] # None
  <2>1. op' = [op EXCEPT ![t] = [call |-> call, pc |-> pc, pid |-> p, gen |-> map[p].gen]]
    BY <1>3 DEF Begin
  <2>2. /\ Pid(t)' = p /\ op'[t].pc = pc /\ op'[t].gen = map[p].gen
        /\ \A u \in Threads \ {t} : op'[u] = op[u]
    BY <2>1 DEF IInv, Shape, Pid
  <2>3. \A u \in Threads \ {t} : At(u, "idle")
    <3>1. ~At(t, "idle")'
      BY <2>2 DEF At
    <3>2. \A u \in Threads \ {t} : At(u, "idle")'
      BY <3>1 DEF StayCalm
    <3> QED BY <2>2, <3>2 DEF At
  <2>4. Agree(p)
    BY <1>1, <2>3 DEF CalmInv
  <2>5. Agree(p)' /\ Meant(t)'
    BY <1>1, <1>3, <2>2, <2>4 DEF Agree, Meant
  <2>6. Phase(t)'
    BY <2>2, <2>5 DEF Phase, In, At, Spawning
  <2>7. Shape' /\ ~At(t, "idle")'
    BY <2>2 DEF IInv, At
  <2> QED BY <1>1, <2>2, <2>3, <2>6, <2>7, ThreadCalm
<1> QED BY <1>2, <1>3

LEMMA NextCalm ==
    ASSUME IInv, IInv', CalmInv, [Next]_vars
    PROVE  CalmInv'
<1>1. CASE UNCHANGED vars
  BY <1>1, EnvironmentCalm DEF vars
<1>2. CASE ~calm'
  BY <1>2 DEF CalmInv
<1>3. CASE Step /\ StayCalm /\ calm'
  <2>1. calm /\ faults' = 0 /\ restarts' = 0
    BY <1>3 DEF StayCalm
  <2>2. ASSUME NEW t \in Threads, Call(t)
        PROVE  CalmInv'
    <3>1. CASE Spawn(t)
      BY <1>3, <2>1, <3>1, SpawnCalm
    <3>2. CASE \E p \in Pids : Stop(t, p) \/ Pause(t, p) \/ Resume(t, p) \/ EnforceBudget(t, p)
      <4>1. PICK p \in Pids : Stop(t, p) \/ Pause(t, p) \/ Resume(t, p) \/ EnforceBudget(t, p)
        BY <3>2
      <4>2. PICK call \in {"stop", "pause", "resume", "budget"},
                 pc \in {"stopping", "sigstop", "sigcont"} : Begin(t, call, pc, p)
        BY <4>1 DEF Stop, Pause, Resume, EnforceBudget
      <4> QED BY <1>3, <2>1, <4>2, BeginCalm
    <3> QED BY <2>2, <3>1, <3>2 DEF Call
  <2>3. ASSUME NEW t \in Threads, SpawnStep(t) \/ StopStep(t) \/ PauseStep(t)
        PROVE  CalmInv'
    BY <2>1, <2>3, SpawnStepCalm, StopCalm, PauseCalm
  <2>4. ASSUME NEW t \in Threads, Fault(t)
        PROVE  FALSE
    BY <2>1, <2>4, BoundsAssumption DEF Fault, StatementFails, IInv, Base
  <2>5. ~Restart
    BY <2>1, BoundsAssumption DEF Restart, IInv, Base
  <2>6. ASSUME NEW p \in Pids, Exit(p)
        PROVE  CalmInv'
    <3>1. \A r \in Pids : proc'[r] = (IF r = p THEN "zombie" ELSE proc[r])
      BY <2>6 DEF Exit, IInv, Base
    <3> QED BY <2>1, <2>6, <3>1, EnvironmentCalm DEF Exit
  <2>7. ASSUME NEW p \in Pids, ReapOrphan(p)
        PROVE  CalmInv'
    <3>1. \A r \in Pids : proc'[r] = (IF r = p THEN "none" ELSE proc[r])
      BY <2>7 DEF ReapOrphan, IInv, Base
    <3> QED BY <2>1, <2>7, <3>1, EnvironmentCalm DEF ReapOrphan
  <2>8. ASSUME NEW p \in Pids, OtherProcess(p)
        PROVE  CalmInv'
    <3>1. \A r \in Pids : proc'[r] = (IF r = p THEN "running" ELSE proc[r])
      BY <2>8 DEF OtherProcess, IInv, Base
    <3>2. map[p] = None \/ map[p].reaped
      BY <2>8 DEF OtherProcess, IInv, Entries
    <3> QED BY <2>1, <2>8, <3>1, <3>2, EnvironmentCalm DEF OtherProcess
  <2> QED BY <1>3, <2>2, <2>3, <2>4, <2>5, <2>6, <2>7, <2>8 DEF Step
<1> QED BY <1>1, <1>2, <1>3 DEF Next

(* A stop that is about to report its agent as stopped has seen the end of it,
   whatever other calls, exits, faults, restarts and new processes came in
   between; and as long as calls do not overlap and no statement fails,
   the map, the table and the process agree between calls, and a signal reaches
   the agent it is meant for. *)
THEOREM InHand == Spec => []AgentsInHand
<1>1. IInv /\ CalmInv /\ [Next]_vars => IInv' /\ CalmInv'
  BY NextInv, NextCalm
<1>2. Init => IInv /\ CalmInv
  BY InitInv, InitCalm
<1>3. ASSUME IInv, CalmInv
      PROVE  AgentsInHand
  <2>1. StopKills
    BY <1>3, TypeFromInv
  <2>2. SignalsOwn
    BY <1>3 DEF CalmInv, SignalsOwn
  <2>3. ASSUME calm, Quiet, NEW p \in Pids
        PROVE  Agree(p)
    BY <1>3, <2>3 DEF CalmInv, Quiet
  <2>4. Agreement
    BY <2>3 DEF Agreement, Agree
  <2> QED BY <2>1, <2>2, <2>4 DEF AgentsInHand
<1> QED BY <1>1, <1>2, <1>3, PTL DEF Spec

================================================================================
