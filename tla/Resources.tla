------------------------------ MODULE Resources ------------------------------
(***************************************************************************)
(* The resource monitor and the token tracker of openhawk-core: both know  *)
(* an agent by the number of its process, which the system gives again.    *)
(*                                                                         *)
(* The monitor sleeps, samples every process, copies the table of limits,  *)
(* and then suspends those that were over theirs, one after the other,     *)
(* while processes end and start and limits are set and removed.  A limit  *)
(* in megabytes is multiplied out in 64 bits: one that is too large wraps  *)
(* around in a release build, and ends the monitor's task in one that      *)
(* checks for overflow.                                                    *)
(***************************************************************************)
EXTENDS Integers, FiniteSets

CONSTANTS
    Pids,
    Sizes,      \* amounts of memory, in bytes
    MemoryLimits, \* limits, in megabytes: whatever a manifest says, from 1 on
    Megabyte,   \* the bytes of one
    LongWord,   \* the range of a u64
    Amounts,    \* numbers of tokens in a call
    Word,       \* the range of a u32
    Budget,     \* the budget check_budget is asked about
    MaxLives,   \* bound: processes that get one number
    MaxCalls,   \* bound: rows of token_usage of a number
    None

VARIABLES
    life,         \* pid -> how many processes have had the number
    mem,          \* pid -> the memory of the process that has it, or None
    limits,       \* pid -> memory_mb of its ResourceLimits, or None
    round,        \* the round of the monitor
    suspended,    \* pids whose process is stopped by a signal
    usage,        \* token_usage, summed by number
    own,          \* history: pid -> tokens recorded of its process itself
    culprits      \* history: processes that were over their limit in a round,
                  \* or whose limit was too large

vars == <<life, mem, limits, round, suspended, usage, own, culprits>>

NoSample == [p \in Pids |-> [mem |-> None, life |-> 0]]
Asleep == [pc |-> "sleep", sample |-> NoSample, todo |-> {}]
NoUsage == [rows |-> 0, tokens |-> 0, cost |-> 0, wraps |-> 0]

Init ==
    /\ life = [p \in Pids |-> 0] /\ mem = [p \in Pids |-> None]
    /\ limits = [p \in Pids |-> None] /\ round = Asleep /\ suspended = {}
    /\ usage = [p \in Pids |-> NoUsage] /\ own = [p \in Pids |-> 0] /\ culprits = {}

(* Processes start, grow, shrink and end. *)
Start(p) ==
    /\ mem[p] = None /\ life[p] < MaxLives
    /\ life' = [life EXCEPT ![p] = @ + 1] /\ own' = [own EXCEPT ![p] = 0]
    /\ \E n \in Sizes : mem' = [mem EXCEPT ![p] = n]
    /\ UNCHANGED <<limits, round, suspended, usage, culprits>>
Grow(p) ==
    /\ mem[p] # None /\ p \notin suspended
    /\ \E n \in Sizes : mem' = [mem EXCEPT ![p] = n]
    /\ UNCHANGED <<life, limits, round, suspended, usage, own, culprits>>
Exit(p) ==
    /\ mem[p] # None
    /\ mem' = [mem EXCEPT ![p] = None] /\ suspended' = suspended \ {p}
    /\ UNCHANGED <<life, limits, round, usage, own, culprits>>

--------------------------------------------------------------------------------
(* ResourceMonitor *)

register(p, n) ==
    /\ limits' = [limits EXCEPT ![p] = n]
    /\ UNCHANGED <<life, mem, round, suspended, usage, own, culprits>>
deregister(p) ==
    /\ limits' = [limits EXCEPT ![p] = None]
    /\ UNCHANGED <<life, mem, round, suspended, usage, own, culprits>>

refresh_all ==
    /\ round.pc = "sleep"
    /\ round' = [pc |-> "clone", todo |-> {},
                 sample |-> [p \in Pids |-> [mem |-> mem[p], life |-> life[p]]]]
    /\ UNCHANGED <<life, mem, limits, suspended, usage, own, culprits>>

(* A registered number that the sample has a process of. *)
Watched(p) == limits[p] # None /\ round.sample[p].mem # None

(* Mutant: megabytes are compared with bytes. *)
limit_bytes_Megabytes(p) == limits[p] % LongWord

limit_bytes(p) == (limits[p] * Megabyte) % LongWord
Overflows(p) == limits[p] * Megabyte >= LongWord

Over(p) == Watched(p) /\ round.sample[p].mem > limit_bytes(p)

(* What is remembered of a round: who was over the limit that was meant for it,
   and whose limit does not fit into 64 bits. *)
Remembered(p, why) == <<p, round.sample[p].life, why>>
Culprits ==
    {Remembered(p, "over") : p \in {q \in Pids : Watched(q) /\ round.sample[q].mem > limits[q] * Megabyte}}
      \cup {Remembered(p, "overflow") : p \in {q \in Pids : Watched(q) /\ Overflows(q)}}

(* Mutant: every agent that has a limit is suspended. *)
CloneLimits_All ==
    /\ round.pc = "clone"
    /\ round' = [round EXCEPT !.pc = "signal", !.todo = {p \in Pids : limits[p] # None}]
    /\ culprits' = culprits \cup Culprits
    /\ UNCHANGED <<life, mem, limits, suspended, usage, own>>

(* The numbers to suspend are known once the limits are copied: those of whoever
   is over; or, with overflow checks, of some of them, before a limit that does
   not fit is come to. *)
CloneLimits ==
    /\ round.pc = "clone"
    /\ \/ round' = [round EXCEPT !.pc = "signal", !.todo = {p \in Pids : Over(p)}]
       \/ /\ \E p \in Pids : Watched(p) /\ Overflows(p)
          /\ \E first \in SUBSET {p \in Pids : Over(p) /\ ~Overflows(p)} :
                round' = [round EXCEPT !.pc = "panic", !.todo = first]
    /\ culprits' = culprits \cup Culprits
    /\ UNCHANGED <<life, mem, limits, suspended, usage, own>>

(* SIGSTOP to whatever process has the number now, if any. *)
suspend_process(p) ==
    /\ round.pc \in {"signal", "panic"} /\ p \in round.todo
    /\ suspended' = IF mem[p] = None THEN suspended ELSE suspended \cup {p}
    /\ round' = [round EXCEPT !.todo = @ \ {p}]
    /\ UNCHANGED <<life, mem, limits, usage, own, culprits>>

RoundEnds ==
    /\ round.pc = "signal" /\ round.todo = {} /\ round' = Asleep
    /\ UNCHANGED <<life, mem, limits, suspended, usage, own, culprits>>

(* The task is gone, and nobody notices: its handle was dropped. *)
TaskPanics ==
    /\ round.pc = "panic" /\ round.todo = {} /\ round' = [Asleep EXCEPT !.pc = "dead"]
    /\ UNCHANGED <<life, mem, limits, suspended, usage, own, culprits>>

--------------------------------------------------------------------------------
(* TokenTracker *)

(* Mutant: the sum of the two numbers is stored as it is computed for the cost. *)
record_Wrapped(p, prompt, completion, priced) ==
    /\ mem[p] # None /\ usage[p].rows < MaxCalls
    /\ usage' = [usage EXCEPT ![p].rows = @ + 1,
                              ![p].tokens = @ + ((prompt + completion) % Word),
                              ![p].cost = @ + IF priced THEN (prompt + completion) % Word ELSE 0]
    /\ own' = [own EXCEPT ![p] = @ + prompt + completion]
    /\ UNCHANGED <<life, mem, limits, round, suspended, culprits>>

(* The two numbers are stored as they are.  The cost, at one unit a token, is
   computed from their u32 sum, which wraps around in a release build.  (A record
   that fails, or whose sum panics in a build with overflow checks, adds no row.) *)
record(p, prompt, completion, priced) ==
    /\ mem[p] # None /\ usage[p].rows < MaxCalls
    /\ usage' = [usage EXCEPT ![p].rows = @ + 1,
                              ![p].tokens = @ + prompt + completion,
                              ![p].cost = @ + IF priced THEN (prompt + completion) % Word ELSE 0,
                              ![p].wraps = @ + IF priced /\ prompt + completion < Word THEN 0 ELSE 1]
    /\ own' = [own EXCEPT ![p] = @ + prompt + completion]
    /\ UNCHANGED <<life, mem, limits, round, suspended, culprits>>

check_budget(p) == usage[p].tokens > Budget

--------------------------------------------------------------------------------
(* One task runs the rounds. *)
MonitorStep ==
    \/ refresh_all \/ CloneLimits \/ RoundEnds \/ TaskPanics
    \/ \E p \in Pids : suspend_process(p)

Next ==
    \/ \E p \in Pids :
          \/ Start(p) \/ Grow(p) \/ Exit(p) \/ deregister(p)
          \/ \E n \in MemoryLimits : register(p, n)
          \/ \E m, n \in Amounts, priced \in BOOLEAN : record(p, m, n, priced)
    \/ MonitorStep

Spec == Init /\ [][Next]_vars
FairSpec == Spec /\ WF_vars(MonitorStep)

--------------------------------------------------------------------------------
(* Properties *)

(* A process is suspended for what it did itself, or for what a process that had
   its number before did, or because the limit of one of them is so large that it
   wraps around: never a process that is the first of its number and has kept
   within a limit that fits. *)
SuspendedOver ==
    \A p \in suspended : \E n \in 1 .. life[p], why \in {"over", "overflow"} :
        <<p, n, why>> \in culprits

(* And the monitor goes on for good unless a limit does not fit. *)
DiesOfOverflow ==
    round.pc = "dead" => \E p \in Pids : \E n \in 1 .. life[p] : <<p, n, "overflow">> \in culprits

(* An agent is told over its budget for the tokens recorded of itself, unless its
   number had an agent before: the sums go by number.  What a record costs is
   less than what it uses only where no price was given or the sum wrapped. *)
BudgetByNumber ==
    \A p \in Pids :
        /\ check_budget(p) => own[p] > Budget \/ life[p] > 1
        /\ own[p] > Budget => check_budget(p)
        /\ usage[p].cost < usage[p].tokens => usage[p].wraps > 0

(* Both counters of an agent are compared with the limits by what they hold. *)
NumbersSound == SuspendedOver /\ DiesOfOverflow /\ BudgetByNumber

Hog(p) == mem[p] # None /\ limits[p] # None /\ ~Overflows(p) /\ mem[p] > limits[p] * Megabyte
Relieved(p) == p \in suspended \/ ~Hog(p) \/ round.pc = "dead"

(* A process that stays over the limit it is registered with is suspended, while
   there is a monitor. *)
HogsSuspended == \A p \in Pids : []<>Relieved(p)
================================================================================
