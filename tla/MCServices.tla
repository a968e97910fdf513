------------------------------- MODULE MCServices -------------------------------
(***************************************************************************)
(* The components that keep to themselves on small instances: the values   *)
(* of the parameters of Services, and two parts more.  The plan, whose     *)
(* module is extended, has variables of its own.                           *)
(***************************************************************************)
EXTENDS Services, OrchestratorPlan

TwoManifests ==
    {[name |-> n, permissions |-> [k \in {"fs_access", "network", "command", "secret"} |->
                                      IF n = "n1" THEN {"r"} ELSE {}]] : n \in {"n1", "n2"}}
Found(type, name, confidence) == [type |-> type, name |-> name, confidence |-> confidence]
ScannerOutputs ==
    {<<>>, <<Found("phantom", "d", "high"), Found("phantom", "e", "low"),
             Found("unused", "e", "high"), Found("endpoint", "e", "high")>>}
Provider(name, priority, local) == [name |-> name, priority |-> priority, local |-> local]
ThreeProviders ==
    <<Provider("p1", 2, FALSE), Provider("p2", 1, TRUE), Provider("p3", 2, TRUE)>>
VersionLines ==
    [key : {"version", "versions", "name"}, text : {"empty", "1.0.0", "1.0"},
     quote : {"none", "double", "single"}, comment : BOOLEAN]
TwoTraces == <<[i \in 1 .. 7 |-> "a"], [i \in 1 .. 9 |-> IF i = 1 THEN "b" ELSE "a"]>>
Row(pid, name) == [pid |-> pid, name |-> name]
ThreeLists == {<<Row("1", "a"), Row("2", "b")>>, <<Row("2", "b")>>,
               <<Row("3", "a"), Row("2", "b"), Row("4", "b")>>}
OneAlertList == {<<3, 1, 6, 2, 5, 4>>}
TwoPackages == {<<"a", "A", "E^">>, <<"b", "_">>}
SameName(q) == {q}

Scope(kind, id) == [kind |-> kind, id |-> id]
ThreeScopes == {Scope("global", <<>>), Scope("session", <<"s">>), Scope("agent", <<"1">>)}
TwoContexts == {<<<<"x", "y">>, <<"z">>, <<"x", "y">>>>, <<<<"u">>, <<"v", "w">>>>}
Call(only, skip, force, yes) == [only |-> only, skip |-> skip, force |-> force, yes |-> yes]
ThreeOptions == {Call({}, {}, FALSE, TRUE), Call({"etch"}, {}, TRUE, FALSE),
                 Call({}, {"sqz"}, FALSE, TRUE)}

SetupTools == <<"sqz", "etch">>
MemorySessions == {<<"s">>, <<"s", "t">>}
TwoKeys == {<<"k">>, <<"t", "k">>}
GlobalKeys == {<<"k">>, <<"global", "k">>}

NearestText == [v \in {"raw", "a ", " ", ""} |-> IF v = "raw" THEN "a " ELSE v]
TrimmedText == [v \in {"a ", " ", ""} |-> IF v = "a " THEN "a" ELSE ""]

OneNameEach == [f \in Files |-> f]

(* The working directory that a healer's behaviour begins with. *)
OneFile == [f \in Files |-> IF f = "f1" THEN "x" ELSE None]

(* The message bus, once more, for its liveness. *)
Bus == INSTANCE MessageBus WITH
    Pids <- {"a1"}, Topics <- {"t1"}, Messages <- {"m1"}, Chans <- {"1", "2"},
    Tasks <- {"1", "2"}, Capacity <- 1, MaxQueue <- 1, Retention <- 1, MaxTime <- 1,
    subscriptions <- s1, direct <- s2, buffer <- s3, receiver <- s4, sending <- s5,
    queue <- s6, now <- s7

--------------------------------------------------------------------------------
allVars == <<states, planVars>>

MCInit ==
    /\ PlanInit
    /\ \/ ServicesInit /\ (part = "healer" => s1 = OneFile)
       \/ part = "bus" /\ Bus!Init /\ Zero7
       \/ part = "plan" /\ Zero0

MCNext ==
    \/ ServicesNext /\ UNCHANGED planVars
    \/ part = "bus" /\ Bus!Next /\ UNCHANGED <<part, After7, planVars>>
    \/ part = "plan" /\ PlanNext /\ UNCHANGED states

MCSpec == MCInit /\ [][MCNext]_allVars

(* Fairness, in the parts that have it: a receiver that keeps reading, a thread of
   a client that keeps running, and the task of the resource monitor. *)
KeepsOn(i) ==
    \/ part = "bus" /\ Bus!Receive(i) /\ UNCHANGED <<part, After7, planVars>>
    \/ part = "client" /\ Sdk!ThreadStep(i) /\ UNCHANGED <<part, After10, planVars>>
    \/ part = "resources" /\ Res!MonitorStep /\ UNCHANGED <<part, After8, planVars>>

(* A task of the bus that waits at a full channel is served in turn. *)
GetsThrough(k) == part = "bus" /\ Bus!SendNext(k) /\ UNCHANGED <<part, After7, planVars>>

FairSpec ==
    /\ MCSpec
    /\ \A i \in {"1", "2"} : WF_allVars(KeepsOn(i)) /\ SF_allVars(GetsThrough(i))

--------------------------------------------------------------------------------
(* Properties *)

(* SendEnds, HogsSuspended and CallsReturn: publish and send_direct end while
   receivers read or go away; a process that stays over the limit it is registered
   with is suspended; and a call of a client that waits for its registry gets it,
   or panics with it, unless a handler has called the client.  (To be always
   eventually out of a wait is never to be left in it.) *)
Progress ==
    \A i \in {"1", "2"} :
        []<>(/\ part = "bus" => ~Bus!Sending(i)
             /\ part = "resources" => Res!Relieved(1)
             /\ part = "client" => ~Sdk!Waiting(i))
=================================================================================
