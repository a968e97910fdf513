--------------------------- MODULE OrchestratorProofs ---------------------------
(***************************************************************************)
(* What holds of the orchestrator for every plan, any agents, channels and *)
(* ids: first of the pure functions of Planning, then of every behaviour.  *)
(***************************************************************************)
EXTENDS Orchestrator, OrchestratorPlan, SequenceLemmas, FiniteSetTheorems

(* A loop of n steps over states of X. *)
Steps(n, X) == [1 .. n -> [X -> X]]

IsLoop(f, n, x, step) == f[0] = x /\ \A k \in 1 .. n : f[k] = step[k][f[k - 1]]

LEMMA LoopExists ==
  ASSUME NEW n \in Nat, NEW X, NEW x \in X, NEW step \in Steps(n, X)
  PROVE  \E f \in [0 .. n -> X] : IsLoop(f, n, x, step)
<1> DEFINE Loop(f, m) == f[0] = x /\ \A k \in 1 .. m : f[k] = step[k][f[k - 1]]
           D == {m \in Nat : m <= n => \E f \in [0 .. m -> X] : Loop(f, m)}
<1>1. 0 \in D
  <2> DEFINE g == [k \in 0 .. 0 |-> x]
  <2>1. g \in [0 .. 0 -> X] /\ Loop(g, 0)
    OBVIOUS
  <2> QED BY <2>1
<1>2. ASSUME NEW m \in Nat, m \in D PROVE m + 1 \in D
  <2> SUFFICES ASSUME m + 1 <= n PROVE \E f \in [0 .. m + 1 -> X] : Loop(f, m + 1)
    OBVIOUS
  <2>1. PICK f \in [0 .. m -> X] : Loop(f, m)
    BY <1>2
  <2> DEFINE g == [k \in 0 .. m + 1 |-> IF k = 0 THEN x ELSE step[k][f[k - 1]]]
  <2>2. \A k \in 0 .. m : k # 0 => k \in 1 .. m
    OBVIOUS
  <2>3. \A k \in 0 .. m : k \in 0 .. m + 1 /\ g[k] = f[k]
    BY <2>1, <2>2
  <2>4. \A k \in 0 .. m + 1 : k # 0 => k - 1 \in 0 .. m /\ k \in 1 .. n
    OBVIOUS
  <2>5. \A k \in 0 .. m + 1 : g[k] \in X
    BY <2>4 DEF Steps
  <2>6. \A k \in 0 .. m + 1 : g[k] = IF k = 0 THEN x ELSE step[k][g[k - 1]]
    BY <2>3, <2>4
  <2>7. g \in [0 .. m + 1 -> X]
    BY <2>5
  <2>8. Loop(g, m + 1)
    BY <2>6, <2>7
  <2> QED BY <2>7, <2>8
<1> HIDE DEF D
<1>3. Nat \subseteq D
  BY <1>1, <1>2, SetInduction
<1> QED BY <1>3 DEF D, IsLoop

--------------------------------------------------------------------------------
(* Choosing an agent *)

(* Among numbers there is a last greatest one. *)
LEMMA LastGreatest ==
  ASSUME NEW n \in Nat \ {0}, NEW f \in [1 .. n -> Nat]
  PROVE  \E i \in 1 .. n : \A j \in 1 .. n : f[j] < f[i] \/ (f[j] = f[i] /\ j <= i)
<1> DEFINE Best(i, m) == i \in 1 .. m /\ \A j \in 1 .. m : f[j] < f[i] \/ (f[j] = f[i] /\ j <= i)
           D == {m \in Nat : m + 1 <= n => \E i \in 1 .. m + 1 : Best(i, m + 1)}
<1>1. 0 \in D
  <2>1. 1 <= n => Best(1, 1)
    OBVIOUS
  <2> QED BY <2>1
<1>2. ASSUME NEW m \in Nat, m \in D PROVE m + 1 \in D
  <2> SUFFICES ASSUME m + 2 <= n PROVE \E i \in 1 .. m + 2 : Best(i, m + 2)
    OBVIOUS
  <2>1. PICK i \in 1 .. m + 1 : Best(i, m + 1)
    BY <1>2
  <2>2. f[i] \in Nat /\ f[m + 2] \in Nat /\ \A j \in 1 .. m + 2 : f[j] \in Nat
    OBVIOUS
  <2>3. \A j \in 1 .. m + 2 : j \in 1 .. m + 1 \/ j = m + 2
    OBVIOUS
  <2>4. CASE f[i] <= f[m + 2]
    <3>1. Best(m + 2, m + 2)
      BY <2>1, <2>2, <2>3, <2>4
    <3> QED BY <3>1
  <2>5. CASE f[m + 2] < f[i]
    <3>1. Best(i, m + 2)
      BY <2>1, <2>2, <2>3, <2>5
    <3> QED BY <3>1
  <2> QED BY <2>2, <2>4, <2>5
<1> HIDE DEF D
<1>3. Nat \subseteq D
  BY <1>1, <1>2, SetInduction
<1>4. n - 1 \in D /\ n - 1 \in Nat /\ (n - 1) + 1 = n
  BY <1>3
<1> QED BY <1>4 DEF D

(* The agent chosen is one of those registered, and none has more of the
   capabilities required. *)
LEMMA BestAgentBest ==
  ASSUME NEW S, NEW list \in Seq(S), list # <<>>, NEW need, IsFiniteSet(need), NEW none
  PROVE  \E i \in DOMAIN list :
            /\ BestAgent(list, need, none) = list[i].pid
            /\ \A j \in DOMAIN list :
                  CapabilityOverlap(list[j].caps, need) <= CapabilityOverlap(list[i].caps, need)
<1> DEFINE Overlap(i) == CapabilityOverlap(list[i].caps, need)
           f == [i \in 1 .. Len(list) |-> Overlap(i)]
           IsBest(i) == \A j \in DOMAIN list :
                           \/ Overlap(j) < Overlap(i)
                           \/ Overlap(j) = Overlap(i) /\ j <= i
<1>1. Len(list) \in Nat \ {0} /\ DOMAIN list = 1 .. Len(list)
  BY EmptySeq, LenProperties
<1>2. \A i \in DOMAIN list : Overlap(i) \in Nat
  BY FS_Intersection, FS_CardinalityType DEF CapabilityOverlap
<1>3. f \in [1 .. Len(list) -> Nat]
  BY <1>1, <1>2
<1> HIDE DEF Overlap
<1>4. PICK i \in 1 .. Len(list) : \A j \in 1 .. Len(list) : f[j] < f[i] \/ (f[j] = f[i] /\ j <= i)
  BY <1>1, <1>3, LastGreatest
<1>5. i \in DOMAIN list /\ IsBest(i)
  BY <1>1, <1>4
<1> DEFINE best == CHOOSE k \in DOMAIN list : IsBest(k)
<1>6. best \in DOMAIN list /\ IsBest(best)
  BY <1>5
<1>7. BestAgent(list, need, none) = list[best].pid
  BY DEF BestAgent, Overlap
<1>8. \A j \in DOMAIN list : Overlap(j) <= Overlap(best)
  <2> HIDE DEF best
  <2> QED BY <1>2, <1>6
<1> QED BY <1>6, <1>7, <1>8 DEF Overlap

--------------------------------------------------------------------------------
(* Kahn's algorithm *)

KahnStates(n) ==
    [order : Seq(Subtasks(n)), degree : [Subtasks(n) -> Int], queue : Seq(Subtasks(n))]

(* Dependencies between subtasks that there are. *)
Sortable(n, deps) == n \in Nat /\ deps \in Seq(Nat \X Nat) /\ InRange(n, deps)

(* The dependencies of i that are not met when done is. *)
Unmet(i, deps, done) == {k \in DOMAIN deps : deps[k][2] = i /\ deps[k][1] \notin done}

(* Degrees are the numbers of dependencies unmet, and a subtask is taken up once
   it has none. *)
Counted(s, unmet) ==
    \A i \in DOMAIN s.degree : /\ s.degree[i] = Cardinality(unmet[i])
                               /\ s.degree[i] = 0 <=> i \in ToSet(s.order \o s.queue)

Met(order, deps) ==
    \A k \in DOMAIN deps : \A j \in DOMAIN order :
        deps[k][2] = order[j] => \E i \in 1 .. j - 1 : order[i] = deps[k][1]

KahnInv(s, n, deps) ==
    /\ s \in KahnStates(n)
    /\ Distinct(s.order \o s.queue)
    /\ Counted(s, [i \in Subtasks(n) |-> Unmet(i, deps, ToSet(s.order))])
    /\ Met(s.order, deps)

LEMMA DependencyType ==
  ASSUME NEW n, NEW deps, Sortable(n, deps)
  PROVE  /\ Len(deps) \in Nat /\ DOMAIN deps = 1 .. Len(deps)
         /\ \A k \in DOMAIN deps : deps[k][1] \in Subtasks(n) /\ deps[k][2] \in Subtasks(n)
         /\ \A S \in SUBSET DOMAIN deps : IsFiniteSet(S) /\ Cardinality(S) \in Nat
<1>1. Len(deps) \in Nat /\ DOMAIN deps = 1 .. Len(deps)
  BY LenProperties DEF Sortable
<1>2. \A k \in DOMAIN deps : deps[k] \in ToSet(deps)
  BY InToSet
<1>3. \A k \in DOMAIN deps : {deps[k][1], deps[k][2]} \subseteq Subtasks(n)
  BY <1>2 DEF Sortable, InRange
<1>4. IsFiniteSet(DOMAIN deps)
  BY <1>1, FS_Interval
<1>5. \A S \in SUBSET DOMAIN deps : IsFiniteSet(S) /\ Cardinality(S) \in Nat
  BY <1>4, FS_Subset, FS_CardinalityType
<1> QED BY <1>1, <1>3, <1>5

LEMMA ReleaseType ==
  ASSUME NEW n, NEW s \in KahnStates(n), NEW d, d[2] \in Subtasks(n)
  PROVE  /\ Release(s, d) \in KahnStates(n)
         /\ Release(s, d).order = s.order
         /\ Release(s, d).degree = [s.degree EXCEPT ![d[2]] = s.degree[d[2]] - 1]
         /\ Release(s, d).queue = IF s.degree[d[2]] - 1 = 0 THEN Append(s.queue, d[2])
                                                            ELSE s.queue
<1> DEFINE left == s.degree[d[2]] - 1
<1>1. s.degree \in [Subtasks(n) -> Int] /\ s.queue \in Seq(Subtasks(n)) /\ left \in Int
  BY DEF KahnStates
<1>2. Append(s.queue, d[2]) \in Seq(Subtasks(n))
  BY <1>1, AppendProperties
<1>3. [s.degree EXCEPT ![d[2]] = left] \in [Subtasks(n) -> Int]
  BY <1>1
<1> QED BY <1>1, <1>2, <1>3 DEF Release, KahnStates

(* KahnPop is a loop over the dependencies. *)
IsPop(f, s, deps) ==
    LET node == Head(s.queue)
    IN  /\ f[0] = [s EXCEPT !.order = Append(@, node), !.queue = Tail(@)]
        /\ \A k \in 1 .. Len(deps) :
              f[k] = IF deps[k][1] = node THEN Release(f[k - 1], deps[k]) ELSE f[k - 1]
        /\ KahnPop(s, deps) = f[Len(deps)]

LEMMA PopLoop ==
  ASSUME NEW n, NEW deps, Sortable(n, deps), NEW s \in KahnStates(n), s.queue # <<>>
  PROVE  \E f \in [0 .. Len(deps) -> KahnStates(n)] : IsPop(f, s, deps)
<1> DEFINE X == KahnStates(n)
           m == Len(deps)
           node == Head(s.queue)
           x == [s EXCEPT !.order = Append(@, node), !.queue = Tail(@)]
           One(t, k) == IF deps[k][1] = node THEN Release(t, deps[k]) ELSE t
           step == [k \in 1 .. m |-> [t \in X |-> One(t, k)]]
           Loop(f) == f = [k \in 0 .. m |-> IF k = 0 THEN x
                                            ELSE IF deps[k][1] = node
                                                 THEN Release(f[k - 1], deps[k])
                                            ELSE f[k - 1]]
<1>1. m \in Nat /\ \A k \in 1 .. m : deps[k][2] \in Subtasks(n)
  BY DependencyType
<1>2. x \in X
  BY HeadTailProperties, AppendProperties DEF KahnStates
<1>3. \A k \in 1 .. m, t \in X : One(t, k) \in X
  BY <1>1, ReleaseType
<1> HIDE DEF X, x, node
<1>4. step \in Steps(m, X)
  BY <1>3 DEF Steps
<1> HIDE DEF step
<1>5. PICK g \in [0 .. m -> X] : g[0] = x /\ \A k \in 1 .. m : g[k] = step[k][g[k - 1]]
  <2>1. m \in Nat
    BY <1>1
  <2> HIDE DEF m
  <2>2. \E g \in [0 .. m -> X] : IsLoop(g, m, x, step)
    BY <1>2, <1>4, <2>1, LoopExists
  <2> QED BY <2>2 DEF IsLoop
<1>6. \A k \in 0 .. m : k # 0 => k \in 1 .. m /\ k - 1 \in 0 .. m
  BY <1>1
<1>7. \A k \in 0 .. m : g[k] = IF k = 0 THEN x ELSE One(g[k - 1], k)
  <2>1. \A k \in 1 .. m : step[k][g[k - 1]] = One(g[k - 1], k)
    BY <1>1 DEF step
  <2> HIDE DEF One
  <2> QED BY <1>5, <1>6, <2>1
<1>8. Loop(g)
  BY <1>7
<1> DEFINE f == CHOOSE h : Loop(h)
<1>9. Loop(f)
  BY <1>8
<1>10. KahnPop(s, deps) = f[m]
  BY DEF KahnPop, x, node
<1> HIDE DEF f
<1>11. f[0] = x /\ \A k \in 1 .. m : f[k] = One(f[k - 1], k)
  <2>1. \A k \in 0 .. m : f[k] = IF k = 0 THEN x ELSE One(f[k - 1], k)
    BY <1>9, Zenon
  <2> HIDE DEF One
  <2> QED BY <1>1, <2>1
<1> DEFINE D == {k \in Nat : k <= m => f[k] \in X}
<1>12. 0 \in D
  BY <1>2, <1>11
<1>13. ASSUME NEW k \in Nat, k \in D PROVE k + 1 \in D
  <2> SUFFICES ASSUME k + 1 <= m PROVE f[k + 1] \in X
    OBVIOUS
  <2>1. f[k] \in X /\ k + 1 \in 1 .. m /\ (k + 1) - 1 = k
    BY <1>1, <1>13
  <2>2. f[k + 1] = One(f[k], k + 1)
    BY <1>11, <2>1
  <2> QED BY <1>3, <2>1, <2>2
<1> HIDE DEF D, One
<1>14. Nat \subseteq D
  BY <1>12, <1>13, SetInduction
<1>15. \A k \in 0 .. m : f[k] \in X
  BY <1>14 DEF D
<1>16. f \in [0 .. m -> X]
  BY <1>9, <1>15
<1> QED BY <1>10, <1>11, <1>16, Zenon DEF X, x, node, One, IsPop

(* Popping one subtask keeps the invariant. *)
LEMMA PopKeeps ==
  ASSUME NEW n, NEW deps, Sortable(n, deps), NEW s, KahnInv(s, n, deps), s.queue # <<>>
  PROVE  /\ KahnInv(KahnPop(s, deps), n, deps)
         /\ KahnPop(s, deps).order = Append(s.order, Head(s.queue))
<1> DEFINE X == KahnStates(n)
           m == Len(deps)
           node == Head(s.queue)
           x == [s EXCEPT !.order = Append(@, node), !.queue = Tail(@)]
           Left(i, k) == {j \in DOMAIN deps : /\ deps[j][2] = i /\ deps[j][1] \notin ToSet(s.order)
                                              /\ ~ (deps[j][1] = node /\ j <= k)}
           Inv(t, k) == /\ t \in X /\ t.order = Append(s.order, node)
                        /\ Distinct(t.order \o t.queue)
                        /\ \A i \in Subtasks(n) :
                              /\ t.degree[i] = Cardinality(Left(i, k))
                              /\ t.degree[i] = 0 <=> i \in ToSet(t.order \o t.queue)
<1>1. /\ m \in Nat /\ DOMAIN deps = 1 .. m
      /\ \A k \in 1 .. m : deps[k][1] \in Subtasks(n) /\ deps[k][2] \in Subtasks(n)
      /\ \A S \in SUBSET DOMAIN deps : IsFiniteSet(S) /\ Cardinality(S) \in Nat
  BY DependencyType
<1>2. /\ s \in X /\ s.order \in Seq(Subtasks(n)) /\ s.queue \in Seq(Subtasks(n))
      /\ s.degree \in [Subtasks(n) -> Int]
      /\ node \in Subtasks(n) /\ Tail(s.queue) \in Seq(Subtasks(n))
      /\ Append(s.order, node) \in Seq(Subtasks(n))
      /\ ToSet(Append(s.order, node)) = ToSet(s.order) \cup {node}
  <2>1. s \in X /\ s.order \in Seq(Subtasks(n)) /\ s.queue \in Seq(Subtasks(n))
        /\ s.degree \in [Subtasks(n) -> Int]
    BY DEF KahnInv, KahnStates
  <2> QED BY <2>1, HeadTailProperties, AppendProperties, ToSetAppend
<1>3. /\ Distinct(s.order \o s.queue)
      /\ \A i \in Subtasks(n) :
            /\ s.degree[i] = Cardinality(Unmet(i, deps, ToSet(s.order)))
            /\ s.degree[i] = 0 <=> i \in ToSet(s.order \o s.queue)
  BY <1>2 DEF KahnInv, Counted
<1>4. node \in ToSet(s.queue) /\ node \notin ToSet(s.order) /\ node \in ToSet(s.order \o s.queue)
  <2>1. node \in ToSet(s.queue)
    BY <1>2, ToSetTail
  <2> QED BY <1>2, <1>3, <2>1, DistinctConcat, ToSetConcat
<1>5. /\ x \in X /\ x.order = Append(s.order, node) /\ x.queue = Tail(s.queue)
      /\ x.degree = s.degree
  BY <1>2 DEF KahnStates
<1>6. x.order \o x.queue = s.order \o s.queue
  BY <1>2, <1>5, MoveHead
<1> HIDE DEF X, x, node
<1>7. Inv(x, 0)
  <2>1. \A i \in Subtasks(n) : Left(i, 0) = Unmet(i, deps, ToSet(s.order))
    BY <1>1 DEF Unmet
  <2> HIDE DEF Left
  <2> QED BY <1>3, <1>5, <1>6, <2>1
<1>8. ASSUME NEW k \in Nat, k + 1 <= m, NEW t, Inv(t, k)
      PROVE  Inv(IF deps[k + 1][1] = node THEN Release(t, deps[k + 1]) ELSE t, k + 1)
  <2>1. CASE deps[k + 1][1] # node
    <3>1. \A i \in Subtasks(n) : Left(i, k + 1) = Left(i, k)
      BY <1>1, <2>1
    <3> HIDE DEF Left
    <3> QED BY <1>8, <2>1, <3>1
  <2>2. CASE deps[k + 1][1] = node
    <3> DEFINE d == deps[k + 1]
               r == Release(t, d)
    <3>1. k + 1 \in 1 .. m /\ d[2] \in Subtasks(n)
      BY <1>1, <1>8
    <3>2. k + 1 \in Left(d[2], k) /\ Left(d[2], k + 1) = Left(d[2], k) \ {k + 1}
      BY <1>1, <1>4, <2>2, <3>1
    <3>3. \A i \in Subtasks(n) \ {d[2]} : Left(i, k + 1) = Left(i, k)
      BY <1>1, <3>1
    <3>4. \A i : IsFiniteSet(Left(i, k)) /\ Cardinality(Left(i, k)) \in Nat
      BY <1>1
    <3> HIDE DEF Left, d
    <3>5. t \in X /\ t.degree \in [Subtasks(n) -> Int] /\ t.order \in Seq(Subtasks(n))
          /\ t.queue \in Seq(Subtasks(n))
      BY <1>8 DEF X, KahnStates
    <3>6. /\ r \in X /\ r.order = t.order
          /\ r.degree = [t.degree EXCEPT ![d[2]] = t.degree[d[2]] - 1]
          /\ r.queue = IF t.degree[d[2]] - 1 = 0 THEN Append(t.queue, d[2]) ELSE t.queue
      BY <3>1, <3>5, ReleaseType DEF X
    <3> HIDE DEF r
    <3>7. /\ Cardinality(Left(d[2], k + 1)) = Cardinality(Left(d[2], k)) - 1
          /\ Cardinality(Left(d[2], k)) # 0
      BY <3>2, <3>4, FS_RemoveElement, FS_EmptySet
    <3>8. d[2] \notin ToSet(t.order \o t.queue)
      BY <1>8, <3>1, <3>7
    <3>9. t.order \o t.queue \in Seq(Subtasks(n))
      BY <3>5, ConcatProperties
    <3>10. CASE t.degree[d[2]] - 1 = 0
      <4> DEFINE o == t.order
                 q == t.queue
                 i == d[2]
      <4>1. /\ o \in Seq(Subtasks(n)) /\ q \in Seq(Subtasks(n)) /\ i \in Subtasks(n)
            /\ o \o q \in Seq(Subtasks(n)) /\ Distinct(o \o q) /\ i \notin ToSet(o \o q)
            /\ r.order = o /\ r.queue = Append(q, i)
        BY <1>8, <3>1, <3>5, <3>6, <3>8, <3>9, <3>10
      <4> HIDE DEF o, q, i
      <4>2. o \o Append(q, i) = Append(o \o q, i)
        BY <4>1, ConcatAppend
      <4>3. ToSet(r.order \o r.queue) = ToSet(o \o q) \cup {i} /\ Distinct(r.order \o r.queue)
        <5> DEFINE oq == o \o q
        <5>1. oq \in Seq(Subtasks(n)) /\ i \in Subtasks(n) /\ Distinct(oq) /\ i \notin ToSet(oq)
          BY <4>1
        <5>2. r.order \o r.queue = Append(oq, i)
          BY <4>1, <4>2
        <5> HIDE DEF oq
        <5>3. ToSet(Append(oq, i)) = ToSet(oq) \cup {i} /\ Distinct(Append(oq, i))
          BY <5>1, ToSetAppend, DistinctAppend
        <5> QED BY <5>2, <5>3 DEF oq
      <4>4. \A h \in Subtasks(n) : /\ r.degree[h] = Cardinality(Left(h, k + 1))
                                   /\ r.degree[h] = 0 <=> h \in ToSet(r.order \o r.queue)
        <5>1. \A h \in Subtasks(n) \ {d[2]} : r.degree[h] = t.degree[h] /\ Left(h, k + 1) = Left(h, k)
          BY <3>3, <3>5, <3>6
        <5>2. r.degree[d[2]] = 0 /\ Cardinality(Left(d[2], k + 1)) = 0
          BY <1>8, <3>1, <3>5, <3>6, <3>7, <3>10
        <5>3. ToSet(r.order \o r.queue) = ToSet(t.order \o t.queue) \cup {d[2]}
          BY <4>3 DEF o, q, i
        <5> QED BY <1>8, <5>1, <5>2, <5>3
      <4> QED BY <1>8, <2>2, <3>6, <4>3, <4>4 DEF r, d
    <3>11. CASE t.degree[d[2]] - 1 # 0
      <4>1. r.order \o r.queue = t.order \o t.queue
        BY <3>6, <3>11
      <4>2. \A i \in Subtasks(n) : /\ r.degree[i] = Cardinality(Left(i, k + 1))
                                   /\ r.degree[i] = 0 <=> i \in ToSet(r.order \o r.queue)
        BY <1>8, <3>1, <3>3, <3>5, <3>6, <3>7, <3>8, <3>11, <4>1
      <4> QED BY <1>8, <2>2, <3>6, <4>1, <4>2 DEF r, d
    <3> QED BY <3>10, <3>11
  <2> QED BY <2>1, <2>2
<1>9. PICK f \in [0 .. m -> X] :
         /\ f[0] = x
         /\ \A k \in 1 .. m :
               f[k] = IF deps[k][1] = node THEN Release(f[k - 1], deps[k]) ELSE f[k - 1]
         /\ KahnPop(s, deps) = f[m]
  <2>1. PICK f \in [0 .. m -> X] : IsPop(f, s, deps)
    BY <1>2, PopLoop DEF X
  <2> QED BY <2>1, Zenon DEF IsPop, x, node
<1> DEFINE D == {k \in Nat : k <= m => Inv(f[k], k)}
<1> HIDE DEF Inv
<1>10. 0 \in D
  BY <1>7, <1>9
<1>11. ASSUME NEW k \in Nat, k \in D PROVE k + 1 \in D
  <2> SUFFICES ASSUME k + 1 <= m PROVE Inv(f[k + 1], k + 1)
    OBVIOUS
  <2>1. k <= m /\ k + 1 \in 1 .. m /\ (k + 1) - 1 = k
    BY <1>1, <1>11
  <2>2. Inv(f[k], k)
    BY <1>11, <2>1
  <2>3. f[k + 1] = IF deps[k + 1][1] = node THEN Release(f[k], deps[k + 1]) ELSE f[k]
    BY <1>9, <2>1
  <2> QED BY <1>8, <2>2, <2>3
<1> HIDE DEF D
<1>12. Nat \subseteq D
  BY <1>10, <1>11, SetInduction
<1> DEFINE z == KahnPop(s, deps)
<1>13. Inv(z, m)
  BY <1>1, <1>9, <1>12 DEF D
<1> HIDE DEF z
<1>14. \A i \in Subtasks(n) : Left(i, m) = Unmet(i, deps, ToSet(z.order))
  BY <1>1, <1>2, <1>13 DEF Inv, Unmet, node
<1>15. Counted(z, [i \in Subtasks(n) |-> Unmet(i, deps, ToSet(z.order))])
  <2>1. DOMAIN z.degree = Subtasks(n)
    BY <1>13 DEF Inv, X, KahnStates
  <2> QED BY <1>13, <1>14, <2>1 DEF Counted, Inv
<1>16. Met(z.order, deps)
  <2> SUFFICES ASSUME NEW k \in DOMAIN deps, NEW j \in DOMAIN z.order, deps[k][2] = z.order[j]
               PROVE  \E i \in 1 .. j - 1 : z.order[i] = deps[k][1]
    BY DEF Met
  <2>1. z.order = Append(s.order, node) /\ node \in Subtasks(n)
    BY <1>2, <1>13 DEF Inv, node
  <2>2. /\ Len(s.order) \in Nat /\ DOMAIN s.order = 1 .. Len(s.order)
        /\ DOMAIN z.order = 1 .. Len(s.order) + 1
        /\ \A i \in 1 .. Len(s.order) : z.order[i] = s.order[i]
        /\ z.order[Len(s.order) + 1] = node
    BY <1>2, <2>1, AppendProperties, LenProperties
  <2>3. CASE j \in 1 .. Len(s.order)
    <3>1. PICK i \in 1 .. j - 1 : s.order[i] = deps[k][1]
      BY <2>2, <2>3 DEF KahnInv, Met
    <3> QED BY <2>2, <2>3, <3>1
  <2>4. CASE j = Len(s.order) + 1
    <3>1. Cardinality(Unmet(node, deps, ToSet(s.order))) = 0
      BY <1>3, <1>4, <2>1
    <3>2. Unmet(node, deps, ToSet(s.order)) = {}
      BY <1>1, <3>1, FS_EmptySet DEF Unmet
    <3>3. deps[k][1] \in ToSet(s.order)
      BY <2>2, <2>4, <3>2 DEF Unmet
    <3>4. PICK i \in 1 .. Len(s.order) : s.order[i] = deps[k][1]
      BY <2>2, <3>3, InToSet
    <3> QED BY <2>2, <2>4, <3>4
  <2> QED BY <2>2, <2>3, <2>4
<1> QED BY <1>13, <1>15, <1>16 DEF Inv, KahnInv, X, z, node

LEMMA KahnInitInv ==
  ASSUME NEW n, NEW deps, Sortable(n, deps)
  PROVE  KahnInv(KahnInit(n, deps), n, deps) /\ KahnInit(n, deps).order = <<>>
<1> DEFINE all == [i \in 1 .. n |-> i - 1]
           zero == {i \in Subtasks(n) : InDegree(i, deps) = 0}
           q == Only(all, zero)
           degree == [i \in Subtasks(n) |-> InDegree(i, deps)]
           s == KahnInit(n, deps)
<1>1. n \in Nat /\ \A i : InDegree(i, deps) \in Nat
  BY DependencyType DEF Sortable, InDegree
<1>2. /\ all \in Seq(Subtasks(n)) /\ Distinct(all)
      /\ \A i \in Subtasks(n) : i + 1 \in DOMAIN all /\ all[i + 1] = i
  BY <1>1 DEF Subtasks, Distinct
<1>3. ToSet(all) = Subtasks(n)
  <2> HIDE DEF all
  <2> QED BY <1>2, InToSet, ToSetType
<1>4. degree \in [Subtasks(n) -> Int]
  BY <1>1
<1>5. q \in Seq(Subtasks(n)) /\ Distinct(q) /\ ToSet(q) = zero
  <2>1. zero \subseteq Subtasks(n)
    OBVIOUS
  <2> HIDE DEF zero, all
  <2>2. q \in Seq(Subtasks(n)) /\ Distinct(q) /\ ToSet(q) = ToSet(all) \cap zero
    BY <1>2, OnlyType, OnlyDistinct, OnlyRange
  <2> QED BY <1>3, <2>1, <2>2
<1> HIDE DEF q, degree
<1>6. s = [order |-> <<>>, degree |-> degree, queue |-> q]
  BY DEF KahnInit, q, zero, all, degree
<1>7. <<>> \in Seq(Subtasks(n)) /\ <<>> \o q = q
  BY <1>5, ConcatEmptySeq, EmptySeq
<1> HIDE DEF s
<1>8. /\ s \in KahnStates(n) /\ s.order = <<>> /\ s.queue = q /\ s.degree = degree
      /\ s.order \o s.queue = q /\ DOMAIN s.degree = Subtasks(n)
  BY <1>4, <1>5, <1>6, <1>7 DEF KahnStates
<1>9. \A i \in Subtasks(n) : InDegree(i, deps) = Cardinality(Unmet(i, deps, ToSet(s.order)))
  BY <1>8, ToSetEmpty DEF InDegree, Unmet
<1>10. Counted(s, [i \in Subtasks(n) |-> Unmet(i, deps, ToSet(s.order))])
  BY <1>5, <1>8, <1>9 DEF Counted, degree
<1>11. Met(s.order, deps)
  BY <1>8 DEF Met
<1> QED BY <1>5, <1>8, <1>10, <1>11 DEF KahnInv, s

(* When the algorithm stops it is in one of the states it keeps to, and no subtask
   is left in the queue if not all have come out. *)
LEMMA KahnKeepsTo ==
  ASSUME NEW n, NEW deps, Sortable(n, deps),
         NEW X, \A t \in X : KahnInv(t, n, deps), KahnInit(n, deps) \in X,
         \A t \in X : t.queue # <<>> => KahnPop(t, deps) \in X
  PROVE  \E s \in X : /\ Kahn(n, deps) = s.order
                      /\ s.queue = <<>> \/ Len(s.order) = n
<1> DEFINE x == KahnInit(n, deps)
           One(t) == IF t.queue = <<>> THEN t ELSE KahnPop(t, deps)
           step == [k \in 1 .. n |-> [t \in X |-> One(t)]]
           Loop(f) == f = [k \in 0 .. n |->
                              IF k = 0 THEN KahnInit(n, deps)
                              ELSE LET state == f[k - 1]
                                   IN  IF state.queue = <<>> THEN state ELSE KahnPop(state, deps)]
<1>1. n \in Nat
  BY DEF Sortable
<1>2. x \in X
  OBVIOUS
<1>3. \A t \in X : One(t) \in X
  OBVIOUS
<1>4. \A t \in X : t.queue # <<>> => Len(One(t).order) = Len(t.order) + 1
  <2> TAKE t \in X
  <2> HAVE t.queue # <<>>
  <2> DEFINE o == t.order
             q == t.queue
  <2>1. o \in Seq(Subtasks(n)) /\ q \in Seq(Subtasks(n)) /\ q # <<>>
    BY DEF KahnInv, KahnStates
  <2>2. One(t).order = Append(o, Head(q))
    BY PopKeeps
  <2> HIDE DEF o, q, One
  <2>3. Len(Append(o, Head(q))) = Len(o) + 1
    BY <2>1, AppendProperties, HeadTailProperties
  <2> QED BY <2>2, <2>3 DEF o
<1>5. step \in Steps(n, X)
  BY <1>3 DEF Steps
<1> HIDE DEF step, x
<1>6. PICK g \in [0 .. n -> X] : g[0] = x /\ \A k \in 1 .. n : g[k] = step[k][g[k - 1]]
  <2>1. \E g \in [0 .. n -> X] : IsLoop(g, n, x, step)
    BY <1>1, <1>2, <1>5, LoopExists
  <2> QED BY <2>1 DEF IsLoop
<1>7. \A k \in 0 .. n : g[k] = IF k = 0 THEN x ELSE One(g[k - 1])
  <2>1. \A k \in 0 .. n : k # 0 => k \in 1 .. n /\ k - 1 \in 0 .. n
    BY <1>1
  <2>2. \A k \in 1 .. n : step[k][g[k - 1]] = One(g[k - 1])
    BY <1>1 DEF step
  <2> HIDE DEF One
  <2> QED BY <1>6, <2>1, <2>2
<1>8. Loop(g)
  BY <1>7 DEF x
<1> DEFINE f == CHOOSE h : Loop(h)
<1>9. Loop(f)
  BY <1>8
<1>10. Kahn(n, deps) = f[n].order
  BY DEF Kahn
<1> HIDE DEF f
<1>11. f[0] = x /\ \A k \in 1 .. n : f[k] = One(f[k - 1])
  <2>1. \A k \in 0 .. n : f[k] = IF k = 0 THEN x ELSE One(f[k - 1])
    BY <1>9, Zenon DEF x
  <2> HIDE DEF One
  <2> QED BY <1>1, <2>1
<1> DEFINE D == {k \in Nat : k <= n => f[k] \in X /\ (f[k].queue = <<>> \/ Len(f[k].order) = k)}
<1>12. 0 \in D
  <2>1. x.order = <<>>
    BY KahnInitInv DEF x
  <2> QED BY <1>2, <1>11, <2>1
<1>13. ASSUME NEW k \in Nat, k \in D PROVE k + 1 \in D
  <2> SUFFICES ASSUME k + 1 <= n
               PROVE  f[k + 1] \in X /\ (f[k + 1].queue = <<>> \/ Len(f[k + 1].order) = k + 1)
    OBVIOUS
  <2>1. /\ k + 1 \in 1 .. n /\ (k + 1) - 1 = k
        /\ f[k] \in X /\ (f[k].queue = <<>> \/ Len(f[k].order) = k)
    BY <1>1, <1>13
  <2>2. f[k + 1] = One(f[k])
    BY <1>11, <2>1
  <2>3. CASE f[k].queue = <<>>
    BY <2>1, <2>2, <2>3
  <2>4. CASE f[k].queue # <<>>
    <3> HIDE DEF One
    <3> QED BY <1>3, <1>4, <2>1, <2>2, <2>4
  <2> QED BY <2>3, <2>4
<1> HIDE DEF D
<1>14. Nat \subseteq D
  BY <1>12, <1>13, SetInduction
<1>15. f[n] \in X /\ (f[n].queue = <<>> \/ Len(f[n].order) = n)
  BY <1>1, <1>14 DEF D
<1> QED BY <1>10, <1>15

(* The invariant holds at the end. *)
LEMMA KahnEnds ==
  ASSUME NEW n, NEW deps, Sortable(n, deps)
  PROVE  \E s : /\ KahnInv(s, n, deps) /\ Kahn(n, deps) = s.order
                /\ s.queue = <<>> \/ Len(s.order) = n
<1> DEFINE X == {s \in KahnStates(n) : KahnInv(s, n, deps)}
<1>1. \A t \in X : KahnInv(t, n, deps)
  OBVIOUS
<1>2. KahnInit(n, deps) \in X
  BY KahnInitInv DEF KahnInv
<1>3. \A t \in X : t.queue # <<>> => KahnPop(t, deps) \in X
  BY PopKeeps DEF KahnInv
<1> HIDE DEF X
<1>4. \E s \in X : Kahn(n, deps) = s.order /\ (s.queue = <<>> \/ Len(s.order) = n)
  BY <1>1, <1>2, <1>3, KahnKeepsTo
<1> QED BY <1>1, <1>4

(* A set of natural numbers has a least one. *)
LEMMA LeastElement ==
  ASSUME NEW S, S \subseteq Nat, S # {}
  PROVE  \E i \in S : \A j \in S : i <= j
<1> DEFINE R == OpToRel(<, Nat)
<1>1. IsWellFoundedOn(R, Nat)
  BY NatLessThanWellFounded
<1>2. \A T : T \subseteq Nat /\ T # {} => \E x \in T : \A y \in T : ~ (<<y, x>> \in R)
  BY <1>1, WFMin
<1>3. \A x, y \in Nat : y < x => <<y, x>> \in R
  BY DEF OpToRel
<1> HIDE DEF R
<1>4. PICK i \in S : \A j \in S : ~ (<<j, i>> \in R)
  BY <1>2
<1>5. ASSUME NEW j \in S PROVE i <= j
  <2>1. i \in Nat /\ j \in Nat /\ ~ (j < i)
    BY <1>3, <1>4
  <2> QED BY <2>1
<1> QED BY <1>5

(* A sequence of subtasks without repetitions has at most as many as there are,
   and all of them if it has as many. *)
LEMMA DistinctSubtasks ==
  ASSUME NEW n \in Nat, NEW s \in Seq(Subtasks(n)), Distinct(s)
  PROVE  /\ Len(s) \in Nat /\ Len(s) <= n
         /\ Len(s) = n <=> ToSet(s) = Subtasks(n)
<1> DEFINE T == Subtasks(n)
           m == Len(s)
<1>1. IsFiniteSet(T) /\ Cardinality(T) = n
  BY FS_Interval DEF Subtasks
<1>2. /\ m \in Nat /\ s \in [1 .. m -> T] /\ DOMAIN s = 1 .. m
      /\ IsFiniteSet(1 .. m) /\ Cardinality(1 .. m) = m
  <2>1. m \in Nat /\ s \in [1 .. m -> T] /\ DOMAIN s = 1 .. m
    BY LenProperties
  <2> HIDE DEF m
  <2>2. IsFiniteSet(1 .. m) /\ Cardinality(1 .. m) = IF 1 > m THEN 0 ELSE m - 1 + 1
    BY <2>1, FS_Interval
  <2> QED BY <2>1, <2>2
<1> HIDE DEF T, m
<1>3. s \in Injection(1 .. m, T)
  BY <1>2 DEF Injection, IsInjective, Distinct
<1>4. m <= n /\ (m = n <=> s \in Surjection(1 .. m, T))
  BY <1>1, <1>2, <1>3, FS_Injection
<1>5. s \in Surjection(1 .. m, T) <=> ToSet(s) = T
  <2>1. ToSet(s) \subseteq T /\ \A x : x \in ToSet(s) <=> \E i \in 1 .. m : s[i] = x
    BY <1>2, InToSet
  <2>2. ToSet(s) = T <=> \A x \in T : x \in ToSet(s)
    BY <2>1
  <2> QED BY <1>2, <2>1, <2>2 DEF Surjection
<1> QED BY <1>2, <1>4, <1>5 DEF T, m

LEMMA MetIsSchedule ==
  ASSUME NEW n, NEW deps, Sortable(n, deps), NEW s, KahnInv(s, n, deps), Len(s.order) = n
  PROVE  IsSchedule(s.order, n, deps) /\ Distinct(s.order) /\ s.order \in Seq(Subtasks(n))
<1> DEFINE o == s.order
           q == s.queue
<1>1. o \in Seq(Subtasks(n)) /\ q \in Seq(Subtasks(n)) /\ Distinct(o \o q) /\ Met(o, deps)
      /\ Len(o) = n /\ n \in Nat
  BY DEF KahnInv, KahnStates, Sortable
<1> HIDE DEF o, q
<1>2. Distinct(o) /\ DOMAIN o = 1 .. n
  <2>1. Len(o) \in Nat /\ DOMAIN o = 1 .. Len(o) /\ Len(q) \in Nat
    BY <1>1, LenProperties
  <2>2. /\ DOMAIN (o \o q) = 1 .. Len(o) + Len(q)
        /\ \A i \in 1 .. Len(o) + Len(q) :
              (o \o q)[i] = IF i <= Len(o) THEN o[i] ELSE q[i - Len(o)]
    <3>1. o \in Seq(Subtasks(n)) /\ q \in Seq(Subtasks(n))
      BY <1>1
    <3>2. /\ o \o q \in Seq(Subtasks(n)) /\ Len(o \o q) = Len(o) + Len(q)
          /\ \A i \in 1 .. Len(o) + Len(q) :
                (o \o q)[i] = IF i <= Len(o) THEN o[i] ELSE q[i - Len(o)]
      BY <3>1, ConcatProperties
    <3>3. DOMAIN (o \o q) = 1 .. Len(o \o q)
      BY <3>2, LenProperties
    <3> QED BY <3>2, <3>3
  <2> DEFINE u == o \o q
             k == Len(q)
  <2>3. Distinct(u) /\ DOMAIN u = 1 .. n + k /\ DOMAIN o = 1 .. n /\ k \in Nat
        /\ \A i \in 1 .. n + k : u[i] = IF i <= n THEN o[i] ELSE q[i - n]
    BY <1>1, <2>1, <2>2
  <2> HIDE DEF u, k
  <2>4. \A i \in 1 .. n : u[i] = o[i] /\ i \in 1 .. n + k
    BY <1>1, <2>3
  <2> QED BY <2>3, <2>4 DEF Distinct
<1>3. ToSet(o) = Subtasks(n)
  BY <1>1, <1>2, DistinctSubtasks
<1>4. ASSUME NEW d \in ToSet(deps), NEW i \in 1 .. n, NEW j \in 1 .. n, d = <<o[i], o[j]>>
      PROVE  i < j
  <2>1. PICK k \in DOMAIN deps : deps[k] = d
    BY InToSet
  <2>2. deps[k][1] = o[i] /\ deps[k][2] = o[j]
    BY <1>4, <2>1
  <2>3. PICK h \in 1 .. j - 1 : o[h] = o[i]
    BY <1>1, <1>2, <2>2 DEF Met
  <2>4. h \in 1 .. n
    BY <1>1
  <2>5. h = i
    BY <1>2, <2>3, <2>4 DEF Distinct
  <2> QED BY <2>5
<1> QED BY <1>1, <1>2, <1>3, <1>4 DEF IsSchedule, o

LEMMA ScheduleAcyclic ==
  ASSUME NEW n, NEW deps, Sortable(n, deps), NEW s, KahnInv(s, n, deps), Len(s.order) = n
  PROVE  Acyclic(n, deps)
<1> SUFFICES ASSUME NEW S \in (SUBSET Subtasks(n)) \ {{}}
             PROVE  \E i \in S : \A d \in ToSet(deps) : d[2] = i => d[1] \notin S
  BY DEF Acyclic
<1> DEFINE o == s.order
           Q == {j \in DOMAIN o : o[j] \in S}
<1>1. o \in Seq(Subtasks(n)) /\ Met(o, deps) /\ ToSet(o) = Subtasks(n) /\ S # {}
  <2>1. s.order \in Seq(Subtasks(n)) /\ Met(s.order, deps)
    BY DEF KahnInv, KahnStates
  <2>2. ToSet(s.order) = Subtasks(n)
    BY MetIsSchedule DEF IsSchedule
  <2>3. S # {}
    OBVIOUS
  <2> QED BY <2>1, <2>2, <2>3
<1> HIDE DEF o
<1>2. DOMAIN o \subseteq Nat
  BY <1>1, LenProperties
<1>3. PICK i \in S : TRUE
  BY <1>1
<1>4. i \in ToSet(o)
  BY <1>1
<1>5. Q \subseteq Nat /\ Q # {}
  BY <1>2, <1>4, InToSet
<1> HIDE DEF Q
<1>6. PICK j \in Q : \A h \in Q : j <= h
  BY <1>5, LeastElement
<1>7. j \in DOMAIN o /\ o[j] \in S
  BY DEF Q
<1>8. ASSUME NEW d \in ToSet(deps), d[2] = o[j] PROVE d[1] \notin S
  <2>1. PICK k \in DOMAIN deps : deps[k] = d
    BY InToSet
  <2>2. PICK h \in 1 .. j - 1 : o[h] = d[1]
    BY <1>1, <1>7, <1>8, <2>1 DEF Met
  <2>3. h \in DOMAIN o
    BY <1>1, <1>7, LenProperties
  <2>4. h < j /\ h \in Nat /\ j \in Nat
    BY <1>2, <1>7, <2>3
  <2> QED BY <1>6, <2>2, <2>3, <2>4 DEF Q
<1> QED BY <1>7, <1>8

LEMMA AcyclicAllOut ==
  ASSUME NEW n, NEW deps, Sortable(n, deps), NEW s, KahnInv(s, n, deps),
         s.queue = <<>> \/ Len(s.order) = n, Acyclic(n, deps)
  PROVE  Len(s.order) = n
<1> SUFFICES ASSUME Len(s.order) # n PROVE FALSE
  OBVIOUS
<1> DEFINE o == s.order
           S == Subtasks(n) \ ToSet(o)
<1>1. o \in Seq(Subtasks(n)) /\ Distinct(s.order \o s.queue) /\ s.queue = <<>> /\ n \in Nat
  BY DEF KahnInv, KahnStates, Sortable
<1> HIDE DEF o
<1>2. s.order \o s.queue = o
  BY <1>1, ConcatEmptySeq DEF o
<1>3. Distinct(o) /\ Len(o) # n
  BY <1>1, <1>2 DEF o
<1>4. ToSet(o) # Subtasks(n) /\ ToSet(o) \subseteq Subtasks(n)
  BY <1>1, <1>3, DistinctSubtasks, ToSetType
<1>5. S # {} /\ S \subseteq Subtasks(n)
  BY <1>4
<1>6. PICK i \in S : \A d \in ToSet(deps) : d[2] = i => d[1] \notin S
  BY <1>5, Zenon DEF Acyclic
<1>7. Unmet(i, deps, ToSet(o)) = {}
  <2> SUFFICES ASSUME NEW k \in DOMAIN deps, deps[k][2] = i PROVE deps[k][1] \in ToSet(o)
    BY DEF Unmet
  <2>1. deps[k] \in ToSet(deps) /\ deps[k][1] \in Subtasks(n)
    BY DependencyType, InToSet
  <2> QED BY <1>6, <2>1
<1>8. s.degree[i] = 0
  <2>1. DOMAIN s.degree = Subtasks(n) /\ Counted(s, [h \in Subtasks(n) |-> Unmet(h, deps, ToSet(o))])
    BY DEF KahnInv, KahnStates, o
  <2>2. s.degree[i] = Cardinality(Unmet(i, deps, ToSet(o)))
    BY <2>1 DEF Counted
  <2> QED BY <1>7, <2>2, FS_EmptySet
<1>9. i \in ToSet(o)
  <2>1. DOMAIN s.degree = Subtasks(n) /\ Counted(s, [h \in Subtasks(n) |-> Unmet(h, deps, ToSet(o))])
    BY DEF KahnInv, KahnStates, o
  <2> QED BY <1>2, <1>8, <2>1 DEF Counted
<1> QED BY <1>9

(* Whatever the dependencies listed, duplicates, cycles and subtasks that do not
   exist among them, an order is found exactly when there is one, and every
   subtask comes once and after all it depends on. *)
THEOREM SortsAll ==
  ASSUME NEW n \in Nat, NEW deps \in Seq(Nat \X Nat)
  PROVE  LET sorted == TopologicalSort(n, deps)
         IN  /\ sorted.found <=> InRange(n, deps) /\ Acyclic(n, deps)
             /\ sorted.found => /\ IsSchedule(sorted.order, n, deps) /\ Distinct(sorted.order)
                                /\ sorted.order \in Seq(Subtasks(n))
<1>1. CASE ~ InRange(n, deps)
  BY <1>1 DEF TopologicalSort
<1>2. CASE InRange(n, deps)
  <2>1. Sortable(n, deps)
    BY <1>2 DEF Sortable
  <2>2. PICK s : /\ KahnInv(s, n, deps) /\ Kahn(n, deps) = s.order
                 /\ s.queue = <<>> \/ Len(s.order) = n
    BY <2>1, KahnEnds
  <2> DEFINE sorted == TopologicalSort(n, deps)
  <2>3. (sorted.found <=> Len(s.order) = n) /\ sorted.order = s.order
    BY <1>2, <2>2 DEF TopologicalSort
  <2>4. Len(s.order) = n <=> Acyclic(n, deps)
    BY <2>1, <2>2, ScheduleAcyclic, AcyclicAllOut
  <2>5. Len(s.order) = n => /\ IsSchedule(s.order, n, deps) /\ Distinct(s.order)
                            /\ s.order \in Seq(Subtasks(n))
    BY <2>1, <2>2, MetIsSchedule
  <2> HIDE DEF sorted
  <2>6. /\ sorted.found <=> InRange(n, deps) /\ Acyclic(n, deps)
        /\ sorted.found => /\ IsSchedule(sorted.order, n, deps) /\ Distinct(sorted.order)
                           /\ sorted.order \in Seq(Subtasks(n))
    BY <1>2, <2>3, <2>4, <2>5
  <2> QED BY <2>6 DEF sorted
<1> QED BY <1>1, <1>2

--------------------------------------------------------------------------------
(* The inductive invariant of execution *)

Sides == Agents \cup {Orch}
Calls == {"send", "sending", "wait", "return"}
Working == {"dispatch"} \cup Calls
Over == {"completed", "failed"}
Reasons == {"unassigned", "no_bus", "no_subscriber", "timeout", "reply"}
Entry ==
    [subtask : DOMAIN required, pid : Agents \cup {None}, id : Ids \cup {None},
     why : Reasons, reply : Message \cup {None}]

(* The plan, as it was given. *)
PlanTyped ==
    /\ Size \in Nat /\ DOMAIN required = Subtasks(Size)
    /\ \A i \in DOMAIN required : IsFiniteSet(required[i])
    /\ dependencies \in Seq(Nat \X Nat)
    /\ agents \in Seq(ToSet(agents)) /\ \A r \in ToSet(agents) : r.pid \in Agents

Typed ==
    /\ assigned \in [DOMAIN required -> Agents \cup {None}]
    /\ status \in [DOMAIN required -> {"pending", "running"} \cup Over]
    /\ todo \in Seq(DOMAIN required)
    /\ pc \in {"plan", "next", "end"} \cup Working
    /\ attempt \in {1, 2}
    /\ report \in {"none", "success", "failed", "cyclic"}
    /\ log \in Seq(Entry)

BusTyped ==
    /\ subscriptions \in [Ids \cup {Inbox} -> Seq([pid : Sides, chan : Chans])]
    /\ direct \in [Sides -> Chans \cup {None}]
    /\ buffer \in [Chans -> Seq(Message)]
    /\ receiver \in [Chans -> {"unused", "open", "dropped"}]
    /\ sending \in [Sides -> [msg : Message \cup {None}, todo : Seq(Chans)]]
    /\ \A k \in Sides : sending[k].todo # <<>> => sending[k].msg \in Message

CallTyped ==
    /\ job \in [Agents -> Message \cup {None}]
    /\ call \in [id : Ids \cup {None}, chan : Chans \cup {None}, outcome : {"ok", "err", None},
                 why : Reasons \cup {"none"}, reply : Message \cup {None}]

(* A channel nobody has is not in use anywhere, and a direct channel is one
   agent's. *)
Wired ==
    /\ \A p \in Sides : direct[p] # None => receiver[direct[p]] # "unused"
    /\ \A p, q \in Sides : direct[p] = direct[q] /\ direct[p] # None => p = q
    /\ \A t \in Ids \cup {Inbox} : \A i \in DOMAIN subscriptions[t] :
          receiver[subscriptions[t][i].chan] # "unused"
    /\ \A k \in Sides : \A i \in DOMAIN sending[k].todo : receiver[sending[k].todo[i]] # "unused"
    /\ \A c \in Chans : receiver[c] = "unused" => buffer[c] = <<>>

(* A channel that gets the messages of one topic only. *)
OfTopic(lists, sends, buffers, c, id) ==
    /\ \A t \in Ids \cup {Inbox} : \A i \in DOMAIN lists[t] : lists[t][i].chan = c => t = id
    /\ \A k \in Sides : \A i \in DOMAIN sends[k].todo :
          sends[k].todo[i] = c => sends[k].msg.id = id
    /\ \A i \in DOMAIN buffers[c] : buffers[c][i].id = id

(* During a dispatch the reply channel is the orchestrator's, and what comes in
   there was published under the dispatch's own topic. *)
Private ==
    /\ pc \notin Calls => call = NoCall
    /\ pc \in Calls =>
          /\ call.id \in Ids /\ call.chan \in Chans /\ assigned[Current] # None
          /\ receiver[call.chan] = "open" /\ direct[Orch] = call.chan
          /\ OfTopic(subscriptions, sending, buffer, call.chan, call.id)

(* What a dispatch is about to return. *)
Returning ==
    pc = "return" =>
        /\ call.outcome \in {"ok", "err"} /\ call.why \in {"no_subscriber", "timeout", "reply"}
        /\ call.why # "reply" => call.outcome = "ok"
        /\ call.why = "reply" =>
              /\ call.reply \in Message /\ call.reply.id = call.id
              /\ call.outcome = "ok" <=> call.reply.method = "task.done"

(* The subtasks before the current one have ended, those after it wait. *)
Scheduled ==
    /\ Distinct(todo)
    /\ pc \in Working => todo # <<>>
    /\ \A i \in DOMAIN status : status[i] = "running" <=> pc \in Working /\ i = Current
    /\ pc = "plan" => todo = <<>> /\ log = <<>> /\ \A i \in DOMAIN status : status[i] = "pending"
    /\ pc \notin {"plan", "end"} =>
          /\ \A i \in DOMAIN status :
                status[i] = "pending" <=> i \in ToSet(todo) /\ (pc \in Working => i # Current)
          /\ InRange(Size, dependencies)
          /\ \A k \in DOMAIN dependencies : \A j \in DOMAIN todo : todo[j] = dependencies[k][2] =>
                \A h \in DOMAIN todo : todo[h] = dependencies[k][1] => h < j

Succeeded(d) == d.why # "unassigned" /\ (d.why = "reply" => d.reply.method = "task.done")

(* A subtask that is still to be done has been tried once, just now, by another
   agent and in vain; the status of the others says how their last try ended. *)
Tried ==
    /\ \A k \in DOMAIN log : log[k].subtask \in ToSet(todo) =>
          /\ k = Len(log) /\ pc \in Working /\ log[k].subtask = Current /\ attempt = 2
          /\ log[k].pid # assigned[Current] /\ ~Succeeded(log[k])
    /\ \A k \in DOMAIN log :
          log[k].subtask \notin ToSet(todo)
            /\ (\A l \in DOMAIN log : log[l].subtask = log[k].subtask => l <= k) =>
          status[log[k].subtask] = IF Succeeded(log[k]) THEN "completed" ELSE "failed"
    /\ \A k \in DOMAIN log : log[k].why = "reply" =>
          log[k].reply \in Message /\ log[k].reply.id = log[k].id

IInv ==
    /\ PlanTyped /\ Typed /\ BusTyped /\ Wired /\ CallTyped /\ Private /\ Returning
    /\ Scheduled /\ Tried /\ DependenciesEnd /\ TriedTwice /\ ReportExact

(* A message under way is about a dispatch that has been made: it has the id that
   was given to it and names its subtask. *)
Buffered(buffers) == UNION {ToSet(buffers[c]) : c \in Chans}
BeingSent(sends) == {sends[k].msg : k \in {j \in Sides : sends[j].todo # <<>>}}
InHand(jobs) == {jobs[a] : a \in {b \in Agents : jobs[b] # None}}

InTransit(buffers, sends, jobs) == Buffered(buffers) \cup BeingSent(sends) \cup InHand(jobs)

UnderWay == InTransit(buffer, sending, job)

Asked ==
    {<<log[k].id, log[k].subtask>> : k \in DOMAIN log}
        \cup {p \in {<<call.id, Current>>} : call.id \in Ids}

Believed == pc = "return" /\ call.why = "reply" => <<call.id, call.reply.subtask>> \in Asked

BelievedOnce ==
    \A k \in DOMAIN log : log[k].why = "reply" =>
        \E j \in 1 .. k : log[j].id = log[k].id /\ log[j].subtask = log[k].reply.subtask

AllKnown ==
    /\ \A m \in UnderWay : <<m.id, m.subtask>> \in Asked
    /\ Believed /\ BelievedOnce

--------------------------------------------------------------------------------
(* The bus keeps its lines apart *)

LEMMA FreshChanUnused == Unused # {} => FreshChan \in Chans /\ receiver[FreshChan] = "unused"
BY DEF Unused, FreshChan

LEMMA SubscriptionType ==
  ASSUME BusTyped, NEW t \in Ids \cup {Inbox}, NEW i \in DOMAIN subscriptions[t]
  PROVE  subscriptions[t][i] \in [pid : Sides, chan : Chans] /\ subscriptions[t][i].chan \in Chans
<1> DEFINE s == subscriptions[t]
           Sub == [pid : Sides, chan : Chans]
<1>1. s \in Seq(Sub) /\ i \in DOMAIN s
  BY DEF BusTyped
<1> HIDE DEF s, Sub
<1>2. s[i] \in Sub
  BY <1>1, ElementOfSeq, LenProperties
<1> QED BY <1>2 DEF s, Sub

LEMMA NewSubscription ==
  ASSUME BusTyped, NEW p \in Sides, NEW t \in Ids \cup {Inbox}, NEW c \in Chans,
         Bus!Subscribe(p, t, c)
  PROVE  /\ subscriptions' \in [Ids \cup {Inbox} -> Seq([pid : Sides, chan : Chans])]
         /\ \A u \in Ids \cup {Inbox} : \A i \in DOMAIN subscriptions'[u] :
               \/ i \in DOMAIN subscriptions[u] /\ subscriptions'[u][i] = subscriptions[u][i]
               \/ u = t /\ subscriptions'[u][i].chan = c
<1> DEFINE Sub == [pid : Sides, chan : Chans]
           s == [pid |-> p, chan |-> c]
           q == subscriptions[t]
<1>1. subscriptions' = [subscriptions EXCEPT ![t] = Append(q, s)]
  BY DEF Bus!Subscribe
<1>2. /\ subscriptions \in [Ids \cup {Inbox} -> Seq(Sub)] /\ s \in Sub /\ s.chan = c
      /\ q \in Seq(Sub)
  BY DEF BusTyped
<1> HIDE DEF Sub, s
<1>3. /\ Append(q, s) \in Seq(Sub)
      /\ DOMAIN Append(q, s) = 1 .. Len(q) + 1 /\ DOMAIN q = 1 .. Len(q) /\ Len(q) \in Nat
      /\ Append(q, s)[Len(q) + 1] = s /\ \A i \in 1 .. Len(q) : Append(q, s)[i] = q[i]
  <2> HIDE DEF q
  <2> QED BY <1>2, AppendProperties, LenProperties
<1>4. /\ subscriptions' \in [Ids \cup {Inbox} -> Seq(Sub)] /\ subscriptions'[t] = Append(q, s)
      /\ \A u \in Ids \cup {Inbox} : u # t => subscriptions'[u] = subscriptions[u]
  BY <1>1, <1>2, <1>3
<1>5. ASSUME NEW i \in DOMAIN Append(q, s)
      PROVE  (i \in DOMAIN q /\ Append(q, s)[i] = q[i]) \/ Append(q, s)[i].chan = c
  <2>1. i \in 1 .. Len(q) \/ i = Len(q) + 1
    BY <1>3
  <2> QED BY <1>2, <1>3, <2>1
<1> QED BY <1>4, <1>5 DEF Sub

LEMMA SubscribeWired ==
  ASSUME BusTyped, Wired, NEW p \in Sides, NEW t \in Ids \cup {Inbox}, NEW c \in Chans,
         Bus!Subscribe(p, t, c)
  PROVE  /\ BusTyped' /\ Wired' /\ direct'[p] = c /\ receiver'[c] = "open"
         /\ \A q \in Sides : q # p => direct'[q] = direct[q]
         /\ \A d \in Chans : d # c => receiver'[d] = receiver[d]
<1>1. /\ receiver[c] = "unused" /\ receiver' = [receiver EXCEPT ![c] = "open"]
      /\ direct' = [direct EXCEPT ![p] = c]
      /\ UNCHANGED <<buffer, sending>>
  BY DEF Bus!Subscribe, Bus!offline
<1>2. /\ direct \in [Sides -> Chans \cup {None}]
      /\ receiver \in [Chans -> {"unused", "open", "dropped"}]
  BY DEF BusTyped
<1>3. direct' \in [Sides -> Chans \cup {None}] /\ receiver' \in [Chans -> {"unused", "open", "dropped"}]
  BY <1>1, <1>2
<1>4. BusTyped'
  BY <1>1, <1>3, NewSubscription DEF BusTyped
<1>5. /\ \A d \in Chans : d # c => receiver'[d] = receiver[d]
      /\ receiver'[c] = "open"
      /\ \A q \in Sides : direct'[q] = IF q = p THEN c ELSE direct[q]
  BY <1>1, <1>2
<1>6. \A q \in Sides : direct[q] # None => direct[q] \in Chans /\ direct[q] # c
  BY <1>1, <1>2 DEF Wired
<1>7. \A q \in Sides : direct'[q] # None => receiver'[direct'[q]] # "unused"
  BY <1>5, <1>6 DEF Wired
<1>8. \A q, r \in Sides : direct'[q] = direct'[r] /\ direct'[q] # None => q = r
  BY <1>5, <1>6 DEF Wired
<1>9. \A d \in Chans : receiver[d] # "unused" => receiver'[d] # "unused"
  BY <1>5
<1>10. ASSUME NEW u \in Ids \cup {Inbox}, NEW i \in DOMAIN subscriptions'[u]
       PROVE  receiver'[subscriptions'[u][i].chan] # "unused"
  <2>1. CASE i \in DOMAIN subscriptions[u] /\ subscriptions'[u][i] = subscriptions[u][i]
    <3>1. subscriptions[u][i].chan \in Chans /\ receiver[subscriptions[u][i].chan] # "unused"
      BY <2>1, SubscriptionType DEF Wired
    <3> QED BY <1>9, <2>1, <3>1, Zenon
  <2>2. CASE subscriptions'[u][i].chan = c
    BY <1>5, <2>2
  <2> QED BY <2>1, <2>2, NewSubscription
<1>11. \A k \in Sides : \A i \in DOMAIN sending'[k].todo : receiver'[sending'[k].todo[i]] # "unused"
  <2> TAKE k \in Sides
  <2> DEFINE targets == sending[k].todo
  <2>1. targets \in Seq(Chans) /\ \A i \in DOMAIN targets : receiver[targets[i]] # "unused"
    BY DEF BusTyped, Wired
  <2> HIDE DEF targets
  <2>2. \A i \in DOMAIN targets : targets[i] \in Chans /\ receiver'[targets[i]] # "unused"
    BY <1>5, <2>1, ElementOfSeq, LenProperties
  <2> QED BY <1>1, <2>2 DEF targets
<1>12. \A d \in Chans : receiver'[d] = "unused" => buffer'[d] = <<>>
  BY <1>1, <1>5 DEF Wired
<1> QED BY <1>4, <1>5, <1>7, <1>8, <1>10, <1>11, <1>12 DEF Wired

LEMMA BeginWired ==
  ASSUME BusTyped, Wired, NEW k \in Sides, NEW m \in Message, NEW targets \in Seq(Chans),
         \A i \in DOMAIN targets : receiver[targets[i]] # "unused",
         Bus!Begin(k, m, targets)
  PROVE  /\ BusTyped' /\ Wired'
         /\ \A j \in Sides : j # k => sending'[j] = sending[j]
         /\ sending'[k].todo = targets /\ (targets # <<>> => sending'[k].msg = m)
<1> DEFINE new == IF targets = <<>> THEN [msg |-> None, todo |-> <<>>]
                                    ELSE [msg |-> m, todo |-> targets]
<1>1. /\ sending' = [sending EXCEPT ![k] = new]
      /\ UNCHANGED <<subscriptions, direct, buffer, receiver>>
  BY DEF Bus!Begin, Bus!Idle, Bus!offline
<1>2. /\ new \in [msg : Message \cup {None}, todo : Seq(Chans)] /\ new.todo = targets
      /\ targets # <<>> => new.msg = m
  <2>1. <<>> \in Seq(Chans)
    BY EmptySeq
  <2> QED BY <2>1
<1> HIDE DEF new
<1>3. sending \in [Sides -> [msg : Message \cup {None}, todo : Seq(Chans)]]
  BY DEF BusTyped
<1>4. /\ sending' \in [Sides -> [msg : Message \cup {None}, todo : Seq(Chans)]]
      /\ sending'[k] = new /\ \A j \in Sides : j # k => sending'[j] = sending[j]
  BY <1>1, <1>2, <1>3
<1>5. \A j \in Sides : sending'[j].todo # <<>> => sending'[j].msg \in Message
  BY <1>2, <1>4 DEF BusTyped
<1>6. BusTyped'
  BY <1>1, <1>4, <1>5 DEF BusTyped
<1>7. \A j \in Sides : \A i \in DOMAIN sending'[j].todo : receiver'[sending'[j].todo[i]] # "unused"
  BY <1>1, <1>2, <1>4 DEF Wired
<1> QED BY <1>1, <1>2, <1>4, <1>6, <1>7 DEF Wired

LEMMA ReceiveWired ==
  ASSUME BusTyped, Wired, NEW c \in Chans, Bus!Receive(c)
  PROVE  /\ BusTyped' /\ Wired' /\ Head(buffer[c]) \in Message
         /\ buffer[c] # <<>> /\ buffer[c] \in Seq(Message) /\ buffer'[c] = Tail(buffer[c])
         /\ \A d \in Chans : d # c => buffer'[d] = buffer[d]
<1>1. /\ buffer[c] # <<>> /\ buffer' = [buffer EXCEPT ![c] = Tail(buffer[c])]
      /\ receiver[c] = "open"
      /\ UNCHANGED <<subscriptions, direct, receiver, sending>>
  BY DEF Bus!Receive, Bus!offline
<1>2. buffer \in [Chans -> Seq(Message)] /\ buffer[c] \in Seq(Message)
  BY DEF BusTyped
<1>3. Head(buffer[c]) \in Message /\ Tail(buffer[c]) \in Seq(Message)
  BY <1>1, <1>2, HeadTailProperties
<1>4. /\ buffer' \in [Chans -> Seq(Message)] /\ buffer'[c] = Tail(buffer[c])
      /\ \A d \in Chans : d # c => buffer'[d] = buffer[d]
  BY <1>1, <1>2, <1>3
<1>5. BusTyped'
  BY <1>1, <1>4 DEF BusTyped
<1>6. Wired'
  BY <1>1, <1>4 DEF Wired
<1> QED BY <1>1, <1>2, <1>3, <1>4, <1>5, <1>6

LEMMA DropWired ==
  ASSUME BusTyped, Wired, NEW c \in Chans, Bus!Drop(c)
  PROVE  /\ BusTyped' /\ Wired' /\ buffer'[c] = <<>>
         /\ \A d \in Chans : d # c => buffer'[d] = buffer[d] /\ receiver'[d] = receiver[d]
<1>1. /\ buffer' = [buffer EXCEPT ![c] = <<>>] /\ receiver' = [receiver EXCEPT ![c] = "dropped"]
      /\ UNCHANGED <<subscriptions, direct, sending>>
  BY DEF Bus!Drop, Bus!offline
<1>2. buffer \in [Chans -> Seq(Message)] /\ receiver \in [Chans -> {"unused", "open", "dropped"}]
  BY DEF BusTyped
<1>3. <<>> \in Seq(Message)
  BY EmptySeq
<1>4. /\ buffer' \in [Chans -> Seq(Message)] /\ buffer'[c] = <<>>
      /\ receiver' \in [Chans -> {"unused", "open", "dropped"}] /\ receiver'[c] = "dropped"
      /\ \A d \in Chans : d # c => buffer'[d] = buffer[d] /\ receiver'[d] = receiver[d]
  BY <1>1, <1>2, <1>3
<1>5. BusTyped'
  BY <1>1, <1>4 DEF BusTyped
<1>6. \A d : receiver'[d] = receiver[d] \/ d = c
  BY <1>1
<1>7. Wired'
  BY <1>1, <1>4, <1>6 DEF Wired
<1> QED BY <1>4, <1>5, <1>7

LEMMA SendNextWired ==
  ASSUME BusTyped, Wired, NEW k \in Sides, Bus!SendNext(k)
  PROVE  /\ BusTyped' /\ Wired'
         /\ \A c \in Chans : \A i \in DOMAIN buffer'[c] :
               \/ i \in DOMAIN buffer[c] /\ buffer'[c][i] = buffer[c][i]
               \/ \E j \in DOMAIN sending[k].todo :
                     sending[k].todo[j] = c /\ buffer'[c][i] = sending[k].msg
         /\ sending[k].todo # <<>>
         /\ \A j \in Sides :
               /\ \A i \in DOMAIN sending'[j].todo : \E h \in DOMAIN sending[j].todo :
                     sending'[j].todo[i] = sending[j].todo[h]
               /\ sending'[j].todo # <<>> => sending[j].todo # <<>> /\ sending'[j].msg = sending[j].msg
<1> DEFINE targets == sending[k].todo
           m == sending[k].msg
           c == Head(targets)
           rest == Tail(targets)
           new == IF rest = <<>> THEN [msg |-> None, todo |-> <<>>]
                                 ELSE [sending[k] EXCEPT !.todo = rest]
<1>1. /\ targets # <<>>
      /\ \/ UNCHANGED buffer
         \/ buffer' = [buffer EXCEPT ![c] = Append(buffer[c], m)]
      /\ sending' = [sending EXCEPT ![k] = new]
      /\ UNCHANGED <<subscriptions, direct, receiver>>
      /\ receiver[c] = "unused" => UNCHANGED buffer
  BY DEF Bus!SendNext, Bus!AfterSend, Bus!Idle, Bus!offline
<1>2. /\ sending[k] \in [msg : Message \cup {None}, todo : Seq(Chans)]
      /\ targets \in Seq(Chans) /\ m \in Message
  BY <1>1 DEF BusTyped
<1> HIDE DEF targets, m
<1>3. /\ c \in Chans /\ rest \in Seq(Chans) /\ DOMAIN targets = 1 .. Len(targets)
      /\ Len(targets) \in Nat \ {0} /\ c = targets[1]
      /\ DOMAIN rest = 1 .. Len(targets) - 1
      /\ \A i \in 1 .. Len(targets) - 1 : rest[i] = targets[i + 1] /\ i + 1 \in DOMAIN targets
  BY <1>1, <1>2, HeadTailProperties, LenProperties, EmptySeq
<1>4. /\ new \in [msg : Message \cup {None}, todo : Seq(Chans)] /\ new.todo = rest
      /\ rest # <<>> => new.msg = m
  <2>1. <<>> \in Seq(Chans)
    BY EmptySeq
  <2> QED BY <1>2, <1>3, <2>1 DEF m
<1> HIDE DEF new, rest, c
<1>5. sending \in [Sides -> [msg : Message \cup {None}, todo : Seq(Chans)]]
      /\ buffer \in [Chans -> Seq(Message)]
  BY DEF BusTyped
<1>6. /\ sending' \in [Sides -> [msg : Message \cup {None}, todo : Seq(Chans)]]
      /\ sending'[k] = new /\ \A j \in Sides : j # k => sending'[j] = sending[j]
  BY <1>1, <1>4, <1>5
<1>7. /\ Append(buffer[c], m) \in Seq(Message)
      /\ DOMAIN buffer[c] = 1 .. Len(buffer[c]) /\ Len(buffer[c]) \in Nat
      /\ DOMAIN Append(buffer[c], m) = 1 .. Len(buffer[c]) + 1
      /\ Append(buffer[c], m)[Len(buffer[c]) + 1] = m
      /\ \A i \in 1 .. Len(buffer[c]) : Append(buffer[c], m)[i] = buffer[c][i]
  <2>1. buffer[c] \in Seq(Message)
    BY <1>3, <1>5
  <2> QED BY <1>2, <2>1, AppendProperties, LenProperties
<1>8. /\ buffer' \in [Chans -> Seq(Message)]
      /\ \A d \in Chans : d # c => buffer'[d] = buffer[d]
      /\ buffer'[c] = buffer[c] \/ buffer'[c] = Append(buffer[c], m)
  BY <1>1, <1>3, <1>5, <1>7
<1>9. \A j \in Sides :
         /\ \A i \in DOMAIN sending'[j].todo : \E h \in DOMAIN sending[j].todo :
               sending'[j].todo[i] = sending[j].todo[h]
         /\ sending'[j].todo # <<>> => sending[j].todo # <<>> /\ sending'[j].msg = sending[j].msg
  <2> TAKE j \in Sides
  <2>1. CASE j # k
    BY <1>6, <2>1
  <2>2. CASE j = k
    <3>1. sending'[j].todo = rest /\ (rest # <<>> => sending'[j].msg = m)
      BY <1>4, <1>6, <2>2
    <3>2. \A i \in DOMAIN rest : \E h \in DOMAIN targets : rest[i] = targets[h]
      BY <1>3
    <3> QED BY <1>1, <2>2, <3>1, <3>2 DEF targets, m
  <2> QED BY <2>1, <2>2
<1>10. BusTyped'
  <2>1. \A j \in Sides : sending'[j].todo # <<>> => sending'[j].msg \in Message
    BY <1>9 DEF BusTyped
  <2> QED BY <1>1, <1>6, <1>8, <2>1 DEF BusTyped
<1>11. \A d \in Chans : \A i \in DOMAIN buffer'[d] :
          \/ i \in DOMAIN buffer[d] /\ buffer'[d][i] = buffer[d][i]
          \/ \E j \in DOMAIN targets : targets[j] = d /\ buffer'[d][i] = m
  <2> TAKE d \in Chans
  <2> TAKE i \in DOMAIN buffer'[d]
  <2>1. CASE buffer'[d] = buffer[d]
    BY <2>1
  <2>2. CASE d = c /\ buffer'[c] = Append(buffer[c], m)
    <3>1. i \in DOMAIN Append(buffer[c], m)
      BY <2>2
    <3>2. i \in 1 .. Len(buffer[c]) \/ i = Len(buffer[c]) + 1
      BY <1>7, <3>1
    <3>3. 1 \in DOMAIN targets /\ targets[1] = d
      BY <1>3, <2>2
    <3> QED BY <1>7, <2>2, <3>2, <3>3
  <2> QED BY <1>8, <2>1, <2>2
<1>12. \A j \in Sides : \A i \in DOMAIN sending'[j].todo : receiver'[sending'[j].todo[i]] # "unused"
  BY <1>1, <1>9 DEF Wired
<1>13. \A d \in Chans : receiver'[d] = "unused" => buffer'[d] = <<>>
  BY <1>1, <1>8 DEF Wired
<1>14. Wired'
  BY <1>1, <1>12, <1>13 DEF Wired
<1> QED BY <1>1, <1>9, <1>10, <1>11, <1>14 DEF targets, m

LEMMA ChansOfWired ==
  ASSUME BusTyped, Wired, NEW t \in Ids \cup {Inbox}
  PROVE  /\ Bus!ChansOf(t) \in Seq(Chans)
         /\ DOMAIN Bus!ChansOf(t) = DOMAIN subscriptions[t]
         /\ \A i \in DOMAIN subscriptions[t] : /\ Bus!ChansOf(t)[i] = subscriptions[t][i].chan
                                               /\ receiver[Bus!ChansOf(t)[i]] # "unused"
<1> DEFINE s == subscriptions[t]
           targets == [i \in DOMAIN s |-> s[i].chan]
<1>1. Len(s) \in Nat /\ DOMAIN s = 1 .. Len(s)
  BY LenProperties DEF BusTyped
<1>2. \A i \in DOMAIN s : s[i].chan \in Chans
  BY SubscriptionType
<1> HIDE DEF s
<1>3. targets \in Seq(Chans)
  BY <1>1, <1>2
<1> QED BY <1>3 DEF s, Bus!ChansOf, Wired

--------------------------------------------------------------------------------
(* The plan goes on *)

Progress == PlanTyped /\ Typed /\ Scheduled /\ Tried /\ DependenciesEnd /\ TriedTwice /\ ReportExact

LEMMA BestPid ==
  ASSUME PlanTyped, NEW list \in Seq(ToSet(agents)), list # <<>>, NEW i \in DOMAIN required
  PROVE  \E r \in ToSet(list) : BestAgent(list, required[i], None) = r.pid /\ r.pid \in Agents
<1>1. PICK k \in DOMAIN list : BestAgent(list, required[i], None) = list[k].pid
  BY BestAgentBest DEF PlanTyped
<1>2. list[k] \in ToSet(list) /\ list[k] \in ToSet(agents)
  BY InToSet, ToSetType
<1> QED BY <1>1, <1>2 DEF PlanTyped

LEMMA BestOther ==
  ASSUME PlanTyped, Typed, todo # <<>>, Others # <<>>
  PROVE  LET pid == BestAgent(Others, required[Current], None)
         IN  pid \in Agents /\ pid # assigned[Current]
<1> DEFINE S == {r \in ToSet(agents) : r.pid # assigned[Current]}
<1>1. Others = Only(agents, S) /\ agents \in Seq(ToSet(agents))
  BY DEF Others, PlanTyped
<1> HIDE DEF S
<1>2. Others \in Seq(ToSet(agents)) /\ ToSet(Others) \subseteq S
  BY <1>1, OnlyType, OnlyRange
<1>3. Current \in DOMAIN required
  BY HeadTailProperties DEF Typed, Current
<1>4. PICK r \in ToSet(Others) : BestAgent(Others, required[Current], None) = r.pid /\ r.pid \in Agents
  BY <1>2, <1>3, BestPid
<1>5. r.pid # assigned[Current]
  BY <1>2 DEF S
<1> QED BY <1>4, <1>5

LEMMA FirstIsCurrent ==
  ASSUME Typed, Scheduled, todo # <<>>
  PROVE  /\ Current \in DOMAIN required /\ Current = todo[1] /\ 1 \in DOMAIN todo
         /\ Len(todo) \in Nat /\ DOMAIN todo = 1 .. Len(todo)
         /\ Tail(todo) \in Seq(DOMAIN required) /\ Distinct(Tail(todo))
         /\ Current \notin ToSet(Tail(todo)) /\ ToSet(todo) = {Current} \cup ToSet(Tail(todo))
         /\ DOMAIN Tail(todo) = 1 .. Len(todo) - 1
         /\ \A j \in DOMAIN Tail(todo) : Tail(todo)[j] = todo[j + 1] /\ j + 1 \in DOMAIN todo
<1>1. todo \in Seq(DOMAIN required) /\ Distinct(todo)
  BY DEF Typed, Scheduled
<1>2. /\ Len(todo) \in Nat \ {0} /\ DOMAIN todo = 1 .. Len(todo) /\ Head(todo) = todo[1]
      /\ Head(todo) \in DOMAIN required /\ Tail(todo) \in Seq(DOMAIN required)
      /\ DOMAIN Tail(todo) = 1 .. Len(todo) - 1
      /\ \A j \in 1 .. Len(todo) - 1 : Tail(todo)[j] = todo[j + 1]
  BY <1>1, EmptySeq, LenProperties, HeadTailProperties
<1>3. /\ Distinct(Tail(todo)) /\ Head(todo) \notin ToSet(Tail(todo))
      /\ ToSet(todo) = {Head(todo)} \cup ToSet(Tail(todo))
  BY <1>1, DistinctTail, ToSetTail
<1> QED BY <1>2, <1>3 DEF Current

LEMMA FinishProgress ==
  ASSUME PlanTyped, Typed, Scheduled, DependenciesEnd, pc \in Working,
         NEW s \in Over, Finish(s), UNCHANGED <<plan, report>>, log' \in Seq(Entry)
  PROVE  Typed' /\ Scheduled' /\ DependenciesEnd'
<1> DEFINE c == Current
           rest == Tail(todo)
<1>1. /\ todo # <<>> /\ InRange(Size, dependencies) /\ DOMAIN required = Subtasks(Size)
      /\ status \in [DOMAIN required -> {"pending", "running"} \cup Over]
      /\ \A i \in DOMAIN status : status[i] = "running" <=> i = c
      /\ \A i \in DOMAIN status : status[i] = "pending" <=> i \in ToSet(todo) /\ i # c
      /\ \A k \in DOMAIN dependencies : \A j \in DOMAIN todo : todo[j] = dependencies[k][2] =>
            \A h \in DOMAIN todo : todo[h] = dependencies[k][1] => h < j
  BY DEF PlanTyped, Typed, Scheduled, Working, Calls
<1>2. /\ c \in DOMAIN required /\ rest \in Seq(DOMAIN required) /\ Distinct(rest)
      /\ c \notin ToSet(rest) /\ ToSet(todo) = {c} \cup ToSet(rest)
      /\ Len(todo) \in Nat /\ DOMAIN rest = 1 .. Len(todo) - 1
      /\ \A j \in DOMAIN rest : rest[j] = todo[j + 1] /\ j + 1 \in DOMAIN todo
  BY <1>1, FirstIsCurrent
<1>3. /\ status' = [status EXCEPT ![c] = s] /\ todo' = rest /\ pc' = "next"
      /\ UNCHANGED <<assigned, attempt, agents, dependencies, required, report>>
  BY DEF Finish, plan
<1> HIDE DEF c, rest
<1>4. /\ status' \in [DOMAIN required -> {"pending", "running"} \cup Over]
      /\ status'[c] = s /\ \A i \in DOMAIN required : i # c => status'[i] = status[i]
      /\ DOMAIN status' = DOMAIN required /\ DOMAIN status = DOMAIN required
  BY <1>1, <1>2, <1>3
<1>5. Typed'
  BY <1>2, <1>3, <1>4 DEF Typed, Entry, Working, Calls
<1>6. Scheduled'
  <2>1. Distinct(todo)' /\ pc' \notin Working /\ pc' \notin {"plan", "end"}
    BY <1>2, <1>3 DEF Distinct, Working, Calls
  <2>2. \A i \in DOMAIN status' : status'[i] # "running" /\ (status'[i] = "pending" <=> i \in ToSet(rest))
    BY <1>1, <1>2, <1>4 DEF Over
  <2>3. InRange(Size, dependencies)' /\ ToSet(todo)' = ToSet(rest)
    BY <1>1, <1>3 DEF InRange, Size, ToSet, Subtasks
  <2>4. \A k \in DOMAIN dependencies : \A j \in DOMAIN rest : rest[j] = dependencies[k][2] =>
           \A h \in DOMAIN rest : rest[h] = dependencies[k][1] => h < j
    BY <1>1, <1>2
  <2> QED BY <1>3, <2>1, <2>2, <2>3, <2>4 DEF Scheduled
<1>7. DependenciesEnd'
  <2> SUFFICES ASSUME NEW i \in DOMAIN status', status'[i] # "pending",
                      NEW d \in ToSet(dependencies), d[2] = i
               PROVE  status'[d[1]] \in Over
    BY <1>3 DEF DependenciesEnd, Over, ToSet
  <2>1. status[i] # "pending" /\ i \in DOMAIN status
    BY <1>1, <1>2, <1>4
  <2>2. status[d[1]] \in Over /\ d[1] \in DOMAIN status
    BY <1>1, <1>4, <2>1 DEF DependenciesEnd, Over, InRange
  <2> QED BY <1>4, <2>2
<1> QED BY <1>5, <1>6, <1>7

(* What AfterDispatch leaves behind. *)
Logged(why, reply) ==
    \E e \in Entry : /\ log' = Append(log, e) /\ e.subtask = Current /\ e.id = call.id
                     /\ e.why = why /\ e.reply = reply

(* A dispatch that has returned, whatever it returned. *)
LEMMA DispatchEnds ==
  ASSUME Progress, pc \in Working, UNCHANGED <<plan, report>>, CallTyped,
         NEW outcome, NEW why \in Reasons, NEW reply \in Message \cup {None},
         why = "reply" => reply \in Message /\ reply.id = call.id,
         outcome = "ok" <=> why # "unassigned" /\ (why = "reply" => reply.method = "task.done"),
         AfterDispatch(outcome, why, reply)
  PROVE  /\ Progress' /\ pc' \in {"next", "dispatch"} /\ call' = NoCall /\ Logged(why, reply)
<1> DEFINE c == Current
           e == [subtask |-> c, pid |-> assigned[c], id |-> call.id, why |-> why, reply |-> reply]
           n == Len(log)
<1>1. PlanTyped /\ Typed /\ Scheduled /\ Tried /\ DependenciesEnd /\ TriedTwice
  BY DEF Progress
<1>2. /\ todo # <<>> /\ c \in DOMAIN required /\ c \in ToSet(todo) /\ c \notin ToSet(Tail(todo))
      /\ ToSet(todo) = {c} \cup ToSet(Tail(todo))
  BY <1>1, FirstIsCurrent DEF Scheduled
<1>3. e \in Entry
  <2>1. call.id \in Ids \cup {None} /\ assigned[c] \in Agents \cup {None}
    BY <1>1, <1>2 DEF CallTyped, Typed
  <2> QED BY <1>2, <2>1 DEF Entry
<1>4. log' = Append(log, e) /\ call' = NoCall
  BY DEF AfterDispatch
<1>5. Succeeded(e) <=> outcome = "ok"
  BY DEF Succeeded
<1>6. /\ e.subtask = c /\ e.pid = assigned[c] /\ e.id = call.id /\ e.why = why /\ e.reply = reply
      /\ why = "reply" => e.reply \in Message /\ e.reply.id = e.id
  OBVIOUS
<1> HIDE DEF e, c
<1>7. /\ log \in Seq(Entry) /\ n \in Nat /\ DOMAIN log = 1 .. n
      /\ log' \in Seq(Entry) /\ Len(log') = n + 1 /\ DOMAIN log' = 1 .. n + 1
      /\ log'[n + 1] = e /\ \A k \in 1 .. n : log'[k] = log[k]
  BY <1>1, <1>3, <1>4, AppendProperties, LenProperties DEF Typed
<1>8. \A k \in 1 .. n : log[k].subtask \in ToSet(todo) =>
         /\ k = n /\ log[k].subtask = c /\ attempt = 2 /\ log[k].pid # assigned[c]
  BY <1>1, <1>7 DEF Tried, c
<1>9. \A k \in 1 .. n + 1 : log'[k].why = "reply" =>
         log'[k].reply \in Message /\ log'[k].reply.id = log'[k].id
  BY <1>1, <1>6, <1>7 DEF Tried
<1>10. TriedTwice'
  <2> SUFFICES ASSUME NEW j \in 1 .. n + 1, NEW k \in 1 .. n + 1,
                      j < k, log'[j].subtask = log'[k].subtask
               PROVE  k = j + 1 /\ log'[j].pid # log'[k].pid
    BY <1>7 DEF TriedTwice
  <2>1. CASE k \in 1 .. n
    <3>1. j \in 1 .. n
      BY <1>7, <2>1
    <3> QED BY <1>1, <1>7, <2>1, <3>1 DEF TriedTwice
  <2>2. CASE k = n + 1
    <3>1. j \in 1 .. n
      BY <1>7, <2>2
    <3>2. log[j].subtask = c
      BY <1>6, <1>7, <2>2, <3>1
    <3> QED BY <1>2, <1>6, <1>7, <1>8, <2>2, <3>1, <3>2
  <2> QED BY <1>7, <2>1, <2>2
<1>11. PlanTyped'
  BY <1>1 DEF plan, PlanTyped, Size
<1>12. ASSUME NEW s \in Over, Finish(s), s = "completed" <=> Succeeded(e)
       PROVE  Typed' /\ Scheduled' /\ DependenciesEnd' /\ Tried' /\ pc' = "next"
  <2>1. Typed' /\ Scheduled' /\ DependenciesEnd'
    BY <1>1, <1>7, <1>12, FinishProgress
  <2>2. /\ pc' = "next" /\ todo' = Tail(todo) /\ status' = [status EXCEPT ![c] = s]
        /\ status'[c] = s /\ \A i \in DOMAIN required : i # c => status'[i] = status[i]
    BY <1>1, <1>2, <1>12 DEF Finish, c, Typed
  <2>3. \A k \in 1 .. n + 1 : log'[k].subtask \notin ToSet(Tail(todo))
    <3> TAKE k \in 1 .. n + 1
    <3>1. CASE k = n + 1
      BY <1>2, <1>6, <1>7, <3>1
    <3>2. CASE k \in 1 .. n
      <4>1. log[k].subtask \in ToSet(Tail(todo)) => log[k].subtask = c
        BY <1>2, <1>8, <3>2
      <4> QED BY <1>2, <1>7, <3>2, <4>1
    <3> QED BY <1>7, <3>1, <3>2
  <2>4. ASSUME NEW k \in 1 .. n + 1,
               \A l \in 1 .. n + 1 : log'[l].subtask = log'[k].subtask => l <= k
        PROVE  status'[log'[k].subtask] = IF Succeeded(log'[k]) THEN "completed" ELSE "failed"
    <3>1. CASE k = n + 1
      BY <1>6, <1>7, <1>12, <2>2, <3>1 DEF Over
    <3>2. CASE k \in 1 .. n
      <4>1. log[k].subtask # c /\ log[k] \in Entry
        BY <1>6, <1>7, <2>4, <3>2, ElementOfSeq
      <4>2. log[k].subtask \notin ToSet(todo) /\ log[k].subtask \in DOMAIN required
        BY <1>8, <3>2, <4>1 DEF Entry
      <4>3. \A l \in 1 .. n : log[l].subtask = log[k].subtask => l <= k
        BY <1>7, <2>4, <3>2
      <4>4. status[log[k].subtask] = IF Succeeded(log[k]) THEN "completed" ELSE "failed"
        BY <1>1, <1>7, <3>2, <4>2, <4>3 DEF Tried
      <4> QED BY <1>7, <2>2, <3>2, <4>1, <4>2, <4>4
    <3> QED BY <1>7, <3>1, <3>2
  <2>5. ToSet(todo)' = ToSet(Tail(todo)) /\ \A k : Succeeded(log[k])' <=> Succeeded(log'[k])
    BY <2>2 DEF ToSet, Succeeded
  <2>6. Tried'
    BY <1>7, <1>9, <2>2, <2>3, <2>4, <2>5 DEF Tried
  <2> QED BY <2>1, <2>2, <2>6
<1>13. ASSUME attempt = 1, Others # <<>>, Retry, ~ Succeeded(e)
       PROVE  Typed' /\ Scheduled' /\ DependenciesEnd' /\ Tried' /\ pc' = "dispatch"
  <2> DEFINE pid == BestAgent(Others, required[c], None)
  <2>1. pid \in Agents /\ pid # assigned[c]
    BY <1>1, <1>2, <1>13, BestOther DEF c
  <2>2. /\ assigned' = [assigned EXCEPT ![c] = pid] /\ pc' = "dispatch" /\ attempt' = 2
        /\ UNCHANGED <<status, todo, agents, dependencies, required, report>>
    BY <1>13 DEF Retry, c, plan
  <2> HIDE DEF pid
  <2>3. Typed'
    BY <1>1, <1>2, <1>7, <2>1, <2>2 DEF Typed, Entry, Working, Calls
  <2>4. Current' = c /\ assigned'[c] = pid /\ pc' \in Working /\ Size' = Size
    BY <1>1, <1>2, <2>2 DEF Current, c, Typed, Working, Size
  <2>5. Scheduled' /\ DependenciesEnd'
    BY <1>1, <2>2, <2>4
       DEF Scheduled, DependenciesEnd, InRange, Subtasks, Working, Calls, c, Distinct, ToSet
  <2>6. \A k \in 1 .. n : log[k].subtask \notin ToSet(todo)
    BY <1>8, <1>13
  <2>7. \A k \in 1 .. n + 1 : log'[k].subtask \in ToSet(todo) =>
           k = n + 1 /\ log'[k].subtask = c /\ log'[k].pid # pid /\ ~ Succeeded(log'[k])
    BY <1>6, <1>7, <1>13, <2>1, <2>6
  <2>8. ASSUME NEW k \in 1 .. n + 1, log'[k].subtask \notin ToSet(todo),
               \A l \in 1 .. n + 1 : log'[l].subtask = log'[k].subtask => l <= k
        PROVE  status[log'[k].subtask] = IF Succeeded(log'[k]) THEN "completed" ELSE "failed"
    <3>1. k \in 1 .. n
      BY <1>2, <1>6, <1>7, <2>8
    <3>2. \A l \in 1 .. n : log[l].subtask = log[k].subtask => l <= k
      BY <1>7, <2>8, <3>1
    <3> QED BY <1>1, <1>7, <2>8, <3>1, <3>2 DEF Tried
  <2>9. ToSet(todo)' = ToSet(todo) /\ \A k : Succeeded(log[k])' <=> Succeeded(log'[k])
    BY <2>2 DEF ToSet, Succeeded
  <2>10. Tried'
    BY <1>7, <1>9, <2>2, <2>4, <2>7, <2>8, <2>9 DEF Tried
  <2> QED BY <2>2, <2>3, <2>5, <2>10
<1>14. Typed' /\ Scheduled' /\ DependenciesEnd' /\ Tried' /\ pc' \in {"next", "dispatch"}
  <2>1. CASE outcome = "ok"
    BY <1>5, <1>12, <2>1 DEF AfterDispatch, Over
  <2>2. CASE outcome # "ok" /\ attempt = 1 /\ Others # <<>>
    BY <1>5, <1>13, <2>2 DEF AfterDispatch
  <2>3. CASE outcome # "ok" /\ ~ (attempt = 1 /\ Others # <<>>)
    BY <1>5, <1>12, <2>3 DEF AfterDispatch, Over
  <2> QED BY <2>1, <2>2, <2>3
<1>15. ReportExact'
  BY <1>14 DEF ReportExact
<1> QED BY <1>3, <1>4, <1>6, <1>10, <1>11, <1>14, <1>15 DEF Progress, Logged, c

LEMMA ExecutePlanProgress ==
  ASSUME Progress, ExecutePlan
  PROVE  Progress'
<1> DEFINE sorted == TopologicalSort(Size, dependencies)
<1>1. /\ pc = "plan" /\ UNCHANGED <<agents, dependencies, required, assigned, status, attempt, log>>
      /\ \/ sorted.found /\ todo' = sorted.order /\ pc' = "next" /\ report' = report
         \/ ~ sorted.found /\ pc' = "end" /\ report' = "cyclic" /\ todo' = todo
  BY DEF ExecutePlan, plan
<1>2. PlanTyped /\ Typed /\ Scheduled /\ Tried /\ DependenciesEnd /\ TriedTwice
  BY DEF Progress
<1>3. /\ todo = <<>> /\ log = <<>> /\ \A i \in DOMAIN status : status[i] = "pending"
      /\ status \in [DOMAIN required -> {"pending", "running"} \cup Over]
      /\ Size \in Nat /\ DOMAIN required = Subtasks(Size) /\ dependencies \in Seq(Nat \X Nat)
  BY <1>1, <1>2 DEF Scheduled, Typed, PlanTyped
<1>4. /\ sorted.found => InRange(Size, dependencies) /\ sorted.order \in Seq(DOMAIN required)
                         /\ IsSchedule(sorted.order, Size, dependencies) /\ Distinct(sorted.order)
  BY <1>3, SortsAll
<1> HIDE DEF sorted
<1>5. PlanTyped' /\ Size' = Size
  BY <1>1, <1>2 DEF PlanTyped, Size
<1>6. Typed'
  BY <1>1, <1>2, <1>4 DEF Typed, Entry, Working, Calls
<1>7. DependenciesEnd' /\ TriedTwice' /\ Tried' /\ DOMAIN log' = {}
  BY <1>1, <1>3 DEF DependenciesEnd, TriedTwice, Tried
<1>8. CASE sorted.found
  <2> DEFINE order == sorted.order
  <2>1. /\ todo' = order /\ pc' = "next" /\ Distinct(order) /\ order \in Seq(Subtasks(Size))
        /\ InRange(Size, dependencies) /\ IsSchedule(order, Size, dependencies)
    BY <1>1, <1>3, <1>4, <1>8
  <2> HIDE DEF order
  <2>2. ToSet(order) = DOMAIN required /\ DOMAIN order = 1 .. Size
    BY <1>3, <2>1, LenProperties DEF IsSchedule
  <2>3. ASSUME NEW k \in DOMAIN dependencies, NEW j \in DOMAIN order, NEW h \in DOMAIN order,
               order[j] = dependencies[k][2], order[h] = dependencies[k][1]
        PROVE  h < j
    <3>1. dependencies[k] \in ToSet(dependencies) /\ dependencies[k] \in Nat \X Nat
      BY <1>3, InToSet, ElementOfSeq, LenProperties
    <3>2. dependencies[k] = <<order[h], order[j]>>
      BY <2>3, <3>1
    <3> QED BY <2>1, <2>2, <3>1, <3>2 DEF IsSchedule
  <2>4. Scheduled'
    <3>1. Distinct(todo)' /\ ToSet(todo)' = DOMAIN required /\ pc' \notin Working
          /\ InRange(Size, dependencies)'
      BY <1>1, <1>5, <2>1, <2>2 DEF Distinct, ToSet, InRange, Subtasks, Working, Calls
    <3> QED BY <1>1, <1>3, <2>1, <2>3, <3>1 DEF Scheduled
  <2> QED BY <1>5, <1>6, <1>7, <2>1, <2>4 DEF Progress, ReportExact
<1>9. CASE ~ sorted.found
  <2>1. Scheduled'
    BY <1>1, <1>2, <1>3, <1>9 DEF Scheduled, Distinct, Working, Calls
  <2>2. ReportExact'
    BY <1>1, <1>3, <1>9 DEF ReportExact
  <2> QED BY <1>5, <1>6, <1>7, <2>1, <2>2 DEF Progress
<1> QED BY <1>8, <1>9

LEMMA NextSubtaskProgress ==
  ASSUME Progress, NextSubtask
  PROVE  Progress'
<1> DEFINE c == Current
<1>1. /\ pc = "next" /\ todo # <<>> /\ status' = [status EXCEPT ![c] = "running"]
      /\ pc' = "dispatch" /\ attempt' = 1
      /\ UNCHANGED <<agents, dependencies, required, assigned, todo, report, log>>
  BY DEF NextSubtask, plan
<1>2. PlanTyped /\ Typed /\ Scheduled /\ Tried /\ DependenciesEnd /\ TriedTwice
  BY DEF Progress
<1>3. c \in DOMAIN required /\ c = todo[1] /\ 1 \in DOMAIN todo /\ c \in ToSet(todo)
      /\ DOMAIN todo = 1 .. Len(todo)
  BY <1>1, <1>2, FirstIsCurrent
<1>4. /\ InRange(Size, dependencies) /\ DOMAIN required = Subtasks(Size) /\ pc \notin Working
      /\ status \in [DOMAIN required -> {"pending", "running"} \cup Over]
      /\ \A i \in DOMAIN status : status[i] # "running"
      /\ \A i \in DOMAIN status : status[i] = "pending" <=> i \in ToSet(todo)
      /\ \A k \in DOMAIN dependencies : \A j \in DOMAIN todo : todo[j] = dependencies[k][2] =>
            \A h \in DOMAIN todo : todo[h] = dependencies[k][1] => h < j
  BY <1>1, <1>2 DEF Scheduled, Typed, PlanTyped, Working, Calls
<1> HIDE DEF c
<1>5. /\ status' \in [DOMAIN required -> {"pending", "running"} \cup Over]
      /\ status'[c] = "running" /\ \A i \in DOMAIN required : i # c => status'[i] = status[i]
      /\ DOMAIN status' = DOMAIN required /\ DOMAIN status = DOMAIN required
  BY <1>1, <1>3, <1>4
<1>6. PlanTyped' /\ Size' = Size /\ TriedTwice' /\ ReportExact'
  BY <1>1, <1>2 DEF PlanTyped, Size, TriedTwice, ReportExact
<1>7. Typed'
  BY <1>1, <1>2, <1>5 DEF Typed, Entry, Working, Calls
<1>8. Current' = c /\ ToSet(todo)' = ToSet(todo) /\ Distinct(todo)' /\ pc' \in Working
      /\ InRange(Size, dependencies)' /\ \A k : Succeeded(log[k])' <=> Succeeded(log[k])
  BY <1>1, <1>2, <1>4, <1>6
     DEF Current, c, ToSet, Scheduled, Distinct, InRange, Subtasks, Working, Calls, Succeeded
<1>9. Scheduled'
  BY <1>1, <1>3, <1>4, <1>5, <1>8 DEF Scheduled
<1>10. \A k \in DOMAIN log : log[k].subtask \notin ToSet(todo) /\ log[k].subtask \in DOMAIN required
  <2>1. \A k \in DOMAIN log : log[k] \in Entry
    BY <1>2, ElementOfSeq, LenProperties DEF Typed
  <2> QED BY <1>2, <1>4, <2>1 DEF Tried, Entry
<1>11. Tried'
  BY <1>1, <1>2, <1>3, <1>5, <1>8, <1>10 DEF Tried
<1>12. DependenciesEnd'
  <2> SUFFICES ASSUME NEW i \in DOMAIN status', status'[i] # "pending",
                      NEW d \in ToSet(dependencies), d[2] = i
               PROVE  status'[d[1]] \in Over
    BY <1>1 DEF DependenciesEnd, Over, ToSet
  <2>1. d[1] \in DOMAIN status
    BY <1>4, <1>5 DEF InRange
  <2>2. CASE i # c
    <3>1. status[d[1]] \in Over
      BY <1>2, <1>5, <2>2 DEF DependenciesEnd, Over
    <3> QED BY <1>3, <1>4, <1>5, <2>1, <3>1 DEF Over
  <2>3. CASE i = c
    <3>1. PICK k \in DOMAIN dependencies : dependencies[k] = d
      BY InToSet
    <3>2. ASSUME d[1] \in ToSet(todo) PROVE FALSE
      <4>1. PICK h \in DOMAIN todo : todo[h] = d[1]
        BY <3>2, InToSet
      <4>2. h < 1
        BY <1>3, <1>4, <2>3, <3>1, <4>1
      <4> QED BY <1>3, <4>1, <4>2
    <3>3. d[1] # c /\ status[d[1]] \in Over
      BY <1>3, <1>4, <2>1, <3>2
    <3> QED BY <1>5, <2>1, <3>3
  <2> QED BY <2>2, <2>3
<1> QED BY <1>6, <1>7, <1>9, <1>11, <1>12 DEF Progress

LEMMA ReportProgress ==
  ASSUME Progress, Report
  PROVE  Progress'
<1>1. /\ pc = "next" /\ todo = <<>> /\ pc' = "end"
      /\ report' = IF \E i \in DOMAIN status : status[i] = "failed" THEN "failed" ELSE "success"
      /\ UNCHANGED <<agents, dependencies, required, assigned, status, todo, attempt, log>>
  BY DEF Report, plan
<1>2. PlanTyped /\ Typed /\ Scheduled /\ Tried /\ DependenciesEnd /\ TriedTwice
  BY DEF Progress
<1>3. \A i \in DOMAIN status : status[i] \in Over
  <2>1. ToSet(todo) = {} /\ status \in [DOMAIN required -> {"pending", "running"} \cup Over]
    BY <1>1, <1>2, ToSetEmpty DEF Typed
  <2> QED BY <1>1, <1>2, <2>1 DEF Scheduled, Working, Calls
<1>4. PlanTyped' /\ TriedTwice'
  BY <1>1, <1>2 DEF PlanTyped, Size, TriedTwice
<1>5. Typed'
  BY <1>1, <1>2 DEF Typed, Entry, Working, Calls
<1>6. DependenciesEnd' /\ Scheduled'
  BY <1>1, <1>2 DEF DependenciesEnd, Scheduled, Distinct, Working, Calls, ToSet
<1>7. ToSet(todo)' = {} /\ ToSet(todo) = {} /\ \A k : Succeeded(log[k])' <=> Succeeded(log[k])
  BY <1>1 DEF ToSet, Succeeded
<1>8. Tried'
  BY <1>1, <1>2, <1>7 DEF Tried
<1>9. ReportExact'
  BY <1>1, <1>3 DEF ReportExact, Over
<1> QED BY <1>2, <1>4, <1>5, <1>6, <1>8, <1>9 DEF Progress

(* The steps within a dispatch, and those of the agents. *)
LEMMA SameProgress ==
  ASSUME Progress, UNCHANGED <<plan, assigned, status, todo, attempt, report, log>>,
         pc' = pc \/ (pc \in Working /\ pc' \in Working)
  PROVE  Progress'
<1>1. UNCHANGED <<agents, dependencies, required>>
  BY DEF plan
<1>2. PlanTyped /\ Typed /\ Scheduled /\ Tried /\ DependenciesEnd /\ TriedTwice /\ ReportExact
  BY DEF Progress
<1>3. PlanTyped' /\ TriedTwice' /\ ReportExact' /\ Size' = Size
  BY <1>1, <1>2 DEF PlanTyped, Size, TriedTwice, ReportExact, Working, Calls
<1>4. Typed'
  BY <1>1, <1>2 DEF Typed, Entry, Working, Calls
<1>5. /\ ToSet(todo)' = ToSet(todo) /\ Current' = Current /\ Distinct(todo)' = Distinct(todo)
      /\ InRange(Size, dependencies)' = InRange(Size, dependencies)
      /\ \A k : Succeeded(log[k])' <=> Succeeded(log[k])
      /\ pc' \in Working <=> pc \in Working
      /\ pc \in Working => pc' \notin {"plan", "end"} /\ pc \notin {"plan", "end"}
  BY <1>1, <1>3 DEF ToSet, Current, Distinct, InRange, Subtasks, Succeeded, Working, Calls
<1>6. Scheduled'
  BY <1>1, <1>2, <1>5 DEF Scheduled
<1>7. Tried' /\ DependenciesEnd'
  BY <1>1, <1>2, <1>5 DEF Tried, DependenciesEnd, ToSet
<1> QED BY <1>3, <1>4, <1>6, <1>7 DEF Progress


(* What is sent under one topic stays apart from the rest. *)
LEMMA UnusedOfTopic ==
  ASSUME BusTyped, Wired, NEW c \in Chans, receiver[c] = "unused", NEW id
  PROVE  OfTopic(subscriptions, sending, buffer, c, id)
<1>1. \A t \in Ids \cup {Inbox} : \A i \in DOMAIN subscriptions[t] : subscriptions[t][i].chan # c
  BY DEF Wired
<1>2. \A k \in Sides : \A i \in DOMAIN sending[k].todo : sending[k].todo[i] # c
  BY DEF Wired
<1>3. buffer[c] = <<>>
  BY DEF Wired
<1> QED BY <1>1, <1>2, <1>3 DEF OfTopic

LEMMA SubscribeOfTopic ==
  ASSUME BusTyped, NEW p \in Sides, NEW t \in Ids \cup {Inbox}, NEW c \in Chans,
         Bus!Subscribe(p, t, c), NEW d \in Chans, NEW id,
         OfTopic(subscriptions, sending, buffer, d, id), c = d => t = id
  PROVE  OfTopic(subscriptions', sending', buffer', d, id)
<1>1. UNCHANGED <<sending, buffer>>
  BY DEF Bus!Subscribe, Bus!offline
<1>2. ASSUME NEW u \in Ids \cup {Inbox}, NEW i \in DOMAIN subscriptions'[u],
             subscriptions'[u][i].chan = d
      PROVE  u = id
  BY <1>2, NewSubscription DEF OfTopic
<1> QED BY <1>1, <1>2 DEF OfTopic

LEMMA BeginOfTopic ==
  ASSUME BusTyped, Wired, NEW k \in Sides, NEW m \in Message, NEW targets \in Seq(Chans),
         \A i \in DOMAIN targets : receiver[targets[i]] # "unused",
         Bus!Begin(k, m, targets), NEW d \in Chans, NEW id,
         OfTopic(subscriptions, sending, buffer, d, id),
         \A i \in DOMAIN targets : targets[i] = d => m.id = id
  PROVE  OfTopic(subscriptions', sending', buffer', d, id)
<1>1. UNCHANGED <<subscriptions, buffer>>
  BY DEF Bus!Begin, Bus!offline
<1>2. /\ \A j \in Sides : j # k => sending'[j] = sending[j]
      /\ sending'[k].todo = targets /\ (targets # <<>> => sending'[k].msg = m)
  BY BeginWired
<1>3. ASSUME NEW j \in Sides, NEW i \in DOMAIN sending'[j].todo, sending'[j].todo[i] = d
      PROVE  sending'[j].msg.id = id
  <2>1. CASE j # k
    BY <1>2, <1>3, <2>1 DEF OfTopic
  <2>2. CASE j = k
    <3>1. i \in DOMAIN targets /\ targets[i] = d
      BY <1>2, <1>3, <2>2
    <3>2. targets # <<>>
      BY <3>1
    <3> QED BY <1>2, <2>2, <3>1, <3>2
  <2> QED BY <2>1, <2>2
<1> QED BY <1>1, <1>3 DEF OfTopic

LEMMA ReceiveOfTopic ==
  ASSUME BusTyped, Wired, NEW c \in Chans, Bus!Receive(c), NEW d \in Chans, NEW id,
         OfTopic(subscriptions, sending, buffer, d, id)
  PROVE  OfTopic(subscriptions', sending', buffer', d, id)
         /\ (c = d => Head(buffer[c]).id = id)
<1> DEFINE s == buffer[c]
<1>1. UNCHANGED <<subscriptions, sending>>
  BY DEF Bus!Receive, Bus!offline
<1>2. /\ s # <<>> /\ s \in Seq(Message) /\ buffer'[c] = Tail(s)
      /\ \A e \in Chans : e # c => buffer'[e] = buffer[e]
  BY ReceiveWired
<1> HIDE DEF s
<1>3. /\ DOMAIN s = 1 .. Len(s) /\ Len(s) \in Nat \ {0} /\ Head(s) = s[1]
      /\ DOMAIN Tail(s) = 1 .. Len(s) - 1
      /\ \A i \in 1 .. Len(s) - 1 : Tail(s)[i] = s[i + 1] /\ i + 1 \in DOMAIN s
  BY <1>2, HeadTailProperties, LenProperties, EmptySeq
<1>4. c = d => \A i \in DOMAIN s : s[i].id = id
  BY DEF OfTopic, s
<1>5. \A i \in DOMAIN buffer'[d] : buffer'[d][i].id = id
  <2>1. CASE c = d
    BY <1>2, <1>3, <1>4, <2>1
  <2>2. CASE c # d
    BY <1>2, <2>2 DEF OfTopic
  <2> QED BY <2>1, <2>2
<1>6. c = d => Head(s).id = id
  BY <1>3, <1>4
<1> QED BY <1>1, <1>5, <1>6 DEF OfTopic, s

LEMMA DropOfTopic ==
  ASSUME BusTyped, Wired, NEW c \in Chans, Bus!Drop(c), NEW d \in Chans, NEW id,
         OfTopic(subscriptions, sending, buffer, d, id)
  PROVE  OfTopic(subscriptions', sending', buffer', d, id)
<1>1. UNCHANGED <<subscriptions, sending>>
  BY DEF Bus!Drop, Bus!offline
<1>2. buffer'[c] = <<>> /\ \A e \in Chans : e # c => buffer'[e] = buffer[e]
  BY DropWired
<1>3. \A i \in DOMAIN buffer'[d] : buffer'[d][i].id = id
  BY <1>2 DEF OfTopic
<1> QED BY <1>1, <1>3 DEF OfTopic

LEMMA SendNextOfTopic ==
  ASSUME BusTyped, Wired, NEW k \in Sides, Bus!SendNext(k), NEW d \in Chans, NEW id,
         OfTopic(subscriptions, sending, buffer, d, id)
  PROVE  OfTopic(subscriptions', sending', buffer', d, id)
<1>1. UNCHANGED subscriptions
  BY DEF Bus!SendNext, Bus!offline
<1>2. ASSUME NEW i \in DOMAIN buffer'[d] PROVE buffer'[d][i].id = id
  BY SendNextWired DEF OfTopic
<1>3. ASSUME NEW j \in Sides, NEW i \in DOMAIN sending'[j].todo, sending'[j].todo[i] = d
      PROVE  sending'[j].msg.id = id
  <2>1. PICK h \in DOMAIN sending[j].todo : sending'[j].todo[i] = sending[j].todo[h]
    BY SendNextWired
  <2>2. sending'[j].todo # <<>>
    OBVIOUS
  <2>3. sending'[j].msg = sending[j].msg
    BY <2>2, SendNextWired
  <2> QED BY <1>3, <2>1, <2>3 DEF OfTopic
<1> QED BY <1>1, <1>2, <1>3 DEF OfTopic

--------------------------------------------------------------------------------
(* A dispatch and its reply channel *)

Lines == BusTyped /\ Wired /\ CallTyped /\ Private /\ Returning

(* The channel of the dispatch in progress, after a step of somebody else. *)
Undisturbed ==
    pc \in Calls =>
        /\ receiver'[call.chan] = "open" /\ direct'[Orch] = call.chan
        /\ OfTopic(subscriptions', sending', buffer', call.chan, call.id)

LEMMA QuietCall ==
  ASSUME CallTyped, Private, Returning, UNCHANGED <<pc, call, assigned, todo>>,
         job' \in [Agents -> Message \cup {None}], Undisturbed
  PROVE  CallTyped' /\ Private' /\ Returning'
<1>1. CallTyped'
  BY DEF CallTyped
<1>2. Private'
  BY DEF Private, Undisturbed, OfTopic, NoCall, Current
<1>3. Returning'
  BY DEF Returning
<1> QED BY <1>1, <1>2, <1>3

(* The agents do not touch it: they listen to other channels, and publish what
   they answer under the id of what they were asked. *)
LEMMA ConnectLines ==
  ASSUME Lines, NEW a \in Agents, Connect(a)
  PROVE  Lines'
<1>1. PICK c \in Chans : /\ Bus!Subscribe(a, Inbox, c) /\ receiver[c] = "unused"
                          /\ UNCHANGED <<pc, call, job, assigned, todo>>
  BY FreshChanUnused DEF Connect, idle
<1>2. a \in Sides /\ Inbox \in Ids \cup {Inbox} /\ BusTyped /\ Wired
  BY DEF Lines, Sides
<1>3. /\ BusTyped' /\ Wired' /\ \A q \in Sides : q # a => direct'[q] = direct[q]
      /\ \A d \in Chans : d # c => receiver'[d] = receiver[d]
  BY <1>1, <1>2, SubscribeWired
<1>4. Orch \in Sides /\ Orch # a
  BY NamesAssumption DEF Sides
<1>5. ASSUME pc \in Calls
      PROVE  /\ receiver'[call.chan] = "open" /\ direct'[Orch] = call.chan
             /\ OfTopic(subscriptions', sending', buffer', call.chan, call.id)
  <2>1. /\ call.chan \in Chans /\ receiver[call.chan] = "open" /\ direct[Orch] = call.chan
        /\ OfTopic(subscriptions, sending, buffer, call.chan, call.id) /\ call.chan # c
    BY <1>1, <1>5 DEF Lines, Private
  <2>2. OfTopic(subscriptions', sending', buffer', call.chan, call.id)
    BY <1>1, <1>2, <2>1, SubscribeOfTopic
  <2> QED BY <1>3, <1>4, <2>1, <2>2
<1> QED BY <1>1, <1>3, <1>5, QuietCall DEF Lines, CallTyped, Undisturbed

LEMMA AcceptLines ==
  ASSUME Lines, NEW a \in Agents, Accept(a)
  PROVE  Lines'
<1> DEFINE c == direct[a]
           m == Head(buffer[c])
<1>1. Bus!Receive(c) /\ c # None /\ job' = [job EXCEPT ![a] = m] /\ UNCHANGED <<pc, call, assigned, todo>>
  BY DEF Accept, idle
<1>2. c \in Chans
  BY <1>1 DEF Lines, BusTyped, Sides
<1>3. UNCHANGED <<direct, receiver>>
  BY <1>1 DEF Bus!Receive
<1> HIDE DEF c
<1>4. BusTyped' /\ Wired' /\ m \in Message
  BY <1>1, <1>2, ReceiveWired DEF Lines
<1> HIDE DEF m
<1>5. job' \in [Agents -> Message \cup {None}]
  BY <1>1, <1>4 DEF Lines, CallTyped
<1>6. ASSUME pc \in Calls
      PROVE  /\ receiver'[call.chan] = "open" /\ direct'[Orch] = call.chan
             /\ OfTopic(subscriptions', sending', buffer', call.chan, call.id)
  <2>1. /\ call.chan \in Chans /\ receiver[call.chan] = "open" /\ direct[Orch] = call.chan
        /\ OfTopic(subscriptions, sending, buffer, call.chan, call.id)
    BY <1>6 DEF Lines, Private
  <2> QED BY <1>1, <1>2, <1>3, <2>1, ReceiveOfTopic DEF Lines
<1> QED BY <1>1, <1>4, <1>5, <1>6, QuietCall DEF Lines, Undisturbed

LEMMA AnswerLines ==
  ASSUME Lines, NEW a \in Agents, NEW method \in {"task.done", "task.failed"}, Answer(a, method)
  PROVE  Lines'
<1> DEFINE t == job[a].id
           m == [job[a] EXCEPT !.method = method]
           targets == Bus!ChansOf(t)
<1>1. /\ job[a] # None /\ Bus!Begin(a, m, targets) /\ job' = [job EXCEPT ![a] = None]
      /\ UNCHANGED <<pc, call, assigned, todo>>
  BY DEF Answer, idle, Bus!Publish
<1>2. job[a] \in Message
  BY <1>1 DEF Lines, CallTyped
<1>3. m \in Message /\ m.id = t /\ t \in Ids /\ a \in Sides
  BY <1>2 DEF Message, Methods, Sides
<1>4. UNCHANGED <<subscriptions, direct, receiver, buffer>>
  BY <1>1 DEF Bus!Begin, Bus!offline
<1> HIDE DEF m, t
<1>5. /\ targets \in Seq(Chans) /\ DOMAIN targets = DOMAIN subscriptions[t]
      /\ \A i \in DOMAIN targets : /\ targets[i] = subscriptions[t][i].chan
                                   /\ receiver[targets[i]] # "unused"
  BY <1>3, ChansOfWired DEF Lines
<1> HIDE DEF targets
<1>6. BusTyped' /\ Wired'
  BY <1>1, <1>3, <1>5, BeginWired DEF Lines
<1>7. job' \in [Agents -> Message \cup {None}]
  BY <1>1 DEF Lines, CallTyped
<1>8. ASSUME pc \in Calls
      PROVE  /\ receiver'[call.chan] = "open" /\ direct'[Orch] = call.chan
             /\ OfTopic(subscriptions', sending', buffer', call.chan, call.id)
  <2>1. /\ call.chan \in Chans /\ receiver[call.chan] = "open" /\ direct[Orch] = call.chan
        /\ OfTopic(subscriptions, sending, buffer, call.chan, call.id)
    BY <1>8 DEF Lines, Private
  <2>2. \A i \in DOMAIN targets : targets[i] = call.chan => m.id = call.id
    BY <1>3, <1>5, <2>1 DEF OfTopic
  <2>3. OfTopic(subscriptions', sending', buffer', call.chan, call.id)
    BY <1>1, <1>3, <1>5, <2>1, <2>2, BeginOfTopic DEF Lines
  <2> QED BY <1>4, <2>1, <2>3
<1> QED BY <1>1, <1>6, <1>7, <1>8, QuietCall DEF Lines, Undisturbed

LEMMA AnswerSentLines ==
  ASSUME Lines, NEW a \in Agents, AnswerSent(a)
  PROVE  Lines'
<1>1. Bus!SendNext(a) /\ UNCHANGED <<pc, call, job, assigned, todo>> /\ a \in Sides
  BY DEF AnswerSent, idle, Sides
<1>2. UNCHANGED <<direct, receiver>>
  BY <1>1 DEF Bus!SendNext
<1>3. BusTyped' /\ Wired'
  BY <1>1, SendNextWired DEF Lines
<1>4. ASSUME pc \in Calls
      PROVE  /\ receiver'[call.chan] = "open" /\ direct'[Orch] = call.chan
             /\ OfTopic(subscriptions', sending', buffer', call.chan, call.id)
  <2>1. /\ call.chan \in Chans /\ receiver[call.chan] = "open" /\ direct[Orch] = call.chan
        /\ OfTopic(subscriptions, sending, buffer, call.chan, call.id)
    BY <1>4 DEF Lines, Private
  <2> QED BY <1>1, <1>2, <2>1, SendNextOfTopic DEF Lines
<1> QED BY <1>1, <1>3, <1>4, QuietCall DEF Lines, CallTyped, Undisturbed

LEMMA LeaveLines ==
  ASSUME Lines, NEW a \in Agents, Leave(a)
  PROVE  Lines'
<1> DEFINE c == direct[a]
<1>1. Bus!Drop(c) /\ c # None /\ job' = [job EXCEPT ![a] = None] /\ UNCHANGED <<pc, call, assigned, todo>>
  BY DEF Leave, idle
<1>2. c \in Chans /\ a \in Sides /\ Orch \in Sides /\ Orch # a
  BY <1>1, NamesAssumption DEF Lines, BusTyped, Sides
<1>3. UNCHANGED direct
  BY <1>1 DEF Bus!Drop
<1>4. direct[Orch] # c
  BY <1>1, <1>2 DEF Lines, Wired
<1> HIDE DEF c
<1>5. BusTyped' /\ Wired' /\ \A d \in Chans : d # c => receiver'[d] = receiver[d]
  BY <1>1, <1>2, DropWired DEF Lines
<1>6. job' \in [Agents -> Message \cup {None}]
  BY <1>1 DEF Lines, CallTyped
<1>7. ASSUME pc \in Calls
      PROVE  /\ receiver'[call.chan] = "open" /\ direct'[Orch] = call.chan
             /\ OfTopic(subscriptions', sending', buffer', call.chan, call.id)
  <2>1. /\ call.chan \in Chans /\ receiver[call.chan] = "open" /\ direct[Orch] = call.chan
        /\ OfTopic(subscriptions, sending, buffer, call.chan, call.id)
    BY <1>7 DEF Lines, Private
  <2> QED BY <1>1, <1>2, <1>3, <1>4, <1>5, <2>1, DropOfTopic DEF Lines
<1> QED BY <1>1, <1>5, <1>6, <1>7, QuietCall DEF Lines, Undisturbed

LEMMA IgnoreLines ==
  ASSUME Lines, NEW a \in Agents, Ignore(a)
  PROVE  Lines'
<1>1. /\ UNCHANGED <<subscriptions, direct, buffer, receiver, sending, pc, call, assigned, todo>>
      /\ job' = [job EXCEPT ![a] = None]
  BY DEF Ignore, bus, idle
<1>2. job' \in [Agents -> Message \cup {None}]
  BY <1>1 DEF Lines, CallTyped
<1>3. BusTyped' /\ Wired'
  BY <1>1 DEF Lines, BusTyped, Wired
<1>4. Undisturbed
  BY <1>1 DEF Undisturbed, Lines, Private
<1> QED BY <1>1, <1>2, <1>3, <1>4, QuietCall DEF Lines

(* The orchestrator's own steps in a dispatch. *)
LEMMA SubscribeReplyLines ==
  ASSUME Lines, SubscribeReply
  PROVE  Lines'
<1>1. PICK c \in Chans, id \in Ids :
         /\ Bus!Subscribe(Orch, id, c) /\ receiver[c] = "unused"
         /\ call' = [NoCall EXCEPT !.id = id, !.chan = c] /\ pc' = "send"
         /\ assigned[Current] # None /\ UNCHANGED <<job, assigned, todo>>
  <2>1. Unused # {} /\ FreshChan \in Chans /\ receiver[FreshChan] = "unused"
    BY FreshChanUnused DEF SubscribeReply
  <2> QED BY <2>1 DEF SubscribeReply
<1>2. Orch \in Sides /\ id \in Ids \cup {Inbox} /\ BusTyped /\ Wired
  BY DEF Lines, Sides
<1>3. BusTyped' /\ Wired' /\ direct'[Orch] = c /\ receiver'[c] = "open"
  BY <1>1, <1>2, SubscribeWired
<1>4. OfTopic(subscriptions, sending, buffer, c, id)
  BY <1>1, <1>2, UnusedOfTopic
<1>5. OfTopic(subscriptions', sending', buffer', c, id)
  BY <1>1, <1>2, <1>4, SubscribeOfTopic
<1>6. call'.id = id /\ call'.chan = c /\ CallTyped'
  BY <1>1 DEF Lines, CallTyped, NoCall
<1>7. Private'
  BY <1>1, <1>3, <1>5, <1>6 DEF Private, Calls, OfTopic, Current
<1>8. Returning'
  BY <1>1 DEF Returning
<1> QED BY <1>3, <1>6, <1>7, <1>8 DEF Lines

(* Within a dispatch: its reply channel stays what it is. *)
LEMMA SameCall ==
  ASSUME CallTyped, Private, pc \in Calls, pc' \in Calls, Undisturbed, CallTyped',
         UNCHANGED <<assigned, todo>>, call'.id = call.id, call'.chan = call.chan
  PROVE  Private'
BY DEF Private, Undisturbed, OfTopic, Current

LEMMA SendTaskLines ==
  ASSUME Lines, Progress, SendTask
  PROVE  Lines'
<1> DEFINE pid == assigned[Current]
           run == [method |-> "task.run", id |-> call.id, subtask |-> Current]
<1>1. /\ pc = "send" /\ UNCHANGED <<job, assigned, todo>>
      /\ \/ /\ direct[pid] # None /\ Bus!Begin(Orch, run, <<direct[pid]>>)
            /\ pc' = "sending" /\ call' = call
         \/ /\ UNCHANGED <<subscriptions, direct, buffer, receiver, sending>>
            /\ pc' = "return" /\ call' = [call EXCEPT !.outcome = "ok", !.why = "no_subscriber"]
  BY DEF SendTask, Bus!SendDirect, bus
<1>2. /\ call.id \in Ids /\ call.chan \in Chans /\ receiver[call.chan] = "open"
      /\ direct[Orch] = call.chan
      /\ OfTopic(subscriptions, sending, buffer, call.chan, call.id)
      /\ BusTyped /\ Wired /\ CallTyped /\ Private
  BY <1>1 DEF Lines, Private, Calls
<1>3. Current \in DOMAIN required /\ Current \in Nat
  <2>1. PlanTyped /\ Typed /\ Scheduled /\ todo # <<>>
    BY <1>1 DEF Progress, Scheduled, Working, Calls
  <2>2. Current \in DOMAIN required
    BY <2>1, FirstIsCurrent
  <2> QED BY <2>1, <2>2 DEF PlanTyped, Subtasks
<1>4. run \in Message /\ run.id = call.id
  BY <1>2, <1>3 DEF Message, Methods
<1>5. pid \in Agents /\ pid \in Sides /\ Orch \in Sides
  BY <1>1, <1>3 DEF Progress, Typed, Lines, Private, Calls, Sides
<1> HIDE DEF run, pid
<1>6. CASE direct[pid] # None /\ Bus!Begin(Orch, run, <<direct[pid]>>)
           /\ pc' = "sending" /\ call' = call
  <2> DEFINE d == direct[pid]
             targets == <<d>>
  <2>1. d \in Chans /\ receiver[d] # "unused"
    BY <1>2, <1>5, <1>6 DEF BusTyped, Wired
  <2>2. UNCHANGED <<direct, receiver>>
    BY <1>6 DEF Bus!Begin, Bus!offline
  <2> HIDE DEF d
  <2>3. targets \in Seq(Chans) /\ \A i \in DOMAIN targets : targets[i] = d
    BY <2>1
  <2>4. Bus!Begin(Orch, run, targets)
    BY <1>6 DEF d
  <2> HIDE DEF targets
  <2>5. BusTyped' /\ Wired'
    BY <1>2, <1>4, <1>5, <2>1, <2>3, <2>4, BeginWired
  <2>6. OfTopic(subscriptions', sending', buffer', call.chan, call.id)
    BY <1>2, <1>4, <1>5, <2>1, <2>3, <2>4, BeginOfTopic
  <2>7. Undisturbed /\ CallTyped' /\ pc \in Calls /\ pc' \in Calls
    BY <1>1, <1>2, <1>6, <2>2, <2>6 DEF Undisturbed, CallTyped, Calls
  <2>8. Private' /\ Returning'
    BY <1>1, <1>2, <1>6, <2>7, SameCall DEF Returning
  <2> QED BY <2>5, <2>7, <2>8 DEF Lines
<1>7. CASE UNCHANGED <<subscriptions, direct, buffer, receiver, sending>>
           /\ pc' = "return" /\ call' = [call EXCEPT !.outcome = "ok", !.why = "no_subscriber"]
  <2>1. BusTyped' /\ Wired'
    BY <1>2, <1>7 DEF BusTyped, Wired
  <2>2. /\ call'.id = call.id /\ call'.chan = call.chan /\ CallTyped'
        /\ call'.outcome = "ok" /\ call'.why = "no_subscriber"
    BY <1>1, <1>2, <1>7 DEF CallTyped, Reasons
  <2>3. Undisturbed /\ pc \in Calls /\ pc' \in Calls
    BY <1>1, <1>2, <1>7 DEF Undisturbed, Calls
  <2>4. Private' /\ Returning'
    BY <1>1, <1>2, <1>7, <2>2, <2>3, SameCall DEF Returning
  <2> QED BY <2>1, <2>2, <2>4 DEF Lines
<1> QED BY <1>1, <1>6, <1>7

LEMMA TaskSentLines ==
  ASSUME Lines, TaskSent
  PROVE  Lines'
<1>1. /\ pc = "sending" /\ Bus!SendNext(Orch) /\ pc' = "wait" /\ UNCHANGED <<job, call, assigned, todo>>
      /\ Orch \in Sides
  BY DEF TaskSent, Sides
<1>2. /\ call.id \in Ids /\ call.chan \in Chans /\ receiver[call.chan] = "open"
      /\ direct[Orch] = call.chan
      /\ OfTopic(subscriptions, sending, buffer, call.chan, call.id)
      /\ BusTyped /\ Wired /\ CallTyped /\ Private
  BY <1>1 DEF Lines, Private, Calls
<1>3. UNCHANGED <<direct, receiver>>
  BY <1>1 DEF Bus!SendNext
<1>4. BusTyped' /\ Wired' /\ OfTopic(subscriptions', sending', buffer', call.chan, call.id)
  BY <1>1, <1>2, SendNextWired, SendNextOfTopic
<1>5. Undisturbed /\ CallTyped' /\ pc \in Calls /\ pc' \in Calls
  BY <1>1, <1>2, <1>3, <1>4 DEF Undisturbed, CallTyped, Calls
<1>6. Private' /\ Returning'
  BY <1>1, <1>2, <1>5, SameCall DEF Returning
<1> QED BY <1>4, <1>5, <1>6 DEF Lines

LEMMA TakeReplyLines ==
  ASSUME Lines, TakeReply
  PROVE  Lines'
<1> DEFINE c == call.chan
           reply == Head(buffer[c])
<1>1. /\ pc = "wait" /\ Bus!Receive(c) /\ pc' = "return" /\ UNCHANGED <<job, assigned, todo>>
      /\ call' = [call EXCEPT !.outcome = IF reply.method = "task.done" THEN "ok" ELSE "err",
                              !.why = "reply", !.reply = reply]
  BY DEF TakeReply
<1>2. /\ call.id \in Ids /\ c \in Chans /\ receiver[c] = "open"
      /\ direct[Orch] = c /\ OfTopic(subscriptions, sending, buffer, c, call.id)
      /\ BusTyped /\ Wired /\ CallTyped /\ Private
  BY <1>1 DEF Lines, Private, Calls
<1>3. UNCHANGED <<direct, receiver>>
  BY <1>1 DEF Bus!Receive
<1> HIDE DEF c
<1>4. BusTyped' /\ Wired' /\ reply \in Message
  BY <1>1, <1>2, ReceiveWired
<1>5. OfTopic(subscriptions', sending', buffer', c, call.id) /\ reply.id = call.id
  BY <1>1, <1>2, ReceiveOfTopic
<1> HIDE DEF reply
<1>6. /\ CallTyped' /\ call'.id = call.id /\ call'.chan = call.chan /\ call'.reply = reply
      /\ call'.why = "reply" /\ call'.outcome = IF reply.method = "task.done" THEN "ok" ELSE "err"
  BY <1>1, <1>2, <1>4 DEF CallTyped, Reasons
<1>7. Undisturbed /\ pc \in Calls /\ pc' \in Calls
  BY <1>1, <1>2, <1>3, <1>5 DEF Undisturbed, Calls, c
<1>8. Private'
  BY <1>1, <1>2, <1>6, <1>7, SameCall
<1>9. Returning'
  BY <1>4, <1>5, <1>6 DEF Returning
<1> QED BY <1>4, <1>6, <1>8, <1>9 DEF Lines

LEMMA TimedOutLines ==
  ASSUME Lines, TimedOut
  PROVE  Lines'
<1>1. /\ pc = "wait" /\ pc' = "return" /\ UNCHANGED <<job, assigned, todo>>
      /\ call' = [call EXCEPT !.outcome = "ok", !.why = "timeout"]
      /\ UNCHANGED <<subscriptions, direct, buffer, receiver, sending>>
  BY DEF TimedOut, bus
<1>2. /\ receiver[call.chan] = "open" /\ direct[Orch] = call.chan
      /\ OfTopic(subscriptions, sending, buffer, call.chan, call.id)
      /\ BusTyped /\ Wired /\ CallTyped /\ Private
  BY <1>1 DEF Lines, Private, Calls
<1>3. BusTyped' /\ Wired'
  BY <1>1, <1>2 DEF BusTyped, Wired
<1>4. /\ call'.id = call.id /\ call'.chan = call.chan /\ CallTyped'
      /\ call'.outcome = "ok" /\ call'.why = "timeout"
  BY <1>1, <1>2 DEF CallTyped, Reasons
<1>5. Undisturbed /\ pc \in Calls /\ pc' \in Calls
  BY <1>1, <1>2 DEF Undisturbed, Calls
<1>6. Private' /\ Returning'
  BY <1>1, <1>2, <1>4, <1>5, SameCall DEF Returning
<1> QED BY <1>3, <1>4, <1>6 DEF Lines

(* No dispatch is in progress. *)
LEMMA NoCallLines ==
  ASSUME CallTyped, BusTyped', Wired', call' = NoCall, pc' \notin Calls, job' = job
  PROVE  Lines'
<1>1. CallTyped'
  BY DEF CallTyped, NoCall
<1>2. Private'
  BY DEF Private
<1>3. Returning'
  BY DEF Returning, Calls
<1> QED BY <1>1, <1>2, <1>3 DEF Lines

LEMMA SameBus ==
  ASSUME BusTyped, Wired, UNCHANGED <<subscriptions, direct, buffer, receiver, sending>>
  PROVE  BusTyped' /\ Wired'
BY DEF BusTyped, Wired

LEMMA LoopKeeps ==
  ASSUME Progress, Lines, ExecutePlan \/ NextSubtask \/ Report
  PROVE  Progress' /\ Lines'
<1>1. /\ pc \notin Calls /\ pc' \notin Calls
      /\ UNCHANGED <<subscriptions, direct, buffer, receiver, sending, call, job>>
  BY DEF ExecutePlan, NextSubtask, Report, bus, Calls
<1>2. BusTyped' /\ Wired'
  BY <1>1, SameBus DEF Lines
<1>3. call = NoCall
  BY <1>1 DEF Lines, Private
<1>4. Lines'
  BY <1>1, <1>2, <1>3, NoCallLines DEF Lines
<1> QED BY <1>4, ExecutePlanProgress, NextSubtaskProgress, ReportProgress

LEMMA NoAgentAssignedKeeps ==
  ASSUME Progress, Lines, NoAgentAssigned
  PROVE  Progress' /\ Lines' /\ call' = NoCall /\ Logged("unassigned", None)
<1>1. /\ pc = "dispatch" /\ AfterDispatch("err", "unassigned", None)
      /\ UNCHANGED <<subscriptions, direct, buffer, receiver, sending>>
      /\ UNCHANGED <<plan, report>> /\ UNCHANGED job
  BY DEF NoAgentAssigned, bus
<1>2. pc \in Working /\ CallTyped /\ BusTyped /\ Wired
  BY <1>1 DEF Working, Lines
<1>3. "unassigned" \in Reasons /\ "unassigned" # "reply"
  BY DEF Reasons
<1>4. /\ Progress' /\ pc' \in {"next", "dispatch"} /\ call' = NoCall
      /\ Logged("unassigned", None)
  BY <1>1, <1>2, <1>3, DispatchEnds
<1>5. Lines'
  BY <1>1, <1>2, <1>4, SameBus, NoCallLines DEF Calls
<1> QED BY <1>4, <1>5

LEMMA SimulateKeeps ==
  ASSUME Progress, Lines, Simulate
  PROVE  Progress' /\ Lines' /\ call' = NoCall /\ Logged("no_bus", None)
<1>1. /\ pc = "dispatch" /\ AfterDispatch("ok", "no_bus", None)
      /\ UNCHANGED <<subscriptions, direct, buffer, receiver, sending>>
      /\ UNCHANGED <<plan, report>> /\ UNCHANGED job
  BY DEF Simulate, bus
<1>2. pc \in Working /\ CallTyped /\ BusTyped /\ Wired
  BY <1>1 DEF Working, Lines
<1>3. "no_bus" \in Reasons /\ "no_bus" # "reply"
  BY DEF Reasons
<1>4. /\ Progress' /\ pc' \in {"next", "dispatch"} /\ call' = NoCall
      /\ Logged("no_bus", None)
  BY <1>1, <1>2, <1>3, DispatchEnds
<1>5. Lines'
  BY <1>1, <1>2, <1>4, SameBus, NoCallLines DEF Calls
<1> QED BY <1>4, <1>5

LEMMA ReturnKeeps ==
  ASSUME Progress, Lines, Return
  PROVE  Progress' /\ Lines' /\ call' = NoCall /\ Logged(call.why, call.reply)
<1> DEFINE outcome == call.outcome
           why == call.why
           reply == call.reply
<1>1. /\ pc = "return" /\ Bus!Drop(call.chan) /\ AfterDispatch(outcome, why, reply)
      /\ UNCHANGED <<plan, report>> /\ UNCHANGED job
  BY DEF Return
<1>2. pc \in Working /\ CallTyped /\ BusTyped /\ Wired /\ call.chan \in Chans
  BY <1>1 DEF Working, Calls, Lines, Private
<1>3. /\ why \in Reasons /\ why # "unassigned" /\ reply \in Message \cup {None}
      /\ why # "reply" => outcome = "ok"
      /\ why = "reply" => /\ reply \in Message /\ reply.id = call.id
                          /\ outcome = "ok" <=> reply.method = "task.done"
  BY <1>1, <1>2 DEF Lines, Returning, Reasons, CallTyped
<1> HIDE DEF outcome, why, reply
<1>4. outcome = "ok" <=> why # "unassigned" /\ (why = "reply" => reply.method = "task.done")
  BY <1>3
<1>5. /\ Progress' /\ pc' \in {"next", "dispatch"} /\ call' = NoCall
      /\ Logged(why, reply)
  BY <1>1, <1>2, <1>3, <1>4, DispatchEnds
<1>6. BusTyped' /\ Wired'
  BY <1>1, <1>2, DropWired
<1>7. Lines'
  BY <1>1, <1>2, <1>5, <1>6, NoCallLines DEF Calls
<1> QED BY <1>5, <1>7 DEF why, reply

(* What the orchestrator does in a dispatch, and whatever an agent does. *)
LEMMA DispatchKeeps ==
  ASSUME Progress, Lines, SubscribeReply \/ SendTask \/ TaskSent \/ TakeReply \/ TimedOut
  PROVE  Progress' /\ Lines'
<1>1. /\ UNCHANGED <<plan, assigned, status, todo, attempt, report, log>>
      /\ pc \in Working /\ pc' \in Working
  BY DEF SubscribeReply, SendTask, TaskSent, TakeReply, TimedOut, Working, Calls
<1>2. Progress'
  BY <1>1, SameProgress
<1> QED BY <1>2, SubscribeReplyLines, SendTaskLines, TaskSentLines, TakeReplyLines, TimedOutLines

LEMMA AgentKeeps ==
  ASSUME Progress, Lines, NEW a \in Agents, AgentStep(a)
  PROVE  Progress' /\ Lines' /\ UNCHANGED idle
<1>1. UNCHANGED idle
  BY DEF AgentStep, Connect, Accept, Answer, AnswerSent, Ignore, Leave
<1>2. Progress'
  BY <1>1, SameProgress DEF idle
<1>3. Lines'
  BY ConnectLines, AcceptLines, AnswerLines, AnswerSentLines, IgnoreLines, LeaveLines
     DEF AgentStep
<1> QED BY <1>1, <1>2, <1>3

LEMMA StutterKeeps ==
  ASSUME Progress, Lines, UNCHANGED vars
  PROVE  Progress' /\ Lines'
<1>1. /\ UNCHANGED <<plan, assigned, status, todo, attempt, report, log, pc>>
      /\ UNCHANGED <<pc, call, assigned, todo>> /\ job' = job
      /\ UNCHANGED <<subscriptions, direct, buffer, receiver, sending>>
  BY DEF vars, bus
<1>2. Progress'
  BY <1>1, SameProgress
<1>3. BusTyped' /\ Wired'
  BY <1>1, SameBus DEF Lines
<1>4. Undisturbed
  BY <1>1 DEF Undisturbed, Lines, Private
<1>5. Lines'
  BY <1>1, <1>3, <1>4, QuietCall DEF Lines, CallTyped
<1> QED BY <1>2, <1>5

--------------------------------------------------------------------------------
(* The invariant *)

LEMMA IInvParts == IInv <=> Progress /\ Lines
BY DEF IInv, Progress, Lines

LEMMA StepKeepsIInv == IInv /\ [Next]_vars => IInv'
<1> SUFFICES ASSUME Progress, Lines, [Next]_vars PROVE Progress' /\ Lines'
  <2>1. IInv' <=> Progress' /\ Lines'
    BY DEF IInv, Progress, Lines
  <2> QED BY <2>1, IInvParts
<1>1. CASE ExecutePlan \/ NextSubtask \/ Report
  BY <1>1, LoopKeeps
<1>2. CASE NoAgentAssigned \/ Simulate \/ Return
  BY <1>2, NoAgentAssignedKeeps, SimulateKeeps, ReturnKeeps
<1>3. CASE SubscribeReply \/ SendTask \/ TaskSent \/ TakeReply \/ TimedOut
  BY <1>3, DispatchKeeps
<1>4. ASSUME NEW a \in Agents, AgentStep(a) PROVE Progress' /\ Lines'
  BY <1>4, AgentKeeps
<1>5. CASE UNCHANGED vars
  BY <1>5, StutterKeeps
<1> QED BY <1>1, <1>2, <1>3, <1>4, <1>5 DEF Next, Execute, Ended

LEMMA InitLines ==
  ASSUME Init
  PROVE  Lines
<1>1. /\ subscriptions = [t \in Ids \cup {Inbox} |-> <<>>] /\ direct = [p \in Sides |-> None]
      /\ buffer = [c \in Chans |-> <<>>] /\ receiver = [c \in Chans |-> "unused"]
      /\ sending = [k \in Sides |-> [msg |-> None, todo |-> <<>>]]
      /\ pc = "plan" /\ call = NoCall /\ job = [a \in Agents |-> None]
  BY DEF Init, Bus!Init, Bus!Idle, Sides
<1>2. BusTyped
  <2>1. <<>> \in Seq([pid : Sides, chan : Chans]) /\ <<>> \in Seq(Message) /\ <<>> \in Seq(Chans)
    BY EmptySeq
  <2> QED BY <1>1, <2>1 DEF BusTyped
<1>3. Wired
  BY <1>1 DEF Wired
<1>4. CallTyped
  BY <1>1 DEF CallTyped, NoCall
<1>5. Private /\ Returning
  BY <1>1 DEF Private, Returning, Calls
<1> QED BY <1>2, <1>3, <1>4, <1>5 DEF Lines

LEMMA InitProgress ==
  ASSUME Init
  PROVE  Progress
<1>1. /\ agents \in Registries /\ \E p \in Plans : required = p.required /\ dependencies = p.dependencies
      /\ \E known \in {agents, <<>>} :
            assigned = [i \in DOMAIN required |-> BestAgent(known, required[i], None)]
      /\ status = [i \in DOMAIN required |-> "pending"]
      /\ todo = <<>> /\ pc = "plan" /\ attempt = 1 /\ report = "none" /\ log = <<>>
  BY DEF Init
<1>2. PlanTyped
  <2>1. /\ DOMAIN required = Subtasks(Size) /\ IsFiniteSet(DOMAIN required)
        /\ \A i \in DOMAIN required : IsFiniteSet(required[i])
        /\ dependencies \in Seq(Nat \X Nat)
    BY <1>1, PlansAssumption DEF Size
  <2>2. Size \in Nat
    BY <2>1, FS_CardinalityType DEF Size
  <2>3. agents \in Seq(ToSet(agents)) /\ \A r \in ToSet(agents) : r.pid \in Agents
    BY <1>1, RegistriesAssumption
  <2> QED BY <2>1, <2>2, <2>3 DEF PlanTyped
<1>3. assigned \in [DOMAIN required -> Agents \cup {None}]
  <2>1. PICK known \in {agents, <<>>} :
           assigned = [i \in DOMAIN required |-> BestAgent(known, required[i], None)]
    BY <1>1
  <2>2. ASSUME NEW i \in DOMAIN required
        PROVE  BestAgent(known, required[i], None) \in Agents \cup {None}
    <3>1. CASE known = <<>>
      BY <3>1 DEF BestAgent
    <3>2. CASE known # <<>>
      <4>1. known = agents /\ agents \in Seq(ToSet(agents))
        BY <2>1, <3>2, <1>2 DEF PlanTyped
      <4> QED BY <1>2, <3>2, <4>1, BestPid
    <3> QED BY <3>1, <3>2
  <2> QED BY <2>1, <2>2
<1>4. Typed
  <2>1. <<>> \in Seq(DOMAIN required) /\ <<>> \in Seq(Entry)
    BY EmptySeq
  <2> QED BY <1>1, <1>3, <2>1 DEF Typed, Working, Calls
<1>5. Scheduled
  BY <1>1 DEF Scheduled, Distinct, Working, Calls
<1>6. Tried /\ DependenciesEnd /\ TriedTwice /\ ReportExact
  BY <1>1 DEF Tried, DependenciesEnd, TriedTwice, ReportExact
<1> QED BY <1>2, <1>4, <1>5, <1>6 DEF Progress

LEMMA InitIInv == Init => IInv
BY InitLines, InitProgress, IInvParts

LEMMA TypeFromIInv == IInv => TypeOK
<1> SUFFICES ASSUME IInv PROVE TypeOK
  OBVIOUS
<1>1. Typed /\ CallTyped /\ Private /\ Scheduled
  BY DEF IInv
<1>2. Cardinality({i \in DOMAIN status : status[i] = "running"}) <= 1
  <2> DEFINE running == {i \in DOMAIN status : status[i] = "running"}
  <2>1. running = {} \/ running = {Current}
    BY <1>1 DEF Scheduled
  <2> HIDE DEF running
  <2>2. Cardinality(running) \in {0, 1}
    BY <2>1, FS_EmptySet, FS_Singleton
  <2> QED BY <2>2 DEF running
<1>3. pc \in Calls <=> call.chan # None
  BY <1>1, NamesAssumption DEF Private, NoCall
<1>4. call.chan # None => receiver[call.chan] = "open"
  BY <1>1, <1>3 DEF Private
<1>5. /\ assigned \in [DOMAIN required -> Agents \cup {None}]
      /\ status \in [DOMAIN required -> {"pending", "running", "completed", "failed"}]
      /\ todo \in Seq(DOMAIN required)
      /\ pc \in {"plan", "next", "dispatch", "send", "sending", "wait", "return", "end"}
      /\ attempt \in {1, 2} /\ report \in {"none", "success", "failed", "cyclic"}
  BY <1>1 DEF Typed, Over, Working, Calls
<1>6. job \in [Agents -> Message \cup {None}]
  BY <1>1 DEF CallTyped
<1> QED BY <1>2, <1>3, <1>4, <1>5, <1>6 DEF TypeOK, Calls

LEMMA Invariant == Spec => []IInv
BY InitIInv, StepKeepsIInv, PTL DEF Spec

(* Every variable of the orchestrator keeps its type, at most one subtask runs
   at a time, and while a dispatch waits its reply channel is open. *)
THEOREM TypeCorrect == Spec => []TypeOK
BY Invariant, TypeFromIInv, PTL

(* execute_plan runs no subtask before what it depends on has ended, and what it
   reports is how all of the subtasks ended. *)
THEOREM PlanExecuted == Spec => []PlanExact
<1>1. IInv => PlanExact
  BY DEF IInv, PlanExact
<1> QED BY <1>1, Invariant, PTL

--------------------------------------------------------------------------------
(* What is under way *)

LEMMA TransitMember ==
  ASSUME NEW buffers, NEW sends, NEW jobs, NEW m
  PROVE  m \in InTransit(buffers, sends, jobs) <=>
            \/ \E c \in Chans : m \in ToSet(buffers[c])
            \/ \E k \in Sides : sends[k].todo # <<>> /\ m = sends[k].msg
            \/ \E a \in Agents : jobs[a] # None /\ m = jobs[a]
<1>1. m \in Buffered(buffers) <=> \E c \in Chans : m \in ToSet(buffers[c])
  BY DEF Buffered
<1>2. m \in BeingSent(sends) <=> \E k \in Sides : sends[k].todo # <<>> /\ m = sends[k].msg
  BY DEF BeingSent
<1>3. m \in InHand(jobs) <=> \E a \in Agents : jobs[a] # None /\ m = jobs[a]
  BY DEF InHand
<1> QED BY <1>1, <1>2, <1>3 DEF InTransit

LEMMA UnderWayNext == UnderWay' = InTransit(buffer', sending', job')
BY DEF UnderWay

LEMMA UnderWayType ==
  ASSUME BusTyped, CallTyped
  PROVE  UnderWay \subseteq Message
<1> SUFFICES ASSUME NEW m \in InTransit(buffer, sending, job) PROVE m \in Message
  BY DEF UnderWay
<1>1. CASE \E c \in Chans : m \in ToSet(buffer[c])
  <2>1. PICK c \in Chans : m \in ToSet(buffer[c])
    BY <1>1
  <2>2. buffer[c] \in Seq(Message)
    BY DEF BusTyped
  <2> QED BY <2>1, <2>2, ToSetType
<1>2. CASE \E k \in Sides : sending[k].todo # <<>> /\ m = sending[k].msg
  BY <1>2 DEF BusTyped
<1>3. CASE \E a \in Agents : job[a] # None /\ m = job[a]
  BY <1>3 DEF CallTyped
<1> QED BY <1>1, <1>2, <1>3, TransitMember

(* A message that says what one under way said, or asks for the present try. *)
Echo(m) ==
    \/ \E n \in UnderWay : m.id = n.id /\ m.subtask = n.subtask
    \/ call.id \in Ids /\ m.id = call.id /\ m.subtask = Current

LEMMA AskedMember ==
  ASSUME NEW id, NEW i
  PROVE  <<id, i>> \in Asked <=>
            \/ \E k \in DOMAIN log : id = log[k].id /\ i = log[k].subtask
            \/ call.id \in Ids /\ id = call.id /\ i = Current
BY DEF Asked

LEMMA AskedNow == call.id \in Ids => <<call.id, Current>> \in Asked
BY AskedMember

LEMMA AskedSame ==
  ASSUME log' = log, call'.id = call.id, call.id \in Ids => todo' = todo
  PROVE  Asked' = Asked
BY DEF Asked, Current

LEMMA KnownStep ==
  ASSUME AllKnown, UnderWay \subseteq Message, \A m \in UnderWay' : Echo(m),
         Asked \subseteq Asked', Believed', BelievedOnce'
  PROVE  AllKnown'
<1>1. ASSUME NEW m \in UnderWay' PROVE <<m.id, m.subtask>> \in Asked
  <2>1. CASE \E n \in UnderWay : m.id = n.id /\ m.subtask = n.subtask
    BY <2>1 DEF AllKnown
  <2>2. CASE call.id \in Ids /\ m.id = call.id /\ m.subtask = Current
    BY <2>2, AskedNow
  <2> QED BY <1>1, <2>1, <2>2 DEF Echo
<1> QED BY <1>1 DEF AllKnown

(* A step that neither begins nor ends a try. *)
LEMMA KnownSame ==
  ASSUME AllKnown, UnderWay \subseteq Message, \A m \in UnderWay' : Echo(m),
         UNCHANGED <<call, todo, log>>, pc' = pc
  PROVE  AllKnown'
<1>1. Asked' = Asked
  BY AskedSame
<1>2. Believed' /\ BelievedOnce'
  BY <1>1 DEF AllKnown, Believed, BelievedOnce
<1> QED BY <1>1, <1>2, KnownStep

LEMMA ReceiveTransit ==
  ASSUME BusTyped, Wired, NEW c \in Chans, Bus!Receive(c)
  PROVE  /\ \A d \in Chans : ToSet(buffer'[d]) \subseteq ToSet(buffer[d])
         /\ Head(buffer[c]) \in ToSet(buffer[c]) /\ sending' = sending
<1> DEFINE s == buffer[c]
<1>1. /\ s # <<>> /\ s \in Seq(Message) /\ buffer'[c] = Tail(s)
      /\ \A d \in Chans : d # c => buffer'[d] = buffer[d]
  BY ReceiveWired
<1>2. sending' = sending
  BY DEF Bus!Receive
<1> HIDE DEF s
<1>3. ToSet(s) = {Head(s)} \cup ToSet(Tail(s))
  BY <1>1, ToSetTail
<1> QED BY <1>1, <1>2, <1>3 DEF s

LEMMA DropTransit ==
  ASSUME BusTyped, Wired, NEW c \in Chans, Bus!Drop(c)
  PROVE  (\A d \in Chans : ToSet(buffer'[d]) \subseteq ToSet(buffer[d])) /\ sending' = sending
<1>1. buffer'[c] = <<>> /\ \A d \in Chans : d # c => buffer'[d] = buffer[d]
  BY DropWired
<1>2. sending' = sending
  BY DEF Bus!Drop
<1> QED BY <1>1, <1>2, ToSetEmpty

(* Whatever leaves the bus and the agents poorer only takes messages away. *)
LEMMA FewerUnderWay ==
  ASSUME \A c \in Chans : ToSet(buffer'[c]) \subseteq ToSet(buffer[c]), sending' = sending,
         \A a \in Agents : job'[a] # None => job'[a] \in UnderWay
  PROVE  \A m \in UnderWay' : Echo(m)
<1> SUFFICES ASSUME NEW m \in UnderWay' PROVE m \in UnderWay
  BY DEF Echo
<1>1. m \in InTransit(buffer', sending', job')
  BY UnderWayNext
<1>2. CASE \E c \in Chans : m \in ToSet(buffer'[c])
  BY <1>2, TransitMember DEF UnderWay
<1>3. CASE \E k \in Sides : sending'[k].todo # <<>> /\ m = sending'[k].msg
  BY <1>3, TransitMember DEF UnderWay
<1>4. CASE \E a \in Agents : job'[a] # None /\ m = job'[a]
  BY <1>4
<1> QED BY <1>1, <1>2, <1>3, <1>4, TransitMember

LEMMA SendNextUnderWay ==
  ASSUME BusTyped, Wired, NEW k \in Sides, Bus!SendNext(k), job' = job
  PROVE  \A m \in UnderWay' : Echo(m)
<1> SUFFICES ASSUME NEW m \in UnderWay' PROVE m \in UnderWay
  BY DEF Echo
<1>1. m \in InTransit(buffer', sending', job')
  BY UnderWayNext
<1>2. CASE \E c \in Chans : m \in ToSet(buffer'[c])
  <2>1. PICK c \in Chans : m \in ToSet(buffer'[c])
    BY <1>2
  <2>2. PICK i \in DOMAIN buffer'[c] : m = buffer'[c][i]
    BY <2>1, InToSet
  <2>3. CASE i \in DOMAIN buffer[c] /\ buffer'[c][i] = buffer[c][i]
    BY <2>2, <2>3, InToSet, TransitMember DEF UnderWay
  <2>4. CASE \E j \in DOMAIN sending[k].todo :
                sending[k].todo[j] = c /\ buffer'[c][i] = sending[k].msg
    <3>1. sending[k].todo # <<>> /\ m = sending[k].msg
      BY <2>2, <2>4
    <3> QED BY <3>1, TransitMember DEF UnderWay
  <2> QED BY <2>3, <2>4, SendNextWired
<1>3. CASE \E j \in Sides : sending'[j].todo # <<>> /\ m = sending'[j].msg
  <2>1. PICK j \in Sides : sending'[j].todo # <<>> /\ m = sending'[j].msg
    BY <1>3
  <2>2. sending[j].todo # <<>> /\ m = sending[j].msg
    BY <2>1, SendNextWired
  <2> QED BY <2>2, TransitMember DEF UnderWay
<1>4. CASE \E a \in Agents : job'[a] # None /\ m = job'[a]
  BY <1>4, TransitMember DEF UnderWay
<1> QED BY <1>1, <1>2, <1>3, <1>4, TransitMember

LEMMA BeginUnderWay ==
  ASSUME BusTyped, Wired, NEW k \in Sides, NEW m \in Message, NEW targets \in Seq(Chans),
         \A i \in DOMAIN targets : receiver[targets[i]] # "unused",
         Bus!Begin(k, m, targets), Echo(m),
         \A a \in Agents : job'[a] # None => job'[a] \in UnderWay
  PROVE  \A n \in UnderWay' : Echo(n)
<1> SUFFICES ASSUME NEW n \in UnderWay', n # m PROVE n \in UnderWay
  BY DEF Echo
<1>1. n \in InTransit(buffer', sending', job')
  BY UnderWayNext
<1>2. buffer' = buffer
  BY DEF Bus!Begin
<1>3. /\ \A j \in Sides : j # k => sending'[j] = sending[j]
      /\ sending'[k].todo = targets /\ (targets # <<>> => sending'[k].msg = m)
  BY BeginWired
<1>4. CASE \E c \in Chans : n \in ToSet(buffer'[c])
  BY <1>2, <1>4, TransitMember DEF UnderWay
<1>5. CASE \E j \in Sides : sending'[j].todo # <<>> /\ n = sending'[j].msg
  BY <1>3, <1>5, TransitMember DEF UnderWay
<1>6. CASE \E a \in Agents : job'[a] # None /\ n = job'[a]
  BY <1>6
<1> QED BY <1>1, <1>4, <1>5, <1>6, TransitMember

LEMMA HereUnderWay ==
  /\ \A c \in Chans : ToSet(buffer[c]) \subseteq UnderWay
  /\ \A a \in Agents : job[a] # None => job[a] \in UnderWay
<1>1. \A c \in Chans : \A m \in ToSet(buffer[c]) : m \in UnderWay
  BY TransitMember DEF UnderWay
<1>2. \A a \in Agents : job[a] # None => job[a] \in UnderWay
  BY TransitMember DEF UnderWay
<1> QED BY <1>1, <1>2

LEMMA AgentUnderWay ==
  ASSUME Lines, NEW a \in Agents, AgentStep(a)
  PROVE  \A m \in UnderWay' : Echo(m)
<1>1. BusTyped /\ Wired /\ CallTyped /\ a \in Sides
  BY DEF Lines, Sides
<1>2. job \in [Agents -> Message \cup {None}] /\ None \notin Message
  BY <1>1, NamesAssumption DEF CallTyped
<1>3. CASE Connect(a)
  <2>1. buffer' = buffer /\ sending' = sending /\ job' = job
    BY <1>3 DEF Connect, Bus!Subscribe
  <2> QED BY <2>1, HereUnderWay, FewerUnderWay
<1>4. CASE Accept(a)
  <2>1. PICK c \in Chans : /\ Bus!Receive(c) /\ job' = [job EXCEPT ![a] = Head(buffer[c])]
    <3>1. direct[a] \in Chans
      BY <1>1, <1>4 DEF Accept, BusTyped
    <3> QED BY <1>4, <3>1 DEF Accept
  <2>2. /\ \A d \in Chans : ToSet(buffer'[d]) \subseteq ToSet(buffer[d])
        /\ Head(buffer[c]) \in UnderWay /\ sending' = sending
    BY <1>1, <2>1, ReceiveTransit, HereUnderWay
  <2>3. \A b \in Agents : job'[b] # None => job'[b] \in UnderWay
    BY <1>2, <2>1, <2>2, HereUnderWay
  <2> QED BY <2>2, <2>3, FewerUnderWay
<1>5. CASE AnswerSent(a)
  <2>1. Bus!SendNext(a) /\ job' = job
    BY <1>5 DEF AnswerSent
  <2> QED BY <1>1, <2>1, SendNextUnderWay
<1>6. CASE Ignore(a)
  <2>1. buffer' = buffer /\ sending' = sending /\ job' = [job EXCEPT ![a] = None]
    BY <1>6 DEF Ignore, bus
  <2>2. \A b \in Agents : job'[b] # None => job'[b] \in UnderWay
    BY <1>2, <2>1, HereUnderWay
  <2> QED BY <2>1, <2>2, FewerUnderWay
<1>7. CASE Leave(a)
  <2>1. PICK c \in Chans : Bus!Drop(c) /\ job' = [job EXCEPT ![a] = None]
    <3>1. direct[a] \in Chans
      BY <1>1, <1>7 DEF Leave, BusTyped
    <3> QED BY <1>7, <3>1 DEF Leave
  <2>2. \A b \in Agents : job'[b] # None => job'[b] \in UnderWay
    BY <1>2, <2>1, HereUnderWay
  <2>3. (\A d \in Chans : ToSet(buffer'[d]) \subseteq ToSet(buffer[d])) /\ sending' = sending
    BY <1>1, <2>1, DropTransit
  <2> QED BY <2>2, <2>3, FewerUnderWay
<1>8. ASSUME NEW method \in {"task.done", "task.failed"}, Answer(a, method)
      PROVE  \A m \in UnderWay' : Echo(m)
  <2> DEFINE t == job[a].id
             m == [job[a] EXCEPT !.method = method]
             targets == Bus!ChansOf(t)
  <2>1. job[a] # None /\ Bus!Begin(a, m, targets) /\ job' = [job EXCEPT ![a] = None]
    BY <1>8 DEF Answer, Bus!Publish
  <2>2. job[a] \in Message
    BY <1>2, <2>1
  <2>3. m \in Message /\ m.id = job[a].id /\ m.subtask = job[a].subtask /\ t \in Ids
    BY <2>2 DEF Message, Methods
  <2>4. Echo(m)
    BY <2>1, <2>3, HereUnderWay DEF Echo
  <2> HIDE DEF m, t
  <2>5. targets \in Seq(Chans) /\ \A i \in DOMAIN targets : receiver[targets[i]] # "unused"
    BY <1>1, <2>3, ChansOfWired
  <2> HIDE DEF targets
  <2>6. \A b \in Agents : job'[b] # None => job'[b] \in UnderWay
    BY <1>2, <2>1, HereUnderWay
  <2> QED BY <1>1, <2>1, <2>3, <2>4, <2>5, <2>6, BeginUnderWay
<1> QED BY <1>3, <1>4, <1>5, <1>6, <1>7, <1>8 DEF AgentStep

LEMMA AgentKnown ==
  ASSUME AllKnown, Lines, NEW a \in Agents, AgentStep(a)
  PROVE  AllKnown'
<1>1. UNCHANGED <<call, todo, log>> /\ pc' = pc
  BY DEF AgentStep, Connect, Accept, Answer, AnswerSent, Ignore, Leave, idle
<1>2. UnderWay \subseteq Message
  BY UnderWayType DEF Lines
<1> QED BY <1>1, <1>2, AgentUnderWay, KnownSame

(* The try gets an id, which an earlier one may have had. *)
LEMMA SubscribeReplyKnown ==
  ASSUME AllKnown, Lines, SubscribeReply
  PROVE  AllKnown'
<1>1. buffer' = buffer /\ sending' = sending
  BY DEF SubscribeReply, Bus!Subscribe
<1>2. pc = "dispatch" /\ pc' = "send" /\ UNCHANGED <<todo, log>> /\ job' = job
  BY DEF SubscribeReply
<1>3. call.id = None /\ None \notin Ids /\ UnderWay \subseteq Message
  BY <1>2, UnderWayType, NamesAssumption DEF Lines, Private, Calls, NoCall
<1>5. \A m \in UnderWay' : Echo(m)
  BY <1>1, <1>2, HereUnderWay, FewerUnderWay
<1>6. Asked \subseteq Asked'
  BY <1>2, <1>3 DEF Asked
<1>7. Believed' /\ BelievedOnce'
  BY <1>2 DEF AllKnown, Believed, BelievedOnce
<1> QED BY <1>3, <1>5, <1>6, <1>7, KnownStep

LEMMA SendTaskKnown ==
  ASSUME AllKnown, Progress, Lines, SendTask
  PROVE  AllKnown'
<1> DEFINE pid == assigned[Current]
           run == [method |-> "task.run", id |-> call.id, subtask |-> Current]
<1>1. /\ pc = "send" /\ job' = job /\ UNCHANGED <<todo, log>>
      /\ \/ /\ direct[pid] # None /\ Bus!Begin(Orch, run, <<direct[pid]>>)
            /\ pc' = "sending" /\ call' = call
         \/ /\ UNCHANGED <<subscriptions, direct, buffer, receiver, sending>>
            /\ pc' = "return" /\ call' = [call EXCEPT !.outcome = "ok", !.why = "no_subscriber"]
  BY DEF SendTask, Bus!SendDirect, bus
<1>2. BusTyped /\ Wired /\ CallTyped /\ call.id \in Ids /\ assigned[Current] # None
  BY <1>1 DEF Lines, Private, Calls
<1>3. Current \in DOMAIN required /\ Current \in Nat
  <2>1. PlanTyped /\ Typed /\ Scheduled /\ todo # <<>>
    BY <1>1 DEF Progress, Scheduled, Working, Calls
  <2>2. Current \in DOMAIN required
    BY <2>1, FirstIsCurrent
  <2> QED BY <2>1, <2>2 DEF PlanTyped, Subtasks
<1>4. run \in Message /\ Echo(run)
  BY <1>2, <1>3 DEF Message, Methods, Echo
<1>5. pid \in Sides /\ Orch \in Sides
  BY <1>2, <1>3 DEF Progress, Typed, Sides
<1>6. UnderWay \subseteq Message
  BY <1>2, UnderWayType
<1> HIDE DEF run, pid
<1>7. \A m \in UnderWay' : Echo(m)
  <2>1. CASE direct[pid] # None /\ Bus!Begin(Orch, run, <<direct[pid]>>)
    <3> DEFINE d == direct[pid]
               targets == <<d>>
    <3>1. d \in Chans /\ receiver[d] # "unused"
      BY <1>2, <1>5, <2>1 DEF BusTyped, Wired
    <3> HIDE DEF d
    <3>2. targets \in Seq(Chans) /\ \A i \in DOMAIN targets : receiver[targets[i]] # "unused"
      BY <3>1
    <3>3. Bus!Begin(Orch, run, targets)
      BY <2>1 DEF d
    <3> HIDE DEF targets
    <3>4. \A a \in Agents : job'[a] # None => job'[a] \in UnderWay
      BY <1>1, HereUnderWay
    <3> QED BY <1>2, <1>4, <1>5, <3>2, <3>3, <3>4, BeginUnderWay
  <2>2. CASE UNCHANGED <<subscriptions, direct, buffer, receiver, sending>>
    BY <1>1, <2>2, HereUnderWay, FewerUnderWay
  <2> QED BY <1>1, <2>1, <2>2
<1>8. Asked' = Asked
  <2>1. call'.id = call.id
    BY <1>1, <1>2 DEF CallTyped
  <2> QED BY <1>1, <2>1, AskedSame
<1>9. Believed' /\ BelievedOnce'
  <2>1. pc' = "return" => call'.why = "no_subscriber"
    BY <1>1, <1>2 DEF CallTyped
  <2> QED BY <1>1, <2>1 DEF AllKnown, Believed, BelievedOnce
<1> QED BY <1>6, <1>7, <1>8, <1>9, KnownStep

LEMMA TaskSentKnown ==
  ASSUME AllKnown, Lines, TaskSent
  PROVE  AllKnown'
<1>1. /\ pc = "sending" /\ pc' = "wait" /\ UNCHANGED <<call, todo, log>> /\ job' = job
      /\ Bus!SendNext(Orch) /\ Orch \in Sides
  BY DEF TaskSent, Sides
<1>2. UnderWay \subseteq Message /\ \A m \in UnderWay' : Echo(m)
  BY <1>1, UnderWayType, SendNextUnderWay DEF Lines
<1>3. Asked' = Asked
  BY <1>1, AskedSame
<1>4. Believed' /\ BelievedOnce'
  BY <1>1 DEF AllKnown, Believed, BelievedOnce
<1> QED BY <1>1, <1>2, <1>3, <1>4, KnownStep

LEMMA TakeReplyKnown ==
  ASSUME AllKnown, Lines, TakeReply
  PROVE  AllKnown'
<1> DEFINE c == call.chan
           reply == Head(buffer[c])
<1>1. /\ pc = "wait" /\ Bus!Receive(c) /\ pc' = "return" /\ UNCHANGED <<todo, log>> /\ job' = job
      /\ call' = [call EXCEPT !.outcome = IF reply.method = "task.done" THEN "ok" ELSE "err",
                              !.why = "reply", !.reply = reply]
  BY DEF TakeReply
<1>2. /\ c \in Chans /\ OfTopic(subscriptions, sending, buffer, c, call.id)
      /\ BusTyped /\ Wired /\ CallTyped /\ UnderWay \subseteq Message
  BY <1>1, UnderWayType DEF Lines, Private, Calls
<1> HIDE DEF c
<1>3. /\ reply \in UnderWay /\ reply.id = call.id /\ \A m \in UnderWay' : Echo(m)
  <2>1. /\ \A d \in Chans : ToSet(buffer'[d]) \subseteq ToSet(buffer[d])
        /\ reply \in ToSet(buffer[c]) /\ sending' = sending
    BY <1>1, <1>2, ReceiveTransit
  <2>2. reply.id = call.id
    BY <1>1, <1>2, ReceiveOfTopic
  <2> QED BY <1>1, <1>2, <2>1, <2>2, HereUnderWay, FewerUnderWay
<1> HIDE DEF reply
<1>4. <<call.id, reply.subtask>> \in Asked
  BY <1>3 DEF AllKnown
<1>5. call'.id = call.id /\ call'.reply = reply
  BY <1>1, <1>2 DEF CallTyped
<1>6. Asked' = Asked
  BY <1>1, <1>5, AskedSame
<1>7. Believed' /\ BelievedOnce'
  BY <1>1, <1>4, <1>5, <1>6 DEF AllKnown, Believed, BelievedOnce
<1> QED BY <1>2, <1>3, <1>5, <1>6, <1>7, KnownStep

LEMMA TimedOutKnown ==
  ASSUME AllKnown, Lines, TimedOut
  PROVE  AllKnown'
<1>1. /\ pc = "wait" /\ pc' = "return" /\ UNCHANGED <<todo, log>> /\ job' = job
      /\ call' = [call EXCEPT !.outcome = "ok", !.why = "timeout"]
      /\ buffer' = buffer /\ sending' = sending
  BY DEF TimedOut, bus
<1>2. CallTyped /\ UnderWay \subseteq Message
  BY UnderWayType DEF Lines
<1>3. \A m \in UnderWay' : Echo(m)
  BY <1>1, HereUnderWay, FewerUnderWay
<1>4. call'.id = call.id /\ call'.why = "timeout"
  BY <1>1, <1>2 DEF CallTyped
<1>5. Asked' = Asked
  BY <1>1, <1>4, AskedSame
<1>6. Believed' /\ BelievedOnce'
  BY <1>1, <1>4 DEF AllKnown, Believed, BelievedOnce
<1> QED BY <1>2, <1>3, <1>4, <1>5, <1>6, KnownStep

(* The try is over: its id goes into the log with the answer it believed. *)
LEMMA EndKnown ==
  ASSUME AllKnown, Lines, Typed, NEW why, NEW reply, Logged(why, reply), call' = NoCall,
         why = "reply" => <<call.id, reply.subtask>> \in Asked, \A m \in UnderWay' : Echo(m)
  PROVE  AllKnown'
<1> DEFINE n == Len(log)
<1>1. PICK e \in Entry : /\ log' = Append(log, e) /\ e.subtask = Current /\ e.id = call.id
                         /\ e.why = why /\ e.reply = reply
  BY DEF Logged
<1>2. /\ n \in Nat /\ DOMAIN log = 1 .. n /\ DOMAIN log' = 1 .. n + 1
      /\ log'[n + 1] = e /\ \A k \in 1 .. n : log'[k] = log[k]
  BY <1>1, AppendProperties, LenProperties DEF Typed
<1>3. call'.id = None /\ call'.why = "none" /\ None \notin Ids
  BY NamesAssumption DEF NoCall
<1>4. ASSUME NEW id, NEW i, <<id, i>> \in Asked
      PROVE  \E k \in 1 .. n + 1 : id = log'[k].id /\ i = log'[k].subtask
  <2>1. CASE \E k \in DOMAIN log : id = log[k].id /\ i = log[k].subtask
    BY <1>2, <2>1
  <2>2. CASE id = call.id /\ i = Current
    BY <1>1, <1>2, <2>2
  <2> QED BY <1>4, <2>1, <2>2, AskedMember
<1>5. Believed'
  BY <1>3 DEF Believed
<1>6. BelievedOnce'
  <2>1. ASSUME NEW k \in 1 .. n + 1, log'[k].why = "reply"
        PROVE  \E j \in 1 .. k : /\ log'[j].id = log'[k].id
                                 /\ log'[j].subtask = log'[k].reply.subtask
    <3>1. CASE k = n + 1
      <4>1. <<call.id, reply.subtask>> \in Asked
        BY <1>1, <1>2, <2>1, <3>1
      <4> QED BY <1>1, <1>2, <1>4, <3>1, <4>1
    <3>2. CASE k \in 1 .. n
      <4>1. PICK j \in 1 .. k : log[j].id = log[k].id /\ log[j].subtask = log[k].reply.subtask
        BY <1>2, <2>1, <3>2 DEF AllKnown, BelievedOnce
      <4>2. j \in 1 .. n
        BY <1>2, <3>2
      <4> QED BY <1>2, <3>2, <4>1, <4>2
    <3> QED BY <1>2, <3>1, <3>2
  <2> QED BY <1>2, <2>1 DEF BelievedOnce
<1>7. Asked \subseteq Asked'
  <2>1. ASSUME NEW k \in DOMAIN log PROVE <<log[k].id, log[k].subtask>> \in Asked'
    BY <1>2, <2>1 DEF Asked
  <2>2. <<call.id, Current>> \in Asked'
    BY <1>1, <1>2 DEF Asked
  <2> QED BY <2>1, <2>2 DEF Asked
<1> QED BY <1>5, <1>6, <1>7, UnderWayType, KnownStep DEF Lines

LEMMA DispatchEndsKnown ==
  ASSUME AllKnown, Progress, Lines, NoAgentAssigned \/ Simulate \/ Return
  PROVE  AllKnown'
<1>1. Typed /\ job' = job
  BY DEF Progress, NoAgentAssigned, Simulate, Return
<1>2. CASE NoAgentAssigned \/ Simulate
  <2>1. buffer' = buffer /\ sending' = sending
    BY <1>2 DEF NoAgentAssigned, Simulate, bus
  <2>2. \A m \in UnderWay' : Echo(m)
    BY <1>1, <2>1, HereUnderWay, FewerUnderWay
  <2>3. \/ Logged("unassigned", None) /\ call' = NoCall
        \/ Logged("no_bus", None) /\ call' = NoCall
    BY <1>2, NoAgentAssignedKeeps, SimulateKeeps
  <2> QED BY <1>1, <2>2, <2>3, EndKnown
<1>3. CASE Return
  <2>1. pc = "return" /\ Bus!Drop(call.chan) /\ call.chan \in Chans /\ BusTyped /\ Wired
    BY <1>3 DEF Return, Lines, Private, Calls
  <2>2. (\A c \in Chans : ToSet(buffer'[c]) \subseteq ToSet(buffer[c])) /\ sending' = sending
    BY <2>1, DropTransit
  <2>3. \A m \in UnderWay' : Echo(m)
    BY <1>1, <2>2, HereUnderWay, FewerUnderWay
  <2>4. Logged(call.why, call.reply) /\ call' = NoCall
    BY <1>3, ReturnKeeps
  <2>5. call.why = "reply" => <<call.id, call.reply.subtask>> \in Asked
    BY <2>1 DEF AllKnown, Believed
  <2> QED BY <1>1, <2>3, <2>4, <2>5, EndKnown
<1> QED BY <1>2, <1>3

LEMMA LoopKnown ==
  ASSUME AllKnown, Lines, ExecutePlan \/ NextSubtask \/ Report
  PROVE  AllKnown'
<1>1. /\ pc \notin Calls /\ buffer' = buffer /\ sending' = sending /\ job' = job
      /\ UNCHANGED <<call, log>>
  BY DEF ExecutePlan, NextSubtask, Report, bus, Calls
<1>2. call = NoCall /\ call.id = None /\ call.why = "none" /\ None \notin Ids
  BY <1>1, NamesAssumption DEF Lines, Private, NoCall
<1>3. \A m \in UnderWay' : Echo(m)
  BY <1>1, HereUnderWay, FewerUnderWay
<1>4. Asked' = Asked
  BY <1>1, <1>2, AskedSame
<1>5. Believed' /\ BelievedOnce'
  BY <1>1, <1>2 DEF AllKnown, Believed, BelievedOnce
<1> QED BY <1>1, <1>2, <1>3, <1>4, <1>5, UnderWayType, KnownStep DEF Lines

LEMMA StutterKnown ==
  ASSUME AllKnown, Lines, UNCHANGED vars
  PROVE  AllKnown'
<1>1. /\ buffer' = buffer /\ sending' = sending /\ job' = job
      /\ UNCHANGED <<call, todo, log>> /\ pc' = pc
  BY DEF vars, bus
<1>2. \A m \in UnderWay' : Echo(m)
  BY <1>1, HereUnderWay, FewerUnderWay
<1> QED BY <1>1, <1>2, UnderWayType, KnownSame DEF Lines

LEMMA StepKeepsKnown == IInv /\ AllKnown /\ [Next]_vars => AllKnown'
<1> SUFFICES ASSUME Progress, Lines, AllKnown, [Next]_vars PROVE AllKnown'
  BY IInvParts
<1>1. CASE ExecutePlan \/ NextSubtask \/ Report
  BY <1>1, LoopKnown
<1>2. CASE NoAgentAssigned \/ Simulate \/ Return
  BY <1>2, DispatchEndsKnown
<1>3. CASE SubscribeReply \/ SendTask \/ TaskSent \/ TakeReply \/ TimedOut
  BY <1>3, SubscribeReplyKnown, SendTaskKnown, TaskSentKnown, TakeReplyKnown, TimedOutKnown
<1>4. ASSUME NEW a \in Agents, AgentStep(a) PROVE AllKnown'
  BY <1>4, AgentKnown
<1>5. CASE UNCHANGED vars
  BY <1>5, StutterKnown
<1> QED BY <1>1, <1>2, <1>3, <1>4, <1>5 DEF Next, Execute, Ended

LEMMA InitKnown == Init => AllKnown
<1> SUFFICES ASSUME Init PROVE AllKnown
  OBVIOUS
<1>1. /\ buffer = [c \in Chans |-> <<>>] /\ sending = [k \in Sides |-> [msg |-> None, todo |-> <<>>]]
      /\ pc = "plan" /\ job = [a \in Agents |-> None] /\ log = <<>>
  BY DEF Init, Bus!Init, Bus!Idle, Sides
<1>2. ASSUME NEW m \in UnderWay PROVE FALSE
  <2>1. m \in InTransit(buffer, sending, job)
    BY DEF UnderWay
  <2>2. \A c \in Chans : ToSet(buffer[c]) = {}
    BY <1>1, ToSetEmpty
  <2> QED BY <1>1, <2>1, <2>2, TransitMember
<1>3. Believed /\ BelievedOnce
  BY <1>1 DEF Believed, BelievedOnce
<1> QED BY <1>2, <1>3 DEF AllKnown

LEMMA KnownTries == IInv /\ AllKnown => TriesExact
<1> SUFFICES ASSUME Progress, Lines, AllKnown PROVE TriesExact
  BY IInvParts
<1>1. Typed /\ Scheduled /\ Tried /\ TriedTwice
  BY DEF Progress
<1>2. ASSUME NEW k \in DOMAIN log, log[k].why = "reply",
             \A l \in DOMAIN log : log[l].subtask = log[k].subtask => l <= k
      PROVE  status[log[k].subtask] = "completed" <=> log[k].reply.method = "task.done"
  <2>1. Succeeded(log[k]) <=> log[k].reply.method = "task.done"
    BY <1>2 DEF Succeeded
  <2>2. CASE log[k].subtask \in ToSet(todo)
    <3>1. /\ ~ Succeeded(log[k]) /\ pc \in Working /\ log[k].subtask = Current
      BY <1>1, <2>2 DEF Tried
    <3>2. Current \in DOMAIN status
      BY <1>1, <3>1, FirstIsCurrent DEF Scheduled, Typed
    <3>3. status[log[k].subtask] = "running"
      BY <1>1, <3>1, <3>2 DEF Scheduled
    <3> QED BY <2>1, <3>1, <3>3
  <2>3. CASE log[k].subtask \notin ToSet(todo)
    BY <1>1, <1>2, <2>1, <2>3 DEF Tried
  <2> QED BY <2>2, <2>3
<1>3. RepliesMatch
  BY <1>1, <1>2 DEF RepliesMatch, Tried, AllKnown, BelievedOnce
<1> QED BY <1>1, <1>3 DEF TriesExact

(* A subtask is tried twice at most, by two agents, and the answer a dispatch
   believes was given to that very dispatch, or to an earlier one that had the same
   id: uuid_v4_simple may give an id twice, and then a late answer is mistaken. *)
THEOREM TriesBelieved == Spec => []TriesExact
<1>1. Init => IInv /\ AllKnown
  BY InitIInv, InitKnown
<1>2. IInv /\ AllKnown /\ [Next]_vars => (IInv /\ AllKnown)'
  BY StepKeepsIInv, StepKeepsKnown
<1> QED BY <1>1, <1>2, KnownTries, PTL DEF Spec

--------------------------------------------------------------------------------
(* OrchestratorPlan.  Plans as they are written, parts one after the other: block[j]
   is the first subtask of the part of j.  A subtask of any part but the first depends
   on the one right before its part, and on none of its own part or a later one. *)
Less(n) == {p \in Subtasks(n) \X Subtasks(n) : p[1] < p[2]}

Blocks(block, n) ==
    /\ block \in [Subtasks(n) -> Nat]
    /\ \A j \in Subtasks(n) : block[j] <= j
    /\ \A i, j \in Subtasks(n) : i <= j => block[i] = block[j] \/ i < block[j]

Layered(block, n, deps) ==
    /\ Blocks(block, n)
    /\ \A k \in DOMAIN deps : deps[k][1] < block[deps[k][2]]
    /\ \A j \in Subtasks(n) : block[j] > 0 =>
          \E k \in DOMAIN deps : deps[k][2] = j /\ deps[k][1] = block[j] - 1
    /\ \A h, k \in DOMAIN deps : h < k /\ deps[h][1] = deps[k][1] => deps[h][2] < deps[k][2]

(* What Kahn's loop adds to a queue when it pops a subtask: some that depend on it, in
   the order they are listed. *)
Released(r, s, n, deps) ==
    /\ KahnPop(s, deps).queue = Tail(s.queue) \o r
    /\ Ordered(r, Less(n))
    /\ \A e \in ToSet(r) : \E k \in DOMAIN deps : deps[k][1] = Head(s.queue) /\ deps[k][2] = e

LEMMA PopReleases ==
  ASSUME NEW n, NEW deps, Sortable(n, deps), NEW s \in KahnStates(n), s.queue # <<>>,
         NEW block, Layered(block, n, deps)
  PROVE  \E r \in Seq(Subtasks(n)) : Released(r, s, n, deps)
<1> DEFINE m == Len(deps)
           node == Head(s.queue)
           q == Tail(s.queue)
           Of(r, k) == /\ Ordered(r, Less(n))
                       /\ \A e \in ToSet(r) : \E h \in 1 .. k : deps[h][1] = node /\ deps[h][2] = e
           Adds(t, k) == \E r \in Seq(Subtasks(n)) : t.queue = q \o r /\ Of(r, k)
<1>1. /\ m \in Nat /\ DOMAIN deps = 1 .. m
      /\ \A k \in 1 .. m : deps[k][1] \in Subtasks(n) /\ deps[k][2] \in Subtasks(n)
  BY DependencyType
<1>2. q \in Seq(Subtasks(n)) /\ s.queue \in Seq(Subtasks(n))
  BY HeadTailProperties DEF KahnStates
<1>3. PICK f \in [0 .. m -> KahnStates(n)] :
         /\ f[0].queue = q
         /\ \A k \in 1 .. m :
               f[k] = IF deps[k][1] = node THEN Release(f[k - 1], deps[k]) ELSE f[k - 1]
         /\ KahnPop(s, deps) = f[m]
  <2>1. PICK f \in [0 .. m -> KahnStates(n)] : IsPop(f, s, deps)
    BY PopLoop
  <2>2. [s EXCEPT !.order = Append(@, node), !.queue = Tail(@)].queue = q
    BY DEF KahnStates
  <2> QED BY <2>1, <2>2 DEF IsPop
<1> HIDE DEF q, node, Adds
<1> DEFINE D == {k \in Nat : k <= m => Adds(f[k], k)}
<1>4. 0 \in D
  <2>1. <<>> \in Seq(Subtasks(n)) /\ q = q \o <<>>
    BY <1>2, EmptySeq, ConcatEmptySeq
  <2>2. Of(<<>>, 0)
    BY OrderedEmpty, ToSetEmpty
  <2> HIDE DEF Of
  <2> QED BY <1>3, <2>1, <2>2 DEF Adds
<1>5. ASSUME NEW k \in Nat, k \in D PROVE k + 1 \in D
  <2> SUFFICES ASSUME k + 1 <= m PROVE Adds(f[k + 1], k + 1)
    OBVIOUS
  <2>1. /\ k <= m /\ k + 1 \in 1 .. m /\ (k + 1) - 1 = k /\ k \in 0 .. m
    BY <1>1
  <2>2. PICK r \in Seq(Subtasks(n)) : f[k].queue = q \o r /\ Of(r, k)
    BY <1>5, <2>1 DEF Adds
  <2> DEFINE d == deps[k + 1]
             e == d[2]
  <2>3. e \in Subtasks(n) /\ f[k] \in KahnStates(n)
    BY <1>1, <1>3, <2>1
  <2>4. f[k + 1] = IF d[1] = node THEN Release(f[k], d) ELSE f[k]
    BY <1>3, <2>1
  <2>5. Of(r, k + 1)
    <3>1. \A h \in 1 .. k : h \in 1 .. k + 1
      OBVIOUS
    <3> QED BY <2>2, <3>1
  <2>6. CASE f[k + 1].queue = f[k].queue
    <3> HIDE DEF Of
    <3> QED BY <2>2, <2>5, <2>6 DEF Adds
  <2>7. CASE d[1] = node /\ f[k + 1].queue = Append(f[k].queue, e)
    <3>1. Append(r, e) \in Seq(Subtasks(n)) /\ ToSet(Append(r, e)) = ToSet(r) \cup {e}
      BY <2>3, AppendProperties, ToSetAppend
    <3>2. f[k + 1].queue = q \o Append(r, e)
      <4>1. f[k + 1].queue = Append(q \o r, e)
        BY <2>2, <2>7
      <4> HIDE DEF e
      <4>2. q \o Append(r, e) = Append(q \o r, e)
        BY <1>2, <2>3, ConcatAppend
      <4> QED BY <4>1, <4>2
    <3>3. \A x \in ToSet(r) : <<x, e>> \in Less(n)
      <4> SUFFICES ASSUME NEW x \in ToSet(r) PROVE <<x, e>> \in Less(n)
        OBVIOUS
      <4>1. PICK h \in 1 .. k : deps[h][1] = node /\ deps[h][2] = x
        BY <2>2
      <4>2. h \in DOMAIN deps /\ k + 1 \in DOMAIN deps /\ h < k + 1
        BY <1>1, <2>1
      <4>3. x < e
        BY <2>7, <4>1, <4>2 DEF Layered
      <4>4. x \in Subtasks(n)
        BY <1>1, <4>1, <4>2
      <4> QED BY <2>3, <4>3, <4>4 DEF Less
    <3>4. Ordered(Append(r, e), Less(n))
      BY <2>2, <2>3, <3>3, OrderedAppend
    <3>5. \A x \in ToSet(Append(r, e)) :
             \E h \in 1 .. k + 1 : deps[h][1] = node /\ deps[h][2] = x
      BY <2>1, <2>5, <2>7, <3>1
    <3>6. Of(Append(r, e), k + 1)
      BY <3>4, <3>5
    <3> HIDE DEF Of
    <3> QED BY <3>1, <3>2, <3>6 DEF Adds
  <2>8. CASE d[1] # node
    BY <2>4, <2>6, <2>8
  <2>9. CASE d[1] = node
    <3>1. Release(f[k], d).queue = IF f[k].degree[d[2]] - 1 = 0 THEN Append(f[k].queue, d[2])
                                                                ELSE f[k].queue
      <4> DEFINE t == f[k]
      <4>1. t \in KahnStates(n) /\ d[2] \in Subtasks(n)
        BY <2>3
      <4> HIDE DEF d, t
      <4>2. Release(t, d).queue = IF t.degree[d[2]] - 1 = 0 THEN Append(t.queue, d[2]) ELSE t.queue
        BY <4>1 DEF Release, KahnStates
      <4> QED BY <4>2 DEF t
    <3> QED BY <2>4, <2>6, <2>7, <2>9, <3>1
  <2> QED BY <2>8, <2>9
<1> HIDE DEF D
<1>6. Nat \subseteq D
  BY <1>4, <1>5, SetInduction
<1>7. Adds(f[m], m)
  BY <1>1, <1>6 DEF D
<1> QED BY <1>1, <1>3, <1>7 DEF q, node, Adds, Released

(* A subtask all of whose dependencies are done, in a part that begins after node. *)
LEMMA DoneBefore ==
  ASSUME NEW n, NEW deps, NEW block, Layered(block, n, deps), NEW done,
         NEW e, e \in Subtasks(n), Unmet(e, deps, done) = {}, block[e] > 0
  PROVE  block[e] - 1 \in done
<1>1. PICK k \in DOMAIN deps : deps[k][2] = e /\ deps[k][1] = block[e] - 1
  BY DEF Layered
<1> QED BY <1>1 DEF Unmet

LEMMA PopOrdered ==
  ASSUME NEW n, NEW deps, Sortable(n, deps), NEW s, KahnInv(s, n, deps), s.queue # <<>>,
         NEW block, Layered(block, n, deps), Ordered(s.order \o s.queue, Less(n))
  PROVE  Ordered(KahnPop(s, deps).order \o KahnPop(s, deps).queue, Less(n))
<1> DEFINE z == KahnPop(s, deps)
           o == s.order
           node == Head(s.queue)
           q == Tail(s.queue)
<1>1. /\ s \in KahnStates(n) /\ o \in Seq(Subtasks(n)) /\ s.queue \in Seq(Subtasks(n))
      /\ node \in Subtasks(n) /\ q \in Seq(Subtasks(n)) /\ s.queue = <<node>> \o q
  BY HeadTailProperties DEF KahnInv, KahnStates
<1>2. PICK r \in Seq(Subtasks(n)) :
            /\ z.queue = q \o r /\ Ordered(r, Less(n))
            /\ \A e \in ToSet(r) : \E k \in DOMAIN deps : deps[k][1] = node /\ deps[k][2] = e
  <2>1. \E r \in Seq(Subtasks(n)) : Released(r, s, n, deps)
    BY <1>1, PopReleases
  <2> QED BY <2>1 DEF Released
<1>3. KahnInv(z, n, deps) /\ z.order = Append(o, node)
  BY PopKeeps
<1> HIDE DEF z, o, node, q
<1>4. /\ z.order \in Seq(Subtasks(n)) /\ ToSet(z.order) = ToSet(o) \cup {node}
      /\ z.order \o q = o \o s.queue /\ z.queue \in Seq(Subtasks(n))
      /\ z.order \o z.queue = (z.order \o q) \o r /\ z.order \o q \in Seq(Subtasks(n))
  <2>1. z.order \in Seq(Subtasks(n)) /\ ToSet(z.order) = ToSet(o) \cup {node}
    BY <1>1, <1>3, ToSetAppend, AppendProperties
  <2>2. z.order \o q = o \o s.queue
    BY <1>1, <1>3, MoveHead DEF node, q
  <2>3. z.queue \in Seq(Subtasks(n)) /\ z.order \o q \in Seq(Subtasks(n))
    BY <1>1, <1>2, <2>1, ConcatProperties
  <2> DEFINE u == z.order
  <2>4. u \o (q \o r) = (u \o q) \o r
    <3>1. u \in Seq(Subtasks(n)) /\ q \in Seq(Subtasks(n)) /\ r \in Seq(Subtasks(n))
      BY <1>1, <2>1
    <3> HIDE DEF u
    <3> QED BY <3>1, ConcatAssociative
  <2> QED BY <1>2, <2>1, <2>2, <2>3, <2>4
<1>5. Ordered(z.order \o q, Less(n))
  BY <1>4 DEF o
<1>6. /\ \A x \in ToSet(o) : x < node
      /\ \A x \in ToSet(q) : node < x
      /\ ToSet(q) \subseteq Subtasks(n) /\ ToSet(o) \subseteq Subtasks(n)
      /\ ToSet(r) \subseteq Subtasks(n)
  <2>1. /\ Ordered(z.order, Less(n))
        /\ \A x \in ToSet(z.order), y \in ToSet(q) : <<x, y>> \in Less(n)
    BY <1>1, <1>4, <1>5, OrderedConcat
  <2>2. \A x \in ToSet(o) : <<x, node>> \in Less(n)
    BY <1>1, <1>3, <2>1, OrderedAppend
  <2>3. node \in ToSet(z.order)
    BY <1>4
  <2> QED BY <1>1, <1>2, <2>1, <2>2, <2>3, ToSetType DEF Less
<1>7. n \in Nat /\ block \in [Subtasks(n) -> Nat] /\ Subtasks(n) \subseteq Nat
      /\ \A k \in Subtasks(n) : block[k] <= k
      /\ \A i, j \in Subtasks(n) : i <= j => block[i] = block[j] \/ i < block[j]
  BY DEF Layered, Blocks, Sortable, Subtasks
(* What is released is of the part that begins after node. *)
<1>8. \A e \in ToSet(r) : block[e] = node + 1
  <2> SUFFICES ASSUME NEW e \in ToSet(r) PROVE block[e] = node + 1
    OBVIOUS
  <2>1. e \in Subtasks(n) /\ node < block[e]
    BY <1>2, <1>6 DEF Layered
  <2>2. ToSet(z.queue) = ToSet(q) \cup ToSet(r)
    BY <1>1, <1>2, ToSetConcat
  <2>3. e \in ToSet(z.order \o z.queue)
    <3> DEFINE u == z.order
               v == z.queue
    <3>1. u \in Seq(Subtasks(n)) /\ v \in Seq(Subtasks(n)) /\ e \in ToSet(v)
      BY <1>4, <2>2
    <3> HIDE DEF u, v
    <3>2. e \in ToSet(u \o v)
      BY <3>1, ToSetConcat
    <3> QED BY <3>2 DEF u, v
  <2>4. /\ DOMAIN z.degree = Subtasks(n) /\ z.degree[e] = 0
        /\ z.degree[e] = Cardinality(Unmet(e, deps, ToSet(z.order)))
    BY <1>3, <2>1, <2>3 DEF KahnInv, KahnStates, Counted
  <2>5. Unmet(e, deps, ToSet(z.order)) = {}
    BY <2>4, DependencyType, FS_EmptySet DEF Unmet
  <2>6. block[e] - 1 \in ToSet(o) \cup {node}
    <3>1. block[e] > 0
      BY <1>1, <1>7, <2>1
    <3>2. block[e] - 1 \in ToSet(z.order)
      BY <2>1, <2>5, <3>1, DoneBefore
    <3> QED BY <1>4, <3>2
  <2> QED BY <1>1, <1>6, <1>7, <2>1, <2>6
(* What waits is of a part all before which is done: if anything is released, nothing waits. *)
<1>9. ASSUME NEW e \in ToSet(r), NEW x \in ToSet(q) PROVE FALSE
  <2>1. e \in Subtasks(n) /\ x \in Subtasks(n) /\ node < x /\ block[e] = node + 1
    BY <1>6, <1>8
  <2>2. block[x] >= node + 1
    <3>1. /\ e \in Nat /\ x \in Nat /\ node \in Nat /\ block[x] \in Nat /\ block[e] \in Nat
          /\ block[x] <= x /\ node + 1 <= x
      BY <1>1, <1>7, <2>1
    <3>2. (x <= e => block[x] = block[e] \/ x < block[e])
          /\ (e <= x => block[e] = block[x] \/ e < block[x]) /\ block[e] <= e
      BY <1>7, <2>1
    <3> QED BY <2>1, <3>1, <3>2
  <2>3. x \in ToSet(o \o s.queue)
    <3>1. x \in ToSet(s.queue)
      BY <1>1, <1>9, ToSetTail DEF q
    <3>2. o \in Seq(Subtasks(n)) /\ s.queue \in Seq(Subtasks(n))
      BY <1>1
    <3>3. ToSet(o \o s.queue) = ToSet(o) \cup ToSet(s.queue)
      BY <3>2, ToSetConcat
    <3> QED BY <3>1, <3>3
  <2>4. /\ DOMAIN s.degree = Subtasks(n) /\ s.degree[x] = 0
        /\ s.degree[x] = Cardinality(Unmet(x, deps, ToSet(o)))
    BY <2>1, <2>3 DEF KahnInv, KahnStates, Counted, o
  <2>5. Unmet(x, deps, ToSet(o)) = {}
    BY <2>4, DependencyType, FS_EmptySet DEF Unmet
  <2>6. block[x] - 1 \in ToSet(o)
    <3>1. block[x] > 0
      BY <1>1, <1>7, <2>1, <2>2
    <3> QED BY <2>1, <2>5, <3>1, DoneBefore
  <2> QED BY <1>1, <1>6, <1>7, <2>1, <2>2, <2>6
<1>10. \A x \in ToSet(z.order \o q), y \in ToSet(r) : <<x, y>> \in Less(n)
  <2> SUFFICES ASSUME NEW x \in ToSet(z.order \o q), NEW y \in ToSet(r)
               PROVE  <<x, y>> \in Less(n)
    OBVIOUS
  <2>1. x \in ToSet(o) \cup {node}
    <3> DEFINE u == z.order
    <3>1. u \in Seq(Subtasks(n)) /\ q \in Seq(Subtasks(n))
      BY <1>1, <1>4
    <3> HIDE DEF u
    <3>2. ToSet(u \o q) = ToSet(u) \cup ToSet(q)
      BY <3>1, ToSetConcat
    <3> QED BY <1>4, <1>9, <3>2 DEF u
  <2>2. x \in Subtasks(n) /\ y \in Subtasks(n) /\ x <= node /\ block[y] = node + 1
    BY <1>1, <1>6, <1>7, <1>8, <2>1
  <2>3. x < y
    BY <1>1, <1>7, <2>2
  <2> QED BY <2>2, <2>3 DEF Less
<1>11. Ordered((z.order \o q) \o r, Less(n))
  BY <1>2, <1>4, <1>5, <1>10, OrderedConcat
<1> QED BY <1>4, <1>11 DEF z

LEMMA InitOrdered ==
  ASSUME NEW n, NEW deps, Sortable(n, deps)
  PROVE  Ordered(KahnInit(n, deps).order \o KahnInit(n, deps).queue, Less(n))
<1> DEFINE all == [i \in 1 .. n |-> i - 1]
           zero == {i \in Subtasks(n) : InDegree(i, deps) = 0}
           q == Only(all, zero)
<1>1. n \in Nat
  BY DEF Sortable
<1>2. all \in Seq(Subtasks(n)) /\ Ordered(all, Less(n))
  <2>1. all \in Seq(Subtasks(n)) /\ DOMAIN all = 1 .. n
    BY <1>1 DEF Subtasks
  <2>2. \A i, j \in 1 .. n : i < j => <<all[i], all[j]>> \in Less(n)
    BY <1>1 DEF Less, Subtasks
  <2> QED BY <2>1, <2>2 DEF Ordered
<1> HIDE DEF all, zero
<1>3. q \in Seq(Subtasks(n)) /\ Ordered(q, Less(n))
  BY <1>2, OnlyType, OnlyOrdered
<1> HIDE DEF q
<1>4. KahnInit(n, deps).order = <<>> /\ KahnInit(n, deps).queue = q
  BY DEF KahnInit, q, zero, all
<1>5. <<>> \o q = q
  BY <1>3, ConcatEmptySeq
<1> QED BY <1>3, <1>4, <1>5

(* The least subtask of any set depends on none of the set. *)
LEMMA LayeredAcyclic ==
  ASSUME NEW n, NEW deps, Sortable(n, deps), NEW block, Layered(block, n, deps)
  PROVE  Acyclic(n, deps)
<1> SUFFICES ASSUME NEW S \in (SUBSET Subtasks(n)) \ {{}}
             PROVE  \E i \in S : \A d \in ToSet(deps) : d[2] = i => d[1] \notin S
  BY DEF Acyclic
<1>1. S \subseteq Nat /\ S # {} /\ S \subseteq Subtasks(n)
  BY DEF Subtasks, Sortable
<1>2. PICK i \in S : \A j \in S : i <= j
  BY <1>1, LeastElement
<1>3. ASSUME NEW d \in ToSet(deps), d[2] = i PROVE d[1] \notin S
  <2>1. PICK k \in DOMAIN deps : deps[k] = d
    BY InToSet
  <2>2. d[1] < block[i] /\ block[i] <= i /\ block[i] \in Nat /\ d[1] \in Nat
    BY <1>1, <1>3, <2>1, DependencyType DEF Layered, Blocks, Subtasks
  <2> QED BY <1>1, <1>2, <2>2
<1> QED BY <1>3

(* Only one sequence has all subtasks in increasing order. *)
LEMMA OrderedIsAll ==
  ASSUME NEW n \in Nat, NEW s \in Seq(Subtasks(n)), Len(s) = n, Ordered(s, Less(n))
  PROVE  s = [i \in 1 .. n |-> i - 1]
<1>1. /\ DOMAIN s = 1 .. n /\ s \in [1 .. n -> Subtasks(n)]
      /\ \A i \in 1 .. n : s[i] \in Int /\ 0 <= s[i] /\ s[i] <= n - 1
  BY LenProperties DEF Subtasks
<1>2. \A i, j \in 1 .. n : i < j => s[i] < s[j]
  BY <1>1 DEF Ordered, Less
<1> DEFINE A == {k \in Nat : k + 1 <= n => s[k + 1] >= k}
           B == {k \in Nat : k + 1 <= n => s[n - k] <= n - 1 - k}
<1>3. Nat \subseteq A
  <2>1. 0 \in A
    BY <1>1
  <2>2. ASSUME NEW k \in Nat, k \in A PROVE k + 1 \in A
    <3> SUFFICES ASSUME (k + 1) + 1 <= n PROVE s[(k + 1) + 1] >= k + 1
      OBVIOUS
    <3>1. k + 1 \in 1 .. n /\ (k + 1) + 1 \in 1 .. n /\ k + 1 < (k + 1) + 1
      OBVIOUS
    <3>2. s[k + 1] >= k
      BY <2>2, <3>1
    <3> QED BY <1>1, <1>2, <3>1, <3>2
  <2> HIDE DEF A
  <2> QED BY <2>1, <2>2, SetInduction
<1>4. Nat \subseteq B
  <2>1. 0 \in B
    BY <1>1
  <2>2. ASSUME NEW k \in Nat, k \in B PROVE k + 1 \in B
    <3> SUFFICES ASSUME (k + 1) + 1 <= n PROVE s[n - (k + 1)] <= n - 1 - (k + 1)
      OBVIOUS
    <3>1. n - k \in 1 .. n /\ n - (k + 1) \in 1 .. n /\ n - (k + 1) < n - k
      OBVIOUS
    <3>2. s[n - k] <= n - 1 - k
      BY <2>2, <3>1
    <3> QED BY <1>1, <1>2, <3>1, <3>2
  <2> HIDE DEF B
  <2> QED BY <2>1, <2>2, SetInduction
<1>5. ASSUME NEW i \in 1 .. n PROVE s[i] = i - 1
  <2>1. i - 1 \in Nat /\ (i - 1) + 1 = i /\ n - i \in Nat /\ n - (n - i) = i /\ (n - i) + 1 <= n
    OBVIOUS
  <2>2. s[i] >= i - 1
    BY <1>3, <2>1
  <2>3. s[i] <= n - 1 - (n - i)
    BY <1>4, <2>1
  <2> QED BY <1>1, <2>2, <2>3
<1> QED BY <1>1, <1>5

(* Such a plan is sorted into the order it was written in. *)
LEMMA LayeredOrder ==
  ASSUME NEW n, NEW deps, Sortable(n, deps), NEW block, Layered(block, n, deps)
  PROVE  /\ TopologicalSort(n, deps).found
         /\ TopologicalSort(n, deps).order = [i \in 1 .. n |-> i - 1]
<1> DEFINE InOrder(s) == Ordered(s.order \o s.queue, Less(n))
           X == {s \in KahnStates(n) : KahnInv(s, n, deps) /\ InOrder(s)}
<1>1. \A t \in X : KahnInv(t, n, deps)
  OBVIOUS
<1>2. KahnInit(n, deps) \in X
  BY KahnInitInv, InitOrdered DEF KahnInv
<1>3. ASSUME NEW t \in X, t.queue # <<>> PROVE KahnPop(t, deps) \in X
  <2>1. KahnInv(t, n, deps) /\ Ordered(t.order \o t.queue, Less(n))
    OBVIOUS
  <2> QED BY <1>3, <2>1, PopKeeps, PopOrdered DEF KahnInv
<1> HIDE DEF X
<1>4. PICK s \in X : Kahn(n, deps) = s.order /\ (s.queue = <<>> \/ Len(s.order) = n)
  BY <1>1, <1>2, <1>3, KahnKeepsTo
<1>5. KahnInv(s, n, deps) /\ Ordered(s.order \o s.queue, Less(n))
  BY DEF X
<1>6. Len(s.order) = n
  BY <1>4, <1>5, LayeredAcyclic, AcyclicAllOut
<1>7. s.order \in Seq(Subtasks(n)) /\ Ordered(s.order, Less(n))
  <2> DEFINE o == s.order
             q == s.queue
  <2>1. o \in Seq(Subtasks(n)) /\ q \in Seq(Subtasks(n)) /\ Ordered(o \o q, Less(n))
    BY <1>5 DEF KahnInv, KahnStates
  <2> HIDE DEF o, q
  <2>2. Ordered(o, Less(n))
    BY <2>1, OrderedConcat
  <2> QED BY <2>1, <2>2 DEF o
<1>8. n \in Nat /\ InRange(n, deps)
  BY DEF Sortable
<1>9. s.order = [i \in 1 .. n |-> i - 1]
  <2> DEFINE o == s.order
  <2>1. o \in Seq(Subtasks(n)) /\ Len(o) = n /\ Ordered(o, Less(n))
    BY <1>6, <1>7
  <2> HIDE DEF o
  <2>2. o = [i \in 1 .. n |-> i - 1]
    BY <1>8, <2>1, OrderedIsAll
  <2> QED BY <2>2 DEF o
<1>10. TopologicalSort(n, deps).order = s.order /\ (TopologicalSort(n, deps).found <=> Len(s.order) = n)
  BY <1>4, <1>8 DEF TopologicalSort
<1> QED BY <1>6, <1>9, <1>10

--------------------------------------------------------------------------------
(* Division *)
LEMMA QuotientType ==
  ASSUME NEW x \in Nat, NEW k \in Nat, k > 0
  PROVE  x \div k \in Nat /\ x % k \in Nat /\ x % k < k
BY SMT

LEMMA QuotientOf ==
  ASSUME NEW x \in Nat, NEW k \in Nat, k > 0
  PROVE  x - k * (x \div k) = x % k
BY SMTT(30)

LEMMA QuotientIs ==
  ASSUME NEW x \in Nat, NEW k \in Nat, NEW q \in Nat, NEW r \in Nat,
         k > 0, x = k * q + r, r < k
  PROVE  x \div k = q /\ x % k = r
<1>1. x \div k = q
  BY SMTT(30)
<1>2. x % k = r
  BY SMTT(30)
<1> QED BY <1>1, <1>2

LEMMA TimesMore ==
  ASSUME NEW a \in Nat, NEW b \in Nat, NEW k \in Nat, a <= b
  PROVE  k * a \in Nat /\ k * b \in Nat /\ k * a <= k * b
BY SMT

(* The pairs p of the nested loops: what is in them, the order of those of one
   subtask, those of the subtask right before the part, and the last of them. *)
Pairs(p, from, mid, k) ==
    /\ p \in Seq(Nat \X Nat)
    /\ \A i \in DOMAIN p : p[i][1] \in from .. mid - 1 /\ p[i][2] \in mid .. mid + k - 1
    /\ \A h, i \in DOMAIN p : h < i /\ p[h][1] = p[i][1] => p[h][2] < p[i][2]
    /\ from < mid => \A j \in mid .. mid + k - 1 : \E i \in DOMAIN p : p[i] = <<mid - 1, j>>
    /\ from < mid /\ k > 0 => p # <<>> /\ p[Len(p)] = <<mid - 1, mid + k - 1>>
    /\ from = mid \/ k = 0 => p = <<>>

LEMMA PairsFacts ==
  ASSUME NEW from \in Nat, NEW mid \in Nat, NEW k \in Nat, from <= mid
  PROVE  Pairs(AllPairs(from, mid, k), from, mid, k)
<1> DEFINE N == mid - from
           p == AllPairs(from, mid, k)
           m == N * k
<1>1. N \in Nat /\ m \in Nat /\ m = k * N
  <2>1. N \in Nat
    OBVIOUS
  <2> HIDE DEF N
  <2> QED BY <2>1
<1>2. p = [i \in 1 .. m |-> <<from + ((i - 1) \div k), mid + ((i - 1) % k)>>]
  BY DEF AllPairs
<1>3. N = 0 \/ k = 0 => m = 0
  BY <1>1
<1> HIDE DEF p, m
<1>4. ASSUME NEW i \in 1 .. m
      PROVE  /\ k > 0 /\ i - 1 \in Nat
             /\ (i - 1) \div k \in 0 .. N - 1 /\ (i - 1) % k \in 0 .. k - 1
             /\ (i - 1) - k * ((i - 1) \div k) = (i - 1) % k
  <2>1. k > 0 /\ i - 1 \in Nat
    BY <1>1, <1>3
  <2> DEFINE x == i - 1
             q == x \div k
             r == x % k
  <2>2. q \in Nat /\ r \in Nat /\ r < k /\ x - k * q = r
    BY <2>1, QuotientType, QuotientOf
  <2> HIDE DEF q, r
  <2>3. q < N
    <3> SUFFICES ASSUME N <= q PROVE FALSE
      BY <1>1, <2>2
    <3>1. k * N <= k * q /\ k * q \in Nat
      BY <1>1, <2>2, TimesMore
    <3> QED BY <1>1, <2>2, <3>1
  <2> QED BY <2>1, <2>2, <2>3 DEF q, r
<1>5. ASSUME NEW i \in 1 .. m
      PROVE  p[i] \in Nat \X Nat /\ p[i][1] \in from .. mid - 1 /\ p[i][2] \in mid .. mid + k - 1
  <2> DEFINE q == (i - 1) \div k
             r == (i - 1) % k
  <2>1. q \in 0 .. N - 1 /\ r \in 0 .. k - 1 /\ k > 0
    BY <1>4
  <2>2. p[i] = <<from + q, mid + r>>
    BY <1>2
  <2> HIDE DEF q, r
  <2>3. from + q \in from .. mid - 1 /\ mid + r \in mid .. mid + k - 1
    BY <2>1
  <2>4. from + q \in Nat /\ mid + r \in Nat
    BY <2>1
  <2> QED BY <2>2, <2>3, <2>4
<1>6. p \in Seq(Nat \X Nat) /\ DOMAIN p = 1 .. m /\ Len(p) = m
  BY <1>1, <1>2, <1>5
<1>7. ASSUME NEW h \in 1 .. m, NEW i \in 1 .. m, h < i, p[h][1] = p[i][1]
      PROVE  p[h][2] < p[i][2]
  <2> DEFINE qh == (h - 1) \div k
             qi == (i - 1) \div k
             rh == (h - 1) % k
             ri == (i - 1) % k
  <2>1. /\ qh \in 0 .. N - 1 /\ qi \in 0 .. N - 1 /\ rh \in 0 .. k - 1 /\ ri \in 0 .. k - 1
        /\ (h - 1) - k * qh = rh /\ (i - 1) - k * qi = ri
    BY <1>4
  <2>2. p[h] = <<from + qh, mid + rh>> /\ p[i] = <<from + qi, mid + ri>>
    BY <1>2
  <2> HIDE DEF qh, qi, rh, ri
  <2>3. qh = qi
    BY <1>7, <2>1, <2>2
  <2>4. k * qh \in Nat
    BY <2>1
  <2>5. rh < ri
    BY <1>7, <2>1, <2>3, <2>4
  <2> QED BY <2>1, <2>2, <2>5
<1>8. ASSUME from < mid, NEW j \in mid .. mid + k - 1
      PROVE  LET i == k * (N - 1) + (j - mid) + 1 IN i \in 1 .. m /\ p[i] = <<mid - 1, j>>
  <2> DEFINE r == j - mid
             b == k * (N - 1)
             i == b + r + 1
  <2>1. N - 1 \in Nat /\ r \in Nat /\ r < k /\ k > 0
    BY <1>8
  <2>2. b \in Nat /\ b = m - k
    <3>1. b = k * N - k
      <4> HIDE DEF N
      <4> QED BY <1>1
    <3>2. b \in Nat
      BY <2>1
    <3> QED BY <1>1, <3>1, <3>2
  <2>3. i \in 1 .. m /\ i - 1 \in Nat
    <3> HIDE DEF b, r
    <3> QED BY <1>1, <2>1, <2>2
  <2>4. (i - 1) \div k = N - 1 /\ (i - 1) % k = r
    <3> DEFINE x == i - 1
               y == N - 1
    <3>1. x \in Nat /\ y \in Nat /\ x = k * y + r
      <4> HIDE DEF r
      <4> QED BY <2>1, <2>2, <2>3
    <3> HIDE DEF x, y, r
    <3>2. x \div k = y /\ x % k = r
      BY <2>1, <3>1, QuotientIs
    <3> QED BY <3>2 DEF x, y
  <2>5. p[i] = <<from + ((i - 1) \div k), mid + ((i - 1) % k)>>
    BY <1>2, <2>3
  <2> QED BY <1>8, <2>1, <2>3, <2>4, <2>5
<1>9. from < mid => \A j \in mid .. mid + k - 1 : \E i \in DOMAIN p : p[i] = <<mid - 1, j>>
  BY <1>6, <1>8
<1>10. ASSUME from < mid, k > 0
       PROVE  p # <<>> /\ p[Len(p)] = <<mid - 1, mid + k - 1>>
  <2> DEFINE j == mid + k - 1
             b == k * (N - 1)
  <2>1. j \in mid .. mid + k - 1
    BY <1>10
  <2>2. b + (j - mid) + 1 \in 1 .. m /\ p[b + (j - mid) + 1] = <<mid - 1, j>>
    BY <1>8, <1>10, <2>1
  <2>3. b = m - k
    <3> HIDE DEF N
    <3> QED BY <1>1
  <2>4. b + (j - mid) + 1 = m
    <3> HIDE DEF b
    <3> QED BY <1>1, <2>3
  <2> HIDE DEF b
  <2>5. m \in 1 .. m /\ p[m] = <<mid - 1, j>>
    BY <2>2, <2>4
  <2> QED BY <1>6, <2>5
<1>11. from = mid \/ k = 0 => p = <<>>
  <2> SUFFICES ASSUME from = mid \/ k = 0 PROVE p = <<>>
    OBVIOUS
  <2>1. m = 0
    BY <1>3
  <2> QED BY <1>6, <2>1
<1>12. Pairs(p, from, mid, k)
  BY <1>5, <1>6, <1>7, <1>9, <1>10, <1>11 DEF Pairs
<1> QED BY <1>12 DEF p

--------------------------------------------------------------------------------
(* A plan as orchestrate makes it, after the parts ps. *)
AsWritten(block, ps, n, deps) ==
    /\ Layered(block, n, deps) /\ InRange(n, deps)
    /\ deps = <<>> => \A j \in Subtasks(n) : block[j] = 0
    /\ deps # <<>> => n > 0 /\ deps[Len(deps)][2] = n - 1
    /\ Len(ps) <= 1 => deps = <<>>
    /\ ps = <<>> => n = 0

PlanInv ==
    /\ parts \in Seq(Nat) /\ count \in Nat /\ edits \in Nat /\ edges \in Seq(Nat \X Nat)
    /\ edits = 0 => \E block : AsWritten(block, parts, count, edges)

(* The subtasks of one more part begin at n. *)
NextBlock(block, n, k) == [j \in Subtasks(n + k) |-> IF j < n THEN block[j] ELSE n]

LEMMA NextBlocks ==
  ASSUME NEW n \in Nat, NEW k \in Nat, NEW block, Blocks(block, n)
  PROVE  Blocks(NextBlock(block, n, k), n + k)
<1> DEFINE b == NextBlock(block, n, k)
<1>1. /\ block \in [Subtasks(n) -> Nat] /\ \A j \in Subtasks(n) : block[j] <= j
      /\ \A i, j \in Subtasks(n) : i <= j => block[i] = block[j] \/ i < block[j]
  BY DEF Blocks
<1>2. \A j \in Subtasks(n + k) : j \in Nat /\ (j < n => j \in Subtasks(n))
  BY DEF Subtasks
<1>3. /\ DOMAIN b = Subtasks(n + k)
      /\ \A j \in Subtasks(n + k) : b[j] = IF j < n THEN block[j] ELSE n
  BY DEF NextBlock
<1>4. b \in [Subtasks(n + k) -> Nat]
  BY <1>1, <1>2 DEF NextBlock
<1> HIDE DEF b
<1>5. \A j \in Subtasks(n + k) : b[j] <= j
  BY <1>1, <1>2, <1>3
<1>6. ASSUME NEW i \in Subtasks(n + k), NEW j \in Subtasks(n + k), i <= j
      PROVE  b[i] = b[j] \/ i < b[j]
  BY <1>1, <1>2, <1>3, <1>6
<1> QED BY <1>4, <1>5, <1>6 DEF Blocks, b

(* Where the part before begins, and the dependencies with those of one more part. *)
From(deps) == IF deps = <<>> THEN 0 ELSE deps[Len(deps)][2]
Linked(ps, deps, n, k) ==
    IF ps = <<>> THEN deps ELSE deps \o AllPairs(From(deps), n, k)

LEMMA ThenWritten ==
  ASSUME NEW n \in Nat, NEW k \in Nat, NEW deps \in Seq(Nat \X Nat), NEW ps \in Seq(Nat),
         NEW block, AsWritten(block, ps, n, deps)
  PROVE  /\ AsWritten(NextBlock(block, n, k), Append(ps, k), n + k, Linked(ps, deps, n, k))
         /\ Linked(ps, deps, n, k) \in Seq(Nat \X Nat)
<1> DEFINE from == From(deps)
           more == Linked(ps, deps, n, k)
           b == NextBlock(block, n, k)
           p == AllPairs(from, n, k)
           m == Len(deps)
<1>1. /\ Layered(block, n, deps) /\ InRange(n, deps) /\ m \in Nat /\ DOMAIN deps = 1 .. m
      /\ \A i \in 1 .. m : deps[i][1] \in Subtasks(n) /\ deps[i][2] \in Subtasks(n)
  BY DependencyType DEF AsWritten, Sortable
<1>2. /\ Blocks(block, n) /\ Blocks(b, n + k)
      /\ \A j \in Subtasks(n + k) : b[j] = IF j < n THEN block[j] ELSE n
  <2>1. Blocks(block, n)
    BY <1>1 DEF Layered
  <2> QED BY <2>1, NextBlocks DEF NextBlock
<1>3. Append(ps, k) # <<>> /\ (ps # <<>> => ~ (Len(Append(ps, k)) <= 1))
  <2>1. /\ Append(ps, k) \in Seq(Nat) /\ Len(Append(ps, k)) = Len(ps) + 1 /\ Len(ps) \in Nat
        /\ Append(ps, k) # <<>>
        /\ ps # <<>> => Len(ps) # 0
    BY AppendProperties, LenProperties
  <2>2. Len(<<>>) = 0
    OBVIOUS
  <2> QED BY <2>1, <2>2
<1>4. /\ Subtasks(n) \subseteq Subtasks(n + k) /\ Subtasks(n + k) \subseteq Nat
      /\ \A j \in Subtasks(n + k) : j < n <=> j \in Subtasks(n)
      /\ \A j \in Subtasks(n) : j < n
  BY DEF Subtasks
<1>8. ASSUME NEW x \in n .. n + k - 1 PROVE x \in Subtasks(n + k) /\ x \notin Subtasks(n)
  <2>1. x \in Int /\ n <= x /\ x <= n + k - 1
    OBVIOUS
  <2> QED BY <2>1 DEF Subtasks
<1>9. /\ \A j \in Subtasks(n) : b[j] = block[j]
      /\ \A j \in Subtasks(n + k) : j \notin Subtasks(n) => b[j] = n
  <2>1. ASSUME NEW j \in Subtasks(n) PROVE b[j] = block[j]
    <3>1. j \in Subtasks(n + k) /\ j < n
      BY <1>4
    <3> QED BY <1>2, <3>1
  <2> QED BY <1>2, <1>4, <2>1
<1>7. Len(<<>>) = 0
  OBVIOUS
<1>5. CASE ps = <<>>
  <2>1. n = 0 /\ deps = <<>> /\ more = <<>>
    BY <1>7, <1>5 DEF AsWritten, Linked
  <2> HIDE DEF more
  <2>2. \A j \in Subtasks(n + k) : b[j] = 0
    BY <1>2, <1>4, <2>1
  <2>3. Layered(b, n + k, more)
    BY <1>2, <2>1, <2>2 DEF Layered
  <2>4. InRange(n + k, more)
    BY <2>1, ToSetEmpty DEF InRange
  <2> HIDE DEF b
  <2>5. AsWritten(b, Append(ps, k), n + k, more)
    BY <1>3, <2>1, <2>2, <2>3, <2>4 DEF AsWritten
  <2> QED BY <2>1, <2>5, EmptySeq DEF b, more
<1>6. CASE ps # <<>>
  <2>1. from <= n /\ (deps # <<>> => n > 0 /\ from = n - 1) /\ (deps = <<>> => from = 0)
        /\ (from < n \/ n = 0) /\ from \in Nat
    BY <1>6 DEF AsWritten, From
  <2> HIDE DEF p, from
  <2>2. Pairs(p, from, n, k) /\ p \in Seq(Nat \X Nat) /\ Len(p) \in Nat /\ DOMAIN p = 1 .. Len(p)
    <3>1. Pairs(p, from, n, k)
      BY <2>1, PairsFacts DEF p
    <3>2. p \in Seq(Nat \X Nat)
      BY <3>1 DEF Pairs
    <3> QED BY <3>1, <3>2, LenProperties
  <2> HIDE DEF p, b, m, more
  <2>3. more = deps \o p /\ more \in Seq(Nat \X Nat) /\ Len(more) = m + Len(p)
        /\ \A i \in 1 .. m + Len(p) : more[i] = IF i <= m THEN deps[i] ELSE p[i - m]
    <3>1. more = deps \o p
      BY <1>6 DEF p, from, more, Linked
    <3> QED BY <2>2, <3>1, ConcatProperties DEF m
  <2> DEFINE l == Len(p)
  <2>4. /\ l \in Nat /\ DOMAIN more = 1 .. m + l
        /\ \A i \in 1 .. m : i \in 1 .. m + l /\ more[i] = deps[i]
        /\ \A i \in 1 .. l : m + i \in 1 .. m + l /\ more[m + i] = p[i]
    <3>1. \A i \in 1 .. l : m + i \in 1 .. m + l /\ ~ (m + i <= m) /\ (m + i) - m = i
      BY <1>1, <2>2
    <3>2. \A i \in 1 .. m : i \in 1 .. m + l /\ i <= m
      BY <1>1, <2>2
    <3>3. DOMAIN more = 1 .. m + l
      BY <2>3, LenProperties
    <3> QED BY <2>2, <2>3, <3>1, <3>2, <3>3
  (* Each is one of before or a new one. *)
  <2>5. \A i \in 1 .. m + l : \/ i \in 1 .. m /\ more[i] = deps[i]
                              \/ i - m \in 1 .. l /\ i > m /\ more[i] = p[i - m]
    <3> TAKE i \in 1 .. m + l
    <3>1. i <= m => i \in 1 .. m
      OBVIOUS
    <3>2. ~ (i <= m) => i - m \in 1 .. l /\ i > m
      BY <1>1, <2>4
    <3> QED BY <2>3, <3>1, <3>2
  <2> HIDE DEF l
  <2>6. \A i \in 1 .. m : more[i][1] \in Subtasks(n) /\ more[i][2] \in Subtasks(n)
    BY <1>1, <2>4
  <2>7. \A i \in 1 .. l : /\ p[i][1] \in Subtasks(n)
                          /\ p[i][2] \in Subtasks(n + k) /\ p[i][2] \notin Subtasks(n)
    <3> TAKE i \in 1 .. l
    <3>1. p[i][1] \in from .. n - 1 /\ p[i][2] \in n .. n + k - 1
      BY <2>2 DEF l, Pairs
    <3>2. \A x \in from .. n - 1 : x \in Subtasks(n)
      BY <2>1 DEF Subtasks
    <3> QED BY <1>8, <3>1, <3>2
  <2>8. InRange(n + k, more)
    <3> SUFFICES ASSUME NEW d \in ToSet(more) PROVE {d[1], d[2]} \subseteq Subtasks(n + k)
      BY DEF InRange
    <3>1. PICK i \in DOMAIN more : more[i] = d
      BY InToSet
    <3>3. i \in 1 .. m + l
      BY <2>4
    <3>2. d[1] \in Subtasks(n + k) /\ d[2] \in Subtasks(n + k)
      BY <1>4, <2>5, <2>6, <2>7, <3>1, <3>3
    <3> QED BY <3>2
  <2>9. \A i \in DOMAIN more : more[i][1] < b[more[i][2]]
    <3> SUFFICES ASSUME NEW i \in 1 .. m + l PROVE more[i][1] < b[more[i][2]]
      BY <2>4
    <3>1. CASE i \in 1 .. m /\ more[i] = deps[i]
      <4>1. deps[i][1] < block[deps[i][2]] /\ deps[i][2] \in Subtasks(n)
        BY <1>1, <3>1 DEF Layered
      <4>2. b[deps[i][2]] = block[deps[i][2]]
        BY <1>9, <4>1
      <4> QED BY <3>1, <4>1, <4>2
    <3>2. CASE i - m \in 1 .. l /\ more[i] = p[i - m]
      <4>1. b[more[i][2]] = n /\ more[i][1] \in Subtasks(n)
        BY <1>9, <2>7, <3>2
      <4>2. more[i][1] < n
        BY <1>4, <4>1
      <4> QED BY <4>1, <4>2
    <3> QED BY <2>5, <3>1, <3>2
  <2>10. ASSUME NEW j \in Subtasks(n + k), b[j] > 0
         PROVE  \E i \in DOMAIN more : more[i][2] = j /\ more[i][1] = b[j] - 1
    <3>1. CASE j < n
      <4>1. j \in Subtasks(n) /\ b[j] = block[j]
        BY <1>2, <1>4, <3>1
      <4>2. PICK i \in DOMAIN deps : deps[i][2] = j /\ deps[i][1] = block[j] - 1
        BY <1>1, <2>10, <4>1 DEF Layered
      <4> QED BY <1>1, <2>4, <4>1, <4>2
    <3>2. CASE ~ (j < n)
      <4>1. b[j] = n /\ j \in n .. n + k - 1
        BY <1>2, <3>2 DEF Subtasks
      <4>2. PICK i \in DOMAIN p : p[i] = <<n - 1, j>>
        <5>1. from < n
          BY <2>1, <2>10, <4>1
        <5> QED BY <2>2, <4>1, <5>1 DEF Pairs
      <4>3. i \in 1 .. l
        BY <2>2 DEF l
      <4>4. /\ m + i \in DOMAIN more
            /\ more[m + i][2] = j /\ more[m + i][1] = n - 1
        <5>1. p[i][2] = j /\ p[i][1] = n - 1
          BY <4>2
        <5> QED BY <2>4, <4>3, <5>1
      <4> QED BY <4>1, <4>4
    <3> QED BY <3>1, <3>2
  <2>11. ASSUME NEW h \in DOMAIN more, NEW i \in DOMAIN more, h < i, more[h][1] = more[i][1]
         PROVE  more[h][2] < more[i][2]
    <3>1. h \in 1 .. m + l /\ i \in 1 .. m + l
      BY <2>4
    <3>2. CASE i \in 1 .. m /\ more[i] = deps[i]
      <4>1. h \in 1 .. m /\ more[h] = deps[h]
        BY <1>1, <2>4, <2>11, <3>1, <3>2
      <4> QED BY <1>1, <2>11, <3>2, <4>1 DEF Layered
    <3>3. CASE i - m \in 1 .. l /\ i > m /\ more[i] = p[i - m]
      <4>1. CASE h \in 1 .. m /\ more[h] = deps[h]
        <5>1. more[h][2] \in Subtasks(n)
          BY <2>6, <4>1
        <5>2. p[i - m][2] \in Subtasks(n + k) /\ p[i - m][2] \notin Subtasks(n)
          BY <2>7, <3>3
        <5>3. \A x \in Subtasks(n), y \in Subtasks(n + k) : y \notin Subtasks(n) => x < y
          BY DEF Subtasks
        <5> QED BY <3>3, <5>1, <5>2, <5>3
      <4>2. CASE h - m \in 1 .. l /\ h > m /\ more[h] = p[h - m]
        <5>1. h - m < i - m /\ h - m \in DOMAIN p /\ i - m \in DOMAIN p
          BY <1>1, <2>2, <2>11, <3>1, <3>3, <4>2 DEF l
        <5> QED BY <2>2, <2>11, <3>3, <4>2, <5>1 DEF Pairs
      <4> QED BY <2>5, <3>1, <4>1, <4>2
    <3> QED BY <2>5, <3>1, <3>2, <3>3
  <2>12. Layered(b, n + k, more)
    BY <1>2, <2>9, <2>10, <2>11 DEF Layered
  <2>13. more = <<>> => \A j \in Subtasks(n + k) : b[j] = 0
    <3> SUFFICES ASSUME more = <<>>, NEW j \in Subtasks(n + k) PROVE b[j] = 0
      OBVIOUS
    <3>5. Len(more) = 0
      BY <1>7
    <3>1. m = 0 /\ l = 0
      BY <1>1, <2>3, <2>4, <3>5 DEF l
    <3>2. deps = <<>> /\ p = <<>>
      BY <2>2, <3>1 DEF m, l
    <3>3. j < n => b[j] = 0
      BY <1>2, <1>4, <3>2 DEF AsWritten
    <3>4. ~ (j < n) => n = 0
      <4>1. ~ (j < n) => k > 0
        BY <1>4 DEF Subtasks
      <4>2. k > 0 => ~ (from < n)
        BY <2>2, <3>2 DEF Pairs
      <4> QED BY <2>1, <4>1, <4>2
    <3> QED BY <1>2, <3>3, <3>4
  <2>14. more # <<>> => n + k > 0 /\ more[Len(more)][2] = n + k - 1
    <3> SUFFICES ASSUME more # <<>> PROVE n + k > 0 /\ more[Len(more)][2] = n + k - 1
      OBVIOUS
    <3>1. CASE p = <<>>
      <4>1. l = 0 /\ deps # <<>> /\ m > 0
        <5>1. l = 0
          BY <3>1 DEF l
        <5>2. m + l # 0
          <6>1. Len(more) # 0
            BY <2>3
          <6> QED BY <2>3, <6>1 DEF l
        <5> QED BY <1>1, <1>7, <5>1, <5>2 DEF m
      <4>2. n > 0 /\ deps[m][2] = n - 1 /\ k = 0
        BY <2>1, <2>2, <3>1, <4>1 DEF AsWritten, Pairs, m
      <4>3. Len(more) = m /\ m \in 1 .. m
        BY <1>1, <2>3, <4>1 DEF l
      <4>4. more[m][2] = n - 1
        BY <2>4, <4>2, <4>3
      <4> QED BY <4>2, <4>3, <4>4
    <3>2. CASE p # <<>>
      <4>1. p[l] = <<n - 1, n + k - 1>> /\ k > 0
        BY <2>1, <2>2, <3>2 DEF l, Pairs
      <4>2. l \in 1 .. l /\ Len(more) = m + l
        BY <2>2, <2>3, <2>4, <3>2 DEF l
      <4>3. more[m + l][2] = n + k - 1
        <5>1. p[l][2] = n + k - 1
          BY <4>1
        <5> QED BY <2>4, <4>2, <5>1
      <4> QED BY <4>1, <4>2, <4>3
    <3> QED BY <3>1, <3>2
  <2>15. AsWritten(b, Append(ps, k), n + k, more)
    BY <1>3, <1>6, <2>8, <2>12, <2>13, <2>14 DEF AsWritten
  <2> QED BY <2>3, <2>15 DEF b, more
<1> QED BY <1>5, <1>6

LEMMA PlanBegins == PlanInit => PlanInv
<1> SUFFICES ASSUME PlanInit PROVE PlanInv
  OBVIOUS
<1>1. parts = <<>> /\ count = 0 /\ edges = <<>> /\ edits = 0
  BY DEF PlanInit
<1> DEFINE b == [j \in Subtasks(0) |-> 0]
<1>2. Subtasks(0) = {}
  BY DEF Subtasks
<1>3. Layered(b, 0, <<>>) /\ InRange(0, <<>>)
  BY <1>2, ToSetEmpty DEF Layered, Blocks, InRange
<1>4. AsWritten(b, <<>>, 0, <<>>)
  BY <1>2, <1>3 DEF AsWritten
<1> QED BY <1>1, <1>4 DEF PlanInv

LEMMA PlanStep == PlanInv /\ [PlanNext]_planVars => PlanInv'
<1> SUFFICES ASSUME PlanInv, [PlanNext]_planVars PROVE PlanInv'
  OBVIOUS
<1>1. /\ parts \in Seq(Nat) /\ count \in Nat /\ edits \in Nat
      /\ edges \in Seq(Nat \X Nat)
  BY DEF PlanInv
<1>2. ASSUME NEW k \in 0 .. MaxAnd, ThenPart(k) PROVE PlanInv'
  <2>1. k \in Nat
    BY BoundsAssumption
  <2>2. /\ parts' = Append(parts, k) /\ count' = count + k /\ edits' = edits /\ edits = 0
        /\ edges' = IF parts = <<>> THEN edges
                           ELSE edges \o AllPairs(PreviousStart, count, k)
    BY <1>2 DEF ThenPart
  <2>3. PICK block : AsWritten(block, parts, count, edges)
    BY <2>2 DEF PlanInv
  <2>4. parts # <<>> => PreviousStart = From(edges)
    <3>1. Len(parts) = 1 => edges = <<>>
      BY <2>3 DEF AsWritten
    <3> QED BY <3>1 DEF PreviousStart, Last, From
  <2>5. edges' = Linked(parts, edges, count, k)
    BY <2>2, <2>4 DEF Linked
  <2>6. AsWritten(NextBlock(block, count, k), parts', count', edges')
        /\ edges' \in Seq(Nat \X Nat)
    <3> DEFINE more == Linked(parts, edges, count, k)
               after == AsWritten(NextBlock(block, count, k), Append(parts, k), count + k, more)
    <3>1. after /\ more \in Seq(Nat \X Nat)
      BY <1>1, <2>1, <2>3, ThenWritten
    <3> QED BY <2>2, <2>5, <3>1
  <2>7. parts' \in Seq(Nat) /\ count' \in Nat /\ edits' \in Nat
    BY <1>1, <2>1, <2>2, AppendProperties
  <2> QED BY <2>6, <2>7 DEF PlanInv
<1>3. ASSUME NEW i \in 0 .. count, NEW j \in 0 .. count, AddDependency(i, j)
      PROVE  PlanInv'
  <2>1. i \in Nat /\ j \in Nat /\ <<i, j>> \in Nat \X Nat
    BY <1>1
  <2>2. /\ edges' = Append(edges, <<i, j>>) /\ edits' = edits + 1
        /\ parts' = parts /\ count' = count
    BY <1>3 DEF AddDependency
  <2>3. edges' \in Seq(Nat \X Nat) /\ edits' \in Nat /\ edits' # 0
    BY <1>1, <2>1, <2>2, AppendProperties
  <2> QED BY <1>1, <2>2, <2>3 DEF PlanInv
<1>4. ASSUME UNCHANGED planVars PROVE PlanInv'
  <2>1. parts' = parts /\ count' = count /\ edits' = edits /\ edges' = edges
    BY <1>4 DEF planVars
  <2> QED BY <2>1 DEF PlanInv
<1> QED BY <1>2, <1>3, <1>4 DEF PlanNext

LEMMA PlanOrdered == PlanInv => PlanInOrder
<1> SUFFICES ASSUME PlanInv PROVE PlanInOrder
  OBVIOUS
<1>1. count \in Nat /\ edges \in Seq(Nat \X Nat)
  BY DEF PlanInv
<1>2. Order = TopologicalSort(count, edges)
  BY DEF Order
<1>3. SortCorrect
  BY <1>1, <1>2, SortsAll DEF SortCorrect
<1>4. WrittenOrder
  <2> SUFFICES ASSUME edits = 0
               PROVE  /\ Order.found
                      /\ Order.order = [i \in 1 .. count |-> i - 1]
    BY DEF WrittenOrder
  <2>1. PICK block : AsWritten(block, parts, count, edges)
    BY DEF PlanInv
  <2>2. Sortable(count, edges) /\ Layered(block, count, edges)
    BY <1>1, <2>1 DEF AsWritten, Sortable
  <2> QED BY <1>2, <2>2, LayeredOrder
<1> QED BY <1>3, <1>4 DEF PlanInOrder

(* A plan of orchestrate runs in the order it was written, however many parts and
   subtasks in a part; and whatever dependencies the caller adds to it, an order
   is found exactly when there is one, and is one. *)
THEOREM PlanCorrect == PlanSpec => []PlanInOrder
<1>1. PlanInit => PlanInv
  BY PlanBegins
<1>2. PlanInv /\ [PlanNext]_planVars => PlanInv'
  BY PlanStep
<1>3. PlanInv => PlanInOrder
  BY PlanOrdered
<1> QED BY <1>1, <1>2, <1>3, PTL DEF PlanSpec

================================================================================
