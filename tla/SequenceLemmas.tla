----------------------------- MODULE SequenceLemmas -----------------------------
(***************************************************************************)
(* What can be said of the operators of Filters, and of the elements of a  *)
(* sequence.  The facts that the proofs about queues need hold of Only by  *)
(* induction on the length, which SetInduction gives in a form that the    *)
(* provers can use.                                                        *)
(***************************************************************************)
EXTENDS Filters, SequencesExt, WellFoundedInduction, SequenceTheorems, TLAPS

--------------------------------------------------------------------------------
(* A set that has 0, and with a number the next one, has them all. *)
LEMMA SetInduction ==
  ASSUME NEW S, 0 \in S, \A n \in Nat : n \in S => n + 1 \in S
  PROVE  Nat \subseteq S
<1> DEFINE R == OpToRel(<, Nat)
<1>1. IsWellFoundedOn(R, Nat)
  BY NatLessThanWellFounded
<1>2. \A T : T \subseteq Nat /\ T # {} => \E x \in T : \A y \in T : ~ (<<y, x>> \in R)
  BY <1>1, WFMin
<1>3. \A x, y \in Nat : y < x => <<y, x>> \in R
  BY DEF OpToRel
<1> HIDE DEF R
<1>4. SUFFICES ASSUME Nat \ S # {} PROVE FALSE
  OBVIOUS
<1>5. PICK x \in Nat \ S : \A y \in Nat \ S : ~ (<<y, x>> \in R)
  BY <1>2, <1>4
<1>6. x - 1 \in Nat
  BY <1>5
<1>7. x - 1 < x
  BY <1>5
<1>8. x - 1 \in S
  BY <1>3, <1>5, <1>6, <1>7
<1>9. x - 1 + 1 \in S
  BY <1>6, <1>8
<1> QED BY <1>5, <1>6, <1>9
--------------------------------------------------------------------------------
(* What the recursion of Only goes through. *)
IsFilter(f, n, s, S) ==
    f = [i \in 0 .. n |-> IF i = 0 THEN <<>>
                          ELSE IF s[i] \in S THEN Append(f[i - 1], s[i]) ELSE f[i - 1]]

LEMMA FilterExists ==
  ASSUME NEW s, NEW S, NEW n \in Nat
  PROVE  \E f : IsFilter(f, n, s, S)
<1> DEFINE D == {m \in Nat : \E f : IsFilter(f, m, s, S)}
<1>1. 0 \in D
  <2>1. IsFilter([i \in 0 .. 0 |-> <<>>], 0, s, S)
    BY DEF IsFilter
  <2> QED BY <2>1
<1>2. ASSUME NEW m \in Nat, m \in D PROVE m + 1 \in D
  <2>1. PICK f : IsFilter(f, m, s, S)
    BY <1>2
  <2> DEFINE Step(i) == IF s[i] \in S THEN Append(f[i - 1], s[i]) ELSE f[i - 1]
             g == [i \in 0 .. m + 1 |-> IF i = 0 THEN <<>> ELSE Step(i)]
  <2>2. \A i \in 0 .. m : f[i] = IF i = 0 THEN <<>> ELSE Step(i)
    BY <2>1, Zenon DEF IsFilter
  <2>3. \A i \in 0 .. m + 1 : g[i] = IF i = 0 THEN <<>> ELSE Step(i)
    BY Zenon
  <2>4. \A i \in 0 .. m : i \in 0 .. m + 1
    OBVIOUS
  <2>5. \A i \in 0 .. m : g[i] = f[i]
    BY <2>2, <2>3, <2>4, Zenon
  <2>6. \A i \in 0 .. m + 1 : i # 0 => i - 1 \in 0 .. m
    OBVIOUS
  <2>7. \A i \in 0 .. m + 1 : i # 0 =>
          Step(i) = IF s[i] \in S THEN Append(g[i - 1], s[i]) ELSE g[i - 1]
    BY <2>5, <2>6, Zenon
  <2>8. IsFilter(g, m + 1, s, S)
    BY <2>7, Zenon DEF IsFilter
  <2> QED BY <2>8
<1> HIDE DEF D
<1>3. Nat \subseteq D
  BY <1>1, <1>2, SetInduction
<1> QED BY <1>3 DEF D

LEMMA FilterStep ==
  ASSUME NEW f, NEW n \in Nat, NEW s, NEW S, IsFilter(f, n, s, S),
         NEW i \in Nat, i + 1 <= n
  PROVE  f[i + 1] = IF s[i + 1] \in S THEN Append(f[i], s[i + 1]) ELSE f[i]
<1>1. \A j \in 0 .. n : j # 0 =>
         f[j] = IF s[j] \in S THEN Append(f[j - 1], s[j]) ELSE f[j - 1]
  BY DEF IsFilter
<1>2. i + 1 \in 0 .. n /\ i + 1 # 0 /\ (i + 1) - 1 = i
  OBVIOUS
<1> QED BY <1>1, <1>2

LEMMA FilterUnique ==
  ASSUME NEW s, NEW S, NEW f, NEW m \in Nat, IsFilter(f, m, s, S),
         NEW t, NEW g, NEW n \in Nat, IsFilter(g, n, t, S),
         NEW k \in Nat, k <= m, k <= n, \A i \in 1 .. k : s[i] = t[i]
  PROVE  f[k] = g[k]
<1> DEFINE D == {i \in Nat : i <= k => f[i] = g[i]}
<1>1. 0 \in D
  BY DEF IsFilter
<1>2. ASSUME NEW i \in Nat, i \in D PROVE i + 1 \in D
  <2> SUFFICES ASSUME i + 1 <= k PROVE f[i + 1] = g[i + 1]
    OBVIOUS
  <2>1. f[i] = g[i] /\ s[i + 1] = t[i + 1] /\ i + 1 <= m /\ i + 1 <= n
    BY <1>2
  <2>2. f[i + 1] = IF s[i + 1] \in S THEN Append(f[i], s[i + 1]) ELSE f[i]
    BY <2>1, FilterStep
  <2>3. g[i + 1] = IF t[i + 1] \in S THEN Append(g[i], t[i + 1]) ELSE g[i]
    BY <2>1, FilterStep
  <2> QED BY <2>1, <2>2, <2>3
<1> HIDE DEF D
<1>3. Nat \subseteq D
  BY <1>1, <1>2, SetInduction
<1> QED BY <1>3 DEF D

LEMMA OnlyIsFilter ==
  ASSUME NEW T, NEW s \in Seq(T), NEW S
  PROVE  \E f : IsFilter(f, Len(s), s, S) /\ Only(s, S) = f[Len(s)]
<1> DEFINE f == CHOOSE h : IsFilter(h, Len(s), s, S)
<1>1. IsFilter(f, Len(s), s, S)
  BY FilterExists, LenProperties
<1>2. Only(s, S) = f[Len(s)]
  BY DEF Only, IsFilter
<1> QED BY <1>1, <1>2

(* By recursion from the right. *)
LEMMA OnlyEmpty ==
  ASSUME NEW S
  PROVE  Only(<<>>, S) = <<>>
<1>1. <<>> \in Seq({}) /\ Len(<<>>) = 0
  OBVIOUS
<1>2. PICK f : IsFilter(f, 0, <<>>, S) /\ Only(<<>>, S) = f[0]
  BY <1>1, OnlyIsFilter
<1> QED BY <1>2 DEF IsFilter

LEMMA OnlyAppend ==
  ASSUME NEW T, NEW s \in Seq(T), NEW x \in T, NEW S
  PROVE  Only(Append(s, x), S) = IF x \in S THEN Append(Only(s, S), x) ELSE Only(s, S)
<1> DEFINE t == Append(s, x)
           n == Len(s)
<1>1. n \in Nat /\ t \in Seq(T) /\ Len(t) = n + 1 /\ t[n + 1] = x
      /\ \A i \in 1 .. n : s[i] = t[i]
  BY AppendProperties, LenProperties
<1>2. PICK f : IsFilter(f, n, s, S) /\ Only(s, S) = f[n]
  BY OnlyIsFilter
<1>3. PICK g : IsFilter(g, n + 1, t, S) /\ Only(t, S) = g[n + 1]
  BY OnlyIsFilter, <1>1
<1> HIDE DEF t, n
<1>4. f[n] = g[n]
  BY <1>1, <1>2, <1>3, FilterUnique
<1>5. g[n + 1] = IF t[n + 1] \in S THEN Append(g[n], t[n + 1]) ELSE g[n]
  BY <1>1, <1>3, FilterStep
<1> QED BY <1>1, <1>2, <1>3, <1>4, <1>5 DEF t

--------------------------------------------------------------------------------
(* Sequences, from the right. *)
LEMMA SeqInduction ==
  ASSUME NEW T, NEW P, <<>> \in P,
         \A s \in Seq(T), x \in T : s \in P => Append(s, x) \in P
  PROVE  Seq(T) \subseteq P
<1> DEFINE D == {n \in Nat : \A s \in Seq(T) : Len(s) = n => s \in P}
<1>1. 0 \in D
  BY EmptySeq
<1>2. ASSUME NEW n \in Nat, n \in D PROVE n + 1 \in D
  <2> SUFFICES ASSUME NEW s \in Seq(T), Len(s) = n + 1 PROVE s \in P
    OBVIOUS
  <2>1. s # <<>>
    OBVIOUS
  <2>2. PICK t \in Seq(T), x \in T : s = Append(t, x)
    BY <2>1, SequenceEmptyOrAppend
  <2>3. Len(t) = n
    BY <2>2, AppendProperties, LenProperties
  <2>4. t \in P
    BY <1>2, <2>3
  <2> QED BY <2>2, <2>4
<1> HIDE DEF D
<1>3. Nat \subseteq D
  BY <1>1, <1>2, SetInduction
<1> QED BY <1>3, LenProperties DEF D

LEMMA InToSet == \A s, y : y \in ToSet(s) <=> \E i \in DOMAIN s : s[i] = y
BY DEF ToSet

LEMMA ToSetEmpty == ToSet(<<>>) = {}
BY DEF ToSet

LEMMA ToSetAppend ==
  ASSUME NEW T, NEW s \in Seq(T), NEW x \in T
  PROVE  ToSet(Append(s, x)) = ToSet(s) \cup {x}
<1> DEFINE n == Len(s)
           t == Append(s, x)
<1>1. n \in Nat /\ DOMAIN s = 1 .. n /\ DOMAIN t = 1 .. n + 1
      /\ t[n + 1] = x /\ \A i \in 1 .. n : t[i] = s[i]
  BY AppendProperties, LenProperties
<1> HIDE DEF n, t
<1>2. 1 .. n + 1 = (1 .. n) \cup {n + 1}
  BY <1>1
<1>3. ASSUME NEW y PROVE y \in ToSet(t) <=> y \in ToSet(s) \cup {x}
  BY <1>1, <1>2, InToSet
<1> QED BY <1>3 DEF t

LEMMA ToSetType ==
  ASSUME NEW T, NEW s \in Seq(T)
  PROVE  ToSet(s) \subseteq T
BY LenProperties, ElementOfSeq DEF ToSet

LEMMA ToSetTail ==
  ASSUME NEW T, NEW s \in Seq(T), s # <<>>
  PROVE  ToSet(s) = {Head(s)} \cup ToSet(Tail(s))
<1>1. /\ Len(s) \in Nat \ {0} /\ DOMAIN s = 1 .. Len(s) /\ Head(s) = s[1]
      /\ Tail(s) \in Seq(T) /\ Len(Tail(s)) = Len(s) - 1
      /\ DOMAIN Tail(s) = 1 .. Len(s) - 1
      /\ \A i \in 1 .. Len(s) - 1 : Tail(s)[i] = s[i + 1]
  BY EmptySeq, HeadTailProperties, LenProperties
<1>2. \A i \in 1 .. Len(s) : i = 1 \/ i - 1 \in 1 .. Len(s) - 1
  BY <1>1
<1>3. \A i \in 1 .. Len(s) : i # 1 => s[i] = Tail(s)[i - 1]
  BY <1>1, <1>2
<1>4. \A i \in 1 .. Len(s) - 1 : i + 1 \in 1 .. Len(s)
  BY <1>1
<1>5. 1 \in 1 .. Len(s)
  BY <1>1
<1>6. ASSUME NEW y \in ToSet(s) PROVE y \in {Head(s)} \cup ToSet(Tail(s))
  <2>1. PICK i \in 1 .. Len(s) : s[i] = y
    BY <1>1, InToSet
  <2>2. i # 1 => y = Tail(s)[i - 1] /\ i - 1 \in DOMAIN Tail(s)
    BY <1>1, <1>2, <1>3, <2>1
  <2> QED BY <1>1, <2>1, <2>2, InToSet, Zenon
<1>7. Head(s) \in ToSet(s)
  BY <1>1, <1>5, InToSet, Zenon
<1>8. ASSUME NEW y \in ToSet(Tail(s)) PROVE y \in ToSet(s)
  <2>1. PICK i \in DOMAIN Tail(s) : Tail(s)[i] = y
    BY InToSet, Zenon
  <2>2. s[i + 1] = y /\ i + 1 \in 1 .. Len(s)
    BY <1>1, <1>4, <2>1
  <2> QED BY <1>1, <2>2, InToSet, Zenon
<1> QED BY <1>6, <1>7, <1>8

LEMMA ToSetConcat ==
  ASSUME NEW T, NEW s \in Seq(T), NEW t \in Seq(T)
  PROVE  ToSet(s \o t) = ToSet(s) \cup ToSet(t)
<1> DEFINE m == Len(s)
           n == Len(t)
           u == s \o t
<1>1. /\ m \in Nat /\ n \in Nat /\ DOMAIN s = 1 .. m /\ DOMAIN t = 1 .. n
      /\ DOMAIN u = 1 .. m + n
      /\ \A i \in 1 .. m + n : u[i] = IF i <= m THEN s[i] ELSE t[i - m]
  BY ConcatProperties, LenProperties
<1> HIDE DEF m, n, u
<1>2. \A i \in 1 .. m : i \in 1 .. m + n /\ u[i] = s[i]
  BY <1>1
<1>3. \A i \in 1 .. n : i + m \in 1 .. m + n /\ u[i + m] = t[i]
  BY <1>1
<1>4. \A i \in 1 .. m + n :
         (i \in 1 .. m /\ u[i] = s[i]) \/ (i - m \in 1 .. n /\ u[i] = t[i - m])
  BY <1>1
<1>5. ASSUME NEW y PROVE y \in ToSet(u) <=> y \in ToSet(s) \cup ToSet(t)
  <2>1. ASSUME y \in ToSet(u) PROVE y \in ToSet(s) \cup ToSet(t)
    <3>1. PICK i \in 1 .. m + n : u[i] = y
      BY <1>1, <2>1, InToSet
    <3>2. (i \in DOMAIN s /\ s[i] = y) \/ (i - m \in DOMAIN t /\ t[i - m] = y)
      BY <1>1, <1>4, <3>1
    <3> QED BY <3>2, InToSet, Zenon
  <2>2. ASSUME y \in ToSet(s) PROVE y \in ToSet(u)
    BY <1>1, <1>2, <2>2, InToSet
  <2>3. ASSUME y \in ToSet(t) PROVE y \in ToSet(u)
    <3>1. PICK i \in 1 .. n : t[i] = y
      BY <1>1, <2>3, InToSet
    <3>2. i + m \in DOMAIN u /\ u[i + m] = y
      BY <1>1, <1>3, <3>1
    <3> QED BY <3>2, InToSet, Zenon
  <2> QED BY <2>1, <2>2, <2>3
<1> QED BY <1>5 DEF u

(* A message moved from the front of one sequence to the end of another. *)
LEMMA MoveHead ==
  ASSUME NEW T, NEW s \in Seq(T), NEW t \in Seq(T), t # <<>>
  PROVE  Append(s, Head(t)) \o Tail(t) = s \o t
<1>1. Head(t) \in T /\ Tail(t) \in Seq(T)
  BY HeadTailProperties
<1>2. Append(s, Head(t)) = s \o <<Head(t)>>
  BY <1>1, AppendIsConcat
<1>3. <<Head(t)>> \o Tail(t) = t
  BY <1>1, HeadTailProperties, EmptySeq, LenProperties
<1> QED BY <1>1, <1>2, <1>3, ConcatAssociative

LEMMA ConcatAppend ==
  ASSUME NEW T, NEW s \in Seq(T), NEW t \in Seq(T), NEW x \in T
  PROVE  s \o Append(t, x) = Append(s \o t, x)
<1>1. Append(t, x) = t \o <<x>> /\ s \o t \in Seq(T) /\ <<x>> \in Seq(T)
  BY AppendIsConcat, ConcatProperties
<1>2. Append(s \o t, x) = (s \o t) \o <<x>>
  BY <1>1, AppendIsConcat
<1> QED BY <1>1, <1>2, ConcatAssociative

--------------------------------------------------------------------------------
(* Only: its type, its elements, and how it meets itself, \o and other sets. *)
LEMMA OnlyType ==
  ASSUME NEW T, NEW s \in Seq(T), NEW S
  PROVE  Only(s, S) \in Seq(T)
<1> DEFINE P == {t \in Seq(T) : Only(t, S) \in Seq(T)}
<1>1. <<>> \in P
  BY OnlyEmpty, EmptySeq
<1>2. ASSUME NEW t \in Seq(T), NEW x \in T, t \in P PROVE Append(t, x) \in P
  <2>1. Only(t, S) \in Seq(T) /\ Append(t, x) \in Seq(T)
    BY <1>2, AppendProperties
  <2>2. Append(Only(t, S), x) \in Seq(T)
    BY <2>1, AppendProperties
  <2>3. Only(Append(t, x), S) = IF x \in S THEN Append(Only(t, S), x) ELSE Only(t, S)
    BY OnlyAppend
  <2>4. Only(Append(t, x), S) \in Seq(T)
    BY <2>1, <2>2, <2>3
  <2> QED BY <2>1, <2>4
<1> HIDE DEF P
<1>3. Seq(T) \subseteq P
  BY <1>1, <1>2, SeqInduction
<1> QED BY <1>3 DEF P

LEMMA OnlyLength ==
  ASSUME NEW T, NEW s \in Seq(T), NEW S
  PROVE  Len(Only(s, S)) <= Len(s)
<1> DEFINE P == {t \in Seq(T) : Len(Only(t, S)) <= Len(t)}
<1>1. <<>> \in P
  BY OnlyEmpty, EmptySeq
<1>2. ASSUME NEW t \in Seq(T), NEW x \in T, t \in P PROVE Append(t, x) \in P
  <2>1. Only(t, S) \in Seq(T) /\ Append(t, x) \in Seq(T)
    BY OnlyType, AppendProperties
  <2>2. /\ Len(Append(t, x)) = Len(t) + 1
        /\ Len(Append(Only(t, S), x)) = Len(Only(t, S)) + 1
        /\ Len(t) \in Nat /\ Len(Only(t, S)) \in Nat
    BY <2>1, AppendProperties, LenProperties
  <2>3. Len(Only(t, S)) <= Len(t)
    BY <1>2
  <2>4. Len(Only(Append(t, x), S)) <= Len(Append(t, x))
    <3>1. CASE x \in S
      BY <2>2, <2>3, <3>1, OnlyAppend
    <3>2. CASE x \notin S
      BY <2>2, <2>3, <3>2, OnlyAppend
    <3> QED BY <3>1, <3>2
  <2> QED BY <2>1, <2>4
<1> HIDE DEF P
<1>3. Seq(T) \subseteq P
  BY <1>1, <1>2, SeqInduction
<1> QED BY <1>3 DEF P

LEMMA OnlyRange ==
  ASSUME NEW T, NEW s \in Seq(T), NEW S
  PROVE  ToSet(Only(s, S)) = ToSet(s) \cap S
<1> DEFINE P == {t \in Seq(T) : ToSet(Only(t, S)) = ToSet(t) \cap S}
<1>1. <<>> \in P
  BY OnlyEmpty, EmptySeq, ToSetEmpty
<1>2. ASSUME NEW t \in Seq(T), NEW x \in T, t \in P PROVE Append(t, x) \in P
  <2>1. Append(t, x) \in Seq(T) /\ Only(t, S) \in Seq(T)
    BY AppendProperties, OnlyType
  <2>2. ToSet(Append(t, x)) = ToSet(t) \cup {x}
    BY ToSetAppend
  <2>3. ToSet(Append(Only(t, S), x)) = ToSet(Only(t, S)) \cup {x}
    BY <2>1, ToSetAppend
  <2>4. ToSet(Only(t, S)) = ToSet(t) \cap S
    BY <1>2
  <2>5. Only(Append(t, x), S) = IF x \in S THEN Append(Only(t, S), x) ELSE Only(t, S)
    BY OnlyAppend
  <2>6. CASE x \in S
    BY <2>1, <2>2, <2>3, <2>4, <2>5, <2>6
  <2>7. CASE x \notin S
    BY <2>1, <2>2, <2>4, <2>5, <2>7
  <2> QED BY <2>6, <2>7
<1> HIDE DEF P
<1>3. Seq(T) \subseteq P
  BY <1>1, <1>2, SeqInduction
<1> QED BY <1>3 DEF P

LEMMA OnlyOf ==
  ASSUME NEW T, NEW s \in Seq(T), NEW S, S \subseteq ToSet(s)
  PROVE  Only(s, S) \in Seq(T) /\ ToSet(Only(s, S)) = S
<1>1. ToSet(Only(s, S)) = ToSet(s) \cap S
  BY OnlyRange
<1> QED BY <1>1, OnlyType

LEMMA OnlySame ==
  ASSUME NEW T, NEW s \in Seq(T), NEW S, NEW R,
         \A x \in ToSet(s) : x \in S <=> x \in R
  PROVE  Only(s, S) = Only(s, R)
<1> DEFINE P == {t \in Seq(T) : (\A x \in ToSet(t) : x \in S <=> x \in R)
                                   => Only(t, S) = Only(t, R)}
<1>1. <<>> \in P
  BY OnlyEmpty, EmptySeq
<1>2. ASSUME NEW t \in Seq(T), NEW x \in T, t \in P PROVE Append(t, x) \in P
  <2>1. Append(t, x) \in Seq(T) /\ ToSet(Append(t, x)) = ToSet(t) \cup {x}
    BY AppendProperties, ToSetAppend
  <2>2. /\ Only(Append(t, x), S) = IF x \in S THEN Append(Only(t, S), x) ELSE Only(t, S)
        /\ Only(Append(t, x), R) = IF x \in R THEN Append(Only(t, R), x) ELSE Only(t, R)
    BY OnlyAppend
  <2>3. ASSUME \A y \in ToSet(Append(t, x)) : y \in S <=> y \in R
        PROVE  Only(Append(t, x), S) = Only(Append(t, x), R)
    <3>1. (x \in S <=> x \in R) /\ Only(t, S) = Only(t, R)
      BY <1>2, <2>1, <2>3
    <3> QED BY <2>2, <3>1
  <2> QED BY <2>1, <2>3
<1> HIDE DEF P
<1>3. Seq(T) \subseteq P
  BY <1>1, <1>2, SeqInduction
<1> QED BY <1>3 DEF P

LEMMA OnlyAll ==
  ASSUME NEW T, NEW s \in Seq(T), NEW S, ToSet(s) \subseteq S
  PROVE  Only(s, S) = s
<1> DEFINE P == {t \in Seq(T) : ToSet(t) \subseteq S => Only(t, S) = t}
<1>1. <<>> \in P
  BY OnlyEmpty, EmptySeq
<1>2. ASSUME NEW t \in Seq(T), NEW x \in T, t \in P PROVE Append(t, x) \in P
  BY <1>2, OnlyAppend, AppendProperties, ToSetAppend
<1> HIDE DEF P
<1>3. Seq(T) \subseteq P
  BY <1>1, <1>2, SeqInduction
<1> QED BY <1>3 DEF P

LEMMA OnlyConcat ==
  ASSUME NEW T, NEW s \in Seq(T), NEW t \in Seq(T), NEW S
  PROVE  Only(s \o t, S) = Only(s, S) \o Only(t, S)
<1> DEFINE P == {u \in Seq(T) : Only(s \o u, S) = Only(s, S) \o Only(u, S)}
<1>1. <<>> \in P
  BY OnlyEmpty, OnlyType, EmptySeq, ConcatEmptySeq
<1>2. ASSUME NEW u \in Seq(T), NEW x \in T, u \in P PROVE Append(u, x) \in P
  <2>1. s \o u \in Seq(T) /\ Only(s, S) \in Seq(T) /\ Only(u, S) \in Seq(T)
    BY OnlyType, ConcatProperties
  <2>2. s \o Append(u, x) = Append(s \o u, x)
    BY ConcatAppend
  <2>3. Only(s, S) \o Append(Only(u, S), x) = Append(Only(s, S) \o Only(u, S), x)
    BY <2>1, ConcatAppend
  <2>4. Only(Append(s \o u, x), S)
          = IF x \in S THEN Append(Only(s \o u, S), x) ELSE Only(s \o u, S)
    BY <2>1, OnlyAppend
  <2>5. Only(Append(u, x), S) = IF x \in S THEN Append(Only(u, S), x) ELSE Only(u, S)
    BY OnlyAppend
  <2>6. Only(s \o u, S) = Only(s, S) \o Only(u, S)
    BY <1>2
  <2>7. Only(s \o Append(u, x), S) = Only(s, S) \o Only(Append(u, x), S)
    BY <2>2, <2>3, <2>4, <2>5, <2>6
  <2> QED BY <2>7, AppendProperties
<1> HIDE DEF P
<1>3. Seq(T) \subseteq P
  BY <1>1, <1>2, SeqInduction
<1> QED BY <1>3 DEF P

LEMMA OnlyTwice ==
  ASSUME NEW T, NEW s \in Seq(T), NEW S, NEW R
  PROVE  Only(Only(s, S), R) = Only(s, S \cap R)
<1> DEFINE P == {t \in Seq(T) : Only(Only(t, S), R) = Only(t, S \cap R)}
<1>1. <<>> \in P
  BY OnlyEmpty, EmptySeq
<1>2. ASSUME NEW t \in Seq(T), NEW x \in T, t \in P PROVE Append(t, x) \in P
  <2>1. Only(t, S) \in Seq(T) /\ Append(t, x) \in Seq(T)
    BY OnlyType, AppendProperties
  <2>2. Only(Append(Only(t, S), x), R)
          = IF x \in R THEN Append(Only(Only(t, S), R), x) ELSE Only(Only(t, S), R)
    BY <2>1, OnlyAppend
  <2>3. Only(Append(t, x), S) = IF x \in S THEN Append(Only(t, S), x) ELSE Only(t, S)
    BY OnlyAppend
  <2>4. Only(Append(t, x), S \cap R)
          = IF x \in S \cap R THEN Append(Only(t, S \cap R), x) ELSE Only(t, S \cap R)
    BY OnlyAppend
  <2>5. Only(Only(t, S), R) = Only(t, S \cap R)
    BY <1>2
  <2>6. ASSUME x \in S, x \in R PROVE Append(t, x) \in P
    BY <2>1, <2>2, <2>3, <2>4, <2>5, <2>6
  <2>7. ASSUME x \in S, x \notin R PROVE Append(t, x) \in P
    BY <2>1, <2>2, <2>3, <2>4, <2>5, <2>7
  <2>8. CASE x \notin S
    BY <2>1, <2>3, <2>4, <2>5, <2>8
  <2> QED BY <2>6, <2>7, <2>8
<1> HIDE DEF P
<1>3. Seq(T) \subseteq P
  BY <1>1, <1>2, SeqInduction
<1> QED BY <1>3 DEF P

--------------------------------------------------------------------------------
(* Sequences in which no element occurs twice. *)
LEMMA DistinctAppend ==
  ASSUME NEW T, NEW s \in Seq(T), NEW x \in T
  PROVE  Distinct(Append(s, x)) <=> Distinct(s) /\ x \notin ToSet(s)
<1> DEFINE n == Len(s)
           t == Append(s, x)
<1>1. n \in Nat /\ DOMAIN s = 1 .. n /\ DOMAIN t = 1 .. n + 1
      /\ t[n + 1] = x /\ \A i \in 1 .. n : t[i] = s[i]
  BY AppendProperties, LenProperties
<1> HIDE DEF n, t
<1>2. ASSUME Distinct(t) PROVE Distinct(s) /\ x \notin ToSet(s)
  BY <1>1, <1>2, InToSet DEF Distinct
<1>3. ASSUME Distinct(s), x \notin ToSet(s) PROVE Distinct(t)
  <2> SUFFICES ASSUME NEW i \in 1 .. n + 1, NEW j \in 1 .. n + 1, t[i] = t[j]
               PROVE  i = j
    BY <1>1 DEF Distinct
  <2>1. \A h \in 1 .. n : s[h] # x
    BY <1>1, <1>3, InToSet
  <2> QED BY <1>1, <1>3, <2>1 DEF Distinct
<1> QED BY <1>2, <1>3 DEF t

LEMMA DistinctTail ==
  ASSUME NEW T, NEW s \in Seq(T), s # <<>>, Distinct(s)
  PROVE  Distinct(Tail(s)) /\ Head(s) \notin ToSet(Tail(s))
<1>1. /\ Len(s) \in Nat \ {0} /\ DOMAIN s = 1 .. Len(s) /\ Head(s) = s[1]
      /\ DOMAIN Tail(s) = 1 .. Len(s) - 1
      /\ \A i \in 1 .. Len(s) - 1 : Tail(s)[i] = s[i + 1]
  BY EmptySeq, HeadTailProperties, LenProperties
<1>2. \A i \in 1 .. Len(s) - 1 : i + 1 \in 1 .. Len(s) /\ i + 1 # 1
  BY <1>1
<1>3. Distinct(Tail(s))
  BY <1>1, <1>2 DEF Distinct
<1>4. \A i \in DOMAIN Tail(s) : Tail(s)[i] # Head(s)
  BY <1>1, <1>2 DEF Distinct
<1> QED BY <1>3, <1>4, InToSet

LEMMA OnlyDistinct ==
  ASSUME NEW T, NEW s \in Seq(T), Distinct(s), NEW S
  PROVE  Distinct(Only(s, S))
<1> DEFINE P == {t \in Seq(T) : Distinct(t) => Distinct(Only(t, S))}
<1>1. <<>> \in P
  BY OnlyEmpty, EmptySeq
<1>2. ASSUME NEW t \in Seq(T), NEW x \in T, t \in P PROVE Append(t, x) \in P
  <2>1. Append(t, x) \in Seq(T)
    BY AppendProperties
  <2> SUFFICES ASSUME Distinct(Append(t, x)) PROVE Distinct(Only(Append(t, x), S))
    BY <2>1
  <2>2. Distinct(t) /\ x \notin ToSet(t)
    BY DistinctAppend
  <2>3. Only(t, S) \in Seq(T) /\ x \notin ToSet(Only(t, S)) /\ Distinct(Only(t, S))
    BY <1>2, <2>2, OnlyType, OnlyRange
  <2>4. Distinct(Append(Only(t, S), x))
    BY <2>3, DistinctAppend
  <2> QED BY <2>3, <2>4, OnlyAppend
<1> HIDE DEF P
<1>3. Seq(T) \subseteq P
  BY <1>1, <1>2, SeqInduction
<1> QED BY <1>3 DEF P

LEMMA DistinctConcat ==
  ASSUME NEW T, NEW s \in Seq(T), NEW t \in Seq(T), Distinct(s \o t)
  PROVE  ToSet(s) \cap ToSet(t) = {}
<1> DEFINE m == Len(s)
           n == Len(t)
           u == s \o t
<1>1. /\ m \in Nat /\ n \in Nat /\ DOMAIN s = 1 .. m /\ DOMAIN t = 1 .. n
      /\ DOMAIN u = 1 .. m + n
      /\ \A i \in 1 .. m + n : u[i] = IF i <= m THEN s[i] ELSE t[i - m]
  BY ConcatProperties, LenProperties
<1>2. Distinct(u)
  OBVIOUS
<1> HIDE DEF m, n, u
<1>3. ASSUME NEW i \in 1 .. m, NEW j \in 1 .. n PROVE s[i] # t[j]
  <2>1. i \in 1 .. m + n /\ j + m \in 1 .. m + n /\ i # j + m /\ ~ (j + m <= m)
        /\ (j + m) - m = j
    BY <1>1
  <2>2. u[i] = s[i] /\ u[j + m] = t[j]
    BY <1>1, <2>1
  <2> QED BY <1>1, <1>2, <2>1, <2>2 DEF Distinct
<1> QED BY <1>1, <1>3, InToSet

(* A sequence and its last element. *)
LEMMA DistinctLast ==
  ASSUME NEW T, NEW s \in Seq(T), s # <<>>, Distinct(s)
  PROVE  \E front \in Seq(T) : /\ s = Append(front, s[Len(s)])
                              /\ s[Len(s)] \in T /\ s[Len(s)] \notin ToSet(front)
<1>1. PICK front \in Seq(T), x \in T : s = Append(front, x)
  BY SequenceEmptyOrAppend
<1>2. s[Len(s)] = x
  BY <1>1, AppendProperties, LenProperties
<1> QED BY <1>1, <1>2, DistinctAppend

(* Part of a beginning is part of the whole. *)
LEMMA PrefixWindow ==
  ASSUME NEW T, NEW s \in Seq(T), NEW n \in 0 .. Len(s), NEW i \in Nat, NEW k \in Nat, i + k <= n
  PROVE  /\ SubSeq(s, 1, n) \in Seq(T) /\ Len(SubSeq(s, 1, n)) = n
         /\ SubSeq(SubSeq(s, 1, n), i + 1, i + k) = SubSeq(s, i + 1, i + k)
         /\ SubSeq(s, i + 1, i + k) \in Seq(T) /\ Len(SubSeq(s, i + 1, i + k)) = k
<1> DEFINE l == SubSeq(s, 1, n)
<1>1. Len(s) \in Nat /\ n \in Nat /\ \A j \in 1 .. Len(s) : s[j] \in T
  BY LenProperties, ElementOfSeq
<1>2. l \in Seq(T) /\ Len(l) = n /\ \A j \in 1 .. n : l[j] = s[j]
  <2>1. /\ l \in Seq(T) /\ Len(l) = IF 1 <= n THEN n - 1 + 1 ELSE 0
        /\ \A j \in 1 .. n - 1 + 1 : l[j] = s[1 + j - 1]
    BY <1>1, SubSeqProperties, \A j \in 1 .. n : s[j] \in T
  <2> QED BY <1>1, <2>1
<1> HIDE DEF l
<1> DEFINE a == SubSeq(l, i + 1, i + k)
           b == SubSeq(s, i + 1, i + k)
<1>3. \A j \in i + 1 .. i + k : j \in 1 .. n /\ s[j] \in T /\ l[j] = s[j]
  BY <1>1, <1>2
<1>4. /\ b \in Seq(T) /\ Len(b) = IF i + 1 <= i + k THEN i + k - (i + 1) + 1 ELSE 0
      /\ \A j \in 1 .. i + k - (i + 1) + 1 : b[j] = s[i + 1 + j - 1]
  BY <1>3, SubSeqProperties
<1>5. /\ a \in Seq(T) /\ Len(a) = IF i + 1 <= i + k THEN i + k - (i + 1) + 1 ELSE 0
      /\ \A j \in 1 .. i + k - (i + 1) + 1 : a[j] = l[i + 1 + j - 1]
  BY <1>3, SubSeqProperties
<1> HIDE DEF a, b
<1>6. Len(a) = k /\ Len(b) = k
  BY <1>4, <1>5
<1>7. \A j \in 1 .. k : a[j] = b[j]
  <2> TAKE j \in 1 .. k
  <2>1. j \in 1 .. i + k - (i + 1) + 1 /\ i + 1 + j - 1 \in i + 1 .. i + k
    OBVIOUS
  <2> QED BY <1>3, <1>4, <1>5, <2>1
<1>8. a = b
  BY <1>4, <1>5, <1>6, <1>7, SeqEqual
<1> QED BY <1>2, <1>4, <1>6, <1>8 DEF a, b, l

--------------------------------------------------------------------------------
(* Sequences in order. *)
LEMMA OrderedEmpty ==
  ASSUME NEW R
  PROVE  Ordered(<<>>, R)
BY DEF Ordered

LEMMA OrderedConcat ==
  ASSUME NEW T, NEW s \in Seq(T), NEW t \in Seq(T), NEW R
  PROVE  Ordered(s \o t, R) <=>
            /\ Ordered(s, R) /\ Ordered(t, R)
            /\ \A x \in ToSet(s), y \in ToSet(t) : <<x, y>> \in R
<1> DEFINE m == Len(s)
           n == Len(t)
           u == s \o t
<1>1. /\ m \in Nat /\ n \in Nat /\ DOMAIN s = 1 .. m /\ DOMAIN t = 1 .. n
      /\ DOMAIN u = 1 .. m + n
      /\ \A i \in 1 .. m + n : u[i] = IF i <= m THEN s[i] ELSE t[i - m]
  BY ConcatProperties, LenProperties
<1> HIDE DEF m, n, u
<1>2. \A i \in 1 .. m : i \in 1 .. m + n /\ u[i] = s[i]
  BY <1>1
<1>3. \A j \in 1 .. n : m + j \in 1 .. m + n /\ u[m + j] = t[j]
  <2> TAKE j \in 1 .. n
  <2>1. m + j \in 1 .. m + n /\ ~ (m + j <= m) /\ (m + j) - m = j
    BY <1>1
  <2> QED BY <1>1, <2>1
<1>4. ASSUME Ordered(u, R)
      PROVE  /\ Ordered(s, R) /\ Ordered(t, R)
             /\ \A x \in ToSet(s), y \in ToSet(t) : <<x, y>> \in R
  <2>1. \A i, j \in 1 .. m + n : i < j => <<u[i], u[j]>> \in R
    BY <1>1, <1>4 DEF Ordered
  <2>2. \A i, j \in 1 .. m : i < j => <<s[i], s[j]>> \in R
    BY <1>2, <2>1
  <2>3. \A i, j \in 1 .. n : i < j => m + i < m + j
    BY <1>1
  <2>4. \A i, j \in 1 .. n : i < j => <<t[i], t[j]>> \in R
    BY <1>3, <2>1, <2>3
  <2>5. \A i \in 1 .. m, j \in 1 .. n : i < m + j
    BY <1>1
  <2>6. \A i \in 1 .. m, j \in 1 .. n : <<s[i], t[j]>> \in R
    BY <1>2, <1>3, <2>1, <2>5
  <2> QED BY <1>1, <2>2, <2>4, <2>6, InToSet DEF Ordered
<1>5. ASSUME Ordered(s, R), Ordered(t, R),
             \A x \in ToSet(s), y \in ToSet(t) : <<x, y>> \in R
      PROVE  Ordered(u, R)
  <2>1. /\ \A i, j \in 1 .. m : i < j => <<s[i], s[j]>> \in R
        /\ \A i, j \in 1 .. n : i < j => <<t[i], t[j]>> \in R
        /\ \A i \in 1 .. m, j \in 1 .. n : <<s[i], t[j]>> \in R
    BY <1>1, <1>5, InToSet DEF Ordered
  <2>2. SUFFICES ASSUME NEW i \in 1 .. m + n, NEW j \in 1 .. m + n, i < j
                 PROVE  <<u[i], u[j]>> \in R
    BY <1>1 DEF Ordered
  <2>3. CASE j <= m
    <3>1. i \in 1 .. m /\ j \in 1 .. m
      BY <1>1, <2>2, <2>3
    <3> QED BY <1>2, <2>1, <2>2, <3>1
  <2>4. CASE ~ (j <= m)
    <3>1. j - m \in 1 .. n /\ u[j] = t[j - m]
      BY <1>1, <2>4
    <3>2. CASE i <= m
      <4>1. i \in 1 .. m
        BY <1>1, <3>2
      <4> QED BY <1>2, <2>1, <3>1, <4>1
    <3>3. CASE ~ (i <= m)
      <4>1. i - m \in 1 .. n /\ u[i] = t[i - m] /\ i - m < j - m
        BY <1>1, <2>2, <3>3
      <4> QED BY <2>1, <3>1, <4>1
    <3> QED BY <3>2, <3>3
  <2> QED BY <2>3, <2>4
<1> QED BY <1>4, <1>5 DEF u

LEMMA OrderedAppend ==
  ASSUME NEW T, NEW s \in Seq(T), NEW x \in T, NEW R
  PROVE  Ordered(Append(s, x), R) <=>
            Ordered(s, R) /\ \A y \in ToSet(s) : <<y, x>> \in R
<1>1. <<x>> \in Seq(T) /\ Append(s, x) = s \o <<x>>
  OBVIOUS
<1>2. ToSet(<<x>>) = {x} /\ Ordered(<<x>>, R)
  BY DEF ToSet, Ordered
<1>3. Ordered(s \o <<x>>, R) <=>
         /\ Ordered(s, R) /\ Ordered(<<x>>, R)
         /\ \A y \in ToSet(s), z \in ToSet(<<x>>) : <<y, z>> \in R
  BY <1>1, OrderedConcat
<1> QED BY <1>1, <1>2, <1>3

LEMMA OnlyOrdered ==
  ASSUME NEW T, NEW s \in Seq(T), NEW R, Ordered(s, R), NEW S
  PROVE  Ordered(Only(s, S), R)
<1> DEFINE P == {t \in Seq(T) : Ordered(t, R) => Ordered(Only(t, S), R)}
<1>1. <<>> \in P
  BY OnlyEmpty, EmptySeq
<1>2. ASSUME NEW t \in Seq(T), NEW x \in T, t \in P PROVE Append(t, x) \in P
  <2>1. Append(t, x) \in Seq(T)
    BY AppendProperties
  <2> SUFFICES ASSUME Ordered(Append(t, x), R) PROVE Ordered(Only(Append(t, x), S), R)
    BY <2>1
  <2>2. Ordered(t, R) /\ \A y \in ToSet(t) : <<y, x>> \in R
    BY OrderedAppend
  <2>3. /\ Only(t, S) \in Seq(T) /\ ToSet(Only(t, S)) = ToSet(t) \cap S
        /\ Ordered(Only(t, S), R)
    BY <1>2, <2>2, OnlyType, OnlyRange
  <2>4. Ordered(Append(Only(t, S), x), R)
    BY <2>2, <2>3, OrderedAppend
  <2> QED BY <2>3, <2>4, OnlyAppend
<1> HIDE DEF P
<1>3. Seq(T) \subseteq P
  BY <1>1, <1>2, SeqInduction
<1> QED BY <1>3 DEF P

(* Each element is in one of the two. *)
LEMMA OnlyParts ==
  ASSUME NEW T, NEW s \in Seq(T), NEW S
  PROVE  Len(Only(s, S)) + Len(Only(s, ToSet(s) \ S)) = Len(s)
<1> DEFINE P == {t \in Seq(T) : Len(Only(t, S)) + Len(Only(t, T \ S)) = Len(t)}
<1>1. <<>> \in P
  BY OnlyEmpty, EmptySeq
<1>2. ASSUME NEW t \in Seq(T), NEW x \in T, t \in P PROVE Append(t, x) \in P
  <2>1. /\ Only(t, S) \in Seq(T) /\ Only(t, T \ S) \in Seq(T) /\ Append(t, x) \in Seq(T)
    BY OnlyType, AppendProperties
  <2>2. /\ Len(Append(t, x)) = Len(t) + 1
        /\ Len(Append(Only(t, S), x)) = Len(Only(t, S)) + 1
        /\ Len(Append(Only(t, T \ S), x)) = Len(Only(t, T \ S)) + 1
        /\ Len(t) \in Nat /\ Len(Only(t, S)) \in Nat /\ Len(Only(t, T \ S)) \in Nat
    BY <2>1, AppendProperties, LenProperties
  <2>3. Len(Only(t, S)) + Len(Only(t, T \ S)) = Len(t)
    BY <1>2
  <2>4. CASE x \in S
    <3>1. Only(Append(t, x), S) = Append(Only(t, S), x)
          /\ Only(Append(t, x), T \ S) = Only(t, T \ S)
      BY <2>4, OnlyAppend
    <3> QED BY <2>1, <2>2, <2>3, <3>1
  <2>5. CASE x \notin S
    <3>1. Only(Append(t, x), S) = Only(t, S)
          /\ Only(Append(t, x), T \ S) = Append(Only(t, T \ S), x)
      BY <2>5, OnlyAppend
    <3> QED BY <2>1, <2>2, <2>3, <3>1
  <2> QED BY <2>4, <2>5
<1> HIDE DEF P
<1>3. Seq(T) \subseteq P
  BY <1>1, <1>2, SeqInduction
<1>4. Only(s, T \ S) = Only(s, ToSet(s) \ S)
  BY OnlySame, ToSetType
<1> QED BY <1>3, <1>4 DEF P

--------------------------------------------------------------------------------
(* Sorting. *)
LEMMA InsertedFacts ==
  ASSUME NEW T, NEW s \in Seq(T), NEW x \in T, NEW R,
         \A a, b, c \in T : <<a, b>> \in R /\ <<b, c>> \in R => <<a, c>> \in R,
         Ordered(s, R), \A y \in ToSet(s) : <<y, x>> \in R \/ <<x, y>> \in R
  PROVE  /\ Inserted(s, x, R) \in Seq(T) /\ Len(Inserted(s, x, R)) = Len(s) + 1
         /\ ToSet(Inserted(s, x, R)) = ToSet(s) \cup {x} /\ Ordered(Inserted(s, x, R), R)
<1> DEFINE F == {y \in ToSet(s) : <<y, x>> \in R}
           B == ToSet(s) \ F
           front == Only(s, F)
           back == Only(s, B)
<1>1. Inserted(s, x, R) = front \o <<x>> \o back
  <2>1. F = {s[i] : i \in {j \in DOMAIN s : <<s[j], x>> \in R}} /\ ToSet(s) = {s[i] : i \in DOMAIN s}
    BY DEF ToSet
  <2> HIDE DEF F
  <2> QED BY <2>1 DEF Inserted
<1>2. /\ front \in Seq(T) /\ back \in Seq(T) /\ ToSet(front) = F /\ ToSet(back) = B
      /\ Ordered(front, R) /\ Ordered(back, R) /\ Len(front) + Len(back) = Len(s)
  <2>1. F \subseteq ToSet(s) /\ B \subseteq ToSet(s)
    OBVIOUS
  <2>2. Len(Only(s, F)) + Len(Only(s, B)) = Len(s)
    <3> HIDE DEF F
    <3> QED BY OnlyParts
  <2> HIDE DEF F, B
  <2>3. Only(s, F) \in Seq(T) /\ ToSet(Only(s, F)) = F
    BY <2>1, OnlyOf
  <2>4. Only(s, B) \in Seq(T) /\ ToSet(Only(s, B)) = B
    BY <2>1, OnlyOf
  <2>5. Ordered(Only(s, F), R) /\ Ordered(Only(s, B), R)
    BY OnlyOrdered
  <2> QED BY <2>2, <2>3, <2>4, <2>5
<1>3. F \subseteq T /\ B \subseteq T /\ F \cup B = ToSet(s)
      /\ (\A y \in F : <<y, x>> \in R) /\ (\A y \in B : <<x, y>> \in R)
  BY ToSetType
<1> HIDE DEF F, B, front, back
<1>4. <<x>> \in Seq(T) /\ ToSet(<<x>>) = {x} /\ Ordered(<<x>>, R) /\ Len(<<x>>) = 1
  BY DEF ToSet, Ordered
<1> DEFINE u == front \o <<x>>
<1>5. u \in Seq(T) /\ Len(u) = Len(front) + 1 /\ ToSet(u) = F \cup {x} /\ Ordered(u, R)
  <2>1. u \in Seq(T) /\ Len(u) = Len(front) + 1
    BY <1>2, <1>4, ConcatProperties
  <2>2. ToSet(u) = F \cup {x}
    <3>1. ToSet(front \o <<x>>) = ToSet(front) \cup ToSet(<<x>>)
      BY <1>2, <1>4, ToSetConcat
    <3> QED BY <1>2, <1>4, <3>1 DEF u
  <2>3. \A a \in ToSet(front), b \in ToSet(<<x>>) : <<a, b>> \in R
    BY <1>2, <1>3, <1>4
  <2>4. Ordered(u, R)
    BY <1>2, <1>4, <2>3, OrderedConcat
  <2> QED BY <2>1, <2>2, <2>4
<1> HIDE DEF u
<1>6. \A a \in F \cup {x}, b \in B : <<a, b>> \in R
  BY <1>3
<1>7. /\ u \o back \in Seq(T) /\ Len(u \o back) = Len(u) + Len(back)
      /\ ToSet(u \o back) = F \cup {x} \cup B /\ Ordered(u \o back, R)
  <2>1. u \o back \in Seq(T) /\ Len(u \o back) = Len(u) + Len(back)
    BY <1>2, <1>5, ConcatProperties
  <2>2. ToSet(u \o back) = F \cup {x} \cup B
    BY <1>2, <1>5, ToSetConcat
  <2>3. Ordered(u \o back, R)
    BY <1>2, <1>5, <1>6, OrderedConcat
  <2> QED BY <2>1, <2>2, <2>3
<1>8. Len(u) + Len(back) = Len(s) + 1
  BY <1>2, <1>5, LenProperties
<1> QED BY <1>1, <1>3, <1>7, <1>8 DEF u

(* What the recursion of Sorted goes through. *)
IsSorting(f, n, s, R) ==
    f = [i \in 0 .. n |-> IF i = 0 THEN <<>> ELSE Inserted(f[i - 1], s[i], R)]

LEMMA SortingExists ==
  ASSUME NEW s, NEW R, NEW n \in Nat
  PROVE  \E f : IsSorting(f, n, s, R)
<1> DEFINE D == {m \in Nat : \E f : IsSorting(f, m, s, R)}
<1>1. 0 \in D
  <2>1. IsSorting([i \in 0 .. 0 |-> <<>>], 0, s, R)
    BY DEF IsSorting
  <2> QED BY <2>1
<1>2. ASSUME NEW m \in Nat, m \in D PROVE m + 1 \in D
  <2>1. PICK f : IsSorting(f, m, s, R)
    BY <1>2
  <2> DEFINE Step(i) == Inserted(f[i - 1], s[i], R)
             g == [i \in 0 .. m + 1 |-> IF i = 0 THEN <<>> ELSE Step(i)]
  <2>2. \A i \in 0 .. m : f[i] = IF i = 0 THEN <<>> ELSE Step(i)
    BY <2>1, Zenon DEF IsSorting
  <2>3. \A i \in 0 .. m + 1 : g[i] = IF i = 0 THEN <<>> ELSE Step(i)
    BY Zenon
  <2>4. \A i \in 0 .. m : i \in 0 .. m + 1
    OBVIOUS
  <2>5. \A i \in 0 .. m : g[i] = f[i]
    BY <2>2, <2>3, <2>4, Zenon
  <2>6. \A i \in 0 .. m + 1 : i # 0 => i - 1 \in 0 .. m
    OBVIOUS
  <2>7. \A i \in 0 .. m + 1 : i # 0 => Step(i) = Inserted(g[i - 1], s[i], R)
    BY <2>5, <2>6, Zenon
  <2>8. IsSorting(g, m + 1, s, R)
    BY <2>7, Zenon DEF IsSorting
  <2> QED BY <2>8
<1> HIDE DEF D
<1>3. Nat \subseteq D
  BY <1>1, <1>2, SetInduction
<1> QED BY <1>3 DEF D

(* Sorted by a transitive relation that orders any two of them, the elements
   stay the same and stand in order. *)
LEMMA SortedFacts ==
  ASSUME NEW T, NEW s \in Seq(T), NEW R,
         \A a, b, c \in T : <<a, b>> \in R /\ <<b, c>> \in R => <<a, c>> \in R,
         \A i, j \in DOMAIN s : i < j => <<s[i], s[j]>> \in R \/ <<s[j], s[i]>> \in R
  PROVE  /\ Sorted(s, R) \in Seq(T) /\ Len(Sorted(s, R)) = Len(s)
         /\ ToSet(Sorted(s, R)) = ToSet(s) /\ Ordered(Sorted(s, R), R)
<1> DEFINE n == Len(s)
           f == CHOOSE h : IsSorting(h, n, s, R)
<1>1. n \in Nat /\ DOMAIN s = 1 .. n /\ \A i \in 1 .. n : s[i] \in T
  BY LenProperties, ElementOfSeq
<1>2. IsSorting(f, n, s, R)
  BY <1>1, SortingExists
<1>3. Sorted(s, R) = f[n]
  BY DEF Sorted, IsSorting
<1> HIDE DEF n, f
<1>4. f[0] = <<>>
  BY <1>1, <1>2 DEF IsSorting
<1>5. \A i \in Nat : i + 1 <= n => f[i + 1] = Inserted(f[i], s[i + 1], R)
  <2> TAKE i \in Nat
  <2>1. \A j \in 0 .. n : j # 0 => f[j] = Inserted(f[j - 1], s[j], R)
    BY <1>2 DEF IsSorting
  <2>2. ASSUME i + 1 <= n PROVE i + 1 \in 0 .. n /\ i + 1 # 0 /\ (i + 1) - 1 = i
    BY <1>1, <2>2
  <2> QED BY <2>1, <2>2
<1> DEFINE Done(i) == {s[j] : j \in 1 .. i}
           Good(i) == /\ f[i] \in Seq(T) /\ Len(f[i]) = i
                      /\ ToSet(f[i]) = Done(i) /\ Ordered(f[i], R)
           D == {i \in Nat : i <= n => Good(i)}
<1>6. 0 \in D
  <2>1. f[0] \in Seq(T) /\ Len(f[0]) = 0
    BY <1>4, EmptySeq
  <2>2. ToSet(f[0]) = {} /\ Ordered(f[0], R)
    BY <1>4, ToSetEmpty, OrderedEmpty
  <2>3. Done(0) = {}
    OBVIOUS
  <2> HIDE DEF Done
  <2> QED BY <2>1, <2>2, <2>3
<1>7. ASSUME NEW i \in Nat, i \in D PROVE i + 1 \in D
  <2> SUFFICES ASSUME i + 1 <= n PROVE Good(i + 1)
    OBVIOUS
  <2>1. i <= n /\ i + 1 \in DOMAIN s /\ s[i + 1] \in T
    BY <1>1
  <2>2. Good(i)
    BY <1>7, <2>1
  <2>3. \A y \in Done(i) : <<y, s[i + 1]>> \in R \/ <<s[i + 1], y>> \in R
    BY <1>1, <2>1
  <2>4. /\ Inserted(f[i], s[i + 1], R) \in Seq(T) /\ Len(Inserted(f[i], s[i + 1], R)) = i + 1
        /\ ToSet(Inserted(f[i], s[i + 1], R)) = Done(i) \cup {s[i + 1]}
        /\ Ordered(Inserted(f[i], s[i + 1], R), R)
    <3> HIDE DEF Done
    <3> QED BY <2>1, <2>2, <2>3, InsertedFacts
  <2>5. Done(i + 1) = Done(i) \cup {s[i + 1]}
    <3>1. 1 .. i + 1 = (1 .. i) \cup {i + 1}
      OBVIOUS
    <3> QED BY <3>1
  <2>6. f[i + 1] = Inserted(f[i], s[i + 1], R)
    BY <1>5
  <2> QED BY <2>4, <2>5, <2>6
<1> HIDE DEF D
<1>8. Nat \subseteq D
  BY <1>6, <1>7, SetInduction
<1>9. Good(n)
  <2> HIDE DEF Good
  <2>1. n \in D /\ n <= n
    BY <1>1, <1>8
  <2> QED BY <2>1 DEF D
<1>10. Done(n) = ToSet(s)
  BY <1>1 DEF ToSet
<1> QED BY <1>3, <1>9, <1>10 DEF n

--------------------------------------------------------------------------------
(* What the recursion of Joined goes through. *)
IsJoining(f, n, s) ==
    f = [i \in 0 .. n |-> IF i = 0 THEN <<>> ELSE f[i - 1] \o s[i]]

LEMMA JoiningExists ==
  ASSUME NEW s, NEW n \in Nat
  PROVE  \E f : IsJoining(f, n, s)
<1> DEFINE D == {m \in Nat : \E f : IsJoining(f, m, s)}
<1>1. 0 \in D
  <2>1. IsJoining([i \in 0 .. 0 |-> <<>>], 0, s)
    BY DEF IsJoining
  <2> QED BY <2>1
<1>2. ASSUME NEW m \in Nat, m \in D PROVE m + 1 \in D
  <2>1. PICK f : IsJoining(f, m, s)
    BY <1>2
  <2> DEFINE Step(i) == f[i - 1] \o s[i]
             g == [i \in 0 .. m + 1 |-> IF i = 0 THEN <<>> ELSE Step(i)]
  <2>2. \A i \in 0 .. m : f[i] = IF i = 0 THEN <<>> ELSE Step(i)
    BY <2>1, Zenon DEF IsJoining
  <2>3. \A i \in 0 .. m + 1 : g[i] = IF i = 0 THEN <<>> ELSE Step(i)
    BY Zenon
  <2>4. \A i \in 0 .. m : i \in 0 .. m + 1
    OBVIOUS
  <2>5. \A i \in 0 .. m : g[i] = f[i]
    BY <2>2, <2>3, <2>4, Zenon
  <2>6. \A i \in 0 .. m + 1 : i # 0 => i - 1 \in 0 .. m
    OBVIOUS
  <2>7. \A i \in 0 .. m + 1 : i # 0 => Step(i) = g[i - 1] \o s[i]
    BY <2>5, <2>6, Zenon
  <2>8. IsJoining(g, m + 1, s)
    BY <2>7, Zenon DEF IsJoining
  <2> QED BY <2>8
<1> HIDE DEF D
<1>3. Nat \subseteq D
  BY <1>1, <1>2, SetInduction
<1> QED BY <1>3 DEF D

(* The sequences after one, two, ... of those that are joined. *)
Joins(f, s) ==
    /\ f[0] = <<>>
    /\ \A i \in 1 .. Len(s) : f[i] = f[i - 1] \o s[i]

LEMMA JoiningType ==
  ASSUME NEW T, NEW s \in Seq(Seq(T))
  PROVE  \E f \in [0 .. Len(s) -> Seq(T)] : Joins(f, s) /\ Joined(s) = f[Len(s)]
<1> DEFINE n == Len(s)
           f == CHOOSE h : IsJoining(h, n, s)
<1>1. n \in Nat
  BY LenProperties
<1>2. IsJoining(f, n, s)
  BY <1>1, JoiningExists
<1>3. Joined(s) = f[n]
  BY DEF Joined, IsJoining
<1> HIDE DEF f, n
<1>4. /\ DOMAIN f = 0 .. n
      /\ \A i \in 0 .. n : f[i] = IF i = 0 THEN <<>> ELSE f[i - 1] \o s[i]
  <2>1. f = [i \in 0 .. n |-> IF i = 0 THEN <<>> ELSE f[i - 1] \o s[i]]
    BY <1>2 DEF IsJoining
  <2> DEFINE Step(i) == IF i = 0 THEN <<>> ELSE f[i - 1] \o s[i]
  <2>2. f = [i \in 0 .. n |-> Step(i)]
    BY <2>1
  <2> HIDE DEF Step
  <2>3. DOMAIN f = 0 .. n /\ \A i \in 0 .. n : f[i] = Step(i)
    BY <2>2
  <2> QED BY <2>3 DEF Step
<1>5. \A i \in 1 .. n : s[i] \in Seq(T)
  BY DEF n
<1>6. f[0] = <<>>
  <2>1. 0 \in 0 .. n
    BY <1>1
  <2> QED BY <1>4, <2>1
<1>7. \A i \in 1 .. n : f[i] = f[i - 1] \o s[i]
  <2>1. \A i \in 1 .. n : i \in 0 .. n /\ i # 0
    BY <1>1
  <2> QED BY <1>4, <2>1
<1> DEFINE D == {i \in Nat : i <= n => f[i] \in Seq(T)}
<1>8. 0 \in D
  BY <1>6, EmptySeq
<1>9. ASSUME NEW i \in Nat, i \in D PROVE i + 1 \in D
  <2> SUFFICES ASSUME i + 1 <= n PROVE f[i + 1] \in Seq(T)
    OBVIOUS
  <2>1. f[i] \in Seq(T) /\ s[i + 1] \in Seq(T)
    BY <1>1, <1>5, <1>9
  <2>2. f[i + 1] = f[i] \o s[i + 1]
    <3>1. i + 1 \in 1 .. n /\ (i + 1) - 1 = i
      BY <1>1
    <3> QED BY <1>7, <3>1
  <2> QED BY <2>1, <2>2, ConcatProperties
<1> HIDE DEF D
<1>10. Nat \subseteq D
  BY <1>8, <1>9, SetInduction
<1>11. \A i \in 0 .. n : f[i] \in Seq(T)
  BY <1>10 DEF D
<1>12. f \in [0 .. n -> Seq(T)]
  <2>1. f = [i \in 0 .. n |-> f[i]]
    BY <1>2, <1>4 DEF IsJoining
  <2> QED BY <1>11, <2>1
<1> QED BY <1>3, <1>6, <1>7, <1>12 DEF n, Joins

LEMMA JoinedType ==
  ASSUME NEW T, NEW s \in Seq(Seq(T))
  PROVE  Joined(s) \in Seq(T)
<1>1. PICK f \in [0 .. Len(s) -> Seq(T)] : Joined(s) = f[Len(s)]
  BY JoiningType
<1> QED BY <1>1, LenProperties

(* What goes through the same is the same. *)
LEMMA JoinedIs ==
  ASSUME NEW T, NEW s \in Seq(Seq(T)), NEW g, Joins(g, s)
  PROVE  Joined(s) = g[Len(s)]
<1> DEFINE n == Len(s)
<1>1. PICK f \in [0 .. n -> Seq(T)] : Joins(f, s) /\ Joined(s) = f[n]
  BY JoiningType
<1>2. n \in Nat
  BY LenProperties
<1>3. /\ f[0] = <<>> /\ \A i \in 1 .. n : f[i] = f[i - 1] \o s[i]
      /\ g[0] = <<>> /\ \A i \in 1 .. n : g[i] = g[i - 1] \o s[i]
  BY <1>1 DEF Joins
<1> HIDE DEF n
<1> DEFINE D == {i \in Nat : i <= n => f[i] = g[i]}
<1>4. 0 \in D
  BY <1>3
<1>5. ASSUME NEW i \in Nat, i \in D PROVE i + 1 \in D
  <2> SUFFICES ASSUME i + 1 <= n PROVE f[i + 1] = g[i + 1]
    OBVIOUS
  <2>1. i + 1 \in 1 .. n /\ (i + 1) - 1 = i /\ i <= n
    BY <1>2
  <2>2. f[i + 1] = f[i] \o s[i + 1] /\ g[i + 1] = g[i] \o s[i + 1]
    BY <1>3, <2>1
  <2> QED BY <1>5, <2>1, <2>2
<1> HIDE DEF D
<1>6. Nat \subseteq D
  BY <1>4, <1>5, SetInduction
<1>7. f[n] = g[n]
  BY <1>2, <1>6 DEF D
<1> QED BY <1>1, <1>7 DEF n

--------------------------------------------------------------------------------
(* Part of a sequence, from place a to place b. *)
LEMMA SubSeqFacts ==
  ASSUME NEW T, NEW s \in Seq(T), NEW a \in Int, NEW b \in Int, 1 <= a, b <= Len(s), a <= b + 1
  PROVE  /\ SubSeq(s, a, b) \in Seq(T) /\ Len(SubSeq(s, a, b)) = b - a + 1
         /\ \A i \in 1 .. b - a + 1 : SubSeq(s, a, b)[i] = s[a + i - 1]
<1>1. SubSeq(s, a, b) = [i \in 1 .. b - a + 1 |-> s[a + i - 1]]
  OBVIOUS
<1>2. b - a + 1 \in Nat /\ Len(s) \in Nat /\ DOMAIN s = 1 .. Len(s) /\ \A i \in 1 .. Len(s) : s[i] \in T
  BY LenProperties
<1>3. \A i \in 1 .. b - a + 1 : a + i - 1 \in 1 .. Len(s)
  BY <1>2
<1> DEFINE l == b - a + 1
           u == SubSeq(s, a, b)
<1>4. \A i \in 1 .. l : u[i] = s[a + i - 1] /\ u[i] \in T
  BY <1>1, <1>2, <1>3
<1>5. DOMAIN u = 1 .. l /\ u = [i \in 1 .. l |-> u[i]]
  BY <1>1
<1> HIDE DEF u, l
<1>6. u \in Seq(T) /\ Len(u) = l
  <2>1. l \in Nat
    BY <1>2 DEF l
  <2>2. u \in [1 .. l -> T]
    BY <1>4, <1>5
  <2> QED BY <2>1, <2>2, LenProperties
<1> QED BY <1>4, <1>6 DEF u, l

LEMMA SameSeq ==
  ASSUME NEW T, NEW s \in Seq(T), NEW t \in Seq(T), Len(s) = Len(t),
         \A i \in 1 .. Len(s) : s[i] = t[i]
  PROVE  s = t
BY LenProperties

LEMMA SubSeqConcat ==
  ASSUME NEW T, NEW s \in Seq(T), NEW a \in Nat, NEW b \in Nat, a <= b, b <= Len(s)
  PROVE  SubSeq(s, 1, a) \o SubSeq(s, a + 1, b) = SubSeq(s, 1, b)
<1> DEFINE u == SubSeq(s, 1, a)
           v == SubSeq(s, a + 1, b)
           w == SubSeq(s, 1, b)
<1>1. Len(s) \in Nat
  BY LenProperties
<1>2. u \in Seq(T) /\ Len(u) = a /\ \A i \in 1 .. a : u[i] = s[i]
  <2>1. /\ u \in Seq(T) /\ Len(u) = a - 1 + 1
        /\ \A i \in 1 .. a - 1 + 1 : u[i] = s[1 + i - 1]
    BY <1>1, SubSeqFacts
  <2> HIDE DEF u
  <2>2. a - 1 + 1 = a /\ \A i \in 1 .. a : 1 + i - 1 = i
    OBVIOUS
  <2> QED BY <2>1, <2>2
<1>3. v \in Seq(T) /\ Len(v) = b - a /\ \A i \in 1 .. b - a : v[i] = s[a + i]
  <2>1. /\ v \in Seq(T) /\ Len(v) = b - (a + 1) + 1
        /\ \A i \in 1 .. b - (a + 1) + 1 : v[i] = s[(a + 1) + i - 1]
    BY <1>1, SubSeqFacts
  <2> HIDE DEF v
  <2>2. b - (a + 1) + 1 = b - a /\ \A i \in 1 .. b - a : (a + 1) + i - 1 = a + i
    OBVIOUS
  <2> QED BY <2>1, <2>2
<1>4. w \in Seq(T) /\ Len(w) = b /\ \A i \in 1 .. b : w[i] = s[i]
  <2>1. /\ w \in Seq(T) /\ Len(w) = b - 1 + 1
        /\ \A i \in 1 .. b - 1 + 1 : w[i] = s[1 + i - 1]
    BY <1>1, SubSeqFacts
  <2> HIDE DEF w
  <2>2. b - 1 + 1 = b /\ \A i \in 1 .. b : 1 + i - 1 = i
    OBVIOUS
  <2> QED BY <2>1, <2>2
<1> HIDE DEF u, v, w
<1>5. /\ u \o v \in Seq(T) /\ Len(u \o v) = b
      /\ \A i \in 1 .. b : (u \o v)[i] = IF i <= a THEN u[i] ELSE v[i - a]
  <2>1. a + (b - a) = b
    OBVIOUS
  <2> QED BY <1>2, <1>3, <2>1, ConcatProperties
<1>6. \A i \in 1 .. b : (u \o v)[i] = w[i]
  <2> TAKE i \in 1 .. b
  <2>1. CASE i <= a
    <3>1. i \in 1 .. a
      BY <2>1
    <3> QED BY <1>2, <1>4, <1>5, <2>1, <3>1
  <2>2. CASE ~ (i <= a)
    <3>1. i - a \in 1 .. b - a /\ a + (i - a) = i
      BY <2>2
    <3> QED BY <1>3, <1>4, <1>5, <2>2, <3>1
  <2> QED BY <2>1, <2>2
<1>7. u \o v = w
  BY <1>4, <1>5, <1>6, SameSeq
<1> QED BY <1>7 DEF u, v, w

(* Of two sequences put together: a part of the first, and all of the second. *)
LEMMA ConcatSubSeq ==
  ASSUME NEW T, NEW s \in Seq(T), NEW t \in Seq(T)
  PROVE  /\ \A a, b \in Nat : 1 <= a /\ a <= b + 1 /\ b <= Len(s)
                => SubSeq(s \o t, a, b) = SubSeq(s, a, b)
         /\ SubSeq(s \o t, Len(s) + 1, Len(s) + Len(t)) = t
<1> DEFINE m == Len(s)
           n == Len(t)
           u == s \o t
<1>1. /\ m \in Nat /\ n \in Nat /\ u \in Seq(T) /\ Len(u) = m + n
      /\ \A i \in 1 .. m + n : u[i] = IF i <= m THEN s[i] ELSE t[i - m]
  BY ConcatProperties, LenProperties
<1> HIDE DEF u, m, n
<1>2. ASSUME NEW a \in Nat, NEW b \in Nat, 1 <= a, a <= b + 1, b <= m
      PROVE  SubSeq(u, a, b) = SubSeq(s, a, b)
  <2> DEFINE x == SubSeq(u, a, b)
             y == SubSeq(s, a, b)
             l == b - a + 1
  <2>1. x \in Seq(T) /\ Len(x) = l /\ \A i \in 1 .. l : x[i] = u[a + i - 1]
    BY <1>1, <1>2, SubSeqFacts
  <2>2. y \in Seq(T) /\ Len(y) = l /\ \A i \in 1 .. l : y[i] = s[a + i - 1]
    BY <1>2, SubSeqFacts DEF m
  <2>3. \A i \in 1 .. l : a + i - 1 \in 1 .. m + n /\ a + i - 1 <= m
    BY <1>1, <1>2
  <2> HIDE DEF x, y, l
  <2>4. \A i \in 1 .. l : x[i] = y[i]
    BY <1>1, <2>1, <2>2, <2>3
  <2>5. x = y
    BY <2>1, <2>2, <2>4, SameSeq
  <2> QED BY <2>5 DEF x, y
<1>3. SubSeq(u, m + 1, m + n) = t
  <2> DEFINE x == SubSeq(u, m + 1, m + n)
  <2>1. /\ x \in Seq(T) /\ Len(x) = m + n - (m + 1) + 1
        /\ \A i \in 1 .. m + n - (m + 1) + 1 : x[i] = u[(m + 1) + i - 1]
    BY <1>1, SubSeqFacts
  <2> HIDE DEF x
  <2>2. m + n - (m + 1) + 1 = n
    BY <1>1
  <2>3. \A i \in 1 .. n : (m + 1) + i - 1 \in 1 .. m + n /\ ~ ((m + 1) + i - 1 <= m)
                          /\ (m + 1) + i - 1 - m = i
    BY <1>1
  <2>4. \A i \in 1 .. n : x[i] = t[i]
    BY <1>1, <2>1, <2>2, <2>3
  <2>5. x = t
    BY <2>1, <2>2, <2>4, SameSeq DEF n
  <2> QED BY <2>5 DEF x
<1> QED BY <1>2, <1>3 DEF u, m, n

--------------------------------------------------------------------------------
(* The widths at which sequences are cut here. *)
Widths == {3, 4}

(* How many chunks there are, and that the last one is not empty. *)
LEMMA ChunkCount ==
  ASSUME NEW n \in Nat, NEW w \in Widths
  PROVE  LET m == (n + w - 1) \div w
         IN  /\ m \in Nat /\ n <= w * m /\ (m = 0 <=> n = 0)
             /\ \A i \in 1 .. m : w * (i - 1) < n
BY DEF Widths

(* Each piece is a part of the sequence. *)
IsCut(C, s, w) ==
    \A i \in 1 .. Len(C) :
        LET a == w * (i - 1)
            b == IF w * i < Len(s) THEN w * i ELSE Len(s)
        IN  /\ C[i] = SubSeq(s, a + 1, b) /\ Len(C[i]) = b - a /\ Len(C[i]) \in 1 .. w
            /\ \A j \in 1 .. Len(C[i]) : C[i][j] = s[a + j]

LEMMA ChunksType ==
  ASSUME NEW T, NEW s \in Seq(T), NEW w \in Widths
  PROVE  /\ Chunks(s, w) \in Seq(Seq(T)) /\ Len(Chunks(s, w)) = (Len(s) + w - 1) \div w
         /\ IsCut(Chunks(s, w), s, w)
<1> DEFINE n == Len(s)
           m == (n + w - 1) \div w
           C == Chunks(s, w)
           End(i) == IF w * i < n THEN w * i ELSE n
<1>1. n \in Nat
  BY LenProperties
<1> HIDE DEF n
<1>2. m \in Nat /\ n <= w * m /\ (m = 0 <=> n = 0) /\ \A i \in 1 .. m : w * (i - 1) < n
  BY <1>1, ChunkCount
<1>3. \A i \in 1 .. m : C[i] = SubSeq(s, w * (i - 1) + 1, End(i))
  BY DEF Chunks, n
<1>4. DOMAIN C = 1 .. m /\ C = [i \in 1 .. m |-> C[i]]
  BY DEF Chunks, n
<1> HIDE DEF m, C
<1>5. ASSUME NEW i \in 1 .. m
      PROVE  /\ C[i] \in Seq(T) /\ Len(C[i]) = End(i) - w * (i - 1) /\ Len(C[i]) \in 1 .. w
             /\ \A j \in 1 .. Len(C[i]) : C[i][j] = s[w * (i - 1) + j]
  <2> DEFINE a == w * (i - 1)
             b == End(i)
             c == C[i]
  <2>1. a \in Nat /\ b \in Nat /\ a < b /\ b <= n /\ b - a \in 1 .. w
    <3>1. w * (i - 1) < n /\ i \in Nat /\ i >= 1
      BY <1>2
    <3> QED BY <1>1, <3>1 DEF Widths
  <2>2. c = SubSeq(s, a + 1, b)
    BY <1>3
  <2> HIDE DEF a, b, c
  <2>3. /\ c \in Seq(T) /\ Len(c) = b - (a + 1) + 1
        /\ \A j \in 1 .. b - (a + 1) + 1 : c[j] = s[(a + 1) + j - 1]
    BY <2>1, <2>2, SubSeqFacts DEF n
  <2>4. b - (a + 1) + 1 = b - a /\ \A j \in 1 .. b - a : (a + 1) + j - 1 = a + j
    BY <2>1
  <2>5. c \in Seq(T) /\ Len(c) = b - a /\ Len(c) \in 1 .. w /\ \A j \in 1 .. Len(c) : c[j] = s[a + j]
    BY <2>1, <2>3, <2>4
  <2> QED BY <2>5 DEF a, b, c
<1>6. C \in Seq(Seq(T)) /\ Len(C) = m
  <2>1. C \in [1 .. m -> Seq(T)]
    BY <1>4, <1>5
  <2> QED BY <1>2, <2>1, LenProperties
<1>7. IsCut(C, s, w)
  <2> DEFINE Cut(i) == LET a == w * (i - 1)
                           b == IF w * i < Len(s) THEN w * i ELSE Len(s)
                       IN  /\ C[i] = SubSeq(s, a + 1, b) /\ Len(C[i]) = b - a
                           /\ Len(C[i]) \in 1 .. w
                           /\ \A j \in 1 .. Len(C[i]) : C[i][j] = s[a + j]
  <2>1. \A i \in 1 .. m : Cut(i)
    BY <1>3, <1>5 DEF n
  <2> QED BY <1>6, <2>1 DEF IsCut
<1> QED BY <1>6, <1>7 DEF m, C, n

(* The chunks of a sequence are all of it. *)
LEMMA JoinedChunks ==
  ASSUME NEW T, NEW s \in Seq(T), NEW w \in Widths
  PROVE  Joined(Chunks(s, w)) = s
<1> DEFINE n == Len(s)
           m == (n + w - 1) \div w
           C == Chunks(s, w)
           End(i) == IF w * i < n THEN w * i ELSE n
           g == [i \in 0 .. m |-> SubSeq(s, 1, End(i))]
<1>1. n \in Nat
  BY LenProperties
<1>2. m \in Nat /\ n <= w * m /\ (m = 0 <=> n = 0) /\ \A i \in 1 .. m : w * (i - 1) < n
  <2> HIDE DEF n
  <2> QED BY <1>1, ChunkCount
<1>3. /\ C \in Seq(Seq(T)) /\ Len(C) = m
      /\ \A i \in 1 .. m : C[i] = SubSeq(s, w * (i - 1) + 1, End(i))
  <2>1. C \in Seq(Seq(T)) /\ Len(C) = m /\ IsCut(C, s, w)
    BY ChunksType
  <2> HIDE DEF C, m
  <2> QED BY <2>1 DEF IsCut
<1> HIDE DEF n, m, C
<1>4. g[0] = <<>>
  <2>1. 0 \in 0 .. m /\ End(0) = 0
    BY <1>1, <1>2 DEF Widths
  <2>2. SubSeq(s, 1, 0) = <<>>
    OBVIOUS
  <2> QED BY <2>1, <2>2
<1>5. ASSUME NEW i \in 1 .. m PROVE g[i] = g[i - 1] \o C[i]
  <2> DEFINE a == w * (i - 1)
             b == End(i)
  <2>1. a \in Nat /\ b \in Nat /\ a <= b /\ b <= n /\ End(i - 1) = a
    <3>1. w * (i - 1) < n /\ i \in Nat /\ i >= 1
      BY <1>2
    <3> QED BY <1>1, <3>1 DEF Widths
  <2>2. i \in 0 .. m /\ i - 1 \in 0 .. m
    BY <1>2
  <2>3. g[i] = SubSeq(s, 1, b) /\ g[i - 1] = SubSeq(s, 1, a) /\ C[i] = SubSeq(s, a + 1, b)
    BY <1>3, <2>1, <2>2
  <2> HIDE DEF a, b, g
  <2>4. SubSeq(s, 1, a) \o SubSeq(s, a + 1, b) = SubSeq(s, 1, b)
    BY <2>1, SubSeqConcat DEF n
  <2> QED BY <2>3, <2>4
<1>6. g[m] = s
  <2>1. m \in 0 .. m /\ End(m) = n
    BY <1>1, <1>2 DEF Widths
  <2>2. g[m] = SubSeq(s, 1, n)
    BY <2>1
  <2> QED BY <2>2, SubSeqFull DEF n
<1> HIDE DEF g
<1>7. Joins(g, C)
  BY <1>3, <1>4, <1>5 DEF Joins
<1>8. Joined(C) = g[m]
  BY <1>3, <1>7, JoinedIs
<1> QED BY <1>6, <1>8 DEF C

(* Sequences of one length, joined, are cut into themselves. *)
LEMMA ChunksJoined ==
  ASSUME NEW T, NEW s \in Seq(Seq(T)), NEW w \in Widths, \A i \in 1 .. Len(s) : Len(s[i]) = w
  PROVE  Chunks(Joined(s), w) = s /\ Len(Joined(s)) = w * Len(s)
<1> DEFINE n == Len(s)
           t == Joined(s)
<1>1. n \in Nat /\ DOMAIN s = 1 .. n /\ \A i \in 1 .. n : s[i] \in Seq(T) /\ Len(s[i]) = w
  BY LenProperties
<1>2. PICK f \in [0 .. n -> Seq(T)] : Joins(f, s) /\ t = f[n]
  BY JoiningType
<1>3. f[0] = <<>> /\ \A i \in 1 .. n : f[i] = f[i - 1] \o s[i]
  BY <1>2 DEF Joins
<1> HIDE DEF n, t
<1> DEFINE Good(u, i) == /\ Len(u) = w * i
                         /\ \A h \in 1 .. i : SubSeq(u, w * (h - 1) + 1, w * h) = s[h]
           D == {i \in Nat : i <= n => Good(f[i], i)}
<1>4. 0 \in D
  <2>1. w * 0 = 0
    BY DEF Widths
  <2> QED BY <1>3, <2>1
<1>5. ASSUME NEW i \in Nat, i \in D PROVE i + 1 \in D
  <2> SUFFICES ASSUME i + 1 <= n PROVE Good(f[i + 1], i + 1)
    OBVIOUS
  <2> DEFINE u == f[i]
             v == s[i + 1]
             x == f[i + 1]
  <2>1. i + 1 \in 1 .. n /\ (i + 1) - 1 = i /\ i \in 0 .. n
    BY <1>1
  <2>2. u \in Seq(T) /\ v \in Seq(T) /\ Len(v) = w /\ x = u \o v
    BY <1>1, <1>2, <1>3, <2>1
  <2>3. Len(u) = w * i /\ \A h \in 1 .. i : SubSeq(u, w * (h - 1) + 1, w * h) = s[h]
    BY <1>5, <2>1
  <2> HIDE DEF u, v, x
  <2>4. Len(x) = w * (i + 1)
    <3>1. Len(x) = Len(u) + Len(v)
      BY <2>2, ConcatProperties
    <3> QED BY <2>2, <2>3, <3>1 DEF Widths
  <2>5. ASSUME NEW h \in 1 .. i + 1 PROVE SubSeq(x, w * (h - 1) + 1, w * h) = s[h]
    <3>1. CASE h <= i
      <4> DEFINE a == w * (h - 1) + 1
                 b == w * h
      <4>1. a \in Nat /\ b \in Nat /\ 1 <= a /\ a <= b + 1 /\ b <= Len(u) /\ h \in 1 .. i
        BY <2>3, <3>1 DEF Widths
      <4>2. SubSeq(u, a, b) = s[h]
        BY <2>3, <4>1
      <4> HIDE DEF a, b
      <4>3. SubSeq(u \o v, a, b) = SubSeq(u, a, b)
        BY <2>2, <4>1, ConcatSubSeq
      <4>4. SubSeq(x, a, b) = s[h]
        BY <2>2, <4>2, <4>3
      <4> QED BY <4>4 DEF a, b
    <3>2. CASE ~ (h <= i)
      <4>1. h = i + 1 /\ w * (h - 1) = Len(u) /\ w * h = Len(u) + Len(v)
        BY <2>2, <2>3, <3>2 DEF Widths
      <4>2. SubSeq(u \o v, Len(u) + 1, Len(u) + Len(v)) = v
        BY <2>2, ConcatSubSeq
      <4> QED BY <2>2, <4>1, <4>2 DEF v
    <3> QED BY <3>1, <3>2
  <2>6. Good(x, i + 1)
    BY <2>4, <2>5
  <2> QED BY <2>6 DEF x
<1> HIDE DEF D
<1>6. Nat \subseteq D
  BY <1>4, <1>5, SetInduction
<1>7. t \in Seq(T) /\ Len(t) = w * n /\ \A h \in 1 .. n : SubSeq(t, w * (h - 1) + 1, w * h) = s[h]
  <2>1. n \in D /\ f[n] \in Seq(T)
    BY <1>1, <1>2, <1>6
  <2>2. Good(f[n], n)
    <3>1. n <= n
      BY <1>1
    <3> HIDE DEF Good
    <3> QED BY <2>1, <3>1 DEF D
  <2> HIDE DEF D
  <2> QED BY <1>2, <2>1, <2>2
<1> DEFINE m == (Len(t) + w - 1) \div w
           C == Chunks(t, w)
<1>8. m = n
  BY <1>1, <1>7 DEF Widths
<1>9. /\ C \in Seq(Seq(T)) /\ Len(C) = m
      /\ \A i \in 1 .. m :
            C[i] = SubSeq(t, w * (i - 1) + 1, IF w * i < Len(t) THEN w * i ELSE Len(t))
  <2>1. C \in Seq(Seq(T)) /\ Len(C) = m /\ IsCut(C, t, w)
    BY <1>7, ChunksType
  <2> HIDE DEF C, m
  <2> QED BY <2>1 DEF IsCut
<1> HIDE DEF m, C
<1>10. ASSUME NEW i \in 1 .. n PROVE C[i] = s[i]
  <2>1. (IF w * i < Len(t) THEN w * i ELSE Len(t)) = w * i
    BY <1>1, <1>7 DEF Widths
  <2> QED BY <1>7, <1>8, <1>9, <2>1
<1>11. C = s
  <2>1. Len(C) = Len(s) /\ s \in Seq(Seq(T))
    BY <1>8, <1>9 DEF n
  <2> QED BY <1>9, <1>10, <2>1, SameSeq DEF n
<1> QED BY <1>7, <1>11 DEF C, t, n

(* Short sequences put together. *)
LEMMA ConcatOne ==
  ASSUME NEW T, NEW x \in T, NEW y \in T
  PROVE  <<x>> \o <<y>> = <<x, y>>
<1>1. <<x>> \in Seq(T) /\ <<y>> \in Seq(T) /\ <<x, y>> \in Seq(T)
      /\ Len(<<x>>) = 1 /\ Len(<<y>>) = 1 /\ Len(<<x, y>>) = 2
  OBVIOUS
<1> DEFINE u == <<x>> \o <<y>>
<1>2. u \in Seq(T) /\ Len(u) = 2 /\ u[1] = x /\ u[2] = y
  BY <1>1, ConcatProperties
<1> HIDE DEF u
<1>3. \A i \in 1 .. Len(u) : u[i] = <<x, y>>[i]
  BY <1>2
<1>4. u = <<x, y>>
  BY <1>1, <1>2, <1>3, SameSeq
<1> QED BY <1>4 DEF u

LEMMA ConcatTwo ==
  ASSUME NEW T, NEW x \in T, NEW y \in T, NEW z \in T
  PROVE  <<x, y>> \o <<z>> = <<x, y, z>>
<1>1. <<x, y>> \in Seq(T) /\ <<z>> \in Seq(T) /\ <<x, y, z>> \in Seq(T)
      /\ Len(<<x, y>>) = 2 /\ Len(<<z>>) = 1 /\ Len(<<x, y, z>>) = 3
  OBVIOUS
<1> DEFINE u == <<x, y>> \o <<z>>
<1>2. u \in Seq(T) /\ Len(u) = 3 /\ u[1] = x /\ u[2] = y /\ u[3] = z
  BY <1>1, ConcatProperties
<1> HIDE DEF u
<1>3. \A i \in 1 .. Len(u) : u[i] = <<x, y, z>>[i]
  BY <1>2
<1>4. u = <<x, y, z>>
  BY <1>1, <1>2, <1>3, SameSeq
<1> QED BY <1>4 DEF u

LEMMA FourOf ==
  ASSUME NEW T, NEW c \in Seq(T), Len(c) = 4
  PROVE  \E p, q, r, s \in T : c = <<p, q, r, s>>
<1>1. \A i \in 1 .. 4 : c[i] \in T
  BY LenProperties
<1> DEFINE u == <<c[1], c[2], c[3], c[4]>>
<1>2. u \in Seq(T) /\ Len(u) = 4 /\ u[1] = c[1] /\ u[2] = c[2] /\ u[3] = c[3] /\ u[4] = c[4]
  BY <1>1
<1> HIDE DEF u
<1>3. \A i \in 1 .. Len(c) : c[i] = u[i]
  BY <1>2
<1>4. c = u
  BY <1>2, <1>3, SameSeq
<1>5. c[1] \in T /\ c[2] \in T /\ c[3] \in T /\ c[4] \in T
  BY <1>1
<1> QED BY <1>4, <1>5 DEF u
================================================================================
