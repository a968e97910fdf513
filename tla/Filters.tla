--------------------------------- MODULE Filters ---------------------------------
(***************************************************************************)
(* The elements of a sequence that belong to a set, in their order, the    *)
(* sequences of a sequence joined, a sequence cut into pieces, and one     *)
(* sorted: SelectSeq, FlattenSeq and SortSeq, as functions that the        *)
(* provers can use.                                                        *)
(***************************************************************************)
EXTENDS Integers, Sequences

Only(s, S) ==
    LET f[i \in 0 .. Len(s)] ==
            IF i = 0 THEN <<>>
            ELSE IF s[i] \in S THEN Append(f[i - 1], s[i]) ELSE f[i - 1]
    IN  f[Len(s)]

(* The sequences of a sequence, one after the other. *)
Joined(s) ==
    LET f[i \in 0 .. Len(s)] == IF i = 0 THEN <<>> ELSE f[i - 1] \o s[i]
    IN  f[Len(s)]

(* A sequence cut into pieces of n, the last of which may be shorter. *)
Chunks(s, n) ==
    [i \in 1 .. ((Len(s) + n - 1) \div n) |->
        SubSeq(s, n * (i - 1) + 1, IF n * i < Len(s) THEN n * i ELSE Len(s))]

(* No element occurs twice. *)
Distinct(s) == \A i, j \in DOMAIN s : s[i] = s[j] => i = j

(* Every element may stand before each later one, by the pairs of R. *)
Ordered(s, R) == \A i, j \in DOMAIN s : i < j => <<s[i], s[j]>> \in R

(* A stable sort: an element goes behind those that may stand before it. *)
Inserted(s, x, R) ==
    LET ahead == {i \in DOMAIN s : <<s[i], x>> \in R}
        front == {s[i] : i \in ahead}
        back == {s[i] : i \in DOMAIN s} \ front
    IN  Only(s, front) \o <<x>> \o Only(s, back)

Sorted(s, R) ==
    LET f[i \in 0 .. Len(s)] == IF i = 0 THEN <<>> ELSE Inserted(f[i - 1], s[i], R)
    IN  f[Len(s)]
================================================================================
