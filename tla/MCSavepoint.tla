------------------------------ MODULE MCSavepoint ------------------------------
(* Savepoint on small instances: contents and processes are interchangeable.  *)
(* The path of f2 is not UTF-8; the text that comes nearest to it is f1.      *)
EXTENDS Savepoint, TLC

NearestNames == [f \in Files |-> IF f = "f2" THEN "f1" ELSE f]

Symmetry == Permutations(Contents) \cup Permutations(Procs)
================================================================================
