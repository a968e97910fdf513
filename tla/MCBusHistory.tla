------------------------------ MODULE MCBusHistory ------------------------------
(* BusHistory on small instances. *)
EXTENDS BusHistory, TLC

Symmetry == Permutations(Pids) \cup Permutations(Topics) \cup Permutations(Messages)
              \cup Permutations(Chans) \cup Permutations(Tasks)
================================================================================
