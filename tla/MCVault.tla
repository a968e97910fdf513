-------------------------------- MODULE MCVault --------------------------------
(* The vault for TLC: few keys and passphrases, as many salts as can be drawn. *)
EXTENDS Vault, TLC

CONSTANTS s1, s2, r1, r2

TwoSalts == {s1, s2}
TwoRandoms == {r1, r2}

Symmetric ==
    Permutations(TwoSalts) \cup Permutations(TwoRandoms) \cup Permutations(Procs)

(* Whether a call that got nothing ended well makes no difference to what follows. *)
View ==
    <<disk, keychain, drawn, op, token, crashes, faults, puts, lost,
      [p \in Procs |-> IF result[p].kind = "got" THEN result[p] ELSE None]>>
================================================================================
