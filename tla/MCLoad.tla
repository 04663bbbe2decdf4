------------------------------- MODULE MCLoad -------------------------------
(* Instances of StarlarkLoad for TLC. *)
EXTENDS StarlarkLoad, TLC

CONSTANTS root, m1, m2

MCModules == {root, m1, m2}

(* Every list of different files.                                          *)
MCImportLists ==
  {<<>>} \cup UNION {{s \in [1 .. n -> MCModules] : \A i, j \in 1 .. n : s[i] = s[j] => i = j}
                     : n \in 1 .. 3}

Symm == Permutations({m1, m2})
=============================================================================
