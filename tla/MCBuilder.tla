----------------------------- MODULE MCBuilder -----------------------------
(* Instances of BuilderService for TLC. *)
EXTENDS BuilderService, TLC

Symm == Permutations(Builds) \cup Permutations(Workers) \cup Permutations(Works)
=============================================================================
