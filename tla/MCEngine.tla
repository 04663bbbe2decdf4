------------------------------ MODULE MCEngine ------------------------------
(* Instances of EngineService for TLC. *)
EXTENDS EngineService, TLC

CONSTANTS v1, v2, other, foreign, generated

MCValues    == {v1, v2, other, foreign, generated}
MCKnown     == {v1, v2, other, generated}
MCBuildable == {v1, v2}
MCFatal     == {generated}

(* The build of v2 has all that v1 asks for.                               *)
MCCovers == {<<v, v>> : v \in MCValues} \cup {<<v2, v1>>}

(* What evalctl is asked: one value, which may not exist, or no graph may, *)
(* or which is there without a build.                                      *)
OneValue == {<<v1>>, <<other>>, <<foreign>>, <<generated>>}

(* What the engine accepts: two values, the same value twice, and a value  *)
(* without a build after one that has it.                                  *)
SomeValues == {<<v2, v1>>, <<v1, v1>>, <<v1, generated>>}

Symm == Permutations(CacheOps) \cup Permutations(Evaluations)
=============================================================================
