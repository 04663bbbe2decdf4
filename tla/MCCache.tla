------------------------------ MODULE MCCache ------------------------------
(* Instances of CacheService, with the requests evalctl makes, for TLC. *)
EXTENDS Evalctl, TLC

CONSTANTS sha1, sha2, main, base, tgt1, tgt2

MCCommitPoints  == [branch : {main}, commit_sha : {sha1, sha2}]
MCBaseImages    == {base}
MCBazelTargets  == {tgt1, tgt2}
MCDefaultConfig ==
  [base_image |-> base, commit_point |-> [branch |-> main, commit_sha |-> sha1],
   bazel_targets |-> {tgt1}]

Command(targets, sha, skip) ==
  [value |-> Path("image", "build"), bazel_targets |-> targets, commit_sha |-> sha,
   skip_caching |-> skip]

(* The default build, a larger one of the same commit, and one of another  *)
(* commit; the default also with skip_caching.                             *)
Default == Command(None, None, FALSE)
Larger  == Command({tgt1, tgt2}, None, FALSE)
Other   == Command({tgt2}, sha2, FALSE)
Afresh  == Command(None, sha1, TRUE)

(* Values that a known graph does not have, and a graph without a build.   *)
NoValue == [Default EXCEPT !.value = Path("image", "test")]
NoBuild == [Default EXCEPT !.value = Path("generate", "generate")]

MCCommands == {Default, Larger, Other, Afresh, NoValue, NoBuild}

(* No command line asks for a kind without a digest.                       *)
OtherKind == [context |-> OtherGraph, value |-> Path("other", "other"), skip_caching |-> FALSE]

AllRequests == {GetRequest(cmd) : cmd \in MCCommands \ {Afresh}} \cup {OtherKind}
Requests3   == {GetRequest(cmd) : cmd \in {Default, Larger, Afresh}}
Requests2   == {GetRequest(cmd) : cmd \in {Default, Larger}}
Requests1   == {GetRequest(Default)}

Symm == Permutations(CacheOps) \cup Permutations(BuilderOps) \cup Permutations(Callers)
=============================================================================
