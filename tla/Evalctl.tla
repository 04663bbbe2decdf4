------------------------------ MODULE Evalctl ------------------------------
(***************************************************************************)
(* From the command line of evalctl to the request that the cache gets:    *)
(* cmd/evalctl/cmd/eval.go, and the engine, which hands the request on.    *)
(* A command line names a value, and may substitute the targets and the    *)
(* commit of an image build.                                               *)
(***************************************************************************)
EXTENDS CacheProperties

CONSTANTS DefaultConfig,   \* the configuration NewBuildImageAction makes
          Commands         \* the command lines considered

(* A commit point has a branch and a sha.                                  *)
ASSUME CommitPointsAssumption ==
  \A p \in CommitPoints : DOMAIN p = {"branch", "commit_sha"}

ASSUME CommandsAssumption ==
  /\ DefaultConfig \in BuildImageConfigs
  /\ \A cmd \in Commands :
       /\ cmd.value.graph \in {"image", "generate"}
       /\ cmd.skip_caching \in BOOLEAN
       /\ cmd.bazel_targets # None => cmd.bazel_targets \in SUBSET BazelTargets
       /\ cmd.commit_sha # None => [DefaultConfig.commit_point EXCEPT !.commit_sha = cmd.commit_sha] \in CommitPoints

(* --substitutions image.build.bazel_targets=... takes the place of the    *)
(* targets, if it is there.                                                *)
SubstituteTargets(config, cmd) ==
  IF cmd.bazel_targets = None THEN config
  ELSE [config EXCEPT !.bazel_targets = cmd.bazel_targets]

(* Mutant: the substitution is made in the configuration as it was before  *)
(* the targets were substituted.                                           *)
SubstituteCommitOnly(config, cmd) ==
  IF cmd.commit_sha = None THEN config
  ELSE [DefaultConfig EXCEPT !.commit_point.commit_sha = cmd.commit_sha]

(* image.build.commit_sha=... takes the place of the sha; the branch stays *)
(* that of the default configuration.                                      *)
SubstituteCommit(config, cmd) ==
  IF cmd.commit_sha = None THEN config
  ELSE [config EXCEPT !.commit_point.commit_sha = cmd.commit_sha]

(* The graphs evalctl knows, as substituted.  The substitutions of branch  *)
(* and commit that are sent along are read by no service.                  *)
ActionGraph(cmd) ==
  IF cmd.value.graph = "image"
  THEN ImageGraph(BuildImageAction(SubstituteCommit(SubstituteTargets(DefaultConfig, cmd), cmd)))
  ELSE GenerateGraph(GenerateAction([id |-> ""]))

(* The engine asks the cache with the graph, the value and the flag that   *)
(* it was sent.                                                            *)
GetRequest(cmd) ==
  [context |-> ActionGraph(cmd), value |-> cmd.value, skip_caching |-> cmd.skip_caching]

(* The operation a command line is answered with builds the commit and at  *)
(* least the targets that were written there, whatever other command lines *)
(* the cache has served: substitution, digest and compatibility agree on   *)
(* what a request is about.                                                *)
ServesCommandLine ==
  \A cmd \in Commands, h \in handed :
    h.req = GetRequest(cmd) /\ downstreamOperation[h.op] # None =>
      LET built == work[downstreamOperation[h.op]] IN
      /\ cmd.commit_sha # None => built.commit_point.commit_sha = cmd.commit_sha
      /\ cmd.bazel_targets # None => cmd.bazel_targets \subseteq built.target

=============================================================================
