---------------------------- MODULE ActionGraphs ----------------------------
(***************************************************************************)
(* Actions, action graphs, and what the cache computes from them:          *)
(* proto/action/v1/action.proto, pkg/actions, pkg/agraph and the helpers   *)
(* of cmd/cache.  The digest is SHA-256 in the code; here it is the record *)
(* of what is hashed, that is, hashing is taken to be injective.           *)
(***************************************************************************)
CONSTANTS CommitPoints,   \* a commit sha with a branch
          BaseImages,     \* names of base images
          BazelTargets    \* names of Bazel targets

BuildImageConfigs ==
  [base_image : BaseImages, commit_point : CommitPoints, bazel_targets : SUBSET BazelTargets]

GenerateConfigs == [id : {""}]

BuildImageAction(config) == [kind |-> "build-image", config |-> config]
GenerateAction(config)   == [kind |-> "generate", config |-> config]

(* The kind of an action is a free string of the message: this stands for  *)
(* the kinds that no digest function is registered for.                    *)
OtherAction == [kind |-> "other", config |-> [id |-> ""]]

(* The actions a client can send.  The constructors of pkg/actions pair    *)
(* each kind with its own configuration message.                           *)
Actions ==
  {BuildImageAction(config) : config \in BuildImageConfigs}
    \cup {GenerateAction(config) : config \in GenerateConfigs}
    \cup {OtherAction}

(* A graph is its name and a map from value names to actions.  Each known  *)
(* graph has one action, and only the image graph's is called "build".     *)
(* OtherGraph is what a client other than evalctl may send.                *)
ImageGraph(action)    == [name |-> "image", actions |-> [v \in {"build"} |-> action]]
GenerateGraph(action) == [name |-> "generate", actions |-> [v \in {"generate"} |-> action]]
OtherGraph            == [name |-> "other", actions |-> [v \in {"other"} |-> OtherAction]]

(* A dotted value path names a graph and, below it, a value of the graph.  *)
Path(graph, value) == [graph |-> graph, value |-> value]

HasAction(agraph, path) ==
  /\ agraph.name = path.graph
  /\ path.value \in DOMAIN agraph.actions

GetAction(agraph, path) == agraph.actions[path.value]

HasDigest(action) == action.kind \in {"build-image", "generate"}

(* The bucket of an action.  The targets of a build are left out on        *)
(* purpose: they decide, in Compatible, which entry of the bucket will do. *)
ActionDigest(action) ==
  CASE action.kind = "build-image" -> <<action.config.base_image, action.config.commit_point>>
    [] action.kind = "generate"    -> <<action.config.id>>

Digests == (BaseImages \X CommitPoints) \cup {<<config.id>> : config \in GenerateConfigs}

(* The targets in an action's configuration read as a BuildImageConfig.    *)
(* When the configuration is of another message the error is ignored and   *)
(* the zero message is used.                                               *)
TargetsOf(action) ==
  IF action.kind = "build-image" THEN action.config.bazel_targets ELSE {}

(* Mutant: the arguments are swapped.                                      *)
CompatibleSwapped(new, old) == TargetsOf(old) \subseteq TargetsOf(new)

(* Whether the build of an old action also has what a new one asks for.    *)
Compatible(new, old) == TargetsOf(new) \subseteq TargetsOf(old)
=============================================================================
