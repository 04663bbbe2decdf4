--------------------------- MODULE EvalctlProofs ---------------------------
(***************************************************************************)
(* Proof that a command line is served what it asks for: what a handed out *)
(* operation builds is what its request says (ServesRequest), requests     *)
(* are only answered if they are for an image (HandedOutOK), and the       *)
(* substitutions say what the command line says (Substituted).             *)
(***************************************************************************)
EXTENDS Evalctl, CachePromiseProofs

ConfigOf(cmd) == SubstituteCommit(SubstituteTargets(DefaultConfig, cmd), cmd)

(* Each substitution is there in the configuration, whatever the other.    *)
LEMMA Substituted ==
  ASSUME NEW cmd \in Commands
  PROVE  /\ cmd.commit_sha # None => ConfigOf(cmd).commit_point.commit_sha = cmd.commit_sha
         /\ cmd.bazel_targets # None => ConfigOf(cmd).bazel_targets = cmd.bazel_targets
<1> DEFINE targets == SubstituteTargets(DefaultConfig, cmd)
<1>1. /\ DefaultConfig \in BuildImageConfigs
      /\ cmd.bazel_targets # None => cmd.bazel_targets \in SUBSET BazelTargets
  BY CommandsAssumption
<1>2. targets \in BuildImageConfigs
  BY <1>1 DEF SubstituteTargets, BuildImageConfigs
<1>3. cmd.bazel_targets # None => targets.bazel_targets = cmd.bazel_targets
  BY <1>1 DEF SubstituteTargets, BuildImageConfigs
<1>4. DOMAIN targets.commit_point = {"branch", "commit_sha"}
  BY <1>2, CommitPointsAssumption DEF BuildImageConfigs
<1> HIDE DEF targets
<1>5. ConfigOf(cmd) = IF cmd.commit_sha = None THEN targets
                      ELSE [targets EXCEPT !.commit_point.commit_sha = cmd.commit_sha]
  BY DEF ConfigOf, SubstituteCommit, targets
<1>6. CASE cmd.commit_sha = None
  BY <1>3, <1>5, <1>6
<1>7. CASE cmd.commit_sha # None
  <2>1. ConfigOf(cmd).bazel_targets = targets.bazel_targets
    BY <1>2, <1>5, <1>7 DEF BuildImageConfigs
  <2>2. ConfigOf(cmd).commit_point = [targets.commit_point EXCEPT !.commit_sha = cmd.commit_sha]
    BY <1>2, <1>5, <1>7 DEF BuildImageConfigs
  <2>3. ConfigOf(cmd).commit_point.commit_sha = cmd.commit_sha
    BY <1>4, <2>2
  <2> QED BY <1>3, <2>1, <2>3
<1> QED BY <1>6, <1>7

(* A command line for which an image build was found asks for this one.    *)
LEMMA ImageAsked ==
  ASSUME NEW cmd \in Commands,
         HasAction(GetRequest(cmd).context, GetRequest(cmd).value),
         Action(GetRequest(cmd)).kind = "build-image"
  PROVE  Action(GetRequest(cmd)).config = ConfigOf(cmd)
<1> DEFINE r == GetRequest(cmd)
<1>1. r.context = ActionGraph(cmd) /\ r.value = cmd.value
  BY DEF GetRequest
<1>2. cmd.value.graph \in {"image", "generate"}
  BY CommandsAssumption
<1>3. cmd.value.value \in DOMAIN ActionGraph(cmd).actions
  BY <1>1 DEF HasAction
<1>4. Action(r) = ActionGraph(cmd).actions[cmd.value.value]
  BY <1>1 DEF Action, GetAction
<1>5. CASE cmd.value.graph = "image"
  <2>1. ActionGraph(cmd).actions = [v \in {"build"} |-> BuildImageAction(ConfigOf(cmd))]
    BY <1>5 DEF ActionGraph, ImageGraph, ConfigOf
  <2>2. Action(r) = BuildImageAction(ConfigOf(cmd))
    BY <1>3, <1>4, <2>1
  <2> QED BY <2>2 DEF BuildImageAction
<1>6. CASE cmd.value.graph = "generate"
  <2>1. ActionGraph(cmd).actions = [v \in {"generate"} |-> GenerateAction([id |-> ""])]
    BY <1>6 DEF ActionGraph, GenerateGraph
  <2>2. Action(r) = GenerateAction([id |-> ""])
    BY <1>3, <1>4, <2>1
  <2>3. \A config : GenerateAction(config).kind = "generate"
    BY DEF GenerateAction
  <2> QED BY <2>2, <2>3
<1> QED BY <1>2, <1>5, <1>6

LEMMA CommandLineServed == PromiseInv => ServesCommandLine
<1> SUFFICES ASSUME PromiseInv,
                    NEW cmd \in Commands, NEW h \in handed,
                    h.req = GetRequest(cmd),
                    downstreamOperation[h.op] # None
             PROVE  LET built == work[downstreamOperation[h.op]] IN
                    /\ cmd.commit_sha # None => built.commit_point.commit_sha = cmd.commit_sha
                    /\ cmd.bazel_targets # None => cmd.bazel_targets \subseteq built.target
  BY DEF ServesCommandLine
<1>1. Serves(downstreamOperation[h.op], h.req)
  BY DEF PromiseInv, IInv, ServesRequest
<1>2. HasAction(h.req.context, h.req.value) /\ Action(h.req).kind = "build-image"
  BY DEF PromiseInv, HandedOutOK
<1>3. Action(h.req).config = ConfigOf(cmd)
  BY <1>2, ImageAsked
<1> QED BY <1>1, <1>3, Substituted DEF Serves

(* Whatever command lines the cache has served before or serves at the     *)
(* same time, through hits, misses and lost entries, with any              *)
(* faults: the build behind the operation that a command line is answered  *)
(* with is of the commit and has the targets that were substituted in it.  *)
THEOREM CommandLineAlwaysServed == Spec => []ServesCommandLine
<1>1. Spec => []PromiseInv
  BY PromiseInvariance
<1> QED BY <1>1, CommandLineServed, PTL
=============================================================================
