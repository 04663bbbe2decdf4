---------------------------- MODULE CacheProofs ----------------------------
(***************************************************************************)
(* The safety of the cache service, for any requests, number of concurrent *)
(* calls and names: IInv is inductive, and the properties of               *)
(* CacheProperties that the runs check follow from it.                     *)
(***************************************************************************)
EXTENDS CacheProperties, TLAPS

(* An action of kind build-image carries a BuildImageConfig: what Get and  *)
(* ActionDigest rely on when they unmarshal a configuration.               *)
LEMMA ConfigType ==
  ASSUME NEW a \in Actions, a.kind = "build-image"
  PROVE  a.config \in BuildImageConfigs
<1>1. CASE a \in {BuildImageAction(config) : config \in BuildImageConfigs}
  <2>1. PICK config \in BuildImageConfigs : a = [kind |-> "build-image", config |-> config]
    BY <1>1 DEF BuildImageAction
  <2>. QED  BY <2>1
<1>2. CASE a \in {GenerateAction(config) : config \in GenerateConfigs}
  <2>1. PICK config \in GenerateConfigs : a = [kind |-> "generate", config |-> config]
    BY <1>2 DEF GenerateAction
  <2>. QED  BY <2>1
<1>3. CASE a = OtherAction
  BY <1>3 DEF OtherAction
<1>. QED  BY <1>1, <1>2, <1>3 DEF Actions

(* What the builder is sent for such an action is a BuildRequest.          *)
LEMMA BuildRequestType ==
  ASSUME NEW a \in Actions, a.kind = "build-image"
  PROVE  buildImage(a.config) \in BuildRequests
BY ConfigType DEF buildImage, BuildRequests, BuildImageConfigs

(* ActionDigest names a bucket for every action that has a digest.         *)
LEMMA DigestType ==
  ASSUME NEW a \in Actions, HasDigest(a)
  PROVE  ActionDigest(a) \in Digests
<1>1. CASE a.kind = "build-image"
  <2>1. ActionDigest(a) = <<a.config.base_image, a.config.commit_point>>
    BY <1>1 DEF ActionDigest
  <2>. QED  BY <1>1, <2>1, ConfigType DEF Digests, BuildImageConfigs
<1>2. CASE a.kind = "generate"
  <2>1. ActionDigest(a) = <<a.config.id>>
    BY <1>2 DEF ActionDigest
  <2>2. a.config \in GenerateConfigs
    <3>1. CASE a \in {BuildImageAction(config) : config \in BuildImageConfigs}
      <4>1. PICK config \in BuildImageConfigs : a = [kind |-> "build-image", config |-> config]
        BY <3>1 DEF BuildImageAction
      <4>. QED  BY <1>2, <4>1
    <3>2. CASE a \in {GenerateAction(config) : config \in GenerateConfigs}
      <4>1. PICK config \in GenerateConfigs : a = [kind |-> "generate", config |-> config]
        BY <3>2 DEF GenerateAction
      <4>. QED  BY <4>1
    <3>3. CASE a = OtherAction
      BY <1>2, <3>3 DEF OtherAction
    <3>. QED  BY <3>1, <3>2, <3>3 DEF Actions
  <2>. QED  BY <2>1, <2>2 DEF Digests
<1>. QED  BY <1>1, <1>2 DEF HasDigest

(* A request whose graph has a build asks for that build.                  *)
LEMMA RequestedBuild ==
  ASSUME NEW r \in Requests, HasAction(r.context, r.value)
  PROVE  /\ Action(r) \in Actions
         /\ HasBuild(r.context) =>
              /\ Build(r.context) = Action(r)
              /\ Action(r).kind = "build-image"
BY RequestsAssumption DEF Action

(* The build of an entry found for a request serves the request: the       *)
(* bucket fixes the commit and Compatible the targets.                     *)
LEMMA EntryServes ==
  ASSUME NEW r \in Requests, HasAction(r.context, r.value), HasDigest(Action(r)),
         NEW e \in Entries, GoodEntry(Digest(r), e), Compatible(Action(r), e.action)
  PROVE  Serves(downstreamOperation[e.operation], r) /\ Action(r).kind = "build-image"
<1>1. /\ e.action.kind = "build-image"
      /\ ActionDigest(e.action) = ActionDigest(Action(r))
  BY DEF GoodEntry, Digest
<1>2. ActionDigest(e.action) = <<e.action.config.base_image, e.action.config.commit_point>>
  BY <1>1 DEF ActionDigest
<1>3. Action(r).kind = "build-image"
  <2>1. SUFFICES ASSUME Action(r).kind = "generate" PROVE FALSE
    BY DEF HasDigest
  <2>2. ActionDigest(Action(r)) = <<Action(r).config.id>>
    BY <2>1 DEF ActionDigest
  <2>3. \A x, y, z : <<x, y>> # <<z>>
    OBVIOUS
  <2>. QED  BY <1>1, <1>2, <2>2, <2>3
<1>4. e.action.config.commit_point = Action(r).config.commit_point
  <2>1. ActionDigest(Action(r)) = <<Action(r).config.base_image, Action(r).config.commit_point>>
    BY <1>3 DEF ActionDigest
  <2>2. \A x1, y1, x2, y2 : <<x1, y1>> = <<x2, y2>> => y1 = y2
    OBVIOUS
  <2>. QED  BY <1>1, <1>2, <2>1, <2>2
<1>5. Action(r).config.bazel_targets \subseteq e.action.config.bazel_targets
  BY <1>1, <1>3 DEF Compatible, TargetsOf
<1>6. /\ work[downstreamOperation[e.operation]] = buildImage(e.action.config)
      /\ state[downstreamOperation[e.operation]] # "unknown"
  BY DEF GoodEntry, Tied
<1>. QED  BY <1>3, <1>4, <1>5, <1>6 DEF Serves, buildImage

-----------------------------------------------------------------------------
(* Nothing is known and no call is being served, so the invariant holds of *)
(* a service that has just started.                                        *)
LEMMA InitIInv == Init => IInv
<1>. SUFFICES ASSUME Init PROVE IInv
  OBVIOUS
<1>. USE DEF Init, Empty, Builder!OpInit
<1>1. TypeOK
  BY DEF TypeOK, Builder!OpTypeOK
<1>2. BuilderOK /\ DownstreamOK /\ DataOK /\ UpstreamOK
  BY DEF BuilderOK, DownstreamOK, DataOK, UpstreamOK
<1>3. CallsOK
  BY DEF CallsOK, GetOK, GetOperationOK
<1>4. HandedOutResolves /\ ServesRequest /\ ImageBelongsToOperation
  BY DEF HandedOutResolves, ServesRequest, ImageBelongsToOperation
<1>. QED  BY <1>1, <1>2, <1>3, <1>4 DEF IInv

(* A restart forgets every operation, so nothing can be wrong about them:  *)
(* those handed out before are in lost.                                    *)
LEMMA RestartIInv ==
  ASSUME IInv, Restart, UNCHANGED builder
  PROVE  IInv'
<1>. USE DEF Restart, Empty, builder
<1>1. TypeOK'
  BY DEF IInv, TypeOK, Builder!OpTypeOK, Registered
<1>2. (BuilderOK /\ DownstreamOK /\ DataOK /\ UpstreamOK)'
  BY DEF IInv, BuilderOK, DownstreamOK, DataOK, UpstreamOK
<1>3. CallsOK'
  BY DEF CallsOK, GetOK, GetOperationOK
<1>4. HandedOutResolves'
  BY DEF IInv, TypeOK, HandedOutResolves, Registered
<1>5. (ServesRequest /\ ImageBelongsToOperation)'
  BY <1>4 DEF IInv, TypeOK, ServesRequest, ImageBelongsToOperation
<1>. QED  BY <1>1, <1>2, <1>3, <1>4, <1>5 DEF IInv

(* What every step but a restart does to the shared state: operations keep *)
(* their build, and builds keep their work.                                *)
Grows ==
  /\ \A o \in CacheOps : downstreamOperation[o] # None =>
       downstreamOperation'[o] = downstreamOperation[o]
  /\ \A b \in BuilderOps : state[b] # "unknown" =>
       state'[b] # "unknown" /\ work'[b] = work[b]

SameCall(g) ==
  /\ pc'[g] = pc[g] /\ req'[g] = req[g] /\ op'[g] = op[g]
  /\ bop'[g] = bop[g] /\ snap'[g] = snap[g] /\ ans'[g] = ans[g]

LEMMA UnchangedGrows ==
  ASSUME UNCHANGED <<downstreamOperation, builder>>
  PROVE  Grows
BY DEF Grows, builder

(* An entry that is right stays right.                                     *)
LEMMA EntryStays ==
  ASSUME TypeOK, Grows, NEW d, NEW e \in Entries, GoodEntry(d, e)
  PROVE  GoodEntry(d, e)'
BY DEF GoodEntry, Tied, Grows, TypeOK, Entries

(* A call that does not move stays right.                                  *)
LEMMA CallStays ==
  ASSUME IInv, Grows, NEW g \in Callers, SameCall(g)
  PROVE  (GetOK(g) /\ GetOperationOK(g))'
<1>1. GetOK(g) /\ GetOperationOK(g) /\ TypeOK
  BY DEF IInv, CallsOK
<1>2. GetOK(g)'
  <2>1. CASE pc[g] = "assign"
    <3>1. \A i \in DOMAIN snap[g] : snap[g][i] \in Entries /\ GoodEntry(Digest(req[g]), snap[g][i])
      BY <1>1, <2>1 DEF GetOK, TypeOK
    <3>2. \A i \in DOMAIN snap[g] : GoodEntry(Digest(req[g]), snap[g][i])'
      BY <1>1, <3>1, EntryStays DEF SameCall, Digest, Action
    <3>. QED  BY <1>1, <2>1, <3>2, NamesAssumption DEF GetOK, Grows, SameCall, Digest, Action
  <2>2. CASE pc[g] = "found"
    <3>1. /\ op[g] \in CacheOps /\ downstreamOperation[op[g]] \in BuilderOps
          /\ downstreamOperation'[op[g]] = downstreamOperation[op[g]]
      BY <1>1, <2>2 DEF GetOK, TypeOK, Grows
    <3>2. Serves(downstreamOperation[op[g]], req[g])'
      BY <1>1, <2>2, <3>1 DEF GetOK, Serves, Grows, SameCall, Action
    <3>. QED  BY <1>1, <2>2, <3>1, <3>2, NamesAssumption DEF GetOK, SameCall, Action
  <2>3. CASE pc[g] \notin {"assign", "found"}
    BY <1>1, <2>3, NamesAssumption DEF GetOK, Grows, SameCall, Action
  <2>. QED  BY <2>1, <2>2, <2>3
<1>3. GetOperationOK(g)'
  BY <1>1, NamesAssumption DEF GetOperationOK, Grows, SameCall
<1>. QED  BY <1>2, <1>3

(* The promises made about operations handed out are kept.                 *)
LEMMA HandedStays ==
  ASSUME IInv, Grows, UNCHANGED ghosts,
         \A o \in CacheOps : downstreamOperation'[o] # downstreamOperation[o] =>
           o \notin lost
  PROVE  (HandedOutResolves /\ ServesRequest)'
<1>. USE DEF ghosts
<1>1. HandedOutResolves'
  BY DEF IInv, TypeOK, HandedOutResolves, Grows
<1>2. ServesRequest'
  <2>. SUFFICES ASSUME NEW h \in handed, downstreamOperation'[h.op] # None
                PROVE  Serves(downstreamOperation[h.op], h.req)'
    BY DEF ServesRequest
  <2>1. h.op \in CacheOps
    BY DEF IInv, TypeOK
  <2>2. downstreamOperation[h.op] # None
    BY <2>1 DEF IInv, HandedOutResolves
  <2>3. Serves(downstreamOperation[h.op], h.req) /\ downstreamOperation[h.op] \in BuilderOps
    BY <2>1, <2>2 DEF IInv, ServesRequest, TypeOK
  <2>. QED  BY <2>1, <2>2, <2>3 DEF Grows, Serves, Action
<1>. QED  BY <1>1, <1>2

(* A reply that carries an image still does so rightly.                    *)
LEMMA ReplyStays ==
  ASSUME IInv, Grows,
         \A g \in Callers : reply'[g] = reply[g] \/ reply'[g] = None
  PROVE  ImageBelongsToOperation'
<1>. SUFFICES ASSUME NEW g \in Callers, reply'[g] # None, reply'[g].image # None
              PROVE  \/ /\ reply'[g].name \in CacheOps
                        /\ downstreamOperation'[reply'[g].name] # None
                        /\ reply'[g].image \in ImagesOf(downstreamOperation'[reply'[g].name])
                     \/ /\ reply'[g].name \in BuilderOps
                        /\ reply'[g].image \in ImagesOf(reply'[g].name)
  BY DEF ImageBelongsToOperation
<1>1. reply'[g] = reply[g]
  OBVIOUS
<1>2. CASE /\ reply[g].name \in CacheOps
           /\ downstreamOperation[reply[g].name] # None
           /\ reply[g].image \in ImagesOf(downstreamOperation[reply[g].name])
  <2>1. downstreamOperation[reply[g].name] \in BuilderOps
    BY <1>2 DEF IInv, TypeOK
  <2>. QED  BY <1>1, <1>2, <2>1 DEF Grows
<1>3. CASE reply[g].name \in BuilderOps /\ reply[g].image \in ImagesOf(reply[g].name)
  BY <1>1, <1>3 DEF Grows
<1>. QED  BY <1>1, <1>2, <1>3 DEF IInv, ImageBelongsToOperation

(* A step of one call that touches nothing but the call.                   *)
LEMMA LocalIInv ==
  ASSUME IInv, NEW c \in Callers, UNCHANGED <<maps, ghosts, builder>>, TypeOK',
         \A g \in Callers \ {c} : SameCall(g),
         \A g \in Callers : reply'[g] = reply[g] \/ reply'[g] = None,
         (GetOK(c) /\ GetOperationOK(c))'
  PROVE  IInv'
<1>. USE DEF maps, builder
<1>1. Grows
  BY UnchangedGrows
<1>2. (BuilderOK /\ DownstreamOK /\ DataOK /\ UpstreamOK)'
  BY DEF IInv, BuilderOK, DownstreamOK, DataOK, UpstreamOK, Tied, GoodEntry
<1>3. CallsOK'
  BY <1>1, CallStays DEF CallsOK
<1>4. (HandedOutResolves /\ ServesRequest /\ ImageBelongsToOperation)'
  BY <1>1, HandedStays, ReplyStays
<1>. QED  BY <1>2, <1>3, <1>4 DEF IInv

(* A Get that is taken, asks the runner, or finds nothing.                 *)
LEMMA GetMovesIInv ==
  ASSUME IInv, NEW c \in Callers, AcceptGet(c) \/ CreateJob(c) \/ Miss(c)
  PROVE  IInv'
<1>. USE DEF AcceptGet, CreateJob, Miss, Goto, calls
<1>1. UNCHANGED <<maps, ghosts, builder>>
  OBVIOUS
<1>2. TypeOK'
  <2>1. /\ pc' \in [Callers -> {"idle", "createJob", "lookup", "found", "build",
                              "register", "append", "assign", "ask", "store"}]
        /\ req' \in [Callers -> Requests \cup {None}]
        /\ reply' \in [Callers -> Replies \cup {None}]
    <3>1. CASE AcceptGet(c)
      BY <3>1 DEF IInv, TypeOK
    <3>2. CASE CreateJob(c)
      BY <3>2 DEF IInv, TypeOK
    <3>3. CASE Miss(c)
      BY <3>3 DEF IInv, TypeOK
    <3>. QED  BY <3>1, <3>2, <3>3
  <2>2. UNCHANGED <<op, bop, snap, ans>>
    OBVIOUS
  <2>. QED  BY <1>1, <2>1, <2>2 DEF IInv, TypeOK, Builder!OpTypeOK, maps, ghosts, builder
<1>3. \A g \in Callers \ {c} : SameCall(g)
  BY DEF SameCall, IInv, TypeOK
<1>4. \A g \in Callers : reply'[g] = reply[g] \/ reply'[g] = None
  BY DEF IInv, TypeOK
<1>5. (GetOK(c) /\ GetOperationOK(c))'
  BY DEF IInv, TypeOK, CallsOK, GetOK, GetOperationOK
<1>. QED  BY <1>1, <1>2, <1>3, <1>4, <1>5, LocalIInv

(* Put's read: the snapshot holds what the bucket holds.                   *)
LEMMA ReadBucketIInv ==
  ASSUME IInv, NEW c \in Callers, ReadBucket(c)
  PROVE  IInv'
<1>. USE DEF ReadBucket, Goto
<1>0. /\ req[c] \in Requests
      /\ Digest(req[c]) \in Digests
  BY RequestedBuild, DigestType DEF IInv, CallsOK, GetOK, Digest
<1>1. UNCHANGED <<maps, ghosts, builder>>
  OBVIOUS
<1>2. TypeOK'
  BY <1>0 DEF IInv, TypeOK, Builder!OpTypeOK, maps, ghosts, builder
<1>3. \A g \in Callers \ {c} : SameCall(g)
  BY DEF SameCall, IInv, TypeOK
<1>4. GetOK(c)'
  <2>1. snap'[c] = data[Digest(req[c])] /\ pc'[c] = "assign"
    BY DEF IInv, TypeOK
  <2>2. (\A i \in DOMAIN snap[c] : GoodEntry(Digest(req[c]), snap[c][i]))'
    <3>1. \A i \in DOMAIN data[Digest(req[c])] : GoodEntry(Digest(req[c]), data[Digest(req[c])][i])
      BY <1>0 DEF IInv, DataOK
    <3>. QED  BY <2>1, <3>1 DEF GoodEntry, Tied, Digest, Action, maps, builder
  <2>3. GetOK(c) /\ pc[c] = "append"
    BY DEF IInv, CallsOK
  <2>. QED  BY <2>1, <2>2, <2>3 DEF GetOK, Digest, Action, maps, builder
<1>5. GetOperationOK(c)'
  BY DEF IInv, TypeOK, GetOperationOK
<1>. QED  BY <1>1, <1>2, <1>3, <1>4, <1>5, LocalIInv

(* A GetOperation that has to ask the builder.                             *)
LEMMA PollDownstreamIInv ==
  ASSUME IInv, NEW c \in Callers, NEW o \in CacheOps, PollDownstream(c, o)
  PROVE  IInv'
<1>. USE DEF PollDownstream, Goto
<1>1. UNCHANGED <<maps, ghosts, builder>>
  OBVIOUS
<1>2. TypeOK'
  BY DEF IInv, TypeOK, Builder!OpTypeOK, maps, ghosts, builder
<1>3. \A g \in Callers \ {c} : SameCall(g)
  BY DEF SameCall, IInv, TypeOK
<1>4. \A g \in Callers : reply'[g] = reply[g] \/ reply'[g] = None
  BY DEF IInv, TypeOK
<1>5. (GetOK(c) /\ GetOperationOK(c))'
  BY DEF IInv, TypeOK, GetOK, GetOperationOK, maps
<1>. QED  BY <1>1, <1>2, <1>3, <1>4, <1>5, LocalIInv

(* The builder's answer is its result, an image of the build asked about.  *)
LEMMA BuilderAnswersIInv ==
  ASSUME IInv, NEW c \in Callers, BuilderAnswers(c)
  PROVE  IInv'
<1>. USE DEF BuilderAnswers, Goto
<1>0. bop[c] \in BuilderOps /\ op[c] \in CacheOps /\ downstreamOperation[op[c]] = bop[c]
  BY DEF IInv, CallsOK, GetOperationOK
<1>1. UNCHANGED <<maps, ghosts, builder>>
  OBVIOUS
<1> DEFINE a == [name |-> bop[c], done |-> state[bop[c]] = "done", image |-> result[bop[c]]]
<1>2. a \in Answers
  BY <1>0 DEF Answers, IInv, TypeOK, Builder!OpTypeOK
<1>3. TypeOK'
  BY <1>2 DEF IInv, TypeOK, Builder!OpTypeOK, maps, ghosts, builder
<1>4. \A g \in Callers \ {c} : SameCall(g)
  BY DEF SameCall, IInv, TypeOK
<1>5. a.image # None => a.image \in ImagesOf(bop[c])
  BY <1>0 DEF IInv, BuilderOK
<1>6. (GetOK(c) /\ GetOperationOK(c))'
  BY <1>0, <1>2, <1>5 DEF IInv, TypeOK, GetOK, GetOperationOK, maps, builder
<1>. QED  BY <1>1, <1>3, <1>4, <1>6, LocalIInv

-----------------------------------------------------------------------------
(* The calls that return leave nothing behind, and those that go on have   *)
(* nothing changed under them.                                             *)
LEMMA ReturnCalls ==
  ASSUME IInv, NEW c \in Callers, NEW rep, Return(c, rep),
         UNCHANGED <<downstreamOperation, builder>>
  PROVE  CallsOK'
<1>. SUFFICES ASSUME NEW g \in Callers PROVE (GetOK(g) /\ GetOperationOK(g))'
  BY DEF CallsOK
<1>. USE DEF Return, builder
<1>1. CASE g = c
  <2>1. pc'[g] = "idle"
    BY <1>1 DEF IInv, TypeOK
  <2>. QED  BY <2>1 DEF GetOK, GetOperationOK
<1>2. CASE g # c
  <2>1. /\ pc'[g] = pc[g] /\ req'[g] = req[g] /\ op'[g] = op[g]
        /\ bop'[g] = bop[g] /\ snap'[g] = snap[g] /\ ans'[g] = ans[g]
    BY <1>2 DEF IInv, TypeOK
  <2>2. GetOK(g) /\ GetOperationOK(g)
    BY DEF IInv, CallsOK
  <2>3. GetOK(g)'
    BY <2>1, <2>2 DEF GetOK, Serves, GoodEntry, Tied, Digest, Action
  <2>4. GetOperationOK(g)'
    BY <2>1, <2>2 DEF GetOperationOK
  <2>. QED  BY <2>3, <2>4
<1>. QED  BY <1>1, <1>2

(* A call that returns with a reply that can be sent, all else unchanged.  *)
LEMMA ReturnIInv ==
  ASSUME IInv, NEW c \in Callers, NEW rep \in Replies \cup {None}, Return(c, rep),
         UNCHANGED <<maps, lost, builder>>,
         handed' \in SUBSET [op : CacheOps, req : Requests],
         HandedOutResolves', ServesRequest',
         rep # None /\ rep.image # None =>
           \/ /\ rep.name \in CacheOps
              /\ downstreamOperation[rep.name] # None
              /\ rep.image \in ImagesOf(downstreamOperation[rep.name])
           \/ /\ rep.name \in BuilderOps
              /\ rep.image \in ImagesOf(rep.name)
  PROVE  IInv'
<1>. USE DEF maps, builder
<1>1. TypeOK'
  BY DEF IInv, TypeOK, Builder!OpTypeOK, Return
<1>2. (BuilderOK /\ DownstreamOK /\ DataOK /\ UpstreamOK)'
  BY DEF IInv, BuilderOK, DownstreamOK, DataOK, UpstreamOK, Tied, GoodEntry
<1>3. CallsOK'
  BY ReturnCalls
<1>4. ImageBelongsToOperation'
  <2>1. \A g \in Callers : reply'[g] = IF g = c THEN rep ELSE reply[g]
    BY DEF IInv, TypeOK, Return
  <2>. QED  BY <2>1 DEF IInv, ImageBelongsToOperation
<1>. QED  BY <1>1, <1>2, <1>3, <1>4 DEF IInv

(* Nothing was handed out and the maps are as they were.                   *)
LEMMA NotHandedOut ==
  ASSUME IInv, UNCHANGED <<downstreamOperation, ghosts, builder>>
  PROVE  /\ handed' \in SUBSET [op : CacheOps, req : Requests]
         /\ (HandedOutResolves /\ ServesRequest)'
BY DEF IInv, TypeOK, HandedOutResolves, ServesRequest, Serves, Action, ghosts, builder

(* A call that ends with an error or with an answer that has no result.    *)
LEMMA EmptyReplyIInv ==
  ASSUME IInv, NEW c \in Callers,
         \/ RejectGet(c) \/ NoDigest(c) \/ \E o \in CacheOps : PollUnknown(c, o)
  PROVE  IInv'
<1>1. UNCHANGED <<maps, ghosts, builder>>
  BY DEF RejectGet, NoDigest, PollUnknown
<1>2. PICK rep \in Replies \cup {None} : Return(c, rep) /\ (rep # None => rep.image = None)
  <2>1. CASE RejectGet(c) \/ NoDigest(c)
    BY <2>1 DEF RejectGet, NoDigest
  <2>2. CASE \E o \in CacheOps : PollUnknown(c, o)
    <3>1. PICK o \in CacheOps : PollUnknown(c, o)
      BY <2>2
    <3>2. [name |-> o, done |-> TRUE, type |-> None, image |-> None] \in Replies
      BY DEF Replies
    <3>. QED  BY <3>1, <3>2 DEF PollUnknown
  <2>. QED  BY <2>1, <2>2
<1>. QED  BY <1>1, <1>2, NotHandedOut, ReturnIInv DEF maps, ghosts, builder

(* The operation that a lookup finds is tied to a build which serves the   *)
(* request.                                                                *)
LEMMA FoundServes ==
  ASSUME IInv, NEW r \in Requests, HasAction(r.context, r.value), HasDigest(Action(r)),
         NEW o \in CacheOps, Finds(r, o)
  PROVE  /\ downstreamOperation[o] # None
         /\ Serves(downstreamOperation[o], r)
         /\ Action(r).kind = "build-image"
<1>1. PICK i \in Candidates(r) : o = data[Digest(r)][i].operation
  BY DEF Finds
<1>2. Digest(r) \in Digests
  BY RequestedBuild, DigestType DEF Digest
<1>3. /\ i \in DOMAIN data[Digest(r)]
      /\ data[Digest(r)][i] \in Entries
      /\ Compatible(Action(r), data[Digest(r)][i].action)
  BY <1>2 DEF Candidates, IInv, TypeOK
<1>4. GoodEntry(Digest(r), data[Digest(r)][i])
  BY <1>2, <1>3 DEF IInv, DataOK
<1>5. Serves(downstreamOperation[o], r) /\ Action(r).kind = "build-image"
  BY <1>1, <1>3, <1>4, EntryServes
<1>. QED  BY <1>1, <1>4, <1>5 DEF GoodEntry, Tied

(* A lookup that finds: what is found serves the request.                  *)
LEMMA FindIInv ==
  ASSUME IInv, NEW c \in Callers, Find(c)
  PROVE  IInv'
<1>. USE DEF Find, Goto
<1>0. /\ req[c] \in Requests /\ HasAction(req[c].context, req[c].value)
      /\ HasDigest(Action(req[c]))
  BY DEF IInv, CallsOK, GetOK
<1>1. UNCHANGED <<maps, ghosts, builder>>
  OBVIOUS
<1>2. PICK o \in CacheOps : Finds(req[c], o) /\ op' = [op EXCEPT ![c] = o]
  OBVIOUS
<1>3. TypeOK'
  BY <1>2 DEF IInv, TypeOK, Builder!OpTypeOK, maps, ghosts, builder
<1>4. \A g \in Callers \ {c} : SameCall(g)
  BY DEF SameCall, IInv, TypeOK
<1>5. GetOK(c)'
  <2>1. pc'[c] = "found" /\ op'[c] = o
    BY <1>2 DEF IInv, TypeOK
  <2>2. /\ downstreamOperation[o] # None
        /\ Serves(downstreamOperation[o], req[c])
        /\ Action(req[c]).kind = "build-image"
    BY <1>0, <1>2, FoundServes
  <2>. QED  BY <1>0, <2>1, <2>2 DEF GetOK, Serves, Action, maps, builder
<1>6. GetOperationOK(c)'
  BY DEF IInv, TypeOK, GetOperationOK
<1>. QED  BY <1>1, <1>3, <1>4, <1>5, <1>6, LocalIInv

(* Handing out an operation that serves the request of the call.           *)
LEMMA HandedOutServes ==
  ASSUME IInv, NEW c \in Callers, req[c] \in Requests, NEW o \in CacheOps, HandOut(c, o),
         downstreamOperation[o] # None, Serves(downstreamOperation[o], req[c]),
         UNCHANGED <<downstreamOperation, lost, builder>>
  PROVE  /\ handed' \in SUBSET [op : CacheOps, req : Requests]
         /\ (HandedOutResolves /\ ServesRequest)'
<1>. USE DEF builder
<1>1. handed' = handed \cup {[op |-> o, req |-> req[c]]}
  BY DEF HandOut
<1>2. handed' \in SUBSET [op : CacheOps, req : Requests]
  BY <1>1 DEF IInv, TypeOK
<1>3. HandedOutResolves'
  BY <1>1 DEF IInv, HandedOutResolves
<1>4. ServesRequest'
  BY <1>1 DEF IInv, ServesRequest, Serves, Action
<1>. QED  BY <1>2, <1>3, <1>4

(* A hit: what was found serves the request, and an image that is sent     *)
(* along is the one stored for what was found.                             *)
LEMMA HitIInv ==
  ASSUME IInv, NEW c \in Callers, HitFinished(c) \/ HitOngoing(c)
  PROVE  IInv'
<1>1. PICK o \in CacheOps :
        /\ o = op[c] /\ pc[c] = "found" /\ req[c] \in Requests
        /\ downstreamOperation[o] # None /\ Serves(downstreamOperation[o], req[c])
  BY DEF HitFinished, HitOngoing, IInv, CallsOK, GetOK
<1>2. PICK image \in Images \cup {None} :
        /\ Return(c, [name |-> o, done |-> TRUE, type |-> "GetResponse", image |-> image])
        /\ image # None => IsDone(o) /\ image = upstreamOperation[o].image
  <2>1. CASE HitFinished(c)
    <3>1. upstreamOperation[o].image \in Images \cup {None}
      BY <1>1, <2>1 DEF HitFinished, IsDone, IInv, TypeOK, Answers
    <3>. QED  BY <1>1, <2>1, <3>1 DEF HitFinished
  <2>2. CASE HitOngoing(c)
    BY <1>1, <2>2 DEF HitOngoing
  <2>. QED  BY <2>1, <2>2
<1>3. HandOut(c, o) /\ UNCHANGED <<maps, lost, builder>>
  BY <1>1 DEF HitFinished, HitOngoing
<1>4. /\ handed' \in SUBSET [op : CacheOps, req : Requests]
      /\ (HandedOutResolves /\ ServesRequest)'
  BY <1>1, <1>3, HandedOutServes DEF maps
<1>5. [name |-> o, done |-> TRUE, type |-> "GetResponse", image |-> image] \in Replies
  BY DEF Replies
<1>6. image # None => image \in ImagesOf(downstreamOperation[o])
  BY <1>2 DEF IsDone, IInv, UpstreamOK
<1>. QED  BY <1>1, <1>2, <1>3, <1>4, <1>5, <1>6, ReturnIInv

(* A name known to be done: the stored answer goes out under its own name. *)
LEMMA PollRememberedIInv ==
  ASSUME IInv, NEW c \in Callers, NEW o \in CacheOps, PollRemembered(c, o)
  PROVE  IInv'
<1> DEFINE last == upstreamOperation[o]
           rep  == [name |-> last.name, done |-> TRUE, type |-> "BuildResponse",
                    image |-> last.image]
<1>1. /\ Return(c, rep)
      /\ UNCHANGED <<maps, ghosts, builder>>
      /\ last # None
  BY DEF PollRemembered, IsDone
<1>2. last.name \in BuilderOps /\ last.image \in Images \cup {None}
  BY <1>1 DEF IInv, TypeOK, Answers
<1>3. rep \in Replies
  BY <1>2 DEF Replies
<1>4. last.image # None => last.image \in ImagesOf(last.name)
  BY <1>1 DEF IInv, UpstreamOK
<1>. HIDE DEF last
<1>. QED  BY <1>1, <1>2, <1>3, <1>4, NotHandedOut, ReturnIInv DEF maps, ghosts, builder

-----------------------------------------------------------------------------
(* The shared state that a growing step leaves alone stays right.          *)
LEMMA MapsStay ==
  ASSUME IInv, Grows, UNCHANGED data
  PROVE  DataOK'
<1>. SUFFICES ASSUME NEW d \in Digests, NEW i \in DOMAIN data[d]
              PROVE  GoodEntry(d, data[d][i])'
  BY DEF DataOK
<1>1. GoodEntry(d, data[d][i]) /\ data[d][i] \in Entries
  BY DEF IInv, TypeOK, DataOK
<1>. QED  BY <1>1, EntryStays DEF IInv

(* The same of the answers stored.                                         *)
LEMMA UpstreamStays ==
  ASSUME IInv, Grows, UNCHANGED upstreamOperation
  PROVE  UpstreamOK'
<1>1. \A o \in CacheOps : upstreamOperation[o] # None => upstreamOperation[o].name \in BuilderOps
  BY DEF IInv, TypeOK, Answers
<1>. QED  BY <1>1, NamesAssumption DEF IInv, UpstreamOK, Grows

(* The builder takes a build under a name nobody holds yet.                *)
LEMMA CallBuilderIInv ==
  ASSUME IInv, NEW c \in Callers, CallBuilder(c)
  PROVE  IInv'
<1> DEFINE r == req[c]
           w == buildImage(Build(r.context).config)
<1>1. PICK b \in BuilderOps : Builder!Start(b, w) /\ bop' = [bop EXCEPT ![c] = b]
  BY DEF CallBuilder
<1>2. /\ pc[c] = "build" /\ pc' = [pc EXCEPT ![c] = "register"]
      /\ HasDigest(Action(r)) /\ HasBuild(r.context)
      /\ UNCHANGED <<maps, req, op, snap, ans, reply, ghosts>>
  BY DEF CallBuilder, Goto
<1>3. r \in Requests /\ HasAction(r.context, r.value)
  BY <1>2 DEF IInv, CallsOK, GetOK
<1>4. w \in BuildRequests
  BY <1>2, <1>3, RequestedBuild, BuildRequestType
<1>. HIDE DEF w
<1>5. TypeOK'
  <2>1. Builder!OpTypeOK'
    BY <1>1, <1>4 DEF IInv, TypeOK, Builder!OpTypeOK, Builder!Start
  <2>. QED  BY <1>1, <1>2, <2>1 DEF IInv, TypeOK, maps, ghosts
<1>6. /\ state' = [state EXCEPT ![b] = "pending"]
      /\ work' = [work EXCEPT ![b] = w]
      /\ result' = result
      /\ state[b] = "unknown"
  BY <1>1 DEF Builder!Start
<1>7. Grows
  BY <1>2, <1>6 DEF Grows, IInv, TypeOK, Builder!OpTypeOK, maps
<1>8. BuilderOK'
  BY <1>6 DEF IInv, TypeOK, Builder!OpTypeOK, BuilderOK
<1>9. DownstreamOK'
  <2>1. \A o \in CacheOps : downstreamOperation[o] # None =>
          downstreamOperation[o] \in BuilderOps /\ state[downstreamOperation[o]] # "unknown"
    BY DEF IInv, TypeOK, DownstreamOK, Tied
  <2>. QED  BY <1>2, <1>7, <2>1 DEF DownstreamOK, Tied, Grows, maps
<1>10. DataOK' /\ UpstreamOK'
  BY <1>2, <1>7, MapsStay, UpstreamStays DEF maps
<1>11. CallsOK'
  <2>1. \A g \in Callers \ {c} : SameCall(g)
    BY <1>1, <1>2 DEF SameCall, IInv, TypeOK
  <2>2. (GetOK(c) /\ GetOperationOK(c))'
    <3>1. pc'[c] = "register" /\ bop'[c] = b /\ state'[b] # "unknown" /\ work'[b] = w
      BY <1>1, <1>2, <1>6 DEF IInv, TypeOK, Builder!OpTypeOK
    <3>. QED  BY <1>2, <1>3, <3>1 DEF GetOK, GetOperationOK, w, Action
  <2>. QED  BY <1>7, <2>1, <2>2, CallStays DEF CallsOK
<1>12. (HandedOutResolves /\ ServesRequest /\ ImageBelongsToOperation)'
  BY <1>2, <1>7, HandedStays, ReplyStays DEF maps
<1>. QED  BY <1>5, <1>8, <1>9, <1>10, <1>11, <1>12 DEF IInv

(* A name never used before is tied to the builder's operation.            *)
LEMMA RegisterIInv ==
  ASSUME IInv, NEW c \in Callers, Register(c)
  PROVE  IInv'
<1>1. PICK o \in CacheOps \ (Registered \cup lost) :
        /\ downstreamOperation' = [downstreamOperation EXCEPT ![o] = bop[c]]
        /\ op' = [op EXCEPT ![c] = o]
  BY DEF Register
<1>2. /\ pc[c] = "register" /\ pc' = [pc EXCEPT ![c] = "append"]
      /\ UNCHANGED <<data, upstreamOperation, req, bop, snap, ans, reply, ghosts, builder>>
  BY DEF Register, Goto
<1>3. GetOK(c) /\ bop[c] \in BuilderOps /\ state[bop[c]] # "unknown"
  BY <1>2 DEF IInv, CallsOK, GetOK
<1>4. downstreamOperation[o] = None
  BY <1>1 DEF Registered
<1>5. TypeOK'
  BY <1>1, <1>2, <1>3 DEF IInv, TypeOK, Builder!OpTypeOK, ghosts, builder
<1>6. Grows
  BY <1>1, <1>2, <1>4 DEF Grows, IInv, TypeOK, builder
<1>7. BuilderOK'
  BY <1>2 DEF IInv, BuilderOK, builder
<1>8. DownstreamOK'
  BY <1>1, <1>2, <1>3 DEF IInv, TypeOK, DownstreamOK, Tied, builder
<1>9. DataOK' /\ UpstreamOK'
  BY <1>2, <1>6, MapsStay, UpstreamStays
<1>10. CallsOK'
  <2>1. \A g \in Callers \ {c} : SameCall(g)
    BY <1>1, <1>2 DEF SameCall, IInv, TypeOK
  <2>2. pc'[c] = "append" /\ op'[c] = o /\ downstreamOperation'[o] = bop[c]
    BY <1>1, <1>2 DEF IInv, TypeOK
  <2>3. (GetOK(c) /\ GetOperationOK(c))'
    BY <1>2, <1>3, <2>2 DEF GetOK, GetOperationOK, Action, builder
  <2>. QED  BY <1>6, <2>1, <2>3, CallStays DEF CallsOK
<1>11. (HandedOutResolves /\ ServesRequest /\ ImageBelongsToOperation)'
  <2>1. \A q \in CacheOps : downstreamOperation'[q] # downstreamOperation[q] => q \notin lost
    BY <1>1 DEF IInv, TypeOK
  <2>. QED  BY <1>2, <1>6, <2>1, HandedStays, ReplyStays
<1>. QED  BY <1>5, <1>7, <1>8, <1>9, <1>10, <1>11 DEF IInv

(* Put's write: whatever the bucket holds by now, what is assigned to it   *)
(* are entries of this bucket, the new one among them.                     *)
LEMMA AssignBucketIInv ==
  ASSUME IInv, NEW c \in Callers, AssignBucket(c)
  PROVE  IInv'
<1> DEFINE d   == Digest(req[c])
           e   == NewEntry(c)
           rep == [name |-> op[c], done |-> FALSE, type |-> "GetResponse", image |-> None]
<1>1. /\ data' = [data EXCEPT ![d] = Append(snap[c], e)]
      /\ pc[c] = "assign"
      /\ HandOut(c, op[c])
      /\ Return(c, rep)
      /\ UNCHANGED <<downstreamOperation, upstreamOperation, lost, builder>>
  BY DEF AssignBucket
<1>2. /\ req[c] \in Requests /\ HasAction(req[c].context, req[c].value)
      /\ HasDigest(Action(req[c])) /\ HasBuild(req[c].context)
      /\ op[c] \in CacheOps /\ bop[c] \in BuilderOps
      /\ downstreamOperation[op[c]] = bop[c] /\ state[bop[c]] # "unknown"
      /\ work[bop[c]] = buildImage(Build(req[c].context).config)
      /\ \A i \in DOMAIN snap[c] : GoodEntry(d, snap[c][i])
  BY <1>1 DEF IInv, CallsOK, GetOK
<1>3. /\ Build(req[c].context) = Action(req[c])
      /\ Action(req[c]) \in Actions
      /\ Action(req[c]).kind = "build-image"
      /\ d \in Digests
  BY <1>2, RequestedBuild, DigestType DEF Digest
<1>4. e \in Entries /\ snap[c] \in Seq(Entries)
  BY <1>2, <1>3 DEF NewEntry, Entries, IInv, TypeOK
<1>5. GoodEntry(d, e) /\ Serves(bop[c], req[c])
  BY <1>2, <1>3, NamesAssumption DEF GoodEntry, Tied, NewEntry, Digest, Serves, buildImage
<1>. HIDE DEF e, d
<1>6. TypeOK'
  <2>1. rep \in Replies
    BY <1>2 DEF Replies
  <2>2. data' \in [Digests -> Seq(Entries)]
    BY <1>1, <1>3, <1>4 DEF IInv, TypeOK
  <2>3. handed' \in SUBSET [op : CacheOps, req : Requests]
    BY <1>1, <1>2 DEF HandOut, IInv, TypeOK
  <2>. QED  BY <1>1, <2>1, <2>2, <2>3 DEF Return, IInv, TypeOK, Builder!OpTypeOK, builder
<1>7. (BuilderOK /\ DownstreamOK /\ UpstreamOK)'
  BY <1>1 DEF IInv, BuilderOK, DownstreamOK, UpstreamOK, Tied, builder
<1>8. DataOK'
  <2>1. SUFFICES ASSUME NEW f \in Digests, NEW i \in DOMAIN data'[f]
                 PROVE  GoodEntry(f, data'[f][i])
    BY <1>1 DEF DataOK, GoodEntry, Tied, builder
  <2>2. CASE f = d
    <3>1. data'[f] = Append(snap[c], e)
      BY <1>1, <1>3, <2>2 DEF IInv, TypeOK
    <3>2. i \in 1 .. (Len(snap[c]) + 1)
      BY <1>4, <2>1, <3>1
    <3>3. data'[f][i] = IF i = Len(snap[c]) + 1 THEN e ELSE snap[c][i]
      BY <1>4, <3>1, <3>2
    <3>4. i # Len(snap[c]) + 1 => i \in DOMAIN snap[c]
      BY <1>4, <3>2
    <3>. QED  BY <1>2, <1>5, <2>2, <3>3, <3>4
  <2>3. CASE f # d
    BY <1>1, <2>1, <2>3 DEF IInv, TypeOK, DataOK
  <2>. QED  BY <2>2, <2>3
<1>9. CallsOK'
  BY <1>1, ReturnCalls
<1>10. (HandedOutResolves /\ ServesRequest)'
  BY <1>1, <1>2, <1>5, HandedOutServes, NamesAssumption
<1>11. ImageBelongsToOperation'
  <2>1. \A g \in Callers : reply'[g] = IF g = c THEN rep ELSE reply[g]
    BY <1>1 DEF IInv, TypeOK, Return
  <2>. QED  BY <1>1, <2>1 DEF IInv, ImageBelongsToOperation, builder
<1>. QED  BY <1>6, <1>7, <1>8, <1>9, <1>10, <1>11 DEF IInv

(* An answer is stored, maybe an old one: it is still the build's.         *)
LEMMA StoreIInv ==
  ASSUME IInv, NEW c \in Callers, Store(c)
  PROVE  IInv'
<1> DEFINE rep == [name |-> op[c], done |-> ans[c].done, type |-> "GetResponse",
                   image |-> ans[c].image]
<1>1. /\ pc[c] = "store"
      /\ upstreamOperation' = [upstreamOperation EXCEPT ![op[c]] = ans[c]]
      /\ Return(c, rep)
      /\ UNCHANGED <<data, downstreamOperation, ghosts, builder>>
  BY DEF Store
<1>2. /\ op[c] \in CacheOps /\ bop[c] \in BuilderOps
      /\ downstreamOperation[op[c]] = bop[c]
      /\ ans[c] \in Answers
      /\ ans[c].name = bop[c]
      /\ ans[c].image # None => ans[c].image \in ImagesOf(bop[c])
  BY <1>1 DEF IInv, CallsOK, GetOperationOK
<1>3. Grows
  BY <1>1, UnchangedGrows
<1>4. TypeOK'
  <2>1. rep \in Replies
    BY <1>2 DEF Replies, Answers
  <2>2. upstreamOperation' \in [CacheOps -> Answers \cup {None}]
    BY <1>1, <1>2 DEF IInv, TypeOK
  <2>. QED  BY <1>1, <2>1, <2>2 DEF Return, IInv, TypeOK, Builder!OpTypeOK, ghosts, builder
<1>5. (BuilderOK /\ DownstreamOK)'
  BY <1>1 DEF IInv, BuilderOK, DownstreamOK, Tied, builder
<1>6. DataOK'
  BY <1>1, <1>3, MapsStay
<1>7. UpstreamOK'
  BY <1>1, <1>2 DEF IInv, TypeOK, UpstreamOK, builder
<1>8. CallsOK'
  BY <1>1, ReturnCalls
<1>9. (HandedOutResolves /\ ServesRequest)'
  BY <1>1, NotHandedOut
<1>10. ImageBelongsToOperation'
  <2>1. \A g \in Callers : reply'[g] = IF g = c THEN rep ELSE reply[g]
    BY <1>1 DEF IInv, TypeOK, Return
  <2>. QED  BY <1>1, <1>2, <2>1, NamesAssumption DEF IInv, ImageBelongsToOperation, builder
<1>. QED  BY <1>4, <1>5, <1>6, <1>7, <1>8, <1>9, <1>10 DEF IInv

(* A step of the builder that leaves it with images of its own builds, and *)
(* with the builds it has.                                                 *)
LEMMA BuilderIInv ==
  ASSUME IInv, UNCHANGED <<maps, pc, calls, reply, ghosts, work>>,
         (Builder!OpTypeOK /\ BuilderOK)',
         \A b \in BuilderOps : state[b] # "unknown" => state'[b] # "unknown"
  PROVE  IInv'
<1>1. TypeOK'
  BY DEF IInv, TypeOK, maps, calls, ghosts
<1>2. Grows
  BY DEF Grows, IInv, TypeOK, Builder!OpTypeOK, maps
<1>3. DownstreamOK'
  <2>1. \A o \in CacheOps : downstreamOperation[o] # None =>
          downstreamOperation[o] \in BuilderOps /\ state[downstreamOperation[o]] # "unknown"
    BY DEF IInv, TypeOK, DownstreamOK, Tied
  <2>. QED  BY <1>2, <2>1 DEF DownstreamOK, Tied, Grows, maps
<1>4. DataOK' /\ UpstreamOK'
  BY <1>2, MapsStay, UpstreamStays DEF maps
<1>5. CallsOK'
  BY <1>2, CallStays DEF CallsOK, SameCall, calls
<1>6. (HandedOutResolves /\ ServesRequest /\ ImageBelongsToOperation)'
  BY <1>2, HandedStays, ReplyStays DEF maps
<1>. QED  BY <1>1, <1>3, <1>4, <1>5, <1>6 DEF IInv

(* A build ends.                                                           *)
LEMMA BuilderFinishesIInv ==
  ASSUME IInv, NEW b \in BuilderOps, BuilderFinishes(b)
  PROVE  IInv'
<1>1. PICK r \in ImagesOf(b) :
        /\ state' = [state EXCEPT ![b] = "done"]
        /\ result' = [result EXCEPT ![b] = r]
        /\ work' = work
  BY DEF BuilderFinishes, Builder!Finish
<1>2. UNCHANGED <<maps, pc, calls, reply, ghosts, work>>
  BY <1>1 DEF BuilderFinishes
<1>3. r \in Images
  BY DEF Images, ImagesOf
<1>4. (Builder!OpTypeOK /\ BuilderOK)'
  BY <1>1, <1>3 DEF IInv, TypeOK, Builder!OpTypeOK, BuilderOK
<1>5. \A q \in BuilderOps : state[q] # "unknown" => state'[q] # "unknown"
  BY <1>1 DEF IInv, TypeOK, Builder!OpTypeOK
<1>. QED  BY <1>2, <1>4, <1>5, BuilderIInv

(* The builder forgets which builds are done, but not the builds.          *)
LEMMA BuilderForgetsIInv ==
  ASSUME IInv, BuilderForgets
  PROVE  IInv'
<1>1. /\ state' = [b \in BuilderOps |-> IF state[b] = "done" THEN "pending" ELSE state[b]]
      /\ result' = [b \in BuilderOps |-> None]
      /\ work' = work
  BY DEF BuilderForgets, Builder!Forget
<1>2. UNCHANGED <<maps, pc, calls, reply, ghosts, work>>
  BY <1>1 DEF BuilderForgets
<1>3. (Builder!OpTypeOK /\ BuilderOK)'
  BY <1>1 DEF IInv, TypeOK, Builder!OpTypeOK, BuilderOK
<1>4. \A b \in BuilderOps : state[b] # "unknown" => state'[b] # "unknown"
  BY <1>1 DEF IInv, TypeOK, Builder!OpTypeOK
<1>. QED  BY <1>2, <1>3, <1>4, BuilderIInv

(* Nothing happens.                                                        *)
LEMMA StutterIInv ==
  ASSUME IInv, UNCHANGED vars
  PROVE  IInv'
<1>. USE DEF vars, maps, calls, ghosts, builder
<1>1. TypeOK'
  BY DEF IInv, TypeOK, Builder!OpTypeOK
<1>2. (BuilderOK /\ DownstreamOK /\ DataOK /\ UpstreamOK)'
  BY DEF IInv, BuilderOK, DownstreamOK, DataOK, UpstreamOK, Tied, GoodEntry
<1>3. CallsOK'
  BY UnchangedGrows, CallStays DEF CallsOK, SameCall
<1>4. (HandedOutResolves /\ ServesRequest)'
  BY NotHandedOut
<1>5. ImageBelongsToOperation'
  BY DEF IInv, ImageBelongsToOperation
<1>. QED  BY <1>1, <1>2, <1>3, <1>4, <1>5 DEF IInv

-----------------------------------------------------------------------------
(* IInv holds of the service at all times: for any number of concurrent    *)
(* calls, whatever they ask for, however their accesses to the three maps  *)
(* interleave, and whenever the process restarts.                          *)
THEOREM Invariance == Spec => []IInv
<1>1. Init => IInv
  BY InitIInv
<1>2. IInv /\ [Next]_vars => IInv'
  <2>. SUFFICES ASSUME IInv, [Next]_vars PROVE IInv'
    OBVIOUS
  <2>1. ASSUME NEW c \in Callers, RejectGet(c) PROVE IInv'
    BY <2>1, EmptyReplyIInv
  <2>2. ASSUME NEW c \in Callers, AcceptGet(c) PROVE IInv'
    BY <2>2, GetMovesIInv
  <2>3. ASSUME NEW c \in Callers, GetStep(c) PROVE IInv'
    <3>1. CASE CreateJob(c) \/ Miss(c)
      BY <3>1, GetMovesIInv
    <3>2. CASE Find(c) \/ HitFinished(c) \/ HitOngoing(c)
      BY <3>2, FindIInv, HitIInv
    <3>3. CASE NoDigest(c)
      BY <3>3, EmptyReplyIInv
    <3>4. CASE NoBuildAction(c) \/ BuilderRefuses(c)
      BY <3>4, RestartIInv DEF NoBuildAction, BuilderRefuses
    <3>5. CASE CallBuilder(c)
      BY <3>5, CallBuilderIInv
    <3>6. CASE Register(c)
      BY <3>6, RegisterIInv
    <3>7. CASE ReadBucket(c)
      BY <3>7, ReadBucketIInv
    <3>8. CASE AssignBucket(c)
      BY <3>8, AssignBucketIInv
    <3>. QED  BY <2>3, <3>1, <3>2, <3>3, <3>4, <3>5, <3>6, <3>7, <3>8 DEF GetStep
  <2>4. ASSUME NEW c \in Callers, GetOperationStep(c) PROVE IInv'
    <3>1. CASE BuilderAnswers(c)
      BY <3>1, BuilderAnswersIInv
    <3>2. CASE BuilderUnreachable(c)
      BY <3>2, RestartIInv DEF BuilderUnreachable
    <3>3. CASE Store(c)
      BY <3>3, StoreIInv
    <3>. QED  BY <2>4, <3>1, <3>2, <3>3 DEF GetOperationStep
  <2>5. ASSUME NEW c \in Callers, NEW o \in CacheOps, Poll(c, o) PROVE IInv'
    BY <2>5, PollRememberedIInv, PollDownstreamIInv, EmptyReplyIInv DEF Poll
  <2>6. ASSUME NEW b \in BuilderOps, BuilderFinishes(b) PROVE IInv'
    BY <2>6, BuilderFinishesIInv
  <2>7. CASE BuilderForgets
    BY <2>7, BuilderForgetsIInv
  <2>8. CASE Crash
    BY <2>8, RestartIInv DEF Crash
  <2>9. CASE UNCHANGED vars
    BY <2>9, StutterIInv
  <2>. QED  BY <2>1, <2>2, <2>3, <2>4, <2>5, <2>6, <2>7, <2>8, <2>9 DEF Next
<1>. QED  BY <1>1, <1>2, PTL DEF Spec

(* The variables keep their types.                                         *)
THEOREM TypeCorrect == Spec => []TypeOK
<1>1. IInv => TypeOK
  BY DEF IInv
<1>. QED  BY <1>1, Invariance, PTL

(* The name a client was given is always tied to a build, unless the       *)
(* service restarted since.                                                *)
THEOREM HandedOutAlwaysResolves == Spec => []HandedOutResolves
<1>1. IInv => HandedOutResolves
  BY DEF IInv
<1>. QED  BY <1>1, Invariance, PTL

(* The build behind it is of the commit and has the targets that the       *)
(* client asked for, in spite of the race between two calls of Put.        *)
THEOREM AlwaysServesRequest == Spec => []ServesRequest
<1>1. IInv => ServesRequest
  BY DEF IInv
<1>. QED  BY <1>1, Invariance, PTL

(* An image is never sent for another operation than its own, in spite of  *)
(* answers of the builder that arrive late.                                *)
THEOREM ImageAlwaysBelongs == Spec => []ImageBelongsToOperation
<1>1. IInv => ImageBelongsToOperation
  BY DEF IInv
<1>. QED  BY <1>1, Invariance, PTL

-----------------------------------------------------------------------------
(* Late answers, with a builder that does not forget                       *)

(* What is done at the builder stays done.                                 *)
LEMMA DoneStays ==
  ASSUME TypeOK, [Next]_vars, "forgets" \notin Faults, NEW b \in BuilderOps, state[b] = "done"
  PROVE  state'[b] = "done"
<1>1. ASSUME NEW c \in Callers, CallBuilder(c) PROVE state'[b] = "done"
  BY <1>1 DEF CallBuilder, Builder!Start, TypeOK, Builder!OpTypeOK
<1>2. ASSUME NEW d \in BuilderOps, BuilderFinishes(d) PROVE state'[b] = "done"
  BY <1>2 DEF BuilderFinishes, Builder!Finish, TypeOK, Builder!OpTypeOK
<1>3. CASE state' = state
  BY <1>3
<1>. QED
  BY <1>1, <1>2, <1>3
  DEF Next, vars, builder, RejectGet, AcceptGet, GetStep, CreateJob, Find, HitFinished, HitOngoing,
      Miss, NoDigest, NoBuildAction, BuilderRefuses, Register, ReadBucket, AssignBucket,
      GetOperationStep, BuilderAnswers, BuilderUnreachable, Store, Poll, PollRemembered,
      PollDownstream, PollUnknown, BuilderForgets, Crash

(* No answer of the builder is received, stored or lost.                   *)
NoAnswer ==
  /\ UNCHANGED upstreamOperation
  /\ \A o \in CacheOps : downstreamOperation[o] # None => downstreamOperation'[o] = downstreamOperation[o]
  /\ \A c \in Callers : pc'[c] = "store" => /\ pc[c] = "store" /\ op'[c] = op[c]
                                            /\ bop'[c] = bop[c] /\ ans'[c] = ans[c]

LEMMA AnswerSteps ==
  ASSUME TypeOK, [Next]_vars
  PROVE  Restart \/ NoAnswer \/ \E c \in Callers : BuilderAnswers(c) \/ Store(c)
<1>1. ASSUME NEW c \in Callers, UNCHANGED <<downstreamOperation, upstreamOperation>>,
             NEW rep, Return(c, rep)
      PROVE  NoAnswer
  BY <1>1 DEF TypeOK, Return, NoAnswer
<1>2. ASSUME NEW c \in Callers, UNCHANGED <<downstreamOperation, upstreamOperation>>,
             NEW to, pc' = [pc EXCEPT ![c] = to], to # "store",
             \A g \in Callers \ {c} : op'[g] = op[g] /\ bop'[g] = bop[g] /\ ans'[g] = ans[g]
      PROVE  NoAnswer
  BY <1>2 DEF TypeOK, NoAnswer
<1>3. CASE UNCHANGED <<downstreamOperation, upstreamOperation, pc, op, bop, ans>>
  BY <1>3 DEF NoAnswer
<1>4. ASSUME NEW c \in Callers, Register(c) PROVE NoAnswer
  <2>1. PICK o \in CacheOps \ (Registered \cup lost) :
          /\ downstreamOperation' = [downstreamOperation EXCEPT ![o] = bop[c]]
          /\ op' = [op EXCEPT ![c] = o]
    BY <1>4 DEF Register
  <2>2. pc' = [pc EXCEPT ![c] = "append"] /\ UNCHANGED <<upstreamOperation, bop, ans>>
    BY <1>4 DEF Register, Goto
  <2>. QED  BY <2>1, <2>2 DEF TypeOK, Registered, NoAnswer
<1>5. ASSUME NEW c \in Callers,
             \/ RejectGet(c) \/ NoDigest(c) \/ HitFinished(c) \/ HitOngoing(c) \/ AssignBucket(c)
             \/ \E o \in CacheOps : PollRemembered(c, o) \/ PollUnknown(c, o)
      PROVE  NoAnswer
  BY <1>1, <1>5 DEF RejectGet, NoDigest, HitFinished, HitOngoing, AssignBucket, PollRemembered,
     PollUnknown, maps
<1>6. ASSUME NEW c \in Callers,
             \/ AcceptGet(c) \/ CreateJob(c) \/ Find(c) \/ Miss(c) \/ CallBuilder(c) \/ ReadBucket(c)
             \/ \E o \in CacheOps : PollDownstream(c, o)
      PROVE  NoAnswer
  <2>1. /\ UNCHANGED <<downstreamOperation, upstreamOperation, ans>>
        /\ \E to : pc' = [pc EXCEPT ![c] = to] /\ to # "store"
    BY <1>6 DEF AcceptGet, CreateJob, Find, Miss, CallBuilder, ReadBucket, PollDownstream, Goto,
       maps, calls
  <2>2. \A g \in Callers \ {c} : op'[g] = op[g] /\ bop'[g] = bop[g]
    BY <1>6 DEF TypeOK, AcceptGet, CreateJob, Find, Miss, CallBuilder, ReadBucket, PollDownstream, calls
  <2>. QED  BY <1>2, <2>1, <2>2
<1>7. ASSUME (\E b \in BuilderOps : BuilderFinishes(b)) \/ BuilderForgets \/ UNCHANGED vars
      PROVE  NoAnswer
  <2>1. UNCHANGED <<downstreamOperation, upstreamOperation, pc, op, bop, ans>>
    BY <1>7 DEF BuilderFinishes, BuilderForgets, vars, maps, calls
  <2>. QED  BY <2>1 DEF NoAnswer
<1>8. ASSUME Crash \/ \E c \in Callers : NoBuildAction(c) \/ BuilderRefuses(c) \/ BuilderUnreachable(c)
      PROVE  Restart
  BY <1>8 DEF Crash, NoBuildAction, BuilderRefuses, BuilderUnreachable
<1>. QED
  BY <1>4, <1>5, <1>6, <1>7, <1>8 DEF Next, GetStep, GetOperationStep, Poll

(* What call c has received is the state of the build at that time.        *)
LEMMA AnswerReceived ==
  ASSUME IInv, NEW c \in Callers, BuilderAnswers(c)
  PROVE  /\ UNCHANGED <<upstreamOperation, downstreamOperation, op, bop, state>>
         /\ op[c] \in CacheOps /\ bop[c] \in BuilderOps /\ downstreamOperation[op[c]] = bop[c]
         /\ bop[c] # None
         /\ ans'[c].done <=> state[bop[c]] = "done"
         /\ \A g \in Callers \ {c} : pc'[g] = pc[g] /\ ans'[g] = ans[g]
<1>1. /\ pc[c] = "ask" /\ pc' = [pc EXCEPT ![c] = "store"]
      /\ ans' = [ans EXCEPT ![c] = [name |-> bop[c], done |-> state[bop[c]] = "done",
                                    image |-> result[bop[c]]]]
      /\ UNCHANGED <<upstreamOperation, downstreamOperation, op, bop, state>>
  BY DEF BuilderAnswers, Goto, maps, builder
<1>2. /\ op[c] \in CacheOps /\ bop[c] \in BuilderOps /\ downstreamOperation[op[c]] = bop[c]
  BY <1>1 DEF IInv, CallsOK, GetOperationOK
<1>3. TypeOK
  BY DEF IInv
<1>4. ans'[c] = [name |-> bop[c], done |-> state[bop[c]] = "done", image |-> result[bop[c]]]
  BY <1>1, <1>3 DEF TypeOK
<1>5. ans'[c].done <=> state[bop[c]] = "done"
  BY <1>1, <1>3 DEF TypeOK
<1>6. \A g \in Callers \ {c} : pc'[g] = pc[g] /\ ans'[g] = ans[g]
  BY <1>1, <1>3 DEF TypeOK
<1>. QED  BY <1>1, <1>2, <1>5, <1>6, NamesAssumption

(* Call c stores its answer, and is over.                                  *)
LEMMA AnswerStored ==
  ASSUME IInv, NEW c \in Callers, Store(c)
  PROVE  /\ UNCHANGED <<downstreamOperation, state>>
         /\ pc[c] = "store" /\ pc'[c] = "idle"
         /\ op[c] \in CacheOps /\ bop[c] \in BuilderOps /\ downstreamOperation[op[c]] = bop[c]
         /\ upstreamOperation'[op[c]] = ans[c] /\ ans[c] # None
         /\ \A o \in CacheOps : o # op[c] => upstreamOperation'[o] = upstreamOperation[o]
         /\ \A g \in Callers \ {c} : /\ pc'[g] = pc[g] /\ op'[g] = op[g]
                                     /\ bop'[g] = bop[g] /\ ans'[g] = ans[g]
<1>1. /\ pc[c] = "store" /\ upstreamOperation' = [upstreamOperation EXCEPT ![op[c]] = ans[c]]
      /\ UNCHANGED <<downstreamOperation, state>>
      /\ \E rep : Return(c, rep)
  BY DEF Store, builder
<1>2. /\ op[c] \in CacheOps /\ bop[c] \in BuilderOps /\ downstreamOperation[op[c]] = bop[c]
      /\ ans[c] \in Answers
  BY <1>1 DEF IInv, CallsOK, GetOperationOK
<1>3. ans[c] # None
  BY <1>2, AnswersAssumption
<1>4. TypeOK
  BY DEF IInv
<1>5. /\ upstreamOperation'[op[c]] = ans[c]
      /\ \A o \in CacheOps : o # op[c] => upstreamOperation'[o] = upstreamOperation[o]
  BY <1>1, <1>2, <1>4 DEF TypeOK
<1>6. /\ pc'[c] = "idle"
      /\ \A g \in Callers \ {c} : /\ pc'[g] = pc[g] /\ op'[g] = op[g]
                                  /\ bop'[g] = bop[g] /\ ans'[g] = ans[g]
  BY <1>1, <1>4 DEF TypeOK, Return
<1>. QED  BY <1>1, <1>2, <1>3, <1>5, <1>6

LEMMA NextSaidIsOver ==
  ASSUME IInv, SaidIsOver, IInv', [Next]_vars, "forgets" \notin Faults
  PROVE  SaidIsOver'
<1>0. TypeOK
  BY DEF IInv
<1>d. \A b \in BuilderOps : state[b] = "done" => state'[b] = "done"
  BY <1>0, DoneStays
<1>b. \A o \in CacheOps : downstreamOperation[o] # None => downstreamOperation[o] \in BuilderOps
  BY <1>0 DEF TypeOK
<1>1. CASE Restart
  BY <1>1 DEF Restart, Empty, SaidIsOver, IsDone
<1>2. CASE NoAnswer
  <2>1. ASSUME NEW c \in Callers, pc'[c] = "store", ans'[c].done PROVE state'[bop'[c]] = "done"
    <3>1. pc[c] = "store" /\ ans[c].done /\ bop'[c] = bop[c]
      BY <1>2, <2>1 DEF NoAnswer
    <3>2. bop[c] \in BuilderOps
      BY <3>1 DEF IInv, CallsOK, GetOperationOK
    <3>. QED  BY <1>d, <3>1, <3>2 DEF SaidIsOver
  <2>2. ASSUME NEW o \in CacheOps, IsDone(o)' PROVE Over(o)'
    <3>1. IsDone(o)
      BY <1>2, <2>2 DEF NoAnswer, IsDone
    <3>. QED  BY <1>2, <1>b, <1>d, <3>1 DEF SaidIsOver, NoAnswer, Over
  <2>. QED  BY <2>1, <2>2 DEF SaidIsOver
<1>3. ASSUME NEW c \in Callers, BuilderAnswers(c) PROVE SaidIsOver'
  <2>1. ASSUME NEW g \in Callers, pc'[g] = "store", ans'[g].done PROVE state'[bop'[g]] = "done"
    BY <1>3, <2>1, AnswerReceived DEF SaidIsOver
  <2>2. ASSUME NEW o \in CacheOps, IsDone(o)' PROVE Over(o)'
    BY <1>3, <2>2, AnswerReceived DEF SaidIsOver, IsDone, Over
  <2>. QED  BY <2>1, <2>2 DEF SaidIsOver
<1>4. ASSUME NEW c \in Callers, Store(c) PROVE SaidIsOver'
  <2>1. ASSUME NEW g \in Callers, pc'[g] = "store", ans'[g].done PROVE state'[bop'[g]] = "done"
    <3>1. g # c
      BY <1>4, <2>1, AnswerStored
    <3>. QED  BY <1>4, <2>1, <3>1, AnswerStored DEF SaidIsOver
  <2>2. ASSUME NEW o \in CacheOps, IsDone(o)' PROVE Over(o)'
    <3>1. CASE o = op[c]
      <4>1. ans[c].done /\ pc[c] = "store" /\ downstreamOperation[o] = bop[c] /\ bop[c] # None
        BY <1>4, <2>2, <3>1, AnswerStored, NamesAssumption DEF IsDone
      <4>2. state[bop[c]] = "done"
        BY <4>1 DEF SaidIsOver
      <4>. QED  BY <1>4, <4>1, <4>2, AnswerStored DEF Over
    <3>2. CASE o # op[c]
      <4>1. IsDone(o)
        BY <1>4, <2>2, <3>2, AnswerStored DEF IsDone
      <4>. QED  BY <1>4, <4>1, AnswerStored DEF SaidIsOver, Over
    <3>. QED  BY <3>1, <3>2
  <2>. QED  BY <2>1, <2>2 DEF SaidIsOver
<1>. QED  BY <1>0, <1>1, <1>2, <1>3, <1>4, AnswerSteps

(* What a step does to the late answers about operation o.                 *)
LEMMA StepLate ==
  ASSUME IInv, SaidIsOver, [Next]_vars, NEW o \in CacheOps, downstreamOperation'[o] # None
  PROVE  /\ Over(o) \/ IsDone(o) => Late(o)' \subseteq Late(o)
         /\ IsDone(o) /\ ~IsDone(o)' => Late(o)' # Late(o)
<1>0. TypeOK
  BY DEF IInv
<1>1. CASE Restart
  BY <1>1 DEF Restart, Empty
<1>2. CASE NoAnswer
  <2>1. Late(o)' \subseteq Late(o)
    BY <1>2 DEF NoAnswer, Late
  <2>2. IsDone(o)' <=> IsDone(o)
    BY <1>2 DEF NoAnswer, IsDone
  <2>. QED  BY <2>1, <2>2
<1>3. ASSUME NEW c \in Callers, BuilderAnswers(c)
      PROVE  /\ Over(o) \/ IsDone(o) => Late(o)' \subseteq Late(o)
             /\ IsDone(o)' <=> IsDone(o)
  <2>1. IsDone(o)' <=> IsDone(o)
    BY <1>3, AnswerReceived DEF IsDone
  <2>2. ASSUME Over(o), NEW g \in Late(o)' PROVE g \in Late(o)
    <3>1. g \in Callers /\ pc'[g] = "store" /\ op'[g] = o /\ ~ans'[g].done
      BY DEF Late
    <3>2. g # c
      BY <1>3, <2>2, <3>1, AnswerReceived DEF Over
    <3>. QED  BY <1>3, <3>1, <3>2, AnswerReceived DEF Late
  <2>3. IsDone(o) => Over(o)
    BY DEF SaidIsOver
  <2>. QED  BY <2>1, <2>2, <2>3
<1>4. ASSUME NEW c \in Callers, Store(c)
      PROVE  /\ Late(o)' \subseteq Late(o)
             /\ IsDone(o) /\ ~IsDone(o)' => Late(o)' # Late(o)
  <2>1. ASSUME NEW g \in Late(o)' PROVE g \in Late(o) /\ g # c
    <3>1. g \in Callers /\ pc'[g] = "store" /\ op'[g] = o /\ ~ans'[g].done
      BY DEF Late
    <3>2. g # c
      BY <1>4, <3>1, AnswerStored
    <3>. QED  BY <1>4, <3>1, <3>2, AnswerStored DEF Late
  <2>2. ASSUME IsDone(o), ~IsDone(o)' PROVE c \in Late(o)
    <3>1. op[c] = o /\ ~ans[c].done /\ pc[c] = "store"
      BY <1>4, <2>2, AnswerStored DEF IsDone
    <3>. QED  BY <3>1 DEF Late
  <2>. QED  BY <2>1, <2>2
<1>. QED  BY <1>0, <1>1, <1>2, <1>3, <1>4, AnswerSteps

(* A builder that does not forget: a done operation can be forgotten only  *)
(* as often as there are calls that carry an answer from before its end,   *)
(* of which there are no more once it has ended.                           *)
THEOREM LateAnswersAlwaysRunOut ==
  ASSUME "forgets" \notin Faults
  PROVE  Spec => LateAnswersRunOut
<1>1. Init => SaidIsOver
  BY DEF Init, Empty, SaidIsOver, IsDone
<1>2. IInv /\ IInv' /\ SaidIsOver /\ [Next]_vars => SaidIsOver'
  BY NextSaidIsOver
<1>3. IInv /\ SaidIsOver /\ [Next]_vars =>
        [\A o \in CacheOps : downstreamOperation'[o] # None =>
           /\ Over(o) \/ IsDone(o) => Late(o)' \subseteq Late(o)
           /\ IsDone(o) /\ ~IsDone(o)' => Late(o)' # Late(o)]_vars
  BY StepLate
<1>. QED  BY <1>1, <1>2, <1>3, Invariance, PTL DEF Spec, LateAnswersRunOut
=============================================================================
