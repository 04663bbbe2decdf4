---------------------------- MODULE CacheService ----------------------------
(***************************************************************************)
(* The cache service, cmd/cache/main.go.  It answers Get with the name of  *)
(* an operation, a cached one when some earlier build covers the request   *)
(* and a new one otherwise, and GetOperation with what it knows of the     *)
(* operation, asking the builder when it has no answer yet.                *)
(*                                                                         *)
(* Every call is a goroutine of the gRPC server.  The three maps of the    *)
(* service are shared by all calls and no lock protects them; all is in    *)
(* memory and gone when the process restarts.  A step of the model is what *)
(* a goroutine does between two points where another one can be seen: a    *)
(* call to the runner or to the builder, or an access to a shared map.     *)
(*                                                                         *)
(* The builder is seen through Operations, what it promises its callers.   *)
(*                                                                         *)
(* A definition marked "Mutant" is a plausible mistake in the one after    *)
(* it.  Nothing uses it: it is there to be put in that one's place, to see *)
(* that a property notices.                                                *)
(***************************************************************************)
EXTENDS ActionGraphs, Integers, Sequences, FiniteSets

CONSTANTS Callers,      \* concurrent calls the service can be serving
          Requests,     \* the Get requests clients may send
          CacheOps,     \* operation names the cache can draw (UUIDs)
          BuilderOps,   \* operation names the builder can draw (UUIDs)
          NoImage,      \* the answer of a builder that forgot the build
          None,         \* an absent map entry, name or message
          Faults        \* which faults happen, see below

(* A request names one value of a graph.  The graphs that exist have a     *)
(* single action, so the action called "build", if there is one, is the    *)
(* action asked for.                                                       *)
Build(agraph) == agraph.actions["build"]
HasBuild(agraph) == "build" \in DOMAIN agraph.actions

ASSUME RequestsAssumption ==
  \A r \in Requests :
    /\ r.skip_caching \in BOOLEAN
    /\ HasAction(r.context, r.value) => GetAction(r.context, r.value) \in Actions
    /\ HasBuild(r.context) =>
         /\ Build(r.context) \in Actions
         /\ Build(r.context).kind = "build-image"
         /\ HasAction(r.context, r.value) =>
              GetAction(r.context, r.value) = Build(r.context)

ASSUME NamesAssumption ==
  /\ None \notin CacheOps \cup BuilderOps \cup Requests
  /\ NoImage \notin BuilderOps \cup {None}
  /\ CacheOps \cap BuilderOps = {}

(* "crash": the process is killed.  "builder": the builder does not answer *)
(* a call.  "forgets": it is restarted, and forgets what is done.          *)
ASSUME FaultsAssumption == Faults \subseteq {"crash", "builder", "forgets"}

(* An image is named after its build.  A builder that was restarted knows  *)
(* when a build is done, but not what its image is.                        *)
Images == BuilderOps \cup {NoImage}
ImagesOf(b) == {b} \cup (IF "forgets" \in Faults THEN {NoImage} ELSE {})

(* A BuildRequest: the base image of the configuration is not sent.        *)
BuildRequests == [commit_point : CommitPoints, target : SUBSET BazelTargets]
buildImage(config) == [commit_point |-> config.commit_point, target |-> config.bazel_targets]

VARIABLES
  data,                 \* data[d]: the entries of bucket d, oldest first
  downstreamOperation,  \* the builder's operation behind a cache operation
  upstreamOperation,    \* the last builder answer stored for a cache operation
  pc, req, op, bop,     \* per call: where it is, its request, the cache and
                        \* the builder operation it is about
  snap,                 \* per call: the bucket as Put read it
  ans,                  \* per call: the builder's answer, not stored yet
  reply,                \* per call: the last reply, until the next call
  handed,               \* which operation was handed out for which request
  lost,                 \* operations registered before a restart
  state, work, result   \* the builder (Operations)

Builder == INSTANCE Operations
  WITH Names <- BuilderOps, Works <- BuildRequests, Results <- Images

maps     == <<data, downstreamOperation, upstreamOperation>>
calls    == <<req, op, bop, snap, ans>>
ghosts   == <<handed, lost>>
builder  == <<state, work, result>>
vars     == <<maps, pc, calls, reply, ghosts, builder>>

Entries == [action : Actions, operation : CacheOps]

(* What Get and GetOperation return: "GetResponse" and "BuildResponse" are *)
(* the two messages a result can hold, None an operation with no result.   *)
Replies ==
  [name : CacheOps \cup BuilderOps, done : BOOLEAN,
   type : {"GetResponse", "BuildResponse", None}, image : Images \cup {None}]

(* What the builder answers to GetOperation.                               *)
Answers == [name : BuilderOps, done : BOOLEAN, image : Images \cup {None}]

ASSUME AnswersAssumption == None \notin Answers

TypeOK ==
  /\ data \in [Digests -> Seq(Entries)]
  /\ downstreamOperation \in [CacheOps -> BuilderOps \cup {None}]
  /\ upstreamOperation \in [CacheOps -> Answers \cup {None}]
  /\ pc \in [Callers -> {"idle", "createJob", "lookup", "found", "build",
                         "register", "append", "assign", "ask", "store"}]
  /\ req \in [Callers -> Requests \cup {None}]
  /\ op \in [Callers -> CacheOps \cup {None}]
  /\ bop \in [Callers -> BuilderOps \cup {None}]
  /\ snap \in [Callers -> Seq(Entries)]
  /\ ans \in [Callers -> Answers \cup {None}]
  /\ reply \in [Callers -> Replies \cup {None}]
  /\ handed \in SUBSET [op : CacheOps, req : Requests]
  /\ lost \in SUBSET CacheOps
  /\ Builder!OpTypeOK

-----------------------------------------------------------------------------
Empty(S, x) == [e \in S |-> x]

Init ==
  /\ data = Empty(Digests, <<>>)
  /\ downstreamOperation = Empty(CacheOps, None)
  /\ upstreamOperation = Empty(CacheOps, None)
  /\ pc = Empty(Callers, "idle")
  /\ req = Empty(Callers, None)
  /\ op = Empty(Callers, None)
  /\ bop = Empty(Callers, None)
  /\ snap = Empty(Callers, <<>>)
  /\ ans = Empty(Callers, None)
  /\ reply = Empty(Callers, None)
  /\ handed = {}
  /\ lost = {}
  /\ Builder!OpInit

Action(r)   == GetAction(r.context, r.value)
Digest(r)   == ActionDigest(Action(r))
Registered  == {o \in CacheOps : downstreamOperation[o] # None}

(* Mutant: present is taken for done.                                      *)
IsPresent(o) == upstreamOperation[o] # None
IsDone(o)   == upstreamOperation[o] # None /\ upstreamOperation[o].done

(* The process dies and is started again: its memory is empty, the calls   *)
(* it was serving have failed.  Clients keep the names they were given.    *)
Restart ==
  /\ data' = Empty(Digests, <<>>)
  /\ downstreamOperation' = Empty(CacheOps, None)
  /\ upstreamOperation' = Empty(CacheOps, None)
  /\ pc' = Empty(Callers, "idle")
  /\ req' = Empty(Callers, None)
  /\ op' = Empty(Callers, None)
  /\ bop' = Empty(Callers, None)
  /\ snap' = Empty(Callers, <<>>)
  /\ ans' = Empty(Callers, None)
  /\ reply' = Empty(Callers, None)
  /\ lost' = lost \cup Registered
  /\ UNCHANGED handed

(* The call ends with reply rep; its goroutine is gone.                    *)
Return(c, rep) ==
  /\ pc' = [pc EXCEPT ![c] = "idle"]
  /\ reply' = [reply EXCEPT ![c] = rep]
  /\ req' = [req EXCEPT ![c] = None]
  /\ op' = [op EXCEPT ![c] = None]
  /\ bop' = [bop EXCEPT ![c] = None]
  /\ snap' = [snap EXCEPT ![c] = <<>>]
  /\ ans' = [ans EXCEPT ![c] = None]

(* The call moves on; only what the caller of Goto says changes besides.   *)
Goto(c, from, to) ==
  /\ pc[c] = from
  /\ pc' = [pc EXCEPT ![c] = to]

-----------------------------------------------------------------------------
(* Get                                                                     *)

Busy == {c \in Callers : pc[c] # "idle"}
FreshBuilderOps == {b \in BuilderOps : state[b] = "unknown"}

(* Bound of the model: a request is taken only while the builder has names *)
(* left for it and for all the calls being served.                         *)
Room == Cardinality(FreshBuilderOps) > Cardinality(Busy)

(* GetAction fails: the value is not one of the graph it came with.        *)
RejectGet(c) ==
  /\ pc[c] = "idle"
  /\ \E r \in Requests : ~HasAction(r.context, r.value)
  /\ Return(c, None)
  /\ UNCHANGED <<maps, ghosts, builder>>

AcceptGet(c) ==
  /\ Room
  /\ Goto(c, "idle", "createJob")
  /\ \E r \in Requests :
       /\ HasAction(r.context, r.value)
       /\ req' = [req EXCEPT ![c] = r]
  /\ reply' = [reply EXCEPT ![c] = None]
  /\ UNCHANGED <<maps, op, bop, snap, ans, ghosts, builder>>

(* Mutant: the runner's error is returned.                                 *)
CreateJobChecked(c) ==
  /\ pc[c] = "createJob"
  /\ Return(c, None)
  /\ UNCHANGED <<maps, ghosts, builder>>

(* The runner is asked to create a job before the cache is looked up, even *)
(* for a hit.  It is not sent the graph, so its handler panics and it ends *)
(* before it creates one; the error is only logged.                        *)
CreateJob(c) ==
  /\ pc[c] = "createJob"
  /\ pc' = [pc EXCEPT ![c] = IF req[c].skip_caching THEN "build" ELSE "lookup"]
  /\ UNCHANGED <<maps, calls, reply, ghosts, builder>>

(* Mutant: only the same targets will do.                                  *)
CandidatesExact(r) ==
  {i \in DOMAIN data[Digest(r)] : TargetsOf(Action(r)) = TargetsOf(data[Digest(r)][i].action)}

(* The entries of r's bucket whose build has all the targets r wants.      *)
Candidates(r) ==
  {i \in DOMAIN data[Digest(r)] : Compatible(Action(r), data[Digest(r)][i].action)}

(* CacheBackend.Get finds operation o: that of the oldest such entry.      *)
Finds(r, o) ==
  \E i \in Candidates(r) :
    /\ \A j \in Candidates(r) : i <= j
    /\ o = data[Digest(r)][i].operation

HandOut(c, o) == handed' = handed \cup {[op |-> o, req |-> req[c]]}

(* The bucket is read, and what is known of the operation only later.      *)
Find(c) ==
  /\ Goto(c, "lookup", "found")
  /\ HasDigest(Action(req[c]))
  /\ \E o \in CacheOps :
       /\ Finds(req[c], o)
       /\ op' = [op EXCEPT ![c] = o]
  /\ UNCHANGED <<maps, req, bop, snap, ans, reply, ghosts, builder>>

(* A hit on an operation known to be done: its result is sent along.       *)
HitFinished(c) ==
  /\ pc[c] = "found"
  /\ IsDone(op[c])
  /\ Return(c, [name |-> op[c], done |-> TRUE, type |-> "GetResponse",
                image |-> upstreamOperation[op[c]].image])
  /\ HandOut(c, op[c])
  /\ UNCHANGED <<maps, lost, builder>>

(* A hit on any other operation: "done" all the same, with no value.       *)
HitOngoing(c) ==
  /\ pc[c] = "found"
  /\ ~IsDone(op[c])
  /\ Return(c, [name |-> op[c], done |-> TRUE, type |-> "GetResponse", image |-> None])
  /\ HandOut(c, op[c])
  /\ UNCHANGED <<maps, lost, builder>>

Miss(c) ==
  /\ Goto(c, "lookup", "build")
  /\ HasDigest(Action(req[c])) => Candidates(req[c]) = {}
  /\ UNCHANGED <<maps, calls, reply, ghosts, builder>>

(* ActionDigest knows nothing of this kind: the call returns an error.     *)
NoDigest(c) ==
  /\ pc[c] = "build"
  /\ ~HasDigest(Action(req[c]))
  /\ Return(c, None)
  /\ UNCHANGED <<maps, ghosts, builder>>

(* actions.Actions["build"] is nil and so is its Config: a panic, which    *)
(* nothing recovers, ends the process.                                     *)
NoBuildAction(c) ==
  /\ pc[c] = "build"
  /\ HasDigest(Action(req[c]))
  /\ ~HasBuild(req[c].context)
  /\ Restart
  /\ UNCHANGED builder

(* The builder takes the build and names its operation b.                  *)
CallBuilder(c) ==
  /\ Goto(c, "build", "register")
  /\ HasDigest(Action(req[c]))
  /\ HasBuild(req[c].context)
  /\ \E b \in BuilderOps :
       /\ Builder!Start(b, buildImage(Build(req[c].context).config))
       /\ bop' = [bop EXCEPT ![c] = b]
  /\ UNCHANGED <<maps, req, op, snap, ans, reply, ghosts>>

(* The call to the builder fails: its error is overwritten and the nil     *)
(* operation used, another panic.                                          *)
BuilderRefuses(c) ==
  /\ "builder" \in Faults
  /\ pc[c] = "build"
  /\ HasDigest(Action(req[c]))
  /\ HasBuild(req[c].context)
  /\ Restart
  /\ UNCHANGED builder

(* Mutant: the name that goes on is not the name that is tied.             *)
RegisterTwoNames(c) ==
  /\ Goto(c, "register", "append")
  /\ \E o, n \in CacheOps \ (Registered \cup lost) :
       /\ downstreamOperation' = [downstreamOperation EXCEPT ![o] = bop[c]]
       /\ op' = [op EXCEPT ![c] = n]
  /\ UNCHANGED <<data, upstreamOperation, req, bop, snap, ans, reply, ghosts, builder>>

(* Mutant: the builder's operation is read from a variable all calls share. *)
RegisterShared(c) ==
  /\ Goto(c, "register", "append")
  /\ \E o \in CacheOps \ (Registered \cup lost), g \in Callers :
       /\ bop[g] # None
       /\ downstreamOperation' = [downstreamOperation EXCEPT ![o] = bop[g]]
       /\ op' = [op EXCEPT ![c] = o]
  /\ UNCHANGED <<data, upstreamOperation, req, bop, snap, ans, reply, ghosts, builder>>

(* Mutant: names are numbers, and start from the first after a restart.    *)
RegisterNumbered(c) ==
  /\ Goto(c, "register", "append")
  /\ \E o \in CacheOps \ Registered :
       /\ downstreamOperation' = [downstreamOperation EXCEPT ![o] = bop[c]]
       /\ op' = [op EXCEPT ![c] = o]
  /\ UNCHANGED <<data, upstreamOperation, req, bop, snap, ans, reply, ghosts, builder>>

(* A new name is drawn and tied to the builder's operation.                *)
Register(c) ==
  /\ Goto(c, "register", "append")
  /\ \E o \in CacheOps \ (Registered \cup lost) :
       /\ downstreamOperation' = [downstreamOperation EXCEPT ![o] = bop[c]]
       /\ op' = [op EXCEPT ![c] = o]
  /\ UNCHANGED <<data, upstreamOperation, req, bop, snap, ans, reply, ghosts, builder>>

(* Put reads the bucket, appends, and assigns.  Two calls may both have    *)
(* read the bucket before either assigns it.  An entry is written as one   *)
(* value: that two appends fill one slot of a shared backing array, each a *)
(* part of it, is below the grain of the model.                            *)
ReadBucket(c) ==
  /\ Goto(c, "append", "assign")
  /\ snap' = [snap EXCEPT ![c] = data[Digest(req[c])]]
  /\ UNCHANGED <<maps, req, op, bop, ans, reply, ghosts, builder>>

NewEntry(c) == [action |-> Build(req[c].context), operation |-> op[c]]

(* Mutant: the new entry replaces the bucket.                              *)
AssignBucketOnly(c) ==
  /\ pc[c] = "assign"
  /\ data' = [data EXCEPT ![Digest(req[c])] = <<NewEntry(c)>>]
  /\ HandOut(c, op[c])
  /\ Return(c, [name |-> op[c], done |-> FALSE, type |-> "GetResponse", image |-> None])
  /\ UNCHANGED <<downstreamOperation, upstreamOperation, lost, builder>>

AssignBucket(c) ==
  /\ pc[c] = "assign"
  /\ data' = [data EXCEPT ![Digest(req[c])] = Append(snap[c], NewEntry(c))]
  /\ HandOut(c, op[c])
  /\ Return(c, [name |-> op[c], done |-> FALSE, type |-> "GetResponse", image |-> None])
  /\ UNCHANGED <<downstreamOperation, upstreamOperation, lost, builder>>

-----------------------------------------------------------------------------
(* GetOperation                                                            *)

HandedOut == {h.op : h \in handed}   \* the names clients can ask about

(* Known to be done: the builder's operation is returned as it was stored. *)
PollRemembered(c, o) ==
  /\ pc[c] = "idle"
  /\ o \in HandedOut
  /\ IsDone(o)
  /\ Return(c, [name |-> upstreamOperation[o].name, done |-> TRUE, type |-> "BuildResponse",
                image |-> upstreamOperation[o].image])
  /\ UNCHANGED <<maps, ghosts, builder>>

(* The builder has to be asked.                                            *)
PollDownstream(c, o) ==
  /\ o \in HandedOut
  /\ ~IsDone(o)
  /\ downstreamOperation[o] # None
  /\ Goto(c, "idle", "ask")
  /\ op' = [op EXCEPT ![c] = o]
  /\ bop' = [bop EXCEPT ![c] = downstreamOperation[o]]
  /\ reply' = [reply EXCEPT ![c] = None]
  /\ UNCHANGED <<maps, req, snap, ans, ghosts, builder>>

(* A name the service does not know is "done", with no result.             *)
PollUnknown(c, o) ==
  /\ pc[c] = "idle"
  /\ o \in HandedOut
  /\ ~IsDone(o)
  /\ downstreamOperation[o] = None
  /\ Return(c, [name |-> o, done |-> TRUE, type |-> None, image |-> None])
  /\ UNCHANGED <<maps, ghosts, builder>>

(* Mutant: the answer is given the name that was asked for.                *)
BuilderAnswersRenamed(c) ==
  /\ Goto(c, "ask", "store")
  /\ ans' = [ans EXCEPT ![c] = [name |-> op[c], done |-> state[bop[c]] = "done",
                                image |-> result[bop[c]]]]
  /\ UNCHANGED <<maps, req, op, bop, snap, reply, ghosts, builder>>

(* Mutant: one map is taken for the other, and what was known goes on.     *)
BuilderAnswersKnown(c) ==
  /\ Goto(c, "ask", "store")
  /\ ans' = [ans EXCEPT ![c] = [name |-> bop[c], done |-> IsDone(op[c]),
                                image |-> result[bop[c]]]]
  /\ UNCHANGED <<maps, req, op, bop, snap, reply, ghosts, builder>>

(* The builder's answer is formed there and is on its way back.            *)
BuilderAnswers(c) ==
  /\ Goto(c, "ask", "store")
  /\ ans' = [ans EXCEPT ![c] = [name |-> bop[c], done |-> state[bop[c]] = "done",
                                image |-> result[bop[c]]]]
  /\ UNCHANGED <<maps, req, op, bop, snap, reply, ghosts, builder>>

(* No answer: log.Fatal.                                                   *)
BuilderUnreachable(c) ==
  /\ "builder" \in Faults
  /\ pc[c] = "ask"
  /\ Restart
  /\ UNCHANGED builder

(* Mutant: an answer is stored only when there is none.                    *)
StoreFirst(c) ==
  /\ pc[c] = "store"
  /\ upstreamOperation' = IF upstreamOperation[op[c]] # None THEN upstreamOperation
                          ELSE [upstreamOperation EXCEPT ![op[c]] = ans[c]]
  /\ Return(c, [name |-> op[c], done |-> ans[c].done, type |-> "GetResponse",
                image |-> ans[c].image])
  /\ UNCHANGED <<data, downstreamOperation, ghosts, builder>>

(* Mutant: the answer is read from a variable all calls share.             *)
StoreShared(c) ==
  /\ pc[c] = "store"
  /\ \E g \in Callers :
       /\ ans[g] # None
       /\ upstreamOperation' = [upstreamOperation EXCEPT ![op[c]] = ans[g]]
       /\ Return(c, [name |-> op[c], done |-> ans[g].done, type |-> "GetResponse",
                     image |-> ans[g].image])
  /\ UNCHANGED <<data, downstreamOperation, ghosts, builder>>

(* The answer is stored, whatever was stored before, and passed on.        *)
Store(c) ==
  /\ pc[c] = "store"
  /\ upstreamOperation' = [upstreamOperation EXCEPT ![op[c]] = ans[c]]
  /\ Return(c, [name |-> op[c], done |-> ans[c].done, type |-> "GetResponse",
                image |-> ans[c].image])
  /\ UNCHANGED <<data, downstreamOperation, ghosts, builder>>

-----------------------------------------------------------------------------
(* The process may be killed at any moment (deploy, out of memory, the     *)
(* runtime's "concurrent map writes").                                     *)
Crash ==
  /\ "crash" \in Faults
  /\ Restart
  /\ UNCHANGED builder

(* The builder finishes a build, on its own time, perhaps again.           *)
BuilderFinishes(b) ==
  /\ \E r \in ImagesOf(b) : Builder!Finish(b, r)
  /\ UNCHANGED <<maps, pc, calls, reply, ghosts>>

BuilderForgets ==
  /\ "forgets" \in Faults
  /\ Builder!Forget
  /\ UNCHANGED <<maps, pc, calls, reply, ghosts>>

GetStep(c) ==
  \/ CreateJob(c) \/ Find(c) \/ HitFinished(c) \/ HitOngoing(c) \/ Miss(c) \/ NoDigest(c)
  \/ NoBuildAction(c) \/ CallBuilder(c) \/ BuilderRefuses(c)
  \/ Register(c) \/ ReadBucket(c) \/ AssignBucket(c)

GetOperationStep(c) == BuilderAnswers(c) \/ BuilderUnreachable(c) \/ Store(c)

Poll(c, o) == PollRemembered(c, o) \/ PollDownstream(c, o) \/ PollUnknown(c, o)

Next ==
  \/ \E c \in Callers : \/ RejectGet(c) \/ AcceptGet(c) \/ GetStep(c) \/ GetOperationStep(c)
                        \/ \E o \in CacheOps : Poll(c, o)
  \/ \E b \in BuilderOps : BuilderFinishes(b)
  \/ BuilderForgets
  \/ Crash

Spec == Init /\ [][Next]_vars

(* Goroutines run and the services they call answer: every step of a call  *)
(* in progress is taken, and the builder's builds end.  While an operation *)
(* is not remembered as done, the client that was last told so asks again  *)
(* (evalctl's loop).  It finds a free call slot again and again, but not   *)
(* always: the slots are the model's, so polls are strongly fair.          *)
Fairness ==
  /\ \A c \in Callers : WF_vars(GetStep(c)) /\ WF_vars(GetOperationStep(c))
  /\ \A o \in CacheOps : SF_vars(\E c \in Callers : PollDownstream(c, o))
  /\ \A b \in BuilderOps : WF_vars(BuilderFinishes(b))

FairSpec == Spec /\ Fairness
=============================================================================
