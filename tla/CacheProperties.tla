-------------------------- MODULE CacheProperties --------------------------
(***************************************************************************)
(* What the cache service has to get right, and the inductive invariant    *)
(* behind it.                                                              *)
(***************************************************************************)
EXTENDS CacheService

(* Build b, if it is known, was started for the commit that request r      *)
(* wants and has all the targets that r wants.                             *)
Serves(b, r) ==
  /\ state[b] # "unknown"
  /\ work[b].commit_point = Action(r).config.commit_point
  /\ Action(r).config.bazel_targets \subseteq work[b].target

(* The operation handed out for a request can be resolved: the service     *)
(* knows which build of the builder is behind it, for as long as it runs.  *)
(* Get hands a name out only after it is in downstreamOperation, and a hit *)
(* hands out names found in a bucket; without the entry GetOperation       *)
(* would say "done" with no result.                                        *)
HandedOutResolves ==
  \A h \in handed : downstreamOperation[h.op] # None \/ h.op \in lost

(* Whatever mix of hits, misses, lost entries and restarts led to it, the  *)
(* operation a client was given for a request is a build of the commit and *)
(* of (at least) the targets of that request.                              *)
ServesRequest ==
  \A h \in handed :
    downstreamOperation[h.op] # None => Serves(downstreamOperation[h.op], h.req)

(* Any image the service sends is one of the build behind the operation    *)
(* named in the reply: answers that cross between the store in             *)
(* upstreamOperation and a hit or a poll are never mixed up.               *)
ImageBelongsToOperation ==
  \A c \in Callers :
    reply[c] # None /\ reply[c].image # None =>
      \/ /\ reply[c].name \in CacheOps
         /\ downstreamOperation[reply[c].name] # None
         /\ reply[c].image \in ImagesOf(downstreamOperation[reply[c].name])
      \/ /\ reply[c].name \in BuilderOps
         /\ reply[c].image \in ImagesOf(reply[c].name)

-----------------------------------------------------------------------------
(* With one call at a time and no restart.                                 *)

(* Every operation handed out stays in the bucket of the requests it was   *)
(* handed out for: Put adds to the bucket and keeps what is there.         *)
EntriesKept ==
  \A h \in handed :
    \E i \in DOMAIN data[Digest(h.req)] : data[Digest(h.req)][i].operation = h.op

(* The service never builds what it has: an entry that an older entry of   *)
(* the bucket covers was asked for with skip_caching.                      *)
NoRedundantEntry ==
  \A d \in Digests : \A i, j \in DOMAIN data[d] :
    i < j /\ Compatible(data[d][j].action, data[d][i].action) =>
      \E h \in handed : h.op = data[d][j].operation /\ h.req.skip_caching

(* The service implements the long-running operations of the API: an       *)
(* operation is pending when registered and gets its result, once, when a  *)
(* done answer of the builder is stored.                                   *)
ServedAs(o) == CASE IsDone(o) -> "done"
                 [] o \in Registered /\ ~IsDone(o) -> "pending"
                 [] OTHER -> "unknown"

ServedFor(o)   == IF o \in Registered THEN work[downstreamOperation[o]] ELSE None
ServedImage(o) == IF IsDone(o) THEN upstreamOperation[o].image ELSE None

Served == INSTANCE Operations WITH
  Names  <- CacheOps, Works <- BuildRequests, Results <- Images,
  state  <- [o \in CacheOps |-> ServedAs(o)],
  work   <- [o \in CacheOps |-> ServedFor(o)],
  result <- [o \in CacheOps |-> ServedImage(o)]

ImplementsSequentially == Served!OpSpec

-----------------------------------------------------------------------------
(* The cache as the engine sees it.                                        *)

(* What operation o was given out for: the request of the Get that made it *)
(* has all the targets of those that found it.                             *)
AskedFor(o) ==
  IF o \notin HandedOut THEN None
  ELSE buildImage(Action((CHOOSE h \in handed :
         /\ h.op = o
         /\ \A k \in handed : k.op = o => Compatible(Action(k.req), Action(h.req))).req).config)

(* What is known of it.                                                    *)
CachedAs(o) == CASE o \notin HandedOut -> "unknown"
                 [] o \in HandedOut /\ downstreamOperation[o] = None -> "lost"
                 [] OTHER -> IF IsDone(o) THEN "done" ELSE "pending"

Promised == INSTANCE CachePromise WITH
  Names  <- CacheOps, Wanted <- BuildRequests,
  asked  <- [o \in CacheOps |-> AskedFor(o)],
  cached <- [o \in CacheOps |-> CachedAs(o)]

(* With any calls at a time, entries lost from the buckets, late answers   *)
(* and restarts of either service, names keep their meaning.               *)
ImplementsPromise == Promised!PromiseSpec

(* What the engine takes a reply to say about the operation in it.  Sent   *)
(* with a GetResponse, it is pending, or done if its image comes along;    *)
(* the builder's own message is that of an operation known to be done; no  *)
(* result is that of a name that was lost.                                 *)
TellsWhatIsKnown(rep) ==
  \/ /\ rep.type = "GetResponse"
     /\ CachedAs(rep.name) = IF rep.done /\ rep.image # None THEN "done" ELSE "pending"
  \/ /\ rep.type = "BuildResponse" /\ rep.done
     /\ \E o \in HandedOut : downstreamOperation[o] = rep.name /\ CachedAs(o) = "done"
  \/ rep.type = None /\ rep.done /\ CachedAs(rep.name) = "lost"

(* Operation o was given out for a build that is good for request r.       *)
GivenFor(o, r) ==
  /\ AskedFor(o).commit_point = Action(r).config.commit_point
  /\ Action(r).config.bazel_targets \subseteq AskedFor(o).target

(* A reply is true when it is given, although what it tells was read some  *)
(* time after the bucket was, and stored some time after it was asked for. *)
(* One to a Get is about an operation given out for a build that is good   *)
(* for the request: right now if it is not done.                           *)
RepliesTellWhatIsKnown ==
  [][\A c \in Callers : \A rep \in {reply'[c]} \ {reply[c], None} :
       /\ TellsWhatIsKnown(rep)'
       /\ pc[c] \in {"found", "assign"} =>
            /\ \A r \in {req[c]} : GivenFor(rep.name, r)'
            /\ rep.done \/ CachedAs(rep.name) = "unknown"]_vars

-----------------------------------------------------------------------------
(* Liveness, without faults.                                               *)

(* A handed out operation is eventually done for good, although a late     *)
(* answer of the builder can overwrite a newer one in upstreamOperation.   *)
EventuallyDoneForGood ==
  \A o \in CacheOps : o \in HandedOut ~> []IsDone(o)

(* The build behind operation o has ended; the calls that still carry an   *)
(* answer from before its end.                                             *)
Over(o) == downstreamOperation[o] # None /\ state[downstreamOperation[o]] = "done"
Late(o) == {c \in Callers : pc[c] = "store" /\ op[c] = o /\ ~ans[c].done}

(* Why it is for good, as long as neither service is restarted: once the   *)
(* build has ended, or the service knows that it has, no call sets out     *)
(* with an answer that says otherwise, and each time the service forgets   *)
(* it, there is one such call less.                                        *)
LateAnswersRunOut ==
  [][\A o \in CacheOps : downstreamOperation'[o] # None =>
       /\ Over(o) \/ IsDone(o) => Late(o)' \subseteq Late(o)
       /\ IsDone(o) /\ ~IsDone(o)' => Late(o)' # Late(o)]_vars

(* Every Get of a value that can be built is answered with an operation,   *)
(* although the runner is asked first and cannot create its job.           *)
GetAnswered ==
  \A c \in Callers : pc[c] = "createJob" ~> reply[c] # None /\ reply[c].type = "GetResponse"

-----------------------------------------------------------------------------
(* What the code's comments and callers expect, and the code does not do.  *)

(* "The last we know for an upstream operation": once an operation is      *)
(* known to be done, that is not forgotten.  GetOperation stores what it   *)
(* receives even when a later answer was stored while it waited.           *)
DoneNotForgotten == [][\A o \in CacheOps : IsDone(o) => IsDone(o)']_vars

(* The engine unmarshals the result of every done operation of the cache   *)
(* as a GetResponse, and exits if it is anything else.                     *)
DoneHasGetResponse ==
  \A c \in Callers : reply[c] # None /\ reply[c].done => reply[c].type = "GetResponse"

-----------------------------------------------------------------------------
(* The inductive invariant.                                                *)

(* Operation o is tied to a build that the builder has been asked for.     *)
Tied(o) ==
  /\ downstreamOperation[o] # None
  /\ state[downstreamOperation[o]] # "unknown"

GoodEntry(d, e) ==
  /\ e.action.kind = "build-image"
  /\ ActionDigest(e.action) = d
  /\ Tied(e.operation)
  /\ work[downstreamOperation[e.operation]] = buildImage(e.action.config)

BuilderOK == \A b \in BuilderOps : result[b] # None => result[b] \in ImagesOf(b)

DownstreamOK == \A o \in CacheOps : downstreamOperation[o] # None => Tied(o)

DataOK == \A d \in Digests : \A i \in DOMAIN data[d] : GoodEntry(d, data[d][i])

UpstreamOK ==
  \A o \in CacheOps : upstreamOperation[o] # None =>
    /\ downstreamOperation[o] = upstreamOperation[o].name
    /\ upstreamOperation[o].image # None =>
         upstreamOperation[o].image \in ImagesOf(upstreamOperation[o].name)

(* A call of Get has its request.  What a lookup found serves it.  From    *)
(* the builder's answer on, that build is the one the request describes;   *)
(* once registered, it is found through the call's own name.               *)
GetOK(c) ==
  /\ pc[c] \in {"createJob", "lookup", "found", "build", "register", "append", "assign"} =>
       /\ req[c] \in Requests
       /\ HasAction(req[c].context, req[c].value)
  /\ pc[c] = "found" =>
       /\ op[c] \in CacheOps
       /\ downstreamOperation[op[c]] # None
       /\ Serves(downstreamOperation[op[c]], req[c])
       /\ Action(req[c]).kind = "build-image"
  /\ pc[c] \in {"register", "append", "assign"} =>
       /\ HasDigest(Action(req[c]))
       /\ HasBuild(req[c].context)
       /\ bop[c] \in BuilderOps
       /\ state[bop[c]] # "unknown"
       /\ work[bop[c]] = buildImage(Build(req[c].context).config)
  /\ pc[c] \in {"append", "assign"} =>
       /\ op[c] \in CacheOps
       /\ downstreamOperation[op[c]] = bop[c]
  /\ pc[c] = "assign" =>
       \A i \in DOMAIN snap[c] : GoodEntry(Digest(req[c]), snap[c][i])

(* A call of GetOperation asks for the build behind its operation, and the *)
(* answer it holds is that build's.                                        *)
GetOperationOK(c) ==
  /\ pc[c] \in {"ask", "store"} =>
       /\ op[c] \in CacheOps
       /\ bop[c] \in BuilderOps
       /\ downstreamOperation[op[c]] = bop[c]
  /\ pc[c] = "store" =>
       /\ ans[c] \in Answers
       /\ ans[c].name = bop[c]
       /\ ans[c].image # None => ans[c].image \in ImagesOf(bop[c])

CallsOK == \A c \in Callers : GetOK(c) /\ GetOperationOK(c)

(* ServesRequest needs to know that buckets hold builds of their own       *)
(* digest, which needs each call in the middle of Put to hold such a       *)
(* snapshot and such a build; ImageBelongsToOperation needs stored and     *)
(* travelling answers to be those of the build they are filed under.       *)
IInv ==
  /\ TypeOK
  /\ BuilderOK /\ DownstreamOK /\ DataOK /\ UpstreamOK /\ CallsOK
  /\ HandedOutResolves /\ ServesRequest /\ ImageBelongsToOperation

(* LateAnswersRunOut needs to know that what is said to be over is over,   *)
(* as it is with a builder that does not forget.                           *)
SaidIsOver ==
  /\ \A c \in Callers : pc[c] = "store" /\ ans[c].done => state[bop[c]] = "done"
  /\ \A o \in CacheOps : IsDone(o) => Over(o)

(* The inductive invariant behind EntriesKept and NoRedundantEntry.        *)

(* What the only call knows of its bucket stays true until it uses it.     *)
Undisturbed ==
  \A c \in Callers :
    /\ pc[c] = "found" =>
         \E i \in DOMAIN data[Digest(req[c])] : data[Digest(req[c])][i].operation = op[c]
    /\ pc[c] \in {"build", "register", "append", "assign"} =>
         req[c].skip_caching \/ (HasDigest(Action(req[c])) => Candidates(req[c]) = {})
    /\ pc[c] = "assign" => snap[c] = data[Digest(req[c])]

SequentialInv ==
  /\ IInv
  /\ Undisturbed
  /\ \A h \in handed : Digest(h.req) \in Digests
  /\ EntriesKept
  /\ NoRedundantEntry

(* What is needed besides for ImplementsSequentially: the only call asks   *)
(* the builder about what is not known to be done, and a done answer has   *)
(* an image.                                                               *)
AnswersOK ==
  /\ \A b \in BuilderOps : state[b] = "done" => result[b] \in Images
  /\ \A c \in Callers :
       /\ pc[c] \in {"ask", "store"} => ~IsDone(op[c])
       /\ pc[c] = "store" /\ ans[c].done => ans[c].image \in Images

(* The inductive invariant behind ImplementsPromise and ServesCommandLine. *)

(* Operations are handed out for image builds only, and what the buckets,  *)
(* the stored answers, the hits and the calls of GetOperation are about    *)
(* was handed out.                                                         *)
HandedOutOK ==
  /\ \A h \in handed : HasAction(h.req.context, h.req.value) /\ Action(h.req).kind = "build-image"
  /\ \A d \in Digests : \A i \in DOMAIN data[d] : data[d][i].operation \in HandedOut
  /\ \A c \in Callers : \A i \in DOMAIN snap[c] : snap[c][i].operation \in HandedOut
  /\ \A o \in CacheOps : upstreamOperation[o] # None => o \in HandedOut
  /\ \A c \in Callers : pc[c] \in {"found", "ask", "store"} => op[c] \in HandedOut

(* A name that a Get has drawn is its own until it is handed out.          *)
NamesFresh ==
  \A c \in Callers : pc[c] \in {"append", "assign"} =>
    /\ op[c] \notin HandedOut
    /\ \A g \in Callers : pc[g] \in {"append", "assign"} /\ op[g] = op[c] => g = c

(* Operation o was handed out for x, and for requests that x serves.       *)
HandedOutFor(o, x) ==
  /\ \E h \in handed : h.op = o /\ buildImage(Action(h.req).config) = x
  /\ \A h \in handed : h.op = o =>
       /\ Action(h.req).config.commit_point = x.commit_point
       /\ Action(h.req).config.bazel_targets \subseteq x.target
  /\ downstreamOperation[o] # None => work[downstreamOperation[o]] = x

PromiseInv ==
  /\ IInv
  /\ HandedOutOK
  /\ NamesFresh
  /\ \A o \in HandedOut : \E x \in BuildRequests : HandedOutFor(o, x)

(* What is needed besides for RepliesTellWhatIsKnown: wherever an answer   *)
(* of the builder is, it is done if and only if it has an image, which may *)
(* be the empty one.                                                       *)
Whole(answer) == answer.done <=> answer.image # None

RepliesInv ==
  /\ PromiseInv
  /\ \A b \in BuilderOps : state[b] = "done" <=> result[b] # None
  /\ \A c \in Callers : pc[c] = "store" => Whole(ans[c])
  /\ \A o \in CacheOps : upstreamOperation[o] # None => Whole(upstreamOperation[o])
=============================================================================
