------------------------- MODULE CachePromiseProofs -------------------------
(***************************************************************************)
(* The cache keeps its promise about names: CacheService implements        *)
(* CachePromise, for any calls, requests and names, and all faults, and    *)
(* its replies tell what is known of the names in them.                    *)
(***************************************************************************)
EXTENDS CacheProofs

(* What AskedFor chooses is what the operation was handed out for.         *)
AskedOK ==
  \A o \in HandedOut : \A x \in BuildRequests : HandedOutFor(o, x) => AskedFor(o) = x

LEMMA AskedForIs == PromiseInv => AskedOK
<1>. SUFFICES ASSUME PromiseInv, NEW o \in HandedOut, NEW x \in BuildRequests, HandedOutFor(o, x)
              PROVE  AskedFor(o) = x
  BY DEF AskedOK
<1> DEFINE Top(h) == /\ h.op = o
                     /\ \A k \in handed : k.op = o => Compatible(Action(k.req), Action(h.req))
<1>1. \A h \in handed : h.op = o =>
        /\ TargetsOf(Action(h.req)) = Action(h.req).config.bazel_targets
        /\ Action(h.req).config.commit_point = x.commit_point
        /\ Action(h.req).config.bazel_targets \subseteq x.target
  BY DEF PromiseInv, HandedOutOK, HandedOutFor, TargetsOf
<1>2. PICK g \in handed : g.op = o /\ buildImage(Action(g.req).config) = x
  BY DEF HandedOutFor
<1>3. Action(g.req).config.bazel_targets = x.target
  BY <1>2 DEF buildImage
<1>4. Top(g)
  BY <1>1, <1>2, <1>3 DEF Compatible
<1>5. PICK h : h = CHOOSE k \in handed : Top(k)
  OBVIOUS
<1>6. h \in handed /\ Top(h)
  BY <1>2, <1>4, <1>5
<1>7. x.target \subseteq Action(h.req).config.bazel_targets
  BY <1>1, <1>2, <1>3, <1>6 DEF Compatible
<1>8. buildImage(Action(h.req).config) = x
  BY <1>1, <1>2, <1>3, <1>6, <1>7 DEF buildImage
<1>. QED  BY <1>5, <1>8 DEF AskedFor

-----------------------------------------------------------------------------
(* What no step changes: what a name was handed out for.                   *)
SameNames ==
  \A o \in HandedOut : \A x \in BuildRequests : HandedOutFor(o, x) => HandedOutFor(o, x)'

(* A step that hands nothing out, and gives no build to a name that was.   *)
LEMMA NothingNew ==
  ASSUME PromiseInv, IInv', handed' = handed,
         \A o \in HandedOut : downstreamOperation'[o] # None =>
           /\ downstreamOperation'[o] = downstreamOperation[o]
           /\ work'[downstreamOperation[o]] = work[downstreamOperation[o]],
         \A d \in Digests : \A i \in DOMAIN data'[d] : data'[d][i].operation \in HandedOut,
         \A c \in Callers : \A i \in DOMAIN snap'[c] : snap'[c][i].operation \in HandedOut,
         \A o \in CacheOps : upstreamOperation'[o] # None => o \in HandedOut,
         \A c \in Callers : pc'[c] \in {"found", "ask", "store"} => op'[c] \in HandedOut,
         NamesFresh'
  PROVE  PromiseInv' /\ SameNames
<1>1. HandedOut' = HandedOut
  BY DEF HandedOut
<1>2. SameNames
  BY DEF SameNames, HandedOutFor, Action
<1>3. HandedOutOK'
  BY <1>1 DEF PromiseInv, HandedOutOK, Action
<1>4. \A o \in HandedOut' : \E x \in BuildRequests : HandedOutFor(o, x)'
  BY <1>1, <1>2 DEF PromiseInv, SameNames
<1>. QED  BY <1>2, <1>3, <1>4 DEF PromiseInv

LEMMA FreshStays ==
  ASSUME PromiseInv, handed' = handed,
         \A c \in Callers : pc'[c] \in {"append", "assign"} =>
           pc[c] \in {"append", "assign"} /\ op'[c] = op[c]
  PROVE  NamesFresh'
BY DEF PromiseInv, NamesFresh, HandedOut

(* A name that was handed out is tied to a build that was asked for.       *)
LEMMA HandedOutTied ==
  ASSUME IInv, NEW o \in HandedOut, downstreamOperation[o] # None
  PROVE  /\ o \in CacheOps /\ downstreamOperation[o] \in BuilderOps
         /\ state[downstreamOperation[o]] # "unknown"
<1>1. o \in CacheOps
  BY DEF HandedOut, IInv, TypeOK
<1>. QED  BY <1>1 DEF IInv, TypeOK, DownstreamOK, Tied

(* A step of call c that leaves the maps alone.                            *)
LEMMA CallMoves ==
  ASSUME PromiseInv, IInv', NEW c \in Callers, UNCHANGED <<maps, ghosts>>,
         \A b \in BuilderOps : state[b] # "unknown" => work'[b] = work[b],
         \A g \in Callers \ {c} : pc'[g] = pc[g] /\ op'[g] = op[g] /\ snap'[g] = snap[g],
         \A i \in DOMAIN snap'[c] : snap'[c][i].operation \in HandedOut,
         pc'[c] \in {"append", "assign"} => pc[c] \in {"append", "assign"} /\ op'[c] = op[c],
         pc'[c] \in {"found", "ask", "store"} => op'[c] \in HandedOut
  PROVE  PromiseInv' /\ SameNames
<1>1. NamesFresh'
  BY FreshStays DEF ghosts
<1>2. \A o \in HandedOut : downstreamOperation'[o] # None =>
        /\ downstreamOperation'[o] = downstreamOperation[o]
        /\ work'[downstreamOperation[o]] = work[downstreamOperation[o]]
  BY HandedOutTied DEF PromiseInv, maps
<1>3. \A g \in Callers : pc'[g] \in {"found", "ask", "store"} => op'[g] \in HandedOut
  BY DEF PromiseInv, HandedOutOK
<1>4. \A g \in Callers : \A i \in DOMAIN snap'[g] : snap'[g][i].operation \in HandedOut
  BY DEF PromiseInv, HandedOutOK
<1>5. /\ \A d \in Digests : \A i \in DOMAIN data'[d] : data'[d][i].operation \in HandedOut
      /\ \A o \in CacheOps : upstreamOperation'[o] # None => o \in HandedOut
  BY DEF PromiseInv, HandedOutOK, maps
<1>. QED  BY <1>1, <1>2, <1>3, <1>4, <1>5, NothingNew DEF ghosts

LEMMA QuietMoves ==
  ASSUME PromiseInv, IInv', NEW c \in Callers,
         \/ RejectGet(c) \/ AcceptGet(c) \/ CreateJob(c) \/ Miss(c) \/ NoDigest(c)
         \/ Find(c) \/ CallBuilder(c) \/ ReadBucket(c) \/ BuilderAnswers(c)
         \/ \E o \in CacheOps : Poll(c, o)
  PROVE  PromiseInv' /\ SameNames
<1>0. TypeOK /\ IInv /\ HandedOutOK
  BY DEF PromiseInv, IInv
<1>1. CASE RejectGet(c) \/ NoDigest(c) \/ \E o \in CacheOps : PollRemembered(c, o) \/ PollUnknown(c, o)
  <2>1. UNCHANGED <<maps, ghosts, builder>> /\ \E rep : Return(c, rep)
    BY <1>1 DEF RejectGet, NoDigest, PollRemembered, PollUnknown
  <2>2. /\ pc'[c] = "idle" /\ snap'[c] = <<>>
        /\ \A g \in Callers \ {c} : pc'[g] = pc[g] /\ op'[g] = op[g] /\ snap'[g] = snap[g]
    BY <1>0, <2>1 DEF TypeOK, Return
  <2>. QED  BY <2>1, <2>2, CallMoves DEF builder
<1>2. CASE AcceptGet(c) \/ CreateJob(c) \/ Miss(c)
  <2>1. UNCHANGED <<maps, ghosts, builder, op, snap>>
    BY <1>2 DEF AcceptGet, CreateJob, Miss, calls
  <2>2. /\ pc'[c] \in {"createJob", "build", "lookup"}
        /\ \A g \in Callers \ {c} : pc'[g] = pc[g]
    BY <1>0, <1>2 DEF TypeOK, AcceptGet, CreateJob, Miss, Goto
  <2>3. \A i \in DOMAIN snap'[c] : snap'[c][i].operation \in HandedOut
    BY <1>0, <2>1 DEF HandedOutOK
  <2>. QED  BY <2>1, <2>2, <2>3, CallMoves DEF builder
<1>3. CASE CallBuilder(c)
  <2>1. /\ UNCHANGED <<maps, ghosts, op, snap>>
        /\ \A b \in BuilderOps : state[b] # "unknown" => work'[b] = work[b]
    BY <1>0, <1>3 DEF CallBuilder, Builder!Start, TypeOK, Builder!OpTypeOK
  <2>2. pc'[c] = "register" /\ \A g \in Callers \ {c} : pc'[g] = pc[g]
    BY <1>0, <1>3 DEF TypeOK, CallBuilder, Goto
  <2>3. \A i \in DOMAIN snap'[c] : snap'[c][i].operation \in HandedOut
    BY <1>0, <2>1 DEF HandedOutOK
  <2>. QED  BY <2>1, <2>2, <2>3, CallMoves
<1>4. CASE ReadBucket(c)
  <2>1. /\ UNCHANGED <<maps, ghosts, builder, op>>
        /\ snap' = [snap EXCEPT ![c] = data[Digest(req[c])]] /\ pc[c] = "append"
    BY <1>4 DEF ReadBucket, Goto
  <2>2. pc'[c] = "assign" /\ \A g \in Callers \ {c} : pc'[g] = pc[g]
    BY <1>0, <1>4 DEF TypeOK, ReadBucket, Goto
  <2>3. Digest(req[c]) \in Digests
    BY <1>0, <2>1, RequestedBuild, DigestType DEF IInv, CallsOK, GetOK, Digest
  <2>4. \A i \in DOMAIN snap'[c] : snap'[c][i].operation \in HandedOut
    BY <1>0, <2>1, <2>3 DEF HandedOutOK, TypeOK
  <2>5. \A g \in Callers \ {c} : snap'[g] = snap[g]
    BY <1>0, <2>1 DEF TypeOK
  <2>. QED  BY <2>1, <2>2, <2>4, <2>5, CallMoves DEF builder
<1>5. CASE BuilderAnswers(c)
  <2>1. UNCHANGED <<maps, ghosts, builder, op, snap>> /\ pc[c] = "ask"
    BY <1>5 DEF BuilderAnswers, Goto
  <2>2. pc'[c] = "store" /\ \A g \in Callers \ {c} : pc'[g] = pc[g]
    BY <1>0, <1>5 DEF TypeOK, BuilderAnswers, Goto
  <2>3. /\ \A i \in DOMAIN snap'[c] : snap'[c][i].operation \in HandedOut
        /\ op'[c] \in HandedOut
    BY <1>0, <2>1 DEF HandedOutOK
  <2>. QED  BY <2>1, <2>2, <2>3, CallMoves DEF builder
<1>6. ASSUME NEW o \in CacheOps, PollDownstream(c, o) PROVE PromiseInv' /\ SameNames
  <2>1. UNCHANGED <<maps, ghosts, builder, snap>> /\ o \in HandedOut
    BY <1>6 DEF PollDownstream
  <2>2. /\ pc'[c] = "ask" /\ op'[c] = o
        /\ \A g \in Callers \ {c} : pc'[g] = pc[g] /\ op'[g] = op[g]
    BY <1>0, <1>6 DEF TypeOK, PollDownstream, Goto
  <2>3. \A i \in DOMAIN snap'[c] : snap'[c][i].operation \in HandedOut
    BY <1>0, <2>1 DEF HandedOutOK
  <2>. QED  BY <2>1, <2>2, <2>3, CallMoves DEF builder
<1>7. CASE Find(c)
  <2>1. UNCHANGED <<maps, ghosts, builder, snap>> /\ pc[c] = "lookup"
    BY <1>7 DEF Find, Goto
  <2>2. PICK o \in CacheOps : Finds(req[c], o) /\ op' = [op EXCEPT ![c] = o]
    BY <1>7 DEF Find
  <2>3. /\ pc'[c] = "found" /\ op'[c] = o
        /\ \A g \in Callers \ {c} : pc'[g] = pc[g] /\ op'[g] = op[g]
    BY <1>0, <1>7, <2>2 DEF TypeOK, Find, Goto
  <2>4. Digest(req[c]) \in Digests
    BY <1>0, <1>7, <2>1, RequestedBuild, DigestType DEF Find, IInv, CallsOK, GetOK, Digest
  <2>5. /\ o \in HandedOut
        /\ \A i \in DOMAIN snap'[c] : snap'[c][i].operation \in HandedOut
    BY <1>0, <2>1, <2>2, <2>4 DEF HandedOutOK, Finds, Candidates
  <2>. QED  BY <2>1, <2>3, <2>5, CallMoves DEF builder
<1>. QED  BY <1>1, <1>2, <1>3, <1>4, <1>5, <1>6, <1>7 DEF Poll

(* A call draws a name that nobody has, or had.                            *)
LEMMA RegisterMoves ==
  ASSUME PromiseInv, IInv', NEW c \in Callers, Register(c)
  PROVE  PromiseInv' /\ SameNames
<1>0. TypeOK /\ IInv /\ HandedOutOK
  BY DEF PromiseInv, IInv
<1>1. PICK o \in CacheOps \ (Registered \cup lost) :
        /\ downstreamOperation' = [downstreamOperation EXCEPT ![o] = bop[c]]
        /\ op' = [op EXCEPT ![c] = o]
  BY DEF Register
<1>2. /\ pc' = [pc EXCEPT ![c] = "append"] /\ pc[c] = "register"
      /\ UNCHANGED <<data, upstreamOperation, snap, ghosts, builder>>
  BY DEF Register, Goto
<1>3. o \notin HandedOut /\ downstreamOperation[o] = None
  BY <1>0, <1>1 DEF IInv, HandedOutResolves, HandedOut, Registered
<1>4. NamesFresh'
  <2>1. HandedOut' = HandedOut
    BY <1>2 DEF HandedOut, ghosts
  <2>2. \A g \in Callers : pc[g] \in {"append", "assign"} => op[g] # o
    BY <1>0, <1>3, NamesAssumption DEF IInv, CallsOK, GetOK
  <2>3. ASSUME NEW g \in Callers, pc'[g] \in {"append", "assign"}
        PROVE  \/ g = c /\ op'[g] = o
               \/ g # c /\ pc[g] \in {"append", "assign"} /\ op'[g] = op[g]
    BY <1>0, <1>1, <1>2, <2>3 DEF TypeOK
  <2>. QED  BY <1>0, <1>3, <2>1, <2>2, <2>3 DEF PromiseInv, NamesFresh
<1>5. \A q \in HandedOut : downstreamOperation'[q] # None =>
        /\ downstreamOperation'[q] = downstreamOperation[q]
        /\ work'[downstreamOperation[q]] = work[downstreamOperation[q]]
  BY <1>0, <1>1, <1>2, <1>3, HandedOutTied DEF TypeOK, HandedOut, builder
<1>6. \A g \in Callers : pc'[g] \in {"found", "ask", "store"} => op'[g] \in HandedOut
  BY <1>0, <1>1, <1>2 DEF TypeOK, HandedOutOK
<1>. QED  BY <1>0, <1>2, <1>4, <1>5, <1>6, NothingNew DEF HandedOutOK, ghosts

(* An answer is stored for a name that was handed out.                     *)
LEMMA StoreMoves ==
  ASSUME PromiseInv, IInv', NEW c \in Callers, Store(c)
  PROVE  PromiseInv' /\ SameNames
<1>0. TypeOK /\ IInv /\ HandedOutOK
  BY DEF PromiseInv, IInv
<1>1. /\ upstreamOperation' = [upstreamOperation EXCEPT ![op[c]] = ans[c]]
      /\ op[c] \in HandedOut
      /\ UNCHANGED <<data, downstreamOperation, ghosts, builder>>
      /\ \E rep : Return(c, rep)
  BY <1>0 DEF Store, HandedOutOK
<1>2. /\ pc'[c] = "idle" /\ snap'[c] = <<>>
      /\ \A g \in Callers \ {c} : pc'[g] = pc[g] /\ op'[g] = op[g] /\ snap'[g] = snap[g]
  BY <1>0, <1>1 DEF TypeOK, Return
<1>3. NamesFresh'
  <2>1. \A g \in Callers : pc'[g] \in {"append", "assign"} =>
          pc[g] \in {"append", "assign"} /\ op'[g] = op[g]
    BY <1>2
  <2>. QED  BY <1>1, <2>1, FreshStays DEF ghosts
<1>4. \A o \in CacheOps : upstreamOperation'[o] # None => o \in HandedOut
  BY <1>0, <1>1 DEF TypeOK, HandedOutOK
<1>5. \A g \in Callers : \A i \in DOMAIN snap'[g] : snap'[g][i].operation \in HandedOut
  BY <1>0, <1>2 DEF HandedOutOK
<1>6. \A g \in Callers : pc'[g] \in {"found", "ask", "store"} => op'[g] \in HandedOut
  BY <1>0, <1>2 DEF HandedOutOK
<1>. QED  BY <1>0, <1>1, <1>3, <1>4, <1>5, <1>6, NothingNew DEF HandedOutOK, ghosts, builder

(* A restart loses the builds behind the names, not what they were for.    *)
LEMMA RestartMoves ==
  ASSUME PromiseInv, IInv', Restart
  PROVE  PromiseInv' /\ SameNames
<1>. USE DEF Restart, Empty
<1>1. \A o \in HandedOut : o \in CacheOps
  BY DEF PromiseInv, IInv, TypeOK, HandedOut
<1>2. NamesFresh'
  BY DEF NamesFresh
<1>. QED  BY <1>1, <1>2, NothingNew

(* The builder's own steps.                                                *)
LEMMA BuilderMoves ==
  ASSUME PromiseInv, IInv', UNCHANGED <<maps, pc, calls, ghosts, work>>
  PROVE  PromiseInv' /\ SameNames
<1>1. NamesFresh'
  BY FreshStays DEF calls, ghosts
<1>. QED  BY <1>1, NothingNew DEF PromiseInv, HandedOutOK, maps, calls, ghosts

(* A hit: the name was handed out before, for what serves this request.    *)
LEMMA HitMoves ==
  ASSUME PromiseInv, IInv', NEW c \in Callers, HitFinished(c) \/ HitOngoing(c)
  PROVE  /\ PromiseInv' /\ SameNames
         /\ HandedOut' = HandedOut
<1> DEFINE r == req[c]
<1>0. TypeOK /\ IInv /\ HandedOutOK
  BY DEF PromiseInv, IInv
<1>1. /\ pc[c] = "found" /\ r \in Requests /\ HasAction(r.context, r.value)
      /\ UNCHANGED <<maps, lost, builder>>
      /\ \E rep : Return(c, rep)
  BY <1>0 DEF HitFinished, HitOngoing, IInv, CallsOK, GetOK
<1>2. PICK o \in CacheOps : o = op[c] /\ HandOut(c, o)
  BY <1>0, <1>1 DEF HitFinished, HitOngoing, IInv, CallsOK, GetOK
<1>3. o \in HandedOut /\ downstreamOperation[o] # None
  BY <1>0, <1>1, <1>2 DEF HandedOutOK, IInv, CallsOK, GetOK
<1>4. Serves(downstreamOperation[o], r) /\ Action(r).kind = "build-image"
  BY <1>0, <1>1, <1>2 DEF IInv, CallsOK, GetOK
<1>5. handed' = handed \cup {[op |-> o, req |-> r]}
  BY <1>2 DEF HandOut
<1>6. HandedOut' = HandedOut
  BY <1>3, <1>5 DEF HandedOut
<1>7. SameNames
  <2>. SUFFICES ASSUME NEW q \in HandedOut, NEW x \in BuildRequests, HandedOutFor(q, x)
                PROVE  HandedOutFor(q, x)'
    BY DEF SameNames
  <2>1. q = o => work[downstreamOperation[o]] = x
    BY <1>3 DEF HandedOutFor
  <2>2. q = o => /\ Action(r).config.commit_point = x.commit_point
                 /\ Action(r).config.bazel_targets \subseteq x.target
    BY <1>4, <2>1 DEF Serves
  <2>3. \A h \in handed' : h.op = q =>
          /\ Action(h.req).config.commit_point = x.commit_point
          /\ Action(h.req).config.bazel_targets \subseteq x.target
    BY <1>5, <2>2 DEF HandedOutFor
  <2>4. \E h \in handed' : h.op = q /\ buildImage(Action(h.req).config) = x
    BY <1>5 DEF HandedOutFor
  <2>. QED  BY <1>1, <2>3, <2>4 DEF HandedOutFor, maps, builder, Action
<1>8. /\ pc'[c] = "idle" /\ snap'[c] = <<>>
       /\ \A g \in Callers \ {c} : pc'[g] = pc[g] /\ op'[g] = op[g] /\ snap'[g] = snap[g]
  BY <1>0, <1>1 DEF TypeOK, Return
<1>9. NamesFresh'
  <2>1. \A g \in Callers : pc'[g] \in {"append", "assign"} =>
          pc[g] \in {"append", "assign"} /\ op'[g] = op[g]
    BY <1>8
  <2>. QED  BY <1>6, <2>1 DEF PromiseInv, NamesFresh
<1>10. HandedOutOK'
  <2>1. \A h \in handed' : HasAction(h.req.context, h.req.value) /\ Action(h.req).kind = "build-image"
    BY <1>0, <1>1, <1>4, <1>5 DEF HandedOutOK
  <2>2. \A g \in Callers : \A j \in DOMAIN snap'[g] : snap'[g][j].operation \in HandedOut
    BY <1>0, <1>8 DEF HandedOutOK
  <2>3. \A g \in Callers : pc'[g] \in {"found", "ask", "store"} => op'[g] \in HandedOut
    BY <1>0, <1>8 DEF HandedOutOK
  <2>. QED  BY <1>0, <1>1, <1>6, <2>1, <2>2, <2>3 DEF HandedOutOK, maps, Action
<1>11. \A q \in HandedOut' : \E x \in BuildRequests : HandedOutFor(q, x)'
  BY <1>6, <1>7 DEF PromiseInv, SameNames
<1>. QED  BY <1>6, <1>7, <1>9, <1>10, <1>11 DEF PromiseInv

(* A miss: the name that the call has drawn is handed out, for what the    *)
(* builder was asked.                                                      *)
LEMMA AssignMoves ==
  ASSUME PromiseInv, IInv', NEW c \in Callers, AssignBucket(c)
  PROVE  /\ PromiseInv' /\ SameNames
         /\ \E o \in CacheOps \ HandedOut, x \in BuildRequests :
              /\ o = op[c] /\ downstreamOperation[o] # None
              /\ HandedOut' = HandedOut \cup {o}
              /\ HandedOutFor(o, x)'
<1>0. TypeOK /\ IInv /\ HandedOutOK /\ NamesFresh
  BY DEF PromiseInv, IInv
<1>r. PICK r : r = req[c]
  OBVIOUS
<1>o. PICK o : o = op[c]
  OBVIOUS
<1>x. PICK x : x = buildImage(Build(r.context).config)
  OBVIOUS
<1>1. /\ data' = [data EXCEPT ![Digest(r)] = Append(snap[c], NewEntry(c))]
      /\ pc[c] = "assign"
      /\ HandOut(c, o)
      /\ \E rep : Return(c, rep)
      /\ UNCHANGED <<downstreamOperation, upstreamOperation, lost, builder>>
  BY <1>r, <1>o DEF AssignBucket
<1>2. /\ r \in Requests /\ HasAction(r.context, r.value)
      /\ HasDigest(Action(r)) /\ HasBuild(r.context)
      /\ o \in CacheOps /\ downstreamOperation[o] = bop[c] /\ work[bop[c]] = x
      /\ bop[c] # None
  BY <1>0, <1>1, <1>r, <1>o, <1>x, NamesAssumption DEF IInv, CallsOK, GetOK
<1>3. Build(r.context) = Action(r) /\ Action(r) \in Actions /\ Action(r).kind = "build-image"
  BY <1>2, RequestedBuild
<1>4. x \in BuildRequests
  BY <1>3, <1>x, BuildRequestType
<1>5. o \notin HandedOut
  BY <1>0, <1>1, <1>o DEF NamesFresh
<1>6. handed' = handed \cup {[op |-> o, req |-> r]}
  BY <1>1, <1>r, <1>o DEF HandOut
<1>7. HandedOut' = HandedOut \cup {o}
  <2>. DEFINE new == [op |-> o, req |-> r]
  <2>1. new.op = o
    OBVIOUS
  <2>2. handed' = handed \cup {new}
    BY <1>6
  <2>. HIDE DEF new
  <2>. QED  BY <2>1, <2>2 DEF HandedOut
<1>8. HandedOutFor(o, x)'
  <2>1. \A h \in handed' : h.op = o => h.req = r
    BY <1>5, <1>6 DEF HandedOut
  <2>2. x = buildImage(Action(r).config)
    BY <1>3, <1>x
  <2>3. /\ Action(r).config.commit_point = x.commit_point
        /\ Action(r).config.bazel_targets \subseteq x.target
    BY <2>2 DEF buildImage
  <2>4. \A h \in handed' : h.op = o =>
          /\ Action(h.req).config.commit_point = x.commit_point
          /\ Action(h.req).config.bazel_targets \subseteq x.target
    BY <2>1, <2>3
  <2>5. \E h \in handed' : h.op = o /\ buildImage(Action(h.req).config) = x
    <3>1. [op |-> o, req |-> r] \in handed'
      BY <1>6
    <3>. QED  BY <2>2, <3>1
  <2>6. work'[downstreamOperation'[o]] = x
    BY <1>1, <1>2 DEF builder
  <2>. QED  BY <2>4, <2>5, <2>6 DEF HandedOutFor, Action
<1>9. SameNames
  <2>. SUFFICES ASSUME NEW q \in HandedOut, NEW y \in BuildRequests, HandedOutFor(q, y)
                PROVE  HandedOutFor(q, y)'
    BY DEF SameNames
  <2>1. \A h \in handed' : h.op = q => h \in handed
    BY <1>5, <1>6
  <2>. QED  BY <1>1, <1>6, <2>1 DEF HandedOutFor, builder, Action
<1>10. /\ pc'[c] = "idle" /\ snap'[c] = <<>>
       /\ \A g \in Callers \ {c} : pc'[g] = pc[g] /\ op'[g] = op[g] /\ snap'[g] = snap[g]
  BY <1>0, <1>1 DEF TypeOK, Return
<1>11. NamesFresh'
  <2>1. \A g \in Callers : pc'[g] \in {"append", "assign"} =>
          /\ g # c /\ pc[g] \in {"append", "assign"} /\ op'[g] = op[g] /\ op[g] # o
    BY <1>0, <1>1, <1>10, <1>o DEF NamesFresh
  <2>. QED  BY <1>0, <1>7, <2>1 DEF NamesFresh
<1>12. HandedOutOK'
  <2>1. \A h \in handed' : HasAction(h.req.context, h.req.value) /\ Action(h.req).kind = "build-image"
    BY <1>0, <1>2, <1>3, <1>6 DEF HandedOutOK
  <2>2. ASSUME NEW d \in Digests, NEW i \in DOMAIN data'[d]
        PROVE  data'[d][i].operation \in HandedOut'
    <3>1. CASE d = Digest(r)
      <4>1. data'[d] = Append(snap[c], NewEntry(c)) /\ snap[c] \in Seq(Entries)
        BY <1>0, <1>1, <2>2, <3>1 DEF TypeOK
      <4>2. i \in 1 .. (Len(snap[c]) + 1)
        BY <2>2, <4>1
      <4>3. data'[d][i] = IF i = Len(snap[c]) + 1 THEN NewEntry(c) ELSE snap[c][i]
        BY <4>1, <4>2
      <4>4. i # Len(snap[c]) + 1 => i \in DOMAIN snap[c]
        BY <4>1, <4>2
      <4>5. NewEntry(c).operation = o
        BY <1>o DEF NewEntry
      <4>. QED  BY <1>0, <1>7, <4>3, <4>4, <4>5 DEF HandedOutOK
    <3>2. CASE d # Digest(r)
      BY <1>0, <1>1, <1>7, <2>2, <3>2 DEF TypeOK, HandedOutOK
    <3>. QED  BY <3>1, <3>2
  <2>3. \A g \in Callers : \A i \in DOMAIN snap'[g] : snap'[g][i].operation \in HandedOut'
    BY <1>0, <1>7, <1>10 DEF HandedOutOK
  <2>4. \A g \in Callers : pc'[g] \in {"found", "ask", "store"} => op'[g] \in HandedOut'
    BY <1>0, <1>7, <1>10 DEF HandedOutOK
  <2>. QED  BY <1>0, <1>1, <1>7, <2>1, <2>2, <2>3, <2>4 DEF HandedOutOK, Action
<1>13. \A q \in HandedOut' : \E y \in BuildRequests : HandedOutFor(q, y)'
  <2>1. \A q \in HandedOut : \E y \in BuildRequests : HandedOutFor(q, y)'
    BY <1>9 DEF PromiseInv, SameNames
  <2>2. \E y \in BuildRequests : HandedOutFor(o, y)'
    BY <1>4, <1>8
  <2>. QED  BY <1>7, <2>1, <2>2
<1>. QED  BY <1>o, <1>2, <1>4, <1>5, <1>7, <1>8, <1>9, <1>11, <1>12, <1>13 DEF PromiseInv

LEMMA InitPromiseInv == Init => PromiseInv
<1>. SUFFICES ASSUME Init PROVE PromiseInv
  OBVIOUS
<1>1. IInv
  BY InitIInv
<1>2. HandedOut = {}
  BY DEF Init, HandedOut
<1>3. HandedOutOK
  BY DEF Init, Empty, HandedOutOK
<1>4. NamesFresh
  BY DEF Init, Empty, NamesFresh
<1>. QED  BY <1>1, <1>2, <1>3, <1>4 DEF PromiseInv

LEMMA NextPromiseInv == PromiseInv /\ IInv' /\ [Next]_vars => PromiseInv' /\ SameNames
<1>. SUFFICES ASSUME PromiseInv, IInv', [Next]_vars PROVE PromiseInv' /\ SameNames
  OBVIOUS
<1>0. CASE UNCHANGED vars
  BY <1>0, BuilderMoves DEF vars, builder
<1>1. ASSUME NEW c \in Callers, RejectGet(c) \/ AcceptGet(c) PROVE PromiseInv' /\ SameNames
  BY <1>1, QuietMoves
<1>2. ASSUME NEW c \in Callers, GetStep(c) PROVE PromiseInv' /\ SameNames
  <2>1. CASE \/ CreateJob(c) \/ Find(c) \/ Miss(c) \/ NoDigest(c)
             \/ CallBuilder(c) \/ ReadBucket(c)
    BY <2>1, QuietMoves
  <2>2. CASE HitFinished(c) \/ HitOngoing(c)
    BY <2>2, HitMoves
  <2>3. CASE NoBuildAction(c) \/ BuilderRefuses(c)
    BY <2>3, RestartMoves DEF NoBuildAction, BuilderRefuses
  <2>4. CASE Register(c)
    BY <2>4, RegisterMoves
  <2>5. CASE AssignBucket(c)
    BY <2>5, AssignMoves
  <2>. QED  BY <1>2, <2>1, <2>2, <2>3, <2>4, <2>5 DEF GetStep
<1>3. ASSUME NEW c \in Callers, GetOperationStep(c) PROVE PromiseInv' /\ SameNames
  <2>1. CASE BuilderAnswers(c)
    BY <2>1, QuietMoves
  <2>2. CASE BuilderUnreachable(c)
    BY <2>2, RestartMoves DEF BuilderUnreachable
  <2>3. CASE Store(c)
    BY <2>3, StoreMoves
  <2>. QED  BY <1>3, <2>1, <2>2, <2>3 DEF GetOperationStep
<1>4. ASSUME NEW c \in Callers, NEW o \in CacheOps, Poll(c, o) PROVE PromiseInv' /\ SameNames
  BY <1>4, QuietMoves
<1>5. CASE (\E b \in BuilderOps : BuilderFinishes(b)) \/ BuilderForgets
  <2>1. UNCHANGED <<maps, pc, calls, ghosts, work>>
    BY <1>5 DEF BuilderFinishes, BuilderForgets, Builder!Finish, Builder!Forget
  <2>. QED  BY <2>1, BuilderMoves
<1>6. CASE Crash
  BY <1>6, RestartMoves DEF Crash
<1>. QED  BY <1>0, <1>1, <1>2, <1>3, <1>4, <1>5, <1>6 DEF Next

(* Whatever is handed out was drawn for one build, and handed out for      *)
(* nothing that this build does not serve.                                 *)
THEOREM PromiseInvariance == Spec => []PromiseInv
<1>. QED  BY InitPromiseInv, NextPromiseInv, Invariance, PTL DEF Spec

-----------------------------------------------------------------------------
(* The refinement                                                          *)

LEMMA CachedIs ==
  ASSUME NEW o
  PROVE  CachedAs(o) = IF o \notin HandedOut THEN "unknown"
                       ELSE IF downstreamOperation[o] = None THEN "lost"
                       ELSE IF IsDone(o) THEN "done" ELSE "pending"
BY DEF CachedAs

LEMMA CachedThen ==
  ASSUME NEW o
  PROVE  CachedAs(o)' = IF o \notin HandedOut' THEN "unknown"
                        ELSE IF downstreamOperation'[o] = None THEN "lost"
                        ELSE IF IsDone(o)' THEN "done" ELSE "pending"
BY DEF CachedAs

(* What a name was handed out for does not change.                         *)
LEMMA AskedStays ==
  ASSUME PromiseInv, AskedOK, AskedOK', SameNames, HandedOut \subseteq HandedOut',
         NEW o \in HandedOut
  PROVE  AskedFor(o)' = AskedFor(o)
<1>1. PICK x \in BuildRequests : HandedOutFor(o, x)
  BY DEF PromiseInv
<1>2. HandedOutFor(o, x)' /\ o \in HandedOut'
  BY <1>1 DEF SameNames
<1>. QED  BY <1>1, <1>2 DEF AskedOK

LEMMA NotAsked ==
  ASSUME NEW o
  PROVE  /\ o \notin HandedOut => AskedFor(o) = None
         /\ o \notin HandedOut' => AskedFor(o)' = None
BY DEF AskedFor

(* Steps the engine cannot see.                                            *)
LEMMA Unseen ==
  ASSUME PromiseInv, AskedOK, AskedOK', SameNames, HandedOut' = HandedOut,
         \A o \in HandedOut : /\ downstreamOperation'[o] = downstreamOperation[o]
                              /\ upstreamOperation'[o] = upstreamOperation[o]
  PROVE  UNCHANGED Promised!promiseVars
<1>1. ASSUME NEW o \in CacheOps
      PROVE  AskedFor(o)' = AskedFor(o) /\ CachedAs(o)' = CachedAs(o)
  BY AskedStays, NotAsked, CachedIs, CachedThen DEF IsDone
<1>. QED  BY <1>1 DEF Promised!promiseVars

LEMMA RestartLoses ==
  ASSUME PromiseInv, AskedOK, AskedOK', SameNames, Restart
  PROVE  Promised!Lose
<1>. USE DEF Restart, Empty
<1>1. HandedOut' = HandedOut
  BY DEF HandedOut
<1>2. ASSUME NEW o \in CacheOps
      PROVE  /\ AskedFor(o)' = AskedFor(o)
             /\ CachedAs(o)' = IF CachedAs(o) = "unknown" THEN "unknown" ELSE "lost"
  BY <1>1, AskedStays, NotAsked, CachedIs, CachedThen
<1>. QED  BY <1>2 DEF Promised!Lose

LEMMA StoreRemembers ==
  ASSUME PromiseInv, AskedOK, AskedOK', SameNames, NEW c \in Callers, Store(c)
  PROVE  Promised!PromiseNext
<1>1. /\ pc[c] = "store" /\ UNCHANGED <<downstreamOperation, handed>>
      /\ upstreamOperation' = [upstreamOperation EXCEPT ![op[c]] = ans[c]]
  BY DEF Store, ghosts
<1>2. /\ op[c] \in HandedOut /\ op[c] \in CacheOps
      /\ downstreamOperation[op[c]] # None /\ ans[c] \in Answers
  BY <1>1, NamesAssumption DEF PromiseInv, HandedOutOK, IInv, CallsOK, GetOperationOK
<1>o. PICK o \in CacheOps : o = op[c]
  BY <1>2
<1>d. PICK over \in BOOLEAN : over = ans[c].done
  BY <1>2 DEF Answers
<1>3. HandedOut' = HandedOut
  BY <1>1 DEF HandedOut
<1>4. upstreamOperation'[o] = ans[c] /\ ans[c] # None
  <2>1. upstreamOperation'[o] = ans[c]
    BY <1>1, <1>o DEF PromiseInv, IInv, TypeOK
  <2>. QED  BY <1>2, <2>1, AnswersAssumption
<1>5. IsDone(o)' <=> over
  BY <1>4, <1>d DEF IsDone
<1>6. ASSUME NEW q \in CacheOps
      PROVE  /\ AskedFor(q)' = AskedFor(q)
             /\ CachedAs(q)' = IF q = o THEN IF over THEN "done" ELSE "pending" ELSE CachedAs(q)
  <2>1. q # o => upstreamOperation'[q] = upstreamOperation[q]
    BY <1>1, <1>o DEF PromiseInv, IInv, TypeOK
  <2>. QED  BY <1>1, <1>2, <1>3, <1>5, <1>o, <2>1, AskedStays, NotAsked, CachedIs, CachedThen DEF IsDone
<1>7. CachedAs(o) \in {"pending", "done"}
  BY <1>2, <1>o, CachedIs
<1>8. Promised!Remember(o, over)
  BY <1>6, <1>7 DEF Promised!Remember, Promised!Held
<1>. QED  BY <1>8 DEF Promised!PromiseNext

LEMMA AssignGives ==
  ASSUME PromiseInv, AskedOK, AskedOK', IInv', NEW c \in Callers, AssignBucket(c)
  PROVE  Promised!PromiseNext
<1>1. PromiseInv' /\ SameNames
  BY AssignMoves
<1>2. PICK o \in CacheOps \ HandedOut, x \in BuildRequests :
        /\ o = op[c] /\ downstreamOperation[o] # None
        /\ HandedOut' = HandedOut \cup {o}
        /\ HandedOutFor(o, x)'
  BY AssignMoves
<1>3. UNCHANGED <<downstreamOperation, upstreamOperation>>
  BY DEF AssignBucket
<1>4. ~IsDone(o)'
  BY <1>2, <1>3 DEF PromiseInv, HandedOutOK, IsDone
<1>5. AskedFor(o)' = x
  BY <1>2 DEF AskedOK
<1>6. ASSUME NEW q \in CacheOps
      PROVE  /\ AskedFor(q)' = IF q = o THEN x ELSE AskedFor(q)
             /\ CachedAs(q)' = IF q = o THEN "pending" ELSE CachedAs(q)
  BY <1>1, <1>2, <1>3, <1>4, <1>5, AskedStays, NotAsked, CachedIs, CachedThen DEF IsDone
<1>7. CachedAs(o) = "unknown"
  BY <1>2, CachedIs
<1>8. Promised!Give(o, x)
  BY <1>6, <1>7 DEF Promised!Give
<1>. QED  BY <1>2, <1>8 DEF Promised!PromiseNext

LEMMA StepPromises ==
  ASSUME PromiseInv, AskedOK, AskedOK', IInv', [Next]_vars
  PROVE  [Promised!PromiseNext]_(Promised!promiseVars)
<1>. SUFFICES Promised!PromiseNext \/ UNCHANGED Promised!promiseVars
  OBVIOUS
<1>s. SameNames
  BY NextPromiseInv
<1>0. CASE UNCHANGED <<downstreamOperation, upstreamOperation, handed>>
  BY <1>0, <1>s, Unseen DEF HandedOut
<1>1. ASSUME NEW c \in Callers, HitFinished(c) \/ HitOngoing(c) PROVE UNCHANGED Promised!promiseVars
  <2>1. UNCHANGED <<downstreamOperation, upstreamOperation>>
    BY <1>1 DEF HitFinished, HitOngoing, maps
  <2>2. HandedOut' = HandedOut
    BY <1>1, HitMoves
  <2>. QED  BY <1>s, <2>1, <2>2, Unseen
<1>2. ASSUME NEW c \in Callers, Register(c) PROVE UNCHANGED Promised!promiseVars
  <2>1. PICK o \in CacheOps \ (Registered \cup lost) :
          downstreamOperation' = [downstreamOperation EXCEPT ![o] = bop[c]]
    BY <1>2 DEF Register
  <2>2. UNCHANGED <<upstreamOperation, handed>>
    BY <1>2 DEF Register, ghosts
  <2>3. o \notin HandedOut
    BY <2>1 DEF PromiseInv, IInv, HandedOutResolves, HandedOut, Registered
  <2>4. \A q \in HandedOut : downstreamOperation'[q] = downstreamOperation[q]
    BY <2>1, <2>3 DEF PromiseInv, IInv, TypeOK, HandedOut
  <2>. QED  BY <1>s, <2>2, <2>4, Unseen DEF HandedOut
<1>3. CASE Restart
  BY <1>3, <1>s, RestartLoses DEF Promised!PromiseNext
<1>4. ASSUME NEW c \in Callers, Store(c) PROVE Promised!PromiseNext
  BY <1>4, <1>s, StoreRemembers
<1>5. ASSUME NEW c \in Callers, AssignBucket(c) PROVE Promised!PromiseNext
  BY <1>5, AssignGives
<1>6. ASSUME NEW c \in Callers, GetStep(c)
      PROVE  \/ UNCHANGED <<downstreamOperation, upstreamOperation, handed>> \/ Restart
             \/ HitFinished(c) \/ HitOngoing(c) \/ Register(c) \/ AssignBucket(c)
  BY <1>6 DEF GetStep, CreateJob, Find, Miss, NoDigest, NoBuildAction, CallBuilder, BuilderRefuses,
     ReadBucket, maps, ghosts
<1>7. ASSUME NEW c \in Callers, GetOperationStep(c)
      PROVE  \/ UNCHANGED <<downstreamOperation, upstreamOperation, handed>>
             \/ Restart \/ Store(c)
  BY <1>7 DEF GetOperationStep, BuilderAnswers, BuilderUnreachable, maps, ghosts
<1>8. ASSUME NEW c \in Callers, NEW o \in CacheOps, Poll(c, o)
      PROVE  UNCHANGED <<downstreamOperation, upstreamOperation, handed>>
  BY <1>8 DEF Poll, PollRemembered, PollDownstream, PollUnknown, maps, ghosts
<1>9. ASSUME NEW c \in Callers, RejectGet(c) \/ AcceptGet(c)
      PROVE  UNCHANGED <<downstreamOperation, upstreamOperation, handed>>
  BY <1>9 DEF RejectGet, AcceptGet, maps, ghosts
<1>10. ASSUME (\E b \in BuilderOps : BuilderFinishes(b)) \/ BuilderForgets \/ UNCHANGED vars
       PROVE  UNCHANGED <<downstreamOperation, upstreamOperation, handed>>
  BY <1>10 DEF BuilderFinishes, BuilderForgets, vars, maps, ghosts
<1>. QED
  BY <1>0, <1>1, <1>2, <1>3, <1>4, <1>5, <1>6, <1>7, <1>8, <1>9, <1>10 DEF Next, Crash

(* The cache implements its promise: a name is given out for one build,    *)
(* stays with it when calls race, answers come late or either service      *)
(* restarts, and is never given out for anything else.                     *)
THEOREM CacheKeepsPromise == Spec => ImplementsPromise
<1>1. Init => Promised!PromiseInit
  <2>. SUFFICES ASSUME Init PROVE Promised!PromiseInit
    OBVIOUS
  <2>1. HandedOut = {}
    BY DEF Init, HandedOut
  <2>2. \A o \in CacheOps : AskedFor(o) = None /\ CachedAs(o) = "unknown"
    BY <2>1, NotAsked, CachedIs
  <2>. QED  BY <2>2 DEF Promised!PromiseInit
<1>2. PromiseInv /\ AskedOK /\ AskedOK' /\ IInv' /\ [Next]_vars
        => [Promised!PromiseNext]_(Promised!promiseVars)
  BY StepPromises
<1>. QED
  BY <1>1, <1>2, AskedForIs, PromiseInvariance, Invariance, PTL
  DEF Spec, ImplementsPromise, Promised!PromiseSpec

-----------------------------------------------------------------------------
(* The replies                                                             *)

(* Answers are done with an image, at the builder, on their way and in the *)
(* cache, or not done without one.                                         *)
LEMMA NextRepliesInv == RepliesInv /\ PromiseInv' /\ [Next]_vars => RepliesInv'
<1>. SUFFICES ASSUME RepliesInv, PromiseInv', [Next]_vars PROVE RepliesInv'
  OBVIOUS
<1>0. TypeOK /\ TypeOK'
  BY DEF RepliesInv, PromiseInv, IInv
<1> DEFINE BuilderWhole == \A b \in BuilderOps : state[b] = "done" <=> result[b] # None
           CallsWhole == \A c \in Callers : pc[c] = "store" => Whole(ans[c])
           StoredWhole == \A o \in CacheOps : upstreamOperation[o] # None => Whole(upstreamOperation[o])
<1>1. BuilderWhole /\ CallsWhole /\ StoredWhole
  BY DEF RepliesInv
<1>2. BuilderWhole'
  <2>1. CASE UNCHANGED builder
    BY <1>1, <2>1 DEF builder
  <2>2. ASSUME NEW c \in Callers, CallBuilder(c) PROVE BuilderWhole'
    <3>1. PICK b \in BuilderOps : /\ state[b] = "unknown" /\ UNCHANGED result
                                  /\ state' = [state EXCEPT ![b] = "pending"]
      BY <2>2 DEF CallBuilder, Builder!Start
    <3>. QED  BY <1>0, <1>1, <3>1 DEF TypeOK, Builder!OpTypeOK
  <2>3. ASSUME NEW b \in BuilderOps, BuilderFinishes(b) PROVE BuilderWhole'
    <3>1. PICK r \in ImagesOf(b) : /\ state' = [state EXCEPT ![b] = "done"]
                                   /\ result' = [result EXCEPT ![b] = r]
      BY <2>3 DEF BuilderFinishes, Builder!Finish
    <3>2. r # None
      BY NamesAssumption DEF ImagesOf
    <3>. QED  BY <1>0, <1>1, <3>1, <3>2 DEF TypeOK, Builder!OpTypeOK
  <2>4. CASE BuilderForgets
    BY <2>4 DEF BuilderForgets, Builder!Forget
  <2>. QED
    BY <2>1, <2>2, <2>3, <2>4
    DEF Next, vars, builder, RejectGet, AcceptGet, GetStep, CreateJob, Find, HitFinished, HitOngoing,
        Miss, NoDigest, NoBuildAction, BuilderRefuses, Register, ReadBucket, AssignBucket,
        GetOperationStep, BuilderAnswers, BuilderUnreachable, Store, Poll, PollRemembered,
        PollDownstream, PollUnknown, Crash
<1>3. CallsWhole' /\ StoredWhole'
  <2>1. CASE Restart
    BY <2>1 DEF Restart, Empty
  <2>2. CASE UNCHANGED <<upstreamOperation, pc, ans>>
    BY <1>1, <2>2
  <2>3. ASSUME NEW c \in Callers, UNCHANGED <<upstreamOperation, ans>>, NEW to,
               pc' = [pc EXCEPT ![c] = to], to # "store"
        PROVE  CallsWhole' /\ StoredWhole'
    BY <1>0, <1>1, <2>3 DEF TypeOK
  <2>4. ASSUME NEW c \in Callers, UNCHANGED upstreamOperation, NEW rep, Return(c, rep)
        PROVE  CallsWhole' /\ StoredWhole'
    BY <1>0, <1>1, <2>4 DEF TypeOK, Return
  <2>5. ASSUME NEW c \in Callers, BuilderAnswers(c) PROVE CallsWhole' /\ StoredWhole'
    <3>1. /\ UNCHANGED upstreamOperation /\ pc[c] = "ask" /\ pc' = [pc EXCEPT ![c] = "store"]
          /\ ans' = [ans EXCEPT ![c] = [name |-> bop[c], done |-> state[bop[c]] = "done",
                                        image |-> result[bop[c]]]]
      BY <2>5 DEF BuilderAnswers, Goto, maps
    <3>2. bop[c] \in BuilderOps
      BY <3>1 DEF RepliesInv, PromiseInv, IInv, CallsOK, GetOperationOK
    <3>3. Whole(ans'[c])
      BY <1>0, <1>1, <3>1, <3>2 DEF TypeOK, Whole
    <3>4. \A g \in Callers \ {c} : pc'[g] = pc[g] /\ ans'[g] = ans[g]
      BY <1>0, <3>1 DEF TypeOK
    <3>. QED  BY <1>1, <3>1, <3>3, <3>4
  <2>6. ASSUME NEW c \in Callers, Store(c) PROVE CallsWhole' /\ StoredWhole'
    <3>1. /\ pc[c] = "store" /\ upstreamOperation' = [upstreamOperation EXCEPT ![op[c]] = ans[c]]
          /\ \E rep : Return(c, rep)
      BY <2>6 DEF Store
    <3>2. Whole(ans[c])
      BY <1>1, <3>1
    <3>. QED  BY <1>0, <1>1, <3>1, <3>2 DEF TypeOK, Return
  <2>7. ASSUME NEW c \in Callers,
               \/ RejectGet(c) \/ AcceptGet(c) \/ GetStep(c) \/ BuilderUnreachable(c)
               \/ \E o \in CacheOps : Poll(c, o)
        PROVE  \/ Restart
               \/ UNCHANGED upstreamOperation /\ \E rep : Return(c, rep)
               \/ UNCHANGED <<upstreamOperation, ans>> /\ \E to : pc' = [pc EXCEPT ![c] = to] /\ to # "store"
    BY <2>7
    DEF RejectGet, AcceptGet, GetStep, CreateJob, Find, HitFinished, HitOngoing, Miss, NoDigest,
        NoBuildAction, CallBuilder, BuilderRefuses, Register, ReadBucket, AssignBucket,
        BuilderUnreachable, Poll, PollRemembered, PollDownstream, PollUnknown, Goto, maps, calls
  <2>8. ASSUME (\E b \in BuilderOps : BuilderFinishes(b)) \/ BuilderForgets \/ UNCHANGED vars
        PROVE  UNCHANGED <<upstreamOperation, pc, ans>>
    BY <2>8 DEF BuilderFinishes, BuilderForgets, vars, maps, calls
  <2>. QED
    BY <2>1, <2>2, <2>3, <2>4, <2>5, <2>6, <2>7, <2>8 DEF Next, GetOperationStep, Crash
<1>. QED  BY <1>2, <1>3 DEF RepliesInv

(* An answer of the builder is done, wherever it is, if and only if it     *)
(* comes with an image.                                                    *)
THEOREM RepliesInvariance == Spec => []RepliesInv
<1>1. Init => RepliesInv
  BY InitPromiseInv DEF Init, Empty, RepliesInv, Builder!OpInit
<1>2. RepliesInv /\ PromiseInv' /\ [Next]_vars => RepliesInv'
  BY NextRepliesInv
<1>. QED  BY <1>1, <1>2, PromiseInvariance, PTL DEF Spec

(* The reply rep that call c gives in this step is true.                   *)
TrueReply(c, rep) ==
  /\ TellsWhatIsKnown(rep)'
  /\ pc[c] \in {"found", "assign"} =>
       /\ \A r \in {req[c]} : GivenFor(rep.name, r)'
       /\ rep.done \/ CachedAs(rep.name) = "unknown"

(* An operation is held to be what it was handed out for.                  *)
LEMMA GivenForRequest ==
  ASSUME PromiseInv', AskedOK', NEW h \in handed'
  PROVE  GivenFor(h.op, h.req)'
<1>1. h.op \in HandedOut'
  BY DEF HandedOut
<1>2. PICK x \in BuildRequests : HandedOutFor(h.op, x)'
  BY <1>1 DEF PromiseInv
<1>3. AskedFor(h.op)' = x
  BY <1>1, <1>2 DEF AskedOK
<1>. QED  BY <1>2, <1>3 DEF HandedOutFor, GivenFor, Action

(* A hit tells what is known of an operation that was handed out before.   *)
LEMMA HitTells ==
  ASSUME RepliesInv, PromiseInv', AskedOK', NEW c \in Callers, HitFinished(c) \/ HitOngoing(c),
         NEW rep, reply'[c] = rep
  PROVE  TrueReply(c, rep)
<1>0. PromiseInv /\ TypeOK /\ IInv'
  BY DEF RepliesInv, PromiseInv, IInv
<1>1. /\ pc[c] = "found" /\ UNCHANGED <<downstreamOperation, upstreamOperation>>
      /\ HandOut(c, op[c])
  BY DEF HitFinished, HitOngoing, maps
<1>2. op[c] \in HandedOut /\ op[c] \in CacheOps /\ downstreamOperation[op[c]] # None
  BY <1>0, <1>1 DEF PromiseInv, HandedOutOK, IInv, CallsOK, GetOK
<1>o. PICK o \in CacheOps : o = op[c]
  BY <1>2
<1>3. HandedOut' = HandedOut
  BY <1>0, HitMoves
<1>4. CachedAs(o)' = IF IsDone(o) THEN "done" ELSE "pending"
  BY <1>1, <1>2, <1>3, <1>o, CachedThen DEF IsDone
<1>5. /\ rep.name = o /\ rep.type = "GetResponse" /\ rep.done = TRUE
      /\ rep.image = IF IsDone(o) THEN upstreamOperation[o].image ELSE None
  BY <1>0, <1>o DEF HitFinished, HitOngoing, Return, TypeOK
<1>6. IsDone(o) => upstreamOperation[o].image # None
  BY DEF RepliesInv, Whole, IsDone
<1>7. TellsWhatIsKnown(rep)'
  BY <1>4, <1>5, <1>6 DEF TellsWhatIsKnown
<1>8. ASSUME NEW r \in {req[c]} PROVE GivenFor(rep.name, r)'
  <2>1. [op |-> o, req |-> r] \in handed'
    BY <1>1, <1>o, <1>8 DEF HandOut
  <2>2. \A h \in handed' : GivenFor(h.op, h.req)'
    BY <1>0, GivenForRequest
  <2>3. GivenFor(o, r)'
    BY <2>1, <2>2
  <2>. QED  BY <1>5, <2>3
<1>. QED  BY <1>5, <1>7, <1>8 DEF TrueReply

(* A miss tells of an operation that it has just handed out.               *)
LEMMA MissTells ==
  ASSUME RepliesInv, PromiseInv', AskedOK', NEW c \in Callers, AssignBucket(c),
         NEW rep, reply'[c] = rep
  PROVE  TrueReply(c, rep)
<1>0. PromiseInv /\ TypeOK /\ IInv'
  BY DEF RepliesInv, PromiseInv, IInv
<1>1. UNCHANGED <<downstreamOperation, upstreamOperation>> /\ HandOut(c, op[c])
  BY DEF AssignBucket
<1>2. /\ op[c] \in CacheOps \ HandedOut /\ downstreamOperation[op[c]] # None
      /\ HandedOut' = HandedOut \cup {op[c]}
  BY <1>0, AssignMoves
<1>o. PICK o \in CacheOps : o = op[c]
  BY <1>2
<1>3. ~IsDone(o)
  BY <1>0, <1>2, <1>o DEF PromiseInv, HandedOutOK, IsDone
<1>4. CachedAs(o) = "unknown" /\ CachedAs(o)' = "pending"
  BY <1>1, <1>2, <1>3, <1>o, CachedIs, CachedThen DEF IsDone
<1>5. /\ rep.name = o /\ rep.type = "GetResponse" /\ rep.done = FALSE
      /\ rep.image = None
  BY <1>0, <1>o DEF AssignBucket, Return, TypeOK
<1>6. TellsWhatIsKnown(rep)'
  BY <1>4, <1>5 DEF TellsWhatIsKnown
<1>7. ASSUME NEW r \in {req[c]} PROVE GivenFor(rep.name, r)'
  <2>1. [op |-> o, req |-> r] \in handed'
    BY <1>1, <1>o, <1>7 DEF HandOut
  <2>2. \A h \in handed' : GivenFor(h.op, h.req)'
    BY <1>0, GivenForRequest
  <2>3. GivenFor(o, r)'
    BY <2>1, <2>2
  <2>. QED  BY <1>5, <2>3
<1>. QED  BY <1>4, <1>5, <1>6, <1>7 DEF TrueReply

(* The builder's answer is passed on as it is stored.                      *)
LEMMA StoreTells ==
  ASSUME RepliesInv, PromiseInv', NEW c \in Callers, Store(c), NEW rep, reply'[c] = rep
  PROVE  TrueReply(c, rep)
<1>0. PromiseInv /\ TypeOK
  BY DEF RepliesInv, PromiseInv, IInv
<1>1. /\ pc[c] = "store" /\ UNCHANGED <<downstreamOperation, handed>>
      /\ upstreamOperation' = [upstreamOperation EXCEPT ![op[c]] = ans[c]]
  BY DEF Store, ghosts
<1>2. /\ op[c] \in HandedOut /\ op[c] \in CacheOps
      /\ downstreamOperation[op[c]] # None /\ ans[c] \in Answers
  BY <1>0, <1>1, NamesAssumption DEF PromiseInv, HandedOutOK, IInv, CallsOK, GetOperationOK
<1>o. PICK o \in CacheOps : o = op[c]
  BY <1>2
<1>3. HandedOut' = HandedOut
  BY <1>1 DEF HandedOut
<1>4. upstreamOperation'[o] = ans[c] /\ ans[c] # None
  <2>1. upstreamOperation'[o] = ans[c]
    BY <1>0, <1>1, <1>o DEF TypeOK
  <2>. QED  BY <1>2, <2>1, AnswersAssumption
<1>5. CachedAs(o)' = IF ans[c].done THEN "done" ELSE "pending"
  BY <1>1, <1>2, <1>3, <1>4, <1>o, CachedThen DEF IsDone
<1>6. /\ rep.name = o /\ rep.type = "GetResponse"
      /\ rep.done = ans[c].done /\ rep.image = ans[c].image
  BY <1>0, <1>o DEF Store, Return, TypeOK
<1>7. ans[c].done <=> ans[c].image # None
  BY <1>1 DEF RepliesInv, Whole
<1>8. TellsWhatIsKnown(rep)'
  BY <1>5, <1>6, <1>7 DEF TellsWhatIsKnown
<1>. QED  BY <1>1, <1>8 DEF TrueReply

(* What is remembered of an operation, or that nothing is, is told.        *)
LEMMA PollTells ==
  ASSUME RepliesInv, NEW c \in Callers, NEW o \in CacheOps, PollRemembered(c, o) \/ PollUnknown(c, o),
         NEW rep, reply'[c] = rep
  PROVE  TrueReply(c, rep)
<1>0. PromiseInv /\ TypeOK /\ UpstreamOK
  BY DEF RepliesInv, PromiseInv, IInv
<1>1. pc[c] = "idle" /\ o \in HandedOut /\ UNCHANGED <<downstreamOperation, upstreamOperation, handed>>
  BY DEF PollRemembered, PollUnknown, maps, ghosts
<1>2. HandedOut' = HandedOut
  BY <1>1 DEF HandedOut
<1>3. CASE PollRemembered(c, o)
  <2>1. IsDone(o) /\ upstreamOperation[o] # None /\ upstreamOperation[o].name # None
    <3>1. IsDone(o) /\ upstreamOperation[o] \in Answers
      BY <1>0, <1>3 DEF PollRemembered, IsDone, TypeOK
    <3>. QED  BY <3>1, NamesAssumption DEF IsDone, Answers
  <2>2. downstreamOperation[o] = upstreamOperation[o].name
    BY <1>0, <2>1 DEF UpstreamOK
  <2>3. CachedAs(o)' = "done"
    BY <1>1, <1>2, <2>1, <2>2, CachedThen DEF IsDone
  <2>4. /\ rep.name = upstreamOperation[o].name /\ rep.type = "BuildResponse"
        /\ rep.done = TRUE
    BY <1>0, <1>3 DEF PollRemembered, Return, TypeOK
  <2>5. TellsWhatIsKnown(rep)'
    BY <1>1, <1>2, <2>2, <2>3, <2>4 DEF TellsWhatIsKnown
  <2>. QED  BY <1>1, <2>5 DEF TrueReply
<1>4. CASE PollUnknown(c, o)
  <2>1. downstreamOperation[o] = None
    BY <1>4 DEF PollUnknown
  <2>2. CachedAs(o)' = "lost"
    BY <1>1, <1>2, <2>1, CachedThen
  <2>3. rep.name = o /\ rep.type = None /\ rep.done = TRUE
    BY <1>0, <1>4 DEF PollUnknown, Return, TypeOK
  <2>4. TellsWhatIsKnown(rep)'
    BY <2>2, <2>3 DEF TellsWhatIsKnown
  <2>. QED  BY <1>1, <2>4 DEF TrueReply
<1>. QED  BY <1>3, <1>4

LEMMA StepTells ==
  ASSUME RepliesInv, PromiseInv', AskedOK', [Next]_vars,
         NEW c \in Callers, NEW rep \in {reply'[c]} \ {reply[c], None}
  PROVE  TrueReply(c, rep)
<1>0. TypeOK /\ reply'[c] = rep /\ reply'[c] # reply[c] /\ reply'[c] # None
  BY DEF RepliesInv, PromiseInv, IInv
<1>1. ASSUME NEW g \in Callers, NEW told, Return(g, told)
      PROVE  reply'[g] = told /\ g = c
  BY <1>0, <1>1 DEF TypeOK, Return
<1>2. CASE Restart
  BY <1>0, <1>2 DEF Restart, Empty
<1>3. ASSUME NEW g \in Callers,
             \/ HitFinished(g) \/ HitOngoing(g) \/ AssignBucket(g) \/ Store(g)
             \/ \E o \in CacheOps : PollRemembered(g, o) \/ PollUnknown(g, o)
      PROVE  TrueReply(c, rep)
  <2>1. g = c
    BY <1>1, <1>3 DEF HitFinished, HitOngoing, AssignBucket, Store, PollRemembered, PollUnknown
  <2>. QED  BY <1>0, <1>3, <2>1, HitTells, MissTells, StoreTells, PollTells
<1>4. ASSUME NEW g \in Callers, RejectGet(g) \/ NoDigest(g) PROVE FALSE
  BY <1>0, <1>1, <1>4 DEF RejectGet, NoDigest
<1>5. ASSUME NEW g \in Callers, AcceptGet(g) \/ \E o \in CacheOps : PollDownstream(g, o) PROVE FALSE
  BY <1>0, <1>5 DEF AcceptGet, PollDownstream, TypeOK
<1>6. reply' # reply
  BY <1>0
<1>. QED
  BY <1>2, <1>3, <1>4, <1>5, <1>6
  DEF Next, vars, GetStep, CreateJob, Find, Miss, NoBuildAction, CallBuilder, BuilderRefuses, Register,
      ReadBucket, GetOperationStep, BuilderAnswers, BuilderUnreachable, Poll, BuilderFinishes,
      BuilderForgets, Crash

(* The engine can rely on replies: each is true when it is given, and one  *)
(* to a Get is about a build that is good for the request.                 *)
THEOREM RepliesAreTrue == Spec => RepliesTellWhatIsKnown
<1>1. RepliesInv /\ PromiseInv' /\ AskedOK' /\ [Next]_vars =>
        [\A c \in Callers : \A rep \in {reply'[c]} \ {reply[c], None} :
           /\ TellsWhatIsKnown(rep)'
           /\ pc[c] \in {"found", "assign"} =>
                /\ \A r \in {req[c]} : GivenFor(rep.name, r)'
                /\ rep.done \/ CachedAs(rep.name) = "unknown"]_vars
  BY StepTells DEF TrueReply
<1>. QED
  BY <1>1, RepliesInvariance, PromiseInvariance, AskedForIs, PTL DEF Spec, RepliesTellWhatIsKnown
=============================================================================
