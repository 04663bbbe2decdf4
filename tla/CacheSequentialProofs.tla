----------------------- MODULE CacheSequentialProofs -----------------------
(***************************************************************************)
(* What the cache service gets right when it serves one call at a time and *)
(* is never restarted: its buckets keep what was handed out, and hold      *)
(* nothing twice.                                                          *)
(***************************************************************************)
EXTENDS CacheProofs

(* One call at a time, no fault but the builder's restarts, and no request *)
(* that makes the process panic.                                           *)
Sequential(c) ==
  /\ Callers = {c}
  /\ Faults \subseteq {"forgets"}
  /\ \A r \in Requests :
       HasAction(r.context, r.value) /\ HasDigest(Action(r)) => HasBuild(r.context)

(* The bucket of a call that goes on after its lookup exists.              *)
LEMMA BucketOf ==
  ASSUME IInv, NEW c \in Callers,
         pc[c] # "idle" /\ pc[c] \notin {"ask", "store"}, HasDigest(Action(req[c]))
  PROVE  Digest(req[c]) \in Digests
<1>1. req[c] \in Requests /\ HasAction(req[c].context, req[c].value)
  BY DEF IInv, TypeOK, CallsOK, GetOK
<1>. QED  BY <1>1, RequestedBuild, DigestType DEF Digest

(* A step that leaves the buckets and what was handed out alone.           *)
LEMMA QuietStays ==
  ASSUME SequentialInv, IInv', UNCHANGED <<data, handed>>, Undisturbed'
  PROVE  SequentialInv'
BY DEF SequentialInv, EntriesKept, NoRedundantEntry, Digest, Action

(* Such a step of the call, or of the builder.                             *)
LEMMA QuietSequential ==
  ASSUME SequentialInv, IInv', NEW c, Sequential(c),
         \/ RejectGet(c) \/ AcceptGet(c) \/ CreateJob(c) \/ Find(c) \/ Miss(c) \/ NoDigest(c)
         \/ CallBuilder(c) \/ Register(c) \/ ReadBucket(c) \/ BuilderAnswers(c) \/ Store(c)
         \/ \E o \in CacheOps : Poll(c, o)
  PROVE  SequentialInv'
<1>0. TypeOK /\ c \in Callers /\ Undisturbed
  BY DEF SequentialInv, IInv, Sequential
<1>a. (* Undisturbed', said of the only call *)
      ASSUME UNCHANGED <<data, handed>>,
             /\ pc'[c] = "found" =>
                  \E i \in DOMAIN data[Digest(req'[c])] : data[Digest(req'[c])][i].operation = op'[c]
             /\ pc'[c] \in {"build", "register", "append", "assign"} =>
                  req'[c].skip_caching \/ (HasDigest(Action(req'[c])) => Candidates(req'[c]) = {})
             /\ pc'[c] = "assign" => snap'[c] = data[Digest(req'[c])]
      PROVE  SequentialInv'
  <2>1. Undisturbed'
    BY <1>a DEF Undisturbed, Sequential, Candidates, Digest, Action
  <2>. QED  BY <1>a, <2>1, QuietStays
<1>1. CASE RejectGet(c) \/ NoDigest(c) \/ Store(c) \/ \E o \in CacheOps : PollRemembered(c, o) \/ PollUnknown(c, o)
  <2>1. UNCHANGED <<data, handed>> /\ \E rep : Return(c, rep)
    BY <1>1 DEF RejectGet, NoDigest, Store, PollRemembered, PollUnknown, maps, ghosts
  <2>2. pc'[c] = "idle"
    BY <1>0, <2>1 DEF TypeOK, Return
  <2>. QED  BY <1>a, <2>1, <2>2
<1>2. CASE AcceptGet(c) \/ BuilderAnswers(c) \/ \E o \in CacheOps : PollDownstream(c, o)
  <2>1. UNCHANGED <<data, handed>> /\ pc'[c] \in {"createJob", "ask", "store"}
    BY <1>0, <1>2 DEF TypeOK, AcceptGet, BuilderAnswers, PollDownstream, Goto, maps, ghosts
  <2>. QED  BY <1>a, <2>1
<1>3. CASE CreateJob(c)
  <2>1. UNCHANGED <<data, handed, req>>
    BY <1>3 DEF CreateJob, maps, calls, ghosts
  <2>2. pc'[c] = IF req[c].skip_caching THEN "build" ELSE "lookup"
    BY <1>0, <1>3 DEF TypeOK, CreateJob
  <2>. QED  BY <1>a, <2>1, <2>2
<1>4. CASE Find(c)
  <2>1. UNCHANGED <<data, handed, req>> /\ pc'[c] = "found"
    BY <1>0, <1>4 DEF TypeOK, Find, Goto, maps, ghosts
  <2>2. PICK o \in CacheOps : Finds(req[c], o) /\ op' = [op EXCEPT ![c] = o]
    BY <1>4 DEF Find
  <2>3. PICK i \in DOMAIN data[Digest(req[c])] : data[Digest(req[c])][i].operation = o
    BY <2>2 DEF Finds, Candidates
  <2>4. op'[c] = o
    BY <1>0, <2>2 DEF TypeOK
  <2>. QED  BY <1>a, <2>1, <2>3, <2>4
<1>5. CASE Miss(c) \/ CallBuilder(c) \/ Register(c)
  <2>1. /\ UNCHANGED <<data, handed, req>>
        /\ pc'[c] \in {"build", "register", "append"}
        /\ \/ pc[c] \in {"build", "register"}
           \/ HasDigest(Action(req[c])) => Candidates(req[c]) = {}
    BY <1>0, <1>5 DEF TypeOK, Miss, CallBuilder, Register, Goto, maps, calls, ghosts
  <2>2. req[c].skip_caching \/ (HasDigest(Action(req[c])) => Candidates(req[c]) = {})
    BY <1>0, <2>1 DEF Undisturbed
  <2>. QED  BY <1>a, <2>1, <2>2
<1>6. CASE ReadBucket(c)
  <2>1. /\ UNCHANGED <<data, handed, req>>
        /\ pc[c] = "append" /\ pc'[c] = "assign"
        /\ snap'[c] = data[Digest(req[c])]
    BY <1>0, <1>6 DEF TypeOK, ReadBucket, Goto, maps, ghosts
  <2>2. req[c].skip_caching \/ (HasDigest(Action(req[c])) => Candidates(req[c]) = {})
    BY <1>0, <2>1 DEF Undisturbed
  <2>. QED  BY <1>a, <2>1, <2>2
<1>. QED  BY <1>1, <1>2, <1>3, <1>4, <1>5, <1>6 DEF Poll

(* A hit hands out what is in the bucket.                                  *)
LEMMA HitSequential ==
  ASSUME SequentialInv, IInv', NEW c, Sequential(c), HitFinished(c) \/ HitOngoing(c)
  PROVE  SequentialInv'
<1>0. TypeOK /\ IInv /\ c \in Callers
  BY DEF SequentialInv, IInv, Sequential
<1>1. /\ pc[c] = "found" /\ UNCHANGED data
      /\ handed' = handed \cup {[op |-> op[c], req |-> req[c]]}
      /\ \E rep : Return(c, rep)
  BY DEF HitFinished, HitOngoing, HandOut, maps
<1>2. Digest(req[c]) \in Digests
  <2>1. HasDigest(Action(req[c]))
    BY <1>0, <1>1 DEF IInv, CallsOK, GetOK, HasDigest
  <2>. QED  BY <1>0, <1>1, <2>1, BucketOf
<1>3. PICK i \in DOMAIN data[Digest(req[c])] : data[Digest(req[c])][i].operation = op[c]
  BY <1>0, <1>1 DEF SequentialInv, Undisturbed
<1>4. Undisturbed'
  <2>1. pc'[c] = "idle"
    BY <1>0, <1>1 DEF TypeOK, Return
  <2>. QED  BY <2>1 DEF Undisturbed, Sequential
<1>5. EntriesKept'
  BY <1>1, <1>3 DEF SequentialInv, EntriesKept, Digest, Action
<1>6. NoRedundantEntry'
  BY <1>1 DEF SequentialInv, NoRedundantEntry
<1>7. (\A h \in handed : Digest(h.req) \in Digests)'
  BY <1>1, <1>2 DEF SequentialInv, Digest, Action
<1>. QED  BY <1>4, <1>5, <1>6, <1>7 DEF SequentialInv

(* A miss adds to the bucket what was not covered, or asked for afresh.    *)
LEMMA AssignSequential ==
  ASSUME SequentialInv, IInv', NEW c, Sequential(c), AssignBucket(c)
  PROVE  SequentialInv'
<1> DEFINE r == req[c]
           d == Digest(r)
           n == Len(data[d])
<1>0. TypeOK /\ IInv /\ c \in Callers
  BY DEF SequentialInv, IInv, Sequential
<1>1. /\ pc[c] = "assign"
      /\ handed' = handed \cup {[op |-> op[c], req |-> r]}
      /\ data' = [data EXCEPT ![d] = Append(snap[c], NewEntry(c))]
      /\ \E rep : Return(c, rep)
  BY DEF AssignBucket, HandOut
<1>2. /\ r \in Requests /\ HasAction(r.context, r.value)
      /\ HasDigest(Action(r)) /\ HasBuild(r.context)
      /\ snap[c] = data[d]
      /\ r.skip_caching \/ Candidates(r) = {}
  BY <1>0, <1>1 DEF IInv, CallsOK, GetOK, SequentialInv, Undisturbed
<1>3. d \in Digests
  BY <1>2, RequestedBuild, DigestType DEF Digest
<1>4. /\ NewEntry(c).action = Action(r)
      /\ NewEntry(c).operation = op[c]
  BY <1>2, RequestedBuild DEF NewEntry
<1>5. data[d] \in Seq(Entries) /\ n \in Nat /\ DOMAIN data[d] = 1 .. n
  BY <1>0, <1>3 DEF TypeOK
<1>6. /\ data'[d] = Append(data[d], NewEntry(c))
      /\ \A f \in Digests \ {d} : data'[f] = data[f]
  BY <1>0, <1>1, <1>2, <1>3 DEF TypeOK
<1>7. /\ DOMAIN data'[d] = 1 .. (n + 1)
      /\ \A i \in 1 .. n : data'[d][i] = data[d][i]
      /\ data'[d][n + 1] = NewEntry(c)
  BY <1>5, <1>6
<1>. HIDE DEF d, n
<1>8. Undisturbed'
  <2>1. pc'[c] = "idle"
    BY <1>0, <1>1 DEF TypeOK, Return
  <2>. QED  BY <2>1 DEF Undisturbed, Sequential
<1>9. \A h \in handed' : Digest(h.req) \in Digests
  BY <1>1, <1>3 DEF SequentialInv, d
<1>10. \A h \in handed' :
         \E i \in DOMAIN data'[Digest(h.req)] : data'[Digest(h.req)][i].operation = h.op
  <2>. SUFFICES ASSUME NEW h \in handed'
                PROVE  \E i \in DOMAIN data'[Digest(h.req)] : data'[Digest(h.req)][i].operation = h.op
    OBVIOUS
  <2>1. CASE h \in handed
    <3>1. PICK i \in DOMAIN data[Digest(h.req)] : data[Digest(h.req)][i].operation = h.op
      BY <2>1 DEF SequentialInv, EntriesKept
    <3>2. CASE Digest(h.req) = d
      BY <1>5, <1>7, <3>1, <3>2
    <3>3. CASE Digest(h.req) # d
      BY <1>6, <1>9, <3>1, <3>3
    <3>. QED  BY <3>2, <3>3
  <2>2. CASE h = [op |-> op[c], req |-> r]
    BY <1>4, <1>5, <1>7, <2>2 DEF d
  <2>. QED  BY <1>1, <2>1, <2>2
<1>11. \A f \in Digests : \A i, j \in DOMAIN data'[f] :
         i < j /\ Compatible(data'[f][j].action, data'[f][i].action) =>
           \E h \in handed' : h.op = data'[f][j].operation /\ h.req.skip_caching
  <2>. SUFFICES ASSUME NEW f \in Digests, NEW i \in DOMAIN data'[f], NEW j \in DOMAIN data'[f],
                       i < j, Compatible(data'[f][j].action, data'[f][i].action)
                PROVE  \E h \in handed' : h.op = data'[f][j].operation /\ h.req.skip_caching
    OBVIOUS
  <2>1. CASE f # d
    BY <1>1, <1>6, <2>1 DEF SequentialInv, NoRedundantEntry
  <2>2. CASE f = d /\ j # n + 1
    <3>1. i \in 1 .. n /\ j \in 1 .. n
      BY <1>5, <1>7, <2>2
    <3>2. PICK h \in handed : h.op = data[d][j].operation /\ h.req.skip_caching
      BY <1>3, <1>5, <1>7, <2>2, <3>1 DEF SequentialInv, NoRedundantEntry
    <3>. QED  BY <1>1, <1>7, <2>2, <3>1, <3>2
  <2>3. CASE f = d /\ j = n + 1
    <3>1. i \in 1 .. n
      BY <1>5, <1>7, <2>3
    <3>2. Compatible(Action(r), data[d][i].action)
      BY <1>4, <1>7, <2>3, <3>1
    <3>3. i \in Candidates(r)
      BY <1>5, <3>1, <3>2 DEF Candidates, d
    <3>4. r.skip_caching
      BY <1>2, <3>3
    <3>5. data'[f][j].operation = op[c]
      BY <1>4, <1>7, <2>3
    <3>6. [op |-> op[c], req |-> r] \in handed'
      BY <1>1
    <3>. QED  BY <3>4, <3>5, <3>6
  <2>. QED  BY <2>1, <2>2, <2>3
<1>12. EntriesKept' /\ NoRedundantEntry'
  BY <1>10, <1>11 DEF EntriesKept, NoRedundantEntry, Digest, Action
<1>. QED  BY <1>8, <1>9, <1>12 DEF SequentialInv, Digest, Action

(* With one call at a time and no restart, the buckets are as the calls    *)
(* that were served left them.                                             *)
THEOREM SequentialInvariance ==
  ASSUME NEW c, Sequential(c)
  PROVE  Spec => []SequentialInv
<1>1. Init => SequentialInv
  <2>. SUFFICES ASSUME Init PROVE SequentialInv
    OBVIOUS
  <2>1. IInv
    BY InitIInv
  <2>2. Undisturbed /\ EntriesKept /\ NoRedundantEntry /\ handed = {}
    BY DEF Init, Empty, Undisturbed, EntriesKept, NoRedundantEntry
  <2>. QED  BY <2>1, <2>2 DEF SequentialInv
<1>2. SequentialInv /\ IInv' /\ [Next]_vars => SequentialInv'
  <2>. SUFFICES ASSUME SequentialInv, IInv', [Next]_vars PROVE SequentialInv'
    OBVIOUS
  <2>1. ~BuilderRefuses(c) /\ ~BuilderUnreachable(c) /\ ~Crash
    BY DEF Sequential, BuilderRefuses, BuilderUnreachable, Crash
  <2>2. ~NoBuildAction(c)
    BY DEF Sequential, SequentialInv, IInv, CallsOK, GetOK, NoBuildAction
  <2>3. ASSUME \/ UNCHANGED vars \/ BuilderForgets \/ \E b \in BuilderOps : BuilderFinishes(b)
        PROVE  SequentialInv'
    <3>1. UNCHANGED <<maps, pc, calls, ghosts>>
      BY <2>3 DEF vars, BuilderForgets, BuilderFinishes
    <3>2. Undisturbed'
      BY <3>1 DEF SequentialInv, Undisturbed, Candidates, Digest, Action, maps, calls
    <3>. QED  BY <3>1, <3>2, QuietStays DEF maps, ghosts
  <2>4. CASE RejectGet(c) \/ AcceptGet(c) \/ \E o \in CacheOps : Poll(c, o)
    BY <2>4, QuietSequential
  <2>5. CASE GetOperationStep(c)
    BY <2>1, <2>5, QuietSequential DEF GetOperationStep
  <2>6. CASE GetStep(c)
    <3>1. CASE HitFinished(c) \/ HitOngoing(c)
      BY <3>1, HitSequential
    <3>2. CASE AssignBucket(c)
      BY <3>2, AssignSequential
    <3>. QED  BY <2>1, <2>2, <2>6, <3>1, <3>2, QuietSequential DEF GetStep
  <2>7. \A g \in Callers : g = c
    BY DEF Sequential
  <2>. QED  BY <2>1, <2>3, <2>4, <2>5, <2>6, <2>7 DEF Next
<1>. QED  BY <1>1, <1>2, Invariance, PTL DEF Spec

(* With one call at a time and no restart, every operation handed out      *)
(* stays in the bucket of its request: Put adds and keeps what is there.   *)
THEOREM EntriesAlwaysKept ==
  ASSUME NEW c, Sequential(c)
  PROVE  Spec => []EntriesKept
<1>1. SequentialInv => EntriesKept
  BY DEF SequentialInv
<1>. QED  BY <1>1, SequentialInvariance, PTL

(* With one call at a time and no restart, Get starts no build that an     *)
(* entry of the bucket covers, unless it was told to skip the cache.       *)
THEOREM NeverRedundant ==
  ASSUME NEW c, Sequential(c)
  PROVE  Spec => []NoRedundantEntry
<1>1. SequentialInv => NoRedundantEntry
  BY DEF SequentialInv
<1>. QED  BY <1>1, SequentialInvariance, PTL

-----------------------------------------------------------------------------
(* The refinement of the long-running operations                           *)

LEMMA NextAnswersOK ==
  ASSUME IInv, AnswersOK, [Next]_vars, NEW c, Sequential(c)
  PROVE  AnswersOK'
<1>t. TypeOK /\ c \in Callers /\ \A g \in Callers : g = c
  BY DEF IInv, Sequential
<1>a. (* AnswersOK', said of the only call *)
      ASSUME \A b \in BuilderOps : state'[b] = "done" => result'[b] \in Images,
             pc'[c] \in {"ask", "store"} => ~IsDone(op[c])',
             pc'[c] = "store" /\ ans'[c].done => ans'[c].image \in Images
      PROVE  AnswersOK'
  BY <1>a, <1>t DEF AnswersOK, IsDone
<1>r. \A b \in BuilderOps : state[b] = "done" => result[b] \in Images
  BY DEF AnswersOK
<1>1. CASE Restart /\ UNCHANGED builder
  BY <1>a, <1>r, <1>t, <1>1 DEF Restart, Empty, builder
<1>2. ASSUME NEW rep, Return(c, rep), UNCHANGED builder PROVE AnswersOK'
  <2>1. pc'[c] = "idle"
    BY <1>t, <1>2 DEF TypeOK, Return
  <2>. QED  BY <1>a, <1>r, <1>2, <2>1 DEF builder
<1>3. ASSUME NEW from, NEW to, Goto(c, from, to), to \notin {"ask", "store"},
             \A b \in BuilderOps : state'[b] = "done" => result'[b] \in Images
      PROVE  AnswersOK'
  <2>1. pc'[c] = to
    BY <1>t, <1>3 DEF TypeOK, Goto
  <2>. QED  BY <1>a, <1>3, <2>1
<1>4. ASSUME RejectGet(c) \/ AcceptGet(c) PROVE AnswersOK'
  BY <1>2, <1>3, <1>4, <1>r DEF RejectGet, AcceptGet, builder
<1>5. ASSUME GetStep(c) PROVE AnswersOK'
  <2>1. CASE HitFinished(c) \/ HitOngoing(c) \/ NoDigest(c) \/ AssignBucket(c)
    BY <1>2, <2>1 DEF HitFinished, HitOngoing, NoDigest, AssignBucket
  <2>2. CASE Find(c) \/ Miss(c) \/ Register(c) \/ ReadBucket(c)
    BY <1>3, <1>r, <2>2 DEF Find, Miss, Register, ReadBucket, builder
  <2>3. CASE CreateJob(c)
    <3>1. pc'[c] \in {"build", "lookup"} /\ UNCHANGED builder
      BY <1>t, <2>3 DEF TypeOK, CreateJob
    <3>. QED  BY <1>a, <1>r, <3>1 DEF builder
  <2>4. CASE CallBuilder(c)
    <3>1. \A b \in BuilderOps : state'[b] = "done" => result'[b] \in Images
      BY <1>r, <1>t, <2>4 DEF CallBuilder, Builder!Start, TypeOK, Builder!OpTypeOK
    <3>2. Goto(c, "build", "register")
      BY <2>4 DEF CallBuilder
    <3>. QED  BY <1>3, <3>1, <3>2
  <2>5. CASE NoBuildAction(c) \/ BuilderRefuses(c)
    BY <1>1, <2>5 DEF NoBuildAction, BuilderRefuses
  <2>. QED  BY <1>5, <2>1, <2>2, <2>3, <2>4, <2>5 DEF GetStep
<1>6. ASSUME GetOperationStep(c) PROVE AnswersOK'
  <2>1. CASE BuilderAnswers(c)
    <3>1. /\ pc[c] = "ask" /\ pc'[c] = "store" /\ op' = op
          /\ ans'[c] = [name |-> bop[c], done |-> state[bop[c]] = "done", image |-> result[bop[c]]]
          /\ UNCHANGED <<upstreamOperation, state, result>>
      BY <1>t, <2>1 DEF TypeOK, BuilderAnswers, Goto, maps, builder
    <3>2. ~IsDone(op[c])'
      BY <1>t, <3>1 DEF AnswersOK, IsDone
    <3>3. bop[c] \in BuilderOps
      BY <1>t, <3>1 DEF IInv, CallsOK, GetOperationOK
    <3>4. ans'[c].done => ans'[c].image \in Images
      <4>1. CASE state[bop[c]] = "done"
        <5>1. ans'[c].image = result[bop[c]]
          BY <3>1
        <5>. QED  BY <1>r, <3>3, <4>1, <5>1
      <4>2. CASE state[bop[c]] # "done"
        <5>1. (state[bop[c]] = "done") = FALSE
          BY <4>2
        <5>2. ans'[c] = [name |-> bop[c], done |-> FALSE, image |-> result[bop[c]]]
          BY ONLY <3>1, <5>1
        <5>3. ans'[c].done = FALSE
          BY <5>2
        <5>. QED  BY <5>3
      <4>. QED  BY <4>1, <4>2
    <3>. QED  BY <1>a, <1>r, <3>1, <3>2, <3>4
  <2>2. CASE BuilderUnreachable(c)
    BY <1>1, <2>2 DEF BuilderUnreachable
  <2>3. CASE Store(c)
    BY <1>2, <2>3 DEF Store
  <2>. QED  BY <1>6, <2>1, <2>2, <2>3 DEF GetOperationStep
<1>7. ASSUME NEW o \in CacheOps, Poll(c, o) PROVE AnswersOK'
  <2>1. CASE PollRemembered(c, o) \/ PollUnknown(c, o)
    BY <1>2, <2>1 DEF PollRemembered, PollUnknown
  <2>2. CASE PollDownstream(c, o)
    <3>1. /\ pc'[c] = "ask" /\ op'[c] = o /\ ~IsDone(o)
          /\ UNCHANGED <<upstreamOperation, state, result>>
      BY <1>t, <2>2 DEF TypeOK, PollDownstream, Goto, maps, builder
    <3>. QED  BY <1>a, <1>r, <3>1 DEF IsDone
  <2>. QED  BY <1>7, <2>1, <2>2 DEF Poll
<1>8. ASSUME \/ UNCHANGED vars \/ BuilderForgets \/ \E b \in BuilderOps : BuilderFinishes(b)
      PROVE  AnswersOK'
  <2>1. UNCHANGED <<maps, pc, calls>>
    BY <1>8 DEF vars, BuilderForgets, BuilderFinishes
  <2>2. \A b \in BuilderOps : state'[b] = "done" => result'[b] \in Images
    <3>1. CASE UNCHANGED vars
      BY <1>r, <3>1 DEF vars, builder
    <3>2. CASE BuilderForgets
      BY <1>r, <1>t, <3>2 DEF BuilderForgets, Builder!Forget, TypeOK, Builder!OpTypeOK
    <3>3. ASSUME NEW b \in BuilderOps, BuilderFinishes(b)
          PROVE  \A a \in BuilderOps : state'[a] = "done" => result'[a] \in Images
      <4>1. PICK r \in ImagesOf(b) : Builder!Finish(b, r)
        BY <3>3 DEF BuilderFinishes
      <4>2. r \in Images
        BY <4>1 DEF ImagesOf, Images
      <4>. QED  BY <1>r, <1>t, <4>1, <4>2 DEF Builder!Finish, TypeOK, Builder!OpTypeOK
    <3>. QED  BY <1>8, <3>1, <3>2, <3>3
  <2>. QED  BY <2>1, <2>2 DEF AnswersOK, IsDone, maps, calls
<1>9. CASE Crash
  BY <1>1, <1>9 DEF Crash
<1>. QED  BY <1>t, <1>4, <1>5, <1>6, <1>7, <1>8, <1>9 DEF Next

(* A step that gives no operation a build and stores no answer.            *)
LEMMA NothingServed ==
  ASSUME IInv, UNCHANGED <<downstreamOperation, upstreamOperation>>,
         \A b \in BuilderOps : state[b] # "unknown" => work'[b] = work[b]
  PROVE  UNCHANGED Served!opVars
<1>1. ASSUME NEW o \in CacheOps
      PROVE  /\ ServedAs(o)' = ServedAs(o)
             /\ ServedFor(o)' = ServedFor(o)
             /\ ServedImage(o)' = ServedImage(o)
  <2>1. o \in Registered => state[downstreamOperation[o]] # "unknown" /\ downstreamOperation[o] \in BuilderOps
    BY DEF Registered, IInv, DownstreamOK, Tied, TypeOK
  <2>. QED  BY <2>1 DEF ServedAs, ServedFor, ServedImage, Registered, IsDone
<1>. QED  BY <1>1 DEF Served!opVars

(* A new operation is registered: it is started for its build's work.      *)
LEMMA RegisterServes ==
  ASSUME IInv, NEW c \in Callers, Register(c)
  PROVE  Served!OpNext
<1>1. PICK o \in CacheOps \ (Registered \cup lost) :
        downstreamOperation' = [downstreamOperation EXCEPT ![o] = bop[c]]
  BY DEF Register
<1>2. /\ pc[c] = "register" /\ UNCHANGED <<upstreamOperation, builder>>
  BY DEF Register, Goto
<1>3. PICK w \in BuildRequests : w = work[bop[c]]
  BY <1>2, RequestedBuild, BuildRequestType DEF IInv, CallsOK, GetOK
<1>4. bop[c] # None /\ downstreamOperation[o] = None
  BY <1>1, <1>2, NamesAssumption DEF IInv, CallsOK, GetOK, Registered
<1>5. ~IsDone(o)
  <2>1. upstreamOperation[o] # None => upstreamOperation[o].name \in BuilderOps
    BY DEF IInv, TypeOK, Answers
  <2>. QED  BY <1>4, <2>1, NamesAssumption DEF IsDone, IInv, UpstreamOK
<1>6. ASSUME NEW q \in CacheOps
      PROVE  /\ ServedAs(q)' = IF q = o THEN "pending" ELSE ServedAs(q)
             /\ ServedFor(q)' = IF q = o THEN w ELSE ServedFor(q)
             /\ ServedImage(q)' = ServedImage(q)
  <2>1. downstreamOperation'[q] = IF q = o THEN bop[c] ELSE downstreamOperation[q]
    BY <1>1 DEF IInv, TypeOK
  <2>. QED  BY <1>2, <1>3, <1>4, <1>5, <2>1
            DEF ServedAs, ServedFor, ServedImage, Registered, IsDone, builder
<1>7. ServedAs(o) = "unknown"
  BY <1>4, <1>5 DEF ServedAs, Registered
<1>8. Served!Start(o, w)
  BY <1>6, <1>7 DEF Served!Start
<1>. QED  BY <1>8 DEF Served!OpNext

(* A done answer is stored, once; any other answer changes nothing.        *)
LEMMA StoreServes ==
  ASSUME IInv, AnswersOK, NEW c \in Callers, Store(c)
  PROVE  Served!OpNext \/ UNCHANGED Served!opVars
<1>1. /\ pc[c] = "store" /\ UNCHANGED <<downstreamOperation, builder>>
      /\ upstreamOperation' = [upstreamOperation EXCEPT ![op[c]] = ans[c]]
  BY DEF Store
<1>2. PICK o \in CacheOps, a \in Answers :
        /\ o = op[c] /\ a = ans[c] /\ o \in Registered /\ ~IsDone(o)
        /\ a.done => a.image \in Images
  BY <1>1, NamesAssumption DEF IInv, CallsOK, GetOperationOK, AnswersOK, Registered
<1>3. a # None /\ a.done \in BOOLEAN
  BY <1>2, AnswersAssumption DEF Answers
<1>4. ASSUME NEW q \in CacheOps
      PROVE  /\ upstreamOperation'[q] = IF q = o THEN a ELSE upstreamOperation[q]
             /\ (q \in Registered)' <=> q \in Registered
  BY <1>1, <1>2 DEF IInv, TypeOK, Registered
<1>5. ASSUME NEW q \in CacheOps
      PROVE  /\ ServedFor(q)' = ServedFor(q)
             /\ q # o \/ ~a.done => ServedAs(q)' = ServedAs(q) /\ ServedImage(q)' = ServedImage(q)
             /\ q = o /\ a.done => ServedAs(q)' = "done" /\ ServedImage(q)' = a.image
  <2>1. ServedFor(q)' = ServedFor(q)
    BY <1>1, <1>4 DEF ServedFor, builder
  <2>2. q # o \/ ~a.done => (IsDone(q)' <=> IsDone(q))
    BY <1>2, <1>4 DEF IsDone
  <2>3. q # o \/ ~a.done => ServedAs(q)' = ServedAs(q)
    BY <1>4, <2>2 DEF ServedAs
  <2>4. q # o \/ ~a.done => ServedImage(q)' = ServedImage(q)
    BY <1>2, <1>4, <2>2 DEF ServedImage
  <2>5. q = o /\ a.done => IsDone(q)'
    BY <1>3, <1>4 DEF IsDone
  <2>6. q = o /\ a.done => ServedAs(q)' = "done" /\ ServedImage(q)' = a.image
    BY <1>4, <2>5 DEF ServedAs, ServedImage
  <2>. QED  BY <2>1, <2>3, <2>4, <2>6
<1>6. CASE a.done
  <2>1. ServedAs(o) = "pending"
    BY <1>2 DEF ServedAs
  <2>2. Served!Finish(o, a.image)
    BY <1>5, <1>6, <2>1 DEF Served!Finish
  <2>. QED  BY <1>2, <1>6, <2>2 DEF Served!OpNext, Served!FinishSome
<1>7. CASE ~a.done
  BY <1>5, <1>7 DEF Served!opVars
<1>. QED  BY <1>6, <1>7

(* With one call at a time and no restart, the cache is what the API says: *)
(* an operation is pending when its name is given, and gets its result     *)
(* once, whatever the builder forgets.                                     *)
THEOREM SequentialServes ==
  ASSUME NEW c, Sequential(c)
  PROVE  Spec => ImplementsSequentially
<1>1. Init => AnswersOK /\ Served!OpInit
  <2>. SUFFICES ASSUME Init PROVE AnswersOK /\ Served!OpInit
    OBVIOUS
  <2>1. AnswersOK
    BY DEF Init, Empty, AnswersOK, Builder!OpInit
  <2>2. \A o \in CacheOps : ServedAs(o) = "unknown" /\ ServedFor(o) = None /\ ServedImage(o) = None
    BY DEF Init, Empty, ServedAs, ServedFor, ServedImage, IsDone, Registered
  <2>. QED  BY <2>1, <2>2 DEF Served!OpInit
<1>2. IInv /\ AnswersOK /\ [Next]_vars => AnswersOK'
  BY NextAnswersOK
<1>3. IInv /\ AnswersOK /\ [Next]_vars => [Served!OpNext]_(Served!opVars)
  <2>. SUFFICES ASSUME IInv, AnswersOK, [Next]_vars
                PROVE  Served!OpNext \/ UNCHANGED Served!opVars
    OBVIOUS
  <2>1. /\ c \in Callers /\ \A g \in Callers : g = c
        /\ ~BuilderRefuses(c) /\ ~BuilderUnreachable(c) /\ ~Crash
    BY DEF Sequential, BuilderRefuses, BuilderUnreachable, Crash
  <2>2. ~NoBuildAction(c)
    BY <2>1 DEF Sequential, IInv, CallsOK, GetOK, NoBuildAction
  <2>3. CASE Register(c)
    BY <2>1, <2>3, RegisterServes
  <2>4. CASE Store(c)
    BY <2>1, <2>4, StoreServes
  <2>5. ASSUME GetStep(c), ~Register(c), ~CallBuilder(c)
        PROVE  UNCHANGED <<downstreamOperation, upstreamOperation, work>>
    BY <2>1, <2>2, <2>5 DEF GetStep, CreateJob, Find, HitFinished, HitOngoing, Miss, NoDigest,
       ReadBucket, AssignBucket, maps, builder
  <2>6. ASSUME GetOperationStep(c), ~Store(c)
        PROVE  UNCHANGED <<downstreamOperation, upstreamOperation, work>>
    BY <2>1, <2>6 DEF GetOperationStep, BuilderAnswers, maps, builder
  <2>7. ASSUME \/ RejectGet(c) \/ AcceptGet(c) \/ \E o \in CacheOps : Poll(c, o)
               \/ UNCHANGED vars \/ BuilderForgets \/ \E b \in BuilderOps : BuilderFinishes(b)
        PROVE  UNCHANGED <<downstreamOperation, upstreamOperation, work>>
    BY <2>7 DEF RejectGet, AcceptGet, Poll, PollRemembered, PollDownstream, PollUnknown,
       BuilderForgets, BuilderFinishes, Builder!Forget, Builder!Finish, vars, maps, builder
  <2>8. ASSUME CallBuilder(c)
        PROVE  /\ UNCHANGED <<downstreamOperation, upstreamOperation>>
               /\ \A b \in BuilderOps : state[b] # "unknown" => work'[b] = work[b]
    BY <2>8 DEF CallBuilder, Builder!Start, IInv, TypeOK, Builder!OpTypeOK, maps
  <2>. QED  BY <2>1, <2>3, <2>4, <2>5, <2>6, <2>7, <2>8, NothingServed DEF Next
<1>. QED  BY <1>1, <1>2, <1>3, Invariance, PTL DEF Spec, ImplementsSequentially, Served!OpSpec
=============================================================================
