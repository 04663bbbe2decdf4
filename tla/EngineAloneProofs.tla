------------------------- MODULE EngineAloneProofs -------------------------
(***************************************************************************)
(* What evalctl relies on without knowing it: as long as it asks for one   *)
(* value at a time, nobody kills the cache by asking for a value without a *)
(* build, and neither the engine nor the database fails, the engine never  *)
(* receives the answer of the cache that it cannot read, however often the *)
(* builder is restarted.                                                   *)
(***************************************************************************)
EXTENDS EngineProofs

Alone == Faults \subseteq {"builder"} /\ \A r \in Requests : Len(r) = 1

(* What evaluation f has, but for the state of its operation.              *)
SameEvaluation(f) ==
  /\ client'[f] = client[f] /\ wanted'[f] = wanted[f] /\ pc'[f] = pc[f]
  /\ ahead'[f] = ahead[f] /\ left'[f] = left[f] /\ done'[f] = done[f]
  /\ current'[f] = current[f]
  /\ \A r : r.evaluation = f => (r \in operations' <=> r \in operations)

LEMMA RowsType ==
  ASSUME TypeOK, NEW e \in Evaluations, NEW r \in Rows(e)
  PROVE  r \in Operation /\ r.dependent \in CacheOps
BY DEF TypeOK, Rows, Operation

(* A step of evaluation e that keeps what is required of e, and leaves     *)
(* alone the operations that others poll.                                  *)
LEMMA StepAlone ==
  ASSUME IInv, Calm, IInv', NEW e \in Evaluations,
         \A f \in Evaluations \ {e} : SameEvaluation(f),
         \A f \in Evaluations \ {e} : Polls(f) =>
           \A r \in Rows(f) : cached'[r.dependent] = cached[r.dependent],
         \A o \in CacheOps : cached'[o] # "lost",
         down' = down,
         AloneOK(e)',
         Polls(e)' => \A r \in Rows(e)' :
           (Polls(e) /\ r \in Rows(e)) \/ cached[r.dependent] = "unknown"
  PROVE  Calm'
<1>1. ASSUME NEW f \in Evaluations \ {e}
      PROVE  Rows(f)' = Rows(f) /\ (Polls(f)' <=> Polls(f))
  BY <1>1 DEF SameEvaluation, Rows, Polls
<1>2. ASSUME NEW f \in Evaluations \ {e} PROVE AloneOK(f)'
  <2>1. AloneOK(f)
    BY DEF Calm
  <2>. QED  BY <1>1, <2>1 DEF SameEvaluation, AloneOK
<1>3. ASSUME NEW f \in Evaluations \ {e}, Polls(e)', Polls(f),
             NEW r \in Rows(e)', NEW s \in Rows(f)
      PROVE  r.dependent # s.dependent
  <2>1. CASE Polls(e) /\ r \in Rows(e)
    BY <1>3, <2>1 DEF Calm, Apart
  <2>2. CASE cached[r.dependent] = "unknown"
    <3>1. cached[s.dependent] \in {"pending", "done"}
      BY <1>3 DEF Calm, AloneOK
    <3>. QED  BY <2>2, <3>1
  <2>. QED  BY <1>3, <2>1, <2>2
<1>4. Apart'
  <2>. SUFFICES ASSUME NEW f \in Evaluations, NEW g \in Evaluations, f # g, Polls(f)', Polls(g)',
                       NEW r \in Rows(f)', NEW s \in Rows(g)'
                PROVE  r.dependent # s.dependent
    BY DEF Apart
  <2>1. CASE f = e
    BY <1>1, <1>3, <2>1
  <2>2. CASE g = e
    <3>1. Rows(f)' = Rows(f) /\ Polls(f)
      BY <1>1, <2>2
    <3>. QED  BY <1>3, <2>2, <3>1
  <2>3. CASE f # e /\ g # e
    BY <1>1, <2>3 DEF Calm, Apart
  <2>. QED  BY <2>1, <2>2, <2>3
<1>. QED  BY <1>2, <1>4 DEF Calm

-----------------------------------------------------------------------------
(* The steps of Eval                                                       *)

(* evalctl ends for want of a graph, or calls.                             *)
LEMMA StartAlone ==
  ASSUME IInv, Calm, IInv', Alone, NEW e \in Evaluations, UnknownGraph(e) \/ CallEval(e)
  PROVE  Calm'
<1>t. TypeOK /\ AloneOK(e) /\ ~down
  BY DEF Calm, IInv
<1>1. /\ client[e] = "start" /\ Rows(e) = {} /\ pc[e] = "idle" /\ done[e]
      /\ UNCHANGED <<left, done, current, operations, cached, down>>
  BY <1>t DEF UnknownGraph, CallEval, AloneOK, calls, database, cache
<1>2. ASSUME NEW f \in Evaluations \ {e} PROVE SameEvaluation(f)
  BY <1>t, <1>1 DEF SameEvaluation, UnknownGraph, CallEval, Asks, calls, TypeOK
<1>3. Rows(e)' = {}
  BY <1>1 DEF Rows
<1>4. AloneOK(e)'
  <2>1. CASE UnknownGraph(e)
    <3>1. PICK r \in Requests : (\E i \in DOMAIN r : r[i] \notin Known) /\ Asks(e, r)
      BY <2>1 DEF UnknownGraph
    <3>2. r \in Seq(Values) /\ Len(r) = 1
      BY RequestsAssumption DEF Alone
    <3>3. r[1] \notin Buildable
      BY <3>1, <3>2, RequestsAssumption
    <3>4. wanted'[e] = r /\ client'[e] = "failed" /\ pc' = pc /\ ahead' = ahead
      BY <1>t, <2>1, <3>1 DEF UnknownGraph, Asks, TypeOK, calls
    <3>. QED  BY <1>t, <1>1, <1>3, <3>3, <3>4 DEF AloneOK, Polls
  <2>2. CASE CallEval(e)
    <3>1. PICK r \in Requests : Asks(e, r) /\ ahead' = [ahead EXCEPT ![e] = r]
      BY <2>2 DEF CallEval
    <3>2. /\ wanted'[e] = r /\ ahead'[e] = r /\ pc'[e] = "get" /\ client'[e] = "waiting"
      BY <1>t, <2>2, <3>1 DEF CallEval, Asks, TypeOK
    <3>. QED  BY <1>t, <1>1, <1>3, <3>1, <3>2 DEF AloneOK, Polls
  <2>. QED  BY <2>1, <2>2
<1>. QED  BY <1>1, <1>2, <1>3, <1>4, StepAlone DEF Calm

(* Who hits is done; who misses polls an operation that nobody had.        *)
LEMMA GetAlone ==
  ASSUME IInv, Calm, IInv', Alone, NEW e \in Evaluations, Hit(e) \/ Miss(e)
  PROVE  Calm'
<1>t. TypeOK /\ AloneOK(e) /\ ~down
  BY DEF Calm, IInv
<1>1. /\ pc[e] = "get" /\ ahead[e] # <<>> /\ ahead[e] = wanted[e] /\ Rows(e) = {} /\ done[e]
      /\ client[e] = "waiting" /\ down' = down
  BY <1>t DEF Hit, Miss, Reaching, Getting, cache, AloneOK, Calm, IInv, CallOK
<1>2. PICK o \in CacheOps, over \in BOOLEAN :
        /\ \E x : Got(e, o, over, x)
        /\ over => cached' = cached
        /\ ~over => cached[o] = "unknown" /\ cached' = [cached EXCEPT ![o] = "pending"]
  BY DEF Hit, Miss, Promise!Give, cache
<1>3. /\ UNCHANGED <<client, wanted, pc, current, operations>>
      /\ ahead' = [ahead EXCEPT ![e] = Tail(@)]
      /\ left' = [left EXCEPT ![e] = {r \in @ : r.value # Value(e)} \cup {Record(e, o, Value(e))}]
      /\ done' = [done EXCEPT ![e] = @ /\ over]
  BY <1>2 DEF Got, evalctl, database
<1>4. ASSUME NEW f \in Evaluations \ {e} PROVE SameEvaluation(f)
  BY <1>t, <1>3 DEF SameEvaluation, TypeOK
<1>5. ahead'[e] = <<>>
  <2>1. wanted[e] \in Seq(Values) /\ Len(wanted[e]) = 1
    BY <1>t, <1>1, RequestsAssumption DEF AloneOK, Alone
  <2>2. ahead'[e] = Tail(wanted[e])
    BY <1>t, <1>1, <1>3 DEF TypeOK
  <2>3. wanted[e] # <<>>
    BY <1>1
  <2>4. Tail(wanted[e]) \in Seq(Values) /\ Len(Tail(wanted[e])) = 0
    BY <2>1, <2>3
  <2>5. \A q \in Seq(Values) : Len(q) = 0 => q = <<>>
    OBVIOUS
  <2>. QED  BY <2>2, <2>4, <2>5
<1>6. Rows(e)' = {Record(e, o, Value(e))} /\ left'[e] = {Record(e, o, Value(e))}
  BY <1>t, <1>1, <1>3 DEF Rows, TypeOK
<1>7. done'[e] = over
  BY <1>t, <1>1, <1>3 DEF TypeOK
<1>8. Record(e, o, Value(e)).evaluation = e /\ Record(e, o, Value(e)).dependent = o
  BY DEF Record
<1>9. ~over => cached'[o] = "pending"
  BY <1>t, <1>2 DEF TypeOK
<1>10. current[e] = None
  BY <1>1 DEF Calm, IInv, CallOK
<1>11. AloneOK(e)'
  BY <1>t, <1>1, <1>3, <1>5, <1>6, <1>7, <1>8, <1>9, <1>10 DEF AloneOK, Polls
<1>12. Polls(e)' => \A r \in Rows(e)' : cached[r.dependent] = "unknown"
  BY <1>1, <1>2, <1>3, <1>6, <1>7, <1>8 DEF Polls
<1>13. ASSUME NEW f \in Evaluations \ {e}, Polls(f), NEW r \in Rows(f)
       PROVE  cached'[r.dependent] = cached[r.dependent]
  <2>1. r.dependent \in CacheOps /\ cached[r.dependent] # "unknown"
    BY <1>t, <1>13, RowsType DEF Calm, AloneOK
  <2>. QED  BY <1>t, <1>2, <2>1 DEF TypeOK
<1>14. \A q \in CacheOps : cached'[q] # "lost"
  BY <1>t, <1>2 DEF Calm, TypeOK
<1>. QED  BY <1>4, <1>11, <1>12, <1>13, <1>14, <1>1, StepAlone

(* The cache refuses a value that does not exist, and nothing else.        *)
LEMMA FailsAlone ==
  ASSUME IInv, Calm, IInv', Alone, NEW e \in Evaluations, GetFails(e)
  PROVE  Calm'
<1>t. TypeOK /\ AloneOK(e) /\ ~down
  BY DEF Calm, IInv
<1>1. /\ pc[e] = "get" /\ ahead[e] # <<>> /\ ahead[e] = wanted[e] /\ Rows(e) = {}
      /\ client[e] = "waiting" /\ Value(e) \notin Buildable
      /\ Fail(e) /\ UNCHANGED <<operations, cached, down>>
  BY <1>t DEF GetFails, Getting, Alone, AloneOK, Calm, IInv, CallOK, database, cache
<1>2. /\ UNCHANGED <<wanted, current>>
      /\ client'[e] = "failed" /\ pc'[e] = "idle" /\ ahead'[e] = <<>> /\ left'[e] = {} /\ done'[e]
      /\ current[e] = None
  BY <1>t, <1>1 DEF Fail, CallEnds, TypeOK, Calm, IInv, CallOK
<1>3. ASSUME NEW f \in Evaluations \ {e} PROVE SameEvaluation(f)
  BY <1>t, <1>1 DEF SameEvaluation, Fail, CallEnds, TypeOK
<1>4. AloneOK(e)'
  BY <1>t, <1>1, <1>2 DEF AloneOK, Polls, Value
<1>5. ~Polls(e)'
  BY <1>2 DEF Polls
<1>. QED  BY <1>1, <1>3, <1>4, <1>5, StepAlone DEF Calm

(* The operation is written.                                               *)
LEMMA SaveAlone ==
  ASSUME IInv, Calm, IInv', Alone, NEW e \in Evaluations, SaveOperation(e)
  PROVE  Calm'
<1>t. TypeOK /\ AloneOK(e) /\ ~down
  BY DEF Calm, IInv
<1>1. /\ pc[e] = "get" /\ ahead[e] = <<>> /\ client[e] = "waiting" /\ current[e] = None
      /\ UNCHANGED <<client, wanted, pc, ahead, done, current, cached, down>>
  BY DEF SaveOperation, Writing, Calm, IInv, CallOK, evalctl, cache
<1>2. PICK r \in left[e] :
        /\ left' = [left EXCEPT ![e] = @ \ {r}]
        /\ operations' = operations \cup {r}
  BY DEF SaveOperation, Alone
<1>3. r.evaluation = e
  BY <1>t DEF AloneOK
<1>4. ASSUME NEW f \in Evaluations \ {e} PROVE SameEvaluation(f)
  BY <1>t, <1>1, <1>2, <1>3 DEF SameEvaluation, TypeOK
<1>5. Rows(e)' = Rows(e) /\ left'[e] \subseteq left[e]
  BY <1>t, <1>2, <1>3 DEF Rows, TypeOK
<1>6. AloneOK(e)'
  BY <1>t, <1>1, <1>5 DEF AloneOK, Polls
<1>7. Polls(e)' => Polls(e)
  BY <1>1 DEF Polls
<1>. QED  BY <1>1, <1>4, <1>5, <1>6, <1>7, StepAlone DEF Calm

(* A reply is the last, or the operation is still pending.                 *)
LEMMA ReplyAlone ==
  ASSUME IInv, Calm, IInv', Alone, NEW e \in Evaluations, SaveEvaluation(e) \/ PollReply(e)
  PROVE  Calm'
<1>t. TypeOK /\ AloneOK(e) /\ ~down
  BY DEF Calm, IInv
<1>1. PICK end \in {"served", "finished"} : Reply(e, end)
  BY DEF SaveEvaluation, PollReply
<1>2. /\ UNCHANGED <<wanted, current, operations, cached, down>>
      /\ left[e] = {} /\ client[e] = "waiting"
      /\ pc[e] = "ask" \/ (pc[e] = "get" /\ ahead[e] = <<>>)
  BY <1>1 DEF SaveEvaluation, PollReply, Writing, Reply, CallEnds, Calm, IInv, CallOK, database, cache
<1>3. /\ client'[e] = IF done[e] THEN end ELSE "polling"
      /\ pc'[e] = "idle" /\ ahead'[e] = <<>> /\ left'[e] = {} /\ done'[e]
      /\ current[e] = None
  BY <1>t, <1>1, <1>2 DEF Reply, CallEnds, TypeOK, Calm, IInv, CallOK
<1>4. ASSUME NEW f \in Evaluations \ {e} PROVE SameEvaluation(f)
  BY <1>t, <1>1, <1>2 DEF SameEvaluation, Reply, CallEnds, TypeOK
<1>5. Rows(e)' = Rows(e)
  BY <1>2, <1>3 DEF Rows
<1>6. Polls(e)' => ~done[e] /\ Polls(e)
  BY <1>2, <1>3 DEF Polls
<1>7. AloneOK(e)'
  BY <1>t, <1>2, <1>3, <1>5, <1>6 DEF AloneOK
<1>. QED  BY <1>2, <1>4, <1>5, <1>6, <1>7, StepAlone DEF Calm

-----------------------------------------------------------------------------
(* The steps of GetOperation                                               *)

(* The poll reads the operation back, and asks about it.                   *)
LEMMA PollAlone ==
  ASSUME IInv, Calm, IInv', Alone, NEW e \in Evaluations, Poll(e) \/ Ask(e)
  PROVE  Calm'
<1>t. TypeOK /\ AloneOK(e) /\ ~down
  BY DEF Calm, IInv
<1>1. UNCHANGED <<wanted, ahead, done, operations, cached, down>>
  BY DEF Poll, Ask, evalctl, database, cache
<1>2. ASSUME NEW f \in Evaluations \ {e} PROVE SameEvaluation(f)
  <2>1. client'[f] = client[f] /\ pc'[f] = pc[f] /\ left'[f] = left[f] /\ current'[f] = current[f]
    BY <1>t, <1>2 DEF Poll, Ask, evalctl, TypeOK, Alone
  <2>. QED  BY <1>1, <2>1 DEF SameEvaluation
<1>3. CASE Poll(e)
  <2>1. /\ client[e] = "polling" /\ pc[e] = "idle" /\ done[e] /\ current[e] = None
        /\ client'[e] = "waiting" /\ pc'[e] = "ask" /\ current' = current
        /\ left'[e] = Preload(e)
    BY <1>t, <1>3 DEF Poll, Alone, TypeOK, AloneOK, Calm, IInv, CallOK
  <2>2. Rows(e)' \subseteq Rows(e) /\ \A r \in left'[e] : r.evaluation = e
    BY <1>1, <2>1 DEF Rows, Preload
  <2>3. Polls(e)
    BY <2>1 DEF Polls
  <2>4. AloneOK(e)'
    BY <1>t, <1>1, <2>1, <2>2, <2>3 DEF AloneOK
  <2>. QED  BY <1>1, <1>2, <2>2, <2>3, <2>4, StepAlone DEF Calm
<1>4. CASE Ask(e)
  <2>1. PICK r \in left[e] : cached[r.dependent] = "pending" /\ current'[e] = r
    BY <1>t, <1>4 DEF Ask, TypeOK
  <2>2. /\ pc[e] = "ask" /\ pc'[e] = "store" /\ UNCHANGED <<client, left>> /\ done[e]
        /\ client[e] = "waiting"
    BY <1>t, <1>4, <2>1 DEF Ask, TypeOK, AloneOK, Calm, IInv, CallOK, evalctl
  <2>3. Rows(e)' = Rows(e) /\ Polls(e)
    BY <1>1, <2>2 DEF Rows, Polls
  <2>4. AloneOK(e)'
    BY <1>t, <1>1, <2>1, <2>2, <2>3 DEF AloneOK
  <2>. QED  BY <1>1, <1>2, <2>3, <2>4, StepAlone DEF Calm
<1>. QED  BY <1>3, <1>4

(* The cache learns that the operation is done: the call was about nothing *)
(* else, so its reply is "done" too.                                       *)
LEMMA StoreAlone ==
  ASSUME IInv, Calm, IInv', Alone, NEW e \in Evaluations, Store(e)
  PROVE  Calm'
<1>t. TypeOK /\ AloneOK(e) /\ ~down
  BY DEF Calm, IInv
<1> DEFINE r == current[e]
<1>1. /\ pc[e] = "store" /\ done[e] /\ client[e] = "waiting" /\ Polls(e)
      /\ r \in left[e] /\ r \in Rows(e) /\ r \in Operation
  BY <1>t DEF Store, AloneOK, Calm, IInv, CallOK, Polls, Rows, TypeOK
<1>2. PICK over \in BOOLEAN :
        /\ Promise!Remember(r.dependent, over)
        /\ done' = [done EXCEPT ![e] = @ /\ over]
  BY DEF Store, Over
<1>3. UNCHANGED <<client, wanted, ahead, operations, down>>
  BY DEF Store, evalctl, database
<1>4. /\ left' = [left EXCEPT ![e] = @ \ {r}]
      /\ pc' = [pc EXCEPT ![e] = "ask"]
      /\ current' = [current EXCEPT ![e] = None]
  BY DEF Store, NextOperation
<1>5. ASSUME NEW f \in Evaluations \ {e} PROVE SameEvaluation(f)
  BY <1>t, <1>2, <1>3, <1>4 DEF SameEvaluation, TypeOK
<1>6. \A s \in Rows(e) : s = r
  BY <1>t, <1>1 DEF AloneOK
<1>7. left'[e] = {} /\ Rows(e)' \subseteq {r}
  BY <1>t, <1>3, <1>4, <1>6 DEF Rows, TypeOK
<1>8. r.dependent \in CacheOps
  BY <1>1 DEF Operation
<1>9. \A q \in CacheOps : cached'[q] = IF q = r.dependent THEN IF over THEN "done" ELSE "pending"
                                       ELSE cached[q]
  BY <1>t, <1>2, <1>8 DEF Promise!Remember, TypeOK
<1>10. pc'[e] = "ask" /\ current'[e] = None /\ done'[e] = over
  BY <1>t, <1>1, <1>2, <1>4 DEF TypeOK
<1>. HIDE DEF r
<1>11. AloneOK(e)'
  BY <1>t, <1>1, <1>3, <1>7, <1>8, <1>9, <1>10 DEF AloneOK
<1>12. ASSUME NEW f \in Evaluations \ {e}, Polls(f), NEW s \in Rows(f)
       PROVE  cached'[s.dependent] = cached[s.dependent]
  <2>1. s.dependent \in CacheOps /\ s.dependent # r.dependent
    BY <1>t, <1>1, <1>12, RowsType DEF Calm, Apart
  <2>. QED  BY <1>9, <2>1
<1>13. \A q \in CacheOps : cached'[q] # "lost"
  BY <1>9 DEF Calm
<1>. QED  BY <1>1, <1>5, <1>7, <1>11, <1>12, <1>13, <1>3, StepAlone

(* The answers that the engine cannot read, and the faults, do not happen. *)
LEMMA NoExit ==
  ASSUME IInv, Calm, Alone, NEW e \in Evaluations
  PROVE  ~AskAgain(e) /\ ~AskLost(e) /\ ~AskFails(e) /\ ~SaveFails(e)
<1>1. ASSUME NEW r \in left[e], pc[e] = "ask" PROVE cached[r.dependent] = "pending"
  BY <1>1 DEF Calm, AloneOK, Polls, Rows
<1>2. ASSUME pc[e] = "store" PROVE cached[current[e].dependent] # "lost"
  <2>1. current[e] \in Operation
    BY <1>2 DEF IInv, TypeOK, CallOK
  <2>. QED  BY <2>1 DEF Operation, Calm
<1>3. ~down
  BY DEF Calm
<1>. QED  BY <1>1, <1>2, <1>3 DEF AskAgain, AskLost, AskFails, SaveFails, Alone

(* A run that has failed stays as it is, and so the harm it has done.      *)
LEMMA HarmStays ==
  ASSUME IInv, [Next]_vars, Harmed
  PROVE  Harmed'
<1>1. PICK f \in Evaluations : client[f] = "failed" /\ wanted[f][1] \in Fatal
  BY DEF Harmed
<1>t. TypeOK /\ CallOK(f)
  BY DEF IInv
<1>. SUFFICES client'[f] = "failed" /\ wanted'[f] = wanted[f]
  BY <1>1 DEF Harmed
<1>2. ASSUME NEW e \in Evaluations, UnknownGraph(e) \/ CallEval(e) \/ Poll(e)
      PROVE  client'[f] = "failed" /\ wanted'[f] = wanted[f]
  BY <1>1, <1>t, <1>2 DEF TypeOK, UnknownGraph, CallEval, Poll, Asks
<1>3. ASSUME NEW e \in Evaluations, Fail(e) \/ (pc[e] # "idle" /\ \E end : Reply(e, end))
      PROVE  client'[f] = "failed" /\ wanted'[f] = wanted[f]
  BY <1>1, <1>t, <1>3 DEF TypeOK, CallOK, Fail, Reply
<1>4. ASSUME EngineExits
      PROVE  client'[f] = "failed" /\ wanted'[f] = wanted[f]
  BY <1>1, <1>4 DEF EngineExits
<1>5. ASSUME NEW e \in Evaluations, EvalStep(e) \/ GetOperationStep(e)
      PROVE  client'[f] = "failed" /\ wanted'[f] = wanted[f]
  <2>1. CASE GetFails(e) \/ GetPanics(e) \/ SaveFails(e)
    BY <1>3, <2>1 DEF GetFails, GetPanics, SaveFails
  <2>2. CASE SaveEvaluation(e) \/ PollReply(e)
    BY <1>3, <2>2 DEF SaveEvaluation, PollReply, Writing
  <2>3. CASE AskAgain(e) \/ AskLost(e) \/ AskFails(e)
    BY <1>4, <2>3 DEF AskAgain, AskLost, AskFails
  <2>4. CASE Hit(e) \/ Miss(e) \/ SaveOperation(e) \/ Ask(e) \/ Store(e)
    BY <1>1, <2>4 DEF Hit, Miss, Got, SaveOperation, Ask, Store, evalctl
  <2>. QED  BY <1>5, <2>1, <2>2, <2>3, <2>4 DEF EvalStep, GetOperationStep
<1>6. ASSUME \/ UNCHANGED vars \/ CacheRestarts \/ CacheStarts
             \/ \E o \in CacheOps : BuilderFinishes(o)
      PROVE  client'[f] = "failed" /\ wanted'[f] = wanted[f]
  BY <1>1, <1>6 DEF CacheRestarts, CacheStarts, BuilderFinishes, vars, evalctl
<1>7. CASE EngineCrash
  BY <1>4, <1>7 DEF EngineCrash
<1>. QED  BY <1>2, <1>5, <1>6, <1>7 DEF Next

(* The run whose value makes the cache panic is the one that has failed.   *)
LEMMA PanicHarms ==
  ASSUME IInv, Calm, Alone, NEW e \in Evaluations, GetPanics(e)
  PROVE  Harmed'
<1>1. /\ Value(e) \in Fatal /\ ahead[e] = wanted[e]
      /\ Fail(e)
  BY DEF GetPanics, Reaching, Getting, Calm, AloneOK
<1>2. client'[e] = "failed" /\ wanted'[e][1] = Value(e)
  BY <1>1 DEF Fail, IInv, TypeOK, Value
<1>. QED  BY <1>1, <1>2 DEF Harmed

(* The inductive invariant: until a run kills the cache, each evaluation   *)
(* polls an operation of its own.                                          *)
THEOREM AloneInvariance ==
  ASSUME Alone
  PROVE  Spec => []AloneInv
<1>1. Init => AloneInv
  <2>. SUFFICES ASSUME Init PROVE AloneInv
    OBVIOUS
  <2>1. ASSUME NEW e \in Evaluations PROVE Rows(e) = {} /\ ~Polls(e)
    BY DEF Init, All, Rows, Polls
  <2>2. ASSUME NEW e \in Evaluations PROVE AloneOK(e)
    BY <2>1 DEF Init, All, AloneOK
  <2>3. Apart /\ ~down /\ \A o \in CacheOps : cached[o] # "lost"
    BY <2>1 DEF Init, Apart, Promise!PromiseInit
  <2>. QED  BY <2>2, <2>3, InitIInv DEF AloneInv, Calm
<1>2. IInv /\ Calm /\ IInv' /\ [Next]_vars => Calm' \/ Harmed'
  <2>. SUFFICES ASSUME IInv, Calm, IInv', [Next]_vars, ~Harmed' PROVE Calm'
    OBVIOUS
  <2>1. ~EngineCrash /\ ~CacheRestarts /\ ~CacheStarts
    BY DEF Alone, EngineCrash, CacheRestarts, CacheStarts, Calm
  <2>2. ASSUME UNCHANGED vars \/ \E o \in CacheOps : BuilderFinishes(o) PROVE Calm'
    <3>1. UNCHANGED <<client, wanted, pc, ahead, left, done, current, operations, cached, down>>
      BY <2>2 DEF BuilderFinishes, vars, evalctl, calls, database, cache
    <3>2. \A e \in Evaluations : Rows(e)' = Rows(e) /\ (Polls(e)' <=> Polls(e))
      BY <3>1 DEF Rows, Polls
    <3>3. ASSUME NEW e \in Evaluations PROVE AloneOK(e)'
      BY <3>1, <3>2 DEF Calm, AloneOK
    <3>4. Apart'
      BY <3>2 DEF Calm, Apart
    <3>. QED  BY <3>1, <3>3, <3>4 DEF Calm
  <2>3. ASSUME NEW e \in Evaluations, UnknownGraph(e) \/ CallEval(e) PROVE Calm'
    BY <2>3, StartAlone
  <2>4. ASSUME NEW e \in Evaluations, EvalStep(e) PROVE Calm'
    BY <2>4, GetAlone, FailsAlone, PanicHarms, SaveAlone, ReplyAlone, NoExit DEF EvalStep
  <2>5. ASSUME NEW e \in Evaluations, Poll(e) \/ GetOperationStep(e) PROVE Calm'
    BY <2>5, PollAlone, StoreAlone, ReplyAlone, NoExit DEF GetOperationStep
  <2>. QED  BY <2>1, <2>2, <2>3, <2>4, <2>5 DEF Next
<1>3. AloneInv /\ IInv' /\ [Next]_vars => AloneInv'
  BY <1>2, HarmStays DEF AloneInv
<1>. QED  BY <1>1, <1>3, EngineInvariance, PTL DEF Spec

(* One value per evaluation, as evalctl has it, and no fault but a builder *)
(* that forgets what is done: a run of evalctl fails only for a value that *)
(* does not exist, or because some run asked for a value without a build,  *)
(* which kills the cache and with it the engine.  The engine's exit on the *)
(* answer to a second question about a done operation is never the cause.  *)
THEOREM FailsOnlyWhenRefused ==
  ASSUME Alone
  PROVE  Spec => []FailsOnlyIfRefused
<1>1. AloneInv => FailsOnlyIfRefused
  BY DEF AloneInv, Calm, AloneOK, FailsOnlyIfRefused
<1>. QED  BY <1>1, AloneInvariance, PTL
=============================================================================
