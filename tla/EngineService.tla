--------------------------- MODULE EngineService ---------------------------
(***************************************************************************)
(* The engine, cmd/engine/main.go, with its client, evalctl, and the cache *)
(* as both see it.  Eval asks the cache for every value in turn, writes an *)
(* evaluation to the database, and answers at once; GetOperation reads the *)
(* evaluation back and asks the cache about each of its operations.        *)
(*                                                                         *)
(* An evaluation is one run of evalctl, which calls Eval once and polls    *)
(* GetOperation, one call after the other, until it is told done.  The     *)
(* engine keeps nothing in memory between calls.  An unexpected answer     *)
(* ends its process, and with it all the calls it is serving.              *)
(*                                                                         *)
(* The image of a build is named after the cache's operation o: it stands  *)
(* for what the builder says is the image of o, be it the empty one, which *)
(* a builder that was restarted meanwhile tells.  The cache keeps its      *)
(* operations as CachePromise says; its replies are a hit, which is always *)
(* "done", a miss, the builder's answer, once, and from then on the        *)
(* builder's own message.                                                  *)
(*                                                                         *)
(* A definition marked "Mutant" is a plausible mistake in the one after    *)
(* it, there to be put in its place to see that a property notices.        *)
(***************************************************************************)
EXTENDS Naturals, Sequences, FiniteSets

CONSTANTS Evaluations,  \* evaluation ids (UUIDs), each drawn by one Eval
          Values,       \* names of values, each with its substitutions
          Known,        \* the values whose graph evalctl knows
          Buildable,    \* of these, the values the graph has a build for
          Fatal,        \* of these, the values the graph has, but no build
          Covers,       \* which values the build of a value is good for too
          Requests,     \* the lists of values clients ask for
          CacheOps,     \* operation names the cache draws: enough for every
                        \* value of every evaluation
          None,         \* no value, no row
          Faults        \* which faults happen, see below

(* A row of the table of operations.                                       *)
Operation == [evaluation : Evaluations, dependent : CacheOps, value : Values]

ASSUME RequestsAssumption ==
  /\ Buildable \subseteq Known
  /\ Fatal \subseteq Known \ Buildable
  /\ Known \subseteq Values
  /\ Requests \subseteq Seq(Values)
ASSUME CoversAssumption ==
  /\ Covers \subseteq Values \X Values
  /\ \A v \in Values : <<v, v>> \in Covers
ASSUME NamesAssumption == None \notin Values \cup CacheOps \cup Operation

(* "engine", "cache": it restarts.  "db": rows cannot be written or read.  *)
(* "builder": it restarts, and forgets what is done.                       *)
ASSUME FaultsAssumption == Faults \subseteq {"engine", "cache", "db", "builder"}

VARIABLES
  client, wanted, told,      \* evalctl: where it is, what it asks, what it prints
  pc, ahead, left, done, results,
                             \* per call: the values to get, the operations to
                             \* write or to ask about, what will be answered
  current, early,            \* per call: the operation asked about, and whether
                             \* it was over when the question was sent
  evaluations, operations,   \* the two tables of the database
  damaged,                   \* the evaluations of which a row could not be
                             \* written, or that could not be read (history)
  asked, cached, built,      \* the cache: what each operation is for, what is
                             \* known of it; the operations whose build the
                             \* builder has said to be done
  down                       \* the cache has died and is not there again yet

evalctl  == <<client, wanted, told>>
calls    == <<ahead, left, done, results, current, early>>
database == <<evaluations, operations, damaged>>
cache    == <<asked, cached, built, down>>
vars     == <<evalctl, pc, calls, database, cache>>

Promise == INSTANCE CachePromise WITH Names <- CacheOps, Wanted <- Values

(* The build of operation o is good for value v.                           *)
For(o, v) == <<asked[o], v>> \in Covers

Results   == UNION {[V -> CacheOps \cup {None}] : V \in SUBSET Values}

TypeOK ==
  /\ client \in [Evaluations -> {"start", "waiting", "polling", "served", "finished", "failed"}]
  /\ wanted \in [Evaluations -> Requests \cup {<<>>}]
  /\ told \in [Evaluations -> Results]
  /\ pc \in [Evaluations -> {"idle", "get", "ask", "store"}]
  /\ ahead \in [Evaluations -> Seq(Values)]
  /\ left \in [Evaluations -> SUBSET Operation]
  /\ done \in [Evaluations -> BOOLEAN]
  /\ results \in [Evaluations -> Results]
  /\ current \in [Evaluations -> Operation \cup {None}]
  /\ early \in [Evaluations -> BOOLEAN]
  /\ evaluations \in SUBSET Evaluations
  /\ operations \in SUBSET Operation
  /\ damaged \in SUBSET Evaluations
  /\ asked \in [CacheOps -> Values \cup {None}]
  /\ cached \in [CacheOps -> {"unknown", "pending", "done", "lost"}]
  /\ built \in SUBSET CacheOps
  /\ down \in BOOLEAN

All(x) == [e \in Evaluations |-> x]
Nothing == [v \in {} |-> None]

Init ==
  /\ client = All("start") /\ wanted = All(<<>>) /\ told = All(Nothing)
  /\ pc = All("idle") /\ ahead = All(<<>>) /\ left = All({})
  /\ done = All(TRUE) /\ results = All(Nothing)
  /\ current = All(None) /\ early = All(FALSE)
  /\ evaluations = {} /\ operations = {} /\ damaged = {}
  /\ Promise!PromiseInit
  /\ built = {} /\ down = FALSE

(* The map f with v set to x.                                              *)
Set(f, v, x) == [w \in DOMAIN f \cup {v} |-> IF w = v THEN x ELSE f[w]]

(* The process ends and is started again.  Clients that were waiting get   *)
(* an error: evalctl exits, or panics on the nil operation.                *)
EngineExits ==
  /\ pc' = All("idle") /\ ahead' = All(<<>>) /\ left' = All({})
  /\ done' = All(TRUE) /\ results' = All(Nothing)
  /\ current' = All(None) /\ early' = All(FALSE)
  /\ client' = [e \in Evaluations |-> IF client[e] = "waiting" THEN "failed" ELSE client[e]]
  /\ UNCHANGED <<wanted, told, database>>

(* The call of e is over; its memory is free.                              *)
CallEnds(e) ==
  /\ pc' = [pc EXCEPT ![e] = "idle"]
  /\ ahead' = [ahead EXCEPT ![e] = <<>>]
  /\ left' = [left EXCEPT ![e] = {}]
  /\ done' = [done EXCEPT ![e] = TRUE]
  /\ results' = [results EXCEPT ![e] = Nothing]
  /\ UNCHANGED <<current, early>>

(* The engine returns an operation, done or not; evalctl prints the values *)
(* and ends, "served" by Eval itself or "finished" after it has polled, or *)
(* sleeps before it polls again.                                           *)
Reply(e, end) ==
  /\ CallEnds(e)
  /\ client' = [client EXCEPT ![e] = IF done[e] THEN end ELSE "polling"]
  /\ told' = [told EXCEPT ![e] = IF done[e] THEN results[e] ELSE Nothing]
  /\ UNCHANGED wanted

(* The engine returns an error.                                            *)
Fail(e) ==
  /\ CallEnds(e)
  /\ client' = [client EXCEPT ![e] = "failed"]
  /\ UNCHANGED <<wanted, told>>

-----------------------------------------------------------------------------
(* Eval                                                                    *)

Asks(e, r) == wanted' = [wanted EXCEPT ![e] = r]

(* evalctl finds that there is no such graph and ends.                     *)
UnknownGraph(e) ==
  /\ client[e] = "start"
  /\ \E r \in Requests : (\E i \in DOMAIN r : r[i] \notin Known) /\ Asks(e, r)
  /\ client' = [client EXCEPT ![e] = "failed"]
  /\ UNCHANGED <<told, pc, calls, database, cache>>

(* evalctl sends the values with their graph, as substituted.              *)
CallEval(e) ==
  /\ client[e] = "start"
  /\ client' = [client EXCEPT ![e] = "waiting"]
  /\ \E r \in Requests :
       /\ \A i \in DOMAIN r : r[i] \in Known
       /\ Asks(e, r)
       /\ ahead' = [ahead EXCEPT ![e] = r]
  /\ pc' = [pc EXCEPT ![e] = "get"]
  /\ UNCHANGED <<told, left, done, results, current, early, database, cache>>

Value(e) == Head(ahead[e])

(* Mutant: the operations are all recorded under one value's name.         *)
RecordOfFirst(e, o, v) == [evaluation |-> e, dependent |-> o, value |-> wanted[e][1]]

Record(e, o, v) == [evaluation |-> e, dependent |-> o, value |-> v]

(* The cache answered with operation o, done or not, and with value x.     *)
Got(e, o, isDone, x) ==
  /\ ahead' = [ahead EXCEPT ![e] = Tail(@)]
  /\ left' = [left EXCEPT ![e] = {r \in @ : r.value # Value(e)} \cup {Record(e, o, Value(e))}]
  /\ done' = [done EXCEPT ![e] = @ /\ isDone]
  /\ results' = [results EXCEPT ![e] = Set(@, Value(e), x)]
  /\ UNCHANGED <<evalctl, pc, current, early, database>>

Getting(e) == pc[e] = "get" /\ ahead[e] # <<>>

(* The call of e is about to ask the cache, and reaches it.                *)
Reaching(e) == Getting(e) /\ ~down

(* Mutant: a hit on an operation that is not known to be over is pending.  *)
HitPending(e) ==
  /\ Reaching(e)
  /\ \E o \in CacheOps :
       /\ For(o, Value(e))
       /\ cached[o] \in {"pending", "done"}
       /\ Got(e, o, cached[o] = "done", IF cached[o] = "done" THEN o ELSE None)
  /\ UNCHANGED cache

(* Mutant: the value is sent in place of its image.                        *)
HitEchoes(e) ==
  /\ Reaching(e)
  /\ \E o \in CacheOps :
       /\ For(o, Value(e))
       /\ cached[o] \in {"pending", "done"}
       /\ Got(e, o, TRUE, Value(e))
  /\ UNCHANGED cache

(* A hit is "done", with the image if the cache knows it.                  *)
Hit(e) ==
  /\ Reaching(e)
  /\ \E o \in CacheOps :
       /\ For(o, Value(e))
       /\ cached[o] \in {"pending", "done"}
       /\ Got(e, o, TRUE, IF cached[o] = "done" THEN o ELSE None)
  /\ UNCHANGED cache

(* A miss: with skip_caching, or because the entry was never there, or was *)
(* lost to another miss.                                                   *)
Miss(e) ==
  /\ Reaching(e)
  /\ Value(e) \in Buildable
  /\ \E o \in CacheOps :
       /\ Promise!Give(o, Value(e))
       /\ Got(e, o, FALSE, None)
  /\ UNCHANGED <<built, down>>

(* The cache returns an error for a value that its graph does not have, or *)
(* cannot be reached.  What was started for earlier values goes on.        *)
GetFails(e) ==
  /\ Getting(e)
  /\ Value(e) \notin Buildable \cup Fatal \/ down \/ "cache" \in Faults
  /\ Fail(e)
  /\ UNCHANGED <<database, cache>>

(* The graph has the value, but no action called "build": the cache uses   *)
(* the action all the same and panics, and with it goes all it knew.       *)
GetPanics(e) ==
  /\ Reaching(e)
  /\ Value(e) \in Fatal
  /\ Fail(e)
  /\ Promise!Lose
  /\ down' = TRUE
  /\ UNCHANGED <<database, built>>

(* newEvaluation writes the operations one by one, in any order, then the  *)
(* evaluation.  That an operation could not be written is not noticed.     *)
Writing(e) == pc[e] = "get" /\ ahead[e] = <<>>

SaveOperation(e) ==
  /\ Writing(e)
  /\ \E r \in left[e] :
       /\ left' = [left EXCEPT ![e] = @ \ {r}]
       /\ \/ operations' = operations \cup {r} /\ UNCHANGED damaged
          \/ "db" \in Faults /\ damaged' = damaged \cup {e} /\ UNCHANGED operations
  /\ UNCHANGED <<evalctl, pc, ahead, done, results, current, early, evaluations, cache>>

SaveEvaluation(e) ==
  /\ Writing(e)
  /\ left[e] = {}
  /\ evaluations' = evaluations \cup {e}
  /\ Reply(e, "served")
  /\ UNCHANGED <<operations, damaged, cache>>

SaveFails(e) ==
  /\ "db" \in Faults
  /\ Writing(e)
  /\ left[e] = {}
  /\ Fail(e)
  /\ UNCHANGED <<database, cache>>

-----------------------------------------------------------------------------
(* GetOperation                                                            *)

(* What the engine reads back: the operations of an evaluation it finds.   *)
Preload(e) == IF e \in evaluations THEN {r \in operations : r.evaluation = e} ELSE {}

(* Mutant: done until proved otherwise, the wrong way round.               *)
PollPending(e) ==
  /\ client[e] = "polling"
  /\ client' = [client EXCEPT ![e] = "waiting"]
  /\ pc' = [pc EXCEPT ![e] = "ask"]
  /\ left' = [left EXCEPT ![e] = Preload(e)]
  /\ done' = [done EXCEPT ![e] = FALSE]
  /\ UNCHANGED <<wanted, told, ahead, results, current, early, database, cache>>

(* A read that fails is not noticed either: the evaluation has nothing.    *)
Poll(e) ==
  /\ client[e] = "polling"
  /\ client' = [client EXCEPT ![e] = "waiting"]
  /\ pc' = [pc EXCEPT ![e] = "ask"]
  /\ \/ left' = [left EXCEPT ![e] = Preload(e)] /\ UNCHANGED damaged
     \/ "db" \in Faults /\ left' = [left EXCEPT ![e] = {}] /\ damaged' = damaged \cup {e}
  /\ UNCHANGED <<wanted, told, ahead, done, results, current, early, evaluations, operations, cache>>

(* The cache has no final answer to r yet, and will ask the builder.       *)
Ask(e) ==
  /\ pc[e] = "ask" /\ ~down
  /\ \E r \in left[e] :
       /\ cached[r.dependent] = "pending"
       /\ current' = [current EXCEPT ![e] = r]
       /\ early' = [early EXCEPT ![e] = r.dependent \in built]
  /\ pc' = [pc EXCEPT ![e] = "store"]
  /\ UNCHANGED <<evalctl, ahead, left, done, results, database, cache>>

(* "Cannot unmarhshal result": the cache sends the builder's message for   *)
(* an operation it knows to be done, and no result for a name it lost.     *)
AskAgain(e) ==
  /\ pc[e] = "ask" /\ ~down
  /\ \E r \in left[e] : cached[r.dependent] = "done"
  /\ EngineExits
  /\ UNCHANGED cache

AskLost(e) ==
  /\ pc[e] = "ask" /\ ~down
  /\ \E r \in left[e] : cached[r.dependent] = "lost"
  /\ EngineExits
  /\ UNCHANGED cache

(* The cache does not answer: it is not there, or has died since it was    *)
(* asked.  The nil operation is used before the error is looked at.        *)
AskFails(e) ==
  /\ \/ pc[e] = "ask" /\ left[e] # {} /\ (down \/ "cache" \in Faults)
     \/ pc[e] = "store" /\ (cached[current[e].dependent] = "lost" \/ "cache" \in Faults)
  /\ EngineExits
  /\ UNCHANGED cache

(* What the builder may have answered, at some time since the cache asked. *)
Over(e) ==
  {over \in BOOLEAN : /\ over => current[e].dependent \in built
                      /\ early[e] => over \/ "builder" \in Faults}

(* The call has dealt with current[e].                                     *)
NextOperation(e) ==
  /\ left' = [left EXCEPT ![e] = @ \ {current[e]}]
  /\ pc' = [pc EXCEPT ![e] = "ask"]
  /\ current' = [current EXCEPT ![e] = None]
  /\ early' = [early EXCEPT ![e] = FALSE]

Collect(e, over) ==
  results' = IF over THEN [results EXCEPT ![e] = Set(@, current[e].value, current[e].dependent)]
             ELSE results

(* Mutant: the last operation decides.                                     *)
StoreLast(e) ==
  /\ pc[e] = "store"
  /\ \E over \in Over(e) :
       /\ Promise!Remember(current[e].dependent, over)
       /\ Collect(e, over)
       /\ done' = [done EXCEPT ![e] = over]
  /\ NextOperation(e)
  /\ UNCHANGED <<evalctl, ahead, database, built, down>>

(* Mutant: an answer, whatever it says, is remembered as the last one.     *)
StoreFinal(e) ==
  /\ pc[e] = "store"
  /\ \E over \in Over(e) :
       /\ Promise!Remember(current[e].dependent, TRUE)
       /\ Collect(e, over)
       /\ done' = [done EXCEPT ![e] = @ /\ over]
  /\ NextOperation(e)
  /\ UNCHANGED <<evalctl, ahead, database, built, down>>

(* The cache stores and passes on the builder's answer, the engine         *)
(* collects it.                                                            *)
Store(e) ==
  /\ pc[e] = "store"
  /\ \E over \in Over(e) :
       /\ Promise!Remember(current[e].dependent, over)
       /\ Collect(e, over)
       /\ done' = [done EXCEPT ![e] = @ /\ over]
  /\ NextOperation(e)
  /\ UNCHANGED <<evalctl, ahead, database, built, down>>

PollReply(e) ==
  /\ pc[e] = "ask"
  /\ left[e] = {}
  /\ Reply(e, "finished")
  /\ UNCHANGED <<database, cache>>

-----------------------------------------------------------------------------
EngineCrash ==
  /\ "engine" \in Faults
  /\ EngineExits
  /\ UNCHANGED cache

(* The cache restarts, as it also does when the builder fails it, and      *)
(* knows none of its names.                                                *)
CacheRestarts ==
  /\ "cache" \in Faults
  /\ Promise!Lose
  /\ UNCHANGED <<evalctl, pc, calls, database, built, down>>

(* After a panic it is started again, sooner or later or never.            *)
CacheStarts ==
  /\ down
  /\ down' = FALSE
  /\ UNCHANGED <<evalctl, pc, calls, database, asked, cached, built>>

BuilderFinishes(o) ==
  /\ asked[o] # None
  /\ o \notin built
  /\ built' = built \cup {o}
  /\ UNCHANGED <<evalctl, pc, calls, database, asked, cached, down>>

EvalStep(e) ==
  \/ Hit(e) \/ Miss(e) \/ GetFails(e) \/ GetPanics(e)
  \/ SaveOperation(e) \/ SaveEvaluation(e) \/ SaveFails(e)

GetOperationStep(e) ==
  \/ Ask(e) \/ AskAgain(e) \/ AskLost(e) \/ AskFails(e)
  \/ Store(e) \/ PollReply(e)

Next ==
  \/ \E e \in Evaluations : UnknownGraph(e) \/ CallEval(e) \/ EvalStep(e) \/ Poll(e) \/ GetOperationStep(e)
  \/ \E o \in CacheOps : BuilderFinishes(o)
  \/ EngineCrash
  \/ CacheRestarts
  \/ CacheStarts

Spec == Init /\ [][Next]_vars

(* Calls make progress, evalctl's loop goes round, and builds end.  That   *)
(* the cache is started again is not assumed.                              *)
Fairness ==
  /\ \A e \in Evaluations : WF_vars(EvalStep(e)) /\ WF_vars(Poll(e)) /\ WF_vars(GetOperationStep(e))
  /\ \A o \in CacheOps : WF_vars(BuilderFinishes(o))

FairSpec == Spec /\ Fairness
-----------------------------------------------------------------------------
(* Properties                                                              *)

(* Whatever restarts and failed reads and writes there were, an image that *)
(* evalctl prints for a value is that of a finished build that has it:      *)
(* the operations of an evaluation are written one by one, read back in    *)
(* another call, and asked about one by one.                               *)
ValuesBelong ==
  \A e \in Evaluations : \A v \in DOMAIN told[e] :
    told[e][v] # None => told[e][v] \in built /\ For(told[e][v], v)

(* The i-th value asked for has an image in f.                             *)
Answered(e, i, f) == wanted[e][i] \in DOMAIN f /\ f[wanted[e][i]] # None

(* Unless a row could not be written or read, an evaluation that was       *)
(* polled until it was done has an image for every value asked for:        *)
(* GetOperation finds all operations Eval got, and says done only if all   *)
(* are, even if the engine or the cache was restarted in between.  The     *)
(* image is empty if the builder forgot it.                                *)
PolledHasAll ==
  \A e \in Evaluations \ damaged :
    client[e] = "finished" => \A i \in DOMAIN wanted[e] : Answered(e, i, told[e])

(* A run has asked for a value without a build, and so killed the cache.   *)
Harmed == \E f \in Evaluations : client[f] = "failed" /\ wanted[f][1] \in Fatal

(* With one value per evaluation, all that evalctl can ask for, the engine *)
(* never exits on a message of the cache it cannot read, unless the cache  *)
(* died of a run that asked for a value without a build.  So runs fail     *)
(* only for the value they ask for, or for that run.  Operations are       *)
(* shared by hits, but who hits does not poll, and who polls stops at the  *)
(* first done.                                                             *)
FailsOnlyIfRefused ==
  \A e \in Evaluations : client[e] = "failed" => wanted[e][1] \notin Buildable \/ Harmed

(* And then every run ends: it is told its value, or fails for one of these *)
(* reasons.  Nobody polls for ever, not even when the cache has died.       *)
EventuallyFinished ==
  \A e \in Evaluations :
    client[e] = "waiting" ~>
      \/ client[e] \in {"served", "finished"}
      \/ client[e] = "failed" /\ (wanted[e][1] \notin Buildable \/ Harmed)

-----------------------------------------------------------------------------
(* The inductive invariant behind ValuesBelong.                            *)

(* An operation is written down under a value it is good for.              *)
RecordOK(r) == For(r.dependent, r.value)

(* The images in f are those of finished builds that have f's values.      *)
ImagesOK(f) == \A v \in DOMAIN f : f[v] # None => f[v] \in built /\ For(f[v], v)

CacheOK ==
  \A o \in CacheOps :
    /\ asked[o] = None <=> cached[o] = "unknown"
    /\ cached[o] = "done" => o \in built

CallOK(e) ==
  /\ pc[e] # "idle" => client[e] = "waiting"
  /\ \A r \in left[e] : RecordOK(r)
  /\ pc[e] = "store" <=> current[e] # None
  /\ current[e] # None => RecordOK(current[e])
  /\ early[e] => current[e] # None /\ current[e].dependent \in built
  /\ ImagesOK(results[e])

(* Every operation in the database, in the memory of a call or on its way  *)
(* is good for the value it is filed under, and what the cache remembers   *)
(* as done is over.                                                        *)
IInv ==
  /\ TypeOK
  /\ CacheOK
  /\ \A r \in operations : RecordOK(r)
  /\ \A e \in Evaluations : CallOK(e) /\ ImagesOK(told[e])

(* The inductive invariant behind PolledHasAll.                            *)

(* The i-th value asked for has its operation among those in S.            *)
Recorded(e, i, S) == \E r \in S : r.evaluation = e /\ r.value = wanted[e][i]

(* No value asked for gets lost: it is ahead, or its operation is in       *)
(* memory or written; once it is written, it is read back by every poll,   *)
(* and then still to be asked about, or answered, unless the reply will    *)
(* not be done.                                                            *)
CompleteOK(e) ==
  /\ pc[e] = "get" =>
       \A i \in DOMAIN wanted[e] :
         \/ \E j \in DOMAIN ahead[e] : ahead[e][j] = wanted[e][i]
         \/ Recorded(e, i, left[e] \cup operations)
  /\ client[e] = "polling" \/ pc[e] \in {"ask", "store"} =>
       e \in evaluations /\ \A i \in DOMAIN wanted[e] : Recorded(e, i, operations)
  /\ pc[e] \in {"ask", "store"} =>
       \A i \in DOMAIN wanted[e] :
         Recorded(e, i, left[e]) \/ (done[e] => Answered(e, i, results[e]))
  /\ client[e] = "finished" =>
       \A i \in DOMAIN wanted[e] : Answered(e, i, told[e])

CompleteInv ==
  /\ IInv
  /\ \A e \in Evaluations \ damaged : CompleteOK(e)

(* The inductive invariant behind FailsOnlyIfRefused, for one value per    *)
(* evaluation and no fault but a builder that forgets.  It speaks of the   *)
(* time before a run kills the cache.                                      *)

Rows(e) == left[e] \cup {r \in operations : r.evaluation = e}

(* Evaluation e has started a build, and polls or is going to.             *)
Polls(e) ==
  \/ client[e] = "polling"
  \/ pc[e] \in {"ask", "store"}
  \/ pc[e] = "get" /\ ahead[e] = <<>> /\ ~done[e]

(* It has one operation, which is pending until the poll that learns that  *)
(* it is done, and this poll is the last.                                  *)
AloneOK(e) ==
  /\ client[e] = "start" => Rows(e) = {} /\ pc[e] = "idle"
  /\ client[e] # "start" => wanted[e] \in Requests
  /\ client[e] = "failed" => wanted[e][1] \notin Buildable
  /\ \A r \in left[e] : r.evaluation = e
  /\ current[e] # None => current[e] \in left[e]
  /\ pc[e] = "get" /\ ahead[e] # <<>> => ahead[e] = wanted[e] /\ Rows(e) = {} /\ done[e]
  /\ pc[e] \in {"idle", "store"} \/ (pc[e] = "ask" /\ left[e] # {}) => done[e]
  /\ Polls(e) =>
       \A r \in Rows(e) :
         /\ \A s \in Rows(e) : s = r
         /\ \/ cached[r.dependent] = "pending"
            \/ cached[r.dependent] = "done" /\ pc[e] = "ask" /\ left[e] = {} /\ done[e]

(* No two evaluations poll the same operation: one draws it with a miss,   *)
(* the others find it with a hit, which is done at once.                   *)
Apart ==
  \A e, f \in Evaluations :
    e # f /\ Polls(e) /\ Polls(f) =>
      \A r \in Rows(e), s \in Rows(f) : r.dependent # s.dependent

Calm ==
  /\ \A e \in Evaluations : AloneOK(e)
  /\ Apart
  /\ \A o \in CacheOps : cached[o] # "lost"
  /\ ~down

AloneInv == IInv /\ (Harmed \/ Calm)
=============================================================================
