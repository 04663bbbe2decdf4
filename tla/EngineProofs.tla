---------------------------- MODULE EngineProofs ----------------------------
(***************************************************************************)
(* What evalctl prints belongs to what it asked for, for any number of     *)
(* evaluations, values and operations, and all faults.                     *)
(***************************************************************************)
EXTENDS EngineService, TLAPS

(* Setting a value in a map of results gives a map of results.             *)
LEMMA SetType ==
  ASSUME NEW f \in Results, NEW v \in Values, NEW x \in CacheOps \cup {None}
  PROVE  Set(f, v, x) \in Results
<1>1. PICK V \in SUBSET Values : f \in [V -> CacheOps \cup {None}]
  BY DEF Results
<1>2. Set(f, v, x) \in [V \cup {v} -> CacheOps \cup {None}]
  BY <1>1 DEF Set
<1>3. V \cup {v} \in SUBSET Values
  BY <1>1
<1>. QED  BY <1>2, <1>3 DEF Results

LEMMA NothingType == Nothing \in Results
<1>1. Nothing \in [{} -> CacheOps \cup {None}]
  BY DEF Nothing
<1>. QED  BY <1>1 DEF Results

-----------------------------------------------------------------------------
(* Types                                                                   *)

LEMMA ExitTypes ==
  ASSUME TypeOK, EngineExits, UNCHANGED cache
  PROVE  TypeOK'
BY NothingType DEF TypeOK, EngineExits, All, database, cache

LEMMA EndTypes ==
  ASSUME TypeOK, NEW e \in Evaluations, CallEnds(e)
  PROVE  /\ pc' \in [Evaluations -> {"idle", "get", "ask", "store"}]
         /\ ahead' \in [Evaluations -> Seq(Values)]
         /\ left' \in [Evaluations -> SUBSET Operation]
         /\ done' \in [Evaluations -> BOOLEAN]
         /\ results' \in [Evaluations -> Results]
         /\ current' \in [Evaluations -> Operation \cup {None}]
         /\ early' \in [Evaluations -> BOOLEAN]
BY NothingType DEF TypeOK, CallEnds

LEMMA GotTypes ==
  ASSUME TypeOK, NEW e \in Evaluations, Getting(e), NEW o \in CacheOps,
         NEW d \in BOOLEAN, NEW x \in CacheOps \cup {None}, Got(e, o, d, x)
  PROVE  /\ Value(e) \in Values
         /\ ahead' \in [Evaluations -> Seq(Values)]
         /\ left' \in [Evaluations -> SUBSET Operation]
         /\ done' \in [Evaluations -> BOOLEAN]
         /\ results' \in [Evaluations -> Results]
         /\ UNCHANGED <<evalctl, pc, current, early, database>>
<1>1. ahead[e] \in Seq(Values) /\ ahead[e] # <<>>
  BY DEF TypeOK, Getting
<1>2. Value(e) \in Values /\ Tail(ahead[e]) \in Seq(Values)
  BY <1>1 DEF Value
<1>3. Record(e, o, Value(e)) \in Operation
  BY <1>2 DEF Record, Operation
<1>4. Set(results[e], Value(e), x) \in Results
  BY <1>2, SetType DEF TypeOK
<1>5. ahead' \in [Evaluations -> Seq(Values)]
  BY <1>2 DEF TypeOK, Got
<1>6. left' \in [Evaluations -> SUBSET Operation]
  BY <1>3 DEF TypeOK, Got
<1>7. done' \in [Evaluations -> BOOLEAN]
  BY DEF TypeOK, Got
<1>8. results' \in [Evaluations -> Results]
  BY <1>4 DEF TypeOK, Got
<1>. QED  BY <1>2, <1>5, <1>6, <1>7, <1>8 DEF Got

(* A step of the engine, of evalctl, of the cache or of the builder keeps  *)
(* the types of all variables.                                             *)
LEMMA NextTypes ==
  ASSUME IInv, [Next]_vars
  PROVE  TypeOK'
<1>. USE DEF IInv
<1>. SUFFICES ASSUME Next PROVE TypeOK'
  BY DEF TypeOK, vars, evalctl, calls, database, cache
<1>1. ASSUME NEW e \in Evaluations, CallEval(e) PROVE TypeOK'
  <2>1. PICK r \in Requests : /\ wanted' = [wanted EXCEPT ![e] = r]
                              /\ ahead' = [ahead EXCEPT ![e] = r]
    BY <1>1 DEF CallEval, Asks
  <2>2. r \in Seq(Values)
    BY RequestsAssumption
  <2>. QED  BY <1>1, <2>1, <2>2 DEF TypeOK, CallEval, database, cache
<1>2. ASSUME NEW e \in Evaluations, Hit(e) PROVE TypeOK'
  <2>1. PICK o \in CacheOps : Got(e, o, TRUE, IF cached[o] = "done" THEN o ELSE None)
    BY <1>2 DEF Hit
  <2>2. (IF cached[o] = "done" THEN o ELSE None) \in CacheOps \cup {None}
    OBVIOUS
  <2>3. Getting(e)
    BY <1>2 DEF Hit, Reaching
  <2>4. UNCHANGED cache
    BY <1>2 DEF Hit
  <2>. QED  BY <2>1, <2>2, <2>3, <2>4, GotTypes DEF TypeOK, evalctl, database, cache
<1>3. ASSUME NEW e \in Evaluations, Miss(e) PROVE TypeOK'
  <2>1. PICK o \in CacheOps : /\ asked' = [asked EXCEPT ![o] = Value(e)]
                              /\ cached' = [cached EXCEPT ![o] = "pending"]
                              /\ Got(e, o, FALSE, None)
    BY <1>3 DEF Miss, Promise!Give
  <2>2. Getting(e) /\ UNCHANGED <<built, down>>
    BY <1>3 DEF Miss, Reaching
  <2>. QED  BY <2>1, <2>2, GotTypes DEF TypeOK, evalctl, database
<1>4. ASSUME NEW e \in Evaluations, GetFails(e) PROVE TypeOK'
  BY <1>4, EndTypes DEF TypeOK, GetFails, Fail, database, cache
<1>5. ASSUME NEW e \in Evaluations, SaveOperation(e) PROVE TypeOK'
  <2>1. PICK r \in left[e] : /\ left' = [left EXCEPT ![e] = @ \ {r}]
                             /\ operations' \in {operations, operations \cup {r}}
                             /\ damaged' \in {damaged, damaged \cup {e}}
    BY <1>5 DEF SaveOperation
  <2>2. left[e] \in SUBSET Operation
    BY DEF TypeOK
  <2>. QED  BY <1>5, <2>1, <2>2 DEF TypeOK, SaveOperation, evalctl, cache
<1>6. ASSUME NEW e \in Evaluations, SaveEvaluation(e) PROVE TypeOK'
  BY <1>6, EndTypes, NothingType DEF TypeOK, SaveEvaluation, Reply, cache
<1>7. ASSUME NEW e \in Evaluations, SaveFails(e) PROVE TypeOK'
  BY <1>7, EndTypes DEF TypeOK, SaveFails, Fail, database, cache
<1>8. ASSUME NEW e \in Evaluations, Poll(e) PROVE TypeOK'
  <2>1. Preload(e) \in SUBSET Operation
    BY DEF TypeOK, Preload
  <2>2. left' \in [Evaluations -> SUBSET Operation]
    BY <1>8, <2>1 DEF TypeOK, Poll
  <2>3. damaged' \in SUBSET Evaluations
    BY <1>8 DEF TypeOK, Poll
  <2>. QED  BY <1>8, <2>2, <2>3 DEF TypeOK, Poll, cache
<1>9. ASSUME NEW e \in Evaluations, Ask(e) PROVE TypeOK'
  <2>1. PICK r \in left[e] : /\ current' = [current EXCEPT ![e] = r]
                             /\ early' = [early EXCEPT ![e] = r.dependent \in built]
    BY <1>9 DEF Ask
  <2>2. r \in Operation
    BY DEF TypeOK
  <2>3. current' \in [Evaluations -> Operation \cup {None}]
    BY <2>1, <2>2 DEF TypeOK
  <2>4. early' \in [Evaluations -> BOOLEAN]
    BY <2>1 DEF TypeOK
  <2>. QED  BY <1>9, <2>3, <2>4 DEF TypeOK, Ask, evalctl, database, cache
<1>10. ASSUME NEW e \in Evaluations, AskAgain(e) \/ AskLost(e) \/ AskFails(e) PROVE TypeOK'
  BY <1>10, ExitTypes DEF AskAgain, AskLost, AskFails
<1>11. ASSUME NEW e \in Evaluations, Store(e) PROVE TypeOK'
  <2>1. current[e] \in Operation
    BY <1>11 DEF TypeOK, CallOK, Store
  <2>2. PICK over \in BOOLEAN :
          /\ cached' = [cached EXCEPT ![current[e].dependent] = IF over THEN "done" ELSE "pending"]
          /\ results' = IF over THEN [results EXCEPT ![e] = Set(@, current[e].value, current[e].dependent)]
                        ELSE results
          /\ done' = [done EXCEPT ![e] = @ /\ over]
    <3>1. early[e] \in BOOLEAN
      BY DEF TypeOK
    <3>2. Over(e) \subseteq BOOLEAN
      BY <3>1 DEF Over
    <3>. QED  BY <1>11, <3>2 DEF Store, Collect, Promise!Remember
  <2>3. Set(results[e], current[e].value, current[e].dependent) \in Results
    BY <2>1, SetType DEF TypeOK, Operation
  <2>4. results' \in [Evaluations -> Results]
    BY <2>2, <2>3 DEF TypeOK
  <2>5. cached' \in [CacheOps -> {"unknown", "pending", "done", "lost"}]
    BY <2>1, <2>2 DEF TypeOK
  <2>6. left' \in [Evaluations -> SUBSET Operation]
    BY <1>11 DEF TypeOK, Store, NextOperation
  <2>7. done' \in [Evaluations -> BOOLEAN]
    BY <2>2 DEF TypeOK
  <2>8. asked' = asked
    BY <1>11 DEF Store, Promise!Remember
  <2>. QED
    BY <1>11, <2>4, <2>5, <2>6, <2>7, <2>8 DEF TypeOK, Store, NextOperation, evalctl, database
<1>12. ASSUME NEW e \in Evaluations, PollReply(e) PROVE TypeOK'
  BY <1>12, EndTypes, NothingType DEF TypeOK, PollReply, Reply, database, cache
<1>13. CASE EngineCrash
  BY <1>13, ExitTypes DEF EngineCrash
<1>14. CASE CacheRestarts
  BY <1>14 DEF TypeOK, CacheRestarts, Promise!Lose, evalctl, calls, database
<1>15. ASSUME NEW o \in CacheOps, BuilderFinishes(o) PROVE TypeOK'
  BY <1>15 DEF TypeOK, BuilderFinishes, evalctl, calls, database
<1>16. ASSUME NEW e \in Evaluations, UnknownGraph(e) PROVE TypeOK'
  BY <1>16 DEF TypeOK, UnknownGraph, Asks, calls, database, cache
<1>17. ASSUME NEW e \in Evaluations, GetPanics(e) PROVE TypeOK'
  BY <1>17, EndTypes DEF TypeOK, GetPanics, Fail, Promise!Lose, database
<1>18. CASE CacheStarts
  BY <1>18 DEF TypeOK, CacheStarts, evalctl, calls, database
<1>. QED
  BY <1>1, <1>2, <1>3, <1>4, <1>5, <1>6, <1>7, <1>8, <1>9, <1>10, <1>11, <1>12,
     <1>13, <1>14, <1>15, <1>16, <1>17, <1>18 DEF Next, EvalStep, GetOperationStep

-----------------------------------------------------------------------------
(* What no step takes back                                                 *)

(* A name is drawn once, and a build that is over stays over.              *)
Keeps ==
  /\ \A o \in CacheOps : asked[o] # None => asked'[o] = asked[o]
  /\ built \subseteq built'

(* After the step operation o is good for value v.                         *)
ForThen(o, v) == <<asked'[o], v>> \in Covers

(* What an operation is good for, it stays good for.                       *)
LEMMA ForStays ==
  ASSUME Keeps, NEW o \in CacheOps, NEW v, For(o, v)
  PROVE  ForThen(o, v)
<1>1. asked[o] # None
  BY CoversAssumption, NamesAssumption DEF For
<1>. QED  BY <1>1 DEF Keeps, For, ForThen

LEMMA RecordStays ==
  ASSUME Keeps, NEW r \in Operation, RecordOK(r)
  PROVE  ForThen(r.dependent, r.value)
BY ForStays DEF RecordOK, Operation

LEMMA ImagesStay ==
  ASSUME Keeps, NEW f \in Results, ImagesOK(f)
  PROVE  \A v \in DOMAIN f : f[v] # None => f[v] \in built' /\ ForThen(f[v], v)
<1>1. PICK V \in SUBSET Values : f \in [V -> CacheOps \cup {None}]
  BY DEF Results
<1>2. ASSUME NEW v \in DOMAIN f, f[v] # None
      PROVE  f[v] \in built' /\ ForThen(f[v], v)
  <2>1. f[v] \in CacheOps /\ f[v] \in built /\ For(f[v], v)
    BY <1>1, <1>2 DEF ImagesOK
  <2>. QED  BY <2>1, ForStays DEF Keeps
<1>. QED  BY <1>2

(* A step that leaves the call of e alone keeps what is true of it.        *)
LEMMA CallStays ==
  ASSUME IInv, Keeps, NEW e \in Evaluations, client'[e] = client[e],
         pc'[e] = pc[e], left'[e] \subseteq left[e], current'[e] = current[e],
         early'[e] = early[e], results'[e] = results[e]
  PROVE  CallOK(e)'
<1>. USE DEF IInv, CallOK
<1>1. \A r \in left'[e] : RecordOK(r)'
  BY RecordStays DEF TypeOK, RecordOK, For, ForThen
<1>2. current'[e] # None => RecordOK(current[e])'
  BY RecordStays DEF TypeOK, RecordOK, For, ForThen
<1>3. early'[e] => current'[e] # None /\ current'[e].dependent \in built'
  BY DEF Keeps
<1>4. ImagesOK(results[e])'
  BY ImagesStay DEF TypeOK, ImagesOK, For, ForThen
<1>. QED  BY <1>1, <1>2, <1>3, <1>4

LEMMA ToldStays ==
  ASSUME IInv, Keeps, NEW e \in Evaluations, told'[e] = told[e]
  PROVE  ImagesOK(told[e])'
<1>1. told[e] \in Results /\ ImagesOK(told[e])
  BY DEF IInv, TypeOK
<1>2. \A v \in DOMAIN told[e] :
        told[e][v] # None => told[e][v] \in built' /\ ForThen(told[e][v], v)
  BY <1>1, ImagesStay
<1>. QED  BY <1>2 DEF ImagesOK, For, ForThen

LEMMA OperationsStay ==
  ASSUME IInv, Keeps, operations' \subseteq operations
  PROVE  \A r \in operations' : RecordOK(r)'
BY RecordStays DEF IInv, TypeOK, RecordOK, For, ForThen

LEMMA NothingOK == ImagesOK(Nothing)'
BY DEF ImagesOK, Nothing

(* A call that is over holds nothing.                                      *)
LEMMA IdleOK ==
  ASSUME NEW e \in Evaluations, pc'[e] = "idle", left'[e] = {},
         current'[e] = None, ~early'[e], results'[e] = Nothing
  PROVE  CallOK(e)'
BY NothingOK DEF CallOK

(* A call that ends frees its memory; the others go on.                    *)
LEMMA EndCalls ==
  ASSUME IInv, Keeps, NEW e \in Evaluations, CallEnds(e), pc[e] # "store",
         \A f \in Evaluations \ {e} : client'[f] = client[f]
  PROVE  \A f \in Evaluations : CallOK(f)'
<1>. SUFFICES ASSUME NEW f \in Evaluations PROVE CallOK(f)'
  OBVIOUS
<1>1. CASE f = e
  <2>1. current[e] = None /\ ~early[e]
    BY DEF IInv, CallOK
  <2>2. /\ pc'[e] = "idle"  /\ left'[e] = {} /\ results'[e] = Nothing
        /\ current' = current /\ early' = early
    BY DEF IInv, TypeOK, CallEnds
  <2>. QED  BY <1>1, <2>1, <2>2, IdleOK
<1>2. CASE f # e
  <2>1. /\ pc'[f] = pc[f] /\ left'[f] = left[f] /\ current'[f] = current[f]
        /\ early'[f] = early[f] /\ results'[f] = results[f] /\ client'[f] = client[f]
    BY <1>2 DEF IInv, TypeOK, CallEnds
  <2>. QED  BY <2>1, CallStays
<1>. QED  BY <1>1, <1>2

LEMMA ReplyOK ==
  ASSUME IInv, Keeps, NEW e \in Evaluations, NEW end, Reply(e, end), pc[e] # "store"
  PROVE  \A f \in Evaluations : CallOK(f)' /\ ImagesOK(told[f])'
<1>1. \A f \in Evaluations : CallOK(f)'
  BY EndCalls DEF IInv, TypeOK, Reply
<1>2. ASSUME NEW f \in Evaluations PROVE ImagesOK(told[f])'
  <2>1. told'[f] \in {told[f], results[f], Nothing}
    BY DEF IInv, TypeOK, Reply
  <2>2. ASSUME told'[f] = results[f] PROVE ImagesOK(told[f])'
    <3>1. results[f] \in Results /\ ImagesOK(results[f])
      BY DEF IInv, TypeOK, CallOK
    <3>. QED  BY <2>2, <3>1, ImagesStay DEF ImagesOK, For, ForThen
  <2>3. ASSUME told'[f] = Nothing PROVE ImagesOK(told[f])'
    BY <2>3 DEF ImagesOK, Nothing
  <2>. QED  BY <2>1, <2>2, <2>3, ToldStays
<1>. QED  BY <1>1, <1>2

(* The answer of the cache to a Get is recorded for the value asked for.   *)
LEMMA GotOK ==
  ASSUME IInv, Keeps, NEW e \in Evaluations, Getting(e), NEW o \in CacheOps,
         NEW d \in BOOLEAN, NEW x \in CacheOps \cup {None}, Got(e, o, d, x),
         ForThen(o, Value(e)),
         x # None => x \in built' /\ ForThen(x, Value(e))
  PROVE  /\ \A r \in operations' : RecordOK(r)'
         /\ \A f \in Evaluations : CallOK(f)' /\ ImagesOK(told[f])'
<1>. USE DEF IInv
<1>1. /\ UNCHANGED <<client, pc, current, early, told, operations>>
      /\ left' = [left EXCEPT ![e] = {r \in @ : r.value # Value(e)} \cup {Record(e, o, Value(e))}]
      /\ results' = [results EXCEPT ![e] = Set(@, Value(e), x)]
  BY DEF Got, evalctl, database
<1>2. CallOK(e)'
  <2>1. \A r \in left'[e] : RecordOK(r)'
    <3>1. ASSUME NEW r \in left[e] PROVE ForThen(r.dependent, r.value)
      BY RecordStays DEF TypeOK, CallOK
    <3>2. ForThen(Record(e, o, Value(e)).dependent, Record(e, o, Value(e)).value)
      BY DEF Record
    <3>. QED  BY <1>1, <3>1, <3>2 DEF TypeOK, RecordOK, For, ForThen
  <2>2. ImagesOK(results[e])'
    <3>1. results'[e] = Set(results[e], Value(e), x)
      BY <1>1 DEF TypeOK
    <3>2. \A v \in DOMAIN results[e] :
            results[e][v] # None => results[e][v] \in built' /\ ForThen(results[e][v], v)
      BY ImagesStay DEF TypeOK, CallOK
    <3>3. SUFFICES ASSUME NEW v \in DOMAIN results'[e], results'[e][v] # None
                   PROVE  results'[e][v] \in built' /\ ForThen(results'[e][v], v)
      BY DEF ImagesOK, For, ForThen
    <3>4. CASE v = Value(e)
      <4>1. results'[e][v] = x
        BY <3>1, <3>4 DEF Set
      <4>. QED  BY <3>3, <3>4, <4>1
    <3>5. CASE v # Value(e)
      <4>1. v \in DOMAIN results[e] /\ results'[e][v] = results[e][v]
        BY <3>1, <3>3, <3>5 DEF Set
      <4>. QED  BY <3>2, <3>3, <4>1
    <3>. QED  BY <3>4, <3>5
  <2>3. current'[e] # None => RecordOK(current[e])'
    <3>1. current[e] # None => current[e] \in Operation /\ RecordOK(current[e])
      BY DEF TypeOK, CallOK
    <3>2. current'[e] = current[e]
      BY <1>1
    <3>. QED  BY <3>1, <3>2, RecordStays DEF RecordOK, For, ForThen
  <2>4. client[e] = "waiting"
    BY DEF Getting, CallOK
  <2>. QED  BY <1>1, <2>1, <2>2, <2>3, <2>4 DEF CallOK, Keeps
<1>3. ASSUME NEW f \in Evaluations, f # e PROVE CallOK(f)'
  <2>1. /\ pc'[f] = pc[f] /\ left'[f] = left[f] /\ current'[f] = current[f]
        /\ early'[f] = early[f] /\ results'[f] = results[f] /\ client'[f] = client[f]
    BY <1>1, <1>3 DEF TypeOK
  <2>. QED  BY <2>1, CallStays
<1>. QED  BY <1>1, <1>2, <1>3, ToldStays, OperationsStay

LEMMA ExitOK ==
  ASSUME IInv, EngineExits, UNCHANGED cache
  PROVE  IInv'
<1>1. Keeps
  BY DEF Keeps, cache
<1>2. CacheOK'
  BY DEF IInv, CacheOK, cache
<1>3. ASSUME NEW e \in Evaluations PROVE CallOK(e)'
  BY IdleOK DEF EngineExits, All
<1>4. UNCHANGED <<told, operations>>
  BY DEF EngineExits, database
<1>5. TypeOK'
  BY ExitTypes DEF IInv
<1>. QED  BY <1>1, <1>2, <1>3, <1>4, <1>5, ToldStays, OperationsStay DEF IInv

-----------------------------------------------------------------------------
(* IInv is inductive                                                       *)

LEMMA InitIInv == Init => IInv
<1>. SUFFICES ASSUME Init PROVE IInv
  OBVIOUS
<1>1. Nothing \in Results
  BY NothingType
<1>2. TypeOK
  <2>1. down \in BOOLEAN
    BY DEF Init
  <2>. QED  BY <1>1, <2>1 DEF Init, TypeOK, All, Promise!PromiseInit
<1>3. CacheOK
  BY DEF Init, CacheOK, Promise!PromiseInit
<1>4. ASSUME NEW e \in Evaluations PROVE CallOK(e) /\ ImagesOK(told[e])
  BY DEF Init, All, CallOK, ImagesOK, Nothing
<1>. QED  BY <1>2, <1>3, <1>4 DEF IInv, Init

LEMMA NextIInv == IInv /\ [Next]_vars => IInv'
<1>. SUFFICES ASSUME IInv, [Next]_vars PROVE IInv'
  OBVIOUS
<1>t. TypeOK'
  BY NextTypes
<1>. USE DEF IInv
<1>1. ASSUME NEW e \in Evaluations, CallEval(e) PROVE IInv'
  <2>1. UNCHANGED <<asked, cached, built, told, left, current, early, results, operations>>
    BY <1>1 DEF CallEval, cache, database
  <2>2. Keeps /\ CacheOK'
    BY <2>1 DEF Keeps, CacheOK
  <2>3. ASSUME NEW f \in Evaluations PROVE CallOK(f)'
    <3>1. CASE f = e
      <4>1. pc[e] = "idle" /\ pc'[e] = "get" /\ client'[e] = "waiting"
        BY <1>1 DEF TypeOK, CallOK, CallEval
      <4>. QED  BY <2>1, <3>1, <4>1 DEF CallOK, RecordOK, ImagesOK, For
    <3>2. CASE f # e
      <4>1. pc'[f] = pc[f] /\ client'[f] = client[f]
        BY <1>1, <3>2 DEF TypeOK, CallEval
      <4>. QED  BY <2>1, <2>2, <4>1, CallStays
    <3>. QED  BY <3>1, <3>2
  <2>. QED  BY <1>t, <2>1, <2>2, <2>3, ToldStays, OperationsStay
<1>2. ASSUME NEW e \in Evaluations, Hit(e) PROVE IInv'
  <2>1. PICK o \in CacheOps : /\ For(o, Value(e))
                              /\ Got(e, o, TRUE, IF cached[o] = "done" THEN o ELSE None)
    BY <1>2 DEF Hit
  <2>2. Getting(e) /\ UNCHANGED cache
    BY <1>2 DEF Hit, Reaching
  <2>3. Keeps /\ CacheOK'
    BY <2>2 DEF Keeps, CacheOK, cache
  <2>4. ForThen(o, Value(e)) /\ (cached[o] = "done" => o \in built')
    BY <2>1, <2>2 DEF CacheOK, cache, For, ForThen
  <2>. QED  BY <1>t, <2>1, <2>2, <2>3, <2>4, GotOK
<1>3. ASSUME NEW e \in Evaluations, Miss(e) PROVE IInv'
  <2>1. PICK o \in CacheOps : /\ cached[o] = "unknown"
                              /\ asked' = [asked EXCEPT ![o] = Value(e)]
                              /\ cached' = [cached EXCEPT ![o] = "pending"]
                              /\ Got(e, o, FALSE, None)
    BY <1>3 DEF Miss, Promise!Give
  <2>2. Getting(e) /\ UNCHANGED built
    BY <1>3 DEF Miss, Reaching
  <2>3. Value(e) \in Values
    BY <2>1, <2>2, GotTypes
  <2>4. Keeps /\ CacheOK'
    BY <2>1, <2>2, <2>3, NamesAssumption DEF Keeps, CacheOK, TypeOK
  <2>5. ForThen(o, Value(e))
    BY <2>1, <2>3, CoversAssumption DEF TypeOK, ForThen
  <2>. QED  BY <1>t, <2>1, <2>2, <2>4, <2>5, GotOK
<1>4. ASSUME NEW e \in Evaluations, GetFails(e) \/ SaveFails(e) PROVE IInv'
  <2>1. /\ CallEnds(e) /\ pc[e] # "store"
        /\ UNCHANGED <<asked, cached, built, told, operations>>
    BY <1>4 DEF GetFails, SaveFails, Getting, Writing, Fail, cache, database
  <2>3. \A f \in Evaluations \ {e} : client'[f] = client[f]
    BY <1>4 DEF TypeOK, GetFails, SaveFails, Fail
  <2>2. Keeps /\ CacheOK'
    BY <2>1 DEF Keeps, CacheOK
  <2>. QED  BY <1>t, <2>1, <2>2, <2>3, EndCalls, ToldStays, OperationsStay
<1>5. ASSUME NEW e \in Evaluations, SaveOperation(e) PROVE IInv'
  <2>1. PICK r \in left[e] : /\ left' = [left EXCEPT ![e] = @ \ {r}]
                             /\ operations' \subseteq operations \cup {r}
    BY <1>5 DEF SaveOperation
  <2>2. UNCHANGED <<asked, cached, built, client, told, pc, current, early, results>>
    BY <1>5 DEF SaveOperation, cache, evalctl
  <2>3. Keeps /\ CacheOK'
    BY <2>2 DEF Keeps, CacheOK
  <2>4. ASSUME NEW f \in Evaluations PROVE CallOK(f)'
    <3>1. left'[f] \subseteq left[f]
      BY <2>1 DEF TypeOK
    <3>. QED  BY <2>2, <2>3, <3>1, CallStays
  <2>5. \A q \in operations' : RecordOK(q)'
    BY <2>1, <2>2 DEF CallOK, RecordOK, For
  <2>. QED  BY <1>t, <2>2, <2>3, <2>4, <2>5, ToldStays
<1>6. ASSUME NEW e \in Evaluations, SaveEvaluation(e) \/ PollReply(e) PROVE IInv'
  <2>1. PICK end \in {"served", "finished"} : Reply(e, end)
    BY <1>6 DEF SaveEvaluation, PollReply
  <2>2. pc[e] # "store" /\ UNCHANGED <<asked, cached, built, operations>>
    BY <1>6 DEF SaveEvaluation, PollReply, Writing, cache, database
  <2>3. Keeps /\ CacheOK'
    BY <2>2 DEF Keeps, CacheOK
  <2>. QED  BY <1>t, <2>1, <2>2, <2>3, ReplyOK, OperationsStay
<1>7. ASSUME NEW e \in Evaluations, Poll(e) PROVE IInv'
  <2>1. UNCHANGED <<asked, cached, built, told, current, early, results, operations>>
    BY <1>7 DEF Poll, cache, database
  <2>2. Keeps /\ CacheOK'
    BY <2>1 DEF Keeps, CacheOK
  <2>3. ASSUME NEW f \in Evaluations PROVE CallOK(f)'
    <3>1. CASE f = e
      <4>1. pc[e] = "idle" /\ pc'[e] = "ask" /\ client'[e] = "waiting"
        BY <1>7 DEF TypeOK, CallOK, Poll
      <4>2. left'[e] \subseteq operations
        BY <1>7 DEF TypeOK, Poll, Preload
      <4>. QED  BY <2>1, <3>1, <4>1, <4>2 DEF CallOK, RecordOK, ImagesOK, For
    <3>2. CASE f # e
      <4>1. pc'[f] = pc[f] /\ client'[f] = client[f] /\ left'[f] = left[f]
        BY <1>7, <3>2 DEF TypeOK, Poll
      <4>. QED  BY <2>1, <2>2, <4>1, CallStays
    <3>. QED  BY <3>1, <3>2
  <2>. QED  BY <1>t, <2>1, <2>2, <2>3, ToldStays, OperationsStay
<1>8. ASSUME NEW e \in Evaluations, Ask(e) PROVE IInv'
  <2>1. PICK r \in left[e] : /\ current' = [current EXCEPT ![e] = r]
                             /\ early' = [early EXCEPT ![e] = r.dependent \in built]
    BY <1>8 DEF Ask
  <2>2. r \in Operation /\ RecordOK(r) /\ r # None
    BY NamesAssumption DEF TypeOK, CallOK
  <2>3. /\ UNCHANGED <<asked, cached, built, client, told, left, results, operations>>
        /\ pc[e] = "ask" /\ pc' = [pc EXCEPT ![e] = "store"]
    BY <1>8 DEF Ask, cache, database, evalctl
  <2>4. Keeps /\ CacheOK'
    BY <2>3 DEF Keeps, CacheOK
  <2>5. ASSUME NEW f \in Evaluations PROVE CallOK(f)'
    <3>1. CASE f = e
      <4>1. pc'[e] = "store" /\ current'[e] = r /\ early'[e] = (r.dependent \in built)
        BY <2>1, <2>3 DEF TypeOK
      <4>2. client[e] = "waiting"
        BY <2>3 DEF CallOK
      <4>. QED  BY <2>2, <2>3, <3>1, <4>1, <4>2 DEF CallOK, RecordOK, ImagesOK, For
    <3>2. CASE f # e
      <4>1. pc'[f] = pc[f] /\ current'[f] = current[f] /\ early'[f] = early[f]
        BY <2>1, <2>3, <3>2 DEF TypeOK
      <4>. QED  BY <2>3, <2>4, <4>1, CallStays
    <3>. QED  BY <3>1, <3>2
  <2>. QED  BY <1>t, <2>3, <2>4, <2>5, ToldStays, OperationsStay
<1>9. ASSUME NEW e \in Evaluations, AskAgain(e) \/ AskLost(e) \/ AskFails(e) PROVE IInv'
  BY <1>9, ExitOK DEF AskAgain, AskLost, AskFails
<1>10. ASSUME NEW e \in Evaluations, Store(e) PROVE IInv'
  <2>1. /\ UNCHANGED <<asked, built, client, told, operations>>
        /\ pc[e] = "store" /\ pc' = [pc EXCEPT ![e] = "ask"]
        /\ left' = [left EXCEPT ![e] = @ \ {current[e]}]
        /\ current' = [current EXCEPT ![e] = None]
        /\ early' = [early EXCEPT ![e] = FALSE]
    BY <1>10 DEF Store, NextOperation, Promise!Remember, database, evalctl
  <2>2. /\ client[e] = "waiting" /\ current[e] \in Operation /\ RecordOK(current[e])
        /\ early[e] => current[e].dependent \in built
    BY <2>1 DEF TypeOK, CallOK
  <2>3. PICK over \in BOOLEAN :
          /\ over => current[e].dependent \in built
          /\ cached[current[e].dependent] # "lost"
          /\ cached' = [cached EXCEPT ![current[e].dependent] = IF over THEN "done" ELSE "pending"]
          /\ results' = IF over THEN [results EXCEPT ![e] = Set(@, current[e].value, current[e].dependent)]
                        ELSE results
    <3>1. early[e] \in BOOLEAN
      BY DEF TypeOK
    <3>2. \A over \in Over(e) : over \in BOOLEAN /\ (over => current[e].dependent \in built)
      BY <2>2, <3>1 DEF Over
    <3>. QED  BY <1>10, <3>2 DEF Store, Collect, Promise!Remember, Promise!Held
  <2>4. /\ For(current[e].dependent, current[e].value)
        /\ current[e].value \in Values
        /\ current[e].dependent \in CacheOps
        /\ asked[current[e].dependent] # None
    BY <2>2, CoversAssumption, NamesAssumption DEF RecordOK, Operation, For
  <2>5. Keeps
    BY <2>1 DEF Keeps
  <2>6. CacheOK'
    BY <2>1, <2>3, <2>4, NamesAssumption DEF TypeOK, CacheOK
  <2>7. ImagesOK(results[e])'
    <3>1. CASE ~over
      <4>1. results' = results
        BY <2>3, <3>1
      <4>. QED  BY <2>1, <4>1 DEF CallOK, ImagesOK, For
    <3>2. CASE over
      <4>1. results'[e] = Set(results[e], current[e].value, current[e].dependent)
        BY <2>3, <3>2 DEF TypeOK
      <4>2. SUFFICES ASSUME NEW v \in DOMAIN results'[e], results'[e][v] # None
                     PROVE  results'[e][v] \in built' /\ ForThen(results'[e][v], v)
        BY DEF ImagesOK, For, ForThen
      <4>3. CASE v = current[e].value
        <5>1. results'[e][v] = current[e].dependent
          BY <4>1, <4>3 DEF Set
        <5>. QED  BY <2>1, <2>3, <2>4, <3>2, <4>3, <5>1 DEF For, ForThen
      <4>4. CASE v # current[e].value
        <5>1. v \in DOMAIN results[e] /\ results'[e][v] = results[e][v]
          BY <4>1, <4>2, <4>4 DEF Set
        <5>. QED  BY <2>1, <4>2, <5>1 DEF CallOK, ImagesOK, For, ForThen
      <4>. QED  BY <4>3, <4>4
    <3>. QED  BY <3>1, <3>2
  <2>8. ASSUME NEW f \in Evaluations PROVE CallOK(f)'
    <3>1. CASE f = e
      <4>1. /\ pc'[e] = "ask" /\ current'[e] = None /\ ~early'[e]
            /\ left'[e] \subseteq left[e]
        BY <2>1 DEF TypeOK
      <4>. QED  BY <2>1, <2>2, <2>7, <3>1, <4>1 DEF CallOK, RecordOK, For
    <3>2. CASE f # e
      <4>1. /\ pc'[f] = pc[f] /\ current'[f] = current[f] /\ early'[f] = early[f]
            /\ left'[f] = left[f]
        BY <2>1, <3>2 DEF TypeOK
      <4>2. results'[f] = results[f]
        BY <2>3, <3>2 DEF TypeOK
      <4>. QED  BY <2>1, <2>5, <4>1, <4>2, CallStays
    <3>. QED  BY <3>1, <3>2
  <2>. QED  BY <1>t, <2>1, <2>5, <2>6, <2>8, ToldStays, OperationsStay
<1>11. CASE EngineCrash
  BY <1>11, ExitOK DEF EngineCrash
<1>12. CASE CacheRestarts
  <2>1. UNCHANGED <<asked, built, client, told, pc, left, current, early, results, operations>>
    BY <1>12 DEF CacheRestarts, Promise!Lose, evalctl, calls, database
  <2>2. Keeps
    BY <2>1 DEF Keeps
  <2>3. CacheOK'
    BY <1>12, <2>1 DEF CacheOK, CacheRestarts, Promise!Lose
  <2>. QED  BY <1>t, <2>1, <2>2, <2>3, CallStays, ToldStays, OperationsStay
<1>13. ASSUME NEW o \in CacheOps, BuilderFinishes(o) PROVE IInv'
  <2>1. UNCHANGED <<asked, cached, client, told, pc, left, current, early, results, operations>>
    BY <1>13 DEF BuilderFinishes, evalctl, calls, database
  <2>2. built \subseteq built'
    BY <1>13 DEF BuilderFinishes
  <2>3. Keeps /\ CacheOK'
    BY <2>1, <2>2 DEF Keeps, CacheOK
  <2>. QED  BY <1>t, <2>1, <2>3, CallStays, ToldStays, OperationsStay
<1>14. CASE UNCHANGED vars
  <2>1. UNCHANGED <<asked, cached, built, client, told, pc, left, current, early, results, operations>>
    BY <1>14 DEF vars, evalctl, calls, database, cache
  <2>2. Keeps /\ CacheOK'
    BY <2>1 DEF Keeps, CacheOK
  <2>. QED  BY <1>t, <2>1, <2>2, CallStays, ToldStays, OperationsStay
<1>15. ASSUME NEW e \in Evaluations, UnknownGraph(e) PROVE IInv'
  <2>1. UNCHANGED <<asked, cached, built, told, pc, left, current, early, results, operations>>
    BY <1>15 DEF UnknownGraph, calls, database, cache
  <2>2. Keeps /\ CacheOK'
    BY <2>1 DEF Keeps, CacheOK
  <2>3. ASSUME NEW f \in Evaluations PROVE CallOK(f)'
    <3>1. CASE f = e
      <4>1. pc'[e] = "idle"
        BY <1>15, <2>1 DEF TypeOK, CallOK, UnknownGraph
      <4>. QED  BY <2>1, <3>1, <4>1 DEF CallOK, RecordOK, ImagesOK, For
    <3>2. CASE f # e
      <4>1. client'[f] = client[f]
        BY <1>15, <3>2 DEF TypeOK, UnknownGraph
      <4>. QED  BY <2>1, <2>2, <4>1, CallStays
    <3>. QED  BY <3>1, <3>2
  <2>. QED  BY <1>t, <2>1, <2>2, <2>3, ToldStays, OperationsStay
<1>16. ASSUME NEW e \in Evaluations, GetPanics(e) PROVE IInv'
  <2>1. /\ CallEnds(e) /\ pc[e] # "store"
        /\ UNCHANGED <<asked, built, told, operations>>
    BY <1>16 DEF GetPanics, Reaching, Getting, Fail, Promise!Lose, database
  <2>2. Keeps
    BY <2>1 DEF Keeps
  <2>3. CacheOK'
    BY <1>16, <2>1 DEF CacheOK, GetPanics, Promise!Lose
  <2>4. \A f \in Evaluations \ {e} : client'[f] = client[f]
    BY <1>16 DEF TypeOK, GetPanics, Fail
  <2>. QED  BY <1>t, <2>1, <2>2, <2>3, <2>4, EndCalls, ToldStays, OperationsStay
<1>17. CASE CacheStarts
  <2>1. UNCHANGED <<asked, cached, built, client, told, pc, left, current, early, results, operations>>
    BY <1>17 DEF CacheStarts, evalctl, calls, database
  <2>2. Keeps /\ CacheOK'
    BY <2>1 DEF Keeps, CacheOK
  <2>. QED  BY <1>t, <2>1, <2>2, CallStays, ToldStays, OperationsStay
<1>. QED
  BY <1>1, <1>2, <1>3, <1>4, <1>5, <1>6, <1>7, <1>8, <1>9, <1>10, <1>11, <1>12,
     <1>13, <1>14, <1>15, <1>16, <1>17 DEF Next, EvalStep, GetOperationStep

(* The inductive invariant of the engine: every operation in a call or in  *)
(* the database is for the value it is filed under.                        *)
THEOREM EngineInvariance == Spec => []IInv
<1>. QED  BY InitIInv, NextIInv, PTL DEF Spec

(* The variables of the engine keep their types.                           *)
THEOREM EngineTypeCorrect == Spec => []TypeOK
<1>1. IInv => TypeOK
  BY DEF IInv
<1>. QED  BY <1>1, EngineInvariance, PTL

(* An image evalctl prints is that of a finished build of its value, in    *)
(* spite of restarts of the engine and the cache and of failed reads and   *)
(* writes of the database.                                                 *)
THEOREM ValuesAlwaysBelong == Spec => []ValuesBelong
<1>1. IInv => ValuesBelong
  BY DEF IInv, ImagesOK, ValuesBelong
<1>. QED  BY <1>1, EngineInvariance, PTL

-----------------------------------------------------------------------------
(* Completeness                                                            *)

(* A step that leaves what an evaluation has alone, and takes nothing from *)
(* the database.                                                           *)
LEMMA CompleteStays ==
  ASSUME NEW e \in Evaluations, CompleteOK(e),
         client'[e] = client[e], wanted'[e] = wanted[e], told'[e] = told[e],
         pc'[e] = pc[e], ahead'[e] = ahead[e], left'[e] = left[e],
         done'[e] = done[e], results'[e] = results[e],
         evaluations \subseteq evaluations', operations \subseteq operations'
  PROVE  CompleteOK(e)'
BY DEF CompleteOK, Recorded, Answered

(* An evaluation whose call has died or failed, or that is not polled.     *)
LEMMA NothingOwed ==
  ASSUME NEW e \in Evaluations, pc'[e] = "idle",
         client'[e] \notin {"polling", "finished"}
  PROVE  CompleteOK(e)'
BY DEF CompleteOK

(* The engine dies: calls are over, but what was finished stays so, and    *)
(* what was being polled can be polled again.                              *)
LEMMA ExitComplete ==
  ASSUME TypeOK, EngineExits, NEW e \in Evaluations \ damaged', e \notin damaged => CompleteOK(e)
  PROVE  CompleteOK(e)'
<1>1. e \notin damaged /\ UNCHANGED <<wanted, told, evaluations, operations>>
  BY DEF EngineExits, database
<1>2. /\ pc'[e] = "idle"
      /\ client'[e] = IF client[e] = "waiting" THEN "failed" ELSE client[e]
  BY DEF EngineExits, All
<1>. QED  BY <1>1, <1>2 DEF CompleteOK, Recorded, Answered

(* A value that the cache has answered is recorded in its turn.            *)
LEMMA GotComplete ==
  ASSUME IInv, NEW e \in Evaluations, Getting(e), NEW o \in CacheOps, NEW d, NEW x,
         Got(e, o, d, x), CompleteOK(e)
  PROVE  CompleteOK(e)'
<1>1. /\ ahead[e] \in Seq(Values) /\ ahead[e] # <<>> /\ pc[e] = "get"
      /\ client[e] = "waiting"
  BY DEF IInv, TypeOK, CallOK, Getting
<1>2. UNCHANGED <<client, wanted, told, pc, operations>>
  BY DEF Got, evalctl, database
<1>3. /\ ahead'[e] = Tail(ahead[e])
      /\ left'[e] = {r \in left[e] : r.value # Value(e)} \cup {Record(e, o, Value(e))}
  BY DEF Got, IInv, TypeOK
<1>4. ASSUME NEW i \in DOMAIN wanted[e]
      PROVE  \/ \E j \in DOMAIN ahead'[e] : ahead'[e][j] = wanted[e][i]
             \/ \E r \in left'[e] \cup operations : r.evaluation = e /\ r.value = wanted[e][i]
  <2>1. CASE wanted[e][i] = Value(e)
    <3>1. Record(e, o, Value(e)) \in left'[e]
      BY <1>3
    <3>. QED  BY <2>1, <3>1 DEF Record
  <2>2. ASSUME wanted[e][i] # Value(e),
               NEW j \in DOMAIN ahead[e], ahead[e][j] = wanted[e][i]
        PROVE  \E k \in DOMAIN ahead'[e] : ahead'[e][k] = wanted[e][i]
    <3>1. j # 1 /\ j \in 1..Len(ahead[e])
      BY <1>1, <2>2 DEF Value
    <3>2. j - 1 \in DOMAIN Tail(ahead[e]) /\ Tail(ahead[e])[j - 1] = ahead[e][j]
      BY <1>1, <3>1
    <3>. QED  BY <1>3, <2>2, <3>2
  <2>3. ASSUME wanted[e][i] # Value(e),
               NEW r \in left[e] \cup operations, r.evaluation = e, r.value = wanted[e][i]
        PROVE  r \in left'[e] \cup operations
    BY <1>3, <2>3
  <2>. QED  BY <1>1, <2>1, <2>2, <2>3 DEF CompleteOK, Recorded
<1>. QED  BY <1>1, <1>2, <1>4 DEF CompleteOK, Recorded

(* An operation dealt with is either answered, or the reply is not done.   *)
LEMMA StoreComplete ==
  ASSUME IInv, NEW e \in Evaluations, Store(e), CompleteOK(e)
  PROVE  CompleteOK(e)'
<1>1. current[e] \in Operation /\ pc[e] = "store" /\ client[e] = "waiting"
  BY DEF IInv, TypeOK, CallOK, Store
<1>2. PICK over \in BOOLEAN :
        /\ results' = IF over THEN [results EXCEPT ![e] = Set(@, current[e].value, current[e].dependent)]
                      ELSE results
        /\ done' = [done EXCEPT ![e] = @ /\ over]
  BY DEF Store, Collect, Over
<1>3. UNCHANGED <<client, wanted, told, evaluations, operations>>
  BY DEF Store, evalctl, database
<1>4. pc'[e] = "ask" /\ left'[e] = left[e] \ {current[e]}
  BY DEF Store, NextOperation, IInv, TypeOK
<1>5. done[e] \in BOOLEAN /\ done'[e] = (done[e] /\ over)
  BY <1>2 DEF IInv, TypeOK
<1>6. ASSUME over PROVE results'[e] = Set(results[e], current[e].value, current[e].dependent)
  BY <1>2, <1>6 DEF IInv, TypeOK
<1>7. current[e].dependent # None
  BY <1>1, NamesAssumption DEF Operation
<1>8. ASSUME NEW i \in DOMAIN wanted[e], done'[e],
             wanted[e][i] = current[e].value \/ Answered(e, i, results[e])
      PROVE  wanted[e][i] \in DOMAIN results'[e] /\ results'[e][wanted[e][i]] # None
  <2>1. over
    BY <1>5, <1>8
  <2>2. results'[e] = Set(results[e], current[e].value, current[e].dependent)
    BY <1>6, <2>1
  <2>. QED  BY <1>7, <1>8, <2>2 DEF Set, Answered
<1>9. ASSUME NEW i \in DOMAIN wanted[e]
      PROVE  \/ \E r \in left'[e] : r.evaluation = e /\ r.value = wanted[e][i]
             \/ done'[e] => wanted[e][i] \in DOMAIN results'[e] /\ results'[e][wanted[e][i]] # None
  <2>1. CASE Recorded(e, i, left[e])
    <3>1. PICK r \in left[e] : r.evaluation = e /\ r.value = wanted[e][i]
      BY <2>1 DEF Recorded
    <3>2. CASE r = current[e]
      BY <1>8, <3>1, <3>2
    <3>3. CASE r # current[e]
      BY <1>4, <3>1, <3>3
    <3>. QED  BY <3>2, <3>3
  <2>2. CASE done[e] => Answered(e, i, results[e])
    BY <1>5, <1>8, <2>2
  <2>. QED  BY <1>1, <2>1, <2>2 DEF CompleteOK
<1>. QED  BY <1>1, <1>3, <1>4, <1>9 DEF CompleteOK, Recorded, Answered

LEMMA InitCompleteInv == Init => CompleteInv
<1>. SUFFICES ASSUME Init, NEW e \in Evaluations PROVE CompleteOK(e)
  BY InitIInv DEF CompleteInv
<1>. QED  BY DEF Init, All, CompleteOK

(* Each action, for the evaluation whose step it is and for the others.    *)
LEMMA NextComplete ==
  ASSUME CompleteInv, [Next]_vars, NEW d \in Evaluations \ damaged'
  PROVE  CompleteOK(d)'
<1>. USE DEF CompleteInv
<1>t. TypeOK
  BY DEF IInv
<1>0. damaged \subseteq damaged'
  <2>1. CASE UNCHANGED vars
    BY <2>1 DEF vars, database
  <2>2. CASE Next
    BY <2>2 DEF Next, EvalStep, GetOperationStep, UnknownGraph, CallEval, Hit, Miss, Got,
         GetFails, SaveOperation, SaveEvaluation, SaveFails, Poll, Ask, AskAgain, AskLost,
         AskFails, EngineExits, Store, PollReply, EngineCrash, CacheRestarts,
         BuilderFinishes, GetPanics, CacheStarts, database
  <2>. QED  BY <2>1, <2>2
<1>d. d \notin damaged /\ CompleteOK(d)
  BY <1>0
<1>1. ASSUME NEW e \in Evaluations, CallEval(e) PROVE CompleteOK(d)'
  <2>1. PICK r \in Requests : /\ wanted' = [wanted EXCEPT ![e] = r]
                              /\ ahead' = [ahead EXCEPT ![e] = r]
    BY <1>1 DEF CallEval, Asks
  <2>2. CASE d = e
    <3>1. /\ wanted'[d] = r /\ ahead'[d] = r
          /\ pc'[d] = "get" /\ client'[d] = "waiting"
      BY <1>t, <1>1, <2>1, <2>2 DEF TypeOK, CallEval
    <3>. QED  BY <3>1 DEF CompleteOK
  <2>3. CASE d # e
    BY <1>d, <1>t, <1>1, <2>1, <2>3, CompleteStays DEF TypeOK, CallEval, database
  <2>. QED  BY <2>2, <2>3
<1>2. ASSUME NEW e \in Evaluations, Hit(e) \/ Miss(e) PROVE CompleteOK(d)'
  <2>1. Getting(e) /\ \E o \in CacheOps : \E over, x : Got(e, o, over, x)
    BY <1>2 DEF Hit, Miss, Reaching
  <2>2. PICK o \in CacheOps : \E over, x : Got(e, o, over, x)
    BY <2>1
  <2>3. PICK over, x : Got(e, o, over, x)
    BY <2>2
  <2>4. CASE d = e
    BY <1>d, <2>1, <2>3, <2>4, GotComplete
  <2>5. CASE d # e
    BY <1>d, <1>t, <2>3, <2>5, CompleteStays DEF TypeOK, Got, evalctl, database
  <2>. QED  BY <2>4, <2>5
<1>3. ASSUME NEW e \in Evaluations, GetFails(e) \/ GetPanics(e) \/ SaveFails(e)
      PROVE  CompleteOK(d)'
  <2>1. Fail(e) /\ UNCHANGED database
    BY <1>3 DEF GetFails, GetPanics, SaveFails
  <2>2. CASE d = e
    <3>1. pc'[d] = "idle" /\ client'[d] = "failed"
      BY <1>t, <2>1, <2>2 DEF TypeOK, Fail, CallEnds
    <3>. QED  BY <3>1, NothingOwed
  <2>3. CASE d # e
    BY <1>d, <1>t, <2>1, <2>3, CompleteStays DEF TypeOK, Fail, CallEnds, database
  <2>. QED  BY <2>2, <2>3
<1>4. ASSUME NEW e \in Evaluations, SaveOperation(e) PROVE CompleteOK(d)'
  <2>1. PICK r \in left[e] :
          /\ left' = [left EXCEPT ![e] = @ \ {r}]
          /\ \/ operations' = operations \cup {r}
             \/ damaged' = damaged \cup {e} /\ operations' = operations
    BY <1>4 DEF SaveOperation
  <2>2. UNCHANGED <<client, wanted, told, pc, ahead, done, results, evaluations>>
    BY <1>4 DEF SaveOperation, evalctl
  <2>3. CASE d = e
    <3>1. operations' = operations \cup {r}
      BY <2>1, <2>3
    <3>2. left'[d] \cup operations' = left[d] \cup operations
      BY <1>t, <2>1, <2>3, <3>1 DEF TypeOK
    <3>3. pc[d] = "get" /\ client[d] = "waiting"
      BY <1>4, <2>3 DEF SaveOperation, Writing, IInv, CallOK
    <3>. QED  BY <1>d, <2>2, <3>2, <3>3 DEF CompleteOK, Recorded
  <2>4. CASE d # e
    BY <1>d, <1>t, <2>1, <2>2, <2>4, CompleteStays DEF TypeOK
  <2>. QED  BY <2>3, <2>4
<1>5. ASSUME NEW e \in Evaluations, SaveEvaluation(e) PROVE CompleteOK(d)'
  <2>1. /\ Reply(e, "served") /\ left[e] = {} /\ pc[e] = "get" /\ ahead[e] = <<>>
        /\ evaluations' = evaluations \cup {e} /\ UNCHANGED operations
    BY <1>5 DEF SaveEvaluation, Writing
  <2>2. CASE d = e
    <3>1. /\ pc'[d] = "idle" /\ client'[d] \in {"served", "polling"}
          /\ wanted' = wanted /\ d \in evaluations'
      BY <1>t, <2>1, <2>2 DEF TypeOK, Reply, CallEnds
    <3>2. \A i \in DOMAIN wanted[d] : Recorded(d, i, operations)
      BY <1>d, <2>1, <2>2 DEF CompleteOK, Recorded
    <3>. QED  BY <2>1, <3>1, <3>2 DEF CompleteOK, Recorded
  <2>3. CASE d # e
    BY <1>d, <1>t, <2>1, <2>3, CompleteStays DEF TypeOK, Reply, CallEnds
  <2>. QED  BY <2>2, <2>3
<1>6. ASSUME NEW e \in Evaluations, Poll(e) PROVE CompleteOK(d)'
  <2>1. /\ client[e] = "polling"
        /\ client' = [client EXCEPT ![e] = "waiting"]
        /\ pc' = [pc EXCEPT ![e] = "ask"]
        /\ UNCHANGED <<wanted, told, ahead, done, results, evaluations, operations>>
        /\ \/ left' = [left EXCEPT ![e] = Preload(e)]
           \/ left' = [left EXCEPT ![e] = {}] /\ damaged' = damaged \cup {e}
    BY <1>6 DEF Poll
  <2>2. CASE d = e
    <3>1. /\ pc'[d] = "ask" /\ client'[d] = "waiting"
          /\ left'[d] = Preload(d)
      BY <1>t, <2>1, <2>2 DEF TypeOK
    <3>2. d \in evaluations /\ \A i \in DOMAIN wanted[d] : Recorded(d, i, operations)
      BY <1>d, <2>1, <2>2 DEF CompleteOK
    <3>3. \A i \in DOMAIN wanted[d] : Recorded(d, i, left'[d])
      BY <3>1, <3>2 DEF Recorded, Preload
    <3>. QED  BY <2>1, <3>1, <3>2, <3>3 DEF CompleteOK, Recorded
  <2>3. CASE d # e
    BY <1>d, <1>t, <2>1, <2>3, CompleteStays DEF TypeOK
  <2>. QED  BY <2>2, <2>3
<1>7. ASSUME NEW e \in Evaluations, Ask(e) PROVE CompleteOK(d)'
  <2>1. /\ pc[e] = "ask" /\ pc' = [pc EXCEPT ![e] = "store"]
        /\ UNCHANGED <<client, wanted, told, ahead, left, done, results, evaluations, operations>>
    BY <1>7 DEF Ask, evalctl, database
  <2>2. CASE d = e
    <3>1. pc[d] = "ask" /\ pc'[d] = "store"
      BY <1>t, <2>1, <2>2 DEF TypeOK
    <3>. QED  BY <1>d, <2>1, <3>1 DEF CompleteOK, Recorded, Answered
  <2>3. CASE d # e
    BY <1>d, <1>t, <2>1, <2>3, CompleteStays DEF TypeOK
  <2>. QED  BY <2>2, <2>3
<1>8. ASSUME NEW e \in Evaluations, AskAgain(e) \/ AskLost(e) \/ AskFails(e) PROVE CompleteOK(d)'
  BY <1>d, <1>t, <1>8, ExitComplete DEF AskAgain, AskLost, AskFails
<1>9. ASSUME NEW e \in Evaluations, Store(e) PROVE CompleteOK(d)'
  <2>1. CASE d = e
    BY <1>d, <1>9, <2>1, StoreComplete
  <2>2. CASE d # e
    <3>1. done'[d] = done[d] /\ results'[d] = results[d]
      BY <1>t, <1>9, <2>2 DEF TypeOK, Store, Collect
    <3>2. pc'[d] = pc[d] /\ left'[d] = left[d]
      BY <1>t, <1>9, <2>2 DEF TypeOK, Store, NextOperation
    <3>3. UNCHANGED <<client, wanted, told, ahead, evaluations, operations>>
      BY <1>9 DEF Store, evalctl, database
    <3>. QED  BY <1>d, <3>1, <3>2, <3>3, CompleteStays
  <2>. QED  BY <2>1, <2>2
<1>10. ASSUME NEW e \in Evaluations, PollReply(e) PROVE CompleteOK(d)'
  <2>1. /\ Reply(e, "finished") /\ left[e] = {} /\ pc[e] = "ask"
        /\ UNCHANGED <<evaluations, operations>>
    BY <1>10 DEF PollReply, database
  <2>2. CASE d = e
    <3>1. /\ pc'[d] = "idle" /\ wanted' = wanted
          /\ client'[d] = IF done[d] THEN "finished" ELSE "polling"
          /\ done[d] => told'[d] = results[d]
      BY <1>t, <2>1, <2>2 DEF TypeOK, Reply, CallEnds
    <3>2. /\ d \in evaluations /\ \A i \in DOMAIN wanted[d] : Recorded(d, i, operations)
          /\ \A i \in DOMAIN wanted[d] : done[d] => Answered(d, i, results[d])
      BY <1>d, <2>1, <2>2 DEF CompleteOK, Recorded
    <3>. QED  BY <2>1, <3>1, <3>2 DEF CompleteOK, Recorded, Answered
  <2>3. CASE d # e
    BY <1>d, <1>t, <2>1, <2>3, CompleteStays DEF TypeOK, Reply, CallEnds
  <2>. QED  BY <2>2, <2>3
<1>11. CASE EngineCrash
  BY <1>d, <1>t, <1>11, ExitComplete DEF EngineCrash
<1>12. CASE CacheRestarts
  BY <1>d, <1>12, CompleteStays DEF CacheRestarts, evalctl, calls, database
<1>13. ASSUME NEW o \in CacheOps, BuilderFinishes(o) PROVE CompleteOK(d)'
  BY <1>d, <1>13, CompleteStays DEF BuilderFinishes, evalctl, calls, database
<1>14. CASE UNCHANGED vars
  BY <1>d, <1>14, CompleteStays DEF vars, evalctl, calls, database
<1>15. ASSUME NEW e \in Evaluations, UnknownGraph(e) PROVE CompleteOK(d)'
  <2>1. /\ client[e] = "start" /\ client' = [client EXCEPT ![e] = "failed"]
        /\ UNCHANGED <<told, pc, ahead, left, done, results, evaluations, operations>>
    BY <1>15 DEF UnknownGraph, calls, database
  <2>2. CASE d = e
    <3>1. pc'[d] = "idle" /\ client'[d] = "failed"
      BY <1>t, <2>1, <2>2 DEF TypeOK, IInv, CallOK
    <3>. QED  BY <3>1, NothingOwed
  <2>3. CASE d # e
    <3>1. client'[d] = client[d] /\ wanted'[d] = wanted[d]
      BY <1>t, <1>15, <2>1, <2>3 DEF TypeOK, UnknownGraph, Asks
    <3>. QED  BY <1>d, <2>1, <3>1, CompleteStays
  <2>. QED  BY <2>2, <2>3
<1>16. CASE CacheStarts
  BY <1>d, <1>16, CompleteStays DEF CacheStarts, evalctl, calls, database
<1>. QED
  BY <1>1, <1>2, <1>3, <1>4, <1>5, <1>6, <1>7, <1>8, <1>9, <1>10, <1>11, <1>12,
     <1>13, <1>14, <1>15, <1>16 DEF Next, EvalStep, GetOperationStep

(* The inductive invariant: no value asked for gets lost between Eval, the *)
(* database, and the polls.                                                *)
THEOREM CompleteInvariance == Spec => []CompleteInv
<1>1. CompleteInv /\ [Next]_vars => CompleteInv'
  BY NextIInv, NextComplete DEF CompleteInv
<1>. QED  BY <1>1, InitCompleteInv, PTL DEF Spec

(* An evaluation that is polled until it is done has an image for every    *)
(* value, unless a row of it could not be written or read: done is never   *)
(* said of part of the operations, whatever restarts there were.           *)
THEOREM PolledAlwaysHasAll == Spec => []PolledHasAll
<1>1. CompleteInv => PolledHasAll
  BY DEF CompleteInv, CompleteOK, PolledHasAll
<1>. QED  BY <1>1, CompleteInvariance, PTL
=============================================================================
