----------------------------- MODULE Operations -----------------------------
(***************************************************************************)
(* What a server of long-running operations promises to its callers:       *)
(* async_service.Operation and the Operations service of                   *)
(* proto/async_service/async_service.proto.  A call that starts work gets  *)
(* a name at once; GetOperation on that name answers "not done" until the  *)
(* work has a result, and from then on "done" with that result.            *)
(*                                                                         *)
(* The builder (BuilderService) implements OpSpec as long as it is not     *)
(* restarted, and ForgetfulSpec in any case; the cache (CacheService) is   *)
(* checked and proved against ForgetfulSpec as the builder it calls.       *)
(***************************************************************************)
CONSTANTS Names,      \* names an operation can have
          Works,      \* what can be asked for
          Results,    \* what an operation can answer
          None        \* absence of a request or of a result

VARIABLES state,      \* state[n]: what the server knows of operation n
          work,       \* work[n]: what operation n was started for
          result      \* result[n]: its answer, once done

opVars == <<state, work, result>>

OpTypeOK ==
  /\ state  \in [Names -> {"unknown", "pending", "done"}]
  /\ work   \in [Names -> Works \cup {None}]
  /\ result \in [Names -> Results \cup {None}]

OpInit ==
  /\ state  = [n \in Names |-> "unknown"]
  /\ work   = [n \in Names |-> None]
  /\ result = [n \in Names |-> None]

(* A call accepts work w under the new name n. *)
Start(n, w) ==
  /\ state[n] = "unknown"
  /\ state' = [state EXCEPT ![n] = "pending"]
  /\ work'  = [work EXCEPT ![n] = w]
  /\ UNCHANGED result

(* The work named n ends with the answer r. *)
Finish(n, r) ==
  /\ state[n] = "pending"
  /\ state'  = [state EXCEPT ![n] = "done"]
  /\ result' = [result EXCEPT ![n] = r]
  /\ UNCHANGED work

FinishSome(n) == \E r \in Results : Finish(n, r)

(* A server that keeps its results in memory is restarted: it no longer    *)
(* knows what is done.  The work it had begun goes on, and the names it    *)
(* gave stay in use.                                                       *)
Forget ==
  /\ state'  = [n \in Names |-> IF state[n] = "done" THEN "pending" ELSE state[n]]
  /\ result' = [n \in Names |-> None]
  /\ UNCHANGED work

OpNext == \E n \in Names : (\E w \in Works : Start(n, w)) \/ FinishSome(n)

OpSpec        == OpInit /\ [][OpNext]_opVars
ForgetfulSpec == OpInit /\ [][OpNext \/ Forget]_opVars
=============================================================================
