---------------------------- MODULE CachePromise ----------------------------
(***************************************************************************)
(* What the cache service promises the engine about the names it gives     *)
(* out.  A name stays with what it was first given out for, and is never   *)
(* given to anything else, not even after a restart has lost it.  What is  *)
(* known of it may go back from "done" to "pending" (a late answer of the  *)
(* builder), and from either to "lost", but never comes back from there.   *)
(*                                                                         *)
(* The cache (CacheService) implements this specification, and the engine  *)
(* (EngineService) uses its actions for the cache it calls.                *)
(***************************************************************************)
CONSTANTS Names,     \* the names of operations
          Wanted,    \* what an operation can be given out for
          None       \* absence of it

VARIABLES asked,     \* asked[o]: what operation o was given out for
          cached     \* cached[o]: what is known of it

promiseVars == <<cached, asked>>

PromiseInit ==
  /\ asked  = [o \in Names |-> None]
  /\ cached = [o \in Names |-> "unknown"]

Held(o) == cached[o] \in {"pending", "done"}

(* Work v is begun under the new name o.                                   *)
Give(o, v) ==
  /\ cached[o] = "unknown"
  /\ cached' = [cached EXCEPT ![o] = "pending"]
  /\ asked'  = [asked EXCEPT ![o] = v]

(* An answer about o is stored, whatever was stored before.                *)
Remember(o, over) ==
  /\ Held(o)
  /\ cached' = [cached EXCEPT ![o] = IF over THEN "done" ELSE "pending"]
  /\ UNCHANGED asked

(* A restart loses all that was known.                                     *)
Lose ==
  /\ cached' = [o \in Names |-> IF cached[o] = "unknown" THEN "unknown" ELSE "lost"]
  /\ UNCHANGED asked

PromiseNext ==
  \/ \E o \in Names : \/ \E v \in Wanted : Give(o, v)
                      \/ \E over \in BOOLEAN : Remember(o, over)
  \/ Lose

PromiseSpec == PromiseInit /\ [][PromiseNext]_promiseVars
=============================================================================
