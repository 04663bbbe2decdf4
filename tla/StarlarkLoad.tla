---------------------------- MODULE StarlarkLoad ----------------------------
(***************************************************************************)
(* Load of pkg/egraph: a Starlark file is executed once, when it is first  *)
(* loaded, and its globals, or its error, are kept.  A load statement      *)
(* executes the other file in a thread of its own while its own waits; a   *)
(* file that is met again while it is being executed is a cycle.           *)
(*                                                                         *)
(* A definition marked "Mutant" is a plausible mistake in the one after    *)
(* it, there to be put in its place to see that a property notices.        *)
(***************************************************************************)
EXTENDS Naturals, Sequences, Functions

CONSTANTS Modules,      \* the files there can be
          Root,         \* comparison.star
          ImportLists   \* the lists of load statements a file can have

ASSUME RootAssumption == Root \in Modules
ASSUME ImportsAssumption == ImportLists \subseteq Seq(Modules)

VARIABLES
  imports,   \* the load statements of each file
  broken,    \* the files that cannot be read, or fail by themselves
  cache,     \* the map: "absent", "loading" (a nil entry), "loaded" or "failed"
  stack,     \* the files being executed, innermost first, and what each has
             \* still to load
  executed,  \* how often each file was executed
  outcome    \* of the call of load for Root

vars == <<imports, broken, cache, stack, executed, outcome>>

Frame == [module : Modules, rest : Seq(Modules)]

TypeOK ==
  /\ imports \in [Modules -> ImportLists]
  /\ broken \in SUBSET Modules
  /\ cache \in [Modules -> {"absent", "loading", "loaded", "failed"}]
  /\ stack \in Seq(Frame)
  /\ executed \in [Modules -> Nat]
  /\ outcome \in {"none", "loading", "loaded", "failed"}

Init ==
  /\ imports \in [Modules -> ImportLists]
  /\ broken \in SUBSET Modules
  /\ cache = [m \in Modules |-> "absent"]
  /\ stack = <<>>
  /\ executed = [m \in Modules |-> 0]
  /\ outcome = "none"

(* Mutant: no entry is made while the file is executed.                    *)
ExecuteUnmarked(m, waiting) ==
  /\ cache' = cache
  /\ executed' = [executed EXCEPT ![m] = @ + 1]
  /\ stack' = <<[module |-> m, rest |-> imports[m]]>> \o waiting

(* ExecFile starts on m: its entry is nil until it ends.                   *)
Execute(m, waiting) ==
  /\ cache' = [cache EXCEPT ![m] = "loading"]
  /\ executed' = [executed EXCEPT ![m] = @ + 1]
  /\ stack' = <<[module |-> m, rest |-> imports[m]]>> \o waiting

Start ==
  /\ outcome = "none"
  /\ outcome' = "loading"
  /\ Execute(Root, <<>>)
  /\ UNCHANGED <<imports, broken>>

Top == Head(stack)

(* The load statement at hand asks for a file whose entry is in S.         *)
Loading(S) == stack # <<>> /\ Top.rest # <<>> /\ cache[Head(Top.rest)] \in S

(* The execution of the innermost file is over.  The file that waits for   *)
(* it finds its entry in the cache.                                        *)
Close(end) ==
  /\ cache' = [cache EXCEPT ![Top.module] = end]
  /\ stack' = Tail(stack)
  /\ outcome' = IF Tail(stack) = <<>> THEN end ELSE outcome
  /\ UNCHANGED <<imports, broken, executed>>

(* Mutant: a file that failed is executed again.                           *)
LoadFirstOrFailed ==
  /\ Loading({"absent", "failed"})
  /\ Execute(Head(Top.rest), stack)
  /\ UNCHANGED <<imports, broken, outcome>>

(* A file nobody has loaded yet.                                           *)
LoadFirst ==
  /\ Loading({"absent"})
  /\ Execute(Head(Top.rest), stack)
  /\ UNCHANGED <<imports, broken, outcome>>

(* Mutant: what there is of a file that is being executed will do.         *)
LoadCachedOrPartial ==
  /\ Loading({"loaded", "loading"})
  /\ stack' = <<[Top EXCEPT !.rest = Tail(@)]>> \o Tail(stack)
  /\ UNCHANGED <<imports, broken, cache, executed, outcome>>

(* The globals are in the cache: on to the next load statement.            *)
LoadCached ==
  /\ Loading({"loaded"})
  /\ stack' = <<[Top EXCEPT !.rest = Tail(@)]>> \o Tail(stack)
  /\ UNCHANGED <<imports, broken, cache, executed, outcome>>

(* Mutant: a file that is being executed is waited for.                    *)
LoadWaits == Loading({"failed"}) /\ Close("failed")

(* A cycle, or the error that is in the cache: the load statement fails,   *)
(* and with it the file it is in.                                          *)
LoadFails == Loading({"loading", "failed"}) /\ Close("failed")

(* The file cannot be read, or fails by itself, at any of its statements.  *)
ExecFails == stack # <<>> /\ Top.module \in broken /\ Close("failed")

ExecEnds ==
  /\ stack # <<>>
  /\ Top.module \notin broken
  /\ Top.rest = <<>>
  /\ Close("loaded")

Next == Start \/ LoadFirst \/ LoadCached \/ LoadFails \/ ExecFails \/ ExecEnds

Spec == Init /\ [][Next]_vars

(* The interpreter runs.                                                   *)
FairSpec == Spec /\ WF_vars(Next)

-----------------------------------------------------------------------------
(* Properties                                                              *)

(* No file is executed twice, however many files load it and whether it    *)
(* failed or not: what it prints and computes happens once.                *)
ExecutedOnce == \A m \in Modules : executed[m] <= 1

Imports(m) == Range(imports[m])

(* What the files of S load is in S, and they load each other in no cycle: *)
(* of any of them there is one that loads none of these.                   *)
Closed(S)  == \A m \in S : Imports(m) \subseteq S
Acyclic(S) == \A T \in SUBSET S : T # {} => \E m \in T : Imports(m) \cap T = {}

(* The reference: none of the files m needs, itself included, fails by     *)
(* itself or is on a cycle of loads.                                       *)
Good(m) == \E S \in SUBSET Modules : m \in S /\ S \cap broken = {} /\ Closed(S) /\ Acyclic(S)

(* A file is taken to have failed if and only if it needs a file that      *)
(* fails by itself or that is on a cycle of loads, whatever was loaded     *)
(* before it and although the entries of failed loads are kept.            *)
FailsIfBad ==
  \A m \in Modules : cache[m] \in {"loaded", "failed"} => (cache[m] = "failed" <=> ~Good(m))

(* Why it ends, for any files: each step takes up a file that was never    *)
(* taken up, or else ends one that is being executed, or else brings the   *)
(* innermost one to its next load statement.                               *)
Absent == {m \in Modules : cache[m] = "absent"}

LoadAdvances ==
  [][\/ Absent' \subseteq Absent /\ Absent' # Absent
     \/ Absent' = Absent /\ Len(stack') < Len(stack)
     \/ Absent' = Absent /\ Len(stack') = Len(stack) /\ Len(Top'.rest) < Len(Top.rest)]_vars

(* The load of the root ends: a cycle is reported, not followed.           *)
Terminates == <>(outcome \in {"loaded", "failed"})
-----------------------------------------------------------------------------
(* The inductive invariant behind ExecutedOnce: a file has an entry, nil   *)
(* or not, if and only if its execution was started, once.                 *)
IInv ==
  /\ TypeOK
  /\ \A m \in Modules : executed[m] = IF cache[m] = "absent" THEN 0 ELSE 1
  /\ outcome = "none" => stack = <<>> /\ cache[Root] = "absent"
  /\ \A i \in DOMAIN stack : cache[stack[i].module] # "absent"

(* The inductive invariant behind FailsIfBad.                              *)

(* The files on the stack are those with a nil entry, each once, and each  *)
(* but the innermost waits for the load statement that asks for the next.  *)
StackOK ==
  /\ \A m \in Modules : cache[m] = "loading" <=> \E i \in DOMAIN stack : stack[i].module = m
  /\ \A i, j \in DOMAIN stack : stack[i].module = stack[j].module => i = j
  /\ \A i \in DOMAIN stack : i > 1 =>
       stack[i].rest # <<>> /\ Head(stack[i].rest) = stack[i - 1].module

(* What a file being executed has still to load are loads of it, and the   *)
(* other ones have succeeded.                                              *)
RestOK ==
  \A i \in DOMAIN stack :
    /\ Range(stack[i].rest) \subseteq Imports(stack[i].module)
    /\ \A n \in Imports(stack[i].module) : n \in Range(stack[i].rest) \/ cache[n] = "loaded"

Loaded == {m \in Modules : cache[m] = "loaded"}

(* The files that are loaded need each other only.                         *)
LoadedOK == Loaded \cap broken = {} /\ Closed(Loaded) /\ Acyclic(Loaded)

FailedOK == \A m \in Modules : cache[m] = "failed" => ~Good(m)

ResultInv == IInv /\ StackOK /\ RestOK /\ LoadedOK /\ FailedOK
=============================================================================
