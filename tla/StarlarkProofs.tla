--------------------------- MODULE StarlarkProofs ---------------------------
(* No file is executed twice, and a file fails if and only if it needs one *)
(* that is broken or on a cycle: the proofs, for any set of files.         *)
EXTENDS StarlarkLoad, TLAPS

(* The state Load starts in satisfies the invariant.                       *)
LEMMA InitIInv == Init => IInv
  BY RootAssumption DEF Init, IInv, TypeOK, Frame

(* Starting the execution of a file that has no entry keeps the invariant, *)
(* whatever files are waiting for it.                                      *)
LEMMA ExecuteIInv ==
  ASSUME IInv, NEW m \in Modules, cache[m] = "absent",
         NEW waiting \in Seq(Frame),
         \A i \in DOMAIN waiting : cache[waiting[i].module] # "absent",
         Execute(m, waiting), UNCHANGED <<imports, broken>>,
         outcome' \in {"loading", "loaded", "failed"}
  PROVE  IInv'
<1> DEFINE frame == [module |-> m, rest |-> imports[m]]
<1> USE DEF IInv, TypeOK
<1>1. imports[m] \in Seq(Modules)
  BY ImportsAssumption
<1>2. frame \in Frame
  BY <1>1 DEF Frame
<1>3. stack' = <<frame>> \o waiting /\ stack' \in Seq(Frame)
  BY <1>2 DEF Execute
<1>4. TypeOK'
  BY <1>3 DEF Execute
<1>5. \A n \in Modules : executed'[n] = IF cache'[n] = "absent" THEN 0 ELSE 1
  BY DEF Execute
<1>6. ASSUME NEW i \in DOMAIN stack' PROVE cache'[stack'[i].module] # "absent"
  <2>1. CASE i = 1
    BY <2>1, <1>3 DEF Execute
  <2>2. CASE i # 1
    <3>1. i - 1 \in DOMAIN waiting /\ stack'[i] = waiting[i - 1]
      BY <2>2, <1>2, <1>3
    <3>2. waiting[i - 1] \in Frame
      BY <3>1
    <3>3. waiting[i - 1].module \in Modules
      BY <3>2 DEF Frame
    <3> QED
      BY <3>1, <3>3 DEF Execute
  <2> QED
    BY <2>1, <2>2
<1> QED
  BY <1>4, <1>5, <1>6

(* What is left of the stack below its top.                                *)
LEMMA WaitingOK ==
  ASSUME IInv, stack # <<>>
  PROVE  /\ Top \in Frame
         /\ Tail(stack) \in Seq(Frame)
         /\ \A i \in DOMAIN stack : stack[i].module \in Modules
         /\ \A i \in DOMAIN Tail(stack) : i + 1 \in DOMAIN stack /\ Tail(stack)[i] = stack[i + 1]
<1>1. stack \in Seq(Frame)
  BY DEF IInv, TypeOK
<1>2. Top \in Frame /\ Tail(stack) \in Seq(Frame)
  BY <1>1 DEF Top
<1>3. ASSUME NEW i \in DOMAIN stack PROVE stack[i].module \in Modules
  <2>1. stack[i] \in Frame
    BY <1>1
  <2> QED
    BY <2>1 DEF Frame
<1>4. \A i \in DOMAIN Tail(stack) : i + 1 \in DOMAIN stack /\ Tail(stack)[i] = stack[i + 1]
  BY <1>1
<1> QED
  BY <1>2, <1>3, <1>4

(* The end of an execution keeps the invariant: the entry that was nil is  *)
(* given its value.                                                        *)
LEMMA CloseIInv ==
  ASSUME IInv, stack # <<>>, NEW end \in {"loaded", "failed"}, Close(end)
  PROVE  IInv'
<1> USE DEF IInv, TypeOK
<1>1. Top.module \in Modules /\ cache[Top.module] # "absent"
  BY WaitingOK DEF Top, Frame
<1>2. TypeOK'
  BY WaitingOK DEF Close
<1>3. \A n \in Modules : executed'[n] = IF cache'[n] = "absent" THEN 0 ELSE 1
  BY <1>1 DEF Close
<1>4. outcome' # "none"
  BY DEF Close
<1>5. \A i \in DOMAIN stack' : cache'[stack'[i].module] # "absent"
  BY WaitingOK, <1>1 DEF Close
<1> QED
  BY <1>2, <1>3, <1>4, <1>5

(* A file whose entry is there is not executed: the load goes on with the  *)
(* next statement.                                                         *)
LEMMA LoadCachedIInv == ASSUME IInv, LoadCached PROVE IInv'
<1> DEFINE frame == [Top EXCEPT !.rest = Tail(@)]
<1> USE DEF IInv, TypeOK
<1>1. stack # <<>> /\ Top.rest # <<>> /\ Top.module \in Modules /\ cache[Top.module] # "absent"
  BY WaitingOK DEF LoadCached, Loading, Top, Frame
<1>2. frame \in Frame /\ frame.module = Top.module
  <2>1. Top \in Frame /\ Top.rest \in Seq(Modules)
    BY <1>1, WaitingOK DEF Frame
  <2>2. Tail(Top.rest) \in Seq(Modules)
    BY <1>1, <2>1
  <2>3. \A t \in Frame, r \in Seq(Modules) :
          [t EXCEPT !.rest = r] \in Frame /\ [t EXCEPT !.rest = r].module = t.module
    BY DEF Frame
  <2> QED
    BY <2>1, <2>2, <2>3
<1>3. stack' = <<frame>> \o Tail(stack) /\ stack' \in Seq(Frame)
  BY <1>1, <1>2, WaitingOK DEF LoadCached
<1>4. outcome # "none"
  BY <1>1
<1>5. ASSUME NEW i \in DOMAIN stack' PROVE cache[stack'[i].module] # "absent"
  <2>1. CASE i = 1
    <3>1. stack'[i] = frame
      BY <2>1, <1>1, <1>2, <1>3, WaitingOK
    <3> QED
      BY <3>1, <1>1, <1>2
  <2>2. CASE i # 1
    <3>1. i - 1 \in DOMAIN Tail(stack) /\ stack'[i] = Tail(stack)[i - 1]
      BY <2>2, <1>1, <1>3, WaitingOK
    <3> QED
      BY <3>1, <1>1, WaitingOK
  <2> QED
    BY <2>1, <2>2
<1> QED
  BY <1>3, <1>4, <1>5 DEF LoadCached

(* Every step keeps the invariant.                                         *)
LEMMA StepIInv == IInv /\ [Next]_vars => IInv'
<1> SUFFICES ASSUME IInv, [Next]_vars PROVE IInv'
  OBVIOUS
<1>1. CASE Start
  <2>1. cache[Root] = "absent" /\ <<>> \in Seq(Frame)
    BY <1>1 DEF Start, IInv
  <2>2. Execute(Root, <<>>) /\ UNCHANGED <<imports, broken>> /\ outcome' = "loading"
    BY <1>1 DEF Start
  <2>3. \A i \in DOMAIN <<>> : cache[<<>>[i].module] # "absent"
    OBVIOUS
  <2> QED
    BY <2>1, <2>2, <2>3, ExecuteIInv, RootAssumption
<1>2. CASE LoadFirst
  <2>1. Head(Top.rest) \in Modules /\ cache[Head(Top.rest)] = "absent"
    BY <1>2, WaitingOK DEF LoadFirst, Loading, Frame
  <2>2. stack \in Seq(Frame) /\ outcome' \in {"loading", "loaded", "failed"}
    BY <1>2 DEF LoadFirst, Loading, IInv, TypeOK
  <2> QED
    BY <1>2, <2>1, <2>2, ExecuteIInv DEF LoadFirst, IInv
<1>3. CASE LoadCached
  BY <1>3, LoadCachedIInv
<1>4. CASE LoadFails
  BY <1>4, CloseIInv DEF LoadFails, Loading
<1>5. CASE ExecFails
  BY <1>5, CloseIInv DEF ExecFails
<1>6. CASE ExecEnds
  BY <1>6, CloseIInv DEF ExecEnds
<1>7. CASE UNCHANGED vars
  BY <1>7 DEF vars, IInv, TypeOK
<1> QED
  BY <1>1, <1>2, <1>3, <1>4, <1>5, <1>6, <1>7 DEF Next

(* The memoised entries and the counts of executions agree, in all states. *)
THEOREM LoadInvariance == Spec => []IInv
  BY InitIInv, StepIInv, PTL DEF Spec

(* The property of Load's map: a file is executed when its entry is first  *)
(* made and never again, for any files with any load statements, cyclic or *)
(* failing ones too.                                                       *)
THEOREM AlwaysExecutedOnce == Spec => []ExecutedOnce
<1>1. IInv => ExecutedOnce
  BY DEF IInv, ExecutedOnce
<1> QED
  BY <1>1, LoadInvariance, PTL

-----------------------------------------------------------------------------
(* Facts about sequences of files and sets of them.                        *)

LEMMA Rests ==
  ASSUME NEW r \in Seq(Modules)
  PROVE  /\ Range(r) \subseteq Modules
         /\ r # <<>> => /\ Head(r) \in Range(r)
                        /\ Tail(r) \in Seq(Modules)
                        /\ Range(Tail(r)) \subseteq Range(r)
                        /\ Range(r) \subseteq Range(Tail(r)) \cup {Head(r)}
<1>1. \A i \in DOMAIN r : r[i] \in Modules
  OBVIOUS
<1>2. ASSUME r # <<>>
      PROVE  /\ Head(r) \in Range(r)
             /\ Tail(r) \in Seq(Modules)
             /\ Range(Tail(r)) \subseteq Range(r)
             /\ Range(r) \subseteq Range(Tail(r)) \cup {Head(r)}
  <2>1. 1 \in DOMAIN r /\ Head(r) = r[1] /\ Tail(r) \in Seq(Modules)
    BY <1>2
  <2>2. \A i \in DOMAIN Tail(r) : i + 1 \in DOMAIN r /\ Tail(r)[i] = r[i + 1]
    BY <1>2
  <2>3. \A i \in DOMAIN r : i # 1 => i - 1 \in DOMAIN Tail(r) /\ Tail(r)[i - 1] = r[i]
    BY <1>2
  <2>4. Head(r) \in Range(r)
    BY <2>1 DEF Range
  <2>5. ASSUME NEW n \in Range(Tail(r)) PROVE n \in Range(r)
    BY <2>2, <2>5 DEF Range
  <2>6. ASSUME NEW n \in Range(r) PROVE n = Head(r) \/ n \in Range(Tail(r))
    <3>1. PICK i \in DOMAIN r : n = r[i]
      BY <2>6 DEF Range
    <3>. QED  BY <3>1, <2>1, <2>3 DEF Range
  <2>. QED  BY <2>1, <2>4, <2>5, <2>6
<1>. QED  BY <1>1, <1>2 DEF Range

(* A file whose loads are all in S, and which is not, can be added to it.  *)
LEMMA AddFile ==
  ASSUME NEW S, Closed(S), Acyclic(S), NEW m, m \notin S, Imports(m) \subseteq S
  PROVE  Closed(S \cup {m}) /\ Acyclic(S \cup {m})
<1>1. Closed(S \cup {m})
  BY DEF Closed
<1>2. ASSUME NEW T \in SUBSET (S \cup {m}), T # {}
      PROVE  \E n \in T : Imports(n) \cap T = {}
  <2>1. CASE T \cap S = {}
    <3>1. m \in T /\ Imports(m) \cap T = {}
      BY <1>2, <2>1
    <3>. QED  BY <3>1
  <2>2. CASE T \cap S # {}
    <3>1. PICK n \in T \cap S : Imports(n) \cap (T \cap S) = {}
      <4>1. T \cap S \in SUBSET S
        OBVIOUS
      <4>. QED  BY <2>2, <4>1 DEF Acyclic
    <3>2. Imports(n) \subseteq S
      BY <3>1 DEF Closed
    <3>. QED  BY <3>1, <3>2
  <2>. QED  BY <2>1, <2>2
<1>. QED  BY <1>1, <1>2 DEF Acyclic

(* What is loaded is good, as the loaded files need each other only.       *)
LEMMA LoadedGood ==
  ASSUME LoadedOK, NEW m \in Modules, cache[m] = "loaded"
  PROVE  Good(m)
<1>1. Loaded \in SUBSET Modules /\ m \in Loaded
  BY DEF Loaded
<1>. QED  BY <1>1 DEF LoadedOK, Good

(* What a good file loads is good.                                         *)
LEMMA GoodImports ==
  ASSUME NEW m, Good(m), NEW n \in Imports(m)
  PROVE  Good(n)
<1>1. PICK S \in SUBSET Modules : m \in S /\ S \cap broken = {} /\ Closed(S) /\ Acyclic(S)
  BY DEF Good
<1>2. n \in S
  BY <1>1 DEF Closed
<1>. QED  BY <1>1, <1>2 DEF Good

(* The innermost file, and what is below it.                               *)
LEMMA TopOK ==
  ASSUME ResultInv, stack # <<>>
  PROVE  /\ 1 \in DOMAIN stack /\ stack[1] = Top
         /\ Top.module \in Modules /\ cache[Top.module] = "loading"
         /\ Top.rest \in Seq(Modules)
         /\ Range(Top.rest) \subseteq Imports(Top.module)
         /\ \A n \in Imports(Top.module) : n \in Range(Top.rest) \/ cache[n] = "loaded"
<1>1. stack \in Seq(Frame)
  BY DEF ResultInv, IInv, TypeOK
<1>2. 1 \in DOMAIN stack /\ stack[1] = Top /\ Top \in Frame
  BY <1>1 DEF Top
<1>3. Top.module \in Modules /\ Top.rest \in Seq(Modules)
  BY <1>2 DEF Frame
<1>. QED  BY <1>2, <1>3 DEF ResultInv, StackOK, RestOK

(* A file that asks for one that waits for it is on a cycle: in no set of  *)
(* files that holds its needs is there a first among those on the stack.   *)
LEMMA CycleBad ==
  ASSUME ResultInv, stack # <<>>, Top.rest # <<>>, cache[Head(Top.rest)] = "loading"
  PROVE  ~Good(Top.module)
<1> DEFINE g == Head(Top.rest)
<1>1. g \in Imports(Top.module) /\ g \in Modules
  BY TopOK, Rests
<1>2. PICK k \in DOMAIN stack : stack[k].module = g
  BY <1>1 DEF ResultInv, StackOK
<1>. SUFFICES ASSUME NEW S \in SUBSET Modules, Top.module \in S, Closed(S), Acyclic(S)
              PROVE  FALSE
  BY DEF Good
<1> DEFINE T == {stack[i].module : i \in {j \in DOMAIN stack : stack[j].module \in S}}
<1>3. T \subseteq S /\ Top.module \in T
  BY TopOK
<1>4. PICK m \in T : Imports(m) \cap T = {}
  BY <1>3 DEF Acyclic
<1>5. PICK i \in DOMAIN stack : stack[i].module = m /\ m \in S
  BY <1>3, <1>4
<1>6. Imports(m) \subseteq S
  BY <1>5 DEF Closed
<1>7. CASE i = 1
  <2>1. m = Top.module
    BY <1>5, <1>7, TopOK
  <2>2. g \in T
    BY <1>1, <1>2, <1>6, <2>1
  <2>. QED  BY <1>1, <1>4, <2>1, <2>2
<1>8. CASE i # 1
  <2>1. stack \in Seq(Frame) /\ i \in Nat /\ i > 1 /\ i - 1 \in DOMAIN stack
    BY <1>8 DEF ResultInv, IInv, TypeOK
  <2>2. stack[i].rest # <<>> /\ Head(stack[i].rest) = stack[i - 1].module
    BY <2>1 DEF ResultInv, StackOK
  <2>3. stack[i] \in Frame
    BY <2>1
  <2>4. stack[i].rest \in Seq(Modules)
    BY <2>3 DEF Frame
  <2>5. Head(stack[i].rest) \in Range(stack[i].rest)
    BY <2>2, <2>4, Rests
  <2>6. stack[i - 1].module \in Imports(m)
    BY <1>5, <2>2, <2>5 DEF ResultInv, RestOK
  <2>7. stack[i - 1].module \in T
    BY <1>6, <2>1, <2>6
  <2>. QED  BY <1>4, <2>6, <2>7
<1>. QED  BY <1>7, <1>8

(* What is good does not depend on the state of the load.                  *)
LEMMA GoodStays ==
  ASSUME UNCHANGED <<imports, broken>>
  PROVE  /\ \A m : Good(m)' <=> Good(m)
         /\ \A m : Imports(m)' = Imports(m)
         /\ \A S : (Closed(S)' <=> Closed(S)) /\ (Acyclic(S)' <=> Acyclic(S))
BY DEF Good, Imports, Closed, Acyclic

(* The initial state: nothing is on the stack, nothing is loaded.          *)
LEMMA InitResultInv == Init => ResultInv
<1>. SUFFICES ASSUME Init PROVE ResultInv
  OBVIOUS
<1>1. DOMAIN stack = {} /\ Loaded = {}
  BY DEF Init, Loaded
<1>2. Closed({}) /\ Acyclic({})
  BY DEF Closed, Acyclic
<1>3. \A m \in Modules : cache[m] = "absent"
  BY DEF Init
<1>. QED  BY <1>1, <1>2, <1>3, InitIInv DEF ResultInv, StackOK, RestOK, LoadedOK, FailedOK

(* The execution of a file without an entry begins; the innermost one of   *)
(* those that were executing asks for it.                                  *)
LEMMA ExecuteResultInv ==
  ASSUME ResultInv, IInv', NEW m \in Modules, cache[m] = "absent",
         Execute(m, stack), UNCHANGED <<imports, broken>>,
         stack # <<>> => Top.rest # <<>> /\ Head(Top.rest) = m
  PROVE  ResultInv'
<1> DEFINE frame == [module |-> m, rest |-> imports[m]]
<1>1. stack \in Seq(Frame) /\ stack' = <<frame>> \o stack /\ stack' \in Seq(Frame)
  BY DEF ResultInv, IInv, TypeOK, Execute
<1>2. /\ 1 \in DOMAIN stack' /\ stack'[1] = frame
      /\ \A i \in DOMAIN stack : i + 1 \in DOMAIN stack' /\ stack'[i + 1] = stack[i]
      /\ \A i \in DOMAIN stack' : i # 1 =>
           i - 1 \in DOMAIN stack /\ stack'[i] = stack[i - 1] /\ i - 1 \in Nat
  BY <1>1
<1>3. /\ cache' = [cache EXCEPT ![m] = "loading"]
      /\ cache \in [Modules -> {"absent", "loading", "loaded", "failed"}]
  BY DEF ResultInv, IInv, TypeOK, Execute
<1>4. \A i \in DOMAIN stack : stack[i].module \in Modules /\ cache[stack[i].module] = "loading"
  <2>1. ASSUME NEW i \in DOMAIN stack PROVE stack[i].module \in Modules
    <3>1. stack[i] \in Frame
      BY <1>1
    <3>. QED  BY <3>1 DEF Frame
  <2>. QED  BY <2>1 DEF ResultInv, StackOK
<1>5. StackOK'
  <2>1. ASSUME NEW n \in Modules
        PROVE  cache'[n] = "loading" <=> \E i \in DOMAIN stack' : stack'[i].module = n
    <3>1. CASE n = m
      BY <3>1, <1>2, <1>3
    <3>2. CASE n # m
      <4>1. cache'[n] = cache[n] /\ frame.module # n
        BY <3>2, <1>3
      <4>2. (\E i \in DOMAIN stack' : stack'[i].module = n)
              <=> \E i \in DOMAIN stack : stack[i].module = n
        BY <4>1, <1>2
      <4>. QED  BY <4>1, <4>2 DEF ResultInv, StackOK
    <3>. QED  BY <3>1, <3>2
  <2>2. ASSUME NEW i \in DOMAIN stack', NEW j \in DOMAIN stack',
               stack'[i].module = stack'[j].module
        PROVE  i = j
    <3>1. \A h \in DOMAIN stack' : h # 1 => stack'[h].module # m
      BY <1>2, <1>4
    <3>2. CASE i = 1 \/ j = 1
      BY <2>2, <3>1, <3>2, <1>2
    <3>3. CASE i # 1 /\ j # 1
      <4>1. i - 1 = j - 1
        BY <2>2, <3>3, <1>2 DEF ResultInv, StackOK
      <4>. QED  BY <4>1, <1>1
    <3>. QED  BY <3>2, <3>3
  <2>3. ASSUME NEW i \in DOMAIN stack', i > 1
        PROVE  stack'[i].rest # <<>> /\ Head(stack'[i].rest) = stack'[i - 1].module
    <3>1. i - 1 \in DOMAIN stack /\ stack'[i] = stack[i - 1] /\ i \in Nat
      BY <2>3, <1>1, <1>2
    <3>2. CASE i = 2
      <4>1. stack # <<>> /\ stack[1] = Top
        BY <3>1, <3>2, <1>1 DEF Top
      <4>. QED  BY <3>1, <3>2, <4>1, <1>2
    <3>3. CASE i # 2
      <4>1. i - 1 \in DOMAIN stack' /\ i - 1 # 1 /\ i - 1 > 1 /\ stack'[i - 1] = stack[i - 2]
        BY <2>3, <3>1, <3>3, <1>1, <1>2
      <4>2. stack[i - 1].rest # <<>> /\ Head(stack[i - 1].rest) = stack[(i - 1) - 1].module
        BY <3>1, <4>1 DEF ResultInv, StackOK
      <4>. QED  BY <3>1, <4>1, <4>2
    <3>. QED  BY <3>2, <3>3
  <2>. QED  BY <2>1, <2>2, <2>3 DEF StackOK
<1>6. \A n : cache[n] = "loaded" /\ n # m => cache'[n] = "loaded"
  BY <1>3
<1>7. RestOK'
  <2>. SUFFICES ASSUME NEW i \in DOMAIN stack'
                PROVE  /\ Range(stack'[i].rest) \subseteq Imports(stack'[i].module)
                       /\ \A n \in Imports(stack'[i].module) :
                            n \in Range(stack'[i].rest) \/ cache'[n] = "loaded"
    BY GoodStays DEF RestOK
  <2>1. CASE i = 1
    BY <2>1, <1>2 DEF Imports
  <2>2. CASE i # 1
    <3>1. i - 1 \in DOMAIN stack /\ stack'[i] = stack[i - 1]
      BY <2>2, <1>2
    <3>2. \A n : cache[n] = "loaded" => n # m
      OBVIOUS
    <3>. QED  BY <3>1, <3>2, <1>6 DEF ResultInv, RestOK
  <2>. QED  BY <2>1, <2>2
<1>8. Loaded' = Loaded /\ \A n \in Modules : cache'[n] = "failed" => cache[n] = "failed"
  BY <1>3 DEF Loaded
<1>9. LoadedOK' /\ FailedOK'
  BY <1>8, GoodStays DEF ResultInv, LoadedOK, FailedOK
<1>. QED  BY <1>5, <1>7, <1>9 DEF ResultInv

(* The innermost file goes on to its next load statement.                  *)
LEMMA LoadCachedResultInv == ASSUME ResultInv, IInv', LoadCached PROVE ResultInv'
<1> DEFINE frame == [Top EXCEPT !.rest = Tail(@)]
<1>1. /\ stack # <<>> /\ Top.rest # <<>> /\ cache[Head(Top.rest)] = "loaded"
      /\ stack' = <<frame>> \o Tail(stack)
      /\ UNCHANGED <<imports, broken, cache>>
  BY DEF LoadCached, Loading
<1>2. stack \in Seq(Frame) /\ Top \in Frame
  BY <1>1 DEF ResultInv, IInv, TypeOK, Top
<1>3. frame.module = Top.module /\ frame.rest = Tail(Top.rest)
  BY <1>2 DEF Frame
<1>4. /\ DOMAIN stack' = DOMAIN stack /\ stack'[1] = frame
      /\ \A i \in DOMAIN stack : i # 1 => stack'[i] = stack[i]
  BY <1>1, <1>2
<1>5. \A i \in DOMAIN stack : stack'[i].module = stack[i].module
  BY <1>3, <1>4, TopOK, <1>1
<1>6. StackOK'
  <2>1. \A i \in DOMAIN stack : i > 1 => i # 1 /\ i - 1 \in DOMAIN stack
    BY <1>2
  <2>2. \A m \in Modules : cache'[m] = "loading" <=> \E i \in DOMAIN stack' : stack'[i].module = m
    <3>1. \A m \in Modules : (\E i \in DOMAIN stack' : stack'[i].module = m)
                               <=> \E i \in DOMAIN stack : stack[i].module = m
      BY <1>4, <1>5
    <3>2. cache' = cache
      BY <1>1
    <3>. QED  BY <3>1, <3>2 DEF ResultInv, StackOK
  <2>3. \A i, j \in DOMAIN stack' : stack'[i].module = stack'[j].module => i = j
    BY <1>4, <1>5 DEF ResultInv, StackOK
  <2>4. ASSUME NEW i \in DOMAIN stack', i > 1
        PROVE  stack'[i].rest # <<>> /\ Head(stack'[i].rest) = stack'[i - 1].module
    <3>1. i \in DOMAIN stack /\ i # 1 /\ i - 1 \in DOMAIN stack
      BY <2>4, <2>1, <1>4
    <3>2. stack'[i] = stack[i] /\ stack'[i - 1].module = stack[i - 1].module
      BY <3>1, <1>4, <1>5
    <3>. QED  BY <2>4, <3>1, <3>2 DEF ResultInv, StackOK
  <2>. QED  BY <2>2, <2>3, <2>4 DEF StackOK
<1>7. RestOK'
  <2>. SUFFICES ASSUME NEW i \in DOMAIN stack'
                PROVE  /\ Range(stack'[i].rest) \subseteq Imports(stack'[i].module)
                       /\ \A n \in Imports(stack'[i].module) :
                            n \in Range(stack'[i].rest) \/ cache'[n] = "loaded"
    BY <1>1, GoodStays DEF RestOK
  <2>1. CASE i = 1
    <3>1. /\ Range(Tail(Top.rest)) \subseteq Range(Top.rest)
          /\ Range(Top.rest) \subseteq Range(Tail(Top.rest)) \cup {Head(Top.rest)}
      BY <1>1, TopOK, Rests
    <3>2. stack'[i].rest = Tail(Top.rest) /\ stack'[i].module = Top.module
      BY <2>1, <1>3, <1>4
    <3>. QED  BY <1>1, <3>1, <3>2, TopOK
  <2>2. CASE i # 1
    BY <2>2, <1>1, <1>4 DEF ResultInv, RestOK
  <2>. QED  BY <2>1, <2>2
<1>8. LoadedOK' /\ FailedOK'
  <2>1. Loaded' = Loaded
    BY <1>1 DEF Loaded
  <2>. QED  BY <1>1, <2>1, GoodStays DEF ResultInv, LoadedOK, FailedOK
<1>. QED  BY <1>6, <1>7, <1>8 DEF ResultInv

(* The innermost file ends, with the result it should have.                *)
LEMMA CloseResultInv ==
  ASSUME ResultInv, IInv', stack # <<>>, NEW end \in {"loaded", "failed"}, Close(end),
         end = "loaded" => Top.rest = <<>> /\ Top.module \notin broken,
         end = "failed" => ~Good(Top.module)
  PROVE  ResultInv'
<1> DEFINE t == Top.module
<1>1. /\ stack' = Tail(stack) /\ UNCHANGED <<imports, broken>>
      /\ cache' = [cache EXCEPT ![t] = end]
      /\ cache \in [Modules -> {"absent", "loading", "loaded", "failed"}]
      /\ t \in Modules /\ cache[t] = "loading"
  BY TopOK DEF Close, ResultInv, IInv, TypeOK
<1>2. \A n \in Modules : n # t => cache'[n] = cache[n]
  BY <1>1
<1>3. stack \in Seq(Frame) /\ stack' \in Seq(Frame)
  BY DEF ResultInv, IInv, TypeOK
<1>4. /\ \A i \in DOMAIN stack' : i + 1 \in DOMAIN stack /\ stack'[i] = stack[i + 1] /\ i \in Nat \ {0}
      /\ \A i \in DOMAIN stack : i # 1 => i - 1 \in DOMAIN stack' /\ stack[i] = stack'[i - 1]
  BY <1>1, <1>3
<1>5. \A i \in DOMAIN stack' : stack'[i].module # t
  <2>1. 1 \in DOMAIN stack /\ stack[1].module = t
    BY TopOK
  <2>. QED  BY <1>4, <2>1 DEF ResultInv, StackOK
<1>6. StackOK'
  <2>1. ASSUME NEW m \in Modules
        PROVE  cache'[m] = "loading" <=> \E i \in DOMAIN stack' : stack'[i].module = m
    <3>1. CASE m = t
      BY <3>1, <1>1, <1>5
    <3>2. CASE m # t
      <4>1. stack[1].module = t
        BY TopOK
      <4>2. (\E i \in DOMAIN stack' : stack'[i].module = m)
              <=> \E i \in DOMAIN stack : stack[i].module = m
        BY <3>2, <4>1, <1>4
      <4>. QED  BY <3>2, <4>2, <1>2 DEF ResultInv, StackOK
    <3>. QED  BY <3>1, <3>2
  <2>2. ASSUME NEW i \in DOMAIN stack', NEW j \in DOMAIN stack',
               stack'[i].module = stack'[j].module
        PROVE  i = j
    <3>1. i + 1 = j + 1
      BY <2>2, <1>4 DEF ResultInv, StackOK
    <3>. QED  BY <3>1, <1>4
  <2>3. ASSUME NEW i \in DOMAIN stack', i > 1
        PROVE  stack'[i].rest # <<>> /\ Head(stack'[i].rest) = stack'[i - 1].module
    <3>1. i + 1 \in DOMAIN stack /\ i + 1 > 1 /\ i - 1 \in DOMAIN stack' /\ (i + 1) - 1 = i
      BY <2>3, <1>3, <1>4
    <3>2. stack'[i] = stack[i + 1] /\ stack'[i - 1] = stack[i]
      BY <3>1, <1>4
    <3>. QED  BY <3>1, <3>2 DEF ResultInv, StackOK
  <2>. QED  BY <2>1, <2>2, <2>3 DEF StackOK
<1>7. \A m \in Modules : Imports(m) \subseteq Modules
  BY ImportsAssumption, Rests DEF ResultInv, IInv, TypeOK, Imports
<1>8. ASSUME NEW n, cache[n] = "loaded" PROVE cache'[n] = "loaded"
  BY <1>1, <1>8
<1>9. RestOK'
  <2>. SUFFICES ASSUME NEW i \in DOMAIN stack'
                PROVE  /\ Range(stack'[i].rest) \subseteq Imports(stack'[i].module)
                       /\ \A n \in Imports(stack'[i].module) :
                            n \in Range(stack'[i].rest) \/ cache'[n] = "loaded"
    BY <1>1, GoodStays DEF RestOK
  <2>. QED  BY <1>4, <1>8 DEF ResultInv, RestOK
<1>10. LoadedOK'
  <2>1. CASE end = "loaded"
    <3>1. Imports(t) \subseteq Loaded
      <4>1. Range(Top.rest) = {}
        BY <2>1 DEF Range
      <4>. QED  BY <1>1, <1>7, <4>1, TopOK DEF Loaded
    <3>2. t \notin Loaded /\ Loaded' = Loaded \cup {t}
      BY <2>1, <1>1 DEF Loaded
    <3>3. Closed(Loaded \cup {t}) /\ Acyclic(Loaded \cup {t})
      BY <3>1, <3>2, AddFile DEF ResultInv, LoadedOK
    <3>. QED  BY <2>1, <3>2, <3>3, <1>1, GoodStays DEF ResultInv, LoadedOK
  <2>2. CASE end = "failed"
    <3>1. Loaded' = Loaded
      BY <2>2, <1>1 DEF Loaded
    <3>. QED  BY <3>1, <1>1, GoodStays DEF ResultInv, LoadedOK
  <2>. QED  BY <2>1, <2>2
<1>11. FailedOK'
  <2>. SUFFICES ASSUME NEW m \in Modules, cache'[m] = "failed" PROVE ~Good(m)
    BY <1>1, GoodStays DEF FailedOK
  <2>1. CASE m = t
    BY <2>1, <1>1
  <2>2. CASE m # t
    BY <2>2, <1>2 DEF ResultInv, FailedOK
  <2>. QED  BY <2>1, <2>2
<1>. QED  BY <1>6, <1>9, <1>10, <1>11 DEF ResultInv

(* Every step keeps the invariant.                                         *)
LEMMA StepResultInv == ResultInv /\ [Next]_vars => ResultInv'
<1>. SUFFICES ASSUME ResultInv, [Next]_vars PROVE ResultInv'
  OBVIOUS
<1>i. IInv'
  BY StepIInv DEF ResultInv
<1>1. CASE Start
  <2>1. stack = <<>> /\ cache[Root] = "absent"
    BY <1>1 DEF Start, ResultInv, IInv
  <2>2. Execute(Root, stack) /\ UNCHANGED <<imports, broken>>
    BY <1>1, <2>1 DEF Start
  <2>. QED  BY <1>i, <2>1, <2>2, ExecuteResultInv, RootAssumption
<1>2. CASE LoadFirst
  <2>1. stack # <<>> /\ Top.rest # <<>> /\ cache[Head(Top.rest)] = "absent"
    BY <1>2 DEF LoadFirst, Loading
  <2>2. Head(Top.rest) \in Modules
    BY <2>1, TopOK, Rests
  <2>. QED  BY <1>i, <1>2, <2>1, <2>2, ExecuteResultInv DEF LoadFirst
<1>3. CASE LoadCached
  BY <1>i, <1>3, LoadCachedResultInv
<1>4. CASE LoadFails
  <2>1. /\ stack # <<>> /\ Top.rest # <<>> /\ Close("failed")
        /\ cache[Head(Top.rest)] \in {"loading", "failed"}
    BY <1>4 DEF LoadFails, Loading
  <2>2. Head(Top.rest) \in Imports(Top.module) /\ Head(Top.rest) \in Modules
    BY <2>1, TopOK, Rests
  <2>3. CASE cache[Head(Top.rest)] = "failed"
    <3>1. ~Good(Head(Top.rest))
      BY <2>2, <2>3 DEF ResultInv, FailedOK
    <3>2. ~Good(Top.module)
      BY <2>2, <3>1, GoodImports
    <3>. QED  BY <1>i, <2>1, <3>2, CloseResultInv
  <2>4. CASE cache[Head(Top.rest)] = "loading"
    <3>1. ~Good(Top.module)
      BY <2>1, <2>4, CycleBad
    <3>. QED  BY <1>i, <2>1, <3>1, CloseResultInv
  <2>. QED  BY <2>1, <2>3, <2>4
<1>5. CASE ExecFails
  <2>1. ~Good(Top.module)
    BY <1>5 DEF ExecFails, Good
  <2>. QED  BY <1>i, <1>5, <2>1, CloseResultInv DEF ExecFails
<1>6. CASE ExecEnds
  BY <1>i, <1>6, CloseResultInv DEF ExecEnds
<1>7. CASE UNCHANGED vars
  <2>1. UNCHANGED <<imports, broken, cache, stack>> /\ Loaded' = Loaded
    BY <1>7 DEF vars, Loaded
  <2>2. StackOK' /\ RestOK'
    BY <2>1, GoodStays DEF ResultInv, StackOK, RestOK
  <2>. QED  BY <1>i, <2>1, <2>2, GoodStays DEF ResultInv, LoadedOK, FailedOK
<1>. QED  BY <1>1, <1>2, <1>3, <1>4, <1>5, <1>6, <1>7 DEF Next

(* What is on the stack is what waits, and what is known of a file agrees  *)
(* with the reference, in all states of the load.                          *)
THEOREM ResultInvariance == Spec => []ResultInv
  BY InitResultInv, StepResultInv, PTL DEF Spec

(* A load fails if and only if it needs a broken file or a cycle, for any  *)
(* files with any load statements and whatever was loaded before.          *)
THEOREM FailsExactlyIfBad == Spec => []FailsIfBad
<1>1. ResultInv => FailsIfBad
  BY LoadedGood DEF ResultInv, FailedOK, FailsIfBad
<1>. QED  BY <1>1, ResultInvariance, PTL

-----------------------------------------------------------------------------
(* Why the load ends                                                       *)

(* A file is taken up that was never taken up.                             *)
LEMMA ExecuteTakesUp ==
  ASSUME TypeOK, NEW m \in Modules, cache[m] = "absent", NEW waiting, Execute(m, waiting)
  PROVE  Absent' \subseteq Absent /\ Absent' # Absent
<1>1. cache' = [cache EXCEPT ![m] = "loading"]
  BY DEF Execute
<1>2. m \in Absent /\ m \notin Absent'
  BY <1>1 DEF TypeOK, Absent
<1>3. Absent' \subseteq Absent
  BY <1>1 DEF TypeOK, Absent
<1>. QED  BY <1>2, <1>3

LEMMA CloseShortens ==
  ASSUME IInv, stack # <<>>, NEW end \in {"loaded", "failed"}, Close(end)
  PROVE  Absent' = Absent /\ Len(stack') < Len(stack)
<1>1. /\ cache' = [cache EXCEPT ![Top.module] = end] /\ stack' = Tail(stack)
      /\ stack \in Seq(Frame)
  BY DEF Close, IInv, TypeOK
<1>2. Top.module \in Modules /\ cache[Top.module] # "absent"
  <2>1. 1 \in DOMAIN stack /\ stack[1] = Top /\ Top \in Frame
    BY <1>1 DEF Top
  <2>. QED  BY <2>1 DEF IInv, Frame
<1>3. Absent' = Absent
  BY <1>1, <1>2 DEF IInv, TypeOK, Absent
<1>4. Len(stack') < Len(stack)
  BY <1>1
<1>. QED  BY <1>3, <1>4

LEMMA LoadCachedGoesOn ==
  ASSUME IInv, LoadCached
  PROVE  Absent' = Absent /\ Len(stack') = Len(stack) /\ Len(Top'.rest) < Len(Top.rest)
<1> DEFINE frame == [Top EXCEPT !.rest = Tail(@)]
<1>1. /\ stack # <<>> /\ Top.rest # <<>> /\ cache' = cache /\ stack \in Seq(Frame)
      /\ stack' = <<frame>> \o Tail(stack)
  BY DEF LoadCached, Loading, IInv, TypeOK
<1>2. Top \in Frame /\ frame \in Frame /\ frame.rest = Tail(Top.rest)
  <2>1. Top \in Frame
    BY <1>1 DEF Top
  <2>2. Top.rest \in Seq(Modules) /\ Tail(Top.rest) \in Seq(Modules)
    BY <1>1, <2>1 DEF Frame
  <2>. QED  BY <2>1, <2>2 DEF Frame
<1>. HIDE DEF frame
<1>3. Top' = frame /\ Len(stack') = Len(stack)
  BY <1>1, <1>2 DEF Top
<1>4. Len(Tail(Top.rest)) < Len(Top.rest)
  BY <1>1, <1>2 DEF Frame
<1>. QED  BY <1>1, <1>2, <1>3, <1>4 DEF Absent

(* No step of a load undoes another: for finitely many files, whose lists  *)
(* of loads are finite, a load has only finitely many steps.               *)
THEOREM LoadAlwaysAdvances == Spec => LoadAdvances
<1>1. IInv /\ [Next]_vars =>
        [\/ Absent' \subseteq Absent /\ Absent' # Absent
         \/ Absent' = Absent /\ Len(stack') < Len(stack)
         \/ Absent' = Absent /\ Len(stack') = Len(stack) /\ Len(Top'.rest) < Len(Top.rest)]_vars
  <2>. SUFFICES ASSUME IInv, Next
                PROVE  \/ Absent' \subseteq Absent /\ Absent' # Absent
                       \/ Absent' = Absent /\ Len(stack') < Len(stack)
                       \/ Absent' = Absent /\ Len(stack') = Len(stack) /\ Len(Top'.rest) < Len(Top.rest)
    OBVIOUS
  <2>t. TypeOK
    BY DEF IInv
  <2>1. CASE Start
    <3>1. cache[Root] = "absent" /\ Execute(Root, <<>>)
      BY <2>1 DEF Start, IInv
    <3>. QED  BY <2>t, <3>1, RootAssumption, ExecuteTakesUp
  <2>2. CASE LoadFirst
    <3>1. /\ stack # <<>> /\ Top.rest # <<>> /\ cache[Head(Top.rest)] = "absent"
          /\ Execute(Head(Top.rest), stack)
      BY <2>2 DEF LoadFirst, Loading
    <3>2. Head(Top.rest) \in Modules
      <4>1. Top \in Frame
        BY <2>t, <3>1 DEF TypeOK, Top
      <4>. QED  BY <3>1, <4>1 DEF Frame
    <3>3. PICK m \in Modules : m = Head(Top.rest)
      BY <3>2
    <3>4. PICK waiting : waiting = stack
      OBVIOUS
    <3>5. cache[m] = "absent" /\ Execute(m, waiting)
      BY <3>1, <3>3, <3>4
    <3>. QED  BY <2>t, <3>5, ExecuteTakesUp
  <2>3. CASE LoadCached
    BY <2>3, LoadCachedGoesOn
  <2>4. CASE LoadFails \/ ExecFails
    BY <2>4, CloseShortens DEF LoadFails, ExecFails, Loading
  <2>5. CASE ExecEnds
    BY <2>5, CloseShortens DEF ExecEnds
  <2>. QED  BY <2>1, <2>2, <2>3, <2>4, <2>5 DEF Next
<1>. QED  BY <1>1, LoadInvariance, PTL DEF Spec, LoadAdvances
=============================================================================
