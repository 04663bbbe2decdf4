---------------------------- MODULE BuilderProofs ---------------------------
(***************************************************************************)
(* The builder, for any number of builds, workers and jobs: with all       *)
(* faults its variables keep their types, its workers and its queue stay   *)
(* consistent, and it is the forgetful server of operations the cache      *)
(* expects.  Without restarts it forgets nothing, and what it answers when *)
(* all is over is final.  With no faults at all, what its workers do too   *)
(* early is bounded by the jobs that have been deleted.                    *)
(***************************************************************************)
EXTENDS BuilderService, FiniteSetTheorems, TLAPS

(* One job more.                                                           *)
LEMMA NewJobType ==
  ASSUME TypeOK, NEW b \in Builds, NewJob(b)
  PROVE  job' \in [Jobs -> Job \cup {None}]
<1>1. PICK j \in FreeNames :
        job' = [job EXCEPT ![j] = [build |-> b, attempt |-> retried[b], over |-> FALSE]]
  BY DEF NewJob
<1>2. [build |-> b, attempt |-> retried[b], over |-> FALSE] \in Job
  BY DEF TypeOK, Job
<1>. QED  BY <1>1, <1>2 DEF TypeOK, FreeNames

LEMMA RetryType ==
  ASSUME TypeOK, NEW b \in Builds, CountRetry(b)
  PROVE  retried' \in [Builds -> Attempts]
<1>1. MaxRetry \in Nat /\ retried \in [Builds -> 0 .. MaxRetry]
  BY BoundsAssumption DEF TypeOK, Attempts
<1>2. (IF retried[b] < MaxRetry THEN retried[b] + 1 ELSE retried[b]) \in 0 .. MaxRetry
  BY <1>1
<1>. QED  BY <1>1, <1>2 DEF CountRetry, Attempts

(* A worker that is done with a task.                                      *)
LEMMA FinishedTypes ==
  ASSUME TypeOK, NEW w \in Workers, NEW s \in {"pending", "completed", "archived"},
         Finished(w, s)
  PROVE  /\ task' \in [Builds -> {"none", "pending", "active", "completed", "archived"}]
         /\ payload' \in [Builds -> Works \cup {None}]
         /\ wpc' \in [Workers -> {"idle", "create", "watch", "watching", "mark", "inspect"}]
         /\ build' \in [Workers -> Builds \cup {None}]
         /\ sawDeleted' \in [Workers -> BOOLEAN]
BY DEF TypeOK, Finished

LEMMA MemoryGoneTypes ==
  ASSUME TypeOK, MemoryGone
  PROVE  /\ buildInfo' \in SUBSET Builds
         /\ buildDone' \in SUBSET Builds
         /\ accepting' \in [Builds -> Works \cup {None}]
         /\ wpc' \in [Workers -> {"idle", "create", "watch", "watching", "mark", "inspect"}]
         /\ build' \in [Workers -> Builds \cup {None}]
         /\ sawDeleted' \in [Workers -> BOOLEAN]
BY DEF TypeOK, MemoryGone

(* Each step of the service, the queue, a worker, Kubernetes or a fault    *)
(* keeps the types.                                                        *)
LEMMA NextTypes ==
  ASSUME IInv, [Next]_vars
  PROVE  TypeOK'
<1>t. TypeOK
  BY DEF IInv
<1>b. ASSUME NEW w \in Workers, wpc[w] # "idle" PROVE build[w] \in Builds
  BY <1>b, NoneAssumption DEF IInv, TypeOK, WorkersOK
<1>. SUFFICES ASSUME Next PROVE TypeOK'
  BY <1>t DEF TypeOK, vars, service, queue, workers, cluster
<1>1. ASSUME NEW b \in Builds, NEW x \in Works, Build(b, x) PROVE TypeOK'
  BY <1>t, <1>1 DEF TypeOK, Build, queue, workers, cluster
<1>2. ASSUME NEW b \in Builds, Enqueue(b) PROVE TypeOK'
  BY <1>t, <1>2 DEF TypeOK, Enqueue, workers, cluster
<1>3. ASSUME NEW b \in Builds, Recover(b) PROVE TypeOK'
  <2>1. AfterFailure(b) \in {"pending", "archived"}
    BY DEF AfterFailure
  <2>2. retried' \in [Builds -> Attempts]
    BY <1>t, <1>3, RetryType DEF Recover
  <2>. QED  BY <1>t, <1>3, <2>1, <2>2 DEF TypeOK, Recover, service, workers, cluster
<1>4. ASSUME NEW b \in Builds, NEW w \in Workers, Dequeue(w, b) PROVE TypeOK'
  BY <1>t, <1>4 DEF TypeOK, Dequeue, WGoto, service, cluster
<1>5. ASSUME NEW w \in Workers, CreateJob(w) PROVE TypeOK'
  <2>1. job' \in [Jobs -> Job \cup {None}]
    BY <1>t, <1>b, <1>5, NewJobType DEF CreateJob, WGoto
  <2>. QED  BY <1>t, <1>5, <2>1 DEF TypeOK, CreateJob, WGoto, service, queue
<1>6. ASSUME NEW w \in Workers, StartWatch(w) \/ HandleDeleted(w) \/ WatchTimeout(w) PROVE TypeOK'
  BY <1>t, <1>6 DEF TypeOK, StartWatch, HandleDeleted, WatchTimeout, WGoto, service, queue, cluster
<1>7. ASSUME NEW w \in Workers, PodListFails(w) \/ Inspect(w) PROVE TypeOK'
  <2>1. Finished(w, "completed") /\ UNCHANGED <<service, retried, cluster>>
    BY <1>7 DEF PodListFails, Inspect
  <2>. QED  BY <1>t, <2>1, FinishedTypes DEF TypeOK, service, cluster
<1>8. ASSUME NEW w \in Workers, MarkDone(w) PROVE TypeOK'
  <2>1. build[w] \in Builds
    BY <1>b, <1>8 DEF MarkDone, WGoto
  <2>. QED  BY <1>t, <1>8, <2>1 DEF TypeOK, MarkDone, WGoto, queue, cluster
<1>9. ASSUME NEW w \in Workers, InspectPanics(w) PROVE TypeOK'
  <2>1. build[w] \in Builds
    BY <1>b, <1>9 DEF InspectPanics
  <2>2. AfterFailure(build[w]) \in {"pending", "completed", "archived"}
    BY DEF AfterFailure
  <2>3. Finished(w, AfterFailure(build[w])) /\ UNCHANGED <<service, cluster>>
    BY <1>9 DEF InspectPanics
  <2>4. retried' \in [Builds -> Attempts]
    BY <1>t, <1>9, <2>1, RetryType DEF InspectPanics
  <2>. QED  BY <1>t, <2>2, <2>3, <2>4, FinishedTypes DEF TypeOK, service, cluster
<1>10. ASSUME NEW j \in Jobs, JobEnds(j) PROVE TypeOK'
  <2>1. job[j] \in Job
    BY <1>t, <1>10 DEF TypeOK, JobEnds
  <2>2. [job[j] EXCEPT !.over = TRUE] \in Job /\ job[j].build \in Builds
         /\ job[j].attempt \in Attempts
    BY <2>1 DEF Job
  <2>. QED  BY <1>t, <1>10, <2>2 DEF TypeOK, JobEnds, service, queue, workers
<1>11. ASSUME NEW j \in Jobs, JobDeleted(j) PROVE TypeOK'
  BY <1>t, <1>11 DEF TypeOK, JobDeleted, service, queue
<1>12. CASE Crash \/ EnqueueFails \/ JobFails
  <2>1. MemoryGone /\ UNCHANGED <<queue, cluster>>
    BY <1>12 DEF Crash, EnqueueFails, JobFails, Restart
  <2>. QED  BY <1>t, <2>1, MemoryGoneTypes DEF TypeOK, queue, cluster
<1>13. CASE Shutdown
  <2>1. task' \in [Builds -> {"none", "pending", "active", "completed", "archived"}]
    BY <1>t, <1>13 DEF TypeOK, Shutdown
  <2>. QED  BY <1>t, <1>13, <2>1, MemoryGoneTypes DEF TypeOK, Shutdown, cluster
<1>. QED
  BY <1>1, <1>2, <1>3, <1>4, <1>5, <1>6, <1>7, <1>8, <1>9, <1>10, <1>11, <1>12, <1>13
  DEF Next, WorkerStep

-----------------------------------------------------------------------------
(* Workers and queue                                                       *)

(* Nobody works on a task that is not active.                              *)
LEMMA NobodyHas ==
  ASSUME IInv, NEW b \in Builds, task[b] # "active", NEW w \in Workers
  PROVE  build[w] # b
BY NoneAssumption DEF IInv, TypeOK, WorkersOK

LEMMA AtWork ==
  ASSUME IInv, NEW w \in Workers, wpc[w] # "idle"
  PROVE  /\ build[w] \in Builds /\ build[w] # None
         /\ task[build[w]] = "active"
         /\ payload[build[w]] # None
BY NoneAssumption DEF IInv, TypeOK, WorkersOK, QueueOK

(* A worker that moves on in its build.                                    *)
LEMMA MovesOn ==
  ASSUME IInv, NEW w \in Workers, NEW from \in {"create", "watch", "watching", "mark"},
         NEW to \in {"watch", "watching", "mark", "inspect"},
         WGoto(w, from, to), UNCHANGED <<build, queue>>
  PROVE  WorkersOK'
<1>1. wpc' = [wpc EXCEPT ![w] = to] /\ wpc[w] # "idle"
  BY DEF WGoto
<1>2. build[w] # None
  BY <1>1, AtWork
<1>. QED  BY <1>1, <1>2 DEF IInv, TypeOK, WorkersOK, queue

(* A worker that is done with a task.                                      *)
LEMMA FinishedOK ==
  ASSUME IInv, NEW w \in Workers, wpc[w] # "idle",
         NEW s \in {"pending", "completed", "archived"},
         Finished(w, s), UNCHANGED service
  PROVE  WorkersOK' /\ QueueOK'
<1>1. build[w] \in Builds /\ build[w] # None /\ task[build[w]] = "active"
  BY AtWork
<1>2. /\ wpc' = [wpc EXCEPT ![w] = "idle"] /\ build' = [build EXCEPT ![w] = None]
      /\ task' = [task EXCEPT ![build[w]] = s] /\ payload' = payload
  BY DEF Finished
<1>3. WorkersOK'
  <2>1. SUFFICES ASSUME NEW v \in Workers
                 PROVE  /\ wpc'[v] = "idle" <=> build'[v] = None
                        /\ build'[v] # None => task'[build'[v]] = "active"
                        /\ \A u \in Workers : build'[u] = build'[v] /\ build'[v] # None => u = v
    BY DEF WorkersOK
  <2>2. CASE v = w
    BY <1>2, <2>2 DEF IInv, TypeOK
  <2>3. CASE v # w
    <3>1. build'[v] = build[v] /\ wpc'[v] = wpc[v]
      BY <1>2, <2>3 DEF IInv, TypeOK
    <3>2. build[v] # None => build[v] # build[w]
      BY <2>3 DEF IInv, WorkersOK
    <3>3. build[v] # None => task'[build[v]] = "active"
      BY <1>1, <1>2, <3>2 DEF IInv, TypeOK, WorkersOK
    <3>4. \A u \in Workers : build'[u] \in {build[u], None}
      BY <1>2 DEF IInv, TypeOK
    <3>. QED  BY <3>1, <3>3, <3>4 DEF IInv, WorkersOK
  <2>. QED  BY <2>2, <2>3
<1>4. QueueOK'
  BY <1>1, <1>2 DEF IInv, TypeOK, QueueOK, service
<1>. QED  BY <1>3, <1>4

(* An ended process leaves tasks without workers.                          *)
LEMMA MemoryGoneOK ==
  ASSUME IInv, MemoryGone, payload' = payload,
         \A b \in Builds : task'[b] = "none" <=> task[b] = "none"
  PROVE  WorkersOK' /\ QueueOK'
<1>1. WorkersOK'
  BY DEF MemoryGone, WorkersOK
<1>2. QueueOK'
  BY DEF IInv, MemoryGone, QueueOK
<1>. QED  BY <1>1, <1>2

(* A shutdown puts back only active tasks.                                 *)
LEMMA ShutdownTasks ==
  ASSUME IInv, Shutdown, NEW b \in Builds
  PROVE  task'[b] = "none" <=> task[b] = "none"
<1>1. PICK back \in SUBSET {build[w] : w \in Workers} :
        task' = [c \in Builds |-> IF c \in back THEN "pending" ELSE task[c]]
  BY DEF Shutdown
<1>2. CASE b \in back
  <2>1. PICK w \in Workers : build[w] = b
    BY <1>1, <1>2
  <2>2. task[b] = "active"
    BY <2>1, NoneAssumption DEF IInv, WorkersOK
  <2>. QED  BY <1>1, <1>2, <2>2
<1>3. CASE b \notin back
  BY <1>1, <1>3
<1>. QED  BY <1>2, <1>3

LEMMA InitIInv == Init => IInv
<1>. SUFFICES ASSUME Init PROVE IInv
  OBVIOUS
<1>1. TypeOK
  BY BoundsAssumption DEF Init, TypeOK, Attempts
<1>2. WorkersOK /\ QueueOK
  BY DEF Init, WorkersOK, QueueOK
<1>. QED  BY <1>1, <1>2 DEF IInv

LEMMA NextIInv == IInv /\ [Next]_vars => IInv'
<1>. SUFFICES ASSUME IInv, [Next]_vars PROVE IInv'
  OBVIOUS
<1>t. TypeOK'
  BY NextTypes
<1>. SUFFICES WorkersOK' /\ QueueOK'
  BY <1>t DEF IInv
<1>0. CASE UNCHANGED vars
  BY <1>0 DEF IInv, WorkersOK, QueueOK, vars, service, queue, workers
<1>1. ASSUME NEW b \in Builds, NEW x \in Works, Build(b, x) PROVE WorkersOK' /\ QueueOK'
  <2>1. WorkersOK'
    BY <1>1 DEF IInv, Build, WorkersOK, queue, workers
  <2>2. QueueOK'
    BY <1>1 DEF IInv, TypeOK, Build, QueueOK, queue
  <2>. QED  BY <2>1, <2>2
<1>2. ASSUME NEW b \in Builds, Enqueue(b) PROVE WorkersOK' /\ QueueOK'
  <2>1. task[b] = "none" /\ accepting[b] # None
    BY <1>2 DEF IInv, QueueOK, Enqueue
  <2>2. WorkersOK'
    <3>1. \A w \in Workers : build[w] # b
      BY <2>1, NobodyHas
    <3>. QED  BY <1>2, <3>1 DEF IInv, TypeOK, Enqueue, WorkersOK, workers
  <2>3. QueueOK'
    BY <1>2, <2>1 DEF IInv, TypeOK, Enqueue, QueueOK
  <2>. QED  BY <2>2, <2>3
<1>3. ASSUME NEW b \in Builds, Recover(b) PROVE WorkersOK' /\ QueueOK'
  <2>1. AfterFailure(b) \in {"pending", "archived"}
    BY DEF AfterFailure
  <2>2. WorkersOK'
    BY <1>3 DEF IInv, TypeOK, Recover, WorkersOK, workers
  <2>3. QueueOK'
    BY <1>3, <2>1 DEF IInv, TypeOK, Recover, QueueOK, service
  <2>. QED  BY <2>2, <2>3
<1>4. ASSUME NEW b \in Builds, NEW w \in Workers, Dequeue(w, b) PROVE WorkersOK' /\ QueueOK'
  <2>1. \A v \in Workers : build[v] # b
    BY <1>4, NobodyHas DEF Dequeue
  <2>2. /\ wpc' = [wpc EXCEPT ![w] = "create"] /\ build' = [build EXCEPT ![w] = b]
        /\ task' = [task EXCEPT ![b] = "active"] /\ task[b] = "pending"
        /\ UNCHANGED <<service, payload>>
    BY <1>4 DEF Dequeue, WGoto
  <2>3. WorkersOK'
    BY <2>1, <2>2, NoneAssumption DEF IInv, TypeOK, WorkersOK
  <2>4. QueueOK'
    BY <2>2 DEF IInv, TypeOK, QueueOK, service
  <2>. QED  BY <2>3, <2>4
<1>5. ASSUME NEW w \in Workers,
             CreateJob(w) \/ StartWatch(w) \/ HandleDeleted(w) \/ WatchTimeout(w)
      PROVE  WorkersOK' /\ QueueOK'
  <2>1. UNCHANGED <<service, queue, build>>
    BY <1>5 DEF CreateJob, StartWatch, HandleDeleted, WatchTimeout
  <2>2. \E from \in {"create", "watch", "watching", "mark"},
           to \in {"watch", "watching", "mark", "inspect"} : WGoto(w, from, to)
    BY <1>5 DEF CreateJob, StartWatch, HandleDeleted, WatchTimeout
  <2>3. WorkersOK'
    BY <2>1, <2>2, MovesOn
  <2>4. QueueOK'
    BY <2>1 DEF IInv, QueueOK, service, queue
  <2>. QED  BY <2>3, <2>4
<1>6. ASSUME NEW w \in Workers, PodListFails(w) \/ Inspect(w) PROVE WorkersOK' /\ QueueOK'
  <2>1. wpc[w] # "idle" /\ Finished(w, "completed") /\ UNCHANGED service
    BY <1>6 DEF PodListFails, Inspect
  <2>. QED  BY <2>1, FinishedOK
<1>7. ASSUME NEW w \in Workers, MarkDone(w) PROVE WorkersOK' /\ QueueOK'
  <2>1. /\ WGoto(w, "mark", "inspect") /\ buildDone' = buildDone \cup {build[w]}
        /\ UNCHANGED <<buildInfo, accepting, queue, build>>
    BY <1>7 DEF MarkDone
  <2>2. WorkersOK'
    BY <2>1, MovesOn
  <2>3. task[build[w]] = "active"
    BY <2>1, AtWork DEF WGoto
  <2>4. QueueOK'
    BY <2>1, <2>3 DEF IInv, QueueOK, queue
  <2>. QED  BY <2>2, <2>4
<1>8. ASSUME NEW w \in Workers, InspectPanics(w) PROVE WorkersOK' /\ QueueOK'
  <2>1. wpc[w] # "idle" /\ Finished(w, AfterFailure(build[w])) /\ UNCHANGED service
    BY <1>8 DEF InspectPanics
  <2>2. AfterFailure(build[w]) \in {"pending", "completed", "archived"}
    BY DEF AfterFailure
  <2>. QED  BY <2>1, <2>2, FinishedOK
<1>9. ASSUME NEW j \in Jobs, JobEnds(j) \/ JobDeleted(j) PROVE WorkersOK' /\ QueueOK'
  <2>1. UNCHANGED <<service, queue, wpc, build>>
    BY <1>9 DEF JobEnds, JobDeleted, workers
  <2>. QED  BY <2>1 DEF IInv, WorkersOK, QueueOK, service, queue
<1>10. CASE Crash \/ EnqueueFails \/ JobFails
  <2>1. MemoryGone /\ UNCHANGED queue
    BY <1>10 DEF Crash, EnqueueFails, JobFails, Restart
  <2>. QED  BY <2>1, MemoryGoneOK DEF queue
<1>11. CASE Shutdown
  <2>1. MemoryGone /\ payload' = payload
    BY <1>11 DEF Shutdown
  <2>. QED  BY <1>11, <2>1, ShutdownTasks, MemoryGoneOK
<1>. QED
  BY <1>0, <1>1, <1>2, <1>3, <1>4, <1>5, <1>6, <1>7, <1>8, <1>9, <1>10, <1>11
  DEF Next, WorkerStep

(* No two workers are in the same build, a worker's task is active, and    *)
(* what is done was queued, whatever fails.                                *)
THEOREM BuilderInvariance == Spec => []IInv
<1>. QED  BY InitIInv, NextIInv, PTL DEF Spec

(* The variables of the builder keep their types.                          *)
THEOREM BuilderTypeCorrect == Spec => []TypeOK
<1>1. IInv => TypeOK
  BY DEF IInv
<1>. QED  BY <1>1, BuilderInvariance, PTL

-----------------------------------------------------------------------------
(* A queued task is settled after a bounded number of steps of its own.    *)

(* What a step may do to the task of build b.                              *)
Advances(b) ==
  \/ Remaining(b)' < Remaining(b)
  \/ task'[b] = task[b] /\ retried'[b] = retried[b]
  \/ Shutdown /\ task[b] = "active" /\ task'[b] = "pending" /\ retried'[b] = retried[b]

LEMMA RemainingIs ==
  /\ Stages["none"] = 4 /\ Stages["pending"] = 3 /\ Stages["active"] = 2
  /\ Stages["completed"] = 0 /\ Stages["archived"] = 0
BY DEF Stages

(* The task of b goes on to a later stage of the same attempt.             *)
LEMMA NextStage ==
  ASSUME TypeOK, NEW b \in Builds, NEW s, task' = [task EXCEPT ![b] = s],
         retried' = retried, Stages[s] \in Nat, Stages[task[b]] \in Nat, Stages[s] < Stages[task[b]],
         NEW c \in Builds
  PROVE  Advances(c)
<1>1. MaxRetry \in Nat /\ retried[c] \in 0 .. MaxRetry
  BY BoundsAssumption DEF TypeOK, Attempts
<1>2. CASE c = b
  <2>1. task'[c] = s /\ retried'[c] = retried[c]
    BY <1>2 DEF TypeOK
  <2>2. Remaining(c) = 4 * (MaxRetry - retried[c]) + Stages[task[c]]
    BY DEF Remaining
  <2>3. Remaining(c)' = 4 * (MaxRetry - retried[c]) + Stages[s]
    BY <2>1 DEF Remaining
  <2>4. Remaining(c)' < Remaining(c)
    BY <1>1, <1>2, <2>2, <2>3
  <2>. QED  BY <2>4 DEF Advances
<1>3. CASE c # b
  BY <1>3 DEF TypeOK, Advances
<1>. QED  BY <1>2, <1>3

(* An attempt at b has failed: there is one attempt less, or none left.    *)
LEMMA FailedAttempt ==
  ASSUME TypeOK, NEW b \in Builds, task[b] = "active",
         task' = [task EXCEPT ![b] = AfterFailure(b)], CountRetry(b),
         NEW c \in Builds
  PROVE  Advances(c)
<1>1. MaxRetry \in Nat /\ retried[b] \in 0 .. MaxRetry
  BY BoundsAssumption DEF TypeOK, Attempts
<1>2. CASE c = b
  <2>1. /\ task'[c] = IF retried[b] < MaxRetry THEN "pending" ELSE "archived"
        /\ retried'[c] = IF retried[b] < MaxRetry THEN retried[b] + 1 ELSE retried[b]
    BY <1>2 DEF TypeOK, AfterFailure, CountRetry
  <2>2. Remaining(c) = 4 * (MaxRetry - retried[b]) + 2
    BY <1>2, RemainingIs DEF Remaining
  <2>3. Remaining(c)' = IF retried[b] < MaxRetry THEN 4 * (MaxRetry - (retried[b] + 1)) + 3
                        ELSE 4 * (MaxRetry - retried[b])
    <3>1. Remaining(c)' = 4 * (MaxRetry - retried'[c]) + Stages[task'[c]]
      BY DEF Remaining
    <3>. QED  BY <1>1, <2>1, <3>1, RemainingIs
  <2>4. Remaining(c)' < Remaining(c)
    BY <1>1, <2>2, <2>3
  <2>. QED  BY <2>4 DEF Advances
<1>3. CASE c # b
  BY <1>3 DEF TypeOK, CountRetry, Advances
<1>. QED  BY <1>2, <1>3

LEMMA StepAdvances ==
  ASSUME IInv, [Next]_vars, NEW c \in Builds
  PROVE  Advances(c)
<1>t. TypeOK
  BY DEF IInv
<1>0. CASE UNCHANGED <<task, retried>>
  BY <1>0 DEF Advances
<1>1. ASSUME NEW b \in Builds, Enqueue(b) PROVE Advances(c)
  <2>1. /\ task' = [task EXCEPT ![b] = "pending"] /\ retried' = retried
        /\ task[b] = "none"
    BY <1>1 DEF Enqueue, IInv, QueueOK
  <2>2. Stages["pending"] \in Nat /\ Stages[task[b]] \in Nat /\ Stages["pending"] < Stages[task[b]]
    BY <2>1, RemainingIs
  <2>. QED  BY <1>t, <2>1, <2>2, NextStage
<1>2. ASSUME NEW b \in Builds, NEW w \in Workers, Dequeue(w, b) PROVE Advances(c)
  <2>1. /\ task' = [task EXCEPT ![b] = "active"] /\ retried' = retried
        /\ task[b] = "pending"
    BY <1>2 DEF Dequeue
  <2>2. Stages["active"] \in Nat /\ Stages[task[b]] \in Nat /\ Stages["active"] < Stages[task[b]]
    BY <2>1, RemainingIs
  <2>. QED  BY <1>t, <2>1, <2>2, NextStage
<1>3. ASSUME NEW b \in Builds, Recover(b) PROVE Advances(c)
  BY <1>3, <1>t, FailedAttempt DEF Recover
<1>w. ASSUME NEW w \in Workers, wpc[w] # "idle" PROVE build[w] \in Builds /\ task[build[w]] = "active"
  BY <1>t, <1>w, NoneAssumption DEF IInv, TypeOK, WorkersOK
<1>4. ASSUME NEW w \in Workers, PodListFails(w) \/ Inspect(w) PROVE Advances(c)
  <2>1. /\ wpc[w] # "idle" /\ retried' = retried
        /\ task' = [task EXCEPT ![build[w]] = "completed"]
    BY <1>4 DEF PodListFails, Inspect, Finished
  <2>2. PICK b \in Builds : b = build[w] /\ task[b] = "active"
    BY <1>w, <2>1
  <2>3. /\ Stages["completed"] \in Nat /\ Stages[task[b]] \in Nat
        /\ Stages["completed"] < Stages[task[b]]
    BY <2>2, RemainingIs
  <2>. QED  BY <1>t, <2>1, <2>2, <2>3, NextStage
<1>5. ASSUME NEW w \in Workers, InspectPanics(w) PROVE Advances(c)
  <2>1. /\ wpc[w] # "idle" /\ CountRetry(build[w])
        /\ task' = [task EXCEPT ![build[w]] = AfterFailure(build[w])]
    BY <1>5 DEF InspectPanics, Finished
  <2>2. PICK b \in Builds : b = build[w] /\ task[b] = "active"
    BY <1>w, <2>1
  <2>. QED  BY <1>t, <2>1, <2>2, FailedAttempt
<1>6. CASE Shutdown
  <2>1. PICK back \in SUBSET {build[w] : w \in Workers} :
          task' = [b \in Builds |-> IF b \in back THEN "pending" ELSE task[b]]
    BY <1>6 DEF Shutdown
  <2>2. retried' = retried
    BY <1>6 DEF Shutdown
  <2>3. CASE c \in back
    <3>1. PICK w \in Workers : build[w] = c
      BY <2>1, <2>3
    <3>2. task[c] = "active"
      BY <3>1, NoneAssumption DEF IInv, WorkersOK
    <3>. QED  BY <1>6, <2>1, <2>2, <2>3, <3>2 DEF Advances
  <2>4. CASE c \notin back
    BY <2>1, <2>2, <2>4 DEF Advances
  <2>. QED  BY <2>3, <2>4
<1>7. ASSUME \/ \E b \in Builds, x \in Works : Build(b, x)
             \/ \E w \in Workers : \/ CreateJob(w) \/ StartWatch(w) \/ HandleDeleted(w)
                                   \/ WatchTimeout(w) \/ MarkDone(w)
             \/ \E j \in Jobs : JobEnds(j) \/ JobDeleted(j)
             \/ Crash \/ EnqueueFails \/ JobFails \/ UNCHANGED vars
      PROVE  UNCHANGED <<task, retried>>
  BY <1>7 DEF Build, CreateJob, StartWatch, HandleDeleted, WatchTimeout, MarkDone, JobEnds,
     JobDeleted, Crash, EnqueueFails, JobFails, Restart, vars, queue
<1>. QED
  BY <1>0, <1>1, <1>2, <1>3, <1>4, <1>5, <1>6, <1>7 DEF Next, WorkerStep

(* With any faults, builds and workers, a task gets closer to its end with *)
(* everything that happens to it, except when an orderly shutdown puts it  *)
(* back: no retry and no recovered lease goes uncounted.                   *)
THEOREM AttemptsAlwaysRunOut == Spec => AttemptsRunOut
<1>1. IInv /\ [Next]_vars =>
        [\A b \in Builds :
           \/ Remaining(b)' < Remaining(b)
           \/ task'[b] = task[b] /\ retried'[b] = retried[b]
           \/ Shutdown /\ task[b] = "active" /\ task'[b] = "pending" /\ retried'[b] = retried[b]]_vars
  BY StepAdvances DEF Advances
<1>. QED  BY <1>1, BuilderInvariance, PTL DEF Spec, AttemptsRunOut

-----------------------------------------------------------------------------
(* The builder as a server of operations                                   *)

(* What GetOperation tells.                                                *)
LEMMA Tells ==
  ASSUME NEW b
  PROVE  /\ Stage(b) = IF b \in buildDone THEN "done"
                       ELSE IF task[b] = "none" THEN "unknown" ELSE "pending"
         /\ GetOperation(b).image = IF b \in buildDone THEN ImageOf(b) ELSE None
BY DEF Stage, GetOperation

LEMMA TellsThen ==
  ASSUME NEW b
  PROVE  /\ Stage(b)' = IF b \in buildDone' THEN "done"
                        ELSE IF task'[b] = "none" THEN "unknown" ELSE "pending"
         /\ GetOperation(b)'.image = IF b \in buildDone' THEN ImageOf(b)' ELSE None
BY DEF Stage, GetOperation

LEMMA ImageType ==
  ASSUME NEW b \in Builds
  PROVE  ImageOf(b) \in Builds \cup {NoImage}
BY DEF ImageOf

LEMMA InitServes == Init => Served!OpInit
<1>. SUFFICES ASSUME Init PROVE Served!OpInit
  OBVIOUS
<1>1. \A b \in Builds : Stage(b) = "unknown" /\ GetOperation(b).image = None
  BY Tells DEF Init
<1>. QED  BY <1>1 DEF Served!OpInit, Init

(* Steps a client cannot see.                                              *)
LEMMA Unseen ==
  ASSUME buildDone' = buildDone, payload' = payload,
         \A b \in Builds : task'[b] = "none" <=> task[b] = "none",
         \A b \in buildDone : b \in buildInfo' <=> b \in buildInfo
  PROVE  UNCHANGED Served!opVars
<1>1. ASSUME NEW b \in Builds
      PROVE  Stage(b)' = Stage(b) /\ GetOperation(b)'.image = GetOperation(b).image
  BY <1>1, Tells, TellsThen DEF ImageOf
<1>. QED  BY <1>1 DEF Served!opVars

(* A worker that is done with a task does not touch what is told of it.    *)
LEMMA FinishedUnseen ==
  ASSUME IInv, NEW w \in Workers, wpc[w] # "idle",
         NEW s \in {"pending", "completed", "archived"},
         Finished(w, s), UNCHANGED service
  PROVE  UNCHANGED Served!opVars
<1>1. build[w] \in Builds /\ task[build[w]] = "active"
  BY AtWork
<1>2. \A b \in Builds : task'[b] = "none" <=> task[b] = "none"
  BY <1>1 DEF IInv, TypeOK, Finished
<1>. QED  BY <1>2, Unseen DEF Finished, service

(* The builder's visible steps: an operation begins and ends.              *)
LEMMA EnqueueStarts ==
  ASSUME IInv, NEW b \in Builds, Enqueue(b)
  PROVE  Served!OpNext
<1>1. /\ accepting[b] \in Works /\ task[b] = "none" /\ b \notin buildDone
      /\ task' = [task EXCEPT ![b] = "pending"]
      /\ payload' = [payload EXCEPT ![b] = accepting[b]]
      /\ buildInfo' = buildInfo /\ buildDone' = buildDone
  BY DEF IInv, TypeOK, QueueOK, Enqueue
<1>2. Stage(b) = "unknown" /\ Stage(b)' = "pending"
  BY <1>1, Tells, TellsThen DEF IInv, TypeOK
<1>3. ASSUME NEW c \in Builds
      PROVE  /\ c # b => Stage(c)' = Stage(c)
             /\ GetOperation(c)'.image = GetOperation(c).image
  BY <1>1, Tells, TellsThen DEF IInv, TypeOK, ImageOf
<1>4. [c \in Builds |-> Stage(c)'] = [[c \in Builds |-> Stage(c)] EXCEPT ![b] = "pending"]
  BY <1>2, <1>3
<1>5. Served!Start(b, accepting[b])
  BY <1>1, <1>2, <1>3, <1>4 DEF Served!Start
<1>. QED  BY <1>1, <1>5 DEF Served!OpNext

LEMMA MarkDoneFinishes ==
  ASSUME IInv, NEW w \in Workers, MarkDone(w)
  PROVE  Served!OpNext \/ UNCHANGED Served!opVars
<1>1. /\ buildDone' = buildDone \cup {build[w]} /\ wpc[w] # "idle"
      /\ UNCHANGED <<buildInfo, task, payload>>
  BY DEF MarkDone, WGoto, queue
<1>2. build[w] \in Builds /\ task[build[w]] = "active"
  BY <1>1, AtWork
<1>3. CASE build[w] \in buildDone
  <2>1. buildDone' = buildDone
    BY <1>1, <1>3
  <2>. QED  BY <1>1, <2>1, Unseen
<1>4. CASE build[w] \notin buildDone
  <2>. DEFINE b == build[w]
  <2>1. PICK i \in Builds \cup {NoImage} : i = ImageOf(b)
    BY <1>2, ImageType
  <2>2. /\ Stage(b) = "pending" /\ GetOperation(b).image = None
    BY <1>2, <1>4, Tells
  <2>3. ASSUME NEW c \in Builds
        PROVE  /\ Stage(c)' = IF c = b THEN "done" ELSE Stage(c)
               /\ GetOperation(c)'.image = IF c = b THEN i ELSE GetOperation(c).image
    BY <1>1, <1>2, <2>1, Tells, TellsThen DEF ImageOf
  <2>4. Served!Finish(b, i)
    BY <1>1, <1>2, <2>2, <2>3 DEF Served!Finish
  <2>. QED  BY <1>2, <2>1, <2>4 DEF Served!OpNext, Served!FinishSome
<1>. QED  BY <1>3, <1>4

(* An ended process forgets what is done, and nothing else.                *)
LEMMA MemoryGoneForgets ==
  ASSUME IInv, MemoryGone, payload' = payload,
         \A b \in Builds : task'[b] = "none" <=> task[b] = "none"
  PROVE  Served!Forget
<1>1. ASSUME NEW b \in Builds
      PROVE  /\ Stage(b)' = IF Stage(b) = "done" THEN "pending" ELSE Stage(b)
             /\ GetOperation(b)'.image = None
  BY <1>1, Tells, TellsThen DEF IInv, QueueOK, MemoryGone
<1>. QED  BY <1>1 DEF Served!Forget

(* The steps that end the process, and all the others.                     *)
RestartStep == Crash \/ EnqueueFails \/ JobFails \/ Shutdown

LEMMA RestartForgets ==
  ASSUME IInv, RestartStep
  PROVE  Served!Forget
<1>1. CASE Crash \/ EnqueueFails \/ JobFails
  <2>1. MemoryGone /\ UNCHANGED queue
    BY <1>1 DEF Crash, EnqueueFails, JobFails, Restart
  <2>. QED  BY <2>1, MemoryGoneForgets DEF queue
<1>2. CASE Shutdown
  <2>1. MemoryGone /\ payload' = payload
    BY <1>2 DEF Shutdown
  <2>. QED  BY <1>2, <2>1, ShutdownTasks, MemoryGoneForgets
<1>. QED  BY <1>1, <1>2 DEF RestartStep

LEMMA StepServes ==
  ASSUME IInv, [Next]_vars, ~RestartStep
  PROVE  [Served!OpNext]_(Served!opVars)
<1>. SUFFICES Served!OpNext \/ UNCHANGED Served!opVars
  OBVIOUS
<1>0. CASE UNCHANGED vars
  BY <1>0, Unseen DEF vars, service, queue
<1>1. ASSUME NEW b \in Builds, NEW x \in Works, Build(b, x) PROVE UNCHANGED Served!opVars
  <2>1. b \notin buildDone
    BY <1>1 DEF IInv, QueueOK, Build
  <2>. QED  BY <1>1, <2>1, Unseen DEF Build, queue
<1>2. ASSUME NEW b \in Builds, Enqueue(b) PROVE Served!OpNext
  BY <1>2, EnqueueStarts
<1>3. ASSUME NEW b \in Builds, Recover(b) PROVE UNCHANGED Served!opVars
  <2>1. AfterFailure(b) # "none"
    BY DEF AfterFailure
  <2>2. \A c \in Builds : task'[c] = "none" <=> task[c] = "none"
    BY <1>3, <2>1 DEF IInv, TypeOK, Recover
  <2>. QED  BY <1>3, <2>2, Unseen DEF Recover, service
<1>4. ASSUME NEW b \in Builds, NEW w \in Workers, Dequeue(w, b) PROVE UNCHANGED Served!opVars
  <2>1. \A c \in Builds : task'[c] = "none" <=> task[c] = "none"
    BY <1>4 DEF IInv, TypeOK, Dequeue
  <2>. QED  BY <1>4, <2>1, Unseen DEF Dequeue, service
<1>5. ASSUME NEW w \in Workers,
             CreateJob(w) \/ StartWatch(w) \/ HandleDeleted(w) \/ WatchTimeout(w)
      PROVE  UNCHANGED Served!opVars
  <2>1. UNCHANGED <<service, queue>>
    BY <1>5 DEF CreateJob, StartWatch, HandleDeleted, WatchTimeout
  <2>. QED  BY <2>1, Unseen DEF service, queue
<1>6. ASSUME NEW w \in Workers, PodListFails(w) \/ Inspect(w) PROVE UNCHANGED Served!opVars
  <2>1. wpc[w] # "idle" /\ Finished(w, "completed") /\ UNCHANGED service
    BY <1>6 DEF PodListFails, Inspect
  <2>. QED  BY <2>1, FinishedUnseen
<1>7. ASSUME NEW w \in Workers, MarkDone(w) PROVE Served!OpNext \/ UNCHANGED Served!opVars
  BY <1>7, MarkDoneFinishes
<1>8. ASSUME NEW w \in Workers, InspectPanics(w) PROVE UNCHANGED Served!opVars
  <2>1. wpc[w] # "idle" /\ Finished(w, AfterFailure(build[w])) /\ UNCHANGED service
    BY <1>8 DEF InspectPanics
  <2>2. AfterFailure(build[w]) \in {"pending", "completed", "archived"}
    BY DEF AfterFailure
  <2>. QED  BY <2>1, <2>2, FinishedUnseen
<1>9. ASSUME NEW j \in Jobs, JobEnds(j) \/ JobDeleted(j) PROVE UNCHANGED Served!opVars
  <2>1. UNCHANGED <<service, queue>>
    BY <1>9 DEF JobEnds, JobDeleted
  <2>. QED  BY <2>1, Unseen DEF service, queue
<1>. QED
  BY <1>0, <1>1, <1>2, <1>3, <1>4, <1>5, <1>6, <1>7, <1>8, <1>9
  DEF Next, WorkerStep, RestartStep

(* Whatever fails, and however often the process ends, the builder is the  *)
(* server of operations the cache is proved against: it may forget what is *)
(* done, but never what a build was started for, nor is a name ever given  *)
(* twice.                                                                  *)
THEOREM BuilderMayForget == Spec => ImplementsForgetful
<1>1. IInv /\ [Next]_vars => [Served!OpNext \/ Served!Forget]_(Served!opVars)
  BY StepServes, RestartForgets
<1>. QED
  BY <1>1, InitServes, BuilderInvariance, PTL DEF Spec, ImplementsForgetful, Served!ForgetfulSpec

(* As long as the process is not restarted, it forgets nothing: an         *)
(* operation gets its image once.                                          *)
THEOREM BuilderServes ==
  ASSUME Faults \cap {"crash", "shutdown", "redis", "k8s"} = {}
  PROVE  Spec => ImplementsOperations
<1>1. ~RestartStep
  BY DEF RestartStep, Crash, EnqueueFails, JobFails, Shutdown
<1>2. IInv /\ [Next]_vars => [Served!OpNext]_(Served!opVars)
  BY <1>1, StepServes
<1>. QED
  BY <1>2, InitServes, BuilderInvariance, PTL DEF Spec, ImplementsOperations, Served!OpSpec

-----------------------------------------------------------------------------
(* While the process lives                                                 *)

(* All steps but those that end the process keep what Kept says.           *)
LEMMA NextKept == IInv /\ Kept /\ [Next]_vars /\ ~RestartStep => Kept'
<1>. SUFFICES ASSUME IInv, Kept, [Next]_vars, ~RestartStep PROVE Kept'
  OBVIOUS
<1>0. CASE UNCHANGED vars
  BY <1>0 DEF Kept, vars, service, queue, workers
<1>1. ASSUME NEW b \in Builds, NEW x \in Works, Build(b, x) PROVE Kept'
  BY <1>1 DEF Kept, Build, queue, workers
<1>2. ASSUME NEW b \in Builds, Enqueue(b) PROVE Kept'
  <2>1. b \in buildInfo
    BY <1>2 DEF IInv, QueueOK, Enqueue
  <2>. QED  BY <1>2, <2>1 DEF IInv, TypeOK, Kept, Enqueue, workers
<1>3. ASSUME NEW b \in Builds, Recover(b) PROVE Kept'
  <2>1. AfterFailure(b) \in {"pending", "archived"}
    BY DEF AfterFailure
  <2>. QED  BY <1>3, <2>1 DEF IInv, TypeOK, Kept, Recover, service, workers
<1>4. ASSUME NEW b \in Builds, NEW w \in Workers, Dequeue(w, b) PROVE Kept'
  <2>1. build[w] = None
    BY <1>4 DEF IInv, WorkersOK, Dequeue, WGoto
  <2>. QED  BY <1>4, <2>1, NoneAssumption DEF IInv, TypeOK, Kept, Dequeue, service
<1>5. ASSUME NEW w \in Workers,
             CreateJob(w) \/ StartWatch(w) \/ HandleDeleted(w) \/ WatchTimeout(w) \/ MarkDone(w)
      PROVE  Kept'
  <2>1. UNCHANGED <<buildInfo, queue, build>>
    BY <1>5 DEF CreateJob, StartWatch, HandleDeleted, WatchTimeout, MarkDone, service
  <2>. QED  BY <2>1 DEF Kept, queue
<1>6. ASSUME NEW w \in Workers, PodListFails(w) \/ Inspect(w) \/ InspectPanics(w) PROVE Kept'
  <2>1. build[w] \in Builds /\ task[build[w]] = "active"
    BY <1>6, AtWork DEF PodListFails, Inspect, InspectPanics
  <2>2. PICK s \in {"pending", "completed", "archived"} :
          /\ task' = [task EXCEPT ![build[w]] = s]
          /\ build' = [build EXCEPT ![w] = None]
          /\ buildInfo' = buildInfo
    BY <1>6 DEF PodListFails, Inspect, InspectPanics, Finished, AfterFailure, service
  <2>3. ASSUME NEW b \in Builds, task'[b] = "active" PROVE \E v \in Workers : build'[v] = b
    <3>1. b # build[w] /\ task[b] = "active"
      BY <2>1, <2>2, <2>3 DEF IInv, TypeOK
    <3>2. PICK v \in Workers : build[v] = b
      BY <3>1 DEF Kept
    <3>. QED  BY <2>2, <3>1, <3>2 DEF IInv, TypeOK
  <2>. QED  BY <2>1, <2>2, <2>3 DEF IInv, TypeOK, Kept
<1>7. ASSUME NEW j \in Jobs, JobEnds(j) \/ JobDeleted(j) PROVE Kept'
  BY <1>7 DEF Kept, JobEnds, JobDeleted, service, queue, workers
<1>. QED
  BY <1>0, <1>1, <1>2, <1>3, <1>4, <1>5, <1>6, <1>7 DEF Next, WorkerStep, RestartStep

(* As long as the process lives, with any number of workers and retries,   *)
(* the image it tells of a done build is that build's own.                 *)
THEOREM DoneAlwaysHasImage ==
  ASSUME Faults \cap {"crash", "shutdown", "redis", "k8s"} = {}
  PROVE  Spec => []DoneHasImage
<1>1. ~RestartStep
  BY DEF RestartStep, Crash, EnqueueFails, JobFails, Shutdown
<1>2. Init => Kept
  BY DEF Init, Kept
<1>3. IInv /\ Kept /\ [Next]_vars => Kept'
  BY <1>1, NextKept
<1>4. IInv /\ Kept => DoneHasImage
  BY DEF IInv, QueueOK, Kept, DoneHasImage, GetOperation, ImageOf
<1>. QED  BY <1>2, <1>3, <1>4, BuilderInvariance, PTL DEF Spec

(* And a task is ended by a worker that has marked its build done.         *)
LEMMA NextEnded == IInv /\ Ended /\ [Next]_vars /\ ~RestartStep /\ "pods" \notin Faults => Ended'
<1>. SUFFICES ASSUME IInv, Ended, [Next]_vars, ~RestartStep, "pods" \notin Faults
              PROVE  /\ \A b \in Builds : task'[b] = "completed" => b \in buildDone'
                     /\ \A w \in Workers : wpc'[w] = "inspect" => build'[w] \in buildDone'
  BY DEF Ended, CompletedIsDone, GetOperation
<1>. USE DEF Ended, CompletedIsDone, GetOperation
<1>0. CASE UNCHANGED vars
  BY <1>0 DEF vars, service, queue, workers
<1>1. ASSUME NEW b \in Builds, (\E x \in Works : Build(b, x)) \/ Enqueue(b) \/ Recover(b)
      PROVE  /\ \A c \in Builds : task'[c] = "completed" => c \in buildDone'
             /\ \A w \in Workers : wpc'[w] = "inspect" => build'[w] \in buildDone'
  <2>1. UNCHANGED <<buildDone, workers>>
    BY <1>1 DEF Build, Enqueue, Recover, service
  <2>2. task' = task \/ (\E s \in {"pending", "archived"} : task' = [task EXCEPT ![b] = s])
    BY <1>1 DEF Build, Enqueue, Recover, AfterFailure, queue
  <2>. QED  BY <2>1, <2>2 DEF IInv, TypeOK, workers
<1>2. ASSUME NEW b \in Builds, NEW w \in Workers, Dequeue(w, b)
      PROVE  /\ \A c \in Builds : task'[c] = "completed" => c \in buildDone'
             /\ \A v \in Workers : wpc'[v] = "inspect" => build'[v] \in buildDone'
  BY <1>2 DEF IInv, TypeOK, Dequeue, WGoto, service
<1>3. ASSUME NEW w \in Workers,
             CreateJob(w) \/ StartWatch(w) \/ HandleDeleted(w) \/ WatchTimeout(w)
      PROVE  /\ \A c \in Builds : task'[c] = "completed" => c \in buildDone'
             /\ \A v \in Workers : wpc'[v] = "inspect" => build'[v] \in buildDone'
  BY <1>3 DEF IInv, TypeOK, CreateJob, StartWatch, HandleDeleted, WatchTimeout, WGoto, service, queue
<1>4. ASSUME NEW w \in Workers, MarkDone(w)
      PROVE  /\ \A c \in Builds : task'[c] = "completed" => c \in buildDone'
             /\ \A v \in Workers : wpc'[v] = "inspect" => build'[v] \in buildDone'
  BY <1>4 DEF IInv, TypeOK, MarkDone, WGoto, queue
<1>5. ASSUME NEW w \in Workers, Inspect(w) \/ InspectPanics(w)
      PROVE  /\ \A c \in Builds : task'[c] = "completed" => c \in buildDone'
             /\ \A v \in Workers : wpc'[v] = "inspect" => build'[v] \in buildDone'
  <2>1. /\ buildDone' = buildDone /\ wpc[w] = "inspect"
        /\ wpc' = [wpc EXCEPT ![w] = "idle"] /\ build' = [build EXCEPT ![w] = None]
        /\ \E s \in {"pending", "completed", "archived"} : task' = [task EXCEPT ![build[w]] = s]
    BY <1>5 DEF Inspect, InspectPanics, Finished, AfterFailure, service
  <2>. QED  BY <2>1 DEF IInv, TypeOK
<1>6. ASSUME NEW j \in Jobs, JobEnds(j) \/ JobDeleted(j)
      PROVE  /\ \A c \in Builds : task'[c] = "completed" => c \in buildDone'
             /\ \A v \in Workers : wpc'[v] = "inspect" => build'[v] \in buildDone'
  BY <1>6 DEF JobEnds, JobDeleted, service, queue, workers
<1>7. ASSUME NEW w \in Workers PROVE ~PodListFails(w)
  BY DEF PodListFails
<1>. QED
  BY <1>0, <1>1, <1>2, <1>3, <1>4, <1>5, <1>6, <1>7 DEF Next, WorkerStep, RestartStep

LEMMA InitKept == Init => Kept /\ Ended
BY DEF Init, Kept, Ended, CompletedIsDone

(* For any number of workers: unless the process is restarted or pods      *)
(* cannot be listed, a client is told the end of every task.               *)
THEOREM CompletedAlwaysDone ==
  ASSUME Faults \cap {"crash", "shutdown", "redis", "k8s", "pods"} = {}
  PROVE  Spec => []CompletedIsDone
<1>1. ~RestartStep /\ "pods" \notin Faults
  BY DEF RestartStep, Crash, EnqueueFails, JobFails, Shutdown
<1>2. IInv /\ Ended /\ [Next]_vars => Ended'
  BY <1>1, NextEnded
<1>3. Ended => CompletedIsDone
  BY DEF Ended
<1>. QED  BY <1>2, <1>3, InitKept, BuilderInvariance, PTL DEF Spec

-----------------------------------------------------------------------------
(* The answer when all is over                                             *)

(* The task of b is over, and so nobody is in b: its task stays over.      *)
LEMMA OverStays ==
  ASSUME IInv, [Next]_vars, ~RestartStep, NEW b \in Builds, task[b] \in {"completed", "archived"}
  PROVE  task'[b] = task[b]
<1>0. CASE UNCHANGED vars
  BY <1>0 DEF vars, queue
<1>1. ASSUME NEW c \in Builds, NEW x \in Works, Build(c, x) PROVE task'[b] = task[b]
  BY <1>1 DEF Build, queue
<1>2. ASSUME NEW c \in Builds, Enqueue(c) PROVE task'[b] = task[b]
  <2>1. task[c] = "none"
    BY <1>2 DEF IInv, QueueOK, Enqueue
  <2>. QED  BY <1>2, <2>1 DEF IInv, TypeOK, Enqueue
<1>3. ASSUME NEW c \in Builds, Recover(c) PROVE task'[b] = task[b]
  BY <1>3 DEF IInv, TypeOK, Recover
<1>4. ASSUME NEW c \in Builds, NEW w \in Workers, Dequeue(w, c) PROVE task'[b] = task[b]
  BY <1>4 DEF IInv, TypeOK, Dequeue
<1>5. ASSUME NEW w \in Workers, PodListFails(w) \/ Inspect(w) \/ InspectPanics(w)
      PROVE  task'[b] = task[b]
  <2>1. task[build[w]] = "active" /\ \E s : task' = [task EXCEPT ![build[w]] = s]
    BY <1>5, AtWork DEF PodListFails, Inspect, InspectPanics, Finished
  <2>. QED  BY <2>1 DEF IInv, TypeOK
<1>6. ASSUME NEW w \in Workers,
             CreateJob(w) \/ StartWatch(w) \/ HandleDeleted(w) \/ WatchTimeout(w) \/ MarkDone(w)
      PROVE  task'[b] = task[b]
  BY <1>6 DEF CreateJob, StartWatch, HandleDeleted, WatchTimeout, MarkDone, queue
<1>7. ASSUME NEW j \in Jobs, JobEnds(j) \/ JobDeleted(j) PROVE task'[b] = task[b]
  BY <1>7 DEF JobEnds, JobDeleted, queue
<1>. QED
  BY <1>0, <1>1, <1>2, <1>3, <1>4, <1>5, <1>6, <1>7 DEF Next, WorkerStep, RestartStep

(* Nobody creates a job for it, and only its jobs push its image.          *)
LEMMA NothingRuns ==
  ASSUME IInv, [Next]_vars, ~RestartStep, NEW b \in Builds, task[b] # "active",
         \A j \in Running : job[j].build # b
  PROVE  registry'[b] = registry[b] /\ \A j \in Running' : job'[j].build # b
<1>1. CASE UNCHANGED cluster
  BY <1>1 DEF cluster, Running
<1>2. ASSUME NEW w \in Workers, CreateJob(w)
      PROVE  registry'[b] = registry[b] /\ \A j \in Running' : job'[j].build # b
  <2>1. build[w] # b
    BY <1>2, AtWork DEF CreateJob, WGoto
  <2>2. PICK i \in Jobs :
          job' = [job EXCEPT ![i] = [build |-> build[w], attempt |-> retried[build[w]], over |-> FALSE]]
    BY <1>2 DEF CreateJob, NewJob, FreeNames
  <2>. QED  BY <1>2, <2>1, <2>2 DEF IInv, TypeOK, CreateJob, Running
<1>3. ASSUME NEW i \in Jobs, JobEnds(i)
      PROVE  registry'[b] = registry[b] /\ \A j \in Running' : job'[j].build # b
  <2>1. job[i] \in Job /\ i \in Running
    BY <1>3 DEF IInv, TypeOK, JobEnds, Running
  <2>2. registry'[b] = registry[b]
    BY <1>3, <2>1 DEF IInv, TypeOK, JobEnds
  <2>3. \A j \in Running' : j \in Running /\ job'[j] = job[j]
    BY <1>3, <2>1 DEF IInv, TypeOK, JobEnds, Running, Job
  <2>. QED  BY <2>2, <2>3
<1>4. ASSUME NEW i \in Jobs, JobDeleted(i)
      PROVE  registry'[b] = registry[b] /\ \A j \in Running' : job'[j].build # b
  BY <1>4 DEF IInv, TypeOK, JobDeleted, Running
<1>5. \/ UNCHANGED cluster
      \/ \E w \in Workers : CreateJob(w)
      \/ \E j \in Jobs : JobEnds(j) \/ JobDeleted(j)
  BY DEF Next, WorkerStep, RestartStep, Build, Enqueue, Recover, Dequeue, StartWatch, HandleDeleted,
     WatchTimeout, PodListFails, MarkDone, Inspect, InspectPanics, vars, cluster
<1>. QED  BY <1>1, <1>2, <1>3, <1>4, <1>5

(* For any number of workers, retries and timeouts, and whatever was said  *)
(* to be done too early: once the task of a build is over and none of its  *)
(* jobs is running, the answer to GetOperation changes no more, as long as *)
(* the process lives.                                                      *)
THEOREM AnswerAlwaysFinal ==
  ASSUME Faults \cap {"crash", "shutdown", "redis", "k8s"} = {}
  PROVE  Spec => AnswerFinal
<1>1. ~RestartStep
  BY DEF RestartStep, Crash, EnqueueFails, JobFails, Shutdown
<1>2. ASSUME IInv, Kept, [Next]_vars, NEW b \in Builds, Final(b)
      PROVE  Final(b)' /\ GetOperation(b)' = GetOperation(b)
  <2>1. task'[b] = task[b] /\ task[b] \in {"completed", "archived"}
    BY <1>1, <1>2, OverStays DEF Final
  <2>2. registry'[b] = registry[b] /\ \A j \in Running' : job'[j].build # b
    BY <1>1, <1>2, NothingRuns DEF Final
  <2>3. b \in buildDone /\ b \in buildInfo
    BY <1>2 DEF Final, GetOperation, Kept
  <2>4. b \in buildDone' /\ b \in buildInfo'
    BY <1>1, <1>2, <2>3 DEF Next, WorkerStep, RestartStep, Build, Enqueue, Recover, Dequeue,
       CreateJob, StartWatch, HandleDeleted, WatchTimeout, PodListFails, MarkDone,
       Inspect, InspectPanics, JobEnds, JobDeleted, vars, service
  <2>. QED  BY <2>1, <2>2, <2>3, <2>4 DEF Final, GetOperation, ImageOf
<1>3. IInv /\ Kept /\ [Next]_vars => Kept'
  BY <1>1, NextKept
<1>4. IInv /\ Kept /\ [Next]_vars
      => [\A b \in Builds : Final(b) => Final(b)' /\ GetOperation(b)' = GetOperation(b)]_vars
  BY <1>2
<1>. QED  BY <1>3, <1>4, InitKept, BuilderInvariance, PTL DEF Spec, AnswerFinal
-----------------------------------------------------------------------------
(* Without faults: what the workers do too early, counted                  *)

(* Of the steps there are without faults, those that create and delete a   *)
(* job change what is counted, the others do not.                          *)
Quiet ==
  \/ UNCHANGED vars
  \/ \E b \in Builds : (\E x \in Works : Build(b, x)) \/ Enqueue(b) \/ \E w \in Workers : Dequeue(w, b)
  \/ \E w \in Workers : StartWatch(w) \/ HandleDeleted(w) \/ MarkDone(w) \/ Inspect(w)
  \/ \E j \in Jobs : JobEnds(j)

LEMMA FaultlessSteps ==
  ASSUME Faults = {}, Kept, [Next]_vars
  PROVE  Quiet \/ (\E w \in Workers : CreateJob(w)) \/ (\E j \in Jobs : JobDeleted(j))
<1>1. \A b \in Builds : ~Recover(b)
  BY DEF Kept, Recover
<1>2. \A w \in Workers : ~WatchTimeout(w) /\ ~PodListFails(w) /\ ~InspectPanics(w)
  BY DEF WatchTimeout, PodListFails, InspectPanics
<1>3. ~Crash /\ ~EnqueueFails /\ ~JobFails /\ ~Shutdown
  BY DEF Crash, EnqueueFails, JobFails, Shutdown
<1>. QED  BY <1>1, <1>2, <1>3 DEF Quiet, Next, WorkerStep

(* Nobody is about to create a job for a build that has one, or had one.   *)
LEMMA NotStarted ==
  ASSUME IInv, NEW w \in Workers, wpc[w] = "create"
  PROVE  build[w] \in Builds /\ build[w] \notin Started
BY AtWork DEF IInv, WorkersOK, Started

(* The other steps: no build is started, none gets or loses its job, and   *)
(* no wait begins or ends.                                                 *)
LEMMA QuietKeepsStarted ==
  ASSUME IInv, Quiet
  PROVE  Started' = Started
<1>0. CASE UNCHANGED vars
  BY <1>0 DEF vars, queue, workers, Started
<1>1. ASSUME NEW b \in Builds, (\E x \in Works : Build(b, x)) \/ Enqueue(b)
      PROVE  Started' = Started
  <2>1. task[b] = "none" /\ UNCHANGED workers
    BY <1>1 DEF IInv, QueueOK, Build, Enqueue
  <2>2. task' = task \/ task' = [task EXCEPT ![b] = "pending"]
    BY <1>1 DEF Build, Enqueue, queue
  <2>. QED  BY <2>1, <2>2 DEF IInv, TypeOK, Started, workers
<1>2. ASSUME NEW b \in Builds, NEW w \in Workers, Dequeue(w, b) PROVE Started' = Started
  <2>1. /\ build[w] = None /\ task[b] = "pending"
        /\ wpc' = [wpc EXCEPT ![w] = "create"] /\ build' = [build EXCEPT ![w] = b]
        /\ task' = [task EXCEPT ![b] = "active"]
    BY <1>2 DEF IInv, WorkersOK, Dequeue, WGoto
  <2>. QED  BY <2>1, NoneAssumption DEF IInv, TypeOK, Started
<1>3. ASSUME NEW w \in Workers, StartWatch(w) \/ HandleDeleted(w) \/ MarkDone(w)
      PROVE  Started' = Started
  <2>1. /\ UNCHANGED <<task, build>> /\ wpc[w] # "create"
        /\ \E to \in {"watching", "mark", "inspect"} : wpc' = [wpc EXCEPT ![w] = to]
    BY <1>3 DEF StartWatch, HandleDeleted, MarkDone, WGoto, queue
  <2>. QED  BY <2>1 DEF IInv, TypeOK, Started
<1>4. ASSUME NEW w \in Workers, Inspect(w) PROVE Started' = Started
  <2>1. /\ build[w] \in Builds /\ build[w] \in Started
        /\ wpc' = [wpc EXCEPT ![w] = "idle"] /\ build' = [build EXCEPT ![w] = None]
        /\ task' = [task EXCEPT ![build[w]] = "completed"]
    BY <1>4, AtWork DEF Inspect, Finished, Started
  <2>. QED  BY <2>1, NoneAssumption DEF IInv, TypeOK, Started
<1>5. ASSUME NEW j \in Jobs, JobEnds(j) PROVE Started' = Started
  BY <1>5 DEF JobEnds, queue, workers, Started
<1>. QED  BY <1>0, <1>1, <1>2, <1>3, <1>4, <1>5 DEF Quiet

LEMMA QuietKeepsJobs ==
  ASSUME IInv, Quiet
  PROVE  \A j \in Jobs : /\ job'[j] # None <=> job[j] # None
                         /\ job[j] # None => job'[j].build = job[j].build
<1>1. job' = job \/ \E j \in Jobs : JobEnds(j)
  BY DEF Quiet, Build, Enqueue, Dequeue, StartWatch, HandleDeleted, MarkDone, Inspect, vars, cluster
<1>2. ASSUME NEW i \in Jobs, JobEnds(i), NEW j \in Jobs
      PROVE  /\ job'[j] # None <=> job[j] # None
             /\ job[j] # None => job'[j].build = job[j].build
  <2>1. /\ job[i] # None /\ job[i] \in Job
        /\ job' = [job EXCEPT ![i] = [job[i] EXCEPT !.over = TRUE]]
    BY <1>2 DEF IInv, TypeOK, JobEnds
  <2>2. [job[i] EXCEPT !.over = TRUE] \in Job /\ [job[i] EXCEPT !.over = TRUE].build = job[i].build
    BY <2>1 DEF Job
  <2>. QED  BY <2>1, <2>2, NoneAssumption DEF IInv, TypeOK
<1>. QED  BY <1>1, <1>2

LEMMA QuietKeepsWaiting ==
  ASSUME IInv, OneJob, Quiet
  PROVE  /\ Waiting' = Waiting
         /\ \A w \in Waiting : build'[w] = build[w]
         /\ \A w \in Workers : sawDeleted'[w] => wpc'[w] \in {"watching", "mark", "inspect"}
<1>0. CASE UNCHANGED workers
  BY <1>0 DEF workers, Waiting, OneJob
<1>1. ASSUME NEW b \in Builds, NEW w \in Workers, Dequeue(w, b)
      PROVE  /\ Waiting' = Waiting
             /\ \A v \in Waiting : build'[v] = build[v]
             /\ \A v \in Workers : sawDeleted'[v] => wpc'[v] \in {"watching", "mark", "inspect"}
  BY <1>1 DEF IInv, TypeOK, Dequeue, WGoto, Waiting, OneJob
<1>2. ASSUME NEW w \in Workers, StartWatch(w) \/ HandleDeleted(w) \/ MarkDone(w)
      PROVE  /\ Waiting' = Waiting
             /\ \A v \in Waiting : build'[v] = build[v]
             /\ \A v \in Workers : sawDeleted'[v] => wpc'[v] \in {"watching", "mark", "inspect"}
  BY <1>2 DEF IInv, TypeOK, StartWatch, HandleDeleted, MarkDone, WGoto, Waiting, OneJob
<1>3. ASSUME NEW w \in Workers, Inspect(w)
      PROVE  /\ Waiting' = Waiting
             /\ \A v \in Waiting : build'[v] = build[v]
             /\ \A v \in Workers : sawDeleted'[v] => wpc'[v] \in {"watching", "mark", "inspect"}
  BY <1>3 DEF IInv, TypeOK, Inspect, Finished, Waiting, OneJob
<1>. QED
  BY <1>0, <1>1, <1>2, <1>3 DEF Quiet, Build, Enqueue, JobEnds, vars

(* What is done is completed, or about to be.                              *)
LEMMA QuietKeepsDone ==
  ASSUME IInv, OneJob, Quiet
  PROVE  \A b \in buildDone' : task'[b] = "completed" \/ \E w \in Workers : build'[w] = b /\ wpc'[w] = "inspect"
<1>. SUFFICES ASSUME NEW b \in buildDone'
              PROVE  task'[b] = "completed" \/ \E w \in Workers : build'[w] = b /\ wpc'[w] = "inspect"
  OBVIOUS
<1>s. b \in buildDone => /\ b \in Builds /\ task[b] \notin {"none", "pending"}
                         /\ task[b] = "completed" \/ \E w \in Workers : build[w] = b /\ wpc[w] = "inspect"
  BY AtWork DEF IInv, TypeOK, OneJob
<1>0. CASE UNCHANGED <<buildDone, task, build, wpc>>
  BY <1>0, <1>s
<1>1. ASSUME NEW c \in Builds, Enqueue(c)
      PROVE  task'[b] = "completed" \/ \E w \in Workers : build'[w] = b /\ wpc'[w] = "inspect"
  <2>1. /\ task[c] = "none" /\ task' = [task EXCEPT ![c] = "pending"]
        /\ buildDone' = buildDone /\ UNCHANGED workers
    BY <1>1 DEF IInv, QueueOK, Enqueue
  <2>2. b \in Builds /\ b # c
    BY <2>1, <1>s
  <2>3. task'[b] = task[b]
    BY <2>1, <2>2 DEF IInv, TypeOK
  <2>. QED  BY <2>1, <2>3, <1>s DEF workers
<1>2. ASSUME NEW c \in Builds, NEW v \in Workers, Dequeue(v, c)
      PROVE  task'[b] = "completed" \/ \E w \in Workers : build'[w] = b /\ wpc'[w] = "inspect"
  <2>1. /\ task[c] = "pending" /\ task' = [task EXCEPT ![c] = "active"] /\ buildDone' = buildDone
        /\ wpc[v] = "idle" /\ wpc' = [wpc EXCEPT ![v] = "create"] /\ build' = [build EXCEPT ![v] = c]
    BY <1>2 DEF Dequeue, WGoto, service
  <2>2. b \in Builds /\ b # c
    BY <2>1, <1>s
  <2>3. task'[b] = task[b]
    BY <2>1, <2>2 DEF IInv, TypeOK
  <2>4. \A w \in Workers : wpc[w] = "inspect" => wpc'[w] = wpc[w] /\ build'[w] = build[w]
    BY <2>1 DEF IInv, TypeOK
  <2>. QED  BY <2>1, <2>3, <2>4, <1>s
<1>3. ASSUME NEW v \in Workers, StartWatch(v) \/ HandleDeleted(v)
      PROVE  task'[b] = "completed" \/ \E w \in Workers : build'[w] = b /\ wpc'[w] = "inspect"
  <2>1. /\ UNCHANGED <<buildDone, task, build>> /\ wpc[v] # "inspect"
        /\ \E to : wpc' = [wpc EXCEPT ![v] = to]
    BY <1>3 DEF StartWatch, HandleDeleted, WGoto, service, queue
  <2>. QED  BY <2>1, <1>s DEF IInv, TypeOK
<1>4. ASSUME NEW v \in Workers, MarkDone(v)
      PROVE  task'[b] = "completed" \/ \E w \in Workers : build'[w] = b /\ wpc'[w] = "inspect"
  <2>1. /\ buildDone' = buildDone \cup {build[v]} /\ UNCHANGED <<task, build>>
        /\ wpc' = [wpc EXCEPT ![v] = "inspect"]
    BY <1>4 DEF MarkDone, WGoto, queue
  <2>. QED  BY <2>1, <1>s DEF IInv, TypeOK
<1>5. ASSUME NEW v \in Workers, Inspect(v)
      PROVE  task'[b] = "completed" \/ \E w \in Workers : build'[w] = b /\ wpc'[w] = "inspect"
  <2>1. /\ buildDone' = buildDone /\ task' = [task EXCEPT ![build[v]] = "completed"]
        /\ wpc' = [wpc EXCEPT ![v] = "idle"] /\ build' = [build EXCEPT ![v] = None]
    BY <1>5 DEF Inspect, Finished, service
  <2>2. b \in Builds
    BY <2>1 DEF IInv, TypeOK
  <2>3. CASE b = build[v]
    BY <2>1, <2>2, <2>3 DEF IInv, TypeOK
  <2>4. CASE b # build[v]
    BY <2>1, <2>2, <2>4, <1>s DEF IInv, TypeOK
  <2>. QED  BY <2>3, <2>4
<1>. QED
  BY <1>0, <1>1, <1>2, <1>3, <1>4, <1>5 DEF Quiet, Build, JobEnds, vars, service, queue, workers

LEMMA QuietKeepsCount ==
  ASSUME IInv, OneJob, Counted, Quiet
  PROVE  OneJob' /\ Counted'
<1>1. Started' = Started
  BY QuietKeepsStarted
<1>2. \A j \in Jobs : /\ job'[j] # None <=> job[j] # None
                      /\ job[j] # None => job'[j].build = job[j].build
  BY QuietKeepsJobs
<1>3. /\ Waiting' = Waiting
      /\ \A w \in Waiting : build'[w] = build[w]
      /\ \A w \in Workers : sawDeleted'[w] => wpc'[w] \in {"watching", "mark", "inspect"}
  BY QuietKeepsWaiting
<1>4. ASSUME NEW b PROVE HasJob(b)' <=> HasJob(b)
  BY <1>2 DEF HasJob
<1>5. Gone' = Gone
  BY <1>1, <1>4 DEF Gone
<1>6. OneJob'
  <2>1. \A j \in Jobs : job'[j] # None => job'[j].build \in Started'
    BY <1>1, <1>2 DEF OneJob
  <2>2. \A i, j \in Jobs : job'[i] # None /\ job'[j] # None /\ job'[i].build = job'[j].build => i = j
    BY <1>2 DEF OneJob
  <2>3. \A w \in Waiting' : HasJob(build[w])'
    <3>. SUFFICES ASSUME NEW w \in Waiting PROVE \E j \in Jobs : job'[j] # None /\ job'[j].build = build'[w]
      BY <1>3 DEF HasJob
    <3>1. HasJob(build[w]) /\ build'[w] = build[w]
      BY <1>3 DEF OneJob
    <3>. QED  BY <1>2, <3>1 DEF HasJob
  <2>4. \A b \in buildDone' : task'[b] = "completed" \/ \E w \in Workers : build'[w] = b /\ wpc'[w] = "inspect"
    BY QuietKeepsDone
  <2>. QED  BY <1>3, <2>1, <2>2, <2>3, <2>4 DEF OneJob
<1>7. Counted'
  BY <1>1, <1>3, <1>5 DEF Counted
<1>. QED  BY <1>6, <1>7

(* Sums of numbers of elements.                                            *)
LEMMA DisjointParts ==
  ASSUME NEW S, IsFiniteSet(S), NEW A \in SUBSET S, NEW B \in SUBSET S, A \cap B = {}
  PROVE  /\ IsFiniteSet(A) /\ IsFiniteSet(B) /\ IsFiniteSet(A \cup B)
         /\ Cardinality(A) \in Nat /\ Cardinality(B) \in Nat /\ Cardinality(S) \in Nat
         /\ Cardinality(A \cup B) = Cardinality(A) + Cardinality(B)
         /\ Cardinality(A \cup B) <= Cardinality(S)
<1>1. IsFiniteSet(A) /\ IsFiniteSet(B) /\ IsFiniteSet(A \cup B)
  BY FS_Subset
<1>2. Cardinality(A \cup B) <= Cardinality(S)
  BY FS_Subset
<1>3. Cardinality(A) \in Nat /\ Cardinality(B) \in Nat /\ Cardinality(S) \in Nat
  BY <1>1, FS_CardinalityType
<1>4. Cardinality(A \cup B) = Cardinality(A) + Cardinality(B) - Cardinality(A \cap B)
  BY <1>1, FS_Union
<1>5. Cardinality(A \cap B) = 0
  BY FS_EmptySet
<1>. QED  BY <1>1, <1>2, <1>3, <1>4, <1>5

LEMMA NoMoreThan ==
  ASSUME NEW S, NEW T, IsFiniteSet(T), NEW f \in [S -> T], \A x, y \in S : f[x] = f[y] => x = y
  PROVE  IsFiniteSet(S) /\ Cardinality(S) \in Nat /\ Cardinality(S) <= Cardinality(T)
<1>1. f \in Injection(S, T)
  BY DEF Injection, IsInjective
<1>. QED  BY <1>1, FS_Injection, FS_CardinalityType

LEMMA WaitingWorkers ==
  /\ IsFiniteSet(Waiting) /\ Cardinality(Waiting) \in Nat
  /\ Cardinality(Workers) \in Nat /\ Cardinality(Waiting) <= Cardinality(Workers)
<1>1. Waiting \in SUBSET Workers
  BY DEF Waiting
<1>2. IsFiniteSet(Waiting) /\ Cardinality(Waiting) <= Cardinality(Workers)
  BY <1>1, WorkersAssumption, FS_Subset
<1>. QED  BY <1>2, WorkersAssumption, FS_CardinalityType

(* A new job: one more build is started, and one more worker waits.        *)
LEMMA CreateJobCounts ==
  ASSUME IInv, OneJob, Counted, NEW w \in Workers, CreateJob(w)
  PROVE  OneJob' /\ Counted'
<1>b. build[w] \in Builds /\ build[w] \notin Started /\ wpc[w] = "create" /\ ~sawDeleted[w]
  BY NotStarted DEF CreateJob, WGoto, OneJob
<1>w. /\ UNCHANGED <<task, build, sawDeleted, buildDone>>
      /\ wpc' = [wpc EXCEPT ![w] = "watch"]
  BY DEF CreateJob, WGoto, service, queue
<1>1. PICK k \in Jobs :
        /\ job[k] = None
        /\ job' = [job EXCEPT ![k] = [build |-> build[w], attempt |-> retried[build[w]], over |-> FALSE]]
  BY DEF CreateJob, NewJob, FreeNames
<1>2. /\ job'[k] # None /\ job'[k].build = build[w]
      /\ \A j \in Jobs : j # k => job'[j] = job[j]
  <2>1. job'[k] = [build |-> build[w], attempt |-> retried[build[w]], over |-> FALSE]
    BY <1>1 DEF IInv, TypeOK
  <2>2. job'[k] \in Job
    BY <1>b, <2>1 DEF IInv, TypeOK, Job
  <2>. QED  BY <1>1, <2>1, <2>2, NoneAssumption DEF IInv, TypeOK
<1>3. Started' = Started \cup {build[w]}
  BY <1>b, <1>w DEF IInv, TypeOK, Started
<1>4. Waiting' = Waiting \cup {w} /\ w \notin Waiting
  BY <1>b, <1>w DEF IInv, TypeOK, Waiting
<1>5. ASSUME NEW b PROVE HasJob(b)' <=> HasJob(b) \/ b = build[w]
  BY <1>1, <1>2 DEF HasJob
<1>6. Gone' = Gone
  <2>1. \A b : b \in Gone' <=> b \in Started' /\ ~HasJob(b)'
    BY DEF Gone, Started
  <2>2. \A b : b \in Gone <=> b \in Started /\ ~HasJob(b)
    BY DEF Gone
  <2>. QED  BY <1>b, <1>3, <1>5, <2>1, <2>2
<1>7. OneJob'
  <2>1. \A j \in Jobs : job'[j] # None => job'[j].build \in Started'
    BY <1>2, <1>3 DEF OneJob
  <2>2. \A i, j \in Jobs : job'[i] # None /\ job'[j] # None /\ job'[i].build = job'[j].build => i = j
    BY <1>b, <1>2 DEF OneJob
  <2>3. \A v \in Waiting' : HasJob(build[v])'
    <3>1. \A v \in Waiting : HasJob(build[v])
      BY DEF OneJob
    <3>. QED  BY <1>w, <1>4, <1>5, <3>1
  <2>4. \A v \in Workers : sawDeleted'[v] => wpc'[v] \in {"watching", "mark", "inspect"}
    BY <1>b, <1>w DEF IInv, TypeOK, OneJob
  <2>5. \A b \in buildDone' : task'[b] = "completed" \/ \E v \in Workers : build'[v] = b /\ wpc'[v] = "inspect"
    BY <1>b, <1>w DEF IInv, TypeOK, OneJob
  <2>. QED  BY <2>1, <2>2, <2>3, <2>4, <2>5 DEF OneJob
<1>8. Counted'
  <2>1. /\ IsFiniteSet(Started')
        /\ Cardinality(Started') = Cardinality(Started) + 1 /\ Cardinality(Started) \in Nat
    BY <1>b, <1>3, FS_AddElement, FS_CardinalityType DEF Counted
  <2>2. Cardinality(Waiting') = Cardinality(Waiting) + 1 /\ Cardinality(Waiting) \in Nat
    BY <1>4, WaitingWorkers, FS_AddElement
  <2>3. Cardinality(Gone) \in Nat /\ Cardinality(Workers) \in Nat
    BY WaitingWorkers, FS_Subset, FS_CardinalityType DEF Counted, Gone
  <2>4. Cardinality(Started) <= Cardinality(Workers) * Cardinality(Gone) + Cardinality(Waiting)
    BY DEF Counted
  <2>5. Cardinality(Workers) * Cardinality(Gone) \in Nat
    BY <2>3
  <2>6. Cardinality(Started') <= Cardinality(Workers) * Cardinality(Gone) + Cardinality(Waiting')
    BY <2>1, <2>2, <2>4, <2>5
  <2>. QED  BY <1>6, <2>1, <2>6 DEF Counted
<1>. QED  BY <1>7, <1>8

(* A deleted job: the workers that watch, all of them at most, wait no     *)
(* more; and one more of the started builds has no job.                    *)
LEMMA JobDeletedCounts ==
  ASSUME Faults = {}, IInv, OneJob, Counted, NEW k \in Jobs, JobDeleted(k)
  PROVE  OneJob' /\ Counted'
<1>b. /\ job[k] # None /\ job[k].build \in Started
      /\ \A w \in Workers : ~(wpc[w] = "watch" /\ build[w] = job[k].build)
  BY DEF JobDeleted, OneJob
<1>w. /\ UNCHANGED <<task, build, wpc, buildDone>>
      /\ sawDeleted' = [w \in Workers |-> sawDeleted[w] \/ wpc[w] = "watching"]
  BY DEF JobDeleted, service, queue
<1>1. job' = [job EXCEPT ![k] = None]
  BY DEF JobDeleted
<1>2. /\ job'[k] = None
      /\ \A j \in Jobs : j # k => job'[j] = job[j]
  BY <1>1 DEF IInv, TypeOK
<1>3. Started' = Started
  BY <1>w DEF Started
<1>4. \A w \in Waiting' : w \in Waiting /\ wpc[w] = "watch"
  BY <1>w DEF Waiting
<1>5. ASSUME NEW b PROVE HasJob(b)' <=> HasJob(b) /\ b # job[k].build
  BY <1>b, <1>2 DEF HasJob, OneJob
<1>6. Gone' = Gone \cup {job[k].build} /\ job[k].build \notin Gone
  <2>1. \A b : b \in Gone' <=> b \in Started' /\ ~HasJob(b)'
    BY DEF Gone, Started
  <2>2. \A b : b \in Gone <=> b \in Started /\ ~HasJob(b)
    BY DEF Gone
  <2>3. HasJob(job[k].build)
    BY <1>b DEF HasJob
  <2>. QED  BY <1>b, <1>3, <1>5, <2>1, <2>2, <2>3
<1>7. OneJob'
  <2>1. \A j \in Jobs : job'[j] # None => job'[j].build \in Started'
    BY <1>2, <1>3 DEF OneJob
  <2>2. \A i, j \in Jobs : job'[i] # None /\ job'[j] # None /\ job'[i].build = job'[j].build => i = j
    BY <1>2 DEF OneJob
  <2>3. \A v \in Waiting' : HasJob(build[v])'
    <3>1. \A v \in Waiting : HasJob(build[v])
      BY DEF OneJob
    <3>2. \A v \in Waiting' : v \in Workers /\ build[v] # job[k].build
      BY <1>b, <1>4 DEF Waiting
    <3>. QED  BY <1>w, <1>4, <1>5, <3>1, <3>2
  <2>4. \A v \in Workers : sawDeleted'[v] => wpc'[v] \in {"watching", "mark", "inspect"}
    BY <1>w DEF OneJob
  <2>5. \A b \in buildDone' : task'[b] = "completed" \/ \E v \in Workers : build'[v] = b /\ wpc'[v] = "inspect"
    BY <1>w DEF OneJob
  <2>. QED  BY <2>1, <2>2, <2>3, <2>4, <2>5 DEF OneJob
<1>8. Counted'
  <2>1. IsFiniteSet(Started') /\ Cardinality(Started') = Cardinality(Started) /\ Cardinality(Started) \in Nat
    BY <1>3, FS_CardinalityType DEF Counted
  <2>2. IsFiniteSet(Gone) /\ Cardinality(Gone) \in Nat
    BY FS_Subset, FS_CardinalityType DEF Counted, Gone
  <2>3. Cardinality(Gone') = Cardinality(Gone) + 1
    BY <1>6, <2>2, FS_AddElement
  <2>4. /\ Cardinality(Workers) \in Nat /\ Cardinality(Waiting) \in Nat
        /\ Cardinality(Waiting) <= Cardinality(Workers)
    BY WaitingWorkers
  <2>5. Cardinality(Waiting') \in Nat
    <3>1. Waiting' \in SUBSET Waiting
      BY <1>4
    <3>. QED  BY <3>1, WaitingWorkers, FS_Subset, FS_CardinalityType
  <2>6. Cardinality(Started) <= Cardinality(Workers) * Cardinality(Gone) + Cardinality(Waiting)
    BY DEF Counted
  <2>7. /\ Cardinality(Workers) * Cardinality(Gone) \in Nat
        /\ Cardinality(Workers) * (Cardinality(Gone) + 1)
           = Cardinality(Workers) * Cardinality(Gone) + Cardinality(Workers)
    BY <2>2, <2>4
  <2>8. Cardinality(Started') <= Cardinality(Workers) * Cardinality(Gone') + Cardinality(Waiting')
    BY <2>1, <2>3, <2>4, <2>5, <2>6, <2>7
  <2>. QED  BY <2>1, <2>8 DEF Counted
<1>. QED  BY <1>7, <1>8

(* For any number of workers, and when nothing fails: each build has one   *)
(* job, deleted after the wait for it has begun; and no more builds are    *)
(* started than waits have been ended by deletions, or still go on.        *)
THEOREM SharedInvariance ==
  ASSUME Faults = {}
  PROVE  Spec => []SharedInv
<1>1. ~RestartStep /\ "pods" \notin Faults
  BY DEF RestartStep, Crash, EnqueueFails, JobFails, Shutdown
<1>2. SharedInv /\ [Next]_vars => SharedInv'
  <2>. SUFFICES ASSUME SharedInv, [Next]_vars PROVE SharedInv'
    OBVIOUS
  <2>1. IInv' /\ Kept' /\ Ended'
    BY <1>1, NextIInv, NextKept, NextEnded DEF SharedInv
  <2>2. OneJob' /\ Counted'
    BY FaultlessSteps, QuietKeepsCount, CreateJobCounts, JobDeletedCounts DEF SharedInv
  <2>. QED  BY <2>1, <2>2 DEF SharedInv
<1>3. Init => SharedInv
  <2>. SUFFICES ASSUME Init PROVE OneJob /\ Counted
    BY InitIInv, InitKept DEF SharedInv
  <2>1. Started = {} /\ Waiting = {}
    BY NoneAssumption DEF Init, Started, Waiting
  <2>2. OneJob
    BY <2>1 DEF Init, OneJob
  <2>3. Counted
    <3>1. Gone = {}
      BY <2>1 DEF Gone
    <3>2. Cardinality({}) = 0 /\ IsFiniteSet({}) /\ Cardinality(Workers) \in Nat
      BY FS_EmptySet, WaitingWorkers
    <3>. QED  BY <2>1, <3>1, <3>2 DEF Counted
  <2>. QED  BY <2>2, <2>3
<1>. QED  BY <1>2, <1>3, PTL DEF Spec

(* For any number of workers, and when nothing fails: a build that is said *)
(* to be done while its job still runs is accounted for by a deletion that *)
(* ended the wait for it.                                                  *)
THEOREM EarlyAlwaysBounded ==
  ASSUME Faults = {}
  PROVE  Spec => []EarlyBounded
<1>1. SharedInv => EarlyBounded
  <2>. SUFFICES ASSUME SharedInv PROVE EarlyBounded
    OBVIOUS
  <2>. USE DEF SharedInv
  <2>. DEFINE Waits == {build[w] : w \in Waiting}
  <2>1. Early \in SUBSET Started /\ Gone \in SUBSET Started /\ Early \cap Gone = {}
    <3>1. ASSUME NEW b \in Early PROVE b \in Started /\ HasJob(b)
      BY <3>1 DEF Early, Running, OneJob, HasJob
    <3>. QED  BY <3>1 DEF Gone
  <2>2. Waits \in SUBSET Started /\ Waits \cap Gone = {} /\ Waits \cap Early = {}
    <3>1. ASSUME NEW w \in Waiting
          PROVE  build[w] \in Started /\ HasJob(build[w]) /\ build[w] \notin Early
      <4>1. w \in Workers /\ wpc[w] \in {"watch", "watching"}
        BY DEF Waiting
      <4>2. /\ build[w] \in Builds /\ build[w] # None /\ task[build[w]] = "active"
            /\ \A v \in Workers : build[v] = build[w] => v = w
        BY <4>1, AtWork DEF IInv, WorkersOK
      <4>3. build[w] \notin buildDone
        BY <4>1, <4>2 DEF OneJob
      <4>. QED  BY <4>1, <4>2, <4>3 DEF Started, OneJob, Early, GetOperation
    <3>. QED  BY <3>1 DEF Gone
  <2>3. Cardinality(Waiting) <= Cardinality(Waits)
    <3>1. IsFiniteSet(Waits)
      BY <2>2, FS_Subset DEF Counted
    <3>. DEFINE f == [w \in Waiting |-> build[w]]
    <3>2. f \in [Waiting -> Waits]
      OBVIOUS
    <3>3. ASSUME NEW v \in Waiting, NEW w \in Waiting, f[v] = f[w] PROVE v = w
      <4>1. build[w] # None /\ v \in Workers /\ w \in Workers /\ build[v] = build[w]
        BY <3>3, AtWork DEF Waiting
      <4>. QED  BY <4>1 DEF IInv, WorkersOK
    <3>. HIDE DEF f, Waits
    <3>. QED  BY <3>1, <3>2, <3>3, NoMoreThan
  <2>4. /\ Cardinality(Early) \in Nat /\ Cardinality(Gone) \in Nat
        /\ Cardinality(Early \cup Gone) = Cardinality(Early) + Cardinality(Gone)
    BY <2>1, DisjointParts DEF Counted
  <2>5. /\ Cardinality(Waits) \in Nat /\ Cardinality(Started) \in Nat
        /\ Cardinality(Early \cup Gone) + Cardinality(Waits) <= Cardinality(Started)
    <3>. DEFINE Others == Early \cup Gone
    <3>1. /\ Others \in SUBSET Started /\ Waits \in SUBSET Started
          /\ Others \cap Waits = {} /\ IsFiniteSet(Started)
      BY <2>1, <2>2 DEF Counted
    <3>2. /\ Cardinality(Waits) \in Nat /\ Cardinality(Started) \in Nat
          /\ Cardinality(Others) + Cardinality(Waits) <= Cardinality(Started)
      <4>. HIDE DEF Others, Waits
      <4>1. /\ Cardinality(Waits) \in Nat /\ Cardinality(Started) \in Nat
            /\ Cardinality(Others \cup Waits) = Cardinality(Others) + Cardinality(Waits)
            /\ Cardinality(Others \cup Waits) <= Cardinality(Started)
        BY <3>1, DisjointParts
      <4>. QED  BY <4>1
    <3>. QED  BY <3>2
  <2>6. /\ Cardinality(Waiting) \in Nat
        /\ Cardinality(Workers) * Cardinality(Gone) \in Nat
    BY <2>4, WaitingWorkers
  <2>7. Cardinality(Started) <= Cardinality(Workers) * Cardinality(Gone) + Cardinality(Waiting)
    BY DEF Counted
  <2>8. Cardinality(Early) + Cardinality(Gone) <= Cardinality(Workers) * Cardinality(Gone)
    <3>. HIDE DEF Waits
    <3>. QED  BY <2>3, <2>4, <2>5, <2>6, <2>7
  <2>. QED  BY <2>8 DEF EarlyBounded
<1>. QED  BY <1>1, SharedInvariance, PTL

(* For any number of workers, and when nothing fails: the image builds     *)
(* that run at a time are bounded by the jobs that have been deleted.      *)
THEOREM JobsAlwaysBounded ==
  ASSUME Faults = {}
  PROVE  Spec => []JobsBounded
<1>1. SharedInv => JobsBounded
  <2>. SUFFICES ASSUME SharedInv PROVE JobsBounded
    OBVIOUS
  <2>. USE DEF SharedInv
  <2>. DEFINE Built == {job[j].build : j \in Running}
  <2>1. Built \in SUBSET Started /\ Gone \in SUBSET Started /\ Built \cap Gone = {}
    <3>1. ASSUME NEW j \in Running PROVE job[j].build \in Started /\ HasJob(job[j].build)
      BY DEF Running, OneJob, HasJob
    <3>. QED  BY <3>1 DEF Gone
  <2>2. /\ Cardinality(Built) \in Nat /\ Cardinality(Gone) \in Nat /\ Cardinality(Started) \in Nat
        /\ Cardinality(Built) + Cardinality(Gone) <= Cardinality(Started)
    <3>1. /\ Cardinality(Built) \in Nat /\ Cardinality(Gone) \in Nat /\ Cardinality(Started) \in Nat
          /\ Cardinality(Built \cup Gone) = Cardinality(Built) + Cardinality(Gone)
          /\ Cardinality(Built \cup Gone) <= Cardinality(Started)
      BY <2>1, DisjointParts DEF Counted
    <3>. QED  BY <3>1
  <2>3. Cardinality(Running) \in Nat /\ Cardinality(Running) <= Cardinality(Built)
    <3>1. IsFiniteSet(Built)
      BY <2>1, FS_Subset DEF Counted
    <3>. DEFINE f == [j \in Running |-> job[j].build]
    <3>2. f \in [Running -> Built]
      OBVIOUS
    <3>3. \A i, j \in Running : f[i] = f[j] => i = j
      BY DEF Running, OneJob
    <3>. HIDE DEF f, Built
    <3>. QED  BY <3>1, <3>2, <3>3, NoMoreThan
  <2>4. /\ Cardinality(Workers) \in Nat /\ Cardinality(Waiting) \in Nat
        /\ Cardinality(Waiting) <= Cardinality(Workers)
    BY WaitingWorkers
  <2>5. /\ Cardinality(Workers) * Cardinality(Gone) \in Nat
        /\ Cardinality(Workers) * (Cardinality(Gone) + 1)
           = Cardinality(Workers) * Cardinality(Gone) + Cardinality(Workers)
    BY <2>2, <2>4
  <2>6. Cardinality(Started) <= Cardinality(Workers) * Cardinality(Gone) + Cardinality(Waiting)
    BY DEF Counted
  <2>7. Cardinality(Running) + Cardinality(Gone) <= Cardinality(Workers) * (Cardinality(Gone) + 1)
    <3>. HIDE DEF Built
    <3>. QED  BY <2>2, <2>3, <2>4, <2>5, <2>6
  <2>. QED  BY <2>7 DEF JobsBounded
<1>. QED  BY <1>1, SharedInvariance, PTL
=============================================================================
