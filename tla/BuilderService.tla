--------------------------- MODULE BuilderService ---------------------------
(***************************************************************************)
(* The builder service, cmd/builder/main.go.  Build queues a task (asynq,  *)
(* on Redis) and answers at once; a worker of the same process takes the   *)
(* task, creates a Kubernetes job that builds and pushes the image, and    *)
(* watches the jobs of the namespace until it takes the build to be over;  *)
(* GetOperation tells whether it is.                                       *)
(*                                                                         *)
(* What is done and what was asked for is kept in two maps of the process. *)
(* The database rows Build writes are never read, and not modelled.  The   *)
(* queue, the jobs and the image registry survive a restart; they are      *)
(* modelled by what this code uses of them.                                *)
(*                                                                         *)
(* A definition marked "Mutant" is a plausible mistake in the one after    *)
(* it, there to be put in its place to see that a property notices.        *)
(***************************************************************************)
EXTENDS Naturals, FiniteSets

CONSTANTS Builds,    \* build ids (UUIDs), also the tags of their images
          Workers,   \* the asynq server's workers (Concurrency)
          Works,     \* what can be asked for: commit, branch and targets
          NoImage,   \* the image named by an empty BuildInfo
          None,      \* absence of a work, of a build, or of an image
          MaxRetry,  \* how often asynq retries a task
          MaxJobs,   \* bound of the model: jobs that exist at a time
          Faults     \* which faults happen, see below

(* "crash": the process is killed.  "shutdown": it is asked to end.        *)
(* "redis": Enqueue fails.  "k8s": a job cannot be created or watched.     *)
(* "pods": the pods cannot be listed.  "registry": the registry does not   *)
(* answer.  "slow": a job outlasts the 600 s of the watch, or is gone,     *)
(* 10 s after its end, before the watch has begun.                         *)
ASSUME FaultsAssumption ==
  Faults \subseteq {"crash", "shutdown", "redis", "k8s", "pods", "registry", "slow"}

(* A Kubernetes job is one attempt at a build, and it is running or over.  *)
(* Its name (GenerateName) is one that no existing job has.  An attempt is *)
(* known by the retries there were before it; those between which none was *)
(* counted are not told apart.                                             *)
Jobs     == 1 .. MaxJobs
Attempts == 0 .. MaxRetry
Job      == [build : Builds, attempt : Attempts, over : BOOLEAN]

ASSUME BoundsAssumption == MaxRetry \in Nat /\ MaxJobs \in Nat
ASSUME WorkersAssumption == IsFiniteSet(Workers)
ASSUME NoneAssumption == None \notin Builds \cup Works \cup Job \cup Attempts \cup {NoImage}

VARIABLES
  buildInfo,    \* the builds with an entry in the map buildInfo
  buildDone,    \* the builds that are true in the map buildDone
  accepting,    \* what the Build calls in progress were asked for
  task,         \* the task of a build, in the queue
  payload,      \* what the task says is to be built
  retried,      \* how often the task was retried
  wpc, build,   \* per worker: where it is, and in which build
  sawDeleted,   \* per worker: a DELETED event is waiting in its watch
  job,          \* the Kubernetes jobs, by name
  registry      \* the image of a build: the attempt that pushed it last

service == <<buildInfo, buildDone, accepting>>
queue   == <<task, payload, retried>>
workers == <<wpc, build, sawDeleted>>
cluster == <<job, registry>>
vars    == <<service, queue, workers, cluster>>

TypeOK ==
  /\ buildInfo \in SUBSET Builds
  /\ buildDone \in SUBSET Builds
  /\ accepting \in [Builds -> Works \cup {None}]
  /\ task \in [Builds -> {"none", "pending", "active", "completed", "archived"}]
  /\ payload \in [Builds -> Works \cup {None}]
  /\ retried \in [Builds -> Attempts]
  /\ wpc \in [Workers -> {"idle", "create", "watch", "watching", "mark", "inspect"}]
  /\ build \in [Workers -> Builds \cup {None}]
  /\ sawDeleted \in [Workers -> BOOLEAN]
  /\ job \in [Jobs -> Job \cup {None}]
  /\ registry \in [Builds -> Attempts \cup {None}]

Init ==
  /\ buildInfo = {}
  /\ buildDone = {}
  /\ accepting = [b \in Builds |-> None]
  /\ task = [b \in Builds |-> "none"]
  /\ payload = [b \in Builds |-> None]
  /\ retried = [b \in Builds |-> 0]
  /\ wpc = [w \in Workers |-> "idle"]
  /\ build = [w \in Workers |-> None]
  /\ sawDeleted = [w \in Workers |-> FALSE]
  /\ job = [j \in Jobs |-> None]
  /\ registry = [b \in Builds |-> None]

-----------------------------------------------------------------------------
(* The calls of the service.                                               *)

(* Build draws a fresh id and notes what the build is about.               *)
Build(b, w) ==
  /\ accepting[b] = None
  /\ task[b] = "none"
  /\ b \notin buildInfo
  /\ buildInfo' = buildInfo \cup {b}
  /\ accepting' = [accepting EXCEPT ![b] = w]
  /\ UNCHANGED <<buildDone, queue, workers, cluster>>

(* It queues the task and returns the operation.                           *)
Enqueue(b) ==
  /\ accepting[b] # None
  /\ task' = [task EXCEPT ![b] = "pending"]
  /\ payload' = [payload EXCEPT ![b] = accepting[b]]
  /\ accepting' = [accepting EXCEPT ![b] = None]
  /\ UNCHANGED <<buildInfo, buildDone, retried, workers, cluster>>

(* GetOperation changes nothing.  Of a done build it tells the image noted *)
(* in buildInfo, an empty one if there is no entry, and the digest of what *)
(* the registry has under that name now, if anything.                      *)
ImageOf(b) == IF b \in buildInfo THEN b ELSE NoImage

GetOperation(b) ==
  [done   |-> b \in buildDone,
   image  |-> IF b \in buildDone THEN ImageOf(b) ELSE None,
   digest |-> IF b \in buildDone \cap buildInfo THEN registry[b] ELSE None]

-----------------------------------------------------------------------------
(* A worker.                                                               *)

WGoto(w, from, to) ==
  /\ wpc[w] = from
  /\ wpc' = [wpc EXCEPT ![w] = to]

(* asynq: the worker takes a task.                                         *)
Dequeue(w, b) ==
  /\ WGoto(w, "idle", "create")
  /\ task[b] = "pending"
  /\ task' = [task EXCEPT ![b] = "active"]
  /\ build' = [build EXCEPT ![w] = b]
  /\ UNCHANGED <<service, payload, retried, sawDeleted, cluster>>

(* The cluster gets one more job, for the attempt at build b.              *)
FreeNames == {j \in Jobs : job[j] = None}

NewJob(b) ==
  \E j \in FreeNames :
    /\ \A i \in FreeNames : j <= i
    /\ job' = [job EXCEPT ![j] = [build |-> b, attempt |-> retried[b], over |-> FALSE]]

(* Mutant: done as soon as the job exists.                                 *)
CreateJobDone(w) ==
  /\ WGoto(w, "create", "watch")
  /\ NewJob(build[w])
  /\ buildDone' = buildDone \cup {build[w]}
  /\ UNCHANGED <<buildInfo, accepting, queue, build, sawDeleted, registry>>

CreateJob(w) ==
  /\ WGoto(w, "create", "watch")
  /\ NewJob(build[w])
  /\ UNCHANGED <<service, queue, build, sawDeleted, registry>>

(* Mutant: the watch replays old events, such as the end of a task's job.  *)
StartWatchReplays(w) ==
  /\ WGoto(w, "watch", "watching")
  /\ sawDeleted' = [sawDeleted EXCEPT ![w] = \E b \in Builds : task[b] = "completed"]
  /\ UNCHANGED <<service, queue, build, cluster>>

(* The watch is not about the job just created: it sees every job.         *)
StartWatch(w) ==
  /\ WGoto(w, "watch", "watching")
  /\ sawDeleted' = [sawDeleted EXCEPT ![w] = FALSE]
  /\ UNCHANGED <<service, queue, build, cluster>>

(* Mutant: any event ends the loop.                                        *)
HandleAny(w) ==
  /\ WGoto(w, "watching", "mark")
  /\ UNCHANGED <<service, queue, build, sawDeleted, cluster>>

(* Mutant: the loop returns instead of breaking.                           *)
HandleDeletedReturns(w) ==
  /\ sawDeleted[w]
  /\ WGoto(w, "watching", "inspect")
  /\ UNCHANGED <<service, queue, build, sawDeleted, cluster>>

(* The loop ends at the first DELETED event, be it of another build's job. *)
(* Other events are skipped.                                               *)
HandleDeleted(w) ==
  /\ sawDeleted[w]
  /\ WGoto(w, "watching", "mark")
  /\ UNCHANGED <<service, queue, build, sawDeleted, cluster>>

(* Mutant: the watch is opened without a timeout.                          *)
WatchForever(w) == FALSE

(* The server closes the watch, which ends the loop too.                   *)
WatchTimeout(w) ==
  /\ "slow" \in Faults
  /\ WGoto(w, "watching", "mark")
  /\ UNCHANGED <<service, queue, build, sawDeleted, cluster>>

(* asynq: the handler of worker w is over; the task is left in state s.    *)
Finished(w, s) ==
  /\ wpc' = [wpc EXCEPT ![w] = "idle"]
  /\ build' = [build EXCEPT ![w] = None]
  /\ sawDeleted' = [sawDeleted EXCEPT ![w] = FALSE]
  /\ task' = [task EXCEPT ![build[w]] = s]
  /\ UNCHANGED payload

(* On any event the pods are listed first.  If that fails build returns,   *)
(* and its caller reports success.                                         *)
PodListFails(w) ==
  /\ "pods" \in Faults
  /\ wpc[w] = "watching"
  /\ Finished(w, "completed")
  /\ UNCHANGED <<service, retried, cluster>>

(* Mutant: the entry of a done build is dropped from buildInfo.            *)
MarkDoneForgets(w) ==
  /\ WGoto(w, "mark", "inspect")
  /\ buildDone' = buildDone \cup {build[w]}
  /\ buildInfo' = buildInfo \ {build[w]}
  /\ UNCHANGED <<accepting, queue, build, sawDeleted, cluster>>

MarkDone(w) ==
  /\ WGoto(w, "mark", "inspect")
  /\ buildDone' = buildDone \cup {build[w]}
  /\ UNCHANGED <<buildInfo, accepting, queue, build, sawDeleted, cluster>>

(* Mutant: what is known of a build is dropped when its task is over.      *)
InspectForgets(w) ==
  /\ wpc[w] = "inspect"
  /\ Finished(w, "completed")
  /\ buildInfo' = buildInfo \ {build[w]}
  /\ UNCHANGED <<buildDone, accepting, retried, cluster>>

(* playWithDocker and the last list of the pods, which only log.           *)
Inspect(w) ==
  /\ wpc[w] = "inspect"
  /\ Finished(w, "completed")
  /\ UNCHANGED <<service, retried, cluster>>

(* What becomes of a task whose attempt failed.                            *)
AfterFailure(b) == IF retried[b] < MaxRetry THEN "pending" ELSE "archived"

(* Mutants: one retry too many is counted; none is.                        *)
CountRetryTooFar(b) == retried' = [retried EXCEPT ![b] = retried[b] + 1]
CountRetryNever(b)  == UNCHANGED retried

CountRetry(b) ==
  retried' = [retried EXCEPT ![b] = IF retried[b] < MaxRetry THEN retried[b] + 1 ELSE retried[b]]

(* No connection to the registry: playWithDocker uses it all the same and  *)
(* panics; asynq recovers and sees a failed attempt.                       *)
InspectPanics(w) ==
  /\ "registry" \in Faults
  /\ wpc[w] = "inspect"
  /\ CountRetry(build[w])
  /\ Finished(w, AfterFailure(build[w]))
  /\ UNCHANGED <<service, cluster>>

-----------------------------------------------------------------------------
(* Kubernetes.                                                             *)

(* The job's only pod (backoffLimit 0) ends; if it succeeds it has pushed  *)
(* the image, over what another job may have pushed for this build.        *)
JobEnds(j) ==
  /\ job[j] # None
  /\ ~job[j].over
  /\ job' = [job EXCEPT ![j].over = TRUE]
  /\ registry' \in {registry, [registry EXCEPT ![job[j].build] = job[j].attempt]}
  /\ UNCHANGED <<service, queue, workers>>

(* 10 s after its end the job is deleted, and every watch is told.         *)
JobDeleted(j) ==
  /\ job[j] # None
  /\ job[j].over
  /\ "slow" \in Faults \/ \A w \in Workers : ~(wpc[w] = "watch" /\ build[w] = job[j].build)
  /\ job' = [job EXCEPT ![j] = None]
  /\ sawDeleted' = [w \in Workers |-> sawDeleted[w] \/ wpc[w] = "watching"]
  /\ UNCHANGED <<service, queue, wpc, build, registry>>

-----------------------------------------------------------------------------
(* The process ends and is started again: the maps are empty, the calls    *)
(* and the workers gone.                                                   *)
MemoryGone ==
  /\ buildInfo' = {}
  /\ buildDone' = {}
  /\ accepting' = [b \in Builds |-> None]
  /\ wpc' = [w \in Workers |-> "idle"]
  /\ build' = [w \in Workers |-> None]
  /\ sawDeleted' = [w \in Workers |-> FALSE]

Restart == MemoryGone /\ UNCHANGED <<queue, cluster>>

Crash        == "crash" \in Faults /\ Restart
EnqueueFails == "redis" \in Faults /\ (\E b \in Builds : accepting[b] # None) /\ Restart
JobFails     == "k8s" \in Faults /\ (\E w \in Workers : wpc[w] \in {"create", "watch"}) /\ Restart

(* Mutant: the queue's memory of the tasks goes too.                       *)
ShutdownDrains ==
  /\ "shutdown" \in Faults
  /\ \A b \in Builds : accepting[b] = None
  /\ task' = [b \in Builds |-> "none"]
  /\ MemoryGone
  /\ UNCHANGED <<payload, retried, cluster>>

(* SIGTERM reaches the gRPC server, which lets the calls in progress end,  *)
(* and asynq, which gives its workers 8 s and then puts their tasks back,  *)
(* no retry counted.  But main, and so the process, ends with the gRPC     *)
(* server: usually before asynq has put back all of them, or any.          *)
Shutdown ==
  /\ "shutdown" \in Faults
  /\ \A b \in Builds : accepting[b] = None
  /\ \E back \in SUBSET {build[w] : w \in Workers} :
       task' = [b \in Builds |-> IF b \in back THEN "pending" ELSE task[b]]
  /\ MemoryGone
  /\ UNCHANGED <<payload, retried, cluster>>

(* Mutant: the lease of a task runs out although its worker is at work.    *)
RecoverBusy(b) ==
  /\ task[b] = "active"
  /\ task' = [task EXCEPT ![b] = AfterFailure(b)]
  /\ CountRetry(b)
  /\ UNCHANGED <<service, payload, workers, cluster>>

(* asynq: the lease of a task whose worker is gone runs out.               *)
Recover(b) ==
  /\ task[b] = "active"
  /\ \A w \in Workers : build[w] # b
  /\ task' = [task EXCEPT ![b] = AfterFailure(b)]
  /\ CountRetry(b)
  /\ UNCHANGED <<service, payload, workers, cluster>>

WorkerStep(w) ==
  \/ CreateJob(w) \/ StartWatch(w) \/ HandleDeleted(w) \/ WatchTimeout(w)
  \/ PodListFails(w) \/ MarkDone(w) \/ Inspect(w) \/ InspectPanics(w)

Next ==
  \/ \E b \in Builds : \/ \E w \in Works : Build(b, w)
                       \/ Enqueue(b)
                       \/ Recover(b)
                       \/ \E w \in Workers : Dequeue(w, b)
  \/ \E w \in Workers : WorkerStep(w)
  \/ \E j \in Jobs : JobEnds(j) \/ JobDeleted(j)
  \/ Crash \/ EnqueueFails \/ JobFails \/ Shutdown

Spec == Init /\ [][Next]_vars

(* Workers run and take tasks, asynq recovers tasks, and Kubernetes ends   *)
(* and then deletes the jobs.  Nothing is assumed of clients or faults.    *)
Fairness ==
  /\ \A w \in Workers : WF_vars(WorkerStep(w))
  /\ \A b \in Builds : /\ WF_vars(\E w \in Workers : Dequeue(w, b))
                       /\ WF_vars(Recover(b))
  /\ \A j \in Jobs : WF_vars(JobEnds(j)) /\ WF_vars(JobDeleted(j))

FairSpec == Spec /\ Fairness

-----------------------------------------------------------------------------
Running == {j \in Jobs : job[j] # None /\ ~job[j].over}

(* Builds a job was created for, as long as none is retried; those of them *)
(* whose job has been deleted.                                             *)
Started == {b \in Builds : \/ task[b] = "completed"
                           \/ \E w \in Workers : build[w] = b /\ wpc[w] # "create"}
HasJob(b) == \E j \in Jobs : job[j] # None /\ job[j].build = b
Gone == {b \in Started : ~HasJob(b)}

(* Builds that GetOperation says are done while their job is running.      *)
Early == {b \in Builds : GetOperation(b).done /\ \E j \in Running : job[j].build = b}

(* A worker stops at the first DELETED event it sees, and nothing in the   *)
(* event says whose job it was.  So builds are said to be done too early;  *)
(* but when nothing fails no more than the deletions account for: one of a *)
(* job ends the wait of each worker once, and so makes as many builds done *)
(* as there are workers, its own among them.                               *)
EarlyBounded ==
  Cardinality(Early) + Cardinality(Gone) <= Cardinality(Workers) * Cardinality(Gone)

(* Freed too early, the workers start jobs beside those that still run.    *)
(* How many run is bounded by what has been deleted, and not, as it should *)
(* be, by the number of workers alone (BuildsBounded).                     *)
JobsBounded ==
  Cardinality(Running) + Cardinality(Gone) <= Cardinality(Workers) * (Cardinality(Gone) + 1)

(* The cluster never runs more image builds than there are workers: a      *)
(* worker takes the next task only when its job is over.                   *)
BuildsBounded == Cardinality(Running) <= Cardinality(Workers)

(* The task of b is over, b is said to be done, and none of its jobs, of   *)
(* which a retry may have made a second one, is still to push its image.   *)
Final(b) ==
  /\ task[b] \in {"completed", "archived"}
  /\ GetOperation(b).done
  /\ \A j \in Running : job[j].build # b

(* Without a restart the answer changes no more once that is so: nobody    *)
(* starts another job for b.  Before, the digest can come after the done,  *)
(* when b was done too early, and another one can take its place, when a   *)
(* retried attempt pushes the same tag; the cache keeps the first answer.  *)
AnswerFinal ==
  [][\A b \in Builds : Final(b) => Final(b)' /\ GetOperation(b)' = GetOperation(b)]_vars

(* And it comes to that, whatever was retried and however early the done.  *)
AnswerSettles == \A b \in Builds : GetOperation(b).done ~> Final(b)

(* A client can rely on the queue: a completed task has a done operation,  *)
(* or nobody would ever be told the end of the build.                      *)
CompletedIsDone == \A b \in Builds : task[b] = "completed" => GetOperation(b).done

(* The image told is the build's own, which the cache will serve for good, *)
(* and not the empty one of a build that is not known: whatever was        *)
(* retried, the process still knows what it was asked for.                 *)
DoneHasImage == \A b \in Builds : GetOperation(b).done => GetOperation(b).image = b

(* The builder as a server of operations: an operation is pending once     *)
(* Build has returned.                                                     *)
Stage(b) == CASE GetOperation(b).done -> "done"
              [] task[b] # "none" /\ ~GetOperation(b).done -> "pending"
              [] OTHER -> "unknown"

Served == INSTANCE Operations WITH
  Names <- Builds, Results <- Builds \cup {NoImage},
  state  <- [b \in Builds |-> Stage(b)],
  work   <- payload,
  result <- [b \in Builds |-> GetOperation(b).image]

(* Without a restart, for any number of workers and with all other faults, *)
(* it keeps the promise of the API: an operation gets its image once.      *)
ImplementsOperations == Served!OpSpec

(* With restarts at any step, orderly or not, it is a server that may at   *)
(* any time forget what is done, which is what the cache expects of it; it *)
(* never forgets, or mixes up, what a build was started for.               *)
ImplementsForgetful == Served!ForgetfulSpec

(* Without restarts, and as long as pods can be listed, every build that   *)
(* was queued is done in the end, although a worker can miss the event     *)
(* that tells of its job's end.                                            *)
EventuallyDone == \A b \in Builds : task[b] = "pending" ~> GetOperation(b).done

(* Whatever fails and however often the process is killed, a queued task   *)
(* is not tried forever: it ends up completed or archived.  Only being     *)
(* shut down in good order again and again, and handing the task back each *)
(* time, which costs it no retry, can keep it from that.                   *)
EventuallySettled ==
  <>[][~Shutdown]_vars =>
    \A b \in Builds : task[b] = "pending" ~> task[b] \in {"completed", "archived"}

(* How far a task is from being settled: the attempts it has left, and how *)
(* far it is in the one at hand.                                           *)
Stages == [none |-> 4, pending |-> 3, active |-> 2, completed |-> 0, archived |-> 0]
Remaining(b) == 4 * (MaxRetry - retried[b]) + Stages[task[b]]

(* What EventuallySettled rests on, whatever fails: a task only ever gets  *)
(* closer to its end, be it by a retry after a panic or after its lease    *)
(* has run out, except that an orderly shutdown may undo its dequeuing.    *)
AttemptsRunOut ==
  [][\A b \in Builds :
       \/ Remaining(b)' < Remaining(b)
       \/ task'[b] = task[b] /\ retried'[b] = retried[b]
       \/ Shutdown /\ task[b] = "active" /\ task'[b] = "pending" /\ retried'[b] = retried[b]]_vars

-----------------------------------------------------------------------------
(* The inductive invariant behind the refinement.                          *)

(* A worker is in the build of an active task that no other worker has.    *)
WorkersOK ==
  \A w \in Workers :
    /\ wpc[w] = "idle" <=> build[w] = None
    /\ build[w] # None => task[build[w]] = "active"
    /\ \A v \in Workers : build[v] = build[w] /\ build[w] # None => v = w

(* What was queued says what it is for; what is being accepted was not     *)
(* queued yet, and what is done was.                                       *)
QueueOK ==
  \A b \in Builds :
    /\ task[b] = "none" <=> payload[b] = None
    /\ accepting[b] # None => task[b] = "none" /\ b \in buildInfo
    /\ b \in buildDone => task[b] # "none"

IInv == TypeOK /\ WorkersOK /\ QueueOK

(* As long as the process lives, it knows what was queued, and a worker    *)
(* has every active task.                                                  *)
Kept ==
  \A b \in Builds :
    /\ task[b] # "none" => b \in buildInfo
    /\ task[b] = "active" => \E w \in Workers : build[w] = b

(* And if pods can be listed, a worker ends a task when it is done.        *)
Ended ==
  /\ CompletedIsDone
  /\ \A w \in Workers : wpc[w] = "inspect" => build[w] \in buildDone

(* Workers whose wait nothing has ended yet.                               *)
Waiting == {w \in Workers : wpc[w] \in {"watch", "watching"} /\ ~sawDeleted[w]}

(* When nothing fails: a build has at most one job, which is there at      *)
(* least as long as a worker waits for it; what is done is nobody's wait.  *)
OneJob ==
  /\ \A j \in Jobs : job[j] # None => job[j].build \in Started
  /\ \A i, j \in Jobs : job[i] # None /\ job[j] # None /\ job[i].build = job[j].build => i = j
  /\ \A w \in Waiting : HasJob(build[w])
  /\ \A w \in Workers : sawDeleted[w] => wpc[w] \in {"watching", "mark", "inspect"}
  /\ \A b \in buildDone : task[b] = "completed" \/ \E w \in Workers : build[w] = b /\ wpc[w] = "inspect"

(* And a job is created for each wait that a deletion has ended, of which  *)
(* there are at most as many as workers, and for each that is not over.    *)
Counted ==
  /\ IsFiniteSet(Started)
  /\ Cardinality(Started) <= Cardinality(Workers) * Cardinality(Gone) + Cardinality(Waiting)

SharedInv == IInv /\ Kept /\ Ended /\ OneJob /\ Counted
=============================================================================
