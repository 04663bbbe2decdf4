# A TLA+ model of eval

`eval` answers questions such as "what is the image that these Bazel targets
give at this commit?". A client names values of action graphs; the services
find an earlier result that will do, or start the work and let the client poll
for it. This directory models the services that carry that out, checks the
models with TLC on small instances and proves the safety of the cache, of the
builder, of the engine and of the Starlark loader, for every instance, with TLAPS.

## 1. Inventory

| part | source | state | operations |
|---|---|---|---|
| evalctl | `cmd/evalctl/cmd/eval.go` | none | checks the graph of its one value, substitutes configuration, calls Eval, polls GetOperation until done |
| engine | `cmd/engine/main.go` | two tables: evaluations and their operations | Eval (one cache Get per value), GetOperation (one cache GetOperation per row) |
| cache | `cmd/cache/main.go` | `data` (buckets), `downstreamOperation`, `upstreamOperation`; all in memory | Get, GetOperation |
| builder | `cmd/builder/main.go` | `buildInfo`, `buildDone` in memory; tasks in Redis (asynq); jobs in Kubernetes | Build, GetOperation, HandleBuildTask on two workers |
| runner | `cmd/runner/main.go` | none | CreateJob (prints the graph it is sent, creates a job in the namespace `eval`) |
| actions, graphs | `pkg/actions`, `pkg/agraph` | none | digests, the known graphs |
| operations API | `proto/async_service` | | the shape of an operation: name, done, result |
| Starlark loader | `pkg/egraph` | the map of loaded files | Load |
| sorted cache | `pkg/cache` | slices per key | Set, Get; not used by the services |
| libraries | `pkg/pointer`, `pkg/git`, `pkg/hash`, ... | | thin wrappers |

    evalctl --Eval--> engine --Get--> cache --Build--> builder --task--> worker --job--> Kubernetes
            --GetOperation-->  --GetOperation-->  --GetOperation-->   (reads buildDone, buildInfo)

Every arrow is a gRPC call of its own goroutine. No service locks its maps, and
an unexpected error ends the process (`log.Fatal`, or a nil operation used after
a failed call). Names of operations outlive the process that gave them: the
engine keeps the cache's names in its database, the cache keeps the builder's.

What is hard, per part, and what makes the part correct:

* **cache.** Concurrent Gets append to one bucket without a lock; polls store
  answers of the builder that may arrive out of order; hits combine a bucket
  with an answer stored by another call; a restart forgets everything while
  clients keep names. Correct means: the operation handed out for a request
  is a build of its commit with at least its targets; it resolves; an image is
  only sent for its own operation; what was built is not built again; done
  comes in the end.
* **builder.** Workers watch *all* jobs of the namespace and stop at the first
  deletion they see; the watch begins after the job does; it times out; tasks
  are retried after panics and restarts, jobs are not deduplicated. Correct
  means: done is said of all builds in the end, and with the build's own image;
  it is said too early, and more builds run than there are workers, only as far
  as deleted jobs account for it; the answer settles, and then does not change;
  the queue comes to rest.
* **engine, evalctl.** One value failing among several; rows written one by one,
  without a transaction and with their errors ignored; the cache's answer used
  before its error is looked at, so that the engine ends with the cache; a poll
  loop without limit that dereferences a nil operation when the engine is gone.
  Correct means: an image printed for a value is one of that value; an
  evaluation polled to its end is complete; of what runs of evalctl legally do,
  only one thing stops the engine, the request that makes the cache panic; unless
  that happens, all runs are told in the end.
* **runner.** The cache is its only caller and sends no graph, so every request
  panics in `Dump` before the job is created. The cache logs the error and goes
  on: correct means that the failing call keeps no Get from being answered.
* **Starlark loader.** Loads nest; an entry is nil while its file is executed.
  Correct means: every file is executed once, a cycle is an error of exactly the
  files that need it, and the load ends.

The hazards, each at its line, are the `hazards` of `PROJECT.json`.

## 2. Modules

| module | models | |
|---|---|---|
| `ActionGraphs` | `pkg/actions`, `pkg/agraph`, the helpers of the cache | operators |
| `Operations` | what a server of long-running operations promises, forgetful or not | abstract specification |
| `CachePromise` | what the cache promises the engine about the names it gives out | abstract specification |
| `CacheService` | `cmd/cache/main.go` | one action per step of Get and GetOperation |
| `CacheProperties` | | properties and inductive invariants of the cache |
| `CacheProofs`, `CachePromiseProofs`, `CacheSequentialProofs` | | TLAPS proofs |
| `Evalctl` | the substitutions of `cmd/evalctl/cmd/eval.go`, down to the cache's request | operators and a property |
| `EvalctlProofs` | | TLAPS proofs |
| `BuilderService` | `cmd/builder/main.go` with its properties and invariants | one action per step |
| `BuilderProofs` | | TLAPS proofs |
| `EngineService` | `cmd/engine/main.go`, the eval command as its client, with properties and invariants | one action per step of Eval and GetOperation |
| `EngineProofs`, `EngineAloneProofs` | | TLAPS proofs |
| `StarlarkLoad` | `pkg/egraph`, with properties and invariant | one action per load statement, file end or failure |
| `StarlarkProofs` | | TLAPS proofs |
| `MCCache`, `MCBuilder`, `MCEngine`, `MCLoad` | | instances for TLC |

The services are composed through what one promises and the next relies on. Every
arrow but the third is a specification that both of its ends use, so that no state
space holds all the services at once:

    EngineService  -- uses the actions of -->  CachePromise
    CacheService   -- implements ----------->  CachePromise               (ImplementsPromise)
    CacheService   -- replies as read by --->  EngineService              (RepliesTellWhatIsKnown)
    CacheService   -- uses the actions of -->  Operations!Start, Finish, Forget
    BuilderService -- implements ----------->  Operations!ForgetfulSpec   (ImplementsForgetful)

`CachePromise` says how what is known of a name changes; `RepliesTellWhatIsKnown` says
that the cache's replies, read as the engine's model reads them, are true of it at the
moment they are given. The two refinements and this property are model-checked and
proved, with every fault enabled. In two narrower cases a service promises more, also
checked and proved: a builder that is not restarted forgets nothing
(`ImplementsOperations` of `BuilderService`), and a cache that serves one call at a time
and is not restarted implements `Operations` itself (`ImplementsSequentially`), even in
front of a builder that forgets.

### ActionGraphs

A `BuildImageConfig` is its base image, commit point and set of targets. The
image name and tag are constant in the code and left out. SHA-256 is taken to be
injective: a digest *is* the tuple of what is hashed. `TargetsOf` is the code's
reading of any configuration as a `BuildImageConfig` with the error ignored: the
zero message has no targets. The base image is hashed but never sent to the
builder, so nothing is claimed of it. `EssentialActions` returns the graph it is
given and `Execute` only logs: both are the identity on the state.

### CacheService

`pc[c]` says where call `c` is; the other per-call variables are its locals.

| step of the code | action |
|---|---|
| Get, `GetAction` fails | `RejectGet` |
| Get begins; `createJob` (always, before the look-up; its error is only logged) | `AcceptGet`, `CreateJob` |
| `CacheBackend.Get`, a read of `data`: an entry, or none | `Find`, `Miss` |
| of the entry's operation, the read of `upstreamOperation`; return | `HitFinished`, `HitOngoing` |
| `ActionDigest` fails; no action called "build" (panic) | `NoDigest`, `NoBuildAction` |
| `buildImage`; its error (panic) | `CallBuilder`, `BuilderRefuses` |
| `downstreamOperation[id] = ...` | `Register` |
| `Put`: read the slice, assign it; return | `ReadBucket`, `AssignBucket` |
| GetOperation: done, known, unknown name | `PollRemembered`, `PollDownstream`, `PollUnknown` |
| the builder's answer leaves; does not come (`log.Fatal`) | `BuilderAnswers`, `BuilderUnreachable` |
| `upstreamOperation[...] = *operation`; return | `Store` |
| the process is killed | `Crash` |
| the builder ends a build; is restarted | `BuilderFinishes`, `BuilderForgets` |

A step is what a goroutine does between two points where another can be seen:
RPCs and accesses to the shared maps. Two unsynchronised `Put`s are modelled by
two of their outcomes, an entry lost (`ReadBucket` twice before `AssignBucket`) or
the runtime's fatal error (`Crash`). A third is not modelled: if the slice has spare
capacity both write the same slot of its array, an entry is more than one word, and
a reader can then see the action of one call with the operation of the other. In the
model an entry is written as a whole, and what is shown of the cache is shown for
entries that are. Panics in a handler end the process, as no
interceptor recovers them. `handed` (which operation was handed out for which
request) and `lost` (names registered before a restart) are history variables:
the first is what engines remember.

### Evalctl

The eval command reads the configuration of the known graph, substitutes targets and
then the commit sha in it, the second reading what the first has written (the branch
stays that of the graph), and sends graph, value and flag to the engine, which passes
them to the cache. `GetRequest(cmd)` is that request. The runs of the cache take their
requests from command lines, but for one that none of them makes (an action of another
kind).

### BuilderService

| step of the code | action |
|---|---|
| Build: `buildInfo[...]`; `Enqueue` and return; its failure | `Build`, `Enqueue`, `EnqueueFails` |
| GetOperation, a pure function of the state | operator `GetOperation` |
| HandleBuildTask is called | `Dequeue` |
| `jobs.Create`; `jobs.Watch`; either fails (`log.Fatalln`) | `CreateJob`, `StartWatch`, `JobFails` |
| the loop ends at DELETED; the watch is closed | `HandleDeleted`, `WatchTimeout` |
| the pods cannot be listed: return | `PodListFails` |
| `buildDone[...] = true` | `MarkDone` |
| `playWithDocker` and the rest, which log; its panic | `Inspect`, `InspectPanics` |
| the job ends; is deleted 10 s later | `JobEnds`, `JobDeleted` |
| asynq finds an active task without worker | `Recover` |
| the process is killed; it ends on SIGTERM | `Crash`, `Shutdown` |

An image is named by the build's id (the code draws a second UUID for the tag in the
same call). Jobs have names, as two jobs of one build can exist after a retry; a new one
takes the least free name. `registry` says which attempt at a build pushed its tag last,
so that the digest of a second push differs from that of the first. Events other than
DELETED change nothing and have no action. The database rows are never read and left
out.

On SIGTERM the gRPC server lets its calls end while asynq gives the workers time
and then puts their tasks back without counting a retry; but `main` ends with the
gRPC server. `Shutdown` is therefore any outcome between: each task that was
being worked on is back in the queue or still active, to be recovered.

### EngineService

An evaluation is a run of evalctl: it draws one id, and evalctl makes one call
after the other, so all variables are indexed by evaluation. `client[e]` is where
evalctl is, `pc[e]` where the engine's call is.

| step of the code | action |
|---|---|
| evalctl: no such graph; `engine.Eval` | `UnknownGraph`, `CallEval` |
| Eval: one `cache.Get` per value: found, not found, error | `Hit`, `Miss`, `GetFails` |
| the cache panics in it: the graph has no action "build" | `GetPanics` |
| newEvaluation: a row per operation; the evaluation; its error | `SaveOperation`, `SaveEvaluation`, `SaveFails` |
| evalctl's loop; GetOperation reads the evaluation | `Poll` |
| `cacheOperations.GetOperation`: asked; answered | `Ask`, `Store` |
| its answer cannot be read; there is none | `AskAgain`, `AskLost`; `AskFails` |
| GetOperation returns; evalctl prints or sleeps | `PollReply` |
| the engine restarts; the cache does; a dead cache is started again | `EngineCrash`, `CacheRestarts`, `CacheStarts` |
| the builder ends a build | `BuilderFinishes` |

What the cache does to its names are the actions of `CachePromise`: `Miss` is `Give`,
`Store` is `Remember`, `GetPanics` and `CacheRestarts` are `Lose`. Its replies are those
of `CacheService`: a hit is always done, with an image only if the answer was stored;
the builder's answer may be older than the moment it is stored (`early`); an operation
known to be done is answered with a message the engine exits on. Which entry a hit
finds, and whether an entry is still there, is left open. The image of a build is named
after the operation and stands for what the builder says it is; after a restart of the
builder (fault "builder") this can be the empty one, and an operation that was over may
be answered as pending again. A `value` stands for a path with the substituted
configuration, so that different configurations are different values.

`evalctl eval generate.generate` is legal, and asks for a value of a graph that has
an action but no build: the cache then uses the action "build" all the same
(`cmd/cache/main.go:255`) and panics. Those are the values in `Fatal`. `GetPanics`
is the run that asks for one: its call fails, every name the cache gave is lost, and
the cache is `down` until somebody starts it again. Until then other calls of Eval
fail too (`GetFails`), and from then on a poll about a lost name ends the engine
(`AskFails`, `AskLost`). So a run can fail because of what another one asked for.
No text of the repository promises otherwise. `FailsOnlyIfRefused` and
`EventuallyFinished` state what holds: as long as no run has killed the cache
(`Harmed`), a run fails only if its own value has no build; and whatever happens,
no run polls for ever.

That `Preload` finds the rows
of an evaluation is taken from the comment at `cmd/engine/main.go:129`.
`operations[value]` is a map, so of a value asked for twice only the last operation
is written.

`damaged` is a history variable: the evaluations whose rows the database failed to
write or to read, of which nothing but `ValuesBelong` can be said.

evalctl takes one argument (`cobra.ExactArgs(1)`), the engine a list: the runs say
which of the two they are about.

### StarlarkLoad

| step of the code | action |
|---|---|
| `load` of the root | `Start` |
| `load` finds no entry, an entry, a nil entry or an error | `LoadFirst`, `LoadCached`, `LoadFails` |
| ExecFile fails by itself; ends | `ExecFails`, `ExecEnds` |

The interpreter executes load statements in their order, each in a thread that
its caller waits for: `stack` is the files being executed and what each has still
to load. All load graphs are initial states. `executed` is a history variable.

## 3. Runs

| run | instance | shows |
|---|---|---|
| `cache_faults` | 2 calls, 2 builds, 6 requests, all faults | types, `HandedOutResolves`, `ServesRequest`, `ServesCommandLine`, `ImageBelongsToOperation`, `RepliesInv` (with `PromiseInv` and `IInv`), the cache implements `CachePromise`, `RepliesTellWhatIsKnown` |
| `cache_sequential` | 1 call, 3 builds, 3 requests, a builder that forgets | `EntriesKept`, `NoRedundantEntry`, the cache implements `Operations` |
| `cache_live` | 2 calls, 2 builds, 1 request, no faults | `EventuallyDoneForGood`, `LateAnswersRunOut`, `GetAnswered` |
| `builder_shared` | 2 workers, 4 builds, no faults | `SharedInv`, `EarlyBounded`, `JobsBounded`, `CompletedIsDone` |
| `builder_faults` | 2 workers, 2 builds, registry, slow | types, `IInv`, `DoneHasImage`, the builder implements `Operations`, `AnswerFinal`, `AnswerSettles`, `EventuallyDone` |
| `builder_settles` | 1 worker, 2 builds, all faults | `IInv`, the builder implements the forgetful `Operations`, `AttemptsRunOut`, `EventuallySettled` |
| `engine_one` | 3 evaluations of one value, which may make the cache panic; no other faults | `FailsOnlyIfRefused`, `EventuallyFinished` |
| `engine_faults` | 2 evaluations of 2 values; engine, cache and builder restart, the database fails | types, `ValuesBelong`, `PolledHasAll`, `CompleteInv` (with `IInv`) |
| `load_once` | 3 files, all load graphs and broken files | `ExecutedOnce`, `FailsIfBad`, `ResultInv` (with `IInv`), `LoadAdvances`, `Terminates` |

Three runs end in a counterexample; each is a place where the code does not do
what a comment or a caller says:

| run | property | what happens |
|---|---|---|
| `cache_forgets` | `DoneNotForgotten` | two overlapping polls: the older answer is stored last |
| `cache_raw` | `DoneHasGetResponse` | the second poll of a done operation returns a `BuildResponse` under the builder's name |
| `builder_exceeds` | `BuildsBounded` | with two workers, one deleted job frees both |

A fourth disagreement needs no run, as the comment at `cmd/cache/main.go:233`
admits it: a hit on a build in progress is answered with done and no image
(`HitOngoing`). It is what keeps the engine alive: the mutant `HitPending` of
`engine_one` answers as the comment wants, and an engine then exits on the second
poll of a shared operation.

**Bounds.** *Cache:* two calls are enough for every race between two accesses, which is
all the cache has (a third call adds no new pair); two builds let entries of a bucket be
lost; the sequential run has three, so that a bucket with two entries can be hit, and
can hold an entry, one that covers it and one made with `skip_caching`. The requests of
`cache_faults` are a small build, one that covers it, one of another commit, and one for
each error path; those of `cache_sequential` are the first two and one with
`skip_caching`. `Room` keeps a Get from starting when the builder's names could run out
(names are UUIDs in the code). *Builder:* there are two workers, as in the code (but for
`builder_settles`, which is about what a fault does to the work of one). Two builds let
one worker see the other's deletion, a third and a fourth are there for the freed
workers to take. `MaxJobs` bounds the jobs that exist at a time: with 3, in
`builder_shared`, two workers can be freed by one deletion and a third job run beside
the two that they left; with 2, in the runs with retries, both builds can have a job or
one build two. A worker waits at `CreateJob` while there is no free name, which no fault
can make last, as jobs end. `MaxRetry` is 1 (25 in asynq): one retry and the end of
retries both happen; `builder_shared` and `builder_exceeds`, where nothing fails, have
none. The runs of the builder with faults have one work to ask for: that what a build is
for is never mixed up is left to the theorem `BuilderMayForget`. *Engine:* there is an
operation for every value that can miss. Three evaluations share an operation while one
polls it and another one hits it, before and after it is done, and one kills the cache
between any two steps of the others; two values give a second row, a row lost and a
value that fails after one that did not. *Loader:* three files hold every cycle up to
length three, a file reached on two paths, and one that loads itself. Symmetry is used
for names, calls and workers in runs without liveness.

**No deadlock check** in the builder's runs: when all builds are over the model
stops, as nobody calls Build again. The same goes for the engine's when all
evaluations are over, and for the loader's when the root is loaded. The cache is
always ready for a call.

**Fairness.** Cache: goroutines run, the builder's calls return and its builds end (weak
fairness); the client that was last told that an operation is not done polls it again,
as evalctl's loop does. Its poll is strongly fair because call slots, which are the
model's and not the code's, are free again and again but not always. No new request is
assumed. Builder: workers run, tasks are taken and recovered (asynq), jobs end and are
deleted (Kubernetes), the watch closes (`TimeoutSeconds`). Nothing is assumed of calls
of Build or of faults, which may go on for ever in `builder_settles`; only orderly
shutdowns, which cost a task no retry, must stop for a task to settle, and
`EventuallySettled` says so. Engine: its calls progress, evalctl's loop goes round, and
builds end; that a cache that has panicked is started again is not assumed. `engine_one`
has no faults but that panic, as the code recovers from none of them. Loader: the
interpreter runs.

**Mutants.** The definitions marked "Mutant" are plausible mistakes; each
property of a passing run is violated when the mutant listed for it in
`PROJECT.json` takes the place of the definition after it.

## 4. Proofs

The theorems hold for any sets of calls, requests, names, builds, workers,
evaluations, values and files, and any faults unless the table says otherwise, from
the named assumptions of the modules: requests carry actions of the known kinds, and
a graph's "build" is the action asked for; sentinels are not names, rows or values;
the cache's and the builder's names differ; command lines name known graphs.

| module | theorem | states | if |
|---|---|---|---|
| `CacheProofs` | `Invariance` | `IInv` | |
| | `TypeCorrect` | `TypeOK` | |
| | `HandedOutAlwaysResolves` | `HandedOutResolves` | |
| | `AlwaysServesRequest` | `ServesRequest` | |
| | `ImageAlwaysBelongs` | `ImageBelongsToOperation` | |
| | `LateAnswersAlwaysRunOut` | `LateAnswersRunOut` | (5) |
| `CachePromiseProofs` | `PromiseInvariance` | `PromiseInv` | |
| | `CacheKeepsPromise` | `ImplementsPromise` | |
| | `RepliesInvariance` | `RepliesInv` | |
| | `RepliesAreTrue` | `RepliesTellWhatIsKnown` | |
| `CacheSequentialProofs` | `SequentialInvariance` | `SequentialInv` | (1) |
| | `EntriesAlwaysKept` | `EntriesKept` | (1) |
| | `NeverRedundant` | `NoRedundantEntry` | (1) |
| | `SequentialServes` | `ImplementsSequentially` | (1) |
| `EvalctlProofs` | `CommandLineAlwaysServed` | `ServesCommandLine` | |
| `BuilderProofs` | `BuilderInvariance` | `IInv` | |
| | `BuilderTypeCorrect` | `TypeOK` | |
| | `BuilderMayForget` | `ImplementsForgetful` | |
| | `BuilderServes` | `ImplementsOperations` | (2) |
| | `DoneAlwaysHasImage` | `DoneHasImage` | (2) |
| | `CompletedAlwaysDone` | `CompletedIsDone` | (2), and not "pods" |
| | `AttemptsAlwaysRunOut` | `AttemptsRunOut` | |
| | `AnswerAlwaysFinal` | `AnswerFinal` | (2) |
| | `SharedInvariance` | `SharedInv` | (3) |
| | `EarlyAlwaysBounded` | `EarlyBounded` | (3) |
| | `JobsAlwaysBounded` | `JobsBounded` | (3) |
| `EngineProofs` | `EngineInvariance` | `IInv` | |
| | `EngineTypeCorrect` | `TypeOK` | |
| | `ValuesAlwaysBelong` | `ValuesBelong` | |
| | `CompleteInvariance` | `CompleteInv` | |
| | `PolledAlwaysHasAll` | `PolledHasAll` | |
| `EngineAloneProofs` | `AloneInvariance` | `AloneInv` | (4) |
| | `FailsOnlyWhenRefused` | `FailsOnlyIfRefused` | (4) |
| `StarlarkProofs` | `LoadInvariance` | `IInv` | |
| | `AlwaysExecutedOnce` | `ExecutedOnce` | |
| | `ResultInvariance` | `ResultInv` | |
| | `FailsExactlyIfBad` | `FailsIfBad` | |
| | `LoadAlwaysAdvances` | `LoadAdvances` | |

(1) One call at a time, and no fault but "forgets"; a request whose action has a
digest has a build. (2) None of the faults that restart the process: "crash",
"shutdown", "redis", "k8s". (3) No faults; any number of workers. (4) One value per
evaluation and no fault but "builder"; a run may make the cache panic. (5) No fault
"forgets". None of these can be dropped: a second call breaks (1), as `cache_forgets`
shows; a restart forgets what was done, which breaks (2); a watch that times out ends a
wait that no deletion accounts for, and a retry makes a second job for a build, which
breaks (3); an evaluation of two values breaks (4), as the poll after the first of them
is done receives the message that `cache_raw` shows; a builder that forgets breaks (5),
as it says "not done" of what is over.

**Cache.** `ServesRequest` is not inductive: that a hit serves the request needs
every entry of every bucket to be a build of the bucket's digest with the entry's
targets (`DataOK`); that `Put` keeps this, although it may assign a bucket read
long before, needs the same of the snapshot each call in `Put` holds, and of its
new entry (`GetOK`); that the build behind an entry stays the same needs names
to be tied once (`DownstreamOK`) and builds not to be started twice.
`ImageBelongsToOperation` needs stored answers and answers on their way to be
results of the build they are filed under (`UpstreamOK`, `GetOperationOK`), and
results to be of their build (`BuilderOK`). The proof has one lemma per action or
group of actions. Steps other than restarts satisfy `Grows` (operations keep their
build, builds keep their work), and the lemmas `EntryStays`, `CallStays`,
`HandedStays`, `ReplyStays`, `MapsStay` and `UpstreamStays` carry each part of
`IInv` over any such step; `RestartIInv` deals with the rest.

**The cache's promise.** What a name was first given out for is the request of the
Get that missed; those that hit it later must want no more, and no second Get may
draw it. `PromiseInv` adds to `IInv` that buckets, stored answers, hits and polls
are about names that were handed out (`HandedOutOK`), that the name of a Get in
`Put` is its own (`NamesFresh`), and that one request for each name serves all its
others (`HandedOutFor`). Each step is then a `Give` (the Get that missed returns), a
`Remember` (`Store`), a `Lose` (a restart) or leaves the promise alone.
`CommandLineAlwaysServed` follows from `PromiseInv` and what the substitutions compute.

**Replies.** For a reply to be true when it is given, an image has to come along if
and only if the operation is known to be done. So `RepliesInv` adds that wherever an
answer of the builder is, with the builder, on its way or stored, it is done if and
only if it has an image (`Whole`), which is the empty one if the builder has
forgotten the build. That a Get that missed names an operation nothing is known of
is `NamesFresh`.

**Late answers.** With a builder that does not forget, what the cache, or an answer
on its way, says to be done is over (`SaidIsOver`). Hence no call sets out with "not
done" about an operation known to be done, and the step that forgets it, the
`Store` of a call in `Late`, ends that call. As calls are finitely many this is the
safety half of `EventuallyDoneForGood`; the other half is that polls return.

**One call at a time.** What the only call learnt from its bucket stays true until
it uses it (`Undisturbed`): the entry it found is there, there was no candidate
unless `skip_caching`, the slice that `Put` read is the bucket. From this
`EntriesKept` and `NoRedundantEntry`. For the refinement, the call asks the builder
only about what is not known to be done, and a done answer has an image
(`AnswersOK`): so `Store` finishes an operation once, even if the builder has
forgotten it meanwhile.

**Builder.** `IInv` says that a worker is in the build of an active task that no
other worker has (`WorkersOK`), and that what is queued says what it is for
(`QueueOK`); with it each step maps to a step of `Operations`, and each restart or
shutdown to `Forget`. Without restarts, what is queued is known and every active
task has a worker (`Kept`), so images stay. If pods can be listed a worker ends a
task only when it is done (`Ended`). `AnswerFinal`
follows from these: a job is created, and so the tag pushed, only for a build whose
task a worker has, and no step makes a task that is over active again.

A worker ends its wait at the first DELETED event, whichever job it is of. When nothing
fails that event is of *some* job, and this can be counted. A build is `Started` once
its job was created and `Gone` once its job was deleted; a worker is `Waiting` until it
has seen a deletion. `OneJob` says that a build gets one job, that it is not deleted
before the worker that created it has begun to watch, and that nobody waits for what is
done. `CreateJob` adds one to `Started` and one to `Waiting`; `JobDeleted` adds one to
`Gone` and ends at most all waits; the other steps (`Quiet`) change none of the three
sets. Hence `Counted`: |Started| is at most |Workers| * |Gone| + |Waiting|. The builds
that are done too early (`Early`), those that are gone and those waited for are disjoint
parts of `Started`, which gives `EarlyBounded`; the running jobs belong to different
builds of `Started`, none of them gone, which gives `JobsBounded`. With two workers, d
deleted jobs account for at most d builds that are done too early and d + 2 running
jobs: it is the deletions that let the number of jobs grow beyond the two workers
(`builder_exceeds`).

`AttemptsRunOut` is the variant behind `EventuallySettled`:
`Remaining` counts the attempts a task has left and the stages of the one at hand;
that a worker's failure is one of an active task, whose retries count, and that
`Shutdown` puts back active tasks only, is `WorkersOK`.

**Engine.** An image travels from the cache through the memory of a call to
evalctl, and the name it is asked for by through the database. `ValuesBelong` needs
every row in the database, every row a call is still to write or to ask about, and
the one it is asking about to be filed under the value its operation is for
(`RecordOK`); what calls have collected to be images of finished builds
(`ImagesOK`); and what the cache remembers as done to be over (`CacheOK`), which in
turn needs an answer that is on its way (`early`) to be true. `PolledHasAll` needs
`CompleteOK`: every value asked for is ahead, in memory, or in the database, and
during a poll still to be asked about or answered. For `FailsOnlyIfRefused`, as long
as no run has made the cache panic (`Calm`), an evaluation with one value has one row,
pending until the poll that is its last (`AloneOK`), and no two evaluations poll the
same operation (`Apart`), as one draws it with a miss and the others find it with a
hit, which is done at once; the cache is there and has lost nothing. A step of
`GetPanics` ends that, and from then on the run that took it is a failed one that
asked for a value in `Fatal` (`Harmed`), which no later step undoes.

**Loader.** An entry exists, nil or not, exactly if the file was executed once. The
reference for `FailsIfBad` is stated with sets instead of paths, so that no induction
is needed: a file is `Good` if it is in a set of unbroken files that is closed under
loads and in every part of which some file loads none of that part. For a loaded file
that set is all loaded files (`LoadedOK`). A file fails for one of three reasons: it
is broken; it loads a failed file, which is not good (`FailedOK`); or it loads a file
that is being executed. In the last case, of the files on the stack that are in a
closed set with it each loads another one: the innermost loads the one being
executed, and any other the next on the stack (`StackOK`, `RestOK`). `LoadAdvances`
is the order behind `Terminates`: fewer files without an entry, or else a shorter
stack, or else fewer load statements to go.

Only model-checked: liveness (`EventuallyDoneForGood`, `GetAnswered`, `EventuallyDone`,
`AnswerSettles`, `EventuallySettled`, `EventuallyFinished`, `Terminates`), which is out
of the prover's reach. What three of them rest on in every single step is proved:
`LateAnswersRunOut`, `AttemptsRunOut` and `LoadAdvances`.

## 5. What is left

Not modelled, and why:

* A module with cache and builder together is not needed: the chain of section 2
  connects them, and the engine, by specifications that are proved at both ends.
  What the chain leaves out is the digest of an image that the cache stores when a
  build is reported done before it is over: the builder's side of it is `AnswerFinal`
  and `AnswerSettles`, which say when the digest is final; the cache keeps the first
  one it is told.
* An entry of a bucket that two calls of `Put` write at once, each a part of it
  (section 2, CacheService).
* Operations that were completed before a restart of the builder are never done
  again: `buildDone` is in memory only, and no comment promises otherwise. Nothing
  is stated of them beyond `ImplementsForgetful`.
* The runner's job: the only caller makes `CreateJob` panic before it creates one.
* `loadEvalDefnition` of `pkg/egraph`, which nobody calls; `pkg/cache`, a sequential map of
  sorted slices that no service uses; `pkg/sizeof`, `pkg/types`, `pkg/hash`,
  `pkg/git` and the like, wrappers and conversions without state.
* Start-up of the services (`pkg/grpc`, certificates, flags); completion, Git and
  printing in evalctl.
* `cmd/ui`, the action binaries, `experimental`, deployments: demonstrations and
  configuration.
