# greenbay in TLA+

greenbay runs a set of acceptance checks (does this file exist, does this
command succeed, can this program be compiled) and reports which of them
passed. A command line run reads a configuration file, turns each of its tests
into an *amboy* job, puts the selected jobs into an in-process queue with a
pool of workers, waits, and computes its exit status from the queue's results.
The same configuration and queues can be served over HTTP.

This directory holds TLA+ modules translated from that code, the TLC instances
that check them, and theorems about them that TLAPS checks. `PROJECT.json`
lists every run, theorem and mutant, and gives for each definition the source
lines it stands for.

    tlc -workers 2 -config AppRun_verdict.cfg MCAppRun.tla
    tlapm AppRun_proofs.tla

## The system

| Part | Source | State | Operations | Correct if |
|---|---|---|---|---|
| run of the application | `src/operations/app.go` | selected tests, caught errors, verdict | `Run`: submit, wait, produce results | nil exactly when every selected check ran and passed; it returns |
| in-process queue and pool | amboy `queue/unordered.go`, `pool/local.go`, `wait.go` | task map under a lock, bounded channel, completion counter, worker goroutines | `Put`, `Next`, `Complete`, `Stats`, `Results`; the dispatcher and worker loops | no job is lost, run twice or counted early; no goroutine blocks for ever |
| checks | `src/check/` | verdict, message, errors, completion of each job | `Run` of each check type | the verdict is what the type promises, for every answer of the system |
| test configuration | `src/config/config.go`, `parsing.go`, `raw.go` | tests by name, suites, a read/write lock | `ReadConfig`, `Reload`, `TestsByName`, `TestsForSuites`, `GetAllTests` | streams see one configuration, hold what was asked for, once, and end |
| configuration builder | `src/config/builder.go` | raw tests | `AddCheck`, `Conf` | what it builds parses back |
| results producers | `src/output/` | content, memory of failures | `Populate`, `Print`, `ToFile`, `CollectResults` | nothing that failed is hidden, nor forgotten in the exit status |
| remote service | `src/operations/service.go`, amboy `queue/fixed.go`, `rest/service.go` | bounded queue with eviction | submission, status, waiting, reload, adhoc runs | a submitted job is executed and its result can be fetched |
| remote client | `src/operations/client.go`, amboy `rest/client.go` | submitted jobs | submit, wait, fetch | the verdict is that of the jobs submitted |
| compilers, version comparison | `src/check/compile_*.go`, `version.go`, `package_checker.go` | temporary files | compile, compare | an answer to the check that asks |
| command line, logging | `src/main/`, `src/operations/logging.go` | none | flag parsing | |

### How the parts interact

`GreenbayApp.Run` calls `GetAllTests`, which returns a channel fed by generator
goroutines of the configuration; it receives from it and calls `Put`. `Put`
sends on the queue's bounded channel, *holding the queue's lock*. The
dispatcher goroutine moves jobs from that channel to the workers over an
unbuffered one; a worker runs the job, which marks itself complete in a
deferred call, and `Complete` spawns a goroutine that takes the lock to count
it. `Run` polls the counter, then hands the queue to the results producer,
whose `jobsToCheck` goroutine reads the channel of the queue's `Results`
goroutine.

A service has the same pool behind a queue that forgets old jobs. Its clients
read their own configuration, send each job they select as a request to create
it, ask the service to wait until its queue is idle, fetch the jobs back by ID
and hand them to the same producers. The service can also run tests of its own
configuration on request, and reload that configuration.

### What is hard about it

* Interleaving: the counter that ends the wait is moved by goroutines of their
  own; the verdict is computed from objects other goroutines write.
* Blocking: a send on a bounded channel with a lock held; sends on unbuffered
  channels that watch no context; generators that hold a read lock for as long
  as their consumer takes while a `Reload` waits for the write lock.
* Failure: a check that panics, a selection with an error part-way, an output
  file that cannot be written, a reload of a broken file.
* Cancellation at every point of a run.
* The network: a request that fails on its way out or back while its handler
  runs on, a wait that times out, a result that was forgotten before it was
  fetched, other clients' jobs in the same queue.
* Repetition: a configuration run twice (its job objects are complete already),
  reloaded, or a producer populated twice.

`PROJECT.json` lists these as hazards, each at its line, with the properties
that would catch it going wrong.

## Modules

| Module | Models | |
|---|---|---|
| `LocalQueue` | the queue and the pool: state, client operations, steps of dispatcher, workers and completers | no specification of its own |
| `AppRun` | `GreenbayApp.Run` with the caller's cancellation, composed with `LocalQueue` by EXTENDS | detailed specification |
| `RunPromise` | what `Run` promises, without a queue | abstract specification, implemented by `AppRun` |
| `AppRun_proofs`, `AppRun_once_proofs` | theorems about `AppRun`, the second with its refinement of `RunPromise` | TLAPS |
| `LimitedQueue` | the service's queue: create requests, eviction, its pool | no specification of its own |
| `RemoteRun` | `GreenbayClient.Run` for several clients, and the handlers they call, composed with `LimitedQueue` by EXTENDS | detailed specification |
| `Retention` | what a queue of limited size remembers | abstract specification, implemented by `RemoteRun` |
| `RemoteRun_proofs`, `Retention_proofs` | theorems about `RemoteRun`, the second its refinement of `Retention` | TLAPS |
| `ConfigStore` | the configuration, its streams, `Reload`, the selection's default and adhoc runs | |
| `ConfigStore_proofs` | theorems about `ConfigStore` | TLAPS |
| `Producers` | the five results formats and `CollectResults` | |
| `Producers_proofs` | theorems about `Producers` | TLAPS |
| `Checks` | the `Run` method of every family of checks | |
| `Checks_proofs` | theorems about `Checks` | TLAPS |
| `ListFacts` | facts about lists that the proofs about `ConfigStore` and `Producers` share | TLAPS |
| `MC...` | instances of the above for TLC | |

Operators named `X_Something` next to a definition `X`, with a comment that
begins with "Mutant", are versions of `X` with a plausible bug. No
specification uses them: they show that a property can fail.

### LocalQueue and AppRun

| TLA+ | Go |
|---|---|
| `tasks`, `lock` | `q.tasks.m` and its mutex. `lock` says who keeps the mutex over more than one step: `Put` while it sends, the `Results` goroutine while it iterates. `Stats` and the counting goroutine need it free |
| `channel`, `BufferSize` | `q.channel`; `BufferSize` clamps `2*workers` to 8..64, here to `MinBuffer..MaxBuffer` |
| `completers`, `numCompleted` | goroutines of `Complete` that have not got the lock, and the counter they move |
| `dispatcher` | `startWorkerServer`: select on the context, `Next`, send |
| `worker[w]` | a `worker` goroutine. `run` is inside the check's `Run`, `deferred` and `unwinding` before the deferred `MarkComplete` without and with a panic, `finished` before `q.Complete`, `recovering` in the deferred function that recovers. The replacement worker takes the place of the one that panicked |
| `completed`, `passed` | `Status().Completed` and `WasSuccessful` of each job |
| `ctxDone`, `cancelled` | the run's derived context, and the caller's |
| `pc`, `selection`, `next`, `hasErrors` | `Run` in its loop over `GetAllTests`, and its catcher |
| `toScan`, `reported` | the `Results` goroutine's iteration of a Go map, in any order |
| `verdict`, `outputFailed` | what `Run` returned; whether printing or writing failed |

A step is atomic between two points where a goroutine can block or be
observed. `Put` is two steps because it can block between registering a job
and sending it. A `select` with two ready cases is a nondeterministic choice.
A check passes, fails or panics arbitrarily here; what makes it do so is the
subject of `Checks`, and what decides the verdict once the results are in that
of `Producers`, which `AppRun` states in one line (`ProduceResults`).

### RunPromise

Its state is the selection, an outcome per job and the verdict. A run may
return nil when the selection had no flaw (an unknown test, or one named twice)
and all selected checks have passed; it may return an error for a flaw, a
failed check or failed output; and it returns. `AppRun` implements it under the
mapping `Outcome`: pending until a job is complete, then passed or failed.
A check can still finish after an early error return: its workers are not
waited for.

### ConfigStore

`tests` and `suites` are the maps of `GreenbayTestConfig`; `parseTests` is the
parser's loop as a function of the maps before it and the document, because
`Reload` parses into maps that already hold something. A test that lists a
suite enters it before its check is resolved; the first test of a name stays;
any error makes the whole parse report one, and stops nothing. The loops that
append to a list are written with `FlattenSeq`, as the concatenation of what each
turn appends: `addSuites` extends each suite by the document's members,
`Entries` is what the walk over a suite meets, and `TestsForSuites` keeps of that
what was not seen before. `ConfigAssumption` says what documents and requests are
lists of, and that an adhoc request names one test or one suite, as its path does.
`GeneratorRLock`
evaluates all a generator will send at the moment it gets the read lock;
`OneConfigPerGenerator` says that this is a faithful summary: what it has sent
and has yet to send stays what the configuration answers, as no reload gets in
between.
`writerPending` keeps new readers out, as Go's `RWMutex` does. The generator
of a phase unlocks after it closed its channel, so it may overlap with the
next one: `holders` is a set of pairs.

The consumer of a stream is a run, which asks for names and suites (all of
them if neither was given, `Asked`), or an adhoc request for one test or one
suite. An adhoc run puts the jobs it receives into a queue it never started,
each of which is an error; `runAdhocTests` therefore succeeds only over an empty
stream, and `NeverVacuous` says that a stream is empty for no request: nothing
that was asked for is passed over in silence, and a run is never a success
because it selected nothing.

### LimitedQueue and RemoteRun

| TLA+ | Go |
|---|---|
| `storage`, `mu` | `q.storage` and `q.mu`. `mu` is held over more than one step only by a `Complete` that blocks |
| `channel`, `toDelete` | the two channels of `capacity` slots: submitted jobs, and finished ones in the order they will be forgotten |
| `put[j]` | the goroutine that serves the request to create `j`: before the lookup, between the lookup and the send, between the send and the store, answered |
| `dispatcher`, `worker[w]` | as in `LocalQueue`, but `Complete` is the worker's own step. A check that passes sets its state (`SetState`) before its deferred `MarkComplete`, and a client may fetch it in between; one that fails or panics leaves its state as it was |
| `client[c].pc`, `next`, `ids` | where `GreenbayClient.Run` is, in its stream or in `getJobFromIds`, and the IDs the service answered with |
| `errs`, `fetchErrs` | the catchers of the two loops |
| `waited`, `failing`, `outputFailed`, `verdict` | whether the service said that all is complete, what came back, and what `Run` returned |
| `hung`, `panicked` | blocked on the unbuffered error channel; the nil dereference in `FetchJob` when the service answers 404 |

A request that goes unanswered leaves its handler running: the client reports
an error, and the job may be put all the same. The service's wait may time out
at any moment, as neither side knows how long a check takes. `Retention` has
three pieces of state, the pending jobs, the finished ones and those that are
kept; a submission is accepted when `Put` has sent the job, whatever the map
says at that moment, which is how the refinement covers jobs that finish before
they are stored.

### Producers

One module for five formats: what they share are the channel, the converter
goroutine and `CollectResults`; where they differ is what they append to, what
they start anew on the next `Populate`, and where they remember a failure. The
report stores a pointer to the loop variable; `ByReference` stands for it, and
`getJSON` looks through it. Each format's `Populate` is an operator that says what
one unit makes of the producer (`produceResults`, `addMessage`, `addItem`,
`addToReport`). The two lists of the log formats are selections of one
(`Messages`). `ProducersAssumption` says what batches are lists of, and that the
checks of a batch have different names: a check is named by the ID of its job,
under which the queue's map holds it. With `reporting` the caller is
`Options.Report`, which returns the results instead of printing them and does not
look at failures.

`Print` and `ToFile` have errors of their own, which are not failed checks
(`printFailed`, `fileFailed`), and `CollectResults` resolves both. Every format but
gotest may fail to print: `report` marshals, `result` looks at its write to standard
output, the log formats set up a logger. `printed` is what was handed to standard
output; what `Println` or a logger loses behind it no format can know. A file
may not be opened, or get only a part of the content (`WriteContent`). For gotest,
result and report either is an error. The log formats hear only of the
opening: they write through a grip sender, and its `Send` drops the error of a
write (`native.go:115-125`, called from `grip.go:105`), so they return nil over a
file that lacks lines (`LosesWriteErrors`). `NilIsSound` and `FileIsAttempted` are
stated accordingly (`FileIsThere`): the whole content where the format hears of
it, for the log formats only that there is a file. `written` is what this
`ToFile` put in; the log formats append to what a file held before.

### Checks

Each probe of the system answers either way, independently: checks in other
workers change the system meanwhile. The answers of a group are thus obtained at
different moments, and `PassedIffMet` is about these answers; that all of them held
at one moment is nothing the code finds out. A group is rejected before it probes
if not exactly one requirement is set, if there are no members, or if the
requirements lost the name their factory gave them (`Named`), which a
configuration that spells out `requirements` with an empty name brings about. Single checks probe one thing, groups all
of their members before they decide by their one requirement, container checks
all hosts with an error for each bad one, and the others run stages of which
the first to fail ends the check. Which stages there are depends on the type
and on its compiler: `CompileStages`, `ProgramStages`, `ReturnStages`, and
`Answers` for those that cannot fail (a compiler whose binary has a default
name) or must (one that is not defined on this platform). A Python check ends
with a comparison: `Relationship` and `MinRelationship` give the defaults and
`compareVersions` decides. The deferred completion is part of every action that
ends a `Run`.

## Runs

| Run | Instance | Shows |
|---|---|---|
| `verdict` | 5 jobs, 2 workers, channel of 1, no cancellation; clean, repeated, missing and empty selections | the queue's and the run's safety, that `Run` returns and the pool stops, and the refinement of `RunPromise` |
| `cancel` | 3 jobs of which one is complete from an earlier run, cancellation at any step | a job is not lost, the wait ends and does not claim what is not so, an error has a reason |
| `cancelled_nil` | 2 jobs, cancellation | **finding**: a cancelled run returns nil |
| `early_return` | 2 jobs, a missing test | **finding**: the dispatcher leaks |
| `config_service` | a run or an adhoc request for a test or a suite, up to 2 reloads, 4 documents and an unreadable file, 3 names, 3 suites | streams are consistent, complete, without repetition, not empty, and end; reloads end; definitions are stable |
| `config_reload` | 1 reload | **finding**: a reload does not replace definitions |
| `producers_collect` | 5 formats, quiet or not, file or not, 7 batches, up to 2 populates | nil is sound, an error has a reason, nothing is hidden, the file is attempted, no goroutine leaks |
| `producers_report` | the report of one batch | **finding**: every name shows the last output |
| `producers_repopulate` | as `producers_collect` | **finding**: a gotest producer forgets failures it still prints |
| `remote_service` | 2 clients with 3 jobs between them, one context that may expire, 1 worker, capacities 1 to 3 | the wait and the verdict are sound, a job is gone only when it had to be, runs end, and the refinement of `Retention` |
| `remote_hangs` | 1 client, 2 jobs, a context that may expire, a queue that forgets nothing | **finding**: a failed fetch blocks the client |
| `checks_verdicts` | one check, every family, compiler and version range, every set of requirements, up to 3 members, every answer | the verdict is met, errors accompany failures, completion is final and certain |

### Bounds, and why they are enough

* *Five jobs, two workers, one slot.* `Put` can hang a run only if everything
  downstream is full: two jobs with workers, one with the dispatcher, one in
  the channel, one being sent. With fewer jobs a `Complete` that took the lock
  synchronously would go unnoticed (the mutant `Complete_Synchronous` needs
  them). `MinBuffer = MaxBuffer = 1` stands for 8 and 64: a small channel
  blocks at fewer jobs, in the same way. The proofs hold for any sizes.
* `cancel` uses selections of at most three, as cancellation multiplies the
  states. A job that is complete beforehand is what a second run of the same
  configuration starts from.
* *Documents* of the configuration: one to start from, one that redefines a
  test and adds another, one with a test that does not resolve, one that names
  a test twice. *Requests*: one by name and by suite, one by suites only, of
  which the first does not exist until a reload brings it into being.
  `MaxReloads = 2`: the second reload meets the leftovers of the first.
* *Batches*: all pass, the first fails, the last fails, all but the last fail,
  an alien job first or in between. `MaxPopulates = 2`: the second sees what
  the first left.
* *Remote runs*: three jobs overfill a queue of capacity two and just fill one of
  three, and capacity one is the case that stops. One worker is enough for a
  job to be finished before it is stored, since `Put` and the worker are
  goroutines of their own. The context of one client may expire and that of the
  other does not, so that the other meets what lost answers leave behind. A
  client whose context is done may or may not get an answer to each of its
  requests, which covers connections that fail now and then.
* *Versions*: three of them give every order of the installed one, the expected
  one and the minimum; every pair of relationships, none and an invalid one
  included.
* *Checks*: three members distinguish none, exactly one, some and all. Checks
  share no state, so one of them is enough.

No state constraint and no symmetry is used. `CHECK_DEADLOCK FALSE` is given
where the system really stops: a check that is done, a caller that cancelled
while `Put` waits for room, a leaked dispatcher, and a service whose clients
have all returned or whose lock is lost. `Terminated`, `Finished`
and `Done` are stutters that stand for a program that is through.

### Fairness

* `AppRun`: weak fairness of `Run`, of the dispatcher, of each worker and of the
  counting goroutines together. The Go scheduler runs what can run, timers
  fire, and it is assumed that a check's `Run` returns or panics. Nothing makes
  the caller cancel and no `select` is fair between its ready cases. No strong
  fairness is assumed: once the submissions are over, a goroutine that waits
  for the lock stays enabled but for the short time `Results` holds it, and
  while they last, each counting goroutine's step is enabled until taken or
  until `Put` holds the lock again, which it does finitely often.
* `ConfigStore`: generators, unlocks and a waiting `Reload` go on, and consumers
  drain their streams, as all in the source do. Nobody has to edit the file or
  to ask for a reload.
* `RemoteRun`: weak fairness of each create request, of the dispatcher, of each
  worker and of each client's next step, and that a request whose context is
  done returns. A context never has to expire.
  `RunEnds` rests on the timeout of the service's wait, which is a timer.
* `Producers`, `Checks`: the goroutines run on; nobody has to populate again.

## Findings

* `cancelled_nil`: `app.go:104` ignores the result of `WaitCtxInterval`, and the
  `Results` goroutine stops at once on a context that is done, so a cancelled
  run returns nil, where `app.go:67-70` promises an error for "any problems with
  test execution". The process exits 0 though checks never ran.
* `early_return`: the dispatcher's send in `pool/local.go:83` does not watch the
  context. If the workers have left when `Run` returns early, it blocks for
  ever, though `app.go:77` means to "clean up after ourselves if we return
  early". After a run that waited, the pool does stop (`PoolStops`).
* `config_reload`: `Reload` parses into the maps it has. A test that is still in
  the file is refused as a duplicate and keeps its old definition, so `Reload`
  reports an error for nearly every file, and removed tests stay. The other
  side of it is `JobsAreStable`: jobs a run may hold are never swapped.
* `remote_hangs`: `getJobFromIds` sends the errors of `FetchJob` on an unbuffered
  channel (`client.go:132`) that `Run` reads only after it returned. One failed
  fetch blocks the client for ever, though `client.go:58-60` says that it waits
  "until the context expires".
* `producers_report`: `Report.Populate` keeps `&check` of its loop variable, one
  variable for all iterations in the Go versions this repository is built with.
* `producers_repopulate`: `GoTest.Populate` overwrites `numFailed` but appends
  to its buffer, so `Print` shows earlier failures and returns nil.

## Theorems

`AppRun_proofs` proves, for any jobs, selections, number of workers and buffer
sizes, with or without cancellation, from the constants' assumptions
(`QueueAssumption`, `RunAssumption`) alone:

| Theorem | Says |
|---|---|
| `ShapeInvariant`, `TypeCorrect` | every reachable state has its types; a goroutine holds a job exactly when its program counter says so |
| `JobsAreKept` | `NoJobLost`: a registered job is being sent, in the channel, with the dispatcher or a worker, or complete |
| `CounterIsSafe` | `NeverOvercounts`: counted + about to be counted + in flight never exceed the registered jobs |
| `WaitIsSound` | `WaitIsComplete`: a wait that says complete left no job incomplete and the pool empty |
| `NilIsSound` | `NilMeansAllPassed`: an uncancelled run that returns nil submitted every selected test, and each completed and passed |

The argument. `TypeOK` is not inductive: `Dispatch` needs to know that the
dispatcher's job is one. `Shape` adds that (`Holdings`). `NoJobLost` is not
either: a worker that is about to leave its job must have it completed, which is
`Marked`; both form `Kept`. `NeverOvercounts` is inductive over `Shape`: each step
moves one unit from one summand to the next, and `Dropped`, the difference, stays
or grows by one (a job that was complete before it was dispatched is never
counted, which is why it is an inequality). `WaitIsComplete` follows when the
timer fires: `IsComplete` says that the counter has reached the number of
registered jobs, so by `NeverOvercounts` nothing is in flight, and by `NoJobLost`
a job that is nowhere is complete (lemma `CompleteMeansDone`). From then on the
pool is `Quiet` and changes no result (`PoolQuiet`), so what `Results` scans is
what the verdict is about. `Progress` puts this together with Run's own
bookkeeping.

`AppRun_once_proofs` builds on it:

| Theorem | Says |
|---|---|
| `OneHolderHolds` | `OneHolder`: a job is in one place at most, the channel, the dispatcher, a worker or `Put`'s hands |
| `NothingRunsTwice` | `NeverRerun`: no worker starts a check that is complete |
| `ResultsStay` | `ResultsAreFinal`: a complete check stays so and keeps its result |
| `ErrorsAreJustified` | `ErrorHasReason`: an error has a bad selection, a failed check or failed output behind it |
| `RunKeepsPromise` | without cancellation and for jobs that are new, every step is one of `RunPromise` or a stutter |
| `EveryJobIsCounted` | for jobs that are new, `Dropped = 0`: the inequality of `NeverOvercounts` is an equality |
| `EveryStepIsWork` | `Work`, a natural number, falls with every step but the stutters |
| `RunIsNeverStuck` | for jobs that are new, an uncancelled run that has not returned, or its pool, can move |
| `CancelledRunCanMove` | a cancelled run can move at every place but `Put`'s send |
| `NoGoroutineIsLeaked` | after a run that waited has returned, its pool has stopped or can move |

The invariant is `Once`. Its first half, `Single`, says that all the places a job
can be in are disjoint, for which the list lemmas (`AppendDistinct`,
`TailDistinct`) say what a queue without repetition keeps. Its second,
`Fresh`, says that a job in hand that has not been marked is not complete: the
dispatcher drops complete ones when it takes them, and from there on only the
holder could complete it, of which `Single` leaves one. The refinement adds
`Submission`, which relates how far `Run` has come in its stream to what the
promise calls a flaw of the selection: an error of `Put` means that an item
came up before, and without errors no two are equal. A step that marks a job is
the abstract `Finish` of it (`MarkFinishes`); all others but the return stutter.

The last five are the part of `RunReturns`, `CancelEndsWait` and `PoolStops` that
is safety: a run does a finite amount of work, and while it is not over something
can be done. `Work` charges an item of the stream with all the steps its job can
cause (10), a job in the channel with those that are left to it (7), and the
goroutines with the way to their end; a panic costs its worker two more places,
which the charge covers. Of `RunIsNeverStuck` the hard cases are `Put` that waits
for room and `Run` that waits for the counter. In the first a full channel keeps
the dispatcher busy, and the dispatcher a worker. In the second, if the pool
cannot move, nothing is in flight and no goroutine waits to count; then
`EveryJobIsCounted` makes the counter equal to the map's size, so the wait is
over. On a configuration that ran before, this is false, since dropped jobs are
never counted: there the wait ends with the context only, which is why the theorem
assumes `AlreadyRun = {}`. What makes the steps happen is fairness, and stays with
TLC. Since ENABLED is out of the prover's reach, `RunCanMove` and `PoolCanMove`
spell the guards of the actions out.

`RemoteRun_proofs`, from `LimitedAssumption` and `RemoteAssumption`, for any
clients, checks, workers and capacity:

| Theorem | Says |
|---|---|
| `TypeCorrect` | types; neither channel of the queue exceeds its capacity |
| `WaitIsSound` | `WaitOkIsSound`: an answer of completion covers all that the asking client submitted |
| `ClientVerdictIsSound` | `VerdictIsSound`: nil means that every selected check was submitted and passed, and an error after a complete wait has a failed check or failed output behind it |
| `ForgottenIsOld` | `PanicMeansForgotten`: a result is gone only after as many jobs finished as the capacity |
| `LockIsGivenBack` | a lock that a worker keeps is that of a queue of capacity one |
| `PoolIsNeverStuck` | with a larger capacity, the pool can move while a job is pending |
| `ClientIsNeverStuck` | with a larger capacity, a client that has not ended can move, or the handler it waits for can |
| `ClientsGoForward` | `ClientLeft(c)`, a natural number, falls with every step of client `c` |
| `ServiceDrains` | `QueueLeft`, a natural number, rises by eight with a submission and falls with every step of the service |

The invariant has a part for the queue and one for each client. `Single` is what
`Once` is for the local queue. `Stored` says that a job is in the map from the
moment its `Put` has answered until it was pushed out of `toDelete`, which takes
`capacity` finished jobs: it holds although a worker may finish a job before `Put`
stores it, since `Complete` stores what it finished. `CompleteMeansDone` then
reads the service's arithmetic: if the map and the eviction channel are of one
size, every stored job is complete, and so is every accepted one. `ClientOK` says
what a client knows at each place; it only mentions facts that other clients and
the queue never take back (`Onwards`: accepted, completed and passed jobs stay
so), which is why the steps of others cannot disturb it. Job IDs are unique in the
source (the client adds a UUID to each name, `client.go:82`), which
`RemoteAssumption` states; by `SubmitOnce` no job is submitted twice.

The last five are the safety part of `RunEnds`, which is about capacities above
one as they are. `Served` adds what waiting rests on: a goroutine that waits holds
no job, the map has nothing `Put` has not sent, so no lookup meets its own job,
and a client waits for a handler only after the request reached it. `QueueLeft`
counts requests and workers by where they are, so the proof is about the
cardinality of finite sets that differ in one element (`OneDiffers`); that few
jobs have been submitted at any time, `FewRequests`, makes them finite also if
`Jobs` is not. The end a client comes to includes the hang that is a finding and
the panic on a forgotten job.

`Retention_proofs` adds `QueueKeepsRetention`: every step of `RemoteRun` is a step
of `Retention` or a stutter. Pending jobs are those whose `Put` has sent them and
that have not finished; the proof shows that these are exactly the ones in the
channel, with the dispatcher or being run, that sending one accepts it, that
`Complete` finishes it and drops the first of the remembered ones only if they are
too many, and that nothing else is visible.

`Checks_proofs`, from `ChecksAssumption`, for groups of any length, any stages,
versions and requirements:

| Theorem | Says |
|---|---|
| `TypeCorrect` | types; nothing is probed past the last member, and errors are bounded by the members |
| `VerdictIsSound` | `PassedIffMet`: a complete check passed exactly if the answers it got meet what its type promises |
| `ErrorIffFailed` | `FailureHasItsError`: a check that ended shows a pass or an error, never both, never neither |
| `VerdictIsFinal` | `CompletedIsFinal`: a complete check keeps its verdict |
| `CheckIsNeverStuck` | a check that has not ended can take a step |
| `ChecksGoForward` | `CheckLeft(c)`, a natural number, falls with the steps of check `c` and with no other |

Here the invariant says, for each place a check can be at, how its flag, its
errors and its answers agree (`RunningOK`, `PanickedOK`, `DoneOK`). The center is
`DecisionIffMet`: what the code computes (counts for groups in `GroupDecides`, two
comparisons with defaults for versions in `RangeDecides`, the last stage for the
others) is what `Met` states over the answers themselves. Checks share nothing,
so each step is proved for the one that takes it (`Locally`).

`Producers_proofs`, from `ProducersAssumption`, for any format, batches and number
of calls of `Populate`:

| Theorem | Says |
|---|---|
| `TypeCorrect` | types |
| `NilIsJustified` | `NilIsSound`: nil means that all jobs of the last batch are checks that passed, that `Print` did not give up, and that the file holds what was printed, or for the log formats that it was opened |
| `ErrorIsJustified` | `ErrorHasReason`: the first collection errs only for a job that is no check or did not pass, or for an error of `Print` or `ToFile` themselves |
| `FileFollowsPrint` | `FileIsAttempted`: the file is attempted whatever `Print` said, and one that is not as it should be is an error, where the format hears of it |
| `EverythingIsShown` | `NothingIsHidden`: unless `Print` gave up, every check of the last batch that may not be suppressed is shown, and of a first batch nothing else, and nothing twice |
| `EveryStepDrains` | between two calls of `Populate`, `Left` falls with every step |
| `NobodyIsLeftBehind` | the converter is gone when `Populate` has returned, and until the results are returned it or the caller can move |

`Flow` is the invariant: what the converter took from the batch was kept by what
it is (`Accounted`), a producer that was populated once holds nothing from
elsewhere (`FirstOnly`), and when `Populate` has returned without an error, a
failure in the batch is remembered where the format looks for it (`Collected`).

For `EverythingIsShown`, `Held` says that each wanted check the converter took is
in the content or in its hand, and of a first batch counts them, so that nothing
is shown twice. From the content to what is rendered, `FlattenElements` and
`FlattenCounts` of `ListFacts` say what the two lists of the log formats hold.
That names of a batch differ is what lets an item be found again by its name.

`ConfigStore_proofs`, from `ConfigAssumption`, for any names, suites, documents,
streams and number of reloads:

| Theorem | Says |
|---|---|
| `TypesHold` | types; what is received and what is pending are lists of tests of the configuration, or errors |
| `ReadersExcludeReload` | while a generator sends, no step changes the configuration: it holds its lock (`Locked`), and only the parse of a reload writes |
| `DefinitionsStay` | `JobsAreStable`: a name keeps its definition across reloads |
| `SuitesOnlyGrow` | a step extends each suite at its end or leaves it |
| `OneConfiguration` | `OneConfigPerGenerator`: what was sent and what is pending are the answer of the configuration as it is |
| `SuitesAnswerOnce` | `OncePerStream`: no test twice from any number of suites that overlap |
| `SuitesAreTheirMembers` | `SuiteIsItsMembers`: exactly the members that exist, and an error if and only if something is missing |
| `EveryNameIsAnswered` | one item for each name asked for, in order |
| `NobodyIsVacuous` | `NeverVacuous`: only a request for nothing gets nothing |
| `HoldersNeverWait` | a generator that holds the read lock does not ask for it again |
| `ConfigIsNeverStuck` | while a stream is open, a reload waits or an unlock is due, something can move |
| `StreamsGoForward` | with each step of a stream `TurnsLeft` falls, or it stays and what is pending gets shorter |

The invariant `SInv` has `OneConfigPerGenerator` at its center. A generator's list
is evaluated when it gets the lock; as it holds it until the list is sent, no
reload changes what the list would be now (`SameAnswer`, from `IInv`), so what was
received is a beginning of an answer that the lemmas on `TestsForSuites` describe:
it repeats nothing (`AnswersOnce`), consists of the entries of the walk
(`AnswersEntries`, `EntriesAre`), and is empty only if no suite was asked for
(`AnswersSomething`: a suite that is missing is an error, and one that exists has
a member, since only a test that lists it creates it). `Fresh` says that a phase
starts from nothing, `Fed` that a phase that is over has answered. `Turns` orders
the locks that a stream holds: its generators come one after the other, so one
that waits for the lock belongs to a stream that holds it, if at all, for an
earlier phase, whose unlock waits for nobody. The measure of a stream has two
parts, since nothing bounds what a reload adds to a phase that is yet to start.

`ListFacts` proves by induction what `FlattenSeq` returns: its type, its elements,
and, if the parts have one element at most, its length and the order of what it
selects. The induction theorems of the library take an operator, which the
provers here cannot instantiate; `SetInduction` is about a set of naturals
instead, and follows from the well-foundedness of the subset ordering on a finite
set. So no fact about lists is taken on trust.

## What is only model-checked, and what is not modelled

Every invariant and every action property of a passing run is a theorem. Only
checked by TLC is liveness (`RunReturns`, `PoolStops`, `CancelEndsWait`,
`StreamsEnd`, `ReloadEnds`, `ConverterEnds`, `StartedCompletes`, `RunEnds`, and
the liveness that `KeepsPromise` and `KeepsRetention` include), which is out of
the prover's reach as fairness and ENABLED are. The theorems about work and about
what is never stuck leave of it only that what can move does. RECURSIVE operators
cost the prover its main backend and are in no module.

Not modelled:

* text, messages and timing of outputs; what external programs do (arbitrary
  answers instead); temporary files of the compilers;
* formats of the configuration file and its options block. A decoder that
  reuses the memory of the previous document when a new one leaves fields out
  is avoided by documents that give every field;
* `SetRunner`, `Get` and `JobStats` of the local queue, which a run never calls;
* the configuration builder: `Conf` copies the raw tests into a nil slice, which
  copies none, and dereferences options nobody set, so no state follows it;
* a `Put` blocked by a context that is done: the model lets it happen and
  promises nothing about it;
* of the service: the status of a single job and the wait for one, which the
  client does not use; reopening with another `ServiceInfo` and closing, which
  the command never does while clients run; the endpoints that describe the
  operating system;
* the checks of Windows (`compile_windows.go`, `limit_windows.go`), which are not
  built on the platforms modelled; the command line but for the default of the
  selection; logging; build scripts.

## Plan

The order in which the modules were written is the order in which the parts
matter: the run with its queue and its promise, the configuration it reads, the
producers that make its verdict visible, the checks, then the service with its
clients and what its queue promises. Each was checked by TLC first, then proved
about where the prover reaches. What a further step would take:

1. That the service remembers a job for as long as `Retention` says, as an invariant
   over what a client may still fetch; that a reload which reports no error has
   resolved every test of its file; both stated first for TLC.
2. For a cancelled run that `Put` keeps, what it takes for it to go on
   (`CancelledRunCanMove` excludes it).
3. A service whose configuration is run by adhoc requests in a queue that is
   started, should the code come to start it.
4. The status and wait handlers of a single job, should a client come to use
   them.
