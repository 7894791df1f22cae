----------------------------- MODULE LocalQueue -----------------------------
(***************************************************************************)
(* amboy's LocalUnordered queue and its localWorkers pool, the in-process  *)
(* job queue that a greenbay run is built on.  The module holds the state  *)
(* of the queue, one action per step of each of its goroutines (the        *)
(* dispatcher, the workers and the goroutines Complete spawns) and the     *)
(* operations a client calls.  It has no specification of its own: AppRun  *)
(* adds the client.                                                        *)
(*                                                                         *)
(* A goroutine's step is atomic between two points where it can block or   *)
(* be observed: a channel operation, the tasks lock, or a write that       *)
(* another goroutine reads.                                                *)
(***************************************************************************)
EXTENDS Integers, Sequences, FiniteSets

CONSTANTS
    Jobs,        \* the jobs of the configuration, one per test name
    NoJob,       \* what a goroutine that holds no job holds
    NumWorkers,  \* the number of workers that was asked for
    MinBuffer,   \* the smallest capacity of the channel (8 in the code)
    MaxBuffer,   \* the largest (64 in the code)
    AlreadyRun   \* jobs an earlier run of the same configuration completed

ASSUME QueueAssumption ==
    /\ NoJob \notin Jobs
    /\ NumWorkers \in Int
    /\ MinBuffer \in Nat \ {0}
    /\ MaxBuffer \in Nat \ {0}
    /\ AlreadyRun \subseteq Jobs

PoolSize == IF NumWorkers <= 0 THEN 1 ELSE NumWorkers

Workers == 1..PoolSize

AtMost(n, bound) == IF n > bound THEN bound ELSE n

AtLeast(n, bound) == IF n < bound THEN bound ELSE n

BufferSize == AtLeast(AtMost(2 * NumWorkers, MaxBuffer), MinBuffer)

VARIABLES
    tasks,         \* the jobs registered in the queue (keys of tasks.m)
    lock,          \* who holds the tasks mutex across more than one step
    channel,       \* the buffered channel of submitted jobs
    numCompleted,  \* the counter that Stats reports
    completers,    \* goroutines spawned by Complete that have not run yet
    dispatcher,    \* the goroutine of startWorkerServer: [pc, job]
    worker,        \* the pool: [pc, job] of each worker goroutine
    completed,     \* jobs whose Status().Completed is set
    passed,        \* jobs whose check reported success
    ctxDone        \* the context of the run is done

queueVars == <<tasks, lock, channel, numCompleted, completers, dispatcher,
               worker, completed, passed, ctxDone>>

At(pc, j) == [pc |-> pc, job |-> j]

DispatcherPcs == {"select", "next", "send", "exited"}

WorkerPcs == {"select", "run", "deferred", "unwinding", "finished",
              "recovering", "exited"}

QueueTypeOK ==
    /\ tasks \subseteq Jobs
    /\ lock \in {"free", "put", "results"}
    /\ channel \in Seq(Jobs)
    /\ numCompleted \in Nat
    /\ completers \in Nat
    /\ dispatcher \in [pc : DispatcherPcs, job : Jobs \cup {NoJob}]
    /\ worker \in [Workers -> [pc : WorkerPcs, job : Jobs \cup {NoJob}]]
    /\ completed \subseteq Jobs
    /\ passed \subseteq Jobs
    /\ ctxDone \in BOOLEAN

QueueInit ==
    /\ tasks = {}
    /\ lock = "free"
    /\ channel = <<>>
    /\ numCompleted = 0
    /\ completers = 0
    /\ dispatcher = At("select", NoJob)
    /\ worker = [w \in Workers |-> At("select", NoJob)]
    /\ completed = AlreadyRun
    /\ passed \in SUBSET AlreadyRun
    /\ ctxDone = FALSE

-----------------------------------------------------------------------------
(* Operations the client calls.                                            *)

\* Mutant: Put does not look for a job of that name.
PutStore_NoNameCheck(j) ==
    /\ lock = "free"
    /\ tasks' = tasks \cup {j}
    /\ lock' = "put"
    /\ UNCHANGED <<channel, numCompleted, completers, dispatcher, worker,
                   completed, passed, ctxDone>>

\* Put takes the lock, finds no job of that name, and registers the job.
PutStore(j) ==
    /\ lock = "free"
    /\ j \notin tasks
    /\ tasks' = tasks \cup {j}
    /\ lock' = "put"
    /\ UNCHANGED <<channel, numCompleted, completers, dispatcher, worker,
                   completed, passed, ctxDone>>

\* ... and then, still holding the lock, sends it on the bounded channel.
PutSend(j) ==
    /\ lock = "put"
    /\ Len(channel) < BufferSize
    /\ channel' = Append(channel, j)
    /\ lock' = "free"
    /\ UNCHANGED <<tasks, numCompleted, completers, dispatcher, worker,
                   completed, passed, ctxDone>>

\* Put refuses a name that is registered already.
PutRefused(j) == lock = "free" /\ j \in tasks

\* Mutant: an empty channel is taken to mean that all is complete.
IsComplete_ChannelEmpty == channel = <<>>

\* Stats().isComplete(), no job of this queue ever being blocked.
IsComplete == Cardinality(tasks) <= numCompleted

-----------------------------------------------------------------------------
(* The dispatcher, which moves jobs from the channel to the workers.       *)

dispatcherOnly == <<tasks, lock, numCompleted, completers, completed, passed,
                    ctxDone>>

\* Mutant: the dispatcher's loop does not watch the context.
DispatcherSelect_IgnoresContext ==
    /\ dispatcher.pc = "select"
    /\ dispatcher' = At("next", NoJob)
    /\ UNCHANGED <<channel, worker, dispatcherOnly>>

DispatcherSelect ==
    /\ dispatcher.pc = "select"
    /\ dispatcher' = At(IF ctxDone THEN "exited" ELSE "next", NoJob)
    /\ UNCHANGED <<channel, worker, dispatcherOnly>>

\* Next returns nil because the context is done.
NextCancelled ==
    /\ dispatcher.pc = "next"
    /\ ctxDone
    /\ dispatcher' = At("select", NoJob)
    /\ UNCHANGED <<channel, worker, dispatcherOnly>>

\* Next may return a job even when the context is done: select chooses.
NextJob ==
    /\ dispatcher.pc = "next"
    /\ channel # <<>>
    /\ Head(channel) \notin completed
    /\ channel' = Tail(channel)
    /\ dispatcher' = At("send", Head(channel))
    /\ UNCHANGED <<worker, dispatcherOnly>>

\* A job that is completed already is dropped, and nothing calls Complete.
SkipCompleted ==
    /\ dispatcher.pc = "next"
    /\ channel # <<>>
    /\ Head(channel) \in completed
    /\ channel' = Tail(channel)
    /\ dispatcher' = At("select", NoJob)
    /\ UNCHANGED <<worker, dispatcherOnly>>

\* Mutant: Run calls MarkComplete first instead of deferring it.
Dispatch_MarkedFirst(w) ==
    /\ dispatcher.pc = "send"
    /\ worker[w].pc = "select"
    /\ worker' = [worker EXCEPT ![w] = At("run", dispatcher.job)]
    /\ completed' = completed \cup {dispatcher.job}
    /\ dispatcher' = At("select", NoJob)
    /\ UNCHANGED <<tasks, lock, channel, numCompleted, completers, passed,
                   ctxDone>>

\* The unbuffered channel between the dispatcher and the pool.  The send does
\* not watch the context.
Dispatch(w) ==
    /\ dispatcher.pc = "send"
    /\ worker[w].pc = "select"
    /\ worker' = [worker EXCEPT ![w] = At("run", dispatcher.job)]
    /\ dispatcher' = At("select", NoJob)
    /\ UNCHANGED <<channel, dispatcherOnly>>

-----------------------------------------------------------------------------
(* A worker: run the job, whose deferred MarkComplete sets its status, then *)
(* report it to the queue.                                                 *)

workerOnly == <<tasks, lock, channel, numCompleted, dispatcher, ctxDone>>

WorkerExit(w) ==
    /\ worker[w].pc = "select"
    /\ ctxDone
    /\ worker' = [worker EXCEPT ![w] = At("exited", NoJob)]
    /\ UNCHANGED <<completers, completed, passed, workerOnly>>

\* The body of Run ends with setState(ok).
RunBody(w, ok) ==
    /\ worker[w].pc = "run"
    /\ passed' = IF ok THEN passed \cup {worker[w].job}
                       ELSE passed \ {worker[w].job}
    /\ worker' = [worker EXCEPT ![w].pc = "deferred"]
    /\ UNCHANGED <<completers, completed, workerOnly>>

\* Mutant: MarkComplete is not deferred, and the panic kills the worker's job.
RunPanics_NotDeferred(w) ==
    /\ worker[w].pc = "run"
    /\ worker' = [worker EXCEPT ![w] = At("select", NoJob)]
    /\ UNCHANGED <<completers, completed, passed, workerOnly>>

\* The body of Run panics before it sets a state.
RunPanics(w) ==
    /\ worker[w].pc = "run"
    /\ worker' = [worker EXCEPT ![w].pc = "unwinding"]
    /\ UNCHANGED <<completers, completed, passed, workerOnly>>

\* MarkComplete is deferred, so it runs on both paths.
MarkComplete(w) ==
    /\ worker[w].pc \in {"deferred", "unwinding"}
    /\ completed' = completed \cup {worker[w].job}
    /\ worker' = [worker EXCEPT ![w].pc =
                    IF @ = "deferred" THEN "finished" ELSE "recovering"]
    /\ UNCHANGED <<completers, passed, workerOnly>>

\* Mutant: Complete takes the lock in the worker instead of in a goroutine.
Complete_Synchronous(w) ==
    /\ worker[w].pc = "finished"
    /\ lock = "free"
    /\ numCompleted' = numCompleted + 1
    /\ worker' = [worker EXCEPT ![w] = At("select", NoJob)]
    /\ UNCHANGED <<tasks, lock, channel, completers, dispatcher, completed,
                   passed, ctxDone>>

\* Run returned: the worker calls q.Complete, which spawns a goroutine.
Complete(w) ==
    /\ worker[w].pc = "finished"
    /\ completers' = completers + 1
    /\ worker' = [worker EXCEPT ![w] = At("select", NoJob)]
    /\ UNCHANGED <<completed, passed, workerOnly>>

\* Run panicked: the deferred function of the worker completes the job and
\* starts a replacement worker, which takes this one's place.
Recover(w) ==
    /\ worker[w].pc = "recovering"
    /\ completers' = completers + 1
    /\ worker' = [worker EXCEPT ![w] = At("select", NoJob)]
    /\ UNCHANGED <<completed, passed, workerOnly>>

\* Mutant: the counter moves without a goroutine of Complete behind it.
CountCompleted_Unprompted ==
    /\ lock = "free"
    /\ completers' = completers - 1
    /\ numCompleted' = numCompleted + 1
    /\ UNCHANGED <<tasks, lock, channel, dispatcher, worker, completed,
                   passed, ctxDone>>

\* A goroutine of Complete gets the lock and counts its job.
CountCompleted ==
    /\ completers > 0
    /\ lock = "free"
    /\ completers' = completers - 1
    /\ numCompleted' = numCompleted + 1
    /\ UNCHANGED <<tasks, lock, channel, dispatcher, worker, completed,
                   passed, ctxDone>>

-----------------------------------------------------------------------------

DispatcherStep ==
    \/ DispatcherSelect
    \/ NextCancelled
    \/ NextJob
    \/ SkipCompleted

WorkerStep(w) ==
    \/ Dispatch(w)
    \/ WorkerExit(w)
    \/ \E ok \in BOOLEAN : RunBody(w, ok)
    \/ RunPanics(w)
    \/ MarkComplete(w)
    \/ Complete(w)
    \/ Recover(w)

QueueStep ==
    \/ DispatcherStep
    \/ CountCompleted
    \/ \E w \in Workers : WorkerStep(w)

=============================================================================
