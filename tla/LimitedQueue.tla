---------------------------- MODULE LimitedQueue ----------------------------
(***************************************************************************)
(* amboy's LocalLimitedSize, the queue a greenbay service runs the checks  *)
(* of its clients on: a bounded channel of submitted jobs, a map of jobs   *)
(* that clients fetch results from, and the order in which finished jobs   *)
(* are forgotten again.  The pool is the one of LocalQueue; what differs   *)
(* is that Put stores a job after it has sent it, and that the worker      *)
(* itself calls Complete and waits for the lock in it.                     *)
(*                                                                         *)
(* Each request to create a job is served by a goroutine of its own, kept  *)
(* per job: a client gives every job it submits an ID nobody else uses.    *)
(* So Put never finds the name taken and the dispatcher never meets a job  *)
(* that is complete already; their guards are here, their refusals are     *)
(* not.  The service's context ends with its process.                      *)
(*                                                                         *)
(* The module has no specification of its own: RemoteRun adds the clients. *)
(***************************************************************************)
EXTENDS Integers, Sequences, FiniteSets

CONSTANTS
    Jobs,        \* the jobs clients may submit, each with an ID of its own
    NoJob,       \* what a goroutine that holds no job holds
    NumWorkers,  \* the workers of the pool (--jobs)
    Capacities   \* the capacities the service may be given (--cache)

ASSUME LimitedAssumption ==
    /\ NoJob \notin Jobs
    /\ NumWorkers \in Nat \ {0}
    /\ Capacities \subseteq Nat \ {0}

Workers == 1..NumWorkers

VARIABLES
    capacity,    \* the capacity of the queue
    storage,     \* the jobs of the map, those that Get finds
    channel,     \* the submitted jobs
    toDelete,    \* the finished jobs, in the order they are to be forgotten
    mu,          \* "held" by a worker that blocks inside Complete, or "free"
    put,         \* per job: how far its create request has come
    dispatcher,  \* the goroutine of startWorkerServer: [pc, job]
    worker,      \* the pool: [pc, job] of each worker goroutine
    completed,   \* jobs whose Status().Completed is set
    passed       \* jobs whose check reported success

queueVars == <<capacity, storage, channel, toDelete, mu, put, dispatcher,
               worker, completed, passed>>

At(pc, j) == [pc |-> pc, job |-> j]

PutStates == {"idle", "lookup", "send", "store", "accepted", "refused"}

QueueTypeOK ==
    /\ capacity \in Capacities
    /\ storage \subseteq Jobs
    /\ channel \in Seq(Jobs) /\ Len(channel) <= capacity
    /\ toDelete \in Seq(Jobs) /\ Len(toDelete) <= capacity
    /\ mu \in {"free", "held"}
    /\ put \in [Jobs -> PutStates]
    /\ dispatcher \in [pc : {"next", "send"}, job : Jobs \cup {NoJob}]
    /\ worker \in [Workers -> [pc : {"select", "run", "finished", "blocked"},
                               job : Jobs \cup {NoJob}]]
    /\ completed \subseteq Jobs
    /\ passed \subseteq Jobs

\* OpenInfo has made the queue and started it.
QueueInit ==
    /\ capacity \in Capacities
    /\ storage = {}
    /\ channel = <<>>
    /\ toDelete = <<>>
    /\ mu = "free"
    /\ put = [j \in Jobs |-> "idle"]
    /\ dispatcher = At("next", NoJob)
    /\ worker = [w \in Workers |-> At("select", NoJob)]
    /\ completed = {}
    /\ passed = {}

-----------------------------------------------------------------------------
(* The handler of a create request.                                        *)

Answer(j, state) == put' = [put EXCEPT ![j] = state]

\* The handler reads the queue's status and then looks the name up, both under
\* the read lock, which it gives back before it goes on.
PutLookup(j) ==
    /\ put[j] = "lookup"
    /\ mu = "free"
    /\ j \notin storage
    /\ Answer(j, "send")
    /\ UNCHANGED <<capacity, storage, channel, toDelete, mu, dispatcher,
                   worker, completed, passed>>

\* Mutant: the channel takes any number of jobs.
PutSend_NoLimit(j) ==
    /\ put[j] = "send"
    /\ channel' = Append(channel, j)
    /\ Answer(j, "store")
    /\ UNCHANGED <<capacity, storage, toDelete, mu, dispatcher, worker,
                   completed, passed>>

\* A send that does not wait: the queue is full, or a worker may have the job
\* before the handler takes another step.
PutSend(j) ==
    /\ put[j] = "send"
    /\ \/ /\ Len(channel) < capacity
          /\ channel' = Append(channel, j)
          /\ Answer(j, "store")
       \/ /\ Len(channel) = capacity
          /\ Answer(j, "refused")
          /\ UNCHANGED channel
    /\ UNCHANGED <<capacity, storage, toDelete, mu, dispatcher, worker,
                   completed, passed>>

\* Put stores the job, wherever it has got to meanwhile.
PutStore(j) ==
    /\ put[j] = "store"
    /\ mu = "free"
    /\ storage' = storage \cup {j}
    /\ Answer(j, "accepted")
    /\ UNCHANGED <<capacity, channel, toDelete, mu, dispatcher, worker,
                   completed, passed>>

PutStep(j) == PutLookup(j) \/ PutSend(j) \/ PutStore(j)

-----------------------------------------------------------------------------
(* The dispatcher and the workers.                                         *)

\* Next takes a job off the channel.
NextJob ==
    /\ dispatcher.pc = "next"
    /\ channel # <<>>
    /\ Head(channel) \notin completed
    /\ channel' = Tail(channel)
    /\ dispatcher' = At("send", Head(channel))
    /\ UNCHANGED <<capacity, storage, toDelete, mu, put, worker, completed,
                   passed>>

\* The dispatcher hands its job to a worker that is waiting for one.
Dispatch(w) ==
    /\ dispatcher.pc = "send"
    /\ worker[w].pc = "select"
    /\ worker' = [worker EXCEPT ![w] = At("run", dispatcher.job)]
    /\ dispatcher' = At("next", NoJob)
    /\ UNCHANGED <<capacity, storage, channel, toDelete, mu, put, completed,
                   passed>>

\* The check finds what it looks for and sets its state to passed.  One that
\* does not leaves the state as it was, not passed.
SetState(w) ==
    /\ worker[w].pc = "run"
    /\ worker[w].job \notin passed
    /\ passed' = passed \cup {worker[w].job}
    /\ UNCHANGED <<capacity, storage, channel, toDelete, mu, put, dispatcher,
                   worker, completed>>

\* The check ends, well or not, or panics, before or after it has set a state:
\* its deferred MarkComplete runs in every case.
MarkComplete(w) ==
    /\ worker[w].pc = "run"
    /\ completed' = completed \cup {worker[w].job}
    /\ worker' = [worker EXCEPT ![w].pc = "finished"]
    /\ UNCHANGED <<capacity, storage, channel, toDelete, mu, put, dispatcher,
                   passed>>

CompleteFrame ==
    UNCHANGED <<capacity, channel, put, dispatcher, completed, passed>>

\* Mutant: Complete does not save the job, which Put is about to store anyway.
Complete_NotSaved(w) ==
    LET full == Len(toDelete) = capacity - 1
    IN  /\ worker[w].pc = "finished"
        /\ mu = "free"
        /\ full => toDelete # <<>>
        /\ storage' = storage \ (IF full THEN {Head(toDelete)} ELSE {})
        /\ toDelete' = Append(IF full THEN Tail(toDelete) ELSE toDelete,
                              worker[w].job)
        /\ worker' = [worker EXCEPT ![w] = At("select", NoJob)]
        /\ UNCHANGED mu
        /\ CompleteFrame

\* Mutant: a job is forgotten as soon as another one finishes.
Complete_EvictsEarly(w) ==
    LET j == worker[w].job
    IN  /\ worker[w].pc = "finished"
        /\ mu = "free"
        /\ storage' = IF toDelete = <<>> THEN storage \cup {j}
                      ELSE (storage \cup {j}) \ {Head(toDelete)}
        /\ toDelete' = <<j>>
        /\ worker' = [worker EXCEPT ![w] = At("select", NoJob)]
        /\ UNCHANGED mu
        /\ CompleteFrame

\* Mutant: nothing is forgotten before the second channel is full.
Complete_EvictsWhenFull(w) ==
    LET j == worker[w].job
        full == Len(toDelete) = capacity
    IN  /\ worker[w].pc = "finished"
        /\ mu = "free"
        /\ storage' = (storage \cup {j}) \
                          (IF full THEN {Head(toDelete)} ELSE {})
        /\ toDelete' = Append(IF full THEN Tail(toDelete) ELSE toDelete, j)
        /\ worker' = [worker EXCEPT ![w] = At("select", NoJob)]
        /\ UNCHANGED mu
        /\ CompleteFrame

\* Run returned, or the worker's deferred function recovered its panic and
\* starts a replacement: Complete saves the job, forgets the oldest finished
\* one when capacity - 1 of them are kept, and keeps this one.
Complete(w) ==
    LET j == worker[w].job
        full == Len(toDelete) = capacity - 1
    IN  /\ worker[w].pc = "finished"
        /\ mu = "free"
        /\ full => toDelete # <<>>
        /\ storage' = (storage \cup {j}) \
                          (IF full THEN {Head(toDelete)} ELSE {})
        /\ toDelete' = Append(IF full THEN Tail(toDelete) ELSE toDelete, j)
        /\ worker' = [worker EXCEPT ![w] = At("select", NoJob)]
        /\ UNCHANGED mu
        /\ CompleteFrame

\* With a capacity of one there is nothing to forget: Complete receives from
\* an empty channel, and keeps the lock for ever.
CompleteBlocks(w) ==
    /\ worker[w].pc = "finished"
    /\ mu = "free"
    /\ Len(toDelete) = capacity - 1
    /\ toDelete = <<>>
    /\ storage' = storage \cup {worker[w].job}
    /\ mu' = "held"
    /\ worker' = [worker EXCEPT ![w].pc = "blocked"]
    /\ UNCHANGED toDelete
    /\ CompleteFrame

WorkerStep(w) ==
    \/ Dispatch(w)
    \/ SetState(w)
    \/ MarkComplete(w)
    \/ Complete(w)
    \/ CompleteBlocks(w)

QueueStep ==
    \/ \E j \in Jobs : PutStep(j)
    \/ NextJob
    \/ \E w \in Workers : WorkerStep(w)

-----------------------------------------------------------------------------

\* Stats().isComplete(): the map holds no more jobs than have finished.
IsComplete == Cardinality(storage) <= Len(toDelete)

=============================================================================
