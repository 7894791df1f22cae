---------------------------- MODULE AppRun_proofs ----------------------------
(***************************************************************************)
(* Theorems about AppRun, for any set of jobs, any selection of tests, any *)
(* number of workers and any channel capacity, with or without             *)
(* cancellation, on a fresh configuration or on one that was run before.   *)
(***************************************************************************)
EXTENDS AppRun, TLAPS, FiniteSetTheorems

\* The program counters of the goroutines agree with what they hold.
Holdings ==
    /\ lock = "put" <=> pc = "send"
    /\ lock = "results" <=> pc = "scan"
    /\ dispatcher.pc = "send" <=> dispatcher.job # NoJob
    /\ \A w \in Workers :
          worker[w].pc \in {"select", "exited"} <=> worker[w].job = NoJob
    /\ pc = "send" => next <= Len(selection) /\ selection[next] \in tasks
    /\ IsFiniteSet(tasks)

Shape == TypeOK /\ Holdings

-----------------------------------------------------------------------------

LEMMA InitShape == Init => Shape
<1> SUFFICES ASSUME Init PROVE Shape
  OBVIOUS
<1> USE QueueAssumption, RunAssumption DEF QueueAssumption, RunAssumption
<1>1. QueueTypeOK
  <2>1. channel \in Seq(Jobs)
    BY DEF Init, QueueInit
  <2>2. worker \in [Workers -> [pc : WorkerPcs, job : Jobs \cup {NoJob}]]
    BY DEF Init, QueueInit, At, WorkerPcs
  <2>3. dispatcher \in [pc : DispatcherPcs, job : Jobs \cup {NoJob}]
    BY DEF Init, QueueInit, At, DispatcherPcs
  <2> QED
    BY <2>1, <2>2, <2>3 DEF Init, QueueInit, QueueTypeOK
<1>2. TypeOK
  <2>1. selection \in Seq(Jobs \cup {Missing})
    BY DEF Init
  <2>2. next \in 1..(Len(selection) + 1)
    BY <2>1 DEF Init
  <2> QED
    BY <1>1, <2>1, <2>2 DEF Init, TypeOK
<1>3. Holdings
  <2>1. IsFiniteSet(tasks)
    BY FS_EmptySet DEF Init, QueueInit
  <2> QED
    BY <2>1 DEF Init, QueueInit, Holdings, At
<1> QED
  BY <1>2, <1>3 DEF Shape

\* The steps of Run itself keep the types and the holdings.
LEMMA RunShape == Shape /\ (RunStep \/ Cancel) => Shape'
<1> SUFFICES ASSUME Shape, RunStep \/ Cancel PROVE Shape'
  OBVIOUS
<1> USE QueueAssumption, RunAssumption
    DEF Shape, QueueAssumption, RunAssumption
<1>0. /\ QueueTypeOK /\ Holdings
      /\ selection \in Seq(Jobs \cup {Missing})
      /\ Len(selection) \in Nat
      /\ \A i \in 1..Len(selection) : selection[i] \in Jobs \cup {Missing}
  BY DEF TypeOK
<1>1. CASE CollectError
  BY <1>0, <1>1 DEF CollectError, TypeOK, QueueTypeOK, Holdings, queueVars
<1>2. CASE SubmitRefused
  BY <1>0, <1>2 DEF SubmitRefused, TypeOK, QueueTypeOK, Holdings, queueVars
<1>3. CASE SubmitStore
  <2>1. next \in 1..Len(selection) /\ selection[next] \in Jobs
    BY <1>0, <1>3 DEF SubmitStore, TypeOK
  <2>2. IsFiniteSet(tasks \cup {selection[next]})
    BY <1>0, FS_AddElement DEF Holdings
  <2> QED
    BY <1>0, <1>3, <2>1, <2>2
    DEF SubmitStore, PutStore, TypeOK, QueueTypeOK, Holdings
<1>4. CASE SubmitSend
  <2>1. next \in 1..Len(selection) /\ selection[next] \in Jobs
    BY <1>0, <1>4 DEF SubmitSend, TypeOK, QueueTypeOK, Holdings
  <2>2. Append(channel, selection[next]) \in Seq(Jobs)
    BY <1>0, <2>1 DEF QueueTypeOK
  <2>3. lock' = "free" /\ pc' = "collect" /\ next' \in 1..(Len(selection) + 1)
    BY <1>0, <1>4, <2>1 DEF SubmitSend, PutSend
  <2> QED
    BY <1>0, <1>4, <2>1, <2>2, <2>3
    DEF SubmitSend, PutSend, TypeOK, QueueTypeOK, Holdings
<1>5. CASE Collected
  BY <1>0, <1>5 DEF Collected, Return, TypeOK, QueueTypeOK, Holdings
<1>6. CASE WaitComplete
  BY <1>0, <1>6 DEF WaitComplete, TypeOK, QueueTypeOK, Holdings, queueVars
<1>7. CASE WaitAgain
  BY <1>0, <1>7
  DEF WaitAgain, TypeOK, QueueTypeOK, Holdings, vars, runVars, queueVars
<1>8. CASE WaitCancelled
  BY <1>0, <1>8 DEF WaitCancelled, TypeOK, QueueTypeOK, Holdings, queueVars
<1>9. CASE Results
  BY <1>0, <1>9 DEF Results, TypeOK, QueueTypeOK, Holdings
<1>10. ASSUME NEW j \in Jobs, ScanJob(j) PROVE Shape'
  BY <1>0, <1>10 DEF ScanJob, TypeOK, QueueTypeOK, Holdings, queueVars
<1>11. CASE ScanCancelled
  BY <1>0, <1>11 DEF ScanCancelled, TypeOK, QueueTypeOK, Holdings, queueVars
<1>12. ASSUME NEW f \in BOOLEAN, ProduceResults(f) PROVE Shape'
  <2>1. verdict' \in {"none", "nil", "error"}
    BY <1>12 DEF ProduceResults, Return
  <2> QED
    BY <1>0, <1>12, <2>1
    DEF ProduceResults, Return, TypeOK, QueueTypeOK, Holdings
<1>13. CASE Cancel
  BY <1>0, <1>13 DEF Cancel, TypeOK, QueueTypeOK, Holdings
<1> QED
  BY <1>1, <1>2, <1>3, <1>4, <1>5, <1>6, <1>7, <1>8, <1>9, <1>10, <1>11,
     <1>12, <1>13 DEF RunStep

\* So do the steps of the queue's goroutines.
LEMMA PoolShape == Shape /\ PoolStep => Shape'
<1> SUFFICES ASSUME Shape, PoolStep PROVE Shape'
  OBVIOUS
<1> USE QueueAssumption DEF QueueAssumption
<1>0. TypeOK /\ QueueTypeOK /\ Holdings /\ UNCHANGED runVars /\ QueueStep
  BY DEF Shape, TypeOK, PoolStep
<1>1. SUFFICES QueueTypeOK' /\ Holdings'
  <2>1. ASSUME QueueTypeOK' PROVE TypeOK'
    BY <1>0, <2>1 DEF TypeOK, runVars
  <2> QED
    BY <2>1 DEF Shape
<1>2. CASE DispatcherSelect
  BY <1>0, <1>2 DEF DispatcherSelect, dispatcherOnly, At, QueueTypeOK,
     Holdings, DispatcherPcs, runVars
<1>3. CASE NextCancelled
  BY <1>0, <1>3 DEF NextCancelled, dispatcherOnly, At, QueueTypeOK,
     Holdings, DispatcherPcs, runVars
<1>4. CASE NextJob
  <2>1. Head(channel) \in Jobs /\ Tail(channel) \in Seq(Jobs)
    BY <1>0, <1>4 DEF NextJob, QueueTypeOK
  <2> QED
    BY <1>0, <1>4, <2>1 DEF NextJob, dispatcherOnly, At, QueueTypeOK,
       Holdings, DispatcherPcs, runVars
<1>5. CASE SkipCompleted
  <2>1. Tail(channel) \in Seq(Jobs)
    BY <1>0, <1>5 DEF SkipCompleted, QueueTypeOK
  <2> QED
    BY <1>0, <1>5, <2>1 DEF SkipCompleted, dispatcherOnly, At, QueueTypeOK,
       Holdings, DispatcherPcs, runVars
<1>6. CASE CountCompleted
  BY <1>0, <1>6 DEF CountCompleted, QueueTypeOK, Holdings, runVars
<1>7. ASSUME NEW w \in Workers, WorkerStep(w) PROVE QueueTypeOK' /\ Holdings'
  <2>0. worker[w] \in [pc : WorkerPcs, job : Jobs \cup {NoJob}]
    BY <1>0 DEF QueueTypeOK
  <2>1. CASE Dispatch(w)
    BY <1>0, <2>0, <2>1 DEF Dispatch, dispatcherOnly, At, QueueTypeOK,
       Holdings, DispatcherPcs, WorkerPcs, runVars
  <2>2. CASE WorkerExit(w)
    BY <1>0, <2>0, <2>2 DEF WorkerExit, workerOnly, At, QueueTypeOK,
       Holdings, WorkerPcs, runVars
  <2>3. ASSUME NEW ok \in BOOLEAN, RunBody(w, ok)
        PROVE  QueueTypeOK' /\ Holdings'
    <3>1. worker[w].job \in Jobs
      BY <1>0, <2>0, <2>3 DEF RunBody, Holdings
    <3>2. passed' \subseteq Jobs
      BY <1>0, <2>3, <3>1 DEF RunBody, QueueTypeOK
    <3> QED
      BY <1>0, <2>0, <2>3, <3>2 DEF RunBody, workerOnly, QueueTypeOK,
         Holdings, WorkerPcs, runVars
  <2>4. CASE RunPanics(w)
    BY <1>0, <2>0, <2>4 DEF RunPanics, workerOnly, QueueTypeOK, Holdings,
       WorkerPcs, runVars
  <2>5. CASE MarkComplete(w)
    <3>1. worker[w].job \in Jobs
      BY <1>0, <2>0, <2>5 DEF MarkComplete, Holdings
    <3> QED
      BY <1>0, <2>0, <2>5, <3>1 DEF MarkComplete, workerOnly, QueueTypeOK,
         Holdings, WorkerPcs, runVars
  <2>6. CASE Complete(w)
    BY <1>0, <2>0, <2>6 DEF Complete, workerOnly, At, QueueTypeOK, Holdings,
       WorkerPcs, runVars
  <2>7. CASE Recover(w)
    BY <1>0, <2>0, <2>7 DEF Recover, workerOnly, At, QueueTypeOK, Holdings,
       WorkerPcs, runVars
  <2> QED
    BY <1>7, <2>1, <2>2, <2>3, <2>4, <2>5, <2>6, <2>7 DEF WorkerStep
<1> QED
  BY <1>0, <1>2, <1>3, <1>4, <1>5, <1>6, <1>7 DEF QueueStep, DispatcherStep

LEMMA StutterShape == Shape /\ UNCHANGED vars => Shape'
BY DEF Shape, TypeOK, QueueTypeOK, Holdings, vars, runVars, queueVars

LEMMA NextShape == Shape /\ [Next]_vars => Shape'
BY RunShape, PoolShape, StutterShape DEF Next, Terminated

\* The types and the holdings last: a goroutine holds a job exactly while its
\* program counter says so (pool/local.go:66-122), and Run the lock while it sends.
THEOREM ShapeInvariant == Spec => []Shape
BY InitShape, NextShape, PTL DEF Spec

\* Every reachable state is of the declared type: in particular Run never
\* indexes past the stream and no goroutine holds something that is no job.
THEOREM TypeCorrect == Spec => []TypeOK
<1>1. Shape => TypeOK
  BY DEF Shape
<1> QED
  BY <1>1, ShapeInvariant, PTL

-----------------------------------------------------------------------------
(* No registered job is lost.                                              *)

\* A worker past its deferred MarkComplete holds a completed job.
Marked ==
    \A w \in Workers :
        worker[w].pc \in {"finished", "recovering"} =>
            worker[w].job \in completed

Kept == NoJobLost /\ Marked

LEMMA AppendKeeps ==
  ASSUME NEW S, NEW c \in Seq(S), NEW j \in S
  PROVE  /\ \E i \in 1..Len(Append(c, j)) : Append(c, j)[i] = j
         /\ \A k : (\E i \in 1..Len(c) : c[i] = k) =>
                      \E i \in 1..Len(Append(c, j)) : Append(c, j)[i] = k
<1>1. Len(Append(c, j)) = Len(c) + 1 /\ Append(c, j)[Len(c) + 1] = j
  OBVIOUS
<1>2. \A i \in 1..Len(c) : Append(c, j)[i] = c[i]
  OBVIOUS
<1> QED
  BY <1>1, <1>2

LEMMA TailKeeps ==
  ASSUME NEW S, NEW c \in Seq(S), c # <<>>, NEW i \in 1..Len(c),
         c[i] # Head(c)
  PROVE  \E k \in 1..Len(Tail(c)) : Tail(c)[k] = c[i]
<1>1. Len(Tail(c)) = Len(c) - 1 /\ c[1] = Head(c)
  OBVIOUS
<1>2. i - 1 \in 1..Len(Tail(c)) /\ Tail(c)[i - 1] = c[i]
  BY <1>1
<1> QED
  BY <1>2

LEMMA InitKept == Init => Kept
BY DEF Init, QueueInit, Kept, NoJobLost, Marked, At

LEMMA RunKept == Shape /\ Kept /\ (RunStep \/ Cancel) => Kept'
<1> SUFFICES ASSUME Shape, Kept, RunStep \/ Cancel PROVE Kept'
  OBVIOUS
<1> USE DEF Kept, NoJobLost, BeingSent, InChannel, InDispatcher, InPool
<1>0. /\ QueueTypeOK /\ Holdings
      /\ \A j \in tasks :
           BeingSent(j) \/ InChannel(j) \/ InDispatcher(j) \/ InPool(j)
             \/ j \in completed
  BY DEF Shape, TypeOK
<1>1. CASE /\ UNCHANGED <<channel, dispatcher, worker, completed, tasks>>
           /\ ~(lock = "put") /\ ~(lock' = "put")
  BY <1>0, <1>1 DEF Marked
<1>2. CASE SubmitStore
  BY <1>0, <1>2 DEF SubmitStore, PutStore, Marked
<1>3. CASE SubmitSend
  <2>1. selection[next] \in Jobs
    BY <1>0, <1>3 DEF SubmitSend, Holdings, QueueTypeOK
  <2>2. /\ \E i \in 1..Len(channel') : channel'[i] = selection[next]
        /\ \A j : InChannel(j) => InChannel(j)'
    BY <1>0, <1>3, <2>1, AppendKeeps DEF SubmitSend, PutSend, QueueTypeOK
  <2> QED
    BY <1>0, <1>3, <2>2 DEF SubmitSend, PutSend, Marked
<1>4. CASE Cancel
  BY <1>0, <1>4 DEF Cancel, Marked
<1>5. ASSUME \/ CollectError \/ SubmitRefused \/ Collected \/ WaitComplete
             \/ WaitAgain \/ WaitCancelled \/ Results \/ ScanCancelled
             \/ \E j \in Jobs : ScanJob(j)
             \/ \E f \in BOOLEAN : ProduceResults(f)
      PROVE  /\ UNCHANGED <<channel, dispatcher, worker, completed, tasks>>
             /\ ~(lock = "put") /\ ~(lock' = "put")
  BY <1>0, <1>5
  DEF Holdings, CollectError, SubmitRefused, Collected, WaitComplete,
      WaitAgain, WaitCancelled, Results, ScanCancelled, ScanJob,
      ProduceResults, vars, queueVars
<1> QED
  BY <1>1, <1>2, <1>3, <1>4, <1>5 DEF RunStep

LEMMA PoolKept == Shape /\ Kept /\ PoolStep => Kept'
<1> SUFFICES ASSUME Shape, Kept, PoolStep PROVE Kept'
  OBVIOUS
<1> USE DEF Kept, NoJobLost, BeingSent, InChannel, InDispatcher, InPool
<1>0. /\ QueueTypeOK /\ Holdings /\ UNCHANGED runVars /\ QueueStep
      /\ \A j \in tasks : j # NoJob
      /\ \A j \in tasks :
           BeingSent(j) \/ InChannel(j) \/ InDispatcher(j) \/ InPool(j)
             \/ j \in completed
  BY QueueAssumption
  DEF Shape, TypeOK, PoolStep, QueueTypeOK, QueueAssumption
<1>1. CASE DispatcherSelect
  BY <1>0, <1>1
  DEF DispatcherSelect, dispatcherOnly, At, Holdings, Marked, runVars
<1>2. CASE NextCancelled
  BY <1>0, <1>2
  DEF NextCancelled, dispatcherOnly, At, Holdings, Marked, runVars
<1>3. CASE NextJob
  <2>1. \A j : InChannel(j) => j = Head(channel) \/ InChannel(j)'
    BY <1>0, <1>3, TailKeeps DEF NextJob, QueueTypeOK
  <2> QED
    BY <1>0, <1>3, <2>1
    DEF NextJob, dispatcherOnly, At, Holdings, Marked, runVars
<1>4. CASE SkipCompleted
  <2>1. \A j : InChannel(j) => j = Head(channel) \/ InChannel(j)'
    BY <1>0, <1>4, TailKeeps DEF SkipCompleted, QueueTypeOK
  <2> QED
    BY <1>0, <1>4, <2>1
    DEF SkipCompleted, dispatcherOnly, At, Holdings, Marked, runVars
<1>5. CASE CountCompleted
  BY <1>0, <1>5 DEF CountCompleted, Marked, runVars
<1>6. ASSUME NEW w \in Workers, WorkerStep(w) PROVE Kept'
  <2>0. /\ worker \in [Workers ->
                         [pc : WorkerPcs, job : Jobs \cup {NoJob}]]
        /\ UNCHANGED <<tasks, lock, channel>>
        /\ UNCHANGED <<selection, next>>
    BY <1>0, <1>6 DEF QueueTypeOK, WorkerStep, Dispatch, WorkerExit, RunBody,
       RunPanics, MarkComplete, Complete, Recover, dispatcherOnly,
       workerOnly, runVars
  <2>1. CASE Dispatch(w)
    BY <1>0, <2>0, <2>1 DEF Dispatch, dispatcherOnly, At, Holdings, Marked
  <2>2. CASE WorkerExit(w)
    BY <1>0, <2>0, <2>2 DEF WorkerExit, workerOnly, At, Holdings, Marked
  <2>3. ASSUME NEW ok \in BOOLEAN, RunBody(w, ok) PROVE Kept'
    <3>1. \A v \in Workers : worker'[v].job = worker[v].job
      BY <2>0, <2>3 DEF RunBody
    <3>2. Marked'
      BY <1>0, <2>0, <2>3 DEF RunBody, Marked, workerOnly
    <3> QED
      BY <1>0, <2>0, <2>3, <3>1, <3>2 DEF RunBody, workerOnly
  <2>4. CASE RunPanics(w)
    <3>1. \A v \in Workers : worker'[v].job = worker[v].job
      BY <2>0, <2>4 DEF RunPanics
    <3>2. Marked'
      BY <1>0, <2>0, <2>4 DEF RunPanics, Marked, workerOnly
    <3> QED
      BY <1>0, <2>0, <2>4, <3>1, <3>2 DEF RunPanics, workerOnly
  <2>5. CASE MarkComplete(w)
    <3>1. \A v \in Workers : worker'[v].job = worker[v].job
      BY <2>0, <2>5 DEF MarkComplete
    <3>2. Marked'
      BY <1>0, <2>0, <2>5 DEF MarkComplete, Marked, workerOnly
    <3> QED
      BY <1>0, <2>0, <2>5, <3>1, <3>2 DEF MarkComplete, workerOnly
  <2>6. CASE Complete(w)
    BY <1>0, <2>0, <2>6 DEF Complete, workerOnly, At, Holdings, Marked
  <2>7. CASE Recover(w)
    BY <1>0, <2>0, <2>7 DEF Recover, workerOnly, At, Holdings, Marked
  <2> QED
    BY <1>6, <2>1, <2>2, <2>3, <2>4, <2>5, <2>6, <2>7 DEF WorkerStep
<1> QED
  BY <1>0, <1>1, <1>2, <1>3, <1>4, <1>5, <1>6 DEF QueueStep, DispatcherStep

LEMMA StutterKept == Kept /\ UNCHANGED vars => Kept'
BY DEF Kept, NoJobLost, BeingSent, InChannel, InDispatcher, InPool, Marked,
   vars, runVars, queueVars

LEMMA NextKept == Shape /\ Kept /\ [Next]_vars => Kept'
BY RunKept, PoolKept, StutterKept DEF Next, Terminated

\* A job that Put registered is always somewhere on its way to a worker, or
\* its check has ended: local.go's goroutines drop nothing but jobs that were
\* complete before they were dispatched.
THEOREM JobsAreKept == Spec => []NoJobLost
<1>1. Kept => NoJobLost
  BY DEF Kept
<1> QED
  BY <1>1, InitKept, NextKept, ShapeInvariant, PTL DEF Spec

-----------------------------------------------------------------------------
(* The counter never runs ahead of the checks.                             *)

LEMMA WorkersFinite == IsFiniteSet(Workers)
BY QueueAssumption, FS_Interval DEF QueueAssumption, Workers, PoolSize

LEMMA BusyFinite == IsFiniteSet(Busy) /\ Cardinality(Busy) \in Nat
<1>1. Busy \in SUBSET Workers
  BY DEF Busy
<1> QED
  BY <1>1, WorkersFinite, FS_Subset, FS_CardinalityType

\* InFlight counts things, so it is zero only when there are none.
LEMMA InFlightZero ==
  ASSUME Shape
  PROVE  /\ InFlight \in Nat
         /\ InFlight = 0 <=> /\ channel = <<>>
                             /\ Busy = {}
                             /\ dispatcher.pc # "send"
                             /\ lock # "put"
<1>1. channel \in Seq(Jobs)
  BY DEF Shape, TypeOK, QueueTypeOK
<1>2. Len(channel) \in Nat /\ (Len(channel) = 0 <=> channel = <<>>)
  BY <1>1
<1>3. /\ Cardinality(Busy) \in Nat
      /\ Cardinality(Busy) = 0 <=> Busy = {}
  BY BusyFinite, FS_EmptySet
<1> QED
  BY <1>2, <1>3 DEF InFlight, One

\* Registered jobs that are neither counted, nor about to be, nor in flight.
Dropped == Cardinality(tasks) - (numCompleted + completers + InFlight)

\* Nothing is registered at first.
LEMMA InitCount == Init => Dropped = 0
<1> SUFFICES ASSUME Init PROVE Dropped = 0
  OBVIOUS
<1>1. Busy = {} /\ tasks = {} /\ channel = <<>>
  BY DEF Init, QueueInit, Busy, At
<1>2. Cardinality(Busy) = 0 /\ Cardinality(tasks) = 0
  BY <1>1, FS_EmptySet
<1> QED
  BY <1>1, <1>2 DEF Init, QueueInit, Dropped, InFlight, One, At

\* Run's own steps register a job and put it into flight at once, and drop none.
LEMMA RunCount ==
  ASSUME Shape, RunStep \/ Cancel
  PROVE  Dropped' = Dropped
<1>0. /\ QueueTypeOK /\ Holdings
      /\ Len(channel) \in Nat /\ Cardinality(Busy) \in Nat
      /\ Cardinality(tasks) \in Nat
  BY BusyFinite, FS_CardinalityType
  DEF Shape, TypeOK, QueueTypeOK, Holdings
<1>1. CASE /\ UNCHANGED <<channel, dispatcher, worker, tasks, numCompleted,
                          completers>>
           /\ ~(lock = "put") /\ ~(lock' = "put")
  BY <1>1 DEF Dropped, InFlight, One, Busy
<1>2. CASE SubmitStore
  <2>1. Cardinality(tasks') = Cardinality(tasks) + 1
    BY <1>0, <1>2, FS_AddElement DEF SubmitStore, PutStore, Holdings
  <2>2. /\ lock = "free" /\ lock' = "put"
        /\ UNCHANGED <<channel, dispatcher, worker, numCompleted, completers>>
        /\ numCompleted \in Nat /\ completers \in Nat
    BY <1>0, <1>2 DEF SubmitStore, PutStore, QueueTypeOK
  <2>3. InFlight' = InFlight + 1 /\ InFlight \in Nat
    BY <1>0, <2>2 DEF InFlight, One, Busy
  <2> QED
    BY <1>0, <2>1, <2>2, <2>3 DEF Dropped
<1>3. CASE SubmitSend
  <2>1. selection[next] \in Jobs
    BY <1>0, <1>3 DEF SubmitSend, Holdings, QueueTypeOK
  <2>2. Len(channel') = Len(channel) + 1
    BY <1>0, <1>3, <2>1 DEF SubmitSend, PutSend, QueueTypeOK
  <2> QED
    BY <1>0, <1>3, <2>2
    DEF SubmitSend, PutSend, Dropped, InFlight, One, Busy,
        QueueTypeOK
<1>4. CASE Cancel
  BY <1>0, <1>4 DEF Cancel, Dropped, InFlight, One, Busy
<1>5. ASSUME \/ CollectError \/ SubmitRefused \/ Collected \/ WaitComplete
             \/ WaitAgain \/ WaitCancelled \/ Results \/ ScanCancelled
             \/ \E j \in Jobs : ScanJob(j)
             \/ \E f \in BOOLEAN : ProduceResults(f)
      PROVE  /\ UNCHANGED <<channel, dispatcher, worker, tasks,
                            numCompleted, completers>>
             /\ ~(lock = "put") /\ ~(lock' = "put")
  BY <1>0, <1>5
  DEF Holdings, CollectError, SubmitRefused, Collected, WaitComplete,
      WaitAgain, WaitCancelled, Results, ScanCancelled, ScanJob,
      ProduceResults, vars, queueVars
<1> QED
  BY <1>1, <1>2, <1>3, <1>4, <1>5 DEF RunStep

\* The goroutines of the queue pass a job on; only one drops jobs, those that were
\* complete before they were dispatched.
LEMMA PoolCount ==
  ASSUME Shape, PoolStep
  PROVE  Dropped' = Dropped \/ (SkipCompleted /\ Dropped' = Dropped + 1)
<1> USE DEF Dropped, InFlight, One
<1>0. /\ QueueTypeOK /\ Holdings /\ QueueStep
      /\ Len(channel) \in Nat /\ Cardinality(Busy) \in Nat
      /\ Cardinality(tasks) \in Nat /\ numCompleted \in Nat
      /\ completers \in Nat /\ IsFiniteSet(Busy)
  BY BusyFinite, FS_CardinalityType
  DEF Shape, TypeOK, QueueTypeOK, Holdings, PoolStep
<1>1. CASE DispatcherSelect
  BY <1>0, <1>1 DEF DispatcherSelect, dispatcherOnly, At, Busy
<1>2. CASE NextCancelled
  BY <1>0, <1>2 DEF NextCancelled, dispatcherOnly, At, Busy
<1>3. CASE NextJob
  <2>1. Len(channel') = Len(channel) - 1
    BY <1>0, <1>3 DEF NextJob, QueueTypeOK
  <2> QED
    BY <1>0, <1>3, <2>1 DEF NextJob, dispatcherOnly, At, Busy
<1>4. CASE SkipCompleted
  <2>1. Len(channel') = Len(channel) - 1
    BY <1>0, <1>4 DEF SkipCompleted, QueueTypeOK
  <2> QED
    BY <1>0, <1>4, <2>1 DEF SkipCompleted, dispatcherOnly, At, Busy
<1>5. CASE CountCompleted
  BY <1>0, <1>5 DEF CountCompleted, Busy
<1>6. ASSUME NEW w \in Workers, WorkerStep(w) PROVE Dropped' = Dropped
  <2>0. /\ worker \in [Workers ->
                         [pc : WorkerPcs, job : Jobs \cup {NoJob}]]
        /\ UNCHANGED <<tasks, lock, channel, numCompleted>>
    BY <1>0, <1>6 DEF QueueTypeOK, WorkerStep, Dispatch, WorkerExit, RunBody,
       RunPanics, MarkComplete, Complete, Recover, dispatcherOnly, workerOnly
  <2>1. CASE Dispatch(w)
    <3>1. Busy' = Busy \cup {w} /\ w \notin Busy
      BY <1>0, <2>0, <2>1 DEF Dispatch, At, Busy, Holdings
    <3>2. Cardinality(Busy') = Cardinality(Busy) + 1
      BY <1>0, <3>1, FS_AddElement
    <3> QED
      BY <1>0, <2>0, <2>1, <3>2 DEF Dispatch, dispatcherOnly, At
  <2>2. CASE WorkerExit(w)
    <3>1. Busy' = Busy
      BY <1>0, <2>0, <2>2 DEF WorkerExit, At, Busy, Holdings
    <3> QED
      BY <2>0, <2>2, <3>1 DEF WorkerExit, workerOnly
  <2>3. CASE (\E ok \in BOOLEAN : RunBody(w, ok)) \/ RunPanics(w)
               \/ MarkComplete(w)
    <3>1. Busy' = Busy
      BY <2>0, <2>3 DEF RunBody, RunPanics, MarkComplete, Busy
    <3> QED
      BY <2>0, <2>3, <3>1 DEF RunBody, RunPanics, MarkComplete, workerOnly
  <2>4. CASE Complete(w) \/ Recover(w)
    <3>1. Busy' = Busy \ {w} /\ w \in Busy
      BY <1>0, <2>0, <2>4 DEF Complete, Recover, At, Busy, Holdings
    <3>2. Cardinality(Busy') = Cardinality(Busy) - 1
      BY <1>0, <3>1, FS_RemoveElement
    <3> QED
      BY <1>0, <2>0, <2>4, <3>2 DEF Complete, Recover, workerOnly
  <2> QED
    BY <1>6, <2>1, <2>2, <2>3, <2>4 DEF WorkerStep
<1> QED
  BY <1>0, <1>1, <1>2, <1>3, <1>4, <1>5, <1>6 DEF QueueStep, DispatcherStep

\* NeverOvercounts says that the number of dropped jobs is not negative.
LEMMA NonNegative == Shape => (NeverOvercounts <=> Dropped >= 0)
<1> SUFFICES ASSUME Shape PROVE NeverOvercounts <=> Dropped >= 0
  OBVIOUS
<1>1. /\ InFlight \in Nat /\ Cardinality(tasks) \in Nat
      /\ numCompleted \in Nat /\ completers \in Nat
  BY InFlightZero, FS_CardinalityType DEF Shape, TypeOK, QueueTypeOK, Holdings
<1> QED
  BY <1>1 DEF NeverOvercounts, Dropped

LEMMA NextCount == Shape /\ NeverOvercounts /\ [Next]_vars => NeverOvercounts'
<1>0. Shape' => (NeverOvercounts' <=> (Dropped >= 0)')
  BY NonNegative, PTL
<1> SUFFICES ASSUME Shape, NeverOvercounts, [Next]_vars PROVE NeverOvercounts'
  OBVIOUS
<1>1. CASE UNCHANGED vars
  BY <1>1 DEF NeverOvercounts, InFlight, One, Busy, vars, queueVars
<1>2. CASE RunStep \/ Cancel \/ PoolStep
  <2>1. Dropped' = Dropped \/ Dropped' = Dropped + 1
    BY <1>2, RunCount, PoolCount
  <2>2. Dropped \in Int
    BY InFlightZero, FS_CardinalityType
    DEF Dropped, Shape, TypeOK, QueueTypeOK, Holdings
  <2>3. Dropped' >= 0
    BY <2>1, <2>2, NonNegative
  <2> QED
    BY <1>0, <2>3, NextShape
<1> QED
  BY <1>1, <1>2 DEF Next, Terminated

\* What Stats reports as completed never exceeds the jobs whose checks have
\* run, so the wait cannot end early: every job is counted at most once.
THEOREM CounterIsSafe == Spec => []NeverOvercounts
<1>1. Init => NeverOvercounts
  BY InitCount, InitShape, NonNegative
<1> QED
  BY <1>1, NextCount, ShapeInvariant, PTL DEF Spec

-----------------------------------------------------------------------------
(* What the end of the wait, and a nil verdict, mean.                      *)

\* Nothing is in flight and nothing is left to count.
Quiet ==
    /\ channel = <<>>
    /\ Busy = {}
    /\ dispatcher.pc # "send"
    /\ lock # "put"
    /\ completers = 0

\* How far Run has come, and what it knows at each point.
Progress ==
    /\ ctxDone => cancelled \/ pc = "returned"
    /\ pc \in {"wait", "results", "scan"} =>
          ~hasErrors /\ next = Len(selection) + 1
    /\ ~hasErrors => \A i \in 1..(next - 1) : selection[i] \in tasks
    /\ tasks \subseteq SelectedJobs
    /\ waited =>
          /\ pc \in {"results", "scan", "returned"}
          /\ ~hasErrors
          /\ next = Len(selection) + 1
          /\ tasks \subseteq completed
          /\ Quiet
    /\ pc \in {"results", "scan"} /\ ~cancelled => waited
    /\ pc = "scan" /\ ~cancelled => tasks \ toScan \subseteq reported
    /\ verdict # "none" => pc = "returned"
    /\ verdict = "nil" /\ ~cancelled => waited /\ tasks \subseteq passed

Facts == Shape /\ Kept /\ NeverOvercounts

LEMMA FactsInvariant == Spec => []Facts
BY ShapeInvariant, InitKept, NextKept, CounterIsSafe, PTL DEF Spec, Facts

LEMMA InitProgress == Init => Progress
<1> SUFFICES ASSUME Init PROVE Progress
  OBVIOUS
<1>1. \A i \in 1..(next - 1) : selection[i] \in tasks
  BY DEF Init
<1> QED
  BY <1>1 DEF Init, QueueInit, Progress

\* The counting argument: when Stats is complete, nothing is in flight, so
\* every registered job, being kept somewhere, must have completed.
LEMMA CompleteMeansDone ==
  ASSUME Facts, IsComplete, lock = "free"
  PROVE  Quiet /\ tasks \subseteq completed
<1>1. /\ Cardinality(tasks) \in Nat /\ numCompleted \in Nat
      /\ completers \in Nat /\ InFlight \in Nat
  BY InFlightZero, FS_CardinalityType
  DEF Facts, Shape, TypeOK, QueueTypeOK, Holdings
<1>2. InFlight = 0 /\ completers = 0
  BY <1>1 DEF Facts, NeverOvercounts, IsComplete
<1>3. Quiet
  BY <1>2, InFlightZero DEF Facts, Quiet
<1>4. ASSUME NEW j \in tasks PROVE j \in completed
  <2>1. j # NoJob
    BY QueueAssumption
    DEF Facts, Shape, TypeOK, QueueTypeOK, QueueAssumption
  <2>2. ~BeingSent(j) /\ ~InChannel(j)
    BY <1>3 DEF Quiet, BeingSent, InChannel
  <2>3. ~InDispatcher(j)
    BY <1>3, <2>1 DEF Quiet, InDispatcher, Facts, Shape, Holdings
  <2>4. ~InPool(j)
    BY <1>3, <2>1 DEF Quiet, InPool, Busy
  <2> QED
    BY <2>2, <2>3, <2>4 DEF Facts, Kept, NoJobLost
<1> QED
  BY <1>3, <1>4

\* A quiet pool stays quiet, and changes no result.
LEMMA PoolQuiet ==
  ASSUME Shape, Quiet, PoolStep
  PROVE  Quiet' /\ UNCHANGED <<tasks, completed, passed, ctxDone>>
<1>0. /\ QueueTypeOK /\ Holdings /\ QueueStep
      /\ \A w \in Workers : worker[w].pc \in {"select", "exited"}
  BY DEF Shape, TypeOK, PoolStep, Holdings, Quiet, Busy
<1> USE DEF Quiet
<1>1. CASE DispatcherSelect
  BY <1>0, <1>1 DEF DispatcherSelect, dispatcherOnly, At, Busy
<1>2. CASE NextCancelled
  BY <1>0, <1>2 DEF NextCancelled, dispatcherOnly, At, Busy
<1>3. CASE NextJob \/ SkipCompleted
  BY <1>3 DEF NextJob, SkipCompleted
<1>4. CASE CountCompleted
  BY <1>4 DEF CountCompleted
<1>5. ASSUME NEW w \in Workers, WorkerStep(w)
      PROVE  Quiet' /\ UNCHANGED <<tasks, completed, passed, ctxDone>>
  <2>1. WorkerExit(w)
    BY <1>0, <1>5 DEF WorkerStep, Dispatch, RunBody, RunPanics, MarkComplete,
       Complete, Recover
  <2>2. Busy' = {}
    BY <1>0, <2>1 DEF WorkerExit, At, Busy, QueueTypeOK
  <2> QED
    BY <2>1, <2>2 DEF WorkerExit, workerOnly
<1> QED
  BY <1>0, <1>1, <1>2, <1>3, <1>4, <1>5 DEF QueueStep, DispatcherStep

LEMMA PoolProgress == Shape /\ Progress /\ PoolStep => Progress'
<1> SUFFICES ASSUME Shape, Progress, PoolStep PROVE Progress'
  OBVIOUS
<1>0. /\ UNCHANGED <<runVars, tasks, ctxDone>>
      /\ completed \subseteq completed'
  BY DEF PoolStep, QueueStep, DispatcherStep, DispatcherSelect, NextCancelled,
     NextJob, SkipCompleted, CountCompleted, WorkerStep, Dispatch, WorkerExit,
     RunBody, RunPanics, MarkComplete, Complete, Recover, dispatcherOnly,
     workerOnly
<1>1. waited => Quiet' /\ passed' = passed
  BY PoolQuiet DEF Progress
<1>2. SelectedJobs' = SelectedJobs
  BY <1>0 DEF SelectedJobs, runVars
<1> QED
  BY <1>0, <1>1, <1>2 DEF Progress, runVars

LEMMA RunProgress == Facts /\ Progress /\ (RunStep \/ Cancel) => Progress'
<1> SUFFICES ASSUME Facts, Progress, RunStep \/ Cancel PROVE Progress'
  OBVIOUS
<1>0. /\ TypeOK /\ QueueTypeOK /\ Holdings
      /\ selection \in Seq(Jobs \cup {Missing})
      /\ Len(selection) \in Nat /\ next \in 1..(Len(selection) + 1)
      /\ \A j \in tasks : j # Missing
  BY RunAssumption
  DEF Facts, Shape, TypeOK, QueueTypeOK, RunAssumption
<1> USE DEF Progress, SelectedJobs
<1>1. CASE CollectError
  BY <1>0, <1>1 DEF CollectError, queueVars, TypeOK
<1>2. CASE SubmitRefused
  BY <1>0, <1>2 DEF SubmitRefused, queueVars, TypeOK
<1>3. CASE SubmitStore
  <2>1. next \in 1..Len(selection)
    BY <1>0, <1>3 DEF SubmitStore
  <2>2. tasks' \subseteq SelectedJobs'
    BY <1>0, <1>3, <2>1 DEF SubmitStore, PutStore
  <2> QED
    BY <1>0, <1>3, <2>2 DEF SubmitStore, PutStore, TypeOK
<1>4. CASE SubmitSend
  <2>1. \A i \in 1..(next' - 1) : i \in 1..(next - 1) \/ i = next
    BY <1>0, <1>4 DEF SubmitSend
  <2>2. ~hasErrors' => \A i \in 1..(next' - 1) : selection'[i] \in tasks'
    BY <1>0, <1>4, <2>1 DEF SubmitSend, PutSend, Holdings
  <2> QED
    BY <1>0, <1>4, <2>2 DEF SubmitSend, PutSend, TypeOK
<1>5. CASE Collected
  <2>1. next = Len(selection) + 1
    BY <1>0, <1>5 DEF Collected
  <2> QED
    BY <1>0, <1>5, <2>1 DEF Collected, Return, TypeOK
<1>6. CASE WaitComplete
  <2>1. Quiet /\ tasks \subseteq completed
    BY <1>6, CompleteMeansDone DEF WaitComplete
  <2>2. Quiet'
    BY <1>6, <2>1 DEF WaitComplete, Quiet, Busy, queueVars
  <2> QED
    BY <1>0, <1>6, <2>1, <2>2 DEF WaitComplete, queueVars, TypeOK
<1>7. CASE WaitAgain
  BY <1>7 DEF WaitAgain, vars, runVars, queueVars, Quiet, Busy
<1>8. CASE WaitCancelled
  BY <1>0, <1>8 DEF WaitCancelled, queueVars, TypeOK
<1>9. CASE Results
  <2>1. waited => Quiet'
    BY <1>9 DEF Results, Quiet, Busy
  <2> QED
    BY <1>0, <1>9, <2>1 DEF Results, TypeOK
<1>10. ASSUME NEW j \in Jobs, ScanJob(j) PROVE Progress'
  <2>1. waited => Quiet'
    BY <1>10 DEF ScanJob, Quiet, Busy, queueVars
  <2> QED
    BY <1>0, <1>10, <2>1 DEF ScanJob, queueVars, TypeOK
<1>11. CASE ScanCancelled
  <2>1. waited => Quiet'
    BY <1>11 DEF ScanCancelled, Quiet, Busy, queueVars
  <2>2. cancelled
    BY <1>11 DEF ScanCancelled
  <2> QED
    BY <1>0, <1>11, <2>1, <2>2 DEF ScanCancelled, queueVars, TypeOK
<1>12. ASSUME NEW f \in BOOLEAN, ProduceResults(f) PROVE Progress'
  <2>1. waited => Quiet'
    BY <1>12 DEF ProduceResults, Quiet, Busy
  <2>2. verdict' = "nil" => reported \subseteq passed
    BY <1>12 DEF ProduceResults, Return
  <2>3. ~cancelled => tasks \subseteq reported
    BY <1>12 DEF ProduceResults
  <2> QED
    BY <1>0, <1>12, <2>1, <2>2, <2>3 DEF ProduceResults, Return, TypeOK
<1>13. CASE Cancel
  <2>1. waited => Quiet'
    BY <1>13 DEF Cancel, Quiet, Busy
  <2> QED
    BY <1>0, <1>13, <2>1 DEF Cancel, TypeOK
<1> QED
  BY <1>1, <1>2, <1>3, <1>4, <1>5, <1>6, <1>7, <1>8, <1>9, <1>10, <1>11,
     <1>12, <1>13 DEF RunStep

LEMMA NextProgress == Facts /\ Progress /\ [Next]_vars => Progress'
<1>1. Progress /\ UNCHANGED vars => Progress'
  BY DEF Progress, SelectedJobs, Quiet, Busy, vars, runVars, queueVars
<1> QED
  BY <1>1, RunProgress, PoolProgress DEF Next, Terminated, Facts

LEMMA ProgressInvariant == Spec => []Progress
BY InitProgress, NextProgress, FactsInvariant, PTL DEF Spec

\* When WaitCtxInterval returns true every job in the queue has completed and
\* the pool holds no job, even if the caller cancels and even if some of the
\* jobs were complete before the run.
THEOREM WaitIsSound == Spec => []WaitIsComplete
<1>1. Facts /\ Progress => WaitIsComplete
  BY InFlightZero DEF Facts, Progress, Quiet, WaitIsComplete
<1> QED
  BY <1>1, FactsInvariant, ProgressInvariant, PTL

\* A run that was not cancelled and returns nil has run every selected test,
\* and each of them passed.
THEOREM NilIsSound == Spec => []NilMeansAllPassed
<1>1. Facts /\ Progress => NilMeansAllPassed
  <2> SUFFICES ASSUME Facts, Progress, verdict = "nil", ~cancelled
               PROVE  /\ ~hasErrors
                      /\ SelectedJobs = tasks
                      /\ tasks \subseteq completed \cap passed
    BY DEF NilMeansAllPassed
  <2>1. /\ ~hasErrors /\ next = Len(selection) + 1
        /\ tasks \subseteq completed \cap passed
    BY DEF Progress
  <2>2. Len(selection) \in Nat
    BY DEF Facts, Shape, TypeOK
  <2>3. SelectedJobs \subseteq tasks
    BY <2>1, <2>2 DEF Progress, SelectedJobs
  <2> QED
    BY <2>1, <2>3 DEF Progress
<1> QED
  BY <1>1, FactsInvariant, ProgressInvariant, PTL

=============================================================================
