-------------------------- MODULE AppRun_once_proofs --------------------------
(***************************************************************************)
(* More theorems about AppRun: a job is in one place at a time and runs    *)
(* once, results do not change, an error has a reason.                     *)
(***************************************************************************)
EXTENDS AppRun_proofs

-----------------------------------------------------------------------------
(* The inductive invariant.                                                *)

Queued == {channel[i] : i \in 1..Len(channel)}

Distinct(s) == \A i, k \in 1..Len(s) : s[i] = s[k] => i = k

\* A registered job is in one place at most, and only registered jobs are in
\* any place.
Single ==
    /\ Distinct(channel)
    /\ Queued \subseteq tasks
    /\ dispatcher.job # NoJob => dispatcher.job \in tasks \ Queued
    /\ \A w \in Workers :
         worker[w].job # NoJob =>
             /\ worker[w].job \in tasks \ Queued
             /\ worker[w].job # dispatcher.job
             /\ \A v \in Workers : v # w => worker[v].job # worker[w].job
    /\ lock = "put" =>
         /\ selection[next] \notin Queued
         /\ dispatcher.job # selection[next]
         /\ \A w \in Workers : worker[w].job # selection[next]

Running == {"run", "deferred", "unwinding"}

\* A job that was handed out and has not been marked is not complete, though
\* a job may be complete while it waits in the channel.
Fresh ==
    /\ dispatcher.job # NoJob => dispatcher.job \notin completed
    /\ \A w \in Workers :
         worker[w].pc \in Running => worker[w].job \notin completed

Once == Single /\ Fresh

-----------------------------------------------------------------------------
(* Lists without repetition.                                               *)

LEMMA AppendDistinct ==
  ASSUME NEW S, NEW c \in Seq(S), Distinct(c), NEW j \in S,
         j \notin {c[i] : i \in 1..Len(c)}
  PROVE  /\ Distinct(Append(c, j))
         /\ {Append(c, j)[i] : i \in 1..Len(Append(c, j))}
              = {c[i] : i \in 1..Len(c)} \cup {j}
<1>1. Len(Append(c, j)) = Len(c) + 1 /\ Append(c, j)[Len(c) + 1] = j
  OBVIOUS
<1>2. \A i \in 1..Len(c) : Append(c, j)[i] = c[i]
  OBVIOUS
<1>3. 1..(Len(c) + 1) = 1..Len(c) \cup {Len(c) + 1}
  OBVIOUS
<1>4. Distinct(Append(c, j))
  BY <1>1, <1>2, <1>3 DEF Distinct
<1> QED
  BY <1>1, <1>2, <1>3, <1>4

LEMMA TailDistinct ==
  ASSUME NEW S, NEW c \in Seq(S), c # <<>>, Distinct(c)
  PROVE  /\ Distinct(Tail(c))
         /\ Head(c) \in {c[i] : i \in 1..Len(c)}
         /\ {Tail(c)[i] : i \in 1..Len(Tail(c))}
              \subseteq {c[i] : i \in 1..Len(c)} \ {Head(c)}
<1>1. /\ Len(c) \in Nat \ {0} /\ Len(Tail(c)) = Len(c) - 1
      /\ c[1] = Head(c)
  OBVIOUS
<1>2. \A i \in 1..Len(Tail(c)) :
         /\ i + 1 \in 1..Len(c) /\ i + 1 # 1
         /\ Tail(c)[i] = c[i + 1]
  BY <1>1
<1>3. Distinct(Tail(c))
  <2> SUFFICES ASSUME NEW i \in 1..Len(Tail(c)), NEW k \in 1..Len(Tail(c)),
                      Tail(c)[i] = Tail(c)[k]
               PROVE  i = k
    BY DEF Distinct
  <2>1. c[i + 1] = c[k + 1]
    BY <1>2
  <2>2. i + 1 = k + 1
    BY <1>2, <2>1 DEF Distinct
  <2> QED
    BY <2>2
<1>4. \A i \in 1..Len(Tail(c)) :
         Tail(c)[i] \in {c[k] : k \in 1..Len(c)} \ {Head(c)}
  <2> TAKE i \in 1..Len(Tail(c))
  <2>1. i + 1 \in 1..Len(c) /\ i + 1 # 1 /\ Tail(c)[i] = c[i + 1]
    BY <1>2
  <2>2. 1 \in 1..Len(c)
    BY <1>1
  <2>3. c[i + 1] # c[1]
    BY <2>1, <2>2 DEF Distinct
  <2> QED
    BY <1>1, <2>1, <2>3
<1>5. Head(c) \in {c[i] : i \in 1..Len(c)}
  BY <1>1
<1> QED
  BY <1>3, <1>4, <1>5

-----------------------------------------------------------------------------
(* The invariant is inductive.                                             *)

LEMMA InitOnce == Init => Once
<1> SUFFICES ASSUME Init PROVE Once
  OBVIOUS
<1>1. Queued = {} /\ channel = <<>>
  BY DEF Init, QueueInit, Queued
<1> QED
  BY <1>1 DEF Init, QueueInit, Once, Single, Fresh, Distinct, Running, At

LEMMA RunOnce == Shape /\ Once /\ (RunStep \/ Cancel) => Once'
<1> SUFFICES ASSUME Shape, Once, RunStep \/ Cancel PROVE Once'
  OBVIOUS
<1> USE DEF Once, Single, Fresh, Queued
<1>0. QueueTypeOK /\ Holdings /\ Single /\ Fresh
  BY DEF Shape, TypeOK
<1>1. CASE /\ UNCHANGED <<channel, dispatcher, worker, completed, tasks>>
           /\ ~(lock = "put") /\ ~(lock' = "put")
  BY <1>0, <1>1
<1>2. CASE SubmitStore
  <2>1. /\ selection[next] \notin tasks
        /\ UNCHANGED <<channel, dispatcher, worker, completed, selection, next>>
        /\ tasks' = tasks \cup {selection[next]}
        /\ selection[next] \in Jobs
    BY <1>2, RunAssumption
    DEF SubmitStore, PutStore, Shape, TypeOK, RunAssumption
  <2>2. selection[next] # NoJob
    BY <2>1, QueueAssumption DEF QueueAssumption
  <2> QED
    BY <1>0, <2>1, <2>2
<1>3. CASE SubmitSend
  <2>1. /\ selection[next] \in Jobs /\ lock = "put" /\ channel \in Seq(Jobs)
        /\ selection[next] \in tasks
    BY <1>0, <1>3 DEF SubmitSend, PutSend, Holdings, QueueTypeOK
  <2>2. /\ channel' = Append(channel, selection[next]) /\ lock' = "free"
        /\ UNCHANGED <<dispatcher, worker, completed, tasks>>
    BY <1>3 DEF SubmitSend, PutSend
  <2>3. Distinct(channel') /\ Queued' = Queued \cup {selection[next]}
    BY <1>0, <2>1, <2>2, AppendDistinct
  <2> QED
    BY <1>0, <2>1, <2>2, <2>3
<1>4. CASE Cancel
  BY <1>0, <1>4 DEF Cancel
<1>5. ASSUME \/ CollectError \/ SubmitRefused \/ Collected \/ WaitComplete
             \/ WaitAgain \/ WaitCancelled \/ Results \/ ScanCancelled
             \/ \E j \in Jobs : ScanJob(j)
             \/ \E f \in BOOLEAN : ProduceResults(f)
      PROVE  /\ UNCHANGED <<channel, dispatcher, worker, completed, tasks>>
             /\ ~(lock = "put") /\ ~(lock' = "put")
  BY <1>0, <1>5
  DEF Holdings, CollectError, SubmitRefused, Collected, WaitComplete,
      WaitAgain, WaitCancelled, Results, ScanCancelled, ScanJob,
      ProduceResults, vars, queueVars
<1> QED
  BY <1>1, <1>2, <1>3, <1>4, <1>5 DEF RunStep

LEMMA PoolOnce == Shape /\ Once /\ PoolStep => Once'
<1> SUFFICES ASSUME Shape, Once, PoolStep PROVE Once'
  OBVIOUS
<1> USE DEF Once, Single, Fresh
<1>0. /\ QueueTypeOK /\ Holdings /\ UNCHANGED runVars /\ QueueStep
      /\ Single /\ Fresh /\ NoJob \notin Jobs /\ tasks \subseteq Jobs
      /\ UNCHANGED <<selection, next, tasks>> /\ channel \in Seq(Jobs)
  BY QueueAssumption
  DEF Shape, TypeOK, PoolStep, QueueTypeOK, QueueAssumption, runVars,
      QueueStep, DispatcherStep, DispatcherSelect, NextCancelled, NextJob,
      SkipCompleted, CountCompleted, WorkerStep, Dispatch, WorkerExit,
      RunBody, RunPanics, MarkComplete, Complete, Recover, dispatcherOnly,
      workerOnly
<1>1. CASE DispatcherSelect \/ NextCancelled
  <2>1. /\ dispatcher.job = NoJob /\ dispatcher'.job = NoJob
        /\ UNCHANGED <<channel, worker, lock, completed>>
    BY <1>0, <1>1
    DEF DispatcherSelect, NextCancelled, dispatcherOnly, At, Holdings
  <2> QED
    BY <1>0, <2>1 DEF Queued
<1>2. CASE NextJob
  <2>1. /\ dispatcher.job = NoJob /\ dispatcher'.job = Head(channel)
        /\ channel' = Tail(channel) /\ channel # <<>>
        /\ Head(channel) \notin completed
        /\ UNCHANGED <<worker, lock, completed>>
    BY <1>0, <1>2 DEF NextJob, dispatcherOnly, At, Holdings
  <2>2. /\ Distinct(channel') /\ Head(channel) \in Queued
        /\ Queued' \subseteq Queued \ {Head(channel)}
    BY <1>0, <2>1, TailDistinct DEF Queued
  <2> QED
    BY <1>0, <2>1, <2>2
<1>3. CASE SkipCompleted
  <2>1. /\ dispatcher.job = NoJob /\ dispatcher'.job = NoJob
        /\ channel' = Tail(channel) /\ channel # <<>>
        /\ UNCHANGED <<worker, lock, completed>>
    BY <1>0, <1>3 DEF SkipCompleted, dispatcherOnly, At, Holdings
  <2>2. /\ Distinct(channel') /\ Queued' \subseteq Queued
    BY <1>0, <2>1, TailDistinct DEF Queued
  <2> QED
    BY <1>0, <2>1, <2>2
<1>4. CASE CountCompleted
  BY <1>0, <1>4 DEF CountCompleted, Queued
<1>5. ASSUME NEW w \in Workers, WorkerStep(w) PROVE Once'
  <2>0. /\ worker \in [Workers ->
                         [pc : WorkerPcs, job : Jobs \cup {NoJob}]]
        /\ UNCHANGED <<lock, channel, Queued>>
    BY <1>0, <1>5 DEF QueueTypeOK, WorkerStep, Dispatch, WorkerExit, RunBody,
       RunPanics, MarkComplete, Complete, Recover, dispatcherOnly,
       workerOnly, Queued
  <2>1. CASE Dispatch(w)
    <3>1. /\ dispatcher.job # NoJob /\ dispatcher'.job = NoJob
          /\ worker'[w].job = dispatcher.job /\ worker[w].job = NoJob
          /\ worker'[w].pc = "run"
          /\ \A v \in Workers : v # w => worker'[v] = worker[v]
          /\ UNCHANGED completed
      BY <1>0, <2>0, <2>1 DEF Dispatch, dispatcherOnly, At, Holdings
    <3> QED
      BY <1>0, <2>0, <3>1 DEF Running
  <2>2. CASE WorkerExit(w) \/ Complete(w) \/ Recover(w)
    <3>1. /\ worker'[w].job = NoJob /\ worker'[w].pc \notin Running
          /\ \A v \in Workers : v # w => worker'[v] = worker[v]
          /\ UNCHANGED <<completed, dispatcher>>
      BY <2>0, <2>2
      DEF WorkerExit, Complete, Recover, workerOnly, At, Running
    <3>2. \A v \in Workers :
             worker'[v].job # NoJob => v # w /\ worker'[v] = worker[v]
      BY <3>1
    <3>3. \A v \in Workers :
             worker'[v].job # NoJob =>
                 /\ worker'[v].job \in tasks \ Queued
                 /\ worker'[v].job # dispatcher.job
                 /\ \A u \in Workers : u # v => worker'[u].job # worker'[v].job
      BY <1>0, <3>1, <3>2
    <3>4. lock = "put" =>
             \A v \in Workers : worker'[v].job # selection[next]
      <4>1. lock = "put" => selection[next] # NoJob
        BY <1>0 DEF Holdings
      <4> QED
        BY <1>0, <3>1, <4>1
    <3>5. Fresh'
      BY <1>0, <3>1
    <3> QED
      BY <1>0, <2>0, <3>1, <3>3, <3>4, <3>5
  <2>3. CASE (\E ok \in BOOLEAN : RunBody(w, ok)) \/ RunPanics(w)
    <3>1. /\ worker[w].pc \in Running
          /\ \A v \in Workers : worker'[v].job = worker[v].job
          /\ \A v \in Workers : v # w => worker'[v] = worker[v]
          /\ UNCHANGED <<completed, dispatcher>>
      BY <2>0, <2>3 DEF RunBody, RunPanics, workerOnly, Running
    <3>2. Single'
      BY <1>0, <2>0, <3>1
    <3>3. \A v \in Workers : worker'[v].pc \in Running =>
             worker'[v].job \notin completed'
      BY <1>0, <3>1
    <3>4. dispatcher'.job # NoJob => dispatcher'.job \notin completed'
      BY <1>0, <3>1
    <3> QED
      BY <3>2, <3>3, <3>4
  <2>4. CASE MarkComplete(w)
    <3>1. /\ worker[w].job # NoJob /\ worker'[w].pc \notin Running
          /\ \A v \in Workers : worker'[v].job = worker[v].job
          /\ \A v \in Workers : v # w => worker'[v] = worker[v]
          /\ completed' = completed \cup {worker[w].job}
          /\ UNCHANGED dispatcher
      BY <1>0, <2>0, <2>4 DEF MarkComplete, workerOnly, Running, Holdings
    <3>2. Single'
      BY <1>0, <2>0, <3>1
    <3>3. \A v \in Workers : worker'[v].pc \in Running =>
             worker'[v].job \notin completed'
      BY <1>0, <3>1
    <3>4. dispatcher'.job # NoJob => dispatcher'.job \notin completed'
      BY <1>0, <3>1
    <3> QED
      BY <3>2, <3>3, <3>4
  <2> QED
    BY <1>5, <2>1, <2>2, <2>3, <2>4 DEF WorkerStep
<1> QED
  BY <1>0, <1>1, <1>2, <1>3, <1>4, <1>5 DEF QueueStep, DispatcherStep

LEMMA NextOnce == Shape /\ Once /\ [Next]_vars => Once'
<1>1. Once /\ UNCHANGED vars => Once'
  BY DEF Once, Single, Fresh, Queued, vars, runVars, queueVars
<1> QED
  BY <1>1, RunOnce, PoolOnce DEF Next, Terminated

LEMMA OnceInvariant == Spec => []Once
BY InitOnce, NextOnce, ShapeInvariant, PTL DEF Spec

-----------------------------------------------------------------------------
(* Who holds a job, and how often it runs.                                 *)

LEMMA AtMostOne ==
  ASSUME NEW S, \A x, y \in S : x = y
  PROVE  Cardinality(S) \in {0, 1} /\ (Cardinality(S) = 0 <=> S = {})
<1>1. CASE S = {}
  BY <1>1, FS_EmptySet
<1>2. CASE S # {}
  <2>1. PICK x \in S : S = {x}
    BY <1>2
  <2> QED
    BY <2>1, FS_Singleton
<1> QED
  BY <1>1, <1>2

\* A job is in the channel once, or with the dispatcher, or with one worker, or
\* being sent by Put: no goroutine of the pool shares a check with another.
THEOREM OneHolderHolds == Spec => []OneHolder
<1>1. Shape /\ Once => OneHolder
  <2> SUFFICES ASSUME Shape, Once, NEW j \in tasks
               PROVE  Cardinality({w \in Workers : worker[w].job = j})
                        + One(InDispatcher(j))
                        + Cardinality({i \in 1..Len(channel) : channel[i] = j})
                        + One(BeingSent(j)) <= 1
    BY DEF OneHolder
  <2> DEFINE W == {w \in Workers : worker[w].job = j}
             C == {i \in 1..Len(channel) : channel[i] = j}
  <2>0. j # NoJob
    BY QueueAssumption DEF Shape, TypeOK, QueueTypeOK, QueueAssumption
  <2>1. /\ Cardinality(W) \in {0, 1} /\ (Cardinality(W) = 0 <=> W = {})
    <3>1. \A x, y \in W : x = y
      BY <2>0 DEF Once, Single
    <3> QED
      BY <3>1, AtMostOne
  <2>2. /\ Cardinality(C) \in {0, 1} /\ (Cardinality(C) = 0 <=> C = {})
    <3>1. \A x, y \in C : x = y
      BY DEF Once, Single, Distinct
    <3> QED
      BY <3>1, AtMostOne
  <2>3. W # {} => C = {} /\ ~InDispatcher(j) /\ ~BeingSent(j)
    BY <2>0 DEF Once, Single, Queued, InDispatcher, BeingSent
  <2>4. InDispatcher(j) => C = {} /\ ~BeingSent(j)
    BY <2>0 DEF Once, Single, Queued, InDispatcher, BeingSent
  <2>5. BeingSent(j) => C = {}
    BY DEF Once, Single, Queued, BeingSent
  <2> HIDE DEF W, C
  <2>6. Cardinality(W) + One(InDispatcher(j)) + Cardinality(C)
          + One(BeingSent(j)) <= 1
    BY <2>1, <2>2, <2>3, <2>4, <2>5 DEF One
  <2> QED
    BY <2>6 DEF W, C
<1> QED
  BY <1>1, ShapeInvariant, OnceInvariant, PTL

\* What a step may do to a job that has been completed.
HandsOutFresh ==
    \A w \in Workers :
        worker[w].pc = "select" /\ worker'[w].pc = "run" =>
            worker'[w].job \notin completed

KeepsResults ==
    \A j \in completed : j \in completed' /\ (j \in passed <=> j \in passed')

LEMMA StepsAreSafe ==
  ASSUME Shape, Once, [Next]_vars
  PROVE  HandsOutFresh /\ KeepsResults
<1>0. QueueTypeOK
  BY DEF Shape, TypeOK
<1>1. CASE UNCHANGED <<worker, completed, passed>>
  BY <1>1 DEF HandsOutFresh, KeepsResults
<1>2. ASSUME NEW w \in Workers, WorkerStep(w)
      PROVE  HandsOutFresh /\ KeepsResults
  <2>0. worker \in [Workers -> [pc : WorkerPcs, job : Jobs \cup {NoJob}]]
    BY <1>0 DEF QueueTypeOK
  <2>1. CASE Dispatch(w)
    <3>1. dispatcher.job # NoJob
      BY <2>1 DEF Dispatch, Shape, Holdings
    <3>2. HandsOutFresh
      BY <2>0, <2>1, <3>1 DEF Dispatch, At, Once, Fresh, HandsOutFresh
    <3> QED
      BY <2>1, <3>2 DEF Dispatch, dispatcherOnly, KeepsResults
  <2>2. CASE WorkerExit(w) \/ Complete(w) \/ Recover(w) \/ RunPanics(w)
    <3>1. HandsOutFresh
      BY <2>0, <2>2
      DEF WorkerExit, Complete, Recover, RunPanics, At, HandsOutFresh
    <3> QED
      BY <2>2, <3>1
      DEF WorkerExit, Complete, Recover, RunPanics, workerOnly, KeepsResults
  <2>3. ASSUME NEW ok \in BOOLEAN, RunBody(w, ok)
        PROVE  HandsOutFresh /\ KeepsResults
    <3>1. worker[w].job \notin completed
      BY <2>3 DEF RunBody, Once, Fresh, Running
    <3>2. HandsOutFresh
      BY <2>0, <2>3 DEF RunBody, HandsOutFresh
    <3> QED
      BY <2>3, <3>1, <3>2 DEF RunBody, KeepsResults
  <2>4. CASE MarkComplete(w)
    <3>1. HandsOutFresh
      BY <2>0, <2>4 DEF MarkComplete, HandsOutFresh
    <3> QED
      BY <2>4, <3>1 DEF MarkComplete, KeepsResults
  <2> QED
    BY <1>2, <2>1, <2>2, <2>3, <2>4 DEF WorkerStep
<1>3. CASE DispatcherStep \/ CountCompleted
  BY <1>1, <1>3 DEF DispatcherStep, DispatcherSelect, NextCancelled, NextJob,
     SkipCompleted, CountCompleted, dispatcherOnly
<1>4. CASE RunStep \/ Cancel \/ UNCHANGED vars
  BY <1>1, <1>4 DEF RunStep, CollectError, SubmitRefused, SubmitStore,
     PutStore, SubmitSend, PutSend, Collected, WaitComplete, WaitAgain,
     WaitCancelled, Results, ScanJob, ScanCancelled, ProduceResults, Cancel,
     vars, queueVars
<1> QED
  BY <1>2, <1>3, <1>4 DEF Next, PoolStep, QueueStep, Terminated

\* No worker starts a check that has been marked complete, by this run or by
\* the one before it.
THEOREM NothingRunsTwice == Spec => NeverRerun
<1>1. Shape /\ Once /\ [Next]_vars => [HandsOutFresh]_vars
  BY StepsAreSafe
<1>2. Spec => [][HandsOutFresh]_vars
  BY <1>1, ShapeInvariant, OnceInvariant, PTL DEF Spec
<1> QED
  BY <1>2 DEF HandsOutFresh, NeverRerun

\* The status that the verdict is computed from is never written again once
\* the job is complete.
THEOREM ResultsStay == Spec => ResultsAreFinal
<1>1. Shape /\ Once /\ [Next]_vars => [KeepsResults]_vars
  BY StepsAreSafe
<1>2. Spec => [][KeepsResults]_vars
  BY <1>1, ShapeInvariant, OnceInvariant, PTL DEF Spec
<1> QED
  BY <1>2 DEF KeepsResults, ResultsAreFinal

-----------------------------------------------------------------------------
(* Why a run returns an error.                                             *)

SomeFailed == \E j \in tasks : j \in completed \ passed

\* What was reported completed, and failed if that is why Run erred.
Reasons ==
    /\ toScan \subseteq tasks
    /\ reported \subseteq tasks \cap completed
    /\ ErrorHasReason

LEMMA InitReasons == Init => Reasons
BY DEF Init, Reasons, ErrorHasReason

LEMMA NextReasons ==
  Shape /\ Once /\ Progress /\ Reasons /\ [Next]_vars => Reasons'
<1> SUFFICES ASSUME Shape, Once, Progress, Reasons, [Next]_vars PROVE Reasons'
  OBVIOUS
<1>1. /\ KeepsResults
      /\ tasks \subseteq tasks' /\ completed \subseteq completed'
  <2>1. KeepsResults
    BY StepsAreSafe
  <2>2. tasks \subseteq tasks'
    BY DEF Next, RunStep, CollectError, SubmitRefused, SubmitStore,
       PutStore, SubmitSend, PutSend, Collected, WaitComplete, WaitAgain,
       WaitCancelled, Results, ScanJob, ScanCancelled, ProduceResults, Cancel,
       PoolStep, QueueStep, DispatcherStep, DispatcherSelect, NextCancelled,
       NextJob, SkipCompleted, CountCompleted, WorkerStep, Dispatch,
       WorkerExit, RunBody, RunPanics, MarkComplete, Complete, Recover,
       dispatcherOnly, workerOnly, Terminated, vars, queueVars
  <2> QED
    BY <2>1, <2>2 DEF KeepsResults
<1>2. SomeFailed => SomeFailed'
  BY <1>1 DEF SomeFailed, KeepsResults
<1>3. CASE UNCHANGED <<toScan, reported, verdict, hasErrors, outputFailed>>
  BY <1>1, <1>2, <1>3 DEF Reasons, ErrorHasReason, SomeFailed
<1>4. CASE CollectError \/ SubmitRefused
  BY <1>1, <1>2, <1>4
  DEF Reasons, ErrorHasReason, SomeFailed, CollectError, SubmitRefused
<1>5. CASE Collected
  BY <1>1, <1>2, <1>5
  DEF Reasons, ErrorHasReason, SomeFailed, Collected, Return
<1>6. CASE Results
  BY <1>1, <1>2, <1>6 DEF Reasons, ErrorHasReason, SomeFailed, Results
<1>7. ASSUME NEW j \in Jobs, ScanJob(j) PROVE Reasons'
  BY <1>1, <1>2, <1>7 DEF Reasons, ErrorHasReason, SomeFailed, ScanJob
<1>8. CASE ScanCancelled
  BY <1>1, <1>2, <1>8 DEF Reasons, ErrorHasReason, SomeFailed, ScanCancelled
<1>9. ASSUME NEW f \in BOOLEAN, ProduceResults(f) PROVE Reasons'
  <2>1. (\E j \in reported : j \notin passed) => SomeFailed
    BY DEF Reasons, SomeFailed
  <2>2. verdict' = "error" => outputFailed' \/ SomeFailed'
    BY <1>2, <1>9, <2>1 DEF ProduceResults, Return
  <2> QED
    BY <1>1, <1>9, <2>2
    DEF Reasons, ErrorHasReason, SomeFailed, ProduceResults
<1>10. CASE \/ SubmitStore \/ SubmitSend \/ WaitComplete \/ WaitAgain
            \/ WaitCancelled \/ Cancel \/ PoolStep \/ UNCHANGED vars
  BY <1>3, <1>10
  DEF SubmitStore, SubmitSend, WaitComplete, WaitAgain, WaitCancelled,
      Cancel, PoolStep, vars, runVars
<1> QED
  BY <1>4, <1>5, <1>6, <1>7, <1>8, <1>9, <1>10 DEF Next, RunStep, Terminated

LEMMA ReasonsInvariant == Spec => []Reasons
BY InitReasons, NextReasons, ShapeInvariant, OnceInvariant, ProgressInvariant,
   PTL DEF Spec

\* Run errs only if the selection was bad, the output could not be written, or
\* a check that completed did not pass: with cancellation too.
THEOREM ErrorsAreJustified == Spec => []ErrorHasReason
<1>1. Reasons => ErrorHasReason
  BY DEF Reasons
<1> QED
  BY <1>1, ReasonsInvariant, PTL

-----------------------------------------------------------------------------
(* An undisturbed run implements RunPromise.                               *)

Before(n) == {selection[i] : i \in 1..(n - 1)}

\* The submission, read against the promise's view of the selection.
Submission ==
    /\ ~cancelled
    /\ completed \subseteq tasks
    /\ pc = "collect" => tasks \subseteq Before(next)
    /\ pc = "send" => tasks \subseteq Before(next + 1)
    /\ hasErrors => Promised!Flawed
    /\ ~hasErrors =>
         /\ \A i, k \in 1..(next - 1) : selection[i] = selection[k] => i = k
         /\ pc = "send" => selection[next] \notin Before(next)
    /\ pc # "returned" => verdict = "none" /\ ~outputFailed
    /\ pc = "returned" => waited \/ hasErrors

LEMMA InitSubmission == AlreadyRun = {} /\ Init => Submission
<1> SUFFICES ASSUME AlreadyRun = {}, Init PROVE Submission
  OBVIOUS
<1>1. \A i \in 1..(next - 1) : FALSE
  BY DEF Init
<1> QED
  BY <1>1 DEF Init, QueueInit, Submission

\* Only a worker completes a job, and one that the run registered.
LEMMA CompletedAreTasks ==
  ASSUME Shape, Once, [Next]_vars, completed \subseteq tasks
  PROVE  completed' \subseteq tasks'
<1>1. CASE /\ tasks \subseteq tasks' /\ UNCHANGED completed
  BY <1>1
<1>2. ASSUME NEW w \in Workers, MarkComplete(w)
      PROVE  completed' \subseteq tasks'
  BY <1>2 DEF MarkComplete, workerOnly, Once, Single, Shape, Holdings
<1> QED
  BY <1>1, <1>2 DEF Next, RunStep, CollectError, SubmitRefused, SubmitStore,
     PutStore, SubmitSend, PutSend, Collected, WaitComplete, WaitAgain,
     WaitCancelled, Results, ScanJob, ScanCancelled, ProduceResults, Cancel,
     PoolStep, QueueStep, DispatcherStep, DispatcherSelect, NextCancelled,
     NextJob, SkipCompleted, CountCompleted, WorkerStep, Dispatch,
     WorkerExit, RunBody, RunPanics, Complete, Recover, dispatcherOnly,
     workerOnly, Terminated, vars, queueVars

LEMMA NextSubmission ==
  ~MayCancel /\ Shape /\ Once /\ Progress /\ Submission /\ [Next]_vars
      => Submission'
<1> SUFFICES ASSUME ~MayCancel, Shape, Once, Progress, Submission, [Next]_vars
             PROVE  Submission'
  OBVIOUS
<1> USE DEF Before
<1>0. /\ selection \in Seq(Jobs \cup {Missing}) /\ Len(selection) \in Nat
      /\ next \in 1..(Len(selection) + 1)
      /\ DOMAIN selection = 1..Len(selection)
  BY DEF Shape, TypeOK
<1>1. completed' \subseteq tasks'
  BY CompletedAreTasks DEF Submission
<1>2. CASE UNCHANGED <<tasks, runVars>>
  BY <1>1, <1>2 DEF Submission, runVars, Promised!Flawed
<1>3. CASE CollectError
  <2>1. next \in DOMAIN selection /\ selection[next] = Missing
    BY <1>0, <1>3 DEF CollectError
  <2>2. Promised!Flawed'
    BY <1>3, <2>1 DEF CollectError, Promised!Flawed
  <2>3. Before(next) \subseteq Before(next + 1)
    BY <1>0
  <2> QED
    BY <1>0, <1>1, <1>3, <2>2, <2>3 DEF CollectError, queueVars, Submission
<1>4. CASE SubmitRefused
  <2>1. /\ next \in DOMAIN selection
        /\ \E i \in 1..(next - 1) : selection[i] = selection[next]
    BY <1>0, <1>4 DEF SubmitRefused, PutRefused, Submission
  <2>2. Promised!Flawed'
    BY <1>0, <1>4, <2>1 DEF SubmitRefused, Promised!Flawed
  <2>3. Before(next) \subseteq Before(next + 1)
    BY <1>0
  <2> QED
    BY <1>0, <1>1, <1>4, <2>2, <2>3 DEF SubmitRefused, queueVars, Submission
<1>5. CASE SubmitStore
  <2>1. /\ selection[next] \notin tasks /\ tasks' = tasks \cup {selection[next]}
        /\ UNCHANGED <<selection, next, hasErrors, cancelled, waited,
                       outputFailed, verdict>>
        /\ pc = "collect" /\ pc' = "send"
    BY <1>5 DEF SubmitStore, PutStore
  <2>2. tasks' \subseteq Before(next + 1)
    BY <1>0, <2>1 DEF Submission
  <2>3. ~hasErrors => selection[next] \notin Before(next)
    BY <2>1 DEF Progress
  <2> QED
    BY <1>1, <2>1, <2>2, <2>3 DEF Submission, Promised!Flawed
<1>6. CASE SubmitSend
  <2>1. /\ pc = "send" /\ pc' = "collect" /\ next' = next + 1
        /\ UNCHANGED <<selection, hasErrors, cancelled, waited, outputFailed,
                       verdict, tasks>>
    BY <1>6 DEF SubmitSend, PutSend
  <2>2. \A i \in 1..next : i \in 1..(next - 1) \/ i = next
    BY <1>0
  <2>3. ~hasErrors =>
          \A i, k \in 1..next : selection[i] = selection[k] => i = k
    BY <2>1, <2>2 DEF Submission
  <2>4. (next + 1) - 1 = next
    BY <1>0
  <2> QED
    BY <1>1, <2>1, <2>3, <2>4 DEF Submission, Promised!Flawed
<1>7. CASE Collected
  BY <1>1, <1>7 DEF Collected, Return, Submission, Promised!Flawed
<1>8. CASE WaitComplete \/ WaitCancelled \/ Results \/ ScanCancelled
             \/ \E j \in Jobs : ScanJob(j)
  BY <1>1, <1>8 DEF WaitComplete, WaitCancelled, Results, ScanCancelled,
     ScanJob, queueVars, Submission, Promised!Flawed
<1>9. ASSUME NEW f \in BOOLEAN, ProduceResults(f) PROVE Submission'
  <2>1. waited
    BY <1>9 DEF ProduceResults, Progress, Submission
  <2> QED
    BY <1>1, <1>9, <2>1
    DEF ProduceResults, Return, Submission, Promised!Flawed
<1>10. CASE PoolStep
  <2>1. UNCHANGED <<tasks, runVars>>
    BY <1>10 DEF PoolStep, QueueStep, DispatcherStep, DispatcherSelect,
       NextCancelled, NextJob, SkipCompleted, CountCompleted, WorkerStep,
       Dispatch, WorkerExit, RunBody, RunPanics, MarkComplete, Complete,
       Recover, dispatcherOnly, workerOnly
  <2> QED
    BY <1>2, <2>1
<1>11. CASE WaitAgain \/ Terminated \/ UNCHANGED vars
  BY <1>2, <1>11 DEF WaitAgain, Terminated, vars, queueVars
<1>12. ~Cancel
  BY DEF Cancel
<1> QED
  BY <1>3, <1>4, <1>5, <1>6, <1>7, <1>8, <1>9, <1>10, <1>11, <1>12
  DEF Next, RunStep

-----------------------------------------------------------------------------

LEMMA InitPromise == AlreadyRun = {} /\ Init => Promised!PromiseInit
BY DEF Init, QueueInit, Promised!PromiseInit, Outcome

\* A good selection is what was registered.
LEMMA GoodSelection ==
  ASSUME Shape, Progress, Submission, waited
  PROVE  ~Promised!Flawed /\ Promised!Selected = tasks
<1>0. /\ selection \in Seq(Jobs \cup {Missing}) /\ Len(selection) \in Nat
      /\ DOMAIN selection = 1..Len(selection) /\ tasks \subseteq Jobs
      /\ Missing \notin Jobs
  BY RunAssumption DEF Shape, TypeOK, QueueTypeOK, RunAssumption
<1>1. ~hasErrors /\ next - 1 = Len(selection)
  BY <1>0 DEF Progress
<1>2. /\ \A i \in DOMAIN selection : selection[i] \in tasks
      /\ \A i, k \in DOMAIN selection : selection[i] = selection[k] => i = k
  BY <1>0, <1>1 DEF Progress, Submission
<1>3. ~Promised!Flawed
  BY <1>0, <1>2 DEF Promised!Flawed
<1>4. tasks \subseteq SelectedJobs
  BY DEF Progress
<1> QED
  BY <1>0, <1>2, <1>3, <1>4 DEF Promised!Selected, SelectedJobs

\* A worker's mark is the promise's Finish.
LEMMA MarkFinishes ==
  ASSUME Shape, Once, Progress, Submission, UNCHANGED runVars,
         NEW w \in Workers, MarkComplete(w)
  PROVE  \E j \in Jobs : Promised!Finish(j)
<1>1. PICK j : j = worker[w].job
  OBVIOUS
<1>2. j \in tasks /\ j \in Jobs /\ j \notin completed
  BY <1>1, RunAssumption DEF MarkComplete, Once, Single, Fresh, Running,
     Shape, Holdings, TypeOK, QueueTypeOK
<1>3. j \in Promised!Selected
  <2>1. PICK i \in 1..Len(selection) : j = selection[i]
    BY <1>2 DEF Progress, SelectedJobs
  <2>2. i \in DOMAIN selection /\ j # Missing
    BY <1>2, <2>1, RunAssumption DEF Shape, TypeOK, RunAssumption
  <2> QED
    BY <2>1, <2>2 DEF Promised!Selected
<1>4. /\ completed' = completed \cup {j} /\ UNCHANGED passed
  BY <1>1 DEF MarkComplete
<1>5. Outcome[j] = "pending"
  BY <1>2 DEF Outcome
<1>6. verdict # "none" => Promised!Flawed
  <2>1. ~waited
    BY DEF MarkComplete, Progress, Quiet, Busy, Shape, Holdings
  <2> QED
    BY <2>1 DEF Submission
<1>7. \E o \in {"passed", "failed"} : Outcome' = [Outcome EXCEPT ![j] = o]
  <2>1. Outcome' = [Outcome EXCEPT ![j] =
                      IF j \in passed THEN "passed" ELSE "failed"]
    BY <1>2, <1>4 DEF Outcome
  <2> QED
    BY <2>1
<1>8. UNCHANGED <<selection, outputFailed, verdict>>
  BY DEF runVars
<1> QED
  BY <1>2, <1>3, <1>5, <1>6, <1>7, <1>8 DEF Promised!Finish

LEMMA StepKeepsPromise ==
  ASSUME ~MayCancel, Shape, Once, Progress, Reasons, Submission, [Next]_vars
  PROVE  [Promised!PromiseNext]_(Promised!promiseVars)
<1> USE DEF Promised!promiseVars
<1>1. ASSUME UNCHANGED <<completed, passed, selection, outputFailed, verdict>>
      PROVE  UNCHANGED Promised!promiseVars
  BY <1>1 DEF Outcome
<1>2. CASE Collected
  <2>1. CASE ~hasErrors
    BY <1>1, <1>2, <2>1 DEF Collected
  <2>2. CASE hasErrors
    <3>1. /\ UNCHANGED <<completed, passed, selection, outputFailed>>
          /\ verdict' = "error"
      BY <1>2, <2>2 DEF Collected, Return
    <3>2. /\ UNCHANGED <<selection, Outcome>>
          /\ verdict = "none" /\ ~outputFailed /\ outputFailed \in BOOLEAN
          /\ Promised!Flawed
      BY <1>2, <2>2, <3>1
      DEF Collected, Submission, Outcome, Shape, TypeOK
    <3>3. Promised!ReturnError
      BY <3>1, <3>2 DEF Promised!ReturnError
    <3> QED
      BY <3>3 DEF Promised!PromiseNext
  <2> QED
    BY <2>1, <2>2
<1>3. ASSUME NEW f \in BOOLEAN, ProduceResults(f)
      PROVE  Promised!PromiseNext
  <2>1. /\ waited /\ verdict = "none" /\ ~outputFailed
        /\ outputFailed \in BOOLEAN
    BY <1>3 DEF ProduceResults, Progress, Submission, Shape, TypeOK
  <2>2. ~Promised!Flawed /\ Promised!Selected = tasks
    BY <2>1, GoodSelection
  <2>3. tasks \subseteq completed /\ tasks \subseteq reported
    BY <1>3, <2>1 DEF Progress, ProduceResults, Submission
  <2>4. /\ Promised!AllFinished
        /\ Promised!SomeFailed <=> \E j \in tasks : j \notin passed
    <3>1. \A j \in tasks : /\ Outcome[j] # "pending"
                           /\ Outcome[j] = "failed" <=> j \notin passed
      BY <2>3 DEF Outcome, Shape, TypeOK, QueueTypeOK
    <3> QED
      BY <2>2, <3>1 DEF Promised!AllFinished, Promised!SomeFailed
  <2>5. /\ UNCHANGED <<selection, Outcome>> /\ outputFailed' = f
        /\ verdict' = IF f \/ \E j \in reported : j \notin passed
                      THEN "error" ELSE "nil"
    BY <1>3 DEF ProduceResults, Return, Outcome
  <2>6. CASE f \/ Promised!SomeFailed
    <3>1. verdict' = "error"
      BY <2>3, <2>4, <2>5, <2>6
    <3>2. Promised!ReturnError
      BY <2>1, <2>2, <2>4, <2>5, <2>6, <3>1 DEF Promised!ReturnError
    <3> QED
      BY <3>2 DEF Promised!PromiseNext
  <2>7. CASE ~f /\ ~Promised!SomeFailed
    <3>1. reported \subseteq tasks
      BY DEF Reasons
    <3>2. verdict' = "nil" /\ outputFailed' = outputFailed
      BY <2>1, <2>4, <2>5, <2>7, <3>1
    <3>3. Promised!ReturnNil
      BY <2>1, <2>2, <2>4, <2>5, <2>7, <3>2 DEF Promised!ReturnNil
    <3> QED
      BY <3>3 DEF Promised!PromiseNext
  <2> QED
    BY <2>6, <2>7
<1>4. CASE PoolStep
  <2>0. UNCHANGED runVars /\ QueueStep
    BY <1>4 DEF PoolStep
  <2>1. ASSUME NEW w \in Workers, NEW ok \in BOOLEAN, RunBody(w, ok)
        PROVE  UNCHANGED Promised!promiseVars
    <3>1. worker[w].job \notin completed
      BY <2>1 DEF RunBody, Once, Fresh, Running
    <3>2. Outcome' = Outcome
      BY <2>1, <3>1 DEF RunBody, Outcome
    <3> QED
      BY <2>0, <3>2 DEF runVars
  <2>2. ASSUME NEW w \in Workers, MarkComplete(w) PROVE Promised!PromiseNext
    BY <2>0, <2>2, MarkFinishes DEF Promised!PromiseNext
  <2>3. ASSUME NEW w \in Workers,
               Dispatch(w) \/ WorkerExit(w) \/ RunPanics(w) \/ Complete(w)
                 \/ Recover(w)
        PROVE  UNCHANGED Promised!promiseVars
    BY <1>1, <2>0, <2>3 DEF Dispatch, WorkerExit, RunPanics, Complete, Recover,
       dispatcherOnly, workerOnly, runVars
  <2>4. CASE DispatcherStep \/ CountCompleted
    BY <1>1, <2>0, <2>4 DEF DispatcherStep, DispatcherSelect, NextCancelled,
       NextJob, SkipCompleted, CountCompleted, dispatcherOnly, runVars
  <2> QED
    BY <2>0, <2>1, <2>2, <2>3, <2>4 DEF QueueStep, WorkerStep
<1>5. CASE \/ CollectError \/ SubmitRefused \/ SubmitStore \/ SubmitSend
           \/ WaitComplete \/ WaitAgain \/ WaitCancelled \/ Results
           \/ ScanCancelled \/ Terminated \/ UNCHANGED vars
           \/ \E j \in Jobs : ScanJob(j)
  BY <1>1, <1>5 DEF CollectError, SubmitRefused, SubmitStore, PutStore,
     SubmitSend, PutSend, WaitComplete, WaitAgain, WaitCancelled, Results,
     ScanCancelled, ScanJob, Terminated, vars, runVars, queueVars
<1>6. ~Cancel
  BY DEF Cancel
<1> QED
  BY <1>2, <1>3, <1>4, <1>5, <1>6 DEF Next, RunStep

\* A run that nobody cancels, on a configuration that was not run before,
\* does what module RunPromise says, step by step: every step of a goroutine
\* is the end of one selected check, the return, or nothing at all.  That it
\* returns at all is for TLC.
THEOREM RunKeepsPromise ==
  ASSUME ~MayCancel, AlreadyRun = {}
  PROVE  Spec => /\ Promised!PromiseInit
                 /\ [][Promised!PromiseNext]_(Promised!promiseVars)
<1>1. Init => Promised!PromiseInit /\ Submission
  BY InitPromise, InitSubmission
<1>2. Shape /\ Once /\ Progress /\ Submission /\ [Next]_vars => Submission'
  BY NextSubmission
<1>3. Shape /\ Once /\ Progress /\ Reasons /\ Submission /\ [Next]_vars
        => [Promised!PromiseNext]_(Promised!promiseVars)
  BY StepKeepsPromise
<1> QED
  BY <1>1, <1>2, <1>3, ShapeInvariant, OnceInvariant, ProgressInvariant,
     ReasonsInvariant, PTL DEF Spec

-----------------------------------------------------------------------------
(* No job of a new configuration is dropped.                               *)

\* A job that waits for the dispatcher has not been completed by anybody.
NewJobs ==
    /\ completed \subseteq tasks
    /\ Queued \cap completed = {}
    /\ lock = "put" => selection[next] \notin completed

\* Nothing waits at first, and nothing is complete.
LEMMA InitNew == AlreadyRun = {} /\ Init => NewJobs
<1> SUFFICES ASSUME AlreadyRun = {}, Init PROVE NewJobs
  OBVIOUS
<1>1. Queued = {}
  BY DEF Init, QueueInit, Queued
<1> QED
  BY <1>1 DEF Init, QueueInit, NewJobs

\* Only the one that holds a job completes it, and Single leaves no second place
\* for that job to wait in.
LEMMA NextNew == Shape /\ Once /\ NewJobs /\ [Next]_vars => NewJobs'
<1> SUFFICES ASSUME Shape, Once, NewJobs, [Next]_vars PROVE NewJobs'
  OBVIOUS
<1>0. /\ QueueTypeOK /\ Holdings /\ Single
      /\ completed' \subseteq tasks'
  BY CompletedAreTasks DEF Shape, TypeOK, Once, NewJobs
<1>1. CASE /\ UNCHANGED <<channel, completed>>
           /\ lock' = "put" => lock = "put" /\ UNCHANGED <<selection, next>>
  BY <1>0, <1>1 DEF NewJobs, Queued
<1>2. CASE SubmitStore
  BY <1>0, <1>2 DEF SubmitStore, PutStore, NewJobs, Queued
<1>3. CASE SubmitSend
  <2>1. /\ selection[next] \in Jobs /\ lock = "put" /\ channel \in Seq(Jobs)
        /\ selection[next] \notin Queued
    BY <1>0, <1>3 DEF SubmitSend, PutSend, Holdings, QueueTypeOK, Single
  <2>2. /\ channel' = Append(channel, selection[next]) /\ lock' = "free"
        /\ UNCHANGED completed
    BY <1>3 DEF SubmitSend, PutSend
  <2>3. Queued' = Queued \cup {selection[next]}
    BY <1>0, <2>1, <2>2, AppendDistinct DEF Queued, Single
  <2> QED
    BY <1>0, <2>1, <2>2, <2>3 DEF NewJobs
<1>4. CASE PoolStep /\ (NextJob \/ SkipCompleted)
  <2>1. /\ channel' = Tail(channel) /\ channel # <<>>
        /\ UNCHANGED <<lock, completed, selection, next>>
    BY <1>4 DEF PoolStep, NextJob, SkipCompleted, dispatcherOnly, runVars
  <2>2. Queued' \subseteq Queued
    BY <1>0, <2>1, TailDistinct DEF Queued, Single, QueueTypeOK
  <2> QED
    BY <1>0, <2>1, <2>2 DEF NewJobs
<1>5. ASSUME NEW w \in Workers, PoolStep, MarkComplete(w) PROVE NewJobs'
  <2>1. /\ worker[w].job # NoJob /\ completed' = completed \cup {worker[w].job}
        /\ UNCHANGED <<lock, channel, selection, next>>
    BY <1>0, <1>5 DEF PoolStep, MarkComplete, workerOnly, Holdings, runVars
  <2>2. worker[w].job \notin Queued
    BY <1>0, <2>1 DEF Single
  <2>3. lock = "put" => selection[next] # worker[w].job
    BY <1>0 DEF Single
  <2> QED
    BY <1>0, <2>1, <2>2, <2>3 DEF NewJobs, Queued
<1>6. ASSUME PoolStep, ~(NextJob \/ SkipCompleted),
             \A w \in Workers : ~MarkComplete(w)
      PROVE  UNCHANGED <<channel, completed, lock, selection, next>>
  BY <1>6
  DEF PoolStep, QueueStep, DispatcherStep, DispatcherSelect, NextCancelled,
      CountCompleted, WorkerStep, Dispatch, WorkerExit, RunBody, RunPanics,
      Complete, Recover, dispatcherOnly, workerOnly, runVars
<1>7. ASSUME \/ CollectError \/ SubmitRefused \/ Collected \/ WaitComplete
             \/ WaitAgain \/ WaitCancelled \/ Results \/ ScanCancelled
             \/ Cancel \/ Terminated \/ UNCHANGED vars
             \/ \E j \in Jobs : ScanJob(j)
             \/ \E f \in BOOLEAN : ProduceResults(f)
      PROVE  /\ UNCHANGED <<channel, completed>>
             /\ lock' = "put" => lock = "put" /\ UNCHANGED <<selection, next>>
  BY <1>0, <1>7
  DEF Holdings, CollectError, SubmitRefused, Collected, WaitComplete,
      WaitAgain, WaitCancelled, Results, ScanCancelled, ScanJob, Cancel,
      ProduceResults, Terminated, vars, runVars, queueVars
<1> QED
  BY <1>1, <1>2, <1>3, <1>4, <1>5, <1>6, <1>7 DEF Next, RunStep

\* With AlreadyRun empty the dispatcher has nothing to skip, so every registered job
\* is in flight, about to be counted, or counted: the inequality of NeverOvercounts,
\* which is what keeps the wait from ending early, is an equality, which is what
\* lets it end (queue/unordered.go:234-241, pool/local.go:77-81).
THEOREM EveryJobIsCounted ==
  ASSUME AlreadyRun = {}
  PROVE  Spec => [](Dropped = 0)
<1>1. Shape /\ NewJobs => ~SkipCompleted
  <2> SUFFICES ASSUME Shape, NewJobs, SkipCompleted PROVE FALSE
    OBVIOUS
  <2>1. channel \in Seq(Jobs) /\ channel # <<>> /\ Head(channel) \in completed
    BY DEF Shape, TypeOK, QueueTypeOK, SkipCompleted
  <2>2. 1 \in 1..Len(channel) /\ Head(channel) = channel[1]
    BY <2>1
  <2> QED
    BY <2>1, <2>2 DEF NewJobs, Queued
<1>2. Shape /\ NewJobs /\ Dropped = 0 /\ [Next]_vars => (Dropped = 0)'
  <2>1. UNCHANGED vars => Dropped' = Dropped
    BY DEF Dropped, InFlight, One, Busy, vars, queueVars
  <2> QED
    BY <1>1, <2>1, RunCount, PoolCount DEF Next, Terminated
<1> QED
  BY <1>2, InitCount, InitNew, NextNew, ShapeInvariant, OnceInvariant, PTL
  DEF Spec

-----------------------------------------------------------------------------
(* Every step uses up work.                                                *)

\* The workers at one of the given places, and how many they are.
WorkersAt(pcs) == {w \in Workers : worker[w].pc \in pcs}

Holding == WorkerPcs \ {"select", "exited"}

\* What a worker may still do at a place: it drops by one with each of its steps
\* but when it is handed a job, which the dispatcher pays for, and when it spawns
\* a goroutine to count its job.
Weight(place) ==
    2 * One(place \in Holding) + One(place \in Running) + One(place = "run")
        + One(place # "exited")

\* The same, summed over the pool.
PoolLeft ==
    2 * Cardinality(WorkersAt(Holding)) + Cardinality(WorkersAt(Running))
        + Cardinality(WorkersAt({"run"}))
        + Cardinality(WorkersAt(WorkerPcs \ {"exited"}))

\* The dispatcher goes around its loop once for each job, which it pays a worker's
\* steps for, and once more when the context is done.
DispatcherLeft ==
    (CASE dispatcher.pc = "send" -> 6
       [] dispatcher.pc = "next" -> IF ctxDone THEN 2 ELSE 0
       [] dispatcher.pc = "select" -> 1
       [] dispatcher.pc = "exited" -> 0)
    + (IF ctxDone THEN 0 ELSE 3)

StageLeft ==
    CASE pc = "collect" -> 6
      [] pc = "send" -> 4
      [] pc = "wait" -> 3
      [] pc = "results" -> 2
      [] pc = "scan" -> 1
      [] pc = "returned" -> 0

\* The results that will have to be looked at, or are still to be.
ScanLeft ==
    IF pc \in {"scan", "returned"} THEN Cardinality(toScan)
                                   ELSE Cardinality(tasks)

Unread == Len(selection) + 1 - next

CallerLeft == One(~cancelled)

\* What the run and its pool can still do. An item of the stream is worth all the
\* steps that a job can cause, a job in the channel those that are left to it.
Work ==
    10 * Unread + StageLeft + ScanLeft + 7 * Len(channel) + DispatcherLeft
        + PoolLeft + completers + CallerLeft

\* A set of workers is finite.
LEMMA CountWorkers ==
  ASSUME NEW W \in SUBSET Workers
  PROVE  IsFiniteSet(W) /\ Cardinality(W) \in Nat
BY WorkersFinite, FS_Subset, FS_CardinalityType

\* A worker that moves changes the number of workers at a place by itself.
LEMMA OneWorkerMoves ==
  ASSUME NEW w \in Workers, NEW P,
         \A v \in Workers : v # w => worker'[v] = worker[v]
  PROVE  Cardinality(WorkersAt(P))'
           = Cardinality(WorkersAt(P)) + One(worker'[w].pc \in P)
                 - One(worker[w].pc \in P)
<1> DEFINE A == {v \in Workers : worker[v].pc \in P}
           B == {v \in Workers : worker'[v].pc \in P}
<1>1. /\ IsFiniteSet(A) /\ Cardinality(A) \in Nat
      /\ Cardinality(WorkersAt(P)) = Cardinality(A)
      /\ Cardinality(WorkersAt(P))' = Cardinality(B)
  BY CountWorkers DEF WorkersAt
<1>2. CASE worker'[w].pc \in P <=> worker[w].pc \in P
  <2>1. A = B
    BY <1>2
  <2> HIDE DEF A, B
  <2> QED
    BY <1>1, <1>2, <2>1 DEF One
<1>3. CASE worker'[w].pc \in P /\ worker[w].pc \notin P
  <2>1. B = A \cup {w} /\ w \notin A
    BY <1>3
  <2> HIDE DEF A, B
  <2>2. Cardinality(B) = Cardinality(A) + 1
    BY <1>1, <2>1, FS_AddElement
  <2> QED
    BY <1>1, <1>3, <2>2 DEF One
<1>4. CASE worker'[w].pc \notin P /\ worker[w].pc \in P
  <2>1. B = A \ {w} /\ w \in A
    BY <1>4
  <2> HIDE DEF A, B
  <2>2. Cardinality(B) = Cardinality(A) - 1
    BY <1>1, <2>1, FS_RemoveElement
  <2> QED
    BY <1>1, <1>4, <2>2 DEF One
<1> QED
  BY <1>2, <1>3, <1>4

\* So the pool's work changes by the weights of that worker's places.
LEMMA PoolLeftChanges ==
  ASSUME Shape, NEW w \in Workers,
         \A v \in Workers : v # w => worker'[v] = worker[v],
         worker'[w].pc \in WorkerPcs
  PROVE  /\ PoolLeft' = PoolLeft + Weight(worker'[w].pc) - Weight(worker[w].pc)
         /\ PoolLeft \in Nat
<1>0. worker[w].pc \in WorkerPcs
  BY DEF Shape, TypeOK, QueueTypeOK
<1> DEFINE C(P) == Cardinality(WorkersAt(P))
<1>1. \A P : C(P) \in Nat
  BY CountWorkers DEF WorkersAt
<1>2. /\ C(Holding)' = C(Holding) + One(worker'[w].pc \in Holding)
                           - One(worker[w].pc \in Holding)
      /\ C(Running)' = C(Running) + One(worker'[w].pc \in Running)
                           - One(worker[w].pc \in Running)
      /\ C({"run"})' = C({"run"}) + One(worker'[w].pc \in {"run"})
                           - One(worker[w].pc \in {"run"})
      /\ C(WorkerPcs \ {"exited"})'
           = C(WorkerPcs \ {"exited"})
                 + One(worker'[w].pc \in WorkerPcs \ {"exited"})
                 - One(worker[w].pc \in WorkerPcs \ {"exited"})
  BY OneWorkerMoves DEF Holding, Running, WorkerPcs
<1>3. \A p \in WorkerPcs :
        /\ One(p \in {"run"}) = One(p = "run")
        /\ One(p \in WorkerPcs \ {"exited"}) = One(p # "exited")
  BY DEF One
<1>4. \A p \in WorkerPcs :
        One(p \in Holding) \in Nat /\ One(p \in Running) \in Nat
          /\ One(p = "run") \in Nat /\ One(p # "exited") \in Nat
  BY DEF One
<1> HIDE DEF C
<1>5. PoolLeft = 2 * C(Holding) + C(Running) + C({"run"})
                     + C(WorkerPcs \ {"exited"})
  BY DEF PoolLeft, C
<1>6. PoolLeft' = 2 * C(Holding)' + C(Running)' + C({"run"})'
                      + C(WorkerPcs \ {"exited"})'
  BY DEF PoolLeft, C
<1> QED
  BY <1>0, <1>1, <1>2, <1>3, <1>4, <1>5, <1>6 DEF Weight

\* All parts of the measure are natural numbers.
LEMMA WorkType ==
  ASSUME Shape, Reasons
  PROVE  /\ Unread \in Nat /\ StageLeft \in Nat /\ ScanLeft \in Nat
         /\ Len(channel) \in Nat /\ DispatcherLeft \in Nat /\ PoolLeft \in Nat
         /\ completers \in Nat /\ CallerLeft \in Nat
         /\ Cardinality(tasks) \in Nat /\ Cardinality(toScan) \in Nat
         /\ IsFiniteSet(toScan)
         /\ Cardinality(toScan) <= Cardinality(tasks)
<1>0. TypeOK /\ QueueTypeOK /\ Holdings
  BY DEF Shape, TypeOK
<1>1. /\ IsFiniteSet(tasks) /\ toScan \subseteq tasks
  BY <1>0 DEF Holdings, Reasons
<1>2. /\ IsFiniteSet(toScan) /\ Cardinality(tasks) \in Nat
      /\ Cardinality(toScan) \in Nat /\ Cardinality(toScan) <= Cardinality(tasks)
  BY <1>1, FS_Subset, FS_CardinalityType
<1>3. Unread \in Nat
  <2>1. Len(selection) \in Nat /\ next \in 1..(Len(selection) + 1)
    BY <1>0 DEF TypeOK
  <2> QED
    BY <2>1 DEF Unread
<1>4. StageLeft \in Nat
  BY <1>0 DEF TypeOK, StageLeft
<1>5. DispatcherLeft \in Nat
  <2>1. dispatcher.pc \in DispatcherPcs
    BY <1>0 DEF QueueTypeOK
  <2> QED
    BY <2>1 DEF DispatcherLeft, DispatcherPcs
<1>6. PoolLeft \in Nat
  <2>1. \A P : Cardinality(WorkersAt(P)) \in Nat
    BY CountWorkers DEF WorkersAt
  <2> QED
    BY <2>1 DEF PoolLeft
<1>7. Len(channel) \in Nat /\ completers \in Nat
  BY <1>0 DEF QueueTypeOK
<1> QED
  BY <1>2, <1>3, <1>4, <1>5, <1>6, <1>7 DEF ScanLeft, CallerLeft, One

\* A step of Run reads an item or goes on to the next stage; registering a job adds
\* one result to look at, sending it one to the channel.
LEMMA RunWorks ==
  ASSUME Shape, Reasons, RunStep \/ Cancel
  PROVE  Work' < Work \/ UNCHANGED vars
<1> USE DEF Work
<1>0. /\ TypeOK /\ QueueTypeOK /\ Holdings /\ toScan \subseteq tasks
      /\ Len(selection) \in Nat /\ next \in 1..(Len(selection) + 1)
  BY DEF Shape, TypeOK, Reasons
<1>t. /\ Unread \in Nat /\ StageLeft \in Nat /\ ScanLeft \in Nat
      /\ Len(channel) \in Nat /\ DispatcherLeft \in Nat /\ PoolLeft \in Nat
      /\ completers \in Nat /\ CallerLeft \in Nat
      /\ Cardinality(tasks) \in Nat /\ Cardinality(toScan) \in Nat
      /\ Cardinality(toScan) <= Cardinality(tasks)
  BY WorkType
<1>p. worker' = worker => PoolLeft' = PoolLeft
  BY DEF PoolLeft, WorkersAt
<1>d. UNCHANGED <<dispatcher, ctxDone>> => DispatcherLeft' = DispatcherLeft
  BY DEF DispatcherLeft
<1>c. UNCHANGED cancelled => CallerLeft' = CallerLeft
  BY DEF CallerLeft, One
<1>s. UNCHANGED <<pc, toScan, tasks>> =>
         StageLeft' = StageLeft /\ ScanLeft' = ScanLeft
  BY DEF StageLeft, ScanLeft
<1>n. next' = next + 1 /\ UNCHANGED selection => Unread' = Unread - 1
  BY <1>0 DEF Unread
<1>u. UNCHANGED <<next, selection>> => Unread' = Unread
  BY DEF Unread
\* Another turn of the dispatcher when the context ends is paid for beforehand.
<1>e. ctxDone' /\ UNCHANGED dispatcher =>
         /\ DispatcherLeft' <= DispatcherLeft /\ DispatcherLeft' \in Nat
         /\ \E c \in Nat : DispatcherLeft' = DispatcherLeft - c
  <2> SUFFICES ASSUME ctxDone', UNCHANGED dispatcher
               PROVE  /\ DispatcherLeft' <= DispatcherLeft
                      /\ DispatcherLeft' \in Nat
                      /\ \E c \in Nat : DispatcherLeft' = DispatcherLeft - c
    OBVIOUS
  <2>1. dispatcher.pc \in DispatcherPcs
    BY <1>0 DEF QueueTypeOK
  <2>2. PICK c \in {0, 1, 3} : DispatcherLeft' = DispatcherLeft - c
    <3>1. \/ DispatcherLeft' = DispatcherLeft - 0
          \/ DispatcherLeft' = DispatcherLeft - 1
          \/ DispatcherLeft' = DispatcherLeft - 3
      BY <2>1 DEF DispatcherLeft, DispatcherPcs
    <3> QED
      BY <3>1
  <2>3. DispatcherLeft' \in Nat
    BY <2>1 DEF DispatcherLeft, DispatcherPcs
  <2> QED
    BY <2>2, <2>3, <1>t
<1>1. CASE CollectError \/ SubmitRefused
  <2>1. /\ next' = next + 1 /\ UNCHANGED <<selection, pc, toScan, tasks, cancelled>>
        /\ UNCHANGED <<ctxDone, dispatcher, worker, channel, completers>>
    BY <1>1 DEF CollectError, SubmitRefused, queueVars
  <2>2. Unread' = Unread - 1
    BY <2>1, <1>n
  <2>3. UNCHANGED <<StageLeft, ScanLeft, DispatcherLeft, PoolLeft, CallerLeft>>
    BY <2>1, <1>p, <1>d, <1>c, <1>s
  <2> QED
    BY <2>1, <2>2, <2>3, <1>t
<1>2. CASE SubmitStore
  <2>1. /\ pc = "collect" /\ pc' = "send" /\ tasks' = tasks \cup {selection[next]}
        /\ selection[next] \notin tasks
        /\ UNCHANGED <<selection, next, toScan, cancelled>>
        /\ UNCHANGED <<ctxDone, dispatcher, worker, channel, completers>>
    BY <1>2 DEF SubmitStore, PutStore
  <2>2. StageLeft' = StageLeft - 2
    BY <2>1 DEF StageLeft
  <2>3. ScanLeft' = ScanLeft + 1
    BY <1>0, <2>1, FS_AddElement DEF ScanLeft, Holdings
  <2>4. UNCHANGED <<Unread, DispatcherLeft, PoolLeft, CallerLeft>>
    BY <2>1, <1>p, <1>d, <1>c, <1>u
  <2> QED
    BY <2>1, <2>2, <2>3, <2>4, <1>t
<1>3. CASE SubmitSend
  <2>1. /\ pc = "send" /\ pc' = "collect" /\ next' = next + 1
        /\ channel' = Append(channel, selection[next])
        /\ UNCHANGED <<selection, toScan, tasks, cancelled>>
        /\ UNCHANGED <<ctxDone, dispatcher, worker, completers>>
    BY <1>3 DEF SubmitSend, PutSend
  <2>2. StageLeft' = StageLeft + 2 /\ ScanLeft' = ScanLeft
    BY <2>1 DEF StageLeft, ScanLeft
  <2>3. Len(channel') = Len(channel) + 1
    <3>1. channel \in Seq(Jobs) /\ selection[next] \in Jobs
      BY <1>0, <2>1 DEF Holdings, QueueTypeOK
    <3> QED
      BY <2>1, <3>1
  <2>4. Unread' = Unread - 1
    BY <2>1, <1>n
  <2>5. UNCHANGED <<DispatcherLeft, PoolLeft, CallerLeft>>
    BY <2>1, <1>p, <1>d, <1>c
  <2> QED
    BY <2>1, <2>2, <2>3, <2>4, <2>5, <1>t
<1>4. CASE Collected
  <2>1. /\ pc = "collect" /\ pc' \in {"wait", "returned"}
        /\ pc' = "returned" => ctxDone'
        /\ pc' = "wait" => UNCHANGED ctxDone
        /\ UNCHANGED <<selection, next, toScan, tasks, cancelled>>
        /\ UNCHANGED <<dispatcher, worker, channel, completers>>
    BY <1>4 DEF Collected, Return
  <2>2. PICK a \in Nat : a > 0 /\ StageLeft' = StageLeft - a
    <3>1. StageLeft' = StageLeft - 3 \/ StageLeft' = StageLeft - 6
      BY <2>1 DEF StageLeft
    <3> QED
      BY <3>1
  <2>3. PICK b \in Nat : ScanLeft' = ScanLeft - b
    <3>1. ScanLeft = Cardinality(tasks) /\ ScanLeft' \in {ScanLeft, Cardinality(toScan)}
      BY <2>1 DEF ScanLeft
    <3>2. /\ ScanLeft - Cardinality(toScan) \in Nat
          /\ Cardinality(toScan) = ScanLeft - (ScanLeft - Cardinality(toScan))
          /\ ScanLeft = ScanLeft - 0
      BY <3>1, <1>t
    <3> QED
      BY <3>1, <3>2
  <2>4. PICK c \in Nat : DispatcherLeft' = DispatcherLeft - c
    BY <2>1, <1>t, <1>d, <1>e
  <2>5. UNCHANGED <<Unread, PoolLeft, CallerLeft, channel, completers>>
    BY <2>1, <1>p, <1>u, <1>c
  <2> QED
    BY <2>2, <2>3, <2>4, <2>5, <1>t
<1>5. CASE WaitComplete \/ WaitCancelled \/ Results
  <2>1. /\ \/ pc = "wait" /\ pc' = "results" /\ UNCHANGED toScan
           \/ pc = "results" /\ pc' = "scan" /\ toScan' = tasks
        /\ UNCHANGED <<selection, next, tasks, cancelled>>
        /\ UNCHANGED <<ctxDone, dispatcher, worker, channel, completers>>
    BY <1>5 DEF WaitComplete, WaitCancelled, Results, queueVars
  <2>2. StageLeft' = StageLeft - 1
    BY <2>1 DEF StageLeft
  <2>3. ScanLeft' = ScanLeft
    BY <2>1 DEF ScanLeft
  <2>4. UNCHANGED <<Unread, DispatcherLeft, PoolLeft, CallerLeft>>
    BY <2>1, <1>p, <1>d, <1>c, <1>u
  <2> QED
    BY <2>1, <2>2, <2>3, <2>4, <1>t
<1>6. ASSUME ScanCancelled \/ \E j \in Jobs : ScanJob(j) PROVE Work' < Work
  <2>1. PICK S : /\ S # {} /\ S \subseteq toScan
                 /\ pc = "scan" /\ pc' = pc /\ toScan' = toScan \ S
    <3>1. CASE ScanCancelled
      BY <3>1 DEF ScanCancelled
    <3>2. CASE \E j \in Jobs : ScanJob(j)
      <4>1. PICK j \in toScan : toScan' = toScan \ {j} /\ pc = "scan" /\ pc' = pc
        BY <3>2 DEF ScanJob
      <4> QED
        BY <4>1
    <3> QED
      BY <1>6, <3>1, <3>2
  <2>2. /\ UNCHANGED <<selection, next, pc, tasks, cancelled>>
        /\ UNCHANGED <<ctxDone, dispatcher, worker, channel, completers>>
    BY <1>6 DEF ScanCancelled, ScanJob, queueVars
  <2>3. Cardinality(toScan') < Cardinality(toScan) /\ Cardinality(toScan') \in Nat
    <3>1. IsFiniteSet(toScan)
      BY WorkType
    <3>2. toScan' \subseteq toScan /\ toScan' # toScan
      BY <2>1
    <3> QED
      BY <3>1, <3>2, FS_Subset, FS_CardinalityType
  <2>4. StageLeft' = StageLeft /\ ScanLeft' < ScanLeft /\ ScanLeft' \in Nat
    BY <2>1, <2>2, <2>3 DEF StageLeft, ScanLeft
  <2>5. UNCHANGED <<Unread, DispatcherLeft, PoolLeft, CallerLeft>>
    BY <2>2, <1>p, <1>d, <1>c, <1>u
  <2> QED
    BY <2>2, <2>4, <2>5, <1>t
<1>7. ASSUME NEW f \in BOOLEAN, ProduceResults(f) PROVE Work' < Work
  <2>1. /\ pc = "scan" /\ pc' = "returned" /\ ctxDone'
        /\ UNCHANGED <<selection, next, toScan, tasks, cancelled>>
        /\ UNCHANGED <<dispatcher, worker, channel, completers>>
    BY <1>7 DEF ProduceResults, Return
  <2>2. StageLeft' = StageLeft - 1 /\ ScanLeft' = ScanLeft
    BY <2>1 DEF StageLeft, ScanLeft
  <2>3. DispatcherLeft' <= DispatcherLeft /\ DispatcherLeft' \in Nat
    BY <2>1, <1>e
  <2>4. UNCHANGED <<Unread, PoolLeft, CallerLeft>>
    BY <2>1, <1>p, <1>u, <1>c
  <2> QED
    BY <2>1, <2>2, <2>3, <2>4, <1>t
<1>8. CASE Cancel
  <2>1. /\ ~cancelled /\ cancelled' /\ ctxDone'
        /\ UNCHANGED <<selection, next, pc, toScan, tasks>>
        /\ UNCHANGED <<dispatcher, worker, channel, completers>>
    BY <1>8 DEF Cancel
  <2>2. /\ DispatcherLeft' <= DispatcherLeft /\ DispatcherLeft' \in Nat
        /\ CallerLeft' = CallerLeft - 1
    BY <2>1, <1>e DEF CallerLeft, One
  <2>3. UNCHANGED <<Unread, PoolLeft, StageLeft, ScanLeft>>
    BY <2>1, <1>p, <1>u, <1>s
  <2> QED
    BY <2>1, <2>2, <2>3, <1>t
<1> QED
  BY <1>1, <1>2, <1>3, <1>4, <1>5, <1>6, <1>7, <1>8 DEF RunStep, WaitAgain

\* A goroutine of the pool moves a job on, or ends.
LEMMA PoolWorks ==
  ASSUME Shape, Reasons, PoolStep
  PROVE  Work' < Work
<1> USE DEF Work
<1>0. /\ QueueTypeOK /\ Holdings /\ QueueStep
      /\ worker \in [Workers -> [pc : WorkerPcs, job : Jobs \cup {NoJob}]]
      /\ channel \in Seq(Jobs)
  BY DEF Shape, TypeOK, QueueTypeOK, PoolStep
<1>t. /\ Unread \in Nat /\ StageLeft \in Nat /\ ScanLeft \in Nat
      /\ Len(channel) \in Nat /\ DispatcherLeft \in Nat /\ PoolLeft \in Nat
      /\ completers \in Nat /\ CallerLeft \in Nat
  BY WorkType
<1>u. /\ UNCHANGED <<tasks, ctxDone, runVars>>
      /\ UNCHANGED <<Unread, StageLeft, ScanLeft, CallerLeft>>
  <2>1. UNCHANGED <<tasks, ctxDone>> /\ UNCHANGED runVars
    BY DEF PoolStep, QueueStep, DispatcherStep, DispatcherSelect,
       NextCancelled, NextJob, SkipCompleted, CountCompleted, WorkerStep,
       Dispatch, WorkerExit, RunBody, RunPanics, MarkComplete, Complete,
       Recover, dispatcherOnly, workerOnly
  <2> QED
    BY <2>1 DEF runVars, Unread, StageLeft, ScanLeft, CallerLeft, One
<1>1. CASE DispatcherSelect \/ NextCancelled
  <2>1. UNCHANGED <<channel, worker, completers>>
    BY <1>1 DEF DispatcherSelect, NextCancelled, dispatcherOnly
  <2>2. PoolLeft' = PoolLeft
    BY <2>1 DEF PoolLeft, WorkersAt
  <2>3. DispatcherLeft' = DispatcherLeft - 1
    BY <1>1, <1>u DEF DispatcherSelect, NextCancelled, At, DispatcherLeft
  <2> QED
    BY <2>1, <2>2, <2>3, <1>t, <1>u
<1>2. CASE NextJob \/ SkipCompleted
  <2>1. /\ UNCHANGED <<worker, completers>> /\ channel # <<>>
        /\ channel' = Tail(channel)
    BY <1>2 DEF NextJob, SkipCompleted, dispatcherOnly
  <2>2. Len(channel') = Len(channel) - 1
    BY <1>0, <2>1
  <2>3. PoolLeft' = PoolLeft
    BY <2>1 DEF PoolLeft, WorkersAt
  <2>4. DispatcherLeft' <= DispatcherLeft + 6 /\ DispatcherLeft' \in Nat
    BY <1>2, <1>u DEF NextJob, SkipCompleted, At, DispatcherLeft
  <2> QED
    BY <2>1, <2>2, <2>3, <2>4, <1>t, <1>u
<1>3. CASE CountCompleted
  <2>1. completers' = completers - 1 /\ UNCHANGED <<channel, worker, dispatcher>>
    BY <1>3 DEF CountCompleted
  <2>2. PoolLeft' = PoolLeft /\ DispatcherLeft' = DispatcherLeft
    BY <2>1, <1>u DEF PoolLeft, WorkersAt, DispatcherLeft
  <2> QED
    BY <2>1, <2>2, <1>t, <1>u
<1>4. ASSUME NEW w \in Workers, WorkerStep(w) PROVE Work' < Work
  <2>0. /\ \A v \in Workers : v # w => worker'[v] = worker[v]
        /\ worker'[w].pc \in WorkerPcs
        /\ UNCHANGED channel
    BY <1>0, <1>4 DEF WorkerStep, Dispatch, WorkerExit, RunBody, RunPanics,
       MarkComplete, Complete, Recover, dispatcherOnly, workerOnly, At,
       WorkerPcs
  <2>1. PoolLeft' = PoolLeft + Weight(worker'[w].pc) - Weight(worker[w].pc)
    BY <2>0, PoolLeftChanges
  <2>2. /\ Weight("run") = 5 /\ Weight("deferred") = 4 /\ Weight("unwinding") = 4
        /\ Weight("finished") = 3 /\ Weight("recovering") = 3
        /\ Weight("select") = 1 /\ Weight("exited") = 0
    BY DEF Weight, One, Holding, Running, WorkerPcs
  <2>3. UNCHANGED dispatcher => DispatcherLeft' = DispatcherLeft
    BY <1>u DEF DispatcherLeft
  <2>4. CASE Dispatch(w)
    <3>1. /\ worker[w].pc = "select" /\ worker'[w].pc = "run"
          /\ dispatcher.pc = "send" /\ dispatcher'.pc = "select"
          /\ UNCHANGED completers
      BY <1>0, <2>4 DEF Dispatch, dispatcherOnly, At
    <3>2. DispatcherLeft' = DispatcherLeft - 5
      BY <1>u, <3>1 DEF DispatcherLeft
    <3>3. PoolLeft' = PoolLeft + 4
      BY <2>1, <2>2, <3>1, <1>t
    <3> QED
      BY <2>0, <3>1, <3>2, <3>3, <1>t, <1>u
  <2>5. CASE WorkerExit(w) \/ (\E ok \in BOOLEAN : RunBody(w, ok))
               \/ RunPanics(w) \/ MarkComplete(w)
    <3>1. /\ \/ worker[w].pc = "select" /\ worker'[w].pc = "exited"
             \/ worker[w].pc = "run" /\ worker'[w].pc \in {"deferred", "unwinding"}
             \/ /\ worker[w].pc \in {"deferred", "unwinding"}
                /\ worker'[w].pc \in {"finished", "recovering"}
          /\ UNCHANGED <<completers, dispatcher>>
      BY <1>0, <2>5
      DEF WorkerExit, RunBody, RunPanics, MarkComplete, workerOnly, At
    <3>2. PoolLeft' = PoolLeft - 1
      BY <2>1, <2>2, <3>1, <1>t
    <3> QED
      BY <2>0, <2>3, <3>1, <3>2, <1>t, <1>u
  <2>6. CASE Complete(w) \/ Recover(w)
    <3>1. /\ worker[w].pc \in {"finished", "recovering"}
          /\ worker'[w].pc = "select" /\ completers' = completers + 1
          /\ UNCHANGED dispatcher
      BY <1>0, <2>6 DEF Complete, Recover, workerOnly, At
    <3>2. PoolLeft' = PoolLeft - 2 /\ DispatcherLeft' = DispatcherLeft
      BY <2>1, <2>2, <2>3, <3>1, <1>t
    <3>3. Len(channel') = Len(channel) /\ completers' = completers + 1
      BY <2>0, <3>1
    <3> QED
      BY <3>2, <3>3, <1>t, <1>u
  <2> QED
    BY <1>4, <2>4, <2>5, <2>6 DEF WorkerStep
<1> QED
  BY <1>0, <1>1, <1>2, <1>3, <1>4 DEF QueueStep, DispatcherStep

\* No goroutine of a run goes in circles: each step of Run, of the dispatcher, of a
\* worker, of a goroutine of Complete, and the caller's cancellation, uses up some of
\* an amount of work that was finite at the start, panics and jobs that are complete
\* beforehand included. Only the timer of WaitCtxInterval fires without effect
\* (app.go:104, pool/local.go:63-123).
THEOREM EveryStepIsWork == Spec => [](Work \in Nat) /\ [][Work' < Work]_vars
<1>1. ASSUME Shape, Reasons PROVE Work \in Nat
  <2>1. /\ Unread \in Nat /\ StageLeft \in Nat /\ ScanLeft \in Nat
        /\ Len(channel) \in Nat /\ DispatcherLeft \in Nat /\ PoolLeft \in Nat
        /\ completers \in Nat /\ CallerLeft \in Nat
    BY <1>1, WorkType
  <2> QED
    BY <2>1 DEF Work
<1>2. Shape /\ Reasons /\ [Next]_vars => [Work' < Work]_vars
  BY RunWorks, PoolWorks DEF Next, Terminated
<1> QED
  BY <1>1, <1>2, ShapeInvariant, ReasonsInvariant, PTL DEF Spec

-----------------------------------------------------------------------------
(* Some goroutine can always move.                                         *)

\* The guards of the actions of RunStep that change something.
RunCanMove ==
    \/ pc = "collect" /\ next > Len(selection)
    \/ pc = "collect" /\ next <= Len(selection) /\ selection[next] = Missing
    \/ pc = "collect" /\ next <= Len(selection) /\ lock = "free"
    \/ pc = "send" /\ lock = "put" /\ Len(channel) < BufferSize
    \/ pc = "wait" /\ lock = "free" /\ IsComplete
    \/ pc = "wait" /\ ctxDone
    \/ pc = "results" /\ lock = "free"
    \/ pc = "scan"

\* The guards of the actions of QueueStep.
PoolCanMove ==
    \/ dispatcher.pc = "select"
    \/ dispatcher.pc = "next" /\ (channel # <<>> \/ ctxDone)
    \/ dispatcher.pc = "send" /\ \E w \in Workers : worker[w].pc = "select"
    \/ completers > 0 /\ lock = "free"
    \/ \E w \in Workers : worker[w].pc = "select" /\ ctxDone
    \/ \E w \in Workers : worker[w].pc \notin {"select", "exited"}

\* The context ends with the caller's or when Run returns, and no goroutine of the
\* pool ends before it does.
Contexts ==
    /\ cancelled \/ pc = "returned" => ctxDone
    /\ dispatcher.pc = "exited" => ctxDone
    /\ \A w \in Workers : worker[w].pc = "exited" => ctxDone

LEMMA InitContexts == Init => Contexts
BY DEF Init, QueueInit, Contexts, At

LEMMA NextContexts == Shape /\ Contexts /\ [Next]_vars => Contexts'
<1> SUFFICES ASSUME Shape, Contexts, [Next]_vars PROVE Contexts'
  OBVIOUS
<1>0. /\ worker \in [Workers -> [pc : WorkerPcs, job : Jobs \cup {NoJob}]]
      /\ dispatcher \in [pc : DispatcherPcs, job : Jobs \cup {NoJob}]
  BY DEF Shape, TypeOK, QueueTypeOK
<1>1. ASSUME RunStep \/ Cancel \/ Terminated \/ UNCHANGED vars
      PROVE  Contexts'
  BY <1>1
  DEF RunStep, Contexts, CollectError, SubmitRefused, SubmitStore, PutStore,
      SubmitSend, PutSend, Collected, Return, WaitComplete, WaitAgain,
      WaitCancelled, Results, ScanJob, ScanCancelled, ProduceResults, Cancel,
      Terminated, vars, runVars, queueVars
<1>2. ASSUME PoolStep PROVE Contexts'
  <2>0. UNCHANGED <<pc, cancelled, ctxDone>>
    BY <1>2
    DEF PoolStep, QueueStep, DispatcherStep, DispatcherSelect,
        NextCancelled, NextJob, SkipCompleted, CountCompleted, WorkerStep,
        Dispatch, WorkerExit, RunBody, RunPanics, MarkComplete, Complete,
        Recover, dispatcherOnly, workerOnly, runVars
  <2>1. dispatcher'.pc = "exited" => ctxDone
    BY <1>0, <1>2
    DEF PoolStep, QueueStep, DispatcherStep, DispatcherSelect,
        NextCancelled, NextJob, SkipCompleted, CountCompleted, WorkerStep,
        Dispatch, WorkerExit, RunBody, RunPanics, MarkComplete, Complete,
        Recover, dispatcherOnly, workerOnly, At, Contexts
  <2>2. \A v \in Workers : worker'[v].pc = "exited" => ctxDone
    <3>1. CASE worker' = worker
      BY <3>1 DEF Contexts
    <3>2. ASSUME NEW w \in Workers, WorkerStep(w)
          PROVE  \A v \in Workers : worker'[v].pc = "exited" => ctxDone
      BY <1>0, <3>2
      DEF WorkerStep, Dispatch, WorkerExit, RunBody, RunPanics, MarkComplete,
          Complete, Recover, At, Contexts
    <3>3. worker' = worker \/ \E w \in Workers : WorkerStep(w)
      BY <1>2
      DEF PoolStep, QueueStep, DispatcherStep, DispatcherSelect,
          NextCancelled, NextJob, SkipCompleted, CountCompleted
    <3> QED
      BY <3>1, <3>2, <3>3
  <2> QED
    BY <2>0, <2>1, <2>2 DEF Contexts
<1> QED
  BY <1>1, <1>2 DEF Next

LEMMA ContextsInvariant == Spec => []Contexts
BY InitContexts, NextContexts, ShapeInvariant, PTL DEF Spec

\* The channel always has room for one job at least.
LEMMA BufferIsPositive == BufferSize \in Nat /\ BufferSize >= 1
BY QueueAssumption DEF QueueAssumption, BufferSize, AtLeast, AtMost

\* While the context lasts, the pool takes what is in the channel or offered to it.
LEMMA PoolTakesJobs ==
  ASSUME Shape, Contexts, ~ctxDone, channel # <<>> \/ dispatcher.pc = "send"
  PROVE  PoolCanMove
<1>1. dispatcher.pc \in {"select", "next", "send"}
  BY DEF Shape, TypeOK, QueueTypeOK, DispatcherPcs, Contexts
<1>2. CASE dispatcher.pc = "send"
  <2>1. 1 \in Workers
    BY QueueAssumption DEF QueueAssumption, Workers, PoolSize
  <2>2. worker[1].pc # "exited"
    BY <2>1 DEF Contexts
  <2> QED
    BY <1>2, <2>1, <2>2 DEF PoolCanMove
<1> QED
  BY <1>1, <1>2 DEF PoolCanMove

\* A run on a fresh configuration that is not cancelled is never stuck: until it has
\* returned, Run or a goroutine of its pool can move, although Put sends on the
\* bounded channel with the lock held that Complete needs (queue/unordered.go:76-96,
\* 219-241) and Run waits for a counter that only those goroutines advance. With
\* EveryStepIsWork, such a run can only end by returning.
THEOREM RunIsNeverStuck ==
  ASSUME AlreadyRun = {}
  PROVE  Spec => [](pc # "returned" /\ ~cancelled => RunCanMove \/ PoolCanMove)
<1>1. ASSUME Facts, Progress, Contexts, Dropped = 0,
             pc # "returned", ~cancelled
      PROVE  RunCanMove \/ PoolCanMove
  <2>0. /\ TypeOK /\ QueueTypeOK /\ Holdings /\ Shape /\ ~ctxDone
        /\ Len(selection) \in Nat /\ next \in 1..(Len(selection) + 1)
        /\ Cardinality(tasks) \in Nat /\ InFlight \in Nat
    BY <1>1, InFlightZero, FS_CardinalityType
    DEF Facts, Shape, TypeOK, Progress, Holdings
  <2>1. pc \in {"collect", "send", "wait", "results", "scan"}
    BY <1>1, <2>0 DEF TypeOK
  <2>2. pc \in {"collect", "wait", "results"} => lock = "free"
    BY <2>0 DEF Holdings, QueueTypeOK
  <2>3. CASE pc = "collect"
    BY <2>0, <2>2, <2>3 DEF RunCanMove
  <2>4. CASE pc = "send"
    <3>1. CASE Len(channel) < BufferSize
      BY <2>0, <2>4, <3>1 DEF RunCanMove, Holdings
    <3>2. CASE ~(Len(channel) < BufferSize)
      <4>1. Len(channel) # 0
        BY <3>2, BufferIsPositive
      <4>2. channel # <<>>
        BY <4>1
      <4> QED
        BY <1>1, <2>0, <4>2, PoolTakesJobs
    <3> QED
      BY <3>1, <3>2
  <2>5. CASE pc = "wait"
    <3>1. CASE IsComplete
      BY <2>2, <2>5, <3>1 DEF RunCanMove
    <3>2. CASE ~IsComplete
      <4>1. numCompleted \in Nat /\ completers \in Nat
        BY <2>0 DEF QueueTypeOK
      <4>2. completers > 0 \/ InFlight # 0
        BY <1>1, <2>0, <3>2, <4>1 DEF Dropped, IsComplete
      <4>3. CASE completers > 0
        BY <2>2, <2>5, <4>3 DEF PoolCanMove
      <4>4. CASE InFlight # 0
        <5>1. channel # <<>> \/ Busy # {} \/ dispatcher.pc = "send"
          BY <2>0, <2>2, <2>5, <4>4, InFlightZero
        <5>2. CASE Busy # {}
          BY <2>0, <5>2 DEF Busy, Holdings, PoolCanMove
        <5> QED
          BY <1>1, <2>0, <5>1, <5>2, PoolTakesJobs
      <4> QED
        BY <4>2, <4>3, <4>4
    <3> QED
      BY <3>1, <3>2
  <2>6. CASE pc \in {"results", "scan"}
    BY <2>2, <2>6 DEF RunCanMove
  <2> QED
    BY <2>1, <2>3, <2>4, <2>5, <2>6
<1> QED
  BY <1>1, FactsInvariant, ProgressInvariant, ContextsInvariant,
     EveryJobIsCounted, PTL

\* A cancelled run, on any configuration, can only be stuck in Put, whose send
\* watches no context (queue/unordered.go:92): at every other place Run itself can
\* move, whatever the pool does, so it ends its wait and its scan on its own.
THEOREM CancelledRunCanMove ==
  Spec => [](cancelled /\ pc \notin {"send", "returned"} => RunCanMove)
<1>1. ASSUME Shape, Contexts, cancelled, pc \notin {"send", "returned"}
      PROVE  RunCanMove
  <2>0. /\ TypeOK /\ QueueTypeOK /\ Holdings /\ ctxDone
        /\ Len(selection) \in Nat /\ next \in 1..(Len(selection) + 1)
    BY <1>1 DEF Shape, TypeOK, Contexts
  <2>1. pc \in {"collect", "results"} => lock = "free"
    BY <2>0 DEF Holdings, QueueTypeOK
  <2> QED
    BY <1>1, <2>0, <2>1 DEF RunCanMove, TypeOK
<1> QED
  BY <1>1, ShapeInvariant, ContextsInvariant, PTL

\* When a run that waited for its checks has returned, each goroutine of its pool has
\* ended or can move: the dispatcher holds no job that nobody would take, so none of
\* them is leaked (pool/local.go:63-123).
THEOREM NoGoroutineIsLeaked ==
  Spec => [](waited /\ pc = "returned" => PoolStopped \/ PoolCanMove)
<1>1. ASSUME Shape, Progress, Contexts, waited, pc = "returned"
      PROVE  PoolStopped \/ PoolCanMove
  <2>1. /\ ctxDone /\ Quiet /\ dispatcher.pc \in DispatcherPcs
        /\ worker \in [Workers -> [pc : WorkerPcs, job : Jobs \cup {NoJob}]]
    BY <1>1 DEF Progress, Contexts, Shape, TypeOK, QueueTypeOK
  <2>2. dispatcher.pc # "send"
    BY <2>1 DEF Quiet
  <2>3. dispatcher.pc = "exited" \/ PoolCanMove
    BY <2>1, <2>2 DEF PoolCanMove, DispatcherPcs
  <2>4. (\A w \in Workers : worker[w].pc = "exited") \/ PoolCanMove
    BY <2>1 DEF PoolCanMove
  <2> QED
    BY <2>3, <2>4 DEF PoolStopped
<1> QED
  BY <1>1, ShapeInvariant, ProgressInvariant, ContextsInvariant, PTL

=============================================================================
