------------------------------- MODULE AppRun -------------------------------
(***************************************************************************)
(* GreenbayApp.Run: the goroutine that submits the selected checks to a    *)
(* LocalUnordered queue, waits for them in WaitCtxInterval, and turns the  *)
(* queue's results into the error that greenbay exits with.  The queue and *)
(* its pool run concurrently with it (module LocalQueue).                  *)
(***************************************************************************)
EXTENDS LocalQueue

CONSTANTS
    Missing,        \* an item of the test stream that carries an error
    Selections,     \* the streams GetAllTests may yield
    MayCancel       \* the caller may cancel its context

ASSUME RunAssumption ==
    /\ Missing \notin Jobs
    /\ Selections \subseteq Seq(Jobs \cup {Missing})
    /\ MayCancel \in BOOLEAN

VARIABLES
    pc,         \* where Run is
    selection,  \* the items of the test stream
    next,       \* the index of the next item to receive
    hasErrors,  \* catcher.HasErrors()
    cancelled,  \* the caller cancelled the context it passed
    waited,     \* WaitCtxInterval returned true
    toScan,     \* jobs the Results goroutine has yet to look at
    reported,   \* jobs it sent to the results producer
    outputFailed, \* the producer could not print or write the results
    verdict     \* what Run returned

runVars == <<pc, selection, next, hasErrors, cancelled, waited, toScan,
             reported, outputFailed, verdict>>

vars == <<runVars, queueVars>>

TypeOK ==
    /\ QueueTypeOK
    /\ pc \in {"collect", "send", "wait", "results", "scan", "returned"}
    /\ selection \in Seq(Jobs \cup {Missing})
    /\ next \in 1..(Len(selection) + 1)
    /\ hasErrors \in BOOLEAN
    /\ cancelled \in BOOLEAN
    /\ waited \in BOOLEAN
    /\ toScan \subseteq Jobs
    /\ reported \subseteq Jobs
    /\ outputFailed \in BOOLEAN
    /\ verdict \in {"none", "nil", "error"}

\* NewLocalUnordered and Start have run; the range loop is about to begin.
Init ==
    /\ QueueInit
    /\ pc = "collect"
    /\ selection \in Selections
    /\ next = 1
    /\ hasErrors = FALSE
    /\ cancelled = FALSE
    /\ waited = FALSE
    /\ toScan = {}
    /\ reported = {}
    /\ outputFailed = FALSE
    /\ verdict = "none"

\* The caller cancels: every context derived from its own is done.
Cancel ==
    /\ MayCancel
    /\ ~cancelled
    /\ cancelled' = TRUE
    /\ ctxDone' = TRUE
    /\ UNCHANGED <<pc, selection, next, hasErrors, waited, toScan, reported,
                   outputFailed, verdict, tasks, lock, channel, numCompleted,
                   completers, dispatcher, worker, completed, passed>>

\* Run returns; its deferred cancel ends the context of the pool.
Return(v) ==
    /\ pc' = "returned"
    /\ verdict' = v
    /\ ctxDone' = TRUE

\* The stream yields an error.
CollectError ==
    /\ pc = "collect"
    /\ next <= Len(selection)
    /\ selection[next] = Missing
    /\ next' = next + 1
    /\ hasErrors' = TRUE
    /\ UNCHANGED <<pc, selection, cancelled, waited, toScan, reported,
                   outputFailed, verdict, queueVars>>

\* Mutant: Put's error is dropped instead of added to the catcher.
SubmitRefused_ErrorDropped ==
    /\ pc = "collect"
    /\ next <= Len(selection)
    /\ PutRefused(selection[next])
    /\ next' = next + 1
    /\ UNCHANGED <<pc, selection, hasErrors, cancelled, waited, toScan,
                   reported, outputFailed, verdict, queueVars>>

\* The stream yields a job whose name the queue knows: Put's error is caught.
SubmitRefused ==
    /\ pc = "collect"
    /\ next <= Len(selection)
    /\ PutRefused(selection[next])
    /\ next' = next + 1
    /\ hasErrors' = TRUE
    /\ UNCHANGED <<pc, selection, cancelled, waited, toScan, reported,
                   outputFailed, verdict, queueVars>>

\* The stream yields a new job: Put registers it ...
SubmitStore ==
    /\ pc = "collect"
    /\ next <= Len(selection)
    /\ selection[next] # Missing
    /\ PutStore(selection[next])
    /\ pc' = "send"
    /\ UNCHANGED <<selection, next, hasErrors, cancelled, waited, toScan,
                   reported, outputFailed, verdict>>

\* ... and blocks until the channel has room for it.
SubmitSend ==
    /\ pc = "send"
    /\ PutSend(selection[next])
    /\ pc' = "collect"
    /\ next' = next + 1
    /\ UNCHANGED <<selection, hasErrors, cancelled, waited, toScan, reported,
                   outputFailed, verdict>>

\* The stream is exhausted: return early if anything went wrong with it.
Collected ==
    /\ pc = "collect"
    /\ next > Len(selection)
    /\ \/ /\ hasErrors
          /\ Return("error")
       \/ /\ ~hasErrors
          /\ pc' = "wait"
          /\ UNCHANGED <<verdict, ctxDone>>
    /\ UNCHANGED <<selection, next, hasErrors, cancelled, waited, toScan,
                   reported, outputFailed, tasks, lock, channel, numCompleted,
                   completers, dispatcher, worker, completed, passed>>

\* WaitCtxInterval: the timer fires and Stats says that all is complete.
WaitComplete ==
    /\ pc = "wait"
    /\ lock = "free"
    /\ IsComplete
    /\ waited' = TRUE
    /\ pc' = "results"
    /\ UNCHANGED <<selection, next, hasErrors, cancelled, toScan, reported,
                   outputFailed, verdict, queueVars>>

\* The timer fires, something is incomplete, and the timer is set again.
WaitAgain ==
    /\ pc = "wait"
    /\ lock = "free"
    /\ ~IsComplete
    /\ UNCHANGED vars

\* Mutant: a cancelled wait reports that everything is complete.
WaitCancelled_ClaimsComplete ==
    /\ pc = "wait"
    /\ ctxDone
    /\ waited' = TRUE
    /\ pc' = "results"
    /\ UNCHANGED <<selection, next, hasErrors, cancelled, toScan, reported,
                   outputFailed, verdict, queueVars>>

\* Mutant: the wait looks at the context only when everything is complete.
WaitCancelled_OnlyWhenComplete ==
    /\ pc = "wait"
    /\ ctxDone
    /\ IsComplete
    /\ pc' = "results"
    /\ UNCHANGED <<selection, next, hasErrors, cancelled, waited, toScan,
                   reported, outputFailed, verdict, queueVars>>

\* The context is done.  Run ignores the false that WaitCtxInterval returns.
WaitCancelled ==
    /\ pc = "wait"
    /\ ctxDone
    /\ pc' = "results"
    /\ UNCHANGED <<selection, next, hasErrors, cancelled, waited, toScan,
                   reported, outputFailed, verdict, queueVars>>

\* Results spawns a goroutine that holds the read lock while it iterates.
Results ==
    /\ pc = "results"
    /\ lock = "free"
    /\ lock' = "results"
    /\ toScan' = tasks
    /\ pc' = "scan"
    /\ UNCHANGED <<selection, next, hasErrors, cancelled, waited, reported,
                   outputFailed, verdict, tasks, channel, numCompleted,
                   completers, dispatcher, worker, completed, passed,
                   ctxDone>>

\* Mutant: the iteration sends every job, completed or not, cancelled or not.
ScanJob_ReportsAll(j) ==
    /\ pc = "scan"
    /\ j \in toScan
    /\ toScan' = toScan \ {j}
    /\ reported' = reported \cup {j}
    /\ UNCHANGED <<pc, selection, next, hasErrors, cancelled, waited,
                   outputFailed, verdict, queueVars>>

\* The iteration looks at one job, in the order of a Go map: any.
ScanJob(j) ==
    /\ pc = "scan"
    /\ j \in toScan
    /\ ~ctxDone
    /\ toScan' = toScan \ {j}
    /\ reported' = IF j \in completed THEN reported \cup {j} ELSE reported
    /\ UNCHANGED <<pc, selection, next, hasErrors, cancelled, waited,
                   outputFailed, verdict, queueVars>>

\* The iteration stops short because the context is done.
ScanCancelled ==
    /\ pc = "scan"
    /\ toScan # {}
    /\ ctxDone
    /\ toScan' = {}
    /\ UNCHANGED <<pc, selection, next, hasErrors, cancelled, waited,
                   reported, outputFailed, verdict, queueVars>>

\* Mutant: the producer keeps the last check's status instead of any failure.
ProduceResults_LastWins(outputFails) ==
    /\ pc = "scan"
    /\ toScan = {}
    /\ \E ok \in reported \cup {NoJob} :
          /\ ok = NoJob => reported = {}
          /\ Return(IF outputFails \/ (ok # NoJob /\ ok \notin passed)
                    THEN "error" ELSE "nil")
    /\ outputFailed' = outputFails
    /\ lock' = "free"
    /\ UNCHANGED <<selection, next, hasErrors, cancelled, waited, toScan,
                   reported, tasks, channel, numCompleted, completers,
                   dispatcher, worker, completed, passed>>

\* The producer has drained the results: an error if any reported check
\* failed, or if writing the output did.
ProduceResults(outputFails) ==
    /\ pc = "scan"
    /\ toScan = {}
    /\ Return(IF outputFails \/ \E j \in reported : j \notin passed
              THEN "error" ELSE "nil")
    /\ outputFailed' = outputFails
    /\ lock' = "free"
    /\ UNCHANGED <<selection, next, hasErrors, cancelled, waited, toScan,
                   reported, tasks, channel, numCompleted,
                   completers, dispatcher, worker, completed, passed>>

\* Run has returned and no goroutine of it can move (no step of the program).
Terminated ==
    /\ pc = "returned"
    /\ UNCHANGED vars

RunStep ==
    \/ CollectError
    \/ SubmitRefused
    \/ SubmitStore
    \/ SubmitSend
    \/ Collected
    \/ WaitComplete
    \/ WaitAgain
    \/ WaitCancelled
    \/ Results
    \/ \E j \in Jobs : ScanJob(j)
    \/ ScanCancelled
    \/ \E fails \in BOOLEAN : ProduceResults(fails)

PoolStep == QueueStep /\ UNCHANGED runVars

Next ==
    \/ RunStep
    \/ Cancel
    \/ PoolStep
    \/ Terminated

Spec == Init /\ [][Next]_vars

(***************************************************************************)
(* The Go scheduler runs every goroutine that can run, a timer that is set *)
(* fires, and every check's Run returns or panics.  Nothing makes the      *)
(* caller cancel, or decides which way a select with two ready cases goes. *)
(***************************************************************************)
Fairness ==
    /\ WF_vars(RunStep)
    /\ WF_vars(UNCHANGED runVars
               /\ (DispatcherStep \/ \E w \in Workers : Dispatch(w)))
    /\ WF_vars(UNCHANGED runVars /\ CountCompleted)
    /\ \A w \in Workers : WF_vars(UNCHANGED runVars /\ WorkerStep(w))

FairSpec == Spec /\ Fairness

-----------------------------------------------------------------------------
(* Properties                                                              *)

InChannel(j) == \E i \in 1..Len(channel) : channel[i] = j

InDispatcher(j) == dispatcher.job = j

InPool(j) == \E w \in Workers : worker[w].job = j

BeingSent(j) == lock = "put" /\ selection[next] = j

Busy == {w \in Workers : worker[w].job # NoJob}

One(condition) == IF condition THEN 1 ELSE 0

\* Jobs the queue has registered and not yet handed to a goroutine of
\* Complete: on their way into the channel, in it, with the dispatcher, or
\* with a worker.
InFlight ==
    Len(channel) + Cardinality(Busy) + One(dispatcher.pc = "send")
        + One(lock = "put")

\* A registered job is somewhere on its way or its check has ended: neither a
\* panic, a cancelled select nor a full channel loses one.
NoJobLost ==
    \A j \in tasks :
        \/ BeingSent(j)
        \/ InChannel(j)
        \/ InDispatcher(j)
        \/ InPool(j)
        \/ j \in completed

\* The counter that ends the wait never runs ahead of the checks: what has
\* been counted, what is about to be and what is in flight never exceed the
\* jobs registered.
NeverOvercounts ==
    numCompleted + completers + InFlight <= Cardinality(tasks)

\* When WaitCtxInterval returns true, every registered job has completed, and
\* no goroutine of the pool holds a job: nothing runs while the results are
\* being collected, cancelled or not.
WaitIsComplete ==
    waited => tasks \subseteq completed /\ InFlight = 0 /\ completers = 0

SelectedJobs == {selection[i] : i \in 1..Len(selection)}

\* Run returns nil, and the caller did not cancel, only when the selection
\* named known tests only, and each of them has run to its end and passed.
NilMeansAllPassed ==
    verdict = "nil" /\ ~cancelled =>
        /\ ~hasErrors
        /\ SelectedJobs = tasks
        /\ tasks \subseteq completed \cap passed

\* Run returns an error only for a reason: a bad selection, a check that
\* failed, or output that could not be written.
ErrorHasReason ==
    verdict = "error" =>
        hasErrors \/ outputFailed \/ \E j \in tasks : j \in completed \ passed

\* At most one goroutine holds a job, and it is not also waiting in the
\* channel: the same check object never runs twice at a time.
OneHolder ==
    \A j \in tasks :
        Cardinality({w \in Workers : worker[w].job = j})
            + One(InDispatcher(j))
            + Cardinality({i \in 1..Len(channel) : channel[i] = j})
            + One(BeingSent(j)) <= 1

\* A worker starts no job whose check has already been marked complete,
\* so no check runs a second time and overwrites its own result.
NeverRerun ==
    [][\A w \in Workers :
        worker[w].pc = "select" /\ worker'[w].pc = "run" =>
            worker'[w].job \notin completed]_vars

\* A result the verdict was computed from does not change afterwards, and a
\* check that is complete keeps its result: no late write of a worker.
ResultsAreFinal ==
    [][\A j \in completed : j \in completed' /\ (j \in passed <=> j \in passed')
      ]_vars

\* Run returns: neither the bounded channel, whose sender holds the lock that
\* completing a job needs, nor a panic in a check can hang it.
RunReturns == <>(pc = "returned")

PoolStopped ==
    /\ dispatcher.pc = "exited"
    /\ \A w \in Workers : worker[w].pc = "exited"

\* After a run that waited for its checks, every goroutine of the pool ends.
PoolStops == waited ~> PoolStopped

\* A cancelled caller is not kept waiting for checks that will never run.
CancelEndsWait == (pc = "wait" /\ cancelled) ~> (pc = "returned")

\* app.go:77 "make sure we clean up after ourselves if we return early": after
\* an early return the pool's goroutines end.
EarlyReturnCleansUp == (pc = "returned") ~> PoolStopped

\* app.go:67-70 "Returns an error if any test failed and/or if there were any
\* problems with test execution", for every context: nil means all passed.
NilMeansAllPassedAlways ==
    verdict = "nil" => tasks \subseteq completed \cap passed

Outcome ==
    [j \in Jobs |-> IF j \notin completed THEN "pending"
                    ELSE IF j \in passed THEN "passed" ELSE "failed"]

Promised == INSTANCE RunPromise WITH outcome <- Outcome

\* An uncancelled run implements what Run promises (module RunPromise).
KeepsPromise == Promised!Promise

=============================================================================
