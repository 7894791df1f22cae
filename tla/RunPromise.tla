----------------------------- MODULE RunPromise -----------------------------
(***************************************************************************)
(* What GreenbayApp.Run promises its caller, with no queue in it: the      *)
(* selected checks run once each, and the verdict is nil exactly when the  *)
(* selection was good and all of them passed.                              *)
(***************************************************************************)
EXTENDS Naturals, Sequences

CONSTANTS
    Jobs,          \* the jobs of the configuration
    Missing,       \* a selected item that names no job
    Selections     \* the selections the caller may ask for

VARIABLES
    selection,     \* what GetAllTests yields for --test and --suite
    outcome,       \* of each job: pending, passed or failed
    outputFailed,  \* the results could not be printed or written
    verdict        \* what Run returned: none (yet), nil or error

promiseVars == <<selection, outcome, outputFailed, verdict>>

Selected == {selection[i] : i \in DOMAIN selection} \ {Missing}

Flawed ==
    \/ \E i \in DOMAIN selection : selection[i] = Missing
    \/ \E i, k \in DOMAIN selection : i < k /\ selection[i] = selection[k]

AllFinished == \A j \in Selected : outcome[j] # "pending"

SomeFailed == \E j \in Selected : outcome[j] = "failed"

PromiseInit ==
    /\ selection \in Selections
    /\ outcome = [j \in Jobs |-> "pending"]
    /\ outputFailed = FALSE
    /\ verdict = "none"

\* A selected check finishes.  After an early error return the pool may still
\* be finishing checks; after any other return there is nothing left to run.
Finish(j) ==
    /\ j \in Selected
    /\ outcome[j] = "pending"
    /\ verdict # "none" => Flawed
    /\ \E o \in {"passed", "failed"} : outcome' = [outcome EXCEPT ![j] = o]
    /\ UNCHANGED <<selection, outputFailed, verdict>>

ReturnNil ==
    /\ verdict = "none"
    /\ ~Flawed
    /\ AllFinished
    /\ ~SomeFailed
    /\ verdict' = "nil"
    /\ UNCHANGED <<selection, outcome, outputFailed>>

ReturnError ==
    /\ verdict = "none"
    /\ outputFailed' \in BOOLEAN
    /\ Flawed \/ (AllFinished /\ (SomeFailed \/ outputFailed'))
    /\ Flawed => ~outputFailed'
    /\ verdict' = "error"
    /\ UNCHANGED <<selection, outcome>>

PromiseNext ==
    \/ \E j \in Jobs : Finish(j)
    \/ ReturnNil
    \/ ReturnError

Promise ==
    /\ PromiseInit
    /\ [][PromiseNext]_promiseVars
    /\ <>(verdict # "none")

=============================================================================
