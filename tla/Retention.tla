----------------------------- MODULE Retention ------------------------------
(***************************************************************************)
(* What a queue of limited size promises about the jobs it accepts, with   *)
(* no map, channel, lock or worker in it: each job it has taken finishes,  *)
(* once, and the last capacity - 1 jobs to finish are remembered, in the   *)
(* order they finished; the oldest is forgotten first.                     *)
(***************************************************************************)
EXTENDS Naturals, Sequences

CONSTANTS
    Jobs,        \* the jobs that may be submitted
    Capacities   \* the capacities a queue may have

VARIABLES
    capacity,    \* the capacity of this one
    pending,     \* accepted jobs that have not finished
    finished,    \* jobs that have finished
    kept         \* the finished jobs that are remembered, oldest first

retentionVars == <<capacity, pending, finished, kept>>

RetentionInit ==
    /\ capacity \in Capacities
    /\ pending = {}
    /\ finished = {}
    /\ kept = <<>>

Accept(j) ==
    /\ j \notin pending \cup finished
    /\ pending' = pending \cup {j}
    /\ UNCHANGED <<capacity, finished, kept>>

\* The last n elements of a sequence.
LastOf(s, n) == IF Len(s) <= n THEN s ELSE SubSeq(s, Len(s) - n + 1, Len(s))

\* A queue of capacity one remembers nothing, and no job of it ever finishes.
Finish(j) ==
    /\ capacity > 1
    /\ j \in pending
    /\ pending' = pending \ {j}
    /\ finished' = finished \cup {j}
    /\ kept' = LastOf(Append(kept, j), capacity - 1)
    /\ UNCHANGED capacity

RetentionNext == \E j \in Jobs : Accept(j) \/ Finish(j)

EveryJobFinishes ==
    \A j \in Jobs : (capacity > 1 /\ j \in pending) ~> (j \in finished)

Promise ==
    /\ RetentionInit
    /\ [][RetentionNext]_retentionVars
    /\ EveryJobFinishes

=============================================================================
