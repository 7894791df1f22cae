----------------------------- MODULE MCProducers -----------------------------
(* Instances of Producers for TLC.                                         *)
EXTENDS Producers

CONSTANTS a, b, c

pass(n) == [name |-> n, passed |-> TRUE]
fail(n) == [name |-> n, passed |-> FALSE]

\* A queue holds one job of each name; a failure or an alien job may come
\* first, last or in between.
SomeBatches ==
    {<<>>, <<pass(a), pass(b)>>, <<fail(a), pass(b)>>, <<pass(a), fail(b)>>,
     <<fail(a), fail(b), pass(c)>>, <<pass(a), NotChecker, fail(c)>>,
     <<NotChecker, pass(b)>>}

=============================================================================
