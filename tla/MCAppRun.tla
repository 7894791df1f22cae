------------------------------ MODULE MCAppRun ------------------------------
(* Instances of AppRun for TLC.                                            *)
EXTENDS AppRun

CONSTANTS a, b, c, d, e

\* Clean selections, one that repeats a test, one that names a missing test.
MixedSelections ==
    {<<>>, <<a, b, c, d, e>>, <<a, b, a>>, <<a, Missing, b>>}

\* Selections that include the job an earlier run completed.
CancelSelections == {<<a, b>>, <<c, a, b>>, <<a, Missing>>}

ShortSelections == {<<a, b>>, <<a, Missing>>}

=============================================================================
