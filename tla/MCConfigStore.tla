---------------------------- MODULE MCConfigStore ----------------------------
(* Instances of ConfigStore for TLC.                                       *)
EXTENDS ConfigStore

CONSTANTS a, b, c, s, t, u, d1, d2, r1, r2

raw(n, ss, def) == [name |-> n, suites |-> ss, def |-> def]

\* A first file; one that redefines a and adds c; one whose c does not
\* resolve but brings suite u into being; one that names a twice.
SomeDocuments ==
    {<<raw(a, {s, t}, d1), raw(b, {s}, d1)>>,
     <<raw(a, {s}, d2), raw(c, {s, t}, d1)>>,
     <<raw(c, {t, u}, Broken)>>,
     <<raw(a, {s}, d1), raw(a, {t}, d2)>>}

asks(kind, ns, ss) == [kind |-> kind, names |-> ns, suites |-> ss]

\* A run of names and suites, the first of which does not exist before a
\* reload, next to an adhoc request for a suite; and a run that is given
\* nothing next to an adhoc request for a test.
SomeRequests ==
    {[x \in {r1, r2} |-> IF x = r1 THEN asks("run", <<a, c>>, <<u, s, t>>)
                                   ELSE asks("suite", <<>>, <<t>>)],
     [x \in {r1, r2} |-> IF x = r1 THEN asks("run", <<>>, <<>>)
                                   ELSE asks("test", <<c>>, <<>>)]}

=============================================================================
