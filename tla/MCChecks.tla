------------------------------- MODULE MCChecks -------------------------------
(* Instances of Checks for TLC.                                            *)
EXTENDS Checks

CONSTANTS x, y

SeqsUpTo(n, S) == UNION {[1..k -> S] : k \in 0..n}

Made(families, flags, lists, should) ==
    [family : families, flags : flags, named : {TRUE}, members : lists,
     should : should, range : {NoRange}]

\* A configuration file may blank the name of a group's requirements.
Unnamed ==
    [family : Group, flags : SUBSET Requirements, named : {FALSE},
     members : {<<>>, <<x>>}, should : {TRUE}, range : {NoRange}]

PythonConfigs ==
    {[family |-> "stages", flags |-> {}, named |-> TRUE, should |-> TRUE,
      range |-> r, members |-> PythonStages(r.min # NoVersion)] : r \in VersionRange}

\* Every set of requirements, every list of up to three members, and every
\* range over three versions.
AllConfigs ==
    Made(Single, {{}}, {<<x>>}, BOOLEAN)
    \cup Made(Group, SUBSET Requirements, SeqsUpTo(3, {x, y}), {TRUE})
    \cup Made({"shellGroup"}, SUBSET Requirements, SeqsUpTo(3, {x, Null}), {TRUE})
    \cup Unnamed
    \cup Made({"container"}, {{}}, SeqsUpTo(3, {x, y}), {TRUE})
    \cup Made({"stages"}, {{}}, Stages \ Python, {TRUE})
    \cup PythonConfigs

=============================================================================
