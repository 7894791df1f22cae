-------------------------------- MODULE Checks --------------------------------
(***************************************************************************)
(* The Run methods of the checks, as the pool's workers call them: a check *)
(* validates its configuration, probes the system (a file, a package, a    *)
(* command, a host, a stage of a compilation), decides, and is marked      *)
(* complete by a deferred call.  Checks share nothing but the system, and  *)
(* that changes under them: each probe may answer either way, whatever the *)
(* probes before it answered.                                              *)
(***************************************************************************)
EXTENDS Naturals, Sequences, FiniteSets

CONSTANTS
    Checks,
    Things,    \* the files, packages, commands and hosts to probe
    Null,      \* a null in the list of a command group: probing it panics
    Versions,  \* of a Python module
    NoVersion, \* no minimum version is configured
    NoRange,   \* no version is
    Configs    \* what the configuration file can make of a check

Single == {"file", "package", "shell"}
Group == {"fileGroup", "packageGroup", "shellGroup"}
Requirements == {"all", "any", "one", "none"}

\* Three compilers can exist, one is defined on other platforms only.
Compilers == {"gcc", "golang", "script", "undefined"}

\* The checks of the remaining types do one thing after the other, and the
\* first that goes wrong ends them.  A stage is named for what must hold.
CompilerValid(k) ==
    CASE k \in {"gcc", "script"} -> "binary named"
      [] k = "golang" -> "binary exists"
      [] k = "undefined" -> "defined on this platform"

writeTestBody == <<"file made", "body written", "file renamed">>

Compile(k) ==
    writeTestBody \o IF k = "gcc" THEN <<"compiled">> ELSE <<"built">>

\* The interpreters, and go, compile and run in one command.
Interpret == writeTestBody \o <<"exited 0">>

CompileAndRun(k) ==
    IF k = "gcc" THEN Compile(k) \o <<"exited 0">> ELSE Interpret

\* A command for further flags is optional, running the code goes by the type.
CompileStages(k, flagsCommand, shouldRunCode) ==
    <<CompilerValid(k)>>
    \o (IF flagsCommand THEN <<"flags found">> ELSE <<>>)
    \o (IF shouldRunCode THEN CompileAndRun(k) ELSE Compile(k))

ProgramStages(k) ==
    <<CompilerValid(k), "output specified">> \o CompileAndRun(k)
    \o <<"output as expected">>

ReturnStages == <<CompilerValid("script")>> \o CompileAndRun("script")

LimitStages == <<"limit known", "limit high enough">>
undefinedLimitCheck == <<"defined on this platform">>

PythonStages(hasMin) ==
    <<"version valid">> \o (IF hasMin THEN <<"minimum valid">> ELSE <<>>)
    \o <<"module imported", "its version valid">>

Python == {PythonStages(hasMin) : hasMin \in BOOLEAN}
Stages ==
    {CompileStages(k, flags, run) :
        k \in Compilers \ {"script"}, flags \in BOOLEAN, run \in BOOLEAN}
    \cup {ProgramStages(k) : k \in Compilers}
    \cup {ReturnStages, LimitStages, undefinedLimitCheck}
    \cup Python

\* A stage that cannot fail, or cannot hold, whatever the system is like.
Answers(stage) ==
    CASE stage = "binary named" -> {TRUE}
      [] stage = "defined on this platform" -> {FALSE}
      [] OTHER -> BOOLEAN

\* What a Python check demands of the version that is installed.  NoRange is
\* that of a check of another type.
Relationships == {"gte", "lte", "lt", "gt", "eq"}
VersionRange ==
    [rel : Relationships \cup {"", "invalid"}, version : Versions,
     minRel : Relationships \cup {"", "invalid"},
     min : Versions \cup {NoVersion}, installed : Versions]

\* A check's family, the requirements set in a group and whether they kept the
\* name that the group's factory gave them, what it probes in order, for a single
\* check what should be (exist, be installed, fail), and the versions of a Python
\* check.
Config ==
    [family : Single \cup Group \cup {"container", "stages"},
     flags : SUBSET Requirements,
     named : BOOLEAN,
     members : Seq(Things \cup {Null}) \cup Stages,
     should : BOOLEAN,
     range : VersionRange \cup {NoRange}]

ASSUME ChecksAssumption ==
    /\ Null \notin Things
    /\ Versions \subseteq Nat /\ NoVersion \notin Versions
    /\ NoRange \notin VersionRange
    /\ Configs \subseteq Config
    /\ \A k \in Configs :
         /\ k.family \in Single => Len(k.members) = 1
         /\ k.family = "stages" <=> k.members \in Stages
         /\ k.range = NoRange <=> k.members \notin Python
         /\ k.range # NoRange =>
              k.members = PythonStages(k.range.min # NoVersion)
         /\ (\E i \in DOMAIN k.members : k.members[i] = Null)
              => k.family = "shellGroup"

VARIABLES
    config,     \* the configuration of each check
    pc,         \* where its Run is
    at,         \* the member it probes next
    seen,       \* the answers so far
    flagged,    \* the container check's local "failed"
    passed,     \* Base.WasSuccessful
    errors,     \* how many errors Base holds
    completed   \* the checks that are marked complete

vars == <<config, pc, at, seen, flagged, passed, errors, completed>>

Family(c) == config[c].family
Flags(c) == config[c].flags
Named(c) == config[c].named
Members(c) == config[c].members
Should(c) == config[c].should
Demand(c) == config[c].range

TypeOK ==
    /\ config \in [Checks -> Configs]
    /\ pc \in [Checks -> {"ready", "running", "panicked", "done"}]
    /\ flagged \in [Checks -> BOOLEAN]
    /\ passed \in [Checks -> BOOLEAN]
    /\ completed \subseteq Checks
    /\ \A c \in Checks :
         /\ at[c] \in 1..(Len(Members(c)) + 1)
         /\ seen[c] \in Seq(BOOLEAN) /\ Len(seen[c]) < at[c]
         /\ errors[c] \in 0..(Len(Members(c)) + 1)

-----------------------------------------------------------------------------

\* A group's requirements have a name, of them exactly one is set, and there is
\* something to require it of; a container check has hosts.  Other checks validate
\* in their first stage.
Validate(c) ==
    /\ Family(c) \in Group =>
         Named(c) /\ Cardinality(Flags(c)) = 1 /\ Members(c) # <<>>
    /\ Family(c) = "container" => Members(c) # <<>>

\* Mutant: a group that needs one member is content with more.
GetResults_AtLeastOne(flags, passes, failures) ==
    IF "all" \in flags THEN failures = 0
    ELSE IF "one" \in flags THEN passes >= 1
    ELSE IF "any" \in flags THEN passes # 0
    ELSE "none" \in flags /\ passes = 0

\* The requirements are looked at in this order.
GetResults(flags, passes, failures) ==
    IF "all" \in flags THEN failures = 0
    ELSE IF "one" \in flags THEN passes = 1
    ELSE IF "any" \in flags THEN passes # 0
    ELSE "none" \in flags /\ passes = 0

FilePasses(exists, shouldExist) == exists = shouldExist

PackagePasses(exists, installed) == IF installed THEN exists ELSE ~exists

ShellPasses(succeeds, shouldFail) == succeeds # shouldFail

\* A check without a relationship wants at least its version, unless a minimum
\* makes that version the upper end.
Relationship(r) ==
    IF r.rel # "" THEN r.rel ELSE IF r.min = NoVersion THEN "gte" ELSE "lte"

MinRelationship(r) == IF r.minRel = "" THEN "gte" ELSE r.minRel

\* An invalid relationship is an error, which ends the check as FALSE does.
compareVersions(rel, actual, expected) ==
    CASE rel \in {"gte", ""} -> actual >= expected
      [] rel = "lte" -> actual <= expected
      [] rel = "lt" -> actual < expected
      [] rel = "gt" -> actual > expected
      [] rel = "eq" -> actual = expected
      [] OTHER -> FALSE

VersionPasses(r) ==
    /\ compareVersions(Relationship(r), r.installed, r.version)
    /\ r.min # NoVersion =>
         compareVersions(MinRelationship(r), r.installed, r.min)

Count(c, answer) == Cardinality({i \in DOMAIN seen[c] : seen[c][i] = answer})

\* What a Run that got through its probes decides: the stages all succeeded
\* and a Python check still compares, a container check goes by its flag.
Decision(c) ==
    CASE Family(c) = "file" -> FilePasses(seen[c][1], Should(c))
      [] Family(c) = "package" -> PackagePasses(seen[c][1], Should(c))
      [] Family(c) = "shell" -> ShellPasses(seen[c][1], Should(c))
      [] Family(c) \in Group ->
           GetResults(Flags(c), Count(c, TRUE), Count(c, FALSE))
      [] Family(c) = "container" -> ~flagged[c]
      [] Family(c) = "stages" ->
           Demand(c) # NoRange => VersionPasses(Demand(c))

-----------------------------------------------------------------------------

\* NewBase: WasSuccessful is false until a Run says otherwise.
Init ==
    /\ config \in [Checks -> Configs]
    /\ pc = [c \in Checks |-> "ready"]
    /\ at = [c \in Checks |-> 1]
    /\ seen = [c \in Checks |-> <<>>]
    /\ flagged = [c \in Checks |-> FALSE]
    /\ passed = [c \in Checks |-> FALSE]
    /\ errors = [c \in Checks |-> 0]
    /\ completed = {}

\* setState and AddError, then the deferred MarkComplete.
Ends(c, verdict, newErrors) ==
    /\ passed' = [passed EXCEPT ![c] = verdict]
    /\ errors' = [errors EXCEPT ![c] = @ + newErrors]
    /\ completed' = completed \cup {c}
    /\ pc' = [pc EXCEPT ![c] = "done"]

\* Mutant: MarkComplete is called where it should be deferred.
startTask_Completes(c) ==
    /\ pc[c] = "ready"
    /\ pc' = [pc EXCEPT ![c] = "running"]
    /\ completed' = completed \cup {c}
    /\ UNCHANGED <<config, at, seen, flagged, passed, errors>>

startTask(c) ==
    /\ pc[c] = "ready"
    /\ pc' = [pc EXCEPT ![c] = "running"]
    /\ UNCHANGED <<config, at, seen, flagged, passed, errors, completed>>

\* The configuration is rejected before anything is probed.
Rejected(c) ==
    /\ pc[c] = "running"
    /\ ~Validate(c)
    /\ Ends(c, FALSE, 1)
    /\ UNCHANGED <<config, at, seen, flagged>>

Probing(c) == pc[c] = "running" /\ Validate(c) /\ at[c] <= Len(Members(c))

\* A single check or a group probes a member and goes on whatever it answers.
\* A command group runs each command as a check of its own.
Observe(c) ==
    /\ Probing(c)
    /\ Family(c) \in Single \cup Group
    /\ Members(c)[at[c]] # Null
    /\ \E good \in BOOLEAN : seen' = [seen EXCEPT ![c] = Append(@, good)]
    /\ at' = [at EXCEPT ![c] = @ + 1]
    /\ UNCHANGED <<config, pc, flagged, passed, errors, completed>>

\* A host is good when it is running, answers one of twenty attempts to connect,
\* and has every program.  Any of that may be missing.
HostAnswers == BOOLEAN

\* Mutant: a host that fails is tried again.
ProbeHost_Retries(c) ==
    /\ Probing(c)
    /\ Family(c) = "container"
    /\ \E good \in HostAnswers :
         /\ seen' = [seen EXCEPT ![c] = Append(@, good)]
         /\ flagged' = [flagged EXCEPT ![c] = @ \/ ~good]
         /\ passed' = [passed EXCEPT ![c] = @ /\ good]
         /\ errors' = [errors EXCEPT ![c] = IF good THEN @ ELSE @ + 1]
         /\ at' = [at EXCEPT ![c] = IF good THEN @ + 1 ELSE @]
    /\ UNCHANGED <<config, pc, completed>>

\* A host that cannot be reached or lacks a program is an error of its own;
\* the other hosts are probed all the same.
ProbeHost(c) ==
    /\ Probing(c)
    /\ Family(c) = "container"
    /\ \E good \in HostAnswers :
         /\ seen' = [seen EXCEPT ![c] = Append(@, good)]
         /\ flagged' = [flagged EXCEPT ![c] = @ \/ ~good]
         /\ passed' = [passed EXCEPT ![c] = @ /\ good]
         /\ errors' = [errors EXCEPT ![c] = IF good THEN @ ELSE @ + 1]
    /\ at' = [at EXCEPT ![c] = @ + 1]
    /\ UNCHANGED <<config, pc, completed>>

\* A stage succeeds and the next one runs, or its error ends the check.
RunStage(c) ==
    /\ Probing(c)
    /\ Family(c) = "stages"
    /\ \E good \in Answers(Members(c)[at[c]]) :
         /\ seen' = [seen EXCEPT ![c] = Append(@, good)]
         /\ IF good THEN UNCHANGED <<pc, passed, errors, completed>>
                    ELSE Ends(c, FALSE, 1)
    /\ at' = [at EXCEPT ![c] = @ + 1]
    /\ UNCHANGED <<config, flagged>>

\* Mutant: the call of MarkComplete is not deferred.
RunPanics_NotDeferred(c) ==
    /\ Probing(c)
    /\ Members(c)[at[c]] = Null
    /\ pc' = [pc EXCEPT ![c] = "panicked"]
    /\ UNCHANGED <<config, at, seen, flagged, passed, errors, completed>>

\* Run panics on a null command: the deferred MarkComplete runs, no setState
\* does.
RunPanics(c) ==
    /\ Probing(c)
    /\ Members(c)[at[c]] = Null
    /\ completed' = completed \cup {c}
    /\ pc' = [pc EXCEPT ![c] = "panicked"]
    /\ UNCHANGED <<config, at, seen, flagged, passed, errors>>

\* The pool's worker recovers and adds the error, to a check that is complete.
Recovered(c) ==
    /\ pc[c] = "panicked"
    /\ errors' = [errors EXCEPT ![c] = @ + 1]
    /\ pc' = [pc EXCEPT ![c] = "done"]
    /\ UNCHANGED <<config, at, seen, flagged, passed, completed>>

\* Mutant: a group that fails does not say so.
Decides_GroupSilent(c) ==
    /\ pc[c] = "running"
    /\ Validate(c)
    /\ at[c] > Len(Members(c))
    /\ LET wrong == ~Decision(c) /\ Family(c) \in Single
       IN  Ends(c, Decision(c), IF wrong THEN 1 ELSE 0)
    /\ UNCHANGED <<config, at, seen, flagged>>

\* Everything was probed.  A container check added its errors on the way.
Decides(c) ==
    /\ pc[c] = "running"
    /\ Validate(c)
    /\ at[c] > Len(Members(c))
    /\ LET wrong == ~Decision(c) /\ Family(c) # "container"
       IN  Ends(c, Decision(c), IF wrong THEN 1 ELSE 0)
    /\ UNCHANGED <<config, at, seen, flagged>>

\* What the report is told of a check.
Output(c) ==
    [Completed |-> c \in completed, Passed |-> passed[c], Error |-> errors[c] > 0]

Run(c) ==
    \/ startTask(c) \/ Rejected(c)
    \/ Observe(c) \/ ProbeHost(c) \/ RunStage(c)
    \/ RunPanics(c) \/ Recovered(c) \/ Decides(c)

Next == \E c \in Checks : Run(c)

\* A worker runs its check to the end.
Spec == Init /\ [][Next]_vars /\ \A c \in Checks : WF_vars(Run(c))

-----------------------------------------------------------------------------
(* Properties                                                              *)

Holding(c) == {i \in DOMAIN seen[c] : seen[c][i]}
AllHold(c) == Len(seen[c]) = Len(Members(c)) /\ Holding(c) = DOMAIN Members(c)

\* What the name of a group promises: exactly one requirement is set, there is
\* something to require it of, and the answers of all members satisfy it.
GroupMet(c) ==
    /\ \E r \in Requirements : Flags(c) = {r}
    /\ Members(c) # <<>> /\ Len(seen[c]) = Len(Members(c))
    /\ "all" \in Flags(c) => AllHold(c)
    /\ "any" \in Flags(c) => Holding(c) # {}
    /\ "one" \in Flags(c) => \E i \in Holding(c) : Holding(c) = {i}
    /\ "none" \in Flags(c) => Holding(c) = {}

\* The versions a relationship to v describes.
Described(rel, v) ==
    {w \in Versions : \/ w = v /\ rel \in {"gte", "lte", "eq"}
                      \/ w < v /\ rel \in {"lt", "lte"}
                      \/ w > v /\ rel \in {"gt", "gte"}}

\* The installed version stands in every relationship that is spelled out;
\* where none is, a version without a minimum is a minimum itself, and with one
\* the two are the ends of an interval.
RangeMet(r) ==
    /\ r.rel # "" => r.installed \in Described(r.rel, r.version)
    /\ r.rel = "" /\ r.min = NoVersion => r.installed >= r.version
    /\ r.rel = "" /\ r.min # NoVersion => r.installed <= r.version
    /\ r.min # NoVersion =>
         r.installed \in
            Described(IF r.minRel = "" THEN "gte" ELSE r.minRel, r.min)

Met(c) ==
    /\ Family(c) \in Group => GroupMet(c)
    /\ Family(c) \in {"file", "package"} => seen[c] = <<Should(c)>>
    /\ Family(c) = "shell" => seen[c] = <<~Should(c)>>
    /\ Family(c) \in {"container", "stages"} => AllHold(c) /\ seen[c] # <<>>
    /\ Demand(c) # NoRange => RangeMet(Demand(c))

\* A completed check passed if and only if the answers it got, each at its own
\* moment of a changing system, satisfy what its type promises; one that was
\* misconfigured, panicked or ended early did not pass.
PassedIffMet == \A c \in completed : passed[c] <=> Met(c)

\* The report shows an error for every check that failed and for no check that
\* passed, however many places of Run set the state and add errors.
FailureHasItsError ==
    \A c \in Checks :
        pc[c] = "done" =>
            Output(c).Completed /\ (Output(c).Passed <=> ~Output(c).Error)

\* A job that is marked complete may be reported by the queue: from then on its
\* verdict does not change, and its errors only by the recovery from a panic.
CompletedIsFinal ==
    [][\A c \in completed :
        /\ c \in completed'
        /\ passed'[c] = passed[c]
        /\ pc[c] # "panicked" => errors'[c] = errors[c]]_vars

\* Every check that is started completes, be it misconfigured or panicking.
StartedCompletes == \A c \in Checks : pc[c] = "running" ~> c \in completed

=============================================================================
