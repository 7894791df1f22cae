----------------------------- MODULE ConfigStore -----------------------------
(***************************************************************************)
(* GreenbayTestConfig: the tests and suites parsed from the configuration  *)
(* file, Reload, which parses it again while the service runs, and the     *)
(* generator goroutines through which TestsByName, TestsForSuites and      *)
(* GetAllTests stream jobs to a run, or to a request for an adhoc run of   *)
(* one test or one suite.                                                  *)
(*                                                                         *)
(* A generator holds the read lock from before its first item until after  *)
(* it closed its channel, and sends over unbuffered channels: it keeps the *)
(* lock for as long as its consumer takes.  A Go RWMutex admits no new     *)
(* reader once a writer waits.                                             *)
(***************************************************************************)
EXTENDS Naturals, SequencesExt, FiniteSetsExt

CONSTANTS
    Names,       \* test names
    Suites,      \* suite names
    Defs,        \* the definitions a test may have (its type and arguments)
    Broken,      \* a definition that resolveCheck rejects
    NoDef,       \* no test of that name
    Documents,   \* what the file may hold: sequences of raw tests
    Unreadable,  \* the file is missing, of no known format, or not parseable
    AllSuite,    \* the suite that a run selects when it is given nothing
    Streams,     \* the concurrent runs and adhoc requests
    Requests,    \* what they may ask for: functions to [kind, names, suites]
    MaxReloads   \* bound: calls of Reload
ASSUME ConfigAssumption ==
    /\ Broken \notin Defs /\ NoDef \notin Defs \cup Names \cup {Broken}
    /\ Documents \subseteq
         Seq([name : Names, suites : SUBSET Suites, def : Defs \cup {Broken}])
    /\ Unreadable \notin Documents
    /\ AllSuite \in Suites
    /\ Requests \subseteq [Streams -> [kind : {"run", "test", "suite"},
                                     names : Seq(Names), suites : Seq(Suites)]]
    \* the path of an adhoc request names one test or one suite
    /\ \A r \in Requests, s \in Streams :
         /\ r[s].kind = "test" => Len(r[s].names) = 1
         /\ r[s].kind = "suite" => Len(r[s].suites) = 1
    /\ MaxReloads \in Nat

VARIABLES
    file,           \* what is on disk
    tests,          \* the job of each name
    suites,         \* the test names of each suite; no suite is an empty one
    writerPending,  \* Reload has called Lock and not got it yet
    reloads,        \* calls of Reload so far
    lastReload,     \* what the last Reload returned
    parsed,         \* the document that was parsed last
    request,        \* what each stream was asked for
    holders,        \* generators that hold the read lock: <<stream, phase>>
    phase,          \* of each stream: which generator is being drained
    generator,      \* that generator: waiting for the lock, or sending
    pending,        \* the items it has yet to send
    got             \* what the consumer of each stream received, by phase

conf == <<tests, suites>>
streams == <<request, holders, phase, generator, pending, got>>
vars == <<file, conf, writerPending, reloads, lastReload, parsed, streams>>

Phases == {"byName", "forSuites"}

TypeOK ==
    /\ file \in Documents \cup {Unreadable}
    /\ tests \in [Names -> Defs \cup {NoDef}]
    /\ suites \in [Suites -> Seq(Names)]
    /\ writerPending \in BOOLEAN
    /\ reloads \in 0..MaxReloads
    /\ lastReload \in {"none", "ok", "error"}
    /\ parsed \in Documents
    /\ request \in Requests
    /\ holders \subseteq Streams \X Phases
    /\ phase \in [Streams -> Phases \cup {"closed"}]
    /\ generator \in [Streams -> {"lock", "send", "none"}]
    /\ \A s \in Streams, p \in Phases : got[s][p] \in Seq(Names \cup {NoDef})

-----------------------------------------------------------------------------
(* Parsing a document into maps that may already hold something.           *)

\* Mutant: a test whose check does not resolve is added all the same.
resolveCheck_Ignored(doc, n) == {i \in DOMAIN doc : doc[i].name = n}

\* The entries of the document that resolve to a check of this name.
resolveCheck(doc, n) ==
    {i \in DOMAIN doc : doc[i].name = n /\ doc[i].def # Broken}

\* Every suite gets the names of the tests that list it, resolved or not.
addSuites(ss, doc, s) ==
    ss[s] \o FlattenSeq([i \in DOMAIN doc |->
                            IF s \in doc[i].suites THEN <<doc[i].name>> ELSE <<>>])

\* Mutant: a second test of a name replaces the first.
addTest_Replaces(ts, doc, n) ==
    IF resolveCheck(doc, n) = {}
    THEN ts[n]
    ELSE doc[Max(resolveCheck(doc, n))].def

\* The first test of a name stays, the one in the map before any.
addTest(ts, doc, n) ==
    IF ts[n] # NoDef \/ resolveCheck(doc, n) = {}
    THEN ts[n]
    ELSE doc[Min(resolveCheck(doc, n))].def

\* Errors do not stop the loop; any of them is reported at its end.
parseFails(ts, doc) ==
    \E i \in DOMAIN doc :
        \/ doc[i].def = Broken
        \/ ts[doc[i].name] # NoDef
        \/ \E k \in resolveCheck(doc, doc[i].name) : k < i

parseTests(ts, ss, doc) ==
    [tests |-> [n \in Names |-> addTest(ts, doc, n)],
     suites |-> [s \in Suites |-> addSuites(ss, doc, s)],
     failed |-> parseFails(ts, doc)]

reset == [tests |-> [n \in Names |-> NoDef], suites |-> [s \in Suites |-> <<>>]]

newTestConfig(doc) == parseTests(reset.tests, reset.suites, doc)

-----------------------------------------------------------------------------
(* What the generators send: a job by its name, an error as NoDef.         *)

Item(n) == IF n # NoDef /\ tests[n] # NoDef THEN n ELSE NoDef

TestsByName(names) == [i \in DOMAIN names |-> Item(names[i])]

\* What TestsForSuites walks over: the members of each suite, or NoDef for a
\* suite that does not exist.
Entries(ss) ==
    FlattenSeq([i \in DOMAIN ss |->
        IF suites[ss[i]] = <<>> THEN <<NoDef>> ELSE suites[ss[i]]])

\* Mutant: the map of tests already sent is made anew for each suite.
Unseen_NoMemory(entries) == DOMAIN entries

\* Mutant: the first missing suite ends the walk.
Unseen_UntilMissing(entries) ==
    {i \in DOMAIN entries : \A k \in 1..(i - 1) : entries[k] # NoDef}

\* The positions that are sent: a test the first time it comes up, a missing
\* suite each time.
Unseen(entries) ==
    {i \in DOMAIN entries :
        entries[i] = NoDef \/ \A k \in 1..(i - 1) : entries[k] # entries[i]}

\* What is sent of a walk (a function of the walk, which TLC then computes once).
TestsForSuites(ss) ==
    LET sent[entries \in Seq(Names \cup {NoDef})] ==
          FlattenSeq([i \in DOMAIN entries |->
              IF i \in Unseen(entries) THEN <<Item(entries[i])>> ELSE <<>>])
    IN  sent[Entries(ss)]

-----------------------------------------------------------------------------
(* What a stream is asked for.                                             *)

\* Mutant: a run that is given neither a test nor a suite selects nothing.
Asked_NoDefault(s) == request[s]

\* The command line adds the suite "all" to a run that is given nothing.
Asked(s) ==
    LET r == request[s]
    IN  IF r.kind = "run" /\ r.names = <<>> /\ r.suites = <<>>
        THEN [r EXCEPT !.suites = <<AllSuite>>]
        ELSE r

\* A handler of adhoc requests drains one generator, GetAllTests both.
FirstPhase(kind) == IF kind = "suite" THEN "forSuites" ELSE "byName"

Received(s) == got[s].byName \o got[s].forSuites

\* runAdhocTests puts every job it receives into a queue that it never
\* starts, and returns an error if any item was one or any Put failed; if it
\* received nothing it reports the results of a queue with nothing in it.
runAdhocTests(s) == IF Received(s) = <<>> THEN "report" ELSE "error"

-----------------------------------------------------------------------------

\* ReadConfig parsed the file without an error.
Init ==
    /\ file \in {d \in Documents : ~newTestConfig(d).failed}
    /\ parsed = file
    /\ tests = newTestConfig(file).tests
    /\ suites = newTestConfig(file).suites
    /\ writerPending = FALSE
    /\ reloads = 0
    /\ lastReload = "none"
    /\ request \in Requests
    /\ holders = {}
    /\ phase = [s \in Streams |-> FirstPhase(request[s].kind)]
    /\ generator = [s \in Streams |-> "lock"]
    /\ pending = [s \in Streams |-> <<>>]
    /\ got = [s \in Streams |-> [p \in Phases |-> <<>>]]

\* Somebody edits the file between two reloads.
EditFile ==
    /\ ~writerPending
    /\ reloads < MaxReloads
    /\ file' \in Documents \cup {Unreadable}
    /\ UNCHANGED <<conf, writerPending, reloads, lastReload, parsed, streams>>

\* A request to reload arrives and calls Lock: no new reader gets in.
ReloadLock ==
    /\ ~writerPending
    /\ reloads < MaxReloads
    /\ writerPending' = TRUE
    /\ reloads' = reloads + 1
    /\ UNCHANGED <<file, conf, lastReload, parsed, streams>>

\* Mutant: Reload reads and parses the file before it takes the lock.
ReloadParse_Unlocked ==
    /\ writerPending
    /\ file # Unreadable
    /\ LET new == parseTests(tests, suites, file)
       IN  /\ tests' = new.tests
           /\ suites' = new.suites
           /\ lastReload' = IF new.failed THEN "error" ELSE "ok"
    /\ parsed' = file
    /\ writerPending' = FALSE
    /\ UNCHANGED <<file, reloads, streams>>

\* The readers are gone: parse the file into the maps as they are, and unlock.
ReloadParse ==
    /\ writerPending
    /\ holders = {}
    /\ file # Unreadable
    /\ LET new == parseTests(tests, suites, file)
       IN  /\ tests' = new.tests
           /\ suites' = new.suites
           /\ lastReload' = IF new.failed THEN "error" ELSE "ok"
    /\ parsed' = file
    /\ writerPending' = FALSE
    /\ UNCHANGED <<file, reloads, streams>>

\* The file cannot be read: unlock and report it.
ReloadFails ==
    /\ writerPending
    /\ holders = {}
    /\ file = Unreadable
    /\ lastReload' = "error"
    /\ writerPending' = FALSE
    /\ UNCHANGED <<file, conf, reloads, parsed, streams>>

config == <<file, conf, writerPending, reloads, lastReload, parsed>>

\* A generator gets the read lock and, for as long as it holds it, sees one
\* configuration.
GeneratorRLock(s) ==
    /\ generator[s] = "lock"
    /\ ~writerPending
    /\ holders' = holders \cup {<<s, phase[s]>>}
    /\ generator' = [generator EXCEPT ![s] = "send"]
    /\ pending' = [pending EXCEPT ![s] =
         IF phase[s] = "byName" THEN TestsByName(Asked(s).names)
                                ELSE TestsForSuites(Asked(s).suites)]
    /\ UNCHANGED <<config, request, phase, got>>

\* One item goes to the consumer, through GetAllTests or directly.
Receive(s) ==
    /\ generator[s] = "send"
    /\ pending[s] # <<>>
    /\ got' = [got EXCEPT ![s][phase[s]] = Append(@, Head(pending[s]))]
    /\ pending' = [pending EXCEPT ![s] = Tail(@)]
    /\ UNCHANGED <<config, request, holders, phase, generator>>

\* The generator closes its channel; GetAllTests goes on to the next one, or
\* closes its own, and a handler answers its request.
Close(s) ==
    /\ generator[s] = "send"
    /\ pending[s] = <<>>
    /\ \/ /\ phase[s] = "byName" /\ request[s].kind = "run"
          /\ phase' = [phase EXCEPT ![s] = "forSuites"]
          /\ generator' = [generator EXCEPT ![s] = "lock"]
       \/ /\ phase[s] = "forSuites" \/ request[s].kind = "test"
          /\ phase' = [phase EXCEPT ![s] = "closed"]
          /\ generator' = [generator EXCEPT ![s] = "none"]
    /\ UNCHANGED <<config, request, holders, pending, got>>

\* Mutant: GetAllTests holds the read lock over both generators.
GeneratorRUnlock_AtTheEnd(s, p) ==
    /\ <<s, p>> \in holders
    /\ phase[s] = "closed"
    /\ holders' = holders \ {<<s, p>>}
    /\ UNCHANGED <<config, request, phase, generator, pending, got>>

\* Mutant: the generator of the suites returns without unlocking.
GeneratorRUnlock_NotForSuites(s, p) ==
    /\ <<s, p>> \in holders
    /\ p = "byName"
    /\ phase[s] # p
    /\ holders' = holders \ {<<s, p>>}
    /\ UNCHANGED <<config, request, phase, generator, pending, got>>

\* The deferred RUnlock runs after the channel was closed.
GeneratorRUnlock(s, p) ==
    /\ <<s, p>> \in holders
    /\ phase[s] # p
    /\ holders' = holders \ {<<s, p>>}
    /\ UNCHANGED <<config, request, phase, generator, pending, got>>

\* Every stream was consumed and no more reloads come (no step of the code).
Finished ==
    /\ \A s \in Streams : phase[s] = "closed"
    /\ ~writerPending
    /\ UNCHANGED vars

StreamStep(s) ==
    \/ GeneratorRLock(s)
    \/ Receive(s)
    \/ Close(s)
    \/ \E p \in Phases : GeneratorRUnlock(s, p)

Next ==
    \/ EditFile
    \/ ReloadLock
    \/ ReloadParse
    \/ ReloadFails
    \/ \E s \in Streams : StreamStep(s)
    \/ Finished

\* Goroutines that can run do run, and consumers drain what they asked for;
\* nobody has to edit the file or ask for a reload.
Fairness ==
    /\ WF_vars(ReloadParse \/ ReloadFails)
    /\ \A s \in Streams :
         /\ WF_vars(GeneratorRLock(s) \/ Receive(s) \/ Close(s))
         /\ \A p \in Phases : WF_vars(GeneratorRUnlock(s, p))

Spec == Init /\ [][Next]_vars /\ Fairness

-----------------------------------------------------------------------------
(* Properties                                                              *)

\* config.go:134-135: a test that several of the requested suites list is
\* dispatched once, however reloads and the two phases interleave.
OncePerStream ==
    \A s \in Streams :
        LET sent == got[s].forSuites
        IN  \A i, k \in 1..Len(sent) : i < k /\ sent[i] = sent[k]
                                         => sent[i] = NoDef

\* For any configuration a reload can lead to, a stream of suites sends
\* exactly the resolvable members of those suites, and errors if and only if
\* some suite or some member does not exist.
SuiteIsItsMembers ==
    \A s \in Streams :
        LET asked == ToSet(Asked(s).suites)
            members == UNION {ToSet(suites[x]) : x \in asked}
            sent == ToSet(TestsForSuites(Asked(s).suites))
        IN  /\ sent \ {NoDef} = {n \in members : tests[n] # NoDef}
            /\ NoDef \in sent <=> \/ \E x \in asked : suites[x] = <<>>
                                  \/ \E n \in members : tests[n] = NoDef

\* No stream ends without having yielded a test or an error, so no run
\* succeeds because it checked nothing, and no adhoc request is answered with
\* an empty report (main/greenbay.go adds the suite "all"; every suite that
\* exists has a member, also after any number of reloads).
NeverVacuous ==
    \A s \in Streams :
        phase[s] = "closed" =>
            /\ Received(s) # <<>>
            /\ request[s].kind # "run" => runAdhocTests(s) = "error"

\* A job that a run may be holding is never swapped for another one: a name
\* keeps its definition across reloads.
JobsAreStable ==
    [][\A n \in Names : tests[n] # NoDef => tests'[n] = tests[n]]_vars

\* What a generator has sent and has yet to send is what one configuration
\* answers, the one that still holds: no reload falls between two items of a
\* generator, though one may fall between the two generators of a run.
OneConfigPerGenerator ==
    \A s \in Streams :
        generator[s] = "send" =>
            got[s][phase[s]] \o pending[s] =
                IF phase[s] = "byName" THEN TestsByName(Asked(s).names)
                                       ELSE TestsForSuites(Asked(s).suites)

\* A stream that is consumed ends, though a waiting Reload keeps its second
\* generator out: GetAllTests never waits for a lock while it holds one.
StreamsEnd == \A s \in Streams : <>(phase[s] = "closed")

\* Reload gets the lock once the streams that were open are consumed.
ReloadEnds == writerPending ~> ~writerPending

\* config.go:73-75 "Reload reparses the local test file, and makes it possible
\* to use greenbay as a service and change the test definition without
\* restarting the service": after Reload parsed a good file, the tests are
\* those of the file.
ReloadTakesEffect ==
    lastReload # "none" /\ ~newTestConfig(parsed).failed =>
        tests = newTestConfig(parsed).tests

=============================================================================
