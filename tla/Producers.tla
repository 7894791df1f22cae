------------------------------ MODULE Producers ------------------------------
(***************************************************************************)
(* The results producers and Options.CollectResults: Populate drains a     *)
(* channel of finished jobs through the goroutine jobsToCheck, then the    *)
(* content is printed and, if a file was named, written to it.  A producer *)
(* may be populated again (ResultsProducer allows it): what that does to   *)
(* the content and to the memory of failures differs from format to        *)
(* format.                                                                 *)
(***************************************************************************)
EXTENDS Naturals, FiniteSets, SequencesExt

CONSTANTS
    Names,        \* names of jobs
    NoName,       \* the name in an empty CheckOutput
    NotChecker,   \* a job that does not implement greenbay.Checker
    ByReference,  \* stands for "whatever Populate's loop variable holds"
    Formats,      \* the registered formats that are used
    Batches,      \* what the channel of jobs may deliver
    MaxPopulates  \* bound: calls of Populate on one producer

Output == [name : Names, passed : BOOLEAN]
AllFormats == {"gotest", "log", "json", "result", "report"}

ASSUME ProducersAssumption ==
    /\ NoName \notin Names
    /\ NotChecker \notin Output
    /\ ByReference \notin BOOLEAN
    /\ Formats \subseteq AllFormats
    /\ Batches \subseteq Seq(Output \cup {NotChecker})
    \* a check is named by the ID of its job, under which the queue holds it
    /\ \A batch \in Batches : \A i, k \in DOMAIN batch :
         batch[i] # NotChecker /\ batch[k] # NotChecker
           /\ batch[i].name = batch[k].name => i = k
    /\ MaxPopulates \in Nat \ {0}

VARIABLES
    format, skipPassing, writeFile,  \* Options
    reporting,  \* the caller wants Report, not CollectResults
    batches,    \* the batches this producer was populated with
    jobs,       \* what the channel of the current Populate still yields
    converting, \* jobsToCheck has not closed its channel yet
    unit,       \* the unit it is about to send, if any
    pc,         \* where the caller is
    check,      \* the loop variable of Populate
    tally,      \* produceResults: failedCount
    errors,     \* Populate's catcher
    content,    \* what the producer would render
    failed,     \* numFailed > 0, resultsDocument.failed or Report.hasErrors
    printed,    \* what Print handed to standard output
    printFailed,\* Print returned an error of its own
    written,    \* the files ToFile opened, each with what got into it
    fileFailed, \* ToFile returned an error of its own
    returned    \* "none", "nil" or "error"

options == <<format, skipPassing, writeFile, reporting>>
producer == <<check, tally, errors, content, failed>>
converter == <<jobs, converting, unit>>
result == <<printed, printFailed, written, fileFailed, returned>>
vars == <<options, batches, converter, pc, producer, result>>

ZeroOutput == [name |-> NoName, passed |-> FALSE]
Batch == batches[Len(batches)]

TypeOK ==
    /\ format \in Formats /\ skipPassing \in BOOLEAN /\ writeFile \in BOOLEAN
    /\ reporting \in BOOLEAN
    /\ batches \in Seq(Batches) /\ Len(batches) <= MaxPopulates
    /\ jobs \in Seq(Output \cup {NotChecker})
    /\ converting \in BOOLEAN
    /\ printFailed \in BOOLEAN /\ fileFailed \in BOOLEAN
    /\ unit \in {<<>>} \cup {<<u>> : u \in Output \cup {NotChecker}}
    /\ pc \in {"idle", "populate", "print", "file", "returned"}
    /\ check \in Output \cup {ZeroOutput}
    /\ tally \in Nat /\ errors \in BOOLEAN /\ failed \in BOOLEAN
    /\ content \in Seq([name : Names, passed : BOOLEAN \cup {ByReference}])
    /\ returned \in {"none", "nil", "error"}

-----------------------------------------------------------------------------
(* What a producer renders, and whether it holds a failure against it.     *)

\* Report keeps a pointer to the loop variable under each name.
getJSON ==
    [i \in DOMAIN content |->
        [key |-> content[i].name,
         output |-> IF content[i].passed = ByReference
                    THEN check ELSE content[i]]]

Items(outputs) ==
    [i \in DOMAIN outputs |-> [key |-> outputs[i].name, output |-> outputs[i]]]

\* One of the two lists of messages that the log formats keep.
Messages(passed) ==
    FlattenSeq([i \in DOMAIN content |->
        IF content[i].passed = passed THEN <<content[i]>> ELSE <<>>])

\* The log formats show what passed before what failed.
logResults == Items(Messages(TRUE) \o Messages(FALSE))

Rendered ==
    CASE format = "report" -> getJSON
      [] format \in {"log", "json"} -> logResults
      [] OTHER -> Items(content)

\* Mutant: the log formats err if they hold any message.
HasFailures_AnyMessage ==
    IF format \in {"log", "json"} THEN content # <<>> ELSE failed

\* The log formats look at the messages they hold, the others at a field.
HasFailures ==
    IF format \in {"log", "json"}
    THEN \E i \in DOMAIN content : ~content[i].passed
    ELSE failed

-----------------------------------------------------------------------------

\* GetResultsProducer made a new producer; Report makes its own, without
\* options.
Init ==
    /\ format \in Formats /\ skipPassing \in BOOLEAN /\ writeFile \in BOOLEAN
    /\ reporting \in BOOLEAN
    /\ reporting => format = "report" /\ ~skipPassing /\ ~writeFile
    /\ batches = <<>>
    /\ jobs = <<>> /\ converting = FALSE /\ unit = <<>>
    /\ pc = "idle"
    /\ check = ZeroOutput /\ tally = 0 /\ errors = FALSE
    /\ content = <<>> /\ failed = FALSE
    /\ printed = <<>> /\ printFailed = FALSE
    /\ written = <<>> /\ fileFailed = FALSE
    /\ returned = "none"

\* The caller populates the producer, for the first time or once more: the
\* result document and the report start anew, the report keeps hasErrors, the
\* others append to what they have.
Populate(batch) ==
    /\ pc \in {"idle", "returned"}
    /\ Len(batches) < MaxPopulates
    /\ batches' = Append(batches, batch)
    /\ jobs' = batch /\ converting' = TRUE /\ unit' = <<>>
    /\ pc' = "populate"
    /\ check' = ZeroOutput /\ tally' = 0 /\ errors' = FALSE
    /\ content' = IF format \in {"result", "report"} THEN <<>> ELSE content
    /\ failed' = (failed /\ format # "result")
    /\ printed' = <<>> /\ printFailed' = FALSE
    /\ written' = <<>> /\ fileFailed' = FALSE
    /\ returned' = "none"
    /\ UNCHANGED options

\* Mutant: SkipPassing drops every check.
Suppressed_Failing(u) == skipPassing /\ u # NotChecker

\* What SkipPassing keeps from the producer.
Suppressed(u) == skipPassing /\ u # NotChecker /\ u.passed

\* jobsToCheck takes a job and goes on to send its output, or its error,
\* unless passing checks are skipped.
Convert ==
    /\ converting /\ unit = <<>>
    /\ jobs # <<>>
    /\ jobs' = Tail(jobs)
    /\ unit' = IF Suppressed(Head(jobs)) THEN <<>> ELSE <<Head(jobs)>>
    /\ UNCHANGED <<options, batches, converting, pc, producer, result>>

ConvertEnds ==
    /\ converting /\ unit = <<>>
    /\ jobs = <<>>
    /\ converting' = FALSE
    /\ UNCHANGED <<options, batches, jobs, unit, pc, producer, result>>

\* What one unit makes of a producer, format by format.
As(newContent, newTally, newFailed) ==
    [content |-> newContent, tally |-> newTally, failed |-> newFailed]

\* go test -v: a line for the buffer, and a count that Populate stores later.
produceResults(u) ==
    As(Append(content, u), IF u.passed THEN tally ELSE tally + 1, failed)

\* log and json: a message for one of two lists.
addMessage(u) == As(Append(content, u), tally, failed)

\* result: an item of the document.
addItem(u) == As(Append(content, u), tally, failed \/ ~u.passed)

\* report: the loop variable's address under the name.
addToReport(u) ==
    As(Append(content, [u EXCEPT !.passed = ByReference]), tally,
       failed \/ ~u.passed)

Kept(u) ==
    CASE format = "gotest" -> produceResults(u)
      [] format \in {"log", "json"} -> addMessage(u)
      [] format = "result" -> addItem(u)
      [] format = "report" -> addToReport(u)

\* An error adds nothing; the report alone holds it against the results.
Caught == As(content, tally, failed \/ format = "report")

Becomes(k) ==
    /\ content' = k.content /\ tally' = k.tally /\ failed' = k.failed

\* Mutant: the first job that is no checker ends the loop.
PopulateUnit_StopsAtError ==
    /\ pc = "populate"
    /\ \E u \in Output \cup {NotChecker} :
         /\ unit = <<u>>
         /\ IF u = NotChecker
            THEN /\ errors' = TRUE
                 /\ pc' = "returned" /\ returned' = "error"
                 /\ UNCHANGED <<check, tally, content, failed, unit>>
            ELSE /\ check' = u
                 /\ Becomes(Kept(u))
                 /\ unit' = <<>>
                 /\ UNCHANGED <<errors, pc, returned>>
    /\ UNCHANGED <<options, batches, jobs, converting, printed, printFailed,
                   written, fileFailed>>

\* Mutant: the unit of an error is kept like a failed check.
PopulateUnit_KeepsErrors ==
    /\ pc = "populate"
    /\ \E u \in Output \cup {NotChecker} :
         /\ unit = <<u>>
         /\ LET o == IF u = NotChecker THEN ZeroOutput ELSE u
            IN  check' = o /\ Becomes(Kept(o))
         /\ errors' = (errors \/ u = NotChecker)
    /\ unit' = <<>>
    /\ UNCHANGED <<options, batches, jobs, converting, pc, result>>

\* One iteration of Populate's loop.  An error is caught and the loop goes on.
PopulateUnit ==
    /\ pc = "populate"
    /\ \E u \in Output \cup {NotChecker} :
         /\ unit = <<u>>
         /\ IF u = NotChecker THEN check' = ZeroOutput /\ Becomes(Caught)
                              ELSE check' = u /\ Becomes(Kept(u))
         /\ errors' = (errors \/ u = NotChecker)
    /\ unit' = <<>>
    /\ UNCHANGED <<options, batches, jobs, converting, pc, result>>

\* Mutant: gotest does not store the failures it counted.
PopulateReturns_NoTally ==
    /\ pc = "populate"
    /\ ~converting
    /\ IF errors THEN pc' = "returned" /\ returned' = "error"
                 ELSE pc' = "print" /\ UNCHANGED returned
    /\ UNCHANGED <<options, batches, converter, producer, printed, printFailed,
                   written, fileFailed>>

\* The channel is closed.  Only without an error does gotest store its count;
\* with one, CollectResults returns before it prints anything.
PopulateReturns ==
    /\ pc = "populate"
    /\ ~converting
    /\ IF errors THEN pc' = "returned" /\ returned' = "error"
                 ELSE pc' = "print" /\ UNCHANGED returned
    /\ failed' = IF format = "gotest" /\ ~errors THEN tally > 0 ELSE failed
    /\ UNCHANGED <<options, batches, converter, check, tally, errors, content,
                   printed, printFailed, written, fileFailed>>

\* The log formats have a logger to set up, report has its map to marshal, and
\* result looks at what its write returns.  gotest alone calls Println only, and
\* like report and the loggers never hears of a write that fails.
MayFailToPrint == format # "gotest"

\* The content is handed to standard output, or Print gives up.
Show ==
    /\ printFailed' \in {FALSE, MayFailToPrint}
    /\ printed' = IF printFailed' THEN <<>> ELSE Rendered
    /\ errors' = (printFailed' \/ HasFailures)

\* Mutant: CollectResults returns what Print reports before it writes the file.
PrintContent_ReturnsEarly ==
    /\ pc = "print" /\ ~reporting
    /\ Show
    /\ IF writeFile /\ ~errors'
       THEN pc' = "file" /\ UNCHANGED returned
       ELSE pc' = "returned" /\ returned' = IF errors' THEN "error" ELSE "nil"
    /\ UNCHANGED <<options, batches, converter, check, tally, content, failed,
                   written, fileFailed>>

\* Print errs on failures and of its own; the file is written anyway.
PrintContent ==
    /\ pc = "print" /\ ~reporting
    /\ Show
    /\ IF writeFile
       THEN pc' = "file" /\ UNCHANGED returned
       ELSE pc' = "returned" /\ returned' = IF errors' THEN "error" ELSE "nil"
    /\ UNCHANGED <<options, batches, converter, check, tally, content, failed,
                   written, fileFailed>>

\* Report hands the results over, failures or not.
Report ==
    /\ pc = "print" /\ reporting
    /\ printed' = getJSON
    /\ pc' = "returned" /\ returned' = "nil"
    /\ UNCHANGED <<options, batches, converter, producer, printFailed, written,
                   fileFailed>>

\* What a file holds when some of its writes failed.
Part(kept) ==
    FlattenSeq([i \in DOMAIN Rendered |->
        IF i \in kept THEN <<Rendered[i]>> ELSE <<>>])

\* The log formats write through a logger: its sender is an error if the file
\* cannot be opened, but Send drops the error of a write.
LosesWriteErrors == format \in {"log", "json"}

\* The file is written, or cannot be opened, or gets a part of the content.
WriteContent ==
    \/ /\ written' = <<Rendered>>
       /\ fileFailed' = FALSE
    \/ /\ written' = <<>>
       /\ fileFailed' = TRUE
    \/ /\ \E kept \in SUBSET DOMAIN Rendered : written' = <<Part(kept)>>
       /\ fileFailed' = ~LosesWriteErrors

\* ToFile writes the same content; CollectResults resolves both errors.
ToFile ==
    /\ pc = "file"
    /\ WriteContent
    /\ returned' = IF errors \/ HasFailures \/ fileFailed'
                   THEN "error" ELSE "nil"
    /\ pc' = "returned"
    /\ UNCHANGED <<options, batches, converter, producer, printed, printFailed>>

\* The caller has what it wanted (no step of the code).
Done ==
    /\ pc = "returned"
    /\ UNCHANGED vars

Next ==
    \/ \E batch \in Batches : Populate(batch)
    \/ Convert \/ ConvertEnds
    \/ PopulateUnit \/ PopulateReturns
    \/ PrintContent \/ Report \/ ToFile
    \/ Done

\* The goroutine and the caller run on; nobody has to populate again.
Fairness ==
    /\ WF_vars(Convert \/ ConvertEnds)
    /\ WF_vars(PopulateUnit \/ PopulateReturns
                 \/ PrintContent \/ Report \/ ToFile)

Spec == Init /\ [][Next]_vars /\ Fairness

-----------------------------------------------------------------------------
(* Properties                                                              *)

Wanted(u) == u # NotChecker /\ ~(skipPassing /\ u.passed)

Sound(batch) == \A i \in DOMAIN batch : batch[i] # NotChecker /\ batch[i].passed

\* The file is there as it was to be; for the log formats only that it is there.
FileIsThere ==
    IF LosesWriteErrors THEN written # <<>> ELSE written = <<Rendered>>

\* options.go:73-76 "returns an error if any of the tests failed": nil means
\* that every job of the last batch is a check that passed, even if passing
\* checks are skipped, that Print did not give up, and that the file holds what
\* was printed.  Of the log formats nil says only that the file was opened:
\* grip drops the error of a write, and a file that lacks some is not reported.
NilIsSound ==
    returned = "nil" /\ ~reporting =>
        /\ Sound(Batch)
        /\ printed = Rendered
        /\ writeFile => FileIsThere

\* A producer that was populated once errs only for a reason: a job that is no
\* check or did not pass, or an error of Print's own or of ToFile's own.
ErrorHasReason ==
    returned = "error" /\ Len(batches) = 1 =>
        ~Sound(Batch) \/ printFailed \/ fileFailed

\* A batch that was collected is shown, unless Print gave up: every failing
\* check by its name, every passing one too unless they are skipped, none twice.
NothingIsHidden ==
    /\ pc = "returned" /\ ~printFailed
    /\ ~(\E i \in DOMAIN Batch : Batch[i] = NotChecker)
    => LET shown == {printed[i].key : i \in DOMAIN printed}
           wanted == {i \in DOMAIN Batch : Wanted(Batch[i])}
       IN  /\ \A i \in wanted : Batch[i].name \in shown
           /\ Len(batches) = 1 => Len(printed) = Cardinality(wanted)

\* A named file is attempted whenever there was content to print, though Print
\* found failures or gave up, and ToFile errs if it is not as it should be, as
\* far as the format hears of that.
FileIsAttempted ==
    pc = "returned" /\ writeFile /\ ~(\E i \in DOMAIN Batch : Batch[i] = NotChecker)
        => FileIsThere \/ fileFailed

\* Populate drains the channel it was given: jobsToCheck, and the goroutine
\* that feeds it, are never left blocked on a send.
ConverterEnds == pc = "populate" ~> (pc = "returned" /\ ~converting)

\* options.go:99-100 "Report produces the results of a test run in a parseable
\* map structure": under each name is the output of the check of that name.
ReportKeepsEachResult ==
    format = "report" /\ pc = "print" /\ Len(batches) = 1 =>
        \A i \in DOMAIN Batch :
            Wanted(Batch[i]) =>
                \E k \in DOMAIN Rendered :
                    Rendered[k] = [key |-> Batch[i].name, output |-> Batch[i]]

\* producer.go:23-25 "Print prints ... the results in a given format. Returns an
\* error if the results in the format have any failed checks", on a producer
\* that is populated repeatedly, as producer.go:13-16 provides for.
PrintErrsOnFailures ==
    /\ pc = "returned" /\ ~reporting
    /\ \E i \in DOMAIN printed : ~printed[i].output.passed
    => returned = "error"

=============================================================================
