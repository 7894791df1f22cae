----------------------------- MODULE RemoteRun ------------------------------
(***************************************************************************)
(* GreenbayClient.Run against a greenbay service: several clients submit   *)
(* their checks to the service's queue (module LimitedQueue), wait for the *)
(* queue to be idle, fetch their jobs back and turn them into the error    *)
(* that greenbay exits with.                                               *)
(*                                                                         *)
(* A request may fail on its way out or on its way back, and its handler   *)
(* runs on when the client has given up; a client's context may expire at  *)
(* any moment, and the service's own wait may time out at any moment.      *)
(***************************************************************************)
EXTENDS LimitedQueue, SequencesExt

CONSTANTS
    Missing,     \* an item of a test stream that carries an error
    Clients,     \* the clients that run against the service
    Selections,  \* what their streams of tests may yield
    Expiring     \* the clients whose context may be done before they are

ASSUME RemoteAssumption ==
    /\ Missing \notin Jobs
    /\ Selections \subseteq [Clients -> Seq(Jobs \cup {Missing})]
    /\ Expiring \subseteq Clients
    \* every submission has an ID of its own
    /\ \A s \in Selections : \A c, d \in Clients :
          \A i \in 1..Len(s[c]), k \in 1..Len(s[d]) :
             s[c][i] = s[d][k] /\ s[c][i] # Missing => c = d /\ i = k

VARIABLES
    selection,   \* the items of each client's stream
    expired,     \* the clients whose context is done
    client       \* where each client is and what it knows

clientVars == <<selection, expired, client>>

vars == <<clientVars, queueVars>>

ClientPcs == {"submit", "submitting", "wait", "fetch", "hung", "panicked",
              "returned"}

\* ids and next: the jobs the service took, and how far the current loop is;
\* errs: the catcher of Run; fetchErrs: the catcher of getJobFromIds; waited:
\* the service said that all is complete; failing: a fetched job did not pass.
ClientState ==
    [pc : ClientPcs, next : Nat, ids : Seq(Jobs), errs : BOOLEAN,
     waited : BOOLEAN, fetchErrs : BOOLEAN, failing : BOOLEAN,
     outputFailed : BOOLEAN, verdict : {"none", "nil", "error"}]

TypeOK ==
    /\ QueueTypeOK
    /\ selection \in Selections
    /\ expired \subseteq Clients
    /\ client \in [Clients -> ClientState]

Init ==
    /\ QueueInit
    /\ selection \in Selections
    /\ expired = {}
    /\ client = [c \in Clients |->
         [pc |-> "submit", next |-> 1, ids |-> <<>>, errs |-> FALSE,
          waited |-> FALSE, fetchErrs |-> FALSE, failing |-> FALSE,
          outputFailed |-> FALSE, verdict |-> "none"]]

\* The context that a client's caller passed is done: from now on a request may
\* go unanswered.  A connection that fails looks the same to the client, and
\* expiry stands for both.
Expire(c) ==
    /\ c \in Expiring
    /\ c \notin expired
    /\ expired' = expired \cup {c}
    /\ UNCHANGED <<selection, client, queueVars>>

-----------------------------------------------------------------------------
(* Collecting and submitting.                                              *)

ClientOnly == UNCHANGED <<selection, expired, queueVars>>

Item(c) == selection[c][client[c].next]

Submitting(c) ==
    /\ client[c].pc = "submit"
    /\ client[c].next <= Len(selection[c])

\* The stream yields an error.
SubmitError(c) ==
    /\ Submitting(c)
    /\ Item(c) = Missing
    /\ client' = [client EXCEPT ![c].next = @ + 1, ![c].errs = TRUE]
    /\ ClientOnly

\* The stream yields a job, and the request to create it reaches the service.
Submit(c) ==
    /\ Submitting(c)
    /\ Item(c) # Missing
    /\ client' = [client EXCEPT ![c].pc = "submitting"]
    /\ Answer(Item(c), "lookup")
    /\ UNCHANGED <<selection, expired, capacity, storage, channel, toDelete,
                   mu, dispatcher, worker, completed, passed>>

\* Mutant: the service's error is dropped instead of added to the catcher.
SubmitRefused_ErrorDropped(c) ==
    /\ client[c].pc = "submitting"
    /\ put[Item(c)] = "refused"
    /\ client' = [client EXCEPT ![c].pc = "submit", ![c].next = @ + 1]
    /\ ClientOnly

\* The service answers that Put failed.
SubmitRefused(c) ==
    /\ client[c].pc = "submitting"
    /\ put[Item(c)] = "refused"
    /\ client' = [client EXCEPT ![c].pc = "submit", ![c].next = @ + 1,
                                ![c].errs = TRUE]
    /\ ClientOnly

\* The service answers with the ID of the job.
SubmitAccepted(c) ==
    /\ client[c].pc = "submitting"
    /\ put[Item(c)] = "accepted"
    /\ client' = [client EXCEPT ![c].pc = "submit", ![c].next = @ + 1,
                                ![c].ids = Append(@, Item(c))]
    /\ ClientOnly

\* There is no answer, because the connection or the context ended.  The
\* handler of the request, if there is one, runs on.
SubmitUnanswered(c) ==
    /\ client[c].pc = "submitting" \/ (Submitting(c) /\ Item(c) # Missing)
    /\ client' = [client EXCEPT ![c].pc = "submit", ![c].next = @ + 1,
                                ![c].errs = TRUE]
    /\ ClientOnly

Returned(c, v) ==
    client' = [client EXCEPT ![c].pc = "returned", ![c].verdict = v]

\* The stream is exhausted: return early if anything went wrong with it.
Submitted(c) ==
    /\ client[c].pc = "submit"
    /\ client[c].next > Len(selection[c])
    /\ IF client[c].errs
       THEN Returned(c, "error")
       ELSE client' = [client EXCEPT ![c].pc = "wait"]
    /\ ClientOnly

-----------------------------------------------------------------------------
(* Waiting and fetching.                                                   *)

\* The service's WaitCtxInterval finds the queue complete.
WaitOk(c) ==
    /\ client[c].pc = "wait"
    /\ mu = "free"
    /\ IsComplete
    /\ client' = [client EXCEPT ![c].pc = "fetch", ![c].next = 1,
                                ![c].waited = TRUE]
    /\ ClientOnly

\* Mutant: the service's wait has no timeout of its own.
WaitTimeout_Unbounded(c) ==
    /\ client[c].pc = "wait"
    /\ mu = "free"
    /\ IsComplete
    /\ client' = [client EXCEPT ![c].pc = "fetch", ![c].next = 1]
    /\ ClientOnly

\* It times out and answers 408, which the client takes for completion too.
\* The answer carries the queue's status, which takes the lock.
WaitTimeout(c) ==
    /\ client[c].pc = "wait"
    /\ mu = "free"
    /\ client' = [client EXCEPT ![c].pc = "fetch", ![c].next = 1]
    /\ ClientOnly

\* There is no answer: Run returns the error it has for that.
WaitUnanswered(c) ==
    /\ client[c].pc = "wait"
    /\ Returned(c, "error")
    /\ ClientOnly

Fetching(c) ==
    /\ client[c].pc = "fetch"
    /\ client[c].next <= Len(client[c].ids)

Wanted(c) == client[c].ids[client[c].next]

\* The service answers with the job, finished or not.
Fetch(c) ==
    /\ Fetching(c)
    /\ mu = "free"
    /\ Wanted(c) \in storage
    /\ client' = [client EXCEPT ![c].next = @ + 1,
                                ![c].failing = @ \/ Wanted(c) \notin passed]
    /\ ClientOnly

\* The queue has forgotten the job: the service answers 404 with a null body,
\* and the client dereferences the interchange object it decodes that into.
FetchForgotten(c) ==
    /\ Fetching(c)
    /\ mu = "free"
    /\ Wanted(c) \notin storage
    /\ client' = [client EXCEPT ![c].pc = "panicked"]
    /\ ClientOnly

\* There is no answer: the error is caught and a nil job sent on.
FetchUnanswered(c) ==
    /\ Fetching(c)
    /\ client' = [client EXCEPT ![c].next = @ + 1, ![c].fetchErrs = TRUE]
    /\ ClientOnly

\* getJobFromIds sends its error on a channel that nobody receives from
\* before it returns.
FetchedHangs(c) ==
    /\ client[c].pc = "fetch"
    /\ client[c].next > Len(client[c].ids)
    /\ client[c].fetchErrs
    /\ client' = [client EXCEPT ![c].pc = "hung"]
    /\ ClientOnly

\* All jobs were fetched: the results producer has the last word.
CollectResults(c, outputFails) ==
    /\ client[c].pc = "fetch"
    /\ client[c].next > Len(client[c].ids)
    /\ ~client[c].fetchErrs
    /\ client' = [client EXCEPT
                    ![c].pc = "returned", ![c].outputFailed = outputFails,
                    ![c].verdict = IF outputFails \/ client[c].failing
                                   THEN "error" ELSE "nil"]
    /\ ClientOnly

-----------------------------------------------------------------------------

\* Steps that a client and the service owe each other.
ClientStep(c) ==
    \/ SubmitError(c)
    \/ Submit(c)
    \/ SubmitRefused(c)
    \/ SubmitAccepted(c)
    \/ Submitted(c)
    \/ WaitOk(c)
    \/ WaitTimeout(c)
    \/ Fetch(c)
    \/ FetchForgotten(c)
    \/ FetchedHangs(c)
    \/ \E fails \in BOOLEAN : CollectResults(c, fails)

\* A request goes unanswered.
Unanswered(c) ==
    /\ c \in expired
    /\ SubmitUnanswered(c) \/ WaitUnanswered(c) \/ FetchUnanswered(c)

ServiceStep == QueueStep /\ UNCHANGED clientVars

Next ==
    \/ \E c \in Clients : ClientStep(c) \/ Unanswered(c) \/ Expire(c)
    \/ ServiceStep

Spec == Init /\ [][Next]_vars

(***************************************************************************)
(* Every goroutine that can run does, a check ends, the service's wait is  *)
(* over when its timer fires, and a request whose context is done returns. *)
(* Nothing makes a connection fail or a context expire.                    *)
(***************************************************************************)
Fairness ==
    /\ \A j \in Jobs : WF_vars(PutStep(j) /\ UNCHANGED clientVars)
    /\ WF_vars((NextJob \/ \E w \in Workers : Dispatch(w))
               /\ UNCHANGED clientVars)
    /\ \A w \in Workers : WF_vars(WorkerStep(w) /\ UNCHANGED clientVars)
    /\ \A c \in Clients : WF_vars(ClientStep(c))
    /\ \A c \in Clients : WF_vars(Unanswered(c))

FairSpec == Spec /\ Fairness

-----------------------------------------------------------------------------
(* Properties                                                              *)

\* When the service says that all is complete, every job the client submitted
\* has completed: neither a job that a worker finishes before Put has stored
\* it, nor one that is forgotten, nor another client's makes it say so early.
WaitOkIsSound ==
    \A c \in Clients : client[c].waited => ToSet(client[c].ids) \subseteq completed

SelectedJobs(c) == ToSet(selection[c])

\* Run returns nil only when everything the stream yielded was submitted, and
\* every one of these checks passed, the wait's timeouts included; and when
\* the service said that all is complete it returns an error only because of
\* a check that failed or of the output.
VerdictIsSound ==
    \A c \in Clients :
        /\ client[c].verdict = "nil" =>
              /\ ToSet(client[c].ids) = SelectedJobs(c)
              /\ SelectedJobs(c) \subseteq passed
        /\ client[c].verdict = "error" /\ client[c].waited =>
              \/ client[c].outputFailed
              \/ ~(ToSet(client[c].ids) \subseteq passed)

\* A client finds a job gone only after the service has finished as many jobs
\* as its capacity: what is lost is always the oldest of them.
PanicMeansForgotten ==
    \A c \in Clients :
        client[c].pc = "panicked" => Cardinality(completed) >= capacity

\* A client whose service keeps two jobs or more comes to an end, also when a
\* job stays in the map for ever because a worker was faster than Put: the
\* service's wait always times out, and its lock is always given back.
RunEnds ==
    \A c \in Clients :
        capacity > 1 ~> client[c].pc \in {"returned", "panicked", "hung"}

\* client.go:58-60 "waits for all checks to complete for the default (20
\* seconds,) or until the context expires": a client whose context has expired
\* comes back.
ContextEndsRun ==
    \A c \in Clients :
        (c \in expired) ~> client[c].pc \in {"returned", "panicked"}

Pending ==
    (ToSet(channel) \cup {dispatcher.job} \cup {worker[w].job : w \in Workers})
        \ {NoJob}

Taken == {j \in Jobs : put[j] \in {"store", "accepted"}}

Retained == INSTANCE Retention
    WITH pending <- Pending, finished <- Taken \ Pending, kept <- toDelete

\* The queue implements what Retention states: every accepted job finishes,
\* once, and the last capacity - 1 are remembered in the order they finished.
KeepsRetention == Retained!Promise

=============================================================================
