--------------------------- MODULE Retention_proofs ---------------------------
(***************************************************************************)
(* The queue of a greenbay service implements Retention, for any clients,  *)
(* checks, workers and capacity: every step of it, and of its clients, is  *)
(* the acceptance of a job, the end of one, or nothing to Retention.       *)
(***************************************************************************)
EXTENDS RemoteRun_proofs

\* A goroutine that waits for a job holds none.
Idle ==
    /\ dispatcher.pc = "next" => dispatcher.job = NoJob
    /\ \A w \in Workers : worker[w].pc = "select" => worker[w].job = NoJob

LEMMA InitIdle == Init => Idle
BY DEF Init, QueueInit, Idle, At

LEMMA NextIdle == TypeOK /\ Idle /\ [Next]_vars => Idle'
<1> SUFFICES ASSUME TypeOK, Idle, [Next]_vars PROVE Idle'
  OBVIOUS
<1>0. /\ worker \in [Workers -> [pc : {"select", "run", "finished", "blocked"},
                                 job : Jobs \cup {NoJob}]]
      /\ dispatcher \in [pc : {"next", "send"}, job : Jobs \cup {NoJob}]
  BY DEF TypeOK, QueueTypeOK
<1>1. CASE UNCHANGED <<dispatcher, worker>>
  BY <1>1 DEF Idle
<1>2. CASE NextJob
  BY <1>2 DEF NextJob, Idle, At
<1>3. ASSUME NEW w \in Workers, WorkerStep(w) PROVE Idle'
  <2>1. CASE Dispatch(w)
    BY <1>0, <2>1 DEF Dispatch, Idle, At
  <2>2. CASE SetState(w) \/ MarkComplete(w)
    BY <1>0, <2>2 DEF SetState, MarkComplete, Idle
  <2>3. CASE Complete(w)
    BY <1>0, <2>3 DEF Complete, CompleteFrame, Idle, At
  <2>4. CASE CompleteBlocks(w)
    BY <1>0, <2>4 DEF CompleteBlocks, CompleteFrame, Idle
  <2> QED
    BY <1>3, <2>1, <2>2, <2>3, <2>4 DEF WorkerStep
<1>4. ASSUME NEW j \in Jobs, PutStep(j) PROVE UNCHANGED <<dispatcher, worker>>
  BY <1>4 DEF PutStep, PutLookup, PutSend, PutStore
<1>5. ASSUME NEW c \in Clients, ClientStep(c) \/ Unanswered(c) \/ Expire(c)
      PROVE  UNCHANGED <<dispatcher, worker>>
  BY <1>5 DEF ClientStep, SubmitError, Submit, SubmitRefused, SubmitAccepted,
     Submitted, WaitOk, WaitTimeout, Fetch, FetchForgotten, FetchedHangs,
     CollectResults, Unanswered, SubmitUnanswered, WaitUnanswered,
     FetchUnanswered, Expire, ClientOnly, queueVars
<1>6. CASE UNCHANGED vars
  BY <1>1, <1>6 DEF vars, queueVars
<1> QED
  BY <1>1, <1>2, <1>3, <1>4, <1>5, <1>6 DEF Next, ServiceStep, QueueStep

LEMMA IdleInvariant == Spec => []Idle
BY InitIdle, NextIdle, TypeCorrect, PTL DEF Spec

-----------------------------------------------------------------------------
(* The jobs that have been taken and have not finished.                    *)

LEMMA PendingJobs ==
  ASSUME QueueOK, Idle
  PROVE  /\ Pending \subseteq Taken
         /\ \A j \in Jobs : j \in Pending <=>
              \/ j \in Channel
              \/ dispatcher.job = j
              \/ \E w \in Workers : worker[w].job = j
         /\ NoJob \notin Jobs /\ NoJob \notin Pending
<1>0. /\ QueueTypeOK /\ QueueShape /\ Single /\ NoJob \notin Jobs
      /\ channel \in Seq(Jobs)
  BY LimitedAssumption
  DEF QueueOK, QueueShape, QueueTypeOK, LimitedAssumption
<1>1. Channel \subseteq Jobs
  BY <1>0, Elements DEF Channel
<1>2. \A j \in Jobs : j \in Pending <=>
         \/ j \in Channel
         \/ dispatcher.job = j
         \/ \E w \in Workers : worker[w].job = j
  BY <1>0 DEF Pending, Channel
<1>3. Pending \subseteq Jobs
  BY <1>0, <1>1 DEF Pending, Channel, QueueTypeOK
<1>4. ASSUME NEW j \in Pending PROVE j \in Taken
  <2>0. j \in Jobs /\ j # NoJob
    BY <1>0, <1>3
  <2>1. CASE j \in Channel
    BY <1>0, <2>1 DEF Single
  <2>2. CASE dispatcher.job = j
    <3>1. j \in Dispatched
      BY <1>0, <2>0, <2>2 DEF Dispatched, Idle, QueueTypeOK
    <3> QED
      BY <1>0, <3>1 DEF Single
  <2>3. ASSUME NEW w \in Workers, worker[w].job = j PROVE j \in Taken
    <3>1. j \in Held(w)
      BY <2>0, <2>3 DEF Held, Idle
    <3> QED
      BY <1>0, <3>1 DEF Single
  <2> QED
    BY <1>2, <2>0, <2>1, <2>2, <2>3
<1> QED
  BY <1>0, <1>2, <1>3, <1>4

LEMMA InitRetention == Init => Retained!RetentionInit
<1> SUFFICES ASSUME Init PROVE Retained!RetentionInit
  OBVIOUS
<1>1. Taken = {}
  BY DEF Init, QueueInit, Taken
<1>2. Pending = {}
  <2>1. ToSet(channel) = {}
    BY DEF Init, QueueInit, ToSet
  <2> QED
    BY <2>1 DEF Init, QueueInit, Pending, At
<1> QED
  BY <1>1, <1>2 DEF Init, QueueInit, Retained!RetentionInit

\* The rest of a list and one more element are its last elements.
LEMMA DropFirst ==
  ASSUME NEW S, NEW s \in Seq(S), s # <<>>, NEW x \in S
  PROVE  Append(Tail(s), x) = SubSeq(Append(s, x), 2, Len(s) + 1)
<1>1. /\ Len(s) \in Nat /\ Len(s) >= 1 /\ Tail(s) \in Seq(S)
      /\ Len(Tail(s)) = Len(s) - 1
      /\ \A i \in 1..(Len(s) - 1) : Tail(s)[i] = s[i + 1]
  OBVIOUS
<1>2. /\ Append(s, x) \in Seq(S) /\ Len(Append(s, x)) = Len(s) + 1
      /\ Append(s, x)[Len(s) + 1] = x
      /\ \A i \in 1..Len(s) : Append(s, x)[i] = s[i]
  OBVIOUS
<1> DEFINE a == Append(Tail(s), x)
           b == SubSeq(Append(s, x), 2, Len(s) + 1)
<1>3. /\ a \in Seq(S) /\ Len(a) = Len(s)
      /\ a[Len(s)] = x /\ \A i \in 1..(Len(s) - 1) : a[i] = s[i + 1]
  BY <1>1
<1>4. /\ b \in Seq(S) /\ Len(b) = Len(s)
      /\ \A i \in 1..Len(s) : b[i] = Append(s, x)[i + 1]
  BY <1>1, <1>2
<1> HIDE DEF a, b
<1>5. \A i \in 1..Len(s) : a[i] = b[i]
  <2> TAKE i \in 1..Len(s)
  <2>1. CASE i = Len(s)
    BY <1>1, <1>2, <1>3, <1>4, <2>1
  <2>2. CASE i # Len(s)
    <3>0. Len(s) \in Nat /\ i \in Nat /\ 1 <= i /\ i <= Len(s)
      BY <1>1
    <3>1. i \in 1..(Len(s) - 1) /\ i + 1 \in 1..Len(s)
      BY <2>2, <3>0
    <3>2. a[i] = s[i + 1] /\ b[i] = Append(s, x)[i + 1]
      BY <1>3, <1>4, <3>1
    <3> QED
      BY <1>2, <3>1, <3>2
  <2> QED
    BY <2>1, <2>2
<1>6. a = b
  BY <1>3, <1>4, <1>5, SeqEqual
<1> QED
  BY <1>6 DEF a, b

-----------------------------------------------------------------------------
(* The steps.                                                              *)

LEMMA SameTaken == UNCHANGED put => Taken' = Taken
BY DEF Taken

LEMMA PutSendAccepts ==
  ASSUME QueueOK, Idle, NEW j \in Jobs, PutSend(j)
  PROVE  [Retained!Accept(j)]_(Retained!retentionVars)
<1>0. /\ QueueShape /\ channel \in Seq(Jobs) /\ put[j] = "send"
      /\ UNCHANGED <<capacity, toDelete, dispatcher, worker>>
  BY DEF QueueOK, QueueShape, QueueTypeOK, PutSend
<1>1. CASE Answer(j, "store") /\ channel' = Append(channel, j)
  <2>1. Taken' = Taken \cup {j}
    BY <1>0, <1>1, Answering DEF PutStates
  <2>2. j \notin Taken
    BY <1>0 DEF Taken
  <2>3. Pending' = Pending \cup {j}
    <3>1. ToSet(channel') = ToSet(channel) \cup {j}
      BY <1>0, <1>1, Appending
    <3>2. j # NoJob
      BY PendingJobs
    <3> QED
      BY <1>0, <3>1, <3>2 DEF Pending
  <2>4. j \notin Pending \cup (Taken \ Pending)
    BY <2>2, PendingJobs
  <2>5. Taken' \ Pending' = Taken \ Pending
    BY <2>1, <2>2, <2>3
  <2> QED
    BY <1>0, <2>3, <2>4, <2>5 DEF Retained!Accept
<1>2. CASE Answer(j, "refused") /\ UNCHANGED channel
  <2>1. Taken' = Taken
    BY <1>0, <1>2 DEF Answer, Taken, QueueShape, QueueTypeOK
  <2>2. Pending' = Pending
    BY <1>0, <1>2 DEF Pending
  <2> QED
    BY <1>0, <2>1, <2>2 DEF Retained!retentionVars
<1> QED
  BY <1>1, <1>2 DEF PutSend

LEMMA OtherPuts ==
  ASSUME QueueOK, NEW j \in Jobs, PutLookup(j) \/ PutStore(j)
  PROVE  UNCHANGED Retained!retentionVars
<1>1. /\ UNCHANGED <<capacity, toDelete, channel, dispatcher, worker>>
      /\ put \in [Jobs -> PutStates]
  BY DEF PutLookup, PutStore, QueueOK, QueueShape, QueueTypeOK
<1>2. Taken' = Taken
  BY <1>1 DEF PutLookup, PutStore, Answer, Taken
<1>3. Pending' = Pending
  BY <1>1 DEF Pending
<1> QED
  BY <1>1, <1>2, <1>3 DEF Retained!retentionVars

LEMMA Passing ==
  ASSUME QueueOK, Idle, NextJob \/ \E w \in Workers : Dispatch(w)
  PROVE  UNCHANGED Retained!retentionVars
<1>0. /\ UNCHANGED <<capacity, toDelete, put>> /\ channel \in Seq(Jobs)
      /\ Distinct(channel)
      /\ worker \in [Workers -> [pc : {"select", "run", "finished", "blocked"},
                                 job : Jobs \cup {NoJob}]]
  BY DEF NextJob, Dispatch, QueueOK, QueueShape, QueueTypeOK, Single
<1>1. CASE NextJob
  <2>1. /\ dispatcher.job = NoJob /\ dispatcher'.job = Head(channel)
        /\ channel' = Tail(channel) /\ channel # <<>> /\ UNCHANGED worker
    BY <1>1 DEF NextJob, Idle, At
  <2>2. /\ Head(channel) \in ToSet(channel)
        /\ ToSet(channel') = ToSet(channel) \ {Head(channel)}
    BY <1>0, <2>1, Removing
  <2>3. Pending' = Pending
    BY <2>1, <2>2 DEF Pending
  <2> QED
    BY <1>0, <2>3, SameTaken DEF Retained!retentionVars
<1>2. ASSUME NEW w \in Workers, Dispatch(w)
      PROVE  UNCHANGED Retained!retentionVars
  <2>1. /\ worker[w].job = NoJob /\ worker'[w].job = dispatcher.job
        /\ \A v \in Workers : v # w => worker'[v] = worker[v]
        /\ dispatcher'.job = NoJob /\ UNCHANGED channel
    BY <1>0, <1>2 DEF Dispatch, Idle, At
  <2>2. {dispatcher'.job} \cup {worker'[v].job : v \in Workers} \cup {NoJob}
          = {dispatcher.job} \cup {worker[v].job : v \in Workers} \cup {NoJob}
    <3>1. \A v \in Workers : \/ worker'[v].job = dispatcher.job
                             \/ worker'[v].job = worker[v].job
      BY <2>1
    <3>2. \A v \in Workers : \/ worker[v].job = NoJob
                             \/ worker'[v].job = worker[v].job
      BY <2>1
    <3> QED
      BY <2>1, <3>1, <3>2
  <2>3. Pending' = Pending
    BY <2>1, <2>2 DEF Pending
  <2> QED
    BY <1>0, <2>3, SameTaken DEF Retained!retentionVars
<1> QED
  BY <1>1, <1>2

LEMMA SameJobs ==
  ASSUME QueueOK, NEW w \in Workers,
         SetState(w) \/ MarkComplete(w) \/ CompleteBlocks(w)
  PROVE  UNCHANGED Retained!retentionVars
<1>0. /\ UNCHANGED <<capacity, toDelete, put, channel, dispatcher>>
      /\ worker \in [Workers -> [pc : {"select", "run", "finished", "blocked"},
                                 job : Jobs \cup {NoJob}]]
  BY DEF SetState, MarkComplete, CompleteBlocks, CompleteFrame, QueueOK, QueueShape,
         QueueTypeOK
<1>1. \A v \in Workers : worker'[v].job = worker[v].job
  BY <1>0 DEF SetState, MarkComplete, CompleteBlocks
<1>2. {worker'[v].job : v \in Workers} = {worker[v].job : v \in Workers}
  BY <1>1
<1>3. Pending' = Pending
  BY <1>0, <1>2 DEF Pending
<1> QED
  BY <1>0, <1>3, SameTaken DEF Retained!retentionVars

\* Complete is the promise's Finish: the job was pending with this worker and
\* nowhere else, and what toDelete holds afterwards is what is to be kept.
LEMMA CompleteFinishes ==
  ASSUME QueueOK, Idle, NEW w \in Workers, Complete(w)
  PROVE  Retained!Finish(worker[w].job)
<1> DEFINE j == worker[w].job
           full == Len(toDelete) = capacity - 1
<1>0. /\ worker[w].pc = "finished" /\ (full => toDelete # <<>>)
      /\ toDelete' = Append(IF full THEN Tail(toDelete) ELSE toDelete, j)
      /\ worker' = [worker EXCEPT ![w] = At("select", NoJob)]
      /\ UNCHANGED <<capacity, channel, put, dispatcher>>
      /\ worker \in [Workers -> [pc : {"select", "run", "finished", "blocked"},
                                 job : Jobs \cup {NoJob}]]
  BY DEF Complete, CompleteFrame, QueueOK, QueueShape, QueueTypeOK
<1>1. /\ j \in Jobs /\ j \in completed /\ capacity \in Nat
      /\ toDelete \in Seq(Jobs) /\ Len(toDelete) \in Nat
      /\ Len(toDelete) < capacity /\ j # NoJob
  BY <1>0, Finishing, PendingJobs
<1>2. capacity > 1
  BY <1>0, <1>1
<1>3. j \in Pending
  BY <1>1, PendingJobs
<1>4. /\ j \notin Channel /\ dispatcher.job # j
      /\ \A v \in Workers : v # w => worker[v].job # j
  <2>1. Single /\ j \in Held(w)
    BY <1>0, <1>1 DEF QueueOK, Held
  <2>2. j \notin Channel /\ j \notin Dispatched
    BY <2>1 DEF Single
  <2>3. dispatcher.job # j
    BY <1>1, <2>2 DEF Dispatched, Idle, QueueOK, QueueShape, QueueTypeOK
  <2>4. ASSUME NEW v \in Workers, v # w, worker[v].job = j PROVE FALSE
    <3>1. j \in Held(v)
      BY <1>1, <2>4 DEF Held, Idle
    <3> QED
      BY <2>1, <2>4, <3>1 DEF Single
  <2> QED
    BY <2>2, <2>3, <2>4
<1>5. Pending' = Pending \ {j}
  <2>1. /\ worker'[w].job = NoJob
        /\ \A v \in Workers : v # w => worker'[v].job = worker[v].job
    BY <1>0 DEF At
  <2>2. {worker'[v].job : v \in Workers} \ {NoJob}
          = {worker[v].job : v \in Workers} \ {NoJob, j}
    <3>1. \A v \in Workers : worker'[v].job # NoJob =>
             worker'[v].job = worker[v].job /\ worker[v].job # j
      BY <1>4, <2>1
    <3>2. \A v \in Workers : worker[v].job # j =>
             worker'[v].job = worker[v].job
      BY <2>1
    <3> QED
      BY <3>1, <3>2
  <2>3. Pending = ((ToSet(channel) \cup {dispatcher.job}) \ {NoJob})
                    \cup ({worker[v].job : v \in Workers} \ {NoJob})
    BY DEF Pending
  <2>4. Pending' = ((ToSet(channel') \cup {dispatcher'.job}) \ {NoJob})
                    \cup ({worker'[v].job : v \in Workers} \ {NoJob})
    BY DEF Pending
  <2>5. channel' = channel /\ dispatcher' = dispatcher
    BY <1>0
  <2> QED
    BY <1>4, <2>2, <2>3, <2>4, <2>5 DEF Channel
<1>6. Taken' = Taken /\ j \in Taken
  BY <1>0, <1>3, PendingJobs, SameTaken
<1>7. Taken' \ Pending' = (Taken \ Pending) \cup {j}
  BY <1>3, <1>5, <1>6
<1>8. toDelete' = Retained!LastOf(Append(toDelete, j), capacity - 1)
  <2>1. Len(Append(toDelete, j)) = Len(toDelete) + 1
    BY <1>1
  <2>2. CASE full
    <3>1. toDelete' = SubSeq(Append(toDelete, j), 2, Len(toDelete) + 1)
      BY <1>0, <1>1, <2>2, DropFirst
    <3>2. (Len(toDelete) + 1) - (capacity - 1) + 1 = 2
      BY <1>1, <2>2
    <3>3. ~(Len(Append(toDelete, j)) <= capacity - 1)
      BY <1>1, <2>1, <2>2
    <3> QED
      BY <2>1, <3>1, <3>2, <3>3 DEF Retained!LastOf
  <2>3. CASE ~full
    BY <1>0, <1>1, <2>1, <2>3 DEF Retained!LastOf
  <2> QED
    BY <2>2, <2>3
<1> HIDE DEF j
<1> QED
  BY <1>0, <1>2, <1>3, <1>5, <1>7, <1>8 DEF Retained!Finish, j

LEMMA ClientsStutter ==
  ASSUME IInv, NEW c \in Clients, ClientStep(c) \/ Unanswered(c) \/ Expire(c)
  PROVE  UNCHANGED Retained!retentionVars
<1>1. CASE UNCHANGED queueVars
  <2>1. /\ UNCHANGED <<capacity, toDelete, channel, dispatcher, worker, put>>
    BY <1>1 DEF queueVars
  <2> QED
    BY <2>1, SameTaken DEF Pending, Retained!retentionVars
<1>2. CASE Submit(c)
  <2>1. /\ UNCHANGED <<capacity, toDelete, channel, dispatcher, worker>>
        /\ put \in [Jobs -> PutStates] /\ Answer(Item(c), "lookup")
        /\ client[c].pc = "submit" /\ client[c].next <= Len(selection[c])
        /\ Item(c) # Missing
    BY <1>2 DEF Submit, Submitting, IInv, QueueOK, QueueShape, QueueTypeOK
  <2>2. SubmitOK(c) /\ ClientShape
    BY <2>1 DEF IInv, ClientOK
  <2>3. put[Item(c)] = "idle"
    <3>1. /\ client[c].next \in Nat /\ selection[c] \in Seq(Jobs \cup {Missing})
      BY <2>2, RemoteAssumption, ClientTypes
      DEF ClientShape, RemoteAssumption, ClientState
    <3>2. Item(c) \in ToSubmit(c)
      BY <2>1, <3>1 DEF ToSubmit, Item
    <3> QED
      BY <2>1, <2>2, <3>2 DEF SubmitOK
  <2>4. Taken' = Taken
    BY <2>1, <2>3 DEF Answer, Taken
  <2> QED
    BY <2>1, <2>4 DEF Pending, Retained!retentionVars
<1> QED
  BY <1>1, <1>2 DEF ClientStep, SubmitError, SubmitRefused, SubmitAccepted,
     Submitted, WaitOk, WaitTimeout, Fetch, FetchForgotten, FetchedHangs,
     CollectResults, Unanswered, SubmitUnanswered, WaitUnanswered,
     FetchUnanswered, Expire, ClientOnly

LEMMA StepKeepsRetention ==
  ASSUME IInv, Idle, [Next]_vars
  PROVE  [Retained!RetentionNext]_(Retained!retentionVars)
<1>0. QueueOK
  BY DEF IInv
<1>1. CASE UNCHANGED vars
  BY <1>1, SameTaken
  DEF vars, queueVars, Pending, Retained!retentionVars
<1>2. ASSUME NEW j \in Jobs, PutStep(j)
      PROVE  [Retained!RetentionNext]_(Retained!retentionVars)
  BY <1>0, <1>2, PutSendAccepts, OtherPuts
  DEF PutStep, Retained!RetentionNext
<1>3. ASSUME NEW w \in Workers, WorkerStep(w)
      PROVE  [Retained!RetentionNext]_(Retained!retentionVars)
  <2>1. CASE Complete(w)
    <3>1. worker[w].job \in Jobs
      BY <1>0, <2>1, Finishing DEF Complete
    <3> QED
      BY <1>0, <2>1, <3>1, CompleteFinishes DEF Retained!RetentionNext
  <2> QED
    BY <1>0, <1>3, <2>1, Passing, SameJobs DEF WorkerStep
<1>4. CASE NextJob
  BY <1>0, <1>4, Passing
<1>5. ASSUME NEW c \in Clients, ClientStep(c) \/ Unanswered(c) \/ Expire(c)
      PROVE  UNCHANGED Retained!retentionVars
  BY <1>5, ClientsStutter
<1> QED
  BY <1>1, <1>2, <1>3, <1>4, <1>5 DEF Next, ServiceStep, QueueStep

\* Whatever the clients do, the service's queue accepts each job once, ends
\* each accepted job at most once, and remembers exactly the last of them, in
\* order.  That each ends is for TLC.
THEOREM QueueKeepsRetention ==
  Spec => /\ Retained!RetentionInit
          /\ [][Retained!RetentionNext]_(Retained!retentionVars)
BY InitRetention, StepKeepsRetention, IInvInvariant, IdleInvariant, PTL
DEF Spec

=============================================================================
