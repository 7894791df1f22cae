--------------------------- MODULE RemoteRun_proofs ---------------------------
(***************************************************************************)
(* Theorems about RemoteRun, for any number of clients, checks and workers *)
(* and any capacity of the service's queue.                                *)
(***************************************************************************)
EXTENDS RemoteRun, TLAPS, FiniteSetTheorems, SequenceTheorems

-----------------------------------------------------------------------------
(* The inductive invariant.                                                *)

\* No element of a list occurs twice.
Distinct(s) == \A i, k \in DOMAIN s : s[i] = s[k] => i = k

Channel == ToSet(channel)
Kept == ToSet(toDelete)
Dispatched == {j \in Jobs : dispatcher.pc = "send" /\ dispatcher.job = j}
Held(w) == {j \in Jobs : worker[w].pc # "select" /\ worker[w].job = j}

Accepted == {j \in Jobs : put[j] = "accepted"}

\* The types, and that a goroutine that is not waiting for a job has one.
QueueShape ==
    /\ QueueTypeOK
    /\ Len(toDelete) < capacity
    /\ dispatcher.pc = "send" => dispatcher.job \in Jobs
    /\ \A w \in Workers : worker[w].pc # "select" => worker[w].job \in Jobs

\* A job that has not completed is in one place at most, and has got there
\* through Put.
Single ==
    /\ Distinct(channel)
    /\ Channel \subseteq Taken /\ Dispatched \subseteq Taken
    /\ completed \subseteq Taken
    /\ Channel \cap Dispatched = {}
    /\ (Channel \cup Dispatched) \cap completed = {}
    /\ \A w \in Workers :
         /\ Held(w) \subseteq Taken
         /\ Held(w) \cap (Channel \cup Dispatched) = {}
         /\ worker[w].pc = "run" => Held(w) \cap completed = {}
         /\ worker[w].pc \in {"finished", "blocked"} => Held(w) \subseteq completed
         /\ \A v \in Workers : v # w => Held(v) \cap Held(w) = {}

\* A job that is remembered as finished is stored, one that is forgotten has
\* finished, and so have as many as the queue's capacity.
Stored ==
    /\ IsFiniteSet(storage) /\ IsFiniteSet(completed)
    /\ Distinct(toDelete) /\ Kept \subseteq storage \cap completed
    /\ \A w \in Workers : Held(w) \cap Kept = {}
    /\ \A j \in Accepted :
         j \in storage \/ (j \in completed /\ Cardinality(completed) >= capacity)

QueueOK == QueueShape /\ Single /\ Stored

\* The jobs that a client has yet to submit.
ToSubmit(c) ==
    LET first == IF client[c].pc = "submitting" THEN client[c].next + 1
                 ELSE client[c].next
    IN  {selection[c][i] : i \in first..Len(selection[c])}

AllPassed(c, n) == \A i \in 1..n : client[c].ids[i] \in passed

\* What a client knows, by where it is.
SubmitOK(c) ==
    /\ ~client[c].waited /\ client[c].verdict = "none"
    /\ ~client[c].failing /\ ~client[c].fetchErrs
    /\ client[c].next \in 1..(Len(selection[c]) + 1)
    /\ client[c].pc = "submitting" =>
         client[c].next <= Len(selection[c]) /\ Item(c) # Missing
    /\ \A j \in ToSubmit(c) : j # Missing => put[j] = "idle"
    /\ ~client[c].errs =>
         client[c].ids = SubSeq(selection[c], 1, client[c].next - 1)

WaitedOK(c) ==
    /\ client[c].ids = selection[c]
    /\ client[c].verdict = "none"
    /\ client[c].pc = "wait" =>
         ~client[c].waited /\ ~client[c].failing /\ ~client[c].fetchErrs
    /\ client[c].pc = "fetch" => client[c].next \in 1..(Len(selection[c]) + 1)
    /\ client[c].pc = "fetch" /\ ~client[c].failing /\ ~client[c].fetchErrs =>
         AllPassed(c, client[c].next - 1)
    /\ client[c].pc = "panicked" => Cardinality(completed) >= capacity

ReturnedOK(c) ==
    /\ client[c].verdict = "nil" =>
         client[c].ids = selection[c] /\ AllPassed(c, Len(selection[c]))
    /\ client[c].verdict = "error" /\ client[c].waited =>
         client[c].failing \/ client[c].outputFailed

ClientOK(c) ==
    /\ \A i \in 1..Len(client[c].ids) : client[c].ids[i] \in Accepted
    /\ client[c].waited => ToSet(client[c].ids) \subseteq completed
    /\ client[c].waited /\ client[c].failing =>
         \E i \in 1..Len(client[c].ids) : client[c].ids[i] \notin passed
    /\ client[c].pc \in {"submit", "submitting"} => SubmitOK(c)
    /\ client[c].pc \in {"wait", "fetch", "hung", "panicked"} => WaitedOK(c)
    /\ client[c].pc = "returned" => ReturnedOK(c)

ClientShape ==
    /\ selection \in Selections
    /\ expired \subseteq Clients
    /\ client \in [Clients -> ClientState]

IInv == QueueOK /\ ClientShape /\ \A c \in Clients : ClientOK(c)

-----------------------------------------------------------------------------
(* Lists without repetition.                                               *)

LEMMA Elements ==
    ASSUME NEW S, NEW s \in Seq(S)
    PROVE  /\ Len(s) \in Nat /\ DOMAIN s = 1..Len(s)
           /\ ToSet(s) = {s[i] : i \in 1..Len(s)} /\ ToSet(s) \subseteq S
BY LenProperties, ElementOfSeq DEF ToSet

LEMMA Appending ==
    ASSUME NEW S, NEW s \in Seq(S), NEW x \in S
    PROVE  /\ Append(s, x) \in Seq(S) /\ Len(Append(s, x)) = Len(s) + 1
           /\ ToSet(Append(s, x)) = ToSet(s) \cup {x}
           /\ Distinct(s) /\ x \notin ToSet(s) => Distinct(Append(s, x))
<1> DEFINE t == Append(s, x)
           n == Len(s)
<1>1. /\ t \in Seq(S) /\ Len(t) = n + 1 /\ t[n + 1] = x
      /\ \A i \in 1..n : t[i] = s[i]
  BY AppendProperties
<1>2. /\ n \in Nat /\ DOMAIN s = 1..n /\ DOMAIN t = 1..(n + 1)
      /\ ToSet(s) = {s[i] : i \in 1..n}
      /\ ToSet(t) = {t[i] : i \in 1..(n + 1)}
  BY <1>1, Elements
<1> HIDE DEF t, n
<1>3. 1..(n + 1) = 1..n \cup {n + 1}
  BY <1>2
<1>4. ToSet(t) = ToSet(s) \cup {x}
  BY <1>1, <1>2, <1>3
<1>5. ASSUME Distinct(s), x \notin ToSet(s) PROVE Distinct(t)
  BY <1>1, <1>2, <1>3, <1>5 DEF Distinct
<1> QED
  BY <1>1, <1>4, <1>5 DEF t, n

LEMMA Removing ==
    ASSUME NEW S, NEW s \in Seq(S), s # <<>>, Distinct(s)
    PROVE  /\ Head(s) \in ToSet(s) /\ Tail(s) \in Seq(S)
           /\ Len(Tail(s)) = Len(s) - 1 /\ Len(s) > 0
           /\ ToSet(Tail(s)) = ToSet(s) \ {Head(s)} /\ Distinct(Tail(s))
<1> DEFINE t == Tail(s)
           n == Len(s)
<1>1. /\ t \in Seq(S) /\ Len(t) = n - 1 /\ \A i \in 1..(n - 1) : t[i] = s[i + 1]
      /\ n \in Nat /\ n > 0
  BY HeadTailProperties, EmptySeq
<1>2. Head(s) = s[1]
  OBVIOUS
<1>3. /\ DOMAIN s = 1..n /\ DOMAIN t = 1..(n - 1)
      /\ ToSet(s) = {s[i] : i \in 1..n}
      /\ ToSet(t) = {t[i] : i \in 1..(n - 1)}
  BY <1>1, Elements
<1> HIDE DEF t, n
<1>4. Distinct(t)
  <2>1. ASSUME NEW i \in 1..(n - 1), NEW k \in 1..(n - 1), t[i] = t[k]
        PROVE  i = k
    <3>1. /\ s[i + 1] = s[k + 1] /\ i + 1 \in 1..n /\ k + 1 \in 1..n
          /\ i \in Int /\ k \in Int
      BY <1>1, <2>1
    <3>2. i + 1 = k + 1
      BY <1>3, <3>1 DEF Distinct
    <3> QED
      BY <3>1, <3>2
  <2> QED
    BY <1>3, <2>1 DEF Distinct
<1>5. ASSUME NEW x \in ToSet(s), x # s[1] PROVE x \in ToSet(t)
  <2>1. PICK i \in 1..n : x = s[i]
    BY <1>3
  <2>2. i - 1 \in 1..(n - 1) /\ (i - 1) + 1 = i
    BY <1>1, <1>5, <2>1
  <2>3. t[i - 1] = x
    BY <1>1, <2>1, <2>2
  <2> QED
    BY <1>3, <2>2, <2>3
<1>6. ASSUME NEW x \in ToSet(t) PROVE x \in ToSet(s) /\ x # s[1]
  <2>1. PICK i \in 1..(n - 1) : x = s[i + 1]
    BY <1>1, <1>3
  <2>2. i + 1 \in 1..n /\ i + 1 # 1 /\ 1 \in 1..n
    BY <1>1
  <2> QED
    BY <1>3, <2>1, <2>2 DEF Distinct
<1>7. ToSet(t) = ToSet(s) \ {s[1]}
  BY <1>5, <1>6
<1>8. s[1] \in ToSet(s)
  BY <1>1, <1>3
<1> QED
  BY <1>1, <1>2, <1>4, <1>7, <1>8 DEF t, n

LEMMA Length ==
    ASSUME NEW S, NEW s \in Seq(S), Distinct(s)
    PROVE  IsFiniteSet(ToSet(s)) /\ Cardinality(ToSet(s)) = Len(s)
<1>1. Len(s) \in Nat /\ s \in [1..Len(s) -> ToSet(s)]
  BY LenProperties, Elements DEF ToSet
<1>2. s \in Bijection(1..Len(s), ToSet(s))
  BY <1>1, Elements
     DEF Distinct, Bijection, Injection, Surjection, IsInjective
<1>3. ExistsBijection(1..Len(s), ToSet(s))
  BY <1>2 DEF ExistsBijection
<1> QED
  BY <1>1, <1>3, FS_CountingElements, FS_NatBijection

-----------------------------------------------------------------------------
(* The steps of the queue.                                                 *)

\* What a step of the queue never does to the clients: take a job that nobody
\* submitted, lose one it accepted, or change the outcome of a finished check.
Onwards ==
    /\ \A j \in Jobs : put[j] = "idle" => put'[j] = "idle"
    /\ Accepted \subseteq Accepted'
    /\ completed \subseteq completed' /\ passed \subseteq passed'
    /\ passed' \cap completed \subseteq passed
    /\ capacity' = capacity

LEMMA QueueInitOK == QueueInit => QueueOK
<1> SUFFICES ASSUME QueueInit PROVE QueueOK
  OBVIOUS
<1>1. /\ channel = <<>> /\ toDelete = <<>> /\ storage = {} /\ completed = {}
      /\ dispatcher = At("next", NoJob) /\ put = [j \in Jobs |-> "idle"]
      /\ worker = [w \in Workers |-> At("select", NoJob)]
      /\ capacity \in Capacities /\ capacity \in Nat /\ capacity > 0
      /\ mu = "free" /\ passed = {}
  BY LimitedAssumption DEF QueueInit, LimitedAssumption
<1>2. <<>> \in Seq(Jobs) /\ Len(<<>>) = 0 /\ ToSet(<<>>) = {} /\ Distinct(<<>>)
  BY EmptySeq DEF ToSet, Distinct
<1>3. Channel = {} /\ Kept = {} /\ Dispatched = {} /\ Accepted = {}
  BY <1>1, <1>2 DEF Channel, Kept, Dispatched, Accepted, At
<1>4. \A w \in Workers : worker[w] = At("select", NoJob) /\ Held(w) = {}
  BY <1>1 DEF Held, At
<1>5. QueueShape
  BY <1>1, <1>2, <1>4 DEF QueueShape, QueueTypeOK, PutStates, At
<1>6. Single
  BY <1>1, <1>2, <1>3, <1>4 DEF Single, At
<1>7. Stored
  BY <1>1, <1>2, <1>3, <1>4, FS_EmptySet DEF Stored
<1> QED
  BY <1>5, <1>6, <1>7 DEF QueueOK

\* The sets that the invariant is about do not change when the variables they
\* are made of do not.
LEMMA Frames ==
    /\ channel' = channel => Channel' = Channel
    /\ toDelete' = toDelete => Kept' = Kept
    /\ dispatcher' = dispatcher => Dispatched' = Dispatched
    /\ \A w : worker'[w] = worker[w] => Held(w)' = Held(w)
    /\ put' = put => Taken' = Taken /\ Accepted' = Accepted
BY DEF Channel, Kept, Dispatched, Held, Taken, Accepted

\* What a request that moves on changes.
LEMMA Answering ==
    ASSUME QueueShape, NEW j \in Jobs, NEW state \in PutStates, Answer(j, state)
    PROVE  /\ put' \in [Jobs -> PutStates] /\ put'[j] = state
           /\ \A i \in Jobs : i # j => put'[i] = put[i]
           /\ state \in {"store", "accepted"} => Taken' = Taken \cup {j}
           /\ j \notin Taken /\ state \notin {"store", "accepted"} => Taken' = Taken
           /\ state = "accepted" => Accepted' = Accepted \cup {j}
           /\ j \notin Accepted /\ state # "accepted" => Accepted' = Accepted
BY DEF QueueShape, QueueTypeOK, Answer, Taken, Accepted

LEMMA AnswerOnly ==
    ASSUME QueueOK, NEW j \in Jobs, NEW state \in PutStates, Answer(j, state),
           put[j] \notin {"store", "accepted"},
           state \notin {"store", "accepted"},
           capacity' = capacity, storage' = storage, channel' = channel,
           toDelete' = toDelete, mu' = mu, dispatcher' = dispatcher,
           worker' = worker, completed' = completed, passed' = passed
    PROVE  QueueOK' /\ (put[j] # "idle" => Onwards)
<1>1. /\ capacity' = capacity /\ storage' = storage /\ channel' = channel
      /\ toDelete' = toDelete /\ mu' = mu /\ dispatcher' = dispatcher
      /\ worker' = worker /\ completed' = completed /\ passed' = passed
  OBVIOUS
<1>2. QueueShape /\ Single /\ Stored
  BY DEF QueueOK
<1>3. j \notin Taken /\ j \notin Accepted
  BY DEF Taken, Accepted
<1>4. /\ put' \in [Jobs -> PutStates] /\ Taken' = Taken /\ Accepted' = Accepted
      /\ \A i \in Jobs : i # j => put'[i] = put[i]
  BY <1>2, <1>3, Answering
<1>5. /\ Channel' = Channel /\ Kept' = Kept /\ Dispatched' = Dispatched
      /\ \A w : Held(w)' = Held(w)
  BY <1>1, Frames
<1>6. QueueShape'
  BY <1>1, <1>2, <1>4 DEF QueueShape, QueueTypeOK
<1>7. Single'
  BY <1>1, <1>2, <1>4, <1>5 DEF Single
<1>8. Stored'
  BY <1>1, <1>2, <1>4, <1>5 DEF Stored
<1>9. put[j] # "idle" => Onwards
  BY <1>1, <1>4 DEF Onwards
<1> QED
  BY <1>6, <1>7, <1>8, <1>9 DEF QueueOK

LEMMA PutLookupOK ==
    ASSUME QueueOK, NEW j \in Jobs, PutLookup(j)
    PROVE  QueueOK' /\ Onwards
<1>1. put[j] = "lookup" /\ Answer(j, "send") /\ "send" \in PutStates
  BY DEF PutLookup, PutStates
<1> QED
  BY <1>1, AnswerOnly DEF PutLookup

LEMMA PutSendOK ==
    ASSUME QueueOK, NEW j \in Jobs, PutSend(j)
    PROVE  QueueOK' /\ Onwards
<1>1. /\ capacity' = capacity /\ storage' = storage /\ toDelete' = toDelete
      /\ mu' = mu /\ dispatcher' = dispatcher /\ worker' = worker
      /\ completed' = completed /\ passed' = passed /\ put[j] = "send"
  BY DEF PutSend
<1>2. QueueShape /\ Single /\ Stored
  BY DEF QueueOK
<1>3. CASE channel' = channel /\ Answer(j, "refused")
  <2>1. "refused" \in PutStates
    BY DEF PutStates
  <2> QED
    BY <1>1, <1>3, <2>1, AnswerOnly
<1>4. CASE /\ Len(channel) < capacity /\ channel' = Append(channel, j)
           /\ Answer(j, "store")
  <2>1. "store" \in PutStates
    BY DEF PutStates
  <2>2. j \notin Taken /\ j \notin Accepted
    BY <1>1 DEF Taken, Accepted
  <2>3. /\ put' \in [Jobs -> PutStates] /\ Accepted' = Accepted
        /\ Taken' = Taken \cup {j}
        /\ \A i \in Jobs : i # j => put'[i] = put[i]
    BY <1>2, <1>4, <2>1, <2>2, Answering
  <2>4. /\ Kept' = Kept /\ Dispatched' = Dispatched
        /\ \A w : Held(w)' = Held(w)
    BY <1>1, Frames
  <2>5. channel \in Seq(Jobs) /\ j \notin Channel
    BY <1>2, <2>2 DEF QueueShape, QueueTypeOK, Single
  <2>6. /\ channel' \in Seq(Jobs) /\ Len(channel') = Len(channel) + 1
        /\ Channel' = Channel \cup {j} /\ Distinct(channel')
    BY <1>2, <1>4, <2>5, Appending DEF Channel, Single
  <2>7. Len(channel') <= capacity
    BY <1>2, <1>4, <2>5, <2>6, Elements, LimitedAssumption
       DEF QueueShape, QueueTypeOK, LimitedAssumption
  <2>8. QueueShape'
    BY <1>1, <1>2, <2>3, <2>6, <2>7 DEF QueueShape, QueueTypeOK
  <2>9. Single'
    BY <1>1, <1>2, <2>2, <2>3, <2>4, <2>6 DEF Single
  <2>10. Stored'
    BY <1>1, <1>2, <2>3, <2>4 DEF Stored
  <2>11. Onwards
    BY <1>1, <2>3 DEF Onwards
  <2> QED
    BY <2>8, <2>9, <2>10, <2>11 DEF QueueOK
<1> QED
  BY <1>3, <1>4 DEF PutSend

LEMMA PutStoreOK ==
    ASSUME QueueOK, NEW j \in Jobs, PutStore(j)
    PROVE  QueueOK' /\ Onwards
<1>1. /\ capacity' = capacity /\ channel' = channel /\ toDelete' = toDelete
      /\ mu' = mu /\ dispatcher' = dispatcher /\ worker' = worker
      /\ completed' = completed /\ passed' = passed /\ put[j] = "store"
      /\ storage' = storage \cup {j} /\ Answer(j, "accepted")
  BY DEF PutStore
<1>2. QueueShape /\ Single /\ Stored
  BY DEF QueueOK
<1>3. "accepted" \in PutStates
  BY DEF PutStates
<1>4. j \in Taken
  BY <1>1 DEF Taken
<1>5. /\ put' \in [Jobs -> PutStates] /\ Accepted' = Accepted \cup {j}
      /\ Taken' = Taken /\ put'[j] = "accepted"
      /\ \A i \in Jobs : i # j => put'[i] = put[i]
  BY <1>1, <1>2, <1>3, <1>4, Answering
<1>6. /\ Channel' = Channel /\ Kept' = Kept /\ Dispatched' = Dispatched
      /\ \A w : Held(w)' = Held(w)
  BY <1>1, Frames
<1>7. QueueShape'
  BY <1>1, <1>2, <1>5 DEF QueueShape, QueueTypeOK
<1>8. Single'
  BY <1>1, <1>2, <1>5, <1>6 DEF Single
<1>9. IsFiniteSet(storage')
  BY <1>1, <1>2, FS_AddElement DEF Stored
<1>10. Stored'
  BY <1>1, <1>2, <1>5, <1>6, <1>9 DEF Stored
<1>11. Onwards
  BY <1>1, <1>5 DEF Onwards
<1> QED
  BY <1>7, <1>8, <1>10, <1>11 DEF QueueOK

LEMMA NextJobOK ==
    ASSUME QueueOK, NextJob
    PROVE  QueueOK' /\ Onwards
<1> DEFINE j == Head(channel)
<1>1. /\ capacity' = capacity /\ storage' = storage /\ toDelete' = toDelete
      /\ mu' = mu /\ put' = put /\ worker' = worker /\ completed' = completed
      /\ passed' = passed /\ dispatcher.pc = "next" /\ channel # <<>>
      /\ channel' = Tail(channel) /\ dispatcher' = At("send", j)
  BY DEF NextJob
<1>2. QueueShape /\ Single /\ Stored
  BY DEF QueueOK
<1>3. /\ channel \in Seq(Jobs) /\ Distinct(channel) /\ Len(channel) <= capacity
      /\ capacity \in Nat
  BY <1>2, LimitedAssumption
     DEF QueueShape, QueueTypeOK, Single, LimitedAssumption
<1>4. /\ j \in Channel /\ Channel' = Channel \ {j} /\ Distinct(channel')
      /\ channel' \in Seq(Jobs) /\ Len(channel') = Len(channel) - 1
      /\ Len(channel) \in Nat /\ Channel \subseteq Jobs
  BY <1>1, <1>3, Removing, Elements DEF Channel
<1>5. Len(channel') <= capacity
  BY <1>3, <1>4
<1> HIDE DEF j
<1>6. /\ Kept' = Kept /\ Taken' = Taken /\ Accepted' = Accepted
      /\ \A w : Held(w)' = Held(w)
  BY <1>1, Frames
<1>7. Dispatched = {} /\ Dispatched' = {j}
  BY <1>1, <1>4 DEF Dispatched, At
<1>8. QueueShape'
  BY <1>1, <1>2, <1>4, <1>5 DEF QueueShape, QueueTypeOK, At
<1>9. Single'
  BY <1>1, <1>2, <1>4, <1>6, <1>7 DEF Single
<1>10. Stored'
  BY <1>1, <1>2, <1>6 DEF Stored
<1>11. Onwards
  BY <1>1, <1>6 DEF Onwards
<1> QED
  BY <1>8, <1>9, <1>10, <1>11 DEF QueueOK

LEMMA DispatchOK ==
    ASSUME QueueOK, NEW w \in Workers, Dispatch(w)
    PROVE  QueueOK' /\ Onwards
<1> DEFINE j == dispatcher.job
<1>1. /\ capacity' = capacity /\ storage' = storage /\ channel' = channel
      /\ toDelete' = toDelete /\ mu' = mu /\ put' = put
      /\ completed' = completed /\ passed' = passed
      /\ dispatcher.pc = "send" /\ worker[w].pc = "select"
      /\ worker' = [worker EXCEPT ![w] = At("run", j)]
      /\ dispatcher' = At("next", NoJob)
  BY DEF Dispatch
<1>2. QueueShape /\ Single /\ Stored
  BY DEF QueueOK
<1>3. j \in Jobs
  BY <1>1, <1>2 DEF QueueShape
<1>4. /\ worker'[w] = At("run", j)
      /\ \A v \in Workers : v # w => worker'[v] = worker[v]
  BY <1>1, <1>2 DEF QueueShape, QueueTypeOK
<1>5. /\ Channel' = Channel /\ Kept' = Kept /\ Taken' = Taken
      /\ Accepted' = Accepted /\ \A v \in Workers : v # w => Held(v)' = Held(v)
  BY <1>1, <1>4, Frames
<1>6. Dispatched = {j} /\ Dispatched' = {}
  BY <1>1, <1>3 DEF Dispatched, At
<1>7. Held(w)' = {j}
  BY <1>3, <1>4 DEF Held, At
<1> HIDE DEF j
<1>8. QueueShape'
  BY <1>1, <1>2, <1>3, <1>4 DEF QueueShape, QueueTypeOK, At
<1>9. worker'[w].pc = "run"
  BY <1>4 DEF At
<1>10. j \in Taken /\ j \notin Channel /\ j \notin completed
       /\ \A v \in Workers : j \notin Held(v)
  BY <1>2, <1>6 DEF Single
<1>11. Single'
  <2>1. ASSUME NEW v \in Workers
        PROVE  /\ Held(v)' \subseteq Taken'
               /\ Held(v)' \cap (Channel' \cup Dispatched') = {}
               /\ worker'[v].pc = "run" => Held(v)' \cap completed' = {}
               /\ worker'[v].pc \in {"finished", "blocked"}
                    => Held(v)' \subseteq completed'
    BY <1>1, <1>2, <1>4, <1>5, <1>6, <1>7, <1>9, <1>10 DEF Single
  <2>2. ASSUME NEW v \in Workers, NEW u \in Workers, v # u
        PROVE  Held(v)' \cap Held(u)' = {}
    BY <1>2, <1>5, <1>7, <1>10, <2>2 DEF Single
  <2> QED
    BY <1>1, <1>2, <1>5, <1>6, <2>1, <2>2 DEF Single
<1>12. Stored'
  BY <1>1, <1>2, <1>5, <1>7, <1>10 DEF Stored
<1>13. Onwards
  BY <1>1, <1>5 DEF Onwards
<1> QED
  BY <1>8, <1>11, <1>12, <1>13 DEF QueueOK

LEMMA SetStateOK ==
    ASSUME QueueOK, NEW w \in Workers, SetState(w)
    PROVE  QueueOK' /\ Onwards
<1> DEFINE j == worker[w].job
<1>1. /\ capacity' = capacity /\ storage' = storage /\ channel' = channel
      /\ toDelete' = toDelete /\ mu' = mu /\ put' = put
      /\ dispatcher' = dispatcher /\ worker' = worker /\ worker[w].pc = "run"
      /\ completed' = completed /\ passed' = passed \cup {j}
  BY DEF SetState
<1>2. QueueShape /\ Single /\ Stored
  BY DEF QueueOK
<1>3. j \in Jobs
  BY <1>1, <1>2 DEF QueueShape
<1>4. j \notin completed
  BY <1>1, <1>2, <1>3 DEF Single, Held
<1> HIDE DEF j
<1>5. /\ Channel' = Channel /\ Kept' = Kept /\ Taken' = Taken
      /\ Accepted' = Accepted /\ Dispatched' = Dispatched
      /\ \A v : Held(v)' = Held(v)
  BY <1>1, Frames
<1>6. QueueShape'
  BY <1>1, <1>2, <1>3 DEF QueueShape, QueueTypeOK
<1>7. Single' /\ Stored'
  BY <1>1, <1>2, <1>5 DEF Single, Stored
<1>8. Onwards
  BY <1>1, <1>4, <1>5 DEF Onwards
<1> QED
  BY <1>6, <1>7, <1>8 DEF QueueOK

LEMMA MarkCompleteOK ==
    ASSUME QueueOK, NEW w \in Workers, MarkComplete(w)
    PROVE  QueueOK' /\ Onwards
<1> DEFINE j == worker[w].job
<1>1. /\ capacity' = capacity /\ storage' = storage /\ channel' = channel
      /\ toDelete' = toDelete /\ mu' = mu /\ put' = put
      /\ dispatcher' = dispatcher /\ worker[w].pc = "run"
      /\ completed' = completed \cup {j} /\ passed' = passed
      /\ worker' = [worker EXCEPT ![w].pc = "finished"]
  BY DEF MarkComplete
<1>2. QueueShape /\ Single /\ Stored
  BY DEF QueueOK
<1>3. j \in Jobs
  BY <1>1, <1>2 DEF QueueShape
<1>4. /\ worker'[w] = At("finished", j)
      /\ \A v \in Workers : v # w => worker'[v] = worker[v]
      /\ worker' \in [Workers -> [pc : {"select", "run", "finished", "blocked"},
                                  job : Jobs \cup {NoJob}]]
  BY <1>1, <1>2, <1>3 DEF QueueShape, QueueTypeOK, At
<1>5. /\ Channel' = Channel /\ Kept' = Kept /\ Taken' = Taken
      /\ Accepted' = Accepted /\ Dispatched' = Dispatched
  BY <1>1, Frames
<1>6. Held(w) = {j} /\ Held(w)' = {j}
  BY <1>1, <1>3, <1>4 DEF Held, At
<1>7. \A v \in Workers : Held(v)' = Held(v)
  BY <1>4, <1>6, Frames
<1>8. worker'[w].pc = "finished" /\ worker'[w].job = j
  BY <1>4 DEF At
<1> HIDE DEF j
<1>9. /\ j \notin completed /\ j \in Taken /\ j \notin Channel
      /\ j \notin Dispatched /\ \A v \in Workers : v # w => j \notin Held(v)
  BY <1>1, <1>2, <1>6 DEF Single
<1>10. passed \subseteq Jobs /\ completed \subseteq Jobs
  BY <1>2 DEF QueueShape, QueueTypeOK
<1>11. QueueShape'
  BY <1>1, <1>2, <1>3, <1>4, <1>8, <1>10 DEF QueueShape, QueueTypeOK
<1>12. Single'
  <2>1. ASSUME NEW v \in Workers
        PROVE  /\ worker'[v].pc = "run" => Held(v)' \cap completed' = {}
               /\ worker'[v].pc \in {"finished", "blocked"}
                    => Held(v)' \subseteq completed'
    <3>1. CASE v = w
      BY <1>1, <1>6, <1>8, <3>1
    <3>2. CASE v # w
      BY <1>1, <1>2, <1>4, <1>7, <1>9, <3>2 DEF Single
    <3> QED
      BY <3>1, <3>2
  <2> QED
    BY <1>1, <1>2, <1>5, <1>7, <1>9, <2>1 DEF Single
<1>13. IsFiniteSet(completed') /\ Cardinality(completed') >= Cardinality(completed)
  <2>1. IsFiniteSet(completed)
    BY <1>2 DEF Stored
  <2>2. /\ IsFiniteSet(completed')
        /\ Cardinality(completed') = Cardinality(completed) + 1
    BY <1>1, <1>9, <2>1, FS_AddElement
  <2> QED
    BY <2>1, <2>2, FS_CardinalityType
<1>14. Stored'
  <2>1. capacity \in Nat /\ Cardinality(completed) \in Nat
        /\ Cardinality(completed') \in Nat
    BY <1>2, <1>13, FS_CardinalityType, LimitedAssumption
       DEF QueueShape, QueueTypeOK, Stored, LimitedAssumption
  <2>2. capacity' <= Cardinality(completed') \/ Cardinality(completed) < capacity
    BY <1>1, <1>13, <2>1
  <2>3. ASSUME NEW i \in Accepted'
        PROVE  i \in storage' \/ (i \in completed'
                                   /\ Cardinality(completed') >= capacity')
    BY <1>1, <1>2, <1>5, <2>1, <2>2 DEF Stored
  <2> QED
    BY <1>1, <1>2, <1>5, <1>7, <1>13, <2>3 DEF Stored
<1>15. Onwards
  BY <1>1, <1>5, <1>9 DEF Onwards
<1> QED
  BY <1>11, <1>12, <1>14, <1>15 DEF QueueOK

\* A worker that finishes: the job it completes, and how its place is left.
LEMMA Finishing ==
    ASSUME QueueOK, NEW w \in Workers, worker[w].pc = "finished"
    PROVE  /\ worker[w].job \in Jobs /\ Held(w) = {worker[w].job}
           /\ worker[w].job \in completed /\ worker[w].job \notin Kept
           /\ capacity \in Nat /\ toDelete \in Seq(Jobs)
           /\ Len(toDelete) \in Nat /\ Len(toDelete) < capacity
           /\ Kept \subseteq Jobs /\ Distinct(toDelete)
<1>1. QueueShape /\ Single /\ Stored
  BY DEF QueueOK
<1>2. worker[w].job \in Jobs
  BY <1>1 DEF QueueShape
<1>3. Held(w) = {worker[w].job}
  BY <1>2 DEF Held
<1>4. worker[w].job \in completed /\ worker[w].job \notin Kept
  BY <1>1, <1>3 DEF Single, Stored
<1>5. capacity \in Nat /\ toDelete \in Seq(Jobs) /\ Len(toDelete) < capacity
  BY <1>1, LimitedAssumption DEF QueueShape, QueueTypeOK, LimitedAssumption
<1>6. Len(toDelete) \in Nat /\ Kept \subseteq Jobs
  BY <1>5, Elements DEF Kept
<1> QED
  BY <1>1, <1>2, <1>3, <1>4, <1>5, <1>6 DEF Stored

\* When Complete forgets a job, as many have finished as the queue holds.
LEMMA Forgetting ==
    ASSUME QueueOK, NEW w \in Workers, worker[w].pc = "finished",
           Len(toDelete) = capacity - 1
    PROVE  Cardinality(completed) >= capacity
<1> DEFINE j == worker[w].job
<1>1. /\ j \in completed /\ j \notin Kept /\ capacity \in Nat
      /\ toDelete \in Seq(Jobs) /\ Distinct(toDelete)
  BY Finishing
<1>2. IsFiniteSet(completed) /\ Kept \subseteq completed
  BY DEF QueueOK, Stored
<1>3. IsFiniteSet(Kept) /\ Cardinality(Kept) = capacity - 1
  BY <1>1, Length DEF Kept
<1> HIDE DEF j
<1>4. /\ IsFiniteSet(Kept \cup {j})
      /\ Cardinality(Kept \cup {j}) = (capacity - 1) + 1
  BY <1>1, <1>3, FS_AddElement
<1>5. Kept \cup {j} \in SUBSET completed
  BY <1>1, <1>2
<1>6. Cardinality(Kept \cup {j}) <= Cardinality(completed)
  BY <1>2, <1>5, FS_Subset
<1>7. Cardinality(completed) \in Nat
  BY <1>2, FS_CardinalityType
<1> QED
  BY <1>1, <1>4, <1>6, <1>7

LEMMA CompleteOK ==
    ASSUME QueueOK, NEW w \in Workers, Complete(w)
    PROVE  QueueOK' /\ Onwards
<1> DEFINE j == worker[w].job
           full == Len(toDelete) = capacity - 1
           old == IF full THEN {Head(toDelete)} ELSE {}
           rest == IF full THEN Tail(toDelete) ELSE toDelete
<1>1. /\ capacity' = capacity /\ channel' = channel /\ put' = put
      /\ dispatcher' = dispatcher /\ completed' = completed
      /\ passed' = passed /\ mu' = mu
      /\ worker[w].pc = "finished" /\ (full => toDelete # <<>>)
      /\ storage' = (storage \cup {j}) \ old
      /\ toDelete' = Append(rest, j)
      /\ worker' = [worker EXCEPT ![w] = At("select", NoJob)]
  BY DEF Complete, CompleteFrame
<1>2. QueueShape /\ Single /\ Stored
  BY DEF QueueOK
<1>3. /\ j \in Jobs /\ Held(w) = {j} /\ j \in completed /\ j \notin Kept
      /\ capacity \in Nat /\ toDelete \in Seq(Jobs)
      /\ Len(toDelete) \in Nat /\ Len(toDelete) < capacity
      /\ Kept \subseteq Jobs /\ Distinct(toDelete)
  BY <1>1, Finishing
<1>4. /\ rest \in Seq(Jobs) /\ Distinct(rest) /\ ToSet(rest) = Kept \ old
      /\ old \subseteq Kept /\ Len(rest) + 1 < capacity
  <2>1. CASE full
    <3>1. toDelete # <<>> /\ rest = Tail(toDelete) /\ old = {Head(toDelete)}
      BY <1>1, <2>1
    <3>2. /\ Head(toDelete) \in Kept /\ Tail(toDelete) \in Seq(Jobs)
          /\ Len(Tail(toDelete)) = Len(toDelete) - 1 /\ Len(toDelete) > 0
          /\ ToSet(Tail(toDelete)) = Kept \ {Head(toDelete)}
          /\ Distinct(Tail(toDelete))
      BY <1>3, <3>1, Removing DEF Kept
    <3> HIDE DEF rest, old
    <3> QED
      BY <1>3, <3>1, <3>2
  <2>2. CASE ~full
    <3>1. rest = toDelete /\ old = {}
      BY <2>2
    <3>2. Len(toDelete) + 1 < capacity
      BY <1>3, <2>2
    <3> HIDE DEF rest, old
    <3> QED
      BY <1>3, <3>1, <3>2 DEF Kept
  <2> QED
    BY <2>1, <2>2
<1>5. Cardinality(completed) >= capacity \/ old = {}
  BY <1>1, Forgetting
<1>6. IsFiniteSet(storage')
  <2>1. IsFiniteSet(storage \cup {j})
    BY <1>2, FS_AddElement DEF Stored
  <2> QED
    BY <1>1, <2>1, FS_RemoveElement
<1>7. storage \cup {j} \subseteq Jobs
  BY <1>2, <1>3 DEF QueueShape, QueueTypeOK
<1> HIDE DEF j, full, old, rest
<1>8. /\ toDelete' \in Seq(Jobs) /\ Len(toDelete') = Len(rest) + 1
      /\ Kept' = (Kept \ old) \cup {j} /\ Distinct(toDelete')
  BY <1>1, <1>3, <1>4, Appending DEF Kept
<1>9. /\ Channel' = Channel /\ Dispatched' = Dispatched /\ Taken' = Taken
      /\ Accepted' = Accepted
  BY <1>1, Frames
<1>10. /\ worker'[w] = At("select", NoJob)
       /\ \A v \in Workers : v # w => worker'[v] = worker[v]
       /\ worker' \in [Workers -> [pc : {"select", "run", "finished", "blocked"},
                                   job : Jobs \cup {NoJob}]]
  BY <1>1, <1>2 DEF QueueShape, QueueTypeOK, At
<1>11. Held(w)' = {} /\ worker'[w].pc = "select"
  BY <1>10 DEF Held, At
<1>12. \A v \in Workers : v # w => Held(v)' = Held(v)
  BY <1>10, Frames
<1>13. QueueShape'
  BY <1>1, <1>2, <1>3, <1>4, <1>7, <1>8, <1>10, <1>11 DEF QueueShape, QueueTypeOK
<1>14. Single'
  <2>1. ASSUME NEW v \in Workers
        PROVE  /\ Held(v)' \subseteq Held(v)
               /\ worker'[v].pc = "run" => Held(v)' \cap completed' = {}
               /\ worker'[v].pc \in {"finished", "blocked"}
                    => Held(v)' \subseteq completed'
    BY <1>1, <1>2, <1>10, <1>11, <1>12 DEF Single
  <2> QED
    BY <1>1, <1>2, <1>9, <2>1 DEF Single
<1>15. Stored'
  <2>1. \A v \in Workers : Held(v)' \cap Kept' = {}
    BY <1>2, <1>3, <1>8, <1>11, <1>12 DEF Single, Stored
  <2>2. Kept' \subseteq storage' \cap completed'
    BY <1>1, <1>2, <1>3, <1>4, <1>8 DEF Stored
  <2>3. ASSUME NEW i \in Accepted'
        PROVE  i \in storage' \/ (i \in completed'
                                   /\ Cardinality(completed') >= capacity')
    <3>1. CASE i \in old
      BY <1>1, <1>2, <1>4, <1>5, <3>1 DEF Stored
    <3>2. CASE i \notin old
      BY <1>1, <1>2, <1>9, <3>2 DEF Stored
    <3> QED
      BY <3>1, <3>2
  <2> QED
    BY <1>1, <1>2, <1>6, <1>8, <2>1, <2>2, <2>3 DEF Stored
<1>16. Onwards
  BY <1>1, <1>9 DEF Onwards
<1> QED
  BY <1>13, <1>14, <1>15, <1>16 DEF QueueOK

LEMMA CompleteBlocksOK ==
    ASSUME QueueOK, NEW w \in Workers, CompleteBlocks(w)
    PROVE  QueueOK' /\ Onwards
<1> DEFINE j == worker[w].job
<1>1. /\ capacity' = capacity /\ channel' = channel /\ put' = put
      /\ dispatcher' = dispatcher /\ completed' = completed
      /\ passed' = passed /\ mu' = "held" /\ toDelete' = toDelete
      /\ worker[w].pc = "finished" /\ storage' = storage \cup {j}
      /\ worker' = [worker EXCEPT ![w].pc = "blocked"]
  BY DEF CompleteBlocks, CompleteFrame
<1>2. QueueShape /\ Single /\ Stored
  BY DEF QueueOK
<1>3. j \in Jobs /\ Held(w) = {j} /\ j \in completed
  BY <1>1, Finishing
<1>4. /\ worker'[w] = At("blocked", j)
      /\ \A v \in Workers : v # w => worker'[v] = worker[v]
      /\ worker' \in [Workers -> [pc : {"select", "run", "finished", "blocked"},
                                  job : Jobs \cup {NoJob}]]
  BY <1>1, <1>2, <1>3 DEF QueueShape, QueueTypeOK, At
<1>5. /\ Channel' = Channel /\ Kept' = Kept /\ Taken' = Taken
      /\ Accepted' = Accepted /\ Dispatched' = Dispatched
  BY <1>1, Frames
<1>6. /\ Held(w)' = {j} /\ worker'[w].pc = "blocked" /\ worker'[w].job = j
  BY <1>3, <1>4 DEF Held, At
<1>7. \A v \in Workers : Held(v)' = Held(v)
  BY <1>3, <1>4, <1>6, Frames
<1>8. IsFiniteSet(storage')
  BY <1>1, <1>2, FS_AddElement DEF Stored
<1> HIDE DEF j
<1>9. QueueShape'
  BY <1>1, <1>2, <1>3, <1>4, <1>6 DEF QueueShape, QueueTypeOK
<1>10. Single'
  <2>1. ASSUME NEW v \in Workers
        PROVE  /\ worker'[v].pc = "run" => Held(v)' \cap completed' = {}
               /\ worker'[v].pc \in {"finished", "blocked"}
                    => Held(v)' \subseteq completed'
    BY <1>1, <1>2, <1>3, <1>4, <1>6, <1>7 DEF Single
  <2> QED
    BY <1>1, <1>2, <1>5, <1>7, <2>1 DEF Single
<1>11. Stored'
  BY <1>1, <1>2, <1>5, <1>7, <1>8 DEF Stored
<1>12. Onwards
  BY <1>1, <1>5 DEF Onwards
<1> QED
  BY <1>9, <1>10, <1>11, <1>12 DEF QueueOK

LEMMA QueueStepOK ==
    ASSUME QueueOK, QueueStep
    PROVE  QueueOK' /\ Onwards
BY PutLookupOK, PutSendOK, PutStoreOK, NextJobOK, DispatchOK, SetStateOK,
   MarkCompleteOK, CompleteOK, CompleteBlocksOK DEF QueueStep, PutStep, WorkerStep

-----------------------------------------------------------------------------
(* The clients and the queue.                                              *)

\* When no more jobs are stored than are remembered as finished, every job that
\* was accepted has finished: those that are stored are those remembered.
LEMMA CompleteMeansDone ==
    ASSUME QueueOK, IsComplete
    PROVE  Accepted \subseteq completed
<1>1. QueueShape /\ Stored
  BY DEF QueueOK
<1>2. /\ IsFiniteSet(storage) /\ Kept \in SUBSET storage
      /\ Cardinality(Kept) = Len(toDelete)
  BY <1>1, Length DEF QueueShape, QueueTypeOK, Stored, Kept
<1>3. Cardinality(storage) = Cardinality(Kept)
  <2>1. Cardinality(Kept) <= Cardinality(storage) /\ IsFiniteSet(Kept)
    BY <1>2, FS_Subset
  <2> QED
    BY <1>2, <2>1, FS_CardinalityType DEF IsComplete
<1>4. storage = Kept
  BY <1>2, <1>3, FS_Subset
<1> QED
  BY <1>1, <1>4 DEF Stored

\* The types of what a client works with.
LEMMA ClientTypes ==
    ASSUME ClientShape, NEW c \in Clients
    PROVE  /\ client[c] \in ClientState
           /\ client[c].ids \in Seq(Jobs) /\ Len(client[c].ids) \in Nat
           /\ DOMAIN client[c].ids = 1..Len(client[c].ids)
           /\ selection[c] \in Seq(Jobs \cup {Missing})
           /\ Len(selection[c]) \in Nat
           /\ DOMAIN selection[c] = 1..Len(selection[c])
           /\ \A i \in 1..Len(selection[c]) : selection[c][i] \in Jobs \cup {Missing}
<1>1. client[c] \in ClientState /\ client[c].ids \in Seq(Jobs)
      /\ client[c].next \in Nat
  BY DEF ClientShape, ClientState
<1>2. selection[c] \in Seq(Jobs \cup {Missing})
  BY RemoteAssumption DEF ClientShape, RemoteAssumption
<1>3. \A i \in 1..Len(selection[c]) : selection[c][i] \in Jobs \cup {Missing}
  BY <1>2, ElementOfSeq
<1>4. /\ Len(client[c].ids) \in Nat
      /\ DOMAIN client[c].ids = 1..Len(client[c].ids)
      /\ Len(selection[c]) \in Nat
      /\ DOMAIN selection[c] = 1..Len(selection[c])
  BY <1>1, <1>2, LenProperties
<1> QED
  BY <1>1, <1>2, <1>3, <1>4

LEMMA ToSubmitAreJobs ==
    ASSUME ClientShape, NEW c \in Clients, SubmitOK(c)
    PROVE  \A j \in ToSubmit(c) : j # Missing => j \in Jobs
<1>1. /\ client[c].next \in 1..(Len(selection[c]) + 1)
      /\ Len(selection[c]) \in Nat
      /\ \A i \in 1..Len(selection[c]) : selection[c][i] \in Jobs \cup {Missing}
  BY ClientTypes DEF SubmitOK
<1>2. ASSUME NEW i \in client[c].next..Len(selection[c])
      PROVE  i \in 1..Len(selection[c])
  BY <1>1
<1>3. ASSUME NEW i \in (client[c].next + 1)..Len(selection[c])
      PROVE  i \in 1..Len(selection[c])
  BY <1>1
<1> QED
  BY <1>1, <1>2, <1>3 DEF ToSubmit

\* What the rest of the system leaves to a client: the jobs it has yet to submit
\* stay new, and the world only moves on.
Spares(c) ==
    /\ client[c].pc \in {"submit", "submitting"} =>
         \A j \in ToSubmit(c) \cap Jobs : put[j] = "idle" => put'[j] = "idle"
    /\ Accepted \subseteq Accepted'
    /\ completed \subseteq completed' /\ passed \subseteq passed'
    /\ passed' \cap completed \subseteq passed
    /\ capacity' = capacity

\* More checks have completed when more of them have.
LEMMA MoreCompleted ==
    ASSUME QueueOK, QueueOK', completed \subseteq completed',
           capacity' = capacity, Cardinality(completed) >= capacity
    PROVE  Cardinality(completed') >= capacity'
<1>1. IsFiniteSet(completed) /\ IsFiniteSet(completed') /\ capacity \in Nat
  BY LimitedAssumption
     DEF QueueOK, Stored, QueueShape, QueueTypeOK, LimitedAssumption
<1>2. Cardinality(completed) <= Cardinality(completed')
  BY <1>1, FS_Subset
<1> QED
  BY <1>1, <1>2, FS_CardinalityType

LEMMA OtherClient ==
    ASSUME QueueOK, QueueOK', ClientShape, NEW c \in Clients, ClientOK(c),
           client'[c] = client[c], selection' = selection, Spares(c)
    PROVE  ClientOK(c)'
<1>1. ToSubmit(c)' = ToSubmit(c) /\ Item(c)' = Item(c)
  BY DEF ToSubmit, Item
<1>2. \A i \in 1..Len(client[c].ids) : client[c].ids[i] \in Accepted
  BY DEF ClientOK
<1>3. \A n \in Nat : AllPassed(c, n) => AllPassed(c, n)'
  BY DEF AllPassed, Spares
<1>4. ASSUME SubmitOK(c), client[c].pc \in {"submit", "submitting"}
      PROVE  SubmitOK(c)'
  <2>1. \A j \in ToSubmit(c)' : j # Missing => put'[j] = "idle"
    BY <1>1, <1>4, ToSubmitAreJobs DEF SubmitOK, Spares
  <2> QED
    BY <1>1, <1>4, <2>1 DEF SubmitOK
<1>5. ASSUME WaitedOK(c), client[c].pc # "fetch" PROVE WaitedOK(c)'
  BY <1>5, MoreCompleted DEF WaitedOK, Spares
<1>6. ASSUME WaitedOK(c), client[c].pc = "fetch" PROVE WaitedOK(c)'
  <2>1. client[c].next - 1 \in Nat
    BY <1>6, ClientTypes DEF WaitedOK
  <2> QED
    BY <1>3, <1>6, <2>1 DEF WaitedOK
<1>7. ASSUME ReturnedOK(c) PROVE ReturnedOK(c)'
  BY <1>3, <1>7, ClientTypes DEF ReturnedOK
<1>8. client[c].waited => ToSet(client[c].ids) \subseteq completed'
  BY DEF ClientOK, Spares
<1>9. ASSUME client[c].waited, client[c].failing
      PROVE  \E i \in 1..Len(client[c].ids) : client[c].ids[i] \notin passed'
  <2>1. PICK i \in 1..Len(client[c].ids) : client[c].ids[i] \notin passed
    BY <1>9 DEF ClientOK
  <2>2. client[c].ids[i] \in completed
    BY <1>9, <2>1, ClientTypes DEF ClientOK, ToSet
  <2> QED
    BY <2>1, <2>2 DEF Spares
<1>10. \A i \in 1..Len(client[c].ids) : client[c].ids[i] \in Accepted'
  BY <1>2 DEF Spares
<1> QED
  BY <1>4, <1>5, <1>6, <1>7, <1>8, <1>9, <1>10 DEF ClientOK

LEMMA QueueUnchanged ==
    ASSUME QueueOK, UNCHANGED queueVars
    PROVE  QueueOK' /\ Onwards /\ Accepted' = Accepted
<1>1. /\ capacity' = capacity /\ storage' = storage /\ channel' = channel
      /\ toDelete' = toDelete /\ mu' = mu /\ put' = put
      /\ dispatcher' = dispatcher /\ worker' = worker
      /\ completed' = completed /\ passed' = passed
  BY DEF queueVars
<1>2. QueueShape /\ Single /\ Stored
  BY DEF QueueOK
<1>3. /\ Channel' = Channel /\ Kept' = Kept /\ Dispatched' = Dispatched
      /\ Taken' = Taken /\ Accepted' = Accepted
      /\ \A w : Held(w)' = Held(w)
  BY <1>1, Frames
<1>4. QueueShape'
  BY <1>1, <1>2 DEF QueueShape, QueueTypeOK
<1>5. Single'
  BY <1>1, <1>2, <1>3 DEF Single
<1>6. Stored'
  BY <1>1, <1>2, <1>3 DEF Stored
<1>7. Onwards
  BY <1>1, <1>3 DEF Onwards
<1> QED
  BY <1>3, <1>4, <1>5, <1>6, <1>7 DEF QueueOK

\* A step of the queue alone, or no step.
LEMMA QueueAlone ==
    ASSUME IInv, QueueOK', Onwards, selection' = selection,
           client' = client, expired' \subseteq Clients
    PROVE  IInv'
<1>1. ClientShape'
  BY DEF IInv, ClientShape
<1>2. ASSUME NEW c \in Clients PROVE ClientOK(c)'
  <2>1. Spares(c)
    BY DEF Spares, Onwards
  <2> QED
    BY <2>1, OtherClient DEF IInv
<1> QED
  BY <1>1, <1>2 DEF IInv

\* A step of one client.
LEMMA OneClient ==
    ASSUME IInv, QueueOK', NEW c \in Clients, NEW s \in ClientState,
           client' = [client EXCEPT ![c] = s], selection' = selection,
           expired' = expired, \A d \in Clients : d # c => Spares(d),
           ClientOK(c)'
    PROVE  IInv'
<1>1. ClientShape'
  BY DEF IInv, ClientShape
<1>2. ASSUME NEW d \in Clients, d # c PROVE ClientOK(d)'
  <2>1. client'[d] = client[d]
    BY <1>2 DEF IInv, ClientShape
  <2> QED
    BY <1>2, <2>1, OtherClient DEF IInv
<1> QED
  BY <1>1, <1>2 DEF IInv

-----------------------------------------------------------------------------
(* The steps of a client.                                                  *)

LEMMA ClientAlone ==
    ASSUME IInv, NEW c \in Clients, NEW s \in ClientState,
           client' = [client EXCEPT ![c] = s], ClientOnly, ClientOK(c)'
    PROVE  IInv'
<1>1. selection' = selection /\ expired' = expired /\ UNCHANGED queueVars
  BY DEF ClientOnly
<1>2. QueueOK' /\ Onwards
  BY <1>1, QueueUnchanged DEF IInv
<1>3. \A d \in Clients : Spares(d)
  BY <1>2 DEF Spares, Onwards
<1> QED
  BY <1>1, <1>2, <1>3, OneClient

\* What holds when a client steps, and what its step alone leaves as it is.
LEMMA Here ==
    ASSUME IInv, NEW c \in Clients
    PROVE  QueueOK /\ ClientShape /\ ClientOK(c) /\ client[c] \in ClientState
BY ClientTypes DEF IInv

LEMMA Same ==
    ASSUME IInv, ClientOnly
    PROVE  /\ selection' = selection /\ put' = put /\ completed' = completed
           /\ passed' = passed /\ capacity' = capacity /\ Accepted' = Accepted
           /\ storage' = storage
BY Frames DEF ClientOnly, queueVars

\* A client that goes on with its stream after an error.
LEMMA GoesOn ==
    ASSUME IInv, NEW c \in Clients, client[c].pc \in {"submit", "submitting"},
           client[c].next <= Len(selection[c]), ClientOnly,
           client' = [client EXCEPT ![c].pc = "submit", ![c].next = @ + 1,
                                    ![c].errs = TRUE]
    PROVE  IInv'
<1> DEFINE s == [client[c] EXCEPT !.pc = "submit", !.next = @ + 1, !.errs = TRUE]
<1>1. QueueOK /\ ClientShape /\ ClientOK(c) /\ client[c] \in ClientState
  BY Here
<1>2. SubmitOK(c)
  BY <1>1 DEF ClientOK
<1>3. /\ client' = [client EXCEPT ![c] = s] /\ client'[c] = s
  BY <1>1 DEF ClientShape
<1>4. s \in ClientState /\ s.pc = "submit" /\ s.next = client[c].next + 1
      /\ s.errs = TRUE /\ s.ids = client[c].ids /\ s.waited = client[c].waited
      /\ s.failing = client[c].failing /\ s.fetchErrs = client[c].fetchErrs
      /\ s.verdict = client[c].verdict
  <2>1. client[c].next + 1 \in Nat /\ "submit" \in ClientPcs
    BY <1>1 DEF ClientState, ClientPcs
  <2>2. s \in ClientState
    BY <1>1, <2>1 DEF ClientState
  <2> QED
    BY <1>1, <2>2 DEF ClientState
<1> HIDE DEF s
<1>5. /\ selection' = selection /\ put' = put /\ completed' = completed
      /\ passed' = passed /\ Accepted' = Accepted
  BY Same
<1>6. Len(selection[c]) \in Nat /\ client[c].next \in 1..(Len(selection[c]) + 1)
  BY <1>1, <1>2, ClientTypes DEF SubmitOK
<1>7. ToSubmit(c)' \subseteq ToSubmit(c)
  BY <1>3, <1>4, <1>5, <1>6 DEF ToSubmit
<1>8. client'[c].next \in 1..(Len(selection[c]) + 1)
  BY <1>3, <1>4, <1>6
<1>9. SubmitOK(c)'
  BY <1>2, <1>3, <1>4, <1>5, <1>7, <1>8 DEF SubmitOK
<1>10. ClientOK(c)'
  BY <1>1, <1>2, <1>3, <1>4, <1>5, <1>9 DEF ClientOK, SubmitOK
<1> QED
  BY <1>3, <1>4, <1>10, ClientAlone

LEMMA SubmitErrorOK ==
    ASSUME IInv, NEW c \in Clients, SubmitError(c)
    PROVE  IInv'
<1>1. /\ client[c].pc = "submit" /\ client[c].next <= Len(selection[c])
      /\ ClientOnly
      /\ client' = [client EXCEPT ![c].next = @ + 1, ![c].errs = TRUE]
  BY DEF SubmitError, Submitting
<1>2. client' = [client EXCEPT ![c].pc = "submit", ![c].next = @ + 1,
                               ![c].errs = TRUE]
  BY <1>1 DEF IInv, ClientShape, ClientState
<1> QED
  BY <1>1, <1>2, GoesOn

LEMMA SubmitRefusedOK ==
    ASSUME IInv, NEW c \in Clients, SubmitRefused(c)
    PROVE  IInv'
<1>1. client[c].pc = "submitting" => client[c].next <= Len(selection[c])
  BY Here DEF ClientOK, SubmitOK
<1> QED
  BY <1>1, GoesOn DEF SubmitRefused

LEMMA SubmitUnansweredOK ==
    ASSUME IInv, NEW c \in Clients, SubmitUnanswered(c)
    PROVE  IInv'
<1>1. client[c].pc = "submitting" => client[c].next <= Len(selection[c])
  BY Here DEF ClientOK, SubmitOK
<1> QED
  BY <1>1, GoesOn DEF SubmitUnanswered, Submitting

\* A job is submitted once: the one that is sent is in nobody's stream again.
LEMMA SubmitOnce ==
    ASSUME ClientShape, NEW c \in Clients, NEW d \in Clients,
           client[c].next \in 1..Len(selection[c]), Item(c) # Missing,
           NEW i \in 1..Len(selection[d]), selection[d][i] = Item(c)
    PROVE  c = d /\ i = client[c].next
BY RemoteAssumption DEF RemoteAssumption, ClientShape, Item

LEMMA SubmitStepOK ==
    ASSUME IInv, NEW c \in Clients, Submit(c)
    PROVE  IInv'
<1> DEFINE s == [client[c] EXCEPT !.pc = "submitting"]
           j == Item(c)
<1>1. /\ client[c].pc = "submit" /\ client[c].next <= Len(selection[c])
      /\ j # Missing /\ client' = [client EXCEPT ![c].pc = "submitting"]
      /\ Answer(j, "lookup") /\ selection' = selection /\ expired' = expired
      /\ capacity' = capacity /\ storage' = storage /\ channel' = channel
      /\ toDelete' = toDelete /\ mu' = mu /\ dispatcher' = dispatcher
      /\ worker' = worker /\ completed' = completed /\ passed' = passed
  BY DEF Submit, Submitting
<1>2. QueueOK /\ ClientShape /\ ClientOK(c) /\ client[c] \in ClientState
  BY Here
<1>3. SubmitOK(c)
  BY <1>1, <1>2 DEF ClientOK
<1>4. /\ client' = [client EXCEPT ![c] = s] /\ client'[c] = s
  BY <1>1, <1>2 DEF ClientShape
<1>5. s \in ClientState /\ s.pc = "submitting" /\ s.next = client[c].next
      /\ s.errs = client[c].errs /\ s.ids = client[c].ids
      /\ s.waited = client[c].waited /\ s.failing = client[c].failing
      /\ s.fetchErrs = client[c].fetchErrs /\ s.verdict = client[c].verdict
  BY <1>2 DEF ClientState, ClientPcs
<1> HIDE DEF s
<1>6. /\ client[c].next \in 1..Len(selection[c]) /\ Len(selection[c]) \in Nat
      /\ client[c].next \in Nat
  BY <1>1, <1>2, <1>3, ClientTypes DEF SubmitOK
<1>7. /\ j \in ToSubmit(c)
      /\ ToSubmit(c)' =
           {selection[c][i] : i \in (client[c].next + 1)..Len(selection[c])}
      /\ ToSubmit(c) =
           {selection[c][i] : i \in client[c].next..Len(selection[c])}
  BY <1>1, <1>4, <1>5, <1>6 DEF ToSubmit, Item
<1>8. j \in Jobs /\ put[j] = "idle"
  BY <1>1, <1>2, <1>3, <1>7, ToSubmitAreJobs DEF SubmitOK
<1>9. "lookup" \in PutStates
  BY DEF PutStates
<1>10. QueueOK'
  BY <1>1, <1>2, <1>8, <1>9, AnswerOnly
<1>11. \A i \in Jobs : i # j => put'[i] = put[i]
  BY <1>1, <1>2, <1>8, <1>9, Answering DEF QueueOK
<1>12. Accepted \subseteq Accepted'
  BY <1>8, <1>11 DEF Accepted
<1>13. ASSUME NEW d \in Clients, d # c PROVE Spares(d)
  <2>1. CASE client[d].pc \in {"submit", "submitting"}
    <3>1. SubmitOK(d)
      BY <1>2, <2>1 DEF IInv, ClientOK
    <3>2. /\ client[d].next \in 1..(Len(selection[d]) + 1)
          /\ Len(selection[d]) \in Nat
      BY <1>2, <3>1, ClientTypes DEF SubmitOK
    <3>3. \A i \in 1..Len(selection[d]) : selection[d][i] # j
      BY <1>1, <1>2, <1>6, <1>13, SubmitOnce
    <3>4. j \notin ToSubmit(d)
      BY <3>2, <3>3 DEF ToSubmit
    <3> QED
      BY <1>1, <1>11, <1>12, <3>4 DEF Spares
  <2>2. CASE client[d].pc \notin {"submit", "submitting"}
    BY <1>1, <1>12, <2>2 DEF Spares
  <2> QED
    BY <2>1, <2>2
<1>14. SubmitOK(c)'
  <2>1. ASSUME NEW i \in (client[c].next + 1)..Len(selection[c])
        PROVE  selection[c][i] \in ToSubmit(c) /\ selection[c][i] # j
    <3>1. i \in 1..Len(selection[c]) /\ i # client[c].next
          /\ i \in client[c].next..Len(selection[c])
      BY <1>6
    <3> QED
      BY <1>1, <1>2, <1>6, <1>7, <3>1, SubmitOnce
  <2>2. \A i \in ToSubmit(c)' : i # Missing => put'[i] = "idle"
    BY <1>2, <1>3, <1>7, <1>11, <2>1, ToSubmitAreJobs DEF SubmitOK
  <2>3. Item(c)' = j
    BY <1>1, <1>4, <1>5 DEF Item
  <2> HIDE DEF j
  <2> QED
    BY <1>1, <1>3, <1>4, <1>5, <1>6, <2>2, <2>3 DEF SubmitOK
<1>15. ClientOK(c)'
  BY <1>1, <1>2, <1>3, <1>4, <1>5, <1>12, <1>14 DEF ClientOK, SubmitOK
<1> QED
  BY <1>1, <1>4, <1>5, <1>10, <1>13, <1>15, OneClient

LEMMA SubmitAcceptedOK ==
    ASSUME IInv, NEW c \in Clients, SubmitAccepted(c)
    PROVE  IInv'
<1> DEFINE j == Item(c)
           s == [client[c] EXCEPT !.pc = "submit", !.next = @ + 1,
                                  !.ids = Append(@, j)]
<1>1. /\ client[c].pc = "submitting" /\ put[j] = "accepted" /\ ClientOnly
      /\ client' = [client EXCEPT ![c].pc = "submit", ![c].next = @ + 1,
                                  ![c].ids = Append(@, j)]
  BY DEF SubmitAccepted
<1>2. QueueOK /\ ClientShape /\ ClientOK(c) /\ client[c] \in ClientState
  BY Here
<1>3. SubmitOK(c)
  BY <1>1, <1>2 DEF ClientOK
<1>4. /\ client[c].next \in 1..Len(selection[c]) /\ Len(selection[c]) \in Nat
      /\ client[c].next \in Nat /\ j # Missing /\ j = selection[c][client[c].next]
  BY <1>1, <1>2, <1>3, ClientTypes DEF SubmitOK, Item
<1>5. j \in Jobs /\ j \in Accepted
  BY <1>1, <1>2, <1>4, ClientTypes DEF Accepted
<1>6. /\ client[c].ids \in Seq(Jobs) /\ selection[c] \in Seq(Jobs \cup {Missing})
  BY <1>2, ClientTypes
<1> HIDE DEF j
<1>7. /\ Append(client[c].ids, j) \in Seq(Jobs)
      /\ Len(Append(client[c].ids, j)) = Len(client[c].ids) + 1
      /\ \A i \in 1..Len(client[c].ids) :
           Append(client[c].ids, j)[i] = client[c].ids[i]
      /\ Append(client[c].ids, j)[Len(client[c].ids) + 1] = j
      /\ Len(client[c].ids) \in Nat
  BY <1>5, <1>6, AppendProperties, LenProperties
<1>8. /\ client' = [client EXCEPT ![c] = s] /\ client'[c] = s
  BY <1>1, <1>2 DEF ClientShape
<1>9. s \in ClientState /\ s.pc = "submit" /\ s.next = client[c].next + 1
      /\ s.errs = client[c].errs /\ s.ids = Append(client[c].ids, j)
      /\ s.waited = client[c].waited /\ s.failing = client[c].failing
      /\ s.fetchErrs = client[c].fetchErrs /\ s.verdict = client[c].verdict
  <2>1. client[c].next + 1 \in Nat /\ "submit" \in ClientPcs
    BY <1>2 DEF ClientState, ClientPcs
  <2>2. s \in ClientState
    BY <1>2, <1>7, <2>1 DEF ClientState
  <2> QED
    BY <1>2, <2>2 DEF ClientState
<1> HIDE DEF s
<1>10. /\ selection' = selection /\ put' = put /\ completed' = completed
       /\ passed' = passed /\ Accepted' = Accepted
  BY <1>1, Same
<1>11. ToSubmit(c)' = ToSubmit(c)
  BY <1>1, <1>8, <1>9, <1>10 DEF ToSubmit
<1>12. \A i \in 1..Len(client'[c].ids) : client'[c].ids[i] \in Accepted
  <2>1. \A i \in 1..Len(client[c].ids) : client[c].ids[i] \in Accepted
    BY <1>2 DEF ClientOK
  <2> QED
    BY <1>5, <1>7, <1>8, <1>9, <2>1
<1>13. ASSUME client[c].ids = SubSeq(selection[c], 1, client[c].next - 1)
       PROVE  Append(client[c].ids, j) = SubSeq(selection[c], 1, client[c].next)
  <2>1. /\ 1 \in 1..Len(selection[c])
        /\ client[c].next \in 1..Len(selection[c])
    BY <1>4
  <2>2. SubSeq(selection[c], 1, client[c].next) =
          SubSeq(selection[c], 1, client[c].next - 1)
            \o <<selection[c][client[c].next]>>
    BY <1>6, <2>1, SubSeqRecursiveSecond
  <2> QED
    BY <1>4, <1>5, <1>6, <1>13, <2>2, AppendIsConcat
<1>14. /\ client'[c].next \in 1..(Len(selection[c]) + 1)
       /\ client'[c].next - 1 = client[c].next
  BY <1>4, <1>8, <1>9
<1>15. SubmitOK(c)'
  BY <1>3, <1>8, <1>9, <1>10, <1>11, <1>13, <1>14 DEF SubmitOK
<1>16. ClientOK(c)'
  BY <1>3, <1>8, <1>9, <1>10, <1>12, <1>15 DEF ClientOK, SubmitOK
<1> QED
  BY <1>1, <1>8, <1>9, <1>16, ClientAlone

LEMMA SubmittedOK ==
    ASSUME IInv, NEW c \in Clients, Submitted(c)
    PROVE  IInv'
<1>1. /\ client[c].pc = "submit" /\ client[c].next > Len(selection[c])
      /\ ClientOnly
  BY DEF Submitted
<1>2. QueueOK /\ ClientShape /\ ClientOK(c) /\ client[c] \in ClientState
  BY Here
<1>3. SubmitOK(c)
  BY <1>1, <1>2 DEF ClientOK
<1>4. /\ selection' = selection /\ completed' = completed
      /\ passed' = passed /\ Accepted' = Accepted
  BY <1>1, Same
<1>5. CASE client[c].errs
  <2> DEFINE s == [client[c] EXCEPT !.pc = "returned", !.verdict = "error"]
  <2>1. client' = [client EXCEPT ![c] = s] /\ client'[c] = s
    BY <1>2, <1>5 DEF Submitted, Returned, ClientShape
  <2>2. s \in ClientState /\ s.pc = "returned" /\ s.verdict = "error"
        /\ s.ids = client[c].ids /\ s.waited = client[c].waited
        /\ s.failing = client[c].failing
    BY <1>2 DEF ClientState, ClientPcs
  <2> HIDE DEF s
  <2>3. ClientOK(c)'
    BY <1>2, <1>3, <1>4, <2>1, <2>2 DEF ClientOK, SubmitOK, ReturnedOK
  <2> QED
    BY <1>1, <2>1, <2>2, <2>3, ClientAlone
<1>6. CASE ~client[c].errs
  <2> DEFINE s == [client[c] EXCEPT !.pc = "wait"]
  <2>1. client' = [client EXCEPT ![c] = s] /\ client'[c] = s
    BY <1>2, <1>6 DEF Submitted, ClientShape
  <2>2. s \in ClientState /\ s.pc = "wait" /\ s.verdict = client[c].verdict
        /\ s.ids = client[c].ids /\ s.waited = client[c].waited
        /\ s.failing = client[c].failing /\ s.fetchErrs = client[c].fetchErrs
    BY <1>2 DEF ClientState, ClientPcs
  <2> HIDE DEF s
  <2>3. client[c].next - 1 = Len(selection[c])
    BY <1>1, <1>2, <1>3, ClientTypes DEF SubmitOK
  <2>4. client[c].ids = selection[c]
    BY <1>2, <1>3, <1>6, <2>3, ClientTypes, SubSeqFull DEF SubmitOK
  <2>5. WaitedOK(c)'
    BY <1>3, <1>4, <2>1, <2>2, <2>4 DEF WaitedOK, SubmitOK
  <2>6. ClientOK(c)'
    BY <1>2, <1>3, <1>4, <2>1, <2>2, <2>5 DEF ClientOK, SubmitOK
  <2> QED
    BY <1>1, <2>1, <2>2, <2>6, ClientAlone
<1> QED
  BY <1>5, <1>6

\* The wait ends and the client turns to its jobs; what it was told is waited.
LEMMA TurnsToFetch ==
    ASSUME IInv, NEW c \in Clients, client[c].pc = "wait", ClientOnly,
           NEW waited \in BOOLEAN, waited => IsComplete,
           client' = [client EXCEPT ![c].pc = "fetch", ![c].next = 1,
                                    ![c].waited = waited]
    PROVE  IInv'
<1> DEFINE s == [client[c] EXCEPT !.pc = "fetch", !.next = 1, !.waited = waited]
<1>1. QueueOK /\ ClientShape /\ ClientOK(c) /\ client[c] \in ClientState
  BY Here
<1>2. WaitedOK(c)
  BY <1>1 DEF ClientOK
<1>3. /\ client' = [client EXCEPT ![c] = s] /\ client'[c] = s
  BY <1>1 DEF ClientShape
<1>4. s \in ClientState /\ s.pc = "fetch" /\ s.next = 1 /\ s.waited = waited
      /\ s.ids = client[c].ids /\ s.failing = client[c].failing
      /\ s.fetchErrs = client[c].fetchErrs /\ s.verdict = client[c].verdict
  BY <1>1 DEF ClientState, ClientPcs
<1> HIDE DEF s
<1>5. /\ selection' = selection /\ completed' = completed
      /\ passed' = passed /\ Accepted' = Accepted
  BY Same
<1>6. waited => ToSet(client[c].ids) \subseteq completed
  BY <1>1, CompleteMeansDone, ClientTypes DEF ClientOK, ToSet
<1>7. AllPassed(c, client[c].next - 1)'
  <2>1. client'[c].next - 1 = 0 /\ 1..0 = {}
    BY <1>3, <1>4
  <2> QED
    BY <2>1 DEF AllPassed
<1>8. 1 \in 1..(Len(selection[c]) + 1)
  BY <1>1, ClientTypes
<1>9. WaitedOK(c)'
  BY <1>2, <1>3, <1>4, <1>5, <1>7, <1>8 DEF WaitedOK
<1>10. ClientOK(c)'
  BY <1>1, <1>2, <1>3, <1>4, <1>5, <1>6, <1>9 DEF ClientOK, WaitedOK
<1> QED
  BY <1>3, <1>4, <1>10, ClientAlone

LEMMA WaitOK ==
    ASSUME IInv, NEW c \in Clients, WaitOk(c) \/ WaitTimeout(c)
    PROVE  IInv'
<1>1. CASE WaitOk(c)
  BY <1>1, TurnsToFetch DEF WaitOk
<1>2. CASE WaitTimeout(c)
  <2>1. client[c].pc = "wait" /\ ClientOnly /\ client[c].waited = FALSE
    BY <1>2, Here DEF WaitTimeout, ClientOK, WaitedOK, ClientState
  <2>2. client' = [client EXCEPT ![c].pc = "fetch", ![c].next = 1,
                                 ![c].waited = FALSE]
    <3>1. client \in [Clients -> ClientState]
      BY Here DEF ClientShape
    <3>2. client' = [client EXCEPT ![c].pc = "fetch", ![c].next = 1]
      BY <1>2 DEF WaitTimeout
    <3> QED
      BY <2>1, <3>1, <3>2 DEF ClientState
  <2> QED
    BY <2>1, <2>2, TurnsToFetch
<1> QED
  BY <1>1, <1>2

LEMMA WaitUnansweredOK ==
    ASSUME IInv, NEW c \in Clients, WaitUnanswered(c)
    PROVE  IInv'
<1> DEFINE s == [client[c] EXCEPT !.pc = "returned", !.verdict = "error"]
<1>1. QueueOK /\ ClientShape /\ ClientOK(c) /\ client[c] \in ClientState
  BY Here
<1>2. client[c].pc = "wait" /\ ClientOnly /\ WaitedOK(c)
  BY <1>1 DEF WaitUnanswered, ClientOK
<1>3. client' = [client EXCEPT ![c] = s] /\ client'[c] = s
  BY <1>1 DEF WaitUnanswered, Returned, ClientShape
<1>4. s \in ClientState /\ s.pc = "returned" /\ s.verdict = "error"
      /\ s.ids = client[c].ids /\ s.waited = client[c].waited
      /\ s.failing = client[c].failing
  BY <1>1 DEF ClientState, ClientPcs
<1> HIDE DEF s
<1>5. /\ selection' = selection /\ completed' = completed
      /\ passed' = passed /\ Accepted' = Accepted
  BY <1>2, Same
<1>6. ClientOK(c)'
  BY <1>1, <1>2, <1>3, <1>4, <1>5 DEF ClientOK, WaitedOK, ReturnedOK
<1> QED
  BY <1>2, <1>3, <1>4, <1>6, ClientAlone

\* A job was fetched, or not: the client learns that it failed, or that it does
\* not know.
LEMMA Fetched ==
    ASSUME IInv, NEW c \in Clients, Fetching(c), ClientOnly,
           NEW failing \in BOOLEAN, NEW fetchErrs \in BOOLEAN,
           \/ failing = (client[c].failing \/ Wanted(c) \notin passed)
              /\ fetchErrs = client[c].fetchErrs
           \/ failing = client[c].failing /\ fetchErrs = TRUE,
           client' = [client EXCEPT ![c].next = @ + 1, ![c].failing = failing,
                                    ![c].fetchErrs = fetchErrs]
    PROVE  IInv'
<1> DEFINE s == [client[c] EXCEPT !.next = @ + 1, !.failing = failing,
                                  !.fetchErrs = fetchErrs]
<1>1. QueueOK /\ ClientShape /\ ClientOK(c) /\ client[c] \in ClientState
  BY Here
<1>2. /\ client[c].pc = "fetch" /\ WaitedOK(c)
      /\ client[c].next <= Len(client[c].ids)
  BY <1>1 DEF Fetching, ClientOK
<1>3. client' = [client EXCEPT ![c] = s] /\ client'[c] = s
  BY <1>1 DEF ClientShape
<1>4. s \in ClientState /\ s.pc = "fetch" /\ s.next = client[c].next + 1
      /\ s.waited = client[c].waited /\ s.ids = client[c].ids
      /\ s.failing = failing /\ s.fetchErrs = fetchErrs
      /\ s.verdict = client[c].verdict
  <2>1. client[c].next + 1 \in Nat
    BY <1>1 DEF ClientState
  <2>2. s \in ClientState
    BY <1>1, <2>1 DEF ClientState
  <2> QED
    BY <1>1, <1>2, <2>2 DEF ClientState
<1> HIDE DEF s
<1>5. /\ selection' = selection /\ completed' = completed
      /\ passed' = passed /\ Accepted' = Accepted
  BY Same
<1>6. /\ client[c].ids = selection[c] /\ Len(selection[c]) \in Nat
      /\ client[c].next \in 1..Len(selection[c])
  BY <1>1, <1>2, ClientTypes DEF WaitedOK
<1>7. client[c].failing \in BOOLEAN /\ client[c].fetchErrs \in BOOLEAN
  BY <1>1 DEF ClientState
<1>8. ASSUME ~failing, ~fetchErrs PROVE AllPassed(c, client[c].next - 1)'
  <2>1. AllPassed(c, client[c].next - 1) /\ Wanted(c) \in passed
    BY <1>2, <1>7, <1>8 DEF WaitedOK
  <2>2. client'[c].next - 1 = client[c].next
    BY <1>3, <1>4, <1>6
  <2>3. \A i \in 1..client[c].next :
          i \in 1..(client[c].next - 1) \/ i = client[c].next
    BY <1>6
  <2> QED
    BY <1>3, <1>4, <1>5, <2>1, <2>2, <2>3 DEF AllPassed, Wanted
<1>9. ASSUME client[c].waited, failing
      PROVE  \E i \in 1..Len(client[c].ids) : client[c].ids[i] \notin passed
  <2>1. CASE client[c].failing
    BY <1>1, <1>9, <2>1 DEF ClientOK
  <2>2. CASE ~client[c].failing
    BY <1>6, <1>9, <2>2 DEF Wanted
  <2> QED
    BY <1>7, <2>1, <2>2
<1>10. client'[c].next \in 1..(Len(selection[c]) + 1)
  BY <1>3, <1>4, <1>6
<1>11. WaitedOK(c)'
  BY <1>2, <1>3, <1>4, <1>5, <1>8, <1>10 DEF WaitedOK
<1>12. ClientOK(c)'
  BY <1>1, <1>3, <1>4, <1>5, <1>9, <1>11 DEF ClientOK
<1> QED
  BY <1>3, <1>4, <1>12, ClientAlone

LEMMA FetchOK ==
    ASSUME IInv, NEW c \in Clients, Fetch(c) \/ FetchUnanswered(c)
    PROVE  IInv'
<1>1. /\ client \in [Clients -> ClientState]
      /\ client[c].failing \in BOOLEAN /\ client[c].fetchErrs \in BOOLEAN
  BY Here DEF ClientShape, ClientState
<1>2. CASE Fetch(c)
  <2> DEFINE failing == client[c].failing \/ Wanted(c) \notin passed
  <2>1. client' = [client EXCEPT ![c].next = @ + 1, ![c].failing = failing,
                                 ![c].fetchErrs = client[c].fetchErrs]
    BY <1>1, <1>2 DEF Fetch, ClientState
  <2>2. Fetching(c) /\ ClientOnly /\ failing \in BOOLEAN
    BY <1>2 DEF Fetch
  <2> QED
    BY <1>1, <2>1, <2>2, Fetched
<1>3. CASE FetchUnanswered(c)
  <2>1. client' = [client EXCEPT ![c].next = @ + 1,
                                 ![c].failing = client[c].failing,
                                 ![c].fetchErrs = TRUE]
    BY <1>1, <1>3 DEF FetchUnanswered, ClientState
  <2>2. Fetching(c) /\ ClientOnly
    BY <1>3 DEF FetchUnanswered
  <2> QED
    BY <1>1, <2>1, <2>2, Fetched
<1> QED
  BY <1>2, <1>3

\* The two ways in which a client does not come back.
LEMMA LostOK ==
    ASSUME IInv, NEW c \in Clients, FetchForgotten(c) \/ FetchedHangs(c)
    PROVE  IInv'
<1> DEFINE lost == IF FetchForgotten(c) THEN "panicked" ELSE "hung"
           s == [client[c] EXCEPT !.pc = lost]
<1>1. QueueOK /\ ClientShape /\ ClientOK(c) /\ client[c] \in ClientState
  BY Here
<1>2. client[c].pc = "fetch" /\ ClientOnly /\ WaitedOK(c)
  BY <1>1 DEF FetchForgotten, FetchedHangs, Fetching, ClientOK
<1>3. client' = [client EXCEPT ![c].pc = lost]
  <2>1. CASE FetchForgotten(c)
    BY <2>1 DEF FetchForgotten
  <2>2. CASE ~FetchForgotten(c)
    BY <2>2 DEF FetchedHangs
  <2> QED
    BY <2>1, <2>2
<1>4. lost = "panicked" => Cardinality(completed) >= capacity
  <2>1. CASE FetchForgotten(c)
    <3>1. Wanted(c) \notin storage /\ client[c].next <= Len(client[c].ids)
      BY <2>1 DEF FetchForgotten, Fetching
    <3>2. client[c].next \in 1..Len(client[c].ids)
      BY <1>1, <1>2, <3>1, ClientTypes DEF WaitedOK
    <3>3. Wanted(c) \in Accepted
      BY <1>1, <3>2 DEF ClientOK, Wanted
    <3> QED
      BY <1>1, <3>1, <3>3 DEF QueueOK, Stored
  <2>2. CASE ~FetchForgotten(c)
    BY <2>2
  <2> QED
    BY <2>1, <2>2
<1>5. lost \in {"panicked", "hung"}
  OBVIOUS
<1> HIDE DEF lost
<1>6. client' = [client EXCEPT ![c] = s] /\ client'[c] = s
  BY <1>1, <1>3 DEF ClientShape
<1>7. s \in ClientState /\ s.pc = lost
      /\ s.waited = client[c].waited /\ s.ids = client[c].ids
      /\ s.failing = client[c].failing /\ s.verdict = client[c].verdict
  BY <1>1, <1>5 DEF ClientState, ClientPcs
<1> HIDE DEF s
<1>8. /\ selection' = selection /\ completed' = completed
      /\ passed' = passed /\ Accepted' = Accepted /\ capacity' = capacity
  BY <1>2, Same
<1>9. WaitedOK(c)'
  BY <1>2, <1>4, <1>5, <1>6, <1>7, <1>8 DEF WaitedOK
<1>10. ClientOK(c)'
  BY <1>1, <1>5, <1>6, <1>7, <1>8, <1>9 DEF ClientOK
<1> QED
  BY <1>2, <1>6, <1>7, <1>10, ClientAlone

LEMMA CollectResultsOK ==
    ASSUME IInv, NEW c \in Clients, NEW fails \in BOOLEAN,
           CollectResults(c, fails)
    PROVE  IInv'
<1> DEFINE verdict == IF fails \/ client[c].failing THEN "error" ELSE "nil"
           s == [client[c] EXCEPT !.pc = "returned", !.outputFailed = fails,
                                  !.verdict = verdict]
<1>1. QueueOK /\ ClientShape /\ ClientOK(c) /\ client[c] \in ClientState
  BY Here
<1>2. /\ client[c].pc = "fetch" /\ ClientOnly /\ WaitedOK(c)
      /\ client[c].next > Len(client[c].ids) /\ ~client[c].fetchErrs
      /\ client' = [client EXCEPT ![c].pc = "returned",
                                  ![c].outputFailed = fails,
                                  ![c].verdict = verdict]
  BY <1>1 DEF CollectResults, ClientOK
<1>3. verdict \in {"error", "nil"}
  OBVIOUS
<1>4. verdict = "error" <=> (fails \/ client[c].failing)
  OBVIOUS
<1> HIDE DEF verdict
<1>5. client' = [client EXCEPT ![c] = s] /\ client'[c] = s
  BY <1>1, <1>2 DEF ClientShape
<1>6. s \in ClientState /\ s.pc = "returned" /\ s.verdict = verdict
      /\ s.outputFailed = fails /\ s.waited = client[c].waited
      /\ s.ids = client[c].ids /\ s.failing = client[c].failing
  <2>1. "returned" \in ClientPcs /\ verdict \in {"none", "nil", "error"}
    BY <1>3 DEF ClientPcs
  <2>2. s \in ClientState
    BY <1>1, <2>1 DEF ClientState
  <2> QED
    BY <1>1, <2>2 DEF ClientState
<1> HIDE DEF s
<1>7. /\ selection' = selection /\ completed' = completed
      /\ passed' = passed /\ Accepted' = Accepted
  BY <1>2, Same
<1>8. /\ client[c].ids = selection[c] /\ Len(selection[c]) \in Nat
      /\ client[c].next - 1 = Len(selection[c])
  BY <1>1, <1>2, ClientTypes DEF WaitedOK
<1>9. verdict = "nil" => AllPassed(c, Len(selection[c]))'
  <2>1. ASSUME verdict = "nil" PROVE AllPassed(c, Len(selection[c]))
    BY <1>2, <1>4, <1>8, <2>1 DEF WaitedOK
  <2> QED
    BY <1>5, <1>6, <1>7, <2>1 DEF AllPassed
<1>10. ReturnedOK(c)'
  BY <1>4, <1>5, <1>6, <1>7, <1>8, <1>9 DEF ReturnedOK
<1>11. ClientOK(c)'
  BY <1>1, <1>5, <1>6, <1>7, <1>10 DEF ClientOK
<1> QED
  BY <1>2, <1>5, <1>6, <1>11, ClientAlone

-----------------------------------------------------------------------------
(* The theorems.                                                           *)

LEMMA InitIInv == Init => IInv
<1> SUFFICES ASSUME Init PROVE IInv
  OBVIOUS
<1>1. QueueOK
  BY QueueInitOK DEF Init
<1>2. put = [j \in Jobs |-> "idle"]
  BY DEF Init, QueueInit
<1>3. ClientShape
  <2>1. <<>> \in Seq(Jobs)
    BY EmptySeq
  <2>2. 1 \in Nat /\ "submit" \in ClientPcs
    BY DEF ClientPcs
  <2> QED
    BY <2>1, <2>2 DEF Init, ClientShape, ClientState
<1>4. ASSUME NEW c \in Clients PROVE ClientOK(c)
  <2>1. /\ client[c].pc = "submit" /\ client[c].next = 1 /\ client[c].ids = <<>>
        /\ ~client[c].errs /\ ~client[c].waited /\ ~client[c].fetchErrs
        /\ ~client[c].failing /\ client[c].verdict = "none"
    BY DEF Init
  <2>2. Len(selection[c]) \in Nat /\ Len(client[c].ids) = 0
    BY <1>3, <2>1, ClientTypes
  <2>3. 1 \in 1..(Len(selection[c]) + 1) /\ 1 - 1 = 0 /\ 0 < 1
    BY <2>2
  <2>4. SubSeq(selection[c], 1, 0) = <<>>
    BY <2>3, SubSeqEmpty
  <2>5. \A j \in ToSubmit(c) : j # Missing => put[j] = "idle"
    <3>1. \A i \in 1..Len(selection[c]) : selection[c][i] \in Jobs \cup {Missing}
      BY <1>3, ClientTypes
    <3> QED
      BY <1>2, <2>1, <3>1 DEF ToSubmit
  <2>6. SubmitOK(c)
    BY <2>1, <2>3, <2>4, <2>5 DEF SubmitOK
  <2>7. \A i \in 1..Len(client[c].ids) : client[c].ids[i] \in Accepted
    BY <2>2
  <2> QED
    BY <2>1, <2>6, <2>7 DEF ClientOK
<1> QED
  BY <1>1, <1>3, <1>4 DEF IInv

LEMMA ClientStepOK ==
    ASSUME IInv, NEW c \in Clients, ClientStep(c) \/ Unanswered(c)
    PROVE  IInv'
BY SubmitErrorOK, SubmitStepOK, SubmitRefusedOK, SubmitAcceptedOK, SubmittedOK,
   SubmitUnansweredOK, WaitOK, WaitUnansweredOK, FetchOK, LostOK,
   CollectResultsOK DEF ClientStep, Unanswered

\* A context that expires is no step of its client.
LEMMA ExpireOK ==
    ASSUME IInv, NEW c \in Clients, Expire(c)
    PROVE  IInv'
<1>1. /\ selection' = selection /\ client' = client /\ UNCHANGED queueVars
      /\ expired' = expired \cup {c}
  BY DEF Expire
<1>2. expired' \subseteq Clients
  BY <1>1 DEF IInv, ClientShape
<1>3. QueueOK' /\ Onwards
  BY <1>1, QueueUnchanged DEF IInv
<1> QED
  BY <1>1, <1>2, <1>3, QueueAlone

LEMMA ServiceOK ==
    ASSUME IInv, ServiceStep \/ UNCHANGED vars
    PROVE  IInv'
<1>1. selection' = selection /\ client' = client /\ expired' = expired
  BY DEF ServiceStep, vars, clientVars
<1>2. QueueOK' /\ Onwards
  BY QueueStepOK, QueueUnchanged DEF IInv, ServiceStep, vars
<1>3. expired' \subseteq Clients
  BY <1>1 DEF IInv, ClientShape
<1> QED
  BY <1>1, <1>2, <1>3, QueueAlone

LEMMA IInvInvariant == Spec => []IInv
<1>1. IInv /\ [Next]_vars => IInv'
  BY ClientStepOK, ExpireOK, ServiceOK DEF Next
<1> QED
  BY InitIInv, <1>1, PTL DEF Spec

\* The variables of the service's queue and of its clients keep their types; the
\* channel and the list of finished jobs never exceed the queue's capacity.
THEOREM TypeCorrect == Spec => []TypeOK
<1>1. IInv => TypeOK
  BY DEF IInv, QueueOK, QueueShape, ClientShape, TypeOK
<1> QED
  BY <1>1, IInvInvariant, PTL

\* When the service answers a client's wait with completion, all that the client
\* submitted has completed, however the jobs of other clients, workers that are
\* faster than Put, and evictions are interleaved.
THEOREM WaitIsSound == Spec => []WaitOkIsSound
<1>1. IInv => WaitOkIsSound
  BY DEF IInv, ClientOK, WaitOkIsSound
<1> QED
  BY <1>1, IInvInvariant, PTL

\* A client that returns nil has had every selected check submitted and passed;
\* one that was told that all is complete returns an error only for a check that
\* failed or for the output.
THEOREM ClientVerdictIsSound == Spec => []VerdictIsSound
<1>1. ASSUME IInv, NEW c \in Clients, client[c].verdict = "nil"
      PROVE  /\ ToSet(client[c].ids) = SelectedJobs(c)
             /\ SelectedJobs(c) \subseteq passed
  <2>1. ClientOK(c) /\ ClientShape
    BY <1>1, Here
  <2>2. client[c].pc = "returned" /\ ReturnedOK(c)
    BY <1>1, <2>1 DEF ClientOK, SubmitOK, WaitedOK, ClientShape, ClientState,
                      ClientPcs
  <2>3. client[c].ids = selection[c] /\ AllPassed(c, Len(selection[c]))
    BY <1>1, <2>2 DEF ReturnedOK
  <2>4. SelectedJobs(c) = {selection[c][i] : i \in 1..Len(selection[c])}
    BY <2>1, ClientTypes DEF SelectedJobs, ToSet
  <2> QED
    BY <2>3, <2>4 DEF AllPassed, SelectedJobs
<1>2. ASSUME IInv, NEW c \in Clients, client[c].verdict = "error",
             client[c].waited
      PROVE  \/ client[c].outputFailed
             \/ ~(ToSet(client[c].ids) \subseteq passed)
  <2>1. ClientOK(c) /\ ClientShape
    BY <1>2, Here
  <2>2. client[c].pc = "returned" /\ ReturnedOK(c)
    BY <1>2, <2>1 DEF ClientOK, SubmitOK, WaitedOK, ClientShape, ClientState,
                      ClientPcs
  <2>3. client[c].failing => ~(ToSet(client[c].ids) \subseteq passed)
    BY <1>2, <2>1, ClientTypes DEF ClientOK, ToSet
  <2> QED
    BY <1>2, <2>2, <2>3 DEF ReturnedOK
<1>3. IInv => VerdictIsSound
  BY <1>1, <1>2 DEF VerdictIsSound
<1> QED
  BY <1>3, IInvInvariant, PTL

\* A client finds one of its jobs forgotten only when as many jobs have finished
\* as the service's queue has room for.
THEOREM ForgottenIsOld == Spec => []PanicMeansForgotten
<1>1. IInv => PanicMeansForgotten
  BY DEF IInv, ClientOK, WaitedOK, PanicMeansForgotten
<1> QED
  BY <1>1, IInvInvariant, PTL

-----------------------------------------------------------------------------
(* Nobody waits for what will not come.                                    *)

\* A worker keeps the lock only if the queue has no room for a finished job, a
\* goroutine that waits holds no job, only what Put has sent is stored, and the
\* request a client waits for has reached its handler.
Served ==
    /\ mu = "held" => capacity = 1
    /\ \A w \in Workers : worker[w].pc = "blocked" => mu = "held"
    /\ dispatcher.pc = "next" => dispatcher.job = NoJob
    /\ \A w \in Workers : worker[w].pc = "select" => worker[w].job = NoJob
    /\ storage \subseteq Taken
    /\ \A c \in Clients :
          client[c].pc = "submitting"
            => Item(c) \in Jobs /\ put[Item(c)] # "idle"

\* The guards of PutStep(j).
RequestCanMove(j) ==
    \/ put[j] = "lookup" /\ mu = "free" /\ j \notin storage
    \/ put[j] = "send" /\ Len(channel) <= capacity
    \/ put[j] = "store" /\ mu = "free"

\* The guards of ClientStep(c).
ClientCanMove(c) ==
    \/ Submitting(c)
    \/ client[c].pc = "submitting" /\ put[Item(c)] \in {"refused", "accepted"}
    \/ client[c].pc = "submit" /\ client[c].next > Len(selection[c])
    \/ client[c].pc = "wait" /\ mu = "free"
    \/ Fetching(c) /\ mu = "free"
    \/ client[c].pc = "fetch" /\ client[c].next > Len(client[c].ids)

\* The guards of the steps of the dispatcher and of the workers.
PoolCanMove ==
    \/ /\ dispatcher.pc = "next" /\ channel # <<>>
       /\ Head(channel) \notin completed
    \/ dispatcher.pc = "send" /\ \E w \in Workers : worker[w].pc = "select"
    \/ \E w \in Workers : worker[w].pc = "run"
    \/ mu = "free" /\ \E w \in Workers : worker[w].pc = "finished"

Ended(c) == client[c].pc \in {"returned", "hung", "panicked"}

LEMMA InitServed == Init => Served
BY DEF Init, QueueInit, Served, At

\* What the queue does keeps it so.
LEMMA QueueServed ==
    ASSUME IInv, Served, ServiceStep
    PROVE  Served'
<1>0. /\ QueueTypeOK /\ Single /\ QueueShape /\ UNCHANGED clientVars /\ QueueStep
      /\ worker \in [Workers -> [pc : {"select", "run", "finished", "blocked"},
                                 job : Jobs \cup {NoJob}]]
      /\ put \in [Jobs -> PutStates] /\ capacity \in Nat
  BY LimitedAssumption
  DEF IInv, QueueOK, QueueShape, QueueTypeOK, ServiceStep, LimitedAssumption
<1>1. SUFFICES /\ mu' = "held" => capacity' = 1
               /\ \A w \in Workers : worker'[w].pc = "blocked" => mu' = "held"
               /\ dispatcher'.pc = "next" => dispatcher'.job = NoJob
               /\ \A w \in Workers : worker'[w].pc = "select" => worker'[w].job = NoJob
               /\ storage' \subseteq Taken'
               /\ \A j \in Jobs : put[j] # "idle" => put'[j] # "idle"
  BY <1>0 DEF Served, clientVars, Item
<1>2. ASSUME NEW j \in Jobs, PutStep(j)
      PROVE  /\ storage' \subseteq Taken'
             /\ \A i \in Jobs : put[i] # "idle" => put'[i] # "idle"
             /\ UNCHANGED <<mu, capacity, dispatcher, worker>>
  <2>1. /\ put' = [put EXCEPT ![j] = put'[j]]
        /\ put'[j] \in {"send", "store", "refused", "accepted"}
        /\ j \in Taken => j \in Taken'
        /\ UNCHANGED <<mu, capacity, dispatcher, worker>>
    BY <1>0, <1>2
    DEF PutStep, PutLookup, PutSend, PutStore, Answer, Taken
  <2>2. Taken \subseteq Taken'
    BY <1>0, <2>1 DEF Taken
  <2>3. \/ storage' = storage
        \/ storage' = storage \cup {j} /\ j \in Taken'
    BY <1>0, <1>2
    DEF PutStep, PutLookup, PutSend, PutStore, Answer, Taken
  <2> QED
    BY <1>0, <2>1, <2>2, <2>3 DEF Served
<1>3. CASE NextJob
  BY <1>0, <1>3 DEF NextJob, Served, At, Taken
<1>4. ASSUME NEW w \in Workers, Dispatch(w) \/ SetState(w) \/ MarkComplete(w)
      PROVE  /\ UNCHANGED <<mu, capacity, put, storage>>
             /\ dispatcher'.pc = "next" => dispatcher'.job = NoJob
             /\ \A v \in Workers : worker'[v].pc = "blocked" => mu' = "held"
             /\ \A v \in Workers : worker'[v].pc = "select" => worker'[v].job = NoJob
  BY <1>0, <1>4 DEF Dispatch, SetState, MarkComplete, Served, At
<1>5. ASSUME NEW w \in Workers, Complete(w) \/ CompleteBlocks(w)
      PROVE  /\ UNCHANGED <<capacity, put, dispatcher>>
             /\ storage' \subseteq storage \cup {worker[w].job}
             /\ worker[w].job \in Taken
             /\ mu' = "held" => capacity = 1
             /\ \A v \in Workers : worker'[v].pc = "blocked" => mu' = "held"
             /\ \A v \in Workers : worker'[v].pc = "select" => worker'[v].job = NoJob
  <2>1. worker[w].pc = "finished" /\ mu = "free"
    BY <1>5 DEF Complete, CompleteBlocks
  <2>2. worker[w].job \in Taken
    BY <1>0, <2>1 DEF Single, Held, QueueShape
  <2>3. CASE Complete(w)
    BY <1>0, <2>1, <2>2, <2>3 DEF Complete, CompleteFrame, Served, At
  <2>4. CASE CompleteBlocks(w)
    <3>1. capacity = 1
      <4>1. Len(toDelete) = capacity - 1 /\ toDelete = <<>>
        BY <2>4 DEF CompleteBlocks
      <4>2. Len(toDelete) = 0
        BY <4>1
      <4> QED
        BY <1>0, <4>1, <4>2
    <3> QED
      BY <1>0, <2>1, <2>2, <2>4, <3>1 DEF CompleteBlocks, CompleteFrame, Served
  <2> QED
    BY <1>5, <2>3, <2>4
<1>6. ASSUME UNCHANGED <<put>> PROVE Taken' = Taken
  BY <1>6 DEF Taken
<1>7. CASE \E j \in Jobs : PutStep(j)
  BY <1>2, <1>7 DEF Served
<1>8. CASE \E w \in Workers : WorkerStep(w)
  <2>1. PICK w \in Workers : WorkerStep(w)
    BY <1>8
  <2>2. CASE Dispatch(w) \/ SetState(w) \/ MarkComplete(w)
    BY <1>4, <1>6, <2>2 DEF Served
  <2>3. CASE Complete(w) \/ CompleteBlocks(w)
    BY <1>0, <1>5, <1>6, <2>3 DEF Served
  <2> QED
    BY <2>1, <2>2, <2>3 DEF WorkerStep
<1> QED
  BY <1>0, <1>3, <1>7, <1>8 DEF QueueStep

\* What a client submits next is a job that nobody has submitted.
LEMMA SubmitsNew ==
    ASSUME IInv, NEW c \in Clients, Submitting(c), Item(c) # Missing
    PROVE  Item(c) \in Jobs /\ put[Item(c)] = "idle"
<1>1. ClientShape /\ SubmitOK(c)
  BY DEF IInv, ClientOK, Submitting
<1>2. client[c].next \in 1..Len(selection[c])
  BY <1>1, ClientTypes DEF SubmitOK, Submitting
<1>3. Item(c) \in Jobs
  BY <1>1, <1>2, ClientTypes DEF Item
<1>4. Item(c) \in ToSubmit(c)
  <2>1. client[c].pc = "submit"
    BY DEF Submitting
  <2> QED
    BY <1>1, <1>2, <2>1, ClientTypes DEF Item, ToSubmit
<1> QED
  BY <1>1, <1>3, <1>4 DEF SubmitOK, Submitting

\* What a client does keeps it so: it waits for a request only once it was sent.
LEMMA ClientServed ==
    ASSUME IInv, Served, NEW c \in Clients, ClientStep(c) \/ Unanswered(c)
    PROVE  Served'
<1>0. client \in [Clients -> ClientState] /\ put \in [Jobs -> PutStates]
  BY DEF IInv, ClientShape, QueueOK, QueueShape, QueueTypeOK
<1>1. CASE Submit(c)
  <2>1. /\ client' = [client EXCEPT ![c].pc = "submitting"] /\ Item(c) # Missing
        /\ put' = [put EXCEPT ![Item(c)] = "lookup"] /\ Submitting(c)
        /\ UNCHANGED <<selection, capacity, storage, mu, dispatcher, worker>>
    BY <1>1 DEF Submit, Answer
  <2>2. Item(c) \in Jobs /\ put[Item(c)] = "idle"
    BY <2>1, SubmitsNew
  <2>3. Taken' = Taken
    BY <1>0, <2>1, <2>2 DEF Taken
  <2>4. \A d \in Clients : Item(d)' = Item(d)
    BY <1>0, <2>1 DEF Item
  <2>5. /\ put'[Item(c)] = "lookup"
        /\ \A j \in Jobs : put[j] # "idle" => put'[j] # "idle"
    BY <1>0, <2>1, <2>2
  <2>6. \A d \in Clients :
          client'[d].pc = "submitting"
            => Item(d)' \in Jobs /\ put'[Item(d)'] # "idle"
    BY <1>0, <2>1, <2>2, <2>4, <2>5 DEF Served
  <2> QED
    BY <2>1, <2>3, <2>6 DEF Served
<1>2. CASE ~Submit(c)
  <2>1. /\ ClientOnly
        /\ client' = [client EXCEPT ![c] = client'[c]]
        /\ client'[c].pc # "submitting"
    <3>0. client[c] \in ClientState
      BY <1>0
    <3>1. CASE \/ SubmitError(c) \/ SubmitRefused(c) \/ SubmitAccepted(c)
               \/ SubmitUnanswered(c)
      BY <1>0, <3>0, <3>1
      DEF SubmitError, Submitting, SubmitRefused, SubmitAccepted,
          SubmitUnanswered, ClientState
    <3>2. CASE Submitted(c) \/ WaitUnanswered(c)
      BY <1>0, <3>0, <3>2 DEF Submitted, WaitUnanswered, Returned, ClientState
    <3>3. CASE WaitOk(c) \/ WaitTimeout(c)
      BY <1>0, <3>0, <3>3 DEF WaitOk, WaitTimeout, ClientState
    <3>4. CASE Fetch(c) \/ FetchForgotten(c) \/ FetchUnanswered(c)
      BY <1>0, <3>0, <3>4
      DEF Fetch, FetchForgotten, FetchUnanswered, Fetching, ClientState
    <3>5. CASE FetchedHangs(c) \/ \E fails \in BOOLEAN : CollectResults(c, fails)
      BY <1>0, <3>0, <3>5 DEF FetchedHangs, CollectResults, ClientState
    <3> QED
      BY <1>2, <3>1, <3>2, <3>3, <3>4, <3>5 DEF ClientStep, Unanswered
  <2>2. UNCHANGED <<selection, queueVars>>
    BY <2>1 DEF ClientOnly
  <2>3. \A d \in Clients : d # c => Item(d)' = Item(d) /\ client'[d] = client[d]
    BY <1>0, <2>1, <2>2 DEF Item
  <2> QED
    BY <2>1, <2>2, <2>3 DEF Served, queueVars, Taken
<1> QED
  BY <1>1, <1>2

LEMMA ServedInvariant == Spec => []Served
<1>1. ASSUME IInv, Served, [Next]_vars PROVE Served'
  <2>1. ASSUME UNCHANGED <<queueVars, selection, client>> PROVE Served'
    BY <1>1, <2>1 DEF Served, queueVars, Taken, Item
  <2>2. ASSUME NEW c \in Clients, Expire(c) PROVE Served'
    BY <2>1, <2>2 DEF Expire
  <2> QED
    BY <1>1, <2>1, <2>2, QueueServed, ClientServed DEF Next, vars, clientVars
<1> QED
  BY <1>1, InitServed, IInvInvariant, PTL DEF Spec

\* A worker that completes a job gives the lock of the queue back, unless the queue
\* was given a capacity of one: then it waits for an older job to forget and there
\* is none (queue/fixed.go:181-192: Complete receives from toDelete with the lock held).
THEOREM LockIsGivenBack == Spec => [](mu = "held" => capacity = 1)
<1>1. Served => (mu = "held" => capacity = 1)
  BY DEF Served
<1> QED
  BY <1>1, ServedInvariant, PTL

\* While jobs are pending, the dispatcher or a worker of the pool can move, for any
\* number of workers, jobs and clients and any capacity but one: no job of the service
\* is stuck, whatever its clients do.
THEOREM PoolIsNeverStuck == Spec => [](capacity > 1 /\ Pending # {} => PoolCanMove)
<1>1. ASSUME IInv, Served, capacity > 1, Pending # {} PROVE PoolCanMove
  <2>0. /\ QueueTypeOK /\ Single /\ QueueShape /\ capacity \in Nat
        /\ dispatcher.pc \in {"next", "send"}
        /\ worker \in [Workers -> [pc : {"select", "run", "finished", "blocked"},
                                   job : Jobs \cup {NoJob}]]
        /\ channel \in Seq(Jobs)
    BY <1>1, LimitedAssumption
    DEF IInv, QueueOK, QueueShape, QueueTypeOK, LimitedAssumption
  <2>1. mu = "free" /\ \A w \in Workers : worker[w].pc # "blocked"
    BY <1>1, <2>0 DEF Served, QueueTypeOK
  <2>2. ASSUME NEW w \in Workers, worker[w].pc # "select" PROVE PoolCanMove
    BY <2>0, <2>1, <2>2 DEF PoolCanMove
  <2>3. CASE dispatcher.pc = "send"
    <3>1. 1 \in Workers
      BY LimitedAssumption DEF LimitedAssumption, Workers
    <3> QED
      BY <2>2, <2>3, <3>1 DEF PoolCanMove
  <2>4. CASE channel # <<>> /\ dispatcher.pc = "next"
    <3>1. Head(channel) \in Channel
      BY <2>0, <2>4, Removing DEF Single, Channel
    <3> QED
      BY <2>0, <2>4, <3>1 DEF Single, PoolCanMove
  <2>5. CASE /\ channel = <<>> /\ dispatcher.pc = "next"
             /\ \A w \in Workers : worker[w].pc = "select"
    <3>1. ToSet(channel) = {} /\ dispatcher.job = NoJob
          /\ \A w \in Workers : worker[w].job = NoJob
      <4>1. ToSet(channel) = {}
        <5>1. Len(channel) = 0
          BY <2>5
        <5> QED
          BY <5>1 DEF ToSet
      <4> QED
        BY <1>1, <2>5, <4>1 DEF Served
    <3>2. Pending = {}
      BY <3>1 DEF Pending
    <3> QED
      BY <1>1, <3>2
  <2> QED
    BY <2>0, <2>2, <2>3, <2>4, <2>5
<1> QED
  BY <1>1, IInvInvariant, ServedInvariant, PTL

\* A client of such a service is never stuck before its end: it can take its next
\* step, or the handler of the request it waits for can. It needs no check to end,
\* since the service answers a wait that timed out too (operations/client.go:58-113).
THEOREM ClientIsNeverStuck ==
    Spec => [](capacity > 1 =>
                 \A c \in Clients :
                    \/ Ended(c)
                    \/ ClientCanMove(c)
                    \/ client[c].pc = "submitting" /\ RequestCanMove(Item(c)))
<1>1. ASSUME IInv, Served, capacity > 1, NEW c \in Clients, ~Ended(c)
      PROVE  \/ ClientCanMove(c)
             \/ client[c].pc = "submitting" /\ RequestCanMove(Item(c))
  <2>0. /\ client[c].pc \in ClientPcs /\ client[c].next \in Nat
        /\ Len(selection[c]) \in Nat /\ Len(client[c].ids) \in Nat
        /\ mu = "free" /\ Len(channel) <= capacity
        /\ put \in [Jobs -> PutStates] /\ ClientShape /\ ClientOK(c)
    BY <1>1, ClientTypes
    DEF IInv, QueueOK, QueueShape, QueueTypeOK, Served, ClientState
  <2>1. CASE client[c].pc = "submitting"
    <3>1. SubmitOK(c)
      BY <2>0, <2>1 DEF ClientOK
    <3>2. client[c].next \in 1..Len(selection[c]) /\ Item(c) # Missing
      BY <2>0, <2>1, <3>1 DEF SubmitOK
    <3>3. Item(c) \in Jobs
      BY <2>0, <3>2, ClientTypes DEF Item
    <3>4. put[Item(c)] \in PutStates \ {"idle"}
      BY <1>1, <2>0, <2>1, <3>3 DEF Served
    <3>5. put[Item(c)] = "lookup" => Item(c) \notin storage
      BY <1>1 DEF Served, Taken
    <3> QED
      BY <2>0, <2>1, <3>4, <3>5 DEF ClientCanMove, RequestCanMove, PutStates
  <2>2. CASE client[c].pc = "submit"
    BY <2>0, <2>2 DEF ClientCanMove, Submitting
  <2>3. CASE client[c].pc \in {"wait", "fetch"}
    BY <2>0, <2>3 DEF ClientCanMove, Fetching
  <2> QED
    BY <1>1, <2>0, <2>1, <2>2, <2>3 DEF Ended, ClientPcs
<1>2. IInv /\ Served =>
        (capacity > 1 =>
           \A c \in Clients :
              \/ Ended(c)
              \/ ClientCanMove(c)
              \/ client[c].pc = "submitting" /\ RequestCanMove(Item(c)))
  BY <1>1
<1> QED
  BY <1>2, IInvInvariant, ServedInvariant, PTL

-----------------------------------------------------------------------------
(* Every step of a client brings it closer to its end.                     *)

\* What is left at a place, with the n-th of so many items next: two steps for an
\* item of the stream, one for a job to fetch, and those from stage to stage.
LeftAt(place, n, items) ==
    CASE place = "submit" -> 2 * (items + 1 - n) + items + 5
      [] place = "submitting" -> 2 * (items + 1 - n) + items + 4
      [] place = "wait" -> items + 4
      [] place = "fetch" -> (items + 1 - n) + 2
      [] place \in {"returned", "hung", "panicked"} -> 0

ClientLeft(c) == LeftAt(client[c].pc, client[c].next, Len(selection[c]))

LEMMA LeftDrops ==
    ASSUME NEW items \in Nat, NEW n \in 1..(items + 1)
    PROVE  /\ \A p \in ClientPcs : LeftAt(p, n, items) \in Nat
           /\ LeftAt("submit", n + 1, items) < LeftAt("submitting", n, items)
           /\ LeftAt("submit", n + 1, items) < LeftAt("submit", n, items)
           /\ LeftAt("submitting", n, items) < LeftAt("submit", n, items)
           /\ LeftAt("wait", n, items) < LeftAt("submit", n, items)
           /\ LeftAt("fetch", 1, items) < LeftAt("wait", n, items)
           /\ LeftAt("fetch", n + 1, items) < LeftAt("fetch", n, items)
           /\ \A p \in ClientPcs, q \in {"returned", "hung", "panicked"}, k \in Nat :
                p \notin {"returned", "hung", "panicked"}
                  => LeftAt(q, k, items) < LeftAt(p, n, items)
<1>1. items + 1 - n \in Nat /\ items + 1 - (n + 1) = (items + 1 - n) - 1
  OBVIOUS
<1>2. items + 1 - 1 = items
  OBVIOUS
<1> QED
  BY <1>1, <1>2 DEF LeftAt, ClientPcs

\* A client that has not ended is somewhere in its stream or in its list of jobs,
\* both of which are of the length of its stream.
LEMMA Position ==
    ASSUME IInv, NEW c \in Clients
    PROVE  /\ Len(selection[c]) \in Nat /\ client[c].next \in Nat
           /\ client[c].pc \in ClientPcs
           /\ client[c].pc \in {"submit", "submitting", "fetch"}
                => client[c].next \in 1..(Len(selection[c]) + 1)
           /\ client[c].pc = "submitting" => client[c].next <= Len(selection[c])
           /\ client[c].pc = "fetch" => Len(client[c].ids) = Len(selection[c])
BY ClientTypes DEF IInv, ClientOK, SubmitOK, WaitedOK, ClientState

LEMMA ClientWorks ==
    ASSUME IInv, NEW c \in Clients, ClientStep(c) \/ Unanswered(c)
    PROVE  /\ ClientLeft(c)' < ClientLeft(c)
           /\ \A d \in Clients : d # c => client'[d] = client[d]
<1> DEFINE items == Len(selection[c])
           n == client[c].next
           p == client[c].pc
<1>0. /\ items \in Nat /\ n \in Nat /\ p \in ClientPcs
      /\ client \in [Clients -> ClientState] /\ client[c] \in ClientState
      /\ 1 \in 1..(items + 1)
  BY Position, Here DEF IInv, ClientShape
<1>1. selection' = selection
  BY DEF ClientStep, Unanswered, ClientOnly, SubmitError, Submit, SubmitRefused,
     SubmitAccepted, SubmitUnanswered, Submitted, WaitOk, WaitTimeout,
     WaitUnanswered, Fetch, FetchForgotten, FetchUnanswered, FetchedHangs,
     CollectResults
<1>2. \A d \in Clients : d # c => client'[d] = client[d]
  BY <1>0
  DEF ClientStep, Unanswered, ClientOnly, SubmitError, Submit, SubmitRefused,
     SubmitAccepted, SubmitUnanswered, Submitted, Returned, WaitOk, WaitTimeout,
     WaitUnanswered, Fetch, FetchForgotten, FetchUnanswered, FetchedHangs,
     CollectResults
<1>3. \/ /\ p \in {"submit", "submitting"} /\ n \in 1..(items + 1)
         /\ client'[c].pc = "submit" /\ client'[c].next = n + 1
      \/ /\ p = "submit" /\ n \in 1..(items + 1)
         /\ client'[c].pc = "submitting" /\ client'[c].next = n
      \/ /\ p = "submit" /\ n \in 1..(items + 1)
         /\ client'[c].pc = "wait" /\ client'[c].next = n
      \/ p = "wait" /\ client'[c].pc = "fetch" /\ client'[c].next = 1
      \/ /\ p = "fetch" /\ n \in 1..(items + 1)
         /\ client'[c].pc = "fetch" /\ client'[c].next = n + 1
      \/ /\ p \in {"submit", "wait", "fetch"}
         /\ client'[c].pc \in {"returned", "hung", "panicked"}
         /\ client'[c].next = n
  <2>1. CASE \/ SubmitError(c) \/ SubmitRefused(c) \/ SubmitAccepted(c)
             \/ SubmitUnanswered(c)
    BY <1>0, <2>1, Position
    DEF SubmitError, SubmitRefused, SubmitAccepted, SubmitUnanswered,
        Submitting, ClientState
  <2>2. CASE Submit(c) \/ Submitted(c)
    BY <1>0, <2>2, Position
    DEF Submit, Submitted, Submitting, Returned, ClientState
  <2>3. CASE WaitOk(c) \/ WaitTimeout(c) \/ WaitUnanswered(c)
    BY <1>0, <2>3 DEF WaitOk, WaitTimeout, WaitUnanswered, Returned, ClientState
  <2>4. CASE Fetch(c) \/ FetchUnanswered(c)
    BY <1>0, <2>4, Position DEF Fetch, FetchUnanswered, Fetching, ClientState
  <2>5. CASE FetchForgotten(c) \/ FetchedHangs(c)
    BY <1>0, <2>5
    DEF FetchForgotten, FetchedHangs, Fetching, ClientState
  <2>6. ASSUME NEW fails \in BOOLEAN, CollectResults(c, fails)
        PROVE  /\ p = "fetch" /\ client'[c].pc = "returned"
               /\ client'[c].next = n
    BY <1>0, <2>6 DEF CollectResults, ClientState
  <2> QED
    BY <2>1, <2>2, <2>3, <2>4, <2>5, <2>6 DEF ClientStep, Unanswered
<1>4. /\ ClientLeft(c) = LeftAt(p, n, items)
      /\ ClientLeft(c)' = LeftAt(client'[c].pc, client'[c].next, items)
  BY <1>1 DEF ClientLeft
<1> HIDE DEF items, n, p
<1>5. LeftAt(client'[c].pc, client'[c].next, items) < LeftAt(p, n, items)
  <2>1. CASE n \in 1..(items + 1)
    BY <1>0, <1>3, <2>1, LeftDrops
  <2>2. CASE n \notin 1..(items + 1)
    <3>1. p = "wait" /\ LeftAt(p, n, items) = LeftAt(p, 1, items)
      BY <1>3, <2>2, Position DEF LeftAt, items, n, p
    <3> QED
      BY <1>0, <1>3, <3>1, LeftDrops, Position DEF LeftAt
  <2> QED
    BY <2>1, <2>2
<1> QED
  BY <1>2, <1>4, <1>5

\* Each step of a client, answered or not, brings it closer to its end by an amount
\* that nobody else's steps change: it submits, waits, fetches and never goes back,
\* whatever the service and the other clients do (operations/client.go:58-136).
THEOREM ClientsGoForward ==
    Spec => /\ [](\A c \in Clients : ClientLeft(c) \in Nat)
            /\ [][\A c \in Clients :
                    client'[c] # client[c] => ClientLeft(c)' < ClientLeft(c)]_vars
<1>1. ASSUME IInv PROVE \A c \in Clients : ClientLeft(c) \in Nat
  <2> TAKE c \in Clients
  <2>1. /\ Len(selection[c]) \in Nat /\ client[c].next \in Nat
        /\ client[c].pc \in ClientPcs
        /\ client[c].pc \in {"submit", "submitting", "fetch"}
             => client[c].next \in 1..(Len(selection[c]) + 1)
    BY <1>1, Position
  <2>2. CASE client[c].pc \in {"submit", "submitting", "fetch"}
    BY <2>1, <2>2, LeftDrops DEF ClientLeft
  <2>3. CASE client[c].pc \notin {"submit", "submitting", "fetch"}
    BY <2>1, <2>3 DEF ClientLeft, LeftAt, ClientPcs
  <2> QED
    BY <2>2, <2>3
<1>2. IInv /\ [Next]_vars =>
        [\A c \in Clients :
            client'[c] # client[c] => ClientLeft(c)' < ClientLeft(c)]_vars
  BY ClientWorks DEF Next, Expire, ServiceStep, clientVars
<1> QED
  BY <1>1, <1>2, IInvInvariant, PTL DEF Spec

-----------------------------------------------------------------------------
(* Every step of the service uses up what its clients have submitted.      *)

One(x, S) == IF x \in S THEN 1 ELSE 0

RequestsAt(place) == {j \in Jobs : put[j] = place}
WorkersAt(place) == {w \in Workers : worker[w].pc = place}
\* The workers whose check has not set its state to passed.
Undecided == {w \in WorkersAt("run") : worker[w].job \notin passed}

\* The steps that are left to a request's handler and to its job, to a job in the
\* channel, with the dispatcher, and with a worker.
RequestsLeft ==
    8 * Cardinality(RequestsAt("lookup")) + 7 * Cardinality(RequestsAt("send"))
        + Cardinality(RequestsAt("store"))
DispatcherLeft == IF dispatcher.pc = "send" THEN 4 ELSE 0
WorkersLeft ==
    Cardinality(Undecided)
        + 2 * Cardinality(WorkersAt("run")) + Cardinality(WorkersAt("finished"))

QueueLeft == RequestsLeft + 5 * Len(channel) + DispatcherLeft + WorkersLeft

\* Only so many jobs have been submitted.
FewRequests == IsFiniteSet({j \in Jobs : put[j] # "idle"})

\* Two finite sets that agree but for one element.
LEMMA OneDiffers ==
    ASSUME NEW A, NEW B, NEW e, IsFiniteSet(A),
           \A x : x # e => (x \in A <=> x \in B)
    PROVE  /\ IsFiniteSet(B) /\ Cardinality(A) \in Nat /\ Cardinality(B) \in Nat
           /\ Cardinality(B) = Cardinality(A) + One(e, B) - One(e, A)
<1>1. Cardinality(A) \in Nat
  BY FS_CardinalityType
<1>2. CASE e \in A <=> e \in B
  <2>1. A = B
    BY <1>2
  <2> QED
    BY <1>1, <2>1 DEF One
<1>3. CASE e \notin A /\ e \in B
  <2>1. B = A \cup {e}
    BY <1>3
  <2>2. IsFiniteSet(B) /\ Cardinality(B) = Cardinality(A) + 1
    BY <1>3, <2>1, FS_AddElement
  <2> QED
    BY <1>1, <1>3, <2>2 DEF One
<1>4. CASE e \in A /\ e \notin B
  <2>1. B = A \ {e}
    BY <1>4
  <2>2. IsFiniteSet(B) /\ Cardinality(B) = Cardinality(A) - 1
    BY <1>4, <2>1, FS_RemoveElement
  <2>3. Cardinality(B) \in Nat
    BY <2>2, FS_CardinalityType
  <2> QED
    BY <1>1, <1>4, <2>2, <2>3 DEF One
<1> QED
  BY <1>2, <1>3, <1>4

LEMMA LeftTypes ==
    ASSUME IInv, FewRequests
    PROVE  /\ \A p \in PutStates \ {"idle"} :
                 IsFiniteSet(RequestsAt(p)) /\ Cardinality(RequestsAt(p)) \in Nat
           /\ \A p : IsFiniteSet(WorkersAt(p)) /\ Cardinality(WorkersAt(p)) \in Nat
           /\ IsFiniteSet(Undecided) /\ Cardinality(Undecided) \in Nat
           /\ Len(channel) \in Nat
           /\ RequestsLeft \in Nat /\ DispatcherLeft \in Nat /\ WorkersLeft \in Nat
<1>1. ASSUME NEW p \in PutStates \ {"idle"}
      PROVE  IsFiniteSet(RequestsAt(p)) /\ Cardinality(RequestsAt(p)) \in Nat
  <2>1. RequestsAt(p) \subseteq {j \in Jobs : put[j] # "idle"}
    BY <1>1 DEF RequestsAt
  <2> QED
    BY <2>1, FS_Subset, FS_CardinalityType DEF FewRequests
<1>2. ASSUME NEW p
      PROVE  IsFiniteSet(WorkersAt(p)) /\ Cardinality(WorkersAt(p)) \in Nat
  <2>1. IsFiniteSet(Workers) /\ WorkersAt(p) \subseteq Workers
    BY LimitedAssumption, FS_Interval DEF LimitedAssumption, Workers, WorkersAt
  <2> QED
    BY <2>1, FS_Subset, FS_CardinalityType
<1>3. Len(channel) \in Nat
  BY DEF IInv, QueueOK, QueueShape, QueueTypeOK
<1>4. /\ Cardinality(RequestsAt("lookup")) \in Nat
      /\ Cardinality(RequestsAt("send")) \in Nat
      /\ Cardinality(RequestsAt("store")) \in Nat
  BY <1>1 DEF PutStates
<1>5. Cardinality(WorkersAt("run")) \in Nat /\ Cardinality(WorkersAt("finished")) \in Nat
  BY <1>2
<1>6. IsFiniteSet(Undecided) /\ Cardinality(Undecided) \in Nat
  <2>1. Undecided \subseteq WorkersAt("run") /\ IsFiniteSet(WorkersAt("run"))
    BY <1>2 DEF Undecided
  <2> QED
    BY <2>1, FS_Subset, FS_CardinalityType
<1> QED
  BY <1>1, <1>2, <1>3, <1>4, <1>5, <1>6 DEF RequestsLeft, DispatcherLeft, WorkersLeft

\* What a request is worth at each place.
RequestWeight(place) ==
    CASE place = "lookup" -> 8 [] place = "send" -> 7 [] place = "store" -> 1
      [] OTHER -> 0

LEMMA RequestMoves ==
    ASSUME IInv, FewRequests, NEW j \in Jobs, NEW state \in PutStates \ {"idle"},
           Answer(j, state)
    PROVE  /\ RequestsLeft' = RequestsLeft + RequestWeight(state) - RequestWeight(put[j])
           /\ FewRequests'
<1>1. /\ put[j] \in PutStates /\ put'[j] = state
      /\ \A i \in Jobs : i # j => put'[i] = put[i]
  BY DEF IInv, QueueOK, QueueShape, QueueTypeOK, Answer
<1>2. FewRequests'
  <2> DEFINE A == {i \in Jobs : put[i] # "idle"}
             B == {i \in Jobs : put'[i] # "idle"}
  <2>1. B \subseteq A \cup {j}
    BY <1>1
  <2>2. IsFiniteSet(A \cup {j})
    BY FS_AddElement DEF FewRequests
  <2> QED
    BY <2>1, <2>2, FS_Subset DEF FewRequests
<1>3. ASSUME NEW p \in PutStates \ {"idle"}
      PROVE  Cardinality(RequestsAt(p)')
               = Cardinality(RequestsAt(p)) + One(j, RequestsAt(p)')
                     - One(j, RequestsAt(p))
  <2>1. IsFiniteSet(RequestsAt(p))
    BY LeftTypes
  <2>2. \A x : x # j => (x \in RequestsAt(p) <=> x \in RequestsAt(p)')
    BY <1>1 DEF RequestsAt
  <2> QED
    BY <2>1, <2>2, OneDiffers
<1>4. \A p : /\ One(j, RequestsAt(p)) = IF put[j] = p THEN 1 ELSE 0
             /\ One(j, RequestsAt(p)') = IF state = p THEN 1 ELSE 0
  BY <1>1 DEF One, RequestsAt
<1>5. \A p \in {"lookup", "send", "store"} :
        /\ Cardinality(RequestsAt(p)) \in Nat
        /\ Cardinality(RequestsAt(p)')
             = Cardinality(RequestsAt(p)) + (IF state = p THEN 1 ELSE 0)
                   - (IF put[j] = p THEN 1 ELSE 0)
  BY <1>3, <1>4, LeftTypes DEF PutStates
<1> DEFINE n(p) == Cardinality(RequestsAt(p))
           m(p) == Cardinality(RequestsAt(p)')
<1>6. /\ RequestsLeft = 8 * n("lookup") + 7 * n("send") + n("store")
      /\ RequestsLeft' = 8 * m("lookup") + 7 * m("send") + m("store")
  BY DEF RequestsLeft
<1>7. \A p \in {"lookup", "send", "store"} :
        n(p) \in Nat /\ m(p) = n(p) + (IF state = p THEN 1 ELSE 0)
                                 - (IF put[j] = p THEN 1 ELSE 0)
  BY <1>5
<1> HIDE DEF n, m
<1>8. RequestsLeft' = RequestsLeft + RequestWeight(state) - RequestWeight(put[j])
  BY <1>1, <1>6, <1>7 DEF RequestWeight, PutStates
<1> QED
  BY <1>2, <1>8

\* What a worker's job is worth.
WorkerWeight(place) ==
    CASE place = "run" -> 2 [] place = "finished" -> 1 [] OTHER -> 0

LEMMA WorkerMoves ==
    ASSUME IInv, FewRequests, NEW w \in Workers,
           \A v \in Workers : v # w => worker'[v] = worker[v],
           \A v \in Workers :
              v # w /\ worker[v].pc = "run"
                => (worker[v].job \in passed' <=> worker[v].job \in passed)
    PROVE  WorkersLeft'
             = WorkersLeft + WorkerWeight(worker'[w].pc) - WorkerWeight(worker[w].pc)
                   + One(w, Undecided') - One(w, Undecided)
<1>1. ASSUME NEW p
      PROVE  Cardinality(WorkersAt(p)')
               = Cardinality(WorkersAt(p)) + One(w, WorkersAt(p)')
                     - One(w, WorkersAt(p))
  <2>1. IsFiniteSet(WorkersAt(p))
    BY LeftTypes
  <2>2. \A x : x # w => (x \in WorkersAt(p) <=> x \in WorkersAt(p)')
    BY DEF WorkersAt
  <2> QED
    BY <2>1, <2>2, OneDiffers
<1>2. \A p : /\ One(w, WorkersAt(p)) = IF worker[w].pc = p THEN 1 ELSE 0
             /\ One(w, WorkersAt(p)') = IF worker'[w].pc = p THEN 1 ELSE 0
  BY DEF One, WorkersAt
<1>3. /\ Cardinality(Undecided) \in Nat
      /\ Cardinality(Undecided')
           = Cardinality(Undecided) + One(w, Undecided') - One(w, Undecided)
  <2>1. IsFiniteSet(Undecided)
    BY LeftTypes
  <2>2. \A x : x # w => (x \in Undecided <=> x \in Undecided')
    BY DEF Undecided, WorkersAt
  <2> QED
    BY <2>1, <2>2, OneDiffers
<1> DEFINE n(p) == Cardinality(WorkersAt(p))
           m(p) == Cardinality(WorkersAt(p)')
           u == Cardinality(Undecided)
           d == Cardinality(Undecided')
           a == One(w, Undecided)
           b == One(w, Undecided')
<1>4. /\ WorkersLeft = u + 2 * n("run") + n("finished")
      /\ WorkersLeft' = d + 2 * m("run") + m("finished")
  BY DEF WorkersLeft
<1>5. \A p : n(p) \in Nat
  BY LeftTypes
<1>6. \A p : m(p) = n(p) + (IF worker'[w].pc = p THEN 1 ELSE 0)
                      - (IF worker[w].pc = p THEN 1 ELSE 0)
  BY <1>1, <1>2
<1>7. u \in Nat /\ a \in {0, 1} /\ b \in {0, 1} /\ d = u + b - a
  BY <1>3 DEF One
<1> HIDE DEF n, m, u, d, a, b
<1>8. PICK rr \in {0, 1}, rf \in {0, 1}, sr \in {0, 1}, sf \in {0, 1} :
        /\ rr = (IF worker[w].pc = "run" THEN 1 ELSE 0)
        /\ rf = (IF worker[w].pc = "finished" THEN 1 ELSE 0)
        /\ sr = (IF worker'[w].pc = "run" THEN 1 ELSE 0)
        /\ sf = (IF worker'[w].pc = "finished" THEN 1 ELSE 0)
  OBVIOUS
<1>9. /\ WorkerWeight(worker[w].pc) = 2 * rr + rf
      /\ WorkerWeight(worker'[w].pc) = 2 * sr + sf
  BY <1>8 DEF WorkerWeight
<1>10. /\ m("run") = n("run") + sr - rr
       /\ m("finished") = n("finished") + sf - rf
       /\ n("run") \in Nat /\ n("finished") \in Nat
  BY <1>5, <1>6, <1>8
<1>11. WorkersLeft' = WorkersLeft + (2 * sr + sf) - (2 * rr + rf) + b - a
  BY <1>4, <1>7, <1>10
<1>12. WorkersLeft' = WorkersLeft + WorkerWeight(worker'[w].pc)
                         - WorkerWeight(worker[w].pc) + b - a
  BY <1>9, <1>11
<1> QED
  BY <1>12 DEF a, b

\* A worker sets the state of its own check only.
LEMMA OthersPassed ==
    ASSUME IInv, NEW w \in Workers, WorkerStep(w),
           NEW v \in Workers, v # w, worker[v].pc = "run"
    PROVE  worker[v].job \in passed' <=> worker[v].job \in passed
<1>1. CASE SetState(w)
  <2>1. /\ worker[w].pc = "run" /\ passed' = passed \cup {worker[w].job}
    BY <1>1 DEF SetState
  <2>2. worker[w].job \in Jobs /\ Held(v) \cap Held(w) = {}
    BY <2>1 DEF IInv, QueueOK, QueueShape, Single
  <2>3. worker[v].job # worker[w].job
    BY <2>1, <2>2 DEF Held
  <2> QED
    BY <2>1, <2>3
<1>2. CASE ~SetState(w)
  BY <1>2 DEF WorkerStep, Dispatch, MarkComplete, Complete, CompleteBlocks,
              CompleteFrame
<1> QED
  BY <1>1, <1>2

\* Each step of the service takes something off what is left.
LEMMA QueueWorks ==
    ASSUME IInv, FewRequests, QueueStep
    PROVE  QueueLeft' < QueueLeft /\ FewRequests'
<1>0. /\ Len(channel) \in Nat /\ channel \in Seq(Jobs)
      /\ RequestsLeft \in Nat /\ DispatcherLeft \in Nat /\ WorkersLeft \in Nat
      /\ worker \in [Workers -> [pc : {"select", "run", "finished", "blocked"},
                                 job : Jobs \cup {NoJob}]]
  BY LeftTypes DEF IInv, QueueOK, QueueShape, QueueTypeOK
<1>1. ASSUME NEW j \in Jobs, PutStep(j) PROVE QueueLeft' < QueueLeft /\ FewRequests'
  <2>0. UNCHANGED <<dispatcher, worker, passed>>
    BY <1>1 DEF PutStep, PutLookup, PutSend, PutStore
  <2>1. DispatcherLeft' = DispatcherLeft /\ WorkersLeft' = WorkersLeft
    BY <2>0 DEF DispatcherLeft, WorkersLeft, WorkersAt, Undecided
  <2>2. \/ /\ put[j] = "lookup" /\ Answer(j, "send") /\ Len(channel') = Len(channel)
        \/ /\ put[j] = "send" /\ Answer(j, "store")
           /\ Len(channel') = Len(channel) + 1
        \/ /\ put[j] = "send" /\ Answer(j, "refused")
           /\ Len(channel') = Len(channel)
        \/ /\ put[j] = "store" /\ Answer(j, "accepted")
           /\ Len(channel') = Len(channel)
    BY <1>0, <1>1 DEF PutStep, PutLookup, PutSend, PutStore
  <2>3. FewRequests'
    BY <1>1, <2>2, RequestMoves DEF PutStates
  <2>4. \/ RequestsLeft' = RequestsLeft - 1 /\ Len(channel') = Len(channel)
        \/ RequestsLeft' = RequestsLeft - 6 /\ Len(channel') = Len(channel) + 1
        \/ RequestsLeft' = RequestsLeft - 7 /\ Len(channel') = Len(channel)
    <3>1. CASE put[j] = "lookup" /\ Answer(j, "send") /\ Len(channel') = Len(channel)
      <4>1. RequestsLeft' = RequestsLeft + 7 - 8
        BY <3>1, RequestMoves DEF PutStates, RequestWeight
      <4> QED
        BY <1>0, <3>1, <4>1
    <3>2. CASE put[j] = "send" /\ Answer(j, "store") /\ Len(channel') = Len(channel) + 1
      <4>1. RequestsLeft' = RequestsLeft + 1 - 7
        BY <3>2, RequestMoves DEF PutStates, RequestWeight
      <4> QED
        BY <1>0, <3>2, <4>1
    <3>3. CASE put[j] = "send" /\ Answer(j, "refused") /\ Len(channel') = Len(channel)
      <4>1. RequestsLeft' = RequestsLeft + 0 - 7
        BY <3>3, RequestMoves DEF PutStates, RequestWeight
      <4> QED
        BY <1>0, <3>3, <4>1
    <3>4. CASE put[j] = "store" /\ Answer(j, "accepted") /\ Len(channel') = Len(channel)
      <4>1. RequestsLeft' = RequestsLeft + 0 - 1
        BY <3>4, RequestMoves DEF PutStates, RequestWeight
      <4> QED
        BY <1>0, <3>4, <4>1
    <3> QED
      BY <2>2, <3>1, <3>2, <3>3, <3>4
  <2>5. QueueLeft' = RequestsLeft' + 5 * Len(channel') + DispatcherLeft + WorkersLeft
    BY <2>1 DEF QueueLeft
  <2> QED
    BY <1>0, <2>3, <2>4, <2>5 DEF QueueLeft
<1>2. ASSUME UNCHANGED put PROVE RequestsLeft' = RequestsLeft /\ FewRequests'
  BY <1>2 DEF RequestsLeft, RequestsAt, FewRequests
<1>3. CASE NextJob
  <2>1. UNCHANGED <<put, worker, passed>>
    BY <1>3 DEF NextJob
  <2>2. RequestsLeft' = RequestsLeft /\ WorkersLeft' = WorkersLeft /\ FewRequests'
    BY <1>2, <2>1 DEF WorkersLeft, WorkersAt, Undecided
  <2>3. DispatcherLeft = 0 /\ DispatcherLeft' = 4
    BY <1>3 DEF NextJob, DispatcherLeft, At
  <2>4. Len(channel') = Len(channel) - 1
    BY <1>0, <1>3 DEF NextJob
  <2>5. QueueLeft' = RequestsLeft + 5 * Len(channel') + 4 + WorkersLeft
    BY <2>2, <2>3 DEF QueueLeft
  <2> QED
    BY <1>0, <2>2, <2>3, <2>4, <2>5 DEF QueueLeft
<1>4. ASSUME NEW w \in Workers, WorkerStep(w)
      PROVE  QueueLeft' < QueueLeft /\ FewRequests'
  <2>1. /\ UNCHANGED <<put, channel>>
        /\ \A v \in Workers : v # w => worker'[v] = worker[v]
    BY <1>0, <1>4
    DEF WorkerStep, Dispatch, SetState, MarkComplete, Complete, CompleteBlocks,
        CompleteFrame
  <2>2. RequestsLeft' = RequestsLeft /\ FewRequests'
    BY <1>2, <2>1
  <2>3. \/ /\ worker[w].pc = "select" /\ worker'[w].pc = "run"
           /\ DispatcherLeft = 4 /\ DispatcherLeft' = 0 /\ w \notin Undecided
        \/ /\ worker[w].pc = "run" /\ worker'[w].pc = "run"
           /\ DispatcherLeft' = DispatcherLeft
           /\ w \in Undecided /\ w \notin Undecided'
        \/ /\ worker[w].pc = "run" /\ worker'[w].pc = "finished"
           /\ DispatcherLeft' = DispatcherLeft /\ w \notin Undecided'
        \/ /\ worker[w].pc = "finished" /\ worker'[w].pc \in {"select", "blocked"}
           /\ DispatcherLeft' = DispatcherLeft
           /\ w \notin Undecided /\ w \notin Undecided'
    BY <1>0, <1>4
    DEF WorkerStep, Dispatch, SetState, MarkComplete, Complete, CompleteBlocks,
        CompleteFrame, DispatcherLeft, At, Undecided, WorkersAt
  <2>4. \A v \in Workers :
          v # w /\ worker[v].pc = "run"
            => (worker[v].job \in passed' <=> worker[v].job \in passed)
    BY <1>4, OthersPassed
  <2>5. WorkersLeft'
          = WorkersLeft + WorkerWeight(worker'[w].pc) - WorkerWeight(worker[w].pc)
                + One(w, Undecided') - One(w, Undecided)
    BY <2>1, <2>4, WorkerMoves
  <2>6. \/ /\ WorkersLeft' \in {WorkersLeft + 2, WorkersLeft + 3}
           /\ DispatcherLeft = 4 /\ DispatcherLeft' = 0
        \/ /\ WorkersLeft' \in {WorkersLeft - 1, WorkersLeft - 2}
           /\ DispatcherLeft' = DispatcherLeft
    BY <1>0, <2>3, <2>5 DEF WorkerWeight, One
  <2>7. QueueLeft' = RequestsLeft + 5 * Len(channel) + DispatcherLeft' + WorkersLeft'
    BY <2>1, <2>2 DEF QueueLeft
  <2> QED
    BY <1>0, <2>2, <2>6, <2>7 DEF QueueLeft
<1> QED
  BY <1>1, <1>3, <1>4 DEF QueueStep

\* A submission adds the eight steps of a job, and no other step of a client any.
LEMMA SubmissionAdds ==
    ASSUME IInv, FewRequests, NEW c \in Clients,
           ClientStep(c) \/ Unanswered(c) \/ Expire(c)
    PROVE  /\ FewRequests'
           /\ \/ UNCHANGED queueVars
              \/ Submit(c) /\ QueueLeft' = QueueLeft + 8
<1>1. CASE Submit(c)
  <2>1. /\ Submitting(c) /\ Item(c) # Missing /\ Answer(Item(c), "lookup")
        /\ UNCHANGED <<channel, dispatcher, worker, passed>>
    BY <1>1 DEF Submit
  <2>2. Item(c) \in Jobs /\ put[Item(c)] = "idle"
    BY <2>1, SubmitsNew
  <2>3. RequestsLeft' = RequestsLeft + 8 - 0 /\ FewRequests'
    BY <2>1, <2>2, RequestMoves DEF PutStates, RequestWeight
  <2>4. QueueLeft' = RequestsLeft' + 5 * Len(channel) + DispatcherLeft + WorkersLeft
    BY <2>1 DEF QueueLeft, DispatcherLeft, WorkersLeft, WorkersAt, Undecided
  <2> QED
    BY <1>1, <2>3, <2>4, LeftTypes DEF QueueLeft
<1>2. CASE ~Submit(c)
  <2>1. UNCHANGED queueVars
    BY <1>2
    DEF ClientStep, Unanswered, Expire, ClientOnly, SubmitError, SubmitRefused,
        SubmitAccepted, SubmitUnanswered, Submitted, WaitOk, WaitTimeout,
        WaitUnanswered, Fetch, FetchForgotten, FetchUnanswered, FetchedHangs,
        CollectResults
  <2> QED
    BY <2>1 DEF queueVars, FewRequests
<1> QED
  BY <1>1, <1>2

\* What the service has left to do is finite at any time. Each submission adds eight
\* steps to it, nothing else a client does adds any, and each step of a handler, of
\* the dispatcher and of a worker takes some away: with PoolIsNeverStuck, a service
\* that gets no more submissions can only finish what it has (queue/fixed.go:43-192, pool/local.go:63-123).
THEOREM ServiceDrains ==
    Spec => /\ [](QueueLeft \in Nat)
            /\ [][\/ QueueLeft' < QueueLeft
                  \/ UNCHANGED queueVars
                  \/ \E c \in Clients : Submit(c) /\ QueueLeft' = QueueLeft + 8]_vars
<1>1. Init => FewRequests
  <2>1. ASSUME Init PROVE {j \in Jobs : put[j] # "idle"} = {}
    BY <2>1 DEF Init, QueueInit
  <2> QED
    BY <2>1, FS_EmptySet DEF FewRequests
<1>2. IInv /\ FewRequests => QueueLeft \in Nat
  BY LeftTypes DEF QueueLeft
<1>3. IInv /\ FewRequests /\ [Next]_vars
        => /\ FewRequests'
           /\ [\/ QueueLeft' < QueueLeft
               \/ UNCHANGED queueVars
               \/ \E c \in Clients : Submit(c) /\ QueueLeft' = QueueLeft + 8]_vars
  <2>1. ASSUME UNCHANGED vars PROVE UNCHANGED put
    BY <2>1 DEF vars, queueVars
  <2>2. ASSUME UNCHANGED put, FewRequests PROVE FewRequests'
    BY <2>2 DEF FewRequests
  <2> QED
    BY <2>1, <2>2, QueueWorks, SubmissionAdds DEF Next, ServiceStep
<1> QED
  BY <1>1, <1>2, <1>3, IInvInvariant, PTL DEF Spec

=============================================================================
