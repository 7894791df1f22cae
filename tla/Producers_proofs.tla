--------------------------- MODULE Producers_proofs ---------------------------
(***************************************************************************)
(* Theorems about Producers, for every format, any batches of jobs, any    *)
(* number of calls of Populate.                                            *)
(***************************************************************************)
EXTENDS Producers, ListFacts

-----------------------------------------------------------------------------
(* The inductive invariant.                                                *)

\* The jobs of the batch that jobsToCheck has taken.
Taken == Len(Batch) - Len(jobs)

Fails(u) == u # NotChecker /\ ~u.passed

\* The failures a producer holds, where Populate keeps them meanwhile.
Noted ==
    IF format = "gotest" /\ pc = "populate" THEN tally > 0 ELSE HasFailures

\* The channel yields the batch in order, and the unit is of the batch.
Draining ==
    /\ Len(jobs) <= Len(Batch)
    /\ \A i \in 1..Len(jobs) : jobs[i] = Batch[Taken + i]
    /\ unit # <<>> => \E i \in 1..Taken : unit = <<Batch[i]>>
    /\ ~converting => jobs = <<>> /\ unit = <<>>

\* Every job that was taken is about to be sent, or was kept by what it is: an
\* alien one as an error, a failing one as a failure.
Accounted ==
    \A i \in 1..Taken :
        /\ Batch[i] = NotChecker => errors \/ unit = <<Batch[i]>>
        /\ Fails(Batch[i]) => Noted \/ unit = <<Batch[i]>>

AnyAlien == \E i \in 1..Len(Batch) : Batch[i] = NotChecker
AnyFails == \E i \in 1..Len(Batch) : Fails(Batch[i])

\* A producer that was populated once has nothing of another batch.
FirstOnly ==
    /\ tally > 0 => AnyFails
    /\ failed => AnyAlien \/ AnyFails
    /\ format \in {"log", "json"} /\ HasFailures => AnyFails

\* Populate returned without an error.
Collected ==
    /\ ~AnyAlien
    /\ AnyFails => HasFailures
    /\ returned = "none"

New ==
    /\ batches = <<>> /\ content = <<>> /\ ~failed /\ tally = 0
    /\ returned = "none"

\* How far the caller has come, and what it knows there.
Flow ==
    /\ pc = "idle" <=> batches = <<>>
    /\ pc = "idle" => New
    /\ reporting => ~writeFile
    /\ pc # "idle" => Draining /\ (Len(batches) = 1 => FirstOnly)
    /\ pc # "populate" => ~converting
    /\ pc = "populate" =>
         Accounted /\ (errors => AnyAlien) /\ returned = "none"
    /\ pc \in {"print", "file"} => Collected
    /\ pc = "file" =>
         /\ errors = (printFailed \/ HasFailures)
         /\ printFailed \/ printed = Rendered
         /\ writeFile /\ ~reporting
    /\ NilIsSound /\ ErrorHasReason /\ FileIsAttempted

Item == [name : Names, passed : BOOLEAN \cup {ByReference}]

-----------------------------------------------------------------------------
(* The types.                                                              *)

\* A new producer is typed.
LEMMA InitType == Init => TypeOK
<1> SUFFICES ASSUME Init PROVE TypeOK
  OBVIOUS
<1> USE ProducersAssumption DEF ProducersAssumption
<1>1. batches \in Seq(Batches) /\ Len(batches) <= MaxPopulates
  BY DEF Init
<1>2. /\ jobs \in Seq(Output \cup {NotChecker})
      /\ content \in Seq([name : Names, passed : BOOLEAN \cup {ByReference}])
      /\ tally \in Nat
  BY DEF Init
<1> QED
  BY <1>1, <1>2 DEF Init, TypeOK

\* What a producer makes of a check is a longer list and a count.
LEMMA KeptType ==
  ASSUME TypeOK, NEW u \in Output
  PROVE  /\ Kept(u).content \in Seq(Item) /\ Kept(u).tally \in Nat
         /\ Kept(u).failed \in BOOLEAN
<1>0. /\ content \in Seq(Item) /\ tally \in Nat /\ failed \in BOOLEAN
      /\ format \in AllFormats
  BY ProducersAssumption DEF TypeOK, Item, ProducersAssumption
<1>1. u \in Item /\ [u EXCEPT !.passed = ByReference] \in Item
      /\ u.passed \in BOOLEAN
  BY DEF Output, Item
<1>2. /\ Append(content, u) \in Seq(Item)
      /\ Append(content, [u EXCEPT !.passed = ByReference]) \in Seq(Item)
  BY <1>0, <1>1
<1> DEFINE Typed(k) == /\ k.content \in Seq(Item) /\ k.tally \in Nat
                       /\ k.failed \in BOOLEAN
<1>3. Typed(produceResults(u)) /\ Typed(addMessage(u))
  BY <1>0, <1>1, <1>2 DEF As, produceResults, addMessage
<1>4. Typed(addItem(u)) /\ Typed(addToReport(u))
  BY <1>0, <1>1, <1>2 DEF As, addItem, addToReport
<1>5. \/ Kept(u) = produceResults(u) \/ Kept(u) = addMessage(u)
      \/ Kept(u) = addItem(u) \/ Kept(u) = addToReport(u)
  BY <1>0 DEF Kept, AllFormats
<1> QED
  BY <1>3, <1>4, <1>5

\* Every step keeps the types.
LEMMA NextType == TypeOK /\ [Next]_vars => TypeOK'
<1> SUFFICES ASSUME TypeOK, [Next]_vars PROVE TypeOK'
  OBVIOUS
<1> USE ProducersAssumption DEF ProducersAssumption
<1>1. ASSUME NEW b \in Batches, Populate(b) PROVE TypeOK'
  <2>1. /\ batches' \in Seq(Batches) /\ Len(batches') <= MaxPopulates
    BY <1>1 DEF Populate, TypeOK
  <2>2. jobs' \in Seq(Output \cup {NotChecker})
    BY <1>1 DEF Populate
  <2>3. content' \in Seq([name : Names, passed : BOOLEAN \cup {ByReference}])
    BY <1>1 DEF Populate, TypeOK
  <2>4. check' \in Output \cup {ZeroOutput}
    BY <1>1 DEF Populate, ZeroOutput
  <2> QED
    BY <1>1, <2>1, <2>2, <2>3, <2>4 DEF Populate, TypeOK, options
<1>2. CASE Convert
  <2>1. Head(jobs) \in Output \cup {NotChecker}
        /\ jobs' \in Seq(Output \cup {NotChecker})
    BY <1>2 DEF Convert, TypeOK
  <2>2. unit' \in {<<>>} \cup {<<u>> : u \in Output \cup {NotChecker}}
    BY <1>2, <2>1 DEF Convert
  <2> QED
    BY <1>2, <2>1, <2>2 DEF Convert, TypeOK, options, producer, result
<1>3. CASE ConvertEnds
  BY <1>3 DEF ConvertEnds, TypeOK, options, producer, result
<1>4. CASE PopulateUnit
  <2>1. PICK u \in Output \cup {NotChecker} :
          IF u = NotChecker THEN check' = ZeroOutput /\ Becomes(Caught)
                            ELSE check' = u /\ Becomes(Kept(u))
    BY <1>4 DEF PopulateUnit
  <2>2. /\ content' \in Seq(Item) /\ tally' \in Nat /\ failed' \in BOOLEAN
        /\ check' \in Output \cup {ZeroOutput}
    <3>1. CASE u = NotChecker
      BY <2>1, <3>1 DEF Becomes, Caught, As, TypeOK, Item
    <3>2. CASE u # NotChecker
      BY <2>1, <3>2, KeptType DEF Becomes
    <3> QED
      BY <3>1, <3>2
  <2>3. errors' \in BOOLEAN
    BY <1>4 DEF PopulateUnit
  <2> QED
    BY <1>4, <2>2, <2>3
    DEF PopulateUnit, TypeOK, options, result, Item
<1>5. CASE PopulateReturns
  <2>1. failed' \in BOOLEAN
    <3>1. (tally > 0) \in BOOLEAN /\ failed \in BOOLEAN
      BY DEF TypeOK
    <3>2. failed' = (tally > 0) \/ failed' = failed
      BY <1>5 DEF PopulateReturns
    <3> QED
      BY <3>1, <3>2
  <2>2. pc' \in {"print", "returned"} /\ returned' \in {"none", "nil", "error"}
    BY <1>5 DEF PopulateReturns, TypeOK
  <2>3. UNCHANGED <<options, batches, converter, check, tally, errors, content,
                    printFailed, fileFailed>>
    BY <1>5 DEF PopulateReturns
  <2> QED
    BY <2>1, <2>2, <2>3 DEF TypeOK, options, converter
<1>6. CASE PrintContent
  <2>1. errors' \in BOOLEAN /\ printFailed' \in BOOLEAN
    BY <1>6 DEF PrintContent, Show, MayFailToPrint, HasFailures, TypeOK
  <2>2. pc' \in {"file", "returned"} /\ returned' \in {"none", "nil", "error"}
    BY <1>6 DEF PrintContent, TypeOK
  <2>3. UNCHANGED <<options, batches, converter, check, tally, content, failed,
                    fileFailed>>
    BY <1>6 DEF PrintContent
  <2> QED
    BY <2>1, <2>2, <2>3 DEF TypeOK, options, converter
<1>7. CASE Report
  BY <1>7 DEF Report, TypeOK, options, converter, producer
<1>8. CASE ToFile
  <2>1. fileFailed' \in BOOLEAN
    BY <1>8 DEF ToFile, WriteContent, LosesWriteErrors
  <2> QED
    BY <1>8, <2>1 DEF ToFile, TypeOK, options, converter, producer
<1>9. CASE UNCHANGED vars
  BY <1>9 DEF TypeOK, vars, options, converter, producer, result
<1> QED
  BY <1>1, <1>2, <1>3, <1>4, <1>5, <1>6, <1>7, <1>8, <1>9 DEF Next, Done

\* Every reachable state has its types, whatever the batches hold: a failing
\* or an alien job, or none at all, and however often they are populated.
THEOREM TypeCorrect == Spec => []TypeOK
BY InitType, NextType, PTL DEF Spec

-----------------------------------------------------------------------------
(* The invariant is inductive.                                             *)

\* A new producer has nothing to account for.
LEMMA InitFlow == Init => Flow
<1> SUFFICES ASSUME Init PROVE Flow
  OBVIOUS
<1>1. New
  BY DEF Init, New
<1> QED
  BY <1>1 DEF Init, Flow, NilIsSound, ErrorHasReason, FileIsAttempted

\* A batch is there and the taken part of it is in its bounds.
LEMMA Bounds ==
  ASSUME TypeOK, Flow, pc # "idle"
  PROVE  /\ Batch \in Seq(Output \cup {NotChecker}) /\ Batch \in Batches
         /\ Len(Batch) \in Nat /\ Len(jobs) \in Nat /\ Taken \in Nat
         /\ Taken + Len(jobs) = Len(Batch)
         /\ \A i \in 1..Len(Batch) : Batch[i] \in Output \cup {NotChecker}
<1>1. Len(batches) \in 1..Len(batches) /\ batches \in Seq(Batches)
  BY DEF TypeOK, Flow
<1>2. Batch \in Batches /\ Batch \in Seq(Output \cup {NotChecker})
  BY <1>1, ProducersAssumption DEF Batch, ProducersAssumption
<1> QED
  BY <1>2 DEF Taken, TypeOK, Flow, Draining

\* A batch is sound if it has neither an alien job nor a failing check.
LEMMA SoundIff ==
  ASSUME TypeOK, Flow, pc # "idle"
  PROVE  Sound(Batch) <=> ~AnyAlien /\ ~AnyFails
BY Bounds DEF Sound, AnyAlien, AnyFails, Fails

\* A new batch is all in the channel, and a first one finds nothing of another.
LEMMA PopulateFlow ==
  ASSUME TypeOK, Flow, NEW b \in Batches, Populate(b)
  PROVE  Flow'
<1>1. /\ batches \in Seq(Batches) /\ batches' = Append(batches, b)
      /\ Len(batches') = Len(batches) + 1 /\ Batch' = b /\ batches' # <<>>
      /\ Len(batches) \in Nat
  BY DEF Populate, TypeOK, Batch
<1>2. b \in Seq(Output \cup {NotChecker}) /\ jobs' = b /\ Len(b) \in Nat
  BY ProducersAssumption DEF Populate, ProducersAssumption
<1>3. Taken' = 0
  BY <1>1, <1>2 DEF Taken
<1>4. Draining'
  BY <1>1, <1>2, <1>3 DEF Draining, Populate
<1>5. Accounted'
  BY <1>3 DEF Accounted
<1>6. Len(batches') = 1 => FirstOnly'
  <2> SUFFICES ASSUME Len(batches') = 1 PROVE FirstOnly'
    OBVIOUS
  <2>1. batches = <<>>
    BY <1>1
  <2>2. content = <<>> /\ ~failed
    BY <2>1 DEF Flow, New
  <2>3. content' = <<>> /\ ~failed' /\ tally' = 0
    BY <2>2 DEF Populate
  <2>4. format' \in {"log", "json"} => ~HasFailures'
    BY <2>3 DEF HasFailures
  <2> QED
    BY <2>3, <2>4 DEF FirstOnly
<1>7. /\ pc' = "populate" /\ returned' = "none" /\ ~errors'
      /\ UNCHANGED options
  BY DEF Populate
<1> QED
  BY <1>1, <1>4, <1>5, <1>6, <1>7
  DEF Flow, NilIsSound, ErrorHasReason, FileIsAttempted, options

\* What jobsToCheck does leaves the producer and the caller alone.
LEMMA ConvertFlow ==
  ASSUME TypeOK, Flow, Convert \/ ConvertEnds
  PROVE  Flow'
<1>0. /\ UNCHANGED <<options, batches, pc, producer, result>>
      /\ pc = "populate" /\ unit = <<>> /\ converting
  BY DEF Convert, ConvertEnds, Flow
<1>1. /\ Batch' = Batch /\ Noted' = Noted /\ AnyAlien' = AnyAlien
      /\ AnyFails' = AnyFails /\ FirstOnly' = FirstOnly
  BY <1>0 DEF options, producer, Batch, Noted, HasFailures, AnyAlien,
     AnyFails, FirstOnly
<1>2. Draining' /\ Accounted'
  <2>1. CASE ConvertEnds
    <3>1. UNCHANGED <<jobs, unit>> /\ jobs = <<>>
      BY <2>1 DEF ConvertEnds
    <3>2. Taken' = Taken
      BY <1>1, <3>1 DEF Taken
    <3> QED
      BY <1>0, <1>1, <3>1, <3>2 DEF Flow, Draining, Accounted, producer
  <2>2. CASE Convert
    <3>1. /\ jobs # <<>> /\ jobs' = Tail(jobs) /\ UNCHANGED converting
          /\ unit' = IF Suppressed(Head(jobs)) THEN <<>> ELSE <<Head(jobs)>>
          /\ jobs \in Seq(Output \cup {NotChecker})
      BY <2>2 DEF Convert, TypeOK
    <3>2. /\ Len(jobs') = Len(jobs) - 1 /\ Len(jobs) >= 1
          /\ jobs[1] = Head(jobs) /\ Head(jobs) \in Output \cup {NotChecker}
          /\ \A i \in 1..Len(jobs') : i + 1 \in 1..Len(jobs)
                                        /\ jobs'[i] = jobs[i + 1]
      BY <3>1
    <3>3. /\ Taken' = Taken + 1 /\ Taken \in Nat /\ Len(jobs) \in Nat
          /\ Len(Batch) \in Nat /\ Taken' \in 1..Len(Batch)
      BY <1>0, <1>1, <3>1, <3>2, Bounds DEF Taken
    <3>4. Batch[Taken'] = Head(jobs)
      BY <1>0, <3>2, <3>3 DEF Flow, Draining
    <3>5. \A i \in 1..Len(jobs') : jobs'[i] = Batch[Taken' + i]
      <4> TAKE i \in 1..Len(jobs')
      <4>1. jobs'[i] = Batch[Taken + (i + 1)]
        BY <1>0, <3>2 DEF Flow, Draining
      <4> QED
        BY <3>3, <4>1
    <3>6. unit' # <<>> => unit' = <<Batch[Taken']>>
      BY <3>1, <3>4
    <3>7. Draining'
      BY <1>0, <1>1, <3>1, <3>2, <3>3, <3>5, <3>6 DEF Draining, Flow
    <3>8. \A i \in 1..Taken : (Batch[i] = NotChecker => errors)
                                /\ (Fails(Batch[i]) => Noted)
      BY <1>0 DEF Flow, Accounted
    <3>9. unit' = <<>> => Batch[Taken'] # NotChecker /\ ~Fails(Batch[Taken'])
      BY <3>1, <3>4 DEF Suppressed, Fails
    <3>10. \A i \in 1..Taken' : i \in 1..Taken \/ i = Taken'
      BY <3>3
    <3>11. UNCHANGED errors
      BY <1>0 DEF producer
    <3>12. Accounted'
      BY <1>1, <3>6, <3>8, <3>9, <3>10, <3>11 DEF Accounted, Fails
    <3> QED
      BY <3>7, <3>12
  <2> QED
    BY <2>1, <2>2
<1> QED
  BY <1>0, <1>1, <1>2
  DEF Flow, NilIsSound, ErrorHasReason, FileIsAttempted, options, producer,
      result

\* A unit leaves the channel's hand and is noted for what it is.
LEMMA UnitFlow ==
  ASSUME TypeOK, Flow, PopulateUnit
  PROVE  Flow'
<1>0. /\ UNCHANGED <<options, batches, jobs, converting, pc, result>>
      /\ pc = "populate" /\ unit' = <<>> /\ Batch' = Batch /\ Taken' = Taken
      /\ AnyAlien' = AnyAlien /\ AnyFails' = AnyFails
  BY DEF PopulateUnit, Batch, Taken, AnyAlien, AnyFails
<1>1. PICK u \in Output \cup {NotChecker} :
        /\ unit = <<u>>
        /\ u = NotChecker => Becomes(Caught)
        /\ u # NotChecker => Becomes(Kept(u))
        /\ errors' = (errors \/ u = NotChecker)
  BY DEF PopulateUnit
<1>2. PICK k \in 1..Taken : Batch[k] = u
  BY <1>0, <1>1 DEF Flow, Draining
<1>3. /\ k \in 1..Len(Batch) /\ Taken \in 0..Len(Batch)
      /\ content \in Seq(Item) /\ tally \in Nat /\ Len(content) \in Nat
      /\ format \in AllFormats
  BY <1>0, <1>2, Bounds, ProducersAssumption
  DEF TypeOK, Item, ProducersAssumption
<1>4. /\ tally' \in {tally, tally + 1}
      /\ \A i \in 1..Len(content) :
           i \in 1..Len(content') /\ content'[i] = content[i]
  <2>1. CASE u = NotChecker
    BY <1>1, <1>3, <2>1 DEF Becomes, Caught, As
  <2>2. CASE u # NotChecker
    <3>1. /\ tally' = Kept(u).tally /\ content' = Kept(u).content
      BY <1>1, <2>2 DEF Becomes
    <3>2. \/ Kept(u) = produceResults(u) \/ Kept(u) = addMessage(u)
          \/ Kept(u) = addItem(u) \/ Kept(u) = addToReport(u)
      BY <1>3 DEF Kept, AllFormats
    <3>3. /\ Kept(u).tally \in {tally, tally + 1}
          /\ \/ Kept(u).content = Append(content, u)
             \/ Kept(u).content =
                  Append(content, [u EXCEPT !.passed = ByReference])
      BY <3>2 DEF produceResults, addMessage, addItem, addToReport, As
    <3>4. \A e : \A i \in 1..Len(content) :
            i \in 1..Len(Append(content, e)) /\ Append(content, e)[i] = content[i]
      BY <1>3
    <3> QED
      BY <3>1, <3>3, <3>4
  <2> QED
    BY <2>1, <2>2
<1>5. failed => failed'
  BY <1>1, <1>3
  DEF Becomes, Caught, Kept, As, produceResults, addMessage, addItem,
      addToReport, AllFormats
<1>6. Noted => Noted'
  BY <1>0, <1>3, <1>4, <1>5 DEF Noted, HasFailures, options
<1>7. Fails(u) => Noted'
  <2> SUFFICES ASSUME Fails(u) PROVE Noted'
    OBVIOUS
  <2>0. u # NotChecker /\ Becomes(Kept(u)) /\ u \in Output /\ ~u.passed
        /\ format' = format /\ pc' = "populate"
    BY <1>0, <1>1 DEF Fails, options
  <2>1. CASE format = "gotest"
    BY <1>3, <2>0, <2>1 DEF Becomes, Kept, produceResults, As, Noted
  <2>2. CASE format \in {"log", "json"}
    <3>1. content' = Append(content, u)
      BY <2>0, <2>2 DEF Becomes, Kept, addMessage, As
    <3>2. Len(content') = Len(content) + 1 /\ content'[Len(content) + 1] = u
      BY <1>3, <3>1
    <3>3. HasFailures'
      BY <1>3, <2>0, <2>2, <3>2 DEF HasFailures
    <3> QED
      BY <2>0, <2>2, <3>3 DEF Noted
  <2>3. CASE format \in {"result", "report"}
    <3>1. failed'
      BY <2>0, <2>3 DEF Becomes, Kept, addItem, addToReport, As
    <3> QED
      BY <2>0, <2>3, <3>1 DEF Noted, HasFailures
  <2> QED
    BY <1>3, <2>1, <2>2, <2>3 DEF AllFormats
<1>8. Accounted'
  <2> SUFFICES ASSUME NEW i \in 1..Taken
               PROVE  /\ Batch[i] = NotChecker => errors'
                      /\ Fails(Batch[i]) => Noted'
    BY <1>0 DEF Accounted, Fails
  <2>1. /\ Batch[i] = NotChecker => errors \/ unit = <<Batch[i]>>
        /\ Fails(Batch[i]) => Noted \/ unit = <<Batch[i]>>
    BY <1>0 DEF Flow, Accounted
  <2>2. unit = <<Batch[i]>> => Batch[i] = u
    BY <1>1
  <2> QED
    BY <1>1, <1>6, <1>7, <2>1, <2>2
<1>9. u = NotChecker => AnyAlien
  BY <1>2, <1>3 DEF AnyAlien
<1>10. u # NotChecker /\ ~u.passed => AnyFails
  BY <1>2, <1>3 DEF AnyFails, Fails
<1>11. Len(batches) = 1 => FirstOnly'
  <2> SUFFICES ASSUME Len(batches) = 1 PROVE FirstOnly'
    OBVIOUS
  <2>0. FirstOnly /\ format' = format
    BY <1>0 DEF Flow, options
  <2>1. tally' > 0 => AnyFails
    BY <1>1, <1>3, <1>10, <2>0
    DEF FirstOnly, Becomes, Caught, Kept, As, produceResults, addMessage,
        addItem, addToReport, AllFormats
  <2>2. failed' => AnyAlien \/ AnyFails
    BY <1>1, <1>3, <1>9, <1>10, <2>0
    DEF FirstOnly, Becomes, Caught, Kept, As, produceResults, addMessage,
        addItem, addToReport, AllFormats
  <2>3. format \in {"log", "json"} /\ HasFailures' => AnyFails
    <3> SUFFICES ASSUME format \in {"log", "json"}, HasFailures'
                 PROVE  AnyFails
      OBVIOUS
    <3>1. CASE u = NotChecker
      <4>1. content' = content
        BY <1>1, <3>1 DEF Becomes, Caught, As
      <4>2. HasFailures
        BY <2>0, <4>1 DEF HasFailures
      <4> QED
        BY <2>0, <4>2 DEF FirstOnly
    <3>2. CASE u # NotChecker
      <4>1. content' = Append(content, u)
        BY <1>1, <3>2 DEF Becomes, Kept, addMessage, As
      <4>2. PICK i \in DOMAIN content' : ~content'[i].passed
        BY <2>0 DEF HasFailures
      <4>3. \/ i \in DOMAIN content /\ content'[i] = content[i]
            \/ content'[i] = u
        BY <1>3, <4>1, <4>2
      <4>4. CASE i \in DOMAIN content /\ content'[i] = content[i]
        <5>1. HasFailures
          BY <4>2, <4>4 DEF HasFailures
        <5> QED
          BY <2>0, <5>1 DEF FirstOnly
      <4>5. CASE content'[i] = u
        BY <1>10, <3>2, <4>2, <4>5
      <4> QED
        BY <4>3, <4>4, <4>5
    <3> QED
      BY <3>1, <3>2
  <2> QED
    BY <1>0, <2>0, <2>1, <2>2, <2>3 DEF FirstOnly
<1>12. Draining'
  BY <1>0 DEF Draining, Flow
<1>13. errors' => AnyAlien'
  BY <1>0, <1>1, <1>9 DEF Flow
<1> QED
  BY <1>0, <1>8, <1>11, <1>12, <1>13
  DEF Flow, NilIsSound, ErrorHasReason, FileIsAttempted, options, result

\* When the channel is closed everything is noted, for gotest in its field.
LEMMA ReturnsFlow ==
  ASSUME TypeOK, Flow, PopulateReturns
  PROVE  Flow'
<1>0. /\ UNCHANGED <<options, batches, converter, check, tally, errors,
                     content, printed, printFailed, written, fileFailed>>
      /\ pc = "populate" /\ ~converting
      /\ Batch' = Batch /\ AnyAlien' = AnyAlien /\ AnyFails' = AnyFails
  BY DEF PopulateReturns, Batch, AnyAlien, AnyFails
<1>1. jobs = <<>> /\ unit = <<>> /\ Taken = Len(Batch)
  BY <1>0, Bounds DEF Flow, Draining, Taken
<1>2. /\ AnyAlien => errors
      /\ AnyFails => Noted
  BY <1>0, <1>1 DEF Flow, Accounted, AnyAlien, AnyFails
<1>3. Draining'
  BY <1>0, <1>1 DEF Flow, Draining, Taken, converter
<1>4. Len(batches) = 1 => FirstOnly'
  <2> SUFFICES ASSUME Len(batches) = 1 PROVE FirstOnly'
    OBVIOUS
  <2>1. FirstOnly
    BY <1>0 DEF Flow
  <2>2. failed' => failed \/ tally > 0
    BY DEF PopulateReturns
  <2>3. format' \in {"log", "json"} => HasFailures' = HasFailures
    BY <1>0 DEF HasFailures, options
  <2> QED
    BY <1>0, <2>1, <2>2, <2>3 DEF FirstOnly, options
<1>5. CASE errors
  <2>1. pc' = "returned" /\ returned' = "error" /\ AnyAlien
    BY <1>0, <1>5 DEF PopulateReturns, Flow
  <2>2. ~Sound(Batch) /\ \E i \in DOMAIN Batch : Batch[i] = NotChecker
    BY <1>0, <2>1, Bounds DEF Sound, AnyAlien
  <2> QED
    BY <1>0, <1>3, <1>4, <2>1, <2>2
    DEF Flow, NilIsSound, ErrorHasReason, FileIsAttempted, options, converter
<1>6. CASE ~errors
  <2>1. /\ pc' = "print" /\ returned' = returned /\ returned = "none"
        /\ failed' = IF format = "gotest" THEN tally > 0 ELSE failed
    BY <1>0, <1>6 DEF PopulateReturns, Flow
  <2>2. Noted => HasFailures'
    BY <1>0, <2>1 DEF Noted, HasFailures, options
  <2>3. Collected'
    BY <1>0, <1>2, <1>6, <2>1, <2>2 DEF Collected
  <2> QED
    BY <1>0, <1>3, <1>4, <2>1, <2>3
    DEF Flow, NilIsSound, ErrorHasReason, FileIsAttempted, options, converter
<1> QED
  BY <1>5, <1>6

\* What is printed depends on the content, the format and the loop variable.
LEMMA SameRendering ==
  UNCHANGED <<content, check, format>> => Rendered' = Rendered
BY DEF Rendered, getJSON, logResults, Messages, Items

\* A failure that a producer holds of its only batch is a failure of that batch.
LEMMA HasReason ==
  ASSUME TypeOK, Flow, pc \in {"print", "file"}, Len(batches) = 1, HasFailures
  PROVE  ~Sound(Batch)
<1>1. FirstOnly
  BY DEF Flow
<1>2. AnyAlien \/ AnyFails
  BY <1>1 DEF FirstOnly, HasFailures
<1> QED
  BY <1>2, SoundIff

\* A producer that holds no failure was given none.
LEMMA NilHasReason ==
  ASSUME TypeOK, Flow, pc \in {"print", "file"}, ~HasFailures
  PROVE  Sound(Batch)
BY SoundIff DEF Flow, Collected

\* Unless ToFile has an error of its own, the file is there, and whole if the
\* format would know.
LEMMA Landed ==
  ASSUME ToFile, format' = format, Rendered' = Rendered
  PROVE  FileIsThere' \/ fileFailed'
<1>1. \/ written' = <<Rendered>>
      \/ fileFailed'
      \/ (\E kept \in SUBSET DOMAIN Rendered : written' = <<Part(kept)>>)
           /\ LosesWriteErrors
  BY DEF ToFile, WriteContent
<1>2. \A list : <<list>> # <<>>
  OBVIOUS
<1> QED
  BY <1>1, <1>2 DEF FileIsThere, LosesWriteErrors

\* Printing and writing change neither what is held nor what is rendered.
LEMMA OutputFlow ==
  ASSUME TypeOK, Flow, PrintContent \/ Report \/ ToFile
  PROVE  Flow'
<1>0. /\ UNCHANGED <<options, batches, converter, check, tally, content,
                     failed>>
      /\ pc \in {"print", "file"} /\ ~converting
      /\ Batch' = Batch /\ Taken' = Taken
      /\ AnyAlien' = AnyAlien /\ AnyFails' = AnyFails
  BY DEF PrintContent, Report, ToFile, Flow, producer, converter, Batch, Taken,
     AnyAlien, AnyFails
<1>1. HasFailures' = HasFailures /\ Rendered' = Rendered
  BY <1>0, SameRendering DEF HasFailures, options
<1>2. Draining'
  BY <1>0 DEF Flow, Draining, converter
<1>3. Len(batches) = 1 => FirstOnly'
  BY <1>0, <1>1 DEF Flow, FirstOnly, options
<1>4. /\ ~HasFailures => Sound(Batch)
      /\ Len(batches) = 1 /\ HasFailures => ~Sound(Batch)
      /\ Sound(Batch') = Sound(Batch)
  BY <1>0, HasReason, NilHasReason
<1>5. Collected
  BY <1>0 DEF Flow
<1>6. CASE PrintContent
  <2>1. /\ ~reporting /\ errors' = (printFailed' \/ HasFailures)
        /\ printFailed' \/ printed' = Rendered
    BY <1>6 DEF PrintContent, Show
  <2>2. CASE writeFile
    <3>1. pc' = "file" /\ returned' = "none"
      BY <1>5, <1>6, <2>2 DEF PrintContent, Collected
    <3>2. Collected'
      BY <1>0, <1>1, <1>5, <3>1 DEF Collected
    <3> QED
      BY <1>0, <1>1, <1>2, <1>3, <2>1, <2>2, <3>1, <3>2
      DEF Flow, NilIsSound, ErrorHasReason, FileIsAttempted, options, converter
  <2>3. CASE ~writeFile
    <3>1. /\ pc' = "returned"
          /\ returned' = IF printFailed' \/ HasFailures THEN "error" ELSE "nil"
      BY <1>6, <2>1, <2>3 DEF PrintContent
    <3> QED
      BY <1>0, <1>1, <1>2, <1>3, <1>4, <2>1, <2>3, <3>1
      DEF Flow, NilIsSound, ErrorHasReason, FileIsAttempted, options, converter
  <2> QED
    BY <2>2, <2>3
<1>7. CASE Report
  <2>1. pc' = "returned" /\ returned' = "nil" /\ reporting /\ ~writeFile
    BY <1>7 DEF Report, Flow
  <2> QED
    BY <1>0, <1>2, <1>3, <2>1
    DEF Flow, NilIsSound, ErrorHasReason, FileIsAttempted, options, converter
<1>8. CASE ToFile
  <2>1. /\ pc = "file" /\ pc' = "returned"
        /\ errors = (printFailed \/ HasFailures)
        /\ printFailed \/ printed = Rendered
        /\ printed' = printed /\ printFailed' = printFailed
        /\ ~reporting /\ writeFile
    BY <1>8 DEF ToFile, Flow
  <2>2. returned' = IF printFailed \/ HasFailures \/ fileFailed'
                    THEN "error" ELSE "nil"
    BY <1>8, <2>1 DEF ToFile
  <2>3. FileIsThere' \/ fileFailed'
    BY <1>0, <1>1, <1>8, Landed DEF options
  <2>4. returned' = "nil" => Sound(Batch)' /\ (printed = Rendered)' /\ FileIsThere'
    BY <1>1, <1>4, <2>1, <2>2, <2>3
  <2>5. returned' = "error" /\ Len(batches) = 1 =>
          ~Sound(Batch)' \/ printFailed' \/ fileFailed'
    BY <1>4, <2>1, <2>2
  <2>6. NilIsSound' /\ ErrorHasReason' /\ FileIsAttempted'
    BY <1>0, <2>3, <2>4, <2>5 DEF NilIsSound, ErrorHasReason, FileIsAttempted
  <2> QED
    BY <1>0, <1>2, <1>3, <2>1, <2>6 DEF Flow, options, converter
<1> QED
  BY <1>6, <1>7, <1>8

\* Nor does a step that changes nothing.
LEMMA StutterFlow == Flow /\ UNCHANGED vars => Flow'
<1> SUFFICES ASSUME Flow, UNCHANGED vars PROVE Flow'
  OBVIOUS
<1>1. /\ Batch' = Batch /\ Taken' = Taken /\ HasFailures' = HasFailures
      /\ Noted' = Noted /\ AnyAlien' = AnyAlien /\ AnyFails' = AnyFails
      /\ Rendered' = Rendered
  BY SameRendering DEF vars, options, converter, producer, result, Batch,
     Taken, HasFailures, Noted, AnyAlien, AnyFails
<1> QED
  BY <1>1 DEF vars, options, converter, producer, result, Flow, New, Draining,
     Accounted, FirstOnly, Collected, NilIsSound, ErrorHasReason,
     FileIsAttempted, FileIsThere, LosesWriteErrors

\* So what was taken is accounted for always.
LEMMA FlowInvariant == Spec => []Flow
<1>1. TypeOK /\ Flow /\ [Next]_vars => Flow'
  BY PopulateFlow, ConvertFlow, UnitFlow, ReturnsFlow, OutputFlow,
     StutterFlow DEF Next, Done
<1> QED
  BY <1>1, InitFlow, TypeCorrect, PTL DEF Spec

\* CollectResults returns nil only for a batch of checks that all passed, after
\* Print showed them and, but for the log formats, ToFile wrote what was shown;
\* of the log formats the file was opened, and it may lack what did not get in.
THEOREM NilIsJustified == Spec => []NilIsSound
<1>1. Flow => NilIsSound
  BY DEF Flow
<1> QED
  BY <1>1, FlowInvariant, PTL

\* A producer that was populated once errs only because of its batch, or because
\* Print or ToFile could not do its work: nothing else makes a good run exit with
\* an error.
THEOREM ErrorIsJustified == Spec => []ErrorHasReason
<1>1. Flow => ErrorHasReason
  BY DEF Flow
<1> QED
  BY <1>1, FlowInvariant, PTL

\* The file is there or ToFile says that it is not: an error of Print, be it for
\* failed checks or of its own, never costs the file.
THEOREM FileFollowsPrint == Spec => []FileIsAttempted
<1>1. Flow => FileIsAttempted
  BY DEF Flow
<1> QED
  BY <1>1, FlowInvariant, PTL

-----------------------------------------------------------------------------
(* What is kept of a batch, and what is rendered of that.                  *)

\* The unit that is about to be sent is a check.
CheckInHand == unit # <<>> /\ unit # <<NotChecker>>

\* The positions of the batch that were taken and are to be shown.
WantedTaken == {i \in 1..Taken : Wanted(Batch[i])}

\* The names under which a list has something.
NamesIn(list) == {list[k].name : k \in 1..Len(list)}

\* Whatever is wanted of what was taken is in the content, or about to be; the
\* content of the first batch has nothing else; the messages of the log formats
\* passed or failed, and what Report hands over is a report.
Held ==
    /\ pc # "idle" =>
         /\ \A i \in WantedTaken : unit = <<Batch[i]>> \/ Batch[i].name \in NamesIn(content)
         /\ Len(batches) = 1 =>
              Len(content) + (IF CheckInHand THEN 1 ELSE 0) = Cardinality(WantedTaken)
    /\ format \in {"log", "json"} =>
         \A k \in 1..Len(content) : content[k].passed \in BOOLEAN
    /\ reporting => format = "report"

\* One of the two lists of the log formats.
LEMMA MessagesAre ==
  ASSUME TypeOK, NEW p \in BOOLEAN
  PROVE  LET those == {i \in 1..Len(content) : content[i].passed = p}
         IN  /\ Messages(p) \in Seq(Item)
             /\ ToSet(Messages(p)) = {content[i] : i \in those}
             /\ Len(Messages(p)) = Cardinality(those)
<1> DEFINE q == [i \in 1..Len(content) |->
                   IF content[i].passed = p THEN <<content[i]>> ELSE <<>>]
           those == {i \in 1..Len(content) : content[i].passed = p}
<1>0. /\ content \in Seq(Item) /\ Len(content) \in Nat
      /\ DOMAIN content = 1..Len(content)
      /\ \A i \in 1..Len(content) : content[i] \in Item
  <2>1. content \in Seq(Item)
    BY DEF TypeOK, Item
  <2> QED
    BY <2>1, LenProperties, ElementOfSeq
<1>1. Messages(p) = FlattenSeq(q)
  BY <1>0 DEF Messages
<1>2. q \in Seq(Seq(Item)) /\ Len(q) = Len(content)
  BY <1>0
<1>3. Sparse(q)
  BY <1>2 DEF Sparse
<1>4. \A i \in 1..Len(content) :
        /\ ToSet(q[i]) = IF content[i].passed = p THEN {content[i]} ELSE {}
        /\ q[i] # <<>> <=> content[i].passed = p
  BY DEF ToSet
<1> HIDE DEF q
<1>5. ToSet(Messages(p)) = {content[i] : i \in those}
  <2>1. ToSet(Messages(p)) = UNION {ToSet(q[i]) : i \in 1..Len(content)}
    BY <1>1, <1>2, FlattenElements
  <2>2. \A x : x \in ToSet(Messages(p)) <=> \E i \in 1..Len(content) : x \in ToSet(q[i])
    BY <2>1
  <2>3. \A x : x \in ToSet(Messages(p)) <=>
                 \E i \in 1..Len(content) : content[i].passed = p /\ x = content[i]
    <3>1. \A x : \A i \in 1..Len(content) :
            x \in ToSet(q[i]) <=> content[i].passed = p /\ x = content[i]
      BY <1>4
    <3> QED
      BY <2>2, <3>1
  <2> QED
    BY <2>3
<1>6. Len(Messages(p)) = Cardinality(those)
  <2>1. {i \in 1..Len(q) : q[i] # <<>>} = those
    BY <1>2, <1>4
  <2> QED
    BY <1>1, <1>2, <1>3, <2>1, FlattenCounts
<1> QED
  BY <1>1, <1>2, <1>5, <1>6, FlattenType

\* Two lists of what passed and what did not are all there is.
LEMMA MessagesCount ==
  ASSUME TypeOK, \A k \in 1..Len(content) : content[k].passed \in BOOLEAN
  PROVE  Len(Messages(TRUE)) + Len(Messages(FALSE)) = Len(content)
<1> DEFINE T == {i \in 1..Len(content) : content[i].passed = TRUE}
           F == {i \in 1..Len(content) : content[i].passed = FALSE}
<1>0. Len(content) \in Nat
  BY DEF TypeOK
<1>1. IsFiniteSet(1..Len(content)) /\ Cardinality(1..Len(content)) = Len(content)
  <2>1. 1 \in Int /\ Len(content) \in Int /\ (1 > Len(content) => Len(content) = 0)
    BY <1>0
  <2> QED
    BY <2>1, FS_Interval
<1>2. IsFiniteSet(T) /\ IsFiniteSet(F)
  BY <1>1, FS_Subset
<1>3. T \cup F = 1..Len(content)
  OBVIOUS
<1>4. T \cap F = {}
  OBVIOUS
<1>5. Len(Messages(TRUE)) = Cardinality(T)
      /\ Len(Messages(FALSE)) = Cardinality(F)
  BY MessagesAre
<1> HIDE DEF T, F
<1>6. Cardinality(1..Len(content)) =
        Cardinality(T) + Cardinality(F) - Cardinality({})
  BY <1>2, <1>3, <1>4, FS_Union
<1>7. Cardinality({}) = 0
  BY FS_EmptySet
<1>8. Cardinality(T) \in Nat /\ Cardinality(F) \in Nat
  BY <1>2, FS_CardinalityType
<1>9. Cardinality(T) + Cardinality(F) = Len(content)
  BY <1>1, <1>6, <1>7, <1>8
<1> QED
  BY <1>5, <1>9

\* Every format renders everything it holds, under its name and once.
LEMMA RenderedShows ==
  ASSUME TypeOK, Held
  PROVE  /\ Len(Rendered) = Len(content) /\ DOMAIN Rendered = 1..Len(content)
         /\ \A k \in 1..Len(content) :
              \E i \in 1..Len(content) : Rendered[i].key = content[k].name
<1>0. /\ content \in Seq(Item) /\ Len(content) \in Nat
      /\ DOMAIN content = 1..Len(content)
  BY DEF TypeOK, Item
<1>1. CASE format = "report"
  BY <1>0, <1>1 DEF Rendered, getJSON
<1>2. CASE format \in {"log", "json"}
  <2> DEFINE all == Messages(TRUE) \o Messages(FALSE)
  <2>1. Messages(TRUE) \in Seq(Item) /\ Messages(FALSE) \in Seq(Item)
    BY MessagesAre
  <2>2. all \in Seq(Item) /\ Len(all) = Len(content)
    BY <1>2, <2>1, MessagesCount, ConcatProperties DEF Held
  <2>3. ToSet(all) = ToSet(Messages(TRUE)) \cup ToSet(Messages(FALSE))
    BY <2>1, ConcatElements
  <2>4. \A k \in 1..Len(content) : content[k] \in ToSet(all)
    <3> TAKE k \in 1..Len(content)
    <3>1. content[k].passed \in BOOLEAN
      BY <1>2 DEF Held
    <3>2. content[k] \in ToSet(Messages(content[k].passed))
      BY <3>1, MessagesAre
    <3> HIDE DEF all
    <3> QED
      BY <2>3, <3>1, <3>2
  <2>5. Rendered = Items(all)
    BY <1>2 DEF Rendered, logResults
  <2> HIDE DEF all
  <2>6. DOMAIN all = 1..Len(content)
    BY <2>2, LenProperties
  <2>7. /\ Rendered = [i \in 1..Len(content) |->
                         [key |-> all[i].name, output |-> all[i]]]
    BY <2>5, <2>6 DEF Items
  <2>8. \A k \in 1..Len(content) : \E i \in 1..Len(content) : all[i] = content[k]
    BY <2>4, <2>6 DEF ToSet
  <2>9. DOMAIN Rendered = 1..Len(content) /\ Len(Rendered) = Len(content)
    BY <1>0, <2>7
  <2>10. \A i \in 1..Len(content) : Rendered[i].key = all[i].name
    BY <2>7
  <2> QED
    BY <2>8, <2>9, <2>10
<1>3. CASE format \notin {"report", "log", "json"}
  BY <1>0, <1>3 DEF Rendered, Items
<1> QED
  BY <1>1, <1>2, <1>3

\* A new producer holds nothing.
LEMMA HeldInit == Init => Held
BY DEF Init, Held

\* A new batch, of which nothing is taken.
LEMMA HeldPopulate ==
  ASSUME TypeOK, Flow, Held, NEW b \in Batches, Populate(b)
  PROVE  Held'
<1>1. /\ batches' = Append(batches, b) /\ batches \in Seq(Batches) /\ jobs' = b
      /\ b \in Seq(Output \cup {NotChecker})
  BY ProducersAssumption DEF Populate, TypeOK
<1>2. Batch' = b /\ Taken' = 0
  <2>1. Len(batches') = Len(batches) + 1 /\ Batch' = b
    BY <1>1 DEF Batch
  <2> QED
    BY <1>1, <2>1 DEF Taken
<1>3. WantedTaken' = {}
  BY <1>2 DEF WantedTaken
<1>4. ~CheckInHand'
  BY DEF Populate, CheckInHand
<1>5. Len(batches') = 1 => content' = <<>>
  <2>1. Len(batches') = 1 => batches = <<>>
    BY <1>1
  <2> QED
    BY <2>1 DEF Flow, New, Populate
<1>6. Cardinality({}) = 0
  BY FS_EmptySet
<1>7. format' = format /\ reporting' = reporting /\ (content' = <<>> \/ content' = content)
  BY DEF Populate, options
<1>8. format' \in {"log", "json"} => \A k \in 1..Len(content') : content'[k].passed \in BOOLEAN
  BY <1>7 DEF Held
<1>9. Len(batches') = 1 =>
        Len(content') + (IF CheckInHand' THEN 1 ELSE 0) = Cardinality(WantedTaken')
  BY <1>3, <1>4, <1>5, <1>6
<1> QED
  BY <1>3, <1>7, <1>8, <1>9 DEF Held

\* A job is taken: it is in hand, unless it passed and need not be shown.
LEMMA HeldConvert ==
  ASSUME TypeOK, Flow, Held, Convert
  PROVE  Held'
<1>0. /\ UNCHANGED <<options, batches, converting, pc, producer, result>>
      /\ pc = "populate" /\ unit = <<>> /\ jobs # <<>>
      /\ jobs \in Seq(Output \cup {NotChecker}) /\ jobs' = Tail(jobs)
      /\ unit' = IF Suppressed(Head(jobs)) THEN <<>> ELSE <<Head(jobs)>>
  BY DEF Convert, Flow, TypeOK
<1>1. /\ Batch' = Batch /\ content' = content /\ format' = format
      /\ batches' = batches /\ skipPassing' = skipPassing /\ pc' = pc
      /\ reporting' = reporting
  BY <1>0 DEF options, producer, Batch
<1>2. /\ Len(jobs') = Len(jobs) - 1 /\ Len(jobs) >= 1 /\ jobs[1] = Head(jobs)
      /\ Head(jobs) \in Output \cup {NotChecker}
  BY <1>0
<1>3. /\ Taken \in Nat /\ Taken' = Taken + 1 /\ Batch[Taken + 1] = Head(jobs)
  <2>1. Taken \in Nat /\ Len(jobs) \in Nat /\ Len(Batch) \in Nat
    BY <1>0, Bounds
  <2>2. Taken' = Taken + 1
    BY <1>1, <1>2, <2>1 DEF Taken
  <2>3. 1 \in 1..Len(jobs)
    BY <1>2, <2>1
  <2>4. Batch[Taken + 1] = Head(jobs)
    BY <1>0, <1>2, <2>3 DEF Flow, Draining
  <2> QED
    BY <2>1, <2>2, <2>4
<1> DEFINE h == Head(jobs)
<1>4. Wanted(h) <=> CheckInHand'
  BY <1>0, <1>2 DEF Wanted, CheckInHand, Suppressed
<1>5. CheckInHand' => unit' = <<h>>
  BY <1>0 DEF CheckInHand
<1> HIDE DEF h
<1>6. \A u : Wanted(u)' <=> Wanted(u)
  BY <1>1 DEF Wanted
<1>7. WantedTaken' = IF Wanted(h) THEN WantedTaken \cup {Taken + 1} ELSE WantedTaken
  <2>1. 1..(Taken + 1) = (1..Taken) \cup {Taken + 1}
    BY <1>3
  <2>2. WantedTaken' = {i \in 1..(Taken + 1) : Wanted(Batch[i])}
    BY <1>1, <1>3, <1>6 DEF WantedTaken
  <2> QED
    BY <1>3, <2>1, <2>2 DEF WantedTaken, h
<1>8. IsFiniteSet(WantedTaken) /\ Taken + 1 \notin WantedTaken
  <2>1. IsFiniteSet(1..Taken)
    BY <1>3, FS_Interval
  <2>2. IsFiniteSet(WantedTaken)
    BY <2>1, FS_Subset DEF WantedTaken
  <2>3. Taken + 1 \notin 1..Taken
    BY <1>3
  <2> QED
    BY <2>2, <2>3 DEF WantedTaken
<1>9. Cardinality(WantedTaken') = Cardinality(WantedTaken) + (IF Wanted(h) THEN 1 ELSE 0)
  <2>1. Cardinality(WantedTaken) \in Nat
    BY <1>8, FS_CardinalityType
  <2>2. Cardinality(WantedTaken \cup {Taken + 1}) = Cardinality(WantedTaken) + 1
    BY <1>8, FS_AddElement
  <2> QED
    BY <1>7, <2>1, <2>2
<1>10. ~CheckInHand
  BY <1>0 DEF CheckInHand
<1>11. Len(batches) = 1 =>
         Len(content) + (IF CheckInHand' THEN 1 ELSE 0) = Cardinality(WantedTaken')
  <2>1. Len(content) \in Nat
    BY DEF TypeOK
  <2>2. Len(batches) = 1 => Len(content) = Cardinality(WantedTaken)
    BY <1>0, <1>10, <2>1 DEF Held
  <2> QED
    BY <1>4, <1>9, <2>1, <2>2
<1>12. ASSUME NEW i \in WantedTaken'
       PROVE  unit' = <<Batch[i]>> \/ Batch[i].name \in NamesIn(content)
  <2>1. CASE i \in WantedTaken
    BY <1>0, <2>1 DEF Held
  <2>2. CASE i \notin WantedTaken
    BY <1>3, <1>4, <1>5, <1>7, <1>12, <2>2 DEF h
  <2> QED
    BY <2>1, <2>2
<1>13. NamesIn(content') = NamesIn(content)
  BY <1>1 DEF NamesIn
<1> QED
  BY <1>1, <1>11, <1>12, <1>13 DEF Held

\* One unit more is kept, under its name; an error is not.
LEMMA HeldUnit ==
  ASSUME TypeOK, Flow, Held, PopulateUnit
  PROVE  Held'
<1>0. /\ UNCHANGED <<options, batches, jobs, converting, pc, result>>
      /\ pc = "populate" /\ unit' = <<>> /\ Batch' = Batch /\ Taken' = Taken
  BY DEF PopulateUnit, Batch, Taken, Flow
<1>1. PICK u \in Output \cup {NotChecker} :
        /\ unit = <<u>>
        /\ u = NotChecker => content' = content
        /\ u # NotChecker => content' = Kept(u).content
  BY DEF PopulateUnit, Becomes, Caught, As
<1>2. /\ content \in Seq(Item) /\ Len(content) \in Nat /\ format \in AllFormats
      /\ format' = format /\ skipPassing' = skipPassing /\ reporting' = reporting
  BY <1>0, ProducersAssumption DEF TypeOK, Item, options
<1>3. WantedTaken' = WantedTaken
  BY <1>0, <1>2 DEF WantedTaken, Wanted
<1>4. ~CheckInHand' /\ (CheckInHand <=> u # NotChecker)
  BY <1>0, <1>1 DEF CheckInHand
<1>5. CASE u = NotChecker
  <2>1. content' = content
    BY <1>1, <1>5
  <2>2. NamesIn(content') = NamesIn(content)
    BY <2>1 DEF NamesIn
  <2>3. \A i \in WantedTaken : unit # <<Batch[i]>>
    BY <1>1, <1>5 DEF WantedTaken, Wanted
  <2> QED
    BY <1>0, <1>2, <1>3, <1>4, <1>5, <2>1, <2>2, <2>3 DEF Held
<1>6. CASE u # NotChecker
  <2>1. PICK e : /\ content' = Append(content, e) /\ e.name = u.name /\ e \in Item
                 /\ format \in {"log", "json"} => e.passed \in BOOLEAN
    <3>1. \/ Kept(u) = produceResults(u) \/ Kept(u) = addMessage(u)
          \/ Kept(u) = addItem(u)
          \/ Kept(u) = addToReport(u) /\ format \notin {"log", "json"}
      BY <1>2 DEF Kept, AllFormats
    <3>2. \/ content' = Append(content, u)
          \/ /\ content' = Append(content, [u EXCEPT !.passed = ByReference])
             /\ format \notin {"log", "json"}
      BY <1>1, <1>6, <3>1 DEF produceResults, addMessage, addItem, addToReport, As
    <3>3. u \in Output /\ u \in Item /\ u.passed \in BOOLEAN
          /\ [u EXCEPT !.passed = ByReference] \in Item
          /\ [u EXCEPT !.passed = ByReference].name = u.name
      BY <1>6 DEF Output, Item
    <3> QED
      BY <3>2, <3>3
  <2>2. /\ Len(content') = Len(content) + 1
        /\ content'[Len(content) + 1] = e
        /\ \A k \in 1..Len(content) : content'[k] = content[k]
        /\ Len(content) + 1 \in 1..Len(content')
        /\ \A k \in 1..Len(content) : k \in 1..Len(content')
        /\ \A k \in 1..Len(content') : k \in 1..Len(content) \/ k = Len(content) + 1
    BY <1>2, <2>1
  <2>3. NamesIn(content) \subseteq NamesIn(content')
    BY <2>2 DEF NamesIn
  <2>4. u.name \in NamesIn(content')
    BY <2>1, <2>2 DEF NamesIn
  <2>5. ASSUME NEW i \in WantedTaken' PROVE Batch[i].name \in NamesIn(content')
    <3>1. unit = <<Batch[i]>> \/ Batch[i].name \in NamesIn(content)
      BY <1>0, <1>3, <2>5 DEF Held
    <3>2. unit = <<Batch[i]>> => Batch[i] = u
      BY <1>1
    <3> QED
      BY <2>3, <2>4, <3>1, <3>2
  <2>6. Len(batches) = 1 => Len(content') = Cardinality(WantedTaken)
    BY <1>0, <1>2, <1>4, <1>6, <2>2 DEF Held
  <2>7. Len(content') \in Nat
    BY <1>2, <2>2
  <2>8. format \in {"log", "json"} =>
          \A k \in 1..Len(content') : content'[k].passed \in BOOLEAN
    BY <2>1, <2>2 DEF Held
  <2> QED
    BY <1>0, <1>2, <1>3, <1>4, <2>5, <2>6, <2>7, <2>8 DEF Held
<1> QED
  BY <1>5, <1>6

\* Nothing else touches what is held.
LEMMA HeldOtherwise ==
  ASSUME TypeOK, Flow, Held,
         \/ ConvertEnds \/ PopulateReturns \/ PrintContent \/ Report \/ ToFile
         \/ UNCHANGED vars
  PROVE  Held'
<1>1. /\ UNCHANGED <<options, batches, jobs, unit, content>>
      /\ pc' = "idle" <=> pc = "idle"
  BY DEF ConvertEnds, PopulateReturns, PrintContent, Report, ToFile, vars,
     producer, converter, result
<1>2. /\ WantedTaken' = WantedTaken /\ Batch' = Batch /\ CheckInHand' = CheckInHand
      /\ NamesIn(content') = NamesIn(content)
  BY <1>1 DEF WantedTaken, Wanted, Taken, Batch, CheckInHand, NamesIn, options
<1> QED
  BY <1>1, <1>2 DEF Held, options

\* Once the batch is drained, what is rendered shows it.
LEMMA RenderedShowsBatch ==
  ASSUME TypeOK, Flow, Held, pc \in {"print", "file"}
  PROVE  LET wanted == {i \in DOMAIN Batch : Wanted(Batch[i])}
         IN  /\ \A i \in wanted :
                  Batch[i].name \in {Rendered[k].key : k \in DOMAIN Rendered}
             /\ Len(batches) = 1 => Len(Rendered) = Cardinality(wanted)
<1>1. jobs = <<>> /\ unit = <<>>
  BY DEF Flow, Draining
<1>2. Taken = Len(Batch) /\ DOMAIN Batch = 1..Len(Batch)
  BY <1>1, Bounds, LenProperties DEF Taken
<1>3. {i \in DOMAIN Batch : Wanted(Batch[i])} = WantedTaken
  BY <1>2 DEF WantedTaken
<1>4. \A i \in WantedTaken : Batch[i].name \in NamesIn(content)
  BY <1>1 DEF Held
<1>5. Len(batches) = 1 => Len(content) = Cardinality(WantedTaken)
  <2>1. ~CheckInHand /\ Len(content) \in Nat
    BY <1>1 DEF CheckInHand, TypeOK
  <2> QED
    BY <2>1 DEF Held
<1>6. NamesIn(content) \subseteq {Rendered[k].key : k \in DOMAIN Rendered}
  BY RenderedShows DEF NamesIn
<1>7. Len(Rendered) = Len(content)
  BY RenderedShows
<1> QED
  BY <1>3, <1>4, <1>5, <1>6, <1>7

\* What is held leads to what is shown.
HInv == Held /\ NothingIsHidden

\* Every step keeps it, and what returns has shown it.
LEMMA HeldStep ==
  ASSUME TypeOK, Flow, HInv, [Next]_vars
  PROVE  HInv'
<1> USE DEF HInv
<1>1. ASSUME NEW b \in Batches, Populate(b) PROVE HInv'
  <2>1. pc' # "returned"
    BY <1>1 DEF Populate
  <2> QED
    BY <1>1, <2>1, HeldPopulate DEF NothingIsHidden
<1>2. CASE Convert \/ ConvertEnds \/ PopulateUnit
  <2>1. pc' # "returned"
    BY <1>2 DEF Convert, ConvertEnds, PopulateUnit, Flow
  <2> QED
    BY <1>2, <2>1, HeldConvert, HeldUnit, HeldOtherwise DEF NothingIsHidden
<1>3. CASE PopulateReturns
  <2>1. Held' /\ Batch' = Batch
    BY <1>3, HeldOtherwise DEF PopulateReturns, Batch
  <2>2. pc' = "returned" => AnyAlien
    BY <1>3 DEF PopulateReturns, Flow
  <2>3. AnyAlien => \E i \in DOMAIN Batch : Batch[i] = NotChecker
    BY <1>3, Bounds, LenProperties DEF AnyAlien, PopulateReturns
  <2> QED
    BY <2>1, <2>2, <2>3 DEF NothingIsHidden
<1>4. CASE PrintContent \/ Report \/ ToFile
  <2>1. Held' /\ Batch' = Batch /\ batches' = batches /\ skipPassing' = skipPassing
    BY <1>4, HeldOtherwise DEF PrintContent, Report, ToFile, Batch, options
  <2>2. pc \in {"print", "file"}
    BY <1>4 DEF PrintContent, Report, ToFile
  <2>3. printFailed' \/ printed' = Rendered
    <3>1. CASE PrintContent
      BY <3>1 DEF PrintContent, Show
    <3>2. CASE Report
      BY <3>2 DEF Report, Rendered, Held
    <3>3. CASE ToFile
      BY <3>3 DEF ToFile, Flow
    <3> QED
      BY <1>4, <3>1, <3>2, <3>3
  <2>4. \A u : Wanted(u)' <=> Wanted(u)
    BY <2>1 DEF Wanted
  <2> QED
    BY <2>1, <2>2, <2>3, <2>4, RenderedShowsBatch DEF NothingIsHidden
<1>5. CASE UNCHANGED vars
  <2>1. Held'
    BY <1>5, HeldOtherwise
  <2>2. /\ Batch' = Batch /\ pc' = pc /\ batches' = batches
        /\ printed' = printed /\ printFailed' = printFailed
        /\ \A u : Wanted(u)' <=> Wanted(u)
    BY <1>5 DEF vars, options, result, Batch, Wanted
  <2> QED
    BY <2>1, <2>2 DEF NothingIsHidden
<1> QED
  BY <1>1, <1>2, <1>3, <1>4, <1>5 DEF Next, Done

\* NothingIsHidden: whatever the format, the batches and the number of times it
\* was populated, a producer shows every check it should, and of a first batch
\* as many items as there are such checks.
THEOREM EverythingIsShown == Spec => []NothingIsHidden
<1>1. Init => HInv
  BY HeldInit DEF HInv, NothingIsHidden, Init
<1>2. TypeOK /\ Flow /\ HInv /\ [Next]_vars => HInv'
  BY HeldStep
<1>3. HInv => NothingIsHidden
  BY DEF HInv
<1> QED
  BY <1>1, <1>2, <1>3, TypeCorrect, FlowInvariant, PTL DEF Spec

-----------------------------------------------------------------------------
(* Populate ends, and leaves nobody behind.                                *)

\* What is left to do of this call of Populate and of what follows it: two steps for
\* a job, one for a unit, one to close the channel, and those of the caller.
Left ==
    2 * Len(jobs) + Len(unit) + (IF converting THEN 1 ELSE 0)
        + (CASE pc = "populate" -> 3
             [] pc = "print" -> 2
             [] pc = "file" -> 1
             [] pc \in {"idle", "returned"} -> 0)

\* The guards of the converter's steps and of the caller's but Populate's.
CanMove ==
    \/ converting /\ unit = <<>>
    \/ pc = "populate" /\ \E u \in Output \cup {NotChecker} : unit = <<u>>
    \/ pc = "populate" /\ ~converting
    \/ pc = "print"
    \/ pc = "file"

\* The unit is at most one.
LEMMA LeftType ==
  ASSUME TypeOK
  PROVE  /\ Left \in Nat /\ Len(jobs) \in Nat
         /\ unit = <<>> \/ \E u \in Output \cup {NotChecker} : unit = <<u>>
<1>1. jobs \in Seq(Output \cup {NotChecker}) /\ Len(jobs) \in Nat
  BY DEF TypeOK
<1>2. unit = <<>> \/ \E u \in Output \cup {NotChecker} : unit = <<u>>
  BY DEF TypeOK
<1>3. Len(unit) \in Nat
  BY <1>2
<1> QED
  BY <1>1, <1>2, <1>3 DEF Left, TypeOK

\* No step of jobsToCheck or of its consumer is for nothing: until the producer is
\* populated again, each of them uses up a finite amount of work, jobs that are no
\* checks included, for batches of any length (output/coverter.go:17-44).
THEOREM EveryStepDrains ==
  Spec => /\ [](Left \in Nat)
          /\ [][(\E batch \in Batches : Populate(batch)) \/ Left' < Left]_vars
<1>1. ASSUME TypeOK, Convert PROVE Left' < Left
  <2>1. jobs' = Tail(jobs) /\ jobs # <<>> /\ unit = <<>> /\ UNCHANGED <<pc, converting>>
    BY <1>1 DEF Convert
  <2>2. Len(jobs') = Len(jobs) - 1 /\ Len(jobs) \in Nat
    BY <1>1, <2>1 DEF TypeOK
  <2>3. unit' = <<>> \/ unit' = <<Head(jobs)>>
    BY <1>1 DEF Convert
  <2>4. PICK k \in {0, 1} : Len(unit') = k
    BY <2>3
  <2>5. Len(unit) = 0 /\ pc \in {"idle", "populate", "print", "file", "returned"}
    BY <1>1, <2>1 DEF TypeOK
  <2>6. Left' = Left - (2 - k)
    BY <2>1, <2>2, <2>4, <2>5 DEF Left
  <2>7. Left \in Nat
    BY <1>1, LeftType
  <2> QED
    BY <2>6, <2>7
<1>2. ASSUME TypeOK, ConvertEnds PROVE Left' < Left
  <2>1. /\ converting /\ ~converting' /\ unit = <<>>
        /\ UNCHANGED <<pc, jobs, unit>>
    BY <1>2 DEF ConvertEnds
  <2>2. Len(jobs) \in Nat /\ Len(unit) = 0
    BY <1>2, <2>1, LeftType
  <2>3. pc \in {"idle", "populate", "print", "file", "returned"}
    BY <1>2 DEF TypeOK
  <2> QED
    BY <2>1, <2>2, <2>3 DEF Left
<1>3. ASSUME TypeOK, PopulateUnit PROVE Left' < Left
  <2>1. /\ pc = "populate" /\ unit' = <<>> /\ UNCHANGED <<pc, jobs, converting>>
        /\ \E u \in Output \cup {NotChecker} : unit = <<u>>
    BY <1>3 DEF PopulateUnit
  <2>2. Len(unit) = 1 /\ Len(unit') = 0 /\ Len(jobs) \in Nat
    BY <1>3, <2>1, LeftType
  <2> QED
    BY <2>1, <2>2 DEF Left
<1>4. ASSUME TypeOK, PopulateReturns \/ PrintContent \/ Report \/ ToFile
      PROVE  Left' < Left
  <2>1. /\ UNCHANGED <<jobs, unit, converting>>
        /\ \/ pc = "populate" /\ pc' \in {"print", "returned"}
           \/ pc = "print" /\ pc' \in {"file", "returned"}
           \/ pc = "file" /\ pc' = "returned"
    BY <1>4 DEF PopulateReturns, PrintContent, Report, ToFile, converter
  <2>2. Len(jobs) \in Nat /\ Len(unit) \in Nat
    <3>1. Len(jobs) \in Nat /\ (unit = <<>> \/ \E u \in Output \cup {NotChecker} : unit = <<u>>)
      BY <1>4, LeftType
    <3> QED
      BY <3>1
  <2> QED
    BY <2>1, <2>2 DEF Left
<1>5. TypeOK /\ [Next]_vars
        => [(\E batch \in Batches : Populate(batch)) \/ Left' < Left]_vars
  BY <1>1, <1>2, <1>3, <1>4 DEF Next, Done
<1> QED
  BY <1>5, LeftType, TypeCorrect, PTL DEF Spec

\* The goroutine of jobsToCheck never outlives its consumer, which drains its channel
\* to the end even after an error, and whoever called is never stuck: the converter
\* or the caller can move until results have been returned, with the converter gone
\* (output/coverter.go:17-44 sends on an unbuffered channel).
THEOREM NobodyIsLeftBehind ==
  Spec => [](/\ converting => pc = "populate"
             /\ pc \in {"populate", "print", "file"} => CanMove)
<1>1. ASSUME TypeOK, Flow
      PROVE  /\ converting => pc = "populate"
             /\ pc \in {"populate", "print", "file"} => CanMove
  <2>1. converting => pc = "populate"
    BY <1>1 DEF Flow
  <2>2. pc = "populate" => CanMove
    BY <1>1, LeftType DEF CanMove
  <2> QED
    BY <2>1, <2>2 DEF CanMove
<1> QED
  BY <1>1, TypeCorrect, FlowInvariant, PTL

=============================================================================
