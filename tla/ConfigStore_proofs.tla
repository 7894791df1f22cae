------------------------- MODULE ConfigStore_proofs -------------------------
(***************************************************************************)
(* Theorems about ConfigStore, for any names, suites, documents, streams   *)
(* and number of reloads: that the read lock really keeps Reload out for   *)
(* as long as a generator sends, that no reload swaps the job of a name,   *)
(* and what the streams are sent.                                          *)
(***************************************************************************)
EXTENDS ConfigStore, ListFacts

-----------------------------------------------------------------------------
(* Types of what is parsed and of what is sent.                            *)

\* What a generator may send.
Sendable == Names \cup {NoDef}

\* The types of the configuration, and of a file that can be parsed into it.
ConfigTyped ==
    /\ tests \in [Names -> Defs \cup {NoDef}]
    /\ suites \in [Suites -> Seq(Names)]

\* A document is a sequence of raw tests.
LEMMA DocumentType ==
  ASSUME NEW doc \in Documents
  PROVE  doc \in Seq([name : Names, suites : SUBSET Suites, def : Defs \cup {Broken}])
  BY ConfigAssumption

\* resolveCheck finds positions of the document; the least of them is one.
LEMMA FirstResolves ==
  ASSUME NEW doc \in Documents, NEW n, resolveCheck(doc, n) # {}
  PROVE  /\ Min(resolveCheck(doc, n)) \in resolveCheck(doc, n)
         /\ Min(resolveCheck(doc, n)) \in 1..Len(doc)
  <1> DEFINE R == resolveCheck(doc, n)
  <1>0. R # {}
    OBVIOUS
  <1>1. DOMAIN doc = 1..Len(doc)
    BY DocumentType, LenProperties
  <1>2. R \subseteq 1..Len(doc)
    BY <1>1 DEF resolveCheck
  <1>3. R \in SUBSET Nat
    BY <1>2
  <1>4. \E m \in R : \A k \in R : m <= k
    <2> HIDE DEF R
    <2> QED
      BY <1>0, <1>3, Least
  <1>5. Min(R) \in R
    BY <1>4 DEF Min
  <1> QED
    BY <1>2, <1>5

\* A document appends names to a suite.
LEMMA SuiteGrows ==
  ASSUME NEW ss \in [Suites -> Seq(Names)], NEW doc \in Documents, NEW s \in Suites
  PROVE  \E more \in Seq(Names) : addSuites(ss, doc, s) = ss[s] \o more
  <1>0. /\ Len(doc) \in Nat /\ DOMAIN doc = 1..Len(doc)
        /\ \A i \in 1..Len(doc) :
             doc[i] \in [name : Names, suites : SUBSET Suites, def : Defs \cup {Broken}]
    BY DocumentType, LenProperties, ElementOfSeq
  <1> DEFINE q == [i \in DOMAIN doc |->
                     IF s \in doc[i].suites THEN <<doc[i].name>> ELSE <<>>]
  <1>1. \A i \in 1..Len(doc) :
          (IF s \in doc[i].suites THEN <<doc[i].name>> ELSE <<>>) \in Seq(Names)
    BY <1>0
  <1>2. q \in Seq(Seq(Names))
    BY <1>0, <1>1
  <1>3. addSuites(ss, doc, s) = ss[s] \o FlattenSeq(q)
    BY DEF addSuites
  <1>4. FlattenSeq(q) \in Seq(Names)
    <2> HIDE DEF q
    <2> QED
      BY <1>2, FlattenType
  <1> QED
    BY <1>3, <1>4

\* A document adds definitions that resolve, and names to suites.
LEMMA ParseTypes ==
  ASSUME NEW ts \in [Names -> Defs \cup {NoDef}], NEW ss \in [Suites -> Seq(Names)],
         NEW doc \in Documents
  PROVE  /\ parseTests(ts, ss, doc).tests \in [Names -> Defs \cup {NoDef}]
         /\ parseTests(ts, ss, doc).suites \in [Suites -> Seq(Names)]
  <1>0. /\ Len(doc) \in Nat /\ DOMAIN doc = 1..Len(doc)
        /\ \A i \in 1..Len(doc) :
             doc[i] \in [name : Names, suites : SUBSET Suites, def : Defs \cup {Broken}]
    BY DocumentType, LenProperties, ElementOfSeq
  <1>1. ASSUME NEW n \in Names PROVE addTest(ts, doc, n) \in Defs \cup {NoDef}
    <2>1. CASE ts[n] # NoDef \/ resolveCheck(doc, n) = {}
      BY <2>1 DEF addTest
    <2>2. CASE ~(ts[n] # NoDef \/ resolveCheck(doc, n) = {})
      <3>1. PICK i \in 1..Len(doc) :
              i = Min(resolveCheck(doc, n)) /\ i \in resolveCheck(doc, n)
        BY <2>2, FirstResolves
      <3>2. doc[i].def \in Defs
        BY <1>0, <3>1 DEF resolveCheck
      <3> QED
        BY <2>2, <3>1, <3>2 DEF addTest
    <2> QED
      BY <2>1, <2>2
  <1>2. ASSUME NEW s \in Suites PROVE addSuites(ss, doc, s) \in Seq(Names)
    <2>1. PICK more \in Seq(Names) : addSuites(ss, doc, s) = ss[s] \o more
      BY SuiteGrows
    <2>2. ss[s] \in Seq(Names)
      OBVIOUS
    <2> QED
      BY <2>1, <2>2, ConcatProperties
  <1> QED
    BY <1>1, <1>2 DEF parseTests

\* TestsForSuites walks over names and missing suites.
LEMMA EntriesType ==
  ASSUME ConfigTyped, NEW ss \in Seq(Suites)
  PROVE  Entries(ss) \in Seq(Sendable)
  <1> DEFINE q == [i \in DOMAIN ss |->
                     IF suites[ss[i]] = <<>> THEN <<NoDef>> ELSE suites[ss[i]]]
  <1>0. Len(ss) \in Nat /\ DOMAIN ss = 1..Len(ss) /\ \A i \in 1..Len(ss) : ss[i] \in Suites
    BY LenProperties, ElementOfSeq
  <1>1. Seq(Names) \subseteq Seq(Sendable)
    BY SeqMonotonic DEF Sendable
  <1>2. \A x \in Suites :
          (IF suites[x] = <<>> THEN <<NoDef>> ELSE suites[x]) \in Seq(Sendable)
    <2>1. <<NoDef>> \in Seq(Sendable)
      BY DEF Sendable
    <2> QED
      BY <1>1, <2>1 DEF ConfigTyped
  <1>3. q \in Seq(Seq(Sendable))
    BY <1>0, <1>2
  <1>4. FlattenSeq(q) \in Seq(Sendable)
    <2> HIDE DEF q
    <2> QED
      BY <1>3, FlattenType
  <1> QED
    BY <1>4 DEF Entries

\* The lists that TestsForSuites sends one after the other: an item for every
\* position that is unseen.
Pieces(entries) ==
    [i \in 1..Len(entries) |->
        IF i \in Unseen(entries) THEN <<Item(entries[i])>> ELSE <<>>]

\* TestsForSuites, in those terms.
LEMMA SentIs ==
  ASSUME ConfigTyped, NEW ss \in Seq(Suites)
  PROVE  TestsForSuites(ss) = FlattenSeq(Pieces(Entries(ss)))
  <1> DEFINE e == Entries(ss)
  <1>1. e \in Seq(Names \cup {NoDef}) /\ DOMAIN e = 1..Len(e)
    BY EntriesType, LenProperties DEF Sendable
  <1> HIDE DEF e
  <1>2. Pieces(e) = [i \in DOMAIN e |-> IF i \in Unseen(e) THEN <<Item(e[i])>> ELSE <<>>]
    BY <1>1 DEF Pieces
  <1> QED
    BY <1>1, <1>2 DEF TestsForSuites, e

\* An item is a name or an error.
LEMMA ItemType ==
  ASSUME NEW n \in Sendable
  PROVE  Item(n) \in Sendable
  BY DEF Item, Sendable

\* Each of them has at most one item.
LEMMA PiecesType ==
  ASSUME NEW entries \in Seq(Sendable)
  PROVE  /\ Pieces(entries) \in Seq(Seq(Sendable)) /\ Sparse(Pieces(entries))
         /\ Len(Pieces(entries)) = Len(entries)
  <1>1. Len(entries) \in Nat /\ \A i \in 1..Len(entries) : entries[i] \in Sendable
    BY LenProperties, ElementOfSeq
  <1>2. \A i \in 1..Len(entries) : Pieces(entries)[i] \in Seq(Sendable)
    BY <1>1, ItemType DEF Pieces
  <1>3. Pieces(entries) \in Seq(Seq(Sendable)) /\ Len(Pieces(entries)) = Len(entries)
    <2>1. Pieces(entries) = [i \in 1..Len(entries) |-> Pieces(entries)[i]]
      BY DEF Pieces
    <2> QED
      BY <1>1, <1>2, <2>1, LenProperties
  <1>4. \A i \in 1..Len(entries) : Len(Pieces(entries)[i]) <= 1
    BY DEF Pieces
  <1> QED
    BY <1>3, <1>4 DEF Sparse

\* TestsForSuites sends such items.
LEMMA TestsForSuitesType ==
  ASSUME ConfigTyped, NEW ss \in Seq(Suites)
  PROVE  TestsForSuites(ss) \in Seq(Sendable)
  <1>1. Pieces(Entries(ss)) \in Seq(Seq(Sendable))
    BY EntriesType, PiecesType
  <1> QED
    BY <1>1, SentIs, FlattenType

\* TestsByName sends one for each name: that name, or an error.
LEMMA TestsByNameType ==
  ASSUME NEW names \in Seq(Names)
  PROVE  /\ TestsByName(names) \in Seq(Sendable) /\ Len(TestsByName(names)) = Len(names)
         /\ \A i \in 1..Len(names) : TestsByName(names)[i] \in {names[i], NoDef}
  <1>1. Len(names) \in Nat /\ DOMAIN names = 1..Len(names)
        /\ \A i \in 1..Len(names) : names[i] \in Sendable
    BY LenProperties, ElementOfSeq DEF Sendable
  <1>2. TestsByName(names) = [i \in 1..Len(names) |-> Item(names[i])]
    BY <1>1 DEF TestsByName
  <1>3. \A i \in 1..Len(names) : Item(names[i]) \in Sendable
    BY <1>1, ItemType
  <1>4. \A n : Item(n) \in {n, NoDef}
    BY DEF Item
  <1> QED
    BY <1>1, <1>2, <1>3, <1>4, LenProperties

\* The command line adds a suite to what was asked for, and changes no name.
LEMMA AskedType ==
  ASSUME request \in Requests, NEW s \in Streams
  PROVE  /\ request[s] = [kind |-> request[s].kind, names |-> request[s].names,
                          suites |-> request[s].suites]
         /\ request[s].kind \in {"run", "test", "suite"}
         /\ Asked(s).kind = request[s].kind
         /\ Asked(s).names = request[s].names
         /\ Asked(s).names \in Seq(Names)
         /\ Asked(s).suites \in Seq(Suites)
  <1>1. request[s] \in [kind : {"run", "test", "suite"},
                        names : Seq(Names), suites : Seq(Suites)]
    BY ConfigAssumption
  <1>2. <<AllSuite>> \in Seq(Suites)
    BY ConfigAssumption
  <1> QED
    BY <1>1, <1>2 DEF Asked

\* A run that names no test asks for a suite.
LEMMA RunIsAsked ==
  ASSUME request \in Requests, NEW s \in Streams, request[s].kind = "run",
         request[s].names = <<>>
  PROVE  Asked(s).suites # <<>>
  <1>1. request[s] \in [kind : {"run", "test", "suite"},
                        names : Seq(Names), suites : Seq(Suites)]
    BY ConfigAssumption
  <1>2. CASE request[s].suites = <<>>
    <2>1. Asked(s).suites = <<AllSuite>>
      BY <1>1, <1>2 DEF Asked
    <2> QED
      BY <2>1
  <1>3. CASE request[s].suites # <<>>
    BY <1>3 DEF Asked
  <1> QED
    BY <1>2, <1>3

-----------------------------------------------------------------------------
(* What TestsForSuites answers, for any suites of any configuration.       *)

\* No test is named twice; an error may be.
NoRepeats(sent) ==
    \A i, k \in 1..Len(sent) : i < k /\ sent[i] = sent[k] => sent[i] = NoDef

\* The map of tests already sent does its work.
LEMMA AnswersOnce ==
  ASSUME ConfigTyped, NEW ss \in Seq(Suites)
  PROVE  NoRepeats(TestsForSuites(ss))
  <1> DEFINE e == Entries(ss)
             q == Pieces(e)
             sent == TestsForSuites(ss)
  <1>1. e \in Seq(Sendable) /\ q \in Seq(Seq(Sendable)) /\ Sparse(q) /\ Len(q) = Len(e)
    BY EntriesType, PiecesType
  <1>2. sent = FlattenSeq(q)
    BY SentIs
  <1>3. PICK pos : IsSelection(pos, sent, q, Len(e))
    <2> HIDE DEF q
    <2> QED
      BY <1>1, <1>2, FlattenSelects
  <1>4. Len(e) \in Nat /\ DOMAIN e = 1..Len(e)
    BY <1>1, LenProperties
  <1> HIDE DEF e, sent
  <1>5. ASSUME NEW k \in 1..Len(sent), sent[k] # NoDef
        PROVE  /\ pos[k] \in Unseen(e) /\ pos[k] \in 1..Len(e)
               /\ sent[k] = e[pos[k]]
    <2>1. pos[k] \in 1..Len(e) /\ q[pos[k]] # <<>> /\ sent[k] = q[pos[k]][1]
      <3> HIDE DEF q
      <3> QED
        BY <1>3 DEF IsSelection
    <2>2. pos[k] \in Unseen(e) /\ q[pos[k]] = <<Item(e[pos[k]])>>
      BY <2>1 DEF Pieces
    <2> QED
      BY <1>5, <2>1, <2>2 DEF Item
  <1>6. ASSUME NEW i \in 1..Len(sent), NEW k \in 1..Len(sent),
               i < k, sent[i] = sent[k], sent[i] # NoDef
        PROVE  FALSE
    <2>1. pos[i] < pos[k]
      BY <1>3, <1>6 DEF IsSelection
    <2>2. /\ pos[i] \in 1..Len(e) /\ pos[k] \in 1..Len(e)
          /\ pos[k] \in Unseen(e) /\ e[pos[i]] = e[pos[k]] /\ e[pos[k]] # NoDef
      BY <1>5, <1>6
    <2>3. pos[i] \in 1..(pos[k] - 1)
      BY <1>4, <2>1, <2>2
    <2> QED
      BY <2>2, <2>3 DEF Unseen
  <1> QED
    BY <1>6 DEF NoRepeats, sent

\* What is walked over comes up a first time.
LEMMA FirstIsUnseen ==
  ASSUME NEW e \in Seq(Sendable), NEW i \in 1..Len(e)
  PROVE  \E k \in Unseen(e) : e[k] = e[i]
  <1>0. Len(e) \in Nat /\ DOMAIN e = 1..Len(e)
    BY LenProperties
  <1> DEFINE T == {k \in 1..Len(e) : e[k] = e[i]}
  <1>1. T \in SUBSET Nat /\ T # {}
    OBVIOUS
  <1>2. PICK m \in T : \A k \in T : m <= k
    <2> HIDE DEF T
    <2> QED
      BY <1>1, Least
  <1>3. \A k \in 1..(m - 1) : k \notin T
    <2> TAKE k \in 1..(m - 1)
    <2>1. k \in Nat /\ m \in Nat /\ ~(m <= k)
      BY <1>0
    <2> QED
      BY <1>2, <2>1
  <1>4. \A k \in 1..(m - 1) : k \in 1..Len(e)
    BY <1>0
  <1>5. m \in Unseen(e)
    BY <1>0, <1>3, <1>4 DEF Unseen
  <1> QED
    BY <1>5

\* Every entry is sent.
LEMMA AnswersEntries ==
  ASSUME ConfigTyped, NEW ss \in Seq(Suites)
  PROVE  ToSet(TestsForSuites(ss)) = {Item(n) : n \in ToSet(Entries(ss))}
  <1> DEFINE e == Entries(ss)
             q == Pieces(e)
  <1>1. e \in Seq(Sendable) /\ q \in Seq(Seq(Sendable)) /\ Len(q) = Len(e)
    BY EntriesType, PiecesType
  <1>2. Len(e) \in Nat /\ DOMAIN e = 1..Len(e)
    BY <1>1, LenProperties
  <1>3. ToSet(TestsForSuites(ss)) = UNION {ToSet(q[i]) : i \in 1..Len(e)}
    <2> HIDE DEF q
    <2>1. ToSet(FlattenSeq(q)) = UNION {ToSet(q[i]) : i \in 1..Len(q)}
      BY <1>1, FlattenElements
    <2>2. TestsForSuites(ss) = FlattenSeq(q)
      BY SentIs DEF q
    <2> QED
      BY <1>1, <2>1, <2>2
  <1> HIDE DEF e
  <1>4. \A i \in 1..Len(e) :
          ToSet(q[i]) = IF i \in Unseen(e) THEN {Item(e[i])} ELSE {}
    BY DEF Pieces, ToSet
  <1>5. Unseen(e) \subseteq 1..Len(e)
    BY <1>2 DEF Unseen
  <1>6. UNION {ToSet(q[i]) : i \in 1..Len(e)} = {Item(e[i]) : i \in Unseen(e)}
    <2> HIDE DEF q
    <2> QED
      BY <1>4, <1>5
  <1>7. {Item(e[i]) : i \in Unseen(e)} = {Item(n) : n \in ToSet(e)}
    <2>1. \A i \in Unseen(e) : e[i] \in ToSet(e)
      BY <1>2, <1>5 DEF ToSet
    <2>2. ASSUME NEW n \in ToSet(e) PROVE \E k \in Unseen(e) : e[k] = n
      <3>1. PICK i \in 1..Len(e) : e[i] = n
        BY <1>2 DEF ToSet
      <3> QED
        BY <1>1, <3>1, FirstIsUnseen
    <2> QED
      BY <2>1, <2>2
  <1> QED
    BY <1>3, <1>6, <1>7 DEF e

\* The entries are the members of the suites, and NoDef for a missing one.
LEMMA EntriesAre ==
  ASSUME ConfigTyped, NEW ss \in Seq(Suites)
  PROVE  ToSet(Entries(ss)) =
           UNION {IF suites[x] = <<>> THEN {NoDef} ELSE ToSet(suites[x]) : x \in ToSet(ss)}
  <1> DEFINE member(x) == IF suites[x] = <<>> THEN <<NoDef>> ELSE suites[x]
             q == [i \in 1..Len(ss) |-> member(ss[i])]
  <1>0. Len(ss) \in Nat /\ DOMAIN ss = 1..Len(ss) /\ \A i \in 1..Len(ss) : ss[i] \in Suites
    BY LenProperties, ElementOfSeq
  <1>1. \A x \in Suites : member(x) \in Seq(Sendable)
    <2>1. <<NoDef>> \in Seq(Sendable)
      BY DEF Sendable
    <2>2. Seq(Names) \subseteq Seq(Sendable)
      BY SeqMonotonic DEF Sendable
    <2> QED
      BY <2>1, <2>2 DEF ConfigTyped
  <1>2. q \in Seq(Seq(Sendable)) /\ Len(q) = Len(ss)
    <2> HIDE DEF member
    <2> QED
      BY <1>0, <1>1
  <1>3. Entries(ss) = FlattenSeq(q)
    BY <1>0 DEF Entries
  <1>4. ToSet(Entries(ss)) = UNION {ToSet(q[i]) : i \in 1..Len(ss)}
    <2> HIDE DEF q
    <2> QED
      BY <1>2, <1>3, FlattenElements
  <1>5. {ToSet(q[i]) : i \in 1..Len(ss)} = {ToSet(member(x)) : x \in ToSet(ss)}
    <2> HIDE DEF member
    <2>1. \A i \in 1..Len(ss) : ToSet(q[i]) = ToSet(member(ss[i]))
      OBVIOUS
    <2>2. ToSet(ss) = {ss[i] : i \in 1..Len(ss)}
      BY <1>0 DEF ToSet
    <2> HIDE DEF q
    <2> QED
      BY <2>1, <2>2
  <1>6. \A x : ToSet(member(x)) = IF suites[x] = <<>> THEN {NoDef} ELSE ToSet(suites[x])
    BY DEF ToSet
  <1> QED
    <2> HIDE DEF member, q
    <2> QED
      BY <1>4, <1>5, <1>6

\* A stream of suites that is asked for something sends something.
LEMMA AnswersSomething ==
  ASSUME ConfigTyped, NEW ss \in Seq(Suites), ss # <<>>
  PROVE  TestsForSuites(ss) # <<>>
  <1>0. /\ 1 \in 1..Len(ss) /\ DOMAIN ss = 1..Len(ss) /\ ss[1] \in Suites
    <2>1. Len(ss) \in Nat /\ Len(ss) # 0
      BY EmptySeq, LenProperties
    <2>2. 1 \in 1..Len(ss)
      BY <2>1
    <2> QED
      BY <2>2, ElementOfSeq, LenProperties
  <1>1. ss[1] \in ToSet(ss)
    BY <1>0 DEF ToSet
  <1> DEFINE part(x) == IF suites[x] = <<>> THEN {NoDef} ELSE ToSet(suites[x])
  <1>2. part(ss[1]) # {}
    <2>1. CASE suites[ss[1]] = <<>>
      BY <2>1
    <2>2. CASE suites[ss[1]] # <<>>
      <3>1. suites[ss[1]] \in Seq(Names)
        BY <1>0 DEF ConfigTyped
      <3>2. Len(suites[ss[1]]) \in Nat /\ Len(suites[ss[1]]) # 0
            /\ DOMAIN suites[ss[1]] = 1..Len(suites[ss[1]])
        BY <2>2, <3>1, EmptySeq, LenProperties
      <3>3. 1 \in DOMAIN suites[ss[1]]
        BY <3>2
      <3> QED
        BY <2>2, <3>3 DEF ToSet
    <2> QED
      BY <2>1, <2>2
  <1>3. ToSet(Entries(ss)) # {}
    <2> HIDE DEF part
    <2>1. ToSet(Entries(ss)) = UNION {part(x) : x \in ToSet(ss)}
      BY EntriesAre DEF part
    <2> QED
      BY <1>1, <1>2, <2>1
  <1>4. ToSet(TestsForSuites(ss)) # {}
    BY <1>3, AnswersEntries
  <1> QED
    BY <1>4 DEF ToSet

\* SuiteIsItsMembers holds of whatever is asked for.
LEMMA AnswersMembers ==
  ASSUME ConfigTyped, NEW ss \in Seq(Suites)
  PROVE  LET members == UNION {ToSet(suites[x]) : x \in ToSet(ss)}
             sent == ToSet(TestsForSuites(ss))
         IN  /\ sent \ {NoDef} = {n \in members : tests[n] # NoDef}
             /\ NoDef \in sent <=> \/ \E x \in ToSet(ss) : suites[x] = <<>>
                                   \/ \E n \in members : tests[n] = NoDef
  <1> DEFINE asked == ToSet(ss)
             members == UNION {ToSet(suites[x]) : x \in asked}
             entries == ToSet(Entries(ss))
             sent == ToSet(TestsForSuites(ss))
  <1>1. sent = {Item(n) : n \in entries}
    BY AnswersEntries
  <1>2. asked \subseteq Suites
    BY LenProperties, ElementOfSeq DEF ToSet
  <1>3. members \subseteq Names
    <2>1. \A x \in asked : suites[x] \in Seq(Names)
      BY <1>2 DEF ConfigTyped
    <2>2. \A x \in asked : ToSet(suites[x]) \subseteq Names
      BY <2>1, LenProperties, ElementOfSeq DEF ToSet
    <2> HIDE DEF asked
    <2> QED
      BY <2>2
  <1>4. entries = UNION {IF suites[x] = <<>> THEN {NoDef} ELSE ToSet(suites[x]) : x \in asked}
    BY EntriesAre
  <1>5. ToSet(<<>>) = {}
    BY DEF ToSet
  <1> HIDE DEF asked, entries, sent
  <1>6. \A n : n \in entries <=> \/ n \in members
                                 \/ n = NoDef /\ \E x \in asked : suites[x] = <<>>
    BY <1>4, <1>5
  <1> HIDE DEF members
  <1>7. NoDef \notin Names
    BY ConfigAssumption
  <1>8. \A n \in members : n # NoDef /\ Item(n) = IF tests[n] # NoDef THEN n ELSE NoDef
    BY <1>3, <1>7 DEF Item
  <1>9. Item(NoDef) = NoDef
    BY DEF Item
  <1>10. sent \ {NoDef} = {n \in members : tests[n] # NoDef}
    BY <1>1, <1>6, <1>8, <1>9
  <1>11. NoDef \in sent <=> \/ \E x \in asked : suites[x] = <<>>
                            \/ \E n \in members : tests[n] = NoDef
    BY <1>1, <1>6, <1>8, <1>9
  <1> QED
    BY <1>10, <1>11 DEF asked, members, sent

-----------------------------------------------------------------------------
(* The lock.                                                               *)

\* Where the generators are.
Stage ==
    /\ phase \in [Streams -> Phases \cup {"closed"}]
    /\ generator \in [Streams -> {"lock", "send", "none"}]

\* A generator that sends holds the read lock of its phase.
Locked == \A s \in Streams : generator[s] = "send" => <<s, phase[s]>> \in holders

\* The part of the invariant that keeps Reload out.
IInv == Stage /\ Locked

\* Nobody sends at first.
LEMMA InitIsLocked == Init => IInv
  <1> SUFFICES ASSUME Init PROVE IInv
    OBVIOUS
  <1>1. Stage
    BY DEF Init, Stage, FirstPhase, Phases
  <1>2. Locked
    BY DEF Init, Locked
  <1> QED
    BY <1>1, <1>2 DEF IInv

\* The lock is taken before anything is sent, and released after the last item.
LEMMA StepKeepsLock == IInv /\ [Next]_vars => IInv'
  <1> SUFFICES ASSUME IInv, [Next]_vars PROVE IInv'
    OBVIOUS
  <1> USE DEF IInv
  <1>1. CASE UNCHANGED streams
    BY <1>1 DEF streams, Stage, Locked
  <1>2. ASSUME NEW s \in Streams, GeneratorRLock(s) PROVE IInv'
    <2>1. generator' = [generator EXCEPT ![s] = "send"] /\ phase' = phase
      BY <1>2 DEF GeneratorRLock
    <2>2. holders' = holders \cup {<<s, phase[s]>>}
      BY <1>2 DEF GeneratorRLock
    <2> QED
      BY <2>1, <2>2 DEF Stage, Locked
  <1>3. ASSUME NEW s \in Streams, Receive(s) PROVE IInv'
    BY <1>3 DEF Receive, Stage, Locked
  <1>4. ASSUME NEW s \in Streams, Close(s) PROVE IInv'
    <2>1. PICK p \in Phases \cup {"closed"}, g \in {"lock", "none"} :
            phase' = [phase EXCEPT ![s] = p] /\ generator' = [generator EXCEPT ![s] = g]
      BY <1>4 DEF Close, Phases
    <2>2. holders' = holders
      BY <1>4 DEF Close
    <2>3. Stage'
      BY <2>1 DEF Stage
    <2>4. ASSUME NEW t \in Streams, generator'[t] = "send"
          PROVE <<t, phase'[t]>> \in holders'
      <3>1. t # s
        BY <2>1, <2>4 DEF Stage
      <3> QED
        BY <2>1, <2>2, <2>4, <3>1 DEF Stage, Locked
    <2> QED
      BY <2>3, <2>4 DEF Locked
  <1>5. ASSUME NEW s \in Streams, NEW p \in Phases, GeneratorRUnlock(s, p)
        PROVE IInv'
    <2>1. phase[s] # p /\ holders' = holders \ {<<s, p>>}
      BY <1>5 DEF GeneratorRUnlock
    <2>2. phase' = phase /\ generator' = generator
      BY <1>5 DEF GeneratorRUnlock
    <2> QED
      BY <2>1, <2>2 DEF Stage, Locked
  <1> QED
    BY <1>1, <1>2, <1>3, <1>4, <1>5
    DEF Next, StreamStep, EditFile, ReloadLock, ReloadParse, ReloadFails,
        Finished, vars, streams

\* So a generator that sends has the lock.
LEMMA LockIsKept == Spec => []IInv
  BY InitIsLocked, StepKeepsLock, PTL DEF Spec

-----------------------------------------------------------------------------

\* Only Reload's parse changes the configuration.
LEMMA OnlyReloadWrites ==
  ASSUME [Next]_vars, ~ReloadParse
  PROVE  UNCHANGED conf
  BY DEF Next, StreamStep, EditFile, ReloadLock, ReloadFails, GeneratorRLock,
         Receive, Close, GeneratorRUnlock, config, Finished, vars

-----------------------------------------------------------------------------
(* What has been received, and what has yet to be sent.                    *)

\* The types, down to the parts of the functions that TypeOK leaves open.
Typed ==
    /\ file \in Documents \cup {Unreadable}
    /\ ConfigTyped
    /\ writerPending \in BOOLEAN
    /\ reloads \in 0..MaxReloads
    /\ lastReload \in {"none", "ok", "error"}
    /\ parsed \in Documents
    /\ request \in Requests
    /\ holders \subseteq Streams \X Phases
    /\ pending \in [Streams -> Seq(Sendable)]
    /\ got \in [Streams -> [Phases -> Seq(Sendable)]]

\* A generator is at work as long as its stream is open.
Open == \A s \in Streams : phase[s] = "closed" <=> generator[s] = "none"

\* What the generator of stream s answers in the configuration as it is.
Answer(s) == IF phase[s] = "byName" THEN TestsByName(Asked(s).names)
                                    ELSE TestsForSuites(Asked(s).suites)

\* Nothing came of a phase that is yet to start.
Fresh ==
    \A s \in Streams :
        /\ generator[s] = "lock" => got[s][phase[s]] = <<>>
        /\ phase[s] = "byName" => got[s].forSuites = <<>>

\* One item for each of the names: that name, or an error.
Answers(items, names) ==
    /\ Len(items) = Len(names)
    /\ \A i \in 1..Len(names) : items[i] \in {names[i], NoDef}

\* A stream that is through with the names has an answer to each.
NamesAreAnswered ==
    \A s \in Streams :
        phase[s] # "byName" /\ request[s].kind # "suite"
            => Answers(got[s].byName, Asked(s).names)

\* What a phase was asked for, it answered.
Fed ==
    /\ NamesAreAnswered
    /\ \A s \in Streams :
        /\ phase[s] = "closed" /\ request[s].kind # "test"
             /\ Asked(s).suites # <<>> => got[s].forSuites # <<>>

\* The inductive invariant: OneConfigPerGenerator is what makes it so, since what
\* is pending is known by it to be the rest of an answer.
SInv ==
    /\ IInv /\ Typed /\ Open
    /\ OneConfigPerGenerator
    /\ Fresh /\ OncePerStream /\ Fed

\* So are the maps that reset makes.
LEMMA ResetType ==
  /\ reset.tests \in [Names -> Defs \cup {NoDef}]
  /\ reset.suites \in [Suites -> Seq(Names)]
  BY DEF reset

\* Nobody has received anything at first.
LEMMA InitHolds == Init => SInv
  <1> SUFFICES ASSUME Init PROVE SInv
    OBVIOUS
  <1>1. IInv
    BY InitIsLocked
  <1>2. Typed
    <2>1. ConfigTyped
      BY ResetType, ParseTypes DEF Init, newTestConfig, ConfigTyped
    <2>2. got \in [Streams -> [Phases -> Seq(Sendable)]]
      BY DEF Init
    <2>3. pending \in [Streams -> Seq(Sendable)]
      BY DEF Init
    <2>4. 0 \in 0..MaxReloads
      BY ConfigAssumption
    <2> QED
      BY <2>1, <2>2, <2>3, <2>4 DEF Init, Typed
  <1>3. Open /\ OneConfigPerGenerator
    BY DEF Init, Open, OneConfigPerGenerator, FirstPhase
  <1>4. ASSUME NEW s \in Streams
        PROVE  phase[s] \in Phases /\ got[s] = [p \in Phases |-> <<>>]
    BY DEF Init, FirstPhase, Phases
  <1>5. Fresh /\ OncePerStream
    BY <1>4 DEF Fresh, OncePerStream, Phases
  <1>6. Fed
    <2> SUFFICES ASSUME NEW s \in Streams, phase[s] # "byName", request[s].kind # "suite"
                 PROVE  FALSE
      BY <1>4 DEF Fed, NamesAreAnswered, Phases
    <2> QED
      BY DEF Init, FirstPhase
  <1> QED
    BY <1>1, <1>2, <1>3, <1>5, <1>6 DEF SInv

\* The answer does not change with anything but the configuration.
LEMMA SameAnswer ==
  ASSUME UNCHANGED conf, request' = request, NEW s, phase'[s] = phase[s]
  PROVE  Answer(s)' = Answer(s)
  <1>1. tests' = tests /\ suites' = suites
    BY DEF conf
  <1> QED
    BY <1>1 DEF Answer, TestsByName, TestsForSuites, Entries, Item, Asked

\* A step of Reload, or of the one who edits the file, while nobody sends what
\* it changes.
LEMMA ReloadKeeps ==
  ASSUME SInv, EditFile \/ ReloadLock \/ ReloadParse \/ ReloadFails
  PROVE  SInv'
  <1> USE DEF SInv
  <1>1. UNCHANGED streams /\ [Next]_vars
    BY DEF EditFile, ReloadLock, ReloadParse, ReloadFails, Next
  <1>2. IInv'
    BY <1>1, StepKeepsLock
  <1>3. ConfigTyped'
    <2>1. CASE ReloadParse
      <3>1. file \in Documents
        BY <2>1 DEF Typed, ReloadParse
      <3>2. /\ tests' = parseTests(tests, suites, file).tests
            /\ suites' = parseTests(tests, suites, file).suites
        BY <2>1 DEF ReloadParse
      <3> QED
        BY <3>1, <3>2, ParseTypes DEF Typed, ConfigTyped
    <2>2. CASE ~ReloadParse
      BY <1>1, <2>2, OnlyReloadWrites DEF conf, Typed, ConfigTyped
    <2> QED
      BY <2>1, <2>2
  <1>4. Typed'
    <2>1. reloads' \in 0..MaxReloads
      BY ConfigAssumption DEF EditFile, ReloadLock, ReloadParse, ReloadFails, Typed
    <2>2. writerPending' \in BOOLEAN /\ file' \in Documents \cup {Unreadable}
      BY DEF EditFile, ReloadLock, ReloadParse, ReloadFails, Typed
    <2>3. lastReload' \in {"none", "ok", "error"} /\ parsed' \in Documents
      BY DEF EditFile, ReloadLock, ReloadParse, ReloadFails, Typed
    <2> QED
      BY <1>1, <1>3, <2>1, <2>2, <2>3 DEF streams, Typed
  <1>5. OneConfigPerGenerator'
    <2> SUFFICES ASSUME NEW s \in Streams, generator'[s] = "send"
                 PROVE  (got[s][phase[s]] \o pending[s] = Answer(s))'
      BY DEF OneConfigPerGenerator, Answer
    <2>1. generator[s] = "send" /\ holders # {}
      BY <1>1 DEF streams, IInv, Locked
    <2>2. UNCHANGED conf
      BY <1>1, <2>1, OnlyReloadWrites DEF ReloadParse
    <2>3. got[s][phase[s]] \o pending[s] = Answer(s)
      BY <2>1 DEF OneConfigPerGenerator, Answer
    <2>4. Answer(s)' = Answer(s)
      BY <1>1, <2>2, SameAnswer DEF streams
    <2> QED
      BY <1>1, <2>3, <2>4 DEF streams
  <1>6. Open' /\ Fresh' /\ OncePerStream' /\ Fed'
    BY <1>1 DEF streams, Open, Fresh, OncePerStream, Fed, NamesAreAnswered, Asked
  <1> QED
    BY <1>2, <1>4, <1>5, <1>6

\* What is sent to a stream is typed.
LEMMA AnswerType ==
  ASSUME Typed, NEW s \in Streams
  PROVE  Answer(s) \in Seq(Sendable)
  BY AskedType, TestsByNameType, TestsForSuitesType DEF Typed, Answer

\* A generator gets the lock and makes its answer of the configuration.
LEMMA LockKeeps ==
  ASSUME SInv, NEW s \in Streams, GeneratorRLock(s)
  PROVE  SInv'
  <1> USE DEF SInv
  <1>0. [Next]_vars
    BY DEF Next, StreamStep
  <1>1. /\ generator[s] = "lock" /\ UNCHANGED <<config, request, phase, got>>
        /\ generator' = [generator EXCEPT ![s] = "send"]
        /\ holders' = holders \cup {<<s, phase[s]>>}
        /\ pending' = [pending EXCEPT ![s] = Answer(s)]
    BY DEF GeneratorRLock, Answer
  <1>2. \A t \in Streams : Answer(t)' = Answer(t)
    BY <1>1, SameAnswer DEF config
  <1>3. IInv'
    BY <1>0, StepKeepsLock
  <1>4. phase[s] \in Phases
    BY <1>1 DEF Open, IInv, Stage
  <1>5. Typed'
    <2>1. ConfigTyped'
      BY <1>1 DEF config, conf, Typed, ConfigTyped
    <2>2. pending' \in [Streams -> Seq(Sendable)]
      BY <1>1, AnswerType DEF Typed
    <2>3. holders' \subseteq Streams \X Phases
      BY <1>1, <1>4 DEF Typed
    <2> QED
      BY <1>1, <2>1, <2>2, <2>3 DEF config, Typed
  <1>6. OneConfigPerGenerator'
    <2> SUFFICES ASSUME NEW t \in Streams, generator'[t] = "send"
                 PROVE  got[t][phase[t]] \o pending'[t] = Answer(t)
      BY <1>1, <1>2 DEF OneConfigPerGenerator, Answer
    <2>1. CASE t = s
      <3>1. got[s][phase[s]] = <<>> /\ pending'[s] = Answer(s)
        BY <1>1 DEF Fresh, Typed
      <3> QED
        BY <2>1, <3>1, AnswerType, ConcatEmptySeq
    <2>2. CASE t # s
      BY <1>1, <2>2 DEF OneConfigPerGenerator, Answer, Typed, IInv, Stage
    <2> QED
      BY <2>1, <2>2
  <1>7. Open' /\ Fresh'
    BY <1>1 DEF Open, Fresh, IInv, Stage
  <1>8. OncePerStream' /\ Fed'
    BY <1>1 DEF OncePerStream, Fed, NamesAreAnswered, Asked
  <1> QED
    BY <1>3, <1>5, <1>6, <1>7, <1>8

\* One item more has been received, and one less is pending.
LEMMA MovesOver ==
  ASSUME NEW g \in Seq(Sendable), NEW p \in Seq(Sendable), p # <<>>
  PROVE  /\ Append(g, Head(p)) \in Seq(Sendable) /\ Tail(p) \in Seq(Sendable)
         /\ Append(g, Head(p)) \o Tail(p) = g \o p
         /\ Append(g, Head(p)) # <<>>
  <1>1. Head(p) \in Sendable /\ Tail(p) \in Seq(Sendable)
    BY HeadTailProperties
  <1>2. Append(g, Head(p)) = g \o <<Head(p)>>
    BY <1>1, AppendIsConcat
  <1>3. p = <<Head(p)>> \o Tail(p)
    OBVIOUS
  <1>4. <<Head(p)>> \in Seq(Sendable)
    BY <1>1
  <1>5. (g \o <<Head(p)>>) \o Tail(p) = g \o (<<Head(p)>> \o Tail(p))
    BY <1>1, <1>4, ConcatAssociative
  <1> QED
    BY <1>1, <1>2, <1>3, <1>5, AppendProperties

\* A part of an answer without repetitions has none.
LEMMA PrefixHasNoRepeats ==
  ASSUME NEW g \in Seq(Sendable), NEW p \in Seq(Sendable), NoRepeats(g \o p)
  PROVE  NoRepeats(g)
  <1>1. /\ Len(g) \in Nat /\ Len(p) \in Nat /\ Len(g \o p) = Len(g) + Len(p)
        /\ \A i \in 1..(Len(g) + Len(p)) : i <= Len(g) => (g \o p)[i] = g[i]
    BY LenProperties, ConcatProperties
  <1>2. \A i \in 1..Len(g) : i \in 1..Len(g \o p) /\ (g \o p)[i] = g[i]
    BY <1>1
  <1> QED
    BY <1>2 DEF NoRepeats

\* The consumer receives one item.
LEMMA ReceiveKeeps ==
  ASSUME SInv, NEW s \in Streams, Receive(s)
  PROVE  SInv'
  <1> USE DEF SInv
  <1> DEFINE g == got[s][phase[s]]
             p == pending[s]
  <1>0. [Next]_vars
    BY DEF Next, StreamStep
  <1>1. /\ generator[s] = "send" /\ p # <<>>
        /\ UNCHANGED <<config, request, holders, phase, generator>>
        /\ got' = [got EXCEPT ![s][phase[s]] = Append(g, Head(p))]
        /\ pending' = [pending EXCEPT ![s] = Tail(p)]
    BY DEF Receive
  <1>2. \A t \in Streams : Answer(t)' = Answer(t)
    BY <1>1, SameAnswer DEF config
  <1>3. IInv'
    BY <1>0, StepKeepsLock
  <1>4. phase[s] \in Phases
    BY <1>1 DEF IInv, Locked, Typed
  <1>5. g \in Seq(Sendable) /\ p \in Seq(Sendable)
    BY <1>4 DEF Typed
  <1>6. /\ Append(g, Head(p)) \in Seq(Sendable) /\ Tail(p) \in Seq(Sendable)
        /\ Append(g, Head(p)) \o Tail(p) = g \o p
        /\ Append(g, Head(p)) # <<>>
    BY <1>1, <1>5, MovesOver
  <1>7. g \o p = Answer(s)
    BY <1>1 DEF OneConfigPerGenerator, Answer
  <1>8. /\ got'[s][phase[s]] = Append(g, Head(p)) /\ pending'[s] = Tail(p)
        /\ \A t \in Streams, q \in Phases :
             ~(t = s /\ q = phase[s]) => got'[t][q] = got[t][q]
        /\ \A t \in Streams : t # s => pending'[t] = pending[t] /\ got'[t] = got[t]
    BY <1>1, <1>4 DEF Typed
  <1>9. Typed'
    <2>1. ConfigTyped'
      BY <1>1 DEF config, conf, Typed, ConfigTyped
    <2>2. pending' \in [Streams -> Seq(Sendable)]
      BY <1>1, <1>6 DEF Typed
    <2>3. got' \in [Streams -> [Phases -> Seq(Sendable)]]
      BY <1>1, <1>4, <1>6 DEF Typed
    <2> QED
      BY <1>1, <2>1, <2>2, <2>3 DEF config, Typed
  <1> HIDE DEF g, p
  <1>10. OneConfigPerGenerator'
    <2> SUFFICES ASSUME NEW t \in Streams, generator[t] = "send"
                 PROVE  got'[t][phase[t]] \o pending'[t] = Answer(t)
      BY <1>1, <1>2 DEF OneConfigPerGenerator, Answer
    <2>1. CASE t = s
      BY <1>6, <1>7, <1>8, <2>1
    <2>2. CASE t # s
      BY <1>8, <2>2 DEF OneConfigPerGenerator, Answer
    <2> QED
      BY <2>1, <2>2
  <1>11. Open'
    BY <1>1 DEF Open
  <1>12. Fresh'
    <2> SUFFICES ASSUME NEW t \in Streams
                 PROVE  /\ generator[t] = "lock" => got'[t][phase[t]] = <<>>
                        /\ phase[t] = "byName" => got'[t]["forSuites"] = <<>>
      BY <1>1 DEF Fresh
    <2>1. CASE t = s
      BY <1>1, <1>8, <2>1 DEF Fresh, Phases
    <2>2. CASE t # s
      BY <1>8, <2>2 DEF Fresh
    <2> QED
      BY <2>1, <2>2
  <1>13. OncePerStream'
    <2> SUFFICES ASSUME NEW t \in Streams PROVE NoRepeats(got'[t]["forSuites"])
      BY DEF OncePerStream, NoRepeats
    <2>1. NoRepeats(got[t]["forSuites"])
      BY DEF OncePerStream, NoRepeats
    <2>2. CASE t = s /\ phase[s] = "forSuites"
      <3>1. NoRepeats(Answer(s))
        BY <2>2, AskedType, AnswersOnce DEF Answer, Typed
      <3>2. NoRepeats(Append(g, Head(p)))
        BY <1>6, <1>7, <3>1, PrefixHasNoRepeats
      <3> QED
        BY <1>8, <2>2, <3>2
    <2>3. CASE ~(t = s /\ phase[s] = "forSuites")
      BY <1>8, <2>1, <2>3 DEF Phases
    <2> QED
      BY <2>2, <2>3
  <1>14. Fed'
    <2>1. \A t \in Streams : got[t].forSuites # <<>> => got'[t].forSuites # <<>>
      BY <1>6, <1>8 DEF Phases
    <2>2. \A t \in Streams : Asked(t)' = Asked(t)
      BY <1>1 DEF Asked
    <2>3. phase' = phase /\ request' = request
      BY <1>1
    <2>4. \A t \in Streams : phase[t] # "byName" => got'[t].byName = got[t].byName
      BY <1>8 DEF Phases
    <2> QED
      BY <2>1, <2>2, <2>3, <2>4 DEF Fed, NamesAreAnswered, Phases
  <1> QED
    BY <1>3, <1>9, <1>10, <1>11, <1>12, <1>13, <1>14

\* The generator closes its channel: its answer has been received.
LEMMA CloseKeeps ==
  ASSUME SInv, NEW s \in Streams, Close(s)
  PROVE  SInv'
  <1> USE DEF SInv
  <1>0. [Next]_vars
    BY DEF Next, StreamStep
  <1>1. /\ generator[s] = "send" /\ pending[s] = <<>>
        /\ UNCHANGED <<config, request, holders, pending, got>>
    BY DEF Close
  <1>2. PICK q \in Phases \cup {"closed"}, w \in {"lock", "none"} :
          /\ phase' = [phase EXCEPT ![s] = q] /\ generator' = [generator EXCEPT ![s] = w]
          /\ \/ /\ phase[s] = "byName" /\ request[s].kind = "run"
                /\ q = "forSuites" /\ w = "lock"
             \/ /\ phase[s] = "forSuites" \/ request[s].kind = "test"
                /\ q = "closed" /\ w = "none"
    BY DEF Close, Phases
  <1>3. /\ phase'[s] = q /\ generator'[s] = w
        /\ \A t \in Streams : t # s => phase'[t] = phase[t] /\ generator'[t] = generator[t]
    BY <1>2 DEF IInv, Stage
  <1>4. IInv'
    BY <1>0, StepKeepsLock
  <1>5. Typed'
    <2>1. ConfigTyped'
      BY <1>1 DEF config, conf, Typed, ConfigTyped
    <2> QED
      BY <1>1, <2>1 DEF config, Typed
  <1>6. Open'
    BY <1>1, <1>2, <1>3 DEF Open, Phases
  <1>7. phase[s] \in Phases
    BY <1>1 DEF IInv, Locked, Typed
  <1>8. got[s][phase[s]] = Answer(s)
    <2>1. got[s][phase[s]] \o pending[s] = Answer(s)
      BY <1>1 DEF OneConfigPerGenerator, Answer
    <2>2. got[s][phase[s]] \in Seq(Sendable)
      BY <1>7 DEF Typed
    <2> QED
      BY <1>1, <2>1, <2>2, ConcatEmptySeq
  <1>9. \A t \in Streams : Asked(t)' = Asked(t)
    BY <1>1 DEF Asked
  <1>10. OneConfigPerGenerator'
    <2> SUFFICES ASSUME NEW t \in Streams, generator'[t] = "send"
                 PROVE  (got[t][phase[t]] \o pending[t] = Answer(t))'
      BY DEF OneConfigPerGenerator, Answer
    <2>1. t # s
      BY <1>3
    <2>2. Answer(t)' = Answer(t)
      BY <1>1, <1>3, <2>1, SameAnswer DEF config
    <2>3. generator[t] = "send" /\ phase'[t] = phase[t]
      BY <1>3, <2>1
    <2> QED
      BY <1>1, <2>2, <2>3 DEF OneConfigPerGenerator, Answer
  <1>11. Fresh'
    <2> SUFFICES ASSUME NEW t \in Streams
                 PROVE  /\ generator'[t] = "lock" => got[t][phase'[t]] = <<>>
                        /\ phase'[t] = "byName" => got[t].forSuites = <<>>
      BY <1>1 DEF Fresh
    <2>1. CASE t = s
      BY <1>2, <1>3, <2>1 DEF Fresh
    <2>2. CASE t # s
      BY <1>3, <2>2 DEF Fresh
    <2> QED
      BY <2>1, <2>2
  <1>12. OncePerStream'
    BY <1>1 DEF OncePerStream
  <1>13. Fed'
    <2> SUFFICES ASSUME NEW t \in Streams
                 PROVE  /\ phase'[t] # "byName" /\ request[t].kind # "suite"
                             => Answers(got[t].byName, Asked(t).names)
                        /\ phase'[t] = "closed" /\ request[t].kind # "test"
                             /\ Asked(t).suites # <<>> => got[t].forSuites # <<>>
      BY <1>1, <1>9 DEF Fed, NamesAreAnswered
    <2>1. CASE t # s
      BY <1>3, <2>1 DEF Fed, NamesAreAnswered
    <2>2. CASE t = s /\ phase[s] = "byName"
      <3>1. Answers(Answer(s), Asked(s).names)
        BY <2>2, AskedType, TestsByNameType DEF Answer, Answers, Typed
      <3> QED
        BY <1>2, <1>3, <1>8, <2>2, <3>1
    <2>3. CASE t = s /\ phase[s] = "forSuites"
      <3>1. Asked(s).suites # <<>> => Answer(s) # <<>>
        BY <2>3, AskedType, AnswersSomething DEF Answer, Typed
      <3> QED
        BY <1>8, <2>3, <3>1 DEF Fed, NamesAreAnswered
    <2> QED
      BY <1>7, <2>1, <2>2, <2>3 DEF Phases
  <1> QED
    BY <1>4, <1>5, <1>6, <1>10, <1>11, <1>12, <1>13

\* The lock is released.
LEMMA UnlockKeeps ==
  ASSUME SInv, NEW s \in Streams, NEW p \in Phases, GeneratorRUnlock(s, p)
  PROVE  SInv'
  <1> USE DEF SInv
  <1>1. /\ UNCHANGED <<config, request, phase, generator, pending, got>>
        /\ holders' = holders \ {<<s, p>>}
    BY DEF GeneratorRUnlock
  <1>2. IInv'
    BY StepKeepsLock DEF Next, StreamStep
  <1>3. Typed'
    <2>1. ConfigTyped'
      BY <1>1 DEF config, conf, Typed, ConfigTyped
    <2> QED
      BY <1>1, <2>1 DEF config, Typed
  <1>4. OneConfigPerGenerator'
    <2>1. \A t \in Streams : Answer(t)' = Answer(t)
      BY <1>1, SameAnswer DEF config
    <2> QED
      BY <1>1, <2>1 DEF OneConfigPerGenerator, Answer
  <1>5. Open' /\ Fresh' /\ OncePerStream' /\ Fed'
    BY <1>1 DEF Open, Fresh, OncePerStream, Fed, NamesAreAnswered, Asked
  <1> QED
    BY <1>2, <1>3, <1>4, <1>5

\* Every step keeps the invariant.
LEMMA StepHolds == SInv /\ [Next]_vars => SInv'
  <1> SUFFICES ASSUME SInv, [Next]_vars PROVE SInv'
    OBVIOUS
  <1>1. CASE EditFile \/ ReloadLock \/ ReloadParse \/ ReloadFails
    BY <1>1, ReloadKeeps
  <1>2. ASSUME NEW s \in Streams, StreamStep(s) PROVE SInv'
    BY <1>2, LockKeeps, ReceiveKeeps, CloseKeeps, UnlockKeeps DEF StreamStep
  <1>3. CASE UNCHANGED vars
    <2>1. ConfigTyped'
      BY <1>3 DEF vars, conf, SInv, Typed, ConfigTyped
    <2>2. OneConfigPerGenerator'
      <3>1. \A t \in Streams : Answer(t)' = Answer(t)
        BY <1>3, SameAnswer DEF vars, streams
      <3> QED
        BY <1>3, <3>1 DEF vars, streams, SInv, OneConfigPerGenerator, Answer
    <2> QED
      BY <1>3, <2>1, <2>2
      DEF vars, conf, streams, SInv, IInv, Stage, Locked, Typed, Open, Fresh,
          OncePerStream, Fed, NamesAreAnswered, Asked
  <1> QED
    BY <1>1, <1>2, <1>3 DEF Next, Finished

\* So it holds always.
LEMMA SInvHolds == Spec => []SInv
  BY InitHolds, StepHolds, PTL DEF Spec

-----------------------------------------------------------------------------
(* Theorems.                                                               *)

\* The lock does what Reload takes it for (config.go:77-78): while any generator is
\* between its first item and its last, no step changes a test or a suite.
THEOREM ReadersExcludeReload ==
  Spec => [][(\E s \in Streams : generator[s] = "send") => UNCHANGED conf]_vars
  <1>1. ASSUME IInv, [Next]_vars, NEW s \in Streams, generator[s] = "send"
        PROVE  UNCHANGED conf
    <2>1. holders # {}
      BY <1>1 DEF IInv, Locked
    <2>2. ~ReloadParse
      BY <2>1 DEF ReloadParse
    <2> QED
      BY <1>1, <2>2, OnlyReloadWrites
  <1>2. IInv /\ [Next]_vars
          => [(\E s \in Streams : generator[s] = "send") => UNCHANGED conf]_vars
    BY <1>1
  <1> QED
    BY <1>2, LockIsKept, PTL DEF Spec

\* JobsAreStable: a name keeps its definition across any reloads of any files
\* (config.go:85-88 parses into the maps it has).
THEOREM DefinitionsStay == Spec => JobsAreStable
  <1>1. ASSUME [Next]_vars, NEW n \in Names, tests[n] # NoDef
        PROVE  tests'[n] = tests[n]
    <2>1. CASE ReloadParse
      <3>1. tests' = [m \in Names |-> addTest(tests, file, m)]
        BY <2>1 DEF ReloadParse, parseTests
      <3> QED
        BY <1>1, <3>1 DEF addTest
    <2>2. CASE ~ReloadParse
      BY <1>1, <2>2, OnlyReloadWrites DEF conf
    <2> QED
      BY <2>1, <2>2
  <1>2. [Next]_vars
          => [\A n \in Names : tests[n] # NoDef => tests'[n] = tests[n]]_vars
    BY <1>1
  <1> QED
    BY <1>2, PTL DEF Spec, JobsAreStable

\* A suite never loses a test: what a reload drops from the file stays in the
\* suite (parsing.go:91-98 appends to the map that is there).
THEOREM SuitesOnlyGrow ==
  Spec => [][\A s \in Suites : \E more \in Seq(Names) : suites'[s] = suites[s] \o more]_vars
  <1>1. ASSUME Typed, [Next]_vars, NEW s \in Suites
        PROVE  \E more \in Seq(Names) : suites'[s] = suites[s] \o more
    <2>1. suites[s] \in Seq(Names) /\ <<>> \in Seq(Names)
      BY <1>1 DEF Typed, ConfigTyped
    <2>2. CASE ReloadParse
      <3>1. PICK more \in Seq(Names) : addSuites(suites, file, s) = suites[s] \o more
        <4>1. file \in Documents /\ suites \in [Suites -> Seq(Names)]
          BY <1>1, <2>2 DEF ReloadParse, Typed, ConfigTyped
        <4> QED
          BY <4>1, SuiteGrows
      <3>2. suites'[s] = addSuites(suites, file, s)
        BY <2>2 DEF ReloadParse, parseTests
      <3> QED
        BY <3>1, <3>2
    <2>3. CASE ~ReloadParse
      <3>1. suites'[s] = suites[s] \o <<>>
        BY <1>1, <2>1, <2>3, OnlyReloadWrites, ConcatEmptySeq DEF conf
      <3> QED
        BY <2>1, <3>1
    <2> QED
      BY <2>2, <2>3
  <1>2. Typed /\ [Next]_vars
          => [\A s \in Suites : \E more \in Seq(Names) : suites'[s] = suites[s] \o more]_vars
    BY <1>1
  <1> QED
    BY <1>2, SInvHolds, PTL DEF Spec, SInv

\* TypeOK: whatever is read, whenever it is read again.
THEOREM TypesHold == Spec => []TypeOK
  <1>1. SInv => TypeOK
    BY DEF SInv, IInv, Stage, Typed, ConfigTyped, TypeOK, Sendable
  <1> QED
    BY <1>1, SInvHolds, PTL

\* OneConfigPerGenerator: a generator answers in full from one configuration,
\* wherever reloads fall (config.go:109 and 162: the lock is held over the loop).
THEOREM OneConfiguration == Spec => []OneConfigPerGenerator
  <1>1. SInv => OneConfigPerGenerator
    BY DEF SInv
  <1> QED
    BY <1>1, SInvHolds, PTL

\* OncePerStream: no test is dispatched twice for several suites that list it
\* (config.go:133-139), for any number of suites and any of them overlapping.
THEOREM SuitesAnswerOnce == Spec => []OncePerStream
  <1>1. SInv => OncePerStream
    BY DEF SInv
  <1> QED
    BY <1>1, SInvHolds, PTL

\* SuiteIsItsMembers: in every configuration that any files and reloads lead to,
\* the walk over any suites yields their members, and errors for what is missing.
THEOREM SuitesAreTheirMembers == Spec => []SuiteIsItsMembers
  <1>1. ASSUME Typed PROVE SuiteIsItsMembers
    <2>1. \A s \in Streams : Asked(s).suites \in Seq(Suites)
      BY <1>1, AskedType DEF Typed
    <2> QED
      BY <1>1, <2>1, AnswersMembers DEF Typed, SuiteIsItsMembers
  <1> QED
    BY <1>1, SInvHolds, PTL DEF SInv

\* A run or a request that asks for names gets one item for each, in their order:
\* the test of that name or an error (config.go:165-177 skips none).
THEOREM EveryNameIsAnswered == Spec => []NamesAreAnswered
  <1>1. SInv => NamesAreAnswered
    BY DEF SInv, Fed
  <1> QED
    BY <1>1, SInvHolds, PTL

\* NeverVacuous: nobody is told that all went well because nothing was asked, or
\* because the configuration had nothing to say.
THEOREM NobodyIsVacuous == Spec => []NeverVacuous
  <1>1. ASSUME SInv, NEW s \in Streams, phase[s] = "closed"
        PROVE  Received(s) # <<>>
    <2>1. /\ request[s].kind \in {"run", "test", "suite"}
          /\ Asked(s).names = request[s].names
          /\ request[s].names \in Seq(Names) /\ Asked(s).suites \in Seq(Suites)
      BY <1>1, AskedType DEF SInv, Typed
    <2>2. got[s].byName \in Seq(Sendable) /\ got[s].forSuites \in Seq(Sendable)
      BY <1>1 DEF SInv, Typed, Phases
    <2>3. request[s].kind # "suite" /\ request[s].names # <<>> => got[s].byName # <<>>
      BY <1>1, <2>1, <2>2, EmptySeq, LenProperties
      DEF SInv, Fed, NamesAreAnswered, Answers
    <2>4. request[s].kind # "test" /\ Asked(s).suites # <<>> => got[s].forSuites # <<>>
      BY <1>1 DEF SInv, Fed
    <2>5. got[s].byName # <<>> \/ got[s].forSuites # <<>>
      <3>1. CASE request[s].kind = "test"
        <4>1. Len(request[s].names) = 1
          BY <1>1, <3>1, ConfigAssumption DEF SInv, Typed
        <4>2. request[s].names # <<>>
          BY <4>1
        <4> QED
          BY <2>3, <3>1, <4>2
      <3>2. CASE request[s].kind = "suite"
        <4>1. Len(Asked(s).suites) = 1
          BY <1>1, <3>2, ConfigAssumption DEF SInv, Typed, Asked
        <4>2. Asked(s).suites # <<>>
          BY <4>1
        <4> QED
          BY <2>4, <3>2, <4>2
      <3>3. CASE request[s].kind = "run"
        <4>1. request[s].names = <<>> => Asked(s).suites # <<>>
          BY <1>1, <3>3, RunIsAsked DEF SInv, Typed
        <4> QED
          BY <2>3, <2>4, <3>3, <4>1
      <3> QED
        BY <2>1, <3>1, <3>2, <3>3
    <2> QED
      BY <2>2, <2>5, EmptySeq, ConcatProperties, LenProperties DEF Received
  <1>2. SInv => NeverVacuous
    BY <1>1 DEF NeverVacuous, runAdhocTests
  <1> QED
    BY <1>2, SInvHolds, PTL

-----------------------------------------------------------------------------
(* Nobody holds the lock and waits.                                        *)

\* A generator that has the read lock of a phase sends, or its stream is past that
\* phase; and phases come in their order.
Turns ==
    /\ \A h \in holders : phase[h[1]] = h[2] => generator[h[1]] = "send"
    /\ \A s \in Streams :
          phase[s] = "byName" =>
              <<s, "forSuites">> \notin holders /\ request[s].kind # "suite"

\* The guards of the actions of Next, but for those of EditFile and ReloadLock, which
\* nobody has to take.
CanMove ==
    \/ \E s \in Streams : generator[s] = "lock" /\ ~writerPending
    \/ \E s \in Streams :
          /\ generator[s] = "send"
          /\ \/ pending[s] # <<>>
             \/ phase[s] = "byName" /\ request[s].kind = "run"
             \/ phase[s] = "forSuites" \/ request[s].kind = "test"
    \/ \E h \in holders : phase[h[1]] # h[2]
    \/ writerPending /\ holders = {}

\* All streams are consumed, nobody reads and nobody waits to write.
AtRest ==
    /\ \A s \in Streams : phase[s] = "closed"
    /\ holders = {}
    /\ ~writerPending

\* Nobody holds the lock at first.
LEMMA InitTurns == Init => Turns
  <1> SUFFICES ASSUME Init PROVE Turns
    OBVIOUS
  <1>1. holders = {} /\ phase = [s \in Streams |-> FirstPhase(request[s].kind)]
    BY DEF Init
  <1> QED
    BY <1>1 DEF Turns, FirstPhase

\* A stream enters a phase after the one it leaves, and locks that one first.
LEMMA StepTurns == SInv /\ Turns /\ [Next]_vars => Turns'
  <1> SUFFICES ASSUME SInv, Turns, [Next]_vars PROVE Turns'
    OBVIOUS
  <1>0. /\ phase \in [Streams -> Phases \cup {"closed"}]
        /\ generator \in [Streams -> {"lock", "send", "none"}]
        /\ holders \subseteq Streams \X Phases
    BY DEF SInv, IInv, Stage, Typed
  <1>1. CASE UNCHANGED streams
    BY <1>1 DEF streams, Turns
  <1>2. ASSUME NEW s \in Streams, GeneratorRLock(s) PROVE Turns'
    <2>1. /\ generator' = [generator EXCEPT ![s] = "send"]
          /\ holders' = holders \cup {<<s, phase[s]>>}
          /\ UNCHANGED <<phase, request>>
      BY <1>2 DEF GeneratorRLock
    <2>2. \A h \in holders' : phase'[h[1]] = h[2] => generator'[h[1]] = "send"
      BY <1>0, <2>1 DEF Turns
    <2>3. ASSUME NEW t \in Streams, phase'[t] = "byName"
          PROVE <<t, "forSuites">> \notin holders' /\ request'[t].kind # "suite"
      BY <1>0, <2>1, <2>3 DEF Turns
    <2> QED
      BY <2>2, <2>3 DEF Turns
  <1>3. ASSUME NEW s \in Streams, Receive(s) PROVE Turns'
    BY <1>3 DEF Receive, Turns
  <1>4. ASSUME NEW s \in Streams, Close(s) PROVE Turns'
    <2>1. /\ UNCHANGED <<holders, request>>
          /\ \/ /\ phase[s] = "byName"
                /\ phase' = [phase EXCEPT ![s] = "forSuites"]
                /\ generator' = [generator EXCEPT ![s] = "lock"]
             \/ /\ phase' = [phase EXCEPT ![s] = "closed"]
                /\ generator' = [generator EXCEPT ![s] = "none"]
      BY <1>4 DEF Close
    <2>2. ASSUME NEW h \in holders', phase'[h[1]] = h[2]
          PROVE generator'[h[1]] = "send"
      <3>1. PICK t \in Streams, p \in Phases : h = <<t, p>>
        BY <1>0, <2>1
      <3>2. t # s
        BY <1>0, <2>1, <2>2, <3>1 DEF Turns, Phases
      <3> QED
        BY <1>0, <2>1, <2>2, <3>1, <3>2 DEF Turns
    <2>3. ASSUME NEW t \in Streams, phase'[t] = "byName"
          PROVE <<t, "forSuites">> \notin holders' /\ request'[t].kind # "suite"
      <3>1. phase[t] = "byName"
        BY <1>0, <2>1, <2>3
      <3> QED
        BY <2>1, <3>1 DEF Turns
    <2> QED
      BY <2>2, <2>3 DEF Turns
  <1>5. ASSUME NEW s \in Streams, NEW p \in Phases, GeneratorRUnlock(s, p)
        PROVE Turns'
    BY <1>5 DEF GeneratorRUnlock, Turns
  <1> QED
    BY <1>1, <1>2, <1>3, <1>4, <1>5
    DEF Next, StreamStep, EditFile, ReloadLock, ReloadParse, ReloadFails,
        Finished, vars, streams

LEMMA TurnsHold == Spec => []Turns
  BY InitTurns, StepTurns, SInvHolds, PTL DEF Spec

\* A goroutine that holds the read lock never waits for it: GetAllTests takes it
\* once for each of its generators, one after the other, so a Reload that waits in
\* between, and keeps new readers out, keeps none out that it waits for itself
\* (config.go:77, 109-110, 162-163, 186-200).
THEOREM HoldersNeverWait ==
  Spec => [](\A h \in holders : phase[h[1]] # h[2] \/ generator[h[1]] = "send")
  <1>1. Turns => \A h \in holders : phase[h[1]] # h[2] \/ generator[h[1]] = "send"
    BY DEF Turns
  <1> QED
    BY <1>1, TurnsHold, PTL

\* So the configuration is never stuck: as long as a stream is open, or a reload
\* waits, or a generator has yet to unlock, one of them can move, for any number of
\* streams and reloads. The bound on reloads plays no part.
THEOREM ConfigIsNeverStuck == Spec => [](AtRest \/ CanMove)
  <1>1. ASSUME SInv, Turns PROVE AtRest \/ CanMove
    <2>0. /\ phase \in [Streams -> Phases \cup {"closed"}]
          /\ generator \in [Streams -> {"lock", "send", "none"}]
          /\ holders \subseteq Streams \X Phases
          /\ \A s \in Streams : request[s].kind \in {"run", "test", "suite"}
          /\ \A s \in Streams : phase[s] = "closed" <=> generator[s] = "none"
      BY <1>1, AskedType DEF SInv, IInv, Stage, Typed, Open
    <2>1. ASSUME NEW s \in Streams, generator[s] = "send" PROVE CanMove
      <3>1. phase[s] \in Phases
        BY <2>0, <2>1
      <3>2. phase[s] = "byName" => request[s].kind \in {"run", "test"}
        BY <1>1, <2>0 DEF Turns
      <3> QED
        BY <2>1, <3>1, <3>2 DEF CanMove, Phases
    <2>2. ASSUME holders # {} PROVE CanMove
      <3>1. PICK h \in holders : TRUE
        BY <2>2
      <3>2. h[1] \in Streams
        BY <2>0
      <3>3. CASE phase[h[1]] # h[2]
        BY <3>3 DEF CanMove
      <3>4. CASE phase[h[1]] = h[2]
        BY <1>1, <2>1, <3>2, <3>4 DEF Turns
      <3> QED
        BY <3>3, <3>4
    <2>3. writerPending => CanMove
      BY <2>2 DEF CanMove
    <2>4. ASSUME NEW s \in Streams, phase[s] # "closed" PROVE CanMove
      <3>1. generator[s] \in {"lock", "send"}
        BY <2>0, <2>4
      <3>2. CASE generator[s] = "lock"
        BY <2>3, <3>2 DEF CanMove
      <3> QED
        BY <2>1, <3>1, <3>2
    <2> QED
      BY <2>2, <2>3, <2>4 DEF AtRest
  <1> QED
    BY <1>1, SInvHolds, TurnsHold, PTL

\* Where a stream is, what it has and what it holds.
StreamAt(s) ==
    <<phase[s], generator[s], pending[s], got[s], {p \in Phases : <<s, p>> \in holders}>>

HoldsOne(s, p) == IF <<s, p>> \in holders THEN 1 ELSE 0

\* How many locks, unlocks and closings a stream has before it.
TurnsLeft(s) ==
    (CASE phase[s] = "byName" /\ generator[s] = "lock" -> 6
       [] phase[s] = "byName" /\ generator[s] = "send" -> 4
       [] phase[s] = "forSuites" /\ generator[s] = "lock" -> 3
       [] phase[s] = "forSuites" /\ generator[s] = "send" -> 1
       [] OTHER -> 0)
    + (HoldsOne(s, "byName") + HoldsOne(s, "forSuites"))

\* One of them is behind it, or an item of its present phase.
Proceeds(s) ==
    \/ TurnsLeft(s)' < TurnsLeft(s)
    \/ TurnsLeft(s)' = TurnsLeft(s) /\ Len(pending[s])' < Len(pending[s])

LEMMA StepProceeds ==
  ASSUME SInv, Turns, NEW s \in Streams, StreamStep(s)
  PROVE  /\ Proceeds(s)
         /\ \A t \in Streams : t # s => StreamAt(t)' = StreamAt(t)
  <1>0. /\ phase \in [Streams -> Phases \cup {"closed"}]
        /\ generator \in [Streams -> {"lock", "send", "none"}]
        /\ \A t \in Streams : phase[t] = "closed" <=> generator[t] = "none"
        /\ pending \in [Streams -> Seq(Sendable)]
        /\ got \in [Streams -> [Phases -> Seq(Sendable)]]
    BY DEF SInv, IInv, Stage, Typed, Open
  <1>1. \A p : HoldsOne(s, p) \in {0, 1} /\ HoldsOne(s, p)' \in {0, 1}
    BY DEF HoldsOne
  <1>2. CASE GeneratorRLock(s)
    <2>1. /\ holders' = holders \cup {<<s, phase[s]>>} /\ generator[s] = "lock"
          /\ generator' = [generator EXCEPT ![s] = "send"]
          /\ pending' = [pending EXCEPT ![s] = pending'[s]]
          /\ UNCHANGED <<phase, got>>
      BY <1>0, <1>2 DEF GeneratorRLock
    <2>2. phase[s] \in Phases /\ phase'[s] = phase[s] /\ generator'[s] = "send"
      BY <1>0, <2>1
    <2>3. /\ phase[s] = "byName" => HoldsOne(s, "forSuites")' = HoldsOne(s, "forSuites")
          /\ phase[s] = "forSuites" => HoldsOne(s, "byName")' = HoldsOne(s, "byName")
      BY <2>1 DEF HoldsOne
    <2>4. ASSUME phase[s] = "byName" PROVE Proceeds(s)
      <3>1. /\ TurnsLeft(s) = 6 + (HoldsOne(s, "byName") + HoldsOne(s, "forSuites"))
            /\ TurnsLeft(s)' = 4 + (HoldsOne(s, "byName")' + HoldsOne(s, "forSuites")')
        BY <2>1, <2>2, <2>4 DEF TurnsLeft
      <3>2. PICK x \in {0, 1}, y \in {0, 1}, z \in {0, 1} :
              /\ HoldsOne(s, "byName") = x /\ HoldsOne(s, "forSuites") = y
              /\ HoldsOne(s, "byName")' = z /\ HoldsOne(s, "forSuites")' = y
        BY <1>1, <2>3, <2>4
      <3>3. TurnsLeft(s) = 6 + (x + y) /\ TurnsLeft(s)' = 4 + (z + y)
        BY <3>1, <3>2
      <3>4. TurnsLeft(s)' < TurnsLeft(s)
        BY <3>3
      <3> QED
        BY <3>4 DEF Proceeds
    <2>5. ASSUME phase[s] = "forSuites" PROVE Proceeds(s)
      <3>1. /\ TurnsLeft(s) = 3 + (HoldsOne(s, "byName") + HoldsOne(s, "forSuites"))
            /\ TurnsLeft(s)' = 1 + (HoldsOne(s, "byName")' + HoldsOne(s, "forSuites")')
        BY <2>1, <2>2, <2>5 DEF TurnsLeft
      <3>2. PICK x \in {0, 1}, y \in {0, 1}, z \in {0, 1} :
              /\ HoldsOne(s, "byName") = x /\ HoldsOne(s, "forSuites") = y
              /\ HoldsOne(s, "byName")' = x /\ HoldsOne(s, "forSuites")' = z
        BY <1>1, <2>3, <2>5
      <3>3. TurnsLeft(s) = 3 + (x + y) /\ TurnsLeft(s)' = 1 + (x + z)
        BY <3>1, <3>2
      <3>4. TurnsLeft(s)' < TurnsLeft(s)
        BY <3>3
      <3> QED
        BY <3>4 DEF Proceeds
    <2>6. \A t \in Streams : t # s => StreamAt(t)' = StreamAt(t)
      BY <1>0, <2>1 DEF StreamAt
    <2> QED
      BY <2>2, <2>4, <2>5, <2>6 DEF Phases
  <1>3. CASE Receive(s)
    <2>1. /\ pending' = [pending EXCEPT ![s] = Tail(pending[s])] /\ pending[s] # <<>>
          /\ got' = [got EXCEPT ![s] = got'[s]]
          /\ UNCHANGED <<holders, phase, generator>>
      BY <1>0, <1>3 DEF Receive
    <2>2. TurnsLeft(s)' = TurnsLeft(s)
      BY <2>1 DEF TurnsLeft, HoldsOne
    <2>3. Len(pending[s])' < Len(pending[s])
      <3>1. pending'[s] = Tail(pending[s]) /\ pending[s] \in Seq(Sendable)
        BY <1>0, <2>1
      <3>2. Len(Tail(pending[s])) = Len(pending[s]) - 1 /\ Len(pending[s]) \in Nat
        BY <2>1, <3>1, HeadTailProperties, LenProperties
      <3> QED
        BY <3>1, <3>2
    <2>4. \A t \in Streams : t # s => StreamAt(t)' = StreamAt(t)
      BY <1>0, <2>1 DEF StreamAt
    <2> QED
      BY <2>2, <2>3, <2>4 DEF Proceeds
  <1>4. CASE Close(s)
    <2>1. /\ generator[s] = "send" /\ UNCHANGED <<holders, pending, got>>
          /\ phase' = [phase EXCEPT ![s] = phase'[s]]
          /\ generator' = [generator EXCEPT ![s] = generator'[s]]
          /\ \/ /\ phase[s] = "byName" /\ phase'[s] = "forSuites"
                /\ generator'[s] = "lock"
             \/ phase'[s] = "closed" /\ generator'[s] = "none"
      BY <1>0, <1>4 DEF Close
    <2>2. phase[s] \in Phases
      BY <1>0, <2>1
    <2>3. \A p : HoldsOne(s, p)' = HoldsOne(s, p)
      BY <2>1 DEF HoldsOne
    <2> DEFINE h == HoldsOne(s, "byName") + HoldsOne(s, "forSuites")
    <2>4. h \in Nat /\ h' = h
      BY <1>1, <2>3
    <2> HIDE DEF h
    <2>5. \/ TurnsLeft(s) = 4 + h /\ TurnsLeft(s)' \in {3 + h, 0 + h}
          \/ TurnsLeft(s) = 1 + h /\ TurnsLeft(s)' = 0 + h
      BY <2>1, <2>2, <2>3 DEF TurnsLeft, Phases, h
    <2>6. \A t \in Streams : t # s => StreamAt(t)' = StreamAt(t)
      BY <1>0, <2>1 DEF StreamAt
    <2> QED
      BY <2>4, <2>5, <2>6 DEF Proceeds
  <1>5. ASSUME NEW p \in Phases, GeneratorRUnlock(s, p)
        PROVE  /\ Proceeds(s)
               /\ \A t \in Streams : t # s => StreamAt(t)' = StreamAt(t)
    <2>1. /\ <<s, p>> \in holders /\ holders' = holders \ {<<s, p>>}
          /\ UNCHANGED <<phase, generator, pending, got>>
      BY <1>5 DEF GeneratorRUnlock
    <2>2. /\ HoldsOne(s, p) = 1 /\ HoldsOne(s, p)' = 0
          /\ \A q \in Phases : q # p => HoldsOne(s, q)' = HoldsOne(s, q)
      BY <2>1 DEF HoldsOne
    <2>3. HoldsOne(s, "byName")' + HoldsOne(s, "forSuites")'
            = (HoldsOne(s, "byName") + HoldsOne(s, "forSuites")) - 1
      BY <1>1, <2>2 DEF Phases
    <2>4. PICK k \in {0, 1, 3, 4, 6} :
            /\ TurnsLeft(s) = k + (HoldsOne(s, "byName") + HoldsOne(s, "forSuites"))
            /\ TurnsLeft(s)' = k + (HoldsOne(s, "byName")' + HoldsOne(s, "forSuites")')
      BY <2>1 DEF TurnsLeft
    <2>5. \A t \in Streams : t # s => StreamAt(t)' = StreamAt(t)
      BY <2>1 DEF StreamAt
    <2> QED
      BY <1>1, <2>3, <2>4, <2>5 DEF Proceeds
  <1> QED
    BY <1>2, <1>3, <1>4, <1>5 DEF StreamStep

\* A stream only goes forward, through its locks, unlocks and closings and, between
\* them, through the items that the lock showed it; neither a reload nor another
\* stream moves it, however many items a reload adds to what it will be sent later.
THEOREM StreamsGoForward ==
  Spec => /\ [](\A s \in Streams : TurnsLeft(s) \in Nat /\ Len(pending[s]) \in Nat)
          /\ [][\A s \in Streams : Proceeds(s) \/ StreamAt(s)' = StreamAt(s)]_vars
  <1>1. ASSUME SInv, NEW s \in Streams
        PROVE  TurnsLeft(s) \in Nat /\ Len(pending[s]) \in Nat
    <2>1. pending[s] \in Seq(Sendable)
      BY <1>1 DEF SInv, Typed
    <2>2. Len(pending[s]) \in Nat
      BY <2>1, LenProperties
    <2> QED
      BY <2>2 DEF TurnsLeft, HoldsOne
  <1>2. SInv => \A s \in Streams : TurnsLeft(s) \in Nat /\ Len(pending[s]) \in Nat
    BY <1>1
  <1>3. ASSUME UNCHANGED streams, NEW s \in Streams PROVE StreamAt(s)' = StreamAt(s)
    BY <1>3 DEF streams, StreamAt
  <1>4. EditFile \/ ReloadLock \/ ReloadParse \/ ReloadFails \/ Finished => UNCHANGED streams
    BY DEF EditFile, ReloadLock, ReloadParse, ReloadFails, Finished, vars, streams
  <1>5. SInv /\ Turns /\ [Next]_vars
          => [\A s \in Streams : Proceeds(s) \/ StreamAt(s)' = StreamAt(s)]_vars
    BY <1>3, <1>4, StepProceeds DEF Next
  <1> QED
    BY <1>2, <1>5, SInvHolds, TurnsHold, PTL DEF Spec

=============================================================================
