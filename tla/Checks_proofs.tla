---------------------------- MODULE Checks_proofs ----------------------------
(***************************************************************************)
(* Theorems about Checks, for any set of checks and any configurations of  *)
(* them: groups of any length, any range of versions, any answers.         *)
(***************************************************************************)
EXTENDS Checks, TLAPS, FiniteSetTheorems, SequenceTheorems

-----------------------------------------------------------------------------
(* What a check is made of.                                                *)

StageNames ==
    {"binary named", "binary exists", "defined on this platform", "file made",
     "body written", "file renamed", "compiled", "built", "exited 0",
     "flags found", "output specified", "output as expected", "limit known",
     "limit high enough", "version valid", "minimum valid", "module imported",
     "its version valid"}

\* A list of stages that is not empty.
IsList(s) == s \in Seq(StageNames) /\ Len(s) > 0

LEMMA ShortLists ==
    ASSUME NEW x \in StageNames, NEW y \in StageNames, NEW z \in StageNames
    PROVE  IsList(<<x>>) /\ IsList(<<x, y>>) /\ IsList(<<x, y, z>>)
<1> HIDE DEF StageNames
<1> QED
  BY DEF IsList

LEMMA Concatenations ==
    ASSUME NEW s, IsList(s), NEW t \in Seq(StageNames)
    PROVE  IsList(s \o t)
<1>1. s \in Seq(StageNames) /\ Len(s) \in Nat /\ Len(s) > 0 /\ Len(t) \in Nat
  BY DEF IsList
<1>2. s \o t \in Seq(StageNames) /\ Len(s \o t) = Len(s) + Len(t)
  BY <1>1, ConcatProperties
<1> QED
  BY <1>1, <1>2 DEF IsList

LEMMA CompilerStages ==
    ASSUME NEW k \in Compilers
    PROVE  /\ CompilerValid(k) \in StageNames
           /\ IsList(Compile(k)) /\ IsList(CompileAndRun(k))
<1>1. CompilerValid(k) \in StageNames
  BY DEF Compilers, CompilerValid, StageNames
<1>2. IsList(writeTestBody)
  BY ShortLists DEF writeTestBody, StageNames
<1>3. /\ IsList(<<"compiled">>) /\ IsList(<<"built">>)
      /\ IsList(<<"exited 0">>)
  BY ShortLists DEF StageNames
<1>4. IsList(Interpret)
  BY <1>2, <1>3, Concatenations DEF IsList, Interpret
<1>5. IsList(Compile(k))
  <2>1. CASE k = "gcc"
    BY <2>1, <1>2, <1>3, Concatenations DEF IsList, Compile
  <2>2. CASE k # "gcc"
    BY <2>2, <1>2, <1>3, Concatenations DEF IsList, Compile
  <2> QED
    BY <2>1, <2>2
<1>6. IsList(CompileAndRun(k))
  <2>1. CASE k = "gcc"
    BY <2>1, <1>3, <1>5, Concatenations DEF IsList, CompileAndRun
  <2>2. CASE k # "gcc"
    BY <2>2, <1>4 DEF CompileAndRun
  <2> QED
    BY <2>1, <2>2
<1> QED
  BY <1>1, <1>5, <1>6

\* Every check that runs stages has one to run.
LEMMA StagesAreLists == \A s \in Stages : IsList(s)
<1>1. ASSUME NEW k \in Compilers, NEW flags \in BOOLEAN, NEW run \in BOOLEAN
      PROVE  IsList(CompileStages(k, flags, run))
  <2> DEFINE a == <<CompilerValid(k)>>
             b == IF flags THEN <<"flags found">> ELSE <<>>
             d == IF run THEN CompileAndRun(k) ELSE Compile(k)
  <2>1. IsList(a)
    BY CompilerStages, ShortLists
  <2>2. b \in Seq(StageNames)
    <3>1. IsList(<<"flags found">>)
      BY ShortLists DEF StageNames
    <3> QED
      BY <3>1, EmptySeq DEF IsList
  <2>3. d \in Seq(StageNames)
    BY CompilerStages DEF IsList
  <2> HIDE DEF a, b, d
  <2>4. IsList((a \o b) \o d)
    BY <2>1, <2>2, <2>3, Concatenations
  <2> QED
    BY <2>4 DEF CompileStages, a, b, d
<1>2. ASSUME NEW k \in Compilers
      PROVE  IsList(ProgramStages(k))
  <2> DEFINE a == <<CompilerValid(k), "output specified">>
             b == CompileAndRun(k)
             d == <<"output as expected">>
  <2>1. "output specified" \in StageNames /\ "output as expected" \in StageNames
    BY DEF StageNames
  <2>2. IsList(a) /\ IsList(d)
    BY <2>1, CompilerStages, ShortLists
  <2>3. b \in Seq(StageNames) /\ d \in Seq(StageNames)
    BY <2>2, CompilerStages DEF IsList
  <2> HIDE DEF a, b, d
  <2>4. IsList((a \o b) \o d)
    BY <2>2, <2>3, Concatenations
  <2> QED
    BY <2>4 DEF ProgramStages, a, b, d
<1>3. IsList(ReturnStages)
  <2>1. "script" \in Compilers
    BY DEF Compilers
  <2>2. IsList(<<CompilerValid("script")>>)
    BY <2>1, CompilerStages, ShortLists
  <2> QED
    BY <2>1, <2>2, CompilerStages, Concatenations DEF ReturnStages, IsList
<1>4. IsList(LimitStages) /\ IsList(undefinedLimitCheck)
  BY ShortLists DEF LimitStages, undefinedLimitCheck, StageNames
<1>5. ASSUME NEW hasMin \in BOOLEAN
      PROVE  IsList(PythonStages(hasMin))
  <2> DEFINE a == <<"version valid">>
             b == IF hasMin THEN <<"minimum valid">> ELSE <<>>
             d == <<"module imported", "its version valid">>
  <2>1. /\ "version valid" \in StageNames /\ "minimum valid" \in StageNames
        /\ "module imported" \in StageNames /\ "its version valid" \in StageNames
    BY DEF StageNames
  <2>2. IsList(a) /\ IsList(<<"minimum valid">>) /\ IsList(d)
    BY <2>1, ShortLists
  <2>3. b \in Seq(StageNames) /\ d \in Seq(StageNames)
    BY <2>2, EmptySeq DEF IsList
  <2> HIDE DEF a, b, d
  <2>4. IsList((a \o b) \o d)
    BY <2>2, <2>3, Concatenations
  <2> QED
    BY <2>4 DEF PythonStages, a, b, d
<1> QED
  BY <1>1, <1>2, <1>3, <1>4, <1>5 DEF Stages, Python

-----------------------------------------------------------------------------
(* A check that has all of its answers decides what its type promises.     *)

\* What the assumption says of the configuration of one check.
LEMMA Configured ==
    ASSUME config \in [Checks -> Configs], NEW c \in Checks
    PROVE  /\ Family(c) \in Single \cup Group \cup {"container", "stages"}
           /\ Flags(c) \in SUBSET Requirements /\ Should(c) \in BOOLEAN
           /\ Len(Members(c)) \in Nat
           /\ DOMAIN Members(c) = 1..Len(Members(c))
           /\ Members(c) = <<>> <=> Len(Members(c)) = 0
           /\ Family(c) \in Single => Len(Members(c)) = 1
           /\ Family(c) = "stages" => Len(Members(c)) > 0
           /\ Demand(c) # NoRange =>
                Demand(c) \in VersionRange /\ Family(c) = "stages"
           /\ \A i \in 1..Len(Members(c)) :
                Members(c)[i] = Null => Family(c) = "shellGroup"
<1> DEFINE k == config[c]
<1>1. k \in Configs /\ k \in Config
  BY ChecksAssumption DEF ChecksAssumption
<1>2. /\ k.family \in Single \cup Group \cup {"container", "stages"}
      /\ k.flags \in SUBSET Requirements /\ k.should \in BOOLEAN
      /\ k.members \in Seq(Things \cup {Null}) \cup Stages
      /\ k.range \in VersionRange \cup {NoRange}
  BY <1>1 DEF Config
<1>3. /\ k.family \in Single => Len(k.members) = 1
      /\ k.family = "stages" <=> k.members \in Stages
      /\ k.range = NoRange <=> k.members \notin Python
      /\ (\E i \in DOMAIN k.members : k.members[i] = Null)
           => k.family = "shellGroup"
  BY <1>1, ChecksAssumption DEF ChecksAssumption
<1>4. Python \subseteq Stages
  BY DEF Stages
<1>5. /\ Len(k.members) \in Nat
      /\ DOMAIN k.members = 1..Len(k.members)
      /\ k.members = <<>> <=> Len(k.members) = 0
  <2>1. PICK S : k.members \in Seq(S)
    BY <1>2, StagesAreLists DEF IsList
  <2> HIDE DEF k
  <2> QED
    BY <2>1, LenProperties, EmptySeq
<1>6. k.family = "stages" => Len(k.members) > 0
  BY <1>3, StagesAreLists DEF IsList
<1> QED
  BY <1>2, <1>3, <1>4, <1>5, <1>6 DEF Family, Flags, Members, Should, Demand

\* The answers are a sequence over the members probed so far.
Seen(c) == seen[c] \in Seq(BOOLEAN)

LEMMA SeenTypes ==
    ASSUME NEW c, Seen(c)
    PROVE  /\ Len(seen[c]) \in Nat
           /\ DOMAIN seen[c] = 1..Len(seen[c])
           /\ \A i \in 1..Len(seen[c]) : seen[c][i] \in BOOLEAN
BY LenProperties, ElementOfSeq DEF Seen

LEMMA Counting ==
    ASSUME NEW c, Seen(c)
    PROVE  /\ IsFiniteSet(Holding(c))
           /\ Count(c, TRUE) = Cardinality(Holding(c))
           /\ Count(c, FALSE) = 0 <=> Holding(c) = DOMAIN seen[c]
<1> DEFINE Failing == {i \in DOMAIN seen[c] : seen[c][i] = FALSE}
<1>1. IsFiniteSet(DOMAIN seen[c])
  BY SeenTypes, FS_Interval
<1>2. IsFiniteSet(Holding(c)) /\ IsFiniteSet(Failing)
  BY <1>1, FS_Subset DEF Holding
<1>3. Holding(c) = {i \in DOMAIN seen[c] : seen[c][i] = TRUE}
  BY SeenTypes DEF Holding
<1>4. Failing = {} <=> Holding(c) = DOMAIN seen[c]
  BY SeenTypes DEF Holding
<1>5. Count(c, TRUE) = Cardinality(Holding(c))
  BY <1>3 DEF Count
<1>6. Count(c, FALSE) = 0 <=> Failing = {}
  BY <1>2, FS_EmptySet DEF Count
<1> QED
  BY <1>2, <1>4, <1>5, <1>6

\* One requirement is set when the set of them has one element.
LEMMA OneRequirement ==
    ASSUME NEW flags \in SUBSET Requirements
    PROVE  Cardinality(flags) = 1 <=> \E r \in Requirements : flags = {r}
<1>1. IsFiniteSet(Requirements)
  <2>1. IsFiniteSet({"all"})
    BY FS_Singleton
  <2>2. IsFiniteSet({"all"} \cup {"any"})
    BY <2>1, FS_AddElement
  <2>3. IsFiniteSet(({"all"} \cup {"any"}) \cup {"one"})
    BY <2>2, FS_AddElement
  <2>4. IsFiniteSet((({"all"} \cup {"any"}) \cup {"one"}) \cup {"none"})
    BY <2>3, FS_AddElement
  <2>5. Requirements = (({"all"} \cup {"any"}) \cup {"one"}) \cup {"none"}
    BY DEF Requirements
  <2> QED
    BY <2>4, <2>5
<1>2. IsFiniteSet(flags)
  BY <1>1, FS_Subset
<1> QED
  BY <1>2, FS_Singleton

LEMMA GroupDecides ==
    ASSUME config \in [Checks -> Configs], NEW c \in Checks, Seen(c),
           Len(seen[c]) = Len(Members(c)),
           Cardinality(Flags(c)) = 1, Members(c) # <<>>
    PROVE  GetResults(Flags(c), Count(c, TRUE), Count(c, FALSE)) <=> GroupMet(c)
<1>1. PICK r \in Requirements : Flags(c) = {r}
  BY Configured, OneRequirement
<1>2. DOMAIN seen[c] = DOMAIN Members(c)
  BY Configured, SeenTypes
<1>3. Count(c, TRUE) # 0 <=> Holding(c) # {}
  BY Counting, FS_EmptySet
<1>4. Count(c, TRUE) = 1 <=> \E i \in Holding(c) : Holding(c) = {i}
  BY Counting, FS_Singleton
<1>5. Count(c, FALSE) = 0 <=> AllHold(c)
  BY <1>2, Counting DEF AllHold
<1>6. CASE r = "all"
  BY <1>1, <1>5, <1>6 DEF GetResults, GroupMet
<1>7. CASE r = "any"
  BY <1>1, <1>3, <1>7 DEF GetResults, GroupMet
<1>8. CASE r = "one"
  BY <1>1, <1>4, <1>8 DEF GetResults, GroupMet
<1>9. CASE r = "none"
  BY <1>1, <1>3, <1>9 DEF GetResults, GroupMet
<1> QED
  BY <1>6, <1>7, <1>8, <1>9 DEF Requirements

LEMMA RangeDecides ==
    ASSUME NEW r \in VersionRange
    PROVE  VersionPasses(r) <=> RangeMet(r)
<1>1. /\ Versions \subseteq Nat /\ NoVersion \notin Versions
      /\ r.installed \in Versions /\ r.version \in Versions
      /\ r.min \in Versions \cup {NoVersion}
      /\ r.rel \in Relationships \cup {"", "invalid"}
      /\ r.minRel \in Relationships \cup {"", "invalid"}
  BY ChecksAssumption DEF VersionRange, ChecksAssumption
<1>2. ASSUME NEW rel \in Relationships \cup {"", "invalid"}, rel # "",
             NEW v \in Versions, NEW w \in Versions
      PROVE  compareVersions(rel, w, v) <=> w \in Described(rel, v)
  <2>1. v \in Nat /\ w \in Nat
    BY <1>1
  <2>2. CASE rel = "gte"
    BY <2>1, <2>2 DEF compareVersions, Described
  <2>3. CASE rel = "lte"
    BY <2>1, <2>3 DEF compareVersions, Described
  <2>4. CASE rel = "lt"
    BY <2>1, <2>4 DEF compareVersions, Described
  <2>5. CASE rel = "gt"
    BY <2>1, <2>5 DEF compareVersions, Described
  <2>6. CASE rel = "eq"
    BY <2>1, <2>6 DEF compareVersions, Described
  <2>7. CASE rel = "invalid"
    BY <2>1, <2>7 DEF compareVersions, Described
  <2> QED
    BY <1>2, <2>2, <2>3, <2>4, <2>5, <2>6, <2>7 DEF Relationships
<1>3. compareVersions(Relationship(r), r.installed, r.version) <=>
        /\ r.rel # "" => r.installed \in Described(r.rel, r.version)
        /\ r.rel = "" /\ r.min = NoVersion => r.installed >= r.version
        /\ r.rel = "" /\ r.min # NoVersion => r.installed <= r.version
  <2>1. CASE r.rel # ""
    BY <1>1, <1>2, <2>1 DEF Relationship
  <2>2. CASE r.rel = ""
    BY <2>2 DEF Relationship, compareVersions
  <2> QED
    BY <2>1, <2>2
<1>4. ASSUME r.min # NoVersion
      PROVE  compareVersions(MinRelationship(r), r.installed, r.min) <=>
               r.installed \in
                 Described(IF r.minRel = "" THEN "gte" ELSE r.minRel, r.min)
  <2>1. "gte" \in Relationships
    BY DEF Relationships
  <2> QED
    BY <1>1, <1>2, <1>4, <2>1 DEF MinRelationship
<1> QED
  BY <1>3, <1>4 DEF VersionPasses, RangeMet

-----------------------------------------------------------------------------
(* The inductive invariant.                                                *)

\* Functions of the checks, as wide as the steps keep them without looking at
\* where a check is.
Shape ==
    /\ config \in [Checks -> Configs]
    /\ pc \in [Checks -> {"ready", "running", "panicked", "done"}]
    /\ at \in [Checks -> Nat]
    /\ seen \in [Checks -> Seq(BOOLEAN)]
    /\ flagged \in [Checks -> BOOLEAN]
    /\ passed \in [Checks -> BOOLEAN]
    /\ errors \in [Checks -> Nat]
    /\ completed \subseteq Checks

\* A check that has not ended has an answer to all it probed and no verdict.
\* Only the probes of hosts add errors on the way, one for a host that fails, and
\* only they and the stages need every answer to be good.
RunningOK(c) ==
    /\ c \notin completed /\ ~passed[c]
    /\ at[c] \in 1..(Len(Members(c)) + 1) /\ Len(seen[c]) = at[c] - 1
    /\ ~Validate(c) => at[c] = 1
    /\ errors[c] < at[c] /\ (flagged[c] <=> errors[c] # 0)
    /\ Family(c) # "container" => errors[c] = 0
    /\ Family(c) \in {"container", "stages"} =>
         (flagged[c] <=> Holding(c) # DOMAIN seen[c])

PanickedOK(c) ==
    /\ c \in completed /\ ~passed[c] /\ errors[c] = 0 /\ ~Met(c)
    /\ at[c] \in 1..(Len(Members(c)) + 1) /\ Len(seen[c]) < at[c]

DoneOK(c) ==
    /\ c \in completed
    /\ passed[c] <=> Met(c)
    /\ passed[c] <=> errors[c] = 0
    /\ at[c] \in 1..(Len(Members(c)) + 1) /\ Len(seen[c]) < at[c]
    /\ errors[c] <= Len(Members(c)) + 1

StateOK(c) ==
    /\ pc[c] \in {"ready", "running"} => RunningOK(c)
    /\ pc[c] = "panicked" => PanickedOK(c)
    /\ pc[c] = "done" => DoneOK(c)

IInv == Shape /\ \A c \in Checks : StateOK(c)

\* A step that leaves the configurations and a check's answers alone leaves
\* what they satisfy alone.
LEMMA MetFrame ==
    ASSUME NEW c, config' = config, seen'[c] = seen[c]
    PROVE  Met(c)' <=> Met(c)
<1>1. /\ Family(c)' = Family(c) /\ Flags(c)' = Flags(c)
      /\ Members(c)' = Members(c) /\ Should(c)' = Should(c)
      /\ Demand(c)' = Demand(c)
  BY DEF Family, Flags, Members, Should, Demand
<1>2. Holding(c)' = Holding(c)
  BY DEF Holding
<1>3. AllHold(c)' <=> AllHold(c)
  BY <1>1, <1>2 DEF AllHold
<1>4. GroupMet(c)' <=> GroupMet(c)
  BY <1>1, <1>2, <1>3 DEF GroupMet
<1> QED
  BY <1>1, <1>3, <1>4 DEF Met

\* No step makes a rejected configuration valid.
LEMMA SameValidity ==
    ASSUME NEW c, config' = config
    PROVE  Validate(c)' <=> Validate(c)
BY DEF Validate, Family, Named, Flags, Members

\* A step that touches nothing of a check leaves it as it should be.
LEMMA OtherCheck ==
    ASSUME NEW c \in Checks, StateOK(c), config' = config, pc'[c] = pc[c],
           at'[c] = at[c], seen'[c] = seen[c], flagged'[c] = flagged[c],
           passed'[c] = passed[c], errors'[c] = errors[c],
           c \in completed' <=> c \in completed
    PROVE  StateOK(c)'
<1>1. Members(c)' = Members(c) /\ Family(c)' = Family(c)
  BY DEF Members, Family
<1>2. Holding(c)' = Holding(c)
  BY DEF Holding
<1>3. Met(c)' <=> Met(c)
  BY MetFrame
<1>4. RunningOK(c)' <=> RunningOK(c)
  BY <1>1, <1>2, SameValidity DEF RunningOK
<1>5. PanickedOK(c)' <=> PanickedOK(c)
  BY <1>1, <1>3 DEF PanickedOK
<1>6. DoneOK(c)' <=> DoneOK(c)
  BY <1>1, <1>3 DEF DoneOK
<1> QED
  BY <1>4, <1>5, <1>6 DEF StateOK

\* What does not meet the promise: a configuration that is rejected, and so asked
\* nothing, a group with a member that was not asked, a stage that failed.
LEMMA NotMet ==
    ASSUME config \in [Checks -> Configs], NEW c \in Checks, Seen(c),
           \/ ~Validate(c) /\ Len(seen[c]) = 0
           \/ Family(c) \in Group /\ Len(seen[c]) # Len(Members(c))
           \/ Family(c) = "stages" /\ Holding(c) # DOMAIN seen[c]
    PROVE  ~Met(c)
<1>1. CASE Family(c) \in Group /\ Len(seen[c]) # Len(Members(c))
  BY <1>1 DEF Met, GroupMet
<1>2. CASE Family(c) = "stages" /\ Holding(c) # DOMAIN seen[c]
  <2>1. ~AllHold(c)
    BY <1>2, SeenTypes, Configured DEF AllHold
  <2> QED
    BY <1>2, <2>1 DEF Met
<1>4. CASE Family(c) \in Group /\ Members(c) = <<>>
  BY <1>4 DEF Met, GroupMet
<1>6. CASE Family(c) \in Group /\ Members(c) # <<>> /\ Len(seen[c]) = 0
  <2>1. Len(Members(c)) # 0
    BY <1>6, Configured, EmptySeq
  <2> QED
    BY <1>1, <1>6, <2>1
<1>5. CASE Family(c) = "container" /\ Members(c) = <<>>
  <2>1. AllHold(c) => seen[c] = <<>>
    BY <1>5, Configured, EmptySeq DEF AllHold, Seen
  <2> QED
    BY <1>5, <2>1 DEF Met
<1> QED
  BY <1>1, <1>2, <1>4, <1>5, <1>6 DEF Validate

\* A single check has one answer.
LEMMA OneAnswer ==
    ASSUME NEW c, Seen(c), Len(seen[c]) = 1, NEW b \in BOOLEAN
    PROVE  seen[c][1] \in BOOLEAN /\ (seen[c] = <<b>> <=> seen[c][1] = b)
<1>1. seen[c][1] \in BOOLEAN
  BY SeenTypes
<1>2. <<b>> \in Seq(BOOLEAN) /\ Len(<<b>>) = 1 /\ <<b>>[1] = b
  OBVIOUS
<1>3. ASSUME seen[c][1] = b PROVE seen[c] = <<b>>
  BY <1>2, <1>3, SeqEqual DEF Seen
<1> QED
  BY <1>1, <1>2, <1>3

\* The decision of a check that probed everything is what its type promises.
LEMMA DecisionIffMet ==
    ASSUME config \in [Checks -> Configs], NEW c \in Checks, Seen(c),
           flagged[c] \in BOOLEAN, RunningOK(c), Validate(c),
           at[c] > Len(Members(c))
    PROVE  Decision(c) \in BOOLEAN /\ (Decision(c) <=> Met(c))
<1>1. /\ Len(seen[c]) = Len(Members(c)) /\ Len(Members(c)) \in Nat
      /\ DOMAIN seen[c] = DOMAIN Members(c)
  BY Configured, SeenTypes DEF RunningOK
<1>2. Demand(c) # NoRange => Family(c) = "stages" /\ Demand(c) \in VersionRange
  BY Configured
<1>3. CASE Family(c) \in Single
  <2>1. /\ Should(c) \in BOOLEAN /\ (~Should(c)) \in BOOLEAN
        /\ Len(seen[c]) = 1
    BY <1>1, <1>3, Configured
  <2>2. /\ seen[c][1] \in BOOLEAN
        /\ seen[c] = <<Should(c)>> <=> seen[c][1] = Should(c)
        /\ seen[c] = <<~Should(c)>> <=> seen[c][1] = ~Should(c)
    BY <2>1, OneAnswer
  <2>3. CASE Family(c) = "file"
    BY <1>2, <2>1, <2>2, <2>3 DEF Decision, FilePasses, Met, Group
  <2>4. CASE Family(c) = "package"
    BY <1>2, <2>1, <2>2, <2>4 DEF Decision, PackagePasses, Met, Group
  <2>5. CASE Family(c) = "shell"
    BY <1>2, <2>1, <2>2, <2>5 DEF Decision, ShellPasses, Met, Group
  <2> QED
    BY <1>3, <2>3, <2>4, <2>5 DEF Single
<1>4. CASE Family(c) \in Group
  <2>1. Cardinality(Flags(c)) = 1 /\ Members(c) # <<>>
    BY <1>4 DEF Validate
  <2>2. GetResults(Flags(c), Count(c, TRUE), Count(c, FALSE)) <=> GroupMet(c)
    BY <1>1, <2>1, GroupDecides
  <2>3. Decision(c) = GetResults(Flags(c), Count(c, TRUE), Count(c, FALSE))
    BY <1>4 DEF Decision, Group
  <2>4. Decision(c) \in BOOLEAN
    BY <2>3 DEF GetResults
  <2>5. Met(c) <=> GroupMet(c)
    BY <1>2, <1>4 DEF Met, Group
  <2> QED
    BY <2>2, <2>3, <2>4, <2>5
<1>5. ASSUME Family(c) \in {"container", "stages"}
      PROVE  AllHold(c) /\ seen[c] # <<>> <=> ~flagged[c]
  <2>1. Len(Members(c)) > 0
    BY <1>1, <1>5, Configured DEF Validate
  <2>2. seen[c] # <<>>
    BY <1>1, <2>1
  <2> QED
    BY <1>1, <1>5, <2>2 DEF RunningOK, AllHold
<1>6. CASE Family(c) = "container"
  <2>1. Met(c) <=> AllHold(c) /\ seen[c] # <<>>
    BY <1>2, <1>6 DEF Met, Group
  <2>2. Decision(c) = ~flagged[c]
    BY <1>6 DEF Decision, Group
  <2> QED
    BY <1>5, <1>6, <2>1, <2>2
<1>7. CASE Family(c) = "stages"
  <2>1. AllHold(c) /\ seen[c] # <<>>
    BY <1>5, <1>7 DEF RunningOK
  <2>2. Met(c) <=> (Demand(c) # NoRange => RangeMet(Demand(c)))
    BY <1>7, <2>1 DEF Met, Group
  <2>3. Decision(c) = (Demand(c) # NoRange => VersionPasses(Demand(c)))
    BY <1>7 DEF Decision, Group
  <2>4. Demand(c) # NoRange => (VersionPasses(Demand(c)) <=> RangeMet(Demand(c)))
    BY <1>2, RangeDecides
  <2> QED
    BY <2>2, <2>3, <2>4
<1> QED
  BY <1>3, <1>4, <1>6, <1>7, Configured

-----------------------------------------------------------------------------
(* Every step keeps it.                                                    *)

LEMMA InitIInv == Init => IInv
<1> SUFFICES ASSUME Init PROVE IInv
  OBVIOUS
<1>1. Shape
  <2>1. <<>> \in Seq(BOOLEAN)
    BY EmptySeq
  <2> QED
    BY <2>1 DEF Init, Shape
<1>2. ASSUME NEW c \in Checks PROVE StateOK(c)
  <2>1. /\ pc[c] = "ready" /\ at[c] = 1 /\ seen[c] = <<>> /\ ~flagged[c]
        /\ ~passed[c] /\ errors[c] = 0 /\ c \notin completed
    BY DEF Init
  <2>2. Len(Members(c)) \in Nat
    BY <1>1, Configured DEF Shape
  <2>3. Holding(c) = DOMAIN seen[c] /\ Len(seen[c]) = 0
    BY <2>1 DEF Holding
  <2> QED
    BY <2>1, <2>2, <2>3 DEF StateOK, RunningOK
<1> QED
  BY <1>1, <1>2 DEF IInv

\* One more answer: it is good or it is one that does not hold.
LEMMA Answered ==
    ASSUME NEW c, Seen(c), NEW good \in BOOLEAN,
           seen'[c] = Append(seen[c], good)
    PROVE  /\ Seen(c)' /\ Len(seen'[c]) = Len(seen[c]) + 1
           /\ Holding(c)' # DOMAIN seen'[c] <=>
                (Holding(c) # DOMAIN seen[c] \/ ~good)
<1> DEFINE n == Len(seen[c])
<1>1. /\ seen'[c] \in Seq(BOOLEAN) /\ Len(seen'[c]) = n + 1 /\ n \in Nat
      /\ \A i \in 1..n : seen'[c][i] = seen[c][i]
      /\ seen'[c][n + 1] = good
  BY SeenTypes, AppendProperties DEF Seen
<1>2. DOMAIN seen[c] = 1..n /\ DOMAIN seen'[c] = 1..(n + 1)
  BY <1>1, SeenTypes, LenProperties
<1>3. Holding(c) # DOMAIN seen[c] <=> \E i \in 1..n : ~seen[c][i]
  BY <1>2 DEF Holding
<1>4. Holding(c)' # DOMAIN seen'[c] <=> \E i \in 1..(n + 1) : ~seen'[c][i]
  BY <1>2 DEF Holding
<1>5. (\E i \in 1..(n + 1) : ~seen'[c][i])
        <=> (\E i \in 1..n : ~seen[c][i]) \/ ~good
  <2> HIDE DEF n
  <2>1. 1..(n + 1) = 1..n \cup {n + 1}
    BY <1>1
  <2> QED
    BY <1>1, <2>1
<1> QED
  BY <1>1, <1>3, <1>4, <1>5 DEF Seen

\* What a step of one check may do to the others.
OnlyOf(c) ==
    /\ config' = config
    /\ pc' = [pc EXCEPT ![c] = pc'[c]]
    /\ at' = [at EXCEPT ![c] = at'[c]]
    /\ seen' = [seen EXCEPT ![c] = seen'[c]]
    /\ flagged' = [flagged EXCEPT ![c] = flagged'[c]]
    /\ passed' = [passed EXCEPT ![c] = passed'[c]]
    /\ errors' = [errors EXCEPT ![c] = errors'[c]]
    /\ completed' \in {completed, completed \cup {c}}

\* It is enough to look at the check that steps.
LEMMA Locally ==
    ASSUME IInv, NEW c \in Checks, OnlyOf(c),
           pc'[c] \in {"ready", "running", "panicked", "done"},
           at'[c] \in Nat, Seen(c)', flagged'[c] \in BOOLEAN,
           passed'[c] \in BOOLEAN, errors'[c] \in Nat, StateOK(c)'
    PROVE  IInv'
<1>1. Shape'
  BY DEF IInv, Shape, OnlyOf, Seen
<1>2. ASSUME NEW d \in Checks, d # c PROVE StateOK(d)'
  <2>1. /\ config' = config /\ pc'[d] = pc[d] /\ at'[d] = at[d]
        /\ seen'[d] = seen[d] /\ flagged'[d] = flagged[d]
        /\ passed'[d] = passed[d] /\ errors'[d] = errors[d]
        /\ d \in completed' <=> d \in completed
    BY <1>2 DEF OnlyOf, IInv, Shape
  <2>2. StateOK(d)
    BY DEF IInv
  <2> QED
    BY <2>1, <2>2, OtherCheck
<1> QED
  BY <1>1, <1>2 DEF IInv

\* What holds of the check that steps.
LEMMA Here ==
    ASSUME IInv, NEW c \in Checks
    PROVE  /\ config \in [Checks -> Configs] /\ Seen(c)
           /\ at[c] \in Nat /\ errors[c] \in Nat
           /\ flagged[c] \in BOOLEAN /\ passed[c] \in BOOLEAN
           /\ Len(Members(c)) \in Nat /\ Len(seen[c]) \in Nat
           /\ StateOK(c)
<1>1. config \in [Checks -> Configs] /\ Seen(c)
  BY DEF IInv, Shape, Seen
<1> QED
  BY <1>1, Configured, SeenTypes DEF IInv, Shape

LEMMA startTaskIInv ==
    ASSUME IInv, NEW c \in Checks, startTask(c)
    PROVE  IInv' /\ OnlyOf(c)
<1>1. /\ OnlyOf(c) /\ pc'[c] = "running" /\ at'[c] = at[c]
      /\ seen'[c] = seen[c] /\ flagged'[c] = flagged[c]
      /\ passed'[c] = passed[c] /\ errors'[c] = errors[c]
      /\ completed' = completed
  BY DEF startTask, OnlyOf, IInv, Shape
<1>2. RunningOK(c)
  BY Here DEF startTask, StateOK
<1>3. Members(c)' = Members(c) /\ Family(c)' = Family(c)
  BY <1>1 DEF Members, Family, OnlyOf
<1>4. Holding(c)' = Holding(c) /\ (Validate(c)' <=> Validate(c))
  BY <1>1, SameValidity DEF Holding, OnlyOf
<1>5. RunningOK(c)'
  BY <1>1, <1>2, <1>3, <1>4 DEF RunningOK
<1>6. StateOK(c)'
  BY <1>1, <1>5 DEF StateOK
<1>7. Seen(c)'
  BY <1>1, Here DEF Seen
<1> QED
  BY <1>1, <1>6, <1>7, Here, Locally

\* The end of a Run: the verdict is what the answers satisfy, and an error goes
\* with the verdict that is none.
LEMMA EndsIInv ==
    ASSUME IInv, NEW c \in Checks, pc[c] = "running",
           NEW verdict \in BOOLEAN, NEW new \in {0, 1}, Ends(c, verdict, new),
           config' = config, flagged' = flagged,
           at' = [at EXCEPT ![c] = at'[c]],
           seen' = [seen EXCEPT ![c] = seen'[c]], Seen(c)',
           at'[c] \in 1..(Len(Members(c)) + 1), Len(seen'[c]) < at'[c],
           verdict <=> Met(c)',
           verdict <=> errors[c] + new = 0
    PROVE  IInv' /\ OnlyOf(c)
<1>1. /\ OnlyOf(c) /\ pc'[c] = "done" /\ passed'[c] = verdict
      /\ errors'[c] = errors[c] + new /\ c \in completed'
      /\ flagged'[c] = flagged[c]
  BY DEF Ends, OnlyOf, IInv, Shape
<1>2. RunningOK(c)
  BY Here DEF StateOK
<1>3. Members(c)' = Members(c)
  BY DEF Members
<1>4. errors[c] + new \in Nat /\ errors[c] + new <= Len(Members(c)) + 1
  BY <1>2, Here DEF RunningOK
<1>5. DoneOK(c)'
  BY <1>1, <1>3, <1>4 DEF DoneOK
<1>6. StateOK(c)'
  BY <1>1, <1>5 DEF StateOK
<1>7. at'[c] \in Nat
  BY Here
<1> QED
  BY <1>1, <1>4, <1>6, <1>7, Here, Locally

LEMMA RejectedIInv ==
    ASSUME IInv, NEW c \in Checks, Rejected(c)
    PROVE  IInv' /\ OnlyOf(c)
<1>1. /\ pc[c] = "running" /\ ~Validate(c) /\ Ends(c, FALSE, 1)
      /\ config' = config /\ at' = at /\ seen' = seen /\ flagged' = flagged
  BY DEF Rejected
<1>2. RunningOK(c)
  BY <1>1, Here DEF StateOK
<1>3. ~Met(c)'
  <2>1. Len(seen[c]) = 0
    BY <1>1, <1>2, Here DEF RunningOK
  <2> QED
    BY <1>1, <2>1, Here, NotMet, MetFrame
<1>4. /\ at' = [at EXCEPT ![c] = at'[c]] /\ seen' = [seen EXCEPT ![c] = seen'[c]]
      /\ Seen(c)'
  BY <1>1, Here DEF IInv, Shape, Seen
<1>5. at'[c] \in 1..(Len(Members(c)) + 1) /\ Len(seen'[c]) < at'[c]
  BY <1>1, <1>2, Here DEF RunningOK
<1>6. errors[c] + 1 # 0
  BY Here
<1> QED
  BY <1>1, <1>3, <1>4, <1>5, <1>6, EndsIInv

\* A check that probes stands at one of its members.
LEMMA Probes ==
    ASSUME IInv, NEW c \in Checks, Probing(c)
    PROVE  /\ pc[c] = "running" /\ RunningOK(c) /\ Validate(c)
           /\ at[c] \in 1..Len(Members(c)) /\ Len(seen[c]) = at[c] - 1
BY Here DEF Probing, StateOK, RunningOK

LEMMA ObserveIInv ==
    ASSUME IInv, NEW c \in Checks, Observe(c)
    PROVE  IInv' /\ OnlyOf(c)
<1>1. PICK good \in BOOLEAN : seen' = [seen EXCEPT ![c] = Append(@, good)]
  BY DEF Observe
<1>2. /\ OnlyOf(c) /\ pc'[c] = pc[c] /\ at'[c] = at[c] + 1
      /\ seen'[c] = Append(seen[c], good) /\ flagged'[c] = flagged[c]
      /\ passed'[c] = passed[c] /\ errors'[c] = errors[c]
      /\ completed' = completed
  BY <1>1 DEF Observe, OnlyOf, IInv, Shape
<1>3. /\ pc[c] = "running" /\ RunningOK(c) /\ at[c] \in 1..Len(Members(c))
      /\ Family(c) \notin {"container", "stages"} /\ Validate(c)
  BY Probes DEF Observe, Single, Group
<1>4. Members(c)' = Members(c) /\ Family(c)' = Family(c) /\ Validate(c)'
  BY <1>2, <1>3, SameValidity DEF Members, Family, OnlyOf
<1>5. Seen(c)' /\ Len(seen'[c]) = Len(seen[c]) + 1
  BY <1>2, Here, Answered
<1>6. RunningOK(c)'
  BY <1>2, <1>3, <1>4, <1>5, Here DEF RunningOK
<1>7. StateOK(c)'
  BY <1>2, <1>3, <1>6 DEF StateOK
<1>8. at'[c] \in Nat
  BY <1>2, Here
<1> QED
  BY <1>2, <1>3, <1>5, <1>7, <1>8, Here, Locally

LEMMA ProbeHostIInv ==
    ASSUME IInv, NEW c \in Checks, ProbeHost(c)
    PROVE  IInv' /\ OnlyOf(c)
<1>1. PICK good \in BOOLEAN :
        /\ seen' = [seen EXCEPT ![c] = Append(@, good)]
        /\ flagged' = [flagged EXCEPT ![c] = @ \/ ~good]
        /\ passed' = [passed EXCEPT ![c] = @ /\ good]
        /\ errors' = [errors EXCEPT ![c] = IF good THEN @ ELSE @ + 1]
  BY DEF ProbeHost, HostAnswers
<1>2. /\ OnlyOf(c) /\ pc'[c] = pc[c] /\ at'[c] = at[c] + 1
      /\ seen'[c] = Append(seen[c], good)
      /\ flagged'[c] = (flagged[c] \/ ~good)
      /\ passed'[c] = (passed[c] /\ good)
      /\ errors'[c] = (IF good THEN errors[c] ELSE errors[c] + 1)
      /\ completed' = completed
  BY <1>1 DEF ProbeHost, OnlyOf, IInv, Shape
<1>3. /\ pc[c] = "running" /\ RunningOK(c) /\ at[c] \in 1..Len(Members(c))
      /\ Family(c) = "container" /\ Len(seen[c]) = at[c] - 1 /\ Validate(c)
  BY Probes DEF ProbeHost
<1>4. Members(c)' = Members(c) /\ Family(c)' = Family(c) /\ Validate(c)'
  BY <1>2, <1>3, SameValidity DEF Members, Family, OnlyOf
<1>5. /\ Seen(c)' /\ Len(seen'[c]) = Len(seen[c]) + 1
      /\ Holding(c)' # DOMAIN seen'[c] <=>
           (Holding(c) # DOMAIN seen[c] \/ ~good)
  BY <1>2, Here, Answered
<1>6. /\ flagged'[c] \in BOOLEAN /\ passed'[c] \in BOOLEAN /\ ~passed'[c]
      /\ flagged'[c] <=> (flagged[c] \/ ~good)
  BY <1>2, <1>3 DEF RunningOK
<1>7. /\ errors'[c] \in Nat /\ errors'[c] < at'[c]
      /\ errors'[c] # 0 <=> (errors[c] # 0 \/ ~good)
  BY <1>2, <1>3, Here DEF RunningOK
<1>8. /\ at'[c] \in 1..(Len(Members(c)) + 1) /\ Len(seen'[c]) = at'[c] - 1
      /\ at'[c] \in Nat
  <2>1. Len(Members(c)) \in Nat /\ Len(seen[c]) \in Nat
    BY Here
  <2> QED
    BY <1>2, <1>3, <1>5, <2>1
<1>9. RunningOK(c)'
  BY <1>2, <1>3, <1>4, <1>5, <1>6, <1>7, <1>8 DEF RunningOK
<1>10. StateOK(c)'
  BY <1>2, <1>3, <1>9 DEF StateOK
<1> QED
  BY <1>2, <1>3, <1>5, <1>6, <1>7, <1>8, <1>10, Locally

LEMMA RunStageIInv ==
    ASSUME IInv, NEW c \in Checks, RunStage(c)
    PROVE  IInv' /\ OnlyOf(c)
<1>1. PICK good \in Answers(Members(c)[at[c]]) :
        /\ seen' = [seen EXCEPT ![c] = Append(@, good)]
        /\ IF good THEN UNCHANGED <<pc, passed, errors, completed>>
                   ELSE Ends(c, FALSE, 1)
  BY DEF RunStage
<1>2. good \in BOOLEAN
  BY DEF Answers
<1>3. /\ pc[c] = "running" /\ RunningOK(c) /\ at[c] \in 1..Len(Members(c))
      /\ Family(c) = "stages" /\ Len(seen[c]) = at[c] - 1 /\ Validate(c)
  BY Probes DEF RunStage
<1>4. /\ config' = config /\ flagged' = flagged /\ at'[c] = at[c] + 1
      /\ at' = [at EXCEPT ![c] = at'[c]]
      /\ seen'[c] = Append(seen[c], good)
      /\ seen' = [seen EXCEPT ![c] = seen'[c]]
  BY <1>1 DEF RunStage, IInv, Shape
<1>5. /\ Seen(c)' /\ Len(seen'[c]) = Len(seen[c]) + 1
      /\ Holding(c)' # DOMAIN seen'[c] <=>
           (Holding(c) # DOMAIN seen[c] \/ ~good)
  BY <1>2, <1>4, Here, Answered
<1>6. Members(c)' = Members(c) /\ Family(c)' = Family(c) /\ Validate(c)'
  BY <1>3, <1>4, SameValidity DEF Members, Family
<1>7. /\ at'[c] \in 1..(Len(Members(c)) + 1) /\ Len(seen'[c]) = at'[c] - 1
      /\ Len(seen'[c]) < at'[c] /\ at'[c] \in Nat /\ errors[c] < at'[c]
  BY <1>3, <1>4, <1>5, Here DEF RunningOK
<1>8. CASE good
  <2>1. /\ pc' = pc /\ passed' = passed /\ errors' = errors
        /\ completed' = completed
    BY <1>1, <1>8
  <2>2. OnlyOf(c)
    BY <1>4, <2>1 DEF OnlyOf, IInv, Shape
  <2>3. RunningOK(c)'
    BY <1>3, <1>4, <1>5, <1>6, <1>7, <1>8, <2>1 DEF RunningOK
  <2>4. StateOK(c)'
    BY <1>3, <2>1, <2>3 DEF StateOK
  <2> QED
    BY <1>3, <1>4, <1>5, <1>7, <2>1, <2>2, <2>4, Here, Locally
<1>9. CASE ~good
  <2>1. Ends(c, FALSE, 1)
    BY <1>1, <1>9
  <2>2. ~Met(c)'
    <3>1. Holding(c)' # DOMAIN seen'[c]
      BY <1>5, <1>9
    <3>2. ~AllHold(c)'
      <4>1. DOMAIN Members(c) = 1..Len(Members(c))
        BY Here, Configured
      <4>2. DOMAIN seen'[c] = 1..Len(seen'[c])
        BY <1>5, LenProperties DEF Seen
      <4> QED
        BY <1>6, <3>1, <4>1, <4>2 DEF AllHold
    <3> QED
      BY <1>3, <1>6, <3>2 DEF Met
  <2>3. errors[c] + 1 # 0
    BY Here
  <2> QED
    BY <1>3, <1>4, <1>5, <1>7, <2>1, <2>2, <2>3, EndsIInv
<1> QED
  BY <1>2, <1>8, <1>9

LEMMA RunPanicsIInv ==
    ASSUME IInv, NEW c \in Checks, RunPanics(c)
    PROVE  IInv' /\ OnlyOf(c)
<1>1. /\ OnlyOf(c) /\ config' = config /\ pc'[c] = "panicked"
      /\ at'[c] = at[c] /\ seen'[c] = seen[c] /\ flagged'[c] = flagged[c]
      /\ passed'[c] = passed[c] /\ errors'[c] = errors[c] /\ c \in completed'
  BY DEF RunPanics, OnlyOf, IInv, Shape
<1>2. /\ pc[c] = "running" /\ RunningOK(c) /\ at[c] \in 1..Len(Members(c))
      /\ Len(seen[c]) = at[c] - 1 /\ Members(c)[at[c]] = Null
  BY Probes DEF RunPanics
<1>3. Family(c) = "shellGroup"
  BY <1>2, Here, Configured
<1>4. Len(seen[c]) # Len(Members(c))
  BY <1>2, Here
<1>5. ~Met(c)'
  BY <1>1, <1>3, <1>4, Here, NotMet, MetFrame DEF Group
<1>6. Members(c)' = Members(c)
  BY <1>1 DEF Members
<1>7. at[c] \in 1..(Len(Members(c)) + 1) /\ Len(seen[c]) < at[c]
  BY <1>2, Here
<1>8. PanickedOK(c)'
  BY <1>1, <1>2, <1>3, <1>5, <1>6, <1>7 DEF PanickedOK, RunningOK
<1>9. StateOK(c)'
  BY <1>1, <1>8 DEF StateOK
<1>10. Seen(c)'
  BY <1>1, Here DEF Seen
<1> QED
  BY <1>1, <1>9, <1>10, Here, Locally

LEMMA RecoveredIInv ==
    ASSUME IInv, NEW c \in Checks, Recovered(c)
    PROVE  IInv' /\ OnlyOf(c)
<1>1. /\ OnlyOf(c) /\ config' = config /\ pc'[c] = "done" /\ at'[c] = at[c]
      /\ seen'[c] = seen[c] /\ flagged'[c] = flagged[c]
      /\ passed'[c] = passed[c] /\ errors'[c] = errors[c] + 1
      /\ completed' = completed
  BY DEF Recovered, OnlyOf, IInv, Shape
<1>2. PanickedOK(c)
  BY Here DEF Recovered, StateOK
<1>3. ~Met(c)'
  BY <1>1, <1>2, MetFrame DEF PanickedOK
<1>4. Members(c)' = Members(c)
  BY <1>1 DEF Members
<1>5. errors'[c] \in Nat /\ errors'[c] # 0 /\ errors'[c] <= Len(Members(c)) + 1
  BY <1>1, <1>2, Here DEF PanickedOK
<1>6. DoneOK(c)'
  BY <1>1, <1>2, <1>3, <1>4, <1>5 DEF DoneOK, PanickedOK
<1>7. StateOK(c)'
  BY <1>1, <1>6 DEF StateOK
<1>8. Seen(c)'
  BY <1>1, Here DEF Seen
<1> QED
  BY <1>1, <1>5, <1>7, <1>8, Here, Locally

LEMMA DecidesIInv ==
    ASSUME IInv, NEW c \in Checks, Decides(c)
    PROVE  IInv' /\ OnlyOf(c)
<1> DEFINE wrong == ~Decision(c) /\ Family(c) # "container"
           new == IF wrong THEN 1 ELSE 0
<1>1. /\ pc[c] = "running" /\ Validate(c) /\ at[c] > Len(Members(c))
      /\ Ends(c, Decision(c), new)
      /\ config' = config /\ at' = at /\ seen' = seen /\ flagged' = flagged
  BY DEF Decides
<1>2. RunningOK(c)
  BY <1>1, Here DEF StateOK
<1>3. Decision(c) \in BOOLEAN /\ (Decision(c) <=> Met(c))
  BY <1>1, <1>2, Here, DecisionIffMet
<1>4. Decision(c) <=> Met(c)'
  BY <1>1, <1>3, MetFrame
<1>5. new \in {0, 1} /\ (Decision(c) <=> errors[c] + new = 0)
  <2>1. CASE Family(c) = "container"
    <3>1. Decision(c) = ~flagged[c] /\ new = 0
      BY <2>1 DEF Decision, Group
    <3> HIDE DEF new
    <3>2. errors[c] + new = errors[c]
      BY <3>1, Here
    <3>3. flagged[c] <=> errors[c] # 0
      BY <1>2 DEF RunningOK
    <3> QED
      BY <3>1, <3>2, <3>3
  <2>2. CASE Family(c) # "container"
    <3>1. errors[c] = 0 /\ new = IF Decision(c) THEN 0 ELSE 1
      BY <1>2, <2>2, <1>3 DEF RunningOK
    <3> HIDE DEF new
    <3> QED
      BY <3>1, <1>3
  <2> QED
    BY <2>1, <2>2
<1>6. /\ at' = [at EXCEPT ![c] = at'[c]] /\ seen' = [seen EXCEPT ![c] = seen'[c]]
      /\ Seen(c)'
  BY <1>1, Here DEF IInv, Shape, Seen
<1>7. at'[c] \in 1..(Len(Members(c)) + 1) /\ Len(seen'[c]) < at'[c]
  BY <1>1, <1>2, Here DEF RunningOK
<1> HIDE DEF new
<1> QED
  BY <1>1, <1>3, <1>4, <1>5, <1>6, <1>7, EndsIInv

LEMMA RunIInv ==
    ASSUME IInv, NEW c \in Checks, Run(c)
    PROVE  IInv' /\ OnlyOf(c)
BY startTaskIInv, RejectedIInv, ObserveIInv, ProbeHostIInv, RunStageIInv,
   RunPanicsIInv, RecoveredIInv, DecidesIInv DEF Run

LEMMA StutterIInv == IInv /\ UNCHANGED vars => IInv'
<1> SUFFICES ASSUME IInv, UNCHANGED vars PROVE IInv'
  OBVIOUS
<1>1. Shape'
  BY DEF IInv, Shape, vars
<1>2. ASSUME NEW c \in Checks PROVE StateOK(c)'
  <2>1. /\ config' = config /\ pc' = pc /\ at' = at /\ seen' = seen
        /\ flagged' = flagged /\ passed' = passed /\ errors' = errors
        /\ completed' = completed
    BY DEF vars
  <2>2. StateOK(c)
    BY DEF IInv
  <2> QED
    BY <2>1, <2>2, OtherCheck
<1> QED
  BY <1>1, <1>2 DEF IInv

LEMMA IInvInvariant == Spec => []IInv
<1>1. IInv /\ [Next]_vars => IInv'
  BY RunIInv, StutterIInv DEF Next
<1> QED
  BY InitIInv, <1>1, PTL DEF Spec

-----------------------------------------------------------------------------
(* The theorems.                                                           *)

\* The variables keep their types: no check probes past its last member, has
\* more answers than it asked for, or collects more errors than it has members
\* and one.
THEOREM TypeCorrect == Spec => []TypeOK
<1>1. ASSUME IInv, NEW c \in Checks
      PROVE  /\ at[c] \in 1..(Len(Members(c)) + 1)
             /\ seen[c] \in Seq(BOOLEAN) /\ Len(seen[c]) < at[c]
             /\ errors[c] \in 0..(Len(Members(c)) + 1)
  <2>1. pc[c] \in {"ready", "running", "panicked", "done"}
    BY <1>1 DEF IInv, Shape
  <2>2. CASE pc[c] \in {"ready", "running"}
    BY <1>1, <2>2, Here DEF StateOK, RunningOK, Seen
  <2>3. CASE pc[c] = "panicked"
    BY <1>1, <2>3, Here DEF StateOK, PanickedOK, Seen
  <2>4. CASE pc[c] = "done"
    BY <1>1, <2>4, Here DEF StateOK, DoneOK, Seen
  <2> QED
    BY <2>1, <2>2, <2>3, <2>4
<1>2. IInv => TypeOK
  BY <1>1 DEF TypeOK, IInv, Shape
<1> QED
  BY <1>2, IInvInvariant, PTL

\* A completed check passed if and only if the answers it got satisfy what its
\* type promises, for configurations of any size: Run of each check, and
\* GetResults and compareVersions, which they call.
THEOREM VerdictIsSound == Spec => []PassedIffMet
<1>1. ASSUME IInv, NEW c \in completed PROVE passed[c] <=> Met(c)
  <2>1. c \in Checks /\ pc[c] \in {"ready", "running", "panicked", "done"}
    BY <1>1 DEF IInv, Shape
  <2>2. StateOK(c)
    BY <1>1, <2>1 DEF IInv
  <2> QED
    BY <2>1, <2>2 DEF StateOK, RunningOK, PanickedOK, DoneOK
<1>2. IInv => PassedIffMet
  BY <1>1 DEF PassedIffMet
<1> QED
  BY <1>2, IInvInvariant, PTL

\* What Base.Output reports of a check whose Run ended is a pass or an error,
\* and never both.
THEOREM ErrorIffFailed == Spec => []FailureHasItsError
<1>1. ASSUME IInv, NEW c \in Checks, pc[c] = "done"
      PROVE  Output(c).Completed /\ (Output(c).Passed <=> ~Output(c).Error)
  <2>1. DoneOK(c) /\ errors[c] \in Nat
    BY <1>1, Here DEF StateOK
  <2>2. errors[c] > 0 <=> errors[c] # 0
    BY <2>1
  <2> QED
    BY <2>1, <2>2 DEF DoneOK, Output
<1>2. IInv => FailureHasItsError
  BY <1>1 DEF FailureHasItsError
<1> QED
  BY <1>2, IInvInvariant, PTL

\* The verdict of a job that is marked complete is final, and so are its errors
\* but for the one the recovery from its panic adds.
THEOREM VerdictIsFinal == Spec => CompletedIsFinal
<1> DEFINE Final(c) ==
        /\ c \in completed' /\ passed'[c] = passed[c]
        /\ pc[c] # "panicked" => errors'[c] = errors[c]
<1>1. ASSUME IInv, NEW d \in Checks, Run(d), NEW c \in completed
      PROVE  Final(c)
  <2>1. OnlyOf(d) /\ c \in Checks
    BY <1>1, RunIInv DEF IInv, Shape
  <2>2. CASE c # d
    BY <1>1, <2>1, <2>2 DEF OnlyOf, IInv, Shape
  <2>3. CASE c = d
    <3>1. pc[c] \notin {"ready", "running"}
      BY <1>1, <2>1, Here DEF StateOK, RunningOK
    <3>2. Recovered(c)
      BY <1>1, <2>3, <3>1
         DEF Run, startTask, Rejected, Observe, ProbeHost, RunStage, RunPanics,
             Decides, Probing
    <3> QED
      BY <3>2 DEF Recovered
  <2> QED
    BY <2>2, <2>3
<1>2. IInv /\ [Next]_vars
        => [\A c \in completed :
              /\ c \in completed'
              /\ passed'[c] = passed[c]
              /\ pc[c] # "panicked" => errors'[c] = errors[c]]_vars
  BY <1>1 DEF Next
<1> QED
  BY <1>2, IInvInvariant, PTL DEF Spec, CompletedIsFinal

-----------------------------------------------------------------------------
(* Every check comes to its end.                                           *)

\* The guards of the actions of Run(c).
CheckCanMove(c) ==
    \/ pc[c] \in {"ready", "panicked"}
    \/ pc[c] = "running" /\ ~Validate(c)
    \/ Probing(c) /\ Family(c) \in Single \cup Group /\ Members(c)[at[c]] # Null
    \/ Probing(c) /\ Family(c) = "container"
    \/ Probing(c) /\ Family(c) = "stages" /\ Answers(Members(c)[at[c]]) # {}
    \/ Probing(c) /\ Members(c)[at[c]] = Null
    \/ pc[c] = "running" /\ Validate(c) /\ at[c] > Len(Members(c))

\* What a check has left to do: one step for each member it has not probed, and
\* those to start, to end and to recover.
CheckLeft(c) ==
    (CASE pc[c] = "ready" -> 3
       [] pc[c] = "running" -> 2
       [] pc[c] = "panicked" -> 1
       [] pc[c] = "done" -> 0)
    + ((Len(Members(c)) + 1) - at[c])

LEMMA Place ==
    ASSUME IInv, NEW c \in Checks
    PROVE  /\ pc[c] \in {"ready", "running", "panicked", "done"}
           /\ at[c] \in 1..(Len(Members(c)) + 1) /\ Len(Members(c)) \in Nat
<1>1. pc[c] \in {"ready", "running", "panicked", "done"}
  BY DEF IInv, Shape
<1> QED
  BY <1>1, Here DEF StateOK, RunningOK, PanickedOK, DoneOK

\* Whatever its family, its requirements, its members and the answers, a check that
\* has not ended can take its next step: there is no configuration that none of the
\* cases of a Run covers (the Run methods of src/check, and pool/local.go:97-108 for
\* the one that panicked).
THEOREM CheckIsNeverStuck == Spec => [](\A c \in Checks : pc[c] = "done" \/ CheckCanMove(c))
<1>1. ASSUME IInv, NEW c \in Checks, pc[c] # "done" PROVE CheckCanMove(c)
  <2>1. /\ Family(c) \in Single \cup Group \cup {"container", "stages"}
        /\ pc[c] \in {"ready", "running", "panicked"}
        /\ at[c] \in Nat /\ Len(Members(c)) \in Nat
    BY <1>1, Here, Configured, Place
  <2>2. \A x : Answers(x) # {}
    BY DEF Answers
  <2>3. at[c] <= Len(Members(c)) \/ at[c] > Len(Members(c))
    BY <2>1
  <2> QED
    BY <2>1, <2>2, <2>3 DEF CheckCanMove, Probing
<1>2. IInv => \A c \in Checks : pc[c] = "done" \/ CheckCanMove(c)
  BY <1>1
<1> QED
  BY <1>2, IInvInvariant, PTL

\* Each step brings the check that takes it closer to its end and no other check
\* any further from it: no Run goes in circles, failed probes and panics included.
THEOREM ChecksGoForward ==
    Spec => /\ [](\A c \in Checks : CheckLeft(c) \in Nat)
            /\ [][\E c \in Checks :
                     /\ CheckLeft(c)' < CheckLeft(c)
                     /\ \A d \in Checks \ {c} : CheckLeft(d)' = CheckLeft(d)]_vars
<1>1. ASSUME IInv, NEW c \in Checks PROVE CheckLeft(c) \in Nat
  <2>1. (Len(Members(c)) + 1) - at[c] \in Nat
    BY <1>1, Place
  <2> QED
    BY <1>1, <2>1, Place DEF CheckLeft
<1>2. ASSUME IInv, NEW c \in Checks, Run(c)
      PROVE  /\ CheckLeft(c)' < CheckLeft(c)
             /\ \A d \in Checks \ {c} : CheckLeft(d)' = CheckLeft(d)
  <2>1. OnlyOf(c) /\ pc \in [Checks -> {"ready", "running", "panicked", "done"}]
        /\ at \in [Checks -> Nat]
    BY <1>2, RunIInv DEF IInv, Shape
  <2>2. \A d \in Checks : Members(d)' = Members(d)
    BY <2>1 DEF OnlyOf, Members
  <2>3. \A d \in Checks \ {c} : CheckLeft(d)' = CheckLeft(d)
    <3>1. \A d \in Checks \ {c} : pc'[d] = pc[d] /\ at'[d] = at[d]
      BY <2>1 DEF OnlyOf
    <3> QED
      BY <2>2, <3>1 DEF CheckLeft
  <2>4. \/ pc[c] = "ready" /\ pc'[c] = "running" /\ at'[c] = at[c]
        \/ /\ pc[c] = "running" /\ pc'[c] \in {"done", "panicked"}
           /\ at'[c] \in {at[c], at[c] + 1}
        \/ pc[c] = "running" /\ pc'[c] = "running" /\ at'[c] = at[c] + 1
        \/ pc[c] = "panicked" /\ pc'[c] = "done" /\ at'[c] = at[c]
    <3>1. CASE startTask(c) \/ Recovered(c) \/ RunPanics(c)
      BY <2>1, <3>1 DEF startTask, Recovered, RunPanics, Probing
    <3>2. CASE Rejected(c) \/ Decides(c)
      BY <2>1, <3>2 DEF Rejected, Decides, Ends
    <3>3. CASE Observe(c) \/ ProbeHost(c)
      BY <2>1, <3>3 DEF Observe, ProbeHost, Probing
    <3>4. CASE RunStage(c)
      BY <2>1, <3>4 DEF RunStage, Probing, Ends
    <3> QED
      BY <1>2, <3>1, <3>2, <3>3, <3>4 DEF Run
  <2> DEFINE len == Len(Members(c)) + 1
  <2>5. len \in Nat /\ at[c] \in Nat /\ len' = len
    BY <1>2, <2>2, Place
  <2> HIDE DEF len
  <2>6. CheckLeft(c)' < CheckLeft(c)
    <3>1. CheckLeft(c) = (CASE pc[c] = "ready" -> 3 [] pc[c] = "running" -> 2
                            [] pc[c] = "panicked" -> 1 [] pc[c] = "done" -> 0)
                         + (len - at[c])
      BY DEF CheckLeft, len
    <3>2. CheckLeft(c)' = (CASE pc'[c] = "ready" -> 3 [] pc'[c] = "running" -> 2
                             [] pc'[c] = "panicked" -> 1 [] pc'[c] = "done" -> 0)
                          + (len - at'[c])
      BY <2>2 DEF CheckLeft, len
    <3> QED
      BY <2>4, <2>5, <3>1, <3>2
  <2> QED
    BY <2>3, <2>6
<1>3. IInv /\ [Next]_vars
        => [\E c \in Checks :
              /\ CheckLeft(c)' < CheckLeft(c)
              /\ \A d \in Checks \ {c} : CheckLeft(d)' = CheckLeft(d)]_vars
  BY <1>2 DEF Next
<1>4. IInv => \A c \in Checks : CheckLeft(c) \in Nat
  BY <1>1
<1> QED
  BY <1>3, <1>4, IInvInvariant, PTL DEF Spec

=============================================================================
