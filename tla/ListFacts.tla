------------------------------ MODULE ListFacts ------------------------------
(***************************************************************************)
(* Facts about lists that the proofs about the configuration and the       *)
(* results producers need: what FlattenSeq, by which those modules express *)
(* the loops that append to a list, returns for every list.                *)
(*                                                                         *)
(* Induction comes without an operator parameter: SetInduction is about a  *)
(* set T of naturals, and follows from the well-foundedness of the strict  *)
(* subset ordering on the finite set 0..n, which the library proves.       *)
(***************************************************************************)
EXTENDS SequencesExt, TLAPS, FiniteSetTheorems, SequenceTheorems, WellFoundedInduction

\* Every nonempty set of naturals has a least element.
LEMMA Least ==
  ASSUME NEW T \in SUBSET Nat, T # {}
  PROVE  \E m \in T : \A k \in T : m <= k
  <1>1. PICK n \in T : TRUE
    OBVIOUS
  <1> DEFINE B == 0..n
             R == StrictSubsetOrdering(B)
             F == {0..k : k \in {j \in T : j <= n}}
  <1>2. IsFiniteSet(B)
    BY FS_Interval
  <1>3. IsWellFoundedOn(R, SUBSET B)
    BY <1>2, FS_StrictSubsetOrderingWellFounded, FS_FiniteSubsetsOfFinite
  <1>4. F \subseteq SUBSET B /\ F # {}
    OBVIOUS
  <1>5. PICK x \in F : \A y \in F : ~(<<y, x>> \in R)
    <2> HIDE DEF F, R, B
    <2> QED
      BY <1>3, <1>4, WFMin
  <1>6. PICK m \in T : m <= n /\ x = 0..m
    OBVIOUS
  <1>7. ASSUME NEW k \in T, k < m PROVE FALSE
    <2>1. 0..k \in F /\ 0..k \subseteq 0..m /\ m \in 0..m /\ m \notin 0..k
      BY <1>6, <1>7
    <2>2. <<0..k, 0..m>> \in R
      BY <2>1, <1>4, <1>5, <1>6 DEF StrictSubsetOrdering
    <2> QED
      BY <2>1, <2>2, <1>5, <1>6
  <1> QED
    BY <1>6, <1>7

\* A set that has 0 and every successor of its naturals has all of them.
LEMMA SetInduction ==
  ASSUME NEW T, 0 \in T, \A n \in Nat : n \in T => n + 1 \in T
  PROVE  Nat \subseteq T
  <1> SUFFICES ASSUME Nat \ T # {} PROVE FALSE
    OBVIOUS
  <1>1. PICK m \in Nat \ T : \A k \in Nat \ T : m <= k
    BY Least
  <1>2. m # 0 /\ m - 1 \in Nat /\ (m - 1) + 1 = m
    BY <1>1
  <1>3. m - 1 \in T
    BY <1>1, <1>2
  <1> QED
    BY <1>1, <1>2, <1>3

\* The same up to a bound, where only the steps below it are known.
LEMMA Upwards ==
  ASSUME NEW n \in Nat, NEW T, 0 \in T,
         \A m \in 0..(n - 1) : m \in T => m + 1 \in T
  PROVE  0..n \subseteq T
  <1> DEFINE U == {m \in Nat : m <= n => m \in T}
  <1>1. 0 \in U /\ \A m \in Nat : m \in U => m + 1 \in U
    OBVIOUS
  <1>2. Nat \subseteq U
    <2> HIDE DEF U
    <2> QED
      BY <1>1, SetInduction
  <1> QED
    BY <1>2

-----------------------------------------------------------------------------
(* FlattenSeq.                                                             *)

\* The lists that flattening q goes through.
IsFlattening(f, q) ==
    /\ f[0] = <<>>
    /\ \A i \in 1..Len(q) : f[i] = f[i - 1] \o q[i]
    /\ FlattenSeq(q) = f[Len(q)]

\* The recursive function in FlattenSeq is well defined.
LEMMA FlattenSteps ==
  ASSUME NEW S, NEW q \in Seq(Seq(S))
  PROVE  \E f : IsFlattening(f, q)
  <1> DEFINE n == Len(q)
             Eq(g, m) == g = [i \in 1..m |-> IF i = 1 THEN q[i] ELSE g[i - 1] \o q[i]]
             T == {m \in Nat : \E g : Eq(g, m)}
  <1>0. n \in Nat /\ \A i \in 1..n : q[i] \in Seq(S)
    BY LenProperties, ElementOfSeq
  <1>1. 0 \in T
    <2>1. Eq([i \in 1..0 |-> <<>>], 0)
      OBVIOUS
    <2> QED
      BY <2>1
  <1>2. ASSUME NEW m \in Nat, m \in T PROVE m + 1 \in T
    <2>1. PICK g : Eq(g, m)
      BY <1>2
    <2> DEFINE h == [i \in 1..(m + 1) |->
                       IF i = m + 1 THEN (IF i = 1 THEN q[i] ELSE g[m] \o q[i]) ELSE g[i]]
    <2>2. ASSUME NEW i \in 1..(m + 1)
          PROVE  h[i] = IF i = 1 THEN q[i] ELSE h[i - 1] \o q[i]
      <3>1. CASE i = m + 1
        BY <3>1
      <3>2. CASE i # m + 1
        <4>1. i \in 1..m /\ h[i] = g[i] /\ (i # 1 => i - 1 \in 1..m /\ h[i - 1] = g[i - 1])
          BY <3>2
        <4>2. g[i] = IF i = 1 THEN q[i] ELSE g[i - 1] \o q[i]
          BY <2>1, <4>1
        <4> QED
          BY <4>1, <4>2
      <3> QED
        BY <3>1, <3>2
    <2>3. Eq(h, m + 1)
      <3> HIDE DEF h
      <3>1. h = [i \in 1..(m + 1) |-> h[i]]
        BY DEF h
      <3> QED
        BY <2>2, <3>1
    <2> HIDE DEF h, Eq
    <2> QED
      BY <2>3
  <1>3. n \in T
    <2> HIDE DEF T, n
    <2> QED
      BY <1>0, <1>1, <1>2, SetInduction
  <1> DEFINE e == CHOOSE g : Eq(g, n)
             f == [i \in 0..n |-> IF i = 0 THEN <<>> ELSE e[i]]
  <1>4. Eq(e, n)
    BY <1>3
  <1>5. \A i \in 1..n : e[i] = IF i = 1 THEN q[i] ELSE e[i - 1] \o q[i]
    <2> HIDE DEF e
    <2> QED
      BY <1>4
  <1>6. FlattenSeq(q) = IF n = 0 THEN q ELSE e[n]
    BY DEF FlattenSeq
  <1>7. \A i \in 1..n : f[i] = f[i - 1] \o q[i]
    <2> TAKE i \in 1..n
    <2> HIDE DEF e, n
    <2>0. f[i] = e[i] /\ f[0] = <<>> /\ (i # 1 => f[i - 1] = e[i - 1])
      BY <1>0
    <2> HIDE DEF f
    <2>1. CASE i = 1
      <3>1. f[i] = q[i] /\ q[i] \in Seq(S) /\ f[i - 1] = <<>>
        BY <1>0, <1>5, <2>0, <2>1
      <3> QED
        BY <3>1, ConcatEmptySeq
    <2>2. CASE i # 1
      BY <1>5, <2>0, <2>2
    <2> QED
      BY <2>1, <2>2
  <1>8. f[0] = <<>> /\ FlattenSeq(q) = f[n]
    BY <1>0, <1>6, EmptySeq
  <1> QED
    BY <1>7, <1>8 DEF IsFlattening

\* Every list of the flattening is one.
LEMMA FlattenTypes ==
  ASSUME NEW S, NEW q \in Seq(Seq(S)), NEW f, IsFlattening(f, q)
  PROVE  \A m \in 0..Len(q) : f[m] \in Seq(S)
  <1>0. Len(q) \in Nat /\ \A i \in 1..Len(q) : q[i] \in Seq(S)
    BY LenProperties, ElementOfSeq
  <1> DEFINE T == {m \in Nat : f[m] \in Seq(S)}
  <1>1. 0 \in T
    BY EmptySeq DEF IsFlattening
  <1>2. ASSUME NEW m \in 0..(Len(q) - 1), m \in T PROVE m + 1 \in T
    <2>1. m + 1 \in 1..Len(q) /\ m + 1 \in Nat /\ (m + 1) - 1 = m
      BY <1>0
    <2>2. f[m + 1] = f[m] \o q[m + 1] /\ q[m + 1] \in Seq(S) /\ f[m] \in Seq(S)
      BY <1>0, <1>2, <2>1 DEF IsFlattening
    <2> QED
      BY <2>1, <2>2, ConcatProperties
  <1>3. 0..Len(q) \subseteq T
    <2> HIDE DEF T
    <2> QED
      BY <1>0, <1>1, <1>2, Upwards
  <1> QED
    BY <1>3

\* So is the flattening itself.
LEMMA FlattenType ==
  ASSUME NEW S, NEW q \in Seq(Seq(S))
  PROVE  FlattenSeq(q) \in Seq(S)
  <1>1. PICK f : IsFlattening(f, q)
    BY FlattenSteps
  <1>2. Len(q) \in 0..Len(q)
    BY LenProperties
  <1> QED
    BY <1>1, <1>2, FlattenTypes DEF IsFlattening

\* Concatenation adds the elements of its second list.
LEMMA ConcatElements ==
  ASSUME NEW S, NEW s \in Seq(S), NEW t \in Seq(S)
  PROVE  ToSet(s \o t) = ToSet(s) \cup ToSet(t)
  <1>1. /\ Len(s) \in Nat /\ Len(t) \in Nat
        /\ DOMAIN s = 1..Len(s) /\ DOMAIN t = 1..Len(t)
        /\ DOMAIN (s \o t) = 1..(Len(s) + Len(t))
    BY LenProperties, ConcatProperties
  <1>2. \A i \in 1..(Len(s) + Len(t)) :
          (s \o t)[i] = IF i <= Len(s) THEN s[i] ELSE t[i - Len(s)]
    BY ConcatProperties
  <1>3. ASSUME NEW i \in 1..Len(s) PROVE s[i] \in ToSet(s \o t)
    <2>1. i \in 1..(Len(s) + Len(t)) /\ (s \o t)[i] = s[i]
      BY <1>1, <1>2
    <2> QED
      BY <1>1, <2>1 DEF ToSet
  <1>4. ASSUME NEW i \in 1..Len(t) PROVE t[i] \in ToSet(s \o t)
    <2>1. /\ Len(s) + i \in 1..(Len(s) + Len(t)) /\ ~(Len(s) + i <= Len(s))
          /\ (Len(s) + i) - Len(s) = i
      BY <1>1
    <2>2. (s \o t)[Len(s) + i] = t[i]
      BY <1>2, <2>1
    <2> QED
      BY <1>1, <2>1, <2>2 DEF ToSet
  <1>5. ASSUME NEW i \in 1..(Len(s) + Len(t))
        PROVE  (s \o t)[i] \in ToSet(s) \cup ToSet(t)
    <2>1. CASE i <= Len(s)
      BY <1>1, <1>2, <2>1 DEF ToSet
    <2>2. CASE ~(i <= Len(s))
      <3>1. i - Len(s) \in 1..Len(t)
        BY <1>1, <2>2
      <3> QED
        BY <1>1, <1>2, <2>2, <3>1 DEF ToSet
    <2> QED
      BY <2>1, <2>2
  <1>6. ToSet(s \o t) \subseteq ToSet(s) \cup ToSet(t)
    BY <1>1, <1>5 DEF ToSet
  <1>7. ToSet(s) \subseteq ToSet(s \o t) /\ ToSet(t) \subseteq ToSet(s \o t)
    <2>1. ASSUME NEW x \in ToSet(s) PROVE x \in ToSet(s \o t)
      <3>1. PICK i \in 1..Len(s) : x = s[i]
        BY <1>1 DEF ToSet
      <3> QED
        BY <1>3, <3>1
    <2>2. ASSUME NEW x \in ToSet(t) PROVE x \in ToSet(s \o t)
      <3>1. PICK i \in 1..Len(t) : x = t[i]
        BY <1>1 DEF ToSet
      <3> QED
        BY <1>4, <3>1
    <2> QED
      BY <2>1, <2>2
  <1> QED
    BY <1>6, <1>7

\* Flattening keeps the elements.
LEMMA FlattenElements ==
  ASSUME NEW S, NEW q \in Seq(Seq(S))
  PROVE  ToSet(FlattenSeq(q)) = UNION {ToSet(q[i]) : i \in 1..Len(q)}
  <1>0. Len(q) \in Nat /\ \A i \in 1..Len(q) : q[i] \in Seq(S)
    BY LenProperties, ElementOfSeq
  <1>1. PICK f : IsFlattening(f, q)
    BY FlattenSteps
  <1> DEFINE Upto(m) == UNION {ToSet(q[i]) : i \in 1..m}
             T == {m \in Nat : ToSet(f[m]) = Upto(m)}
  <1>2. 0 \in T
    BY <1>1 DEF IsFlattening, ToSet
  <1>3. ASSUME NEW m \in 0..(Len(q) - 1), m \in T PROVE m + 1 \in T
    <2>1. m + 1 \in 1..Len(q) /\ m + 1 \in Nat /\ (m + 1) - 1 = m /\ m \in 0..Len(q)
      BY <1>0
    <2>2. /\ f[m + 1] = f[m] \o q[m + 1]
          /\ q[m + 1] \in Seq(S) /\ f[m] \in Seq(S)
      BY <1>0, <1>1, <2>1, FlattenTypes DEF IsFlattening
    <2>3. ToSet(f[m + 1]) = ToSet(f[m]) \cup ToSet(q[m + 1])
      BY <2>2, ConcatElements
    <2>4. 1..(m + 1) = (1..m) \cup {m + 1}
      BY <2>1
    <2>5. Upto(m + 1) = Upto(m) \cup ToSet(q[m + 1])
      BY <2>4
    <2> QED
      BY <1>3, <2>1, <2>3, <2>5
  <1>4. 0..Len(q) \subseteq T
    <2> HIDE DEF T
    <2> QED
      BY <1>0, <1>2, <1>3, Upwards
  <1>5. ToSet(f[Len(q)]) = Upto(Len(q))
    <2> HIDE DEF Upto
    <2> QED
      BY <1>0, <1>4
  <1> QED
    BY <1>1, <1>5 DEF IsFlattening

-----------------------------------------------------------------------------
(* Lists of at most one element each: their flattening is a selection.     *)

\* Every list of q has at most one element.
Sparse(q) == \A i \in 1..Len(q) : Len(q[i]) <= 1

\* The elements of s are those of the first m lists of q, in order: pos says
\* from which list each comes.
IsSelection(pos, s, q, m) ==
    /\ pos \in [1..Len(s) -> {i \in 1..m : q[i] # <<>>}]
    /\ \A k \in 1..Len(s) : s[k] = q[pos[k]][1]
    /\ \A k, l \in 1..Len(s) : k < l => pos[k] < pos[l]
    /\ \A i \in 1..m : q[i] # <<>> => \E k \in 1..Len(s) : pos[k] = i

\* Appending the next list keeps it so.
LEMMA SelectionGrows ==
  ASSUME NEW S, NEW q, NEW m \in Nat, NEW t \in Seq(S), q[m + 1] = t,
         Len(t) <= 1, NEW s \in Seq(S), NEW pos, IsSelection(pos, s, q, m)
  PROVE  \E p : IsSelection(p, s \o t, q, m + 1)
  <1> DEFINE L == Len(s)
  <1>0. Len(t) \in Nat /\ L \in Nat /\ L = Len(s)
    BY LenProperties
  <1>00. /\ pos \in [1..L -> {i \in 1..m : q[i] # <<>>}]
         /\ \A k, l \in 1..L : k < l => pos[k] < pos[l]
    BY DEF IsSelection
  <1> HIDE DEF L
  <1>1. CASE t = <<>>
    <2>1. s \o t = s
      BY <1>1, ConcatEmptySeq
    <2>2. \A i \in 1..(m + 1) : q[i] # <<>> => i \in 1..m
      BY <1>1
    <2>3. pos \in [1..Len(s) -> {i \in 1..(m + 1) : q[i] # <<>>}]
      <3>1. {i \in 1..m : q[i] # <<>>} \subseteq {i \in 1..(m + 1) : q[i] # <<>>}
        OBVIOUS
      <3> QED
        BY <1>0, <1>00, <3>1
    <2>4. IsSelection(pos, s, q, m + 1)
      BY <2>2, <2>3 DEF IsSelection
    <2> QED
      BY <2>1, <2>4
  <1>2. CASE t # <<>>
    <2>1. Len(t) = 1 /\ t[1] \in S
      <3>1. Len(t) \in Nat \ {0}
        BY <1>2, EmptySeq
      <3>2. Len(t) = 1
        <4>1. \A n \in Nat : n # 0 /\ n <= 1 => n = 1
          OBVIOUS
        <4> QED
          BY <3>1, <4>1
      <3>3. 1 \in 1..Len(t)
        BY <3>2
      <3>4. t[1] \in S
        BY <3>3, ElementOfSeq
      <3> QED
        BY <3>2, <3>4
    <2> DEFINE r == s \o t
               p == [k \in 1..(L + 1) |-> IF k = L + 1 THEN m + 1 ELSE pos[k]]
    <2>2. Len(r) = L + 1 /\ \A k \in 1..(L + 1) : r[k] = IF k <= L THEN s[k] ELSE t[1]
      <3>0. /\ Len(r) = Len(s) + Len(t)
            /\ \A k \in 1..(Len(s) + Len(t)) :
                 r[k] = IF k <= Len(s) THEN s[k] ELSE t[k - Len(s)]
        BY ConcatProperties
      <3>1. Len(r) = L + 1
        BY <1>0, <2>1, <3>0
      <3>2. ASSUME NEW k \in 1..(L + 1) PROVE r[k] = IF k <= L THEN s[k] ELSE t[k - L]
        BY <1>0, <2>1, <3>0
      <3>3. \A k \in 1..(L + 1) : ~(k <= L) => k - L = 1
        BY <1>0
      <3> QED
        BY <3>1, <3>2, <3>3
    <2>3. \A k \in 1..L : /\ pos[k] \in 1..m /\ q[pos[k]] # <<>>
                          /\ p[k] = pos[k] /\ k \in 1..(L + 1) /\ k <= L
                          /\ k # L + 1
      <3> TAKE k \in 1..L
      <3>1. k \in 1..(L + 1) /\ k <= L /\ k # L + 1
        BY <1>0
      <3>2. p[k] = pos[k]
        BY <3>1
      <3> QED
        BY <1>00, <3>1, <3>2
    <2>4. p[L + 1] = m + 1 /\ L + 1 \in 1..(L + 1) /\ ~(L + 1 <= L)
      BY <1>0
    <2>5. \A k \in 1..(L + 1) : k \in 1..L \/ k = L + 1
      BY <1>0
    <2>6. DOMAIN p = 1..(L + 1) /\ p = [k \in 1..(L + 1) |-> p[k]]
      OBVIOUS
    <2> HIDE DEF p, r, L
    <2>7. p \in [1..Len(r) -> {i \in 1..(m + 1) : q[i] # <<>>}]
      <3>1. \A k \in 1..(L + 1) : p[k] \in {i \in 1..(m + 1) : q[i] # <<>>}
        <4> TAKE k \in 1..(L + 1)
        <4>1. CASE k \in 1..L
          BY <2>3, <4>1
        <4>2. CASE k = L + 1
          BY <1>2, <2>4, <4>2
        <4> QED
          BY <2>5, <4>1, <4>2
      <3> QED
        BY <2>2, <2>6, <3>1
    <2>8. \A k \in 1..Len(r) : r[k] = q[p[k]][1]
      <3> TAKE k \in 1..Len(r)
      <3>1. CASE k \in 1..L
        BY <1>0, <2>2, <2>3, <3>1 DEF IsSelection
      <3>2. CASE k = L + 1
        BY <2>2, <2>4, <3>2
      <3> QED
        BY <2>2, <2>5, <3>1, <3>2
    <2>9. \A k, l \in 1..Len(r) : k < l => p[k] < p[l]
      <3> TAKE k, l \in 1..Len(r)
      <3> HAVE k < l
      <3>1. k \in 1..L
        BY <1>0, <2>2
      <3>2. CASE l \in 1..L
        BY <1>00, <2>3, <3>1, <3>2
      <3>3. CASE l = L + 1
        <4>1. p[k] \in 1..m /\ p[l] = m + 1
          BY <2>3, <2>4, <3>1, <3>3
        <4> QED
          BY <4>1
      <3> QED
        BY <2>2, <2>5, <3>2, <3>3
    <2>10. ASSUME NEW i \in 1..(m + 1), q[i] # <<>>
           PROVE  \E k \in 1..Len(r) : p[k] = i
      <3>1. CASE i = m + 1
        BY <2>2, <2>4, <3>1
      <3>2. CASE i # m + 1
        <4>1. i \in 1..m
          BY <3>2
        <4>2. PICK k \in 1..L : pos[k] = i
          BY <1>0, <2>10, <4>1 DEF IsSelection
        <4> QED
          BY <2>2, <2>3, <4>2
      <3> QED
        BY <3>1, <3>2
    <2> QED
      BY <2>7, <2>8, <2>9, <2>10 DEF IsSelection, r
  <1> QED
    BY <1>1, <1>2

\* Flattening lists of at most one element selects from them, in order.
LEMMA FlattenSelects ==
  ASSUME NEW S, NEW q \in Seq(Seq(S)), Sparse(q)
  PROVE  \E pos : IsSelection(pos, FlattenSeq(q), q, Len(q))
  <1>0. Len(q) \in Nat
    BY LenProperties
  <1>1. PICK f : IsFlattening(f, q)
    BY FlattenSteps
  <1> DEFINE T == {m \in Nat : \E pos : IsSelection(pos, f[m], q, m)}
  <1>2. 0 \in T
    <2>1. f[0] = <<>> /\ Len(<<>>) = 0
      BY <1>1, EmptySeq DEF IsFlattening
    <2>2. IsSelection([k \in 1..0 |-> 0], <<>>, q, 0)
      BY <2>1 DEF IsSelection
    <2> QED
      BY <2>1, <2>2
  <1>3. ASSUME NEW m \in 0..(Len(q) - 1), m \in T PROVE m + 1 \in T
    <2>1. /\ m + 1 \in 1..Len(q) /\ m \in 0..Len(q) /\ m \in Nat
          /\ (m + 1) - 1 = m
      BY <1>0
    <2>2. f[m] \in Seq(S) /\ f[m + 1] = f[m] \o q[m + 1]
      BY <1>1, <2>1, FlattenTypes DEF IsFlattening
    <2>3. Len(q[m + 1]) <= 1
      BY <2>1 DEF Sparse
    <2>4. PICK pos : IsSelection(pos, f[m], q, m)
      BY <1>3
    <2>5. q[m + 1] \in Seq(S)
      BY <2>1, ElementOfSeq
    <2>6. \E p : IsSelection(p, f[m + 1], q, m + 1)
      BY <2>1, <2>2, <2>3, <2>4, <2>5, SelectionGrows
    <2>7. m + 1 \in Nat
      BY <2>1
    <2> QED
      BY <2>6, <2>7
  <1>4. 0..Len(q) \subseteq T
    <2> HIDE DEF T
    <2> QED
      BY <1>0, <1>2, <1>3, Upwards
  <1>5. Len(q) \in T
    BY <1>0, <1>4
  <1> QED
    BY <1>1, <1>5 DEF IsFlattening

\* It is as long as there are lists that are not empty.
LEMMA FlattenCounts ==
  ASSUME NEW S, NEW q \in Seq(Seq(S)), Sparse(q)
  PROVE  Len(FlattenSeq(q)) = Cardinality({i \in 1..Len(q) : q[i] # <<>>})
  <1> DEFINE F == FlattenSeq(q)
             P == {i \in 1..Len(q) : q[i] # <<>>}
  <1>1. PICK pos : IsSelection(pos, F, q, Len(q))
    BY FlattenSelects
  <1>2. Len(F) \in Nat
    BY FlattenType, LenProperties
  <1>3. pos \in [1..Len(F) -> P]
    BY <1>1 DEF IsSelection
  <1>4. \A k, l \in 1..Len(F) : pos[k] = pos[l] => k = l
    <2> TAKE k, l \in 1..Len(F)
    <2>1. k < l \/ l < k \/ k = l
      BY <1>2
    <2>2. pos[k] \in Nat /\ pos[l] \in Nat
      BY <1>3
    <2> QED
      BY <1>1, <2>1, <2>2 DEF IsSelection
  <1>5. \A i \in P : \E k \in 1..Len(F) : pos[k] = i
    BY <1>1 DEF IsSelection
  <1> HIDE DEF F, P
  <1>6. ExistsBijection(1..Len(F), P)
    BY <1>3, <1>4, <1>5
    DEF ExistsBijection, Bijection, Injection, Surjection, IsInjective
  <1>7. IsFiniteSet(1..Len(F)) /\ Cardinality(1..Len(F)) = Len(F)
    <2>1. 1 \in Int /\ Len(F) \in Int /\ (1 > Len(F) => Len(F) = 0)
      BY <1>2
    <2> QED
      BY <2>1, FS_Interval
  <1>8. Cardinality(P) = Len(F)
    BY <1>6, <1>7, FS_Bijection
  <1> QED
    BY <1>8 DEF F, P
=============================================================================
