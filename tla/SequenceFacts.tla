--------------------------- MODULE SequenceFacts ---------------------------
(***************************************************************************)
(* Facts about sequences that the proofs of several modules need.          *)
(***************************************************************************)
EXTENDS Filters, Integers, FiniteSetTheorems, FunctionTheorems, SequenceTheorems,
        WellFoundedInduction, TLAPS

(* Every set of numbers that is not empty has a least one: the principle by   *)
(* which the inductions below are made, as their theorems take an operator.   *)
LEMMA LeastNumber ==
  ASSUME NEW A \in SUBSET Nat, A # {}
  PROVE  \E n \in A : \A m \in A : n <= m
<1> DEFINE R == OpToRel(<, Nat)
<1>1. \E n \in A : \A m \in A : ~ <<m, n>> \in R
  <2>1. IsWellFoundedOn(R, Nat) BY NatLessThanWellFounded
  <2> HIDE DEF R
  <2> QED BY <2>1, WFMin
<1>2. PICK n \in A : \A m \in A : ~ <<m, n>> \in R BY <1>1
<1>3. \A m \in A : m < n => <<m, n>> \in R BY DEF OpToRel
<1>4. \A m \in A : ~ m < n
  <2> HIDE DEF R
  <2> QED BY <1>2, <1>3
<1> HIDE DEF R
<1>5. \A m \in A : n <= m BY <1>4
<1> QED BY <1>5

\* The count of UpTo starts at zero and grows by one at each element of T.
LEMMA UpToSteps ==
  ASSUME NEW S, NEW s \in Seq(S), NEW T
  PROVE  /\ \A i \in 0..Len(s) : UpTo(s, T, i) \in Nat
         /\ UpTo(s, T, 0) = 0
         /\ \A i \in 1..Len(s) :
              UpTo(s, T, i) = UpTo(s, T, i - 1) + (IF s[i] \in T THEN 1 ELSE 0)
<1> DEFINE At(i) == {j \in 1..i : s[j] \in T}
<1>1. Len(s) \in Nat BY LenProperties
<1>2. ASSUME NEW i \in 0..Len(s) PROVE IsFiniteSet(At(i))
  <2>1. IsFiniteSet(1..i) BY <1>1, FS_Interval
  <2>2. At(i) \in SUBSET (1..i) OBVIOUS
  <2> QED BY <2>1, <2>2, FS_Subset
<1>3. \A i \in 0..Len(s) : Cardinality(At(i)) \in Nat BY <1>2, FS_CardinalityType
<1>4. At(0) = {} OBVIOUS
<1>5. \A i \in 1..Len(s) : At(i) = IF s[i] \in T THEN At(i - 1) \cup {i} ELSE At(i - 1)
  BY <1>1
<1>6. \A i \in 1..Len(s) : i - 1 \in 0..Len(s) /\ i \notin At(i - 1) BY <1>1
<1>7. ASSUME NEW i \in 1..Len(s)
      PROVE  Cardinality(At(i)) = Cardinality(At(i - 1)) + (IF s[i] \in T THEN 1 ELSE 0)
  <2>1. IsFiniteSet(At(i - 1)) /\ i \notin At(i - 1) /\ Cardinality(At(i - 1)) \in Nat BY <1>2, <1>3, <1>6
  <2>2. At(i) = IF s[i] \in T THEN At(i - 1) \cup {i} ELSE At(i - 1) BY <1>5
  <2> HIDE DEF At
  <2>3. CASE s[i] \in T BY <2>1, <2>2, <2>3, FS_AddElement
  <2>4. CASE s[i] \notin T BY <2>1, <2>2, <2>4
  <2> QED BY <2>3, <2>4
<1>8. \A i : UpTo(s, T, i) = Cardinality(At(i)) BY DEF UpTo
<1> HIDE DEF At
<1> QED BY <1>3, <1>4, <1>7, <1>8, FS_EmptySet

\* Later counts are not smaller, and each of their values is reached at an element of T.
LEMMA UpToGrows ==
  ASSUME NEW S, NEW s \in Seq(S), NEW T
  PROVE  /\ \A i, j \in 0..Len(s) : i <= j => UpTo(s, T, i) <= UpTo(s, T, j)
         /\ \A i, j \in 1..Len(s) : i < j /\ s[j] \in T => UpTo(s, T, i) < UpTo(s, T, j)
         /\ \A k \in 1..UpTo(s, T, Len(s)) :
              \E i \in 1..Len(s) : s[i] \in T /\ UpTo(s, T, i) = k
         /\ \A i \in 0..Len(s) : UpTo(s, T, i) <= i
<1> DEFINE C(i) == UpTo(s, T, i)
<1>1. Len(s) \in Nat BY LenProperties
<1>2. /\ \A i \in 0..Len(s) : C(i) \in Nat
      /\ C(0) = 0
      /\ \A i \in 1..Len(s) : C(i) = C(i - 1) + (IF s[i] \in T THEN 1 ELSE 0)
  BY UpToSteps
<1> HIDE DEF C
<1>3. \A i, j \in 0..Len(s) : i <= j => C(i) <= C(j)
  <2> SUFFICES ASSUME NEW i \in 0..Len(s), NEW e \in 0..Len(s), i <= e, ~ C(i) <= C(e)
               PROVE  FALSE
    OBVIOUS
  <2> DEFINE A == {j \in 0..Len(s) : i <= j /\ ~ C(i) <= C(j)}
  <2>1. PICK j \in A : \A m \in A : j <= m
    <3>1. A \in SUBSET Nat /\ A # {} BY <1>1
    <3> QED BY <3>1, LeastNumber
  <2>2. j \in 0..Len(s) /\ i <= j /\ ~ C(i) <= C(j) OBVIOUS
  <2>3. i < j BY <1>1, <1>2, <2>2
  <2>4. j - 1 \in 0..Len(s) /\ i <= j - 1 /\ j \in 1..Len(s) BY <1>1, <2>2, <2>3
  <2>5. j - 1 \notin A BY <2>1, <2>2, <1>1
  <2>6. C(i) <= C(j - 1) BY <2>4, <2>5
  <2>8. C(i) \in Nat /\ C(j) \in Nat /\ C(j - 1) \in Nat BY <1>2, <2>2, <2>4
  <2>7. C(j) = C(j - 1) + (IF s[j] \in T THEN 1 ELSE 0) BY <1>2, <2>4
  <2> QED BY <2>2, <2>6, <2>7, <2>8
<1>4. \A i, j \in 1..Len(s) : i < j /\ s[j] \in T => C(i) < C(j)
  <2> SUFFICES ASSUME NEW i \in 1..Len(s), NEW j \in 1..Len(s), i < j, s[j] \in T
               PROVE  C(i) < C(j)
    OBVIOUS
  <2>1. i \in 0..Len(s) /\ j - 1 \in 0..Len(s) /\ i <= j - 1 BY <1>1
  <2>2. C(i) <= C(j - 1) BY <1>3, <2>1
  <2>3. C(j) = C(j - 1) + 1 BY <1>2
  <2>4. C(i) \in Nat /\ C(j - 1) \in Nat BY <1>2, <2>1
  <2> QED BY <2>2, <2>3, <2>4
<1>5. ASSUME NEW k \in 1..C(Len(s))
      PROVE  \E i \in 1..Len(s) : s[i] \in T /\ C(i) = k
  <2> DEFINE A == {i \in 0..Len(s) : k <= C(i)}
  <2>0. Len(s) \in 0..Len(s) BY <1>1
  <2>1. Len(s) \in A BY <2>0, <1>2
  <2>2. A \in SUBSET Nat BY <1>1
  <2>3. \A i \in A : i \in 0..Len(s) /\ k <= C(i) OBVIOUS
  <2>4. \A i \in 0..Len(s) : i \notin A => ~ k <= C(i) OBVIOUS
  <2> HIDE DEF A
  <2>5. PICK i \in A : \A m \in A : i <= m BY <2>1, <2>2, LeastNumber
  <2>6. i \in 0..Len(s) /\ k <= C(i) BY <2>3
  <2>7. i # 0 BY <1>2, <2>6
  <2>8. i \in 1..Len(s) /\ i - 1 \in 0..Len(s) BY <1>1, <2>6, <2>7
  <2>9. i - 1 \notin A BY <2>5, <2>6, <1>1
  <2>10. ~ k <= C(i - 1) BY <2>4, <2>8, <2>9
  <2>11. C(i) = C(i - 1) + (IF s[i] \in T THEN 1 ELSE 0) BY <1>2, <2>8
  <2>12. C(i) \in Nat /\ C(i - 1) \in Nat BY <1>2, <2>6, <2>8
  <2>13. s[i] \in T /\ C(i) = k BY <2>6, <2>10, <2>11, <2>12
  <2> QED BY <2>8, <2>13
<1>6. \A i \in 0..Len(s) : C(i) <= i
  <2> SUFFICES ASSUME NEW A, A = {i \in 0..Len(s) : ~ C(i) <= i}, A # {} PROVE FALSE
    OBVIOUS
  <2>1. PICK i \in A : \A m \in A : i <= m
    <3>1. A \in SUBSET Nat BY <1>1
    <3> QED BY <3>1, LeastNumber
  <2>2. i \in 0..Len(s) /\ ~ C(i) <= i OBVIOUS
  <2>3. i # 0 BY <1>2, <2>2
  <2>4. i \in 1..Len(s) /\ i - 1 \in 0..Len(s) BY <1>1, <2>2, <2>3
  <2>5. i - 1 \notin A BY <2>1, <2>2, <1>1
  <2>6. C(i - 1) <= i - 1 BY <2>4, <2>5
  <2>7. C(i) = C(i - 1) + (IF s[i] \in T THEN 1 ELSE 0) BY <1>2, <2>4
  <2>8. C(i) \in Nat /\ C(i - 1) \in Nat BY <1>2, <2>2, <2>4
  <2> QED BY <2>2, <2>6, <2>7, <2>8
<1> QED BY <1>3, <1>4, <1>5, <1>6 DEF C

\* The elements of o are those of s at the places that f says, in their order.
Picks(f, o, s) ==
  /\ f \in [1..Len(o) -> 1..Len(s)]
  /\ \A k \in 1..Len(o) : o[k] = s[f[k]]
  /\ \A k, m \in 1..Len(o) : k < m => f[k] < f[m]

\* Only picks the places of the elements of T, each and no other.
LEMMA OnlyPicks ==
  ASSUME NEW S, NEW s \in Seq(S), NEW T
  PROVE  /\ Only(s, T) \in Seq(S \cap T)
         /\ Len(Only(s, T)) <= Len(s)
         /\ \E f : /\ Picks(f, Only(s, T), s)
                   /\ \A k \in 1..Len(Only(s, T)) : s[f[k]] \in T
                   /\ \A i \in 1..Len(s) : s[i] \in T => \E k \in 1..Len(Only(s, T)) : f[k] = i
<1> DEFINE n == UpTo(s, T, Len(s))
           at(k) == CHOOSE i \in DOMAIN s : s[i] \in T /\ UpTo(s, T, i) = k
           f == [k \in 1..n |-> at(k)]
<1>0. \A i \in 1..Len(s) :
        UpTo(s, T, i) = UpTo(s, T, i - 1) + (IF s[i] \in T THEN 1 ELSE 0)
  BY UpToSteps
<1>1. Len(s) \in Nat /\ DOMAIN s = 1..Len(s) /\ \A i \in 1..Len(s) : s[i] \in S BY LenProperties, ElementOfSeq
<1>2. n \in Nat /\ n <= Len(s)
  <2>1. Len(s) \in 0..Len(s) BY <1>1
  <2> QED BY <2>1, UpToSteps, UpToGrows
<1>3. \A k \in 1..n : at(k) \in 1..Len(s) /\ s[at(k)] \in T /\ UpTo(s, T, at(k)) = k
  <2> SUFFICES ASSUME NEW k \in 1..n PROVE at(k) \in 1..Len(s) /\ s[at(k)] \in T /\ UpTo(s, T, at(k)) = k
    OBVIOUS
  <2>1. \E i \in DOMAIN s : s[i] \in T /\ UpTo(s, T, i) = k BY <1>1, UpToGrows
  <2> QED BY <1>1, <2>1
<1>4. Only(s, T) = [k \in 1..n |-> s[at(k)]] BY DEF Only
<1> HIDE DEF at, n
<1>5. Only(s, T) \in Seq(S \cap T) /\ Len(Only(s, T)) = n
  <2>1. Only(s, T) \in [1..n -> S \cap T] BY <1>1, <1>3, <1>4
  <2>2. DOMAIN Only(s, T) = 1..n BY <1>4
  <2>3. Only(s, T) \in Seq(S \cap T) BY <1>2, <2>1, IsASeq
  <2> QED BY <1>2, <2>2, <2>3, LenProperties
<1>6. f \in [1..n -> 1..Len(s)] BY <1>3
<1>7. \A k \in 1..n : Only(s, T)[k] = s[f[k]] /\ s[f[k]] \in T BY <1>3, <1>4
<1>8. \A k, m \in 1..n : k < m => at(k) < at(m)
  <2> SUFFICES ASSUME NEW k \in 1..n, NEW m \in 1..n, k < m, ~ at(k) < at(m) PROVE FALSE
    OBVIOUS
  <2>1. at(k) \in 0..Len(s) /\ at(m) \in 0..Len(s) /\ at(m) <= at(k) BY <1>1, <1>3
  <2>2. UpTo(s, T, at(m)) <= UpTo(s, T, at(k)) BY <2>1, UpToGrows
  <2> QED BY <1>2, <1>3, <2>2
<1>9. ASSUME NEW i \in 1..Len(s), s[i] \in T PROVE \E k \in 1..n : at(k) = i
  <2> DEFINE k == UpTo(s, T, i)
  <2>1. i \in 0..Len(s) /\ i - 1 \in 0..Len(s) /\ Len(s) \in 0..Len(s) /\ i <= Len(s) BY <1>1
  <2>2. k = UpTo(s, T, i - 1) + 1 /\ UpTo(s, T, i - 1) \in Nat
    <3>1. UpTo(s, T, i) = UpTo(s, T, i - 1) + (IF s[i] \in T THEN 1 ELSE 0) BY <1>0
    <3>2. UpTo(s, T, i - 1) \in Nat BY <2>1, UpToSteps
    <3> QED BY <3>1, <3>2, <1>9
  <2>3. k <= n BY <2>1, UpToGrows DEF n
  <2>4. k \in 1..n BY <1>2, <2>2, <2>3
  <2>5. at(k) \in 1..Len(s) /\ s[at(k)] \in T /\ UpTo(s, T, at(k)) = k BY <1>3, <2>4
  <2>6. at(k) = i
    <3>1. CASE at(k) < i BY <3>1, <2>5, <2>2, UpToGrows
    <3>2. CASE i < at(k)
      <4>1. UpTo(s, T, i) < UpTo(s, T, at(k)) BY <3>2, <2>5, UpToGrows
      <4>2. k \in Nat /\ k = UpTo(s, T, i) BY <2>4, <1>2
      <4> HIDE DEF k
      <4> QED BY <4>1, <4>2, <2>5
    <3> QED BY <3>1, <3>2, <2>5, <1>1
  <2> QED BY <2>4, <2>6
<1>10. \A k, m \in 1..n : k < m => f[k] < f[m]
  BY <1>8 DEF f
<1>11. \A i \in 1..Len(s) : s[i] \in T => \E k \in 1..n : f[k] = i
  BY <1>9 DEF f
<1> HIDE DEF f
<1>12. Picks(f, Only(s, T), s)
  BY <1>5, <1>6, <1>7, <1>10 DEF Picks
<1>13. \A k \in 1..n : s[f[k]] \in T
  BY <1>7
<1> QED
  BY <1>2, <1>5, <1>11, <1>12, <1>13

\* o has the elements of s that are in T, each and no other, in their order.
Retains(o, s, T) ==
  /\ \A k \in 1..Len(o) : o[k] \in T /\ \E i \in 1..Len(s) : o[k] = s[i]
  /\ \A i \in 1..Len(s) : s[i] \in T => \E k \in 1..Len(o) : o[k] = s[i]
  /\ \A k, m \in 1..Len(o) : k < m =>
       \E i, j \in 1..Len(s) : i < j /\ o[k] = s[i] /\ o[m] = s[j]

\* What Only promises: in particular it makes nothing up and doubles nothing.
LEMMA OnlyKeeps ==
  ASSUME NEW S, NEW s \in Seq(S), NEW T
  PROVE  /\ Only(s, T) \in Seq(S \cap T)
         /\ Len(Only(s, T)) <= Len(s)
         /\ Retains(Only(s, T), s, T)
<1> DEFINE o == Only(s, T)
<1>1. PICK f : /\ Picks(f, o, s)
               /\ \A k \in 1..Len(o) : s[f[k]] \in T
               /\ \A i \in 1..Len(s) : s[i] \in T => \E k \in 1..Len(o) : f[k] = i
  BY OnlyPicks
<1>2. o \in Seq(S \cap T) /\ Len(o) <= Len(s)
  BY OnlyPicks
<1> HIDE DEF o
<1>3. /\ \A k \in 1..Len(o) : f[k] \in 1..Len(s) /\ o[k] = s[f[k]]
      /\ \A k, m \in 1..Len(o) : k < m => f[k] < f[m]
  BY <1>1 DEF Picks
<1>4. \A k \in 1..Len(o) : o[k] \in T /\ \E i \in 1..Len(s) : o[k] = s[i]
  BY <1>1, <1>3
<1>5. \A i \in 1..Len(s) : s[i] \in T => \E k \in 1..Len(o) : o[k] = s[i]
  <2> SUFFICES ASSUME NEW i \in 1..Len(s), s[i] \in T PROVE \E k \in 1..Len(o) : o[k] = s[i]
    OBVIOUS
  <2>1. PICK k \in 1..Len(o) : f[k] = i
    BY <1>1
  <2> QED
    BY <2>1, <1>3
<1>6. \A k, m \in 1..Len(o) : k < m =>
        \E i, j \in 1..Len(s) : i < j /\ o[k] = s[i] /\ o[m] = s[j]
  BY <1>3
<1>7. Retains(o, s, T)
  BY <1>4, <1>5, <1>6 DEF Retains
<1> QED
  BY <1>2, <1>7 DEF o

\* As many places, as many elements, when none repeats.
LEMMA InjectiveCount ==
  ASSUME NEW s, NEW m \in Nat, \A i, j \in 1..m : s[i] = s[j] => i = j,
         NEW T, \A i \in 1..m : s[i] \in T, \A t \in T : \E i \in 1..m : s[i] = t
  PROVE  IsFiniteSet(T) /\ Cardinality(T) = m
<1> DEFINE f == [i \in 1..m |-> s[i]]
<1>1. f \in [1..m -> T]
  OBVIOUS
<1>2. \A i, j \in 1..m : f[i] = f[j] => i = j
  OBVIOUS
<1>3. \A t \in T : \E i \in 1..m : f[i] = t
  OBVIOUS
<1> HIDE DEF f
<1>4. f \in Bijection(1..m, T)
  BY <1>1, <1>2, <1>3, Fun_IsBij
<1>5. ExistsBijection(1..m, T)
  BY <1>4 DEF ExistsBijection
<1>6. IsFiniteSet(1..m) /\ Cardinality(1..m) = m
  BY FS_Interval
<1> QED
  BY <1>5, <1>6, FS_Bijection

\* The places of what Only keeps: the k-th kept element has k kept ones up to it.
LEMMA OnlyAt ==
  ASSUME NEW S, NEW s \in Seq(S), NEW T
  PROVE  /\ UpTo(s, T, Len(s)) \in Nat /\ DOMAIN Only(s, T) = 1..UpTo(s, T, Len(s))
         /\ \A k \in 1..UpTo(s, T, Len(s)) :
              \E i \in 1..Len(s) : s[i] \in T /\ UpTo(s, T, i) = k
         /\ \A i \in 1..Len(s) :
              s[i] \in T => /\ UpTo(s, T, i) \in 1..UpTo(s, T, Len(s))
                            /\ Only(s, T)[UpTo(s, T, i)] = s[i]
<1> DEFINE n == UpTo(s, T, Len(s))
           at(k) == CHOOSE i \in DOMAIN s : s[i] \in T /\ UpTo(s, T, i) = k
<1>1. Len(s) \in Nat /\ DOMAIN s = 1..Len(s)
  BY LenProperties
<1>2. n \in Nat
  <2>1. \A i \in 0..Len(s) : UpTo(s, T, i) \in Nat
    BY UpToSteps
  <2> QED
    BY <1>1, <2>1
<1>3. \A k \in 1..n : \E i \in 1..Len(s) : s[i] \in T /\ UpTo(s, T, i) = k
  BY UpToGrows
<1>4. ASSUME NEW k \in 1..n PROVE at(k) \in 1..Len(s) /\ s[at(k)] \in T /\ UpTo(s, T, at(k)) = k
  <2>1. \E i \in DOMAIN s : s[i] \in T /\ UpTo(s, T, i) = k
    BY <1>1, <1>3
  <2> QED
    BY <1>1, <2>1
<1>5. Only(s, T) = [k \in 1..n |-> s[at(k)]]
  BY DEF Only
<1> HIDE DEF at
<1>6. ASSUME NEW i \in 1..Len(s), s[i] \in T
      PROVE  UpTo(s, T, i) \in 1..n /\ Only(s, T)[UpTo(s, T, i)] = s[i]
  <2>1. i \in 0..Len(s) /\ i - 1 \in 0..Len(s) /\ Len(s) \in 0..Len(s) /\ i <= Len(s)
    BY <1>1
  <2>2. UpTo(s, T, i) = UpTo(s, T, i - 1) + 1 /\ UpTo(s, T, i - 1) \in Nat
    BY <2>1, <1>6, UpToSteps
  <2>3. UpTo(s, T, i) <= n
    BY <2>1, UpToGrows
  <2>4. UpTo(s, T, i) \in 1..n
    BY <1>2, <2>2, <2>3
  <2> DEFINE j == at(UpTo(s, T, i))
  <2>5. j \in 1..Len(s) /\ s[j] \in T /\ UpTo(s, T, j) = UpTo(s, T, i)
    BY <1>4, <2>4
  <2> HIDE DEF j
  <2>6. UpTo(s, T, i) \in Nat
    BY <2>4, <1>2
  <2>7. ASSUME i < j PROVE FALSE
    <3>1. UpTo(s, T, i) < UpTo(s, T, j)
      BY <2>5, <2>7, UpToGrows
    <3> QED
      BY <3>1, <2>5, <2>6
  <2>8. ASSUME j < i PROVE FALSE
    <3>1. UpTo(s, T, j) < UpTo(s, T, i)
      BY <2>5, <2>8, <1>6, UpToGrows
    <3> QED
      BY <3>1, <2>5, <2>6
  <2>9. j = i
    BY <2>5, <2>7, <2>8, <1>1
  <2> QED
    BY <2>4, <2>9, <1>5 DEF j
<1> QED
  BY <1>2, <1>3, <1>5, <1>6

\* One element more, at the end.
LEMMA OnlyAppend ==
  ASSUME NEW S, NEW s \in Seq(S), NEW x \in S, NEW T
  PROVE  Only(Append(s, x), T) = IF x \in T THEN Append(Only(s, T), x) ELSE Only(s, T)
<1> DEFINE a == Append(s, x)
           o == Only(s, T)
           n == UpTo(s, T, Len(s))
<1>1. /\ a \in Seq(S) /\ Len(a) = Len(s) + 1 /\ Len(s) \in Nat
      /\ \A i \in 1..Len(s) : a[i] = s[i]
      /\ a[Len(s) + 1] = x
  BY AppendProperties, LenProperties
<1>2. o \in Seq(S \cap T)
  BY OnlyPicks
<1>3. /\ n \in Nat /\ DOMAIN o = 1..n
      /\ \A k \in 1..n : \E i \in 1..Len(s) : s[i] \in T /\ UpTo(s, T, i) = k
      /\ \A i \in 1..Len(s) : s[i] \in T => o[UpTo(s, T, i)] = s[i]
  BY OnlyAt
<1> HIDE DEF a
<1>4. /\ DOMAIN Only(a, T) = 1..UpTo(a, T, Len(a))
      /\ \A i \in 1..Len(a) : a[i] \in T => Only(a, T)[UpTo(a, T, i)] = a[i]
  BY <1>1, OnlyAt
<1>5. ASSUME NEW i \in 0..Len(s) PROVE UpTo(a, T, i) = UpTo(s, T, i)
  <2>1. \A j \in 1..i : a[j] = s[j]
    BY <1>1
  <2>2. {j \in 1..i : a[j] \in T} = {j \in 1..i : s[j] \in T}
    BY <2>1
  <2> QED
    BY <2>2 DEF UpTo
<1>6. UpTo(a, T, Len(a)) = n + (IF x \in T THEN 1 ELSE 0)
  <2>1. Len(a) \in 1..Len(a) /\ Len(a) - 1 = Len(s) /\ Len(s) \in 0..Len(s)
    BY <1>1
  <2>2. UpTo(a, T, Len(a)) = UpTo(a, T, Len(a) - 1) + (IF a[Len(a)] \in T THEN 1 ELSE 0)
    <3>1. \A i \in 1..Len(a) : UpTo(a, T, i) = UpTo(a, T, i - 1) + (IF a[i] \in T THEN 1 ELSE 0)
      <4>1. a \in Seq(S)
        BY <1>1
      <4> QED
        BY <4>1, UpToSteps
    <3> QED
      BY <2>1, <3>1
  <2> QED
    BY <2>1, <2>2, <1>1, <1>5
<1>7. ASSUME NEW k \in 1..n PROVE Only(a, T)[k] = o[k]
  <2>1. PICK i \in 1..Len(s) : s[i] \in T /\ UpTo(s, T, i) = k
    BY <1>3
  <2>2. i \in 0..Len(s) /\ i \in 1..Len(a)
    BY <1>1
  <2>3. UpTo(a, T, i) = k /\ a[i] = s[i]
    BY <2>1, <2>2, <1>1, <1>5
  <2>4. Only(a, T)[k] = a[i]
    BY <2>1, <2>2, <2>3, <1>4
  <2> QED
    BY <2>1, <2>3, <2>4, <1>3
<1>8. Len(o) = n
  BY <1>2, <1>3, LenProperties
<1>9. Only(a, T) \in Seq(S \cap T)
  BY <1>1, OnlyPicks
<1> HIDE DEF o, n
<1>10. CASE x \notin T
  <2>1. UpTo(a, T, Len(a)) = n
    BY <1>10, <1>6, <1>3
  <2>2. DOMAIN Only(a, T) = 1..n /\ Len(Only(a, T)) = n
    BY <2>1, <1>3, <1>4, <1>9, LenProperties
  <2>3. Only(a, T) = o
    BY <2>2, <1>2, <1>7, <1>8, <1>9, SeqEqual
  <2> QED
    BY <2>3, <1>10 DEF a, o
<1>11. CASE x \in T
  <2> DEFINE b == Append(o, x)
  <2>1. /\ b \in Seq(S \cap T) /\ Len(b) = n + 1 /\ b[n + 1] = x
        /\ \A k \in 1..n : b[k] = o[k]
    <3>1. x \in S \cap T
      BY <1>11
    <3> QED
      BY <3>1, <1>2, <1>8, AppendProperties
  <2> HIDE DEF b
  <2>2. UpTo(a, T, Len(a)) = n + 1
    BY <1>11, <1>6, <1>3
  <2>3. DOMAIN Only(a, T) = 1..(n + 1) /\ Len(Only(a, T)) = n + 1
    BY <2>2, <1>3, <1>4, <1>9, LenProperties
  <2>4. Only(a, T)[n + 1] = x
    <3>1. Len(a) \in 1..Len(a) /\ a[Len(a)] = x
      BY <1>1
    <3> QED
      BY <3>1, <2>2, <1>4, <1>11
  <2>5. \A k \in 1..(n + 1) : Only(a, T)[k] = b[k]
    BY <2>1, <2>4, <1>3, <1>7
  <2>6. Only(a, T) = b
    BY <2>1, <2>3, <2>5, <1>9, SeqEqual
  <2> QED
    BY <2>6, <1>11 DEF a, b, o
<1> QED
  BY <1>10, <1>11


\* A loop over a slice that appends the elements of T, and passes over the others.
FilterLoop(s, T, out) ==
  /\ out[0] = <<>>
  /\ \A i \in 1..Len(s) : out[i] = IF s[i] \in T THEN Append(out[i - 1], s[i]) ELSE out[i - 1]

\* What such a loop has made in the end is Only, for every slice: what the models say
\* in closed form is what the loops of the code compute.
THEOREM LoopMakesOnly ==
  ASSUME NEW S, NEW s \in Seq(S), NEW T, NEW out, FilterLoop(s, T, out)
  PROVE  out[Len(s)] = Only(s, T)
<1> DEFINE p(i) == [k \in 1..i |-> s[k]]
           A == {i \in 0..Len(s) : out[i] # Only(p(i), T)}
<1>1. Len(s) \in Nat /\ DOMAIN s = 1..Len(s) /\ \A i \in 1..Len(s) : s[i] \in S
  BY LenProperties, ElementOfSeq
<1>2. ASSUME NEW i \in 0..Len(s) PROVE p(i) \in Seq(S) /\ Len(p(i)) = i
  <2>1. p(i) \in [1..i -> S] /\ DOMAIN p(i) = 1..i
    BY <1>1
  <2>2. i \in Nat
    BY <1>1
  <2>3. p(i) \in Seq(S)
    BY <2>1, <2>2, IsASeq
  <2> HIDE DEF p
  <2> QED
    BY <2>1, <2>2, <2>3, LenProperties
<1>3. ASSUME NEW i \in 1..Len(s) PROVE p(i) = Append(p(i - 1), s[i])
  <2> DEFINE q == p(i - 1)
  <2>1. i - 1 \in 0..Len(s) /\ i \in 0..Len(s) /\ i - 1 + 1 = i /\ i - 1 \in Nat
    BY <1>1
  <2>2. q \in Seq(S) /\ Len(q) = i - 1 /\ p(i) \in Seq(S) /\ Len(p(i)) = i
    BY <2>1, <1>2
  <2>3. /\ \A k \in 1..i : p(i)[k] = s[k]
        /\ \A k \in 1..(i - 1) : q[k] = s[k]
    OBVIOUS
  <2> HIDE DEF p, q
  <2>4. /\ Append(q, s[i]) \in Seq(S) /\ Len(Append(q, s[i])) = i
        /\ \A k \in 1..(i - 1) : Append(q, s[i])[k] = s[k]
        /\ Append(q, s[i])[i] = s[i]
    BY <2>1, <2>2, <2>3, <1>1, AppendProperties
  <2>5. \A k \in 1..i : p(i)[k] = Append(q, s[i])[k]
    BY <2>1, <2>3, <2>4
  <2>6. p(i) = Append(q, s[i])
    BY <2>2, <2>4, <2>5, SeqEqual
  <2> QED
    BY <2>6 DEF q
<1>4. p(0) = <<>> /\ p(Len(s)) = s
  <2>1. p(0) \in Seq(S) /\ Len(p(0)) = 0 /\ p(Len(s)) \in Seq(S) /\ Len(p(Len(s))) = Len(s)
    BY <1>1, <1>2
  <2>2. \A k \in 1..Len(s) : p(Len(s))[k] = s[k]
    OBVIOUS
  <2> HIDE DEF p
  <2> QED
    BY <2>1, <2>2, SeqEqual, EmptySeq
<1> HIDE DEF p
<1>5. Only(<<>>, T) = <<>>
  <2>1. <<>> \in Seq(S)
    BY EmptySeq
  <2>2. Only(<<>>, T) \in Seq(S \cap T) /\ Len(Only(<<>>, T)) <= Len(<<>>)
    BY <2>1, OnlyPicks
  <2> QED
    BY <2>2, EmptySeq, LenProperties
<1>6. SUFFICES ASSUME A # {} PROVE FALSE
  BY <1>1, <1>4
<1>7. A \in SUBSET Nat /\ \A i \in A : i \in 0..Len(s) /\ out[i] # Only(p(i), T)
  BY <1>1
<1>8. \A i \in 0..Len(s) : i \notin A => out[i] = Only(p(i), T)
  OBVIOUS
<1> HIDE DEF A
<1>9. PICK i \in A : \A m \in A : i <= m
  BY <1>6, <1>7, LeastNumber
<1>10. i # 0
  BY <1>4, <1>5, <1>7 DEF FilterLoop
<1>11. i \in 1..Len(s) /\ i - 1 \in 0..Len(s) /\ i - 1 \notin A
  BY <1>1, <1>7, <1>9, <1>10
<1>12. out[i - 1] = Only(p(i - 1), T)
  BY <1>8, <1>11
<1>13. out[i] = IF s[i] \in T THEN Append(out[i - 1], s[i]) ELSE out[i - 1]
  BY <1>11 DEF FilterLoop
<1>14. Only(p(i), T) = IF s[i] \in T THEN Append(Only(p(i - 1), T), s[i]) ELSE Only(p(i - 1), T)
  <2> DEFINE q == p(i - 1)
             x == s[i]
  <2>1. q \in Seq(S) /\ x \in S /\ p(i) = Append(q, x)
    BY <1>1, <1>2, <1>3, <1>11
  <2> HIDE DEF q, x
  <2>2. Only(Append(q, x), T) = IF x \in T THEN Append(Only(q, T), x) ELSE Only(q, T)
    BY <2>1, OnlyAppend
  <2> QED
    BY <2>1, <2>2 DEF q, x
<1> QED
  BY <1>7, <1>12, <1>13, <1>14


=============================================================================
