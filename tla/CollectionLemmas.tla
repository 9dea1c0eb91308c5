-------------------------- MODULE CollectionLemmas --------------------------
(***************************************************************************)
(* Facts about numbers, sequences and recursive functions that the proofs  *)
(* of several components use.  They are stated for sets and functions, not *)
(* for operators, so that the provers can instantiate them.                *)
(***************************************************************************)
EXTENDS SequencesExt, SequenceTheorems, FiniteSetTheorems, WellFoundedInduction, TLAPS

-----------------------------------------------------------------------------
(* Recursion up to a bound.                                                *)

\* A set that holds 0 and is closed under successor up to N holds 0..N.
LEMMA BoundedInduction ==
    ASSUME NEW N \in Nat, NEW S, 0 \in S,
           \A n \in 1..N : n - 1 \in S => n \in S
    PROVE  \A n \in 0..N : n \in S
  <1> DEFINE T == {n \in 0..N : n \notin S}
  <1> SUFFICES ASSUME T # {} PROVE FALSE
    OBVIOUS
  <1>1. T \in SUBSET Nat
    OBVIOUS
  <1>2. PICK n \in T : \A m \in T : ~(<<m, n>> \in OpToRel(<, Nat))
    BY <1>1, NatLessThanWellFounded, WFMin
  <1>3. n \in 1..N
    OBVIOUS
  <1>4. n - 1 \in 0..N /\ <<n - 1, n>> \in OpToRel(<, Nat)
    BY <1>3 DEF OpToRel
  <1> QED BY <1>2, <1>3, <1>4

\* F[n] takes the value before step n to the value after it.
StepFunctions(N, X) == [1..N -> [X -> X]]

\* f starts with base and takes step n from f[n-1] to f[n].
Follows(f, N, X, base, F) ==
    f \in [0..N -> X] /\ f[0] = base /\ \A n \in 1..N : f[n] = F[n][f[n-1]]

\* Such a function exists.
LEMMA BoundedRecursion ==
    ASSUME NEW N \in Nat, NEW X, NEW base \in X, NEW F \in StepFunctions(N, X)
    PROVE  \E f : Follows(f, N, X, base, F)
  <1> DEFINE Fits(f, n) == f[0] = base /\ \A m \in 1..n : f[m] = F[m][f[m-1]]
             S == {n \in 0..N : \E f \in [0..n -> X] : Fits(f, n)}
  <1>1. 0 \in S
    <2> DEFINE f == [m \in 0..0 |-> base]
    <2>1. f \in [0..0 -> X] /\ Fits(f, 0)
      OBVIOUS
    <2> HIDE DEF f, Fits
    <2>2. \E h \in [0..0 -> X] : Fits(h, 0)
      BY <2>1
    <2> QED BY <2>2
  <1>2. ASSUME NEW n \in 1..N, n - 1 \in S
        PROVE  n \in S
    <2>1. PICK g \in [0..(n-1) -> X] : Fits(g, n - 1)
      BY <1>2
    <2> DEFINE f == [m \in 0..n |-> IF m = n THEN F[n][g[n-1]] ELSE g[m]]
    <2>2. F[n][g[n-1]] \in X
      BY <1>2 DEF StepFunctions
    <2>3. f \in [0..n -> X]
      BY <2>2
    <2>4. ASSUME NEW m \in 1..n
          PROVE  f[m] = F[m][f[m-1]]
      <3>1. CASE m = n
        BY <3>1
      <3>2. CASE m # n
        <4>1. g[m] = F[m][g[m-1]]
          BY <2>1, <3>2
        <4> QED BY <3>2, <4>1
      <3> QED BY <3>1, <3>2
    <2>5. Fits(f, n)
      BY <2>1, <2>4
    <2> HIDE DEF f, Fits
    <2>6. \E h \in [0..n -> X] : Fits(h, n)
      BY <2>3, <2>5
    <2> QED BY <2>6
  <1> HIDE DEF S
  <1>3. \A n \in 0..N : n \in S
    BY <1>1, <1>2, BoundedInduction
  <1>4. \E f \in [0..N -> X] : Fits(f, N)
    BY <1>3 DEF S
  <1> QED BY <1>4 DEF Follows

-----------------------------------------------------------------------------
(* Numbers and sequences.                                                  *)

\* The least element of a nonempty set of naturals is one of its elements.
LEMMA MinIn ==
    ASSUME NEW S \in SUBSET Nat, S # {}
    PROVE  Min(S) \in S /\ \A m \in S : Min(S) =< m
  <1>1. PICK n \in S : \A m \in S : ~(<<m, n>> \in OpToRel(<, Nat))
    BY NatLessThanWellFounded, WFMin
  <1>2. ASSUME NEW m \in S
        PROVE  n =< m
    <2>1. m < n => <<m, n>> \in OpToRel(<, Nat)
      BY DEF OpToRel
    <2>2. ~(m < n)
      BY <1>1, <2>1
    <2> QED BY <2>2
  <1> QED BY <1>2 DEF Min

\* A finite list of weights has a least one, and the first place it stands at.
LEMMA LeastWeight ==
    ASSUME NEW n \in Nat \ {0}, NEW w \in [1..n -> Nat]
    PROVE  LET I == {i \in 1..n : \A j \in 1..n : w[i] =< w[j]}
           IN  I # {} /\ Min(I) \in 1..n
  <1> DEFINE I == {i \in 1..n : \A j \in 1..n : w[i] =< w[j]}
             V == {w[i] : i \in 1..n}
  <1>1. V \in SUBSET Nat /\ V # {}
    <2>1. w[1] \in V
      OBVIOUS
    <2> QED BY <2>1
  <1>2. Min(V) \in V /\ \A m \in V : Min(V) =< m
    <2> HIDE DEF V
    <2> QED BY <1>1, MinIn
  <1>3. PICK i \in 1..n : w[i] = Min(V)
    BY <1>2
  <1>4. i \in I
    BY <1>2, <1>3
  <1>5. I \in SUBSET Nat /\ I # {} /\ I \subseteq 1..n
    <2>1. I \subseteq 1..n
      OBVIOUS
    <2>2. 1..n \subseteq Nat
      OBVIOUS
    <2> HIDE DEF I
    <2> QED BY <1>4, <2>1, <2>2
  <1>6. Min(I) \in I
    <2> HIDE DEF I
    <2> QED BY <1>5, MinIn
  <1> QED BY <1>5, <1>6

LEMMA RemoveAtSeq ==
    ASSUME NEW S, NEW s \in Seq(S), NEW i \in 1..Len(s)
    PROVE  RemoveAt(s, i) \in Seq(S)
  <1>1. SubSeq(s, 1, i-1) \in Seq(S) /\ SubSeq(s, i+1, Len(s)) \in Seq(S)
    OBVIOUS
  <1> QED BY <1>1, ConcatProperties DEF RemoveAt

LEMMA InsertAtSeq ==
    ASSUME NEW S, NEW s \in Seq(S), NEW i \in 1..(Len(s) + 1), NEW e \in S
    PROVE  InsertAt(s, i, e) \in Seq(S)
  <1>1. SubSeq(s, 1, i-1) \in Seq(S) /\ SubSeq(s, i, Len(s)) \in Seq(S) /\ <<e>> \in Seq(S)
    OBVIOUS
  <1>2. SubSeq(s, 1, i-1) \o <<e>> \in Seq(S)
    BY <1>1, ConcatProperties
  <1> QED BY <1>1, <1>2, ConcatProperties DEF InsertAt
-----------------------------------------------------------------------------
(* Inserting into a sequence and removing from it, element by element, and *)
(* what that does to its set of elements and to the absence of repetition. *)

LEMMA InsertAtElements ==
    ASSUME NEW S, NEW s \in Seq(S), NEW i \in 1..(Len(s) + 1), NEW e \in S
    PROVE  /\ Len(InsertAt(s, i, e)) = Len(s) + 1
           /\ \A j \in 1..(Len(s) + 1) :
                 InsertAt(s, i, e)[j] = IF j < i THEN s[j] ELSE IF j = i THEN e ELSE s[j-1]
  <1> DEFINE a == SubSeq(s, 1, i-1)
             c == SubSeq(s, i, Len(s))
  <1>1. a \in Seq(S) /\ c \in Seq(S) /\ <<e>> \in Seq(S)
    OBVIOUS
  <1>2. Len(a) = i - 1 /\ \A j \in 1..(i-1) : a[j] = s[j]
    OBVIOUS
  <1>3. Len(c) = Len(s) - i + 1 /\ \A j \in 1..(Len(s) - i + 1) : c[j] = s[i + j - 1]
    OBVIOUS
  <1> HIDE DEF a, c
  <1> DEFINE ab == a \o <<e>>
  <1>4. ab \in Seq(S) /\ Len(ab) = i /\ \A j \in 1..i : ab[j] = IF j < i THEN s[j] ELSE e
    BY <1>1, <1>2
  <1> HIDE DEF ab
  <1>5. /\ Len(ab \o c) = Len(s) + 1
        /\ \A j \in 1..(Len(s) + 1) : (ab \o c)[j] = IF j =< i THEN ab[j] ELSE c[j - i]
    <2>1. /\ Len(ab \o c) = Len(ab) + Len(c)
          /\ \A j \in 1..(Len(ab) + Len(c)) :
                (ab \o c)[j] = IF j =< Len(ab) THEN ab[j] ELSE c[j - Len(ab)]
      BY <1>1, <1>4, ConcatProperties
    <2> QED BY <1>3, <1>4, <2>1
  <1>6. InsertAt(s, i, e) = ab \o c
    BY DEF InsertAt, ab, a, c
  <1>7. ASSUME NEW j \in 1..(Len(s) + 1)
        PROVE  (ab \o c)[j] = IF j < i THEN s[j] ELSE IF j = i THEN e ELSE s[j-1]
    <2>1. CASE j =< i
      BY <1>4, <1>5, <2>1
    <2>2. CASE ~(j =< i)
      <3>1. j - i \in 1..(Len(s) - i + 1) /\ i + (j - i) - 1 = j - 1
        BY <2>2
      <3>2. c[j - i] = s[j-1]
        BY <1>3, <3>1
      <3> QED BY <1>5, <2>2, <3>2
    <2> QED BY <2>1, <2>2
  <1> QED BY <1>5, <1>6, <1>7

LEMMA RemoveAtElements ==
    ASSUME NEW S, NEW s \in Seq(S), NEW i \in 1..Len(s)
    PROVE  /\ Len(RemoveAt(s, i)) = Len(s) - 1
           /\ \A j \in 1..(Len(s) - 1) : RemoveAt(s, i)[j] = IF j < i THEN s[j] ELSE s[j+1]
  <1> DEFINE a == SubSeq(s, 1, i-1)
             c == SubSeq(s, i+1, Len(s))
  <1>1. a \in Seq(S) /\ c \in Seq(S)
    OBVIOUS
  <1>2. Len(a) = i - 1 /\ \A j \in 1..(i-1) : a[j] = s[j]
    OBVIOUS
  <1>3. Len(c) = Len(s) - i /\ \A j \in 1..(Len(s) - i) : c[j] = s[i + j]
    OBVIOUS
  <1> HIDE DEF a, c
  <1>4. /\ Len(a \o c) = Len(s) - 1
        /\ \A j \in 1..(Len(s) - 1) : (a \o c)[j] = IF j =< i - 1 THEN a[j] ELSE c[j - (i - 1)]
    <2>1. /\ Len(a \o c) = Len(a) + Len(c)
          /\ \A j \in 1..(Len(a) + Len(c)) :
                (a \o c)[j] = IF j =< Len(a) THEN a[j] ELSE c[j - Len(a)]
      BY <1>1, ConcatProperties
    <2> QED BY <1>2, <1>3, <2>1
  <1>5. RemoveAt(s, i) = a \o c
    BY DEF RemoveAt, a, c
  <1>6. \A j \in i..(Len(s) - 1) : c[j - (i - 1)] = s[j+1]
    BY <1>3
  <1> QED BY <1>2, <1>4, <1>5, <1>6

NoRepeats(s) == \A i, j \in 1..Len(s) : s[i] = s[j] => i = j

LEMMA InsertAtSet ==
    ASSUME NEW S, NEW s \in Seq(S), NEW i \in 1..(Len(s) + 1), NEW e \in S
    PROVE  ToSet(InsertAt(s, i, e)) = ToSet(s) \cup {e}
  <1> DEFINE r == InsertAt(s, i, e)
  <1>1. /\ r \in Seq(S) /\ Len(r) = Len(s) + 1
        /\ \A j \in 1..(Len(s) + 1) : r[j] = IF j < i THEN s[j] ELSE IF j = i THEN e ELSE s[j-1]
    BY InsertAtSeq, InsertAtElements
  <1> HIDE DEF r
  <1>2. ASSUME NEW x \in ToSet(r)
        PROVE  x \in ToSet(s) \cup {e}
    BY <1>1 DEF ToSet
  <1>3. e \in ToSet(r)
    BY <1>1 DEF ToSet
  <1>4. ASSUME NEW x \in ToSet(s)
        PROVE  x \in ToSet(r)
    <2>1. PICK k \in 1..Len(s) : s[k] = x
      BY DEF ToSet
    <2>2. PICK j \in 1..Len(r) : r[j] = x
      <3>1. CASE k < i
        BY <1>1, <2>1, <3>1
      <3>2. CASE ~(k < i)
        <4>1. k + 1 \in 1..Len(r) /\ r[k+1] = x
          BY <1>1, <2>1, <3>2
        <4> QED BY <4>1
      <3> QED BY <3>1, <3>2
    <2> QED BY <1>1, <2>2 DEF ToSet
  <1> QED BY <1>2, <1>3, <1>4 DEF r

LEMMA InsertAtNoRepeats ==
    ASSUME NEW S, NEW s \in Seq(S), NEW i \in 1..(Len(s) + 1), NEW e \in S,
           NoRepeats(s), e \notin ToSet(s)
    PROVE  NoRepeats(InsertAt(s, i, e))
  <1> DEFINE r == InsertAt(s, i, e)
  <1>1. /\ Len(r) = Len(s) + 1
        /\ \A j \in 1..(Len(s) + 1) : r[j] = IF j < i THEN s[j] ELSE IF j = i THEN e ELSE s[j-1]
    BY InsertAtElements
  <1>2. \A k \in 1..Len(s) : s[k] # e
    BY DEF ToSet
  <1> HIDE DEF r
  <1>3. ASSUME NEW j \in 1..Len(r), NEW k \in 1..Len(r), r[j] = r[k], j < k
        PROVE  FALSE
    <2>1. CASE j < i /\ k < i
      BY <1>1, <1>3, <2>1 DEF NoRepeats
    <2>2. CASE j < i /\ k > i
      <3>1. k - 1 \in 1..Len(s) /\ j \in 1..Len(s) /\ j # k - 1 /\ s[j] = s[k-1]
        BY <1>1, <1>3, <2>2
      <3> QED BY <3>1 DEF NoRepeats
    <2>3. CASE j > i
      <3>1. k - 1 \in 1..Len(s) /\ j - 1 \in 1..Len(s) /\ j - 1 # k - 1 /\ s[j-1] = s[k-1]
        BY <1>1, <1>3, <2>3
      <3> QED BY <3>1 DEF NoRepeats
    <2>4. CASE j = i \/ k = i
      <3>1. \A m \in 1..(Len(s) + 1) : m > i => m - 1 \in 1..Len(s)
        OBVIOUS
      <3> QED BY <1>1, <1>2, <1>3, <2>4, <3>1
    <2> QED BY <1>1, <2>1, <2>2, <2>3, <2>4
  <1>4. NoRepeats(r)
    <2>1. Len(r) \in Nat
      BY <1>1
    <2> QED BY <1>3, <2>1 DEF NoRepeats
  <1> QED BY <1>4 DEF r

LEMMA RemoveAtSet ==
    ASSUME NEW S, NEW s \in Seq(S), NEW i \in 1..Len(s), NoRepeats(s)
    PROVE  /\ ToSet(RemoveAt(s, i)) = ToSet(s) \ {s[i]}
           /\ NoRepeats(RemoveAt(s, i))
  <1> DEFINE r == RemoveAt(s, i)
  <1>1. /\ r \in Seq(S) /\ Len(r) = Len(s) - 1
        /\ \A j \in 1..(Len(s) - 1) : r[j] = IF j < i THEN s[j] ELSE s[j+1]
    BY RemoveAtSeq, RemoveAtElements
  <1> HIDE DEF r
  <1>2. NoRepeats(r)
    <2> SUFFICES ASSUME NEW j \in 1..Len(r), NEW k \in 1..Len(r), r[j] = r[k]
                 PROVE  j = k
      BY DEF NoRepeats
    <2>1. PICK j1 \in 1..Len(s), k1 \in 1..Len(s) :
             /\ r[j] = s[j1] /\ j1 = IF j < i THEN j ELSE j + 1
             /\ r[k] = s[k1] /\ k1 = IF k < i THEN k ELSE k + 1
      <3>1. Len(s) \in Nat /\ j \in 1..(Len(s) - 1) /\ k \in 1..(Len(s) - 1)
        BY <1>1
      <3> QED BY <1>1, <3>1
    <2>2. j1 = k1
      BY <2>1 DEF NoRepeats
    <2> QED BY <2>1, <2>2
  <1>3. ASSUME NEW x \in ToSet(r)
        PROVE  x \in ToSet(s) \ {s[i]}
    BY <1>1 DEF ToSet, NoRepeats
  <1>4. ASSUME NEW x \in ToSet(s) \ {s[i]}
        PROVE  x \in ToSet(r)
    <2>1. PICK k \in 1..Len(s) : s[k] = x /\ k # i
      BY DEF ToSet
    <2>2. PICK j \in 1..Len(r) : r[j] = x
      <3>1. CASE k < i
        BY <1>1, <2>1, <3>1
      <3>2. CASE ~(k < i)
        <4>1. k - 1 \in 1..Len(r) /\ r[k-1] = x
          BY <1>1, <2>1, <3>2
        <4> QED BY <4>1
      <3> QED BY <3>1, <3>2
    <2> QED BY <1>1, <2>2 DEF ToSet
  <1> QED BY <1>2, <1>3, <1>4 DEF r

LEMMA AppendSet ==
    ASSUME NEW S, NEW s \in Seq(S), NEW e \in S
    PROVE  /\ ToSet(Append(s, e)) = ToSet(s) \cup {e}
           /\ NoRepeats(s) /\ e \notin ToSet(s) => NoRepeats(Append(s, e))
  BY SMTT(30) DEF ToSet, NoRepeats

LEMMA PrependSet ==
    ASSUME NEW S, NEW s \in Seq(S), NEW e \in S
    PROVE  /\ <<e>> \o s \in Seq(S)
           /\ ToSet(<<e>> \o s) = ToSet(s) \cup {e}
           /\ NoRepeats(s) /\ e \notin ToSet(s) => NoRepeats(<<e>> \o s)
  <1> DEFINE r == <<e>> \o s
  <1>1. r \in Seq(S) /\ Len(r) = Len(s) + 1 /\ r[1] = e /\ \A j \in 2..(Len(s) + 1) : r[j] = s[j-1]
    <2>1. <<e>> \in Seq(S) /\ Len(<<e>>) = 1
      OBVIOUS
    <2> QED BY <2>1, ConcatProperties
  <1> HIDE DEF r
  <1>2. ASSUME NEW x \in ToSet(r) PROVE x \in ToSet(s) \cup {e}
    BY <1>1 DEF ToSet
  <1>3. ASSUME NEW x \in ToSet(s) PROVE x \in ToSet(r)
    <2>1. PICK k \in 1..Len(s) : s[k] = x
      BY DEF ToSet
    <2>2. k + 1 \in 1..Len(r) /\ r[k+1] = x
      BY <1>1, <2>1
    <2> QED BY <1>1, <2>2 DEF ToSet
  <1>4. e \in ToSet(r)
    BY <1>1 DEF ToSet
  <1>5. ASSUME NoRepeats(s), e \notin ToSet(s) PROVE NoRepeats(r)
    <2>1. \A k \in 1..Len(s) : s[k] # e
      BY <1>5 DEF ToSet
    <2>2. ASSUME NEW j \in 1..Len(r), NEW k \in 1..Len(r), r[j] = r[k], j < k
          PROVE  FALSE
      <3>1. k - 1 \in 1..Len(s) /\ r[k] = s[k-1]
        BY <1>1, <2>2
      <3>2. CASE j = 1
        BY <1>1, <2>1, <2>2, <3>1, <3>2
      <3>3. CASE j # 1
        <4>1. j - 1 \in 1..Len(s) /\ r[j] = s[j-1] /\ j - 1 # k - 1
          BY <1>1, <2>2, <3>3
        <4> QED BY <1>5, <2>2, <3>1, <4>1 DEF NoRepeats
      <3> QED BY <3>2, <3>3
    <2>3. Len(r) \in Nat
      BY <1>1
    <2> QED BY <2>2, <2>3 DEF NoRepeats
  <1> QED BY <1>1, <1>2, <1>3, <1>4, <1>5 DEF r

LEMMA HeadTailSet ==
    ASSUME NEW S, NEW s \in Seq(S), s # <<>>
    PROVE  ToSet(s) \subseteq {Head(s)} \cup ToSet(Tail(s))
  <1> SUFFICES ASSUME NEW i \in 1..Len(s) PROVE s[i] \in {Head(s)} \cup ToSet(Tail(s))
    BY DEF ToSet
  <1>1. CASE i = 1
    BY <1>1
  <1>2. CASE i # 1
    <2>1. i - 1 \in DOMAIN Tail(s) /\ Tail(s)[i-1] = s[i]
      BY <1>2
    <2> QED BY <2>1 DEF ToSet
  <1> QED BY <1>1, <1>2

-----------------------------------------------------------------------------
(* Finite sets and sums over them.                                         *)

LEMMA SubsetSizes ==
    ASSUME NEW S, IsFiniteSet(S)
    PROVE  \A s \in SUBSET S :
                /\ IsFiniteSet(s)
                /\ Cardinality(s) \in 0..Cardinality(S)
                /\ Cardinality(s) = 0 <=> s = {}
                /\ \A x \in s : Cardinality(s \ {x}) = Cardinality(s) - 1
  <1> SUFFICES ASSUME NEW s \in SUBSET S
               PROVE  /\ IsFiniteSet(s)
                      /\ Cardinality(s) \in 0..Cardinality(S)
                      /\ Cardinality(s) = 0 <=> s = {}
                      /\ \A x \in s : Cardinality(s \ {x}) = Cardinality(s) - 1
    OBVIOUS
  <1>1. IsFiniteSet(s) /\ Cardinality(s) <= Cardinality(S)
    BY FS_Subset
  <1>2. Cardinality(S) \in Nat /\ Cardinality(s) \in Nat
    BY <1>1, FS_CardinalityType
  <1>3. Cardinality(s) = 0 <=> s = {}
    BY <1>1, FS_EmptySet, Zenon
  <1>4. ASSUME NEW x \in s
        PROVE  Cardinality(s \ {x}) = Cardinality(s) - 1
    BY <1>1, FS_RemoveElement
  <1> QED BY <1>1, <1>2, <1>3, <1>4

\* What holds of {}, and of a set when it holds of the set without one element, holds of
\* every subset of a finite set.
LEMMA SubsetInduction ==
    ASSUME NEW S, IsFiniteSet(S), NEW D, {} \in D,
           \A s \in SUBSET S : s # {} /\ (\A x \in s : s \ {x} \in D) => s \in D
    PROVE  \A s \in SUBSET S : s \in D
  <1> DEFINE N == Cardinality(S)
             E == {n \in 0..N : \A s \in SUBSET S : Cardinality(s) = n => s \in D}
  <1>1. N \in Nat
    BY FS_CardinalityType
  <1>2. \A s \in SUBSET S :
            /\ Cardinality(s) \in 0..N
            /\ Cardinality(s) = 0 <=> s = {}
            /\ \A x \in s : Cardinality(s \ {x}) = Cardinality(s) - 1
    BY SubsetSizes
  <1>3. 0 \in E
    <2> HIDE DEF N
    <2> QED BY <1>1, <1>2
  <1>4. ASSUME NEW n \in 1..N, n - 1 \in E
        PROVE  n \in E
    <2>1. ASSUME NEW s \in SUBSET S, Cardinality(s) = n
          PROVE  s \in D
      <3>1. s # {}
        BY <1>2, <2>1
      <3>2. ASSUME NEW x \in s
            PROVE  s \ {x} \in D
        <4>1. Cardinality(s \ {x}) = n - 1
          BY <1>2, <2>1
        <4> QED BY <1>4, <4>1
      <3> QED BY <3>1, <3>2
    <2> QED BY <2>1
  <1> HIDE DEF E, N
  <1>5. \A n \in 0..N : n \in E
    BY <1>1, <1>3, <1>4, BoundedInduction
  <1>6. ASSUME NEW s \in SUBSET S
        PROVE  s \in D
    <2>1. Cardinality(s) \in E
      BY <1>2, <1>5
    <2> QED BY <2>1 DEF E
  <1> QED BY <1>6

AnyOf(s) == CHOOSE x \in s : TRUE

\* sum gives each subset of S the sum of w over it, taken one element at a time.
SumTable(sum, w, S) ==
    /\ sum \in [SUBSET S -> Nat]
    /\ sum[{}] = 0
    /\ \A s \in (SUBSET S) \ {{}} :
            AnyOf(s) \in s /\ sum[s] = w[AnyOf(s)] + sum[s \ {AnyOf(s)}]

\* SumFunctionOnSet has such a table.
LEMMA SumHasTable ==
    ASSUME NEW S, IsFiniteSet(S), NEW w, \A x \in S : w[x] \in Nat
    PROVE  \E sum : SumTable(sum, w, S) /\ SumFunctionOnSet(w, S) = sum[S]
  <1> DEFINE N == Cardinality(S)
             Next(s, f) == IF s = {} THEN 0 ELSE w[AnyOf(s)] + f[s \ {AnyOf(s)}]
             UpTo(f, n) == \A s \in SUBSET S : Cardinality(s) <= n => f[s] = Next(s, f)
             E == {n \in 0..N : \E f \in [SUBSET S -> Nat] : UpTo(f, n)}
             Fits(f) == f = [s \in SUBSET S |-> Next(s, f)]
             table == CHOOSE f : Fits(f)
  <1>1. N \in Nat
    BY FS_CardinalityType
  <1>2. \A s \in SUBSET S :
            /\ Cardinality(s) \in 0..N
            /\ Cardinality(s) = 0 <=> s = {}
            /\ \A x \in s : Cardinality(s \ {x}) = Cardinality(s) - 1
    BY SubsetSizes
  <1>3. \A s \in (SUBSET S) \ {{}} :
            /\ AnyOf(s) \in s /\ AnyOf(s) \in S /\ s \ {AnyOf(s)} \in SUBSET S
            /\ Cardinality(s \ {AnyOf(s)}) = Cardinality(s) - 1
    <2> SUFFICES ASSUME NEW s \in (SUBSET S) \ {{}}
                 PROVE  /\ AnyOf(s) \in s /\ AnyOf(s) \in S /\ s \ {AnyOf(s)} \in SUBSET S
                        /\ Cardinality(s \ {AnyOf(s)}) = Cardinality(s) - 1
      OBVIOUS
    <2>1. AnyOf(s) \in s
      <3>1. \E x : x \in s
        OBVIOUS
      <3> QED BY <3>1 DEF AnyOf
    <2>2. \A x \in s : Cardinality(s \ {x}) = Cardinality(s) - 1
      BY <1>2
    <2> QED BY <2>1, <2>2
  <1>4. ASSUME NEW f \in [SUBSET S -> Nat], NEW s \in SUBSET S
        PROVE  Next(s, f) \in Nat
    <2>1. CASE s = {}
      BY <2>1
    <2>2. CASE s # {}
      <3>1. w[AnyOf(s)] \in Nat /\ f[s \ {AnyOf(s)}] \in Nat
        BY <1>3, <2>2
      <3> QED BY <2>2, <3>1
    <2> QED BY <2>1, <2>2
  <1> HIDE DEF N, Next
  <1>5. 0 \in E
    <2> DEFINE f == [s \in SUBSET S |-> 0]
    <2>1. f \in [SUBSET S -> Nat]
      OBVIOUS
    <2>2. UpTo(f, 0)
      <3>1. \A s \in SUBSET S : Cardinality(s) <= 0 => s = {}
        BY <1>1, <1>2
      <3> QED BY <3>1 DEF Next
    <2> HIDE DEF f, UpTo
    <2> QED BY <1>1, <2>1, <2>2
  <1>6. ASSUME NEW n \in 1..N, n - 1 \in E
        PROVE  n \in E
    <2>1. PICK f \in [SUBSET S -> Nat] : UpTo(f, n - 1)
      BY <1>6
    <2> DEFINE g == [s \in SUBSET S |-> IF Cardinality(s) = n THEN Next(s, f) ELSE f[s]]
    <2>2. g \in [SUBSET S -> Nat]
      BY <1>4
    <2>3. ASSUME NEW s \in SUBSET S, Cardinality(s) <= n
          PROVE  g[s] = Next(s, f) /\ Next(s, g) = Next(s, f)
      <3>1. g[s] = Next(s, f)
        <4>1. CASE Cardinality(s) = n
          BY <4>1
        <4>2. CASE Cardinality(s) # n
          <5>1. Cardinality(s) <= n - 1
            BY <1>1, <1>2, <2>3, <4>2
          <5> QED BY <2>1, <4>2, <5>1
        <4> QED BY <4>1, <4>2
      <3>2. Next(s, g) = Next(s, f)
        <4>1. CASE s = {}
          BY <4>1 DEF Next
        <4>2. CASE s # {}
          <5>1. /\ s \ {AnyOf(s)} \in SUBSET S
                /\ Cardinality(s \ {AnyOf(s)}) # n
            <6>1. /\ s \ {AnyOf(s)} \in SUBSET S
                  /\ Cardinality(s \ {AnyOf(s)}) = Cardinality(s) - 1
              BY <1>3, <4>2
            <6>2. Cardinality(s) \in 0..N
              BY <1>2
            <6> QED BY <1>1, <2>3, <6>1, <6>2
          <5>2. g[s \ {AnyOf(s)}] = f[s \ {AnyOf(s)}]
            BY <5>1
          <5> HIDE DEF g
          <5> QED BY <4>2, <5>2 DEF Next
        <4> QED BY <4>1, <4>2
      <3> QED BY <3>1, <3>2
    <2> HIDE DEF g
    <2>4. UpTo(g, n)
      BY <2>3
    <2> HIDE DEF UpTo
    <2> QED BY <2>2, <2>4
  <1>7. \A n \in 0..N : n \in E
    <2> HIDE DEF E
    <2> QED BY <1>1, <1>5, <1>6, BoundedInduction
  <1>8. PICK f \in [SUBSET S -> Nat] : UpTo(f, N)
    <2>1. N \in 0..N
      BY <1>1
    <2> HIDE DEF UpTo
    <2> QED BY <1>7, <2>1
  <1>9. Fits(f)
    <2>1. \A s \in SUBSET S : f[s] = Next(s, f)
      BY <1>1, <1>2, <1>8
    <2> QED BY <2>1
  <1>10. Fits(table)
    <2> HIDE DEF Fits
    <2> QED BY <1>9
  <1>11. SumFunctionOnSet(w, S) = table[S]
    BY DEF SumFunctionOnSet, FoldFunctionOnSet, MapThenFoldSet, AnyOf, Next
  <1> HIDE DEF table
  <1>12. table = [s \in SUBSET S |-> Next(s, table)]
    BY <1>10
  <1>13. \A s \in SUBSET S : table[s] = Next(s, table)
    BY <1>12
  <1>e. {} \in SUBSET S /\ table[{}] = 0
    <2>1. {} \in SUBSET S
      OBVIOUS
    <2>2. table[{}] = Next({}, table)
      <3> HIDE DEF Next
      <3> QED BY <1>13, <2>1
    <2> QED BY <2>1, <2>2 DEF Next
  <1> DEFINE D == {s \in SUBSET S : table[s] \in Nat}
  <1>14. \A s \in SUBSET S : s \in D
    <2>1. {} \in D
      BY <1>e
    <2>2. ASSUME NEW s \in SUBSET S, s # {}, \A x \in s : s \ {x} \in D
          PROVE  s \in D
      <3>1. AnyOf(s) \in s /\ w[AnyOf(s)] \in Nat /\ table[s \ {AnyOf(s)}] \in Nat
        BY <1>3, <2>2
      <3>2. table[s] = w[AnyOf(s)] + table[s \ {AnyOf(s)}]
        BY <1>13, <2>2 DEF Next
      <3> QED BY <3>1, <3>2
    <2> HIDE DEF D
    <2> QED BY <2>1, <2>2, SubsetInduction
  <1>15. SumTable(table, w, S)
    <2>1. table \in [SUBSET S -> Nat]
      BY <1>12, <1>14
    <2>2. table[{}] = 0
      BY <1>e
    <2>3. ASSUME NEW s \in (SUBSET S) \ {{}}
          PROVE  AnyOf(s) \in s /\ table[s] = w[AnyOf(s)] + table[s \ {AnyOf(s)}]
      BY <1>3, <1>13 DEF Next
    <2> QED BY <2>1, <2>2, <2>3 DEF SumTable
  <1> QED BY <1>11, <1>15

LEMMA ImageFinite ==
    ASSUME NEW E, IsFiniteSet(E), NEW f, E \subseteq DOMAIN f
    PROVE  IsFiniteSet({f[e] : e \in E})
  <1> DEFINE T == {f[e] : e \in E}
             g == [e \in E |-> f[e]]
  <1>1. g \in Surjection(E, T)
    BY DEF Surjection
  <1> QED BY <1>1, FS_Surjection

\* The elements of E whose kind is in S.
OfKind(E, kind, S) == {e \in E : kind[e] \in S}

\* When w counts, for each x of S, the elements of E whose kind is x, its sum counts those
\* whose kind is in S.
LEMMA SumCounts ==
    ASSUME NEW S, IsFiniteSet(S), NEW E, IsFiniteSet(E), NEW kind, NEW w,
           \A x \in S : w[x] = Cardinality(OfKind(E, kind, {x}))
    PROVE  SumFunctionOnSet(w, S) = Cardinality(OfKind(E, kind, S))
  <1> DEFINE Of(s) == OfKind(E, kind, s)
             One(x) == OfKind(E, kind, {x})
  <1>1. ASSUME NEW F \in SUBSET E
        PROVE  IsFiniteSet(F) /\ Cardinality(F) \in Nat
    BY FS_Subset, FS_CardinalityType
  <1>2. \A x \in S : w[x] \in Nat
    BY <1>1 DEF OfKind
  <1>3. PICK sum : SumTable(sum, w, S) /\ SumFunctionOnSet(w, S) = sum[S]
    BY <1>2, SumHasTable
  <1> DEFINE D == {s \in SUBSET S : sum[s] = Cardinality(Of(s))}
  <1>4. {} \in D
    <2>1. Of({}) = {}
      BY DEF OfKind
    <2>2. sum[{}] = 0 /\ Cardinality({}) = 0
      BY <1>3, FS_EmptySet DEF SumTable
    <2> HIDE DEF Of
    <2> QED BY <2>1, <2>2
  <1>5. ASSUME NEW s \in SUBSET S, s # {}, \A x \in s : s \ {x} \in D
        PROVE  s \in D
    <2>1. PICK x \in s : sum[s] = w[x] + sum[s \ {x}]
      BY <1>3, <1>5 DEF SumTable
    <2>2. sum[s \ {x}] = Cardinality(Of(s \ {x}))
      BY <1>5
    <2>3. w[x] = Cardinality(One(x))
      OBVIOUS
    <2>4. Of(s) = One(x) \cup Of(s \ {x}) /\ One(x) \cap Of(s \ {x}) = {}
      BY DEF OfKind
    <2>5. One(x) \in SUBSET E /\ Of(s \ {x}) \in SUBSET E
      BY DEF OfKind
    <2> HIDE DEF Of, One
    <2>6. /\ IsFiniteSet(One(x)) /\ IsFiniteSet(Of(s \ {x}))
          /\ Cardinality(One(x)) \in Nat /\ Cardinality(Of(s \ {x})) \in Nat
      BY <1>1, <2>5
    <2>7. Cardinality(One(x) \cup Of(s \ {x}))
            = Cardinality(One(x)) + Cardinality(Of(s \ {x}))
                - Cardinality(One(x) \cap Of(s \ {x}))
      BY <2>6, FS_Union
    <2>8. Cardinality(One(x) \cap Of(s \ {x})) = 0
      BY <2>4, FS_EmptySet, Zenon
    <2>9. Cardinality(Of(s)) = Cardinality(One(x) \cup Of(s \ {x}))
      BY <2>4, Zenon
    <2>10. sum[s] = Cardinality(Of(s))
      BY <2>1, <2>2, <2>3, <2>6, <2>7, <2>8, <2>9
    <2> QED BY <2>10
  <1> HIDE DEF D
  <1>6. S \in D
    <2>1. \A s \in SUBSET S : s \in D
      BY <1>4, <1>5, SubsetInduction
    <2> QED BY <2>1
  <1> QED BY <1>3, <1>6 DEF D

\* Sums compare and add as their terms do.
LEMMA SumMonotone ==
    ASSUME NEW S, IsFiniteSet(S), NEW v, NEW w,
           \A x \in S : v[x] \in Nat /\ w[x] \in Nat /\ v[x] <= w[x]
    PROVE  SumFunctionOnSet(v, S) <= SumFunctionOnSet(w, S)
  <1>1. PICK f : SumTable(f, v, S) /\ SumFunctionOnSet(v, S) = f[S]
    BY SumHasTable
  <1>2. PICK g : SumTable(g, w, S) /\ SumFunctionOnSet(w, S) = g[S]
    BY SumHasTable
  <1> DEFINE D == {s \in SUBSET S : f[s] <= g[s]}
  <1>3. {} \in D
    BY <1>1, <1>2 DEF SumTable
  <1>4. ASSUME NEW s \in SUBSET S, s # {}, \A x \in s : s \ {x} \in D
        PROVE  s \in D
    <2>1. PICK x \in s : f[s] = v[x] + f[s \ {x}] /\ g[s] = w[x] + g[s \ {x}]
      BY <1>1, <1>2, <1>4 DEF SumTable
    <2>2. /\ f[s \ {x}] <= g[s \ {x}]
          /\ f[s \ {x}] \in Nat /\ g[s \ {x}] \in Nat
      BY <1>1, <1>2, <1>4 DEF SumTable
    <2>3. f[s] <= g[s]
      BY <2>1, <2>2
    <2> QED BY <2>3
  <1> HIDE DEF D
  <1>5. S \in D
    <2>1. \A s \in SUBSET S : s \in D
      BY <1>3, <1>4, SubsetInduction
    <2> QED BY <2>1
  <1> QED BY <1>1, <1>2, <1>5 DEF D

LEMMA SumAdds ==
    ASSUME NEW S, IsFiniteSet(S), NEW u, NEW v, NEW w,
           \A x \in S : v[x] \in Nat /\ w[x] \in Nat /\ u[x] = v[x] + w[x]
    PROVE  SumFunctionOnSet(u, S) = SumFunctionOnSet(v, S) + SumFunctionOnSet(w, S)
  <1>1. PICK e : SumTable(e, u, S) /\ SumFunctionOnSet(u, S) = e[S]
    BY SumHasTable
  <1>2. PICK f : SumTable(f, v, S) /\ SumFunctionOnSet(v, S) = f[S]
    BY SumHasTable
  <1>3. PICK g : SumTable(g, w, S) /\ SumFunctionOnSet(w, S) = g[S]
    BY SumHasTable
  <1> DEFINE D == {s \in SUBSET S : e[s] = f[s] + g[s]}
  <1>4. {} \in D
    BY <1>1, <1>2, <1>3 DEF SumTable
  <1>5. ASSUME NEW s \in SUBSET S, s # {}, \A x \in s : s \ {x} \in D
        PROVE  s \in D
    <2>1. PICK x \in s : /\ e[s] = u[x] + e[s \ {x}]
                         /\ f[s] = v[x] + f[s \ {x}] /\ g[s] = w[x] + g[s \ {x}]
      BY <1>1, <1>2, <1>3, <1>5 DEF SumTable
    <2>2. /\ e[s \ {x}] = f[s \ {x}] + g[s \ {x}]
          /\ f[s \ {x}] \in Nat /\ g[s \ {x}] \in Nat
      BY <1>2, <1>3, <1>5 DEF SumTable
    <2>3. e[s] = f[s] + g[s]
      BY <2>1, <2>2
    <2> QED BY <2>3
  <1> HIDE DEF D
  <1>6. S \in D
    <2>1. \A s \in SUBSET S : s \in D
      BY <1>4, <1>5, SubsetInduction
    <2> QED BY <2>1
  <1> QED BY <1>1, <1>2, <1>3, <1>6 DEF D

\* A sum is bounded by how many terms it has and by what bounds each.
LEMMA SumBounded ==
    ASSUME NEW S, IsFiniteSet(S), NEW w, NEW m \in Nat,
           \A x \in S : w[x] \in Nat /\ w[x] <= m
    PROVE  SumFunctionOnSet(w, S) <= Cardinality(S) * m
  <1>1. PICK f : SumTable(f, w, S) /\ SumFunctionOnSet(w, S) = f[S]
    BY SumHasTable
  <1> DEFINE D == {s \in SUBSET S : f[s] <= Cardinality(s) * m}
  <1>2. {} \in D
    <2>1. Cardinality({}) = 0 /\ 0 * m = 0
      BY FS_EmptySet
    <2> QED BY <1>1, <2>1 DEF SumTable
  <1>3. ASSUME NEW s \in SUBSET S, s # {}, \A x \in s : s \ {x} \in D
        PROVE  s \in D
    <2>1. PICK x \in s : f[s] = w[x] + f[s \ {x}]
      BY <1>1, <1>3 DEF SumTable
    <2>2. /\ f[s \ {x}] <= Cardinality(s \ {x}) * m
          /\ f[s \ {x}] \in Nat /\ w[x] \in Nat /\ w[x] <= m
      BY <1>1, <1>3 DEF SumTable
    <2>3. PICK n \in Nat : n = Cardinality(s \ {x}) /\ Cardinality(s) = n + 1
      <3>1. /\ IsFiniteSet(s \ {x}) /\ Cardinality(s) \in Nat
            /\ Cardinality(s \ {x}) = Cardinality(s) - 1
        BY SubsetSizes
      <3> QED BY <3>1, FS_CardinalityType
    <2>4. (n + 1) * m = n * m + m /\ n * m \in Nat
      OBVIOUS
    <2>5. PICK a \in Nat : a = n * m
      BY <2>4
    <2>6. f[s] <= a + m
      BY <2>1, <2>2, <2>3, <2>5
    <2>7. f[s] <= Cardinality(s) * m
      BY <2>3, <2>4, <2>5, <2>6
    <2> QED BY <2>7
  <1> HIDE DEF D
  <1>4. S \in D
    <2>1. \A s \in SUBSET S : s \in D
      BY <1>2, <1>3, SubsetInduction
    <2> QED BY <2>1
  <1> QED BY <1>1, <1>4 DEF D
=============================================================================
