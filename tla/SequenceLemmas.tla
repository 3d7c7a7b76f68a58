--------------------------- MODULE SequenceLemmas ---------------------------
(***************************************************************************)
(* What the sequence operators the host's model is built from return.      *)
(* FlattenSeq is a recursive function; its lemma goes by the least index   *)
(* at which it would fail.                                                 *)
(***************************************************************************)
EXTENDS Integers, FiniteSets, Sequences, SequencesExt, TLAPS,
        FiniteSetTheorems, SequenceTheorems, WellFoundedInduction

\* A non-empty set of naturals has a least element: what induction is made
\* from here.
LEMMA Least ==
  ASSUME NEW T \in SUBSET Nat, T # {}
  PROVE  \E x \in T : \A y \in T : x <= y
<1>1. IsWellFoundedOn(OpToRel(<, Nat), Nat)
  BY NatLessThanWellFounded
<1>2. PICK x \in T : \A y \in T : ~ (<<y, x>> \in OpToRel(<, Nat))
  BY <1>1, WFMin
<1>3. \A y \in T : ~ (y < x)
  BY <1>2 DEF OpToRel
<1> QED BY <1>3

\* The minimum of a non-empty set of naturals is one of its elements.
LEMMA MinType ==
  ASSUME NEW T \in SUBSET Nat, T # {}
  PROVE  Min(T) \in T
BY Least DEF Min

LEMMA SingletonType ==
  ASSUME NEW S, NEW e \in S
  PROVE  <<e>> \in Seq(S)
OBVIOUS

\* A function on an initial interval is a sequence.
LEMMA FunctionIsSeq ==
  ASSUME NEW S, NEW n \in Nat, NEW f \in [1..n -> S]
  PROVE  f \in Seq(S) /\ DOMAIN f = 1..n
OBVIOUS

\* The elements of a finite set, listed, are a sequence over the set.
LEMMA ListType ==
  ASSUME NEW S, IsFiniteSet(S)
  PROVE  SetToSeq(S) \in Seq(S)
<1> DEFINE n == Cardinality(S)
<1>1. n \in Nat /\ ExistsBijection(1..n, S)
  BY FS_CardinalityType
<1>2. PICK f \in [1..n -> S] : IsInjective(f)
  BY <1>1 DEF ExistsBijection, Bijection, Injection, IsInjective
<1>3. SetToSeq(S) \in [1..n -> S]
  BY <1>2 DEF SetToSeq
<1> QED BY <1>1, <1>3, SeqDef

\* f runs through the concatenations of the first i sequences of q.
Unrolled(f, q, n) ==
    f = [i \in 1..n |-> IF i = 1 THEN q[i] ELSE f[i - 1] \o q[i]]

\* The recursive function of FlattenSeq exists for every length.
LEMMA UnrolledExists ==
  ASSUME NEW q, NEW n \in Nat
  PROVE  \E f : Unrolled(f, q, n)
<1> DEFINE Bad == {k \in Nat : ~ \E f : Unrolled(f, q, k)}
<1> SUFFICES ASSUME Bad # {} PROVE FALSE
  OBVIOUS
<1>1. PICK k \in Bad : \A j \in Bad : k <= j
  BY Least
<1>2. CASE k = 0
  <2>1. Unrolled([i \in 1..k |-> 0], q, k)
    BY <1>2 DEF Unrolled
  <2> QED BY <2>1
<1>3. CASE k # 0
  <2>1. k - 1 \in Nat /\ k - 1 \notin Bad
    BY <1>1, <1>3
  <2>2. PICK f : Unrolled(f, q, k - 1)
    BY <2>1
  <2> DEFINE g == [i \in 1..k |->
                     IF i = k THEN IF i = 1 THEN q[i] ELSE f[i - 1] \o q[i] ELSE f[i]]
  <2>3. \A i \in 1..k : g[i] = IF i = 1 THEN q[i] ELSE g[i - 1] \o q[i]
    <3> TAKE i \in 1..k
    <3>1. CASE i = k
      <4>1. CASE i = 1
        BY <4>1, <3>1
      <4>2. CASE i # 1
        <5>1. i - 1 \in 1..k /\ i - 1 # k
          BY <4>2, <3>1, <2>1
        <5>2. g[i - 1] = f[i - 1]
          BY <5>1
        <5> QED BY <5>2, <3>1, <4>2
      <4> QED BY <4>1, <4>2
    <3>2. CASE i # k
      <4>1. i \in 1..(k - 1) /\ g[i] = f[i]
        BY <3>2, <2>1
      <4>2. f[i] = IF i = 1 THEN q[i] ELSE f[i - 1] \o q[i]
        BY <4>1, <2>2 DEF Unrolled
      <4>3. i # 1 => i - 1 \in 1..k /\ i - 1 # k
        BY <3>2, <2>1
      <4>4. i # 1 => g[i - 1] = f[i - 1]
        BY <4>3
      <4> QED BY <4>1, <4>2, <4>4
    <3> QED BY <3>1, <3>2
  <2>4. Unrolled(g, q, k)
    BY <2>3 DEF Unrolled
  <2> QED BY <2>4
<1> QED BY <1>2, <1>3

\* Every one of the concatenations is a sequence over the set.
LEMMA UnrolledType ==
  ASSUME NEW S, NEW q \in Seq(Seq(S)), NEW f, Unrolled(f, q, Len(q))
  PROVE  \A i \in 1..Len(q) : f[i] \in Seq(S)
<1> DEFINE n == Len(q)
           Bad == {i \in 1..n : f[i] \notin Seq(S)}
<1>1. SUFFICES ASSUME Bad # {} PROVE FALSE
  OBVIOUS
<1>2. n \in Nat
  OBVIOUS
<1>3. PICK k \in Bad : \A j \in Bad : k <= j
  <2>1. Bad \in SUBSET Nat OBVIOUS
  <2> QED BY <2>1, <1>1, Least
<1>4. f[k] = IF k = 1 THEN q[k] ELSE f[k - 1] \o q[k]
  BY DEF Unrolled
<1>5. q[k] \in Seq(S)
  OBVIOUS
<1>6. k # 1 => k - 1 \in 1..n /\ k - 1 \notin Bad
  BY <1>2, <1>3
<1>7. k # 1 => f[k - 1] \in Seq(S)
  BY <1>6
<1>8. f[k] \in Seq(S)
  BY <1>4, <1>5, <1>7
<1> QED BY <1>8

\* What FlattenSeq computes.
LEMMA FlattenUnrolled ==
  ASSUME NEW S, NEW q \in Seq(Seq(S)), Len(q) # 0
  PROVE  \E f : Unrolled(f, q, Len(q)) /\ FlattenSeq(q) = f[Len(q)]
<1> DEFINE n == Len(q)
           f == CHOOSE f : Unrolled(f, q, n)
<1>1. FlattenSeq(q) = f[n]
  BY DEF FlattenSeq, Unrolled
<1>2. n \in Nat
  OBVIOUS
<1> HIDE DEF n
<1>3. Unrolled(f, q, n)
  BY <1>2, UnrolledExists
<1> USE DEF n
<1> HIDE DEF f
<1> QED BY <1>1, <1>3

\* The concatenation of sequences over a set is a sequence over the set.
LEMMA FlattenType ==
  ASSUME NEW S, NEW q \in Seq(Seq(S))
  PROVE  FlattenSeq(q) \in Seq(S)
<1>1. CASE Len(q) = 0
  BY <1>1 DEF FlattenSeq
<1>2. CASE Len(q) # 0
  <2>1. PICK f : Unrolled(f, q, Len(q)) /\ FlattenSeq(q) = f[Len(q)]
    BY <1>2, FlattenUnrolled
  <2>2. Len(q) \in 1..Len(q)
    BY <1>2
  <2> QED BY <2>1, <2>2, UnrolledType
<1> QED BY <1>1, <1>2

-----------------------------------------------------------------------------
(* Membership in a sequence.                                               *)

Has(q, e) == \E i \in DOMAIN q : q[i] = e

LEMMA HasConcat ==
  ASSUME NEW S, NEW p \in Seq(S), NEW q \in Seq(S), NEW e
  PROVE  Has(p \o q, e) <=> Has(p, e) \/ Has(q, e)
<1>1. /\ DOMAIN p = 1..Len(p) /\ DOMAIN q = 1..Len(q) /\ Len(p) \in Nat /\ Len(q) \in Nat
      /\ DOMAIN (p \o q) = 1..(Len(p) + Len(q))
      /\ \A i \in 1..Len(p) : (p \o q)[i] = p[i]
      /\ \A i \in 1..Len(q) : (p \o q)[Len(p) + i] = q[i]
  OBVIOUS
<1>2. ASSUME Has(p \o q, e) PROVE Has(p, e) \/ Has(q, e)
  <2>1. PICK i \in 1..(Len(p) + Len(q)) : (p \o q)[i] = e
    BY <1>1, <1>2 DEF Has
  <2>2. CASE i \in 1..Len(p)
    BY <1>1, <2>1, <2>2 DEF Has
  <2>3. CASE i \notin 1..Len(p)
    <3>1. i - Len(p) \in 1..Len(q) /\ i = Len(p) + (i - Len(p))
      BY <1>1, <2>1, <2>3
    <3> QED BY <1>1, <2>1, <3>1 DEF Has
  <2> QED BY <2>2, <2>3
<1>3. ASSUME Has(p, e) PROVE Has(p \o q, e)
  <2>1. PICK i \in 1..Len(p) : p[i] = e
    BY <1>1, <1>3 DEF Has
  <2>2. i \in DOMAIN (p \o q)
    BY <1>1, <2>1
  <2> QED BY <1>1, <2>1, <2>2 DEF Has
<1>4. ASSUME Has(q, e) PROVE Has(p \o q, e)
  <2>1. PICK i \in 1..Len(q) : q[i] = e
    BY <1>1, <1>4 DEF Has
  <2>2. Len(p) + i \in DOMAIN (p \o q)
    BY <1>1, <2>1
  <2> QED BY <1>1, <2>1, <2>2 DEF Has
<1> QED BY <1>2, <1>3, <1>4

LEMMA HasOne ==
  ASSUME NEW e, NEW d PROVE Has(<<d>>, e) <=> e = d
BY DEF Has

LEMMA HasAppend ==
  ASSUME NEW S, NEW q \in Seq(S), NEW d \in S, NEW e
  PROVE  Has(Append(q, d), e) <=> Has(q, e) \/ e = d
<1>1. Append(q, d) = q \o <<d>>
  OBVIOUS
<1>2. <<d>> \in Seq(S)
  OBVIOUS
<1>3. Has(q \o <<d>>, e) <=> Has(q, e) \/ Has(<<d>>, e)
  BY <1>2, HasConcat
<1> QED BY <1>1, <1>3, HasOne

LEMMA HasTail ==
  ASSUME NEW S, NEW q \in Seq(S), q # <<>>, NEW e, Has(q, e), e # Head(q)
  PROVE  Has(Tail(q), e)
<1>1. PICK i \in 1..Len(q) : q[i] = e
  BY DEF Has
<1>2. Len(q) \in Nat /\ i # 1 /\ Len(Tail(q)) = Len(q) - 1 /\ DOMAIN Tail(q) = 1..(Len(q) - 1)
  BY <1>1
<1>3. i - 1 \in 1..(Len(q) - 1) /\ Tail(q)[i - 1] = q[i]
  BY <1>1, <1>2
<1> QED BY <1>1, <1>2, <1>3 DEF Has

\* The elements of a finite set, listed, are all there.
LEMMA ListHas ==
  ASSUME NEW S, IsFiniteSet(S), NEW e \in S
  PROVE  Has(SetToSeq(S), e)
<1> DEFINE n == Cardinality(S)
<1>1. n \in Nat /\ ExistsBijection(1..n, S)
  BY FS_CardinalityType
<1>2. PICK g \in Bijection(1..n, S) : TRUE
  BY <1>1 DEF ExistsBijection
<1>3. g \in [1..n -> S] /\ IsInjective(g)
  BY <1>2 DEF Bijection, Injection, IsInjective
<1> DEFINE f == SetToSeq(S)
<1>4. f \in [1..n -> S] /\ IsInjective(f)
  BY <1>3 DEF SetToSeq
<1> HIDE DEF f
<1>5. f \in Injection(1..n, S)
  BY <1>4 DEF Injection, IsInjective
<1>6. IsFiniteSet(1..n) /\ Cardinality(1..n) = n
  BY <1>1, FS_Interval
<1>7. f \in Surjection(1..n, S)
  BY <1>1, <1>5, <1>6, FS_Injection
<1>8. \E i \in 1..n : f[i] = e
  BY <1>7 DEF Surjection
<1> QED BY <1>4, <1>8 DEF Has, f
\* The concatenation holds what its parts hold.
LEMMA FlattenHas ==
  ASSUME NEW S, NEW q \in Seq(Seq(S)), NEW k \in DOMAIN q, NEW e, Has(q[k], e)
  PROVE  Has(FlattenSeq(q), e)
<1> DEFINE n == Len(q)
<1>1. n \in Nat /\ k \in 1..n /\ n \in k..n /\ n # 0
  OBVIOUS
<1>2. PICK f : Unrolled(f, q, n) /\ FlattenSeq(q) = f[n]
  BY <1>1, FlattenUnrolled
<1>3. \A i \in 1..n : f[i] \in Seq(S) /\ q[i] \in Seq(S)
  BY <1>2, UnrolledType
<1> DEFINE Bad == {j \in k..n : ~ Has(f[j], e)}
<1>4. SUFFICES ASSUME Bad # {} PROVE FALSE
  BY <1>1, <1>2
<1>5. PICK j \in Bad : \A i \in Bad : j <= i
  <2>1. Bad \in SUBSET Nat BY <1>1
  <2> QED BY <2>1, <1>4, Least
<1>6. j \in 1..n /\ (j # 1 => j - 1 \in 1..n) /\ (j # k => j - 1 \in k..n /\ j - 1 \notin Bad)
  BY <1>1, <1>5
<1>7. f[j] = IF j = 1 THEN q[j] ELSE f[j - 1] \o q[j]
  BY <1>2, <1>6 DEF Unrolled
<1>8. CASE j = 1
  <2>1. j = k
    BY <1>1, <1>6, <1>8
  <2> QED BY <1>7, <1>8, <2>1
<1>9. CASE j # 1
  <2>1. Has(f[j - 1], e) \/ Has(q[j], e)
    <3>1. CASE j = k
      BY <3>1
    <3>2. CASE j # k
      BY <1>6, <3>2
    <3> QED BY <3>1, <3>2
  <2>2. f[j - 1] \in Seq(S) /\ q[j] \in Seq(S)
    BY <1>3, <1>6, <1>9
  <2>3. Has(f[j - 1] \o q[j], e)
    BY <2>1, <2>2, HasConcat
  <2> QED BY <1>7, <1>9, <2>3
<1> QED BY <1>8, <1>9
=============================================================================
