------------------------------ MODULE ListLemmas ------------------------------
(***************************************************************************)
(* Facts about the lists of the models: free lists, the stack of free ids, *)
(* queues.  Each says what an operation of the code does to the elements   *)
(* of a list and that it keeps a list without duplicates.  And induction,  *)
(* for a set of numbers instead of a predicate.                            *)
(***************************************************************************)
EXTENDS Integers, Sequences, FiniteSets, FiniteSetTheorems, SequenceTheorems,
        WellFoundedInduction, TLAPS

Elems(s) == {s[i] : i \in 1 .. Len(s)}
Distinct(s) == \A i, j \in 1 .. Len(s) : s[i] = s[j] => i = j
-----------------------------------------------------------------------------
\* The elements of a list of S are in S, and a list is empty with its elements.
LEMMA ElemsType ==
  ASSUME NEW S, NEW s \in Seq(S)
  PROVE  Elems(s) \subseteq S /\ (s # << >> <=> Elems(s) # {})
<1>1. Elems(s) \subseteq S BY ElementOfSeq DEF Elems
<1>2. s # << >> => Len(s) \in Nat \ {0} BY EmptySeq
<1>3. s # << >> => s[1] \in Elems(s) BY <1>2 DEF Elems
<1>4. s = << >> => Elems(s) = {} BY DEF Elems
<1> QED BY <1>1, <1>3, <1>4

\* Stack::Push, Queue::PushBack.
LEMMA AppendElems ==
  ASSUME NEW S, NEW s \in Seq(S), NEW x \in S
  PROVE  /\ Append(s, x) \in Seq(S)
         /\ Elems(Append(s, x)) = Elems(s) \cup {x}
         /\ Distinct(s) /\ x \notin Elems(s) => Distinct(Append(s, x))
<1>1. /\ Append(s, x) \in Seq(S) /\ Len(Append(s, x)) = Len(s) + 1
      /\ \A i \in 1 .. Len(s) : Append(s, x)[i] = s[i]
      /\ Append(s, x)[Len(s) + 1] = x
  BY AppendProperties
<1>2. Len(s) \in Nat BY LenProperties
<1>3. Elems(Append(s, x)) = Elems(s) \cup {x} BY <1>1, <1>2 DEF Elems
<1>4. ASSUME Distinct(s), x \notin Elems(s) PROVE Distinct(Append(s, x))
  BY <1>1, <1>2, <1>4 DEF Distinct, Elems
<1> QED BY <1>1, <1>3, <1>4

\* Stack::Pop.
LEMMA FrontElems ==
  ASSUME NEW S, NEW s \in Seq(S), s # << >>, Distinct(s)
  PROVE  /\ SubSeq(s, 1, Len(s) - 1) \in Seq(S)
         /\ s[Len(s)] \in Elems(s)
         /\ Elems(SubSeq(s, 1, Len(s) - 1)) = Elems(s) \ {s[Len(s)]}
         /\ Distinct(SubSeq(s, 1, Len(s) - 1))
<1> DEFINE f == SubSeq(s, 1, Len(s) - 1)
<1>1. Len(s) \in Nat \ {0} BY EmptySeq
<1>2. \A i \in 1 .. Len(s) - 1 : s[i] \in S BY <1>1, ElementOfSeq
<1>3. /\ f \in Seq(S) /\ Len(f) = Len(s) - 1
      /\ \A i \in 1 .. Len(s) - 1 : f[i] = s[i]
  <2> DEFINE n == Len(s) - 1
  <2>1. n \in Nat /\ n - 1 + 1 = n BY <1>1
  <2>2. \A i \in 1 .. n : s[i] \in S BY <1>2
  <2> HIDE DEF n
  <2>3. /\ SubSeq(s, 1, n) \in Seq(S)
        /\ Len(SubSeq(s, 1, n)) = IF 1 <= n THEN n - 1 + 1 ELSE 0
        /\ \A i \in 1 .. n - 1 + 1 : SubSeq(s, 1, n)[i] = s[1 + i - 1]
    BY <2>1, <2>2, SubSeqProperties
  <2>4. \A i \in 1 .. n : 1 + i - 1 = i BY <2>1
  <2>5. \A i \in 1 .. n : SubSeq(s, 1, n)[i] = s[i] BY <2>1, <2>3, <2>4
  <2>6. Len(SubSeq(s, 1, n)) = n BY <2>1, <2>3
  <2> QED BY <2>3, <2>5, <2>6 DEF f, n
<1>4. s[Len(s)] \in Elems(s) BY <1>1 DEF Elems
<1> HIDE DEF f
<1>5. Elems(f) = Elems(s) \ {s[Len(s)]}
  <2>1. Elems(f) = {s[i] : i \in 1 .. Len(s) - 1} BY <1>3 DEF Elems
  <2>2. \A i \in 1 .. Len(s) - 1 : s[i] # s[Len(s)] BY <1>1 DEF Distinct
  <2>3. \A i \in 1 .. Len(s) : i = Len(s) \/ i \in 1 .. Len(s) - 1 BY <1>1
  <2>4. \A i \in 1 .. Len(s) - 1 : i \in 1 .. Len(s) BY <1>1
  <2>5. Elems(f) \subseteq Elems(s) \ {s[Len(s)]} BY <2>1, <2>2, <2>4 DEF Elems
  <2>6. ASSUME NEW y \in Elems(s), y # s[Len(s)] PROVE y \in Elems(f)
    <3>1. PICK i \in 1 .. Len(s) : y = s[i] BY DEF Elems
    <3> QED BY <2>1, <2>3, <2>6, <3>1
  <2> QED BY <2>5, <2>6
<1>6. Distinct(f) BY <1>1, <1>3 DEF Distinct
<1> QED BY <1>3, <1>4, <1>5, <1>6 DEF f

\* Queue::PopFront, and the allocation of the first free element.
LEMMA TailElems ==
  ASSUME NEW S, NEW s \in Seq(S), s # << >>, Distinct(s)
  PROVE  /\ Tail(s) \in Seq(S)
         /\ Head(s) \in Elems(s)
         /\ Elems(Tail(s)) = Elems(s) \ {Head(s)}
         /\ Distinct(Tail(s))
<1>1. Len(s) \in Nat \ {0} BY EmptySeq
<1>2. /\ Tail(s) \in Seq(S) /\ Len(Tail(s)) = Len(s) - 1
      /\ \A i \in 1 .. Len(Tail(s)) : Tail(s)[i] = s[i + 1]
  BY HeadTailProperties
<1>3. Head(s) = s[1] BY <1>1
<1>4. Head(s) \in Elems(s) BY <1>1, <1>3 DEF Elems
<1>5. Elems(Tail(s)) = Elems(s) \ {Head(s)}
  <2>1. Elems(Tail(s)) = {s[i + 1] : i \in 1 .. Len(s) - 1} BY <1>2 DEF Elems
  <2>2. \A i \in 1 .. Len(s) - 1 : i + 1 \in 1 .. Len(s) /\ s[i + 1] # s[1]
    BY <1>1 DEF Distinct
  <2>3. \A i \in 1 .. Len(s) : i = 1 \/ (i - 1 \in 1 .. Len(s) - 1 /\ (i - 1) + 1 = i)
    BY <1>1
  <2> QED BY <1>1, <1>3, <2>1, <2>2, <2>3 DEF Elems
<1>6. Distinct(Tail(s)) BY <1>1, <1>2 DEF Distinct
<1> QED BY <1>2, <1>4, <1>5, <1>6

\* The deallocation of an element, which becomes the first.
LEMMA ConsElems ==
  ASSUME NEW S, NEW s \in Seq(S), NEW x \in S
  PROVE  /\ <<x>> \o s \in Seq(S)
         /\ Elems(<<x>> \o s) = Elems(s) \cup {x}
         /\ Distinct(s) /\ x \notin Elems(s) => Distinct(<<x>> \o s)
<1> DEFINE c == <<x>> \o s
<1>1. <<x>> \in Seq(S) /\ Len(<<x>>) = 1 /\ <<x>>[1] = x OBVIOUS
<1>2. Len(s) \in Nat BY LenProperties
<1>3. /\ c \in Seq(S) /\ Len(c) = 1 + Len(s)
      /\ \A i \in 1 .. 1 + Len(s) : c[i] = IF i <= 1 THEN <<x>>[i] ELSE s[i - 1]
  BY <1>1, ConcatProperties
<1>4. c[1] = x /\ \A i \in 1 .. Len(s) : c[i + 1] = s[i]
  BY <1>1, <1>2, <1>3
<1>5. \A i \in 1 .. Len(c) : i = 1 \/ (i - 1 \in 1 .. Len(s) /\ c[i] = s[i - 1])
  BY <1>2, <1>3
<1> HIDE DEF c
<1>6. Elems(c) = Elems(s) \cup {x}
  <2>1. \A i \in 1 .. Len(s) : i + 1 \in 1 .. Len(c) BY <1>2, <1>3
  <2>2. 1 \in 1 .. Len(c) BY <1>2, <1>3
  <2>3. Elems(s) \subseteq Elems(c)
    <3> SUFFICES ASSUME NEW i \in 1 .. Len(s) PROVE s[i] \in Elems(c) BY DEF Elems
    <3> QED BY <1>4, <2>1 DEF Elems
  <2>4. x \in Elems(c) BY <1>4, <2>2 DEF Elems
  <2>5. Elems(c) \subseteq Elems(s) \cup {x}
    <3> SUFFICES ASSUME NEW i \in 1 .. Len(c) PROVE c[i] \in Elems(s) \cup {x} BY DEF Elems
    <3> QED BY <1>4, <1>5 DEF Elems
  <2> QED BY <2>3, <2>4, <2>5
<1>7. ASSUME Distinct(s), x \notin Elems(s) PROVE Distinct(c)
  <2> SUFFICES ASSUME NEW i \in 1 .. Len(c), NEW j \in 1 .. Len(c), c[i] = c[j]
               PROVE  i = j
    BY DEF Distinct
  <2>1. \A k \in 1 .. Len(s) : s[k] # x BY <1>7 DEF Elems
  <2>2. CASE i = 1 \/ j = 1 BY <1>4, <1>5, <2>1, <2>2
  <2>3. CASE i # 1 /\ j # 1
    <3>1. i - 1 \in 1 .. Len(s) /\ j - 1 \in 1 .. Len(s) /\ s[i - 1] = s[j - 1]
      BY <1>5, <2>3
    <3>2. i - 1 = j - 1 BY <1>7, <3>1 DEF Distinct
    <3> QED BY <1>2, <1>3, <3>2
  <2> QED BY <2>2, <2>3
<1> QED BY <1>3, <1>6, <1>7 DEF c

\* A message for one request, as ExtractMsg leaves it.
LEMMA ConcatOne ==
  ASSUME NEW S, NEW s \in Seq(S), NEW x \in S, NEW q, q = [i \in 1 .. 1 |-> x]
  PROVE  s \o q = Append(s, x)
<1>1. q \in [1 .. 1 -> S] /\ 1 \in Nat OBVIOUS
<1>2. q \in Seq(S) BY <1>1, SeqDef
<1>3. Len(q) = 1 BY <1>1, <1>2, LenProperties
<1>4. /\ Len(s) \in Nat /\ s \o q \in Seq(S) /\ Len(s \o q) = Len(s) + 1
      /\ \A i \in 1 .. Len(s) + 1 : (s \o q)[i] = IF i <= Len(s) THEN s[i] ELSE q[i - Len(s)]
  BY <1>2, <1>3, ConcatProperties, LenProperties
<1>5. /\ Append(s, x) \in Seq(S) /\ Len(Append(s, x)) = Len(s) + 1
      /\ \A i \in 1 .. Len(s) : Append(s, x)[i] = s[i]
      /\ Append(s, x)[Len(s) + 1] = x
  BY AppendProperties
<1>6. ASSUME NEW i \in 1 .. Len(s) + 1 PROVE (s \o q)[i] = Append(s, x)[i]
  <2>1. CASE i <= Len(s) BY <1>4, <1>5, <2>1
  <2>2. CASE ~(i <= Len(s))
    <3>1. i = Len(s) + 1 /\ i - Len(s) = 1 BY <1>4, <2>2
    <3>2. (s \o q)[i] = q[1] BY <1>4, <2>2, <3>1
    <3> QED BY <1>5, <3>1, <3>2
  <2> QED BY <2>1, <2>2
<1> QED BY <1>4, <1>5, <1>6, SeqEqual

\* A list without duplicates is as long as it has elements.
LEMMA DistinctLen ==
  ASSUME NEW S, NEW s \in Seq(S), Distinct(s)
  PROVE  IsFiniteSet(Elems(s)) /\ Cardinality(Elems(s)) = Len(s)
<1>1. Len(s) \in Nat /\ s \in [1 .. Len(s) -> S] BY LenProperties
<1>2. s \in Bijection(1 .. Len(s), Elems(s))
  <2>1. s \in [1 .. Len(s) -> Elems(s)] BY <1>1 DEF Elems
  <2> QED BY <2>1 DEF Bijection, Injection, Surjection, Elems, Distinct, IsInjective
<1>3. ExistsBijection(1 .. Len(s), Elems(s)) BY <1>2 DEF ExistsBijection
<1>4. IsFiniteSet(1 .. Len(s)) /\ Cardinality(1 .. Len(s)) = Len(s)
  BY <1>1, FS_Interval
<1> QED BY <1>3, <1>4, FS_Bijection

\* The list of the numbers that follow k.
LEMMA CountedList ==
  ASSUME NEW n \in Nat, NEW k \in Int, NEW S, S = k + 1 .. k + n,
         NEW s, s = [i \in 1 .. n |-> k + i]
  PROVE  s \in Seq(S) /\ Distinct(s) /\ Elems(s) = S
<1>1. s \in [1 .. n -> S] OBVIOUS
<1>2. s \in Seq(S) BY <1>1, SeqDef
<1>3. Len(s) = n BY <1>2, LenProperties
<1>4. Distinct(s) BY <1>3 DEF Distinct
<1>5. \A x \in S : x - k \in 1 .. n /\ s[x - k] = x OBVIOUS
<1>6. Elems(s) = S BY <1>1, <1>3, <1>5 DEF Elems
<1> QED BY <1>2, <1>4, <1>6
-----------------------------------------------------------------------------
\* A set of natural numbers has a least one.
LEMMA LeastNumber ==
  ASSUME NEW T \in SUBSET Nat, T # {}
  PROVE  \E x \in T : \A y \in T : x <= y
<1> DEFINE R == OpToRel(<, Nat)
<1>1. PICK x \in T : \A y \in T : ~(<<y, x>> \in R)
  BY NatLessThanWellFounded, WFMin, Zenon
<1>2. \A y \in T : <<y, x>> \in R <=> y < x BY Zenon DEF OpToRel
<1>3. \A y \in T : ~(y < x) BY <1>1, <1>2, Zenon
<1>4. \A y \in T : y \in Nat /\ x \in Nat OBVIOUS
<1>5. \A y \in T : x <= y BY <1>3, <1>4
<1> QED BY <1>5

\* Induction: what holds for 0, and for n + 1 when it does for n, holds for all.
LEMMA SetInduction ==
  ASSUME NEW S, 0 \in S, \A n \in Nat : n \in S => n + 1 \in S
  PROVE  Nat \subseteq S
<1> DEFINE T == {n \in Nat : n \notin S}
<1> SUFFICES ASSUME T # {} PROVE FALSE OBVIOUS
<1>1. PICK x \in T : \A y \in T : x <= y BY LeastNumber
<1>2. x \in Nat /\ x # 0 /\ x - 1 \in Nat /\ ~(x <= x - 1) OBVIOUS
<1>3. x - 1 \in S BY <1>1, <1>2
<1>4. (x - 1) + 1 = x BY <1>2
<1> QED BY <1>2, <1>3, <1>4
-----------------------------------------------------------------------------
\* How often a list has an element of S.
Hits(s, S) == {i \in 1 .. Len(s) : s[i] \in S}
One(b) == IF b THEN 1 ELSE 0

LEMMA HitsFinite ==
  ASSUME NEW T, NEW s \in Seq(T), NEW S
  PROVE  /\ IsFiniteSet(Hits(s, S)) /\ Cardinality(Hits(s, S)) \in Nat
         /\ Cardinality(Hits(s, S)) = 0 <=> \A i \in 1 .. Len(s) : s[i] \notin S
<1>1. Len(s) \in Nat BY LenProperties
<1>2. IsFiniteSet(1 .. Len(s)) BY <1>1, FS_Interval
<1>3. Hits(s, S) \in SUBSET (1 .. Len(s)) BY DEF Hits
<1>4. IsFiniteSet(Hits(s, S)) BY <1>2, <1>3, FS_Subset
<1>5. Cardinality(Hits(s, S)) = 0 <=> Hits(s, S) = {} BY <1>4, FS_EmptySet
<1>6. Hits(s, S) = {} <=> \A i \in 1 .. Len(s) : s[i] \notin S BY DEF Hits
<1> QED BY <1>4, <1>5, <1>6, FS_CardinalityType

LEMMA HitsAppend ==
  ASSUME NEW T, NEW s \in Seq(T), NEW x \in T, NEW S
  PROVE  Cardinality(Hits(Append(s, x), S)) = Cardinality(Hits(s, S)) + One(x \in S)
<1> DEFINE a == Append(s, x)
           n == Len(s)
<1>1. /\ n \in Nat /\ Len(a) = n + 1 /\ a[n + 1] = x
      /\ \A i \in 1 .. n : a[i] = s[i]
  BY AppendProperties, LenProperties
<1>2. IsFiniteSet(Hits(s, S)) /\ Cardinality(Hits(s, S)) \in Nat BY HitsFinite
<1>3. n + 1 \notin Hits(s, S) BY <1>1 DEF Hits
<1> HIDE DEF a, n
<1>4. Hits(s, S) = {i \in 1 .. n : s[i] \in S} BY DEF Hits, n
<1>5. CASE x \in S
  <2>1. Hits(a, S) = Hits(s, S) \cup {n + 1} BY <1>1, <1>4, <1>5 DEF Hits
  <2>2. Cardinality(Hits(s, S) \cup {n + 1}) = Cardinality(Hits(s, S)) + 1
    BY <1>2, <1>3, FS_AddElement
  <2> QED BY <1>5, <2>1, <2>2 DEF One, a
<1>6. CASE x \notin S
  <2>1. Hits(a, S) = Hits(s, S) BY <1>1, <1>4, <1>6 DEF Hits
  <2> QED BY <1>2, <1>6, <2>1 DEF One, a
<1> QED BY <1>5, <1>6

LEMMA HitsTail ==
  ASSUME NEW T, NEW s \in Seq(T), s # << >>, NEW S
  PROVE  Cardinality(Hits(Tail(s), S)) = Cardinality(Hits(s, S)) - One(Head(s) \in S)
<1> DEFINE t == Tail(s)
           n == Len(s)
           A == Hits(s, S) \ {1}
           B == Hits(t, S)
           f == [i \in A |-> i - 1]
<1>1. n \in Nat \ {0} BY EmptySeq
<1>2. t \in Seq(T) /\ Len(t) = n - 1 /\ \A i \in 1 .. Len(t) : t[i] = s[i + 1]
  BY HeadTailProperties
<1>3. Head(s) = s[1] BY <1>1
<1>4. IsFiniteSet(Hits(s, S)) /\ Cardinality(Hits(s, S)) \in Nat BY HitsFinite
<1> HIDE DEF t
<1>5. ExistsBijection(A, B)
  <2>1. \A i \in A : i \in 2 .. n /\ s[i] \in S BY <1>1 DEF Hits
  <2>2. \A i \in 2 .. n : i - 1 \in 1 .. n - 1 /\ (i - 1) + 1 = i BY <1>1
  <2>3. \A i \in A : i - 1 \in B BY <1>2, <2>1, <2>2 DEF Hits
  <2>4. \A j \in B : j + 1 \in A /\ (j + 1) - 1 = j BY <1>1, <1>2 DEF Hits
  <2>5. \A i, j \in A : i - 1 = j - 1 => i = j BY <2>1
  <2> HIDE DEF A, B
  <2>6. f \in [A -> B] /\ \A i, j \in A : f[i] = f[j] => i = j BY <2>3, <2>5
  <2>7. \A j \in B : \E i \in A : f[i] = j BY <2>4
  <2>8. f \in Bijection(A, B)
    BY <2>6, <2>7 DEF Bijection, Injection, Surjection, IsInjective
  <2> QED BY <2>8 DEF ExistsBijection
<1>6. IsFiniteSet(A) /\ Cardinality(A) = Cardinality(Hits(s, S)) - One(Head(s) \in S)
  <2>1. 1 \in Hits(s, S) <=> Head(s) \in S BY <1>1, <1>3 DEF Hits
  <2>2. /\ IsFiniteSet(A)
        /\ Cardinality(A) = IF 1 \in Hits(s, S) THEN Cardinality(Hits(s, S)) - 1
                            ELSE Cardinality(Hits(s, S))
    BY <1>4, FS_RemoveElement
  <2> QED BY <1>4, <2>1, <2>2 DEF One
<1>7. Cardinality(B) = Cardinality(A) BY <1>5, <1>6, FS_Bijection
<1> QED BY <1>6, <1>7 DEF t

LEMMA HitsConcat ==
  ASSUME NEW T, NEW s \in Seq(T), NEW q \in Seq(T), NEW S,
         \A i \in 1 .. Len(q) : q[i] \notin S
  PROVE  Hits(s \o q, S) = Hits(s, S)
<1> DEFINE c == s \o q
           m == Len(s)
           n == Len(q)
<1>1. /\ m \in Nat /\ n \in Nat /\ Len(c) = m + n
      /\ \A i \in 1 .. m + n : c[i] = IF i <= m THEN s[i] ELSE q[i - m]
  BY ConcatProperties, LenProperties
<1>2. \A i \in 1 .. n : q[i] \notin S OBVIOUS
<1> HIDE DEF c
<1>3. \A i \in 1 .. m + n : c[i] \in S => i \in 1 .. m /\ c[i] = s[i]
  <2> SUFFICES ASSUME NEW i \in 1 .. m + n, c[i] \in S PROVE i \in 1 .. m /\ c[i] = s[i]
    OBVIOUS
  <2>1. CASE i <= m BY <1>1, <2>1
  <2>2. CASE ~(i <= m)
    <3>1. i - m \in 1 .. n BY <1>1, <2>2
    <3> QED BY <1>1, <1>2, <2>2, <3>1
  <2> QED BY <2>1, <2>2
<1>4. \A i \in 1 .. m : i \in 1 .. m + n /\ c[i] = s[i] BY <1>1
<1>5. Hits(c, S) = {i \in 1 .. m + n : c[i] \in S} BY <1>1 DEF Hits
<1>6. Hits(s, S) = {i \in 1 .. m : s[i] \in S} BY DEF Hits
<1>7. Hits(c, S) = Hits(s, S) BY <1>3, <1>4, <1>5, <1>6
<1> QED BY <1>7 DEF c
=============================================================================
