-------------------------- MODULE SequentialProofs --------------------------
(***************************************************************************)
(* The two components that run in one thread at a time.  The rotating      *)
(* array of include/Queue.h implements a bounded FIFO queue, for every     *)
(* capacity and every element type.  ConfigReader.cpp and Config.cpp read  *)
(* a file of the documented form as it is written, for every file.         *)
(***************************************************************************)
EXTENDS RotateQueue, ConfigReader, ListLemmas

-----------------------------------------------------------------------------
(* Arithmetic of the wrapped index *)

\* An index below the capacity is left alone by the wrap, and one that is past
\* the end by less than a full turn comes back by one capacity.
LEMMA WrapOnce ==
  ASSUME NEW x \in Nat, x < m_Capacity + m_Capacity
  PROVE  x % m_Capacity = IF x < m_Capacity THEN x ELSE x - m_Capacity
<1>1. CASE x < m_Capacity
  BY <1>1, CapacityAssumption
<1>2. CASE x >= m_Capacity
  BY <1>2, CapacityAssumption
<1> QED BY <1>1, <1>2, CapacityAssumption


\* What Advance computes on an index of the array.
LEMMA AdvanceValue ==
  ASSUME NEW i \in Indices
  PROVE  /\ Advance(i) = IF i + 1 < m_Capacity THEN i + 1 ELSE 0
         /\ Advance(i) \in Indices
<1> DEFINE x == i + 1
<1>1. x \in Nat /\ x < m_Capacity + m_Capacity
  BY CapacityAssumption DEF Indices
<1>2. x % m_Capacity = IF x < m_Capacity THEN x ELSE x - m_Capacity
  <2> HIDE DEF x
  <2> QED BY <1>1, WrapOnce
<1> QED BY <1>1, <1>2, CapacityAssumption DEF Advance, Indices

\* The place of the n-th element after index f.
LEMMA OffsetValue ==
  ASSUME NEW f \in Indices, NEW n \in 0 .. m_Capacity
  PROVE  (f + n) % m_Capacity = IF f + n < m_Capacity THEN f + n ELSE f + n - m_Capacity
<1> DEFINE x == f + n
<1>1. x \in Nat /\ x < m_Capacity + m_Capacity
  BY CapacityAssumption DEF Indices
<1>2. x % m_Capacity = IF x < m_Capacity THEN x ELSE x - m_Capacity
  <2> HIDE DEF x
  <2> QED BY <1>1, WrapOnce
<1> QED BY <1>1, <1>2, CapacityAssumption DEF Indices

-----------------------------------------------------------------------------
(* The type invariant and the agreement of the indices *)

\* IndicesAgree without the modulus.
Agree ==
  m_Back = IF m_Front + m_Size < m_Capacity THEN m_Front + m_Size
                                           ELSE m_Front + m_Size - m_Capacity

Inv == TypeOK /\ Agree

\* Under the type invariant the two forms of the agreement are the same.
LEMMA AgreeIsIndicesAgree == TypeOK => (Agree <=> IndicesAgree)
<1> SUFFICES ASSUME TypeOK PROVE Agree <=> IndicesAgree OBVIOUS
<1>1. m_Front \in Indices /\ m_Size \in 0 .. m_Capacity BY DEF TypeOK
<1>2. (m_Front + m_Size) % m_Capacity
        = IF m_Front + m_Size < m_Capacity THEN m_Front + m_Size
                                           ELSE m_Front + m_Size - m_Capacity
  BY <1>1, OffsetValue
<1> QED BY <1>2 DEF Agree, IndicesAgree

\* The queue starts empty with both indices at 0.
LEMMA InitInv == Init => Inv
BY CapacityAssumption DEF Init, Inv, Agree, TypeOK, Indices

\* PushBack moves the back index and the count together.
LEMMA PushBackInv ==
  ASSUME Inv, NEW e \in Elem, PushBack(e) PROVE Inv'
<1> USE CapacityAssumption
<1>1. CASE Full
  BY <1>1 DEF Inv, TypeOK, Agree, PushBack, Full
<1>2. CASE ~Full
  <2>1. m_Back \in Indices BY DEF Inv, TypeOK
  <2>2. /\ m_Back' = IF m_Back + 1 < m_Capacity THEN m_Back + 1 ELSE 0
        /\ m_Back' \in Indices
    BY <1>2, <2>1, AdvanceValue DEF PushBack
  <2>3. m_Size' = m_Size + 1 /\ m_Front' = m_Front /\ m_Size < m_Capacity
    BY <1>2 DEF PushBack, Full, Inv, TypeOK
  <2>4. Agree'
    BY <2>1, <2>2, <2>3 DEF Inv, TypeOK, Agree, Indices
  <2>5. TypeOK'
    <3>1. m_List' \in [Indices -> Elem] /\ element' \in Elem
      BY <1>2, <2>1 DEF PushBack, Inv, TypeOK
    <3>2. ok' \in BOOLEAN
      BY <1>2 DEF PushBack
    <3>3. m_Size' \in 0 .. m_Capacity /\ m_Front' \in Indices
      BY <2>3 DEF Inv, TypeOK
    <3> QED BY <2>2, <3>1, <3>2, <3>3 DEF TypeOK
  <2> QED BY <2>4, <2>5 DEF Inv
<1> QED BY <1>1, <1>2

\* Front only reads the array.
LEMMA FrontInv == ASSUME Inv, Front PROVE Inv'
<1>1. UNCHANGED <<m_List, m_Size, m_Front, m_Back>> BY DEF Front
<1>2. ok' \in BOOLEAN BY DEF Front
<1>3. element' \in Elem BY DEF Front, Inv, TypeOK
<1> QED BY <1>1, <1>2, <1>3 DEF Inv, TypeOK, Agree

\* The reset of both indices happens only when the last element leaves.
LEMMA ResetOnlyWhenLast ==
  ASSUME Inv, m_Size # 0 PROVE (Advance(m_Front) = m_Back) <=> (m_Size = 1 \/ m_Capacity = 1)
<1>1. m_Front \in Indices BY DEF Inv, TypeOK
<1>2. Advance(m_Front) = IF m_Front + 1 < m_Capacity THEN m_Front + 1 ELSE 0
  BY <1>1, AdvanceValue
<1> QED BY <1>1, <1>2, CapacityAssumption DEF Inv, TypeOK, Agree, Indices

\* PopFront moves the front index and the count together.
LEMMA PopFrontInv == ASSUME Inv, PopFront PROVE Inv'
<1> USE CapacityAssumption
<1>1. CASE m_Size = 0
  BY <1>1 DEF Inv, TypeOK, Agree, PopFront, vars
<1>2. CASE m_Size # 0
  <2>1. m_Front \in Indices /\ m_Back \in Indices BY DEF Inv, TypeOK
  <2>2. /\ Advance(m_Front) = IF m_Front + 1 < m_Capacity THEN m_Front + 1 ELSE 0
        /\ Advance(m_Front) \in Indices
    BY <2>1, AdvanceValue
  <2>3. m_Size' = m_Size - 1 /\ AdvanceFront /\ UNCHANGED <<m_List, ok, element>>
    BY <1>2 DEF PopFront
  <2>4. m_Front' \in Indices /\ m_Back' \in Indices
    BY <2>1, <2>2, <2>3 DEF AdvanceFront, Indices
  <2>5. TypeOK'
    BY <1>2, <2>3, <2>4 DEF Inv, TypeOK
  <2>6. Agree'
    BY <1>2, <2>1, <2>2, <2>3, ResetOnlyWhenLast
    DEF AdvanceFront, Agree, Inv, TypeOK, Indices
  <2> QED BY <2>5, <2>6 DEF Inv
<1> QED BY <1>1, <1>2

\* Every step of the queue keeps the invariant.
LEMMA NextInv == Inv /\ [Next]_vars => Inv'
<1> SUFFICES ASSUME Inv, [Next]_vars PROVE Inv' OBVIOUS
<1>1. CASE UNCHANGED vars
  BY <1>1 DEF Inv, TypeOK, Agree, vars
<1> QED
  BY <1>1, PushBackInv, FrontInv, PopFrontInv DEF Next

\* The indices of include/Queue.h never leave the array and never drift apart,
\* whatever the capacity.
THEOREM QueueInvariant == Spec => [](TypeOK /\ IndicesAgree)
<1>1. Inv => TypeOK /\ IndicesAgree
  BY AgreeIsIndicesAgree DEF Inv
<1> QED BY InitInv, NextInv, <1>1, PTL DEF Spec

-----------------------------------------------------------------------------
(* The refinement of BoundedFifo *)

\* The array index of the i-th oldest element.
Place(i) == IF m_Front + i - 1 < m_Capacity THEN m_Front + i - 1
                                            ELSE m_Front + i - 1 - m_Capacity

ContentsAtPlace ==
  /\ Contents \in Seq(Elem)
  /\ Len(Contents) = m_Size
  /\ \A i \in 1 .. m_Size : /\ Place(i) \in Indices
                            /\ Contents[i] = m_List[Place(i)]

\* Contents is a sequence of m_Size elements, the i-th of them at Place(i).
LEMMA ContentsValue == TypeOK => ContentsAtPlace
<1> SUFFICES ASSUME TypeOK PROVE ContentsAtPlace OBVIOUS
<1>1. ASSUME NEW i \in 1 .. m_Size
      PROVE  /\ (m_Front + i - 1) % m_Capacity = Place(i)
             /\ Place(i) \in Indices
  <2>1. m_Front \in Indices /\ i - 1 \in 0 .. m_Capacity
    BY CapacityAssumption DEF TypeOK
  <2> DEFINE n == i - 1
  <2>2. (m_Front + n) % m_Capacity
          = IF m_Front + n < m_Capacity THEN m_Front + n ELSE m_Front + n - m_Capacity
    <3> HIDE DEF n
    <3> QED BY <2>1, OffsetValue DEF n
  <2>3. m_Front + n = m_Front + i - 1
    BY <2>1, CapacityAssumption DEF Indices
  <2>4. (m_Front + i - 1) % m_Capacity = Place(i)
    BY <2>2, <2>3 DEF Place
  <2> QED BY <2>1, <2>4, CapacityAssumption DEF Place, Indices, TypeOK
<1>2. m_Size \in Nat BY CapacityAssumption DEF TypeOK
<1>3. Contents = [i \in 1 .. m_Size |-> m_List[Place(i)]]
  BY <1>1 DEF Contents
<1>4. \A i \in 1 .. m_Size : m_List[Place(i)] \in Elem
  BY <1>1 DEF TypeOK
<1> QED BY <1>1, <1>2, <1>3, <1>4 DEF ContentsAtPlace

\* A push that is accepted appends to the contents.
LEMMA PushAppends ==
  ASSUME Inv, NEW e \in Elem, PushBack(e), ~Full
  PROVE  Contents' = Append(Contents, e)
<1> USE CapacityAssumption
<1>1. TypeOK' BY PushBackInv DEF Inv
<1>2. m_Size' = m_Size + 1 /\ m_Front' = m_Front /\ m_List' = [m_List EXCEPT ![m_Back] = e]
  BY DEF PushBack
<1>3. /\ Contents \in Seq(Elem) /\ Len(Contents) = m_Size
      /\ \A i \in 1 .. m_Size : Place(i) \in Indices /\ Contents[i] = m_List[Place(i)]
  BY ContentsValue DEF Inv, ContentsAtPlace
<1>4. /\ Contents' \in Seq(Elem) /\ Len(Contents') = m_Size + 1
      /\ \A i \in 1 .. m_Size + 1 : Contents'[i] = m_List'[Place(i)]
  <2>1. /\ Contents' \in Seq(Elem) /\ Len(Contents') = m_Size'
        /\ \A i \in 1 .. m_Size' : Contents'[i] = m_List'[Place(i)']
    <3>1. ContentsAtPlace' BY <1>1, ContentsValue, PTL
    <3> QED BY <3>1 DEF ContentsAtPlace
  <2>2. \A i : Place(i)' = Place(i)
    BY <1>2 DEF Place
  <2> QED BY <1>2, <2>1, <2>2
<1>5. Place(m_Size + 1) = m_Back /\ m_Back \in Indices
  BY DEF Inv, TypeOK, Agree, Place, Indices
<1>6. ASSUME NEW i \in 1 .. m_Size PROVE Place(i) # m_Back
  BY DEF Inv, TypeOK, Agree, Place, Indices, Full
<1>7. ASSUME NEW i \in 1 .. m_Size PROVE Contents'[i] = Contents[i]
  BY <1>2, <1>3, <1>4, <1>6 DEF Inv, TypeOK
<1>8. Contents'[m_Size + 1] = e
  BY <1>2, <1>4, <1>5 DEF Inv, TypeOK
<1> QED BY <1>3, <1>4, <1>7, <1>8 DEF Inv, TypeOK

\* A pop of a non-empty queue removes the oldest element.
LEMMA PopTails ==
  ASSUME Inv, PopFront, m_Size # 0
  PROVE  Contents' = Tail(Contents)
<1> USE CapacityAssumption
<1>1. TypeOK' BY PopFrontInv DEF Inv
<1>2. m_Size' = m_Size - 1 /\ m_List' = m_List /\ AdvanceFront
  BY DEF PopFront
<1>3. /\ Contents \in Seq(Elem) /\ Len(Contents) = m_Size
      /\ \A i \in 1 .. m_Size : Contents[i] = m_List[Place(i)]
  BY ContentsValue DEF Inv, ContentsAtPlace
<1>4. /\ Contents' \in Seq(Elem) /\ Len(Contents') = m_Size'
      /\ \A i \in 1 .. m_Size' : Contents'[i] = m_List'[Place(i)']
  <2>1. ContentsAtPlace' BY <1>1, ContentsValue, PTL
  <2> QED BY <2>1 DEF ContentsAtPlace
<1>5. Advance(m_Front) = IF m_Front + 1 < m_Capacity THEN m_Front + 1 ELSE 0
  BY AdvanceValue DEF Inv, TypeOK
<1>6. ASSUME NEW i \in 1 .. m_Size' PROVE Place(i)' = Place(i + 1)
  BY <1>2, <1>5, <1>6, ResetOnlyWhenLast
  DEF AdvanceFront, Place, Inv, TypeOK, Indices
<1>7. ASSUME NEW i \in 1 .. m_Size' PROVE Contents'[i] = Contents[i + 1]
  BY <1>2, <1>3, <1>4, <1>6 DEF Inv, TypeOK
<1> QED BY <1>2, <1>3, <1>4, <1>7 DEF Inv, TypeOK

\* The rotating array of include/Queue.h implements the bounded FIFO queue its
\* users rely on, for every capacity above zero and every element type.
THEOREM QueueImplementsFifo == Spec => ImplementsFifo
<1> USE CapacityAssumption
<1>1. Init => Fifo!Init
  <2> SUFFICES ASSUME Init PROVE Fifo!Init OBVIOUS
  <2>1. Inv BY InitInv
  <2>2. Contents \in Seq(Elem) /\ Len(Contents) = 0
    BY <2>1, ContentsValue DEF Inv, Init, ContentsAtPlace
  <2>3. Contents = << >> BY <2>2
  <2> QED BY <2>3 DEF Init, Fifo!Init
<1>2. Inv /\ [Next]_vars => [Fifo!Next]_(Fifo!fifoVars)
  <2> SUFFICES ASSUME Inv, [Next]_vars PROVE [Fifo!Next]_(Fifo!fifoVars) OBVIOUS
  <2>0. Contents \in Seq(Elem) /\ Len(Contents) = m_Size /\ m_Size \in Nat
    BY ContentsValue DEF Inv, TypeOK, ContentsAtPlace
  <2>1. ASSUME NEW e \in Elem, PushBack(e) PROVE Fifo!Push(e)
    <3>1. CASE Full
      <4>1. Contents' = Contents
        BY <2>1, <3>1 DEF PushBack, Contents
      <4>2. Len(Contents) >= m_Capacity
        BY <2>0, <3>1 DEF Full
      <4>3. ok' = FALSE BY <2>1, <3>1, Zenon DEF PushBack
      <4>4. element' = element BY <2>1, <3>1 DEF PushBack
      <4> QED BY <4>1, <4>2, <4>3, <4>4 DEF Fifo!Push
    <3>2. CASE ~Full
      <4>1. Contents' = Append(Contents, e)
        BY <2>1, <3>2, PushAppends
      <4>2. m_Size < m_Capacity
        BY <3>2 DEF Full, Inv, TypeOK
      <4>3. Len(Contents) < m_Capacity BY <2>0, <4>2
      <4>4. ok' = TRUE BY <2>1, <3>2, Zenon DEF PushBack
      <4>5. element' = element BY <2>1, <3>2 DEF PushBack
      <4> QED BY <4>1, <4>3, <4>4, <4>5 DEF Fifo!Push
    <3> QED BY <3>1, <3>2
  <2>2. ASSUME Front PROVE Fifo!Peek
    <3>1. Contents' = Contents
      BY <2>2 DEF Front, Contents
    <3>2. CASE m_Size = 0
      <4>1. Contents = << >> BY <2>0, <3>2
      <4> QED BY <2>2, <3>1, <3>2, <4>1 DEF Front, Fifo!Peek
    <3>3. CASE m_Size # 0
      <4>1. Contents # << >> BY <2>0, <3>3
      <4>2. Head(Contents) = m_List[m_Front]
        <5>1. Contents[1] = m_List[Place(1)] /\ Place(1) = m_Front
          BY <2>0, <3>3, ContentsValue DEF Inv, TypeOK, Place, Indices, ContentsAtPlace
        <5> QED BY <2>0, <3>3, <5>1
      <4> QED BY <2>2, <3>1, <3>3, <4>1, <4>2 DEF Front, Fifo!Peek
    <3> QED BY <3>2, <3>3
  <2>3. ASSUME PopFront PROVE Fifo!Drop
    <3>1. CASE m_Size = 0
      <4>1. Contents = << >> BY <2>0, <3>1
      <4>2. Contents' = Contents /\ UNCHANGED <<ok, element>>
        BY <2>3, <3>1 DEF PopFront, vars, Contents
      <4> QED BY <4>1, <4>2 DEF Fifo!Drop
    <3>2. CASE m_Size # 0
      <4>1. Contents # << >> BY <2>0, <3>2
      <4>2. Contents' = Tail(Contents) BY <2>3, <3>2, PopTails
      <4> QED BY <2>3, <3>2, <4>1, <4>2 DEF PopFront, Fifo!Drop
    <3> QED BY <3>1, <3>2
  <2>4. CASE UNCHANGED vars
    BY <2>4 DEF vars, Contents, Fifo!fifoVars
  <2> QED BY <2>1, <2>2, <2>3, <2>4 DEF Next, Fifo!Next
<1> QED
  BY <1>1, <1>2, InitInv, NextInv, PTL DEF Spec, ImplementsFifo, Fifo!Spec

-----------------------------------------------------------------------------
(* ConfigReader: positions in a line *)

\* The least and the greatest element of a set of numbers, as the community module
\* chooses them.
LEMMA MinOf ==
  ASSUME NEW S \in SUBSET Nat, NEW x \in S, \A y \in S : x <= y
  PROVE  Min(S) = x
<1>1. Min(S) \in S /\ \A y \in S : Min(S) <= y BY Zenon DEF Min
<1>2. Min(S) <= x /\ x <= Min(S) BY <1>1
<1>3. x \in Nat /\ Min(S) \in Nat BY <1>1
<1> QED BY <1>2, <1>3

LEMMA MaxOf ==
  ASSUME NEW S \in SUBSET Nat, NEW x \in S, \A y \in S : y <= x
  PROVE  Max(S) = x
<1>1. \A y \in S : x >= y OBVIOUS
<1>2. Max(S) \in S /\ \A y \in S : Max(S) >= y BY <1>1, Zenon DEF Max
<1>3. Max(S) >= x /\ Max(S) <= x BY <1>2
<1>4. x \in Nat /\ Max(S) \in Nat BY <1>2
<1> QED BY <1>3, <1>4

\* A set of numbers has a least element, a bounded one a greatest.
LEMMA FirstExists ==
  ASSUME NEW S \in SUBSET Nat, S # {} PROVE \E x \in S : Min(S) = x /\ \A y \in S : x <= y
<1>1. PICK x \in S : \A y \in S : x <= y BY LeastNumber
<1> QED BY <1>1, MinOf

LEMMA LastExists ==
  ASSUME NEW n \in Nat, NEW S \in SUBSET (0 .. n), S # {}
  PROVE  \E x \in S : Max(S) = x /\ \A y \in S : y <= x
<1> DEFINE T == {n - x : x \in S}
<1>0. \A x \in S : x \in Nat /\ n - x \in Nat
  <2> SUFFICES ASSUME NEW x \in S PROVE x \in Nat /\ n - x \in Nat OBVIOUS
  <2>1. x \in 0 .. n OBVIOUS
  <2> QED BY <2>1
<1>1. T \in SUBSET Nat /\ T # {} BY <1>0
<1>2. PICK t \in T : \A y \in T : t <= y BY <1>1, LeastNumber
<1>3. PICK x \in S : t = n - x BY <1>2
<1>4. \A y \in S : y <= x
  <2> SUFFICES ASSUME NEW y \in S PROVE y <= x OBVIOUS
  <2>1. n - y \in T OBVIOUS
  <2>2. n - x <= n - y BY <1>2, <1>3, <2>1
  <2>3. x \in Nat /\ y \in Nat BY <1>0
  <2> QED BY <2>2, <2>3
<1>5. S \in SUBSET Nat OBVIOUS
<1>6. Max(S) = x BY <1>4, <1>5, MaxOf
<1> QED BY <1>4, <1>6

\* find_first_of and find_first_not_of, find_last_not_of.
LEMMA FirstFound ==
  ASSUME NEW line \in Seq(Char), NEW S, NEW from \in Nat
  PROVE  \/ /\ FindFirst(line, S, from) = npos
            /\ \A i \in from .. Len(line) - 1 : line[i + 1] \notin S
         \/ /\ FindFirst(line, S, from) \in from .. Len(line) - 1
            /\ line[FindFirst(line, S, from) + 1] \in S
            /\ \A i \in from .. Len(line) - 1 :
                 line[i + 1] \in S => FindFirst(line, S, from) <= i
<1> DEFINE found == {i \in from .. Len(line) - 1 : line[i + 1] \in S}
<1>1. Len(line) \in Nat BY LenProperties
<1>2. found \in SUBSET Nat BY <1>1
<1>3. CASE found = {}
  <2>1. FindFirst(line, S, from) = npos BY <1>3 DEF FindFirst
  <2> QED BY <1>3, <2>1
<1>4. CASE found # {}
  <2>1. FindFirst(line, S, from) = Min(found) BY <1>4 DEF FindFirst
  <2>2. PICK x \in found : Min(found) = x /\ \A y \in found : x <= y BY <1>2, <1>4, FirstExists
  <2> QED BY <2>1, <2>2
<1> QED BY <1>3, <1>4

LEMMA LastFound ==
  ASSUME NEW line \in Seq(Char), NEW S, NEW to \in Nat \cup {npos}
  PROVE  \/ /\ FindLast(line, S, to) = npos
            /\ \A i \in 0 .. Len(line) - 1 : to = npos \/ i <= to => line[i + 1] \notin S
         \/ /\ FindLast(line, S, to) \in 0 .. Len(line) - 1
            /\ line[FindLast(line, S, to) + 1] \in S /\ (to = npos \/ FindLast(line, S, to) <= to)
            /\ \A i \in 0 .. Len(line) - 1 :
                 line[i + 1] \in S /\ (to = npos \/ i <= to) => i <= FindLast(line, S, to)
<1> DEFINE found == {i \in 0 .. Len(line) - 1 : line[i + 1] \in S /\ (to = npos \/ i <= to)}
<1>1. Len(line) \in Nat BY LenProperties
<1>2. found \in SUBSET (0 .. Len(line)) BY <1>1
<1>3. CASE found = {}
  <2>1. FindLast(line, S, to) = npos BY <1>3 DEF FindLast
  <2> QED BY <1>3, <2>1
<1>4. CASE found # {}
  <2>1. FindLast(line, S, to) = Max(found) BY <1>4 DEF FindLast
  <2>2. PICK x \in found : Max(found) = x /\ \A y \in found : y <= x
    BY <1>1, <1>2, <1>4, LastExists
  <2> QED BY <2>1, <2>2
<1> QED BY <1>3, <1>4

\* Pieces of a sequence.
LEMMA Piece ==
  ASSUME NEW S, NEW s \in Seq(S), NEW m \in 1 .. Len(s) + 1, NEW n \in m - 1 .. Len(s)
  PROVE  /\ SubSeq(s, m, n) \in Seq(S) /\ Len(SubSeq(s, m, n)) = n - m + 1
         /\ \A i \in 1 .. n - m + 1 : SubSeq(s, m, n)[i] = s[m + i - 1]
<1>1. Len(s) \in Nat BY LenProperties
<1>2. \A i \in m .. n : s[i] \in S BY <1>1, ElementOfSeq
<1>3. m \in Int /\ n \in Int BY <1>1
<1>4. /\ SubSeq(s, m, n) \in Seq(S)
      /\ Len(SubSeq(s, m, n)) = IF m <= n THEN n - m + 1 ELSE 0
      /\ \A i \in 1 .. n - m + 1 : SubSeq(s, m, n)[i] = s[m + i - 1]
  BY <1>2, <1>3, SubSeqProperties
<1>5. ~(m <= n) => n - m + 1 = 0 BY <1>1
<1> QED BY <1>4, <1>5

\* A piece of a piece is a piece of the whole.
LEMMA PieceOfPiece ==
  ASSUME NEW S, NEW s \in Seq(S), NEW m \in 1 .. Len(s) + 1, NEW n \in m - 1 .. Len(s),
         NEW a \in 1 .. n - m + 2, NEW b \in a - 1 .. n - m + 1
  PROVE  SubSeq(SubSeq(s, m, n), a, b) = SubSeq(s, m + a - 1, m + b - 1)
<1> DEFINE p == SubSeq(s, m, n)
           l == SubSeq(p, a, b)
           r == SubSeq(s, m + a - 1, m + b - 1)
<1>1. Len(s) \in Nat BY LenProperties
<1>2. /\ p \in Seq(S) /\ Len(p) = n - m + 1
      /\ \A i \in 1 .. n - m + 1 : p[i] = s[m + i - 1]
  BY Piece
<1> HIDE DEF p
<1>3. a \in 1 .. Len(p) + 1 /\ b \in a - 1 .. Len(p) BY <1>1, <1>2
<1>4. /\ l \in Seq(S) /\ Len(l) = b - a + 1
      /\ \A i \in 1 .. b - a + 1 : l[i] = p[a + i - 1]
  BY <1>2, <1>3, Piece
<1>5. m + a - 1 \in 1 .. Len(s) + 1 /\ m + b - 1 \in (m + a - 1) - 1 .. Len(s) BY <1>1
<1>6. /\ r \in Seq(S) /\ Len(r) = (m + b - 1) - (m + a - 1) + 1
      /\ \A i \in 1 .. (m + b - 1) - (m + a - 1) + 1 : r[i] = s[m + a - 1 + i - 1]
  <2> DEFINE x == m + a - 1
             y == m + b - 1
  <2> HIDE DEF x, y
  <2>1. x \in 1 .. Len(s) + 1 /\ y \in x - 1 .. Len(s) BY <1>5 DEF x, y
  <2>2. /\ SubSeq(s, x, y) \in Seq(S) /\ Len(SubSeq(s, x, y)) = y - x + 1
        /\ \A i \in 1 .. y - x + 1 : SubSeq(s, x, y)[i] = s[x + i - 1]
    BY <2>1, Piece
  <2> QED BY <2>2 DEF x, y
<1> HIDE DEF l, r
<1>7. (m + b - 1) - (m + a - 1) + 1 = b - a + 1 BY <1>1
<1>8. ASSUME NEW i \in 1 .. b - a + 1 PROVE l[i] = r[i]
  <2>1. a + i - 1 \in 1 .. n - m + 1 /\ m + (a + i - 1) - 1 = m + a - 1 + i - 1 BY <1>1
  <2> QED BY <1>2, <1>4, <1>6, <1>7, <2>1
<1>9. Len(l) = Len(r) /\ Len(l) = b - a + 1 BY <1>4, <1>6, <1>7
<1>10. l = r BY <1>4, <1>6, <1>8, <1>9, SeqEqual
<1> QED BY <1>10 DEF l, r, p

\* substr, of as many characters as there are.
LEMMA SubstringIs ==
  ASSUME NEW line \in Seq(Char), NEW a \in Nat, NEW n \in Nat, a + n <= Len(line)
  PROVE  Substring(line, a, n) = SubSeq(line, a + 1, a + n)
<1>1. Len(line) \in Nat BY LenProperties
<1>2. Min({a + n, Len(line)}) = a + n
  <2> DEFINE T == {a + n, Len(line)}
  <2>1. T \in SUBSET Nat /\ a + n \in T /\ \A y \in T : a + n <= y BY <1>1
  <2> HIDE DEF T
  <2>2. Min(T) = a + n BY <2>1, MinOf
  <2> QED BY <2>2 DEF T
<1>3. Substring(line, a, n) = 
        SubSeq(line, a + 1, IF n < 0 THEN Len(line) ELSE Min({a + n, Len(line)}))
  BY Zenon DEF Substring
<1>4. ~(n < 0) OBVIOUS
<1> QED BY <1>2, <1>3, <1>4

\* Whatever the count, a substring is made of characters of the line.
LEMMA SubstringType ==
  ASSUME NEW line \in Seq(Char), NEW a \in Nat, NEW n \in Int, a <= Len(line)
  PROVE  Substring(line, a, n) \in Seq(Char)
<1>1. Len(line) \in Nat BY LenProperties
<1>2. CASE n < 0
  <2>1. Substring(line, a, n) = SubSeq(line, a + 1, Len(line)) BY <1>2 DEF Substring
  <2>2. a + 1 \in 1 .. Len(line) + 1 /\ Len(line) \in (a + 1) - 1 .. Len(line) BY <1>1
  <2> QED BY <2>1, <2>2, Piece
<1>3. CASE ~(n < 0)
  <2> DEFINE T == {a + n, Len(line)}
             k == Min(T)
  <2>1. T \in SUBSET Nat /\ T # {} BY <1>1, <1>3
  <2>2. \A y \in T : y >= a BY <1>1, <1>3
  <2>3. \E x \in T : k = x /\ \A y \in T : x <= y
    <3> HIDE DEF T
    <3> QED BY <2>1, FirstExists
  <2>4. k \in a .. Len(line) BY <1>1, <1>3, <2>2, <2>3
  <2>5. Substring(line, a, n) = SubSeq(line, a + 1, k) BY <1>3 DEF Substring
  <2> HIDE DEF k, T
  <2>6. a + 1 \in 1 .. Len(line) + 1 /\ k \in (a + 1) - 1 .. Len(line) BY <1>1, <2>4
  <2>7. SubSeq(line, a + 1, k) \in Seq(Char) BY <2>6, Piece
  <2> QED BY <2>5, <2>7
<1> QED BY <1>2, <1>3

\* Trim keeps what lies between the first and the last character that is not blank.
LEMMA TrimIs ==
  ASSUME NEW s \in Seq(Char), NEW a \in 1 .. Len(s), NEW b \in 1 .. Len(s),
         s[a] # "blank", s[b] # "blank", \A i \in 1 .. Len(s) : s[i] # "blank" => a <= i /\ i <= b
  PROVE  Trim(s) = SubSeq(s, a, b)
<1> DEFINE kept == {i \in 1 .. Len(s) : s[i] # "blank"}
<1>1. Len(s) \in Nat BY LenProperties
<1>2. kept \in SUBSET Nat /\ a \in kept /\ b \in kept
  <2>1. \A i \in 1 .. Len(s) : i \in Nat BY <1>1
  <2> QED BY <1>1, <2>1
<1>3. \A i \in kept : a <= i /\ i <= b BY <1>1
<1>4. Trim(s) = IF kept = {} THEN << >> ELSE SubSeq(s, Min(kept), Max(kept)) BY DEF Trim
<1> HIDE DEF kept
<1>5. Min(kept) = a BY <1>2, <1>3, MinOf
<1>6. Max(kept) = b BY <1>2, <1>3, MaxOf
<1> QED BY <1>2, <1>4, <1>5, <1>6

\* Nothing is kept of blanks only.
LEMMA TrimNothing ==
  ASSUME NEW s \in Seq(Char)
  PROVE  Trim(s) = << >> <=> \A i \in 1 .. Len(s) : s[i] = "blank"
<1>1. Len(s) \in Nat BY LenProperties
<1> DEFINE kept == {i \in 1 .. Len(s) : s[i] # "blank"}
<1>2. CASE kept = {} BY <1>1, <1>2 DEF Trim
<1>3. CASE kept # {}
  <2>1. kept \in SUBSET (0 .. Len(s)) /\ kept \in SUBSET Nat
    <3>1. \A i \in 1 .. Len(s) : i \in Nat /\ i \in 0 .. Len(s) BY <1>1
    <3> QED BY <3>1
  <2>2. Trim(s) = SubSeq(s, Min(kept), Max(kept)) BY <1>3 DEF Trim
  <2> HIDE DEF kept
  <2>3. PICK x \in kept : Min(kept) = x /\ \A y \in kept : x <= y BY <1>3, <2>1, FirstExists
  <2>4. PICK z \in kept : Max(kept) = z /\ \A y \in kept : y <= z
    BY <1>1, <1>3, <2>1, LastExists
  <2>5. x \in 1 .. Len(s) /\ z \in 1 .. Len(s) /\ x <= z /\ s[x] # "blank"
    BY <1>1, <2>3, <2>4 DEF kept
  <2>6. x \in 1 .. Len(s) + 1 /\ z \in x - 1 .. Len(s)
    <3>1. x \in Nat /\ z \in Nat BY <1>1, <2>5
    <3> QED BY <1>1, <2>5, <3>1
  <2>7. SubSeq(s, x, z) \in Seq(Char) /\ Len(SubSeq(s, x, z)) = z - x + 1 BY <2>6, Piece
  <2>8. Len(SubSeq(s, x, z)) # 0
    <3>1. x \in Nat /\ z \in Nat /\ x <= z BY <1>1, <2>5
    <3> QED BY <2>7, <3>1
  <2>9. SubSeq(s, x, z) # << >> BY <2>7, <2>8, EmptySeq
  <2> QED BY <2>2, <2>3, <2>4, <2>5, <2>9
<1> QED BY <1>2, <1>3

\* The same searches with positions that count from 1, as those of a sequence do.
LEMMA FirstIs ==
  ASSUME NEW line \in Seq(Char), NEW S, NEW from \in Nat,
         NEW x \in from + 1 .. Len(line), line[x] \in S,
         \A i \in from + 1 .. Len(line) : line[i] \in S => x <= i
  PROVE  FindFirst(line, S, from) = x - 1
<1>1. Len(line) \in Nat BY LenProperties
<1>2. x - 1 \in from .. Len(line) - 1 /\ (x - 1) + 1 = x /\ x \in Nat BY <1>1
<1> DEFINE f == FindFirst(line, S, from)
<1>3. ~(f = npos /\ \A i \in from .. Len(line) - 1 : line[i + 1] \notin S) BY <1>2
<1>4. /\ f \in from .. Len(line) - 1 /\ line[f + 1] \in S
      /\ \A i \in from .. Len(line) - 1 : line[i + 1] \in S => f <= i
  BY <1>3, FirstFound
<1> HIDE DEF f
<1>5. f <= x - 1 BY <1>2, <1>4
<1>6. f + 1 \in from + 1 .. Len(line) /\ f \in Nat BY <1>1, <1>4
<1>7. x <= f + 1 BY <1>4, <1>6
<1>8. f = x - 1 BY <1>2, <1>5, <1>6, <1>7
<1> QED BY <1>8 DEF f

\* A search fails when the set of characters does not occur.
LEMMA FirstIsNpos ==
  ASSUME NEW line \in Seq(Char), NEW S, NEW from \in Nat
  PROVE  FindFirst(line, S, from) = npos <=> \A i \in from + 1 .. Len(line) : line[i] \notin S
<1>1. Len(line) \in Nat BY LenProperties
<1> DEFINE f == FindFirst(line, S, from)
<1>2. ASSUME f = npos, NEW i \in from + 1 .. Len(line) PROVE line[i] \notin S
  <2>1. i - 1 \in from .. Len(line) - 1 /\ (i - 1) + 1 = i BY <1>1
  <2>2. f \notin from .. Len(line) - 1 BY <1>1, <1>2 DEF npos
  <2>3. \A j \in from .. Len(line) - 1 : line[j + 1] \notin S BY <2>2, FirstFound
  <2> QED BY <2>1, <2>3
<1>3. ASSUME \A i \in from + 1 .. Len(line) : line[i] \notin S PROVE f = npos
  <2>1. f \in from .. Len(line) - 1 => f + 1 \in from + 1 .. Len(line) BY <1>1
  <2> QED BY <1>3, <2>1, FirstFound
<1> QED BY <1>2, <1>3

\* A search that succeeds has found the first place.
LEMMA FirstAt ==
  ASSUME NEW line \in Seq(Char), NEW S, NEW from \in Nat, FindFirst(line, S, from) # npos
  PROVE  \E x \in from + 1 .. Len(line) :
           /\ FindFirst(line, S, from) = x - 1 /\ line[x] \in S
           /\ \A i \in from + 1 .. Len(line) : line[i] \in S => x <= i
<1>1. Len(line) \in Nat BY LenProperties
<1> DEFINE f == FindFirst(line, S, from)
<1>2. /\ f \in from .. Len(line) - 1 /\ line[f + 1] \in S
      /\ \A i \in from .. Len(line) - 1 : line[i + 1] \in S => f <= i
  BY FirstFound
<1> HIDE DEF f
<1>3. f + 1 \in from + 1 .. Len(line) /\ (f + 1) - 1 = f BY <1>1, <1>2
<1>4. ASSUME NEW i \in from + 1 .. Len(line), line[i] \in S PROVE f + 1 <= i
  <2>1. i - 1 \in from .. Len(line) - 1 /\ (i - 1) + 1 = i BY <1>1
  <2>2. f <= i - 1 BY <1>2, <1>4, <2>1
  <2> QED BY <1>1, <1>2, <2>2
<1> DEFINE G(x) == /\ f = x - 1 /\ line[x] \in S
                   /\ \A i \in from + 1 .. Len(line) : line[i] \in S => x <= i
<1>5. G(f + 1) BY <1>2, <1>3, <1>4
<1>6. \E x \in from + 1 .. Len(line) : G(x) BY <1>3, <1>5, Zenon
<1> QED BY <1>6 DEF f

\* The last place up to `to', which counts from 1 here.
LEMMA LastIs ==
  ASSUME NEW line \in Seq(Char), NEW S, NEW to \in 0 .. Len(line),
         NEW x \in 1 .. Len(line), line[x] \in S, to = 0 \/ x <= to,
         \A i \in 1 .. Len(line) : line[i] \in S /\ (to = 0 \/ i <= to) => i <= x
  PROVE  FindLast(line, S, to - 1) = x - 1
<1>1. Len(line) \in Nat BY LenProperties
<1> DEFINE f == FindLast(line, S, to - 1)
           In(i) == line[i + 1] \in S /\ (to - 1 = npos \/ i <= to - 1)
<1>2. x - 1 \in 0 .. Len(line) - 1 /\ (x - 1) + 1 = x /\ x \in Nat BY <1>1
<1>3. to \in Nat /\ to - 1 \in Nat \cup {npos} /\ (to - 1 = npos <=> to = 0) BY <1>1 DEF npos
<1>4. In(x - 1) BY <1>2, <1>3
<1>5. \/ /\ f = npos
         /\ \A i \in 0 .. Len(line) - 1 : to - 1 = npos \/ i <= to - 1 => line[i + 1] \notin S
      \/ /\ f \in 0 .. Len(line) - 1 /\ In(f)
         /\ \A i \in 0 .. Len(line) - 1 : In(i) => i <= f
  <2> DEFINE t == to - 1
  <2>1. t \in Nat \cup {npos} BY <1>3
  <2> HIDE DEF t
  <2>2. \/ /\ FindLast(line, S, t) = npos
           /\ \A i \in 0 .. Len(line) - 1 : t = npos \/ i <= t => line[i + 1] \notin S
        \/ /\ FindLast(line, S, t) \in 0 .. Len(line) - 1
           /\ line[FindLast(line, S, t) + 1] \in S /\ (t = npos \/ FindLast(line, S, t) <= t)
           /\ \A i \in 0 .. Len(line) - 1 :
                line[i + 1] \in S /\ (t = npos \/ i <= t) => i <= FindLast(line, S, t)
    BY <2>1, LastFound
  <2> QED BY <2>2 DEF t
<1> HIDE DEF f
<1>6. /\ f \in 0 .. Len(line) - 1 /\ In(f)
      /\ \A i \in 0 .. Len(line) - 1 : In(i) => i <= f
  BY <1>2, <1>4, <1>5
<1>7. x - 1 <= f BY <1>2, <1>4, <1>6
<1>8. f + 1 \in 1 .. Len(line) /\ f \in Nat BY <1>1, <1>6
<1>9. to = 0 \/ f + 1 <= to BY <1>3, <1>6, <1>8
<1>10. f + 1 <= x BY <1>6, <1>8, <1>9
<1>11. f = x - 1 BY <1>2, <1>7, <1>8, <1>10
<1> QED BY <1>11 DEF f

\* A piece of a line, trimmed.
LEMMA TrimPiece ==
  ASSUME NEW s \in Seq(Char), NEW m \in 1 .. Len(s) + 1, NEW n \in m - 1 .. Len(s),
         NEW a \in m .. n, NEW b \in a .. n, s[a] # "blank", s[b] # "blank",
         \A i \in m .. n : s[i] # "blank" => a <= i /\ i <= b
  PROVE  Trim(SubSeq(s, m, n)) = SubSeq(s, a, b)
<1> DEFINE p == SubSeq(s, m, n)
<1>1. Len(s) \in Nat BY LenProperties
<1>2. /\ p \in Seq(Char) /\ Len(p) = n - m + 1
      /\ \A i \in 1 .. n - m + 1 : p[i] = s[m + i - 1]
  BY Piece
<1> DEFINE x == a - m + 1
           y == b - m + 1
<1>3. m \in Nat /\ n \in Nat /\ a \in Nat /\ b \in Nat BY <1>1
<1>4. /\ x \in 1 .. n - m + 1 /\ y \in x .. n - m + 1
      /\ m + x - 1 = a /\ m + y - 1 = b
  BY <1>3
<1>5. SubSeq(p, x, y) = SubSeq(s, a, b)
  <2>1. x \in 1 .. n - m + 2 /\ y \in x - 1 .. n - m + 1 BY <1>3, <1>4
  <2> HIDE DEF x, y
  <2>2. SubSeq(SubSeq(s, m, n), x, y) = SubSeq(s, m + x - 1, m + y - 1) BY <2>1, PieceOfPiece
  <2> QED BY <1>4, <2>2
<1> HIDE DEF p, x, y
<1>6. p[x] # "blank" /\ p[y] # "blank"
  <2>1. x \in 1 .. n - m + 1 /\ y \in 1 .. n - m + 1 BY <1>3, <1>4
  <2>2. p[x] = s[a] /\ p[y] = s[b] BY <1>2, <1>4, <2>1
  <2> QED BY <2>2
<1>7. ASSUME NEW i \in 1 .. Len(p), p[i] # "blank" PROVE x <= i /\ i <= y
  <2>1. i \in 1 .. n - m + 1 /\ m + i - 1 \in m .. n BY <1>2, <1>3
  <2>2. a <= m + i - 1 /\ m + i - 1 <= b BY <1>2, <1>7, <2>1
  <2> QED BY <1>3, <2>1, <2>2 DEF x, y
<1>8. x \in 1 .. Len(p) /\ y \in 1 .. Len(p) BY <1>2, <1>3, <1>4
<1>9. Trim(p) = SubSeq(p, x, y) BY <1>2, <1>6, <1>7, <1>8, TrimIs
<1> QED BY <1>5, <1>9 DEF p

\* A piece of blanks is trimmed to nothing, and no other.
LEMMA TrimPieceNothing ==
  ASSUME NEW s \in Seq(Char), NEW m \in 1 .. Len(s) + 1, NEW n \in m - 1 .. Len(s)
  PROVE  Trim(SubSeq(s, m, n)) = << >> <=> \A i \in m .. n : s[i] = "blank"
<1> DEFINE p == SubSeq(s, m, n)
<1>1. Len(s) \in Nat BY LenProperties
<1>2. /\ p \in Seq(Char) /\ Len(p) = n - m + 1
      /\ \A i \in 1 .. n - m + 1 : p[i] = s[m + i - 1]
  BY Piece
<1> HIDE DEF p
<1>3. m \in Nat /\ n \in Int BY <1>1
<1>4. ASSUME \A i \in 1 .. Len(p) : p[i] = "blank", NEW i \in m .. n PROVE s[i] = "blank"
  <2>1. i - m + 1 \in 1 .. n - m + 1 /\ m + (i - m + 1) - 1 = i BY <1>3
  <2>2. p[i - m + 1] = s[i] BY <1>2, <2>1
  <2> QED BY <1>2, <1>4, <2>1, <2>2
<1>5. ASSUME \A i \in m .. n : s[i] = "blank", NEW i \in 1 .. Len(p) PROVE p[i] = "blank"
  <2>1. i \in 1 .. n - m + 1 /\ m + i - 1 \in m .. n BY <1>2, <1>3
  <2> QED BY <1>2, <1>5, <2>1
<1>6. Trim(p) = << >> <=> \A i \in 1 .. Len(p) : p[i] = "blank" BY <1>2, TrimNothing
<1>7. Trim(p) = << >> <=> \A i \in m .. n : s[i] = "blank" BY <1>4, <1>5, <1>6
<1> QED BY <1>7 DEF p

\* What a trimmed piece keeps, when it keeps anything.
LEMMA TrimmedPiece ==
  ASSUME NEW s \in Seq(Char), NEW m \in 1 .. Len(s) + 1, NEW n \in m - 1 .. Len(s),
         Trim(SubSeq(s, m, n)) # << >>
  PROVE  \E a \in m .. n : \E b \in a .. n :
           /\ s[a] # "blank" /\ s[b] # "blank"
           /\ \A i \in m .. n : s[i] # "blank" => a <= i /\ i <= b
           /\ Trim(SubSeq(s, m, n)) = SubSeq(s, a, b)
<1> DEFINE S == {i \in m .. n : s[i] # "blank"}
<1>1. Len(s) \in Nat BY LenProperties
<1>2. m \in Nat /\ n \in Nat BY <1>1
<1>3. S # {} BY TrimPieceNothing
<1>4. S \in SUBSET Nat /\ S \in SUBSET (0 .. n)
  <2>1. \A i \in m .. n : i \in Nat /\ i \in 0 .. n BY <1>2
  <2> QED BY <2>1
<1>5. PICK a \in S : \A i \in S : a <= i BY <1>3, <1>4, LeastNumber
<1>6. PICK b \in S : \A i \in S : i <= b
  <2> HIDE DEF S
  <2> QED BY <1>2, <1>3, <1>4, LastExists
<1>7. a \in m .. n /\ b \in a .. n
  <2>1. a \in m .. n /\ b \in m .. n /\ a <= b BY <1>5, <1>6
  <2> QED BY <1>2, <2>1
<1>8. /\ s[a] # "blank" /\ s[b] # "blank"
      /\ \A i \in m .. n : s[i] # "blank" => a <= i /\ i <= b
  BY <1>5, <1>6
<1>9. Trim(SubSeq(s, m, n)) = SubSeq(s, a, b) BY <1>7, <1>8, TrimPiece
<1> QED BY <1>7, <1>8, <1>9

-----------------------------------------------------------------------------
(* ConfigReader: one line *)

\* Exactly the lines without a sign, and the comments, have nothing to parse.
LEMMA SilentIs ==
  ASSUME NEW line \in Seq(Char)
  PROVE  Silent(line) <=> \/ FindFirst(line, {"hash"}, 0) # npos
                          \/ FindFirst(line, {"sign"}, 0) = npos
<1>1. 0 \in Nat /\ Len(line) \in Nat BY LenProperties
<1>2. ASSUME NEW c PROVE FindFirst(line, {c}, 0) = npos <=> ~Occurs(c, line)
  <2>1. FindFirst(line, {c}, 0) = npos <=> \A i \in 0 + 1 .. Len(line) : line[i] \notin {c}
    BY <1>1, FirstIsNpos
  <2>2. 0 + 1 .. Len(line) = 1 .. Len(line) BY <1>1
  <2> QED BY <2>1, <2>2 DEF Occurs
<1> QED BY <1>2 DEF Silent

\* The sign of a line is the first one.
LEMMA SignAt ==
  ASSUME NEW line \in Seq(Char), ~Silent(line)
  PROVE  /\ Sign(line) \in 1 .. Len(line) /\ line[Sign(line)] = "sign"
         /\ FindFirst(line, {"sign"}, 0) = Sign(line) - 1
<1>1. 0 \in Nat /\ Len(line) \in Nat /\ 0 + 1 .. Len(line) = 1 .. Len(line) BY LenProperties
<1>2. FindFirst(line, {"sign"}, 0) # npos BY SilentIs
<1>3. PICK x \in 1 .. Len(line) :
        /\ FindFirst(line, {"sign"}, 0) = x - 1 /\ line[x] \in {"sign"}
        /\ \A i \in 1 .. Len(line) : line[i] \in {"sign"} => x <= i
  <2>1. \E x \in 0 + 1 .. Len(line) :
          /\ FindFirst(line, {"sign"}, 0) = x - 1 /\ line[x] \in {"sign"}
          /\ \A i \in 0 + 1 .. Len(line) : line[i] \in {"sign"} => x <= i
    BY <1>1, <1>2, FirstAt
  <2> QED BY <1>1, <2>1
<1> DEFINE T == {i \in 1 .. Len(line) : line[i] = "sign"}
<1>4. T \in SUBSET Nat /\ x \in T /\ \A i \in T : x <= i
  <2>1. \A i \in 1 .. Len(line) : i \in Nat BY <1>1
  <2> QED BY <1>3, <2>1
<1>5. Sign(line) = Min(T) BY DEF Sign
<1> HIDE DEF T
<1>6. Sign(line) = x BY <1>4, <1>5, MinOf
<1> QED BY <1>3, <1>6

\* The part in front of the sign, when something is there, is the key.
LEMMA KeyIs ==
  ASSUME NEW line \in Seq(Char), ~Silent(line), Left(line) # << >>
  PROVE  Key(line, Sign(line) - 1) = Left(line)
<1> DEFINE p == Sign(line)
           NB == Char \ filters
<1>1. Len(line) \in Nat /\ p \in 1 .. Len(line) BY SignAt, LenProperties
<1>2. Left(line) = Trim(SubSeq(line, 1, p - 1)) BY DEF Left
<1> HIDE DEF p
<1>3. 1 \in 1 .. Len(line) + 1 /\ p - 1 \in 1 - 1 .. Len(line) BY <1>1
<1>4. PICK a \in 1 .. p - 1 : \E b \in a .. p - 1 :
        /\ line[a] # "blank" /\ line[b] # "blank"
        /\ \A i \in 1 .. p - 1 : line[i] # "blank" => a <= i /\ i <= b
        /\ Trim(SubSeq(line, 1, p - 1)) = SubSeq(line, a, b)
  <2> DEFINE n == p - 1
  <2>1. n \in 1 - 1 .. Len(line) /\ Trim(SubSeq(line, 1, n)) # << >> BY <1>2, <1>3
  <2> HIDE DEF n
  <2>2. \E a \in 1 .. n : \E b \in a .. n :
          /\ line[a] # "blank" /\ line[b] # "blank"
          /\ \A i \in 1 .. n : line[i] # "blank" => a <= i /\ i <= b
          /\ Trim(SubSeq(line, 1, n)) = SubSeq(line, a, b)
    BY <1>3, <2>1, TrimmedPiece
  <2> QED BY <2>2 DEF n
<1>5. PICK b \in a .. p - 1 :
        /\ line[a] # "blank" /\ line[b] # "blank"
        /\ \A i \in 1 .. p - 1 : line[i] # "blank" => a <= i /\ i <= b
        /\ Trim(SubSeq(line, 1, p - 1)) = SubSeq(line, a, b)
  BY <1>4
<1>6. \A i \in 1 .. Len(line) : line[i] \in NB <=> line[i] # "blank"
  <2>1. \A i \in 1 .. Len(line) : line[i] \in Char BY ElementOfSeq
  <2> QED BY <2>1 DEF filters
<1>7. /\ p \in Nat /\ a \in Nat /\ b \in Nat /\ a \in 1 .. Len(line) /\ b \in 1 .. Len(line)
      /\ a <= p - 1 /\ b <= p - 1 /\ a <= b
  BY <1>1, <1>4, <1>5
<1>8. FindFirst(line, NB, 0) = a - 1
  <2>1. 0 \in Nat /\ 0 + 1 .. Len(line) = 1 .. Len(line) BY <1>1
  <2>2. ASSUME NEW i \in 1 .. Len(line), line[i] \in NB PROVE a <= i
    <3>1. CASE i \in 1 .. p - 1 BY <1>5, <1>6, <2>2, <3>1
    <3>2. CASE i \notin 1 .. p - 1 BY <1>1, <1>7, <3>2
    <3> QED BY <3>1, <3>2
  <2>3. line[a] \in NB BY <1>5, <1>6, <1>7
  <2> HIDE DEF NB
  <2> QED BY <1>7, <2>1, <2>2, <2>3, FirstIs
<1>9. FindLast(line, NB, (p - 1) - 1) = b - 1
  <2> DEFINE to == p - 1
  <2>1. to \in 0 .. Len(line) /\ (to = 0 \/ b <= to) BY <1>1, <1>7
  <2>2. ASSUME NEW i \in 1 .. Len(line), line[i] \in NB, to = 0 \/ i <= to PROVE i <= b
    <3>1. i \in 1 .. p - 1 BY <1>1, <1>7, <2>2
    <3> QED BY <1>5, <1>6, <2>2, <3>1
  <2>3. line[b] \in NB BY <1>5, <1>6, <1>7
  <2> HIDE DEF NB, to
  <2>4. FindLast(line, NB, to - 1) = b - 1 BY <1>7, <2>1, <2>2, <2>3, LastIs
  <2> QED BY <2>4 DEF to
<1>10. Key(line, p - 1) = Substring(line, a - 1, (b - 1) - (a - 1) + 1) BY <1>8, <1>9 DEF Key
<1>11. Substring(line, a - 1, (b - 1) - (a - 1) + 1) = SubSeq(line, a, b)
  <2> DEFINE k == a - 1
             n == (b - 1) - (a - 1) + 1
  <2>1. k \in Nat /\ n \in Nat /\ k + n <= Len(line) /\ k + 1 = a /\ k + n = b BY <1>1, <1>7
  <2> HIDE DEF k, n
  <2>2. Substring(line, k, n) = SubSeq(line, k + 1, k + n) BY <2>1, SubstringIs
  <2>3. Substring(line, k, n) = SubSeq(line, a, b) BY <2>1, <2>2
  <2> QED BY <2>3 DEF k, n
<1>12. Key(line, p - 1) = Left(line) BY <1>2, <1>5, <1>10, <1>11
<1> QED BY <1>12 DEF p

\* Where the value of a line begins and ends, when it has one: its end is that of
\* the line's last word.
LEMMA RightAt ==
  ASSUME NEW line \in Seq(Char), ~Silent(line), Right(line) # << >>
  PROVE  \E a \in Sign(line) + 1 .. Len(line) : \E b \in a .. Len(line) :
           /\ line[a] # "blank" /\ line[b] # "blank"
           /\ \A i \in Sign(line) + 1 .. Len(line) : line[i] # "blank" => a <= i /\ i <= b
           /\ Right(line) = SubSeq(line, a, b)
           /\ FindLast(line, Char \ filters, npos) = b - 1
<1> DEFINE m == Sign(line) + 1
           n == Len(line)
           NB == Char \ filters
<1>1. n \in Nat /\ Sign(line) \in 1 .. n BY SignAt, LenProperties
<1>2. m \in 1 .. n + 1 /\ n \in m - 1 .. Len(line) BY <1>1
<1>3. Right(line) = Trim(SubSeq(line, m, n)) BY DEF Right, Rest
<1> HIDE DEF m
<1>4. \E a \in m .. n : \E b \in a .. n :
        /\ line[a] # "blank" /\ line[b] # "blank"
        /\ \A i \in m .. n : line[i] # "blank" => a <= i /\ i <= b
        /\ Trim(SubSeq(line, m, n)) = SubSeq(line, a, b)
  BY <1>2, <1>3, TrimmedPiece
<1>5. PICK a \in m .. n : \E b \in a .. n :
        /\ line[a] # "blank" /\ line[b] # "blank"
        /\ \A i \in m .. n : line[i] # "blank" => a <= i /\ i <= b
        /\ Trim(SubSeq(line, m, n)) = SubSeq(line, a, b)
  BY <1>4
<1>6. PICK b \in a .. n :
        /\ line[a] # "blank" /\ line[b] # "blank"
        /\ \A i \in m .. n : line[i] # "blank" => a <= i /\ i <= b
        /\ Trim(SubSeq(line, m, n)) = SubSeq(line, a, b)
  BY <1>5
<1>7. m \in Nat /\ a \in Nat /\ b \in Nat /\ m <= a /\ a <= b /\ b <= n /\ b \in 1 .. n
  BY <1>1, <1>2, <1>5, <1>6
<1>8. FindLast(line, NB, npos) = b - 1
  <2> DEFINE to == 0
  <2>1. to \in 0 .. Len(line) BY <1>1
  <2>2. \A i \in 1 .. n : line[i] \in NB <=> line[i] # "blank"
    <3>1. \A i \in 1 .. Len(line) : line[i] \in Char BY ElementOfSeq
    <3> QED BY <3>1 DEF filters
  <2>3. ASSUME NEW i \in 1 .. n, line[i] \in NB PROVE i <= b
    <3>1. CASE i \in m .. n BY <1>6, <2>2, <2>3, <3>1
    <3>2. CASE i \notin m .. n BY <1>1, <1>7, <3>2
    <3> QED BY <3>1, <3>2
  <2>4. line[b] \in NB BY <1>6, <1>7, <2>2
  <2> HIDE DEF NB, to
  <2>5. to = 0 BY DEF to
  <2>6. FindLast(line, NB, to - 1) = b - 1 BY <1>7, <2>1, <2>3, <2>4, <2>5, LastIs
  <2> QED BY <2>5, <2>6 DEF npos
<1>9. \E y \in a .. n :
        /\ line[a] # "blank" /\ line[y] # "blank"
        /\ \A i \in m .. n : line[i] # "blank" => a <= i /\ i <= y
        /\ Right(line) = SubSeq(line, a, y)
        /\ FindLast(line, NB, npos) = y - 1
  <2> HIDE DEF NB
  <2>1. Right(line) = SubSeq(line, a, b) BY <1>3, <1>6
  <2> QED BY <1>6, <1>8, <2>1
<1> QED BY <1>5, <1>9 DEF m

\* The characters behind the sign.
LEMMA RestIs ==
  ASSUME NEW line \in Seq(Char), ~Silent(line)
  PROVE  /\ Rest(line) \in Seq(Char) /\ Len(Rest(line)) = Len(line) - Sign(line)
         /\ \A i \in 1 .. Len(line) - Sign(line) : Rest(line)[i] = line[Sign(line) + i]
         /\ \A c : ~Occurs(c, Rest(line)) <=> \A i \in Sign(line) + 1 .. Len(line) : line[i] # c
<1> DEFINE p == Sign(line)
           n == Len(line)
           r == Rest(line)
<1>1. n \in Nat /\ p \in 1 .. n BY SignAt, LenProperties
<1>2. /\ r \in Seq(Char) /\ Len(r) = n - (p + 1) + 1
      /\ \A i \in 1 .. n - (p + 1) + 1 : r[i] = line[p + 1 + i - 1]
  <2> DEFINE m == p + 1
  <2>1. m \in 1 .. Len(line) + 1 /\ n \in m - 1 .. Len(line) BY <1>1
  <2> HIDE DEF m
  <2>2. /\ SubSeq(line, m, n) \in Seq(Char) /\ Len(SubSeq(line, m, n)) = n - m + 1
        /\ \A i \in 1 .. n - m + 1 : SubSeq(line, m, n)[i] = line[m + i - 1]
    BY <2>1, Piece
  <2>3. r = SubSeq(line, m, n) BY DEF Rest, m
  <2> HIDE DEF r, p, n
  <2> QED BY <2>2, <2>3 DEF m
<1> HIDE DEF r, p
<1>3. Len(r) = n - p /\ n - (p + 1) + 1 = n - p BY <1>1, <1>2
<1>4. ASSUME NEW i \in 1 .. n - p PROVE r[i] = line[p + i]
  <2>1. i \in Nat /\ p + 1 + i - 1 = p + i BY <1>1
  <2> QED BY <1>2, <1>3, <2>1
<1>5. ASSUME NEW c PROVE ~Occurs(c, r) <=> \A i \in p + 1 .. n : line[i] # c
  <2>1. ASSUME ~Occurs(c, r), NEW i \in p + 1 .. n PROVE line[i] # c
    <3>1. i - p \in 1 .. n - p /\ p + (i - p) = i BY <1>1
    <3>2. r[i - p] = line[i] BY <1>4, <3>1
    <3>3. r[i - p] # c BY <1>3, <2>1, <3>1 DEF Occurs
    <3> QED BY <3>2, <3>3
  <2>2. ASSUME \A i \in p + 1 .. n : line[i] # c, NEW i \in 1 .. Len(r) PROVE r[i] # c
    <3>1. i \in 1 .. n - p /\ p + i \in p + 1 .. n BY <1>1, <1>3
    <3> QED BY <1>4, <2>2, <3>1
  <2> QED BY <2>1, <2>2 DEF Occurs
<1> QED BY <1>2, <1>3, <1>4, <1>5 DEF r, p

\* What ParseLine computes, by the place of the sign.
LEMMA ParsedIs ==
  ASSUME NEW line \in Seq(Char), ~Silent(line)
  PROVE  LET quotation == FindFirst(line, {"q"}, Sign(line))
             begin == FindFirst(line, Char \ filters, Sign(line) + 1)
             end == FindLast(line, Char \ filters, npos)
         IN Parsed(line) =
              IF quotation # npos /\ end <= quotation THEN NONE
              ELSE IF quotation = npos /\ begin = npos THEN THROWS
              ELSE [key |-> Key(line, Sign(line) - 1),
                    value |-> IF quotation = npos THEN Substring(line, begin, end - begin + 1)
                              ELSE Substring(line, quotation + 1, end - quotation - 1)]
<1> DEFINE pos == FindFirst(line, {"sign"}, 0)
<1>1. /\ pos = Sign(line) - 1 /\ Sign(line) \in Nat /\ pos # npos
      /\ FindFirst(line, {"hash"}, 0) = npos
  <2>1. Len(line) \in Nat /\ Sign(line) \in 1 .. Len(line) BY SignAt, LenProperties
  <2> QED BY <2>1, SignAt, SilentIs
<1> HIDE DEF pos
<1>2. pos + 1 = Sign(line) /\ pos + 2 = Sign(line) + 1 BY <1>1
<1>3. Parsed(line) =
        LET quotation == FindFirst(line, {"q"}, pos + 1)
            begin == FindFirst(line, Char \ filters, pos + 2)
            end == FindLast(line, Char \ filters, npos)
            integer == quotation = npos
        IN IF \/ FindFirst(line, {"hash"}, 0) # npos \/ pos = npos
              \/ ~integer /\ end <= quotation
           THEN NONE
           ELSE IF integer /\ begin = npos THEN THROWS
           ELSE [key |-> Key(line, pos),
                 value |-> IF integer THEN Substring(line, begin, end - begin + 1)
                           ELSE Substring(line, quotation + 1, end - quotation - 1)]
  BY Zenon DEF Parsed, IntegerBegin, pos
<1> QED BY <1>1, <1>2, <1>3

\* A line of the documented form gives its key what it says.
LEMMA DocumentedParsed ==
  ASSUME NEW line \in Seq(Char), ~Silent(line), Documented(line)
  PROVE  Parsed(line) = [key |-> Left(line), value |-> Said(line)]
<1> DEFINE p == Sign(line)
           n == Len(line)
           NB == Char \ filters
           quotation == FindFirst(line, {"q"}, p)
           begin == FindFirst(line, NB, p + 1)
           end == FindLast(line, NB, npos)
<1>1. n \in Nat /\ p \in 1 .. n BY SignAt, LenProperties
<1>2. /\ Left(line) # << >> /\ Right(line) # << >>
      /\ Quoted(Right(line)) \/ (~Occurs("q", Rest(line)) /\ Rest(line)[1] = "blank")
  BY DEF Documented
<1>3. PICK a \in p + 1 .. n : \E b \in a .. n :
        /\ line[a] # "blank" /\ line[b] # "blank"
        /\ \A i \in p + 1 .. n : line[i] # "blank" => a <= i /\ i <= b
        /\ Right(line) = SubSeq(line, a, b)
        /\ end = b - 1
  BY <1>2, RightAt
<1>4. PICK b \in a .. n :
        /\ line[a] # "blank" /\ line[b] # "blank"
        /\ \A i \in p + 1 .. n : line[i] # "blank" => a <= i /\ i <= b
        /\ Right(line) = SubSeq(line, a, b)
        /\ end = b - 1
  BY <1>3
<1>5. \A i \in 1 .. n : line[i] \in NB <=> line[i] # "blank"
  <2>1. \A i \in 1 .. Len(line) : line[i] \in Char BY ElementOfSeq
  <2> QED BY <2>1 DEF filters
<1>6. Key(line, p - 1) = Left(line) BY <1>2, KeyIs
<1>7. Parsed(line) =
        IF quotation # npos /\ end <= quotation THEN NONE
        ELSE IF quotation = npos /\ begin = npos THEN THROWS
        ELSE [key |-> Key(line, p - 1),
              value |-> IF quotation = npos THEN Substring(line, begin, end - begin + 1)
                        ELSE Substring(line, quotation + 1, end - quotation - 1)]
  BY ParsedIs
<1>8. quotation = npos <=> ~Occurs("q", Rest(line))
  <2>1. quotation = npos <=> \A i \in p + 1 .. n : line[i] \notin {"q"}
    <3>1. p \in Nat BY <1>1
    <3> HIDE DEF p
    <3> QED BY <3>1, FirstIsNpos
  <2>2. ~Occurs("q", Rest(line)) <=> \A i \in p + 1 .. n : line[i] # "q" BY RestIs
  <2> HIDE DEF quotation, p
  <2> QED BY <2>1, <2>2
<1>9. /\ SubSeq(line, a, b) \in Seq(Char) /\ Len(SubSeq(line, a, b)) = b - a + 1
      /\ \A i \in 1 .. b - a + 1 : SubSeq(line, a, b)[i] = line[a + i - 1]
  <2>1. a \in 1 .. Len(line) + 1 /\ b \in a - 1 .. Len(line)
    <3> HIDE DEF p
    <3> QED BY <1>1
  <2> QED BY <2>1, Piece
<1> HIDE DEF quotation, begin, end, p
<1>10. /\ p \in Nat /\ a \in Nat /\ b \in Nat /\ p + 1 <= a /\ a <= b /\ b <= n
       /\ a \in 1 .. n /\ b \in 1 .. n
  BY <1>1, <1>3, <1>4
<1>11. Len(Right(line)) = b - a + 1 /\ Right(line)[1] = line[a] /\ Right(line)[b - a + 1] = line[b]
  <2>1. 1 \in 1 .. b - a + 1 /\ b - a + 1 \in 1 .. b - a + 1 BY <1>10
  <2>2. a + 1 - 1 = a /\ a + (b - a + 1) - 1 = b BY <1>10
  <2> QED BY <1>4, <1>9, <2>1, <2>2
<1>12. CASE Quoted(Right(line))
  <2>1. a < b /\ line[a] = "q" /\ line[b] = "q"
    <3>1. b - a + 1 > 1 /\ line[a] = "q" /\ line[b] = "q" BY <1>11, <1>12 DEF Quoted
    <3> QED BY <1>10, <3>1
  <2>2. quotation = a - 1
    <3>1. \A i \in p + 1 .. n : line[i] \in {"q"} => a <= i BY <1>4
    <3>2. FindFirst(line, {"q"}, p) = a - 1 BY <1>3, <1>10, <2>1, <3>1, FirstIs
    <3> QED BY <3>2 DEF quotation
  <2>3. quotation # npos /\ ~(end <= quotation) BY <1>4, <1>10, <2>1, <2>2 DEF npos
  <2>4. Substring(line, quotation + 1, end - quotation - 1) = SubSeq(line, a + 1, b - 1)
    <3> DEFINE k == quotation + 1
               c == end - quotation - 1
    <3>1. /\ k \in Nat /\ c \in Nat /\ k + c <= Len(line)
          /\ k + 1 = a + 1 /\ k + c = b - 1
      BY <1>4, <1>10, <2>1, <2>2
    <3> HIDE DEF k, c
    <3>2. Substring(line, k, c) = SubSeq(line, k + 1, k + c) BY <3>1, SubstringIs
    <3>3. Substring(line, k, c) = SubSeq(line, a + 1, b - 1) BY <3>1, <3>2
    <3> QED BY <3>3 DEF k, c
  <2>5. Said(line) = SubSeq(SubSeq(line, a, b), 2, b - a)
    <3>1. Said(line) = SubSeq(Right(line), 2, Len(Right(line)) - 1) BY <1>12 DEF Said
    <3>2. Len(Right(line)) - 1 = b - a BY <1>10, <1>11
    <3> QED BY <1>4, <3>1, <3>2
  <2>6. SubSeq(SubSeq(line, a, b), 2, b - a) = SubSeq(line, a + 1, b - 1)
    <3> DEFINE x == 2
               y == b - a
    <3>1. /\ a \in 1 .. Len(line) + 1 /\ b \in a - 1 .. Len(line)
          /\ x \in 1 .. b - a + 2 /\ y \in x - 1 .. b - a + 1
          /\ a + x - 1 = a + 1 /\ a + y - 1 = b - 1
      BY <1>10, <2>1
    <3> HIDE DEF x, y
    <3>2. SubSeq(SubSeq(line, a, b), x, y) = SubSeq(line, a + x - 1, a + y - 1)
      BY <3>1, PieceOfPiece
    <3>3. SubSeq(SubSeq(line, a, b), x, y) = SubSeq(line, a + 1, b - 1) BY <3>1, <3>2
    <3> QED BY <3>3 DEF x, y
  <2>7. Parsed(line) = [key |-> Key(line, p - 1),
                        value |-> Substring(line, quotation + 1, end - quotation - 1)]
    BY <1>7, <2>3
  <2>8. Substring(line, quotation + 1, end - quotation - 1) = Said(line) BY <2>4, <2>5, <2>6
  <2> QED BY <1>6, <2>7, <2>8
<1>13. CASE ~Quoted(Right(line))
  <2>1. quotation = npos /\ Rest(line)[1] = "blank" BY <1>2, <1>8, <1>13
  <2>2. line[p + 1] = "blank"
    <3>1. 1 \in 1 .. n - p BY <1>1, <1>10
    <3>2. Rest(line)[1] = line[p + 1] BY <3>1, RestIs DEF p
    <3> QED BY <2>1, <3>2
  <2>3. a # p + 1 BY <1>4, <2>2
  <2>4. begin = a - 1
    <3> DEFINE from == p + 1
    <3>1. from \in Nat /\ a \in from + 1 .. Len(line) BY <1>10, <2>3
    <3>2. line[a] \in NB BY <1>4, <1>5, <1>10
    <3>3. ASSUME NEW i \in from + 1 .. Len(line), line[i] \in NB PROVE a <= i
      <4>1. i \in p + 1 .. n /\ i \in 1 .. n BY <1>1, <1>10
      <4> QED BY <1>4, <1>5, <3>3, <4>1
    <3> HIDE DEF from, NB
    <3>4. FindFirst(line, NB, from) = a - 1 BY <3>1, <3>2, <3>3, FirstIs
    <3> QED BY <3>4 DEF from, begin
  <2>5. begin # npos BY <1>10, <2>4 DEF npos
  <2>6. Substring(line, begin, end - begin + 1) = SubSeq(line, a, b)
    <3> DEFINE k == begin
               c == end - begin + 1
    <3>1. /\ k \in Nat /\ c \in Nat /\ k + c <= Len(line)
          /\ k + 1 = a /\ k + c = b
      BY <1>4, <1>10, <2>4
    <3> HIDE DEF k, c
    <3>2. Substring(line, k, c) = SubSeq(line, k + 1, k + c) BY <3>1, SubstringIs
    <3>3. Substring(line, k, c) = SubSeq(line, a, b) BY <3>1, <3>2
    <3> QED BY <3>3 DEF k, c
  <2>7. Said(line) = Right(line) BY <1>13 DEF Said
  <2>8. Parsed(line) = [key |-> Key(line, p - 1),
                        value |-> Substring(line, begin, end - begin + 1)]
    BY <1>7, <2>1, <2>5
  <2> QED BY <1>4, <1>6, <2>6, <2>7, <2>8
<1> QED BY <1>12, <1>13

\* Whatever a line holds, ParseLine makes an entry of it, or nothing, or throws.
LEMMA ParsedType ==
  ASSUME NEW line \in Seq(Char)
  PROVE  /\ Parsed(line) \in Entry \cup {NONE, THROWS}
         /\ Silent(line) => Parsed(line) = NONE
         /\ Parsed(line) = THROWS => /\ FindFirst(line, {"q"}, Sign(line)) = npos
                                     /\ FindFirst(line, Char \ filters, Sign(line) + 1) = npos
<1>1. CASE Silent(line)
  <2>1. FindFirst(line, {"hash"}, 0) # npos \/ FindFirst(line, {"sign"}, 0) = npos
    BY <1>1, SilentIs
  <2>2. Parsed(line) = NONE BY <2>1 DEF Parsed
  <2> QED BY <2>2, ConfigAssumption
<1>2. CASE ~Silent(line)
  <2> DEFINE p == Sign(line)
             n == Len(line)
             NB == Char \ filters
             quotation == FindFirst(line, {"q"}, p)
             begin == FindFirst(line, NB, p + 1)
             end == FindLast(line, NB, npos)
             first == FindFirst(line, NB, 0)
             last == FindLast(line, NB, (p - 1) - 1)
             key == Key(line, p - 1)
             value == IF quotation = npos THEN Substring(line, begin, end - begin + 1)
                      ELSE Substring(line, quotation + 1, end - quotation - 1)
  <2>1. /\ n \in Nat /\ p \in 1 .. n /\ line[p] = "sign" /\ p \in Nat /\ p + 1 \in Nat
        /\ 0 \in Nat /\ npos \in Nat \cup {npos} /\ npos = -1
    <3>1. n \in Nat /\ p \in 1 .. n /\ line[p] = "sign" BY <1>2, SignAt, LenProperties
    <3> HIDE DEF p
    <3> QED BY <3>1 DEF npos
  <2>2. Parsed(line) =
          IF quotation # npos /\ end <= quotation THEN NONE
          ELSE IF quotation = npos /\ begin = npos THEN THROWS
          ELSE [key |-> key, value |-> value]
    BY <1>2, ParsedIs
  <2> HIDE DEF p
  <2>3. first \in 0 .. n - 1
    <3>1. line[p] \in NB BY <2>1 DEF filters, Char
    <3>2. p - 1 \in 0 .. n - 1 /\ (p - 1) + 1 = p BY <2>1
    <3>3. \/ first = npos /\ \A i \in 0 .. n - 1 : line[i + 1] \notin NB
          \/ first \in 0 .. n - 1
      <4> HIDE DEF NB
      <4> QED BY <2>1, FirstFound
    <3> QED BY <3>1, <3>2, <3>3
  <2>4. last \in Int
    <3> DEFINE to == (p - 1) - 1
    <3>1. to \in Nat \cup {npos} BY <2>1
    <3> HIDE DEF to, NB
    <3>2. FindLast(line, NB, to) = npos \/ FindLast(line, NB, to) \in 0 .. n - 1 BY <3>1, LastFound
    <3>3. FindLast(line, NB, to) \in Int BY <2>1, <3>2
    <3> QED BY <3>3 DEF to
  <2>5. end \in -1 .. n - 1
    <3> HIDE DEF NB
    <3>1. end = npos \/ end \in 0 .. n - 1 BY <2>1, LastFound
    <3> HIDE DEF end
    <3> QED BY <2>1, <3>1
  <2>6. quotation = npos \/ quotation \in p .. n - 1 BY <2>1, FirstFound
  <2>7. begin = npos \/ begin \in p + 1 .. n - 1
    <3> DEFINE from == p + 1
    <3>1. from \in Nat BY <2>1
    <3> HIDE DEF from, NB
    <3>2. FindFirst(line, NB, from) = npos \/ FindFirst(line, NB, from) \in from .. n - 1
      BY <3>1, FirstFound
    <3> QED BY <3>2 DEF from
  <2>8. key \in Seq(Char)
    <3>1. key = Substring(line, first, last - first + 1) BY DEF Key
    <3> HIDE DEF first, last, key
    <3> DEFINE c == last - first + 1
    <3>2. first \in Nat /\ first <= Len(line) /\ c \in Int BY <2>1, <2>3, <2>4
    <3> HIDE DEF c
    <3>3. Substring(line, first, c) \in Seq(Char) BY <3>2, SubstringType
    <3> QED BY <3>1, <3>3 DEF c
  <2> HIDE DEF quotation, begin, end, key
  <2>9. ASSUME quotation = npos, begin # npos PROVE value \in Seq(Char)
    <3> DEFINE c == end - begin + 1
    <3>1. begin \in Nat /\ begin <= Len(line) /\ c \in Int BY <2>1, <2>5, <2>7, <2>9
    <3>2. value = Substring(line, begin, c) BY <2>9
    <3> HIDE DEF c, value
    <3> QED BY <3>1, <3>2, SubstringType
  <2>10. ASSUME quotation # npos PROVE value \in Seq(Char)
    <3> DEFINE k == quotation + 1
               c == end - quotation - 1
    <3>1. k \in Nat /\ k <= Len(line) /\ c \in Int BY <2>1, <2>5, <2>6, <2>10
    <3>2. value = Substring(line, k, c) BY <2>10
    <3> HIDE DEF c, value, k
    <3> QED BY <3>1, <3>2, SubstringType
  <2> HIDE DEF value
  <2>11. value \in Seq(Char) => [key |-> key, value |-> value] \in Entry BY <2>8 DEF Entry
  <2> DEFINE entry == [key |-> key, value |-> value]
  <2>12. CASE quotation # npos /\ end <= quotation BY <1>2, <2>2, <2>12, ConfigAssumption
  <2>13. CASE quotation = npos /\ begin = npos
    <3>1. Parsed(line) = THROWS BY <2>2, <2>13
    <3> QED BY <1>2, <2>13, <3>1 DEF quotation, begin, p
  <2>14. CASE /\ ~(quotation # npos /\ end <= quotation)
              /\ ~(quotation = npos /\ begin = npos)
    <3>1. Parsed(line) = entry BY <2>2, <2>14
    <3>2. entry \in Entry BY <2>9, <2>10, <2>11, <2>14
    <3> HIDE DEF entry
    <3>3. Parsed(line) \in Entry /\ Parsed(line) # THROWS BY <3>1, <3>2, ConfigAssumption
    <3> QED BY <1>2, <3>3
  <2> QED BY <2>12, <2>13, <2>14
<1> QED BY <1>1, <1>2

\* The exception of std::string::substr: nothing to read behind the character after
\* the sign.
LEMMA ThrowsOnlyWithoutValue ==
  ASSUME NEW line \in Seq(Char), Parsed(line) = THROWS
  PROVE  /\ ~Documented(line)
         /\ Trim(SubSeq(Rest(line), 2, Len(Rest(line)))) = << >>
<1> DEFINE p == Sign(line)
           n == Len(line)
           NB == Char \ filters
           quotation == FindFirst(line, {"q"}, p)
           begin == FindFirst(line, NB, p + 1)
           r == Rest(line)
<1>1. ~Silent(line) BY ParsedType, ConfigAssumption
<1>2. quotation = npos /\ begin = npos BY ParsedType
<1>3. n \in Nat /\ p \in 1 .. n /\ p \in Nat
  <2>1. n \in Nat /\ p \in 1 .. n BY <1>1, SignAt, LenProperties
  <2> HIDE DEF p
  <2> QED BY <2>1
<1>4. \A i \in p + 1 .. n : line[i] # "q"
  <2> HIDE DEF p
  <2>1. \A i \in p + 1 .. n : line[i] \notin {"q"} BY <1>2, <1>3, FirstIsNpos
  <2> QED BY <2>1
<1>5. \A i \in p + 2 .. n : line[i] = "blank"
  <2> DEFINE from == p + 1
  <2>1. from \in Nat BY <1>3
  <2> HIDE DEF from
  <2>2. \A i \in from + 1 .. n : line[i] \notin NB
    <3> HIDE DEF NB
    <3>1. FindFirst(line, NB, from) = npos BY <1>2 DEF from
    <3> QED BY <2>1, <3>1, FirstIsNpos
  <2>3. \A i \in 1 .. Len(line) : line[i] \in Char BY ElementOfSeq
  <2>4. \A i \in p + 2 .. n : i \in from + 1 .. n /\ i \in 1 .. Len(line) BY <1>3 DEF from
  <2> QED BY <2>2, <2>3, <2>4 DEF filters
<1>6. /\ r \in Seq(Char) /\ Len(r) = n - p
      /\ \A i \in 1 .. n - p : r[i] = line[p + i]
  BY <1>1, RestIs
<1>7. \A i \in 2 .. Len(r) : r[i] = "blank"
  <2> HIDE DEF r, p
  <2> SUFFICES ASSUME NEW i \in 2 .. Len(r) PROVE r[i] = "blank" OBVIOUS
  <2>1. i \in 1 .. n - p /\ p + i \in p + 2 .. n BY <1>3, <1>6
  <2> QED BY <1>5, <1>6, <2>1
<1>8. Trim(SubSeq(r, 2, Len(r))) = << >>
  <2> HIDE DEF r
  <2>1. Len(r) \in Nat BY <1>6, LenProperties
  <2>2. CASE Len(r) = 0
    <3>1. Len(r) < 2 BY <2>2
    <3>2. SubSeq(r, 2, Len(r)) = << >>
      <4> DEFINE s == SubSeq(r, 2, Len(r))
      <4>1. s \in Seq(Char) /\ Len(s) = IF 2 <= Len(r) THEN Len(r) - 2 + 1 ELSE 0
        <5>1. \A i \in 2 .. Len(r) : r[i] \in Char BY <1>6, <2>1, <2>2
        <5> QED BY <2>1, <5>1, SubSeqProperties
      <4>2. Len(s) = 0 BY <2>1, <3>1, <4>1
      <4> HIDE DEF s
      <4>3. s = << >> BY <4>1, <4>2, EmptySeq
      <4> QED BY <4>3 DEF s
    <3>3. << >> \in Seq(Char) /\ \A i \in 1 .. Len(<< >>) : << >>[i] = "blank" OBVIOUS
    <3>4. Trim(<< >>) = << >> BY <3>3, TrimNothing
    <3> QED BY <3>2, <3>4
  <2>3. CASE Len(r) # 0
    <3> DEFINE m == 2
    <3>1. m \in 1 .. Len(r) + 1 /\ Len(r) \in m - 1 .. Len(r) BY <2>1, <2>3
    <3>2. \A i \in m .. Len(r) : r[i] = "blank" BY <1>7
    <3> HIDE DEF m
    <3>3. Trim(SubSeq(r, m, Len(r))) = << >> BY <1>6, <3>1, <3>2, TrimPieceNothing
    <3> QED BY <3>3 DEF m
  <2> QED BY <2>2, <2>3
<1>9. ASSUME Documented(line) PROVE FALSE
  <2>1. /\ Right(line) # << >>
        /\ Quoted(Right(line)) \/ r[1] = "blank"
    BY <1>1, <1>9 DEF Documented
  <2>2. PICK a \in p + 1 .. n : \E b \in a .. n :
          /\ line[a] # "blank" /\ line[b] # "blank"
          /\ \A i \in p + 1 .. n : line[i] # "blank" => a <= i /\ i <= b
          /\ Right(line) = SubSeq(line, a, b)
    BY <1>1, <2>1, RightAt
  <2>3. PICK b \in a .. n : Right(line) = SubSeq(line, a, b) /\ line[a] # "blank" BY <2>2
  <2> HIDE DEF p, r
  <2>4. a \in Nat /\ b \in Nat /\ p + 1 <= a /\ a <= b /\ b <= n BY <1>3, <2>2, <2>3
  <2>5. ~Quoted(Right(line))
    <3>1. /\ a \in 1 .. Len(line) + 1 /\ b \in a - 1 .. Len(line)
          /\ 1 \in 1 .. b - a + 1 /\ a + 1 - 1 = a
      BY <1>3, <2>4
    <3>2. SubSeq(line, a, b)[1] = line[a] BY <3>1, Piece
    <3>3. line[a] # "q" BY <1>4, <2>2
    <3> QED BY <2>3, <3>2, <3>3 DEF Quoted
  <2>6. r[1] = "blank" BY <2>1, <2>5
  <2>7. a = p + 1
    <3>1. a \notin p + 2 .. n BY <1>5, <2>3
    <3> QED BY <1>3, <2>4, <3>1
  <2>8. r[1] = line[p + 1]
    <3>1. 1 \in 1 .. n - p BY <1>3, <2>4
    <3> QED BY <1>6, <3>1
  <2> QED BY <2>3, <2>6, <2>7, <2>8
<1> QED BY <1>8, <1>9 DEF r

\* Trimming yields characters.
LEMMA TrimPieceType ==
  ASSUME NEW s \in Seq(Char), NEW m \in 1 .. Len(s) + 1, NEW n \in m - 1 .. Len(s)
  PROVE  Trim(SubSeq(s, m, n)) \in Seq(Char)
<1>1. Len(s) \in Nat BY LenProperties
<1>2. CASE Trim(SubSeq(s, m, n)) = << >> BY <1>2
<1>3. CASE Trim(SubSeq(s, m, n)) # << >>
  <2>1. PICK a \in m .. n : \E b \in a .. n : Trim(SubSeq(s, m, n)) = SubSeq(s, a, b)
    BY <1>3, TrimmedPiece
  <2>2. PICK b \in a .. n : Trim(SubSeq(s, m, n)) = SubSeq(s, a, b) BY <2>1
  <2>3. a \in 1 .. Len(s) + 1 /\ b \in a - 1 .. Len(s)
    <3>1. m \in Nat /\ n \in Nat /\ a \in Nat /\ b \in Nat BY <1>1
    <3> QED BY <1>1, <3>1
  <2>4. SubSeq(s, a, b) \in Seq(Char) BY <2>3, Piece
  <2> QED BY <2>2, <2>4
<1> QED BY <1>2, <1>3

\* What a documented line gives is an entry, not one of the two marks.
LEMMA DocumentedEntry ==
  ASSUME NEW line \in Seq(Char), ~Silent(line), Documented(line)
  PROVE  /\ Parsed(line) = [key |-> Left(line), value |-> Said(line)]
         /\ Parsed(line) \notin {NONE, THROWS}
<1> DEFINE p == Sign(line)
<1>1. Len(line) \in Nat /\ p \in 1 .. Len(line) BY SignAt, LenProperties
<1>2. Left(line) \in Seq(Char)
  <2> DEFINE m == 1
             n == p - 1
  <2>1. m \in 1 .. Len(line) + 1 /\ n \in m - 1 .. Len(line) BY <1>1
  <2> HIDE DEF m, n
  <2>2. Trim(SubSeq(line, m, n)) \in Seq(Char) BY <2>1, TrimPieceType
  <2> QED BY <2>2 DEF Left, m, n
<1>3. Right(line) \in Seq(Char)
  <2> DEFINE m == p + 1
             n == Len(line)
  <2>1. m \in 1 .. Len(line) + 1 /\ n \in m - 1 .. Len(line) BY <1>1
  <2> HIDE DEF m, n
  <2>2. Trim(SubSeq(line, m, n)) \in Seq(Char) BY <2>1, TrimPieceType
  <2> QED BY <2>2 DEF Right, Rest, m, n
<1>4. Said(line) \in Seq(Char)
  <2> DEFINE r == Right(line)
             m == 2
             n == Len(r) - 1
  <2>1. CASE Quoted(r)
    <3>1. Len(r) \in Nat /\ Len(r) > 1 BY <1>3, <2>1, LenProperties DEF Quoted
    <3>2. m \in 1 .. Len(r) + 1 /\ n \in m - 1 .. Len(r) BY <3>1
    <3>3. Said(line) = SubSeq(r, m, n) BY <2>1 DEF Said
    <3> HIDE DEF m, n, r
    <3>4. SubSeq(r, m, n) \in Seq(Char) BY <1>3, <3>2, Piece DEF r
    <3> QED BY <3>3, <3>4
  <2>2. CASE ~Quoted(r) BY <1>3, <2>2 DEF Said
  <2> QED BY <2>1, <2>2
<1>5. Parsed(line) = [key |-> Left(line), value |-> Said(line)] BY DocumentedParsed
<1>6. Parsed(line) \in Entry BY <1>2, <1>4, <1>5 DEF Entry
<1> QED BY <1>5, <1>6, ConfigAssumption

-----------------------------------------------------------------------------
(* ConfigReader: the file *)

\* Line n gives the key a value.
Gives(n, key) == ~Silent(file[n]) /\ Left(file[n]) = key

\* m_Configs holds what the first d lines say, the first value of each key, if
\* every line has the documented form.
Known(d) ==
  (\A n \in Counting : Documented(file[n])) =>
    \A key :
      /\ key \in DOMAIN m_Configs <=> \E n \in 1 .. d : Gives(n, key)
      /\ key \in DOMAIN m_Configs =>
           \E n \in 1 .. d : /\ Gives(n, key) /\ m_Configs[key] = Said(file[n])
                             /\ \A i \in 1 .. d : Gives(i, key) => n <= i

\* getline has taken the first lines of the file.
Reading ==
  /\ Len(lineVec) <= Len(file) /\ m_Configs = << >>
  /\ \A i \in 1 .. Len(lineVec) : lineVec[i] = file[i] /\ Len(file[i]) < LINE_SIZE

\* d of the lines that count have been parsed, lineVec holds the others.
Parsing(d) ==
  /\ d + Len(lineVec) <= Len(file) /\ Counting = 1 .. d + Len(lineVec)
  /\ \A i \in 1 .. Len(lineVec) : lineVec[i] = file[d + i]
  /\ Known(d)

\* The inductive invariant: what has been read and parsed so far, by pc.
ConfigInv ==
  /\ file \in Seq(Seq(Char)) /\ lineVec \in Seq(Seq(Char))
  /\ pc \in {"getline", "ParseLine", "configured", "terminated"}
  /\ pc \in {"getline", "ParseLine"} => m_IP = << >> /\ m_Port = UNINIT
  /\ pc = "getline" => Reading
  /\ pc = "ParseLine" => \E d \in Nat : Parsing(d)
  /\ SettingsAsWritten
  /\ TerminatedByMissingValue

\* A Config that nothing was read into satisfies the invariant.
LEMMA FreshConfigInv ==
  ASSUME file \in Seq(Seq(Char)), Fresh
  PROVE  ConfigInv
<1>1. lineVec \in Seq(Seq(Char)) /\ Len(lineVec) = 0 BY DEF Fresh
<1>2. Reading
  <2>1. Len(file) \in Nat BY LenProperties
  <2>2. \A i \in 1 .. Len(lineVec) : FALSE BY <1>1
  <2>3. Len(lineVec) <= Len(file) BY <1>1, <2>1
  <2> QED BY <2>2, <2>3 DEF Reading, Fresh
<1> QED BY <1>1, <1>2 DEF ConfigInv, Fresh, SettingsAsWritten, TerminatedByMissingValue

\* Each step keeps the invariant: getline counts the lines it takes, and stops at the
\* first that is too long.
LEMMA GetLineInv == ASSUME ConfigInv, GetLine PROVE ConfigInv'
<1>1. /\ file \in Seq(Seq(Char)) /\ lineVec \in Seq(Seq(Char)) /\ pc = "getline"
      /\ m_IP = << >> /\ m_Port = UNINIT
      /\ file' = file /\ m_Configs' = m_Configs /\ m_IP' = m_IP /\ m_Port' = m_Port
  BY DEF ConfigInv, GetLine
<1>2. Reading BY <1>1 DEF ConfigInv
<1> DEFINE n == Len(lineVec) + 1
           k == Len(lineVec)
<1>3. /\ Len(file) \in Nat /\ k \in Nat /\ n \in Nat /\ LINE_SIZE \in Nat
      /\ \A i \in 1 .. Len(file) : file[i] \in Seq(Char) /\ Len(file[i]) \in Nat
  <2>1. \A i \in 1 .. Len(file) : file[i] \in Seq(Char) BY <1>1, ElementOfSeq
  <2>2. \A s \in Seq(Char) : Len(s) \in Nat BY LenProperties
  <2>3. Len(file) \in Nat /\ k \in Nat BY <1>1, LenProperties
  <2> QED BY <2>1, <2>2, <2>3, ConfigAssumption
<1>4. CASE n <= Len(file) /\ Len(file[n]) < LINE_SIZE
  <2>1. lineVec' = Append(lineVec, file[n]) /\ pc' = "getline" BY <1>1, <1>4 DEF GetLine
  <2>2. file[n] \in Seq(Char) BY <1>3, <1>4
  <2>3. /\ lineVec' \in Seq(Seq(Char)) /\ Len(lineVec') = k + 1 /\ lineVec'[k + 1] = file[n]
        /\ \A i \in 1 .. k : lineVec'[i] = lineVec[i]
    BY <1>1, <2>1, <2>2, AppendProperties
  <2>4. ASSUME NEW i \in 1 .. k + 1 PROVE lineVec'[i] = file[i] /\ Len(file[i]) < LINE_SIZE
    <3>1. CASE i \in 1 .. k BY <1>2, <2>3, <3>1 DEF Reading
    <3>2. CASE i \notin 1 .. k
      <4>1. i = k + 1 BY <1>3, <3>2
      <4> QED BY <1>4, <2>3, <4>1
    <3> QED BY <3>1, <3>2
  <2>5. Len(lineVec') <= Len(file) BY <1>3, <1>4, <2>3
  <2>6. Reading' BY <1>1, <1>2, <2>3, <2>4, <2>5 DEF Reading
  <2> QED BY <1>1, <2>1, <2>3, <2>6 DEF ConfigInv, SettingsAsWritten, TerminatedByMissingValue
<1>5. CASE ~(n <= Len(file) /\ Len(file[n]) < LINE_SIZE)
  <2>1. lineVec' = lineVec /\ pc' = "ParseLine" BY <1>1, <1>5 DEF GetLine
  <2>2. Counting = 1 .. k
    <3>1. ASSUME NEW i \in 1 .. k PROVE i \in Counting
      <4>1. i \in 1 .. Len(file) BY <1>2, <1>3 DEF Reading
      <4>2. \A m \in 1 .. i : m \in 1 .. k BY <1>3
      <4>3. \A m \in 1 .. i : Len(file[m]) < LINE_SIZE BY <1>2, <4>2 DEF Reading
      <4> QED BY <4>1, <4>3 DEF Counting
    <3>2. ASSUME NEW i \in Counting PROVE i \in 1 .. k
      <4>1. i \in 1 .. Len(file) /\ \A m \in 1 .. i : Len(file[m]) < LINE_SIZE BY DEF Counting
      <4>2. ASSUME ~(i <= k) PROVE FALSE
        <5>1. n \in 1 .. i /\ n <= Len(file) BY <1>3, <4>1, <4>2
        <5>2. Len(file[n]) < LINE_SIZE BY <4>1, <5>1
        <5> QED BY <1>5, <5>1, <5>2
      <4>3. i \in Nat /\ 1 <= i BY <1>3, <4>1
      <4> QED BY <1>3, <4>2, <4>3
    <3> QED BY <3>1, <3>2
  <2>3. Known(0)
    <3>1. DOMAIN m_Configs = {} BY <1>2 DEF Reading
    <3>2. 1 .. 0 = {} OBVIOUS
    <3> QED BY <3>1, <3>2 DEF Known
  <2>4. Parsing(0)
    <3>1. /\ 0 + k <= Len(file) /\ 0 + k = k
          /\ \A i \in 1 .. k : lineVec[i] = file[i] /\ 0 + i = i
      BY <1>2, <1>3 DEF Reading
    <3> QED BY <2>2, <2>3, <3>1 DEF Parsing
  <2>5. Parsing(0)' BY <1>1, <2>1, <2>4 DEF Parsing, Known, Gives, Counting
  <2>6. \E d \in Nat : Parsing(d)'
    <3> WITNESS 0 \in Nat
    <3> QED BY <2>5
  <2> QED BY <1>1, <2>1, <2>6 DEF ConfigInv, SettingsAsWritten, TerminatedByMissingValue
<1> QED BY <1>4, <1>5

\* One more line parsed.
LEMMA ParsedOne ==
  ASSUME NEW d \in Nat, NEW e, file \in Seq(Seq(Char)), d + 1 \in Counting, Known(d),
         e = Parsed(file[d + 1]),
         file' = file, m_Configs' = IF e \in {NONE, THROWS} THEN m_Configs ELSE Inserted(e)
  PROVE  Known(d + 1)'
<1> DEFINE n == d + 1
           line == file[n]
           Kept(D, M, key) ==
             /\ key \in DOMAIN M <=> \E i \in 1 .. D : Gives(i, key)
             /\ key \in DOMAIN M =>
                  \E i \in 1 .. D : /\ Gives(i, key) /\ M[key] = Said(file[i])
                                    /\ \A j \in 1 .. D : Gives(j, key) => i <= j
<1> SUFFICES ASSUME \A i \in Counting : Documented(file[i]) PROVE \A key : Kept(n, m_Configs', key)
  BY DEF Known, Counting, Gives
<1>1. \A key : Kept(d, m_Configs, key) BY DEF Known
<1>2. line \in Seq(Char) /\ Documented(line)
  <2>1. n \in 1 .. Len(file) BY DEF Counting
  <2> QED BY <2>1, ElementOfSeq
<1>3. d \in Nat /\ n \in 1 .. n /\ n \notin 1 .. d /\ 1 .. d \subseteq 1 .. n
      /\ (\A i \in 1 .. n : i \in 1 .. d \/ i = n) /\ (\A i \in 1 .. d : i <= n) /\ n <= n
  OBVIOUS
<1> HIDE DEF n
<1>4. CASE Silent(line)
  <2>1. m_Configs' = m_Configs BY <1>2, <1>4, ParsedType DEF n
  <2>2. \A key : ~Gives(n, key) BY <1>4 DEF Gives
  <2> SUFFICES ASSUME NEW key PROVE Kept(n, m_Configs, key) BY <2>1
  <2>3. Kept(d, m_Configs, key) BY <1>1
  <2>4. \A i \in 1 .. n : Gives(i, key) => i \in 1 .. d BY <1>3, <2>2
  <2> QED BY <1>3, <2>3, <2>4
<1>5. CASE ~Silent(line)
  <2> DEFINE k == Left(line)
  <2>1. e = [key |-> k, value |-> Said(line)] /\ e \notin {NONE, THROWS}
    BY <1>2, <1>5, DocumentedEntry DEF n
  <2>2. m_Configs' = Inserted(e) /\ e.key = k /\ e.value = Said(line) BY <2>1
  <2>3. /\ DOMAIN m_Configs' = DOMAIN m_Configs \cup {k}
        /\ \A key \in DOMAIN m_Configs : m_Configs'[key] = m_Configs[key]
        /\ k \notin DOMAIN m_Configs => m_Configs'[k] = Said(line)
    BY <2>2 DEF Inserted
  <2>4. \A key : Gives(n, key) <=> key = k BY <1>5 DEF Gives
  <2> HIDE DEF k, line
  <2> SUFFICES ASSUME NEW key PROVE Kept(n, m_Configs', key) OBVIOUS
  <2>5. Kept(d, m_Configs, key) BY <1>1
  <2>6. CASE key \in DOMAIN m_Configs
    <3>1. PICK i \in 1 .. d : /\ Gives(i, key) /\ m_Configs[key] = Said(file[i])
                              /\ \A j \in 1 .. d : Gives(j, key) => i <= j
      BY <2>5, <2>6
    <3>2. i \in 1 .. n /\ i <= n BY <1>3
    <3>3. \A j \in 1 .. n : Gives(j, key) => i <= j BY <1>3, <3>1, <3>2
    <3>4. key \in DOMAIN m_Configs' /\ m_Configs'[key] = Said(file[i]) BY <2>3, <2>6, <3>1
    <3> QED BY <3>1, <3>2, <3>3, <3>4
  <2>7. CASE key \notin DOMAIN m_Configs /\ key = k
    <3>1. \A i \in 1 .. d : ~Gives(i, key) BY <2>5, <2>7
    <3>2. key \in DOMAIN m_Configs' /\ m_Configs'[key] = Said(file[n]) BY <2>3, <2>7 DEF line
    <3>3. Gives(n, key) BY <2>4, <2>7
    <3>4. \A j \in 1 .. n : Gives(j, key) => n <= j BY <1>3, <3>1
    <3> QED BY <1>3, <3>2, <3>3, <3>4
  <2>8. CASE key \notin DOMAIN m_Configs /\ key # k
    <3>1. \A i \in 1 .. n : ~Gives(i, key) BY <1>3, <2>4, <2>5, <2>8
    <3>2. key \notin DOMAIN m_Configs' BY <2>3, <2>8
    <3> QED BY <3>1, <3>2
  <2> QED BY <2>6, <2>7, <2>8
<1> QED BY <1>4, <1>5

\* ParseLine moves one line from the ones left to the ones m_Configs knows.
LEMMA ParseLineInv == ASSUME ConfigInv, ParseLine PROVE ConfigInv'
<1> DEFINE line == Head(lineVec)
           e == Parsed(line)
<1>1. /\ file \in Seq(Seq(Char)) /\ lineVec \in Seq(Seq(Char)) /\ pc = "ParseLine"
      /\ lineVec # << >> /\ lineVec' = Tail(lineVec)
      /\ m_IP = << >> /\ m_Port = UNINIT
      /\ file' = file /\ m_IP' = m_IP /\ m_Port' = m_Port
      /\ m_Configs' = IF e \in {NONE, THROWS} THEN m_Configs ELSE Inserted(e)
      /\ pc' = IF e = THROWS THEN "terminated" ELSE "ParseLine"
  BY DEF ConfigInv, ParseLine
<1>2. PICK d \in Nat : Parsing(d) BY <1>1 DEF ConfigInv
<1> DEFINE k == Len(lineVec)
<1>3. k \in Nat \ {0} /\ Len(file) \in Nat
  <2>1. k \in Nat /\ k # 0 BY <1>1, EmptySeq, LenProperties
  <2> QED BY <1>1, <2>1, LenProperties
<1>4. /\ lineVec' \in Seq(Seq(Char)) /\ Len(lineVec') = k - 1
      /\ \A i \in 1 .. k - 1 : lineVec'[i] = lineVec[i + 1]
  BY <1>1, HeadTailProperties
<1>5. line = file[d + 1]
  <2>1. line = lineVec[1] BY <1>1, HeadTailProperties
  <2>2. 1 \in 1 .. k BY <1>3
  <2> QED BY <1>2, <2>1, <2>2 DEF Parsing
<1>6. d + 1 \in Counting
  <2>1. d + 1 \in 1 .. d + k BY <1>3
  <2> QED BY <1>2, <2>1 DEF Parsing
<1>7. file[d + 1] \in Seq(Char)
  <2>1. d + 1 \in 1 .. Len(file) BY <1>6 DEF Counting
  <2> QED BY <1>1, <2>1, ElementOfSeq
<1>8. Known(d) BY <1>2 DEF Parsing
<1>9. Known(d + 1)'
  <2>1. e = Parsed(file[d + 1]) BY <1>5
  <2> HIDE DEF e
  <2> QED BY <1>1, <1>6, <1>8, <2>1, ParsedOne
<1>10. CASE e = THROWS
  <2>1. pc' = "terminated" BY <1>1, <1>10
  <2>2. /\ ~Documented(file[d + 1])
        /\ Trim(SubSeq(Rest(file[d + 1]), 2, Len(Rest(file[d + 1])))) = << >>
    BY <1>5, <1>7, <1>10, ThrowsOnlyWithoutValue
  <2>3. TerminatedByMissingValue' BY <1>1, <1>6, <2>2 DEF TerminatedByMissingValue, Counting
  <2> QED BY <1>1, <1>4, <2>1, <2>3 DEF ConfigInv, SettingsAsWritten
<1>11. CASE e # THROWS
  <2>1. pc' = "ParseLine" BY <1>1, <1>11
  <2>2. Parsing(d + 1)'
    <3>1. (d + 1) + (k - 1) = d + k BY <1>3
    <3>2. ASSUME NEW i \in 1 .. k - 1 PROVE lineVec'[i] = file[(d + 1) + i]
      <4>1. i + 1 \in 1 .. k /\ d + (i + 1) = (d + 1) + i BY <1>3
      <4>2. lineVec[i + 1] = file[d + (i + 1)] BY <1>2, <4>1 DEF Parsing
      <4> QED BY <1>4, <4>1, <4>2
    <3>3. Counting' = Counting BY <1>1 DEF Counting
    <3>4. Counting = 1 .. d + k /\ d + k <= Len(file) BY <1>2 DEF Parsing
    <3> QED BY <1>1, <1>4, <1>9, <3>1, <3>2, <3>3, <3>4 DEF Parsing
  <2>3. \E c \in Nat : Parsing(c)'
    <3>1. d + 1 \in Nat OBVIOUS
    <3> QED BY <2>2, <3>1
  <2> QED BY <1>1, <1>4, <2>1, <2>3 DEF ConfigInv, SettingsAsWritten, TerminatedByMissingValue
<1> QED BY <1>10, <1>11

\* With every line parsed, m_Configs has the keys of the file with their values.
LEMMA AllKnown ==
  ASSUME NEW d \in Nat, Parsing(d), lineVec = << >>, \A n \in Counting : Documented(file[n]),
         NEW key
  PROVE  /\ key \in DOMAIN m_Configs <=> Lines(key) # {}
         /\ key \in DOMAIN m_Configs => m_Configs[key] = Value(key)
<1>1. Counting = 1 .. d
  <2>1. Len(lineVec) = 0 /\ d + 0 = d OBVIOUS
  <2> QED BY <2>1 DEF Parsing
<1>2. /\ key \in DOMAIN m_Configs <=> \E n \in 1 .. d : Gives(n, key)
      /\ key \in DOMAIN m_Configs =>
           \E n \in 1 .. d : /\ Gives(n, key) /\ m_Configs[key] = Said(file[n])
                             /\ \A i \in 1 .. d : Gives(i, key) => n <= i
  BY DEF Parsing, Known
<1>3. Lines(key) = {n \in 1 .. d : Gives(n, key)} BY <1>1 DEF Lines, Gives
<1>4. CASE key \in DOMAIN m_Configs
  <2>1. PICK n \in 1 .. d : /\ Gives(n, key) /\ m_Configs[key] = Said(file[n])
                            /\ \A i \in 1 .. d : Gives(i, key) => n <= i
    BY <1>2, <1>4
  <2> DEFINE L == Lines(key)
  <2>2. L \in SUBSET Nat /\ n \in L /\ \A i \in L : n <= i
    <3>1. \A i \in 1 .. d : i \in Nat OBVIOUS
    <3> QED BY <1>3, <2>1, <3>1
  <2> HIDE DEF L
  <2>3. Min(L) = n BY <2>2, MinOf
  <2>4. Value(key) = Said(file[n]) BY <2>3 DEF Value, L
  <2> QED BY <1>4, <2>1, <2>2, <2>4 DEF L
<1>5. CASE key \notin DOMAIN m_Configs BY <1>2, <1>3, <1>5
<1> QED BY <1>4, <1>5

\* The constructor of Config finds in m_Configs what the file says.
LEMMA ConfigStepInv == ASSUME ConfigInv, Config PROVE ConfigInv'
<1>1. /\ file \in Seq(Seq(Char)) /\ lineVec \in Seq(Seq(Char)) /\ pc = "ParseLine"
      /\ lineVec = << >> /\ pc' = "configured"
      /\ m_IP = << >> /\ m_Port = UNINIT
      /\ m_IP' = ReadString(IP, m_IP) /\ m_Port' \in ReadInteger(Port, m_Port)
      /\ file' = file /\ lineVec' = lineVec
  BY DEF ConfigInv, Config
<1>2. PICK d \in Nat : Parsing(d) BY <1>1 DEF ConfigInv
<1>3. ASSUME \A n \in Counting : Documented(file[n])
      PROVE  /\ m_IP' = IF Lines(IP) = {} THEN << >> ELSE Value(IP)
             /\ IF Lines(Port) = {} THEN m_Port' = UNINIT
                ELSE Digits(Value(Port)) # << >> => m_Port' = Digits(Value(Port))
  <2>1. ASSUME NEW key
        PROVE  /\ key \in DOMAIN m_Configs <=> Lines(key) # {}
               /\ key \in DOMAIN m_Configs => m_Configs[key] = Value(key)
    BY <1>1, <1>2, <1>3, AllKnown
  <2>2. m_IP' = IF Lines(IP) = {} THEN << >> ELSE Value(IP)
    BY <1>1, <2>1, Zenon DEF ReadString
  <2>3. CASE Lines(Port) = {}
    <3>1. Port \notin DOMAIN m_Configs BY <2>1, <2>3, Zenon
    <3>2. ReadInteger(Port, m_Port) = {m_Port} BY <3>1, Zenon DEF ReadInteger
    <3>3. m_Port' = UNINIT BY <1>1, <3>2
    <3> QED BY <2>2, <2>3, <3>3
  <2>4. CASE Lines(Port) # {}
    <3>1. Port \in DOMAIN m_Configs /\ m_Configs[Port] = Value(Port) BY <2>1, <2>4, Zenon
    <3>2. Digits(Value(Port)) # << >> => ReadInteger(Port, m_Port) = {Digits(Value(Port))}
      BY <3>1, Zenon DEF ReadInteger
    <3>3. Digits(Value(Port)) # << >> => m_Port' = Digits(Value(Port)) BY <1>1, <3>2
    <3> QED BY <2>2, <2>4, <3>3
  <2> QED BY <2>3, <2>4
<1>4. Counting' = Counting /\ \A key : Lines(key)' = Lines(key) /\ Value(key)' = Value(key)
  BY <1>1 DEF Counting, Lines, Value
<1>5. SettingsAsWritten' BY <1>1, <1>3, <1>4 DEF SettingsAsWritten
<1> QED BY <1>1, <1>5 DEF ConfigInv, TerminatedByMissingValue

\* The invariant is inductive.
LEMMA ConfigNextInv == ConfigInv /\ [ConfigNext]_config => ConfigInv'
<1> SUFFICES ASSUME ConfigInv, [ConfigNext]_config PROVE ConfigInv' OBVIOUS
<1>1. CASE UNCHANGED config
  <2>1. /\ file' = file /\ lineVec' = lineVec /\ m_Configs' = m_Configs
        /\ m_IP' = m_IP /\ m_Port' = m_Port /\ pc' = pc
    BY <1>1 DEF config
  <2>2. Counting' = Counting /\ \A key : Lines(key)' = Lines(key) /\ Value(key)' = Value(key)
    BY <2>1 DEF Counting, Lines, Value
  <2>3. SettingsAsWritten' BY <2>1, <2>2 DEF ConfigInv, SettingsAsWritten
  <2>4. TerminatedByMissingValue' BY <2>1, <2>2 DEF ConfigInv, TerminatedByMissingValue
  <2>5. pc = "getline" => Reading' BY <2>1 DEF ConfigInv, Reading
  <2>6. pc = "ParseLine" => \E d \in Nat : Parsing(d)'
    <3>1. ASSUME NEW d \in Nat, Parsing(d) PROVE Parsing(d)'
      <4>1. Known(d)' BY <2>1, <2>2, <3>1 DEF Parsing, Known, Gives
      <4> QED BY <2>1, <2>2, <3>1, <4>1 DEF Parsing
    <3> QED BY <3>1 DEF ConfigInv
  <2> QED BY <2>1, <2>3, <2>4, <2>5, <2>6 DEF ConfigInv
<1>2. CASE GetLine BY <1>2, GetLineInv
<1>3. CASE ParseLine BY <1>3, ParseLineInv
<1>4. CASE Config BY <1>4, ConfigStepInv
<1> QED BY <1>1, <1>2, <1>3, <1>4 DEF ConfigNext

\* ConfigReader.cpp and Config.cpp, started on any file at all: any number of
\* lines of any length.
AnyFileSpec == file \in Seq(Seq(Char)) /\ Fresh /\ [][ConfigNext]_config

\* It holds of every behaviour, whatever the file.
LEMMA AnyFileInv == AnyFileSpec => []ConfigInv
<1>1. file \in Seq(Seq(Char)) /\ Fresh => ConfigInv BY FreshConfigInv
<1> QED BY <1>1, ConfigNextInv, PTL DEF AnyFileSpec

\* The files of the run are files.
LEMMA SmallFiles == ConfigInit => file \in Seq(Seq(Char)) /\ Fresh
<1> SUFFICES ASSUME ConfigInit PROVE file \in Seq(Seq(Char)) BY DEF ConfigInit
<1>1. ASSUME NEW S, NEW n \in Nat, NEW s \in Upto(n, S) PROVE s \in Seq(S)
  <2>1. PICK m \in 0 .. n : s \in [1 .. m -> S] BY DEF Upto
  <2>2. m \in Nat OBVIOUS
  <2> QED BY <2>1, <2>2, SeqDef
<1>2. Sample \subseteq Seq(Char) BY DEF Sample, Char
<1>3. CASE file \in Upto(LineMax, Sample)
  <2>1. file \in Seq(Sample) BY <1>1, <1>3, ConfigAssumption
  <2>2. Len(file) \in Nat /\ file \in [1 .. Len(file) -> Sample] BY <2>1, LenProperties
  <2>3. file \in [1 .. Len(file) -> Seq(Char)] BY <1>2, <2>2
  <2> QED BY <2>2, <2>3, SeqDef
<1>4. CASE file \in {<<line>> : line \in Upto(LengthMax, Char)}
  <2>1. PICK line \in Upto(LengthMax, Char) : file = <<line>> BY <1>4
  <2>2. line \in Seq(Char) BY <1>1, ConfigAssumption
  <2> QED BY <2>1, <2>2
<1> QED BY <1>3, <1>4 DEF ConfigInit

\* A file whose lines have the documented form is read as it is written: the
\* constructor of Config gets the first value of each key and nothing else,
\* whatever the number and the length of the lines.
THEOREM ConfigReadAsWritten ==
  /\ AnyFileSpec => []SettingsAsWritten
  /\ ConfigSpec => []SettingsAsWritten
<1>1. ConfigInv => SettingsAsWritten BY DEF ConfigInv
<1>2. AnyFileSpec => []SettingsAsWritten BY <1>1, AnyFileInv, PTL
<1>3. ConfigSpec => AnyFileSpec BY SmallFiles, PTL DEF ConfigSpec, AnyFileSpec
<1> QED BY <1>2, <1>3

\* The parser ends the process only for a line without a value, and for no line
\* of the documented form.
THEOREM ConfigTerminatesOnlyWithoutValue ==
  /\ AnyFileSpec => []TerminatedByMissingValue
  /\ ConfigSpec => []TerminatedByMissingValue
<1>1. ConfigInv => TerminatedByMissingValue BY DEF ConfigInv
<1>2. AnyFileSpec => []TerminatedByMissingValue BY <1>1, AnyFileInv, PTL
<1>3. ConfigSpec => AnyFileSpec BY SmallFiles, PTL DEF ConfigSpec, AnyFileSpec
<1> QED BY <1>2, <1>3
=============================================================================
