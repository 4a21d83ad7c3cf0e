---------------------------- MODULE MsgPoolProofs ----------------------------
(***************************************************************************)
(* Proofs about MsgPool, for any workers, any pool and queue sizes and any *)
(* sizes of messages.                                                      *)
(***************************************************************************)
EXTENDS MsgPool, ListLemmas

(***************************************************************************)
(* The inductive invariant.                                                *)
(***************************************************************************)
InserterLabel == {"idle", "insert", "push", "post", "done", "failed"}
MsgType == {"INVALID", "RECV", "NOTIFY", "SHUTDOWN"}
MainLabel == {"init", "loop", "wait", "remove", "handle", "exited"}

Types ==
  /\ m_FreeList \in [Index -> Seq(Int)] /\ m_MsgAlloc \in Seq(Msg) /\ m_Msgs \in Seq(Msg)
  /\ msg \in [Msg -> [m_Type : MsgType, m_Size : Int, m_pData : Int]]
  /\ sem \in Nat
  /\ pc \in [Thread -> InserterLabel \cup MainLabel]
  /\ pc["main"] \in MainLabel /\ \A t \in Inserter : pc[t] \in InserterLabel
  /\ pMsg \in [Thread -> Msg \cup {None}]
  /\ leaked \subseteq Msg

\* The sizes a short can hold.
ShortSize == {n \in Nat \ {0} : n < 32768}

\* The blocks LinkFreeElement makes for a list.
Made(i) == RangeOf(LinkFreeElement(i))

\* A message whose data is a block of the Allocator.
Small(p) == msg[p].m_Size <= BYTES_MAX

\* Every block is in the list it was made for, once, or is the data of one message,
\* which will return it to that list.
BlocksOnce ==
  /\ \A i \in Index :
       NoDuplicates(m_FreeList[i]) /\ RangeOf(m_FreeList[i]) \subseteq Made(i)
  /\ \A p \in Allocated :
       /\ msg[p].m_Size \in ShortSize
       /\ ~Small(p) => msg[p].m_pData = SYSTEM
       /\ Small(p) =>
            /\ msg[p].m_pData \in Made(ListOf(p))
            /\ msg[p].m_pData \notin RangeOf(m_FreeList[ListOf(p)])
  /\ \A p, q \in Allocated :
       /\ Small(p) /\ Small(q)
       /\ ListOf(p) = ListOf(q) /\ msg[p].m_pData = msg[q].m_pData
       => p = q

Inv == Types /\ MsgsOnce /\ SemaphoreCovers /\ LeakBounded /\ BlocksOnce
-----------------------------------------------------------------------------
(* Arithmetic of the Allocator *)

LEMMA Constants ==
  /\ ALIGN \in Nat \ {0} /\ BYTES_MAX \in Nat \ {0} /\ BYTES_MAX % ALIGN = 0
  /\ FREE_LIST_ELEMENT_COUNT \in Nat \ {0}
BY MsgPoolAssumption

LEMMA Division ==
  ASSUME NEW a \in Nat \ {0}, NEW x \in Int
  PROVE  /\ x \div a \in Int /\ a * (x \div a) <= x /\ x < a * (x \div a) + a
         /\ x % a = 0 => x = a * (x \div a)
OBVIOUS

\* The list for a size exists, and its blocks are large enough.
LEMMA IndexFits ==
  ASSUME NEW size \in 1 .. BYTES_MAX
  PROVE  FreeListIndex(size) \in Index /\ size <= (FreeListIndex(size) + 1) * ALIGN
<1> USE Constants
<1> DEFINE q == (size + ALIGN - 1) \div ALIGN
           n == BYTES_MAX \div ALIGN
<1>1. q \in Int /\ ALIGN * q <= size + ALIGN - 1 /\ size + ALIGN - 1 < ALIGN * q + ALIGN
  BY Division
<1>2. n \in Int /\ BYTES_MAX = ALIGN * n BY Division
<1>7. FreeListIndex(size) = q - 1 /\ FREE_LIST_COUNT = n
  BY DEF FreeListIndex, FREE_LIST_COUNT
<1> HIDE DEF q, n
<1>3. size <= ALIGN * q BY <1>1
<1>4. q >= 1 BY <1>1, <1>3
<1>5. ALIGN * q < ALIGN * (n + 1) BY <1>1, <1>2
<1>6. q < n + 1 BY <1>1, <1>2, <1>5
<1>8. q - 1 \in 0 .. n - 1 BY <1>1, <1>2, <1>4, <1>6
<1>9. (q - 1 + 1) * ALIGN = ALIGN * q BY <1>1
<1> QED BY <1>3, <1>7, <1>8, <1>9 DEF Index

LEMMA Sizes == Size \cup {1} \subseteq ShortSize
<1>1. \A n \in Size : n \in Nat \ {0} /\ n < 32768 BY MsgPoolAssumption
<1>2. 1 \in Nat \ {0} /\ 1 < 32768 OBVIOUS
<1> QED BY <1>1, <1>2 DEF ShortSize

\* A size fits into the short that keeps it.
LEMMA ShortFits == ASSUME NEW size \in ShortSize PROVE Short(size) = size
BY DEF Short, ShortSize

\* The numbers of the triangle ...
LEMMA Triangle ==
  ASSUME NEW i \in Nat PROVE (i * (i + 1)) \div 2 = (i * (i - 1)) \div 2 + i
<1>1. i * (i + 1) = i * (i - 1) + 2 * i /\ i * (i - 1) \in Int OBVIOUS
<1>2. \A x \in Int : (x + 2 * i) \div 2 = x \div 2 + i OBVIOUS
<1> QED BY <1>1, <1>2

\* ... are what a recursive function like SetFreeListPtr has for its values, so that
\* there is such a function.
LEMMA PtrExists ==
  ASSUME NEW a \in Int, NEW c \in Int
  PROVE  \E f : f = [i \in Nat |-> IF i = 0 THEN a * 0 * c ELSE f[i - 1] + a * i * c]
<1> DEFINE h == [i \in Nat |-> (i * (i + 1)) \div 2]
           g == [i \in Nat |-> a * h[i] * c]
<1>1. h[0] = 0 /\ \A i \in Nat : h[i] \in Int OBVIOUS
<1>2. \A i \in Nat : i # 0 => h[i] = h[i - 1] + i BY Triangle
<1> HIDE DEF h
<1>3. ASSUME NEW i \in Nat, i # 0 PROVE g[i] = g[i - 1] + a * i * c
  <2>1. i - 1 \in Nat /\ h[i - 1] \in Int /\ h[i] = h[i - 1] + i BY <1>1, <1>2, <1>3
  <2>2. \A x \in Int : a * (x + i) * c = a * x * c + a * i * c OBVIOUS
  <2> QED BY <2>1, <2>2
<1>4. g[0] = a * 0 * c BY <1>1
<1>5. \A i \in Nat : g[i] = IF i = 0 THEN a * 0 * c ELSE g[i - 1] + a * i * c
  BY <1>3, <1>4
<1>6. g = [i \in Nat |-> g[i]] OBVIOUS
<1> HIDE DEF g
<1>7. g = [i \in Nat |-> IF i = 0 THEN a * 0 * c ELSE g[i - 1] + a * i * c]
  BY <1>5, <1>6
<1> QED BY <1>7

LEMMA PtrDef ==
  /\ SetFreeListPtr[0] = 0
  /\ \A i \in Nat : SetFreeListPtr[i + 1] =
       SetFreeListPtr[i] + ALIGN * (i + 1) * FREE_LIST_ELEMENT_COUNT
<1> USE Constants
<1>1. SetFreeListPtr =
        [i \in Nat |-> IF i = 0 THEN Stride(0) ELSE SetFreeListPtr[i - 1] + Stride(i)]
  <2>1. \E f : f = [i \in Nat |-> IF i = 0 THEN Stride(0) ELSE f[i - 1] + Stride(i)]
    <3> DEFINE a == ALIGN
               c == FREE_LIST_ELEMENT_COUNT
    <3>1. a \in Int /\ c \in Int OBVIOUS
    <3> HIDE DEF a, c
    <3>2. PICK f : f = [i \in Nat |-> IF i = 0 THEN a * 0 * c ELSE f[i - 1] + a * i * c]
      BY <3>1, PtrExists, Zenon
    <3>3. f = [i \in Nat |-> IF i = 0 THEN Stride(0) ELSE f[i - 1] + Stride(i)]
      BY <3>2 DEF Stride, a, c
    <3> QED BY <3>3
  <2> QED BY <2>1 DEF SetFreeListPtr
<1>2. SetFreeListPtr[0] = Stride(0) BY <1>1
<1>3. ASSUME NEW i \in Nat
      PROVE  SetFreeListPtr[i + 1] = SetFreeListPtr[i] + Stride(i + 1)
  <2>1. i + 1 \in Nat /\ i + 1 # 0 /\ (i + 1) - 1 = i OBVIOUS
  <2>2. SetFreeListPtr[i + 1] = SetFreeListPtr[(i + 1) - 1] + Stride(i + 1)
    BY <1>1, <2>1
  <2> QED BY <2>1, <2>2
<1> QED BY <1>2, <1>3 DEF Stride

LEMMA PtrType == \A i \in Nat : SetFreeListPtr[i] \in Nat
<1> USE Constants
<1> DEFINE S == {i \in Nat : SetFreeListPtr[i] \in Nat}
<1>1. 0 \in S BY PtrDef
<1>2. ASSUME NEW i \in Nat, i \in S PROVE i + 1 \in S
  <2>1. ALIGN * (i + 1) * FREE_LIST_ELEMENT_COUNT \in Nat OBVIOUS
  <2>2. SetFreeListPtr[i] \in Nat /\ i + 1 \in Nat BY <1>2
  <2>4. SetFreeListPtr[i + 1]
          = SetFreeListPtr[i] + ALIGN * (i + 1) * FREE_LIST_ELEMENT_COUNT
    BY PtrDef, Zenon
  <2> DEFINE s == ALIGN * (i + 1) * FREE_LIST_ELEMENT_COUNT
  <2>5. s \in Nat BY <2>1
  <2>6. SetFreeListPtr[i + 1] = SetFreeListPtr[i] + s BY <2>4
  <2> HIDE DEF s
  <2>7. SetFreeListPtr[i + 1] \in Nat BY <2>2, <2>5, <2>6
  <2> QED BY <2>2, <2>7
<1> HIDE DEF S
<1>3. Nat \subseteq S BY <1>1, <1>2, SetInduction
<1> QED BY <1>3 DEF S

\* The lists lie one behind the other.
LEMMA PtrOrder ==
  \A j \in Nat : \A i \in 0 .. j - 1 : SetFreeListPtr[i + 1] <= SetFreeListPtr[j]
<1> USE Constants
<1> DEFINE P(j) == \A i \in 0 .. j - 1 : SetFreeListPtr[i + 1] <= SetFreeListPtr[j]
           S == {j \in Nat : P(j)}
<1>1. 0 \in S OBVIOUS
<1>2. ASSUME NEW j \in Nat, j \in S PROVE j + 1 \in S
  <2>1. ALIGN * (j + 1) * FREE_LIST_ELEMENT_COUNT \in Nat OBVIOUS
  <2>2. SetFreeListPtr[j] <= SetFreeListPtr[j + 1] /\ SetFreeListPtr[j] \in Nat
        /\ SetFreeListPtr[j + 1] \in Nat
    BY <2>1, PtrDef, PtrType
  <2> SUFFICES ASSUME NEW i \in 0 .. j PROVE SetFreeListPtr[i + 1] <= SetFreeListPtr[j + 1]
    OBVIOUS
  <2>3. CASE i = j BY <2>2, <2>3
  <2>4. CASE i # j
    <3>1. i \in 0 .. j - 1 /\ i + 1 \in Nat BY <2>4
    <3>2. SetFreeListPtr[i + 1] <= SetFreeListPtr[j] BY <1>2, <3>1
    <3>3. SetFreeListPtr[i + 1] \in Nat BY <3>1, PtrType
    <3> QED BY <2>2, <3>2, <3>3
  <2> QED BY <2>3, <2>4
<1> HIDE DEF S
<1>3. Nat \subseteq S BY <1>1, <1>2, SetInduction
<1> QED BY <1>3 DEF S

\* Multiples of a width.
LEMMA Multiples ==
  ASSUME NEW w \in Nat, NEW m \in Nat, NEW n \in Nat, m + 1 <= n
  PROVE  m * w + w <= n * w
<1>1. PICK d \in Nat : n = m + 1 + d
  <2>1. n - m - 1 \in Nat /\ n = m + 1 + (n - m - 1) OBVIOUS
  <2> QED BY <2>1
<1>2. n * w = m * w + w + d * w BY <1>1
<1>3. d * w \in Nat /\ m * w \in Nat OBVIOUS
<1> QED BY <1>2, <1>3

\* The blocks of a list lie between its start and the next list's, and apart.
LEMMA ListShape ==
  ASSUME NEW i \in Nat
  PROVE  /\ LinkFreeElement(i) \in Seq(Int) /\ NoDuplicates(LinkFreeElement(i))
         /\ \A a \in RangeOf(LinkFreeElement(i)) :
              /\ a \in Nat
              /\ SetFreeListPtr[i] <= a /\ a + (i + 1) * ALIGN <= SetFreeListPtr[i + 1]
              /\ \A b \in RangeOf(LinkFreeElement(i)) :
                   a = b \/ a + (i + 1) * ALIGN <= b \/ b + (i + 1) * ALIGN <= a
<1> USE Constants
<1> DEFINE s == LinkFreeElement(i)
           C == FREE_LIST_ELEMENT_COUNT
           w == (i + 1) * ALIGN
           p == SetFreeListPtr[i]
<1>1. w \in Nat \ {0} /\ C \in Nat \ {0} /\ p \in Nat BY PtrType
<1>2. SetFreeListPtr[i + 1] = p + C * w
  <2>1. ALIGN * (i + 1) * C = C * w OBVIOUS
  <2> QED BY <2>1, PtrDef
<1>3. s = [n \in 1 .. C |-> p + (n - 1) * w]
  <2>1. \A n \in 1 .. C : (n - 1) * (i + 1) * ALIGN = (n - 1) * w OBVIOUS
  <2> QED BY <2>1 DEF LinkFreeElement
<1> HIDE DEF s, C, w, p
<1>4. \A n \in 1 .. C : (n - 1) * w \in Nat BY <1>1
<1>5. s \in Seq(Int) /\ Len(s) = C
  <2>1. s \in [1 .. C -> Int] BY <1>1, <1>3, <1>4
  <2>2. s \in Seq(Int) BY <1>1, <2>1, SeqDef
  <2> QED BY <1>1, <2>1, <2>2, LenProperties
<1>6. ASSUME NEW m \in 1 .. C, NEW n \in 1 .. C, m < n PROVE s[m] + w <= s[n]
  <2>1. (m - 1) * w + w <= (n - 1) * w
    <3>1. m - 1 \in Nat /\ n - 1 \in Nat /\ (m - 1) + 1 <= n - 1 /\ w \in Nat BY <1>1, <1>6
    <3> HIDE DEF w
    <3> QED BY <3>1, Multiples
  <2> QED BY <1>1, <1>3, <1>4, <2>1
<1>7. ASSUME NEW n \in 1 .. C PROVE s[n] \in Nat /\ p <= s[n] /\ s[n] + w <= p + C * w
  <2>1. (n - 1) * w + w <= C * w
    <3>1. n - 1 \in Nat /\ C \in Nat /\ (n - 1) + 1 <= C /\ w \in Nat BY <1>1
    <3> QED BY <3>1, Multiples
  <2> DEFINE x == (n - 1) * w
             y == C * w
  <2>2. y \in Nat /\ x \in Nat /\ x + w <= y BY <1>1, <1>4, <2>1
  <2>3. s[n] = p + x BY <1>3
  <2> HIDE DEF x, y
  <2>4. s[n] \in Nat /\ p <= s[n] /\ s[n] + w <= p + y BY <1>1, <2>2, <2>3
  <2> QED BY <2>4 DEF y
<1>8. NoDuplicates(s)
  <2> SUFFICES ASSUME NEW m \in 1 .. C, NEW n \in 1 .. C, s[m] = s[n] PROVE m = n
    BY <1>5 DEF NoDuplicates
  <2> QED BY <1>1, <1>6, <1>7
<1>9. RangeOf(s) = {s[n] : n \in 1 .. C} BY <1>5 DEF RangeOf
<1>10. \A a \in RangeOf(s) :
         /\ a \in Nat /\ p <= a /\ a + w <= p + C * w
         /\ \A b \in RangeOf(s) : a = b \/ a + w <= b \/ b + w <= a
  <2> SUFFICES ASSUME NEW m \in 1 .. C, NEW n \in 1 .. C
               PROVE  s[m] = s[n] \/ s[m] + w <= s[n] \/ s[n] + w <= s[m]
    BY <1>7, <1>9
  <2> QED BY <1>1, <1>6
<1> QED BY <1>2, <1>5, <1>8, <1>10 DEF s, w, p

\* The sum CalculateMemoryTotal computes: k numbers from i on, each larger by a.
LEMMA SumExists ==
  ASSUME NEW B \in Nat, NEW a \in Nat \ {0}, NEW c \in Int
  PROVE  \E f : f = [i \in Nat |-> IF i > B THEN 0 ELSE i * c + f[i + a]]
<1> DEFINE k == [i \in Nat |-> IF i > B THEN 0 ELSE (B - i) \div a + 1]
           T == [n \in Nat |-> (n * (n - 1)) \div 2]
           g == [i \in Nat |-> c * (k[i] * i + a * T[k[i]])]
<1>1. ASSUME NEW i \in Nat PROVE k[i] \in Nat
  <2>1. CASE i <= B
    <3>1. B - i \in Nat BY <2>1
    <3>2. (B - i) \div a \in Nat BY <3>1
    <3> QED BY <2>1, <3>2
  <2> QED BY <2>1
<1>2. ASSUME NEW i \in Nat, ~(i > B) PROVE k[i] = k[i + a] + 1
  <2>1. i + a \in Nat OBVIOUS
  <2>2. CASE i + a > B
    <3>1. B - i \in 0 .. a - 1 BY <1>2, <2>2
    <3>2. (B - i) \div a = 0 BY <3>1
    <3> QED BY <1>2, <2>1, <2>2, <3>2
  <2>3. CASE ~(i + a > B)
    <3>1. \A x \in Int : (x + a) \div a = x \div a + 1 OBVIOUS
    <3>2. B - i = (B - (i + a)) + a /\ B - (i + a) \in Int OBVIOUS
    <3>3. (B - i) \div a = (B - (i + a)) \div a + 1 BY <3>1, <3>2
    <3> QED BY <1>2, <2>1, <2>3, <3>3
  <2> QED BY <2>2, <2>3
<1>3. \A n \in Nat : T[n] \in Int /\ T[n + 1] = T[n] + n
  <2> SUFFICES ASSUME NEW n \in Nat PROVE T[n] \in Int /\ T[n + 1] = T[n] + n OBVIOUS
  <2>1. (n * (n + 1)) \div 2 = (n * (n - 1)) \div 2 + n BY Triangle
  <2>2. (n + 1) * ((n + 1) - 1) = n * (n + 1) /\ n + 1 \in Nat OBVIOUS
  <2> QED BY <2>1, <2>2
<1>4. T[0] = 0 OBVIOUS
<1>5. \A i \in Nat : i > B => k[i] = 0 OBVIOUS
<1> HIDE DEF k, T
<1>6. ASSUME NEW i \in Nat, ~(i > B) PROVE g[i] = i * c + g[i + a]
  <2>1. PICK n \in Nat : k[i + a] = n /\ k[i] = n + 1 BY <1>1, <1>2, <1>6
  <2>2. PICK t \in Int : T[n] = t /\ T[n + 1] = t + n BY <1>3
  <2>3. g[i] = c * ((n + 1) * i + a * (t + n)) BY <2>1, <2>2
  <2>4. g[i + a] = c * (n * (i + a) + a * t) BY <2>1, <2>2
  <2>5. c * ((n + 1) * i + a * (t + n)) = i * c + c * (n * (i + a) + a * t) OBVIOUS
  <2> QED BY <2>3, <2>4, <2>5
<1>7. ASSUME NEW i \in Nat, i > B PROVE g[i] = 0
  <2>1. g[i] = c * (0 * i + a * 0) BY <1>4, <1>5, <1>7
  <2> QED BY <2>1
<1>8. \A i \in Nat : g[i] = IF i > B THEN 0 ELSE i * c + g[i + a] BY <1>6, <1>7
<1>9. g = [i \in Nat |-> g[i]] OBVIOUS
<1> HIDE DEF g
<1>10. g = [i \in Nat |-> IF i > B THEN 0 ELSE i * c + g[i + a]] BY <1>8, <1>9
<1> QED BY <1>10

\* The memory the Allocator asks for is what its lists take up, with the shipped ALIGN.
LEMMA TotalIsEnough ==
  ASSUME ALIGN = 8
  PROVE  MemoryTotal = SetFreeListPtr[FREE_LIST_COUNT]
<1> USE Constants
<1> DEFINE c == FREE_LIST_ELEMENT_COUNT
           N == FREE_LIST_COUNT
           ptr == SetFreeListPtr
<1>1. N \in Nat /\ BYTES_MAX = 8 * N /\ c \in Nat
  <2>1. BYTES_MAX \div 8 \in Nat /\ BYTES_MAX = 8 * (BYTES_MAX \div 8) OBVIOUS
  <2> QED BY <2>1 DEF FREE_LIST_COUNT
<1>2. \E f : f = [i \in Nat |-> IF i > BYTES_MAX THEN 0 ELSE i * c + f[i + ALIGN]]
  <2>1. BYTES_MAX \in Nat /\ ALIGN \in Nat \ {0} /\ c \in Int BY <1>1
  <2> HIDE DEF c
  <2> QED BY <2>1, SumExists, Zenon
<1>3. PICK f : /\ f = [i \in Nat |-> IF i > BYTES_MAX THEN 0 ELSE i * c + f[i + ALIGN]]
               /\ MemoryTotal = f[8]
  BY <1>2, Zenon DEF MemoryTotal
<1>4. \A i \in Nat : f[i] = IF i > 8 * N THEN 0 ELSE i * c + f[i + 8]
  BY <1>1, <1>3
<1>5. /\ \A i \in Nat : ptr[i] \in Nat
      /\ \A i \in Nat : ptr[i + 1] = ptr[i] + 8 * (i + 1) * c
      /\ ptr[0] = 0
  BY PtrDef, PtrType
<1> HIDE DEF c, N, ptr
<1> DEFINE S == {n \in Nat : n <= N => f[8 * (N - n) + 8] = ptr[N] - ptr[N - n]}
<1>6. 0 \in S
  <2>1. 8 * N + 8 \in Nat /\ 8 * N + 8 > 8 * N BY <1>1
  <2>2. f[8 * N + 8] = 0 BY <1>4, <2>1
  <2>3. 8 * (N - 0) + 8 = 8 * N + 8 /\ N - 0 = N /\ ptr[N] - ptr[N] = 0 BY <1>1, <1>5
  <2> QED BY <2>2, <2>3
<1>7. ASSUME NEW n \in Nat, n \in S PROVE n + 1 \in S
  <2> SUFFICES ASSUME n + 1 <= N
               PROVE  f[8 * (N - (n + 1)) + 8] = ptr[N] - ptr[N - (n + 1)]
    OBVIOUS
  <2> DEFINE m == N - (n + 1)
  <2>1. /\ m \in Nat /\ N - n = m + 1 /\ 8 * m + 8 \in Nat /\ n <= N
        /\ ~(8 * m + 8 > 8 * N) /\ (8 * m + 8) + 8 = 8 * (m + 1) + 8
    BY <1>1
  <2> HIDE DEF m
  <2>2. f[8 * m + 8] = (8 * m + 8) * c + f[8 * (m + 1) + 8] BY <1>4, <2>1
  <2>3. f[8 * (m + 1) + 8] = ptr[N] - ptr[m + 1] BY <1>7, <2>1
  <2>4. ptr[m + 1] = ptr[m] + 8 * (m + 1) * c BY <1>5, <2>1
  <2>5. 8 * (m + 1) * c = (8 * m + 8) * c /\ (8 * m + 8) * c \in Nat BY <1>1, <2>1
  <2>6. ptr[m] \in Nat /\ ptr[N] \in Nat BY <1>1, <1>5, <2>1
  <2>7. f[8 * m + 8] = ptr[N] - ptr[m] BY <2>2, <2>3, <2>4, <2>5, <2>6
  <2> QED BY <2>7 DEF m
<1> HIDE DEF S
<1>8. N \in S BY <1>1, <1>6, <1>7, SetInduction
<1>9. f[8 * (N - N) + 8] = ptr[N] - ptr[N - N] BY <1>1, <1>8 DEF S
<1>10. 8 * (N - N) + 8 = 8 /\ N - N = 0 /\ ptr[N] - 0 = ptr[N] BY <1>1, <1>5
<1>11. f[8] = ptr[N] BY <1>5, <1>9, <1>10
<1> QED BY <1>3, <1>11 DEF N, ptr
-----------------------------------------------------------------------------
\* The lists of the model are those of the lemmas.
LEMMA Lists == ASSUME NEW s PROVE RangeOf(s) = Elems(s) /\ (NoDuplicates(s) <=> Distinct(s))
BY DEF RangeOf, Elems, NoDuplicates, Distinct

LEMMA Threads ==
  /\ "main" \notin Inserter /\ "main" \in Thread /\ "admin" \in Inserter
  /\ Inserter \subseteq Thread /\ Worker \subseteq Inserter /\ "admin" \notin Worker
  /\ \A t \in Thread : t \in Inserter \/ t = "main"
BY MsgPoolAssumption DEF Inserter, Thread

\* The threads that have pushed and not yet posted.
Posting == {t \in Inserter : pc[t] = "post"}
Removing == IF pc["main"] = "remove" THEN 1 ELSE 0

LEMMA Covers == SemaphoreCovers <=> sem + Cardinality(Posting) + Removing >= Len(m_Msgs)
BY DEF SemaphoreCovers, Posting, Removing

LEMMA PostingFinite ==
  IsFiniteSet(Inserter) /\ IsFiniteSet(Posting) /\ Cardinality(Posting) \in Nat
<1>1. IsFiniteSet(Inserter)
  BY MsgPoolAssumption, FS_AddElement DEF Inserter
<1>2. Posting \in SUBSET Inserter BY DEF Posting
<1>3. IsFiniteSet(Posting) BY <1>1, <1>2, FS_Subset
<1> QED BY <1>1, <1>3, FS_CardinalityType

LEMMA InitInv == Init => Inv
<1> SUFFICES ASSUME Init PROVE Inv OBVIOUS
<1>1. m_MsgAlloc \in Seq(Msg) /\ Distinct(m_MsgAlloc) /\ Elems(m_MsgAlloc) = Msg
  <2> DEFINE n == MSG_COUNT_MAX
  <2>1. m_MsgAlloc = [i \in 1 .. n |-> 0 + i] BY MsgPoolAssumption DEF Init, Msg
  <2>2. Msg = 0 + 1 .. 0 + n /\ n \in Nat /\ 0 \in Int BY MsgPoolAssumption DEF Msg
  <2> HIDE DEF n
  <2> QED BY <2>1, <2>2, CountedList, Zenon
<1>2. \A i \in Index : m_FreeList[i] = LinkFreeElement(i) /\ i \in Nat
  BY DEF Init, Index
<1>3. \A i \in Index : m_FreeList[i] \in Seq(Int) /\ NoDuplicates(m_FreeList[i])
  BY <1>2, ListShape
<1>4. Allocated = {} BY <1>1, Lists DEF Allocated
<1>5. Types
  <2>1. m_FreeList \in [Index -> Seq(Int)]
    <3>1. m_FreeList = [i \in Index |-> m_FreeList[i]] BY DEF Init
    <3> QED BY <1>3, <3>1
  <2>2. msg \in [Msg -> [m_Type : MsgType, m_Size : Int, m_pData : Int]]
    <3>1. Unused \in [m_Type : MsgType, m_Size : Int, m_pData : Int]
      BY DEF Unused, SYSTEM, MsgType
    <3> QED BY <3>1 DEF Init
  <2>3. /\ pc \in [Thread -> InserterLabel \cup MainLabel]
        /\ pc["main"] \in MainLabel /\ \A t \in Inserter : pc[t] \in InserterLabel
    BY Threads DEF Init, InserterLabel, MainLabel
  <2>4. /\ m_Msgs \in Seq(Msg) /\ sem \in Nat /\ pMsg \in [Thread -> Msg \cup {None}]
        /\ leaked \subseteq Msg
    BY DEF Init
  <2> QED BY <1>1, <2>1, <2>2, <2>3, <2>4 DEF Types
<1>6. MsgsOnce
  <2>1. NoDuplicates(m_MsgAlloc) BY <1>1, Lists
  <2>2. NoDuplicates(m_Msgs) /\ RangeOf(m_Msgs) = {} /\ leaked = {}
    BY DEF Init, NoDuplicates, RangeOf
  <2>3. \A t \in Thread : ~InHand(t) BY DEF Init, InHand
  <2> QED BY <2>1, <2>2, <2>3 DEF MsgsOnce
<1>7. SemaphoreCovers
  <2>1. sem = 0 /\ Len(m_Msgs) = 0 /\ Removing \in Nat BY DEF Init, Removing
  <2> QED BY <2>1, PostingFinite, Covers
<1>8. LeakBounded BY DEF Init, LeakBounded
<1>9. BlocksOnce BY <1>2, <1>3, <1>4 DEF BlocksOnce, Made
<1> QED BY <1>5, <1>6, <1>7, <1>8, <1>9 DEF Inv

\* A thread that neither enters nor leaves "post" does not count.
LEMMA PostingStays ==
  ASSUME Types, NEW t \in Thread, NEW l, pc' = [pc EXCEPT ![t] = l],
         l # "post", pc[t] # "post"
  PROVE  Posting' = Posting
BY Threads DEF Types, Posting

\* What a step keeps that touches neither Msgs nor memory.
LEMMA NoMsgMoves ==
  ASSUME Inv, NEW t \in Thread, NEW l \in InserterLabel \cup MainLabel,
         pc' = [pc EXCEPT ![t] = l], t = "main" <=> l \in MainLabel,
         pc[t] \notin {"push", "handle"}, l \notin {"push", "handle"},
         UNCHANGED <<m_FreeList, m_MsgAlloc, msg, m_Msgs, leaked>>,
         pMsg' = pMsg \/ pMsg' = [pMsg EXCEPT ![t] = None], sem' \in Nat
  PROVE  Types' /\ MsgsOnce' /\ LeakBounded' /\ BlocksOnce'
<1>1. Types'
  <2>1. InserterLabel \cap MainLabel = {} BY DEF InserterLabel, MainLabel
  <2> QED BY <2>1, Threads DEF Inv, Types
<1>2. MsgsOnce'
  <2>1. \A u \in Thread : InHand(u)' => InHand(u) /\ u # t BY DEF Inv, Types, InHand
  <2>2. \A u \in Thread : u # t => pMsg'[u] = pMsg[u] BY DEF Inv, Types
  <2> QED BY <2>1, <2>2 DEF Inv, MsgsOnce, Allocated
<1>3. LeakBounded' BY DEF Inv, LeakBounded
<1>4. BlocksOnce'
  <2>1. /\ Allocated' = Allocated
        /\ \A p \in Allocated : (Small(p)' <=> Small(p)) /\ ListOf(p)' = ListOf(p)
    BY DEF Allocated, Small, ListOf
  <2> QED BY <2>1 DEF Inv, BlocksOnce
<1> QED BY <1>1, <1>2, <1>3, <1>4

\* The list a small message returns its block to.
LEMMA SmallIndex ==
  ASSUME Inv, NEW q \in Allocated, Small(q)
  PROVE  ListOf(q) \in Index /\ msg[q].m_Size \in 1 .. (ListOf(q) + 1) * ALIGN
<1>1. msg[q].m_Size \in ShortSize BY DEF Inv, BlocksOnce
<1>2. \A x \in ShortSize : x \in Nat \ {0} BY DEF ShortSize
<1>3. msg[q].m_Size \in 1 .. BYTES_MAX BY <1>1, <1>2, Constants DEF Small
<1>4. ListOf(q) \in Index /\ msg[q].m_Size <= (ListOf(q) + 1) * ALIGN
  BY <1>3, IndexFits DEF ListOf
<1>5. (ListOf(q) + 1) * ALIGN \in Int BY <1>4, Constants DEF Index
<1> QED BY <1>3, <1>4, <1>5

\* AllocateMsg: a block and a Msg leave their free lists.
LEMMA AllocateInv ==
  ASSUME Inv, NEW t \in Inserter, NEW type \in MsgType, NEW size \in Size \cup {1},
         pc[t] \in {"idle", "insert"}, AllocateMsg(t, type, size)
  PROVE  Inv'
<1> DEFINE i == FreeListIndex(size)
           data == IF size > BYTES_MAX THEN SYSTEM ELSE Head(m_FreeList[i])
<1>0. PICK p : p = Head(m_MsgAlloc) OBVIOUS
<1>1. /\ size <= BYTES_MAX => m_FreeList[i] # << >>
      /\ m_MsgAlloc # << >> /\ m_MsgAlloc' = Tail(m_MsgAlloc)
      /\ m_FreeList' = IF size > BYTES_MAX THEN m_FreeList
                       ELSE [m_FreeList EXCEPT ![i] = Tail(@)]
      /\ msg' = [msg EXCEPT ![p] =
                   [m_Type |-> type, m_Size |-> Short(size), m_pData |-> data]]
      /\ pMsg' = [pMsg EXCEPT ![t] = p] /\ pc' = [pc EXCEPT ![t] = "push"]
      /\ UNCHANGED <<m_Msgs, sem, running, leaked>>
  BY <1>0 DEF AllocateMsg, Goto
<1>2. /\ size \in ShortSize /\ size \in Nat \ {0} /\ BYTES_MAX \in Nat
      /\ Short(size) = size
  <2>1. size \in ShortSize BY Sizes
  <2>2. size \in Nat \ {0} BY <2>1 DEF ShortSize
  <2> QED BY <2>1, <2>2, ShortFits, Constants
<1>3. size <= BYTES_MAX => i \in Index
  <2>1. size <= BYTES_MAX => size \in 1 .. BYTES_MAX BY <1>2
  <2> QED BY <2>1, IndexFits
<1>4. /\ m_MsgAlloc' \in Seq(Msg) /\ NoDuplicates(m_MsgAlloc')
      /\ p \in RangeOf(m_MsgAlloc) /\ p \in Msg
      /\ RangeOf(m_MsgAlloc') = RangeOf(m_MsgAlloc) \ {p}
  <2>1. m_MsgAlloc \in Seq(Msg) /\ Distinct(m_MsgAlloc)
    BY Lists DEF Inv, Types, MsgsOnce
  <2>2. Elems(m_MsgAlloc) \subseteq Msg BY <2>1, ElemsType
  <2> QED BY <1>0, <1>1, <2>1, <2>2, Lists, TailElems
<1>5. ASSUME size <= BYTES_MAX
      PROVE  /\ Tail(m_FreeList[i]) \in Seq(Int) /\ NoDuplicates(Tail(m_FreeList[i]))
             /\ data \in RangeOf(m_FreeList[i]) /\ data \in Int
             /\ RangeOf(Tail(m_FreeList[i])) = RangeOf(m_FreeList[i]) \ {data}
  <2>1. m_FreeList[i] \in Seq(Int) /\ Distinct(m_FreeList[i]) /\ m_FreeList[i] # << >>
    BY <1>1, <1>3, <1>5, Lists DEF Inv, Types, BlocksOnce
  <2>2. data = Head(m_FreeList[i]) BY <1>2, <1>5
  <2>3. Elems(m_FreeList[i]) \subseteq Int BY <2>1, ElemsType
  <2> HIDE DEF i, data
  <2> QED BY <2>1, <2>2, <2>3, Lists, TailElems
<1>6. data \in Int /\ (size > BYTES_MAX => data = SYSTEM)
  BY <1>2, <1>5 DEF SYSTEM
<1>7. Allocated' = Allocated \cup {p} /\ p \notin Allocated BY <1>4 DEF Allocated
<1> HIDE DEF i, data
<1>8. Types'
  <2>1. m_FreeList' \in [Index -> Seq(Int)]
    <3>1. CASE size > BYTES_MAX BY <1>1, <3>1 DEF Inv, Types
    <3>2. CASE size <= BYTES_MAX
      <4>1. m_FreeList' = [m_FreeList EXCEPT ![i] = Tail(m_FreeList[i])] BY <1>1, <1>2, <3>2
      <4> QED BY <1>5, <3>2, <4>1 DEF Inv, Types
    <3> QED BY <1>2, <3>1, <3>2
  <2>2. msg' \in [Msg -> [m_Type : MsgType, m_Size : Int, m_pData : Int]]
    BY <1>1, <1>2, <1>4, <1>6 DEF Inv, Types
  <2>3. /\ pc' \in [Thread -> InserterLabel \cup MainLabel]
        /\ pc'["main"] \in MainLabel /\ \A u \in Inserter : pc'[u] \in InserterLabel
    BY <1>1, Threads DEF Inv, Types, InserterLabel
  <2>4. pMsg' \in [Thread -> Msg \cup {None}] BY <1>1, <1>4 DEF Inv, Types
  <2> QED BY <1>1, <1>4, <2>1, <2>2, <2>3, <2>4 DEF Inv, Types
<1>9. MsgsOnce'
  <2>1. /\ t \in Thread /\ pMsg'[t] = p /\ InHand(t)'
        /\ \A u \in Thread : u # t =>
             (InHand(u)' <=> InHand(u)) /\ pMsg'[u] = pMsg[u]
    BY <1>1, Threads DEF Inv, Types, InHand
  <2>2. RangeOf(m_Msgs)' = RangeOf(m_Msgs) BY <1>1
  <2>3. \A u \in Thread : u # t /\ InHand(u) => pMsg[u] # p
    BY <1>7 DEF Inv, MsgsOnce
  <2> QED BY <1>1, <1>4, <1>7, <2>1, <2>2, <2>3 DEF Inv, MsgsOnce
<1>10. SemaphoreCovers'
  <2>1. Posting' = Posting BY <1>1, Threads, PostingStays DEF Inv
  <2>2. Removing' = Removing BY <1>1, Threads DEF Inv, Types, Removing
  <2> QED BY <2>1, <2>2, <1>1 DEF Inv, SemaphoreCovers, Posting, Removing
<1>11. LeakBounded' BY <1>1 DEF Inv, LeakBounded
<1>12. BlocksOnce'
  <2>1. \A q \in Allocated : /\ msg'[q] = msg[q] /\ q # p
                             /\ (Small(q)' <=> Small(q)) /\ ListOf(q)' = ListOf(q)
    BY <1>1, <1>7 DEF Small, ListOf, Inv, Types, Allocated
  <2>2. msg'[p] = [m_Type |-> type, m_Size |-> size, m_pData |-> data]
    BY <1>1, <1>2, <1>4 DEF Inv, Types
  <2>3. msg'[p].m_Size = size /\ msg'[p].m_pData = data BY <2>2
  <2>4. (Small(p)' <=> size <= BYTES_MAX) /\ ListOf(p)' = i
    BY <2>3 DEF Small, ListOf, i
  <2>5. CASE size > BYTES_MAX
    <3>1. ~Small(p)' /\ m_FreeList' = m_FreeList BY <1>1, <1>2, <2>4, <2>5
    <3> QED BY <1>2, <1>6, <1>7, <2>1, <2>3, <2>5, <3>1 DEF Inv, BlocksOnce
  <2>6. CASE size <= BYTES_MAX
    <3>1. m_FreeList' = [m_FreeList EXCEPT ![i] = Tail(m_FreeList[i])]
      BY <1>1, <1>2, <2>6
    <3>2. /\ RangeOf(m_FreeList'[i]) = RangeOf(m_FreeList[i]) \ {data}
          /\ NoDuplicates(m_FreeList'[i])
          /\ \A j \in Index : j # i => m_FreeList'[j] = m_FreeList[j]
      BY <1>3, <1>5, <2>6, <3>1 DEF Inv, Types
    <3>3. data \in RangeOf(m_FreeList[i]) /\ data \in Made(i) /\ i \in Index
      BY <1>3, <1>5, <2>6 DEF Inv, BlocksOnce
    <3>4. \A q \in Allocated : Small(q) => ListOf(q) \in Index BY SmallIndex
    <3>5. \A q \in Allocated : Small(q) /\ ListOf(q) = i => msg[q].m_pData # data
      BY <3>3 DEF Inv, BlocksOnce
    <3>6. \A j \in Index :
            NoDuplicates(m_FreeList'[j]) /\ RangeOf(m_FreeList'[j]) \subseteq Made(j)
      BY <3>2, <3>3 DEF Inv, BlocksOnce
    <3>7. ASSUME NEW q \in Allocated'
          PROVE  /\ msg'[q].m_Size \in ShortSize
                 /\ ~Small(q)' => msg'[q].m_pData = SYSTEM
                 /\ Small(q)' => /\ msg'[q].m_pData \in Made(ListOf(q)')
                                 /\ msg'[q].m_pData \notin RangeOf(m_FreeList'[ListOf(q)'])
      <4>1. CASE q = p BY <1>2, <2>3, <2>4, <2>6, <3>2, <3>3, <4>1
      <4>2. CASE q # p
        <5>1. q \in Allocated BY <1>7, <4>2
        <5> QED BY <2>1, <3>2, <3>4, <3>5, <5>1 DEF Inv, BlocksOnce
      <4> QED BY <4>1, <4>2
    <3>8. ASSUME NEW q \in Allocated', NEW r \in Allocated', Small(q)', Small(r)',
                 ListOf(q)' = ListOf(r)', msg'[q].m_pData = msg'[r].m_pData
          PROVE  q = r
      BY <1>7, <2>1, <2>3, <2>4, <3>5, <3>8 DEF Inv, BlocksOnce
    <3> QED BY <3>6, <3>7, <3>8 DEF BlocksOnce
  <2> QED BY <1>2, <2>5, <2>6
<1> QED BY <1>8, <1>9, <1>10, <1>11, <1>12 DEF Inv

\* PushBack: the Msg goes from the thread to the queue or, when that is full, to nobody.
LEMMA PushInv == ASSUME Inv, NEW t \in Inserter, PushBack(t) PROVE Inv'
<1>0. PICK p : p = pMsg[t] OBVIOUS
<1>1. /\ pc[t] = "push" /\ pc' = [pc EXCEPT ![t] = "post"]
      /\ UNCHANGED <<m_FreeList, m_MsgAlloc, msg, sem, running, pMsg>>
  BY DEF PushBack, Goto, memory
<1>2. /\ p \in Msg /\ p \in Allocated \ (RangeOf(m_Msgs) \cup leaked)
      /\ \A u \in Thread : InHand(u) /\ pMsg[u] = p => u = t
  <2>1. InHand(t) /\ t \in Thread BY <1>1, Threads DEF InHand
  <2> QED BY <1>0, <2>1 DEF Inv, MsgsOnce, Allocated
<1>3. \A u \in Thread : InHand(u)' <=> InHand(u) /\ u # t
  BY <1>1, Threads DEF Inv, Types, InHand
<1>4. /\ pc' \in [Thread -> InserterLabel \cup MainLabel]
      /\ pc'["main"] \in MainLabel /\ \A u \in Inserter : pc'[u] \in InserterLabel
  BY <1>1, Threads DEF Inv, Types, InserterLabel
<1>5. BlocksOnce'
  <2>1. /\ Allocated' = Allocated
        /\ \A q \in Allocated : (Small(q)' <=> Small(q)) /\ ListOf(q)' = ListOf(q)
    BY <1>1 DEF Allocated, Small, ListOf
  <2> QED BY <1>1, <2>1 DEF Inv, BlocksOnce
<1>6. /\ Cardinality(Posting') = Cardinality(Posting) + 1 /\ Removing' = Removing
      /\ Cardinality(Posting) \in Nat /\ Removing \in Nat /\ sem \in Nat
  <2>1. Posting' = Posting \cup {t} /\ t \notin Posting BY <1>1, Threads DEF Inv, Types, Posting
  <2>2. Cardinality(Posting') = Cardinality(Posting) + 1
    BY <2>1, PostingFinite, FS_AddElement
  <2>3. Removing' = Removing /\ Removing \in Nat
    BY <1>1, Threads DEF Inv, Types, Removing
  <2> QED BY <2>2, <2>3, PostingFinite DEF Inv, Types
<1>7. m_Msgs \in Seq(Msg) /\ Distinct(m_Msgs) /\ Len(m_Msgs) \in Nat
  BY Lists, LenProperties DEF Inv, Types, MsgsOnce
<1>8. CASE ~Full
  <2>1. m_Msgs' = Append(m_Msgs, p) /\ leaked' = leaked BY <1>0, <1>8 DEF PushBack
  <2>2. /\ m_Msgs' \in Seq(Msg) /\ NoDuplicates(m_Msgs')
        /\ RangeOf(m_Msgs') = RangeOf(m_Msgs) \cup {p}
    BY <1>2, <1>7, <2>1, Lists, AppendElems
  <2>3. Len(m_Msgs') = Len(m_Msgs) + 1 BY <1>2, <1>7, <2>1, AppendProperties
  <2>4. Types' BY <1>1, <1>4, <2>1, <2>2 DEF Inv, Types
  <2>5. MsgsOnce' BY <1>1, <1>2, <1>3, <2>1, <2>2 DEF Inv, MsgsOnce, Allocated
  <2>6. SemaphoreCovers'
    <3>1. sem + Cardinality(Posting) + Removing >= Len(m_Msgs) BY Covers DEF Inv
    <3>2. sem' + Cardinality(Posting') + Removing' >= Len(m_Msgs')
      BY <1>1, <1>6, <1>7, <2>3, <3>1
    <3> QED BY <3>2 DEF SemaphoreCovers, Posting, Removing
  <2>7. LeakBounded' BY <2>1 DEF Inv, LeakBounded
  <2> QED BY <1>5, <2>4, <2>5, <2>6, <2>7 DEF Inv
<1>9. CASE Full
  <2>1. m_Msgs' = m_Msgs /\ leaked' = leaked \cup {p} BY <1>0, <1>9 DEF PushBack
  <2>2. Types' BY <1>1, <1>2, <1>4, <2>1 DEF Inv, Types
  <2>3. MsgsOnce' BY <1>1, <1>2, <1>3, <2>1 DEF Inv, MsgsOnce, Allocated
  <2>4. SemaphoreCovers'
    <3>1. sem + Cardinality(Posting) + Removing >= Len(m_Msgs) BY Covers DEF Inv
    <3>2. sem' + Cardinality(Posting') + Removing' >= Len(m_Msgs')
      BY <1>1, <1>6, <1>7, <2>1, <3>1
    <3> QED BY <3>2 DEF SemaphoreCovers, Posting, Removing
  <2>5. LeakBounded'
    <3>1. IsFiniteSet(Msg) /\ Cardinality(Msg) = MSG_COUNT_MAX /\ MSG_COUNT_MAX \in Nat
      <4>1. MSG_COUNT_MAX \in Nat \ {0} BY MsgPoolAssumption
      <4> QED BY <4>1, FS_Interval DEF Msg
    <3>2. /\ leaked' \in SUBSET Msg /\ Elems(m_Msgs) \in SUBSET Msg
          /\ leaked' \cap Elems(m_Msgs) = {}
      <4>1. Elems(m_Msgs) \subseteq Msg BY <1>7, ElemsType
      <4> QED BY <1>2, <2>1, <4>1, Lists DEF Inv, Types, MsgsOnce
    <3>3. IsFiniteSet(leaked') /\ Cardinality(leaked') \in Nat
      BY <3>1, <3>2, FS_Subset, FS_CardinalityType
    <3>4. IsFiniteSet(Elems(m_Msgs)) /\ Cardinality(Elems(m_Msgs)) = Len(m_Msgs)
      BY <1>7, DistinctLen
    <3>5. Cardinality(leaked' \cup Elems(m_Msgs)) = Cardinality(leaked') + Len(m_Msgs)
      <4>1. Cardinality(leaked' \cap Elems(m_Msgs)) = 0 BY <3>2, FS_EmptySet
      <4>2. Cardinality(leaked' \cup Elems(m_Msgs)) =
              Cardinality(leaked') + Len(m_Msgs) - Cardinality(leaked' \cap Elems(m_Msgs))
        BY <3>3, <3>4, FS_Union
      <4> QED BY <1>7, <3>3, <4>1, <4>2
    <3>6. Cardinality(leaked' \cup Elems(m_Msgs)) <= MSG_COUNT_MAX
      <4>1. leaked' \cup Elems(m_Msgs) \in SUBSET Msg BY <3>2
      <4> QED BY <3>1, <4>1, FS_Subset
    <3>7. Len(m_Msgs) >= MSG_QUEUE_SIZE /\ MSG_QUEUE_SIZE \in Nat
      BY <1>9, MsgPoolAssumption DEF Full
    <3> QED BY <1>7, <3>1, <3>3, <3>5, <3>6, <3>7 DEF LeakBounded
  <2> QED BY <1>5, <2>2, <2>3, <2>4, <2>5 DEF Inv
<1> QED BY <1>8, <1>9

\* Post: what a thread owed to the semaphore is paid.
LEMMA PostInv == ASSUME Inv, NEW t \in Inserter, Post(t) PROVE Inv'
<1>1. PICK l \in {"idle", "done"} :
        /\ pc[t] = "post" /\ pc' = [pc EXCEPT ![t] = l] /\ sem' = sem + 1
        /\ pMsg' = pMsg \/ pMsg' = [pMsg EXCEPT ![t] = None]
        /\ UNCHANGED <<m_FreeList, m_MsgAlloc, msg, m_Msgs, leaked>>
  BY DEF Post, Posted, Goto, memory
<1>2. Types' /\ MsgsOnce' /\ LeakBounded' /\ BlocksOnce'
  <2>1. l \in InserterLabel /\ l \notin MainLabel BY DEF InserterLabel, MainLabel
  <2>2. sem' \in Nat BY <1>1 DEF Inv, Types
  <2> QED BY <1>1, <2>1, <2>2, Threads, NoMsgMoves
<1>3. SemaphoreCovers'
  <2>1. Posting' = Posting \ {t} /\ t \in Posting
    BY <1>1, Threads DEF Inv, Types, Posting
  <2>2. Cardinality(Posting') = Cardinality(Posting) - 1
    BY <2>1, PostingFinite, FS_RemoveElement
  <2>3. Removing' = Removing /\ Removing \in Nat
    BY <1>1, Threads DEF Inv, Types, Removing
  <2>4. sem + Cardinality(Posting) + Removing >= Len(m_Msgs) BY Covers DEF Inv
  <2>5. sem \in Nat /\ Cardinality(Posting) \in Nat /\ Len(m_Msgs) \in Nat
    BY PostingFinite, LenProperties DEF Inv, Types
  <2>6. sem' + Cardinality(Posting') + Removing' >= Len(m_Msgs')
    BY <1>1, <2>2, <2>3, <2>4, <2>5
  <2> QED BY <2>6 DEF SemaphoreCovers, Posting, Removing
<1> QED BY <1>2, <1>3 DEF Inv

\* A step of main or admin that moves no Msg and leaves the count alone.
LEMMA QuietInv ==
  ASSUME Inv, NEW t \in Thread, NEW l \in InserterLabel \cup MainLabel,
         pc' = [pc EXCEPT ![t] = l], t = "main" <=> l \in MainLabel,
         pc[t] \notin {"push", "handle", "post", "remove"},
         l \notin {"push", "handle", "post", "remove"},
         UNCHANGED <<m_FreeList, m_MsgAlloc, msg, m_Msgs, leaked, sem, pMsg>>
  PROVE  Inv'
<1>1. Types' /\ MsgsOnce' /\ LeakBounded' /\ BlocksOnce'
  <2>1. sem' \in Nat BY DEF Inv, Types
  <2> QED BY <2>1, NoMsgMoves
<1>2. SemaphoreCovers'
  <2>1. Posting' = Posting BY PostingStays DEF Inv
  <2>2. Removing' = Removing BY Threads DEF Inv, Types, Removing
  <2> QED BY <2>1, <2>2 DEF Inv, SemaphoreCovers, Posting, Removing
<1> QED BY <1>1, <1>2 DEF Inv

\* Wait: main takes a count and is on its way to the queue.
LEMMA WaitInv == ASSUME Inv, Wait PROVE Inv'
<1>1. /\ pc["main"] = "wait" /\ sem > 0 /\ sem' = sem - 1
      /\ pc' = [pc EXCEPT !["main"] = "remove"]
      /\ UNCHANGED <<m_FreeList, m_MsgAlloc, msg, m_Msgs, leaked, pMsg>>
  BY DEF Wait, Goto, memory
<1>2. Types' /\ MsgsOnce' /\ LeakBounded' /\ BlocksOnce'
  <2>1. "remove" \in MainLabel BY DEF MainLabel
  <2>2. sem' \in Nat BY <1>1 DEF Inv, Types
  <2> QED BY <1>1, <2>1, <2>2, Threads, NoMsgMoves
<1>3. SemaphoreCovers'
  <2>1. Posting' = Posting BY <1>1, Threads, PostingStays DEF Inv
  <2>2. Removing = 0 /\ Removing' = 1 BY <1>1, Threads DEF Inv, Types, Removing
  <2>3. sem + Cardinality(Posting) + Removing >= Len(m_Msgs) BY Covers DEF Inv
  <2>4. sem \in Nat /\ Cardinality(Posting) \in Nat /\ Len(m_Msgs) \in Nat
    BY PostingFinite, LenProperties DEF Inv, Types
  <2>5. sem' + Cardinality(Posting') + Removing' >= Len(m_Msgs')
    BY <1>1, <2>1, <2>2, <2>3, <2>4
  <2> QED BY <2>5 DEF SemaphoreCovers, Posting, Removing
<1> QED BY <1>2, <1>3 DEF Inv

\* RemoveMsg: the first Msg of the queue goes to main, or there is none: a count may be
\* there for a push that failed.
LEMMA RemoveInv == ASSUME Inv, RemoveMsg PROVE Inv'
<1>0. /\ pc["main"] = "remove" /\ Removing = 1
      /\ UNCHANGED <<m_FreeList, m_MsgAlloc, msg, sem, running, leaked>>
  BY DEF RemoveMsg, memory, Removing
<1>1. /\ m_Msgs \in Seq(Msg) /\ Distinct(m_Msgs) /\ Len(m_Msgs) \in Nat
      /\ sem \in Nat /\ Cardinality(Posting) \in Nat
      /\ sem + Cardinality(Posting) + Removing >= Len(m_Msgs)
  BY Lists, LenProperties, PostingFinite, Covers DEF Inv, Types, MsgsOnce
<1>2. CASE m_Msgs = << >>
  <2>1. pc' = [pc EXCEPT !["main"] = "loop"] /\ UNCHANGED <<m_Msgs, pMsg>>
    BY <1>2 DEF RemoveMsg, Goto
  <2>2. Types' /\ MsgsOnce' /\ LeakBounded' /\ BlocksOnce'
    <3>1. "loop" \in MainLabel BY DEF MainLabel
    <3>2. sem' \in Nat BY <1>0, <1>1
    <3> QED BY <1>0, <2>1, <3>1, <3>2, Threads, NoMsgMoves
  <2>3. SemaphoreCovers'
    <3>1. Posting' = Posting BY <1>0, <2>1, Threads, PostingStays DEF Inv
    <3>2. Removing' = 0 BY <2>1, Threads DEF Inv, Types, Removing
    <3>3. Len(m_Msgs') = 0 BY <1>2, <2>1
    <3>4. sem' + Cardinality(Posting') + Removing' >= Len(m_Msgs')
      BY <1>0, <1>1, <3>1, <3>2, <3>3
    <3> QED BY <3>4 DEF SemaphoreCovers, Posting, Removing
  <2> QED BY <2>2, <2>3 DEF Inv
<1>3. CASE m_Msgs # << >>
  <2>0. PICK p : p = Head(m_Msgs) OBVIOUS
  <2>1. PICK l \in {"exited", "handle"} :
          /\ pc' = [pc EXCEPT !["main"] = l] /\ pMsg' = [pMsg EXCEPT !["main"] = p]
          /\ m_Msgs' = Tail(m_Msgs)
    BY <1>3, <2>0 DEF RemoveMsg, Goto, PopFront
  <2>2. /\ m_Msgs' \in Seq(Msg) /\ NoDuplicates(m_Msgs') /\ p \in RangeOf(m_Msgs)
        /\ RangeOf(m_Msgs') = RangeOf(m_Msgs) \ {p}
    BY <1>1, <1>3, <2>0, <2>1, Lists, TailElems
  <2>3. p \in Msg BY <1>1, <2>2, Lists, ElemsType
  <2>4. Len(m_Msgs') = Len(m_Msgs) - 1 BY <1>1, <1>3, <2>1, HeadTailProperties
  <2>5. Types'
    BY <1>0, <1>1, <2>1, <2>2, <2>3, Threads DEF Inv, Types, InserterLabel, MainLabel
  <2>6. MsgsOnce'
    <3>1. /\ \A u \in Thread : u # "main" => (InHand(u)' <=> InHand(u)) /\ pMsg'[u] = pMsg[u]
          /\ pMsg'["main"] = p
      BY <2>1, Threads DEF Inv, Types, InHand
    <3>2. p \in Allocated /\ p \notin leaked BY <2>2 DEF Inv, MsgsOnce
    <3>3. \A u \in Thread : u # "main" /\ InHand(u) => pMsg[u] # p
      BY <2>2 DEF Inv, MsgsOnce
    <3> QED BY <1>0, <2>2, <3>1, <3>2, <3>3 DEF Inv, MsgsOnce, Allocated
  <2>7. SemaphoreCovers'
    <3>1. Posting' = Posting BY <1>0, <2>1, Threads, PostingStays DEF Inv
    <3>2. Removing' = 0 BY <2>1, Threads DEF Inv, Types, Removing
    <3>3. sem' + Cardinality(Posting') + Removing' >= Len(m_Msgs')
      BY <1>0, <1>1, <2>4, <3>1, <3>2
    <3> QED BY <3>3 DEF SemaphoreCovers, Posting, Removing
  <2>8. LeakBounded' BY <1>0 DEF Inv, LeakBounded
  <2>9. BlocksOnce'
    <3>1. /\ Allocated' = Allocated
          /\ \A q \in Allocated : (Small(q)' <=> Small(q)) /\ ListOf(q)' = ListOf(q)
      BY <1>0 DEF Allocated, Small, ListOf
    <3> QED BY <1>0, <3>1 DEF Inv, BlocksOnce
  <2> QED BY <2>5, <2>6, <2>7, <2>8, <2>9 DEF Inv
<1> QED BY <1>2, <1>3

\* DeallocateMsg: the block goes back to the list it came from, the Msg to the free Msgs.
LEMMA HandleInv == ASSUME Inv, Handle PROVE Inv'
<1>0. PICK p : p = pMsg["main"] OBVIOUS
<1>1. /\ pc["main"] = "handle" /\ pc' = [pc EXCEPT !["main"] = "loop"]
      /\ pMsg' = [pMsg EXCEPT !["main"] = None]
      /\ m_MsgAlloc' = <<p>> \o m_MsgAlloc /\ msg' = [msg EXCEPT ![p] = Unused]
      /\ m_FreeList' = IF msg[p].m_Size > BYTES_MAX THEN m_FreeList
                       ELSE [m_FreeList EXCEPT ![ListOf(p)] = <<msg[p].m_pData>> \o @]
      /\ UNCHANGED <<m_Msgs, sem, running, leaked>>
  BY <1>0 DEF Handle, DeallocateMsg, Goto
<1>2. /\ p \in Msg /\ p \in Allocated \ (RangeOf(m_Msgs) \cup leaked)
      /\ \A u \in Thread : InHand(u) /\ pMsg[u] = p => u = "main"
  <2>1. InHand("main") BY <1>1 DEF InHand
  <2> QED BY <1>0, <2>1, Threads DEF Inv, MsgsOnce, Allocated
<1>3. /\ m_MsgAlloc' \in Seq(Msg) /\ NoDuplicates(m_MsgAlloc')
      /\ RangeOf(m_MsgAlloc') = RangeOf(m_MsgAlloc) \cup {p}
  <2>1. m_MsgAlloc \in Seq(Msg) /\ Distinct(m_MsgAlloc) /\ p \notin Elems(m_MsgAlloc)
    BY <1>2, Lists DEF Inv, Types, MsgsOnce, Allocated
  <2> QED BY <1>1, <1>2, <2>1, Lists, ConsElems
<1>4. Allocated' = Allocated \ {p} BY <1>3 DEF Allocated
<1>5. msg[p].m_Size \in Int /\ msg[p].m_pData \in Int /\ BYTES_MAX \in Int
  BY <1>2, Constants DEF Inv, Types
<1>6. PICK i, data : i = ListOf(p) /\ data = msg[p].m_pData OBVIOUS
<1>7. ASSUME Small(p)
      PROVE  /\ i \in Index /\ m_FreeList' = [m_FreeList EXCEPT ![i] = <<data>> \o m_FreeList[i]]
             /\ m_FreeList'[i] \in Seq(Int) /\ NoDuplicates(m_FreeList'[i])
             /\ RangeOf(m_FreeList'[i]) = RangeOf(m_FreeList[i]) \cup {data}
             /\ data \in Made(i)
  <2>1. i \in Index BY <1>2, <1>6, <1>7, SmallIndex
  <2>2. m_FreeList' = [m_FreeList EXCEPT ![i] = <<data>> \o m_FreeList[i]]
    BY <1>1, <1>5, <1>6, <1>7 DEF Small
  <2>3. m_FreeList'[i] = <<data>> \o m_FreeList[i] BY <2>1, <2>2 DEF Inv, Types
  <2>4. m_FreeList[i] \in Seq(Int) /\ Distinct(m_FreeList[i])
    BY <2>1, Lists DEF Inv, Types, BlocksOnce
  <2>5. data \in Int /\ data \notin Elems(m_FreeList[i]) /\ data \in Made(i)
    BY <1>2, <1>5, <1>6, <1>7, Lists DEF Inv, BlocksOnce
  <2> QED BY <2>1, <2>2, <2>3, <2>4, <2>5, Lists, ConsElems
<1>8. ~Small(p) => m_FreeList' = m_FreeList BY <1>1, <1>5 DEF Small
<1>9. Types'
  <2>1. m_FreeList' \in [Index -> Seq(Int)]
    <3>1. CASE Small(p) BY <1>7, <3>1 DEF Inv, Types
    <3>2. CASE ~Small(p) BY <1>8, <3>2 DEF Inv, Types
    <3> QED BY <3>1, <3>2
  <2>2. msg' \in [Msg -> [m_Type : MsgType, m_Size : Int, m_pData : Int]]
    <3>1. Unused \in [m_Type : MsgType, m_Size : Int, m_pData : Int]
      BY DEF Unused, SYSTEM, MsgType
    <3> QED BY <1>1, <3>1 DEF Inv, Types
  <2>3. /\ pc' \in [Thread -> InserterLabel \cup MainLabel]
        /\ pc'["main"] \in MainLabel /\ \A u \in Inserter : pc'[u] \in InserterLabel
    BY <1>1, Threads DEF Inv, Types, MainLabel
  <2>4. pMsg' \in [Thread -> Msg \cup {None}] BY <1>1 DEF Inv, Types
  <2> QED BY <1>1, <1>3, <2>1, <2>2, <2>3, <2>4 DEF Inv, Types
<1>10. MsgsOnce'
  <2>1. \A u \in Thread : InHand(u)' => InHand(u) /\ u # "main" /\ pMsg'[u] = pMsg[u]
    BY <1>1, Threads DEF Inv, Types, InHand
  <2>2. \A u \in Thread : InHand(u)' => pMsg[u] # p BY <1>2, <2>1
  <2> QED BY <1>1, <1>2, <1>3, <1>4, <2>1, <2>2 DEF Inv, MsgsOnce
<1>11. SemaphoreCovers'
  <2>1. Posting' = Posting BY <1>1, Threads, PostingStays DEF Inv
  <2>2. Removing' = Removing BY <1>1, Threads DEF Inv, Types, Removing
  <2> QED BY <1>1, <2>1, <2>2 DEF Inv, SemaphoreCovers, Posting, Removing
<1>12. LeakBounded' BY <1>1 DEF Inv, LeakBounded
<1>13. BlocksOnce'
  <2>1. \A q \in Allocated' : /\ q \in Allocated /\ q # p /\ msg'[q] = msg[q]
                              /\ (Small(q)' <=> Small(q)) /\ ListOf(q)' = ListOf(q)
    BY <1>1, <1>4 DEF Small, ListOf, Inv, Types, Allocated
  <2>2. \A q \in Allocated' : Small(q) => ListOf(q) \in Index BY <2>1, SmallIndex
  <2>3. \A q \in Allocated' :
          Small(p) /\ Small(q) /\ ListOf(q) = i => msg[q].m_pData # data
    BY <1>2, <1>6, <2>1 DEF Inv, BlocksOnce
  <2>4. /\ \A j \in Index : NoDuplicates(m_FreeList'[j]) /\ RangeOf(m_FreeList'[j]) \subseteq Made(j)
        /\ \A q \in Allocated' : Small(q) => msg[q].m_pData \notin RangeOf(m_FreeList'[ListOf(q)])
    <3>1. CASE Small(p)
      <4>1. \A j \in Index : j # i => m_FreeList'[j] = m_FreeList[j]
        BY <1>7, <3>1 DEF Inv, Types
      <4>2. \A j \in Index : NoDuplicates(m_FreeList'[j]) /\ RangeOf(m_FreeList'[j]) \subseteq Made(j)
        BY <1>7, <3>1, <4>1 DEF Inv, BlocksOnce
      <4>3. ASSUME NEW q \in Allocated', Small(q)
            PROVE  msg[q].m_pData \notin RangeOf(m_FreeList'[ListOf(q)])
        <5>1. q \in Allocated /\ ListOf(q) \in Index BY <2>1, <2>2, <4>3
        <5>2. msg[q].m_pData \notin RangeOf(m_FreeList[ListOf(q)])
          BY <4>3, <5>1 DEF Inv, BlocksOnce
        <5>3. CASE ListOf(q) = i BY <1>7, <2>3, <3>1, <4>3, <5>2, <5>3
        <5>4. CASE ListOf(q) # i BY <4>1, <5>1, <5>2, <5>4
        <5> QED BY <5>3, <5>4
      <4> QED BY <4>2, <4>3
    <3>2. CASE ~Small(p) BY <1>8, <2>1, <3>2 DEF Inv, BlocksOnce
    <3> QED BY <3>1, <3>2
  <2> QED BY <2>1, <2>4 DEF Inv, BlocksOnce
<1> QED BY <1>9, <1>10, <1>11, <1>12, <1>13 DEF Inv

LEMMA StutterInv == ASSUME Inv, UNCHANGED vars PROVE Inv'
<1>1. UNCHANGED <<m_FreeList, m_MsgAlloc, msg, m_Msgs, sem, pc, pMsg, leaked>> BY DEF vars
<1>2. Types' BY <1>1 DEF Inv, Types
<1>3. MsgsOnce' BY <1>1 DEF Inv, MsgsOnce, Allocated, InHand
<1>4. SemaphoreCovers' /\ LeakBounded' BY <1>1 DEF Inv, SemaphoreCovers, LeakBounded
<1>5. BlocksOnce'
  <2>1. /\ Allocated' = Allocated
        /\ \A q \in Allocated : (Small(q)' <=> Small(q)) /\ ListOf(q)' = ListOf(q)
    BY <1>1 DEF Allocated, Small, ListOf
  <2> QED BY <1>1, <2>1 DEF Inv, BlocksOnce
<1> QED BY <1>2, <1>3, <1>4, <1>5 DEF Inv

LEMMA WorkerInv == ASSUME Inv, NEW w \in Worker, WorkerStep(w) PROVE Inv'
<1>0. w \in Inserter BY Threads
<1>1. CASE InsertSimpleMsg(w)
  <2>1. "NOTIFY" \in MsgType /\ 1 \in Size \cup {1} BY DEF MsgType
  <2>2. CASE AllocateMsg(w, "NOTIFY", 1)
    BY <1>0, <1>1, <2>1, <2>2, AllocateInv DEF InsertSimpleMsg
  <2> QED BY <1>1, <2>2, StutterInv DEF InsertSimpleMsg
<1>2. ASSUME NEW size \in Size, ExtractMsg(w, size) PROVE Inv'
  <2>1. "RECV" \in MsgType /\ size \in Size \cup {1} BY DEF MsgType
  <2>2. CASE AllocateMsg(w, "RECV", size)
    BY <1>0, <1>2, <2>1, <2>2, AllocateInv DEF ExtractMsg
  <2> QED BY <1>2, <2>2, StutterInv DEF ExtractMsg
<1>3. CASE Insert(w) BY <1>0, <1>3, PushInv, PostInv DEF Insert
<1> QED BY <1>1, <1>2, <1>3 DEF WorkerStep

LEMMA AdminInv == ASSUME Inv, AdminStep PROVE Inv'
<1>0. "admin" \in Inserter /\ "admin" \in Thread /\ "admin" # "main" BY Threads
<1>1. CASE ShutdownNetServer
  <2>1. /\ pc["admin"] = "idle" /\ pc' = [pc EXCEPT !["admin"] = "insert"]
        /\ UNCHANGED <<m_FreeList, m_MsgAlloc, msg, m_Msgs, leaked, sem, pMsg>>
    BY <1>1 DEF ShutdownNetServer, Goto, memory
  <2>2. "insert" \in InserterLabel /\ "insert" \notin MainLabel
    BY DEF InserterLabel, MainLabel
  <2> QED BY <1>0, <2>1, <2>2, QuietInv
<1>2. CASE InsertShutdown
  <2>0. pc["admin"] = "insert" BY <1>2 DEF InsertShutdown
  <2>1. "SHUTDOWN" \in MsgType /\ 1 \in Size \cup {1} BY DEF MsgType
  <2>2. CASE AllocateMsg("admin", "SHUTDOWN", 1)
    BY <1>0, <2>0, <2>1, <2>2, AllocateInv
  <2>3. CASE Goto("admin", "failed") /\ UNCHANGED <<memory, m_Msgs, sem, running, pMsg, leaked>>
    <3>1. /\ pc' = [pc EXCEPT !["admin"] = "failed"]
          /\ UNCHANGED <<m_FreeList, m_MsgAlloc, msg, m_Msgs, leaked, sem, pMsg>>
      BY <2>3 DEF Goto, memory
    <3>2. "failed" \in InserterLabel /\ "failed" \notin MainLabel
      BY DEF InserterLabel, MainLabel
    <3> QED BY <1>0, <2>0, <3>1, <3>2, QuietInv
  <2> QED BY <1>2, <2>2, <2>3 DEF InsertShutdown
<1>3. CASE Insert("admin") BY <1>0, <1>3, PushInv, PostInv DEF Insert
<1> QED BY <1>1, <1>2, <1>3 DEF AdminStep

LEMMA MainInv == ASSUME Inv, MainStep PROVE Inv'
<1>1. CASE Start \/ Loop
  <2>1. PICK l \in {"loop", "wait", "exited"} :
          /\ pc["main"] \in {"init", "loop"} /\ pc' = [pc EXCEPT !["main"] = l]
          /\ UNCHANGED <<m_FreeList, m_MsgAlloc, msg, m_Msgs, leaked, sem, pMsg>>
    BY <1>1 DEF Start, Loop, Goto, memory
  <2>2. l \in MainLabel BY DEF MainLabel
  <2> QED BY <2>1, <2>2, Threads, QuietInv
<1> QED BY <1>1, WaitInv, RemoveInv, HandleInv DEF MainStep

LEMMA NextInv == Inv /\ [Next]_vars => Inv'
BY WorkerInv, AdminInv, MainInv, StutterInv DEF Next

LEMMA InvariantHolds == Spec => []Inv
BY InitInv, NextInv, PTL DEF Spec
-----------------------------------------------------------------------------
\* A Msg is in one place: free, queued, in one thread's hands or lost.
THEOREM PoolMsgsOnce == Spec => []MsgsOnce
<1>1. Inv => MsgsOnce BY DEF Inv
<1> QED BY InvariantHolds, <1>1, PTL

\* The semaphore never lags behind the queue, so that NetLoop does not sleep on a
\* queued message.
THEOREM PoolSemaphoreCovers == Spec => []SemaphoreCovers
<1>1. Inv => SemaphoreCovers BY DEF Inv
<1> QED BY InvariantHolds, <1>1, PTL

\* Only so many Msgs can be lost; none when the queue holds as many as there are.
THEOREM PoolLeakBounded == Spec => []LeakBounded
<1>1. Inv => LeakBounded BY DEF Inv
<1> QED BY InvariantHolds, <1>1, PTL

\* Two different blocks of the Allocator share no byte.
LEMMA BlocksApart ==
  ASSUME NEW i \in Index, NEW j \in Index, NEW a \in Made(i), NEW b \in Made(j),
         i # j \/ a # b
  PROVE  Block(i, a) \cap Block(j, b) = {}
<1> USE Constants
<1> DEFINE v == (i + 1) * ALIGN
           w == (j + 1) * ALIGN
           ptr == SetFreeListPtr
<1>1. i \in Nat /\ j \in Nat BY DEF Index
<1>2. v \in Nat /\ w \in Nat BY <1>1
<1>3. /\ a \in Nat /\ ptr[i] <= a /\ a + v <= ptr[i + 1]
      /\ b \in Nat /\ ptr[j] <= b /\ b + w <= ptr[j + 1]
  BY <1>1, ListShape DEF Made
<1>4. /\ ptr[i] \in Nat /\ ptr[j] \in Nat /\ ptr[i + 1] \in Nat /\ ptr[j + 1] \in Nat
      /\ i < j => ptr[i + 1] <= ptr[j]
      /\ j < i => ptr[j + 1] <= ptr[i]
  <2>1. i + 1 \in Nat /\ j + 1 \in Nat BY <1>1
  <2>2. (i < j => i \in 0 .. j - 1) /\ (j < i => j \in 0 .. i - 1) BY <1>1
  <2> QED BY <1>1, <2>1, <2>2, PtrType, PtrOrder
<1>5. i = j => a + v <= b \/ b + w <= a
  BY <1>1, ListShape DEF Made
<1>6. Block(i, a) = a .. a + v - 1 /\ Block(j, b) = b .. b + w - 1 BY DEF Block
<1> HIDE DEF v, w, ptr
<1>7. a + v <= b \/ b + w <= a BY <1>1, <1>2, <1>3, <1>4, <1>5
<1> QED BY <1>2, <1>3, <1>6, <1>7

\* No block reaches past the memory.
LEMMA BlockInside ==
  ASSUME ALIGN = 8, NEW i \in Index, NEW a \in Made(i)
  PROVE  Block(i, a) \subseteq Offset
<1> DEFINE v == (i + 1) * ALIGN
           ptr == SetFreeListPtr
           N == FREE_LIST_COUNT
<1>1. i \in Nat /\ N \in Nat /\ i \in 0 .. N - 1
  <2>1. N \in Nat
    <3>1. BYTES_MAX \div 8 \in Nat BY Constants
    <3> QED BY <3>1 DEF FREE_LIST_COUNT
  <2> QED BY <2>1 DEF Index
<1>2. v \in Nat BY <1>1, Constants
<1>3. a \in Nat /\ a + v <= ptr[i + 1] BY <1>1, ListShape DEF Made
<1>4. ptr[i + 1] \in Nat /\ ptr[N] \in Nat /\ ptr[i + 1] <= ptr[N]
  BY <1>1, PtrType, PtrOrder
<1>5. Offset = 0 .. ptr[N] - 1 BY TotalIsEnough DEF Offset
<1>6. Block(i, a) = a .. a + v - 1 BY DEF Block
<1> HIDE DEF v, ptr, N
<1> QED BY <1>2, <1>3, <1>4, <1>5, <1>6

\* With the shipped ALIGN: messages in use share no byte with each other or with a free
\* block, stay in the memory, and every block stays in its size class.
THEOREM PoolDataDisjoint == ASSUME ALIGN = 8 PROVE Spec => []DataDisjoint
<1>1. ASSUME Inv PROVE DataDisjoint
  <2>1. ASSUME NEW p \in Allocated, msg[p].m_pData # SYSTEM
        PROVE  /\ Small(p) /\ ListOf(p) \in Index /\ msg[p].m_pData \in Made(ListOf(p))
               /\ Bytes(p) \subseteq Block(ListOf(p), msg[p].m_pData)
    <3>1. Small(p) /\ msg[p].m_pData \in Made(ListOf(p)) BY <1>1, <2>1 DEF Inv, BlocksOnce
    <3>2. ListOf(p) \in Index /\ msg[p].m_Size \in 1 .. (ListOf(p) + 1) * ALIGN
      BY <1>1, <3>1, SmallIndex
    <3>3. ListOf(p) \in Nat BY <3>2 DEF Index
    <3>4. msg[p].m_pData \in Nat BY <3>1, <3>3, ListShape DEF Made
    <3>5. (ListOf(p) + 1) * ALIGN \in Nat BY <3>3, Constants
    <3>6. Bytes(p) \subseteq Block(ListOf(p), msg[p].m_pData)
      <4> DEFINE w == (ListOf(p) + 1) * ALIGN
                 a == msg[p].m_pData
                 n == msg[p].m_Size
      <4>1. a \in Nat /\ w \in Nat /\ n \in 1 .. w BY <3>2, <3>4, <3>5
      <4>2. Bytes(p) = a .. a + n - 1 /\ Block(ListOf(p), a) = a .. a + w - 1
        BY DEF Bytes, Block
      <4> HIDE DEF w, a, n
      <4> QED BY <4>1, <4>2 DEF a
    <3> QED BY <3>1, <3>2, <3>6
  <2>2. ASSUME NEW p \in Allocated, msg[p].m_pData # SYSTEM
        PROVE  Bytes(p) \subseteq Offset
    BY <2>1, <2>2, BlockInside
  <2>3. ASSUME NEW p \in Allocated, msg[p].m_pData # SYSTEM,
               NEW q \in Allocated, msg[q].m_pData # SYSTEM, q # p
        PROVE  Bytes(p) \cap Bytes(q) = {}
    <3>1. ListOf(p) # ListOf(q) \/ msg[p].m_pData # msg[q].m_pData
      BY <1>1, <2>1, <2>3 DEF Inv, BlocksOnce
    <3>2. Block(ListOf(p), msg[p].m_pData) \cap Block(ListOf(q), msg[q].m_pData) = {}
      BY <2>1, <2>3, <3>1, BlocksApart
    <3> QED BY <2>1, <2>3, <3>2
  <2>4. ASSUME NEW p \in Allocated, msg[p].m_pData # SYSTEM,
               NEW i \in Index, NEW a \in RangeOf(m_FreeList[i])
        PROVE  Bytes(p) \cap Block(i, a) = {}
    <3>1. a \in Made(i) /\ (ListOf(p) # i \/ msg[p].m_pData # a)
      BY <1>1, <2>1, <2>4 DEF Inv, BlocksOnce
    <3>2. Block(ListOf(p), msg[p].m_pData) \cap Block(i, a) = {}
      BY <2>1, <2>4, <3>1, BlocksApart
    <3> QED BY <2>1, <2>4, <3>2
  <2>5. \A i \in Index : /\ NoDuplicates(m_FreeList[i])
                         /\ RangeOf(m_FreeList[i]) \subseteq RangeOf(LinkFreeElement(i))
    BY <1>1 DEF Inv, BlocksOnce, Made
  <2> QED BY <2>2, <2>3, <2>4, <2>5 DEF DataDisjoint
<1> QED BY InvariantHolds, <1>1, PTL
=============================================================================
