---------------------------- MODULE MsgStreamProofs ----------------------------
(***************************************************************************)
(* Proofs about MsgStream: m_pBegin and m_pEnd stay inside their arrays,   *)
(* and the messages that arrive are those that were sent.                  *)
(***************************************************************************)
EXTENDS MsgStream, ListLemmas

\* What SendMsg takes: its size fits into the header.
Message == {x \in Seq(Byte) : Len(x) < 65536}

\* The frame of message x lies in the bytes s behind position a.
FrameAt(s, a, x) ==
  /\ a + MSG_HEADER_SIZE + Len(x) <= Len(s)
  /\ s[a + 1] = Header(Len(x))[1] /\ s[a + 2] = Header(Len(x))[2]
  /\ \A j \in 1 .. Len(x) : s[a + MSG_HEADER_SIZE + j] = x[j]

\* The bytes s are the frames of the messages q, cut at the positions p.
Cuts(s, q, p) ==
  /\ p[0] = 0 /\ p[Len(q)] = Len(s)
  /\ \A i \in 1 .. Len(q) : /\ p[i] = p[i - 1] + MSG_HEADER_SIZE + Len(q[i])
                            /\ FrameAt(s, p[i - 1], q[i])

Framed(s, q) == \E p \in [0 .. Len(q) -> 0 .. Len(s)] : Cuts(s, q, p)

\* The bytes between SendMsg and ExtractMsg, the oldest first.
Stream == m_RecvBuffer.data \o (wire \o m_SendBuffer.data)

Types ==
  /\ accepted \in Seq(Message) /\ delivered \in Seq(Message) /\ msgs \in Seq(Message)

\* The messages accepted are those delivered, those queued, and those whose frames
\* the stream consists of.
Conserved ==
  \E q \in Seq(Message) : accepted = (delivered \o msgs) \o q /\ Framed(Stream, q)

Inv == TypeOK /\ Types /\ Conserved
-----------------------------------------------------------------------------
\* Cutting a sequence in two.
LEMMA CutSeq ==
  ASSUME NEW S, NEW s \in Seq(S), NEW n \in 0 .. Len(s)
  PROVE  /\ SubSeq(s, 1, n) \in Seq(S) /\ Len(SubSeq(s, 1, n)) = n
         /\ SubSeq(s, n + 1, Len(s)) \in Seq(S)
         /\ Len(SubSeq(s, n + 1, Len(s))) = Len(s) - n
         /\ \A i \in 1 .. Len(s) - n : SubSeq(s, n + 1, Len(s))[i] = s[n + i]
         /\ SubSeq(s, 1, n) \o SubSeq(s, n + 1, Len(s)) = s
<1>1. Len(s) \in Nat /\ n \in Nat /\ n <= Len(s) BY LenProperties
<1>2. \A i \in 1 .. Len(s) : s[i] \in S BY ElementOfSeq
<1>3. SubSeq(s, 1, n) \in Seq(S) /\ Len(SubSeq(s, 1, n)) = n
  <2>1. \A i \in 1 .. n : s[i] \in S BY <1>1, <1>2
  <2>2. /\ SubSeq(s, 1, n) \in Seq(S)
        /\ Len(SubSeq(s, 1, n)) = IF 1 <= n THEN n - 1 + 1 ELSE 0
    BY <1>1, <2>1, SubSeqProperties
  <2> QED BY <1>1, <2>2
<1>4. /\ SubSeq(s, n + 1, Len(s)) \in Seq(S)
      /\ Len(SubSeq(s, n + 1, Len(s))) = Len(s) - n
      /\ \A i \in 1 .. Len(s) - n : SubSeq(s, n + 1, Len(s))[i] = s[n + i]
  <2> DEFINE m == n + 1
             k == Len(s)
  <2>1. m \in Int /\ k \in Int /\ \A i \in m .. k : s[i] \in S BY <1>1, <1>2
  <2>2. k - m + 1 = k - n /\ (m <= k => k - n \in Nat) /\ (~(m <= k) => k - n = 0)
        /\ \A i \in 1 .. k - n : m + i - 1 = n + i
    BY <1>1
  <2> HIDE DEF m, k
  <2>3. /\ SubSeq(s, m, k) \in Seq(S)
        /\ Len(SubSeq(s, m, k)) = IF m <= k THEN k - m + 1 ELSE 0
        /\ \A i \in 1 .. k - m + 1 : SubSeq(s, m, k)[i] = s[m + i - 1]
    BY <2>1, SubSeqProperties
  <2>4. Len(SubSeq(s, m, k)) = k - n BY <2>2, <2>3
  <2>5. \A i \in 1 .. k - n : SubSeq(s, m, k)[i] = s[n + i] BY <2>2, <2>3
  <2> QED BY <2>3, <2>4, <2>5 DEF m, k
<1>5. SubSeq(s, 1, n) \o SubSeq(s, n + 1, Len(s)) = s
  <2>1. 1 \in 1 .. Len(s) + 1 /\ n \in 1 - 1 .. Len(s) /\ Len(s) \in n .. Len(s) BY <1>1
  <2>2. SubSeq(s, 1, n) \o SubSeq(s, n + 1, Len(s)) = SubSeq(s, 1, Len(s))
    BY <2>1, ConcatAdjacentSubSeq
  <2> QED BY <2>2, SubSeqFull
<1> QED BY <1>3, <1>4, <1>5

\* Where the bytes of a stream are cut makes no difference.  (Cat and Bytes keep the
\* solver from looking into the sequences.)
Bytes == Seq(Byte)
Cat(x, y) == x \o y

LEMMA Associative ==
  \A r, w, d, f \in Bytes :
    /\ Cat(r, Cat(w, Cat(d, f))) = Cat(Cat(r, Cat(w, d)), f)
    /\ Cat(r, Cat(w, Cat(d, f))) = Cat(r, Cat(Cat(w, d), f))
    /\ Cat(r, Cat(w, Cat(d, f))) = Cat(Cat(r, w), Cat(d, f))
<1>1. \A x, y, z \in Bytes : Cat(x, Cat(y, z)) = Cat(Cat(x, y), z)
  <2> SUFFICES ASSUME NEW x \in Seq(Byte), NEW y \in Seq(Byte), NEW z \in Seq(Byte)
               PROVE  x \o (y \o z) = (x \o y) \o z
    BY DEF Bytes, Cat
  <2> QED BY ConcatAssociative
<1>2. \A x, y \in Bytes : Cat(x, y) \in Bytes BY ConcatProperties DEF Bytes, Cat
<1> QED BY <1>1, <1>2

\* What is taken out in front of a concatenation is taken out of its first part.
LEMMA DropOfConcat ==
  ASSUME NEW S, NEW s \in Seq(S), NEW t \in Seq(S), NEW n \in 0 .. Len(s)
  PROVE  SubSeq(s \o t, n + 1, Len(s \o t)) = SubSeq(s, n + 1, Len(s)) \o t
<1> DEFINE c == s \o t
           a == SubSeq(s, n + 1, Len(s))
           l == SubSeq(c, n + 1, Len(c))
<1>1. Len(s) \in Nat /\ Len(t) \in Nat /\ n \in Nat /\ n <= Len(s) BY LenProperties
<1>2. /\ c \in Seq(S) /\ Len(c) = Len(s) + Len(t)
      /\ \A i \in 1 .. Len(s) + Len(t) : c[i] = IF i <= Len(s) THEN s[i] ELSE t[i - Len(s)]
  BY ConcatProperties
<1>3. /\ a \in Seq(S) /\ Len(a) = Len(s) - n
      /\ \A i \in 1 .. Len(s) - n : a[i] = s[n + i]
  BY CutSeq
<1>4. n \in 0 .. Len(c) BY <1>1, <1>2
<1> HIDE DEF c, a
<1>5. /\ l \in Seq(S) /\ Len(l) = Len(c) - n
      /\ \A i \in 1 .. Len(c) - n : l[i] = c[n + i]
  BY <1>2, <1>4, CutSeq
<1>6. /\ a \o t \in Seq(S) /\ Len(a \o t) = Len(a) + Len(t)
      /\ \A i \in 1 .. Len(a) + Len(t) :
           (a \o t)[i] = IF i <= Len(a) THEN a[i] ELSE t[i - Len(a)]
  BY <1>3, ConcatProperties
<1> HIDE DEF l
<1>7. Len(l) = Len(a \o t) BY <1>1, <1>2, <1>3, <1>5, <1>6
<1>8. ASSUME NEW i \in 1 .. Len(l) PROVE l[i] = (a \o t)[i]
  <2>1. l[i] = c[n + i] /\ n + i \in 1 .. Len(s) + Len(t) BY <1>1, <1>2, <1>5
  <2>2. i \in 1 .. Len(a) + Len(t) BY <1>1, <1>2, <1>3, <1>5
  <2>3. CASE i <= Len(a)
    <3>1. n + i <= Len(s) /\ i \in 1 .. Len(s) - n BY <1>1, <1>3, <2>2, <2>3
    <3> QED BY <1>2, <1>3, <1>6, <2>1, <2>2, <2>3, <3>1
  <2>4. CASE ~(i <= Len(a))
    <3>1. ~(n + i <= Len(s)) /\ n + i - Len(s) = i - Len(a) BY <1>1, <1>3, <2>2, <2>4
    <3> QED BY <1>2, <1>6, <2>1, <2>2, <2>4, <3>1
  <2> QED BY <2>3, <2>4
<1>9. l = a \o t BY <1>5, <1>6, <1>7, <1>8, SeqEqual
<1> QED BY <1>9 DEF l, c, a

\* What a concatenation begins with.
LEMMA PrefixOfConcat ==
  ASSUME NEW S, NEW s \in Seq(S), NEW t \in Seq(S)
  PROVE  Len(s) <= Len(s \o t) /\ s = SubSeq(s \o t, 1, Len(s))
<1> DEFINE c == s \o t
           p == SubSeq(c, 1, Len(s))
<1>1. Len(s) \in Nat /\ Len(t) \in Nat BY LenProperties
<1>2. /\ c \in Seq(S) /\ Len(c) = Len(s) + Len(t)
      /\ \A i \in 1 .. Len(s) + Len(t) : c[i] = IF i <= Len(s) THEN s[i] ELSE t[i - Len(s)]
  BY ConcatProperties
<1> HIDE DEF c
<1>3. Len(s) \in 0 .. Len(c) BY <1>1, <1>2
<1>4. p \in Seq(S) /\ Len(p) = Len(s) BY <1>2, <1>3, CutSeq
<1>5. \A i \in 1 .. Len(s) : p[i] = s[i]
  <2>1. \A i \in 1 .. Len(s) : c[i] = s[i] BY <1>1, <1>2
  <2>2. \A i \in 1 .. Len(s) : c[i] \in S BY <2>1, ElementOfSeq
  <2> DEFINE n == Len(s)
  <2>3. n \in Int /\ \A i \in 1 .. n : c[i] \in S BY <1>1, <2>2
  <2>4. n - 1 + 1 = n /\ \A i \in 1 .. n : 1 + i - 1 = i BY <1>1
  <2> HIDE DEF n
  <2>5. \A i \in 1 .. n - 1 + 1 : SubSeq(c, 1, n)[i] = c[1 + i - 1]
    BY <2>3, SubSeqProperties
  <2>6. \A i \in 1 .. n : SubSeq(c, 1, n)[i] = c[i] BY <2>4, <2>5
  <2> QED BY <2>1, <2>6 DEF n
<1> HIDE DEF p
<1>6. s = p BY <1>4, <1>5, SeqEqual
<1> QED BY <1>1, <1>2, <1>6 DEF p, c

\* The head of the second sequence may as well be the last of the first.
LEMMA HeadMoves ==
  ASSUME NEW S, NEW s \in Seq(S), NEW t \in Seq(S), t # << >>
  PROVE  Append(s, Head(t)) \o Tail(t) = s \o t
<1> DEFINE h == <<Head(t)>>
           r == Tail(t)
<1>1. Head(t) \in S /\ r \in Seq(S) BY HeadTailProperties
<1>2. h \in Seq(S) BY <1>1
<1>3. Append(s, Head(t)) = s \o h BY <1>1, AppendIsConcat
<1>4. t = h \o r
  <2>1. Len(t) \in Nat \ {0} BY EmptySeq
  <2>2. 1 \in 1 .. Len(t) /\ Len(t) \in 1 .. Len(t) BY <2>1
  <2>3. SubSeq(t, 1, Len(t)) = <<t[1]>> \o SubSeq(t, 1 + 1, Len(t))
    BY <2>2, SubSeqRecursiveFirst
  <2>4. SubSeq(t, 1, Len(t)) = t BY SubSeqFull
  <2>5. r = SubSeq(t, 2, Len(t)) BY TailIsSubSeq
  <2>6. Head(t) = t[1] /\ 1 + 1 = 2 BY <2>1
  <2> QED BY <2>3, <2>4, <2>5, <2>6
<1> HIDE DEF h, r
<1>5. (s \o h) \o r = s \o (h \o r) BY <1>1, <1>2, ConcatAssociative
<1> QED BY <1>3, <1>4, <1>5 DEF r

\* The same behind two sequences.
LEMMA NextQueued ==
  ASSUME NEW S, NEW s \in Seq(S), NEW t \in Seq(S), NEW q \in Seq(S), q # << >>
  PROVE  (s \o t) \o q = (s \o Append(t, Head(q))) \o Tail(q)
<1> DEFINE h == <<Head(q)>>
           g == s \o t
<1>1. Head(q) \in S BY HeadTailProperties
<1>2. h \in Seq(S) BY <1>1
<1>3. g \in Seq(S) BY ConcatProperties
<1> HIDE DEF g
<1>4. Append(g, Head(q)) \o Tail(q) = g \o q BY <1>3, HeadMoves
<1>5. Append(g, Head(q)) = g \o h BY <1>1, <1>3, AppendIsConcat
<1>6. Append(t, Head(q)) = t \o h BY <1>1, AppendIsConcat
<1> HIDE DEF h
<1>7. (s \o t) \o h = s \o (t \o h) BY <1>2, ConcatAssociative
<1>8. Append(g, Head(q)) = s \o Append(t, Head(q)) BY <1>5, <1>6, <1>7 DEF g
<1> QED BY <1>4, <1>8 DEF g
-----------------------------------------------------------------------------
\* The two bytes of a header give back its size.
LEMMA HeaderBytes ==
  ASSUME NEW n \in Nat, n < 65536
  PROVE  /\ Header(n) \in Seq(Byte) /\ Len(Header(n)) = MSG_HEADER_SIZE
         /\ Header(n)[1] + 256 * Header(n)[2] = n
<1>1. n % 256 \in Byte /\ (n \div 256) % 256 \in Byte BY DEF Byte
<1>2. (n % 256) + 256 * ((n \div 256) % 256) = n OBVIOUS
<1>3. Header(n) = <<n % 256, (n \div 256) % 256>> BY DEF Header
<1> QED BY <1>1, <1>2, <1>3 DEF MSG_HEADER_SIZE

\* No bytes, no messages.
LEMMA FramedEmpty == Framed(<< >>, << >>)
<1> DEFINE p == [i \in 0 .. 0 |-> 0]
<1>1. p \in [0 .. Len(<< >>) -> 0 .. Len(<< >>)] /\ p[0] = 0 OBVIOUS
<1>2. Cuts(<< >>, << >>, p) BY <1>1 DEF Cuts
<1> QED BY <1>1, <1>2 DEF Framed

\* What SendMsg appends to the stream is one frame more.
LEMMA FramedAppend ==
  ASSUME NEW s \in Seq(Byte), NEW q \in Seq(Message), NEW x \in Message, Framed(s, q)
  PROVE  Framed(s \o (Header(Len(x)) \o x), Append(q, x))
<1> DEFINE h == Header(Len(x))
           f == h \o x
           t == s \o f
           n == Len(q)
           m == Len(s)
           k == Len(x)
           r == Append(q, x)
<1>1. m \in Nat /\ n \in Nat /\ k \in Nat /\ x \in Seq(Byte) /\ k < 65536
  BY LenProperties DEF Message
<1>2. h \in Seq(Byte) /\ Len(h) = 2 BY <1>1, HeaderBytes DEF MSG_HEADER_SIZE
<1>3. /\ r \in Seq(Message) /\ Len(r) = n + 1 /\ r[n + 1] = x
      /\ \A i \in 1 .. n : r[i] = q[i]
  BY AppendProperties
<1> HIDE DEF h, r
<1>4. /\ f \in Seq(Byte) /\ Len(f) = 2 + k
      /\ \A i \in 1 .. 2 + k : f[i] = IF i <= 2 THEN h[i] ELSE x[i - 2]
  <2>1. /\ f \in Seq(Byte) /\ Len(f) = Len(h) + Len(x)
        /\ \A i \in 1 .. Len(h) + Len(x) : f[i] = IF i <= Len(h) THEN h[i] ELSE x[i - Len(h)]
    <3>1. h \in Seq(Byte) /\ x \in Seq(Byte) BY <1>1, <1>2
    <3> HIDE DEF t, k, n, m
    <3> QED BY <3>1, ConcatProperties
  <2> HIDE DEF f
  <2> QED BY <1>2, <2>1
<1> HIDE DEF f
<1>5. /\ t \in Seq(Byte) /\ Len(t) = m + (2 + k)
      /\ \A i \in 1 .. m + (2 + k) : t[i] = IF i <= m THEN s[i] ELSE f[i - m]
  <2>1. /\ t \in Seq(Byte) /\ Len(t) = Len(s) + Len(f)
        /\ \A i \in 1 .. Len(s) + Len(f) : t[i] = IF i <= Len(s) THEN s[i] ELSE f[i - Len(s)]
    BY <1>4, ConcatProperties
  <2> HIDE DEF t
  <2> QED BY <1>4, <2>1
<1> HIDE DEF t
<1>6. PICK p \in [0 .. n -> 0 .. m] : Cuts(s, q, p) BY DEF Framed
<1> DEFINE p2 == [i \in 0 .. n + 1 |-> IF i <= n THEN p[i] ELSE m + (2 + k)]
<1>7. p2 \in [0 .. n + 1 -> 0 .. Len(t)]
  BY <1>1, <1>5
<1>8. /\ p2[n + 1] = m + (2 + k) /\ \A i \in 0 .. n : p2[i] = p[i]
      /\ p2[0] = 0 /\ p2[n] = m
  BY <1>1, <1>6 DEF Cuts
<1> HIDE DEF p2, m, n, k
<1>9. ASSUME NEW i \in 1 .. n
      PROVE  p2[i] = p2[i - 1] + MSG_HEADER_SIZE + Len(r[i]) /\ FrameAt(t, p2[i - 1], r[i])
  <2>1. p[i] = p[i - 1] + MSG_HEADER_SIZE + Len(q[i]) /\ FrameAt(s, p[i - 1], q[i])
    BY <1>6 DEF Cuts, n
  <2>2. i \in 0 .. n /\ i - 1 \in 0 .. n BY <1>1
  <2>3. p2[i] = p[i] /\ p2[i - 1] = p[i - 1] /\ r[i] = q[i] BY <1>3, <1>8, <2>2
  <2>4. p[i - 1] \in Nat BY <1>1, <1>6, <2>2
  <2>5. q[i] \in Seq(Byte) /\ Len(q[i]) \in Nat
    BY ElementOfSeq, LenProperties DEF Message, n
  <2> DEFINE a == p[i - 1]
             l == Len(q[i])
  <2>6. /\ a + 2 + l <= m /\ a \in Nat /\ l \in Nat
        /\ s[a + 1] = Header(l)[1] /\ s[a + 2] = Header(l)[2]
        /\ \A j \in 1 .. l : s[a + 2 + j] = q[i][j]
    BY <2>1, <2>4, <2>5 DEF FrameAt, MSG_HEADER_SIZE, m
  <2> HIDE DEF a, l
  <2>7. \A j \in 1 .. m : t[j] = s[j] BY <1>1, <1>5
  <2>8. t[a + 1] = s[a + 1] /\ t[a + 2] = s[a + 2] BY <1>1, <2>6, <2>7
  <2>9. \A j \in 1 .. l : t[a + 2 + j] = q[i][j]
    <3> SUFFICES ASSUME NEW j \in 1 .. l PROVE t[a + 2 + j] = q[i][j] OBVIOUS
    <3>1. a + 2 + j \in 1 .. m BY <1>1, <2>6
    <3> QED BY <2>6, <2>7, <3>1
  <2>10. a + 2 + l <= Len(t) BY <1>1, <1>5, <2>6
  <2>11. FrameAt(t, a, q[i])
    BY <2>6, <2>8, <2>9, <2>10 DEF FrameAt, MSG_HEADER_SIZE, l
  <2> QED BY <2>1, <2>3, <2>11 DEF a
<1>10. FrameAt(t, m, x)
  <2>1. \A j \in 1 .. 2 + k : t[m + j] = f[j]
    <3> SUFFICES ASSUME NEW j \in 1 .. 2 + k PROVE t[m + j] = f[j] OBVIOUS
    <3>1. m + j \in 1 .. m + (2 + k) /\ ~(m + j <= m) /\ (m + j) - m = j BY <1>1
    <3>2. t[m + j] = f[(m + j) - m] BY <1>5, <3>1
    <3> QED BY <3>1, <3>2
  <2>2. t[m + 1] = h[1] /\ t[m + 2] = h[2] BY <1>1, <1>4, <2>1
  <2>3. ASSUME NEW j \in 1 .. k PROVE t[m + 2 + j] = x[j]
    <3>1. 2 + j \in 1 .. 2 + k /\ ~(2 + j <= 2) /\ 2 + j - 2 = j BY <1>1
    <3>2. f[2 + j] = x[j] BY <1>4, <3>1
    <3>3. m + (2 + j) = m + 2 + j BY <1>1
    <3> QED BY <2>1, <3>1, <3>2, <3>3
  <2>4. m + 2 + k <= Len(t) BY <1>1, <1>5
  <2> QED BY <2>2, <2>3, <2>4 DEF FrameAt, MSG_HEADER_SIZE, h, k
<1>11. ASSUME NEW i \in 1 .. n + 1
       PROVE  p2[i] = p2[i - 1] + MSG_HEADER_SIZE + Len(r[i]) /\ FrameAt(t, p2[i - 1], r[i])
  <2>1. CASE i \in 1 .. n BY <1>9, <2>1
  <2>2. CASE i = n + 1
    <3>1. p2[i] = m + (2 + k) /\ p2[i - 1] = m /\ r[i] = x BY <1>1, <1>3, <1>8, <2>2
    <3>2. m + (2 + k) = m + 2 + k BY <1>1
    <3> QED BY <1>10, <3>1, <3>2 DEF MSG_HEADER_SIZE, k
  <2>3. i \in 1 .. n \/ i = n + 1 BY <1>1
  <2> QED BY <2>1, <2>2, <2>3
<1>12. Cuts(t, r, p2) BY <1>3, <1>5, <1>8, <1>11 DEF Cuts
<1>13. Framed(t, r) BY <1>3, <1>7, <1>12 DEF Framed
<1> QED BY <1>13 DEF t, r, f, h

\* The stream begins with the frame of the oldest message, if it has a byte.
LEMMA FramedHead ==
  ASSUME NEW s \in Seq(Byte), NEW q \in Seq(Message), Framed(s, q), Len(s) # 0
  PROVE  q # << >> /\ FrameAt(s, 0, Head(q))
<1>1. Len(s) \in Nat /\ Len(q) \in Nat BY LenProperties
<1>2. PICK p \in [0 .. Len(q) -> 0 .. Len(s)] : Cuts(s, q, p) BY DEF Framed
<1>3. Len(q) # 0 BY <1>2 DEF Cuts
<1>4. q # << >> BY <1>3
<1>5. Head(q) = q[1] BY <1>4
<1>6. 1 \in 1 .. Len(q) /\ 1 - 1 = 0 BY <1>1, <1>3
<1>7. FrameAt(s, p[1 - 1], q[1]) BY <1>2, <1>6 DEF Cuts
<1> QED BY <1>2, <1>4, <1>5, <1>6, <1>7 DEF Cuts

\* A frame keeps its bytes when c bytes in front of it are gone.
LEMMA FrameShift ==
  ASSUME NEW s, NEW t, NEW c \in Nat, NEW a \in Nat, NEW x \in Seq(Byte),
         Len(s) \in Nat, Len(t) = Len(s) - c,
         \A i \in 1 .. Len(t) : t[i] = s[c + i],
         c <= a, FrameAt(s, a, x)
  PROVE  FrameAt(t, a - c, x)
<1> DEFINE l == Len(x)
           m == Len(s)
           b == a - c
<1>1. /\ a + 2 + l <= m /\ s[a + 1] = Header(l)[1] /\ s[a + 2] = Header(l)[2]
      /\ \A j \in 1 .. l : s[a + 2 + j] = x[j]
  BY DEF FrameAt, MSG_HEADER_SIZE
<1>2. l \in Nat /\ m \in Nat /\ b \in Nat /\ a = c + b BY LenProperties
<1>3. \A i \in 1 .. m - c : t[i] = s[c + i] OBVIOUS
<1>4. Len(t) = m - c OBVIOUS
<1> HIDE DEF l, m, b
<1>5. \A j \in 1 .. 2 + l : b + j \in 1 .. m - c /\ c + (b + j) = a + j BY <1>1, <1>2
<1>6. \A j \in 1 .. 2 + l : t[b + j] = s[a + j] BY <1>3, <1>5
<1>7. t[b + 1] = Header(l)[1] /\ t[b + 2] = Header(l)[2] BY <1>1, <1>2, <1>6
<1>8. ASSUME NEW j \in 1 .. l PROVE t[b + 2 + j] = x[j]
  <2>1. 2 + j \in 1 .. 2 + l /\ b + (2 + j) = b + 2 + j /\ a + (2 + j) = a + 2 + j
    BY <1>2
  <2> QED BY <1>1, <1>6, <2>1
<1>9. b + 2 + l <= Len(t) BY <1>1, <1>2, <1>4
<1> QED BY <1>7, <1>8, <1>9 DEF FrameAt, MSG_HEADER_SIZE, l, b

\* Without that frame it is made of the frames of the others.
LEMMA FramedTail ==
  ASSUME NEW s \in Seq(Byte), NEW q \in Seq(Message), Framed(s, q), q # << >>,
         NEW c, c = MSG_HEADER_SIZE + Len(Head(q))
  PROVE  c \in 0 .. Len(s) /\ Framed(SubSeq(s, c + 1, Len(s)), Tail(q))
<1> DEFINE t == SubSeq(s, c + 1, Len(s))
           r == Tail(q)
           n == Len(q)
           m == Len(s)
<1>1. m \in Nat /\ n \in Nat \ {0} BY LenProperties, EmptySeq
<1>2. PICK p \in [0 .. n -> 0 .. m] : Cuts(s, q, p) BY DEF Framed
<1>3. Head(q) = q[1] BY <1>1
<1>4. /\ r \in Seq(Message) /\ Len(r) = n - 1
      /\ \A i \in 1 .. n - 1 : r[i] = q[i + 1]
  BY HeadTailProperties
<1>5. \A i \in 1 .. n : q[i] \in Seq(Byte) /\ Len(q[i]) \in Nat
  BY ElementOfSeq, LenProperties DEF Message
<1>6. c \in Nat /\ c = p[1] /\ c <= m
  <2>1. 1 \in 1 .. n /\ 1 - 1 = 0 /\ 1 \in 0 .. n BY <1>1
  <2>2. p[1] = p[0] + MSG_HEADER_SIZE + Len(q[1]) /\ p[0] = 0 BY <1>2, <2>1 DEF Cuts
  <2>3. p[1] \in 0 .. m BY <1>2, <2>1
  <2>4. Len(q[1]) \in Nat BY <1>5, <2>1
  <2> QED BY <1>1, <1>3, <2>2, <2>3, <2>4 DEF MSG_HEADER_SIZE
<1>7. /\ t \in Seq(Byte) /\ Len(t) = m - c
      /\ \A i \in 1 .. m - c : t[i] = s[c + i]
  BY <1>1, <1>6, CutSeq
<1> HIDE DEF t, r
<1>8. \A i \in 1 .. n : p[i] \in Nat /\ p[i - 1] \in Nat /\ p[i] <= m
  <2>1. \A i \in 1 .. n : i \in 0 .. n /\ i - 1 \in 0 .. n BY <1>1
  <2>2. \A i \in 0 .. n : p[i] \in 0 .. m BY <1>2
  <2>3. \A x \in 0 .. m : x \in Nat /\ x <= m BY <1>1
  <2> QED BY <2>1, <2>2, <2>3
<1>9. \A i \in 1 .. n : p[i] >= c
  <2> DEFINE N == {i \in Nat : i + 1 \in 1 .. n => p[i + 1] >= c}
  <2>1. 0 \in N BY <1>6
  <2>2. ASSUME NEW i \in Nat, i \in N PROVE i + 1 \in N
    <3> SUFFICES ASSUME i + 2 \in 1 .. n PROVE p[i + 2] >= c BY <1>1
    <3>1. i + 1 \in 1 .. n /\ (i + 2) - 1 = i + 1 BY <1>1
    <3>2. p[i + 2] = p[(i + 2) - 1] + MSG_HEADER_SIZE + Len(q[i + 2]) BY <1>2 DEF Cuts, n
    <3>3. p[i + 1] >= c /\ p[i + 1] \in Nat /\ p[i + 2] \in Nat /\ Len(q[i + 2]) \in Nat
      BY <1>5, <1>8, <2>2, <3>1
    <3> QED BY <1>6, <3>1, <3>2, <3>3 DEF MSG_HEADER_SIZE
  <2> HIDE DEF N
  <2>3. Nat \subseteq N BY <2>1, <2>2, SetInduction
  <2>4. ASSUME NEW i \in 1 .. n PROVE p[i] >= c
    <3>1. i - 1 \in N /\ (i - 1) + 1 = i BY <1>1, <2>3
    <3> QED BY <3>1 DEF N
  <2> QED BY <2>4
<1> DEFINE p2 == [i \in 0 .. n - 1 |-> p[i + 1] - c]
<1>10. p2 \in [0 .. n - 1 -> 0 .. Len(t)]
  <2>1. ASSUME NEW i \in 0 .. n - 1 PROVE p[i + 1] - c \in 0 .. Len(t)
    <3>1. i + 1 \in 1 .. n BY <1>1
    <3>2. p[i + 1] \in Nat /\ p[i + 1] >= c /\ p[i + 1] <= m BY <1>8, <1>9, <3>1
    <3> QED BY <1>1, <1>6, <1>7, <3>2
  <2> QED BY <2>1
<1>11. /\ \A i \in 0 .. n - 1 : p2[i] = p[i + 1] - c
       /\ p2[0] = 0 /\ p2[n - 1] = Len(t)
  <2>1. p[n] = m BY <1>2 DEF Cuts, n, m
  <2>2. 0 + 1 = 1 /\ (n - 1) + 1 = n /\ 0 \in 0 .. n - 1 /\ n - 1 \in 0 .. n - 1 BY <1>1
  <2> QED BY <1>6, <1>7, <2>1, <2>2
<1> HIDE DEF p2
<1>12. ASSUME NEW i \in 1 .. n - 1
       PROVE  p2[i] = p2[i - 1] + MSG_HEADER_SIZE + Len(r[i]) /\ FrameAt(t, p2[i - 1], r[i])
  <2>1. i + 1 \in 1 .. n /\ (i + 1) - 1 = i /\ i \in 0 .. n - 1 /\ i - 1 \in 0 .. n - 1
        /\ (i - 1) + 1 = i /\ i \in 1 .. n
    BY <1>1
  <2>2. p[i + 1] = p[i] + MSG_HEADER_SIZE + Len(q[i + 1]) /\ FrameAt(s, p[i], q[i + 1])
    BY <1>2, <2>1 DEF Cuts, n
  <2>3. p2[i] = p[i + 1] - c /\ p2[i - 1] = p[i] - c /\ r[i] = q[i + 1]
    BY <1>4, <1>11, <2>1
  <2>4. p[i] \in Nat /\ p[i] >= c /\ p[i + 1] \in Nat /\ Len(q[i + 1]) \in Nat
    BY <1>5, <1>8, <1>9, <2>1
  <2>5. p2[i] = p2[i - 1] + MSG_HEADER_SIZE + Len(r[i])
    <3>1. \A x, y, z, v \in Nat : y = x + MSG_HEADER_SIZE + z
                              => y - v = (x - v) + MSG_HEADER_SIZE + z
      BY DEF MSG_HEADER_SIZE
    <3>2. p[i + 1] - c = (p[i] - c) + MSG_HEADER_SIZE + Len(q[i + 1])
      BY <1>6, <2>2, <2>4, <3>1
    <3> QED BY <2>3, <3>2
  <2>6. q[i + 1] \in Seq(Byte) BY <1>5, <2>1
  <2>7. Len(s) \in Nat /\ Len(t) = Len(s) - c BY <1>1, <1>7
  <2>8. \A k \in 1 .. Len(t) : t[k] = s[c + k] BY <1>7
  <2>9. FrameAt(t, p[i] - c, q[i + 1])
    BY <1>6, <2>2, <2>4, <2>6, <2>7, <2>8, FrameShift
  <2> QED BY <2>3, <2>5, <2>9
<1>13. Cuts(t, r, p2) BY <1>4, <1>11, <1>12 DEF Cuts
<1>14. Framed(t, r) BY <1>4, <1>10, <1>13 DEF Framed
<1>15. c \in 0 .. m BY <1>1, <1>6
<1> QED BY <1>14, <1>15 DEF t, r
-----------------------------------------------------------------------------
(* Buffer *)

LEMMA BufferType ==
  ASSUME NEW b, InBuffer(b)
  PROVE  /\ b.begin \in Nat /\ b.data \in Seq(Byte) /\ Len(b.data) \in Nat
         /\ b.begin + Len(b.data) <= BUFFER_SIZE
         /\ GetFreeSpaceSize(b) \in Nat
<1>1. b.begin \in Nat /\ b.data \in Seq(Byte) /\ b.begin + Len(b.data) <= BUFFER_SIZE
  BY DEF InBuffer
<1>2. Len(b.data) \in Nat BY <1>1, LenProperties
<1>3. BUFFER_SIZE \in Nat BY StreamAssumption
<1>4. BUFFER_SIZE - (b.begin + Len(b.data)) \in Nat BY <1>1, <1>2, <1>3
<1> QED BY <1>1, <1>2, <1>4 DEF GetFreeSpaceSize

\* IncreaseBegin takes bytes out in front and stays in the array.
LEMMA BeginMoves ==
  ASSUME NEW b, InBuffer(b), NEW n \in 0 .. Len(b.data)
  PROVE  /\ InBuffer(IncreaseBegin(b, n))
         /\ IncreaseBegin(b, n).data = SubSeq(b.data, n + 1, Len(b.data))
<1> DEFINE d == b.data
           r == SubSeq(d, n + 1, Len(d))
<1>1. /\ b.begin \in Nat /\ d \in Seq(Byte) /\ Len(d) \in Nat
      /\ b.begin + Len(d) <= BUFFER_SIZE
  BY BufferType
<1>2. r \in Seq(Byte) /\ Len(r) = Len(d) - n BY <1>1, CutSeq
<1> HIDE DEF r
<1>3. CASE n = Len(d)
  <2>1. r = << >> BY <1>1, <1>2, <1>3, EmptySeq
  <2>2. IncreaseBegin(b, n) = [begin |-> 0, data |-> << >>] BY <1>3 DEF IncreaseBegin
  <2>3. BUFFER_SIZE \in Nat BY StreamAssumption
  <2>4. InBuffer([begin |-> 0, data |-> << >>]) BY <2>3 DEF InBuffer
  <2>5. IncreaseBegin(b, n).data = r BY <2>1, <2>2
  <2>6. InBuffer(IncreaseBegin(b, n)) BY <2>2, <2>4
  <2> QED BY <2>5, <2>6 DEF r
<1>4. CASE n # Len(d)
  <2>1. IncreaseBegin(b, n) = [begin |-> b.begin + n, data |-> r]
    BY <1>4 DEF IncreaseBegin, r
  <2>2. BUFFER_SIZE \in Nat BY StreamAssumption
  <2>3. b.begin + n \in Nat /\ (b.begin + n) + Len(r) <= BUFFER_SIZE
    BY <1>1, <1>2, <2>2
  <2>4. [begin |-> b.begin + n, data |-> r] \in [begin : Nat, data : Seq(Byte)]
    BY <1>2, <2>3
  <2>5. InBuffer([begin |-> b.begin + n, data |-> r]) BY <2>3, <2>4 DEF InBuffer
  <2> QED BY <2>1, <2>5 DEF r
<1> QED BY <1>3, <1>4

\* IncreaseEnd appends bytes and stays in the array when there is room for them.
LEMMA EndMoves ==
  ASSUME NEW b, InBuffer(b), NEW bytes \in Seq(Byte), Len(bytes) <= GetFreeSpaceSize(b)
  PROVE  /\ InBuffer(IncreaseEnd(b, bytes))
         /\ IncreaseEnd(b, bytes).data = b.data \o bytes
<1> DEFINE d == b.data \o bytes
<1>1. /\ b \in [begin : Nat, data : Seq(Byte)]
      /\ b.begin \in Nat /\ b.data \in Seq(Byte) /\ Len(b.data) \in Nat
  BY BufferType DEF InBuffer
<1>2. Len(bytes) \in Nat /\ BUFFER_SIZE \in Nat BY LenProperties, StreamAssumption
<1>3. d \in Seq(Byte) /\ Len(d) = Len(b.data) + Len(bytes) BY <1>1, ConcatProperties
<1>4. IncreaseEnd(b, bytes) = [begin |-> b.begin, data |-> d]
  <2>1. IncreaseEnd(b, bytes) = [b EXCEPT !.data = d] BY DEF IncreaseEnd
  <2> HIDE DEF d
  <2>2. [b EXCEPT !.data = d] = [begin |-> b.begin, data |-> d] BY <1>1
  <2> QED BY <2>1, <2>2
<1> HIDE DEF d
<1>5. b.begin + Len(d) <= BUFFER_SIZE BY <1>1, <1>2, <1>3 DEF GetFreeSpaceSize
<1>6. [begin |-> b.begin, data |-> d] \in [begin : Nat, data : Seq(Byte)] BY <1>1, <1>3
<1>7. InBuffer([begin |-> b.begin, data |-> d]) BY <1>5, <1>6 DEF InBuffer
<1> QED BY <1>4, <1>7 DEF d

LEMMA DataMoves ==
  ASSUME NEW b, InBuffer(b)
  PROVE  InBuffer(MoveData(b)) /\ MoveData(b).data = b.data
<1>1. b \in [begin : Nat, data : Seq(Byte)] /\ b.data \in Seq(Byte) /\ b.begin \in Nat
      /\ Len(b.data) \in Nat /\ b.begin + Len(b.data) <= BUFFER_SIZE
  BY BufferType DEF InBuffer
<1>2. MoveData(b) = [begin |-> 0, data |-> b.data] BY <1>1 DEF MoveData
<1>3. BUFFER_SIZE \in Nat BY StreamAssumption
<1>4. 0 + Len(b.data) <= BUFFER_SIZE BY <1>1, <1>3
<1>5. [begin |-> 0, data |-> b.data] \in [begin : Nat, data : Seq(Byte)] BY <1>1
<1>6. InBuffer([begin |-> 0, data |-> b.data]) BY <1>4, <1>5 DEF InBuffer
<1> QED BY <1>2, <1>6
-----------------------------------------------------------------------------
(* The steps *)

\* The sequences of a state have their types.
LEMMA Seqs ==
  ASSUME Inv
  PROVE  /\ m_RecvBuffer.data \in Seq(Byte) /\ m_SendBuffer.data \in Seq(Byte)
         /\ wire \in Seq(Byte) /\ wire \o m_SendBuffer.data \in Seq(Byte)
         /\ Stream \in Seq(Byte)
<1>1. /\ m_RecvBuffer.data \in Seq(Byte) /\ m_SendBuffer.data \in Seq(Byte)
      /\ wire \in Seq(Byte)
  BY BufferType DEF Inv, TypeOK
<1>2. wire \o m_SendBuffer.data \in Seq(Byte) BY <1>1, ConcatProperties
<1>3. Stream \in Seq(Byte) BY <1>1, <1>2, ConcatProperties DEF Stream
<1> QED BY <1>1, <1>2, <1>3

\* A step that moves no message keeps what is conserved when the stream stays.
LEMMA StreamStays ==
  ASSUME Inv, Stream' = Stream, UNCHANGED <<accepted, delivered, msgs>>
  PROVE  Types' /\ Conserved'
BY DEF Inv, Types, Conserved

LEMMA InitInv == Init => Inv
<1> SUFFICES ASSUME Init PROVE Inv OBVIOUS
<1>1. InBuffer([begin |-> 0, data |-> << >>])
  BY StreamAssumption DEF InBuffer
<1>2. TypeOK
  <2>1. Len(<< >>) = 0 /\ << >> \in Seq(Byte) OBVIOUS
  <2>2. InBuffer(m_SendBuffer) /\ InBuffer(m_RecvBuffer) BY <1>1 DEF Init
  <2>3. wire \in Seq(Byte) /\ Len(wire) <= WireMax /\ Len(msgs) <= MSG_COUNT_MAX
    BY <2>1, StreamAssumption DEF Init
  <2>4. {sendOp, overrun, noSpace, recvOp, active} \subseteq BOOLEAN BY DEF Init
  <2> QED BY <2>2, <2>3, <2>4 DEF Init, TypeOK
<1>3. Types BY DEF Init, Types
<1>4. Stream = << >>
  <2>1. << >> \o << >> = << >> OBVIOUS
  <2> QED BY <2>1 DEF Init, Stream
<1>5. Conserved
  <2>1. << >> \in Seq(Message) /\ << >> = (<< >> \o << >>) \o << >> OBVIOUS
  <2> QED BY <1>4, <2>1, FramedEmpty DEF Init, Conserved
<1> QED BY <1>2, <1>3, <1>5 DEF Inv

\* The payload of a message that fits is one.
LEMMA PayloadType ==
  ASSUME Inv, NEW size \in Size, NEW n \in Nat, size < 65536
  PROVE  Payload(n + 1, size) \in Message /\ Len(Payload(n + 1, size)) = size
<1> DEFINE x == Payload(n + 1, size)
<1>1. size \in Nat BY StreamAssumption
<1>2. ((n + 1) - 1) % 256 \in Byte BY DEF Byte
<1>3. x \in [1 .. size -> Byte] BY <1>2 DEF Payload
<1>4. x \in Seq(Byte) BY <1>1, <1>3, SeqDef
<1>5. Len(x) = size BY <1>1, <1>3, <1>4, LenProperties
<1> QED BY <1>4, <1>5 DEF Message

LEMMA SendMsgInv == ASSUME Inv, NEW size \in Size, SendMsg(size) PROVE Inv'
<1> DEFINE x == Payload(Len(accepted) + 1, size)
           h == Header(size)
           S == m_SendBuffer.data
           R == m_RecvBuffer.data
<1>1. Len(accepted) \in Nat /\ InBuffer(m_SendBuffer) /\ size \in Nat
  BY StreamAssumption, LenProperties DEF Inv, Types, TypeOK
<1>2. CASE Fits(size) /\ mainPc' = "Complete" /\ overrun' = overrun
           /\ m_SendBuffer' = IncreaseEnd(m_SendBuffer, h \o x)
           /\ accepted' = Append(accepted, x)
  <2>1. size < 65536 /\ MSG_HEADER_SIZE + size <= GetFreeSpaceSize(m_SendBuffer)
    <3>1. GetFreeSpaceSize(m_SendBuffer) <= BUFFER_SIZE
      BY <1>1, BufferType, StreamAssumption DEF GetFreeSpaceSize
    <3>2. GetFreeSpaceSize(m_SendBuffer) \in Nat BY <1>1, BufferType
    <3> QED BY <1>1, <1>2, <3>1, <3>2, StreamAssumption DEF Fits, MSG_HEADER_SIZE
  <2>2. x \in Message /\ Len(x) = size BY <1>1, <2>1, PayloadType
  <2>3. x \in Seq(Byte) BY <2>2 DEF Message
  <2>4. h \in Seq(Byte) /\ Len(h) = MSG_HEADER_SIZE BY <1>1, <2>1, HeaderBytes
  <2> HIDE DEF x, h
  <2>5. h \o x \in Seq(Byte) /\ Len(h \o x) = MSG_HEADER_SIZE + size
    BY <2>2, <2>3, <2>4, ConcatProperties
  <2>6. InBuffer(m_SendBuffer') /\ m_SendBuffer'.data = S \o (h \o x)
    <3> DEFINE f == h \o x
    <3>1. f \in Seq(Byte) /\ Len(f) <= GetFreeSpaceSize(m_SendBuffer) BY <2>1, <2>5
    <3>2. m_SendBuffer' = IncreaseEnd(m_SendBuffer, f) BY <1>2
    <3> HIDE DEF f
    <3>3. InBuffer(m_SendBuffer') /\ m_SendBuffer'.data = S \o f
      BY <1>1, <3>1, <3>2, EndMoves
    <3> QED BY <3>3 DEF f
  <2>7. TypeOK' BY <1>2, <2>6 DEF Inv, TypeOK, SendMsg
  <2>8. accepted' \in Seq(Message)
    BY <1>2, <2>2, AppendProperties DEF Inv, Types
  <2>9. Types' BY <2>8 DEF Inv, Types, SendMsg
  <2>10. Stream' = Stream \o (h \o x)
    <3> DEFINE f == h \o x
    <3>1. Stream' = Cat(R, Cat(wire, Cat(S, f))) BY <2>6 DEF Stream, SendMsg, Cat
    <3>2. Stream \o f = Cat(Cat(R, Cat(wire, S)), f) BY DEF Stream, Cat
    <3>3. R \in Bytes /\ wire \in Bytes /\ S \in Bytes BY Seqs DEF Bytes
    <3>4. f \in Bytes BY <2>5 DEF Bytes
    <3> HIDE DEF f, R, S
    <3>5. Stream' = Stream \o f BY <3>1, <3>2, <3>3, <3>4, Associative
    <3> QED BY <3>5 DEF f
  <2>11. PICK q \in Seq(Message) : accepted = (delivered \o msgs) \o q /\ Framed(Stream, q)
    BY DEF Inv, Conserved
  <2>12. Framed(Stream', Append(q, x))
    <3>1. h = Header(Len(x)) BY <2>2 DEF h
    <3> QED BY <2>2, <2>10, <2>11, <3>1, Seqs, FramedAppend
  <2>13. Append(accepted, x) = (delivered \o msgs) \o Append(q, x)
    <3>1. delivered \o msgs \in Seq(Message) BY ConcatProperties DEF Inv, Types
    <3>2. <<x>> \in Seq(Message) BY <2>2
    <3>3. Append(accepted, x) = accepted \o <<x>> BY <2>2, AppendIsConcat DEF Inv, Types
    <3>4. Append(q, x) = q \o <<x>> BY <2>2, <2>11, AppendIsConcat
    <3>5. ((delivered \o msgs) \o q) \o <<x>> = (delivered \o msgs) \o (q \o <<x>>)
      BY <2>11, <3>1, <3>2, ConcatAssociative
    <3> QED BY <2>11, <3>3, <3>4, <3>5
  <2>14. Append(q, x) \in Seq(Message) BY <2>2, <2>11, AppendProperties
  <2>15. Conserved' BY <1>2, <2>12, <2>13, <2>14 DEF Conserved, SendMsg
  <2> QED BY <2>7, <2>9, <2>15 DEF Inv
<1>3. CASE overrun' = TRUE /\ UNCHANGED <<m_SendBuffer, accepted, mainPc>>
  <2>1. TypeOK' BY <1>3 DEF Inv, TypeOK, SendMsg
  <2>2. Stream' = Stream BY <1>3 DEF Stream, SendMsg
  <2>3. UNCHANGED <<accepted, delivered, msgs>> BY <1>3 DEF SendMsg
  <2> QED BY <2>1, <2>2, <2>3, StreamStays DEF Inv
<1> QED BY <1>2, <1>3 DEF SendMsg

LEMMA EnterSendInv == ASSUME Inv, NEW t \in {"main", "worker"}, EnterSend(t) PROVE Inv'
<1>1. TypeOK' BY DEF Inv, TypeOK, EnterSend
<1>2. Stream' = Stream BY DEF Stream, EnterSend
<1>3. UNCHANGED <<accepted, delivered, msgs>> BY DEF EnterSend
<1> QED BY <1>1, <1>2, <1>3, StreamStays DEF Inv

LEMMA SendBytesInv == ASSUME Inv, NEW n \in 1 .. BUFFER_SIZE, SendBytes(n) PROVE Inv'
<1> DEFINE S == m_SendBuffer.data
           R == m_RecvBuffer.data
           a == SubSeq(S, 1, n)
           b == SubSeq(S, n + 1, Len(S))
<1>1. InBuffer(m_SendBuffer) /\ wire \in Seq(Byte) /\ WireMax \in Nat
  BY StreamAssumption DEF Inv, TypeOK
<1>2. S \in Seq(Byte) /\ Len(S) \in Nat BY <1>1, BufferType
<1>3. n \in 0 .. Len(S) BY <1>2 DEF SendBytes
<1>4. a \in Seq(Byte) /\ Len(a) = n /\ b \in Seq(Byte) /\ a \o b = S
  BY <1>2, <1>3, CutSeq
<1>5. InBuffer(m_SendBuffer') /\ m_SendBuffer'.data = b
  BY <1>1, <1>3, BeginMoves DEF SendBytes
<1>6. wire' = wire \o a BY DEF SendBytes
<1> HIDE DEF a, b
<1>7. wire' \in Seq(Byte) /\ Len(wire') = Len(wire) + n
  BY <1>1, <1>4, <1>6, ConcatProperties
<1>8. Len(wire') <= WireMax BY <1>7 DEF SendBytes
<1>9. TypeOK' BY <1>5, <1>7, <1>8 DEF Inv, TypeOK, SendBytes
<1>10. Stream' = Stream
  <2>1. Stream' = Cat(R, Cat(Cat(wire, a), b)) BY <1>5, <1>6 DEF Stream, SendBytes, Cat
  <2>2. Stream = Cat(R, Cat(wire, Cat(a, b))) BY <1>4 DEF Stream, Cat
  <2>3. R \in Bytes /\ wire \in Bytes /\ a \in Bytes /\ b \in Bytes
    BY <1>4, Seqs DEF Bytes
  <2>4. Cat(a, b) \in Bytes BY <1>2, <1>4 DEF Cat, Bytes
  <2> HIDE DEF R
  <2> QED BY <2>1, <2>2, <2>3, <2>4, Associative
<1>11. UNCHANGED <<accepted, delivered, msgs>> BY DEF SendBytes
<1> QED BY <1>9, <1>10, <1>11, StreamStays DEF Inv

LEMMA SendReturnsInv == ASSUME Inv, SendReturns PROVE Inv'
<1>1. InBuffer(m_SendBuffer') /\ m_SendBuffer'.data = m_SendBuffer.data
  BY DataMoves DEF Inv, TypeOK, SendReturns
<1>2. noSpace' \in BOOLEAN BY DEF Inv, TypeOK, SendReturns
<1>3. TypeOK' BY <1>1, <1>2 DEF Inv, TypeOK, SendReturns
<1>4. Stream' = Stream BY <1>1 DEF Stream, SendReturns
<1>5. UNCHANGED <<accepted, delivered, msgs>> BY DEF SendReturns
<1> QED BY <1>3, <1>4, <1>5, StreamStays DEF Inv

LEMMA EnterRecvInv == ASSUME Inv, EnterRecv PROVE Inv'
<1>1. TypeOK' BY DEF Inv, TypeOK, EnterRecv
<1>2. Stream' = Stream BY DEF Stream, EnterRecv
<1>3. UNCHANGED <<accepted, delivered, msgs>> BY DEF EnterRecv
<1> QED BY <1>1, <1>2, <1>3, StreamStays DEF Inv

LEMMA RecvBytesInv == ASSUME Inv, RecvBytes PROVE Inv'
<1>1. PICK n \in 1 .. Len(wire) :
        /\ n <= GetFreeSpaceSize(m_RecvBuffer)
        /\ m_RecvBuffer' = IncreaseEnd(m_RecvBuffer, SubSeq(wire, 1, n))
        /\ wire' = SubSeq(wire, n + 1, Len(wire))
  BY DEF RecvBytes
<1> DEFINE S == m_SendBuffer.data
           R == m_RecvBuffer.data
           a == SubSeq(wire, 1, n)
           b == SubSeq(wire, n + 1, Len(wire))
<1>2. /\ InBuffer(m_RecvBuffer) /\ wire \in Seq(Byte) /\ Len(wire) <= WireMax
      /\ WireMax \in Nat
  BY StreamAssumption DEF Inv, TypeOK
<1>3. Len(wire) \in Nat /\ n \in 0 .. Len(wire) BY <1>2, LenProperties
<1>4. /\ a \in Seq(Byte) /\ Len(a) = n /\ b \in Seq(Byte) /\ a \o b = wire
      /\ Len(b) = Len(wire) - n
  BY <1>2, <1>3, CutSeq
<1>5. m_RecvBuffer' = IncreaseEnd(m_RecvBuffer, a) /\ wire' = b BY <1>1
<1> HIDE DEF a, b
<1>6. InBuffer(m_RecvBuffer') /\ m_RecvBuffer'.data = R \o a
  BY <1>1, <1>2, <1>4, <1>5, EndMoves
<1>7. wire' \in Seq(Byte) /\ Len(wire') <= WireMax BY <1>2, <1>3, <1>4, <1>5
<1>8. sendOp' \in BOOLEAN /\ noSpace' = FALSE
  BY DEF Inv, TypeOK, RecvBytes, SpaceFreed
<1>9. TypeOK' BY <1>6, <1>7, <1>8 DEF Inv, TypeOK, RecvBytes
<1>10. Stream' = Stream
  <2>1. Stream' = Cat(Cat(R, a), Cat(b, S)) BY <1>5, <1>6 DEF Stream, RecvBytes, Cat
  <2>2. Stream = Cat(R, Cat(Cat(a, b), S)) BY <1>4 DEF Stream, Cat
  <2>3. R \in Bytes /\ S \in Bytes /\ a \in Bytes /\ b \in Bytes BY <1>4, Seqs DEF Bytes
  <2> HIDE DEF R, S
  <2> QED BY <2>1, <2>2, <2>3, Associative
<1>11. UNCHANGED <<accepted, delivered, msgs>> BY DEF RecvBytes
<1> QED BY <1>9, <1>10, <1>11, StreamStays DEF Inv

LEMMA RecvNothingInv == ASSUME Inv, RecvNothing PROVE Inv'
<1>1. TypeOK' BY DEF Inv, TypeOK, RecvNothing
<1>2. Stream' = Stream BY DEF Stream, RecvNothing
<1>3. UNCHANGED <<accepted, delivered, msgs>> BY DEF RecvNothing
<1> QED BY <1>1, <1>2, <1>3, StreamStays DEF Inv

\* What ExtractMsg takes for a message is the oldest one accepted and not queued yet.
LEMMA ExtractedIsOldest ==
  ASSUME Inv, Whole(m_RecvBuffer.data),
         NEW q \in Seq(Message), Framed(Stream, q)
  PROVE  /\ q # << >> /\ HeaderOf(m_RecvBuffer.data) = Len(Head(q))
         /\ MSG_HEADER_SIZE + Len(Head(q)) \in 0 .. Len(m_RecvBuffer.data)
         /\ SubSeq(m_RecvBuffer.data, MSG_HEADER_SIZE + 1,
                   MSG_HEADER_SIZE + Len(Head(q))) = Head(q)
<1> DEFINE R == m_RecvBuffer.data
           T == wire \o m_SendBuffer.data
           x == Head(q)
           l == Len(x)
<1>1. R \in Seq(Byte) /\ T \in Seq(Byte) /\ Stream \in Seq(Byte) BY Seqs
<1>2. Len(R) \in Nat /\ Len(T) \in Nat BY <1>1, LenProperties
<1> HIDE DEF R, T
<1>3. /\ Len(Stream) = Len(R) + Len(T)
      /\ \A i \in 1 .. Len(R) + Len(T) :
           Stream[i] = IF i <= Len(R) THEN R[i] ELSE T[i - Len(R)]
  <2>1. Stream = R \o T BY DEF Stream, R, T
  <2> QED BY <1>1, <2>1, ConcatProperties
<1>4. \A i \in 1 .. Len(R) : Stream[i] = R[i] BY <1>2, <1>3
<1>5. Len(R) >= 2 /\ Len(R) - 2 >= HeaderOf(R) BY DEF Whole, R, MSG_HEADER_SIZE
<1>6. Len(Stream) # 0 BY <1>2, <1>3, <1>5
<1>7. q # << >> /\ FrameAt(Stream, 0, x) BY <1>1, <1>6, FramedHead
<1>8. x \in Seq(Byte) /\ l \in Nat /\ l < 65536
  BY <1>7, HeadTailProperties, LenProperties DEF Message
<1> HIDE DEF x
<1>9. HeaderOf(R) = l
  <2>1. Stream[0 + 1] = Header(l)[1] /\ Stream[0 + 2] = Header(l)[2] BY <1>7 DEF FrameAt
  <2>2. R[1] = Header(l)[1] /\ R[2] = Header(l)[2] BY <1>2, <1>4, <1>5, <2>1
  <2>3. Header(l)[1] + 256 * Header(l)[2] = l BY <1>8, HeaderBytes
  <2> QED BY <2>2, <2>3 DEF HeaderOf
<1>10. 2 + l \in 0 .. Len(R) BY <1>2, <1>5, <1>8, <1>9
<1>11. \A j \in 1 .. l : R[2 + j] = x[j]
  <2>1. \A j \in 1 .. l : Stream[0 + 2 + j] = x[j] BY <1>7 DEF FrameAt, MSG_HEADER_SIZE
  <2>2. \A j \in 1 .. l : 0 + 2 + j = 2 + j /\ 2 + j \in 1 .. Len(R) BY <1>2, <1>8, <1>10
  <2> QED BY <1>4, <2>1, <2>2
<1>12. SubSeq(R, 3, 2 + l) = x
  <2> DEFINE y == SubSeq(R, 3, 2 + l)
             k == 2 + l
  <2>1. \A i \in 3 .. k : i \in 1 .. Len(R) BY <1>2, <1>8, <1>10
  <2>2. \A i \in 3 .. k : R[i] \in Byte BY <1>1, <2>1, ElementOfSeq
  <2>3. k \in Int /\ k - 3 + 1 = l /\ (3 <= k <=> l # 0) BY <1>8
  <2> HIDE DEF k
  <2>4. /\ SubSeq(R, 3, k) \in Seq(Byte)
        /\ Len(SubSeq(R, 3, k)) = IF 3 <= k THEN k - 3 + 1 ELSE 0
        /\ \A i \in 1 .. k - 3 + 1 : SubSeq(R, 3, k)[i] = R[3 + i - 1]
    BY <2>2, <2>3, SubSeqProperties
  <2>5. y \in Seq(Byte) /\ Len(y) = l BY <2>3, <2>4 DEF k
  <2>6. \A i \in 1 .. l : y[i] = R[3 + i - 1] BY <2>3, <2>4 DEF k
  <2>7. \A i \in 1 .. l : 3 + i - 1 = 2 + i BY <1>8
  <2>8. \A i \in 1 .. l : y[i] = x[i] BY <1>11, <2>6, <2>7
  <2> HIDE DEF y
  <2>9. y = x BY <1>8, <2>5, <2>8, SeqEqual
  <2> QED BY <2>9 DEF y
<1>13. 2 + 1 = 3 OBVIOUS
<1> QED BY <1>7, <1>9, <1>10, <1>12, <1>13 DEF R, x, MSG_HEADER_SIZE

LEMMA ExtractMsgInv == ASSUME Inv, ExtractMsg PROVE Inv'
<1> DEFINE R == m_RecvBuffer.data
           T == wire \o m_SendBuffer.data
           h == HeaderOf(R)
<1>1. InBuffer(m_RecvBuffer) /\ Len(msgs) <= MSG_COUNT_MAX BY DEF Inv, TypeOK
<1>2. CASE /\ Whole(R) /\ Len(msgs) < MSG_COUNT_MAX
           /\ msgs' = Append(msgs, SubSeq(R, MSG_HEADER_SIZE + 1, MSG_HEADER_SIZE + h))
           /\ m_RecvBuffer' = IncreaseBegin(m_RecvBuffer, Consumed(h))
           /\ UNCHANGED recvPc
  <2>1. PICK q \in Seq(Message) : accepted = (delivered \o msgs) \o q /\ Framed(Stream, q)
    BY DEF Inv, Conserved
  <2> DEFINE x == Head(q)
             c == MSG_HEADER_SIZE + Len(x)
  <2>2. /\ q # << >> /\ h = Len(x) /\ c \in 0 .. Len(R)
        /\ SubSeq(R, MSG_HEADER_SIZE + 1, MSG_HEADER_SIZE + Len(x)) = x
    BY <1>2, <2>1, ExtractedIsOldest
  <2>3. x \in Message /\ Tail(q) \in Seq(Message) BY <2>2, HeadTailProperties
  <2>4. msgs' = Append(msgs, x) /\ m_RecvBuffer' = IncreaseBegin(m_RecvBuffer, c)
    BY <1>2, <2>2 DEF Consumed
  <2>5. InBuffer(m_RecvBuffer') /\ m_RecvBuffer'.data = SubSeq(R, c + 1, Len(R))
    BY <1>1, <2>2, <2>4, BeginMoves
  <2>6. Framed(SubSeq(Stream, c + 1, Len(Stream)), Tail(q))
    BY <2>1, <2>2, Seqs, FramedTail
  <2> HIDE DEF x, c
  <2>7. Stream' = SubSeq(Stream, c + 1, Len(Stream))
    <3>1. Stream' = SubSeq(R, c + 1, Len(R)) \o T BY <2>5 DEF Stream, ExtractMsg
    <3>2. R \in Seq(Byte) /\ T \in Seq(Byte) BY Seqs
    <3>3. Stream = R \o T BY DEF Stream
    <3> HIDE DEF R, T
    <3>4. SubSeq(R \o T, c + 1, Len(R \o T)) = SubSeq(R, c + 1, Len(R)) \o T
      BY <2>2, <3>2, DropOfConcat
    <3> QED BY <3>1, <3>3, <3>4
  <2>8. msgs' \in Seq(Message) /\ Len(msgs') = Len(msgs) + 1
    BY <2>3, <2>4, AppendProperties DEF Inv, Types
  <2>9. Len(msgs') <= MSG_COUNT_MAX
    <3>1. Len(msgs) \in Nat /\ MSG_COUNT_MAX \in Nat
      BY LenProperties, StreamAssumption DEF Inv, Types
    <3> QED BY <1>2, <2>8, <3>1
  <2>10. TypeOK' BY <1>2, <2>5, <2>9 DEF Inv, TypeOK, ExtractMsg
  <2>11. Types' BY <2>8 DEF Inv, Types, ExtractMsg
  <2>12. accepted = (delivered \o Append(msgs, x)) \o Tail(q)
    <3>1. delivered \in Seq(Message) /\ msgs \in Seq(Message) BY DEF Inv, Types
    <3>2. q # << >> BY <2>2
    <3>3. \A u, v \in Seq(Message) :
            (u \o v) \o q = (u \o Append(v, Head(q))) \o Tail(q)
      BY <3>2, NextQueued
    <3>4. (delivered \o msgs) \o q = (delivered \o Append(msgs, Head(q))) \o Tail(q)
      BY <3>1, <3>3
    <3> QED BY <2>1, <3>4 DEF x
  <2>13. Conserved' BY <2>3, <2>4, <2>6, <2>7, <2>12 DEF Conserved, ExtractMsg
  <2> QED BY <2>10, <2>11, <2>13 DEF Inv
<1>3. CASE m_RecvBuffer' = MoveData(m_RecvBuffer) /\ recvPc' = "idle" /\ UNCHANGED msgs
  <2>1. InBuffer(m_RecvBuffer') /\ m_RecvBuffer'.data = R BY <1>1, <1>3, DataMoves
  <2>2. TypeOK' BY <1>3, <2>1 DEF Inv, TypeOK, ExtractMsg
  <2>3. Stream' = Stream BY <2>1 DEF Stream, ExtractMsg
  <2>4. UNCHANGED <<accepted, delivered, msgs>> BY <1>3 DEF ExtractMsg
  <2> QED BY <2>2, <2>3, <2>4, StreamStays DEF Inv
<1> QED BY <1>2, <1>3 DEF ExtractMsg

LEMMA OnReceiveInv == ASSUME Inv, OnReceive PROVE Inv'
<1>1. /\ msgs \in Seq(Message) /\ msgs # << >> /\ delivered \in Seq(Message)
      /\ msgs' = Tail(msgs) /\ delivered' = Append(delivered, Head(msgs))
  BY DEF Inv, Types, OnReceive
<1>2. /\ Head(msgs) \in Message /\ msgs' \in Seq(Message) /\ Len(msgs') = Len(msgs) - 1
  BY <1>1, HeadTailProperties
<1>3. delivered' \in Seq(Message) BY <1>1, <1>2, AppendProperties
<1>4. Len(msgs') <= MSG_COUNT_MAX
  <2>1. Len(msgs) \in Nat /\ MSG_COUNT_MAX \in Nat /\ Len(msgs) <= MSG_COUNT_MAX
    BY <1>1, LenProperties, StreamAssumption DEF Inv, TypeOK
  <2> QED BY <1>2, <2>1
<1>5. TypeOK' BY <1>4 DEF Inv, TypeOK, OnReceive
<1>6. Types' BY <1>2, <1>3 DEF Inv, Types, OnReceive
<1>7. Stream' = Stream BY DEF Stream, OnReceive
<1>8. delivered' \o msgs' = delivered \o msgs BY <1>1, HeadMoves
<1>9. Conserved' BY <1>7, <1>8 DEF Inv, Conserved, OnReceive
<1> QED BY <1>5, <1>6, <1>9 DEF Inv

\* Every step keeps the invariant.
LEMMA NextInv == Inv /\ [Next]_vars => Inv'
<1> SUFFICES ASSUME Inv, [Next]_vars PROVE Inv' OBVIOUS
<1>1. ASSUME NEW size \in Size, SendMsg(size) PROVE Inv' BY <1>1, SendMsgInv
<1>2. ASSUME NEW t \in {"main", "worker"}, SendStep(t) PROVE Inv'
  <2>1. CASE EnterSend(t) BY <2>1, EnterSendInv
  <2>2. CASE SendReturns BY <2>2, SendReturnsInv
  <2>3. ASSUME NEW n \in 1 .. BUFFER_SIZE, SendBytes(n) PROVE Inv' BY <2>3, SendBytesInv
  <2> QED BY <1>2, <2>1, <2>2, <2>3 DEF SendStep
<1>3. CASE RecvStep
  BY <1>3, EnterRecvInv, RecvBytesInv, RecvNothingInv, ExtractMsgInv DEF RecvStep
<1>4. CASE OnReceive BY <1>4, OnReceiveInv
<1>5. CASE UNCHANGED vars
  <2>1. TypeOK' BY <1>5 DEF Inv, TypeOK, InBuffer, vars
  <2>2. Stream' = Stream /\ UNCHANGED <<accepted, delivered, msgs>>
    BY <1>5 DEF Stream, vars
  <2> QED BY <2>1, <2>2, StreamStays DEF Inv
<1> QED BY <1>1, <1>2, <1>3, <1>4, <1>5 DEF Next

LEMMA InvariantHolds == Spec => []Inv
BY InitInv, NextInv, PTL DEF Spec

\* The state has its types; in particular m_pBegin and m_pEnd of both buffers stay in
\* their array, wherever send and recv cut the stream.  (A memcpy of SendMsg that went
\* past the array is the flag overrun, after which the model stops.)
THEOREM StreamTypeCorrect == Spec => []TypeOK
<1>1. Inv => TypeOK BY DEF Inv
<1> QED BY <1>1, InvariantHolds, PTL

\* SendMsg, Send, Recv and ExtractMsg together: whatever the sizes of the messages, the
\* buffers and the kernel's room, and wherever the stream is cut, what OnReceive gets
\* are the messages SendMsg took, whole and in their order.
THEOREM StreamMessagesIntact == Spec => []MessagesIntact
<1>1. Inv => MessagesIntact
  <2> SUFFICES ASSUME Inv PROVE MessagesIntact OBVIOUS
  <2> DEFINE got == delivered \o msgs
  <2>1. PICK q \in Seq(Message) : accepted = got \o q BY DEF Inv, Conserved
  <2>2. got \in Seq(Message) BY ConcatProperties DEF Inv, Types
  <2> HIDE DEF got
  <2>3. Len(got) <= Len(got \o q) /\ got = SubSeq(got \o q, 1, Len(got))
    BY <2>2, PrefixOfConcat
  <2> QED BY <2>1, <2>3 DEF MessagesIntact, got
<1> QED BY <1>1, InvariantHolds, PTL
=============================================================================
