------------------------- MODULE CompletionPortProofs -------------------------
(***************************************************************************)
(* Proofs about CompletionPort, for any workers, sessions, connections and *)
(* requests.                                                               *)
(***************************************************************************)
EXTENDS CompletionPort, ListLemmas

(***************************************************************************)
(* The inductive invariant.                                                *)
(***************************************************************************)
Kind == {"recv", "send"}
Op == [key : {None} \cup Slot, conn : {None} \cup Conn, kind : {"accept"} \cup Kind,
       bytes : Nat, ok : BOOLEAN]

\* The completion of an AcceptEx; an operation on a session.
AcceptOp == {o \in Op : o.kind = "accept" /\ o.key = None /\ o.conn \in Conn}
IoOp == {o \in Op : o.kind \in Kind /\ o.key \in Slot /\ o.conn \in Conn}

MsgSet == [type : {"recv"}, session : Slot, conn : Conn]
          \cup [type : {"accept", "close"}, session : {None} \cup Slot, conn : Conn]
SessionSet == [conn : {None} \cup Conn, sending : BOOLEAN, data : Nat]
Label == {"idle", "accept", "register", "handle"}

Types ==
  /\ peer \in [Conn -> {"none", "open", "closed"}] /\ unread \in [Conn -> Nat]
  /\ backlog \in Seq(Conn)
  /\ pending \subseteq IoOp \cup {AcceptEx} /\ IsFiniteSet(pending)
  /\ port \in Seq(IoOp \cup AcceptOp)
  /\ session \in [Slot -> SessionSet]
  /\ msgs \in Seq(MsgSet)
  /\ pc \in [Worker -> Label]
  /\ op \in [Worker -> Op]
  /\ stopped \in BOOLEAN /\ deaf \subseteq Conn

\* What a worker has in its hands.
InHands ==
  \A w \in Worker :
    /\ pc[w] = "accept" => op[w] \in AcceptOp
    /\ pc[w] = "register" => op[w].key \in Slot /\ op[w].conn \in Conn
    /\ pc[w] = "handle" => op[w] \in IoOp

\* Accepted by the kernel and not yet by CreateSession.
Arriving(c) ==
  \/ \E i \in 1 .. Len(port) : port[i].kind = "accept" /\ port[i].conn = c
  \/ \E w \in Worker : pc[w] = "accept" /\ op[w].conn = c

\* A connection without a session yet.
Early(c) == peer[c] = "none" \/ c \in Elems(backlog) \/ Arriving(c)

\* No operation of c is on its way, and no request of c waits for the main thread.
Quiet(c) ==
  /\ c \notin deaf
  /\ \A kind \in Kind : Outstanding(c, kind) = 0
  /\ \A m \in Elems(msgs) : m.type = "recv" => m.conn # c

\* A connection goes from the peer through the backlog and AcceptEx to its session, and
\* until it is there nothing is done for it.
Stages ==
  /\ Distinct(backlog)
  /\ \A c \in Elems(backlog) : peer[c] # "none"
  /\ \A c \in Conn : Arriving(c) => peer[c] # "none" /\ c \notin Elems(backlog)
  /\ \A c \in Conn : Early(c) => Quiet(c) /\ \A s \in Slot : session[s].conn # c

OneSession ==
  \A s, r \in Slot : session[s].conn # None /\ session[s].conn = session[r].conn => s = r

\* Between CreateSession and the WSARecv the session is there, and nothing is done for it.
Registering ==
  \A w \in Worker : pc[w] = "register" =>
    Quiet(op[w].conn) /\ session[op[w].key].conn = op[w].conn

Recvs ==
  \A s \in Slot : Registered(s) =>
    Outstanding(session[s].conn, "recv") = IF session[s].conn \in deaf THEN 0 ELSE 1

Sends ==
  \A s \in Slot : session[s].conn # None =>
    /\ Outstanding(session[s].conn, "send") <= 1
    /\ session[s].data > 0 => session[s].sending
    /\ ~session[s].sending => Outstanding(session[s].conn, "send") = 0
    /\ peer[session[s].conn] = "open" /\ session[s].sending =>
         Outstanding(session[s].conn, "send") = 1

Inv ==
  /\ Types /\ InHands /\ AcceptGoesOn
  /\ Stages /\ OneSession /\ Registering /\ Recvs /\ Sends
-----------------------------------------------------------------------------
(***************************************************************************)
(* Counting: the parts of Outstanding and of AcceptGoesOn, and what adding *)
(* and taking away one operation does to them.                             *)
(***************************************************************************)
Is(o, c, kind) == o.conn = c /\ o.kind = kind
KernelN(P, c, kind) == Cardinality({o \in P : Is(o, c, kind)})
PortN(q, c, kind) == Cardinality({i \in 1 .. Len(q) : Is(q[i], c, kind)})
HandN(p, f, c, kind) == Cardinality({w \in Worker : p[w] = "handle" /\ Is(f[w], c, kind)})

PortAcceptN(q) == Cardinality({i \in 1 .. Len(q) : q[i].kind = "accept"})
BusyN(p) == Cardinality({w \in Worker : p[w] \in {"accept", "register"}})

\* The operations a completion port can hold.
PortOp == IoOp \cup AcceptOp

LEMMA Constants == IsFiniteSet(Worker) /\ Amount \in Nat \ {0} /\ ConnMax \in Nat /\ RequestMax \in Nat
BY CompletionPortAssumption

LEMMA NoneOutside == None \notin Conn /\ None \notin Slot
BY Constants DEF None, Conn, Slot

LEMMA AcceptExIs == AcceptEx.conn = None /\ AcceptEx.key = None /\ AcceptEx.kind = "accept"
                    /\ AcceptEx \in Op
BY DEF AcceptEx, Operation, Op

LEMMA Parts ==
  \A c, kind : Outstanding(c, kind) =
    KernelN(pending, c, kind) + PortN(port, c, kind) + HandN(pc, op, c, kind)
BY DEF Outstanding, KernelN, PortN, HandN, Is

LEMMA KernelNat ==
  ASSUME NEW P, IsFiniteSet(P), NEW c, NEW kind
  PROVE  /\ KernelN(P, c, kind) \in Nat
         /\ KernelN(P, c, kind) = 0 <=> \A o \in P : ~Is(o, c, kind)
<1> DEFINE A == {o \in P : Is(o, c, kind)}
<1>1. A \in SUBSET P OBVIOUS
<1>2. IsFiniteSet(A) BY <1>1, FS_Subset
<1>3. Cardinality(A) \in Nat BY <1>2, FS_CardinalityType
<1>4. Cardinality(A) = 0 <=> A = {} BY <1>2, FS_EmptySet
<1> QED BY <1>3, <1>4 DEF KernelN

LEMMA KernelAdd ==
  ASSUME NEW P, IsFiniteSet(P), NEW o, o \notin P, NEW c, NEW kind
  PROVE  KernelN(P \cup {o}, c, kind) = KernelN(P, c, kind) + One(Is(o, c, kind))
<1> DEFINE A == {x \in P : Is(x, c, kind)}
           B == {x \in P \cup {o} : Is(x, c, kind)}
<1>1. A \in SUBSET P OBVIOUS
<1>2. IsFiniteSet(A) /\ o \notin A BY <1>1, FS_Subset
<1>3. Cardinality(A) \in Nat BY <1>2, FS_CardinalityType
<1>4. CASE Is(o, c, kind)
  <2>1. B = A \cup {o} BY <1>4
  <2>2. Cardinality(A \cup {o}) = Cardinality(A) + 1 BY <1>2, FS_AddElement
  <2> QED BY <1>4, <2>1, <2>2 DEF KernelN, One
<1>5. CASE ~Is(o, c, kind)
  <2>1. B = A BY <1>5
  <2>2. One(Is(o, c, kind)) = 0 BY <1>5 DEF One
  <2>3. KernelN(P \cup {o}, c, kind) = Cardinality(A) BY <2>1 DEF KernelN
  <2>4. KernelN(P, c, kind) = Cardinality(A) BY DEF KernelN
  <2> HIDE DEF A, B
  <2> QED BY <1>3, <2>2, <2>3, <2>4
<1> QED BY <1>4, <1>5

LEMMA KernelDrop ==
  ASSUME NEW P, IsFiniteSet(P), NEW o \in P, NEW c, NEW kind
  PROVE  KernelN(P \ {o}, c, kind) = KernelN(P, c, kind) - One(Is(o, c, kind))
<1> DEFINE Q == P \ {o}
<1>1. Q \in SUBSET P /\ o \notin Q /\ Q \cup {o} = P OBVIOUS
<1>2. IsFiniteSet(Q) BY <1>1, FS_Subset
<1> HIDE DEF Q
<1>3. KernelN(Q \cup {o}, c, kind) = KernelN(Q, c, kind) + One(Is(o, c, kind))
  BY <1>1, <1>2, KernelAdd
<1>4. KernelN(Q, c, kind) \in Nat BY <1>2, KernelNat
<1>5. One(Is(o, c, kind)) \in Nat BY DEF One
<1>6. KernelN(P, c, kind) = KernelN(Q, c, kind) + One(Is(o, c, kind)) BY <1>1, <1>3
<1> QED BY <1>4, <1>5, <1>6 DEF Q

LEMMA PortAsHits ==
  ASSUME NEW q \in Seq(PortOp), NEW c, NEW kind
  PROVE  /\ PortN(q, c, kind) = Cardinality(Hits(q, {o \in PortOp : Is(o, c, kind)}))
         /\ PortAcceptN(q) = Cardinality(Hits(q, AcceptOp))
<1>1. \A i \in 1 .. Len(q) : q[i] \in PortOp BY ElementOfSeq
<1>2. {i \in 1 .. Len(q) : Is(q[i], c, kind)} = Hits(q, {o \in PortOp : Is(o, c, kind)})
  BY <1>1 DEF Hits
<1>3. \A o \in PortOp : o.kind = "accept" <=> o \in AcceptOp
  BY DEF PortOp, IoOp, AcceptOp, Kind
<1>4. {i \in 1 .. Len(q) : q[i].kind = "accept"} = Hits(q, AcceptOp) BY <1>1, <1>3 DEF Hits
<1> QED BY <1>2, <1>4 DEF PortN, PortAcceptN

LEMMA PortNat ==
  ASSUME NEW q \in Seq(PortOp), NEW c, NEW kind
  PROVE  /\ PortN(q, c, kind) \in Nat /\ PortAcceptN(q) \in Nat
         /\ PortAcceptN(q) = 0 <=> \A i \in 1 .. Len(q) : q[i].kind # "accept"
<1>1. Cardinality(Hits(q, {o \in PortOp : Is(o, c, kind)})) \in Nat BY HitsFinite
<1>2. /\ Cardinality(Hits(q, AcceptOp)) \in Nat
      /\ Cardinality(Hits(q, AcceptOp)) = 0 <=> \A i \in 1 .. Len(q) : q[i] \notin AcceptOp
  BY HitsFinite
<1>3. \A i \in 1 .. Len(q) : q[i] \in PortOp BY ElementOfSeq
<1>4. \A o \in PortOp : o.kind = "accept" <=> o \in AcceptOp
  BY DEF PortOp, IoOp, AcceptOp, Kind
<1> QED BY <1>1, <1>2, <1>3, <1>4, PortAsHits

LEMMA PortPush ==
  ASSUME NEW q \in Seq(PortOp), NEW o \in PortOp, NEW c, NEW kind
  PROVE  /\ Append(q, o) \in Seq(PortOp)
         /\ PortN(Append(q, o), c, kind) = PortN(q, c, kind) + One(Is(o, c, kind))
         /\ PortAcceptN(Append(q, o)) = PortAcceptN(q) + One(o \in AcceptOp)
<1> DEFINE S == {x \in PortOp : Is(x, c, kind)}
<1>1. Append(q, o) \in Seq(PortOp) BY AppendProperties
<1>2. One(o \in S) = One(Is(o, c, kind)) BY DEF One
<1>3. /\ PortN(q, c, kind) = Cardinality(Hits(q, S))
      /\ PortAcceptN(q) = Cardinality(Hits(q, AcceptOp))
      /\ PortN(Append(q, o), c, kind) = Cardinality(Hits(Append(q, o), S))
      /\ PortAcceptN(Append(q, o)) = Cardinality(Hits(Append(q, o), AcceptOp))
  BY <1>1, PortAsHits
<1> HIDE DEF S
<1>4. Cardinality(Hits(Append(q, o), S)) = Cardinality(Hits(q, S)) + One(o \in S)
  BY HitsAppend
<1>5. Cardinality(Hits(Append(q, o), AcceptOp)) = Cardinality(Hits(q, AcceptOp)) + One(o \in AcceptOp)
  BY HitsAppend
<1> QED BY <1>1, <1>2, <1>3, <1>4, <1>5

LEMMA PortPop ==
  ASSUME NEW q \in Seq(PortOp), q # << >>, NEW c, NEW kind
  PROVE  /\ Tail(q) \in Seq(PortOp) /\ Head(q) \in PortOp
         /\ PortN(Tail(q), c, kind) = PortN(q, c, kind) - One(Is(Head(q), c, kind))
         /\ PortAcceptN(Tail(q)) = PortAcceptN(q) - One(Head(q) \in AcceptOp)
<1> DEFINE S == {x \in PortOp : Is(x, c, kind)}
<1>1. Tail(q) \in Seq(PortOp) /\ Head(q) \in PortOp BY HeadTailProperties
<1>2. One(Head(q) \in S) = One(Is(Head(q), c, kind)) BY <1>1 DEF One
<1>3. /\ PortN(q, c, kind) = Cardinality(Hits(q, S))
      /\ PortAcceptN(q) = Cardinality(Hits(q, AcceptOp))
      /\ PortN(Tail(q), c, kind) = Cardinality(Hits(Tail(q), S))
      /\ PortAcceptN(Tail(q)) = Cardinality(Hits(Tail(q), AcceptOp))
  BY <1>1, PortAsHits
<1> HIDE DEF S
<1>4. Cardinality(Hits(Tail(q), S)) = Cardinality(Hits(q, S)) - One(Head(q) \in S)
  BY HitsTail
<1>5. Cardinality(Hits(Tail(q), AcceptOp)) = Cardinality(Hits(q, AcceptOp)) - One(Head(q) \in AcceptOp)
  BY HitsTail
<1> QED BY <1>1, <1>2, <1>3, <1>4, <1>5

\* What closesocket aborts is not counted for other connections.
LEMMA PortConcat ==
  ASSUME NEW q \in Seq(PortOp), NEW r \in Seq(IoOp), NEW c, NEW kind,
         \A i \in 1 .. Len(r) : ~Is(r[i], c, kind)
  PROVE  /\ q \o r \in Seq(PortOp)
         /\ PortN(q \o r, c, kind) = PortN(q, c, kind)
<1> DEFINE S == {x \in PortOp : Is(x, c, kind)}
<1>1. r \in Seq(PortOp)
  <2>1. \A i \in 1 .. Len(r) : r[i] \in PortOp BY ElementOfSeq DEF PortOp
  <2>2. Len(r) \in Nat /\ r \in [1 .. Len(r) -> IoOp] BY LenProperties
  <2>3. r \in [1 .. Len(r) -> PortOp] BY <2>1, <2>2
  <2> QED BY <2>2, <2>3, SeqDef
<1>2. q \o r \in Seq(PortOp) BY <1>1, ConcatProperties
<1>3. \A i \in 1 .. Len(r) : r[i] \notin S OBVIOUS
<1>4. /\ PortN(q, c, kind) = Cardinality(Hits(q, S))
      /\ PortN(q \o r, c, kind) = Cardinality(Hits(q \o r, S))
  BY <1>2, PortAsHits
<1> HIDE DEF S
<1>5. Hits(q \o r, S) = Hits(q, S) BY <1>1, <1>3, HitsConcat
<1> QED BY <1>2, <1>4, <1>5

LEMMA PortConcatAccept ==
  ASSUME NEW q \in Seq(PortOp), NEW r \in Seq(IoOp)
  PROVE  /\ q \o r \in Seq(PortOp)
         /\ PortAcceptN(q \o r) = PortAcceptN(q)
<1>1. r \in Seq(PortOp) /\ \A i \in 1 .. Len(r) : r[i] \notin AcceptOp
  <2>1. \A i \in 1 .. Len(r) : r[i] \in PortOp /\ r[i] \notin AcceptOp
    BY ElementOfSeq DEF PortOp, IoOp, AcceptOp, Kind
  <2>2. Len(r) \in Nat /\ r \in [1 .. Len(r) -> IoOp] BY LenProperties
  <2>3. r \in [1 .. Len(r) -> PortOp] BY <2>1, <2>2
  <2> QED BY <2>1, <2>2, <2>3, SeqDef
<1>2. q \o r \in Seq(PortOp) BY <1>1, ConcatProperties
<1>3. Hits(q \o r, AcceptOp) = Hits(q, AcceptOp) BY <1>1, HitsConcat
<1> QED BY <1>2, <1>3, PortAsHits
-----------------------------------------------------------------------------
\* A subset of the workers grows or shrinks by w.
LEMMA WorkerSet ==
  ASSUME NEW A \in SUBSET Worker, NEW B \in SUBSET Worker, NEW w \in Worker,
         \A v \in Worker \ {w} : v \in A <=> v \in B
  PROVE  /\ Cardinality(A) \in Nat /\ Cardinality(B) \in Nat
         /\ Cardinality(B) = Cardinality(A) + One(w \in B) - One(w \in A)
         /\ w \in A => Cardinality(A) > 0
<1>1. IsFiniteSet(A) /\ IsFiniteSet(B) BY Constants, FS_Subset
<1>2. Cardinality(A) \in Nat /\ Cardinality(B) \in Nat BY <1>1, FS_CardinalityType
<1>3. w \in A => Cardinality(A) > 0 BY <1>1, <1>2, FS_EmptySet
<1>4. CASE w \in A <=> w \in B
  <2>1. A = B BY <1>4
  <2>2. One(w \in B) = One(w \in A) /\ One(w \in A) \in Nat BY <1>4 DEF One
  <2> QED BY <1>2, <1>3, <2>1, <2>2
<1>5. CASE w \in A /\ w \notin B
  <2>1. B = A \ {w} BY <1>5
  <2>2. Cardinality(B) = Cardinality(A) - 1 BY <1>1, <1>5, <2>1, FS_RemoveElement
  <2>3. One(w \in B) = 0 /\ One(w \in A) = 1 BY <1>5 DEF One
  <2> QED BY <1>2, <1>3, <2>2, <2>3
<1>6. CASE w \notin A /\ w \in B
  <2>1. B = A \cup {w} BY <1>6
  <2>2. Cardinality(B) = Cardinality(A) + 1 BY <1>1, <1>6, <2>1, FS_AddElement
  <2>3. One(w \in B) = 1 /\ One(w \in A) = 0 BY <1>6 DEF One
  <2> QED BY <1>2, <1>3, <2>2, <2>3
<1> QED BY <1>4, <1>5, <1>6

\* A worker w goes on.
LEMMA HandStep ==
  ASSUME NEW w \in Worker, NEW c, NEW kind,
         \A v \in Worker \ {w} : pc'[v] = pc[v] /\ op'[v] = op[v]
  PROVE  /\ HandN(pc, op, c, kind) \in Nat /\ HandN(pc', op', c, kind) \in Nat
         /\ HandN(pc', op', c, kind) = HandN(pc, op, c, kind)
              + One(pc'[w] = "handle" /\ Is(op'[w], c, kind))
              - One(pc[w] = "handle" /\ Is(op[w], c, kind))
         /\ pc[w] = "handle" /\ Is(op[w], c, kind) => HandN(pc, op, c, kind) > 0
<1> DEFINE A == {v \in Worker : pc[v] = "handle" /\ Is(op[v], c, kind)}
           B == {v \in Worker : pc'[v] = "handle" /\ Is(op'[v], c, kind)}
<1>1. A \in SUBSET Worker /\ B \in SUBSET Worker OBVIOUS
<1>2. \A v \in Worker \ {w} : v \in A <=> v \in B OBVIOUS
<1>3. /\ w \in A <=> pc[w] = "handle" /\ Is(op[w], c, kind)
      /\ w \in B <=> pc'[w] = "handle" /\ Is(op'[w], c, kind)
  OBVIOUS
<1>4. /\ One(w \in A) = One(pc[w] = "handle" /\ Is(op[w], c, kind))
      /\ One(w \in B) = One(pc'[w] = "handle" /\ Is(op'[w], c, kind))
  BY <1>3 DEF One
<1>5. HandN(pc, op, c, kind) = Cardinality(A) /\ HandN(pc', op', c, kind) = Cardinality(B)
  BY DEF HandN
<1> HIDE DEF A, B
<1>6. /\ Cardinality(A) \in Nat /\ Cardinality(B) \in Nat
      /\ Cardinality(B) = Cardinality(A) + One(w \in B) - One(w \in A)
      /\ w \in A => Cardinality(A) > 0
  BY <1>1, <1>2, WorkerSet
<1> QED BY <1>3, <1>4, <1>5, <1>6

LEMMA HandNat ==
  ASSUME NEW p, NEW f, NEW c, NEW kind
  PROVE  /\ HandN(p, f, c, kind) \in Nat
         /\ \A w \in Worker : p[w] = "handle" /\ Is(f[w], c, kind) => HandN(p, f, c, kind) > 0
<1> DEFINE A == {v \in Worker : p[v] = "handle" /\ Is(f[v], c, kind)}
<1>1. A \in SUBSET Worker OBVIOUS
<1>2. IsFiniteSet(A) BY <1>1, Constants, FS_Subset
<1>3. Cardinality(A) \in Nat /\ (Cardinality(A) = 0 <=> A = {})
  BY <1>2, FS_CardinalityType, FS_EmptySet
<1> QED BY <1>3 DEF HandN

LEMMA BusyMoves ==
  ASSUME NEW p, NEW p2, NEW w \in Worker, \A v \in Worker \ {w} : p2[v] = p[v]
  PROVE  /\ BusyN(p) \in Nat /\ BusyN(p2) \in Nat
         /\ BusyN(p2) = BusyN(p) + One(p2[w] \in {"accept", "register"})
                                 - One(p[w] \in {"accept", "register"})
<1> DEFINE A == {v \in Worker : p[v] \in {"accept", "register"}}
           B == {v \in Worker : p2[v] \in {"accept", "register"}}
<1>1. A \in SUBSET Worker /\ B \in SUBSET Worker OBVIOUS
<1>2. \A v \in Worker \ {w} : v \in A <=> v \in B OBVIOUS
<1>3. /\ w \in A <=> p[w] \in {"accept", "register"}
      /\ w \in B <=> p2[w] \in {"accept", "register"}
  OBVIOUS
<1>4. /\ One(w \in A) = One(p[w] \in {"accept", "register"})
      /\ One(w \in B) = One(p2[w] \in {"accept", "register"})
  BY <1>3 DEF One
<1>5. BusyN(p) = Cardinality(A) /\ BusyN(p2) = Cardinality(B) BY DEF BusyN
<1> HIDE DEF A, B
<1>6. /\ Cardinality(A) \in Nat /\ Cardinality(B) \in Nat
      /\ Cardinality(B) = Cardinality(A) + One(w \in B) - One(w \in A)
  BY <1>1, <1>2, WorkerSet
<1> QED BY <1>4, <1>5, <1>6

\* Two workers in AcceptHandler are counted twice.
LEMMA BusyOnes ==
  ASSUME NEW p
  PROVE  /\ BusyN(p) \in Nat
         /\ \A w \in Worker : p[w] \in {"accept", "register"} => BusyN(p) > 0
         /\ BusyN(p) <= 1 =>
              \A v, w \in Worker : p[v] \in {"accept", "register"} /\ p[w] \in {"accept", "register"}
                                   => v = w
<1> DEFINE A == {v \in Worker : p[v] \in {"accept", "register"}}
<1>1. A \in SUBSET Worker OBVIOUS
<1>2. IsFiniteSet(A) BY <1>1, Constants, FS_Subset
<1>3. Cardinality(A) \in Nat /\ (Cardinality(A) = 0 <=> A = {})
  BY <1>2, FS_CardinalityType, FS_EmptySet
<1>4. ASSUME Cardinality(A) <= 1, NEW v \in A, NEW w \in A PROVE v = w
  <2>1. Cardinality(A) = 1 BY <1>3, <1>4
  <2>2. PICK x : A = {x} BY <1>2, <2>1, FS_Singleton
  <2> QED BY <2>2
<1>5. BusyN(p) = Cardinality(A) BY DEF BusyN
<1>6. \A w \in Worker : w \in A <=> p[w] \in {"accept", "register"} OBVIOUS
<1> HIDE DEF A
<1> QED BY <1>3, <1>4, <1>5, <1>6

LEMMA AcceptPending ==
  ASSUME NEW P
  PROVE  Cardinality(P \cap {AcceptEx}) = One(AcceptEx \in P)
<1>1. CASE AcceptEx \in P
  <2>1. P \cap {AcceptEx} = {AcceptEx} BY <1>1
  <2> QED BY <1>1, <2>1, FS_Singleton DEF One
<1>2. CASE AcceptEx \notin P
  <2>1. P \cap {AcceptEx} = {} BY <1>2
  <2> QED BY <1>2, <2>1, FS_EmptySet DEF One
<1> QED BY <1>1, <1>2

LEMMA AcceptParts ==
  AcceptGoesOn <=>
    One(AcceptEx \in pending) + PortAcceptN(port) + BusyN(pc) = IF stopped THEN 0 ELSE 1
<1>1. Cardinality(pending \cap {AcceptEx}) = One(AcceptEx \in pending) BY AcceptPending
<1> QED BY <1>1 DEF AcceptGoesOn, PortAcceptN, BusyN
-----------------------------------------------------------------------------
(***************************************************************************)
(* What the invariant says of the counts.                                  *)
(***************************************************************************)
LEMMA Naturals ==
  ASSUME Types, NEW c, NEW kind
  PROVE  /\ KernelN(pending, c, kind) \in Nat /\ PortN(port, c, kind) \in Nat
         /\ HandN(pc, op, c, kind) \in Nat /\ Outstanding(c, kind) \in Nat
         /\ Outstanding(c, kind) = 0 => \A o \in pending : ~Is(o, c, kind)
         /\ \A w \in Worker : pc[w] = "handle" /\ Is(op[w], c, kind) =>
              Outstanding(c, kind) > 0
         /\ \A w \in Worker : pc[w] = "handle" /\ Is(op[w], c, kind) /\ Outstanding(c, kind) <= 1 =>
              \A o \in pending : ~Is(o, c, kind)
<1>1. /\ KernelN(pending, c, kind) \in Nat
      /\ KernelN(pending, c, kind) = 0 <=> \A o \in pending : ~Is(o, c, kind)
  BY KernelNat DEF Types
<1>2. PortN(port, c, kind) \in Nat BY PortNat DEF Types, PortOp
<1>3. /\ HandN(pc, op, c, kind) \in Nat
      /\ \A w \in Worker : pc[w] = "handle" /\ Is(op[w], c, kind) => HandN(pc, op, c, kind) > 0
  BY HandNat
<1> QED BY <1>1, <1>2, <1>3, Parts

\* There is one AcceptEx or one worker in AcceptHandler, so where one is no other is.
LEMMA OneAccept ==
  ASSUME Types, AcceptGoesOn
  PROVE  /\ \A w \in Worker : pc[w] \in {"accept", "register"} =>
              /\ AcceptEx \notin pending /\ ~stopped
              /\ \A i \in 1 .. Len(port) : port[i].kind # "accept"
              /\ \A v \in Worker \ {w} : pc[v] \notin {"accept", "register"}
         /\ AcceptEx \in pending =>
              /\ ~stopped
              /\ \A i \in 1 .. Len(port) : port[i].kind # "accept"
              /\ \A v \in Worker : pc[v] \notin {"accept", "register"}
<1> DEFINE k == One(AcceptEx \in pending)
           n == PortAcceptN(port)
           b == BusyN(pc)
<1>1. k + n + b = IF stopped THEN 0 ELSE 1 BY AcceptParts
<1>2. /\ n \in Nat
      /\ n = 0 <=> \A i \in 1 .. Len(port) : port[i].kind # "accept"
  BY PortNat DEF Types, PortOp
<1>3. /\ b \in Nat
      /\ \A w \in Worker : pc[w] \in {"accept", "register"} => b > 0
      /\ b <= 1 =>
           \A v, w \in Worker : pc[v] \in {"accept", "register"} /\ pc[w] \in {"accept", "register"}
                                => v = w
  BY BusyOnes
<1>4. k \in Nat /\ (k = 0 <=> AcceptEx \notin pending) BY DEF One
<1> HIDE DEF k, n, b
<1>5. ASSUME NEW w \in Worker, pc[w] \in {"accept", "register"}
      PROVE  /\ AcceptEx \notin pending /\ ~stopped
             /\ \A i \in 1 .. Len(port) : port[i].kind # "accept"
             /\ \A v \in Worker \ {w} : pc[v] \notin {"accept", "register"}
  <2>1. b > 0 BY <1>3, <1>5
  <2>2. ~stopped BY <1>1, <1>2, <1>3, <1>4, <2>1
  <2>3. k = 0 /\ n = 0 /\ b = 1 BY <1>1, <1>2, <1>3, <1>4, <2>1
  <2> QED BY <1>2, <1>3, <1>4, <1>5, <2>2, <2>3
<1>6. ASSUME AcceptEx \in pending
      PROVE  /\ ~stopped
             /\ \A i \in 1 .. Len(port) : port[i].kind # "accept"
             /\ \A v \in Worker : pc[v] \notin {"accept", "register"}
  <2>1. k > 0 BY <1>4, <1>6
  <2>2. ~stopped BY <1>1, <1>2, <1>3, <1>4, <2>1
  <2>3. k = 1 /\ n = 0 /\ b = 0 BY <1>1, <1>2, <1>3, <1>4, <2>1
  <2>4. \A v \in Worker : pc[v] \notin {"accept", "register"} BY <1>3, <2>3
  <2> QED BY <1>2, <2>2, <2>3, <2>4
<1> QED BY <1>5, <1>6

LEMMA AcceptPrime ==
  AcceptGoesOn' <=>
    One(AcceptEx \in pending') + PortAcceptN(port') + BusyN(pc') = IF stopped' THEN 0 ELSE 1
<1>1. Cardinality(pending' \cap {AcceptEx}) = One(AcceptEx \in pending') BY AcceptPending
<1>2. AcceptEx' = AcceptEx OBVIOUS
<1> QED BY <1>1, <1>2 DEF AcceptGoesOn, PortAcceptN, BusyN

LEMMA PartsPrime ==
  \A c, kind : Outstanding(c, kind)' =
    KernelN(pending', c, kind) + PortN(port', c, kind) + HandN(pc', op', c, kind)
BY DEF Outstanding, KernelN, PortN, HandN, Is

\* A session of a connection is not early.
LEMMA SessionLate ==
  ASSUME Types, Stages, NEW s \in Slot, session[s].conn # None
  PROVE  session[s].conn \in Conn /\ ~Early(session[s].conn)
<1>1. session[s].conn \in Conn BY DEF Types, SessionSet
<1> QED BY <1>1 DEF Stages
-----------------------------------------------------------------------------
(***************************************************************************)
(* Steps that move an operation from one place to the next, or change      *)
(* nothing of the sessions.                                                *)
(***************************************************************************)
SameCounts == \A c \in Conn, kind \in Kind : Outstanding(c, kind)' = Outstanding(c, kind)

NoNewRequest == \A m \in Elems(msgs') : m.type = "recv" => m \in Elems(msgs)

Calm ==
  /\ SameCounts /\ NoNewRequest
  /\ session' = session /\ deaf' = deaf
  /\ \A c \in Conn : peer'[c] = "open" => peer[c] = "open" \/ Early(c)
  /\ \A w \in Worker : pc'[w] = "register" <=> pc[w] = "register"
  /\ \A w \in Worker : pc[w] = "register" => op'[w] = op[w]

LEMMA StillQuiet ==
  ASSUME NEW c \in Conn, Quiet(c), NoNewRequest, c \notin deaf',
         \A kind \in Kind : Outstanding(c, kind)' = Outstanding(c, kind)
  PROVE  Quiet(c)'
<1>1. \A kind \in Kind : Outstanding(c, kind)' = 0 BY DEF Quiet
<1>2. \A m \in Elems(msgs') : m.type = "recv" => m.conn # c BY DEF Quiet, NoNewRequest
<1>3. Elems(msgs)' = Elems(msgs') BY DEF Elems
<1> QED BY <1>1, <1>2, <1>3 DEF Quiet

LEMMA CalmKeeps ==
  ASSUME Inv, Calm
  PROVE  /\ OneSession' /\ Registering' /\ Recvs' /\ Sends'
         /\ \A c \in Conn : Quiet(c) => Quiet(c)'
<1>1. \A c \in Conn : Quiet(c) => Quiet(c)'
  BY StillQuiet DEF Calm, SameCounts, Quiet
<1>2. OneSession' BY DEF Inv, OneSession, Calm
<1>3. Registering'
  <2> SUFFICES ASSUME NEW w \in Worker, pc'[w] = "register"
               PROVE  Quiet(op[w].conn)' /\ session'[op'[w].key].conn = op'[w].conn
    BY DEF Registering
  <2>1. pc[w] = "register" /\ op'[w] = op[w] BY DEF Calm
  <2>2. op[w].conn \in Conn /\ Quiet(op[w].conn) /\ session[op[w].key].conn = op[w].conn
    BY <2>1 DEF Inv, InHands, Registering
  <2>3. PICK c \in Conn : c = op[w].conn BY <2>2
  <2>4. Quiet(c)' BY <1>1, <2>2, <2>3
  <2>5. op'[w].conn = c BY <2>1, <2>3
  <2>6. Quiet(op[w].conn)' BY <2>4, <2>5 DEF Quiet
  <2> QED BY <2>1, <2>2, <2>6 DEF Calm
<1>4. ASSUME NEW s \in Slot, session[s].conn # None
      PROVE  /\ session[s].conn \in Conn /\ ~Early(session[s].conn)
             /\ Outstanding(session[s].conn, "recv")' = Outstanding(session[s].conn, "recv")
             /\ Outstanding(session[s].conn, "send")' = Outstanding(session[s].conn, "send")
  <2>1. session[s].conn \in Conn /\ ~Early(session[s].conn) BY <1>4, SessionLate DEF Inv
  <2>2. PICK c \in Conn : c = session[s].conn /\ c = session'[s].conn BY <2>1 DEF Calm
  <2>3. Outstanding(c, "recv")' = Outstanding(c, "recv") /\ Outstanding(c, "send")' = Outstanding(c, "send")
    BY DEF Calm, SameCounts, Kind
  <2>4. Outstanding(session[s].conn, "recv")' = Outstanding(c, "recv")'
    BY <2>2 DEF Outstanding
  <2>5. Outstanding(session[s].conn, "send")' = Outstanding(c, "send")'
    BY <2>2 DEF Outstanding
  <2> QED BY <2>1, <2>2, <2>3, <2>4, <2>5
<1>5. Recvs'
  <2> SUFFICES ASSUME NEW s \in Slot, Registered(s)'
               PROVE  Outstanding(session[s].conn, "recv")' =
                        IF session'[s].conn \in deaf' THEN 0 ELSE 1
    BY DEF Recvs
  <2>1. Registered(s) BY DEF Registered, Calm
  <2>2. session[s].conn # None BY <2>1 DEF Registered
  <2> QED BY <1>4, <2>1, <2>2 DEF Inv, Recvs, Calm
<1>6. Sends'
  <2> SUFFICES ASSUME NEW s \in Slot, session'[s].conn # None
               PROVE  /\ Outstanding(session[s].conn, "send")' <= 1
                      /\ session'[s].data > 0 => session'[s].sending
                      /\ ~session'[s].sending => Outstanding(session[s].conn, "send")' = 0
                      /\ peer'[session'[s].conn] = "open" /\ session'[s].sending =>
                           Outstanding(session[s].conn, "send")' = 1
    BY DEF Sends
  <2>1. session' = session BY DEF Calm
  <2>2. peer'[session[s].conn] = "open" => peer[session[s].conn] = "open"
    BY <1>4, <2>1 DEF Calm
  <2> QED BY <1>4, <2>1, <2>2 DEF Inv, Sends
<1> QED BY <1>1, <1>2, <1>3, <1>5, <1>6

\* Connections that stay where they are keep the stages.
LEMMA StagesKept ==
  ASSUME Inv, backlog' = backlog,
         \A c \in Conn : peer'[c] = "none" <=> peer[c] = "none",
         \A c \in Conn : Arriving(c)' => Arriving(c),
         \A c \in Conn : Early(c) => Quiet(c)' /\ \A s \in Slot : session'[s].conn # c
  PROVE  Stages'
<1>1. \A c \in Elems(backlog) : c \in Conn BY ElemsType DEF Inv, Types
<1>2. Distinct(backlog') /\ Elems(backlog') = Elems(backlog) BY DEF Inv, Stages
<1>3. \A c \in Elems(backlog') : peer'[c] # "none" BY <1>1, <1>2 DEF Inv, Stages
<1>4. \A c \in Conn : Early(c)' => Early(c) BY <1>2 DEF Early, Elems
<1>5. \A c \in Conn : Arriving(c)' => peer'[c] # "none" /\ c \notin Elems(backlog')
  BY <1>2 DEF Inv, Stages
<1>6. \A c \in Conn : Early(c)' => Quiet(c)' /\ \A s \in Slot : session'[s].conn # c
  BY <1>4
<1> QED BY <1>2, <1>3, <1>5, <1>6 DEF Stages, Distinct, Elems

\* A step that leaves the operations alone.
LEMMA SameOperations ==
  ASSUME Inv, UNCHANGED <<pending, port, pc, op, stopped>>
  PROVE  /\ SameCounts /\ InHands' /\ AcceptGoesOn'
         /\ \A c \in Conn : Arriving(c)' <=> Arriving(c)
<1>1. SameCounts BY DEF SameCounts, Outstanding
<1>2. InHands' BY DEF Inv, InHands
<1>3. AcceptGoesOn' BY DEF Inv, AcceptGoesOn
<1>4. \A c \in Conn : Arriving(c)' <=> Arriving(c) BY DEF Arriving
<1> QED BY <1>1, <1>2, <1>3, <1>4

LEMMA SameMsgs ==
  ASSUME msgs' = msgs PROVE NoNewRequest
BY DEF NoNewRequest

LEMMA PeerConnectKeeps ==
  ASSUME Inv, NEW c \in Conn, PeerConnect(c)
  PROVE  Inv'
<1> USE DEF PeerConnect
<1>1. SameCounts /\ InHands' /\ AcceptGoesOn' /\ \A d \in Conn : Arriving(d)' <=> Arriving(d)
  BY SameOperations
<1>2. backlog \in Seq(Conn) /\ c \notin Elems(backlog) /\ Distinct(backlog)
  BY DEF Inv, Types, Stages
<1>3. /\ backlog' \in Seq(Conn) /\ Elems(backlog') = Elems(backlog) \cup {c}
      /\ Distinct(backlog')
  BY <1>2, AppendElems
<1>4. peer' \in [Conn -> {"none", "open", "closed"}] /\ peer'[c] = "open"
      /\ \A d \in Conn \ {c} : peer'[d] = peer[d]
  BY DEF Inv, Types
<1>5. Types' BY <1>3, <1>4 DEF Inv, Types
<1>6. Early(c) BY DEF Early
<1>7. Calm BY <1>1, <1>4, <1>6, SameMsgs DEF Calm
<1>8. /\ OneSession' /\ Registering' /\ Recvs' /\ Sends'
      /\ \A d \in Conn : Quiet(d) => Quiet(d)'
  BY <1>7, CalmKeeps
<1>9. Stages'
  <2>1. \A d \in Conn : Early(d)' => Early(d) BY <1>1, <1>3, <1>4, <1>6 DEF Early, Elems
  <2>2. \A d \in Conn : Early(d)' => Quiet(d)' /\ \A s \in Slot : session'[s].conn # d
    BY <1>8, <2>1 DEF Inv, Stages
  <2>3. Elems(backlog) \subseteq Conn BY <1>2, ElemsType
  <2>4. \A d \in Elems(backlog') : peer'[d] # "none"
    BY <1>3, <1>4, <2>3 DEF Inv, Stages
  <2>5. \A d \in Conn : Arriving(d)' => peer'[d] # "none" /\ d \notin Elems(backlog')
    BY <1>1, <1>3, <1>4 DEF Inv, Stages
  <2> QED BY <1>3, <2>2, <2>4, <2>5 DEF Stages, Distinct, Elems
<1> QED BY <1>1, <1>5, <1>8, <1>9 DEF Inv

\* A peer that sends or closes, a notification, a stale Session*.
LEMMA OthersKeep ==
  ASSUME Inv, UNCHANGED <<pending, port, pc, op, stopped, backlog, session, deaf>>,
         peer' \in [Conn -> {"none", "open", "closed"}], unread' \in [Conn -> Nat],
         \A c \in Conn : (peer'[c] = "none" <=> peer[c] = "none")
                         /\ (peer'[c] = "open" => peer[c] = "open"),
         msgs' \in Seq(MsgSet), NoNewRequest
  PROVE  Inv'
<1>1. SameCounts /\ InHands' /\ AcceptGoesOn' /\ \A d \in Conn : Arriving(d)' <=> Arriving(d)
  BY SameOperations
<1>2. Types' BY DEF Inv, Types
<1>3. Calm BY <1>1 DEF Calm
<1>4. /\ OneSession' /\ Registering' /\ Recvs' /\ Sends'
      /\ \A d \in Conn : Quiet(d) => Quiet(d)'
  BY <1>3, CalmKeeps
<1>5. Stages' BY <1>1, <1>4, StagesKept DEF Inv, Stages
<1> QED BY <1>1, <1>2, <1>4, <1>5 DEF Inv

LEMMA PeerSendKeeps ==
  ASSUME Inv, NEW c \in Conn, PeerSend(c)
  PROVE  Inv'
<1>1. unread' \in [Conn -> Nat] BY DEF Inv, Types, PeerSend
<1> QED BY <1>1, OthersKeep, SameMsgs DEF PeerSend, Inv, Types

LEMMA PeerCloseKeeps ==
  ASSUME Inv, NEW c \in Conn, PeerClose(c)
  PROVE  Inv'
<1>1. /\ peer' \in [Conn -> {"none", "open", "closed"}] /\ peer'[c] = "closed"
      /\ \A d \in Conn \ {c} : peer'[d] = peer[d]
  BY DEF Inv, Types, PeerClose
<1> QED BY <1>1, OthersKeep, SameMsgs DEF PeerClose, Inv, Types, kernel

LEMMA StaleKeeps ==
  ASSUME Inv, NEW w \in Worker, Stale(w)
  PROVE  Inv'
BY OthersKeep, SameMsgs DEF Stale, Inv, Types, kernel

LEMMA MsgsTail ==
  ASSUME Types, msgs # << >>
  PROVE  /\ Tail(msgs) \in Seq(MsgSet) /\ Head(msgs) \in Elems(msgs) /\ Head(msgs) \in MsgSet
         /\ Elems(Tail(msgs)) \subseteq Elems(msgs)
<1>1. msgs \in Seq(MsgSet) /\ Len(msgs) \in Nat \ {0} BY EmptySeq DEF Types
<1>2. /\ Tail(msgs) \in Seq(MsgSet) /\ Len(Tail(msgs)) = Len(msgs) - 1
      /\ \A i \in 1 .. Len(Tail(msgs)) : Tail(msgs)[i] = msgs[i + 1]
  BY <1>1, HeadTailProperties
<1>3. \A i \in 1 .. Len(msgs) - 1 : i + 1 \in 1 .. Len(msgs) BY <1>1
<1>4. Elems(Tail(msgs)) \subseteq Elems(msgs) BY <1>2, <1>3 DEF Elems
<1>5. Head(msgs) = msgs[1] /\ 1 \in 1 .. Len(msgs) BY <1>1
<1>6. Head(msgs) \in Elems(msgs) BY <1>5 DEF Elems
<1>7. Head(msgs) \in MsgSet BY <1>1, <1>5, ElementOfSeq
<1> QED BY <1>2, <1>4, <1>6, <1>7

LEMMA NotifiedKeeps ==
  ASSUME Inv, Notified
  PROVE  Inv'
<1>1. msgs' \in Seq(MsgSet) /\ NoNewRequest
  BY MsgsTail DEF Notified, NoNewRequest, Inv
<1> QED BY <1>1, OthersKeep DEF Notified, Inv, Types, kernel
-----------------------------------------------------------------------------
\* The counts when the kernel finishes o.
LEMMA FinishCounts ==
  ASSUME Types, NEW o \in pending, NEW x \in PortOp, Finish(o, x), UNCHANGED <<pc, op>>,
         NEW c, NEW kind, Is(o, c, kind) <=> Is(x, c, kind)
  PROVE  Outstanding(c, kind)' = Outstanding(c, kind)
<1>1. pending' = pending \ {o} /\ port' = Append(port, x) BY DEF Finish
<1>2. KernelN(pending', c, kind) = KernelN(pending, c, kind) - One(Is(o, c, kind))
  BY <1>1, KernelDrop DEF Types
<1>3. PortN(port', c, kind) = PortN(port, c, kind) + One(Is(x, c, kind))
  <2>1. port \in Seq(PortOp) BY DEF Types, PortOp
  <2> QED BY <1>1, <2>1, PortPush
<1>4. One(Is(x, c, kind)) = One(Is(o, c, kind)) /\ One(Is(x, c, kind)) \in Nat
  BY DEF One
<1>5. /\ KernelN(pending, c, kind) \in Nat /\ PortN(port, c, kind) \in Nat
      /\ HandN(pc, op, c, kind) \in Nat
  BY Naturals
<1>6. HandN(pc', op', c, kind) = HandN(pc, op, c, kind) BY DEF HandN
<1> QED BY <1>2, <1>3, <1>4, <1>5, <1>6, Parts, PartsPrime

LEMMA FinishTypes ==
  ASSUME Types, NEW o, NEW x \in PortOp, Finish(o, x)
  PROVE  /\ pending' \subseteq IoOp \cup {AcceptEx} /\ IsFiniteSet(pending')
         /\ port' \in Seq(PortOp)
         /\ Elems(port') = Elems(port) \cup {x}
<1>1. pending' = pending \ {o} /\ port' = Append(port, x) BY DEF Finish
<1>2. port \in Seq(PortOp) BY DEF Types, PortOp
<1>3. port' \in Seq(PortOp) /\ Elems(port') = Elems(port) \cup {x} BY <1>1, <1>2, AppendElems
<1>4. pending' \in SUBSET pending BY <1>1
<1>5. IsFiniteSet(pending') BY <1>4, FS_Subset DEF Types
<1> QED BY <1>3, <1>4, <1>5 DEF Types

LEMMA ArrivingElems ==
  \A c : /\ Arriving(c) <=> \/ \E x \in Elems(port) : x.kind = "accept" /\ x.conn = c
                            \/ \E w \in Worker : pc[w] = "accept" /\ op[w].conn = c
         /\ Arriving(c)' <=> \/ \E x \in Elems(port') : x.kind = "accept" /\ x.conn = c
                             \/ \E w \in Worker : pc'[w] = "accept" /\ op'[w].conn = c
BY DEF Arriving, Elems

\* A WSARecv or WSASend completes.
LEMMA CompleteKeeps ==
  ASSUME Inv, NEW o \in pending, o \in IoOp, NEW x \in IoOp, x.conn = o.conn, x.kind = o.kind,
         Finish(o, x), unread' \in [Conn -> Nat],
         UNCHANGED <<peer, backlog, session, msgs, pc, op, stopped, deaf>>
  PROVE  Inv'
<1>1. x \in PortOp /\ x \notin AcceptOp BY DEF PortOp, IoOp, AcceptOp, Kind
<1>2. SameCounts BY <1>1, FinishCounts DEF SameCounts, Is, Inv
<1>3. /\ pending' \subseteq IoOp \cup {AcceptEx} /\ IsFiniteSet(pending')
      /\ port' \in Seq(PortOp) /\ Elems(port') = Elems(port) \cup {x}
  BY <1>1, FinishTypes DEF Inv
<1>4. Types' BY <1>3 DEF Inv, Types, PortOp
<1>5. InHands' BY DEF Inv, InHands
<1>6. AcceptGoesOn'
  <2>1. AcceptEx \in pending' <=> AcceptEx \in pending
    BY AcceptExIs DEF Finish, IoOp, Kind
  <2>2. PortAcceptN(port') = PortAcceptN(port) + One(x \in AcceptOp)
    BY <1>1, PortPush DEF Finish, Inv, Types, PortOp
  <2>3. One(x \in AcceptOp) = 0 /\ One(AcceptEx \in pending') = One(AcceptEx \in pending)
    BY <1>1, <2>1 DEF One
  <2>4. PortAcceptN(port) \in Nat BY PortNat DEF Inv, Types, PortOp
  <2> QED BY <2>2, <2>3, <2>4, AcceptParts, AcceptPrime DEF Inv
<1>7. Calm BY <1>2, SameMsgs DEF Calm
<1>8. /\ OneSession' /\ Registering' /\ Recvs' /\ Sends'
      /\ \A d \in Conn : Quiet(d) => Quiet(d)'
  BY <1>7, CalmKeeps
<1>9. x.kind # "accept" BY DEF IoOp, Kind
<1>10. \A c \in Conn : Arriving(c)' => Arriving(c) BY <1>3, <1>9, ArrivingElems
<1>11. Stages' BY <1>8, <1>10, StagesKept DEF Inv, Stages
<1> QED BY <1>4, <1>5, <1>6, <1>8, <1>11 DEF Inv

LEMMA KernelRecvKeeps ==
  ASSUME Inv, NEW o \in pending, KernelRecv(o)
  PROVE  Inv'
<1> DEFINE x == [o EXCEPT !.bytes = unread[o.conn]]
<1>1. o \in IoOp BY AcceptExIs DEF KernelRecv, Inv, Types
<1>2. o.conn \in Conn /\ unread[o.conn] \in Nat BY <1>1 DEF IoOp, Inv, Types
<1>3. x \in IoOp /\ x.conn = o.conn /\ x.kind = o.kind BY <1>1, <1>2 DEF IoOp, Op
<1>4. unread' \in [Conn -> Nat] BY DEF KernelRecv, Inv, Types
<1>5. Finish(o, x) BY DEF KernelRecv
<1> HIDE DEF x
<1> QED BY <1>1, <1>3, <1>4, <1>5, CompleteKeeps DEF KernelRecv

LEMMA KernelSendKeeps ==
  ASSUME Inv, NEW o \in pending, KernelSend(o)
  PROVE  Inv'
<1>1. o \in IoOp BY AcceptExIs DEF KernelSend, Inv, Types
<1>2. o.bytes \in Nat BY <1>1 DEF IoOp, Op
<1>3. PICK x \in IoOp : x.conn = o.conn /\ x.kind = o.kind /\ Finish(o, x)
  <2>1. CASE \E n \in 1 .. o.bytes : Finish(o, [o EXCEPT !.bytes = n])
    <3>1. PICK n \in 1 .. o.bytes : Finish(o, [o EXCEPT !.bytes = n]) BY <2>1
    <3>2. n \in Nat BY <1>2
    <3>3. [o EXCEPT !.bytes = n] \in IoOp BY <1>1, <3>2 DEF IoOp, Op
    <3> QED BY <1>1, <3>1, <3>3 DEF IoOp, Op
  <2>2. CASE Finish(o, [o EXCEPT !.bytes = 0, !.ok = FALSE])
    <3>1. [o EXCEPT !.bytes = 0, !.ok = FALSE] \in IoOp BY <1>1 DEF IoOp, Op
    <3> QED BY <1>1, <2>2, <3>1 DEF IoOp, Op
  <2> QED BY <2>1, <2>2 DEF KernelSend
<1>4. unread' \in [Conn -> Nat] BY DEF KernelSend, Inv, Types
<1> QED BY <1>1, <1>3, <1>4, CompleteKeeps DEF KernelSend

LEMMA KernelAcceptKeeps ==
  ASSUME Inv, KernelAccept
  PROVE  Inv'
<1>1. backlog \in Seq(Conn) /\ Distinct(backlog) /\ backlog # << >>
  BY DEF Inv, Types, Stages, KernelAccept
<1>2. /\ backlog' \in Seq(Conn) /\ Head(backlog) \in Elems(backlog)
      /\ Elems(backlog') = Elems(backlog) \ {Head(backlog)} /\ Distinct(backlog')
  BY <1>1, TailElems DEF KernelAccept
<1>3. PICK h \in Conn : h = Head(backlog) BY <1>1, <1>2, ElemsType
<1>4. PICK x \in AcceptOp : x.conn = h /\ Finish(AcceptEx, x)
  <2>1. PICK good \in BOOLEAN :
          Finish(AcceptEx, [AcceptEx EXCEPT !.conn = h, !.ok = good])
    BY <1>3 DEF KernelAccept
  <2>2. [AcceptEx EXCEPT !.conn = h, !.ok = good] \in AcceptOp
    BY DEF AcceptEx, Operation, AcceptOp, Op, None
  <2>3. [AcceptEx EXCEPT !.conn = h, !.ok = good].conn = h BY DEF AcceptEx, Operation
  <2> QED BY <2>1, <2>2, <2>3
<1>5. AcceptEx \in pending /\ x \in PortOp /\ x.kind = "accept"
  BY <1>4 DEF Finish, PortOp, AcceptOp
<1>6. UNCHANGED <<peer, unread, session, msgs, pc, op, stopped, deaf>> BY DEF KernelAccept
<1>7. SameCounts
  <2>1. \A kind \in Kind : kind # "accept" BY DEF Kind
  <2>2. \A c \in Conn, kind \in Kind : ~Is(AcceptEx, c, kind) /\ ~Is(x, c, kind)
    BY <1>5, <2>1, AcceptExIs DEF Is
  <2> QED BY <1>4, <1>5, <1>6, <2>2, FinishCounts DEF SameCounts, Inv
<1>8. /\ pending' \subseteq IoOp \cup {AcceptEx} /\ IsFiniteSet(pending')
      /\ port' \in Seq(PortOp) /\ Elems(port') = Elems(port) \cup {x}
  BY <1>4, <1>5, FinishTypes DEF Inv
<1>9. Types' BY <1>2, <1>6, <1>8 DEF Inv, Types, PortOp
<1>10. InHands' BY <1>6 DEF Inv, InHands
<1>11. AcceptGoesOn'
  <2>1. AcceptEx \notin pending' BY <1>4 DEF Finish
  <2>2. port \in Seq(PortOp) BY DEF Inv, Types, PortOp
  <2>3. PortAcceptN(port') = PortAcceptN(port) + One(x \in AcceptOp)
    BY <1>4, <1>5, <2>2, PortPush DEF Finish
  <2>4. One(x \in AcceptOp) = 1 /\ One(AcceptEx \in pending') = 0 /\ One(AcceptEx \in pending) = 1
    BY <1>4, <1>5, <2>1 DEF One
  <2>5. PortAcceptN(port) \in Nat BY <2>2, PortNat
  <2> QED BY <1>6, <2>3, <2>4, <2>5, AcceptParts, AcceptPrime DEF Inv
<1>12. Calm BY <1>6, <1>7, SameMsgs DEF Calm
<1>13. /\ OneSession' /\ Registering' /\ Recvs' /\ Sends'
       /\ \A d \in Conn : Quiet(d) => Quiet(d)'
  BY <1>12, CalmKeeps
<1>14. \A c \in Conn : Arriving(c)' => Arriving(c) \/ c = h
  BY <1>4, <1>6, <1>8, ArrivingElems
<1>15. Stages'
  <2>1. \A d \in Conn : Early(d)' => Early(d)
    BY <1>2, <1>3, <1>6, <1>14 DEF Early, Elems
  <2>2. \A d \in Conn : Early(d)' => Quiet(d)' /\ \A s \in Slot : session'[s].conn # d
    BY <1>6, <1>13, <2>1 DEF Inv, Stages
  <2>3. \A d \in Elems(backlog') : peer'[d] # "none" BY <1>2, <1>6 DEF Inv, Stages
  <2>4. \A d \in Conn : Arriving(d)' => peer'[d] # "none" /\ d \notin Elems(backlog')
    BY <1>2, <1>3, <1>6, <1>14 DEF Inv, Stages
  <2> QED BY <1>2, <2>2, <2>3, <2>4 DEF Stages, Distinct, Elems
<1> QED BY <1>9, <1>10, <1>11, <1>13, <1>15 DEF Inv

\* A worker takes a completion from the port.
LEMMA GetKeeps ==
  ASSUME Inv, NEW w \in Worker, GetQueuedCompletionStatus(w)
  PROVE  Inv'
<1> DEFINE h == Head(port)
<1>1. port \in Seq(PortOp) /\ port # << >> BY DEF Inv, Types, PortOp, GetQueuedCompletionStatus
<1>2. /\ port' = Tail(port) /\ pc[w] = "idle"
      /\ UNCHANGED <<peer, unread, backlog, pending, session, msgs, stopped, deaf>>
  BY DEF GetQueuedCompletionStatus
<1>3. h \in PortOp /\ port' \in Seq(PortOp) BY <1>1, <1>2, HeadTailProperties
<1>4. h \in Op /\ (h.key = None <=> h \in AcceptOp) /\ (h.key # None => h \in IoOp)
  BY <1>3, NoneOutside DEF PortOp, IoOp, AcceptOp, Kind
<1>5. /\ pc' \in [Worker -> Label] /\ op' \in [Worker -> Op]
      /\ op'[w] = h /\ pc'[w] = IF h.key = None THEN "accept" ELSE "handle"
      /\ \A v \in Worker \ {w} : pc'[v] = pc[v] /\ op'[v] = op[v]
  BY <1>4 DEF Inv, Types, GetQueuedCompletionStatus, Goto, Label
<1>6. Types' BY <1>2, <1>3, <1>5 DEF Inv, Types, PortOp
<1>7. InHands' BY <1>4, <1>5 DEF Inv, InHands
<1> HIDE DEF h
<1>8. SameCounts
  <2> SUFFICES ASSUME NEW c \in Conn, NEW kind \in Kind
               PROVE  Outstanding(c, kind)' = Outstanding(c, kind)
    BY DEF SameCounts
  <2>1. PortN(port', c, kind) = PortN(port, c, kind) - One(Is(h, c, kind))
    BY <1>1, <1>2, PortPop DEF h
  <2>2. HandN(pc', op', c, kind) = HandN(pc, op, c, kind)
              + One(pc'[w] = "handle" /\ Is(op'[w], c, kind))
              - One(pc[w] = "handle" /\ Is(op[w], c, kind))
    BY <1>5, HandStep
  <2>3. One(pc[w] = "handle" /\ Is(op[w], c, kind)) = 0 BY <1>2 DEF One
  <2>4. Is(h, c, kind) => h.key # None BY <1>4 DEF Is, AcceptOp, Kind
  <2>5. One(pc'[w] = "handle" /\ Is(op'[w], c, kind)) = One(Is(h, c, kind))
    BY <1>5, <2>4 DEF One
  <2>6. One(Is(h, c, kind)) \in Nat BY DEF One
  <2>7. /\ KernelN(pending, c, kind) \in Nat /\ PortN(port, c, kind) \in Nat
        /\ HandN(pc, op, c, kind) \in Nat
    BY Naturals DEF Inv
  <2>8. KernelN(pending', c, kind) = KernelN(pending, c, kind) BY <1>2
  <2> QED BY <2>1, <2>2, <2>3, <2>5, <2>6, <2>7, <2>8, Parts, PartsPrime
<1>9. AcceptGoesOn'
  <2>1. PortAcceptN(port') = PortAcceptN(port) - One(h \in AcceptOp)
    BY <1>1, <1>2, PortPop DEF h
  <2>2. BusyN(pc') = BusyN(pc) + One(pc'[w] \in {"accept", "register"})
                               - One(pc[w] \in {"accept", "register"})
        /\ BusyN(pc) \in Nat
    BY <1>5, BusyMoves
  <2>3. One(pc[w] \in {"accept", "register"}) = 0 BY <1>2 DEF One
  <2>4. One(pc'[w] \in {"accept", "register"}) = One(h \in AcceptOp)
    BY <1>4, <1>5 DEF One
  <2>5. PortAcceptN(port) \in Nat BY <1>1, PortNat
  <2>6. One(h \in AcceptOp) \in Nat /\ One(AcceptEx \in pending') = One(AcceptEx \in pending)
        /\ One(AcceptEx \in pending) \in Nat
    BY <1>2 DEF One
  <2> QED BY <1>2, <2>1, <2>2, <2>3, <2>4, <2>5, <2>6, AcceptParts, AcceptPrime DEF Inv
<1>10. Calm BY <1>2, <1>5, <1>8, SameMsgs DEF Calm
<1>11. /\ OneSession' /\ Registering' /\ Recvs' /\ Sends'
       /\ \A d \in Conn : Quiet(d) => Quiet(d)'
  BY <1>10, CalmKeeps
<1>12. \A c \in Conn : Arriving(c)' => Arriving(c)
  <2>1. /\ Len(port) \in Nat \ {0} /\ Len(port') = Len(port) - 1
        /\ \A i \in 1 .. Len(port') : port'[i] = port[i + 1]
    BY <1>1, <1>2, HeadTailProperties, EmptySeq
  <2>2. \A i \in 1 .. Len(port') : i + 1 \in 1 .. Len(port) BY <2>1
  <2>3. Elems(port') \subseteq Elems(port) BY <2>1, <2>2 DEF Elems
  <2>4. h = port[1] /\ 1 \in 1 .. Len(port) BY <1>1, <2>1 DEF h
  <2>5. h \in Elems(port) BY <2>4 DEF Elems
  <2>6. pc'[w] = "accept" => h.kind = "accept" BY <1>4, <1>5 DEF AcceptOp
  <2> QED BY <1>5, <2>3, <2>5, <2>6, ArrivingElems
<1>13. Stages' BY <1>2, <1>11, <1>12, StagesKept DEF Inv, Stages
<1> QED BY <1>6, <1>7, <1>9, <1>11, <1>13 DEF Inv

\* AcceptHandler returns early.
LEMMA AcceptFailsKeeps ==
  ASSUME Inv, NEW w \in Worker, AcceptFails(w)
  PROVE  Inv'
<1>1. /\ UNCHANGED <<peer, unread, backlog, pending, port, session, msgs, op, deaf>>
      /\ pc[w] = "accept" /\ stopped'
  BY DEF AcceptFails, kernel
<1>2. /\ pc' \in [Worker -> Label] /\ pc'[w] = "idle"
      /\ \A v \in Worker \ {w} : pc'[v] = pc[v]
  BY DEF Inv, Types, AcceptFails, Goto, Label
<1>3. Types' BY <1>1, <1>2 DEF Inv, Types, AcceptFails
<1>4. InHands' BY <1>1, <1>2 DEF Inv, InHands
<1>5. SameCounts
  <2> SUFFICES ASSUME NEW c \in Conn, NEW kind \in Kind
               PROVE  Outstanding(c, kind)' = Outstanding(c, kind)
    BY DEF SameCounts
  <2>1. /\ HandN(pc', op', c, kind) = HandN(pc, op, c, kind)
              + One(pc'[w] = "handle" /\ Is(op'[w], c, kind))
              - One(pc[w] = "handle" /\ Is(op[w], c, kind))
        /\ HandN(pc, op, c, kind) \in Nat
    BY <1>1, <1>2, HandStep
  <2>2. One(pc[w] = "handle" /\ Is(op[w], c, kind)) = 0
        /\ One(pc'[w] = "handle" /\ Is(op'[w], c, kind)) = 0
    BY <1>1, <1>2 DEF One
  <2> QED BY <1>1, <2>1, <2>2, Parts, PartsPrime
<1>6. AcceptGoesOn'
  <2>1. BusyN(pc') = BusyN(pc) + One(pc'[w] \in {"accept", "register"})
                               - One(pc[w] \in {"accept", "register"})
        /\ BusyN(pc) \in Nat
    BY <1>2, BusyMoves
  <2>2. One(pc[w] \in {"accept", "register"}) = 1 /\ One(pc'[w] \in {"accept", "register"}) = 0
    BY <1>1, <1>2 DEF One
  <2>3. ~stopped BY <1>1, OneAccept DEF Inv
  <2>4. PortAcceptN(port) \in Nat BY PortNat DEF Inv, Types, PortOp
  <2>5. One(AcceptEx \in pending) \in Nat BY DEF One
  <2> QED BY <1>1, <2>1, <2>2, <2>3, <2>4, <2>5, AcceptParts, AcceptPrime DEF Inv
<1>7. Calm BY <1>1, <1>2, <1>5, SameMsgs DEF Calm
<1>8. /\ OneSession' /\ Registering' /\ Recvs' /\ Sends'
      /\ \A d \in Conn : Quiet(d) => Quiet(d)'
  BY <1>7, CalmKeeps
<1>9. \A c \in Conn : Arriving(c)' => Arriving(c)
  BY <1>1, <1>2, ArrivingElems
<1>10. Stages' BY <1>1, <1>8, <1>9, StagesKept DEF Inv, Stages
<1> QED BY <1>3, <1>4, <1>6, <1>8, <1>10 DEF Inv
-----------------------------------------------------------------------------
(***************************************************************************)
(* Steps on one session s0, of the connection c0.                          *)
(***************************************************************************)
RecvOf(s, c) ==
  Registered(s) => Outstanding(c, "recv") = IF c \in deaf THEN 0 ELSE 1

SendOf(s, c) ==
  /\ Outstanding(c, "send") <= 1
  /\ session[s].data > 0 => session[s].sending
  /\ ~session[s].sending => Outstanding(c, "send") = 0
  /\ peer[c] = "open" /\ session[s].sending => Outstanding(c, "send") = 1

OnlyOn(s0, c0) ==
  /\ \A c \in Conn \ {c0}, kind \in Kind : Outstanding(c, kind)' = Outstanding(c, kind)
  /\ \A m \in Elems(msgs') : m.type = "recv" => m \in Elems(msgs) \/ m.conn = c0
  /\ \A c \in Conn \ {c0} : c \in deaf' <=> c \in deaf
  /\ \A s \in Slot \ {s0} : session'[s] = session[s]
  /\ session'[s0].conn \in {c0, None}
  /\ peer' = peer /\ backlog' = backlog
  /\ \A c \in Conn : Arriving(c)' => Arriving(c)
  /\ \A w \in Worker : pc'[w] = "register" =>
       pc[w] = "register" /\ op'[w] = op[w] /\ op[w].conn # c0
  /\ \A w \in Worker : pc[w] = "register" =>
       \/ pc'[w] = "register" /\ op'[w] = op[w]
       \/ op[w].key = s0

LEMMA OnlyOnKeeps ==
  ASSUME Inv, NEW s0 \in Slot, NEW c0 \in Conn, session[s0].conn = c0, OnlyOn(s0, c0),
         session'[s0].conn = c0 => RecvOf(s0, c0)' /\ SendOf(s0, c0)'
  PROVE  Stages' /\ OneSession' /\ Registering' /\ Recvs' /\ Sends'
<1>1. ~Early(c0) BY DEF Inv, Stages
<1>2. \A c \in Conn \ {c0} : Quiet(c) => Quiet(c)'
  <2> SUFFICES ASSUME NEW c \in Conn \ {c0}, Quiet(c) PROVE Quiet(c)' OBVIOUS
  <2>1. c \notin deaf' BY DEF OnlyOn, Quiet
  <2>2. \A kind \in Kind : Outstanding(c, kind)' = 0 BY DEF OnlyOn, Quiet
  <2>3. \A m \in Elems(msgs') : m.type = "recv" => m.conn # c BY DEF OnlyOn, Quiet
  <2> QED BY <2>1, <2>2, <2>3 DEF Quiet, Elems
<1>3. \A s \in Slot : session'[s].conn = session[s].conn \/ session'[s].conn = None
  BY DEF OnlyOn
<1>4. Stages'
  <2>1. \A c \in Conn : Early(c) => Quiet(c)' /\ \A s \in Slot : session'[s].conn # c
    BY <1>1, <1>2, <1>3, NoneOutside DEF Inv, Stages
  <2> QED BY <2>1, StagesKept DEF OnlyOn
<1>5. OneSession' BY <1>3 DEF Inv, OneSession
<1>6. ASSUME NEW s \in Slot \ {s0}, session'[s].conn # None
      PROVE  /\ session'[s] = session[s] /\ session[s].conn \in Conn \ {c0}
             /\ Outstanding(session[s].conn, "recv")' = Outstanding(session[s].conn, "recv")
             /\ Outstanding(session[s].conn, "send")' = Outstanding(session[s].conn, "send")
  <2>1. session'[s] = session[s] BY DEF OnlyOn
  <2>2. session[s].conn \in Conn BY <1>6, <2>1, SessionLate DEF Inv
  <2>3. session[s].conn # c0 BY <1>6, <2>1 DEF Inv, OneSession
  <2>4. PICK c \in Conn \ {c0} : c = session[s].conn /\ c = session'[s].conn BY <2>1, <2>2, <2>3
  <2>5. Outstanding(c, "recv")' = Outstanding(c, "recv") /\ Outstanding(c, "send")' = Outstanding(c, "send")
    BY DEF OnlyOn, Kind
  <2>6. Outstanding(session[s].conn, "recv")' = Outstanding(c, "recv")'
    BY <2>4 DEF Outstanding
  <2>7. Outstanding(session[s].conn, "send")' = Outstanding(c, "send")'
    BY <2>4 DEF Outstanding
  <2> QED BY <2>1, <2>2, <2>3, <2>4, <2>5, <2>6, <2>7
<1>7. Registering'
  <2> SUFFICES ASSUME NEW w \in Worker, pc'[w] = "register"
               PROVE  Quiet(op[w].conn)' /\ session'[op'[w].key].conn = op'[w].conn
    BY DEF Registering
  <2>1. pc[w] = "register" /\ op'[w] = op[w] /\ op[w].conn # c0 BY DEF OnlyOn
  <2>2. /\ op[w].conn \in Conn /\ Quiet(op[w].conn) /\ op[w].key \in Slot
        /\ session[op[w].key].conn = op[w].conn
    BY <2>1 DEF Inv, InHands, Registering
  <2>3. PICK c \in Conn \ {c0} : c = op[w].conn BY <2>1, <2>2
  <2>4. Quiet(c)' BY <1>2, <2>2, <2>3
  <2>5. op'[w].conn = c BY <2>1, <2>3
  <2>6. Quiet(op[w].conn)' BY <2>4, <2>5 DEF Quiet
  <2>7. op[w].key # s0 BY <2>1, <2>2
  <2> QED BY <2>1, <2>2, <2>6, <2>7 DEF OnlyOn
<1>8. Recvs'
  <2> SUFFICES ASSUME NEW s \in Slot, Registered(s)'
               PROVE  Outstanding(session[s].conn, "recv")' =
                        IF session'[s].conn \in deaf' THEN 0 ELSE 1
    BY DEF Recvs
  <2>1. session'[s].conn # None BY DEF Registered
  <2>2. CASE s # s0
    <3>1. /\ session'[s] = session[s] /\ session[s].conn \in Conn \ {c0}
          /\ Outstanding(session[s].conn, "recv")' = Outstanding(session[s].conn, "recv")
      BY <1>6, <2>1, <2>2
    <3>2. Registered(s)
      <4>1. \A w \in Worker : pc'[w] = "register" => op'[w].key # s BY DEF Registered
      <4>2. \A w \in Worker : pc[w] = "register" => op[w].key # s BY <2>2, <4>1 DEF OnlyOn
      <4> QED BY <2>1, <3>1, <4>2 DEF Registered
    <3>3. session[s].conn \in deaf' <=> session[s].conn \in deaf BY <3>1 DEF OnlyOn
    <3> QED BY <3>1, <3>2, <3>3 DEF Inv, Recvs
  <2>3. CASE s = s0
    <3>1. session'[s0].conn = c0 BY <2>1, <2>3 DEF OnlyOn
    <3>2. Outstanding(c0, "recv")' = IF c0 \in deaf' THEN 0 ELSE 1 BY <2>3, <3>1 DEF RecvOf
    <3>3. Outstanding(session[s].conn, "recv")' = Outstanding(c0, "recv")'
      BY <2>3, <3>1 DEF Outstanding
    <3> QED BY <2>3, <3>1, <3>2, <3>3
  <2> QED BY <2>2, <2>3
<1>9. Sends'
  <2> SUFFICES ASSUME NEW s \in Slot, session'[s].conn # None
               PROVE  /\ Outstanding(session[s].conn, "send")' <= 1
                      /\ session'[s].data > 0 => session'[s].sending
                      /\ ~session'[s].sending => Outstanding(session[s].conn, "send")' = 0
                      /\ peer'[session'[s].conn] = "open" /\ session'[s].sending =>
                           Outstanding(session[s].conn, "send")' = 1
    BY DEF Sends
  <2>1. CASE s # s0
    <3>1. peer' = peer BY DEF OnlyOn
    <3> QED BY <1>6, <2>1, <3>1 DEF Inv, Sends
  <2>2. CASE s = s0
    <3>1. session'[s0].conn = c0 BY <2>2 DEF OnlyOn
    <3>2. Outstanding(session[s].conn, "send")' = Outstanding(c0, "send")'
      BY <2>2, <3>1 DEF Outstanding
    <3> QED BY <2>2, <3>1, <3>2 DEF SendOf
  <2> QED BY <2>1, <2>2
<1> QED BY <1>4, <1>5, <1>7, <1>8, <1>9

\* A worker w in the handler of its operation goes back to the port.
LEMMA HandlerDone ==
  ASSUME Inv, NEW w \in Worker, pc[w] = "handle", Goto(w, "idle"), op' = op
  PROVE  /\ pc' \in [Worker -> Label] /\ pc'[w] = "idle"
         /\ \A v \in Worker \ {w} : pc'[v] = pc[v]
         /\ BusyN(pc') = BusyN(pc) /\ InHands'
         /\ \A c, kind : HandN(pc', op', c, kind) = HandN(pc, op, c, kind) - One(Is(op[w], c, kind))
<1>1. /\ pc' \in [Worker -> Label] /\ pc'[w] = "idle"
      /\ \A v \in Worker \ {w} : pc'[v] = pc[v]
  BY DEF Inv, Types, Goto, Label
<1>2. BusyN(pc') = BusyN(pc)
  <2>1. BusyN(pc') = BusyN(pc) + One(pc'[w] \in {"accept", "register"})
                               - One(pc[w] \in {"accept", "register"})
        /\ BusyN(pc) \in Nat
    BY <1>1, BusyMoves
  <2>2. One(pc[w] \in {"accept", "register"}) = 0 /\ One(pc'[w] \in {"accept", "register"}) = 0
    BY <1>1 DEF One
  <2> QED BY <2>1, <2>2
<1>3. InHands' BY <1>1 DEF Inv, InHands
<1>4. ASSUME NEW c, NEW kind
      PROVE  HandN(pc', op', c, kind) = HandN(pc, op, c, kind) - One(Is(op[w], c, kind))
  <2>1. /\ HandN(pc', op', c, kind) = HandN(pc, op, c, kind)
              + One(pc'[w] = "handle" /\ Is(op'[w], c, kind))
              - One(pc[w] = "handle" /\ Is(op[w], c, kind))
        /\ HandN(pc, op, c, kind) \in Nat
    BY <1>1, HandStep
  <2>2. One(pc[w] = "handle" /\ Is(op[w], c, kind)) = One(Is(op[w], c, kind))
        /\ One(pc'[w] = "handle" /\ Is(op'[w], c, kind)) = 0
        /\ One(Is(op[w], c, kind)) \in Nat
    BY <1>1 DEF One
  <2> QED BY <2>1, <2>2
<1> QED BY <1>1, <1>2, <1>3, <1>4
-----------------------------------------------------------------------------
\* WSARecv or WSASend posts x.
LEMMA Posts ==
  ASSUME Types, NEW x \in IoOp, x \notin pending, pending' = pending \cup {x}
  PROVE  /\ pending' \subseteq IoOp \cup {AcceptEx} /\ IsFiniteSet(pending')
         /\ One(AcceptEx \in pending') = One(AcceptEx \in pending)
         /\ \A c, kind : KernelN(pending', c, kind) = KernelN(pending, c, kind) + One(Is(x, c, kind))
<1>1. IsFiniteSet(pending') BY FS_AddElement DEF Types
<1>2. AcceptEx # x BY AcceptExIs DEF IoOp, Kind
<1>3. \A c, kind : KernelN(pending', c, kind) = KernelN(pending, c, kind) + One(Is(x, c, kind))
  BY KernelAdd DEF Types
<1> QED BY <1>1, <1>2, <1>3 DEF Types, One

\* The worker of an operation of c has its session, and no worker registers it.
LEMMA HandledSession ==
  ASSUME Inv, NEW w \in Worker, pc[w] = "handle", Good(op[w])
  PROVE  /\ op[w] \in IoOp /\ op[w].key \in Slot /\ op[w].conn \in Conn /\ op[w].kind \in Kind
         /\ op[w].bytes \in Nat
         /\ session[op[w].key].conn = op[w].conn /\ op[w].conn # None
         /\ Outstanding(op[w].conn, op[w].kind) > 0
         /\ ~Quiet(op[w].conn)
         /\ \A v \in Worker : pc[v] = "register" => op[v].conn # op[w].conn
         /\ Registered(op[w].key)
<1>1. /\ op[w] \in IoOp /\ op[w].key \in Slot /\ op[w].conn \in Conn /\ op[w].kind \in Kind
      /\ op[w].bytes \in Nat
  BY DEF Inv, InHands, IoOp, Op
<1>2. session[op[w].key].conn = op[w].conn /\ op[w].conn # None
  BY <1>1, NoneOutside DEF Good
<1>3. Is(op[w], op[w].conn, op[w].kind) BY DEF Is
<1>4. Outstanding(op[w].conn, op[w].kind) > 0 BY <1>3, Naturals DEF Inv
<1>5. ~Quiet(op[w].conn) BY <1>1, <1>4 DEF Quiet
<1>6. \A v \in Worker : pc[v] = "register" => op[v].conn # op[w].conn
  BY <1>5 DEF Inv, Registering
<1>7. Registered(op[w].key) BY <1>2, <1>6 DEF Registered, Inv, Registering
<1> QED BY <1>1, <1>2, <1>4, <1>5, <1>6, <1>7

LEMMA RecvMsgs ==
  ASSUME Types, NEW o \in IoOp,
         msgs' = msgs \o [i \in 1 .. o.bytes |-> Msg("recv", o.key, o.conn)]
  PROVE  /\ msgs' \in Seq(MsgSet)
         /\ \A m \in Elems(msgs') : m.type = "recv" => m \in Elems(msgs) \/ m.conn = o.conn
<1> DEFINE n == o.bytes
           r == [i \in 1 .. n |-> Msg("recv", o.key, o.conn)]
<1>1. n \in Nat BY DEF IoOp, Op
<1>2. Msg("recv", o.key, o.conn) \in MsgSet /\ Msg("recv", o.key, o.conn).conn = o.conn
  BY DEF IoOp, MsgSet, Msg
<1>3. r \in [1 .. n -> MsgSet] BY <1>2
<1> HIDE DEF n
<1>4. r \in Seq(MsgSet) /\ Len(r) = n BY <1>1, <1>3, SeqDef, LenProperties
<1>5. \A i \in 1 .. n : r[i].conn = o.conn BY <1>2
<1>6. msgs' = msgs \o r BY DEF n
<1> HIDE DEF r
<1>7. msgs \in Seq(MsgSet) /\ Len(msgs) \in Nat BY LenProperties DEF Types
<1>8. /\ msgs' \in Seq(MsgSet) /\ Len(msgs') = Len(msgs) + n
      /\ \A i \in 1 .. Len(msgs) + n :
           msgs'[i] = IF i <= Len(msgs) THEN msgs[i] ELSE r[i - Len(msgs)]
  <2>1. /\ msgs \o r \in Seq(MsgSet) /\ Len(msgs \o r) = Len(msgs) + Len(r)
        /\ \A i \in 1 .. Len(msgs) + Len(r) :
             (msgs \o r)[i] = IF i <= Len(msgs) THEN msgs[i] ELSE r[i - Len(msgs)]
    BY <1>4, <1>7, ConcatProperties
  <2>2. Len(r) = n BY <1>4
  <2> QED BY <1>6, <2>1, <2>2
<1>9. ASSUME NEW i \in 1 .. Len(msgs')
      PROVE  msgs'[i] \in Elems(msgs) \/ msgs'[i].conn = o.conn
  <2>1. CASE i <= Len(msgs)
    <3>1. i \in 1 .. Len(msgs) /\ msgs'[i] = msgs[i] BY <1>1, <1>7, <1>8, <2>1
    <3> QED BY <3>1 DEF Elems
  <2>2. CASE ~(i <= Len(msgs))
    <3>1. i \in 1 .. Len(msgs) + n BY <1>8
    <3>2. i - Len(msgs) \in 1 .. n BY <1>1, <1>7, <2>2, <3>1
    <3>3. msgs'[i] = r[i - Len(msgs)] BY <1>8, <2>2, <3>1
    <3> QED BY <1>5, <3>2, <3>3
  <2> QED BY <2>1, <2>2
<1>10. \A m \in Elems(msgs') : m \in Elems(msgs) \/ m.conn = o.conn
  BY <1>9 DEF Elems
<1> QED BY <1>8, <1>10

LEMMA RecvHandlerKeeps ==
  ASSUME Inv, NEW w \in Worker, RecvHandler(w)
  PROVE  Inv'
<1>1. PICK o : o = op[w] OBVIOUS
<1>2. /\ pc[w] = "handle" /\ Good(op[w]) /\ o.kind = "recv" /\ Goto(w, "idle")
      /\ msgs' = msgs \o [i \in 1 .. o.bytes |-> Msg("recv", o.key, o.conn)]
      /\ PostRecvOperation(o, {})
      /\ UNCHANGED <<peer, unread, backlog, port, session, op, stopped>>
  BY <1>1 DEF RecvHandler
<1>3. /\ o \in IoOp /\ o.key \in Slot /\ o.conn \in Conn
      /\ session[o.key].conn = o.conn /\ o.conn # None
      /\ Outstanding(o.conn, "recv") > 0
      /\ \A v \in Worker : pc[v] = "register" => op[v].conn # o.conn
      /\ Registered(o.key)
  BY <1>1, <1>2, HandledSession
<1>4. Outstanding(o.conn, "recv") = 1 /\ o.conn \notin deaf
  <2>1. Outstanding(session[o.key].conn, "recv") = IF session[o.key].conn \in deaf THEN 0 ELSE 1
    BY <1>3 DEF Inv, Recvs
  <2> QED BY <1>3, <2>1
<1>5. \A x \in pending : ~Is(x, o.conn, "recv")
  <2>1. Is(op[w], o.conn, "recv") /\ Outstanding(o.conn, "recv") <= 1 BY <1>1, <1>2, <1>4 DEF Is
  <2> QED BY <1>2, <2>1, Naturals DEF Inv
<1>6. /\ pc' \in [Worker -> Label] /\ pc'[w] = "idle"
      /\ \A v \in Worker \ {w} : pc'[v] = pc[v]
      /\ BusyN(pc') = BusyN(pc) /\ InHands'
      /\ \A c, kind : HandN(pc', op', c, kind) = HandN(pc, op, c, kind) - One(Is(o, c, kind))
  BY <1>1, <1>2, HandlerDone
<1>7. /\ msgs' \in Seq(MsgSet)
      /\ \A m \in Elems(msgs') : m.type = "recv" => m \in Elems(msgs) \/ m.conn = o.conn
  BY <1>2, <1>3, RecvMsgs DEF Inv
<1>8. \A c \in Conn : Arriving(c)' => Arriving(c)
  <2>1. \A v \in Worker : pc'[v] = "accept" => pc[v] = "accept" BY <1>6
  <2> QED BY <1>2, <2>1, ArrivingElems
<1>9. \A c, kind : /\ KernelN(pending, c, kind) \in Nat /\ PortN(port, c, kind) \in Nat
                   /\ HandN(pc, op, c, kind) \in Nat /\ One(Is(o, c, kind)) \in Nat
  BY Naturals DEF Inv, One
<1>10. \A c, kind : One(Is(o, c, kind)) = IF c = o.conn /\ kind = "recv" THEN 1 ELSE 0
  BY <1>2 DEF Is, One
<1>11. /\ pending' \subseteq IoOp \cup {AcceptEx} /\ IsFiniteSet(pending')
       /\ One(AcceptEx \in pending') = One(AcceptEx \in pending)
       /\ deaf' \subseteq Conn /\ \A c \in Conn \ {o.conn} : c \in deaf' <=> c \in deaf
       /\ \A c \in Conn, kind \in Kind : c # o.conn \/ kind = "send" =>
            Outstanding(c, kind)' = Outstanding(c, kind)
       /\ Outstanding(o.conn, "recv")' = IF o.conn \in deaf' THEN 0 ELSE 1
  <2>1. CASE pending' = pending \cup Reposted(o) \cup {} /\ UNCHANGED deaf
    <3>1. PICK x : x = Operation(o.key, o.conn, "recv", 0) OBVIOUS
    <3>2. x \in IoOp /\ x.conn = o.conn /\ x.kind = "recv"
      BY <1>3, <3>1 DEF Operation, IoOp, Op, Kind
    <3>3. x \notin pending /\ pending' = pending \cup {x}
      BY <1>5, <2>1, <3>1, <3>2 DEF Is, Reposted
    <3>4. /\ pending' \subseteq IoOp \cup {AcceptEx} /\ IsFiniteSet(pending')
          /\ One(AcceptEx \in pending') = One(AcceptEx \in pending)
          /\ \A c, kind : KernelN(pending', c, kind) = KernelN(pending, c, kind) + One(Is(x, c, kind))
      BY <3>2, <3>3, Posts DEF Inv
    <3>5. \A c, kind : One(Is(x, c, kind)) = One(Is(o, c, kind)) BY <1>2, <3>2 DEF Is, One
    <3>6. \A c, kind : Outstanding(c, kind)' = Outstanding(c, kind)
      BY <1>2, <1>6, <1>9, <3>4, <3>5, Parts, PartsPrime
    <3>7. deaf \subseteq Conn BY DEF Inv, Types
    <3> QED BY <1>4, <2>1, <3>4, <3>6, <3>7
  <2>2. CASE pending' = pending \cup {} /\ deaf' = deaf \cup {o.conn}
    <3>1. pending' = pending BY <2>2
    <3>2. \A c, kind : Outstanding(c, kind)' = Outstanding(c, kind) - One(Is(o, c, kind))
      BY <1>2, <1>6, <1>9, <3>1, Parts, PartsPrime
    <3>3. \A c, kind : Outstanding(c, kind) \in Nat BY Naturals DEF Inv
    <3>4. \A c \in Conn, kind \in Kind : c # o.conn \/ kind = "send" =>
            Outstanding(c, kind)' = Outstanding(c, kind)
      BY <1>10, <3>2, <3>3 DEF Kind
    <3>5. Outstanding(o.conn, "recv")' = 0 BY <1>4, <1>10, <3>2
    <3>6. o.conn \in deaf' /\ deaf' \subseteq Conn BY <1>3, <2>2 DEF Inv, Types
    <3> QED BY <2>2, <3>1, <3>4, <3>5, <3>6 DEF Inv, Types
  <2> QED BY <1>2, <2>1, <2>2 DEF PostRecvOperation
<1>12. Types' BY <1>2, <1>6, <1>7, <1>11 DEF Inv, Types
<1>13. AcceptGoesOn' BY <1>2, <1>6, <1>11, AcceptParts, AcceptPrime DEF Inv
<1>14. OnlyOn(o.key, o.conn)
  BY <1>2, <1>3, <1>6, <1>7, <1>8, <1>11 DEF OnlyOn
<1>15. RecvOf(o.key, o.conn)' /\ SendOf(o.key, o.conn)'
  <2>1. Outstanding(o.conn, "send")' = Outstanding(o.conn, "send") BY <1>3, <1>11 DEF Kind
  <2>2. SendOf(o.key, o.conn) BY <1>3 DEF Inv, Sends, SendOf
  <2>3. session' = session /\ peer' = peer BY <1>2
  <2>4. SendOf(o.key, o.conn)' BY <2>1, <2>2, <2>3 DEF SendOf
  <2> QED BY <1>11, <2>4 DEF RecvOf
<1>16. Stages' /\ OneSession' /\ Registering' /\ Recvs' /\ Sends'
  BY <1>3, <1>14, <1>15, OnlyOnKeeps
<1> QED BY <1>6, <1>12, <1>13, <1>16 DEF Inv

\* A WSASend for n units of the session s of c, when none is in the kernel, or its failure.
LEMMA PostsSend ==
  ASSUME Types, NEW s \in Slot, NEW c \in Conn, session[s].conn = c, NEW n \in Nat,
         \A x \in pending : ~Is(x, c, "send"), PostSendOperation(s, n)
  PROVE  /\ pending' \subseteq IoOp \cup {AcceptEx} /\ IsFiniteSet(pending')
         /\ One(AcceptEx \in pending') = One(AcceptEx \in pending)
         /\ \E k \in {0, 1} :
              /\ k = 1 \/ peer[c] = "closed"
              /\ \A d, kind : KernelN(pending', d, kind) = KernelN(pending, d, kind)
                                + (IF d = c /\ kind = "send" THEN k ELSE 0)
<1>1. CASE pending' = pending \cup {Operation(s, session[s].conn, "send", n)}
  <2>1. PICK x : x = Operation(s, session[s].conn, "send", n) OBVIOUS
  <2>2. x \in IoOp /\ x.conn = c /\ x.kind = "send" BY <2>1 DEF Operation, IoOp, Op, Kind
  <2>3. x \notin pending /\ pending' = pending \cup {x} BY <1>1, <2>1, <2>2 DEF Is
  <2>4. /\ pending' \subseteq IoOp \cup {AcceptEx} /\ IsFiniteSet(pending')
        /\ One(AcceptEx \in pending') = One(AcceptEx \in pending)
        /\ \A d, kind : KernelN(pending', d, kind) = KernelN(pending, d, kind) + One(Is(x, d, kind))
    BY <2>2, <2>3, Posts
  <2>5. \A d, kind : One(Is(x, d, kind)) = IF d = c /\ kind = "send" THEN 1 ELSE 0
    BY <2>2 DEF Is, One
  <2>6. \A d, kind : KernelN(pending', d, kind) = KernelN(pending, d, kind)
                       + (IF d = c /\ kind = "send" THEN 1 ELSE 0)
    BY <2>4, <2>5
  <2> QED BY <2>4, <2>6
<1>2. CASE peer[session[s].conn] = "closed" /\ UNCHANGED pending
  <2>1. \A d, kind : KernelN(pending, d, kind) \in Nat BY Naturals
  <2>2. \A d, kind : KernelN(pending', d, kind) = KernelN(pending, d, kind)
                       + (IF d = c /\ kind = "send" THEN 0 ELSE 0)
    BY <1>2, <2>1
  <2> QED BY <1>2, <2>2 DEF Types
<1> QED BY <1>1, <1>2 DEF PostSendOperation

LEMMA SendHandlerKeeps ==
  ASSUME Inv, NEW w \in Worker, SendHandler(w)
  PROVE  Inv'
<1>1. PICK o : o = op[w] OBVIOUS
<1>2. PICK left : left = Left(o.key, o.bytes) OBVIOUS
<1>3. /\ pc[w] = "handle" /\ Good(op[w]) /\ o.kind = "send" /\ Goto(w, "idle")
      /\ UNCHANGED <<peer, unread, backlog, port, msgs, op, stopped, deaf>>
      /\ \/ /\ left > 0
            /\ session' = [session EXCEPT ![o.key].data = left]
            /\ PostSendOperation(o.key, left)
         \/ /\ left = 0
            /\ session' = [session EXCEPT ![o.key].data = 0, ![o.key].sending = FALSE]
            /\ UNCHANGED pending
  BY <1>1, <1>2 DEF SendHandler
<1>4. /\ o \in IoOp /\ o.key \in Slot /\ o.conn \in Conn /\ o.bytes \in Nat
      /\ session[o.key].conn = o.conn /\ o.conn # None
      /\ Outstanding(o.conn, "send") > 0
      /\ \A v \in Worker : pc[v] = "register" => op[v].conn # o.conn
      /\ Registered(o.key)
  BY <1>1, <1>3, HandledSession
<1>5. SendOf(o.key, o.conn) BY <1>4 DEF Inv, Sends, SendOf
<1>6. Outstanding(o.conn, "send") \in Nat BY Naturals DEF Inv
<1>7. Outstanding(o.conn, "send") = 1 /\ session[o.key].sending
  BY <1>4, <1>5, <1>6 DEF SendOf
<1>8. \A x \in pending : ~Is(x, o.conn, "send")
  <2>1. Is(op[w], o.conn, "send") /\ Outstanding(o.conn, "send") <= 1 BY <1>1, <1>3, <1>7 DEF Is
  <2> QED BY <1>3, <2>1, Naturals DEF Inv
<1>9. /\ pc' \in [Worker -> Label] /\ pc'[w] = "idle"
      /\ \A v \in Worker \ {w} : pc'[v] = pc[v]
      /\ BusyN(pc') = BusyN(pc) /\ InHands'
      /\ \A c, kind : HandN(pc', op', c, kind) = HandN(pc, op, c, kind) - One(Is(o, c, kind))
  BY <1>1, <1>3, HandlerDone
<1>10. \A c \in Conn : Arriving(c)' => Arriving(c)
  <2>1. \A v \in Worker : pc'[v] = "accept" => pc[v] = "accept" BY <1>9
  <2> QED BY <1>3, <2>1, ArrivingElems
<1>11. left \in Int
  BY <1>2, <1>4 DEF Left, Inv, Types, SessionSet
<1>12. /\ session' \in [Slot -> SessionSet]
       /\ \A s \in Slot \ {o.key} : session'[s] = session[s]
       /\ session'[o.key].conn = o.conn /\ session'[o.key].data = left
       /\ session'[o.key].sending = IF left > 0 THEN session[o.key].sending ELSE FALSE
  <2>1. session \in [Slot -> SessionSet] BY DEF Inv, Types
  <2>2. CASE left > 0 /\ session' = [session EXCEPT ![o.key].data = left]
    <3>1. left \in Nat BY <1>11, <2>2
    <3> QED BY <1>4, <2>1, <2>2, <3>1 DEF SessionSet
  <2>3. CASE left = 0 /\ session' = [session EXCEPT ![o.key].data = 0, ![o.key].sending = FALSE]
    <3>1. PICK r \in SessionSet : r = session[o.key] BY <1>4, <2>1
    <3>2. session' = [session EXCEPT ![o.key] = [r EXCEPT !.data = 0, !.sending = FALSE]]
      BY <1>4, <2>1, <2>3, <3>1
    <3>3. PICK t : t = [r EXCEPT !.data = 0, !.sending = FALSE] OBVIOUS
    <3>4. t \in SessionSet /\ t.conn = r.conn /\ t.data = 0 /\ t.sending = FALSE
      BY <3>3 DEF SessionSet
    <3>5. session' = [session EXCEPT ![o.key] = t] BY <3>2, <3>3
    <3>6. session' \in [Slot -> SessionSet] /\ session'[o.key] = t
          /\ \A s \in Slot \ {o.key} : session'[s] = session[s]
      BY <1>4, <2>1, <3>4, <3>5
    <3>7. r.conn = o.conn BY <1>4, <3>1
    <3>8. ~(left > 0) BY <2>3
    <3> QED BY <2>3, <3>4, <3>6, <3>7, <3>8
  <2> QED BY <1>3, <2>2, <2>3
<1>13. /\ pending' \subseteq IoOp \cup {AcceptEx} /\ IsFiniteSet(pending')
       /\ One(AcceptEx \in pending') = One(AcceptEx \in pending)
       /\ \E k \in {0, 1} :
            /\ left > 0 => k = 1 \/ peer[o.conn] = "closed"
            /\ left = 0 => k = 0
            /\ \A d, kind : KernelN(pending', d, kind) = KernelN(pending, d, kind)
                              + (IF d = o.conn /\ kind = "send" THEN k ELSE 0)
  <2>1. CASE left > 0 /\ PostSendOperation(o.key, left)
    <3>1. left \in Nat /\ left # 0 BY <1>11, <2>1
    <3> QED BY <1>4, <1>8, <2>1, <3>1, PostsSend DEF Inv
  <2>2. CASE left = 0 /\ UNCHANGED pending
    <3>1. \A d, kind : KernelN(pending, d, kind) \in Nat BY Naturals DEF Inv
    <3>2. \A d, kind : KernelN(pending', d, kind) = KernelN(pending, d, kind)
                         + (IF d = o.conn /\ kind = "send" THEN 0 ELSE 0)
      BY <2>2, <3>1
    <3> QED BY <2>2, <3>2 DEF Inv, Types
  <2> QED BY <1>3, <2>1, <2>2
<1>14. PICK k \in {0, 1} :
            /\ left > 0 => k = 1 \/ peer[o.conn] = "closed"
            /\ left = 0 => k = 0
            /\ \A d, kind : KernelN(pending', d, kind) = KernelN(pending, d, kind)
                              + (IF d = o.conn /\ kind = "send" THEN k ELSE 0)
  BY <1>13
<1>15. \A c, kind : Outstanding(c, kind)' =
         IF c = o.conn /\ kind = "send" THEN k ELSE Outstanding(c, kind)
  <2> SUFFICES ASSUME NEW c, NEW kind
               PROVE  Outstanding(c, kind)' =
                        IF c = o.conn /\ kind = "send" THEN k ELSE Outstanding(c, kind)
    OBVIOUS
  <2>1. One(Is(o, c, kind)) = IF c = o.conn /\ kind = "send" THEN 1 ELSE 0
    BY <1>3 DEF Is, One
  <2>2. /\ KernelN(pending, c, kind) \in Nat /\ PortN(port, c, kind) \in Nat
        /\ HandN(pc, op, c, kind) \in Nat
    BY Naturals DEF Inv
  <2>3. HandN(pc', op', c, kind) = HandN(pc, op, c, kind) - One(Is(o, c, kind)) BY <1>9
  <2>4. KernelN(pending', c, kind) = KernelN(pending, c, kind)
                              + (IF c = o.conn /\ kind = "send" THEN k ELSE 0)
    BY <1>14
  <2>5. port' = port BY <1>3
  <2>6. Outstanding(c, kind) = KernelN(pending, c, kind) + PortN(port, c, kind) + HandN(pc, op, c, kind)
        /\ Outstanding(c, kind)' = KernelN(pending', c, kind) + PortN(port', c, kind) + HandN(pc', op', c, kind)
    BY Parts, PartsPrime
  <2>7. c = o.conn /\ kind = "send" => Outstanding(c, kind) = 1 BY <1>7
  <2> QED BY <2>1, <2>2, <2>3, <2>4, <2>5, <2>6, <2>7
<1>16. Types' BY <1>3, <1>9, <1>12, <1>13 DEF Inv, Types
<1>17. AcceptGoesOn' BY <1>3, <1>9, <1>13, AcceptParts, AcceptPrime DEF Inv
<1>18. OnlyOn(o.key, o.conn)
  BY <1>3, <1>4, <1>9, <1>10, <1>12, <1>15 DEF OnlyOn
<1>19. RecvOf(o.key, o.conn)'
  <2>1. Outstanding(o.conn, "recv") = IF o.conn \in deaf THEN 0 ELSE 1 BY <1>4 DEF Inv, Recvs
  <2>2. Outstanding(o.conn, "recv")' = Outstanding(o.conn, "recv") BY <1>15
  <2> QED BY <1>3, <2>1, <2>2 DEF RecvOf
<1>20. SendOf(o.key, o.conn)'
  <2>1. Outstanding(o.conn, "send")' = k BY <1>15
  <2>2. left > 0 \/ left = 0 BY <1>3
  <2> QED BY <1>3, <1>7, <1>11, <1>12, <1>14, <2>1, <2>2 DEF SendOf
<1>21. Stages' /\ OneSession' /\ Registering' /\ Recvs' /\ Sends'
  BY <1>4, <1>18, <1>19, <1>20, OnlyOnKeeps
<1> QED BY <1>9, <1>16, <1>17, <1>21 DEF Inv

LEMMA SendMsgKeeps ==
  ASSUME Inv, SendMsg
  PROVE  Inv'
<1>1. PICK m : m = Head(msgs) OBVIOUS
<1>2. /\ msgs # << >> /\ m.type = "recv" /\ msgs' = Tail(msgs)
      /\ UNCHANGED <<peer, unread, backlog, port, pc, op, stopped, deaf>>
  BY <1>1 DEF SendMsg
<1>3. /\ msgs' \in Seq(MsgSet) /\ m \in Elems(msgs) /\ m \in MsgSet
      /\ Elems(msgs') \subseteq Elems(msgs)
  BY <1>1, <1>2, MsgsTail DEF Inv
<1>4. m.session \in Slot /\ m.conn \in Conn BY <1>2, <1>3 DEF MsgSet
<1>5. CASE UNCHANGED <<session, pending>>
  <2>1. NoNewRequest BY <1>3 DEF NoNewRequest
  <2> QED BY <1>2, <1>3, <1>5, <2>1, OthersKeep DEF Inv, Types
<1>6. CASE /\ session[m.session].conn = m.conn
           /\ session' = [session EXCEPT ![m.session].data = @ + 1, ![m.session].sending = TRUE]
           /\ \/ MayPost(m.session) /\ PostSendOperation(m.session, session[m.session].data + 1)
              \/ ~MayPost(m.session) /\ UNCHANGED pending
  <2>1. PICK s \in Slot : s = m.session BY <1>4
  <2>2. PICK c \in Conn : c = m.conn BY <1>4
  <2>3. session[s].conn = c /\ c # None BY <1>6, <2>1, <2>2, NoneOutside
  <2>4. session \in [Slot -> SessionSet] BY DEF Inv, Types
  <2>5. PICK r \in SessionSet : r = session[s] BY <2>4
  <2>6. /\ session' \in [Slot -> SessionSet]
        /\ \A q \in Slot \ {s} : session'[q] = session[q]
        /\ session'[s].conn = c /\ session'[s].sending = TRUE
    <3> PICK n \in Nat : n = r.data + 1 BY DEF SessionSet
    <3>1. session' = [session EXCEPT ![s] = [r EXCEPT !.data = n, !.sending = TRUE]]
      BY <1>6, <2>1, <2>4, <2>5
    <3>2. PICK t : t = [r EXCEPT !.data = n, !.sending = TRUE] OBVIOUS
    <3>3. t \in SessionSet /\ t.conn = r.conn /\ t.sending = TRUE BY <3>2 DEF SessionSet
    <3>4. session' = [session EXCEPT ![s] = t] BY <3>1, <3>2
    <3>5. session' \in [Slot -> SessionSet] /\ session'[s] = t
          /\ \A q \in Slot \ {s} : session'[q] = session[q]
      BY <2>4, <3>3, <3>4
    <3> QED BY <2>3, <2>5, <3>3, <3>5
  <2>7. SendOf(s, c) BY <2>3 DEF Inv, Sends, SendOf
  <2>8. ~Quiet(c) BY <1>2, <1>3, <2>2 DEF Quiet
  <2>9. \A v \in Worker : pc[v] = "register" => op[v].conn # c BY <2>8 DEF Inv, Registering
  <2>10. /\ pending' \subseteq IoOp \cup {AcceptEx} /\ IsFiniteSet(pending')
         /\ One(AcceptEx \in pending') = One(AcceptEx \in pending)
         /\ \E k \in {0, 1} :
              /\ Outstanding(c, "send") + k <= 1
              /\ Outstanding(c, "send") + k = 1 \/ peer[c] # "open"
              /\ \A d, kind : KernelN(pending', d, kind) = KernelN(pending, d, kind)
                                + (IF d = c /\ kind = "send" THEN k ELSE 0)
    <3>1. CASE MayPost(s) /\ PostSendOperation(s, session[s].data + 1)
      <4>1. Outstanding(c, "send") = 0 BY <2>7, <3>1 DEF MayPost, SendOf
      <4>2. \A x \in pending : ~Is(x, c, "send") BY <4>1, Naturals DEF Inv
      <4>3. session[s].data + 1 \in Nat BY <2>4 DEF SessionSet
      <4>4. PICK n \in Nat : n = session[s].data + 1 BY <4>3
      <4>5. PostSendOperation(s, n) BY <3>1, <4>4
      <4>6. /\ pending' \subseteq IoOp \cup {AcceptEx} /\ IsFiniteSet(pending')
            /\ One(AcceptEx \in pending') = One(AcceptEx \in pending)
            /\ \E k \in {0, 1} :
              /\ k = 1 \/ peer[c] = "closed"
              /\ \A d, kind : KernelN(pending', d, kind) = KernelN(pending, d, kind)
                                + (IF d = c /\ kind = "send" THEN k ELSE 0)
        BY <2>3, <4>2, <4>5, PostsSend DEF Inv
      <4> QED BY <4>1, <4>6
    <3>2. CASE ~MayPost(s) /\ UNCHANGED pending
      <4>1. session[s].sending BY <3>2 DEF MayPost
      <4>2. \A d, kind : KernelN(pending, d, kind) \in Nat BY Naturals DEF Inv
      <4>3. \A d, kind : KernelN(pending', d, kind) = KernelN(pending, d, kind)
                           + (IF d = c /\ kind = "send" THEN 0 ELSE 0)
        BY <3>2, <4>2
      <4>4. Outstanding(c, "send") \in Nat BY Naturals DEF Inv
      <4>5. Outstanding(c, "send") + 0 <= 1 /\ (Outstanding(c, "send") + 0 = 1 \/ peer[c] # "open")
        BY <2>7, <4>1, <4>4 DEF SendOf
      <4> QED BY <3>2, <4>3, <4>5 DEF Inv, Types
    <3> QED BY <1>6, <2>1, <3>1, <3>2
  <2>11. PICK k \in {0, 1} :
              /\ Outstanding(c, "send") + k <= 1
              /\ Outstanding(c, "send") + k = 1 \/ peer[c] # "open"
              /\ \A d, kind : KernelN(pending', d, kind) = KernelN(pending, d, kind)
                                + (IF d = c /\ kind = "send" THEN k ELSE 0)
    BY <2>10
  <2>12. \A d, kind : Outstanding(d, kind)' = Outstanding(d, kind)
                        + (IF d = c /\ kind = "send" THEN k ELSE 0)
    <3> SUFFICES ASSUME NEW d, NEW kind
                 PROVE  Outstanding(d, kind)' = Outstanding(d, kind)
                          + (IF d = c /\ kind = "send" THEN k ELSE 0)
      OBVIOUS
    <3>1. /\ KernelN(pending, d, kind) \in Nat /\ PortN(port, d, kind) \in Nat
          /\ HandN(pc, op, d, kind) \in Nat
      BY Naturals DEF Inv
    <3>2. KernelN(pending', d, kind) = KernelN(pending, d, kind)
                                + (IF d = c /\ kind = "send" THEN k ELSE 0)
      BY <2>11
    <3> QED BY <1>2, <3>1, <3>2, Parts, PartsPrime
  <2>13. \A d, kind : Outstanding(d, kind) \in Nat BY Naturals DEF Inv
  <2>14. Types' BY <1>2, <1>3, <2>6, <2>10 DEF Inv, Types
  <2>15. InHands' BY <1>2 DEF Inv, InHands
  <2>16. AcceptGoesOn' BY <1>2, <2>10, AcceptParts, AcceptPrime DEF Inv
  <2>17. OnlyOn(s, c)
    <3>1. \A d \in Conn \ {c}, kind \in Kind : Outstanding(d, kind)' = Outstanding(d, kind)
      BY <2>12, <2>13
    <3>2. \A d \in Conn : Arriving(d)' => Arriving(d) BY <1>2, ArrivingElems
    <3> QED BY <1>2, <1>3, <2>6, <2>9, <3>1, <3>2 DEF OnlyOn
  <2>18. RecvOf(s, c)'
    <3>1. Outstanding(c, "recv")' = Outstanding(c, "recv") BY <2>12, <2>13
    <3>2. Registered(s)' => Registered(s) BY <1>2, <2>3, <2>6 DEF Registered
    <3>3. Registered(s) => Outstanding(c, "recv") = IF c \in deaf THEN 0 ELSE 1
      BY <2>3 DEF Inv, Recvs
    <3> QED BY <1>2, <3>1, <3>2, <3>3 DEF RecvOf
  <2>19. SendOf(s, c)'
    <3>1. Outstanding(c, "send")' = Outstanding(c, "send") + k BY <2>12
    <3> QED BY <1>2, <2>6, <2>11, <3>1 DEF SendOf
  <2>20. Stages' /\ OneSession' /\ Registering' /\ Recvs' /\ Sends'
    BY <2>3, <2>17, <2>18, <2>19, OnlyOnKeeps
  <2> QED BY <2>14, <2>15, <2>16, <2>20 DEF Inv
<1> QED BY <1>1, <1>5, <1>6 DEF SendMsg

LEMMA FunctionAsList ==
  ASSUME NEW T, NEW n \in Nat, NEW r \in [1 .. n -> T]
  PROVE  r \in Seq(T) /\ Len(r) = n
<1>1. r \in Seq(T) BY SeqDef
<1> QED BY <1>1, LenProperties

\* What closesocket puts into the port.
LEMMA AbortedList ==
  ASSUME Types, NEW c \in Conn,
         NEW q \in Orders({[a EXCEPT !.ok = FALSE, !.bytes = 0] : a \in Aborted(c)})
  PROVE  q \in Seq(IoOp) /\ \A i \in 1 .. Len(q) : q[i].conn = c
<1> DEFINE A == Aborted(c)
           S == {[a EXCEPT !.ok = FALSE, !.bytes = 0] : a \in A}
<1>1. A \subseteq pending /\ \A a \in A : a.conn = c BY DEF Aborted
<1>2. \A a \in A : a \in IoOp BY <1>1, AcceptExIs, NoneOutside DEF Types
<1>3. IsFiniteSet(A) BY <1>1, FS_Subset DEF Types
<1> HIDE DEF A
<1>4. \A a \in A : LET x == [a EXCEPT !.ok = FALSE, !.bytes = 0] IN x \in IoOp /\ x.conn = c
  BY <1>1, <1>2 DEF IoOp, Op
<1>5. S \subseteq IoOp /\ \A x \in S : x.conn = c BY <1>4
<1>6. IsFiniteSet(S)
  <2> DEFINE f == [a \in A |-> [a EXCEPT !.ok = FALSE, !.bytes = 0]]
  <2>1. f \in Surjection(A, S) BY DEF Surjection
  <2> HIDE DEF f, S
  <2> QED BY <1>3, <2>1, FS_Surjection
<1>7. q \in Orders(S) BY DEF A
<1> HIDE DEF S
<1>8. PICK n \in Nat : n = Cardinality(S) BY <1>6, FS_CardinalityType
<1>9. PICK r : r = q OBVIOUS
<1>10. r \in [1 .. n -> S] BY <1>7, <1>8, <1>9 DEF Orders
<1>11. r \in [1 .. n -> IoOp] BY <1>5, <1>10
<1>12. r \in Seq(IoOp) /\ Len(r) = n BY <1>11, FunctionAsList, Zenon
<1>13. Len(r) = n BY <1>12
<1>14. \A i \in 1 .. Len(r) : r[i].conn = c BY <1>5, <1>10, <1>13
<1> QED BY <1>9, <1>12, <1>14

LEMMA CloseHandlerKeeps ==
  ASSUME Inv, NEW w \in Worker, CloseHandler(w)
  PROVE  Inv'
<1>1. PICK o : o = op[w] OBVIOUS
<1>2. /\ pc[w] = "handle" /\ Good(op[w]) /\ Goto(w, "idle")
      /\ pending' = pending \ Aborted(o.conn)
      /\ session' = [session EXCEPT ![o.key] = Free]
      /\ msgs' = Append(msgs, Msg("close", None, o.conn))
      /\ UNCHANGED <<peer, unread, backlog, op, stopped, deaf>>
  BY <1>1 DEF CloseHandler
<1>3. /\ o \in IoOp /\ o.key \in Slot /\ o.conn \in Conn
      /\ session[o.key].conn = o.conn /\ o.conn # None
      /\ \A v \in Worker : pc[v] = "register" => op[v].conn # o.conn
  BY <1>1, <1>2, HandledSession
<1>4. PICK q \in Seq(IoOp) : port' = port \o q /\ \A i \in 1 .. Len(q) : q[i].conn = o.conn
  <2>1. PICK r \in Orders({[a EXCEPT !.ok = FALSE, !.bytes = 0] : a \in Aborted(o.conn)}) :
          port' = port \o r
    BY <1>1 DEF CloseHandler
  <2>2. r \in Seq(IoOp) /\ \A i \in 1 .. Len(r) : r[i].conn = o.conn
    BY <1>3, AbortedList DEF Inv
  <2> QED BY <2>1, <2>2
<1>5. port \in Seq(PortOp) BY DEF Inv, Types, PortOp
<1>6. port' \in Seq(PortOp) /\ PortAcceptN(port') = PortAcceptN(port)
  BY <1>4, <1>5, PortConcatAccept
<1>7. /\ pc' \in [Worker -> Label] /\ pc'[w] = "idle"
      /\ \A v \in Worker \ {w} : pc'[v] = pc[v]
      /\ BusyN(pc') = BusyN(pc) /\ InHands'
      /\ \A c, kind : HandN(pc', op', c, kind) = HandN(pc, op, c, kind) - One(Is(o, c, kind))
  BY <1>1, <1>2, HandlerDone
<1>8. /\ pending' \subseteq IoOp \cup {AcceptEx} /\ IsFiniteSet(pending')
      /\ One(AcceptEx \in pending') = One(AcceptEx \in pending)
  <2>1. pending' \in SUBSET pending BY <1>2
  <2>2. IsFiniteSet(pending') BY <2>1, FS_Subset DEF Inv, Types
  <2>3. AcceptEx \notin Aborted(o.conn) BY <1>3, AcceptExIs DEF Aborted
  <2> QED BY <1>2, <2>1, <2>2, <2>3 DEF Inv, Types, One
<1>9. /\ session' \in [Slot -> SessionSet] /\ session'[o.key].conn = None
       /\ \A s \in Slot \ {o.key} : session'[s] = session[s]
  <2>1. Free \in SessionSet /\ Free.conn = None BY DEF Free, SessionSet
  <2> QED BY <1>2, <1>3, <2>1 DEF Inv, Types
<1>10. /\ msgs' \in Seq(MsgSet)
       /\ \A m \in Elems(msgs') : m.type = "recv" => m \in Elems(msgs)
  <2>1. Msg("close", None, o.conn) \in MsgSet /\ Msg("close", None, o.conn).type # "recv"
    BY <1>3 DEF Msg, MsgSet
  <2>2. msgs' \in Seq(MsgSet) /\ Elems(msgs') = Elems(msgs) \cup {Msg("close", None, o.conn)}
    <3>1. msgs \in Seq(MsgSet) BY DEF Inv, Types
    <3> QED BY <1>2, <2>1, <3>1, AppendElems
  <2> QED BY <2>1, <2>2
<1>11. ASSUME NEW c \in Conn \ {o.conn}, NEW kind \in Kind
       PROVE  Outstanding(c, kind)' = Outstanding(c, kind)
  <2>1. KernelN(pending', c, kind) = KernelN(pending, c, kind)
    <3>1. {x \in pending' : Is(x, c, kind)} = {x \in pending : Is(x, c, kind)}
      BY <1>2 DEF Is, Aborted
    <3> QED BY <3>1 DEF KernelN
  <2>2. PortN(port', c, kind) = PortN(port, c, kind)
    <3>1. \A i \in 1 .. Len(q) : ~Is(q[i], c, kind) BY <1>4 DEF Is
    <3>2. PortN(port \o q, c, kind) = PortN(port, c, kind) BY <1>5, <3>1, PortConcat
    <3> QED BY <1>4, <3>2
  <2>3. HandN(pc', op', c, kind) = HandN(pc, op, c, kind)
    <3>1. One(Is(o, c, kind)) = 0 BY DEF Is, One
    <3>2. HandN(pc, op, c, kind) \in Nat BY Naturals DEF Inv
    <3>3. HandN(pc', op', c, kind) = HandN(pc, op, c, kind) - One(Is(o, c, kind)) BY <1>7
    <3> QED BY <3>1, <3>2, <3>3
  <2> QED BY <2>1, <2>2, <2>3, Parts, PartsPrime
<1>12. \A c \in Conn : Arriving(c)' => Arriving(c)
  <2>1. \A v \in Worker : pc'[v] = "accept" => pc[v] = "accept" BY <1>7
  <2>2. \A x \in Elems(port') : x.kind = "accept" => x \in Elems(port)
    <3>1. \A i \in 1 .. Len(q) : q[i].kind # "accept" BY <1>4, ElementOfSeq DEF IoOp, Kind
    <3>2. q \in Seq(PortOp)
      <4>1. \A i \in 1 .. Len(q) : q[i] \in PortOp BY <1>4, ElementOfSeq DEF PortOp
      <4>2. Len(q) \in Nat /\ q \in [1 .. Len(q) -> IoOp] BY <1>4, LenProperties
      <4> QED BY <4>1, <4>2, SeqDef
    <3>3. /\ Len(port) \in Nat /\ Len(q) \in Nat /\ Len(port') = Len(port) + Len(q)
          /\ \A i \in 1 .. Len(port) + Len(q) :
               port'[i] = IF i <= Len(port) THEN port[i] ELSE q[i - Len(port)]
      BY <1>4, <1>5, <3>2, ConcatProperties, LenProperties
    <3> SUFFICES ASSUME NEW i \in 1 .. Len(port'), port'[i].kind = "accept"
                 PROVE  port'[i] \in Elems(port)
      BY DEF Elems
    <3>4. i \in 1 .. Len(port) + Len(q) BY <3>3
    <3>5. CASE i <= Len(port)
      <4>1. i \in 1 .. Len(port) /\ port'[i] = port[i] BY <3>3, <3>4, <3>5
      <4> QED BY <4>1 DEF Elems
    <3>6. CASE ~(i <= Len(port))
      <4>1. i - Len(port) \in 1 .. Len(q) BY <3>3, <3>4, <3>6
      <4>2. port'[i] = q[i - Len(port)] BY <3>3, <3>4, <3>6
      <4> QED BY <3>1, <4>1, <4>2
    <3> QED BY <3>5, <3>6
  <2> QED BY <1>2, <2>1, <2>2, ArrivingElems
<1>13. Types' BY <1>2, <1>6, <1>7, <1>8, <1>9, <1>10 DEF Inv, Types, PortOp
<1>14. AcceptGoesOn' BY <1>2, <1>6, <1>7, <1>8, AcceptParts, AcceptPrime DEF Inv
<1>15. OnlyOn(o.key, o.conn)
  BY <1>2, <1>3, <1>7, <1>9, <1>10, <1>11, <1>12 DEF OnlyOn
<1>16. Stages' /\ OneSession' /\ Registering' /\ Recvs' /\ Sends'
  BY <1>3, <1>9, <1>15, OnlyOnKeeps
<1> QED BY <1>7, <1>13, <1>14, <1>16 DEF Inv
-----------------------------------------------------------------------------
(***************************************************************************)
(* AcceptHandler.                                                          *)
(***************************************************************************)
LEMMA CreateSessionKeeps ==
  ASSUME Inv, NEW w \in Worker, CreateSession(w)
  PROVE  Inv'
<1>1. PICK c : c = op[w].conn OBVIOUS
<1>2. /\ pc[w] = "accept" /\ Goto(w, "register")
      /\ UNCHANGED <<peer, unread, backlog, pending, port, stopped, deaf>>
  BY DEF CreateSession, kernel
<1>3. PICK s \in Slot :
       /\ session[s].conn = None
       /\ session' = [session EXCEPT ![s] = [Free EXCEPT !.conn = c]]
       /\ op' = [op EXCEPT ![w].key = s]
       /\ msgs' = Append(msgs, Msg("accept", s, c))
  BY <1>1 DEF CreateSession
<1>4. op[w] \in AcceptOp /\ c \in Conn BY <1>1, <1>2 DEF Inv, InHands, AcceptOp
<1>5. Arriving(c) /\ Early(c) BY <1>1, <1>2 DEF Arriving, Early
<1>6. /\ Quiet(c) /\ \A q \in Slot : session[q].conn # c
      /\ peer[c] # "none" /\ c \notin Elems(backlog)
  BY <1>4, <1>5 DEF Inv, Stages
<1>7. /\ \A i \in 1 .. Len(port) : port[i].kind # "accept"
      /\ \A v \in Worker \ {w} : pc[v] \notin {"accept", "register"}
  BY <1>2, OneAccept DEF Inv
<1>8. /\ pc' \in [Worker -> Label] /\ pc'[w] = "register"
      /\ \A v \in Worker \ {w} : pc'[v] = pc[v]
  BY <1>2 DEF Inv, Types, Goto, Label
<1>9. /\ op' \in [Worker -> Op] /\ op'[w].key = s /\ op'[w].conn = c
      /\ \A v \in Worker \ {w} : op'[v] = op[v]
  <2>1. PICK o \in Op : o = op[w] BY DEF Inv, Types
  <2>2. [o EXCEPT !.key = s] \in Op BY DEF Op
  <2>3. [o EXCEPT !.key = s].key = s /\ [o EXCEPT !.key = s].conn = o.conn BY DEF Op
  <2>4. op' = [op EXCEPT ![w] = [o EXCEPT !.key = s]] BY <1>3, <2>1 DEF Inv, Types
  <2>5. op'[w] = [o EXCEPT !.key = s] BY <2>4 DEF Inv, Types
  <2>6. op' \in [Worker -> Op] BY <2>2, <2>4 DEF Inv, Types
  <2> QED BY <1>1, <1>3, <2>1, <2>3, <2>5, <2>6 DEF Inv, Types
<1>10. /\ session' \in [Slot -> SessionSet]
       /\ session'[s].conn = c /\ session'[s].sending = FALSE /\ session'[s].data = 0
       /\ \A q \in Slot \ {s} : session'[q] = session[q]
  <2>1. PICK r : r = [Free EXCEPT !.conn = c] OBVIOUS
  <2>2. r \in SessionSet /\ r.conn = c /\ r.sending = FALSE /\ r.data = 0
    BY <1>4, <2>1 DEF Free, SessionSet
  <2>3. session' = [session EXCEPT ![s] = r] BY <1>3, <2>1
  <2> QED BY <2>2, <2>3 DEF Inv, Types
<1>11. msgs' \in Seq(MsgSet) /\ NoNewRequest
  <2>1. Msg("accept", s, c) \in MsgSet /\ Msg("accept", s, c).type # "recv"
    BY <1>4 DEF Msg, MsgSet
  <2>2. msgs \in Seq(MsgSet) BY DEF Inv, Types
  <2>3. msgs' \in Seq(MsgSet) /\ Elems(msgs') = Elems(msgs) \cup {Msg("accept", s, c)}
    BY <1>3, <2>1, <2>2, AppendElems
  <2> QED BY <2>1, <2>3 DEF NoNewRequest
<1>12. Types' BY <1>2, <1>8, <1>9, <1>10, <1>11 DEF Inv, Types
<1>13. InHands' BY <1>4, <1>8, <1>9 DEF Inv, InHands
<1>14. SameCounts
  <2> SUFFICES ASSUME NEW d \in Conn, NEW kind \in Kind
               PROVE  Outstanding(d, kind)' = Outstanding(d, kind)
    BY DEF SameCounts
  <2>1. /\ HandN(pc', op', d, kind) = HandN(pc, op, d, kind)
              + One(pc'[w] = "handle" /\ Is(op'[w], d, kind))
              - One(pc[w] = "handle" /\ Is(op[w], d, kind))
        /\ HandN(pc, op, d, kind) \in Nat
    BY <1>8, <1>9, HandStep
  <2>2. One(pc[w] = "handle" /\ Is(op[w], d, kind)) = 0
        /\ One(pc'[w] = "handle" /\ Is(op'[w], d, kind)) = 0
    BY <1>2, <1>8 DEF One
  <2> QED BY <1>2, <2>1, <2>2, Parts, PartsPrime
<1>15. AcceptGoesOn'
  <2>1. BusyN(pc') = BusyN(pc) + One(pc'[w] \in {"accept", "register"})
                               - One(pc[w] \in {"accept", "register"})
        /\ BusyN(pc) \in Nat
    BY <1>8, BusyMoves
  <2>2. One(pc[w] \in {"accept", "register"}) = 1 /\ One(pc'[w] \in {"accept", "register"}) = 1
    BY <1>2, <1>8 DEF One
  <2> QED BY <1>2, <2>1, <2>2, AcceptParts, AcceptPrime DEF Inv
<1>16. \A d \in Conn : Quiet(d) => Quiet(d)'
  BY <1>2, <1>11, <1>14, StillQuiet DEF SameCounts, Quiet
<1>17. \A d \in Conn : ~Arriving(d)'
  <2>1. \A x \in Elems(port') : x.kind # "accept" BY <1>2, <1>7 DEF Elems
  <2>2. \A v \in Worker : pc'[v] # "accept" BY <1>7, <1>8
  <2> QED BY <2>1, <2>2, ArrivingElems
<1>18. Stages'
  <2>1. \A d \in Conn : Early(d)' => Early(d) /\ d # c
    BY <1>2, <1>6, <1>17 DEF Early, Elems
  <2>2. \A d \in Conn : Early(d)' => Quiet(d)' /\ \A q \in Slot : session'[q].conn # d
    BY <1>10, <1>16, <2>1 DEF Inv, Stages
  <2> QED BY <1>2, <1>17, <2>2 DEF Inv, Stages, Distinct, Elems
<1>19. OneSession' BY <1>6, <1>10 DEF Inv, OneSession
<1>20. Registering'
  <2> SUFFICES ASSUME NEW v \in Worker, pc'[v] = "register"
               PROVE  Quiet(op[v].conn)' /\ session'[op'[v].key].conn = op'[v].conn
    BY DEF Registering
  <2>1. v = w BY <1>7, <1>8
  <2>2. Quiet(c)' BY <1>4, <1>6, <1>16
  <2>3. Quiet(op[v].conn)' BY <1>9, <2>1, <2>2 DEF Quiet
  <2> QED BY <1>9, <1>10, <2>1, <2>3
<1>21. ASSUME NEW q \in Slot \ {s}, session'[q].conn # None
       PROVE  /\ session'[q] = session[q] /\ session[q].conn \in Conn
              /\ Outstanding(session[q].conn, "recv")' = Outstanding(session[q].conn, "recv")
              /\ Outstanding(session[q].conn, "send")' = Outstanding(session[q].conn, "send")
  <2>1. session'[q] = session[q] BY <1>10
  <2>2. session[q].conn \in Conn BY <1>21, <2>1, SessionLate DEF Inv
  <2>3. PICK d \in Conn : d = session[q].conn /\ d = session'[q].conn BY <2>1, <2>2
  <2>4. Outstanding(d, "recv")' = Outstanding(d, "recv") /\ Outstanding(d, "send")' = Outstanding(d, "send")
    BY <1>14 DEF SameCounts, Kind
  <2>5. Outstanding(session[q].conn, "recv")' = Outstanding(d, "recv")'
    BY <2>3 DEF Outstanding
  <2>6. Outstanding(session[q].conn, "send")' = Outstanding(d, "send")'
    BY <2>3 DEF Outstanding
  <2> QED BY <2>1, <2>2, <2>3, <2>4, <2>5, <2>6
<1>22. Recvs'
  <2> SUFFICES ASSUME NEW q \in Slot, Registered(q)'
               PROVE  Outstanding(session[q].conn, "recv")' =
                        IF session'[q].conn \in deaf' THEN 0 ELSE 1
    BY DEF Recvs
  <2>1. session'[q].conn # None /\ q # s BY <1>8, <1>9 DEF Registered
  <2>2. session'[q] = session[q] BY <1>10, <2>1
  <2>3. Registered(q) BY <1>2, <1>7, <2>1, <2>2 DEF Registered
  <2> QED BY <1>2, <1>21, <2>1, <2>2, <2>3 DEF Inv, Recvs
<1>23. Sends'
  <2> SUFFICES ASSUME NEW q \in Slot, session'[q].conn # None
               PROVE  /\ Outstanding(session[q].conn, "send")' <= 1
                      /\ session'[q].data > 0 => session'[q].sending
                      /\ ~session'[q].sending => Outstanding(session[q].conn, "send")' = 0
                      /\ peer'[session'[q].conn] = "open" /\ session'[q].sending =>
                           Outstanding(session[q].conn, "send")' = 1
    BY DEF Sends
  <2>1. CASE q # s
    BY <1>2, <1>21, <2>1 DEF Inv, Sends
  <2>2. CASE q = s
    <3>1. Outstanding(c, "send")' = 0 BY <1>4, <1>6, <1>14 DEF SameCounts, Quiet, Kind
    <3>2. Outstanding(session[q].conn, "send")' = Outstanding(c, "send")'
      BY <1>10, <2>2 DEF Outstanding
    <3> QED BY <1>10, <2>2, <3>1, <3>2
  <2> QED BY <2>1, <2>2
<1> QED BY <1>12, <1>13, <1>15, <1>18, <1>19, <1>20, <1>22, <1>23 DEF Inv

\* What Register posts: a WSARecv or none, an AcceptEx or none.
LEMMA RegisterPosts ==
  ASSUME NEW w \in Worker, Register(w)
  PROVE  \E recv, acc \in BOOLEAN :
           /\ pending' = pending
                \cup (IF recv THEN {Operation(op[w].key, op[w].conn, "recv", 0)} ELSE {})
                \cup (IF acc THEN {AcceptEx} ELSE {})
           /\ deaf' = deaf \cup (IF recv THEN {} ELSE {op[w].conn})
           /\ stopped' = IF acc THEN stopped ELSE TRUE
<1> USE DEF PostRecvOperation, Reposted, NextAccept
<1>1. CASE PostRecvOperation(op[w], NextAccept) /\ UNCHANGED stopped
  <2>1. CASE pending' = pending \cup Reposted(op[w]) \cup NextAccept /\ UNCHANGED deaf
    <3> WITNESS TRUE \in BOOLEAN, TRUE \in BOOLEAN
    <3> QED BY <1>1, <2>1
  <2>2. CASE pending' = pending \cup NextAccept /\ deaf' = deaf \cup {op[w].conn}
    <3> WITNESS FALSE \in BOOLEAN, TRUE \in BOOLEAN
    <3> QED BY <1>1, <2>2
  <2> QED BY <1>1, <2>1, <2>2
<1>2. CASE PostRecvOperation(op[w], {}) /\ stopped' = TRUE
  <2>1. CASE pending' = pending \cup Reposted(op[w]) \cup {} /\ UNCHANGED deaf
    <3> WITNESS TRUE \in BOOLEAN, FALSE \in BOOLEAN
    <3> QED BY <1>2, <2>1
  <2>2. CASE pending' = pending \cup {} /\ deaf' = deaf \cup {op[w].conn}
    <3> WITNESS FALSE \in BOOLEAN, FALSE \in BOOLEAN
    <3> QED BY <1>2, <2>2
  <2> QED BY <1>2, <2>1, <2>2
<1>3. CASE deaf' = deaf \cup {op[w].conn} /\ stopped' = TRUE /\ UNCHANGED pending
  <2> WITNESS FALSE \in BOOLEAN, FALSE \in BOOLEAN
  <2> QED BY <1>3
<1> QED BY <1>1, <1>2, <1>3 DEF Register

LEMMA RegisterKeeps ==
  ASSUME Inv, NEW w \in Worker, Register(w)
  PROVE  Inv'
<1>1. PICK o : o = op[w] OBVIOUS
<1>2. /\ pc[w] = "register" /\ Goto(w, "idle")
      /\ UNCHANGED <<peer, unread, backlog, port, session, msgs, op>>
  BY DEF Register
<1>3. /\ o.key \in Slot /\ o.conn \in Conn
      /\ Quiet(o.conn) /\ session[o.key].conn = o.conn /\ o.conn # None
  BY <1>1, <1>2, NoneOutside DEF Inv, InHands, Registering
<1>4. PICK recv, acc \in BOOLEAN :
           /\ pending' = pending
                \cup (IF recv THEN {Operation(o.key, o.conn, "recv", 0)} ELSE {})
                \cup (IF acc THEN {AcceptEx} ELSE {})
           /\ deaf' = deaf \cup (IF recv THEN {} ELSE {o.conn})
           /\ stopped' = IF acc THEN stopped ELSE TRUE
  BY <1>1, RegisterPosts
<1>5. /\ AcceptEx \notin pending /\ ~stopped
      /\ \A v \in Worker \ {w} : pc[v] \notin {"accept", "register"}
  BY <1>2, OneAccept DEF Inv
<1>6. /\ pc' \in [Worker -> Label] /\ pc'[w] = "idle"
      /\ \A v \in Worker \ {w} : pc'[v] = pc[v]
  BY <1>2 DEF Inv, Types, Goto, Label
<1>7. PICK x : x = Operation(o.key, o.conn, "recv", 0) OBVIOUS
<1>8. x \in IoOp /\ x.conn = o.conn /\ x.kind = "recv"
  BY <1>3, <1>7 DEF Operation, IoOp, Op, Kind
<1>9. x \notin pending
  <2>1. Outstanding(o.conn, "recv") = 0 BY <1>3 DEF Quiet, Kind
  <2>2. \A y \in pending : ~Is(y, o.conn, "recv") BY <2>1, Naturals DEF Inv
  <2> QED BY <1>8, <2>2 DEF Is
<1>10. PICK P : P = pending \cup (IF recv THEN {x} ELSE {}) OBVIOUS
<1>11. /\ P \subseteq IoOp /\ IsFiniteSet(P) /\ AcceptEx \notin P
       /\ \A c, kind : KernelN(P, c, kind) = KernelN(pending, c, kind)
                         + (IF recv /\ c = o.conn /\ kind = "recv" THEN 1 ELSE 0)
  <2>1. \A c, kind : KernelN(pending, c, kind) \in Nat BY Naturals DEF Inv
  <2>2. pending \subseteq IoOp /\ IsFiniteSet(pending) BY <1>5 DEF Inv, Types
  <2>3. x # AcceptEx BY <1>8, AcceptExIs
  <2>4. CASE recv
    <3>1. P = pending \cup {x} BY <1>10, <2>4
    <3>2. IsFiniteSet(P) BY <2>2, <3>1, FS_AddElement
    <3>3. \A c, kind : KernelN(P, c, kind) = KernelN(pending, c, kind) + One(Is(x, c, kind))
      BY <1>9, <2>2, <3>1, KernelAdd
    <3>4. \A c, kind : One(Is(x, c, kind)) = IF recv /\ c = o.conn /\ kind = "recv" THEN 1 ELSE 0
      BY <1>8, <2>4 DEF One, Is
    <3>5. P \subseteq IoOp /\ AcceptEx \notin P BY <1>5, <1>8, <2>2, <2>3, <3>1
    <3> QED BY <3>2, <3>3, <3>4, <3>5
  <2>5. CASE ~recv
    <3>1. P = pending BY <1>10, <2>5
    <3> QED BY <1>5, <2>1, <2>2, <2>5, <3>1
  <2> QED BY <2>4, <2>5
<1>12. /\ pending' \subseteq IoOp \cup {AcceptEx} /\ IsFiniteSet(pending')
       /\ One(AcceptEx \in pending') = IF acc THEN 1 ELSE 0
       /\ \A c \in Conn, kind \in Kind : KernelN(pending', c, kind) = KernelN(P, c, kind)
  <2>1. pending' = P \cup (IF acc THEN {AcceptEx} ELSE {}) BY <1>4, <1>7, <1>10
  <2>2. CASE acc
    <3>1. pending' = P \cup {AcceptEx} BY <2>1, <2>2
    <3>2. IsFiniteSet(pending') BY <1>11, <3>1, FS_AddElement
    <3>3. AcceptEx \in pending' /\ pending' \subseteq IoOp \cup {AcceptEx} BY <1>11, <3>1
    <3>4. One(AcceptEx \in pending') = 1 BY <3>3 DEF One
    <3>5. ASSUME NEW c \in Conn, NEW kind \in Kind PROVE KernelN(pending', c, kind) = KernelN(P, c, kind)
      <4>1. kind # "accept" BY DEF Kind
      <4>2. ~Is(AcceptEx, c, kind) BY <4>1, AcceptExIs DEF Is
      <4>3. {y \in pending' : Is(y, c, kind)} = {y \in P : Is(y, c, kind)} BY <3>1, <4>2
      <4> QED BY <4>3 DEF KernelN
    <3> QED BY <2>2, <3>2, <3>3, <3>4, <3>5
  <2>3. CASE ~acc
    <3>1. pending' = P BY <2>1, <2>3
    <3>2. One(AcceptEx \in pending') = 0 BY <1>11, <3>1 DEF One
    <3> QED BY <1>11, <2>3, <3>1, <3>2
  <2> QED BY <2>2, <2>3
<1>13. \A c \in Conn, kind \in Kind : Outstanding(c, kind)' = Outstanding(c, kind)
                               + (IF recv /\ c = o.conn /\ kind = "recv" THEN 1 ELSE 0)
  <2> SUFFICES ASSUME NEW c \in Conn, NEW kind \in Kind
               PROVE  Outstanding(c, kind)' = Outstanding(c, kind)
                        + (IF recv /\ c = o.conn /\ kind = "recv" THEN 1 ELSE 0)
    OBVIOUS
  <2>1. KernelN(pending', c, kind) = KernelN(pending, c, kind)
                         + (IF recv /\ c = o.conn /\ kind = "recv" THEN 1 ELSE 0)
    BY <1>11, <1>12
  <2>2. HandN(pc', op', c, kind) = HandN(pc, op, c, kind)
    <3>1. /\ HandN(pc', op', c, kind) = HandN(pc, op, c, kind)
              + One(pc'[w] = "handle" /\ Is(op'[w], c, kind))
              - One(pc[w] = "handle" /\ Is(op[w], c, kind))
          /\ HandN(pc, op, c, kind) \in Nat
      BY <1>2, <1>6, HandStep
    <3>2. One(pc[w] = "handle" /\ Is(op[w], c, kind)) = 0
          /\ One(pc'[w] = "handle" /\ Is(op'[w], c, kind)) = 0
      BY <1>2, <1>6 DEF One
    <3> QED BY <3>1, <3>2
  <2>3. /\ KernelN(pending, c, kind) \in Nat /\ PortN(port, c, kind) \in Nat
        /\ HandN(pc, op, c, kind) \in Nat
    BY Naturals DEF Inv
  <2>4. port' = port BY <1>2
  <2> QED BY <2>1, <2>2, <2>3, <2>4, Parts, PartsPrime
<1>14. Types'
  <2>1. deaf' \subseteq Conn /\ stopped' \in BOOLEAN BY <1>3, <1>4 DEF Inv, Types
  <2> QED BY <1>2, <1>6, <1>12, <2>1 DEF Inv, Types
<1>15. InHands' BY <1>2, <1>6 DEF Inv, InHands
<1>16. AcceptGoesOn'
  <2>1. BusyN(pc') = BusyN(pc) + One(pc'[w] \in {"accept", "register"})
                               - One(pc[w] \in {"accept", "register"})
        /\ BusyN(pc) \in Nat /\ BusyN(pc') \in Nat
    BY <1>6, BusyMoves
  <2>2. One(pc[w] \in {"accept", "register"}) = 1 /\ One(pc'[w] \in {"accept", "register"}) = 0
    BY <1>2, <1>6 DEF One
  <2>3. PortAcceptN(port) \in Nat BY PortNat DEF Inv, Types, PortOp
  <2>4. One(AcceptEx \in pending) = 0 BY <1>5 DEF One
  <2>5. One(AcceptEx \in pending) + PortAcceptN(port) + BusyN(pc) = 1 BY <1>5, AcceptParts DEF Inv
  <2>6. PortAcceptN(port) = 0 /\ BusyN(pc') = 0 BY <2>1, <2>2, <2>3, <2>4, <2>5
  <2>7. port' = port BY <1>2
  <2> QED BY <1>4, <1>5, <1>12, <2>6, <2>7, AcceptPrime
<1>17. \A c, kind : Outstanding(c, kind) \in Nat BY Naturals DEF Inv
<1>18. OnlyOn(o.key, o.conn)
  <2>1. \A c \in Conn \ {o.conn}, kind \in Kind : Outstanding(c, kind)' = Outstanding(c, kind)
    BY <1>13, <1>17
  <2>2. \A c \in Conn \ {o.conn} : c \in deaf' <=> c \in deaf BY <1>4
  <2>3. \A v \in Worker : pc'[v] # "register" /\ (pc'[v] = "accept" => pc[v] = "accept")
    BY <1>5, <1>6
  <2>4. \A c \in Conn : Arriving(c)' => Arriving(c) BY <1>2, <2>3, ArrivingElems
  <2>5. \A v \in Worker : pc[v] = "register" => op[v].key = o.key BY <1>1, <1>5
  <2> QED BY <1>2, <1>3, <2>1, <2>2, <2>3, <2>4, <2>5 DEF OnlyOn
<1>19. RecvOf(o.key, o.conn)'
  <2>1. Outstanding(o.conn, "recv") = 0 /\ o.conn \notin deaf BY <1>3 DEF Quiet, Kind
  <2>2. Outstanding(o.conn, "recv")' = IF recv THEN 1 ELSE 0
    BY <1>3, <1>13, <2>1 DEF Kind
  <2>3. o.conn \in deaf' <=> ~recv BY <1>4, <2>1
  <2> QED BY <2>2, <2>3 DEF RecvOf
<1>20. SendOf(o.key, o.conn)'
  <2>1. SendOf(o.key, o.conn) BY <1>3 DEF Inv, Sends, SendOf
  <2>2. Outstanding(o.conn, "send")' = Outstanding(o.conn, "send") BY <1>3, <1>13, <1>17 DEF Kind
  <2>3. session' = session /\ peer' = peer BY <1>2
  <2> QED BY <2>1, <2>2, <2>3 DEF SendOf
<1>21. Stages' /\ OneSession' /\ Registering' /\ Recvs' /\ Sends'
  BY <1>3, <1>18, <1>19, <1>20, OnlyOnKeeps
<1> QED BY <1>14, <1>15, <1>16, <1>21 DEF Inv
-----------------------------------------------------------------------------
LEMMA InitInv ==
  ASSUME Init PROVE Inv
<1> USE DEF Init
<1>1. IsFiniteSet(pending) BY FS_Singleton
<1>2. sent \in [Conn -> Nat] /\ unread \in [Conn -> Nat] OBVIOUS
<1>3. Types
  <2>1. session \in [Slot -> SessionSet] BY DEF SessionSet, Free, None
  <2>2. op \in [Worker -> Op] /\ pc \in [Worker -> Label] BY AcceptExIs DEF Label
  <2>3. backlog \in Seq(Conn) /\ port \in Seq(IoOp \cup AcceptOp) /\ msgs \in Seq(MsgSet) OBVIOUS
  <2> QED BY <1>1, <1>2, <2>1, <2>2, <2>3 DEF Types
<1>4. InHands BY DEF InHands
<1>5. Len(port) = 0 /\ Len(backlog) = 0 /\ Len(msgs) = 0 OBVIOUS
<1>6. Elems(port) = {} /\ Elems(backlog) = {} /\ Elems(msgs) = {} BY <1>5 DEF Elems
<1>7. ASSUME NEW c \in Conn, NEW kind \in Kind PROVE Outstanding(c, kind) = 0
  <2>1. {o \in pending : o.conn = c /\ o.kind = kind} = {} BY AcceptExIs, NoneOutside
  <2>2. {i \in 1 .. Len(port) : port[i].conn = c /\ port[i].kind = kind} = {} BY <1>5
  <2>3. {w \in Worker : pc[w] = "handle" /\ op[w].conn = c /\ op[w].kind = kind} = {} OBVIOUS
  <2>4. Cardinality({}) = 0 BY FS_EmptySet
  <2>5. KernelN(pending, c, kind) = 0 BY <2>1, <2>4 DEF KernelN, Is
  <2>6. PortN(port, c, kind) = 0 BY <2>2, <2>4 DEF PortN, Is
  <2>7. HandN(pc, op, c, kind) = 0 BY <2>3, <2>4 DEF HandN, Is
  <2>8. Outstanding(c, kind) =
          KernelN(pending, c, kind) + PortN(port, c, kind) + HandN(pc, op, c, kind)
    BY Parts, Zenon
  <2>9. 0 + 0 + 0 = 0 OBVIOUS
  <2> QED BY <2>5, <2>6, <2>7, <2>8, <2>9, Zenon
<1>8. AcceptGoesOn
  <2>1. One(AcceptEx \in pending) = 1 BY DEF One
  <2>2. {i \in 1 .. Len(port) : port[i].kind = "accept"} = {} BY <1>5
  <2>3. {w \in Worker : pc[w] \in {"accept", "register"}} = {} OBVIOUS
  <2>4. PortAcceptN(port) = 0 /\ BusyN(pc) = 0 BY <2>2, <2>3, FS_EmptySet DEF PortAcceptN, BusyN
  <2> QED BY <2>1, <2>4, AcceptParts
<1>9. \A s \in Slot : session[s].conn = None BY DEF Free
<1>10. Stages
  <2>1. Distinct(backlog) BY <1>5 DEF Distinct
  <2>2. \A c \in Conn : ~Arriving(c) BY <1>6, ArrivingElems
  <2>3. \A c \in Conn : Quiet(c) BY <1>6, <1>7 DEF Quiet
  <2> QED BY <1>6, <1>9, <2>1, <2>2, <2>3, NoneOutside DEF Stages
<1>11. OneSession /\ Recvs /\ Sends BY <1>9 DEF OneSession, Recvs, Sends, Registered
<1>12. Registering BY DEF Registering
<1> QED BY <1>3, <1>4, <1>8, <1>10, <1>11, <1>12 DEF Inv

LEMMA NextInv ==
  ASSUME Inv, [Next]_vars PROVE Inv'
<1>1. CASE PeerStep
  BY <1>1, PeerConnectKeeps, PeerSendKeeps, PeerCloseKeeps DEF PeerStep
<1>2. CASE KernelStep
  BY <1>2, KernelAcceptKeeps, KernelRecvKeeps, KernelSendKeeps DEF KernelStep
<1>3. CASE Notified BY <1>3, NotifiedKeeps
<1>4. CASE SendMsg BY <1>4, SendMsgKeeps
<1>5. CASE \E w \in Worker : WorkerStep(w)
  BY <1>5, GetKeeps, StaleKeeps, AcceptFailsKeeps, CreateSessionKeeps, RegisterKeeps,
     RecvHandlerKeeps, SendHandlerKeeps, CloseHandlerKeeps DEF WorkerStep
<1>6. CASE UNCHANGED vars
  BY <1>6, OthersKeep, SameMsgs DEF vars, kernel, Inv, Types
<1> QED BY <1>1, <1>2, <1>3, <1>4, <1>5, <1>6 DEF Next

LEMMA PortInvariant == Spec => []Inv
<1>1. Init => Inv BY InitInv
<1>2. Inv /\ [Next]_vars => Inv' BY NextInv
<1> QED BY <1>1, <1>2, PTL DEF Spec

\* AcceptGoesOn, for any number of workers: until an accept fails there is one AcceptEx on
\* its way or one worker in AcceptHandler, never two on one m_AcceptSock, and after it none.
THEOREM PortAcceptGoesOn == Spec => []AcceptGoesOn
<1>1. Inv => AcceptGoesOn BY DEF Inv
<1> QED BY <1>1, PortInvariant, PTL

\* OneRecv, for any number of sessions and connections: a registered session has exactly
\* one WSARecv in the kernel, the port or a worker's hands, or none after a failure.
THEOREM PortOneRecv == Spec => []OneRecv
<1>1. Inv => OneRecv BY DEF Inv, Recvs, OneRecv
<1> QED BY <1>1, PortInvariant, PTL

\* SendingIsTrue, for any number of sessions, connections and requests: m_Sending says
\* whether a WSASend is on its way, and there is never more than one.
THEOREM PortSendingIsTrue == Spec => []SendingIsTrue
<1>1. ASSUME Inv PROVE SendingIsTrue
  <2>1. \A s \in Slot : session[s].sending \in BOOLEAN BY <1>1 DEF Inv, Types, SessionSet
  <2> QED BY <1>1, <2>1 DEF Inv, Sends, SendingIsTrue
<1> QED BY <1>1, PortInvariant, PTL
=============================================================================
