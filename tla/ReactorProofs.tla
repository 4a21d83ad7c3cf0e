----------------------------- MODULE ReactorProofs -----------------------------
(***************************************************************************)
(* Proofs about Reactor and Client where the code is safe, for any number  *)
(* of sessions, connections, messages and failing system calls: the server *)
(* with one worker and peers that wait for their answers and find a free   *)
(* session, then the client with one worker beside its main thread.        *)
(***************************************************************************)
EXTENDS Client, ListLemmas

\* One worker thread; the peers of SampleClient; no more of them than sessions.
Benign ==
  /\ \E w : Worker = {w}
  /\ Polite = {TRUE}
  /\ ~Crowded

(***************************************************************************)
(* The inductive invariant.                                                *)
(***************************************************************************)
SessionOp == [slot : Slot, type : {"RECV", "SEND", "CLOSE"}, conn : Conn]
OpSet == SessionOp \cup {Reference(ACCEPT, "RECV", None)}
HandSet == [slot : Slot \cup {ACCEPT}, type : {"", "ACCEPT", "RECV", "SEND", "CLOSE"},
            conn : Conn \cup {None}]
LiveMsg == [slot : Slot, type : {"ACCEPT", "RECV"}, conn : Conn]
MsgSet == LiveMsg \cup [slot : {None}, type : {"CLOSE"}, conn : Conn]
MainMsg == [slot : Slot \cup {None}, type : {"", "ACCEPT", "RECV", "CLOSE"},
            conn : Conn \cup {None}]
SessionSet == [m_ID : Slot, m_Sock : FD, answers : Nat, conn : Conn \cup {None}]
Label == {"idle", "call", "ACCEPT", "NOTIFY", "REGISTER", "RECV", "SEND", "CLOSE",
          "DESTROY", "UNLOCK"}
InSendMsg == {"GetID", "SendMsg", "Complete"}
MainLabel == {"Bind", "RegisterSocket", "wait"} \cup InSendMsg
Note == {"ACCEPT", "RECV", "CLOSE"}

NetTypes ==
  /\ polite = TRUE
  /\ peer \in [Conn -> {"none", "open", "finished"}]
  /\ sent \in [Conn -> Nat] /\ answered \in [Conn -> Nat] /\ unread \in [Conn -> Nat]

KernelTypes ==
  /\ file \in [FD -> Conn \cup {None}] /\ backlog \in Seq(Conn)
  /\ listener \in {"none", "listening", "registered", "deaf"} /\ listenEdge \in BOOLEAN
  /\ registered \in [Conn -> Slot \cup {None}] /\ edge \in [Conn -> BOOLEAN]

PoolTypes ==
  /\ session \in [Slot -> SessionSet]
  /\ m_FreeList \in Seq(Slot) /\ freeIDs \in Seq(Slot) /\ active \in [Slot -> BOOLEAN]

ThreadTypes ==
  /\ events \subseteq OpSet /\ queue \in Seq(OpSet)
  /\ pc \in [Worker -> Label] /\ op \in [Worker -> HandSet]

MainTypes ==
  /\ msgs \in Seq(MsgSet) /\ mainPc \in MainLabel /\ msg \in MainMsg /\ id \in Slot

GhostTypes ==
  /\ fault = FALSE
  /\ failures \in 0 .. FailMax /\ stranded \subseteq Conn
  /\ notified \in [Conn -> Seq(Note)]

Types ==
  NetTypes /\ KernelTypes /\ PoolTypes /\ ThreadTypes /\ MainTypes /\ GhostTypes

Live == Slot \ Elems(m_FreeList)
Closing(s) == \E w \in Worker : pc[w] = "DESTROY" /\ op[w].slot = s
Notifying(s) == \E w \in Worker : pc[w] = "NOTIFY" /\ op[w].slot = s

\* What the worker has in its hands.
InHands ==
  \A w \in Worker :
    /\ pc[w] = "call" => op[w] \in OpSet
    /\ pc[w] \in {"RECV", "SEND", "CLOSE"} => op[w] \in SessionOp /\ op[w].type = pc[w]
    /\ pc[w] = "DESTROY" => op[w] \in SessionOp /\ op[w].type = "CLOSE"
    /\ pc[w] \in {"NOTIFY", "REGISTER"} =>
         op[w].slot \in Slot /\ op[w].type = "ACCEPT" /\ op[w].conn \in Conn
    /\ pc[w] = "ACCEPT" =>
         op[w].slot = ACCEPT \/ (op[w].slot \in Slot /\ op[w].type = "ACCEPT")

\* Slots and ids that are out are out once, and a session has a connection of its own.
Pool ==
  /\ Distinct(m_FreeList) /\ Distinct(freeIDs) /\ Len(m_FreeList) = Len(freeIDs)
  /\ \A s \in Live : session[s].conn # None /\ session[s].m_ID \notin Elems(freeIDs)
  /\ \A s, t \in Live :
       session[s].m_ID = session[t].m_ID \/ session[s].conn = session[t].conn => s = t

\* A session has its socket until Close, and there are no other sockets.
Sockets ==
  /\ \A s \in Live : ~Closing(s) => file[session[s].m_Sock] = session[s].conn
  /\ \A f \in FD : file[f] # None => \E s \in Live : ~Closing(s) /\ session[s].m_Sock = f

\* A connection without a session yet.
Early(c) == peer[c] = "none" \/ c \in Elems(backlog)

Arriving ==
  /\ Distinct(backlog) /\ Len(backlog) <= Len(m_FreeList)
  /\ \A c \in Elems(backlog) : peer[c] # "none"
  /\ \A c \in Conn : Early(c) =>
       /\ answered[c] = 0 /\ registered[c] = None /\ notified[c] = << >>
       /\ \A s \in Live : session[s].conn # c

\* A polite peer has at most one request without an answer, and none when it closes.
Requests ==
  \A c \in Conn :
    /\ sent[c] <= RequestMax
    /\ answered[c] <= sent[c] /\ sent[c] <= answered[c] + 1
    /\ unread[c] <= sent[c] - answered[c]
    /\ peer[c] = "none" => sent[c] = 0
    /\ peer[c] = "finished" => sent[c] = answered[c] /\ sent[c] > 0

\* The main thread is in SendMsg for c; a request of c is in msgs or in SendMsg.
Serving(c) == mainPc \in InSendMsg /\ msg.conn = c
Waiting(c) == \E i \in 1 .. Len(msgs) : msgs[i].type = "RECV" /\ msgs[i].conn = c
Taken(c) == Serving(c) \/ Waiting(c)

\* epoll knows of a session under its own connection, and a session that it does not
\* know has not been served.
Registrations ==
  /\ \A c \in Conn : registered[c] # None =>
       registered[c] \in Live /\ session[registered[c]].conn = c
  /\ \A s \in Live : registered[session[s].conn] = None /\ ~Closing(s) =>
       answered[session[s].conn] = 0
  /\ \A c \in Conn : edge[c] =>
       /\ registered[c] # None
       /\ unread[c] = 1 \/ peer[c] = "finished" \/ answered[c] = 0
  /\ \A w \in Worker : pc[w] \in {"NOTIFY", "REGISTER"} => registered[op[w].conn] = None

\* Why an operation is there.  A SEND comes of the registration alone.
Due(r) ==
  /\ r.type = "SEND" => answered[r.conn] = 0 /\ peer[r.conn] = "open"
  /\ r.type = "RECV" => unread[r.conn] = 1 \/ peer[r.conn] = "finished"
  /\ r.type = "CLOSE" => peer[r.conn] = "finished"

InHand(w) == pc[w] \in {"call", "RECV", "SEND", "CLOSE"} /\ op[w] \in SessionOp

Operations ==
  /\ \A r \in events \cup Elems(queue) : r \in SessionOp =>
       Due(r) /\ registered[r.conn] = r.slot
  /\ \A w \in Worker : InHand(w) => Due(op[w]) /\ registered[op[w].conn] = op[w].slot
  /\ \A w \in Worker : pc[w] = "DESTROY" =>
       Due(op[w]) /\ registered[op[w].conn] = None
  /\ \A w \in Worker : pc[w] \notin {"idle", "UNLOCK"} /\ op[w].slot # ACCEPT =>
       op[w].slot \in Live /\ session[op[w].slot].conn = op[w].conn

\* Nothing of c follows in the queue, in events or in epoll's ready list.
NoEvent(c) == ~edge[c] /\ \A r \in events : r.conn # c
NoneAfter(c, i) ==
  NoEvent(c) /\ \A j \in 1 .. Len(queue) : j > i => queue[j].conn # c

\* After a RECV or a CLOSE of a connection there is no other operation for it.
Last ==
  /\ \A w \in Worker : (InHand(w) \/ pc[w] = "DESTROY") /\ op[w].type # "SEND" =>
       NoneAfter(op[w].conn, 0)
  /\ \A i \in 1 .. Len(queue) : queue[i] \in SessionOp /\ queue[i].type # "SEND" =>
       NoneAfter(queue[i].conn, i)
  /\ \A r \in events : r \in SessionOp =>
       /\ r.type # "CLOSE"
       /\ \A q \in events : q.conn = r.conn => q = r
       /\ r.type # "SEND" => ~edge[r.conn]

\* While a request is on its way through the main thread no operation of its
\* connection exists, and it is there once.
Served ==
  /\ \A c \in Conn : Taken(c) =>
       /\ unread[c] = 0 /\ sent[c] = answered[c] + 1 /\ registered[c] # None
       /\ NoneAfter(c, 0)
       /\ \A w \in Worker : InHand(w) => op[w].conn # c
  /\ \A c \in Conn : ~(Serving(c) /\ Waiting(c))
  /\ \A i, j \in 1 .. Len(msgs) :
       msgs[i].type = "RECV" /\ msgs[j].type = "RECV" /\ msgs[i].conn = msgs[j].conn => i = j
  /\ \A s \in Live :
       session[s].answers = IF mainPc = "Complete" /\ msg.slot = s THEN 1 ELSE 0

\* The handler has a Session* that exists; OnAccept comes before the first answer.
Messages ==
  /\ \A i \in 1 .. Len(msgs) : msgs[i].type # "CLOSE" =>
       msgs[i].slot \in Live /\ session[msgs[i].slot].conn = msgs[i].conn
  /\ mainPc \in InSendMsg => msg.slot \in Live /\ session[msg.slot].conn = msg.conn
  /\ \A i \in 1 .. Len(msgs) : msgs[i].type = "ACCEPT" =>
       /\ answered[msgs[i].conn] = 0 /\ ~Serving(msgs[i].conn)
       /\ \A j \in 1 .. i : msgs[j].type = "RECV" => msgs[j].conn # msgs[i].conn

Activity == \A s \in Live : peer[session[s].conn] = "open" => active[session[s].m_ID]

\* What the application has been told.
Told ==
  /\ \A c \in Conn : \A i \in 1 .. Len(notified[c]) :
       /\ notified[c][i] = "ACCEPT" <=> i = 1
       /\ notified[c][i] = "CLOSE" => i = Len(notified[c])
  /\ \A s \in Live : ~Closing(s) =>
       /\ notified[session[s].conn] = << >> <=> Notifying(s)
       /\ "CLOSE" \notin Elems(notified[session[s].conn])

Inv ==
  /\ Types /\ InHands /\ Pool /\ Sockets /\ Arriving /\ Requests /\ Registrations
  /\ Operations /\ Last /\ Served /\ Messages /\ Activity /\ Told
-----------------------------------------------------------------------------
(***************************************************************************)
(* The constants, and what an action leaves alone.                         *)
(***************************************************************************)
LEMMA Constants ==
  /\ None \notin Conn /\ None \notin Slot /\ ACCEPT \notin Slot /\ ACCEPT # None
  /\ Conn \subseteq Nat \ {0} /\ Slot \subseteq Nat \ {0} /\ FD = Conn /\ None \in Nat
  /\ ConnMax \in Nat \ {0} /\ Amount \in Nat \ {0} /\ RequestMax \in Nat /\ FailMax \in Nat
  BY ReactorAssumption DEF Conn, Slot, None, FD

LEMMA SameElems == ASSUME NEW s PROVE RangeOf(s) = Elems(s)
  BY DEF RangeOf, Elems

LEMMA FrameInHands == ASSUME InHands, UNCHANGED <<pc, op>> PROVE InHands'
  BY DEF InHands

LEMMA FramePool ==
  ASSUME Pool, UNCHANGED <<m_FreeList, freeIDs, session>> PROVE Pool'
  BY DEF Pool, Live

LEMMA FrameSockets ==
  ASSUME Sockets, UNCHANGED <<m_FreeList, session, file, pc, op>> PROVE Sockets'
  BY DEF Sockets, Live, Closing

LEMMA FrameArriving ==
  ASSUME Arriving, UNCHANGED <<backlog, m_FreeList, peer, answered, registered, notified, session>>
  PROVE  Arriving'
  BY DEF Arriving, Live, Early

LEMMA FrameRequests ==
  ASSUME Requests, UNCHANGED <<sent, answered, unread, peer>> PROVE Requests'
  BY DEF Requests

LEMMA FrameRegistrations ==
  ASSUME Registrations,
         UNCHANGED <<registered, m_FreeList, session, pc, op, answered, edge, unread, peer>>
  PROVE  Registrations'
  BY DEF Registrations, Live, Closing

LEMMA FrameOperations ==
  ASSUME Operations, UNCHANGED <<events, queue, pc, op, registered, answered, unread, peer,
                                 m_FreeList, session>>
  PROVE  Operations'
  BY DEF Operations, Live, InHand, Due

LEMMA FrameLast ==
  ASSUME Last, UNCHANGED <<pc, op, queue, events, edge>> PROVE Last'
  BY DEF Last, InHand, NoneAfter, NoEvent

LEMMA FrameServed ==
  ASSUME Served, UNCHANGED <<msgs, mainPc, msg, unread, sent, answered, registered, queue, events,
                             edge, pc, op, session, m_FreeList>>
  PROVE  Served'
  BY DEF Served, Taken, Serving, Waiting, NoneAfter, NoEvent, InHand, Live

LEMMA FrameMessages ==
  ASSUME Messages, UNCHANGED <<msgs, m_FreeList, session, mainPc, msg, answered>> PROVE Messages'
  BY DEF Messages, Live, Serving

LEMMA FrameActivity ==
  ASSUME Activity, UNCHANGED <<m_FreeList, session, peer, active>> PROVE Activity'
  BY DEF Activity, Live

LEMMA FrameTold ==
  ASSUME Told, UNCHANGED <<notified, m_FreeList, session, pc, op>> PROVE Told'
  BY DEF Told, Live, Closing, Notifying
-----------------------------------------------------------------------------
(***************************************************************************)
(* The initial states.                                                     *)
(***************************************************************************)
LEMMA InitInv == ASSUME Benign, Init PROVE Inv
<1>0. /\ m_FreeList = [i \in 1 .. Amount |-> i]
      /\ freeIDs = [i \in 1 .. Amount |-> Amount + 1 - i]
      /\ polite = TRUE
  BY DEF Init, InitAt, Benign
<1>1. /\ m_FreeList \in Seq(Slot) /\ Distinct(m_FreeList) /\ Elems(m_FreeList) = Slot
      /\ Len(m_FreeList) = Amount
  <2>1. Slot = 0 + 1 .. 0 + Amount /\ Amount \in Nat /\ 0 \in Int BY Constants DEF Slot
  <2>2. m_FreeList = [i \in 1 .. Amount |-> 0 + i] BY <1>0
  <2>3. m_FreeList \in Seq(Slot) /\ Distinct(m_FreeList) /\ Elems(m_FreeList) = Slot
    BY <2>1, <2>2, CountedList, Zenon
  <2> QED BY <1>0, <2>3, Constants, LenProperties
<1> USE Constants
<1>2. freeIDs \in Seq(Slot) /\ Distinct(freeIDs) /\ Len(freeIDs) = Amount
  <2>1. freeIDs \in [1 .. Amount -> Slot] BY <1>0 DEF Slot
  <2>2. freeIDs \in Seq(Slot) BY <2>1, SeqDef
  <2>3. Len(freeIDs) = Amount BY <2>1, <2>2, LenProperties
  <2>4. Distinct(freeIDs) BY <1>0, <2>3 DEF Distinct
  <2> QED BY <2>2, <2>3, <2>4
<1>3. Live = {} BY <1>1 DEF Live
<1>4. Types
  <2>1. NetTypes BY <1>0 DEF NetTypes, Init, InitAt
  <2>0. \A S : << >> \in Seq(S) BY EmptySeq
  <2>2. KernelTypes
    <3>1. backlog = << >> /\ << >> \in Seq(Conn) BY <2>0 DEF Init, InitAt
    <3> QED BY <3>1 DEF KernelTypes, Init, InitAt
  <2>3. PoolTypes
    <3>1. 1 \in Slot /\ 1 \in FD BY DEF Slot, Conn
    <3> QED BY <1>1, <1>2, <3>1 DEF PoolTypes, Init, InitAt, SessionSet
  <2>4. ThreadTypes
    <3>1. queue = << >> /\ << >> \in Seq(OpSet) BY <2>0 DEF Init, InitAt
    <3>2. Reference(ACCEPT, "", None) \in HandSet BY DEF HandSet, Reference
    <3> QED BY <3>1, <3>2 DEF ThreadTypes, Init, InitAt, Label
  <2>5. MainTypes
    <3>1. msgs = << >> /\ << >> \in Seq(MsgSet) BY <2>0 DEF Init, InitAt
    <3>2. Reference(None, "", None) \in MainMsg BY DEF MainMsg, Reference
    <3>3. 1 \in Slot BY DEF Slot
    <3> QED BY <3>1, <3>2, <3>3 DEF MainTypes, Init, InitAt, MainLabel
  <2>6. GhostTypes
    <3>1. << >> \in Seq(Note) BY <2>0
    <3>2. notified \in [Conn -> Seq(Note)] BY <3>1 DEF Init, InitAt
    <3>3. fault = FALSE /\ failures = 0 /\ stranded = {} BY DEF Init, InitAt
    <3> QED BY <3>2, <3>3 DEF GhostTypes
  <2> QED BY <2>1, <2>2, <2>3, <2>4, <2>5, <2>6 DEF Types
<1>5. /\ backlog = << >> /\ queue = << >> /\ msgs = << >> /\ events = {} /\ mainPc = "Bind"
      /\ \A w \in Worker : pc[w] = "idle"
      /\ \A c \in Conn : /\ peer[c] = "none" /\ sent[c] = 0 /\ answered[c] = 0 /\ unread[c] = 0
                         /\ registered[c] = None /\ ~edge[c] /\ notified[c] = << >>
      /\ \A f \in FD : file[f] = None
  BY DEF Init, InitAt
<1>6. InHands BY <1>5 DEF InHands
<1>7. Pool BY <1>1, <1>2, <1>3 DEF Pool
<1>8. Sockets BY <1>3, <1>5 DEF Sockets
<1>9. Arriving BY <1>1, <1>3, <1>5 DEF Arriving, Early, Elems, Distinct
<1>10. Requests BY <1>5 DEF Requests
<1>11. Registrations BY <1>3, <1>5 DEF Registrations
<1>12. Operations BY <1>5 DEF Operations, Elems, InHand
<1>13. Last BY <1>5 DEF Last, InHand
<1>14. Served BY <1>3, <1>5 DEF Served, Taken, Serving, Waiting, InSendMsg
<1>15. Messages BY <1>5 DEF Messages, InSendMsg
<1>16. Activity BY <1>3 DEF Activity
<1>17. Told BY <1>3, <1>5 DEF Told
<1> QED BY <1>4, <1>6, <1>7, <1>8, <1>9, <1>10, <1>11, <1>12, <1>13, <1>14, <1>15, <1>16, <1>17 DEF Inv
-----------------------------------------------------------------------------
(***************************************************************************)
(* The peers.                                                              *)
(***************************************************************************)
LEMMA PeerConnectStep ==
  ASSUME Benign, Inv, NEW c \in Conn, PeerConnect(c)
  PROVE  Inv'
<1> USE DEF Inv
<1>1. /\ peer[c] = "none" /\ peer' = [peer EXCEPT ![c] = "open"]
      /\ backlog' = Append(backlog, c) /\ Len(backlog) < Len(m_FreeList)
      /\ listenEdge' \in BOOLEAN
  BY DEF PeerConnect, Benign
<1>2. /\ UNCHANGED <<polite, sent, answered, unread, file, listener, registered, edge, events>>
      /\ UNCHANGED <<queue, session, m_FreeList, freeIDs, active, owner, msgs, pc, op>>
      /\ UNCHANGED <<mainPc, msg, id, fault, notified, failures, stranded>>
  BY DEF PeerConnect, mgr, main, failed
<1>3. backlog \in Seq(Conn) /\ Len(backlog) \in Nat /\ Len(m_FreeList) \in Nat
      /\ Len(backlog') = Len(backlog) + 1
  BY <1>1, LenProperties DEF Types, KernelTypes, PoolTypes
<1>4. c \notin Elems(backlog) BY <1>1 DEF Arriving
<1>5. /\ backlog' \in Seq(Conn) /\ Distinct(backlog') /\ Elems(backlog') = Elems(backlog) \cup {c}
  BY <1>1, <1>3, <1>4, AppendElems DEF Arriving
<1>6. peer \in [Conn -> {"none", "open", "finished"}] BY DEF Types, NetTypes
<1>7. Types'
  <2>1. NetTypes' BY <1>1, <1>2 DEF Types, NetTypes
  <2>2. KernelTypes' BY <1>1, <1>2, <1>5 DEF Types, KernelTypes
  <2>3. PoolTypes' /\ ThreadTypes' /\ MainTypes' /\ GhostTypes'
    BY <1>2 DEF Types, PoolTypes, ThreadTypes, MainTypes, GhostTypes
  <2> QED BY <2>1, <2>2, <2>3 DEF Types
<1>8. Arriving'
  <2>1. Early(c) BY <1>1 DEF Early
  <2>2. \A d \in Conn : Early(d)' => Early(d) BY <1>1, <1>5, <1>6, <2>1 DEF Early
  <2>3. \A d \in Elems(backlog) : d \in Conn BY <1>3, ElemsType
  <2>4. \A d \in Elems(backlog') : peer'[d] # "none" BY <1>1, <1>5, <1>6, <2>3 DEF Arriving
  <2>5. Len(backlog') <= Len(m_FreeList') BY <1>1, <1>2, <1>3
  <2> QED BY <1>2, <1>5, <2>2, <2>4, <2>5 DEF Arriving, Live
<1>9. Requests' BY <1>1, <1>2, <1>6 DEF Requests
<1>10. Registrations'
  BY <1>1, <1>2, <1>6 DEF Registrations, Live, Closing
<1>11. Operations'
  <2>1. \A r : r.conn \in Conn /\ Due(r) => Due(r)' BY <1>1, <1>2, <1>6 DEF Due
  <2>2. \A r \in SessionOp : r.conn \in Conn BY DEF SessionOp
  <2>3. \A w \in Worker : pc[w] = "DESTROY" => op[w] \in SessionOp BY DEF InHands
  <2> QED BY <1>2, <2>1, <2>2, <2>3 DEF Operations, Live, InHand
<1>12. Activity'
  <2>1. \A s \in Live : session[s].conn # c BY <1>1 DEF Arriving, Early
  <2>2. \A s \in Live : session[s].conn \in Conn
    BY DEF Pool, Live, Types, PoolTypes, SessionSet
  <2> QED BY <1>1, <1>2, <1>6, <2>1, <2>2 DEF Activity, Live
<1>13. Served' BY <1>2, FrameServed
<1>14. Last' BY <1>2, FrameLast
<1>15. /\ InHands' /\ Pool' /\ Sockets' /\ Messages' /\ Told'
  BY <1>2, FrameInHands, FramePool, FrameSockets, FrameMessages, FrameTold
<1> QED BY <1>7, <1>8, <1>9, <1>10, <1>11, <1>12, <1>13, <1>14, <1>15

\* A request comes when none of its connection is on its way.
LEMMA PeerSendStep ==
  ASSUME Benign, Inv, NEW c \in Conn, PeerSend(c)
  PROVE  Inv'
<1> USE DEF Inv
<1>0. polite = TRUE BY DEF Types, NetTypes
<1>1. /\ peer[c] = "open" /\ sent[c] < RequestMax /\ sent[c] = answered[c]
      /\ sent' = [sent EXCEPT ![c] = @ + 1] /\ unread' = [unread EXCEPT ![c] = @ + 1]
      /\ edge' = [edge EXCEPT ![c] = @ \/ registered[c] # None]
  BY <1>0 DEF PeerSend, Arm
<1>2. /\ UNCHANGED <<polite, peer, answered, file, backlog, listener, listenEdge, registered>>
      /\ UNCHANGED <<events, queue, session, m_FreeList, freeIDs, active, owner, msgs, pc, op>>
      /\ UNCHANGED <<mainPc, msg, id, fault, notified, failures, stranded>>
  BY DEF PeerSend, mgr, main, failed
<1>3. /\ sent \in [Conn -> Nat] /\ unread \in [Conn -> Nat] /\ edge \in [Conn -> BOOLEAN]
      /\ answered \in [Conn -> Nat] /\ RequestMax \in Nat
  BY Constants DEF Types, NetTypes, KernelTypes
<1>4. unread[c] = 0 /\ ~Taken(c)
  <2>1. sent[c] \in Nat /\ answered[c] \in Nat /\ unread[c] \in Nat BY <1>3
  <2>2. unread[c] <= sent[c] - answered[c] BY DEF Requests
  <2>3. unread[c] = 0 BY <1>1, <2>1, <2>2
  <2>4. sent[c] # answered[c] + 1 BY <1>1, <2>1
  <2> QED BY <2>3, <2>4 DEF Served
<1>5. /\ sent'[c] = sent[c] + 1 /\ unread'[c] = 1 /\ (edge'[c] <=> edge[c] \/ registered[c] # None)
      /\ \A d \in Conn \ {c} : sent'[d] = sent[d] /\ unread'[d] = unread[d] /\ edge'[d] = edge[d]
  <2>1. unread'[c] = unread[c] + 1 /\ \A d \in Conn \ {c} : unread'[d] = unread[d]
    BY <1>1, <1>3
  <2>2. sent'[c] = sent[c] + 1 /\ \A d \in Conn \ {c} : sent'[d] = sent[d] BY <1>1, <1>3
  <2>3. (edge'[c] <=> edge[c] \/ registered[c] # None)
        /\ \A d \in Conn \ {c} : edge'[d] = edge[d]
    BY <1>1, <1>3, Zenon
  <2> QED BY <1>4, <2>1, <2>2, <2>3
<1>6. Types'
  <2>1. NetTypes' BY <1>1, <1>2, <1>3 DEF Types, NetTypes
  <2>2. KernelTypes' BY <1>1, <1>2, <1>3 DEF Types, KernelTypes
  <2>3. PoolTypes' /\ ThreadTypes' /\ MainTypes' /\ GhostTypes'
    BY <1>2 DEF Types, PoolTypes, ThreadTypes, MainTypes, GhostTypes
  <2> QED BY <2>1, <2>2, <2>3 DEF Types
<1>7. Requests'
  <2> SUFFICES ASSUME NEW d \in Conn
               PROVE  /\ sent'[d] <= RequestMax
                      /\ answered'[d] <= sent'[d] /\ sent'[d] <= answered'[d] + 1
                      /\ unread'[d] <= sent'[d] - answered'[d]
                      /\ peer'[d] = "none" => sent'[d] = 0
                      /\ peer'[d] = "finished" => sent'[d] = answered'[d] /\ sent'[d] > 0
    BY DEF Requests
  <2>1. sent[d] \in Nat /\ answered[d] \in Nat /\ unread[d] \in Nat BY <1>3
  <2>2. CASE d = c BY <1>1, <1>2, <1>3, <1>5, <2>1, <2>2
  <2>3. CASE d # c BY <1>2, <1>5, <2>3 DEF Requests
  <2> QED BY <2>2, <2>3
<1>8. \A r \in SessionOp : Due(r) /\ r.conn = c => r.type = "SEND"
  <2>1. \A r \in SessionOp : r.type \in {"RECV", "SEND", "CLOSE"} BY DEF SessionOp
  <2> QED BY <1>1, <1>4, <2>1 DEF Due
<1>9. Registrations'
  <2>1. \A d \in Conn : edge'[d] =>
          registered'[d] # None /\ (unread'[d] = 1 \/ peer'[d] = "finished" \/ answered'[d] = 0)
    <3> SUFFICES ASSUME NEW d \in Conn, edge'[d]
                 PROVE  registered'[d] # None
                        /\ (unread'[d] = 1 \/ peer'[d] = "finished" \/ answered'[d] = 0)
      OBVIOUS
    <3>1. CASE d = c BY <1>2, <1>5, <3>1 DEF Registrations
    <3>2. CASE d # c BY <1>2, <1>5, <3>2 DEF Registrations
    <3> QED BY <3>1, <3>2
  <2> QED BY <1>2, <2>1 DEF Registrations, Live, Closing
<1>10. Operations'
  <2>1. \A r \in SessionOp : Due(r) => Due(r)'
    <3>1. \A r \in SessionOp : r.conn \in Conn BY DEF SessionOp
    <3> QED BY <1>2, <1>4, <1>5, <3>1 DEF Due
  <2>2. \A w \in Worker : pc[w] = "DESTROY" => op[w] \in SessionOp BY DEF InHands
  <2> QED BY <1>2, <2>1, <2>2 DEF Operations, Live, InHand
<1>11. Last'
  <2>1. \A r \in SessionOp : Due(r) /\ r.type # "SEND" => edge'[r.conn] = edge[r.conn]
    <3>1. \A r \in SessionOp : r.conn \in Conn BY DEF SessionOp
    <3> QED BY <1>5, <1>8, <3>1
  <2>2. \A w \in Worker : InHand(w) \/ pc[w] = "DESTROY" => op[w] \in SessionOp /\ Due(op[w])
    BY DEF InHand, InHands, Operations
  <2>3. \A i \in 1 .. Len(queue) : queue[i] \in SessionOp => Due(queue[i])
    BY DEF Operations, Elems
  <2>4. \A r \in events : r \in SessionOp => Due(r) BY DEF Operations
  <2>5. \A w \in Worker : (InHand(w) \/ pc[w] = "DESTROY") /\ op[w].type # "SEND" =>
          NoneAfter(op[w].conn, 0)'
    BY <1>2, <2>1, <2>2 DEF Last, NoneAfter, NoEvent
  <2>6. \A i \in 1 .. Len(queue) : queue[i] \in SessionOp /\ queue[i].type # "SEND" =>
          NoneAfter(queue[i].conn, i)'
    BY <1>2, <2>1, <2>3 DEF Last, NoneAfter, NoEvent
  <2>7. \A r \in events : r \in SessionOp =>
          /\ r.type # "CLOSE" /\ (\A q \in events : q.conn = r.conn => q = r)
          /\ r.type # "SEND" => ~edge'[r.conn]
    BY <2>1, <2>4 DEF Last
  <2> QED BY <1>2, <2>5, <2>6, <2>7 DEF Last, InHand, NoneAfter, NoEvent
<1>12. Served'
  <2>1. \A d \in Conn : Taken(d)' => Taken(d) /\ d # c
    BY <1>2, <1>4 DEF Taken, Serving, Waiting
  <2>2. \A d \in Conn : Taken(d)' =>
          /\ unread'[d] = 0 /\ sent'[d] = answered'[d] + 1 /\ registered'[d] # None
          /\ NoneAfter(d, 0)'
          /\ \A w \in Worker : InHand(w)' => op'[w].conn # d
    BY <1>2, <1>5, <2>1 DEF Served, NoneAfter, NoEvent, InHand
  <2> QED BY <1>2, <2>2 DEF Served, Serving, Waiting, Live
<1>13. /\ InHands' /\ Pool' /\ Sockets' /\ Messages' /\ Told' /\ Arriving' /\ Activity'
  BY <1>2, FrameInHands, FramePool, FrameSockets, FrameMessages, FrameTold, FrameArriving,
     FrameActivity
<1> QED BY <1>6, <1>7, <1>9, <1>10, <1>11, <1>12, <1>13

\* A peer closes when none of its requests, and no operation for it, is on its way.
LEMMA PeerCloseStep ==
  ASSUME Benign, Inv, NEW c \in Conn, PeerClose(c)
  PROVE  Inv'
<1> USE DEF Inv
<1>0. polite = TRUE BY DEF Types, NetTypes
<1>1. /\ peer[c] = "open" /\ sent[c] = answered[c] /\ sent[c] > 0
      /\ peer' = [peer EXCEPT ![c] = "finished"]
      /\ edge' = [edge EXCEPT ![c] = @ \/ registered[c] # None]
  BY <1>0 DEF PeerClose, Arm
<1>2. /\ UNCHANGED <<polite, sent, answered, unread, file, backlog, listener, listenEdge>>
      /\ UNCHANGED <<registered, events, queue, session, m_FreeList, freeIDs, active, owner>>
      /\ UNCHANGED <<msgs, pc, op, mainPc, msg, id, fault, notified, failures, stranded>>
  BY DEF PeerClose, mgr, main, failed
<1>3. /\ sent \in [Conn -> Nat] /\ unread \in [Conn -> Nat] /\ edge \in [Conn -> BOOLEAN]
      /\ answered \in [Conn -> Nat] /\ peer \in [Conn -> {"none", "open", "finished"}]
  BY DEF Types, NetTypes, KernelTypes
<1>4. unread[c] = 0 /\ ~Taken(c) /\ answered[c] # 0
  <2>1. sent[c] \in Nat /\ answered[c] \in Nat /\ unread[c] \in Nat BY <1>3
  <2>2. unread[c] <= sent[c] - answered[c] BY DEF Requests
  <2>3. unread[c] = 0 BY <1>1, <2>1, <2>2
  <2>4. sent[c] # answered[c] + 1 /\ answered[c] # 0 BY <1>1, <2>1
  <2> QED BY <2>3, <2>4 DEF Served
<1>5. /\ peer'[c] = "finished" /\ \A d \in Conn \ {c} : peer'[d] = peer[d]
      /\ edge'[c] <=> edge[c] \/ registered[c] # None
      /\ \A d \in Conn \ {c} : edge'[d] = edge[d]
  <2>1. peer'[c] = "finished" /\ \A d \in Conn \ {c} : peer'[d] = peer[d] BY <1>1, <1>3
  <2>2. (edge'[c] <=> edge[c] \/ registered[c] # None)
        /\ \A d \in Conn \ {c} : edge'[d] = edge[d]
    BY <1>1, <1>3, Zenon
  <2> QED BY <2>1, <2>2
<1>6. Types'
  <2>1. NetTypes' BY <1>1, <1>2, <1>3 DEF Types, NetTypes
  <2>2. KernelTypes' BY <1>1, <1>2, <1>3 DEF Types, KernelTypes
  <2>3. PoolTypes' /\ ThreadTypes' /\ MainTypes' /\ GhostTypes'
    BY <1>2 DEF Types, PoolTypes, ThreadTypes, MainTypes, GhostTypes
  <2> QED BY <2>1, <2>2, <2>3 DEF Types
<1>7. Requests' BY <1>1, <1>2, <1>5 DEF Requests
<1>8. \A r \in SessionOp : Due(r) => r.conn # c
  <2>1. \A r \in SessionOp : r.type \in {"RECV", "SEND", "CLOSE"} BY DEF SessionOp
  <2> QED BY <1>1, <1>4, <2>1 DEF Due
<1>9. Registrations'
  <2>1. \A d \in Conn : edge'[d] =>
          registered'[d] # None /\ (unread'[d] = 1 \/ peer'[d] = "finished" \/ answered'[d] = 0)
    BY <1>2, <1>5 DEF Registrations
  <2> QED BY <1>2, <2>1 DEF Registrations, Live, Closing
<1>10. Operations'
  <2>1. \A r \in SessionOp : Due(r) => Due(r)'
    <3>1. \A r \in SessionOp : r.conn \in Conn BY DEF SessionOp
    <3> QED BY <1>2, <1>5, <1>8, <3>1 DEF Due
  <2>2. \A w \in Worker : pc[w] = "DESTROY" => op[w] \in SessionOp BY DEF InHands
  <2> QED BY <1>2, <2>1, <2>2 DEF Operations, Live, InHand
<1>11. Last'
  <2>1. \A r \in SessionOp : Due(r) => edge'[r.conn] = edge[r.conn]
    <3>1. \A r \in SessionOp : r.conn \in Conn BY DEF SessionOp
    <3> QED BY <1>5, <1>8, <3>1
  <2>2. \A w \in Worker : InHand(w) \/ pc[w] = "DESTROY" => op[w] \in SessionOp /\ Due(op[w])
    BY DEF InHand, InHands, Operations
  <2>3. \A i \in 1 .. Len(queue) : queue[i] \in SessionOp => Due(queue[i])
    BY DEF Operations, Elems
  <2>4. \A r \in events : r \in SessionOp => Due(r) BY DEF Operations
  <2>5. \A w \in Worker : (InHand(w) \/ pc[w] = "DESTROY") /\ op[w].type # "SEND" =>
          NoneAfter(op[w].conn, 0)'
    BY <1>2, <2>1, <2>2 DEF Last, NoneAfter, NoEvent
  <2>6. \A i \in 1 .. Len(queue) : queue[i] \in SessionOp /\ queue[i].type # "SEND" =>
          NoneAfter(queue[i].conn, i)'
    BY <1>2, <2>1, <2>3 DEF Last, NoneAfter, NoEvent
  <2>7. \A r \in events : r \in SessionOp =>
          /\ r.type # "CLOSE" /\ (\A q \in events : q.conn = r.conn => q = r)
          /\ r.type # "SEND" => ~edge'[r.conn]
    BY <2>1, <2>4 DEF Last
  <2> QED BY <1>2, <2>5, <2>6, <2>7 DEF Last, InHand, NoneAfter, NoEvent
<1>12. Served'
  <2>1. \A d \in Conn : Taken(d)' => Taken(d) /\ d # c
    BY <1>2, <1>4 DEF Taken, Serving, Waiting
  <2>2. \A d \in Conn : Taken(d)' =>
          /\ unread'[d] = 0 /\ sent'[d] = answered'[d] + 1 /\ registered'[d] # None
          /\ NoneAfter(d, 0)'
          /\ \A w \in Worker : InHand(w)' => op'[w].conn # d
    BY <1>2, <1>5, <2>1 DEF Served, NoneAfter, NoEvent, InHand
  <2> QED BY <1>2, <2>2 DEF Served, Serving, Waiting, Live
<1>13. Arriving'
  <2>1. c \notin Elems(backlog) BY <1>4 DEF Arriving, Early
  <2>2. \A d \in Elems(backlog) : d \in Conn BY ElemsType DEF Types, KernelTypes
  <2>3. \A d \in Conn : Early(d)' => Early(d) BY <1>2, <1>5, <2>1 DEF Early
  <2>4. \A d \in Elems(backlog') : peer'[d] # "none" BY <1>2, <1>5, <2>1, <2>2 DEF Arriving
  <2> QED BY <1>2, <2>3, <2>4 DEF Arriving, Live
<1>14. Activity'
  <2>1. \A s \in Live : session[s].conn \in Conn
    BY DEF Pool, Live, Types, PoolTypes, SessionSet
  <2> QED BY <1>2, <1>5, <2>1 DEF Activity, Live
<1>15. /\ InHands' /\ Pool' /\ Sockets' /\ Messages' /\ Told'
  BY <1>2, FrameInHands, FramePool, FrameSockets, FrameMessages, FrameTold
<1> QED BY <1>6, <1>7, <1>9, <1>10, <1>11, <1>12, <1>13, <1>14, <1>15
-----------------------------------------------------------------------------
(***************************************************************************)
(* The dispatcher.                                                         *)
(***************************************************************************)
LEMMA EpollEvents ==
  ASSUME EpollWait, NEW r \in events', r # Reference(ACCEPT, "RECV", None)
  PROVE  \E c \in Conn : edge[c] /\ \E t \in OperationTypes(c) : r = Reference(registered[c], t, c)
<1> DEFINE Of(c) == {Reference(registered[c], t, c) : t \in OperationTypes(c)}
           S == UNION {Of(c) : c \in {d \in Conn : edge[d]}}
           T == {Reference(ACCEPT, "RECV", None) : x \in {listenEdge} \ {FALSE}}
<1>1. events' = S \cup T BY DEF EpollWait
<1>2. \A q \in T : q = Reference(ACCEPT, "RECV", None) BY Zenon
<1>3. r \in S
  <2> HIDE DEF S, T
  <2> QED BY <1>1, <1>2
<1>4. PICK c \in {d \in Conn : edge[d]} : r \in Of(c) BY <1>3, Zenon
<1> QED BY <1>4, Zenon

LEMMA EpollWaitStep ==
  ASSUME Benign, Inv, EpollWait
  PROVE  Inv'
<1> USE DEF Inv
<1>1. events = {} /\ edge' = [c \in Conn |-> FALSE] /\ listenEdge' = FALSE
  BY DEF EpollWait
<1>2. /\ UNCHANGED <<polite, peer, sent, answered, unread, file, backlog, listener, registered>>
      /\ UNCHANGED <<queue, session, m_FreeList, freeIDs, active, owner, msgs, pc, op>>
      /\ UNCHANGED <<mainPc, msg, id, fault, notified, failures, stranded>>
  BY DEF EpollWait, net, mgr, main, failed
<1>3. /\ unread \in [Conn -> Nat] /\ registered \in [Conn -> Slot \cup {None}]
      /\ peer \in [Conn -> {"none", "open", "finished"}]
  BY DEF Types, NetTypes, KernelTypes
\* What is new.
<1>4. \A r \in events' : \/ r = Reference(ACCEPT, "RECV", None)
                         \/ \E c \in Conn : /\ edge[c] /\ r.conn = c /\ r.slot = registered[c]
                                            /\ r \in SessionOp /\ Due(r) /\ r.type # "CLOSE"
                                            /\ r = Reference(registered[c], r.type, c)
                                            /\ r.type = IF EpollIn(c) THEN "RECV" ELSE "SEND"
  <2> SUFFICES ASSUME NEW r \in events', r # Reference(ACCEPT, "RECV", None)
               PROVE  \E c \in Conn : /\ edge[c] /\ r.conn = c /\ r.slot = registered[c]
                                      /\ r \in SessionOp /\ Due(r) /\ r.type # "CLOSE"
                                      /\ r = Reference(registered[c], r.type, c)
                                      /\ r.type = IF EpollIn(c) THEN "RECV" ELSE "SEND"
    OBVIOUS
  <2>1. PICK c \in Conn : edge[c] /\ \E t \in OperationTypes(c) : r = Reference(registered[c], t, c)
    BY EpollEvents, Zenon
  <2>2. PICK t \in OperationTypes(c) : r = Reference(registered[c], t, c) BY <2>1
  <2>3. registered[c] # None /\ registered[c] \in Slot BY <1>3, <2>1 DEF Registrations
  <2>4. t = IF EpollIn(c) THEN "RECV" ELSE "SEND"
    <3>1. peer[c] # "reset" BY <1>3
    <3> QED BY <2>2, <3>1 DEF OperationTypes, EpollErr
  <2>5. r.conn = c /\ r.slot = registered[c] /\ r.type = t /\ r \in SessionOp
    BY <2>2, <2>3, <2>4 DEF Reference, SessionOp
  <2>6. Due(r)
    <3>1. CASE EpollIn(c)
      <4>1. t = "RECV" BY <2>4, <3>1
      <4>2. peer[c] = "none" => Early(c) BY DEF Early
      <4>3. peer[c] # "none" BY <2>3, <4>2 DEF Arriving
      <4>4. unread[c] > 0 => unread[c] = 1
        <5>1. /\ unread[c] \in Nat /\ sent[c] \in Nat /\ answered[c] \in Nat
          BY DEF Types, NetTypes
        <5>2. unread[c] <= sent[c] - answered[c] /\ sent[c] <= answered[c] + 1 BY DEF Requests
        <5> QED BY <5>1, <5>2
      <4> QED BY <1>3, <2>5, <3>1, <4>1, <4>3, <4>4 DEF Due, EpollIn
    <3>2. CASE ~EpollIn(c)
      <4>1. t = "SEND" BY <2>4, <3>2
      <4>2. peer[c] = "open" /\ unread[c] # 1 BY <3>2 DEF EpollIn
      <4>3. answered[c] = 0 BY <2>1, <4>2 DEF Registrations
      <4> QED BY <2>5, <4>1, <4>2, <4>3 DEF Due
    <3> QED BY <3>1, <3>2
  <2>7. r.type # "CLOSE" BY <2>4, <2>5
  <2> QED BY <2>1, <2>2, <2>4, <2>5, <2>6, <2>7
<1>5. \A r \in events' : r \in SessionOp => edge[r.conn] /\ r.conn \in Conn /\ Due(r)
        /\ registered[r.conn] = r.slot /\ r.type # "CLOSE"
  <2>1. Reference(ACCEPT, "RECV", None) \notin SessionOp
    BY Constants DEF SessionOp, Reference
  <2> QED BY <1>4, <2>1
<1>6. \A r \in events' : r.conn \in Conn => edge[r.conn]
  BY <1>4, Constants DEF Reference
<1>7. Types'
  <2>1. events' \subseteq OpSet BY <1>4 DEF OpSet
  <2>2. KernelTypes' BY <1>1, <1>2 DEF Types, KernelTypes
  <2>3. NetTypes' /\ PoolTypes' /\ ThreadTypes' /\ MainTypes' /\ GhostTypes'
    BY <1>2, <2>1 DEF Types, NetTypes, PoolTypes, ThreadTypes, MainTypes, GhostTypes
  <2> QED BY <2>2, <2>3 DEF Types
<1>8. Registrations' BY <1>1, <1>2 DEF Registrations, Live, Closing
<1>9. Operations'
  <2>1. \A r : Due(r)' <=> Due(r) BY <1>2 DEF Due
  <2> QED BY <1>2, <1>5, <2>1 DEF Operations, Live, InHand
<1>10. \A c \in Conn, i \in Nat : NoneAfter(c, i) => NoneAfter(c, i)'
  BY <1>1, <1>2, <1>6 DEF NoneAfter, NoEvent
<1>11. Last'
  <2>1. \A w \in Worker : (InHand(w) \/ pc[w] = "DESTROY") /\ op[w].type # "SEND" =>
          NoneAfter(op[w].conn, 0)'
    <3>1. \A w \in Worker : InHand(w) \/ pc[w] = "DESTROY" => op[w].conn \in Conn
      BY DEF InHand, InHands, SessionOp
    <3> QED BY <1>2, <1>10, <3>1 DEF Last
  <2>2. \A i \in 1 .. Len(queue) : queue[i] \in SessionOp /\ queue[i].type # "SEND" =>
          NoneAfter(queue[i].conn, i)'
    <3>1. \A i \in 1 .. Len(queue) : queue[i] \in SessionOp => queue[i].conn \in Conn
      BY DEF SessionOp
    <3>2. \A i \in 1 .. Len(queue) : i \in Nat OBVIOUS
    <3> QED BY <1>2, <1>10, <3>1, <3>2 DEF Last
  <2>3. \A r \in events', q \in events' : r \in SessionOp /\ q.conn = r.conn => q = r
    <3> SUFFICES ASSUME NEW r \in events', NEW q \in events', r \in SessionOp, q.conn = r.conn
                 PROVE  q = r
      OBVIOUS
    <3>1. r.conn \in Conn /\ r # Reference(ACCEPT, "RECV", None)
      BY Constants DEF SessionOp, Reference
    <3>2. q # Reference(ACCEPT, "RECV", None) BY <3>1, Constants DEF Reference
    <3>3. PICK c \in Conn : /\ r.conn = c /\ r = Reference(registered[c], r.type, c)
                            /\ r.type = IF EpollIn(c) THEN "RECV" ELSE "SEND"
      BY <1>4, <3>1
    <3>4. PICK d \in Conn : /\ q.conn = d /\ q = Reference(registered[d], q.type, d)
                            /\ q.type = IF EpollIn(d) THEN "RECV" ELSE "SEND"
      BY <1>4, <3>2
    <3> QED BY <3>3, <3>4
  <2>4. \A r \in events' : r \in SessionOp => ~edge'[r.conn] BY <1>1, <1>5
  <2> QED BY <1>2, <1>5, <2>1, <2>2, <2>3, <2>4 DEF Last, InHand
<1>12. Served'
  <2>1. \A d : Taken(d)' = Taken(d) BY <1>2 DEF Taken, Serving, Waiting
  <2>2. \A d \in Conn : Taken(d)' =>
          /\ unread'[d] = 0 /\ sent'[d] = answered'[d] + 1 /\ registered'[d] # None
          /\ NoneAfter(d, 0)'
          /\ \A w \in Worker : InHand(w)' => op'[w].conn # d
    BY <1>2, <1>10, <2>1 DEF Served, InHand
  <2> QED BY <1>2, <2>2 DEF Served, Serving, Waiting, Live
<1>13. /\ InHands' /\ Pool' /\ Sockets' /\ Messages' /\ Told' /\ Arriving' /\ Activity' /\ Requests'
  BY <1>2, FrameInHands, FramePool, FrameSockets, FrameMessages, FrameTold, FrameArriving,
     FrameActivity, FrameRequests
<1> QED BY <1>7, <1>8, <1>9, <1>11, <1>12, <1>13

LEMMA InsertAsyncOperationStep ==
  ASSUME Benign, Inv, NEW e \in events, InsertAsyncOperation(e)
  PROVE  Inv'
<1> USE DEF Inv
<1>1. events' = events \ {e} /\ queue' = Append(queue, e) BY DEF InsertAsyncOperation
<1>2. /\ UNCHANGED <<polite, peer, sent, answered, unread, file, backlog, listener, listenEdge>>
      /\ UNCHANGED <<registered, edge, session, m_FreeList, freeIDs, active, owner>>
      /\ UNCHANGED <<msgs, pc, op, mainPc, msg, id, fault, notified, failures, stranded>>
  BY DEF InsertAsyncOperation, net, kernel, mgr, main, failed
<1>3. queue \in Seq(OpSet) /\ e \in OpSet BY DEF Types, ThreadTypes
<1> DEFINE n == Len(queue)
<1>4. /\ queue' \in Seq(OpSet) /\ n \in Nat /\ Len(queue') = n + 1 /\ queue'[n + 1] = e
      /\ \A i \in 1 .. n : queue'[i] = queue[i]
      /\ Elems(queue') = Elems(queue) \cup {e}
  BY <1>1, <1>3, AppendElems, AppendProperties
<1> HIDE DEF n
<1>5. Types'
  <2>1. ThreadTypes' BY <1>1, <1>2, <1>4 DEF Types, ThreadTypes
  <2>2. NetTypes' /\ PoolTypes' /\ KernelTypes' /\ MainTypes' /\ GhostTypes'
    BY <1>2 DEF Types, NetTypes, PoolTypes, KernelTypes, MainTypes, GhostTypes
  <2> QED BY <2>1, <2>2 DEF Types
<1>6. Operations'
  <2>1. \A r : Due(r)' <=> Due(r) BY <1>2 DEF Due
  <2>2. events' \cup Elems(queue') = events \cup Elems(queue) BY <1>1, <1>4
  <2> QED BY <1>2, <2>1, <2>2 DEF Operations, Live, InHand
<1>7. \A c : \A i \in 0 .. n : NoneAfter(c, i) => NoneAfter(c, i)'
  <2> SUFFICES ASSUME NEW c, NEW i \in 0 .. n, NoneAfter(c, i) PROVE NoneAfter(c, i)'
    OBVIOUS
  <2>1. NoEvent(c)' /\ e.conn # c BY <1>1, <1>2 DEF NoneAfter, NoEvent
  <2>2. ASSUME NEW j \in 1 .. n + 1, j > i PROVE queue'[j].conn # c
    <3>1. CASE j = n + 1 BY <1>4, <2>1, <3>1
    <3>2. CASE j \in 1 .. n BY <1>4, <2>2, <3>2 DEF NoneAfter, n
    <3> QED BY <1>4, <2>2, <3>1, <3>2
  <2> QED BY <1>4, <2>1, <2>2 DEF NoneAfter
<1>8. Last'
  <2>1. ASSUME NEW w \in Worker, (InHand(w) \/ pc[w] = "DESTROY") /\ op[w].type # "SEND"
        PROVE  NoneAfter(op[w].conn, 0)'
    <3>1. NoneAfter(op[w].conn, 0) BY <2>1 DEF Last
    <3>2. 0 \in 0 .. n BY <1>4
    <3> QED BY <1>2, <1>7, <3>1, <3>2
  <2>2. ASSUME NEW i \in 1 .. n + 1, queue'[i] \in SessionOp /\ queue'[i].type # "SEND"
        PROVE  NoneAfter(queue[i].conn, i)'
    <3>1. CASE i \in 1 .. n
      <4>1. NoneAfter(queue[i].conn, i) /\ i \in 0 .. n BY <1>4, <2>2, <3>1 DEF Last, n
      <4>2. queue'[i].conn = queue[i].conn BY <1>4, <3>1
      <4> QED BY <1>7, <4>1, <4>2
    <3>2. CASE i = n + 1
      <4>1. e \in SessionOp /\ e.type # "SEND" BY <1>4, <2>2, <3>2
      <4>2. ~edge[e.conn] /\ \A q \in events : q.conn = e.conn => q = e BY <4>1 DEF Last
      <4>3. NoEvent(queue[i].conn)' BY <1>1, <1>2, <1>4, <3>2, <4>2 DEF NoEvent
      <4>4. \A j \in 1 .. Len(queue') : ~(j > i) BY <1>4, <3>2
      <4> QED BY <4>3, <4>4 DEF NoneAfter
    <3> QED BY <1>4, <2>2, <3>1, <3>2
  <2>3. \A r \in events' : r \in events BY <1>1
  <2> QED BY <1>2, <1>4, <2>1, <2>2, <2>3 DEF Last, InHand
<1>9. Served'
  <2>1. \A d : Taken(d)' = Taken(d) BY <1>2 DEF Taken, Serving, Waiting
  <2>2. 0 \in 0 .. n BY <1>4
  <2>3. \A d \in Conn : Taken(d)' =>
          /\ unread'[d] = 0 /\ sent'[d] = answered'[d] + 1 /\ registered'[d] # None
          /\ NoneAfter(d, 0)'
          /\ \A w \in Worker : InHand(w)' => op'[w].conn # d
    BY <1>2, <1>7, <2>1, <2>2 DEF Served, InHand
  <2> QED BY <1>2, <2>3 DEF Served, Serving, Waiting, Live
<1>10. /\ InHands' /\ Pool' /\ Sockets' /\ Messages' /\ Told' /\ Arriving' /\ Activity' /\ Requests'
       /\ Registrations'
  BY <1>2, FrameInHands, FramePool, FrameSockets, FrameMessages, FrameTold, FrameArriving,
     FrameActivity, FrameRequests, FrameRegistrations
<1> QED BY <1>5, <1>6, <1>8, <1>9, <1>10
-----------------------------------------------------------------------------
(***************************************************************************)
(* The main thread.                                                        *)
(***************************************************************************)
LEMMA StartStep ==
  ASSUME Benign, Inv, BindAndListen \/ RegisterListenSock
  PROVE  Inv'
<1> USE DEF Inv
<1>1. /\ mainPc \notin InSendMsg /\ mainPc' \in {"RegisterSocket", "wait"}
      /\ listener' \in {"none", "listening", "registered", "deaf"} /\ listenEdge' \in BOOLEAN
      /\ failures' \in 0 .. FailMax /\ stranded' \subseteq Conn
  <2>1. failures \in 0 .. FailMax /\ stranded \subseteq Conn /\ FailMax \in Nat
    BY Constants DEF Types, GhostTypes
  <2>2. listener \in {"none", "listening", "registered", "deaf"} /\ listenEdge \in BOOLEAN
    BY DEF Types, KernelTypes
  <2>3. CASE BindAndListen BY <2>1, <2>2, <2>3 DEF BindAndListen, Fails, failed, InSendMsg
  <2>4. CASE RegisterListenSock
    <3>1. listenEdge' \in BOOLEAN BY <2>2, <2>4, Zenon DEF RegisterListenSock
    <3>2. /\ mainPc = "RegisterSocket" /\ mainPc' = "wait"
          /\ listener' \in {"registered", "deaf"}
          /\ \/ failures' = failures /\ stranded' = stranded
             \/ failures < FailMax /\ failures' = failures + 1 /\ stranded' = stranded \cup {}
      BY <2>4 DEF RegisterListenSock, Fails, failed
    <3> QED BY <2>1, <3>1, <3>2 DEF InSendMsg
  <2> QED BY <2>3, <2>4
<1>2. /\ UNCHANGED <<polite, peer, sent, answered, unread, file, backlog, registered, edge>>
      /\ UNCHANGED <<events, queue, session, m_FreeList, freeIDs, active, owner>>
      /\ UNCHANGED <<msgs, pc, op, msg, id, fault, notified>>
  BY DEF BindAndListen, RegisterListenSock, net, mgr
<1>3. mainPc' \notin InSendMsg /\ mainPc' \in MainLabel BY <1>1 DEF InSendMsg, MainLabel
<1>4. Types'
  <2>1. KernelTypes' BY <1>1, <1>2 DEF Types, KernelTypes
  <2>2. MainTypes' BY <1>2, <1>3 DEF Types, MainTypes
  <2>3. GhostTypes' BY <1>1, <1>2 DEF Types, GhostTypes
  <2>4. NetTypes' /\ PoolTypes' /\ ThreadTypes' BY <1>2 DEF Types, NetTypes, PoolTypes, ThreadTypes
  <2> QED BY <2>1, <2>2, <2>3, <2>4 DEF Types
<1>5. Served'
  <2>1. \A d : Taken(d)' <=> Taken(d) BY <1>1, <1>2, <1>3 DEF Taken, Serving, Waiting
  <2>2. \A d : ~Serving(d)' BY <1>3 DEF Serving
  <2>3. mainPc # "Complete" /\ mainPc' # "Complete" BY <1>1, <1>3 DEF InSendMsg
  <2>4. \A d \in Conn : Taken(d)' =>
          /\ unread'[d] = 0 /\ sent'[d] = answered'[d] + 1 /\ registered'[d] # None
          /\ NoneAfter(d, 0)'
          /\ \A w \in Worker : InHand(w)' => op'[w].conn # d
    BY <1>2, <2>1 DEF Served, InHand, NoneAfter, NoEvent
  <2> QED BY <1>2, <2>2, <2>3, <2>4 DEF Served, Waiting, Live
<1>6. Messages' BY <1>2, <1>3 DEF Messages, Live, Serving
<1>7. /\ InHands' /\ Pool' /\ Sockets' /\ Told' /\ Arriving' /\ Activity' /\ Requests'
  BY <1>2, FrameInHands, FramePool, FrameSockets, FrameTold, FrameArriving,
     FrameActivity, FrameRequests
<1>8. Registrations' /\ Operations' /\ Last'
  BY <1>2, FrameRegistrations, FrameOperations, FrameLast
<1> QED BY <1>4, <1>5, <1>6, <1>7, <1>8

LEMMA RemoveMsgStep ==
  ASSUME Benign, Inv, RemoveMsg
  PROVE  Inv'
<1> USE DEF Inv
<1>1. /\ mainPc = "wait" /\ msgs # << >> /\ msg' = Head(msgs) /\ msgs' = Tail(msgs)
      /\ mainPc' = IF Head(msgs).type = "RECV" THEN "GetID" ELSE "wait"
  BY DEF RemoveMsg, Handler
<1>2. /\ UNCHANGED <<polite, peer, sent, answered, unread, file, backlog, listener, listenEdge>>
      /\ UNCHANGED <<registered, edge, events, queue, session, m_FreeList, freeIDs, active, owner>>
      /\ UNCHANGED <<pc, op, id, fault, notified, failures, stranded>>
  BY DEF RemoveMsg, net, kernel, mgr, failed
<1>3. msgs \in Seq(MsgSet) BY DEF Types, MainTypes
<1> DEFINE n == Len(msgs)
<1>4. /\ n \in Nat \ {0} /\ msgs' \in Seq(MsgSet) /\ Len(msgs') = n - 1
      /\ \A i \in 1 .. n - 1 : i + 1 \in 1 .. n /\ msgs'[i] = msgs[i + 1]
      /\ msg' = msgs[1] /\ msgs[1] \in MsgSet
  BY <1>1, <1>3, EmptySeq, HeadTailProperties, ElementOfSeq
<1>5. /\ mainPc \notin InSendMsg /\ mainPc # "Complete" /\ mainPc' # "Complete"
      /\ mainPc' \in InSendMsg <=> msgs[1].type = "RECV"
      /\ mainPc' \in MainLabel
  BY <1>1, <1>4 DEF InSendMsg, MainLabel
<1> HIDE DEF n
<1>6. Types'
  <2>1. msg' \in MainMsg BY <1>4, Constants DEF MsgSet, LiveMsg, MainMsg
  <2>2. MainTypes' BY <1>2, <1>4, <1>5, <2>1 DEF Types, MainTypes
  <2>3. NetTypes' /\ PoolTypes' /\ KernelTypes' /\ ThreadTypes' /\ GhostTypes'
    BY <1>2 DEF Types, NetTypes, PoolTypes, KernelTypes, ThreadTypes, GhostTypes
  <2> QED BY <2>2, <2>3 DEF Types
<1>7. \A d : Serving(d)' => msgs[1].type = "RECV" /\ msgs[1].conn = d BY <1>4, <1>5 DEF Serving
<1>8. \A d : Waiting(d)' => \E i \in 2 .. n : msgs[i].type = "RECV" /\ msgs[i].conn = d
  <2> SUFFICES ASSUME NEW d, NEW i \in 1 .. Len(msgs'), msgs'[i].type = "RECV", msgs'[i].conn = d
               PROVE  \E k \in 2 .. n : msgs[k].type = "RECV" /\ msgs[k].conn = d
    BY DEF Waiting
  <2>1. i + 1 \in 2 .. n /\ msgs'[i] = msgs[i + 1] BY <1>4
  <2> QED BY <2>1
<1>9. Served'
  <2>1. \A d : Taken(d)' => Taken(d)
    <3>1. 1 \in 1 .. n /\ \A i \in 2 .. n : i \in 1 .. n BY <1>4
    <3> QED BY <1>7, <1>8, <3>1 DEF Taken, Waiting, n
  <2>2. \A d \in Conn : Taken(d)' =>
          /\ unread'[d] = 0 /\ sent'[d] = answered'[d] + 1 /\ registered'[d] # None
          /\ NoneAfter(d, 0)'
          /\ \A w \in Worker : InHand(w)' => op'[w].conn # d
    BY <1>2, <2>1 DEF Served, InHand, NoneAfter, NoEvent
  <2>3. \A d \in Conn : ~(Serving(d)' /\ Waiting(d)')
    <3>1. 1 \in 1 .. n /\ \A i \in 2 .. n : i \in 1 .. n /\ i # 1 BY <1>4
    <3> QED BY <1>7, <1>8, <3>1 DEF Served, n
  <2>4. \A i, j \in 1 .. Len(msgs') :
          msgs'[i].type = "RECV" /\ msgs'[j].type = "RECV" /\ msgs'[i].conn = msgs'[j].conn => i = j
    <3> SUFFICES ASSUME NEW i \in 1 .. n - 1, NEW j \in 1 .. n - 1, msgs'[i].type = "RECV",
                        msgs'[j].type = "RECV", msgs'[i].conn = msgs'[j].conn
                 PROVE  i = j
      BY <1>4
    <3>0. /\ i + 1 \in 1 .. n /\ msgs'[i] = msgs[i + 1]
          /\ j + 1 \in 1 .. n /\ msgs'[j] = msgs[j + 1]
      BY <1>4
    <3>1. \A k, m \in 1 .. n :
            msgs[k].type = "RECV" /\ msgs[m].type = "RECV" /\ msgs[k].conn = msgs[m].conn => k = m
      BY DEF Served, n
    <3>2. i + 1 = j + 1 BY <3>0, <3>1
    <3> QED BY <1>4, <3>2
  <2> QED BY <1>2, <1>5, <2>2, <2>3, <2>4 DEF Served, Live
<1>10. Messages'
  <2>1. ASSUME NEW i \in 1 .. n - 1, msgs'[i].type # "CLOSE"
        PROVE  msgs'[i].slot \in Live /\ session[msgs'[i].slot].conn = msgs'[i].conn
    BY <1>4, <2>1 DEF Messages, n
  <2>2. mainPc' \in InSendMsg => msg'.slot \in Live /\ session[msg'.slot].conn = msg'.conn
    BY <1>4, <1>5 DEF Messages, n
  <2>3. ASSUME NEW i \in 1 .. n - 1, msgs'[i].type = "ACCEPT"
        PROVE  /\ answered[msgs'[i].conn] = 0 /\ ~(Serving(msgs[i].conn)')
               /\ \A j \in 1 .. i : msgs'[j].type = "RECV" => msgs'[j].conn # msgs'[i].conn
    <3>1. /\ i + 1 \in 1 .. n /\ msgs'[i] = msgs[i + 1] /\ 1 \in 1 .. i + 1
          /\ \A j \in 1 .. i : j + 1 \in 1 .. i + 1 /\ msgs'[j] = msgs[j + 1]
      BY <1>4
    <3>2. /\ answered[msgs[i + 1].conn] = 0
          /\ \A j \in 1 .. i + 1 : msgs[j].type = "RECV" => msgs[j].conn # msgs[i + 1].conn
      BY <2>3, <3>1 DEF Messages, n
    <3> QED BY <1>7, <3>1, <3>2
  <2> QED BY <1>2, <1>4, <2>1, <2>2, <2>3 DEF Messages, Live
<1>11. /\ InHands' /\ Pool' /\ Sockets' /\ Told' /\ Arriving' /\ Activity' /\ Requests'
  BY <1>2, FrameInHands, FramePool, FrameSockets, FrameTold, FrameArriving,
     FrameActivity, FrameRequests
<1>12. Registrations' /\ Operations' /\ Last'
  BY <1>2, FrameRegistrations, FrameOperations, FrameLast
<1> QED BY <1>6, <1>9, <1>10, <1>11, <1>12

LEMMA FirstCheckStep ==
  ASSUME Benign, Inv, FirstCheck
  PROVE  Inv'
<1> USE DEF Inv
<1>1. /\ mainPc = "GetID" /\ id' = session[msg.slot].m_ID /\ mainPc' \in {"SendMsg", "wait"}
      /\ msg' = [msg EXCEPT !.conn = session[msg.slot].conn]
  BY DEF FirstCheck
<1>2. /\ UNCHANGED <<polite, peer, sent, answered, unread, file, backlog, listener, listenEdge>>
      /\ UNCHANGED <<registered, edge, events, queue, session, m_FreeList, freeIDs, active, owner>>
      /\ UNCHANGED <<msgs, pc, op, fault, notified, failures, stranded>>
  BY DEF FirstCheck, net, kernel, mgr, failed
<1>3. msg.slot \in Live /\ session[msg.slot].conn = msg.conn BY <1>1 DEF Messages, InSendMsg
<1>4. msg' = msg /\ id' \in Slot
  <2>1. msg \in MainMsg /\ session \in [Slot -> SessionSet] BY DEF Types, MainTypes, PoolTypes
  <2>2. msg.slot \in Slot BY <1>3 DEF Live
  <2> QED BY <1>1, <1>3, <2>1, <2>2 DEF MainMsg, SessionSet
<1>5. /\ mainPc # "Complete" /\ mainPc' # "Complete" /\ mainPc \in InSendMsg
      /\ mainPc' \in MainLabel
  BY <1>1 DEF InSendMsg, MainLabel
<1>6. Types'
  <2>1. MainTypes' BY <1>2, <1>4, <1>5 DEF Types, MainTypes
  <2>2. NetTypes' /\ PoolTypes' /\ KernelTypes' /\ ThreadTypes' /\ GhostTypes'
    BY <1>2 DEF Types, NetTypes, PoolTypes, KernelTypes, ThreadTypes, GhostTypes
  <2> QED BY <2>1, <2>2 DEF Types
<1>7. \A d : Serving(d)' => Serving(d) BY <1>4, <1>5 DEF Serving
<1>8. Served'
  <2>1. \A d : Taken(d)' => Taken(d) BY <1>2, <1>7 DEF Taken, Waiting
  <2>2. \A d \in Conn : Taken(d)' =>
          /\ unread'[d] = 0 /\ sent'[d] = answered'[d] + 1 /\ registered'[d] # None
          /\ NoneAfter(d, 0)'
          /\ \A w \in Worker : InHand(w)' => op'[w].conn # d
    BY <1>2, <2>1 DEF Served, InHand, NoneAfter, NoEvent
  <2> QED BY <1>2, <1>5, <1>7, <2>2 DEF Served, Waiting, Live
<1>9. Messages' BY <1>2, <1>3, <1>4, <1>7 DEF Messages, Live
<1>10. /\ InHands' /\ Pool' /\ Sockets' /\ Told' /\ Arriving' /\ Activity' /\ Requests'
  BY <1>2, FrameInHands, FramePool, FrameSockets, FrameTold, FrameArriving,
     FrameActivity, FrameRequests
<1>11. Registrations' /\ Operations' /\ Last'
  BY <1>2, FrameRegistrations, FrameOperations, FrameLast
<1> QED BY <1>6, <1>8, <1>9, <1>10, <1>11

\* Sessions that differ at most in their answers.
SameButAnswers ==
  /\ session' \in [Slot -> SessionSet]
  /\ \A s \in Slot : /\ session'[s].m_ID = session[s].m_ID /\ session'[s].m_Sock = session[s].m_Sock
                     /\ session'[s].conn = session[s].conn

LEMMA SecondCheckStep ==
  ASSUME Benign, Inv, SecondCheck
  PROVE  Inv'
<1> USE DEF Inv
<1>1. mainPc = "SendMsg" BY DEF SecondCheck
<1>2. /\ UNCHANGED <<polite, peer, sent, answered, unread, file, backlog, listener, listenEdge>>
      /\ UNCHANGED <<registered, edge, events, queue, m_FreeList, freeIDs, active, owner>>
      /\ UNCHANGED <<msgs, pc, op, msg, id, fault, notified, failures, stranded>>
  BY DEF SecondCheck, net, kernel, mgr, failed
<1>3. msg.slot \in Live /\ msg.slot \in Slot BY <1>1 DEF Messages, InSendMsg, Live
<1>4. session \in [Slot -> SessionSet] BY DEF Types, PoolTypes
<1>5. session[msg.slot].answers = 0 BY <1>1, <1>3 DEF Served
<1>6. /\ SameButAnswers /\ mainPc' \in {"wait", "Complete"}
      /\ \A s \in Live : session'[s].answers = IF mainPc' = "Complete" /\ msg.slot = s THEN 1 ELSE 0
  <2>0. \A s \in Live : session[s].answers = 0 /\ s \in Slot BY <1>1 DEF Served, Live
  <2>1. CASE session' = session /\ mainPc' = "wait" BY <1>4, <2>0, <2>1 DEF SameButAnswers
  <2>2. CASE session' = [session EXCEPT ![msg.slot].answers = @ + 1] /\ mainPc' = "Complete"
    <3>1. PICK s : s = msg.slot OBVIOUS
    <3>2. s \in Slot BY <1>3, <3>1
    <3>3. PICK r : r = [session[s] EXCEPT !.answers = @ + 1] OBVIOUS
    <3>4. session[s] \in SessionSet BY <1>4, <3>2
    <3>5. /\ r \in SessionSet /\ r.answers = session[s].answers + 1 /\ r.m_ID = session[s].m_ID
          /\ r.m_Sock = session[s].m_Sock /\ r.conn = session[s].conn
      BY <3>3, <3>4 DEF SessionSet
    <3>6. session' = [session EXCEPT ![s] = r] BY <2>2, <3>1, <3>3
    <3>7. session'[s] = r /\ \A t \in Slot \ {s} : session'[t] = session[t] BY <1>4, <3>2, <3>6
    <3>8. session' \in [Slot -> SessionSet] BY <1>4, <3>2, <3>5, <3>6
    <3>9. r.answers = 1 BY <1>5, <3>1, <3>5
    <3> QED BY <2>0, <2>2, <3>1, <3>5, <3>7, <3>8, <3>9 DEF SameButAnswers
  <2> QED BY <2>1, <2>2 DEF SecondCheck
<1>7. Live' = Live /\ Live \subseteq Slot BY <1>2 DEF Live
<1>8. \A d : Serving(d)' => Serving(d) BY <1>1, <1>2 DEF Serving, InSendMsg
<1>9. Types'
  <2>1. MainTypes' BY <1>2, <1>6 DEF Types, MainTypes, MainLabel, InSendMsg
  <2>2. PoolTypes' BY <1>2, <1>6 DEF Types, PoolTypes, SameButAnswers
  <2>3. NetTypes' /\ KernelTypes' /\ ThreadTypes' /\ GhostTypes'
    BY <1>2 DEF Types, NetTypes, KernelTypes, ThreadTypes, GhostTypes
  <2> QED BY <2>1, <2>2, <2>3 DEF Types
<1>10. Pool' /\ Sockets' /\ Arriving' /\ Activity' /\ Told'
  <2>1. \A s : Closing(s)' <=> Closing(s) BY <1>2 DEF Closing
  <2>2. \A s : Notifying(s)' <=> Notifying(s) BY <1>2 DEF Notifying
  <2>3. Pool' BY <1>2, <1>6, <1>7 DEF Pool, SameButAnswers
  <2>4. Sockets' BY <1>2, <1>6, <1>7, <2>1 DEF Sockets, SameButAnswers
  <2>5. Arriving' BY <1>2, <1>6, <1>7 DEF Arriving, Early, SameButAnswers
  <2>6. Activity' BY <1>2, <1>6, <1>7 DEF Activity, SameButAnswers
  <2>7. Told' BY <1>2, <1>6, <1>7, <2>1, <2>2 DEF Told, SameButAnswers
  <2> QED BY <2>3, <2>4, <2>5, <2>6, <2>7
<1>11. Registrations'
  <2>1. \A s : Closing(s)' <=> Closing(s) BY <1>2 DEF Closing
  <2> QED BY <1>2, <1>6, <1>7, <2>1 DEF Registrations, SameButAnswers
<1>12. Operations'
  <2>1. \A r : Due(r)' <=> Due(r) BY <1>2 DEF Due
  <2> QED BY <1>2, <1>6, <1>7, <2>1 DEF Operations, InHand, SameButAnswers
<1>13. Messages' BY <1>1, <1>2, <1>6, <1>7, <1>8 DEF Messages, SameButAnswers, InSendMsg
<1>14. Served'
  <2>1. \A d : Taken(d)' => Taken(d) BY <1>2, <1>8 DEF Taken, Waiting
  <2>2. \A d \in Conn : Taken(d)' =>
          /\ unread'[d] = 0 /\ sent'[d] = answered'[d] + 1 /\ registered'[d] # None
          /\ NoneAfter(d, 0)'
          /\ \A w \in Worker : InHand(w)' => op'[w].conn # d
    BY <1>2, <2>1 DEF Served, InHand, NoneAfter, NoEvent
  <2> QED BY <1>2, <1>6, <1>7, <1>8, <2>2 DEF Served, Waiting
<1>15. InHands' /\ Last' /\ Requests' BY <1>2, FrameInHands, FrameLast, FrameRequests
<1> QED BY <1>9, <1>10, <1>11, <1>12, <1>13, <1>14, <1>15

\* The socket of a session is its own.
LEMMA OwnPeer ==
  ASSUME Inv, NEW s \in Live, ~Closing(s)
  PROVE  s \in Slot /\ session[s].conn \in Conn /\ Peer(s) = session[s].conn
<1>1. s \in Slot /\ session[s] \in SessionSet BY DEF Inv, Live, Types, PoolTypes
<1>2. session[s].conn \in Conn BY <1>1 DEF Inv, Pool, SessionSet
<1>3. file[session[s].m_Sock] = session[s].conn BY DEF Inv, Sockets
<1> QED BY <1>1, <1>2, <1>3 DEF Peer

\* A connection with a request in the main thread is open, and so is its session.
LEMMA TakenOpen ==
  ASSUME Inv, NEW s \in Live, session[s].conn \in Conn, Taken(session[s].conn)
  PROVE  peer[session[s].conn] = "open" /\ active[session[s].m_ID] /\ ~Closing(s)
<1> USE DEF Inv
<1> DEFINE c == session[s].conn
<1>1. /\ sent[c] \in Nat /\ answered[c] \in Nat /\ peer[c] \in {"none", "open", "finished"}
  BY DEF Types, NetTypes
<1>2. sent[c] = answered[c] + 1 /\ registered[c] # None BY DEF Served
<1>3. peer[c] = "open" BY <1>1, <1>2 DEF Requests
<1>4. active[session[s].m_ID] BY <1>3 DEF Activity
<1>5. ~Closing(s)
  <2> SUFFICES ASSUME NEW w \in Worker, pc[w] = "DESTROY", op[w].slot = s PROVE FALSE
    BY DEF Closing
  <2>1. op[w] \in SessionOp BY DEF InHands
  <2>2. op[w].slot # ACCEPT BY <2>1, Constants DEF SessionOp
  <2>3. session[op[w].slot].conn = op[w].conn BY <2>2 DEF Operations
  <2> QED BY <1>2, <2>3 DEF Operations
<1> QED BY <1>3, <1>4, <1>5

\* The answer reaches its peer, for which no operation is on its way.
LEMMA MainSendStep ==
  ASSUME Benign, Inv, MainSend
  PROVE  Inv'
<1> USE DEF Inv
<1>1. mainPc = "Complete" /\ mainPc' = "wait" /\ Send(msg.slot) BY DEF MainSend
<1>2. /\ UNCHANGED <<file, backlog, listener, listenEdge, registered, events, queue>>
      /\ UNCHANGED <<m_FreeList, freeIDs, active, owner>>
      /\ UNCHANGED <<msgs, pc, op, msg, id, notified, failures, stranded>>
  BY DEF MainSend, mgr, failed
<1>3. PICK s : s = msg.slot OBVIOUS
<1>4. s \in Live /\ session[s].conn = msg.conn BY <1>1, <1>3 DEF Messages, InSendMsg
<1>5. s \in Slot /\ session \in [Slot -> SessionSet] /\ session[s] \in SessionSet
  BY <1>4 DEF Live, Types, PoolTypes
<1>6. PICK c : c = session[s].conn OBVIOUS
<1>7. c \in Conn BY <1>4, <1>5, <1>6 DEF Pool, SessionSet
<1>8. Serving(c) /\ Taken(c) BY <1>1, <1>4, <1>6 DEF Serving, Taken, InSendMsg
<1>9. peer[c] = "open" /\ active[session[s].m_ID] /\ ~Closing(s) BY <1>4, <1>6, <1>7, <1>8, TakenOpen
<1>10. Peer(s) = c /\ c # None BY <1>4, <1>6, <1>7, <1>9, OwnPeer, Constants
<1>11. session[s].answers = 1 BY <1>1, <1>3, <1>4 DEF Served
<1>12. /\ session' = [session EXCEPT ![s].answers = 0]
       /\ answered' = [answered EXCEPT ![c] = @ + session[s].answers]
       /\ UNCHANGED <<peer, edge, fault, polite, sent, unread>>
  BY <1>1, <1>3, <1>9, <1>10, <1>11 DEF Send, Active
<1>13. /\ SameButAnswers
       /\ \A t \in Live : session'[t].answers = 0
  <2>1. PICK r : r = [session[s] EXCEPT !.answers = 0] OBVIOUS
  <2>2. /\ r \in SessionSet /\ r.answers = 0 /\ r.m_ID = session[s].m_ID
        /\ r.m_Sock = session[s].m_Sock /\ r.conn = session[s].conn
    BY <1>5, <2>1 DEF SessionSet
  <2>3. session' = [session EXCEPT ![s] = r] BY <1>12, <2>1
  <2>4. session'[s] = r /\ \A t \in Slot \ {s} : session'[t] = session[t] BY <1>5, <2>3
  <2>5. session' \in [Slot -> SessionSet] BY <1>5, <2>2, <2>3
  <2>6. \A t \in Live \ {s} : t \in Slot /\ session[t].answers = 0 BY <1>3 DEF Served, Live
  <2> QED BY <2>2, <2>4, <2>5, <2>6 DEF SameButAnswers
<1>14. answered \in [Conn -> Nat] /\ sent \in [Conn -> Nat] /\ unread \in [Conn -> Nat]
  BY DEF Types, NetTypes
<1>15. /\ answered' \in [Conn -> Nat] /\ answered'[c] = answered[c] + 1
       /\ \A d \in Conn \ {c} : answered'[d] = answered[d]
  BY <1>7, <1>11, <1>12, <1>14
<1>16. /\ unread[c] = 0 /\ sent[c] = answered[c] + 1 /\ registered[c] # None /\ NoneAfter(c, 0)
       /\ \A w \in Worker : InHand(w) => op[w].conn # c
       /\ ~Waiting(c)
  BY <1>7, <1>8 DEF Served
<1>17. Live' = Live /\ Live \subseteq Slot BY <1>2 DEF Live
<1>18. \A d : ~Serving(d)' BY <1>1 DEF Serving, InSendMsg
<1>19. Types'
  <2>1. MainTypes' BY <1>1, <1>2 DEF Types, MainTypes, MainLabel
  <2>2. PoolTypes' BY <1>2, <1>13 DEF Types, PoolTypes, SameButAnswers
  <2>3. NetTypes' BY <1>12, <1>15 DEF Types, NetTypes
  <2>4. KernelTypes' /\ ThreadTypes' /\ GhostTypes'
    BY <1>2, <1>12 DEF Types, KernelTypes, ThreadTypes, GhostTypes
  <2> QED BY <2>1, <2>2, <2>3, <2>4 DEF Types
<1>20. \A t \in Live : session[t].conn \in Conn /\ (session[t].conn = c => t = s)
  <2>1. \A t \in Live : session[t] \in SessionSet BY <1>5, <1>17
  <2> QED BY <1>4, <1>6, <2>1 DEF Pool, SessionSet
<1>21. Requests'
  <2> SUFFICES ASSUME NEW d \in Conn
               PROVE  /\ sent[d] <= RequestMax
                      /\ answered'[d] <= sent[d] /\ sent[d] <= answered'[d] + 1
                      /\ unread[d] <= sent[d] - answered'[d]
                      /\ peer[d] = "none" => sent[d] = 0
                      /\ peer[d] = "finished" => sent[d] = answered'[d] /\ sent[d] > 0
    BY <1>12 DEF Requests
  <2>1. CASE d = c
    <3>1. sent[c] \in Nat /\ answered[c] \in Nat BY <1>7, <1>14
    <3>2. sent[c] <= RequestMax BY <1>7 DEF Requests
    <3> QED BY <1>9, <1>15, <1>16, <2>1, <3>1, <3>2
  <2>2. CASE d # c BY <1>15, <2>2 DEF Requests
  <2> QED BY <2>1, <2>2
<1>22. Pool' /\ Sockets' /\ Activity' /\ Told'
  <2>1. \A t : Closing(t)' <=> Closing(t) BY <1>2 DEF Closing
  <2>2. \A t : Notifying(t)' <=> Notifying(t) BY <1>2 DEF Notifying
  <2>3. Pool' BY <1>2, <1>13, <1>17 DEF Pool, SameButAnswers
  <2>4. Sockets' BY <1>2, <1>13, <1>17, <2>1 DEF Sockets, SameButAnswers
  <2>6. Activity' BY <1>2, <1>12, <1>13, <1>17 DEF Activity, SameButAnswers
  <2>7. Told' BY <1>2, <1>13, <1>17, <2>1, <2>2 DEF Told, SameButAnswers
  <2> QED BY <2>3, <2>4, <2>6, <2>7
<1>23. Arriving'
  <2>1. ~Early(c) BY <1>4, <1>6, <1>7 DEF Arriving
  <2>2. \A d : Early(d)' <=> Early(d) BY <1>2, <1>12 DEF Early
  <2> QED BY <1>2, <1>12, <1>13, <1>15, <1>17, <2>1, <2>2 DEF Arriving, SameButAnswers
<1>24. Registrations'
  <2>1. \A t : Closing(t)' <=> Closing(t) BY <1>2 DEF Closing
  <2>2. \A t \in Live : registered[session[t].conn] = None /\ ~Closing(t) =>
          answered'[session[t].conn] = 0
    BY <1>15, <1>16, <1>20 DEF Registrations
  <2>3. ~edge[c] BY <1>16 DEF NoneAfter, NoEvent
  <2>4. \A d \in Conn : edge[d] =>
          registered[d] # None /\ (unread[d] = 1 \/ peer[d] = "finished" \/ answered'[d] = 0)
    BY <1>15, <2>3 DEF Registrations
  <2> QED BY <1>2, <1>12, <1>13, <1>17, <2>1, <2>2, <2>4 DEF Registrations, SameButAnswers
<1>25. Operations'
  <2>1. \A r \in SessionOp : Due(r) /\ (r.conn = c => r.type # "SEND") => Due(r)'
    <3>1. \A r \in SessionOp : r.conn \in Conn BY DEF SessionOp
    <3> QED BY <1>12, <1>15, <3>1 DEF Due
  <2>2. \A r \in events \cup Elems(queue) : r.conn # c
    <3>1. \A r \in events : r.conn # c BY <1>16 DEF NoneAfter, NoEvent
    <3>2. \A j \in 1 .. Len(queue) : j > 0 OBVIOUS
    <3> QED BY <1>16, <3>1, <3>2 DEF NoneAfter, Elems
  <2>3. \A r \in events \cup Elems(queue) : r \in SessionOp => Due(r)' /\ registered[r.conn] = r.slot
    BY <2>1, <2>2 DEF Operations
  <2>4. \A w \in Worker : InHand(w) => Due(op[w])' /\ registered[op[w].conn] = op[w].slot
    <3>1. \A w \in Worker : InHand(w) => op[w] \in SessionOp /\ op[w].conn # c
      BY <1>16 DEF InHand
    <3>2. \A w \in Worker : op'[w] = op[w] BY <1>2
    <3> QED BY <2>1, <3>1, <3>2 DEF Operations
  <2>5. \A w \in Worker : pc[w] = "DESTROY" => Due(op[w])' /\ registered[op[w].conn] = None
    <3>1. \A w \in Worker : pc[w] = "DESTROY" => op[w] \in SessionOp /\ op[w].type = "CLOSE"
      BY DEF InHands
    <3>2. \A w \in Worker : op'[w] = op[w] BY <1>2
    <3> QED BY <2>1, <3>1, <3>2 DEF Operations
  <2> QED BY <1>2, <1>13, <1>17, <2>3, <2>4, <2>5 DEF Operations, InHand, SameButAnswers
<1>26. Messages'
  <2>1. \A i \in 1 .. Len(msgs) : msgs[i].type = "ACCEPT" => msgs[i].conn # c /\ msgs[i].conn \in Conn
    <3>1. \A i \in 1 .. Len(msgs) : msgs[i] \in MsgSet BY ElementOfSeq DEF Types, MainTypes
    <3> QED BY <1>8, <3>1 DEF Messages, MsgSet, LiveMsg
  <2> QED BY <1>1, <1>2, <1>13, <1>15, <1>17, <1>18, <2>1 DEF Messages, SameButAnswers, InSendMsg
<1>27. Served'
  <2>1. \A d : Taken(d)' => Taken(d) /\ d # c BY <1>2, <1>16, <1>18 DEF Taken, Waiting
  <2>2. \A d \in Conn : Taken(d)' =>
          /\ unread'[d] = 0 /\ sent'[d] = answered'[d] + 1 /\ registered'[d] # None
          /\ NoneAfter(d, 0)'
          /\ \A w \in Worker : InHand(w)' => op'[w].conn # d
    BY <1>2, <1>12, <1>15, <2>1 DEF Served, InHand, NoneAfter, NoEvent
  <2> QED BY <1>1, <1>2, <1>13, <1>17, <1>18, <2>2 DEF Served, Waiting
<1>28. InHands' /\ Last' BY <1>2, <1>12, FrameInHands, FrameLast
<1> QED BY <1>19, <1>21, <1>22, <1>23, <1>24, <1>25, <1>26, <1>27, <1>28
-----------------------------------------------------------------------------
(***************************************************************************)
(* The worker.                                                             *)
(***************************************************************************)
LEMMA OnlyOne == ASSUME Benign, NEW v \in Worker, NEW w \in Worker PROVE v = w
  BY DEF Benign

\* What a step of the worker from one label to another changes of the invariant when it
\* does nothing else.
LEMMA LabelStep ==
  ASSUME Benign, Inv, NEW w \in Worker, NEW label \in Label,
         pc' = [pc EXCEPT ![w] = label],
         pc[w] \notin {"DESTROY", "NOTIFY"}, label \notin {"DESTROY", "NOTIFY", "REGISTER"},
         InHands', InHand(w)' => InHand(w), label \notin {"idle", "UNLOCK"} => pc[w] \notin {"idle", "UNLOCK"},
         failures' \in 0 .. FailMax, stranded' \subseteq Conn,
         UNCHANGED <<polite, peer, sent, answered, unread, file, backlog, listener, listenEdge>>,
         UNCHANGED <<registered, edge, events, queue, session, m_FreeList, freeIDs, active>>,
         UNCHANGED <<msgs, op, mainPc, msg, id, fault, notified>>
  PROVE  Inv'
<1> USE DEF Inv
<1>1. \A v \in Worker : v = w BY OnlyOne
<1>2. pc \in [Worker -> Label] BY DEF Types, ThreadTypes
<1>3. pc'[w] = label BY <1>2
<1>4. \A s : ~Closing(s) /\ ~(Closing(s)') BY <1>1, <1>3 DEF Closing
<1>5. \A s : ~Notifying(s) /\ ~(Notifying(s)') BY <1>1, <1>3 DEF Notifying
<1>6. \A v \in Worker : InHand(v)' => InHand(v) BY <1>1
<1>7. Types'
  <2>1. ThreadTypes' BY <1>2 DEF Types, ThreadTypes
  <2>2. GhostTypes' BY DEF Types, GhostTypes
  <2>3. NetTypes' /\ PoolTypes' /\ KernelTypes' /\ MainTypes'
    BY DEF Types, NetTypes, PoolTypes, KernelTypes, MainTypes
  <2> QED BY <2>1, <2>2, <2>3 DEF Types
<1>8. Sockets' BY <1>4 DEF Sockets, Live
<1>9. Registrations' BY <1>1, <1>3, <1>4 DEF Registrations, Live
<1>10. Operations'
  <2>1. \A r : Due(r)' <=> Due(r) BY DEF Due
  <2>2. \A v \in Worker : InHand(v)' => Due(op[v])' /\ registered[op[v].conn] = op[v].slot
    BY <1>6, <2>1 DEF Operations
  <2>3. \A v \in Worker : pc'[v] \notin {"idle", "UNLOCK"} /\ op[v].slot # ACCEPT =>
          op[v].slot \in Live /\ session[op[v].slot].conn = op[v].conn
    BY <1>1, <1>3 DEF Operations
  <2>4. \A v \in Worker : pc'[v] # "DESTROY" BY <1>1, <1>3
  <2> QED BY <2>1, <2>2, <2>3, <2>4 DEF Operations, Live
<1>11. \A c, i : NoneAfter(c, i)' <=> NoneAfter(c, i) BY DEF NoneAfter, NoEvent
<1>12. Last'
  <2>1. \A v \in Worker : (InHand(v)' \/ pc'[v] = "DESTROY") /\ op[v].type # "SEND" =>
          NoneAfter(op[v].conn, 0)
    BY <1>1, <1>3, <1>6 DEF Last
  <2> QED BY <1>11, <2>1 DEF Last
<1>13. Served'
  <2>1. \A d : Taken(d)' = Taken(d) BY DEF Taken, Serving, Waiting
  <2>2. \A d \in Conn : Taken(d)' =>
          /\ unread'[d] = 0 /\ sent'[d] = answered'[d] + 1 /\ registered'[d] # None
          /\ NoneAfter(d, 0)'
          /\ \A v \in Worker : InHand(v)' => op'[v].conn # d
    BY <1>6, <1>11, <2>1 DEF Served
  <2> QED BY <2>2 DEF Served, Serving, Waiting, Live
<1>14. Told' BY <1>4, <1>5 DEF Told, Live
<1>15. Pool' /\ Messages' /\ Arriving' /\ Activity' /\ Requests'
  BY FramePool, FrameMessages, FrameArriving, FrameActivity, FrameRequests
<1> QED BY <1>7, <1>8, <1>9, <1>10, <1>12, <1>13, <1>14, <1>15

LEMMA CompleteStep ==
  ASSUME Benign, Inv, NEW w \in Worker, Complete(w)
  PROVE  Inv'
<1> USE DEF Inv
<1>1. pc[w] = "call" BY DEF Complete
<1>2. op[w] \in OpSet BY <1>1 DEF InHands
<1>3. op[w].slot # ACCEPT => op[w].slot \notin RangeOf(m_FreeList)
  BY <1>1, SameElems DEF Operations, Live
<1>4. PICK label : label = IF op[w].slot = ACCEPT THEN "ACCEPT" ELSE op[w].type OBVIOUS
<1>5. pc' = [pc EXCEPT ![w] = label] /\ fault' = fault
  BY <1>3, <1>4 DEF Complete, Goto
<1>6. \/ op[w] \in SessionOp /\ label = op[w].type /\ label \in {"RECV", "SEND", "CLOSE"}
      \/ op[w].slot = ACCEPT /\ op[w] \notin SessionOp /\ label = "ACCEPT"
  <2>1. CASE op[w] \in SessionOp
    <3>1. op[w].slot \in Slot /\ op[w].type \in {"RECV", "SEND", "CLOSE"} BY <2>1 DEF SessionOp
    <3> QED BY <1>4, <2>1, <3>1, Constants
  <2>2. CASE op[w] \notin SessionOp
    <3>1. op[w] = Reference(ACCEPT, "RECV", None) BY <1>2, <2>2 DEF OpSet
    <3>2. op[w].slot = ACCEPT BY <3>1 DEF Reference
    <3> QED BY <1>4, <2>2, <3>2
  <2> QED BY <2>1, <2>2
<1>7. pc'[w] = label /\ label \in Label BY <1>5, <1>6 DEF Types, ThreadTypes, Label
<1>8. op' = op BY DEF Complete
<1>9. \A v \in Worker : v = w BY OnlyOne
<1>10. InHands' BY <1>6, <1>7, <1>8, <1>9 DEF InHands
<1>11. InHand(w)' => InHand(w) BY <1>1, <1>6, <1>7, <1>8 DEF InHand
<1>12. failures' \in 0 .. FailMax /\ stranded' \subseteq Conn
  BY DEF Complete, failed, Types, GhostTypes
<1>13. label \notin {"DESTROY", "NOTIFY", "REGISTER"} BY <1>6
<1>14. pc[w] \notin {"DESTROY", "NOTIFY"} /\ pc[w] \notin {"idle", "UNLOCK"} BY <1>1
<1>15. /\ UNCHANGED <<polite, peer, sent, answered, unread, file, backlog, listener, listenEdge>>
       /\ UNCHANGED <<registered, edge, events, queue, session, m_FreeList, freeIDs, active>>
       /\ UNCHANGED <<msgs, op, mainPc, msg, id, fault, notified>>
  BY <1>5 DEF Complete, net, kernel, mgr, main
<1> QED BY <1>5, <1>7, <1>10, <1>11, <1>12, <1>13, <1>14, <1>15, LabelStep

\* Between operations the worker has nothing in its hands.
LEMMA IdleStep ==
  ASSUME Benign, Inv, NEW w \in Worker, pc[w] \notin {"DESTROY", "NOTIFY"},
         pc' = [pc EXCEPT ![w] = "idle"],
         failures' \in 0 .. FailMax, stranded' \subseteq Conn,
         UNCHANGED <<polite, peer, sent, answered, unread, file, backlog, listener, listenEdge>>,
         UNCHANGED <<registered, edge, events, queue, session, m_FreeList, freeIDs, active>>,
         UNCHANGED <<msgs, op, mainPc, msg, id, fault, notified>>
  PROVE  Inv'
<1>1. pc'[w] = "idle" BY DEF Inv, Types, ThreadTypes
<1>2. \A v \in Worker : v = w BY OnlyOne
<1>3. InHands' BY <1>1, <1>2 DEF InHands
<1>4. ~(InHand(w)') BY <1>1 DEF InHand
<1>5. "idle" \in Label /\ "idle" \notin {"DESTROY", "NOTIFY", "REGISTER"} BY DEF Label
<1> QED BY <1>3, <1>4, <1>5, LabelStep

LEMMA FailsType ==
  ASSUME Types, NEW C \in SUBSET Conn, Fails(C)
  PROVE  failures' \in 0 .. FailMax /\ stranded' \subseteq Conn
  BY Constants DEF Fails, Types, GhostTypes

LEMMA AcceptDoneStep ==
  ASSUME Benign, Inv, NEW w \in Worker, AcceptDone(w)
  PROVE  Inv'
<1>1. pc[w] = "ACCEPT" /\ pc' = [pc EXCEPT ![w] = "idle"] BY DEF AcceptDone, Goto
<1>2. /\ UNCHANGED <<polite, peer, sent, answered, unread, file, backlog, listener, listenEdge>>
      /\ UNCHANGED <<registered, edge, events, queue, session, m_FreeList, freeIDs, active>>
      /\ UNCHANGED <<msgs, op, mainPc, msg, id, fault, notified>>
  BY DEF AcceptDone, net, kernel, mgr, main
<1>3. failures' \in 0 .. FailMax /\ stranded' \subseteq Conn
  <2>1. RangeOf(backlog) \in SUBSET Conn
    BY SameElems, ElemsType DEF Inv, Types, KernelTypes
  <2>2. CASE Fails(RangeOf(backlog)) BY <2>1, <2>2, FailsType DEF Inv
  <2>3. CASE UNCHANGED failed BY <2>3 DEF Inv, Types, GhostTypes, failed
  <2> QED BY <2>2, <2>3 DEF AcceptDone
<1>4. pc[w] \notin {"DESTROY", "NOTIFY"} BY <1>1
<1> QED BY <1>1, <1>2, <1>3, <1>4, IdleStep

LEMMA UnLockStep ==
  ASSUME Benign, Inv, NEW w \in Worker, UnLock(w)
  PROVE  Inv'
<1>1. pc[w] = "UNLOCK" /\ pc' = [pc EXCEPT ![w] = "idle"] BY DEF UnLock, Goto
<1>2. /\ UNCHANGED <<polite, peer, sent, answered, unread, file, backlog, listener, listenEdge>>
      /\ UNCHANGED <<registered, edge, events, queue, session, m_FreeList, freeIDs, active>>
      /\ UNCHANGED <<msgs, op, mainPc, msg, id, fault, notified>>
  BY DEF UnLock, net, kernel, mgr, main
<1>3. failures' \in 0 .. FailMax /\ stranded' \subseteq Conn
  BY DEF UnLock, failed, Inv, Types, GhostTypes
<1>4. pc[w] \notin {"DESTROY", "NOTIFY"} BY <1>1
<1> QED BY <1>1, <1>2, <1>3, <1>4, IdleStep

\* A SEND finds nothing to send: it was queued for the new socket's being writable.
LEMMA WorkerSendStep ==
  ASSUME Benign, Inv, NEW w \in Worker, WorkerSend(w)
  PROVE  Inv'
<1>1. pc[w] = "SEND" /\ pc' = [pc EXCEPT ![w] = "idle"] /\ Send(op[w].slot)
  BY DEF WorkerSend, Goto
<1>2. PICK s : s = op[w].slot OBVIOUS
<1>3. op[w] \in SessionOp /\ op[w].slot # ACCEPT
  BY <1>1, Constants DEF Inv, InHands, SessionOp
<1>4. s \in Live /\ session[s].conn = op[w].conn /\ op[w].conn \in Conn
  BY <1>1, <1>2, <1>3 DEF Inv, Operations, SessionOp
<1>5. InHand(w) BY <1>1, <1>3 DEF InHand
<1>6. ~Serving(op[w].conn) BY <1>4, <1>5 DEF Inv, Served, Taken
<1>7. session[s].answers = 0
  <2>1. mainPc = "Complete" => msg.slot # s
    BY <1>4, <1>6 DEF Inv, Messages, Serving, InSendMsg
  <2> QED BY <1>4, <2>1 DEF Inv, Served
<1>8. UNCHANGED <<net, edge, session, fault>> BY <1>1, <1>2, <1>7 DEF Send
<1>9. /\ UNCHANGED <<polite, peer, sent, answered, unread, file, backlog, listener, listenEdge>>
      /\ UNCHANGED <<registered, edge, events, queue, session, m_FreeList, freeIDs, active>>
      /\ UNCHANGED <<msgs, op, mainPc, msg, id, fault, notified>>
  BY <1>8 DEF WorkerSend, net, mgr, main
<1>10. failures' \in 0 .. FailMax /\ stranded' \subseteq Conn
  BY DEF WorkerSend, failed, Inv, Types, GhostTypes
<1>11. pc[w] \notin {"DESTROY", "NOTIFY"} BY <1>1
<1> QED BY <1>1, <1>9, <1>10, <1>11, IdleStep

LEMMA RemoveAsyncOperationStep ==
  ASSUME Benign, Inv, NEW w \in Worker, RemoveAsyncOperation(w)
  PROVE  Inv'
<1> USE DEF Inv
<1>1. /\ pc[w] = "idle" /\ queue # << >> /\ queue' = Tail(queue)
      /\ op' = [op EXCEPT ![w] = Head(queue)] /\ pc' = [pc EXCEPT ![w] = "call"]
  BY DEF RemoveAsyncOperation, Goto
<1>2. /\ UNCHANGED <<polite, peer, sent, answered, unread, file, backlog, listener, listenEdge>>
      /\ UNCHANGED <<registered, edge, events, session, m_FreeList, freeIDs, active>>
      /\ UNCHANGED <<msgs, mainPc, msg, id, fault, notified, failures, stranded>>
  BY DEF RemoveAsyncOperation, net, kernel, mgr, main, failed
<1>3. queue \in Seq(OpSet) /\ pc \in [Worker -> Label] /\ op \in [Worker -> HandSet]
  BY DEF Types, ThreadTypes
<1> DEFINE n == Len(queue)
<1>4. /\ n \in Nat \ {0} /\ queue' \in Seq(OpSet) /\ Len(queue') = n - 1
      /\ \A i \in 1 .. n - 1 : i + 1 \in 1 .. n /\ queue'[i] = queue[i + 1]
      /\ Head(queue) = queue[1] /\ queue[1] \in OpSet /\ 1 \in 1 .. n
  BY <1>1, <1>3, EmptySeq, HeadTailProperties, ElementOfSeq
<1> HIDE DEF n
<1>5. pc'[w] = "call" /\ op'[w] = queue[1] BY <1>1, <1>3, <1>4
<1>6. \A v \in Worker : v = w BY OnlyOne
<1>7. \A s : ~Closing(s) /\ ~(Closing(s)') /\ ~Notifying(s) /\ ~(Notifying(s)')
  BY <1>1, <1>5, <1>6 DEF Closing, Notifying
<1>8. Elems(queue') \subseteq Elems(queue) /\ queue[1] \in Elems(queue) BY <1>4 DEF Elems, n
<1>9. OpSet \subseteq HandSet
  <2>1. SessionOp \subseteq HandSet BY DEF SessionOp, HandSet
  <2>2. Reference(ACCEPT, "RECV", None) \in HandSet BY DEF Reference, HandSet
  <2> QED BY <2>1, <2>2 DEF OpSet
<1>10. Types'
  <2>1. ThreadTypes' BY <1>1, <1>2, <1>3, <1>4, <1>9 DEF Types, ThreadTypes, Label
  <2>2. NetTypes' /\ PoolTypes' /\ KernelTypes' /\ MainTypes' /\ GhostTypes'
    BY <1>2 DEF Types, NetTypes, PoolTypes, KernelTypes, MainTypes, GhostTypes
  <2> QED BY <2>1, <2>2 DEF Types
<1>11. InHands' BY <1>4, <1>5, <1>6 DEF InHands
<1>12. Sockets' BY <1>2, <1>7 DEF Sockets, Live
<1>13. Registrations' BY <1>2, <1>5, <1>6, <1>7 DEF Registrations, Live
<1>14. Told' BY <1>2, <1>7 DEF Told, Live
<1>15. Operations'
  <2>1. \A r : Due(r)' <=> Due(r) BY <1>2 DEF Due
  <2>2. queue[1] \in SessionOp => Due(queue[1]) /\ registered[queue[1].conn] = queue[1].slot
    BY <1>8 DEF Operations
  <2>3. \A r \in events' \cup Elems(queue') : r \in SessionOp => Due(r) /\ registered[r.conn] = r.slot
    BY <1>2, <1>8 DEF Operations
  <2>4. queue[1].slot # ACCEPT =>
          queue[1].slot \in Live /\ session[queue[1].slot].conn = queue[1].conn
    <3> SUFFICES ASSUME queue[1].slot # ACCEPT
                 PROVE  queue[1].slot \in Live /\ session[queue[1].slot].conn = queue[1].conn
      OBVIOUS
    <3>1. queue[1] \in SessionOp BY <1>4 DEF OpSet, Reference
    <3>2. queue[1].slot \in Slot /\ queue[1].conn \in Conn BY <3>1 DEF SessionOp
    <3> QED BY <2>2, <3>1, <3>2, Constants DEF Registrations
  <2> QED BY <1>2, <1>5, <1>6, <2>1, <2>2, <2>3, <2>4 DEF Operations, InHand, Live
<1>16. \A c : \A i \in 0 .. n : NoneAfter(c, i + 1) => NoneAfter(c, i)'
  <2> SUFFICES ASSUME NEW c, NEW i \in 0 .. n, NoneAfter(c, i + 1),
                      NEW j \in 1 .. n - 1, j > i
               PROVE  queue'[j].conn # c
    BY <1>2, <1>4 DEF NoneAfter, NoEvent
  <2>1. j + 1 \in 1 .. n /\ j + 1 > i + 1 BY <1>4
  <2> QED BY <1>4, <2>1 DEF NoneAfter, n
<1>17. \A c : NoneAfter(c, 0) => NoneAfter(c, 1) /\ queue[1].conn # c
  BY <1>4 DEF NoneAfter, n
<1>18. Last'
  <2>1. queue[1] \in SessionOp /\ queue[1].type # "SEND" => NoneAfter(op[w].conn, 0)'
    <3>1. queue[1] \in SessionOp /\ queue[1].type # "SEND" => NoneAfter(queue[1].conn, 1)
      BY <1>4 DEF Last, n
    <3>2. PICK c : c = queue[1].conn OBVIOUS
    <3>3. 0 \in 0 .. n /\ 0 + 1 = 1 BY <1>4
    <3>4. NoneAfter(c, 1) => NoneAfter(c, 0)' BY <1>16, <3>3
    <3>5. op'[w].conn = c BY <1>5, <3>2
    <3> QED BY <3>1, <3>2, <3>4, <3>5
  <2>2. ASSUME NEW i \in 1 .. n - 1, queue'[i] \in SessionOp, queue'[i].type # "SEND"
        PROVE  NoneAfter(queue[i].conn, i)'
    <3>1. PICK c : c = queue'[i].conn OBVIOUS
    <3>2. NoneAfter(c, i + 1) BY <1>4, <2>2, <3>1 DEF Last, n
    <3>3. i \in 0 .. n BY <1>4
    <3>4. NoneAfter(c, i)' BY <1>16, <3>2, <3>3
    <3> QED BY <3>1, <3>4
  <2>3. \A v \in Worker : (InHand(v)' \/ pc'[v] = "DESTROY") /\ op'[v].type # "SEND" =>
          NoneAfter(op[v].conn, 0)'
    BY <1>5, <1>6, <2>1 DEF InHand
  <2> QED BY <1>2, <1>4, <2>2, <2>3 DEF Last
<1>19. Served'
  <2>1. \A d : Taken(d)' = Taken(d) BY <1>2 DEF Taken, Serving, Waiting
  <2>2. 0 \in 0 .. n /\ 0 + 1 = 1 BY <1>4
  <2>3. \A d : NoneAfter(d, 0) => NoneAfter(d, 0)' BY <1>16, <1>17, <2>2
  <2>4. \A d \in Conn : Taken(d)' =>
          /\ unread'[d] = 0 /\ sent'[d] = answered'[d] + 1 /\ registered'[d] # None
          /\ NoneAfter(d, 0)'
          /\ \A v \in Worker : InHand(v)' => op'[v].conn # d
    BY <1>2, <1>5, <1>6, <1>17, <2>1, <2>3 DEF Served
  <2> QED BY <1>2, <2>4 DEF Served, Serving, Waiting, Live
<1>20. Pool' /\ Messages' /\ Arriving' /\ Activity' /\ Requests'
  BY <1>2, FramePool, FrameMessages, FrameArriving, FrameActivity, FrameRequests
<1> QED BY <1>10, <1>11, <1>12, <1>13, <1>14, <1>15, <1>18, <1>19, <1>20

LEMMA InsertSimpleMsgStep ==
  ASSUME Benign, Inv, NEW w \in Worker, InsertSimpleMsg(w)
  PROVE  Inv'
<1> USE DEF Inv
<1>1. /\ pc[w] = "NOTIFY" /\ msgs' = Append(msgs, op[w]) /\ pc' = [pc EXCEPT ![w] = "REGISTER"]
      /\ notified' = [notified EXCEPT ![op[w].conn] = Append(@, op[w].type)]
  BY DEF InsertSimpleMsg, Goto, After, Notify
<1>2. /\ UNCHANGED <<polite, peer, sent, answered, unread, file, backlog, listener, listenEdge>>
      /\ UNCHANGED <<registered, edge, events, queue, session, m_FreeList, freeIDs, active>>
      /\ UNCHANGED <<op, mainPc, msg, id, fault, failures, stranded>>
  BY DEF InsertSimpleMsg, net, kernel, mgr, main, failed
<1>3. /\ msgs \in Seq(MsgSet) /\ pc \in [Worker -> Label] /\ op[w] \in HandSet
      /\ notified \in [Conn -> Seq(Note)]
  BY DEF Types, ThreadTypes, MainTypes, GhostTypes
<1>4. PICK c : c = op[w].conn OBVIOUS
<1>5. PICK s : s = op[w].slot OBVIOUS
<1>6. /\ c \in Conn /\ s \in Slot /\ op[w].type = "ACCEPT" /\ s \in Live
      /\ session[s].conn = c /\ registered[c] = None
  <2>1. c \in Conn /\ s \in Slot /\ op[w].type = "ACCEPT" BY <1>1, <1>4, <1>5 DEF InHands
  <2>2. s # ACCEPT BY <2>1, Constants
  <2>3. pc[w] \notin {"idle", "UNLOCK"} BY <1>1
  <2> QED BY <1>1, <1>4, <1>5, <2>1, <2>2, <2>3 DEF Operations, Registrations
<1>7. op[w] \in MsgSet
  <2>1. op[w] \in LiveMsg BY <1>3, <1>4, <1>5, <1>6 DEF LiveMsg, HandSet
  <2> QED BY <2>1 DEF MsgSet
<1>8. pc'[w] = "REGISTER" BY <1>1, <1>3
<1>9. \A v \in Worker : v = w BY OnlyOne
<1>10. \A t : ~Closing(t) /\ ~(Closing(t)') /\ ~(Notifying(t)') /\ (Notifying(t) <=> t = s)
  BY <1>1, <1>5, <1>8, <1>9 DEF Closing, Notifying
<1>11. \A v \in Worker : ~InHand(v) /\ ~(InHand(v)') BY <1>1, <1>8, <1>9 DEF InHand
<1> DEFINE n == Len(msgs)
<1>12. /\ msgs' \in Seq(MsgSet) /\ n \in Nat /\ Len(msgs') = n + 1 /\ msgs'[n + 1] = op[w]
       /\ \A i \in 1 .. n : msgs'[i] = msgs[i]
  BY <1>1, <1>3, <1>7, AppendProperties
<1> HIDE DEF n
<1>13. notified[c] = << >> BY <1>6, <1>10 DEF Told
<1>14. /\ notified' \in [Conn -> Seq(Note)] /\ notified'[c] = <<"ACCEPT">>
       /\ \A d \in Conn \ {c} : notified'[d] = notified[d]
  <2>1. Append(notified[c], "ACCEPT") = <<"ACCEPT">> BY <1>13
  <2>2. <<"ACCEPT">> \in Seq(Note) BY DEF Note
  <2>3. notified' = [notified EXCEPT ![c] = <<"ACCEPT">>] BY <1>1, <1>4, <1>6, <2>1
  <2> QED BY <1>3, <1>6, <2>2, <2>3
<1>15. Types'
  <2>1. ThreadTypes' BY <1>1, <1>2, <1>3 DEF Types, ThreadTypes, Label
  <2>2. MainTypes' BY <1>2, <1>12 DEF Types, MainTypes
  <2>3. GhostTypes' BY <1>2, <1>14 DEF Types, GhostTypes
  <2>4. NetTypes' /\ PoolTypes' /\ KernelTypes' BY <1>2 DEF Types, NetTypes, PoolTypes, KernelTypes
  <2> QED BY <2>1, <2>2, <2>3, <2>4 DEF Types
<1>16. InHands' BY <1>1, <1>2, <1>8, <1>9 DEF InHands
<1>17. Sockets' BY <1>2, <1>10 DEF Sockets, Live
<1>18. Registrations' BY <1>2, <1>4, <1>6, <1>8, <1>9, <1>10 DEF Registrations, Live
<1>19. Arriving'
  <2>1. ~Early(c) BY <1>6 DEF Arriving
  <2>2. \A d : Early(d)' <=> Early(d) BY <1>2 DEF Early
  <2> QED BY <1>2, <1>14, <2>1, <2>2 DEF Arriving, Live
<1>20. Operations'
  <2>1. \A r : Due(r)' <=> Due(r) BY <1>2 DEF Due
  <2>2. \A v \in Worker : pc'[v] # "DESTROY" BY <1>8, <1>9
  <2>3. \A v \in Worker : op[v].slot \in Live /\ session[op[v].slot].conn = op[v].conn
    BY <1>4, <1>5, <1>6, <1>9
  <2> QED BY <1>2, <1>11, <2>1, <2>2, <2>3 DEF Operations, Live
<1>21. \A d, i : NoneAfter(d, i)' <=> NoneAfter(d, i) BY <1>2 DEF NoneAfter, NoEvent
<1>22. Last'
  <2>1. \A v \in Worker : pc'[v] # "DESTROY" BY <1>8, <1>9
  <2> QED BY <1>2, <1>11, <1>21, <2>1 DEF Last
<1>23. \A d : Waiting(d)' => Waiting(d)
  <2> SUFFICES ASSUME NEW d, NEW i \in 1 .. n + 1, msgs'[i].type = "RECV", msgs'[i].conn = d
               PROVE  Waiting(d)
    BY <1>12 DEF Waiting
  <2>1. i # n + 1 BY <1>6, <1>12
  <2>2. i \in 1 .. n BY <1>12, <2>1
  <2> QED BY <1>12, <2>2 DEF Waiting, n
<1>24. Served'
  <2>1. \A d : Serving(d)' <=> Serving(d) BY <1>2 DEF Serving
  <2>2. \A d \in Conn : Taken(d)' =>
          /\ unread'[d] = 0 /\ sent'[d] = answered'[d] + 1 /\ registered'[d] # None
          /\ NoneAfter(d, 0)'
          /\ \A v \in Worker : InHand(v)' => op'[v].conn # d
    BY <1>2, <1>11, <1>21, <1>23, <2>1 DEF Served, Taken
  <2>3. \A i \in 1 .. n + 1 : msgs'[i].type = "RECV" => i \in 1 .. n /\ msgs'[i] = msgs[i]
    BY <1>6, <1>12
  <2>4. \A i, j \in 1 .. n + 1 :
          msgs'[i].type = "RECV" /\ msgs'[j].type = "RECV" /\ msgs'[i].conn = msgs'[j].conn => i = j
    BY <2>3 DEF Served, n
  <2> QED BY <1>2, <1>12, <1>23, <2>1, <2>2, <2>4 DEF Served, Live
<1>25. Messages'
  <2>1. ~Taken(c) BY <1>6 DEF Served
  <2>2. answered[c] = 0 BY <1>6, <1>10 DEF Registrations
  <2>3. \A d : Serving(d)' <=> Serving(d) BY <1>2 DEF Serving
  <2>4. ASSUME NEW i \in 1 .. n + 1
        PROVE  /\ msgs'[i].type # "CLOSE" =>
                    msgs'[i].slot \in Live /\ session[msgs'[i].slot].conn = msgs'[i].conn
               /\ msgs'[i].type = "ACCEPT" =>
                    /\ answered[msgs'[i].conn] = 0 /\ ~Serving(msgs'[i].conn)
                    /\ \A j \in 1 .. i : msgs'[j].type = "RECV" => msgs'[j].conn # msgs'[i].conn
    <3>1. CASE i \in 1 .. n
      <4>1. msgs'[i] = msgs[i] /\ \A j \in 1 .. i : msgs'[j] = msgs[j] BY <1>12, <3>1
      <4> QED BY <3>1, <4>1 DEF Messages, n
    <3>2. CASE i = n + 1
      <4>1. msgs'[i] = op[w] BY <1>12, <3>2
      <4>2. \A j \in 1 .. i : msgs'[j].type = "RECV" => j \in 1 .. n /\ msgs'[j] = msgs[j]
        BY <1>6, <1>12, <3>2
      <4>3. \A j \in 1 .. i : msgs'[j].type = "RECV" => msgs'[j].conn # c
        BY <2>1, <4>2 DEF Taken, Waiting, n
      <4>4. ~Serving(c) BY <2>1 DEF Taken
      <4> QED BY <1>4, <1>5, <1>6, <2>2, <4>1, <4>3, <4>4
    <3> QED BY <1>12, <3>1, <3>2
  <2> QED BY <1>2, <1>12, <2>3, <2>4 DEF Messages, Live
<1>26. Told'
  <2>1. \A i \in 1 .. Len(<<"ACCEPT">>) : i = 1 /\ <<"ACCEPT">>[i] = "ACCEPT" OBVIOUS
  <2>2. \A d \in Conn : \A i \in 1 .. Len(notified'[d]) :
          /\ notified'[d][i] = "ACCEPT" <=> i = 1
          /\ notified'[d][i] = "CLOSE" => i = Len(notified'[d])
    <3>1. \A i \in 1 .. Len(notified'[c]) :
            /\ notified'[c][i] = "ACCEPT" <=> i = 1
            /\ notified'[c][i] = "CLOSE" => i = Len(notified'[c])
      BY <1>14, <2>1
    <3> QED BY <1>14, <3>1 DEF Told
  <2>3. <<"ACCEPT">> # << >> /\ "CLOSE" \notin Elems(<<"ACCEPT">>) BY <2>1 DEF Elems
  <2>4. \A t \in Live : /\ notified'[session[t].conn] # << >>
                        /\ "CLOSE" \notin Elems(notified'[session[t].conn])
    <3> SUFFICES ASSUME NEW t \in Live
                 PROVE  /\ notified'[session[t].conn] # << >>
                        /\ "CLOSE" \notin Elems(notified'[session[t].conn])
      OBVIOUS
    <3>1. session[t].conn \in Conn BY DEF Pool, Live, Types, PoolTypes, SessionSet
    <3>2. CASE t = s BY <1>6, <1>14, <2>3, <3>2
    <3>3. CASE t # s
      <4>1. session[t].conn # c BY <1>6, <3>3 DEF Pool
      <4> QED BY <1>10, <1>14, <3>1, <3>3, <4>1 DEF Told
    <3> QED BY <3>2, <3>3
  <2> QED BY <1>2, <1>10, <2>2, <2>4 DEF Told, Live
<1>27. Pool' /\ Activity' /\ Requests' BY <1>2, FramePool, FrameActivity, FrameRequests
<1> QED BY <1>15, <1>16, <1>17, <1>18, <1>19, <1>20, <1>22, <1>24, <1>25, <1>26, <1>27

LEMMA RegisterSocketStep ==
  ASSUME Benign, Inv, NEW w \in Worker, RegisterSocket(w)
  PROVE  Inv'
<1> USE DEF Inv
<1>1. pc[w] = "REGISTER" BY DEF RegisterSocket, RegisterSocketOf
<1>2. /\ UNCHANGED <<polite, peer, sent, answered, unread, file, backlog, listener, listenEdge>>
      /\ UNCHANGED <<events, queue, session, m_FreeList, freeIDs, active>>
      /\ UNCHANGED <<msgs, op, mainPc, msg, id, fault, notified>>
  BY DEF RegisterSocket, RegisterSocketOf, net, mgr, main
<1>3. PICK c : c = op[w].conn OBVIOUS
<1>4. PICK s : s = op[w].slot OBVIOUS
<1>5. /\ c \in Conn /\ s \in Slot /\ op[w].type = "ACCEPT" /\ s \in Live
      /\ session[s].conn = c /\ registered[c] = None
  <2>1. c \in Conn /\ s \in Slot /\ op[w].type = "ACCEPT" BY <1>1, <1>3, <1>4 DEF InHands
  <2>2. s # ACCEPT BY <2>1, Constants
  <2>3. pc[w] \notin {"idle", "UNLOCK"} BY <1>1
  <2> QED BY <1>1, <1>3, <1>4, <2>1, <2>2, <2>3 DEF Operations, Registrations
<1>6. CASE /\ Fails({c} \cup RangeOf(backlog)) /\ pc' = [pc EXCEPT ![w] = "idle"]
           /\ UNCHANGED <<registered, edge>>
  <2>1. {c} \cup RangeOf(backlog) \in SUBSET Conn
    BY <1>5, SameElems, ElemsType DEF Types, KernelTypes
  <2>2. failures' \in 0 .. FailMax /\ stranded' \subseteq Conn BY <1>6, <2>1, FailsType
  <2>3. pc[w] \notin {"DESTROY", "NOTIFY"} BY <1>1
  <2>4. UNCHANGED <<registered, edge, events, queue, session, m_FreeList, freeIDs, active>>
    BY <1>2, <1>6
  <2> QED BY <1>2, <1>6, <2>2, <2>3, <2>4, IdleStep
<1>7. CASE /\ registered' = [registered EXCEPT ![c] = s] /\ edge' = [edge EXCEPT ![c] = TRUE]
           /\ pc' = [pc EXCEPT ![w] = "ACCEPT"] /\ UNCHANGED <<failures, stranded>>
  <2>1. /\ pc \in [Worker -> Label] /\ registered \in [Conn -> Slot \cup {None}]
        /\ edge \in [Conn -> BOOLEAN]
    BY DEF Types, ThreadTypes, KernelTypes
  <2>2. /\ pc'[w] = "ACCEPT" /\ registered'[c] = s /\ edge'[c] /\ s # None
        /\ \A d \in Conn \ {c} : registered'[d] = registered[d] /\ edge'[d] = edge[d]
    BY <1>5, <1>7, <2>1, Constants
  <2>3. \A v \in Worker : v = w BY OnlyOne
  <2>4. \A t : ~Closing(t) /\ ~(Closing(t)') /\ ~(Notifying(t)') /\ ~Notifying(t)
    BY <1>1, <2>2, <2>3 DEF Closing, Notifying
  <2>5. \A v \in Worker : ~InHand(v) /\ ~(InHand(v)') /\ pc'[v] # "DESTROY"
    BY <1>1, <2>2, <2>3 DEF InHand
  <2>6. \A r \in events \cup Elems(queue) : r \in SessionOp => r.conn # c /\ r.conn \in Conn
    <3>1. \A r \in SessionOp : r.slot # None /\ r.conn \in Conn BY Constants DEF SessionOp
    <3> QED BY <1>5, <3>1 DEF Operations
  <2>7. \A r \in events \cup Elems(queue) : r.conn # c
    <3>1. events \cup Elems(queue) \subseteq OpSet BY ElemsType DEF Types, ThreadTypes
    <3>2. Reference(ACCEPT, "RECV", None).conn # c BY <1>5, Constants DEF Reference
    <3> QED BY <2>6, <3>1, <3>2 DEF OpSet
  <2>8. Types'
    <3>1. KernelTypes' BY <1>2, <1>5, <1>7, <2>1 DEF Types, KernelTypes
    <3>2. ThreadTypes' BY <1>2, <1>7, <2>1 DEF Types, ThreadTypes, Label
    <3>3. NetTypes' /\ PoolTypes' /\ MainTypes' /\ GhostTypes'
      BY <1>2, <1>7 DEF Types, NetTypes, PoolTypes, MainTypes, GhostTypes
    <3> QED BY <3>1, <3>2, <3>3 DEF Types
  <2>9. InHands' BY <1>2, <1>4, <1>5, <2>2, <2>3 DEF InHands
  <2>10. Sockets' BY <1>2, <2>4 DEF Sockets, Live
  <2>11. Arriving'
    <3>1. ~Early(c) BY <1>5 DEF Arriving
    <3>2. \A d : Early(d)' <=> Early(d) BY <1>2 DEF Early
    <3> QED BY <1>2, <2>2, <3>1, <3>2 DEF Arriving, Live
  <2>12. Registrations'
    <3>1. answered[c] = 0 BY <1>5, <2>4 DEF Registrations
    <3>2. \A d \in Conn : registered'[d] # None =>
            registered'[d] \in Live /\ session[registered'[d]].conn = d
      BY <1>5, <2>2 DEF Registrations
    <3>3. \A t \in Live : registered'[session[t].conn] = None => answered[session[t].conn] = 0
      <4>1. \A t \in Live : session[t].conn \in Conn
        BY DEF Pool, Live, Types, PoolTypes, SessionSet
      <4> QED BY <2>2, <2>4, <4>1 DEF Registrations
    <3>4. \A d \in Conn : edge'[d] =>
            registered'[d] # None /\ (unread[d] = 1 \/ peer[d] = "finished" \/ answered[d] = 0)
      BY <2>2, <3>1 DEF Registrations
    <3>5. \A v \in Worker : pc'[v] \notin {"NOTIFY", "REGISTER"} BY <2>2, <2>3
    <3> QED BY <1>2, <3>2, <3>3, <3>4, <3>5 DEF Registrations, Live
  <2>13. Operations'
    <3>1. \A r : Due(r)' <=> Due(r) BY <1>2 DEF Due
    <3>2. \A v \in Worker : op[v].slot \in Live /\ session[op[v].slot].conn = op[v].conn
      BY <1>3, <1>4, <1>5, <2>3
    <3>3. \A r \in events \cup Elems(queue) : r \in SessionOp =>
            Due(r) /\ registered'[r.conn] = r.slot
      BY <2>2, <2>6 DEF Operations
    <3> QED BY <1>2, <2>5, <3>1, <3>2, <3>3 DEF Operations, Live
  <2>14. \A d \in Conn \ {c}, i \in Nat : NoneAfter(d, i) => NoneAfter(d, i)'
    BY <1>2, <2>2 DEF NoneAfter, NoEvent
  <2>15. Last'
    <3>1. ASSUME NEW i \in 1 .. Len(queue), queue[i] \in SessionOp, queue[i].type # "SEND"
          PROVE  NoneAfter(queue[i].conn, i)'
      <4>1. PICK d : d = queue[i].conn OBVIOUS
      <4>2. d \in Conn \ {c} /\ i \in Nat BY <2>6, <3>1, <4>1 DEF Elems
      <4>3. NoneAfter(d, i) BY <3>1, <4>1 DEF Last
      <4>4. NoneAfter(d, i)' BY <2>14, <4>2, <4>3
      <4>5. queue'[i].conn = d BY <1>2, <4>1
      <4> QED BY <4>4, <4>5
    <3>2. \A r \in events : r \in SessionOp =>
            /\ r.type # "CLOSE" /\ (\A q \in events : q.conn = r.conn => q = r)
            /\ r.type # "SEND" => ~edge'[r.conn]
      BY <2>2, <2>6 DEF Last
    <3> QED BY <1>2, <2>5, <3>1, <3>2 DEF Last
  <2>16. Served'
    <3>1. \A d : Taken(d)' = Taken(d) BY <1>2 DEF Taken, Serving, Waiting
    <3>2. \A d \in Conn : Taken(d) => d # c BY <1>5 DEF Served
    <3>3. \A d \in Conn : Taken(d)' =>
            /\ unread'[d] = 0 /\ sent'[d] = answered'[d] + 1 /\ registered'[d] # None
            /\ NoneAfter(d, 0)'
            /\ \A v \in Worker : InHand(v)' => op'[v].conn # d
      BY <1>2, <2>2, <2>5, <2>14, <3>1, <3>2 DEF Served
    <3> QED BY <1>2, <3>3 DEF Served, Serving, Waiting, Live
  <2>17. Told' BY <1>2, <2>4 DEF Told, Live
  <2>18. Pool' /\ Messages' /\ Activity' /\ Requests'
    BY <1>2, FramePool, FrameMessages, FrameActivity, FrameRequests
  <2> QED BY <2>8, <2>9, <2>10, <2>11, <2>12, <2>13, <2>15, <2>16, <2>17, <2>18
<1> QED BY <1>3, <1>4, <1>6, <1>7 DEF RegisterSocket, RegisterSocketOf, After, Goto, failed

\* No operation and no message refers to the session that goes back to the pool.
LEMMA DestroySessionStep ==
  ASSUME Benign, Inv, NEW w \in Worker, DestroySession(w)
  PROVE  Inv'
<1> USE DEF Inv
<1>1. PICK s : s = op[w].slot OBVIOUS
<1>2. PICK c : c = op[w].conn OBVIOUS
<1>3. PICK k : k = session[s].m_ID OBVIOUS
<1>4. /\ pc[w] = "DESTROY" /\ pc' = [pc EXCEPT ![w] = "UNLOCK"]
      /\ active' = [active EXCEPT ![k] = FALSE] /\ freeIDs' = <<k>> \o freeIDs
      /\ m_FreeList' = <<s>> \o m_FreeList
  BY <1>1, <1>3 DEF DestroySession, Goto
<1>5. /\ UNCHANGED <<polite, peer, sent, answered, unread, file, backlog, listener, listenEdge>>
      /\ UNCHANGED <<registered, edge, events, queue, session>>
      /\ UNCHANGED <<msgs, op, mainPc, msg, id, fault, notified, failures, stranded>>
  BY DEF DestroySession, net, kernel, main, failed
<1>6. /\ pc \in [Worker -> Label] /\ m_FreeList \in Seq(Slot) /\ freeIDs \in Seq(Slot)
      /\ session \in [Slot -> SessionSet] /\ active \in [Slot -> BOOLEAN]
  BY DEF Types, ThreadTypes, PoolTypes
<1>7. op[w] \in SessionOp /\ op[w].type = "CLOSE" BY <1>4 DEF InHands
<1>8. /\ s \in Slot /\ c \in Conn /\ s \in Live /\ session[s].conn = c
      /\ registered[c] = None /\ peer[c] = "finished"
  <2>1. s \in Slot /\ c \in Conn BY <1>1, <1>2, <1>7 DEF SessionOp
  <2>2. pc[w] \notin {"idle", "UNLOCK"} /\ op[w].slot # ACCEPT BY <1>1, <1>4, <2>1, Constants
  <2> QED BY <1>1, <1>2, <1>4, <1>7, <2>1, <2>2 DEF Operations, Due
<1>9. k \in Slot /\ k \notin Elems(freeIDs) /\ s \notin Elems(m_FreeList)
  BY <1>3, <1>6, <1>8 DEF SessionSet, Pool, Live
<1>10. /\ m_FreeList' \in Seq(Slot) /\ Distinct(m_FreeList')
       /\ Elems(m_FreeList') = Elems(m_FreeList) \cup {s}
  BY <1>4, <1>6, <1>8, <1>9, ConsElems DEF Pool
<1>11. /\ freeIDs' \in Seq(Slot) /\ Distinct(freeIDs')
       /\ Elems(freeIDs') = Elems(freeIDs) \cup {k}
  BY <1>4, <1>6, <1>9, ConsElems DEF Pool
<1>12. /\ Len(m_FreeList') = Len(m_FreeList) + 1 /\ Len(freeIDs') = Len(freeIDs) + 1
       /\ Len(m_FreeList) \in Nat /\ Len(freeIDs) \in Nat /\ Len(backlog) \in Nat
  <2>1. <<s>> \in Seq(Slot) /\ <<k>> \in Seq(Slot) /\ Len(<<s>>) = 1 /\ Len(<<k>>) = 1 BY <1>8, <1>9
  <2>2. Len(<<s>> \o m_FreeList) = Len(<<s>>) + Len(m_FreeList)
        /\ Len(<<k>> \o freeIDs) = Len(<<k>>) + Len(freeIDs)
    BY <1>6, <2>1, ConcatProperties
  <2>3. Len(m_FreeList) \in Nat /\ Len(freeIDs) \in Nat /\ Len(backlog) \in Nat
    BY <1>6, LenProperties DEF Types, KernelTypes
  <2> QED BY <1>4, <2>1, <2>2, <2>3
<1>13. Live' = Live \ {s} /\ Live' \subseteq Live BY <1>10 DEF Live
<1>14. pc'[w] = "UNLOCK" BY <1>4, <1>6
<1>15. \A v \in Worker : v = w BY OnlyOne
<1>16. \A t : /\ Closing(t) <=> t = s
              /\ ~(Closing(t)') /\ ~(Notifying(t)') /\ ~Notifying(t)
  BY <1>1, <1>4, <1>14, <1>15 DEF Closing, Notifying
<1>17. \A v \in Worker : ~InHand(v) /\ ~(InHand(v)') /\ pc'[v] = "UNLOCK"
  BY <1>4, <1>14, <1>15 DEF InHand
<1>18. \A t \in Live : session[t].conn = c <=> t = s BY <1>8 DEF Pool
<1>19. Types'
  <2>1. PoolTypes' BY <1>4, <1>5, <1>6, <1>9, <1>10, <1>11 DEF Types, PoolTypes
  <2>2. ThreadTypes' BY <1>4, <1>5, <1>6 DEF Types, ThreadTypes, Label
  <2>3. NetTypes' /\ KernelTypes' /\ MainTypes' /\ GhostTypes'
    BY <1>5 DEF Types, NetTypes, KernelTypes, MainTypes, GhostTypes
  <2> QED BY <2>1, <2>2, <2>3 DEF Types
<1>20. InHands' BY <1>17 DEF InHands
<1>21. Pool'
  <2>1. \A t \in Live \ {s} : session[t].m_ID # k BY <1>3, <1>8 DEF Pool
  <2>2. \A t \in Live' : session[t].conn # None /\ session[t].m_ID \notin Elems(freeIDs')
    BY <1>11, <1>13, <2>1 DEF Pool
  <2> QED BY <1>5, <1>10, <1>11, <1>12, <1>13, <2>2 DEF Pool
<1>22. Sockets'
  <2>1. \A f \in FD : file[f] # None => \E t \in Live' : session[t].m_Sock = f
    BY <1>13, <1>16 DEF Sockets
  <2>2. \A t \in Live' : file[session[t].m_Sock] = session[t].conn
    BY <1>13, <1>16 DEF Sockets
  <2> QED BY <1>5, <1>16, <2>1, <2>2 DEF Sockets
<1>23. Arriving'
  <2>1. \A d : Early(d)' <=> Early(d) BY <1>5 DEF Early
  <2>2. Len(backlog') <= Len(m_FreeList')
    <3>1. Len(backlog) <= Len(m_FreeList) BY DEF Arriving
    <3> QED BY <1>5, <1>12, <3>1
  <2> QED BY <1>5, <1>13, <2>1, <2>2 DEF Arriving
<1>24. Registrations'
  <2>1. \A d \in Conn : registered[d] # None =>
          registered[d] \in Live' /\ session[registered[d]].conn = d
    BY <1>8, <1>13, <1>18 DEF Registrations
  <2>2. \A t \in Live' : registered[session[t].conn] = None => answered[session[t].conn] = 0
    BY <1>13, <1>16 DEF Registrations
  <2> QED BY <1>5, <1>17, <2>1, <2>2 DEF Registrations
<1>25. Operations'
  <2>1. \A r : Due(r)' <=> Due(r) BY <1>5 DEF Due
  <2> QED BY <1>5, <1>17, <2>1 DEF Operations
<1>26. Last'
  <2>1. \A d, i : NoneAfter(d, i)' <=> NoneAfter(d, i) BY <1>5 DEF NoneAfter, NoEvent
  <2> QED BY <1>5, <1>17, <2>1 DEF Last
<1>27. Served'
  <2>1. \A d : Taken(d)' = Taken(d) BY <1>5 DEF Taken, Serving, Waiting
  <2>2. \A d \in Conn : Taken(d)' =>
          /\ unread'[d] = 0 /\ sent'[d] = answered'[d] + 1 /\ registered'[d] # None
          /\ NoneAfter(d, 0)'
          /\ \A v \in Worker : InHand(v)' => op'[v].conn # d
    BY <1>5, <1>17, <2>1 DEF Served, NoneAfter, NoEvent
  <2> QED BY <1>5, <1>13, <2>2 DEF Served, Serving, Waiting
<1>28. ~Taken(c) /\ answered[c] # 0
  <2>1. sent[c] \in Nat /\ answered[c] \in Nat BY <1>8 DEF Types, NetTypes
  <2>2. sent[c] = answered[c] /\ sent[c] > 0 BY <1>8 DEF Requests
  <2> QED BY <1>8, <2>1, <2>2 DEF Served
<1>29. Messages'
  <2>1. \A d : Serving(d)' <=> Serving(d) BY <1>5 DEF Serving
  <2>2. \A i \in 1 .. Len(msgs) : msgs[i].type # "CLOSE" => msgs[i].slot \in Live'
    <3> SUFFICES ASSUME NEW i \in 1 .. Len(msgs), msgs[i].type # "CLOSE", msgs[i].slot = s
                 PROVE  FALSE
      BY <1>13 DEF Messages
    <3>1. msgs[i].conn = c BY <1>8 DEF Messages
    <3>2. msgs[i] \in MsgSet BY ElementOfSeq DEF Types, MainTypes
    <3>3. msgs[i].type \in {"ACCEPT", "RECV"} BY <3>2 DEF MsgSet, LiveMsg
    <3> QED BY <1>28, <3>1, <3>3 DEF Messages, Taken, Waiting
  <2>3. mainPc \in InSendMsg => msg.slot \in Live'
    BY <1>8, <1>13, <1>28 DEF Messages, Taken, Serving
  <2> QED BY <1>5, <2>1, <2>2, <2>3 DEF Messages
<1>30. Activity'
  <2>1. \A t \in Live' : session[t].m_ID \in Slot /\ session[t].m_ID # k
    BY <1>3, <1>6, <1>8, <1>13 DEF Pool, SessionSet, Live
  <2> QED BY <1>4, <1>5, <1>6, <1>13, <2>1 DEF Activity
<1>31. Told'
  <2>1. \A t \in Live' : /\ notified[session[t].conn] # << >>
                        /\ "CLOSE" \notin Elems(notified[session[t].conn])
    BY <1>13, <1>16 DEF Told
  <2> QED BY <1>5, <1>16, <2>1 DEF Told
<1>32. Requests' BY <1>5, FrameRequests
<1> QED BY <1>19, <1>20, <1>21, <1>22, <1>23, <1>24, <1>25, <1>26, <1>27, <1>29, <1>30, <1>31, <1>32

\* The CLOSE of a session is the last operation for it, and closes its own socket.
LEMMA CloseStep ==
  ASSUME Benign, Inv, NEW w \in Worker, Close(w)
  PROVE  Inv'
<1> USE DEF Inv
<1>1. PICK s : s = op[w].slot OBVIOUS
<1>2. PICK c : c = op[w].conn OBVIOUS
<1>3. PICK k : k = session[s].m_ID OBVIOUS
<1>4. PICK f : f = session[s].m_Sock OBVIOUS
<1>5. /\ pc \in [Worker -> Label] /\ session \in [Slot -> SessionSet]
      /\ active \in [Slot -> BOOLEAN] /\ file \in [FD -> Conn \cup {None}]
      /\ registered \in [Conn -> Slot \cup {None}] /\ edge \in [Conn -> BOOLEAN]
      /\ msgs \in Seq(MsgSet) /\ notified \in [Conn -> Seq(Note)]
  BY DEF Types, ThreadTypes, PoolTypes, KernelTypes, MainTypes, GhostTypes
<1>6. pc[w] = "CLOSE"
  <2>1. pc[w] \in {"CLOSE", "ERROR"} /\ pc[w] \in Label BY <1>5 DEF Close
  <2> QED BY <2>1 DEF Label
<1>7. op[w] \in SessionOp /\ op[w].type = "CLOSE" /\ InHand(w) BY <1>6 DEF InHands, InHand
<1>8. /\ s \in Slot /\ c \in Conn /\ s \in Live /\ session[s].conn = c
      /\ registered[c] = s /\ peer[c] = "finished"
  <2>1. s \in Slot /\ c \in Conn BY <1>1, <1>2, <1>7 DEF SessionOp
  <2>2. pc[w] \notin {"idle", "UNLOCK"} /\ op[w].slot # ACCEPT BY <1>1, <1>6, <2>1, Constants
  <2> QED BY <1>1, <1>2, <1>7, <2>1, <2>2 DEF Operations, Due
<1>9. \A v \in Worker : v = w BY OnlyOne
<1>10. \A t : ~Closing(t) /\ ~Notifying(t) BY <1>6, <1>9 DEF Closing, Notifying
<1>11. k \in Slot /\ f \in FD /\ file[f] = c /\ Peer(s) = c /\ c # None
  <2>1. session[s] \in SessionSet BY <1>5, <1>8
  <2>2. Peer(s) = c BY <1>8, <1>10, OwnPeer
  <2> QED BY <1>3, <1>4, <1>8, <2>1, <2>2, Constants DEF SessionSet, Peer
<1>12. /\ active' = [active EXCEPT ![k] = FALSE] /\ file' = [file EXCEPT ![f] = None]
       /\ registered' = [registered EXCEPT ![c] = None] /\ edge' = [edge EXCEPT ![c] = FALSE]
       /\ msgs' = Append(msgs, Reference(None, "CLOSE", c))
       /\ notified' = [notified EXCEPT ![c] = Append(@, "CLOSE")]
       /\ pc' = [pc EXCEPT ![w] = "DESTROY"]
  BY <1>1, <1>3, <1>4, <1>8, <1>11 DEF Close, SocketClosed, Notify, Goto
<1>13. /\ UNCHANGED <<polite, peer, sent, answered, unread, backlog, listener, listenEdge>>
       /\ UNCHANGED <<events, queue, session, m_FreeList, freeIDs>>
       /\ UNCHANGED <<op, mainPc, msg, id, fault, failures, stranded>>
  BY DEF Close, net, main, failed
<1>14. pc'[w] = "DESTROY" BY <1>5, <1>12
<1>15. /\ \A t : (Closing(t)' <=> t = s) /\ ~(Notifying(t)')
       /\ \A v \in Worker : ~(InHand(v)')
       /\ Live' = Live /\ Live \subseteq Slot
  BY <1>1, <1>9, <1>13, <1>14 DEF Closing, Notifying, InHand, Live
<1>16. /\ registered'[c] = None /\ ~edge'[c] /\ file'[f] = None
       /\ \A d \in Conn \ {c} : registered'[d] = registered[d] /\ edge'[d] = edge[d]
       /\ \A g \in FD \ {f} : file'[g] = file[g]
  BY <1>5, <1>8, <1>11, <1>12
<1>17. /\ NoneAfter(c, 0) /\ \A r \in events \cup Elems(queue) : r.conn # c
  <2>1. NoneAfter(c, 0) BY <1>2, <1>7 DEF Last
  <2>2. \A j \in 1 .. Len(queue) : j > 0 OBVIOUS
  <2> QED BY <2>1, <2>2 DEF NoneAfter, NoEvent, Elems
<1>18. \A t \in Live : session[t].conn \in Conn /\ (session[t].conn = c <=> t = s)
  <2>1. \A t \in Live : session[t] \in SessionSet BY <1>5, <1>15
  <2> QED BY <1>8, <2>1 DEF Pool, SessionSet
<1> DEFINE m == Reference(None, "CLOSE", c)
           n == Len(msgs)
<1>19. m \in MsgSet /\ m.type = "CLOSE" BY <1>8 DEF Reference, MsgSet
<1>20. /\ msgs' \in Seq(MsgSet) /\ n \in Nat /\ Len(msgs') = n + 1 /\ msgs'[n + 1] = m
       /\ \A i \in 1 .. n : msgs'[i] = msgs[i]
  BY <1>5, <1>12, <1>19, AppendProperties
<1>21. \A i \in 1 .. n + 1 : msgs'[i].type # "CLOSE" =>
         i \in 1 .. n /\ msgs'[i] = msgs[i] /\ \A j \in 1 .. i : j \in 1 .. n /\ msgs'[j] = msgs[j]
  BY <1>19, <1>20
<1> HIDE DEF m, n
<1> DEFINE q == notified[c]
<1>22. /\ q \in Seq(Note) /\ Len(q) \in Nat \ {0} /\ "CLOSE" \notin Elems(q)
  <2>1. q # << >> /\ "CLOSE" \notin Elems(q) BY <1>8, <1>10 DEF Told
  <2> QED BY <1>5, <1>8, <2>1, EmptySeq
<1>23. /\ notified'[c] = Append(q, "CLOSE") /\ Append(q, "CLOSE") \in Seq(Note)
       /\ notified' \in [Conn -> Seq(Note)]
       /\ \A d \in Conn \ {c} : notified'[d] = notified[d]
  <2>1. Append(q, "CLOSE") \in Seq(Note) BY <1>22, AppendElems DEF Note
  <2> QED BY <1>5, <1>8, <1>12, <2>1
<1>24. Types'
  <2>1. KernelTypes' BY <1>5, <1>11, <1>12, <1>13 DEF Types, KernelTypes
  <2>2. PoolTypes' BY <1>5, <1>12, <1>13 DEF Types, PoolTypes
  <2>3. ThreadTypes' BY <1>5, <1>12, <1>13 DEF Types, ThreadTypes, Label
  <2>4. MainTypes' BY <1>13, <1>20 DEF Types, MainTypes
  <2>5. GhostTypes' BY <1>13, <1>23 DEF Types, GhostTypes
  <2>6. NetTypes' BY <1>13 DEF Types, NetTypes
  <2> QED BY <2>1, <2>2, <2>3, <2>4, <2>5, <2>6 DEF Types
<1>25. InHands' BY <1>7, <1>9, <1>13, <1>14 DEF InHands
<1>26. Pool' BY <1>13, FramePool
<1>27. Sockets'
  <2>1. \A t \in Live : t # s => file'[session[t].m_Sock] = session[t].conn
    <3> SUFFICES ASSUME NEW t \in Live, t # s PROVE file'[session[t].m_Sock] = session[t].conn
      OBVIOUS
    <3>1. file[session[t].m_Sock] = session[t].conn /\ session[t].conn # c
      BY <1>10, <1>18 DEF Sockets
    <3>2. session[t].m_Sock \in FD BY <1>5, <1>15 DEF SessionSet
    <3>3. session[t].m_Sock # f BY <1>11, <3>1
    <3> QED BY <1>16, <3>1, <3>2, <3>3
  <2>2. \A g \in FD : file'[g] # None => \E t \in Live : t # s /\ session[t].m_Sock = g
    <3> SUFFICES ASSUME NEW g \in FD, file'[g] # None
                 PROVE  \E t \in Live : t # s /\ session[t].m_Sock = g
      OBVIOUS
    <3>1. g # f /\ file[g] # None BY <1>16
    <3> QED BY <1>4, <3>1 DEF Sockets
  <2> QED BY <1>13, <1>15, <2>1, <2>2 DEF Sockets
<1>28. Arriving'
  <2>1. ~Early(c) BY <1>8 DEF Arriving
  <2>2. \A d : Early(d)' <=> Early(d) BY <1>13 DEF Early
  <2> QED BY <1>13, <1>15, <1>16, <1>23, <2>1, <2>2 DEF Arriving
<1>29. Registrations'
  <2>1. \A d \in Conn : registered'[d] # None =>
          registered'[d] \in Live /\ session[registered'[d]].conn = d
    BY <1>16 DEF Registrations
  <2>2. \A t \in Live : registered'[session[t].conn] = None /\ t # s => answered[session[t].conn] = 0
    BY <1>10, <1>16, <1>18 DEF Registrations
  <2>3. \A d \in Conn : edge'[d] =>
          registered'[d] # None /\ (unread[d] = 1 \/ peer[d] = "finished" \/ answered[d] = 0)
    BY <1>16 DEF Registrations
  <2>4. \A v \in Worker : pc'[v] \notin {"NOTIFY", "REGISTER"} BY <1>9, <1>14
  <2> QED BY <1>13, <1>15, <2>1, <2>2, <2>3, <2>4 DEF Registrations
<1>30. Operations'
  <2>1. \A r : Due(r)' <=> Due(r) BY <1>13 DEF Due
  <2>2. \A r \in events \cup Elems(queue) : r \in SessionOp => Due(r) /\ registered'[r.conn] = r.slot
    <3>1. \A r \in SessionOp : r.conn \in Conn BY DEF SessionOp
    <3> QED BY <1>16, <1>17, <3>1 DEF Operations
  <2>3. \A v \in Worker : /\ Due(op[v]) /\ registered'[op[v].conn] = None
                          /\ op[v].slot \in Live /\ session[op[v].slot].conn = op[v].conn
    BY <1>1, <1>2, <1>7, <1>8, <1>9, <1>16 DEF Operations
  <2> QED BY <1>13, <1>15, <2>1, <2>2, <2>3 DEF Operations
<1>31. \A d \in Conn : \A i \in Nat : NoneAfter(d, i) => NoneAfter(d, i)'
  BY <1>13, <1>16 DEF NoneAfter, NoEvent
<1>32. Last'
  <2>1. \A v \in Worker : NoneAfter(op[v].conn, 0)'
    <3>1. NoneAfter(c, 0)' BY <1>8, <1>17, <1>31
    <3>2. \A v \in Worker : op'[v].conn = c BY <1>2, <1>9, <1>13
    <3> QED BY <3>1, <3>2
  <2>2. ASSUME NEW i \in 1 .. Len(queue), queue[i] \in SessionOp, queue[i].type # "SEND"
        PROVE  NoneAfter(queue[i].conn, i)'
    <3>1. PICK d : d = queue[i].conn OBVIOUS
    <3>2. d \in Conn /\ i \in Nat BY <2>2, <3>1 DEF SessionOp
    <3>3. NoneAfter(d, i) BY <2>2, <3>1 DEF Last
    <3>4. NoneAfter(d, i)' BY <1>31, <3>2, <3>3
    <3>5. queue'[i].conn = d BY <1>13, <3>1
    <3> QED BY <3>4, <3>5
  <2>3. \A r \in events : r \in SessionOp =>
          /\ r.type # "CLOSE" /\ (\A p \in events : p.conn = r.conn => p = r)
          /\ r.type # "SEND" => ~edge'[r.conn]
    <3>1. \A r \in SessionOp : r.conn \in Conn BY DEF SessionOp
    <3> QED BY <1>16, <1>17, <3>1 DEF Last
  <2> QED BY <1>13, <2>1, <2>2, <2>3 DEF Last
<1>33. \A d : Waiting(d)' <=> Waiting(d)
  <2>1. \A d : Waiting(d)' => Waiting(d) BY <1>20, <1>21 DEF Waiting, n
  <2>2. \A i \in 1 .. n : i \in 1 .. n + 1 BY <1>20
  <2>3. \A d : Waiting(d) => Waiting(d)' BY <1>20, <2>2 DEF Waiting, n
  <2> QED BY <2>1, <2>3
<1>34. \A d : Serving(d)' <=> Serving(d) BY <1>13 DEF Serving
<1>35. Served'
  <2>1. ~Taken(c) BY <1>2, <1>7, <1>8 DEF Served
  <2>2. \A d : Taken(d)' <=> Taken(d) BY <1>33, <1>34 DEF Taken
  <2>3. \A d \in Conn : Taken(d)' =>
          /\ unread'[d] = 0 /\ sent'[d] = answered'[d] + 1 /\ registered'[d] # None
          /\ NoneAfter(d, 0)'
          /\ \A v \in Worker : InHand(v)' => op'[v].conn # d
    BY <1>13, <1>15, <1>16, <1>31, <2>1, <2>2 DEF Served
  <2>4. \A i, j \in 1 .. n + 1 :
          msgs'[i].type = "RECV" /\ msgs'[j].type = "RECV" /\ msgs'[i].conn = msgs'[j].conn => i = j
    BY <1>21 DEF Served, n
  <2> QED BY <1>13, <1>15, <1>20, <1>33, <1>34, <2>3, <2>4 DEF Served
<1>36. Messages'
  <2>1. ASSUME NEW i \in 1 .. n + 1
        PROVE  /\ msgs'[i].type # "CLOSE" =>
                    msgs'[i].slot \in Live /\ session[msgs'[i].slot].conn = msgs'[i].conn
               /\ msgs'[i].type = "ACCEPT" =>
                    /\ answered[msgs'[i].conn] = 0 /\ ~Serving(msgs'[i].conn)
                    /\ \A j \in 1 .. i : msgs'[j].type = "RECV" => msgs'[j].conn # msgs'[i].conn
    BY <1>21 DEF Messages, n
  <2> QED BY <1>13, <1>15, <1>20, <1>34, <2>1 DEF Messages
<1>37. Activity'
  <2>1. \A t \in Live \ {s} : session[t].m_ID \in Slot /\ session[t].m_ID # k
    BY <1>3, <1>5, <1>8, <1>15 DEF Pool, SessionSet
  <2> QED BY <1>5, <1>8, <1>12, <1>13, <1>15, <2>1 DEF Activity
<1>38. Told'
  <2>1. \A d \in Conn : \A i \in 1 .. Len(notified'[d]) :
          /\ notified'[d][i] = "ACCEPT" <=> i = 1
          /\ notified'[d][i] = "CLOSE" => i = Len(notified'[d])
    <3>1. ASSUME NEW i \in 1 .. Len(notified'[c])
          PROVE  /\ notified'[c][i] = "ACCEPT" <=> i = 1
                 /\ notified'[c][i] = "CLOSE" => i = Len(notified'[c])
      <4>1. /\ Len(notified'[c]) = Len(q) + 1 /\ notified'[c][Len(q) + 1] = "CLOSE"
            /\ \A j \in 1 .. Len(q) : notified'[c][j] = q[j]
        BY <1>22, <1>23, AppendProperties DEF Note
      <4>2. CASE i = Len(q) + 1 BY <1>22, <4>1, <4>2
      <4>3. CASE i \in 1 .. Len(q)
        <5>1. notified'[c][i] = q[i] /\ q[i] # "CLOSE" BY <1>22, <4>1, <4>3 DEF Elems
        <5>2. q[i] = "ACCEPT" <=> i = 1 BY <1>8, <4>3 DEF Told
        <5> QED BY <5>1, <5>2
      <4> QED BY <1>22, <4>1, <4>2, <4>3
    <3>2. ASSUME NEW d \in Conn, NEW i \in 1 .. Len(notified'[d])
          PROVE  /\ notified'[d][i] = "ACCEPT" <=> i = 1
                 /\ notified'[d][i] = "CLOSE" => i = Len(notified'[d])
      <4>1. CASE d = c BY <3>1, <4>1
      <4>2. CASE d # c
        <5>1. notified'[d] = notified[d] BY <1>23, <4>2
        <5> QED BY <5>1 DEF Told
      <4> QED BY <4>1, <4>2
    <3> QED BY <3>2
  <2>2. \A t \in Live : t # s =>
          /\ notified'[session[t].conn] # << >>
          /\ "CLOSE" \notin Elems(notified'[session[t].conn])
    BY <1>10, <1>18, <1>23 DEF Told
  <2> QED BY <1>13, <1>15, <2>1, <2>2 DEF Told
<1>39. Requests' BY <1>13, FrameRequests
<1> QED BY <1>24, <1>25, <1>26, <1>27, <1>28, <1>29, <1>30, <1>32, <1>35, <1>36, <1>37, <1>38, <1>39

\* What is known of the session whose RECV the worker has: it is the only operation for it.
LEMMA RecvHand ==
  ASSUME Benign, Inv, NEW w \in Worker, pc[w] = "RECV",
         NEW s, s = op[w].slot, NEW c, c = op[w].conn
  PROVE  /\ s \in Live /\ s \in Slot /\ c \in Conn /\ c # None /\ session[s].conn = c
         /\ registered[c] = s /\ registered[c] # None /\ Peer(s) = c
         /\ NoneAfter(c, 0) /\ ~Taken(c) /\ notified[c] # << >> /\ "CLOSE" \notin Elems(notified[c])
         /\ unread[c] = 1 \/ peer[c] = "finished"
         /\ \A t : ~Closing(t) /\ ~Notifying(t)
         /\ session[s].m_ID \in Slot
         /\ \A t \in Live : session[t].m_ID = session[s].m_ID => t = s
<1> USE DEF Inv
<1>1. op[w] \in SessionOp /\ op[w].type = "RECV" /\ InHand(w) BY DEF InHands, InHand
<1>2. s \in Slot /\ c \in Conn BY <1>1 DEF SessionOp
<1>3. pc[w] \notin {"idle", "UNLOCK"} /\ op[w].slot # ACCEPT BY <1>2, Constants
<1>4. /\ s \in Live /\ session[s].conn = c /\ registered[c] = s
      /\ unread[c] = 1 \/ peer[c] = "finished"
  BY <1>1, <1>2, <1>3 DEF Operations, Due
<1>5. c # None /\ registered[c] # None BY <1>2, <1>4, Constants
<1>6. \A v \in Worker : v = w BY OnlyOne
<1>7. \A t : ~Closing(t) /\ ~Notifying(t) BY <1>6 DEF Closing, Notifying
<1>8. Peer(s) = c BY <1>4, <1>7, OwnPeer
<1>9. NoneAfter(c, 0) BY <1>1 DEF Last
<1>10. ~Taken(c) BY <1>1, <1>2 DEF Served
<1>11. notified[c] # << >> /\ "CLOSE" \notin Elems(notified[c]) BY <1>4, <1>7 DEF Told
<1>12. session[s].m_ID \in Slot BY <1>2 DEF Types, PoolTypes, SessionSet
<1>13. \A t \in Live : session[t].m_ID = session[s].m_ID => t = s BY <1>4 DEF Pool
<1> QED BY <1>2, <1>4, <1>5, <1>7, <1>8, <1>9, <1>10, <1>11, <1>12, <1>13

\* The end of the stream: the CLOSE takes the place of the RECV.
LEMMA RecvEndStep ==
  ASSUME Benign, Inv, NEW w \in Worker, pc[w] = "RECV",
         NEW s, s = op[w].slot, NEW c, c = op[w].conn, peer[c] = "finished",
         pc' = [pc EXCEPT ![w] = "idle"],
         unread' = [unread EXCEPT ![c] = 0],
         active' = [active EXCEPT ![session[s].m_ID] = FALSE],
         queue' = Append(queue, Reference(s, "CLOSE", c)),
         UNCHANGED <<polite, peer, sent, answered, file, backlog, listener, listenEdge>>,
         UNCHANGED <<registered, edge, events, session, m_FreeList, freeIDs>>,
         UNCHANGED <<msgs, op, mainPc, msg, id, fault, notified, failures, stranded>>
  PROVE  Inv'
<1> USE DEF Inv
<1>0. PICK n : n = Len(queue) OBVIOUS
<1> DEFINE r0 == Reference(s, "CLOSE", c)
<1>1. /\ s \in Live /\ s \in Slot /\ c \in Conn /\ c # None /\ session[s].conn = c
      /\ registered[c] = s /\ NoneAfter(c, 0) /\ ~Taken(c)
      /\ \A t : ~Closing(t) /\ ~Notifying(t)
      /\ session[s].m_ID \in Slot
      /\ \A t \in Live : session[t].m_ID = session[s].m_ID => t = s
  BY RecvHand
<1>2. /\ pc \in [Worker -> Label] /\ unread \in [Conn -> Nat] /\ active \in [Slot -> BOOLEAN]
      /\ queue \in Seq(OpSet) /\ session \in [Slot -> SessionSet]
  BY DEF Types, ThreadTypes, NetTypes, PoolTypes
<1>3. pc'[w] = "idle" /\ unread'[c] = 0 /\ \A d \in Conn \ {c} : unread'[d] = unread[d]
  BY <1>1, <1>2
<1>4. r0 \in SessionOp /\ r0 \in OpSet /\ r0.type = "CLOSE" /\ r0.conn = c /\ r0.slot = s
  BY <1>1 DEF Reference, SessionOp, OpSet
<1>5. /\ queue' \in Seq(OpSet) /\ n \in Nat /\ Len(queue') = n + 1 /\ queue'[n + 1] = r0
      /\ \A i \in 1 .. n : queue'[i] = queue[i]
      /\ Elems(queue') = Elems(queue) \cup {r0}
  BY <1>0, <1>2, <1>4, AppendProperties, AppendElems
<1>6. \A v \in Worker : v = w BY OnlyOne
<1>7. /\ \A t : ~(Closing(t)') /\ ~(Notifying(t)')
      /\ \A v \in Worker : ~(InHand(v)') /\ pc'[v] = "idle"
      /\ Live' = Live
  BY <1>3, <1>6 DEF Closing, Notifying, InHand, Live
<1>8. NoEvent(c) /\ \A j \in 1 .. n : queue[j].conn # c
  BY <1>0, <1>1, <1>5 DEF NoneAfter
<1> HIDE DEF r0
<1>9. \A d \in Conn \ {c}, i \in Nat : NoneAfter(d, i) => NoneAfter(d, i)'
  BY <1>0, <1>4, <1>5 DEF NoneAfter, NoEvent
<1>10. NoneAfter(c, n + 1)' BY <1>5, <1>8 DEF NoneAfter, NoEvent
<1>11. Types'
  <2>1. ThreadTypes' BY <1>2, <1>5 DEF Types, ThreadTypes, Label
  <2>2. NetTypes' BY <1>2 DEF Types, NetTypes
  <2>3. PoolTypes' BY <1>2 DEF Types, PoolTypes
  <2>4. KernelTypes' /\ MainTypes' /\ GhostTypes' BY DEF Types, KernelTypes, MainTypes, GhostTypes
  <2> QED BY <2>1, <2>2, <2>3, <2>4 DEF Types
<1>12. InHands' BY <1>7 DEF InHands
<1>13. Sockets' BY <1>1, <1>7 DEF Sockets
<1>14. Requests'
  <2>1. \A d \in Conn : sent[d] \in Nat /\ answered[d] \in Nat BY DEF Types, NetTypes
  <2> QED BY <1>1, <1>3, <2>1 DEF Requests
<1>15. Registrations'
  <2>1. \A d \in Conn : edge[d] =>
          registered[d] # None /\ (unread'[d] = 1 \/ peer[d] = "finished" \/ answered[d] = 0)
    BY <1>1, <1>3 DEF Registrations
  <2>2. \A v \in Worker : pc'[v] \notin {"NOTIFY", "REGISTER"} BY <1>7
  <2> QED BY <1>1, <1>7, <2>1, <2>2 DEF Registrations
<1>16. Operations'
  <2>1. ASSUME NEW r \in events \cup Elems(queue'), r \in SessionOp
        PROVE  Due(r)' /\ registered[r.conn] = r.slot
    <3>1. CASE r = r0 BY <1>1, <1>4, <3>1 DEF Due
    <3>2. CASE r # r0
      <4>1. r \in events \cup Elems(queue) BY <1>5, <3>2
      <4>2. r.conn # c BY <1>0, <1>8, <4>1 DEF NoEvent, Elems
      <4>3. r.conn \in Conn BY <2>1 DEF SessionOp
      <4>4. Due(r) /\ registered[r.conn] = r.slot BY <2>1, <4>1 DEF Operations
      <4> QED BY <1>3, <4>2, <4>3, <4>4 DEF Due
    <3> QED BY <3>1, <3>2
  <2> QED BY <1>7, <2>1 DEF Operations
<1>17. Last'
  <2>1. ASSUME NEW i \in 1 .. n + 1, queue'[i] \in SessionOp, queue'[i].type # "SEND"
        PROVE  NoneAfter(queue[i].conn, i)'
    <3>1. PICK d : d = queue'[i].conn OBVIOUS
    <3>2. d \in Conn BY <2>1, <3>1 DEF SessionOp
    <3>3. CASE i = n + 1 BY <1>4, <1>5, <1>10, <3>1, <3>3
    <3>4. CASE i \in 1 .. n
      <4>1. queue'[i] = queue[i] /\ i \in Nat BY <1>5, <3>4
      <4>2. NoneAfter(d, i) /\ d # c BY <1>0, <1>8, <2>1, <3>1, <3>4, <4>1 DEF Last
      <4>3. NoneAfter(d, i)' BY <1>9, <3>2, <4>1, <4>2
      <4> QED BY <3>1, <4>3
    <3> QED BY <1>5, <3>3, <3>4
  <2> QED BY <1>5, <1>7, <2>1 DEF Last
<1>18. Served'
  <2>1. \A d : Taken(d)' = Taken(d) BY DEF Taken, Serving, Waiting
  <2>2. \A d \in Conn : Taken(d)' =>
          /\ unread'[d] = 0 /\ sent'[d] = answered'[d] + 1 /\ registered'[d] # None
          /\ NoneAfter(d, 0)'
          /\ \A v \in Worker : InHand(v)' => op'[v].conn # d
    BY <1>1, <1>3, <1>7, <1>9, <2>1 DEF Served
  <2> QED BY <1>7, <2>2 DEF Served, Serving, Waiting
<1>19. Activity'
  <2>1. \A t \in Live : t # s => active'[session[t].m_ID] = active[session[t].m_ID]
    <3>1. \A t \in Live : session[t].m_ID \in Slot BY <1>2 DEF Live, SessionSet
    <3> QED BY <1>1, <1>2, <3>1
  <2> QED BY <1>1, <1>7, <2>1 DEF Activity
<1>20. Told' BY <1>1, <1>7 DEF Told
<1>21. Pool' /\ Messages' /\ Arriving' BY FramePool, FrameMessages, FrameArriving
<1> QED BY <1>11, <1>12, <1>13, <1>14, <1>15, <1>16, <1>17, <1>18, <1>19, <1>20, <1>21

\* A request goes to the main thread; from now on nothing else is on its way for the
\* connection, until it is answered.
LEMMA RecvMsgStep ==
  ASSUME Benign, Inv, NEW w \in Worker, pc[w] = "RECV",
         NEW s, s = op[w].slot, NEW c, c = op[w].conn, unread[c] = 1,
         pc' = [pc EXCEPT ![w] = "idle"],
         unread' = [unread EXCEPT ![c] = 0],
         msgs' = Append(msgs, Reference(s, "RECV", c)),
         notified' = [notified EXCEPT ![c] = Append(@, "RECV")],
         UNCHANGED <<polite, peer, sent, answered, file, backlog, listener, listenEdge>>,
         UNCHANGED <<registered, edge, events, session, m_FreeList, freeIDs, queue, active>>,
         UNCHANGED <<op, mainPc, msg, id, fault, failures, stranded>>
  PROVE  Inv'
<1> USE DEF Inv
<1>0. PICK n : n = Len(msgs) OBVIOUS
<1> DEFINE r == Reference(s, "RECV", c)
<1>1. /\ s \in Live /\ s \in Slot /\ c \in Conn /\ c # None /\ session[s].conn = c
      /\ registered[c] = s /\ registered[c] # None
      /\ NoneAfter(c, 0) /\ ~Taken(c) /\ notified[c] # << >> /\ "CLOSE" \notin Elems(notified[c])
      /\ \A t : ~Closing(t) /\ ~Notifying(t)
  BY RecvHand
<1>2. /\ pc \in [Worker -> Label] /\ unread \in [Conn -> Nat] /\ msgs \in Seq(MsgSet)
      /\ notified \in [Conn -> Seq(Note)] /\ session \in [Slot -> SessionSet]
      /\ sent \in [Conn -> Nat] /\ answered \in [Conn -> Nat]
  BY DEF Types, ThreadTypes, NetTypes, PoolTypes, MainTypes, GhostTypes
<1>3. pc'[w] = "idle" /\ unread'[c] = 0 /\ \A d \in Conn \ {c} : unread'[d] = unread[d]
  BY <1>1, <1>2
<1>4. r \in LiveMsg /\ r \in MsgSet /\ r.type = "RECV" /\ r.conn = c /\ r.slot = s
  BY <1>1 DEF Reference, LiveMsg, MsgSet
<1>5. /\ msgs' \in Seq(MsgSet) /\ n \in Nat /\ Len(msgs') = n + 1 /\ msgs'[n + 1] = r
      /\ \A i \in 1 .. n : msgs'[i] = msgs[i]
  BY <1>0, <1>2, <1>4, AppendProperties
<1>6. \A v \in Worker : v = w BY OnlyOne
<1>7. /\ \A t : ~(Closing(t)') /\ ~(Notifying(t)')
      /\ \A v \in Worker : ~(InHand(v)') /\ pc'[v] = "idle"
      /\ Live' = Live
  BY <1>3, <1>6 DEF Closing, Notifying, InHand, Live
<1>8. sent[c] = answered[c] + 1
  <2>1. sent[c] \in Nat /\ answered[c] \in Nat BY <1>1, <1>2
  <2>2. unread[c] <= sent[c] - answered[c] /\ sent[c] <= answered[c] + 1 BY <1>1 DEF Requests
  <2> QED BY <2>1, <2>2
<1> HIDE DEF r
<1>9. /\ \A d : Serving(d)' <=> Serving(d)
      /\ \A d : Waiting(d)' => Waiting(d) \/ d = c
  <2>1. \A d : Serving(d)' <=> Serving(d) BY DEF Serving
  <2>2. ASSUME NEW d, NEW i \in 1 .. n + 1, msgs'[i].type = "RECV", msgs'[i].conn = d, d # c
        PROVE  Waiting(d)
    <3>1. i # n + 1 BY <1>4, <1>5, <2>2
    <3>2. i \in 1 .. n BY <1>5, <3>1
    <3> QED BY <1>0, <1>5, <2>2, <3>2 DEF Waiting
  <2>3. \A d : Waiting(d)' => \E i \in 1 .. n + 1 : msgs'[i].type = "RECV" /\ msgs'[i].conn = d
    BY <1>5 DEF Waiting
  <2> QED BY <2>1, <2>2, <2>3
<1>10. ~Serving(c) /\ \A i \in 1 .. n : msgs[i].type = "RECV" => msgs[i].conn # c
  BY <1>0, <1>1 DEF Taken, Waiting
<1>11. \A d, i : NoneAfter(d, i)' <=> NoneAfter(d, i) BY DEF NoneAfter, NoEvent
<1>12. Types'
  <2>1. ThreadTypes' BY <1>2 DEF Types, ThreadTypes, Label
  <2>2. NetTypes' BY <1>2 DEF Types, NetTypes
  <2>3. MainTypes' BY <1>5 DEF Types, MainTypes
  <2>4. GhostTypes'
    <3>1. notified[c] \in Seq(Note) /\ "RECV" \in Note BY <1>1, <1>2 DEF Note
    <3>2. Append(notified[c], "RECV") \in Seq(Note) BY <3>1, AppendElems
    <3> QED BY <1>2, <3>2 DEF Types, GhostTypes
  <2>5. KernelTypes' /\ PoolTypes' BY DEF Types, KernelTypes, PoolTypes
  <2> QED BY <2>1, <2>2, <2>3, <2>4, <2>5 DEF Types
<1>13. InHands' BY <1>7 DEF InHands
<1>14. Sockets' BY <1>1, <1>7 DEF Sockets
<1>15. Requests' BY <1>1, <1>2, <1>3 DEF Requests
<1>16. Registrations'
  <2>1. \A d \in Conn : edge[d] =>
          registered[d] # None /\ (unread'[d] = 1 \/ peer[d] = "finished" \/ answered[d] = 0)
    <3>1. ~edge[c] BY <1>1 DEF NoneAfter, NoEvent
    <3> QED BY <1>3, <3>1 DEF Registrations
  <2>2. \A v \in Worker : pc'[v] \notin {"NOTIFY", "REGISTER"} BY <1>7
  <2> QED BY <1>1, <1>7, <2>1, <2>2 DEF Registrations
<1>17. Operations'
  <2>1. ASSUME NEW q \in events \cup Elems(queue), q \in SessionOp
        PROVE  Due(q)' /\ registered[q.conn] = q.slot
    <3>1. \A j \in 1 .. Len(queue) : j > 0 OBVIOUS
    <3>2. q.conn # c BY <1>1, <3>1 DEF NoneAfter, NoEvent, Elems
    <3>3. q.conn \in Conn BY <2>1 DEF SessionOp
    <3>4. Due(q) /\ registered[q.conn] = q.slot BY <2>1 DEF Operations
    <3> QED BY <1>3, <3>2, <3>3, <3>4 DEF Due
  <2> QED BY <1>7, <2>1 DEF Operations
<1>18. Last' BY <1>7, <1>11 DEF Last
<1>19. Served'
  <2>1. ASSUME NEW d \in Conn, Taken(d)'
        PROVE  /\ unread'[d] = 0 /\ sent'[d] = answered'[d] + 1 /\ registered'[d] # None
               /\ NoneAfter(d, 0)'
    <3>1. CASE d = c BY <1>1, <1>3, <1>8, <1>11, <3>1
    <3>2. CASE d # c
      <4>1. Taken(d) BY <1>9, <2>1, <3>2 DEF Taken
      <4> QED BY <1>3, <1>11, <3>2, <4>1 DEF Served
    <3> QED BY <3>1, <3>2
  <2>2. \A d \in Conn : ~(Serving(d)' /\ Waiting(d)') BY <1>9, <1>10 DEF Served
  <2>3. ASSUME NEW i \in 1 .. n + 1, NEW j \in 1 .. n + 1, msgs'[i].type = "RECV",
               msgs'[j].type = "RECV", msgs'[i].conn = msgs'[j].conn
        PROVE  i = j
    <3>1. CASE i \in 1 .. n /\ j \in 1 .. n
      <4>1. msgs'[i] = msgs[i] /\ msgs'[j] = msgs[j] BY <1>5, <3>1
      <4> QED BY <1>0, <2>3, <3>1, <4>1 DEF Served
    <3>2. CASE i = n + 1 /\ j \in 1 .. n BY <1>4, <1>5, <1>10, <2>3, <3>2
    <3>3. CASE j = n + 1 /\ i \in 1 .. n BY <1>4, <1>5, <1>10, <2>3, <3>3
    <3> QED BY <1>5, <3>1, <3>2, <3>3
  <2>4. \A t \in Live' : session'[t].answers = IF mainPc' = "Complete" /\ msg'.slot = t THEN 1 ELSE 0
    BY <1>7 DEF Served
  <2> QED BY <1>5, <1>7, <2>1, <2>2, <2>3, <2>4 DEF Served
<1>20. Messages'
  <2>1. ASSUME NEW i \in 1 .. n + 1
        PROVE  /\ msgs'[i].type # "CLOSE" =>
                    msgs'[i].slot \in Live /\ session[msgs'[i].slot].conn = msgs'[i].conn
               /\ msgs'[i].type = "ACCEPT" =>
                    /\ answered[msgs'[i].conn] = 0 /\ ~Serving(msgs'[i].conn)
                    /\ \A j \in 1 .. i : msgs'[j].type = "RECV" => msgs'[j].conn # msgs'[i].conn
    <3>1. CASE i \in 1 .. n
      <4>1. msgs'[i] = msgs[i] /\ \A j \in 1 .. i : msgs'[j] = msgs[j] BY <1>5, <3>1
      <4>2. i \in 1 .. Len(msgs) BY <1>0, <3>1
      <4>3. /\ msgs[i].type # "CLOSE" =>
                 msgs[i].slot \in Live /\ session[msgs[i].slot].conn = msgs[i].conn
            /\ msgs[i].type = "ACCEPT" =>
                 /\ answered[msgs[i].conn] = 0 /\ ~Serving(msgs[i].conn)
                 /\ \A j \in 1 .. i : msgs[j].type = "RECV" => msgs[j].conn # msgs[i].conn
        BY <4>2 DEF Messages
      <4> QED BY <4>1, <4>3
    <3>2. CASE i = n + 1 BY <1>1, <1>4, <1>5, <3>2
    <3> QED BY <1>5, <3>1, <3>2
  <2> QED BY <1>5, <1>7, <1>9, <2>1 DEF Messages
<1>21. Told'
  <2>1. PICK q : q = notified[c] OBVIOUS
  <2>2. q \in Seq(Note) /\ Len(q) \in Nat \ {0} BY <1>1, <1>2, <2>1, EmptySeq
  <2>3. /\ notified'[c] = Append(q, "RECV")
        /\ \A d \in Conn \ {c} : notified'[d] = notified[d]
    BY <1>1, <1>2, <2>1
  <2>4. /\ Len(notified'[c]) = Len(q) + 1 /\ notified'[c][Len(q) + 1] = "RECV"
        /\ \A j \in 1 .. Len(q) : notified'[c][j] = q[j]
        /\ Elems(notified'[c]) = Elems(q) \cup {"RECV"}
    <3>1. "RECV" \in Note BY DEF Note
    <3>2. Elems(Append(q, "RECV")) = Elems(q) \cup {"RECV"} BY <2>2, <3>1, AppendElems
    <3>3. /\ Len(Append(q, "RECV")) = Len(q) + 1 /\ Append(q, "RECV")[Len(q) + 1] = "RECV"
          /\ \A j \in 1 .. Len(q) : Append(q, "RECV")[j] = q[j]
      BY <2>2, <3>1, AppendProperties
    <3> QED BY <2>3, <3>2, <3>3
  <2>5. ASSUME NEW d \in Conn, NEW i \in 1 .. Len(notified'[d])
        PROVE  /\ notified'[d][i] = "ACCEPT" <=> i = 1
               /\ notified'[d][i] = "CLOSE" => i = Len(notified'[d])
    <3>1. CASE d = c /\ i = Len(q) + 1 BY <2>2, <2>4, <3>1
    <3>2. CASE d = c /\ i \in 1 .. Len(q)
      <4>1. notified'[c][i] = q[i] /\ q[i] # "CLOSE" BY <1>1, <2>1, <2>4, <3>2 DEF Elems
      <4>2. q[i] = "ACCEPT" <=> i = 1 BY <1>1, <2>1, <3>2 DEF Told
      <4> QED BY <3>2, <4>1, <4>2
    <3>3. CASE d # c
      <4>1. notified'[d] = notified[d] BY <2>3, <3>3
      <4> QED BY <4>1 DEF Told
    <3>4. d = c => i = Len(q) + 1 \/ i \in 1 .. Len(q) BY <2>2, <2>4
    <3> QED BY <3>1, <3>2, <3>3, <3>4
  <2>6. ASSUME NEW t \in Live
        PROVE  /\ notified'[session[t].conn] # << >>
               /\ "CLOSE" \notin Elems(notified'[session[t].conn])
    <3>1. session[t].conn \in Conn BY DEF Pool, Live, Types, PoolTypes, SessionSet
    <3>2. CASE session[t].conn = c
      <4>1. notified'[c] # << >> BY <2>2, <2>4
      <4>2. "CLOSE" \notin Elems(q) BY <1>1, <2>1
      <4>3. "CLOSE" \notin Elems(notified'[c]) BY <2>4, <4>2
      <4> QED BY <3>2, <4>1, <4>3
    <3>3. CASE session[t].conn # c BY <1>1, <2>3, <3>1, <3>3 DEF Told
    <3> QED BY <3>2, <3>3
  <2> QED BY <1>7, <2>5, <2>6 DEF Told
<1>22. Arriving'
  <2>1. ~Early(c) BY <1>1 DEF Arriving
  <2>2. \A d : Early(d)' <=> Early(d) BY DEF Early
  <2>3. \A d \in Conn \ {c} : notified'[d] = notified[d] BY <1>2
  <2> QED BY <1>7, <2>1, <2>2, <2>3 DEF Arriving
<1>23. Pool' /\ Activity' BY FramePool, FrameActivity
<1> QED BY <1>12, <1>13, <1>14, <1>15, <1>16, <1>17, <1>18, <1>19, <1>20, <1>21, <1>22, <1>23

LEMMA RecvStep ==
  ASSUME Benign, Inv, NEW w \in Worker, Recv(w)
  PROVE  Inv'
<1>1. PICK s : s = op[w].slot OBVIOUS
<1>2. PICK c : c = op[w].conn OBVIOUS
<1>3. pc[w] = "RECV" /\ pc' = [pc EXCEPT ![w] = "idle"] BY DEF Recv, Goto
<1>4. /\ c \in Conn /\ Peer(s) = c /\ session[s].conn = c /\ s \in Slot
      /\ unread[c] = 1 \/ peer[c] = "finished"
  BY <1>1, <1>2, <1>3, RecvHand
<1>5. /\ UNCHANGED <<polite, peer, sent, answered, file, backlog, listener, listenEdge>>
      /\ UNCHANGED <<registered, edge, events, session, m_FreeList, freeIDs>>
      /\ UNCHANGED <<op, mainPc, msg, id, fault, failures, stranded>>
  BY DEF Recv, kernel, main, failed
<1>6. CASE UNCHANGED <<unread, queue, active, msgs, notified>>
  <2>1. failures' \in 0 .. FailMax /\ stranded' \subseteq Conn
    BY <1>5 DEF Inv, Types, GhostTypes
  <2>2. pc[w] \notin {"DESTROY", "NOTIFY"} BY <1>3
  <2>3. /\ UNCHANGED <<polite, peer, sent, answered, unread, file, backlog, listener, listenEdge>>
        /\ UNCHANGED <<registered, edge, events, queue, session, m_FreeList, freeIDs, active>>
        /\ UNCHANGED <<msgs, op, mainPc, msg, id, fault, notified>>
    BY <1>5, <1>6
  <2> QED BY <1>3, <2>1, <2>2, <2>3, IdleStep
<1>7. CASE /\ peer[c] = "finished" /\ unread' = [unread EXCEPT ![c] = 0]
           /\ active' = [active EXCEPT ![session[s].m_ID] = FALSE]
           /\ queue' = AfterEnd(s) /\ UNCHANGED <<msgs, notified>>
  <2>1. queue' = Append(queue, Reference(s, "CLOSE", c)) BY <1>4, <1>7 DEF AfterEnd
  <2> QED BY <1>1, <1>2, <1>3, <1>5, <1>7, <2>1, RecvEndStep
<1>8. CASE /\ peer[c] = "open" /\ unread' = [unread EXCEPT ![c] = 0]
           /\ msgs' = msgs \o Extracted(s, c)
           /\ notified' = [notified EXCEPT ![session[s].conn] =
                @ \o [i \in 1 .. Len(Extracted(s, c)) |-> "RECV"]]
           /\ UNCHANGED <<queue, active>>
  <2>1. unread[c] = 1 BY <1>4, <1>8
  <2>2. Reference(s, "RECV", c) \in MsgSet BY <1>4 DEF Reference, MsgSet, LiveMsg
  <2>3. Extracted(s, c) = [i \in 1 .. 1 |-> Reference(s, "RECV", c)] BY <2>1 DEF Extracted
  <2>4. msgs \in Seq(MsgSet) /\ notified[c] \in Seq(Note)
    BY <1>4 DEF Inv, Types, MainTypes, GhostTypes
  <2>5. msgs' = Append(msgs, Reference(s, "RECV", c)) BY <1>8, <2>2, <2>3, <2>4, ConcatOne
  <2>6. Len(Extracted(s, c)) = 1 BY <2>3
  <2>7. notified' = [notified EXCEPT ![c] = @ \o [i \in 1 .. 1 |-> "RECV"]] BY <1>4, <1>8, <2>6
  <2>8. notified[c] \o [i \in 1 .. 1 |-> "RECV"] = Append(notified[c], "RECV")
    BY <2>4, ConcatOne DEF Note
  <2>9. notified' = [notified EXCEPT ![c] = Append(@, "RECV")] BY <2>7, <2>8
  <2>10. UNCHANGED <<registered, edge, events, session, m_FreeList, freeIDs, queue, active>>
    BY <1>5, <1>8
  <2>11. unread' = [unread EXCEPT ![c] = 0] BY <1>8
  <2> QED BY <1>1, <1>2, <1>3, <1>5, <2>1, <2>5, <2>9, <2>10, <2>11, RecvMsgStep
<1> QED BY <1>1, <1>4, <1>6, <1>7, <1>8 DEF Recv

\* The kernel has a number for the socket of a connection that waits to be accepted: each
\* number in use is that of a session of another connection.
LEMMA FreeNumber ==
  ASSUME Inv, NEW c \in Elems(backlog)
  PROVE  \E g \in FD : file[g] = None
<1> USE DEF Inv
<1> SUFFICES ASSUME \A g \in FD : file[g] # None PROVE FALSE OBVIOUS
<1>1. c \in Conn BY ElemsType DEF Types, KernelTypes
<1>2. file \in [FD -> Conn \cup {None}] BY DEF Types, KernelTypes
<1>3. ASSUME NEW g \in FD
      PROVE  \E s \in Live : session[s].m_Sock = g /\ file[g] = session[s].conn /\ session[s].conn # c
  BY <1>1 DEF Sockets, Arriving, Early
<1>4. file \in [FD -> Conn \ {c}]
  <2>1. \A g \in FD : file[g] \in Conn \ {c} BY <1>2, <1>3
  <2> QED BY <1>2, <2>1
<1>5. \A g, h \in FD : file[g] = file[h] => g = h BY <1>3 DEF Pool
<1>6. file \in Injection(FD, Conn \ {c}) BY <1>4, <1>5 DEF Injection, IsInjective
<1>7. ConnMax \in Nat \ {0} BY Constants
<1>8. IsFiniteSet(Conn) /\ Cardinality(Conn) = ConnMax
  <2>1. 1 \in Int /\ ConnMax \in Int BY <1>7
  <2>2. IsFiniteSet(1 .. ConnMax)
        /\ Cardinality(1 .. ConnMax) = IF 1 > ConnMax THEN 0 ELSE ConnMax - 1 + 1
    BY <2>1, FS_Interval
  <2> QED BY <1>7, <2>2 DEF Conn
<1>9. IsFiniteSet(Conn \ {c}) /\ Cardinality(Conn \ {c}) = ConnMax - 1
  BY <1>1, <1>8, FS_RemoveElement
<1>10. Cardinality(FD) <= ConnMax - 1 BY <1>6, <1>9, FS_Injection
<1> QED BY <1>7, <1>8, <1>10, Constants

\* A peer that could connect finds a free session, and a new session shares nothing with
\* those that exist.
LEMMA AcceptStep ==
  ASSUME Benign, Inv, NEW w \in Worker, Accept(w)
  PROVE  Inv'
<1> USE DEF Inv
<1>1. PICK s : s = Head(m_FreeList) OBVIOUS
<1>2. PICK c : c = Head(backlog) OBVIOUS
<1>3. PICK k : k = Head(freeIDs) OBVIOUS
<1>4. PICK f : f = Least({g \in FD : file[g] = None}) OBVIOUS
<1>5. /\ pc \in [Worker -> Label] /\ session \in [Slot -> SessionSet]
      /\ active \in [Slot -> BOOLEAN] /\ file \in [FD -> Conn \cup {None}]
      /\ m_FreeList \in Seq(Slot) /\ freeIDs \in Seq(Slot) /\ backlog \in Seq(Conn)
      /\ op \in [Worker -> HandSet]
  BY DEF Types, ThreadTypes, PoolTypes, KernelTypes
<1>6. pc[w] = "ACCEPT" /\ backlog # << >> BY DEF Accept
<1>7. m_FreeList # << >> /\ freeIDs # << >>
  <2>1. Len(backlog) \in Nat \ {0} BY <1>5, <1>6, EmptySeq
  <2>2. Len(m_FreeList) \in Nat /\ Len(backlog) <= Len(m_FreeList) /\ Len(freeIDs) = Len(m_FreeList)
    BY <1>5, LenProperties DEF Arriving, Pool
  <2>3. Len(m_FreeList) # 0 /\ Len(freeIDs) # 0 BY <2>1, <2>2
  <2> QED BY <2>3
<1>8. /\ m_FreeList' = Tail(m_FreeList) /\ freeIDs' = Tail(freeIDs) /\ backlog' = Tail(backlog)
      /\ active' = [active EXCEPT ![k] = TRUE] /\ file' = [file EXCEPT ![f] = c]
      /\ session' = [session EXCEPT ![s] = [m_ID |-> k, m_Sock |-> f, answers |-> 0, conn |-> c]]
      /\ op' = [op EXCEPT ![w] = Reference(s, "ACCEPT", c)]
      /\ pc' = [pc EXCEPT ![w] = "NOTIFY"] /\ fault' = fault
      /\ stranded' = stranded \ {c}
  BY <1>1, <1>2, <1>3, <1>4, <1>7 DEF Accept, CreateSession, Goto, After
<1>9. /\ UNCHANGED <<polite, peer, sent, answered, unread, listener, listenEdge>>
      /\ UNCHANGED <<registered, edge, events, queue, msgs>>
      /\ UNCHANGED <<mainPc, msg, id, notified, failures>>
  BY DEF Accept, net, main
<1>10. /\ m_FreeList' \in Seq(Slot) /\ s \in Elems(m_FreeList) /\ Distinct(m_FreeList')
       /\ Elems(m_FreeList') = Elems(m_FreeList) \ {s} /\ s \in Slot
  <2>1. Distinct(m_FreeList) BY DEF Pool
  <2> QED BY <1>1, <1>5, <1>7, <1>8, <2>1, TailElems, ElemsType
<1>11. /\ freeIDs' \in Seq(Slot) /\ k \in Elems(freeIDs) /\ Distinct(freeIDs')
       /\ Elems(freeIDs') = Elems(freeIDs) \ {k} /\ k \in Slot
  <2>1. Distinct(freeIDs) BY DEF Pool
  <2> QED BY <1>3, <1>5, <1>7, <1>8, <2>1, TailElems, ElemsType
<1>12. /\ backlog' \in Seq(Conn) /\ c \in Elems(backlog) /\ Distinct(backlog')
       /\ Elems(backlog') = Elems(backlog) \ {c} /\ c \in Conn
  <2>1. Distinct(backlog) BY DEF Arriving
  <2> QED BY <1>2, <1>5, <1>6, <1>8, <2>1, TailElems, ElemsType
<1>13. /\ Len(m_FreeList') = Len(freeIDs') /\ Len(backlog') <= Len(m_FreeList')
  <2>1. /\ Len(m_FreeList) \in Nat /\ Len(m_FreeList') = Len(m_FreeList) - 1
        /\ Len(freeIDs) \in Nat /\ Len(freeIDs') = Len(freeIDs) - 1
        /\ Len(backlog) \in Nat /\ Len(backlog') = Len(backlog) - 1
    BY <1>5, <1>6, <1>7, <1>8, HeadTailProperties, LenProperties
  <2>2. Len(m_FreeList) = Len(freeIDs) /\ Len(backlog) <= Len(m_FreeList) BY DEF Arriving, Pool
  <2> QED BY <2>1, <2>2
<1>14. f \in FD /\ file[f] = None
  <2> DEFINE T == {g \in FD : file[g] = None}
  <2>1. T \in SUBSET Nat /\ T # {} BY <1>12, FreeNumber, Constants
  <2>2. \E x \in T : \A y \in T : x <= y BY <2>1, LeastNumber
  <2>3. Least(T) \in T BY <2>2, Zenon DEF Least
  <2> QED BY <1>4, <2>3
<1>15. /\ Early(c) /\ answered[c] = 0 /\ registered[c] = None /\ notified[c] = << >>
       /\ c # None /\ peer[c] # "none" /\ \A t \in Live : session[t].conn # c
  BY <1>12, Constants DEF Arriving, Early
<1>16. s \notin Live /\ Live' = Live \cup {s} /\ Live \subseteq Slot
  BY <1>10 DEF Live
<1>17. /\ pc'[w] = "NOTIFY" /\ op'[w] = Reference(s, "ACCEPT", c)
       /\ session'[s] = [m_ID |-> k, m_Sock |-> f, answers |-> 0, conn |-> c]
       /\ \A t \in Live : session'[t] = session[t]
       /\ file'[f] = c /\ \A g \in FD \ {f} : file'[g] = file[g]
       /\ active'[k] /\ \A i \in Slot : active[i] => active'[i]
  <2>1. active'[k] /\ \A i \in Slot : active[i] => active'[i] BY <1>5, <1>8, <1>11
  <2>2. /\ pc'[w] = "NOTIFY" /\ op'[w] = Reference(s, "ACCEPT", c) BY <1>5, <1>8
  <2>3. file'[f] = c /\ \A g \in FD \ {f} : file'[g] = file[g] BY <1>5, <1>8, <1>14
  <2>4. /\ session'[s] = [m_ID |-> k, m_Sock |-> f, answers |-> 0, conn |-> c]
        /\ \A t \in Live : session'[t] = session[t]
    BY <1>5, <1>8, <1>10, <1>16
  <2> QED BY <2>1, <2>2, <2>3, <2>4
<1>18. /\ session'[s].m_ID = k /\ session'[s].m_Sock = f /\ session'[s].answers = 0
       /\ session'[s].conn = c /\ op'[w].slot = s /\ op'[w].type = "ACCEPT" /\ op'[w].conn = c
       /\ op'[w] \in HandSet
  <2>1. Reference(s, "ACCEPT", c) \in HandSet BY <1>10, <1>12 DEF Reference, HandSet
  <2> QED BY <1>17, <2>1 DEF Reference
<1>19. \A v \in Worker : v = w BY OnlyOne
<1>20. /\ \A t : ~Closing(t) /\ ~(Closing(t)') /\ ~Notifying(t) /\ (Notifying(t)' <=> t = s)
       /\ \A v \in Worker : ~(InHand(v)')
  BY <1>6, <1>17, <1>18, <1>19 DEF Closing, Notifying, InHand
<1>21. \A t \in Live : /\ session[t] \in SessionSet /\ session[t].conn \in Conn
                       /\ session[t].m_Sock \in FD /\ session[t].m_ID \in Slot
                       /\ session[t].m_Sock # f
                       /\ session[t].m_ID \notin Elems(freeIDs) /\ session[t].m_ID # k
  <2> SUFFICES ASSUME NEW t \in Live
               PROVE  /\ session[t] \in SessionSet /\ session[t].conn \in Conn
                      /\ session[t].m_Sock \in FD /\ session[t].m_ID \in Slot
                      /\ session[t].m_Sock # f
                      /\ session[t].m_ID \notin Elems(freeIDs) /\ session[t].m_ID # k
    OBVIOUS
  <2>1. session[t] \in SessionSet BY <1>5, <1>16
  <2>2. session[t].conn # None /\ session[t].m_ID \notin Elems(freeIDs) BY DEF Pool
  <2>3. file[session[t].m_Sock] = session[t].conn BY <1>20 DEF Sockets
  <2> QED BY <1>11, <1>14, <2>1, <2>2, <2>3 DEF SessionSet
<1>22. Types'
  <2>1. KernelTypes' BY <1>5, <1>8, <1>9, <1>12, <1>14 DEF Types, KernelTypes
  <2>2. PoolTypes'
    <3>1. [m_ID |-> k, m_Sock |-> f, answers |-> 0, conn |-> c] \in SessionSet
      BY <1>11, <1>12, <1>14 DEF SessionSet
    <3>2. session' \in [Slot -> SessionSet] BY <1>5, <1>8, <3>1
    <3>3. active' \in [Slot -> BOOLEAN] BY <1>5, <1>8
    <3> QED BY <1>10, <1>11, <3>2, <3>3 DEF PoolTypes
  <2>3. ThreadTypes'
    <3>1. op' \in [Worker -> HandSet] BY <1>5, <1>8, <1>17, <1>18
    <3> QED BY <1>5, <1>8, <1>9, <3>1 DEF Types, ThreadTypes, Label
  <2>4. NetTypes' /\ MainTypes' BY <1>9 DEF Types, NetTypes, MainTypes
  <2>5. GhostTypes' BY <1>8, <1>9 DEF Types, GhostTypes
  <2> QED BY <2>1, <2>2, <2>3, <2>4, <2>5 DEF Types
<1>23. InHands' BY <1>10, <1>12, <1>17, <1>18, <1>19 DEF InHands
<1>24. Pool'
  <2>1. \A t \in Live' : session'[t].conn # None /\ session'[t].m_ID \notin Elems(freeIDs')
    BY <1>11, <1>15, <1>16, <1>17, <1>18, <1>21 DEF Pool
  <2>2. \A t, u \in Live' :
          session'[t].m_ID = session'[u].m_ID \/ session'[t].conn = session'[u].conn => t = u
    BY <1>15, <1>16, <1>17, <1>18, <1>21 DEF Pool
  <2> QED BY <1>10, <1>11, <1>13, <2>1, <2>2 DEF Pool
<1>25. Sockets'
  <2>1. \A t \in Live' : file'[session'[t].m_Sock] = session'[t].conn
    BY <1>16, <1>17, <1>18, <1>20, <1>21 DEF Sockets
  <2>2. \A g \in FD : file'[g] # None => \E t \in Live' : session'[t].m_Sock = g
    <3> SUFFICES ASSUME NEW g \in FD, file'[g] # None PROVE \E t \in Live' : session'[t].m_Sock = g
      OBVIOUS
    <3>1. CASE g = f BY <1>16, <1>18, <3>1
    <3>2. CASE g # f
      <4>1. PICK t \in Live : session[t].m_Sock = g BY <1>17, <3>2 DEF Sockets
      <4> QED BY <1>16, <1>17, <4>1
    <3> QED BY <3>1, <3>2
  <2> QED BY <1>20, <2>1, <2>2 DEF Sockets
<1>26. Arriving'
  <2>1. \A d \in Conn : Early(d)' => Early(d) /\ d # c BY <1>9, <1>12, <1>15 DEF Early
  <2>2. \A d \in Conn : Early(d)' => \A t \in Live' : session'[t].conn # d
    BY <1>16, <1>17, <1>18, <2>1 DEF Arriving
  <2>3. \A d \in Conn : Early(d)' => answered[d] = 0 /\ registered[d] = None /\ notified[d] = << >>
    BY <2>1 DEF Arriving
  <2>4. \A d \in Elems(backlog') : peer[d] # "none" BY <1>12 DEF Arriving
  <2> QED BY <1>9, <1>12, <1>13, <2>2, <2>3, <2>4 DEF Arriving
<1>27. Registrations'
  <2>1. \A d \in Conn : registered[d] # None =>
          registered[d] \in Live' /\ session'[registered[d]].conn = d
    BY <1>16, <1>17 DEF Registrations
  <2>2. \A t \in Live' : registered[session'[t].conn] = None => answered[session'[t].conn] = 0
    BY <1>15, <1>16, <1>17, <1>18, <1>20 DEF Registrations
  <2>3. \A v \in Worker : registered[op'[v].conn] = None BY <1>15, <1>18, <1>19
  <2> QED BY <1>9, <2>1, <2>2, <2>3 DEF Registrations
<1>28. Operations'
  <2>1. \A r : Due(r)' <=> Due(r) BY <1>9 DEF Due
  <2>2. \A v \in Worker : /\ pc'[v] # "DESTROY" /\ op'[v].slot \in Live'
                          /\ session'[op'[v].slot].conn = op'[v].conn
    BY <1>16, <1>17, <1>18, <1>19
  <2> QED BY <1>9, <1>20, <2>1, <2>2 DEF Operations
<1>29. \A d, i : NoneAfter(d, i)' <=> NoneAfter(d, i) BY <1>9 DEF NoneAfter, NoEvent
<1>30. Last'
  <2>1. \A v \in Worker : pc'[v] # "DESTROY" BY <1>17, <1>19
  <2> QED BY <1>9, <1>20, <1>29, <2>1 DEF Last
<1>31. Served'
  <2>1. \A d : Taken(d)' = Taken(d) BY <1>9 DEF Taken, Serving, Waiting
  <2>2. \A d \in Conn : Taken(d)' =>
          /\ unread'[d] = 0 /\ sent'[d] = answered'[d] + 1 /\ registered'[d] # None
          /\ NoneAfter(d, 0)'
          /\ \A v \in Worker : InHand(v)' => op'[v].conn # d
    BY <1>9, <1>20, <1>29, <2>1 DEF Served
  <2>3. mainPc = "Complete" => msg.slot \in Live BY DEF Messages, InSendMsg
  <2>4. \A t \in Live' : session'[t].answers = IF mainPc = "Complete" /\ msg.slot = t THEN 1 ELSE 0
    BY <1>16, <1>17, <1>18, <2>3 DEF Served
  <2> QED BY <1>9, <2>2, <2>4 DEF Served, Serving, Waiting
<1>32. Messages'
  <2>1. \A i \in 1 .. Len(msgs) : msgs[i].type # "CLOSE" =>
          msgs[i].slot \in Live' /\ session'[msgs[i].slot].conn = msgs[i].conn
    BY <1>16, <1>17 DEF Messages
  <2>2. mainPc \in InSendMsg => msg.slot \in Live' /\ session'[msg.slot].conn = msg.conn
    BY <1>16, <1>17 DEF Messages
  <2> QED BY <1>9, <2>1, <2>2 DEF Messages, Serving
<1>33. Activity' BY <1>9, <1>16, <1>17, <1>18, <1>21 DEF Activity
<1>34. Told'
  <2>1. "CLOSE" \notin Elems(<< >>) BY DEF Elems
  <2>2. \A t \in Live' : /\ notified[session'[t].conn] = << >> <=> t = s
                         /\ "CLOSE" \notin Elems(notified[session'[t].conn])
    BY <1>15, <1>16, <1>17, <1>18, <1>20, <2>1 DEF Told
  <2> QED BY <1>9, <1>20, <2>2 DEF Told
<1>35. Requests' BY <1>9, FrameRequests
<1> QED BY <1>22, <1>23, <1>24, <1>25, <1>26, <1>27, <1>28, <1>30, <1>31, <1>32, <1>33, <1>34, <1>35
-----------------------------------------------------------------------------
(***************************************************************************)
(* The specification.                                                      *)
(***************************************************************************)
LEMMA StutterStep == ASSUME Inv, UNCHANGED vars PROVE Inv'
<1>1. /\ UNCHANGED <<polite, peer, sent, answered, unread, file, backlog, listener, listenEdge>>
      /\ UNCHANGED <<registered, edge, events, queue, session, m_FreeList, freeIDs, active>>
      /\ UNCHANGED <<msgs, pc, op, mainPc, msg, id, fault, notified, failures, stranded>>
  BY DEF vars, net, kernel, mgr, main, failed
<1>2. Types'
  BY <1>1 DEF Inv, Types, NetTypes, KernelTypes, PoolTypes, ThreadTypes, MainTypes, GhostTypes
<1>3. InHands' /\ Pool' /\ Sockets' /\ Arriving' /\ Requests'
  BY <1>1, FrameInHands, FramePool, FrameSockets, FrameArriving, FrameRequests DEF Inv
<1>4. Registrations' /\ Operations' /\ Last' /\ Served'
  BY <1>1, FrameRegistrations, FrameOperations, FrameLast, FrameServed DEF Inv
<1>5. Messages' /\ Activity' /\ Told'
  BY <1>1, FrameMessages, FrameActivity, FrameTold DEF Inv
<1> QED BY <1>2, <1>3, <1>4, <1>5 DEF Inv

LEMMA NextInv == ASSUME Benign, Inv, [Next]_vars PROVE Inv'
<1>1. CASE PeerStep BY <1>1, PeerConnectStep, PeerSendStep, PeerCloseStep DEF PeerStep
<1>2. CASE DispatcherStep BY <1>2, EpollWaitStep, InsertAsyncOperationStep DEF DispatcherStep
<1>3. CASE MainStep
  BY <1>3, StartStep, RemoveMsgStep, FirstCheckStep, SecondCheckStep, MainSendStep DEF MainStep
<1>4. ASSUME NEW w \in Worker, WorkerStep(w) PROVE Inv'
  <2>1. CASE RemoveAsyncOperation(w) \/ Complete(w)
    BY <2>1, RemoveAsyncOperationStep, CompleteStep
  <2>2. CASE Accept(w) \/ InsertSimpleMsg(w) \/ RegisterSocket(w) \/ AcceptDone(w)
    BY <2>2, AcceptStep, InsertSimpleMsgStep, RegisterSocketStep, AcceptDoneStep
  <2>3. CASE Recv(w) \/ WorkerSend(w) BY <2>3, RecvStep, WorkerSendStep
  <2>4. CASE Close(w) \/ DestroySession(w) \/ UnLock(w)
    BY <2>4, CloseStep, DestroySessionStep, UnLockStep
  <2> QED BY <1>4, <2>1, <2>2, <2>3, <2>4 DEF WorkerStep
<1>5. CASE UNCHANGED vars BY <1>5, StutterStep
<1> QED BY <1>1, <1>2, <1>3, <1>4, <1>5 DEF Next

LEMMA InvariantHolds == ASSUME Benign PROVE Spec => []Inv
<1>1. Init => Inv BY InitInv
<1>2. Inv /\ [Next]_vars => Inv' BY NextInv
<1> QED BY <1>1, <1>2, PTL DEF Spec

\* The state has its types; in particular no peer ever has more answers than it may have
\* sent requests, and no operation but those of a session or of the listening socket is
\* ever queued.
THEOREM ReactorTypeCorrect == ASSUME Benign PROVE Spec => []TypeOK
<1>1. ASSUME Inv PROVE TypeOK
  <2> USE <1>1 DEF Inv
  <2>1. \A c \in Conn : /\ sent[c] \in 0 .. RequestMax /\ unread[c] \in 0 .. RequestMax
                        /\ answered[c] \in 0 .. RequestMax
    <3> SUFFICES ASSUME NEW c \in Conn
                 PROVE  /\ sent[c] \in 0 .. RequestMax /\ unread[c] \in 0 .. RequestMax
                        /\ answered[c] \in 0 .. RequestMax
      OBVIOUS
    <3>1. sent[c] \in Nat /\ unread[c] \in Nat /\ answered[c] \in Nat /\ RequestMax \in Nat
      BY Constants DEF Types, NetTypes
    <3>2. sent[c] <= RequestMax /\ answered[c] <= sent[c] /\ unread[c] <= sent[c] - answered[c]
      BY DEF Requests
    <3> QED BY <3>1, <3>2
  <2>2. /\ sent \in [Conn -> 0 .. RequestMax] /\ unread \in [Conn -> 0 .. RequestMax]
        /\ answered \in [Conn -> 0 .. RequestMax]
        /\ peer \in [Conn -> {"none", "open", "finished", "reset"}] /\ polite \in BOOLEAN
    BY <2>1 DEF Types, NetTypes
  <2>3. RangeOf(m_FreeList) \subseteq Slot /\ RangeOf(freeIDs) \subseteq Slot
    BY SameElems, ElemsType DEF Types, PoolTypes
  <2>4. \A s \in Slot : session[s].m_ID \in Slot /\ session[s].m_Sock \in FD
    BY DEF Types, PoolTypes, SessionSet
  <2>5. \A r \in events \cup RangeOf(queue) :
          r.slot \in Slot \cup {ACCEPT} /\ r.type \in OperationType
    <3>1. events \cup RangeOf(queue) \subseteq OpSet
      BY SameElems, ElemsType DEF Types, ThreadTypes
    <3>2. \A r \in OpSet : r.slot \in Slot \cup {ACCEPT} /\ r.type \in OperationType
      BY DEF OpSet, SessionOp, Reference, OperationType
    <3> QED BY <3>1, <3>2
  <2>6. \A r \in RangeOf(msgs) :
          r.slot \in Slot \cup {None} /\ r.type \in {"ACCEPT", "RECV", "CLOSE"}
    <3>1. RangeOf(msgs) \subseteq MsgSet BY SameElems, ElemsType DEF Types, MainTypes
    <3>2. \A r \in MsgSet : r.slot \in Slot \cup {None} /\ r.type \in {"ACCEPT", "RECV", "CLOSE"}
      BY DEF MsgSet, LiveMsg
    <3> QED BY <3>1, <3>2
  <2>7. /\ failures \in 0 .. FailMax /\ stranded \subseteq Conn
        /\ listener \in {"none", "listening", "registered", "deaf"}
        /\ file \in [FD -> Conn \cup {None}] /\ registered \in [Conn -> Slot \cup {None}]
        /\ active \in [Slot -> BOOLEAN]
    BY DEF Types, GhostTypes, KernelTypes, PoolTypes
  <2> QED BY <2>2, <2>3, <2>4, <2>5, <2>6, <2>7 DEF TypeOK
<1> QED BY InvariantHolds, <1>1, PTL

\* No wild virtual call of Complete on a freed session, no use of a failed CreateSession's
\* NULL, no SIGPIPE from send.
THEOREM ReactorNoFault == ASSUME Benign PROVE Spec => []NoFault
<1>1. Inv => NoFault BY DEF Inv, Types, GhostTypes, NoFault
<1> QED BY InvariantHolds, <1>1, PTL

\* No operation between epoll_wait and the end of Complete refers to a session that was
\* destroyed, or whose slot another connection has.
THEOREM ReactorNoDanglingOperation == ASSUME Benign PROVE Spec => []NoDanglingOperation
<1>1. ASSUME Inv PROVE NoDanglingOperation
  <2> USE <1>1 DEF Inv
  <2> SUFFICES ASSUME NEW r \in OpsInFlight, r.slot # ACCEPT PROVE Good(r)
    BY DEF NoDanglingOperation
  <2>1. CASE r \in events \cup RangeOf(queue)
    <3>1. r \in OpSet BY <2>1, SameElems, ElemsType DEF Types, ThreadTypes
    <3>2. r \in SessionOp BY <3>1 DEF OpSet, Reference
    <3>3. r.slot \in Slot /\ r.conn \in Conn BY <3>2 DEF SessionOp
    <3>4. registered[r.conn] = r.slot /\ r.slot # None
      BY <2>1, <3>2, <3>3, SameElems, Constants DEF Operations
    <3> QED BY <3>3, <3>4, SameElems DEF Registrations, Good, Live
  <2>2. CASE r \in {op[w] : w \in {v \in Worker : pc[v] \notin {"idle", "UNLOCK"}}}
    <3>1. PICK w \in Worker : pc[w] \notin {"idle", "UNLOCK"} /\ r = op[w] BY <2>2
    <3> QED BY <3>1, SameElems DEF Operations, Good, Live
  <2> QED BY <2>1, <2>2 DEF OpsInFlight
<1> QED BY InvariantHolds, <1>1, PTL

\* OnAccept, OnReceive and all of SendMsg have the session the message was queued for.
THEOREM ReactorNoDanglingMsg == ASSUME Benign PROVE Spec => []NoDanglingMsg
<1>1. Inv => NoDanglingMsg
  BY SameElems DEF Inv, Messages, NoDanglingMsg, Good, Live, InSendMsg
<1> QED BY InvariantHolds, <1>1, PTL

\* A socket number is open exactly as long as the one session made for its connection
\* exists, although the kernel reuses the numbers at once.
THEOREM ReactorSocketsOwned == ASSUME Benign PROVE Spec => []SocketsOwned
<1>1. ASSUME Inv PROVE SocketsOwned
  <2>1. Existing = {s \in Live : ~Closing(s)} BY SameElems DEF Existing, Live, Closing
  <2> QED BY <1>1, <2>1 DEF Inv, Sockets, SocketsOwned
<1> QED BY InvariantHolds, <1>1, PTL

\* OnAccept, then any number of OnReceive, then one OnClose, for every connection.
THEOREM ReactorAcceptRecvClose == ASSUME Benign PROVE Spec => []AcceptRecvClose
<1>1. Inv => AcceptRecvClose BY DEF Inv, Told, AcceptRecvClose
<1> QED BY InvariantHolds, <1>1, PTL

\* When SendMsg's second check passes, the session that passed the first still exists.
THEOREM ReactorSecondCheck == ASSUME Benign PROVE Spec => SecondCheckSuffices
<1>1. Inv /\ [Next]_vars => [mainPc = "SendMsg" /\ mainPc' = "Complete" => Good(msg)]_vars
  BY SameElems DEF Inv, Messages, Good, Live, InSendMsg
<1> QED BY InvariantHolds, <1>1, PTL DEF Spec, SecondCheckSuffices
-----------------------------------------------------------------------------
(***************************************************************************)
(* The client.  Its connections follow one another, so the invariant names *)
(* the one made last, c, and its session, s: every reference anywhere in   *)
(* the process is to them.                                                 *)
(***************************************************************************)
\* One thread takes operations out of the queue: the ThreadAmount that
\* configure/Config.cfg gives for a client.
OneWorker == \E w : Worker \ {Main} = {w}

ClientOps(c, s) == [slot : {s}, type : {"RECV", "SEND", "CLOSE", "ERROR"}, conn : {c}]
ClientMsgs(c, s) ==
  [slot : {s}, type : {"CONNECT", "RECV"}, conn : {c}]
  \cup [slot : {None}, type : {"CLOSE"}, conn : {c}]
ClientLabel == {"idle", "call", "RECV", "SEND", "CLOSE", "ERROR", "DESTROY", "UNLOCK"}
MainLabels == {"idle", "NOTIFY", "REGISTER", "CLOSE", "DESTROY", "UNLOCK"}
ClientNote == {"CONNECT", "RECV", "CLOSE"}
ClientSessions == [m_ID : Slot, m_Sock : FD, answers : Nat, conn : Conn \cup {None}]

\* No session has been made for the connections that follow c; they are fresh.
Fresh(c) ==
  /\ polite \in BOOLEAN
  /\ peer \in [Conn -> {"none", "open", "finished", "reset"}]
  /\ sent \in [Conn -> Nat] /\ answered \in [Conn -> Nat] /\ unread \in [Conn -> Nat]
  /\ \A d \in Conn : peer[d] = "none" <=> d > c
  /\ \A d \in Conn : d > c => sent[d] = 0 /\ answered[d] = 0 /\ unread[d] = 0

\* Only the socket of s can be open, and it is registered for s if it is.
KernelOf(c, s) ==
  /\ file \in [FD -> {None, c}]
  /\ \A f \in FD : f # session[s].m_Sock => file[f] = None
  /\ registered \in [Conn -> {None, s}] /\ \A d \in Conn : d # c => registered[d] = None
  /\ edge \in [Conn -> BOOLEAN] /\ \A d \in Conn : edge[d] => registered[d] # None
  /\ listenEdge = FALSE

SessionOf(c, s) ==
  /\ session \in [Slot -> ClientSessions] /\ session[s].conn = c
  /\ active \in [Slot -> BOOLEAN]

OpsOf(c, s) ==
  /\ events \subseteq ClientOps(c, s) /\ queue \in Seq(ClientOps(c, s))
  /\ \A w \in Worker \ {Main} :
       /\ pc[w] \in ClientLabel
       /\ pc[w] # "idle" => op[w] \in ClientOps(c, s)
       /\ pc[w] \in {"RECV", "SEND", "CLOSE", "ERROR"} => op[w].type = pc[w]

\* The main thread: HandleNet with its handlers, and where it runs the code of the workers.
MainOf(c, s) ==
  /\ pc \in [Worker -> ClientLabel \cup MainLabels]
  /\ DOMAIN op = Worker
  /\ pc[Main] \in MainLabels
  /\ pc[Main] \in {"NOTIFY", "REGISTER"} =>
       mainPc = "Connect" /\ op[Main] = Reference(s, "CONNECT", c)
  /\ pc[Main] \in {"CLOSE", "DESTROY", "UNLOCK"} =>
       mainPc = "wait" /\ op[Main] = Reference(s, "CLOSE", c)
  /\ mainPc \in {"Connect", "wait", "Shutdown", "exit"} \cup InSendMsg
  /\ mainPc \in InSendMsg => msg \in ClientMsgs(c, s) /\ msg.slot = s
                          /\ \A i \in 1 .. Len(msgs) : msgs[i].type # "CONNECT"

NoOps ==
  /\ events = {} /\ queue = << >> /\ \A c \in Conn : ~edge[c]
  /\ \A w \in Worker \ {Main} : pc[w] = "idle"

\* Until RegisterSocket nobody else knows of the session.
Connecting ==
  pc[Main] \in {"NOTIFY", "REGISTER"} =>
    NoOps /\ (\A c \in Conn : registered[c] = None) /\ (pc[Main] = "NOTIFY" => msgs = << >>)

\* MSG_CONNECT comes first, and HandleNet stores its session.
Greeting(c, s) ==
  /\ msgs \in Seq(ClientMsgs(c, s))
  /\ \A i \in 1 .. Len(msgs) : msgs[i].type = "CONNECT" => i = 1
  /\ \/ pc[Main] = "NOTIFY" \/ m_pSession = s
     \/ msgs # << >> /\ msgs[1].type = "CONNECT"

Open(c, s) == file[session[s].m_Sock] = c

ToldOf(c, s) ==
  /\ notified \in [Conn -> Seq(ClientNote)]
  /\ \A d \in Conn : d > c => notified[d] = << >>
  /\ \A d \in Conn : \A i \in 1 .. Len(notified[d]) :
       /\ notified[d][i] = "CONNECT" <=> i = 1
       /\ notified[d][i] = "CLOSE" => i = Len(notified[d])
  /\ notified[c] = << >> <=> pc[Main] = "NOTIFY"
  /\ Open(c, s) => \A i \in 1 .. Len(notified[c]) : notified[c][i] # "CLOSE"

Sound(c, s) ==
  /\ Fresh(c) /\ KernelOf(c, s) /\ SessionOf(c, s) /\ OpsOf(c, s) /\ MainOf(c, s)
  /\ Connecting /\ Greeting(c, s) /\ ToldOf(c, s)
-----------------------------------------------------------------------------
(* With a polite server. *)

\* SendMsg for c is still to come.
Unanswered ==
  \/ pc[Main] = "NOTIFY" \/ (msgs # << >> /\ msgs[1].type = "CONNECT")
  \/ mainPc \in {"GetID", "SendMsg"}

\* The client sends one message on a connection, and gets one.
OneEach(c, s) ==
  /\ fault = FALSE
  /\ peer \in [Conn -> {"none", "open"}]
  /\ unread[c] <= sent[c] /\ sent[c] <= answered[c]
  /\ answered[c] + session[s].answers <= 1
  /\ Unanswered => answered[c] = 0 /\ session[s].answers = 0

\* The pool has all sessions but s, or all.
PoolOf(c, s) ==
  mainPc # "exit" =>
    /\ m_FreeList \in Seq(Slot) /\ freeIDs \in Seq(Slot) /\ Len(freeIDs) = Len(m_FreeList)
    /\ Distinct(m_FreeList)
    /\ Elems(m_FreeList) = IF Open(c, s) \/ pc[Main] = "DESTROY" THEN Slot \ {s} ELSE Slot

\* After the RECV of the answer there is no other operation.
RecvLast(c) ==
  /\ \A w \in Worker \ {Main} :
       /\ pc[w] # "idle" => pc[w] \in {"call", "RECV", "SEND"} /\ op[w].type \in {"RECV", "SEND"}
       /\ pc[w] # "idle" /\ op[w].type = "RECV" =>
            sent[c] = 1 /\ queue = << >> /\ events = {} /\ ~edge[c]
  /\ \A i \in 1 .. Len(queue) :
       /\ queue[i].type \in {"RECV", "SEND"}
       /\ queue[i].type = "RECV" => sent[c] = 1 /\ i = Len(queue) /\ events = {} /\ ~edge[c]
  /\ \A r \in events :
       /\ r.type \in {"RECV", "SEND"} /\ events = {r}
       /\ r.type = "RECV" => sent[c] = 1 /\ ~edge[c]

Received == pc[Main] = "CLOSE" \/ \E i \in 1 .. Len(msgs) : msgs[i].type = "RECV"

\* Disconnect comes after the last operation; nothing is left when the application
\* connects again or shuts down.
Disconnecting(c, s) ==
  /\ pc[Main] \in {"NOTIFY", "REGISTER"} => Open(c, s) /\ ~Received
  /\ Received => sent[c] = 1
  /\ Received \/ ~Open(c, s) \/ mainPc = "exit" => NoOps
  /\ registered[c] # None => Open(c, s) /\ mainPc # "exit"
  /\ Open(c, s) /\ ~m_Connected =>
       pc[Main] \in {"NOTIFY", "CLOSE"} \/ (msgs # << >> /\ msgs[1].type = "CONNECT")
  /\ \A i \in 1 .. Len(msgs) : msgs[i].type = "CLOSE" => ~Open(c, s)
  /\ pc[Main] \in {"DESTROY", "UNLOCK"} \/ mainPc = "Shutdown" => ~Open(c, s)
  /\ mainPc = "Connect" /\ pc[Main] = "idle" => ~Open(c, s) /\ msgs = << >>

Orderly(c, s) ==
  OneEach(c, s) /\ PoolOf(c, s) /\ RecvLast(c) /\ Disconnecting(c, s)
-----------------------------------------------------------------------------
\* Nothing has happened but a failure.
Started ==
  /\ polite \in BOOLEAN
  /\ peer = [c \in Conn |-> "none"]
  /\ sent = [c \in Conn |-> 0] /\ answered = sent /\ unread = sent
  /\ file = [f \in FD |-> None] /\ listenEdge = FALSE
  /\ registered = [c \in Conn |-> None] /\ edge = [c \in Conn |-> FALSE]
  /\ events = {} /\ queue = << >> /\ msgs = << >>
  /\ session \in [Slot -> ClientSessions]
  /\ m_FreeList = [i \in 1 .. Amount |-> i]
  /\ freeIDs = [i \in 1 .. Amount |-> Amount + 1 - i]
  /\ active \in [Slot -> BOOLEAN]
  /\ pc = [w \in Worker |-> "idle"] /\ DOMAIN op = Worker
  /\ mainPc \in {"Connect", "exit"}
  /\ fault = FALSE
  /\ notified = [c \in Conn |-> << >>]

\* A polite server, or the application's first connection.
Safe == polite \/ \A c \in Conn : c # 1 => peer[c] = "none"

ClientInv ==
  /\ peer \in [Conn -> {"none", "open", "finished", "reset"}]
  /\ Safe => \/ Started
             \/ \E c \in Conn, s \in Slot : Sound(c, s) /\ (polite => Orderly(c, s))
-----------------------------------------------------------------------------
LEMMA FrameFresh ==
  ASSUME NEW c, Fresh(c), UNCHANGED <<polite, peer, sent, answered, unread>> PROVE Fresh(c)'
  BY DEF Fresh

LEMMA FrameKernelOf ==
  ASSUME NEW c, NEW s, KernelOf(c, s), UNCHANGED <<file, session, registered, edge, listenEdge>>
  PROVE  KernelOf(c, s)'
  BY DEF KernelOf

LEMMA FrameSessionOf ==
  ASSUME NEW c, NEW s, SessionOf(c, s), UNCHANGED <<session, active>> PROVE SessionOf(c, s)'
  BY DEF SessionOf

LEMMA FrameOpsOf ==
  ASSUME NEW c, NEW s, OpsOf(c, s), UNCHANGED <<events, queue, pc, op>> PROVE OpsOf(c, s)'
  BY DEF OpsOf

LEMMA FrameMainOf ==
  ASSUME NEW c, NEW s, MainOf(c, s), UNCHANGED <<pc, op, mainPc, msg, msgs>> PROVE MainOf(c, s)'
  BY DEF MainOf

LEMMA FrameConnecting ==
  ASSUME Connecting, UNCHANGED <<pc, events, queue, edge, registered, msgs>> PROVE Connecting'
  BY DEF Connecting, NoOps

LEMMA FrameGreeting ==
  ASSUME NEW c, NEW s, Greeting(c, s), UNCHANGED <<pc, msgs, m_pSession>> PROVE Greeting(c, s)'
  BY DEF Greeting

LEMMA FrameToldOf ==
  ASSUME NEW c, NEW s, ToldOf(c, s), UNCHANGED <<notified, pc, file, session>> PROVE ToldOf(c, s)'
  BY DEF ToldOf, Open

LEMMA FrameOneEach ==
  ASSUME NEW c, NEW s, OneEach(c, s),
         UNCHANGED <<fault, peer, unread, sent, answered, session, pc, msgs, mainPc>>
  PROVE  OneEach(c, s)'
  BY DEF OneEach, Unanswered

LEMMA FramePoolOf ==
  ASSUME NEW c, NEW s, PoolOf(c, s),
         UNCHANGED <<mainPc, m_FreeList, freeIDs, pc, file, session>>
  PROVE  PoolOf(c, s)'
  BY DEF PoolOf, Open

LEMMA FrameRecvLast ==
  ASSUME NEW c, RecvLast(c), UNCHANGED <<pc, op, queue, events, edge, sent>> PROVE RecvLast(c)'
  BY DEF RecvLast

LEMMA FrameDisconnecting ==
  ASSUME NEW c, NEW s, Disconnecting(c, s),
         UNCHANGED <<pc, msgs, sent, events, queue, edge, file, session, mainPc, registered,
                     m_Connected>>
  PROVE  Disconnecting(c, s)'
  BY DEF Disconnecting, Received, NoOps, Open
-----------------------------------------------------------------------------
\* The server sends or closes.
LEMMA ServerSendStep ==
  ASSUME NEW c \in Conn, NEW s \in Slot, Sound(c, s), NEW d \in Conn, ServerSend(d)
  PROVE  Sound(c, s)' /\ (polite /\ Orderly(c, s) => Orderly(c, s)')
<1> USE Constants DEF Sound
<1>1. /\ peer[d] = "open" /\ (polite => sent[d] < answered[d])
      /\ sent' = [sent EXCEPT ![d] = @ + 1] /\ unread' = [unread EXCEPT ![d] = @ + 1]
      /\ edge' = [edge EXCEPT ![d] = @ \/ registered[d] # None]
  BY DEF ServerSend, Arm
<1>2. /\ UNCHANGED <<polite, peer, answered, file, listenEdge, registered, events, queue, session>>
      /\ UNCHANGED <<m_FreeList, freeIDs, active, msgs, pc, op, mainPc, msg, fault, notified>>
      /\ UNCHANGED <<m_Connected, m_pSession>>
  BY DEF ServerSend, mgr, main, client
<1>3. Fresh(c)' BY <1>1, <1>2 DEF Fresh
<1>4. /\ \A e \in Conn : edge'[e] => registered[e] # None
      /\ edge' \in [Conn -> BOOLEAN]
      /\ \A e \in Conn : registered[e] = None => edge'[e] = edge[e]
      /\ d # c => edge'[c] = edge[c] /\ sent'[c] = sent[c] /\ unread'[c] = unread[c]
      /\ d = c => sent'[c] = sent[c] + 1 /\ unread'[c] = unread[c] + 1
  BY <1>1 DEF KernelOf, Fresh
<1>5. KernelOf(c, s)' BY <1>2, <1>4 DEF KernelOf
<1>6. Connecting' BY <1>2, <1>4 DEF Connecting, NoOps
<1>7. SessionOf(c, s)' /\ OpsOf(c, s)' /\ MainOf(c, s)' /\ Greeting(c, s)' /\ ToldOf(c, s)'
  BY <1>2, FrameSessionOf, FrameOpsOf, FrameMainOf, FrameGreeting, FrameToldOf
<1>8. ASSUME polite, Orderly(c, s) PROVE Orderly(c, s)'
  <2> USE <1>8 DEF Orderly
  <2>1. /\ sent[c] \in Nat /\ answered[c] \in Nat /\ unread[c] \in Nat /\ session[s].answers \in Nat
        /\ unread[c] <= sent[c] /\ sent[c] <= answered[c] /\ answered[c] + session[s].answers <= 1
    BY DEF OneEach, Fresh, SessionOf, ClientSessions
  <2>2. d = c => sent[c] = 0 /\ answered[c] = 1 BY <1>1, <2>1
  <2>3. OneEach(c, s)'
    <3>1. unread'[c] <= sent'[c] /\ sent'[c] <= answered'[c]
      BY <1>2, <1>4, <2>1, <2>2
    <3> QED BY <1>2, <3>1 DEF OneEach, Unanswered
  <2>4. PoolOf(c, s)' BY <1>2, FramePoolOf
  <2>5. RecvLast(c)' BY <1>2, <1>4, <2>2 DEF RecvLast
  <2>6. Disconnecting(c, s)'
    <3>1. Received' <=> Received BY <1>2 DEF Received
    <3>2. Received => sent'[c] = 1 BY <1>4, <2>2 DEF Disconnecting
    <3>3. Received \/ ~Open(c, s) \/ mainPc = "exit" => NoOps'
      <4> SUFFICES ASSUME Received \/ ~Open(c, s) \/ mainPc = "exit" PROVE NoOps' OBVIOUS
      <4>1. NoOps BY DEF Disconnecting
      <4>2. CASE d = c
        <5>1. ~Received BY <2>2, <4>2 DEF Disconnecting
        <5>2. registered[c] = None BY <5>1 DEF Disconnecting
        <5> QED BY <1>1, <1>2, <1>4, <4>1, <5>2 DEF NoOps, KernelOf
      <4>3. CASE d # c
        <5>1. \A e \in Conn : ~edge'[e] BY <1>1, <1>4, <4>1, <4>3 DEF NoOps, KernelOf
        <5> QED BY <1>2, <4>1, <5>1 DEF NoOps
      <4> QED BY <4>2, <4>3
    <3>4. Open(c, s)' <=> Open(c, s) BY <1>2 DEF Open
    <3> QED BY <1>2, <3>1, <3>2, <3>3, <3>4 DEF Disconnecting
  <2> QED BY <2>3, <2>4, <2>5, <2>6
<1> QED BY <1>3, <1>5, <1>6, <1>7, <1>8

LEMMA ServerCloseStep ==
  ASSUME NEW c \in Conn, NEW s \in Slot, Sound(c, s), NEW d \in Conn, ServerClose(d)
  PROVE  Sound(c, s)' /\ ~polite
<1> USE Constants DEF Sound
<1>1. /\ peer[d] = "open" /\ ~polite /\ peer' = [peer EXCEPT ![d] = "finished"]
      /\ edge' = [edge EXCEPT ![d] = @ \/ registered[d] # None]
  BY DEF ServerClose, PeerClose, Arm
<1>2. /\ UNCHANGED <<polite, sent, answered, unread, file, listenEdge, registered, events, queue>>
      /\ UNCHANGED <<session, active, msgs, pc, op, mainPc, msg, notified>>
      /\ UNCHANGED <<m_Connected, m_pSession>>
  BY DEF ServerClose, PeerClose, mgr, main, client
<1>3. Fresh(c)' BY <1>1, <1>2 DEF Fresh
<1>4. /\ \A e \in Conn : edge'[e] => registered[e] # None
      /\ edge' \in [Conn -> BOOLEAN]
      /\ \A e \in Conn : registered[e] = None => edge'[e] = edge[e]
  BY <1>1 DEF KernelOf
<1>5. KernelOf(c, s)' BY <1>2, <1>4 DEF KernelOf
<1>6. Connecting' BY <1>2, <1>4 DEF Connecting, NoOps
<1>7. SessionOf(c, s)' /\ OpsOf(c, s)' /\ MainOf(c, s)' /\ Greeting(c, s)' /\ ToldOf(c, s)'
  BY <1>2, FrameSessionOf, FrameOpsOf, FrameMainOf, FrameGreeting, FrameToldOf
<1> QED BY <1>1, <1>3, <1>5, <1>6, <1>7
-----------------------------------------------------------------------------
\* The dispatcher, and a worker that takes an operation.
LEMMA ClientEpollWaitStep ==
  ASSUME NEW c \in Conn, NEW s \in Slot, Sound(c, s), EpollWait, UNCHANGED client
  PROVE  Sound(c, s)' /\ (polite /\ Orderly(c, s) => Orderly(c, s)')
<1> USE Constants DEF Sound
<1>1. /\ events = {} /\ \A e \in Conn : ~edge'[e]
      /\ edge' \in [Conn -> BOOLEAN] /\ listenEdge' = FALSE
  BY DEF EpollWait
<1>2. /\ UNCHANGED <<polite, peer, sent, answered, unread, file, registered, queue, session>>
      /\ UNCHANGED <<m_FreeList, freeIDs, active, msgs, pc, op, mainPc, msg, fault, notified>>
      /\ UNCHANGED <<m_Connected, m_pSession>>
  BY DEF EpollWait, net, mgr, main, client
<1>3. ASSUME NEW r \in events'
      PROVE  /\ edge[c] /\ registered[c] # None /\ r \in ClientOps(c, s)
             /\ \E t \in OperationTypes(c) : r = Reference(s, t, c)
  <2>1. r # Reference(ACCEPT, "RECV", None)
    <3> SUFFICES ASSUME r = Reference(ACCEPT, "RECV", None), listenEdge = FALSE PROVE FALSE
      BY DEF KernelOf
    <3> DEFINE Of(e) == {Reference(registered[e], t, e) : t \in OperationTypes(e)}
               S == UNION {Of(e) : e \in {d \in Conn : edge[d]}}
               T == {Reference(ACCEPT, "RECV", None) : x \in {listenEdge} \ {FALSE}}
    <3>1. events' = S \cup T BY DEF EpollWait
    <3>2. T = {} BY <3>1
    <3>3. r \in S
      <4> HIDE DEF S, T
      <4> QED BY <3>1, <3>2
    <3>4. PICK e \in {d \in Conn : edge[d]} : r \in Of(e) BY <3>3, Zenon
    <3>5. PICK t \in OperationTypes(e) : r = Reference(registered[e], t, e) BY <3>4, Zenon
    <3> QED BY <3>5 DEF Reference
  <2>2. PICK e \in Conn : edge[e] /\ \E t \in OperationTypes(e) : r = Reference(registered[e], t, e)
    BY <2>1, EpollEvents
  <2>3. e = c /\ registered[c] = s /\ s # None BY <2>2 DEF KernelOf
  <2>4. PICK t \in OperationTypes(c) : r = Reference(s, t, c) BY <2>2, <2>3
  <2>5. t \in {"RECV", "SEND", "ERROR"} BY DEF OperationTypes
  <2>6. r \in ClientOps(c, s) BY <2>4, <2>5 DEF ClientOps, Reference
  <2> QED BY <2>2, <2>3, <2>4, <2>6
<1>4. events' # {}
  <2> SUFFICES ASSUME listenEdge = FALSE, NEW e \in Conn, edge[e] PROVE events' # {}
    BY DEF EpollWait, KernelOf
  <2>1. PICK t \in OperationTypes(e) : TRUE BY DEF OperationTypes
  <2> DEFINE Of(d) == {Reference(registered[d], u, d) : u \in OperationTypes(d)}
             S == UNION {Of(d) : d \in {d \in Conn : edge[d]}}
  <2>2. S \subseteq events' BY DEF EpollWait
  <2>3. Reference(registered[e], t, e) \in Of(e) BY <2>1
  <2>4. Reference(registered[e], t, e) \in S BY <2>3
  <2> QED BY <2>2, <2>4
<1>5. edge[c] /\ registered[c] # None BY <1>3, <1>4
<1>6. pc[Main] \notin {"NOTIFY", "REGISTER"} BY <1>5 DEF Connecting
<1>7. KernelOf(c, s)' BY <1>1, <1>2 DEF KernelOf
<1>8. OpsOf(c, s)' BY <1>2, <1>3 DEF OpsOf
<1>9. Connecting' BY <1>2, <1>6 DEF Connecting
<1>10. /\ Fresh(c)' /\ SessionOf(c, s)' /\ MainOf(c, s)' /\ Greeting(c, s)' /\ ToldOf(c, s)'
  BY <1>2, FrameFresh, FrameSessionOf, FrameMainOf, FrameGreeting, FrameToldOf
<1>11. ASSUME polite, Orderly(c, s) PROVE Orderly(c, s)'
  <2> USE <1>11 DEF Orderly
  <2>1. ~(Received \/ ~Open(c, s) \/ mainPc = "exit") BY <1>5 DEF Disconnecting, NoOps
  <2>2. Disconnecting(c, s)'
    <3>1. ~(Received' \/ ~Open(c, s)' \/ mainPc' = "exit") BY <1>2, <2>1 DEF Received, Open
    <3> QED BY <1>2, <2>1, <3>1 DEF Disconnecting
  <2>3. PICK t \in OperationTypes(c) : \A r \in events' : r = Reference(s, t, c)
    <3>1. \A t, u \in OperationTypes(c) : t = u BY DEF OperationTypes
    <3> QED BY <1>3, <1>4, <3>1
  <2>4. t \in {"RECV", "SEND"} /\ (t = "RECV" => sent[c] = 1)
    <3>1. peer[c] = "open" /\ sent[c] \in Nat /\ unread[c] \in Nat /\ answered[c] \in Nat
          /\ session[s].answers \in Nat
      BY DEF OneEach, Fresh, SessionOf, ClientSessions
    <3>2. unread[c] > 0 => sent[c] = 1 BY <3>1 DEF OneEach
    <3> QED BY <3>1, <3>2 DEF OperationTypes, EpollErr, EpollIn
  <2>5. \A r \in events' : r.type = t /\ events' = {r} BY <2>3 DEF Reference
  <2>6. RecvLast(c)'
    <3>1. \A w \in Worker \ {Main} : pc[w] # "idle" => op[w].type # "RECV"
      BY <1>5 DEF RecvLast
    <3>2. \A i \in 1 .. Len(queue) : queue[i].type # "RECV" BY <1>5 DEF RecvLast
    <3> QED BY <1>1, <1>2, <2>4, <2>5, <3>1, <3>2 DEF RecvLast
  <2>7. OneEach(c, s)' /\ PoolOf(c, s)' BY <1>2, FrameOneEach, FramePoolOf
  <2> QED BY <2>2, <2>6, <2>7
<1> QED BY <1>7, <1>8, <1>9, <1>10, <1>11

LEMMA ClientInsertStep ==
  ASSUME NEW c \in Conn, NEW s \in Slot, Sound(c, s), NEW e \in events, InsertAsyncOperation(e),
         UNCHANGED client
  PROVE  Sound(c, s)' /\ (polite /\ Orderly(c, s) => Orderly(c, s)')
<1> USE Constants DEF Sound
<1>1. events' = events \ {e} /\ queue' = Append(queue, e) BY DEF InsertAsyncOperation
<1>2. /\ UNCHANGED <<polite, peer, sent, answered, unread, file, listenEdge, registered, edge>>
      /\ UNCHANGED <<session, m_FreeList, freeIDs, active, msgs, pc, op, mainPc, msg, fault>>
      /\ UNCHANGED <<notified, m_Connected, m_pSession>>
  BY DEF InsertAsyncOperation, net, kernel, mgr, main, client
<1>3. queue \in Seq(ClientOps(c, s)) /\ e \in ClientOps(c, s) BY DEF OpsOf
<1> DEFINE n == Len(queue)
<1>4. /\ queue' \in Seq(ClientOps(c, s)) /\ n \in Nat /\ Len(queue') = n + 1 /\ queue'[n + 1] = e
      /\ \A i \in 1 .. n : queue'[i] = queue[i]
  BY <1>1, <1>3, AppendProperties
<1> HIDE DEF n
<1>5. OpsOf(c, s)' BY <1>1, <1>2, <1>4 DEF OpsOf
<1>6. Connecting'
  <2>1. pc[Main] \notin {"NOTIFY", "REGISTER"} BY DEF Connecting, NoOps
  <2> QED BY <1>2, <2>1 DEF Connecting
<1>7. /\ Fresh(c)' /\ KernelOf(c, s)' /\ SessionOf(c, s)' /\ MainOf(c, s)' /\ Greeting(c, s)'
      /\ ToldOf(c, s)'
  BY <1>2, FrameFresh, FrameKernelOf, FrameSessionOf, FrameMainOf, FrameGreeting, FrameToldOf
<1>8. ASSUME polite, Orderly(c, s) PROVE Orderly(c, s)'
  <2> USE <1>8 DEF Orderly
  <2>1. RecvLast(c)'
    <3>1. events' = {} /\ (e.type = "RECV" => sent[c] = 1 /\ ~edge[c])
          /\ e.type \in {"RECV", "SEND"}
      BY <1>1 DEF RecvLast
    <3>2. \A w \in Worker \ {Main} : pc[w] # "idle" => op[w].type # "RECV"
      BY DEF RecvLast
    <3>3. \A i \in 1 .. n : queue[i].type = "SEND" BY DEF RecvLast, n
    <3>4. \A i \in 1 .. n + 1 : i \in 1 .. n \/ i = n + 1 BY <1>4
    <3>5. \A i \in 1 .. n + 1 :
            /\ queue'[i].type \in {"RECV", "SEND"}
            /\ queue'[i].type = "RECV" => sent[c] = 1 /\ i = n + 1 /\ events' = {} /\ ~edge[c]
      BY <1>4, <3>1, <3>3, <3>4
    <3> QED BY <1>2, <1>4, <3>1, <3>2, <3>5 DEF RecvLast
  <2>2. Disconnecting(c, s)'
    <3>1. ~(Received \/ ~Open(c, s) \/ mainPc = "exit") BY DEF Disconnecting, NoOps
    <3>2. ~(Received' \/ ~Open(c, s)' \/ mainPc' = "exit") BY <1>2, <3>1 DEF Received, Open
    <3> QED BY <1>2, <3>1, <3>2 DEF Disconnecting
  <2>3. OneEach(c, s)' /\ PoolOf(c, s)' BY <1>2, FrameOneEach, FramePoolOf
  <2> QED BY <2>1, <2>2, <2>3
<1> QED BY <1>5, <1>6, <1>7, <1>8

LEMMA ClientRemoveStep ==
  ASSUME NEW c \in Conn, NEW s \in Slot, Sound(c, s), NEW w \in Worker \ {Main},
         RemoveAsyncOperation(w), UNCHANGED client
  PROVE  Sound(c, s)' /\ (OneWorker /\ polite /\ Orderly(c, s) => Orderly(c, s)')
<1> USE Constants DEF Sound
<1>1. /\ pc[w] = "idle" /\ queue # << >> /\ queue' = Tail(queue)
      /\ op' = [op EXCEPT ![w] = Head(queue)] /\ pc' = [pc EXCEPT ![w] = "call"]
  BY DEF RemoveAsyncOperation, Goto
<1>2. /\ UNCHANGED <<polite, peer, sent, answered, unread, file, listenEdge, registered, edge>>
      /\ UNCHANGED <<session, m_FreeList, freeIDs, active, events, msgs, mainPc, msg, fault>>
      /\ UNCHANGED <<notified, m_Connected, m_pSession>>
  BY DEF RemoveAsyncOperation, net, kernel, mgr, main, client
<1>3. queue \in Seq(ClientOps(c, s)) BY DEF OpsOf
<1> DEFINE n == Len(queue)
<1>4. /\ n \in Nat \ {0} /\ queue' \in Seq(ClientOps(c, s)) /\ Len(queue') = n - 1
      /\ \A i \in 1 .. n - 1 : i + 1 \in 1 .. n /\ queue'[i] = queue[i + 1]
      /\ Head(queue) = queue[1] /\ queue[1] \in ClientOps(c, s) /\ 1 \in 1 .. n
  BY <1>1, <1>3, EmptySeq, HeadTailProperties, ElementOfSeq
<1> HIDE DEF n
<1>5. /\ pc'[w] = "call" /\ op'[w] = queue[1]
      /\ \A v \in Worker \ {w} : pc'[v] = pc[v] /\ op'[v] = op[v]
      /\ pc' \in [Worker -> ClientLabel \cup MainLabels] /\ DOMAIN op' = Worker
  BY <1>1, <1>4 DEF MainOf, ClientLabel
<1>6. pc'[Main] = pc[Main] /\ op'[Main] = op[Main] BY <1>5, ClientAssumption
<1>7. OpsOf(c, s)' BY <1>2, <1>4, <1>5 DEF OpsOf, ClientLabel
<1>8. MainOf(c, s)' BY <1>2, <1>5, <1>6 DEF MainOf
<1>9. pc[Main] \notin {"NOTIFY", "REGISTER"} BY <1>1 DEF Connecting, NoOps
<1>10. Connecting' BY <1>6, <1>9 DEF Connecting
<1>11. Greeting(c, s)' /\ ToldOf(c, s)' BY <1>2, <1>6 DEF Greeting, ToldOf, Open
<1>12. Fresh(c)' /\ KernelOf(c, s)' /\ SessionOf(c, s)'
  BY <1>2, FrameFresh, FrameKernelOf, FrameSessionOf
<1>13. ASSUME OneWorker, polite, Orderly(c, s) PROVE Orderly(c, s)'
  <2> USE <1>13 DEF Orderly
  <2>1. \A v \in Worker \ {Main} : v = w BY DEF OneWorker
  <2>2. RecvLast(c)'
    <3>1. queue[1].type \in {"RECV", "SEND"}
          /\ (queue[1].type = "RECV" => sent[c] = 1 /\ n = 1 /\ events = {} /\ ~edge[c])
      BY <1>4 DEF RecvLast, n
    <3>2. queue[1].type = "RECV" => queue' = << >>
      <4>1. n = 1 => Len(queue') = 0 BY <1>4
      <4> QED BY <1>4, <3>1, <4>1, EmptySeq
    <3>3. \A i \in 1 .. n - 1 :
            /\ queue'[i].type \in {"RECV", "SEND"}
            /\ queue'[i].type = "RECV" => sent[c] = 1 /\ i = n - 1 /\ events = {} /\ ~edge[c]
      <4> SUFFICES ASSUME NEW i \in 1 .. n - 1
                   PROVE  /\ queue'[i].type \in {"RECV", "SEND"}
                          /\ queue'[i].type = "RECV" =>
                               sent[c] = 1 /\ i = n - 1 /\ events = {} /\ ~edge[c]
        OBVIOUS
      <4>1. i + 1 \in 1 .. n /\ queue'[i] = queue[i + 1] /\ (i + 1 = n => i = n - 1) BY <1>4
      <4> QED BY <4>1 DEF RecvLast, n
    <3> QED BY <1>2, <1>4, <1>5, <2>1, <3>1, <3>2, <3>3 DEF RecvLast
  <2>3. Disconnecting(c, s)'
    <3>1. ~(Received \/ ~Open(c, s) \/ mainPc = "exit") BY <1>1 DEF Disconnecting, NoOps
    <3>2. ~(Received' \/ ~Open(c, s)' \/ mainPc' = "exit") BY <1>2, <1>6, <3>1 DEF Received, Open
    <3> QED BY <1>2, <1>6, <3>1, <3>2 DEF Disconnecting
  <2>4. OneEach(c, s)' BY <1>2, <1>6 DEF OneEach, Unanswered
  <2>5. PoolOf(c, s)' BY <1>2, <1>6 DEF PoolOf, Open
  <2> QED BY <2>2, <2>3, <2>4, <2>5
<1> QED BY <1>7, <1>8, <1>10, <1>11, <1>12, <1>13
-----------------------------------------------------------------------------
\* What a thread of the pool does to its own label and operation.
LEMMA WorkerGoto ==
  ASSUME NEW c, NEW s, MainOf(c, s), NEW w \in Worker \ {Main}, NEW l \in ClientLabel, Goto(w, l)
  PROVE  /\ pc'[w] = l /\ pc'[Main] = pc[Main]
         /\ \A v \in Worker \ {w} : pc'[v] = pc[v]
         /\ pc' \in [Worker -> ClientLabel \cup MainLabels]
  BY ClientAssumption DEF MainOf, Goto

LEMMA ClientCompleteStep ==
  ASSUME NEW c \in Conn, NEW s \in Slot, Sound(c, s), NEW w \in Worker \ {Main},
         Complete(w), UNCHANGED client
  PROVE  Sound(c, s)' /\ (polite /\ Orderly(c, s) => Orderly(c, s)')
<1> USE Constants DEF Sound
<1>1. pc[w] = "call" /\ op[w] \in ClientOps(c, s) /\ op[w].slot = s /\ s # ACCEPT
  BY DEF Complete, OpsOf, ClientOps
<1>2. /\ UNCHANGED <<polite, peer, sent, answered, unread, file, listenEdge, registered, edge>>
      /\ UNCHANGED <<session, m_FreeList, freeIDs, active, events, queue, op, msgs, mainPc, msg>>
      /\ UNCHANGED <<notified, m_Connected, m_pSession>>
  BY DEF Complete, net, kernel, mgr, main, client
<1>3. /\ s \in RangeOf(m_FreeList) => fault' = TRUE /\ pc' = pc
      /\ s \notin RangeOf(m_FreeList) => fault' = fault /\ Goto(w, op[w].type)
  BY <1>1 DEF Complete
<1>4. CASE s \in RangeOf(m_FreeList)
  <2>1. pc' = pc BY <1>3, <1>4
  <2>2. Sound(c, s)'
    BY <1>2, <2>1, FrameFresh, FrameKernelOf, FrameSessionOf, FrameOpsOf, FrameMainOf,
       FrameConnecting, FrameGreeting, FrameToldOf
  <2>3. ~(polite /\ Orderly(c, s))
    <3> SUFFICES ASSUME Orderly(c, s) PROVE FALSE OBVIOUS
    <3>1. Open(c, s) /\ mainPc # "exit" BY <1>1 DEF Orderly, Disconnecting, NoOps
    <3>2. Elems(m_FreeList) = Slot \ {s} BY <3>1 DEF Orderly, PoolOf
    <3> QED BY <1>4, <3>2, SameElems
  <2> QED BY <2>2, <2>3
<1>5. CASE s \notin RangeOf(m_FreeList)
  <2>0. op[w].type \in ClientLabel BY <1>1 DEF ClientOps, ClientLabel
  <2>1. /\ pc'[w] = op[w].type /\ pc'[Main] = pc[Main]
        /\ \A v \in Worker \ {w} : pc'[v] = pc[v]
        /\ pc' \in [Worker -> ClientLabel \cup MainLabels]
    BY <1>3, <1>5, <2>0, WorkerGoto
  <2>2. pc[Main] \notin {"NOTIFY", "REGISTER"} BY <1>1 DEF Connecting, NoOps
  <2>3. OpsOf(c, s)' BY <1>1, <1>2, <2>0, <2>1 DEF OpsOf, ClientOps, ClientLabel
  <2>4. MainOf(c, s)' BY <1>2, <2>1 DEF MainOf
  <2>5. Connecting' BY <2>1, <2>2 DEF Connecting
  <2>6. Greeting(c, s)' /\ ToldOf(c, s)' BY <1>2, <2>1 DEF Greeting, ToldOf, Open
  <2>7. Fresh(c)' /\ KernelOf(c, s)' /\ SessionOf(c, s)'
    BY <1>2, FrameFresh, FrameKernelOf, FrameSessionOf
  <2>8. ASSUME polite, Orderly(c, s) PROVE Orderly(c, s)'
    <3> USE <2>8 DEF Orderly
    <3>1. fault' = fault BY <1>3, <1>5
    <3>2. RecvLast(c)' BY <1>1, <1>2, <2>1 DEF RecvLast
    <3>3. OneEach(c, s)' BY <1>2, <2>1, <3>1 DEF OneEach, Unanswered
    <3>4. PoolOf(c, s)' BY <1>2, <2>1 DEF PoolOf, Open
    <3>5. Disconnecting(c, s)'
      <4>1. ~(Received \/ ~Open(c, s) \/ mainPc = "exit") BY <1>1 DEF Disconnecting, NoOps
      <4>2. ~(Received' \/ ~Open(c, s)' \/ mainPc' = "exit") BY <1>2, <2>1, <4>1 DEF Received, Open
      <4> QED BY <1>2, <2>1, <4>1, <4>2 DEF Disconnecting
    <3> QED BY <3>2, <3>3, <3>4, <3>5
  <2> QED BY <2>3, <2>4, <2>5, <2>6, <2>7, <2>8
<1> QED BY <1>4, <1>5

\* Send moves the answers out of the session.
LEMMA ClientSend ==
  ASSUME NEW c \in Conn, NEW s \in Slot, Fresh(c), KernelOf(c, s), SessionOf(c, s), Send(s),
         UNCHANGED <<file, registered, listenEdge, active>>
  PROVE  /\ Fresh(c)' /\ KernelOf(c, s)' /\ SessionOf(c, s)'
         /\ session'[s].m_Sock = session[s].m_Sock
         /\ UNCHANGED <<polite, sent, unread>>
         /\ (\A d \in Conn : registered[d] = None) => \A d \in Conn : edge'[d] = edge[d]
         /\ peer \in [Conn -> {"none", "open"}] =>
              /\ UNCHANGED <<peer, edge, fault>>
              /\ answered'[c] + session'[s].answers = answered[c] + session[s].answers
              /\ answered'[c] >= answered[c]
<1> USE Constants
<1>1. /\ session[s] \in ClientSessions /\ session[s].answers \in Nat /\ session[s].m_Sock \in FD
      /\ Peer(s) \in {None, c}
  BY DEF SessionOf, ClientSessions, KernelOf, Peer
<1>2. CASE ~Active(s) \/ session[s].answers = 0 \/ Peer(s) = None
  <2>1. UNCHANGED <<polite, peer, sent, answered, unread, edge, session, fault>>
    BY <1>2 DEF Send, net
  <2>2. Fresh(c)' /\ KernelOf(c, s)' /\ SessionOf(c, s)'
    BY <2>1, FrameFresh, FrameKernelOf, FrameSessionOf
  <2>3. answered[c] \in Nat BY DEF Fresh
  <2> QED BY <1>1, <2>1, <2>2, <2>3
<1>3. CASE ~(~Active(s) \/ session[s].answers = 0 \/ Peer(s) = None)
  <2>1. Peer(s) = c BY <1>1, <1>3
  <2>2. /\ session' = [session EXCEPT ![s].answers = 0] /\ UNCHANGED <<polite, sent, unread>>
        /\ \/ /\ peer[c] = "open"
              /\ answered' = [answered EXCEPT ![c] = @ + session[s].answers]
              /\ UNCHANGED <<peer, edge, fault>>
           \/ /\ peer[c] = "finished" /\ peer' = [peer EXCEPT ![c] = "reset"]
              /\ edge' = [edge EXCEPT ![c] = @ \/ registered[c] # None]
              /\ UNCHANGED answered
           \/ peer[c] \notin {"open", "finished"} /\ UNCHANGED <<peer, answered, edge>>
    BY <1>3, <2>1 DEF Send, Arm
  <2>3. /\ session' \in [Slot -> ClientSessions] /\ session'[s].answers = 0
        /\ session'[s].conn = session[s].conn /\ session'[s].m_Sock = session[s].m_Sock
    <3>1. PICK r : r = [session[s] EXCEPT !.answers = 0] OBVIOUS
    <3>2. /\ r \in ClientSessions /\ r.answers = 0 /\ r.m_Sock = session[s].m_Sock
          /\ r.conn = session[s].conn
      BY <1>1, <3>1 DEF ClientSessions
    <3>3. session' = [session EXCEPT ![s] = r] BY <2>2, <3>1
    <3> QED BY <3>2, <3>3 DEF SessionOf
  <2>4. SessionOf(c, s)' BY <2>3 DEF SessionOf
  <2>5. Fresh(c)' BY <1>1, <2>2 DEF Fresh
  <2>6. KernelOf(c, s)' /\ ((\A d \in Conn : registered[d] = None) =>
                              \A d \in Conn : edge'[d] = edge[d])
    <3>1. /\ edge' \in [Conn -> BOOLEAN] /\ \A d \in Conn : edge'[d] => registered[d] # None
          /\ (\A d \in Conn : registered[d] = None) => \A d \in Conn : edge'[d] = edge[d]
      BY <2>2 DEF KernelOf
    <3> QED BY <2>3, <3>1 DEF KernelOf
  <2>7. ASSUME peer \in [Conn -> {"none", "open"}]
        PROVE  /\ UNCHANGED <<peer, edge, fault>>
               /\ answered'[c] + session'[s].answers = answered[c] + session[s].answers
               /\ answered'[c] >= answered[c]
    <3>1. peer[c] = "open" /\ answered \in [Conn -> Nat] BY <2>7 DEF Fresh
    <3>2. answered'[c] = answered[c] + session[s].answers /\ UNCHANGED <<peer, edge, fault>>
      BY <2>2, <3>1
    <3> QED BY <1>1, <2>3, <3>1, <3>2
  <2> QED BY <2>2, <2>3, <2>4, <2>5, <2>6, <2>7
<1> QED BY <1>2, <1>3

LEMMA ClientWorkerSendStep ==
  ASSUME NEW c \in Conn, NEW s \in Slot, Sound(c, s), NEW w \in Worker \ {Main},
         WorkerSend(w), UNCHANGED client
  PROVE  Sound(c, s)' /\ (polite /\ Orderly(c, s) => Orderly(c, s)')
<1> USE Constants DEF Sound
<1>1. pc[w] = "SEND" /\ op[w].slot = s BY DEF WorkerSend, OpsOf, ClientOps
<1>2. /\ UNCHANGED <<file, listenEdge, registered, m_FreeList, freeIDs, active, events, queue, op>>
      /\ UNCHANGED <<msgs, mainPc, msg, notified, m_Connected, m_pSession>>
      /\ Send(s) /\ Goto(w, "idle")
  BY <1>1 DEF WorkerSend, mgr, main, client
<1>3. /\ Fresh(c)' /\ KernelOf(c, s)' /\ SessionOf(c, s)'
      /\ session'[s].m_Sock = session[s].m_Sock
      /\ UNCHANGED <<polite, sent, unread>>
      /\ peer \in [Conn -> {"none", "open"}] =>
           /\ UNCHANGED <<peer, edge, fault>>
           /\ answered'[c] + session'[s].answers = answered[c] + session[s].answers
           /\ answered'[c] >= answered[c]
  BY <1>2, ClientSend
<1>4. /\ pc'[w] = "idle" /\ pc'[Main] = pc[Main]
      /\ \A v \in Worker \ {w} : pc'[v] = pc[v]
      /\ pc' \in [Worker -> ClientLabel \cup MainLabels]
  <2>1. "idle" \in ClientLabel BY DEF ClientLabel
  <2> QED BY <1>2, <2>1, WorkerGoto
<1>5. pc[Main] \notin {"NOTIFY", "REGISTER"} BY <1>1 DEF Connecting, NoOps
<1>6. OpsOf(c, s)' BY <1>2, <1>4 DEF OpsOf, ClientLabel
<1>7. MainOf(c, s)' BY <1>2, <1>4 DEF MainOf
<1>8. Connecting' BY <1>4, <1>5 DEF Connecting
<1>9. Open(c, s)' <=> Open(c, s) BY <1>2, <1>3 DEF Open
<1>10. Greeting(c, s)' /\ ToldOf(c, s)' BY <1>2, <1>4, <1>9 DEF Greeting, ToldOf
<1>11. ASSUME polite, Orderly(c, s) PROVE Orderly(c, s)'
  <2> USE <1>11 DEF Orderly
  <2>1. /\ UNCHANGED <<peer, edge, fault>>
        /\ answered'[c] + session'[s].answers = answered[c] + session[s].answers
        /\ answered'[c] >= answered[c]
    BY <1>3 DEF OneEach
  <2>2. /\ sent[c] \in Nat /\ answered[c] \in Nat /\ answered'[c] \in Nat
        /\ session[s].answers \in Nat /\ session'[s].answers \in Nat
    BY <1>3 DEF Fresh, SessionOf, ClientSessions
  <2>3. OneEach(c, s)'
    <3>1. Unanswered' <=> Unanswered BY <1>2, <1>4 DEF Unanswered
    <3>2. ASSUME Unanswered PROVE answered'[c] = 0 /\ session'[s].answers = 0
      <4>1. answered[c] = 0 /\ session[s].answers = 0 BY <3>2 DEF OneEach
      <4> QED BY <2>1, <2>2, <4>1
    <3>3. /\ unread'[c] <= sent'[c] /\ sent'[c] <= answered'[c]
          /\ answered'[c] + session'[s].answers <= 1
      BY <1>3, <2>1, <2>2 DEF OneEach
    <3> QED BY <2>1, <3>1, <3>2, <3>3 DEF OneEach
  <2>4. RecvLast(c)' BY <1>2, <1>3, <1>4, <2>1 DEF RecvLast
  <2>5. PoolOf(c, s)' BY <1>2, <1>4, <1>9 DEF PoolOf
  <2>6. Disconnecting(c, s)'
    <3>1. ~(Received \/ ~Open(c, s) \/ mainPc = "exit") BY <1>1 DEF Disconnecting, NoOps
    <3>2. ~(Received' \/ ~Open(c, s)' \/ mainPc' = "exit") BY <1>2, <1>4, <1>9, <3>1 DEF Received
    <3> QED BY <1>2, <1>4, <1>9, <3>1, <3>2 DEF Disconnecting
  <2> QED BY <2>3, <2>4, <2>5, <2>6
<1> QED BY <1>3, <1>6, <1>7, <1>8, <1>10, <1>11

LEMMA ClientMainSendStep ==
  ASSUME NEW c \in Conn, NEW s \in Slot, Sound(c, s), MainSend, UNCHANGED client
  PROVE  Sound(c, s)' /\ (polite /\ Orderly(c, s) => Orderly(c, s)')
<1> USE Constants DEF Sound
<1>1. mainPc = "Complete" /\ mainPc' = "wait" /\ msg.slot = s
  BY DEF MainSend, MainOf, InSendMsg
<1>2. /\ UNCHANGED <<file, listenEdge, registered, m_FreeList, freeIDs, active, events, queue, op>>
      /\ UNCHANGED <<pc, msgs, msg, notified, m_Connected, m_pSession>>
      /\ Send(s)
  BY <1>1 DEF MainSend, mgr, client
<1>3. /\ Fresh(c)' /\ KernelOf(c, s)' /\ SessionOf(c, s)'
      /\ session'[s].m_Sock = session[s].m_Sock
      /\ UNCHANGED <<polite, sent, unread>>
      /\ peer \in [Conn -> {"none", "open"}] =>
           /\ UNCHANGED <<peer, edge, fault>>
           /\ answered'[c] + session'[s].answers = answered[c] + session[s].answers
           /\ answered'[c] >= answered[c]
  BY <1>2, ClientSend
<1>4. pc[Main] = "idle" BY <1>1 DEF MainOf, MainLabels
<1>5. MainOf(c, s)' BY <1>1, <1>2, <1>4 DEF MainOf, InSendMsg
<1>6. Connecting' BY <1>2, <1>4 DEF Connecting
<1>7. Open(c, s)' <=> Open(c, s) BY <1>2, <1>3 DEF Open
<1>8. Greeting(c, s)' /\ ToldOf(c, s)' BY <1>2, <1>7 DEF Greeting, ToldOf
<1>9. OpsOf(c, s)' BY <1>2, FrameOpsOf
<1>10. ASSUME polite, Orderly(c, s) PROVE Orderly(c, s)'
  <2> USE <1>10 DEF Orderly
  <2>1. /\ UNCHANGED <<peer, edge, fault>>
        /\ answered'[c] + session'[s].answers = answered[c] + session[s].answers
        /\ answered'[c] >= answered[c]
    BY <1>3 DEF OneEach
  <2>2. /\ sent[c] \in Nat /\ answered[c] \in Nat /\ answered'[c] \in Nat
        /\ session[s].answers \in Nat /\ session'[s].answers \in Nat
    BY <1>3 DEF Fresh, SessionOf, ClientSessions
  <2>3. ~(msgs # << >> /\ msgs[1].type = "CONNECT")
    BY <1>1, EmptySeq DEF MainOf, InSendMsg, Greeting
  <2>4. OneEach(c, s)'
    <3>1. ~Unanswered' BY <1>1, <1>2, <1>4, <2>3 DEF Unanswered
    <3>2. /\ unread'[c] <= sent'[c] /\ sent'[c] <= answered'[c]
          /\ answered'[c] + session'[s].answers <= 1
      BY <1>3, <2>1, <2>2 DEF OneEach
    <3> QED BY <2>1, <3>1, <3>2 DEF OneEach
  <2>5. RecvLast(c)' BY <1>2, <1>3, <2>1 DEF RecvLast
  <2>6. PoolOf(c, s)' BY <1>1, <1>2, <1>7 DEF PoolOf
  <2>7. Disconnecting(c, s)'
    BY <1>1, <1>2, <1>3, <1>4, <1>7, <2>1 DEF Disconnecting, Received, NoOps
  <2> QED BY <2>4, <2>5, <2>6, <2>7
<1> QED BY <1>3, <1>5, <1>6, <1>8, <1>9, <1>10
-----------------------------------------------------------------------------
\* Recv adds a message for each that is in the receive buffer, while the socket is open.
Adds(c, s, k) ==
  /\ Len(msgs') = Len(msgs) + k /\ Len(notified'[c]) = Len(notified[c]) + k
  /\ \A i \in 1 .. Len(msgs) : msgs'[i] = msgs[i]
  /\ \A i \in 1 .. Len(notified[c]) : notified'[c][i] = notified[c][i]
  /\ \A i \in 1 .. k : /\ msgs'[Len(msgs) + i] = Reference(s, "RECV", c)
                       /\ notified'[c][Len(notified[c]) + i] = "RECV"
  /\ k > 0 => Open(c, s)

LEMMA ClientExtracted ==
  ASSUME NEW c \in Conn, NEW s \in Slot, Sound(c, s), NEW w \in Worker \ {Main}, Recv(w)
  PROVE  /\ msgs' \in Seq(ClientMsgs(c, s)) /\ notified' \in [Conn -> Seq(ClientNote)]
         /\ \A d \in Conn \ {c} : notified'[d] = notified[d]
         /\ \E k \in Nat : Adds(c, s, k)
<1> USE Constants DEF Sound
<1>1. pc[w] = "RECV" /\ op[w].slot = s BY DEF Recv, OpsOf, ClientOps
<1>2. /\ msgs \in Seq(ClientMsgs(c, s)) /\ notified \in [Conn -> Seq(ClientNote)]
      /\ unread \in [Conn -> Nat] /\ session[s].conn = c
  BY DEF Greeting, ToldOf, Fresh, SessionOf
<1>3. Len(msgs) \in Nat /\ Len(notified[c]) \in Nat BY <1>2, LenProperties
<1>4. CASE UNCHANGED <<msgs, notified>>
  <2>1. Adds(c, s, 0) BY <1>3, <1>4 DEF Adds
  <2> QED BY <1>2, <1>4, <2>1
<1>5. CASE ~UNCHANGED <<msgs, notified>>
  <2> DEFINE x == Extracted(s, Peer(s))
             k == Len(x)
             n == [i \in 1 .. k |-> "RECV"]
  <2>1. /\ Peer(s) # None /\ msgs' = msgs \o x
        /\ notified' = [notified EXCEPT ![c] = @ \o n]
    BY <1>1, <1>2, <1>5 DEF Recv
  <2>2. Peer(s) = c
    <3>1. session[s].m_Sock \in FD BY DEF SessionOf, ClientSessions
    <3> QED BY <2>1, <3>1 DEF Peer, KernelOf
  <2>3. Open(c, s) BY <2>2 DEF Open, Peer
  <2>4. x = [i \in 1 .. unread[c] |-> Reference(s, "RECV", c)] /\ unread[c] \in Nat
    BY <1>2, <2>2 DEF Extracted
  <2>5. Reference(s, "RECV", c) \in ClientMsgs(c, s) BY DEF ClientMsgs, Reference
  <2>6. /\ x \in Seq(ClientMsgs(c, s)) /\ k = unread[c]
        /\ \A i \in 1 .. k : x[i] = Reference(s, "RECV", c)
    <3> HIDE DEF x
    <3>1. x \in [1 .. unread[c] -> ClientMsgs(c, s)] BY <2>4, <2>5
    <3>2. x \in Seq(ClientMsgs(c, s)) BY <2>4, <3>1, SeqDef
    <3>3. Len(x) = unread[c] BY <2>4, <3>1, <3>2, LenProperties
    <3> QED BY <2>4, <3>2, <3>3
  <2> HIDE DEF x
  <2>7. k \in Nat BY <2>4, <2>6
  <2>8. n \in Seq(ClientNote) /\ Len(n) = k /\ \A i \in 1 .. k : n[i] = "RECV"
    <3> HIDE DEF k
    <3>1. n \in [1 .. k -> ClientNote] BY DEF ClientNote
    <3>2. n \in Seq(ClientNote) BY <2>7, <3>1, SeqDef
    <3>3. Len(n) = k BY <2>7, <3>1, <3>2, LenProperties
    <3> QED BY <3>2, <3>3
  <2> HIDE DEF n, k
  <2>9. Len(x) = k BY DEF k
  <2>10. /\ msgs' \in Seq(ClientMsgs(c, s)) /\ Len(msgs') = Len(msgs) + k
         /\ \A i \in 1 .. Len(msgs) + k :
              msgs'[i] = IF i <= Len(msgs) THEN msgs[i] ELSE x[i - Len(msgs)]
    <3>1. /\ msgs \o x \in Seq(ClientMsgs(c, s)) /\ Len(msgs \o x) = Len(msgs) + Len(x)
          /\ \A i \in 1 .. Len(msgs) + Len(x) :
               (msgs \o x)[i] = IF i <= Len(msgs) THEN msgs[i] ELSE x[i - Len(msgs)]
      BY <1>2, <2>6, ConcatProperties
    <3>2. msgs' = msgs \o x BY <2>1
    <3> QED BY <2>9, <3>1, <3>2
  <2> DEFINE a == notified[c]
             b == a \o n
  <2>11. a \in Seq(ClientNote) BY <1>2
  <2> HIDE DEF a
  <2>12. /\ b \in Seq(ClientNote) /\ Len(b) = Len(a) + k
         /\ \A i \in 1 .. Len(a) + k : b[i] = IF i <= Len(a) THEN a[i] ELSE n[i - Len(a)]
    BY <2>8, <2>11, ConcatProperties
  <2>13. notified' = [notified EXCEPT ![c] = b] BY <2>1 DEF a
  <2> HIDE DEF b
  <2>14. notified' \in [Conn -> Seq(ClientNote)] /\ notified'[c] = b
         /\ \A d \in Conn \ {c} : notified'[d] = notified[d]
    BY <1>2, <2>12, <2>13
  <2>15. \A i \in 1 .. Len(msgs) : msgs'[i] = msgs[i] BY <1>3, <2>7, <2>10
  <2>16. \A i \in 1 .. Len(a) : b[i] = a[i] BY <1>3, <2>7, <2>12 DEF a
  <2>17. ASSUME NEW i \in 1 .. k
         PROVE  msgs'[Len(msgs) + i] = Reference(s, "RECV", c) /\ b[Len(a) + i] = "RECV"
    <3>1. /\ Len(msgs) + i \in 1 .. Len(msgs) + k /\ ~(Len(msgs) + i <= Len(msgs))
          /\ (Len(msgs) + i) - Len(msgs) = i
          /\ Len(a) + i \in 1 .. Len(a) + k /\ ~(Len(a) + i <= Len(a))
          /\ (Len(a) + i) - Len(a) = i
      BY <1>3, <2>7 DEF a
    <3>2. msgs'[Len(msgs) + i] = x[i] BY <2>10, <3>1
    <3>3. b[Len(a) + i] = n[i] BY <2>12, <3>1
    <3> QED BY <2>6, <2>8, <3>2, <3>3 DEF k
  <2>18. Adds(c, s, k) BY <2>3, <2>10, <2>12, <2>14, <2>15, <2>16, <2>17 DEF a, Adds
  <2> QED BY <2>7, <2>10, <2>14, <2>18
<1> QED BY <1>4, <1>5

LEMMA ClientRecvStep ==
  ASSUME NEW c \in Conn, NEW s \in Slot, Sound(c, s), NEW w \in Worker \ {Main},
         Recv(w), UNCHANGED client
  PROVE  Sound(c, s)' /\ (OneWorker /\ polite /\ Orderly(c, s) => Orderly(c, s)')
<1> USE Constants DEF Sound
<1>1. pc[w] = "RECV" /\ op[w].slot = s /\ op[w].type = "RECV" BY DEF Recv, OpsOf, ClientOps
<1>2. /\ UNCHANGED <<polite, peer, sent, answered, file, listenEdge, registered, edge, events>>
      /\ UNCHANGED <<session, m_FreeList, freeIDs, op, mainPc, msg, fault, m_Connected>>
      /\ UNCHANGED m_pSession
      /\ Goto(w, "idle")
  BY DEF Recv, kernel, main, client
<1>3. session[s].conn = c /\ session[s].m_ID \in Slot /\ Peer(s) \in {None, c}
  BY DEF SessionOf, ClientSessions, KernelOf, Peer
<1>4. active' \in [Slot -> BOOLEAN] BY <1>1, <1>3 DEF Recv, SessionOf
<1>5. /\ unread' \in [Conn -> Nat] /\ unread'[c] \in {0, unread[c]}
      /\ \A d \in Conn \ {c} : unread'[d] = unread[d]
  <2>1. \/ unread' = unread
        \/ Peer(s) # None /\ unread' = [unread EXCEPT ![Peer(s)] = 0]
    BY <1>1 DEF Recv
  <2> QED BY <1>3, <2>1 DEF Fresh
<1>6. queue' = queue \/ (queue' = Append(queue, Reference(s, "CLOSE", c)) /\ peer[c] = "finished")
  <2>1. \/ queue' = queue
        \/ Peer(s) # None /\ peer[Peer(s)] = "finished" /\ queue' = AfterEnd(s)
    BY <1>1 DEF Recv
  <2> QED BY <1>3, <2>1 DEF AfterEnd
<1>7. PICK k \in Nat : Adds(c, s, k) BY ClientExtracted
<1> USE DEF Adds
<1>8. /\ msgs' \in Seq(ClientMsgs(c, s)) /\ notified' \in [Conn -> Seq(ClientNote)]
      /\ \A d \in Conn \ {c} : notified'[d] = notified[d]
  BY ClientExtracted
<1>9. Len(msgs) \in Nat /\ Len(notified[c]) \in Nat
  BY LenProperties DEF Greeting, ToldOf
<1> DEFINE n == Len(msgs)
           m == Len(notified[c])
<1>10. ASSUME NEW i \in 1 .. n + k
      PROVE  (i \in 1 .. n /\ msgs'[i] = msgs[i]) \/ (~(i <= n) /\ msgs'[i].type = "RECV")
  <2>1. CASE i <= n BY <1>7, <1>9, <2>1
  <2>2. CASE ~(i <= n)
    <3>1. i - n \in 1 .. k /\ n + (i - n) = i BY <1>9, <2>2
    <3>2. msgs'[i] = Reference(s, "RECV", c) BY <1>7, <3>1
    <3> QED BY <2>2, <3>2 DEF Reference
  <2> QED BY <2>1, <2>2
<1>11. ASSUME NEW i \in 1 .. m + k
      PROVE  \/ i \in 1 .. m /\ notified'[c][i] = notified[c][i]
             \/ ~(i <= m) /\ notified'[c][i] = "RECV"
  <2>1. CASE i <= m BY <1>7, <1>9, <2>1
  <2>2. CASE ~(i <= m)
    <3>1. i - m \in 1 .. k /\ m + (i - m) = i BY <1>9, <2>2
    <3> QED BY <1>7, <2>2, <3>1
  <2> QED BY <2>1, <2>2
<1>12. /\ pc'[w] = "idle" /\ pc'[Main] = pc[Main]
       /\ \A v \in Worker \ {w} : pc'[v] = pc[v]
       /\ pc' \in [Worker -> ClientLabel \cup MainLabels]
  <2>1. "idle" \in ClientLabel BY DEF ClientLabel
  <2> QED BY <1>2, <2>1, WorkerGoto
<1>13. pc[Main] \notin {"NOTIFY", "REGISTER"} BY <1>1 DEF Connecting, NoOps
<1>14. Fresh(c)' BY <1>2, <1>5 DEF Fresh
<1>15. KernelOf(c, s)' BY <1>2, FrameKernelOf
<1>16. SessionOf(c, s)' BY <1>2, <1>4 DEF SessionOf
<1>17. OpsOf(c, s)'
  <2>1. Reference(s, "CLOSE", c) \in ClientOps(c, s) BY DEF Reference, ClientOps
  <2>2. queue \in Seq(ClientOps(c, s)) BY DEF OpsOf
  <2>3. Append(queue, Reference(s, "CLOSE", c)) \in Seq(ClientOps(c, s))
    BY <2>1, <2>2, AppendProperties
  <2> QED BY <1>2, <1>6, <1>12, <2>2, <2>3 DEF OpsOf, ClientLabel
<1>18. n + k \in Nat /\ Len(msgs') = n + k /\ Len(notified'[c]) = m + k
  BY <1>7, <1>9
<1> HIDE DEF n, m
<1>19. MainOf(c, s)'
  <2>1. mainPc \in InSendMsg => \A i \in 1 .. n + k : msgs'[i].type # "CONNECT"
    BY <1>10 DEF MainOf, n
  <2> QED BY <1>2, <1>12, <1>18, <2>1 DEF MainOf
<1>20. Connecting' BY <1>12, <1>13 DEF Connecting
<1>21. msgs # << >> => msgs' # << >> /\ msgs'[1] = msgs[1] /\ n \in Nat \ {0}
  BY <1>7, <1>8, <1>9, <1>18, EmptySeq DEF Greeting, n
<1>22. Greeting(c, s)'
  <2>1. \A i \in 1 .. n + k : msgs'[i].type = "CONNECT" => i = 1 BY <1>10 DEF Greeting, n
  <2> QED BY <1>2, <1>8, <1>13, <1>18, <1>21, <2>1 DEF Greeting
<1>23. Open(c, s)' <=> Open(c, s) BY <1>2 DEF Open
<1>24. ToldOf(c, s)'
  <2>1. notified[c] # << >> /\ m \in Nat \ {0}
    BY <1>13, EmptySeq DEF ToldOf, m
  <2>2. ASSUME NEW i \in 1 .. m + k
        PROVE  /\ notified'[c][i] = "CONNECT" <=> i = 1
               /\ notified'[c][i] = "CLOSE" => i = m + k
               /\ Open(c, s) => notified'[c][i] # "CLOSE"
    <3>1. CASE i \in 1 .. m /\ notified'[c][i] = notified[c][i]
      <4>1. /\ notified[c][i] = "CONNECT" <=> i = 1
            /\ notified[c][i] = "CLOSE" => i = m
            /\ Open(c, s) => notified[c][i] # "CLOSE"
        BY <3>1 DEF ToldOf, m
      <4>2. k > 0 => Open(c, s) BY <1>7
      <4>3. k = 0 => m + k = m BY <2>1
      <4> QED BY <3>1, <4>1, <4>2, <4>3
    <3>2. CASE ~(i <= m) /\ notified'[c][i] = "RECV" BY <2>1, <3>2
    <3> QED BY <1>11, <3>1, <3>2 DEF m
  <2>3. notified'[c] # << >>
    <3>1. m + k # 0 BY <2>1
    <3> QED BY <1>18, <3>1
  <2>4. \A d \in Conn : \A i \in 1 .. Len(notified'[d]) :
          /\ notified'[d][i] = "CONNECT" <=> i = 1
          /\ notified'[d][i] = "CLOSE" => i = Len(notified'[d])
    <3> SUFFICES ASSUME NEW d \in Conn, NEW i \in 1 .. Len(notified'[d])
                 PROVE  /\ notified'[d][i] = "CONNECT" <=> i = 1
                        /\ notified'[d][i] = "CLOSE" => i = Len(notified'[d])
      OBVIOUS
    <3>1. CASE d = c BY <1>18, <2>2, <3>1
    <3>2. CASE d # c BY <1>8, <3>2 DEF ToldOf
    <3> QED BY <3>1, <3>2
  <2>5. \A d \in Conn : d > c => notified'[d] = << >> BY <1>8 DEF ToldOf
  <2>6. Open(c, s)' => \A i \in 1 .. Len(notified'[c]) : notified'[c][i] # "CLOSE"
    BY <1>18, <1>23, <2>2
  <2> QED BY <1>8, <1>12, <1>13, <2>3, <2>4, <2>5, <2>6 DEF ToldOf
<1>25. ASSUME OneWorker, polite, Orderly(c, s) PROVE Orderly(c, s)'
  <2> USE <1>25 DEF Orderly
  <2>1. peer[c] = "open" BY DEF OneEach, Fresh
  <2>2. queue' = queue BY <1>6, <2>1
  <2>3. sent[c] = 1 /\ queue = << >> /\ events = {} /\ ~edge[c] BY <1>1 DEF RecvLast
  <2>4. \A v \in Worker \ {Main} : v = w BY DEF OneWorker
  <2>5. NoOps'
    <3>1. \A d \in Conn : ~edge[d] BY <2>3 DEF KernelOf
    <3> QED BY <1>2, <1>12, <2>2, <2>3, <2>4, <3>1 DEF NoOps
  <2>6. ~(~Open(c, s) \/ mainPc = "exit") BY <1>1 DEF Disconnecting, NoOps
  <2>7. msgs = << >> /\ msgs' # << >> => msgs'[1].type # "CONNECT"
    <3> SUFFICES ASSUME msgs = << >>, msgs' # << >> PROVE msgs'[1].type # "CONNECT" OBVIOUS
    <3>1. n = 0 BY DEF n
    <3>2. Len(msgs') \in Nat \ {0} BY <1>8, EmptySeq
    <3>3. 1 \in 1 .. n + k /\ ~(1 \in 1 .. n) BY <1>18, <3>1, <3>2
    <3>4. msgs'[1].type = "RECV" BY <1>10, <3>3 DEF n
    <3> QED BY <3>4
  <2>8. OneEach(c, s)'
    <3>1. Unanswered' => Unanswered BY <1>2, <1>12, <1>21, <2>7 DEF Unanswered
    <3>2. unread'[c] <= sent[c] BY <1>5, <2>3 DEF OneEach
    <3> QED BY <1>2, <3>1, <3>2 DEF OneEach
  <2>9. PoolOf(c, s)' BY <1>2, <1>12, <1>23 DEF PoolOf
  <2>10. RecvLast(c)' BY <1>2, <1>12, <2>2, <2>3, <2>4 DEF RecvLast
  <2>11. Disconnecting(c, s)'
    <3>1. \A i \in 1 .. n + k : msgs'[i].type # "CLOSE"
      BY <1>10, <2>6 DEF Disconnecting, n
    <3> QED BY <1>2, <1>12, <1>13, <1>18, <1>21, <1>23, <2>3, <2>5, <2>6, <3>1 DEF Disconnecting
  <2> QED BY <2>8, <2>9, <2>10, <2>11
<1> QED BY <1>14, <1>15, <1>16, <1>17, <1>19, <1>20, <1>22, <1>24, <1>25
-----------------------------------------------------------------------------
\* Close, by a worker for an operation or by the main thread in Disconnect.
LEMMA AnyGoto ==
  ASSUME NEW c, NEW s, MainOf(c, s), NEW v \in Worker, NEW l \in ClientLabel \cup MainLabels,
         Goto(v, l)
  PROVE  /\ pc'[v] = l /\ \A u \in Worker \ {v} : pc'[u] = pc[u]
         /\ pc' \in [Worker -> ClientLabel \cup MainLabels]
  BY DEF MainOf, Goto

\* What thread v may have to close is s.
LEMMA ToClose ==
  ASSUME NEW c \in Conn, NEW s \in Slot, OpsOf(c, s), MainOf(c, s), NEW v \in Worker,
         pc[v] \in {"CLOSE", "ERROR", "DESTROY", "UNLOCK"}
  PROVE  /\ op[v].slot = s
         /\ v = Main => pc[v] # "ERROR" /\ mainPc = "wait" /\ op[v] = Reference(s, "CLOSE", c)
         /\ v # Main => op[v] \in ClientOps(c, s)
  BY DEF OpsOf, MainOf, MainLabels, ClientOps, Reference

LEMMA ClientCloseStep ==
  ASSUME NEW c \in Conn, NEW s \in Slot, Sound(c, s), NEW v \in Worker, Close(v), UNCHANGED client
  PROVE  Sound(c, s)' /\ (polite /\ Orderly(c, s) => Orderly(c, s)')
<1> USE Constants DEF Sound
<1>1. pc[v] \in {"CLOSE", "ERROR"} BY DEF Close
<1>2. /\ op[v].slot = s
      /\ v = Main => pc[v] = "CLOSE" /\ mainPc = "wait" /\ op[v] = Reference(s, "CLOSE", c)
      /\ v # Main => op[v] \in ClientOps(c, s)
  BY <1>1, ToClose
<1>3. /\ UNCHANGED <<polite, peer, sent, answered, unread, listenEdge, events, queue, session>>
      /\ UNCHANGED <<m_FreeList, freeIDs, op, mainPc, msg, fault, m_Connected, m_pSession>>
      /\ active' = [active EXCEPT ![session[s].m_ID] = FALSE]
  BY <1>2 DEF Close, net, main, client
<1>4. /\ session[s].conn = c /\ session[s].m_Sock \in FD /\ Peer(s) \in {None, c}
      /\ (Open(c, s) <=> Peer(s) = c)
  BY DEF SessionOf, ClientSessions, KernelOf, Peer, Open
<1>5. pc[Main] \notin {"NOTIFY", "REGISTER"} BY <1>1, <1>2 DEF Connecting, NoOps
<1>6. SessionOf(c, s)' BY <1>3 DEF SessionOf
<1>7. Fresh(c)' BY <1>3, FrameFresh
<1>8. \/ /\ ~Open(c, s) /\ Goto(v, "idle") /\ UNCHANGED <<file, registered, edge, msgs, notified>>
      \/ /\ Open(c, s) /\ Goto(v, "DESTROY")
         /\ file' = [file EXCEPT ![session[s].m_Sock] = None]
         /\ registered' = [registered EXCEPT ![c] = None]
         /\ edge' = [edge EXCEPT ![c] = FALSE]
         /\ msgs' = Append(msgs, Reference(None, "CLOSE", c))
         /\ notified' = [notified EXCEPT ![c] = Append(@, "CLOSE")]
  BY <1>2, <1>4 DEF Close, SocketClosed, Notify
<1>9. PICK l \in {"idle", "DESTROY"} : Goto(v, l) /\ (Open(c, s) <=> l = "DESTROY") BY <1>8
<1>10. /\ pc'[v] = l /\ \A u \in Worker \ {v} : pc'[u] = pc[u]
       /\ pc' \in [Worker -> ClientLabel \cup MainLabels]
  <2>1. l \in ClientLabel \cup MainLabels BY DEF ClientLabel, MainLabels
  <2> QED BY <1>9, <2>1, AnyGoto
<1>11. OpsOf(c, s)' BY <1>2, <1>3, <1>10 DEF OpsOf, ClientLabel
<1>12. \A i \in 1 .. Len(msgs') :
         \/ i \in 1 .. Len(msgs) /\ msgs'[i] = msgs[i]
         \/ Open(c, s) /\ msgs'[i].type = "CLOSE"
  <2>1. CASE UNCHANGED msgs BY <2>1
  <2>2. CASE ~UNCHANGED msgs
    <3>1. Open(c, s) /\ msgs' = Append(msgs, Reference(None, "CLOSE", c)) BY <1>8, <2>2
    <3>2. msgs \in Seq(ClientMsgs(c, s)) /\ Len(msgs) \in Nat
      BY LenProperties DEF Greeting
    <3>3. Reference(None, "CLOSE", c) \in ClientMsgs(c, s) /\ Reference(None, "CLOSE", c).type = "CLOSE"
      BY DEF ClientMsgs, Reference
    <3>4. /\ Len(msgs') = Len(msgs) + 1 /\ msgs'[Len(msgs) + 1] = Reference(None, "CLOSE", c)
          /\ \A i \in 1 .. Len(msgs) : msgs'[i] = msgs[i]
      BY <3>1, <3>2, <3>3, AppendProperties
    <3> QED BY <3>1, <3>2, <3>3, <3>4
  <2> QED BY <2>1, <2>2
<1>13. /\ msgs' \in Seq(ClientMsgs(c, s))
       /\ msgs # << >> => msgs' # << >> /\ msgs'[1] = msgs[1]
  <2>1. msgs \in Seq(ClientMsgs(c, s)) BY DEF Greeting
  <2>2. CASE UNCHANGED msgs BY <2>1, <2>2
  <2>3. CASE msgs' = Append(msgs, Reference(None, "CLOSE", c))
    <3>1. Reference(None, "CLOSE", c) \in ClientMsgs(c, s) BY DEF ClientMsgs, Reference
    <3>2. /\ msgs' \in Seq(ClientMsgs(c, s)) /\ Len(msgs') = Len(msgs) + 1
          /\ \A i \in 1 .. Len(msgs) : msgs'[i] = msgs[i]
      BY <2>1, <2>3, <3>1, AppendProperties
    <3>3. msgs # << >> => Len(msgs) \in Nat \ {0} BY <2>1, EmptySeq
    <3>4. Len(msgs) \in Nat BY <2>1, LenProperties
    <3>5. Len(msgs') # 0 BY <3>2, <3>4
    <3> QED BY <3>2, <3>3, <3>5, EmptySeq
  <2> QED BY <1>8, <2>2, <2>3
<1>14. MainOf(c, s)'
  <2>1. mainPc \in InSendMsg => \A i \in 1 .. Len(msgs') : msgs'[i].type # "CONNECT"
    BY <1>12 DEF MainOf
  <2>2. v = Main => mainPc \notin InSendMsg BY <1>2 DEF InSendMsg
  <2> QED BY <1>2, <1>3, <1>5, <1>10, <2>1, <2>2, ClientAssumption DEF MainOf, MainLabels
<1>15. pc'[Main] \notin {"NOTIFY", "REGISTER"} BY <1>5, <1>10, ClientAssumption
<1>16. Connecting' BY <1>15 DEF Connecting
<1>17. Greeting(c, s)'
  <2>1. \A i \in 1 .. Len(msgs') : msgs'[i].type = "CONNECT" => i = 1 BY <1>12 DEF Greeting
  <2> QED BY <1>3, <1>5, <1>13, <2>1 DEF Greeting
<1>18. KernelOf(c, s)' /\ ~Open(c, s)'
  <2>1. CASE ~Open(c, s)
    <3>1. UNCHANGED <<file, registered, edge>> BY <1>8, <2>1
    <3> QED BY <1>3, <2>1, <3>1, FrameKernelOf DEF Open
  <2>2. CASE Open(c, s)
    <3>1. /\ file' = [file EXCEPT ![session[s].m_Sock] = None]
          /\ registered' = [registered EXCEPT ![c] = None]
          /\ edge' = [edge EXCEPT ![c] = FALSE]
      BY <1>8, <2>2
    <3>2. file'[session[s].m_Sock] = None BY <1>4, <3>1 DEF KernelOf
    <3>3. ~Open(c, s)' BY <1>3, <3>2 DEF Open
    <3>4. KernelOf(c, s)' BY <1>3, <1>4, <3>1 DEF KernelOf
    <3> QED BY <3>3, <3>4
  <2> QED BY <2>1, <2>2
<1>19. ToldOf(c, s)'
  <2>1. CASE ~Open(c, s)
    <3>1. UNCHANGED notified BY <1>8, <2>1
    <3> QED BY <1>5, <1>15, <1>18, <3>1 DEF ToldOf
  <2>2. CASE Open(c, s)
    <3> DEFINE m == Len(notified[c])
               b == Append(notified[c], "CLOSE")
    <3>1. notified[c] \in Seq(ClientNote) /\ "CLOSE" \in ClientNote BY DEF ToldOf, ClientNote
    <3>2. m \in Nat \ {0} BY <1>5, <3>1, EmptySeq DEF ToldOf
    <3>3. /\ b \in Seq(ClientNote) /\ Len(b) = m + 1 /\ b[m + 1] = "CLOSE"
          /\ \A i \in 1 .. m : b[i] = notified[c][i]
      BY <3>1, AppendProperties
    <3>4. notified' = [notified EXCEPT ![c] = b] BY <1>8, <2>2
    <3> HIDE DEF b
    <3>5. /\ notified' \in [Conn -> Seq(ClientNote)] /\ notified'[c] = b
          /\ \A d \in Conn \ {c} : notified'[d] = notified[d]
      BY <3>3, <3>4 DEF ToldOf
    <3>6. b # << >>
      <4>1. Len(b) # 0 BY <3>2, <3>3
      <4> QED BY <4>1
    <3>7. ASSUME NEW i \in 1 .. m + 1
          PROVE  (b[i] = "CONNECT" <=> i = 1) /\ (b[i] = "CLOSE" => i = m + 1)
      <4>1. CASE i \in 1 .. m
        <5>1. (notified[c][i] = "CONNECT" <=> i = 1) /\ notified[c][i] # "CLOSE"
          BY <2>2, <4>1 DEF ToldOf
        <5> QED BY <3>3, <4>1, <5>1
      <4>2. CASE i = m + 1 BY <3>2, <3>3, <4>2
      <4> QED BY <3>2, <4>1, <4>2
    <3>8. \A d \in Conn : \A i \in 1 .. Len(notified'[d]) :
            /\ notified'[d][i] = "CONNECT" <=> i = 1
            /\ notified'[d][i] = "CLOSE" => i = Len(notified'[d])
      <4> SUFFICES ASSUME NEW d \in Conn, NEW i \in 1 .. Len(notified'[d])
                   PROVE  /\ notified'[d][i] = "CONNECT" <=> i = 1
                          /\ notified'[d][i] = "CLOSE" => i = Len(notified'[d])
        OBVIOUS
      <4>1. CASE d = c BY <3>3, <3>5, <3>7, <4>1
      <4>2. CASE d # c BY <3>5, <4>2 DEF ToldOf
      <4> QED BY <4>1, <4>2
    <3>9. \A d \in Conn : d > c => notified'[d] = << >> BY <3>5 DEF ToldOf
    <3> QED BY <1>15, <1>18, <3>5, <3>6, <3>8, <3>9 DEF ToldOf
  <2> QED BY <2>1, <2>2
<1>20. ASSUME polite, Orderly(c, s) PROVE Orderly(c, s)'
  <2> USE <1>20 DEF Orderly
  <2>1. v = Main /\ pc[Main] = "CLOSE" /\ mainPc = "wait" BY <1>1, <1>2 DEF RecvLast
  <2>2. Received /\ NoOps /\ sent[c] = 1 BY <2>1 DEF Received, Disconnecting
  <2>3. pc'[Main] = l /\ \A u \in Worker \ {Main} : pc'[u] = pc[u] BY <1>10, <2>1
  <2>4. \A d \in Conn : ~edge'[d]
    <3>1. edge' = edge \/ edge' = [edge EXCEPT ![c] = FALSE] BY <1>8
    <3> QED BY <2>2, <3>1 DEF NoOps, KernelOf
  <2>5. NoOps' BY <1>3, <2>2, <2>3, <2>4 DEF NoOps
  <2>6. msgs = << >> /\ msgs' # << >> => msgs'[1].type # "CONNECT"
    <3> SUFFICES ASSUME msgs = << >>, msgs' # << >> PROVE msgs'[1].type # "CONNECT" OBVIOUS
    <3>1. Len(msgs) = 0 /\ Len(msgs') \in Nat \ {0} BY <1>13, EmptySeq
    <3>2. 1 \in 1 .. Len(msgs') /\ ~(1 \in 1 .. Len(msgs)) BY <3>1
    <3> QED BY <1>12, <3>2
  <2>7. OneEach(c, s)'
    <3>1. Unanswered' => Unanswered BY <1>3, <1>13, <1>15, <2>6 DEF Unanswered
    <3> QED BY <1>3, <3>1 DEF OneEach
  <2>8. PoolOf(c, s)' BY <1>3, <1>9, <1>18, <2>1, <2>3 DEF PoolOf
  <2>9. RecvLast(c)' BY <2>5, EmptySeq DEF RecvLast, NoOps
  <2>10. registered'[c] = None
    <3>1. ~Open(c, s) => registered' = registered /\ registered[c] = None
      BY <1>8 DEF Disconnecting
    <3>2. Open(c, s) => registered'[c] = None BY <1>8 DEF KernelOf
    <3> QED BY <3>1, <3>2
  <2>11. Disconnecting(c, s)' BY <1>3, <1>15, <1>18, <2>1, <2>2, <2>5, <2>10 DEF Disconnecting
  <2> QED BY <2>7, <2>8, <2>9, <2>11
<1> QED BY <1>6, <1>7, <1>11, <1>14, <1>16, <1>17, <1>18, <1>19, <1>20

LEMMA ClientDestroyStep ==
  ASSUME NEW c \in Conn, NEW s \in Slot, Sound(c, s), NEW v \in Worker, DestroySession(v),
         UNCHANGED client
  PROVE  Sound(c, s)' /\ (polite /\ Orderly(c, s) => Orderly(c, s)')
<1> USE Constants DEF Sound
<1>1. pc[v] = "DESTROY" BY DEF DestroySession
<1>2. /\ op[v].slot = s
      /\ v = Main => mainPc = "wait" /\ op[v] = Reference(s, "CLOSE", c)
      /\ v # Main => op[v] \in ClientOps(c, s)
  BY <1>1, ToClose
<1>3. /\ UNCHANGED <<polite, peer, sent, answered, unread, file, listenEdge, registered, edge>>
      /\ UNCHANGED <<events, queue, session, op, msgs, mainPc, msg, fault, notified>>
      /\ UNCHANGED <<m_Connected, m_pSession>>
      /\ active' = [active EXCEPT ![session[s].m_ID] = FALSE]
      /\ freeIDs' = <<session[s].m_ID>> \o freeIDs /\ m_FreeList' = <<s>> \o m_FreeList
      /\ Goto(v, "UNLOCK")
  BY <1>2 DEF DestroySession, net, kernel, main, client
<1>4. /\ pc'[v] = "UNLOCK" /\ \A u \in Worker \ {v} : pc'[u] = pc[u]
      /\ pc' \in [Worker -> ClientLabel \cup MainLabels]
  <2>1. "UNLOCK" \in ClientLabel \cup MainLabels BY DEF ClientLabel
  <2> QED BY <1>3, <2>1, AnyGoto
<1>5. pc[Main] \notin {"NOTIFY", "REGISTER"} BY <1>1 DEF Connecting, NoOps
<1>6. pc'[Main] \notin {"NOTIFY", "REGISTER"} BY <1>4, <1>5, ClientAssumption
<1>7. OpsOf(c, s)' BY <1>1, <1>2, <1>3, <1>4 DEF OpsOf, ClientLabel
<1>8. MainOf(c, s)'
  BY <1>1, <1>2, <1>3, <1>4, <1>6, ClientAssumption DEF MainOf, MainLabels
<1>9. Connecting' BY <1>6 DEF Connecting
<1>10. Greeting(c, s)' /\ ToldOf(c, s)' BY <1>3, <1>5, <1>6 DEF Greeting, ToldOf, Open
<1>11. SessionOf(c, s)' BY <1>3 DEF SessionOf
<1>12. Fresh(c)' /\ KernelOf(c, s)' BY <1>3, FrameFresh, FrameKernelOf
<1>13. ASSUME polite, Orderly(c, s) PROVE Orderly(c, s)'
  <2> USE <1>13 DEF Orderly
  <2>1. v = Main /\ pc[Main] = "DESTROY" /\ mainPc = "wait" BY <1>1, <1>2 DEF RecvLast
  <2>2. pc'[Main] = "UNLOCK" /\ \A u \in Worker \ {Main} : pc'[u] = pc[u] BY <1>4, <2>1
  <2>3. ~Open(c, s) /\ ~Open(c, s)' BY <1>3, <2>1 DEF Disconnecting, Open
  <2>4. OneEach(c, s)' BY <1>3, <2>1, <2>2 DEF OneEach, Unanswered
  <2>5. RecvLast(c)' BY <1>3, <2>2 DEF RecvLast
  <2>6. Disconnecting(c, s)'
    <3>1. Received' => Received BY <1>3, <2>2 DEF Received
    <3>2. NoOps => NoOps' BY <1>3, <2>2 DEF NoOps
    <3> QED BY <1>3, <2>1, <2>2, <2>3, <3>1, <3>2 DEF Disconnecting
  <2>7. PoolOf(c, s)'
    <3>1. /\ m_FreeList \in Seq(Slot) /\ freeIDs \in Seq(Slot) /\ Len(freeIDs) = Len(m_FreeList)
          /\ Distinct(m_FreeList) /\ Elems(m_FreeList) = Slot \ {s}
      BY <2>1 DEF PoolOf
    <3>2. session[s].m_ID \in Slot BY DEF SessionOf, ClientSessions
    <3>3. /\ m_FreeList' \in Seq(Slot) /\ Elems(m_FreeList') = Slot /\ Distinct(m_FreeList')
      <4> DEFINE l == <<s>> \o m_FreeList
      <4>1. l \in Seq(Slot) /\ Elems(l) = Elems(m_FreeList) \cup {s} BY <3>1, ConsElems
      <4>2. s \notin Elems(m_FreeList) /\ Elems(m_FreeList) \cup {s} = Slot BY <3>1
      <4>3. Distinct(l) BY <3>1, <4>2, ConsElems
      <4>4. m_FreeList' = l BY <1>3
      <4> HIDE DEF l
      <4> QED BY <4>1, <4>2, <4>3, <4>4
    <3>4. freeIDs' \in Seq(Slot) BY <1>3, <3>1, <3>2, ConsElems
    <3>5. Len(m_FreeList') = 1 + Len(m_FreeList) /\ Len(freeIDs') = 1 + Len(freeIDs)
      <4>1. \A x \in Slot : \A q \in Seq(Slot) : Len(<<x>> \o q) = 1 + Len(q)
        <5> SUFFICES ASSUME NEW x \in Slot, NEW q \in Seq(Slot) PROVE Len(<<x>> \o q) = 1 + Len(q)
          OBVIOUS
        <5>1. <<x>> \in Seq(Slot) /\ Len(<<x>>) = 1 OBVIOUS
        <5> QED BY <5>1, ConcatProperties
      <4> QED BY <1>3, <3>1, <3>2, <4>1
    <3> QED BY <2>2, <2>3, <3>1, <3>3, <3>4, <3>5 DEF PoolOf
  <2> QED BY <2>4, <2>5, <2>6, <2>7
<1> QED BY <1>7, <1>8, <1>9, <1>10, <1>11, <1>12, <1>13

LEMMA ClientUnLockStep ==
  ASSUME NEW c \in Conn, NEW s \in Slot, Sound(c, s), NEW v \in Worker, UnLock(v), UNCHANGED client
  PROVE  Sound(c, s)' /\ (polite /\ Orderly(c, s) => Orderly(c, s)')
<1> USE Constants DEF Sound
<1>1. pc[v] = "UNLOCK" BY DEF UnLock
<1>2. v = Main => mainPc = "wait" BY <1>1, ToClose
<1>3. /\ UNCHANGED <<polite, peer, sent, answered, unread, file, listenEdge, registered, edge>>
      /\ UNCHANGED <<events, queue, session, op, m_FreeList, freeIDs, active, msgs, mainPc, msg>>
      /\ UNCHANGED <<fault, notified, m_Connected, m_pSession>>
      /\ Goto(v, "idle")
  BY DEF UnLock, net, kernel, mgr, main, client
<1>4. /\ pc'[v] = "idle" /\ \A u \in Worker \ {v} : pc'[u] = pc[u]
      /\ pc' \in [Worker -> ClientLabel \cup MainLabels]
  <2>1. "idle" \in ClientLabel \cup MainLabels BY DEF ClientLabel
  <2> QED BY <1>3, <2>1, AnyGoto
<1>5. pc[Main] \notin {"NOTIFY", "REGISTER"} BY <1>1 DEF Connecting, NoOps
<1>6. pc'[Main] \notin {"NOTIFY", "REGISTER"} BY <1>4, <1>5, ClientAssumption
<1>7. OpsOf(c, s)' BY <1>3, <1>4 DEF OpsOf, ClientLabel
<1>8. MainOf(c, s)' BY <1>1, <1>2, <1>3, <1>4, <1>6, ClientAssumption DEF MainOf, MainLabels
<1>9. Connecting' BY <1>6 DEF Connecting
<1>10. Greeting(c, s)' /\ ToldOf(c, s)' BY <1>3, <1>5, <1>6 DEF Greeting, ToldOf, Open
<1>11. Fresh(c)' /\ KernelOf(c, s)' /\ SessionOf(c, s)'
  BY <1>3, FrameFresh, FrameKernelOf, FrameSessionOf
<1>12. ASSUME polite, Orderly(c, s) PROVE Orderly(c, s)'
  <2> USE <1>12 DEF Orderly
  <2>1. v = Main /\ pc[Main] = "UNLOCK" /\ mainPc = "wait" BY <1>1, <1>2 DEF RecvLast
  <2>2. pc'[Main] = "idle" /\ \A u \in Worker \ {Main} : pc'[u] = pc[u] BY <1>4, <2>1
  <2>3. ~Open(c, s) /\ ~Open(c, s)' BY <1>3, <2>1 DEF Disconnecting, Open
  <2>4. OneEach(c, s)' BY <1>3, <2>1, <2>2 DEF OneEach, Unanswered
  <2>5. RecvLast(c)' BY <1>3, <2>2 DEF RecvLast
  <2>6. Disconnecting(c, s)'
    <3>1. Received' => Received BY <1>3, <2>2 DEF Received
    <3>2. NoOps => NoOps' BY <1>3, <2>2 DEF NoOps
    <3> QED BY <1>3, <2>1, <2>2, <2>3, <3>1, <3>2 DEF Disconnecting
  <2>7. PoolOf(c, s)' BY <1>3, <2>1, <2>2, <2>3 DEF PoolOf
  <2> QED BY <2>4, <2>5, <2>6, <2>7
<1> QED BY <1>7, <1>8, <1>9, <1>10, <1>11, <1>12
-----------------------------------------------------------------------------
\* TCPStream::Connect after CreateSession.
LEMMA ClientInsertMsgStep ==
  ASSUME NEW c \in Conn, NEW s \in Slot, Sound(c, s), InsertSimpleMsg(Main), UNCHANGED client
  PROVE  Sound(c, s)' /\ (polite /\ Orderly(c, s) => Orderly(c, s)')
<1> USE Constants DEF Sound
<1> DEFINE r == Reference(s, "CONNECT", c)
<1>1. /\ pc[Main] = "NOTIFY" /\ mainPc = "Connect" /\ op[Main] = r
      /\ NoOps /\ msgs = << >> /\ \A d \in Conn : registered[d] = None
  BY DEF InsertSimpleMsg, MainOf, Connecting
<1>2. r.conn = c /\ r.type = "CONNECT" /\ r.slot = s /\ r \in ClientMsgs(c, s)
  BY DEF Reference, ClientMsgs
<1>3. /\ UNCHANGED <<polite, peer, sent, answered, unread, file, listenEdge, registered, edge>>
      /\ UNCHANGED <<events, queue, session, m_FreeList, freeIDs, active, op, mainPc, msg, fault>>
      /\ UNCHANGED <<m_Connected, m_pSession>>
      /\ msgs' = Append(msgs, r) /\ Goto(Main, "REGISTER")
      /\ notified' = [notified EXCEPT ![c] = Append(@, "CONNECT")]
  BY <1>1, <1>2 DEF InsertSimpleMsg, After, Notify, net, kernel, mgr, main, client
<1>4. /\ pc'[Main] = "REGISTER" /\ \A u \in Worker \ {Main} : pc'[u] = pc[u]
      /\ pc' \in [Worker -> ClientLabel \cup MainLabels]
  <2>1. "REGISTER" \in ClientLabel \cup MainLabels BY DEF MainLabels
  <2> QED BY <1>3, <2>1, AnyGoto, ClientAssumption
<1>5. /\ msgs' \in Seq(ClientMsgs(c, s)) /\ Len(msgs') = 1 /\ msgs'[1] = r /\ msgs' # << >>
  <2>1. msgs' = <<r>> BY <1>1, <1>3
  <2> QED BY <1>2, <2>1
<1>6. /\ notified' \in [Conn -> Seq(ClientNote)] /\ notified'[c] = <<"CONNECT">>
      /\ \A d \in Conn \ {c} : notified'[d] = notified[d]
  <2>1. notified[c] = << >> BY <1>1 DEF ToldOf
  <2>2. <<"CONNECT">> \in Seq(ClientNote) BY DEF ClientNote
  <2>3. notified' = [notified EXCEPT ![c] = <<"CONNECT">>] BY <1>3, <2>1
  <2> QED BY <2>2, <2>3 DEF ToldOf
<1>7. OpsOf(c, s)' BY <1>3, <1>4 DEF OpsOf
<1>8. MainOf(c, s)' BY <1>1, <1>3, <1>4 DEF MainOf, MainLabels, InSendMsg
<1>9. NoOps' BY <1>1, <1>3, <1>4 DEF NoOps
<1>10. Connecting' BY <1>1, <1>3, <1>4, <1>9 DEF Connecting
<1>11. Greeting(c, s)' BY <1>2, <1>5 DEF Greeting
<1>12. ToldOf(c, s)'
  <2>1. /\ Len(notified'[c]) = 1 /\ notified'[c][1] = "CONNECT" /\ notified'[c] # << >>
    BY <1>6
  <2>2. \A d \in Conn : \A i \in 1 .. Len(notified'[d]) :
          /\ notified'[d][i] = "CONNECT" <=> i = 1
          /\ notified'[d][i] = "CLOSE" => i = Len(notified'[d])
    <3> SUFFICES ASSUME NEW d \in Conn, NEW i \in 1 .. Len(notified'[d])
                 PROVE  /\ notified'[d][i] = "CONNECT" <=> i = 1
                        /\ notified'[d][i] = "CLOSE" => i = Len(notified'[d])
      OBVIOUS
    <3>1. CASE d = c BY <2>1, <3>1
    <3>2. CASE d # c BY <1>6, <3>2 DEF ToldOf
    <3> QED BY <3>1, <3>2
  <2> QED BY <1>4, <1>6, <2>1, <2>2 DEF ToldOf
<1>13. Fresh(c)' /\ KernelOf(c, s)' /\ SessionOf(c, s)'
  BY <1>3, FrameFresh, FrameKernelOf, FrameSessionOf
<1>14. ASSUME polite, Orderly(c, s) PROVE Orderly(c, s)'
  <2> USE <1>14 DEF Orderly
  <2>1. OneEach(c, s)' BY <1>1, <1>3 DEF OneEach, Unanswered
  <2>2. PoolOf(c, s)' BY <1>1, <1>3, <1>4 DEF PoolOf, Open
  <2>3. RecvLast(c)' BY <1>3, <1>4 DEF RecvLast
  <2>4. ~Received' BY <1>2, <1>4, <1>5 DEF Received
  <2>5. Open(c, s)' <=> Open(c, s) BY <1>3 DEF Open
  <2>6. Disconnecting(c, s)' BY <1>1, <1>2, <1>3, <1>4, <1>5, <1>9, <2>4, <2>5 DEF Disconnecting
  <2> QED BY <2>1, <2>2, <2>3, <2>6
<1> QED BY <1>7, <1>8, <1>10, <1>11, <1>12, <1>13, <1>14

LEMMA ClientRegisterStep ==
  ASSUME NEW c \in Conn, NEW s \in Slot, Sound(c, s), RegisterConnect
  PROVE  Sound(c, s)' /\ (polite /\ Orderly(c, s) => Orderly(c, s)')
<1> USE Constants DEF Sound
<1>1. /\ pc[Main] = "REGISTER" /\ mainPc = "Connect" /\ op[Main] = Reference(s, "CONNECT", c)
      /\ NoOps /\ \A d \in Conn : registered[d] = None
  BY DEF RegisterConnect, RegisterSocketOf, MainOf, Connecting
<1>2. op[Main].conn = c /\ op[Main].slot = s BY <1>1 DEF Reference
<1>3. /\ UNCHANGED <<polite, peer, sent, answered, unread, file, listenEdge, events, queue>>
      /\ UNCHANGED <<session, m_FreeList, freeIDs, active, op, msgs, msg, fault, notified>>
      /\ UNCHANGED <<m_Connected, m_pSession>>
      /\ Goto(Main, "idle") /\ mainPc' \in {"wait", "exit"}
  BY <1>1 DEF RegisterConnect, RegisterSocketOf, net, mgr, client
<1>4. \/ /\ mainPc' = "wait" /\ registered' = [registered EXCEPT ![c] = s]
         /\ edge' = [edge EXCEPT ![c] = TRUE]
      \/ UNCHANGED <<registered, edge>>
  BY <1>2 DEF RegisterConnect, RegisterSocketOf, failed
<1>5. /\ pc'[Main] = "idle" /\ \A u \in Worker \ {Main} : pc'[u] = pc[u]
      /\ pc' \in [Worker -> ClientLabel \cup MainLabels]
  <2>1. "idle" \in ClientLabel \cup MainLabels BY DEF MainLabels
  <2> QED BY <1>3, <2>1, AnyGoto, ClientAssumption
<1>6. KernelOf(c, s)' BY <1>3, <1>4 DEF KernelOf
<1>7. OpsOf(c, s)' BY <1>3, <1>5 DEF OpsOf
<1>8. MainOf(c, s)' BY <1>3, <1>5 DEF MainOf, MainLabels, InSendMsg
<1>9. Connecting' BY <1>5 DEF Connecting
<1>10. Greeting(c, s)' BY <1>1, <1>3, <1>5 DEF Greeting
<1>11. ToldOf(c, s)' BY <1>1, <1>3, <1>5 DEF ToldOf, Open
<1>12. Fresh(c)' /\ SessionOf(c, s)' BY <1>3, FrameFresh, FrameSessionOf
<1>13. ASSUME polite, Orderly(c, s) PROVE Orderly(c, s)'
  <2> USE <1>13 DEF Orderly
  <2>1. m_pSession = s \/ (msgs # << >> /\ msgs[1].type = "CONNECT") BY <1>1 DEF Greeting
  <2>2. OneEach(c, s)' BY <1>1, <1>3, <1>5 DEF OneEach, Unanswered
  <2>3. PoolOf(c, s)' BY <1>1, <1>3, <1>5 DEF PoolOf, Open
  <2>4. RecvLast(c)' BY <1>1, <1>3, <1>5, EmptySeq DEF RecvLast, NoOps
  <2>5. Open(c, s)' <=> Open(c, s) BY <1>3 DEF Open
  <2>6. Received' <=> Received BY <1>1, <1>3, <1>5 DEF Received
  <2>7. Disconnecting(c, s)'
    <3> QED BY <1>1, <1>3, <1>4, <1>5, <2>5, <2>6 DEF Disconnecting, NoOps
  <2> QED BY <2>2, <2>3, <2>4, <2>7
<1> QED BY <1>6, <1>7, <1>8, <1>9, <1>10, <1>11, <1>12, <1>13

-----------------------------------------------------------------------------
\* SendMsg.
LEMMA ClientFirstCheckStep ==
  ASSUME NEW c \in Conn, NEW s \in Slot, Sound(c, s), FirstCheck, UNCHANGED client
  PROVE  Sound(c, s)' /\ (polite /\ Orderly(c, s) => Orderly(c, s)')
<1> USE Constants DEF Sound
<1>1. /\ mainPc = "GetID" /\ msg \in ClientMsgs(c, s) /\ msg.slot = s
      /\ \A i \in 1 .. Len(msgs) : msgs[i].type # "CONNECT"
  BY DEF FirstCheck, MainOf, InSendMsg
<1>2. /\ UNCHANGED <<polite, peer, sent, answered, unread, file, listenEdge, registered, edge>>
      /\ UNCHANGED <<events, queue, session, m_FreeList, freeIDs, active, op, msgs, pc, fault>>
      /\ UNCHANGED <<notified, m_Connected, m_pSession>>
      /\ mainPc' \in {"SendMsg", "wait"} /\ msg' = [msg EXCEPT !.conn = session[msg.slot].conn]
  BY DEF FirstCheck, net, kernel, mgr, client
<1>3. msg' = msg
  <2>1. session[msg.slot].conn = c BY <1>1 DEF SessionOf
  <2>2. msg' = [msg EXCEPT !.conn = c] BY <1>2, <2>1
  <2>3. msg.conn = c BY <1>1 DEF ClientMsgs
  <2> QED BY <1>1, <2>2, <2>3 DEF ClientMsgs
<1>4. pc[Main] = "idle" BY <1>1 DEF MainOf, MainLabels
<1>5. MainOf(c, s)' BY <1>1, <1>2, <1>3, <1>4 DEF MainOf, InSendMsg
<1>6. /\ Fresh(c)' /\ KernelOf(c, s)' /\ SessionOf(c, s)' /\ OpsOf(c, s)' /\ Connecting'
      /\ Greeting(c, s)' /\ ToldOf(c, s)'
  BY <1>2, FrameFresh, FrameKernelOf, FrameSessionOf, FrameOpsOf, FrameConnecting, FrameGreeting,
     FrameToldOf
<1>7. ASSUME polite, Orderly(c, s) PROVE Orderly(c, s)'
  <2> USE <1>7 DEF Orderly
  <2>1. OneEach(c, s)' BY <1>1, <1>2, <1>4 DEF OneEach, Unanswered
  <2>2. PoolOf(c, s)' BY <1>1, <1>2, <1>4 DEF PoolOf, Open
  <2>3. RecvLast(c)' BY <1>2, FrameRecvLast
  <2>4. Disconnecting(c, s)' BY <1>1, <1>2, <1>4 DEF Disconnecting, Received, NoOps, Open
  <2> QED BY <2>1, <2>2, <2>3, <2>4
<1> QED BY <1>5, <1>6, <1>7

LEMMA ClientSecondCheckStep ==
  ASSUME NEW c \in Conn, NEW s \in Slot, Sound(c, s), SecondCheck, UNCHANGED client
  PROVE  Sound(c, s)' /\ (polite /\ Orderly(c, s) => Orderly(c, s)')
<1> USE Constants DEF Sound
<1>1. /\ mainPc = "SendMsg" /\ msg \in ClientMsgs(c, s) /\ msg.slot = s
      /\ \A i \in 1 .. Len(msgs) : msgs[i].type # "CONNECT"
  BY DEF SecondCheck, MainOf, InSendMsg
<1>2. /\ UNCHANGED <<polite, peer, sent, answered, unread, file, listenEdge, registered, edge>>
      /\ UNCHANGED <<events, queue, m_FreeList, freeIDs, active, op, msgs, msg, pc, fault>>
      /\ UNCHANGED <<notified, m_Connected, m_pSession>>
      /\ mainPc' \in {"wait", "Complete"}
      /\ session' = session \/ session' = [session EXCEPT ![s].answers = @ + 1]
  BY <1>1 DEF SecondCheck, net, kernel, mgr, client
<1>3. /\ session' \in [Slot -> ClientSessions]
      /\ session'[s].conn = session[s].conn /\ session'[s].m_Sock = session[s].m_Sock
      /\ session[s].answers \in Nat
      /\ session'[s].answers \in {session[s].answers, session[s].answers + 1}
  BY <1>2 DEF SessionOf, ClientSessions
<1>4. pc[Main] = "idle" BY <1>1 DEF MainOf, MainLabels
<1>5. MainOf(c, s)' BY <1>1, <1>2, <1>4 DEF MainOf, InSendMsg
<1>6. Open(c, s)' <=> Open(c, s) BY <1>2, <1>3 DEF Open
<1>7. SessionOf(c, s)' BY <1>2, <1>3 DEF SessionOf
<1>8. KernelOf(c, s)' BY <1>2, <1>3 DEF KernelOf
<1>9. ToldOf(c, s)' BY <1>2, <1>6 DEF ToldOf
<1>10. /\ Fresh(c)' /\ OpsOf(c, s)' /\ Connecting' /\ Greeting(c, s)'
  BY <1>2, FrameFresh, FrameOpsOf, FrameConnecting, FrameGreeting
<1>11. ASSUME polite, Orderly(c, s) PROVE Orderly(c, s)'
  <2> USE <1>11 DEF Orderly
  <2>1. answered[c] = 0 /\ session[s].answers = 0 BY <1>1 DEF OneEach, Unanswered
  <2>2. ~(msgs # << >> /\ msgs[1].type = "CONNECT")
    BY <1>1, EmptySeq DEF Greeting
  <2>3. ~Unanswered' BY <1>2, <1>4, <2>2 DEF Unanswered
  <2>4. OneEach(c, s)' BY <1>2, <1>3, <2>1, <2>3 DEF OneEach
  <2>5. PoolOf(c, s)' BY <1>1, <1>2, <1>4, <1>6 DEF PoolOf
  <2>6. RecvLast(c)' BY <1>2, FrameRecvLast
  <2>7. Disconnecting(c, s)' BY <1>1, <1>2, <1>4, <1>6 DEF Disconnecting, Received, NoOps
  <2> QED BY <2>4, <2>5, <2>6, <2>7
<1> QED BY <1>5, <1>7, <1>8, <1>9, <1>10, <1>11
-----------------------------------------------------------------------------
\* HandleNet, and the end of the application's loop.
LEMMA ClientHandleNetStep ==
  ASSUME NEW c \in Conn, NEW s \in Slot, Sound(c, s), HandleNet
  PROVE  Sound(c, s)' /\ (polite /\ Orderly(c, s) => Orderly(c, s)')
<1> USE Constants DEF Sound
<1> DEFINE m == Head(msgs)
<1>1. mainPc = "wait" /\ pc[Main] = "idle" /\ msgs # << >> BY DEF HandleNet, TryWait
<1>2. /\ UNCHANGED <<polite, peer, sent, answered, unread, file, listenEdge, registered, edge>>
      /\ UNCHANGED <<events, queue, session, m_FreeList, freeIDs, active, fault, notified>>
      /\ msg' = m /\ msgs' = Tail(msgs) /\ m_Connected' = (m.type = "CONNECT")
  BY DEF HandleNet, Connected, net, kernel, mgr
<1>3. /\ msgs' \in Seq(ClientMsgs(c, s)) /\ m = msgs[1] /\ m \in ClientMsgs(c, s)
      /\ Len(msgs) \in Nat \ {0} /\ Len(msgs') = Len(msgs) - 1
      /\ \A i \in 1 .. Len(msgs') : msgs'[i] = msgs[i + 1] /\ i + 1 \in 1 .. Len(msgs)
  <2>1. msgs \in Seq(ClientMsgs(c, s)) BY DEF Greeting
  <2>2. Len(msgs) \in Nat \ {0} BY <1>1, <2>1, EmptySeq
  <2>3. /\ m \in ClientMsgs(c, s) /\ Tail(msgs) \in Seq(ClientMsgs(c, s)) /\ m = msgs[1]
        /\ Len(Tail(msgs)) = Len(msgs) - 1
        /\ \A i \in 1 .. Len(Tail(msgs)) : Tail(msgs)[i] = msgs[i + 1]
    BY <1>1, <2>1, HeadTailProperties
  <2> QED BY <1>2, <2>2, <2>3
<1> HIDE DEF m
<1>4. \A i \in 1 .. Len(msgs') : msgs'[i].type # "CONNECT" BY <1>3 DEF Greeting
<1>5. /\ m.conn = c /\ m.type \in {"CONNECT", "RECV", "CLOSE"}
      /\ m.type \in {"CONNECT", "RECV"} => m.slot = s
      /\ m.type # "CONNECT" => m_pSession = s
  BY <1>1, <1>3 DEF ClientMsgs, Greeting
<1>6. \/ m.type = "CONNECT" /\ m_pSession' = s /\ mainPc' = "GetID" /\ UNCHANGED <<pc, op>>
      \/ /\ m.type = "RECV" /\ op' = [op EXCEPT ![Main] = Reference(s, "CLOSE", c)]
         /\ Goto(Main, "CLOSE") /\ UNCHANGED <<m_pSession, mainPc>>
      \/ m.type = "CLOSE" /\ UNCHANGED <<m_pSession, mainPc, pc, op>>
  BY <1>5 DEF HandleNet, OnConnect, OnReceive, OnClose, m
<1>7. /\ pc' \in [Worker -> ClientLabel \cup MainLabels]
      /\ \A u \in Worker \ {Main} : pc'[u] = pc[u] /\ op'[u] = op[u]
      /\ pc'[Main] = IF m.type = "RECV" THEN "CLOSE" ELSE "idle"
      /\ DOMAIN op' = Worker
  <2>1. DOMAIN op = Worker BY DEF MainOf
  <2>2. CASE m.type = "RECV"
    <3>1. Goto(Main, "CLOSE") /\ op' = [op EXCEPT ![Main] = Reference(s, "CLOSE", c)]
      BY <1>6, <2>2
    <3>2. "CLOSE" \in ClientLabel \cup MainLabels BY DEF MainLabels
    <3>3. /\ pc'[Main] = "CLOSE" /\ \A u \in Worker \ {Main} : pc'[u] = pc[u]
          /\ pc' \in [Worker -> ClientLabel \cup MainLabels]
      BY <3>1, <3>2, AnyGoto, ClientAssumption
    <3> QED BY <2>1, <2>2, <3>1, <3>3
  <2>3. CASE m.type # "RECV" BY <1>1, <1>6, <2>1, <2>3 DEF MainOf
  <2> QED BY <2>2, <2>3
<1>8. OpsOf(c, s)' BY <1>2, <1>7 DEF OpsOf
<1>9. MainOf(c, s)'
  <2>1. m.type = "RECV" => op'[Main] = Reference(s, "CLOSE", c)
    BY <1>6, ClientAssumption DEF MainOf
  <2> QED BY <1>1, <1>2, <1>3, <1>4, <1>5, <1>6, <1>7, <2>1 DEF MainOf, MainLabels, InSendMsg
<1>10. Connecting' BY <1>7 DEF Connecting
<1>11. Greeting(c, s)' BY <1>3, <1>4, <1>5, <1>6 DEF Greeting
<1>12. ToldOf(c, s)' BY <1>1, <1>2, <1>7 DEF ToldOf, Open
<1>13. Fresh(c)' /\ KernelOf(c, s)' /\ SessionOf(c, s)'
  BY <1>2, FrameFresh, FrameKernelOf, FrameSessionOf
<1>14. ASSUME polite, Orderly(c, s) PROVE Orderly(c, s)'
  <2> USE <1>14 DEF Orderly
  <2>1. msgs' # << >> => msgs'[1].type # "CONNECT"
    <3> SUFFICES ASSUME msgs' # << >> PROVE msgs'[1].type # "CONNECT" OBVIOUS
    <3>1. Len(msgs') \in Nat \ {0} BY <1>3, EmptySeq
    <3> QED BY <1>4, <3>1
  <2>2. OneEach(c, s)'
    <3>1. mainPc' = "GetID" => Unanswered BY <1>1, <1>3, <1>6 DEF Unanswered
    <3>2. Unanswered' => mainPc' = "GetID" BY <1>1, <1>6, <1>7, <2>1 DEF Unanswered
    <3> QED BY <1>2, <3>1, <3>2 DEF OneEach
  <2>3. PoolOf(c, s)' BY <1>1, <1>2, <1>6, <1>7 DEF PoolOf, Open
  <2>4. RecvLast(c)' BY <1>2, <1>7 DEF RecvLast
  <2>5. Open(c, s)' <=> Open(c, s) BY <1>2 DEF Open
  <2>6. Received' => Received
    <3>1. 1 \in 1 .. Len(msgs) BY <1>3
    <3>2. pc'[Main] = "CLOSE" => Received BY <1>3, <1>7, <3>1 DEF Received
    <3>3. \A i \in 1 .. Len(msgs') : msgs'[i].type = "RECV" => Received BY <1>3 DEF Received
    <3> QED BY <3>2, <3>3 DEF Received
  <2>7. NoOps' <=> NoOps BY <1>2, <1>7 DEF NoOps
  <2>8. \A i \in 1 .. Len(msgs') : msgs'[i].type = "CLOSE" => ~Open(c, s)
    BY <1>3 DEF Disconnecting
  <2>9. m.type = "CLOSE" => ~Open(c, s)
    <3>1. 1 \in 1 .. Len(msgs) BY <1>3
    <3> QED BY <1>3, <3>1 DEF Disconnecting
  <2>10. Disconnecting(c, s)'
    <3>1. mainPc' \in {"wait", "GetID"} BY <1>1, <1>6
    <3>2. Open(c, s) /\ ~m_Connected' => pc'[Main] = "CLOSE" BY <1>2, <1>5, <1>7, <2>9
    <3> QED BY <1>1, <1>2, <1>7, <2>5, <2>6, <2>7, <2>8, <3>1, <3>2 DEF Disconnecting
  <2> QED BY <2>2, <2>3, <2>4, <2>10
<1> QED BY <1>8, <1>9, <1>10, <1>11, <1>12, <1>13, <1>14

LEMMA ClientLeaveLoopStep ==
  ASSUME NEW c \in Conn, NEW s \in Slot, Sound(c, s), LeaveLoop
  PROVE  Sound(c, s)' /\ (polite /\ Orderly(c, s) => Orderly(c, s)')
<1> USE Constants DEF Sound
<1>1. /\ mainPc = "wait" /\ pc[Main] = "idle" /\ msgs = << >> /\ ~m_Connected
      /\ mainPc' \in {"Shutdown", "Connect"}
  BY DEF LeaveLoop, TryWait
<1>2. /\ UNCHANGED <<polite, peer, sent, answered, unread, file, listenEdge, registered, edge>>
      /\ UNCHANGED <<events, queue, session, m_FreeList, freeIDs, active, op, msgs, msg, pc>>
      /\ UNCHANGED <<fault, notified, m_Connected, m_pSession>>
  BY DEF LeaveLoop, net, kernel, mgr, client
<1>3. MainOf(c, s)' BY <1>1, <1>2 DEF MainOf, InSendMsg
<1>4. /\ Fresh(c)' /\ KernelOf(c, s)' /\ SessionOf(c, s)' /\ OpsOf(c, s)' /\ Connecting'
      /\ Greeting(c, s)' /\ ToldOf(c, s)'
  BY <1>2, FrameFresh, FrameKernelOf, FrameSessionOf, FrameOpsOf, FrameConnecting, FrameGreeting,
     FrameToldOf
<1>5. ASSUME polite, Orderly(c, s) PROVE Orderly(c, s)'
  <2> USE <1>5 DEF Orderly
  <2>1. ~Open(c, s) BY <1>1 DEF Disconnecting
  <2>2. OneEach(c, s)' BY <1>1, <1>2 DEF OneEach, Unanswered
  <2>3. PoolOf(c, s)' BY <1>1, <1>2 DEF PoolOf, Open
  <2>4. RecvLast(c)' BY <1>2, FrameRecvLast
  <2>5. Disconnecting(c, s)' BY <1>1, <1>2, <2>1 DEF Disconnecting, Received, NoOps, Open
  <2> QED BY <2>2, <2>3, <2>4, <2>5
<1> QED BY <1>3, <1>4, <1>5

LEMMA ClientShutdownStep ==
  ASSUME NEW c \in Conn, NEW s \in Slot, Sound(c, s), DestroyAllSessions
  PROVE  Sound(c, s)' /\ (polite /\ Orderly(c, s) => Orderly(c, s)')
<1> USE Constants DEF Sound
<1>1. mainPc = "Shutdown" /\ mainPc' = "exit" BY DEF DestroyAllSessions
<1>2. pc[Main] = "idle" BY <1>1 DEF MainOf, MainLabels
<1>3. /\ UNCHANGED <<polite, peer, sent, answered, unread, listenEdge, events, queue, session>>
      /\ UNCHANGED <<op, msgs, msg, pc, notified, m_Connected, m_pSession>>
  BY DEF DestroyAllSessions, net, client
<1>4. \/ UNCHANGED <<file, registered, edge, active>>
      \/ /\ file' \in [FD -> {None, c}] /\ \A f \in FD : file'[f] # None => file'[f] = file[f]
         /\ registered' \in [Conn -> {None, s}] /\ edge' \in [Conn -> BOOLEAN]
         /\ \A d \in Conn : registered'[d] # None => registered'[d] = registered[d]
         /\ \A d \in Conn : edge'[d] => edge[d] /\ registered'[d] # None
         /\ active' \in [Slot -> BOOLEAN]
  <2>1. CASE UNCHANGED <<file, registered, edge, active>> BY <2>1
  <2>2. CASE ~UNCHANGED <<file, registered, edge, active>>
    <3> DEFINE used == Slot \ RangeOf(m_FreeList)
    <3>1. /\ file' = [f \in FD |-> IF \E t \in used : Active(t) /\ session[t].m_Sock = f
                                 THEN None ELSE file[f]]
          /\ registered' = [d \in Conn |-> IF d \in RangeOf(file') THEN registered[d] ELSE None]
          /\ edge' = [d \in Conn |-> edge[d] /\ registered'[d] # None]
          /\ active' = [i \in Slot |-> FALSE]
      BY <2>2 DEF DestroyAllSessions, mgr
    <3>2. file' \in [FD -> {None, c}] /\ \A f \in FD : file'[f] # None => file'[f] = file[f]
      BY <3>1 DEF KernelOf
    <3>3. /\ registered' \in [Conn -> {None, s}]
          /\ \A d \in Conn : registered'[d] # None => registered'[d] = registered[d]
      BY <3>1 DEF KernelOf
    <3>4. edge' \in [Conn -> BOOLEAN] /\ \A d \in Conn : edge'[d] => edge[d] /\ registered'[d] # None
      BY <3>1 DEF KernelOf
    <3> QED BY <3>1, <3>2, <3>3, <3>4
  <2> QED BY <2>1, <2>2
<1>5. KernelOf(c, s)' BY <1>3, <1>4 DEF KernelOf
<1>6. Open(c, s)' => Open(c, s) BY <1>3, <1>4 DEF Open, SessionOf, ClientSessions
<1>7. SessionOf(c, s)' BY <1>3, <1>4 DEF SessionOf
<1>8. MainOf(c, s)' BY <1>1, <1>2, <1>3 DEF MainOf, InSendMsg
<1>9. Connecting' BY <1>2, <1>3 DEF Connecting
<1>10. ToldOf(c, s)' BY <1>3, <1>6 DEF ToldOf
<1>11. Fresh(c)' /\ OpsOf(c, s)' /\ Greeting(c, s)' BY <1>3, FrameFresh, FrameOpsOf, FrameGreeting
<1>12. ASSUME polite, Orderly(c, s) PROVE Orderly(c, s)'
  <2> USE <1>12 DEF Orderly
  <2>1. ~Open(c, s) /\ NoOps BY <1>1 DEF Disconnecting
  <2>2. \A w \in Worker : pc[w] # "DESTROY" BY <1>2, <2>1 DEF NoOps
  <2>3. fault' = fault BY <2>2 DEF DestroyAllSessions
  <2>4. \A d \in Conn : edge'[d] => edge[d] BY <1>4
  <2>5. NoOps' BY <1>3, <2>1, <2>4 DEF NoOps
  <2>6. registered'[c] = None
    <3>1. registered[c] = None BY <2>1 DEF Disconnecting
    <3> QED BY <1>4, <3>1
  <2>7. OneEach(c, s)' BY <1>1, <1>2, <1>3, <2>3 DEF OneEach, Unanswered
  <2>8. PoolOf(c, s)' BY <1>1 DEF PoolOf
  <2>9. RecvLast(c)' BY <2>5, EmptySeq DEF RecvLast, NoOps
  <2>10. Disconnecting(c, s)'
    <3>1. Received' => Received BY <1>3 DEF Received
    <3> QED BY <1>1, <1>2, <1>3, <1>6, <2>1, <2>5, <2>6, <3>1 DEF Disconnecting
  <2> QED BY <2>7, <2>8, <2>9, <2>10
<1> QED BY <1>5, <1>7, <1>8, <1>9, <1>10, <1>11, <1>12
-----------------------------------------------------------------------------
\* CreateSession for the next connection, when the last was n.
Ready(n) ==
  /\ Fresh(n) /\ (polite => peer \in [Conn -> {"none", "open"}])
  /\ file = [f \in FD |-> None] /\ listenEdge = FALSE
  /\ registered = [c \in Conn |-> None] /\ edge \in [Conn -> BOOLEAN]
  /\ NoOps /\ msgs = << >> /\ fault = FALSE
  /\ session \in [Slot -> ClientSessions] /\ active \in [Slot -> BOOLEAN]
  /\ m_FreeList \in Seq(Slot) /\ freeIDs \in Seq(Slot) /\ Len(freeIDs) = Len(m_FreeList)
  /\ Distinct(m_FreeList) /\ Elems(m_FreeList) = Slot
  /\ pc \in [Worker -> {"idle"}] /\ DOMAIN op = Worker
  /\ notified \in [Conn -> Seq(ClientNote)]
  /\ \A d \in Conn : d > n => notified[d] = << >>
  /\ \A d \in Conn : \A i \in 1 .. Len(notified[d]) :
       /\ notified[d][i] = "CONNECT" <=> i = 1
       /\ notified[d][i] = "CLOSE" => i = Len(notified[d])

\* Connect, when it does not fail.
Connects(c) ==
  /\ mainPc = "Connect"
  /\ peer[c] = "none" /\ \A d \in Conn : d < c => peer[d] # "none"
  /\ peer' = [peer EXCEPT ![c] = "open"]
  /\ CreateSession(Main, "CONNECT", c)
  /\ UNCHANGED <<polite, sent, answered, unread, listenEdge, registered, edge, events, queue>>
  /\ UNCHANGED <<msgs, notified, mainPc, m_Connected, m_pSession>>

LEMMA ClientCreates ==
  ASSUME NEW n \in Nat, Ready(n), NEW c \in Conn, Connects(c)
  PROVE  \E s \in Slot : Sound(c, s)' /\ (polite => Orderly(c, s)')
<1> USE Constants DEF Ready, Connects
<1>1. PICK f \in FD : f = Least({g \in FD : file[g] = None})
  <2> DEFINE T == {g \in FD : file[g] = None}
  <2>1. c \in T OBVIOUS
  <2>2. T \in SUBSET Nat /\ T \subseteq FD OBVIOUS
  <2> HIDE DEF T
  <2>3. \E x \in T : \A y \in T : x <= y BY <2>1, <2>2, LeastNumber
  <2>4. Least(T) \in T BY <2>3, Zenon DEF Least
  <2>5. Least(T) \in FD BY <2>2, <2>4
  <2> QED BY <2>5 DEF T
<1>2. m_FreeList # << >> /\ freeIDs # << >>
  <2>1. 1 \in Elems(m_FreeList) BY DEF Slot
  <2>2. m_FreeList # << >> BY <2>1, ElemsType
  <2>3. Len(m_FreeList) # 0 BY <2>2, EmptySeq
  <2> QED BY <2>2, <2>3, EmptySeq
<1>3. PICK s \in Slot : /\ s = Head(m_FreeList) /\ Tail(m_FreeList) \in Seq(Slot)
                       /\ Distinct(Tail(m_FreeList)) /\ Elems(Tail(m_FreeList)) = Slot \ {s}
  <2>1. /\ Tail(m_FreeList) \in Seq(Slot) /\ Distinct(Tail(m_FreeList))
        /\ Head(m_FreeList) \in Elems(m_FreeList)
        /\ Elems(Tail(m_FreeList)) = Elems(m_FreeList) \ {Head(m_FreeList)}
    BY <1>2, TailElems
  <2> QED BY <2>1
<1>4. PICK k \in Slot : /\ k = Head(freeIDs) /\ Tail(freeIDs) \in Seq(Slot)
                       /\ Len(Tail(freeIDs)) = Len(Tail(m_FreeList))
  <2>1. /\ Head(freeIDs) \in Slot /\ Tail(freeIDs) \in Seq(Slot)
        /\ Len(Tail(freeIDs)) = Len(Tail(m_FreeList))
    BY <1>2, HeadTailProperties
  <2> QED BY <2>1
<1> DEFINE r == Reference(s, "CONNECT", c)
<1>5. /\ file' = [file EXCEPT ![f] = c]
      /\ m_FreeList' = Tail(m_FreeList) /\ freeIDs' = Tail(freeIDs)
      /\ active' = [active EXCEPT ![k] = TRUE]
      /\ session' = [session EXCEPT ![s] = [m_ID |-> k, m_Sock |-> f, answers |-> 0, conn |-> c]]
      /\ op' = [op EXCEPT ![Main] = r]
      /\ Goto(Main, "NOTIFY") /\ fault' = FALSE
  BY <1>1, <1>2, <1>3, <1>4 DEF CreateSession, After
<1>6. /\ pc'[Main] = "NOTIFY" /\ \A u \in Worker \ {Main} : pc'[u] = "idle"
      /\ pc' \in [Worker -> ClientLabel \cup MainLabels]
      /\ op'[Main] = r /\ DOMAIN op' = Worker
  BY <1>5, ClientAssumption DEF Goto, ClientLabel, MainLabels
<1>7. /\ session' \in [Slot -> ClientSessions] /\ session'[s].m_Sock = f /\ session'[s].conn = c
      /\ session'[s].answers = 0
  <2> DEFINE x == [m_ID |-> k, m_Sock |-> f, answers |-> 0, conn |-> c]
  <2>1. x \in ClientSessions /\ x.m_Sock = f /\ x.conn = c /\ x.answers = 0
    BY <1>1, <1>4 DEF ClientSessions
  <2> HIDE DEF x
  <2>2. session' = [session EXCEPT ![s] = x] BY <1>5 DEF x
  <2> QED BY <1>3, <2>1, <2>2
<1>8. c > n BY DEF Fresh
<1>9. Fresh(c)'
  <2>1. \A d \in Conn : peer'[d] = "none" <=> d > c
    <3> SUFFICES ASSUME NEW d \in Conn PROVE peer'[d] = "none" <=> d > c OBVIOUS
    <3>1. c \in Nat /\ d \in Nat OBVIOUS
    <3>2. CASE d = c BY <3>1, <3>2 DEF Fresh
    <3>3. CASE d # c
      <4>1. peer'[d] = peer[d] /\ (peer[d] = "none" <=> d > n) BY <3>3 DEF Fresh
      <4>2. d < c => peer[d] # "none" OBVIOUS
      <4> QED BY <1>8, <3>1, <3>3, <4>1, <4>2
    <3> QED BY <3>2, <3>3
  <2>2. \A d \in Conn : d > c => d > n BY <1>8
  <2>3. peer' \in [Conn -> {"none", "open", "finished", "reset"}] BY DEF Fresh
  <2> QED BY <2>1, <2>2, <2>3 DEF Fresh
<1>10. /\ file' \in [FD -> {None, c}] /\ file'[f] = c
       /\ \A g \in FD \ {f} : file'[g] = None
  BY <1>1, <1>5
<1>11. Open(c, s)' BY <1>7, <1>10 DEF Open
<1>12. KernelOf(c, s)' BY <1>7, <1>10 DEF KernelOf, NoOps
<1>13. SessionOf(c, s)' BY <1>4, <1>5, <1>7 DEF SessionOf
<1>14. OpsOf(c, s)' BY <1>6 DEF OpsOf, NoOps, ClientLabel
<1>15. MainOf(c, s)' BY <1>6 DEF MainOf, MainLabels, InSendMsg
<1>16. NoOps'
  <2>1. UNCHANGED <<events, queue, edge>> OBVIOUS
  <2> QED BY <1>6, <2>1 DEF NoOps
<1>17. Connecting' BY <1>16 DEF Connecting
<1>18. Greeting(c, s)' BY <1>6 DEF Greeting
<1>19. ToldOf(c, s)'
  <2>1. notified' = notified /\ notified[c] = << >> BY <1>8
  <2>2. \A d \in Conn : d > c => notified[d] = << >> BY <1>8
  <2> QED BY <1>6, <2>1, <2>2 DEF ToldOf
<1>20. ASSUME polite PROVE Orderly(c, s)'
  <2> USE <1>20
  <2>1. sent[c] = 0 /\ answered[c] = 0 /\ unread[c] = 0 BY <1>8 DEF Fresh
  <2>2. peer' \in [Conn -> {"none", "open"}] OBVIOUS
  <2>3. OneEach(c, s)' BY <1>5, <1>7, <2>1, <2>2 DEF OneEach
  <2>4. PoolOf(c, s)' BY <1>3, <1>4, <1>5, <1>11 DEF PoolOf
  <2>5. RecvLast(c)' BY <1>6 DEF RecvLast, NoOps
  <2>6. ~Received' BY <1>6 DEF Received
  <2>7. Disconnecting(c, s)' BY <1>6, <1>11, <1>16, <2>6 DEF Disconnecting
  <2> QED BY <2>3, <2>4, <2>5, <2>7 DEF Orderly
<1> QED BY <1>3, <1>9, <1>12, <1>13, <1>14, <1>15, <1>17, <1>18, <1>19, <1>20 DEF Sound

LEMMA StartedReady ==
  ASSUME Started PROVE Ready(0)
<1> USE Constants DEF Started
<1>1. /\ m_FreeList \in Seq(Slot) /\ Len(m_FreeList) = Amount
      /\ Distinct(m_FreeList) /\ Elems(m_FreeList) = Slot
  <2>1. m_FreeList \in [1 .. Amount -> Slot] BY DEF Slot
  <2>2. m_FreeList \in Seq(Slot) BY <2>1, SeqDef
  <2>3. Len(m_FreeList) = Amount BY <2>1, <2>2, LenProperties
  <2> QED BY <2>2, <2>3 DEF Distinct, Elems, Slot
<1>2. freeIDs \in Seq(Slot) /\ Len(freeIDs) = Amount
  <2>1. freeIDs \in [1 .. Amount -> Slot] BY DEF Slot
  <2>2. freeIDs \in Seq(Slot) BY <2>1, SeqDef
  <2> QED BY <2>1, <2>2, LenProperties
<1>3. Fresh(0) BY DEF Fresh
<1>4. NoOps BY DEF NoOps
<1>5. polite => peer \in [Conn -> {"none", "open"}] OBVIOUS
<1>6. notified \in [Conn -> Seq(ClientNote)] /\ \A d \in Conn : notified[d] = << >> OBVIOUS
<1> QED BY <1>1, <1>2, <1>3, <1>4, <1>5, <1>6 DEF Ready

LEMMA OrderlyReady ==
  ASSUME NEW c \in Conn, NEW s \in Slot, Sound(c, s), polite, Orderly(c, s),
         mainPc = "Connect", pc[Main] = "idle"
  PROVE  Ready(c)
<1> USE Constants DEF Sound, Orderly
<1>1. ~Open(c, s) /\ msgs = << >> /\ NoOps /\ registered[c] = None BY DEF Disconnecting
<1>2. file = [f \in FD |-> None]
  <2>1. file[session[s].m_Sock] = None BY <1>1 DEF Open, KernelOf, SessionOf, ClientSessions
  <2> QED BY <2>1 DEF KernelOf
<1>3. registered = [d \in Conn |-> None] BY <1>1 DEF KernelOf
<1>4. /\ m_FreeList \in Seq(Slot) /\ freeIDs \in Seq(Slot) /\ Len(freeIDs) = Len(m_FreeList)
      /\ Distinct(m_FreeList) /\ Elems(m_FreeList) = Slot
  BY <1>1 DEF PoolOf
<1>5. pc \in [Worker -> {"idle"}]
  <2>1. \A w \in Worker : pc[w] = "idle" BY <1>1 DEF NoOps
  <2> QED BY <2>1 DEF MainOf
<1>6. fault = FALSE /\ peer \in [Conn -> {"none", "open"}] BY DEF OneEach
<1>7. edge \in [Conn -> BOOLEAN] /\ listenEdge = FALSE BY DEF KernelOf
<1>8. session \in [Slot -> ClientSessions] /\ active \in [Slot -> BOOLEAN] BY DEF SessionOf
<1>9. DOMAIN op = Worker BY DEF MainOf
<1>10. /\ notified \in [Conn -> Seq(ClientNote)]
       /\ \A d \in Conn : d > c => notified[d] = << >>
       /\ \A d \in Conn : \A i \in 1 .. Len(notified[d]) :
            /\ notified[d][i] = "CONNECT" <=> i = 1
            /\ notified[d][i] = "CLOSE" => i = Len(notified[d])
  BY DEF ToldOf
<1> QED BY <1>1, <1>2, <1>3, <1>4, <1>5, <1>6, <1>7, <1>8, <1>9, <1>10 DEF Ready

\* Connect makes the session of the next connection, or fails and changes nothing.
LEMMA ConnectOutcome ==
  ASSUME Connect
  PROVE  /\ mainPc = "Connect" /\ pc[Main] = "idle"
         /\ \/ \E c \in Conn : Connects(c)
            \/ /\ mainPc' = "exit"
               /\ UNCHANGED <<net, file, session, m_FreeList, freeIDs, active, pc, op, fault>>
               /\ UNCHANGED <<listenEdge, registered, edge, events, queue, msgs, msg, notified>>
               /\ UNCHANGED <<m_Connected, m_pSession>>
  BY DEF Connect, Connects, net, mgr, client

LEMMA ClientConnectStep ==
  ASSUME NEW c \in Conn, NEW s \in Slot, Sound(c, s), polite => Orderly(c, s), Connect, Safe'
  PROVE  \E d \in Conn, t \in Slot : Sound(d, t)' /\ (polite => Orderly(d, t)')
<1> USE Constants DEF Sound
<1>1. mainPc = "Connect" /\ pc[Main] = "idle" BY ConnectOutcome
<1>2. ASSUME NEW d \in Conn, Connects(d)
      PROVE  \E t \in Slot : Sound(d, t)' /\ (polite => Orderly(d, t)')
  <2>1. polite
    <3> SUFFICES ASSUME ~polite PROVE FALSE OBVIOUS
    <3>1. peer[d] = "none" /\ peer' = [peer EXCEPT ![d] = "open"] /\ polite' = polite
      BY <1>2 DEF Connects
    <3>2. d > c /\ peer'[d] = "open" BY <3>1 DEF Fresh
    <3>3. d # 1 BY <3>2
    <3> QED BY <3>1, <3>2, <3>3 DEF Safe
  <2>2. Ready(c) BY <1>1, <2>1, OrderlyReady
  <2>3. c \in Nat OBVIOUS
  <2> QED BY <1>2, <2>2, <2>3, ClientCreates
<1>3. CASE ~ \E d \in Conn : Connects(d)
  <2>1. /\ mainPc' = "exit"
        /\ UNCHANGED <<polite, peer, sent, answered, unread, file, session, m_FreeList, freeIDs>>
        /\ UNCHANGED <<active, pc, op, fault, listenEdge, registered, edge, events, queue, msgs>>
        /\ UNCHANGED <<msg, notified, m_Connected, m_pSession>>
    BY <1>3, ConnectOutcome DEF net
  <2>2. MainOf(c, s)' BY <1>1, <2>1 DEF MainOf, InSendMsg
  <2>3. /\ Fresh(c)' /\ KernelOf(c, s)' /\ SessionOf(c, s)' /\ OpsOf(c, s)' /\ Connecting'
        /\ Greeting(c, s)' /\ ToldOf(c, s)'
    BY <2>1, FrameFresh, FrameKernelOf, FrameSessionOf, FrameOpsOf, FrameConnecting,
       FrameGreeting, FrameToldOf
  <2>4. ASSUME polite PROVE Orderly(c, s)'
    <3> USE <2>4 DEF Orderly
    <3>1. ~Open(c, s) BY <1>1 DEF Disconnecting
    <3>2. OneEach(c, s)' BY <2>1 DEF OneEach, Unanswered
    <3>3. PoolOf(c, s)' BY <2>1 DEF PoolOf
    <3>4. RecvLast(c)' BY <2>1, FrameRecvLast
    <3>5. Disconnecting(c, s)'
      BY <1>1, <2>1, <3>1 DEF Disconnecting, Received, NoOps, Open
    <3> QED BY <3>2, <3>3, <3>4, <3>5
  <2> QED BY <2>2, <2>3, <2>4
<1> QED BY <1>2, <1>3

LEMMA ClientFirstStep ==
  ASSUME Started, ClientNext
  PROVE  \/ Started'
         \/ \E d \in Conn, t \in Slot : Sound(d, t)' /\ (polite => Orderly(d, t)')
<1> USE Constants DEF Started
<1>1. Connect
  <2>1. \A w \in Worker : pc[w] = "idle" OBVIOUS
  <2>2. ASSUME NEW w \in Worker
        PROVE  ~(Complete(w) \/ Recv(w) \/ WorkerSend(w) \/ Close(w) \/ DestroySession(w) \/ UnLock(w)
                 \/ InsertSimpleMsg(w) \/ RemoveAsyncOperation(w))
    BY <2>1 DEF Complete, Recv, WorkerSend, Close, DestroySession, UnLock, InsertSimpleMsg,
       RemoveAsyncOperation
  <2>3. \A c \in Conn : ~ServerSend(c) /\ ~ServerClose(c) BY DEF ServerSend, ServerClose, PeerClose
  <2>4. ~ClientDispatcher
    <3>1. ~EpollWait BY DEF EpollWait
    <3> QED BY <3>1 DEF ClientDispatcher
  <2>5. ~RegisterConnect BY <2>1, ClientAssumption DEF RegisterConnect, RegisterSocketOf
  <2>6. ~(HandleNet \/ LeaveLoop \/ DestroyAllSessions \/ FirstCheck \/ SecondCheck \/ MainSend)
    BY DEF HandleNet, LeaveLoop, DestroyAllSessions, FirstCheck, SecondCheck, MainSend
  <2>7. ClientMain
    BY <2>2, <2>3, <2>4 DEF ClientNext, ClientWorker
  <2> QED BY <2>2, <2>5, <2>6, <2>7, ClientAssumption DEF ClientMain
<1>2. CASE \E d \in Conn : Connects(d) BY <1>2, StartedReady, ClientCreates
<1>3. CASE ~ \E d \in Conn : Connects(d)
  <2>1. /\ mainPc' = "exit"
        /\ UNCHANGED <<polite, peer, sent, answered, unread, file, session, m_FreeList, freeIDs>>
        /\ UNCHANGED <<active, pc, op, fault, listenEdge, registered, edge, events, queue, msgs>>
        /\ UNCHANGED notified
    BY <1>1, <1>3, ConnectOutcome DEF net
  <2>2. Started' BY <2>1
  <2> QED BY <2>2
<1> QED BY <1>2, <1>3
-----------------------------------------------------------------------------
\* Peers never go back to "none", whatever else is true.
LEMMA PeersGrow ==
  ASSUME peer \in [Conn -> {"none", "open", "finished", "reset"}], ClientNext
  PROVE  /\ peer' \in [Conn -> {"none", "open", "finished", "reset"}] /\ polite' = polite
         /\ \A d \in Conn : peer'[d] = "none" => peer[d] = "none"
<1>1. CASE UNCHANGED <<polite, peer>> BY <1>1
<1>2. CASE \E c \in Conn, a \in {"open", "finished"} :
             peer' = [peer EXCEPT ![c] = a] /\ polite' = polite
  BY <1>2
<1>3. ASSUME NEW s, Send(s)
      PROVE  /\ polite' = polite
             /\ UNCHANGED peer \/ peer' = [peer EXCEPT ![Peer(s)] = "reset"]
  <2>1. CASE ~Active(s) \/ session[s].answers = 0 \/ Peer(s) = None
    BY <1>3, <2>1 DEF Send, net
  <2>2. CASE ~(~Active(s) \/ session[s].answers = 0 \/ Peer(s) = None)
    <3>1. polite' = polite BY <1>3, <2>2 DEF Send
    <3>2. CASE peer[Peer(s)] = "open" BY <1>3, <2>2, <3>1, <3>2 DEF Send
    <3>3. CASE peer[Peer(s)] = "finished" BY <1>3, <2>2, <3>1, <3>3 DEF Send
    <3>4. CASE peer[Peer(s)] \notin {"open", "finished"} BY <1>3, <2>2, <3>1, <3>4 DEF Send
    <3> QED BY <3>2, <3>3, <3>4
  <2> QED BY <2>1, <2>2
<1>4. CASE \E s : Send(s)
  <2>1. PICK s : Send(s) BY <1>4
  <2> QED BY <1>3, <2>1
<1>5. ASSUME NEW c \in Conn, ServerSend(c) \/ ServerClose(c)
      PROVE  UNCHANGED <<polite, peer>> \/ (polite' = polite /\ peer' = [peer EXCEPT ![c] = "finished"])
  BY <1>5 DEF ServerSend, ServerClose, PeerClose
<1>6. ASSUME ClientDispatcher PROVE UNCHANGED <<polite, peer>>
  BY <1>6 DEF ClientDispatcher, EpollWait, InsertAsyncOperation, net
<1>7. ASSUME NEW w, \/ RemoveAsyncOperation(w) \/ Complete(w) \/ Recv(w) \/ Close(w)
                    \/ DestroySession(w) \/ UnLock(w) \/ InsertSimpleMsg(w)
      PROVE  UNCHANGED <<polite, peer>>
  BY <1>7 DEF RemoveAsyncOperation, Complete, Recv, Close, DestroySession, UnLock,
     InsertSimpleMsg, net
<1>8. ASSUME NEW w, ClientWorker(w) PROVE UNCHANGED <<polite, peer>> \/ \E s : Send(s)
  BY <1>7, <1>8 DEF ClientWorker, WorkerSend
<1>9. ASSUME ClientMain
      PROVE  \/ UNCHANGED <<polite, peer>>
             \/ \E c \in Conn : polite' = polite /\ peer' = [peer EXCEPT ![c] = "open"]
             \/ \E s : Send(s)
  <2>1. CASE Connect BY <2>1 DEF Connect
  <2>2. CASE RegisterConnect BY <2>2 DEF RegisterConnect, RegisterSocketOf, net
  <2>3. CASE HandleNet \/ LeaveLoop \/ DestroyAllSessions
    BY <2>3 DEF HandleNet, LeaveLoop, DestroyAllSessions, net
  <2>4. CASE FirstCheck \/ SecondCheck BY <2>4 DEF FirstCheck, SecondCheck, net
  <2>5. CASE MainSend BY <2>5 DEF MainSend
  <2>6. CASE InsertSimpleMsg(Main) \/ Close(Main) \/ DestroySession(Main) \/ UnLock(Main)
    BY <1>7, <2>6
  <2> QED BY <1>9, <2>1, <2>2, <2>3, <2>4, <2>5, <2>6 DEF ClientMain
<1>10. \/ UNCHANGED <<polite, peer>>
       \/ \E c \in Conn, a \in {"open", "finished"} :
            polite' = polite /\ peer' = [peer EXCEPT ![c] = a]
       \/ \E s : Send(s)
  BY <1>5, <1>6, <1>8, <1>9 DEF ClientNext
<1> QED BY <1>1, <1>2, <1>4, <1>10

LEMMA ClientMainStep ==
  ASSUME NEW c \in Conn, NEW s \in Slot, Sound(c, s), polite => Orderly(c, s), ClientMain, ~Connect
  PROVE  Sound(c, s)' /\ (polite => Orderly(c, s)')
<1>1. CASE RegisterConnect BY <1>1, ClientRegisterStep
<1>2. CASE HandleNet BY <1>2, ClientHandleNetStep
<1>3. CASE LeaveLoop BY <1>3, ClientLeaveLoopStep
<1>4. CASE DestroyAllSessions BY <1>4, ClientShutdownStep
<1>5. CASE InsertSimpleMsg(Main) /\ UNCHANGED client BY <1>5, ClientInsertMsgStep
<1>6. CASE FirstCheck /\ UNCHANGED client BY <1>6, ClientFirstCheckStep
<1>7. CASE SecondCheck /\ UNCHANGED client BY <1>7, ClientSecondCheckStep
<1>8. CASE MainSend /\ UNCHANGED client BY <1>8, ClientMainSendStep
<1>9. CASE Close(Main) /\ UNCHANGED client BY <1>9, ClientCloseStep, ClientAssumption
<1>10. CASE DestroySession(Main) /\ UNCHANGED client BY <1>10, ClientDestroyStep, ClientAssumption
<1>11. CASE UnLock(Main) /\ UNCHANGED client BY <1>11, ClientUnLockStep, ClientAssumption
<1> QED
  BY <1>1, <1>2, <1>3, <1>4, <1>5, <1>6, <1>7, <1>8, <1>9, <1>10, <1>11 DEF ClientMain

LEMMA ClientWorkerStep ==
  ASSUME OneWorker, NEW c \in Conn, NEW s \in Slot, Sound(c, s), polite => Orderly(c, s),
         NEW w \in Worker \ {Main}, ClientWorker(w)
  PROVE  Sound(c, s)' /\ (polite => Orderly(c, s)')
<1> UNCHANGED client BY DEF ClientWorker
<1>1. CASE RemoveAsyncOperation(w) BY <1>1, ClientRemoveStep
<1>2. CASE Complete(w) BY <1>2, ClientCompleteStep
<1>3. CASE Recv(w) BY <1>3, ClientRecvStep
<1>4. CASE WorkerSend(w) BY <1>4, ClientWorkerSendStep
<1>5. CASE Close(w) BY <1>5, ClientCloseStep
<1>6. CASE DestroySession(w) BY <1>6, ClientDestroyStep
<1>7. CASE UnLock(w) BY <1>7, ClientUnLockStep
<1> QED BY <1>1, <1>2, <1>3, <1>4, <1>5, <1>6, <1>7 DEF ClientWorker

LEMMA ClientInvStep ==
  ASSUME OneWorker, ClientInv, [ClientNext]_cvars PROVE ClientInv'
<1> USE DEF ClientInv
<1>1. CASE ClientNext
  <2> SUFFICES ASSUME Safe'
               PROVE  \/ Started'
                      \/ \E c \in Conn, s \in Slot : Sound(c, s)' /\ (polite => Orderly(c, s)')
    BY <1>1, PeersGrow
  <2>1. Safe BY <1>1, PeersGrow DEF Safe
  <2>2. CASE Started BY <1>1, <2>2, ClientFirstStep
  <2>3. ASSUME NEW c \in Conn, NEW s \in Slot, Sound(c, s), polite => Orderly(c, s)
        PROVE  \E d \in Conn, t \in Slot : Sound(d, t)' /\ (polite => Orderly(d, t)')
    <3> USE <2>3
    <3>1. CASE Connect BY <3>1, ClientConnectStep
    <3>2. CASE ~Connect
      <4>1. CASE ClientMain BY <3>2, <4>1, ClientMainStep
      <4>2. CASE \E w \in Worker \ {Main} : ClientWorker(w) BY <4>2, ClientWorkerStep
      <4>3. CASE ClientDispatcher
        <5>1. UNCHANGED client BY <4>3 DEF ClientDispatcher
        <5>2. CASE EpollWait BY <5>1, <5>2, ClientEpollWaitStep
        <5>3. CASE \E e \in events : InsertAsyncOperation(e)
          BY <5>1, <5>3, ClientInsertStep
        <5> QED BY <4>3, <5>2, <5>3 DEF ClientDispatcher
      <4>4. CASE \E d \in Conn : ServerSend(d) \/ ServerClose(d)
        BY <4>4, ServerSendStep, ServerCloseStep
      <4> QED BY <1>1, <4>1, <4>2, <4>3, <4>4 DEF ClientNext
    <3> QED BY <3>1, <3>2
  <2> QED BY <2>1, <2>2, <2>3
<1>2. CASE UNCHANGED cvars
  <2>1. /\ UNCHANGED <<polite, peer, sent, answered, unread, file, session, m_FreeList, freeIDs>>
        /\ UNCHANGED <<active, pc, op, fault, listenEdge, registered, edge, events, queue, msgs>>
        /\ UNCHANGED <<mainPc, msg, notified, m_Connected, m_pSession>>
    BY <1>2 DEF cvars, vars, net, kernel, mgr, main, client
  <2>2. Safe' <=> Safe BY <2>1 DEF Safe
  <2>3. Started => Started' BY <2>1 DEF Started
  <2>4. ASSUME NEW c \in Conn, NEW s \in Slot, Sound(c, s) PROVE Sound(c, s)'
    <3> USE <2>4 DEF Sound
    <3> QED BY <2>1, FrameFresh, FrameKernelOf, FrameSessionOf, FrameOpsOf, FrameMainOf,
          FrameConnecting, FrameGreeting, FrameToldOf
  <2>5. ASSUME NEW c \in Conn, NEW s \in Slot, Orderly(c, s) PROVE Orderly(c, s)'
    <3> USE <2>5 DEF Orderly
    <3> QED BY <2>1, FrameOneEach, FramePoolOf, FrameRecvLast, FrameDisconnecting
  <2> QED BY <2>1, <2>2, <2>3, <2>4, <2>5
<1> QED BY <1>1, <1>2

LEMMA ClientInvInit == ASSUME ClientInit PROVE ClientInv
<1> USE Constants
<1>1. peer \in [Conn -> {"none", "open", "finished", "reset"}] BY DEF ClientInit, InitAt
<1>2. session \in [Slot -> ClientSessions]
  <2>1. [m_ID |-> 1, m_Sock |-> 1, answers |-> 0, conn |-> None] \in ClientSessions
    BY DEF ClientSessions, Slot, FD
  <2> QED BY <2>1 DEF ClientInit, InitAt
<1>3. polite \in BOOLEAN BY ReactorAssumption DEF ClientInit, InitAt
<1>4. Started BY <1>2, <1>3 DEF ClientInit, InitAt, Started
<1> QED BY <1>1, <1>4 DEF ClientInv

LEMMA ClientInvAlways == ASSUME OneWorker PROVE ClientSpec => []ClientInv
  BY ClientInvInit, ClientInvStep, PTL DEF ClientSpec
-----------------------------------------------------------------------------
\* Against a server that leaves closing to the client, no operation is under way for
\* a session that Disconnect destroys on the main thread, Connect finds a session
\* every time, and Shutdown destroys none twice: for any number of sessions,
\* connections, messages and failing calls.
THEOREM DisconnectNeverFaults == ASSUME OneWorker PROVE ClientSpec => []ClientNeverFaults
<1>1. ClientInv => ClientNeverFaults
  BY DEF ClientInv, ClientNeverFaults, Safe, Started, Orderly, OneEach
<1> QED BY <1>1, ClientInvAlways, PTL

\* The application is told of a connection in the order connect, messages, close, and
\* of the close once, although main thread and worker may both close the session.
THEOREM ToldInOrder == ASSUME OneWorker PROVE ClientSpec => []ConnectRecvClose
<1>1. ClientInv => ConnectRecvClose
  <2> SUFFICES ASSUME ClientInv, polite \/ Current(1)
               PROVE  \A c \in Conn : \A i \in 1 .. Len(notified[c]) :
                        /\ notified[c][i] = "CONNECT" <=> i = 1
                        /\ notified[c][i] = "CLOSE" => i = Len(notified[c])
    BY DEF ConnectRecvClose
  <2>1. Safe
    <3>1. \A c \in Conn : c # 1 => c > 1 BY Constants
    <3> QED BY <3>1 DEF Safe, Current
  <2>2. CASE Started BY <2>2 DEF Started
  <2>3. CASE \E c \in Conn, s \in Slot : Sound(c, s) BY <2>3 DEF Sound, ToldOf
  <2> QED BY <2>1, <2>2, <2>3 DEF ClientInv
<1> QED BY <1>1, ClientInvAlways, PTL
=============================================================================
