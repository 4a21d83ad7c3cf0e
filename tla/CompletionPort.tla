---------------------------- MODULE CompletionPort ----------------------------
(***************************************************************************)
(* The Windows server: overlapped operations that the kernel completes     *)
(* into a completion port, worker threads that take completions from it,   *)
(* AcceptHandler, RecvHandler, SendHandler and CloseHandler, and the main  *)
(* thread, whose handler answers every message.                            *)
(*                                                                         *)
(* Every handler runs under the session's locks and is one step, except    *)
(* AcceptHandler, whose session others can see before it is registered.    *)
(* Data is counted: one unit for a request, one for an answer.             *)
(***************************************************************************)
EXTENDS Integers, Sequences, FiniteSets

CONSTANTS
  Worker,
  Amount,       \* sessions in the pool
  ConnMax,      \* bound: connections ever made
  RequestMax    \* bound: requests per connection

ASSUME CompletionPortAssumption ==
  IsFiniteSet(Worker) /\ Amount \in Nat \ {0} /\ ConnMax \in Nat /\ RequestMax \in Nat

Conn == 1 .. ConnMax
Slot == 1 .. Amount
None == 0       \* no session (a NULL completion key), no connection

VARIABLES
  \* the peers
  peer,         \* per connection: "none", "open" or "closed"
  sent,         \* per connection: requests sent
  answered,     \* per connection: answers the peer got
  \* the kernel
  unread,       \* per connection: requests not yet given to a WSARecv
  backlog,      \* connections no AcceptEx has taken
  pending,      \* operations in progress
  port,         \* the completion port's queue
  \* the process
  session,      \* per slot: its connection, m_Sending and the data in m_SendBuffer
  msgs,         \* s_MsgQueue: per message its type, Session* and (ghost) connection
  pc, op,       \* per worker: what it does, the completion it took
  fault,        \* a Session* was used after the session's slot was given back
  stopped,      \* ghost: an accept ended without the next AcceptEx
  deaf          \* ghost: the connections without a WSARecv after a failure

kernel == <<unread, backlog, pending, port>>
vars == <<peer, sent, answered, kernel, session, msgs, pc, op, fault, stopped, deaf>>

\* An operation: its completion key with (ghost) the connection it was posted
\* for, its kind and the bytes to transfer or transferred; ok is what
\* GetQueuedCompletionStatus will return.
Operation(key, c, kind, n) == [key |-> key, conn |-> c, kind |-> kind, bytes |-> n, ok |-> TRUE]
AcceptEx == Operation(None, None, "accept", 0)
Free == [conn |-> None, sending |-> FALSE, data |-> 0]

Init ==
  /\ peer = [c \in Conn |-> "none"]
  /\ sent = [c \in Conn |-> 0] /\ answered = sent /\ unread = sent
  /\ backlog = << >> /\ pending = {AcceptEx} /\ port = << >>
  /\ session = [s \in Slot |-> Free]
  /\ msgs = << >>
  /\ pc = [w \in Worker |-> "idle"] /\ op = [w \in Worker |-> AcceptEx]
  /\ fault = FALSE /\ stopped = FALSE /\ deaf = {}
-----------------------------------------------------------------------------
(* Peers and the kernel *)

PeerConnect(c) ==
  /\ peer[c] = "none" /\ \A d \in Conn : d < c => peer[d] # "none"
  /\ peer' = [peer EXCEPT ![c] = "open"]
  /\ backlog' = Append(backlog, c)
  /\ UNCHANGED <<sent, answered, unread, pending, port, session, msgs, pc, op, fault,
                 stopped, deaf>>

PeerSend(c) ==
  /\ peer[c] = "open" /\ sent[c] < RequestMax
  /\ sent' = [sent EXCEPT ![c] = @ + 1]
  /\ unread' = [unread EXCEPT ![c] = @ + 1]
  /\ UNCHANGED <<peer, answered, backlog, pending, port, session, msgs, pc, op, fault,
                 stopped, deaf>>

PeerClose(c) ==
  /\ peer[c] = "open"
  /\ peer' = [peer EXCEPT ![c] = "closed"]
  /\ UNCHANGED <<sent, answered, kernel, session, msgs, pc, op, fault, stopped, deaf>>

\* The kernel is done with o and queues its completion.
Finish(o, completion) ==
  /\ o \in pending
  /\ pending' = pending \ {o}
  /\ port' = Append(port, completion)

\* The AcceptEx of a connection the peer has closed may fail.
KernelAccept ==
  /\ ~fault
  /\ backlog # << >>
  /\ \E good \in {TRUE, peer[Head(backlog)] = "open"} :
       Finish(AcceptEx, [AcceptEx EXCEPT !.conn = Head(backlog), !.ok = good])
  /\ backlog' = Tail(backlog)
  /\ UNCHANGED <<peer, sent, answered, unread, session, msgs, pc, op, fault, stopped, deaf>>

\* A WSARecv gets all there is; zero bytes are the end of the stream.
KernelRecv(o) ==
  /\ ~fault
  /\ o.kind = "recv"
  /\ unread[o.conn] > 0 \/ (unread[o.conn] = 0 /\ peer[o.conn] = "closed")
  /\ Finish(o, [o EXCEPT !.bytes = unread[o.conn]])
  /\ unread' = [unread EXCEPT ![o.conn] = 0]
  /\ UNCHANGED <<peer, sent, answered, backlog, session, msgs, pc, op, fault, stopped, deaf>>

\* A WSASend may transfer a part only, and fails when the peer is gone.
KernelSend(o) ==
  /\ ~fault
  /\ o.kind = "send"
  /\ \/ /\ peer[o.conn] = "open"
        /\ \E n \in 1 .. o.bytes :
             /\ Finish(o, [o EXCEPT !.bytes = n])
             /\ answered' = [answered EXCEPT ![o.conn] = @ + n]
     \/ /\ peer[o.conn] = "closed"
        /\ Finish(o, [o EXCEPT !.bytes = 0, !.ok = FALSE])
        /\ UNCHANGED answered
  /\ UNCHANGED <<peer, sent, unread, backlog, session, msgs, pc, op, fault, stopped, deaf>>
-----------------------------------------------------------------------------
(* WorkerThread::Run *)

Goto(w, label) == pc' = [pc EXCEPT ![w] = label]

GetQueuedCompletionStatus(w) ==
  /\ ~fault
  /\ pc[w] = "idle" /\ port # << >>
  /\ op' = [op EXCEPT ![w] = Head(port)]
  /\ port' = Tail(port)
  /\ Goto(w, IF Head(port).key = None THEN "accept" ELSE "handle")
  /\ UNCHANGED <<peer, sent, answered, unread, backlog, pending, session, msgs, fault,
                 stopped, deaf>>

\* The session the operation was posted for still exists.
Good(o) == session[o.key].conn = o.conn

\* Anything done through the key of a destroyed session has no defined outcome.
Stale(w) ==
  /\ ~fault
  /\ pc[w] = "handle" /\ ~Good(op[w])
  /\ fault' = TRUE
  /\ UNCHANGED <<peer, sent, answered, kernel, session, msgs, pc, op, stopped, deaf>>

\* Mutant: zero bytes go to the RecvHandler.
ClosesOnErrorOnly(o) == ~o.ok

\* Run calls Close for a failure and for zero bytes, Complete otherwise.
Closes(o) == ~o.ok \/ o.bytes = 0
-----------------------------------------------------------------------------
(* AcceptHandler::Complete *)

\* The AcceptEx failed (and has no session to close), setsockopt or getsockname
\* fails, or CreateSession returns NULL: there is no other AcceptEx.
AcceptFails(w) ==
  /\ ~fault
  /\ pc[w] = "accept"
  /\ ~op[w].ok \/ peer[op[w].conn] = "closed" \/ \A s \in Slot : session[s].conn # None
  /\ stopped' = TRUE
  /\ Goto(w, "idle")
  /\ UNCHANGED <<peer, sent, answered, kernel, session, msgs, op, fault, deaf>>

Msg(type, s, c) == [type |-> type, session |-> s, conn |-> c]

\* CreateSession and the notification.
CreateSession(w) ==
  /\ ~fault
  /\ pc[w] = "accept" /\ op[w].ok
  /\ \E s \in Slot :
       /\ session[s].conn = None
       /\ session' = [session EXCEPT ![s] = [Free EXCEPT !.conn = op[w].conn]]
       /\ op' = [op EXCEPT ![w].key = s]
       /\ msgs' = Append(msgs, Msg("accept", s, op[w].conn))
  /\ Goto(w, "register")
  /\ UNCHANGED <<peer, sent, answered, kernel, fault, stopped, deaf>>

\* Mutant: no WSARecv follows when several messages came at once.
RepostedForOne(o) == IF o.bytes > 1 THEN {} ELSE {Operation(o.key, o.conn, "recv", 0)}

Reposted(o) == {Operation(o.key, o.conn, "recv", 0)}

\* An error of WSARecv is logged, and no caller looks at the result.
PostRecvOperation(o, others) ==
  \/ pending' = pending \cup Reposted(o) \cup others /\ UNCHANGED deaf
  \/ /\ peer[o.conn] = "closed"
     /\ pending' = pending \cup others
     /\ deaf' = deaf \cup {o.conn}

\* Mutant: the last AcceptEx is never followed by another.
NextAcceptNever == {}

NextAccept == {AcceptEx}

\* RegisterSocket, PostRecvOperation and Accept; the first and the last may fail.
Register(w) ==
  /\ ~fault
  /\ pc[w] = "register"
  /\ \/ PostRecvOperation(op[w], NextAccept) /\ UNCHANGED stopped
     \/ PostRecvOperation(op[w], {}) /\ stopped' = TRUE
     \/ deaf' = deaf \cup {op[w].conn} /\ stopped' = TRUE /\ UNCHANGED pending
  /\ Goto(w, "idle")
  /\ UNCHANGED <<peer, sent, answered, unread, backlog, port, session, msgs, op, fault>>
-----------------------------------------------------------------------------
(* RecvHandler, SendHandler and CloseHandler *)

\* ExtractMsg, and the next PostRecvOperation.
RecvHandler(w) ==
  LET o == op[w] IN
  /\ ~fault
  /\ pc[w] = "handle" /\ Good(o) /\ o.kind = "recv" /\ ~Closes(o)
  /\ msgs' = msgs \o [i \in 1 .. o.bytes |-> Msg("recv", o.key, o.conn)]
  /\ PostRecvOperation(o, {})
  /\ Goto(w, "idle")
  /\ UNCHANGED <<peer, sent, answered, unread, backlog, port, session, op, fault,
                 stopped>>

\* PostSendOperation for the n units in the buffer of s; an error of WSASend is
\* logged and passed over by every caller.
PostSendOperation(s, n) ==
  \/ pending' = pending \cup {Operation(s, session[s].conn, "send", n)}
  \/ peer[session[s].conn] = "closed" /\ UNCHANGED pending

\* What IncreaseBegin leaves in the send buffer.
Left(s, n) == session[s].data - n

SendHandler(w) ==
  LET o == op[w]
      left == Left(o.key, o.bytes)
  IN
  /\ ~fault
  /\ pc[w] = "handle" /\ Good(o) /\ o.kind = "send" /\ ~Closes(o)
  /\ \/ /\ left > 0
        /\ session' = [session EXCEPT ![o.key].data = left]
        /\ PostSendOperation(o.key, left)
     \/ /\ left = 0
        /\ session' = [session EXCEPT ![o.key].data = 0, ![o.key].sending = FALSE]
        /\ UNCHANGED pending
  /\ Goto(w, "idle")
  /\ UNCHANGED <<peer, sent, answered, unread, backlog, port, msgs, op, fault, stopped, deaf>>

\* closesocket aborts what is pending on the socket, in some order.
Aborted(c) == {o \in pending : o.conn = c}
Orders(S) == {q \in [1 .. Cardinality(S) -> S] : \A o \in S : \E i \in DOMAIN q : q[i] = o}

\* SetSessionActive, closesocket, the notification and DestroySession.
CloseHandler(w) ==
  LET o == op[w] IN
  /\ ~fault
  /\ pc[w] = "handle" /\ Good(o) /\ Closes(o)
  /\ pending' = pending \ Aborted(o.conn)
  /\ \E q \in Orders({[a EXCEPT !.ok = FALSE, !.bytes = 0] : a \in Aborted(o.conn)}) :
       port' = port \o q
  /\ session' = [session EXCEPT ![o.key] = Free]
  /\ Goto(w, "idle")
  /\ msgs' = Append(msgs, Msg("close", None, o.conn))
  /\ UNCHANGED <<peer, sent, answered, unread, backlog, op, fault, stopped, deaf>>
-----------------------------------------------------------------------------
(* The main thread *)

\* Mutant: m_Sending is not looked at.
MayPostAlways(s) == TRUE

MayPost(s) == ~session[s].sending

\* OnAccept and OnClose do nothing.
Notified ==
  /\ ~fault
  /\ msgs # << >> /\ Head(msgs).type # "recv"
  /\ msgs' = Tail(msgs)
  /\ UNCHANGED <<peer, sent, answered, kernel, session, pc, op, fault, stopped, deaf>>

\* OnReceive and SendMsg.  A destroyed session fails the check of its id; one
\* whose slot has been given to another connection is a fault here, and Reactor
\* follows what comes of it.
SendMsg ==
  LET s == Head(msgs).session IN
  /\ ~fault
  /\ msgs # << >> /\ Head(msgs).type = "recv"
  /\ msgs' = Tail(msgs)
  /\ \/ /\ session[s].conn = None
        /\ UNCHANGED <<session, pending, fault>>
     \/ /\ session[s].conn \notin {None, Head(msgs).conn}
        /\ fault' = TRUE
        /\ UNCHANGED <<session, pending>>
     \/ /\ session[s].conn = Head(msgs).conn
        /\ session' = [session EXCEPT ![s].data = @ + 1, ![s].sending = TRUE]
        /\ \/ MayPost(s) /\ PostSendOperation(s, session[s].data + 1)
           \/ ~MayPost(s) /\ UNCHANGED pending
        /\ UNCHANGED fault
  /\ UNCHANGED <<peer, sent, answered, unread, backlog, port, pc, op, stopped, deaf>>
-----------------------------------------------------------------------------
WorkerStep(w) ==
  \/ GetQueuedCompletionStatus(w) \/ Stale(w)
  \/ AcceptFails(w) \/ CreateSession(w) \/ Register(w)
  \/ RecvHandler(w) \/ SendHandler(w) \/ CloseHandler(w)

KernelStep == KernelAccept \/ \E o \in pending : KernelRecv(o) \/ KernelSend(o)

PeerStep == \E c \in Conn : PeerConnect(c) \/ PeerSend(c) \/ PeerClose(c)

Next == PeerStep \/ KernelStep \/ Notified \/ SendMsg \/ \E w \in Worker : WorkerStep(w)

\* Threads are scheduled and the kernel completes what it can; peers do as they
\* please.
Fairness ==
  /\ WF_vars(KernelAccept) /\ WF_vars(Notified \/ SendMsg)
  /\ \A s \in Slot, c \in Conn :
       /\ WF_vars(\E o \in pending : o.key = s /\ o.conn = c /\ KernelRecv(o))
       /\ WF_vars(\E o \in pending : o.key = s /\ o.conn = c /\ KernelSend(o))
  /\ \A w \in Worker : WF_vars(WorkerStep(w))

Spec == Init /\ [][Next]_vars /\ Fairness
-----------------------------------------------------------------------------
(* Properties *)

RangeOf(q) == {q[i] : i \in 1 .. Len(q)}

\* The operations of connection c on their way: in the kernel, in the port, in a
\* worker's hands.  Each has its place in the count.
Outstanding(c, kind) ==
  Cardinality({o \in pending : o.conn = c /\ o.kind = kind})
  + Cardinality({i \in 1 .. Len(port) : port[i].conn = c /\ port[i].kind = kind})
  + Cardinality({w \in Worker : pc[w] = "handle" /\ op[w].conn = c /\ op[w].kind = kind})

Registered(s) ==
  session[s].conn # None /\ \A w \in Worker : pc[w] = "register" => op[w].key # s

\* A registered session has exactly one WSARecv on its way, although
\* m_RecvCompleteOperation is one structure used again and again: the peer's next
\* request, or its close, is noticed, and no two receives write into the buffer.
\* After a WSARecv that failed, or a failed registration, it has none.
OneRecv ==
  ~fault => \A s \in Slot : Registered(s) =>
    Outstanding(session[s].conn, "recv") = IF session[s].conn \in deaf THEN 0 ELSE 1

\* m_Sending says whether a WSASend is on its way, and data in the send buffer
\* means that one is, whichever threads send meanwhile (until the peer is gone,
\* when a failed WSASend leaves m_Sending set).
SendingIsTrue ==
  ~fault => \A s \in Slot : LET c == session[s].conn IN
    c # None =>
      /\ Outstanding(c, "send") <= 1
      /\ session[s].data > 0 => session[s].sending
      /\ peer[c] = "open" => (session[s].sending <=> Outstanding(c, "send") = 1)

\* Unless an accept failed or AcceptHandler returned early, an AcceptEx is on its
\* way or a worker is in AcceptHandler, and only one: m_AcceptSock belongs to it.
AcceptGoesOn ==
  LET accepts ==
        Cardinality(pending \cap {AcceptEx})
        + Cardinality({i \in 1 .. Len(port) : port[i].kind = "accept"})
        + Cardinality({w \in Worker : pc[w] \in {"accept", "register"}})
  IN accepts = IF stopped THEN 0 ELSE 1

\* The exceptions of the liveness properties.
Undone == fault \/ stopped

\* Every request is answered, also when requests pile up behind a WSASend that
\* transfers a part only, unless the peer closes.
RequestsAnswered ==
  \A c \in Conn : \A n \in 1 .. RequestMax :
    (sent[c] = n) ~> (answered[c] >= n \/ peer[c] = "closed" \/ Undone)

\* The session of a peer that has closed goes back to the pool, unless no WSARecv
\* could be posted for it.
ClosedIsReclaimed ==
  \A c \in Conn :
    (peer[c] = "closed") ~>
      (Undone \/ c \in deaf \/ (c \notin RangeOf(backlog) /\ \A s \in Slot : session[s].conn # c))
=============================================================================
