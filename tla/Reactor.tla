------------------------------- MODULE Reactor -------------------------------
(***************************************************************************)
(* The life of sessions in a Linux server: peers, the kernel's sockets and *)
(* edge-triggered epoll set, the dispatcher thread, the worker threads     *)
(* with AcceptCompleteOperation and SessionCompleteOperation, and the main *)
(* thread in NetLoop with a handler that answers every message, as         *)
(* SampleServer does.                                                      *)
(*                                                                         *)
(* WorkerPool has the queue's locks and semaphore in detail and SessionMgr *)
(* those of the session pool; here inserting, removing, CreateSession and  *)
(* RemoveSession are single steps.  Recv, Send and the copying half of     *)
(* SendMsg are single steps under the session's lock; Close keeps both     *)
(* locks over three, and gives them back in memory it has freed.           *)
(*                                                                         *)
(* A Session* is a slot of the pool.  A freed slot keeps its contents, but *)
(* the allocator's link overwrites its first word, the virtual table of    *)
(* m_SessionCompleteOperation: a virtual Complete on it faults, a direct   *)
(* one runs on what is there.  Sockets are numbered as the kernel does, by *)
(* the lowest free number.                                                 *)
(***************************************************************************)
EXTENDS Integers, Sequences, FiniteSets

CONSTANTS
  Worker,
  Amount,       \* sessions in the pool
  ConnMax,      \* bound: connections ever made
  RequestMax,   \* bound: requests per connection
  Polite,       \* TRUE in it: peers that send when they have no answer to wait
                \* for, and close when each of their requests was answered;
                \* FALSE: peers that send and close at will
  Crowded,      \* peers connect when no session is free
  FailMax,      \* bound: system calls that fail
  ACCEPT        \* the AcceptCompleteOperation

Conn == 1 .. ConnMax
Slot == 1 .. Amount
FD == 1 .. ConnMax
None == 0       \* no connection, no session, no thread

ASSUME ReactorAssumption ==
  /\ Amount \in Nat \ {0} /\ ConnMax \in Nat \ {0} /\ RequestMax \in Nat
  /\ Polite \subseteq BOOLEAN /\ Crowded \in BOOLEAN /\ FailMax \in Nat
  /\ ACCEPT \notin Nat

VARIABLES
  \* the peers and the network
  polite,      \* their manners
  peer,        \* per connection: "none", "open", "finished" or "reset"
  sent,        \* per connection: requests sent
  answered,    \* per connection: answers that reached the peer
  unread,      \* per connection: requests in the kernel's receive buffer
  \* the kernel
  file,        \* per socket number: the connection or None
  backlog,     \* connections not yet accepted
  listener,    \* m_ListenSock: "none", "listening", "registered", or "deaf" when
               \* it could not be registered
  listenEdge,  \* the listening socket is in epoll's ready list
  registered,  \* per connection: the Session* in its epoll_event, or None
  edge,        \* per connection: it is in epoll's ready list
  \* the process
  events,      \* what the dispatcher has left of the last epoll_wait
  queue,       \* s_AsyncOperationQueue
  session,     \* per slot: m_ID, m_Sock, m_SendBuffer and (ghost) its peer
  m_FreeList,  \* the pool's free slots
  freeIDs,     \* m_pFreeSessionID, top first
  active,      \* m_SessionActiveStatus
  owner,       \* per slot: the thread in Close, which owns both locks
  msgs,        \* s_MsgQueue
  pc, op,      \* per worker
  mainPc, msg, id, \* the main thread: msg is pMsg, id SendMsg's sessionID
  fault,       \* the process died in a wild call or a NULL dereference
  failures,    \* system calls that have failed
  notified,    \* ghost, per connection: the message types queued for it
  stranded     \* ghost: connections left by a failure of the accept loop

net == <<polite, peer, sent, answered, unread>>
kernel == <<file, backlog, listener, listenEdge, registered, edge>>
failed == <<failures, stranded>>
mgr == <<m_FreeList, freeIDs, active>>
main == <<mainPc, msg, id>>
vars == <<net, kernel, events, queue, session, mgr, owner, msgs, pc, op, main,
          fault, notified, failed>>

Reference(s, type, c) == [slot |-> s, type |-> type, conn |-> c]
RangeOf(s) == {s[i] : i \in 1 .. Len(s)}
Least(S) == CHOOSE x \in S : \A y \in S : x <= y

\* A process, client or server, with the main thread at label.
InitAt(label) ==
  /\ polite \in Polite
  /\ peer = [c \in Conn |-> "none"]
  /\ sent = [c \in Conn |-> 0] /\ answered = sent /\ unread = sent
  /\ file = [f \in FD |-> None]
  /\ backlog = << >> /\ listener = "none" /\ listenEdge = FALSE
  /\ registered = [c \in Conn |-> None] /\ edge = [c \in Conn |-> FALSE]
  /\ events = {} /\ queue = << >>
  /\ session = [s \in Slot |-> [m_ID |-> 1, m_Sock |-> 1, answers |-> 0, conn |-> None]]
  /\ m_FreeList = [i \in 1 .. Amount |-> i]
  /\ freeIDs = [i \in 1 .. Amount |-> Amount + 1 - i]
  /\ active = [i \in Slot |-> FALSE]
  /\ owner = [s \in Slot |-> None]
  /\ msgs = << >>
  /\ pc = [w \in Worker |-> "idle"] /\ op = [w \in Worker |-> Reference(ACCEPT, "", None)]
  /\ mainPc = label /\ msg = Reference(None, "", None) /\ id = 1
  /\ fault = FALSE
  /\ notified = [c \in Conn |-> << >>]
  /\ failures = 0 /\ stranded = {}

Init == InitAt("Bind")
-----------------------------------------------------------------------------
(* Peers *)

\* Something happened on c: epoll lists it if it is registered.
Arm(c) == edge' = [edge EXCEPT ![c] = @ \/ registered[c] # None]

PeerConnect(c) ==
  /\ listener # "none"
  /\ peer[c] = "none" /\ \A d \in Conn : d < c => peer[d] # "none"
  /\ ~Crowded => Len(backlog) < Len(m_FreeList)
  /\ peer' = [peer EXCEPT ![c] = "open"]
  /\ backlog' = Append(backlog, c)
  /\ listenEdge' = (listener = "registered")
  /\ UNCHANGED <<polite, sent, answered, unread, file, listener, registered, edge,
                 events, queue, session, mgr, owner, msgs, pc, op, main, fault,
                 notified, failed>>

PeerSend(c) ==
  /\ peer[c] = "open" /\ sent[c] < RequestMax
  /\ polite => sent[c] = answered[c]
  /\ sent' = [sent EXCEPT ![c] = @ + 1]
  /\ unread' = [unread EXCEPT ![c] = @ + 1]
  /\ Arm(c)
  /\ UNCHANGED <<polite, peer, answered, file, backlog, listener, listenEdge,
                 registered, events, queue, session, mgr, owner, msgs, pc, op, main,
                 fault, notified, failed>>

PeerClose(c) ==
  /\ peer[c] = "open"
  /\ polite => sent[c] = answered[c] /\ sent[c] > 0
  /\ peer' = [peer EXCEPT ![c] = "finished"]
  /\ Arm(c)
  /\ UNCHANGED <<polite, sent, answered, unread, file, backlog, listener, listenEdge,
                 registered, events, queue, session, mgr, owner, msgs, pc, op, main,
                 fault, notified, failed>>
-----------------------------------------------------------------------------
(* Dispatcher::Run *)

\* What epoll_wait reports of a registered socket, which is always writable too.
EpollIn(c) == unread[c] > 0 \/ peer[c] # "open"
EpollErr(c) == peer[c] = "reset"

\* Mutants: EPOLLOUT is tested on its own, and it is tested before EPOLLIN.
OperationTypesBoth(c) ==
  (IF EpollErr(c) THEN {"ERROR"} ELSE IF EpollIn(c) THEN {"RECV"} ELSE {}) \cup {"SEND"}
OperationTypesOutFirst(c) == IF EpollErr(c) THEN {"ERROR"} ELSE {"SEND"}

\* The operations Run inserts for what epoll_wait reports of c.
OperationTypes(c) ==
  IF EpollErr(c) THEN {"ERROR"} ELSE IF EpollIn(c) THEN {"RECV"} ELSE {"SEND"}

EpollWait ==
  LET ready == {c \in Conn : edge[c]} IN
  /\ ~fault
  /\ events = {}
  /\ listenEdge \/ ready # {}
  /\ events' = (UNION {{Reference(registered[c], t, c) : t \in OperationTypes(c)} : c \in ready})
               \cup {Reference(ACCEPT, "RECV", None) : x \in {listenEdge} \ {FALSE}}
  /\ edge' = [c \in Conn |-> FALSE]
  /\ listenEdge' = FALSE
  /\ UNCHANGED <<net, file, backlog, listener, registered, queue, session, mgr, owner,
                 msgs, pc, op, main, fault, notified, failed>>

InsertAsyncOperation(e) ==
  /\ ~fault
  /\ e \in events
  /\ events' = events \ {e}
  /\ queue' = Append(queue, e)
  /\ UNCHANGED <<net, kernel, session, mgr, owner, msgs, pc, op, main, fault,
                 notified, failed>>
-----------------------------------------------------------------------------
(* The functions of SessionCompleteOperation, for any thread that runs them *)

Notify(c, type) == notified' = [notified EXCEPT ![c] = Append(@, type)]

\* The connection behind the session's socket number, None if it is closed.
Peer(s) == file[session[s].m_Sock]

Active(s) == active[session[s].m_ID]

Unlocked(s) == owner[s] = None

\* Send: what is in the buffer goes to whoever has the socket number now.  A
\* peer that has closed answers it with a reset; sending to a reset peer raises
\* SIGPIPE, which nobody handles.
Send(s) ==
  LET c == Peer(s) IN
  IF ~Active(s) \/ session[s].answers = 0 \/ c = None
  THEN UNCHANGED <<net, edge, session, fault>>
  ELSE /\ session' = [session EXCEPT ![s].answers = 0]
       /\ CASE peer[c] = "open" ->
                 /\ answered' = [answered EXCEPT ![c] = @ + session[s].answers]
                 /\ UNCHANGED <<peer, edge, fault>>
            [] peer[c] = "finished" ->
                 /\ peer' = [peer EXCEPT ![c] = "reset"]
                 /\ Arm(c)
                 /\ UNCHANGED <<answered, fault>>
            [] OTHER ->
                 /\ fault' = TRUE
                 /\ UNCHANGED <<peer, answered, edge>>
       /\ UNCHANGED <<polite, sent, unread>>
-----------------------------------------------------------------------------
(* WorkerThread::Run *)

Goto(w, label) == pc' = [pc EXCEPT ![w] = label]

RemoveAsyncOperation(w) ==
  /\ ~fault
  /\ pc[w] = "idle" /\ queue # << >>
  /\ op' = [op EXCEPT ![w] = Head(queue)]
  /\ queue' = Tail(queue)
  /\ Goto(w, "call")
  /\ UNCHANGED <<net, kernel, events, session, mgr, owner, msgs, main, fault,
                 notified, failed>>

\* The virtual call of Complete.
Complete(w) ==
  /\ ~fault
  /\ pc[w] = "call"
  /\ IF op[w].slot # ACCEPT /\ op[w].slot \in RangeOf(m_FreeList)
     THEN fault' = TRUE /\ pc' = pc
     ELSE fault' = fault /\ Goto(w, IF op[w].slot = ACCEPT THEN "ACCEPT" ELSE op[w].type)
  /\ UNCHANGED <<net, kernel, events, queue, session, mgr, owner, msgs, op, main,
                 notified, failed>>

\* Mutant: the socket is registered before the application is notified.
RegisterThenNotify(label) ==
  CASE label = "ACCEPT"   -> "REGISTER"
    [] label = "REGISTER" -> "NOTIFY"
    [] label = "NOTIFY"   -> "ACCEPT"

\* The order within the loop of AcceptCompleteOperation::Complete.
After(label) ==
  CASE label = "ACCEPT"   -> "NOTIFY"
    [] label = "NOTIFY"   -> "REGISTER"
    [] label = "REGISTER" -> "ACCEPT"

\* The socket of connection c gets a number and CreateSession makes a session,
\* whose NULL is logged and then dereferenced.
CreateSession(w, type, c) ==
  LET f == Least({g \in FD : file[g] = None})
      s == Head(m_FreeList)
      i == Head(freeIDs)
  IN /\ file' = [file EXCEPT ![f] = c]
     /\ IF m_FreeList = << >>
        THEN /\ fault' = TRUE
             /\ UNCHANGED <<session, mgr, owner, pc, op>>
        ELSE /\ m_FreeList' = Tail(m_FreeList)
             /\ freeIDs' = Tail(freeIDs)
             /\ active' = [active EXCEPT ![i] = TRUE]
             /\ session' = [session EXCEPT ![s] =
                  [m_ID |-> i, m_Sock |-> f, answers |-> 0, conn |-> c]]
             /\ owner' = [owner EXCEPT ![s] = None]
             /\ op' = [op EXCEPT ![w] = Reference(s, type, c)]
             /\ Goto(w, After("ACCEPT"))
             /\ fault' = fault

Accept(w) ==
  /\ ~fault
  /\ pc[w] = "ACCEPT" /\ backlog # << >>
  /\ backlog' = Tail(backlog)
  /\ CreateSession(w, "ACCEPT", Head(backlog))
  /\ stranded' = stranded \ {Head(backlog)}
  /\ UNCHANGED <<net, listener, listenEdge, registered, edge, events, queue, msgs,
                 main, notified, failures>>

InsertSimpleMsg(w) ==
  /\ ~fault
  /\ pc[w] = "NOTIFY"
  /\ msgs' = Append(msgs, op[w])
  /\ Notify(op[w].conn, op[w].type)
  /\ Goto(w, After("NOTIFY"))
  /\ UNCHANGED <<net, kernel, events, queue, session, mgr, owner, op, main, fault,
                 failed>>

\* A system call fails and leaves the connections in C behind.
Fails(C) ==
  /\ failures < FailMax
  /\ failures' = failures + 1
  /\ stranded' = stranded \cup C

\* accept fails: EWOULDBLOCK when the backlog is empty, or another error.
AcceptDone(w) ==
  /\ ~fault
  /\ pc[w] = "ACCEPT"
  /\ \/ backlog = << >> /\ UNCHANGED failed
     \/ backlog # << >> /\ Fails(RangeOf(backlog))
  /\ Goto(w, "idle")
  /\ UNCHANGED <<net, kernel, events, queue, session, mgr, owner, msgs, op, main,
                 fault, notified>>

\* A new socket is writable, so it is ready at once.  On success the thread goes
\* on at label; a failure ends the accept loop.
RegisterSocketOf(w, label) ==
  /\ ~fault
  /\ pc[w] = "REGISTER"
  /\ \/ /\ registered' = [registered EXCEPT ![op[w].conn] = op[w].slot]
        /\ edge' = [edge EXCEPT ![op[w].conn] = TRUE]
        /\ Goto(w, label)
        /\ UNCHANGED failed
     \/ /\ Fails({op[w].conn} \cup RangeOf(backlog))
        /\ Goto(w, "idle")
        /\ UNCHANGED <<registered, edge>>
  /\ UNCHANGED <<net, file, backlog, listener, listenEdge, events, queue, session,
                 mgr, owner, msgs, op, fault, notified>>

RegisterSocket(w) ==
  RegisterSocketOf(w, After("REGISTER")) /\ UNCHANGED main

\* A socket blocks until RegisterSocket has made it non-blocking.
WouldNotBlock(c) == c = None \/ registered[c] # None \/ peer[c] # "open"

\* Mutant: one message too many is taken out of the buffer.
ExtractedTwice(s, c) == [i \in 1 .. unread[c] + 1 |-> Reference(s, "RECV", c)]

\* ExtractMsg: a message for each request in the receive buffer.
Extracted(s, c) == [i \in 1 .. unread[c] |-> Reference(s, "RECV", c)]

\* Mutant: the end of the stream queues no operation.
AfterEndUnqueued(s) == queue

\* The end of the stream queues the session's CLOSE.
AfterEnd(s) == Append(queue, Reference(s, "CLOSE", session[s].conn))

Recv(w) ==
  LET s == op[w].slot
      c == Peer(s)
  IN
  /\ ~fault
  /\ pc[w] = "RECV" /\ Unlocked(s)
  /\ Active(s) => WouldNotBlock(c)
  /\ Goto(w, "idle")
  /\ \/ \* an error of recv is logged, no more
        /\ ~Active(s) \/ c = None \/ (c # None /\ peer[c] = "reset")
        /\ UNCHANGED <<unread, queue, active, msgs, notified>>
     \/ \* the requests read before the end of the stream stay in the buffer
        /\ Active(s) /\ c # None /\ peer[c] = "finished"
        /\ unread' = [unread EXCEPT ![c] = 0]
        /\ active' = [active EXCEPT ![session[s].m_ID] = FALSE]
        /\ queue' = AfterEnd(s)
        /\ UNCHANGED <<msgs, notified>>
     \/ \* EWOULDBLOCK: ExtractMsg
        /\ Active(s) /\ c # None /\ peer[c] = "open"
        /\ unread' = [unread EXCEPT ![c] = 0]
        /\ msgs' = msgs \o Extracted(s, c)
        /\ notified' = [notified EXCEPT ![session[s].conn] =
             @ \o [i \in 1 .. Len(Extracted(s, c)) |-> "RECV"]]
        /\ UNCHANGED <<queue, active>>
  /\ UNCHANGED <<polite, peer, sent, answered, kernel, events, session, m_FreeList,
                 freeIDs, owner, op, main, fault, failed>>

WorkerSend(w) ==
  /\ ~fault
  /\ pc[w] = "SEND" /\ Unlocked(op[w].slot)
  /\ Send(op[w].slot)
  /\ Goto(w, "idle")
  /\ UNCHANGED <<file, backlog, listener, listenEdge, registered, events, queue, mgr,
                 owner, msgs, op, main, notified, failed>>

\* Mutant: the socket stays open.
SocketLeft(f) == file

SocketClosed(f) == [file EXCEPT ![f] = None]

\* Close up to the notification.  A socket number that is not open makes it
\* return at once.
Close(w) ==
  LET s == op[w].slot
      c == Peer(s)
  IN
  /\ ~fault
  /\ pc[w] \in {"CLOSE", "ERROR"} /\ Unlocked(s)
  /\ active' = [active EXCEPT ![session[s].m_ID] = FALSE]
  /\ IF c = None
     THEN /\ Goto(w, "idle")
          /\ UNCHANGED <<file, registered, edge, owner, msgs, notified>>
     ELSE /\ file' = SocketClosed(session[s].m_Sock)
          /\ registered' = [registered EXCEPT ![c] = None]
          /\ edge' = [edge EXCEPT ![c] = FALSE]
          /\ msgs' = Append(msgs, Reference(None, "CLOSE", session[s].conn))
          /\ Notify(session[s].conn, "CLOSE")
          /\ owner' = [owner EXCEPT ![s] = w]
          /\ Goto(w, "DESTROY")
  /\ UNCHANGED <<net, backlog, listener, listenEdge, events, queue, session,
                 m_FreeList, freeIDs, op, main, fault, failed>>

DestroySession(w) ==
  LET s == op[w].slot IN
  /\ ~fault
  /\ pc[w] = "DESTROY"
  /\ active' = [active EXCEPT ![session[s].m_ID] = FALSE]
  /\ freeIDs' = <<session[s].m_ID>> \o freeIDs
  /\ m_FreeList' = <<s>> \o m_FreeList
  /\ Goto(w, "UNLOCK")
  /\ UNCHANGED <<net, kernel, events, queue, session, owner, msgs, op, main, fault,
                 notified, failed>>

\* The guards of Close unlock the mutexes in the slot, whoever has them by now:
\* if Accept has made a new session of it, another worker may be in its Close.
UnLock(w) ==
  /\ ~fault
  /\ pc[w] = "UNLOCK"
  /\ owner' = [owner EXCEPT ![op[w].slot] = None]
  /\ Goto(w, "idle")
  /\ UNCHANGED <<net, kernel, events, queue, session, mgr, msgs, op, main, fault,
                 notified, failed>>
-----------------------------------------------------------------------------
(* The main thread: the constructor of AcceptCompleteOperation *)

\* Bind and Listen; when one fails the server runs on without a port.
BindAndListen ==
  /\ ~fault
  /\ mainPc = "Bind"
  /\ \/ /\ listener' = "listening" /\ mainPc' = "RegisterSocket"
        /\ UNCHANGED failed
     \/ /\ Fails({}) /\ mainPc' = "wait"
        /\ UNCHANGED listener
  /\ UNCHANGED <<net, file, backlog, listenEdge, registered, edge, events, queue,
                 session, mgr, owner, msgs, pc, op, msg, id, fault, notified>>

\* Peers may have connected before the listening socket is registered: then it
\* is ready at once.
RegisterListenSock ==
  /\ ~fault
  /\ mainPc = "RegisterSocket"
  /\ \/ /\ listener' = "registered" /\ listenEdge' = (backlog # << >>)
        /\ UNCHANGED failed
     \/ /\ Fails({}) /\ listener' = "deaf"
        /\ UNCHANGED listenEdge
  /\ mainPc' = "wait"
  /\ UNCHANGED <<net, file, backlog, registered, edge, events, queue, session, mgr,
                 owner, msgs, pc, op, msg, id, fault, notified>>
-----------------------------------------------------------------------------
(* The main thread: NetLoop, and the handler's SendMsg *)

\* SampleServer's handlers: OnReceive calls SendMsg, OnAccept and OnClose only log.
Handler(type) == IF type = "RECV" THEN "GetID" ELSE "wait"

RemoveMsg ==
  /\ ~fault
  /\ mainPc = "wait" /\ msgs # << >>
  /\ msg' = Head(msgs)
  /\ msgs' = Tail(msgs)
  /\ mainPc' = Handler(Head(msgs).type)
  /\ UNCHANGED <<net, kernel, events, queue, session, mgr, owner, pc, op, id, fault,
                 notified, failed>>

\* pSession->GetID() and SendMsg's first check, without a lock.  From here on
\* msg.conn (ghost) is the connection of the session that passed it.
FirstCheck ==
  /\ ~fault
  /\ mainPc = "GetID"
  /\ id' = session[msg.slot].m_ID
  /\ mainPc' = IF active[session[msg.slot].m_ID] THEN "SendMsg" ELSE "wait"
  /\ msg' = [msg EXCEPT !.conn = session[msg.slot].conn]
  /\ UNCHANGED <<net, kernel, events, queue, session, mgr, owner, msgs, pc, op, fault,
                 notified, failed>>

\* The double check and the copy, under the send lock.
SecondCheck ==
  /\ ~fault
  /\ mainPc = "SendMsg" /\ Unlocked(msg.slot)
  /\ \/ /\ ~active[id]
        /\ mainPc' = "wait"
        /\ UNCHANGED session
     \/ /\ active[id]
        /\ session' = [session EXCEPT ![msg.slot].answers = @ + 1]
        /\ mainPc' = "Complete"
  /\ UNCHANGED <<net, kernel, events, queue, mgr, owner, msgs, pc, op, msg, id, fault,
                 notified, failed>>

\* m_SessionCompleteOperation.Complete( ASYNC_OPERATION_SEND ), a direct call.
MainSend ==
  /\ ~fault
  /\ mainPc = "Complete" /\ Unlocked(msg.slot)
  /\ Send(msg.slot)
  /\ mainPc' = "wait"
  /\ UNCHANGED <<file, backlog, listener, listenEdge, registered, events, queue, mgr,
                 owner, msgs, pc, op, msg, id, notified, failed>>
-----------------------------------------------------------------------------
WorkerStep(w) ==
  \/ RemoveAsyncOperation(w) \/ Complete(w)
  \/ Accept(w) \/ InsertSimpleMsg(w) \/ RegisterSocket(w)
  \/ AcceptDone(w)
  \/ Recv(w) \/ WorkerSend(w) \/ Close(w) \/ DestroySession(w) \/ UnLock(w)

DispatcherStep == EpollWait \/ \E e \in events : InsertAsyncOperation(e)

MainStep ==
  \/ BindAndListen \/ RegisterListenSock
  \/ RemoveMsg \/ FirstCheck \/ SecondCheck \/ MainSend

PeerStep == \E c \in Conn : PeerConnect(c) \/ PeerSend(c) \/ PeerClose(c)

Next ==
  PeerStep \/ DispatcherStep \/ MainStep \/ \E w \in Worker : WorkerStep(w)

\* The threads of the process are scheduled; peers do as they please.
Fairness ==
  /\ WF_vars(DispatcherStep)
  /\ WF_vars(MainStep)
  /\ \A w \in Worker : WF_vars(WorkerStep(w))

Spec == Init /\ [][Next]_vars /\ Fairness
-----------------------------------------------------------------------------
(* Properties *)

OperationType == {"ACCEPT", "CONNECT", "RECV", "SEND", "CLOSE", "ERROR"}

\* The state has its types; in particular ExtractMsg and Send between them give
\* no peer more answers than it may have sent requests.
TypeOK ==
  /\ peer \in [Conn -> {"none", "open", "finished", "reset"}]
  /\ polite \in BOOLEAN /\ failures \in 0 .. FailMax /\ stranded \subseteq Conn
  /\ listener \in {"none", "listening", "registered", "deaf"}
  /\ sent \in [Conn -> 0 .. RequestMax] /\ unread \in [Conn -> 0 .. RequestMax]
  /\ answered \in [Conn -> 0 .. RequestMax]
  /\ file \in [FD -> Conn \cup {None}]
  /\ registered \in [Conn -> Slot \cup {None}]
  /\ RangeOf(m_FreeList) \subseteq Slot /\ RangeOf(freeIDs) \subseteq Slot
  /\ active \in [Slot -> BOOLEAN]
  /\ \A s \in Slot : session[s].m_ID \in Slot /\ session[s].m_Sock \in FD
  /\ \A r \in events \cup RangeOf(queue) :
       r.slot \in Slot \cup {ACCEPT} /\ r.type \in OperationType
  /\ \A r \in RangeOf(msgs) :
       r.slot \in Slot \cup {None} /\ r.type \in {"ACCEPT", "RECV", "CLOSE"}

\* A reference is good as long as the session it was made for exists.
Good(r) == r.slot \notin RangeOf(m_FreeList) /\ session[r.slot].conn = r.conn

OpsInFlight ==
  events \cup RangeOf(queue)
  \cup {op[w] : w \in {v \in Worker : pc[v] \notin {"idle", "UNLOCK"}}}

\* With one worker and peers that wait for their answers, no operation on its
\* way from epoll_wait through the queue to Complete refers to a session that
\* was destroyed, or whose slot now belongs to another connection: a session's
\* CLOSE is the last operation ever queued for it.
NoDanglingOperation == \A r \in OpsInFlight : r.slot # ACCEPT => Good(r)

\* Under the same conditions the handler's Session* is still its session when
\* OnAccept and OnReceive get it, and through all of SendMsg.
NoDanglingMsg ==
  /\ \A i \in 1 .. Len(msgs) : msgs[i].type # "CLOSE" => Good(msgs[i])
  /\ mainPc \in {"GetID", "SendMsg", "Complete"} => Good(msg)

\* No thread calls Complete through a freed session's virtual table, uses the
\* NULL of a failed CreateSession, or gets a SIGPIPE from send.
NoFault == ~fault

\* What SendMsg's double check is for: when the second check passes, the session
\* that passed the first one still exists, so that its buffer gets the answer.
SecondCheckSuffices ==
  [][mainPc = "SendMsg" /\ mainPc' = "Complete" => Good(msg)]_vars

\* The session slots in use, outside CreateSession and DestroySession.
Existing ==
  Slot \ (RangeOf(m_FreeList)
          \cup {op[w].slot : w \in {v \in Worker : pc[v] = "DESTROY"}})

\* A socket number is open exactly as long as the one session made for its
\* connection exists, although the kernel reuses the numbers at once and stale
\* operations may close a younger session: no socket leaks and none is closed
\* under another session's feet.
SocketsOwned ==
  /\ \A s \in Existing : file[session[s].m_Sock] = session[s].conn
  /\ \A f \in FD : file[f] # None /\ ~fault =>
       \E s \in Existing : session[s].m_Sock = f

\* For each connection the application is told that it was accepted, then of
\* any number of messages, then once that it closed, whichever worker does it.
AcceptRecvClose ==
  polite => \A c \in Conn : \A i \in 1 .. Len(notified[c]) :
    /\ notified[c][i] = "ACCEPT" <=> i = 1
    /\ notified[c][i] = "CLOSE" => i = Len(notified[c])

\* c was left behind by a failure of accept or of RegisterSocket.
LeftBehind(c) == c \in stranded \/ listener = "deaf"

\* Every request of a peer is answered, although epoll reports a readiness only
\* once and a request may arrive before, between and after the steps of accept.
\* A connection a failing accept has left in the backlog is served as soon as
\* another peer connects; only one for which that never happens, or whose own
\* RegisterSocket failed, waits for ever.
RequestsAnswered ==
  \A c \in Conn :
    (sent[c] > answered[c]) ~> (sent[c] = answered[c] \/ []LeftBehind(c))

\* When the peer has closed, the application is told and the session goes back
\* to the pool, with the same exceptions.
ClosedIsReclaimed ==
  \A c \in Conn :
    (peer[c] = "finished") ~>
      (\/ /\ notified[c] # << >> /\ notified[c][Len(notified[c])] = "CLOSE"
          /\ \A s \in Slot : session[s].conn = c => s \in RangeOf(m_FreeList)
       \/ []LeftBehind(c))
=============================================================================
