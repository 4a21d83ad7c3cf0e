-------------------------------- MODULE Client --------------------------------
(***************************************************************************)
(* The client side of the library: TCPStream::Connect, TCPClient and the   *)
(* HandleNet loop of NetClient.cpp, with SampleClient as the application:  *)
(* it sends a message when it is connected, disconnects when it gets one,  *)
(* and shuts down when it is not connected any more.  An application that  *)
(* connects again instead is allowed for.                                  *)
(*                                                                         *)
(* Kernel, dispatcher and worker are those of Reactor; the peers are       *)
(* servers now, sent[c] counts the messages of the server and answered[c]  *)
(* the client's messages that reached it.  A polite server sends one       *)
(* message for each it gets and leaves closing to the client.  The main    *)
(* thread is one of Reactor's workers where it runs their code, which it   *)
(* does in Disconnect; it takes no operation out of the queue.             *)
(***************************************************************************)
EXTENDS Reactor

Ext == INSTANCE SequencesExt

CONSTANT Main   \* the main thread

ASSUME ClientAssumption == Main \in Worker

VARIABLES m_Connected, m_pSession   \* TCPClient

client == <<m_Connected, m_pSession>>
cvars == <<vars, client>>

ClientInit ==
  /\ InitAt("Connect")
  /\ m_Connected = FALSE /\ m_pSession = None
-----------------------------------------------------------------------------
(* The server; RequestMax bounds its messages on all connections *)

ServerSend(c) ==
  /\ peer[c] = "open"
  /\ Ext!FoldFunction(LAMBDA x, y : x + y, 0, sent) < RequestMax
  /\ polite => sent[c] < answered[c]
  /\ sent' = [sent EXCEPT ![c] = @ + 1]
  /\ unread' = [unread EXCEPT ![c] = @ + 1]
  /\ Arm(c)
  /\ UNCHANGED <<polite, peer, answered, file, backlog, listener, listenEdge,
                 registered, events, queue, session, mgr, owner, msgs, pc, op, main,
                 fault, notified, failed, client>>

ServerClose(c) ==
  /\ ~polite /\ PeerClose(c)
  /\ UNCHANGED client
-----------------------------------------------------------------------------
(* TCPStream::Connect *)

\* socket, inet_pton and connect, or one of them fails and the socket stays open;
\* then CreateSession.  The application exits when Connect returns false.
Connect ==
  /\ ~fault
  /\ mainPc = "Connect" /\ pc[Main] = "idle"
  /\ \/ \E c \in Conn :
          /\ peer[c] = "none" /\ \A d \in Conn : d < c => peer[d] # "none"
          /\ peer' = [peer EXCEPT ![c] = "open"]
          /\ CreateSession(Main, "CONNECT", c)
          /\ UNCHANGED <<mainPc, failed>>
     \/ /\ Fails({})
        /\ mainPc' = "exit"
        /\ UNCHANGED <<peer, file, session, mgr, owner, pc, op, fault>>
  /\ UNCHANGED <<polite, sent, answered, unread, backlog, listener, listenEdge,
                 registered, edge, events, queue, msgs, msg, id, notified, client>>

\* MSG_CONNECT is queued already when RegisterSocket fails and Connect with it.
RegisterConnect ==
  /\ mainPc = "Connect" /\ RegisterSocketOf(Main, "idle")
  /\ mainPc' = IF failures' = failures THEN "wait" ELSE "exit"
  /\ UNCHANGED <<msg, id, client>>
-----------------------------------------------------------------------------
(* HandleNet, with the handlers of SampleClient *)

\* Mutant: MSG_CLOSE does not reset it.
ConnectedUntilDisconnect(type) == IF type = "CLOSE" THEN m_Connected ELSE type = "CONNECT"

\* m_Connected after a message of the type: SetConnected, or Disconnect in OnReceive.
Connected(type) == type = "CONNECT"

\* OnConnect calls SendMsg.
OnConnect(m) ==
  /\ m.type = "CONNECT"
  /\ m_pSession' = m.slot
  /\ mainPc' = "GetID"
  /\ UNCHANGED <<pc, op>>

\* OnReceive disconnects, which runs Close of m_pSession on this thread, by a
\* direct call.
OnReceive(m) ==
  /\ m.type = "RECV"
  /\ op' = [op EXCEPT ![Main] = Reference(m_pSession, "CLOSE", m.conn)]
  /\ Goto(Main, "CLOSE")
  /\ UNCHANGED <<m_pSession, mainPc>>

OnClose(m) ==
  /\ m.type = "CLOSE"
  /\ UNCHANGED <<m_pSession, mainPc, pc, op>>

\* The semaphore of the message queue counts its messages.
TryWait == msgs # << >>

HandleNet ==
  /\ ~fault
  /\ mainPc = "wait" /\ pc[Main] = "idle" /\ TryWait
  /\ LET m == Head(msgs) IN
       /\ msg' = m /\ msgs' = Tail(msgs)
       /\ m_Connected' = Connected(m.type)
       /\ OnConnect(m) \/ OnReceive(m) \/ OnClose(m)
  /\ UNCHANGED <<net, kernel, events, queue, session, mgr, owner, id, fault,
                 notified, failed>>

\* HandleNet returns when TryWait fails.  The application leaves its loop when it
\* is not connected, for ShutdownNetClient or another Connect.
LeaveLoop ==
  /\ ~fault
  /\ mainPc = "wait" /\ pc[Main] = "idle" /\ ~TryWait
  /\ ~m_Connected
  /\ \/ mainPc' = "Shutdown"
     \/ mainPc' = "Connect" /\ \E c \in Conn : peer[c] = "none"
  /\ UNCHANGED <<net, kernel, events, queue, session, mgr, owner, msgs, pc, op, msg,
                 id, fault, notified, failed, client>>

\* DestroyAllSessions takes no lock: a session that a worker is about to destroy
\* is destroyed twice.  The socket of an active session is closed.
DestroyAllSessions ==
  LET used == Slot \ RangeOf(m_FreeList) IN
  /\ ~fault
  /\ mainPc = "Shutdown"
  /\ mainPc' = "exit"
  /\ IF \E w \in Worker : pc[w] = "DESTROY"
     THEN /\ fault' = TRUE
          /\ UNCHANGED <<file, registered, edge, mgr>>
     ELSE /\ fault' = fault
          /\ file' = [f \in FD |-> IF \E s \in used : Active(s) /\ session[s].m_Sock = f
                                  THEN None ELSE file[f]]
          /\ registered' = [c \in Conn |-> IF c \in RangeOf(file') THEN registered[c] ELSE None]
          /\ edge' = [c \in Conn |-> edge[c] /\ registered'[c] # None]
          /\ m_FreeList' = Ext!SetToSeq(used) \o m_FreeList
          /\ freeIDs' = Ext!SetToSeq(Slot \ RangeOf(freeIDs)) \o freeIDs
          /\ active' = [i \in Slot |-> FALSE]
  /\ UNCHANGED <<net, backlog, listener, listenEdge, events, queue, session, owner,
                 msgs, pc, op, msg, id, notified, failed, client>>
-----------------------------------------------------------------------------
ClientMain ==
  \/ Connect \/ RegisterConnect \/ HandleNet \/ LeaveLoop \/ DestroyAllSessions
  \/ /\ InsertSimpleMsg(Main) \/ FirstCheck \/ SecondCheck \/ MainSend
        \/ Close(Main) \/ DestroySession(Main) \/ UnLock(Main)
     /\ UNCHANGED client

ClientWorker(w) ==
  /\ RemoveAsyncOperation(w) \/ Complete(w) \/ Recv(w) \/ WorkerSend(w)
     \/ Close(w) \/ DestroySession(w) \/ UnLock(w)
  /\ UNCHANGED client

\* Shutdown cancels the dispatcher in epoll_wait.
ClientDispatcher ==
  /\ \/ mainPc \notin {"Shutdown", "exit"} /\ EpollWait
     \/ \E e \in events : InsertAsyncOperation(e)
  /\ UNCHANGED client

ClientNext ==
  \/ \E c \in Conn : ServerSend(c) \/ ServerClose(c)
  \/ ClientDispatcher \/ ClientMain \/ \E w \in Worker \ {Main} : ClientWorker(w)

\* The threads of the client are scheduled; the server does as it pleases.
ClientSpec ==
  /\ ClientInit /\ [][ClientNext]_cvars
  /\ WF_cvars(ClientDispatcher) /\ WF_cvars(ClientMain)
  /\ \A w \in Worker \ {Main} : WF_cvars(ClientWorker(w))
-----------------------------------------------------------------------------
(* Properties *)

\* With a server that leaves closing to the client, Disconnect on the main thread
\* never destroys a session for which an operation is on its way to the worker,
\* a new Connect always finds a session, and Shutdown destroys none twice.
ClientNeverFaults == polite => ~fault

\* The connection made last.
Current(c) == peer[c] # "none" /\ \A d \in Conn : d > c => peer[d] = "none"

\* The application is told of a connection in the order connect, messages, close,
\* and of the close once, although main thread and worker may both close the
\* session.  An application that connects again needs a polite server for it:
\* otherwise a CLOSE left in the queue may close the session of the new connection.
ConnectRecvClose ==
  polite \/ Current(1) => \A c \in Conn : \A i \in 1 .. Len(notified[c]) :
    /\ notified[c][i] = "CONNECT" <=> i = 1
    /\ notified[c][i] = "CLOSE" => i = Len(notified[c])

\* A client whose server answers or closes gets out of its loop, to shut down or
\* to connect again, in whatever order main thread and worker come to close the
\* session.
LoopEnds ==
  \A c \in Conn :
    (Current(c) /\ (sent[c] > 0 \/ peer[c] = "finished")) ~>
      (fault \/ mainPc \in {"Shutdown", "exit"} \/ ~Current(c))
=============================================================================
