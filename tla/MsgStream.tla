------------------------------ MODULE MsgStream ------------------------------
(***************************************************************************)
(* How a message travels from Session::SendMsg of one process to OnReceive *)
(* of another: Buffer, SendMsg, SessionCompleteOperation::Send and ::Recv, *)
(* ExtractMsg, MsgPool and NetLoop, over a TCP connection that may cut the *)
(* byte stream anywhere and fills up when its reader is slow.  One         *)
(* direction of one connection whose ends stay open; Reactor has the life  *)
(* and death of sessions.                                                  *)
(*                                                                         *)
(* A buffer is the offset of m_pBegin and the bytes from m_pBegin to       *)
(* m_pEnd.  The payload of the n-th message repeats a byte of n.           *)
(***************************************************************************)
EXTENDS Integers, Sequences

CONSTANTS
  BUFFER_SIZE,
  MSG_COUNT_MAX, \* messages in the receiver's MsgPool
  Size,          \* the payload sizes the application uses
  MsgMax,        \* bound: messages sent
  WireMax,       \* bound: bytes the kernel holds for the connection
  TwoWay         \* the sender's socket may be readable too

MSG_HEADER_SIZE == 2

ASSUME StreamAssumption ==
  /\ BUFFER_SIZE \in Nat \ {0} /\ BUFFER_SIZE < 65536   \* 1024 in the code
  /\ MSG_COUNT_MAX \in Nat /\ MsgMax \in Nat
  /\ WireMax \in Nat \ {0} /\ Size \subseteq Nat \ {0}
  /\ TwoWay \in BOOLEAN

VARIABLES
  \* the sender
  m_SendBuffer,
  mainPc,       \* the thread in SendMsg: "idle" or "Complete"
  sender,       \* who owns the send lock inside Send: "none", "main", "worker"
  sendOp,       \* an ASYNC_OPERATION_SEND is queued
  overrun,      \* memcpy wrote past m_pBuffer: what follows is undefined
  \* the kernel
  wire,         \* bytes sent and not yet received
  noSpace,      \* send found the wire full: EPOLLOUT is due when it drains
  \* the receiver
  m_RecvBuffer,
  recvOp,       \* an ASYNC_OPERATION_RECV is queued
  recvPc,       \* the worker in Recv: "idle", "recv" or "ExtractMsg"
  active,       \* the session's entry of m_SessionActiveStatus
  msgs,         \* s_MsgQueue
  \* ghosts
  accepted,     \* the payloads SendMsg took
  delivered     \* the payloads OnReceive got

vars == <<m_SendBuffer, mainPc, sender, sendOp, overrun, wire, noSpace,
          m_RecvBuffer, recvOp, recvPc, active, msgs, accepted, delivered>>

Init ==
  /\ m_SendBuffer = [begin |-> 0, data |-> << >>] /\ m_RecvBuffer = m_SendBuffer
  /\ mainPc = "idle" /\ sender = "none" /\ sendOp = FALSE /\ overrun = FALSE
  /\ wire = << >> /\ noSpace = FALSE
  /\ recvOp = FALSE /\ recvPc = "idle" /\ active = TRUE
  /\ msgs = << >> /\ accepted = << >> /\ delivered = << >>
-----------------------------------------------------------------------------
(* Buffer *)

GetFreeSpaceSize(b) == BUFFER_SIZE - (b.begin + Len(b.data))

\* The room taken out of the front of the data is free again only when all the
\* data is gone or MoveData has run.
IncreaseBegin(b, n) ==
  IF n = Len(b.data)
  THEN [begin |-> 0, data |-> << >>]
  ELSE [begin |-> b.begin + n, data |-> SubSeq(b.data, n + 1, Len(b.data))]

\* The bytes copied to GetEnd, and IncreaseEnd.
IncreaseEnd(b, bytes) == [b EXCEPT !.data = @ \o bytes]

MoveData(b) == [b EXCEPT !.begin = 0]
-----------------------------------------------------------------------------
(* Session::SendMsg; on too little space it returns false and changes nothing *)

Payload(n, size) == [i \in 1 .. size |-> (n - 1) % 256]

\* The first MSG_HEADER_SIZE bytes of a little-endian size_t.
Header(size) == <<size % 256, (size \div 256) % 256>>

\* Mutant: the header's room is not counted.
FitsWithoutHeader(size) == size <= GetFreeSpaceSize(m_SendBuffer)

\* Whether both IncreaseEnd succeed.
Fits(size) == MSG_HEADER_SIZE + size <= GetFreeSpaceSize(m_SendBuffer)

\* SendMsg's own check leaves out the header.
SendMsg(size) ==
  /\ ~overrun
  /\ mainPc = "idle" /\ sender = "none" /\ Len(accepted) < MsgMax
  /\ size <= GetFreeSpaceSize(m_SendBuffer)
  /\ LET payload == Payload(Len(accepted) + 1, size) IN
     \/ /\ Fits(size)
        /\ m_SendBuffer' = IncreaseEnd(m_SendBuffer, Header(size) \o payload)
        /\ accepted' = Append(accepted, payload)
        /\ mainPc' = "Complete"
        /\ UNCHANGED overrun
     \/ /\ ~Fits(size)
        /\ overrun' = TRUE
        /\ UNCHANGED <<m_SendBuffer, accepted, mainPc>>
  /\ UNCHANGED <<sender, sendOp, wire, noSpace, m_RecvBuffer, recvOp, recvPc, active,
                 msgs, delivered>>
-----------------------------------------------------------------------------
(* SessionCompleteOperation::Send, called by SendMsg or for an operation *)

EnterSend(t) ==
  /\ ~overrun
  /\ sender = "none"
  /\ \/ t = "main" /\ mainPc = "Complete" /\ UNCHANGED sendOp
     \/ t = "worker" /\ sendOp /\ sendOp' = FALSE
  /\ sender' = t
  /\ UNCHANGED <<m_SendBuffer, mainPc, overrun, wire, noSpace, m_RecvBuffer, recvOp,
                 recvPc, active, msgs, accepted, delivered>>

\* send took n bytes; they make the receiver's socket readable.
SendBytes(n) ==
  /\ ~overrun
  /\ sender # "none"
  /\ n <= Len(m_SendBuffer.data) /\ Len(wire) + n <= WireMax
  /\ wire' = wire \o SubSeq(m_SendBuffer.data, 1, n)
  /\ m_SendBuffer' = IncreaseBegin(m_SendBuffer, n)
  /\ recvOp' = TRUE
  /\ UNCHANGED <<mainPc, sender, sendOp, overrun, noSpace, m_RecvBuffer, recvPc,
                 active, msgs, accepted, delivered>>

\* Nothing is left, or EWOULDBLOCK: MoveData.
SendReturns ==
  /\ ~overrun
  /\ sender # "none"
  /\ \/ /\ m_SendBuffer.data = << >>
        /\ UNCHANGED <<m_SendBuffer, noSpace>>
     \/ /\ m_SendBuffer.data # << >> /\ Len(wire) = WireMax
        /\ m_SendBuffer' = MoveData(m_SendBuffer)
        /\ noSpace' = TRUE
  /\ sender' = "none"
  /\ mainPc' = IF sender = "main" THEN "idle" ELSE mainPc
  /\ UNCHANGED <<sendOp, overrun, wire, m_RecvBuffer, recvOp, recvPc, active, msgs,
                 accepted, delivered>>
-----------------------------------------------------------------------------
(* SessionCompleteOperation::Recv and Session::ExtractMsg *)

EnterRecv ==
  /\ ~overrun
  /\ recvPc = "idle" /\ recvOp
  /\ recvOp' = FALSE
  /\ recvPc' = IF active THEN "recv" ELSE "idle"
  /\ UNCHANGED <<m_SendBuffer, mainPc, sender, sendOp, overrun, wire, noSpace,
                 m_RecvBuffer, active, msgs, accepted, delivered>>

\* EPOLLOUT alone queues a SEND; with EPOLLIN in the same event it is passed over.
SpaceFreed ==
  /\ noSpace' = FALSE
  /\ \/ sendOp' = (sendOp \/ noSpace)
     \/ TwoWay /\ sendOp' = sendOp

\* recv took what there is and what fits.
RecvBytes ==
  /\ ~overrun
  /\ recvPc = "recv" /\ wire # << >> /\ GetFreeSpaceSize(m_RecvBuffer) > 0
  /\ \E n \in 1 .. Len(wire) :
       /\ n = Len(wire) \/ n = GetFreeSpaceSize(m_RecvBuffer)
       /\ n <= GetFreeSpaceSize(m_RecvBuffer)
       /\ m_RecvBuffer' = IncreaseEnd(m_RecvBuffer, SubSeq(wire, 1, n))
       /\ wire' = SubSeq(wire, n + 1, Len(wire))
  /\ SpaceFreed
  /\ UNCHANGED <<m_SendBuffer, mainPc, sender, overrun, recvOp, recvPc, active, msgs,
                 accepted, delivered>>

\* A recv into no space returns 0, like the end of the stream: the session is
\* deactivated and will be closed.  Otherwise EWOULDBLOCK ends the loop.
RecvNothing ==
  /\ ~overrun
  /\ recvPc = "recv"
  /\ \/ /\ GetFreeSpaceSize(m_RecvBuffer) = 0
        /\ active' = FALSE /\ recvPc' = "idle"
     \/ /\ GetFreeSpaceSize(m_RecvBuffer) > 0 /\ wire = << >>
        /\ recvPc' = "ExtractMsg" /\ UNCHANGED active
  /\ UNCHANGED <<m_SendBuffer, mainPc, sender, sendOp, overrun, wire, noSpace,
                 m_RecvBuffer, recvOp, msgs, accepted, delivered>>

HeaderOf(data) == data[1] + 256 * data[2]

\* Mutant: a message is whole only when more bytes follow it.
WholeAndMore(data) ==
  /\ Len(data) >= MSG_HEADER_SIZE
  /\ Len(data) - MSG_HEADER_SIZE > HeaderOf(data)

\* A whole message is in the buffer.
Whole(data) ==
  /\ Len(data) >= MSG_HEADER_SIZE
  /\ Len(data) - MSG_HEADER_SIZE >= HeaderOf(data)

\* Mutant: the header stays in the buffer.
ConsumedPayload(header) == header

Consumed(header) == MSG_HEADER_SIZE + header

ExtractMsg ==
  LET data == m_RecvBuffer.data IN
  /\ ~overrun
  /\ recvPc = "ExtractMsg"
  /\ \/ /\ Whole(data) /\ Len(msgs) < MSG_COUNT_MAX
        /\ msgs' = Append(msgs, SubSeq(data, MSG_HEADER_SIZE + 1,
                                       MSG_HEADER_SIZE + HeaderOf(data)))
        /\ m_RecvBuffer' = IncreaseBegin(m_RecvBuffer, Consumed(HeaderOf(data)))
        /\ UNCHANGED recvPc
     \/ \* no message, or no memory for it: the loop breaks, and MoveData
        /\ ~Whole(data) \/ Len(msgs) = MSG_COUNT_MAX
        /\ m_RecvBuffer' = MoveData(m_RecvBuffer)
        /\ recvPc' = "idle"
        /\ UNCHANGED msgs
  /\ UNCHANGED <<m_SendBuffer, mainPc, sender, sendOp, overrun, wire, noSpace, recvOp,
                 active, accepted, delivered>>

\* NetLoop: RemoveMsg, OnReceive, DeallocateMsg.
OnReceive ==
  /\ ~overrun
  /\ msgs # << >>
  /\ msgs' = Tail(msgs)
  /\ delivered' = Append(delivered, Head(msgs))
  /\ UNCHANGED <<m_SendBuffer, mainPc, sender, sendOp, overrun, wire, noSpace,
                 m_RecvBuffer, recvOp, recvPc, active, accepted>>
-----------------------------------------------------------------------------
SendStep(t) ==
  \/ EnterSend(t)
  \/ sender = t /\ (SendReturns \/ \E n \in 1 .. BUFFER_SIZE : SendBytes(n))

RecvStep == EnterRecv \/ RecvBytes \/ RecvNothing \/ ExtractMsg

Next ==
  \/ \E size \in Size : SendMsg(size)
  \/ SendStep("main") \/ SendStep("worker")
  \/ RecvStep \/ OnReceive

\* The threads run when they can; the application sends if it likes.
Fairness ==
  /\ WF_vars(SendStep("main")) /\ WF_vars(SendStep("worker"))
  /\ WF_vars(RecvStep) /\ WF_vars(OnReceive)

Spec == Init /\ [][Next]_vars /\ Fairness
-----------------------------------------------------------------------------
(* Properties *)

Byte == 0 .. 255
InBuffer(b) ==
  /\ b \in [begin : Nat, data : Seq(Byte)]
  /\ b.begin + Len(b.data) <= BUFFER_SIZE

\* The state has its types, and both buffers keep m_pBegin and m_pEnd inside
\* m_pBuffer.
TypeOK ==
  /\ InBuffer(m_SendBuffer) /\ InBuffer(m_RecvBuffer)
  /\ mainPc \in {"idle", "Complete"} /\ sender \in {"none", "main", "worker"}
  /\ recvPc \in {"idle", "recv", "ExtractMsg"}
  /\ {sendOp, overrun, noSpace, recvOp, active} \subseteq BOOLEAN
  /\ wire \in Seq(Byte) /\ Len(wire) <= WireMax
  /\ Len(msgs) <= MSG_COUNT_MAX

\* However the stream is cut, ExtractMsg finds the frames SendMsg made: the
\* payloads that reach OnReceive, and those queued for it, are the first ones
\* SendMsg took, whole and in order.
MessagesIntact ==
  LET got == delivered \o msgs IN
  Len(got) <= Len(accepted) /\ got = SubSeq(accepted, 1, Len(got))

\* The two places where the code gives up on a message: the rest of the send
\* buffer after an EPOLLOUT that was passed over, a whole message in the receive
\* buffer after AllocateMsg returned NULL.
LeftInSendBuffer ==
  m_SendBuffer.data # << >> /\ sender = "none" /\ mainPc = "idle" /\ ~sendOp /\ ~noSpace
LeftInRecvBuffer == Whole(m_RecvBuffer.data) /\ recvPc = "idle"

\* Every message SendMsg took reaches OnReceive, however often the wire fills up
\* in between, unless the receiver deactivated the session (its buffer was full),
\* memory was overrun, or the code gave up in one of the two places above: there
\* is no third.
AcceptedIsDelivered ==
  \A n \in 1 .. MsgMax :
    (Len(accepted) >= n) ~>
      (\/ Len(delivered) >= n
       \/ ~active \/ overrun
       \/ LeftInSendBuffer \/ LeftInRecvBuffer)
=============================================================================
