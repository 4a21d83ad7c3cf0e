------------------------------- MODULE MsgPool -------------------------------
(***************************************************************************)
(* Messages between the workers and NetLoop: MsgPool with its two          *)
(* allocators, MsgQueue with its semaphore, NetLoop and ShutdownNetServer. *)
(*                                                                         *)
(* Memory is real: a block of the Allocator is its offset from             *)
(* m_pMemoryStart, a free list the offsets in the order of its links.      *)
(* AllocateMsg, DeallocateMsg, PushBack and Front with PopFront run under  *)
(* a mutex and are steps; so is each Post and Wait.                        *)
(***************************************************************************)
EXTENDS Integers, Sequences, FiniteSets

CONSTANTS
  Worker,       \* the threads that run ExtractMsg and InsertSimpleMsg
  ALIGN, BYTES_MAX, FREE_LIST_ELEMENT_COUNT,
  MSG_COUNT_MAX, MSG_QUEUE_SIZE,
  Size          \* the sizes of received messages

FREE_LIST_COUNT == BYTES_MAX \div ALIGN

ASSUME MsgPoolAssumption ==
  /\ ALIGN \in Nat \ {0} /\ BYTES_MAX \in Nat \ {0} /\ BYTES_MAX % ALIGN = 0
  /\ FREE_LIST_ELEMENT_COUNT \in Nat \ {0}
  /\ MSG_COUNT_MAX \in Nat \ {0} /\ MSG_QUEUE_SIZE \in Nat \ {0}
  /\ \A n \in Size : n \in Nat \ {0} /\ n < 32768  \* a short; FreeListIndex "must > 0"
  /\ IsFiniteSet(Worker) /\ "main" \notin Worker /\ "admin" \notin Worker

Inserter == Worker \cup {"admin"}   \* admin calls ShutdownNetServer
Thread == Inserter \cup {"main"}    \* main runs NetLoop
Index == 0 .. FREE_LIST_COUNT - 1
Msg == 1 .. MSG_COUNT_MAX
SYSTEM == -1                        \* a block of the SystemAllocator
None == 0                           \* no Msg

\* What a Msg holds that is not in use does not matter.
Unused == [m_Type |-> "INVALID", m_Size |-> 1, m_pData |-> SYSTEM]

VARIABLES
  m_FreeList,   \* Allocator: per index, the free blocks
  m_MsgAlloc,   \* the free Msgs
  msg,          \* per Msg: m_Type, m_Size, m_pData
  m_Msgs,       \* MsgQueue
  sem,          \* g_pMsgQueueSemaph
  running,
  pc, pMsg,     \* per thread
  leaked        \* ghost: the Msgs whose PushBack failed, which nobody frees

vars == <<m_FreeList, m_MsgAlloc, msg, m_Msgs, sem, running, pc, pMsg, leaked>>
memory == <<m_FreeList, m_MsgAlloc, msg>>
-----------------------------------------------------------------------------
(* Allocator: the layout of its memory *)

\* What SetFreeListPtr adds before it sets the i-th list.
Stride(i) == ALIGN * i * FREE_LIST_ELEMENT_COUNT

SetFreeListPtr[i \in Nat] ==
  IF i = 0 THEN Stride(0) ELSE SetFreeListPtr[i - 1] + Stride(i)

LinkFreeElement(i) ==
  [n \in 1 .. FREE_LIST_ELEMENT_COUNT |-> SetFreeListPtr[i] + (n - 1) * (i + 1) * ALIGN]

\* The loop starts at 8, whatever ALIGN is.
MemoryTotal ==
  LET from[i \in Nat] ==
        IF i > BYTES_MAX THEN 0 ELSE i * FREE_LIST_ELEMENT_COUNT + from[i + ALIGN]
  IN from[8]

FreeListIndex(bytes) == (bytes + ALIGN - 1) \div ALIGN - 1

\* static_cast<short>
Short(size) == ((size + 32768) % 65536) - 32768

Init ==
  /\ m_FreeList = [i \in Index |-> LinkFreeElement(i)]
  /\ m_MsgAlloc = [n \in Msg |-> n]
  /\ msg = [p \in Msg |-> Unused]
  /\ m_Msgs = << >> /\ sem = 0 /\ running = FALSE
  /\ pc = [t \in Thread |-> IF t = "main" THEN "init" ELSE "idle"]
  /\ pMsg = [t \in Thread |-> None]
  /\ leaked = {}

Goto(t, label) == pc' = [pc EXCEPT ![t] = label]
-----------------------------------------------------------------------------
(* MsgPool *)

\* allocate for the data, then for the Msg.
AllocateMsg(t, type, size) ==
  LET i == FreeListIndex(size)
      p == Head(m_MsgAlloc)
      data == IF size > BYTES_MAX THEN SYSTEM ELSE Head(m_FreeList[i])
  IN
  /\ size <= BYTES_MAX => m_FreeList[i] # << >>
  /\ m_MsgAlloc # << >>
  /\ m_FreeList' = IF size > BYTES_MAX THEN m_FreeList
                   ELSE [m_FreeList EXCEPT ![i] = Tail(@)]
  /\ m_MsgAlloc' = Tail(m_MsgAlloc)
  /\ msg' = [msg EXCEPT ![p] = [m_Type |-> type, m_Size |-> Short(size), m_pData |-> data]]
  /\ pMsg' = [pMsg EXCEPT ![t] = p]
  /\ Goto(t, "push")
  /\ UNCHANGED <<m_Msgs, sem, running, leaked>>

\* AllocateMsg returns NULL: no block (malloc may fail too), or no Msg, and then
\* the block is back at the head of its list.
CannotAllocate(size) ==
  \/ size > BYTES_MAX
  \/ size <= BYTES_MAX /\ m_FreeList[FreeListIndex(size)] = << >>
  \/ m_MsgAlloc = << >>

\* Mutant: the list of the next smaller blocks when the size is no multiple.
ListBelow(p) == IF msg[p].m_Size < ALIGN THEN 0 ELSE msg[p].m_Size \div ALIGN - 1

\* The list deallocate returns the data of p to.
ListOf(p) == FreeListIndex(msg[p].m_Size)

DeallocateMsg(p) ==
  /\ m_FreeList' = IF msg[p].m_Size > BYTES_MAX THEN m_FreeList
                   ELSE [m_FreeList EXCEPT ![ListOf(p)] = <<msg[p].m_pData>> \o @]
  /\ m_MsgAlloc' = <<p>> \o m_MsgAlloc
  /\ msg' = [msg EXCEPT ![p] = Unused]
-----------------------------------------------------------------------------
(* MsgQueue::InsertMsg *)

\* Mutant: one element of the queue stays unused.
FullButOne == Len(m_Msgs) + 1 >= MSG_QUEUE_SIZE

Full == Len(m_Msgs) >= MSG_QUEUE_SIZE

PushBack(t) ==
  /\ pc[t] = "push"
  /\ \/ /\ ~Full
        /\ m_Msgs' = Append(m_Msgs, pMsg[t])
        /\ UNCHANGED leaked
     \/ /\ Full
        /\ leaked' = leaked \cup {pMsg[t]}
        /\ UNCHANGED m_Msgs
  /\ Goto(t, "post")
  /\ UNCHANGED <<memory, sem, running, pMsg>>

\* Mutant: only the first message of a burst wakes the reader.
PostedForFirst == IF Len(m_Msgs) > 1 THEN sem ELSE sem + 1

Posted == sem + 1

\* Post, also when the push failed, and the return to the caller.
Post(t) ==
  /\ pc[t] = "post"
  /\ sem' = Posted
  /\ \/ t = "admin" /\ Goto(t, "done") /\ UNCHANGED pMsg
     \/ t # "admin" /\ Goto(t, "idle") /\ pMsg' = [pMsg EXCEPT ![t] = None]
  /\ UNCHANGED <<memory, m_Msgs, running, leaked>>
-----------------------------------------------------------------------------
(* The callers *)

\* ExtractMsg: on NULL it leaves the loop and tries with the next recv.
ExtractMsg(w, size) ==
  /\ pc[w] = "idle"
  /\ \/ AllocateMsg(w, "RECV", size)
     \/ CannotAllocate(size) /\ UNCHANGED vars

\* InsertSimpleMsg of MSG_ACCEPT, MSG_CONNECT or MSG_CLOSE; on NULL the
\* notification is lost.
InsertSimpleMsg(w) ==
  /\ pc[w] = "idle"
  /\ \/ AllocateMsg(w, "NOTIFY", 1)
     \/ CannotAllocate(1) /\ UNCHANGED vars

ShutdownNetServer ==
  /\ pc["admin"] = "idle"
  /\ running' = FALSE
  /\ Goto("admin", "insert")
  /\ UNCHANGED <<memory, m_Msgs, sem, pMsg, leaked>>

InsertShutdown ==
  /\ pc["admin"] = "insert"
  /\ \/ AllocateMsg("admin", "SHUTDOWN", 1)
     \/ /\ CannotAllocate(1)
        /\ Goto("admin", "failed")
        /\ UNCHANGED <<memory, m_Msgs, sem, running, pMsg, leaked>>
-----------------------------------------------------------------------------
(* NetLoop *)

\* init() has started the workers before running is set.
Start ==
  /\ pc["main"] = "init"
  /\ running' = TRUE
  /\ Goto("main", "loop")
  /\ UNCHANGED <<memory, m_Msgs, sem, pMsg, leaked>>

Loop ==
  /\ pc["main"] = "loop"
  /\ Goto("main", IF running THEN "wait" ELSE "exited")
  /\ UNCHANGED <<memory, m_Msgs, sem, running, pMsg, leaked>>

Wait ==
  /\ pc["main"] = "wait"
  /\ sem > 0
  /\ sem' = sem - 1
  /\ Goto("main", "remove")
  /\ UNCHANGED <<memory, m_Msgs, running, pMsg, leaked>>

\* Mutant: SHUTDOWN is one more message.
BreaksNever(p) == FALSE

Breaks(p) == msg[p].m_Type = "SHUTDOWN"

\* Mutant: Front without PopFront.
FrontAlone == m_Msgs

PopFront == Tail(m_Msgs)

\* RemoveMsg, and the break, which leaves the Msg allocated.
RemoveMsg ==
  /\ pc["main"] = "remove"
  /\ \/ /\ m_Msgs = << >>
        /\ Goto("main", "loop")
        /\ UNCHANGED <<m_Msgs, pMsg>>
     \/ /\ m_Msgs # << >>
        /\ pMsg' = [pMsg EXCEPT !["main"] = Head(m_Msgs)]
        /\ m_Msgs' = PopFront
        /\ Goto("main", IF Breaks(Head(m_Msgs)) THEN "exited" ELSE "handle")
  /\ UNCHANGED <<memory, sem, running, leaked>>

\* The handler returns, and DeallocateMsg.
Handle ==
  /\ pc["main"] = "handle"
  /\ DeallocateMsg(pMsg["main"])
  /\ pMsg' = [pMsg EXCEPT !["main"] = None]
  /\ Goto("main", "loop")
  /\ UNCHANGED <<m_Msgs, sem, running, leaked>>
-----------------------------------------------------------------------------
Insert(t) == PushBack(t) \/ Post(t)

WorkerStep(w) ==
  InsertSimpleMsg(w) \/ Insert(w) \/ \E size \in Size : ExtractMsg(w, size)

AdminStep == ShutdownNetServer \/ InsertShutdown \/ Insert("admin")

MainStep == Start \/ Loop \/ Wait \/ RemoveMsg \/ Handle

Next == MainStep \/ AdminStep \/ \E w \in Worker : WorkerStep(w)

\* Threads run when they can.  Nobody has to send, connect or shut down.
Fairness ==
  /\ WF_vars(MainStep)
  /\ WF_vars(InsertShutdown \/ Insert("admin"))
  /\ \A w \in Worker : WF_vars(Insert(w))

Spec == Init /\ [][Next]_vars /\ Fairness
-----------------------------------------------------------------------------
(* Properties *)

Offset == 0 .. MemoryTotal - 1
RangeOf(s) == {s[i] : i \in 1 .. Len(s)}
NoDuplicates(s) == \A i, j \in 1 .. Len(s) : s[i] = s[j] => i = j

\* The Msgs a thread has in its hands: before the push, or in the handler.
InHand(t) == pc[t] \in {"push", "handle"}

Allocated == Msg \ RangeOf(m_MsgAlloc)

\* A Msg is in one place: the free list, the queue, a thread's hands or lost
\* after a failed push; no two threads, and no thread and a free list, share one.
MsgsOnce ==
  /\ NoDuplicates(m_MsgAlloc) /\ NoDuplicates(m_Msgs)
  /\ RangeOf(m_Msgs) \cup leaked \subseteq Allocated
  /\ RangeOf(m_Msgs) \cap leaked = {}
  /\ \A t \in Thread : InHand(t) =>
       /\ pMsg[t] \in Allocated \ (RangeOf(m_Msgs) \cup leaked)
       /\ \A u \in Thread : InHand(u) /\ pMsg[u] = pMsg[t] => u = t

\* The bytes of a message, of a free block.
Bytes(p) == msg[p].m_pData .. msg[p].m_pData + msg[p].m_Size - 1
Block(i, a) == a .. a + (i + 1) * ALIGN - 1

\* No two messages in use share a byte, none shares one with a free block (whose
\* first bytes are a link) and none reaches past the memory of the Allocator; and
\* a block stays in its size class: what is free in the i-th list is one of the
\* blocks LinkFreeElement put there, once, however blocks of different lists were
\* taken and returned.
DataDisjoint ==
  /\ \A p \in Allocated : msg[p].m_pData # SYSTEM =>
       /\ Bytes(p) \subseteq Offset
       /\ \A q \in Allocated : msg[q].m_pData # SYSTEM /\ q # p => Bytes(p) \cap Bytes(q) = {}
       /\ \A i \in Index : \A a \in RangeOf(m_FreeList[i]) : Bytes(p) \cap Block(i, a) = {}
  /\ \A i \in Index :
       /\ NoDuplicates(m_FreeList[i])
       /\ RangeOf(m_FreeList[i]) \subseteq RangeOf(LinkFreeElement(i))

\* The semaphore never lags behind the queue, also after failed pushes: each
\* queued message has a post, one about to come, or NetLoop on its way to it.
SemaphoreCovers ==
  sem + Cardinality({t \in Inserter : pc[t] = "post"})
      + (IF pc["main"] = "remove" THEN 1 ELSE 0) >= Len(m_Msgs)

\* A Msg whose push failed is lost to the pool, but only so many can be: as many
\* as there are Msgs beyond the queue's size, so none in the shipped configuration
\* (ConstConfigData.h:36 and 44), where a push never fails.
LeakBounded ==
  leaked = {} \/ Cardinality(leaked) + MSG_QUEUE_SIZE <= MSG_COUNT_MAX

Queued(p) == p \in RangeOf(m_Msgs)

\* NetLoop gets to every queued message unless it is told to stop.
QueuedIsHandled ==
  \A p \in Msg : Queued(p) ~> (~Queued(p) \/ pc["main"] = "exited")

\* ShutdownNetServer ends NetLoop, also when it is asleep and when it sets
\* running after ShutdownNetServer has cleared it, unless there was no Msg for
\* MSG_SHUTDOWN or no room for it in the queue.
ShutdownEndsLoop ==
  (pc["admin"] = "insert") ~>
    (\/ pc["main"] = "exited"
     \/ pc["admin"] = "failed"
     \/ pc["admin"] = "done" /\ pMsg["admin"] \in leaked)
=============================================================================
