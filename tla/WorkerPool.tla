------------------------------ MODULE WorkerPool ------------------------------
(***************************************************************************)
(* The Linux worker threads and the queue that feeds them:                 *)
(* Linux/AsyncOperationQueue, Linux/WorkerThread, Linux/Semaph, the        *)
(* dispatcher thread of Linux/Dispatcher and TCPStream::Shutdown.          *)
(*                                                                         *)
(* A thread is a program counter.  InsertAsyncOperation is the three steps *)
(* Lock, Push (which unlocks), Post; RemoveAsyncOperation is Lock, Pop.    *)
(* What Complete does to a session is the business of other modules: here  *)
(* it returns, and on the way it may insert one ASYNC_OPERATION_CLOSE.     *)
(* m_Runnable is a plain bool, but each read of it is a call into another  *)
(* translation unit and each SHUTDOWN is handed over under a mutex, so     *)
(* reads and writes interleave one at a time.                              *)
(***************************************************************************)
EXTENDS Integers, Sequences, FiniteSets

CONSTANTS
  Worker,                      \* TCPStream::m_Threads
  Session,                     \* the registered sockets
  OpsMax,                      \* bound: operations per session
  ASYNC_OPERATION_QUEUE_SIZE,
  SHUTDOWN,                    \* the pair NULL, ASYNC_OPERATION_SHUTDOWN
  UNINIT,                      \* an AsyncOperationData nothing was assigned to
  NoOne                        \* the owner of a free mutex

\* <<s, n>> is the n-th operation on session s.
Op == Session \X (1 .. OpsMax)

Thread == Worker \cup {"dispatcher", "main"}

ASSUME PoolAssumption ==
  /\ IsFiniteSet(Worker) /\ "dispatcher" \notin Worker /\ "main" \notin Worker
  /\ OpsMax \in Nat
  /\ ASYNC_OPERATION_QUEUE_SIZE \in Nat \ {0}
  /\ SHUTDOWN \notin Op /\ UNINIT \notin Op /\ SHUTDOWN # UNINIT
  /\ NoOne \notin Thread

VARIABLES
  pc,
  op,                \* per thread: the operation being inserted or handled
  m_AsyncOperations, \* the queue; include/Queue.h implements BoundedFifo
  m_pMutex,          \* the queue's mutex: its owner or NoOne
  sem,               \* g_pAsyncOperationQueueSemaph
  m_Runnable,        \* per worker and for the dispatcher
  cancel,            \* pthread_cancel was called on the dispatcher
  events,            \* the sessions left of the last epoll_wait
  toFlag,            \* workers TCPStream::Shutdown has not called Shutdown on
  toInsert,          \* SHUTDOWN operations it has still to insert
  issued,            \* per session: operations created so far
  done,              \* ghost: operations whose Complete returned
  dropped            \* ghost: operations whose PushBack failed

vars == <<pc, op, m_AsyncOperations, m_pMutex, sem, m_Runnable, cancel, events,
          toFlag, toInsert, issued, done, dropped>>

Goto(t, label) == pc' = [pc EXCEPT ![t] = label]

\* A worker whose Start failed (it is only logged) never runs.
Init ==
  /\ pc \in [Thread -> {"loop", "exited"}]
  /\ pc["dispatcher"] = "loop" /\ pc["main"] = "loop"
  /\ op = [t \in Thread |-> UNINIT]
  /\ m_AsyncOperations = << >> /\ m_pMutex = NoOne /\ sem = 0
  /\ m_Runnable = [t \in Thread |-> TRUE]
  /\ cancel = FALSE /\ events = {}
  /\ toFlag = Worker /\ toInsert = Cardinality(Worker)
  /\ issued = [s \in Session |-> 0]
  /\ done = {} /\ dropped = {}
-----------------------------------------------------------------------------
(* AsyncOperationQueue *)

Lock(t) ==
  /\ pc[t] \in {"insert", "remove"}
  /\ m_pMutex = NoOne
  /\ m_pMutex' = t
  /\ Goto(t, IF pc[t] = "insert" THEN "push" ELSE "pop")
  /\ UNCHANGED <<op, m_AsyncOperations, sem, m_Runnable, cancel, events, toFlag,
                 toInsert, issued, done, dropped>>

Push(t) ==
  /\ pc[t] = "push"
  /\ \/ /\ Len(m_AsyncOperations) < ASYNC_OPERATION_QUEUE_SIZE
        /\ m_AsyncOperations' = Append(m_AsyncOperations, op[t])
        /\ UNCHANGED dropped
     \/ /\ Len(m_AsyncOperations) = ASYNC_OPERATION_QUEUE_SIZE
        /\ dropped' = dropped \cup {op[t]}
        /\ UNCHANGED m_AsyncOperations
  /\ m_pMutex' = NoOne
  /\ Goto(t, "post")
  /\ UNCHANGED <<op, sem, m_Runnable, cancel, events, toFlag, toInsert, issued,
                 done>>

\* Where InsertAsyncOperation returns to.
AfterInsert(t) ==
  CASE t = "dispatcher" -> "dispatch"
    [] t = "main"       -> "inserting"
    [] OTHER            -> "returning"

\* Mutant: only an insertion into an empty queue posts.
PostedOnFirstOnly == IF Len(m_AsyncOperations) = 1 THEN sem + 1 ELSE sem

Posted == sem + 1

\* The semaphore is posted whether or not PushBack succeeded.
Post(t) ==
  /\ pc[t] = "post"
  /\ sem' = Posted
  /\ Goto(t, AfterInsert(t))
  /\ op' = [op EXCEPT ![t] = UNINIT]
  /\ UNCHANGED <<m_AsyncOperations, m_pMutex, m_Runnable, cancel, events,
                 toFlag, toInsert, issued, done, dropped>>

\* Mutant: PopFront is missing.
AfterFrontAlone == m_AsyncOperations

AfterPopFront == Tail(m_AsyncOperations)

\* Front and PopFront; on an empty queue the local AsyncOperationData is
\* returned as its empty constructor left it.
Pop(w) ==
  /\ pc[w] = "pop"
  /\ \/ /\ m_AsyncOperations # << >>
        /\ op' = [op EXCEPT ![w] = Head(m_AsyncOperations)]
        /\ m_AsyncOperations' = AfterPopFront
     \/ /\ m_AsyncOperations = << >>
        /\ op' = [op EXCEPT ![w] = UNINIT]
        /\ UNCHANGED m_AsyncOperations
  /\ m_pMutex' = NoOne
  /\ Goto(w, "check")
  /\ UNCHANGED <<sem, m_Runnable, cancel, events, toFlag, toInsert, issued, done,
                 dropped>>
-----------------------------------------------------------------------------
(* WorkerThread::Run *)

RunLoop(w) ==
  /\ pc[w] = "loop"
  /\ Goto(w, IF m_Runnable[w] THEN "wait" ELSE "exited")
  /\ UNCHANGED <<op, m_AsyncOperations, m_pMutex, sem, m_Runnable, cancel, events,
                 toFlag, toInsert, issued, done, dropped>>

\* Mutant: Wait does not wait.
MayPassAlways == TRUE

MayPass == sem > 0

Wait(w) ==
  /\ pc[w] = "wait"
  /\ MayPass
  /\ sem' = sem - 1
  /\ Goto(w, "remove")
  /\ UNCHANGED <<op, m_AsyncOperations, m_pMutex, m_Runnable, cancel, events,
                 toFlag, toInsert, issued, done, dropped>>

\* An uninitialised type may by chance equal ASYNC_OPERATION_SHUTDOWN.
Break(w) == ~m_Runnable[w] /\ op[w] \in {SHUTDOWN, UNINIT}
Check(w) ==
  /\ pc[w] = "check"
  /\ \/ Break(w) /\ Goto(w, "exited")
     \/ ~(Break(w) /\ op[w] = SHUTDOWN) /\ Goto(w, "complete")
  /\ UNCHANGED <<op, m_AsyncOperations, m_pMutex, sem, m_Runnable, cancel, events,
                 toFlag, toInsert, issued, done, dropped>>

\* m_pAsyncCompleteOperation->Complete; there is no step through NULL or an
\* uninitialised pointer.
Complete(w) ==
  /\ pc[w] = "complete" /\ op[w] \in Op
  /\ done' = done \cup {op[w]}
  /\ Goto(w, "returning")
  /\ UNCHANGED <<op, m_AsyncOperations, m_pMutex, sem, m_Runnable, cancel, events,
                 toFlag, toInsert, issued, dropped>>

\* SessionCompleteOperation::Recv found the peer closed: Complete inserts
\* ASYNC_OPERATION_CLOSE for the same session before it returns.
CompleteInserts(w) ==
  /\ pc[w] = "complete" /\ op[w] \in Op
  /\ LET s == op[w][1] IN
       /\ issued[s] < OpsMax
       /\ issued' = [issued EXCEPT ![s] = @ + 1]
       /\ op' = [op EXCEPT ![w] = <<s, issued[s] + 1>>]
  /\ done' = done \cup {op[w]}
  /\ Goto(w, "insert")
  /\ UNCHANGED <<m_AsyncOperations, m_pMutex, sem, m_Runnable, cancel, events,
                 toFlag, toInsert, dropped>>

Return(w) ==
  /\ pc[w] = "returning"
  /\ Goto(w, "loop")
  /\ op' = [op EXCEPT ![w] = UNINIT]
  /\ UNCHANGED <<m_AsyncOperations, m_pMutex, sem, m_Runnable, cancel, events,
                 toFlag, toInsert, issued, done, dropped>>
-----------------------------------------------------------------------------
(* Dispatcher::Run *)

DispatchLoop ==
  /\ pc["dispatcher"] = "loop"
  /\ Goto("dispatcher", IF m_Runnable["dispatcher"] THEN "epoll_wait" ELSE "exited")
  /\ UNCHANGED <<op, m_AsyncOperations, m_pMutex, sem, m_Runnable, cancel, events,
                 toFlag, toInsert, issued, done, dropped>>

\* One event at most per socket.
EpollWait(ready) ==
  /\ pc["dispatcher"] = "epoll_wait"
  /\ ready # {}
  /\ \A s \in ready : issued[s] < OpsMax
  /\ events' = ready
  /\ Goto("dispatcher", "dispatch")
  /\ UNCHANGED <<op, m_AsyncOperations, m_pMutex, sem, m_Runnable, cancel, toFlag,
                 toInsert, issued, done, dropped>>

\* epoll_wait returned -1 (a signal will do): the loop breaks for good.
EpollWaitFails ==
  /\ pc["dispatcher"] = "epoll_wait"
  /\ Goto("dispatcher", "exited")
  /\ UNCHANGED <<op, m_AsyncOperations, m_pMutex, sem, m_Runnable, cancel, events,
                 toFlag, toInsert, issued, done, dropped>>

\* The body of the for loop up to the call of InsertAsyncOperation.
DispatchEvent(s) ==
  /\ pc["dispatcher"] = "dispatch"
  /\ s \in events /\ issued[s] < OpsMax
  /\ events' = events \ {s}
  /\ issued' = [issued EXCEPT ![s] = @ + 1]
  /\ op' = [op EXCEPT !["dispatcher"] = <<s, issued[s] + 1>>]
  /\ Goto("dispatcher", "insert")
  /\ UNCHANGED <<m_AsyncOperations, m_pMutex, sem, m_Runnable, cancel, toFlag,
                 toInsert, done, dropped>>

\* OpsMax may have been used up by a worker in the meantime.
DispatchDone ==
  /\ pc["dispatcher"] = "dispatch"
  /\ \A s \in events : issued[s] = OpsMax
  /\ events' = {}
  /\ Goto("dispatcher", "loop")
  /\ UNCHANGED <<op, m_AsyncOperations, m_pMutex, sem, m_Runnable, cancel, toFlag,
                 toInsert, issued, done, dropped>>

\* Mutant: the dispatcher can be cancelled asynchronously.
CancelAnywhere == pc["dispatcher"] # "exited"

\* Thread::Start sets the asynchronous cancel type of the thread that calls it,
\* so the dispatcher keeps the deferred default: it is cancelled in epoll_wait.
CancelPoint == pc["dispatcher"] = "epoll_wait"

Cancelled ==
  /\ cancel
  /\ CancelPoint
  /\ Goto("dispatcher", "exited")
  /\ UNCHANGED <<op, m_AsyncOperations, m_pMutex, sem, m_Runnable, cancel, events,
                 toFlag, toInsert, issued, done, dropped>>
-----------------------------------------------------------------------------
(* TCPStream::Shutdown *)

\* Dispatcher::Shutdown: Thread::Shutdown, then pthread_cancel.
ShutdownDispatcher ==
  /\ pc["main"] = "loop"
  /\ m_Runnable' = [m_Runnable EXCEPT !["dispatcher"] = FALSE]
  /\ Goto("main", "cancel")
  /\ UNCHANGED <<op, m_AsyncOperations, m_pMutex, sem, cancel, events, toFlag,
                 toInsert, issued, done, dropped>>

CancelDispatcher ==
  /\ pc["main"] = "cancel"
  /\ cancel' = TRUE
  /\ Goto("main", "flagging")
  /\ UNCHANGED <<op, m_AsyncOperations, m_pMutex, sem, m_Runnable, events, toFlag,
                 toInsert, issued, done, dropped>>

ShutdownWorker(w) ==
  /\ pc["main"] = "flagging"
  /\ w \in toFlag
  /\ m_Runnable' = [m_Runnable EXCEPT ![w] = FALSE]
  /\ toFlag' = toFlag \ {w}
  /\ UNCHANGED <<pc, op, m_AsyncOperations, m_pMutex, sem, cancel, events,
                 toInsert, issued, done, dropped>>

\* Mutant: the loop leaves out the last worker.
SomeFlagged == Cardinality(toFlag) <= 1

AllFlagged == toFlag = {}

FlaggingDone ==
  /\ pc["main"] = "flagging"
  /\ AllFlagged
  /\ Goto("main", "inserting")
  /\ UNCHANGED <<op, m_AsyncOperations, m_pMutex, sem, m_Runnable, cancel, events,
                 toFlag, toInsert, issued, done, dropped>>

InsertsLeft == toInsert > 0

InsertShutdown ==
  /\ pc["main"] = "inserting"
  /\ InsertsLeft
  /\ toInsert' = toInsert - 1
  /\ op' = [op EXCEPT !["main"] = SHUTDOWN]
  /\ Goto("main", "insert")
  /\ UNCHANGED <<m_AsyncOperations, m_pMutex, sem, m_Runnable, cancel, events,
                 toFlag, issued, done, dropped>>

ShutdownReturns ==
  /\ pc["main"] = "inserting"
  /\ ~InsertsLeft
  /\ Goto("main", "exited")
  /\ UNCHANGED <<op, m_AsyncOperations, m_pMutex, sem, m_Runnable, cancel, events,
                 toFlag, toInsert, issued, done, dropped>>
-----------------------------------------------------------------------------
WorkerStep(w) ==
  \/ RunLoop(w) \/ Wait(w) \/ Lock(w) \/ Pop(w) \/ Check(w)
  \/ Complete(w) \/ CompleteInserts(w) \/ Push(w) \/ Post(w) \/ Return(w)

DispatcherStep ==
  \/ DispatchLoop \/ EpollWaitFails \/ Cancelled \/ DispatchDone
  \/ \E ready \in SUBSET Session : EpollWait(ready)
  \/ \E s \in Session : DispatchEvent(s)
  \/ Lock("dispatcher") \/ Push("dispatcher") \/ Post("dispatcher")

MainStep ==
  \/ ShutdownDispatcher \/ CancelDispatcher \/ FlaggingDone
  \/ \E w \in Worker : ShutdownWorker(w)
  \/ InsertShutdown \/ ShutdownReturns
  \/ Lock("main") \/ Push("main") \/ Post("main")

\* After Shutdown the process ends when the threads have exited.
Terminated ==
  /\ \A t \in Thread : pc[t] = "exited"
  /\ UNCHANGED vars

Next == (\E w \in Worker : WorkerStep(w)) \/ DispatcherStep \/ MainStep \/ Terminated

\* Every runnable thread is scheduled.  Nobody has to call Shutdown, no event
\* has to occur and epoll_wait has to return only when it is cancelled.
Fairness ==
  /\ \A w \in Worker : WF_vars(WorkerStep(w))
  /\ WF_vars(DispatchLoop \/ DispatchDone \/ Cancelled
             \/ (\E s \in Session : DispatchEvent(s))
             \/ Lock("dispatcher") \/ Push("dispatcher") \/ Post("dispatcher"))
  /\ WF_vars(MainStep /\ pc["main"] # "loop")

Spec == Init /\ [][Next]_vars /\ Fairness
-----------------------------------------------------------------------------
(* Properties *)

Label ==
  {"loop", "exited", "wait", "remove", "pop", "check", "complete", "insert",
   "push", "post", "returning", "epoll_wait", "dispatch", "cancel", "flagging",
   "inserting"}

\* The state has its types: the queue keeps within its size, and Shutdown inserts
\* one SHUTDOWN per worker and no more.
TypeOK ==
  /\ pc \in [Thread -> Label]
  /\ op \in [Thread -> Op \cup {SHUTDOWN, UNINIT}]
  /\ m_AsyncOperations \in Seq(Op \cup {SHUTDOWN})
  /\ Len(m_AsyncOperations) <= ASYNC_OPERATION_QUEUE_SIZE
  /\ m_pMutex \in Thread \cup {NoOne}
  /\ sem \in Nat
  /\ m_Runnable \in [Thread -> BOOLEAN]
  /\ cancel \in BOOLEAN
  /\ events \subseteq Session
  /\ toFlag \subseteq Worker
  /\ toInsert \in 0 .. Cardinality(Worker)
  /\ issued \in [Session -> 0 .. OpsMax]
  /\ done \subseteq Op
  /\ dropped \subseteq Op \cup {SHUTDOWN}

\* Threads between the queue and the semaphore: the operation is in the queue
\* and not yet posted, or its post is consumed and it is not yet removed.
InTransit == {t \in Thread : pc[t] \in {"post", "remove", "pop"}}

\* As long as no PushBack failed, AsyncOperationQueue's semaphore counts its
\* queue: posts and waits of all threads never drift from pushes and pops.
SemaphoreCountsQueue ==
  dropped = {} => sem + Cardinality(InTransit) = Len(m_AsyncOperations)

\* WorkerThread::Run calls Complete on an operation someone inserted, never on
\* the uninitialised result of an empty queue, unless a PushBack failed before.
NoUninitialisedComplete ==
  \A w \in Worker : pc[w] = "complete" /\ op[w] = UNINIT => dropped # {}

\* The NULL operation that TCPStream::Shutdown inserts for each worker is never
\* Completed, whichever worker takes it and however late.
ShutdownNeverCompleted ==
  \A w \in Worker : pc[w] = "complete" => op[w] # SHUTDOWN

\* An operation is handled once: it is never queued twice, and while it is queued
\* no worker holds it and no worker has already Completed it.
HandledOnce ==
  \A i \in 1 .. Len(m_AsyncOperations) :
    LET o == m_AsyncOperations[i] IN
    o \in Op =>
      /\ o \notin done \cup dropped
      /\ \A j \in 1 .. Len(m_AsyncOperations) : m_AsyncOperations[j] = o => i = j
      /\ \A t \in Thread : op[t] = o => pc[t] = "post"

\* Once TCPStream::Shutdown is under way every started worker thread exits,
\* also the ones asleep in the semaphore and the ones in Complete, unless a
\* PushBack fails.
WorkersExit ==
  (pc["main"] = "cancel") ~> ((\A w \in Worker : pc[w] = "exited") \/ dropped # {})

Queued(o) == \E i \in 1 .. Len(m_AsyncOperations) : m_AsyncOperations[i] = o

\* Every queued operation is Completed, unless Shutdown begins, no worker thread
\* ever started or a PushBack fails.
QueuedIsCompleted ==
  \A o \in Op :
    Queued(o) ~> (\/ o \in done
                  \/ pc["main"] # "loop"
                  \/ dropped # {}
                  \/ \A w \in Worker : pc[w] = "exited")
=============================================================================
