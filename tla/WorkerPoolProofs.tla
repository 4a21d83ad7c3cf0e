--------------------------- MODULE WorkerPoolProofs ---------------------------
(***************************************************************************)
(* Proofs about WorkerPool, for any number of workers and sessions and any *)
(* queue size.                                                             *)
(***************************************************************************)
EXTENDS WorkerPool, FiniteSetTheorems, SequenceTheorems, TLAPS

(***************************************************************************)
(* The inductive invariant.  The two properties about Complete need to     *)
(* know where a SHUTDOWN operation can be (only after the main thread has  *)
(* left the loop that clears m_Runnable) and that a thread about to push   *)
(* has an operation in hand.                                               *)
(***************************************************************************)
Flagged == \A w \in Worker : w \notin toFlag => ~m_Runnable[w]

MainInserts ==
  pc["main"] \in {"inserting", "insert", "push", "post"} => toFlag = {}

ShutdownAfterFlags ==
  /\ \A t \in Thread : op[t] = SHUTDOWN => toFlag = {}
  /\ \A i \in 1 .. Len(m_AsyncOperations) :
       m_AsyncOperations[i] = SHUTDOWN => toFlag = {}

InHand ==
  \A t \in Thread :
    /\ pc[t] \in {"insert", "push"} => op[t] # UNINIT
    /\ pc[t] \in {"check", "complete"} /\ op[t] = UNINIT => dropped # {}

NotCompleted == \A t \in Thread : pc[t] = "complete" => op[t] # SHUTDOWN

Inv == /\ TypeOK /\ SemaphoreCountsQueue /\ Flagged /\ MainInserts
       /\ ShutdownAfterFlags /\ InHand /\ NotCompleted
-----------------------------------------------------------------------------
(* Counting the threads between the queue and the semaphore *)

Crossing == {"post", "remove", "pop"}

\* The workers, the dispatcher and the main thread are finitely many.
LEMMA ThreadFinite == IsFiniteSet(Thread)
<1>1. IsFiniteSet(Worker \cup {"dispatcher"})
  BY PoolAssumption, FS_AddElement
<1>2. IsFiniteSet((Worker \cup {"dispatcher"}) \cup {"main"})
  BY <1>1, FS_AddElement
<1>3. Thread = (Worker \cup {"dispatcher"}) \cup {"main"}
  BY DEF Thread
<1> QED BY <1>2, <1>3

\* So are the threads between queue and semaphore, and their number is a natural.
LEMMA TransitFinite ==
  /\ IsFiniteSet(InTransit) /\ Cardinality(InTransit) \in Nat
  /\ \A t \in InTransit : Cardinality(InTransit) >= 1
<1>1. InTransit \in SUBSET Thread BY DEF InTransit
<1>2. IsFiniteSet(InTransit) BY <1>1, ThreadFinite, FS_Subset
<1>3. Cardinality(InTransit) \in Nat BY <1>2, FS_CardinalityType
<1>4. InTransit # {} => Cardinality(InTransit) # 0 BY <1>2, FS_EmptySet
<1> QED BY <1>2, <1>3, <1>4

\* A thread enters the set.
LEMMA TransitAdds ==
  ASSUME TypeOK, NEW t \in Thread, NEW l \in Label,
         pc' = [pc EXCEPT ![t] = l], pc[t] \notin Crossing, l \in Crossing
  PROVE  Cardinality(InTransit') = Cardinality(InTransit) + 1
<1>1. t \notin InTransit BY DEF InTransit, Crossing
<1>2. InTransit' = InTransit \cup {t}
  BY DEF InTransit, Crossing, TypeOK
<1> QED BY <1>1, <1>2, TransitFinite, FS_AddElement

\* A thread leaves the set.
LEMMA TransitDrops ==
  ASSUME TypeOK, NEW t \in Thread, NEW l \in Label,
         pc' = [pc EXCEPT ![t] = l], pc[t] \in Crossing, l \notin Crossing
  PROVE  Cardinality(InTransit') = Cardinality(InTransit) - 1
<1>1. t \in InTransit BY DEF InTransit, Crossing
<1>2. InTransit' = InTransit \ {t}
  BY DEF InTransit, Crossing, TypeOK
<1> QED BY <1>1, <1>2, TransitFinite, FS_RemoveElement

\* A thread stays on its side.
LEMMA TransitStays ==
  ASSUME TypeOK, NEW t \in Thread, NEW l \in Label,
         pc' = [pc EXCEPT ![t] = l], pc[t] \in Crossing <=> l \in Crossing
  PROVE  Cardinality(InTransit') = Cardinality(InTransit)
<1>1. InTransit' = InTransit
  BY DEF InTransit, Crossing, TypeOK
<1> QED BY <1>1
-----------------------------------------------------------------------------
\* Before any thread runs, queue and semaphore are empty.
LEMMA InitInv == Init => Inv
<1> SUFFICES ASSUME Init PROVE Inv OBVIOUS
<1> USE PoolAssumption
<1>1. Cardinality(Worker) \in Nat BY FS_CardinalityType
<1>2. TypeOK
  <2>1. pc \in [Thread -> Label] BY DEF Init, Label
  <2>2. /\ op \in [Thread -> Op \cup {SHUTDOWN, UNINIT}]
        /\ m_Runnable \in [Thread -> BOOLEAN]
        /\ issued \in [Session -> 0 .. OpsMax]
    BY DEF Init
  <2>3. m_AsyncOperations \in Seq(Op \cup {SHUTDOWN}) /\ Len(m_AsyncOperations) = 0
    BY DEF Init
  <2>4. cancel \in BOOLEAN /\ m_pMutex \in Thread \cup {NoOne} BY DEF Init
  <2>5. sem \in Nat /\ toInsert \in 0 .. Cardinality(Worker) BY <1>1 DEF Init
  <2>6. /\ events \subseteq Session /\ toFlag \subseteq Worker
        /\ done \subseteq Op /\ dropped \subseteq Op \cup {SHUTDOWN}
    BY DEF Init
  <2> QED BY <2>1, <2>2, <2>3, <2>4, <2>5, <2>6 DEF TypeOK
<1>3. InTransit = {} BY DEF Init, InTransit
<1>4. SemaphoreCountsQueue
  BY <1>3, FS_EmptySet DEF Init, SemaphoreCountsQueue
<1>5. Flagged /\ MainInserts /\ ShutdownAfterFlags /\ InHand /\ NotCompleted
  BY DEF Init, Flagged, MainInserts, ShutdownAfterFlags, InHand, NotCompleted, Thread
<1> QED BY <1>2, <1>4, <1>5 DEF Inv

\* The parts that do not depend on the queue and the semaphore.
Rest == Flagged /\ MainInserts /\ ShutdownAfterFlags /\ InHand /\ NotCompleted

\* Taking the mutex moves a thread within InTransit or outside it, never across.
LEMMA LockInv == ASSUME Inv, NEW t \in Thread, Lock(t) PROVE Inv'
<1> USE PoolAssumption
<1>1. TypeOK' BY DEF Inv, TypeOK, Lock, Goto, Label
<1>2. Cardinality(InTransit') = Cardinality(InTransit)
  <2>1. CASE pc[t] = "insert"
    BY <2>1, TransitStays DEF Inv, Lock, Goto, Crossing, Label
  <2>2. CASE pc[t] = "remove"
    BY <2>2, TransitStays DEF Inv, Lock, Goto, Crossing, Label
  <2> QED BY <2>1, <2>2 DEF Lock
<1>3. SemaphoreCountsQueue' BY <1>2 DEF Inv, Lock, SemaphoreCountsQueue
<1>4. Rest'
  BY DEF Rest, Inv, TypeOK, Lock, Goto, Flagged, MainInserts, ShutdownAfterFlags,
         InHand, NotCompleted, Thread
<1> QED BY <1>1, <1>3, <1>4 DEF Inv, Rest

\* What PushBack does to the queue.
LEMMA PushedQueue ==
  ASSUME Inv, NEW t \in Thread, Push(t)
  PROVE  /\ m_AsyncOperations' \in Seq(Op \cup {SHUTDOWN})
         /\ Len(m_AsyncOperations') <= ASYNC_OPERATION_QUEUE_SIZE
         /\ dropped' \subseteq Op \cup {SHUTDOWN} /\ dropped \subseteq dropped'
         /\ dropped' = {} => Len(m_AsyncOperations') = Len(m_AsyncOperations) + 1
         /\ \A i \in 1 .. Len(m_AsyncOperations') :
              \/ m_AsyncOperations'[i] = op[t]
              \/ /\ i \in 1 .. Len(m_AsyncOperations)
                 /\ m_AsyncOperations'[i] = m_AsyncOperations[i]
<1> USE PoolAssumption
<1> DEFINE Q == Op \cup {SHUTDOWN}
<1>1. op[t] \in Q BY DEF Inv, TypeOK, InHand, Push
<1>2. m_AsyncOperations \in Seq(Q) BY DEF Inv, TypeOK
<1>3. CASE Len(m_AsyncOperations) < ASYNC_OPERATION_QUEUE_SIZE
  <2>1. m_AsyncOperations' = Append(m_AsyncOperations, op[t]) /\ dropped' = dropped
    BY <1>2, <1>3 DEF Push
  <2> HIDE DEF Q
  <2>2. /\ m_AsyncOperations' \in Seq(Q)
        /\ Len(m_AsyncOperations') = Len(m_AsyncOperations) + 1
        /\ \A i \in 1 .. Len(m_AsyncOperations) :
             m_AsyncOperations'[i] = m_AsyncOperations[i]
        /\ m_AsyncOperations'[Len(m_AsyncOperations) + 1] = op[t]
    BY <1>1, <1>2, <2>1, AppendProperties
  <2>3. \A i \in 1 .. Len(m_AsyncOperations') :
          \/ m_AsyncOperations'[i] = op[t]
          \/ /\ i \in 1 .. Len(m_AsyncOperations)
             /\ m_AsyncOperations'[i] = m_AsyncOperations[i]
    BY <1>2, <2>2
  <2>4. Len(m_AsyncOperations') <= ASYNC_OPERATION_QUEUE_SIZE
    BY <1>2, <1>3, <2>2
  <2>5. dropped \subseteq Q BY DEF Inv, TypeOK, Q
  <2> QED BY <2>1, <2>2, <2>3, <2>4, <2>5 DEF Q
<1>4. CASE Len(m_AsyncOperations) = ASYNC_OPERATION_QUEUE_SIZE
  <2>1. m_AsyncOperations' = m_AsyncOperations /\ dropped' = dropped \cup {op[t]}
    BY <1>2, <1>4 DEF Push
  <2>2. dropped \subseteq Q BY DEF Inv, TypeOK
  <2> QED BY <1>1, <1>2, <1>4, <2>1, <2>2
<1> QED BY <1>3, <1>4 DEF Push

\* PushBack: an accepted element and a thread in transit come together.
LEMMA PushInv == ASSUME Inv, NEW t \in Thread, Push(t) PROVE Inv'
<1> USE PoolAssumption
<1>1. TypeOK' BY PushedQueue DEF Inv, TypeOK, Push, Goto, Label
<1>2. Cardinality(InTransit') = Cardinality(InTransit) + 1
  BY TransitAdds DEF Inv, Push, Goto, Crossing, Label
<1>3. SemaphoreCountsQueue'
  <2>1. sem' = sem /\ dropped \subseteq dropped' BY PushedQueue DEF Push
  <2>2. dropped' = {} => Len(m_AsyncOperations') = Len(m_AsyncOperations) + 1
    BY PushedQueue
  <2>3. dropped = {} => Len(m_AsyncOperations) = sem + Cardinality(InTransit)
    BY DEF Inv, SemaphoreCountsQueue
  <2>4. Cardinality(InTransit) \in Nat /\ sem \in Int
    BY TransitFinite DEF Inv, TypeOK
  <2>5. dropped' = {} => dropped = {} BY <2>1
  <2>6. dropped' = {} => Len(m_AsyncOperations') = sem' + Cardinality(InTransit')
    BY <1>2, <2>1, <2>2, <2>3, <2>4, <2>5
  <2> QED BY <2>6 DEF SemaphoreCountsQueue
<1>4. Flagged' /\ MainInserts' /\ NotCompleted'
  BY DEF Inv, TypeOK, Push, Goto, Flagged, MainInserts, NotCompleted, Thread
<1>5. ShutdownAfterFlags'
  BY PushedQueue DEF Inv, Push, ShutdownAfterFlags
<1>6. InHand'
  BY PushedQueue DEF Inv, TypeOK, Push, Goto, InHand
<1> QED BY <1>1, <1>3, <1>4, <1>5, <1>6 DEF Inv

\* Post: the thread leaves the transit and the semaphore takes its place.
LEMMA PostInv == ASSUME Inv, NEW t \in Thread, Post(t) PROVE Inv'
<1> USE PoolAssumption
<1>0. /\ AfterInsert(t) \in Label \ {"insert", "push", "check", "complete"}
      /\ AfterInsert(t) \notin Crossing
      /\ t # "main" => AfterInsert(t) # "inserting"
  BY DEF AfterInsert, Label, Crossing
<1>1. TypeOK' BY <1>0 DEF Inv, TypeOK, Post, Posted, Goto
<1>2. Cardinality(InTransit') = Cardinality(InTransit) - 1
  BY <1>0, TransitDrops DEF Inv, Post, Goto, Crossing
<1>3. SemaphoreCountsQueue'
  BY <1>2, TransitFinite DEF Inv, TypeOK, Post, Posted, SemaphoreCountsQueue
<1>4. Rest'
  BY <1>0 DEF Rest, Inv, TypeOK, Post, Goto, Flagged, MainInserts,
         ShutdownAfterFlags, InHand, NotCompleted, Thread
<1> QED BY <1>1, <1>3, <1>4 DEF Inv, Rest

\* What RemoveAsyncOperation does to the queue and returns.
LEMMA PoppedQueue ==
  ASSUME Inv, NEW w \in Worker, Pop(w)
  PROVE  /\ m_AsyncOperations' \in Seq(Op \cup {SHUTDOWN})
         /\ Len(m_AsyncOperations') <= ASYNC_OPERATION_QUEUE_SIZE
         /\ dropped = {} => Len(m_AsyncOperations') = Len(m_AsyncOperations) - 1
         /\ \A i \in 1 .. Len(m_AsyncOperations') :
              /\ i + 1 \in 1 .. Len(m_AsyncOperations)
              /\ m_AsyncOperations'[i] = m_AsyncOperations[i + 1]
         /\ \E o \in Op \cup {SHUTDOWN, UNINIT} :
              /\ op' = [op EXCEPT ![w] = o]
              /\ o = UNINIT => dropped # {}
              /\ o = SHUTDOWN => \E i \in 1 .. Len(m_AsyncOperations) :
                                   m_AsyncOperations[i] = SHUTDOWN
<1> USE PoolAssumption
<1> DEFINE Q == Op \cup {SHUTDOWN}
<1>1. m_AsyncOperations \in Seq(Q) BY DEF Inv, TypeOK
<1>2. CASE m_AsyncOperations # << >>
  <2>1. /\ m_AsyncOperations' = Tail(m_AsyncOperations)
        /\ op' = [op EXCEPT ![w] = Head(m_AsyncOperations)]
    BY <1>2 DEF Pop, AfterPopFront
  <2> HIDE DEF Q
  <2>2. /\ m_AsyncOperations' \in Seq(Q)
        /\ Len(m_AsyncOperations') = Len(m_AsyncOperations) - 1
        /\ \A i \in 1 .. Len(m_AsyncOperations') :
             m_AsyncOperations'[i] = m_AsyncOperations[i + 1]
        /\ Head(m_AsyncOperations) \in Q
        /\ Head(m_AsyncOperations) = m_AsyncOperations[1]
        /\ 1 \in 1 .. Len(m_AsyncOperations)
    BY <1>1, <1>2, <2>1, HeadTailProperties
  <2>3. \A i \in 1 .. Len(m_AsyncOperations') :
          i + 1 \in 1 .. Len(m_AsyncOperations)
    BY <1>1, <2>2
  <2>4. Len(m_AsyncOperations') <= ASYNC_OPERATION_QUEUE_SIZE
    BY <1>1, <2>2 DEF Inv, TypeOK
  <2>5. Head(m_AsyncOperations) \in Op \cup {SHUTDOWN} BY <2>2 DEF Q
  <2>6. Head(m_AsyncOperations) # UNINIT BY <2>5
  <2>7. \E o \in Op \cup {SHUTDOWN, UNINIT} :
          /\ op' = [op EXCEPT ![w] = o]
          /\ o = UNINIT => dropped # {}
          /\ o = SHUTDOWN => \E i \in 1 .. Len(m_AsyncOperations) :
                               m_AsyncOperations[i] = SHUTDOWN
    BY <2>1, <2>2, <2>5, <2>6
  <2>8. m_AsyncOperations' \in Seq(Op \cup {SHUTDOWN}) BY <2>2 DEF Q
  <2> QED BY <2>2, <2>3, <2>4, <2>7, <2>8
<1>3. CASE m_AsyncOperations = << >>
  <2>1. w \in InTransit BY DEF Pop, InTransit, Thread
  <2>2. dropped # {}
    BY <1>3, <2>1, TransitFinite DEF Inv, TypeOK, SemaphoreCountsQueue
  <2> QED BY <1>1, <1>3, <2>2 DEF Inv, TypeOK, Pop
<1> QED BY <1>2, <1>3

\* Front and PopFront: an element and a thread in transit leave together.
LEMMA PopInv == ASSUME Inv, NEW w \in Worker, Pop(w) PROVE Inv'
<1> USE PoolAssumption
<1>0. w \in Thread /\ w # "main" BY DEF Thread
<1>1. PICK o \in Op \cup {SHUTDOWN, UNINIT} :
        /\ op' = [op EXCEPT ![w] = o]
        /\ o = UNINIT => dropped # {}
        /\ o = SHUTDOWN => \E i \in 1 .. Len(m_AsyncOperations) :
                             m_AsyncOperations[i] = SHUTDOWN
  BY PoppedQueue
<1>2. TypeOK' BY <1>0, <1>1, PoppedQueue DEF Inv, TypeOK, Pop, Goto, Label
<1>3. Cardinality(InTransit') = Cardinality(InTransit) - 1
  BY <1>0, TransitDrops DEF Inv, Pop, Goto, Crossing, Label
<1>4. SemaphoreCountsQueue'
  BY <1>3, PoppedQueue, TransitFinite DEF Inv, TypeOK, Pop, SemaphoreCountsQueue
<1>5. Flagged' /\ MainInserts' /\ NotCompleted'
  BY <1>0, <1>1 DEF Inv, TypeOK, Pop, Goto, Flagged, MainInserts, NotCompleted
<1>6. ShutdownAfterFlags'
  BY <1>0, <1>1, PoppedQueue DEF Inv, TypeOK, Pop, ShutdownAfterFlags
<1>7. InHand'
  BY <1>0, <1>1 DEF Inv, TypeOK, Pop, Goto, InHand
<1> QED BY <1>2, <1>4, <1>5, <1>6, <1>7 DEF Inv

\* A step that moves one thread without crossing and leaves the queue, the
\* semaphore and the flags alone.
LEMMA MoveInv ==
  ASSUME Inv, NEW t \in Thread,
         NEW l \in Label \ (Crossing \cup {"check", "complete"}),
         Goto(t, l), pc[t] \notin Crossing,
         t = "main" /\ l \in {"inserting", "insert", "push"} => toFlag = {},
         NEW o \in Op \cup {SHUTDOWN, UNINIT},
         op' = [op EXCEPT ![t] = o],
         l \in {"insert", "push"} => o # UNINIT,
         o = SHUTDOWN => toFlag = {},
         events' \subseteq Session, done' \subseteq Op, cancel' \in BOOLEAN,
         issued' \in [Session -> 0 .. OpsMax],
         toInsert' \in 0 .. Cardinality(Worker),
         UNCHANGED <<m_AsyncOperations, m_pMutex, sem, m_Runnable, toFlag, dropped>>
  PROVE  Inv'
<1> USE PoolAssumption
<1>1. TypeOK' BY DEF Inv, TypeOK, Goto
<1>2. Cardinality(InTransit') = Cardinality(InTransit)
  BY TransitStays DEF Inv, Goto
<1>3. SemaphoreCountsQueue' BY <1>2 DEF Inv, SemaphoreCountsQueue
<1>4. Flagged' /\ MainInserts' BY DEF Inv, TypeOK, Goto, Flagged, MainInserts, Crossing
<1>5. ShutdownAfterFlags' BY DEF Inv, TypeOK, ShutdownAfterFlags
<1>6. InHand' /\ NotCompleted' BY DEF Inv, TypeOK, Goto, InHand, NotCompleted
<1> QED BY <1>1, <1>3, <1>4, <1>5, <1>6 DEF Inv

\* The same for a step that keeps the thread's operation.
LEMMA StepInv ==
  ASSUME Inv, NEW t \in Thread,
         NEW l \in {"loop", "wait", "exited", "returning", "dispatch", "epoll_wait",
                    "flagging", "inserting"},
         Goto(t, l), pc[t] \notin Crossing,
         t = "main" /\ l = "inserting" => toFlag = {},
         events' \subseteq Session, done' \subseteq Op, cancel' \in BOOLEAN,
         UNCHANGED <<op, m_AsyncOperations, m_pMutex, sem, m_Runnable, toFlag,
                     toInsert, issued, dropped>>
  PROVE  Inv'
<1>1. l \in Label \ (Crossing \cup {"check", "complete"}) BY DEF Label, Crossing
<1>2. op[t] \in Op \cup {SHUTDOWN, UNINIT} /\ op' = [op EXCEPT ![t] = op[t]]
  BY DEF Inv, TypeOK
<1>3. op[t] = SHUTDOWN => toFlag = {} BY DEF Inv, ShutdownAfterFlags
<1>4. issued' \in [Session -> 0 .. OpsMax] /\ toInsert' \in 0 .. Cardinality(Worker)
  BY DEF Inv, TypeOK
<1> QED BY <1>1, <1>2, <1>3, <1>4, MoveInv

\* Wait: the semaphore gives up one, and the worker enters the transit.
LEMMA WaitInv == ASSUME Inv, NEW w \in Worker, Wait(w) PROVE Inv'
<1> USE PoolAssumption
<1>0. w \in Thread /\ w # "main" BY DEF Thread
<1>1. TypeOK' BY <1>0 DEF Inv, TypeOK, Wait, MayPass, Goto, Label
<1>2. Cardinality(InTransit') = Cardinality(InTransit) + 1
  BY <1>0, TransitAdds DEF Inv, Wait, Goto, Crossing, Label
<1>3. SemaphoreCountsQueue'
  BY <1>2, TransitFinite DEF Inv, TypeOK, Wait, SemaphoreCountsQueue
<1>4. Rest'
  BY <1>0 DEF Rest, Inv, TypeOK, Wait, Goto, Flagged, MainInserts,
         ShutdownAfterFlags, InHand, NotCompleted
<1> QED BY <1>1, <1>3, <1>4 DEF Inv, Rest

\* A worker that goes on to Complete does not hold SHUTDOWN: it was pushed
\* after every m_Runnable was cleared, so the test in Run takes the break.
LEMMA CheckInv == ASSUME Inv, NEW w \in Worker, Check(w) PROVE Inv'
<1> USE PoolAssumption
<1>0. w \in Thread /\ w # "main" BY DEF Thread
<1>1. op[w] = SHUTDOWN => ~m_Runnable[w]
  BY <1>0 DEF Inv, ShutdownAfterFlags, Flagged
<1>2. PICK l \in {"exited", "complete"} :
        Goto(w, l) /\ (l = "complete" => op[w] # SHUTDOWN)
  BY <1>1 DEF Check, Break
<1>3. TypeOK' BY <1>0, <1>2 DEF Inv, TypeOK, Check, Goto, Label
<1>4. Cardinality(InTransit') = Cardinality(InTransit)
  BY <1>0, <1>2, TransitStays DEF Inv, Check, Goto, Crossing, Label
<1>5. SemaphoreCountsQueue' BY <1>4 DEF Inv, Check, SemaphoreCountsQueue
<1>6. Rest'
  BY <1>0, <1>2 DEF Rest, Inv, TypeOK, Check, Goto, Flagged, MainInserts,
         ShutdownAfterFlags, InHand, NotCompleted
<1> QED BY <1>3, <1>5, <1>6 DEF Inv, Rest

\* Clearing one m_Runnable.
LEMMA FlagInv == ASSUME Inv, NEW w \in Worker, ShutdownWorker(w) PROVE Inv'
<1> USE PoolAssumption
<1>0. w \in Thread BY DEF Thread
<1>1. TypeOK' BY <1>0 DEF Inv, TypeOK, ShutdownWorker
<1>2. SemaphoreCountsQueue'
  BY DEF Inv, ShutdownWorker, SemaphoreCountsQueue, InTransit
<1>3. Rest'
  BY <1>0 DEF Rest, Inv, TypeOK, ShutdownWorker, Flagged, MainInserts,
         ShutdownAfterFlags, InHand, NotCompleted, Thread
<1> QED BY <1>1, <1>2, <1>3 DEF Inv, Rest

\* Clearing the m_Runnable of the dispatcher.
LEMMA ShutdownDispatcherInv == ASSUME Inv, ShutdownDispatcher PROVE Inv'
<1> USE PoolAssumption
<1>0. "main" \in Thread /\ "dispatcher" \in Thread BY DEF Thread
<1>1. TypeOK' BY <1>0 DEF Inv, TypeOK, ShutdownDispatcher, Goto, Label
<1>2. Cardinality(InTransit') = Cardinality(InTransit)
  BY <1>0, TransitStays DEF Inv, ShutdownDispatcher, Goto, Crossing, Label
<1>3. SemaphoreCountsQueue' BY <1>2 DEF Inv, ShutdownDispatcher, SemaphoreCountsQueue
<1>4. Rest'
  BY <1>0 DEF Rest, Inv, TypeOK, ShutdownDispatcher, Goto, Flagged, MainInserts,
         ShutdownAfterFlags, InHand, NotCompleted, Thread
<1> QED BY <1>1, <1>3, <1>4 DEF Inv, Rest

\* A new operation <<s, issued[s] + 1>> is created and handed to thread t.
LEMMA IssueInv ==
  ASSUME Inv, NEW t \in Thread, t # "main", pc[t] \notin Crossing,
         NEW s \in Session, issued[s] < OpsMax,
         issued' = [issued EXCEPT ![s] = @ + 1],
         op' = [op EXCEPT ![t] = <<s, issued[s] + 1>>],
         Goto(t, "insert"), events' \subseteq Session, done' \subseteq Op,
         UNCHANGED <<m_AsyncOperations, m_pMutex, sem, m_Runnable, cancel, toFlag,
                     toInsert, dropped>>
  PROVE  Inv'
<1> USE PoolAssumption
<1>1. issued' \in [Session -> 0 .. OpsMax] /\ issued[s] + 1 \in 1 .. OpsMax
  BY DEF Inv, TypeOK
<1>2. <<s, issued[s] + 1>> \in Op BY <1>1 DEF Op
<1> DEFINE o == <<s, issued[s] + 1>>
<1>3. o # SHUTDOWN /\ o # UNINIT /\ o \in Op \cup {SHUTDOWN, UNINIT} BY <1>2
<1>4. "insert" \in Label \ (Crossing \cup {"check", "complete"})
  BY DEF Label, Crossing
<1>5. cancel' \in BOOLEAN /\ toInsert' \in 0 .. Cardinality(Worker)
  BY DEF Inv, TypeOK
<1>6. op' = [op EXCEPT ![t] = o] OBVIOUS
<1> HIDE DEF o
<1> QED BY <1>1, <1>3, <1>4, <1>5, <1>6, MoveInv

\* Every step of a worker thread keeps the invariant.
LEMMA WorkerInv == ASSUME Inv, NEW w \in Worker, WorkerStep(w) PROVE Inv'
<1> USE PoolAssumption
<1>0. w \in Thread /\ w # "main" BY DEF Thread
<1>t. events \subseteq Session /\ done \subseteq Op /\ cancel \in BOOLEAN
  BY DEF Inv, TypeOK
<1>1. CASE RunLoop(w)
  <2> DEFINE l == IF m_Runnable[w] THEN "wait" ELSE "exited"
  <2>1. l \in {"wait", "exited"} /\ Goto(w, l) BY <1>1 DEF RunLoop
  <2> HIDE DEF l
  <2> QED BY <1>0, <1>1, <1>t, <2>1, StepInv DEF RunLoop, Crossing
<1>2. CASE Complete(w)
  BY <1>0, <1>2, <1>t, StepInv DEF Complete, Crossing
<1>3. CASE CompleteInserts(w)
  <2>1. op[w][1] \in Session BY <1>3 DEF CompleteInserts, Op
  <2> QED BY <1>0, <1>3, <1>t, <2>1, IssueInv DEF CompleteInserts, Crossing
<1>4. CASE Return(w)
  <2>1. "loop" \in Label \ (Crossing \cup {"check", "complete"})
    BY DEF Label, Crossing
  <2>2. /\ issued' \in [Session -> 0 .. OpsMax]
        /\ toInsert' \in 0 .. Cardinality(Worker)
    BY <1>4 DEF Inv, TypeOK, Return
  <2> QED BY <1>0, <1>4, <1>t, <2>1, <2>2, MoveInv DEF Return, Crossing
<1> QED
  BY <1>0, <1>1, <1>2, <1>3, <1>4, WaitInv, LockInv, PopInv, CheckInv, PushInv,
     PostInv
  DEF WorkerStep

\* Every step of the dispatcher thread keeps the invariant.
LEMMA DispatcherInv == ASSUME Inv, DispatcherStep PROVE Inv'
<1> USE PoolAssumption
<1>0. "dispatcher" \in Thread BY DEF Thread
<1>t. events \subseteq Session /\ done \subseteq Op /\ cancel \in BOOLEAN
  BY DEF Inv, TypeOK
<1>1. CASE DispatchLoop
  <2> DEFINE l == IF m_Runnable["dispatcher"] THEN "epoll_wait" ELSE "exited"
  <2>1. l \in {"epoll_wait", "exited"} /\ Goto("dispatcher", l)
    BY <1>1 DEF DispatchLoop
  <2> HIDE DEF l
  <2> QED BY <1>0, <1>1, <1>t, <2>1, StepInv DEF DispatchLoop, Crossing
<1>2. CASE EpollWaitFails
  BY <1>0, <1>2, <1>t, StepInv DEF EpollWaitFails, Crossing
<1>3. CASE Cancelled
  BY <1>0, <1>3, <1>t, StepInv DEF Cancelled, CancelPoint, Crossing
<1>4. CASE DispatchDone
  BY <1>0, <1>4, <1>t, StepInv DEF DispatchDone, Crossing
<1>5. ASSUME NEW ready \in SUBSET Session, EpollWait(ready) PROVE Inv'
  BY <1>0, <1>5, <1>t, StepInv DEF EpollWait, Crossing
<1>6. ASSUME NEW s \in Session, DispatchEvent(s) PROVE Inv'
  <2>1. events \ {s} \subseteq Session BY <1>t
  <2> QED BY <1>0, <1>6, <1>t, <2>1, IssueInv DEF DispatchEvent, Crossing
<1> QED
  BY <1>0, <1>1, <1>2, <1>3, <1>4, <1>5, <1>6, LockInv, PushInv, PostInv
  DEF DispatcherStep

\* Every step of TCPStream::Shutdown keeps the invariant.
LEMMA MainInv == ASSUME Inv, MainStep PROVE Inv'
<1> USE PoolAssumption
<1>0. "main" \in Thread BY DEF Thread
<1>t. events \subseteq Session /\ done \subseteq Op /\ cancel \in BOOLEAN
  BY DEF Inv, TypeOK
<1>1. CASE CancelDispatcher
  BY <1>0, <1>1, <1>t, StepInv DEF CancelDispatcher, Crossing
<1>2. CASE FlaggingDone
  BY <1>0, <1>2, <1>t, StepInv DEF FlaggingDone, AllFlagged, Crossing
<1>3. CASE InsertShutdown
  <2>1. "insert" \in Label \ (Crossing \cup {"check", "complete"})
    BY DEF Label, Crossing
  <2>2. issued' \in [Session -> 0 .. OpsMax]
    BY <1>3 DEF Inv, TypeOK, InsertShutdown
  <2>3. toInsert' \in 0 .. Cardinality(Worker)
    BY <1>3, FS_CardinalityType DEF Inv, TypeOK, InsertShutdown, InsertsLeft
  <2>4. toFlag = {} BY <1>3 DEF Inv, MainInserts, InsertShutdown
  <2> QED BY <1>0, <1>3, <1>t, <2>1, <2>2, <2>3, <2>4, MoveInv
          DEF InsertShutdown, Crossing
<1>4. CASE ShutdownReturns
  BY <1>0, <1>4, <1>t, StepInv DEF ShutdownReturns, Crossing
<1> QED
  BY <1>0, <1>1, <1>2, <1>3, <1>4, FlagInv, ShutdownDispatcherInv, LockInv,
     PushInv, PostInv
  DEF MainStep

\* Every step keeps the invariant.
LEMMA NextInv == Inv /\ [Next]_vars => Inv'
<1> SUFFICES ASSUME Inv, [Next]_vars PROVE Inv' OBVIOUS
<1>1. CASE UNCHANGED vars
  BY <1>1 DEF vars, Inv, TypeOK, SemaphoreCountsQueue, InTransit, Flagged,
     MainInserts, ShutdownAfterFlags, InHand, NotCompleted
<1>2. CASE Terminated BY <1>1, <1>2 DEF Terminated
<1> QED BY <1>1, <1>2, WorkerInv, DispatcherInv, MainInv DEF Next

\* The types, and that AsyncOperationQueue's semaphore counts its queue, in every
\* reachable state of any number of worker threads.
THEOREM PoolSemaphore == Spec => [](TypeOK /\ SemaphoreCountsQueue)
<1>1. Inv => TypeOK /\ SemaphoreCountsQueue BY DEF Inv
<1> QED BY <1>1, InitInv, NextInv, PTL DEF Spec

\* WorkerThread::Run never Completes the NULL operation of TCPStream::Shutdown.
THEOREM PoolShutdown == Spec => []ShutdownNeverCompleted
<1>1. Inv => ShutdownNeverCompleted
  BY DEF Inv, NotCompleted, ShutdownNeverCompleted, Thread
<1> QED BY <1>1, InitInv, NextInv, PTL DEF Spec

\* WorkerThread::Run never Completes an uninitialised operation unless
\* InsertAsyncOperation has failed before.
THEOREM PoolInitialised == Spec => []NoUninitialisedComplete
<1>1. Inv => NoUninitialisedComplete
  BY DEF Inv, InHand, NoUninitialisedComplete, Thread
<1> QED BY <1>1, InitInv, NextInv, PTL DEF Spec
-----------------------------------------------------------------------------
(***************************************************************************)
(* HandledOnce.  It is inductive together with two facts: an operation     *)
(* that exists has a number some thread took from issued, so a new one is  *)
(* new; and one about to be inserted is in its thread's hands only.        *)
(***************************************************************************)
Exists(o) == Queued(o) \/ o \in done \cup dropped \/ \E t \in Thread : op[t] = o

Numbered == \A o \in Op : Exists(o) => o[2] <= issued[o[1]]

Fresh ==
  \A t \in Thread : pc[t] \in {"insert", "push"} /\ op[t] \in Op =>
    /\ op[t] \notin done \cup dropped /\ ~Queued(op[t])
    /\ \A u \in Thread : op[u] = op[t] => u = t

Once == HandledOnce /\ Numbered /\ Fresh

\* A step that leaves queue and numbers alone, adds a Completed operation to done at most,
\* and puts no operation into anybody's hands.
LEMMA OnceMoves ==
  ASSUME Inv, Once, UNCHANGED <<m_AsyncOperations, dropped, issued>>,
         \/ done' = done
         \/ \E w \in Thread : pc[w] = "complete" /\ op[w] \in Op /\ done' = done \cup {op[w]},
         \A t \in Thread : op'[t] \in Op =>
           /\ op'[t] = op[t]
           /\ pc[t] = "post" => pc'[t] = "post"
           /\ pc'[t] \in {"insert", "push"} => pc[t] \in {"insert", "push"}
  PROVE  Once'
<1>1. \A o : Queued(o)' <=> Queued(o) BY DEF Queued
<1>2. \A o \in Op : o \in done' => o \in done \/ \E w \in Thread : op[w] = o /\ pc[w] = "complete"
  OBVIOUS
<1>3. \A o \in Op : (\E t \in Thread : op'[t] = o) => \E t \in Thread : op[t] = o
  BY Zenon
<1>4. \A o \in Op : Exists(o)' => Exists(o) BY <1>1, <1>2, <1>3 DEF Exists
<1>5. Numbered' BY <1>4 DEF Once, Numbered
<1>6. HandledOnce'
  <2> SUFFICES ASSUME NEW i \in 1 .. Len(m_AsyncOperations), m_AsyncOperations[i] \in Op
               PROVE  /\ m_AsyncOperations[i] \notin done' \cup dropped
                      /\ \A j \in 1 .. Len(m_AsyncOperations) :
                           m_AsyncOperations[j] = m_AsyncOperations[i] => i = j
                      /\ \A t \in Thread : op'[t] = m_AsyncOperations[i] => pc'[t] = "post"
    BY DEF HandledOnce
  <2>1. PICK o \in Op : o = m_AsyncOperations[i] OBVIOUS
  <2>2. /\ o \notin done \cup dropped
        /\ \A j \in 1 .. Len(m_AsyncOperations) : m_AsyncOperations[j] = o => i = j
        /\ \A t \in Thread : op[t] = o => pc[t] = "post"
    BY <2>1 DEF Once, HandledOnce
  <2>3. o \notin done' BY <1>2, <2>2
  <2>4. \A t \in Thread : op'[t] = o => pc'[t] = "post" BY <2>2
  <2> QED BY <2>1, <2>2, <2>3, <2>4
<1>7. Fresh'
  <2> SUFFICES ASSUME NEW t \in Thread, pc'[t] \in {"insert", "push"}, op'[t] \in Op
               PROVE  /\ op'[t] \notin done' \cup dropped' /\ ~Queued(op[t])'
                      /\ \A u \in Thread : op'[u] = op'[t] => u = t
    BY DEF Fresh
  <2>1. PICK o \in Op : o = op'[t] OBVIOUS
  <2>2. op[t] = o /\ pc[t] \in {"insert", "push"} BY <2>1
  <2>3. o \notin done \cup dropped /\ ~Queued(o) /\ \A u \in Thread : op[u] = o => u = t
    BY <2>2 DEF Once, Fresh
  <2>4. o \notin done'
    <3>1. pc[t] # "complete" BY <2>2
    <3> QED BY <1>2, <2>3, <3>1
  <2>5. \A u \in Thread : op'[u] = o => u = t BY <2>3
  <2>6. ~Queued(op[t])' BY <1>1, <2>1, <2>3 DEF Queued
  <2> QED BY <2>1, <2>3, <2>4, <2>5, <2>6
<1> QED BY <1>5, <1>6, <1>7 DEF Once

\* A thread takes the next number of session s and is about to insert the new operation.
LEMMA OnceIssues ==
  ASSUME Inv, Once, UNCHANGED <<m_AsyncOperations, dropped>>, NEW t \in Thread, NEW s \in Session,
         issued[s] < OpsMax, issued' = [issued EXCEPT ![s] = @ + 1],
         op' = [op EXCEPT ![t] = <<s, issued[s] + 1>>], pc' = [pc EXCEPT ![t] = "insert"],
         pc[t] # "post",
         \/ done' = done
         \/ pc[t] = "complete" /\ op[t] \in Op /\ done' = done \cup {op[t]}
  PROVE  Once'
<1> USE PoolAssumption
<1>1. issued \in [Session -> 0 .. OpsMax] /\ op \in [Thread -> Op \cup {SHUTDOWN, UNINIT}]
      /\ pc \in [Thread -> Label]
  BY DEF Inv, TypeOK
<1>2. PICK k \in 1 .. OpsMax : k = issued[s] + 1 BY <1>1
<1>3. PICK o \in Op : o = <<s, k>> BY <1>2 DEF Op
<1>4. /\ op'[t] = o /\ pc'[t] = "insert"
      /\ \A u \in Thread \ {t} : op'[u] = op[u] /\ pc'[u] = pc[u]
  BY <1>1, <1>2, <1>3
<1>5. ~Exists(o)
  <2>1. ~(o[2] <= issued[o[1]]) BY <1>1, <1>2, <1>3
  <2> QED BY <2>1 DEF Once, Numbered
<1>6. \A x : Queued(x)' <=> Queued(x) BY DEF Queued
<1>7. done' \subseteq done \cup {op[t]} /\ (op[t] \in done' \ done => pc[t] = "complete") OBVIOUS
<1>8. op[t] # o /\ ~Queued(o) /\ o \notin done \cup dropped /\ \A u \in Thread : op[u] # o
  BY <1>5 DEF Exists
<1>9. Numbered'
  <2> SUFFICES ASSUME NEW x \in Op, Exists(x)' PROVE x[2] <= issued'[x[1]] BY DEF Numbered
  <2>1. x = o \/ Exists(x) BY <1>4, <1>6, <1>7 DEF Exists
  <2>2. CASE x = o BY <1>1, <1>2, <1>3, <2>2
  <2>3. CASE Exists(x)
    <3>1. x[2] <= issued[x[1]] BY <2>3 DEF Once, Numbered
    <3>2. x[1] \in Session /\ x[2] \in 1 .. OpsMax BY DEF Op
    <3>3. issued[x[1]] <= issued'[x[1]] /\ issued'[x[1]] \in Nat /\ issued[x[1]] \in Nat
      BY <1>1, <3>2
    <3> QED BY <3>1, <3>2, <3>3
  <2> QED BY <2>1, <2>2, <2>3
<1>10. HandledOnce'
  <2> SUFFICES ASSUME NEW i \in 1 .. Len(m_AsyncOperations), m_AsyncOperations[i] \in Op
               PROVE  /\ m_AsyncOperations[i] \notin done' \cup dropped
                      /\ \A j \in 1 .. Len(m_AsyncOperations) :
                           m_AsyncOperations[j] = m_AsyncOperations[i] => i = j
                      /\ \A u \in Thread : op'[u] = m_AsyncOperations[i] => pc'[u] = "post"
    BY DEF HandledOnce
  <2>1. PICK x \in Op : x = m_AsyncOperations[i] OBVIOUS
  <2>2. /\ x \notin done \cup dropped
        /\ \A j \in 1 .. Len(m_AsyncOperations) : m_AsyncOperations[j] = x => i = j
        /\ \A u \in Thread : op[u] = x => pc[u] = "post"
    BY <2>1 DEF Once, HandledOnce
  <2>3. x # o BY <1>8, <2>1 DEF Queued
  <2>4. x \notin done' BY <1>7, <2>2
  <2>5. \A u \in Thread : op'[u] = x => pc'[u] = "post" BY <1>4, <2>2, <2>3
  <2> QED BY <2>1, <2>2, <2>4, <2>5
<1>11. Fresh'
  <2> SUFFICES ASSUME NEW v \in Thread, pc'[v] \in {"insert", "push"}, op'[v] \in Op
               PROVE  /\ op'[v] \notin done' \cup dropped' /\ ~Queued(op[v])'
                      /\ \A u \in Thread : op'[u] = op'[v] => u = v
    BY DEF Fresh
  <2>1. PICK x \in Op : x = op'[v] OBVIOUS
  <2>2. CASE v = t
    <3>1. x = o BY <1>4, <2>1, <2>2
    <3>2. \A u \in Thread : op'[u] = x => u = v BY <1>4, <1>8, <2>2, <3>1
    <3>3. x \notin done' \cup dropped' BY <1>7, <1>8, <3>1
    <3>4. ~Queued(op[v])' BY <1>6, <1>8, <2>1, <3>1 DEF Queued
    <3> QED BY <2>1, <3>2, <3>3, <3>4
  <2>3. CASE v # t
    <3>1. op[v] = x /\ pc[v] \in {"insert", "push"} BY <1>4, <2>1, <2>3
    <3>2. x \notin done \cup dropped /\ ~Queued(x) /\ \A u \in Thread : op[u] = x => u = v
      BY <3>1 DEF Once, Fresh
    <3>3. op[t] # x BY <2>3, <3>2
    <3>4. x \notin done' \cup dropped' BY <1>7, <3>2, <3>3
    <3>5. \A u \in Thread : op'[u] = x => u = v BY <1>4, <1>8, <3>1, <3>2
    <3>6. ~Queued(op[v])' BY <1>6, <2>1, <3>2 DEF Queued
    <3> QED BY <2>1, <3>4, <3>5, <3>6
  <2> QED BY <2>2, <2>3
<1> QED BY <1>9, <1>10, <1>11 DEF Once

\* PushBack, or its refusal.
LEMMA OncePush == ASSUME Inv, Once, NEW t \in Thread, Push(t) PROVE Once'
<1> USE PoolAssumption
<1> DEFINE Q == Op \cup {SHUTDOWN}
           q == m_AsyncOperations
           n == Len(m_AsyncOperations)
<1>1. PICK o \in Q : o = op[t] BY DEF Inv, TypeOK, InHand, Push
<1>2. /\ pc[t] = "push" /\ UNCHANGED <<op, issued, done>>
      /\ pc' = [pc EXCEPT ![t] = "post"] /\ pc \in [Thread -> Label]
  BY DEF Push, Goto, Inv, TypeOK
<1>3. pc'[t] = "post" /\ \A u \in Thread \ {t} : pc'[u] = pc[u] BY <1>2
<1>4. q \in Seq(Q) /\ n \in Nat BY LenProperties DEF Inv, TypeOK
<1>5. o \in Op => /\ o \notin done \cup dropped /\ ~Queued(o)
                  /\ \A u \in Thread : op[u] = o => u = t
  BY <1>1, <1>2 DEF Once, Fresh
<1>6. \A x \in Op : (\E u \in Thread : op'[u] = x) <=> (\E u \in Thread : op[u] = x) BY <1>2
<1>7. CASE m_AsyncOperations' = Append(m_AsyncOperations, op[t]) /\ dropped' = dropped
  <2> DEFINE r == Append(q, o)
  <2>1. /\ r \in Seq(Q) /\ Len(r) = n + 1 /\ r[n + 1] = o
        /\ \A i \in 1 .. n : r[i] = q[i]
    BY <1>4, AppendProperties
  <2>2. m_AsyncOperations' = r BY <1>1, <1>7
  <2>3. \A i \in 1 .. n + 1 : i = n + 1 \/ i \in 1 .. n BY <1>4
  <2>4. \A i \in 1 .. n : i \in 1 .. n + 1 BY <1>4
  <2> HIDE DEF q, n, r
  <2>5. \A x : Queued(x) <=> \E i \in 1 .. n : q[i] = x BY DEF Queued, q, n
  <2>6. \A x : Queued(x)' <=> \E i \in 1 .. n + 1 : r[i] = x
    BY <2>1, <2>2 DEF Queued
  <2>7. \A x : Queued(x)' => Queued(x) \/ x = o BY <2>1, <2>3, <2>5, <2>6
  <2>8. Numbered'
    <3>1. Exists(o) BY <1>1 DEF Exists
    <3>2. \A x \in Op : Exists(x)' => Exists(x)
      BY <1>2, <1>7, <2>7, <3>1 DEF Exists
    <3> QED BY <1>2, <3>2 DEF Once, Numbered
  <2>9. Fresh'
    <3> SUFFICES ASSUME NEW v \in Thread, pc'[v] \in {"insert", "push"}, op'[v] \in Op
                 PROVE  /\ op'[v] \notin done' \cup dropped' /\ ~Queued(op[v])'
                        /\ \A u \in Thread : op'[u] = op'[v] => u = v
      BY DEF Fresh
    <3>1. v # t /\ pc[v] \in {"insert", "push"} BY <1>3
    <3>2. PICK x \in Op : x = op[v] BY <1>2
    <3>3. x \notin done \cup dropped /\ ~Queued(x) /\ \A u \in Thread : op[u] = x => u = v
      BY <3>1, <3>2 DEF Once, Fresh
    <3>4. x # o BY <1>1, <3>1, <3>3
    <3>5. ~Queued(x)' BY <2>7, <3>3, <3>4
    <3>6. op'[v] = x BY <1>2, <3>2
    <3>7. ~Queued(op[v])' BY <3>5, <3>6 DEF Queued
    <3> QED BY <1>2, <1>7, <3>2, <3>3, <3>7
  <2>10. HandledOnce'
    <3>0. HandledOnce' <=> \A i \in 1 .. n + 1 : r[i] \in Op =>
                 /\ r[i] \notin done' \cup dropped'
                 /\ \A j \in 1 .. n + 1 : r[j] = r[i] => i = j
                 /\ \A u \in Thread : op'[u] = r[i] => pc'[u] = "post"
      BY <2>1, <2>2 DEF HandledOnce
    <3> SUFFICES ASSUME NEW i \in 1 .. n + 1, r[i] \in Op
                 PROVE  /\ r[i] \notin done' \cup dropped'
                        /\ \A j \in 1 .. n + 1 : r[j] = r[i] => i = j
                        /\ \A u \in Thread : op'[u] = r[i] => pc'[u] = "post"
      BY <3>0
    <3>1. CASE i = n + 1
      <4>1. r[i] = o /\ o \in Op BY <2>1, <3>1
      <4>2. \A j \in 1 .. n + 1 : r[j] = o => j = n + 1
        BY <1>5, <2>1, <2>3, <2>5, <4>1
      <4> QED BY <1>2, <1>3, <1>5, <1>7, <3>1, <4>1, <4>2
    <3>2. CASE i \in 1 .. n
      <4>1. PICK x \in Op : x = q[i] /\ x = r[i] BY <2>1, <3>2
      <4>2. /\ x \notin done \cup dropped
            /\ \A j \in 1 .. n : q[j] = x => i = j
            /\ \A u \in Thread : op[u] = x => pc[u] = "post"
        BY <3>2, <4>1 DEF Once, HandledOnce, q, n
      <4>3. x # o BY <1>5, <2>5, <3>2, <4>1
      <4>4. \A j \in 1 .. n + 1 : r[j] = x => i = j BY <2>1, <2>3, <4>2, <4>3
      <4>5. \A u \in Thread : op'[u] = x => pc'[u] = "post" BY <1>2, <1>3, <4>2
      <4> QED BY <1>2, <1>7, <4>1, <4>2, <4>4, <4>5
    <3> QED BY <2>3, <3>1, <3>2
  <2> QED BY <2>8, <2>9, <2>10 DEF Once
<1>8. CASE m_AsyncOperations' = m_AsyncOperations /\ dropped' = dropped \cup {op[t]}
  <2>1. \A x : Queued(x)' <=> Queued(x) BY <1>8 DEF Queued
  <2>2. Numbered'
    <3>1. \A x \in Op : Exists(x)' => Exists(x) BY <1>2, <1>8, <2>1 DEF Exists
    <3> QED BY <1>2, <3>1 DEF Once, Numbered
  <2>3. Fresh'
    <3> SUFFICES ASSUME NEW v \in Thread, pc'[v] \in {"insert", "push"}, op'[v] \in Op
                 PROVE  /\ op'[v] \notin done' \cup dropped' /\ ~Queued(op[v])'
                        /\ \A u \in Thread : op'[u] = op'[v] => u = v
      BY DEF Fresh
    <3>1. v # t /\ pc[v] \in {"insert", "push"} BY <1>3
    <3>2. PICK x \in Op : x = op[v] BY <1>2
    <3>3. x \notin done \cup dropped /\ ~Queued(x) /\ \A u \in Thread : op[u] = x => u = v
      BY <3>1, <3>2 DEF Once, Fresh
    <3>4. x # op[t] BY <3>1, <3>3
    <3>5. op'[v] = x BY <1>2, <3>2
    <3>6. ~Queued(op[v])' BY <2>1, <3>3, <3>5 DEF Queued
    <3> QED BY <1>2, <1>8, <3>2, <3>3, <3>4, <3>6
  <2>4. HandledOnce'
    <3> SUFFICES ASSUME NEW i \in 1 .. n, q[i] \in Op
                 PROVE  /\ q[i] \notin done' \cup dropped'
                        /\ \A j \in 1 .. n : q[j] = q[i] => i = j
                        /\ \A u \in Thread : op'[u] = q[i] => pc'[u] = "post"
      BY <1>8 DEF HandledOnce
    <3>1. PICK x \in Op : x = q[i] OBVIOUS
    <3>2. /\ x \notin done \cup dropped
          /\ \A j \in 1 .. n : q[j] = x => i = j
          /\ \A u \in Thread : op[u] = x => pc[u] = "post"
      BY <3>1 DEF Once, HandledOnce
    <3>3. x # op[t] BY <1>2, <3>2
    <3>4. \A u \in Thread : op'[u] = x => pc'[u] = "post" BY <1>2, <1>3, <3>2
    <3> QED BY <1>2, <1>8, <3>1, <3>2, <3>3, <3>4
  <2> QED BY <2>2, <2>3, <2>4 DEF Once
<1> QED BY <1>7, <1>8 DEF Push

\* Front and PopFront, or the empty queue.
LEMMA OncePop == ASSUME Inv, Once, NEW w \in Worker, Pop(w) PROVE Once'
<1> USE PoolAssumption
<1>1. w \in Thread BY DEF Thread
<1>2. /\ pc[w] = "pop" /\ UNCHANGED <<issued, done, dropped>>
      /\ pc'[w] = "check" /\ \A u \in Thread \ {w} : pc'[u] = pc[u]
  BY <1>1 DEF Pop, Goto, Inv, TypeOK
<1>3. CASE m_AsyncOperations = << >> /\ op' = [op EXCEPT ![w] = UNINIT] /\ UNCHANGED m_AsyncOperations
  <2>1. op'[w] = UNINIT /\ \A u \in Thread \ {w} : op'[u] = op[u]
    BY <1>1, <1>3 DEF Inv, TypeOK
  <2> QED BY <1>2, <1>3, <2>1, OnceMoves
<1>4. CASE /\ m_AsyncOperations # << >>
           /\ op' = [op EXCEPT ![w] = Head(m_AsyncOperations)]
           /\ m_AsyncOperations' = AfterPopFront
  <2> DEFINE Q == Op \cup {SHUTDOWN}
             q == m_AsyncOperations
             n == Len(m_AsyncOperations)
             r == m_AsyncOperations'
  <2>1. q \in Seq(Q) BY DEF Inv, TypeOK
  <2>2. /\ n \in Nat \ {0} /\ Len(r) = n - 1 /\ Head(q) = q[1]
        /\ \A i \in 1 .. n - 1 : r[i] = q[i + 1]
    BY <1>4, <2>1, EmptySeq, HeadTailProperties DEF AfterPopFront
  <2>3. PICK o : o = q[1] OBVIOUS
  <2>4. op'[w] = o /\ \A u \in Thread \ {w} : op'[u] = op[u]
    BY <1>1, <1>4, <2>2, <2>3 DEF Inv, TypeOK
  <2>5. \A i \in 1 .. n - 1 : i + 1 \in 1 .. n /\ i + 1 # 1 BY <2>2
  <2>6. \A i, j \in 1 .. n - 1 : i + 1 = j + 1 => i = j BY <2>2
  <2>7. 1 \in 1 .. n BY <2>2
  <2>8. \A i \in 1 .. n : q[i] \in Op =>
          /\ q[i] \notin done \cup dropped
          /\ \A j \in 1 .. n : q[j] = q[i] => i = j
          /\ \A u \in Thread : op[u] = q[i] => pc[u] = "post"
    BY DEF Once, HandledOnce
  <2>9. HandledOnce' <=> \A i \in 1 .. n - 1 : r[i] \in Op =>
          /\ r[i] \notin done' \cup dropped'
          /\ \A j \in 1 .. n - 1 : r[j] = r[i] => i = j
          /\ \A u \in Thread : op'[u] = r[i] => pc'[u] = "post"
    BY <2>2 DEF HandledOnce
  <2>10. \A x : Queued(x) <=> \E i \in 1 .. n : q[i] = x BY DEF Queued
  <2>11. \A x : Queued(x)' <=> \E i \in 1 .. n - 1 : r[i] = x BY <2>2 DEF Queued
  <2> HIDE DEF q, n, r
  <2>12. Queued(o) /\ \A x : Queued(x)' => Queued(x)
    BY <2>2, <2>3, <2>5, <2>7, <2>10, <2>11
  <2>13. HandledOnce'
    <3> SUFFICES ASSUME NEW i \in 1 .. n - 1, r[i] \in Op
                 PROVE  /\ r[i] \notin done' \cup dropped'
                        /\ \A j \in 1 .. n - 1 : r[j] = r[i] => i = j
                        /\ \A u \in Thread : op'[u] = r[i] => pc'[u] = "post"
      BY <2>9
    <3>1. PICK k \in 1 .. n : k = i + 1 /\ k # 1 BY <2>5
    <3>2. PICK x \in Op : x = r[i] /\ x = q[k] BY <2>2, <3>1
    <3>3. /\ x \notin done \cup dropped
          /\ \A j \in 1 .. n : q[j] = x => k = j
          /\ \A u \in Thread : op[u] = x => pc[u] = "post"
      BY <2>8, <3>2
    <3>4. x # o BY <2>3, <2>7, <3>1, <3>3
    <3>5. \A j \in 1 .. n - 1 : r[j] = x => i = j BY <2>2, <2>5, <2>6, <3>1, <3>3
    <3>6. \A u \in Thread : op'[u] = x => pc'[u] = "post" BY <1>2, <2>4, <3>3, <3>4
    <3> QED BY <1>2, <3>2, <3>3, <3>5, <3>6
  <2>14. Numbered'
    <3>1. \A x \in Op : Exists(x)' => Exists(x)
      BY <1>2, <2>4, <2>12 DEF Exists
    <3> QED BY <1>2, <3>1 DEF Once, Numbered
  <2>15. Fresh'
    <3> SUFFICES ASSUME NEW v \in Thread, pc'[v] \in {"insert", "push"}, op'[v] \in Op
                 PROVE  /\ op'[v] \notin done' \cup dropped' /\ ~Queued(op[v])'
                        /\ \A u \in Thread : op'[u] = op'[v] => u = v
      BY DEF Fresh
    <3>1. v # w /\ pc[v] \in {"insert", "push"} BY <1>2
    <3>2. PICK x \in Op : x = op[v] /\ x = op'[v] BY <2>4, <3>1
    <3>3. x \notin done \cup dropped /\ ~Queued(x) /\ \A u \in Thread : op[u] = x => u = v
      BY <3>1, <3>2 DEF Once, Fresh
    <3>4. x # o BY <2>12, <3>3
    <3>5. \A u \in Thread : op'[u] = x => u = v BY <2>4, <3>3, <3>4
    <3>6. ~Queued(x)' BY <2>12, <3>3
    <3>7. ~Queued(op[v])' BY <3>2, <3>6 DEF Queued
    <3> QED BY <1>2, <3>2, <3>3, <3>5, <3>7
  <2> QED BY <2>13, <2>14, <2>15 DEF Once
<1> QED BY <1>3, <1>4 DEF Pop

LEMMA OnceInit == ASSUME Init PROVE Once
<1> USE PoolAssumption
<1>1. Len(m_AsyncOperations) = 0 /\ \A t \in Thread : op[t] = UNINIT /\ pc[t] \in {"loop", "exited"}
  BY DEF Init
<1>2. HandledOnce BY <1>1 DEF HandledOnce
<1>3. Fresh BY <1>1 DEF Fresh
<1>4. \A o \in Op : ~Exists(o) BY <1>1 DEF Exists, Queued, Init
<1> QED BY <1>2, <1>3, <1>4 DEF Once, Numbered

LEMMA OnceWorker == ASSUME Inv, Once, NEW w \in Worker, WorkerStep(w) PROVE Once'
<1> USE PoolAssumption
<1>0. w \in Thread BY DEF Thread
<1>1. pc \in [Thread -> Label] /\ op \in [Thread -> Op \cup {SHUTDOWN, UNINIT}] BY DEF Inv, TypeOK
<1>2. CASE RunLoop(w) \/ Wait(w) \/ Lock(w) \/ Check(w) \/ Return(w) \/ Post(w) \/ Complete(w)
  <2>1. UNCHANGED <<m_AsyncOperations, dropped, issued>>
    BY <1>2 DEF RunLoop, Wait, Lock, Check, Return, Post, Complete
  <2>2. \/ done' = done
        \/ \E u \in Thread : pc[u] = "complete" /\ op[u] \in Op /\ done' = done \cup {op[u]}
    BY <1>0, <1>2 DEF RunLoop, Wait, Lock, Check, Return, Post, Complete
  <2>3. \A t \in Thread : op'[t] \in Op =>
           /\ op'[t] = op[t]
           /\ pc[t] = "post" => pc'[t] = "post"
           /\ pc'[t] \in {"insert", "push"} => pc[t] \in {"insert", "push"}
    BY <1>0, <1>1, <1>2
    DEF RunLoop, Wait, Lock, Check, Return, Post, Complete, Goto, AfterInsert
  <2> QED BY <2>1, <2>2, <2>3, OnceMoves
<1>3. CASE CompleteInserts(w)
  <2>1. PICK s \in Session : s = op[w][1] BY <1>3 DEF CompleteInserts, Op
  <2> QED BY <1>0, <1>3, <2>1, OnceIssues DEF CompleteInserts, Goto
<1> QED BY <1>0, <1>2, <1>3, OncePush, OncePop DEF WorkerStep

LEMMA OnceDispatcher == ASSUME Inv, Once, DispatcherStep PROVE Once'
<1> USE PoolAssumption
<1> DEFINE d == "dispatcher"
<1>0. d \in Thread BY DEF Thread
<1>1. pc \in [Thread -> Label] /\ op \in [Thread -> Op \cup {SHUTDOWN, UNINIT}] BY DEF Inv, TypeOK
<1>2. CASE \/ DispatchLoop \/ EpollWaitFails \/ Cancelled \/ DispatchDone
           \/ \E ready \in SUBSET Session : EpollWait(ready)
           \/ Lock(d) \/ Post(d)
  <2>1. UNCHANGED <<m_AsyncOperations, dropped, issued, done>>
    BY <1>2 DEF DispatchLoop, EpollWaitFails, Cancelled, DispatchDone, EpollWait, Lock, Post
  <2>2. \A t \in Thread : op'[t] \in Op =>
           /\ op'[t] = op[t]
           /\ pc[t] = "post" => pc'[t] = "post"
           /\ pc'[t] \in {"insert", "push"} => pc[t] \in {"insert", "push"}
    BY <1>0, <1>1, <1>2
    DEF DispatchLoop, EpollWaitFails, Cancelled, CancelPoint, DispatchDone, EpollWait, Lock,
        Post, Goto, AfterInsert
  <2> QED BY <2>1, <2>2, OnceMoves
<1>3. CASE \E s \in Session : DispatchEvent(s)
  <2>1. PICK s \in Session : DispatchEvent(s) BY <1>3
  <2> QED BY <1>0, <2>1, OnceIssues DEF DispatchEvent, Goto
<1> QED BY <1>0, <1>2, <1>3, OncePush DEF DispatcherStep

LEMMA OnceMain == ASSUME Inv, Once, MainStep PROVE Once'
<1> USE PoolAssumption
<1> DEFINE m == "main"
<1>0. m \in Thread BY DEF Thread
<1>1. pc \in [Thread -> Label] /\ op \in [Thread -> Op \cup {SHUTDOWN, UNINIT}] BY DEF Inv, TypeOK
<1>2. CASE \/ ShutdownDispatcher \/ CancelDispatcher \/ FlaggingDone
           \/ \E w \in Worker : ShutdownWorker(w)
           \/ InsertShutdown \/ ShutdownReturns \/ Lock(m) \/ Post(m)
  <2>1. UNCHANGED <<m_AsyncOperations, dropped, issued, done>>
    BY <1>2 DEF ShutdownDispatcher, CancelDispatcher, FlaggingDone, ShutdownWorker,
                InsertShutdown, ShutdownReturns, Lock, Post
  <2>2. \A t \in Thread : op'[t] \in Op =>
           /\ op'[t] = op[t]
           /\ pc[t] = "post" => pc'[t] = "post"
           /\ pc'[t] \in {"insert", "push"} => pc[t] \in {"insert", "push"}
    BY <1>0, <1>1, <1>2
    DEF ShutdownDispatcher, CancelDispatcher, FlaggingDone, ShutdownWorker,
        InsertShutdown, ShutdownReturns, Lock, Post, Goto, AfterInsert
  <2> QED BY <2>1, <2>2, OnceMoves
<1> QED BY <1>0, <1>2, OncePush DEF MainStep

LEMMA OnceNext == Inv /\ Once /\ [Next]_vars => Once'
<1> SUFFICES ASSUME Inv, Once, [Next]_vars PROVE Once' OBVIOUS
<1>1. CASE UNCHANGED vars BY <1>1, OnceMoves DEF vars
<1>2. CASE Terminated BY <1>1, <1>2 DEF Terminated
<1> QED BY <1>1, <1>2, OnceWorker, OnceDispatcher, OnceMain DEF Next

\* HandledOnce, for any number of worker threads and sessions and any queue size: no
\* operation is in the queue twice, or queued and at the same time handled, Completed or
\* refused, also when a worker inserts from inside Complete.
THEOREM PoolHandledOnce == Spec => []HandledOnce
<1>1. Init => Inv /\ Once BY InitInv, OnceInit
<1>2. Inv /\ Once /\ [Next]_vars => (Inv /\ Once)' BY NextInv, OnceNext
<1>3. Inv /\ Once => HandledOnce BY DEF Once
<1> QED BY <1>1, <1>2, <1>3, PTL DEF Spec
=============================================================================
