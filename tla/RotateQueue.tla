----------------------------- MODULE RotateQueue -----------------------------
(***************************************************************************)
(* include/Queue.h: the rotating array behind MsgQueue and                 *)
(* AsyncOperationQueue.  Every access is made under the owner's mutex, so  *)
(* each member function is one action.  `new T[size]' leaves the array     *)
(* uninitialised: Init allows any contents.                                *)
(***************************************************************************)
EXTENDS Integers, Sequences

CONSTANTS
  Elem,        \* the values of the template parameter T
  m_Capacity   \* the constructor's argument

ASSUME CapacityAssumption == m_Capacity \in Nat \ {0}

VARIABLES
  m_List,      \* T* m_List
  m_Size, m_Front, m_Back,
  ok,          \* the bool returned by the last PushBack or Front
  element      \* the out parameter of the last Front

vars == <<m_List, m_Size, m_Front, m_Back, ok, element>>

Indices == 0 .. m_Capacity - 1

Init ==
  /\ m_List \in [Indices -> Elem]
  /\ m_Size = 0 /\ m_Front = 0 /\ m_Back = 0
  /\ ok \in BOOLEAN
  /\ element \in Elem

\* Mutant: the index does not wrap.
AdvanceUnwrapped(i) == i + 1

\* The index after i around the array.
Advance(i) == (i + 1) % m_Capacity

\* Mutant: full one element early.
FullOffByOne == m_Size + 1 = m_Capacity

Full == m_Size = m_Capacity

PushBack(e) ==
  \/ /\ Full
     /\ ok' = FALSE
     /\ UNCHANGED <<m_List, m_Size, m_Front, m_Back, element>>
  \/ /\ ~Full
     /\ m_List' = [m_List EXCEPT ![m_Back] = e]
     /\ m_Back' = Advance(m_Back)
     /\ m_Size' = m_Size + 1
     /\ ok' = TRUE
     /\ UNCHANGED <<m_Front, element>>

Front ==
  /\ \/ m_Size = 0 /\ ok' = FALSE /\ element' = element
     \/ m_Size # 0 /\ ok' = TRUE /\ element' = m_List[m_Front]
  /\ UNCHANGED <<m_List, m_Size, m_Front, m_Back>>

\* Mutant: only the front is reset.
RewindFrontOnly ==
  /\ m_Front' = (IF Advance(m_Front) = m_Back THEN 0 ELSE Advance(m_Front))
  /\ m_Back' = m_Back

\* When the advanced front meets the back, both go back to 0.
AdvanceFront ==
  IF Advance(m_Front) = m_Back
  THEN m_Front' = 0 /\ m_Back' = 0
  ELSE m_Front' = Advance(m_Front) /\ m_Back' = m_Back

PopFront ==
  \/ /\ m_Size = 0
     /\ UNCHANGED vars
  \/ /\ m_Size # 0
     /\ AdvanceFront
     /\ m_Size' = m_Size - 1
     /\ UNCHANGED <<m_List, ok, element>>

Next == (\E e \in Elem : PushBack(e)) \/ Front \/ PopFront

Spec == Init /\ [][Next]_vars
-----------------------------------------------------------------------------
(* Properties *)

\* The state has its types: the indices of PushBack, Front and PopFront stay in
\* the array and the count within the capacity.
TypeOK ==
  /\ m_List \in [Indices -> Elem]
  /\ m_Size \in 0 .. m_Capacity
  /\ m_Front \in Indices /\ m_Back \in Indices
  /\ ok \in BOOLEAN
  /\ element \in Elem

\* The two indices and the count never drift apart: m_Back is m_Size places
\* after m_Front around the array (the reset to 0 in PopFront, and the wrap of
\* both indices, keep it so).
IndicesAgree == m_Back = (m_Front + m_Size) % m_Capacity

\* The elements the queue holds, oldest first.
Contents == [i \in 1 .. m_Size |-> m_List[(m_Front + i - 1) % m_Capacity]]

Fifo == INSTANCE BoundedFifo WITH
          Capacity <- m_Capacity, items <- Contents

\* include/Queue.h implements a bounded first-in first-out queue: no element is
\* overwritten before it is popped, none is popped twice or out of order, and
\* PushBack and Front report full and empty exactly when they should.
ImplementsFifo == Fifo!Spec
=============================================================================
