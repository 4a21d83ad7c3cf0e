----------------------------- MODULE BoundedFifo -----------------------------
(***************************************************************************)
(* What include/Queue.h promises to its two users, MsgQueue and            *)
(* AsyncOperationQueue: a first-in first-out queue that holds at most      *)
(* Capacity elements, refuses a push when it is full and leaves the        *)
(* caller's out parameter alone when it is empty.                          *)
(***************************************************************************)
EXTENDS Naturals, Sequences

CONSTANTS
  Elem,      \* the values of the template parameter T
  Capacity   \* "the max count of the elements in the queue"

VARIABLES
  items,     \* the queued elements, oldest first
  ok,        \* the bool returned by the last PushBack or Front
  element    \* the out parameter of the last Front

fifoVars == <<items, ok, element>>

Init ==
  /\ items = << >>
  /\ ok \in BOOLEAN
  /\ element \in Elem

Push(e) ==
  /\ \/ Len(items) < Capacity /\ ok' = TRUE /\ items' = Append(items, e)
     \/ Len(items) >= Capacity /\ ok' = FALSE /\ items' = items
  /\ element' = element

Peek ==
  /\ ok' = (items # << >>)
  /\ element' = IF items # << >> THEN Head(items) ELSE element
  /\ items' = items

Drop ==
  /\ items' = IF items # << >> THEN Tail(items) ELSE items
  /\ UNCHANGED <<ok, element>>

Next == (\E e \in Elem : Push(e)) \/ Peek \/ Drop

Spec == Init /\ [][Next]_fifoVars
=============================================================================
