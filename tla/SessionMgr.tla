------------------------------ MODULE SessionMgr ------------------------------
(***************************************************************************)
(* SessionMgr.cpp and the pool it allocates from: SessionPool.h, Stack.h   *)
(* and UniSizeAllocator.cpp.  Several threads create and destroy sessions. *)
(* SessionMgr's mutex and the pool's mutex are taken one after the other,  *)
(* so each critical section is one action and threads interleave between   *)
(* them.                                                                   *)
(*                                                                         *)
(* A Session* is the number of its slot in the pool's memory.  Of a        *)
(* session only m_ID matters here; a freed slot keeps its old m_ID.        *)
(***************************************************************************)
EXTENDS Integers, Sequences, FiniteSets

CONSTANTS
  Thread,
  Main,      \* the thread that calls TCPStream::Shutdown
  Amount,    \* GetClientSessionAmountMax() + GetServerSessionAmountMax()
  NULL

ID == 1000 .. 999 + Amount
Slot == 1 .. Amount

ASSUME MgrAssumption ==
  /\ Main \in Thread
  /\ Amount \in Nat \ {0}
  /\ NULL \notin Slot

VARIABLES
  m_pFreeSessionID,       \* Stack<int>: bottom first, the top is the last
  m_Sessions,             \* std::map<int, Session*>
  m_SessionActiveStatus,  \* std::map<int, bool>
  m_FreeList,             \* the allocator's linked list, first element first
  m_ID,                   \* Session::m_ID of every slot
  pc,
  sessionID, pSession,    \* per thread: the locals of the same names
  it,                     \* DestroyAllSessions's iterator: the next id
  m_Sock,                 \* per slot: its socket is "open", "finished" (Recv has
                          \* seen the end of the stream) or "closed"
  fault,                  \* a session is destroyed twice at a time, or NULL is
  live,                   \* ghost: sessions returned by CreateSession and not
                          \* yet handed to DestroySession
  late,                   \* ghost: slots inserted since DestroyAllSessions began
  lost                    \* ghost: ids kept by a CreateSession that failed

mgr == <<m_pFreeSessionID, m_Sessions, m_SessionActiveStatus>>
pool == <<m_FreeList, m_ID>>
ghosts == <<live, late, lost>>
vars == <<mgr, pool, pc, sessionID, pSession, it, m_Sock, fault, ghosts>>

\* Main is in DestroyAllSessions, or through with it.
Iterating == {"iterate", "found", "remove_all", "deallocate_all", "ended"}

Goto(t, label) == pc' = [pc EXCEPT ![t] = label]

\* Mutant: the ids start at 1001.
IDsFromOneUp == [i \in 1 .. Amount |-> 1000 + i]

\* The constructor pushes the ids from 1000 on.
InitialIDs == [i \in 1 .. Amount |-> 999 + i]

\* The slots are chained upwards.
LinkFreeElement == [i \in 1 .. Amount |-> i]

Init ==
  /\ m_pFreeSessionID = InitialIDs
  /\ m_Sessions = [i \in ID |-> NULL]
  /\ m_SessionActiveStatus = [i \in ID |-> FALSE]
  /\ m_FreeList = LinkFreeElement
  /\ m_ID \in [Slot -> {1000}]
  /\ pc = [t \in Thread |-> "idle"]
  /\ sessionID = [t \in Thread |-> 1000]
  /\ pSession = [t \in Thread |-> 1]
  /\ it = 1000
  /\ m_Sock = [p \in Slot |-> "closed"]
  /\ fault = FALSE
  /\ live = {} /\ late = {} /\ lost = {}
-----------------------------------------------------------------------------
(* CreateSession: GenerateSessionID, AllocateSession, InsertSession *)

\* Mutant: Pop is missing.
TopOnly(s) == s

Popped(s) == SubSeq(s, 1, Len(s) - 1)

\* On an empty stack it returns 0 and CreateSession NULL: nothing changes.
GenerateSessionID(t) ==
  /\ pc[t] = "idle"
  /\ m_pFreeSessionID # << >>
  /\ LET id == m_pFreeSessionID[Len(m_pFreeSessionID)] IN
       /\ sessionID' = [sessionID EXCEPT ![t] = id]
       /\ m_SessionActiveStatus' = [m_SessionActiveStatus EXCEPT ![id] = TRUE]
  /\ m_pFreeSessionID' = Popped(m_pFreeSessionID)
  /\ Goto(t, "allocate")
  /\ UNCHANGED <<m_Sessions, pool, pSession, it, m_Sock, fault, ghosts>>

\* Mutant: the allocator keeps the slot in its list.
UnlinkedNever == m_FreeList

Unlinked == Tail(m_FreeList)

\* With no free slot CreateSession returns NULL and keeps the id it generated.
AllocateSession(t) ==
  /\ pc[t] = "allocate"
  /\ \/ /\ m_FreeList # << >>
        /\ pSession' = [pSession EXCEPT ![t] = Head(m_FreeList)]
        /\ m_FreeList' = Unlinked
        /\ Goto(t, "construct")
        /\ UNCHANGED lost
     \/ /\ m_FreeList = << >>
        /\ lost' = lost \cup {sessionID[t]}
        /\ Goto(t, "idle")
        /\ UNCHANGED <<m_FreeList, pSession>>
  /\ UNCHANGED <<mgr, m_ID, sessionID, it, m_Sock, fault, live, late>>

\* new (p) Session( id, ... ), outside every lock.
Construct(t) ==
  /\ pc[t] = "construct"
  /\ m_ID' = [m_ID EXCEPT ![pSession[t]] = sessionID[t]]
  /\ m_Sock' = [m_Sock EXCEPT ![pSession[t]] = "open"]
  /\ Goto(t, "insert")
  /\ UNCHANGED <<mgr, m_FreeList, sessionID, pSession, it, fault, ghosts>>

InsertSession(t) ==
  /\ pc[t] = "insert"
  /\ m_Sessions' = [m_Sessions EXCEPT ![m_ID[pSession[t]]] = pSession[t]]
  /\ live' = live \cup {pSession[t]}
  /\ late' = IF pc[Main] \in Iterating THEN late \cup {pSession[t]} ELSE late
  /\ Goto(t, "idle")
  /\ UNCHANGED <<m_pFreeSessionID, m_SessionActiveStatus, pool, sessionID,
                 pSession, it, m_Sock, fault, lost>>
-----------------------------------------------------------------------------
(* DestroySession: RemoveSession, DeallocateSession *)

\* Close has closed the socket.  Its callers hand in a session once, but Main
\* may have taken it from the map already.
DestroySession(t, p) ==
  /\ pc[t] = "idle"
  /\ \/ /\ p \in live
        /\ live' = live \ {p}
        /\ m_Sock' = [m_Sock EXCEPT ![p] = "closed"]
        /\ pSession' = [pSession EXCEPT ![t] = p]
        /\ Goto(t, "remove")
        /\ UNCHANGED fault
     \/ /\ pc[Main] \in {"remove_all", "deallocate_all"} /\ p = pSession[Main]
        /\ fault' = TRUE
        /\ UNCHANGED <<live, m_Sock, pSession, pc>>
  /\ UNCHANGED <<mgr, pool, sessionID, it, late, lost>>

\* Mutant: the entry is not cleared.
ClearedNever(id) == m_Sessions

Cleared(id) == [m_Sessions EXCEPT ![id] = NULL]

Deactivated(id) == [m_SessionActiveStatus EXCEPT ![id] = FALSE]

RemoveSession(t) ==
  /\ pc[t] \in {"remove", "remove_all"}
  /\ LET id == m_ID[pSession[t]] IN
       /\ m_SessionActiveStatus' = Deactivated(id)
       /\ IF Len(m_pFreeSessionID) < Amount
          THEN /\ m_pFreeSessionID' = Append(m_pFreeSessionID, id)
               /\ m_Sessions' = Cleared(id)
          ELSE UNCHANGED <<m_pFreeSessionID, m_Sessions>>
  /\ Goto(t, IF pc[t] = "remove" THEN "deallocate" ELSE "deallocate_all")
  /\ UNCHANGED <<pool, sessionID, pSession, it, m_Sock, fault, ghosts>>

\* UniSizeAllocator::deallocate puts the slot in front.
Linked(p) == <<p>> \o m_FreeList

DeallocateSession(t) ==
  /\ pc[t] \in {"deallocate", "deallocate_all"}
  /\ m_FreeList' = Linked(pSession[t])
  /\ Goto(t, IF pc[t] = "deallocate" THEN "idle" ELSE "iterate")
  /\ UNCHANGED <<mgr, m_ID, sessionID, pSession, it, m_Sock, fault, ghosts>>

\* Recv clears the flag of a session whose peer has closed.
SetSessionActive(t, p) ==
  /\ pc[t] = "idle"
  /\ p \in live
  /\ m_SessionActiveStatus' = Deactivated(m_ID[p])
  /\ m_Sock' = [m_Sock EXCEPT ![p] = "finished"]
  /\ UNCHANGED <<m_pFreeSessionID, m_Sessions, pool, pc, sessionID, pSession, it,
                 fault, ghosts>>
-----------------------------------------------------------------------------
(* DestroyAllSessions, run by Main without a lock and without waiting for   *)
(* the other threads.                                                       *)

Begin ==
  /\ pc[Main] = "idle"
  /\ Goto(Main, "iterate")
  /\ UNCHANGED <<mgr, pool, sessionID, pSession, it, m_Sock, fault, ghosts>>

\* Mutant: the iteration ends one short.
MoreButTheLast == it < 999 + Amount

More == it \in ID

\* NULL != it->second, and the socket of an active session is closed.
Iterate ==
  /\ pc[Main] = "iterate" /\ More
  /\ \/ /\ m_Sessions[it] = NULL
        /\ it' = it + 1
        /\ UNCHANGED <<pc, m_Sock>>
     \/ /\ m_Sessions[it] # NULL
        /\ m_Sock' = IF m_SessionActiveStatus[it]
                     THEN [m_Sock EXCEPT ![m_Sessions[it]] = "closed"] ELSE m_Sock
        /\ Goto(Main, "found")
        /\ UNCHANGED it
  /\ UNCHANGED <<mgr, pool, sessionID, pSession, fault, ghosts>>

\* DestroySession( it->second ), which reads it->second again; another thread
\* may have cleared it, or be about to destroy the session itself.
DestroyFound ==
  /\ pc[Main] = "found"
  /\ IF m_Sessions[it] \in live
     THEN /\ pSession' = [pSession EXCEPT ![Main] = m_Sessions[it]]
          /\ live' = live \ {m_Sessions[it]}
          /\ it' = it + 1
          /\ Goto(Main, "remove_all")
          /\ UNCHANGED fault
     ELSE /\ fault' = TRUE
          /\ UNCHANGED <<pSession, live, it, pc>>
  /\ UNCHANGED <<mgr, pool, sessionID, m_Sock, late, lost>>

End ==
  /\ pc[Main] = "iterate" /\ ~More
  /\ Goto(Main, "ended")
  /\ UNCHANGED <<mgr, pool, sessionID, pSession, it, m_Sock, fault, ghosts>>

DestroyAllSessions == Begin \/ Iterate \/ DestroyFound \/ End
-----------------------------------------------------------------------------
Step(t) ==
  \/ GenerateSessionID(t) \/ AllocateSession(t) \/ Construct(t) \/ InsertSession(t)
  \/ RemoveSession(t) \/ DeallocateSession(t)
  \/ \E p \in Slot : DestroySession(t, p) \/ SetSessionActive(t, p)

\* After a double destruction the two lists are not lists any more.
Next == ~fault /\ (DestroyAllSessions \/ \E t \in Thread : Step(t))

Spec == Init /\ [][Next]_vars
-----------------------------------------------------------------------------
(* Properties *)

RangeOf(s) == {s[i] : i \in 1 .. Len(s)}
NoDuplicates(s) == \A i, j \in 1 .. Len(s) : s[i] = s[j] => i = j

\* The state has its types: every id ever handed out, stored or returned is one
\* of the ids the constructor made entries for in both maps.
TypeOK ==
  /\ m_pFreeSessionID \in Seq(ID)
  /\ m_Sessions \in [ID -> Slot \cup {NULL}]
  /\ m_SessionActiveStatus \in [ID -> BOOLEAN]
  /\ m_FreeList \in Seq(Slot)
  /\ m_ID \in [Slot -> ID]
  /\ pc \in [Thread -> {"idle", "allocate", "construct", "insert", "remove",
                        "deallocate"} \cup Iterating]
  /\ sessionID \in [Thread -> ID]
  /\ pSession \in [Thread -> Slot]
  /\ it \in 1000 .. 1000 + Amount
  /\ m_Sock \in [Slot -> {"open", "finished", "closed"}]
  /\ fault \in BOOLEAN
  /\ live \subseteq Slot /\ late \subseteq Slot /\ lost \subseteq ID

\* The threads that hold a slot, and the places where an id can be.
Holding == {t \in Thread : pc[t] \in {"construct", "insert", "remove", "deallocate",
                                     "remove_all", "deallocate_all"}}
PlacesOf(id) ==
  {<<"free", k>> : k \in {k \in DOMAIN m_pFreeSessionID : m_pFreeSessionID[k] = id}}
  \cup {<<"creating", t>> : t \in {t \in Thread :
          pc[t] \in {"allocate", "construct", "insert"} /\ sessionID[t] = id}}
  \cup {<<"session", p>> : p \in {p \in live : m_ID[p] = id}}
  \cup {<<"removing", t>> : t \in {t \in Thread :
          pc[t] \in {"remove", "remove_all"} /\ m_ID[pSession[t]] = id}}
  \cup {<<"lost", i>> : i \in lost \cap {id}}

\* Ids are neither duplicated nor lost, whatever threads create and destroy
\* meanwhile: each is in one place.  An id leaves the circulation only when
\* CreateSession finds no slot for it, because RemoveSession returns the id before
\* DeallocateSession returns the slot; and a free id is inactive, so that a late
\* SendMsg on it returns false.
IdsConserved ==
  \A id \in ID :
    /\ Cardinality(PlacesOf(id)) = 1
    /\ id \in RangeOf(m_pFreeSessionID) => ~m_SessionActiveStatus[id]

\* A slot of the pool belongs to one party: the free list (once), a live session,
\* or one thread in CreateSession or DestroySession.
SlotsOnce ==
  /\ NoDuplicates(m_FreeList)
  /\ RangeOf(m_FreeList) \cap live = {}
  /\ \A t \in Holding :
       /\ pSession[t] \notin live \cup RangeOf(m_FreeList)
       /\ \A u \in Holding : pSession[t] = pSession[u] => t = u

\* m_Sessions and the sessions agree, although they change under different
\* locks: an entry is a session with that id that is not in the free list, and
\* every live session has its entry.
MapAgrees ==
  /\ \A i \in ID : m_Sessions[i] # NULL =>
       m_ID[m_Sessions[i]] = i /\ m_Sessions[i] \notin RangeOf(m_FreeList)
  /\ \A p \in live : m_Sessions[m_ID[p]] = p

\* What DestroyAllSessions does, although it changes the map it iterates over and
\* other threads go on: a session that was in the map when it began is destroyed
\* when it ends, by Main or by another thread, with no other thread at work ids
\* and slots are back, and no session made before it leaves its socket open,
\* unless the peer had closed and Shutdown came before its CLOSE.
AllGivenBack ==
  /\ pc[Main] = "ended" => live \subseteq late
  /\ pc[Main] = "ended" /\ late = {} /\ (\A t \in Thread \ {Main} : pc[t] = "idle") =>
       /\ Len(m_pFreeSessionID) = Amount - Cardinality(lost)
       /\ Len(m_FreeList) = Amount
       /\ \A i \in ID : m_Sessions[i] = NULL
  /\ \A p \in RangeOf(m_FreeList) \ late : m_Sock[p] # "open"
=============================================================================
