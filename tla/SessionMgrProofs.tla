--------------------------- MODULE SessionMgrProofs ---------------------------
(***************************************************************************)
(* Proofs about SessionMgr, for any threads and any number of sessions.    *)
(***************************************************************************)
EXTENDS SessionMgr, ListLemmas

(***************************************************************************)
(* The inductive invariant.                                                *)
(***************************************************************************)
Creating(t) == pc[t] \in {"allocate", "construct", "insert"}
Removing(t) == pc[t] \in {"remove", "remove_all"}

\* The id a thread in DestroySession is about to return.
Returned(t) == m_ID[pSession[t]]

\* Only the thread in TCPStream::Shutdown iterates; before it does, the iterator
\* is at the first id.
OnlyMain ==
  /\ \A t \in Thread : pc[t] \in Iterating => t = Main
  /\ pc[Main] \notin Iterating => it = 1000
  /\ pc[Main] = "found" => it \in ID
  /\ pc[Main] = "ended" => it \notin ID

\* No id is in two places ...
IdsApart ==
  /\ NoDuplicates(m_pFreeSessionID)
  /\ RangeOf(m_pFreeSessionID) \cap lost = {}
  /\ \A t \in Thread : Creating(t) =>
       /\ sessionID[t] \notin RangeOf(m_pFreeSessionID) \cup lost
       /\ \A u \in Thread : Creating(u) /\ sessionID[u] = sessionID[t] => u = t
       /\ \A p \in live : m_ID[p] # sessionID[t]
       /\ \A u \in Thread : Removing(u) => Returned(u) # sessionID[t]
  /\ \A p \in live :
       /\ m_ID[p] \notin RangeOf(m_pFreeSessionID) \cup lost
       /\ \A q \in live : m_ID[q] = m_ID[p] => q = p
       /\ \A u \in Thread : Removing(u) => Returned(u) # m_ID[p]
  /\ \A t \in Thread : Removing(t) =>
       /\ Returned(t) \notin RangeOf(m_pFreeSessionID) \cup lost
       /\ \A u \in Thread : Removing(u) /\ Returned(u) = Returned(t) => u = t

\* ... and each is in one.
IdsSomewhere ==
  \A id \in ID :
    \/ id \in RangeOf(m_pFreeSessionID) \cup lost
    \/ \E t \in Thread : Creating(t) /\ sessionID[t] = id
    \/ \E p \in live : m_ID[p] = id
    \/ \E t \in Thread : Removing(t) /\ Returned(t) = id

\* So is each slot.
SlotsSomewhere ==
  \A p \in Slot :
    \/ p \in RangeOf(m_FreeList) \cup live
    \/ \E t \in Holding : pSession[t] = p

\* A session about to be inserted has the id that was generated for it.
Constructed == \A t \in Thread : pc[t] = "insert" => m_ID[pSession[t]] = sessionID[t]

FreeInactive == \A id \in RangeOf(m_pFreeSessionID) : ~m_SessionActiveStatus[id]

\* An entry of the map is a session that exists, until RemoveSession is through.
Entries ==
  /\ \A i \in ID : m_Sessions[i] # NULL =>
       /\ m_ID[m_Sessions[i]] = i
       /\ \/ m_Sessions[i] \in live
          \/ \E t \in Thread : Removing(t) /\ pSession[t] = m_Sessions[i]
  /\ \A p \in live : m_Sessions[m_ID[p]] = p

\* The iterator has left behind only sessions that came later.
Passed ==
  pc[Main] \in Iterating => \A p \in live \ late : m_ID[p] >= it

\* A socket that is open belongs to an active session until somebody closes it.
Sockets ==
  /\ \A p \in live : m_Sock[p] = "open" => m_SessionActiveStatus[m_ID[p]]
  /\ \A t \in Thread : Creating(t) => m_SessionActiveStatus[sessionID[t]]
  /\ pc[Main] = "found" /\ m_Sessions[it] # NULL =>
       m_Sessions[it] \in late \/ m_Sock[m_Sessions[it]] # "open"
  /\ \A t \in Thread :
       pc[t] \in {"remove", "deallocate", "remove_all", "deallocate_all"} =>
         pSession[t] \in late \/ m_Sock[pSession[t]] # "open"
  /\ \A p \in RangeOf(m_FreeList) \ late : m_Sock[p] # "open"

IInv ==
  /\ TypeOK /\ OnlyMain /\ IdsApart /\ IdsSomewhere /\ SlotsOnce /\ SlotsSomewhere
  /\ Constructed /\ FreeInactive /\ Entries /\ Passed /\ Sockets
-----------------------------------------------------------------------------
Label == {"idle", "allocate", "construct", "insert", "remove", "deallocate"} \cup Iterating

\* The lists of the model are those of the lemmas.
LEMMA Lists == ASSUME NEW s PROVE RangeOf(s) = Elems(s) /\ (NoDuplicates(s) <=> Distinct(s))
BY DEF RangeOf, Elems, NoDuplicates, Distinct

\* The constructor puts every id into the stack and every slot into the free list.
LEMMA InitInv == Init => IInv
<1> SUFFICES ASSUME Init PROVE IInv OBVIOUS
<1> USE MgrAssumption
<1>1. /\ m_pFreeSessionID \in Seq(ID) /\ NoDuplicates(m_pFreeSessionID)
      /\ RangeOf(m_pFreeSessionID) = ID
  <2> DEFINE k == 999
  <2>1. m_pFreeSessionID = [i \in 1 .. Amount |-> k + i] BY DEF Init, InitialIDs
  <2>2. ID = k + 1 .. k + Amount /\ Amount \in Nat /\ k \in Int BY DEF ID
  <2> HIDE DEF k
  <2>3. /\ m_pFreeSessionID \in Seq(ID) /\ Distinct(m_pFreeSessionID)
        /\ Elems(m_pFreeSessionID) = ID
    BY <2>1, <2>2, CountedList, Zenon
  <2> QED BY <2>3, Lists
<1>2. /\ m_FreeList \in Seq(Slot) /\ NoDuplicates(m_FreeList)
      /\ RangeOf(m_FreeList) = Slot
  <2>1. m_FreeList = [i \in 1 .. Amount |-> 0 + i] BY DEF Init, LinkFreeElement
  <2>2. Slot = 0 + 1 .. 0 + Amount /\ Amount \in Nat /\ 0 \in Int BY DEF Slot
  <2>3. m_FreeList \in Seq(Slot) /\ Distinct(m_FreeList) /\ Elems(m_FreeList) = Slot
    BY <2>1, <2>2, CountedList, Zenon
  <2> QED BY <2>3, Lists
<1>3. 1000 \in ID /\ 1 \in Slot /\ 1000 \in 1000 .. 1000 + Amount BY DEF ID, Slot
<1>4. TypeOK
  <2>1. pc \in [Thread -> Label] BY DEF Init, Label
  <2>2. m_ID \in [Slot -> ID] BY <1>3 DEF Init
  <2>3. /\ m_Sessions \in [ID -> Slot \cup {NULL}]
        /\ m_SessionActiveStatus \in [ID -> BOOLEAN]
        /\ m_Sock \in [Slot -> {"open", "finished", "closed"}]
    BY DEF Init
  <2>4. sessionID \in [Thread -> ID] /\ pSession \in [Thread -> Slot] BY <1>3 DEF Init
  <2>5. it \in 1000 .. 1000 + Amount BY <1>3 DEF Init
  <2>6. /\ fault \in BOOLEAN
        /\ live \subseteq Slot /\ late \subseteq Slot /\ lost \subseteq ID
    BY DEF Init
  <2> QED BY <1>1, <1>2, <2>1, <2>2, <2>3, <2>4, <2>5, <2>6 DEF TypeOK, Label
<1>5. OnlyMain BY DEF Init, OnlyMain, Iterating
<1>6. IdsApart /\ IdsSomewhere
  BY <1>1 DEF Init, IdsApart, IdsSomewhere, Creating, Removing
<1>7. SlotsOnce /\ SlotsSomewhere
  BY <1>2 DEF Init, SlotsOnce, SlotsSomewhere, Holding
<1>8. Constructed /\ FreeInactive /\ Entries /\ Passed
  BY <1>1 DEF Init, Constructed, FreeInactive, Entries, Passed, Iterating
<1>9. Sockets BY <1>2 DEF Init, Sockets, Creating
<1> QED BY <1>4, <1>5, <1>6, <1>7, <1>8, <1>9 DEF IInv

\* GenerateSessionID: an id moves from the stack to the thread.
LEMMA GenerateInv ==
  ASSUME IInv, NEW t \in Thread, GenerateSessionID(t) PROVE IInv'
<1> USE MgrAssumption
<1> DEFINE id == m_pFreeSessionID[Len(m_pFreeSessionID)]
<1>1. /\ m_pFreeSessionID' \in Seq(ID) /\ NoDuplicates(m_pFreeSessionID')
      /\ id \in RangeOf(m_pFreeSessionID) /\ id \in ID
      /\ RangeOf(m_pFreeSessionID') = RangeOf(m_pFreeSessionID) \ {id}
  BY Lists, FrontElems, ElemsType DEF IInv, TypeOK, IdsApart, GenerateSessionID, Popped
<1>2. /\ pc[t] = "idle" /\ pc' = [pc EXCEPT ![t] = "allocate"]
      /\ sessionID' = [sessionID EXCEPT ![t] = id]
      /\ m_SessionActiveStatus' = [m_SessionActiveStatus EXCEPT ![id] = TRUE]
      /\ UNCHANGED <<m_Sessions, m_FreeList, m_ID, pSession, it, m_Sock, fault, live, late,
                     lost>>
  BY DEF GenerateSessionID, Goto, pool, ghosts
<1> HIDE DEF id
<1>3. TypeOK' BY <1>1, <1>2 DEF IInv, TypeOK
<1>4. OnlyMain' BY <1>2 DEF IInv, TypeOK, OnlyMain, Iterating
<1>5. IdsApart'
  BY <1>1, <1>2 DEF IInv, TypeOK, IdsApart, Creating, Removing, Returned
<1>6. IdsSomewhere'
  BY <1>1, <1>2 DEF IInv, TypeOK, IdsSomewhere, Creating, Removing, Returned
<1>7. SlotsOnce' /\ SlotsSomewhere'
  BY <1>2 DEF IInv, TypeOK, SlotsOnce, SlotsSomewhere, Holding
<1>8. Constructed' /\ FreeInactive'
  BY <1>1, <1>2, Lists, ElemsType DEF IInv, TypeOK, Constructed, FreeInactive
<1>9. Entries'
  <2>1. \A u \in Thread : Removing(u)' <=> Removing(u) BY <1>2 DEF IInv, TypeOK, Removing
  <2> QED BY <1>2, <2>1 DEF IInv, Entries
<1>10. Passed' BY <1>2 DEF IInv, TypeOK, Passed, Iterating
<1>11. Sockets' BY <1>1, <1>2 DEF IInv, TypeOK, IdsApart, Sockets, Creating
<1> QED BY <1>3, <1>4, <1>5, <1>6, <1>7, <1>8, <1>9, <1>10, <1>11 DEF IInv

\* AllocateSession: a slot moves from the free list to the thread, or the thread
\* gives up and its id is lost.
LEMMA AllocateInv ==
  ASSUME IInv, NEW t \in Thread, AllocateSession(t) PROVE IInv'
<1> USE MgrAssumption
<1>0. /\ pc[t] = "allocate"
      /\ UNCHANGED <<m_pFreeSessionID, m_Sessions, m_SessionActiveStatus, m_ID, sessionID,
                     it, m_Sock, fault, live, late>>
  BY DEF AllocateSession, mgr
<1>1. CASE m_FreeList # << >>
  <2> DEFINE q == Head(m_FreeList)
  <2>1. /\ m_FreeList' \in Seq(Slot) /\ NoDuplicates(m_FreeList')
        /\ q \in RangeOf(m_FreeList) /\ q \in Slot
        /\ RangeOf(m_FreeList') = RangeOf(m_FreeList) \ {q}
    <3>1. m_FreeList \in Seq(Slot) /\ Distinct(m_FreeList)
      BY Lists DEF IInv, TypeOK, SlotsOnce
    <3>2. m_FreeList' = Tail(m_FreeList) BY <1>1 DEF AllocateSession, Unlinked
    <3>3. Elems(m_FreeList) \subseteq Slot BY <3>1, ElemsType
    <3> QED BY <1>1, <3>1, <3>2, <3>3, Lists, TailElems
  <2>2. /\ pc' = [pc EXCEPT ![t] = "construct"]
        /\ pSession' = [pSession EXCEPT ![t] = q] /\ lost' = lost
    BY <1>1 DEF AllocateSession, Goto
  <2> HIDE DEF q
  <2>3. TypeOK' BY <1>0, <2>1, <2>2 DEF IInv, TypeOK
  <2>4. OnlyMain' BY <1>0, <2>2 DEF IInv, TypeOK, OnlyMain, Iterating
  <2>5. IdsApart'
    BY <1>0, <2>1, <2>2 DEF IInv, TypeOK, IdsApart, Creating, Removing, Returned
  <2>6. IdsSomewhere'
    <3>1. \A u \in Thread : (Creating(u)' <=> Creating(u)) /\ (Removing(u)' <=> Removing(u))
      BY <1>0, <2>2 DEF IInv, TypeOK, Creating, Removing
    <3>2. \A u \in Thread : Removing(u) => Returned(u)' = Returned(u)
      BY <1>0, <2>2 DEF IInv, TypeOK, Removing, Returned
    <3> QED BY <1>0, <2>2, <3>1, <3>2 DEF IInv, IdsSomewhere
  <2>7. SlotsOnce' BY <1>0, <2>1, <2>2 DEF IInv, TypeOK, SlotsOnce, Holding
  <2>8. SlotsSomewhere'
    <3>1. \A u \in Holding : u \in Holding' /\ pSession'[u] = pSession[u]
      BY <1>0, <2>2 DEF IInv, TypeOK, Holding
    <3>2. t \in Holding' /\ pSession'[t] = q BY <2>2 DEF IInv, TypeOK, Holding
    <3> QED BY <1>0, <2>1, <3>1, <3>2 DEF IInv, SlotsSomewhere
  <2>9. Constructed' /\ FreeInactive'
    BY <1>0, <2>2 DEF IInv, TypeOK, Constructed, FreeInactive
  <2>10. Entries' BY <1>0, <2>2 DEF IInv, TypeOK, Entries, Removing
  <2>11. Passed' BY <1>0, <2>2 DEF IInv, TypeOK, Passed, Iterating
  <2>12. Sockets' BY <1>0, <2>1, <2>2 DEF IInv, TypeOK, Sockets, Creating
  <2> QED BY <2>3, <2>4, <2>5, <2>6, <2>7, <2>8, <2>9, <2>10, <2>11, <2>12 DEF IInv
<1>2. CASE m_FreeList = << >>
  <2>1. /\ pc' = [pc EXCEPT ![t] = "idle"] /\ lost' = lost \cup {sessionID[t]}
        /\ UNCHANGED <<m_FreeList, pSession>>
    BY <1>2 DEF AllocateSession, Goto
  <2>2. TypeOK' BY <1>0, <2>1 DEF IInv, TypeOK
  <2>3. OnlyMain' BY <1>0, <2>1 DEF IInv, TypeOK, OnlyMain, Iterating
  <2>4. IdsApart'
    BY <1>0, <2>1 DEF IInv, TypeOK, IdsApart, Creating, Removing, Returned
  <2>5. IdsSomewhere'
    BY <1>0, <2>1 DEF IInv, TypeOK, IdsSomewhere, Creating, Removing, Returned
  <2>6. SlotsOnce' /\ SlotsSomewhere'
    BY <1>0, <2>1 DEF IInv, TypeOK, SlotsOnce, SlotsSomewhere, Holding
  <2>7. Constructed' /\ FreeInactive'
    BY <1>0, <2>1 DEF IInv, TypeOK, Constructed, FreeInactive
  <2>8. Entries' BY <1>0, <2>1 DEF IInv, TypeOK, Entries, Removing
  <2>9. Passed' BY <1>0, <2>1 DEF IInv, TypeOK, Passed, Iterating
  <2>10. Sockets' BY <1>0, <2>1 DEF IInv, TypeOK, Sockets, Creating
  <2> QED BY <2>2, <2>3, <2>4, <2>5, <2>6, <2>7, <2>8, <2>9, <2>10 DEF IInv
<1> QED BY <1>1, <1>2

\* The constructor of Session writes into memory nobody else knows.
LEMMA ConstructInv ==
  ASSUME IInv, NEW t \in Thread, Construct(t) PROVE IInv'
<1> USE MgrAssumption
<1>1. /\ pc[t] = "construct" /\ pc' = [pc EXCEPT ![t] = "insert"]
      /\ m_ID' = [m_ID EXCEPT ![pSession[t]] = sessionID[t]]
      /\ m_Sock' = [m_Sock EXCEPT ![pSession[t]] = "open"]
      /\ UNCHANGED <<m_pFreeSessionID, m_Sessions, m_SessionActiveStatus, m_FreeList,
                     sessionID, pSession, it, fault, live, late, lost>>
  BY DEF Construct, Goto, mgr, ghosts
<1>2. /\ pSession[t] \notin live \cup RangeOf(m_FreeList)
      /\ \A u \in Thread : Removing(u) => pSession[u] # pSession[t]
      /\ \A u \in Holding : pSession[u] = pSession[t] => u = t
      /\ \A i \in ID : m_Sessions[i] # pSession[t]
  <2>1. t \in Holding /\ ~Removing(t) BY <1>1 DEF Holding, Removing
  <2>2. \A u \in Thread : Removing(u) => u \in Holding BY DEF Holding, Removing
  <2>3. pSession[t] \in Slot BY DEF IInv, TypeOK
  <2> QED BY <2>1, <2>2, <2>3 DEF IInv, SlotsOnce, Entries
<1>3. \A u \in Thread : Removing(u) => Returned(u)' = Returned(u)
  BY <1>1, <1>2 DEF IInv, TypeOK, Returned
<1>4. \A p \in live : m_ID'[p] = m_ID[p] /\ m_Sock'[p] = m_Sock[p]
  BY <1>1, <1>2 DEF IInv, TypeOK
<1>5. TypeOK' BY <1>1 DEF IInv, TypeOK
<1>6. OnlyMain' BY <1>1 DEF IInv, TypeOK, OnlyMain, Iterating
<1>7. /\ \A u \in Thread : Removing(u)' <=> Removing(u)
      /\ \A u \in Thread : Creating(u)' <=> Creating(u)
  BY <1>1 DEF IInv, TypeOK, Removing, Creating
<1>8. IdsApart' BY <1>1, <1>3, <1>4, <1>7 DEF IInv, IdsApart
<1>9. IdsSomewhere' BY <1>1, <1>3, <1>4, <1>7 DEF IInv, IdsSomewhere
<1>10. SlotsOnce' /\ SlotsSomewhere'
  BY <1>1 DEF IInv, TypeOK, SlotsOnce, SlotsSomewhere, Holding
<1>11. Constructed'
  <2> SUFFICES ASSUME NEW u \in Thread, pc'[u] = "insert"
               PROVE  m_ID'[pSession[u]] = sessionID[u]
    BY <1>1 DEF Constructed
  <2>1. CASE u = t BY <1>1, <2>1 DEF IInv, TypeOK
  <2>2. CASE u # t
    <3>1. pc[u] = "insert" BY <1>1, <2>2 DEF IInv, TypeOK
    <3>2. u \in Holding BY <3>1 DEF Holding
    <3> QED BY <1>1, <1>2, <2>2, <3>1, <3>2 DEF IInv, TypeOK, Constructed
  <2> QED BY <2>1, <2>2
<1>12. FreeInactive' BY <1>1 DEF IInv, FreeInactive
<1>13. Entries'
  BY <1>1, <1>2, <1>4, <1>7 DEF IInv, TypeOK, Entries
<1>14. Passed' BY <1>1, <1>4 DEF IInv, TypeOK, Passed, Iterating
<1>15. Sockets'
  BY <1>1, <1>2, <1>4, <1>7 DEF IInv, TypeOK, OnlyMain, Sockets, Holding
<1> QED BY <1>5, <1>6, <1>8, <1>9, <1>10, <1>11, <1>12, <1>13, <1>14, <1>15 DEF IInv

\* InsertSession: the thread's session becomes one of the map's.
LEMMA InsertInv ==
  ASSUME IInv, NEW t \in Thread, InsertSession(t) PROVE IInv'
<1> USE MgrAssumption
<1> DEFINE q == pSession[t]
<1>1. /\ pc[t] = "insert" /\ pc' = [pc EXCEPT ![t] = "idle"]
      /\ m_Sessions' = [m_Sessions EXCEPT ![m_ID[q]] = q]
      /\ live' = live \cup {q}
      /\ late' = IF pc[Main] \in Iterating THEN late \cup {q} ELSE late
      /\ UNCHANGED <<m_pFreeSessionID, m_SessionActiveStatus, m_FreeList, m_ID, sessionID,
                     pSession, it, m_Sock, fault, lost>>
  BY DEF InsertSession, Goto, pool
<1>2. /\ q \in Slot /\ q \notin live \cup RangeOf(m_FreeList)
      /\ m_ID[q] = sessionID[t] /\ m_ID[q] \in ID
      /\ \A u \in Holding : pSession[u] = q => u = t
  <2>1. t \in Holding BY <1>1 DEF Holding
  <2> QED BY <1>1, <2>1 DEF IInv, TypeOK, SlotsOnce, Constructed
<1> HIDE DEF q
<1>3. TypeOK' BY <1>1, <1>2 DEF IInv, TypeOK
<1>4. OnlyMain' BY <1>1 DEF IInv, TypeOK, OnlyMain, Iterating
<1>5. IdsApart'
  BY <1>1, <1>2 DEF IInv, TypeOK, IdsApart, Creating, Removing, Returned
<1>6. IdsSomewhere'
  BY <1>1, <1>2 DEF IInv, TypeOK, IdsSomewhere, Creating, Removing, Returned
<1>7. SlotsOnce' BY <1>1, <1>2 DEF IInv, TypeOK, SlotsOnce, Holding
<1>8. SlotsSomewhere'
  BY <1>1, <1>2 DEF IInv, TypeOK, SlotsSomewhere, Holding, q
<1>9. Constructed' /\ FreeInactive'
  BY <1>1 DEF IInv, TypeOK, Constructed, FreeInactive
<1>10. Entries'
  <2>1. \A p \in live : m_ID[p] # m_ID[q]
    BY <1>1, <1>2 DEF IInv, IdsApart, Creating
  <2>2. \A u \in Thread : Removing(u) => Removing(u)' /\ pSession'[u] = pSession[u]
    BY <1>1 DEF IInv, TypeOK, Removing
  <2>3. \A i \in ID : m_Sessions'[i] = IF i = m_ID[q] THEN q ELSE m_Sessions[i]
    BY <1>1, <1>2 DEF IInv, TypeOK
  <2>4. \A p \in live' : m_ID[p] \in ID BY <1>1, <1>2 DEF IInv, TypeOK
  <2>5. \A p \in live' : m_Sessions'[m_ID'[p]] = p
    BY <1>1, <2>1, <2>3, <2>4 DEF IInv, Entries
  <2>6. \A i \in ID : m_Sessions'[i] # NULL =>
          /\ m_ID'[m_Sessions'[i]] = i
          /\ \/ m_Sessions'[i] \in live'
             \/ \E u \in Thread : Removing(u)' /\ pSession'[u] = m_Sessions'[i]
    BY <1>1, <2>2, <2>3 DEF IInv, Entries
  <2> QED BY <2>5, <2>6 DEF Entries
<1>11. Passed' BY <1>1, <1>2 DEF IInv, TypeOK, OnlyMain, Passed, Iterating, ID
<1>12. Sockets'
  <2>1. m_SessionActiveStatus[m_ID[q]] BY <1>1, <1>2 DEF IInv, Sockets, Creating
  <2>2. pc[Main] = "found" => it \in ID /\ q \in late'
    BY <1>1 DEF IInv, OnlyMain, Iterating
  <2>3. late \subseteq late' BY <1>1
  <2>4. \A p \in live' : m_Sock'[p] = "open" => m_SessionActiveStatus'[m_ID'[p]]
    BY <1>1, <2>1 DEF IInv, Sockets
  <2>5. \A u \in Thread : Creating(u)' => m_SessionActiveStatus'[sessionID'[u]]
    BY <1>1 DEF IInv, TypeOK, Sockets, Creating
  <2>6. pc'[Main] = "found" /\ m_Sessions'[it'] # NULL =>
          m_Sessions'[it'] \in late' \/ m_Sock'[m_Sessions'[it']] # "open"
    BY <1>1, <1>2, <2>2, <2>3 DEF IInv, TypeOK, Sockets
  <2>7. \A u \in Thread :
          pc'[u] \in {"remove", "deallocate", "remove_all", "deallocate_all"} =>
            pSession'[u] \in late' \/ m_Sock'[pSession'[u]] # "open"
    BY <1>1, <2>3 DEF IInv, TypeOK, Sockets
  <2>8. \A p \in RangeOf(m_FreeList') \ late' : m_Sock'[p] # "open"
    BY <1>1, <2>3 DEF IInv, Sockets
  <2> QED BY <2>4, <2>5, <2>6, <2>7, <2>8 DEF Sockets
<1> QED BY <1>3, <1>4, <1>5, <1>6, <1>7, <1>8, <1>9, <1>10, <1>11, <1>12 DEF IInv

\* DestroySession: a live session goes to the thread that destroys it; what is
\* left of the second disjunct is that the process has died.
LEMMA DestroyInv ==
  ASSUME IInv, NEW t \in Thread, NEW q \in Slot, DestroySession(t, q) PROVE IInv'
<1> USE MgrAssumption
<1>0. /\ pc[t] = "idle"
      /\ UNCHANGED <<m_pFreeSessionID, m_Sessions, m_SessionActiveStatus, m_FreeList, m_ID,
                     sessionID, it, late, lost>>
  BY DEF DestroySession, mgr, pool
<1>1. CASE q \in live /\ live' = live \ {q} /\ fault' = fault
           /\ m_Sock' = [m_Sock EXCEPT ![q] = "closed"]
           /\ pSession' = [pSession EXCEPT ![t] = q]
           /\ pc' = [pc EXCEPT ![t] = "remove"]
  <2>1. TypeOK' BY <1>0, <1>1 DEF IInv, TypeOK
  <2>2. OnlyMain' BY <1>0, <1>1 DEF IInv, TypeOK, OnlyMain, Iterating
  <2>3. IdsApart'
    BY <1>0, <1>1 DEF IInv, TypeOK, IdsApart, Creating, Removing, Returned
  <2>4. IdsSomewhere'
    BY <1>0, <1>1 DEF IInv, TypeOK, IdsSomewhere, Creating, Removing, Returned
  <2>5. SlotsOnce' BY <1>0, <1>1 DEF IInv, TypeOK, SlotsOnce, Holding
  <2>6. SlotsSomewhere'
    <3>1. \A u \in Holding : u \in Holding' /\ pSession'[u] = pSession[u]
      BY <1>0, <1>1 DEF IInv, TypeOK, Holding
    <3>2. t \in Holding' /\ pSession'[t] = q BY <1>1 DEF IInv, TypeOK, Holding
    <3> QED BY <1>0, <1>1, <3>1, <3>2 DEF IInv, SlotsSomewhere
  <2>7. Constructed' /\ FreeInactive'
    BY <1>0, <1>1 DEF IInv, TypeOK, Constructed, FreeInactive
  <2>8. Entries' BY <1>0, <1>1 DEF IInv, TypeOK, Entries, Removing
  <2>9. Passed' BY <1>0, <1>1 DEF IInv, TypeOK, Passed, Iterating
  <2>10. Sockets' BY <1>0, <1>1 DEF IInv, TypeOK, Sockets, Creating
  <2> QED BY <2>1, <2>2, <2>3, <2>4, <2>5, <2>6, <2>7, <2>8, <2>9, <2>10 DEF IInv
<1>2. CASE fault' = TRUE /\ UNCHANGED <<live, m_Sock, pSession, pc>>
  BY <1>0, <1>2
  DEF IInv, TypeOK, OnlyMain, IdsApart, IdsSomewhere, SlotsOnce, SlotsSomewhere, Holding,
      Constructed, FreeInactive, Entries, Passed, Sockets, Creating, Removing, Returned
<1> QED BY <1>1, <1>2 DEF DestroySession, Goto

\* There are as many ids as sessions.
LEMMA IdCount == IsFiniteSet(ID) /\ Cardinality(ID) = Amount
<1> USE MgrAssumption
<1>1. IsFiniteSet(1000 .. 999 + Amount) BY FS_Interval
<1>2. Cardinality(1000 .. 999 + Amount) =
        IF 1000 > 999 + Amount THEN 0 ELSE (999 + Amount) - 1000 + 1
  BY FS_Interval
<1> QED BY <1>1, <1>2 DEF ID

\* The id that RemoveSession returns finds room in the stack.
LEMMA StackHasRoom ==
  ASSUME IInv, NEW t \in Thread, Removing(t)
  PROVE  Len(m_pFreeSessionID) < Amount
<1> USE MgrAssumption
<1>1. m_pFreeSessionID \in Seq(ID) /\ Distinct(m_pFreeSessionID)
  BY Lists DEF IInv, TypeOK, IdsApart
<1>2. /\ IsFiniteSet(Elems(m_pFreeSessionID))
      /\ Cardinality(Elems(m_pFreeSessionID)) = Len(m_pFreeSessionID)
  BY <1>1, DistinctLen
<1>3. Returned(t) \in ID /\ Returned(t) \notin Elems(m_pFreeSessionID)
  BY Lists DEF IInv, TypeOK, IdsApart, Returned
<1>4. IsFiniteSet(ID) /\ Cardinality(ID) = Amount BY IdCount
<1>5. /\ IsFiniteSet(ID \ {Returned(t)})
      /\ Cardinality(ID \ {Returned(t)}) = Amount - 1
  BY <1>3, <1>4, FS_RemoveElement
<1>6. Elems(m_pFreeSessionID) \in SUBSET (ID \ {Returned(t)}) BY <1>1, <1>3, ElemsType
<1>7. Cardinality(Elems(m_pFreeSessionID)) <= Cardinality(ID \ {Returned(t)})
  BY <1>5, <1>6, FS_Subset
<1>8. Len(m_pFreeSessionID) \in Nat BY <1>1, LenProperties
<1> QED BY <1>2, <1>5, <1>7, <1>8

\* RemoveSession: the id goes back to the stack, the entry is cleared.
LEMMA RemoveInv ==
  ASSUME IInv, NEW t \in Thread, RemoveSession(t) PROVE IInv'
<1> USE MgrAssumption
<1> DEFINE id == Returned(t)
           l == IF pc[t] = "remove" THEN "deallocate" ELSE "deallocate_all"
<1>0. Removing(t) BY DEF RemoveSession, Removing
<1>1. id \in ID /\ id \notin RangeOf(m_pFreeSessionID) /\ id = m_ID[pSession[t]]
  BY <1>0 DEF IInv, TypeOK, IdsApart, Returned
<1>2. /\ m_pFreeSessionID' \in Seq(ID) /\ NoDuplicates(m_pFreeSessionID')
      /\ RangeOf(m_pFreeSessionID') = RangeOf(m_pFreeSessionID) \cup {id}
  <2>1. m_pFreeSessionID' = Append(m_pFreeSessionID, id)
    BY <1>0, StackHasRoom DEF RemoveSession, Returned
  <2>2. m_pFreeSessionID \in Seq(ID) /\ Distinct(m_pFreeSessionID)
    BY Lists DEF IInv, TypeOK, IdsApart
  <2> HIDE DEF id
  <2> QED BY <1>1, <2>1, <2>2, Lists, AppendElems
<1>3. /\ m_SessionActiveStatus' = [m_SessionActiveStatus EXCEPT ![id] = FALSE]
      /\ m_Sessions' = [m_Sessions EXCEPT ![id] = NULL]
      /\ pc' = [pc EXCEPT ![t] = l]
      /\ UNCHANGED <<m_FreeList, m_ID, sessionID, pSession, it, m_Sock, fault, live, late,
                     lost>>
  BY <1>0, StackHasRoom
  DEF RemoveSession, Returned, Cleared, Deactivated, Goto, pool, ghosts
<1>4. /\ l \in {"deallocate", "deallocate_all"} /\ pc[t] \in {"remove", "remove_all"}
      /\ l = "deallocate_all" <=> pc[t] = "remove_all"
  BY DEF RemoveSession
<1> HIDE DEF id, l
<1>5. TypeOK' BY <1>1, <1>2, <1>3, <1>4 DEF IInv, TypeOK, Iterating
<1>6. OnlyMain' BY <1>3, <1>4 DEF IInv, TypeOK, OnlyMain, Iterating
<1>7. /\ \A u \in Thread : Removing(u)' <=> Removing(u) /\ u # t
      /\ \A u \in Thread : Creating(u)' <=> Creating(u)
      /\ Holding' = Holding
  BY <1>3, <1>4 DEF IInv, TypeOK, Removing, Creating, Holding
<1>8. \A u \in Thread : Returned(u)' = Returned(u) BY <1>3 DEF Returned
<1>9. IdsApart'
  <2>1. id = Returned(t) BY DEF id
  <2> QED BY <1>0, <1>2, <1>3, <1>7, <1>8, <2>1 DEF IInv, IdsApart
<1>10. IdsSomewhere'
  BY <1>2, <1>3, <1>7, <1>8 DEF IInv, IdsSomewhere, id
<1>11. SlotsOnce' /\ SlotsSomewhere'
  BY <1>3, <1>7 DEF IInv, SlotsOnce, SlotsSomewhere
<1>12. Constructed' BY <1>3, <1>4 DEF IInv, TypeOK, Constructed
<1>13. FreeInactive'
  <2>1. RangeOf(m_pFreeSessionID) \subseteq ID BY Lists, ElemsType DEF IInv, TypeOK
  <2> QED BY <1>1, <1>2, <1>3, <2>1 DEF IInv, TypeOK, FreeInactive
<1>14. Entries'
  <2>1. \A p \in live : m_ID[p] # id /\ m_ID[p] \in ID
    BY <1>0 DEF IInv, TypeOK, IdsApart, id
  <2>2. \A i \in ID : m_Sessions'[i] = IF i = id THEN NULL ELSE m_Sessions[i]
    BY <1>1, <1>3 DEF IInv, TypeOK
  <2>3. \A i \in ID : i # id /\ m_Sessions[i] # NULL => m_Sessions[i] # pSession[t]
    BY <1>1 DEF IInv, Entries
  <2> QED BY <1>3, <1>7, <2>1, <2>2, <2>3 DEF IInv, Entries
<1>15. Passed' BY <1>3, <1>4 DEF IInv, TypeOK, Passed, Iterating
<1>16. Sockets'
  <2>1. /\ \A p \in live : m_ID[p] # id
        /\ \A u \in Thread : Creating(u) => sessionID[u] # id
    BY <1>0 DEF IInv, IdsApart, id
  <2>2. \A i \in ID : m_Sessions'[i] = IF i = id THEN NULL ELSE m_Sessions[i]
    BY <1>1, <1>3 DEF IInv, TypeOK
  <2>3. \A i \in ID : i # id => m_SessionActiveStatus'[i] = m_SessionActiveStatus[i]
    BY <1>3 DEF IInv, TypeOK
  <2>4. /\ \A p \in live : m_ID[p] \in ID
        /\ \A u \in Thread : sessionID[u] \in ID
    BY DEF IInv, TypeOK
  <2>5. /\ \A p \in live' : m_Sock'[p] = "open" => m_SessionActiveStatus'[m_ID'[p]]
        /\ \A u \in Thread : Creating(u)' => m_SessionActiveStatus'[sessionID'[u]]
    BY <1>3, <1>7, <2>1, <2>3, <2>4 DEF IInv, Sockets
  <2>6. pc'[Main] = "found" /\ m_Sessions'[it'] # NULL =>
          m_Sessions'[it'] \in late' \/ m_Sock'[m_Sessions'[it']] # "open"
    BY <1>3, <1>4, <2>2 DEF IInv, TypeOK, OnlyMain, Sockets
  <2>7. \A u \in Thread :
          pc'[u] \in {"remove", "deallocate", "remove_all", "deallocate_all"} =>
            pSession'[u] \in late' \/ m_Sock'[pSession'[u]] # "open"
    BY <1>3, <1>4 DEF IInv, TypeOK, Sockets
  <2>8. \A p \in RangeOf(m_FreeList') \ late' : m_Sock'[p] # "open"
    BY <1>3 DEF IInv, Sockets
  <2> QED BY <2>5, <2>6, <2>7, <2>8 DEF Sockets
<1> QED BY <1>5, <1>6, <1>9, <1>10, <1>11, <1>12, <1>13, <1>14, <1>15, <1>16 DEF IInv

\* DeallocateSession: the slot goes back to the free list.
LEMMA DeallocateInv ==
  ASSUME IInv, NEW t \in Thread, DeallocateSession(t) PROVE IInv'
<1> USE MgrAssumption
<1> DEFINE q == pSession[t]
           l == IF pc[t] = "deallocate" THEN "idle" ELSE "iterate"
<1>1. /\ pc' = [pc EXCEPT ![t] = l]
      /\ UNCHANGED <<m_pFreeSessionID, m_Sessions, m_SessionActiveStatus, m_ID, sessionID,
                     pSession, it, m_Sock, fault, live, late, lost>>
  BY DEF DeallocateSession, Goto, mgr, ghosts
<1>2. /\ pc[t] \in {"deallocate", "deallocate_all"} /\ l \in {"idle", "iterate"}
      /\ l = "iterate" <=> pc[t] = "deallocate_all"
  BY DEF DeallocateSession
<1>3. /\ q \in Slot /\ q \notin live \cup RangeOf(m_FreeList)
      /\ \A u \in Holding : pSession[u] = q => u = t
  <2>1. t \in Holding BY <1>2 DEF Holding
  <2> QED BY <2>1 DEF IInv, TypeOK, SlotsOnce
<1>4. /\ m_FreeList' \in Seq(Slot) /\ NoDuplicates(m_FreeList')
      /\ RangeOf(m_FreeList') = RangeOf(m_FreeList) \cup {q}
  <2>1. m_FreeList' = <<q>> \o m_FreeList BY DEF DeallocateSession, Linked
  <2>2. m_FreeList \in Seq(Slot) /\ Distinct(m_FreeList)
    BY Lists DEF IInv, TypeOK, SlotsOnce
  <2> HIDE DEF q
  <2> QED BY <1>3, <2>1, <2>2, Lists, ConsElems
<1>5. q = pSession[t] OBVIOUS
<1> HIDE DEF q, l
<1>6. TypeOK' BY <1>1, <1>2, <1>4 DEF IInv, TypeOK, Iterating
<1>7. OnlyMain' BY <1>1, <1>2 DEF IInv, TypeOK, OnlyMain, Iterating
<1>8. /\ \A u \in Thread : Removing(u)' <=> Removing(u)
      /\ \A u \in Thread : Creating(u)' <=> Creating(u)
      /\ Holding' = Holding \ {t}
  BY <1>1, <1>2 DEF IInv, TypeOK, Removing, Creating, Holding
<1>9. \A u \in Thread : Returned(u)' = Returned(u) BY <1>1 DEF Returned
<1>10. IdsApart' BY <1>1, <1>8, <1>9 DEF IInv, IdsApart
<1>11. IdsSomewhere' BY <1>1, <1>8, <1>9 DEF IInv, IdsSomewhere
<1>12. SlotsOnce'
  <2>1. t \in Holding BY <1>2 DEF Holding
  <2> QED BY <1>1, <1>3, <1>4, <1>8, <2>1 DEF IInv, SlotsOnce
<1>13. SlotsSomewhere' BY <1>1, <1>4, <1>5, <1>8 DEF IInv, SlotsSomewhere
<1>14. Constructed' /\ FreeInactive'
  BY <1>1, <1>2 DEF IInv, TypeOK, Constructed, FreeInactive
<1>15. Entries' BY <1>1, <1>8 DEF IInv, Entries
<1>16. Passed' BY <1>1, <1>2 DEF IInv, TypeOK, Passed, Iterating
<1>17. Sockets'
  <2>1. q \in late \/ m_Sock[q] # "open" BY <1>2, <1>5 DEF IInv, Sockets
  <2>2. \A p \in RangeOf(m_FreeList') \ late' : m_Sock'[p] # "open"
    BY <1>1, <1>4, <2>1 DEF IInv, Sockets
  <2>3. \A u \in Thread :
          pc'[u] \in {"remove", "deallocate", "remove_all", "deallocate_all"} => pc'[u] = pc[u]
    BY <1>1, <1>2 DEF IInv, TypeOK
  <2>4. pc'[Main] = "found" => pc[Main] = "found" BY <1>1, <1>2 DEF IInv, TypeOK
  <2> QED BY <1>1, <1>8, <2>2, <2>3, <2>4 DEF IInv, Sockets
<1> QED BY <1>6, <1>7, <1>10, <1>11, <1>12, <1>13, <1>14, <1>15, <1>16, <1>17 DEF IInv

\* SetSessionActive: the peer has closed.
LEMMA SetActiveInv ==
  ASSUME IInv, NEW t \in Thread, NEW p \in Slot, SetSessionActive(t, p) PROVE IInv'
<1> USE MgrAssumption
<1>1. /\ p \in live
      /\ m_SessionActiveStatus' = [m_SessionActiveStatus EXCEPT ![m_ID[p]] = FALSE]
      /\ m_Sock' = [m_Sock EXCEPT ![p] = "finished"]
      /\ UNCHANGED <<m_pFreeSessionID, m_Sessions, m_FreeList, m_ID, pc, sessionID, pSession,
                     it, fault, live, late, lost>>
  BY DEF SetSessionActive, Deactivated, pool, ghosts
<1>2. TypeOK' BY <1>1 DEF IInv, TypeOK
<1>3. OnlyMain' /\ Constructed' /\ Passed'
  BY <1>1 DEF IInv, OnlyMain, Constructed, Passed
<1>4. /\ \A u \in Thread : Removing(u)' <=> Removing(u)
      /\ \A u \in Thread : Creating(u)' <=> Creating(u)
      /\ \A u \in Thread : Returned(u)' = Returned(u)
      /\ Holding' = Holding
  BY <1>1 DEF Removing, Creating, Returned, Holding
<1>5. IdsApart' /\ IdsSomewhere' BY <1>1, <1>4 DEF IInv, IdsApart, IdsSomewhere
<1>6. SlotsOnce' /\ SlotsSomewhere' BY <1>1, <1>4 DEF IInv, SlotsOnce, SlotsSomewhere
<1>7. FreeInactive'
  <2>1. RangeOf(m_pFreeSessionID) \subseteq ID BY Lists, ElemsType DEF IInv, TypeOK
  <2> QED BY <1>1, <2>1 DEF IInv, TypeOK, FreeInactive
<1>8. Entries' BY <1>1, <1>4 DEF IInv, Entries
<1>9. Sockets'
  <2>1. \A q \in Slot : m_Sock'[q] = "open" => m_Sock[q] = "open" /\ q # p
    BY <1>1 DEF IInv, TypeOK
  <2>2. /\ \A q \in live : q # p => m_ID[q] # m_ID[p]
        /\ \A u \in Thread : Creating(u) => sessionID[u] # m_ID[p]
    BY <1>1 DEF IInv, IdsApart
  <2>3. \A i \in ID : i # m_ID[p] => m_SessionActiveStatus'[i] = m_SessionActiveStatus[i]
    BY <1>1 DEF IInv, TypeOK
  <2>4. /\ \A q \in live : m_ID[q] \in ID /\ q \in Slot
        /\ \A u \in Thread : sessionID[u] \in ID /\ pSession[u] \in Slot
        /\ RangeOf(m_FreeList) \subseteq Slot
        /\ pc[Main] = "found" => m_Sessions[it] \in Slot \cup {NULL}
    BY Lists, ElemsType DEF IInv, TypeOK, OnlyMain
  <2>5. \A q \in live' : m_Sock'[q] = "open" => m_SessionActiveStatus'[m_ID'[q]]
    BY <1>1, <2>1, <2>2, <2>3, <2>4 DEF IInv, Sockets
  <2>6. \A u \in Thread : Creating(u)' => m_SessionActiveStatus'[sessionID'[u]]
    BY <1>1, <1>4, <2>2, <2>3, <2>4 DEF IInv, Sockets
  <2>7. pc'[Main] = "found" /\ m_Sessions'[it'] # NULL =>
          m_Sessions'[it'] \in late' \/ m_Sock'[m_Sessions'[it']] # "open"
    BY <1>1, <2>1, <2>4 DEF IInv, Sockets
  <2>8. \A u \in Thread :
          pc'[u] \in {"remove", "deallocate", "remove_all", "deallocate_all"} =>
            pSession'[u] \in late' \/ m_Sock'[pSession'[u]] # "open"
    BY <1>1, <2>1, <2>4 DEF IInv, Sockets
  <2>9. \A q \in RangeOf(m_FreeList') \ late' : m_Sock'[q] # "open"
    BY <1>1, <2>1, <2>4 DEF IInv, Sockets
  <2> QED BY <2>5, <2>6, <2>7, <2>8, <2>9 DEF Sockets
<1> QED BY <1>2, <1>3, <1>5, <1>6, <1>7, <1>8, <1>9 DEF IInv

\* What a step of DestroyAllSessions that destroys nothing leaves as it was.
LEMMA MainMoves ==
  ASSUME IInv, NEW l \in {"iterate", "found", "ended"},
         pc[Main] \in {"idle", "iterate"},
         pc' = pc \/ pc' = [pc EXCEPT ![Main] = l],
         UNCHANGED <<m_pFreeSessionID, m_Sessions, m_SessionActiveStatus, m_FreeList, m_ID,
                     sessionID, pSession, fault, live, late, lost>>
  PROVE  /\ IdsApart' /\ IdsSomewhere' /\ SlotsOnce' /\ SlotsSomewhere'
         /\ Constructed' /\ FreeInactive' /\ Entries'
         /\ \A u \in Thread : Creating(u)' <=> Creating(u)
         /\ \A u \in Thread : Removing(u)' <=> Removing(u)
         /\ pc \in [Thread -> Label] /\ pc' \in [Thread -> Label]
<1> USE MgrAssumption
<1>1. pc \in [Thread -> Label] /\ pc' \in [Thread -> Label]
  BY DEF IInv, TypeOK, Label, Iterating
<1>2. /\ \A u \in Thread : Creating(u)' <=> Creating(u)
      /\ \A u \in Thread : Removing(u)' <=> Removing(u)
      /\ \A u \in Thread : Returned(u)' = Returned(u)
      /\ Holding' = Holding
      /\ \A u \in Thread : pc'[u] = "insert" => pc[u] = "insert"
  BY <1>1 DEF Removing, Creating, Returned, Holding
<1>3. IdsApart' /\ IdsSomewhere' BY <1>2 DEF IInv, IdsApart, IdsSomewhere
<1>4. SlotsOnce' /\ SlotsSomewhere' BY <1>2 DEF IInv, SlotsOnce, SlotsSomewhere
<1>5. Constructed' /\ FreeInactive' BY <1>2 DEF IInv, Constructed, FreeInactive
<1>6. Entries' BY <1>2 DEF IInv, Entries
<1> QED BY <1>1, <1>2, <1>3, <1>4, <1>5, <1>6

\* DestroyAllSessions begins at the first id, and ends behind the last.
LEMMA BeginInv == ASSUME IInv, Begin PROVE IInv'
<1> USE MgrAssumption
<1>1. /\ pc[Main] = "idle" /\ pc' = [pc EXCEPT ![Main] = "iterate"]
      /\ UNCHANGED <<m_pFreeSessionID, m_Sessions, m_SessionActiveStatus, m_FreeList, m_ID,
                     sessionID, pSession, it, m_Sock, fault, live, late, lost>>
  BY DEF Begin, Goto, mgr, pool, ghosts
<1>2. /\ IdsApart' /\ IdsSomewhere' /\ SlotsOnce' /\ SlotsSomewhere'
      /\ Constructed' /\ FreeInactive' /\ Entries'
      /\ \A u \in Thread : Creating(u)' <=> Creating(u)
      /\ pc \in [Thread -> Label] /\ pc' \in [Thread -> Label]
  BY <1>1, MainMoves
<1>3. TypeOK' BY <1>1, <1>2 DEF IInv, TypeOK, Label
<1>4. OnlyMain' BY <1>1, <1>2 DEF IInv, OnlyMain, Iterating
<1>5. Passed'
  <2>1. it = 1000 BY <1>1 DEF IInv, OnlyMain, Iterating
  <2>2. \A p \in live : m_ID[p] \in 1000 .. 999 + Amount BY DEF IInv, TypeOK, ID
  <2> QED BY <1>1, <2>1, <2>2 DEF Passed
<1>6. Sockets' BY <1>1, <1>2 DEF IInv, Sockets
<1> QED BY <1>2, <1>3, <1>4, <1>5, <1>6 DEF IInv

LEMMA EndInv == ASSUME IInv, End PROVE IInv'
<1> USE MgrAssumption
<1>1. /\ pc[Main] = "iterate" /\ it \notin ID /\ pc' = [pc EXCEPT ![Main] = "ended"]
      /\ UNCHANGED <<m_pFreeSessionID, m_Sessions, m_SessionActiveStatus, m_FreeList, m_ID,
                     sessionID, pSession, it, m_Sock, fault, live, late, lost>>
  BY DEF End, More, Goto, mgr, pool, ghosts
<1>2. /\ IdsApart' /\ IdsSomewhere' /\ SlotsOnce' /\ SlotsSomewhere'
      /\ Constructed' /\ FreeInactive' /\ Entries'
      /\ \A u \in Thread : Creating(u)' <=> Creating(u)
      /\ pc \in [Thread -> Label] /\ pc' \in [Thread -> Label]
  BY <1>1, MainMoves
<1>3. TypeOK' BY <1>1, <1>2 DEF IInv, TypeOK, Label
<1>4. OnlyMain' BY <1>1, <1>2 DEF IInv, OnlyMain, Iterating
<1>5. Passed' BY <1>1, <1>2 DEF IInv, Passed, Iterating
<1>6. Sockets' BY <1>1, <1>2 DEF IInv, Sockets
<1> QED BY <1>2, <1>3, <1>4, <1>5, <1>6 DEF IInv

\* A step over an empty entry leaves no session behind, and the socket of an
\* active session is closed before the session is destroyed.
LEMMA IterateInv == ASSUME IInv, Iterate PROVE IInv'
<1> USE MgrAssumption
<1>0. /\ pc[Main] = "iterate" /\ it \in ID
      /\ UNCHANGED <<m_pFreeSessionID, m_Sessions, m_SessionActiveStatus, m_FreeList, m_ID,
                     sessionID, pSession, fault, live, late, lost>>
  BY DEF Iterate, More, mgr, pool, ghosts
<1>1. CASE m_Sessions[it] = NULL
  <2>1. it' = it + 1 /\ UNCHANGED <<pc, m_Sock>> BY <1>1 DEF Iterate
  <2>2. /\ IdsApart' /\ IdsSomewhere' /\ SlotsOnce' /\ SlotsSomewhere'
        /\ Constructed' /\ FreeInactive' /\ Entries'
        /\ \A u \in Thread : Creating(u)' <=> Creating(u)
    BY <1>0, <2>1, MainMoves
  <2>3. it' \in 1000 .. 1000 + Amount BY <1>0, <2>1 DEF ID
  <2>4. TypeOK' BY <1>0, <2>1, <2>3 DEF IInv, TypeOK
  <2>5. OnlyMain' BY <1>0, <2>1 DEF IInv, OnlyMain, Iterating
  <2>6. Passed'
    <3> SUFFICES ASSUME NEW p \in live, p \notin late PROVE m_ID[p] >= it + 1
      BY <1>0, <2>1 DEF Passed
    <3>1. m_ID[p] >= it BY <1>0 DEF IInv, Passed, Iterating
    <3>2. m_ID[p] # it
      <4>1. m_Sessions[m_ID[p]] = p /\ p \in Slot BY DEF IInv, Entries, TypeOK
      <4> QED BY <1>1, <4>1
    <3>3. m_ID[p] \in 1000 .. 999 + Amount /\ it \in Int BY DEF IInv, TypeOK, ID
    <3> QED BY <3>1, <3>2, <3>3
  <2>7. Sockets' BY <1>0, <2>1, <2>2 DEF IInv, Sockets
  <2> QED BY <2>2, <2>4, <2>5, <2>6, <2>7 DEF IInv
<1>2. CASE m_Sessions[it] # NULL
  <2> DEFINE q == m_Sessions[it]
  <2>1. /\ pc' = [pc EXCEPT ![Main] = "found"] /\ it' = it
        /\ m_Sock' = IF m_SessionActiveStatus[it]
                     THEN [m_Sock EXCEPT ![q] = "closed"] ELSE m_Sock
    BY <1>2 DEF Iterate, Goto
  <2>2. /\ IdsApart' /\ IdsSomewhere' /\ SlotsOnce' /\ SlotsSomewhere'
        /\ Constructed' /\ FreeInactive' /\ Entries'
        /\ \A u \in Thread : Creating(u)' <=> Creating(u)
        /\ pc \in [Thread -> Label] /\ pc' \in [Thread -> Label]
    BY <1>0, <2>1, MainMoves
  <2>3. q \in Slot /\ m_ID[q] = it BY <1>0, <1>2 DEF IInv, TypeOK, Entries
  <2>4. q \in late \/ m_Sock'[q] # "open"
    <3>1. CASE m_SessionActiveStatus[it] BY <2>1, <2>3, <3>1 DEF IInv, TypeOK
    <3>2. CASE ~m_SessionActiveStatus[it]
      <4>1. m_Sock' = m_Sock BY <2>1, <3>2
      <4>2. CASE q \in live BY <2>3, <3>2, <4>1, <4>2 DEF IInv, Sockets
      <4>3. CASE \E u \in Thread : Removing(u) /\ pSession[u] = q
        BY <4>1, <4>3 DEF IInv, Sockets, Removing
      <4> QED BY <1>0, <1>2, <4>2, <4>3 DEF IInv, Entries
    <3> QED BY <3>1, <3>2
  <2>5. m_Sessions'[it'] = q BY <1>0, <2>1
  <2> HIDE DEF q
  <2>6. m_Sock' \in [Slot -> {"open", "finished", "closed"}]
    BY <2>1, <2>3 DEF IInv, TypeOK
  <2>7. \A p \in Slot : m_Sock'[p] = "open" => m_Sock[p] = "open"
    BY <2>1, <2>3 DEF IInv, TypeOK
  <2>8. TypeOK' BY <1>0, <2>1, <2>2, <2>6 DEF IInv, TypeOK, Label
  <2>9. OnlyMain' BY <1>0, <2>1, <2>2 DEF IInv, OnlyMain, Iterating
  <2>10. Passed' BY <1>0, <2>1, <2>2 DEF IInv, Passed, Iterating
  <2>11. Sockets'
    <3>1. /\ live \subseteq Slot /\ RangeOf(m_FreeList) \subseteq Slot
          /\ \A u \in Thread : pSession[u] \in Slot
      BY Lists, ElemsType DEF IInv, TypeOK
    <3>2. \A p \in live' : m_Sock'[p] = "open" => m_SessionActiveStatus'[m_ID'[p]]
      BY <1>0, <2>7, <3>1 DEF IInv, Sockets
    <3>3. \A u \in Thread : Creating(u)' => m_SessionActiveStatus'[sessionID'[u]]
      BY <1>0, <2>2 DEF IInv, Sockets
    <3>4. \A u \in Thread :
            pc'[u] \in {"remove", "deallocate", "remove_all", "deallocate_all"} =>
              pSession'[u] \in late' \/ m_Sock'[pSession'[u]] # "open"
      BY <1>0, <2>1, <2>2, <2>7, <3>1 DEF IInv, Sockets
    <3>5. \A p \in RangeOf(m_FreeList') \ late' : m_Sock'[p] # "open"
      BY <1>0, <2>7, <3>1 DEF IInv, Sockets
    <3> QED BY <1>0, <2>4, <2>5, <3>2, <3>3, <3>4, <3>5 DEF Sockets
  <2> QED BY <2>2, <2>8, <2>9, <2>10, <2>11 DEF IInv
<1> QED BY <1>1, <1>2

\* The session found goes to Main, or it is gone already.
LEMMA DestroyFoundInv == ASSUME IInv, DestroyFound PROVE IInv'
<1> USE MgrAssumption
<1> DEFINE q == m_Sessions[it]
<1>0. /\ pc[Main] = "found" /\ it \in ID
      /\ UNCHANGED <<m_pFreeSessionID, m_Sessions, m_SessionActiveStatus, m_FreeList, m_ID,
                     sessionID, m_Sock, late, lost>>
  BY DEF DestroyFound, mgr, pool, IInv, OnlyMain
<1>1. CASE q \in live
  <2>1. /\ pSession' = [pSession EXCEPT ![Main] = q] /\ live' = live \ {q}
        /\ it' = it + 1 /\ pc' = [pc EXCEPT ![Main] = "remove_all"] /\ fault' = fault
    BY <1>1 DEF DestroyFound, Goto
  <2>2. /\ q \in Slot /\ m_ID[q] = it
        /\ q \in late \/ m_Sock[q] # "open"
    <3>1. q \in Slot /\ q # NULL BY <1>1 DEF IInv, TypeOK
    <3> QED BY <1>0, <3>1 DEF IInv, Entries, Sockets
  <2>3. \A p \in live' \ late : m_ID[p] >= it + 1
    <3> SUFFICES ASSUME NEW p \in live, p # q, p \notin late PROVE m_ID[p] >= it + 1
      BY <2>1
    <3>1. m_ID[p] >= it BY <1>0 DEF IInv, Passed, Iterating
    <3>2. m_ID[p] # it BY <1>1, <2>2 DEF IInv, IdsApart
    <3>3. m_ID[p] \in 1000 .. 999 + Amount /\ it \in Int BY DEF IInv, TypeOK, ID
    <3> QED BY <3>1, <3>2, <3>3
  <2> HIDE DEF q
  <2>4. it' \in 1000 .. 1000 + Amount BY <1>0, <2>1 DEF ID
  <2>5. TypeOK' BY <1>0, <2>1, <2>2, <2>4 DEF IInv, TypeOK, Iterating
  <2>6. OnlyMain' BY <1>0, <2>1 DEF IInv, TypeOK, OnlyMain, Iterating
  <2>7. IdsApart'
    BY <1>0, <1>1, <2>1 DEF IInv, TypeOK, IdsApart, Creating, Removing, Returned
  <2>8. IdsSomewhere'
    <3>1. \A u \in Thread : Creating(u) => Creating(u)'
      BY <1>0, <2>1 DEF IInv, TypeOK, Creating
    <3>2. \A u \in Thread : Removing(u) => Removing(u)' /\ Returned(u)' = Returned(u)
      BY <1>0, <2>1 DEF IInv, TypeOK, Removing, Returned
    <3>3. Removing(Main)' /\ Returned(Main)' = m_ID[q]
      BY <1>0, <2>1 DEF IInv, TypeOK, Removing, Returned
    <3> QED BY <1>0, <2>1, <3>1, <3>2, <3>3 DEF IInv, IdsSomewhere
  <2>9. SlotsOnce' BY <1>0, <1>1, <2>1 DEF IInv, TypeOK, SlotsOnce, Holding
  <2>10. SlotsSomewhere'
    <3>1. \A u \in Holding : u \in Holding' /\ pSession'[u] = pSession[u]
      BY <1>0, <2>1 DEF IInv, TypeOK, Holding
    <3>2. Main \in Holding' /\ pSession'[Main] = q BY <2>1 DEF IInv, TypeOK, Holding
    <3> QED BY <1>0, <2>1, <3>1, <3>2 DEF IInv, SlotsSomewhere
  <2>11. Constructed' /\ FreeInactive'
    BY <1>0, <2>1 DEF IInv, TypeOK, Constructed, FreeInactive
  <2>12. Entries' BY <1>0, <2>1 DEF IInv, TypeOK, Entries, Removing
  <2>13. Passed' BY <1>0, <2>1, <2>3 DEF Passed
  <2>14. Sockets'
    BY <1>0, <2>1, <2>2 DEF IInv, TypeOK, Sockets, Creating
  <2> QED
    BY <2>5, <2>6, <2>7, <2>8, <2>9, <2>10, <2>11, <2>12, <2>13, <2>14 DEF IInv
<1>2. CASE q \notin live
  <2>1. fault' = TRUE /\ UNCHANGED <<pSession, live, it, pc>> BY <1>2 DEF DestroyFound
  <2> QED
    BY <1>0, <2>1
    DEF IInv, TypeOK, OnlyMain, IdsApart, IdsSomewhere, SlotsOnce, SlotsSomewhere, Holding,
        Constructed, FreeInactive, Entries, Passed, Sockets, Creating, Removing, Returned
<1> QED BY <1>1, <1>2

LEMMA NextInv == IInv /\ [Next]_vars => IInv'
<1> SUFFICES ASSUME IInv, [Next]_vars PROVE IInv' OBVIOUS
<1>1. CASE DestroyAllSessions
  BY <1>1, BeginInv, IterateInv, DestroyFoundInv, EndInv DEF DestroyAllSessions
<1>2. ASSUME NEW t \in Thread, Step(t) PROVE IInv'
  BY <1>2, GenerateInv, AllocateInv, ConstructInv, InsertInv, RemoveInv, DeallocateInv,
     DestroyInv, SetActiveInv
  DEF Step
<1>3. CASE UNCHANGED vars
  BY <1>3
  DEF vars, mgr, pool, ghosts, IInv, TypeOK, OnlyMain, IdsApart, IdsSomewhere, SlotsOnce,
      SlotsSomewhere, Holding, Constructed, FreeInactive, Entries, Passed, Sockets,
      Creating, Removing, Returned
<1> QED BY <1>1, <1>2, <1>3 DEF Next

LEMMA InvariantHolds == Spec => []IInv
BY InitInv, NextInv, PTL DEF Spec
-----------------------------------------------------------------------------
\* Every id handed out, stored or returned has its entries in both maps, and every
\* index of the code is in its array.
THEOREM MgrTypeCorrect == Spec => []TypeOK
<1>1. IInv => TypeOK BY DEF IInv
<1> QED BY InvariantHolds, <1>1, PTL

\* A slot of the pool belongs to the free list (once), to a live session or to one
\* thread: the allocator never hands out memory somebody still uses.
THEOREM MgrSlotsOnce == Spec => []SlotsOnce
<1>1. IInv => SlotsOnce BY DEF IInv
<1> QED BY InvariantHolds, <1>1, PTL

\* m_Sessions and the sessions agree, although SessionMgr's mutex and the pool's are
\* taken one after the other and the map is read without either.
THEOREM MgrMapAgrees == Spec => []MapAgrees
<1>1. ASSUME IInv PROVE MapAgrees
  <2>1. \A t \in Thread : Removing(t) => pSession[t] \notin RangeOf(m_FreeList)
    <3>1. \A t \in Thread : Removing(t) => t \in Holding BY DEF Removing, Holding
    <3> QED BY <1>1, <3>1 DEF IInv, SlotsOnce
  <2> QED BY <1>1, <2>1 DEF IInv, SlotsOnce, Entries, MapAgrees
<1> QED BY InvariantHolds, <1>1, PTL

\* The places of an id are the parts of IdsApart and IdsSomewhere.
LEMMA OnePlace ==
  ASSUME IInv, NEW id \in ID
  PROVE  \E x : PlacesOf(id) = {x}
<1> USE MgrAssumption
<1> DEFINE F == {k \in DOMAIN m_pFreeSessionID : m_pFreeSessionID[k] = id}
           C == {t \in Thread : Creating(t) /\ sessionID[t] = id}
           S == {p \in live : m_ID[p] = id}
           R == {t \in Thread : Removing(t) /\ Returned(t) = id}
           L == lost \cap {id}
<1>1. PlacesOf(id) = {<<"free", k>> : k \in F} \cup {<<"creating", t>> : t \in C}
        \cup {<<"session", p>> : p \in S} \cup {<<"removing", t>> : t \in R}
        \cup {<<"lost", i>> : i \in L}
  BY DEF PlacesOf, Creating, Removing, Returned
<1>2. DOMAIN m_pFreeSessionID = 1 .. Len(m_pFreeSessionID)
  BY LenProperties DEF IInv, TypeOK
<1>3. /\ id \in RangeOf(m_pFreeSessionID) <=> F # {}
      /\ \A j, k \in F : j = k
  BY <1>2 DEF IInv, IdsApart, NoDuplicates, RangeOf
<1>4. /\ \A j, k \in C : j = k
      /\ \A j, k \in S : j = k
      /\ \A j, k \in R : j = k
      /\ \A j, k \in L : j = k
  BY DEF IInv, IdsApart
<1>5. \/ F # {} /\ C = {} /\ S = {} /\ R = {} /\ L = {}
      \/ F = {} /\ C # {} /\ S = {} /\ R = {} /\ L = {}
      \/ F = {} /\ C = {} /\ S # {} /\ R = {} /\ L = {}
      \/ F = {} /\ C = {} /\ S = {} /\ R # {} /\ L = {}
      \/ F = {} /\ C = {} /\ S = {} /\ R = {} /\ L # {}
  <2>1. \/ F # {} \/ C # {} \/ S # {} \/ R # {} \/ L # {}
    BY <1>3 DEF IInv, IdsSomewhere
  <2>2. F # {} => C = {} /\ S = {} /\ R = {} /\ L = {}
    BY <1>3 DEF IInv, IdsApart
  <2>3. C # {} => S = {} /\ R = {} /\ L = {} BY DEF IInv, IdsApart
  <2>4. S # {} => R = {} /\ L = {} BY DEF IInv, IdsApart
  <2>5. R # {} => L = {} BY DEF IInv, IdsApart
  <2> HIDE DEF F, C, S, R, L
  <2> QED BY <2>1, <2>2, <2>3, <2>4, <2>5
<1> HIDE DEF F, C, S, R, L
<1>6. CASE F # {} /\ C = {} /\ S = {} /\ R = {} /\ L = {}
  <2>1. PICK k \in F : TRUE BY <1>6
  <2>2. PlacesOf(id) = {<<"free", k>>} BY <1>1, <1>3, <1>6, <2>1
  <2> QED BY <2>2
<1>7. CASE F = {} /\ C # {} /\ S = {} /\ R = {} /\ L = {}
  <2>1. PICK t \in C : TRUE BY <1>7
  <2>2. PlacesOf(id) = {<<"creating", t>>} BY <1>1, <1>4, <1>7, <2>1
  <2> QED BY <2>2
<1>8. CASE F = {} /\ C = {} /\ S # {} /\ R = {} /\ L = {}
  <2>1. PICK p \in S : TRUE BY <1>8
  <2>2. PlacesOf(id) = {<<"session", p>>} BY <1>1, <1>4, <1>8, <2>1
  <2> QED BY <2>2
<1>9. CASE F = {} /\ C = {} /\ S = {} /\ R # {} /\ L = {}
  <2>1. PICK t \in R : TRUE BY <1>9
  <2>2. PlacesOf(id) = {<<"removing", t>>} BY <1>1, <1>4, <1>9, <2>1
  <2> QED BY <2>2
<1>10. CASE F = {} /\ C = {} /\ S = {} /\ R = {} /\ L # {}
  <2>1. PICK i \in L : TRUE BY <1>10
  <2>2. PlacesOf(id) = {<<"lost", i>>} BY <1>1, <1>4, <1>10, <2>1
  <2> QED BY <2>2
<1> QED BY <1>5, <1>6, <1>7, <1>8, <1>9, <1>10

\* Ids are neither duplicated nor lost, except where CreateSession finds no slot, and
\* a free id is inactive.
THEOREM MgrIdsConserved == Spec => []IdsConserved
<1>1. ASSUME IInv PROVE IdsConserved
  <2> SUFFICES ASSUME NEW id \in ID
               PROVE  /\ Cardinality(PlacesOf(id)) = 1
                      /\ id \in RangeOf(m_pFreeSessionID) => ~m_SessionActiveStatus[id]
    BY DEF IdsConserved
  <2>1. PICK x : PlacesOf(id) = {x} BY <1>1, OnePlace
  <2>2. Cardinality({x}) = 1 BY FS_Singleton
  <2>3. id \in RangeOf(m_pFreeSessionID) => ~m_SessionActiveStatus[id]
    BY <1>1 DEF IInv, FreeInactive
  <2> QED BY <2>1, <2>2, <2>3
<1> QED BY InvariantHolds, <1>1, PTL

\* With no session left and no thread at work, ids and slots are back.
LEMMA AllBack ==
  ASSUME IInv, live = {}, \A t \in Thread : pc[t] \in {"idle", "ended"}
  PROVE  /\ Len(m_pFreeSessionID) = Amount - Cardinality(lost)
         /\ Len(m_FreeList) = Amount
         /\ \A i \in ID : m_Sessions[i] = NULL
<1> USE MgrAssumption
<1>1. \A t \in Thread : ~Creating(t) /\ ~Removing(t) /\ t \notin Holding
  BY DEF Creating, Removing, Holding
<1>2. /\ m_pFreeSessionID \in Seq(ID) /\ Distinct(m_pFreeSessionID)
      /\ m_FreeList \in Seq(Slot) /\ Distinct(m_FreeList)
  BY Lists DEF IInv, TypeOK, IdsApart, SlotsOnce
<1>3. Elems(m_pFreeSessionID) = ID \ lost
  <2>1. RangeOf(m_pFreeSessionID) \subseteq ID BY <1>2, Lists, ElemsType
  <2>2. ID \ lost \subseteq RangeOf(m_pFreeSessionID)
    BY <1>1 DEF IInv, IdsSomewhere
  <2> QED BY <2>1, <2>2, Lists DEF IInv, IdsApart
<1>4. Elems(m_FreeList) = Slot
  <2>1. Slot \subseteq RangeOf(m_FreeList) BY <1>1 DEF IInv, SlotsSomewhere, Holding
  <2>2. Elems(m_FreeList) \subseteq Slot BY <1>2, ElemsType
  <2> QED BY <2>1, <2>2, Lists
<1>5. IsFiniteSet(ID) /\ Cardinality(ID) = Amount BY IdCount
<1>6. IsFiniteSet(Slot) /\ Cardinality(Slot) = Amount BY FS_Interval DEF Slot
<1>7. /\ IsFiniteSet(lost) /\ Cardinality(ID \ lost) = Amount - Cardinality(lost)
  <2>1. lost \in SUBSET ID /\ ID \cap lost = lost BY DEF IInv, TypeOK
  <2> QED BY <1>5, <2>1, FS_Subset, FS_Difference
<1>8. \A i \in ID : m_Sessions[i] = NULL BY <1>1 DEF IInv, Entries
<1> QED BY <1>2, <1>3, <1>4, <1>6, <1>7, <1>8, DistinctLen

\* What DestroyAllSessions does although other threads go on creating and destroying.
THEOREM MgrAllGivenBack == Spec => []AllGivenBack
<1>1. ASSUME IInv PROVE AllGivenBack
  <2> USE MgrAssumption
  <2>1. ASSUME pc[Main] = "ended" PROVE live \subseteq late
    <3>1. it \notin ID /\ it \in 1000 .. 1000 + Amount
      BY <1>1, <2>1 DEF IInv, TypeOK, OnlyMain
    <3>2. \A p \in live : m_ID[p] \in 1000 .. 999 + Amount /\ m_ID[p] < it
      BY <1>1, <3>1 DEF IInv, TypeOK, ID
    <3>3. \A p \in live \ late : m_ID[p] >= it
      BY <1>1, <2>1 DEF IInv, Passed, Iterating
    <3>4. it \in Int BY <3>1
    <3> QED BY <3>2, <3>3, <3>4
  <2>2. ASSUME pc[Main] = "ended", late = {}, \A t \in Thread \ {Main} : pc[t] = "idle"
        PROVE  /\ Len(m_pFreeSessionID) = Amount - Cardinality(lost)
               /\ Len(m_FreeList) = Amount
               /\ \A i \in ID : m_Sessions[i] = NULL
    <3>1. live = {} BY <2>1, <2>2
    <3>2. \A t \in Thread : pc[t] \in {"idle", "ended"} BY <2>2
    <3> QED BY <1>1, <3>1, <3>2, AllBack
  <2>3. \A p \in RangeOf(m_FreeList) \ late : m_Sock[p] # "open"
    BY <1>1 DEF IInv, Sockets
  <2> QED BY <2>1, <2>2, <2>3 DEF AllGivenBack
<1> QED BY InvariantHolds, <1>1, PTL
=============================================================================
