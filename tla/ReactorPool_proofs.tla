------------------------- MODULE ReactorPool_proofs -------------------------
(***************************************************************************)
(* Proofs about ReactorPool, for any number of event loops, descriptors    *)
(* and connections of a loop.                                              *)
(***************************************************************************)
EXTENDS ReactorPool, DistinctLists

-----------------------------------------------------------------------------
(* The inductive invariant.                                                *)

Full(l) == m_CurrentConnNum(l) = MAX_OPEN_FD

Closing == {"lockToFind", "find", "pushIdle", "lockToIdle", "eraseBusy", "unlockAgain",
            "delete"}

(* What the local variable of a loop is at each step.  A loop is started   *)
(* by the one that created it only.                                        *)
LocalInv ==
    \A l \in Loops :
        /\ lpc[l] \in Closing => local[l] \in connectQueue[l]
        /\ lpc[l] = "start" =>
              /\ local[l] \in m_ThreadList /\ lpc[local[l]] = "new"
              /\ \A k \in Loops : lpc[k] = "start" /\ local[k] = local[l] => k = l
        /\ lpc[l] \notin Closing \cup {"start"} => local[l] = NoFd

(* A descriptor in use belongs to one loop, which it is on its way to or   *)
(* which has its connection.                                               *)
OpenAt(l) == (connectQueue[l] \ {local[l]}) \cup ToSet(pipe[l])

FdInv ==
    /\ \A l \in Loops :
          /\ IsInjective(pipe[l])
          /\ ToSet(pipe[l]) \cap (connectQueue[l] \ {local[l]}) = {}
          /\ \A k \in Loops \ {l} : OpenAt(l) \cap OpenAt(k) = {}
    /\ connfd # NoFd => \A l \in Loops : connfd \notin OpenAt(l)

(* The entries of a loop in the two lists, at each of its steps.           *)
Settled == {"new", "dispatch", "ended", "testSize", "testFirst", "create", "start",
            "lockToFind", "find"}

Entries(l) ==
    /\ lpc[l] \in Settled =>
          IF Full(l) THEN l \notin Idle /\ m_BusyList[l] = 1
          ELSE l \in Idle /\ m_BusyList[l] = 0
    /\ lpc[l] \in {"lockToBusy", "pushBusy"} => Full(l) /\ l \in Idle /\ m_BusyList[l] = 0
    /\ lpc[l] = "eraseIdle" => Full(l) /\ l \in Idle /\ m_BusyList[l] = 1
    /\ lpc[l] = "pushIdle" => Full(l) /\ l \notin Idle /\ m_BusyList[l] = 1
    /\ lpc[l] \in {"lockToIdle", "eraseBusy"} => Full(l) /\ l \in Idle /\ m_BusyList[l] = 1
    /\ lpc[l] = "unlockAgain" => Full(l) /\ l \in Idle /\ m_BusyList[l] = 0
    /\ lpc[l] = "delete" => l \in Idle /\ m_BusyList[l] = 0

ListInv ==
    /\ IsInjective(m_IdleList)
    /\ \A l \in Loops :
          /\ l \in m_ThreadList <=> lpc[l] # "none"
          /\ lpc[l] = "none" => l \notin Idle /\ m_BusyList[l] = 0
          /\ lpc[l] \in {"none", "new"} => connectQueue[l] = {}
          /\ m_CurrentConnNum(l) <= MAX_OPEN_FD
          /\ Entries(l)

(* The index of the acceptor was one of the list, which held no more loops *)
(* than there are now.                                                     *)
IndexInv ==
    m_ThreadList # {} =>
        /\ idle_thread_count < Cardinality(m_ThreadList)
        /\ index < Cardinality(m_ThreadList)

(* No loop comes to its last connections before the history says so.       *)
CrowdedInv ==
    \A l \in Loops :
        m_CurrentConnNum(l) + 1 >= MAX_OPEN_FD \/ lpc[l] = "create" => crowded

LoopInv == TypeOK /\ LocalInv /\ FdInv /\ ListInv /\ IndexInv /\ CrowdedInv

-----------------------------------------------------------------------------
(* Facts that the steps share.                                             *)

(* A connection more or less in a queue.                                   *)
LEMMA QueueSize ==
    ASSUME TypeOK, NEW l \in Loops
    PROVE  /\ IsFiniteSet(connectQueue[l])
           /\ m_CurrentConnNum(l) \in Nat
           /\ \A fd \in Fds \ connectQueue[l] :
                 Cardinality(connectQueue[l] \cup {fd}) = m_CurrentConnNum(l) + 1
           /\ \A fd \in connectQueue[l] :
                 Cardinality(connectQueue[l] \ {fd}) = m_CurrentConnNum(l) - 1
<1>1. connectQueue[l] \subseteq Fds
  BY DEF TypeOK
<1>2. IsFiniteSet(connectQueue[l])
  BY <1>1, FdsAssumption, FS_Subset
<1> QED BY <1>1, <1>2, FS_CardinalityType, FS_AddElement, FS_RemoveElement
        DEF m_CurrentConnNum

(* A loop that is not in m_IdleList is full.                               *)
LEMMA UnlistedIsFull ==
    ASSUME ListInv, TypeOK, NEW l \in m_ThreadList, l \notin Idle
    PROVE  Full(l)
BY DEF ListInv, TypeOK, Entries, Settled, LoopSteps

(* A step of loop l leaves the others where they are.                      *)
LEMMA Goes ==
    ASSUME TypeOK, NEW l \in Loops, NEW s \in LoopSteps, Goto(l, s)
    PROVE  /\ lpc' \in [Loops -> LoopSteps]
           /\ lpc'[l] = s
           /\ \A k \in Loops \ {l} : lpc'[k] = lpc[k]
BY DEF TypeOK, Goto

(* The head of a list without repetition is not in the tail.               *)
LEMMA TailOfDistinct ==
    ASSUME NEW S, NEW s \in Seq(S), IsInjective(s), s # <<>>
    PROVE  /\ Head(s) \in S /\ Head(s) \in ToSet(s)
           /\ Tail(s) \in Seq(S) /\ IsInjective(Tail(s))
           /\ ToSet(Tail(s)) = ToSet(s) \ {Head(s)}
<1>1. /\ Len(s) \in Nat \ {0} /\ DOMAIN s = 1..Len(s)
      /\ Head(s) = s[1] /\ s \in [1..Len(s) -> S]
  OBVIOUS
<1>2. /\ Tail(s) \in Seq(S) /\ Len(Tail(s)) = Len(s) - 1
      /\ DOMAIN Tail(s) = 1..(Len(s) - 1)
      /\ \A i \in 1..(Len(s) - 1) : Tail(s)[i] = s[i + 1]
  BY <1>1
<1>3. Head(s) \in S /\ Head(s) \in ToSet(s)
  BY <1>1 DEF ToSet
<1>4. IsInjective(Tail(s))
  BY <1>1, <1>2 DEF IsInjective
<1>5. \A i \in 2..Len(s) : s[i] # s[1] /\ s[i] = Tail(s)[i - 1]
  BY <1>1, <1>2 DEF IsInjective
<1>6. ToSet(Tail(s)) = ToSet(s) \ {Head(s)}
  <2>1. ToSet(Tail(s)) \subseteq ToSet(s) \ {Head(s)}
    BY <1>1, <1>2, <1>5 DEF ToSet
  <2>2. ASSUME NEW e \in ToSet(s) \ {Head(s)} PROVE e \in ToSet(Tail(s))
    <3>1. PICK i \in 2..Len(s) : s[i] = e
      BY <1>1 DEF ToSet
    <3>2. i - 1 \in 1..(Len(s) - 1)
      BY <1>1
    <3> QED BY <3>1, <3>2, <1>2, <1>5 DEF ToSet
  <2> QED BY <2>1, <2>2
<1> QED BY <1>2, <1>3, <1>4, <1>6

-----------------------------------------------------------------------------
(* The invariant holds initially.                                          *)
LEMMA LoopInit == Init => LoopInv
<1> SUFFICES ASSUME Init PROVE LoopInv
  OBVIOUS
<1>1. /\ m_IdleList \in Seq(Loops) /\ IsInjective(m_IdleList)
      /\ Idle \subseteq Loops /\ m_ThreadList = Idle
  BY NumbersAssumption DEF Init, Idle, ToSet
<1>2. IsFiniteSet(m_ThreadList) /\ (m_ThreadList # {} => Cardinality(m_ThreadList) > 0)
  BY <1>1, LoopsAssumption, FS_Subset, FS_EmptySet, FS_CardinalityType
<1>3. /\ lpc \in [Loops -> {"none", "new", "dispatch"}]
      /\ \A l \in Loops : l \in m_ThreadList <=> lpc[l] # "none"
  BY DEF Init
<1>4. \A l \in Loops : connectQueue[l] = {} /\ m_CurrentConnNum(l) = 0 /\ ~Full(l)
  BY FS_EmptySet, NumbersAssumption DEF Init, m_CurrentConnNum, Full
<1>5. TypeOK
  BY <1>1, <1>3, NumbersAssumption DEF Init, TypeOK, LoopSteps
<1>6. LocalInv
  BY <1>3 DEF Init, LocalInv, Closing
<1>7. FdInv
  BY DEF Init, FdInv, OpenAt, ToSet, IsInjective
<1>8. ListInv
  <2>1. \A l \in Loops : Entries(l)
    BY <1>1, <1>3, <1>4 DEF Init, Entries, Settled
  <2> QED BY <2>1, <1>1, <1>3, <1>4, NumbersAssumption DEF Init, ListInv
<1>9. IndexInv
  BY <1>2 DEF Init, IndexInv
<1>10. CrowdedInv
  BY <1>3, <1>4, NumbersAssumption DEF Init, CrowdedInv
<1> QED BY <1>5, <1>6, <1>7, <1>8, <1>9, <1>10 DEF LoopInv

-----------------------------------------------------------------------------
(* The types.                                                              *)
LEMMA TypeStep == TypeOK /\ LocalInv /\ ListInv /\ FdInv /\ [Next]_vars => TypeOK'
<1> SUFFICES ASSUME TypeOK, LocalInv, ListInv, FdInv, [Next]_vars PROVE TypeOK'
  OBVIOUS
<1>1. CASE UNCHANGED vars
  BY <1>1 DEF vars, lists, acceptor, TypeOK
<1>2. ASSUME NEW fd \in Fds, ListenerEventCb(fd) PROVE TypeOK'
  <2>1. m_IdleList # <<>> => (idle_thread_count + 1) % Len(m_IdleList) \in Nat
    <3>1. m_IdleList # <<>> => Len(m_IdleList) \in Nat \ {0}
      BY DEF TypeOK
    <3> QED BY <3>1 DEF TypeOK
  <2> QED BY <1>2, <2>1 DEF TypeOK, ListenerEventCb, lists, acceptor
<1>3. CASE SendFd
  <2>1. \A l \in Loops : connfd # NoFd => Append(pipe[l], connfd) \in Seq(Fds)
    BY DEF TypeOK
  <2>2. pipe' \in [Loops -> Seq(Fds)] /\ index' \in Nat /\ connfd' \in Fds \cup {NoFd}
    <3>1. CASE \E l \in m_ThreadList : pipe' = [pipe EXCEPT ![l] = Append(@, connfd)]
      BY <1>3, <2>1, <3>1 DEF TypeOK, SendFd
    <3> QED BY <1>3, <3>1 DEF TypeOK, SendFd
  <2> QED BY <1>3, <2>2 DEF TypeOK, SendFd, lists
<1>4. ASSUME NEW l \in Loops, ThreadProcess(l) \/ LoopBreak(l) PROVE TypeOK'
  <2>1. pipe[l] # <<>> => Tail(pipe[l]) \in Seq(Fds) /\ Head(pipe[l]) \in Fds
    BY DEF TypeOK
  <2>2. /\ pipe' \in [Loops -> Seq(Fds)]
        /\ connectQueue' \in [Loops -> SUBSET Fds]
        /\ alive' \in BOOLEAN /\ crowded' \in BOOLEAN
    <3>1. CASE LoopBreak(l)
      BY <3>1, <2>1 DEF TypeOK, LoopBreak
    <3>2. CASE /\ ThreadProcess(l)
               /\ connectQueue' = [connectQueue EXCEPT ![l] = @ \cup {Head(pipe[l])}]
               /\ crowded' = (crowded \/ MAX_OPEN_FD <= m_CurrentConnNum(l) + 2)
               /\ UNCHANGED alive
      BY <3>2, <2>1 DEF TypeOK, ThreadProcess
    <3>3. CASE ThreadProcess(l) /\ UNCHANGED <<connectQueue, crowded>> /\ alive' = FALSE
      BY <3>3, <2>1 DEF TypeOK, ThreadProcess
    <3> QED BY <1>4, <3>1, <3>2, <3>3 DEF ThreadProcess
  <2>3. lpc' \in [Loops -> LoopSteps]
    <3>1. \A b \in BOOLEAN : (IF b THEN "lockToBusy" ELSE "testSize") \in LoopSteps
      BY DEF LoopSteps
    <3>2. (MAX_OPEN_FD < m_CurrentConnNum(l) + 2) \in BOOLEAN
      OBVIOUS
    <3>3. "ended" \in LoopSteps
      BY DEF LoopSteps
    <3> QED BY <1>4, <3>1, <3>2, <3>3, Goes DEF ThreadProcess, LoopBreak, TypeOK
  <2> QED BY <1>4, <2>2, <2>3 DEF TypeOK, ThreadProcess, LoopBreak, lists, acceptor
<1>5. ASSUME NEW l \in Loops, LockBusy(l) PROVE TypeOK'
  BY <1>5 DEF TypeOK, LockBusy, Goto, LoopSteps, lists, acceptor
<1>6. ASSUME NEW l \in Loops, NEW fd \in Fds, CloseEventCb(l, fd) PROVE TypeOK'
  BY <1>6 DEF TypeOK, CloseEventCb, Goto, LoopSteps, lists, acceptor
<1>7. ASSUME NEW l \in Loops,
             PushBusy(l) \/ TestSize(l) \/ TestFirst(l) \/ CheckIfInBusyList(l)
               \/ EraseBusy(l) \/ UnlockAgain(l)
      PROVE  TypeOK'
  <2>1. CASE PushBusy(l) \/ EraseBusy(l) \/ UnlockAgain(l)
    <3>1. m_BusyList' \in [Loops -> Nat] /\ m_BusyMutex' = NoThread
      BY <2>1 DEF TypeOK, PushBusy, EraseBusy, UnlockAgain, lists
    <3>2. lpc' \in [Loops -> LoopSteps]
      BY <2>1, Goes DEF PushBusy, EraseBusy, UnlockAgain, LoopSteps
    <3> QED BY <2>1, <3>1, <3>2
            DEF TypeOK, PushBusy, EraseBusy, UnlockAgain, lists, acceptor
  <2>2. CASE TestSize(l) \/ TestFirst(l) \/ CheckIfInBusyList(l)
    <3>1. \E s \in LoopSteps : Goto(l, s)
      BY <2>2 DEF TestSize, TestFirst, CheckIfInBusyList, LoopSteps
    <3>2. lpc' \in [Loops -> LoopSteps]
      BY <3>1, Goes
    <3> QED BY <2>2, <3>2 DEF TypeOK, TestSize, TestFirst, CheckIfInBusyList, lists, acceptor
  <2> QED BY <1>7, <2>1, <2>2
<1>8. ASSUME NEW l \in Loops, EraseIdle(l) PROVE TypeOK'
  <2>1. RemoveFirst(m_IdleList, l) \in Seq(Loops)
    BY RemoveFirstOfDistinct DEF TypeOK, ListInv
  <2> QED BY <1>8, <2>1 DEF TypeOK, EraseIdle, Goto, LoopSteps, acceptor
<1>9. ASSUME NEW l \in Loops, CreateMainIdleThread(l) PROVE TypeOK'
  <2>1. \A new \in Loops : Append(m_IdleList, new) \in Seq(Loops)
    BY DEF TypeOK
  <2>2. /\ m_IdleList' \in Seq(Loops) /\ m_ThreadList' \subseteq Loops
        /\ local' \in [Loops -> Fds \cup Loops \cup {NoFd}]
        /\ lpc' \in [Loops -> LoopSteps]
    <3>1. CASE UNCHANGED <<m_IdleList, m_ThreadList, local>>
                 /\ (Goto(l, "dispatch") \/ UNCHANGED lpc)
      BY <3>1, Goes DEF TypeOK, LoopSteps
    <3>2. ASSUME NEW new \in Unused,
                 m_IdleList' = Append(m_IdleList, new),
                 m_ThreadList' = m_ThreadList \cup {new},
                 local' = [local EXCEPT ![l] = new],
                 lpc' = [lpc EXCEPT ![l] = "start", ![new] = "new"]
          PROVE  /\ m_IdleList' \in Seq(Loops) /\ m_ThreadList' \subseteq Loops
                 /\ local' \in [Loops -> Fds \cup Loops \cup {NoFd}]
                 /\ lpc' \in [Loops -> LoopSteps]
      <4>1. new \in Loops
        BY DEF Unused
      <4>2. lpc' \in [Loops -> LoopSteps]
        BY <3>2, <4>1 DEF TypeOK, LoopSteps
      <4> QED BY <3>2, <4>1, <4>2, <2>1 DEF TypeOK
    <3> QED BY <1>9, <3>1, <3>2 DEF CreateMainIdleThread
  <2> QED BY <1>9, <2>2 DEF TypeOK, CreateMainIdleThread, acceptor
<1>10. ASSUME NEW l \in Loops, Start(l) PROVE TypeOK'
  BY <1>10 DEF TypeOK, Start, Goto, LoopSteps, lists, acceptor
<1>11. ASSUME NEW l \in Loops, PushIdle(l) PROVE TypeOK'
  <2>1. Append(m_IdleList, l) \in Seq(Loops)
    BY DEF TypeOK
  <2> QED BY <1>11, <2>1 DEF TypeOK, PushIdle, Goto, LoopSteps, acceptor
<1>12. ASSUME NEW l \in Loops, DeleteConn(l) PROVE TypeOK'
  BY <1>12 DEF TypeOK, DeleteConn, Goto, LoopSteps, lists, acceptor
<1>13. CASE DataRace
  BY <1>13 DEF TypeOK, DataRace, lists, acceptor
<1> QED BY <1>1, <1>2, <1>3, <1>4, <1>5, <1>6, <1>7, <1>8, <1>9, <1>10, <1>11, <1>12,
           <1>13 DEF Next, CallbackStep

-----------------------------------------------------------------------------
(* The local variables of the loops.                                       *)

(* A step that leaves them.                                                *)
LEMMA LocalMove ==
    ASSUME TypeOK, LocalInv, NEW l \in Loops, NEW s \in LoopSteps, Goto(l, s),
           lpc[l] \notin {"start", "new"}, s # "start", lpc[l] \in Closing <=> s \in Closing,
           UNCHANGED <<m_ThreadList, local>>,
           \A k \in Loops : connectQueue[k] \subseteq connectQueue'[k]
    PROVE  LocalInv'
<1>1. /\ lpc'[l] = s
      /\ \A k \in Loops \ {l} : lpc'[k] = lpc[k]
  BY Goes
<1>2. \A k \in Loops : /\ lpc'[k] \in Closing <=> lpc[k] \in Closing
                       /\ lpc'[k] = "start" <=> lpc[k] = "start" /\ k # l
                       /\ lpc[k] = "new" => lpc'[k] = "new"
  BY <1>1
<1>3. ASSUME NEW k \in Loops, lpc'[k] = "start"
      PROVE  /\ local'[k] \in m_ThreadList' /\ lpc'[local'[k]] = "new"
             /\ \A j \in Loops : lpc'[j] = "start" /\ local'[j] = local'[k] => j = k
  BY <1>2, <1>3 DEF LocalInv, TypeOK
<1> QED BY <1>2, <1>3 DEF LocalInv

(* Every step.                                                             *)
LEMMA LocalStep == TypeOK /\ ListInv /\ LocalInv /\ [Next]_vars => LocalInv'
<1> SUFFICES ASSUME TypeOK, ListInv, LocalInv, [Next]_vars PROVE LocalInv'
  OBVIOUS
<1>1. CASE UNCHANGED <<m_ThreadList, connectQueue, lpc, local>>
  BY <1>1 DEF LocalInv
<1>2. ASSUME NEW l \in Loops, ThreadProcess(l) \/ LoopBreak(l) PROVE LocalInv'
  <2>1. CASE UNCHANGED <<connectQueue, lpc>>
    BY <1>1, <1>2, <2>1 DEF ThreadProcess, LoopBreak, lists
  <2>2. CASE ~UNCHANGED <<connectQueue, lpc>>
    <3>1. PICK s \in {"lockToBusy", "testSize", "ended"} : Goto(l, s)
      BY <1>2, <2>2 DEF ThreadProcess, LoopBreak
    <3>2. \A k \in Loops : connectQueue[k] \subseteq connectQueue'[k]
      BY <1>2 DEF TypeOK, ThreadProcess, LoopBreak
    <3> QED BY <1>2, <3>1, <3>2, LocalMove
            DEF ThreadProcess, LoopBreak, Closing, LoopSteps, lists
  <2> QED BY <2>1, <2>2
<1>3. ASSUME NEW l \in Loops, LockBusy(l) PROVE LocalInv'
  BY <1>3, LocalMove DEF LockBusy, Closing, LoopSteps, lists
<1>4. ASSUME NEW l \in Loops, NEW fd \in Fds, CloseEventCb(l, fd) PROVE LocalInv'
  BY <1>4 DEF TypeOK, LocalInv, Closing, CloseEventCb, Goto, lists
<1>5. ASSUME NEW l \in Loops,
             PushBusy(l) \/ EraseIdle(l) \/ TestSize(l) \/ TestFirst(l)
               \/ CheckIfInBusyList(l) \/ PushIdle(l) \/ EraseBusy(l) \/ UnlockAgain(l)
      PROVE  LocalInv'
  <2>1. CASE PushBusy(l) \/ EraseIdle(l) \/ PushIdle(l) \/ EraseBusy(l) \/ UnlockAgain(l)
    BY <2>1, LocalMove
       DEF PushBusy, EraseIdle, PushIdle, EraseBusy, UnlockAgain, Closing, LoopSteps, lists
  <2>2. CASE TestSize(l) \/ TestFirst(l)
    <3>1. PICK s \in {"testFirst", "create", "dispatch"} : Goto(l, s)
      BY <2>2 DEF TestSize, TestFirst
    <3> QED BY <2>2, <3>1, LocalMove DEF TestSize, TestFirst, Closing, LoopSteps, lists
  <2>3. CASE CheckIfInBusyList(l)
    <3>1. PICK s \in {"pushIdle", "delete"} : Goto(l, s)
      BY <2>3 DEF CheckIfInBusyList
    <3> QED BY <2>3, <3>1, LocalMove DEF CheckIfInBusyList, Closing, LoopSteps, lists
  <2> QED BY <1>5, <2>1, <2>2, <2>3
<1>6. ASSUME NEW l \in Loops, CreateMainIdleThread(l) PROVE LocalInv'
  <2>1. CASE UNCHANGED <<m_IdleList, m_ThreadList, local>> /\ Goto(l, "dispatch")
    <3>1. /\ lpc[l] = "create" /\ lpc'[l] = "dispatch"
          /\ \A k \in Loops \ {l} : lpc'[k] = lpc[k]
          /\ UNCHANGED <<connectQueue, m_ThreadList, local>>
      BY <1>6, <2>1, Goes DEF CreateMainIdleThread, LoopSteps
    <3>2. \A k \in Loops : local[k] \in Loops /\ lpc[local[k]] = "new" => local[k] # l
      BY <3>1
    <3> QED BY <3>1, <3>2 DEF TypeOK, LocalInv, Closing
  <2>2. ASSUME NEW new \in Unused,
               m_ThreadList' = m_ThreadList \cup {new},
               local' = [local EXCEPT ![l] = new],
               lpc' = [lpc EXCEPT ![l] = "start", ![new] = "new"]
        PROVE  LocalInv'
    <3>1. new \in Loops /\ lpc[new] = "none" /\ lpc[l] = "create" /\ new # l
          /\ connectQueue' = connectQueue
      BY <1>6, <2>2 DEF CreateMainIdleThread, Unused
    <3>2. \A k \in Loops : lpc[k] = "start" => local[k] # new
      BY <3>1 DEF LocalInv
    <3> QED BY <2>2, <3>1, <3>2 DEF TypeOK, LocalInv, Closing
  <2>3. CASE UNCHANGED <<m_IdleList, m_ThreadList, lpc, local>>
    BY <1>1, <1>6, <2>3 DEF CreateMainIdleThread
  <2> QED BY <1>6, <2>1, <2>2, <2>3 DEF CreateMainIdleThread
<1>7. ASSUME NEW l \in Loops, Start(l) PROVE LocalInv'
  BY <1>7 DEF TypeOK, LocalInv, Closing, Start, Goto, lists
<1>8. ASSUME NEW l \in Loops, DeleteConn(l) PROVE LocalInv'
  BY <1>8 DEF TypeOK, LocalInv, Closing, DeleteConn, Goto, lists
<1> QED BY <1>1, <1>2, <1>3, <1>4, <1>5, <1>6, <1>7, <1>8
        DEF Next, CallbackStep, ListenerEventCb, SendFd, DataRace, vars, lists

-----------------------------------------------------------------------------
(* The descriptors.                                                        *)
LEMMA FdStep == TypeOK /\ LocalInv /\ ListInv /\ FdInv /\ [Next]_vars => FdInv'
<1> SUFFICES ASSUME TypeOK, LocalInv, ListInv, FdInv, [Next]_vars PROVE FdInv'
  OBVIOUS
<1> USE DEF OpenAt
<1>1. CASE UNCHANGED <<connfd, pipe, connectQueue, local>>
  BY <1>1 DEF FdInv
<1>2. ASSUME NEW fd \in Fds, ListenerEventCb(fd) PROVE FdInv'
  <2>1. \A l \in Loops : fd \notin OpenAt(l)
    BY <1>2 DEF ListenerEventCb, Open
  <2> QED BY <1>2, <2>1 DEF FdInv, ListenerEventCb, acceptor
<1>3. CASE SendFd
  <2>1. CASE UNCHANGED <<pipe, connfd>>
    BY <1>1, <1>3, <2>1 DEF SendFd
  <2>2. CASE ~UNCHANGED <<pipe, connfd>>
    <3>1. PICK l \in m_ThreadList : pipe' = [pipe EXCEPT ![l] = Append(@, connfd)]
      BY <1>3, <2>2 DEF SendFd
    <3>2. l \in Loops /\ connfd \in Fds /\ connfd' = NoFd /\ UNCHANGED <<connectQueue, local>>
      BY <1>3, <2>2 DEF TypeOK, SendFd
    <3>3. /\ connfd \notin ToSet(pipe[l])
          /\ connfd \notin connectQueue[l] \ {local[l]}
      BY <3>2, FdsAssumption DEF FdInv
    <3>4. /\ IsInjective(Append(pipe[l], connfd))
          /\ ToSet(Append(pipe[l], connfd)) = ToSet(pipe[l]) \cup {connfd}
      BY <3>2, <3>3, AppendFresh DEF TypeOK, FdInv
    <3>5. pipe'[l] = Append(pipe[l], connfd) /\ \A k \in Loops \ {l} : pipe'[k] = pipe[k]
      BY <3>1, <3>2 DEF TypeOK
    <3>6. /\ IsInjective(pipe'[l])
          /\ ToSet(pipe'[l]) \cap (connectQueue'[l] \ {local'[l]}) = {}
      BY <3>2, <3>3, <3>4, <3>5 DEF FdInv
    <3>7. \A k \in Loops \ {l} :
              /\ IsInjective(pipe'[k])
              /\ ToSet(pipe'[k]) \cap (connectQueue'[k] \ {local'[k]}) = {}
      BY <3>2, <3>5 DEF FdInv
    <3>8. /\ OpenAt(l)' = OpenAt(l) \cup {connfd}
          /\ \A k \in Loops \ {l} : OpenAt(k)' = OpenAt(k) /\ connfd \notin OpenAt(k)
      BY <3>2, <3>4, <3>5, FdsAssumption DEF FdInv
    <3>9. \A i \in Loops : \A k \in Loops \ {i} : OpenAt(i)' \cap OpenAt(k)' = {}
      BY <3>8 DEF FdInv
    <3> QED BY <3>2, <3>6, <3>7, <3>9 DEF FdInv
  <2> QED BY <2>1, <2>2
<1>4. ASSUME NEW l \in Loops, ThreadProcess(l) \/ LoopBreak(l) PROVE FdInv'
  <2>1. /\ Head(pipe[l]) \in ToSet(pipe[l])
        /\ IsInjective(Tail(pipe[l]))
        /\ ToSet(Tail(pipe[l])) = ToSet(pipe[l]) \ {Head(pipe[l])}
    BY <1>4, TailOfDistinct DEF TypeOK, FdInv, ThreadProcess, LoopBreak
  <2>2. /\ pipe'[l] = Tail(pipe[l])
        /\ \A k \in Loops \ {l} : pipe'[k] = pipe[k]
        /\ UNCHANGED <<connfd, local>>
    BY <1>4 DEF TypeOK, ThreadProcess, LoopBreak, acceptor
  <2>3. /\ connectQueue'[l] \in {connectQueue[l], connectQueue[l] \cup {Head(pipe[l])}}
        /\ \A k \in Loops \ {l} : connectQueue'[k] = connectQueue[k]
    BY <1>4 DEF TypeOK, ThreadProcess, LoopBreak
  <2>4. \A k \in Loops \ {l} :
            /\ IsInjective(pipe'[k])
            /\ ToSet(pipe'[k]) \cap (connectQueue'[k] \ {local'[k]}) = {}
    BY <2>2, <2>3 DEF FdInv
  <2>5. /\ IsInjective(pipe'[l])
        /\ ToSet(pipe'[l]) \cap (connectQueue'[l] \ {local'[l]}) = {}
    BY <2>1, <2>2, <2>3 DEF FdInv
  <2>6. \A k \in Loops : OpenAt(k)' \subseteq OpenAt(k)
    BY <2>1, <2>2, <2>3
  <2> QED BY <2>2, <2>4, <2>5, <2>6 DEF FdInv
<1>5. ASSUME NEW l \in Loops, UNCHANGED <<connfd, pipe>>,
             \A k \in Loops : connectQueue'[k] \ {local'[k]} \subseteq connectQueue[k] \ {local[k]}
      PROVE  FdInv'
  BY <1>5 DEF FdInv
<1>6. ASSUME NEW l \in Loops, NEW fd \in Fds, CloseEventCb(l, fd) PROVE FdInv'
  <2>1. local[l] = NoFd
    BY <1>6 DEF LocalInv, Closing, CloseEventCb
  <2> QED BY <1>5, <1>6, <2>1, FdsAssumption DEF TypeOK, CloseEventCb, acceptor
<1>7. ASSUME NEW l \in Loops, CreateMainIdleThread(l) PROVE FdInv'
  <2>1. local[l] = NoFd
    BY <1>7 DEF LocalInv, Closing, CreateMainIdleThread
  <2> QED BY <1>5, <1>7, <2>1, FdsAssumption DEF TypeOK, CreateMainIdleThread, Unused, acceptor
<1>8. ASSUME NEW l \in Loops, Start(l) PROVE FdInv'
  <2>1. local[l] \in Loops
    BY <1>8 DEF LocalInv, Start, TypeOK
  <2> QED BY <1>5, <1>8, <2>1, FdsAssumption DEF TypeOK, Start, acceptor
<1>9. ASSUME NEW l \in Loops, DeleteConn(l) PROVE FdInv'
  BY <1>5, <1>9, FdsAssumption DEF TypeOK, DeleteConn, acceptor
<1> QED BY <1>1, <1>2, <1>3, <1>4, <1>6, <1>7, <1>8, <1>9
        DEF Next, CallbackStep, LockBusy, PushBusy, EraseIdle, TestSize, TestFirst,
            CheckIfInBusyList, PushIdle, EraseBusy, UnlockAgain, DataRace, vars, acceptor

-----------------------------------------------------------------------------
(* The lists.                                                              *)

(* What ListInv says of one loop.                                          *)
Listed(l) ==
    /\ l \in m_ThreadList <=> lpc[l] # "none"
    /\ lpc[l] = "none" => l \notin Idle /\ m_BusyList[l] = 0
    /\ lpc[l] \in {"none", "new"} => connectQueue[l] = {}
    /\ m_CurrentConnNum(l) <= MAX_OPEN_FD
    /\ Entries(l)

(* A step of loop l that changes nothing of another one.                   *)
LEMMA OthersListed ==
    ASSUME ListInv, NEW l \in Loops, IsInjective(m_IdleList)', Listed(l)',
           \A k \in Loops \ {l} :
               /\ lpc'[k] = lpc[k] /\ connectQueue'[k] = connectQueue[k]
               /\ m_BusyList'[k] = m_BusyList[k]
               /\ k \in m_ThreadList' <=> k \in m_ThreadList
               /\ k \in Idle' <=> k \in Idle
    PROVE  ListInv'
<1>1. \A k \in Loops \ {l} : Listed(k)'
  BY DEF ListInv, Listed, Entries, Full, m_CurrentConnNum
<1>2. \A k \in Loops : Listed(k)'
  BY <1>1
<1> QED BY <1>2 DEF ListInv, Listed

(* Every step.                                                             *)
LEMMA ListStep == TypeOK /\ LocalInv /\ FdInv /\ ListInv /\ [Next]_vars => ListInv'
<1> SUFFICES ASSUME TypeOK, LocalInv, FdInv, ListInv, [Next]_vars PROVE ListInv'
  OBVIOUS
<1>0. \A l \in Loops : Listed(l) /\ m_CurrentConnNum(l) \in Nat /\ lpc[l] \in LoopSteps
  BY QueueSize DEF ListInv, Listed, TypeOK
<1>1. CASE UNCHANGED <<lists, connectQueue, lpc>>
  BY <1>1 DEF ListInv, Entries, Full, m_CurrentConnNum, Idle, lists
<1>2. ASSUME NEW l \in Loops, ThreadProcess(l) \/ LoopBreak(l) PROVE ListInv'
  <2>1. CASE UNCHANGED <<connectQueue, lpc>>
    BY <1>1, <1>2, <2>1 DEF ThreadProcess, LoopBreak
  <2>2. CASE LoopBreak(l)
    <3>1. lpc[l] = "dispatch" /\ Goto(l, "ended") /\ UNCHANGED <<lists, connectQueue>>
      BY <2>2 DEF LoopBreak
    <3>2. lpc'[l] = "ended" /\ \A k \in Loops \ {l} : lpc'[k] = lpc[k]
      BY <3>1, Goes DEF LoopSteps
    <3>3. Listed(l)'
      BY <1>0, <3>1, <3>2 DEF Listed, Entries, Settled, Full, m_CurrentConnNum, Idle, lists
    <3> QED BY <3>1, <3>2, <3>3, OthersListed DEF ListInv, Idle, lists
  <2>3. ASSUME ThreadProcess(l), m_CurrentConnNum(l) < MAX_OPEN_FD PROVE ListInv'
    <3>1. /\ lpc[l] = "dispatch" /\ UNCHANGED lists
          /\ connectQueue' = [connectQueue EXCEPT ![l] = @ \cup {Head(pipe[l])}]
          /\ Goto(l, IF MAX_OPEN_FD < m_CurrentConnNum(l) + 2 THEN "lockToBusy" ELSE "testSize")
      BY <2>3, <1>0, NumbersAssumption DEF ThreadProcess
    <3>2. Head(pipe[l]) \in Fds /\ Head(pipe[l]) \in ToSet(pipe[l])
      BY <2>3, TailOfDistinct DEF ThreadProcess, TypeOK, FdInv
    <3>3. local[l] = NoFd
      BY <3>1 DEF LocalInv, Closing
    <3>4. Head(pipe[l]) \notin connectQueue[l]
      BY <3>2, <3>3, FdsAssumption DEF FdInv
    <3>5. /\ connectQueue'[l] = connectQueue[l] \cup {Head(pipe[l])}
          /\ \A k \in Loops \ {l} : connectQueue'[k] = connectQueue[k]
      BY <3>1 DEF TypeOK
    <3>6. m_CurrentConnNum(l)' = m_CurrentConnNum(l) + 1
      BY <3>2, <3>4, <3>5, QueueSize DEF m_CurrentConnNum
    <3>7. /\ lpc'[l] = IF MAX_OPEN_FD < m_CurrentConnNum(l) + 2 THEN "lockToBusy" ELSE "testSize"
          /\ \A k \in Loops \ {l} : lpc'[k] = lpc[k]
      BY <3>1 DEF TypeOK, Goto
    <3>8. l \in Idle /\ m_BusyList[l] = 0 /\ l \in m_ThreadList /\ m_CurrentConnNum(l) \in Nat
      BY <1>0, <2>3, <3>1, NumbersAssumption DEF Listed, Entries, Settled, Full
    <3>9. CASE MAX_OPEN_FD < m_CurrentConnNum(l) + 2
      <4>1. Full(l)' /\ lpc'[l] = "lockToBusy" /\ (m_CurrentConnNum(l) <= MAX_OPEN_FD)'
        BY <2>3, <3>6, <3>7, <3>8, <3>9, NumbersAssumption DEF Full
      <4>2. Listed(l)'
        BY <4>1, <3>1, <3>8 DEF Listed, Entries, Settled, Idle, lists
      <4> QED BY <4>2, <3>1, <3>5, <3>7, OthersListed DEF ListInv, Idle, lists
    <3>10. CASE ~(MAX_OPEN_FD < m_CurrentConnNum(l) + 2)
      <4>1. ~Full(l)' /\ lpc'[l] = "testSize" /\ (m_CurrentConnNum(l) <= MAX_OPEN_FD)'
        BY <2>3, <3>6, <3>7, <3>8, <3>10, NumbersAssumption DEF Full
      <4>2. Listed(l)'
        BY <4>1, <3>1, <3>8 DEF Listed, Entries, Settled, Idle, lists
      <4> QED BY <4>2, <3>1, <3>5, <3>7, OthersListed DEF ListInv, Idle, lists
    <3> QED BY <3>9, <3>10
  <2>4. ThreadProcess(l) =>
            UNCHANGED <<connectQueue, lpc>> \/ m_CurrentConnNum(l) < MAX_OPEN_FD
    BY DEF ThreadProcess
  <2> QED BY <1>2, <2>1, <2>2, <2>3, <2>4
(* The steps that change no list.                                          *)
<1>3. ASSUME NEW l \in Loops, NEW s \in LoopSteps, Goto(l, s), UNCHANGED <<lists, connectQueue>>,
             \/ lpc[l] \in Settled \ {"new"} /\ s \in Settled \ {"new"}
             \/ lpc[l] = "lockToBusy" /\ s = "pushBusy"
             \/ lpc[l] = "lockToIdle" /\ s = "eraseBusy"
             \/ lpc[l] = "find" /\ m_BusyList[l] > 0 /\ s = "pushIdle"
             \/ lpc[l] = "find" /\ ~(m_BusyList[l] > 0) /\ s = "delete"
             \/ lpc[l] = "unlockAgain" /\ s = "delete"
      PROVE  ListInv'
  <2>1. lpc'[l] = s /\ \A k \in Loops \ {l} : lpc'[k] = lpc[k]
    BY <1>3, Goes
  <2>2. Listed(l)'
    BY <1>0, <1>3, <2>1 DEF Listed, Entries, Settled, Full, m_CurrentConnNum, Idle, lists
  <2> QED BY <1>3, <2>1, <2>2, OthersListed DEF ListInv, Idle, lists
<1>4. ASSUME NEW l \in Loops, LockBusy(l) PROVE ListInv'
  BY <1>3, <1>4 DEF LockBusy, LoopSteps, Settled
<1>5. ASSUME NEW l \in Loops, TestSize(l) \/ TestFirst(l) \/ UnlockAgain(l) PROVE ListInv'
  <2>1. PICK s \in {"testFirst", "create", "dispatch", "delete"} :
            Goto(l, s) /\ (s = "delete" <=> UnlockAgain(l))
    BY <1>5 DEF TestSize, TestFirst, UnlockAgain
  <2> QED BY <1>3, <1>5, <2>1 DEF TestSize, TestFirst, UnlockAgain, LoopSteps, Settled
<1>6. ASSUME NEW l \in Loops, NEW fd \in Fds, CloseEventCb(l, fd) PROVE ListInv'
  BY <1>3, <1>6 DEF CloseEventCb, LoopSteps, Settled
<1>7. ASSUME NEW l \in Loops, CheckIfInBusyList(l) PROVE ListInv'
  BY <1>3, <1>7 DEF CheckIfInBusyList, LoopSteps, Settled
(* The steps that change one.                                              *)
<1>8. ASSUME NEW l \in Loops, PushBusy(l) \/ EraseBusy(l) PROVE ListInv'
  <2>1. PICK s \in {"eraseIdle", "unlockAgain"} : Goto(l, s) /\ (s = "eraseIdle" <=> PushBusy(l))
    BY <1>8 DEF PushBusy, EraseBusy
  <2>2. lpc'[l] = s /\ \A k \in Loops \ {l} : lpc'[k] = lpc[k]
    BY <2>1, Goes DEF LoopSteps
  <2>3. /\ UNCHANGED <<m_IdleList, m_ThreadList, connectQueue>>
        /\ \A k \in Loops \ {l} : m_BusyList'[k] = m_BusyList[k]
        /\ m_BusyList[l] = IF s = "eraseIdle" THEN 0 ELSE 1
        /\ m_BusyList'[l] = IF s = "eraseIdle" THEN 1 ELSE 0
        /\ Full(l) /\ l \in Idle /\ l \in m_ThreadList
    BY <1>0, <1>8, <2>1 DEF PushBusy, EraseBusy, TypeOK, Listed, Entries
  <2>4. Listed(l)'
    BY <1>0, <2>1, <2>2, <2>3 DEF Listed, Entries, Settled, Full, m_CurrentConnNum, Idle
  <2> QED BY <2>2, <2>3, <2>4, OthersListed DEF ListInv, Idle
<1>9. ASSUME NEW l \in Loops, EraseIdle(l) PROVE ListInv'
  <2>1. lpc'[l] = "testSize" /\ \A k \in Loops \ {l} : lpc'[k] = lpc[k]
    BY <1>9, Goes DEF EraseIdle, LoopSteps
  <2>2. IsInjective(m_IdleList') /\ Idle' = Idle \ {l}
    BY <1>9, RemoveFirstOfDistinct DEF EraseIdle, ListInv, TypeOK, Idle
  <2>3. /\ UNCHANGED <<m_BusyList, m_ThreadList, connectQueue>>
        /\ Full(l) /\ m_BusyList[l] = 1 /\ l \in m_ThreadList
    BY <1>0, <1>9 DEF EraseIdle, Listed, Entries
  <2>4. Listed(l)'
    BY <1>0, <2>1, <2>2, <2>3 DEF Listed, Entries, Settled, Full, m_CurrentConnNum
  <2> QED BY <2>1, <2>2, <2>3, <2>4, OthersListed
<1>10. ASSUME NEW l \in Loops, PushIdle(l) PROVE ListInv'
  <2>1. lpc'[l] = "lockToIdle" /\ \A k \in Loops \ {l} : lpc'[k] = lpc[k]
    BY <1>10, Goes DEF PushIdle, LoopSteps
  <2>2. /\ UNCHANGED <<m_BusyList, m_ThreadList, connectQueue>>
        /\ Full(l) /\ l \notin Idle /\ m_BusyList[l] = 1 /\ l \in m_ThreadList
    BY <1>0, <1>10 DEF PushIdle, Listed, Entries
  <2>3. IsInjective(m_IdleList') /\ Idle' = Idle \cup {l}
    BY <1>10, <2>2, AppendFresh DEF PushIdle, ListInv, TypeOK, Idle
  <2>4. Listed(l)'
    BY <1>0, <2>1, <2>2, <2>3 DEF Listed, Entries, Settled, Full, m_CurrentConnNum
  <2> QED BY <2>1, <2>2, <2>3, <2>4, OthersListed
<1>11. ASSUME NEW l \in Loops, CreateMainIdleThread(l) PROVE ListInv'
  <2>1. CASE Goto(l, "dispatch") /\ UNCHANGED <<m_IdleList, m_ThreadList>>
    BY <1>3, <1>11, <2>1 DEF CreateMainIdleThread, LoopSteps, Settled, lists
  <2>2. ASSUME NEW new \in Unused,
               m_IdleList' = Append(m_IdleList, new),
               m_ThreadList' = m_ThreadList \cup {new},
               lpc' = [lpc EXCEPT ![l] = "start", ![new] = "new"]
        PROVE  ListInv'
    <3>1. /\ new \in Loops /\ lpc[new] = "none" /\ lpc[l] = "create" /\ new # l
          /\ UNCHANGED <<m_BusyList, connectQueue>>
      BY <1>11, <2>2 DEF CreateMainIdleThread, Unused
    <3>2. /\ new \notin Idle /\ m_BusyList[new] = 0 /\ connectQueue[new] = {}
          /\ l \in m_ThreadList
      BY <1>0, <3>1 DEF Listed
    <3>3. m_CurrentConnNum(new) = 0 /\ ~Full(new)
      BY <3>2, FS_EmptySet, NumbersAssumption DEF m_CurrentConnNum, Full
    <3>4. IsInjective(m_IdleList') /\ Idle' = Idle \cup {new}
      BY <2>2, <3>1, <3>2, AppendFresh DEF ListInv, TypeOK, Idle
    <3>5. /\ lpc'[l] = "start" /\ lpc'[new] = "new"
          /\ \A k \in Loops \ {l, new} : lpc'[k] = lpc[k]
      BY <2>2, <3>1 DEF TypeOK
    <3>6. Listed(new)'
      BY <2>2, <3>1, <3>2, <3>3, <3>4, <3>5, NumbersAssumption
         DEF Listed, Entries, Settled, Full, m_CurrentConnNum
    <3>7. Listed(l)'
      BY <1>0, <2>2, <3>1, <3>2, <3>4, <3>5 DEF Listed, Entries, Settled, Full, m_CurrentConnNum
    <3>8. \A k \in Loops \ {l, new} : Listed(k)'
      BY <1>0, <2>2, <3>1, <3>4, <3>5 DEF Listed, Entries, Full, m_CurrentConnNum
    <3>9. \A k \in Loops : Listed(k)'
      BY <3>6, <3>7, <3>8
    <3> QED BY <3>4, <3>9 DEF ListInv, Listed
  <2>3. CASE UNCHANGED <<m_IdleList, m_ThreadList, lpc>>
    BY <1>1, <1>11, <2>3 DEF CreateMainIdleThread, lists
  <2> QED BY <1>11, <2>1, <2>2, <2>3 DEF CreateMainIdleThread
<1>12. ASSUME NEW l \in Loops, Start(l) PROVE ListInv'
  <2>1. /\ lpc[l] = "start" /\ local[l] \in Loops /\ lpc[local[l]] = "new"
        /\ UNCHANGED <<lists, connectQueue>>
    BY <1>12 DEF Start, LocalInv, TypeOK
  <2>2. CASE Goto(l, "dispatch")
    BY <1>3, <2>1, <2>2 DEF LoopSteps, Settled
  <2>3. CASE lpc' = [lpc EXCEPT ![l] = "dispatch", ![local[l]] = "dispatch"]
    <3>1. /\ \A k \in {l, local[l]} : lpc[k] \in {"start", "new"} /\ lpc'[k] = "dispatch"
          /\ \A k \in Loops \ {l, local[l]} : lpc'[k] = lpc[k]
      BY <2>1, <2>3 DEF TypeOK
    <3>2. \A k \in Loops : Listed(k)'
      BY <1>0, <2>1, <3>1 DEF Listed, Entries, Settled, Full, m_CurrentConnNum, Idle, lists
    <3> QED BY <2>1, <3>2 DEF ListInv, Listed, lists
  <2> QED BY <1>12, <2>2, <2>3 DEF Start
<1>13. ASSUME NEW l \in Loops, DeleteConn(l) PROVE ListInv'
  <2>1. lpc'[l] = "dispatch" /\ \A k \in Loops \ {l} : lpc'[k] = lpc[k]
    BY <1>13, Goes DEF DeleteConn, LoopSteps
  <2>2. /\ UNCHANGED lists /\ l \in Idle /\ m_BusyList[l] = 0 /\ l \in m_ThreadList
        /\ local[l] \in connectQueue[l]
    BY <1>0, <1>13 DEF DeleteConn, Listed, Entries, LocalInv, Closing
  <2>3. /\ connectQueue'[l] = connectQueue[l] \ {local[l]}
        /\ \A k \in Loops \ {l} : connectQueue'[k] = connectQueue[k]
    BY <1>13 DEF DeleteConn, TypeOK
  <2>4. m_CurrentConnNum(l)' = m_CurrentConnNum(l) - 1
    BY <2>2, <2>3, QueueSize DEF m_CurrentConnNum
  <2>5. (m_CurrentConnNum(l) < MAX_OPEN_FD)' /\ ~Full(l)'
        /\ (m_CurrentConnNum(l) <= MAX_OPEN_FD)'
    BY <1>0, <2>4, NumbersAssumption DEF Listed, Full
  <2>6. Listed(l)'
    BY <2>1, <2>2, <2>5 DEF Listed, Entries, Settled, Idle, lists
  <2> QED BY <2>1, <2>2, <2>3, <2>6, OthersListed DEF ListInv, Idle, lists
<1>14. ASSUME NEW fd \in Fds, ListenerEventCb(fd) PROVE ListInv'
  BY <1>1, <1>14 DEF ListenerEventCb
<1> QED BY <1>1, <1>2, <1>4, <1>5, <1>6, <1>7, <1>8, <1>9, <1>10, <1>11, <1>12, <1>13, <1>14
        DEF Next, CallbackStep, SendFd, DataRace, vars

-----------------------------------------------------------------------------
(* The index.                                                              *)

(* There are as many listed loops as entries, and no more than loops.      *)
LEMMA ListLength ==
    ASSUME TypeOK, ListInv
    PROVE  /\ Len(m_IdleList) \in Nat /\ Len(m_IdleList) = Cardinality(Idle)
           /\ Cardinality(Idle) <= Cardinality(m_ThreadList)
           /\ IsFiniteSet(m_ThreadList) /\ Cardinality(m_ThreadList) \in Nat
           /\ Cardinality(Idle) = Cardinality(m_ThreadList) => Idle = m_ThreadList
<1>1. Idle \subseteq m_ThreadList
  BY DEF ListInv, TypeOK, Idle, ToSet
<1>2. IsFiniteSet(m_ThreadList)
  BY LoopsAssumption, FS_Subset DEF TypeOK
<1> QED BY <1>1, <1>2, LengthOfDistinct, LoopsAssumption, FS_Subset, FS_CardinalityType
        DEF TypeOK, ListInv, Idle

(* Every step.                                                             *)
LEMMA IndexStep == TypeOK /\ ListInv /\ IndexInv /\ [Next]_vars => IndexInv'
<1> SUFFICES ASSUME TypeOK, ListInv, IndexInv, [Next]_vars PROVE IndexInv'
  OBVIOUS
<1> DEFINE N == Cardinality(m_ThreadList)
<1>1. N \in Nat /\ (m_ThreadList # {} => N > 0) /\ Len(m_IdleList) <= N
  BY ListLength, FS_EmptySet
<1>2. CASE UNCHANGED <<idle_thread_count, index, m_ThreadList>>
  BY <1>2 DEF IndexInv
<1>3. ASSUME NEW fd \in Fds, ListenerEventCb(fd) PROVE IndexInv'
  <2>1. CASE m_IdleList # <<>>
    <3>1. Len(m_IdleList) \in Nat \ {0} /\ idle_thread_count \in Nat
      BY <2>1 DEF TypeOK
    <3>2. (idle_thread_count + 1) % Len(m_IdleList) < Len(m_IdleList)
          /\ (idle_thread_count + 1) % Len(m_IdleList) \in Nat
      BY <3>1
    <3> QED BY <1>1, <1>3, <2>1, <3>1, <3>2 DEF IndexInv, ListenerEventCb, lists
  <2>2. CASE m_IdleList = <<>>
    BY <1>2, <1>3, <2>2 DEF ListenerEventCb, acceptor, lists
  <2> QED BY <2>1, <2>2
<1>4. CASE SendFd
  BY <1>1, <1>4 DEF IndexInv, SendFd, lists
<1>5. ASSUME NEW l \in Loops, CreateMainIdleThread(l) PROVE IndexInv'
  <2>1. CASE UNCHANGED m_ThreadList
    BY <1>2, <1>5, <2>1 DEF CreateMainIdleThread, acceptor
  <2>2. ASSUME NEW new \in Unused, m_ThreadList' = m_ThreadList \cup {new} PROVE IndexInv'
    <3>1. new \notin m_ThreadList
      BY DEF ListInv, Unused
    <3>2. Cardinality(m_ThreadList') = N + 1
      BY <2>2, <3>1, ListLength, FS_AddElement
    <3>3. m_ThreadList # {}
      BY <1>5 DEF CreateMainIdleThread, ListInv
    <3> QED BY <1>1, <1>5, <3>2, <3>3 DEF IndexInv, CreateMainIdleThread, acceptor, TypeOK
  <2> QED BY <1>5, <2>1, <2>2 DEF CreateMainIdleThread
<1> QED BY <1>2, <1>3, <1>4, <1>5
        DEF Next, CallbackStep, ThreadProcess, LoopBreak, LockBusy, CloseEventCb, PushBusy,
            EraseIdle, TestSize, TestFirst, Start, CheckIfInBusyList, PushIdle, EraseBusy,
            UnlockAgain, DeleteConn, DataRace, vars, lists, acceptor

-----------------------------------------------------------------------------
(* The connections of the loops.                                           *)
LEMMA CrowdedStep == LoopInv /\ [Next]_vars => CrowdedInv'
<1> SUFFICES ASSUME LoopInv, [Next]_vars PROVE CrowdedInv'
  OBVIOUS
<1>0. \A l \in Loops : m_CurrentConnNum(l) \in Nat
  BY QueueSize DEF LoopInv
<1>1. ASSUME UNCHANGED connectQueue, crowded => crowded',
             \A l \in Loops : lpc'[l] = "create" => lpc[l] = "create" \/ crowded
      PROVE  CrowdedInv'
  BY <1>1 DEF LoopInv, CrowdedInv, m_CurrentConnNum
<1>2. ASSUME NEW l \in Loops, ThreadProcess(l) PROVE CrowdedInv'
  <2>1. CASE UNCHANGED <<connectQueue, crowded, lpc>>
    BY <1>1, <2>1
  <2>2. CASE /\ connectQueue' = [connectQueue EXCEPT ![l] = @ \cup {Head(pipe[l])}]
             /\ crowded' = (crowded \/ MAX_OPEN_FD <= m_CurrentConnNum(l) + 2)
             /\ Goto(l, IF MAX_OPEN_FD < m_CurrentConnNum(l) + 2
                        THEN "lockToBusy" ELSE "testSize")
    <3>1. Head(pipe[l]) \in Fds
      BY <1>2 DEF ThreadProcess, LoopInv, TypeOK
    <3>2. /\ connectQueue'[l] = connectQueue[l] \cup {Head(pipe[l])}
          /\ \A k \in Loops \ {l} : connectQueue'[k] = connectQueue[k]
      BY <2>2 DEF LoopInv, TypeOK
    <3>3. /\ m_CurrentConnNum(l)' \in {m_CurrentConnNum(l), m_CurrentConnNum(l) + 1}
          /\ \A k \in Loops \ {l} : m_CurrentConnNum(k)' = m_CurrentConnNum(k)
      <4>1. CASE Head(pipe[l]) \in connectQueue[l]
        BY <3>2, <4>1 DEF m_CurrentConnNum
      <4>2. CASE Head(pipe[l]) \notin connectQueue[l]
        BY <3>1, <3>2, <4>2, QueueSize DEF m_CurrentConnNum, LoopInv
      <4> QED BY <4>1, <4>2
    <3>4. \A k \in Loops : lpc'[k] = "create" => lpc[k] = "create"
      BY <2>2 DEF Goto, LoopInv, TypeOK
    <3>5. m_CurrentConnNum(l) + 2 >= MAX_OPEN_FD => crowded'
      BY <1>0, <2>2, NumbersAssumption
    <3>6. crowded => crowded'
      BY <2>2 DEF LoopInv, TypeOK
    <3>7. ASSUME NEW k \in Loops, m_CurrentConnNum(k)' + 1 >= MAX_OPEN_FD PROVE crowded'
      <4>1. CASE m_CurrentConnNum(k) + 1 >= MAX_OPEN_FD
        BY <3>6, <4>1 DEF LoopInv, CrowdedInv
      <4>2. CASE ~(m_CurrentConnNum(k) + 1 >= MAX_OPEN_FD)
        <5>1. k = l /\ m_CurrentConnNum(l)' = m_CurrentConnNum(l) + 1
          BY <3>3, <3>7, <4>2
        <5> QED BY <1>0, <3>5, <3>7, <5>1, NumbersAssumption
      <4> QED BY <4>1, <4>2
    <3> QED BY <3>4, <3>6, <3>7 DEF LoopInv, CrowdedInv
  <2> QED BY <1>2, <2>1, <2>2 DEF ThreadProcess
<1>3. ASSUME NEW l \in Loops, TestFirst(l) PROVE CrowdedInv'
  <2>1. PICK first \in m_ThreadList :
            Goto(l, IF m_CurrentConnNum(first) = MAX_OPEN_FD - 1 THEN "create" ELSE "dispatch")
    BY <1>3 DEF TestFirst
  <2>2. first \in Loops
    BY DEF LoopInv, TypeOK
  <2>3. m_CurrentConnNum(first) = MAX_OPEN_FD - 1 => crowded
    BY <1>0, <2>2, NumbersAssumption DEF LoopInv, CrowdedInv
  <2>4. lpc'[l] = "create" => crowded
    BY <2>1, <2>3 DEF Goto, LoopInv, TypeOK
  <2>5. \A k \in Loops \ {l} : lpc'[k] = lpc[k]
    BY <2>1 DEF Goto, LoopInv, TypeOK
  <2> QED BY <1>1, <1>3, <2>4, <2>5 DEF TestFirst
<1>4. ASSUME NEW l \in Loops, DeleteConn(l) PROVE CrowdedInv'
  <2>1. /\ connectQueue'[l] = connectQueue[l] \ {local[l]} /\ local[l] \in connectQueue[l]
        /\ \A k \in Loops \ {l} : connectQueue'[k] = connectQueue[k]
    BY <1>4 DEF DeleteConn, LoopInv, LocalInv, Closing, TypeOK
  <2>2. /\ m_CurrentConnNum(l)' = m_CurrentConnNum(l) - 1
        /\ \A k \in Loops \ {l} : m_CurrentConnNum(k)' = m_CurrentConnNum(k)
    BY <2>1, QueueSize DEF m_CurrentConnNum, LoopInv
  <2>3. \A k \in Loops : lpc'[k] = "create" => lpc[k] = "create"
    BY <1>4 DEF DeleteConn, Goto, LoopInv, TypeOK
  <2> QED BY <1>0, <1>4, <2>2, <2>3, NumbersAssumption DEF DeleteConn, LoopInv, CrowdedInv
<1>5. ASSUME NEW l \in Loops, CreateMainIdleThread(l) \/ Start(l) PROVE CrowdedInv'
  <2>1. \A k \in Loops : lpc'[k] = "create" => lpc[k] = "create"
    BY <1>5 DEF CreateMainIdleThread, Start, Unused, Goto, LoopInv, LocalInv, TypeOK
  <2> QED BY <1>1, <1>5, <2>1 DEF CreateMainIdleThread, Start
<1>6. ASSUME NEW l \in Loops,
             \/ LoopBreak(l) \/ LockBusy(l) \/ PushBusy(l) \/ EraseIdle(l) \/ TestSize(l)
             \/ CheckIfInBusyList(l) \/ PushIdle(l) \/ EraseBusy(l) \/ UnlockAgain(l)
             \/ \E fd \in Fds : CloseEventCb(l, fd)
      PROVE  CrowdedInv'
  <2> USE DEF LoopBreak, LockBusy, PushBusy, EraseIdle, TestSize, CheckIfInBusyList, PushIdle,
              EraseBusy, UnlockAgain, CloseEventCb
  <2>1. \A k \in Loops : lpc'[k] = "create" => lpc[k] = "create"
    BY <1>6 DEF Goto, LoopInv, TypeOK
  <2> QED BY <1>1, <1>6, <2>1
<1>7. CASE UNCHANGED <<connectQueue, lpc, crowded>>
  BY <1>1, <1>7
<1> QED BY <1>2, <1>3, <1>4, <1>5, <1>6, <1>7
        DEF Next, CallbackStep, ListenerEventCb, SendFd, DataRace, vars

-----------------------------------------------------------------------------
(* The end of the server.                                                  *)

(* A full loop has made the server crowded.                                *)
LEMMA FullIsCrowded ==
    ASSUME LoopInv, NEW l \in Loops, Full(l)
    PROVE  crowded
BY QueueSize, NumbersAssumption DEF LoopInv, CrowdedInv, Full

(* Every step.                                                             *)
LEMMA DeathStep ==
    ASSUME LoopInv, alive, Next, m_ThreadList # {}, ~alive'
    PROVE  crowded'
<1>1. ASSUME NEW l \in m_ThreadList, l \notin Idle PROVE crowded
  BY <1>1, UnlistedIsFull, FullIsCrowded DEF LoopInv, TypeOK
<1>2. ASSUME NEW fd \in Fds, ListenerEventCb(fd) PROVE crowded'
  <2>1. m_IdleList = <<>> /\ UNCHANGED crowded
    BY <1>2 DEF ListenerEventCb
  <2>2. Idle = {}
    BY <2>1 DEF Idle, ToSet
  <2> QED BY <1>1, <2>1, <2>2
<1>3. CASE SendFd
  <2>1. index >= Len(m_IdleList) /\ UNCHANGED crowded
    BY <1>3 DEF SendFd
  <2>2. Idle # m_ThreadList
    BY <2>1, ListLength DEF LoopInv, IndexInv, TypeOK
  <2>3. PICK l \in m_ThreadList : l \notin Idle
    BY <2>2 DEF LoopInv, ListInv, TypeOK, Idle, ToSet
  <2> QED BY <1>1, <2>1, <2>3
<1>4. ASSUME NEW l \in Loops, ThreadProcess(l) PROVE crowded'
  <2>1. m_CurrentConnNum(l) >= MAX_OPEN_FD /\ UNCHANGED crowded
    BY <1>4 DEF ThreadProcess
  <2> QED BY <2>1, QueueSize, NumbersAssumption DEF LoopInv, CrowdedInv
<1>5. ASSUME NEW l \in Loops, CreateMainIdleThread(l) PROVE crowded'
  BY <1>5 DEF CreateMainIdleThread, LoopInv, CrowdedInv
<1>6. CASE DataRace
  <2>1. PICK l \in Loops : lpc[l] \in {"pushBusy", "eraseBusy", "eraseIdle", "pushIdle", "create"}
    BY <1>6 DEF DataRace, BusyWriters, IdleWriters
  <2>2. lpc[l] # "create" => Full(l)
    BY <2>1 DEF LoopInv, ListInv, Entries
  <2>3. crowded
    BY <2>1, <2>2, FullIsCrowded DEF LoopInv, CrowdedInv
  <2> QED BY <1>6, <2>3 DEF DataRace
<1> QED BY <1>2, <1>3, <1>4, <1>5, <1>6
        DEF Next, CallbackStep, LoopBreak, LockBusy, CloseEventCb, PushBusy, EraseIdle, TestSize,
            TestFirst, Start, CheckIfInBusyList, PushIdle, EraseBusy, UnlockAgain, DeleteConn

-----------------------------------------------------------------------------
(* The theorems.                                                           *)

(* The invariant: which lists a loop is in at each step of its callbacks,  *)
(* and that a descriptor in use belongs to one loop only.                  *)
THEOREM LoopInvariant == Spec => []LoopInv
<1>1. LoopInv /\ [Next]_vars => LoopInv'
  BY TypeStep, LocalStep, FdStep, ListStep, IndexStep, CrowdedStep DEF LoopInv
<1> QED BY <1>1, LoopInit, PTL DEF Spec

(* The type invariant of ReactorPool.                                      *)
THEOREM ReactorTypes == Spec => []TypeOK
<1>1. LoopInv => TypeOK
  BY DEF LoopInv
<1> QED BY <1>1, LoopInvariant, PTL

(* Between its callbacks a loop is in m_IdleList, once, exactly if it has  *)
(* room for a connection, although UnlockAgain gives m_BusyMutex away.     *)
THEOREM RestingLoopsAreListed == Spec => []RestingLoopIsListed
<1>1. LoopInv => RestingLoopIsListed
  <2> SUFFICES ASSUME LoopInv, NEW l \in m_ThreadList, lpc[l] \in {"new", "dispatch"}
               PROVE  IF m_CurrentConnNum(l) < MAX_OPEN_FD
                      THEN /\ m_BusyList[l] = 0
                           /\ Cardinality({i \in DOMAIN m_IdleList : m_IdleList[i] = l}) = 1
                      ELSE m_BusyList[l] = 1 /\ l \notin Idle
    BY DEF RestingLoopIsListed
  <2>1. l \in Loops /\ m_CurrentConnNum(l) \in Nat
    BY QueueSize DEF LoopInv, TypeOK
  <2>2. IF m_CurrentConnNum(l) < MAX_OPEN_FD
        THEN m_BusyList[l] = 0 /\ l \in Idle
        ELSE m_BusyList[l] = 1 /\ l \notin Idle
    BY <2>1, NumbersAssumption DEF LoopInv, ListInv, Entries, Settled, Full
  <2>3. ASSUME l \in Idle
        PROVE  Cardinality({i \in DOMAIN m_IdleList : m_IdleList[i] = l}) = 1
    <3>1. PICK i \in DOMAIN m_IdleList : m_IdleList[i] = l
      BY <2>3 DEF Idle, ToSet, LoopInv, TypeOK
    <3>2. {j \in DOMAIN m_IdleList : m_IdleList[j] = l} = {i}
      BY <3>1 DEF LoopInv, ListInv, IsInjective
    <3> QED BY <3>2, FS_Singleton
  <2> QED BY <2>2, <2>3
<1> QED BY <1>1, LoopInvariant, PTL

(* A server that has started with a loop ends only after a loop had room   *)
(* for one connection at most, whatever fails and whoever races.           *)
THEOREM DeathNeedsACrowdedLoop == Spec => DeathNeedsCrowdedLoop
<1>1. LoopInv /\ [Next]_vars => [m_ThreadList # {} /\ ~alive' => crowded']_vars
  BY DeathStep DEF Next
<1> QED BY <1>1, LoopInvariant, PTL DEF Spec, DeathNeedsCrowdedLoop

-----------------------------------------------------------------------------
(* m_BusyMutex.                                                            *)

(* Whoever has m_BusyMutex is between a lock and an unlock of the code, so *)
(* that it is unlocked again by a step that waits for nothing.  (The       *)
(* converse fails: UnlockAgain lets a second loop in, see                  *)
(* RestingLoopIsListed.)                                                   *)
BusyMutexIsInUse ==
    \A l \in Loops : m_BusyMutex = l => lpc[l] \in {"pushBusy", "find", "eraseBusy"}

(* The steps that leave those places unlock it.                            *)
LEMMA BusyMutexStep == LoopInv /\ BusyMutexIsInUse /\ [Next]_vars => BusyMutexIsInUse'
<1> SUFFICES ASSUME LoopInv, BusyMutexIsInUse, [Next]_vars PROVE BusyMutexIsInUse'
  OBVIOUS
<1> DEFINE Critical == {"pushBusy", "find", "eraseBusy"}
<1>1. CASE m_BusyMutex' = NoThread
  BY <1>1, LoopsAssumption DEF BusyMutexIsInUse
<1>2. ASSUME NEW l \in Loops, LockBusy(l) PROVE BusyMutexIsInUse'
  BY <1>2 DEF LockBusy, Goto, BusyMutexIsInUse, LoopInv, TypeOK
<1>3. CASE UNCHANGED m_BusyMutex /\ \A l \in Loops : lpc[l] \in Critical => lpc'[l] = lpc[l]
  BY <1>3 DEF BusyMutexIsInUse
<1>4. ASSUME NEW l \in Loops, CreateMainIdleThread(l) PROVE BusyMutexIsInUse'
  BY <1>3, <1>4 DEF CreateMainIdleThread, Goto, Unused, LoopInv, TypeOK
<1>5. ASSUME NEW l \in Loops, Start(l) PROVE BusyMutexIsInUse'
  BY <1>3, <1>5 DEF Start, Goto, LoopInv, TypeOK, LocalInv
<1>6. ASSUME NEW l \in Loops,
             \/ ThreadProcess(l) \/ LoopBreak(l) \/ EraseIdle(l) \/ TestSize(l) \/ TestFirst(l)
             \/ PushIdle(l) \/ DeleteConn(l) \/ \E fd \in Fds : CloseEventCb(l, fd)
      PROVE  BusyMutexIsInUse'
  BY <1>3, <1>6 DEF ThreadProcess, LoopBreak, EraseIdle, TestSize, TestFirst, PushIdle,
                    DeleteConn, CloseEventCb, Goto, LoopInv, TypeOK
<1>7. CASE UNCHANGED <<m_BusyMutex, lpc>>
  BY <1>3, <1>7
<1> QED BY <1>1, <1>2, <1>4, <1>5, <1>6, <1>7
        DEF Next, CallbackStep, ListenerEventCb, SendFd, DataRace, PushBusy,
            CheckIfInBusyList, EraseBusy, UnlockAgain, vars

(* No loop, ended or waiting, keeps m_BusyMutex.                           *)
THEOREM BusyMutexIsNotKept == Spec => []BusyMutexIsInUse
<1>1. Init => BusyMutexIsInUse
  BY LoopsAssumption DEF Init, BusyMutexIsInUse
<1> QED BY <1>1, BusyMutexStep, LoopInvariant, PTL DEF Spec

-----------------------------------------------------------------------------
(* Loops that do not run.                                                  *)

(* An event loop whose thread could not be started, or that left its loop  *)
(* when bufferevent_socket_new failed.                                     *)
Silent(l) ==
    \/ lpc[l] = "ended"
    \/ lpc[l] = "new" /\ \A k \in Loops : lpc[k] = "start" => local[k] # l

(* It is silent for good: a descriptor that the acceptor writes to its     *)
(* pipe stays there, and no connection of it is opened or closed.          *)
SilentKeepsConnections ==
    [][\A l \in Loops : Silent(l) =>
            /\ Silent(l)'
            /\ ToSet(pipe[l]) \subseteq ToSet(pipe'[l])
            /\ connectQueue'[l] = connectQueue[l]]_vars

(* Nothing else than its own callbacks moves a loop, but its start.        *)
LEMMA SilentStays ==
    ASSUME LoopInv, [Next]_vars, NEW l \in Loops, Silent(l)
    PROVE  Silent(l)'
<1>1. CASE UNCHANGED <<lpc, local>>
  BY <1>1 DEF Silent
<1>2. ASSUME NEW k \in Loops, CreateMainIdleThread(k) PROVE Silent(l)'
  <2>1. lpc[k] = "create" /\ k # l
    BY <1>2 DEF CreateMainIdleThread, Silent
  <2>2. CASE lpc' = [lpc EXCEPT ![k] = "dispatch"] /\ UNCHANGED local
    BY <2>1, <2>2 DEF Silent, LoopInv, TypeOK
  <2>3. ASSUME NEW new \in Unused, local' = [local EXCEPT ![k] = new],
               lpc' = [lpc EXCEPT ![k] = "start", ![new] = "new"]
        PROVE  Silent(l)'
    <3>1. new # l /\ new # k /\ new \in Loops
      BY <2>1, <2>3 DEF Unused, Silent
    <3>2. lpc'[l] = lpc[l]
      BY <2>1, <2>3, <3>1 DEF LoopInv, TypeOK
    <3>3. \A j \in Loops : lpc'[j] = "start" /\ local'[j] = l => lpc[j] = "start" /\ local[j] = l
      BY <2>1, <2>3, <3>1 DEF LoopInv, TypeOK
    <3> QED BY <3>2, <3>3 DEF Silent
  <2> QED BY <1>1, <1>2, <2>2, <2>3 DEF CreateMainIdleThread, Goto
<1>3. ASSUME NEW k \in Loops, Start(k) PROVE Silent(l)'
  <2>1. lpc[k] = "start" /\ k # l /\ local[k] # l
    BY <1>3 DEF Start, Silent, LoopInv, LocalInv
  <2>2. \A j \in Loops \ {k} : local'[j] = local[j]
    BY <1>3 DEF Start, LoopInv, TypeOK
  <2>3. lpc'[l] = lpc[l] /\ \A j \in Loops : lpc'[j] = "start" => lpc[j] = "start" /\ j # k
    BY <1>3, <2>1 DEF Start, Goto, LoopInv, TypeOK
  <2> QED BY <2>2, <2>3 DEF Silent
<1>4. ASSUME NEW k \in Loops, k # l, lpc'[l] = lpc[l], lpc'[k] # "start",
             \A j \in Loops \ {k} : lpc'[j] = lpc[j] /\ local'[j] = local[j]
      PROVE  Silent(l)'
  BY <1>4 DEF Silent
<1>5. ASSUME NEW k \in Loops,
             \/ ThreadProcess(k) \/ LoopBreak(k) \/ LockBusy(k) \/ PushBusy(k) \/ EraseIdle(k)
             \/ TestSize(k) \/ TestFirst(k) \/ CheckIfInBusyList(k) \/ PushIdle(k)
             \/ EraseBusy(k) \/ UnlockAgain(k) \/ DeleteConn(k)
             \/ \E fd \in Fds : CloseEventCb(k, fd)
      PROVE  Silent(l)'
  <2> USE DEF ThreadProcess, LoopBreak, LockBusy, PushBusy, EraseIdle, TestSize, TestFirst,
              CheckIfInBusyList, PushIdle, EraseBusy, UnlockAgain, DeleteConn, CloseEventCb
  <2>1. k # l
    BY <1>5 DEF Silent
  <2>2. \A j \in Loops \ {k} : lpc'[j] = lpc[j] /\ local'[j] = local[j]
    BY <1>5 DEF Goto, LoopInv, TypeOK
  <2>3. lpc'[k] # "start" \/ lpc' = lpc
    BY <1>5 DEF Goto, LoopInv, TypeOK
  <2> QED BY <1>1, <1>4, <1>5, <2>1, <2>2, <2>3 DEF LoopInv, TypeOK
<1> QED BY <1>1, <1>2, <1>3, <1>5
        DEF Next, CallbackStep, ListenerEventCb, SendFd, DataRace, vars

(* The acceptor writes to its pipe all the same, and nobody reads it.      *)
LEMMA SilentPipe ==
    ASSUME LoopInv, [Next]_vars, NEW l \in Loops, Silent(l)
    PROVE  /\ ToSet(pipe[l]) \subseteq ToSet(pipe'[l])
           /\ connectQueue'[l] = connectQueue[l]
<1>1. CASE UNCHANGED <<pipe, connectQueue>>
  BY <1>1
<1>2. CASE SendFd /\ connectQueue' = connectQueue
  <2>1. CASE pipe' = pipe
    BY <1>2, <2>1
  <2>2. ASSUME NEW k \in m_ThreadList, pipe' = [pipe EXCEPT ![k] = Append(@, connfd)]
        PROVE  ToSet(pipe[l]) \subseteq ToSet(pipe'[l])
    <3>1. pipe[l] \in Seq(Fds)
      BY DEF LoopInv, TypeOK
    <3>2. k \in Loops /\ connfd \in Fds
      BY <1>2, <2>2 DEF LoopInv, TypeOK, SendFd
    <3>3. pipe'[l] = pipe[l] \/ pipe'[l] = Append(pipe[l], connfd)
      BY <2>2, <3>2 DEF LoopInv, TypeOK
    <3>4. ToSet(Append(pipe[l], connfd)) = ToSet(pipe[l]) \cup {connfd}
      BY <3>2, AppendFresh DEF LoopInv, TypeOK
    <3> QED BY <3>3, <3>4
  <2> QED BY <1>2, <2>1, <2>2 DEF SendFd
<1>3. ASSUME NEW k \in Loops, ThreadProcess(k) \/ LoopBreak(k) \/ DeleteConn(k)
      PROVE  pipe'[l] = pipe[l] /\ connectQueue'[l] = connectQueue[l]
  <2>1. k # l
    BY <1>3 DEF Silent, ThreadProcess, LoopBreak, DeleteConn
  <2> QED BY <1>3, <2>1 DEF ThreadProcess, LoopBreak, DeleteConn, LoopInv, TypeOK
<1>4. ASSUME NEW k \in Loops,
             \/ LockBusy(k) \/ PushBusy(k) \/ EraseIdle(k) \/ TestSize(k) \/ TestFirst(k)
             \/ CreateMainIdleThread(k) \/ Start(k) \/ CheckIfInBusyList(k) \/ PushIdle(k)
             \/ EraseBusy(k) \/ UnlockAgain(k) \/ \E fd \in Fds : CloseEventCb(k, fd)
      PROVE  UNCHANGED <<pipe, connectQueue>>
  BY <1>4 DEF LockBusy, PushBusy, EraseIdle, TestSize, TestFirst, CreateMainIdleThread, Start,
              CheckIfInBusyList, PushIdle, EraseBusy, UnlockAgain, CloseEventCb
<1>5. (\E fd \in Fds : ListenerEventCb(fd)) \/ DataRace \/ UNCHANGED vars
          => UNCHANGED <<pipe, connectQueue>>
  BY DEF ListenerEventCb, DataRace, vars
<1>6. SendFd => connectQueue' = connectQueue
  BY DEF SendFd
<1> QED BY <1>1, <1>2, <1>3, <1>4, <1>5, <1>6 DEF Next, CallbackStep

(* A connection that was given to such a loop is never opened.             *)
THEOREM SilentLoopsOpenNothing == Spec => SilentKeepsConnections
<1>1. LoopInv /\ [Next]_vars =>
          \A l \in Loops : Silent(l) =>
              /\ Silent(l)'
              /\ ToSet(pipe[l]) \subseteq ToSet(pipe'[l])
              /\ connectQueue'[l] = connectQueue[l]
  BY SilentStays, SilentPipe
<1> QED BY <1>1, LoopInvariant, PTL DEF Spec, SilentKeepsConnections
=============================================================================
