-------------------------- MODULE MysqlPool_proofs --------------------------
(***************************************************************************)
(* Proofs about MysqlPool, for any threads, any connections and any number *)
(* of calls, whether or not pings fail.                                    *)
(***************************************************************************)
EXTENDS MysqlPool, DistinctLists

-----------------------------------------------------------------------------
(* The inductive invariant.                                                *)

(* The steps of GetMysqlConn before the node is out of MysqlConnIdleList,  *)
(* those with m_GetConnMutex, those where the thread is not counted in     *)
(* m_CurrentIdleConnNum, and those where it has an entry in                *)
(* MysqlConnBusyList.                                                      *)
Asking == {"lockGet", "front", "ping", "lockToBusy", "pushBusy", "eraseIdle"}
Getting == {"front", "ping", "lockToBusy", "pushBusy", "eraseIdle", "unlockGet"}
Releasing == {"hold", "lockToRelease", "pushReleased"}
Uncounted == {"unlockGet"} \cup Releasing
Entered == {"eraseIdle", "lockToErase", "eraseBusy"} \cup Uncounted

Num(places) == Cardinality(At(places))

(* With m_GetConnMutex and a node, and with a node of one's own.           *)
Chosen == {"ping", "lockToBusy", "pushBusy", "eraseIdle"}
Held == {"unlockGet", "hold"}

(* The types, without the bounds of m_CurrentIdleConnNum.                  *)
Types ==
    /\ MysqlConnIdleList \in Seq(Nodes)
    /\ MysqlConnBusyList \in [Nodes -> Nat]
    /\ m_CurrentIdleConnNum \in Int
    /\ m_IdleInitNum \in {0, Cardinality(Nodes)}
    /\ m_GetConnMutex \in Threads \cup {NoThread}
    /\ pc \in [Threads -> Steps]
    /\ conn \in [Threads -> Nodes \cup {NoNode}]
    /\ gets \in 0..MaxGets
    /\ alive \in BOOLEAN
    /\ \A t \in Threads : pc[t] \notin {"rest", "lockGet", "front"} => conn[t] \in Nodes

(* Who has the mutexes.  A thread at rest keeps m_GetConnMutex after a     *)
(* ping that failed.                                                       *)
MutexInv ==
    /\ \A t \in Threads : pc[t] \in Getting => m_GetConnMutex = t
    /\ \A t, u \in BusyListLocked : t = u

(* Each thread that entered its node has an entry of its own.              *)
EntryInv ==
    \A n \in Nodes : MysqlConnBusyList[n] >= Cardinality({t \in At(Entered) : conn[t] = n})

(* The count, while there is a pool and after it was freed.                *)
CountInv ==
    /\ Num(Steps \ {"rest"}) <= gets
    /\ m_IdleInitNum > 0 => m_CurrentIdleConnNum = Cardinality(Nodes) - Num(Uncounted)
    /\ m_IdleInitNum = 0 =>
          /\ At(Asking \cup {"unlockGet"}) = {}
          /\ m_CurrentIdleConnNum >= 0
          /\ m_CurrentIdleConnNum + Num(Releasing) <= Cardinality(Threads)

(* As long as there were no more calls than connections, there is one for  *)
(* every thread that asks, its front is the node that the thread with      *)
(* m_GetConnMutex gets, and what is held is not in the list.               *)
FrontInv ==
    /\ IsInjective(MysqlConnIdleList)
    /\ m_IdleInitNum > 0 => Len(MysqlConnIdleList) + gets >= Cardinality(Nodes) + Num(Asking)
    /\ gets <= Cardinality(Nodes) =>
          /\ \A t \in At(Chosen) :
                MysqlConnIdleList # <<>> /\ conn[t] = Head(MysqlConnIdleList)
          /\ \A t \in At(Held) : conn[t] \notin ToSet(MysqlConnIdleList)
          /\ \A t, u \in At(Held) : conn[t] = conn[u] => t = u

ConnPoolInv == Types /\ MutexInv /\ EntryInv /\ CountInv /\ FrontInv /\ UndefinedNeedsRelease

-----------------------------------------------------------------------------
(* Facts that the steps share.                                             *)

(* The threads at some places, before and after a step of one of them.     *)
LEMMA AtMoves ==
    ASSUME Types, NEW t \in Threads, NEW s \in Steps, Goto(t, s), NEW places
    PROVE  /\ At(places)' = IF s \in places THEN At(places) \cup {t} ELSE At(places) \ {t}
           /\ IsFiniteSet(At(places)) /\ Num(places) \in Nat
           /\ Num(places)' = Num(places) + (IF s \in places THEN 1 ELSE 0)
                                         - (IF pc[t] \in places THEN 1 ELSE 0)
<1>1. pc'[t] = s /\ \A u \in Threads \ {t} : pc'[u] = pc[u]
  BY DEF Types, Goto
<1>2. At(places)' = IF s \in places THEN At(places) \cup {t} ELSE At(places) \ {t}
  BY <1>1 DEF At
<1>3. IsFiniteSet(At(places)) /\ Num(places) \in Nat
  BY ThreadsAssumption, FS_Subset, FS_CardinalityType DEF At, Num
<1>4. t \in At(places) <=> pc[t] \in places
  BY DEF At
<1>5. /\ Cardinality(At(places) \cup {t}) = Num(places) + (IF pc[t] \in places THEN 0 ELSE 1)
      /\ Cardinality(At(places) \ {t}) = Num(places) - (IF pc[t] \in places THEN 1 ELSE 0)
  <2>1. /\ Cardinality(At(places) \cup {t}) =
              IF t \in At(places) THEN Num(places) ELSE Num(places) + 1
        /\ Cardinality(At(places) \ {t}) = IF t \in At(places) THEN Num(places) - 1 ELSE Num(places)
    BY <1>3, FS_AddElement, FS_RemoveElement DEF Num
  <2> QED BY <1>3, <1>4, <2>1
<1> QED BY <1>2, <1>3, <1>5 DEF Num

(* The numbers the invariant has are numbers.                              *)
LEMMA Numbers ==
    /\ IsFiniteSet(Threads) /\ Cardinality(Threads) \in Nat
    /\ Cardinality(Nodes) \in Nat \ {0}
    /\ \A places : IsFiniteSet(At(places)) /\ Num(places) \in Nat
                   /\ Num(places) <= Cardinality(Threads)
<1>1. \A places : At(places) \in SUBSET Threads
  BY DEF At
<1> QED BY <1>1, ThreadsAssumption, NodesAssumption, FS_Subset, FS_CardinalityType, FS_EmptySet
        DEF Num

-----------------------------------------------------------------------------
(* The invariant holds initially.                                          *)
LEMMA PoolInit == Init => ConnPoolInv
<1> SUFFICES ASSUME Init PROVE ConnPoolInv
  OBVIOUS
<1>1. /\ MysqlConnIdleList \in Seq(Nodes) /\ IsInjective(MysqlConnIdleList)
      /\ Len(MysqlConnIdleList) = Cardinality(Nodes)
  BY Numbers DEF Init
<1>2. \A places \in SUBSET (Steps \ {"rest"}) : At(places) = {} /\ Num(places) = 0
  BY FS_EmptySet DEF Init, At, Num
<1>3. /\ Asking \subseteq Steps \ {"rest"} /\ Uncounted \subseteq Steps \ {"rest"}
      /\ Entered \subseteq Steps \ {"rest"}
  BY DEF Asking, Uncounted, Releasing, Entered, Steps
<1>4. Types
  BY <1>1, Numbers, OptionsAssumption DEF Init, Types, Steps
<1>5. MutexInv
  BY DEF Init, MutexInv, Getting, BusyListLocked, At
<1>6. EntryInv
  <2>1. \A n \in Nodes : {t \in At(Entered) : conn[t] = n} = {}
    BY <1>2, <1>3
  <2>2. \A n \in Nodes : Cardinality({t \in At(Entered) : conn[t] = n}) = 0
    BY <2>1, FS_EmptySet
  <2> QED BY <2>2 DEF Init, EntryInv
<1>7. CountInv
  BY <1>2, <1>3, Numbers DEF Init, CountInv
<1>8. FrontInv
  <2>1. At(Chosen) = {} /\ At(Held) = {}
    BY DEF Init, At, Chosen, Held
  <2> QED BY <1>1, <1>2, <1>3, <2>1, Numbers DEF Init, FrontInv
<1> QED BY <1>4, <1>5, <1>6, <1>7, <1>8 DEF ConnPoolInv, Init, UndefinedNeedsRelease

-----------------------------------------------------------------------------
(* The types.                                                              *)
LEMMA TypesStep == Types /\ FrontInv /\ [Next]_vars => Types'
<1> SUFFICES ASSUME Types, FrontInv, [Next]_vars PROVE Types'
  OBVIOUS
<1> USE DEF Types, Goto, Steps, lists
<1>1. CASE UNCHANGED vars
  BY <1>1 DEF vars
<1>2. ASSUME NEW t \in Threads, CallGet(t) \/ CallRelease(t) PROVE Types'
  <2>1. CASE CallGet(t)
    BY <2>1, OptionsAssumption DEF CallGet
  <2>2. CASE CallRelease(t)
    BY <2>2 DEF CallRelease
  <2> QED BY <1>2, <2>1, <2>2
<1>3. ASSUME NEW t \in Threads, LockGet(t) \/ LockToBusy(t) \/ UnlockGet(t) PROVE Types'
  BY <1>3 DEF LockGet, LockToBusy, UnlockGet
<1>4. ASSUME NEW t \in Threads, ReadFront(t) PROVE Types'
  <2>1. CASE \E n \in Nodes : conn' = [conn EXCEPT ![t] = n] /\ pc' = [pc EXCEPT ![t] = "ping"]
                              /\ alive' = alive
    BY <1>4, <2>1 DEF ReadFront
  <2>2. CASE alive' = FALSE /\ UNCHANGED <<pc, conn>>
    BY <1>4, <2>2 DEF ReadFront
  <2> QED BY <1>4, <2>1, <2>2 DEF ReadFront
<1>5. ASSUME NEW t \in Threads, Ping(t) PROVE Types'
  BY <1>5 DEF Ping
<1>6. ASSUME NEW t \in Threads, PushBusy(t) \/ PushReleased(t) PROVE Types'
  <2>1. conn[t] \in Nodes /\ MysqlConnBusyList' \in [Nodes -> Nat]
    BY <1>6 DEF PushBusy, PushReleased
  <2>2. CASE PushBusy(t)
    BY <2>1, <2>2 DEF PushBusy
  <2>3. CASE PushReleased(t)
    BY <2>1, <2>3 DEF PushReleased
  <2> QED BY <1>6, <2>2, <2>3
<1>7. ASSUME NEW t \in Threads, EraseIdle(t) PROVE Types'
  <2>1. RemoveFirst(MysqlConnIdleList, conn[t]) \in Seq(Nodes)
    BY <1>7, RemoveFirstOfDistinct DEF EraseIdle, FrontInv
  <2> QED BY <1>7, <2>1 DEF EraseIdle
<1>8. ASSUME NEW t \in Threads, LockToRelease(t) \/ LockToErase(t) PROVE Types'
  BY <1>8 DEF LockToRelease, LockToErase
<1>9. ASSUME NEW t \in Threads, EraseBusy(t) PROVE Types'
  <2>1. MysqlConnBusyList' \in [Nodes -> Nat]
    BY <1>9 DEF EraseBusy
  <2> QED BY <1>9, <2>1 DEF EraseBusy
<1>10. CASE FreeMysqlConnPool
  BY <1>10 DEF FreeMysqlConnPool
<1>11. CASE DataRace
  BY <1>11 DEF DataRace
<1> QED BY <1>1, <1>2, <1>3, <1>4, <1>5, <1>6, <1>7, <1>8, <1>9, <1>10, <1>11
        DEF Next, GetStep, ReleaseStep

-----------------------------------------------------------------------------
(* The mutexes.                                                            *)
LEMMA MutexStep == Types /\ MutexInv /\ [Next]_vars => MutexInv'
<1> SUFFICES ASSUME Types, MutexInv, [Next]_vars PROVE MutexInv'
  OBVIOUS
<1> USE DEF MutexInv, BusyListLocked, At, Getting
<1>1. CASE UNCHANGED <<m_GetConnMutex, pc>>
  BY <1>1
<1>2. ASSUME NEW t \in Threads, NEW s \in Steps, Goto(t, s), UNCHANGED m_GetConnMutex,
             s \in Getting => pc[t] \in Getting,
             s \in {"pushBusy", "eraseBusy"} => BusyListLocked = {}
      PROVE  MutexInv'
  <2>1. pc'[t] = s /\ \A u \in Threads \ {t} : pc'[u] = pc[u]
    BY <1>2 DEF Types, Goto
  <2>2. \A u \in Threads : pc'[u] \in Getting => m_GetConnMutex' = u
    BY <1>2, <2>1
  <2>3. BusyListLocked' \subseteq BusyListLocked \/ BusyListLocked' = {t}
    BY <1>2, <2>1
  <2> QED BY <2>2, <2>3
<1>3. ASSUME NEW t \in Threads, LockGet(t) PROVE MutexInv'
  BY <1>3, ThreadsAssumption DEF LockGet, Goto, Types
<1>4. ASSUME NEW t \in Threads, UnlockGet(t) PROVE MutexInv'
  BY <1>4 DEF UnlockGet, Goto, Types
<1>5. ASSUME NEW t \in Threads, CallGet(t) \/ CallRelease(t) \/ LockToRelease(t)
                                  \/ PushReleased(t) \/ EraseIdle(t) \/ PushBusy(t) \/ EraseBusy(t)
      PROVE  MutexInv'
  BY <1>2, <1>5 DEF CallGet, CallRelease, LockToRelease, PushReleased, EraseIdle, PushBusy,
                    EraseBusy, Steps
<1>6. ASSUME NEW t \in Threads, LockToBusy(t) \/ LockToErase(t) PROVE MutexInv'
  BY <1>2, <1>6 DEF LockToBusy, LockToErase, Steps
<1>7. ASSUME NEW t \in Threads, ReadFront(t) \/ Ping(t) PROVE MutexInv'
  BY <1>1, <1>2, <1>7 DEF ReadFront, Ping, Steps
<1> QED BY <1>1, <1>3, <1>4, <1>5, <1>6, <1>7
        DEF Next, GetStep, ReleaseStep, FreeMysqlConnPool, DataRace, vars, lists

-----------------------------------------------------------------------------
(* The entries.                                                            *)
EnteredFor(n) == {t \in At(Entered) : conn[t] = n}

LEMMA EntryStep == Types /\ EntryInv /\ [Next]_vars => EntryInv'
<1> SUFFICES ASSUME Types, EntryInv, [Next]_vars PROVE EntryInv'
  OBVIOUS
<1>0. \A n \in Nodes : /\ IsFiniteSet(EnteredFor(n))
                       /\ Cardinality(EnteredFor(n)) \in Nat
                       /\ MysqlConnBusyList[n] \in Nat
                       /\ MysqlConnBusyList[n] >= Cardinality(EnteredFor(n))
  <2>1. \A n \in Nodes : EnteredFor(n) \in SUBSET Threads
    BY DEF EnteredFor, At
  <2> QED BY <2>1, ThreadsAssumption, FS_Subset, FS_CardinalityType
          DEF EntryInv, EnteredFor, Types
<1>1. CASE UNCHANGED <<MysqlConnBusyList, pc, conn>>
  BY <1>1 DEF EntryInv, At
<1>2. ASSUME NEW t \in Threads, NEW s \in Steps, Goto(t, s),
             s \in Entered <=> pc[t] \in Entered, s \in Entered => conn'[t] = conn[t],
             \A u \in Threads \ {t} : conn'[u] = conn[u],
             \A n \in Nodes : MysqlConnBusyList'[n] \in Nat
                              /\ MysqlConnBusyList'[n] >= MysqlConnBusyList[n]
      PROVE  EntryInv'
  <2>1. At(Entered)' = At(Entered)
    <3>1. At(Entered)' = IF s \in Entered THEN At(Entered) \cup {t} ELSE At(Entered) \ {t}
      BY <1>2, AtMoves
    <3>2. t \in At(Entered) <=> pc[t] \in Entered
      BY DEF At
    <3> QED BY <1>2, <3>1, <3>2
  <2>2. t \in At(Entered) => s \in Entered
    BY <1>2 DEF At
  <2>3. \A n \in Nodes : EnteredFor(n)' = EnteredFor(n)
    BY <1>2, <2>1, <2>2 DEF EnteredFor, At
  <2> QED BY <1>0, <1>2, <2>3 DEF EntryInv, EnteredFor
<1>3. ASSUME NEW t \in Threads,
             CallGet(t) \/ CallRelease(t) \/ LockGet(t) \/ LockToBusy(t) \/ EraseIdle(t)
               \/ UnlockGet(t) \/ LockToRelease(t) \/ LockToErase(t)
      PROVE  EntryInv'
  <2>1. UNCHANGED <<MysqlConnBusyList, conn>>
    BY <1>3 DEF CallGet, CallRelease, LockGet, LockToBusy, EraseIdle, UnlockGet,
                LockToRelease, LockToErase, lists
  <2>2. \A n \in Nodes : MysqlConnBusyList'[n] \in Nat
                         /\ MysqlConnBusyList'[n] >= MysqlConnBusyList[n]
    BY <1>0, <2>1
  <2> QED BY <1>2, <1>3, <2>1, <2>2
          DEF CallGet, CallRelease, LockGet, LockToBusy, EraseIdle, UnlockGet, LockToRelease,
              LockToErase, Steps, Entered, Uncounted, Releasing
<1>4. ASSUME NEW t \in Threads, ReadFront(t) \/ Ping(t) PROVE EntryInv'
  <2>1. CASE UNCHANGED <<pc, conn>>
    BY <1>1, <1>4, <2>1 DEF ReadFront, Ping, lists
  <2>2. CASE ~UNCHANGED <<pc, conn>>
    <3>1. PICK s \in {"ping", "lockToBusy", "rest"} : Goto(t, s)
      BY <1>4, <2>2 DEF ReadFront, Ping
    <3>2. UNCHANGED MysqlConnBusyList /\ \A u \in Threads \ {t} : conn'[u] = conn[u]
      BY <1>4 DEF ReadFront, Ping, Types, lists
    <3>3. pc[t] \in {"front", "ping"}
      BY <1>4 DEF ReadFront, Ping
    <3>4. \A n \in Nodes : MysqlConnBusyList'[n] \in Nat
                           /\ MysqlConnBusyList'[n] >= MysqlConnBusyList[n]
      BY <1>0, <3>2
    <3> QED BY <1>2, <3>1, <3>2, <3>3, <3>4 DEF Steps, Entered, Uncounted, Releasing
  <2> QED BY <2>1, <2>2
<1>5. ASSUME NEW t \in Threads, PushReleased(t) PROVE EntryInv'
  <2>1. \A n \in Nodes : MysqlConnBusyList'[n] \in Nat
                         /\ MysqlConnBusyList'[n] >= MysqlConnBusyList[n]
    BY <1>0, <1>5 DEF PushReleased, Types
  <2> QED BY <1>2, <1>5, <2>1 DEF PushReleased, Steps, Entered, Uncounted, Releasing
<1>6. ASSUME NEW t \in Threads, PushBusy(t) PROVE EntryInv'
  <2>1. /\ conn[t] \in Nodes /\ UNCHANGED conn
        /\ MysqlConnBusyList'[conn[t]] = MysqlConnBusyList[conn[t]] + 1
        /\ \A n \in Nodes \ {conn[t]} : MysqlConnBusyList'[n] = MysqlConnBusyList[n]
    BY <1>6 DEF PushBusy, Types
  <2>2. At(Entered)' = At(Entered) \cup {t}
    BY <1>6, AtMoves DEF PushBusy, Entered, Steps
  <2>3. /\ EnteredFor(conn[t])' = EnteredFor(conn[t]) \cup {t}
        /\ \A n \in Nodes \ {conn[t]} : EnteredFor(n)' = EnteredFor(n)
    BY <2>1, <2>2 DEF EnteredFor
  <2>4. Cardinality(EnteredFor(conn[t]) \cup {t}) <= Cardinality(EnteredFor(conn[t])) + 1
    <3>1. IsFiniteSet(EnteredFor(conn[t])) /\ Cardinality(EnteredFor(conn[t])) \in Nat
      BY <1>0, <2>1
    <3> QED BY <3>1, FS_AddElement
  <2>5. MysqlConnBusyList'[conn[t]] >= Cardinality(EnteredFor(conn[t])')
    <3>1. Cardinality(EnteredFor(conn[t])') <= Cardinality(EnteredFor(conn[t])) + 1
      BY <2>3, <2>4
    <3>2. Cardinality(EnteredFor(conn[t])') \in Nat
      BY <1>0, <2>1, <2>3, FS_AddElement, FS_CardinalityType
    <3> QED BY <1>0, <2>1, <3>1, <3>2
  <2>6. \A n \in Nodes \ {conn[t]} : MysqlConnBusyList'[n] >= Cardinality(EnteredFor(n)')
    BY <1>0, <2>1, <2>3
  <2> QED BY <2>1, <2>5, <2>6 DEF EntryInv, EnteredFor
<1>7. ASSUME NEW t \in Threads, EraseBusy(t) PROVE EntryInv'
  <2>0. PICK m \in Nodes : m = conn[t]
    BY <1>7 DEF EraseBusy, Types, Steps
  <2>1. /\ conn'[t] = NoNode /\ \A u \in Threads \ {t} : conn'[u] = conn[u]
        /\ MysqlConnBusyList'[m] = IF MysqlConnBusyList[m] > 0
                                         THEN MysqlConnBusyList[m] - 1 ELSE 0
        /\ \A n \in Nodes \ {m} : MysqlConnBusyList'[n] = MysqlConnBusyList[n]
    BY <1>7, <2>0 DEF EraseBusy, Types
  <2>2. At(Entered)' = At(Entered) \ {t} /\ t \in At(Entered)
    <3>1. pc[t] \in Entered /\ "rest" \in Steps \ Entered /\ Goto(t, "rest")
      BY <1>7 DEF EraseBusy, Entered, Uncounted, Releasing, Steps
    <3> QED BY <3>1, AtMoves DEF At
  <2>3. /\ EnteredFor(m)' = EnteredFor(m) \ {t} /\ t \in EnteredFor(m)
        /\ \A n \in Nodes \ {m} : EnteredFor(n)' = EnteredFor(n)
    <3>1. NoNode \notin Nodes
      BY NodesAssumption
    <3> QED BY <2>0, <2>1, <2>2, <3>1 DEF EnteredFor, At
  <2>4. Cardinality(EnteredFor(m) \ {t}) = Cardinality(EnteredFor(m)) - 1
    BY <1>0, <2>1, <2>3, FS_RemoveElement
  <2>5. MysqlConnBusyList'[m] >= Cardinality(EnteredFor(m)')
    BY <1>0, <2>1, <2>3, <2>4
  <2>6. \A n \in Nodes \ {m} : MysqlConnBusyList'[n] >= Cardinality(EnteredFor(n)')
    BY <1>0, <2>1, <2>3
  <2> QED BY <2>1, <2>5, <2>6 DEF EntryInv, EnteredFor
<1> QED BY <1>1, <1>3, <1>4, <1>5, <1>6, <1>7
        DEF Next, GetStep, ReleaseStep, FreeMysqlConnPool, DataRace, vars, lists

-----------------------------------------------------------------------------
(* The count.                                                              *)
LEMMA CountStep == Types /\ CountInv /\ [Next]_vars => CountInv'
<1> SUFFICES ASSUME Types, CountInv, [Next]_vars PROVE CountInv'
  OBVIOUS
<1>0. /\ \A p : Num(p) \in Nat
      /\ gets \in Nat /\ m_CurrentIdleConnNum \in Int
      /\ m_IdleInitNum \in Nat /\ Cardinality(Nodes) \in Nat /\ Cardinality(Threads) \in Nat
  BY Numbers, OptionsAssumption DEF Types
<1>1. CASE UNCHANGED <<m_CurrentIdleConnNum, m_IdleInitNum, pc, gets>>
  BY <1>1 DEF CountInv, Num, At
(* A thread goes on: what changes is said by the two places and by the     *)
(* changes of the count and the calls.                                     *)
<1>2. ASSUME NEW t \in Threads, NEW s \in Steps, Goto(t, s), UNCHANGED m_IdleInitNum,
             m_IdleInitNum = 0 => s \notin Asking \cup {"unlockGet"},
             gets' = gets + (IF pc[t] = "rest" THEN 1 ELSE 0),
             m_CurrentIdleConnNum' =
                 m_CurrentIdleConnNum + (IF pc[t] \in Uncounted THEN 1 ELSE 0)
                                      - (IF s \in Uncounted THEN 1 ELSE 0),
             pc[t] # "unlockGet" => (s \in Releasing => pc[t] \in Releasing),
             pc[t] \in Releasing => m_CurrentIdleConnNum' >= m_CurrentIdleConnNum
      PROVE  CountInv'
  <2>1. /\ Num(Steps \ {"rest"})' = Num(Steps \ {"rest"})
                                      + (IF s \in Steps \ {"rest"} THEN 1 ELSE 0)
                                      - (IF pc[t] \in Steps \ {"rest"} THEN 1 ELSE 0)
        /\ Num(Uncounted)' = Num(Uncounted) + (IF s \in Uncounted THEN 1 ELSE 0)
                                            - (IF pc[t] \in Uncounted THEN 1 ELSE 0)
        /\ Num(Releasing)' = Num(Releasing) + (IF s \in Releasing THEN 1 ELSE 0)
                                            - (IF pc[t] \in Releasing THEN 1 ELSE 0)
    BY <1>2, AtMoves
  <2>2. Num(Steps \ {"rest"})' <= gets'
    <3>1. Num(Steps \ {"rest"}) <= gets /\ pc[t] \in Steps
      BY <1>0 DEF CountInv, Types
    <3>2. /\ Num(Steps \ {"rest"}) \in Nat /\ gets \in Nat
          /\ Num(Steps \ {"rest"})' <= Num(Steps \ {"rest"})
                                         + (IF pc[t] = "rest" THEN 1 ELSE 0)
      BY <1>0, <2>1, <3>1 DEF CountInv, Types
    <3>3. gets' = gets + (IF pc[t] = "rest" THEN 1 ELSE 0)
      BY <1>2
    <3> QED BY <2>1, <3>1, <3>2, <3>3
  <2>3. m_IdleInitNum' > 0 => m_CurrentIdleConnNum' = Cardinality(Nodes) - Num(Uncounted)'
    <3>1. CASE m_IdleInitNum > 0
      <4>1. m_CurrentIdleConnNum = Cardinality(Nodes) - Num(Uncounted)
        BY <3>1 DEF CountInv
      <4> QED BY <1>0, <1>2, <2>1, <4>1
    <3> QED BY <1>2, <3>1
  <2>4. ASSUME m_IdleInitNum = 0
        PROVE  /\ At(Asking \cup {"unlockGet"})' = {}
               /\ m_CurrentIdleConnNum' >= 0
               /\ m_CurrentIdleConnNum' + Num(Releasing)' <= Cardinality(Threads)
    <3>1. /\ At(Asking \cup {"unlockGet"}) = {} /\ m_CurrentIdleConnNum >= 0
          /\ m_CurrentIdleConnNum + Num(Releasing) <= Cardinality(Threads)
      BY <2>4 DEF CountInv
    <3>2. At(Asking \cup {"unlockGet"})' = {}
      <4>1. s \notin Asking \cup {"unlockGet"}
        BY <1>2, <2>4
      <4>2. At(Asking \cup {"unlockGet"})' = At(Asking \cup {"unlockGet"}) \ {t}
        BY <1>2, <4>1, AtMoves
      <4> QED BY <3>1, <4>2
    <3>3. pc[t] # "unlockGet" /\ pc[t] \notin Asking /\ s # "unlockGet"
      BY <1>2, <2>4, <3>1 DEF At
    <3>4. (pc[t] \in Uncounted <=> pc[t] \in Releasing) /\ (s \in Uncounted <=> s \in Releasing)
      BY <3>3 DEF Uncounted
    <3>5. m_CurrentIdleConnNum' + Num(Releasing)' = m_CurrentIdleConnNum + Num(Releasing)
      BY <1>0, <1>2, <2>1, <3>4
    <3>6. m_CurrentIdleConnNum' >= m_CurrentIdleConnNum
      <4>1. s \in Releasing => pc[t] \in Releasing
        BY <1>2, <3>3
      <4> QED BY <1>0, <1>2, <3>4, <4>1
    <3>7. m_CurrentIdleConnNum' \in Int
      BY <1>0, <1>2
    <3> QED BY <1>0, <3>1, <3>2, <3>5, <3>6, <3>7
  <2> QED BY <1>2, <2>2, <2>3, <2>4 DEF CountInv
<1>3. ASSUME NEW t \in Threads, CallGet(t) PROVE CountInv'
  BY <1>0, <1>2, <1>3 DEF CallGet, lists, Steps, Uncounted, Releasing
<1>4. ASSUME NEW t \in Threads,
             CallRelease(t) \/ LockGet(t) \/ LockToBusy(t) \/ PushBusy(t) \/ EraseIdle(t)
               \/ UnlockGet(t) \/ LockToRelease(t) \/ PushReleased(t) \/ LockToErase(t)
               \/ EraseBusy(t)
      PROVE  CountInv'
  <2>1. m_IdleInitNum = 0 => pc[t] \notin Asking \cup {"unlockGet"}
    BY DEF CountInv, At
  <2>2. gets' = gets + 0 /\ UNCHANGED m_IdleInitNum
    BY <1>0, <1>4 DEF CallRelease, LockGet, LockToBusy, PushBusy, EraseIdle, UnlockGet,
                LockToRelease, PushReleased, LockToErase, EraseBusy
  <2>3. CASE CallRelease(t) \/ LockGet(t) \/ LockToBusy(t) \/ PushBusy(t)
    BY <1>0, <1>2, <2>1, <2>2, <2>3
       DEF CallRelease, LockGet, LockToBusy, PushBusy, lists, Steps, Uncounted, Releasing, Asking
  <2>4. CASE EraseIdle(t) \/ UnlockGet(t)
    BY <1>0, <1>2, <2>1, <2>2, <2>4
       DEF EraseIdle, UnlockGet, lists, Steps, Uncounted, Releasing, Asking
  <2>5. CASE LockToRelease(t) \/ PushReleased(t) \/ LockToErase(t) \/ EraseBusy(t)
    BY <1>0, <1>2, <2>1, <2>2, <2>5
       DEF LockToRelease, PushReleased, LockToErase, EraseBusy, lists, Steps, Uncounted,
           Releasing, Asking
  <2> QED BY <1>4, <2>3, <2>4, <2>5
<1>5. ASSUME NEW t \in Threads, ReadFront(t) \/ Ping(t) PROVE CountInv'
  <2>1. UNCHANGED <<m_CurrentIdleConnNum, m_IdleInitNum, gets>> /\ pc[t] \in {"front", "ping"}
    BY <1>5 DEF ReadFront, Ping, lists
  <2>2. CASE UNCHANGED pc
    BY <1>1, <2>1, <2>2
  <2>3. CASE ~UNCHANGED pc
    <3>1. PICK s \in {"ping", "lockToBusy", "rest"} : Goto(t, s)
      BY <1>5, <2>3 DEF ReadFront, Ping
    <3>2. m_IdleInitNum # 0
      BY <2>1 DEF CountInv, At, Asking
    <3> QED BY <1>0, <1>2, <2>1, <3>1, <3>2 DEF Steps, Uncounted, Releasing, Asking
  <2> QED BY <2>2, <2>3
<1>6. CASE FreeMysqlConnPool
  <2>1. UNCHANGED <<pc, gets>> /\ m_CurrentIdleConnNum' = 0 /\ m_IdleInitNum' = 0
        /\ At({"rest", "hold"}) = Threads
    BY <1>6 DEF FreeMysqlConnPool
  <2>2. At(Asking \cup {"unlockGet"}) = {}
    BY <2>1 DEF At, Asking
  <2>3. \A p : Num(p)' = Num(p) /\ At(p)' = At(p) /\ Num(p) <= Cardinality(Threads)
    BY <2>1, Numbers DEF Num, At
  <2>4. Num(Steps \ {"rest"})' <= gets'
    BY <2>1, <2>3 DEF CountInv
  <2>5. m_CurrentIdleConnNum' + Num(Releasing)' <= Cardinality(Threads)
    BY <1>0, <2>1, <2>3
  <2>6. At(Asking \cup {"unlockGet"})' = {}
    BY <2>2, <2>3
  <2> QED BY <2>1, <2>4, <2>5, <2>6 DEF CountInv
<1> QED BY <1>1, <1>3, <1>4, <1>5, <1>6
        DEF Next, GetStep, ReleaseStep, DataRace, vars, lists

-----------------------------------------------------------------------------
(* The idle list.                                                          *)

(* While there are no more calls than connections a thread that asks finds *)
(* one.                                                                    *)
LEMMA FrontExists ==
    ASSUME Types, CountInv, FrontInv, NEW t \in At(Asking), gets <= Cardinality(Nodes)
    PROVE  MysqlConnIdleList # <<>>
<1>1. m_IdleInitNum > 0
  <2>1. m_IdleInitNum # 0
    BY DEF CountInv, At
  <2> QED BY <2>1, Numbers DEF Types
<1>2. Num(Asking) \in Nat \ {0}
  BY Numbers, FS_EmptySet DEF Num
<1>3. Len(MysqlConnIdleList) + gets >= Cardinality(Nodes) + Num(Asking)
  BY <1>1 DEF FrontInv
<1>4. Len(MysqlConnIdleList) \in Nat /\ gets \in Nat /\ Cardinality(Nodes) \in Nat
  BY Numbers, OptionsAssumption DEF Types
<1>5. Len(MysqlConnIdleList) > 0
  BY <1>2, <1>3, <1>4
<1> QED BY <1>5

(* erase of one node.                                                      *)
LEMMA EraseShortens ==
    ASSUME NEW s \in Seq(Nodes), IsInjective(s), NEW n \in Nodes
    PROVE  /\ RemoveFirst(s, n) \in Seq(Nodes) /\ IsInjective(RemoveFirst(s, n))
           /\ ToSet(RemoveFirst(s, n)) = ToSet(s) \ {n}
           /\ Len(s) \in Nat /\ Len(RemoveFirst(s, n)) \in Nat
           /\ Len(RemoveFirst(s, n)) + 1 >= Len(s)
<1>1. /\ RemoveFirst(s, n) \in Seq(Nodes) /\ IsInjective(RemoveFirst(s, n))
      /\ ToSet(RemoveFirst(s, n)) = ToSet(s) \ {n}
  BY RemoveFirstOfDistinct
<1>2. /\ Len(s) = Cardinality(ToSet(s)) /\ Len(s) \in Nat
      /\ Len(RemoveFirst(s, n)) = Cardinality(ToSet(s) \ {n})
      /\ Len(RemoveFirst(s, n)) \in Nat
  BY <1>1, LengthOfDistinct, NodesAssumption
<1>3. ToSet(s) \in SUBSET Nodes
  BY DEF ToSet
<1>4. IsFiniteSet(ToSet(s))
  BY <1>3, NodesAssumption, FS_Subset
<1>5. Cardinality(ToSet(s) \ {n}) + 1 >= Cardinality(ToSet(s))
  <2>1. Cardinality(ToSet(s) \ {n}) =
            IF n \in ToSet(s) THEN Cardinality(ToSet(s)) - 1 ELSE Cardinality(ToSet(s))
    BY <1>4, FS_RemoveElement
  <2> QED BY <1>2, <2>1
<1> QED BY <1>1, <1>2, <1>5

(* Every step.                                                             *)
LEMMA FrontStep == Types /\ MutexInv /\ CountInv /\ FrontInv /\ [Next]_vars => FrontInv'
<1> SUFFICES ASSUME Types, MutexInv, CountInv, FrontInv, [Next]_vars PROVE FrontInv'
  OBVIOUS
<1>0. /\ \A p : Num(p) \in Nat
      /\ gets \in Nat /\ Cardinality(Nodes) \in Nat /\ Len(MysqlConnIdleList) \in Nat
  BY Numbers, OptionsAssumption DEF Types
<1>1. CASE UNCHANGED <<MysqlConnIdleList, m_IdleInitNum, pc, conn, gets>>
  BY <1>1 DEF FrontInv, Num, At
<1>2. ASSUME NEW t \in Threads, NEW s \in Steps, Goto(t, s),
             UNCHANGED <<MysqlConnIdleList, m_IdleInitNum>>,
             gets' = gets + (IF pc[t] = "rest" THEN 1 ELSE 0),
             pc[t] # "rest" => (s \in Asking => pc[t] \in Asking),
             s \in Chosen => pc[t] \in Chosen, s \in Held => pc[t] \in Held,
             \A u \in Threads : u # t \/ s \in Chosen \cup Held => conn'[u] = conn[u]
      PROVE  FrontInv'
  <2>1. /\ At(Chosen)' \subseteq At(Chosen) /\ At(Held)' \subseteq At(Held)
        /\ t \in At(Chosen)' \cup At(Held)' => s \in Chosen \cup Held
    <3>1. pc'[t] = s /\ \A u \in Threads \ {t} : pc'[u] = pc[u]
      BY <1>2 DEF Types, Goto
    <3> QED BY <1>2, <3>1 DEF At
  <2>2. \A u \in At(Chosen)' \cup At(Held)' : conn'[u] = conn[u]
    BY <1>2, <2>1 DEF At
  <2>3. gets' >= gets
    BY <1>0, <1>2
  <2>4. gets' <= Cardinality(Nodes) => gets <= Cardinality(Nodes)
    BY <1>0, <1>2
  <2>5. m_IdleInitNum' > 0 =>
            Len(MysqlConnIdleList') + gets' >= Cardinality(Nodes) + Num(Asking)'
    <3>1. Num(Asking)' = Num(Asking) + (IF s \in Asking THEN 1 ELSE 0)
                                     - (IF pc[t] \in Asking THEN 1 ELSE 0)
      BY <1>2, AtMoves
    <3>2. Num(Asking)' - Num(Asking) <= gets' - gets
      BY <1>0, <1>2, <3>1
    <3>3. Num(Asking)' \in Int /\ gets' \in Int
      BY <1>0, <1>2, <3>1
    <3>4. m_IdleInitNum > 0 =>
              Len(MysqlConnIdleList) + gets >= Cardinality(Nodes) + Num(Asking)
      BY DEF FrontInv
    <3> QED BY <1>0, <1>2, <3>2, <3>3, <3>4
  <2>6. ASSUME gets' <= Cardinality(Nodes)
        PROVE  /\ \A u \in At(Chosen)' :
                     MysqlConnIdleList' # <<>> /\ conn'[u] = Head(MysqlConnIdleList')
               /\ \A u \in At(Held)' : conn'[u] \notin ToSet(MysqlConnIdleList')
               /\ \A u, v \in At(Held)' : conn'[u] = conn'[v] => u = v
    BY <1>2, <2>1, <2>2, <2>4, <2>6 DEF FrontInv
  <2> QED BY <1>2, <2>5, <2>6 DEF FrontInv
<1>3. ASSUME NEW t \in Threads,
             CallGet(t) \/ CallRelease(t) \/ LockGet(t) \/ LockToBusy(t) \/ PushBusy(t)
               \/ UnlockGet(t)
      PROVE  FrontInv'
  <2>1. /\ UNCHANGED <<MysqlConnIdleList, m_IdleInitNum, conn>>
        /\ gets' = gets + (IF pc[t] = "rest" THEN 1 ELSE 0)
    BY <1>0, <1>3 DEF CallGet, CallRelease, LockGet, LockToBusy, PushBusy, UnlockGet, lists
  <2> QED BY <1>2, <1>3, <2>1
          DEF CallGet, CallRelease, LockGet, LockToBusy, PushBusy, UnlockGet, Steps, Asking,
              Chosen, Held
<1>4. ASSUME NEW t \in Threads,
             LockToRelease(t) \/ PushReleased(t) \/ LockToErase(t) \/ EraseBusy(t)
      PROVE  FrontInv'
  <2>1. /\ UNCHANGED <<MysqlConnIdleList, m_IdleInitNum>>
        /\ gets' = gets + (IF pc[t] = "rest" THEN 1 ELSE 0)
        /\ \A u \in Threads \ {t} : conn'[u] = conn[u]
    BY <1>0, <1>4 DEF LockToRelease, PushReleased, LockToErase, EraseBusy, lists, Types
  <2> QED BY <1>2, <1>4, <2>1
          DEF LockToRelease, PushReleased, LockToErase, EraseBusy, Steps, Asking, Chosen, Held
<1>5. ASSUME NEW t \in Threads, Ping(t) PROVE FrontInv'
  <2>1. /\ UNCHANGED <<MysqlConnIdleList, m_IdleInitNum>>
        /\ gets' = gets + (IF pc[t] = "rest" THEN 1 ELSE 0)
        /\ pc[t] = "ping"
        /\ \A u \in Threads \ {t} : conn'[u] = conn[u]
    BY <1>0, <1>5 DEF Ping, lists, Types
  <2>2. PICK s \in {"lockToBusy", "rest"} : Goto(t, s) /\ (s = "lockToBusy" => UNCHANGED conn)
    BY <1>5 DEF Ping
  <2> QED BY <1>2, <2>1, <2>2 DEF Steps, Asking, Chosen, Held
<1>6. ASSUME NEW t \in Threads, ReadFront(t) PROVE FrontInv'
  <2>1. UNCHANGED <<MysqlConnIdleList, m_IdleInitNum, gets>> /\ pc[t] = "front"
    BY <1>6 DEF ReadFront, lists
  <2>2. CASE UNCHANGED <<pc, conn>>
    BY <1>1, <2>1, <2>2
  <2>3. ASSUME NEW n \in Nodes, MysqlConnIdleList # <<>> => n = Head(MysqlConnIdleList),
               conn' = [conn EXCEPT ![t] = n], Goto(t, "ping")
        PROVE  FrontInv'
    <3>1. /\ conn'[t] = n /\ pc'[t] = "ping"
          /\ \A u \in Threads \ {t} : conn'[u] = conn[u] /\ pc'[u] = pc[u]
      BY <2>3 DEF Types, Goto
    <3>2. At(Chosen)' = At(Chosen) \cup {t} /\ At(Held)' = At(Held) /\ t \notin At(Held)
      BY <2>1, <3>1 DEF At, Chosen, Held
    <3>3. Num(Asking)' = Num(Asking)
      <4>1. At(Asking)' = At(Asking)
        BY <2>1, <3>1 DEF At, Asking
      <4> QED BY <4>1 DEF Num
    <3>4. t \in At(Asking)
      BY <2>1 DEF At, Asking
    <3>5. gets <= Cardinality(Nodes) => MysqlConnIdleList # <<>>
      BY <3>4, FrontExists
    <3>6. \A u \in At(Held) : conn'[u] = conn[u]
      BY <3>1, <3>2 DEF At
    <3>7. ASSUME NEW u \in At(Chosen)', gets <= Cardinality(Nodes)
          PROVE  MysqlConnIdleList # <<>> /\ conn'[u] = Head(MysqlConnIdleList)
      <4>1. CASE u = t
        BY <2>3, <3>1, <3>5, <3>7, <4>1
      <4>2. CASE u # t
        BY <3>1, <3>2, <3>7, <4>2 DEF FrontInv, At
      <4> QED BY <4>1, <4>2
    <3> QED BY <2>1, <3>2, <3>3, <3>6, <3>7 DEF FrontInv
  <2> QED BY <1>6, <2>2, <2>3 DEF ReadFront
<1>7. ASSUME NEW t \in Threads, EraseIdle(t) PROVE FrontInv'
  <2>0. PICK m \in Nodes : m = conn[t]
    BY <1>7 DEF EraseIdle, Types
  <2>1. /\ UNCHANGED <<m_IdleInitNum, gets, conn>> /\ pc[t] = "eraseIdle"
        /\ MysqlConnIdleList' = RemoveFirst(MysqlConnIdleList, m)
        /\ pc'[t] = "unlockGet" /\ \A u \in Threads \ {t} : pc'[u] = pc[u]
    BY <1>7, <2>0 DEF EraseIdle, Goto, Types
  <2>2. /\ IsInjective(MysqlConnIdleList')
        /\ ToSet(MysqlConnIdleList') = ToSet(MysqlConnIdleList) \ {m}
        /\ Len(MysqlConnIdleList') \in Nat
        /\ Len(MysqlConnIdleList') + 1 >= Len(MysqlConnIdleList)
    BY <2>0, <2>1, EraseShortens DEF Types, FrontInv
  <2>3. At(Chosen)' = {} /\ At(Held)' = At(Held) \cup {t}
    BY <2>1 DEF At, Chosen, Held, MutexInv, Getting
  <2>4. m_IdleInitNum' > 0 =>
            Len(MysqlConnIdleList') + gets' >= Cardinality(Nodes) + Num(Asking)'
    <3>1. Num(Asking)' = Num(Asking) - 1
      <4>1. Goto(t, "unlockGet") /\ "unlockGet" \in Steps \ Asking /\ pc[t] \in Asking
        BY <1>7 DEF EraseIdle, Asking, Steps
      <4>2. Num(Asking)' = Num(Asking) + 0 - 1
        BY <4>1, AtMoves
      <4> QED BY <1>0, <4>2
    <3>2. m_IdleInitNum > 0 =>
              Len(MysqlConnIdleList) + gets >= Cardinality(Nodes) + Num(Asking)
      BY DEF FrontInv
    <3> QED BY <1>0, <2>1, <2>2, <3>1, <3>2
  <2>5. ASSUME gets <= Cardinality(Nodes)
        PROVE  /\ \A u \in At(Held) \cup {t} : conn[u] \notin ToSet(MysqlConnIdleList')
               /\ \A u, v \in At(Held) \cup {t} : conn[u] = conn[v] => u = v
    <3>1. MysqlConnIdleList # <<>> /\ m = Head(MysqlConnIdleList)
      BY <2>0, <2>1, <2>5 DEF FrontInv, At, Chosen
    <3>2. m \in ToSet(MysqlConnIdleList)
      <4>1. MysqlConnIdleList \in Seq(Nodes)
        BY DEF Types
      <4> QED BY <3>1, <4>1 DEF ToSet
    <3>3. \A u \in At(Held) : conn[u] # m
      BY <2>5, <3>2 DEF FrontInv
    <3> QED BY <2>0, <2>2, <2>5, <3>3 DEF FrontInv
  <2> QED BY <2>1, <2>2, <2>3, <2>4, <2>5 DEF FrontInv
<1>8. CASE FreeMysqlConnPool
  <2>1. /\ UNCHANGED <<pc, conn, gets>> /\ MysqlConnIdleList' = <<>> /\ m_IdleInitNum' = 0
        /\ At({"rest", "hold"}) = Threads
    BY <1>8 DEF FreeMysqlConnPool
  <2>2. At(Chosen)' = {} /\ At(Held)' = At(Held)
    BY <2>1 DEF At, Chosen
  <2>3. IsInjective(<<>>) /\ ToSet(<<>>) = {}
    BY DEF IsInjective, ToSet
  <2> QED BY <2>1, <2>2, <2>3 DEF FrontInv
<1> QED BY <1>1, <1>3, <1>4, <1>5, <1>6, <1>7, <1>8
        DEF Next, GetStep, ReleaseStep, DataRace, vars, lists

-----------------------------------------------------------------------------
(* The undefined steps.                                                    *)
LEMMA UndefinedStep ==
    Types /\ MutexInv /\ CountInv /\ FrontInv /\ UndefinedNeedsRelease /\ [Next]_vars
        => UndefinedNeedsRelease'
<1> SUFFICES ASSUME Types, MutexInv, CountInv, FrontInv, UndefinedNeedsRelease, [Next]_vars,
                    ~alive'
             PROVE  (IdleListLocked # {} \/ gets > Cardinality(Nodes))'
  BY DEF UndefinedNeedsRelease
<1>0. gets \in Nat /\ Cardinality(Nodes) \in Nat
  BY Numbers, OptionsAssumption DEF Types
<1>1. CASE UNCHANGED vars
  BY <1>1 DEF vars, UndefinedNeedsRelease, IdleListLocked, At
<1>2. ASSUME NEW t \in Threads, ReadFront(t), alive
      PROVE  (IdleListLocked # {} \/ gets > Cardinality(Nodes))'
  <2>1. MysqlConnIdleList = <<>> /\ t \in At(Asking) /\ gets' = gets
    BY <1>2 DEF ReadFront, At, Asking
  <2> QED BY <1>0, <2>1, FrontExists
<1>3. CASE DataRace
  <2>1. UNCHANGED pc /\ Cardinality(BusyListUsers) > 1
    BY <1>3 DEF DataRace
  <2>2. ASSUME IdleListLocked = {} PROVE FALSE
    <3>1. BusyListUsers = BusyListLocked
      BY <2>2 DEF BusyListUsers
    <3>2. BusyListLocked = {} \/ \E t \in BusyListLocked : BusyListLocked = {t}
      BY DEF MutexInv
    <3>3. Cardinality(BusyListLocked) \in {0, 1}
      BY <3>2, FS_EmptySet, FS_Singleton
    <3> QED BY <2>1, <3>1, <3>3
  <2> QED BY <2>1, <2>2 DEF IdleListLocked, At
<1>4. CASE Next /\ alive' = alive
  BY <1>4 DEF Next
<1> QED BY <1>1, <1>2, <1>3, <1>4
        DEF Next, GetStep, ReleaseStep, FreeMysqlConnPool, CallGet, CallRelease, LockGet, Ping,
            LockToBusy, PushBusy, EraseIdle, UnlockGet, LockToRelease, PushReleased, LockToErase,
            EraseBusy

-----------------------------------------------------------------------------
(* The theorems.                                                           *)

(* The invariant: what each thread between two mutexes knows of the two    *)
(* lists and of the count.                                                 *)
THEOREM ConnPoolInvariant == Spec => []ConnPoolInv
<1>1. ConnPoolInv /\ [Next]_vars => ConnPoolInv'
  BY TypesStep, MutexStep, EntryStep, CountStep, FrontStep, UndefinedStep DEF ConnPoolInv
<1> QED BY <1>1, PoolInit, PTL DEF Spec

(* The type invariant of MysqlPool: the count is never more than the       *)
(* connections and threads, and never less than the calls explain.         *)
THEOREM ConnPoolTypes == Spec => []TypeOK
<1>1. ConnPoolInv => TypeOK
  <2> SUFFICES ASSUME ConnPoolInv PROVE TypeOK
    OBVIOUS
  <2>1. /\ \A p : Num(p) \in Nat
        /\ gets \in Nat /\ gets <= MaxGets /\ MaxGets \in Nat /\ m_CurrentIdleConnNum \in Int
        /\ Cardinality(Nodes) \in Nat /\ Cardinality(Threads) \in Nat /\ m_IdleInitNum \in Nat
    BY Numbers, OptionsAssumption DEF ConnPoolInv, Types
  <2>2. Num(Uncounted) <= Num(Steps \ {"rest"})
    <3>1. At(Uncounted) \in SUBSET At(Steps \ {"rest"})
      BY DEF At, Uncounted, Releasing, Steps
    <3> QED BY <3>1, Numbers, FS_Subset DEF Num
  <2>3. m_CurrentIdleConnNum \in -MaxGets..(Cardinality(Nodes) + Cardinality(Threads))
    BY <2>1, <2>2 DEF ConnPoolInv, CountInv
  <2> QED BY <2>1, <2>3 DEF ConnPoolInv, Types, TypeOK
<1> QED BY <1>1, ConnPoolInvariant, PTL

(* While GetMysqlConn was not called more often than there are             *)
(* connections, no two threads hold the same one and none that is held can *)
(* be given out.                                                           *)
THEOREM ConnectionsAreExclusive == Spec => []ExclusiveUntilExhausted
<1>1. ConnPoolInv => ExclusiveUntilExhausted
  <2> SUFFICES ASSUME ConnPoolInv, gets <= Cardinality(Nodes), NEW n \in Nodes
               PROVE  /\ Cardinality(Holders(n)) <= 1
                      /\ Holders(n) # {} => n \notin ToSet(MysqlConnIdleList)
    BY DEF ExclusiveUntilExhausted
  <2>1. Holders(n) = {t \in At(Held) : conn[t] = n}
    BY DEF Holders, Held
  <2>2. Holders(n) = {} \/ \E t \in Holders(n) : Holders(n) = {t}
    BY <2>1 DEF ConnPoolInv, FrontInv
  <2>3. Cardinality(Holders(n)) \in {0, 1}
    BY <2>2, FS_EmptySet, FS_Singleton
  <2> QED BY <2>1, <2>3 DEF ConnPoolInv, FrontInv
<1> QED BY <1>1, ConnPoolInvariant, PTL

(* A connection has an entry in MysqlConnBusyList for every thread that    *)
(* holds it.                                                               *)
THEOREM HeldConnectionsAreBusy == Spec => []HeldIsBusy
<1>1. ConnPoolInv => HeldIsBusy
  <2> SUFFICES ASSUME ConnPoolInv, NEW n \in Nodes
               PROVE  MysqlConnBusyList[n] >= Cardinality(Holders(n))
    BY DEF HeldIsBusy
  <2>1. EnteredFor(n) \in SUBSET Threads /\ Holders(n) \in SUBSET EnteredFor(n)
    BY DEF EnteredFor, Holders, At, Entered, Uncounted, Releasing
  <2>2. /\ Cardinality(Holders(n)) <= Cardinality(EnteredFor(n))
        /\ Cardinality(Holders(n)) \in Nat /\ Cardinality(EnteredFor(n)) \in Nat
    BY <2>1, ThreadsAssumption, FS_Subset, FS_CardinalityType
  <2>3. MysqlConnBusyList[n] >= Cardinality(EnteredFor(n)) /\ MysqlConnBusyList[n] \in Nat
    BY DEF ConnPoolInv, Types, EntryInv, EnteredFor
  <2> QED BY <2>2, <2>3
<1> QED BY <1>1, ConnPoolInvariant, PTL

(* m_CurrentIdleConnNum is the number of connections less the threads that *)
(* hold one, until the pool is freed.                                      *)
THEOREM TheCountBalances == Spec => []CountBalances
<1>1. ConnPoolInv => CountBalances
  <2>1. Uncounted = {"unlockGet", "hold", "lockToRelease", "pushReleased"}
    BY DEF Uncounted, Releasing
  <2> QED BY <2>1 DEF ConnPoolInv, CountInv, CountBalances, Num
<1> QED BY <1>1, ConnPoolInvariant, PTL

(* Only the mutex that MoveToIdleList takes by mistake, and the front of   *)
(* an exhausted pool, are undefined.                                       *)
THEOREM UndefinedNeedsARelease == Spec => []UndefinedNeedsRelease
<1>1. ConnPoolInv => UndefinedNeedsRelease
  BY DEF ConnPoolInv
<1> QED BY <1>1, ConnPoolInvariant, PTL

-----------------------------------------------------------------------------
(* The mutexes.                                                            *)

(* A thread in a call that has to wait for a mutex.                        *)
Waits(t) ==
    \/ pc[t] = "lockGet" /\ m_GetConnMutex # NoThread
    \/ pc[t] \in {"lockToBusy", "lockToErase"} /\ BusyListLocked # {}
    \/ pc[t] \in {"eraseIdle", "lockToRelease"} /\ IdleListLocked # {}

(* While no ping fails, some thread in a call can go on: the three         *)
(* mutexes, two of them locked inside m_GetConnMutex and one alone, never  *)
(* block each other.                                                       *)
SomeCallGoesOn ==
    ~MayDisconnect =>
        At({"rest", "hold"}) = Threads \/ \E t \in Threads \ At({"rest", "hold"}) : ~Waits(t)

(* m_GetConnMutex is held by a thread that is not using it.                *)
MutexIsLost == \E t \in Threads : m_GetConnMutex = t /\ pc[t] \notin Getting

(* A ping that failed left m_GetConnMutex locked, and nothing unlocks it:  *)
(* no thread is given a connection any more.                               *)
LostMutexStaysLost ==
    [][MutexIsLost => MutexIsLost' /\ \A t \in Threads : ~LockGet(t)]_vars

(* As long as no ping fails, m_GetConnMutex is held by a thread that is    *)
(* using it.                                                               *)
OwnerInv == ~MayDisconnect => ~MutexIsLost

(* It stays with that thread until it is unlocked.                         *)
LEMMA OwnerStep == Types /\ MutexInv /\ OwnerInv /\ [Next]_vars => OwnerInv'
<1> SUFFICES ASSUME Types, MutexInv, OwnerInv, [Next]_vars, ~MayDisconnect,
                    NEW u \in Threads, m_GetConnMutex' = u
             PROVE  pc'[u] \in Getting
  BY DEF OwnerInv, MutexIsLost
<1>1. CASE UNCHANGED <<m_GetConnMutex, pc>>
  BY <1>1 DEF OwnerInv, MutexIsLost
<1>2. ASSUME NEW t \in Threads, NEW s \in Steps, Goto(t, s), UNCHANGED m_GetConnMutex,
             pc[t] \in Getting => s \in Getting
      PROVE  pc'[u] \in Getting
  <2>1. pc[u] \in Getting
    BY <1>2 DEF OwnerInv, MutexIsLost
  <2> QED BY <1>2, <2>1 DEF Types, Goto
<1>3. ASSUME NEW t \in Threads, LockGet(t) PROVE pc'[u] \in Getting
  BY <1>3 DEF LockGet, Goto, Types, Getting
<1>4. ASSUME NEW t \in Threads, UnlockGet(t) PROVE pc'[u] \in Getting
  BY <1>4, ThreadsAssumption DEF UnlockGet
<1>5. ASSUME NEW t \in Threads, CallGet(t) \/ CallRelease(t) \/ LockToRelease(t)
                                  \/ PushReleased(t) \/ EraseBusy(t) \/ LockToErase(t)
      PROVE  pc'[u] \in Getting
  BY <1>2, <1>5 DEF CallGet, CallRelease, LockToRelease, PushReleased, EraseBusy, LockToErase,
                    Steps, Getting
<1>6. ASSUME NEW t \in Threads, EraseIdle(t) \/ PushBusy(t) \/ LockToBusy(t)
      PROVE  pc'[u] \in Getting
  BY <1>2, <1>6 DEF EraseIdle, PushBusy, LockToBusy, Steps, Getting
<1>7. ASSUME NEW t \in Threads, ReadFront(t) \/ Ping(t) PROVE pc'[u] \in Getting
  BY <1>1, <1>2, <1>7 DEF ReadFront, Ping, Steps, Getting
<1> QED BY <1>1, <1>3, <1>4, <1>5, <1>6, <1>7
        DEF Next, GetStep, ReleaseStep, FreeMysqlConnPool, DataRace, vars, lists

(* Who holds a mutex goes on: inside m_GetConnMutex one of the others is   *)
(* locked, and inside those none.                                          *)
THEOREM CallsDoNotBlockEachOther == Spec => []SomeCallGoesOn
<1>1. ASSUME Types, MutexInv, OwnerInv PROVE SomeCallGoesOn
  <2> SUFFICES ASSUME ~MayDisconnect, NEW t \in Threads, pc[t] \notin {"rest", "hold"}
               PROVE  \E u \in Threads \ At({"rest", "hold"}) : ~Waits(u)
    BY DEF SomeCallGoesOn, At
  <2>1. CASE \E u \in Threads : pc[u] \in {"pushBusy", "eraseBusy", "pushReleased"}
    BY <2>1 DEF At, Waits
  <2>2. CASE \A u \in Threads : pc[u] \notin {"pushBusy", "eraseBusy", "pushReleased"}
    <3>1. BusyListLocked = {} /\ IdleListLocked = {}
      BY <2>2 DEF BusyListLocked, IdleListLocked, At
    <3>2. CASE pc[t] = "lockGet" /\ m_GetConnMutex # NoThread
      <4>1. m_GetConnMutex \in Threads /\ pc[m_GetConnMutex] \in Getting
        BY <1>1, <3>2 DEF Types, OwnerInv, MutexIsLost
      <4> QED BY <3>1, <4>1 DEF Waits, At, Getting
    <3>3. CASE ~(pc[t] = "lockGet" /\ m_GetConnMutex # NoThread)
      BY <3>1, <3>3 DEF Waits, At
    <3> QED BY <3>2, <3>3
  <2> QED BY <2>1, <2>2
<1>2. Init => OwnerInv
  BY ThreadsAssumption DEF Init, OwnerInv, MutexIsLost
<1>3. ConnPoolInv => Types /\ MutexInv
  BY DEF ConnPoolInv
<1> QED BY <1>1, <1>2, <1>3, OwnerStep, ConnPoolInvariant, PTL DEF Spec

(* When GetMysqlConn returns from a ping that failed, m_GetConnMutex stays *)
(* locked: no later call gets past it.                                     *)
THEOREM AFailedPingBlocksThePool == Spec => LostMutexStaysLost
<1>1. ASSUME Types, MutexInv, [Next]_vars, MutexIsLost
      PROVE  MutexIsLost' /\ \A t \in Threads : ~LockGet(t)
  <2>1. PICK u \in Threads : m_GetConnMutex = u /\ pc[u] \notin Getting
    BY <1>1 DEF MutexIsLost
  <2>2. \A t \in Threads : ~LockGet(t) /\ ~UnlockGet(t) /\ (pc[t] \in Getting => t = u)
    BY <1>1, <2>1, ThreadsAssumption DEF LockGet, UnlockGet, MutexInv, Getting
  <2>3. \A t \in Threads : pc[t] \notin Getting
    BY <2>1, <2>2
  <2>4. UNCHANGED m_GetConnMutex
    BY <1>1, <2>2 DEF Next, GetStep, ReleaseStep, FreeMysqlConnPool, DataRace, vars, CallGet,
          CallRelease, ReadFront, Ping, LockToBusy, PushBusy, EraseIdle, LockToRelease,
          PushReleased, LockToErase, EraseBusy
  <2>5. pc'[u] \notin Getting
    <3>1. ASSUME NEW t \in Threads, NEW s, Goto(t, s), s \notin Getting
          PROVE  pc'[u] \notin Getting
      BY <1>1, <2>3, <3>1 DEF Types, Goto
    <3>2. ASSUME NEW t \in Threads, CallGet(t) \/ CallRelease(t) \/ ReleaseStep(t)
          PROVE  pc'[u] \notin Getting
      BY <3>1, <3>2 DEF CallGet, CallRelease, ReleaseStep, LockToRelease, PushReleased,
                        LockToErase, EraseBusy, Getting
    <3>3. \A t \in Threads : ~GetStep(t)
      BY <2>2, <2>3 DEF GetStep, ReadFront, Ping, LockToBusy, PushBusy, EraseIdle, Getting
    <3>4. CASE FreeMysqlConnPool \/ DataRace \/ UNCHANGED vars
      BY <2>3, <3>4 DEF FreeMysqlConnPool, DataRace, vars
    <3> QED BY <1>1, <3>2, <3>3, <3>4 DEF Next
  <2> QED BY <2>1, <2>2, <2>4, <2>5 DEF MutexIsLost
<1>2. ConnPoolInv /\ [Next]_vars
          => [MutexIsLost => MutexIsLost' /\ \A t \in Threads : ~LockGet(t)]_vars
  BY <1>1 DEF ConnPoolInv
<1> QED BY <1>2, ConnPoolInvariant, PTL DEF Spec, LostMutexStaysLost
=============================================================================
