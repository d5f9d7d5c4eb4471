------------------------------ MODULE MysqlPool ------------------------------
(***************************************************************************)
(* The pool of MySQL connections, CManagePool of mysqlpool.cpp, as threads *)
(* use it through GetMysqlConn, ReleaseMysqlConn and FreeMysqlConnPool.    *)
(* No source file calls these yet: the callers here release what they got, *)
(* once, and the pool is freed once, between the calls, and not asked for  *)
(* a connection afterwards.                                                *)
(*                                                                         *)
(* MysqlConnBusyList is used under both mutexes, so the critical sections  *)
(* that use it are not steps but places where a thread can be; two threads *)
(* at such places is a data race.  Then, and where the code reads the      *)
(* front of an empty vector and fails, alive becomes FALSE and the model   *)
(* stops.  The fields used and state of a node are written and never read. *)
(***************************************************************************)
EXTENDS Integers, Sequences, SequencesExt, FiniteSets, Functions

CONSTANTS
    Threads,       (* the callers                                           *)
    Nodes,         (* the connections made by InitMysqlConnPool             *)
    NoNode,        (* NULL                                                  *)
    NoThread,      (* m_GetConnMutex is free                                *)
    MaxGets,       (* bound: calls of GetMysqlConn                          *)
    MayDisconnect  (* whether mysql_ping can fail                           *)

ASSUME ThreadsAssumption == IsFiniteSet(Threads) /\ NoThread \notin Threads
ASSUME NodesAssumption == IsFiniteSet(Nodes) /\ Nodes # {} /\ NoNode \notin Nodes
ASSUME OptionsAssumption == MaxGets \in Nat /\ MayDisconnect \in BOOLEAN

VARIABLES
    MysqlConnIdleList,     (* sequence of nodes                             *)
    MysqlConnBusyList,     (* node -> number of its entries                 *)
    m_CurrentIdleConnNum,
    m_IdleInitNum,
    m_GetConnMutex,        (* the thread that locked it, or NoThread        *)
    pc,                    (* where each thread is                          *)
    conn,                  (* thread -> the node it got or is getting       *)
    gets,                  (* calls of GetMysqlConn so far                  *)
    alive

lists == <<MysqlConnIdleList, MysqlConnBusyList, m_CurrentIdleConnNum>>
vars == <<lists, m_IdleInitNum, m_GetConnMutex, pc, conn, gets, alive>>

Steps == {"rest", "front", "ping", "lockToBusy", "pushBusy", "eraseIdle", "unlockGet",
          "hold", "lockToRelease", "pushReleased", "lockToErase", "eraseBusy", "lockGet"}

-----------------------------------------------------------------------------
Goto(t, s) == pc' = [pc EXCEPT ![t] = s]
At(places) == {t \in Threads : pc[t] \in places}

(* Who holds m_BusyListMutex and m_IdleListMutex, and who uses             *)
(* MysqlConnBusyList.                                                      *)
BusyListLocked == At({"pushBusy", "eraseBusy"})
IdleListLocked == At({"pushReleased"})
BusyListUsers == BusyListLocked \cup IdleListLocked

(* CManagePool(num) with InitMysqlConnPool: the constructor asserts that   *)
(* every connection was made.                                              *)
Init ==
    /\ MysqlConnIdleList \in {s \in [1..Cardinality(Nodes) -> Nodes] : IsInjective(s)}
    /\ MysqlConnBusyList = [n \in Nodes |-> 0]
    /\ m_CurrentIdleConnNum = Cardinality(Nodes)
    /\ m_IdleInitNum = Cardinality(Nodes)
    /\ m_GetConnMutex = NoThread
    /\ pc = [t \in Threads |-> "rest"]
    /\ conn = [t \in Threads |-> NoNode]
    /\ gets = 0
    /\ alive = TRUE

-----------------------------------------------------------------------------
(* GetMysqlConn.                                                           *)

CallGet(t) ==
    /\ pc[t] = "rest"
    /\ m_IdleInitNum > 0
    /\ gets < MaxGets
    /\ gets' = gets + 1
    /\ Goto(t, "lockGet")
    /\ UNCHANGED <<lists, m_IdleInitNum, m_GetConnMutex, conn, alive>>

LockGet(t) ==
    /\ pc[t] = "lockGet"
    /\ m_GetConnMutex = NoThread
    /\ m_GetConnMutex' = t
    /\ Goto(t, "front")
    /\ UNCHANGED <<lists, m_IdleInitNum, conn, gets, alive>>

(* The front of an emptied vector is a pointer it held, or anything.       *)
ReadFront(t) ==
    /\ pc[t] = "front"
    /\ \/ /\ \E n \in Nodes :
                /\ MysqlConnIdleList # <<>> => n = Head(MysqlConnIdleList)
                /\ conn' = [conn EXCEPT ![t] = n]
          /\ Goto(t, "ping")
          /\ UNCHANGED alive
       \/ /\ MysqlConnIdleList = <<>>
          /\ alive' = FALSE
          /\ UNCHANGED <<pc, conn>>
    /\ UNCHANGED <<lists, m_IdleInitNum, m_GetConnMutex, gets>>

(* mysql_ping.  When it fails the function returns with m_GetConnMutex     *)
(* locked.                                                                 *)
Ping(t) ==
    /\ pc[t] = "ping"
    /\ \/ /\ Goto(t, "lockToBusy")
          /\ UNCHANGED conn
       \/ /\ MayDisconnect
          /\ Goto(t, "rest")
          /\ conn' = [conn EXCEPT ![t] = NoNode]
    /\ UNCHANGED <<lists, m_IdleInitNum, m_GetConnMutex, gets, alive>>

(* MoveToBusyList.                                                         *)
LockToBusy(t) ==
    /\ pc[t] = "lockToBusy"
    /\ BusyListLocked = {}
    /\ Goto(t, "pushBusy")
    /\ UNCHANGED <<lists, m_IdleInitNum, m_GetConnMutex, conn, gets, alive>>

(* Mutant: MoveToBusyList does not add the node.                           *)
PushBusy_Skipped(t) ==
    /\ pc[t] = "pushBusy"
    /\ Goto(t, "eraseIdle")
    /\ UNCHANGED <<lists, m_IdleInitNum, m_GetConnMutex, conn, gets, alive>>

PushBusy(t) ==
    /\ pc[t] = "pushBusy"
    /\ MysqlConnBusyList' = [MysqlConnBusyList EXCEPT ![conn[t]] = @ + 1]
    /\ Goto(t, "eraseIdle")
    /\ UNCHANGED <<MysqlConnIdleList, m_CurrentIdleConnNum, m_IdleInitNum, m_GetConnMutex,
                   conn, gets, alive>>

(* Mutant: m_GetConnMutex is already unlocked.                             *)
EraseIdle_After(t) ==
    /\ pc[t] \in {"eraseIdle", "unlockGet"}
    /\ IdleListLocked = {}
    /\ IF pc[t] = "eraseIdle"
       THEN m_GetConnMutex' = NoThread /\ Goto(t, "unlockGet") /\ UNCHANGED lists
       ELSE /\ MysqlConnIdleList' = RemoveFirst(MysqlConnIdleList, conn[t])
            /\ m_CurrentIdleConnNum' = m_CurrentIdleConnNum - 1
            /\ Goto(t, "hold")
            /\ UNCHANGED <<MysqlConnBusyList, m_GetConnMutex>>
    /\ UNCHANGED <<m_IdleInitNum, conn, gets, alive>>

(* Mutant: the count is not changed.                                       *)
EraseIdle_NotCounted(t) ==
    /\ pc[t] = "eraseIdle"
    /\ IdleListLocked = {}
    /\ MysqlConnIdleList' = RemoveFirst(MysqlConnIdleList, conn[t])
    /\ Goto(t, "unlockGet")
    /\ UNCHANGED <<m_CurrentIdleConnNum, MysqlConnBusyList, m_IdleInitNum, m_GetConnMutex,
                   conn, gets, alive>>

(* The count goes down whether or not the node was in the list.            *)
EraseIdle(t) ==
    /\ pc[t] = "eraseIdle"
    /\ IdleListLocked = {}
    /\ MysqlConnIdleList' = RemoveFirst(MysqlConnIdleList, conn[t])
    /\ m_CurrentIdleConnNum' = m_CurrentIdleConnNum - 1
    /\ Goto(t, "unlockGet")
    /\ UNCHANGED <<MysqlConnBusyList, m_IdleInitNum, m_GetConnMutex, conn, gets, alive>>

(* Mutant: the mutex stays locked on success too.                          *)
UnlockGet_Missing(t) ==
    /\ pc[t] = "unlockGet"
    /\ Goto(t, "hold")
    /\ UNCHANGED <<lists, m_IdleInitNum, m_GetConnMutex, conn, gets, alive>>

UnlockGet(t) ==
    /\ pc[t] = "unlockGet"
    /\ m_GetConnMutex' = NoThread
    /\ Goto(t, "hold")
    /\ UNCHANGED <<lists, m_IdleInitNum, conn, gets, alive>>

-----------------------------------------------------------------------------
(* ReleaseMysqlConn.                                                       *)

CallRelease(t) ==
    /\ pc[t] = "hold"
    /\ Goto(t, "lockToRelease")
    /\ UNCHANGED <<lists, m_IdleInitNum, m_GetConnMutex, conn, gets, alive>>

(* MoveToIdleList locks m_IdleListMutex.                                   *)
LockToRelease(t) ==
    /\ pc[t] = "lockToRelease"
    /\ IdleListLocked = {}
    /\ Goto(t, "pushReleased")
    /\ UNCHANGED <<lists, m_IdleInitNum, m_GetConnMutex, conn, gets, alive>>

(* Mutant: the count is not changed.                                       *)
PushReleased_NotCounted(t) ==
    /\ pc[t] = "pushReleased"
    /\ MysqlConnBusyList' = [MysqlConnBusyList EXCEPT ![conn[t]] = @ + 1]
    /\ Goto(t, "lockToErase")
    /\ UNCHANGED <<MysqlConnIdleList, m_CurrentIdleConnNum, m_IdleInitNum, m_GetConnMutex,
                   conn, gets, alive>>

(* It adds the node to MysqlConnBusyList, once more.                       *)
PushReleased(t) ==
    /\ pc[t] = "pushReleased"
    /\ MysqlConnBusyList' = [MysqlConnBusyList EXCEPT ![conn[t]] = @ + 1]
    /\ m_CurrentIdleConnNum' = m_CurrentIdleConnNum + 1
    /\ Goto(t, "lockToErase")
    /\ UNCHANGED <<MysqlConnIdleList, m_IdleInitNum, m_GetConnMutex, conn, gets, alive>>

(* Mutant: m_BusyListMutex is not locked.                                  *)
LockToErase_Missing(t) ==
    /\ pc[t] = "lockToErase"
    /\ Goto(t, "eraseBusy")
    /\ UNCHANGED <<lists, m_IdleInitNum, m_GetConnMutex, conn, gets, alive>>

LockToErase(t) ==
    /\ pc[t] = "lockToErase"
    /\ BusyListLocked = {}
    /\ Goto(t, "eraseBusy")
    /\ UNCHANGED <<lists, m_IdleInitNum, m_GetConnMutex, conn, gets, alive>>

EraseBusy(t) ==
    /\ pc[t] = "eraseBusy"
    /\ MysqlConnBusyList' = [MysqlConnBusyList EXCEPT ![conn[t]] = IF @ > 0 THEN @ - 1 ELSE 0]
    /\ conn' = [conn EXCEPT ![t] = NoNode]
    /\ Goto(t, "rest")
    /\ UNCHANGED <<MysqlConnIdleList, m_CurrentIdleConnNum, m_IdleInitNum, m_GetConnMutex,
                   gets, alive>>

-----------------------------------------------------------------------------
(* FreeMysqlConnPool closes the idle connections.  Connections that are    *)
(* held can be released later.                                             *)
FreeMysqlConnPool ==
    /\ m_IdleInitNum > 0
    /\ At({"rest", "hold"}) = Threads
    /\ MysqlConnIdleList' = <<>>
    /\ m_CurrentIdleConnNum' = 0
    /\ m_IdleInitNum' = 0
    /\ UNCHANGED <<MysqlConnBusyList, m_GetConnMutex, pc, conn, gets, alive>>

(* A thread changes MysqlConnBusyList under m_IdleListMutex while another  *)
(* one does under m_BusyListMutex.                                         *)
DataRace ==
    /\ Cardinality(BusyListUsers) > 1
    /\ alive' = FALSE
    /\ UNCHANGED <<lists, m_IdleInitNum, m_GetConnMutex, pc, conn, gets>>

GetStep(t) ==
    \/ LockGet(t) \/ ReadFront(t) \/ Ping(t) \/ LockToBusy(t) \/ PushBusy(t)
    \/ EraseIdle(t) \/ UnlockGet(t)

ReleaseStep(t) ==
    \/ LockToRelease(t) \/ PushReleased(t) \/ LockToErase(t) \/ EraseBusy(t)

Next ==
    /\ alive
    /\ \/ \E t \in Threads : CallGet(t) \/ CallRelease(t) \/ GetStep(t) \/ ReleaseStep(t)
       \/ FreeMysqlConnPool
       \/ DataRace

Spec == Init /\ [][Next]_vars

(* Threads run, and get a mutex that is free again and again.              *)
FairSpec ==
    /\ Spec
    /\ \A t \in Threads : SF_vars(alive /\ GetStep(t)) /\ SF_vars(alive /\ ReleaseStep(t))

-----------------------------------------------------------------------------
(* Properties.                                                             *)

(* The types.  An exhausted pool counts less than no connection.  The      *)
(* connections still held when the pool was freed are counted as they are  *)
(* released, and an exhausted pool may have given one of them to all the   *)
(* threads.                                                                *)
TypeOK ==
    /\ MysqlConnIdleList \in Seq(Nodes)
    /\ MysqlConnBusyList \in [Nodes -> Nat]
    /\ m_CurrentIdleConnNum \in -MaxGets..(Cardinality(Nodes) + Cardinality(Threads))
    /\ m_IdleInitNum \in Nat
    /\ m_GetConnMutex \in Threads \cup {NoThread}
    /\ pc \in [Threads -> Steps]
    /\ conn \in [Threads -> Nodes \cup {NoNode}]
    /\ gets \in 0..MaxGets
    /\ alive \in BOOLEAN

Holders(n) == {t \in At({"unlockGet", "hold"}) : conn[t] = n}

(* Two threads never hold the same connection before GetMysqlConn has been *)
(* called more often than there are connections: the front of the list is  *)
(* read outside the mutexes of the lists, and m_GetConnMutex has to cover  *)
(* its removal.                                                            *)
ExclusiveUntilExhausted ==
    gets <= Cardinality(Nodes) =>
        \A n \in Nodes :
            /\ Cardinality(Holders(n)) <= 1
            /\ Holders(n) # {} => n \notin ToSet(MysqlConnIdleList)

(* A connection has an entry in MysqlConnBusyList for every thread that    *)
(* holds it, whatever MoveToIdleList, which adds an entry before it erases *)
(* one, is doing meanwhile.                                                *)
HeldIsBusy ==
    \A n \in Nodes : MysqlConnBusyList[n] >= Cardinality(Holders(n))

(* m_CurrentIdleConnNum is the number of connections less the number of    *)
(* threads that hold one, until the pool is freed: a released connection   *)
(* is counted although no list GetMysqlConn reads has it, and a connection *)
(* that an exhausted pool hands out again is counted twice.                *)
CountBalances ==
    m_IdleInitNum > 0 =>
        m_CurrentIdleConnNum =
            Cardinality(Nodes)
            - Cardinality(At({"unlockGet", "hold", "lockToRelease", "pushReleased"}))

(* The pool does something undefined only in MoveToIdleList's first        *)
(* critical section, which locks the wrong mutex, or when it is exhausted. *)
UndefinedNeedsRelease ==
    ~alive => IdleListLocked # {} \/ gets > Cardinality(Nodes)

(* Every call of GetMysqlConn and ReleaseMysqlConn returns as long as no   *)
(* ping fails: the nested mutexes do not block each other.                 *)
CallsReturn ==
    \A t \in Threads : pc[t] \notin {"rest", "hold"} ~> pc[t] \in {"rest", "hold"} \/ ~alive
=============================================================================
