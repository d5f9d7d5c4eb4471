----------------------------- MODULE ReactorPool -----------------------------
(***************************************************************************)
(* The acceptor (the main thread) and its pool of event loops, CThreadPool *)
(* m_Pool of tcpeventserver.cpp.  The acceptor writes the descriptor of a  *)
(* new connection to the pipe of an event loop in m_IdleList; the loop     *)
(* reads it and adds the connection to its connectQueue.  A loop whose     *)
(* queue is full moves itself to m_BusyList, and back when one of its      *)
(* connections is closed.                                                  *)
(*                                                                         *)
(* A critical section under m_IdleMutex is one step.  m_BusyMutex is a     *)
(* variable: CheckIfInBusyList unlocks it once too often.  Where the       *)
(* behaviour is undefined or ends the process the model sets alive to      *)
(* FALSE and stops.  Connections that a worker closes (close_conn) are not *)
(* modelled here.                                                          *)
(***************************************************************************)
EXTENDS Integers, Sequences, SequencesExt, FiniteSets, Functions

CONSTANTS
    Loops,         (* event-loop threads the process can ever allocate      *)
    Fds,           (* descriptors the kernel can give to connections        *)
    NoFd,          (* no descriptor                                         *)
    NoThread,      (* a free m_BusyMutex                                    *)
    InitNum,       (* event loops at the start                              *)
    MAX_OPEN_FD,   (* connections of an event loop, at most                 *)
    MayFail        (* whether the construction of an event loop,            *)
                   (* pthread_create and bufferevent_socket_new can fail    *)

ASSUME LoopsAssumption == IsFiniteSet(Loops) /\ NoThread \notin Loops
ASSUME FdsAssumption == IsFiniteSet(Fds) /\ NoFd \notin Fds /\ Fds \cap Loops = {}
ASSUME NumbersAssumption ==
    /\ InitNum \in Nat \ {0}
    /\ MAX_OPEN_FD \in Nat \ {0}
    /\ MayFail \in BOOLEAN

VARIABLES
    m_IdleList,         (* sequence of loops                                *)
    m_BusyList,         (* loop -> number of its entries                    *)
    m_ThreadList,       (* set of loops                                     *)
    m_BusyMutex,        (* the loop that locked it last, or NoThread        *)
    idle_thread_count,  (* the acceptor's next index, from 0                *)
    connfd, index,      (* locals of ListenerEventCb                        *)
    pipe,               (* loop -> descriptors written to it and not read   *)
    connectQueue,       (* loop -> the descriptors of its connections       *)
    lpc,                (* where each loop is                               *)
    local,              (* loop -> the connection it closes, the loop it    *)
                        (* creates                                          *)
    crowded,            (* whether a loop ever had room for one connection  *)
                        (* at most (a history variable, for the properties) *)
    alive

lists == <<m_IdleList, m_BusyList, m_ThreadList>>
acceptor == <<idle_thread_count, connfd, index>>
vars == <<lists, m_BusyMutex, acceptor, pipe, connectQueue, lpc, local, crowded, alive>>

LoopSteps == {"none", "new", "dispatch", "ended",
              "lockToBusy", "pushBusy", "eraseIdle", "testSize", "testFirst",
              "create", "start",
              "lockToFind", "find", "pushIdle", "lockToIdle", "eraseBusy",
              "unlockAgain", "delete"}

-----------------------------------------------------------------------------
Idle == ToSet(m_IdleList)
m_CurrentConnNum(l) == Cardinality(connectQueue[l])
Unused == {l \in Loops : lpc[l] = "none"}

(* The descriptors in use.  CloseEventCb frees the bufferevent first: the  *)
(* kernel can give its descriptor away before DeleteConn.                  *)
Open == UNION {(connectQueue[l] \ {local[l]}) \cup ToSet(pipe[l]) : l \in Loops}

Goto(l, s) == lpc' = [lpc EXCEPT ![l] = s]

(* Who is about to change or to read a list.  m_BusyList is used between   *)
(* lock and unlock only; m_IdleList is changed under m_IdleMutex, and read *)
(* without it: by loops, and by the acceptor whenever it accepts.          *)
BusyWriters == {l \in Loops : lpc[l] \in {"pushBusy", "eraseBusy"}}
BusyUsers == BusyWriters \cup {l \in Loops : lpc[l] = "find"}
IdleWriters == {l \in Loops : lpc[l] \in {"eraseIdle", "pushIdle", "create"}}
IdleReaders == {l \in Loops : lpc[l] \in {"testSize", "testFirst"}}
AcceptorReads == connfd # NoFd \/ \E fd \in Fds : fd \notin Open

-----------------------------------------------------------------------------
(* CThreadPool::CThreadPool(initnum, arg).  A loop that could not be       *)
(* allocated is missing, one whose event base or pipe could not be made    *)
(* ends the process, and one that could not be started stays listed.       *)
Init ==
    /\ \E n \in 0..InitNum :
          /\ ~MayFail => n = InitNum
          /\ m_IdleList \in [1..n -> Loops]
    /\ IsInjective(m_IdleList)
    /\ m_BusyList = [l \in Loops |-> 0]
    /\ m_ThreadList = ToSet(m_IdleList)
    /\ m_BusyMutex = NoThread
    /\ idle_thread_count = 0
    /\ connfd = NoFd
    /\ index = 0
    /\ pipe = [l \in Loops |-> <<>>]
    /\ connectQueue = [l \in Loops |-> {}]
    /\ \E failed \in SUBSET m_ThreadList :
          /\ ~MayFail => failed = {}
          /\ lpc = [l \in Loops |-> IF l \notin m_ThreadList THEN "none"
                                    ELSE IF l \in failed THEN "new" ELSE "dispatch"]
    /\ local = [l \in Loops |-> NoFd]
    /\ crowded = (MAX_OPEN_FD = 1)
    /\ alive \in BOOLEAN
    /\ ~MayFail => alive

-----------------------------------------------------------------------------
(* The acceptor.                                                           *)

(* Mutant: the index is not reduced.                                       *)
ListenerEventCb_NoModulo(fd) ==
    /\ connfd = NoFd
    /\ fd \notin Open
    /\ \/ /\ m_IdleList # <<>>
          /\ index' = idle_thread_count
          /\ idle_thread_count' = idle_thread_count + 1
          /\ connfd' = fd
          /\ UNCHANGED alive
       \/ /\ m_IdleList = <<>>
          /\ alive' = FALSE
          /\ UNCHANGED acceptor
    /\ UNCHANGED <<lists, m_BusyMutex, pipe, connectQueue, lpc, local, crowded>>

(* ListenerEventCb takes the next index; with no idle loop it divides by   *)
(* zero.                                                                   *)
ListenerEventCb(fd) ==
    /\ connfd = NoFd
    /\ fd \notin Open
    /\ \/ /\ m_IdleList # <<>>
          /\ index' = idle_thread_count
          /\ idle_thread_count' = (idle_thread_count + 1) % Len(m_IdleList)
          /\ connfd' = fd
          /\ UNCHANGED alive
       \/ /\ m_IdleList = <<>>
          /\ alive' = FALSE
          /\ UNCHANGED acceptor
    /\ UNCHANGED <<lists, m_BusyMutex, pipe, connectQueue, lpc, local, crowded>>

(* The index is used on the list as it is now.  Behind its end there is    *)
(* the pointer of a loop that was listed, or anything.                     *)
SendFd ==
    /\ connfd # NoFd
    /\ \/ /\ \E l \in m_ThreadList :
                /\ index < Len(m_IdleList) => l = m_IdleList[index + 1]
                /\ pipe' = [pipe EXCEPT ![l] = Append(@, connfd)]
          /\ connfd' = NoFd
          /\ index' = 0
          /\ UNCHANGED alive
       \/ /\ index >= Len(m_IdleList)
          /\ alive' = FALSE
          /\ UNCHANGED <<pipe, connfd, index>>
    /\ UNCHANGED <<lists, m_BusyMutex, idle_thread_count, connectQueue, lpc, local,
                   crowded>>

-----------------------------------------------------------------------------
(* An event loop opens a connection.                                       *)

(* Mutant: the loop moves to m_BusyList one connection too late.           *)
ThreadProcess_OffByOne(l) ==
    /\ lpc[l] = "dispatch"
    /\ pipe[l] # <<>>
    /\ pipe' = [pipe EXCEPT ![l] = Tail(@)]
    /\ \/ /\ m_CurrentConnNum(l) < MAX_OPEN_FD
          /\ connectQueue' = [connectQueue EXCEPT ![l] = @ \cup {Head(pipe[l])}]
          /\ crowded' = (crowded \/ MAX_OPEN_FD <= m_CurrentConnNum(l) + 2)
          /\ Goto(l, IF MAX_OPEN_FD < m_CurrentConnNum(l) + 1
                     THEN "lockToBusy" ELSE "testSize")
          /\ UNCHANGED alive
       \/ /\ m_CurrentConnNum(l) >= MAX_OPEN_FD
          /\ alive' = FALSE
          /\ UNCHANGED <<connectQueue, crowded, lpc>>
    /\ UNCHANGED <<lists, m_BusyMutex, acceptor, local>>

(* ThreadProcess reads one descriptor and calls InsertConn, which returns  *)
(* NULL when the queue is full.                                            *)
ThreadProcess(l) ==
    /\ lpc[l] = "dispatch"
    /\ pipe[l] # <<>>
    /\ pipe' = [pipe EXCEPT ![l] = Tail(@)]
    /\ \/ /\ m_CurrentConnNum(l) < MAX_OPEN_FD
          /\ connectQueue' = [connectQueue EXCEPT ![l] = @ \cup {Head(pipe[l])}]
          /\ crowded' = (crowded \/ MAX_OPEN_FD <= m_CurrentConnNum(l) + 2)
          /\ Goto(l, IF MAX_OPEN_FD < m_CurrentConnNum(l) + 2
                     THEN "lockToBusy" ELSE "testSize")
          /\ UNCHANGED alive
       \/ /\ m_CurrentConnNum(l) >= MAX_OPEN_FD
          /\ alive' = FALSE
          /\ UNCHANGED <<connectQueue, crowded, lpc>>
    /\ UNCHANGED <<lists, m_BusyMutex, acceptor, local>>

(* bufferevent_socket_new fails: the loop ends.                            *)
LoopBreak(l) ==
    /\ MayFail
    /\ lpc[l] = "dispatch"
    /\ pipe[l] # <<>>
    /\ pipe' = [pipe EXCEPT ![l] = Tail(@)]
    /\ Goto(l, "ended")
    /\ UNCHANGED <<lists, m_BusyMutex, acceptor, connectQueue, local, crowded, alive>>

(* m_BusyMutex.lock(), from three functions.                               *)
LockBusy(l) ==
    /\ m_BusyMutex = NoThread
    /\ m_BusyMutex' = l
    /\ \/ lpc[l] = "lockToBusy" /\ Goto(l, "pushBusy")
       \/ lpc[l] = "lockToFind" /\ Goto(l, "find")
       \/ lpc[l] = "lockToIdle" /\ Goto(l, "eraseBusy")
    /\ UNCHANGED <<lists, acceptor, pipe, connectQueue, local, crowded, alive>>

(* MoveToBusyList.  (Mutant: it does not unlock.)                          *)
PushBusy_KeepsLock(l) ==
    /\ lpc[l] = "pushBusy"
    /\ m_BusyList' = [m_BusyList EXCEPT ![l] = @ + 1]
    /\ Goto(l, "eraseIdle")
    /\ UNCHANGED <<m_IdleList, m_ThreadList, m_BusyMutex, acceptor, pipe, connectQueue,
                   local, crowded, alive>>

PushBusy(l) ==
    /\ lpc[l] = "pushBusy"
    /\ m_BusyList' = [m_BusyList EXCEPT ![l] = @ + 1]
    /\ m_BusyMutex' = NoThread
    /\ Goto(l, "eraseIdle")
    /\ UNCHANGED <<m_IdleList, m_ThreadList, acceptor, pipe, connectQueue, local,
                   crowded, alive>>

EraseIdle(l) ==
    /\ lpc[l] = "eraseIdle"
    /\ m_IdleList' = RemoveFirst(m_IdleList, l)
    /\ Goto(l, "testSize")
    /\ UNCHANGED <<m_BusyList, m_ThreadList, m_BusyMutex, acceptor, pipe, connectQueue,
                   local, crowded, alive>>

(* When one loop is left and has room for one more connection, another one *)
(* is created.                                                             *)
TestSize(l) ==
    /\ lpc[l] = "testSize"
    /\ Goto(l, IF Len(m_IdleList) = 1 THEN "testFirst" ELSE "dispatch")
    /\ UNCHANGED <<lists, m_BusyMutex, acceptor, pipe, connectQueue, local, crowded,
                   alive>>

(* m_IdleList[0] of a list that became empty is a loop that was listed.    *)
TestFirst(l) ==
    /\ lpc[l] = "testFirst"
    /\ \E first \in m_ThreadList :
          /\ m_IdleList # <<>> => first = Head(m_IdleList)
          /\ Goto(l, IF m_CurrentConnNum(first) = MAX_OPEN_FD - 1
                     THEN "create" ELSE "dispatch")
    /\ UNCHANGED <<lists, m_BusyMutex, acceptor, pipe, connectQueue, local, crowded,
                   alive>>

(* Mutant: the result of new is listed unchecked.                          *)
CreateMainIdleThread_Unchecked(l) ==
    /\ lpc[l] = "create"
    /\ \/ /\ \E new \in Unused :
                /\ m_IdleList' = Append(m_IdleList, new)
                /\ m_ThreadList' = m_ThreadList \cup {new}
                /\ local' = [local EXCEPT ![l] = new]
                /\ lpc' = [lpc EXCEPT ![l] = "start", ![new] = "new"]
          /\ UNCHANGED alive
       \/ /\ MayFail \/ Unused = {}
          /\ m_IdleList' = Append(m_IdleList, NoThread)
          /\ Goto(l, "dispatch")
          /\ UNCHANGED <<m_ThreadList, local, alive>>
    /\ UNCHANGED <<m_BusyList, m_BusyMutex, acceptor, pipe, connectQueue, crowded>>

(* CreateMainIdleThread(1): the loop is listed before it is started.  It   *)
(* may not be allocated (Unused = {} is a bound), and a constructor        *)
(* without an event base or a pipe calls ErrorQuit.                        *)
CreateMainIdleThread(l) ==
    /\ lpc[l] = "create"
    /\ \/ /\ \E new \in Unused :
                /\ m_IdleList' = Append(m_IdleList, new)
                /\ m_ThreadList' = m_ThreadList \cup {new}
                /\ local' = [local EXCEPT ![l] = new]
                /\ lpc' = [lpc EXCEPT ![l] = "start", ![new] = "new"]
          /\ UNCHANGED alive
       \/ /\ MayFail \/ Unused = {}
          /\ Goto(l, "dispatch")
          /\ UNCHANGED <<m_IdleList, m_ThreadList, local, alive>>
       \/ /\ MayFail \/ Unused = {}
          /\ alive' = FALSE
          /\ UNCHANGED <<m_IdleList, m_ThreadList, lpc, local>>
    /\ UNCHANGED <<m_BusyList, m_BusyMutex, acceptor, pipe, connectQueue, crowded>>

(* Mutant: the new loop is not started.                                    *)
Start_Skipped(l) ==
    /\ lpc[l] = "start"
    /\ Goto(l, "dispatch")
    /\ local' = [local EXCEPT ![l] = NoFd]
    /\ UNCHANGED <<lists, m_BusyMutex, acceptor, pipe, connectQueue, crowded, alive>>

(* A loop that cannot be started stays listed.                             *)
Start(l) ==
    /\ lpc[l] = "start"
    /\ \/ lpc' = [lpc EXCEPT ![l] = "dispatch", ![local[l]] = "dispatch"]
       \/ MayFail /\ Goto(l, "dispatch")
    /\ local' = [local EXCEPT ![l] = NoFd]
    /\ UNCHANGED <<lists, m_BusyMutex, acceptor, pipe, connectQueue, crowded, alive>>

-----------------------------------------------------------------------------
(* An event loop closes a connection.                                      *)

CloseEventCb(l, fd) ==
    /\ lpc[l] = "dispatch"
    /\ fd \in connectQueue[l]
    /\ local' = [local EXCEPT ![l] = fd]
    /\ Goto(l, "lockToFind")
    /\ UNCHANGED <<lists, m_BusyMutex, acceptor, pipe, connectQueue, crowded, alive>>

(* CheckIfInBusyList releases m_BusyMutex before it calls MoveToIdleList.  *)
CheckIfInBusyList(l) ==
    /\ lpc[l] = "find"
    /\ Goto(l, IF m_BusyList[l] > 0 THEN "pushIdle" ELSE "delete")
    /\ m_BusyMutex' = NoThread
    /\ UNCHANGED <<lists, acceptor, pipe, connectQueue, local, crowded, alive>>

PushIdle(l) ==
    /\ lpc[l] = "pushIdle"
    /\ m_IdleList' = Append(m_IdleList, l)
    /\ Goto(l, "lockToIdle")
    /\ UNCHANGED <<m_BusyList, m_ThreadList, m_BusyMutex, acceptor, pipe, connectQueue,
                   local, crowded, alive>>

EraseBusy(l) ==
    /\ lpc[l] = "eraseBusy"
    /\ m_BusyList' = [m_BusyList EXCEPT ![l] = IF @ > 0 THEN @ - 1 ELSE 0]
    /\ m_BusyMutex' = NoThread
    /\ Goto(l, "unlockAgain")
    /\ UNCHANGED <<m_IdleList, m_ThreadList, acceptor, pipe, connectQueue, local,
                   crowded, alive>>

(* The second unlock of CheckIfInBusyList releases m_BusyMutex whoever has *)
(* locked it.                                                              *)
UnlockAgain(l) ==
    /\ lpc[l] = "unlockAgain"
    /\ m_BusyMutex' = NoThread
    /\ Goto(l, "delete")
    /\ UNCHANGED <<lists, acceptor, pipe, connectQueue, local, crowded, alive>>

DeleteConn(l) ==
    /\ lpc[l] = "delete"
    /\ connectQueue' = [connectQueue EXCEPT ![l] = @ \ {local[l]}]
    /\ local' = [local EXCEPT ![l] = NoFd]
    /\ Goto(l, "dispatch")
    /\ UNCHANGED <<lists, m_BusyMutex, acceptor, pipe, crowded, alive>>

-----------------------------------------------------------------------------
(* A vector is changed by one thread while another uses it: the outcome is *)
(* undefined.                                                              *)
DataRace ==
    /\ \/ \E l \in BusyWriters : BusyUsers # {l}
       \/ IdleWriters # {} /\ (IdleReaders # {} \/ AcceptorReads)
    /\ alive' = FALSE
    /\ UNCHANGED <<lists, m_BusyMutex, acceptor, pipe, connectQueue, lpc, local, crowded>>

(* The steps of a callback of loop l, once it was called.                  *)
CallbackStep(l) ==
    \/ PushBusy(l) \/ EraseIdle(l) \/ TestSize(l) \/ TestFirst(l)
    \/ CreateMainIdleThread(l) \/ Start(l) \/ CheckIfInBusyList(l) \/ PushIdle(l)
    \/ EraseBusy(l) \/ UnlockAgain(l) \/ DeleteConn(l)

Next ==
    /\ alive
    /\ \/ \E fd \in Fds : ListenerEventCb(fd)
       \/ SendFd
       \/ \E l \in Loops :
             \/ ThreadProcess(l) \/ LoopBreak(l) \/ LockBusy(l) \/ CallbackStep(l)
             \/ \E fd \in Fds : CloseEventCb(l, fd)
       \/ DataRace

Spec == Init /\ [][Next]_vars

(* Every thread that can run is scheduled.  An event loop calls the        *)
(* callback of its pipe whenever the pipe can be read, between the         *)
(* callbacks of its connections, and a thread that waits for m_BusyMutex   *)
(* gets it if it is free again and again.                                  *)
FairSpec ==
    /\ Spec
    /\ WF_vars(alive /\ SendFd)
    /\ \A l \in Loops :
          /\ WF_vars(alive /\ CallbackStep(l))
          /\ SF_vars(alive /\ LockBusy(l))
          /\ SF_vars(alive /\ ThreadProcess(l))

-----------------------------------------------------------------------------
(* Properties.                                                             *)

TypeOK ==
    /\ m_IdleList \in Seq(Loops)
    /\ m_BusyList \in [Loops -> Nat]
    /\ m_ThreadList \subseteq Loops
    /\ m_BusyMutex \in Loops \cup {NoThread}
    /\ idle_thread_count \in Nat
    /\ index \in Nat
    /\ connfd \in Fds \cup {NoFd}
    /\ pipe \in [Loops -> Seq(Fds)]
    /\ connectQueue \in [Loops -> SUBSET Fds]
    /\ lpc \in [Loops -> LoopSteps]
    /\ local \in [Loops -> Fds \cup Loops \cup {NoFd}]
    /\ crowded \in BOOLEAN
    /\ alive \in BOOLEAN

(* The acceptor only sees loops that have room: between its callbacks a    *)
(* loop is in m_IdleList, once, exactly if its queue is not full, and      *)
(* otherwise in m_BusyList.  Other loops may have unlocked m_BusyMutex     *)
(* under its feet meanwhile.                                               *)
RestingLoopIsListed ==
    \A l \in m_ThreadList :
        lpc[l] \in {"new", "dispatch"} =>
            IF m_CurrentConnNum(l) < MAX_OPEN_FD
            THEN m_BusyList[l] = 0 /\ Cardinality({i \in DOMAIN m_IdleList : m_IdleList[i] = l}) = 1
            ELSE m_BusyList[l] = 1 /\ l \notin Idle

(* A server that has started with at least one event loop ends, or does    *)
(* something undefined, only after some loop had room for one connection   *)
(* at most: below that limit the indices, the division, the superfluous    *)
(* unlock and the unlocked reads of the code are harmless.                 *)
DeathNeedsCrowdedLoop ==
    [][m_ThreadList # {} /\ ~alive' => crowded']_vars

(* A connection that was accepted is opened by the loop it was sent to,    *)
(* unless the server ends.                                                 *)
AcceptedIsOpened ==
    \A fd \in Fds, l \in Loops :
        fd \in ToSet(pipe[l]) ~> fd \in connectQueue[l] \/ ~alive

(* A loop that opens or closes a connection comes back to its events: the  *)
(* lists and m_BusyMutex never hold it for good.                           *)
CallbackReturns ==
    \A l \in Loops :
        lpc[l] \notin {"none", "new", "dispatch", "ended"}
            ~> lpc[l] = "dispatch" \/ ~alive
=============================================================================
