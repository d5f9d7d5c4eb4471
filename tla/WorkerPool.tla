----------------------------- MODULE WorkerPool -----------------------------
(***************************************************************************)
(* The pool of worker threads (threadpool.cpp) that executes the requests  *)
(* of the connections.  Reactors are the event-loop threads: their         *)
(* ReadEventCb calls CThreadPool::Run with the connection as the job.      *)
(* Workers are the CWorkerThread objects: each runs CWorkerThread::Run.    *)
(*                                                                         *)
(* A critical section under m_IdleMutex, m_BusyMutex or m_VarMutex is one  *)
(* step: those mutexes are never held across a wait.  m_WorkMutex of each  *)
(* worker is held across other steps and is a variable.  A read of a list  *)
(* size outside a mutex is a step of its own.                              *)
(*                                                                         *)
(* m_BusyList is a multiset (the code only counts it, finds in it and      *)
(* erases one entry), m_ThreadList a set (an object is appended once).     *)
(* m_AvailNum, m_JobData, m_pWorkThread and m_ThreadState are written and  *)
(* never read by a decision: they are left out.                            *)
(***************************************************************************)
EXTENDS Integers, Sequences, SequencesExt, FiniteSets, Functions

CONSTANTS
    Workers,       (* CWorkerThread objects the process can ever allocate   *)
    Reactors,      (* event-loop threads, the callers of CThreadPool::Run   *)
    Conns,         (* connections; a Conn is the job that is run            *)
    ConnOwner,     (* the event loop every connection is registered with    *)
    NoConn,        (* m_Job == NULL                                         *)
    NoThread,      (* no thread: a free mutex, a NULL CWorkerThread pointer *)
    m_InitNum, m_MaxNum, m_AvailLow, m_AvailHigh,
    StartMayFail,  (* whether pthread_create can fail                       *)
    BusyBound      (* no request arrives while m_BusyList is this long: a   *)
                   (* bound for TLC, the list itself has none               *)

ASSUME WorkersAssumption == IsFiniteSet(Workers) /\ NoThread \notin Workers
ASSUME ReactorsAssumption == NoThread \notin Reactors /\ Reactors \cap Workers = {}
ASSUME ConnsAssumption == NoConn \notin Conns /\ ConnOwner \in [Conns -> Reactors]
ASSUME LimitsAssumption ==
    /\ {m_InitNum, m_MaxNum, m_AvailLow, m_AvailHigh} \subseteq Nat
    /\ 0 < m_InitNum
    /\ StartMayFail \in BOOLEAN
    /\ BusyBound \in Nat

VARIABLES
    m_IdleList,    (* sequence of workers                                   *)
    m_BusyList,    (* worker -> number of its entries                       *)
    m_ThreadList,  (* set of workers                                        *)
    m_Job,         (* worker -> the connection it has to serve, or NoConn   *)
    m_WorkMutex,   (* worker -> the thread that holds its mutex             *)
    rpc, wpc,      (* where each reactor and each worker is                 *)
    thr,           (* reactor -> local CWorkerThread*                       *)
    job,           (* reactor -> the argument of CThreadPool::Run           *)
    num            (* thread -> local count: what is left to create, read   *)
                   (* or to delete                                          *)

lists == <<m_IdleList, m_BusyList, m_ThreadList>>
vars == <<lists, m_Job, m_WorkMutex, rpc, wpc, thr, job, num>>

Threads == Reactors \cup Workers

-----------------------------------------------------------------------------
(* Reading the lists.                                                      *)

Idle == ToSet(m_IdleList)

IdleNum == Len(m_IdleList)
GetAllNum == Cardinality(m_ThreadList)
GetBusyNum == SumFunction(m_BusyList)

(* a < b when a is the result of an unsigned subtraction: below zero it    *)
(* has wrapped around to a number larger than any limit.                   *)
UnsignedLess(a, b) == a >= 0 /\ a < b

(* vector::erase of the first (in m_IdleList: only) entry found.           *)
EraseOneBusy(w) == [m_BusyList EXCEPT ![w] = IF @ > 0 THEN @ - 1 ELSE 0]

(* Allocated objects that were not used yet.                               *)
Unused == {w \in Workers : wpc[w] = "none"}

-----------------------------------------------------------------------------
(* Where the threads are.                                                  *)

ReactorSteps == {"loop", "maxEnter", "maxWait", "lowTest", "readAll", "readIdle",
                 "fillInit", "fillMax", "create", "start", "idleTest",
                 "idleEnter", "idleWait", "front", "lockWork", "pushBusy",
                 "eraseIdle", "setJob", "signalJob", "unlockWork"}

WorkerSteps == {"none", "new", "test", "enter", "wait", "lock", "run", "pushIdle",
                "eraseBusy", "sigIdle", "sigMax", "highTest", "delCount",
                "delete", "unlock"}

GoR(r, s) == rpc' = [rpc EXCEPT ![r] = s]
GoW(w, s) == wpc' = [wpc EXCEPT ![w] = s]

(* pthread_cond_signal on a condition reactors wait for at step s: one of  *)
(* the waiters, if any, goes on at step next; the signal is not kept.      *)
SignalReactor(s, next) ==
    \/ \E r \in Reactors : rpc[r] = s /\ GoR(r, next)
    \/ (\A r \in Reactors : rpc[r] # s) /\ UNCHANGED rpc

-----------------------------------------------------------------------------
(* CThreadPool::CThreadPool(): m_InitNum idle threads.  A thread that      *)
(* could not be started stays listed.                                      *)
Init ==
    /\ m_IdleList \in [1..m_InitNum -> Workers]
    /\ IsInjective(m_IdleList)
    /\ m_BusyList = [w \in Workers |-> 0]
    /\ m_ThreadList = ToSet(m_IdleList)
    /\ m_Job = [w \in Workers |-> NoConn]
    /\ m_WorkMutex = [w \in Workers |-> NoThread]
    /\ rpc = [r \in Reactors |-> "loop"]
    /\ \E failed \in SUBSET m_ThreadList :
          /\ ~StartMayFail => failed = {}
          /\ wpc = [w \in Workers |-> IF w \notin m_ThreadList THEN "none"
                                      ELSE IF w \in failed THEN "new" ELSE "test"]
    /\ thr = [r \in Reactors |-> NoThread]
    /\ job = [r \in Reactors |-> NoConn]
    /\ num = [t \in Threads |-> 0]

-----------------------------------------------------------------------------
(* CThreadPool::Run, executed by a reactor.                                *)

(* ReadEventCb hands a connection of its own event loop to the pool; Run   *)
(* tests the number of busy threads for equality with the limit.           *)
ReadEventCb(r, c) ==
    /\ rpc[r] = "loop"
    /\ ConnOwner[c] = r
    /\ GetBusyNum < BusyBound
    /\ job' = [job EXCEPT ![r] = c]
    /\ GoR(r, IF GetBusyNum = m_MaxNum THEN "maxEnter" ELSE "lowTest")
    /\ UNCHANGED <<lists, m_Job, m_WorkMutex, wpc, thr, num>>

(* m_MaxNumCond.wait(): a reactor is queued only some time after its test, *)
(* and does not repeat the test when it goes on.                           *)
WaitMaxNum(r) ==
    /\ rpc[r] = "maxEnter"
    /\ GoR(r, "maxWait")
    /\ UNCHANGED <<lists, m_Job, m_WorkMutex, wpc, thr, job, num>>

TestAvailLow(r) ==
    /\ rpc[r] = "lowTest"
    /\ GoR(r, IF IdleNum < m_AvailLow THEN "readAll" ELSE "idleTest")
    /\ UNCHANGED <<lists, m_Job, m_WorkMutex, wpc, thr, job, num>>

(* GetAllNum()+m_InitNum-m_IdleList.size() < m_MaxNum: two reads.          *)
ReadAllNum(r) ==
    /\ rpc[r] = "readAll"
    /\ num' = [num EXCEPT ![r] = GetAllNum]
    /\ GoR(r, "readIdle")
    /\ UNCHANGED <<lists, m_Job, m_WorkMutex, wpc, thr, job>>

TestRoom(r) ==
    /\ rpc[r] = "readIdle"
    /\ GoR(r, IF UnsignedLess(num[r] + m_InitNum - IdleNum, m_MaxNum)
              THEN "fillInit" ELSE "fillMax")
    /\ UNCHANGED <<lists, m_Job, m_WorkMutex, wpc, thr, job, num>>

(* The argument of CreateIdleThread, read again from the lists.            *)
CountToCreate(r) ==
    /\ \/ /\ rpc[r] = "fillInit"
          /\ num' = [num EXCEPT ![r] = m_InitNum - IdleNum]
       \/ /\ rpc[r] = "fillMax"
          /\ num' = [num EXCEPT ![r] = m_MaxNum - GetAllNum]
    /\ GoR(r, "create")
    /\ UNCHANGED <<lists, m_Job, m_WorkMutex, wpc, thr, job>>

(* One round of CreateIdleThread: the new thread is listed (and can be     *)
(* chosen by another reactor) before it is started.                        *)
CreateIdleThread(r) ==
    /\ rpc[r] = "create"
    /\ num[r] > 0
    /\ \E w \in Unused :
          /\ m_IdleList' = Append(m_IdleList, w)
          /\ m_ThreadList' = m_ThreadList \cup {w}
          /\ GoW(w, "new")
          /\ thr' = [thr EXCEPT ![r] = w]
    /\ GoR(r, "start")
    /\ UNCHANGED <<m_BusyList, m_Job, m_WorkMutex, job, num>>

(* Mutant: the result of new is listed unchecked.                          *)
CreateFails_Unchecked(r) ==
    /\ rpc[r] = "create"
    /\ num[r] > 0
    /\ Unused = {}
    /\ m_IdleList' = Append(m_IdleList, NoThread)
    /\ num' = [num EXCEPT ![r] = @ - 1]
    /\ UNCHANGED <<m_BusyList, m_ThreadList, m_Job, m_WorkMutex, rpc, wpc, thr, job>>

(* operator new throws: the round is skipped.                              *)
CreateFails(r) ==
    /\ rpc[r] = "create"
    /\ num[r] > 0
    /\ Unused = {}
    /\ num' = [num EXCEPT ![r] = @ - 1]
    /\ UNCHANGED <<lists, m_Job, m_WorkMutex, rpc, wpc, thr, job>>

CreateDone(r) ==
    /\ rpc[r] = "create"
    /\ num[r] <= 0
    /\ num' = [num EXCEPT ![r] = 0]
    /\ GoR(r, "idleTest")
    /\ UNCHANGED <<lists, m_Job, m_WorkMutex, wpc, thr, job>>

NextRound(r) ==
    /\ rpc[r] = "start"
    /\ GoR(r, "create")
    /\ num' = [num EXCEPT ![r] = @ - 1]
    /\ thr' = [thr EXCEPT ![r] = NoThread]
    /\ UNCHANGED <<lists, m_Job, m_WorkMutex, job>>

StartWorkerThread(r) ==
    /\ NextRound(r)
    /\ GoW(thr[r], "test")

(* pthread_create fails: the exception is swallowed and the object stays   *)
(* in the lists without a thread.                                          *)
StartFails(r) ==
    /\ StartMayFail
    /\ NextRound(r)
    /\ UNCHANGED wpc

(* GetIdleThread: while(m_IdleList.size() == 0) m_IdleCond.wait()          *)
TestIdle(r) ==
    /\ rpc[r] = "idleTest"
    /\ GoR(r, IF IdleNum = 0 THEN "idleEnter" ELSE "front")
    /\ UNCHANGED <<lists, m_Job, m_WorkMutex, wpc, thr, job, num>>

WaitIdle(r) ==
    /\ rpc[r] = "idleEnter"
    /\ GoR(r, "idleWait")
    /\ UNCHANGED <<lists, m_Job, m_WorkMutex, wpc, thr, job, num>>

(* GetIdleThread returns the first idle thread and leaves it in the list,  *)
(* or NULL when the list became empty: then Run drops the job.             *)
FrontIdle(r) ==
    /\ rpc[r] = "front"
    /\ \/ /\ m_IdleList # <<>>
          /\ thr' = [thr EXCEPT ![r] = Head(m_IdleList)]
          /\ GoR(r, "lockWork")
          /\ UNCHANGED job
       \/ /\ m_IdleList = <<>>
          /\ job' = [job EXCEPT ![r] = NoConn]
          /\ GoR(r, "loop")
          /\ UNCHANGED thr
    /\ UNCHANGED <<lists, m_Job, m_WorkMutex, wpc, num>>

(* Mutant: Run does not wait for m_WorkMutex.                              *)
LockWork_NoWait(r) ==
    /\ rpc[r] = "lockWork"
    /\ m_WorkMutex' = [m_WorkMutex EXCEPT ![thr[r]] = r]
    /\ GoR(r, "pushBusy")
    /\ UNCHANGED <<lists, m_Job, wpc, thr, job, num>>

LockWork(r) ==
    /\ rpc[r] = "lockWork"
    /\ m_WorkMutex[thr[r]] = NoThread
    /\ m_WorkMutex' = [m_WorkMutex EXCEPT ![thr[r]] = r]
    /\ GoR(r, "pushBusy")
    /\ UNCHANGED <<lists, m_Job, wpc, thr, job, num>>

(* The two critical sections of MoveToBusyList.                            *)
PushBusy(r) ==
    /\ rpc[r] = "pushBusy"
    /\ m_BusyList' = [m_BusyList EXCEPT ![thr[r]] = @ + 1]
    /\ GoR(r, "eraseIdle")
    /\ UNCHANGED <<m_IdleList, m_ThreadList, m_Job, m_WorkMutex, wpc, thr, job, num>>

(* Mutant: the worker stays in m_IdleList.                                 *)
EraseIdle_Skipped(r) ==
    /\ rpc[r] = "eraseIdle"
    /\ GoR(r, "setJob")
    /\ UNCHANGED <<lists, m_Job, m_WorkMutex, wpc, thr, job, num>>

EraseIdle(r) ==
    /\ rpc[r] = "eraseIdle"
    /\ m_IdleList' = RemoveFirst(m_IdleList, thr[r])
    /\ GoR(r, "setJob")
    /\ UNCHANGED <<m_BusyList, m_ThreadList, m_Job, m_WorkMutex, wpc, thr, job, num>>

SetJob(r) ==
    /\ rpc[r] = "setJob"
    /\ m_Job' = [m_Job EXCEPT ![thr[r]] = job[r]]
    /\ GoR(r, "signalJob")
    /\ UNCHANGED <<lists, m_WorkMutex, wpc, thr, job, num>>

(* Mutant: SetJob does not signal.                                         *)
SignalJob_Skipped(r) ==
    /\ rpc[r] = "signalJob"
    /\ GoR(r, "unlockWork")
    /\ UNCHANGED <<lists, m_Job, m_WorkMutex, wpc, thr, job, num>>

(* m_JobCond.signal(): it is lost when the worker is not queued.           *)
SignalJob(r) ==
    /\ rpc[r] = "signalJob"
    /\ wpc' = IF wpc[thr[r]] = "wait" THEN [wpc EXCEPT ![thr[r]] = "test"] ELSE wpc
    /\ GoR(r, "unlockWork")
    /\ UNCHANGED <<lists, m_Job, m_WorkMutex, thr, job, num>>

(* Mutant: Run returns without unlocking.                                  *)
UnlockWork_Skipped(r) ==
    /\ rpc[r] = "unlockWork"
    /\ thr' = [thr EXCEPT ![r] = NoThread]
    /\ job' = [job EXCEPT ![r] = NoConn]
    /\ GoR(r, "loop")
    /\ UNCHANGED <<lists, m_Job, m_WorkMutex, wpc, num>>

UnlockWork(r) ==
    /\ rpc[r] = "unlockWork"
    /\ m_WorkMutex' = [m_WorkMutex EXCEPT ![thr[r]] = NoThread]
    /\ thr' = [thr EXCEPT ![r] = NoThread]
    /\ job' = [job EXCEPT ![r] = NoConn]
    /\ GoR(r, "loop")
    /\ UNCHANGED <<lists, m_Job, wpc, num>>

-----------------------------------------------------------------------------
(* CWorkerThread::Run.                                                     *)

(* while(m_Job == NULL) m_JobCond.wait()                                   *)
TestJob(w) ==
    /\ wpc[w] = "test"
    /\ GoW(w, IF m_Job[w] = NoConn THEN "enter" ELSE "lock")
    /\ UNCHANGED <<lists, m_Job, m_WorkMutex, rpc, thr, job, num>>

WaitJob(w) ==
    /\ wpc[w] = "enter"
    /\ GoW(w, "wait")
    /\ UNCHANGED <<lists, m_Job, m_WorkMutex, rpc, thr, job, num>>

LockJob(w) ==
    /\ wpc[w] = "lock"
    /\ m_WorkMutex[w] = NoThread
    /\ m_WorkMutex' = [m_WorkMutex EXCEPT ![w] = w]
    /\ GoW(w, "run")
    /\ UNCHANGED <<lists, m_Job, rpc, thr, job, num>>

(* m_Job->Run returns; m_Job = NULL.                                       *)
FinishJob(w) ==
    /\ wpc[w] = "run"
    /\ m_Job' = [m_Job EXCEPT ![w] = NoConn]
    /\ GoW(w, "pushIdle")
    /\ UNCHANGED <<lists, m_WorkMutex, rpc, thr, job, num>>

(* The two critical sections of MoveToIdleList and its two signals.        *)
PushIdle(w) ==
    /\ wpc[w] = "pushIdle"
    /\ m_IdleList' = Append(m_IdleList, w)
    /\ GoW(w, "eraseBusy")
    /\ UNCHANGED <<m_BusyList, m_ThreadList, m_Job, m_WorkMutex, rpc, thr, job, num>>

(* Mutant: some entry is erased, not the one of this worker.               *)
EraseBusy_Any(w) ==
    /\ wpc[w] = "eraseBusy"
    /\ \E v \in Workers : m_BusyList[v] > 0 /\ m_BusyList' = EraseOneBusy(v)
    /\ GoW(w, "sigIdle")
    /\ UNCHANGED <<m_IdleList, m_ThreadList, m_Job, m_WorkMutex, rpc, thr, job, num>>

EraseBusy(w) ==
    /\ wpc[w] = "eraseBusy"
    /\ m_BusyList' = EraseOneBusy(w)
    /\ GoW(w, "sigIdle")
    /\ UNCHANGED <<m_IdleList, m_ThreadList, m_Job, m_WorkMutex, rpc, thr, job, num>>

SignalIdle(w) ==
    /\ wpc[w] = "sigIdle"
    /\ SignalReactor("idleWait", "idleTest")
    /\ GoW(w, "sigMax")
    /\ UNCHANGED <<lists, m_Job, m_WorkMutex, thr, job, num>>


SignalMaxNum(w) ==
    /\ wpc[w] = "sigMax"
    /\ SignalReactor("maxWait", "lowTest")
    /\ GoW(w, "highTest")
    /\ UNCHANGED <<lists, m_Job, m_WorkMutex, thr, job, num>>

TestAvailHigh(w) ==
    /\ wpc[w] = "highTest"
    /\ GoW(w, IF IdleNum > m_AvailHigh THEN "delCount" ELSE "unlock")
    /\ UNCHANGED <<lists, m_Job, m_WorkMutex, rpc, thr, job, num>>

(* The argument of DeleteIdleThread, read again from the list.             *)
CountToDelete(w) ==
    /\ wpc[w] = "delCount"
    /\ num' = [num EXCEPT ![w] = IdleNum - m_InitNum]
    /\ GoW(w, "delete")
    /\ UNCHANGED <<lists, m_Job, m_WorkMutex, rpc, thr, job>>

(* Mutant: the thread stays in m_ThreadList.                               *)
DeleteIdleThread_KeepsListed(w) ==
    /\ wpc[w] = "delete"
    /\ m_IdleList' = SubSeq(m_IdleList, 1 + num[w], IdleNum)
    /\ num' = [num EXCEPT ![w] = 0]
    /\ GoW(w, "unlock")
    /\ UNCHANGED <<m_BusyList, m_ThreadList, m_Job, m_WorkMutex, rpc, thr, job>>

(* DeleteIdleThread removes num threads from the front of m_IdleList and   *)
(* from m_ThreadList.  When the list runs out, the local thr is whatever   *)
(* is on the stack: the pointer of no listed thread, or of any of them.    *)
DeleteIdleThread(w) ==
    /\ wpc[w] = "delete"
    /\ LET n == IF num[w] > IdleNum THEN IdleNum ELSE num[w]
           erased == {m_IdleList[i] : i \in 1..n}
       IN  /\ m_IdleList' = SubSeq(m_IdleList, 1 + (IF n > 0 THEN n ELSE 0), IdleNum)
           /\ \/ m_ThreadList' = m_ThreadList \ erased
              \/ /\ num[w] > 0
                 /\ IdleNum = 0
                 /\ \E t \in m_ThreadList : m_ThreadList' = m_ThreadList \ {t}
    /\ num' = [num EXCEPT ![w] = 0]
    /\ GoW(w, "unlock")
    /\ UNCHANGED <<m_BusyList, m_Job, m_WorkMutex, rpc, thr, job>>

(* Mutant: the worker goes on to its next wait with its mutex locked.      *)
UnlockJob_Skipped(w) ==
    /\ wpc[w] = "unlock"
    /\ GoW(w, "test")
    /\ UNCHANGED <<lists, m_Job, m_WorkMutex, rpc, thr, job, num>>

UnlockJob(w) ==
    /\ wpc[w] = "unlock"
    /\ m_WorkMutex' = [m_WorkMutex EXCEPT ![w] = NoThread]
    /\ GoW(w, "test")
    /\ UNCHANGED <<lists, m_Job, rpc, thr, job, num>>

-----------------------------------------------------------------------------
(* pthread_cond_wait may return without a signal.                          *)
SpuriousWakeup ==
    /\ \/ /\ \E w \in Workers : wpc[w] = "wait" /\ GoW(w, "test")
          /\ UNCHANGED rpc
       \/ /\ \E r \in Reactors :
                \/ rpc[r] = "maxWait" /\ GoR(r, "lowTest")
                \/ rpc[r] = "idleWait" /\ GoR(r, "idleTest")
          /\ UNCHANGED wpc
    /\ UNCHANGED <<lists, m_Job, m_WorkMutex, thr, job, num>>

(* The steps of CThreadPool::Run once it was called.                       *)
ReactorStep(r) ==
    \/ WaitMaxNum(r) \/ TestAvailLow(r) \/ ReadAllNum(r) \/ TestRoom(r)
    \/ CountToCreate(r) \/ CreateIdleThread(r) \/ CreateFails(r) \/ CreateDone(r)
    \/ StartWorkerThread(r) \/ TestIdle(r) \/ WaitIdle(r) \/ FrontIdle(r)
    \/ LockWork(r) \/ PushBusy(r) \/ EraseIdle(r) \/ SetJob(r) \/ SignalJob(r)
    \/ UnlockWork(r)

WorkerStep(w) ==
    \/ TestJob(w) \/ WaitJob(w) \/ LockJob(w) \/ FinishJob(w) \/ PushIdle(w)
    \/ EraseBusy(w) \/ SignalIdle(w) \/ SignalMaxNum(w) \/ TestAvailHigh(w)
    \/ CountToDelete(w) \/ DeleteIdleThread(w) \/ UnlockJob(w)

Next ==
    \/ \E r \in Reactors, c \in Conns : ReadEventCb(r, c)
    \/ \E r \in Reactors : ReactorStep(r)
    \/ \E r \in Reactors : StartFails(r)
    \/ \E w \in Workers : WorkerStep(w)
    \/ SpuriousWakeup

Spec == Init /\ [][Next]_vars

(* The operating system runs every thread that can run; nothing makes      *)
(* requests arrive, pthread_create fail or a wait end without a signal.    *)
FairSpec ==
    /\ Spec
    /\ \A r \in Reactors : WF_vars(ReactorStep(r))
    /\ \A w \in Workers : WF_vars(WorkerStep(w))

-----------------------------------------------------------------------------
(* Properties.                                                             *)

TypeOK ==
    /\ m_IdleList \in Seq(Workers)
    /\ m_BusyList \in [Workers -> Nat]
    /\ m_ThreadList \subseteq Workers
    /\ m_Job \in [Workers -> Conns \cup {NoConn}]
    /\ m_WorkMutex \in [Workers -> Threads \cup {NoThread}]
    /\ rpc \in [Reactors -> ReactorSteps]
    /\ wpc \in [Workers -> WorkerSteps]
    /\ thr \in [Reactors -> Workers \cup {NoThread}]
    /\ job \in [Reactors -> Conns \cup {NoConn}]
    /\ num \in [Threads -> Int]

(* A worker that GetIdleThread can return has no job, and is listed once:  *)
(* MoveToBusyList and MoveToIdleList update the two lists in separate      *)
(* critical sections, with any number of reactors and workers in between.  *)
IdleIsFree ==
    /\ \A w \in Idle : m_Job[w] = NoConn
    /\ IsInjective(m_IdleList)

(* A worker that holds a job is counted in m_BusyList, so that the limit   *)
(* test of Run never misses it, even while a stale pointer to that worker  *)
(* lets another reactor move it to the list a second time.                 *)
HeldJobIsCounted ==
    \A w \in Workers : m_Job[w] # NoConn => m_BusyList[w] > 0

(* No worker is forgotten: one of the pool that has no job and that nobody *)
(* has locked is in m_IdleList, whatever the other threads were doing when *)
(* it came back.                                                           *)
FreeIsIdle ==
    \A w \in m_ThreadList :
        m_Job[w] = NoConn /\ m_WorkMutex[w] = NoThread => w \in Idle

(* The steps at which a reactor has chosen a worker, and at which it holds *)
(* that worker's m_WorkMutex; the steps at which a worker holds its own.   *)
Choosing == {"lockWork", "pushBusy", "eraseIdle", "setJob", "signalJob", "unlockWork"}
Locking == Choosing \ {"lockWork"}
Returning == {"eraseBusy", "sigIdle", "sigMax", "highTest", "delCount",
              "delete", "unlock"}
Holding == {"run", "pushIdle"} \cup Returning

(* No two reactors have chosen the same worker.  Nothing in the code keeps *)
(* them from it: GetIdleThread leaves the worker it returns in the list.   *)
ChosenByOne ==
    \A r, q \in Reactors :
        {rpc[r], rpc[q]} \subseteq Choosing /\ thr[r] = thr[q] => r = q

(* As long as ChosenByOne holds no entry of m_BusyList outlives its job:   *)
(* there is one per worker at most, so the count that Run compares with    *)
(* m_MaxNum is a number of threads.                                        *)
NoGhostBusy == \A w \in Workers : m_BusyList[w] <= 1

Running == {w \in Workers : wpc[w] = "run"}

(* The pool keeps the promise of JobHandoff: the job that a worker executes *)
(* is there when it starts and stays until it ends.                        *)
Handoff == INSTANCE JobHandoff WITH Jobs <- Conns, NoJob <- NoConn,
    slot <- m_Job, running <- Running, Exclusive <- FALSE
ImplementsHandoff == Handoff!Spec

(* As long as ChosenByOne holds it keeps the stronger one: a worker is     *)
(* given a job only when it has none, so no job is overwritten.            *)
ExclusiveHandoff == INSTANCE JobHandoff WITH Jobs <- Conns, NoJob <- NoConn,
    slot <- m_Job, running <- Running, Exclusive <- TRUE
ImplementsExclusiveHandoff == ExclusiveHandoff!Spec

(* A worker that is queued on m_JobCond when SetJob comes to signal it     *)
(* executes the job and gives it up.  (A worker that is between its test   *)
(* and its wait is not queued yet: the signal is lost, and the job with it.) *)
ParkedWorkerRuns ==
    \A r \in Reactors, w \in Workers :
        rpc[r] = "signalJob" /\ thr[r] = w /\ wpc[w] = "wait"
            ~> wpc[w] = "pushIdle" /\ m_Job[w] = NoConn

(* The reactor that has chosen a worker hands its job over and returns to  *)
(* its event loop: it waits for m_WorkMutex, but never forever.            *)
ChosenWorkerIsLocked ==
    \A r \in Reactors : rpc[r] = "lockWork" ~> rpc[r] = "loop"


(* A worker that came out of its wait with a job gets its mutex, executes  *)
(* the job and comes back to its loop, through the lists of the pool.      *)
StartedWorkerReturns ==
    \A w \in Workers : wpc[w] = "lock" ~> wpc[w] = "test" /\ m_WorkMutex[w] # w

-----------------------------------------------------------------------------
(* The strengthening of the safety properties that every step preserves.   *)

(* Who holds the mutexes.                                                  *)
MutexInv ==
    /\ \A r \in Reactors : rpc[r] \in Locking => m_WorkMutex[thr[r]] = r
    /\ \A w \in Workers : wpc[w] \in Holding => m_WorkMutex[w] = w

(* Objects that were not allocated are nowhere; one that is being started  *)
(* is started by one reactor.                                              *)
CreateInv ==
    /\ \A w \in Unused : w \notin Idle /\ w \notin m_ThreadList /\ m_Job[w] = NoConn
    /\ \A r \in Reactors : rpc[r] = "start" => thr[r] \in Workers /\ wpc[thr[r]] = "new"
    /\ \A r, q \in Reactors :
          rpc[r] = "start" /\ rpc[q] = "start" /\ thr[r] = thr[q] => r = q

(* What a reactor knows of the worker it has chosen, step by step.         *)
ChosenInv ==
    \A r \in Reactors :
        /\ rpc[r] # "loop" => job[r] \in Conns
        /\ rpc[r] \in Choosing => thr[r] \in Workers /\ wpc[thr[r]] # "none"
        /\ rpc[r] \in {"eraseIdle", "setJob"} => m_BusyList[thr[r]] > 0
        /\ rpc[r] = "setJob" => thr[r] \notin Idle
        /\ rpc[r] \in {"signalJob", "unlockWork"} => m_Job[thr[r]] # NoConn

(* What a worker knows of its job and of the lists, step by step.          *)
WorkerInv ==
    \A w \in Workers :
        /\ wpc[w] \in {"lock", "run"} => m_Job[w] # NoConn
        /\ wpc[w] \in {"pushIdle"} \cup Returning => m_Job[w] = NoConn
        /\ wpc[w] = "pushIdle" => w \notin Idle
        /\ wpc[w] \in Returning /\ w \in m_ThreadList => w \in Idle

PoolInv ==
    /\ TypeOK
    /\ IdleIsFree
    /\ HeldJobIsCounted
    /\ FreeIsIdle
    /\ MutexInv
    /\ CreateInv
    /\ ChosenInv
    /\ WorkerInv

(* As long as ChosenByOne holds, moreover, a chosen worker stays without a *)
(* job until SetJob, and every entry of m_BusyList belongs to a job that   *)
(* is being handed over, held or given up.                                 *)
SingleInv ==
    /\ \A r \in Reactors :
          rpc[r] \in {"lockWork", "pushBusy", "eraseIdle", "setJob"}
              => m_Job[thr[r]] = NoConn
    /\ NoGhostBusy
    /\ \A w \in Workers :
          m_BusyList[w] > 0 =>
              \/ m_Job[w] # NoConn
              \/ wpc[w] \in {"pushIdle", "eraseBusy"}
              \/ \E r \in Reactors : rpc[r] \in {"eraseIdle", "setJob"} /\ thr[r] = w
=============================================================================
