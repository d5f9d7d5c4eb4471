------------------------- MODULE WorkerPool_proofs -------------------------
(***************************************************************************)
(* Proofs about WorkerPool, for any number of workers, reactors and        *)
(* connections and any limits of the pool.                                 *)
(***************************************************************************)
EXTENDS WorkerPool, DistinctLists

-----------------------------------------------------------------------------
(* The invariant holds initially.                                          *)
LEMMA InitPoolInv == Init => PoolInv
<1> SUFFICES ASSUME Init PROVE PoolInv
  OBVIOUS
<1>1. m_IdleList \in Seq(Workers)
  BY LimitsAssumption DEF Init
<1>2. Idle \subseteq Workers /\ m_ThreadList = Idle
  BY <1>1, LenProperties DEF Init, Idle, ToSet
<1>3. TypeOK
  BY <1>1, <1>2 DEF Init, TypeOK, ReactorSteps, WorkerSteps, Threads
<1>4. IdleIsFree /\ HeldJobIsCounted /\ FreeIsIdle
  BY <1>2 DEF Init, IdleIsFree, HeldJobIsCounted, FreeIsIdle
<1>5. MutexInv /\ ChosenInv /\ WorkerInv
  BY DEF Init, MutexInv, ChosenInv, WorkerInv, Locking, Choosing, Holding, Returning
<1>6. CreateInv
  BY <1>2 DEF Init, CreateInv, Unused
<1> QED BY <1>3, <1>4, <1>5, <1>6 DEF PoolInv

(* The steps that touch neither the lists nor a job nor a mutex, lead no   *)
(* reactor to a worker and no worker to the list it comes back to.         *)
LEMMA OtherSteps ==
    ASSUME PoolInv, TypeOK', UNCHANGED <<lists, m_Job, m_WorkMutex>>,
           \A r \in Reactors :
               \/ rpc'[r] = rpc[r] /\ thr'[r] = thr[r]
               \/ rpc'[r] \notin Choosing \cup {"start"},
           \A r \in Reactors : rpc'[r] # "loop" => job'[r] \in Conns,
           \A w \in Workers :
               \/ wpc'[w] = wpc[w]
               \/ /\ wpc[w] \notin {"none", "new"}
                  /\ wpc'[w] \notin {"none", "run", "pushIdle"}
                  /\ wpc'[w] \in Returning => wpc[w] \in Returning
                  /\ wpc'[w] = "lock" => m_Job[w] # NoConn
    PROVE  PoolInv'
<1>1. IdleIsFree' /\ HeldJobIsCounted' /\ FreeIsIdle'
  BY DEF PoolInv, IdleIsFree, HeldJobIsCounted, FreeIsIdle, lists, Idle
<1>2. MutexInv'
  <2>1. ASSUME NEW r \in Reactors, rpc'[r] \in Locking PROVE m_WorkMutex'[thr'[r]] = r
    BY <2>1 DEF PoolInv, MutexInv, Locking, Choosing
  <2>2. ASSUME NEW w \in Workers, wpc'[w] \in Holding PROVE m_WorkMutex'[w] = w
    BY <2>2 DEF PoolInv, MutexInv, Holding, Returning
  <2> QED BY <2>1, <2>2 DEF MutexInv, Locking, Choosing, Holding, Returning
<1>3. CreateInv'
  <2>1. \A w \in Workers : wpc'[w] = "none" => wpc[w] = "none"
    OBVIOUS
  <2>2. \A w \in Unused' : w \notin Idle' /\ w \notin m_ThreadList' /\ m_Job'[w] = NoConn
    BY <2>1 DEF PoolInv, CreateInv, Unused, lists, Idle
  <2>3. ASSUME NEW r \in Reactors, rpc'[r] = "start"
        PROVE  /\ rpc[r] = "start" /\ thr'[r] = thr[r]
               /\ thr'[r] \in Workers /\ wpc'[thr'[r]] = "new"
    BY <2>3 DEF PoolInv, CreateInv
  <2> QED BY <2>2, <2>3 DEF PoolInv, CreateInv
<1>4. ChosenInv'
  <2> SUFFICES ASSUME NEW r \in Reactors
               PROVE  ChosenInv!(r)'
    BY DEF ChosenInv
  <2>1. CASE rpc'[r] \notin Choosing \cup {"start"}
    BY <2>1 DEF Choosing
  <2>2. CASE rpc'[r] = rpc[r] /\ thr'[r] = thr[r]
    BY <2>2 DEF PoolInv, ChosenInv, Choosing, lists, Idle
  <2> QED BY <2>1, <2>2
<1>5. WorkerInv'
  BY DEF PoolInv, WorkerInv,
     Returning, lists, Idle
<1> QED BY <1>1, <1>2, <1>3, <1>4, <1>5 DEF PoolInv

-----------------------------------------------------------------------------
(* The steps of a reactor that lead it to a worker.                        *)

(* A new object enters m_IdleList and m_ThreadList, free and once.         *)
LEMMA CreateIdleThreadInv ==
    ASSUME PoolInv, NEW r \in Reactors, CreateIdleThread(r)
    PROVE  PoolInv'
<1>1. PICK w \in Unused :
          /\ m_IdleList' = Append(m_IdleList, w)
          /\ m_ThreadList' = m_ThreadList \cup {w}
          /\ wpc' = [wpc EXCEPT ![w] = "new"]
          /\ thr' = [thr EXCEPT ![r] = w]
  BY DEF CreateIdleThread, GoW
<1>2. w \in Workers /\ w \notin Idle /\ w \notin m_ThreadList /\ m_Job[w] = NoConn
  BY DEF Unused, PoolInv, CreateInv
<1>3. /\ m_IdleList' \in Seq(Workers)
      /\ Idle' = Idle \cup {w}
      /\ IsInjective(m_IdleList')
  BY <1>1, <1>2, AppendFresh DEF PoolInv, TypeOK, IdleIsFree, Idle
<1>4. rpc' = [rpc EXCEPT ![r] = "start"] /\ UNCHANGED <<m_BusyList, m_Job, m_WorkMutex, job, num>>
  BY DEF CreateIdleThread, GoR
<1>5. TypeOK'
  BY <1>1, <1>2, <1>3, <1>4 DEF PoolInv, TypeOK, ReactorSteps, WorkerSteps
<1>6. IdleIsFree' /\ HeldJobIsCounted' /\ FreeIsIdle'
  BY <1>1, <1>2, <1>3, <1>4 DEF PoolInv, IdleIsFree, HeldJobIsCounted, FreeIsIdle
<1>7. MutexInv'
  BY <1>1, <1>2, <1>4 DEF PoolInv, TypeOK, MutexInv, Locking, Choosing, Holding, Returning
<1>8. CreateInv'
  <2>1. wpc[w] = "none" /\ wpc'[w] = "new"
    BY <1>1, <1>2 DEF Unused, PoolInv, TypeOK
  <2>2. \A v \in Unused' : v \notin Idle' /\ v \notin m_ThreadList' /\ m_Job'[v] = NoConn
    BY <1>1, <1>2, <1>3, <1>4, <2>1 DEF PoolInv, TypeOK, CreateInv, Unused
  <2>3. ASSUME NEW q \in Reactors, rpc'[q] = "start"
        PROVE  /\ thr'[q] \in Workers /\ wpc'[thr'[q]] = "new"
               /\ q # r => rpc[q] = "start" /\ thr'[q] = thr[q] /\ thr[q] # w
    BY <1>1, <1>2, <1>4, <2>1, <2>3 DEF PoolInv, TypeOK, CreateInv
  <2>4. thr'[r] = w
    BY <1>1 DEF PoolInv, TypeOK
  <2> QED BY <2>2, <2>3, <2>4 DEF PoolInv, CreateInv
<1>9. ChosenInv'
  BY <1>1, <1>2, <1>3, <1>4 DEF PoolInv, TypeOK, ChosenInv, Choosing, Unused, CreateIdleThread
<1>10. WorkerInv'
  BY <1>1, <1>2, <1>3, <1>4 DEF PoolInv, TypeOK, WorkerInv, Returning, Unused
<1> QED BY <1>5, <1>6, <1>7, <1>8, <1>9, <1>10 DEF PoolInv

(* The thread of a new object starts; the object was started by nobody else.*)
LEMMA StartWorkerThreadInv ==
    ASSUME PoolInv, NEW r \in Reactors, StartWorkerThread(r)
    PROVE  PoolInv'
<1>1. /\ rpc[r] = "start"
      /\ thr[r] \in Workers /\ wpc[thr[r]] = "new"
      /\ rpc' = [rpc EXCEPT ![r] = "create"]
      /\ wpc' = [wpc EXCEPT ![thr[r]] = "test"]
      /\ thr' = [thr EXCEPT ![r] = NoThread]
      /\ num' = [num EXCEPT ![r] = @ - 1]
      /\ UNCHANGED <<lists, m_Job, m_WorkMutex, job>>
  BY DEF StartWorkerThread, NextRound, GoR, GoW, PoolInv, CreateInv
<1>2. TypeOK'
  BY <1>1 DEF PoolInv, TypeOK, ReactorSteps, WorkerSteps, Threads, lists
<1>3. IdleIsFree' /\ HeldJobIsCounted' /\ FreeIsIdle'
  BY <1>1 DEF PoolInv, IdleIsFree, HeldJobIsCounted, FreeIsIdle, lists, Idle
<1>4. MutexInv'
  BY <1>1 DEF PoolInv, TypeOK, MutexInv, Locking, Choosing, Holding, Returning
<1>5. CreateInv'
  <2>1. ASSUME NEW q \in Reactors, rpc'[q] = "start"
        PROVE  /\ thr'[q] \in Workers /\ wpc'[thr'[q]] = "new"
               /\ rpc[q] = "start" /\ thr'[q] = thr[q]
    BY <1>1, <2>1 DEF PoolInv, TypeOK, CreateInv
  <2>2. \A v \in Unused' : v \notin Idle' /\ v \notin m_ThreadList' /\ m_Job'[v] = NoConn
    BY <1>1 DEF PoolInv, TypeOK, CreateInv, Unused, lists, Idle
  <2> QED BY <2>1, <2>2 DEF PoolInv, CreateInv
<1>6. ChosenInv'
  BY <1>1 DEF PoolInv, TypeOK, ChosenInv, Choosing, lists, Idle
<1>7. WorkerInv'
  BY <1>1 DEF PoolInv, TypeOK, WorkerInv,
     Returning, lists, Idle
<1> QED BY <1>2, <1>3, <1>4, <1>5, <1>6, <1>7 DEF PoolInv

(* GetIdleThread returns a worker that was allocated and has no job.       *)
LEMMA FrontIdleInv ==
    ASSUME PoolInv, NEW r \in Reactors, FrontIdle(r), m_IdleList # <<>>
    PROVE  PoolInv' /\ m_Job[thr'[r]] = NoConn
<1> DEFINE w == Head(m_IdleList)
<1>1. w \in Idle /\ w \in Workers
  BY LenProperties, EmptySeq, HeadTailProperties DEF PoolInv, TypeOK, Idle, ToSet
<1>2. m_Job[w] = NoConn /\ wpc[w] # "none"
  BY <1>1 DEF PoolInv, IdleIsFree, CreateInv, Unused
<1>3. /\ rpc[r] = "front"
      /\ rpc' = [rpc EXCEPT ![r] = "lockWork"]
      /\ thr' = [thr EXCEPT ![r] = w]
      /\ UNCHANGED <<lists, m_Job, m_WorkMutex, wpc, job, num>>
  BY DEF FrontIdle, GoR
<1> HIDE DEF w
<1>4. TypeOK'
  BY <1>1, <1>3 DEF PoolInv, TypeOK, ReactorSteps, lists
<1>5. IdleIsFree' /\ HeldJobIsCounted' /\ FreeIsIdle' /\ WorkerInv'
  BY <1>3 DEF PoolInv, IdleIsFree, HeldJobIsCounted, FreeIsIdle, WorkerInv,
     lists, Idle
<1>6. MutexInv'
  BY <1>3 DEF PoolInv, TypeOK, MutexInv, Locking, Choosing
<1>7. CreateInv'
  BY <1>3 DEF PoolInv, TypeOK, CreateInv, Unused, lists, Idle
<1>8. ChosenInv'
  BY <1>1, <1>2, <1>3 DEF PoolInv, TypeOK, ChosenInv, Choosing, lists, Idle
<1>9. m_Job[thr'[r]] = NoConn
  BY <1>2, <1>3 DEF PoolInv, TypeOK
<1> QED BY <1>4, <1>5, <1>6, <1>7, <1>8, <1>9 DEF PoolInv

-----------------------------------------------------------------------------
(* The steps of a reactor that hand the job over.                          *)

(* The reactor obtains the mutex: the worker is not in a step that holds it.*)
LEMMA LockWorkInv ==
    ASSUME PoolInv, NEW r \in Reactors, LockWork(r)
    PROVE  PoolInv'
<1>1. /\ rpc[r] = "lockWork" /\ thr[r] \in Workers
      /\ m_WorkMutex[thr[r]] = NoThread
      /\ m_WorkMutex' = [m_WorkMutex EXCEPT ![thr[r]] = r]
      /\ rpc' = [rpc EXCEPT ![r] = "pushBusy"]
      /\ UNCHANGED <<lists, m_Job, wpc, thr, job, num>>
  BY DEF LockWork, GoR, PoolInv, ChosenInv, Choosing
<1>2. r # NoThread /\ NoThread \notin Workers
  BY ReactorsAssumption, WorkersAssumption
<1>3. TypeOK'
  BY <1>1 DEF PoolInv, TypeOK, ReactorSteps, Threads, lists
<1>4. IdleIsFree' /\ HeldJobIsCounted' /\ FreeIsIdle' /\ WorkerInv'
  BY <1>1, <1>2 DEF PoolInv, TypeOK, IdleIsFree, HeldJobIsCounted, FreeIsIdle, WorkerInv,
     lists, Idle
<1>5. MutexInv'
  BY <1>1, <1>2, ReactorsAssumption DEF PoolInv, TypeOK, MutexInv, Locking, Choosing
<1>6. CreateInv' /\ ChosenInv'
  BY <1>1 DEF PoolInv, TypeOK, CreateInv, ChosenInv, Unused, Choosing, lists, Idle
<1> QED BY <1>3, <1>4, <1>5, <1>6 DEF PoolInv

(* From its entry in m_BusyList on, the worker may be given a job.         *)
LEMMA PushBusyInv ==
    ASSUME PoolInv, NEW r \in Reactors, PushBusy(r)
    PROVE  PoolInv'
<1>1. /\ rpc[r] = "pushBusy" /\ thr[r] \in Workers
      /\ m_BusyList' = [m_BusyList EXCEPT ![thr[r]] = @ + 1]
      /\ rpc' = [rpc EXCEPT ![r] = "eraseIdle"]
      /\ UNCHANGED <<m_IdleList, m_ThreadList, m_Job, m_WorkMutex, wpc, thr, job, num>>
  BY DEF PushBusy, GoR, PoolInv, ChosenInv, Choosing
<1>2. TypeOK'
  BY <1>1 DEF PoolInv, TypeOK, ReactorSteps
<1>3. \A w \in Workers : m_BusyList[w] > 0 => m_BusyList'[w] > 0
  BY <1>1 DEF PoolInv, TypeOK
<1>4. IdleIsFree' /\ HeldJobIsCounted' /\ FreeIsIdle' /\ WorkerInv'
  BY <1>1, <1>3 DEF PoolInv, IdleIsFree, HeldJobIsCounted, FreeIsIdle, WorkerInv, Idle
<1>5. MutexInv' /\ CreateInv'
  BY <1>1 DEF PoolInv, TypeOK, MutexInv, CreateInv, Unused, Locking, Choosing, Idle
<1>6. ChosenInv'
  <2>1. m_BusyList'[thr[r]] > 0
    BY <1>1 DEF PoolInv, TypeOK
  <2> QED BY <1>1, <1>3, <2>1 DEF PoolInv, TypeOK, ChosenInv, Choosing, Idle
<1> QED BY <1>2, <1>4, <1>5, <1>6 DEF PoolInv

(* The worker leaves m_IdleList before it is given a job; its mutex is held.*)
LEMMA EraseIdleInv ==
    ASSUME PoolInv, NEW r \in Reactors, EraseIdle(r)
    PROVE  PoolInv'
<1>1. /\ rpc[r] = "eraseIdle" /\ thr[r] \in Workers
      /\ m_WorkMutex[thr[r]] = r
      /\ m_IdleList' = RemoveFirst(m_IdleList, thr[r])
      /\ rpc' = [rpc EXCEPT ![r] = "setJob"]
      /\ UNCHANGED <<m_BusyList, m_ThreadList, m_Job, m_WorkMutex, wpc, thr, job, num>>
  BY DEF EraseIdle, GoR, PoolInv, ChosenInv, MutexInv, Choosing, Locking
<1>2. /\ m_IdleList' \in Seq(Workers)
      /\ IsInjective(m_IdleList')
      /\ Idle' = Idle \ {thr[r]}
  BY <1>1, RemoveFirstOfDistinct DEF PoolInv, TypeOK, IdleIsFree, Idle
<1>3. r # NoThread /\ r \notin Workers
  BY ReactorsAssumption
<1>4. TypeOK'
  BY <1>1, <1>2 DEF PoolInv, TypeOK, ReactorSteps
<1>5. IdleIsFree' /\ HeldJobIsCounted' /\ FreeIsIdle'
  BY <1>1, <1>2, <1>3 DEF PoolInv, IdleIsFree, HeldJobIsCounted, FreeIsIdle
<1>6. MutexInv' /\ CreateInv' /\ ChosenInv'
  BY <1>1, <1>2 DEF PoolInv, TypeOK, MutexInv, CreateInv, ChosenInv, Unused, Locking, Choosing
<1>7. WorkerInv'
  BY <1>1, <1>2, <1>3 DEF PoolInv, WorkerInv, MutexInv, Holding, Returning
<1> QED BY <1>4, <1>5, <1>6, <1>7 DEF PoolInv

(* The job enters the slot of a worker that is counted, unlisted and locked.*)
LEMMA SetJobInv ==
    ASSUME PoolInv, NEW r \in Reactors, SetJob(r)
    PROVE  PoolInv'
<1>1. /\ rpc[r] = "setJob" /\ thr[r] \in Workers /\ wpc[thr[r]] # "none"
      /\ m_WorkMutex[thr[r]] = r
      /\ job[r] \in Conns /\ job[r] # NoConn
      /\ thr[r] \notin Idle
      /\ m_BusyList[thr[r]] > 0
      /\ m_Job' = [m_Job EXCEPT ![thr[r]] = job[r]]
      /\ rpc' = [rpc EXCEPT ![r] = "signalJob"]
      /\ UNCHANGED <<lists, m_WorkMutex, wpc, thr, job, num>>
  BY ConnsAssumption DEF SetJob, GoR, PoolInv, ChosenInv, MutexInv, Choosing, Locking
<1>2. \A w \in Workers : m_Job'[w] = IF w = thr[r] THEN job[r] ELSE m_Job[w]
  BY <1>1 DEF PoolInv, TypeOK
<1>3. TypeOK'
  BY <1>1 DEF PoolInv, TypeOK, ReactorSteps, lists
<1>4. Idle \subseteq Workers /\ Idle' = Idle
  BY <1>1, LenProperties DEF PoolInv, TypeOK, Idle, ToSet, lists
<1>5. IdleIsFree' /\ HeldJobIsCounted' /\ FreeIsIdle'
  BY <1>1, <1>2, <1>4 DEF PoolInv, TypeOK, IdleIsFree, HeldJobIsCounted, FreeIsIdle, lists
<1>6. MutexInv' /\ CreateInv'
  BY <1>1, <1>2, <1>4 DEF PoolInv, TypeOK, MutexInv, CreateInv, Unused, Locking, Choosing, lists
<1>7. ChosenInv'
  BY <1>1, <1>2, <1>4 DEF PoolInv, TypeOK, ChosenInv, Choosing, lists
<1>8. WorkerInv'
  <2>1. r \notin Workers
    BY ReactorsAssumption
  <2> QED BY <1>1, <1>2, <1>4, <2>1 DEF PoolInv, WorkerInv, MutexInv, Holding, Returning, lists
<1> QED BY <1>3, <1>5, <1>6, <1>7, <1>8 DEF PoolInv

(* The signal only sends the worker back to its test.                      *)
LEMMA SignalJobInv ==
    ASSUME PoolInv, NEW r \in Reactors, SignalJob(r)
    PROVE  PoolInv'
<1>1. /\ rpc[r] = "signalJob" /\ thr[r] \in Workers
      /\ wpc' = IF wpc[thr[r]] = "wait" THEN [wpc EXCEPT ![thr[r]] = "test"] ELSE wpc
      /\ rpc' = [rpc EXCEPT ![r] = "unlockWork"]
      /\ UNCHANGED <<lists, m_Job, m_WorkMutex, thr, job, num>>
  BY DEF SignalJob, GoR, PoolInv, ChosenInv, Choosing
<1>2. \A w \in Workers : wpc'[w] = wpc[w] \/ (wpc[w] = "wait" /\ wpc'[w] = "test")
  BY <1>1 DEF PoolInv, TypeOK
<1>3. TypeOK'
  BY <1>1 DEF PoolInv, TypeOK, ReactorSteps, WorkerSteps, lists
<1>4. IdleIsFree' /\ HeldJobIsCounted' /\ FreeIsIdle' /\ WorkerInv'
  BY <1>1, <1>2 DEF PoolInv, IdleIsFree, HeldJobIsCounted, FreeIsIdle, WorkerInv,
     Returning, lists, Idle
<1>5. MutexInv'
  BY <1>1, <1>2 DEF PoolInv, TypeOK, MutexInv, Locking, Choosing, Holding, Returning
<1>6. CreateInv'
  BY <1>1, <1>2 DEF PoolInv, TypeOK, CreateInv, Unused, lists, Idle
<1>7. ChosenInv'
  BY <1>1, <1>2 DEF PoolInv, TypeOK, ChosenInv, Choosing, lists, Idle
<1> QED BY <1>3, <1>4, <1>5, <1>6, <1>7 DEF PoolInv

(* The worker is released with its job, so it needs not be in m_IdleList.  *)
LEMMA UnlockWorkInv ==
    ASSUME PoolInv, NEW r \in Reactors, UnlockWork(r)
    PROVE  PoolInv'
<1>1. /\ rpc[r] = "unlockWork" /\ thr[r] \in Workers
      /\ m_WorkMutex[thr[r]] = r /\ m_Job[thr[r]] # NoConn
      /\ m_WorkMutex' = [m_WorkMutex EXCEPT ![thr[r]] = NoThread]
      /\ thr' = [thr EXCEPT ![r] = NoThread]
      /\ job' = [job EXCEPT ![r] = NoConn]
      /\ rpc' = [rpc EXCEPT ![r] = "loop"]
      /\ UNCHANGED <<lists, m_Job, wpc, num>>
  BY DEF UnlockWork, GoR, PoolInv, ChosenInv, MutexInv, Choosing, Locking
<1>2. TypeOK'
  BY <1>1 DEF PoolInv, TypeOK, ReactorSteps, lists
<1>3. IdleIsFree' /\ HeldJobIsCounted' /\ FreeIsIdle' /\ WorkerInv'
  BY <1>1 DEF PoolInv, TypeOK, IdleIsFree, HeldJobIsCounted, FreeIsIdle, WorkerInv,
     lists, Idle
<1>4. MutexInv'
  BY <1>1, ReactorsAssumption DEF PoolInv, TypeOK, MutexInv, ChosenInv, Locking, Choosing
<1>5. CreateInv' /\ ChosenInv'
  BY <1>1 DEF PoolInv, TypeOK, CreateInv, ChosenInv, Unused, Choosing, lists, Idle
<1> QED BY <1>2, <1>3, <1>4, <1>5 DEF PoolInv

-----------------------------------------------------------------------------
(* The steps of a worker that execute its job and bring it back.           *)

(* The worker has a job when it locks: nobody else takes a job away.       *)
LEMMA LockJobInv ==
    ASSUME PoolInv, NEW w \in Workers, LockJob(w)
    PROVE  PoolInv'
<1>1. /\ wpc[w] = "lock" /\ m_WorkMutex[w] = NoThread /\ m_Job[w] # NoConn
      /\ m_WorkMutex' = [m_WorkMutex EXCEPT ![w] = w]
      /\ wpc' = [wpc EXCEPT ![w] = "run"]
      /\ UNCHANGED <<lists, m_Job, rpc, thr, job, num>>
  BY DEF LockJob, GoW, PoolInv, WorkerInv
<1>2. TypeOK'
  BY <1>1 DEF PoolInv, TypeOK, WorkerSteps, Threads, lists
<1>3. IdleIsFree' /\ HeldJobIsCounted' /\ FreeIsIdle'
  BY <1>1, WorkersAssumption DEF PoolInv, TypeOK, IdleIsFree, HeldJobIsCounted, FreeIsIdle,
     lists, Idle
<1>4. MutexInv'
  BY <1>1, ReactorsAssumption DEF PoolInv, TypeOK, MutexInv, Holding, Returning
<1>5. CreateInv' /\ ChosenInv'
  BY <1>1 DEF PoolInv, TypeOK, CreateInv, ChosenInv, Unused, lists, Idle
<1>6. WorkerInv'
  BY <1>1 DEF PoolInv, TypeOK, WorkerInv,
     Returning, lists, Idle
<1> QED BY <1>2, <1>3, <1>4, <1>5, <1>6 DEF PoolInv

(* The worker gives its job up, locked and not yet listed.                 *)
LEMMA FinishJobInv ==
    ASSUME PoolInv, NEW w \in Workers, FinishJob(w)
    PROVE  PoolInv'
<1>1. /\ wpc[w] = "run" /\ m_WorkMutex[w] = w /\ w \notin Idle
      /\ m_Job' = [m_Job EXCEPT ![w] = NoConn]
      /\ wpc' = [wpc EXCEPT ![w] = "pushIdle"]
      /\ UNCHANGED <<lists, m_WorkMutex, rpc, thr, job, num>>
  BY DEF FinishJob, GoW, PoolInv, WorkerInv, IdleIsFree, MutexInv, Holding
<1>2. w \notin Reactors /\ w # NoThread
  BY ReactorsAssumption, WorkersAssumption
<1>3. TypeOK'
  BY <1>1 DEF PoolInv, TypeOK, WorkerSteps, lists
<1>4. IdleIsFree' /\ HeldJobIsCounted' /\ FreeIsIdle'
  BY <1>1, <1>2 DEF PoolInv, TypeOK, IdleIsFree, HeldJobIsCounted, FreeIsIdle, lists, Idle
<1>5. MutexInv' /\ CreateInv'
  BY <1>1 DEF PoolInv, TypeOK, MutexInv, CreateInv, Unused, Holding, Returning, lists, Idle
<1>6. ChosenInv'
  BY <1>1, <1>2 DEF PoolInv, TypeOK, ChosenInv, MutexInv, Locking, Choosing, lists, Idle
<1>7. WorkerInv'
  BY <1>1 DEF PoolInv, TypeOK, WorkerInv,
     Returning, lists, Idle
<1> QED BY <1>3, <1>4, <1>5, <1>6, <1>7 DEF PoolInv

(* The worker comes back to m_IdleList, without a job and once.            *)
LEMMA PushIdleInv ==
    ASSUME PoolInv, NEW w \in Workers, PushIdle(w)
    PROVE  PoolInv'
<1>1. /\ wpc[w] = "pushIdle" /\ m_WorkMutex[w] = w
      /\ m_Job[w] = NoConn /\ w \notin Idle
      /\ m_IdleList' = Append(m_IdleList, w)
      /\ wpc' = [wpc EXCEPT ![w] = "eraseBusy"]
      /\ UNCHANGED <<m_BusyList, m_ThreadList, m_Job, m_WorkMutex, rpc, thr, job, num>>
  BY DEF PushIdle, GoW, PoolInv, WorkerInv, MutexInv, Holding
<1>2. /\ m_IdleList' \in Seq(Workers)
      /\ Idle' = Idle \cup {w}
      /\ IsInjective(m_IdleList')
  BY <1>1, AppendFresh DEF PoolInv, TypeOK, IdleIsFree, Idle
<1>3. w \notin Reactors
  BY ReactorsAssumption
<1>4. TypeOK'
  BY <1>1, <1>2 DEF PoolInv, TypeOK, WorkerSteps
<1>5. IdleIsFree' /\ HeldJobIsCounted' /\ FreeIsIdle'
  BY <1>1, <1>2 DEF PoolInv, IdleIsFree, HeldJobIsCounted, FreeIsIdle
<1>6. MutexInv' /\ CreateInv'
  BY <1>1, <1>2 DEF PoolInv, TypeOK, MutexInv, CreateInv, Unused, Holding, Returning
<1>7. ChosenInv'
  BY <1>1, <1>2, <1>3 DEF PoolInv, TypeOK, ChosenInv, MutexInv, Locking, Choosing
<1>8. WorkerInv'
  BY <1>1, <1>2 DEF PoolInv, TypeOK, WorkerInv, Returning
<1> QED BY <1>4, <1>5, <1>6, <1>7, <1>8 DEF PoolInv

(* An entry of m_BusyList goes that no job needs any more.                 *)
LEMMA EraseBusyInv ==
    ASSUME PoolInv, NEW w \in Workers, EraseBusy(w)
    PROVE  PoolInv'
<1>1. /\ wpc[w] = "eraseBusy" /\ m_WorkMutex[w] = w /\ m_Job[w] = NoConn
      /\ m_BusyList' = [m_BusyList EXCEPT ![w] = IF @ > 0 THEN @ - 1 ELSE 0]
      /\ wpc' = [wpc EXCEPT ![w] = "sigIdle"]
      /\ UNCHANGED <<m_IdleList, m_ThreadList, m_Job, m_WorkMutex, rpc, thr, job, num>>
  BY DEF EraseBusy, EraseOneBusy, GoW, PoolInv, WorkerInv, MutexInv, Holding, Returning
<1>2. w \notin Reactors
  BY ReactorsAssumption
<1>3. \A v \in Workers : v # w => m_BusyList'[v] = m_BusyList[v]
  BY <1>1 DEF PoolInv, TypeOK
<1>4. TypeOK'
  <2>1. m_BusyList' \in [Workers -> Nat]
    BY <1>1 DEF PoolInv, TypeOK
  <2> QED BY <1>1, <2>1 DEF PoolInv, TypeOK, WorkerSteps
<1>5. IdleIsFree' /\ HeldJobIsCounted' /\ FreeIsIdle'
  BY <1>1, <1>3 DEF PoolInv, IdleIsFree, HeldJobIsCounted, FreeIsIdle, Idle
<1>6. MutexInv' /\ CreateInv'
  BY <1>1 DEF PoolInv, TypeOK, MutexInv, CreateInv, Unused, Holding, Returning, Idle
<1>7. ChosenInv'
  BY <1>1, <1>2, <1>3 DEF PoolInv, TypeOK, ChosenInv, MutexInv, Locking, Choosing, Idle
<1>8. WorkerInv'
  BY <1>1 DEF PoolInv, TypeOK, WorkerInv, Returning, Idle
<1> QED BY <1>4, <1>5, <1>6, <1>7, <1>8 DEF PoolInv

(* Only workers that leave both lists disappear from m_IdleList.           *)
LEMMA DeleteIdleThreadInv ==
    ASSUME PoolInv, NEW w \in Workers, DeleteIdleThread(w)
    PROVE  PoolInv'
<1> DEFINE n == IF num[w] > IdleNum THEN IdleNum ELSE num[w]
           m == 1 + (IF n > 0 THEN n ELSE 0)
           erased == {m_IdleList[i] : i \in 1..n}
<1>1. /\ wpc[w] = "delete"
      /\ m_IdleList' = SubSeq(m_IdleList, m, IdleNum)
      /\ m_ThreadList' \subseteq m_ThreadList
      /\ num' = [num EXCEPT ![w] = 0]
      /\ wpc' = [wpc EXCEPT ![w] = "unlock"]
      /\ UNCHANGED <<m_BusyList, m_Job, m_WorkMutex, rpc, thr, job>>
  BY DEF DeleteIdleThread, GoW
<1>2. IdleNum \in Nat /\ num[w] \in Int
  BY LenProperties DEF PoolInv, TypeOK, IdleNum, Threads
<1>3. n \in Int /\ m \in 1..(IdleNum + 1) /\ 1..(m - 1) = 1..n
  BY <1>2
<1>4. m_ThreadList' \cap erased = {}
  <2>1. CASE m_ThreadList' = m_ThreadList \ erased
    BY <2>1
  <2>2. CASE IdleNum = 0
    BY <1>2, <2>2
  <2> QED BY <2>1, <2>2 DEF DeleteIdleThread
<1>5. erased = {m_IdleList[i] : i \in 1..(m - 1)}
  BY <1>3
<1> HIDE DEF n, m, erased
<1>6. /\ m_IdleList' \in Seq(Workers)
      /\ IsInjective(m_IdleList')
      /\ Idle' = Idle \ erased
  BY <1>1, <1>3, <1>5, SuffixOfDistinct DEF PoolInv, TypeOK, IdleIsFree, Idle, IdleNum
<1>7. TypeOK'
  BY <1>1, <1>6 DEF PoolInv, TypeOK, WorkerSteps, Threads
<1>8. IdleIsFree' /\ HeldJobIsCounted' /\ FreeIsIdle'
  BY <1>1, <1>4, <1>6 DEF PoolInv, IdleIsFree, HeldJobIsCounted, FreeIsIdle
<1>9. MutexInv' /\ CreateInv' /\ ChosenInv'
  BY <1>1, <1>6 DEF PoolInv, TypeOK, MutexInv, CreateInv, ChosenInv, Unused, Holding, Returning
<1>10. WorkerInv'
  BY <1>1, <1>4, <1>6 DEF PoolInv, TypeOK, WorkerInv, Returning
<1> QED BY <1>7, <1>8, <1>9, <1>10 DEF PoolInv

(* The worker is released free, and in m_IdleList if it is in the pool.    *)
LEMMA UnlockJobInv ==
    ASSUME PoolInv, NEW w \in Workers, UnlockJob(w)
    PROVE  PoolInv'
<1>1. /\ wpc[w] = "unlock" /\ m_WorkMutex[w] = w
      /\ w \in m_ThreadList => w \in Idle
      /\ m_WorkMutex' = [m_WorkMutex EXCEPT ![w] = NoThread]
      /\ wpc' = [wpc EXCEPT ![w] = "test"]
      /\ UNCHANGED <<lists, m_Job, rpc, thr, job, num>>
  BY DEF UnlockJob, GoW, PoolInv, WorkerInv, MutexInv, Holding, Returning
<1>2. TypeOK'
  BY <1>1 DEF PoolInv, TypeOK, WorkerSteps, lists
<1>3. IdleIsFree' /\ HeldJobIsCounted' /\ FreeIsIdle'
  BY <1>1 DEF PoolInv, TypeOK, IdleIsFree, HeldJobIsCounted, FreeIsIdle, lists, Idle
<1>4. MutexInv'
  BY <1>1, ReactorsAssumption DEF PoolInv, TypeOK, MutexInv, ChosenInv, Locking,
     Choosing, Holding, Returning
<1>5. CreateInv' /\ ChosenInv'
  BY <1>1 DEF PoolInv, TypeOK, CreateInv, ChosenInv, Unused, lists, Idle
<1>6. WorkerInv'
  BY <1>1 DEF PoolInv, TypeOK, WorkerInv,
     Returning, lists, Idle
<1> QED BY <1>2, <1>3, <1>4, <1>5, <1>6 DEF PoolInv

-----------------------------------------------------------------------------
(* The other steps of the threads, by OtherSteps.                          *)

(* The tests, the counts and the waits of a reactor.                       *)
LEMMA OtherReactorSteps ==
    ASSUME PoolInv, NEW r \in Reactors,
           \/ \E c \in Conns : ReadEventCb(r, c)
           \/ WaitMaxNum(r) \/ TestAvailLow(r) \/ ReadAllNum(r) \/ TestRoom(r)
           \/ CountToCreate(r) \/ CreateFails(r) \/ CreateDone(r) \/ StartFails(r)
           \/ TestIdle(r) \/ WaitIdle(r) \/ (FrontIdle(r) /\ m_IdleList = <<>>)
    PROVE  PoolInv'
<1>1. UNCHANGED <<lists, m_Job, m_WorkMutex, wpc>>
  BY DEF ReadEventCb, WaitMaxNum, TestAvailLow, ReadAllNum, TestRoom, CountToCreate,
         CreateFails, CreateDone, StartFails, NextRound, TestIdle, WaitIdle, FrontIdle
<1>2. \/ rpc' = rpc /\ thr' = thr
      \/ \E s \in ReactorSteps \ (Choosing \cup {"start"}) :
            /\ rpc' = [rpc EXCEPT ![r] = s]
            /\ thr' = thr \/ thr' = [thr EXCEPT ![r] = NoThread]
  BY DEF ReadEventCb, WaitMaxNum, TestAvailLow, ReadAllNum, TestRoom, CountToCreate,
         CreateFails, CreateDone, StartFails, NextRound, TestIdle, WaitIdle, FrontIdle,
         GoR, ReactorSteps, Choosing
<1>3. \/ job' = job /\ rpc[r] # "loop"
      \/ \E c \in Conns : job' = [job EXCEPT ![r] = c]
      \/ job' = [job EXCEPT ![r] = NoConn] /\ rpc' = [rpc EXCEPT ![r] = "loop"]
  BY DEF ReadEventCb, WaitMaxNum, TestAvailLow, ReadAllNum, TestRoom, CountToCreate,
         CreateFails, CreateDone, StartFails, NextRound, TestIdle, WaitIdle, FrontIdle, GoR
<1>4. num' \in [Threads -> Int]
  <2>1. num \in [Threads -> Int] /\ r \in Threads /\ IdleNum \in Nat
    BY LenProperties DEF PoolInv, TypeOK, Threads, IdleNum
  <2>2. GetAllNum \in Nat
    BY WorkersAssumption, FS_Subset, FS_CardinalityType DEF PoolInv, TypeOK, GetAllNum
  <2>3. m_InitNum \in Nat /\ m_MaxNum \in Nat
    BY LimitsAssumption
  <2>4. \/ num' = num
        \/ \E n \in Int : num' = [num EXCEPT ![r] = n]
    BY <2>1, <2>2, <2>3
       DEF ReadEventCb, WaitMaxNum, TestAvailLow, ReadAllNum, TestRoom, CountToCreate,
           CreateFails, CreateDone, StartFails, NextRound, TestIdle, WaitIdle, FrontIdle
  <2> QED BY <2>1, <2>4
<1>5. TypeOK'
  BY <1>1, <1>2, <1>3, <1>4 DEF PoolInv, TypeOK, lists
<1>6. \A q \in Reactors : \/ rpc'[q] = rpc[q] /\ thr'[q] = thr[q]
                          \/ rpc'[q] \notin Choosing \cup {"start"}
  BY <1>2 DEF PoolInv, TypeOK
<1>7. \A q \in Reactors : rpc'[q] # "loop" => job'[q] \in Conns
  <2>1. ASSUME NEW q \in Reactors, q # r PROVE rpc'[q] = rpc[q] /\ job'[q] = job[q]
    BY <1>2, <1>3, <2>1 DEF PoolInv, TypeOK
  <2>2. rpc'[r] # "loop" => job'[r] \in Conns
    BY <1>2, <1>3 DEF PoolInv, TypeOK, ChosenInv
  <2> QED BY <2>1, <2>2 DEF PoolInv, ChosenInv
<1> QED BY <1>1, <1>5, <1>6, <1>7, OtherSteps

(* The tests, the counts, the waits and the signals of a worker.           *)
LEMMA OtherWorkerSteps ==
    ASSUME PoolInv, NEW w \in Workers,
           \/ TestJob(w) \/ WaitJob(w) \/ SignalIdle(w) \/ SignalMaxNum(w)
           \/ TestAvailHigh(w) \/ CountToDelete(w)
    PROVE  PoolInv'
<1>1. UNCHANGED <<lists, m_Job, m_WorkMutex, thr, job>>
  BY DEF TestJob, WaitJob, SignalIdle, SignalMaxNum, TestAvailHigh, CountToDelete
<1>2. \/ rpc' = rpc
      \/ \E r \in Reactors, s \in {"idleTest", "lowTest"} :
            rpc[r] # "loop" /\ rpc' = [rpc EXCEPT ![r] = s]
  BY DEF TestJob, WaitJob, SignalIdle, SignalMaxNum, TestAvailHigh, CountToDelete,
         SignalReactor, GoR
<1>3. \E s \in WorkerSteps :
          /\ wpc' = [wpc EXCEPT ![w] = s]
          /\ wpc[w] \notin {"none", "new"}
          /\ s \notin {"none", "run", "pushIdle"}
          /\ s \in Returning => wpc[w] \in Returning
          /\ s = "lock" => m_Job[w] # NoConn
  BY DEF TestJob, WaitJob, SignalIdle, SignalMaxNum, TestAvailHigh, CountToDelete,
         GoW, WorkerSteps, Returning
<1>4. num' \in [Threads -> Int]
  <2>1. num \in [Threads -> Int] /\ IdleNum - m_InitNum \in Int
    BY LenProperties, LimitsAssumption DEF PoolInv, TypeOK, IdleNum
  <2> QED BY <2>1 DEF TestJob, WaitJob, SignalIdle, SignalMaxNum, TestAvailHigh, CountToDelete
<1>5. TypeOK'
  <2>1. rpc' \in [Reactors -> ReactorSteps]
    BY <1>2 DEF PoolInv, TypeOK, ReactorSteps
  <2> QED BY <1>1, <1>3, <1>4, <2>1 DEF PoolInv, TypeOK, lists
<1>6. \A q \in Reactors : /\ \/ rpc'[q] = rpc[q] /\ thr'[q] = thr[q]
                             \/ rpc'[q] \notin Choosing \cup {"start"}
                          /\ rpc'[q] # "loop" => job'[q] \in Conns
  BY <1>1, <1>2 DEF PoolInv, TypeOK, ChosenInv, Choosing
<1>7. ASSUME NEW v \in Workers
      PROVE  \/ wpc'[v] = wpc[v]
             \/ /\ wpc[v] \notin {"none", "new"}
                /\ wpc'[v] \notin {"none", "run", "pushIdle"}
                /\ wpc'[v] \in Returning => wpc[v] \in Returning
                /\ wpc'[v] = "lock" => m_Job[v] # NoConn
  BY <1>3 DEF PoolInv, TypeOK
<1> QED BY <1>1, <1>5, <1>6, <1>7, OtherSteps

(* A wait that ends without a signal repeats its test.                     *)
LEMMA SpuriousWakeupInv ==
    ASSUME PoolInv, SpuriousWakeup
    PROVE  PoolInv'
<1>1. UNCHANGED <<lists, m_Job, m_WorkMutex, thr, job, num>>
  BY DEF SpuriousWakeup
<1>2. \/ rpc' = rpc
      \/ \E r \in Reactors, s \in {"idleTest", "lowTest"} :
            rpc[r] # "loop" /\ rpc' = [rpc EXCEPT ![r] = s]
  BY DEF SpuriousWakeup, GoR
<1>3. \/ wpc' = wpc
      \/ \E w \in Workers : wpc[w] = "wait" /\ wpc' = [wpc EXCEPT ![w] = "test"]
  BY DEF SpuriousWakeup, GoW
<1>4. TypeOK'
  <2>1. rpc' \in [Reactors -> ReactorSteps] /\ wpc' \in [Workers -> WorkerSteps]
    BY <1>2, <1>3 DEF PoolInv, TypeOK, ReactorSteps, WorkerSteps
  <2> QED BY <1>1, <2>1 DEF PoolInv, TypeOK, lists
<1>5. \A q \in Reactors : /\ \/ rpc'[q] = rpc[q] /\ thr'[q] = thr[q]
                             \/ rpc'[q] \notin Choosing \cup {"start"}
                          /\ rpc'[q] # "loop" => job'[q] \in Conns
  BY <1>1, <1>2 DEF PoolInv, TypeOK, ChosenInv, Choosing
<1>6. \A v \in Workers : wpc'[v] = wpc[v] \/ (wpc[v] = "wait" /\ wpc'[v] = "test")
  BY <1>3 DEF PoolInv, TypeOK
<1> QED BY <1>1, <1>4, <1>5, <1>6, OtherSteps DEF Returning

-----------------------------------------------------------------------------
(* Every step preserves the invariant.                                     *)
LEMMA NextPoolInv == PoolInv /\ [Next]_vars => PoolInv'
<1> SUFFICES ASSUME PoolInv, [Next]_vars PROVE PoolInv'
  OBVIOUS
<1>1. ASSUME NEW r \in Reactors, ReactorStep(r) PROVE PoolInv'
  <2>1. CASE CreateIdleThread(r) BY <2>1, CreateIdleThreadInv
  <2>2. CASE StartWorkerThread(r) BY <2>2, StartWorkerThreadInv
  <2>3. CASE FrontIdle(r) BY <2>3, FrontIdleInv, OtherReactorSteps
  <2>4. CASE LockWork(r) BY <2>4, LockWorkInv
  <2>5. CASE PushBusy(r) BY <2>5, PushBusyInv
  <2>6. CASE EraseIdle(r) BY <2>6, EraseIdleInv
  <2>7. CASE SetJob(r) BY <2>7, SetJobInv
  <2>8. CASE SignalJob(r) BY <2>8, SignalJobInv
  <2>9. CASE UnlockWork(r) BY <2>9, UnlockWorkInv
  <2> QED BY <1>1, <2>1, <2>2, <2>3, <2>4, <2>5, <2>6, <2>7, <2>8, <2>9,
             OtherReactorSteps DEF ReactorStep
<1>2. ASSUME NEW w \in Workers, WorkerStep(w) PROVE PoolInv'
  <2>1. CASE LockJob(w) BY <2>1, LockJobInv
  <2>2. CASE FinishJob(w) BY <2>2, FinishJobInv
  <2>3. CASE PushIdle(w) BY <2>3, PushIdleInv
  <2>4. CASE EraseBusy(w) BY <2>4, EraseBusyInv
  <2>5. CASE DeleteIdleThread(w) BY <2>5, DeleteIdleThreadInv
  <2>6. CASE UnlockJob(w) BY <2>6, UnlockJobInv
  <2> QED BY <1>2, <2>1, <2>2, <2>3, <2>4, <2>5, <2>6, OtherWorkerSteps DEF WorkerStep
<1>3. ASSUME NEW r \in Reactors, StartFails(r) \/ \E c \in Conns : ReadEventCb(r, c)
      PROVE  PoolInv'
  BY <1>3, OtherReactorSteps
<1>4. CASE SpuriousWakeup
  BY <1>4, SpuriousWakeupInv
<1>5. CASE UNCHANGED vars
  <2>1. TypeOK'
    BY <1>5 DEF PoolInv, TypeOK, vars, lists
  <2> QED BY <1>5, <2>1, OtherSteps DEF vars, PoolInv, ChosenInv
<1> QED BY <1>1, <1>2, <1>3, <1>4, <1>5 DEF Next

(* PoolInv holds in every state, for any number of reactors and workers:   *)
(* the lists agree with the jobs and the mutexes that the threads hold.    *)
THEOREM PoolInvariant == Spec => []PoolInv
BY InitPoolInv, NextPoolInv, PTL DEF Spec

(* The state stays in its types.                                           *)
THEOREM PoolTypes == Spec => []TypeOK
BY PoolInvariant, PTL DEF PoolInv

(* A worker that GetIdleThread can return has no job, and is listed once.  *)
THEOREM IdleWorkersAreFree == Spec => []IdleIsFree
BY PoolInvariant, PTL DEF PoolInv

(* Every worker that holds a job is counted in m_BusyList.                 *)
THEOREM HeldJobsAreCounted == Spec => []HeldJobIsCounted
BY PoolInvariant, PTL DEF PoolInv

(* No worker of the pool is forgotten: a free one is in m_IdleList.        *)
THEOREM FreeWorkersAreIdle == Spec => []FreeIsIdle
BY PoolInvariant, PTL DEF PoolInv

-----------------------------------------------------------------------------
(* Refinement: what a step does to the slots and to the running workers.   *)
LEMMA SetJobGives ==
    ASSUME PoolInv, NEW r \in Reactors, SetJob(r)
    PROVE  thr[r] \in Workers /\ job[r] \in Conns /\ Handoff!Give(thr[r], job[r])
<1>1. /\ thr[r] \in Workers /\ m_WorkMutex[thr[r]] = r /\ job[r] \in Conns
      /\ m_Job' = [m_Job EXCEPT ![thr[r]] = job[r]] /\ wpc' = wpc
  BY DEF SetJob, PoolInv, ChosenInv, MutexInv, Choosing, Locking
<1>2. thr[r] \notin Running
  BY <1>1, ReactorsAssumption DEF Running, PoolInv, MutexInv, Holding
<1> QED BY <1>1, <1>2 DEF Handoff!Give, Running

(* Every other step gives no job: it starts one, ends one or stutters.     *)
LEMMA StepOfHandoff ==
    ASSUME PoolInv, [Next]_vars
    PROVE  \/ \E r \in Reactors : SetJob(r)
           \/ \E w \in Workers : Handoff!Start(w) \/ Handoff!Finish(w)
           \/ UNCHANGED Handoff!vars
<1>1. ASSUME NEW w \in Workers, LockJob(w) PROVE Handoff!Start(w)
  <2>1. wpc[w] = "lock" /\ m_Job[w] # NoConn /\ wpc' = [wpc EXCEPT ![w] = "run"] /\ m_Job' = m_Job
    BY <1>1 DEF LockJob, GoW, PoolInv, WorkerInv
  <2>2. Running' = Running \cup {w} /\ w \notin Running
    BY <2>1 DEF Running, PoolInv, TypeOK
  <2> QED BY <2>1, <2>2 DEF Handoff!Start
<1>2. ASSUME NEW w \in Workers, FinishJob(w) PROVE Handoff!Finish(w)
  <2>1. /\ wpc[w] = "run" /\ wpc' = [wpc EXCEPT ![w] = "pushIdle"]
        /\ m_Job' = [m_Job EXCEPT ![w] = NoConn]
    BY <1>2 DEF FinishJob, GoW
  <2>2. Running' = Running \ {w} /\ w \in Running
    BY <2>1 DEF Running, PoolInv, TypeOK
  <2> QED BY <2>1, <2>2 DEF Handoff!Finish
<1>3. ASSUME m_Job' = m_Job, \A w \in Workers : wpc'[w] = "run" <=> wpc[w] = "run"
      PROVE  UNCHANGED Handoff!vars
  BY <1>3 DEF Handoff!vars, Running
<1>4. ASSUME NEW r \in Reactors, ReactorStep(r) \/ StartFails(r), ~ SetJob(r)
      PROVE  UNCHANGED Handoff!vars
  <2>1. m_Job' = m_Job
    BY <1>4 DEF ReactorStep, WaitMaxNum, TestAvailLow, ReadAllNum, TestRoom, CountToCreate,
         CreateIdleThread, CreateFails, CreateDone, StartFails, StartWorkerThread, NextRound,
         TestIdle, WaitIdle, FrontIdle, LockWork, PushBusy, EraseIdle, SignalJob, UnlockWork
  <2>2. CASE wpc' = wpc
    BY <1>3, <2>1, <2>2
  <2>3. CASE CreateIdleThread(r)
    BY <1>3, <2>1, <2>3 DEF CreateIdleThread, GoW, Unused, PoolInv, TypeOK
  <2>4. CASE StartWorkerThread(r)
    <3>1. /\ thr[r] \in Workers /\ wpc[thr[r]] = "new"
          /\ wpc' = [wpc EXCEPT ![thr[r]] = "test"]
      BY <2>4 DEF StartWorkerThread, NextRound, GoW, PoolInv, CreateInv
    <3> QED BY <1>3, <2>1, <3>1 DEF PoolInv, TypeOK
  <2>5. CASE SignalJob(r)
    BY <1>3, <2>1, <2>5 DEF SignalJob, PoolInv, TypeOK
  <2> QED BY <1>4, <2>2, <2>3, <2>4, <2>5
          DEF ReactorStep, WaitMaxNum, TestAvailLow, ReadAllNum, TestRoom, CountToCreate,
              CreateFails, CreateDone, StartFails, TestIdle, WaitIdle, FrontIdle, LockWork,
              PushBusy, EraseIdle, UnlockWork
<1>5. ASSUME NEW w \in Workers, WorkerStep(w), ~ LockJob(w), ~ FinishJob(w)
      PROVE  UNCHANGED Handoff!vars
  <2>1. /\ m_Job' = m_Job
        /\ \E s \in WorkerSteps \ {"run"} : wpc[w] # "run" /\ wpc' = [wpc EXCEPT ![w] = s]
    BY <1>5 DEF WorkerStep, TestJob, WaitJob, PushIdle, EraseBusy, SignalIdle, SignalMaxNum,
         TestAvailHigh, CountToDelete, DeleteIdleThread, UnlockJob, GoW, WorkerSteps
  <2> QED BY <1>3, <2>1 DEF PoolInv, TypeOK
<1>6. ASSUME NEW r \in Reactors, NEW c \in Conns, ReadEventCb(r, c)
      PROVE  UNCHANGED Handoff!vars
  BY <1>3, <1>6 DEF ReadEventCb
<1>7. CASE SpuriousWakeup
  BY <1>3, <1>7 DEF SpuriousWakeup, GoW, PoolInv, TypeOK
<1>8. CASE UNCHANGED vars
  BY <1>3, <1>8 DEF vars
<1> QED BY <1>1, <1>2, <1>4, <1>5, <1>6, <1>7, <1>8 DEF Next

(* Every step of the pool is a step of JobHandoff, or a stutter.           *)
LEMMA StepHandsOff == PoolInv /\ [Next]_vars => [Handoff!Next]_(Handoff!vars)
BY SetJobGives, StepOfHandoff DEF Handoff!Next

(* The pool implements JobHandoff: the job that a worker executes is there *)
(* when it starts and is not replaced before it ends.                      *)
THEOREM PoolImplementsHandoff == Spec => ImplementsHandoff
<1>1. Init => Handoff!Init
  BY DEF Init, Handoff!Init, Running
<1> QED BY <1>1, PoolInvariant, StepHandsOff, PTL DEF Spec, ImplementsHandoff, Handoff!Spec

-----------------------------------------------------------------------------
(* Event loops that do not choose the same worker at the same time.        *)

(* No worker has an entry in m_BusyList initially.                         *)
LEMMA InitSingleInv == Init => SingleInv
BY DEF Init, SingleInv, NoGhostBusy

(* The steps that leave the jobs and m_BusyList alone, choose no worker    *)
(* and do not pass a point where a job is handed over or given up.         *)
LEMMA OtherStepsSingle ==
    ASSUME SingleInv, UNCHANGED <<m_BusyList, m_Job>>,
           \A r \in Reactors :
               \/ rpc'[r] = rpc[r] /\ thr'[r] = thr[r]
               \/ /\ rpc[r] \notin {"eraseIdle", "setJob"}
                  /\ \/ rpc'[r] \notin {"lockWork", "pushBusy", "eraseIdle", "setJob"}
                     \/ m_Job[thr'[r]] = NoConn,
           \A w \in Workers : wpc[w] \in {"pushIdle", "eraseBusy"}
                                  => wpc'[w] \in {"pushIdle", "eraseBusy"}
    PROVE  SingleInv'
<1>1. ASSUME NEW r \in Reactors, rpc'[r] \in {"lockWork", "pushBusy", "eraseIdle", "setJob"}
      PROVE  m_Job'[thr'[r]] = NoConn
  BY <1>1 DEF SingleInv
<1>2. NoGhostBusy'
  BY DEF SingleInv, NoGhostBusy
<1>3. ASSUME NEW w \in Workers, m_BusyList'[w] > 0
      PROVE  \/ m_Job'[w] # NoConn
             \/ wpc'[w] \in {"pushIdle", "eraseBusy"}
             \/ \E r \in Reactors : rpc'[r] \in {"eraseIdle", "setJob"} /\ thr'[r] = w
  <2>1. CASE m_Job[w] # NoConn
    BY <2>1
  <2>2. CASE wpc[w] \in {"pushIdle", "eraseBusy"}
    BY <2>2
  <2>3. CASE \E r \in Reactors : rpc[r] \in {"eraseIdle", "setJob"} /\ thr[r] = w
    BY <2>3
  <2> QED BY <1>3, <2>1, <2>2, <2>3 DEF SingleInv
<1> QED BY <1>1, <1>2, <1>3 DEF SingleInv

(* A reactor leaves the locals of the others alone.                        *)
LEMMA OthersStay ==
    ASSUME TypeOK, NEW r \in Reactors,
           ReactorStep(r) \/ StartFails(r) \/ \E c \in Conns : ReadEventCb(r, c)
    PROVE  \A q \in Reactors : q # r => rpc'[q] = rpc[q] /\ thr'[q] = thr[q]
<1>1. \E s \in ReactorSteps : rpc' = [rpc EXCEPT ![r] = s]
  BY DEF ReactorStep, ReadEventCb, WaitMaxNum, TestAvailLow, ReadAllNum, TestRoom, CountToCreate,
         CreateIdleThread, CreateFails, CreateDone, StartFails, StartWorkerThread, NextRound,
         TestIdle, WaitIdle, FrontIdle, LockWork, PushBusy, EraseIdle, SetJob, SignalJob,
         UnlockWork, GoR, TypeOK, ReactorSteps
<1>2. thr' = thr \/ \E w \in Workers \cup {NoThread} : thr' = [thr EXCEPT ![r] = w]
  BY DEF ReactorStep, ReadEventCb, WaitMaxNum, TestAvailLow, ReadAllNum, TestRoom, CountToCreate,
         CreateIdleThread, CreateFails, CreateDone, StartFails, StartWorkerThread, NextRound,
         TestIdle, WaitIdle, FrontIdle, LockWork, PushBusy, EraseIdle, SetJob, SignalJob,
         UnlockWork, TypeOK, Unused
<1> QED BY <1>1, <1>2 DEF TypeOK

(* The worker that a reactor has chosen gets no second job.                *)
LEMMA ReactorStepSingle ==
    ASSUME ChosenByOne, PoolInv, SingleInv, NEW r \in Reactors,
           ReactorStep(r) \/ StartFails(r) \/ \E c \in Conns : ReadEventCb(r, c)
    PROVE  SingleInv'
<1>1. \A q \in Reactors : q # r => rpc'[q] = rpc[q] /\ thr'[q] = thr[q]
  BY OthersStay DEF PoolInv
<1>0. ASSUME NEW q \in Reactors, {rpc[r], rpc[q]} \subseteq Choosing, thr[q] = thr[r]
      PROVE  q = r
  BY <1>0 DEF ChosenByOne
<1>2. CASE FrontIdle(r) /\ m_IdleList # <<>>
  <2>1. m_Job[thr'[r]] = NoConn
    BY <1>2, FrontIdleInv
  <2>2. rpc[r] = "front" /\ UNCHANGED <<m_BusyList, m_Job, wpc>>
    BY <1>2 DEF FrontIdle, lists
  <2> QED BY <1>1, <2>1, <2>2, OtherStepsSingle
<1>3. CASE PushBusy(r)
  <2>1. /\ rpc[r] = "pushBusy" /\ thr[r] \in Workers
        /\ m_WorkMutex[thr[r]] = r /\ m_Job[thr[r]] = NoConn
        /\ m_BusyList' = [m_BusyList EXCEPT ![thr[r]] = @ + 1]
        /\ rpc' = [rpc EXCEPT ![r] = "eraseIdle"]
        /\ UNCHANGED <<m_Job, wpc, thr>>
    BY <1>3 DEF PushBusy, GoR, PoolInv, ChosenInv, MutexInv, SingleInv, Locking, Choosing
  <2>2. wpc[thr[r]] \notin {"pushIdle", "eraseBusy"}
    BY <2>1, ReactorsAssumption DEF PoolInv, MutexInv, Holding, Returning
  <2>3. m_BusyList[thr[r]] = 0
    <3>1. \A q \in Reactors : rpc[q] \in {"eraseIdle", "setJob"} => thr[q] # thr[r]
      BY <1>0, <2>1 DEF Choosing
    <3>2. ~ (m_BusyList[thr[r]] > 0)
      BY <2>1, <2>2, <3>1 DEF SingleInv
    <3>3. m_BusyList[thr[r]] \in Nat
      BY <2>1 DEF PoolInv, TypeOK
    <3> QED BY <3>2, <3>3
  <2>4. rpc'[r] = "eraseIdle" /\ m_BusyList'[thr[r]] = 1
    BY <2>1, <2>3 DEF PoolInv, TypeOK
  <2>5. \A w \in Workers : w # thr[r] => m_BusyList'[w] = m_BusyList[w]
    BY <2>1 DEF PoolInv, TypeOK
  <2> QED BY <1>1, <2>1, <2>4, <2>5 DEF SingleInv, NoGhostBusy
<1>4. CASE EraseIdle(r)
  <2>1. /\ rpc[r] = "eraseIdle" /\ rpc' = [rpc EXCEPT ![r] = "setJob"]
        /\ UNCHANGED <<m_BusyList, m_Job, wpc, thr>>
    BY <1>4 DEF EraseIdle, GoR
  <2>2. rpc'[r] = "setJob"
    BY <2>1 DEF PoolInv, TypeOK
  <2> QED BY <1>1, <2>1, <2>2 DEF SingleInv, NoGhostBusy
<1>5. CASE SetJob(r)
  <2>1. /\ rpc[r] = "setJob" /\ thr[r] \in Workers /\ job[r] # NoConn
        /\ m_Job' = [m_Job EXCEPT ![thr[r]] = job[r]]
        /\ rpc' = [rpc EXCEPT ![r] = "signalJob"]
        /\ UNCHANGED <<m_BusyList, wpc, thr>>
    BY <1>5, ConnsAssumption DEF SetJob, GoR, lists, PoolInv, ChosenInv, Choosing
  <2>2. rpc'[r] = "signalJob" /\ m_Job'[thr[r]] # NoConn
    BY <2>1 DEF PoolInv, TypeOK
  <2>3. \A w \in Workers : w # thr[r] => m_Job'[w] = m_Job[w]
    BY <2>1 DEF PoolInv, TypeOK
  <2>4. \A q \in Reactors :
            q # r /\ rpc[q] \in {"lockWork", "pushBusy", "eraseIdle", "setJob"}
                => thr[q] # thr[r]
    BY <1>0, <2>1 DEF Choosing
  <2>5. \A q \in Reactors : rpc[q] \in {"lockWork", "pushBusy", "eraseIdle", "setJob"}
                                => thr[q] \in Workers
    BY DEF PoolInv, ChosenInv, Choosing
  <2>6. \A q \in Reactors : rpc'[q] \in {"lockWork", "pushBusy", "eraseIdle", "setJob"}
                                => m_Job'[thr'[q]] = NoConn
    BY <1>1, <2>1, <2>2, <2>3, <2>4, <2>5 DEF SingleInv
  <2> QED BY <1>1, <2>1, <2>2, <2>3, <2>6 DEF SingleInv, NoGhostBusy
<1>6. CASE LockWork(r) \/ SignalJob(r) \/ UnlockWork(r)
  <2>1. /\ UNCHANGED <<m_BusyList, m_Job>>
        /\ \/ /\ rpc[r] = "lockWork" /\ thr'[r] = thr[r]
           \/ /\ rpc[r] \in {"signalJob", "unlockWork"}
              /\ rpc'[r] \in {"unlockWork", "loop"}
    BY <1>6 DEF LockWork, SignalJob, UnlockWork, GoR, lists, PoolInv, TypeOK
  <2>2. \A w \in Workers : wpc[w] \in {"pushIdle", "eraseBusy"} => wpc'[w] = wpc[w]
    BY <1>6 DEF LockWork, SignalJob, UnlockWork, PoolInv, TypeOK
  <2>3. rpc[r] = "lockWork" => m_Job[thr[r]] = NoConn
    BY DEF SingleInv
  <2> QED BY <1>1, <2>1, <2>2, <2>3, OtherStepsSingle
<1>7. CASE CreateIdleThread(r) \/ StartWorkerThread(r)
  <2>1. /\ UNCHANGED <<m_BusyList, m_Job>>
        /\ rpc[r] \in {"create", "start"} /\ rpc'[r] \in {"create", "start"}
    BY <1>7 DEF CreateIdleThread, StartWorkerThread, NextRound, GoR, lists, PoolInv, TypeOK
  <2>2. \A w \in Workers : wpc[w] \in {"pushIdle", "eraseBusy"} => wpc'[w] = wpc[w]
    BY <1>7 DEF CreateIdleThread, StartWorkerThread, NextRound, GoW, Unused, PoolInv,
        TypeOK, CreateInv
  <2> QED BY <1>1, <2>1, <2>2, OtherStepsSingle
<1>8. CASE \/ \E c \in Conns : ReadEventCb(r, c)
           \/ WaitMaxNum(r) \/ TestAvailLow(r) \/ ReadAllNum(r) \/ TestRoom(r)
           \/ CountToCreate(r) \/ CreateFails(r) \/ CreateDone(r) \/ StartFails(r)
           \/ TestIdle(r) \/ WaitIdle(r) \/ (FrontIdle(r) /\ m_IdleList = <<>>)
  <2>1. UNCHANGED <<m_BusyList, m_Job, wpc>>
    BY <1>8 DEF ReadEventCb, WaitMaxNum, TestAvailLow, ReadAllNum, TestRoom, CountToCreate,
         CreateFails, CreateDone, StartFails, NextRound, TestIdle, WaitIdle, FrontIdle, lists
  <2>2. /\ rpc[r] \notin {"eraseIdle", "setJob"}
        /\ rpc'[r] \notin {"lockWork", "pushBusy", "eraseIdle", "setJob"}
    BY <1>8 DEF ReadEventCb, WaitMaxNum, TestAvailLow, ReadAllNum, TestRoom, CountToCreate,
         CreateFails, CreateDone, StartFails, NextRound, TestIdle, WaitIdle, FrontIdle,
         GoR, PoolInv, TypeOK
  <2> QED BY <1>1, <2>1, <2>2, OtherStepsSingle
<1> QED BY <1>2, <1>3, <1>4, <1>5, <1>6, <1>7, <1>8 DEF ReactorStep

(* A worker gives its entry in m_BusyList up after its job.                *)
LEMMA WorkerStepSingle ==
    ASSUME PoolInv, SingleInv, NEW w \in Workers, WorkerStep(w)
    PROVE  SingleInv'
<1>1. CASE FinishJob(w)
  <2>1. /\ wpc[w] = "run"
        /\ m_Job' = [m_Job EXCEPT ![w] = NoConn]
        /\ wpc' = [wpc EXCEPT ![w] = "pushIdle"]
        /\ UNCHANGED <<m_BusyList, rpc, thr>>
    BY <1>1 DEF FinishJob, GoW, lists
  <2>2. wpc'[w] = "pushIdle" /\ \A v \in Workers : v # w => wpc'[v] = wpc[v] /\ m_Job'[v] = m_Job[v]
    BY <2>1 DEF PoolInv, TypeOK
  <2>3. ASSUME NEW r \in Reactors, rpc[r] \in {"lockWork", "pushBusy", "eraseIdle", "setJob"}
        PROVE  m_Job'[thr[r]] = NoConn
    BY <2>1, <2>3 DEF SingleInv, PoolInv, TypeOK, ChosenInv, Choosing
  <2> QED BY <2>1, <2>2, <2>3 DEF SingleInv, NoGhostBusy
<1>2. CASE EraseBusy(w)
  <2>1. /\ wpc[w] = "eraseBusy"
        /\ m_BusyList' = [m_BusyList EXCEPT ![w] = IF @ > 0 THEN @ - 1 ELSE 0]
        /\ wpc' = [wpc EXCEPT ![w] = "sigIdle"]
        /\ UNCHANGED <<m_Job, rpc, thr>>
    BY <1>2 DEF EraseBusy, EraseOneBusy, GoW
  <2>2. m_BusyList[w] <= 1 /\ m_BusyList[w] \in Nat
    BY DEF SingleInv, NoGhostBusy, PoolInv, TypeOK
  <2>3. m_BusyList'[w] = 0
    BY <2>1, <2>2 DEF PoolInv, TypeOK
  <2>4. \A v \in Workers : v # w => wpc'[v] = wpc[v] /\ m_BusyList'[v] = m_BusyList[v]
    BY <2>1 DEF PoolInv, TypeOK
  <2> QED BY <2>1, <2>3, <2>4 DEF SingleInv, NoGhostBusy
<1>3. CASE ~ FinishJob(w) /\ ~ EraseBusy(w)
  <2>1. UNCHANGED <<m_BusyList, m_Job, thr>>
    BY <1>3 DEF WorkerStep, TestJob, WaitJob, LockJob, PushIdle, SignalIdle, SignalMaxNum,
         TestAvailHigh, CountToDelete, DeleteIdleThread, UnlockJob, lists
  <2>2. \A v \in Workers : wpc[v] \in {"pushIdle", "eraseBusy"}
                               => wpc'[v] \in {"pushIdle", "eraseBusy"}
    BY <1>3 DEF WorkerStep, TestJob, WaitJob, LockJob, PushIdle, SignalIdle, SignalMaxNum,
         TestAvailHigh, CountToDelete, DeleteIdleThread, UnlockJob, GoW, PoolInv, TypeOK
  <2>3. \/ rpc' = rpc
        \/ \E r \in Reactors : /\ rpc[r] \in {"idleWait", "maxWait"}
                               /\ \E s \in {"idleTest", "lowTest"} : rpc' = [rpc EXCEPT ![r] = s]
    BY <1>3 DEF WorkerStep, TestJob, WaitJob, LockJob, PushIdle, SignalIdle, SignalMaxNum,
         TestAvailHigh, CountToDelete, DeleteIdleThread, UnlockJob, SignalReactor, GoR
  <2>4. \A r \in Reactors :
            \/ rpc'[r] = rpc[r]
            \/ rpc[r] \in {"idleWait", "maxWait"} /\ rpc'[r] \in {"idleTest", "lowTest"}
    BY <2>3 DEF PoolInv, TypeOK
  <2> QED BY <2>1, <2>2, <2>4, OtherStepsSingle
<1> QED BY <1>1, <1>2, <1>3

(* A step from a state where ChosenByOne holds preserves SingleInv.        *)
LEMMA NextSingleInv == ChosenByOne /\ PoolInv /\ SingleInv /\ [Next]_vars => SingleInv'
<1> SUFFICES ASSUME ChosenByOne, PoolInv, SingleInv, [Next]_vars PROVE SingleInv'
  OBVIOUS
<1>1. CASE SpuriousWakeup
  <2>1. UNCHANGED <<m_BusyList, m_Job, thr>>
    BY <1>1 DEF SpuriousWakeup, lists
  <2>2. \A v \in Workers : wpc[v] \in {"pushIdle", "eraseBusy"} => wpc'[v] = wpc[v]
    BY <1>1 DEF SpuriousWakeup, GoW, PoolInv, TypeOK
  <2>3. \A r \in Reactors :
            \/ rpc'[r] = rpc[r]
            \/ rpc[r] \in {"idleWait", "maxWait"} /\ rpc'[r] \in {"idleTest", "lowTest"}
    BY <1>1 DEF SpuriousWakeup, GoR, PoolInv, TypeOK
  <2> QED BY <2>1, <2>2, <2>3, OtherStepsSingle
<1>2. CASE UNCHANGED vars
  BY <1>2, OtherStepsSingle DEF vars, lists
<1> QED BY <1>1, <1>2, ReactorStepSingle, WorkerStepSingle DEF Next

(* SingleInv holds as long as ChosenByOne does.                            *)
LEMMA SingleInvariant == Spec /\ []ChosenByOne => []SingleInv
BY InitSingleInv, NextSingleInv, PoolInvariant, PTL DEF Spec

(* However many event loops there are: as long as no two of them have      *)
(* chosen the same worker, no entry of m_BusyList outlives its job.  The   *)
(* number of threads that Run compares with m_MaxNum is wrong only after   *)
(* two loops chose one worker.                                             *)
THEOREM GhostsNeedAChoiceOfTwo == Spec /\ []ChosenByOne => []NoGhostBusy
<1>1. SingleInv => NoGhostBusy
  BY DEF SingleInv
<1> QED BY <1>1, SingleInvariant, PTL

(* From such a state a job is only given to a worker without one.          *)
LEMMA StepHandsOffExclusively ==
    PoolInv /\ SingleInv /\ [Next]_vars
        => [ExclusiveHandoff!Next]_(ExclusiveHandoff!vars)
<1> SUFFICES ASSUME PoolInv, SingleInv, [Next]_vars
             PROVE  [ExclusiveHandoff!Next]_(ExclusiveHandoff!vars)
  OBVIOUS
<1>1. CASE UNCHANGED Handoff!vars
  BY <1>1 DEF Handoff!vars, ExclusiveHandoff!vars
<1>2. ASSUME NEW w \in Workers, Handoff!Start(w) \/ Handoff!Finish(w)
      PROVE  ExclusiveHandoff!Next
  BY <1>2 DEF Handoff!Start, Handoff!Finish, ExclusiveHandoff!Next,
              ExclusiveHandoff!Start, ExclusiveHandoff!Finish
<1>3. ASSUME NEW r \in Reactors, SetJob(r)
      PROVE  ExclusiveHandoff!Next
  <2>1. m_Job[thr[r]] = NoConn
    BY <1>3 DEF SetJob, SingleInv
  <2>2. ExclusiveHandoff!Give(thr[r], job[r])
    BY <1>3, <2>1, SetJobGives DEF Handoff!Give, ExclusiveHandoff!Give
  <2> QED BY <1>3, <2>2, SetJobGives DEF ExclusiveHandoff!Next
<1> QED BY <1>1, <1>2, <1>3, StepOfHandoff

(* However many event loops there are: as long as no two of them have      *)
(* chosen the same worker, the pool implements the exclusive JobHandoff.   *)
(* A job is lost by being overwritten only after two loops chose one       *)
(* worker.                                                                 *)
THEOREM OverwritingNeedsAChoiceOfTwo == Spec /\ []ChosenByOne => ImplementsExclusiveHandoff
<1>1. Init => ExclusiveHandoff!Init
  BY DEF Init, ExclusiveHandoff!Init, Running
<1> QED BY <1>1, PoolInvariant, SingleInvariant, StepHandsOffExclusively, PTL
        DEF Spec, ImplementsExclusiveHandoff, ExclusiveHandoff!Spec

-----------------------------------------------------------------------------
(* The mutexes of the workers.                                             *)

(* A locked m_WorkMutex is in use: a reactor that holds it is handing a    *)
(* job to that worker and to no other, and a worker that holds it is on    *)
(* its way from its job to its next wait.  None of these steps waits, so   *)
(* no chain of threads waits for each other's m_WorkMutex.                 *)
WorkMutexIsInUse ==
    \A w \in Workers, t \in Threads : m_WorkMutex[w] = t =>
        \/ t \in Reactors /\ rpc[t] \in Locking /\ thr[t] = w
        \/ t = w /\ wpc[w] \in Holding

(* A step that locks and unlocks nothing leaves the holders where the      *)
(* mutex is held.                                                          *)
LEMMA HoldersStay ==
    ASSUME WorkMutexIsInUse, UNCHANGED m_WorkMutex,
           \A r \in Reactors : rpc[r] \in Locking => rpc'[r] \in Locking /\ thr'[r] = thr[r],
           \A w \in Workers : wpc[w] \in Holding => wpc'[w] \in Holding
    PROVE  WorkMutexIsInUse'
BY DEF WorkMutexIsInUse, Locking, Choosing, Holding, Returning

(* A mutex that is unlocked has no holder.                                 *)
LEMMA HolderLeaves ==
    ASSUME PoolInv, WorkMutexIsInUse,
           NEW v \in Workers, NEW t \in Threads, m_WorkMutex[v] = t,
           m_WorkMutex' = [m_WorkMutex EXCEPT ![v] = NoThread],
           \A r \in Reactors \ {t} : rpc'[r] = rpc[r] /\ thr'[r] = thr[r],
           \A w \in Workers \ {t} : wpc'[w] = wpc[w],
           t \in Reactors => thr[t] = v
    PROVE  WorkMutexIsInUse'
<1> SUFFICES ASSUME NEW w \in Workers, NEW u \in Threads, m_WorkMutex'[w] = u
             PROVE  \/ u \in Reactors /\ rpc'[u] \in Locking /\ thr'[u] = w
                    \/ u = w /\ wpc'[w] \in Holding
  BY DEF WorkMutexIsInUse, Locking, Choosing, Holding, Returning
<1>1. NoThread \notin Threads /\ Reactors \cap Workers = {}
  BY WorkersAssumption, ReactorsAssumption DEF Threads
<1>2. w # v /\ m_WorkMutex[w] = u
  BY <1>1 DEF PoolInv, TypeOK
<1>3. \/ u \in Reactors /\ rpc[u] \in Locking /\ thr[u] = w
      \/ u = w /\ wpc[w] \in Holding
  BY <1>2 DEF WorkMutexIsInUse
<1>4. m_WorkMutex[v] = t => \/ t \in Reactors /\ thr[t] = v
                            \/ t = v
  BY DEF WorkMutexIsInUse
<1> QED BY <1>1, <1>2, <1>3, <1>4

(* Every step keeps the holders of the mutexes where they use them.        *)
LEMMA HolderStep == PoolInv /\ WorkMutexIsInUse /\ [Next]_vars => WorkMutexIsInUse'
<1> SUFFICES ASSUME PoolInv, WorkMutexIsInUse, [Next]_vars PROVE WorkMutexIsInUse'
  OBVIOUS
<1> USE DEF Locking, Choosing, Holding, Returning
<1>1. ASSUME NEW r \in Reactors, LockWork(r) PROVE WorkMutexIsInUse'
  <2>1. /\ rpc' = [rpc EXCEPT ![r] = "pushBusy"] /\ rpc[r] = "lockWork"
        /\ m_WorkMutex' = [m_WorkMutex EXCEPT ![thr[r]] = r]
        /\ thr' = thr /\ wpc' = wpc
    BY <1>1 DEF LockWork, GoR
  <2> QED BY <2>1 DEF WorkMutexIsInUse, PoolInv, TypeOK
<1>2. ASSUME NEW w \in Workers, LockJob(w) PROVE WorkMutexIsInUse'
  <2>1. /\ wpc' = [wpc EXCEPT ![w] = "run"] /\ wpc[w] = "lock"
        /\ m_WorkMutex' = [m_WorkMutex EXCEPT ![w] = w]
        /\ thr' = thr /\ rpc' = rpc
    BY <1>2 DEF LockJob, GoW
  <2> QED BY <2>1 DEF WorkMutexIsInUse, PoolInv, TypeOK
<1>3. ASSUME NEW r \in Reactors, UnlockWork(r) PROVE WorkMutexIsInUse'
  <2>1. /\ r \in Threads /\ thr[r] \in Workers /\ m_WorkMutex[thr[r]] = r
        /\ m_WorkMutex' = [m_WorkMutex EXCEPT ![thr[r]] = NoThread]
        /\ \A q \in Reactors \ {r} : rpc'[q] = rpc[q] /\ thr'[q] = thr[q]
        /\ wpc' = wpc
    BY <1>3 DEF UnlockWork, GoR, PoolInv, TypeOK, MutexInv, ChosenInv, Threads
  <2> QED BY <2>1, HolderLeaves
<1>4. ASSUME NEW w \in Workers, UnlockJob(w) PROVE WorkMutexIsInUse'
  <2>1. /\ w \in Threads /\ w \notin Reactors /\ m_WorkMutex[w] = w
        /\ m_WorkMutex' = [m_WorkMutex EXCEPT ![w] = NoThread]
        /\ \A v \in Workers \ {w} : wpc'[v] = wpc[v]
        /\ rpc' = rpc /\ thr' = thr
    BY <1>4, ReactorsAssumption DEF UnlockJob, GoW, PoolInv, TypeOK, MutexInv, Threads
  <2> QED BY <2>1, HolderLeaves
<1>5. ASSUME NEW r \in Reactors,
             ReactorStep(r) \/ StartFails(r) \/ \E c \in Conns : ReadEventCb(r, c),
             ~LockWork(r), ~UnlockWork(r)
      PROVE  WorkMutexIsInUse'
  <2>1. UNCHANGED m_WorkMutex
    BY <1>5 DEF ReactorStep, WaitMaxNum, TestAvailLow, ReadAllNum, TestRoom, CountToCreate,
         CreateIdleThread, CreateFails, CreateDone, StartFails, StartWorkerThread, NextRound,
         TestIdle, WaitIdle, FrontIdle, PushBusy, EraseIdle, SetJob, SignalJob, ReadEventCb
  <2>2. \A q \in Reactors : rpc[q] \in Locking => rpc'[q] \in Locking /\ thr'[q] = thr[q]
    <3>1. CASE rpc[r] \in Locking
      BY <1>5, <3>1 DEF ReactorStep, WaitMaxNum, TestAvailLow, ReadAllNum, TestRoom,
           CountToCreate, CreateIdleThread, CreateFails, CreateDone, StartFails,
           StartWorkerThread, NextRound, TestIdle, WaitIdle, FrontIdle, PushBusy, EraseIdle,
           SetJob, SignalJob, ReadEventCb, GoR, PoolInv, TypeOK
    <3>2. CASE rpc[r] \notin Locking
      <4>1. \A q \in Reactors \ {r} : rpc'[q] = rpc[q] /\ thr'[q] = thr[q]
        BY <1>5 DEF ReactorStep, WaitMaxNum, TestAvailLow, ReadAllNum, TestRoom,
             CountToCreate, CreateIdleThread, CreateFails, CreateDone, StartFails,
             StartWorkerThread, NextRound, TestIdle, WaitIdle, FrontIdle, PushBusy, EraseIdle,
             SetJob, SignalJob, ReadEventCb, GoR, PoolInv, TypeOK
      <4> QED BY <3>2, <4>1
    <3> QED BY <3>1, <3>2
  <2>3. \A w \in Workers : wpc[w] \in Holding => wpc'[w] \in Holding
    <3>1. CASE wpc' = wpc
      BY <3>1
    <3>2. CASE CreateIdleThread(r)
      BY <3>2 DEF CreateIdleThread, GoW, Unused, PoolInv, TypeOK
    <3>3. CASE StartWorkerThread(r)
      BY <3>3 DEF StartWorkerThread, NextRound, GoW, PoolInv, TypeOK, CreateInv
    <3>4. CASE SignalJob(r)
      BY <3>4 DEF SignalJob, PoolInv, TypeOK
    <3> QED BY <1>5, <3>1, <3>2, <3>3, <3>4
            DEF ReactorStep, WaitMaxNum, TestAvailLow, ReadAllNum, TestRoom, CountToCreate,
                CreateFails, CreateDone, StartFails, TestIdle, WaitIdle, FrontIdle, PushBusy,
                EraseIdle, SetJob, ReadEventCb
  <2> QED BY <2>1, <2>2, <2>3, HoldersStay
<1>6. ASSUME NEW w \in Workers, WorkerStep(w), ~LockJob(w), ~UnlockJob(w)
      PROVE  WorkMutexIsInUse'
  <2>1. UNCHANGED <<m_WorkMutex, thr>>
    BY <1>6 DEF WorkerStep, TestJob, WaitJob, FinishJob, PushIdle, EraseBusy, SignalIdle,
         SignalMaxNum, TestAvailHigh, CountToDelete, DeleteIdleThread
  <2>2. \A v \in Workers : wpc[v] \in Holding => wpc'[v] \in Holding
    BY <1>6 DEF WorkerStep, TestJob, WaitJob, FinishJob, PushIdle, EraseBusy, SignalIdle,
         SignalMaxNum, TestAvailHigh, CountToDelete, DeleteIdleThread, GoW, PoolInv, TypeOK
  <2>3. \A r \in Reactors : rpc[r] \in Locking => rpc'[r] \in Locking
    BY <1>6 DEF WorkerStep, TestJob, WaitJob, FinishJob, PushIdle, EraseBusy, SignalIdle,
         SignalMaxNum, TestAvailHigh, CountToDelete, DeleteIdleThread, SignalReactor, GoR,
         PoolInv, TypeOK
  <2> QED BY <2>1, <2>2, <2>3, HoldersStay
<1>7. CASE SpuriousWakeup
  BY <1>7, HoldersStay DEF SpuriousWakeup, GoR, GoW, PoolInv, TypeOK
<1>8. CASE UNCHANGED vars
  BY <1>8, HoldersStay DEF vars
<1> QED BY <1>1, <1>2, <1>3, <1>4, <1>5, <1>6, <1>7, <1>8 DEF Next, ReactorStep, WorkerStep

(* For any number of reactors and workers, and whatever was deleted or     *)
(* could not be started, no m_WorkMutex is left locked.                    *)
THEOREM WorkMutexesAreInUse == Spec => []WorkMutexIsInUse
<1>1. Init => WorkMutexIsInUse
  BY WorkersAssumption, ReactorsAssumption DEF Init, WorkMutexIsInUse, Threads
<1> QED BY <1>1, HolderStep, PoolInvariant, PTL DEF Spec

-----------------------------------------------------------------------------
(* Threads that are lost to the pool.                                      *)

(* A thread that DeleteIdleThread removed: no list, no job and no reactor  *)
(* refers to it, and it is in its wait for a job or on its way there.      *)
Abandoned(w) ==
    /\ w \notin m_ThreadList /\ w \notin Idle
    /\ m_Job[w] = NoConn
    /\ wpc[w] \in {"new", "test", "enter", "wait"}
    /\ \A r \in Reactors : rpc[r] \in Choosing => thr[r] # w

(* It is neither ended nor used again: it stays blocked for good.          *)
AbandonedIsLost == [][\A w \in Workers : Abandoned(w) => Abandoned(w)']_vars

(* A thread that pthread_create failed for.                                *)
NotStarted(w) == wpc[w] = "new" /\ \A r \in Reactors : rpc[r] = "start" => thr[r] # w

(* It is never started, and keeps a job that it was given.                 *)
NotStartedIsLost ==
    [][\A w \in Workers : NotStarted(w) =>
            NotStarted(w)' /\ (m_Job[w] # NoConn => m_Job'[w] # NoConn)]_vars

(* What enters the lists: a new object, and a worker that comes back.      *)
LEMMA ListsGrow ==
    ASSUME PoolInv, [Next]_vars
    PROVE  /\ Idle' \subseteq Idle \cup {w \in Workers : wpc[w] \in {"none", "pushIdle"}}
           /\ m_ThreadList' \subseteq m_ThreadList \cup Unused
<1>1. m_IdleList \in Seq(Workers) /\ IsInjective(m_IdleList)
  BY DEF PoolInv, TypeOK, IdleIsFree
<1>2. CASE UNCHANGED <<m_IdleList, m_ThreadList>>
  BY <1>2 DEF Idle
<1>3. ASSUME NEW r \in Reactors, CreateIdleThread(r)
      PROVE  \E w \in Unused : Idle' = Idle \cup {w} /\ m_ThreadList' = m_ThreadList \cup {w}
  BY <1>1, <1>3, AppendFresh DEF CreateIdleThread, Unused, Idle
<1>4. ASSUME NEW r \in Reactors, EraseIdle(r)
      PROVE  Idle' \subseteq Idle /\ m_ThreadList' = m_ThreadList
  BY <1>1, <1>4, RemoveFirstOfDistinct DEF EraseIdle, Idle
<1>5. ASSUME NEW w \in Workers, PushIdle(w)
      PROVE  /\ Idle' = Idle \cup {w} /\ wpc[w] = "pushIdle"
             /\ m_ThreadList' = m_ThreadList
  BY <1>1, <1>5, AppendFresh DEF PushIdle, Idle
<1>6. ASSUME NEW w \in Workers, DeleteIdleThread(w)
      PROVE  Idle' \subseteq Idle /\ m_ThreadList' \subseteq m_ThreadList
  <2>1. PICK m \in 1..(IdleNum + 1) : m_IdleList' = SubSeq(m_IdleList, m, IdleNum)
    <3>1. IdleNum \in Nat /\ num[w] \in Int
      BY LenProperties DEF PoolInv, TypeOK, IdleNum, Threads
    <3> DEFINE n == IF num[w] > IdleNum THEN IdleNum ELSE num[w]
               m == 1 + (IF n > 0 THEN n ELSE 0)
    <3>2. m \in 1..(IdleNum + 1)
      BY <3>1
    <3>3. m_IdleList' = SubSeq(m_IdleList, m, IdleNum)
      BY <1>6 DEF DeleteIdleThread
    <3> QED BY <3>2, <3>3
  <2>2. Idle' \subseteq Idle
    BY <1>1, <2>1, SuffixOfDistinct DEF Idle, IdleNum
  <2> QED BY <1>6, <2>2 DEF DeleteIdleThread
<1>7. ASSUME NEW r \in Reactors,
             ReactorStep(r) \/ StartFails(r) \/ \E c \in Conns : ReadEventCb(r, c),
             ~CreateIdleThread(r), ~EraseIdle(r)
      PROVE  UNCHANGED <<m_IdleList, m_ThreadList>>
  BY <1>7 DEF ReactorStep, WaitMaxNum, TestAvailLow, ReadAllNum, TestRoom, CountToCreate,
       CreateFails, CreateDone, StartFails, StartWorkerThread, NextRound, TestIdle, WaitIdle,
       FrontIdle, LockWork, PushBusy, SetJob, SignalJob, UnlockWork, ReadEventCb, lists
<1>8. ASSUME NEW w \in Workers, WorkerStep(w), ~PushIdle(w), ~DeleteIdleThread(w)
      PROVE  UNCHANGED <<m_IdleList, m_ThreadList>>
  BY <1>8 DEF WorkerStep, TestJob, WaitJob, LockJob, FinishJob, EraseBusy, SignalIdle,
       SignalMaxNum, TestAvailHigh, CountToDelete, UnlockJob, lists
<1>9. SpuriousWakeup \/ UNCHANGED vars => UNCHANGED <<m_IdleList, m_ThreadList>>
  BY DEF SpuriousWakeup, vars, lists
<1>10. Unused \subseteq {w \in Workers : wpc[w] \in {"none", "pushIdle"}}
  BY DEF Unused
<1> QED BY <1>2, <1>3, <1>4, <1>5, <1>6, <1>7, <1>8, <1>9, <1>10
        DEF Next, ReactorStep, WorkerStep

(* A reactor comes to a worker through m_IdleList, or creates it.          *)
LEMMA ReactorsChoose ==
    ASSUME PoolInv, [Next]_vars, NEW r \in Reactors
    PROVE  /\ rpc'[r] \in Choosing =>
                 thr'[r] \in Idle \/ (rpc[r] \in Choosing /\ thr'[r] = thr[r])
           /\ rpc'[r] = "start" =>
                 wpc[thr'[r]] = "none" \/ (rpc[r] = "start" /\ thr'[r] = thr[r])
<1> USE DEF Choosing
<1>1. CASE FrontIdle(r)
  <2>1. /\ rpc' = [rpc EXCEPT ![r] = "lockWork"] /\ thr' = [thr EXCEPT ![r] = Head(m_IdleList)]
        /\ m_IdleList # <<>>
        \/ rpc' = [rpc EXCEPT ![r] = "loop"]
    BY <1>1 DEF FrontIdle, GoR
  <2>2. m_IdleList # <<>> => Head(m_IdleList) \in Idle
    BY LenProperties, EmptySeq, HeadTailProperties DEF PoolInv, TypeOK, Idle, ToSet
  <2> QED BY <2>1, <2>2 DEF PoolInv, TypeOK
<1>2. CASE CreateIdleThread(r)
  BY <1>2 DEF CreateIdleThread, Unused, GoR, PoolInv, TypeOK
<1>3. CASE /\ ~FrontIdle(r) /\ ~CreateIdleThread(r)
           /\ ReactorStep(r) \/ StartFails(r) \/ \E c \in Conns : ReadEventCb(r, c)
  BY <1>3 DEF ReactorStep, WaitMaxNum, TestAvailLow, ReadAllNum, TestRoom, CountToCreate,
       CreateFails, CreateDone, StartFails, StartWorkerThread, NextRound, TestIdle, WaitIdle,
       LockWork, PushBusy, EraseIdle, SetJob, SignalJob, UnlockWork, ReadEventCb, GoR,
       PoolInv, TypeOK
<1>4. ASSUME NEW q \in Reactors \ {r},
             ReactorStep(q) \/ StartFails(q) \/ \E c \in Conns : ReadEventCb(q, c)
      PROVE  rpc'[r] = rpc[r] /\ thr'[r] = thr[r]
  BY <1>4 DEF ReactorStep, WaitMaxNum, TestAvailLow, ReadAllNum, TestRoom, CountToCreate,
       CreateIdleThread, CreateFails, CreateDone, StartFails, StartWorkerThread, NextRound,
       TestIdle, WaitIdle, FrontIdle, LockWork, PushBusy, EraseIdle, SetJob, SignalJob,
       UnlockWork, ReadEventCb, GoR, PoolInv, TypeOK
<1>5. ASSUME NEW w \in Workers, WorkerStep(w)
      PROVE  thr'[r] = thr[r] /\ (rpc'[r] = rpc[r] \/ rpc'[r] \in {"idleTest", "lowTest"})
  BY <1>5 DEF WorkerStep, TestJob, WaitJob, LockJob, FinishJob, PushIdle, EraseBusy, SignalIdle,
       SignalMaxNum, TestAvailHigh, CountToDelete, DeleteIdleThread, UnlockJob, SignalReactor,
       GoR, PoolInv, TypeOK
<1>6. SpuriousWakeup \/ UNCHANGED vars =>
          thr'[r] = thr[r] /\ (rpc'[r] = rpc[r] \/ rpc'[r] \in {"idleTest", "lowTest"})
  BY DEF SpuriousWakeup, GoR, vars, PoolInv, TypeOK
<1> QED BY <1>1, <1>2, <1>3, <1>4, <1>5, <1>6 DEF Next

(* A job comes from a reactor that has chosen the worker, and goes when    *)
(* the worker has executed it.  A worker that waits for its start or for a *)
(* job is started or goes on with a job.                                   *)
LEMMA WorkersMove ==
    ASSUME PoolInv, [Next]_vars, NEW w \in Workers
    PROVE  /\ \/ m_Job'[w] = m_Job[w]
              \/ wpc[w] = "run"
              \/ m_Job'[w] # NoConn /\ \E r \in Reactors : rpc[r] \in Choosing /\ thr[r] = w
           /\ wpc[w] = "new" =>
                 \/ wpc'[w] = "new"
                 \/ wpc'[w] = "test" /\ \E r \in Reactors : rpc[r] = "start" /\ thr[r] = w
           /\ wpc[w] \in {"test", "enter", "wait"} =>
                 wpc'[w] \in {"test", "enter", "wait"} \/ m_Job[w] # NoConn
<1>1. ASSUME NEW r \in Reactors, SetJob(r)
      PROVE  /\ m_Job' = [m_Job EXCEPT ![thr[r]] = job[r]] /\ job[r] # NoConn
             /\ rpc[r] \in Choosing /\ wpc' = wpc
  BY <1>1, ConnsAssumption DEF SetJob, Choosing, PoolInv, ChosenInv
<1>2. ASSUME NEW r \in Reactors, StartWorkerThread(r)
      PROVE  m_Job' = m_Job /\ rpc[r] = "start" /\ wpc' = [wpc EXCEPT ![thr[r]] = "test"]
  BY <1>2 DEF StartWorkerThread, NextRound, GoW
<1>3. ASSUME NEW r \in Reactors, CreateIdleThread(r)
      PROVE  m_Job' = m_Job /\ \A v \in Workers : wpc'[v] = wpc[v] \/ wpc[v] = "none"
  BY <1>3 DEF CreateIdleThread, Unused, GoW, PoolInv, TypeOK
<1>4. ASSUME NEW r \in Reactors, SignalJob(r)
      PROVE  m_Job' = m_Job /\ \A v \in Workers : \/ wpc'[v] = wpc[v]
                                                  \/ wpc[v] = "wait" /\ wpc'[v] = "test"
  BY <1>4 DEF SignalJob, PoolInv, TypeOK
<1>5. ASSUME NEW r \in Reactors,
             ReactorStep(r) \/ StartFails(r) \/ \E c \in Conns : ReadEventCb(r, c),
             ~SetJob(r), ~StartWorkerThread(r), ~CreateIdleThread(r), ~SignalJob(r)
      PROVE  UNCHANGED <<m_Job, wpc>>
  BY <1>5 DEF ReactorStep, WaitMaxNum, TestAvailLow, ReadAllNum, TestRoom, CountToCreate,
       CreateFails, CreateDone, StartFails, NextRound, TestIdle, WaitIdle, FrontIdle, LockWork,
       PushBusy, EraseIdle, UnlockWork, ReadEventCb
<1>6. CASE WorkerStep(w)
  <2>1. \/ m_Job' = m_Job
        \/ wpc[w] = "run"
    BY <1>6 DEF WorkerStep, TestJob, WaitJob, LockJob, FinishJob, PushIdle, EraseBusy,
         SignalIdle, SignalMaxNum, TestAvailHigh, CountToDelete, DeleteIdleThread, UnlockJob
  <2>2. wpc[w] \in {"new", "test", "enter", "wait"} => TestJob(w) \/ WaitJob(w)
    BY <1>6 DEF WorkerStep, TestJob, WaitJob, LockJob, FinishJob, PushIdle, EraseBusy,
         SignalIdle, SignalMaxNum, TestAvailHigh, CountToDelete, DeleteIdleThread, UnlockJob
  <2> QED BY <2>1, <2>2 DEF TestJob, WaitJob, GoW, PoolInv, TypeOK
<1>7. ASSUME NEW v \in Workers \ {w}, WorkerStep(v)
      PROVE  m_Job'[w] = m_Job[w] /\ wpc'[w] = wpc[w]
  BY <1>7 DEF WorkerStep, TestJob, WaitJob, LockJob, FinishJob, PushIdle, EraseBusy, SignalIdle,
       SignalMaxNum, TestAvailHigh, CountToDelete, DeleteIdleThread, UnlockJob, GoW,
       PoolInv, TypeOK
<1>8. SpuriousWakeup \/ UNCHANGED vars =>
          m_Job' = m_Job /\ (wpc'[w] = wpc[w] \/ (wpc[w] = "wait" /\ wpc'[w] = "test"))
  BY DEF SpuriousWakeup, GoW, vars, PoolInv, TypeOK
<1>9. ASSUME NEW r \in Reactors, SetJob(r)
      PROVE  m_Job'[w] = m_Job[w] \/ (m_Job'[w] # NoConn /\ thr[r] = w)
  BY <1>1, <1>9 DEF PoolInv, TypeOK
<1>10. ASSUME NEW r \in Reactors, StartWorkerThread(r)
       PROVE  wpc'[w] = wpc[w] \/ (wpc'[w] = "test" /\ thr[r] = w)
  BY <1>2, <1>10 DEF PoolInv, TypeOK
<1>11. ASSUME NEW r \in Reactors,
              ReactorStep(r) \/ StartFails(r) \/ \E c \in Conns : ReadEventCb(r, c)
       PROVE  /\ \/ m_Job'[w] = m_Job[w]
                 \/ m_Job'[w] # NoConn /\ rpc[r] \in Choosing /\ thr[r] = w
              /\ \/ wpc'[w] = wpc[w]
                 \/ wpc[w] = "none"
                 \/ wpc[w] = "wait" /\ wpc'[w] = "test"
                 \/ wpc'[w] = "test" /\ rpc[r] = "start" /\ thr[r] = w
  BY <1>1, <1>2, <1>3, <1>4, <1>5, <1>9, <1>10, <1>11
<1>12. CASE \E r \in Reactors :
               ReactorStep(r) \/ StartFails(r) \/ \E c \in Conns : ReadEventCb(r, c)
  BY <1>11, <1>12
<1> QED BY <1>6, <1>7, <1>8, <1>12 DEF Next

(* A deleted thread is never used again, and never ends.                   *)
THEOREM AbandonedThreadsAreLost == Spec => AbandonedIsLost
<1>1. ASSUME PoolInv, [Next]_vars, NEW w \in Workers, Abandoned(w)
      PROVE  Abandoned(w)'
  <2>1. w \notin Unused /\ wpc[w] \notin {"none", "pushIdle", "run"}
    BY <1>1 DEF Abandoned, Unused
  <2>2. w \notin m_ThreadList' /\ w \notin Idle'
    BY <1>1, <2>1, ListsGrow DEF Abandoned
  <2>3. \A r \in Reactors : rpc'[r] \in Choosing => thr'[r] # w
    BY <1>1, ReactorsChoose DEF Abandoned
  <2>4. m_Job'[w] = NoConn /\ wpc'[w] \in {"new", "test", "enter", "wait"}
    BY <1>1, <2>1, WorkersMove DEF Abandoned
  <2> QED BY <2>2, <2>3, <2>4 DEF Abandoned
<1>2. PoolInv /\ [Next]_vars => \A w \in Workers : Abandoned(w) => Abandoned(w)'
  BY <1>1
<1> QED BY <1>2, PoolInvariant, PTL DEF Spec, AbandonedIsLost

(* Nothing starts a thread once its start has failed: a job that it is     *)
(* given is never executed.                                                *)
THEOREM UnstartedThreadsAreLost == Spec => NotStartedIsLost
<1>1. ASSUME PoolInv, [Next]_vars, NEW w \in Workers, NotStarted(w)
      PROVE  NotStarted(w)' /\ (m_Job[w] # NoConn => m_Job'[w] # NoConn)
  <2>1. wpc'[w] = "new" /\ (m_Job[w] # NoConn => m_Job'[w] # NoConn)
    BY <1>1, WorkersMove DEF NotStarted
  <2>2. \A r \in Reactors : rpc'[r] = "start" => thr'[r] # w
    BY <1>1, ReactorsChoose DEF NotStarted
  <2> QED BY <2>1, <2>2 DEF NotStarted
<1>2. PoolInv /\ [Next]_vars =>
          \A w \in Workers : NotStarted(w) =>
              NotStarted(w)' /\ (m_Job[w] # NoConn => m_Job'[w] # NoConn)
  BY <1>1
<1> QED BY <1>2, PoolInvariant, PTL DEF Spec, NotStartedIsLost
=============================================================================
