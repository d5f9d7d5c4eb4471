---------------------------- MODULE ConnLifecycle ----------------------------
(***************************************************************************)
(* One connection between its client, its event loop and the workers that  *)
(* execute it (tcpeventserver.cpp, http_conn.h, job.cpp, threadpool.cpp).  *)
(* The Conn is at once the state the event loop fills and the job it hands *)
(* out, and nothing in the code keeps the two apart.                       *)
(*                                                                         *)
(* JobHandoff, not Exclusive, is what the worker pool promises to the      *)
(* event loops of a server: another loop can pick the same worker and      *)
(* replace a job that was not started.  Beyond that the pool can keep the  *)
(* loop waiting, drop its job, or give it to a worker that does not run.   *)
(*                                                                         *)
(* Requests are numbered, and a piece of input is one request: how it is   *)
(* cut and what it is answered is HttpJob's.  Here m_read_buf is the       *)
(* number of the piece that was copied last, m_read_idx and m_checked_idx  *)
(* count pieces, and m_write_buf holds what was composed since init():     *)
(* numbers of requests, or Other for an answer that is nobody's.           *)
(*                                                                         *)
(* alive becomes FALSE where the behaviour is undefined, and the model     *)
(* stops.  The bufferevent is used by two threads without locks; races     *)
(* inside libevent are left out.                                           *)
(***************************************************************************)
EXTENDS Integers, Sequences, SequencesExt, FiniteSets

CONSTANTS
    Workers,      (* worker threads                                         *)
    Conn,         (* the connection, as a job                               *)
    Another,      (* any job of another event loop                          *)
    NoJob,        (* NULL                                                   *)
    MaxRequests   (* bound: requests the client sends                       *)

ASSUME ConnAssumption == Conn # NoJob /\ Another \notin {Conn, NoJob}
ASSUME MaxRequestsAssumption == MaxRequests \in Nat

VARIABLES
    slot, running,      (* of JobHandoff                                    *)
    wpc,                (* where each worker is                             *)
    loop,               (* what the event loop is doing                     *)
    conn,               (* "open", "freed" (its bufferevent) or "deleted"   *)
    m_read_buf, m_read_idx, m_checked_idx, m_linger, m_write_buf,
    kind,               (* the kind of each request                         *)
    sent, closed,       (* client: requests sent, connection closed         *)
    received,           (* requests the event loop has copied               *)
    answers,            (* what was written to the client                   *)
    overlapped,         (* history: a piece or a close was handled while a  *)
                        (* job for the connection was waiting or executed   *)
    lost,               (* history: requests whose job was dropped or       *)
                        (* replaced                                         *)
    alive

handoff == <<slot, running>>
request == <<m_read_buf, m_read_idx, m_checked_idx, m_linger, m_write_buf>>
client == <<kind, sent, closed>>
vars == <<handoff, wpc, loop, conn, request, client, received, answers,
          overlapped, lost, alive>>

Pool == INSTANCE JobHandoff WITH Exclusive <- FALSE, Jobs <- {Conn, Another}

(* A request for a file with or without "Connection: keep-alive", and one  *)
(* for a file of size 0.                                                   *)
Kinds == {"keep-alive", "plain", "empty"}
Requests == 1..MaxRequests
Other == 0

WorkerSteps == {"new", "test", "wait", "parked", "read", "write", "garbage", "init",
                "done", "elsewhere"}
InProcess(w) == wpc[w] \in {"read", "write", "garbage", "init"}
At(w, s) == wpc[w] = s
Goto(w, s) == wpc' = [wpc EXCEPT ![w] = s]

(* A job for the connection waits, or is in process().                     *)
Pending == \E w \in Workers : slot[w] = Conn /\ w \notin running
Processed == \E w \in Workers : InProcess(w)

Init ==
    /\ Pool!Init
    /\ wpc \in [Workers -> {"new", "test"}]
    /\ loop = "dispatch"
    /\ conn = "open"
    /\ m_read_buf = Other /\ m_read_idx = 0 /\ m_checked_idx = 0
    /\ m_linger = FALSE /\ m_write_buf = <<>>
    /\ kind \in [Requests -> Kinds]
    /\ sent = 0 /\ closed = FALSE
    /\ received = 0
    /\ answers = <<>>
    /\ overlapped = FALSE
    /\ lost = {}
    /\ alive = TRUE

-----------------------------------------------------------------------------
(* The client.  It may send before it was answered, and close at any time. *)

Send ==
    /\ ~closed
    /\ sent < MaxRequests
    /\ sent' = sent + 1
    /\ UNCHANGED <<handoff, wpc, loop, conn, request, kind, closed, received,
                   answers, overlapped, lost, alive>>

Close ==
    /\ ~closed
    /\ closed' = TRUE
    /\ UNCHANGED <<handoff, wpc, loop, conn, request, kind, sent, received,
                   answers, overlapped, lost, alive>>

-----------------------------------------------------------------------------
(* The event loop.                                                         *)

(* ReadEventCb is called for a piece of input.                             *)
ReadEventCb ==
    /\ loop = "dispatch"
    /\ conn = "open"
    /\ received < sent
    /\ loop' = "copy"
    /\ overlapped' = (overlapped \/ Pending \/ Processed)
    /\ UNCHANGED <<handoff, wpc, conn, request, client, received, answers,
                   lost, alive>>

(* It copies the piece to the start of m_read_buf.                         *)
GetReadBuffer ==
    /\ loop = "copy"
    /\ m_read_buf' = received + 1
    /\ m_read_idx' = m_read_idx + 1
    /\ received' = received + 1
    /\ loop' = "run"
    /\ UNCHANGED <<handoff, wpc, conn, m_checked_idx, m_linger, m_write_buf,
                   client, answers, overlapped, lost, alive>>

(* The slot of worker w is filled.  The signal of SetJob wakes a worker    *)
(* that waits already; a job that was not started is replaced.             *)
SetJob(w, job) ==
    /\ Pool!Give(w, job)
    /\ Goto(w, IF At(w, "parked") THEN "test" ELSE wpc[w])
    /\ lost' = IF slot[w] = Conn THEN lost \cup {received} ELSE lost

(* Mutant: no job is given while some worker still has the connection.     *)
Run_IfFree(w) ==
    /\ loop \in {"run", "waits"}
    /\ loop' = "dispatch"
    /\ IF \E v \in Workers : slot[v] = Conn
       THEN UNCHANGED <<handoff, wpc, lost>>
       ELSE SetJob(w, Conn)
    /\ UNCHANGED <<conn, request, client, received, answers, overlapped, alive>>

(* CThreadPool::Run gives the connection to a worker.                      *)
Run(w) ==
    /\ loop \in {"run", "waits"}
    /\ SetJob(w, Conn)
    /\ loop' = "dispatch"
    /\ UNCHANGED <<conn, request, client, received, answers, overlapped, alive>>

(* It waits for m_MaxNumCond or m_IdleCond first, perhaps for good.        *)
RunWaits ==
    /\ loop = "run"
    /\ loop' = "waits"
    /\ UNCHANGED <<handoff, wpc, conn, request, client, received, answers,
                   overlapped, lost, alive>>

(* Another loop took the last idle worker: GetIdleThread returns NULL.     *)
RunDrops ==
    /\ loop \in {"run", "waits"}
    /\ loop' = "dispatch"
    /\ lost' = lost \cup {received}
    /\ UNCHANGED <<handoff, wpc, conn, request, client, received, answers,
                   overlapped, alive>>

(* Another event loop gives its job to worker w.                           *)
OthersRun(w) ==
    /\ SetJob(w, Another)
    /\ UNCHANGED <<loop, conn, request, client, received, answers, overlapped, alive>>

(* Mutant: only the bufferevent is freed.                                  *)
CloseEventCb_Frees ==
    /\ loop = "dispatch"
    /\ conn = "open"
    /\ closed
    /\ conn' = "freed"
    /\ overlapped' = (overlapped \/ \E w \in Workers : slot[w] = Conn)
    /\ UNCHANGED <<handoff, wpc, loop, request, client, received, answers,
                   lost, alive>>

(* CloseEventCb, for an end of file after the input or an error before it, *)
(* frees the bufferevent, and then the connection.                         *)
CloseEventCb ==
    /\ loop = "dispatch"
    /\ conn = "open"
    /\ closed
    /\ conn' = "freed"
    /\ loop' = "delete"
    /\ overlapped' = (overlapped \/ \E w \in Workers : slot[w] = Conn)
    /\ UNCHANGED <<handoff, wpc, request, client, received, answers, lost, alive>>

DeleteConn ==
    /\ loop = "delete"
    /\ conn' = "deleted"
    /\ loop' = "dispatch"
    /\ UNCHANGED <<handoff, wpc, request, client, received, answers,
                   overlapped, lost, alive>>

-----------------------------------------------------------------------------
(* A worker.                                                               *)

(* Its thread starts; it does not if pthread_create failed.                *)
StartWorkerThread(w) ==
    /\ At(w, "new")
    /\ Goto(w, "test")
    /\ UNCHANGED <<handoff, loop, conn, request, client, received, answers,
                   overlapped, lost, alive>>

(* It tests m_Job, and waits for m_JobCond if that is NULL.                *)
TestJob(w) ==
    /\ At(w, "test")
    /\ \/ slot[w] = NoJob /\ Goto(w, "wait") /\ UNCHANGED handoff
       \/ Pool!Start(w) /\ Goto(w, IF slot[w] = Conn THEN "read" ELSE "elsewhere")
    /\ UNCHANGED <<loop, conn, request, client, received, answers, overlapped,
                   lost, alive>>

WaitJob(w) ==
    /\ At(w, "wait")
    /\ Goto(w, "parked")
    /\ UNCHANGED <<handoff, loop, conn, request, client, received, answers,
                   overlapped, lost, alive>>

SpuriousWakeup(w) ==
    /\ At(w, "parked")
    /\ Goto(w, "test")
    /\ UNCHANGED <<handoff, loop, conn, request, client, received, answers,
                   overlapped, lost, alive>>

(* What process_read may find: nothing new, the piece that was copied last *)
(* when the parser was reset before, and anything in the middle of what an *)
(* earlier request left behind.                                            *)
Found ==
    IF m_checked_idx = m_read_idx THEN {}
    ELSE IF m_checked_idx = 0 THEN {m_read_buf}
    ELSE {m_read_buf, Other}

(* process_write appends the answer to m_write_buf.                        *)
Compose(w, q) ==
    /\ m_write_buf' = Append(m_write_buf, q)
    /\ \/ q # Other /\ m_linger' = (m_linger \/ kind[q] = "keep-alive")
       \/ q = Other /\ m_linger' \in {m_linger, TRUE}
    /\ Goto(w, "write")

(* process(): process_read and process_write.  For a file of size 0, and   *)
(* possibly for an answer without a file, it uses a connection it deleted  *)
(* or a pointer that is not one.                                           *)
process(w) ==
    /\ At(w, "read")
    /\ conn # "deleted"
    /\ m_checked_idx' = m_read_idx
    /\ \/ /\ Found = {} \/ m_checked_idx > 0
          /\ Goto(w, "done")
          /\ UNCHANGED <<m_linger, m_write_buf, alive>>
       \/ \E q \in Found :
             /\ q \in Requests => kind[q] # "empty"
             /\ Compose(w, q)
             /\ UNCHANGED alive
       \/ \E q \in Found :
             /\ q \in Requests => kind[q] = "empty"
             /\ alive' = FALSE
             /\ UNCHANGED <<wpc, m_linger, m_write_buf>>
    /\ UNCHANGED <<handoff, loop, conn, m_read_buf, m_read_idx, client,
                   received, answers, overlapped, lost>>

(* For every file process_write calls evbuffer_commit_space with an iovec  *)
(* and a count that nobody set, and write() uses the result of mmap        *)
(* unchecked.  The outcome may be undefined.                               *)
UseGarbage(w) ==
    /\ At(w, "write")
    /\ Goto(w, "garbage")
    /\ alive' = FALSE
    /\ UNCHANGED <<handoff, loop, conn, request, client, received, answers,
                   overlapped, lost>>

(* write() sends all of m_write_buf, and the file.                         *)
write(w) ==
    /\ At(w, "write")
    /\ conn = "open"
    /\ answers' = answers \o m_write_buf
    /\ Goto(w, IF m_linger THEN "init" ELSE "done")
    /\ UNCHANGED <<handoff, loop, conn, request, client, received, overlapped,
                   lost, alive>>

(* Mutant: m_checked_idx is not reset.                                     *)
init_KeepsChecked(w) ==
    /\ At(w, "init")
    /\ conn # "deleted"
    /\ m_read_buf' = Other /\ m_read_idx' = 0
    /\ m_linger' = FALSE /\ m_write_buf' = <<>>
    /\ Goto(w, "done")
    /\ UNCHANGED <<handoff, loop, conn, m_checked_idx, client, received,
                   answers, overlapped, lost, alive>>

(* For a keep-alive request write() ends with init().                      *)
init(w) ==
    /\ At(w, "init")
    /\ conn # "deleted"
    /\ m_read_buf' = Other /\ m_read_idx' = 0 /\ m_checked_idx' = 0
    /\ m_linger' = FALSE /\ m_write_buf' = <<>>
    /\ Goto(w, "done")
    /\ UNCHANGED <<handoff, loop, conn, client, received, answers, overlapped,
                   lost, alive>>

(* Mutant: the worker frees itself while it still has to call init().      *)
Finish_Early(w) ==
    /\ wpc[w] \in {"init", "done", "elsewhere"}
    /\ At(w, "elsewhere") \/ conn # "deleted"
    /\ IF At(w, "init")
       THEN slot[w] = Conn /\ slot' = [slot EXCEPT ![w] = NoJob] /\ UNCHANGED <<running, wpc>>
       ELSE Pool!Finish(w) /\ Goto(w, "test")
    /\ UNCHANGED <<loop, conn, request, client, received, answers, overlapped, lost, alive>>

(* The worker uses its job once more, SetWorkThread(NULL), and is done     *)
(* with it.                                                                *)
Finish(w) ==
    /\ wpc[w] \in {"done", "elsewhere"}
    /\ At(w, "done") => conn # "deleted"
    /\ Pool!Finish(w)
    /\ Goto(w, "test")
    /\ UNCHANGED <<loop, conn, request, client, received, answers, overlapped, lost, alive>>

-----------------------------------------------------------------------------
(* A worker uses a connection or a bufferevent that is gone, or two        *)
(* threads are in the parser's state at once.                              *)
UsesDeleted ==
    \E w \in Workers :
        /\ InProcess(w) \/ At(w, "done")
        /\ conn = "deleted" \/ (conn = "freed" /\ At(w, "write"))

Races ==
    \/ loop = "copy" /\ \E w \in Workers : wpc[w] \in {"read", "init"}
    \/ Cardinality({w \in Workers : InProcess(w)}) > 1

Undefined ==
    /\ UsesDeleted \/ Races
    /\ alive' = FALSE
    /\ UNCHANGED <<handoff, wpc, loop, conn, request, client, received,
                   answers, overlapped, lost>>

LoopStep ==
    \/ ReadEventCb \/ GetReadBuffer \/ CloseEventCb \/ DeleteConn \/ RunWaits \/ RunDrops
    \/ \E w \in Workers : Run(w)

WorkerStep(w) ==
    TestJob(w) \/ WaitJob(w) \/ process(w) \/ write(w) \/ init(w) \/ Finish(w)

Next ==
    /\ alive
    /\ \/ Send
       \/ Close
       \/ LoopStep
       \/ \E w \in Workers :
             \/ WorkerStep(w) \/ OthersRun(w)
             \/ StartWorkerThread(w) \/ SpuriousWakeup(w) \/ UseGarbage(w)
       \/ Undefined

Spec == Init /\ [][Next]_vars

(* The threads run.  Nothing makes a client send or close, another loop    *)
(* give a job, a thread start, a loop that waits or a worker wake up by    *)
(* itself, or undefined behaviour strike.                                  *)
FairSpec ==
    /\ Spec
    /\ WF_vars(alive /\ loop # "waits" /\ LoopStep)
    /\ \A w \in Workers : WF_vars(alive /\ WorkerStep(w))

-----------------------------------------------------------------------------
(* Properties.                                                             *)

(* The types, and what a worker holds at each of its steps.                *)
TypeOK ==
    /\ slot \in [Workers -> {Conn, Another, NoJob}]
    /\ running = {w \in Workers : InProcess(w) \/ wpc[w] \in {"done", "elsewhere"}}
    /\ wpc \in [Workers -> WorkerSteps]
    /\ loop \in {"dispatch", "copy", "run", "waits", "delete"}
    /\ conn \in {"open", "freed", "deleted"}
    /\ m_read_buf \in Requests \cup {Other}
    /\ m_checked_idx \in 0..m_read_idx /\ m_read_idx \in 0..received
    /\ m_linger \in BOOLEAN
    /\ m_write_buf \in Seq(Requests \cup {Other})
    /\ kind \in [Requests -> Kinds]
    /\ sent \in 0..MaxRequests /\ received \in 0..sent
    /\ closed \in BOOLEAN
    /\ answers \in Seq(Requests \cup {Other})
    /\ overlapped \in BOOLEAN
    /\ lost \subseteq 1..received
    /\ alive \in BOOLEAN

(* All requests before q leave a parser that was reset.                    *)
KeptAliveBefore(q) == \A p \in 1..(q - 1) : kind[p] = "keep-alive"

(* As long as the event loop handles a piece only after init() of the      *)
(* request before it, and a close only after its job, nothing undefined    *)
(* happens to a client that asks for files and keeps alive, but what       *)
(* serving a file has of itself: the connection is not used after it was   *)
(* deleted, nor by two threads, whatever the pool does with its jobs, and  *)
(* it does not matter that a piece comes before the worker gave itself     *)
(* back.                                                                   *)
UndefinedNeedsOverlap ==
    ~alive =>
        \/ overlapped \/ ~KeptAliveBefore(received)
        \/ received > 0 /\ kind[received] = "empty"
        \/ \E w \in Workers : At(w, "garbage")

(* Under the same condition no request is answered twice or out of order,  *)
(* and none is forgotten but those whose job the pool dropped or replaced: *)
(* these do not spoil the answers of the requests after them.              *)
SequentialRequestsAreAnswered ==
    (/\ alive /\ ~overlapped /\ KeptAliveBefore(received)
     /\ loop \in {"dispatch", "delete"} /\ ~Pending /\ ~Processed) =>
        /\ ToSet(answers) = (1..received) \ lost
        /\ \A i, j \in DOMAIN answers : i < j => answers[i] < answers[j]

(* The loop waits in CThreadPool::Run, or the worker that has the job does *)
(* not run, or does not know of it (SetJob's signal came between its test  *)
(* and its wait).                                                          *)
Stuck ==
    \/ loop = "waits"
    \/ \E w \in Workers : slot[w] = Conn /\ wpc[w] \in {"new", "parked"}

(* A request that was received after keep-alive requests only is answered, *)
(* unless its job was dropped or replaced, a piece or a close overlapped   *)
(* with a job, or the loop or the worker of the job is stuck for good.     *)
RequestIsAnswered ==
    <>[]Stuck \/ \A q \in Requests :
        received >= q /\ KeptAliveBefore(q) ~>
            q \in ToSet(answers) \cup lost \/ overlapped \/ ~alive

(* A connection the client closed is deleted, unless the event loop waits  *)
(* in CThreadPool::Run for good: jobs that refer to the connection do not  *)
(* keep it.                                                                *)
ClosedIsDeleted ==
    <>[](loop = "waits") \/ (closed ~> conn = "deleted" \/ ~alive)
=============================================================================
