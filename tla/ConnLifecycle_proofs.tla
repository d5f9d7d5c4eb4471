------------------------ MODULE ConnLifecycle_proofs ------------------------
(***************************************************************************)
(* Proofs about ConnLifecycle, for any workers and any number of requests. *)
(***************************************************************************)
EXTENDS ConnLifecycle, SequenceTheorems, FiniteSetTheorems, TLAPS

-----------------------------------------------------------------------------
(* The inductive invariant.                                                *)

(* A worker has the connection, and the parser has to be left to it.       *)
Active(w) == (slot[w] = Conn /\ w \notin running) \/ InProcess(w)

(* As long as nothing overlapped, one worker is active, none while a piece *)
(* is copied or handed out, and none has a connection that is closed.      *)
OverlapInv ==
    ~overlapped =>
        /\ \A v, w \in Workers : Active(v) /\ Active(w) => v = w
        /\ loop \in {"copy", "run", "waits"} => conn = "open" /\ \A w \in Workers : ~Active(w)
        /\ conn # "open" => \A w \in Workers : slot[w] # Conn
        /\ loop = "delete" => conn # "open"

(* Whose job a worker executes.                                            *)
RunningInv ==
    \A w \in Workers :
        /\ InProcess(w) \/ At(w, "done") => slot[w] = Conn
        /\ At(w, "elsewhere") => slot[w] = Another

(* A piece that is copied was sent, and a job is given for a piece.        *)
CopyInv ==
    /\ loop = "copy" => received < sent
    /\ loop \in {"run", "waits"} => received > 0
    /\ \A w \in Workers : slot[w] = Conn => received > 0

Reset == m_checked_idx = 0 /\ m_linger = FALSE /\ m_write_buf = <<>>

(* The answers so far are those of the first n requests but the lost ones, *)
(* in order.                                                               *)
Ascending(s) == \A i, j \in DOMAIN s : i < j => s[i] < s[j]
AnsweredUpto(n) == ToSet(answers) = (1..n) \ lost /\ Ascending(answers)

(* What is known of the parser and the answers while no worker is active,  *)
(* and at each step of the one that is.                                    *)
Rest ==
    /\ AnsweredUpto(received)
    /\ received = 0 \/ kind[received] = "keep-alive" => Reset

Fresh ==
    /\ received > 0 /\ received \notin lost
    /\ m_read_buf = received /\ m_read_idx > 0
    /\ Reset
    /\ AnsweredUpto(received - 1)

Composed ==
    /\ received > 0 /\ received \notin lost
    /\ m_write_buf = <<received>>
    /\ m_linger = (kind[received] = "keep-alive")
    /\ AnsweredUpto(received - 1)

Written ==
    /\ received > 0
    /\ kind[received] = "keep-alive"
    /\ AnsweredUpto(received)

RequestInv ==
    ~overlapped /\ alive /\ KeptAliveBefore(received) =>
        /\ loop \notin {"run", "waits"} /\ (\A w \in Workers : ~Active(w)) => Rest
        /\ loop \in {"run", "waits"} => Fresh
        /\ \A w \in Workers :
              /\ (slot[w] = Conn /\ w \notin running) \/ At(w, "read") => Fresh
              /\ At(w, "write") => Composed
              /\ At(w, "init") => Written

ConnInv ==
    TypeOK /\ CopyInv /\ RunningInv /\ OverlapInv /\ RequestInv /\ UndefinedNeedsOverlap

-----------------------------------------------------------------------------
(* Facts that the steps share.                                             *)

(* One more answer, behind those of smaller numbers.                       *)
LEMMA OneMoreAnswer ==
    ASSUME NEW n \in Nat, NEW s \in Seq(Nat), Ascending(s), ToSet(s) \subseteq 1..(n - 1)
    PROVE  Ascending(s \o <<n>>) /\ ToSet(s \o <<n>>) = ToSet(s) \cup {n}
<1> DEFINE t == s \o <<n>>
<1>1. /\ Len(s) \in Nat /\ DOMAIN s = 1..Len(s)
      /\ DOMAIN t = 1..(Len(s) + 1)
      /\ \A i \in 1..Len(s) : t[i] = s[i]
      /\ t[Len(s) + 1] = n
  OBVIOUS
<1> HIDE DEF t
<1>2. \A i \in 1..Len(s) : s[i] \in ToSet(s) /\ s[i] < n
  BY <1>1 DEF ToSet
<1>3. Ascending(t)
  BY <1>1, <1>2 DEF Ascending
<1>4. ToSet(t) = ToSet(s) \cup {n}
  BY <1>1 DEF ToSet
<1> QED BY <1>3, <1>4 DEF t

LEMMA NoActiveIsNotPending ==
    ASSUME ~Pending, ~Processed
    PROVE  \A w \in Workers : ~Active(w)
BY DEF Pending, Processed, Active

-----------------------------------------------------------------------------
(* The types.                                                              *)
LEMMA TypeInit == Init => TypeOK /\ CopyInv
<1> SUFFICES ASSUME Init PROVE TypeOK /\ CopyInv
  OBVIOUS
<1>1. slot \in [Workers -> {Conn, Another, NoJob}] /\ wpc \in [Workers -> WorkerSteps]
  BY DEF Init, Pool!Init, WorkerSteps
<1>2. running = {w \in Workers : InProcess(w) \/ wpc[w] \in {"done", "elsewhere"}}
  BY DEF Init, Pool!Init, InProcess, At
<1>3. answers \in Seq(Requests \cup {Other}) /\ m_write_buf \in Seq(Requests \cup {Other})
  BY DEF Init
<1>4. /\ sent \in 0..MaxRequests /\ received \in 0..sent
      /\ m_read_idx \in 0..received /\ m_checked_idx \in 0..m_read_idx
  BY MaxRequestsAssumption DEF Init
<1>5. CopyInv
  BY ConnAssumption DEF Init, Pool!Init, CopyInv
<1> QED BY <1>1, <1>2, <1>3, <1>4, <1>5 DEF Init, TypeOK, Other

LEMMA TypeStep == TypeOK /\ CopyInv /\ [Next]_vars => TypeOK' /\ CopyInv'
<1> SUFFICES ASSUME TypeOK, CopyInv, [Next]_vars PROVE TypeOK' /\ CopyInv'
  OBVIOUS
<1> USE MaxRequestsAssumption, ConnAssumption
        DEF TypeOK, CopyInv, WorkerSteps, InProcess, At, Goto, Requests, Other, Kinds,
            handoff, request, client
<1>1. CASE UNCHANGED vars
  BY <1>1 DEF vars
<1>2. CASE Send
  BY <1>2 DEF Send
<1>3. CASE Close
  BY <1>3 DEF Close
<1>4. CASE ReadEventCb
  BY <1>4 DEF ReadEventCb, Pending, Processed
<1>5. CASE GetReadBuffer
  BY <1>5 DEF GetReadBuffer
<1>6. ASSUME NEW w \in Workers, Run(w) \/ OthersRun(w) PROVE TypeOK' /\ CopyInv'
  <2>1. PICK job \in {Conn, Another} : SetJob(w, job) /\ (job = Conn => Run(w))
    BY <1>6 DEF Run, OthersRun
  <2>2. /\ w \notin running /\ running' = running
        /\ slot' = [slot EXCEPT ![w] = job]
        /\ wpc' = [wpc EXCEPT ![w] = IF wpc[w] = "parked" THEN "test" ELSE wpc[w]]
    BY <2>1 DEF SetJob, Pool!Give
  <2>3. /\ wpc' \in [Workers -> WorkerSteps]
        /\ running' = {v \in Workers : (InProcess(v) \/ wpc[v] \in {"done", "elsewhere"})'}
    BY <2>2
  <2>4. lost' \subseteq 1..received'
    BY <1>6, <2>1 DEF SetJob, Run, OthersRun
  <2>5. CopyInv' /\ slot' \in [Workers -> {Conn, Another, NoJob}]
    BY <1>6, <2>1, <2>2 DEF Run, OthersRun
  <2> QED BY <1>6, <2>3, <2>4, <2>5 DEF Run, OthersRun
<1>7. CASE CloseEventCb
  BY <1>7 DEF CloseEventCb
<1>8. CASE DeleteConn
  BY <1>8 DEF DeleteConn
<1>9. ASSUME NEW w \in Workers, TestJob(w) PROVE TypeOK' /\ CopyInv'
  <2>1. CASE Goto(w, "wait") /\ UNCHANGED handoff
    BY <1>9, <2>1 DEF TestJob
  <2>2. ASSUME NEW s \in {"read", "elsewhere"}, Pool!Start(w), Goto(w, s)
        PROVE  TypeOK' /\ CopyInv'
    <3>1. /\ running' = running \cup {w} /\ wpc' = [wpc EXCEPT ![w] = s]
          /\ UNCHANGED <<slot, loop, conn, request, client, received, answers,
                         overlapped, lost, alive>>
      BY <1>9, <2>2 DEF TestJob, Pool!Start
    <3>2. /\ wpc' \in [Workers -> WorkerSteps]
          /\ running' = {v \in Workers : (InProcess(v) \/ wpc[v] \in {"done", "elsewhere"})'}
      BY <3>1
    <3> QED BY <3>1, <3>2
  <2> QED BY <1>9, <2>1, <2>2 DEF TestJob
<1>10. ASSUME NEW w \in Workers, WaitJob(w) PROVE TypeOK' /\ CopyInv'
  BY <1>10 DEF WaitJob
<1>11. ASSUME NEW w \in Workers, StartWorkerThread(w) \/ SpuriousWakeup(w) \/ UseGarbage(w)
       PROVE  TypeOK' /\ CopyInv'
  <2>1. /\ UNCHANGED <<handoff, loop, request, client, conn, received, answers,
                        overlapped, lost>>
        /\ alive' \in BOOLEAN
        /\ \/ wpc[w] \in {"new", "parked"} /\ Goto(w, "test")
           \/ wpc[w] = "write" /\ Goto(w, "garbage")
    BY <1>11 DEF StartWorkerThread, SpuriousWakeup, UseGarbage
  <2>2. /\ wpc' \in [Workers -> WorkerSteps]
        /\ running' = {v \in Workers : (InProcess(v) \/ wpc[v] \in {"done", "elsewhere"})'}
    BY <2>1
  <2> QED BY <2>1, <2>2
<1>12. ASSUME NEW w \in Workers, process(w) PROVE TypeOK' /\ CopyInv'
  <2>1. CASE Goto(w, "done") /\ UNCHANGED <<m_linger, m_write_buf>>
    BY <1>12, <2>1 DEF process
  <2>2. ASSUME NEW q \in Found, Compose(w, q) PROVE TypeOK' /\ CopyInv'
    <3>1. q \in Requests \cup {Other}
      BY <2>2 DEF Found
    <3>2. m_write_buf' \in Seq(Requests \cup {Other})
      BY <3>1, <2>2 DEF Compose
    <3>3. m_linger' \in BOOLEAN
      BY <2>2 DEF Compose
    <3>4. Goto(w, "write")
      BY <2>2 DEF Compose
    <3> QED BY <1>12, <3>2, <3>3, <3>4 DEF process
  <2>3. CASE UNCHANGED <<wpc, m_linger, m_write_buf>>
    <3>1. running' = {v \in Workers : (InProcess(v) \/ wpc[v] \in {"done", "elsewhere"})'}
      BY <1>12, <2>3 DEF process
    <3>2. alive' \in BOOLEAN
      BY <1>12 DEF process
    <3>3. m_checked_idx' \in 0..m_read_idx'
      BY <1>12 DEF process
    <3> QED BY <1>12, <2>3, <3>1, <3>2, <3>3 DEF process
  <2> QED BY <1>12, <2>1, <2>2, <2>3 DEF process
<1>13. ASSUME NEW w \in Workers, write(w) PROVE TypeOK' /\ CopyInv'
  BY <1>13 DEF write
<1>14. ASSUME NEW w \in Workers, init(w) PROVE TypeOK' /\ CopyInv'
  <2>1. m_write_buf' \in Seq(Requests \cup {Other})
    BY <1>14 DEF init
  <2>2. /\ Goto(w, "done")
        /\ UNCHANGED <<handoff, loop, conn, client, received, answers, overlapped, lost, alive>>
    BY <1>14 DEF init
  <2>3. m_read_buf' = Other /\ m_read_idx' = 0 /\ m_checked_idx' = 0 /\ m_linger' = FALSE
    BY <1>14 DEF init
  <2>4. At(w, "init")
    BY <1>14 DEF init
  <2>5. running' = {v \in Workers : (InProcess(v) \/ wpc[v] \in {"done", "elsewhere"})'}
    BY <2>2, <2>4
  <2>6. 0 \in 0..0 /\ 0 \in 0..received
    OBVIOUS
  <2> QED BY <2>1, <2>2, <2>3, <2>5, <2>6
<1>15. ASSUME NEW w \in Workers, Finish(w) PROVE TypeOK' /\ CopyInv'
  <2>1. /\ UNCHANGED <<loop, request, client, conn, received, answers, overlapped, lost, alive>>
        /\ Goto(w, "test") /\ running' = running \ {w}
        /\ slot' = [slot EXCEPT ![w] = NoJob]
    BY <1>15 DEF Finish, Pool!Finish
  <2>2. wpc' = [wpc EXCEPT ![w] = "test"] /\ wpc' \in [Workers -> WorkerSteps]
    BY <2>1
  <2>3. running' = {v \in Workers : (InProcess(v) \/ wpc[v] \in {"done", "elsewhere"})'}
    BY <2>1, <2>2
  <2>4. CopyInv' /\ slot' \in [Workers -> {Conn, Another, NoJob}]
    BY <2>1
  <2> QED BY <2>1, <2>2, <2>3, <2>4
<1>16. CASE Undefined
  BY <1>16 DEF Undefined
<1>17. CASE RunWaits \/ RunDrops
  <2>1. received \in Nat /\ loop \in {"run", "waits"} /\ received > 0
    BY <1>17 DEF RunWaits, RunDrops
  <2>2. received \in 1..received
    BY <2>1
  <2>3. /\ UNCHANGED <<handoff, wpc, conn, request, client, received, answers,
                        overlapped, alive>>
        /\ loop' \in {"waits", "dispatch"}
        /\ lost' = lost \/ lost' = lost \cup {received}
    BY <1>17 DEF RunWaits, RunDrops
  <2>4. lost' \subseteq 1..received'
    BY <2>2, <2>3
  <2> QED BY <2>1, <2>3, <2>4
<1> QED BY <1>1, <1>2, <1>3, <1>4, <1>5, <1>6, <1>7, <1>8, <1>9, <1>10, <1>11, <1>12,
           <1>13, <1>14, <1>15, <1>16, <1>17 DEF Next, LoopStep, WorkerStep

-----------------------------------------------------------------------------
(* Who has the connection.                                                 *)
LEMMA OverlapInit == Init => RunningInv /\ OverlapInv
BY ConnAssumption DEF Init, Pool!Init, RunningInv, OverlapInv, Active, InProcess, At

LEMMA OverlapStep ==
    ASSUME TypeOK, RunningInv, OverlapInv, [Next]_vars
    PROVE  RunningInv' /\ OverlapInv'
<1> USE ConnAssumption
        DEF TypeOK, RunningInv, OverlapInv, Active, InProcess, At, Goto, WorkerSteps,
            handoff, request, client
<1>1. CASE UNCHANGED <<handoff, wpc, loop, conn, overlapped>>
  BY <1>1
<1>2. CASE ReadEventCb
  <2>1. UNCHANGED <<handoff, wpc, conn>> /\ conn = "open" /\ loop' = "copy"
    BY <1>2 DEF ReadEventCb
  <2>2. ~overlapped' => ~Pending /\ ~Processed /\ ~overlapped
    BY <1>2 DEF ReadEventCb
  <2>3. ~overlapped' => \A w \in Workers : ~Active(w)
    BY <2>2, NoActiveIsNotPending
  <2> QED BY <2>1, <2>2, <2>3
<1>3. CASE GetReadBuffer
  BY <1>3 DEF GetReadBuffer
<1>4. ASSUME NEW w \in Workers, Run(w) \/ OthersRun(w) PROVE RunningInv' /\ OverlapInv'
  <2>1. PICK job \in {Conn, Another} : SetJob(w, job) /\ (job = Conn <=> Run(w))
    <3>1. Run(w) => loop # loop'
      BY DEF Run
    <3>2. OthersRun(w) => loop = loop'
      BY DEF OthersRun
    <3> QED BY <1>4, <3>1, <3>2 DEF Run, OthersRun
  <2>2. /\ w \notin running /\ running' = running
        /\ slot' = [slot EXCEPT ![w] = job]
        /\ \A v \in Workers : /\ InProcess(v)' <=> InProcess(v)
                              /\ wpc'[v] \in {"done", "elsewhere"}
                                    <=> wpc[v] \in {"done", "elsewhere"}
                              /\ wpc[v] \in {"done", "elsewhere"} => wpc'[v] = wpc[v]
    BY <2>1 DEF SetJob, Pool!Give
  <2>3. UNCHANGED <<conn, overlapped>> /\ (job = Another => UNCHANGED loop)
        /\ (job = Conn => loop \in {"run", "waits"} /\ loop' = "dispatch")
    BY <1>4, <2>1 DEF Run, OthersRun
  <2>4. ~InProcess(w) /\ wpc[w] \notin {"done", "elsewhere"}
    BY <2>2
  <2>5. RunningInv'
    BY <2>2, <2>4
  <2>6. \A v \in Workers : Active(v)' => Active(v) \/ (v = w /\ job = Conn)
    BY <2>2
  <2>7. \A v \in Workers : slot'[v] = Conn => slot[v] = Conn \/ job = Conn
    BY <2>2
  <2> HIDE DEF Active, InProcess, At, Goto, WorkerSteps, TypeOK, RunningInv
  <2> QED BY <2>3, <2>5, <2>6, <2>7
<1>5. CASE CloseEventCb
  <2>1. UNCHANGED <<handoff, wpc>> /\ loop' = "delete" /\ conn' = "freed"
    BY <1>5 DEF CloseEventCb
  <2>2. ~overlapped' => ~overlapped /\ \A w \in Workers : slot[w] # Conn
    BY <1>5 DEF CloseEventCb
  <2> QED BY <2>1, <2>2
<1>6. CASE DeleteConn
  BY <1>6 DEF DeleteConn
<1>7. ASSUME NEW w \in Workers, TestJob(w) PROVE RunningInv' /\ OverlapInv'
  BY <1>7 DEF TestJob, Pool!Start
<1>8. ASSUME NEW w \in Workers,
             WaitJob(w) \/ SpuriousWakeup(w) \/ StartWorkerThread(w) \/ UseGarbage(w)
      PROVE  RunningInv' /\ OverlapInv'
  BY <1>8 DEF WaitJob, SpuriousWakeup, StartWorkerThread, UseGarbage
<1>9. ASSUME NEW w \in Workers, process(w) PROVE RunningInv' /\ OverlapInv'
  <2>1. UNCHANGED <<handoff, loop, conn, overlapped>> /\ At(w, "read")
    BY <1>9 DEF process
  <2>2. wpc' = wpc \/ Goto(w, "done") \/ Goto(w, "write")
    BY <1>9 DEF process, Compose
  <2> QED BY <2>1, <2>2
<1>10. ASSUME NEW w \in Workers, write(w) PROVE RunningInv' /\ OverlapInv'
  <2>1. UNCHANGED <<handoff, loop, conn, overlapped>> /\ At(w, "write")
    BY <1>10 DEF write
  <2>2. Goto(w, "done") \/ Goto(w, "init")
    BY <1>10 DEF write
  <2> QED BY <2>1, <2>2
<1>11. ASSUME NEW w \in Workers, init(w) PROVE RunningInv' /\ OverlapInv'
  BY <1>11 DEF init
<1>12. ASSUME NEW w \in Workers, Finish(w) PROVE RunningInv' /\ OverlapInv'
  BY <1>12 DEF Finish, Pool!Finish
<1>13. CASE RunWaits \/ RunDrops
  BY <1>13 DEF RunWaits, RunDrops
<1> QED BY <1>1, <1>2, <1>3, <1>4, <1>5, <1>6, <1>7, <1>8, <1>9, <1>10, <1>11, <1>12, <1>13
        DEF Next, LoopStep, WorkerStep, Send, Close, Undefined, vars

(* The use of a deleted connection and a race need an overlap.             *)
LEMMA UndefinedOverlaps ==
    ASSUME TypeOK, RunningInv, OverlapInv, UsesDeleted \/ Races
    PROVE  overlapped
<1> SUFFICES ASSUME ~overlapped PROVE FALSE
  OBVIOUS
<1> USE DEF TypeOK, RunningInv, OverlapInv, Active
<1>1. CASE UsesDeleted
  BY <1>1 DEF UsesDeleted, At
<1>2. CASE loop = "copy" /\ \E w \in Workers : wpc[w] \in {"read", "init"}
  BY <1>2 DEF InProcess
<1>3. CASE Cardinality({w \in Workers : InProcess(w)}) > 1
  <2> DEFINE S == {w \in Workers : InProcess(w)}
  <2>1. \A v, w \in S : v = w
    <3> SUFFICES ASSUME NEW v \in S, NEW w \in S PROVE v = w
      OBVIOUS
    <3>1. v \in Workers /\ w \in Workers /\ InProcess(v) /\ InProcess(w)
      OBVIOUS
    <3> QED BY <3>1
  <2> HIDE DEF S
  <2>2. S = {} \/ \E w : S = {w}
    <3> SUFFICES ASSUME NEW w \in S PROVE S = {w}
      OBVIOUS
    <3> QED BY <2>1
  <2>3. Cardinality(S) \in {0, 1}
    BY <2>2, FS_EmptySet, FS_Singleton
  <2> QED BY <2>3, <1>3 DEF S
<1> QED BY <1>1, <1>2, <1>3 DEF Races

-----------------------------------------------------------------------------
(* The parser and the answers.                                             *)

LEMMA RequestInit == Init => RequestInv
<1> SUFFICES ASSUME Init PROVE RequestInv
  OBVIOUS
<1>1. AnsweredUpto(received)
  BY DEF Init, AnsweredUpto, Ascending, ToSet
<1> QED BY <1>1, ConnAssumption
        DEF Init, Pool!Init, RequestInv, Rest, Reset, Active, InProcess, At

(* What no step undoes.                                                    *)
LEMMA Monotone ==
    ASSUME TypeOK, Next, ~overlapped', KeptAliveBefore(received)'
    PROVE  ~overlapped /\ alive /\ KeptAliveBefore(received)
<1>1. ~overlapped /\ alive
  <2>1. CASE ReadEventCb
    BY <2>1 DEF ReadEventCb, Next
  <2>2. CASE CloseEventCb
    BY <2>2 DEF CloseEventCb, Next
  <2>3. CASE overlapped' = overlapped
    BY <2>3 DEF Next
  <2> QED BY <2>1, <2>2, <2>3
          DEF Next, Send, Close, LoopStep, WorkerStep, GetReadBuffer, Run, DeleteConn,
              TestJob, WaitJob, SpuriousWakeup, process, write, init, Finish, Undefined,
              RunWaits, RunDrops, OthersRun, StartWorkerThread, UseGarbage
<1>2. kind' = kind /\ received' \in {received, received + 1}
  BY DEF Next, Send, Close, LoopStep, WorkerStep, ReadEventCb, GetReadBuffer, Run, CloseEventCb,
         DeleteConn, TestJob, WaitJob, SpuriousWakeup, process, write, init, Finish, Undefined,
         RunWaits, RunDrops, OthersRun, StartWorkerThread, UseGarbage, client
<1>3. received \in Nat
  BY MaxRequestsAssumption DEF TypeOK
<1>4. \A p \in 1..(received - 1) : p \in 1..(received' - 1)
  <2>1. CASE received' = received
    BY <2>1
  <2>2. CASE received' = received + 1
    BY <2>2, <1>3
  <2> QED BY <2>1, <2>2, <1>2
<1>5. \A p \in 1..(received' - 1) : kind'[p] = "keep-alive"
  BY DEF KeptAliveBefore
<1>6. KeptAliveBefore(received)
  BY <1>2, <1>4, <1>5 DEF KeptAliveBefore
<1> QED BY <1>1, <1>6

(* The one active worker goes on to step s of process(), or leaves it.     *)
LEMMA WorkerMoves ==
    ASSUME TypeOK, NEW w \in Workers, NEW s \in {"write", "init", "done"},
           InProcess(w), Goto(w, s), UNCHANGED handoff,
           \A v \in Workers : v # w => ~Active(v)
    PROVE  /\ \A v \in Workers : ~(slot'[v] = Conn /\ v \notin running')
           /\ \A v \in Workers : wpc'[v] \in {"read", "write", "garbage", "init"} => v = w
           /\ wpc'[w] = s
<1>1. w \in running
  BY DEF TypeOK
<1>2. wpc' = [wpc EXCEPT ![w] = s] /\ wpc'[w] = s
  BY DEF Goto, TypeOK
<1>3. slot' = slot /\ running' = running
  BY DEF handoff
<1>4. \A v \in Workers : v # w => wpc'[v] = wpc[v]
  BY <1>2 DEF TypeOK
<1> QED BY <1>1, <1>2, <1>3, <1>4 DEF Active, InProcess

(* A job that was given is dropped or replaced before it was started: the  *)
(* parser is as before the piece, and nothing is owed for it.              *)
LEMMA LosingIsResting ==
    ASSUME TypeOK, Fresh, lost' = lost \cup {received},
           UNCHANGED <<request, kind, received, answers>>
    PROVE  Rest'
<1>1. received \in Nat
  BY MaxRequestsAssumption DEF TypeOK
<1>2. (1..(received - 1)) \ lost = (1..received) \ (lost \cup {received})
  BY <1>1
<1> QED BY <1>2 DEF Fresh, Rest, Reset, AnsweredUpto, request

LEMMA RequestStep ==
    ASSUME TypeOK, RunningInv, OverlapInv, RequestInv, [Next]_vars
    PROVE  RequestInv'
<1>1. CASE UNCHANGED vars
  BY <1>1 DEF vars, handoff, request, client, RequestInv, KeptAliveBefore, Rest, Reset,
              AnsweredUpto, Fresh, Composed, Written, Active, InProcess, At
<1> SUFFICES ASSUME Next, ~overlapped', alive', KeptAliveBefore(received)'
             PROVE  RequestInv'
  BY <1>1 DEF RequestInv
<1>2. ~overlapped /\ alive /\ KeptAliveBefore(received)
  BY Monotone
<1>3. received \in Nat /\ received \in 0..MaxRequests /\ kind \in [Requests -> Kinds]
      /\ lost \subseteq 1..received
  BY MaxRequestsAssumption DEF TypeOK
<1>4. /\ loop \notin {"run", "waits"} /\ (\A w \in Workers : ~Active(w)) => Rest
      /\ loop \in {"run", "waits"} => Fresh
      /\ \A w \in Workers :
            /\ (slot[w] = Conn /\ w \notin running) \/ At(w, "read") => Fresh
            /\ At(w, "write") => Composed
            /\ At(w, "init") => Written
  BY <1>2 DEF RequestInv
<1>5. \A v, w \in Workers : Active(v) /\ Active(w) => v = w
  BY <1>2 DEF OverlapInv
<1>6. loop \in {"copy", "run", "waits"} => \A w \in Workers : ~Active(w)
  BY <1>2 DEF OverlapInv
<1> USE DEF Active, InProcess, At, Goto, WorkerSteps, handoff, request, client
<1>7. CASE /\ UNCHANGED <<handoff, wpc, request, kind, received, answers, lost>>
           /\ loop' \in {"run", "waits"} <=> loop \in {"run", "waits"}
  BY <1>4, <1>7 DEF RequestInv,
     Rest, Reset, AnsweredUpto, Fresh, Composed, Written
<1>8. CASE GetReadBuffer
  <2>1. Rest
    BY <1>4, <1>6, <1>8 DEF GetReadBuffer
  <2>2. \A w \in Workers : ~Active(w)'
    BY <1>6, <1>8 DEF GetReadBuffer
  <2>3. received = 0 \/ kind[received] = "keep-alive"
    BY <1>3, <1>8 DEF GetReadBuffer, KeptAliveBefore
  <2>4. Fresh'
    <3>1. received' - 1 = received /\ received' > 0
      BY <1>3, <1>8 DEF GetReadBuffer
    <3>2. m_read_idx' > 0
      BY <1>8 DEF GetReadBuffer, TypeOK
    <3> QED BY <1>3, <1>8, <2>1, <2>3, <3>1, <3>2
            DEF GetReadBuffer, AnsweredUpto, Rest, Reset, Fresh
  <2> QED BY <1>8, <2>2, <2>4 DEF GetReadBuffer, RequestInv
<1>9. ASSUME NEW w \in Workers, Run(w) PROVE RequestInv'
  <2>1. Fresh /\ \A v \in Workers : ~Active(v)
    BY <1>4, <1>6, <1>9 DEF Run
  <2>2. /\ w \notin running /\ running' = running
        /\ slot' = [slot EXCEPT ![w] = Conn]
        /\ wpc' = [wpc EXCEPT ![w] = IF wpc[w] = "parked" THEN "test" ELSE wpc[w]]
        /\ loop' = "dispatch"
    BY <1>9 DEF Run, SetJob, Pool!Give
  <2>3. lost' = lost
    BY <1>9, <2>1, <2>2 DEF Run, SetJob
  <2>4. Fresh'
    BY <1>9, <2>1, <2>3 DEF Run, Fresh, Reset, AnsweredUpto
  <2>5. Active(w)'
    BY <2>2 DEF TypeOK
  <2>6. \A v \in Workers : ~InProcess(v)'
    BY <2>1, <2>2 DEF TypeOK
  <2> QED BY <2>2, <2>4, <2>5, <2>6 DEF RequestInv
<1>10. ASSUME NEW w \in Workers, OthersRun(w) PROVE RequestInv'
  <2>1. /\ w \notin running /\ running' = running
        /\ slot' = [slot EXCEPT ![w] = Another]
        /\ wpc' = [wpc EXCEPT ![w] = IF wpc[w] = "parked" THEN "test" ELSE wpc[w]]
        /\ UNCHANGED <<loop, request, kind, received, answers>>
    BY <1>10 DEF OthersRun, SetJob, Pool!Give
  <2>2. \A v \in Workers : /\ v # w => (Active(v)' <=> Active(v)) /\ wpc'[v] = wpc[v]
                           /\ v # w => slot'[v] = slot[v]
    BY <2>1 DEF TypeOK
  <2>3. ~Active(w)' /\ slot'[w] # Conn /\ wpc'[w] \notin {"read", "write", "init"}
    BY <2>1, ConnAssumption DEF TypeOK
  <2>4. CASE slot[w] = Conn
    <3>1. Active(w)
      BY <2>1, <2>4
    <3>2. Fresh /\ loop \notin {"run", "waits"} /\ \A v \in Workers : v # w => ~Active(v)
      BY <1>4, <1>5, <1>6, <2>1, <2>4, <3>1
    <3>3. Rest'
      BY <1>10, <2>1, <2>4, <3>2, LosingIsResting DEF OthersRun, SetJob
    <3> QED BY <2>1, <2>2, <2>3, <3>2, <3>3 DEF RequestInv
  <2>5. CASE slot[w] # Conn
    <3>1. lost' = lost
      BY <1>10, <2>5 DEF OthersRun, SetJob
    <3>2. ~Active(w)
      BY <2>1, <2>5 DEF TypeOK
    <3>3. /\ Rest => Rest'
          /\ Fresh => Fresh'
          /\ Composed => Composed'
          /\ Written => Written'
      BY <2>1, <3>1 DEF Rest, Reset, AnsweredUpto, Fresh, Composed, Written
    <3> HIDE DEF Active, InProcess
    <3> QED BY <1>4, <2>1, <2>2, <2>3, <3>2, <3>3 DEF RequestInv
  <2> QED BY <2>4, <2>5
<1>11. CASE RunDrops
  <2>1. Fresh /\ \A v \in Workers : ~Active(v)
    BY <1>4, <1>6, <1>11 DEF RunDrops
  <2>2. Rest'
    BY <1>11, <2>1, LosingIsResting DEF RunDrops
  <2>3. UNCHANGED <<handoff, wpc>> /\ loop' = "dispatch"
    BY <1>11 DEF RunDrops
  <2> QED BY <2>1, <2>2, <2>3 DEF RequestInv
<1>12. ASSUME NEW w \in Workers, TestJob(w) PROVE RequestInv'
  <2>1. UNCHANGED <<slot, loop, request, kind, received, answers, lost>>
    BY <1>12 DEF TestJob, Pool!Start
  <2>2. /\ Rest => Rest'
        /\ Fresh => Fresh'
        /\ Composed => Composed'
        /\ Written => Written'
    BY <2>1 DEF Rest, Reset, AnsweredUpto, Fresh, Composed, Written
  <2>3. CASE Pool!Start(w) /\ slot[w] = Conn /\ Goto(w, "read")
    BY <1>4, <1>5, <2>1, <2>2, <2>3 DEF Pool!Start, RequestInv, TypeOK
  <2>4. CASE Pool!Start(w) /\ slot[w] # Conn /\ Goto(w, "elsewhere")
    BY <1>4, <2>1, <2>2, <2>4 DEF Pool!Start, RequestInv, TypeOK
  <2>5. CASE Goto(w, "wait") /\ UNCHANGED handoff
    BY <1>4, <1>12, <2>1, <2>2, <2>5 DEF RequestInv, TypeOK, TestJob
  <2> QED BY <1>12, <2>3, <2>4, <2>5 DEF TestJob
<1>13. ASSUME NEW w \in Workers, WaitJob(w) \/ SpuriousWakeup(w) \/ StartWorkerThread(w)
       PROVE  RequestInv'
  <2>1. /\ UNCHANGED <<handoff, loop, request, kind, received, answers, lost>>
        /\ wpc[w] \in {"new", "wait", "parked"}
        /\ Goto(w, "test") \/ Goto(w, "parked")
    BY <1>13 DEF WaitJob, SpuriousWakeup, StartWorkerThread
  <2>2. /\ Rest => Rest'
        /\ Fresh => Fresh'
        /\ Composed => Composed'
        /\ Written => Written'
    BY <2>1 DEF Rest, Reset, AnsweredUpto, Fresh, Composed, Written
  <2> QED BY <1>4, <2>1, <2>2 DEF RequestInv, TypeOK
<1>14. ASSUME NEW w \in Workers, process(w) PROVE RequestInv'
  <2>1. Fresh /\ Active(w) /\ loop \notin {"run", "waits"} /\ loop' = loop
    BY <1>4, <1>6, <1>14 DEF process
  <2>2. Found = {received} /\ m_checked_idx = 0 /\ received \in Requests
    BY <2>1, <1>3 DEF Found, Requests, Fresh, Reset, TypeOK
  <2>3. PICK q \in Found : (q \in Requests => kind[q] # "empty") /\ Compose(w, q)
    <3>1. ~(Found = {} \/ m_checked_idx > 0)
      BY <2>2
    <3>2. alive' # FALSE
      OBVIOUS
    <3> HIDE DEF Goto, handoff, request, client
    <3> QED BY <3>1, <3>2, <1>14 DEF process
  <2>4. q = received /\ q # Other /\ q \in Requests
    BY <2>2, <2>3, <2>1, <1>3 DEF Other, Fresh
  <2>5. m_write_buf' = <<received>>
    BY <2>1, <2>3, <2>4 DEF Compose, Fresh, Reset
  <2>6. m_linger' = (kind[received] = "keep-alive")
    BY <2>1, <2>3, <2>4 DEF Compose, Fresh, Reset
  <2>7. UNCHANGED <<handoff, received, kind, answers, lost>>
    BY <1>14 DEF process
  <2>8. Composed'
    BY <2>1, <2>5, <2>6, <2>7 DEF Fresh, Composed, AnsweredUpto
  <2>9. wpc' = [wpc EXCEPT ![w] = "write"]
    BY <2>3 DEF Compose
  <2>10. \A v \in Workers : v # w => ~Active(v)
    BY <1>5, <2>1
  <2>11. /\ \A v \in Workers : ~(slot'[v] = Conn /\ v \notin running')
         /\ \A v \in Workers : wpc'[v] \in {"read", "write", "garbage", "init"} => v = w
         /\ wpc'[w] = "write"
    BY <1>14, <2>7, <2>9, <2>10, WorkerMoves DEF process
  <2>12. ~ \A v \in Workers : ~Active(v)'
    BY <2>11
  <2> QED BY <2>1, <2>8, <2>11, <2>12 DEF RequestInv
<1>15. ASSUME NEW w \in Workers, write(w) PROVE RequestInv'
  <2>1. Composed /\ Active(w) /\ loop \notin {"run", "waits"} /\ loop' = loop
    BY <1>4, <1>6, <1>15 DEF write
  <2>2. UNCHANGED <<handoff, request, received, kind, lost>>
    BY <1>15 DEF write
  <2>3. AnsweredUpto(received)'
    <3>1. answers' = answers \o <<received>>
      BY <1>15, <2>1 DEF write, Composed
    <3>2. /\ ToSet(answers) = (1..(received - 1)) \ lost
          /\ Ascending(answers) /\ received \notin lost /\ received > 0
      BY <2>1 DEF Composed, AnsweredUpto
    <3>3. answers \in Seq(Nat) /\ ToSet(answers) \subseteq 1..(received - 1)
      BY <3>2 DEF TypeOK, Requests, Other
    <3>4. Ascending(answers') /\ ToSet(answers') = ToSet(answers) \cup {received}
      BY <1>3, <3>1, <3>2, <3>3, OneMoreAnswer
    <3>5. ((1..(received - 1)) \ lost) \cup {received} = (1..received) \ lost
      BY <1>3, <3>2
    <3>6. ToSet(answers') = (1..received') \ lost'
      BY <2>2, <3>2, <3>4, <3>5
    <3>7. \A i, j \in DOMAIN answers' : i < j => answers'[i] < answers'[j]
      BY <3>4 DEF Ascending
    <3> QED BY <3>6, <3>7 DEF AnsweredUpto, Ascending
  <2>4. \A v \in Workers : v # w => ~Active(v)
    BY <1>5, <2>1
  <2>5. CASE m_linger
    <3>1. Goto(w, "init")
      BY <1>15, <2>5 DEF write
    <3>2. Written'
      BY <2>1, <2>2, <2>3, <2>5 DEF Written, Composed
    <3>3. /\ \A v \in Workers : ~(slot'[v] = Conn /\ v \notin running')
          /\ \A v \in Workers : wpc'[v] \in {"read", "write", "garbage", "init"} => v = w
          /\ wpc'[w] = "init"
      BY <1>15, <2>2, <2>4, <3>1, WorkerMoves DEF write
    <3>4. ~ \A v \in Workers : ~Active(v)'
      BY <3>3
    <3> QED BY <2>1, <3>2, <3>3, <3>4 DEF RequestInv
  <2>6. CASE ~m_linger
    <3>1. Goto(w, "done")
      BY <1>15, <2>6 DEF write
    <3>2. kind[received] # "keep-alive" /\ received > 0
      BY <2>1, <2>6 DEF Composed
    <3>3. Rest'
      BY <1>3, <2>2, <2>3, <3>2 DEF Rest
    <3>4. /\ \A v \in Workers : ~(slot'[v] = Conn /\ v \notin running')
          /\ \A v \in Workers : wpc'[v] \in {"read", "write", "garbage", "init"} => v = w
          /\ wpc'[w] = "done"
      BY <1>15, <2>2, <2>4, <3>1, WorkerMoves DEF write
    <3> QED BY <2>1, <3>3, <3>4 DEF RequestInv
  <2> QED BY <2>5, <2>6 DEF TypeOK
<1>16. ASSUME NEW w \in Workers, init(w) PROVE RequestInv'
  <2>1. Written /\ Active(w) /\ loop \notin {"run", "waits"} /\ loop' = loop
    BY <1>4, <1>6, <1>16 DEF init
  <2>2. \A v \in Workers : v # w => ~Active(v)
    BY <1>5, <2>1
  <2>3. Rest'
    BY <1>16, <2>1 DEF init, Rest, Reset, Written, AnsweredUpto
  <2>4. UNCHANGED handoff /\ Goto(w, "done")
    BY <1>16 DEF init
  <2>5. /\ \A v \in Workers : ~(slot'[v] = Conn /\ v \notin running')
        /\ \A v \in Workers : wpc'[v] \in {"read", "write", "garbage", "init"} => v = w
        /\ wpc'[w] = "done"
    BY <1>16, <2>2, <2>4, WorkerMoves DEF init
  <2> QED BY <2>1, <2>3, <2>5 DEF RequestInv
<1>17. ASSUME NEW w \in Workers, Finish(w) PROVE RequestInv'
  <2>1. /\ UNCHANGED <<loop, request, kind, received, answers, lost>>
        /\ wpc[w] \in {"done", "elsewhere"} /\ Goto(w, "test")
        /\ running' = running \ {w} /\ slot' = [slot EXCEPT ![w] = NoJob]
    BY <1>17 DEF Finish, Pool!Finish
  <2>2. /\ Rest => Rest'
        /\ Fresh => Fresh'
        /\ Composed => Composed'
        /\ Written => Written'
    BY <2>1 DEF Rest, Reset, AnsweredUpto, Fresh, Composed, Written
  <2> QED BY <1>4, <2>1, <2>2, ConnAssumption DEF RequestInv, TypeOK
<1>18. CASE RunWaits
  BY <1>4, <1>18 DEF RunWaits, RequestInv, Rest, Reset, AnsweredUpto, Fresh, Composed, Written
<1>19. ASSUME NEW w \in Workers, UseGarbage(w) PROVE RequestInv'
  BY <1>19 DEF UseGarbage
<1> QED BY <1>7, <1>8, <1>9, <1>10, <1>11, <1>12, <1>13, <1>14, <1>15, <1>16, <1>17, <1>18, <1>19
        DEF Next, LoopStep, WorkerStep, Send, Close, ReadEventCb, CloseEventCb, DeleteConn,
            Undefined

-----------------------------------------------------------------------------
(* The property itself.                                                    *)
LEMMA UndefinedStep ==
    ASSUME TypeOK, RunningInv, OverlapInv, RequestInv, UndefinedNeedsOverlap, [Next]_vars
    PROVE  UndefinedNeedsOverlap'
<1>1. CASE UNCHANGED vars
  BY <1>1 DEF vars, request, client, UndefinedNeedsOverlap, KeptAliveBefore, At
<1> SUFFICES ASSUME Next, ~alive', ~overlapped', KeptAliveBefore(received)'
             PROVE  \/ received' > 0 /\ kind'[received'] = "empty"
                    \/ \E w \in Workers : At(w, "garbage")'
  BY <1>1 DEF UndefinedNeedsOverlap
<1>2. alive /\ ~overlapped /\ KeptAliveBefore(received)
  BY Monotone
<1>3. ~Undefined
  <2> SUFFICES ASSUME Undefined PROVE FALSE
    OBVIOUS
  <2> QED BY <1>2, UndefinedOverlaps DEF Undefined
<1>4. PICK w \in Workers : process(w) \/ UseGarbage(w)
  BY <1>2, <1>3 DEF Next, Send, Close, LoopStep, WorkerStep, ReadEventCb, GetReadBuffer,
     Run, RunWaits, RunDrops, OthersRun, StartWorkerThread, CloseEventCb, DeleteConn, TestJob,
     WaitJob, SpuriousWakeup, write, init, Finish
<1>5. CASE process(w)
  <2>1. Fresh
    BY <1>2, <1>5 DEF process, RequestInv
  <2>2. received \in Requests /\ Found = {received} /\ m_checked_idx = 0
    BY <2>1, MaxRequestsAssumption DEF Fresh, Reset, Found, TypeOK, Requests
  <2>3. \E q \in Found : q \in Requests => kind[q] = "empty"
    <3>1. ~(Found = {} \/ m_checked_idx > 0)
      BY <2>2
    <3>2. ~UNCHANGED alive
      BY <1>2
    <3> QED BY <1>5, <3>1, <3>2 DEF process
  <2>4. received' = received /\ kind' = kind
    BY <1>5 DEF process, client
  <2> QED BY <2>1, <2>2, <2>3, <2>4 DEF Fresh
<1>6. CASE UseGarbage(w)
  BY <1>6 DEF UseGarbage, Goto, At, TypeOK
<1> QED BY <1>4, <1>5, <1>6

-----------------------------------------------------------------------------
(* The theorems.                                                           *)

(* The invariant holds: the parser and the answers are what the step of    *)
(* the one active worker says, as long as nothing overlapped.              *)
THEOREM ConnInvariant == Spec => []ConnInv
<1>1. Init => ConnInv
  BY TypeInit, OverlapInit, RequestInit DEF Init, ConnInv, UndefinedNeedsOverlap
<1>2. ConnInv /\ [Next]_vars => ConnInv'
  BY TypeStep, OverlapStep, RequestStep, UndefinedStep DEF ConnInv
<1> QED BY <1>1, <1>2, PTL DEF Spec

(* The type invariant of ConnLifecycle.                                    *)
THEOREM ConnTypes == Spec => []TypeOK
<1>1. ConnInv => TypeOK
  BY DEF ConnInv
<1> QED BY <1>1, ConnInvariant, PTL

(* A deleted connection is used, or one parser by two threads, only if the *)
(* event loop handled a piece or a close while a job for the connection    *)
(* was not done, or an empty file was asked for, or a request was sent     *)
(* after one that leaves the parser as it is.  What else may be undefined  *)
(* is what serving any file uses, and nobody set.                          *)
THEOREM UndefinedOnlyByOverlap == Spec => []UndefinedNeedsOverlap
<1>1. ConnInv => UndefinedNeedsOverlap
  BY DEF ConnInv
<1> QED BY <1>1, ConnInvariant, PTL

(* Without such an overlap the requests are answered once and in order,    *)
(* whatever happens to the jobs in the pool: what is missing in the end    *)
(* are those whose job was dropped or replaced, and nothing else.          *)
THEOREM SequentialAnswers == Spec => []SequentialRequestsAreAnswered
<1>1. ConnInv => SequentialRequestsAreAnswered
  <2> SUFFICES ASSUME ConnInv, alive, ~overlapped, KeptAliveBefore(received),
                      loop \in {"dispatch", "delete"}, ~Pending, ~Processed
               PROVE  AnsweredUpto(received)
    BY DEF SequentialRequestsAreAnswered, AnsweredUpto, Ascending
  <2> QED BY NoActiveIsNotPending DEF ConnInv, RequestInv, Rest
<1> QED BY <1>1, ConnInvariant, PTL
=============================================================================
