----------------------------- MODULE JobHandoff -----------------------------
(***************************************************************************)
(* What CThreadPool::Run and CWorkerThread::Run promise each other: every  *)
(* worker thread has one job slot (CWorkerThread::m_Job).  A job is given  *)
(* to a worker, the worker starts it, finishes it and is free again.  A    *)
(* job that is being executed is never replaced under the worker's feet.   *)
(*                                                                         *)
(* Exclusive selects how strong the promise is.  When it is TRUE a job is  *)
(* only given to a worker whose slot is empty, so no job is ever lost by   *)
(* being overwritten; when it is FALSE a job that has been given but not   *)
(* yet started may be replaced by another one.                             *)
(***************************************************************************)
CONSTANTS Workers, Jobs, NoJob, Exclusive

VARIABLES
    slot,     (* the job each worker holds, or NoJob              *)
    running   (* the workers that are executing the job they hold *)

vars == <<slot, running>>

Init ==
    /\ slot = [w \in Workers |-> NoJob]
    /\ running = {}

(* A job is put in the slot of a worker that is not executing one. *)
Give(w, j) ==
    /\ w \notin running
    /\ Exclusive => slot[w] = NoJob
    /\ slot' = [slot EXCEPT ![w] = j]
    /\ UNCHANGED running

(* The worker starts the job it holds. *)
Start(w) ==
    /\ w \notin running
    /\ slot[w] # NoJob
    /\ running' = running \cup {w}
    /\ UNCHANGED slot

(* The worker is done with its job and gives its slot back. *)
Finish(w) ==
    /\ w \in running
    /\ running' = running \ {w}
    /\ slot' = [slot EXCEPT ![w] = NoJob]

Next ==
    \/ \E w \in Workers, j \in Jobs : Give(w, j)
    \/ \E w \in Workers : Start(w)
    \/ \E w \in Workers : Finish(w)

Spec == Init /\ [][Next]_vars
=============================================================================
