--------------------------- MODULE MysqlStatement ---------------------------
(***************************************************************************)
(* Statements on a MySQL connection: CMysqlPool::SetSQLsock and HandleSQL  *)
(* with MysqlCPP::Mysql_HandleSQL (mysql_cpp.cpp), called by one thread.   *)
(*                                                                         *)
(* The server is external.  A statement it answers has one or more         *)
(* results; of a result the model keeps its first row, a function from     *)
(* columns to values, since only that row can reach m_MapRes.  A result    *)
(* that is NoRow has no row or no columns, and the connection may break    *)
(* before any of the results.  The connection reconnects by itself, so     *)
(* each call finds it usable or not.                                       *)
(***************************************************************************)
EXTENDS Integers, Sequences, SequencesExt

CONSTANTS
    Columns, Values,
    NoRow,
    Answers,        (* the sequences of results a statement may have        *)
    MaxCalls        (* bound: calls of HandleSQL                            *)

Rows == UNION {[C -> Values] : C \in (SUBSET Columns) \ {{}}}
EmptyMap == [c \in {} |-> NoRow]

ASSUME AnswersAssumption ==
    \A a \in Answers : a \in Seq(Rows \cup {NoRow}) /\ a # <<>>
ASSUME MaxCallsAssumption == MaxCalls \in Nat

VARIABLES
    pc,             (* where the caller is                                  *)
    m_MapRes,       (* column -> value, of the columns that have one        *)
    pending,        (* results of the connection that were not stored       *)
    calls,
    done, lost,     (* of this call: how often the server executed the      *)
                    (* statement, and how often it did so in vain           *)
    outcome,        (* of the last call: "returned", "thrown"               *)
    reached,        (* of this call: no ping failed                         *)
    returned        (* history: the rows stored since SetSQLsock            *)

call == <<calls, done, lost, reached>>
vars == <<pc, m_MapRes, pending, call, outcome, returned>>

Init ==
    /\ pc = "rest"
    /\ m_MapRes = EmptyMap
    /\ pending = <<>>
    /\ calls = 0 /\ done = 0 /\ lost = 0
    /\ outcome = "returned"
    /\ reached = FALSE
    /\ returned = <<>>

(* A new MysqlCPP for a connection; the one before is not deleted.         *)
SetSQLsock ==
    /\ pc = "rest"
    /\ m_MapRes' = EmptyMap
    /\ returned' = <<>>
    /\ UNCHANGED <<pc, pending, call, outcome>>

(* HandleSQL keeps the values of the statements before.                    *)
HandleSQL ==
    /\ pc = "rest"
    /\ calls < MaxCalls
    /\ calls' = calls + 1
    /\ done' = 0 /\ lost' = 0 /\ reached' = TRUE
    /\ pc' = "query"
    /\ UNCHANGED <<m_MapRes, pending, outcome, returned>>

-----------------------------------------------------------------------------
(* mysql_query.  While results are pending every statement is refused.     *)

Answered ==
    /\ pending = <<>>
    /\ pending' \in Answers
    /\ done' = done + 1
    /\ UNCHANGED lost

NotAnswered ==
    \/ pending = <<>> /\ done' = done + 1 /\ lost' = lost + 1 /\ UNCHANGED pending
    \/ UNCHANGED <<done, lost, pending>>

(* The first attempt.                                                      *)
Query ==
    /\ pc = "query"
    /\ \/ Answered /\ pc' = "store"
       \/ NotAnswered /\ pc' = "ping"
    /\ UNCHANGED <<m_MapRes, calls, reached, outcome, returned>>

(* mysql_ping.  When it fails the call goes on as if there was a result.   *)
Ping ==
    /\ pc = "ping"
    /\ \/ pc' = "retry" /\ UNCHANGED <<reached, pending>>
       \/ pc' = "store" /\ reached' = FALSE /\ pending' = <<>>
    /\ UNCHANGED <<m_MapRes, calls, done, lost, outcome, returned>>

(* Mutant: the statement is tried until it succeeds.                       *)
Retry_Again ==
    /\ pc = "retry"
    /\ \/ Answered /\ pc' = "store" /\ UNCHANGED outcome
       \/ NotAnswered /\ lost < 2 /\ pc' = "ping" /\ UNCHANGED outcome
    /\ UNCHANGED <<m_MapRes, calls, reached, returned>>

(* The second attempt is the last one.                                     *)
Retry ==
    /\ pc = "retry"
    /\ \/ Answered /\ pc' = "store" /\ UNCHANGED outcome
       \/ NotAnswered /\ pc' = "rest" /\ outcome' = "thrown"
    /\ UNCHANGED <<m_MapRes, calls, reached, returned>>

-----------------------------------------------------------------------------
(* The loop over the results.                                              *)

(* map::insert keeps a value that is there.  (Mutant: it is replaced.)     *)
insert_Replaces(map, row) ==
    [c \in DOMAIN map \cup DOMAIN row |-> IF c \in DOMAIN row THEN row[c] ELSE map[c]]

insert(map, row) ==
    [c \in DOMAIN map \cup DOMAIN row |-> IF c \in DOMAIN map THEN map[c] ELSE row[c]]

(* mysql_store_result, the rows and mysql_free_result.  The connection may *)
(* break, and the results are gone.                                        *)
StoreResult ==
    /\ pc = "store"
    /\ pc' = "next"
    /\ \/ /\ pending # <<>>
          /\ pending' = Tail(pending)
          /\ IF Head(pending) = NoRow
             THEN UNCHANGED <<m_MapRes, returned>>
             ELSE /\ m_MapRes' = insert(m_MapRes, Head(pending))
                  /\ returned' = Append(returned, Head(pending))
       \/ /\ pending' = <<>>
          /\ UNCHANGED <<m_MapRes, returned>>
    /\ UNCHANGED <<call, outcome>>

(* Mutant: only one result is stored.                                      *)
NextResult_Ends ==
    /\ pc = "next"
    /\ pc' = "rest"
    /\ outcome' = "returned"
    /\ UNCHANGED <<m_MapRes, pending, call, returned>>

(* mysql_next_result.                                                      *)
NextResult ==
    /\ pc = "next"
    /\ \/ pending # <<>> /\ pc' = "store" /\ UNCHANGED outcome
       \/ pending = <<>> /\ pc' = "rest" /\ outcome' = "returned"
    /\ UNCHANGED <<m_MapRes, pending, call, returned>>

Next ==
    \/ SetSQLsock \/ HandleSQL
    \/ Query \/ Ping \/ Retry
    \/ StoreResult \/ NextResult

Spec == Init /\ [][Next]_vars

-----------------------------------------------------------------------------
(* Properties.                                                             *)

(* The types, and what a call has done at each of its steps.               *)
TypeOK ==
    /\ pc \in {"rest", "query", "ping", "retry", "store", "next"}
    /\ m_MapRes \in Rows \cup {EmptyMap}
    /\ pending \in Seq(Rows \cup {NoRow})
    /\ calls \in 0..MaxCalls
    /\ done \in 0..2 /\ lost \in 0..done
    /\ outcome \in {"returned", "thrown"}
    /\ reached \in BOOLEAN
    /\ returned \in Seq(Rows)

(* m_MapRes holds, for every column, the first value that any statement    *)
(* since SetSQLsock gave for it: what a later statement gives for the same *)
(* column is not seen.                                                     *)
FirstValueIsKept ==
    /\ \A c \in DOMAIN m_MapRes :
          \E i \in DOMAIN returned :
             /\ c \in DOMAIN returned[i] /\ m_MapRes[c] = returned[i][c]
             /\ \A j \in 1..(i - 1) : c \notin DOMAIN returned[j]
    /\ \A i \in DOMAIN returned : DOMAIN returned[i] \subseteq DOMAIN m_MapRes

(* When a call is over nothing of it is left on the connection, which      *)
(* would refuse the next statement, and the statement was executed once    *)
(* more than its answers were lost if the call returned, no more often     *)
(* than that if it threw, and no ping failed.                              *)
CallIsSettled ==
    pc = "rest" =>
        /\ pending = <<>>
        /\ reached => done = lost + (IF outcome = "returned" THEN 1 ELSE 0)
=============================================================================
