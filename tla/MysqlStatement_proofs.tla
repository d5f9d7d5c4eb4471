----------------------- MODULE MysqlStatement_proofs -----------------------
(***************************************************************************)
(* Proofs about MysqlStatement, for any columns, values, answers of the    *)
(* server and number of calls.                                             *)
(***************************************************************************)
EXTENDS MysqlStatement, SequenceTheorems, TLAPS

-----------------------------------------------------------------------------
(* The inductive invariant.                                                *)

(* What a call did to the connection and the server at each of its steps.  *)
CallInv ==
    /\ pc \in {"rest", "query", "ping", "retry"} => pending = <<>>
    /\ pc = "query" => reached /\ done = 0 /\ lost = 0
    /\ pc \in {"ping", "retry"} => reached /\ done = lost /\ done <= 1
    /\ pc \in {"store", "next"} => (reached => done = lost + 1)
    /\ pc = "rest" => (reached => IF outcome = "returned" THEN done = lost + 1 ELSE done = lost)

StatementInv == TypeOK /\ CallInv /\ FirstValueIsKept

-----------------------------------------------------------------------------
(* The results.                                                            *)

(* What mysql_store_result takes is a result, and the rest are results.    *)
LEMMA FirstResult ==
    ASSUME NEW S, NEW s \in Seq(S), s # <<>>
    PROVE  Head(s) \in S /\ Tail(s) \in Seq(S)
OBVIOUS

(* insert adds the columns of the row and changes none that is there.      *)
LEMMA InsertKeeps ==
    ASSUME NEW map \in Rows \cup {EmptyMap}, NEW row \in Rows
    PROVE  /\ insert(map, row) \in Rows
           /\ DOMAIN insert(map, row) = DOMAIN map \cup DOMAIN row
           /\ \A c \in DOMAIN map : insert(map, row)[c] = map[c]
           /\ \A c \in DOMAIN row \ DOMAIN map : insert(map, row)[c] = row[c]
<1> DEFINE new == insert(map, row)
<1>1. /\ DOMAIN new = DOMAIN map \cup DOMAIN row
      /\ \A c \in DOMAIN map : new[c] = map[c]
      /\ \A c \in DOMAIN row \ DOMAIN map : new[c] = row[c]
  BY DEF insert
<1>2. PICK R \in (SUBSET Columns) \ {{}} : row \in [R -> Values]
  BY DEF Rows
<1>3. PICK M \in SUBSET Columns : map \in [M -> Values]
  <2>1. CASE map \in Rows
    BY <2>1 DEF Rows
  <2>2. EmptyMap \in [{} -> Values]
    BY DEF EmptyMap
  <2> QED BY <2>1, <2>2
<1>4. new \in [M \cup R -> Values]
  BY <1>2, <1>3 DEF insert
<1>5. M \cup R \in (SUBSET Columns) \ {{}}
  BY <1>2, <1>3
<1>6. new \in Rows
  BY <1>4, <1>5 DEF Rows
<1> QED BY <1>1, <1>6

-----------------------------------------------------------------------------
(* The steps.                                                              *)

(* Initially nothing was called and nothing returned.                      *)
LEMMA StatementInit == Init => StatementInv
<1> SUFFICES ASSUME Init PROVE StatementInv
  OBVIOUS
<1>1. <<>> \in Seq(Rows \cup {NoRow}) /\ <<>> \in Seq(Rows) /\ DOMAIN <<>> = {}
  OBVIOUS
<1>2. TypeOK
  <2>1. calls \in 0..MaxCalls /\ done \in 0..2 /\ lost \in 0..done
    BY MaxCallsAssumption DEF Init
  <2> QED BY <1>1, <2>1 DEF Init, TypeOK
<1>3. CallInv
  BY DEF Init, CallInv
<1>4. FirstValueIsKept
  BY <1>1 DEF Init, FirstValueIsKept, EmptyMap
<1> QED BY <1>2, <1>3, <1>4 DEF StatementInv

(* The types and the call.                                                 *)
LEMMA CallStep == TypeOK /\ CallInv /\ [Next]_vars => TypeOK' /\ CallInv'
<1> SUFFICES ASSUME TypeOK, CallInv, [Next]_vars PROVE TypeOK' /\ CallInv'
  OBVIOUS
<1> USE MaxCallsAssumption DEF TypeOK, CallInv, call
<1>1. CASE UNCHANGED vars
  BY <1>1 DEF vars
<1>2. CASE SetSQLsock
  BY <1>2 DEF SetSQLsock
<1>3. CASE HandleSQL
  BY <1>3 DEF HandleSQL
<1>4. CASE Query
  <2>1. CASE Answered /\ pc' = "store"
    BY <1>4, <2>1, AnswersAssumption DEF Query, Answered
  <2>2. CASE NotAnswered /\ pc' = "ping"
    <3>1. pending = <<>> /\ pending' = <<>> /\ reached
      BY <1>4, <2>2 DEF Query, NotAnswered
    <3>2. done' = lost' /\ done' \in {done, done + 1} /\ done = lost
      BY <1>4, <2>2 DEF Query, NotAnswered
    <3> QED BY <1>4, <2>2, <3>1, <3>2 DEF Query
  <2> QED BY <1>4, <2>1, <2>2 DEF Query
<1>5. CASE Ping
  BY <1>5 DEF Ping
<1>6. CASE Retry
  <2>1. CASE Answered /\ pc' = "store" /\ UNCHANGED outcome
    BY <1>6, <2>1, AnswersAssumption DEF Retry, Answered
  <2>2. CASE NotAnswered /\ pc' = "rest" /\ outcome' = "thrown"
    <3>1. pending = <<>> /\ pending' = <<>> /\ reached
      BY <1>6, <2>2 DEF Retry, NotAnswered
    <3>2. done' = lost' /\ done' \in {done, done + 1} /\ done = lost
      BY <1>6, <2>2 DEF Retry, NotAnswered
    <3>3. pc = "retry" /\ done \in 0..1 /\ UNCHANGED <<m_MapRes, calls, reached, returned>>
      BY <1>6 DEF Retry
    <3>4. CallInv'
      <4>1. pc' = "rest" /\ pending' = <<>> /\ done' = lost' /\ outcome' # "returned"
        BY <2>2, <3>1, <3>2
      <4> QED BY <4>1
    <3>5. TypeOK'
      BY <2>2, <3>1, <3>2, <3>3
    <3> QED BY <3>4, <3>5
  <2> QED BY <1>6, <2>1, <2>2 DEF Retry
<1>7. CASE StoreResult
  <2>1. pending # <<>> => /\ Head(pending) \in Rows \cup {NoRow}
                          /\ Tail(pending) \in Seq(Rows \cup {NoRow})
    BY FirstResult
  <2>2. /\ pending' \in Seq(Rows \cup {NoRow})
        /\ m_MapRes' \in Rows \cup {EmptyMap} /\ returned' \in Seq(Rows)
    <3>1. CASE pending # <<>> /\ pending' = Tail(pending) /\ Head(pending) = NoRow
      BY <1>7, <2>1, <3>1 DEF StoreResult
    <3>2. CASE pending # <<>> /\ pending' = Tail(pending) /\ Head(pending) # NoRow
               /\ m_MapRes' = insert(m_MapRes, Head(pending))
               /\ returned' = Append(returned, Head(pending))
      <4>1. Head(pending) \in Rows
        BY <2>1, <3>2
      <4>2. insert(m_MapRes, Head(pending)) \in Rows
        BY <4>1, InsertKeeps
      <4> QED BY <2>1, <3>2, <4>1, <4>2
    <3>3. CASE pending' = <<>> /\ UNCHANGED <<m_MapRes, returned>>
      BY <3>3
    <3> QED BY <1>7, <3>1, <3>2, <3>3 DEF StoreResult
  <2> QED BY <1>7, <2>2 DEF StoreResult
<1>8. CASE NextResult
  BY <1>8 DEF NextResult
<1> QED BY <1>1, <1>2, <1>3, <1>4, <1>5, <1>6, <1>7, <1>8 DEF Next

(* The values.                                                             *)
LEMMA ValuesStep == TypeOK /\ FirstValueIsKept /\ [Next]_vars => FirstValueIsKept'
<1> SUFFICES ASSUME TypeOK, FirstValueIsKept, [Next]_vars PROVE FirstValueIsKept'
  OBVIOUS
<1>1. CASE UNCHANGED <<m_MapRes, returned>>
  BY <1>1 DEF FirstValueIsKept
<1>2. CASE SetSQLsock
  BY <1>2 DEF SetSQLsock, FirstValueIsKept, EmptyMap
<1>3. ASSUME NEW row \in Rows, m_MapRes' = insert(m_MapRes, row), returned' = Append(returned, row)
      PROVE  FirstValueIsKept'
  <2> DEFINE n == Len(returned)
  <2>1. /\ n \in Nat /\ DOMAIN returned = 1..n /\ DOMAIN returned' = 1..(n + 1)
        /\ returned'[n + 1] = row /\ \A i \in 1..n : returned'[i] = returned[i]
    BY <1>3 DEF TypeOK
  <2>2. /\ DOMAIN m_MapRes' = DOMAIN m_MapRes \cup DOMAIN row
        /\ \A c \in DOMAIN m_MapRes : m_MapRes'[c] = m_MapRes[c]
        /\ \A c \in DOMAIN row \ DOMAIN m_MapRes : m_MapRes'[c] = row[c]
    BY <1>3, InsertKeeps DEF TypeOK
  <2>3. ASSUME NEW c \in DOMAIN m_MapRes'
        PROVE  \E i \in DOMAIN returned' :
                  /\ c \in DOMAIN returned'[i] /\ m_MapRes'[c] = returned'[i][c]
                  /\ \A j \in 1..(i - 1) : c \notin DOMAIN returned'[j]
    <3>1. CASE c \in DOMAIN m_MapRes
      <4>1. PICK i \in 1..n :
                /\ c \in DOMAIN returned[i] /\ m_MapRes[c] = returned[i][c]
                /\ \A j \in 1..(i - 1) : c \notin DOMAIN returned[j]
        BY <2>1, <3>1 DEF FirstValueIsKept
      <4>2. i \in 1..(n + 1) /\ \A j \in 1..(i - 1) : j \in 1..n
        BY <2>1
      <4> QED BY <2>1, <2>2, <3>1, <4>1, <4>2
    <3>2. CASE c \notin DOMAIN m_MapRes
      <4>1. \A j \in 1..n : c \notin DOMAIN returned'[j]
        BY <2>1, <3>2 DEF FirstValueIsKept
      <4>2. n + 1 \in 1..(n + 1) /\ (n + 1) - 1 = n
        BY <2>1
      <4>3. c \in DOMAIN row /\ m_MapRes'[c] = returned'[n + 1][c]
        BY <2>1, <2>2, <3>2
      <4> QED BY <2>1, <4>1, <4>2, <4>3
    <3> QED BY <3>1, <3>2
  <2>4. \A i \in 1..(n + 1) : DOMAIN returned'[i] \subseteq DOMAIN m_MapRes'
    <3>1. \A i \in 1..n : DOMAIN returned'[i] \subseteq DOMAIN m_MapRes'
      BY <2>1, <2>2 DEF FirstValueIsKept
    <3>2. \A i \in 1..(n + 1) : i \in 1..n \/ i = n + 1
      BY <2>1
    <3> QED BY <2>1, <2>2, <3>1, <3>2
  <2> QED BY <2>1, <2>3, <2>4 DEF FirstValueIsKept
<1>4. CASE StoreResult
  <2>1. pending # <<>> => Head(pending) \in Rows \cup {NoRow}
    BY FirstResult DEF TypeOK
  <2> QED BY <1>1, <1>3, <1>4, <2>1 DEF StoreResult
<1> QED BY <1>1, <1>2, <1>4
        DEF Next, HandleSQL, Query, Ping, Retry, NextResult, vars

-----------------------------------------------------------------------------
(* The theorems.                                                           *)

(* The invariant of a call and of the values.                              *)
THEOREM StatementInvariant == Spec => []StatementInv
<1>1. StatementInv /\ [Next]_vars => StatementInv'
  BY CallStep, ValuesStep DEF StatementInv
<1> QED BY <1>1, StatementInit, PTL DEF Spec

(* The type invariant of MysqlStatement: a statement is executed twice at  *)
(* most.                                                                   *)
THEOREM StatementTypes == Spec => []TypeOK
<1>1. StatementInv => TypeOK
  BY DEF StatementInv
<1> QED BY <1>1, StatementInvariant, PTL

(* m_MapRes has the first value of every column, whatever the statements   *)
(* and their results are.                                                  *)
THEOREM FirstValuesAreKept == Spec => []FirstValueIsKept
<1>1. StatementInv => FirstValueIsKept
  BY DEF StatementInv
<1> QED BY <1>1, StatementInvariant, PTL

(* A call leaves no result on the connection, and the server executed the  *)
(* statement as often as the outcome says.                                 *)
THEOREM CallsAreSettled == Spec => []CallIsSettled
<1>1. StatementInv => CallIsSettled
  <2> SUFFICES ASSUME StatementInv, pc = "rest"
               PROVE  /\ pending = <<>>
                      /\ reached => done = lost + (IF outcome = "returned" THEN 1 ELSE 0)
    BY DEF CallIsSettled
  <2>1. lost \in Nat /\ pending = <<>>
        /\ (reached => IF outcome = "returned" THEN done = lost + 1 ELSE done = lost)
    BY DEF StatementInv, TypeOK, CallInv
  <2> QED BY <2>1
<1> QED BY <1>1, StatementInvariant, PTL
=============================================================================
