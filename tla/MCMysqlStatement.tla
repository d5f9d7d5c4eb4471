-------------------------- MODULE MCMysqlStatement --------------------------
(***************************************************************************)
(* MysqlStatement for TLC.                                                 *)
(***************************************************************************)
EXTENDS MysqlStatement

(* Up to two results, of one column or of both.                            *)
MCAnswers == UNION {[1..n -> Rows \cup {NoRow}] : n \in 1..2}
=============================================================================
