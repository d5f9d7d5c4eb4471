----------------------------- MODULE MCMysqlPool -----------------------------
(***************************************************************************)
(* MysqlPool for TLC.                                                      *)
(***************************************************************************)
EXTENDS MysqlPool, TLC

(* Threads and connections are interchangeable.                            *)
Symmetry == Permutations(Threads) \cup Permutations(Nodes)
=============================================================================
