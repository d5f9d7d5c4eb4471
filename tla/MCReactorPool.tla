---------------------------- MODULE MCReactorPool ----------------------------
(***************************************************************************)
(* ReactorPool for TLC.                                                    *)
(***************************************************************************)
EXTENDS ReactorPool, TLC

(* Loops and descriptors are interchangeable.                              *)
Symmetry == Permutations(Loops) \cup Permutations(Fds)
=============================================================================
