---------------------------- MODULE MCWorkerPool ----------------------------
(***************************************************************************)
(* WorkerPool for TLC: small pools with the limits scaled down.            *)
(***************************************************************************)
EXTENDS WorkerPool, TLC

(* Every reactor has at least one connection of its own.                   *)
MCConnOwner ==
    CHOOSE owner \in [Conns -> Reactors] :
        \A r \in Reactors : \E c \in Conns : owner[c] = r

(* Workers are interchangeable: no definition tells one from another.      *)
Symmetry == Permutations(Workers)

(* So are the reactors, each together with its connections.                *)
SymmetryLoops ==
    Permutations(Workers) \cup
    {p \in Permutations(Reactors \cup Conns) :
        \A c \in Conns : p[c] \in Conns /\ ConnOwner[p[c]] = p[ConnOwner[c]]}
=============================================================================
