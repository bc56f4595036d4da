------------------------------ MODULE MCDbLock ------------------------------
(* Instances of DbLock for TLC. *)
EXTENDS DbLock, TLC

CONSTANTS h1, d1, d2, d3

(* All dbimp processes are children of the one hyper process. *)
OneMother == [p \in Dbimp |-> h1]

Symmetry == Permutations(Dbimp) \union Permutations(Inode)
=============================================================================
