---------------------------- MODULE MCDelegation ----------------------------
(* Small instances of Delegation, whose nodes are interchangeable. *)
EXTENDS Delegation, TLC

Symmetry == Permutations(Nodes)
=============================================================================
