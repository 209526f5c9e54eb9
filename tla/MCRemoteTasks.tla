--------------------------- MODULE MCRemoteTasks ---------------------------
(* Small instances of RemoteTasks, whose nodes are interchangeable. *)
EXTENDS RemoteTasks, TLC

Symmetry == Permutations(Nodes)
=============================================================================
