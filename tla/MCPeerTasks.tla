---------------------------- MODULE MCPeerTasks ----------------------------
(* Small instances of PeerTasks.  The two nodes are interchangeable: no      *)
(* action and no property names one of them.                                 *)
EXTENDS PeerTasks, TLC

Symmetry == Permutations(Nodes)
=============================================================================
