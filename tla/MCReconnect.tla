---------------------------- MODULE MCReconnect ----------------------------
(* Small instances of Reconnect, whose work is interchangeable. *)
EXTENDS Reconnect, TLC

Symmetry == Permutations(Work)
=============================================================================
