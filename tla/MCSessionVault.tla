-------------------------- MODULE MCSessionVault --------------------------
(* Small instances of SessionVault.  The vaults are interchangeable: the
   symmetry is for runs without liveness. *)
EXTENDS SessionVault, TLC

Symmetry == Permutations(Vaults)
=============================================================================
