-------------------------- MODULE MCConnectionStore --------------------------
(* Small instances of ConnectionStore.  The windows are interchangeable, and so
   are the texts of the shared file and the lists of the person's own. *)
EXTENDS ConnectionStore, TLC

Symmetry ==
  Permutations(Windows) \cup Permutations(SharedTexts) \cup Permutations(Bodies)
=============================================================================
