----------------------------- MODULE MCClosedLid -----------------------------
(* A small instance of ClosedLid. *)
EXTENDS ClosedLid
=============================================================================
