------------------------------- MODULE MCFuzz -------------------------------
(* Every sequence of Ops calls on a small world. *)
EXTENDS Fuzz

=============================================================================
