------------------------------- MODULE MCTask -------------------------------
(* Instances of one task for TLC. *)
EXTENDS Task

=============================================================================
