---------------------------- MODULE MCWorkQueue ----------------------------
(* Work queue instances for TLC. *)
EXTENDS WorkQueue

=============================================================================
