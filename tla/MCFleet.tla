------------------------------ MODULE MCFleet -------------------------------
(* A small instance of Fleet.                                               *)
EXTENDS Fleet, TLC

CONSTANTS t1, p1
MCNeeds == t1 :> p1
=============================================================================
