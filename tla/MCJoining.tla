----------------------------- MODULE MCJoining -----------------------------
(* Home and two members.                                                   *)
EXTENDS Joining

CONSTANTS home, m1, m2
MCMembers == {m1, m2}
=============================================================================
