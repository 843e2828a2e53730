------------------------------ MODULE MCTribe ------------------------------
(***************************************************************************)
(* Two daemons, one agreement, one plugin and one task.                    *)
(***************************************************************************)
EXTENDS Tribe, TLC

CONSTANTS n1, n2, a1, p1, t1, none

MCNodes == {n1, n2}
MCAgreements == {a1}
MCPlugins == {p1}
MCTasks == {t1}

Symmetry == Permutations(MCNodes)
=============================================================================
