----------------------------- MODULE MCWorkflow -----------------------------
(* A workflow with a processor that feeds a processor and a publisher, the  *)
(* inner processor feeding a publisher on a remote node, and a publisher fed *)
(* directly by the collect node.                                            *)
EXTENDS Workflow

CONSTANTS pr1, pr2, pu1, pu2, pu3, remote

MCNodes == {pr1, pr2, pu1, pu2, pu3}
MCParent ==
  [n \in MCNodes |-> CASE n = pr1 -> Collect [] n = pr2 -> pr1 [] n = pu1 -> pr1
                       [] n = pu2 -> pr2 [] n = pu3 -> Collect]
MCAbove ==
  [n \in MCNodes |-> CASE n = pr1 -> {Collect} [] n = pr2 -> {pr1, Collect}
                       [] n = pu1 -> {pr1, Collect}
                       [] n = pu2 -> {pr2, pr1, Collect} [] n = pu3 -> {Collect}]
MCTarget == [n \in MCNodes |-> IF n = pu2 THEN remote ELSE Local]
=============================================================================
