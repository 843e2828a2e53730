------------------------ MODULE MCSubscriptionGroups ------------------------
(* Two versions of a collector, of which the second exposes one namespace    *)
(* more, and a publisher.  Task t1 asks for the first version of a metric,   *)
(* t2 for all metrics (a wildcard), each in its latest version, and for the  *)
(* publisher.                                                                *)
EXTENDS SubscriptionGroups, TLC

CONSTANTS col1, col2, pub, t1, t2, nsA, nsB, collector, publisher

MCPlugins == {col1, col2, pub}
MCName == [p \in MCPlugins |-> IF p = pub THEN publisher ELSE collector]
MCVersion == [p \in MCPlugins |-> IF p = col2 THEN 2 ELSE 1]
MCExposes == [p \in MCPlugins |-> CASE p = col1 -> {nsA} [] p = col2 -> {nsA, nsB}
                                    [] OTHER -> {}]
MCTasks == {t1, t2}
MCRequests == [t \in MCTasks |->
  IF t = t1 THEN {[nss |-> {nsA}, ver |-> 1]} ELSE {[nss |-> {nsA, nsB}, ver |-> 0]}]
MCUses == [t \in MCTasks |->
  IF t = t1 THEN {} ELSE {[name |-> publisher, ver |-> 0]}]
CallerSymmetry == Permutations(Callers)
=============================================================================
