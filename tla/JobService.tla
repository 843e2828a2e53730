----------------------------- MODULE JobService -----------------------------
(***************************************************************************)
(* What workManager.Work promises its callers, seen from outside: a job is *)
(* submitted, accepted by the queue's loop, given one outcome while its    *)
(* caller waits for it, and then collected by the caller.  The service may *)
(* keep an accepted job for ever.  Module WorkQueue implements it.         *)
(***************************************************************************)
CONSTANTS Callers, Outcomes

VARIABLE job   \* what each caller's current job has come to

Init == job = [c \in Callers |-> "none"]

Submit(c) == job[c] = "none" /\ job' = [job EXCEPT ![c] = "submitted"]
Accept(c) == job[c] = "submitted" /\ job' = [job EXCEPT ![c] = "accepted"]
Finish(c) ==
  /\ job[c] = "accepted"
  /\ \E outcome \in Outcomes : job' = [job EXCEPT ![c] = outcome]
Collect(c) == job[c] \in Outcomes /\ job' = [job EXCEPT ![c] = "none"]

Next == \E c \in Callers : Submit(c) \/ Accept(c) \/ Finish(c) \/ Collect(c)

Spec == Init /\ [][Next]_job
=============================================================================
