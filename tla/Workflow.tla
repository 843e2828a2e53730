------------------------------ MODULE Workflow ------------------------------
(***************************************************************************)
(* How a task runs its workflow: scheduler/workflow.go and job.go, with the*)
(* loop of task.spin() (or stream()) that fires it and counts failures, and*)
(* createTaskClients, which makes the clients of its remote nodes.         *)
(*                                                                         *)
(* A workflow is a tree: the collect job at the root, process nodes inside,*)
(* publish nodes at the leaves.  Every node is submitted by a goroutine of *)
(* its own, as soon as its parent's job has run without an error, and the  *)
(* parent's goroutine waits for its children's (the WaitGroup of workJobs).*)
(* The work manager is abstracted to what JobService promises: a job that  *)
(* is submitted is run at most once, or fails (queue full, overdue).       *)
(***************************************************************************)
EXTENDS Integers, FiniteSets

CONSTANTS
  Nodes,         \* process and publish nodes of the workflow
  Collect,       \* its collect node
  Parent,        \* [Nodes -> Nodes \cup {Collect}]
  Above,         \* [Nodes -> SUBSET]: parent, grandparent, ... up to Collect
  Target,        \* [Nodes -> the address of the node that runs the plugin]
  Local,         \* the empty address
  Streams,       \* whether metrics may come from a stream: of BOOLEAN
  StopOnFailure, \* max-failures
  MaxRuns        \* bound: number of times the workflow is started

Jobs == Nodes \cup {Collect}

ASSUME TreeAssumption ==
  /\ Collect \notin Nodes
  /\ Parent \in [Nodes -> Jobs]
  /\ Above \in [Nodes -> SUBSET Jobs]
  /\ \A n \in Nodes :
       /\ Collect \in Above[n]
       /\ Parent[n] \in Above[n]
       /\ \A m \in Above[n] \ {Collect} : Above[m] \subseteq Above[n]
       /\ \A m \in Above[n] : m = Parent[n] \/
            (Parent[n] # Collect /\ m \in Above[Parent[n]])
       /\ \A m \in Above[n] : m = Parent[n] \/
            \E k \in Above[n] \ {Collect} : Parent[k] = m
ASSUME TargetAssumption == Target \in [Nodes -> {Target[n] : n \in Nodes}]
ASSUME StreamAssumption == Streams \subseteq BOOLEAN
ASSUME StopAssumption == StopOnFailure \in Int \ {0}
ASSUME RunsAssumption == MaxRuns \in Nat

Children(j) == {n \in Nodes : Parent[n] = j}

VARIABLES
  isStream,    \* metrics come from a stream, there is no collect job
  pc,          \* the goroutine spin() or stream()
  managers,    \* targets the task has a client for
  run,         \* number of starts of the workflow; stands for the time too
  overdue,     \* the deadline of this run's jobs has passed
  job,         \* the jobs of this run and the goroutines that submit them
  metrics,     \* job.Metrics(): the run they are of, the jobs they went through
  input,       \* what a job was given when it ran, as metrics
  lastFire,    \* task.lastFireTime
  lastFailure, \* task.lastFailureTime
  fails,       \* consecutiveFailures
  bad,         \* runs in which some job failed
  since        \* number of runs before the present start of the task

vars == <<isStream, pc, managers, run, overdue, job, metrics, input, lastFire,
          lastFailure, fails, bad, since>>

Nothing == [run |-> 0, via |-> {}]

Init ==
  /\ isStream \in Streams
  /\ pc = "create"
  /\ managers = {Local}
  /\ run = 0
  /\ overdue = FALSE
  /\ job = [j \in Jobs |-> "idle"]
  /\ metrics = [j \in Jobs |-> Nothing]
  /\ input = [j \in Jobs |-> Nothing]
  /\ lastFire = 0
  /\ lastFailure = 0
  /\ fails = 0
  /\ bad = {}
  /\ since = 0
-----------------------------------------------------------------------------
(* createTaskClients: the walk makes a client for the target of every node; *)
(* an address that does not parse or answer fails the creation of the task. *)
CreateTaskClients ==
  /\ pc = "create"
  /\ \/ /\ managers' = managers \cup {Target[n] : n \in Nodes}
        /\ pc' = "wait"
     \/ /\ \E n \in Nodes : Target[n] # Local
        /\ pc' = "refused"
        /\ UNCHANGED managers
  /\ UNCHANGED <<run, overdue, job, metrics, input, lastFire, lastFailure,
                 fails, bad, since>>

\* The jobs of a run that starts now: nothing of an earlier run is kept.
NewJobs(first) == [j \in Jobs |-> IF j = Collect THEN first ELSE "idle"]

\* fire() and schedulerWorkflow.Start: the collect job is submitted.
Start ==
  /\ ~isStream
  /\ pc = "wait"
  /\ run < MaxRuns
  /\ run' = run + 1
  /\ lastFire' = run + 1
  /\ overdue' = FALSE
  /\ job' = NewJobs("queued")
  /\ metrics' = [j \in Jobs |-> Nothing]
  /\ input' = [j \in Jobs |-> Nothing]
  /\ pc' = "firing"
  /\ UNCHANGED <<managers, lastFailure, fails, bad, since>>

\* StreamStart: metrics have arrived, and play the part of a collect job's.
StreamStart ==
  /\ isStream
  /\ pc = "wait"
  /\ run < MaxRuns
  /\ run' = run + 1
  /\ overdue' = FALSE
  /\ job' = NewJobs("ran")
  /\ metrics' = [j \in Jobs |-> IF j = Collect
                   THEN [run |-> run + 1, via |-> {Collect}] ELSE Nothing]
  /\ input' = [j \in Jobs |-> Nothing]
  /\ fails' = 0
  /\ pc' = "firing"
  /\ UNCHANGED <<managers, lastFire, lastFailure, bad, since>>

DeadlinePasses ==
  /\ pc = "firing"
  /\ ~overdue
  /\ overdue' = TRUE
  /\ UNCHANGED <<pc, managers, run, job, metrics, input, lastFire, lastFailure,
                 fails, bad, since>>

\* The worker refuses an overdue job; the queue may have refused any job.
Refused(j) ==
  /\ job[j] = "queued"
  /\ job' = [job EXCEPT ![j] = "failed"]
  /\ bad' = bad \cup {run}
  /\ UNCHANGED <<pc, managers, run, overdue, metrics, input, lastFire,
                 lastFailure, fails, since>>

\* Run of a collect, process or publish job: a plugin is given the metrics of
\* the parent's job, and answers with metrics, with errors, or with both.
GivenRoot(j) ==
  IF j = Collect THEN [run |-> run, via |-> {}] ELSE metrics[Collect]
Given(j) == IF j = Collect THEN [run |-> run, via |-> {}] ELSE metrics[Parent[j]]

Run(j) ==
  /\ job[j] = "queued"
  /\ ~overdue
  /\ input' = [input EXCEPT ![j] = Given(j)]
  /\ metrics' = [metrics EXCEPT ![j] =
       [run |-> Given(j).run, via |-> Given(j).via \cup {j}]]
  /\ \/ job' = [job EXCEPT ![j] = "ran"] /\ UNCHANGED bad
     \/ job' = [job EXCEPT ![j] = "failed"] /\ bad' = bad \cup {run}
  /\ UNCHANGED <<pc, managers, run, overdue, lastFire, lastFailure, fails, since>>

\* workJobs: a goroutine for every child, then wait for them all.
WorkJobs(j) ==
  /\ job[j] = "ran"
  /\ job' = [n \in Jobs |-> IF n = j THEN "waiting"
                            ELSE IF n \in Children(j) THEN "spawned" ELSE job[n]]
  /\ UNCHANGED <<pc, managers, run, overdue, metrics, input, lastFire,
                 lastFailure, fails, bad, since>>

\* RecordFailure: the failure is stamped with the time of the last firing.
RecordFailureNoDone(j) ==
  /\ job[j] = "failed"
  /\ lastFailure' = lastFire
  /\ UNCHANGED <<pc, managers, run, overdue, job, metrics, input, lastFire,
                 fails, bad, since>>
RecordFailure(j) ==
  /\ job[j] = "failed"
  /\ lastFailure' = lastFire
  /\ job' = [job EXCEPT ![j] = "done"]
  /\ UNCHANGED <<pc, managers, run, overdue, metrics, input, lastFire, fails,
                 bad, since>>

\* submitProcessJob, submitPublishJob: find the client, submit the job.
Submit(n) ==
  /\ job[n] = "spawned"
  /\ job' = [job EXCEPT ![n] =
               IF Target[n] \in managers THEN "queued" ELSE "failed"]
  /\ bad' = IF Target[n] \in managers THEN bad ELSE bad \cup {run}
  /\ UNCHANGED <<pc, managers, run, overdue, metrics, input, lastFire,
                 lastFailure, fails, since>>

\* wg.Wait returns, and so does the goroutine that called workJobs.
JoinFirst(j) ==
  /\ job[j] = "waiting"
  /\ Children(j) = {} \/ \E n \in Children(j) : job[n] = "done"
  /\ job' = [job EXCEPT ![j] = "done"]
  /\ UNCHANGED <<pc, managers, run, overdue, metrics, input, lastFire,
                 lastFailure, fails, bad, since>>
Join(j) ==
  /\ job[j] = "waiting"
  /\ \A n \in Children(j) : job[n] = "done"
  /\ job' = [job EXCEPT ![j] = "done"]
  /\ UNCHANGED <<pc, managers, run, overdue, metrics, input, lastFire,
                 lastFailure, fails, bad, since>>

\* Back in spin(): a run failed if a failure bears its time.  A stream does not
\* look at the outcome of the workflow.
CountFailures ==
  IF isStream THEN fails ELSE IF lastFailure = lastFire THEN fails + 1 ELSE 0

ReturnsLate ==
  /\ pc = "firing"
  /\ job[Collect] = "done"
  /\ fails' = CountFailures
  /\ pc' = IF StopOnFailure >= 0 /\ CountFailures > StopOnFailure
           THEN "disabled" ELSE "wait"
  /\ UNCHANGED <<managers, run, overdue, job, metrics, input, lastFire,
                 lastFailure, bad, since>>
Returns ==
  /\ pc = "firing"
  /\ job[Collect] = "done"
  /\ fails' = CountFailures
  /\ pc' = IF StopOnFailure >= 0 /\ CountFailures >= StopOnFailure
           THEN "disabled" ELSE "wait"
  /\ UNCHANGED <<managers, run, overdue, job, metrics, input, lastFire,
                 lastFailure, bad, since>>

\* The task is stopped (or enabled again) and started: a new spin() counts from
\* nought, and lastFireTime has been reset.
Restart ==
  /\ pc \in {"wait", "disabled"}
  /\ run > since
  /\ pc' = "wait"
  /\ fails' = 0
  /\ lastFire' = 0
  /\ since' = run
  /\ UNCHANGED <<managers, run, overdue, job, metrics, input, lastFailure, bad>>
-----------------------------------------------------------------------------
JobStep(j) ==
  Refused(j) \/ Run(j) \/ WorkJobs(j) \/ RecordFailure(j) \/ Join(j)
Progress ==
  \/ \E j \in Jobs : JobStep(j)
  \/ \E n \in Nodes : Submit(n)
  \/ Returns
Next ==
  /\ UNCHANGED isStream
  /\ \/ CreateTaskClients \/ Start \/ StreamStart \/ DeadlinePasses \/ Restart
     \/ Progress

Spec == Init /\ [][Next]_vars

\* Goroutines run, and every job is answered (JobService).
LiveSpec == Spec /\ WF_vars(Progress /\ UNCHANGED isStream)
-----------------------------------------------------------------------------
(* Properties.                                                              *)

\* Types of a task's run of its workflow (workflow.go:176, task.go:64).
TypeOK ==
  /\ isStream \in BOOLEAN
  /\ pc \in {"create", "refused", "wait", "firing", "disabled"}
  /\ managers \subseteq {Local} \cup {Target[n] : n \in Nodes}
  /\ run \in 0..MaxRuns /\ since \in 0..MaxRuns
  /\ overdue \in BOOLEAN
  /\ job \in [Jobs -> {"idle", "spawned", "queued", "ran", "waiting", "failed",
                       "done"}]
  /\ metrics \in [Jobs -> [run : 0..MaxRuns, via : SUBSET Jobs]]
  /\ input \in [Jobs -> [run : 0..MaxRuns, via : SUBSET Jobs]]
  /\ lastFire \in 0..MaxRuns /\ lastFailure \in 0..MaxRuns
  /\ fails \in 0..MaxRuns
  /\ bad \subseteq 0..MaxRuns

Active(j) == job[j] \notin {"idle", "done"}

\* Two runs of a task never overlap: while the task waits for its schedule no
\* goroutine and no job of an earlier run is left, however deep the tree
\* (workflow.go:302-341, wg.Wait).
RunsDoNotOverlap == pc # "firing" => \A j \in Jobs : ~Active(j)

\* What reaches a plugin was collected in this very run and has been through
\* exactly the processors above its node, whatever jobs failed or were refused
\* meanwhile (job.go:266-361, parentJob.Metrics()).
InputIsOfThisRun ==
  \A n \in Nodes :
    input[n] # Nothing => input[n] = [run |-> run, via |-> Above[n]]

\* The last k runs up to the r-th, and no more, are a row of failed runs of the
\* present start of the task.
IsRow(k, r) ==
  /\ k \in 0..(r - since)
  /\ (r - k + 1)..r \subseteq bad
  /\ k < r - since => r - k \notin bad

\* A failure anywhere in the tree, however late, is counted for the run it
\* happened in: consecutiveFailures is the number of failed runs in a row since
\* the task was started (task.go:479-492, 573).
FailuresAreCounted ==
  ~isStream /\ pc \in {"wait", "disabled"} => IsRow(fails, run)

\* core/task.go:125 "the number of consecutive task failures that will trigger
\* disabling the task": neither earlier nor later.
DisabledOnTime ==
  pc = "disabled" => StopOnFailure > 0 /\ IsRow(StopOnFailure, run)

\* The row of failures is exact, and disables the task on its last run.
FailuresDisable == FailuresAreCounted /\ DisabledOnTime

\* The walk of the workflow leaves no node without a client, so submitting a job
\* never fails with "Client not found" (task.go:665-710, managers.go:54).
ClientIsFound == \A n \in Nodes : job[n] = "spawned" => Target[n] \in managers

\* If the work queues complete every job, each run comes to an end and hands the
\* task back to its schedule: no WaitGroup is left waiting by a branch that fails
\* (workflow.go:302-341).
RunEnds == (pc = "firing") ~> (pc # "firing")

=============================================================================
