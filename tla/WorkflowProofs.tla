--------------------------- MODULE WorkflowProofs ---------------------------
(***************************************************************************)
(* Proofs about Workflow, for every tree of processors and publishers.     *)
(***************************************************************************)
EXTENDS Workflow, TLAPS

\* Most leaves need no arithmetic.
USE ZenonT(5), SMTT(15)

\* The jobs that what j hands to its children has been through.
Passed(j) == (IF j = Collect THEN {} ELSE Above[j]) \cup {j}

\* The failure count is no higher than the number of runs that have returned.
FailsBounded == fails <= (IF pc = "firing" THEN run - 1 ELSE run) /\ (pc = "firing" => run > 0)

\* A node's input has been through what its parent hands on.
LEMMA AboveIsPassed ==
  ASSUME NEW n \in Nodes
  PROVE  /\ Parent[n] \in Jobs
         /\ Above[n] = Passed(Parent[n])
         /\ Above[n] \subseteq Jobs
BY TreeAssumption DEF Passed, Jobs

\* How far a job may be, and what its metrics may be.
Stages == {"idle", "spawned", "queued", "ran", "waiting", "failed", "done"}
Metric == [run : 0..MaxRuns, via : SUBSET Jobs]

\* The metrics of a job that has not run, and those a job is given (job.go:266).
LEMMA NothingIsMetric == Nothing \in Metric
BY RunsAssumption DEF Nothing, Metric

\* The metrics parentJob.Metrics() answers have their type.
LEMMA GivenIsMetric ==
  ASSUME TypeOK, NEW j \in Jobs
  PROVE  Given(j) \in Metric /\ [run |-> Given(j).run, via |-> Given(j).via \cup {j}] \in Metric
<1>1. CASE j = Collect
  BY <1>1 DEF Given, Metric, TypeOK
<1>2. CASE j # Collect
  <2>1. Parent[j] \in Jobs
    BY <1>2, AboveIsPassed DEF Jobs
  <2>2. metrics[Parent[j]] \in Metric
    BY <2>1 DEF TypeOK, Metric
  <2> QED
    BY <1>2, <2>2 DEF Given, Metric
<1> QED
  BY <1>1, <1>2

\* Types, from which the step of every action starts (workflow.go, task.go:463).
THEOREM TypeCorrect == Spec => []TypeOK
<1> DEFINE Inv == TypeOK /\ FailsBounded
<1>1. Init => Inv
  <2> SUFFICES ASSUME Init PROVE Inv
    OBVIOUS
  <2>1. metrics \in [Jobs -> Metric] /\ input \in [Jobs -> Metric]
    BY NothingIsMetric DEF Init
  <2>2. isStream \in BOOLEAN
    BY StreamAssumption DEF Init
  <2>3. 0 \in 0..MaxRuns
    BY RunsAssumption
  <2>4. job \in [Jobs -> Stages]
    BY DEF Init, Stages
  <2>5. FailsBounded
    BY <2>3 DEF Init, FailsBounded
  <2>6. managers \subseteq {Local} \cup {Target[n] : n \in Nodes} /\ bad \subseteq 0..MaxRuns
    BY <2>3 DEF Init
  <2>7. pc \in {"create", "refused", "wait", "firing", "disabled"}
    BY DEF Init
  <2>8. run \in 0..MaxRuns /\ since \in 0..MaxRuns /\ lastFire \in 0..MaxRuns
        /\ lastFailure \in 0..MaxRuns /\ fails \in 0..MaxRuns /\ overdue \in BOOLEAN
    BY <2>3 DEF Init
  <2> QED
    BY <2>1, <2>2, <2>4, <2>5, <2>6, <2>7, <2>8 DEF TypeOK, Metric, Stages
<1>2. Inv /\ [Next]_vars => Inv'
  <2> SUFFICES ASSUME Inv, [Next]_vars PROVE Inv'
    OBVIOUS
  <2> USE RunsAssumption DEF TypeOK, FailsBounded
  <2>1. CASE UNCHANGED vars
    BY <2>1 DEF vars
  <2>2. CASE CreateTaskClients /\ UNCHANGED isStream
    BY <2>2 DEF CreateTaskClients
  <2>3. CASE Start /\ UNCHANGED isStream
    <3>1. metrics' \in [Jobs -> Metric] /\ input' \in [Jobs -> Metric]
      BY <2>3, NothingIsMetric DEF Start
    <3>2. job' \in [Jobs -> Stages]
      BY <2>3 DEF Start, NewJobs, Stages
    <3>3. /\ pc' = "firing" /\ run' \in 1..MaxRuns /\ run' = run + 1
          /\ lastFire' \in 0..MaxRuns /\ overdue' = FALSE /\ fails' \in 0..run
          /\ UNCHANGED <<managers, lastFailure, bad, since, isStream>>
      BY <2>3 DEF Start
    <3>5. FailsBounded' /\ fails' \in 0..MaxRuns /\ run' \in 0..MaxRuns
      BY <3>3
    <3>6. TypeOK'
      BY <3>1, <3>2, <3>3, <3>5 DEF Metric, Stages
    <3> QED
      BY <3>5, <3>6
  <2>4. CASE StreamStart /\ UNCHANGED isStream
    <3>1. [run |-> run + 1, via |-> {Collect}] \in Metric
      BY <2>4 DEF StreamStart, Metric, Jobs
    <3>2. metrics' \in [Jobs -> Metric] /\ input' \in [Jobs -> Metric]
      BY <2>4, <3>1, NothingIsMetric DEF StreamStart
    <3>3. job' \in [Jobs -> Stages]
      BY <2>4 DEF StreamStart, NewJobs, Stages
    <3>4. /\ pc' = "firing" /\ run' \in 1..MaxRuns /\ run' = run + 1
          /\ lastFire' \in 0..MaxRuns /\ overdue' = FALSE /\ fails' \in 0..run
          /\ UNCHANGED <<managers, lastFailure, bad, since, isStream>>
      BY <2>4 DEF StreamStart
    <3>5. FailsBounded' /\ fails' \in 0..MaxRuns /\ run' \in 0..MaxRuns
      BY <3>4
    <3>6. TypeOK'
      BY <3>2, <3>3, <3>4, <3>5 DEF Metric, Stages
    <3> QED
      BY <3>5, <3>6
  <2>5. CASE DeadlinePasses /\ UNCHANGED isStream
    BY <2>5 DEF DeadlinePasses
  <2>6. CASE Restart /\ UNCHANGED isStream
    BY <2>6 DEF Restart
  <2>7. ASSUME NEW j \in Jobs, JobStep(j), UNCHANGED isStream PROVE Inv'
    <3> USE <2>7
    <3>2. CASE Refused(j)
      BY <3>2 DEF Refused
    <3>3. CASE Run(j)
      <4>1. metrics' \in [Jobs -> Metric] /\ input' \in [Jobs -> Metric]
        BY <3>3, GivenIsMetric DEF Run, Metric
      <4> QED
        BY <3>3, <4>1 DEF Run, Metric
    <3>4. CASE WorkJobs(j)
      BY <3>4 DEF WorkJobs
    <3>5. CASE RecordFailure(j)
      BY <3>5 DEF RecordFailure
    <3>6. CASE Join(j)
      BY <3>6 DEF Join
    <3> QED
      BY <3>2, <3>3, <3>4, <3>5, <3>6 DEF JobStep
  <2>8. ASSUME NEW n \in Nodes, Submit(n), UNCHANGED isStream PROVE Inv'
    BY <2>8 DEF Submit
  <2>9. CASE Returns /\ UNCHANGED isStream
    BY <2>9 DEF Returns, CountFailures
  <2> QED
    BY <2>1, <2>2, <2>3, <2>4, <2>5, <2>6, <2>7, <2>8, <2>9 DEF Next, Progress
<1> QED
  BY <1>1, <1>2, PTL DEF Spec

\* While a node's job is active every job above it waits for its children.
AncestorsWait ==
  \A n \in Nodes : Active(n) => \A m \in Above[n] : job[m] = "waiting"

\* A job is only touched after its parent's goroutine has spawned it.
SpawnedByParent ==
  \A n \in Nodes : job[n] # "idle" => job[Parent[n]] \in {"waiting", "done"}

\* The metrics of a job whose children run or may still be spawned.
MetricsOfRun ==
  \A j \in Jobs : job[j] \in {"ran", "waiting"}
    => metrics[j] = [run |-> run, via |-> Passed(j)]

ClientsMade ==
  pc \notin {"create", "refused"} => \A n \in Nodes : Target[n] \in managers

TreeInv ==
  /\ RunsDoNotOverlap
  /\ AncestorsWait
  /\ SpawnedByParent
  /\ MetricsOfRun
  /\ InputIsOfThisRun
  /\ ClientsMade

\* The way up from a node below j passes by a child of j.
LEMMA ChildBetween ==
  ASSUME NEW n \in Nodes, NEW j \in Above[n]
  PROVE  n \in Children(j) \/ \E k \in Above[n] : k \in Children(j)
<1>1. j = Parent[n] \/ \E k \in Above[n] \ {Collect} : Parent[k] = j
  BY TreeAssumption
<1>2. Above[n] \ {Collect} \subseteq Nodes
  BY AboveIsPassed DEF Jobs
<1> QED
  BY <1>1, <1>2 DEF Children

\* A step of the goroutine of one node that leaves it active, or ends it after
\* its children, keeps the order of the tree.
LEMMA JobMoves ==
  ASSUME TypeOK, AncestorsWait, SpawnedByParent, NEW j \in Jobs, NEW stage \in Stages,
         job' = [job EXCEPT ![j] = stage],
         Active(j), stage # "idle",
         job[j] = "waiting" => stage = "done" /\ \A n \in Children(j) : job[n] = "done"
  PROVE  AncestorsWait' /\ SpawnedByParent'
<1>1. ASSUME NEW n \in Nodes, Active(n)' PROVE \A m \in Above[n] : job'[m] = "waiting"
  <2>1. Active(n)
    BY <1>1 DEF Active, TypeOK, Jobs
  <2>2. \A m \in Above[n] : job[m] = "waiting"
    BY <2>1 DEF AncestorsWait
  <2>3. j \notin Above[n]
    <3> SUFFICES ASSUME j \in Above[n] PROVE FALSE
      OBVIOUS
    <3>1. \A k \in Children(j) : job[k] = "done"
      BY <2>2
    <3>2. n \in Children(j) \/ \E k \in Above[n] : k \in Children(j)
      BY ChildBetween
    <3> QED
      BY <2>1, <2>2, <3>1, <3>2 DEF Active
  <2> QED
    BY <2>2, <2>3, AboveIsPassed DEF TypeOK
<1>2. ASSUME NEW n \in Nodes, job'[n] # "idle" PROVE job'[Parent[n]] \in {"waiting", "done"}
  <2>1. job[n] # "idle" /\ Parent[n] \in Jobs
    BY <1>2, AboveIsPassed DEF TypeOK, Active
  <2>2. job[Parent[n]] \in {"waiting", "done"}
    BY <2>1 DEF SpawnedByParent
  <2> QED
    BY <2>1, <2>2 DEF TypeOK, Active
<1> QED
  BY <1>1, <1>2 DEF AncestorsWait, SpawnedByParent, Active

\* workJobs keeps the order of the tree: the children it spawns were idle.
LEMMA WorkJobsMoves ==
  ASSUME TypeOK, AncestorsWait, SpawnedByParent, NEW j \in Jobs, WorkJobs(j)
  PROVE  AncestorsWait' /\ SpawnedByParent'
<1>1. job[j] = "ran" /\ Active(j)
  BY DEF WorkJobs, Active
<1>2. \A n \in Children(j) : job[n] = "idle"
  BY <1>1 DEF SpawnedByParent, Children
<1>3. /\ \A n \in Jobs : job'[n] = IF n = j THEN "waiting"
                           ELSE IF n \in Children(j) THEN "spawned" ELSE job[n]
      /\ job'[j] = "waiting"
  BY DEF WorkJobs
<1>4. ASSUME NEW m \in Jobs, job[m] = "waiting" PROVE job'[m] = "waiting"
  BY <1>1, <1>2, <1>3, <1>4
<1>5. \A m \in Above[j] : j # Collect => job[m] = "waiting"
  BY <1>1 DEF AncestorsWait, Jobs
<1>6. ASSUME NEW n \in Nodes, Active(n)' PROVE \A m \in Above[n] : job'[m] = "waiting"
  <2>1. CASE n \in Children(j)
    <3>1. Above[n] = Passed(j)
      BY <2>1, AboveIsPassed DEF Children
    <3> QED
      BY <1>3, <1>4, <1>5, <3>1, AboveIsPassed DEF Passed
  <2>2. CASE n \notin Children(j)
    <3>1. Active(n)
      BY <1>1, <1>3, <1>6, <2>2 DEF Active, Jobs
    <3> QED
      BY <1>4, <3>1, AboveIsPassed DEF AncestorsWait
  <2> QED
    BY <2>1, <2>2
<1>7. ASSUME NEW n \in Nodes, job'[n] # "idle" PROVE job'[Parent[n]] \in {"waiting", "done"}
  <2>1. CASE n \in Children(j)
    BY <1>3, <2>1 DEF Children
  <2>2. CASE n \notin Children(j)
    <3>1. job[n] # "idle" /\ Parent[n] \in Jobs
      BY <1>1, <1>3, <1>7, <2>2, AboveIsPassed DEF Jobs
    <3>2. job[Parent[n]] \in {"waiting", "done"}
      BY <3>1 DEF SpawnedByParent
    <3> QED
      BY <1>1, <1>2, <1>3, <3>1, <3>2
  <2> QED
    BY <2>1, <2>2
<1> QED
  BY <1>6, <1>7 DEF AncestorsWait, SpawnedByParent, Active

\* A start or a stream's metrics begin a tree in which only the root is touched.
LEMMA StartMoves ==
  ASSUME NEW first \in Stages, job' = NewJobs(first)
  PROVE  AncestorsWait' /\ SpawnedByParent'
<1>1. \A n \in Nodes : job'[n] = "idle"
  BY TreeAssumption DEF NewJobs, Jobs
<1> QED
  BY <1>1 DEF AncestorsWait, SpawnedByParent, Active

\* What a job of a node is given comes from this run and the jobs above it.
LEMMA GivenOfRun ==
  ASSUME TypeOK, AncestorsWait, MetricsOfRun, NEW n \in Nodes, job[n] = "queued"
  PROVE  Given(n) = [run |-> run, via |-> Above[n]]
<1>1. Parent[n] \in Above[n] /\ Parent[n] \in Jobs /\ n # Collect
  BY TreeAssumption
<1>2. job[Parent[n]] = "waiting"
  BY <1>1 DEF AncestorsWait, Active
<1>3. metrics[Parent[n]] = [run |-> run, via |-> Passed(Parent[n])]
  BY <1>1, <1>2 DEF MetricsOfRun
<1> QED
  BY <1>1, <1>3, AboveIsPassed DEF Given

\* The inductive step, action by action: starts touch the root only, the steps of
\* a node's goroutine move it alone, and a run returns after its root.
LEMMA TreeStep == TypeOK /\ TreeInv /\ [Next]_vars => TreeInv'
<1> SUFFICES ASSUME TypeOK, TreeInv, [Next]_vars PROVE TreeInv'
  OBVIOUS
<1> USE DEF TreeInv
<1>1. CASE UNCHANGED vars
  BY <1>1 DEF vars, RunsDoNotOverlap, AncestorsWait, SpawnedByParent, MetricsOfRun,
    InputIsOfThisRun, ClientsMade, Active
<1>2. CASE CreateTaskClients
  BY <1>2 DEF CreateTaskClients, RunsDoNotOverlap, AncestorsWait, SpawnedByParent,
    MetricsOfRun, InputIsOfThisRun, ClientsMade, Active
<1>3. CASE DeadlinePasses \/ Restart
  BY <1>3 DEF DeadlinePasses, Restart, RunsDoNotOverlap, AncestorsWait, SpawnedByParent,
    MetricsOfRun, InputIsOfThisRun, ClientsMade, Active
<1>4. CASE Start
  <2>1. AncestorsWait' /\ SpawnedByParent'
    BY <1>4, StartMoves DEF Start, Stages
  <2>2. \A j \in Jobs : job'[j] \in {"idle", "queued"}
    BY <1>4 DEF Start, NewJobs
  <2>3. \A j \in Jobs : input'[j] = Nothing
    BY <1>4 DEF Start
  <2>4. pc' = "firing" /\ pc = "wait" /\ managers' = managers
    BY <1>4 DEF Start
  <2> QED
    BY <2>1, <2>2, <2>3, <2>4 DEF RunsDoNotOverlap, MetricsOfRun, InputIsOfThisRun,
      ClientsMade, Jobs
<1>5. CASE StreamStart
  <2>1. AncestorsWait' /\ SpawnedByParent'
    BY <1>5, StartMoves DEF StreamStart, Stages
  <2>2. \A j \in Jobs : j # Collect => job'[j] = "idle"
    BY <1>5 DEF StreamStart, NewJobs
  <2>3. \A j \in Jobs : input'[j] = Nothing
    BY <1>5 DEF StreamStart
  <2>4. pc' = "firing" /\ pc = "wait" /\ managers' = managers
    BY <1>5 DEF StreamStart
  <2>5. metrics'[Collect] = [run |-> run', via |-> Passed(Collect)]
    BY <1>5 DEF StreamStart, Passed, Jobs
  <2>6. MetricsOfRun'
    BY <2>2, <2>5 DEF MetricsOfRun
  <2> QED
    BY <2>1, <2>3, <2>4, <2>6 DEF RunsDoNotOverlap, InputIsOfThisRun, ClientsMade, Jobs
<1>6. CASE Returns
  <2>1. \A j \in Jobs : ~Active(j)
    <3>1. ~Active(Collect)
      BY <1>6 DEF Returns, Active
    <3>2. ASSUME NEW n \in Nodes PROVE ~Active(n)
      BY <1>6, TreeAssumption DEF Returns, AncestorsWait
    <3> QED
      BY <3>1, <3>2 DEF Jobs
  <2> QED
    BY <1>6, <2>1 DEF Returns, RunsDoNotOverlap, AncestorsWait, SpawnedByParent,
      MetricsOfRun, InputIsOfThisRun, ClientsMade, Active
<1>7. ASSUME NEW j \in Jobs, Active(j), pc' = pc, managers' = managers, run' = run,
             AncestorsWait' /\ SpawnedByParent', MetricsOfRun', InputIsOfThisRun'
      PROVE  TreeInv'
  BY <1>7 DEF RunsDoNotOverlap, ClientsMade
<1>8. ASSUME NEW j \in Jobs, Run(j) PROVE TreeInv'
  <2> USE <1>8
  <2>1. Active(j) /\ job[j] = "queued" /\ pc' = pc /\ managers' = managers /\ run' = run
    BY DEF Run, Active
  <2>2. AncestorsWait' /\ SpawnedByParent'
    BY <2>1, JobMoves DEF Run, Stages
  <2>3. Given(j) = [run |-> run, via |-> IF j = Collect THEN {} ELSE Above[j]]
    BY <2>1, GivenOfRun, TreeAssumption DEF Given, Jobs
  <2>4. metrics'[j] = [run |-> run, via |-> Passed(j)]
    <3>1. Given(j).run = run /\ Given(j).via \cup {j} = Passed(j)
      BY <2>3 DEF Passed
    <3> QED
      BY <3>1 DEF Run, TypeOK
  <2>5. \A k \in Jobs : k # j => metrics'[k] = metrics[k] /\ input'[k] = input[k] /\ job'[k] = job[k]
    BY DEF Run, TypeOK
  <2>6. MetricsOfRun'
    BY <2>1, <2>4, <2>5 DEF MetricsOfRun
  <2>7. j \in Nodes => input'[j] = [run |-> run, via |-> Above[j]]
    BY <2>1, GivenOfRun DEF Run, TypeOK
  <2>8. InputIsOfThisRun'
    BY <2>1, <2>5, <2>7 DEF InputIsOfThisRun, Jobs
  <2> QED
    BY <1>7, <2>1, <2>2, <2>6, <2>8
<1>9. ASSUME NEW j \in Jobs, WorkJobs(j) PROVE TreeInv'
  <2>1. Active(j) /\ pc' = pc /\ managers' = managers /\ run' = run
        /\ metrics' = metrics /\ input' = input
    BY <1>9 DEF WorkJobs, Active
  <2>2. AncestorsWait' /\ SpawnedByParent'
    BY <1>9, WorkJobsMoves
  <2>3. MetricsOfRun' /\ InputIsOfThisRun'
    BY <1>9, <2>1 DEF WorkJobs, MetricsOfRun, InputIsOfThisRun
  <2> QED
    BY <1>7, <2>1, <2>2, <2>3
<1>10. ASSUME NEW j \in Jobs, NEW stage \in {"queued", "failed", "done"}, Active(j),
              job' = [job EXCEPT ![j] = stage],
              job[j] = "waiting" => stage = "done" /\ \A n \in Children(j) : job[n] = "done",
              UNCHANGED <<pc, managers, run, metrics, input>>
       PROVE  TreeInv'
  <2>1. AncestorsWait' /\ SpawnedByParent'
    BY <1>10, JobMoves DEF Stages
  <2>2. MetricsOfRun' /\ InputIsOfThisRun'
    BY <1>10 DEF TypeOK, MetricsOfRun, InputIsOfThisRun
  <2> QED
    BY <1>7, <1>10, <2>1, <2>2
<1>11. ASSUME NEW j \in Jobs, Refused(j) \/ RecordFailure(j) \/ Join(j) PROVE TreeInv'
  <2>1. CASE Refused(j)
    BY <1>10, <2>1 DEF Refused, Active
  <2>2. CASE RecordFailure(j)
    BY <1>10, <2>2 DEF RecordFailure, Active
  <2>3. CASE Join(j)
    BY <1>10, <2>3 DEF Join, Active
  <2> QED
    BY <1>11, <2>1, <2>2, <2>3
<1>12. ASSUME NEW n \in Nodes, Submit(n) PROVE TreeInv'
  BY <1>10, <1>12 DEF Submit, Active, Jobs
<1> QED
  BY <1>1, <1>2, <1>3, <1>4, <1>5, <1>6, <1>8, <1>9, <1>11, <1>12
  DEF Next, Progress, JobStep

\* The tree invariant always holds.
LEMMA TreeHolds == Spec => []TreeInv
<1>1. Init => TreeInv
  <2> SUFFICES ASSUME Init PROVE TreeInv
    OBVIOUS
  <2>1. pc = "create" /\ \A j \in Jobs : job[j] = "idle" /\ input[j] = Nothing
    BY DEF Init
  <2> QED
    BY <2>1 DEF TreeInv, RunsDoNotOverlap, AncestorsWait, SpawnedByParent, MetricsOfRun,
      InputIsOfThisRun, ClientsMade, Active, Jobs
<1> QED
  BY <1>1, TreeStep, TypeCorrect, PTL DEF Spec

\* Whatever the workflow's tree, runs of a task never overlap: the goroutine of
\* a job outlives those of all the jobs below it (workflow.go:302-341).
THEOREM RunsSafe == Spec => []RunsDoNotOverlap
<1>1. TreeInv => RunsDoNotOverlap
  BY DEF TreeInv
<1> QED
  BY <1>1, TreeHolds, PTL

\* Every plugin is given what this run collected and the processors above it
\* made of it (job.go:266-361).
THEOREM InputSafe == Spec => []InputIsOfThisRun
<1>1. TreeInv => InputIsOfThisRun
  BY DEF TreeInv
<1> QED
  BY <1>1, TreeHolds, PTL

\* Submitting a job never fails for want of a client (task.go:665-710).
THEOREM ClientsSafe == Spec => []ClientIsFound
<1>1. TreeInv => ClientIsFound
  BY DEF TreeInv, RunsDoNotOverlap, ClientsMade, ClientIsFound, Active, Jobs
<1> QED
  BY <1>1, TreeHolds, PTL

-----------------------------------------------------------------------------
(* Failures are counted for the run they happened in.                       *)

\* A run that is under way has failed if and only if a failure bears its time
\* or is about to be recorded.
Recorded == run \in bad <=> lastFailure = run \/ \E j \in Jobs : job[j] = "failed"

\* The count is the row of failed runs: up to the run before the one under way,
\* whose outcome is known when it returns.
FailuresInv ==
  /\ since <= run /\ bad \subseteq 1..run /\ lastFailure <= run /\ lastFire <= run
  /\ isStream => fails = 0 /\ pc # "disabled"
  /\ pc \in {"create", "refused"} => run = 0
  /\ pc = "firing" => run > 0
  /\ ~isStream /\ pc # "firing" => IsRow(fails, run)
  /\ ~isStream /\ pc = "firing" =>
       /\ lastFire = run /\ since < run
       /\ IsRow(fails, run - 1)
       /\ Recorded
  /\ pc # "disabled" /\ StopOnFailure > 0 => fails < StopOnFailure
  /\ pc = "disabled" => StopOnFailure > 0 /\ fails = StopOnFailure

\* One more failed run, or a run without a failure (task.go:479-486).
LEMMA RowGrows ==
  ASSUME NEW k \in Nat, NEW r \in Nat, since \in Nat, since <= r, IsRow(k, r)
  PROVE  /\ r + 1 \in bad => IsRow(k + 1, r + 1)
         /\ r + 1 \notin bad => IsRow(0, r + 1)
BY DEF IsRow

\* A step of a job: the run fails, or a failure is recorded, or neither.
LEMMA JobKeepsFailures ==
  ASSUME TypeOK, FailuresInv, pc = "firing",
         UNCHANGED <<isStream, pc, run, since, fails, lastFire>>,
         bad' \in {bad, bad \cup {run}}, lastFailure' \in {lastFailure, lastFire},
         Recorded => Recorded'
  PROVE  FailuresInv'
<1>1. run \in Nat /\ since \in Nat /\ fails \in Nat /\ run > 0
  BY DEF TypeOK, FailuresInv
<1> QED
  BY <1>1 DEF FailuresInv, IsRow, TypeOK

\* The inductive step: a run that returns has no failure left to record, because
\* no job of it is left (TreeInv).
LEMMA FailuresStep == TypeOK /\ TreeInv /\ FailuresInv /\ [Next]_vars => FailuresInv'
<1> SUFFICES ASSUME TypeOK, TreeInv, FailuresInv, [Next]_vars PROVE FailuresInv'
  OBVIOUS
<1>1. /\ run \in Nat /\ since \in Nat /\ fails \in Nat /\ lastFailure \in Nat
      /\ lastFire \in Nat /\ StopOnFailure \in Int \ {0} /\ isStream \in BOOLEAN
  BY StopAssumption DEF TypeOK
<1>2. CASE UNCHANGED vars
  BY <1>2 DEF vars, FailuresInv, IsRow, Recorded
<1>3. CASE CreateTaskClients /\ UNCHANGED isStream
  BY <1>1, <1>3 DEF CreateTaskClients, FailuresInv, IsRow
<1>4. CASE Start /\ UNCHANGED isStream
  <2>1. /\ ~isStream /\ pc = "wait" /\ pc' = "firing" /\ run' = run + 1 /\ lastFire' = run + 1
        /\ UNCHANGED <<isStream, lastFailure, fails, bad, since>>
    BY <1>4 DEF Start
  <2>2. \A j \in Jobs : job'[j] # "failed"
    BY <1>4 DEF Start, NewJobs
  <2>3. Recorded'
    BY <1>1, <2>1, <2>2 DEF Recorded, FailuresInv
  <2>4. IsRow(fails, run - 1)'
    BY <1>1, <2>1 DEF FailuresInv, IsRow
  <2> QED
    BY <1>1, <2>1, <2>3, <2>4 DEF FailuresInv
<1>5. CASE StreamStart /\ UNCHANGED isStream
  BY <1>1, <1>5 DEF StreamStart, FailuresInv
<1>6. CASE DeadlinePasses /\ UNCHANGED isStream
  BY <1>6 DEF DeadlinePasses, FailuresInv, IsRow, Recorded
<1>7. CASE Restart /\ UNCHANGED isStream
  BY <1>1, <1>7 DEF Restart, FailuresInv, IsRow
<1>8. CASE Returns /\ UNCHANGED isStream
  <2>1. /\ pc = "firing" /\ pc' \in {"wait", "disabled"} /\ fails' = CountFailures
        /\ pc' = "disabled" <=> StopOnFailure >= 0 /\ CountFailures >= StopOnFailure
        /\ UNCHANGED <<isStream, run, lastFire, lastFailure, bad, since>>
    BY <1>8 DEF Returns
  <2>2. \A j \in Jobs : job[j] # "failed"
    <3>1. job[Collect] = "done"
      BY <1>8 DEF Returns
    <3>2. \A n \in Nodes : job[n] # "failed"
      BY <3>1, TreeAssumption DEF TreeInv, AncestorsWait, Active
    <3> QED
      BY <3>1, <3>2 DEF Jobs
  <2>3. CASE isStream
    <3>1. fails = 0 /\ fails' = 0 /\ pc' = "wait"
      BY <1>1, <2>1, <2>3 DEF FailuresInv, CountFailures
    <3> QED
      BY <1>1, <2>1, <2>3, <3>1 DEF FailuresInv
  <2>4. CASE ~isStream
    <3>1. run \in bad <=> lastFailure = lastFire
      BY <2>1, <2>2, <2>4 DEF FailuresInv, Recorded
    <3>2. fails' = IF run \in bad THEN fails + 1 ELSE 0
      BY <2>1, <2>4, <3>1 DEF CountFailures
    <3>3. IsRow(fails, run - 1) /\ since <= run - 1 /\ run > 0
      BY <1>1, <2>1, <2>4 DEF FailuresInv
    <3>4. IsRow(fails', run)
      BY <1>1, <3>2, <3>3, RowGrows
    <3>5. IsRow(fails, run)'
      BY <2>1, <3>4 DEF IsRow
    <3>6. StopOnFailure > 0 => fails < StopOnFailure
      BY <2>1 DEF FailuresInv
    <3>7. /\ pc' # "disabled" /\ StopOnFailure > 0 => fails' < StopOnFailure
          /\ pc' = "disabled" => StopOnFailure > 0 /\ fails' = StopOnFailure
      BY <1>1, <2>1, <3>2, <3>6
    <3> QED
      BY <2>1, <2>4, <3>5, <3>7 DEF FailuresInv
  <2> QED
    BY <2>3, <2>4
<1>9. ASSUME NEW j \in Jobs, JobStep(j), UNCHANGED isStream PROVE FailuresInv'
  <2> USE <1>9
  <2>1. Active(j) /\ UNCHANGED <<isStream, pc, run, since, fails, lastFire>>
    BY DEF JobStep, Refused, Run, WorkJobs, RecordFailure, Join, Active
  <2>2. pc = "firing"
    BY <2>1 DEF TreeInv, RunsDoNotOverlap
  <2>3. ASSUME bad' \in {bad, bad \cup {run}}, lastFailure' \in {lastFailure, lastFire},
               Recorded => Recorded'
        PROVE  FailuresInv'
    BY <2>1, <2>2, <2>3, JobKeepsFailures
  <2>4. ASSUME bad' = bad, lastFailure' = lastFailure,
               \A n \in Jobs : job'[n] = "failed" <=> job[n] = "failed"
        PROVE  FailuresInv'
    BY <2>1, <2>3, <2>4 DEF Recorded
  <2>5. ASSUME bad' = bad \cup {run}, lastFailure' = lastFailure,
               job' = [job EXCEPT ![j] = "failed"]
        PROVE  FailuresInv'
    <3>1. job'[j] = "failed"
      BY <2>5 DEF TypeOK
    <3> QED
      BY <2>1, <2>3, <2>5, <3>1 DEF Recorded
  <2>6. CASE Refused(j)
    BY <2>5, <2>6 DEF Refused
  <2>7. CASE Run(j)
    BY <2>4, <2>5, <2>7 DEF Run, TypeOK
  <2>8. CASE WorkJobs(j)
    <3>1. \A n \in Children(j) : job[n] = "idle"
      BY <2>8 DEF WorkJobs, TreeInv, SpawnedByParent, Children
    <3>2. job[j] # "failed" /\ \A n \in Jobs : job'[n] =
            IF n = j THEN "waiting" ELSE IF n \in Children(j) THEN "spawned" ELSE job[n]
      BY <2>8 DEF WorkJobs
    <3>3. \A n \in Jobs : job'[n] = "failed" <=> job[n] = "failed"
      BY <3>1, <3>2
    <3> QED
      BY <2>4, <2>8, <3>3 DEF WorkJobs
  <2>9. CASE RecordFailure(j)
    <3>1. bad' = bad /\ lastFailure' = lastFire /\ job[j] = "failed"
      BY <2>9 DEF RecordFailure
    <3>2. CASE isStream
      BY <1>1, <2>1, <2>2, <3>1, <3>2 DEF FailuresInv
    <3>3. CASE ~isStream
      <4>1. lastFire = run /\ Recorded
        BY <2>2, <3>3 DEF FailuresInv
      <4>2. Recorded'
        BY <2>1, <3>1, <4>1 DEF Recorded
      <4> QED
        BY <2>3, <3>1, <4>2
    <3> QED
      BY <3>2, <3>3
  <2>10. CASE Join(j)
    BY <2>4, <2>10 DEF Join, TypeOK
  <2> QED
    BY <2>6, <2>7, <2>8, <2>9, <2>10 DEF JobStep
<1>10. ASSUME NEW n \in Nodes, Submit(n), UNCHANGED isStream PROVE FailuresInv'
  <2> USE <1>10
  <2>1. Active(n) /\ UNCHANGED <<isStream, pc, run, since, fails, lastFire, lastFailure>>
    BY DEF Submit, Active
  <2>2. pc = "firing" /\ n \in Jobs
    BY <2>1 DEF TreeInv, RunsDoNotOverlap, Jobs
  <2>3. Target[n] \in managers
    BY <2>2 DEF TreeInv, ClientsMade
  <2>4. bad' = bad /\ job' = [job EXCEPT ![n] = "queued"] /\ job[n] = "spawned"
    BY <2>3 DEF Submit
  <2>5. \A j \in Jobs : job'[j] = "failed" <=> job[j] = "failed"
    BY <2>2, <2>4 DEF TypeOK
  <2>6. Recorded => Recorded'
    BY <2>1, <2>4, <2>5 DEF Recorded
  <2> QED
    BY <2>1, <2>2, <2>4, <2>6, JobKeepsFailures
<1> QED
  BY <1>2, <1>3, <1>4, <1>5, <1>6, <1>7, <1>8, <1>9, <1>10 DEF Next, Progress

\* For every tree, limit and number of runs: consecutiveFailures is the row of
\* failed runs since the task was started, a failure in any branch included,
\* and the task is disabled by the run that makes the row as long as
\* max-failures, neither earlier nor later (task.go:479-492).
THEOREM FailuresSafe == Spec => []FailuresDisable
<1>1. Init => FailuresInv
  BY StopAssumption DEF Init, FailuresInv, IsRow
<1>2. TypeOK /\ FailuresInv => FailuresDisable
  BY DEF FailuresInv, FailuresDisable, FailuresAreCounted, DisabledOnTime, TypeOK
<1> QED
  BY <1>1, <1>2, FailuresStep, TreeHolds, TypeCorrect, PTL DEF Spec
=============================================================================
