----------------------------- MODULE WorkQueue -----------------------------
(***************************************************************************)
(* One job queue of the scheduler's work manager together with its worker  *)
(* pool: scheduler/queue.go, scheduler/work_manager.go, scheduler/worker.go*)
(* and the promise of pkg/promise that reports a job's end to its caller.  *)
(*                                                                         *)
(* Goroutines: the callers of workManager.Work (one job outstanding each,  *)
(* because every caller awaits its promise), the queue's start() loop, the *)
(* handle() goroutine it spawns, the workers, the loop of workManager.Start*)
(* that drains Err, and the caller of workManager.Stop.  Every critical    *)
(* section of q.mutex and every channel operation is a step of its own; a  *)
(* send on an unbuffered channel and its receive are one joint step.       *)
(***************************************************************************)
EXTENDS Naturals, Sequences

CONSTANTS
  Callers,   \* goroutines that submit jobs; a caller also names its job
  Workers,   \* the worker pool of this queue
  Limit,     \* queue.limit; 0 is "no limit"
  Kind,      \* which of the three queues this is
  NoJob

ASSUME CallersAssumption == NoJob \notin Callers
ASSUME LimitAssumption == Limit \in Nat
ASSUME KindAssumption == Kind \in {"collect", "process", "publish"}

VARIABLES
  status,      \* queue.status
  items,       \* queue.items
  kill,        \* queue.kill has been closed
  eventClosed, \* queue.Event has been closed
  loop,        \* goroutine start(): where it is and the job it holds
  handler,     \* goroutine handle(): where it is and the job it holds
  worker,      \* goroutines worker.start()
  errLoop,     \* the goroutine of workManager.Start
  stopper,     \* progress of workManager.Stop
  caller,      \* goroutines inside workManager.Work(j).Promise().Await()
  promise,     \* outcome of the caller's current job
  swallowed,   \* jobs received by the "<-q.Event" of a loop that is exiting
  crashed      \* the process has panicked

vars == <<status, items, kill, eventClosed, loop, handler, worker, errLoop,
          stopper, caller, promise, swallowed, crashed>>

Statuses == {"Stopped", "Running", "Working"}
Outcomes == {"ran", "overdue", "limitExceeded"}

At(pc, job) == [pc |-> pc, job |-> job]

\* worker.start() returns once workerKillChan is closed, the Err loop once
\* workManager.kill is closed.
WorkersKilled == stopper \in {"workersKilled", "done"}
ErrLoopKilled == stopper = "done"
Stopping == stopper # "idle"
-----------------------------------------------------------------------------
(* scheduler.New: newWorkManager starts the queue and its workers, then     *)
(* workManager.Start starts the loop that drains Err.                       *)
Init ==
  /\ status = "Running"
  /\ items = <<>>
  /\ kill = FALSE
  /\ eventClosed = FALSE
  /\ loop = At("select", NoJob)
  /\ handler = At("none", NoJob)
  /\ worker \in {f \in [Workers -> {At("select", NoJob), At("absent", NoJob)}] :
                   \E w \in Workers : f[w].pc = "select"}
  /\ errLoop = "select"
  /\ stopper = "idle"
  /\ caller = [c \in Callers |-> "idle"]
  /\ promise = [c \in Callers |-> "pending"]
  /\ swallowed = {}
  /\ crashed = FALSE

(* promise.Complete: the first outcome stands.                              *)
Complete(c, outcome) ==
  promise' = IF promise[c] = "pending" THEN [promise EXCEPT ![c] = outcome]
                                       ELSE promise
-----------------------------------------------------------------------------
(* Callers.                                                                 *)

\* Work: a new queuedJob with a fresh promise, then the send on q.Event.
Work(c) ==
  /\ caller[c] = "idle"
  /\ caller' = [caller EXCEPT ![c] = "sending"]
  /\ promise' = [promise EXCEPT ![c] = "pending"]
  /\ UNCHANGED <<status, items, kill, eventClosed, loop, handler, worker,
                 errLoop, stopper, swallowed, crashed>>

\* Await returns: the caller goes on and may submit its next job.
Await(c) ==
  /\ caller[c] = "awaiting"
  /\ promise[c] # "pending"
  /\ caller' = [caller EXCEPT ![c] = "idle"]
  /\ UNCHANGED <<status, items, kill, eventClosed, loop, handler, worker,
                 errLoop, stopper, promise, swallowed, crashed>>

\* A send on the closed Event channel panics.
SendOnClosed(c) ==
  /\ caller[c] = "sending"
  /\ eventClosed
  /\ crashed' = TRUE
  /\ UNCHANGED <<status, items, kill, eventClosed, loop, handler, worker,
                 errLoop, stopper, caller, promise, swallowed>>
-----------------------------------------------------------------------------
(* queue.start(): the loop.                                                 *)

LoopReceive(c) ==
  /\ loop.pc = "select"
  /\ caller[c] = "sending"
  /\ ~eventClosed
  /\ loop' = At("push", c)
  /\ caller' = [caller EXCEPT ![c] = "awaiting"]
  /\ UNCHANGED <<status, items, kill, eventClosed, handler, worker, errLoop,
                 stopper, promise, swallowed, crashed>>

HasRoom == Limit = 0 \/ Len(items) + 1 <= Limit

LoopPushThenForget ==
  /\ loop.pc = "push"
  /\ items' = IF HasRoom THEN Append(items, loop.job) ELSE items
  /\ loop' = IF HasRoom THEN At("wake", NoJob) ELSE At("select", NoJob)
  /\ UNCHANGED <<status, kill, eventClosed, handler, worker, errLoop,
                 stopper, caller, promise, swallowed, crashed>>
LoopPush ==
  /\ loop.pc = "push"
  /\ IF HasRoom
     THEN /\ items' = Append(items, loop.job)
          /\ loop' = At("wake", NoJob)
     ELSE /\ loop' = At("reportErr", loop.job)
          /\ UNCHANGED items
  /\ UNCHANGED <<status, kill, eventClosed, handler, worker, errLoop,
                 stopper, caller, promise, swallowed, crashed>>

\* The status test after a push, and "go q.handle()".
LoopWake ==
  /\ loop.pc = "wake"
  /\ loop' = At("select", NoJob)
  /\ IF status = "Running"
     THEN status' = "Working" /\ handler' = At("pop", NoJob)
     ELSE UNCHANGED <<status, handler>>
  /\ UNCHANGED <<items, kill, eventClosed, worker, errLoop, stopper, caller,
                 promise, swallowed, crashed>>

\* "q.Err <- qe", received by the Err loop.
LoopReportErr ==
  /\ loop.pc = "reportErr"
  /\ errLoop = "select"
  /\ loop' = At("reject", loop.job)
  /\ UNCHANGED <<status, items, kill, eventClosed, handler, worker, errLoop,
                 stopper, caller, promise, swallowed, crashed>>

LoopReject ==
  /\ loop.pc = "reject"
  /\ Complete(loop.job, "limitExceeded")
  /\ loop' = At("select", NoJob)
  /\ UNCHANGED <<status, items, kill, eventClosed, handler, worker, errLoop,
                 stopper, caller, swallowed, crashed>>

\* "case <-q.kill": spawn the closer, then wait in "<-q.Event".
LoopKilled ==
  /\ loop.pc = "select"
  /\ kill
  /\ loop' = At("drain", NoJob)
  /\ UNCHANGED <<status, items, kill, eventClosed, handler, worker, errLoop,
                 stopper, caller, promise, swallowed, crashed>>

\* go func() { close(q.Event) }()
CloseEvent ==
  /\ loop.pc \in {"drain", "gone"}
  /\ ~eventClosed
  /\ eventClosed' = TRUE
  /\ UNCHANGED <<status, items, kill, loop, handler, worker, errLoop, stopper,
                 caller, promise, swallowed, crashed>>

\* "<-q.Event; return": a job still being sent is received and dropped.
LoopDrain ==
  /\ loop.pc = "drain"
  /\ loop' = At("gone", NoJob)
  /\ \/ /\ eventClosed
        /\ UNCHANGED <<caller, swallowed>>
     \/ /\ ~eventClosed
        /\ \E c \in Callers :
             /\ caller[c] = "sending"
             /\ caller' = [caller EXCEPT ![c] = "awaiting"]
             /\ swallowed' = swallowed \cup {c}
  /\ UNCHANGED <<status, items, kill, eventClosed, handler, worker, errLoop,
                 stopper, promise, crashed>>
-----------------------------------------------------------------------------
(* queue.handle() and its handler, workManager.sendToWorker.                *)

HandlePeek ==
  /\ handler.pc = "pop"
  /\ handler' = IF items = <<>> THEN At("idle", NoJob)
                                ELSE At("send", Head(items))
  /\ UNCHANGED <<status, items, kill, eventClosed, loop, worker, errLoop,
                 stopper, caller, promise, swallowed, crashed>>
HandlePop ==
  /\ handler.pc = "pop"
  /\ IF items = <<>>
     THEN /\ handler' = At("idle", NoJob)
          /\ UNCHANGED items
     ELSE /\ handler' = At("send", Head(items))
          /\ items' = Tail(items)
  /\ UNCHANGED <<status, kill, eventClosed, loop, worker, errLoop, stopper,
                 caller, promise, swallowed, crashed>>

\* "w.collectchan <- j", received by an idle worker.
HandleSend(w) ==
  /\ handler.pc = "send"
  /\ worker[w].pc = "select"
  /\ worker' = [worker EXCEPT ![w] = At("run", handler.job)]
  /\ handler' = At("pop", NoJob)
  /\ UNCHANGED <<status, items, kill, eventClosed, loop, errLoop, stopper,
                 caller, promise, swallowed, crashed>>

\* The critical section after errQueueEmpty: it is not the one of pop().
HandleIdleKeepsStatus ==
  /\ handler.pc = "idle"
  /\ handler' = At("none", NoJob)
  /\ UNCHANGED <<status, items, kill, eventClosed, loop, worker, errLoop,
                 stopper, caller, promise, swallowed, crashed>>
HandleIdle ==
  /\ handler.pc = "idle"
  /\ status' = "Running"
  /\ handler' = At("none", NoJob)
  /\ UNCHANGED <<items, kill, eventClosed, loop, worker, errLoop, stopper,
                 caller, promise, swallowed, crashed>>
-----------------------------------------------------------------------------
(* worker.start().                                                          *)

\* Run the job before its deadline, refuse it afterwards; complete it.
WorkerRun(w) ==
  /\ worker[w].pc = "run"
  /\ \E outcome \in {"ran", "overdue"} : Complete(worker[w].job, outcome)
  /\ worker' = [worker EXCEPT ![w] = At("select", NoJob)]
  /\ UNCHANGED <<status, items, kill, eventClosed, loop, handler, errLoop,
                 stopper, caller, swallowed, crashed>>

WorkerKilled(w) ==
  /\ worker[w].pc = "select"
  /\ WorkersKilled
  /\ worker' = [worker EXCEPT ![w] = At("gone", NoJob)]
  /\ UNCHANGED <<status, items, kill, eventClosed, loop, handler, errLoop,
                 stopper, caller, promise, swallowed, crashed>>

\* AddCollectWorker, AddPublishWorker, AddProcessWorker.
AddWorker(w) ==
  /\ worker[w].pc = "absent"
  /\ worker' = [worker EXCEPT ![w] = At("select", NoJob)]
  /\ UNCHANGED <<status, items, kill, eventClosed, loop, handler, errLoop,
                 stopper, caller, promise, swallowed, crashed>>
-----------------------------------------------------------------------------
(* workManager: the Err loop and Stop, which stops the collect queue only.  *)

ErrLoopExit ==
  /\ errLoop = "select"
  /\ ErrLoopKilled
  /\ errLoop' = "gone"
  /\ UNCHANGED <<status, items, kill, eventClosed, loop, handler, worker,
                 stopper, caller, promise, swallowed, crashed>>

StopQueue ==
  /\ stopper = "idle"
  /\ stopper' = "queueStopped"
  /\ IF Kind = "collect" /\ status # "Stopped"
     THEN kill' = TRUE /\ status' = "Stopped"
     ELSE UNCHANGED <<kill, status>>
  /\ UNCHANGED <<items, eventClosed, loop, handler, worker, errLoop, caller,
                 promise, swallowed, crashed>>

StopWorkers ==
  /\ stopper = "queueStopped"
  /\ stopper' = "workersKilled"
  /\ UNCHANGED <<status, items, kill, eventClosed, loop, handler, worker,
                 errLoop, caller, promise, swallowed, crashed>>

StopErrLoop ==
  /\ stopper = "workersKilled"
  /\ stopper' = "done"
  /\ UNCHANGED <<status, items, kill, eventClosed, loop, handler, worker,
                 errLoop, caller, promise, swallowed, crashed>>
-----------------------------------------------------------------------------
Loop ==
  \/ \E c \in Callers : LoopReceive(c)
  \/ LoopPush
  \/ LoopWake
  \/ LoopReportErr
  \/ LoopReject

LoopStops ==
  \/ LoopKilled
  \/ LoopDrain
  \/ CloseEvent

Handle ==
  \/ HandlePop
  \/ \E w \in Workers : HandleSend(w)
  \/ HandleIdle

Stop ==
  \/ StopQueue
  \/ StopWorkers
  \/ StopErrLoop

Running ==
  \/ \E c \in Callers : Work(c) \/ Await(c)
  \/ Loop
  \/ Handle
  \/ \E w \in Workers : WorkerRun(w) \/ AddWorker(w)

Next ==
  /\ ~crashed
  /\ \/ Running
     \/ \E c \in Callers : SendOnClosed(c)
     \/ LoopStops
     \/ \E w \in Workers : WorkerKilled(w)
     \/ ErrLoopExit
     \/ Stop

Spec == Init /\ [][Next]_vars

\* Goroutines are scheduled fairly; nobody has to submit, and nobody has to call
\* workManager.Stop (scheduler.Stop does not).
Fairness ==
  /\ WF_vars(~crashed /\ Loop)
  /\ WF_vars(~crashed /\ Handle)
  /\ \A w \in Workers : WF_vars(~crashed /\ WorkerRun(w))
LiveSpec == Spec /\ Fairness
-----------------------------------------------------------------------------
(* Properties.                                                              *)

\* Types of the work manager's queue and workers (queue.go:34, worker.go:31); a
\* goroutine names a job exactly between receiving it and passing it on.
TypeOK ==
  /\ status \in Statuses
  /\ items \in Seq(Callers)
  /\ kill \in BOOLEAN
  /\ eventClosed \in BOOLEAN
  /\ loop \in [pc : {"select", "push", "wake", "reportErr", "reject", "drain",
                     "gone"}, job : Callers \cup {NoJob}]
  /\ handler \in [pc : {"none", "pop", "send", "idle"},
                  job : Callers \cup {NoJob}]
  /\ worker \in [Workers -> [pc : {"absent", "select", "run", "gone"},
                             job : Callers \cup {NoJob}]]
  /\ errLoop \in {"select", "gone"}
  /\ stopper \in {"idle", "queueStopped", "workersKilled", "done"}
  /\ caller \in [Callers -> {"idle", "sending", "awaiting"}]
  /\ promise \in [Callers -> {"pending"} \cup Outcomes]
  /\ swallowed \in SUBSET Callers
  /\ crashed \in BOOLEAN
  /\ loop.job # NoJob <=> loop.pc \in {"push", "reportErr", "reject"}
  /\ handler.job # NoJob <=> handler.pc = "send"
  /\ \A w \in Workers : worker[w].job # NoJob <=> worker[w].pc = "run"

\* The places of the work queue subsystem that can hold the job of caller c.
InItems(c) == \E i \in 1..Len(items) : items[i] = c
AtWorker(c) == \E w \in Workers : worker[w].job = c
Held(c) == loop.job = c \/ InItems(c) \/ handler.job = c \/ AtWorker(c)
Outstanding(c) == caller[c] = "awaiting" /\ promise[c] = "pending"

\* A queue that says Working has a goroutine inside handle(), and at most one
\* goroutine is ever inside handle(): the loop starts one only from Running,
\* which no state with an active handler has (queue.go:49-51).
WorkingIsHandled ==
  /\ status = "Working" => handler.pc # "none"
  /\ handler.pc # "none" => status # "Running"

\* No job is lost: a caller that waits for a pending promise has its job in the
\* loop, the queue, the handler or a worker.  The one exception is the job that
\* the exiting loop of a stopped collect queue swallows (queue.go:139).
NoJobLost ==
  \A c \in Callers : Outstanding(c) => Held(c) \/ (c \in swallowed /\ kill)

\* The job of a caller is in one place at a time.
HeldOnce ==
  /\ \A i, j \in 1..Len(items) : items[i] = items[j] => i = j
  /\ \A v, w \in Workers :
       worker[v].job = worker[w].job /\ worker[v].job # NoJob => v = w
  /\ loop.job # NoJob =>
       ~InItems(loop.job) /\ handler.job # loop.job /\ ~AtWorker(loop.job)
  /\ handler.job # NoJob => ~InItems(handler.job) /\ ~AtWorker(handler.job)
  /\ \A w \in Workers : worker[w].job # NoJob => ~InItems(worker[w].job)

\* No job is duplicated or outlives its promise: a job the subsystem holds is
\* still awaited and pending, and is held in one place only (queue.go:163-190,
\* work_manager.go:264-273).
NoJobDuplicated ==
  /\ \A c \in Callers : Held(c) => Outstanding(c)
  /\ HeldOnce

\* The queue never holds more jobs than its limit (queue.go:168).
QueueBounded == Limit > 0 => Len(items) <= Limit

\* Seen from its callers the queue is a job service: every job gets at most one
\* outcome, only after the loop accepted it and before its caller goes on
\* (work_manager.go:222, queue.go:110-157, worker.go:46-70).
Service == INSTANCE JobService WITH
  job <- [c \in Callers |->
            CASE caller[c] = "idle" -> "none"
              [] caller[c] = "sending" -> "submitted"
              [] caller[c] = "awaiting" /\ promise[c] = "pending" -> "accepted"
              [] OTHER -> promise[c]]
IsJobService == Service!Spec

\* A job left in the queue with no goroutine to hand it on: the loop pushed it
\* between the handler's failed pop and the handler's write of Running.
Stranded(c) ==
  /\ InItems(c)
  /\ status = "Running"
  /\ handler.pc = "none"
  /\ loop.pc # "wake"

\* What handle() and the workers do guarantee: a submitted job is completed
\* unless it is stranded in the queue or the work manager is stopped.
CompletedOrStranded ==
  \A c \in Callers :
    (caller[c] = "awaiting") ~> (promise[c] # "pending" \/ Stranded(c) \/ Stopping)

\* A stranded job is completed after all once another caller submits a job and
\* the queue has room for it (with no room the new job is refused and nobody
\* is woken).
StrandedIsRescued ==
  \A c \in Callers :
    (Stranded(c) /\ HasRoom /\ \E d \in Callers : caller[d] = "sending")
      ~> (promise[c] # "pending" \/ Stopping)

\* Under fair goroutines no caller waits for ever, but for the two exceptions
\* that Stranded and Stopping name (queue.go:110-157, worker.go:46-70).
JobsComplete == CompletedOrStranded /\ StrandedIsRescued
=============================================================================
