-------------------------------- MODULE Task --------------------------------
(***************************************************************************)
(* The life of one task of the scheduler: scheduler/task.go and the entry  *)
(* points of scheduler/scheduler.go that create, start, stop, enable,      *)
(* remove and kill it, with the spin or stream goroutine of each start, the*)
(* waitForSchedule goroutines, the handlers of its stopped, ended and      *)
(* disabled events, and its subscriptions on the nodes it uses plugins of. *)
(*                                                                         *)
(* The task mutex is held across steps only by fire().  The checks of      *)
(* startTask and stopTask read t.state without it and are steps of their   *)
(* own.  The n-th Spin makes the n-th kill channel and the n-th goroutine, *)
(* so a number in Spins names all three (0 is the nil channel).            *)
(***************************************************************************)
EXTENDS Integers, FiniteSets

CONSTANTS
  Clients,       \* goroutines calling the scheduler's API
  Groups,        \* nodes that run plugins of the workflow (depGroups)
  Streams,       \* whether the schedule may be a StreamingSchedule: of BOOLEAN
  StopOnFailure, \* max-failures; negative is "never"
  MaxStarts,     \* bound: number of StartTask calls that pass the checks
  Ops            \* the API calls the clients make

ASSUME GroupsAssumption == Groups # {}
ASSUME StreamAssumption == Streams \subseteq BOOLEAN
ASSUME StopOnFailureAssumption == StopOnFailure \in Int
ASSUME StartsAssumption == MaxStarts \in Nat
ASSUME OpsAssumption == Ops \subseteq {"stop", "enable", "remove", "kill"}

Spins == 1..MaxStarts

VARIABLES
  isStream, \* the schedule is a StreamingSchedule, never updated
  inTable,  \* the task is in scheduler.tasks
  state,    \* task.state
  locked,   \* the task mutex is held by fire()
  killChan, \* task.killChan
  closed,   \* kill channels that have been closed
  spun,     \* number of kill channels made so far
  spin,     \* the goroutines spin() or stream()
  waiting,  \* waitForSchedule goroutines by the kill channel they read
  event,    \* handlers of the event each spin() emits when it returns
  subs,     \* nodes on which the task is subscribed
  client,   \* the API calls in progress
  starts,   \* StartTask calls that passed the checks
  killed,   \* scheduler.Stop has killed the task while it was running
  crashed   \* the process has panicked

vars == <<isStream, inTable, state, locked, killChan, closed, spun, spin,
          waiting, event, subs, client, starts, killed, crashed>>
taskVars == <<state, locked, killChan, closed, spun, spin, waiting>>

Running == {"Spinning", "Firing"}
Off == {"Stopped", "Ended", "Disabled"}
States == Running \cup Off \cup {"Stopping"}

Gone == [pc |-> "gone", chan |-> 0, fails |-> 0]
Idle == [pc |-> "idle", done |-> {}]
NoEvent == [pc |-> "none", todo |-> {}]
Alive(n) == spin[n].pc # "gone"

Init ==
  /\ isStream \in Streams
  /\ inTable = FALSE
  /\ state = "Stopped"
  /\ locked = FALSE
  /\ killChan = 0
  /\ closed = {}
  /\ spun = 0
  /\ spin = [n \in Spins |-> Gone]
  /\ waiting = [n \in 0..MaxStarts |-> 0]
  /\ event = [n \in Spins |-> NoEvent]
  /\ subs = {}
  /\ client = [c \in Clients |-> Idle]
  /\ starts = 0
  /\ killed = FALSE
  /\ crashed = FALSE

Goto(c, pc) == client' = [client EXCEPT ![c].pc = pc]
Return(c) == client' = [client EXCEPT ![c] = Idle]
-----------------------------------------------------------------------------
(* scheduler.createTask, with or without startOnCreate.                     *)
CreateTask(c) ==
  /\ client[c] = Idle
  /\ ~inTable /\ spun = 0 /\ starts = 0
  /\ inTable' = TRUE
  /\ \/ Goto(c, "start") \/ UNCHANGED client
  /\ UNCHANGED <<taskVars, event, subs, starts, killed, crashed>>

(* scheduler.startTask                                                      *)
StartTask(c) ==
  /\ client[c] = Idle
  /\ inTable
  /\ Goto(c, "start")
  /\ UNCHANGED <<inTable, taskVars, event, subs, starts, killed, crashed>>

StartIsDisabled(c) ==
  /\ client[c].pc = "start"
  /\ IF state = "Disabled" THEN Return(c) ELSE Goto(c, "startRunning")
  /\ UNCHANGED <<inTable, taskVars, event, subs, starts, killed, crashed>>

\* "task is already running", then schedule.Validate, which may refuse.
StartIsRunning(c) ==
  /\ client[c].pc = "startRunning"
  /\ \/ /\ Return(c)
        /\ UNCHANGED starts
     \/ /\ state \notin Running
        /\ starts < MaxStarts
        /\ starts' = starts + 1
        /\ Goto(c, "subscribe")
  /\ UNCHANGED <<inTable, taskVars, event, subs, killed, crashed>>

\* One round of SubscribePlugins: SubscribeDeps refuses a task that is already
\* subscribed on that node, and may fail for reasons of its own.
Subscribe(c) ==
  /\ client[c].pc = "subscribe"
  /\ \E k \in Groups \ client[c].done :
       \/ /\ client' = [client EXCEPT ![c].pc = "rollback"]
          /\ UNCHANGED subs
       \/ /\ k \notin subs
          /\ subs' = subs \cup {k}
          /\ client' = [client EXCEPT ![c].done = @ \cup {k},
               ![c].pc = IF client[c].done \cup {k} = Groups THEN "spin" ELSE @]
  /\ UNCHANGED <<inTable, taskVars, event, starts, killed, crashed>>

\* The error path of SubscribePlugins undoes what this call subscribed.
RollbackAll(c) ==
  /\ client[c].pc = "rollback"
  /\ Return(c)
  /\ subs' = {}
  /\ UNCHANGED <<inTable, taskVars, event, starts, killed, crashed>>
Rollback(c) ==
  /\ client[c].pc = "rollback"
  /\ IF client[c].done = {}
     THEN Return(c) /\ UNCHANGED subs
     ELSE \E k \in client[c].done :
            /\ subs' = subs \ {k}
            /\ client' = [client EXCEPT ![c].done = @ \ {k}]
  /\ UNCHANGED <<inTable, taskVars, event, starts, killed, crashed>>

\* task.Spin: a streaming task is started whatever its state.
Spin(c) ==
  /\ client[c].pc = "spin"
  /\ ~locked
  /\ IF isStream \/ state \in {"Stopped", "Ended"}
     THEN /\ state' = "Spinning"
          /\ spun' = spun + 1
          /\ killChan' = spun + 1
          /\ spin' = [spin EXCEPT ![spun + 1] =
                        [pc |-> IF isStream THEN "connect" ELSE "loop",
                         chan |-> 0, fails |-> 0]]
     ELSE UNCHANGED <<state, spun, killChan, spin>>
  /\ Return(c)
  /\ UNCHANGED <<inTable, locked, closed, waiting, event, subs, starts, killed,
                 crashed>>
-----------------------------------------------------------------------------
(* scheduler.stopTask, EnableTask, RemoveTask and Stop.                     *)

StopTask(c) ==
  /\ "stop" \in Ops
  /\ client[c] = Idle
  /\ inTable
  /\ state \notin Off
  /\ Goto(c, "stop")
  /\ UNCHANGED <<inTable, taskVars, event, subs, starts, killed, crashed>>

\* close(t.killChan): closing a closed channel panics.
CloseKillChan ==
  IF killChan \in closed
  THEN crashed' = TRUE /\ UNCHANGED closed
  ELSE closed' = closed \cup {killChan} /\ UNCHANGED crashed

Stop(c) ==
  /\ client[c].pc = "stop"
  /\ ~locked
  /\ IF state \in Running
     THEN state' = "Stopping" /\ CloseKillChan
     ELSE UNCHANGED <<state, closed, crashed>>
  /\ Return(c)
  /\ UNCHANGED <<inTable, locked, killChan, spun, spin, waiting, event, subs,
                 starts, killed>>

Enable(c) ==
  /\ "enable" \in Ops
  /\ client[c] = Idle
  /\ inTable
  /\ ~locked
  /\ state = "Disabled"
  /\ state' = "Stopped"
  /\ UNCHANGED <<inTable, locked, killChan, closed, spun, spin, waiting, event,
                 subs, client, starts, killed, crashed>>

\* taskCollection.remove reads t.state without the task's mutex.
RemoveTask(c) ==
  /\ "remove" \in Ops
  /\ client[c] = Idle
  /\ inTable
  /\ state \in Off
  /\ inTable' = FALSE
  /\ UNCHANGED <<taskVars, event, subs, client, starts, killed, crashed>>

\* scheduler.Stop calls task.Kill.
Kill(c) ==
  /\ "kill" \in Ops
  /\ client[c] = Idle
  /\ inTable
  /\ ~locked
  /\ state \in Running
  /\ CloseKillChan
  /\ state' = "Disabled"
  /\ killed' = TRUE
  /\ UNCHANGED <<inTable, locked, killChan, spun, spin, waiting, event, subs,
                 client, starts>>
-----------------------------------------------------------------------------
(* waitForSchedule.                                                         *)

\* Its select first reads t.killChan, then waits in schedule.Wait.
WaiterStart ==
  /\ waiting[0] > 0
  /\ waiting' = [waiting EXCEPT ![0] = @ - 1, ![killChan] = @ + 1]
  /\ UNCHANGED <<inTable, state, locked, killChan, closed, spun, spin, event,
                 subs, client, starts, killed, crashed>>

WaiterKilled(h) ==
  /\ waiting[h] > 0
  /\ h \in closed
  /\ waiting' = [waiting EXCEPT ![h] = @ - 1]
  /\ UNCHANGED <<inTable, state, locked, killChan, closed, spun, spin, event,
                 subs, client, starts, killed, crashed>>
-----------------------------------------------------------------------------
(* task.spin()                                                              *)

SpinTo(n, pc) == spin' = [spin EXCEPT ![n].pc = pc]

\* Top of the loop: go waitForSchedule, and read t.killChan for the select.
SpinLoopNoWaiter(n) ==
  /\ spin[n].pc = "loop"
  /\ spin' = [spin EXCEPT ![n].pc = "select", ![n].chan = killChan]
  /\ UNCHANGED <<inTable, state, locked, killChan, closed, spun, waiting, event,
                 subs, client, starts, killed, crashed>>
SpinLoop(n) ==
  /\ spin[n].pc = "loop"
  /\ waiting' = [waiting EXCEPT ![0] = @ + 1]
  /\ spin' = [spin EXCEPT ![n].pc = "select", ![n].chan = killChan]
  /\ UNCHANGED <<inTable, state, locked, killChan, closed, spun, event, subs,
                 client, starts, killed, crashed>>

\* A waiter whose Wait returned hands its answer to this goroutine.
ScheduleResponse(n) ==
  /\ spin[n].pc = "select"
  /\ \E h \in Spins :
       /\ waiting[h] > 0
       /\ waiting' = [waiting EXCEPT ![h] = @ - 1]
  /\ \E pc \in {"fire", "ended", "disable"} : SpinTo(n, pc)
  /\ UNCHANGED <<inTable, state, locked, killChan, closed, spun, event, subs,
                 client, starts, killed, crashed>>

KillIgnored(n) ==
  /\ spin[n].pc \in {"select", "listen"}
  /\ spin[n].chan \in closed
  /\ SpinTo(n, "loop")
  /\ UNCHANGED <<inTable, state, locked, killChan, closed, spun, waiting, event,
                 subs, client, starts, killed, crashed>>
KillReceived(n) ==
  /\ spin[n].pc \in {"select", "listen"}
  /\ spin[n].chan \in closed
  /\ SpinTo(n, "stopped")
  /\ UNCHANGED <<inTable, state, locked, killChan, closed, spun, waiting, event,
                 subs, client, starts, killed, crashed>>

\* fire() holds the mutex until the workflow has run.
Fire(n) ==
  /\ spin[n].pc = "fire"
  /\ ~locked
  /\ locked' = TRUE
  /\ state' = "Firing"
  /\ SpinTo(n, "firing")
  /\ UNCHANGED <<inTable, killChan, closed, spun, waiting, event, subs, client,
                 starts, killed, crashed>>

\* Where the loop goes when its run of failures has the given length.
AfterFailures(n, fails, pc) ==
  spin' = [spin EXCEPT
    ![n].fails = IF StopOnFailure < 0 THEN 0 ELSE fails,
    ![n].pc = IF StopOnFailure >= 0 /\ fails >= StopOnFailure
              THEN "disable" ELSE pc]

FireReturns(n) ==
  /\ spin[n].pc = "firing"
  /\ locked' = FALSE
  /\ state' = "Spinning"
  /\ \E fails \in {0, spin[n].fails + 1} : AfterFailures(n, fails, "loop")
  /\ UNCHANGED <<inTable, killChan, closed, spun, waiting, event, subs, client,
                 starts, killed, crashed>>

\* The goroutine sets the final state, emits its event and returns.
FinalState ==
  [pc \in {"stopped", "ended", "disable"} |->
     CASE pc = "stopped" -> "Stopped"
       [] pc = "ended" -> "Ended"
       [] pc = "disable" -> "Disabled"]

SpinStaysAfterEvent(n) ==
  /\ spin[n].pc \in DOMAIN FinalState
  /\ ~locked
  /\ state' = FinalState[spin[n].pc]
  /\ spin' = [spin EXCEPT ![n].pc = "loop"]
  /\ event' = [event EXCEPT ![n].pc = "emitted"]
  /\ UNCHANGED <<inTable, locked, killChan, closed, spun, waiting, subs, client,
                 starts, killed, crashed>>
SpinReturns(n) ==
  /\ spin[n].pc \in DOMAIN FinalState
  /\ ~locked
  /\ state' = FinalState[spin[n].pc]
  /\ spin' = [spin EXCEPT ![n] = Gone]
  /\ event' = [event EXCEPT ![n].pc = "emitted"]
  /\ UNCHANGED <<inTable, locked, killChan, closed, spun, waiting, subs, client,
                 starts, killed, crashed>>
-----------------------------------------------------------------------------
(* task.stream()                                                            *)

\* StreamMetrics sets up the stream, or fails and is tried again.
Connect(n) ==
  /\ spin[n].pc = "connect"
  /\ \/ spin' = [spin EXCEPT ![n].pc = "listenLoop", ![n].fails = 0]
     \/ AfterFailures(n, spin[n].fails + 1, "connect")
  /\ UNCHANGED <<inTable, state, locked, killChan, closed, spun, waiting, event,
                 subs, client, starts, killed, crashed>>

\* The inner loop reads t.killChan for each select.
ListenLoop(n) ==
  /\ spin[n].pc = "listenLoop"
  /\ spin' = [spin EXCEPT ![n].pc = "listen", ![n].chan = killChan]
  /\ UNCHANGED <<inTable, state, locked, killChan, closed, spun, waiting, event,
                 subs, client, starts, killed, crashed>>

\* Metrics run the workflow; an error counts, and a broken connection makes
\* the outer loop connect again.
Listen(n) ==
  /\ spin[n].pc = "listen"
  /\ \/ spin' = [spin EXCEPT ![n].pc = "listenLoop", ![n].fails = 0]
     \/ spin' = [spin EXCEPT ![n].pc = "listenLoop"]
     \/ \E pc \in {"listenLoop", "connect"} :
          AfterFailures(n, spin[n].fails + 1, pc)
  /\ UNCHANGED <<inTable, state, locked, killChan, closed, spun, waiting, event,
                 subs, client, starts, killed, crashed>>
-----------------------------------------------------------------------------
(* HandleGomitEvent for TaskStopped, TaskEnded and TaskDisabled: a goroutine*)
(* of its own looks the task up and unsubscribes it node by node.           *)
HandleEvent(n) ==
  /\ event[n].pc = "emitted"
  /\ IF inTable
     THEN event' = [event EXCEPT ![n] = [pc |-> "unsubscribe", todo |-> Groups]]
          /\ UNCHANGED crashed
     ELSE crashed' = TRUE /\ UNCHANGED event
  /\ UNCHANGED <<inTable, taskVars, subs, client, starts, killed>>

Unsubscribe(n) ==
  /\ event[n].pc = "unsubscribe"
  /\ \E k \in event[n].todo :
       /\ subs' = subs \ {k}
       /\ event' = [event EXCEPT ![n] =
            IF @.todo = {k} THEN NoEvent
            ELSE [pc |-> "unsubscribe", todo |-> @.todo \ {k}]]
  /\ UNCHANGED <<inTable, taskVars, client, starts, killed, crashed>>
-----------------------------------------------------------------------------
Call(c) ==
  \/ CreateTask(c) \/ StartTask(c) \/ StopTask(c)
  \/ Enable(c) \/ RemoveTask(c) \/ Kill(c)
InCall(c) ==
  \/ StartIsDisabled(c) \/ StartIsRunning(c) \/ Subscribe(c) \/ Rollback(c)
  \/ Spin(c) \/ Stop(c)
SpinStep(n) ==
  \/ SpinLoop(n) \/ Fire(n) \/ FireReturns(n) \/ SpinReturns(n)
  \/ Connect(n) \/ ListenLoop(n)
Waiter == WaiterStart \/ \E h \in Spins : WaiterKilled(h)
EventStep(n) == HandleEvent(n) \/ Unsubscribe(n)

Step(A) == ~crashed /\ A /\ UNCHANGED isStream

Next ==
  \/ \E c \in Clients : Step(Call(c)) \/ Step(InCall(c))
  \/ \E n \in Spins :
       \/ Step(SpinStep(n)) \/ Step(ScheduleResponse(n)) \/ Step(Listen(n))
       \/ Step(KillReceived(n)) \/ Step(EventStep(n))
  \/ Step(Waiter)

Spec == Init /\ [][Next]_vars

\* Goroutines that can run do run, a workflow ends, and a select that is offered
\* a closed kill channel again and again takes it in the end.
Fairness ==
  /\ \A c \in Clients : WF_vars(Step(InCall(c)))
  /\ \A n \in Spins :
       /\ WF_vars(Step(SpinStep(n)))
       /\ SF_vars(Step(KillReceived(n)))
       /\ WF_vars(Step(EventStep(n)))
  /\ WF_vars(Step(Waiter))
LiveSpec == Spec /\ Fairness
-----------------------------------------------------------------------------
(* Properties.                                                              *)

\* "stopped: a task that is not running" (docs/TASKS.md): until scheduler.Stop
\* kills the task, one that is stopped, ended or disabled has no goroutine left
\* that could fire it (task.go:463-538).
StoppedIsIdle ==
  ~killed /\ state \in Off => \A n \in Spins : ~Alive(n)

\* No two starts of a task are ever alive together, however many clients start,
\* stop, enable and kill it at once (task.go:239-264).
OneSpin == \A m, n \in Spins : Alive(m) /\ Alive(n) => m = n

\* A task whose goroutine is alive is subscribed on every node it needs, despite
\* unsubscribing handlers and concurrent starts (task.go:400, scheduler.go:807).
RunningIsSubscribed == \A n \in Spins : Alive(n) => subs = Groups

\* The spin goroutine never waits for a schedule nobody waits on: as long as its
\* kill channel is open a waiter exists that will answer it, whatever waiters of
\* earlier starts are left (task.go:468, 564).
SpinHasWaiter ==
  \A n \in Spins :
    spin[n].pc = "select" /\ spin[n].chan \notin closed
      => waiting[0] + waiting[spin[n].chan] > 0

\* A task told to stop stops, even when its select prefers the schedule for a
\* while, unless a second stop panics (task.go:357, 526).
StopTakesEffect ==
  \A n \in Spins : (n \in closed) ~> (~Alive(n) \/ crashed)
=============================================================================
