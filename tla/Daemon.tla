------------------------------- MODULE Daemon -------------------------------
(***************************************************************************)
(* One snapteld process: how it starts its modules, how a signal stops them*)
(* and ends or restarts the process, and the watch streams of the REST API,*)
(* whose handlers the stop has to wait for.                                *)
(*                                                                         *)
(* SIGHUP runs the application again inside the process, with modules of   *)
(* their own; the model ends there, and says what the old modules left.    *)
(* There is one task, with one local collector plugin.  Module Task has the*)
(* goroutines inside a task, PluginPool the plugin processes and Fleet the *)
(* tribe's workers; here they are as far as starting and stopping the      *)
(* daemon meets them.                                                      *)
(*                                                                         *)
(* A task emits events; a goroutine of its own hands each one to the task's*)
(* watchers, holding the mutex of the collection of watchers while it waits*)
(* for every one of them.  The handler of a watch request is the receiver, *)
(* and takes the same mutex to leave the collection.                       *)
(***************************************************************************)
EXTENDS Settings, Sequences

CONSTANTS
  Clients,     \* each sends at most one watch request
  FlagSets,    \* the command lines, and
  FileSets,    \* the configuration files, of the instance
  Files,       \* what is in the auto-discovery directory
  MaxStarts,   \* bound: start requests of users
  MaxNotes     \* bound: metric events not handed out yet

ASSUME BoundsAssumption == MaxStarts \in Nat /\ MaxNotes \in Nat \ {0}

ASSUME SettingsAssumption ==
  /\ \A flags \in FlagSets : flags.addr \subseteq Addresses /\ flags.port \subseteq Int
  /\ \A file \in FileSets : \A f \in file : f.addr \subseteq Addresses

VARIABLES
  proc,   \* "up", "exited" or "restarted" (by a signal), "failed" (log.Fatal, panic)
  d,      \* the modules and goroutines of the daemon
  asked,  \* flags, file and outcome of the configuration being applied
  left    \* clients that have closed their connection

vars == <<proc, d, asked, left>>

\* When the main goroutine begins.
Begun ==
  [main |-> "configure", \* what the main goroutine does next
   sig |-> "none",       \* what the signal goroutine does next
   inbox |-> {},         \* the channel of signal.Notify, with room for one
   cfg |-> [rest |-> FALSE, tribe |-> FALSE, discover |-> FALSE,
            listens |-> FALSE, keys |-> FALSE],
   started |-> FALSE,    \* pluginControl.Started
   closing |-> FALSE,    \* pluginControl.closingChan is made
   grpc |-> FALSE,       \* the gRPC server listens
   runner |-> TRUE,      \* the plugin runner is not stopped
   loaded |-> FALSE,     \* the plugin is in loadedPlugins
   plugin |-> FALSE,     \* a process of the plugin runs
   stray |-> FALSE,      \* history: it was started while control was stopping
   sched |-> FALSE,      \* scheduler.state
   task |-> "none",      \* absent, "stopped", "spinning", "stopping", "disabled"
   dying |-> FALSE,      \* the spin goroutine has a closed killChan to read
   subs |-> FALSE,       \* the task has a subscription group
   starting |-> {},      \* startTask calls between SubscribePlugins and Spin
   starts |-> 0,
   raced |-> FALSE,      \* history: one was in flight when the scheduler stopped
   workers |-> "none",   \* of the tribe: "on", "hopeless", "gone"
   quit |-> FALSE,       \* workerQuitChan is closed
   made |-> FALSE,       \* rest.Server.closingChan is made
   serving |-> FALSE,    \* the REST server listens
   kill |-> FALSE,       \* killChan is closed
   coll |-> <<>>,        \* taskWatcherCollection.coll of the task
   h |-> [c \in Clients |-> "none"],  \* the handlers of the watch requests
   notes |-> 0,          \* goroutines with a started or collected event
   ends |-> 0,           \* goroutines with a stopped event, not yet unsubscribed
   tells |-> 0,          \* such goroutines, waiting for the mutex
   holder |-> {}]        \* the goroutine that has the mutex, if any

Init ==
  /\ proc = "up"
  /\ d = Begun
  /\ asked = {}
  /\ left = {}

Fatal == proc = "up" /\ proc' = "failed" /\ UNCHANGED <<d, asked, left>>

\* Only the daemon changes.
Changes(to) ==
  /\ proc = "up"
  /\ d' = to
  /\ UNCHANGED <<proc, asked, left>>

---------------------------------------------------------------------------
(* The main goroutine *)

\* action: configuration and flags.  Only what later steps read is kept.
Configure ==
  /\ proc = "up" /\ d.main = "configure"
  /\ \E flags \in FlagSets, file \in FileSets :
       LET c == Configured(flags, file) IN
       /\ asked' = {[flags |-> flags, file |-> file, out |-> c]}
       /\ proc' = IF c.ok THEN proc ELSE "failed"
       /\ d' = IF ~c.ok THEN d
                 ELSE [d EXCEPT !.main = "build",
                         !.cfg = [rest |-> c.cfg.rest, tribe |-> c.cfg.tribe,
                                     discover |-> c.cfg.discover,
                                     listens |-> c.cfg.addr.port # Absent
                                                 \/ c.cfg.addr = NoAddress,
                                     keys |-> KeyringsOpen(c.cfg)]]
  /\ UNCHANGED left

\* control.New, scheduler.New, tribe.New, rest.New and the bindings between
\* them, then startInterruptHandling.
Build ==
  /\ proc = "up" /\ d.main = "build"
  /\ d' = [d EXCEPT !.main = "control", !.sig = "waiting"]
  /\ asked' = {}
  /\ UNCHANGED <<proc, left>>

\* tribe.New (no cluster to join) or rest.New (certificate, origins) fails.
BuildFails ==
  /\ d.main = "build"
  /\ d.cfg.tribe \/ d.cfg.rest
  /\ Fatal

\* A file that control loads as a plugin, and one the scheduler takes as a task.
IsPluginFile(f) ==
  ~f.dir /\ f.suffix \notin {"json", "yaml", "yml", "asc"} /\ f.executable
IsTaskFile(f) == ~f.dir /\ f.suffix \in {"json", "yaml", "yml"}

\* pluginControl.Start, up to the auto-discovery.
StartControl ==
  /\ d.main = "control"
  /\ Changes([d EXCEPT !.started = TRUE,
                   !.main = IF d.cfg.discover THEN "discover" ELSE "listen"])

\* pluginControl.Load, of a plugin that is valid and not loaded yet.
Load == [d EXCEPT !.loaded = d.loaded \/ d.started]

\* Its auto-discovery.
Discover ==
  /\ d.main = "discover"
  /\ Changes([(IF \E f \in Files : IsPluginFile(f) THEN Load ELSE d)
                   EXCEPT !.main = "listen"])

\* The rest of it: only now are there a channel for Stop to write to and a
\* gRPC server, made in one step here.  The listener can fail: the address is
\* taken, by another process.
Listen ==
  /\ d.main = "listen"
  /\ Changes([d EXCEPT !.closing = TRUE, !.grpc = TRUE, !.main = "scheduler"])

\* startModule returns the error, and there is nothing started to stop.
ListenFails == d.main = "listen" /\ Fatal

\* Whether a task is created from a file: the plugin its metrics come from
\* must be loaded.
autoDiscoverTasks == d.loaded /\ \E f \in Files : IsTaskFile(f)

\* scheduler.Start.
StartScheduler ==
  /\ d.main = "scheduler"
  /\ LET creates == d.cfg.discover /\ autoDiscoverTasks
     IN  Changes([d EXCEPT !.sched = TRUE,
                       !.task = IF creates THEN "stopped" ELSE @,
                       !.main = IF creates THEN "start task" ELSE "tribe"])

\* tribe.Start.  Workers that find workerQuitChan closed return.
StartTribe ==
  /\ d.main = "tribe"
  /\ Changes([d EXCEPT !.main = "rest",
                   !.workers = IF ~d.cfg.tribe THEN "none"
                               ELSE IF d.quit THEN "gone" ELSE "on"])

\* rest.Server.Start, up to run.
StartRest ==
  /\ d.main = "rest"
  /\ Changes([d EXCEPT !.made = d.cfg.rest,
                   !.main = IF d.cfg.rest THEN "run" ELSE "trust"])

\* run: the listener, and the goroutine that serves it.
Run ==
  /\ d.main = "run"
  /\ d.cfg.listens
  /\ Changes([d EXCEPT !.serving = TRUE, !.main = "trust"])

\* The key pair or the listener fails: log.Fatal, in run or in monitorErrors.
RunFails == d.main = "run" /\ Fatal

\* Trust level and keyrings, after everything is started.
SetTrust ==
  /\ d.main = "trust"
  /\ d.cfg.keys
  /\ Changes([d EXCEPT !.main = "running"])

SetTrustFails == d.main = "trust" /\ ~d.cfg.keys /\ Fatal

---------------------------------------------------------------------------
(* Signals *)

\* A signal, once startInterruptHandling has a channel for it, with room for
\* one; before that the process dies of it.  Its goroutine reads one signal.
Signal(s) ==
  /\ proc = "up"
  /\ d.inbox = {}
  /\ proc' = IF d.sig = "none" THEN "exited" ELSE proc
  /\ d' = IF d.sig = "none" THEN d ELSE [d EXCEPT !.inbox = {s}]
  /\ UNCHANGED <<asked, left>>

\* The goroutine of startInterruptHandling reads the first one.
Receive ==
  /\ d.sig = "waiting" /\ d.inbox # {}
  /\ Changes([d EXCEPT !.sig = "control"])

\* pluginControl.Stop: a send to a channel that is not made blocks for good.
StopControl ==
  /\ d.sig = "control"
  /\ Changes([d EXCEPT !.started = FALSE,
                   !.sig = IF d.closing THEN "plugins" ELSE "blocked"])

\* Mutant: the running plugins are left alone.
StopServers ==
  /\ d.sig = "plugins"
  /\ Changes([d EXCEPT !.grpc = FALSE, !.runner = FALSE, !.sig = "teardown"])

\* Its gRPC server, its runner and the running plugins.
StopPlugins ==
  /\ d.sig = "plugins"
  /\ Changes([d EXCEPT !.grpc = FALSE, !.runner = FALSE, !.plugin = FALSE,
                   !.sig = "teardown"])

\* pluginManager.teardown.
Teardown ==
  /\ d.sig = "teardown"
  /\ Changes([d EXCEPT !.loaded = FALSE, !.sig = "scheduler"])

\* scheduler.Stop, with task.Kill.
StopScheduler ==
  /\ d.sig = "scheduler"
  /\ Changes([d EXCEPT !.sched = FALSE,
                   !.dying = @ \/ d.task = "spinning",
                   !.task = IF @ = "spinning" THEN "disabled" ELSE @,
                   !.raced = d.starting # {},
                   !.sig = IF d.cfg.tribe THEN "tribe"
                           ELSE IF d.cfg.rest THEN "rest" ELSE "end"])

\* tribe.Stop: a worker sees the closed channel when its job is done.
StopTribe ==
  /\ d.sig = "tribe"
  /\ Changes([d EXCEPT !.quit = TRUE, !.sig = "workers",
                   !.workers = IF @ = "on" THEN "gone" ELSE @])

\* workerWaitGroup.Wait.
WaitWorkers ==
  /\ d.sig = "workers"
  /\ d.workers # "hopeless"
  /\ Changes([d EXCEPT !.sig = IF d.cfg.rest THEN "rest" ELSE "end"])

\* Mutant: killChan is not closed.
StopListening ==
  /\ d.sig = "rest"
  /\ d.main # "run"
  /\ Changes([d EXCEPT !.serving = FALSE,
                   !.sig = IF d.made THEN "handlers" ELSE "blocked"])

\* rest.Server.Stop: the channel may not be made, or the listener still nil.
StopRest ==
  /\ d.sig = "rest"
  /\ d.main # "run"
  /\ Changes([d EXCEPT !.kill = d.made, !.serving = FALSE,
                   !.sig = IF d.made THEN "handlers" ELSE "blocked"])

StopRestPanics == d.sig = "rest" /\ d.main = "run" /\ Fatal

\* wg.Wait: the goroutine that serves has returned, the watch handlers must.
WaitHandlers ==
  /\ d.sig = "handlers"
  /\ \A c \in Clients : d.h[c] \in {"none", "gone"}
  /\ Changes([d EXCEPT !.sig = "end"])

\* os.Exit, or cliApp.Run again in this goroutine.
End ==
  /\ proc = "up"
  /\ d.sig = "end"
  /\ proc' = IF d.inbox = {"hup"} THEN "restarted" ELSE "exited"
  /\ UNCHANGED <<d, asked, left>>

---------------------------------------------------------------------------
(* Requests, the task and its events *)

\* The REST server took connections, which outlive its listener.
Reachable == d.made /\ d.main \in {"trust", "running"}

LoadPlugin ==
  /\ Reachable /\ ~d.loaded
  /\ Load # d
  /\ Changes(Load)

\* createTask, of a request that does not start it.
CreateTask ==
  /\ Reachable /\ d.task = "none"
  /\ d.sched /\ d.loaded
  /\ Changes([d EXCEPT !.task = "stopped"])

\* startTask, up to SubscribePlugins: a task that has a subscription group, or
\* whose plugin is not loaded, is not started.  scheduler.state is not looked at.
BeginStart(who) ==
  /\ IF who = "main" THEN d.main = "start task"
     ELSE (Reachable \/ d.workers = "on") /\ d.starts < MaxStarts
  /\ who \notin d.starting
  /\ d.task \in {"stopped", "stopping"}
  /\ LET started == d.loaded /\ ~d.subs
         from == [d EXCEPT !.starts = IF who = "main" THEN @ ELSE @ + 1]
     IN  Changes(IF started
                    THEN [from EXCEPT !.subs = TRUE, !.plugin = TRUE,
                                      !.stray = d.sig = "teardown",
                                      !.starting = @ \cup {who},
                                      !.main = IF who = "main" THEN "spin task" ELSE @]
                    ELSE [from EXCEPT !.main = IF who = "main" THEN "tribe" ELSE @])

\* Its call of task.Spin, and the started event.
FinishStart(who) ==
  /\ who \in d.starting
  /\ Changes([d EXCEPT !.starting = @ \ {who},
                   !.task = IF @ = "stopped" THEN "spinning" ELSE @,
                   !.notes = @ + 1,
                   !.main = IF who = "main" THEN "tribe" ELSE @])

\* stopTask, with task.Stop.
StopTask ==
  /\ Reachable \/ d.workers = "on"
  /\ d.task = "spinning"
  /\ Changes([d EXCEPT !.task = "stopping", !.dying = TRUE])

\* The spin goroutine reads killChan, of a stop or of a kill.
SpinEnds ==
  /\ d.dying
  /\ Changes([d EXCEPT !.dying = FALSE, !.task = "stopped", !.ends = @ + 1])

\* A collection succeeds.
Collect ==
  /\ d.task = "spinning" /\ d.plugin
  /\ d.notes < MaxNotes
  /\ Changes([d EXCEPT !.notes = @ + 1])

\* A worker of the tribe starts to copy a task that no member has.
CopyLostTask ==
  /\ d.workers = "on"
  /\ Changes([d EXCEPT !.workers = "hopeless"])

---------------------------------------------------------------------------
(* Watchers *)

\* HandleGomitEvent takes the mutex with an event of this kind, and keeps it
\* while there are watchers to wait for.
Handing(g, end) ==
  IF g.coll = <<>> THEN g ELSE [g EXCEPT !.holder = {[end |-> end, todo |-> g.coll]}]

\* handleMetricCollected, handleTaskStarted.
HandleNote ==
  /\ d.notes > 0 /\ d.holder = {}
  /\ Changes(Handing([d EXCEPT !.notes = @ - 1], FALSE))

\* The stopped event unsubscribes first; an idle plugin is stopped sooner or
\* later, while the runner runs.
HandleEnd ==
  /\ d.ends > 0
  /\ \E runs \in {d.plugin, d.plugin /\ ~(d.runner /\ d.subs)} :
       Changes([d EXCEPT !.ends = @ - 1, !.tells = @ + 1,
                                 !.subs = FALSE, !.plugin = runs])

\* handleTaskStopped.
TellEnd ==
  /\ d.tells > 0 /\ d.holder = {}
  /\ Changes(Handing([d EXCEPT !.tells = @ - 1], TRUE))

\* What the handler's loop does with an event: told of the end, it closes its
\* watcher before it loops on.
Caught(end) == IF end THEN "close" ELSE "loop"

\* Catch*: the holder sends to its next watcher, whose handler receives in its
\* loop.
Deliver ==
  \E e \in d.holder :
    LET c == Head(e.todo) IN
    /\ d.h[c] = "loop"
    /\ Changes([d EXCEPT
                     !.h[c] = Caught(e.end),
                     !.holder = IF Len(e.todo) = 1 THEN {}
                                ELSE {[e EXCEPT !.todo = Tail(@)]}])

\* watchTask, up to the mutex of taskWatcherCollection.add.
Watch(c) ==
  /\ Reachable /\ d.serving
  /\ c \notin left
  /\ d.h[c] = "none" /\ d.task # "none"
  /\ Changes([d EXCEPT !.h[c] = "add"])

AddWatcher(c) ==
  /\ d.h[c] = "add" /\ d.holder = {}
  /\ Changes([d EXCEPT !.h[c] = "loop", !.coll = Append(@, c)])

\* The client's connection is closed.
ClientLeaves(c) ==
  /\ proc = "up"
  /\ c \notin left
  /\ d.h[c] \notin {"none", "gone"}
  /\ left' = left \cup {c}
  /\ UNCHANGED <<proc, d, asked>>

\* Mutant: the loop does not read killChan.
LeaveWithClient(c) ==
  /\ d.h[c] = "loop"
  /\ c \in left
  /\ Changes([d EXCEPT !.h[c] = "leave"])

\* The loop sees that the client has left or that the server stops.
LeaveWatch(c) ==
  /\ d.h[c] = "loop"
  /\ c \in left \/ d.kill
  /\ Changes([d EXCEPT !.h[c] = "leave"])

\* TaskWatcher.Close: rm takes the mutex.  After an end the handler loops on,
\* otherwise it returns.
CloseWatcher(c) ==
  /\ d.h[c] \in {"close", "leave"} /\ d.holder = {}
  /\ Changes([d EXCEPT !.h[c] = IF @ = "close" THEN "loop" ELSE "gone",
                               !.coll = SelectSeq(@, LAMBDA w : w # c)])

---------------------------------------------------------------------------

Next ==
  \/ \E s \in {"term", "hup"} : Signal(s)
  \/ Configure \/ Build \/ BuildFails
  \/ StartControl \/ Discover \/ Listen \/ ListenFails
  \/ StartScheduler \/ StartTribe \/ StartRest
  \/ Run \/ RunFails \/ SetTrust \/ SetTrustFails
  \/ Receive \/ StopControl \/ StopPlugins \/ Teardown
  \/ StopScheduler \/ StopTribe \/ WaitWorkers
  \/ StopRest \/ StopRestPanics \/ WaitHandlers \/ End
  \/ LoadPlugin \/ CreateTask \/ StopTask
  \/ \E who \in {"main", "user"} : BeginStart(who) \/ FinishStart(who)
  \/ SpinEnds \/ Collect \/ CopyLostTask
  \/ HandleNote \/ HandleEnd \/ TellEnd \/ Deliver
  \/ \E c \in Clients : \/ Watch(c) \/ AddWatcher(c) \/ LeaveWatch(c)
                       \/ CloseWatcher(c) \/ ClientLeaves(c)

Spec == Init /\ [][Next]_vars

\* What the main goroutine, once it handles signals, and the signal goroutine do.
Starts ==
  \/ StartControl \/ Discover \/ Listen \/ ListenFails
  \/ StartScheduler \/ BeginStart("main") \/ FinishStart("main")
  \/ StartTribe \/ StartRest \/ Run \/ RunFails \/ SetTrust \/ SetTrustFails
Stops ==
  \/ Receive \/ StopControl \/ StopPlugins \/ Teardown \/ StopScheduler
  \/ StopTribe \/ WaitWorkers \/ StopRest \/ StopRestPanics \/ WaitHandlers \/ End

\* Goroutines are scheduled.  One that waits for the mutex gets it in the end
\* if it is free again and again: sync.Mutex hands it to the one that has
\* waited too long.  Nothing is promised of users, clients and signals.
Fairness ==
  /\ WF_vars(Starts) /\ WF_vars(Stops)
  /\ WF_vars(FinishStart("user"))
  /\ WF_vars(SpinEnds)
  /\ WF_vars(HandleEnd)
  /\ WF_vars(Deliver)
  /\ SF_vars(HandleNote \/ TellEnd)
  /\ \A c \in Clients : SF_vars(AddWatcher(c) \/ CloseWatcher(c)) /\ WF_vars(LeaveWatch(c))

LiveSpec == Spec /\ Fairness

---------------------------------------------------------------------------

\* The REST server listens on the port that the configuration names, which the
\* tribe tells the other members, and a port given on the command line is that
\* port - unless the address on the command line has no port and replaces one of
\* the configuration file that has (snapteld.go, applyCmdLineFlags).
PortIsTheOneGiven ==
  \A a \in asked : a.out.ok =>
    LET cfg == a.out.cfg
        replaced == /\ a.flags.addr # {} /\ Given(a.flags.addr).port = Absent
                    /\ a.file # {} /\ Given(a.file).addr # {}
                    /\ Given(Given(a.file).addr).port # Absent
    IN  /\ (cfg.addr.port = cfg.port) = ~replaced
        /\ a.flags.port # {} /\ Given(a.flags.port) > 0 => cfg.port = Given(a.flags.port)

\* No task runs after scheduler.Stop, whatever users and the tribe still ask:
\* control, stopped before, has nothing loaded that a start could subscribe to.
\* The exception is a startTask that had subscribed and not yet called Spin.  A
\* process that a signal ended, or restarted, left no plugin process behind,
\* except one that a start brought up while control stopped the others, and
\* neither of its listeners open for the restart to run into.
NothingOutlivesStop ==
  /\ d.sig \in {"tribe", "workers", "rest", "handlers", "end"} /\ d.task = "spinning" => d.raced
  /\ d.sig = "end" => (d.plugin => d.stray) /\ ~d.grpc /\ ~d.serving

\* The goroutine that has the mutex of the watchers sends to a handler that
\* waits for that mutex: neither ever goes on.
Wedged == \E e \in d.holder : d.h[Head(e.todo)] \in {"close", "leave"}

\* The handler of a watch request whose client has left, or whose server
\* stops, returns - unless an event was on its way to it (v1/task.go and
\* v2/watch.go, watchTask; scheduler/watcher.go).
WatchEnds ==
  \A c \in Clients :
    (d.h[c] = "loop" /\ (c \in left \/ d.kill))
      ~> (d.h[c] = "gone" \/ proc # "up" \/ Wedged)

\* A signal that finds the daemon started ends or restarts the process - unless
\* a watch handler is wedged, or a worker of the tribe waits for a task that no
\* member has.  An earlier one does unless it blocks, on the channel that
\* control or the REST server have not made yet (snapteld.go,
\* startInterruptHandling, and the Stop of the modules).
SignalIsObeyed ==
  LET over == proc # "up" \/ Wedged \/ d.workers = "hopeless" IN
  /\ (d.inbox # {} /\ d.sig = "waiting" /\ d.main = "running") ~> over
  /\ d.inbox # {} ~> (over \/ d.sig = "blocked")

=============================================================================
