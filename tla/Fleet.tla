------------------------------- MODULE Fleet --------------------------------
(***************************************************************************)
(* Daemons that are members of one tribe agreement: what a request to the  *)
(* REST API of one of them does to the tasks and plugins of all.           *)
(*                                                                         *)
(* A request changes the tables of the local scheduler or plugin manager,  *)
(* which emit events.  The tribe handles an event in a goroutine of its own*)
(* and turns it into a message for all members.  A message changes the     *)
(* agreement as the node sees it and queues a request for the tribe's      *)
(* workers, which look at the other members over their REST API and call   *)
(* the local scheduler and plugin manager, which emit events again.        *)
(*                                                                         *)
(* Module Tribe has the gossip (duplicates, losses, clocks, membership),   *)
(* module Task the goroutines inside one task and module SubscriptionGroups*)
(* the subscriptions.  Here a message is delivered once, in any order, and *)
(* a task is only absent, stopped, running, or on its way to be stopped and*)
(* unsubscribed.                                                           *)
(***************************************************************************)
EXTENDS Integers, Sequences, SequencesExt, FiniteSetsExt, Bags, BagsExt

CONSTANTS
  Nodes,      \* the members of the agreement
  Tasks, Plugins,
  Needs,      \* Needs[t]: the plugin of t's workflow
  Rushed,     \* plugins users load and unload without waiting for the last request
  Workers,    \* goroutines for tasks, and as many for plugins, of a node (4)
  RetryLimit, \* of the workers (20)
  QueueSize,  \* capacity of the work queues (999)
  MaxOps      \* bound: requests of users

ASSUME NeedsAssumption == Needs \in [Tasks -> Plugins]
ASSUME RushedAssumption == Rushed \subseteq Plugins
ASSUME SizesAssumption ==
  /\ Workers \in Nat \ {0} /\ QueueSize \in Nat \ {0}
  /\ RetryLimit \in Nat /\ MaxOps \in Nat

VARIABLES
  node,    \* the daemons
  ops,     \* requests of users so far
  created, \* tasks that a user has created
  calm,    \* history: every request found the fleet quiet
  refused, \* history: tasks whose removal the scheduler refused to a user
  wanted,  \* history: what the accepted requests of users come to
  answer   \* the REST answer the last step gave, if any

vars == <<node, ops, created, calm, refused, wanted, answer>>

None == "none"
Active == {"running", "stopping"}

\* A node that has carried out everything, with these tasks and plugins.
Settled(task, plugin) ==
  [task |-> task,                             \* scheduler.tasks
   plugin |-> plugin,                         \* loadedPlugins
   tasks |-> {t \in Tasks : task[t] # None},  \* the agreement, as the node sees it
   plugins |-> plugin,
   intents |-> <<>>,                          \* tribe.intentBuffer
   events |-> EmptyBag, mail |-> EmptyBag,    \* not handled yet
   taskQ |-> <<>>, pluginQ |-> <<>>,          \* the work queues
   jobs |-> EmptyBag]                         \* what the workers are doing

\* A fleet that has run for a while and is quiet.
Init ==
  /\ \E task \in [Tasks -> {None, "stopped", "running"}], plugin \in SUBSET Plugins :
       /\ \A t \in Tasks : task[t] # None => Needs[t] \in plugin
       /\ node = [n \in Nodes |-> Settled(task, plugin)]
       /\ created = {t \in Tasks : task[t] # None}
       /\ wanted = [task |-> task, plugin |-> plugin]
  /\ ops = 0
  /\ calm = TRUE
  /\ refused = {}
  /\ answer = {}
-----------------------------------------------------------------------------
(* scheduler and plugin manager: a call changes the node's record and       *)
(* answers an error or None.                                                *)

Emit(s, type, x) == [s EXCEPT !.events = BagAdd(@, [type |-> type, x |-> x, start |-> FALSE])]
Result(s, err) == [node |-> s, err |-> err]

\* The tribe ignores the events of what it did itself.
EmitFor(source, s, type, x) == IF source = "tribe" THEN s ELSE Emit(s, type, x)

\* scheduler.startTask.  The plugins have to be loaded, and the subscription of
\* the last run has to be gone.
StartTask(s, t, source) ==
  CASE s.task[t] = None -> Result(s, "notFound")
    [] s.task[t] = "running" -> Result(s, "alreadyRunning")
    [] s.task[t] = "stopping" \/ Needs[t] \notin s.plugin -> Result(s, "deps")
    [] OTHER -> Result(EmitFor(source, [s EXCEPT !.task[t] = "running"], "started", t), None)

\* scheduler.stopTask.  The event comes when the task has stopped.
StopTask(s, t) ==
  CASE s.task[t] = None -> Result(s, "notFound")
    [] s.task[t] = "stopped" -> Result(s, "alreadyStopped")
    [] OTHER -> Result([s EXCEPT !.task[t] = "stopping"], None)

\* Mutant: the task is deleted from the table before its state is looked at.
DeleteFirst(s, t, source) ==
  CASE s.task[t] = None -> Result(s, "notFound")
    [] s.task[t] \in Active ->
         Result(EmitFor(source, [s EXCEPT !.task[t] = None], "deleted", t), "notStopped")
    [] OTHER -> Result(EmitFor(source, [s EXCEPT !.task[t] = None], "deleted", t), None)
\* scheduler.removeTask emits its event also when the task is not stopped.
RemoveTask(s, t, source) ==
  CASE s.task[t] = None -> Result(s, "notFound")
    [] s.task[t] \in Active -> Result(EmitFor(source, s, "deleted", t), "notStopped")
    [] OTHER -> Result(EmitFor(source, [s EXCEPT !.task[t] = None], "deleted", t), None)

\* The part of scheduler.createTask before it starts the task.
AddTask(s, t) ==
  IF s.task[t] # None \/ Needs[t] \notin s.plugin
  THEN Result(s, "notCreated")
  ELSE Result([s EXCEPT !.task[t] = "stopped"], None)

\* pluginControl.Load and Unload have no source.
Load(s, p) ==
  IF p \in s.plugin THEN Result(s, "alreadyLoaded")
  ELSE Result(Emit([s EXCEPT !.plugin = @ \cup {p}], "loaded", p), None)

InUse(s, p) == \E t \in Tasks : Needs[t] = p /\ s.task[t] \in Active
Unload(s, p) ==
  CASE p \notin s.plugin -> Result(s, "notFound")
    [] InUse(s, p) -> Result(s, "inUse")
    [] OTHER -> Result(Emit([s EXCEPT !.plugin = @ \ {p}], "unloaded", p), None)
-----------------------------------------------------------------------------
(* The tribe: from events to messages, from messages to requests.           *)

Request(type, x, start) == [type |-> type, x |-> x, start |-> start, retries |-> 0]
AskTask(s, type, m) == [s EXCEPT !.taskQ = Append(@, Request(type, m.x, m.start))]
AskLoad(s, p) == [s EXCEPT !.pluginQ = Append(@, Request("load", p, FALSE))]

Applies(s, m) ==
  CASE m.type = "addPlugin" -> m.x \notin s.plugins
    [] m.type = "removePlugin" -> m.x \in s.plugins
    [] m.type = "addTask" -> m.x \notin s.tasks
    [] m.type = "removeTask" -> m.x \in s.tasks
    [] OTHER -> TRUE

\* What an applicable message does, handled at once or as an intent.
Apply(s, m) ==
  CASE m.type = "addPlugin" -> AskLoad([s EXCEPT !.plugins = @ \cup {m.x}], m.x)
    [] m.type = "removePlugin" -> [s EXCEPT !.plugins = @ \ {m.x}]
    [] m.type = "addTask" -> AskTask([s EXCEPT !.tasks = @ \cup {m.x}], "create", m)
    [] m.type = "removeTask" -> [s EXCEPT !.tasks = @ \ {m.x}]

\* processIntents: the first intent that applies, plugins before tasks and
\* additions before removals, until none does.
Precedence == <<"addPlugin", "removePlugin", "addTask", "removeTask">>
ProcessOne(s) ==
  LET ready(type) == {i \in DOMAIN s.intents :
                        s.intents[i].type = type /\ Applies(s, s.intents[i])}
      types == {k \in DOMAIN Precedence : ready(Precedence[k]) # {}}
  IN IF types = {} THEN s
     ELSE LET i == Min(ready(Precedence[Min(types)]))
          IN Apply([s EXCEPT !.intents = RemoveAt(@, i)], s.intents[i])
ProcessIntents(s) == FoldLeft(LAMBDA t, m : ProcessOne(t), s, s.intents)

\* Only a removal that applies at once is carried out: the task by the workers,
\* the plugin by the handler, after the intents.
Handle(s, m) ==
  CASE m.type \in {"start", "stop"} -> AskTask(s, m.type, m)
    [] m.type = "removePlugin" /\ Applies(s, m) ->
         Unload(ProcessIntents(Apply(s, m)), m.x).node
    [] m.type = "removeTask" /\ Applies(s, m) ->
         ProcessIntents(AskTask(Apply(s, m), "remove", m))
    [] Applies(s, m) -> ProcessIntents(Apply(s, m))
    [] OTHER -> [s EXCEPT !.intents = Append(@, m)]

\* HandleGomitEvent: what the agreement knows already is not sent again.
Messages(s, e) ==
  CASE e.type = "loaded" /\ e.x \notin s.plugins -> {"addPlugin"}
    [] e.type = "unloaded" /\ e.x \in s.plugins -> {"removePlugin"}
    [] e.type = "created" /\ e.x \notin s.tasks -> {"addTask"}
    [] e.type = "started" /\ e.x \in s.tasks -> {"start"}
    [] e.type = "stopped" /\ e.x \in s.tasks -> {"stop"}
    [] e.type = "deleted" /\ e.x \in s.tasks -> {"removeTask"}
    [] OTHER -> {}
-----------------------------------------------------------------------------
Update(n, s) == node' = [node EXCEPT ![n] = s]
NoAnswer == answer' = {} /\ UNCHANGED <<ops, created, calm, refused, wanted>>

\* The handlers block, holding the tribe's mutex, while a work queue is full.
QueuesAdmit(s) == Len(s.taskQ) <= QueueSize /\ Len(s.pluginQ) <= QueueSize

HandleEvent(n, e) ==
  LET s == [node[n] EXCEPT !.events = BagRemove(@, e)]
      sent == {[type |-> k, x |-> e.x, start |-> e.start] : k \in Messages(s, e)}
      after == FoldSet(LAMBDA m, t : Handle(t, m), s, sent)
  IN /\ e \in DOMAIN node[n].events
     /\ QueuesAdmit(after)
     /\ node' = [k \in Nodes |-> IF k = n THEN after
                                 ELSE [node[k] EXCEPT !.mail = @ (+) SetToBag(sent)]]
     /\ NoAnswer

NotifyMsg(n, m) ==
  LET s == Handle([node[n] EXCEPT !.mail = BagRemove(@, m)], m)
  IN /\ m \in DOMAIN node[n].mail
     /\ QueuesAdmit(s)
     /\ Update(n, s)
     /\ NoAnswer

\* The task's goroutine returns and its event is handled by the scheduler.
\* The event names no source, also when the tribe stopped the task.
TaskStopped(n, t) ==
  /\ node[n].task[t] = "stopping"
  /\ Update(n, Emit([node[n] EXCEPT !.task[t] = "stopped"], "stopped", t))
  /\ NoAnswer
-----------------------------------------------------------------------------
(* The workers.  The bag jobs holds what does not end in the step that took *)
(* it from the queue.                                                       *)

TaskJobs == {"start", "stop", "remove", "create"}
Busy(s, types) == BagCardinality([j \in {k \in DOMAIN s.jobs : k.type \in types} |-> s.jobs[j]])
Begin(s, j) == [s EXCEPT !.jobs = BagAdd(@, j)]
End(s, j) == [s EXCEPT !.jobs = BagRemove(@, j)]
Become(s, j, k) == Begin(End(s, j), k)

\* Mutant: a request that failed is put back as a new one.
RetryAnew(s, r) == Begin(s, [r EXCEPT !.retries = 0])
\* A request that failed is put back on its queue after a while.
Retry(s, r) == IF r.retries < RetryLimit THEN Begin(s, r) ELSE s

Requeue(n, j) ==
  LET s == End(node[n], j)
      again == [j EXCEPT !.retries = @ + 1]
  IN /\ j \in DOMAIN node[n].jobs /\ "retries" \in DOMAIN j
     /\ QueuesAdmit(s)
     /\ IF j.type = "load"
        THEN Len(s.pluginQ) < QueueSize /\ Update(n, [s EXCEPT !.pluginQ = Append(@, again)])
        ELSE Len(s.taskQ) < QueueSize /\ Update(n, [s EXCEPT !.taskQ = Append(@, again)])
     /\ NoAnswer

\* worker.startTask, stopTask and removeTask.
Perform(s, r) ==
  LET res == CASE r.type = "start" -> StartTask(s, r.x, "tribe")
               [] r.type = "stop" -> StopTask(s, r.x)
               [] r.type = "remove" -> RemoveTask(s, r.x, "tribe")
      harmless == {None, "alreadyRunning", "alreadyStopped"}
  IN IF res.err \in harmless THEN res.node ELSE Retry(res.node, r)

\* worker.createTask ends at once when the task exists.
Creation(r) == [type |-> "create", x |-> r.x, start |-> r.start, pc |-> "seek", tried |-> {}]
TakeTask(n) ==
  LET r == Head(node[n].taskQ)
      s == [node[n] EXCEPT !.taskQ = Tail(@)]
  IN /\ node[n].taskQ # <<>> /\ Busy(node[n], TaskJobs) < Workers
     /\ Update(n, IF r.type # "create" THEN Perform(s, r)
                  ELSE IF s.task[r.x] # None THEN s ELSE Begin(s, Creation(r)))
     /\ NoAnswer

\* What a member answers to GET of a task, and of a plugin's file.
HasTask(k, t) == node[k].task[t] # None
HasPlugin(k, p) == p \in node[k].plugin

\* Mutant: createTask gives up when the first member it asks has no such task.
GetTaskOnce(n, j, k) ==
  /\ j \in DOMAIN node[n].jobs /\ j.type = "create" /\ j.pc = "seek" /\ k \notin j.tried
  /\ Update(n, IF HasTask(k, j.x) THEN Become(node[n], j, [j EXCEPT !.pc = "got"])
               ELSE End(node[n], j))
  /\ NoAnswer
\* It asks one member after the other, itself included, for the task, and
\* begins again when it has asked them all.
GetTask(n, j, k) ==
  /\ j \in DOMAIN node[n].jobs /\ j.type = "create" /\ j.pc = "seek" /\ k \notin j.tried
  /\ LET tried == IF j.tried \cup {k} = Nodes THEN {} ELSE j.tried \cup {k}
         next == IF HasTask(k, j.x) THEN "got" ELSE "seek"
     IN Update(n, Become(node[n], j, [j EXCEPT !.tried = tried, !.pc = next]))
  /\ NoAnswer

\* The copy is started if it is there already, else created, then started with
\* the source of a user.  Any error, also that it runs, means another round.
CreateCopy(n, j) ==
  LET exists == node[n].task[j.x] # None
      res == IF j.start /\ exists THEN StartTask(node[n], j.x, "tribe") ELSE AddTask(node[n], j.x)
  IN /\ j \in DOMAIN node[n].jobs /\ j.type = "create" /\ j.pc = "got"
     /\ Update(n, IF res.err # None THEN Become(res.node, j, [j EXCEPT !.pc = "seek"])
                  ELSE IF j.start /\ ~exists THEN Become(res.node, j, [j EXCEPT !.pc = "added"])
                  ELSE End(res.node, j))
     /\ NoAnswer

StartCopy(n, j) ==
  LET res == StartTask(node[n], j.x, "user")
  IN /\ j \in DOMAIN node[n].jobs /\ j.type = "create" /\ j.pc = "added"
     /\ Update(n, IF res.err # None THEN Become(res.node, j, [j EXCEPT !.pc = "seek"])
                  ELSE End(res.node, j))
     /\ NoAnswer

\* worker.loadPlugin ends at once when the plugin is loaded.
TakePlugin(n) ==
  LET r == Head(node[n].pluginQ)
      s == [node[n] EXCEPT !.pluginQ = Tail(@)]
      j == [type |-> "fetch", x |-> r.x, pc |-> "seek", tried |-> {}, request |-> r]
  IN /\ node[n].pluginQ # <<>> /\ Busy(node[n], {"load", "fetch"}) < Workers
     /\ Update(n, IF r.x \in s.plugin THEN s ELSE Begin(s, j))
     /\ NoAnswer

\* downloadPlugin from one member after the other.  The request has failed when
\* none could give the file.
Download(n, j, k) ==
  LET tried == j.tried \cup {k}
  IN /\ j \in DOMAIN node[n].jobs /\ j.type = "fetch" /\ j.pc = "seek" /\ k \notin j.tried
     /\ Update(n, IF HasPlugin(k, j.x) THEN Become(node[n], j, [j EXCEPT !.pc = "got"])
                  ELSE IF tried = Nodes THEN Retry(End(node[n], j), j.request)
                  ELSE Become(node[n], j, [j EXCEPT !.tried = tried]))
     /\ NoAnswer

LoadCopy(n, j) ==
  LET res == Load(End(node[n], j), j.x)
  IN /\ j \in DOMAIN node[n].jobs /\ j.type = "fetch" /\ j.pc = "got"
     /\ Update(n, IF res.err = None THEN res.node ELSE Retry(res.node, j.request))
     /\ NoAnswer
-----------------------------------------------------------------------------
(* The REST API: a request of the client and what its handler does.         *)

\* Nothing is under way.
Quiet ==
  \A n \in Nodes :
    /\ node[n].events = EmptyBag /\ node[n].mail = EmptyBag /\ node[n].jobs = EmptyBag
    /\ node[n].taskQ = <<>> /\ node[n].pluginQ = <<>>
    /\ \A t \in Tasks : node[n].task[t] # "stopping"

\* Something about x is under way.
UnderWay(x) ==
  \E n \in Nodes :
    \/ \E b \in {node[n].events, node[n].mail, node[n].jobs} : \E e \in DOMAIN b : e.x = x
    \/ \E q \in {node[n].taskQ, node[n].pluginQ, node[n].intents} :
         \E i \in DOMAIN q : q[i].x = x

\* The status that the handlers of each version answer.  Version 2 compares the
\* errors of tasks with the text "task not found", which they do not contain.
Status(err, ok, missing) ==
  CASE err = None -> ok
    [] err = "notFound" -> missing
    [] err = "alreadyLoaded" -> 409
    [] OTHER -> 500
addTaskV1(err) == Status(err, 201, 500)
startTaskV1(err) == Status(err, 200, 404)
stopTaskV1(err) == Status(err, 200, 404)
removeTaskV1(err) == Status(err, 200, 404)
loadPluginV1(err) == Status(err, 201, 500)
unloadPluginV1(err) == Status(err, 200, 500)
addTaskV2(err) == Status(err, 201, 500)
updateTaskStateV2(err) == Status(err, 204, 500)
removeTaskV2(err) == Status(err, 204, 500)
loadPluginV2(err) == Status(err, 201, 500)
unloadPluginV2(err) == Status(err, 204, 404)

\* What users may expect after a request that changed node n to s.
Expect(n, s) ==
  /\ wanted' = [task |-> [t \in Tasks |-> IF s.task[t] = node[n].task[t] THEN wanted.task[t]
                                       ELSE IF s.task[t] = "stopping" THEN "stopped"
                                       ELSE s.task[t]],
                plugin |-> (wanted.plugin \cup (s.plugin \ node[n].plugin))
                          \ (node[n].plugin \ s.plugin)]

Answer(n, x, res, v1, v2) ==
  /\ Update(n, res.node) /\ Expect(n, res.node)
  /\ \E code \in {v1, v2} : answer' = {[x |-> x, err |-> res.err, code |-> code]}
  /\ refused' = IF res.err = "notStopped" THEN refused \cup {x} ELSE refused

\* Users wait for a plugin that is under way, except for those in Rushed.
Patient(p) == p \in Rushed \/ ~UnderWay(p)
AsUser == ops < MaxOps /\ ops' = ops + 1 /\ calm' = (calm /\ Quiet)

\* addTask: the task that was added stays when it cannot be started.
EmitCreated(s, t, start) ==
  [s EXCEPT !.events = BagAdd(@, [type |-> "created", x |-> t, start |-> start])]
RestAddTask(n, t, start) ==
  LET added == AddTask(node[n], t)
      begun == IF start THEN StartTask(added.node, t, "user") ELSE added
      res == IF added.err # None THEN added ELSE [begun EXCEPT !.node = EmitCreated(@, t, start)]
  IN /\ AsUser /\ t \notin created
     /\ Answer(n, t, res, addTaskV1(res.err), addTaskV2(res.err))
     /\ created' = IF added.err # None THEN created ELSE created \cup {t}

RestStartTask(n, t) ==
  LET res == StartTask(node[n], t, "user")
  IN /\ AsUser /\ t \in created
     /\ Answer(n, t, res, startTaskV1(res.err), updateTaskStateV2(res.err))
     /\ UNCHANGED created
RestStopTask(n, t) ==
  LET res == StopTask(node[n], t)
  IN /\ AsUser /\ t \in created
     /\ Answer(n, t, res, stopTaskV1(res.err), updateTaskStateV2(res.err))
     /\ UNCHANGED created
RestRemoveTask(n, t) ==
  LET res == RemoveTask(node[n], t, "user")
  IN /\ AsUser /\ t \in created
     /\ Answer(n, t, res, removeTaskV1(res.err), removeTaskV2(res.err))
     /\ UNCHANGED created

\* loadPlugin: a request that lacks a part of what it announces is refused
\* before the plugin manager sees it.
RestLoadPlugin(n, p, complete) ==
  LET res == IF complete THEN Load(node[n], p) ELSE Result(node[n], "badRequest")
  IN /\ AsUser /\ Patient(p)
     /\ Answer(n, p, res, loadPluginV1(res.err), loadPluginV2(res.err))
     /\ UNCHANGED created
RestUnloadPlugin(n, p) ==
  LET res == Unload(node[n], p)
  IN /\ AsUser /\ Patient(p)
     /\ Answer(n, p, res, unloadPluginV1(res.err), unloadPluginV2(res.err))
     /\ UNCHANGED created
-----------------------------------------------------------------------------
\* What node n does by itself.
HandlesEvents(n) == \E e \in DOMAIN node[n].events : HandleEvent(n, e)
HandlesMessages(n) == \E m \in DOMAIN node[n].mail : NotifyMsg(n, m)
StopsTasks(n) == \E t \in Tasks : TaskStopped(n, t)
PutsBack(n) == \E j \in DOMAIN node[n].jobs : Requeue(n, j)
CreatesTasks(n) ==
  \E j \in DOMAIN node[n].jobs :
    (\E k \in Nodes : GetTask(n, j, k)) \/ CreateCopy(n, j) \/ StartCopy(n, j)
LoadsPlugins(n) ==
  \E j \in DOMAIN node[n].jobs : (\E k \in Nodes : Download(n, j, k)) \/ LoadCopy(n, j)

Next ==
  \/ \E n \in Nodes : HandlesEvents(n) \/ HandlesMessages(n) \/ StopsTasks(n)
  \/ \E n \in Nodes : TakeTask(n) \/ CreatesTasks(n) \/ PutsBack(n)
  \/ \E n \in Nodes : TakePlugin(n) \/ LoadsPlugins(n)
  \/ \E n \in Nodes, t \in Tasks, start \in BOOLEAN : RestAddTask(n, t, start)
  \/ \E n \in Nodes, t \in Tasks : RestStartTask(n, t)
  \/ \E n \in Nodes, t \in Tasks : RestStopTask(n, t)
  \/ \E n \in Nodes, t \in Tasks : RestRemoveTask(n, t)
  \/ \E n \in Nodes, p \in Plugins, complete \in BOOLEAN : RestLoadPlugin(n, p, complete)
  \/ \E n \in Nodes, p \in Plugins : RestUnloadPlugin(n, p)

Spec == Init /\ [][Next]_vars

\* The goroutines of events, tasks and workers get to run, and the gossip
\* brings what was sent.
LiveSpec ==
  /\ Spec
  /\ \A n \in Nodes :
       /\ WF_vars(HandlesEvents(n)) /\ WF_vars(HandlesMessages(n)) /\ WF_vars(StopsTasks(n))
       /\ WF_vars(TakeTask(n)) /\ WF_vars(CreatesTasks(n)) /\ WF_vars(PutsBack(n))
       /\ WF_vars(TakePlugin(n)) /\ WF_vars(LoadsPlugins(n))
-----------------------------------------------------------------------------
(* As long as users wait until the fleet is quiet before the next request,  *)
(* what they asked one member for is, when it is quiet, so on all members   *)
(* and in the agreement as each sees it: the tribe's events, messages and   *)
(* workers spread every load, unload, creation, start, stop and             *)
(* removal exactly.  A task whose removal was refused, and its plugin, are  *)
(* excepted: removeTask emits the event all the same, and the agreement     *)
(* forgets a task that goes on running.                                     *)
QuietAgrees ==
  calm /\ Quiet =>
    \A n \in Nodes :
      /\ \A p \in Plugins \ {Needs[t] : t \in refused} :
           /\ p \in node[n].plugin <=> p \in wanted.plugin
           /\ p \in node[n].plugins <=> p \in wanted.plugin
      /\ \A t \in Tasks \ refused :
           /\ node[n].task[t] = wanted.task[t]
           /\ t \in node[n].tasks <=> wanted.task[t] # None

\* A creation for which no round can succeed as things are.
Stuck(n, j) ==
  /\ j.type = "create"
  /\ \/ \A k \in Nodes : node[k].task[j.x] = None
     \/ node[n].task[j.x] # None /\ (j.start => node[n].task[j.x] \in Active)
     \/ Needs[j.x] \notin node[n].plugin

\* Every worker holds a request it cannot put back on the full queue.
Jammed(n) ==
  LET waiting(types) == BagCardinality([j \in {k \in DOMAIN node[n].jobs :
                           k.type \in types /\ "retries" \in DOMAIN k} |-> node[n].jobs[j]])
  IN \/ Len(node[n].taskQ) = QueueSize /\ waiting(TaskJobs) = Workers
     \/ Len(node[n].pluginQ) = QueueSize /\ waiting({"load"}) = Workers

(* However requests of users overlap, the echoes of events and messages die *)
(* out, requests are not retried for ever and the fleet becomes quiet       *)
(* again, unless a worker of createTask keeps looking for a task that no    *)
(* member has any more, that already runs here, or whose plugin is not here,*)
(* or all workers of a node wait to put a failed request back on a queue    *)
(* that is full.  This is for users who load or unload a plugin only when it*)
(* is not under way.                                                        *)
Settles ==
  []<>(Quiet \/ \E n \in Nodes : Jammed(n) \/ \E j \in DOMAIN node[n].jobs : Stuck(n, j))

(* The status tells what became of a request, in both versions of the API:  *)
(* an error status leaves the tables of every scheduler and plugin manager  *)
(* as they were, and success is never answered for a request that failed.   *)
AnswersAreTrue ==
  [][\A a \in answer' :
       /\ a.code < 300 <=> a.err = None
       /\ a.code >= 400 => \A n \in Nodes : /\ node'[n].task = node[n].task
                                            /\ node'[n].plugin = node[n].plugin]_vars
=============================================================================
