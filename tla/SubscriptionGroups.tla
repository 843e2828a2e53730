------------------------- MODULE SubscriptionGroups -------------------------
(***************************************************************************)
(* Loading, unloading and swapping plugins while tasks use them:           *)
(*  - pluginManager (control/plugin_manager.go), whose LoadPlugin works in *)
(*    a goroutine that adds metrics one by one, then the plugin, and then  *)
(*    answers a caller that may have given up, and whose UnloadPlugin takes*)
(*    the plugin out of the table and afterwards its metrics;              *)
(*  - the metric catalog (control/metrics.go), seen as which plugin exposes*)
(*    which namespace; MetricTrie has its inside;                          *)
(*  - Load, Unload and SwapPlugins (control/control.go) and their events,  *)
(*    each handled by a goroutine of its own;                              *)
(*  - subscriptionGroups (control/subscription_group.go), which under one  *)
(*    mutex maps what a task requests to plugins, subscribes to the pools  *)
(*    of those that are new and unsubscribes from those that are not       *)
(*    needed any more; what is in a pool is the subject of PluginPool.     *)
(***************************************************************************)
EXTENDS Integers, FiniteSets

CONSTANTS
  Callers,  \* goroutines calling Load, Unload and SwapPlugins
  Tasks,
  Plugins,  \* type, name and version: the key of a plugin
  Name,     \* [Plugins -> type and name]
  Version,  \* [Plugins -> version], also that of its metrics
  Exposes,  \* [Plugins -> set of namespaces], empty unless a collector
  Requests, \* [Tasks -> set of [nss, ver]]: the namespaces a requested one
            \* (without tuples) matches, and the version, 0 for the latest
  Uses,     \* [Tasks -> set of [name, ver]]: processors and publishers
  NoCaller, NoTask,
  Ops,      \* of "unload", "swap", "reload", "fail", "timeout"
  MaxCalls  \* bound: calls of Load, Unload and SwapPlugins

ASSUME PluginsAssumption ==
  /\ IsFiniteSet(Plugins)
  /\ Version \in [Plugins -> Nat \ {0}]
  /\ \A p, q \in Plugins : Name[p] = Name[q] /\ Version[p] = Version[q] => p = q
  /\ \A p, q \in Plugins : Version[p] = Version[q] /\ p # q
                             => Exposes[p] \cap Exposes[q] = {}
ASSUME TasksAssumption ==
  /\ NoTask \notin Tasks /\ NoCaller \notin Callers
  /\ \A t \in Tasks : \A r \in Requests[t] : r.nss # {} /\ r.ver \in Nat
ASSUME OpsAssumption ==
  Ops \subseteq {"unload", "swap", "reload", "fail", "timeout"}
ASSUME CallsAssumption == MaxCalls \in Nat

VARIABLES
  table,   \* loadedPlugins.table
  catalog, \* pairs of a plugin and a namespace it exposes
  load,    \* the goroutines of LoadPlugin
  caller,  \* the calls of Load, Unload and SwapPlugins in progress
  calls,   \* how many there have been
  events,  \* load and unload events nobody has handled yet
  groups,  \* subscriptionGroups.subscriptionMap
  pools,   \* plugins that have a pool
  subs,    \* the subscriptions of each pool
  work,    \* the call that holds the mutex of subscriptionGroups
  silent,  \* plugins or metrics changed without an event, and none came since
  failed   \* plugins whose load has failed half-way

vars == <<table, catalog, load, caller, calls, events, groups, pools, subs, work,
          silent, failed>>
groupVars == <<groups, pools, subs, work>>
loadVars == <<table, catalog, load, caller, calls>>
history == <<silent, failed>>

NoLoad == [pc |-> "idle", todo |-> {}, caller |-> NoCaller]
NoCall == [pc |-> "idle", op |-> "none", in |-> {}, out |-> {}]
NoneNeeded == [p \in Plugins |-> 0]
NoWork == [op |-> "none", todo |-> {}, task |-> NoTask,
           plugins |-> NoneNeeded, metrics |-> {}, ok |-> TRUE]
NoGroup == [present |-> FALSE, plugins |-> NoneNeeded, metrics |-> {}]

Init ==
  /\ table = {} /\ catalog = {}
  /\ load = [p \in Plugins |-> NoLoad]
  /\ caller = [c \in Callers |-> NoCall]
  /\ calls = 0 /\ events = 0
  /\ groups = [t \in Tasks |-> NoGroup]
  /\ pools = {}
  /\ subs = [p \in Plugins |-> {}]
  /\ work = NoWork
  /\ silent = FALSE /\ failed = {}
-----------------------------------------------------------------------------
(* What a task's requests come to in the present catalog and table.         *)

\* metricCatalog.GetMetrics: for every namespace matched, the plugin exposing it
\* in the requested version, or in the latest.
GetMetrics(r) ==
  {m \in catalog :
     /\ m[2] \in r.nss
     /\ IF r.ver > 0 THEN Version[m[1]] = r.ver
        ELSE \A n \in catalog : n[2] = m[2] => Version[n[1]] <= Version[m[1]]}

\* getMetricsAndCollectors
Metrics(t) == UNION {GetMetrics(r) : r \in Requests[t]}
Found(t) == \A r \in Requests[t] : GetMetrics(r) # {}

\* loadedPlugins.get, with findLatest
Get(u) ==
  {p \in table :
     /\ Name[p] = u.name
     /\ IF u.ver > 0 THEN Version[p] = u.ver
        ELSE \A q \in table : Name[q] = u.name => Version[q] <= Version[p]}

\* The list process() makes, as how often it has each plugin: a collector once,
\* a processor or publisher as often as it is requested, and found.
Needed(t) ==
  [p \in Plugins |->
     (IF \E m \in Metrics(t) : m[1] = p THEN 1 ELSE 0)
       + Cardinality({u \in Uses[t] : p \in Get(u)})]

\* comparePlugins
Adds(new, old) == {p \in Plugins : new[p] > old[p]}
Removes(new, old) == {p \in Plugins : old[p] > new[p]}
-----------------------------------------------------------------------------
(* LoadPlugin, UnloadPlugin                                                 *)

\* The goroutine is started on behalf of a caller.  It answers that the plugin
\* is already loaded, but goes on all the same.  (Bound: one goroutine at a time
\* for each plugin.)
LoadPlugin(c, p, op, out) ==
  /\ caller[c] = NoCall
  /\ calls < MaxCalls
  /\ load[p] = NoLoad
  /\ calls' = calls + 1
  /\ \/ /\ p \in table
        /\ "reload" \in Ops
        /\ load' = [load EXCEPT ![p] = [pc |-> "run", todo |-> Exposes[p],
                                        caller |-> NoCaller]]
        /\ UNCHANGED caller
     \/ /\ p \notin table
        /\ load' = [load EXCEPT ![p] = [pc |-> "run", todo |-> Exposes[p],
                                        caller |-> c]]
        /\ caller' = [caller EXCEPT ![c] = [pc |-> "wait", op |-> op,
                                            in |-> {p}, out |-> out]]

Load(c, p) ==
  /\ LoadPlugin(c, p, "load", {})
  /\ UNCHANGED <<table, catalog, events, groupVars, history>>

SwapPlugins(c, p, q) ==
  /\ "swap" \in Ops
  /\ q \in table /\ p # q
  /\ LoadPlugin(c, p, "swap", {q})
  /\ UNCHANGED <<table, catalog, events, groupVars, history>>

AddLoadedMetricType(p) ==
  /\ load[p].pc = "run"
  /\ \E ns \in load[p].todo :
       /\ catalog' = catalog \cup {<<p, ns>>}
       /\ load' = [load EXCEPT ![p].todo = @ \ {ns}]
  /\ UNCHANGED <<table, caller, calls, events, groupVars, history>>

\* What becomes of a caller that gets an answer; nobody reads a second one.
Answer(p, pc) ==
  LET c == load[p].caller
  IN caller' = IF c = NoCaller THEN caller
               ELSE [caller EXCEPT ![c] =
                       IF pc = "idle" THEN NoCall ELSE [@ EXCEPT !.pc = pc]]

AddToTable(p) ==
  /\ load[p].pc = "run"
  /\ load[p].todo = {}
  /\ table' = table \cup {p}
  /\ Answer(p, "loaded")
  /\ load' = [load EXCEPT ![p] = NoLoad]
  /\ silent' = (silent \/ load[p].caller = NoCaller)
  /\ UNCHANGED <<catalog, calls, events, groupVars, failed>>

\* A bad metric, or the plugin cannot be killed: what was added stays.
LoadFails(p) ==
  /\ "fail" \in Ops
  /\ load[p].pc = "run"
  /\ Answer(p, "idle")
  /\ load' = [load EXCEPT ![p] = NoLoad]
  /\ silent' = TRUE /\ failed' = failed \cup {p}
  /\ UNCHANGED <<table, catalog, calls, events, groupVars>>

LoadTimesOut(c) ==
  /\ "timeout" \in Ops
  /\ caller[c].pc = "wait"
  /\ caller' = [caller EXCEPT ![c] = NoCall]
  /\ load' = [p \in Plugins |-> IF load[p].caller = c
                THEN [load[p] EXCEPT !.caller = NoCaller] ELSE load[p]]
  /\ UNCHANGED <<table, catalog, calls, events, groupVars, history>>

\* Plugins are swapped for one of the same type and name; another is unloaded
\* again.
SwapCheck(c) ==
  /\ caller[c].pc = "loaded" /\ caller[c].op = "swap"
  /\ LET same == \A p \in caller[c].in, q \in caller[c].out : Name[p] = Name[q]
     IN caller' = [caller EXCEPT ![c].pc = "unload",
                     ![c].op = IF same THEN "swap" ELSE "rollback",
                     ![c].out = IF same THEN @ ELSE caller[c].in]
  /\ UNCHANGED <<table, catalog, load, calls, events, groupVars, history>>

\* subscriptionGroup.validatePluginUnloading
GetPlugins(r) == {m[1] : m \in {n \in catalog : n[2] \in r.nss}}
Impacted(t, p) ==
  /\ groups[t].plugins[p] > 0
  /\ \E r \in Requests[t] :
       {p} = {q \in GetPlugins(r) :
                r.ver > 0 /\ r.ver = Version[p] => Version[q] = r.ver}

Unload(c, p) ==
  /\ "unload" \in Ops
  /\ caller[c] = NoCall /\ calls < MaxCalls
  /\ p \in table
  /\ work = NoWork
  /\ \A t \in Tasks : ~Impacted(t, p)
  /\ calls' = calls + 1
  /\ caller' = [caller EXCEPT ![c] = [pc |-> "unload", op |-> "unload",
                                      in |-> {}, out |-> {p}]]
  /\ UNCHANGED <<table, catalog, load, events, groupVars, history>>

\* UnloadPlugin takes the plugin out of the table, if it is there ...
UnloadPluginOnly(c) ==
  /\ caller[c].pc = "unload"
  /\ table' = table \ caller[c].out
  /\ caller' = [caller EXCEPT ![c] =
       IF caller[c].out \subseteq table
       THEN IF caller[c].op = "unload" THEN [@ EXCEPT !.pc = "emit"] ELSE NoCall
       ELSE IF caller[c].op = "swap"
            THEN [@ EXCEPT !.op = "rollback", !.out = caller[c].in]
            ELSE NoCall]
  /\ UNCHANGED <<catalog, load, calls, events, groupVars, history>>
UnloadPlugin(c) ==
  /\ caller[c].pc = "unload"
  /\ table' = table \ caller[c].out
  /\ caller' = [caller EXCEPT ![c] =
       IF caller[c].out \subseteq table THEN [@ EXCEPT !.pc = "purge"]
       ELSE IF caller[c].op = "swap"
            THEN [@ EXCEPT !.op = "rollback", !.out = caller[c].in]
            ELSE NoCall]
  /\ UNCHANGED <<catalog, load, calls, events, groupVars, history>>

\* ... and its metrics out of the catalog.
Purged(c) == {m \in catalog : m[1] \in caller[c].out}
RmUnloadedPluginMetrics(c) ==
  /\ caller[c].pc = "purge"
  /\ catalog' = catalog \ Purged(c)
  /\ caller' = [caller EXCEPT ![c] =
       IF caller[c].op = "unload" THEN [@ EXCEPT !.pc = "emit"] ELSE NoCall]
  /\ silent' = (silent \/ caller[c].op # "unload")
  /\ UNCHANGED <<table, load, calls, events, groupVars, failed>>

\* The deferred Emit of Load and Unload.  A SwapPluginsEvent has no handler.
Emit(c) ==
  /\ \/ caller[c].pc = "loaded" /\ caller[c].op = "load"
     \/ caller[c].pc = "emit"
  /\ caller' = [caller EXCEPT ![c] = NoCall]
  /\ events' = events + 1
  /\ UNCHANGED <<table, catalog, load, calls, groupVars, history>>
-----------------------------------------------------------------------------
(* subscriptionGroups                                                       *)

\* The first half of process(): find out what the task needs.
Gather(t) ==
  work' = [work EXCEPT !.task = t, !.plugins = Needed(t),
                       !.metrics = Metrics(t), !.ok = Found(t)]

Add(t) ==
  /\ work = NoWork
  /\ ~groups[t].present
  /\ work' = [op |-> "add", todo |-> {}, task |-> t, plugins |-> Needed(t),
              metrics |-> Metrics(t), ok |-> Found(t)]
  /\ UNCHANGED <<loadVars, events, groups, pools, subs, history>>

\* HandleGomitEvent calls Process, which goes through all groups.
HandleGomitEvent ==
  /\ events > 0
  /\ work = NoWork
  /\ events' = events - 1
  /\ silent' = FALSE
  /\ LET present == {t \in Tasks : groups[t].present}
     IN work' = IF present = {} THEN NoWork
                ELSE [NoWork EXCEPT !.op = "process", !.todo = present]
  /\ UNCHANGED <<loadVars, groups, pools, subs, failed>>

ProcessNext(t) ==
  /\ work.op = "process" /\ work.task = NoTask
  /\ t \in work.todo
  /\ Gather(t)
  /\ UNCHANGED <<loadVars, events, groups, pools, subs, history>>

\* The second half of process(): subscribePlugins does nothing unless all the
\* new plugins are loaded; unsubscribePlugins stops at one that has no pool.
\* The view is replaced whatever happened, but Add drops it if there were errors.
Unsubscribed(rem, withPool) ==
  IF rem \subseteq withPool THEN {rem} ELSE SUBSET (rem \cap withPool)

ProcessUnlessErrors(t, adds, rem, done) ==
  LET able == adds \subseteq table
      withPool == IF able THEN pools \cup adds ELSE pools
      ok == work.ok /\ able /\ rem \subseteq withPool
  IN /\ pools' = withPool
     /\ done \in Unsubscribed(rem, withPool)
     /\ subs' = [p \in Plugins |->
          (IF able /\ p \in adds THEN subs[p] \cup {t} ELSE subs[p])
            \ (IF p \in done THEN {t} ELSE {})]
     /\ groups' = IF ~ok THEN groups
                  ELSE [groups EXCEPT ![t] = [present |-> TRUE,
                          plugins |-> work.plugins, metrics |-> work.metrics]]
Process(t, adds, rem, done) ==
  LET able == adds \subseteq table
      withPool == IF able THEN pools \cup adds ELSE pools
      ok == work.ok /\ able /\ rem \subseteq withPool
  IN /\ pools' = withPool
     /\ done \in Unsubscribed(rem, withPool)
     /\ subs' = [p \in Plugins |->
          (IF able /\ p \in adds THEN subs[p] \cup {t} ELSE subs[p])
            \ (IF p \in done THEN {t} ELSE {})]
     /\ groups' = IF work.op = "add" /\ ~ok THEN groups
                  ELSE [groups EXCEPT ![t] = [present |-> TRUE,
                          plugins |-> work.plugins, metrics |-> work.metrics]]

Subscribe ==
  /\ work.task # NoTask
  /\ LET t == work.task
         old == groups[t].plugins
         rem == Removes(work.plugins, old)
     IN \E done \in SUBSET rem : Process(t, Adds(work.plugins, old), rem, done)
  /\ work' = IF work.todo \ {work.task} = {} THEN NoWork
             ELSE [NoWork EXCEPT !.op = "process", !.todo = work.todo \ {work.task}]
  /\ UNCHANGED <<loadVars, events, history>>

Remove(t) ==
  /\ work = NoWork
  /\ groups[t].present
  /\ LET rem == {p \in Plugins : groups[t].plugins[p] > 0}
     IN \E done \in Unsubscribed(rem, pools) :
          subs' = [p \in Plugins |-> IF p \in done THEN subs[p] \ {t} ELSE subs[p]]
  /\ groups' = [groups EXCEPT ![t] = NoGroup]
  /\ UNCHANGED <<loadVars, events, pools, work, history>>
-----------------------------------------------------------------------------
LoadStep(p) == AddLoadedMetricType(p) \/ AddToTable(p)
CallStep(c) ==
  SwapCheck(c) \/ UnloadPlugin(c) \/ RmUnloadedPluginMetrics(c) \/ Emit(c)
GroupStep == (\E t \in Tasks : ProcessNext(t)) \/ Subscribe

Next ==
  \/ \E c \in Callers, p \in Plugins : Load(c, p) \/ Unload(c, p)
  \/ \E c \in Callers, p, q \in Plugins : SwapPlugins(c, p, q)
  \/ \E c \in Callers : CallStep(c) \/ LoadTimesOut(c)
  \/ \E p \in Plugins : LoadStep(p) \/ LoadFails(p)
  \/ \E t \in Tasks : Add(t) \/ Remove(t)
  \/ HandleGomitEvent \/ GroupStep

Spec == Init /\ [][Next]_vars
-----------------------------------------------------------------------------
(* Properties.                                                              *)

\* No call, event or processing is under way.
Quiet ==
  /\ \A p \in Plugins : load[p] = NoLoad
  /\ \A c \in Callers : caller[c] = NoCall
  /\ events = 0 /\ work = NoWork

Current(t) ==
  groups[t].present => /\ groups[t].plugins = Needed(t)
                       /\ groups[t].metrics = Metrics(t)

\* One load or unload event brings every task's view up to date: once all has
\* come to rest, and nothing changed since without an event, each view is what
\* catalog and table offer now, in whatever order loads, unloads, swaps, failed
\* and abandoned loads, handlers and new tasks crossed each other
\* (control.go:285, subscription_group.go:426).
ViewsConverge == Quiet /\ ~silent => \A t \in Tasks : Current(t)

\* At rest the catalog has no metric of a plugin that is not loaded, unless its
\* load failed half-way, even if two callers load and unload the same plugin at
\* once (plugin_manager.go:753-758).
NoOrphanMetrics == Quiet => \A m \in catalog : m[1] \in table \cup failed
=============================================================================
