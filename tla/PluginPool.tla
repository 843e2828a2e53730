----------------------------- MODULE PluginPool -----------------------------
(***************************************************************************)
(* The running instances of one plugin: control/strategy/pool.go with its  *)
(* routing strategies, and what grows and shrinks the pool:                *)
(*  - subscriptionGroups (subscription_group.go), which under one mutex    *)
(*    subscribes tasks and starts an instance when the pool is eligible;   *)
(*  - the monitor (monitor.go, available_plugin.go), which pings every     *)
(*    instance of the pool and emits an event for one that fails too often;*)
(*  - the runner (runner.go), whose handlers of that event and of the      *)
(*    unsubscription event run concurrently, each a goroutine of its own;  *)
(*  - tasks that collect, process or publish with an instance, holding the *)
(*    pool's read lock (available_plugin.go).                              *)
(* Instances are numbered by generatePID.  Check k of instance i, and the  *)
(* handler of the event it may emit, are one actor <<i, k>>.               *)
(***************************************************************************)
EXTENDS Integers, FiniteSets

CONSTANTS
  Tasks,
  MaxPid,      \* bound: instances started
  Checks,      \* bound: health checks of an instance that may overlap
  Max,         \* pool.max
  Concurrency, \* pool.concurrencyCount
  MaxRestarts, \* MaxPluginRestartCount, -1 for no limit
  FailLimit,   \* DefaultHealthCheckFailureLimit
  Sticky,      \* the strategy is sticky rather than least-recently-used
  Faults       \* of "unsubscribe", "fail", "timeout": what happens in a run

ASSUME BoundsAssumption == MaxPid \in Nat /\ Max \in Nat \ {0}
ASSUME ConcurrencyAssumption == Concurrency \in Nat \ {0}
ASSUME RestartsAssumption == MaxRestarts \in Int
ASSUME FailLimitAssumption == FailLimit \in Nat \ {0}
ASSUME StickyAssumption == Sticky \in BOOLEAN
ASSUME FaultsAssumption == Faults \subseteq {"unsubscribe", "fail", "timeout"}

Ids == 1..MaxPid
None == 0

VARIABLES
  groups,   \* tasks with a subscription group
  subs,     \* pool.subs
  plugins,  \* pool.plugins
  pid,      \* pool.pidCounter
  proc,     \* the instance's process
  failed,   \* availablePlugin.failedHealthChecks
  check,    \* health checks, and handlers of the events they emit
  restarts, \* pool.restartCount
  sticky,   \* sticky.plugins: the instance of each task
  using,    \* the instance a task is calling, under the pool's read lock
  group,    \* the call of subscriptionGroups in progress
  unsub,    \* handlers of the unsubscription events
  late,     \* startPlugin goroutines whose caller has timed out
  calm      \* history: nobody has unsubscribed and no start has failed

vars == <<groups, subs, plugins, pid, proc, failed, check, restarts, sticky,
          using, group, unsub, late, calm>>

Init ==
  /\ groups = {} /\ subs = {} /\ plugins = {}
  /\ pid = 0
  /\ proc = [i \in Ids |-> "none"]
  /\ failed = [i \in Ids |-> 0]
  /\ check = [i \in Ids |-> [k \in Checks |-> "none"]]
  /\ restarts = 0
  /\ sticky = [t \in Tasks |-> None]
  /\ using = [t \in Tasks |-> None]
  /\ group = [pc |-> "idle", tasks |-> {}]
  /\ unsub = [t \in Tasks |-> [pc |-> "none", id |-> None]]
  /\ late = 0
  /\ calm = TRUE

GroupIdle == group' = [pc |-> "idle", tasks |-> {}]
CheckTo(i, k, pc) == check' = [check EXCEPT ![i][k] = pc]

EligibleIfTwo ==
  /\ Cardinality(plugins) < Max
  /\ Cardinality(subs) > Concurrency * (Cardinality(plugins) + 1)
Eligible ==
  /\ Cardinality(plugins) < Max
  /\ Cardinality(subs) > Concurrency * Cardinality(plugins)

\* pool.Insert at the end of startPlugin: the process is up and gets an id.
Insert ==
  /\ pid < MaxPid
  /\ pid' = pid + 1
  /\ plugins' = plugins \cup {pid + 1}
  /\ proc' = [proc EXCEPT ![pid + 1] = "up"]

\* startPlugin returns an error: the plugin does not come up, or the caller's
\* timeout fires and the goroutine goes on without it.
StartErr ==
  /\ calm' = FALSE
  /\ \/ "fail" \in Faults /\ UNCHANGED late
     \/ "timeout" \in Faults /\ late' = late + 1 /\ pid + late < MaxPid
-----------------------------------------------------------------------------
(* subscriptionGroups.Add and Remove                                        *)
Subscribe(t) ==
  /\ group.pc = "idle"
  /\ t \notin groups
  /\ subs' = subs \cup {t}
  /\ group' = [pc |-> "eligible", tasks |-> {t}]
  /\ UNCHANGED <<groups, plugins, pid, proc, failed, check, restarts, sticky,
                 using, unsub, late, calm>>

SubscribeEligible ==
  /\ group.pc = "eligible"
  /\ IF Eligible
     THEN group' = [group EXCEPT !.pc = "starting"] /\ UNCHANGED groups
     ELSE GroupIdle /\ groups' = groups \cup group.tasks
  /\ UNCHANGED <<subs, plugins, pid, proc, failed, check, restarts, sticky,
                 using, unsub, late, calm>>

SubscribeStarted ==
  /\ group.pc = "starting"
  /\ Insert
  /\ GroupIdle
  /\ groups' = groups \cup group.tasks
  /\ UNCHANGED <<subs, failed, check, restarts, sticky, using, unsub, late, calm>>

\* The group is not added, but the pool's subscription is not undone.
SubscribeFails ==
  /\ group.pc = "starting"
  /\ StartErr
  /\ GroupIdle
  /\ UNCHANGED <<groups, subs, plugins, pid, proc, failed, check, restarts,
                 sticky, using, unsub>>

Unsubscribe(t) ==
  /\ "unsubscribe" \in Faults
  /\ group.pc = "idle"
  /\ t \in groups
  /\ unsub[t].pc = "none"
  /\ groups' = groups \ {t}
  /\ subs' = subs \ {t}
  /\ unsub' = [unsub EXCEPT ![t].pc = "event"]
  /\ calm' = FALSE
  /\ UNCHANGED <<plugins, pid, proc, failed, check, restarts, sticky, using,
                 group, late>>

\* The goroutine of a start that timed out inserts its instance after all.
LateInsert ==
  /\ late > 0
  /\ Insert
  /\ late' = late - 1
  /\ UNCHANGED <<groups, subs, failed, check, restarts, sticky, using, group,
                 unsub, calm>>
-----------------------------------------------------------------------------
(* Strategy.Select and the calls of tasks                                   *)

\* lru.Select takes one of the pool; sticky.Select (and config-based likewise)
\* answers what it answered before, or else one that no task has.
LruSelect(t) == IF Sticky THEN {} ELSE plugins
StickySelect(t) ==
  IF ~Sticky THEN {}
  ELSE IF sticky[t] # None THEN {sticky[t]}
  ELSE plugins \ {sticky[u] : u \in Tasks}
Select(t) == LruSelect(t) \cup StickySelect(t)

\* Processes, publishes or collects, with pool.RLock held.
Call(t) ==
  /\ t \in groups
  /\ using[t] = None
  /\ \E i \in Select(t) :
       /\ using' = [using EXCEPT ![t] = i]
       /\ sticky' = IF Sticky THEN [sticky EXCEPT ![t] = i] ELSE sticky
  /\ UNCHANGED <<groups, subs, plugins, pid, proc, failed, check, restarts,
                 group, unsub, late, calm>>

CallReturns(t) ==
  /\ using[t] # None
  /\ using' = [using EXCEPT ![t] = None]
  /\ UNCHANGED <<groups, subs, plugins, pid, proc, failed, check, restarts,
                 sticky, group, unsub, late, calm>>

\* pool.Lock excludes the read lock.
CanLock == \A t \in Tasks : using[t] = None
-----------------------------------------------------------------------------
(* monitor and availablePlugin.CheckHealth                                  *)

\* Bound: the last instance never dies, so that a run can come to rest.
MayDie(i) == i < MaxPid

Crash(i) ==
  /\ proc[i] = "up"
  /\ MayDie(i)
  /\ proc' = [proc EXCEPT ![i] = "down"]
  /\ UNCHANGED <<groups, subs, plugins, pid, failed, check, restarts, sticky,
                 using, group, unsub, late, calm>>

Tick(i, k) ==
  /\ i \in plugins
  /\ check[i][k] = "none"
  /\ CheckTo(i, k, "ping")
  /\ UNCHANGED <<groups, subs, plugins, pid, proc, failed, restarts, sticky,
                 using, group, unsub, late, calm>>

CheckOk(i, k) ==
  /\ check[i][k] = "ping"
  /\ proc[i] = "up"
  /\ failed' = [failed EXCEPT ![i] = 0]
  /\ CheckTo(i, k, "none")
  /\ UNCHANGED <<groups, subs, plugins, pid, proc, restarts, sticky, using,
                 group, unsub, late, calm>>

\* A ping is refused, or not answered in time by an instance that is up.
HealthCheckFailed(i, k) ==
  /\ check[i][k] = "ping"
  /\ proc[i] # "up" \/ MayDie(i)
  /\ failed' = [failed EXCEPT ![i] = IF @ < FailLimit THEN @ + 1 ELSE @]
  /\ CheckTo(i, k, IF failed[i] + 1 >= FailLimit THEN "dead" ELSE "none")
  /\ UNCHANGED <<groups, subs, plugins, pid, proc, restarts, sticky, using,
                 group, unsub, late, calm>>
-----------------------------------------------------------------------------
(* runner.HandleGomitEvent for DeadAvailablePluginEvent                     *)
DeadKillUnlocked(i, k) ==
  /\ check[i][k] = "dead"
  /\ plugins' = plugins \ {i}
  /\ proc' = IF i \in plugins THEN [proc EXCEPT ![i] = "killed"] ELSE proc
  /\ CheckTo(i, k, "eligible")
  /\ UNCHANGED <<groups, subs, pid, failed, restarts, sticky, using, group,
                 unsub, late, calm>>
DeadDrop(i, k) ==
  /\ check[i][k] = "dead"
  /\ CanLock
  /\ plugins' = plugins \ {i}
  /\ CheckTo(i, k, "eligible")
  /\ UNCHANGED <<groups, subs, pid, proc, failed, restarts, sticky, using, group,
                 unsub, late, calm>>
DeadKill(i, k) ==
  /\ check[i][k] = "dead"
  /\ CanLock
  /\ plugins' = plugins \ {i}
  /\ proc' = IF i \in plugins THEN [proc EXCEPT ![i] = "killed"] ELSE proc
  /\ CheckTo(i, k, "eligible")
  /\ UNCHANGED <<groups, subs, pid, failed, restarts, sticky, using, group,
                 unsub, late, calm>>

DeadEligible(i, k) ==
  /\ check[i][k] = "eligible"
  /\ CheckTo(i, k, IF Eligible /\ (restarts < MaxRestarts \/ MaxRestarts = -1)
                   THEN "starting" ELSE "none")
  /\ UNCHANGED <<groups, subs, plugins, pid, proc, failed, restarts, sticky,
                 using, group, unsub, late, calm>>

Restarted(i, k) ==
  /\ check[i][k] = "starting"
  /\ Insert
  /\ CheckTo(i, k, "restarted")
  /\ UNCHANGED <<groups, subs, failed, restarts, sticky, using, group, unsub,
                 late, calm>>

RestartFails(i, k) ==
  /\ check[i][k] = "starting"
  /\ StartErr
  /\ CheckTo(i, k, "none")
  /\ UNCHANGED <<groups, subs, plugins, pid, proc, failed, restarts, sticky,
                 using, group, unsub>>

IncRestartCount(i, k) ==
  /\ check[i][k] = "restarted"
  /\ restarts' = restarts + 1
  /\ CheckTo(i, k, "none")
  /\ UNCHANGED <<groups, subs, plugins, pid, proc, failed, sticky, using, group,
                 unsub, late, calm>>
-----------------------------------------------------------------------------
(* runner.handleUnsubscription and pool.SelectAndKill                       *)
HandleUnsubscription(t) ==
  /\ unsub[t].pc = "event"
  /\ unsub' = [unsub EXCEPT ![t].pc =
       IF Cardinality(subs) < Cardinality(plugins) THEN "select" ELSE "none"]
  /\ UNCHANGED <<groups, subs, plugins, pid, proc, failed, check, restarts,
                 sticky, using, group, late, calm>>

\* Remove selects an instance; Stop and Kill end it, all without the lock.
SelectAndKill(t) ==
  /\ unsub[t].pc = "select"
  /\ IF Select(t) = {}
     THEN /\ unsub' = [unsub EXCEPT ![t].pc = "none"]
          /\ UNCHANGED <<proc, sticky>>
     ELSE \E i \in Select(t) :
          /\ unsub' = [unsub EXCEPT ![t] = [pc |-> "remove", id |-> i]]
          /\ proc' = [proc EXCEPT ![i] = "killed"]
          /\ sticky' = [sticky EXCEPT ![t] = None]
  /\ UNCHANGED <<groups, subs, plugins, pid, failed, check, restarts, using,
                 group, late, calm>>

Remove(t) ==
  /\ unsub[t].pc = "remove"
  /\ CanLock
  /\ plugins' = plugins \ {unsub[t].id}
  /\ unsub' = [unsub EXCEPT ![t] = [pc |-> "none", id |-> None]]
  /\ UNCHANGED <<groups, subs, pid, proc, failed, check, restarts, sticky, using,
                 group, late, calm>>
-----------------------------------------------------------------------------
Groups ==
  \/ SubscribeEligible \/ SubscribeStarted \/ SubscribeFails
Handler(i, k) ==
  \/ CheckOk(i, k) \/ HealthCheckFailed(i, k)
  \/ DeadKill(i, k) \/ DeadEligible(i, k) \/ Restarted(i, k)
  \/ RestartFails(i, k) \/ IncRestartCount(i, k)
Unsubscription(t) == HandleUnsubscription(t) \/ SelectAndKill(t) \/ Remove(t)
Next ==
  \/ \E t \in Tasks : Subscribe(t) \/ Unsubscribe(t) \/ Unsubscription(t)
  \/ \E t \in Tasks : Call(t) \/ CallReturns(t)
  \/ Groups
  \/ LateInsert
  \/ \E i \in Ids : Crash(i)
  \/ \E i \in Ids, k \in Checks : Tick(i, k) \/ Handler(i, k)

Spec == Init /\ [][Next]_vars

\* The monitor ticks, goroutines run, calls return (RPCs have a timeout), and a
\* writer is not starved by readers (sync.RWMutex).
Fairness ==
  /\ WF_vars(Groups)
  /\ \A t \in Tasks : WF_vars(CallReturns(t)) /\ WF_vars(Unsubscription(t))
  /\ \A i \in Ids, k \in Checks :
       WF_vars(Tick(i, k)) /\ WF_vars(Handler(i, k)) /\ SF_vars(DeadKill(i, k))
LiveSpec == Spec /\ Fairness
-----------------------------------------------------------------------------
(* Properties.                                                              *)

\* No plugin process is orphaned: one that still runs is in the pool, so the
\* monitor watches it and a shutdown stops it, whatever starts, timeouts, kills
\* and unsubscriptions cross each other (runner.go:189, pool.go:280-334).
NoOrphan == \A i \in Ids : proc[i] = "up" => i \in plugins

\* With the least-recently-used strategy an instance stays in the pool as long
\* as a task is calling it (available_plugin.go:458, pool.go:280).
InUseStaysInPool ==
  ~Sticky => \A t \in Tasks : using[t] # None => using[t] \in plugins

\* If nobody unsubscribes and plugins start, a pool with subscribers whose
\* instances have all died gets a new one (runner.go:296).
PoolRecovers ==
  (groups # {}) ~> (~calm \/ \E i \in plugins : proc[i] = "up")
=============================================================================
