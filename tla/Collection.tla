----------------------------- MODULE Collection -----------------------------
(* One collection after the other: the schedules that fire tasks             *)
(* (pkg/schedule), the routing strategies of a pool and their caches         *)
(* (control/strategy), the calls with their deadlines (control/plugin/client)*)
(* and the plugin process with its handshake and its heartbeat               *)
(* (control/plugin).  The pool has one instance.                             *)
(*                                                                           *)
(* Time is counted in ticks.  A sleep of d lasts longer than d: the clock    *)
(* has moved on when it is read again.                                       *)
EXTENDS Integers, FiniteSets

CONSTANTS Tasks,
          Wants,       \* the metrics each task asks for
          Instances,   \* what the dynamic element of a namespace stands for
          Specs,       \* the schedules a manifest of each task declares
          Strategies,  \* routing strategies of the plugin
          Rpcs,        \* "native" or "grpc"
          GlobalCacheExpiration, PluginTTL, \* ticks a cache entry lives
          Deadline, Grace, \* ticks of a call, of a killed plugin
          MaxTime      \* bound on the clock

NoTime == -1
PingTimeoutLimit == 3
Star == "*"

ASSUME SpecsAssumption ==
  \A t \in Tasks : \A s \in Specs[t] :
    /\ s \in [kind : {"windowed", "cron"}, interval : Int, count : Nat,
              start : Nat \cup {NoTime}, stop : Nat \cup {NoTime}]
    /\ s.kind = "cron" => s.interval > 0
ASSUME NamesAssumption == Star \notin Instances
ASSUME CacheAssumption == GlobalCacheExpiration \in Nat \ {0} /\ PluginTTL \in Nat
ASSUME CallsAssumption == Deadline \in Nat /\ Grace \in Nat

VARIABLES now,
          plan,      \* the schedule of each task
          stopOn,    \* stopOnTime: the end of the window
          pc, due,   \* where the task is, and until when it sleeps
          skipped,   \* intervals that passed before the sleep
          last,      \* lastFireTime
          fires, missed, \* hitCount, missedIntervals
          strategy, rpc,
          cache,     \* the cells of the strategy's caches
          sel,       \* the ids that the strategy has given the instance to
          call,      \* what a collection has found in the cache, and since when
          got,       \* (history) the last answer of each task
          proc,      \* the plugin process
          killed,    \* when it was told to exit
          daemon,    \* what the daemon knows of it
          beats      \* heartbeat checks in a row that found no ping
clock == <<plan, stopOn, due, skipped, last, fires, missed>>
plugin == <<proc, killed, daemon, beats>>
data == <<cache, sel, call, got>>
vars == <<now, pc, clock, strategy, rpc, data, plugin>>

-----------------------------------------------------------------------------
(* Schedules.                                                                *)

\* The count is ignored where there is a stop time.
NewWindowedSchedule(s) ==
  [s EXCEPT !.count = IF s.stop # NoTime THEN 0 ELSE @]
Valid(s, t) ==
  s.kind = "windowed" =>
    /\ s.stop = NoTime \/ t <= s.stop
    /\ s.stop = NoTime \/ s.start = NoTime \/ s.start <= s.stop
    /\ s.interval > 0
MakeSchedule(specs) ==
  {IF s.kind = "windowed" THEN NewWindowedSchedule(s) ELSE s : s \in {x \in specs : Valid(x, 0)}}

\* The end of the window is fixed when the first wait begins.
SetStopOnTime(s) ==
  IF s.stop # NoTime \/ s.count = 0 THEN s.stop
  ELSE (IF s.start # NoTime /\ now < s.start THEN s.start ELSE now)
         + s.count * s.interval

\* The next time of a cron entry, here every interval.
CronNext(s, t) == ((t \div s.interval) + 1) * s.interval
CronMisses(s, from) == Cardinality({m \in from + 1 .. now : m % s.interval = 0})

-----------------------------------------------------------------------------
(* Metrics and caches.  An instance of a dynamic metric is cached under the  *)
(* namespace with the star.                                                  *)

\* The plugin can make entries live longer than the daemon's default.
Ttl == IF PluginTTL > GlobalCacheExpiration THEN PluginTTL ELSE GlobalCacheExpiration

Asked(r) == IF r = Star THEN Instances ELSE {r}
CacheKey(m) == IF m \in Instances THEN Star ELSE m
Keys == UNION {Wants[t] : t \in Tasks} \union {Star}
NoCell == [time |-> NoTime, metrics |-> {}]
CacheIds == Tasks \union {""}
\* One cache for the pool, or one per task.
CacheId(t) == IF strategy = "least-recently-used" THEN "" ELSE t
SelectId(t) ==
  CASE strategy = "least-recently-used" -> ""
    [] strategy = "sticky" -> t
    [] strategy = "config-based" -> "config"
Get(t, r) == LET cell == cache[CacheId(t)][r]
             IN IF cell.time # NoTime /\ now - cell.time < Ttl THEN cell.metrics ELSE {}
Hits(t) == UNION {Get(t, r) : r \in Wants[t]}
Misses(t) == {r \in Wants[t] : Get(t, r) = {}}
\* A key that got metrics gets all of them and the time.
UpdateCache(id, mts) ==
  [cache EXCEPT ![id] =
     [k \in Keys |->
        IF \E m \in mts : CacheKey(m.name) = k
        THEN [time |-> now, metrics |-> {m \in mts : CacheKey(m.name) = k}]
        ELSE @[k]]]

NoCall == [hits |-> {}, misses |-> {}, since |-> NoTime]

Init ==
  /\ now = 0
  /\ plan \in [Tasks -> UNION {MakeSchedule(Specs[t]) : t \in Tasks}]
  /\ \A t \in Tasks : plan[t] \in MakeSchedule(Specs[t])
  /\ stopOn = [t \in Tasks |-> NoTime]
  /\ pc = [t \in Tasks |-> "wait"]
  /\ due = [t \in Tasks |-> 0] /\ skipped = [t \in Tasks |-> 0]
  /\ last = [t \in Tasks |-> NoTime]
  /\ fires = [t \in Tasks |-> 0] /\ missed = [t \in Tasks |-> 0]
  /\ strategy \in Strategies /\ rpc \in Rpcs
  /\ cache = [i \in CacheIds |-> [k \in Keys |-> NoCell]]
  /\ sel = {}
  /\ call = [t \in Tasks |-> NoCall] /\ got = [t \in Tasks |-> {}]
  /\ proc = "starting" /\ killed = NoTime
  /\ daemon = "waiting" /\ beats = 0

\* The steps of a task between two waits take no tick, and timers are on time:
\* only sleeps and answers are late.
Busy(t) == pc[t] \in {"wait", "check", "select", "take"}
Overdue ==
  \/ \E t \in Tasks : pc[t] = "call" /\ proc # "dying" /\ now - call[t].since > Deadline
  \/ proc = "dying" /\ now - killed > Grace
Tick ==
  /\ now < MaxTime /\ now' = now + 1
  /\ ~Overdue /\ \A t \in Tasks : ~Busy(t)
  /\ UNCHANGED <<pc, clock, strategy, rpc, data, plugin>>

-----------------------------------------------------------------------------
(* The loop of a task: wait for the schedule, fire.                          *)

Goto(t, to) == pc' = [pc EXCEPT ![t] = to]
End(t) == Goto(t, "ended") /\ UNCHANGED <<due, skipped, last, fires, missed>>

\* spin fires when the schedule answers that it is active.
Fire(t, m) ==
  /\ Goto(t, "check")
  /\ last' = [last EXCEPT ![t] = now]
  /\ fires' = [fires EXCEPT ![t] = @ + 1]
  /\ missed' = [missed EXCEPT ![t] = @ + m]
  /\ UNCHANGED <<due, skipped>>

SleepUntil(t, to, time, m) ==
  /\ Goto(t, to)
  /\ due' = [due EXCEPT ![t] = time]
  /\ skipped' = [skipped EXCEPT ![t] = m]
  /\ UNCHANGED <<last, fires, missed>>

\* The first run does not wait; the others sleep until the next multiple of
\* the interval after the last run.
WaitOnInterval(t) ==
  IF last[t] = NoTime THEN Fire(t, 0)
  ELSE LET i == plan[t].interval
           m == (now - last[t]) \div i
       IN SleepUntil(t, "interval", last[t] + (m + 1) * i, m)

WithinWindow(t, stop) ==
  IF stop = NoTime \/ now < stop THEN WaitOnInterval(t) ELSE End(t)

WaitWindowed(t) ==
  /\ pc[t] = "wait" /\ plan[t].kind = "windowed"
  /\ LET stop == IF last[t] = NoTime THEN SetStopOnTime(plan[t]) ELSE stopOn[t]
     IN /\ stopOn' = [stopOn EXCEPT ![t] = stop]
        /\ IF plan[t].start # NoTime /\ now < plan[t].start
           THEN SleepUntil(t, "start", plan[t].start, 0)
           ELSE WithinWindow(t, stop)
  /\ got' = [got EXCEPT ![t] = {}]
  /\ UNCHANGED <<now, plan, strategy, rpc, cache, sel, call, plugin>>

WakeStart(t) ==
  /\ pc[t] = "start" /\ now > due[t]
  /\ WithinWindow(t, stopOn[t])
  /\ UNCHANGED <<now, plan, stopOn, strategy, rpc, data, plugin>>

\* Mutant: the window may have ended during the sleep
WakeIntervalUnchecked(t) ==
  /\ pc[t] = "interval" /\ now > due[t]
  /\ Fire(t, skipped[t])
  /\ UNCHANGED <<now, plan, stopOn, strategy, rpc, data, plugin>>

WakeInterval(t) ==
  /\ pc[t] = "interval" /\ now > due[t]
  /\ IF stopOn[t] # NoTime /\ now > stopOn[t] THEN End(t) ELSE Fire(t, skipped[t])
  /\ UNCHANGED <<now, plan, stopOn, strategy, rpc, data, plugin>>

WaitCron(t) ==
  /\ pc[t] = "wait" /\ plan[t].kind = "cron"
  /\ SleepUntil(t, "cron", CronNext(plan[t], now),
                CronMisses(plan[t], IF last[t] = NoTime THEN now ELSE last[t]))
  /\ got' = [got EXCEPT ![t] = {}]
  /\ UNCHANGED <<now, plan, stopOn, strategy, rpc, cache, sel, call, plugin>>

WakeCron(t) ==
  /\ pc[t] = "cron" /\ now > due[t]
  /\ Fire(t, skipped[t])
  /\ UNCHANGED <<now, plan, stopOn, strategy, rpc, data, plugin>>

-----------------------------------------------------------------------------
(* collectMetrics.  Only a read lock of the pool is held, and none for the   *)
(* cache.                                                                    *)

Finish(t, mts) ==
  /\ Goto(t, "wait")
  /\ got' = [got EXCEPT ![t] = mts]
  /\ call' = [call EXCEPT ![t] = NoCall]

CheckCache(t) ==
  /\ pc[t] = "check"
  /\ IF Misses(t) = {} THEN Finish(t, Hits(t))
     ELSE /\ Goto(t, "select")
          /\ call' = [call EXCEPT ![t] = [hits |-> Hits(t), misses |-> Misses(t), since |-> NoTime]]
          /\ UNCHANGED got
  /\ UNCHANGED <<now, clock, strategy, rpc, cache, sel, plugin>>

\* An id keeps its instance; a new id gets one that no id has.  The strategy
\* that picks the least recently used keeps no owners.
CanSelect(t) ==
  /\ daemon = "inserted"
  /\ strategy = "least-recently-used" \/ SelectId(t) \in sel \/ sel = {}
Select(t) ==
  /\ pc[t] = "select"
  /\ IF CanSelect(t)
     THEN /\ Goto(t, "take")
          /\ UNCHANGED <<call, got>>
     ELSE Finish(t, {})
  /\ UNCHANGED <<now, clock, strategy, rpc, cache, sel, plugin>>
Take(t) ==
  /\ pc[t] = "take"
  /\ Goto(t, "call")
  /\ sel' = IF strategy = "least-recently-used" THEN sel ELSE sel \union {SelectId(t)}
  /\ call' = [call EXCEPT ![t].since = now]
  /\ UNCHANGED <<now, clock, strategy, rpc, cache, got, plugin>>

\* What the plugin measures when the call reaches it.
Collected(t) ==
  {[name |-> n, at |-> call[t].since, by |-> t] : n \in UNION {Asked(r) : r \in call[t].misses}}
\* Mutant: the results are cached, what came from the cache included
AnswerCachesResults(t) ==
  /\ pc[t] = "call" /\ proc \in {"up", "dying"}
  /\ rpc = "grpc" => now - call[t].since <= Deadline
  /\ cache' = UpdateCache(CacheId(t), Collected(t) \union call[t].hits)
  /\ Finish(t, Collected(t) \union call[t].hits)
  /\ UNCHANGED <<now, clock, strategy, rpc, sel, plugin>>
\* Mutant: what came from the cache is not returned
AnswerDropsHits(t) ==
  /\ pc[t] = "call" /\ proc \in {"up", "dying"}
  /\ rpc = "grpc" => now - call[t].since <= Deadline
  /\ cache' = UpdateCache(CacheId(t), Collected(t))
  /\ Finish(t, Collected(t))
  /\ UNCHANGED <<now, clock, strategy, rpc, sel, plugin>>
\* A native call has no deadline of its own: an answer after it is taken too.
Answer(t) ==
  /\ pc[t] = "call" /\ proc \in {"up", "dying"}
  /\ rpc = "grpc" => now - call[t].since <= Deadline
  /\ cache' = UpdateCache(CacheId(t), Collected(t))
  /\ Finish(t, Collected(t) \union call[t].hits)
  /\ UNCHANGED <<now, clock, strategy, rpc, sel, plugin>>
\* The plugin answers with an error, or the connection is gone.
Fail(t) ==
  /\ pc[t] = "call"
  /\ Finish(t, {})
  /\ UNCHANGED <<now, clock, strategy, rpc, cache, sel, plugin>>

\* The context of a grpc call expires; the native client tells the plugin to
\* exit and goes on waiting for the call.
PassDeadline(t) ==
  /\ pc[t] = "call" /\ now - call[t].since > Deadline
  /\ IF rpc = "grpc"
     THEN Finish(t, {}) /\ UNCHANGED plugin
     ELSE /\ proc = "up" /\ proc' = "dying" /\ killed' = now
          /\ UNCHANGED <<pc, got, call, daemon, beats>>
  /\ UNCHANGED <<now, clock, strategy, rpc, cache, sel>>
\* A call to a process that is gone returns with an error.
Disconnect(t) == proc = "gone" /\ Fail(t)

-----------------------------------------------------------------------------
(* The plugin process.                                                       *)

Process(state, known) ==
  /\ proc' = state /\ daemon' = known
  /\ UNCHANGED <<now, pc, clock, strategy, rpc, data, killed, beats>>

\* The handshake is answered.  When the client cannot be built or its first
\* call fails, startPlugin returns and leaves the process alone.
Respond ==
  /\ proc = "starting" /\ daemon = "waiting"
  /\ \E known \in {"inserted", "abandoned"} : Process("up", known)
\* No answer, or one that cannot be read: Run kills the process.
RunFails == proc = "starting" /\ daemon = "waiting" /\ Process("gone", "failed")
\* The answer is an error: the process exits by itself.
Refuse == proc = "starting" /\ daemon = "waiting" /\ Process("dying", "failed")
Crash == proc = "up" /\ Process("gone", daemon)
Exit == proc = "dying" /\ Process("gone", daemon)

\* Mutant: the count starts anew with every look
HeartbeatWatchForgets ==
  /\ proc = "up"
  /\ beats' = IF daemon = "inserted" THEN 0 ELSE 1
  /\ proc' = IF beats' >= PingTimeoutLimit THEN "gone" ELSE proc
  /\ UNCHANGED <<now, pc, clock, strategy, rpc, data, killed, daemon>>
\* Every PingTimeoutDuration the process looks whether it was pinged since the
\* last look.  The monitor pings what is in a pool more often than that.
HeartbeatWatch ==
  /\ proc = "up"
  /\ beats' = IF daemon = "inserted" THEN 0 ELSE beats + 1
  /\ proc' = IF beats' >= PingTimeoutLimit THEN "gone" ELSE proc
  /\ UNCHANGED <<now, pc, clock, strategy, rpc, data, killed, daemon>>

\* snapteld is killed: what it knew is lost, the process is on its own.
DaemonDies ==
  /\ daemon = "inserted" /\ daemon' = "dead"
  /\ pc' = [t \in Tasks |-> "dead"]
  /\ cache' = [i \in CacheIds |-> [k \in Keys |-> NoCell]]
  /\ sel' = {}
  /\ call' = [t \in Tasks |-> NoCall] /\ got' = [t \in Tasks |-> {}]
  /\ due' = [t \in Tasks |-> 0] /\ skipped' = [t \in Tasks |-> 0]
  /\ last' = [t \in Tasks |-> NoTime] /\ stopOn' = [t \in Tasks |-> NoTime]
  /\ fires' = [t \in Tasks |-> 0] /\ missed' = [t \in Tasks |-> 0]
  /\ UNCHANGED <<now, plan, strategy, rpc, proc, killed, beats>>

Next ==
  \/ \E t \in Tasks : WaitWindowed(t)
  \/ \E t \in Tasks : WakeStart(t)
  \/ \E t \in Tasks : WakeInterval(t)
  \/ \E t \in Tasks : WaitCron(t)
  \/ \E t \in Tasks : WakeCron(t)
  \/ \E t \in Tasks : CheckCache(t)
  \/ \E t \in Tasks : Select(t)
  \/ \E t \in Tasks : Take(t)
  \/ \E t \in Tasks : Answer(t)
  \/ \E t \in Tasks : Fail(t)
  \/ \E t \in Tasks : PassDeadline(t)
  \/ \E t \in Tasks : Disconnect(t)
  \/ Tick
  \/ Respond
  \/ RunFails
  \/ Refuse
  \/ Crash
  \/ Exit
  \/ HeartbeatWatch
  \/ DaemonDies

-----------------------------------------------------------------------------
\* Timers fire, goroutines run and killed processes exit; nothing is assumed
\* of a plugin that answers, fails or crashes.
Steps(t) ==
  \/ WaitWindowed(t) \/ WakeStart(t) \/ WakeInterval(t) \/ WaitCron(t) \/ WakeCron(t)
  \/ CheckCache(t) \/ Select(t) \/ Take(t) \/ PassDeadline(t) \/ Disconnect(t)
Fairness ==
  /\ \A t \in Tasks : WF_vars(Steps(t))
  /\ WF_vars(Tick) /\ WF_vars(Exit) /\ WF_vars(HeartbeatWatch)
Spec == Init /\ [][Next]_vars /\ Fairness

\* A windowed schedule with a count and no stop fires its task at most that
\* often, the intervals it missed included, however late its sleeps end.
CountIsKept ==
  \A t \in Tasks :
    plan[t].kind = "windowed" /\ plan[t].count > 0 => fires[t] + missed[t] <= plan[t].count

\* No task fires outside its window: not before the start time, and not after
\* the end that was fixed when it began to wait.
FiresInWindow ==
  \A t \in Tasks :
    plan[t].kind = "windowed" /\ last[t] # NoTime =>
      /\ last[t] >= plan[t].start
      /\ stopOn[t] # NoTime => last[t] <= stopOn[t]

\* A schedule keeps to its window and its count (schedule.go:70-89,
\* windowed_schedule.go:114-174).
WindowIsKept == CountIsKept /\ FiresInWindow

\* What a collection returns, from the cache of the strategy or from the
\* plugin, was measured not longer ago than a cache entry lives and a call
\* may last, the late answers of a plugin that is being killed included.
AgeIsBounded ==
  LET callTime == IF rpc = "grpc" THEN Deadline ELSE Deadline + 1 + Grace + 1
  IN \A t \in Tasks : \A m \in got[t] : now - m.at <= (Ttl - 1) + 2 * callTime

\* A collection that does not fail returns all that the task asks for, from
\* the cache and from the plugin together, and strategies with a cache for
\* every task only what was measured for it, with its configuration.  (An
\* instance that was collected on its own is all that is found under the star
\* afterwards, by any task that uses the same cache.)
AnswerIsComplete ==
  \A t \in Tasks : got[t] # {} =>
    /\ strategy # "least-recently-used" => \A m \in got[t] : m.by = t
    /\ \A r \in Wants[t] :
         \/ Asked(r) \subseteq {m.name : m \in got[t]}
         \/ /\ r = Star
            /\ \E u \in Tasks : CacheId(u) = CacheId(t) /\ Wants[u] \intersect Instances # {}

\* A schedule with an end ends, also when the plugin never answers.
WindowEnds ==
  \A t \in Tasks :
    plan[t].kind = "windowed" /\ (plan[t].stop # NoTime \/ plan[t].count > 0)
      ~> pc[t] \in {"ended", "dead"}

\* A process that snapteld forgot after its handshake, or that outlives
\* snapteld, ends: heartbeatWatch counts the checks that nobody called.
UnattendedExits == daemon \in {"abandoned", "dead"} /\ proc = "up" ~> proc = "gone"

\* What has an end comes to it, whatever the plugin does.
AllEnds == WindowEnds /\ UnattendedExits
=============================================================================
