-------------------------- MODULE CollectionProofs --------------------------
(***************************************************************************)
(* Proofs about Collection, for any tasks, schedules, caches and deadlines:*)
(* schedules keep to window and count, answers are no older than cache and *)
(* call allow, and they are complete.                                      *)
(***************************************************************************)
EXTENDS Collection, FiniteSetTheorems, TLAPS

\* Most leaves need no arithmetic.
USE ZenonT(5), SMTT(15)

-----------------------------------------------------------------------------
(* Schedules keep to their window and their count.                          *)

Times == Nat \cup {NoTime}

\* A schedule that MakeSchedule has accepted.
Schedules ==
  {s \in [kind : {"windowed", "cron"}, interval : Int, count : Nat, start : Times, stop : Times] :
     s.interval > 0 /\ (s.kind = "windowed" /\ s.stop # NoTime => s.count = 0)}

Stages == {"wait", "start", "interval", "cron", "check", "select", "take", "call", "ended", "dead"}

ClockTypes ==
  /\ now \in Nat
  /\ plan \in [Tasks -> Schedules]
  /\ stopOn \in [Tasks -> Times] /\ last \in [Tasks -> Times]
  /\ pc \in [Tasks -> Stages]
  /\ due \in [Tasks -> Int] /\ skipped \in [Tasks -> Nat]
  /\ fires \in [Tasks -> Nat] /\ missed \in [Tasks -> Nat]

\* The runs a task had, the intervals it missed included.
Hit(t) == fires[t] + missed[t]

\* Where a windowed schedule is.  The n-th hit is not before n - 1 intervals have
\* passed since the window began, which was count intervals before its end.
Window(t) ==
  /\ last[t] <= now
  /\ last[t] = NoTime => Hit(t) = 0
  /\ last[t] # NoTime => last[t] >= plan[t].start /\ (stopOn[t] # NoTime => last[t] <= stopOn[t])
  /\ plan[t].count > 0 => Hit(t) <= plan[t].count
  /\ plan[t].count > 0 /\ last[t] # NoTime =>
       /\ stopOn[t] # NoTime
       /\ stopOn[t] + Hit(t) * plan[t].interval
            <= last[t] + plan[t].interval + plan[t].count * plan[t].interval
  /\ pc[t] = "start" =>
       /\ plan[t].start # NoTime /\ due[t] = plan[t].start /\ last[t] = NoTime
       /\ plan[t].count > 0 => stopOn[t] = plan[t].start + plan[t].count * plan[t].interval
  /\ pc[t] = "interval" =>
       last[t] # NoTime /\ due[t] = last[t] + (skipped[t] + 1) * plan[t].interval
  /\ pc[t] # "cron"

\* Where a cron schedule is.
Cron(t) == last[t] <= now /\ pc[t] \notin {"start", "interval"}

OnTime(t) == IF plan[t].kind = "windowed" THEN Window(t) ELSE Cron(t)
WindowInv == ClockTypes /\ \A t \in Tasks : OnTime(t)

\* A positive interval can be cancelled.
LEMMA LessByFactor ==
  ASSUME NEW a \in Int, NEW b \in Int, NEW i \in Int, i > 0, a * i < b * i
  PROVE  a < b
OBVIOUS

\* Intervals add up.
LEMMA OneMore ==
  ASSUME NEW a \in Int, NEW b \in Int, NEW i \in Int
  PROVE  (a + b) * i = a * i + b * i /\ a * i \in Int
OBVIOUS

\* What the clock of one task is made of.
LEMMA ClockFacts ==
  ASSUME ClockTypes, NEW t \in Tasks
  PROVE  /\ plan[t].kind \in {"windowed", "cron"} /\ plan[t].interval \in Int
         /\ plan[t].interval > 0 /\ plan[t].count \in Nat
         /\ plan[t].start \in Int /\ plan[t].start >= -1
         /\ plan[t].stop \in Int /\ plan[t].stop >= -1
         /\ plan[t].kind = "windowed" /\ plan[t].count > 0 => plan[t].stop = NoTime
         /\ now \in Nat /\ stopOn[t] \in Int /\ stopOn[t] >= -1 /\ last[t] \in Int /\ last[t] >= -1
         /\ due[t] \in Int /\ skipped[t] \in Nat /\ fires[t] \in Nat /\ missed[t] \in Nat
<1>1. plan[t] \in Schedules /\ stopOn[t] \in Times /\ last[t] \in Times
  BY DEF ClockTypes
<1>2. plan[t].start \in Times /\ plan[t].stop \in Times /\ plan[t].interval \in Int
      /\ plan[t].count \in Nat /\ plan[t].kind \in {"windowed", "cron"}
      /\ plan[t].interval > 0 /\ (plan[t].kind = "windowed" /\ plan[t].stop # NoTime => plan[t].count = 0)
  BY <1>1 DEF Schedules
<1>3. \A x \in Times : x \in Int /\ x >= -1
  BY DEF Times, NoTime
<1>4. plan[t].kind = "windowed" /\ plan[t].count > 0 => plan[t].stop = NoTime
  BY <1>2
<1>5. now \in Nat /\ due[t] \in Int /\ skipped[t] \in Nat /\ fires[t] \in Nat /\ missed[t] \in Nat
  BY DEF ClockTypes
<1> QED
  BY <1>1, <1>2, <1>3, <1>4, <1>5

\* A task whose schedule stands still, or from which time goes on.
Same(t) ==
  /\ plan' = plan /\ now <= now' /\ now' \in Nat
  /\ stopOn'[t] = stopOn[t] /\ last'[t] = last[t] /\ due'[t] = due[t]
  /\ skipped'[t] = skipped[t] /\ fires'[t] = fires[t] /\ missed'[t] = missed[t]
  /\ pc'[t] = pc[t] \/ pc'[t] \notin {"start", "interval", "cron"}

\* A task whose schedule stands still stays where it is, however much time passes.
LEMMA SameWindow ==
  ASSUME ClockTypes, NEW t \in Tasks, OnTime(t), Same(t)
  PROVE  OnTime(t)'
<1>1. now \in Nat /\ last[t] \in Int /\ last[t] <= now
  BY ClockFacts DEF OnTime, Window, Cron
<1>2. Hit(t)' = Hit(t) /\ last'[t] <= now' /\ plan' = plan
  BY <1>1 DEF Same, Hit
<1>3. CASE plan[t].kind = "windowed"
  BY <1>2, <1>3 DEF Same, Window, OnTime
<1>4. CASE plan[t].kind # "windowed"
  BY <1>2, <1>4 DEF Same, Cron, OnTime
<1> QED
  BY <1>3, <1>4

\* The first run: the window has begun, and count intervals of it are left.
LEMMA FirstFire ==
  ASSUME ClockTypes, NEW t \in Tasks, plan[t].kind = "windowed", Window(t), Fire(t, 0),
         plan' = plan, now' = now, last[t] = NoTime, now >= plan[t].start,
         stopOn'[t] \in Times, stopOn'[t] # NoTime => now <= stopOn'[t],
         plan[t].count > 0 =>
           stopOn'[t] # NoTime /\ stopOn'[t] <= now + plan[t].count * plan[t].interval
  PROVE  Window(t)'
<1> DEFINE i == plan[t].interval
           n == plan[t].count
<1>1. /\ pc'[t] = "check" /\ last'[t] = now
      /\ fires'[t] = fires[t] + 1 /\ missed'[t] = missed[t]
  BY ClockFacts DEF Fire, Goto, ClockTypes
<1>2. Hit(t)' = 1
  BY <1>1, ClockFacts DEF Hit, Window
<1>3. i \in Int /\ n \in Nat /\ now \in Nat /\ now # NoTime /\ n * i \in Int
  BY ClockFacts DEF NoTime
<1>4. n > 0 => stopOn'[t] + Hit(t)' * i <= now + i + n * i
  BY <1>2, <1>3 DEF Times, NoTime
<1>5. n > 0 => Hit(t)' <= n
  BY <1>2, <1>3
<1> QED
  BY <1>1, <1>2, <1>3, <1>4, <1>5 DEF Window

\* A later run, after a sleep of which the schedule knows how many intervals it
\* lasts: it comes later than that many intervals after the last run.
LEMMA NextFire ==
  ASSUME ClockTypes, NEW t \in Tasks, plan[t].kind = "windowed", Window(t), Fire(t, skipped[t]),
         plan' = plan, now' = now, stopOn' = stopOn, pc[t] = "interval", now > due[t],
         stopOn[t] # NoTime => now <= stopOn[t]
  PROVE  Window(t)'
<1> DEFINE i == plan[t].interval
           n == plan[t].count
           m == skipped[t]
<1>1. /\ pc'[t] = "check" /\ last'[t] = now
      /\ fires'[t] = fires[t] + 1 /\ missed'[t] = missed[t] + m
  BY ClockFacts DEF Fire, Goto, ClockTypes
<1>2. /\ i \in Int /\ i > 0 /\ n \in Nat /\ m \in Nat /\ now \in Nat /\ last[t] \in Int
      /\ stopOn[t] \in Int /\ Hit(t) \in Nat /\ plan[t].start \in Int
  BY ClockFacts DEF Hit
<1>3. Hit(t)' = Hit(t) + (m + 1)
  BY <1>1, <1>2, ClockFacts DEF Hit
<1>4. Hit(t)' * i = Hit(t) * i + (m + 1) * i /\ Hit(t) * i \in Int /\ (m + 1) * i \in Int /\ n * i \in Int
  BY <1>2, <1>3, OneMore
<1>5. last[t] # NoTime /\ now > last[t] + (m + 1) * i
  BY DEF Window
<1>6. now >= plan[t].start /\ now # NoTime
  <2>1. last[t] >= plan[t].start /\ last[t] <= now
    BY <1>5 DEF Window
  <2> QED
    BY <1>2, <2>1 DEF NoTime
<1>7. n > 0 => stopOn[t] # NoTime /\ stopOn[t] + Hit(t)' * i < now + i + n * i
  <2>1. n > 0 => stopOn[t] # NoTime /\ stopOn[t] + Hit(t) * i <= last[t] + i + n * i
    BY <1>5 DEF Window
  <2> HIDE DEF i, n, m
  <2> QED
    BY <1>2, <1>4, <1>5, <2>1
<1>8. n > 0 => Hit(t)' <= n
  <2> SUFFICES ASSUME n > 0 PROVE Hit(t)' <= n
    OBVIOUS
  <2>1. stopOn[t] + Hit(t)' * i < now + i + n * i /\ now <= stopOn[t]
    BY <1>7
  <2> HIDE DEF i, n, m
  <2>2. Hit(t)' \in Int
    BY <1>2, <1>3
  <2>3. Hit(t)' * i \in Int /\ n * i \in Int /\ 1 * i = i
    BY <1>2, <2>2
  <2>4. Hit(t)' * i < n * i + 1 * i
    BY <1>2, <2>1, <2>3
  <2>5. (n + 1) * i = n * i + 1 * i
    BY <1>2, OneMore
  <2>6. Hit(t)' < n + 1
    BY <1>2, <2>2, <2>4, <2>5, LessByFactor
  <2> QED
    BY <1>2, <2>2, <2>6
<1>9. n > 0 => stopOn[t] # NoTime /\ stopOn[t] + Hit(t)' * i <= now + i + n * i
  <2> HIDE DEF i, n, m
  <2> QED
    BY <1>2, <1>4, <1>7
<1> QED
  BY <1>1, <1>2, <1>6, <1>8, <1>9 DEF Window

\* Inside the window a task runs for the first time, or sleeps.
LEMMA WithinWindowKeeps ==
  ASSUME ClockTypes, NEW t \in Tasks, plan[t].kind = "windowed", Window(t),
         NEW stop \in Times, WithinWindow(t, stop), stopOn'[t] = stop,
         plan' = plan, now' = now, now >= plan[t].start,
         last[t] # NoTime => stop = stopOn[t],
         last[t] = NoTime /\ plan[t].count > 0 =>
           stop # NoTime /\ stop <= now + plan[t].count * plan[t].interval
  PROVE  Window(t)'
<1>1. now \in Nat /\ stop \in Int
  BY DEF ClockTypes, Times, NoTime
<1>2. CASE ~(stop = NoTime \/ now < stop)
  <2>1. pc'[t] = "ended" /\ UNCHANGED <<due, skipped, last, fires, missed>>
    BY <1>2 DEF WithinWindow, End, Goto, ClockTypes
  <2>2. last[t] = NoTime => Hit(t) = 0
    BY DEF Window
  <2>3. Hit(t)' = Hit(t)
    BY <2>1 DEF Hit
  <2> QED
    BY <2>1, <2>2, <2>3 DEF Window
<1>3. CASE (stop = NoTime \/ now < stop) /\ last[t] = NoTime
  <2>1. Fire(t, 0)
    BY <1>3 DEF WithinWindow, WaitOnInterval
  <2> QED
    BY <1>1, <1>3, <2>1, FirstFire
<1>4. CASE (stop = NoTime \/ now < stop) /\ last[t] # NoTime
  <2> DEFINE m == (now - last[t]) \div plan[t].interval
  <2>1. SleepUntil(t, "interval", last[t] + (m + 1) * plan[t].interval, m)
    BY <1>4 DEF WithinWindow, WaitOnInterval
  <2> HIDE DEF m
  <2>2. /\ pc'[t] = "interval" /\ skipped'[t] = m
        /\ due'[t] = last[t] + (m + 1) * plan[t].interval
        /\ UNCHANGED <<last, fires, missed>>
    BY <2>1 DEF SleepUntil, Goto, ClockTypes
  <2>3. Hit(t)' = Hit(t)
    BY <2>2 DEF Hit
  <2> QED
    BY <1>4, <2>2, <2>3 DEF Window
<1> QED
  BY <1>2, <1>3, <1>4

\* The end of a window is a time.
LEMMA SetStopType ==
  ASSUME ClockTypes, NEW t \in Tasks
  PROVE  SetStopOnTime(plan[t]) \in Times
<1> DEFINE s == plan[t]
           begin == IF s.start # NoTime /\ now < s.start THEN s.start ELSE now
           length == s.count * s.interval
<1>1. s.interval \in Int /\ s.interval > 0 /\ s.count \in Nat /\ s.start \in Int /\ s.start >= -1
      /\ now \in Nat
  BY ClockFacts
<1>2. s.stop \in Times
  BY DEF ClockTypes, Schedules
<1>3. begin \in Nat
  BY <1>1 DEF NoTime
<1>4. length \in Int /\ length >= 0
  BY <1>1
<1>5. SetStopOnTime(s) = IF s.stop # NoTime \/ s.count = 0 THEN s.stop ELSE begin + length
  BY DEF SetStopOnTime
<1> HIDE DEF begin, length
<1>6. begin + length \in Nat
  BY <1>3, <1>4
<1> QED
  BY <1>2, <1>5, <1>6 DEF Times

\* The steps of a windowed schedule.
LEMMA WaitWindowedKeeps ==
  ASSUME ClockTypes, NEW t \in Tasks, plan[t].kind = "windowed", Window(t), WaitWindowed(t)
  PROVE  Window(t)'
<1> DEFINE s == plan[t]
           stop == IF last[t] = NoTime THEN SetStopOnTime(s) ELSE stopOn[t]
<1>1. /\ stopOn' = [stopOn EXCEPT ![t] = stop] /\ plan' = plan /\ now' = now
      /\ IF s.start # NoTime /\ now < s.start THEN SleepUntil(t, "start", s.start, 0)
         ELSE WithinWindow(t, stop)
  BY DEF WaitWindowed
<1>2. /\ s.interval \in Int /\ s.interval > 0 /\ s.count \in Nat /\ s.start \in Int /\ s.start >= -1
      /\ now \in Nat /\ s.count * s.interval \in Int /\ last[t] \in Int
      /\ s.count > 0 => s.stop = NoTime
  BY ClockFacts
<1>3. s.count > 0 => SetStopOnTime(s) =
        (IF s.start # NoTime /\ now < s.start THEN s.start ELSE now) + s.count * s.interval
  BY <1>2 DEF SetStopOnTime
<1>4. s.count * s.interval >= 0
  BY <1>2
<1>5. SetStopOnTime(s) \in Times
  BY SetStopType
<1>6. stop \in Times /\ stopOn'[t] = stop
  BY <1>1, <1>5 DEF ClockTypes
<1> HIDE DEF stop
<1>7. CASE s.start # NoTime /\ now < s.start
  <2>1. /\ pc'[t] = "start" /\ due'[t] = s.start /\ UNCHANGED <<last, fires, missed>>
    BY <1>1, <1>7 DEF SleepUntil, Goto, ClockTypes
  <2>2. last[t] = NoTime
    BY <1>2, <1>7 DEF Window
  <2>3. s.count > 0 => stopOn'[t] = s.start + s.count * s.interval
    BY <1>3, <1>6, <1>7, <2>2 DEF stop
  <2>4. Hit(t)' = Hit(t)
    BY <2>1 DEF Hit
  <2> QED
    BY <1>1, <1>7, <2>1, <2>2, <2>3, <2>4 DEF Window
<1>8. CASE ~(s.start # NoTime /\ now < s.start)
  <2>1. WithinWindow(t, stop)
    BY <1>1, <1>8
  <2>2. now >= s.start
    BY <1>2, <1>8 DEF NoTime
  <2>3. last[t] # NoTime => stop = stopOn[t]
    BY DEF stop
  <2>4. last[t] = NoTime /\ s.count > 0 => stop # NoTime /\ stop <= now + s.count * s.interval
    <3> SUFFICES ASSUME last[t] = NoTime, s.count > 0
                 PROVE  stop # NoTime /\ stop <= now + s.count * s.interval
      OBVIOUS
    <3>1. stop = now + s.count * s.interval
      BY <1>3, <1>8 DEF stop
    <3> QED
      BY <1>2, <1>4, <3>1 DEF NoTime
  <2> QED
    BY <1>1, <1>6, <2>1, <2>2, <2>3, <2>4, WithinWindowKeeps
<1> QED
  BY <1>7, <1>8

\* The first run of a window: count intervals are left until its end.
LEMMA WakeStartKeeps ==
  ASSUME ClockTypes, NEW t \in Tasks, plan[t].kind = "windowed", Window(t), WakeStart(t)
  PROVE  Window(t)'
<1>1. /\ WithinWindow(t, stopOn[t]) /\ plan' = plan /\ now' = now /\ stopOn' = stopOn
      /\ pc[t] = "start" /\ now > due[t] /\ stopOn[t] \in Times
  BY DEF WakeStart, ClockTypes
<1>2. /\ due[t] = plan[t].start /\ last[t] = NoTime
      /\ plan[t].count > 0 => stopOn[t] = plan[t].start + plan[t].count * plan[t].interval
  BY <1>1 DEF Window
<1>3. /\ plan[t].interval \in Int /\ plan[t].interval > 0 /\ plan[t].count \in Nat
      /\ plan[t].start \in Int /\ plan[t].start >= -1 /\ now \in Nat
      /\ plan[t].count * plan[t].interval \in Int
  BY ClockFacts
<1>4. plan[t].start # NoTime
  BY <1>1 DEF Window
<1>5. plan[t].count > 0 => stopOn[t] # NoTime
                           /\ stopOn[t] <= now + plan[t].count * plan[t].interval
  <2>1. plan[t].count * plan[t].interval >= 0
    BY <1>3
  <2> QED
    BY <1>1, <1>2, <1>3, <1>4, <2>1 DEF NoTime
<1> QED
  BY <1>1, <1>2, <1>3, <1>5, WithinWindowKeeps

\* A sleep that ends late counts the intervals it has missed.
LEMMA WakeIntervalKeeps ==
  ASSUME ClockTypes, NEW t \in Tasks, plan[t].kind = "windowed", Window(t), WakeInterval(t)
  PROVE  Window(t)'
<1>1. pc[t] = "interval" /\ now > due[t] /\ plan' = plan /\ now' = now /\ stopOn' = stopOn
  BY DEF WakeInterval
<1>2. CASE stopOn[t] # NoTime /\ now > stopOn[t]
  <2>1. Same(t)
    BY <1>1, <1>2 DEF WakeInterval, End, Goto, ClockTypes, Same
  <2> QED
    BY <1>1, <2>1, SameWindow DEF OnTime
<1>3. CASE ~(stopOn[t] # NoTime /\ now > stopOn[t])
  <2>1. Fire(t, skipped[t])
    BY <1>3 DEF WakeInterval
  <2>2. stopOn[t] # NoTime => now <= stopOn[t]
    BY <1>3, ClockFacts
  <2> QED
    BY <1>1, <2>1, <2>2, NextFire
<1> QED
  BY <1>2, <1>3

\* A step of the schedule of t keeps the types and leaves the other tasks alone.
Moves(t) == ClockTypes' /\ \A u \in Tasks \ {t} : Same(u)

\* A run moves the schedule of its own task only; so do the next four.
LEMMA FireMoves ==
  ASSUME ClockTypes, NEW t \in Tasks, NEW m \in Nat, Fire(t, m), plan' = plan, now' = now,
         stopOn' \in [Tasks -> Times], \A u \in Tasks \ {t} : stopOn'[u] = stopOn[u]
  PROVE  Moves(t)
<1>1. fires[t] + 1 \in Nat /\ missed[t] + m \in Nat /\ now \in Times
  BY DEF ClockTypes, Times
<1>2. ClockTypes'
  BY <1>1 DEF Fire, Goto, ClockTypes, Stages
<1>3. \A u \in Tasks \ {t} : Same(u)
  BY DEF Fire, Goto, ClockTypes, Same
<1> QED
  BY <1>2, <1>3 DEF Moves

\* A sleep.
LEMMA SleepMoves ==
  ASSUME ClockTypes, NEW t \in Tasks, NEW to \in {"start", "interval", "cron"},
         NEW time \in Int, NEW m \in Nat, SleepUntil(t, to, time, m), plan' = plan, now' = now,
         stopOn' \in [Tasks -> Times], \A u \in Tasks \ {t} : stopOn'[u] = stopOn[u]
  PROVE  Moves(t)
<1>1. to \in Stages
  BY DEF Stages
<1>2. ClockTypes'
  BY <1>1 DEF SleepUntil, Goto, ClockTypes
<1>3. \A u \in Tasks \ {t} : Same(u)
  BY DEF SleepUntil, Goto, ClockTypes, Same
<1> QED
  BY <1>2, <1>3 DEF Moves

\* The end of a schedule.
LEMMA EndMoves ==
  ASSUME ClockTypes, NEW t \in Tasks, End(t), plan' = plan, now' = now,
         stopOn' \in [Tasks -> Times], \A u \in Tasks \ {t} : stopOn'[u] = stopOn[u]
  PROVE  Moves(t)
<1>1. ClockTypes'
  BY DEF End, Goto, ClockTypes, Stages
<1>2. \A u \in Tasks \ {t} : Same(u)
  BY DEF End, Goto, ClockTypes, Same
<1> QED
  BY <1>1, <1>2 DEF Moves

\* Wait, inside the window or past its end.
LEMMA WithinWindowMoves ==
  ASSUME ClockTypes, NEW t \in Tasks, NEW stop, WithinWindow(t, stop), last[t] <= now,
         plan' = plan, now' = now,
         stopOn' \in [Tasks -> Times], \A u \in Tasks \ {t} : stopOn'[u] = stopOn[u]
  PROVE  Moves(t)
<1>1. CASE End(t)
  BY <1>1, EndMoves
<1>2. CASE WaitOnInterval(t) /\ last[t] = NoTime
  BY <1>2, FireMoves DEF WaitOnInterval
<1>3. CASE WaitOnInterval(t) /\ last[t] # NoTime
  <2> DEFINE m == (now - last[t]) \div plan[t].interval
  <2>1. m \in Nat
    BY ClockFacts
  <2>2. SleepUntil(t, "interval", last[t] + (m + 1) * plan[t].interval, m)
    BY <1>3 DEF WaitOnInterval
  <2> HIDE DEF m
  <2>3. last[t] + (m + 1) * plan[t].interval \in Int
    BY <2>1, ClockFacts
  <2> QED
    BY <2>1, <2>2, <2>3, SleepMoves
<1> QED
  BY <1>1, <1>2, <1>3 DEF WithinWindow

\* The number of cron times that have passed is a number.
LEMMA CronMissesType ==
  ASSUME NEW s, NEW from \in Int, now \in Int
  PROVE  CronMisses(s, from) \in Nat
<1>1. IsFiniteSet(from + 1 .. now)
  BY FS_Interval
<1>2. IsFiniteSet({m \in from + 1 .. now : m % s.interval = 0})
  BY <1>1, FS_Subset
<1> QED
  BY <1>2, FS_CardinalityType DEF CronMisses

\* Every step of a schedule.
LEMMA ScheduleMoves ==
  ASSUME WindowInv, NEW t \in Tasks,
         \/ WaitWindowed(t) \/ WakeStart(t) \/ WakeInterval(t) \/ WaitCron(t) \/ WakeCron(t)
  PROVE  Moves(t)
<1>1. ClockTypes /\ stopOn \in [Tasks -> Times]
  BY DEF WindowInv, ClockTypes
<1>2. last[t] <= now /\ last[t] \in Int /\ now \in Int
  <2>1. last[t] <= now
    BY <1>1 DEF WindowInv, OnTime, Window, Cron
  <2> QED
    BY <1>1, <2>1, ClockFacts
<1>3. CASE WaitWindowed(t)
  <2> DEFINE stop == IF last[t] = NoTime THEN SetStopOnTime(plan[t]) ELSE stopOn[t]
  <2>1. /\ stopOn' = [stopOn EXCEPT ![t] = stop] /\ plan' = plan /\ now' = now
        /\ \/ SleepUntil(t, "start", plan[t].start, 0)
           \/ WithinWindow(t, stop)
    BY <1>3 DEF WaitWindowed
  <2>2. stop \in Times
    BY <1>1, SetStopType
  <2>3. stopOn' \in [Tasks -> Times] /\ \A u \in Tasks \ {t} : stopOn'[u] = stopOn[u]
    BY <1>1, <2>1, <2>2
  <2> HIDE DEF stop
  <2>4. CASE SleepUntil(t, "start", plan[t].start, 0)
    BY <1>1, <2>1, <2>3, <2>4, SleepMoves, ClockFacts
  <2>5. CASE WithinWindow(t, stop)
    BY <1>1, <1>2, <2>1, <2>3, <2>5, WithinWindowMoves
  <2> QED
    BY <2>1, <2>4, <2>5
<1>4. CASE WakeStart(t)
  BY <1>1, <1>2, <1>4, WithinWindowMoves DEF WakeStart
<1>5. CASE WakeInterval(t)
  BY <1>1, <1>5, EndMoves, FireMoves, ClockFacts DEF WakeInterval
<1>6. CASE WakeCron(t)
  BY <1>1, <1>6, FireMoves, ClockFacts DEF WakeCron
<1>7. CASE WaitCron(t)
  <2> DEFINE m == CronMisses(plan[t], IF last[t] = NoTime THEN now ELSE last[t])
  <2>1. m \in Nat
    BY <1>2, CronMissesType
  <2>2. CronNext(plan[t], now) \in Int
    BY <1>1, ClockFacts DEF CronNext
  <2>3. SleepUntil(t, "cron", CronNext(plan[t], now), m) /\ UNCHANGED <<plan, now, stopOn>>
    BY <1>7 DEF WaitCron
  <2> HIDE DEF m
  <2> QED
    BY <1>1, <2>1, <2>2, <2>3, SleepMoves
<1> QED
  BY <1>3, <1>4, <1>5, <1>6, <1>7

\* The steps that are not of a schedule: every clock stands still.
LEMMA StandsStill ==
  ASSUME WindowInv, now' \in Nat, now <= now', UNCHANGED clock, pc' \in [Tasks -> Stages],
         \A u \in Tasks : pc'[u] = pc[u] \/ pc'[u] \notin {"start", "interval", "cron"}
  PROVE  WindowInv'
<1>1. ClockTypes' /\ ClockTypes
  BY DEF WindowInv, ClockTypes, clock
<1>2. \A u \in Tasks : Same(u)
  BY DEF Same, clock
<1> QED
  BY <1>1, <1>2, SameWindow DEF WindowInv

\* At first no task has run.
LEMMA WindowInit == Init => WindowInv
<1> SUFFICES ASSUME Init PROVE WindowInv
  OBVIOUS
<1>1. ASSUME NEW t \in Tasks PROVE plan[t] \in Schedules
  <2>1. PICK x \in Specs[t] : Valid(x, 0) /\ plan[t] =
          IF x.kind = "windowed" THEN NewWindowedSchedule(x) ELSE x
    BY DEF Init, MakeSchedule
  <2>2. /\ x \in [kind : {"windowed", "cron"}, interval : Int, count : Nat, start : Times, stop : Times]
        /\ x.kind = "cron" => x.interval > 0
    BY SpecsAssumption DEF Times
  <2>3. CASE x.kind = "windowed"
    <3> DEFINE n == IF x.stop # NoTime THEN 0 ELSE x.count
    <3>1. plan[t] = [x EXCEPT !.count = n]
      BY <2>1, <2>2, <2>3 DEF NewWindowedSchedule
    <3>2. x.interval > 0 /\ n \in Nat /\ (x.stop # NoTime => n = 0)
      BY <2>1, <2>2, <2>3 DEF Valid
    <3> HIDE DEF n
    <3> QED
      BY <2>2, <2>3, <3>1, <3>2 DEF Schedules
  <2>4. CASE x.kind # "windowed"
    BY <2>1, <2>2, <2>4 DEF Schedules
  <2> QED
    BY <2>3, <2>4
<1>2. plan \in [Tasks -> Schedules]
  BY <1>1 DEF Init
<1>3. NoTime \in Times
  BY DEF Times
<1>4. ClockTypes
  BY <1>2, <1>3 DEF Init, ClockTypes, Stages
<1>5. \A t \in Tasks : OnTime(t)
  BY <1>4, ClockFacts DEF Init, OnTime, Window, Cron, Hit, NoTime
<1> QED
  BY <1>4, <1>5 DEF WindowInv

\* The steps of a collection, between a run and the next wait.
Collects(t) ==
  CheckCache(t) \/ Select(t) \/ Take(t) \/ Answer(t) \/ Fail(t) \/ PassDeadline(t) \/ Disconnect(t)
\* The steps of the plugin process.
ProcessStep == Respond \/ RunFails \/ Refuse \/ Crash \/ Exit \/ HeartbeatWatch

\* The steps, as the proofs go through them.
LEMMA NextCases ==
  ASSUME Next
  PROVE  \/ \E t \in Tasks : \/ WaitWindowed(t) \/ WakeStart(t) \/ WakeInterval(t)
                             \/ WaitCron(t) \/ WakeCron(t)
         \/ \E t \in Tasks : Collects(t)
         \/ Tick \/ ProcessStep \/ DaemonDies
BY DEF Next, Collects, ProcessStep

\* A collection moves its own task only, from stage to stage.
LEMMA CollectsMoves ==
  ASSUME NEW t \in Tasks, Collects(t), pc \in [Tasks -> Stages]
  PROVE  /\ UNCHANGED <<now, clock, strategy, rpc>>
         /\ pc' \in [Tasks -> Stages]
         /\ \A u \in Tasks \ {t} : pc'[u] = pc[u]
         /\ pc'[t] \in {"wait", "select", "take", "call"}
<1>1. UNCHANGED <<now, clock, strategy, rpc>>
  BY DEF Collects, CheckCache, Select, Take, Answer, Fail, PassDeadline, Disconnect
<1>2. \/ \E to \in {"wait", "select", "take", "call"} : pc' = [pc EXCEPT ![t] = to]
      \/ UNCHANGED pc /\ pc[t] = "call"
  BY DEF Collects, CheckCache, Select, Take, Answer, Fail, PassDeadline, Disconnect, Finish, Goto
<1> QED
  BY <1>1, <1>2 DEF Stages

\* A step of one schedule, a collection, a tick and the end of the daemon keep all schedules on time.
LEMMA WindowStep == WindowInv /\ [Next]_vars => WindowInv'
<1> SUFFICES ASSUME WindowInv, [Next]_vars PROVE WindowInv'
  OBVIOUS
<1>1. ClockTypes /\ now \in Nat /\ pc \in [Tasks -> Stages]
  BY DEF WindowInv, ClockTypes
<1>2. ASSUME NEW t \in Tasks,
             \/ WaitWindowed(t) \/ WakeStart(t) \/ WakeInterval(t) \/ WaitCron(t) \/ WakeCron(t)
      PROVE  WindowInv'
  <2>1. Moves(t) /\ OnTime(t)
    BY <1>2, ScheduleMoves DEF WindowInv
  <2>2. \A u \in Tasks \ {t} : OnTime(u)'
    BY <1>1, <2>1, SameWindow DEF WindowInv, Moves
  <2>3. plan' = plan
    BY <1>2 DEF WaitWindowed, WakeStart, WakeInterval, WaitCron, WakeCron
  <2>4. CASE plan[t].kind = "windowed"
    <3>1. Window(t)'
      BY <1>1, <1>2, <2>1, <2>4, WaitWindowedKeeps, WakeStartKeeps, WakeIntervalKeeps
      DEF WaitCron, WakeCron, OnTime, Window
    <3> QED
      BY <2>1, <2>2, <2>3, <2>4, <3>1 DEF WindowInv, Moves, OnTime
  <2>5. CASE plan[t].kind # "windowed"
    <3>1. WaitCron(t) \/ WakeCron(t)
      BY <1>2, <2>1, <2>5 DEF WaitWindowed, WakeStart, WakeInterval, OnTime, Cron
    <3>2. /\ now' = now /\ last'[t] \in {last[t], now} /\ pc'[t] \in {"cron", "check"}
      BY <1>1, <3>1 DEF WaitCron, WakeCron, SleepUntil, Fire, Goto, ClockTypes
    <3>3. last[t] <= now
      BY <2>1, <2>5 DEF OnTime, Cron
    <3>4. Cron(t)'
      BY <1>1, <3>2, <3>3 DEF Cron
    <3> QED
      BY <2>1, <2>2, <2>3, <2>5, <3>4 DEF WindowInv, Moves, OnTime
  <2> QED
    BY <2>4, <2>5
<1>3. ASSUME NEW t \in Tasks, Collects(t) PROVE WindowInv'
  <2>1. UNCHANGED <<now, clock>> /\ pc' \in [Tasks -> Stages]
    BY <1>1, <1>3, CollectsMoves
  <2> QED
    BY <1>1, <1>3, <2>1, CollectsMoves, StandsStill
<1>4. CASE Tick
  BY <1>1, <1>4, StandsStill DEF Tick
<1>5. CASE ProcessStep
  <2>1. UNCHANGED <<now, pc, clock>>
    BY <1>5
    DEF ProcessStep, Respond, RunFails, Refuse, Crash, Exit, HeartbeatWatch, Process
  <2> QED
    BY <1>1, <2>1, StandsStill
<1>6. CASE DaemonDies
  <2>1. NoTime \in Times
    BY DEF Times
  <2>2. ClockTypes'
    BY <1>1, <1>6, <2>1 DEF DaemonDies, ClockTypes, Stages
  <2>3. ASSUME NEW t \in Tasks PROVE OnTime(t)'
    <3>1. /\ last'[t] = NoTime /\ fires'[t] = 0 /\ missed'[t] = 0 /\ pc'[t] = "dead"
          /\ plan' = plan /\ now' = now
      BY <1>6 DEF DaemonDies
    <3>2. now \in Nat /\ plan[t].count \in Nat /\ Hit(t)' = 0 /\ NoTime = -1
      BY <1>1, <3>1, ClockFacts DEF Hit, NoTime
    <3> QED
      BY <3>1, <3>2 DEF OnTime, Window, Cron
  <2> QED
    BY <2>2, <2>3 DEF WindowInv
<1>7. CASE UNCHANGED vars
  BY <1>1, <1>7, StandsStill DEF vars
<1> QED
  BY <1>2, <1>3, <1>4, <1>5, <1>6, <1>7, NextCases

\* All schedules are always on time.
LEMMA WindowHolds == Spec => []WindowInv
BY WindowInit, WindowStep, PTL DEF Spec

\* A schedule keeps to its window and its count, however late its sleeps end and
\* however long its collections last: what counts is that a missed interval is
\* paid for by the time it took (schedule.go:70-89, windowed_schedule.go:114-174).
THEOREM SchedulesSafe == Spec => []WindowIsKept
<1>1. WindowInv => WindowIsKept
  <2> SUFFICES ASSUME WindowInv PROVE WindowIsKept
    OBVIOUS
  <2>1. \A t \in Tasks : plan[t].kind = "windowed" => Window(t)
    BY DEF WindowInv, OnTime
  <2> QED
    BY <2>1 DEF WindowIsKept, CountIsKept, FiresInWindow, Window, Hit
<1> QED
  BY <1>1, WindowHolds, PTL

-----------------------------------------------------------------------------
(* Types of what is cached, asked for and answered.                         *)

\* A metric is measured when a call begins, for the task that calls.
Metric == [name : Keys \cup Instances, at : Nat, by : Tasks]
Cells == [time : Times, metrics : SUBSET Metric]
Calls == [hits : SUBSET Metric, misses : SUBSET Keys, since : Times]

StageTypes == now \in Nat /\ pc \in [Tasks -> Stages]
DataTypes ==
  /\ killed \in Times
  /\ cache \in [CacheIds -> [Keys -> Cells]]
  /\ call \in [Tasks -> Calls]
  /\ got \in [Tasks -> SUBSET Metric]

-----------------------------------------------------------------------------
(* How long a call lasts.                                                   *)

\* A call ends at its deadline, or a tick later tells the process to exit, which
\* has its grace for that.  Whoever calls a process that is exiting has called
\* at most a deadline and a tick before it was told, or calls after.
CallInv ==
  /\ DataTypes
  /\ daemon = "waiting" <=> proc = "starting"
  /\ \A t \in Tasks : pc[t] \in {"take", "call"} => daemon = "inserted"
  /\ proc = "dying" /\ daemon = "inserted" =>
       killed # NoTime /\ killed <= now /\ now - killed <= Grace + 1
  /\ \A t \in Tasks : pc[t] = "call" =>
       /\ call[t].since # NoTime /\ call[t].since <= now
       /\ proc = "up" => now - call[t].since <= Deadline + 1
       /\ proc = "dying" => killed - call[t].since <= Deadline + 1

\* What a task looks up in its cache.
LEMMA Looks ==
  ASSUME DataTypes, NEW t \in Tasks
  PROVE  /\ CacheId(t) \in CacheIds /\ Wants[t] \subseteq Keys
         /\ \A r \in Wants[t] : cache[CacheId(t)][r] \in Cells /\ Get(t, r) \in SUBSET Metric
         /\ Hits(t) \in SUBSET Metric /\ Misses(t) \in SUBSET Keys
<1>1. CacheId(t) \in CacheIds /\ Wants[t] \subseteq Keys
  BY DEF CacheId, CacheIds, Keys
<1>2. ASSUME NEW r \in Wants[t]
      PROVE  cache[CacheId(t)][r] \in Cells /\ Get(t, r) \in SUBSET Metric
  <2>1. cache[CacheId(t)][r] \in Cells
    BY <1>1, <1>2 DEF DataTypes
  <2> QED
    BY <2>1 DEF Get, Cells
<1>3. Hits(t) \in SUBSET Metric
  BY <1>2 DEF Hits
<1>4. Misses(t) \in SUBSET Keys
  BY <1>1 DEF Misses
<1> QED
  BY <1>1, <1>2, <1>3, <1>4

\* What the plugin measures for a call that has begun.
LEMMA CollectedFacts ==
  ASSUME DataTypes, NEW t \in Tasks, call[t].since # NoTime
  PROVE  /\ Collected(t) \in SUBSET Metric
         /\ \A m \in Collected(t) : m.at = call[t].since /\ m.by = t
         /\ \A m \in Collected(t) : \E r \in call[t].misses : m.name \in Asked(r)
         /\ \A r \in call[t].misses : Asked(r) \subseteq {m.name : m \in Collected(t)}
<1>1. call[t] \in Calls
  BY DEF DataTypes
<1>2. call[t].since \in Nat /\ call[t].misses \subseteq Keys
  BY <1>1 DEF Calls, Times
<1> DEFINE names == UNION {Asked(r) : r \in call[t].misses}
           made(n) == [name |-> n, at |-> call[t].since, by |-> t]
<1>3. names \subseteq Keys \cup Instances
  BY <1>2 DEF Asked
<1>4. Collected(t) = {made(n) : n \in names}
  BY DEF Collected
<1>5. \A n \in names : made(n) \in Metric
  BY <1>2, <1>3 DEF Metric
<1>6. \A n \in names : made(n).name = n /\ made(n).at = call[t].since /\ made(n).by = t
  OBVIOUS
<1>7. \A m \in Collected(t) : m \in Metric /\ m.name \in names /\ m.at = call[t].since /\ m.by = t
  <2> HIDE DEF made, names
  <2> QED
    BY <1>4, <1>5, <1>6
<1>8. \A n \in names : \E m \in Collected(t) : m.name = n
  <2> HIDE DEF made, names
  <2> QED
    BY <1>4, <1>6
<1> QED
  BY <1>7, <1>8

\* What updateCache makes of a cell.
Under(mts, k) == {m \in mts : CacheKey(m.name) = k}

\* updateCache changes the cells of what was collected and nothing else.
LEMMA Updates ==
  ASSUME DataTypes, now \in Nat, NEW id \in CacheIds, NEW mts \in SUBSET Metric,
         cache' = UpdateCache(id, mts)
  PROVE  /\ cache' \in [CacheIds -> [Keys -> Cells]]
         /\ \A i \in CacheIds \ {id} : cache'[i] = cache[i]
         /\ \A k \in Keys :
              \/ cache'[id][k] = cache[id][k]
              \/ /\ cache'[id][k].time = now
                 /\ cache'[id][k].metrics = Under(mts, k) /\ Under(mts, k) # {}
<1> DEFINE new(k) == [time |-> now, metrics |-> Under(mts, k)]
           row == [k \in Keys |-> IF \E m \in mts : CacheKey(m.name) = k THEN new(k) ELSE cache[id][k]]
<1>1. cache' = [cache EXCEPT ![id] = row]
  BY DEF UpdateCache, DataTypes, Under
<1>2. \A k \in Keys : new(k) \in Cells
  BY DEF Cells, Times, Under
<1>3. \A k \in Keys : cache[id][k] \in Cells
  BY DEF DataTypes
<1>4. row \in [Keys -> Cells]
  <2> HIDE DEF new
  <2> QED
    BY <1>2, <1>3
<1>5. cache'[id] = row /\ \A i \in CacheIds \ {id} : cache'[i] = cache[i]
  BY <1>1 DEF DataTypes
<1>6. cache' \in [CacheIds -> [Keys -> Cells]]
  <2> HIDE DEF row
  <2> QED
    BY <1>1, <1>4 DEF DataTypes
<1>7. \A k \in Keys : \/ row[k] = cache[id][k]
                      \/ row[k] = new(k) /\ Under(mts, k) # {}
  BY DEF Under
<1>8. \A k \in Keys : new(k).time = now /\ new(k).metrics = Under(mts, k)
  OBVIOUS
<1> HIDE DEF new, row
<1> QED
  BY <1>5, <1>6, <1>7, <1>8

\* A step of a schedule touches neither cache, calls nor process, and forgets the
\* answer of the last collection.
LEMMA ScheduleSteps ==
  ASSUME NEW t \in Tasks,
         \/ WaitWindowed(t) \/ WakeStart(t) \/ WakeInterval(t) \/ WaitCron(t) \/ WakeCron(t)
  PROVE  /\ UNCHANGED <<now, strategy, rpc, cache, sel, call, plugin>>
         /\ \E to \in {"start", "interval", "cron", "check", "ended"} : pc' = [pc EXCEPT ![t] = to]
         /\ got' = [got EXCEPT ![t] = {}] \/ (got' = got /\ pc[t] # "wait")
BY DEF WaitWindowed, WakeStart, WakeInterval, WaitCron, WakeCron, WithinWindow, WaitOnInterval,
       SleepUntil, Fire, End, Goto, plugin, data

\* No collection is a call too, of nothing.
LEMMA NoCallType == NoCall \in Calls /\ NoCall.since = NoTime /\ NoCall.hits = {}
BY DEF NoCall, Calls, Times

\* What the steps of a collection leave of the data.
LEMMA FinishTypes ==
  ASSUME DataTypes, NEW t \in Tasks, NEW mts \in SUBSET Metric, Finish(t, mts),
         killed' \in Times, cache' \in [CacheIds -> [Keys -> Cells]]
  PROVE  DataTypes'
BY NoCallType DEF Finish, DataTypes

\* Every step keeps the types of caches, calls and answers.
LEMMA TypesStep == StageTypes /\ CallInv /\ [Next]_vars => DataTypes'
<1> SUFFICES ASSUME StageTypes, CallInv, [Next]_vars PROVE DataTypes'
  OBVIOUS
<1>1. DataTypes /\ now \in Nat /\ now \in Times
  BY DEF StageTypes, CallInv, Times
<1>2. ASSUME NEW t \in Tasks,
             \/ WaitWindowed(t) \/ WakeStart(t) \/ WakeInterval(t) \/ WaitCron(t) \/ WakeCron(t)
      PROVE  DataTypes'
  BY <1>1, <1>2, ScheduleSteps DEF DataTypes, plugin
<1>3. ASSUME NEW t \in Tasks, Collects(t) PROVE DataTypes'
  <2>1. CASE CheckCache(t)
    <3>1. Hits(t) \in SUBSET Metric /\ Misses(t) \in SUBSET Keys
      BY <1>1, Looks
    <3>2. UNCHANGED <<killed, cache>>
      BY <2>1 DEF CheckCache, plugin
    <3>3. CASE Finish(t, Hits(t))
      BY <1>1, <3>1, <3>2, <3>3, FinishTypes DEF DataTypes
    <3>4. CASE /\ call' = [call EXCEPT ![t] = [hits |-> Hits(t), misses |-> Misses(t), since |-> NoTime]]
               /\ UNCHANGED got
      <4>1. [hits |-> Hits(t), misses |-> Misses(t), since |-> NoTime] \in Calls
        BY <3>1 DEF Calls, Times
      <4> QED
        BY <1>1, <3>2, <3>4, <4>1 DEF DataTypes
    <3> QED
      BY <2>1, <3>3, <3>4 DEF CheckCache
  <2>2. CASE Select(t)
    <3>1. UNCHANGED <<killed, cache>>
      BY <2>2 DEF Select, plugin
    <3>2. CASE UNCHANGED <<call, got>>
      BY <1>1, <3>1, <3>2 DEF DataTypes
    <3>3. CASE Finish(t, {})
      BY <1>1, <3>1, <3>3, FinishTypes DEF DataTypes
    <3> QED
      BY <2>2, <3>2, <3>3 DEF Select
  <2>3. CASE Take(t)
    <3>1. call' = [call EXCEPT ![t].since = now] /\ UNCHANGED <<killed, cache, got>>
      BY <2>3 DEF Take, plugin
    <3>2. [call[t] EXCEPT !.since = now] \in Calls
      BY <1>1 DEF DataTypes, Calls
    <3> QED
      BY <1>1, <3>1, <3>2 DEF DataTypes
  <2>4. CASE Answer(t)
    <3>1. call[t].since # NoTime
      BY <2>4 DEF Answer, CallInv
    <3>2. Collected(t) \in SUBSET Metric /\ CacheId(t) \in CacheIds
      BY <1>1, <3>1, CollectedFacts, Looks
    <3>3. cache' \in [CacheIds -> [Keys -> Cells]]
      BY <1>1, <2>4, <3>2, Updates DEF Answer
    <3>4. Collected(t) \union call[t].hits \in SUBSET Metric
      BY <1>1, <3>2 DEF DataTypes, Calls
    <3> QED
      BY <1>1, <2>4, <3>3, <3>4, FinishTypes DEF Answer, plugin, DataTypes
  <2>5. CASE Fail(t) \/ Disconnect(t)
    BY <1>1, <2>5, FinishTypes DEF Disconnect, Fail, plugin, DataTypes
  <2>6. CASE PassDeadline(t)
    <3>1. CASE rpc = "grpc"
      BY <1>1, <2>6, <3>1, FinishTypes DEF PassDeadline, plugin, DataTypes
    <3>2. CASE rpc # "grpc"
      BY <1>1, <2>6, <3>2 DEF PassDeadline, DataTypes
    <3> QED
      BY <3>1, <3>2
  <2> QED
    BY <1>3, <2>1, <2>2, <2>3, <2>4, <2>5, <2>6 DEF Collects
<1>4. CASE Tick \/ ProcessStep \/ UNCHANGED vars
  BY <1>1, <1>4 DEF Tick, ProcessStep, Respond, RunFails, Refuse, Crash, Exit, HeartbeatWatch,
    Process, vars, data, plugin, DataTypes
<1>5. CASE DaemonDies
  <2>1. NoCell \in Cells
    BY DEF NoCell, Cells, Times
  <2> QED
    BY <1>1, <1>5, <2>1, NoCallType DEF DaemonDies, DataTypes
<1> QED
  BY <1>2, <1>3, <1>4, <1>5, NextCases

\* At first nobody calls, and the process is starting.
LEMMA CallInit == Init => CallInv
<1> SUFFICES ASSUME Init PROVE CallInv
  OBVIOUS
<1>1. NoCell \in Cells
  BY DEF NoCell, Cells, Times
<1>2. DataTypes
  BY <1>1, NoCallType DEF Init, DataTypes, Times
<1> QED
  BY <1>2 DEF Init, CallInv

\* A step that begins no call, ends at most the one of t and leaves clock and
\* process alone.
LEMMA OneLess ==
  ASSUME CallInv, DataTypes', UNCHANGED <<now, daemon, proc, killed>>, NEW t \in Tasks,
         \A u \in Tasks \ {t} : pc'[u] = pc[u] /\ call'[u] = call[u],
         pc'[t] \notin {"take", "call"}
  PROVE  CallInv'
<1>1. \A u \in Tasks : pc'[u] \in {"take", "call"} => pc'[u] = pc[u] /\ call'[u] = call[u]
  OBVIOUS
<1> QED
  BY <1>1 DEF CallInv

\* Calls, the clock and the process keep to the times of a call.
LEMMA CallStep == StageTypes /\ CallInv /\ [Next]_vars => CallInv'
<1> SUFFICES ASSUME StageTypes, CallInv, [Next]_vars PROVE CallInv'
  OBVIOUS
<1>1. /\ DataTypes /\ DataTypes'
      /\ now \in Nat /\ killed \in Times /\ pc \in [Tasks -> Stages]
      /\ \A u \in Tasks : call[u] \in Calls /\ call[u].since \in Times
  BY TypesStep DEF StageTypes, CallInv, DataTypes, Calls
<1>2. ASSUME NEW t \in Tasks,
             \/ WaitWindowed(t) \/ WakeStart(t) \/ WakeInterval(t) \/ WaitCron(t) \/ WakeCron(t)
      PROVE  CallInv'
  <2>1. /\ UNCHANGED <<now, daemon, proc, killed, call>>
        /\ \A u \in Tasks \ {t} : pc'[u] = pc[u]
        /\ pc'[t] \notin {"take", "call"}
    BY <1>1, <1>2, ScheduleSteps DEF plugin
  <2> QED
    BY <1>1, <2>1, OneLess
<1>3. ASSUME NEW t \in Tasks, Collects(t) PROVE CallInv'
  <2>1. CASE CheckCache(t)
    <3>1. /\ UNCHANGED <<now, daemon, proc, killed>>
          /\ \A u \in Tasks \ {t} : pc'[u] = pc[u] /\ call'[u] = call[u]
          /\ pc'[t] \notin {"take", "call"}
      BY <1>1, <2>1 DEF CheckCache, Finish, Goto, plugin, DataTypes
    <3> QED
      BY <1>1, <3>1, OneLess
  <2>2. ASSUME NEW mts, Finish(t, mts), UNCHANGED <<now, plugin>> PROVE CallInv'
    <3>1. /\ UNCHANGED <<now, daemon, proc, killed>>
          /\ \A u \in Tasks \ {t} : pc'[u] = pc[u] /\ call'[u] = call[u]
          /\ pc'[t] \notin {"take", "call"}
      BY <1>1, <2>2 DEF Finish, Goto, plugin, DataTypes
    <3> QED
      BY <1>1, <3>1, OneLess
  <2>3. CASE Select(t) /\ CanSelect(t)
    <3>1. /\ UNCHANGED <<now, daemon, proc, killed, call>> /\ daemon = "inserted"
          /\ pc' = [pc EXCEPT ![t] = "take"]
      BY <2>3 DEF Select, CanSelect, Goto, plugin
    <3> QED
      BY <1>1, <3>1 DEF CallInv
  <2>4. CASE Take(t)
    <3>1. /\ UNCHANGED <<now, daemon, proc, killed>> /\ pc[t] = "take"
          /\ pc' = [pc EXCEPT ![t] = "call"]
          /\ \A u \in Tasks \ {t} : call'[u] = call[u]
          /\ call'[t].since = now
      BY <1>1, <2>4 DEF Take, Goto, plugin, DataTypes, Calls
    <3>2. now # NoTime /\ now - now <= Deadline + 1
      BY <1>1, CallsAssumption DEF NoTime
    <3>3. proc = "dying" => killed - now <= Deadline + 1
      <4>1. proc = "dying" => killed <= now /\ killed \in Int
        BY <1>1, <3>1 DEF CallInv, Times, NoTime
      <4> QED
        BY <1>1, <4>1, CallsAssumption
    <3>4. \A u \in Tasks \ {t} : pc'[u] = pc[u]
      BY <1>1, <3>1
    <3>5. pc'[t] = "call" /\ daemon = "inserted"
      BY <1>1, <3>1 DEF CallInv
    <3>6. \A u \in Tasks : pc'[u] = "call" =>
            /\ call'[u].since # NoTime /\ call'[u].since <= now
            /\ proc = "up" => now - call'[u].since <= Deadline + 1
            /\ proc = "dying" => killed - call'[u].since <= Deadline + 1
      BY <1>1, <3>1, <3>2, <3>3, <3>4 DEF CallInv
    <3> QED
      BY <1>1, <3>1, <3>5, <3>6 DEF CallInv
  <2>5. CASE PassDeadline(t) /\ rpc # "grpc"
    <3>1. /\ UNCHANGED <<now, daemon, pc, call>> /\ pc[t] = "call"
          /\ proc = "up" /\ proc' = "dying" /\ killed' = now
      BY <2>5 DEF PassDeadline
    <3>2. now # NoTime /\ now - now <= Grace + 1
      BY <1>1, CallsAssumption DEF NoTime
    <3> QED
      BY <1>1, <3>1, <3>2 DEF CallInv
  <2> QED
    BY <1>3, <2>1, <2>2, <2>3, <2>4, <2>5
    DEF Collects, Select, Answer, Fail, Disconnect, PassDeadline
<1>4. CASE Tick
  <2>1. now' = now + 1 /\ UNCHANGED <<pc, call, daemon, proc, killed>> /\ ~Overdue
    BY <1>4 DEF Tick, data, plugin
  <2>2. ASSUME NEW u \in Tasks, pc[u] = "call"
        PROVE  /\ call[u].since \in Nat /\ call[u].since <= now + 1
               /\ proc = "up" => (now + 1) - call[u].since <= Deadline + 1
    <3>1. proc = "up" => ~(now - call[u].since > Deadline)
      BY <2>1, <2>2 DEF Overdue
    <3>2. call[u].since \in Nat /\ call[u].since <= now
      BY <1>1, <2>2 DEF CallInv, Times
    <3> QED
      BY <1>1, <3>1, <3>2, CallsAssumption
  <2>3. proc = "dying" /\ daemon = "inserted" => killed <= now + 1 /\ (now + 1) - killed <= Grace + 1
    <3>1. proc = "dying" /\ daemon = "inserted" => killed \in Nat /\ killed <= now
      BY <1>1 DEF CallInv, Times
    <3>2. proc = "dying" => ~(now - killed > Grace)
      BY <2>1 DEF Overdue
    <3> QED
      BY <1>1, <3>1, <3>2, CallsAssumption
  <2> QED
    BY <1>1, <2>1, <2>2, <2>3 DEF CallInv
<1>5. CASE ProcessStep
  <2>1. UNCHANGED <<now, pc, call, killed>>
    BY <1>5 DEF ProcessStep, Respond, RunFails, Refuse, Crash, Exit, HeartbeatWatch, Process, data
  <2>2. CASE Crash \/ Exit \/ HeartbeatWatch
    <3>1. daemon' = daemon /\ proc # "starting" /\ proc' \in {proc, "gone"}
      BY <2>2 DEF Crash, Exit, HeartbeatWatch, Process
    <3> QED
      BY <1>1, <2>1, <3>1 DEF CallInv
  <2>3. CASE Respond \/ RunFails \/ Refuse
    <3>1. /\ proc = "starting" /\ daemon = "waiting"
          /\ proc' \in {"up", "gone", "dying"} /\ daemon' \in {"inserted", "abandoned", "failed"}
          /\ proc' = "dying" => daemon' = "failed"
      BY <2>3 DEF Respond, RunFails, Refuse, Process
    <3>2. \A u \in Tasks : pc[u] \notin {"take", "call"}
      BY <3>1 DEF CallInv
    <3> QED
      BY <1>1, <2>1, <3>1, <3>2 DEF CallInv
  <2> QED
    BY <1>5, <2>2, <2>3 DEF ProcessStep
<1>6. CASE DaemonDies
  <2>1. /\ daemon = "inserted" /\ daemon' = "dead" /\ UNCHANGED proc
        /\ \A u \in Tasks : pc'[u] = "dead"
    BY <1>6 DEF DaemonDies
  <2> QED
    BY <1>1, <2>1 DEF CallInv
<1>7. CASE UNCHANGED vars
  BY <1>1, <1>7 DEF CallInv, vars, data, plugin
<1> QED
  BY <1>2, <1>3, <1>4, <1>5, <1>6, <1>7, NextCases

\* A call never lasts longer than that.
LEMMA CallHolds == Spec => [](StageTypes /\ CallInv)
<1>1. WindowInv => StageTypes
  BY DEF WindowInv, ClockTypes, StageTypes
<1> QED
  BY <1>1, WindowHolds, CallInit, CallStep, PTL DEF Spec

-----------------------------------------------------------------------------
(* How old an answer is.                                                    *)

CallTime == IF rpc = "grpc" THEN Deadline ELSE Deadline + 1 + Grace + 1

\* What is in a cache was measured not longer than a call before it was put
\* there; what a collection took from a cache was not expired when it looked,
\* and it looks, selects and calls without a tick.
Fresh(i, k) ==
  \A m \in cache[i][k].metrics : cache[i][k].time <= now /\ cache[i][k].time - m.at <= CallTime
Recent(t) ==
  /\ \A m \in call[t].hits :
       /\ pc[t] \in {"select", "take"} => now - m.at <= (Ttl - 1) + CallTime
       /\ pc[t] = "call" => call[t].since - m.at <= (Ttl - 1) + CallTime
  /\ got[t] # {} => pc[t] = "wait"
  /\ \A m \in got[t] : now - m.at <= (Ttl - 1) + 2 * CallTime
AgeInv ==
  /\ \A i \in CacheIds, k \in Keys : Fresh(i, k)
  /\ \A t \in Tasks : Recent(t)

\* The time of a call and the life of a cache entry are numbers.
LEMMA CallTimeType == CallTime \in Nat /\ Ttl \in Nat \ {0}
BY CallsAssumption, CacheAssumption DEF CallTime, Ttl

\* An answer that is taken comes within the time of a call.
LEMMA CallLasts ==
  ASSUME StageTypes, CallInv, NEW t \in Tasks, Answer(t)
  PROVE  /\ call[t].since \in Nat /\ call[t].since <= now
         /\ now - call[t].since <= CallTime
<1>1. /\ now \in Nat /\ killed \in Times
      /\ pc[t] = "call" /\ proc \in {"up", "dying"} /\ daemon = "inserted"
      /\ rpc = "grpc" => now - call[t].since <= Deadline
  BY DEF StageTypes, CallInv, DataTypes, Answer
<1>2. call[t].since \in Nat /\ call[t].since <= now
  BY <1>1 DEF CallInv, DataTypes, Calls, Times
<1>3. proc = "up" => now - call[t].since <= Deadline + 1
  BY <1>1 DEF CallInv
<1>4. proc = "dying" => now - call[t].since <= Deadline + 1 + Grace + 1
  <2> SUFFICES ASSUME proc = "dying" PROVE now - call[t].since <= Deadline + 1 + Grace + 1
    OBVIOUS
  <2>1. killed \in Nat /\ now - killed <= Grace + 1 /\ killed - call[t].since <= Deadline + 1
    BY <1>1 DEF CallInv, Times
  <2> QED
    BY <1>1, <1>2, <2>1, CallsAssumption
<1>5. CASE rpc = "grpc"
  BY <1>1, <1>2, <1>5 DEF CallTime
<1>6. CASE rpc # "grpc"
  <2>1. now - call[t].since \in Int
    BY <1>1, <1>2
  <2>2. CallTime = Deadline + 1 + Grace + 1
    BY <1>6 DEF CallTime
  <2> QED
    BY <1>1, <1>2, <1>3, <1>4, <2>1, <2>2, CallsAssumption
<1> QED
  BY <1>5, <1>6

\* What is found in a cache.
LEMMA HitsAge ==
  ASSUME StageTypes, DataTypes, AgeInv, NEW t \in Tasks, NEW m \in Hits(t)
  PROVE  m.at \in Nat /\ now - m.at <= (Ttl - 1) + CallTime
<1>1. PICK r \in Wants[t] : m \in Get(t, r)
  BY DEF Hits
<1> DEFINE cell == cache[CacheId(t)][r]
<1>2. CacheId(t) \in CacheIds /\ r \in Keys /\ cell \in Cells /\ m \in Metric
  BY <1>1, Looks
<1>3. m \in cell.metrics /\ now - cell.time < Ttl
  BY <1>1 DEF Get
<1>4. cell.time - m.at <= CallTime
  BY <1>2, <1>3 DEF AgeInv, Fresh
<1>5. cell.time \in Int
  BY <1>2 DEF Cells, Times, NoTime
<1>6. m.at \in Nat /\ now \in Nat
  BY <1>2 DEF Metric, StageTypes
<1> HIDE DEF cell
<1> QED
  BY <1>3, <1>4, <1>5, <1>6, CallTimeType

\* At first caches are empty.
LEMMA AgeInit == Init => AgeInv
<1> SUFFICES ASSUME Init PROVE AgeInv
  OBVIOUS
<1>1. \A i \in CacheIds, k \in Keys : cache[i][k].metrics = {}
  BY DEF Init, NoCell
<1>2. \A t \in Tasks : call[t].hits = {} /\ got[t] = {}
  BY NoCallType DEF Init
<1> QED
  BY <1>1, <1>2 DEF AgeInv, Fresh, Recent

\* A step of t that leaves clock and caches alone.
LEMMA RecentKeeps ==
  ASSUME AgeInv, UNCHANGED <<now, rpc, cache>>, NEW t \in Tasks,
         \A u \in Tasks \ {t} : pc'[u] = pc[u] /\ call'[u] = call[u] /\ got'[u] = got[u],
         Recent(t)'
  PROVE  AgeInv'
<1>1. CallTime' = CallTime
  BY DEF CallTime
<1>2. \A i \in CacheIds, k \in Keys : Fresh(i, k)'
  BY <1>1 DEF AgeInv, Fresh
<1>3. \A u \in Tasks \ {t} : Recent(u)'
  BY <1>1 DEF AgeInv, Recent
<1> QED
  BY <1>2, <1>3 DEF AgeInv

\* Finish with metrics that are recent enough.
LEMMA FinishAge ==
  ASSUME DataTypes, AgeInv, UNCHANGED <<now, rpc>>, pc \in [Tasks -> Stages],
         NEW t \in Tasks, NEW mts, Finish(t, mts),
         \A m \in mts : now - m.at <= (Ttl - 1) + 2 * CallTime
  PROVE  /\ Recent(t)'
         /\ \A u \in Tasks \ {t} : pc'[u] = pc[u] /\ call'[u] = call[u] /\ got'[u] = got[u]
<1>1. CallTime' = CallTime
  BY DEF CallTime
<1>2. /\ pc'[t] = "wait" /\ call'[t].hits = {} /\ got'[t] = mts
      /\ \A u \in Tasks \ {t} : pc'[u] = pc[u] /\ call'[u] = call[u] /\ got'[u] = got[u]
  BY NoCallType DEF Finish, Goto, DataTypes
<1> QED
  BY <1>1, <1>2 DEF Recent

\* What an answer puts into the cache was measured when the call began.
LEMMA AnswerAge ==
  ASSUME StageTypes, CallInv, AgeInv, NEW t \in Tasks, Answer(t)
  PROVE  AgeInv'
<1>1. /\ UNCHANGED <<now, rpc>> /\ pc[t] = "call" /\ cache' = UpdateCache(CacheId(t), Collected(t))
      /\ Finish(t, Collected(t) \union call[t].hits)
      /\ now \in Nat /\ DataTypes /\ pc \in [Tasks -> Stages]
  BY DEF Answer, StageTypes, CallInv
<1>2. /\ call[t].since \in Nat /\ call[t].since # NoTime /\ call[t].since <= now
      /\ now - call[t].since <= CallTime
  BY CallLasts DEF NoTime
<1>3. /\ CacheId(t) \in CacheIds /\ Collected(t) \in SUBSET Metric
      /\ \A m \in Collected(t) : m.at = call[t].since
  BY <1>1, <1>2, Looks, CollectedFacts
<1>4. CallTime' = CallTime
  BY <1>1 DEF CallTime
<1>5. ASSUME NEW i \in CacheIds, NEW k \in Keys PROVE Fresh(i, k)'
  <2>1. CASE cache'[i][k] = cache[i][k]
    BY <1>1, <1>4, <2>1 DEF AgeInv, Fresh
  <2>2. CASE /\ i = CacheId(t) /\ cache'[i][k].time = now
             /\ cache'[i][k].metrics = Under(Collected(t), k)
    <3>1. \A m \in cache'[i][k].metrics : m.at = call[t].since
      BY <1>3, <2>2 DEF Under
    <3>2. now <= now
      BY <1>1
    <3> QED
      BY <1>1, <1>2, <1>4, <2>2, <3>1, <3>2 DEF Fresh
  <2>3. \/ cache'[i][k] = cache[i][k]
        \/ /\ i = CacheId(t) /\ cache'[i][k].time = now
           /\ cache'[i][k].metrics = Under(Collected(t), k)
    BY <1>1, <1>3, Updates
  <2> QED
    BY <2>1, <2>2, <2>3
<1>6. ASSUME NEW m \in Collected(t) \union call[t].hits
      PROVE  now - m.at <= (Ttl - 1) + 2 * CallTime
  <2>1. CASE m \in Collected(t)
    <3>1. m.at = call[t].since
      BY <1>3, <2>1
    <3>2. now \in Nat
      BY <1>1
    <3> QED
      BY <1>2, <3>1, <3>2, CallTimeType
  <2>2. CASE m \in call[t].hits
    <3>1. call[t].since - m.at <= (Ttl - 1) + CallTime
      BY <1>1, <2>2 DEF AgeInv, Recent
    <3>2. m.at \in Nat /\ now \in Nat
      BY <1>1, <2>2 DEF DataTypes, Calls, Metric
    <3> QED
      BY <1>2, <3>1, <3>2, CallTimeType
  <2> QED
    BY <2>1, <2>2
<1>7. /\ Recent(t)'
      /\ \A u \in Tasks \ {t} : pc'[u] = pc[u] /\ call'[u] = call[u] /\ got'[u] = got[u]
  BY <1>1, <1>6, FinishAge
<1>8. \A u \in Tasks \ {t} : Recent(u)'
  BY <1>1, <1>4, <1>7 DEF AgeInv, Recent
<1> QED
  BY <1>5, <1>7, <1>8 DEF AgeInv

\* No step makes what is cached or held older than that.
LEMMA AgeStep == StageTypes /\ CallInv /\ AgeInv /\ [Next]_vars => AgeInv'
<1> SUFFICES ASSUME StageTypes, CallInv, AgeInv, [Next]_vars PROVE AgeInv'
  OBVIOUS
<1>1. now \in Nat /\ DataTypes /\ pc \in [Tasks -> Stages] /\ now # NoTime
  BY DEF StageTypes, CallInv, NoTime
<1>2. ASSUME NEW t \in Tasks,
             \/ WaitWindowed(t) \/ WakeStart(t) \/ WakeInterval(t) \/ WaitCron(t) \/ WakeCron(t)
      PROVE  AgeInv'
  <2>1. /\ UNCHANGED <<now, rpc, cache, call>>
        /\ \A u \in Tasks \ {t} : pc'[u] = pc[u] /\ got'[u] = got[u]
        /\ pc'[t] \notin {"select", "take", "call"}
        /\ got'[t] = {} \/ (got'[t] = got[t] /\ pc[t] # "wait")
    BY <1>1, <1>2, ScheduleSteps DEF DataTypes
  <2>2. got'[t] = {}
    BY <2>1 DEF AgeInv, Recent
  <2>3. Recent(t)'
    BY <2>1, <2>2 DEF Recent
  <2> QED
    BY <2>1, <2>3, RecentKeeps
<1>3. ASSUME NEW t \in Tasks, Collects(t) PROVE AgeInv'
  <2>1. CASE CheckCache(t)
    <3>1. UNCHANGED <<now, rpc, cache>> /\ pc[t] = "check"
      BY <2>1 DEF CheckCache
    <3>2. \A m \in Hits(t) : m.at \in Nat /\ now - m.at <= (Ttl - 1) + CallTime
      BY <1>1, HitsAge
    <3>3. CASE Finish(t, Hits(t))
      <4>1. \A m \in Hits(t) : now - m.at <= (Ttl - 1) + 2 * CallTime
        BY <1>1, <3>2, CallTimeType
      <4> QED
        BY <1>1, <3>1, <3>3, <4>1, FinishAge, RecentKeeps
    <3>4. CASE Goto(t, "select")
               /\ call' = [call EXCEPT ![t] = [hits |-> Hits(t), misses |-> Misses(t), since |-> NoTime]]
               /\ UNCHANGED got
      <4>1. /\ pc'[t] = "select" /\ call'[t].hits = Hits(t) /\ got'[t] = got[t]
            /\ \A u \in Tasks \ {t} : pc'[u] = pc[u] /\ call'[u] = call[u] /\ got'[u] = got[u]
        BY <1>1, <3>4 DEF Goto, DataTypes
      <4>2. got[t] = {} /\ CallTime' = CallTime
        BY <3>1 DEF AgeInv, Recent, CallTime
      <4>3. Recent(t)'
        BY <3>1, <3>2, <4>1, <4>2 DEF Recent
      <4> QED
        BY <3>1, <4>1, <4>3, RecentKeeps
    <3> QED
      BY <2>1, <3>3, <3>4 DEF CheckCache
  <2>2. CASE Select(t) /\ CanSelect(t)
    <3>1. /\ UNCHANGED <<now, rpc, cache, call, got>> /\ pc[t] = "select" /\ pc'[t] = "take"
          /\ \A u \in Tasks \ {t} : pc'[u] = pc[u]
      BY <1>1, <2>2 DEF Select, Goto
    <3>2. Recent(t)'
      BY <3>1 DEF AgeInv, Recent, CallTime
    <3> QED
      BY <3>1, <3>2, RecentKeeps
  <2>3. CASE Take(t)
    <3>1. /\ UNCHANGED <<now, rpc, cache, got>> /\ pc[t] = "take" /\ pc'[t] = "call"
          /\ \A u \in Tasks \ {t} : pc'[u] = pc[u] /\ call'[u] = call[u]
          /\ call'[t].hits = call[t].hits /\ call'[t].since = now
      BY <1>1, <2>3 DEF Take, Goto, DataTypes, Calls
    <3>2. Recent(t)'
      BY <3>1 DEF AgeInv, Recent, CallTime
    <3> QED
      BY <3>1, <3>2, RecentKeeps
  <2>4. ASSUME Finish(t, {}), UNCHANGED <<now, rpc, cache>> PROVE AgeInv'
    <3>1. /\ Recent(t)'
          /\ \A u \in Tasks \ {t} : pc'[u] = pc[u] /\ call'[u] = call[u] /\ got'[u] = got[u]
      BY <1>1, <2>4, FinishAge
    <3> QED
      BY <2>4, <3>1, RecentKeeps
  <2>5. CASE PassDeadline(t) /\ rpc # "grpc"
    <3>1. UNCHANGED <<now, rpc, cache, pc, call, got>>
      BY <2>5 DEF PassDeadline
    <3> QED
      BY <3>1 DEF AgeInv, Fresh, Recent, CallTime
  <2> QED
    BY <1>3, <2>1, <2>2, <2>3, <2>4, <2>5, AnswerAge
    DEF Collects, Select, Fail, Disconnect, PassDeadline
<1>4. CASE Tick
  <2>1. /\ now' = now + 1 /\ UNCHANGED <<pc, rpc, cache, call, got>>
        /\ \A t \in Tasks : pc[t] \notin {"wait", "select", "take"}
    BY <1>4 DEF Tick, data, Busy
  <2>2. CallTime' = CallTime
    BY <2>1 DEF CallTime
  <2>3. \A t \in Tasks : Recent(t)'
    BY <2>1, <2>2 DEF AgeInv, Recent
  <2>4. ASSUME NEW i \in CacheIds, NEW k \in Keys PROVE Fresh(i, k)'
    <3>1. cache[i][k].time \in Int
      BY DEF CallInv, DataTypes, Cells, Times, NoTime
    <3>2. /\ now \in Nat /\ now' = now + 1 /\ cache' = cache /\ CallTime' = CallTime
          /\ Fresh(i, k)
      BY <1>1, <2>1, <2>2 DEF AgeInv
    <3> QED
      BY <3>1, <3>2 DEF Fresh
  <2> QED
    BY <2>3, <2>4 DEF AgeInv
<1>5. CASE ProcessStep \/ UNCHANGED vars
  <2>1. UNCHANGED <<now, rpc, cache, pc, call, got>>
    BY <1>5 DEF ProcessStep, Respond, RunFails, Refuse, Crash, Exit, HeartbeatWatch, Process, vars, data
  <2> QED
    BY <2>1 DEF AgeInv, Fresh, Recent, CallTime
<1>6. CASE DaemonDies
  <2>1. \A i \in CacheIds, k \in Keys : cache'[i][k].metrics = {}
    BY <1>6 DEF DaemonDies, NoCell
  <2>2. \A t \in Tasks : call'[t].hits = {} /\ got'[t] = {}
    BY <1>6, NoCallType DEF DaemonDies
  <2> QED
    BY <2>1, <2>2 DEF AgeInv, Fresh, Recent
<1> QED
  BY <1>2, <1>3, <1>4, <1>5, <1>6, NextCases

\* What a task gets is never older than a cache entry and the two calls it may
\* have waited for, its own and the one that filled the cache (cache.go:62-184,
\* available_plugin.go:430-450, native.go:213-262), for every schedule, strategy
\* and number of tasks.
THEOREM AnswersRecent == Spec => []AgeIsBounded
<1>1. AgeInv => AgeIsBounded
  BY DEF AgeInv, Recent, AgeIsBounded, CallTime
<1> QED
  BY <1>1, CallHolds, AgeInit, AgeStep, PTL DEF Spec

-----------------------------------------------------------------------------
(* What an answer holds.                                                    *)

\* The metrics S answer what is cached under k in the i-th cache.
Whole(i, S, k) ==
  \/ Asked(k) \subseteq {m.name : m \in S}
  \/ k = Star /\ \E u \in Tasks : CacheId(u) = i /\ Wants[u] \intersect Instances # {}

\* In a cache for every task, what is cached was measured for it.
Own(i, S) == strategy # "least-recently-used" => \A m \in S : m.by = i

\* What is cached, what a collection holds until its answer, and what it returns.
Cached(i, k) ==
  /\ Own(i, cache[i][k].metrics)
  /\ cache[i][k].metrics # {} => Whole(i, cache[i][k].metrics, k)
Asking(t) ==
  pc[t] \in {"select", "take", "call"} =>
    /\ call[t].misses \subseteq Wants[t]
    /\ Own(CacheId(t), call[t].hits)
    /\ \A r \in Wants[t] \ call[t].misses : Whole(CacheId(t), call[t].hits, r)
Answered(t) ==
  got[t] # {} => Own(CacheId(t), got[t]) /\ \A r \in Wants[t] : Whole(CacheId(t), got[t], r)
AnswerInv ==
  /\ \A i \in CacheIds, k \in Keys : Cached(i, k)
  /\ \A t \in Tasks : Asking(t) /\ Answered(t)

\* More metrics answer no less.
LEMMA WholeGrows ==
  ASSUME NEW i, NEW k, NEW S, NEW R, S \subseteq R, Whole(i, S, k)
  PROVE  Whole(i, R, k)
BY DEF Whole

\* What is found in a cache answers what is not missed.
LEMMA HitsWhole ==
  ASSUME DataTypes, AnswerInv, NEW t \in Tasks
  PROVE  /\ Own(CacheId(t), Hits(t))
         /\ \A r \in Wants[t] \ Misses(t) : Whole(CacheId(t), Hits(t), r)
<1>1. CacheId(t) \in CacheIds /\ Wants[t] \subseteq Keys
  BY Looks
<1>2. \A r \in Wants[t] : Get(t, r) \subseteq cache[CacheId(t)][r].metrics
  BY DEF Get
<1>3. Own(CacheId(t), Hits(t))
  <2>1. \A r \in Wants[t] : Own(CacheId(t), cache[CacheId(t)][r].metrics)
    BY <1>1 DEF AnswerInv, Cached
  <2> QED
    BY <1>2, <2>1 DEF Own, Hits
<1>4. ASSUME NEW r \in Wants[t] \ Misses(t) PROVE Whole(CacheId(t), Hits(t), r)
  <2>1. Get(t, r) # {} /\ Get(t, r) = cache[CacheId(t)][r].metrics /\ Get(t, r) \subseteq Hits(t)
    BY DEF Misses, Get, Hits
  <2>2. Whole(CacheId(t), Get(t, r), r)
    BY <1>1, <2>1 DEF AnswerInv, Cached
  <2> QED
    BY <2>1, <2>2, WholeGrows
<1> QED
  BY <1>3, <1>4

\* What an answer puts under a key: all instances under the star when the star
\* was asked for, else the instances the task wants; under a name, that metric.
LEMMA CachedWhole ==
  ASSUME DataTypes, NEW t \in Tasks, call[t].since # NoTime, call[t].misses \subseteq Wants[t],
         NEW k \in Keys, NEW S, S = Under(Collected(t), k), S # {}
  PROVE  Own(CacheId(t), S) /\ Whole(CacheId(t), S, k)
<1>1. /\ \A m \in Collected(t) : m.by = t
      /\ \A m \in Collected(t) : \E r \in call[t].misses : m.name \in Asked(r)
      /\ \A r \in call[t].misses : Asked(r) \subseteq {m.name : m \in Collected(t)}
  BY CollectedFacts
<1>2. Own(CacheId(t), S)
  BY <1>1 DEF Own, CacheId, Under
<1>3. PICK m \in Collected(t) : CacheKey(m.name) = k /\ m \in S
  BY DEF Under
<1>4. PICK r \in call[t].misses : m.name \in Asked(r)
  BY <1>1
<1>5. CASE k # Star
  <2>1. m.name = k /\ Asked(k) = {k}
    BY <1>3, <1>5 DEF CacheKey, Asked
  <2> QED
    BY <1>2, <1>3, <2>1 DEF Whole
<1>6. CASE k = Star /\ Star \in call[t].misses
  <2>1. \A n \in Instances : \E x \in Collected(t) : x.name = n
    BY <1>1, <1>6 DEF Asked
  <2>2. \A n \in Instances : \E x \in S : x.name = n
    BY <1>6, <2>1 DEF CacheKey, Under
  <2> QED
    BY <1>2, <1>6, <2>2 DEF Whole, Asked
<1>7. CASE k = Star /\ Star \notin call[t].misses
  <2>1. r # Star /\ m.name = r /\ r \in Wants[t]
    BY <1>4, <1>7 DEF Asked
  <2>2. r \in Instances
    BY <1>3, <1>7, <2>1 DEF CacheKey
  <2> QED
    BY <1>2, <1>7, <2>1, <2>2 DEF Whole
<1> QED
  BY <1>5, <1>6, <1>7

\* What a step does to a request or an answer it leaves alone.
LEMMA AskingCarries ==
  ASSUME NEW u \in Tasks, Asking(u), UNCHANGED strategy,
         pc'[u] \in {"select", "take", "call"} => pc[u] \in {"select", "take", "call"},
         call'[u].hits = call[u].hits, call'[u].misses = call[u].misses
  PROVE  Asking(u)'
<1>1. \A v \in Tasks : CacheId(v)' = CacheId(v)
  BY DEF CacheId
<1> QED
  BY <1>1 DEF Asking, Own, Whole

\* An answer stays complete until the task forgets it.
LEMMA AnsweredCarries ==
  ASSUME NEW u \in Tasks, Answered(u), UNCHANGED strategy, got'[u] = got[u] \/ got'[u] = {}
  PROVE  Answered(u)'
<1>1. \A v \in Tasks : CacheId(v)' = CacheId(v)
  BY DEF CacheId
<1> QED
  BY <1>1 DEF Answered, Own, Whole

\* A step of t that leaves the caches alone.
LEMMA AnsweredKeeps ==
  ASSUME AnswerInv, UNCHANGED strategy,
         \A i \in CacheIds, k \in Keys : Cached(i, k)', NEW t \in Tasks,
         \A u \in Tasks \ {t} : pc'[u] = pc[u] /\ call'[u] = call[u] /\ got'[u] = got[u],
         Asking(t)', Answered(t)'
  PROVE  AnswerInv'
<1>1. ASSUME NEW u \in Tasks \ {t} PROVE Asking(u)' /\ Answered(u)'
  <2>1. Asking(u) /\ Answered(u)
    BY DEF AnswerInv
  <2> QED
    BY <2>1, AskingCarries, AnsweredCarries
<1> QED
  BY <1>1 DEF AnswerInv

\* Caches that are not written stay as they are.
LEMMA CachedKeeps ==
  ASSUME AnswerInv, UNCHANGED <<strategy, cache>>
  PROVE  \A i \in CacheIds, k \in Keys : Cached(i, k)'
<1>1. \A u \in Tasks : CacheId(u)' = CacheId(u)
  BY DEF CacheId
<1>2. ASSUME NEW i \in CacheIds, NEW k \in Keys PROVE Cached(i, k)'
  <2>1. Cached(i, k)
    BY DEF AnswerInv
  <2> QED
    BY <1>1, <2>1 DEF Cached, Own, Whole
<1> QED
  BY <1>2

\* Finish with what answers the task, or with nothing.
LEMMA FinishWhole ==
  ASSUME DataTypes, UNCHANGED strategy, pc \in [Tasks -> Stages], NEW t \in Tasks,
         NEW mts, Finish(t, mts),
         mts # {} => Own(CacheId(t), mts) /\ \A r \in Wants[t] : Whole(CacheId(t), mts, r)
  PROVE  /\ Asking(t)' /\ Answered(t)'
         /\ \A u \in Tasks \ {t} : pc'[u] = pc[u] /\ call'[u] = call[u] /\ got'[u] = got[u]
<1>1. /\ pc'[t] = "wait" /\ got'[t] = mts
      /\ \A u \in Tasks \ {t} : pc'[u] = pc[u] /\ call'[u] = call[u] /\ got'[u] = got[u]
  BY DEF Finish, Goto, DataTypes
<1>2. Asking(t)'
  BY <1>1 DEF Asking
<1>3. Answered(t)'
  BY <1>1 DEF Answered, Own, Whole, CacheId
<1> QED
  BY <1>1, <1>2, <1>3

\* An answer completes what was missed, in the cache and for its task.
LEMMA AnswerWhole ==
  ASSUME StageTypes, CallInv, AnswerInv, NEW t \in Tasks, Answer(t)
  PROVE  AnswerInv'
<1>1. /\ UNCHANGED strategy /\ pc[t] = "call" /\ cache' = UpdateCache(CacheId(t), Collected(t))
      /\ Finish(t, Collected(t) \union call[t].hits)
      /\ now \in Nat /\ DataTypes /\ pc \in [Tasks -> Stages] /\ call[t].since # NoTime
  BY DEF Answer, StageTypes, CallInv
<1>2. /\ CacheId(t) \in CacheIds /\ Collected(t) \in SUBSET Metric
      /\ \A m \in Collected(t) : m.by = t
      /\ \A r \in call[t].misses : Asked(r) \subseteq {m.name : m \in Collected(t)}
  BY <1>1, Looks, CollectedFacts
<1>3. /\ call[t].misses \subseteq Wants[t] /\ Own(CacheId(t), call[t].hits)
      /\ \A r \in Wants[t] \ call[t].misses : Whole(CacheId(t), call[t].hits, r)
  BY <1>1 DEF AnswerInv, Asking
<1>4. ASSUME NEW i \in CacheIds, NEW k \in Keys PROVE Cached(i, k)'
  <2>1. \A u \in Tasks : CacheId(u)' = CacheId(u)
    BY <1>1 DEF CacheId
  <2>2. CASE cache'[i][k] = cache[i][k]
    <3>1. Cached(i, k) /\ UNCHANGED strategy
      BY <1>1 DEF AnswerInv
    <3> QED
      BY <2>1, <2>2, <3>1 DEF Cached, Own, Whole
  <2>3. CASE i = CacheId(t) /\ cache'[i][k] # cache[i][k]
    <3> DEFINE S == Under(Collected(t), k)
    <3>1. cache'[i][k].metrics = S /\ S # {}
      BY <1>1, <1>2, <2>3, Updates
    <3> HIDE DEF S
    <3>2. Own(i, S) /\ Whole(i, S, k)
      BY <1>1, <1>3, <2>3, <3>1, CachedWhole DEF S
    <3> QED
      BY <1>1, <2>1, <3>1, <3>2 DEF Cached, Own, Whole
  <2> QED
    BY <1>1, <1>2, <2>2, <2>3, Updates
<1> DEFINE mts == Collected(t) \union call[t].hits
<1>5. Own(CacheId(t), mts)
  BY <1>2, <1>3 DEF Own, CacheId
<1>6. ASSUME NEW r \in Wants[t] PROVE Whole(CacheId(t), mts, r)
  <2>1. CASE r \in call[t].misses
    <3>1. Whole(CacheId(t), Collected(t), r)
      BY <1>2, <2>1 DEF Whole
    <3> QED
      BY <3>1, WholeGrows
  <2>2. CASE r \notin call[t].misses
    BY <1>3, <2>2, WholeGrows
  <2> QED
    BY <2>1, <2>2
<1>7. /\ Asking(t)' /\ Answered(t)'
      /\ \A u \in Tasks \ {t} : pc'[u] = pc[u] /\ call'[u] = call[u] /\ got'[u] = got[u]
  <2> HIDE DEF mts
  <2>1. Finish(t, mts)
    BY <1>1 DEF mts
  <2> QED
    BY <1>1, <1>5, <1>6, <2>1, FinishWhole
<1> QED
  BY <1>1, <1>4, <1>7, AnsweredKeeps

\* At first nothing is cached, asked or answered.
LEMMA AnswerInit == Init => AnswerInv
<1> SUFFICES ASSUME Init PROVE AnswerInv
  OBVIOUS
<1>1. \A i \in CacheIds, k \in Keys : cache[i][k].metrics = {}
  BY DEF Init, NoCell
<1>2. \A t \in Tasks : pc[t] = "wait" /\ got[t] = {}
  BY DEF Init
<1> QED
  BY <1>1, <1>2 DEF AnswerInv, Cached, Asking, Answered, Own

\* Every step keeps caches, collections and answers whole.
LEMMA AnswerStep == StageTypes /\ CallInv /\ AnswerInv /\ [Next]_vars => AnswerInv'
<1> SUFFICES ASSUME StageTypes, CallInv, AnswerInv, [Next]_vars PROVE AnswerInv'
  OBVIOUS
<1>1. DataTypes /\ pc \in [Tasks -> Stages]
  BY DEF StageTypes, CallInv
<1>2. ASSUME NEW t \in Tasks,
             \/ WaitWindowed(t) \/ WakeStart(t) \/ WakeInterval(t) \/ WaitCron(t) \/ WakeCron(t)
      PROVE  AnswerInv'
  <2>1. /\ UNCHANGED <<strategy, cache, call>>
        /\ \A u \in Tasks \ {t} : pc'[u] = pc[u] /\ got'[u] = got[u]
        /\ pc'[t] \notin {"select", "take", "call"}
        /\ got'[t] = {} \/ got'[t] = got[t]
    BY <1>1, <1>2, ScheduleSteps DEF DataTypes
  <2>2. Asking(t)'
    BY <2>1 DEF Asking
  <2>3. Answered(t)'
    <3>1. Answered(t)
      BY DEF AnswerInv
    <3> QED
      BY <2>1, <3>1, AnsweredCarries
  <2> QED
    BY <2>1, <2>2, <2>3, AnsweredKeeps, CachedKeeps
<1>3. ASSUME NEW t \in Tasks, Collects(t) PROVE AnswerInv'
  <2>1. \A u \in Tasks : UNCHANGED strategy /\ CacheId(u)' = CacheId(u)
    BY <1>1, <1>3, CollectsMoves DEF CacheId
  <2>2. CASE CheckCache(t)
    <3>1. UNCHANGED <<strategy, cache>>
      BY <2>2 DEF CheckCache
    <3>2. /\ Own(CacheId(t), Hits(t)) /\ Misses(t) \subseteq Wants[t]
          /\ \A r \in Wants[t] \ Misses(t) : Whole(CacheId(t), Hits(t), r)
      BY <1>1, HitsWhole DEF Misses
    <3>3. CASE Misses(t) = {} /\ Finish(t, Hits(t))
      BY <1>1, <3>1, <3>2, <3>3, FinishWhole, AnsweredKeeps, CachedKeeps
    <3>4. CASE Goto(t, "select")
               /\ call' = [call EXCEPT ![t] = [hits |-> Hits(t), misses |-> Misses(t), since |-> NoTime]]
               /\ UNCHANGED got
      <4>1. /\ call'[t].hits = Hits(t) /\ call'[t].misses = Misses(t) /\ got'[t] = got[t]
            /\ \A u \in Tasks \ {t} : pc'[u] = pc[u] /\ call'[u] = call[u] /\ got'[u] = got[u]
        BY <1>1, <3>4 DEF Goto, DataTypes
      <4>2. Asking(t)'
        BY <2>1, <3>1, <3>2, <4>1 DEF Asking, Own, Whole
      <4>3. Answered(t)'
        <5>1. Answered(t)
          BY DEF AnswerInv
        <5> QED
          BY <3>1, <4>1, <5>1, AnsweredCarries
      <4> QED
        BY <3>1, <4>1, <4>2, <4>3, AnsweredKeeps, CachedKeeps
    <3> QED
      BY <2>2, <3>3, <3>4 DEF CheckCache
  <2>3. CASE (Select(t) /\ CanSelect(t)) \/ Take(t)
    <3>1. /\ UNCHANGED <<strategy, cache, got>> /\ pc[t] \in {"select", "take"}
          /\ \A u \in Tasks \ {t} : pc'[u] = pc[u] /\ call'[u] = call[u]
          /\ call'[t].hits = call[t].hits /\ call'[t].misses = call[t].misses
      BY <1>1, <2>3 DEF Select, Take, Goto, DataTypes, Calls
    <3>2. Asking(t) /\ Answered(t)
      BY DEF AnswerInv
    <3>3. Asking(t)'
      BY <3>1, <3>2, AskingCarries
    <3>4. Answered(t)'
      BY <3>1, <3>2, AnsweredCarries
    <3> QED
      BY <3>1, <3>3, <3>4, AnsweredKeeps, CachedKeeps
  <2>4. ASSUME Finish(t, {}), UNCHANGED <<strategy, cache>> PROVE AnswerInv'
    BY <1>1, <2>4, FinishWhole, AnsweredKeeps, CachedKeeps
  <2>5. CASE PassDeadline(t) /\ rpc # "grpc"
    <3>1. UNCHANGED <<strategy, cache, pc, call, got>>
      BY <2>5 DEF PassDeadline
    <3>2. Asking(t) /\ Answered(t)
      BY DEF AnswerInv
    <3>3. Asking(t)'
      BY <3>1, <3>2, AskingCarries
    <3>4. Answered(t)'
      BY <3>1, <3>2, AnsweredCarries
    <3> QED
      BY <3>1, <3>3, <3>4, AnsweredKeeps, CachedKeeps
  <2> QED
    BY <1>3, <2>2, <2>3, <2>4, <2>5, AnswerWhole
    DEF Collects, Select, Fail, Disconnect, PassDeadline
<1>4. CASE Tick \/ ProcessStep \/ UNCHANGED vars
  <2>1. UNCHANGED <<strategy, cache, pc, call, got>>
    BY <1>4 DEF Tick, ProcessStep, Respond, RunFails, Refuse, Crash, Exit, HeartbeatWatch, Process,
      vars, data
  <2>2. ASSUME NEW u \in Tasks PROVE Asking(u)' /\ Answered(u)'
    <3>1. Asking(u) /\ Answered(u)
      BY DEF AnswerInv
    <3> QED
      BY <2>1, <3>1, AskingCarries, AnsweredCarries
  <2> QED
    BY <2>1, <2>2, CachedKeeps DEF AnswerInv
<1>5. CASE DaemonDies
  <2>1. \A i \in CacheIds, k \in Keys : cache'[i][k].metrics = {}
    BY <1>5 DEF DaemonDies, NoCell
  <2>2. \A t \in Tasks : pc'[t] = "dead" /\ got'[t] = {}
    BY <1>5 DEF DaemonDies
  <2> QED
    BY <2>1, <2>2 DEF AnswerInv, Cached, Asking, Answered, Own
<1> QED
  BY <1>2, <1>3, <1>4, <1>5, NextCases

\* What a collection returns is complete, and in a cache for every task it is the
\* task's own (cache.go:62-184, available_plugin.go:430-450): whatever other tasks
\* cache, expire or overwrite between the look into the cache and the answer of
\* the plugin, for every set of tasks and every choice of metrics they want.
THEOREM AnswersComplete == Spec => []AnswerIsComplete
<1>1. AnswerInv => AnswerIsComplete
  BY DEF AnswerInv, Answered, Own, Whole, CacheId, AnswerIsComplete
<1> QED
  BY <1>1, CallHolds, AnswerInit, AnswerStep, PTL DEF Spec
=============================================================================
