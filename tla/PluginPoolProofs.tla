-------------------------- MODULE PluginPoolProofs --------------------------
(***************************************************************************)
(* Proof that no plugin process is orphaned and that an instance stays in  *)
(* its pool while a task is calling it, for any tasks, limits, number of   *)
(* instances and of overlapping health checks, and any mix of failed and   *)
(* timed-out starts.                                                       *)
(*                                                                         *)
(* pool.SelectAndKill kills an instance without the lock and removes it    *)
(* later, and the handler of a dead instance may do the same in between.   *)
(* The invariant says that an instance marked for removal is an old one    *)
(* whose process is not up: the ids of generatePID are never used again,   *)
(* so a new instance cannot be removed in its place.                       *)
(***************************************************************************)
EXTENDS PluginPool, TLAPS

\* Most leaves need no arithmetic.
USE ZenonT(5), SMTT(15)

Types ==
  /\ pid \in 0..MaxPid
  /\ plugins \subseteq 1..pid
  /\ proc \in [Ids -> {"none", "up", "down", "killed"}]
  /\ sticky \in [Tasks -> 0..pid]
  /\ using \in [Tasks -> 0..pid]
  /\ unsub \in [Tasks -> [pc : {"none", "event", "select", "remove"}, id : 0..pid]]

\* What SelectAndKill has killed, it may remove.
MarkedIsKilled ==
  \A t \in Tasks : unsub[t].pc = "remove" =>
    unsub[t].id \in 1..pid /\ proc[unsub[t].id] # "up"

Inv == Types /\ MarkedIsKilled /\ NoOrphan /\ InUseStaysInPool

\* The instances started so far.
LEMMA IdsGrow == pid \in 0..MaxPid => 1..pid \subseteq Ids
BY BoundsAssumption DEF Ids

\* At first there is no instance.
LEMMA InitInv == Init => Inv
<1> SUFFICES ASSUME Init PROVE Inv
  OBVIOUS
<1>1. Types
  BY BoundsAssumption DEF Init, Types, None
<1>2. MarkedIsKilled /\ NoOrphan /\ InUseStaysInPool
  BY DEF Init, MarkedIsKilled, NoOrphan, InUseStaysInPool, None
<1> QED
  BY <1>1, <1>2 DEF Inv

\* A step that leaves the pool, the processes and the calls alone.
LEMMA RestKeeps ==
  ASSUME Inv, UNCHANGED <<plugins, pid, proc, sticky, using>>,
         unsub' \in [Tasks -> [pc : {"none", "event", "select", "remove"}, id : 0..pid]],
         \A t \in Tasks : unsub'[t] = unsub[t] \/ unsub'[t].pc # "remove"
  PROVE Inv'
<1>1. Types'
  BY DEF Inv, Types
<1>2. MarkedIsKilled'
  BY DEF Inv, MarkedIsKilled
<1>3. NoOrphan' /\ InUseStaysInPool'
  BY DEF Inv, NoOrphan, InUseStaysInPool
<1> QED
  BY <1>1, <1>2, <1>3 DEF Inv

\* A start, whoever asked for it.
LEMMA InsertKeeps ==
  ASSUME Inv, Insert, UNCHANGED <<sticky, using, unsub>>
  PROVE Inv'
<1> DEFINE n == pid + 1
<1>1. pid \in Nat /\ pid' = n /\ n \in 1..MaxPid /\ n \notin 1..pid
  BY BoundsAssumption DEF Inv, Types, Insert
<1>2. 0..pid \subseteq 0..n /\ 1..pid \subseteq 1..n /\ n \in 1..n /\ n \in 0..MaxPid
  BY <1>1
<1>3. plugins' = plugins \cup {n} /\ proc' = [proc EXCEPT ![n] = "up"]
  BY DEF Insert
<1> HIDE DEF n
<1>4. /\ sticky \in [Tasks -> 0..n]
      /\ using \in [Tasks -> 0..n]
  BY <1>2 DEF Inv, Types
<1>5. unsub \in [Tasks -> [pc : {"none", "event", "select", "remove"}, id : 0..n]]
  BY <1>2 DEF Inv, Types
<1>6. proc' \in [Ids -> {"none", "up", "down", "killed"}] /\ proc \in [Ids -> {"none", "up", "down", "killed"}]
  BY <1>3 DEF Inv, Types
<1>7. Types'
  BY <1>1, <1>2, <1>3, <1>4, <1>5, <1>6 DEF Inv, Types
<1>8. \A i \in Ids : i # n => proc'[i] = proc[i]
  BY <1>3, <1>6
<1>9. MarkedIsKilled'
  <2> SUFFICES ASSUME NEW t \in Tasks, unsub[t].pc = "remove"
               PROVE unsub[t].id \in 1..n /\ proc'[unsub[t].id] # "up"
    BY <1>1 DEF MarkedIsKilled
  <2>1. unsub[t].id \in 1..pid /\ proc[unsub[t].id] # "up"
    BY DEF Inv, MarkedIsKilled
  <2>2. unsub[t].id # n /\ unsub[t].id \in Ids
    BY <1>1, <2>1, IdsGrow DEF Inv, Types
  <2> QED
    BY <1>2, <1>8, <2>1, <2>2
<1>10. NoOrphan'
  BY <1>3, <1>8 DEF Inv, NoOrphan
<1>11. InUseStaysInPool'
  BY <1>3 DEF Inv, InUseStaysInPool
<1> QED
  BY <1>7, <1>9, <1>10, <1>11 DEF Inv

\* Select answers an instance that has been started, in the pool or not.
LEMMA SelectIsOld ==
  ASSUME Inv, NEW t \in Tasks
  PROVE Select(t) \subseteq 1..pid
<1>1. plugins \subseteq 1..pid /\ sticky[t] \in 0..pid /\ pid \in Nat
  BY BoundsAssumption DEF Inv, Types
<1>2. LruSelect(t) \subseteq plugins
  BY DEF LruSelect
<1>3. CASE ~Sticky
  BY <1>1, <1>2, <1>3 DEF Select, StickySelect
<1>4. CASE Sticky /\ sticky[t] # None
  <2>1. sticky[t] \in 1..pid
    BY <1>1, <1>4 DEF None
  <2> QED
    BY <1>1, <1>2, <1>4, <2>1 DEF Select, StickySelect
<1>5. CASE Sticky /\ sticky[t] = None
  <2>1. StickySelect(t) \subseteq plugins
    BY <1>5 DEF StickySelect
  <2> QED
    BY <1>1, <1>2, <2>1 DEF Select
<1> QED
  BY <1>3, <1>4, <1>5

\* A call and its return move the read lock only.
LEMMA CallKeeps ==
  ASSUME Inv, NEW t \in Tasks, Call(t) \/ CallReturns(t)
  PROVE Inv'
<1>1. UNCHANGED <<plugins, pid, proc, unsub>>
  BY DEF Call, CallReturns
<1>2. Select(t) \subseteq 0..pid
  BY SelectIsOld DEF Inv, Types
<1>3. ~Sticky => Select(t) \subseteq plugins
  BY DEF Select, LruSelect, StickySelect
<1>4. None \in 0..pid
  BY DEF Inv, Types, None
<1>5. using' \in [Tasks -> 0..pid] /\ sticky' \in [Tasks -> 0..pid]
  <2>1. using \in [Tasks -> 0..pid] /\ sticky \in [Tasks -> 0..pid]
    BY DEF Inv, Types
  <2>2. CASE CallReturns(t)
    BY <1>4, <2>1, <2>2 DEF CallReturns
  <2>3. CASE Call(t)
    BY <1>2, <2>1, <2>3 DEF Call
  <2> QED
    BY <2>2, <2>3
<1>6. \A u \in Tasks : using'[u] # using[u] => u = t
  BY DEF Call, CallReturns, Inv, Types
<1>7. using'[t] = None \/ using'[t] \in Select(t)
  BY DEF Call, CallReturns, Inv, Types
<1>8. InUseStaysInPool'
  BY <1>1, <1>3, <1>6, <1>7 DEF Inv, InUseStaysInPool
<1> QED
  BY <1>1, <1>5, <1>8 DEF Inv, Types, MarkedIsKilled, NoOrphan

\* A process goes down, and what may leave the pool leaves it.
LEMMA EndsKeep ==
  ASSUME Inv, NEW i \in Ids, NEW s \in {"down", "killed"},
         proc' = proc \/ proc' = [proc EXCEPT ![i] = s],
         plugins' = plugins \/ (CanLock /\ plugins' = plugins \ {i} /\ proc'[i] # "up"),
         UNCHANGED <<pid, sticky, using, unsub>>
  PROVE Inv'
<1>1. proc \in [Ids -> {"none", "up", "down", "killed"}]
  BY DEF Inv, Types
<1>2. Types'
  BY <1>1 DEF Inv, Types
<1>3. \A j \in Ids : proc'[j] = "up" => proc[j] = "up"
  BY <1>1
<1>4. MarkedIsKilled'
  <2>1. \A t \in Tasks : unsub[t].pc = "remove" => unsub[t].id \in Ids
    BY IdsGrow DEF Inv, Types, MarkedIsKilled
  <2> QED
    BY <1>3, <2>1 DEF Inv, MarkedIsKilled
<1>5. NoOrphan'
  BY <1>3 DEF Inv, NoOrphan
<1>6. InUseStaysInPool'
  BY DEF Inv, InUseStaysInPool, CanLock
<1> QED
  BY <1>2, <1>4, <1>5, <1>6 DEF Inv

\* The handler of a dead plugin takes the instance out, with the write lock.
LEMMA DeadKillKeeps ==
  ASSUME Inv, NEW i \in Ids, NEW k \in Checks, DeadKill(i, k)
  PROVE Inv'
<1>1. proc \in [Ids -> {"none", "up", "down", "killed"}]
  BY DEF Inv, Types
<1>2. CASE i \in plugins
  <2>1. proc' = [proc EXCEPT ![i] = "killed"] /\ proc'[i] # "up"
    BY <1>1, <1>2 DEF DeadKill
  <2> QED
    BY <2>1, EndsKeep DEF DeadKill
<1>3. CASE i \notin plugins
  BY <1>3, EndsKeep DEF DeadKill, Inv, NoOrphan
<1> QED
  BY <1>2, <1>3

\* An unsubscription kills what it marks.
LEMMA SelectAndKillKeeps ==
  ASSUME Inv, NEW t \in Tasks, SelectAndKill(t)
  PROVE Inv'
<1> DEFINE Handlers == [pc : {"none", "event", "select", "remove"}, id : 0..pid]
<1>1. /\ unsub \in [Tasks -> Handlers]
      /\ unsub[t] \in Handlers
      /\ proc \in [Ids -> {"none", "up", "down", "killed"}]
      /\ sticky \in [Tasks -> 0..pid]
      /\ None \in 0..pid
      /\ UNCHANGED <<plugins, pid, using>>
  BY DEF Inv, Types, SelectAndKill, None
<1>2. CASE unsub' = [unsub EXCEPT ![t].pc = "none"] /\ UNCHANGED <<proc, sticky>>
  BY <1>1, <1>2, RestKeeps
<1>3. ASSUME NEW i \in Select(t),
             unsub' = [unsub EXCEPT ![t] = [pc |-> "remove", id |-> i]],
             proc' = [proc EXCEPT ![i] = "killed"],
             sticky' = [sticky EXCEPT ![t] = None]
      PROVE Inv'
  <2>1. i \in 1..pid
    BY SelectIsOld
  <2>2. i \in 0..pid /\ i \in Ids
    BY <2>1, IdsGrow DEF Inv, Types
  <2>3. Types'
    BY <1>1, <1>3, <2>2 DEF Inv, Types
  <2>4. \A j \in Ids : proc'[j] = "up" => proc[j] = "up"
    BY <1>1, <1>3
  <2>5. proc'[i] # "up"
    BY <1>1, <1>3, <2>2
  <2>6. \A u \in Tasks : unsub[u].pc = "remove" => unsub[u].id \in Ids
    BY IdsGrow DEF Inv, Types, MarkedIsKilled
  <2>7. \A u \in Tasks : unsub'[u] = IF u = t THEN [pc |-> "remove", id |-> i] ELSE unsub[u]
    BY <1>1, <1>3
  <2>8. MarkedIsKilled'
    <3> SUFFICES ASSUME NEW u \in Tasks, unsub'[u].pc = "remove"
                 PROVE unsub'[u].id \in 1..pid /\ proc'[unsub'[u].id] # "up"
      BY <1>1 DEF MarkedIsKilled
    <3>1. CASE u = t
      BY <2>1, <2>5, <2>7, <3>1
    <3>2. CASE u # t
      BY <2>4, <2>6, <2>7, <3>2 DEF Inv, MarkedIsKilled
    <3> QED
      BY <3>1, <3>2
  <2>9. NoOrphan' /\ InUseStaysInPool'
    BY <1>1, <2>4 DEF Inv, NoOrphan, InUseStaysInPool
  <2> QED
    BY <2>3, <2>8, <2>9 DEF Inv
<1> QED
  BY <1>2, <1>3 DEF SelectAndKill

\* What it takes out was killed when it was marked.
LEMMA RemoveKeeps ==
  ASSUME Inv, NEW t \in Tasks, Remove(t)
  PROVE Inv'
<1>1. unsub[t].id \in 1..pid /\ proc[unsub[t].id] # "up"
  BY DEF Inv, MarkedIsKilled, Remove
<1>2. NoOrphan' /\ InUseStaysInPool'
  BY <1>1 DEF Remove, Inv, NoOrphan, InUseStaysInPool, CanLock
<1>3. [pc |-> "none", id |-> None] \in [pc : {"none", "event", "select", "remove"}, id : 0..pid]
  BY DEF Inv, Types, None
<1>4. Types'
  BY <1>3 DEF Remove, Inv, Types
<1>5. MarkedIsKilled'
  BY DEF Remove, Inv, Types, MarkedIsKilled
<1> QED
  BY <1>2, <1>4, <1>5 DEF Inv

\* Every step keeps the invariant.
LEMMA NextInv == Inv /\ [Next]_vars => Inv'
<1> SUFFICES ASSUME Inv, [Next]_vars PROVE Inv'
  OBVIOUS
<1> DEFINE Handlers == [pc : {"none", "event", "select", "remove"}, id : 0..pid]
<1>1. unsub \in [Tasks -> Handlers] /\ proc \in [Ids -> {"none", "up", "down", "killed"}]
  BY DEF Inv, Types
<1>2. CASE UNCHANGED <<plugins, pid, proc, sticky, using, unsub>>
  BY <1>1, <1>2, RestKeeps
<1>3. ASSUME NEW t \in Tasks, Unsubscribe(t) \/ HandleUnsubscription(t)
      PROVE Inv'
  <2>1. UNCHANGED <<plugins, pid, proc, sticky, using>>
    BY <1>3 DEF Unsubscribe, HandleUnsubscription
  <2>2. \E pc \in {"none", "event", "select"} : unsub' = [unsub EXCEPT ![t].pc = pc]
    BY <1>3 DEF Unsubscribe, HandleUnsubscription
  <2>3. unsub' \in [Tasks -> Handlers]
    BY <1>1, <2>2
  <2>4. \A u \in Tasks : unsub'[u] = unsub[u] \/ unsub'[u].pc # "remove"
    BY <1>1, <2>2
  <2> QED
    BY <2>1, <2>3, <2>4, RestKeeps
<1>4. CASE SubscribeStarted \/ LateInsert \/ \E i \in Ids, k \in Checks : Restarted(i, k)
  BY <1>4, InsertKeeps DEF SubscribeStarted, LateInsert, Restarted
<1>5. ASSUME NEW i \in Ids, Crash(i)
      PROVE Inv'
  BY <1>5, EndsKeep DEF Crash
<1> QED
  <2>1. CASE UNCHANGED vars
    BY <1>2, <2>1 DEF vars
  <2>2. ASSUME NEW t \in Tasks, Subscribe(t) \/ Unsubscribe(t) \/ Unsubscription(t)
        PROVE Inv'
    BY <1>2, <1>3, <2>2, SelectAndKillKeeps, RemoveKeeps DEF Subscribe, Unsubscription
  <2>3. ASSUME NEW t \in Tasks, Call(t) \/ CallReturns(t)
        PROVE Inv'
    BY <2>3, CallKeeps
  <2>4. CASE Groups
    BY <1>2, <1>4, <2>4 DEF Groups, SubscribeEligible, SubscribeFails
  <2>5. ASSUME NEW i \in Ids, NEW k \in Checks, Tick(i, k) \/ Handler(i, k)
        PROVE Inv'
    BY <1>2, <1>4, <2>5, DeadKillKeeps
       DEF Tick, Handler, CheckOk, HealthCheckFailed, DeadEligible, RestartFails, IncRestartCount
  <2> QED
    BY <1>4, <1>5, <2>1, <2>2, <2>3, <2>4, <2>5 DEF Next

\* It always holds.
LEMMA InvHolds == Spec => []Inv
BY InitInv, NextInv, PTL DEF Spec

\* A plugin process that is up is in its pool, where the monitor and a shutdown
\* find it, whatever starts, late starts, kills and removals cross each other
\* (pool.go:280-334, runner.go:189).
THEOREM ProcessesSafe == Spec => []NoOrphan
<1>1. Inv => NoOrphan
  BY DEF Inv
<1> QED
  BY <1>1, InvHolds, PTL

\* With the least-recently-used strategy no removal takes an instance out of the
\* pool under a task that is calling it (available_plugin.go:458, pool.go:280).
THEOREM CallsSafe == Spec => []InUseStaysInPool
<1>1. Inv => InUseStaysInPool
  BY DEF Inv
<1> QED
  BY <1>1, InvHolds, PTL

=============================================================================
