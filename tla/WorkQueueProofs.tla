-------------------------- MODULE WorkQueueProofs --------------------------
(***************************************************************************)
(* Proofs about the work queue: its types, the ownership of handle(), the  *)
(* bound on its length, that no job is lost or duplicated, and that it     *)
(* implements JobService, for any callers, workers and limit.              *)
(***************************************************************************)
EXTENDS WorkQueue, TLAPS

\* Most leaves need no arithmetic.
USE ZenonT(5), SMTT(15)

USE CallersAssumption, LimitAssumption, KindAssumption

\* What push and pop do to the set of queued jobs.
LEMMA PushItems ==
  ASSUME NEW S, NEW s \in Seq(S), NEW x \in S
  PROVE  /\ Append(s, x) \in Seq(S)
         /\ Len(Append(s, x)) = Len(s) + 1
         /\ \A i \in 1..Len(s) : Append(s, x)[i] = s[i]
         /\ Append(s, x)[Len(s) + 1] = x
  OBVIOUS

\* Appending adds one member, and keeps the elements distinct if it is new.
LEMMA PushMembers ==
  ASSUME NEW S, NEW s \in Seq(S), NEW x \in S, NEW d
  PROVE  (\E i \in 1..Len(Append(s, x)) : Append(s, x)[i] = d)
           <=> (\E i \in 1..Len(s) : s[i] = d) \/ d = x
<1>1. ASSUME NEW i \in 1..Len(Append(s, x)), Append(s, x)[i] = d
      PROVE  (\E j \in 1..Len(s) : s[j] = d) \/ d = x
  <2>1. CASE i = Len(s) + 1
    BY <1>1, <2>1, PushItems
  <2>2. CASE i # Len(s) + 1
    <3>1. i \in 1..Len(s)
      BY <2>2, PushItems
    <3> QED
      BY <1>1, <3>1, PushItems
  <2> QED
    BY <2>1, <2>2
<1>2. ASSUME NEW i \in 1..Len(s), s[i] = d
      PROVE  \E j \in 1..Len(Append(s, x)) : Append(s, x)[j] = d
  BY <1>2, PushItems
<1>3. x = Append(s, x)[Len(s) + 1] /\ Len(s) + 1 \in 1..Len(Append(s, x))
  BY PushItems
<1> QED
  BY <1>1, <1>2, <1>3

\* What pop (queue.go:175-190) returns and leaves.
LEMMA PopItems ==
  ASSUME NEW S, NEW s \in Seq(S), s # <<>>
  PROVE  /\ Tail(s) \in Seq(S)
         /\ Len(Tail(s)) = Len(s) - 1
         /\ \A i \in 1..Len(Tail(s)) : Tail(s)[i] = s[i + 1]
         /\ Head(s) = s[1]
         /\ Head(s) \in S
         /\ Len(s) \in Nat \ {0}
  OBVIOUS

\* Popping removes the head, which the rest does not contain if the elements
\* are distinct.
LEMMA PopMembers ==
  ASSUME NEW S, NEW s \in Seq(S), s # <<>>, NEW d
  PROVE  (\E i \in 1..Len(s) : s[i] = d)
           <=> (\E i \in 1..Len(Tail(s)) : Tail(s)[i] = d) \/ d = Head(s)
<1>1. ASSUME NEW i \in 1..Len(s), s[i] = d
      PROVE  (\E j \in 1..Len(Tail(s)) : Tail(s)[j] = d) \/ d = Head(s)
  <2>1. CASE i = 1
    BY <1>1, <2>1, PopItems
  <2>2. CASE i # 1
    <3>1. i - 1 \in 1..Len(Tail(s)) /\ (i - 1) + 1 = i
      BY <2>2, PopItems
    <3>2. Tail(s)[i - 1] = s[(i - 1) + 1]
      BY <3>1, PopItems
    <3> QED
      BY <1>1, <3>1, <3>2
  <2> QED
    BY <2>1, <2>2
<1>2. ASSUME NEW i \in 1..Len(Tail(s)), Tail(s)[i] = d
      PROVE  \E j \in 1..Len(s) : s[j] = d
  <2>1. i + 1 \in 1..Len(s) /\ s[i + 1] = d
    BY <1>2, PopItems
  <2> QED
    BY <2>1
<1>3. Head(s) = s[1] /\ 1 \in 1..Len(s)
  BY PopItems
<1> QED
  BY <1>1, <1>2, <1>3

\* Popping keeps the elements distinct and takes every copy of the head away.
LEMMA PopDistinct ==
  ASSUME NEW S, NEW s \in Seq(S), s # <<>>,
         \A i, j \in 1..Len(s) : s[i] = s[j] => i = j
  PROVE  /\ \A i, j \in 1..Len(Tail(s)) : Tail(s)[i] = Tail(s)[j] => i = j
         /\ ~\E i \in 1..Len(Tail(s)) : Tail(s)[i] = Head(s)
<1>1. ASSUME NEW i \in 1..Len(Tail(s))
      PROVE  i + 1 \in 1..Len(s) /\ Tail(s)[i] = s[i + 1] /\ i + 1 # 1
  BY PopItems
<1>2. 1 \in 1..Len(s) /\ Head(s) = s[1]
  BY PopItems
<1>3. ASSUME NEW i \in 1..Len(Tail(s)), NEW j \in 1..Len(Tail(s)),
             Tail(s)[i] = Tail(s)[j]
      PROVE  i = j
  <2>1. i + 1 = j + 1
    BY <1>1, <1>3
  <2> QED
    BY <2>1
<1>4. ASSUME NEW i \in 1..Len(Tail(s)), Tail(s)[i] = Head(s) PROVE FALSE
  BY <1>1, <1>2, <1>4
<1> QED
  BY <1>3, <1>4

\* Every variable has its type, and a goroutine holds a job exactly at the
\* points of queue.go and worker.go between receiving it and passing it on.
THEOREM TypeCorrect == Spec => []TypeOK
<1>1. Init => TypeOK
  <2> SUFFICES ASSUME Init PROVE TypeOK
    OBVIOUS
  <2>1. /\ worker \in [Workers -> {At("select", NoJob), At("absent", NoJob)}]
        /\ \A w \in Workers : worker[w].job = NoJob /\ worker[w].pc # "run"
    BY DEF Init, At
  <2>2. worker \in [Workers -> [pc : {"absent", "select", "run", "gone"},
                               job : Callers \cup {NoJob}]]
    BY <2>1 DEF At
  <2> QED
    <3>1. items \in Seq(Callers)
      BY DEF Init
    <3>2. /\ loop.job = NoJob /\ loop.pc = "select"
          /\ handler.job = NoJob /\ handler.pc = "none"
      BY DEF Init, At
    <3>3. /\ caller \in [Callers -> {"idle", "sending", "awaiting"}]
          /\ promise \in [Callers -> {"pending"} \cup Outcomes]
      BY DEF Init
    <3> QED
      BY <2>1, <2>2, <3>1, <3>2, <3>3 DEF Init, TypeOK, At, Statuses
<1>2. TypeOK /\ [Next]_vars => TypeOK'
  <2> SUFFICES ASSUME TypeOK, [Next]_vars PROVE TypeOK'
    OBVIOUS
  <2> USE DEF TypeOK, At, Statuses, Outcomes
  <2>1. ASSUME NEW c \in Callers, Work(c) PROVE TypeOK'
    BY <2>1 DEF Work
  <2>2. ASSUME NEW c \in Callers, Await(c) PROVE TypeOK'
    BY <2>2 DEF Await
  <2>3. ASSUME NEW c \in Callers, SendOnClosed(c) PROVE TypeOK'
    BY <2>3 DEF SendOnClosed
  <2>4. ASSUME NEW c \in Callers, LoopReceive(c) PROVE TypeOK'
    BY <2>4 DEF LoopReceive
  <2>5. ASSUME NEW w \in Workers, HandleSend(w) PROVE TypeOK'
    BY <2>5 DEF HandleSend
  <2>6. ASSUME NEW w \in Workers, WorkerRun(w) PROVE TypeOK'
    BY <2>6 DEF WorkerRun, Complete
  <2>7. ASSUME NEW w \in Workers, AddWorker(w) PROVE TypeOK'
    BY <2>7 DEF AddWorker
  <2>8. ASSUME NEW w \in Workers, WorkerKilled(w) PROVE TypeOK'
    BY <2>8 DEF WorkerKilled
  <2>9. CASE LoopPush
    <3>1. CASE HasRoom
      <4>1. loop.job \in Callers
        BY <2>9 DEF LoopPush
      <4>2. items' = Append(items, loop.job) /\ loop' = At("wake", NoJob)
        BY <2>9, <3>1 DEF LoopPush
      <4>3. items' \in Seq(Callers)
        BY <4>1, <4>2
      <4> QED
        BY <2>9, <4>2, <4>3 DEF LoopPush
    <3>2. CASE ~HasRoom
      BY <2>9, <3>2 DEF LoopPush
    <3> QED
      BY <3>1, <3>2
  <2>10. CASE LoopWake
    BY <2>10 DEF LoopWake
  <2>11. CASE LoopReportErr
    BY <2>11 DEF LoopReportErr
  <2>12. CASE LoopReject
    BY <2>12 DEF LoopReject, Complete
  <2>13. CASE LoopKilled
    BY <2>13 DEF LoopKilled
  <2>14. CASE LoopDrain
    BY <2>14 DEF LoopDrain
  <2>15. CASE HandlePop
    BY <2>15 DEF HandlePop
  <2>16. CASE HandleIdle
    BY <2>16 DEF HandleIdle
  <2>17. CASE CloseEvent
    BY <2>17 DEF CloseEvent
  <2>18. CASE ErrLoopExit
    BY <2>18 DEF ErrLoopExit
  <2>19. CASE StopQueue
    <3>1. CASE Kind = "collect" /\ status # "Stopped"
      BY <2>19, <3>1 DEF StopQueue
    <3>2. CASE ~(Kind = "collect" /\ status # "Stopped")
      BY <2>19, <3>2 DEF StopQueue
    <3> QED
      BY <3>1, <3>2
  <2>20. CASE StopWorkers
    BY <2>20 DEF StopWorkers
  <2>21. CASE StopErrLoop
    BY <2>21 DEF StopErrLoop
  <2>22. CASE UNCHANGED vars
    BY <2>22 DEF vars
  <2> QED
    BY <2>1, <2>2, <2>3, <2>4, <2>5, <2>6, <2>7, <2>8, <2>9, <2>10, <2>11, <2>12, <2>13, <2>14, <2>15, <2>16, <2>17, <2>18, <2>19, <2>20, <2>21, <2>22 DEF Next, Running, Loop, LoopStops, Handle, Stop
<1> QED
  BY <1>1, <1>2, PTL DEF Spec

\* The loop leaves its select for good only once the queue was told to stop.
KillFirst ==
  /\ loop.pc \in {"drain", "gone"} => kill
  /\ swallowed # {} => kill

\* A job that is being sent has not been completed.
FreshPromise == \A c \in Callers : caller[c] = "sending" => promise[c] = "pending"

JobsInv ==
  /\ WorkingIsHandled
  /\ FreshPromise
  /\ QueueBounded
  /\ KillFirst
  /\ NoJobLost
  /\ NoJobDuplicated

\* The inductive step: with the types, the facts about jobs carry each other.
LEMMA JobsStep ==
  TypeOK /\ TypeOK' /\ JobsInv /\ [Next]_vars => JobsInv'
<1> SUFFICES ASSUME TypeOK, TypeOK', JobsInv, [Next]_vars PROVE JobsInv'
  OBVIOUS
<1>1. WorkingIsHandled'
  <2>1. CASE LoopWake
    BY <2>1 DEF LoopWake, WorkingIsHandled, JobsInv, At
  <2>2. CASE HandlePop
    BY <2>2 DEF HandlePop, WorkingIsHandled, JobsInv, At
  <2>3. ASSUME NEW w \in Workers, HandleSend(w) PROVE WorkingIsHandled'
    BY <2>3 DEF HandleSend, WorkingIsHandled, JobsInv, At
  <2>4. CASE HandleIdle
    BY <2>4 DEF HandleIdle, WorkingIsHandled, At
  <2>5. CASE StopQueue
    BY <2>5 DEF StopQueue, WorkingIsHandled, JobsInv
  <2>6. CASE UNCHANGED <<status, handler>>
    BY <2>6 DEF WorkingIsHandled, JobsInv
  <2>7. CASE Loop \/ Handle
    BY <2>1, <2>2, <2>3, <2>4, <2>6, <2>7
    DEF Loop, Handle, LoopReceive, LoopPush, LoopReportErr, LoopReject
  <2>8. CASE \/ \E c \in Callers : Work(c) \/ Await(c) \/ SendOnClosed(c)
             \/ \E w \in Workers : WorkerRun(w) \/ AddWorker(w) \/ WorkerKilled(w)
    BY <2>6, <2>8 DEF Work, Await, SendOnClosed, WorkerRun, AddWorker, WorkerKilled
  <2>9. CASE LoopStops \/ ErrLoopExit \/ Stop \/ UNCHANGED vars
    BY <2>5, <2>6, <2>9 DEF LoopStops, LoopKilled, LoopDrain, CloseEvent,
      ErrLoopExit, Stop, StopWorkers, StopErrLoop, vars
  <2> QED
    BY <2>7, <2>8, <2>9 DEF Next, Running
<1>2. QueueBounded'
  <2>1. CASE LoopPush
    <3>1. CASE HasRoom
      <4>1. loop.job \in Callers /\ items' = Append(items, loop.job)
        BY <2>1, <3>1 DEF LoopPush, TypeOK
      <4> QED
        BY <3>1, <4>1, PushItems DEF HasRoom, QueueBounded, TypeOK
    <3>2. CASE ~HasRoom
      BY <2>1, <3>2 DEF LoopPush, QueueBounded, JobsInv
    <3> QED
      BY <3>1, <3>2
  <2>2. CASE HandlePop
    BY <2>2, PopItems DEF HandlePop, QueueBounded, JobsInv, TypeOK
  <2>3. CASE UNCHANGED items
    BY <2>3 DEF QueueBounded, JobsInv
  <2>4. CASE Loop \/ Handle
    BY <2>1, <2>2, <2>3, <2>4 DEF Loop, Handle, LoopReceive, LoopWake,
      LoopReportErr, LoopReject, HandleSend, HandleIdle
  <2>5. CASE \/ \E c \in Callers : Work(c) \/ Await(c) \/ SendOnClosed(c)
             \/ \E w \in Workers : WorkerRun(w) \/ AddWorker(w) \/ WorkerKilled(w)
    BY <2>3, <2>5 DEF Work, Await, SendOnClosed, WorkerRun, AddWorker, WorkerKilled
  <2>6. CASE LoopStops \/ ErrLoopExit \/ Stop \/ UNCHANGED vars
    BY <2>3, <2>6 DEF LoopStops, LoopKilled, LoopDrain, CloseEvent,
      ErrLoopExit, Stop, StopQueue, StopWorkers, StopErrLoop, vars
  <2> QED
    BY <2>4, <2>5, <2>6 DEF Next, Running
<1>3. KillFirst'
  <2>1. CASE UNCHANGED <<loop, swallowed>> /\ (kill => kill')
    BY <2>1 DEF KillFirst, JobsInv
  <2>2. CASE Loop
    <3>1. loop'.pc \notin {"drain", "gone"} /\ UNCHANGED <<swallowed, kill>>
      BY <2>2 DEF Loop, LoopReceive, LoopPush, LoopWake, LoopReportErr, LoopReject, At
    <3> QED
      BY <3>1 DEF KillFirst, JobsInv
  <2>3. CASE Handle
    BY <2>1, <2>3 DEF Handle, HandlePop, HandleSend, HandleIdle
  <2>4. CASE \/ \E c \in Callers : Work(c) \/ Await(c) \/ SendOnClosed(c)
             \/ \E w \in Workers : WorkerRun(w) \/ AddWorker(w) \/ WorkerKilled(w)
    BY <2>1, <2>4 DEF Work, Await, SendOnClosed, WorkerRun, AddWorker, WorkerKilled
  <2>5. CASE LoopKilled \/ LoopDrain
    <3>1. kill /\ UNCHANGED kill
      BY <2>5 DEF LoopKilled, LoopDrain, KillFirst, JobsInv
    <3> QED
      BY <3>1 DEF KillFirst
  <2>6. CASE CloseEvent \/ ErrLoopExit \/ Stop \/ UNCHANGED vars
    BY <2>1, <2>6 DEF CloseEvent, ErrLoopExit, Stop, StopQueue, StopWorkers,
      StopErrLoop, vars
  <2> QED
    BY <2>2, <2>3, <2>4, <2>5, <2>6 DEF Next, Running, LoopStops
<1>4. NoJobLost' /\ NoJobDuplicated'
  <2>0. /\ \A c \in Callers : Outstanding(c) => Held(c) \/ (c \in swallowed /\ kill)
        /\ \A c \in Callers : Held(c) => Outstanding(c)
        /\ HeldOnce
    BY DEF JobsInv, NoJobLost, NoJobDuplicated
  <2> DEFINE Goal == NoJobLost' /\ NoJobDuplicated'
  <2> SUFFICES Goal
    OBVIOUS
  <2>a. ASSUME \A c \in Callers : Held(c)' <=> Held(c),
               UNCHANGED <<caller, promise, swallowed>>, kill => kill', HeldOnce'
        PROVE  Goal
    <3>1. \A c \in Callers : Outstanding(c)' <=> Outstanding(c)
      BY <2>a DEF Outstanding
    <3> QED
      BY <2>0, <2>a, <3>1 DEF NoJobLost, NoJobDuplicated
  <2>b. ASSUME NEW c \in Callers, Held(c), promise'[c] # "pending",
               \A d \in Callers \ {c} : promise'[d] = promise[d],
               \A d \in Callers : Held(d)' <=> Held(d) /\ d # c,
               UNCHANGED <<caller, swallowed, kill>>, HeldOnce'
        PROVE  Goal
    <3>1. \A d \in Callers : Outstanding(d)' <=> Outstanding(d) /\ d # c
      BY <2>b DEF Outstanding
    <3> QED
      BY <2>0, <2>b, <3>1 DEF NoJobLost, NoJobDuplicated
  <2>c. ASSUME UNCHANGED <<items, worker>>, loop'.job = loop.job,
               handler'.job = handler.job
        PROVE  HeldOnce' /\ \A c \in Callers : Held(c)' <=> Held(c)
    BY <2>0, <2>c DEF HeldOnce, Held, InItems, AtWorker
  <2>1. ASSUME NEW c \in Callers, Work(c) PROVE Goal
    <3>1. /\ HeldOnce' /\ \A d \in Callers : Held(d)' <=> Held(d)
          /\ ~Outstanding(c) /\ ~Outstanding(c)'
          /\ \A d \in Callers \ {c} : Outstanding(d)' <=> Outstanding(d)
          /\ UNCHANGED <<swallowed, kill>>
      BY <2>1, <2>c DEF Work, Outstanding, TypeOK
    <3> QED
      BY <2>0, <3>1 DEF NoJobLost, NoJobDuplicated
  <2>2. ASSUME NEW c \in Callers, Await(c) PROVE Goal
    <3>1. /\ HeldOnce' /\ \A d \in Callers : Held(d)' <=> Held(d)
          /\ ~Outstanding(c) /\ ~Outstanding(c)'
          /\ \A d \in Callers \ {c} : Outstanding(d)' <=> Outstanding(d)
          /\ UNCHANGED <<swallowed, kill>>
      BY <2>2, <2>c DEF Await, Outstanding, TypeOK
    <3> QED
      BY <2>0, <3>1 DEF NoJobLost, NoJobDuplicated
  <2>3. ASSUME NEW c \in Callers, LoopReceive(c) PROVE Goal
    <3>1. /\ loop.job = NoJob /\ loop'.job = c
          /\ caller[c] = "sending" /\ promise[c] = "pending"
          /\ caller' = [caller EXCEPT ![c] = "awaiting"]
          /\ UNCHANGED <<items, handler, worker, promise, swallowed, kill>>
      BY <2>3 DEF LoopReceive, At, TypeOK, JobsInv, FreshPromise
    <3>2. ~Outstanding(c) /\ ~Held(c)
      BY <2>0, <3>1 DEF Outstanding
    <3>3. \A d \in Callers : Held(d)' <=> Held(d) \/ d = c
      BY <3>1 DEF Held, InItems, AtWorker
    <3>4. \A d \in Callers : Outstanding(d)' <=> Outstanding(d) \/ d = c
      BY <3>1 DEF Outstanding, TypeOK
    <3>5. HeldOnce'
      BY <2>0, <3>1, <3>2 DEF HeldOnce, Held, InItems, AtWorker
    <3> QED
      BY <2>0, <3>1, <3>3, <3>4, <3>5 DEF NoJobLost, NoJobDuplicated
  <2>4. CASE LoopPush
    <3>1. CASE HasRoom
      <4>1. PICK x \in Callers : x = loop.job
        BY <2>4 DEF LoopPush, TypeOK
      <4>2. /\ items \in Seq(Callers)
            /\ items' = Append(items, x)
            /\ loop'.job = NoJob
            /\ UNCHANGED <<kill, handler, worker, caller, promise, swallowed>>
        BY <2>4, <3>1, <4>1 DEF LoopPush, At, TypeOK
      <4>3. /\ ~InItems(x) /\ handler.job # x /\ ~AtWorker(x)
        BY <2>0, <4>1 DEF HeldOnce
      <4>4. \A d \in Callers : InItems(d)' <=> InItems(d) \/ d = x
        BY ONLY <4>1, <4>2, PushMembers DEF InItems
      <4>5. \A i, j \in 1..Len(items') : items'[i] = items'[j] => i = j
        <5>1. \A i, j \in 1..Len(items) : items[i] = items[j] => i = j
          BY <2>0 DEF HeldOnce
        <5>2. \A i \in 1..Len(items) : items[i] # x
          BY <4>3 DEF InItems
        <5> QED
          BY ONLY <4>1, <4>2, <5>1, <5>2, PushItems
      <4>6. \A d \in Callers : AtWorker(d)' <=> AtWorker(d)
        BY <4>2 DEF AtWorker
      <4>7. \A d \in Callers : Held(d)' <=> Held(d)
        BY <4>1, <4>2, <4>4, <4>6 DEF Held
      <4>8. HeldOnce'
        <5>1. \A v \in Workers : worker[v].job \in Callers \cup {NoJob}
          BY DEF TypeOK
        <5>2. handler.job \in Callers \cup {NoJob}
          BY DEF TypeOK
        <5>3. \A v \in Workers : worker[v].job # x
          BY <4>3 DEF AtWorker
        <5> QED
          BY <2>0, <4>2, <4>3, <4>4, <4>5, <4>6, <5>1, <5>2, <5>3 DEF HeldOnce
      <4> QED
        BY <2>a, <4>2, <4>7, <4>8
    <3>2. CASE ~HasRoom
      <4>1. /\ loop'.job = loop.job
            /\ UNCHANGED <<kill, items, handler, worker, caller, promise, swallowed>>
        BY <2>4, <3>2 DEF LoopPush, At
      <4> QED
        BY <2>a, <2>c, <4>1
    <3> QED
      BY <3>1, <3>2
  <2>5. CASE LoopReject
    <3>1. PICK c \in Callers : c = loop.job
      BY <2>5 DEF LoopReject, TypeOK
    <3>2. Held(c) /\ ~InItems(c) /\ handler.job # c /\ ~AtWorker(c)
      BY <2>0, <3>1 DEF HeldOnce, Held
    <3>3. /\ loop'.job = NoJob
          /\ promise[c] = "pending"
          /\ Complete(c, "limitExceeded")
          /\ UNCHANGED <<kill, items, handler, worker, caller, swallowed>>
      BY <2>0, <2>5, <3>1, <3>2 DEF LoopReject, At, Complete, Outstanding
    <3>4. /\ promise'[c] # "pending"
          /\ \A d \in Callers \ {c} : promise'[d] = promise[d]
      BY <3>3 DEF Complete, TypeOK
    <3>5. \A d \in Callers : Held(d)' <=> Held(d) /\ d # c
      BY <3>1, <3>2, <3>3 DEF Held, InItems, AtWorker
    <3>6. HeldOnce'
      BY <2>0, <3>3 DEF HeldOnce, InItems, AtWorker
    <3> QED
      BY <2>b, <3>2, <3>3, <3>4, <3>5, <3>6
  <2>6. CASE LoopDrain
    <3>1. /\ loop'.job = loop.job
          /\ UNCHANGED <<kill, items, handler, worker, promise>>
      BY <2>6 DEF LoopDrain, At, TypeOK
    <3>2. CASE UNCHANGED <<caller, swallowed>>
      BY <2>a, <2>c, <3>1, <3>2
    <3>3. ASSUME NEW c \in Callers, caller[c] = "sending",
                 caller' = [caller EXCEPT ![c] = "awaiting"],
                 swallowed' = swallowed \cup {c}
          PROVE  Goal
      <4>1. kill'
        BY <2>6, <3>1 DEF LoopDrain, JobsInv, KillFirst
      <4>2. ~Held(c)
        BY <2>0, <3>3 DEF Outstanding
      <4>3. \A d \in Callers \ {c} : Outstanding(d)' <=> Outstanding(d)
        BY <3>1, <3>3 DEF Outstanding, TypeOK
      <4>4. HeldOnce' /\ \A d \in Callers : Held(d)' <=> Held(d)
        BY <2>c, <3>1
      <4> QED
        BY <2>0, <3>3, <4>1, <4>2, <4>3, <4>4 DEF NoJobLost, NoJobDuplicated
    <3> HIDE DEF Goal
    <3> QED
      BY <2>6, <3>2, <3>3 DEF LoopDrain
  <2>7. CASE HandlePop
    <3>1. CASE items = <<>>
      <4>1. /\ handler'.job = handler.job
            /\ UNCHANGED <<kill, items, loop, worker, caller, promise, swallowed>>
        BY <2>7, <3>1 DEF HandlePop, At, TypeOK
      <4> QED
        BY <2>a, <2>c, <4>1
    <3>2. CASE items # <<>>
      <4>0. items \in Seq(Callers) /\ Head(items) \in Callers
        BY <3>2, PopItems DEF TypeOK
      <4>1. PICK h \in Callers : h = Head(items)
        BY <4>0
      <4>2. /\ handler.job = NoJob
            /\ handler'.job = h
            /\ items' = Tail(items)
            /\ UNCHANGED <<kill, loop, worker, caller, promise, swallowed>>
        BY <2>7, <3>2, <4>1 DEF HandlePop, At, TypeOK
      <4>3. \A d \in Callers : InItems(d) <=> InItems(d)' \/ d = h
        BY ONLY <3>2, <4>0, <4>1, <4>2, PopMembers DEF InItems
      <4>4. /\ \A i, j \in 1..Len(items') : items'[i] = items'[j] => i = j
            /\ ~InItems(h)'
        <5>1. \A i, j \in 1..Len(items) : items[i] = items[j] => i = j
          BY <2>0 DEF HeldOnce
        <5> QED
          BY ONLY <3>2, <4>0, <4>1, <4>2, <5>1, PopDistinct DEF InItems
      <4>5. \A d \in Callers : AtWorker(d)' <=> AtWorker(d)
        BY <4>2 DEF AtWorker
      <4>6. \A d \in Callers : Held(d)' <=> Held(d)
        BY <4>2, <4>3, <4>5 DEF Held
      <4>7. HeldOnce'
        <5>1. \A v \in Workers : worker[v].job \in Callers \cup {NoJob}
          BY DEF TypeOK
        <5>2. loop.job \in Callers \cup {NoJob}
          BY DEF TypeOK
        <5>3. loop.job # h /\ \A v \in Workers : worker[v].job # h
          BY <2>0, <4>1, <4>3, <5>1, <5>2 DEF HeldOnce
        <5>4. ~AtWorker(h)
          BY <5>3 DEF AtWorker
        <5> QED
          BY <2>0, <4>2, <4>3, <4>4, <4>5, <5>1, <5>2, <5>3, <5>4 DEF HeldOnce
      <4> QED
        BY <2>a, <4>2, <4>6, <4>7
    <3> QED
      BY <3>1, <3>2
  <2>8. ASSUME NEW w \in Workers, HandleSend(w) PROVE Goal
    <3>0. PICK x \in Callers : x = handler.job
      BY <2>8 DEF HandleSend, TypeOK
    <3>1. /\ handler'.job = NoJob
          /\ worker[w].job = NoJob /\ worker'[w].job = x
          /\ \A v \in Workers \ {w} : worker'[v] = worker[v]
          /\ UNCHANGED <<items, loop, kill, caller, promise, swallowed>>
      BY <2>8, <3>0 DEF HandleSend, At, TypeOK
    <3>2. \A d \in Callers : AtWorker(d)' <=> AtWorker(d) \/ d = x
      BY <3>1 DEF AtWorker
    <3>3. \A d : InItems(d)' <=> InItems(d)
      BY <3>1 DEF InItems
    <3>4. \A d \in Callers : Held(d)' <=> Held(d)
      BY <3>0, <3>1, <3>2, <3>3 DEF Held
    <3>5. ~InItems(x) /\ ~AtWorker(x) /\ loop.job # x
      BY <2>0, <3>0 DEF HeldOnce
    <3>6. HeldOnce'
      <4>1. loop.job \in Callers \cup {NoJob}
        BY DEF TypeOK
      <4>2. \A v \in Workers : worker[v].job # x
        BY <3>5 DEF AtWorker
      <4>3. \A v, u \in Workers :
              worker'[v].job = worker'[u].job /\ worker'[v].job # NoJob => v = u
        BY <2>0, <3>1, <4>2 DEF HeldOnce
      <4>4. \A v \in Workers : worker'[v].job # NoJob => ~InItems(worker'[v].job)
        BY <2>0, <3>1, <3>5 DEF HeldOnce
      <4> QED
        BY <2>0, <3>1, <3>2, <3>3, <3>5, <4>1, <4>3, <4>4 DEF HeldOnce
    <3> QED
      BY <2>a, <3>1, <3>4, <3>6
  <2>9. ASSUME NEW w \in Workers, WorkerRun(w) PROVE Goal
    <3>1. PICK c \in Callers : c = worker[w].job
      BY <2>9 DEF WorkerRun, TypeOK
    <3>2. Held(c) /\ ~InItems(c) /\ handler.job # c /\ loop.job # c
      BY <2>0, <3>1 DEF HeldOnce, Held, AtWorker
    <3>3. PICK o \in {"ran", "overdue"} : Complete(c, o)
      BY <2>9, <3>1 DEF WorkerRun, Complete
    <3>4. /\ worker'[w].job = NoJob
          /\ \A v \in Workers \ {w} : worker'[v] = worker[v]
          /\ UNCHANGED <<kill, items, loop, handler, caller, swallowed>>
      BY <2>9 DEF WorkerRun, At, TypeOK
    <3>5. /\ promise'[c] # "pending"
          /\ \A d \in Callers \ {c} : promise'[d] = promise[d]
      BY <2>0, <3>2, <3>3 DEF Complete, Outstanding, TypeOK
    <3>6. \A v \in Workers \ {w} : worker[v].job # c
      BY <2>0, <3>1 DEF HeldOnce
    <3>7. \A d \in Callers : AtWorker(d)' <=> AtWorker(d) /\ d # c
      BY <3>1, <3>4, <3>6 DEF AtWorker
    <3>8. \A d : InItems(d)' <=> InItems(d)
      BY <3>4 DEF InItems
    <3>9. \A d \in Callers : Held(d)' <=> Held(d) /\ d # c
      BY <3>2, <3>4, <3>7, <3>8 DEF Held
    <3>10. HeldOnce'
      <4>1. loop.job \in Callers \cup {NoJob} /\ handler.job \in Callers \cup {NoJob}
        BY DEF TypeOK
      <4>2. \A v, u \in Workers :
              worker'[v].job = worker'[u].job /\ worker'[v].job # NoJob => v = u
        BY <2>0, <3>4 DEF HeldOnce
      <4>3. \A v \in Workers : worker'[v].job # NoJob => ~InItems(worker'[v].job)
        BY <2>0, <3>4 DEF HeldOnce
      <4> QED
        BY <2>0, <3>4, <3>7, <3>8, <4>1, <4>2, <4>3 DEF HeldOnce
    <3> QED
      BY <2>b, <3>2, <3>4, <3>5, <3>9, <3>10
  <2>10. ASSUME NEW w \in Workers, AddWorker(w) \/ WorkerKilled(w) PROVE Goal
    <3>1. \A v \in Workers : worker'[v].job = worker[v].job
      BY <2>10 DEF AddWorker, WorkerKilled, At, TypeOK
    <3>2. UNCHANGED <<items, loop, handler, kill, caller, promise, swallowed>>
      BY <2>10 DEF AddWorker, WorkerKilled
    <3>3. \A d : InItems(d)' <=> InItems(d)
      BY <3>2 DEF InItems
    <3>4. \A d : AtWorker(d)' <=> AtWorker(d)
      BY <3>1 DEF AtWorker
    <3>5. HeldOnce'
      BY <2>0, <3>1, <3>2, <3>3, <3>4 DEF HeldOnce
    <3>6. \A d \in Callers : Held(d)' <=> Held(d)
      BY <3>2, <3>3, <3>4 DEF Held
    <3> QED
      BY <2>a, <3>2, <3>5, <3>6
  <2>11. CASE LoopWake \/ LoopReportErr \/ LoopKilled \/ HandleIdle
    <3>1. /\ loop'.job = loop.job /\ handler'.job = handler.job
          /\ UNCHANGED <<items, worker, kill, caller, promise, swallowed>>
      <4>0. /\ loop.pc \in {"select", "wake"} => loop.job = NoJob
            /\ handler.pc \in {"none", "idle"} => handler.job = NoJob
            /\ status = "Running" => handler.pc = "none"
        BY DEF TypeOK, JobsInv, WorkingIsHandled
      <4>1. CASE LoopWake
        BY <4>0, <4>1 DEF LoopWake, At
      <4>2. CASE LoopReportErr \/ LoopKilled \/ HandleIdle
        BY <4>0, <4>2 DEF LoopReportErr, LoopKilled, HandleIdle, At
      <4> QED
        BY <2>11, <4>1, <4>2
    <3> QED
      BY <2>a, <2>c, <3>1
  <2>12. CASE \/ CloseEvent \/ ErrLoopExit \/ StopQueue \/ StopWorkers
              \/ StopErrLoop \/ UNCHANGED vars
              \/ \E c \in Callers : SendOnClosed(c)
    <3>1. /\ UNCHANGED <<items, loop, handler, worker, caller, promise, swallowed>>
          /\ kill => kill'
      BY <2>12 DEF CloseEvent, ErrLoopExit, StopQueue, StopWorkers, StopErrLoop,
        SendOnClosed, vars
    <3> QED
      BY <2>a, <2>c, <3>1
  <2> HIDE DEF Goal
  <2> QED
    BY <2>1, <2>2, <2>3, <2>4, <2>5, <2>6, <2>7, <2>8, <2>9, <2>10, <2>11, <2>12
    DEF Next, Running, Loop, LoopStops, Handle, Stop
<1>5. FreshPromise'
  <2>0. /\ FreshPromise
        /\ caller \in [Callers -> {"idle", "sending", "awaiting"}]
        /\ promise \in [Callers -> {"pending"} \cup Outcomes]
    BY DEF TypeOK, JobsInv
  <2>1. ASSUME NEW c \in Callers, Held(c), NEW o \in Outcomes, Complete(c, o),
               UNCHANGED caller
        PROVE  FreshPromise'
    BY <2>1 DEF Complete, FreshPromise, JobsInv, NoJobDuplicated, Outstanding,
      TypeOK
  <2>2. CASE LoopReject
    <3>1. PICK c \in Callers : c = loop.job
      BY <2>2 DEF LoopReject, TypeOK
    <3>2. Held(c) /\ UNCHANGED caller /\ Complete(c, "limitExceeded")
      BY <2>2, <3>1 DEF LoopReject, Complete, Held
    <3> QED
      BY <2>1, <3>2 DEF Outcomes
  <2>3. ASSUME NEW w \in Workers, WorkerRun(w) PROVE FreshPromise'
    <3>1. PICK c \in Callers : c = worker[w].job
      BY <2>3 DEF WorkerRun, TypeOK
    <3>2. PICK o \in {"ran", "overdue"} : Complete(c, o)
      BY <2>3, <3>1 DEF WorkerRun, Complete
    <3>3. Held(c) /\ UNCHANGED caller
      BY <2>3, <3>1 DEF WorkerRun, Held, AtWorker
    <3> QED
      BY <2>1, <3>2, <3>3 DEF Outcomes
  <2>4. ASSUME NEW c \in Callers, Work(c) \/ Await(c) \/ LoopReceive(c)
        PROVE  FreshPromise'
    <3>1. CASE Work(c)
      BY <2>0, <3>1 DEF Work, FreshPromise
    <3>2. CASE Await(c)
      BY <2>0, <3>2 DEF Await, FreshPromise
    <3>3. CASE LoopReceive(c)
      BY <2>0, <3>3 DEF LoopReceive, FreshPromise
    <3> QED
      BY <2>4, <3>1, <3>2, <3>3
  <2>5. CASE LoopDrain
    BY <2>0, <2>5 DEF LoopDrain, FreshPromise
  <2>6. CASE UNCHANGED <<caller, promise>>
    BY <2>0, <2>6 DEF FreshPromise
  <2>7. CASE Loop \/ Handle
    BY <2>2, <2>4, <2>6, <2>7 DEF Loop, Handle, LoopPush, LoopWake,
      LoopReportErr, HandlePop, HandleSend, HandleIdle
  <2>8. CASE \/ \E c \in Callers : Work(c) \/ Await(c) \/ SendOnClosed(c)
             \/ \E w \in Workers : WorkerRun(w) \/ AddWorker(w) \/ WorkerKilled(w)
    BY <2>3, <2>4, <2>6, <2>8 DEF SendOnClosed, AddWorker, WorkerKilled
  <2>9. CASE LoopStops \/ ErrLoopExit \/ Stop \/ UNCHANGED vars
    BY <2>5, <2>6, <2>9 DEF LoopStops, LoopKilled, CloseEvent, ErrLoopExit,
      Stop, StopQueue, StopWorkers, StopErrLoop, vars
  <2> QED
    BY <2>7, <2>8, <2>9 DEF Next, Running
<1> QED
  BY <1>1, <1>2, <1>3, <1>4, <1>5 DEF JobsInv

\* The queue keeps track of every job, from the first to the last step.
LEMMA JobsInvariant == Spec => []JobsInv
<1>1. Init => JobsInv
  <2> SUFFICES ASSUME Init PROVE JobsInv
    OBVIOUS
  <2>1. \A w \in Workers : worker[w].job = NoJob
    <3>1. worker \in [Workers -> {At("select", NoJob), At("absent", NoJob)}]
      BY DEF Init
    <3> QED
      BY <3>1 DEF At
  <2>2. Len(items) = 0 /\ loop.job = NoJob /\ handler.job = NoJob
    BY DEF Init, At
  <2>3. \A c \in Callers : ~Held(c) /\ ~Outstanding(c) /\ ~InItems(c)
    <3>1. \A c \in Callers : caller[c] = "idle"
      BY DEF Init
    <3>2. 1..Len(items) = {}
      BY <2>2
    <3>3. \A c \in Callers : ~InItems(c)
      BY ONLY <3>2 DEF InItems
    <3>4. \A c \in Callers : ~AtWorker(c)
      BY <2>1 DEF AtWorker
    <3> QED
      BY <2>2, <3>1, <3>3, <3>4 DEF Held, Outstanding
  <2>4. WorkingIsHandled /\ KillFirst /\ FreshPromise
    BY DEF Init, At, WorkingIsHandled, KillFirst, FreshPromise
  <2>5. QueueBounded
    BY <2>2 DEF QueueBounded
  <2>6. HeldOnce
    <3>1. 1..Len(items) = {}
      BY <2>2
    <3> QED
      BY <2>1, <2>2, <3>1, Zenon DEF HeldOnce
  <2> QED
    BY <2>3, <2>4, <2>5, <2>6 DEF JobsInv, NoJobLost, NoJobDuplicated
<1> QED
  BY <1>1, TypeCorrect, JobsStep, PTL DEF Spec

\* The queue keeps its jobs: one handle() goroutine at a time, never more jobs
\* than the limit, no job lost and none duplicated, whatever the interleaving
\* of callers, loop, handler, workers and workManager.Stop.
THEOREM JobsSafe == Spec => [](WorkingIsHandled /\ QueueBounded /\ NoJobLost
                               /\ NoJobDuplicated)
<1>1. JobsInv => WorkingIsHandled /\ QueueBounded /\ NoJobLost /\ NoJobDuplicated
  BY DEF JobsInv
<1> QED
  BY <1>1, JobsInvariant, PTL

\* The work queue implements the job service its callers see: an outcome is
\* given once, to a job that was accepted and is still awaited.
THEOREM ImplementsJobService == Spec => IsJobService
<1> DEFINE view == [c \in Callers |->
             CASE caller[c] = "idle" -> "none"
               [] caller[c] = "sending" -> "submitted"
               [] caller[c] = "awaiting" /\ promise[c] = "pending" -> "accepted"
               [] OTHER -> promise[c]]
<1>1. Init => Service!Init
  BY DEF Init, Service!Init
<1>2. TypeOK /\ JobsInv /\ [Next]_vars => [Service!Next]_view
  <2> SUFFICES ASSUME TypeOK, JobsInv, [Next]_vars PROVE [Service!Next]_view
    OBVIOUS
  <2>1. ASSUME NEW c \in Callers, Work(c) PROVE Service!Submit(c)
    BY <2>1 DEF Work, Service!Submit, TypeOK
  <2>2. ASSUME NEW c \in Callers, Await(c) PROVE Service!Collect(c)
    BY <2>2 DEF Await, Service!Collect, TypeOK, Outcomes
  <2>3. ASSUME NEW c \in Callers, caller[c] = "sending", UNCHANGED promise,
               caller' = [caller EXCEPT ![c] = "awaiting"]
        PROVE  Service!Accept(c)
    BY <2>3 DEF Service!Accept, TypeOK, JobsInv, FreshPromise
  <2>4. ASSUME NEW c \in Callers, Held(c), UNCHANGED caller,
               NEW o \in Outcomes, Complete(c, o)
        PROVE  Service!Finish(c)
    <3>1. caller[c] = "awaiting" /\ promise[c] = "pending"
      BY <2>4 DEF JobsInv, NoJobDuplicated, Outstanding
    <3>2. promise' = [promise EXCEPT ![c] = o]
      BY <2>4, <3>1 DEF Complete
    <3>3. view[c] = "accepted"
      BY <3>1
    <3>4. view' = [view EXCEPT ![c] = o]
      BY <2>4, <3>1, <3>2 DEF TypeOK, Outcomes
    <3> QED
      BY <3>3, <3>4 DEF Service!Finish
  <2>5. CASE LoopDrain
    BY <2>3, <2>5 DEF LoopDrain, Service!Next
  <2>6. CASE LoopReject
    <3>1. PICK c \in Callers : c = loop.job
      BY <2>6 DEF LoopReject, TypeOK
    <3>2. /\ Held(c) /\ UNCHANGED caller
          /\ Complete(c, "limitExceeded") /\ "limitExceeded" \in Outcomes
      BY <2>6, <3>1 DEF LoopReject, Complete, Held, Outcomes
    <3> QED
      BY <2>4, <3>2 DEF Service!Next
  <2>7. ASSUME NEW w \in Workers, WorkerRun(w) PROVE Service!Next
    <3>1. PICK c \in Callers : c = worker[w].job
      BY <2>7 DEF WorkerRun, TypeOK
    <3>2. PICK o \in {"ran", "overdue"} : Complete(c, o)
      BY <2>7, <3>1 DEF WorkerRun, Complete
    <3>3. Held(c) /\ UNCHANGED caller /\ o \in Outcomes
      BY <2>7, <3>1 DEF WorkerRun, Held, AtWorker, Outcomes
    <3> QED
      BY <2>4, <3>2, <3>3 DEF Service!Next
  <2>8. CASE UNCHANGED <<caller, promise>>
    BY <2>8
  <2>9. ASSUME NEW c \in Callers, LoopReceive(c) PROVE Service!Accept(c)
    BY <2>3, <2>9 DEF LoopReceive
  <2> HIDE DEF view
  <2>10. CASE Loop \/ Handle
    BY <2>6, <2>8, <2>9, <2>10 DEF Loop, Handle, LoopPush, LoopWake,
      LoopReportErr, HandlePop, HandleSend, HandleIdle, Service!Next
  <2>11. CASE \/ \E c \in Callers : Work(c) \/ Await(c) \/ SendOnClosed(c)
              \/ \E w \in Workers : WorkerRun(w) \/ AddWorker(w) \/ WorkerKilled(w)
    BY <2>1, <2>2, <2>7, <2>8, <2>11 DEF SendOnClosed, AddWorker, WorkerKilled,
      Service!Next
  <2>12. CASE LoopStops \/ ErrLoopExit \/ Stop \/ UNCHANGED vars
    BY <2>5, <2>8, <2>12 DEF LoopStops, LoopKilled, CloseEvent, ErrLoopExit, Stop, StopQueue, StopWorkers,
      StopErrLoop, vars
  <2> QED
    BY <2>10, <2>11, <2>12 DEF Next, Running
<1> QED
  BY <1>1, <1>2, TypeCorrect, JobsInvariant, PTL
  DEF Spec, Service!Spec, IsJobService
=============================================================================
