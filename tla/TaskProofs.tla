----------------------------- MODULE TaskProofs -----------------------------
(***************************************************************************)
(* Proof that a task never runs twice, is subscribed everywhere while it   *)
(* runs, and does not run while it says it is off - for any clients, nodes *)
(* and number of starts.                                                   *)
(*                                                                         *)
(* The checks of startTask do not exclude two starts, nor does Spin for a  *)
(* streaming task: what does is the subscriptions.  The invariant gives    *)
(* every subscribed node at most one owner: a client that is starting the  *)
(* task, the goroutine of a start, or the handler of the event it left.    *)
(***************************************************************************)
EXTENDS Task, TLAPS

\* Most leaves need no arithmetic.
USE ZenonT(5), SMTT(15)

SpinRecords ==
  [pc : {"gone", "loop", "select", "fire", "firing", "stopped", "ended", "disable",
         "connect", "listenLoop", "listen"}, chan : Nat, fails : Nat]
EventRecords == [pc : {"none", "emitted", "unsubscribe"}, todo : SUBSET Groups]
ClientRecords ==
  [pc : {"idle", "start", "startRunning", "subscribe", "rollback", "spin", "stop"},
   done : SUBSET Groups]

Types ==
  /\ spin \in [Spins -> SpinRecords]
  /\ event \in [Spins -> EventRecords]
  /\ client \in [Clients -> ClientRecords]
  /\ subs \subseteq Groups
  /\ killChan \in Nat /\ spun \in Nat

\* The nodes that the n-th start, its goroutine or the handler of its event, owns.
Holds(n) == IF Alive(n) \/ event[n].pc = "emitted" THEN Groups ELSE event[n].todo

Owners ==
  /\ \A n \in Spins : Holds(n) \subseteq subs
  /\ \A n \in Spins : Alive(n) => event[n].pc = "none"
  /\ \A n \in Spins : event[n].todo = {} <=> event[n].pc # "unsubscribe"
  /\ \A m, n \in Spins : Holds(m) # {} /\ Holds(n) # {} => m = n
  /\ \A c \in Clients : client[c].done \subseteq subs
  /\ \A c \in Clients : client[c].pc = "spin" => client[c].done = Groups
  /\ \A c \in Clients :
       client[c].pc \notin {"subscribe", "rollback", "spin"} => client[c].done = {}
  /\ \A c, d \in Clients : c # d => client[c].done \cap client[d].done = {}
  /\ \A c \in Clients, n \in Spins : client[c].done \cap Holds(n) = {}

Inv == Types /\ Owners /\ StoppedIsIdle

-----------------------------------------------------------------------------
(* A goroutine that goes on leaves the owners alone.                        *)

\* The n-th goroutine is alive, stays alive, and nothing else moves.
GoesOn(n) ==
  /\ Alive(n)
  /\ \E r \in SpinRecords : r.pc # "gone" /\ spin' = [spin EXCEPT ![n] = r]
  /\ UNCHANGED <<killChan, spun, event, subs, client, killed>>
  /\ state' \in Off => state' = state

\* A goroutine that counts its failures stays alive until it returns.
LEMMA AfterFailuresGoesOn ==
  ASSUME Types, NEW n \in Spins, NEW fails \in Nat,
         NEW pc \in {"loop", "connect", "listenLoop"}, AfterFailures(n, fails, pc)
  PROVE \E r \in SpinRecords : r.pc # "gone" /\ spin' = [spin EXCEPT ![n] = r]
<1> DEFINE f == IF StopOnFailure < 0 THEN 0 ELSE fails
           p == IF StopOnFailure >= 0 /\ fails >= StopOnFailure THEN "disable" ELSE pc
           r == [spin[n] EXCEPT !.fails = f, !.pc = p]
<1>1. f \in Nat
  BY StopOnFailureAssumption
<1>2. p \in {"loop", "connect", "listenLoop", "disable"}
  OBVIOUS
<1>3. spin[n] \in SpinRecords
  BY DEF Types
<1>4. r \in SpinRecords /\ r.pc # "gone"
  <2> HIDE DEF f, p
  <2> QED
    BY <1>1, <1>2, <1>3 DEF SpinRecords
<1>5. spin' = [spin EXCEPT ![n] = r]
  BY DEF AfterFailures, Types
<1> HIDE DEF r
<1> QED
  BY <1>4, <1>5

\* A new program counter, or one with the kill channel that is read.
LEMMA SpinToGoesOn ==
  ASSUME Types, NEW n \in Spins, NEW pc \in {"loop", "select", "fire", "firing", "stopped",
           "ended", "disable", "connect", "listenLoop", "listen"},
         \/ spin' = [spin EXCEPT ![n].pc = pc]
         \/ spin' = [spin EXCEPT ![n].pc = pc, ![n].chan = killChan]
         \/ spin' = [spin EXCEPT ![n].pc = pc, ![n].fails = 0]
  PROVE \E r \in SpinRecords : r.pc # "gone" /\ spin' = [spin EXCEPT ![n] = r]
<1>1. spin[n] \in SpinRecords /\ spin \in [Spins -> SpinRecords] /\ killChan \in Nat
  BY DEF Types
<1>2. CASE spin' = [spin EXCEPT ![n].pc = pc]
  <2> DEFINE r == [spin[n] EXCEPT !.pc = pc]
  <2>1. r \in SpinRecords /\ r.pc # "gone" /\ spin' = [spin EXCEPT ![n] = r]
    BY <1>1, <1>2 DEF SpinRecords
  <2> HIDE DEF r
  <2> QED
    BY <2>1
<1>3. CASE spin' = [spin EXCEPT ![n].pc = pc, ![n].chan = killChan]
  <2> DEFINE r == [spin[n] EXCEPT !.pc = pc, !.chan = killChan]
  <2>1. r \in SpinRecords /\ r.pc # "gone" /\ spin' = [spin EXCEPT ![n] = r]
    BY <1>1, <1>3 DEF SpinRecords
  <2> HIDE DEF r
  <2> QED
    BY <2>1
<1>4. CASE spin' = [spin EXCEPT ![n].pc = pc, ![n].fails = 0]
  <2> DEFINE r == [spin[n] EXCEPT !.pc = pc, !.fails = 0]
  <2>1. r \in SpinRecords /\ r.pc # "gone" /\ spin' = [spin EXCEPT ![n] = r]
    BY <1>1, <1>4 DEF SpinRecords
  <2> HIDE DEF r
  <2> QED
    BY <2>1
<1> QED
  BY <1>2, <1>3, <1>4

\* The steps of spin() and stream(), but for their return.
Continues(n) ==
  \/ SpinLoop(n) \/ Fire(n) \/ FireReturns(n) \/ Connect(n) \/ ListenLoop(n)
  \/ ScheduleResponse(n) \/ Listen(n) \/ KillReceived(n)

\* The steps inside the loop of a goroutine.
LEMMA ContinuesGoesOn ==
  ASSUME Types, NEW n \in Spins, Continues(n)
  PROVE GoesOn(n)
<1>1. /\ Alive(n)
      /\ UNCHANGED <<killChan, spun, event, subs, client, killed>>
      /\ state' \in Off => state' = state
  BY DEF Continues, SpinLoop, Fire, FireReturns, Connect, ListenLoop, ScheduleResponse,
         Listen, KillReceived, Alive, Off
<1>2. spin[n].fails \in Nat /\ spin[n].fails + 1 \in Nat
  BY DEF Types, SpinRecords
<1>3. \E r \in SpinRecords : r.pc # "gone" /\ spin' = [spin EXCEPT ![n] = r]
  <2>1. CASE SpinLoop(n)
    BY <2>1, SpinToGoesOn DEF SpinLoop
  <2>2. CASE Fire(n)
    BY <2>2, SpinToGoesOn DEF Fire, SpinTo
  <2>3. CASE FireReturns(n)
    BY <1>2, <2>3, AfterFailuresGoesOn DEF FireReturns
  <2>4. CASE Connect(n)
    BY <1>2, <2>4, AfterFailuresGoesOn, SpinToGoesOn DEF Connect
  <2>5. CASE ListenLoop(n)
    BY <2>5, SpinToGoesOn DEF ListenLoop
  <2>6. CASE ScheduleResponse(n)
    BY <2>6, SpinToGoesOn DEF ScheduleResponse, SpinTo
  <2>7. CASE Listen(n)
    <3>1. CASE spin' = [spin EXCEPT ![n].pc = "listenLoop", ![n].fails = 0]
      BY <3>1, SpinToGoesOn
    <3>2. CASE spin' = [spin EXCEPT ![n].pc = "listenLoop"]
      BY <3>2, SpinToGoesOn
    <3>3. ASSUME NEW pc \in {"listenLoop", "connect"}, AfterFailures(n, spin[n].fails + 1, pc)
          PROVE \E r \in SpinRecords : r.pc # "gone" /\ spin' = [spin EXCEPT ![n] = r]
      BY <1>2, <3>3, AfterFailuresGoesOn
    <3> QED
      BY <2>7, <3>1, <3>2, <3>3 DEF Listen
  <2>8. CASE KillReceived(n)
    BY <2>8, SpinToGoesOn DEF KillReceived, SpinTo
  <2> QED
    BY <2>1, <2>2, <2>3, <2>4, <2>5, <2>6, <2>7, <2>8 DEF Continues
<1> QED
  BY <1>1, <1>3 DEF GoesOn

\* They touch no subscription.
LEMMA GoesOnKeeps ==
  ASSUME Inv, NEW n \in Spins, GoesOn(n)
  PROVE Inv'
<1>1. PICK r \in SpinRecords : r.pc # "gone" /\ spin' = [spin EXCEPT ![n] = r]
  BY DEF GoesOn
<1>2. Types'
  BY <1>1 DEF Inv, Types, GoesOn
<1>3. \A m \in Spins : Alive(m)' <=> Alive(m)
  BY <1>1 DEF Alive, Inv, Types, GoesOn
<1>4. \A m \in Spins : Holds(m)' = Holds(m)
  BY <1>3 DEF Holds, GoesOn
<1>5. Owners'
  BY <1>3, <1>4 DEF Inv, Owners, GoesOn
<1>6. StoppedIsIdle'
  BY <1>3 DEF Inv, StoppedIsIdle, GoesOn
<1> QED
  BY <1>2, <1>5, <1>6 DEF Inv

-----------------------------------------------------------------------------
(* Calls that neither subscribe nor start anything.                         *)

\* The call of c is at a place where it owns nothing, before and after.
OwnsNothing(c) ==
  \/ client' = client
  \/ \E r \in ClientRecords :
       r.done = {} /\ r.pc # "spin" /\ client' = [client EXCEPT ![c] = r]

\* State becomes Off only from Off, or because the task is killed.
Harmless(c) ==
  /\ UNCHANGED <<spin, event, subs, killChan, spun>>
  /\ OwnsNothing(c)
  /\ killed => killed'
  /\ state' \in Off => state \in Off \/ killed'

\* A step that touches no ownership.
LEMMA HarmlessKeeps ==
  ASSUME Inv, NEW c \in Clients, Harmless(c)
  PROVE Inv'
<1>1. client \in [Clients -> ClientRecords]
  BY DEF Inv, Types
<1>2. client' \in [Clients -> ClientRecords]
  BY <1>1 DEF Harmless, OwnsNothing
<1>3. \A d \in Clients : client'[d] = client[d] \/ (client'[d].done = {} /\ client'[d].pc # "spin")
  BY <1>1 DEF Harmless, OwnsNothing
<1>4. Types'
  BY <1>2 DEF Inv, Types, Harmless
<1>5. \A m \in Spins : (Alive(m)' <=> Alive(m)) /\ Holds(m)' = Holds(m)
  BY DEF Alive, Holds, Harmless
<1>6. Owners'
  BY <1>3, <1>5 DEF Inv, Owners, Harmless
<1>7. StoppedIsIdle'
  BY <1>5 DEF Inv, StoppedIsIdle, Harmless
<1> QED
  BY <1>4, <1>6, <1>7 DEF Inv

\* A client that does nothing owns nothing.
LEMMA IdleRecord == Idle \in ClientRecords /\ Idle.done = {} /\ Idle.pc = "idle"
BY DEF Idle, ClientRecords

\* Nor does one whose call returns,
LEMMA ReturnOwnsNothing ==
  ASSUME NEW c \in Clients, Return(c)
  PROVE OwnsNothing(c)
BY IdleRecord DEF Return, OwnsNothing

\* or one that has not subscribed yet.
LEMMA GotoOwnsNothing ==
  ASSUME Inv, NEW c \in Clients, NEW pc \in {"start", "startRunning", "subscribe", "stop"},
         client[c].pc \in {"idle", "start", "startRunning"}, Goto(c, pc)
  PROVE OwnsNothing(c)
<1>1. client[c] \in ClientRecords /\ client[c].done = {}
  BY DEF Inv, Types, Owners
<1> DEFINE r == [client[c] EXCEPT !.pc = pc]
<1>2. r \in ClientRecords /\ r.done = {} /\ r.pc # "spin"
  BY <1>1 DEF ClientRecords
<1>3. client' = [client EXCEPT ![c] = r]
  BY DEF Goto, Inv, Types
<1> HIDE DEF r
<1> QED
  BY <1>2, <1>3 DEF OwnsNothing

\* The calls of the scheduler's API up to their unlocked checks, and Stop.
Checks(c) ==
  \/ CreateTask(c) \/ StartTask(c) \/ StopTask(c) \/ Enable(c) \/ RemoveTask(c) \/ Kill(c)
  \/ StartIsDisabled(c) \/ StartIsRunning(c) \/ Stop(c)

\* Checks of the API calls touch no ownership.
LEMMA ChecksHarmless ==
  ASSUME Inv, NEW c \in Clients, Checks(c)
  PROVE Harmless(c)
<1>1. UNCHANGED <<spin, event, subs, killChan, spun>>
  BY DEF Checks, CreateTask, StartTask, StopTask, Enable, RemoveTask, Kill, StartIsDisabled,
         StartIsRunning, Stop, taskVars
<1>2. (killed => killed') /\ (state' \in Off => state \in Off \/ killed')
  BY DEF Checks, CreateTask, StartTask, StopTask, Enable, RemoveTask, Kill, StartIsDisabled,
         StartIsRunning, Stop, taskVars, Off
<1>3. OwnsNothing(c)
  <2>1. CASE client' = client
    BY <2>1 DEF OwnsNothing
  <2>2. CASE Return(c)
    BY <2>2, ReturnOwnsNothing
  <2>3. CASE /\ client[c].pc \in {"idle", "start", "startRunning"}
             /\ \E pc \in {"start", "startRunning", "subscribe", "stop"} : Goto(c, pc)
    BY <2>3, GotoOwnsNothing
  <2> QED
    BY <2>1, <2>2, <2>3, IdleRecord
       DEF Checks, CreateTask, StartTask, StopTask, Enable, RemoveTask, Kill, StartIsDisabled,
           StartIsRunning, Stop
<1> QED
  BY <1>1, <1>2, <1>3 DEF Harmless

-----------------------------------------------------------------------------
(* Subscribing and undoing it.                                              *)

\* SubscribeDeps refuses a node that has an owner.
LEMMA SubscribeKeeps ==
  ASSUME Inv, NEW c \in Clients, Subscribe(c)
  PROVE Inv'
<1>1. client \in [Clients -> ClientRecords] /\ client[c] \in ClientRecords
      /\ UNCHANGED <<spin, event, killChan, spun, state, killed>>
  BY DEF Inv, Types, Subscribe, taskVars
<1>2. \A m \in Spins : (Alive(m)' <=> Alive(m)) /\ Holds(m)' = Holds(m)
  BY <1>1 DEF Alive, Holds
<1>3. StoppedIsIdle'
  BY <1>1, <1>2 DEF Inv, StoppedIsIdle
<1>4. CASE subs' = subs /\ client' = [client EXCEPT ![c].pc = "rollback"]
  <2>1. Types'
    BY <1>1, <1>4 DEF Inv, Types, ClientRecords
  <2>2. \A d \in Clients : client'[d].done = client[d].done
    BY <1>1, <1>4 DEF ClientRecords
  <2>3. \A d \in Clients : client'[d].pc = client[d].pc \/ client'[d].pc = "rollback"
    BY <1>1, <1>4 DEF ClientRecords
  <2>4. Owners'
    BY <1>1, <1>2, <1>4, <2>2, <2>3 DEF Inv, Owners
  <2> QED
    BY <1>3, <2>1, <2>4 DEF Inv
<1>5. ASSUME NEW k \in Groups, k \notin subs, subs' = subs \cup {k},
             client' = [client EXCEPT ![c].done = @ \cup {k},
               ![c].pc = IF client[c].done \cup {k} = Groups THEN "spin" ELSE @]
      PROVE Inv'
  <2>1. client[c].pc = "subscribe"
    BY DEF Subscribe
  <2> DEFINE r == [client[c] EXCEPT !.done = client[c].done \cup {k},
                     !.pc = IF client[c].done \cup {k} = Groups THEN "spin" ELSE "subscribe"]
  <2>2. client' = [client EXCEPT ![c] = r]
    BY <1>1, <1>5, <2>1
  <2>3. /\ r \in ClientRecords /\ r.done = client[c].done \cup {k}
        /\ r.pc = IF r.done = Groups THEN "spin" ELSE "subscribe"
    BY <1>1, <1>5 DEF ClientRecords
  <2> HIDE DEF r
  <2>4. client'[c] = r /\ \A d \in Clients \ {c} : client'[d] = client[d]
    BY <1>1, <2>2
  <2>5. Types'
    BY <1>1, <1>5, <2>2, <2>3 DEF Inv, Types
  <2>6. \A d \in Clients : k \notin client[d].done
    BY <1>5 DEF Inv, Owners
  <2>7. \A n \in Spins : k \notin Holds(n)
    BY <1>5 DEF Inv, Owners
  <2>8. \A d \in Clients : client'[d].done \subseteq subs'
    BY <1>5, <2>3, <2>4 DEF Inv, Owners
  <2>9. \A d, e \in Clients : d # e => client'[d].done \cap client'[e].done = {}
    BY <2>3, <2>4, <2>6 DEF Inv, Owners
  <2>10. \A d \in Clients, n \in Spins : client'[d].done \cap Holds(n) = {}
    BY <2>3, <2>4, <2>7 DEF Inv, Owners
  <2>11. \A d \in Clients :
           /\ client'[d].pc = "spin" => client'[d].done = Groups
           /\ client'[d].pc \notin {"subscribe", "rollback", "spin"} => client'[d].done = {}
    BY <2>3, <2>4 DEF Inv, Owners
  <2>12. /\ \A n \in Spins : Holds(n)' \subseteq subs'
         /\ \A m, n \in Spins : Holds(m)' # {} /\ Holds(n)' # {} => m = n
    BY <1>2, <1>5 DEF Inv, Owners
  <2>13. /\ \A n \in Spins : Alive(n)' => event'[n].pc = "none"
         /\ \A n \in Spins : event'[n].todo = {} <=> event'[n].pc # "unsubscribe"
    BY <1>1, <1>2 DEF Inv, Owners
  <2>14. \A d \in Clients, n \in Spins : client'[d].done \cap Holds(n)' = {}
    BY <1>2, <2>10
  <2>15. Owners'
    BY <2>8, <2>9, <2>11, <2>12, <2>13, <2>14 DEF Owners
  <2> QED
    BY <1>3, <2>5, <2>15 DEF Inv
<1> QED
  BY <1>4, <1>5 DEF Subscribe

\* A start that failed gives up what it has subscribed.
LEMMA RollbackKeeps ==
  ASSUME Inv, NEW c \in Clients, Rollback(c)
  PROVE Inv'
<1>1. client \in [Clients -> ClientRecords] /\ client[c] \in ClientRecords
      /\ UNCHANGED <<spin, event, killChan, spun, state, killed>>
  BY DEF Inv, Types, Rollback, taskVars
<1>2. CASE Return(c) /\ UNCHANGED subs
  BY <1>1, <1>2, ReturnOwnsNothing, HarmlessKeeps DEF Harmless
<1>3. ASSUME NEW k \in client[c].done, subs' = subs \ {k},
             client' = [client EXCEPT ![c].done = @ \ {k}]
      PROVE Inv'
  <2>1. \A m \in Spins : (Alive(m)' <=> Alive(m)) /\ Holds(m)' = Holds(m)
    BY <1>1 DEF Alive, Holds
  <2>2. StoppedIsIdle'
    BY <1>1, <2>1 DEF Inv, StoppedIsIdle
  <2> DEFINE r == [client[c] EXCEPT !.done = client[c].done \ {k}]
  <2>3. client' = [client EXCEPT ![c] = r]
    BY <1>1, <1>3
  <2>4. r \in ClientRecords /\ r.done = client[c].done \ {k} /\ r.pc = "rollback"
    BY <1>1, <1>3 DEF ClientRecords, Rollback
  <2> HIDE DEF r
  <2>5. client'[c] = r /\ \A d \in Clients \ {c} : client'[d] = client[d]
    BY <1>1, <2>3
  <2>6. Types'
    BY <1>1, <1>3, <2>3, <2>4 DEF Inv, Types
  <2>7. /\ \A d \in Clients \ {c} : k \notin client[d].done
        /\ \A n \in Spins : k \notin Holds(n)
    BY <1>3 DEF Inv, Owners
  <2>8. \A d \in Clients : client'[d].done \subseteq subs'
    BY <1>3, <2>4, <2>5, <2>7 DEF Inv, Owners
  <2>9. \A n \in Spins : Holds(n) \subseteq subs'
    BY <1>3, <2>7 DEF Inv, Owners
  <2>10. \A d \in Clients : client'[d].done \subseteq client[d].done
    BY <2>4, <2>5
  <2>11. /\ \A d, e \in Clients : d # e => client'[d].done \cap client'[e].done = {}
         /\ \A d \in Clients, n \in Spins : client'[d].done \cap Holds(n) = {}
    BY <2>10 DEF Inv, Owners
  <2>12. \A d \in Clients :
           /\ client'[d].pc = "spin" => client'[d].done = Groups
           /\ client'[d].pc \notin {"subscribe", "rollback", "spin"} => client'[d].done = {}
    BY <2>4, <2>5 DEF Inv, Owners
  <2>13. /\ \A n \in Spins : Holds(n)' \subseteq subs'
         /\ \A m, n \in Spins : Holds(m)' # {} /\ Holds(n)' # {} => m = n
    BY <2>1, <2>9 DEF Inv, Owners
  <2>14. /\ \A n \in Spins : Alive(n)' => event'[n].pc = "none"
         /\ \A n \in Spins : event'[n].todo = {} <=> event'[n].pc # "unsubscribe"
    BY <1>1, <2>1 DEF Inv, Owners
  <2>15. \A d \in Clients, n \in Spins : client'[d].done \cap Holds(n)' = {}
    BY <2>1, <2>11
  <2>16. Owners'
    BY <2>8, <2>11, <2>12, <2>13, <2>14, <2>15 DEF Owners
  <2> QED
    BY <2>2, <2>6, <2>16 DEF Inv
<1> QED
  BY <1>2, <1>3 DEF Rollback

-----------------------------------------------------------------------------
(* A goroutine starts, returns, and is cleaned up after.                    *)

\* A call that owns every node is alone: nobody else has anything left to do.
LEMMA SpinKeeps ==
  ASSUME Inv, NEW c \in Clients, Spin(c)
  PROVE Inv'
<1>1. /\ client \in [Clients -> ClientRecords]
      /\ spin \in [Spins -> SpinRecords]
      /\ client' = [client EXCEPT ![c] = Idle]
      /\ UNCHANGED <<event, subs, killed>>
  BY DEF Inv, Types, Spin, Return
<1>2. CASE UNCHANGED <<state, spun, killChan, spin>>
  BY <1>1, <1>2, ReturnOwnsNothing, HarmlessKeeps DEF Harmless, Spin
<1>3. CASE /\ state' = "Spinning"
           /\ spun' = spun + 1
           /\ killChan' = spun + 1
           /\ spin' = [spin EXCEPT ![spun + 1] =
                         [pc |-> IF isStream THEN "connect" ELSE "loop",
                          chan |-> 0, fails |-> 0]]
  <2> DEFINE s == spun + 1
             p == IF isStream THEN "connect" ELSE "loop"
             r == [pc |-> p, chan |-> 0, fails |-> 0]
  <2>1. s \in Nat
    BY DEF Inv, Types
  <2>2. p \in {"connect", "loop"}
    OBVIOUS
  <2>3. r \in SpinRecords /\ r.pc # "gone"
    <3> HIDE DEF p
    <3> QED
      BY <2>2 DEF SpinRecords
  <2>4. spin' = [spin EXCEPT ![s] = r]
    BY <1>3
  <2> HIDE DEF r, s
  <2>5. client[c].done = Groups /\ subs = Groups
    BY DEF Inv, Owners, Types, Spin
  <2>6. \A n \in Spins : Holds(n) = {}
    BY <2>5 DEF Inv, Owners
  <2>7. \A n \in Spins : ~Alive(n) /\ event[n].pc = "none" /\ event[n].todo = {}
    <3> TAKE n \in Spins
    <3>1. ~Alive(n) /\ event[n].pc # "emitted" /\ event[n].todo = {}
      BY <2>6, GroupsAssumption DEF Holds
    <3>2. event[n].pc # "unsubscribe" /\ event[n] \in EventRecords
      BY <3>1 DEF Inv, Owners, Types
    <3> QED
      BY <3>1, <3>2 DEF EventRecords
  <2>8. \A d \in Clients : client'[d].done = {} /\ client'[d].pc # "spin"
    <3> TAKE d \in Clients
    <3>1. CASE d = c
      BY <1>1, <3>1, IdleRecord
    <3>2. CASE d # c
      <4>1. client'[d] = client[d] /\ client[d] \in ClientRecords
        BY <1>1, <3>2
      <4>2. client[d].done = {}
        BY <2>5, <3>2, <4>1 DEF Inv, Owners, ClientRecords
      <4>3. client[d].pc # "spin"
        BY <4>2, GroupsAssumption DEF Inv, Owners
      <4> QED
        BY <4>1, <4>2, <4>3
    <3> QED
      BY <3>1, <3>2
  <2>9. Types'
    BY <1>1, <1>3, <2>1, <2>3, <2>4, IdleRecord DEF Inv, Types, s
  <2>10. \A n \in Spins : Holds(n)' \subseteq Groups /\ (n # s => Holds(n)' = {})
    BY <1>1, <2>4, <2>7 DEF Holds, Alive
  <2>11. Owners'
    BY <1>1, <2>5, <2>7, <2>8, <2>10 DEF Owners
  <2>12. StoppedIsIdle'
    BY <1>3 DEF StoppedIsIdle, Off
  <2> QED
    BY <2>9, <2>11, <2>12 DEF Inv
<1> QED
  BY <1>2, <1>3 DEF Spin

\* The n-th start hands what it owns on to the handler of its event, which gives
\* up the nodes D.
HandsOn(n, e, D) ==
  /\ e \in EventRecords /\ D \subseteq Holds(n) /\ Holds(n) # {}
  /\ event' = [event EXCEPT ![n] = e]
  /\ \E r \in SpinRecords : r.pc = "gone" /\ spin' = [spin EXCEPT ![n] = r]
  /\ subs' = subs \ D
  /\ (IF e.pc = "emitted" THEN Groups ELSE e.todo) = Holds(n) \ D
  /\ e.todo = {} <=> e.pc # "unsubscribe"
  /\ UNCHANGED <<killChan, spun, client, killed>>

\* A goroutine hands its nodes on to an event.
LEMMA HandsOnKeeps ==
  ASSUME Inv, NEW n \in Spins, NEW e, NEW D, HandsOn(n, e, D)
  PROVE Inv'
<1>1. spin \in [Spins -> SpinRecords] /\ event \in [Spins -> EventRecords]
  BY DEF Inv, Types
<1>2. Types'
  BY <1>1 DEF Inv, Types, HandsOn
<1>3. \A m \in Spins \ {n} : Holds(m) = {} /\ ~Alive(m)
  BY GroupsAssumption DEF Inv, Owners, HandsOn, Holds
<1>4. ~Alive(n)' /\ event'[n] = e
  BY <1>1 DEF Alive, HandsOn
<1>5. Holds(n)' = Holds(n) \ D
  BY <1>4 DEF Holds, HandsOn
<1>6. \A m \in Spins \ {n} : Holds(m)' = {} /\ ~Alive(m)' /\ event'[m] = event[m]
  BY <1>1, <1>3 DEF Holds, Alive, HandsOn
<1>7. \A m \in Spins : ~Alive(m)'
  BY <1>4, <1>6
<1>8. \A m \in Spins : Holds(m)' \subseteq subs' /\ Holds(m)' \subseteq Holds(m)
  BY <1>5, <1>6 DEF Inv, Owners, HandsOn
<1>9. \A m \in Spins : event'[m].todo = {} <=> event'[m].pc # "unsubscribe"
  BY <1>4, <1>6 DEF Inv, Owners, HandsOn
<1>10. \A c \in Clients : client[c].done \cap D = {}
  BY DEF Inv, Owners, HandsOn
<1>11. \A c \in Clients : client[c].done \subseteq subs'
  BY <1>10 DEF Inv, Owners, HandsOn
<1>12. \A m, o \in Spins : Holds(m)' # {} /\ Holds(o)' # {} => m = o
  BY <1>6
<1>13. \A c \in Clients, m \in Spins : client[c].done \cap Holds(m)' = {}
  BY <1>8 DEF Inv, Owners
<1>14. Owners'
  <2>1. UNCHANGED client
    BY DEF HandsOn
  <2>2. /\ \A c \in Clients : client[c].pc = "spin" => client[c].done = Groups
        /\ \A c \in Clients :
             client[c].pc \notin {"subscribe", "rollback", "spin"} => client[c].done = {}
        /\ \A c, d \in Clients : c # d => client[c].done \cap client[d].done = {}
    BY DEF Inv, Owners
  <2> QED
    BY <1>7, <1>8, <1>9, <1>11, <1>12, <1>13, <2>1, <2>2 DEF Owners
<1>15. StoppedIsIdle'
  BY <1>7 DEF StoppedIsIdle
<1> QED
  BY <1>2, <1>14, <1>15 DEF Inv

\* A goroutine that returns does.
LEMMA SpinReturnsKeeps ==
  ASSUME Inv, NEW n \in Spins, SpinReturns(n)
  PROVE Inv'
<1> DEFINE e == [event[n] EXCEPT !.pc = "emitted"]
<1>1. Alive(n) /\ event[n] \in EventRecords /\ event \in [Spins -> EventRecords]
  BY DEF SpinReturns, FinalState, Alive, Inv, Types
<1>2. Holds(n) = Groups /\ event[n].todo = {}
  BY <1>1 DEF Holds, Inv, Owners
<1>3. e \in EventRecords /\ e.pc = "emitted" /\ e.todo = {}
  BY <1>1, <1>2 DEF EventRecords
<1>4. event' = [event EXCEPT ![n] = e]
  BY <1>1 DEF SpinReturns
<1> HIDE DEF e
<1>5. Gone \in SpinRecords /\ Gone.pc = "gone" /\ spin' = [spin EXCEPT ![n] = Gone]
  BY DEF SpinReturns, Gone, SpinRecords
<1>6. HandsOn(n, e, {})
  BY <1>2, <1>3, <1>4, <1>5, GroupsAssumption DEF HandsOn, SpinReturns
<1> QED
  BY <1>6, HandsOnKeeps

\* What leaves goroutines, events and clients alone keeps the invariant.
LEMMA SameKeeps ==
  ASSUME Inv, UNCHANGED <<spin, event, client, subs, killChan, spun, state, killed>>
  PROVE Inv'
<1>1. Types'
  BY DEF Inv, Types
<1>2. \A n \in Spins : (Alive(n)' <=> Alive(n)) /\ Holds(n)' = Holds(n)
  BY DEF Alive, Holds
<1>3. Owners'
  BY <1>2 DEF Inv, Owners
<1>4. StoppedIsIdle'
  BY <1>2 DEF Inv, StoppedIsIdle
<1> QED
  BY <1>1, <1>3, <1>4 DEF Inv

\* The handler of the event takes them over.
LEMMA HandleEventKeeps ==
  ASSUME Inv, NEW n \in Spins, HandleEvent(n)
  PROVE Inv'
<1> DEFINE e == [pc |-> "unsubscribe", todo |-> Groups]
<1>1. CASE UNCHANGED event
  BY <1>1, SameKeeps DEF HandleEvent, taskVars
<1>2. CASE event' = [event EXCEPT ![n] = e]
  <2>1. ~Alive(n) /\ Holds(n) = Groups
    BY DEF HandleEvent, Inv, Owners, Holds
  <2>2. spin[n] \in SpinRecords /\ spin[n].pc = "gone" /\ spin = [spin EXCEPT ![n] = spin[n]]
    BY <2>1 DEF Alive, Inv, Types
  <2>3. e \in EventRecords /\ e.pc = "unsubscribe" /\ e.todo = Groups
    BY DEF EventRecords
  <2> HIDE DEF e
  <2>4. HandsOn(n, e, {})
    BY <1>2, <2>1, <2>2, <2>3, GroupsAssumption DEF HandsOn, HandleEvent, taskVars
  <2> QED
    BY <2>4, HandsOnKeeps
<1> QED
  BY <1>1, <1>2 DEF HandleEvent

\* It gives them up one by one.
LEMMA UnsubscribeKeeps ==
  ASSUME Inv, NEW n \in Spins, Unsubscribe(n)
  PROVE Inv'
<1>1. PICK k \in event[n].todo :
        /\ subs' = subs \ {k}
        /\ event' = [event EXCEPT ![n] =
             IF @.todo = {k} THEN NoEvent
             ELSE [pc |-> "unsubscribe", todo |-> @.todo \ {k}]]
  BY DEF Unsubscribe
<1> DEFINE e == IF event[n].todo = {k} THEN NoEvent
                ELSE [pc |-> "unsubscribe", todo |-> event[n].todo \ {k}]
<1>2. event[n].pc = "unsubscribe" /\ event[n] \in EventRecords
  BY DEF Unsubscribe, Inv, Types
<1>3. ~Alive(n) /\ Holds(n) = event[n].todo
  BY <1>2 DEF Inv, Owners, Holds
<1>4. spin[n] \in SpinRecords /\ spin[n].pc = "gone" /\ spin = [spin EXCEPT ![n] = spin[n]]
  BY <1>3 DEF Alive, Inv, Types
<1>5. /\ e \in EventRecords /\ e.pc # "emitted" /\ e.todo = event[n].todo \ {k}
      /\ e.todo = {} <=> e.pc # "unsubscribe"
  <2>1. CASE event[n].todo = {k}
    BY <2>1 DEF EventRecords, NoEvent
  <2>2. CASE event[n].todo # {k}
    <3>1. event[n].todo \ {k} # {}
      BY <1>1, <2>2
    <3>2. event[n].todo \ {k} \in SUBSET Groups
      BY <1>2 DEF EventRecords
    <3> QED
      BY <1>2, <2>2, <3>1, <3>2 DEF EventRecords
  <2> QED
    BY <2>1, <2>2
<1>6. event' = [event EXCEPT ![n] = e]
  <2>1. event \in [Spins -> EventRecords]
    BY DEF Inv, Types
  <2>2. CASE event[n].todo = {k}
    BY <1>1, <2>1, <2>2
  <2>3. CASE event[n].todo # {k}
    BY <1>1, <2>1, <2>3
  <2> QED
    BY <2>2, <2>3
<1> HIDE DEF e
<1>7. HandsOn(n, e, {k})
  <2>1. UNCHANGED <<spin, killChan, spun, client, killed>>
    BY DEF Unsubscribe, taskVars
  <2>2. \E r \in SpinRecords : r.pc = "gone" /\ spin' = [spin EXCEPT ![n] = r]
    BY <1>4, <2>1
  <2>3. {k} \subseteq Holds(n) /\ Holds(n) # {}
    BY <1>1, <1>3
  <2>4. (IF e.pc = "emitted" THEN Groups ELSE e.todo) = Holds(n) \ {k}
    BY <1>3, <1>5
  <2> QED
    BY <1>1, <1>5, <1>6, <2>1, <2>2, <2>3, <2>4 DEF HandsOn
<1> QED
  BY <1>7, HandsOnKeeps

-----------------------------------------------------------------------------
(* The invariant.                                                           *)

\* At first nobody owns a node.
LEMMA InitInv == Init => Inv
<1> SUFFICES ASSUME Init PROVE Inv
  OBVIOUS
<1>1. Gone \in SpinRecords /\ NoEvent \in EventRecords
  BY DEF Gone, NoEvent, SpinRecords, EventRecords
<1>2. Types
  BY <1>1, IdleRecord DEF Init, Types
<1>3. \A n \in Spins : ~Alive(n) /\ Holds(n) = {}
  BY DEF Init, Alive, Holds, Gone, NoEvent
<1>4. \A n \in Spins : event[n].pc = "none" /\ event[n].todo = {}
  BY DEF Init, NoEvent
<1>5. \A c \in Clients : client[c].done = {} /\ client[c].pc = "idle"
  BY IdleRecord DEF Init
<1>6. Owners
  BY <1>3, <1>4, <1>5 DEF Owners
<1> QED
  BY <1>2, <1>3, <1>6 DEF Inv, StoppedIsIdle

\* Every step keeps the invariant.
LEMMA NextInv == Inv /\ [Next]_vars => Inv'
<1> SUFFICES ASSUME Inv, [Next]_vars PROVE Inv'
  OBVIOUS
<1>1. ASSUME NEW c \in Clients, Call(c) \/ InCall(c)
      PROVE Inv'
  BY <1>1, ChecksHarmless, HarmlessKeeps, SubscribeKeeps, RollbackKeeps, SpinKeeps
     DEF Call, InCall, Checks
<1>2. ASSUME NEW n \in Spins, SpinStep(n) \/ ScheduleResponse(n) \/ Listen(n) \/ KillReceived(n)
      PROVE Inv'
  BY <1>2, ContinuesGoesOn, GoesOnKeeps, SpinReturnsKeeps DEF SpinStep, Continues, Inv
<1>3. ASSUME NEW n \in Spins, EventStep(n)
      PROVE Inv'
  BY <1>3, HandleEventKeeps, UnsubscribeKeeps DEF EventStep
<1>4. CASE Waiter
  BY <1>4, SameKeeps DEF Waiter, WaiterStart, WaiterKilled
<1>5. CASE UNCHANGED vars
  BY <1>5, SameKeeps DEF vars, taskVars
<1> QED
  BY <1>1, <1>2, <1>3, <1>4, <1>5 DEF Next, Step

\* It always holds.
LEMMA InvHolds == Spec => []Inv
BY InitInv, NextInv, PTL DEF Spec

-----------------------------------------------------------------------------
(* The theorems.                                                            *)

\* No two starts of a task are alive together, though startTask checks the state
\* long before Spin sets it and Spin starts a streaming task whatever its state
\* (scheduler.go:535, task.go:239): both would own the same nodes.
THEOREM StartsSafe == Spec => []OneSpin
<1>1. Inv => OneSpin
  BY GroupsAssumption DEF Inv, Owners, OneSpin, Holds
<1> QED
  BY <1>1, InvHolds, PTL

\* A task that runs is subscribed on every node it needs: no unsubscribing
\* handler of an earlier start and no rollback of another takes a node from it
\* (task.go:400, scheduler.go:807).
THEOREM SubscriptionsSafe == Spec => []RunningIsSubscribed
<1>1. Inv => RunningIsSubscribed
  BY DEF Inv, Types, Owners, RunningIsSubscribed, Holds
<1> QED
  BY <1>1, InvHolds, PTL

\* A task that says it is stopped, ended or disabled has no goroutine left to
\* fire it, until scheduler.Stop kills it (task.go:463-538).
THEOREM StopsSafe == Spec => []StoppedIsIdle
<1>1. Inv => StoppedIsIdle
  BY DEF Inv
<1> QED
  BY <1>1, InvHolds, PTL
-----------------------------------------------------------------------------
(* Somebody waits for the schedule.                                         *)

\* A goroutine that is alive is that of the last start, whose kill channel is
\* the task's, so the waiter it started reads the channel it selects on.
\* Waiters of earlier starts read channels that are closed.
ChannelInv ==
  /\ waiting \in [0..MaxStarts -> Nat]
  /\ \A n \in Spins : Alive(n) => killChan = n /\ spun = n
  /\ \A n \in Spins : spin[n].pc = "select" => spin[n].chan = n
  /\ SpinHasWaiter

\* What touches neither goroutines, channels nor waiters.
LEMMA SameChannels ==
  ASSUME ChannelInv, UNCHANGED <<spin, killChan, spun, waiting>>, closed \subseteq closed'
  PROVE  ChannelInv'
BY DEF ChannelInv, SpinHasWaiter, Alive

\* A goroutine moves and does not come to its select.
LEMMA MovesOn ==
  ASSUME Types, ChannelInv, NEW n \in Spins, Alive(n), spin' \in [Spins -> SpinRecords],
         \A m \in Spins \ {n} : spin'[m] = spin[m], spin'[n].pc # "select",
         UNCHANGED <<killChan, spun, closed>>, waiting' \in [0..MaxStarts -> Nat],
         \A m \in Spins \ {n} : ~Alive(m)
  PROVE  ChannelInv'
BY DEF ChannelInv, SpinHasWaiter, Alive

\* A start makes a new channel when no goroutine is alive: the call owns all nodes.
LEMMA SpinKeepsChannels ==
  ASSUME Inv, ChannelInv, NEW c \in Clients, Spin(c)
  PROVE  ChannelInv'
<1>1. CASE UNCHANGED <<state, spun, killChan, spin>>
  BY <1>1, SameChannels DEF Spin
<1>2. CASE ~UNCHANGED <<state, spun, killChan, spin>>
  <2>1. \A n \in Spins : ~Alive(n)
    <3>1. client[c].done = Groups
      BY DEF Inv, Owners, Spin
    <3> QED
      BY <3>1, GroupsAssumption DEF Inv, Owners, Holds
  <2>2. \A n \in Spins : n # spun + 1 => ~Alive(n)' /\ spin'[n].pc # "select"
    BY <1>2, <2>1 DEF Spin, Alive, Inv, Types
  <2>3. \A n \in Spins : n = spun + 1 => spin'[n].pc # "select"
    BY <1>2 DEF Spin, Inv, Types
  <2>4. killChan' = spun + 1 /\ spun' = spun + 1 /\ waiting' = waiting
    BY <1>2 DEF Spin
  <2> QED
    BY <2>2, <2>3, <2>4 DEF ChannelInv, SpinHasWaiter
<1> QED
  BY <1>1, <1>2

\* spin() comes to its select with a waiter of its own, and of all goroutines it
\* is the only one.
LEMMA SpinLoopKeepsChannels ==
  ASSUME Inv, ChannelInv, NEW n \in Spins, SpinLoop(n)
  PROVE  ChannelInv'
<1>1. Alive(n) /\ killChan = n /\ spun = n
  BY DEF SpinLoop, Alive, ChannelInv
<1>2. \A m \in Spins \ {n} : ~Alive(m) /\ spin[m].pc = "gone"
  BY <1>1, GroupsAssumption DEF Inv, Owners, Holds, Alive
<1>3. \A m \in Spins \ {n} : spin'[m] = spin[m]
  BY DEF SpinLoop, Inv, Types
<1>4. spin'[n].chan = n /\ spin'[n].pc = "select"
  BY <1>1 DEF SpinLoop, Inv, Types, SpinRecords
<1>5. waiting' \in [0..MaxStarts -> Nat] /\ waiting'[0] = waiting[0] + 1 /\ waiting'[n] = waiting[n]
      /\ waiting[0] \in Nat /\ waiting[n] \in Nat
  BY StartsAssumption DEF SpinLoop, ChannelInv, Spins
<1>6. UNCHANGED <<killChan, spun, closed>>
  BY DEF SpinLoop
<1>7. SpinHasWaiter'
  BY <1>2, <1>3, <1>4, <1>5 DEF SpinHasWaiter
<1> QED
  BY <1>1, <1>2, <1>3, <1>4, <1>5, <1>6, <1>7 DEF ChannelInv, Alive

\* A waiter that begins to wait reads the channel of the goroutine that is alive;
\* one that is killed read a closed channel.
LEMMA WaiterKeepsChannels ==
  ASSUME Inv, ChannelInv, Waiter
  PROVE  ChannelInv'
<1>1. UNCHANGED <<spin, killChan, spun, closed>>
  BY DEF Waiter, WaiterStart, WaiterKilled
<1>2. waiting \in [0..MaxStarts -> Nat] /\ 0 \in 0..MaxStarts /\ Spins \subseteq 0..MaxStarts
      /\ 0 \notin Spins
  BY StartsAssumption DEF ChannelInv, Spins
<1>3. killChan \in Nat
  BY DEF Inv, Types
<1>4. CASE WaiterStart
  <2>1. waiting' = [waiting EXCEPT ![0] = @ - 1, ![killChan] = @ + 1] /\ waiting[0] > 0
    BY <1>4 DEF WaiterStart
  <2>2. waiting' \in [0..MaxStarts -> Nat]
    <3> DEFINE w == [waiting EXCEPT ![0] = @ - 1, ![killChan] = @ + 1]
    <3>1. ASSUME NEW i \in 0..MaxStarts PROVE w[i] \in Nat
      BY <1>2, <1>3, <2>1
    <3>2. w = [i \in 0..MaxStarts |-> w[i]]
      BY <1>2
    <3> HIDE DEF w
    <3>3. w \in [0..MaxStarts -> Nat]
      BY <3>1, <3>2
    <3> QED
      BY <2>1, <3>3 DEF w
  <2>3. ASSUME NEW n \in Spins, spin[n].pc = "select", n \notin closed
        PROVE  waiting'[0] + waiting'[n] > 0
    <3>1. killChan = n /\ n # 0 /\ waiting[n] \in Nat /\ waiting[0] \in Nat
      BY <1>2, <2>3 DEF ChannelInv, Alive
    <3>2. waiting'[0] = waiting[0] - 1 /\ waiting'[n] = waiting[n] + 1
      BY <1>2, <2>1, <3>1
    <3> QED
      BY <2>1, <3>1, <3>2
  <2> QED
    BY <1>1, <2>2, <2>3 DEF ChannelInv, SpinHasWaiter, Alive
<1>5. ASSUME NEW h \in Spins, WaiterKilled(h) PROVE ChannelInv'
  <2>1. waiting' = [waiting EXCEPT ![h] = @ - 1] /\ waiting[h] > 0 /\ h \in closed
    BY <1>5 DEF WaiterKilled
  <2>2. waiting' \in [0..MaxStarts -> Nat]
    BY <1>2, <2>1
  <2>3. waiting'[0] = waiting[0] /\ \A n \in Spins : n \notin closed => waiting'[n] = waiting[n]
    BY <1>2, <2>1
  <2>4. SpinHasWaiter'
    BY <1>1, <2>3 DEF ChannelInv, SpinHasWaiter
  <2> QED
    BY <1>1, <2>2, <2>4 DEF ChannelInv, Alive
<1> QED
  BY <1>4, <1>5 DEF Waiter

\* The other steps of a goroutine leave its select, or do not come to it.
LEMMA SpinStepKeepsChannels ==
  ASSUME Inv, Inv', ChannelInv, NEW n \in Spins,
         \/ Fire(n) \/ FireReturns(n) \/ SpinReturns(n) \/ Connect(n) \/ ListenLoop(n)
         \/ ScheduleResponse(n) \/ Listen(n) \/ KillReceived(n)
  PROVE  ChannelInv'
<1>1. Alive(n) /\ UNCHANGED <<killChan, spun, closed>>
  BY DEF Fire, FireReturns, SpinReturns, Connect, ListenLoop, ScheduleResponse, Listen,
         KillReceived, Alive, FinalState
<1>2. spin \in [Spins -> SpinRecords] /\ spin' \in [Spins -> SpinRecords] /\ Types
  BY DEF Inv, Types
<1>3. \A m \in Spins \ {n} : ~Alive(m)
  BY <1>1, GroupsAssumption DEF Inv, Owners, Holds
<1>4. waiting' \in [0..MaxStarts -> Nat]
  <2>1. CASE UNCHANGED waiting
    BY <2>1 DEF ChannelInv
  <2>2. ASSUME NEW h \in Spins, waiting[h] > 0, waiting' = [waiting EXCEPT ![h] = @ - 1]
        PROVE  waiting' \in [0..MaxStarts -> Nat]
    BY <2>2, StartsAssumption DEF ChannelInv, Spins
  <2> QED
    BY <2>1, <2>2 DEF Fire, FireReturns, SpinReturns, Connect, ListenLoop,
      ScheduleResponse, Listen, KillReceived
<1>5. spin'[n].pc # "select" /\ \A m \in Spins \ {n} : spin'[m] = spin[m]
  <2>1. CASE Fire(n) \/ ScheduleResponse(n) \/ KillReceived(n) \/ ListenLoop(n)
    BY <1>2, <2>1 DEF Fire, ScheduleResponse, KillReceived, ListenLoop, SpinTo, SpinRecords
  <2>2. CASE SpinReturns(n)
    BY <1>2, <2>2 DEF SpinReturns, Gone
  <2>3. ASSUME NEW fails, NEW pc \in {"loop", "connect", "listenLoop"}, AfterFailures(n, fails, pc)
        PROVE  spin'[n].pc # "select" /\ \A m \in Spins \ {n} : spin'[m] = spin[m]
    BY <1>2, <2>3 DEF AfterFailures, SpinRecords
  <2>4. CASE FireReturns(n)
    BY <2>3, <2>4 DEF FireReturns
  <2>5. CASE \/ spin' = [spin EXCEPT ![n].pc = "listenLoop", ![n].fails = 0]
             \/ spin' = [spin EXCEPT ![n].pc = "listenLoop"]
    BY <1>2, <2>5 DEF SpinRecords
  <2>6. CASE Connect(n) \/ Listen(n)
    BY <2>3, <2>5, <2>6 DEF Connect, Listen
  <2> QED
    BY <2>1, <2>2, <2>4, <2>6
<1> QED
  BY <1>1, <1>2, <1>3, <1>4, <1>5, MovesOn

\* Every step leaves a goroutine in its select with a waiter of its own.
LEMMA ChannelStep == Inv /\ Inv' /\ ChannelInv /\ [Next]_vars => ChannelInv'
<1> SUFFICES ASSUME Inv, Inv', ChannelInv, [Next]_vars PROVE ChannelInv'
  OBVIOUS
<1>1. ASSUME NEW c \in Clients, Call(c) PROVE ChannelInv'
  <2>1. UNCHANGED <<spin, killChan, spun, waiting>> /\ closed \subseteq closed'
    BY <1>1 DEF Call, CreateTask, StartTask, StopTask, Enable, RemoveTask, Kill,
      CloseKillChan, taskVars
  <2> QED
    BY <2>1, SameChannels
<1>2. ASSUME NEW c \in Clients, InCall(c) PROVE ChannelInv'
  <2>1. CASE Spin(c)
    BY <2>1, SpinKeepsChannels
  <2>2. CASE ~Spin(c)
    <3>1. UNCHANGED <<spin, killChan, spun, waiting>> /\ closed \subseteq closed'
      BY <1>2, <2>2 DEF InCall, StartIsDisabled, StartIsRunning, Subscribe, Rollback, Stop,
        CloseKillChan, taskVars
    <3> QED
      BY <3>1, SameChannels
  <2> QED
    BY <2>1, <2>2
<1>3. ASSUME NEW n \in Spins, SpinStep(n) \/ ScheduleResponse(n) \/ Listen(n) \/ KillReceived(n)
      PROVE ChannelInv'
  BY <1>3, SpinLoopKeepsChannels, SpinStepKeepsChannels DEF SpinStep
<1>4. ASSUME NEW n \in Spins, EventStep(n) PROVE ChannelInv'
  BY <1>4, SameChannels DEF EventStep, HandleEvent, Unsubscribe, taskVars
<1>5. CASE Waiter
  BY <1>5, WaiterKeepsChannels
<1>6. CASE UNCHANGED vars
  BY <1>6, SameChannels DEF vars
<1> QED
  BY <1>1, <1>2, <1>3, <1>4, <1>5, <1>6 DEF Next, Step

\* The spin goroutine never waits for a schedule that nobody waits on: a waiter
\* reads t.killChan late, but no start changes it while the goroutine that
\* started the waiter is alive (task.go:468, 564).
THEOREM WaitsSafe == Spec => []SpinHasWaiter
<1>1. Init => ChannelInv
  BY StartsAssumption DEF Init, ChannelInv, SpinHasWaiter, Alive, Gone
<1>2. ChannelInv => SpinHasWaiter
  BY DEF ChannelInv
<1> QED
  BY <1>1, <1>2, ChannelStep, InvHolds, PTL DEF Spec
=============================================================================
