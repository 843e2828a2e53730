------------------------------ MODULE Joining ------------------------------
(***************************************************************************)
(* A daemon, Home, joins an agreement of the tribe that has a task.  It has*)
(* to find out whether the other members run the task: it gossips a query, *)
(* the members answer it by UDP, a timer ends it, and a worker creates a   *)
(* copy of the task that is started or not (mgmt/tribe/tribe.go, query.go, *)
(* delegate.go, worker/worker.go).                                         *)
(*                                                                         *)
(* Meanwhile users change the agreement through Home's REST API, whose     *)
(* handlers test without the mutex and act with it, and start and stop the *)
(* task.  Module Tribe has the messages of all nodes, Fleet the spread of  *)
(* starts and stops; here a change of the task reaches each member of the  *)
(* agreement in one step of its own, and members leave without further ado.*)
(* The agreement has no plugins.                                           *)
(***************************************************************************)
EXTENDS Integers, FiniteSets

CONSTANTS
  Home, Members,  \* Members: the other nodes
  Leavers,        \* bound: those of them that may leave the agreement
  MaxRequests,    \* bound: requests about the agreement
  MaxOpen,        \* bound: those of them in progress at a time
  MaxQueries,     \* bound: queries, at most one for each join
  MaxChanges      \* bound: starts and stops of the task

ASSUME BoundsAssumption ==
  /\ Home \notin Members /\ Leavers \subseteq Members
  /\ MaxRequests \in Nat /\ MaxOpen \in Nat /\ MaxQueries \in Nat /\ MaxChanges \in Nat

Nodes == Members \cup {Home}
Queries == 1..MaxQueries

VARIABLES
  view,    \* what Home knows of the agreement
  reqs,    \* REST requests that have passed their tests
  made,    \* how many requests there have been
  crash,   \* why Home's process has ended, if it has
  member,  \* the other nodes that belong to the agreement
  task,    \* the state of the task on every node
  wanted,  \* the state users have asked for last
  behind,  \* nodes that have not heard of it
  changes,
  q        \* the queries

vars == <<view, reqs, made, crash, member, task, wanted, behind, changes, q>>
agreement == <<view, reqs, made>>
tasks == <<member, task, wanted, behind, changes>>

\* listed: the agreement's Members.  points: Home's own record names the
\* agreement, also when it has been deleted.  Two histories: deleted, a delete
\* was the last to change whether it exists; doubled, an add found it there.
View(exists) ==
  [exists |-> exists, tasks |-> exists, listed |-> IF exists THEN Members ELSE {},
   points |-> FALSE, adds |-> 0, joins |-> 0, asks |-> 0,
   deleted |-> FALSE, doubled |-> FALSE]

\* open: registered; closed: its channel; heard: nodes that have handled it and
\* pass it on; found: answers that NotifyMsg has looked up and not taken yet;
\* sent, from: the answers sent and taken.  Histories: mixed, the task changed
\* meanwhile; crossed, an answer was looked up when the timer fired.
NoQuery ==
  [at |-> "none", open |-> FALSE, closed |-> FALSE, heard |-> {}, sent |-> {},
   found |-> {}, from |-> {}, start |-> FALSE, mixed |-> FALSE, crossed |-> FALSE]

Init ==
  /\ \E exists \in BOOLEAN :
       /\ view = View(exists)
       /\ member = IF exists THEN Members ELSE {}
  /\ reqs = {} /\ made = 0 /\ crash = "no"
  /\ wanted \in {"spinning", "stopped"}
  /\ task = [n \in Nodes |-> IF n = Home THEN "none" ELSE wanted]
  /\ behind = {} /\ changes = 0
  /\ q = [i \in Queries |-> NoQuery]

Up == crash = "no"

-----------------------------------------------------------------------------
(* The agreement at Home.                                                   *)

\* joinAgreement, of Home itself: its goroutine asks for the task's state.
Join(v) ==
  [v EXCEPT !.points = TRUE, !.listed = @ \cup {Home},
            !.asks = IF v.tasks THEN @ + 1 ELSE @]

\* Adds that found the agreement wait as intents, and joins that did not.  After
\* any change of the agreement one add is applied if it is not there, and then
\* every join.
processIntents(v) ==
  LET added == IF v.adds > 0 /\ ~v.exists
               THEN [v EXCEPT !.adds = @ - 1, !.exists = TRUE] ELSE v
  IN IF added.joins > 0 /\ added.exists
     THEN [Join(added) EXCEPT !.joins = 0,
                              !.asks = added.asks + IF added.tasks THEN added.joins ELSE 0]
     ELSE added

\* Mutant: the intent is kept also when the agreement is added.
AddAgreementTwice(v) ==
  IF v.exists THEN [v EXCEPT !.adds = @ + 1, !.doubled = TRUE]
  ELSE processIntents([v EXCEPT !.adds = @ + 1, !.exists = TRUE, !.deleted = FALSE])

handleAddAgreement(v) ==
  IF v.exists THEN [v EXCEPT !.adds = @ + 1, !.doubled = TRUE]
  ELSE processIntents([v EXCEPT !.exists = TRUE, !.deleted = FALSE])

\* Home's own record goes on naming the agreement.
handleRemoveAgreement(v) ==
  IF ~v.exists THEN v
  ELSE processIntents([v EXCEPT !.exists = FALSE, !.tasks = FALSE, !.listed = {},
                                !.deleted = TRUE])

handleJoinAgreement(v) ==
  IF ~v.exists THEN [v EXCEPT !.joins = @ + 1] ELSE processIntents(Join(v))

\* A leave that does not apply becomes an intent that is never looked at.
canLeaveAgreement(v) == v.exists /\ v.points
handleLeaveAgreement(v) ==
  IF ~canLeaveAgreement(v) THEN v
  ELSE processIntents([v EXCEPT !.points = FALSE, !.listed = @ \ {Home}])

\* taskStateQuery: registered, then gossiped.
Asked(asks) ==
  [i \in Queries |->
     IF q[i].at = "none" /\ i <= asks
     THEN [q[i] EXCEPT !.at = "asked", !.open = TRUE, !.mixed = behind # {}]
     ELSE q[i]]

-----------------------------------------------------------------------------
(* The REST API: a request is tested without the mutex, and handled with it. *)

\* Refused at once, or taken on under a free number.
Begin(op, allowed) ==
  LET free == 1..MaxOpen \ {r.id : r \in reqs}
      taken == [id |-> CHOOSE k \in free : TRUE, op |-> op]
  IN /\ Up /\ made < MaxRequests /\ free # {}
     /\ made' = made + 1
     /\ reqs' = IF allowed THEN reqs \cup {taken} ELSE reqs
     /\ UNCHANGED <<view, crash, tasks, q>>

\* A body that cannot be read is refused before anything is looked at.
addAgreement == \E valid \in BOOLEAN : Begin("add", valid /\ ~view.exists)
deleteAgreement == Begin("delete", view.exists)
joinAgreement == \E valid \in BOOLEAN : Begin("join", valid /\ view.exists)
leaveAgreement == \E valid \in BOOLEAN : Begin("leave", valid /\ canLeaveAgreement(view))

Handle(r) ==
  LET v == CASE r.op = "add" -> handleAddAgreement(view)
             [] r.op = "delete" -> handleRemoveAgreement(view)
             [] r.op = "join" -> handleJoinAgreement(view)
             [] r.op = "leave" -> handleLeaveAgreement(view)
  IN /\ Up /\ v.asks <= MaxQueries
     /\ view' = v
     /\ q' = Asked(v.asks)
     /\ reqs' = reqs \ {r}
     /\ UNCHANGED <<made, crash, tasks>>

-----------------------------------------------------------------------------
(* The task on the other members.  What they do after Home's end is left out.*)

\* A user starts or stops it on some member.
Change ==
  /\ Up /\ changes < MaxChanges
  /\ changes' = changes + 1
  /\ wanted' = IF wanted = "stopped" THEN "spinning" ELSE "stopped"
  /\ behind' = member \cup IF view.exists /\ view.points THEN {Home} ELSE {}
  /\ q' = [i \in Queries |->
             IF q[i].at \in {"none", "done"} THEN q[i] ELSE [q[i] EXCEPT !.mixed = TRUE]]
  /\ UNCHANGED <<agreement, crash, member, task>>

HearChange(n) ==
  /\ Up /\ n \in behind
  /\ behind' = behind \ {n}
  /\ task' = [task EXCEPT ![n] = IF @ = "none" THEN @ ELSE wanted]
  /\ UNCHANGED <<agreement, crash, member, wanted, changes, q>>

\* Home hears of it at once: until it does, it goes on reading the task from a
\* node that still has it.
MemberLeaves(n) ==
  /\ Up /\ n \in member \cap Leavers
  /\ member' = member \ {n}
  /\ behind' = behind \ {n}
  /\ view' = [view EXCEPT !.listed = @ \ {n}]
  /\ UNCHANGED <<reqs, made, crash, task, wanted, changes, q>>

-----------------------------------------------------------------------------
(* The query.                                                               *)

isMemberOfAgreement(n) ==
  IF n = Home THEN view.exists /\ Home \in view.listed ELSE n \in member

\* Mutant: a node answers whether or not it is a member of the agreement.
AnyResponse(n) ==
  IF task[n] # "none" THEN {[from |-> n, state |-> task[n]]} ELSE {}

\* The answer of a node that handles the query, if it gives one.
Response(n) ==
  IF isMemberOfAgreement(n) /\ task[n] # "none" THEN {[from |-> n, state |-> task[n]]} ELSE {}

\* A node that has the query from another one, Home included.  It answers if it
\* may, and passes the query on.  A node by whose clock the deadline has passed
\* does neither, as if the query had been lost.  After the timer a query has no
\* effect on Home and is left out.
handleTaskStateQuery(n, i) ==
  /\ Up
  /\ q[i].open /\ n \notin q[i].heard
  /\ n = Home => q[i].heard # {}
  /\ q' = [q EXCEPT ![i].heard = @ \cup {n}, ![i].sent = @ \cup Response(n)]
  /\ UNCHANGED <<agreement, crash, tasks>>

\* NotifyMsg at Home, for an answer: the query is looked up with the mutex of the
\* tribe, unless it is no longer there.  One more copy of an answer that has been
\* taken changes nothing ...
FindQuery(i, a) ==
  /\ Up
  /\ q[i].open
  /\ a \in q[i].sent \ q[i].from
  /\ q' = [q EXCEPT ![i].found = @ \cup {a}]
  /\ UNCHANGED <<agreement, crash, tasks>>

\* ... and the answer taken with that of the query.  isClosed is never set, so
\* an answer that comes after the timer is sent to a closed channel.
TakeAnswer(i, a) ==
  /\ Up
  /\ a \in q[i].found
  /\ IF q[i].closed
     THEN crash' = "closed" /\ UNCHANGED q
     ELSE /\ q' = [q EXCEPT ![i].found = @ \ {a}, ![i].from = @ \cup {a}]
          /\ UNCHANGED crash
  /\ UNCHANGED <<agreement, tasks>>

\* Mutant: the query is closed and stays registered.
TimeoutKeeps(i) ==
  /\ Up
  /\ q[i].open /\ ~q[i].closed
  /\ q' = [q EXCEPT ![i].closed = TRUE, ![i].crossed = q[i].found # {}]
  /\ UNCHANGED <<agreement, crash, tasks>>

\* Mutant: the query is forgotten and not closed.
TimeoutForgets(i) ==
  /\ Up
  /\ q[i].open
  /\ q' = [q EXCEPT ![i].open = FALSE, ![i].crossed = q[i].found # {}]
  /\ UNCHANGED <<agreement, crash, tasks>>

Close(c) == [c EXCEPT !.closed = TRUE, !.crossed = c.found # {}]

\* The function of time.AfterFunc in registerQueryResponse.
Timeout(i) ==
  /\ Up
  /\ q[i].open
  /\ q' = [q EXCEPT ![i] = [Close(@) EXCEPT !.open = FALSE, !.heard = {}, !.sent = {}]]
  /\ UNCHANGED <<agreement, crash, tasks>>

\* taskStateResponses.State: one of the states that most nodes have; stopped
\* when nobody has answered.
States(answers) ==
  LET votes(s) == Cardinality({a \in answers : a.state = s})
      given == {a.state : a \in answers}
  IN IF answers = {} THEN {"stopped"}
     ELSE {s \in given : \A t \in given : votes(t) <= votes(s)}

\* TaskStateQuery returns when the channel is closed and read; the request goes
\* to the workers.
Conclude(i) ==
  /\ Up
  /\ q[i].at = "asked" /\ q[i].closed
  /\ \E state \in States(q[i].from) :
       q' = [q EXCEPT ![i].at = "work", ![i].start = (state = "spinning")]
  /\ UNCHANGED <<agreement, crash, tasks>>

-----------------------------------------------------------------------------
(* createTask of a worker.                                                  *)

\* What was asked is forgotten; NotifyMsg may still be taking an answer.
Done(i) ==
  [q EXCEPT ![i] = [@ EXCEPT !.at = "done", !.from = {}, !.start = FALSE, !.mixed = FALSE]]

\* Nothing is done if the task is there.
TakeWork(i) ==
  /\ Up
  /\ q[i].at = "work"
  /\ q' = IF task[Home] = "none" THEN [q EXCEPT ![i].at = "copy"] ELSE Done(i)
  /\ UNCHANGED <<agreement, crash, tasks>>

\* GetTaskAgreementMembers; the agreement may be gone although Home's record
\* names it, and then its Members are read through a nil pointer.
getTaskAgreementMembers == IF view.points THEN view.listed ELSE {}

CanCopy(i) ==
  /\ \E n \in getTaskAgreementMembers : task[n] # "none"
  /\ task[Home] = "none" \/ (q[i].start /\ task[Home] = "stopped")

Copy(i) ==
  /\ Up
  /\ q[i].at = "copy"
  /\ view.points => view.exists
  /\ CanCopy(i)
  /\ task' = [task EXCEPT ![Home] = IF q[i].start THEN "spinning" ELSE "stopped"]
  /\ q' = Done(i)
  /\ UNCHANGED <<agreement, crash, member, wanted, behind, changes>>

CopyCrashes(i) ==
  /\ Up
  /\ q[i].at = "copy"
  /\ view.points /\ ~view.exists
  /\ crash' = "nil"
  /\ UNCHANGED <<agreement, tasks, q>>

-----------------------------------------------------------------------------
Next ==
  \/ addAgreement \/ deleteAgreement \/ joinAgreement \/ leaveAgreement
  \/ \E r \in reqs : Handle(r)
  \/ Change
  \/ \E n \in Nodes : HearChange(n) \/ MemberLeaves(n)
  \/ \E n \in Nodes, i \in Queries : handleTaskStateQuery(n, i)
  \/ \E i \in Queries : \E a \in q[i].sent : FindQuery(i, a)
  \/ \E i \in Queries : \E a \in q[i].found : TakeAnswer(i, a)
  \/ \E i \in Queries : Timeout(i) \/ Conclude(i) \/ TakeWork(i) \/ Copy(i) \/ CopyCrashes(i)

\* The timer fires, and the goroutine of the join and a worker run.  Nothing is
\* assumed of gossip, answers, users and other nodes.
Spec ==
  /\ Init /\ [][Next]_vars
  /\ \A i \in Queries :
       WF_vars(Timeout(i) \/ Conclude(i) \/ TakeWork(i) \/ Copy(i) \/ CopyCrashes(i))

-----------------------------------------------------------------------------
TaskStates == {"spinning", "stopped"}
Answers == [from : Nodes, state : TaskStates]
Ops == {"add", "delete", "join", "leave"}
Views ==
  [exists : BOOLEAN, tasks : BOOLEAN, listed : SUBSET Nodes, points : BOOLEAN,
   adds : Nat, joins : Nat, asks : Nat, deleted : BOOLEAN, doubled : BOOLEAN]
QueryRecords ==
  [at : {"none", "asked", "work", "copy", "done"}, open : BOOLEAN, closed : BOOLEAN,
   heard : SUBSET Nodes, sent : SUBSET Answers, found : SUBSET Answers,
   from : SUBSET Answers, start : BOOLEAN, mixed : BOOLEAN, crossed : BOOLEAN]
\* Types of Home's agreement, of the nodes' tasks and of the queries
\* (tribe.go:69-92, query.go:64).
TypeOK ==
  /\ view \in Views
  /\ reqs \subseteq [id : 1..MaxOpen, op : Ops]
  /\ made \in Nat /\ changes \in Nat
  /\ crash \in {"no", "closed", "nil"}
  /\ member \subseteq Members /\ behind \subseteq Nodes
  /\ wanted \in TaskStates
  /\ task \in [Nodes -> TaskStates \cup {"none"}]
  /\ q \in [Queries -> QueryRecords]

\* When a copy of the task is created, it is started exactly if the members run
\* the task, provided that one answer at least came in time and that nobody
\* started or stopped the task meanwhile: nodes that have left the agreement
\* have no say, however stale their task is (tribe.go, handleTaskStateQuery).
FollowsTheMembers ==
  [][\A i \in Queries :
       /\ task[Home] = "none" /\ q[i].at = "copy" /\ q'[i].at = "done"
       /\ q[i].from # {} /\ ~q[i].mixed
       => task'[Home] = wanted]_vars

\* An agreement that was deleted comes back without being added again only if
\* two requests to add it had overlapped before: the second became an intent,
\* which the delete applies (tribe.go, handleAddAgreement, processIntents).
DeleteHolds == view.deleted /\ view.exists => view.doubled

\* An answer ends the process of the node that asked only if it was looked up
\* before the timer fired and taken after: the timer takes the query out of the
\* table before it closes the channel (tribe.go, registerQueryResponse).
OnlyCrossingCrashes == crash = "closed" => \E i \in Queries : q[i].crossed

\* A join that asked for the task's state ends: the copy is made or there is
\* nothing it can be made from, whether or not anybody answers (query.go).
JoinEnds ==
  \A i \in Queries :
    q[i].at = "asked" ~> \/ q[i].at = "done" \/ ~Up
                         \/ q[i].at = "copy" /\ ~CanCopy(i)
=============================================================================
