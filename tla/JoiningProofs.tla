--------------------------- MODULE JoiningProofs ---------------------------
(***************************************************************************)
(* Proofs about Joining for any nodes and any bounds: types, that a deleted*)
(* agreement comes back only after two adds overlapped, that an answer ends*)
(* the process only if it crossed the timer, and that a copy is started    *)
(* exactly if the members run the task.                                    *)
(***************************************************************************)
EXTENDS Joining, TLAPS

\* Most leaves need no arithmetic.
USE ZenonT(5), SMTT(15)

\* Join and processIntents, on which the four handlers rest, keep the types.
LEMMA JoinType == \A v \in Views : Join(v) \in Views
<1> SUFFICES ASSUME NEW v \in Views PROVE Join(v) \in Views
  OBVIOUS
<1>1. v.listed \cup {Home} \in SUBSET Nodes
  BY DEF Views, Nodes
<1>2. (IF v.tasks THEN v.asks + 1 ELSE v.asks) \in Nat
  BY DEF Views
<1> QED
  BY <1>1, <1>2 DEF Join, Views

\* Intents that are applied make a view of a view.
LEMMA ProcessType == \A v \in Views : processIntents(v) \in Views
<1> SUFFICES ASSUME NEW v \in Views PROVE processIntents(v) \in Views
  OBVIOUS
<1> DEFINE added == IF v.adds > 0 /\ ~v.exists
                    THEN [v EXCEPT !.adds = @ - 1, !.exists = TRUE] ELSE v
<1>1. added \in Views
  <2>1. CASE v.adds > 0 /\ ~v.exists
    <3>1. v.adds - 1 \in Nat
      BY <2>1 DEF Views
    <3> QED
      BY <2>1, <3>1 DEF Views
  <2>2. CASE ~(v.adds > 0 /\ ~v.exists)
    BY <2>2
  <2> QED
    BY <2>1, <2>2
<1>2. Join(added) \in Views
  BY <1>1, JoinType
<1> DEFINE joined == [Join(added) EXCEPT !.joins = 0,
                        !.asks = added.asks + IF added.tasks THEN added.joins ELSE 0]
<1>3. added.asks + (IF added.tasks THEN added.joins ELSE 0) \in Nat
  BY <1>1 DEF Views
<1>4. joined \in Views
  BY <1>2, <1>3 DEF Views
<1>5. processIntents(v) = IF added.joins > 0 /\ added.exists THEN joined ELSE added
  BY DEF processIntents
<1> QED
  BY <1>1, <1>4, <1>5

\* So do the four handlers.
LEMMA HandlersType ==
  \A v \in Views : /\ handleAddAgreement(v) \in Views
                   /\ handleRemoveAgreement(v) \in Views
                   /\ handleJoinAgreement(v) \in Views
                   /\ handleLeaveAgreement(v) \in Views
<1> SUFFICES ASSUME NEW v \in Views
             PROVE /\ handleAddAgreement(v) \in Views
                   /\ handleRemoveAgreement(v) \in Views
                   /\ handleJoinAgreement(v) \in Views
                   /\ handleLeaveAgreement(v) \in Views
  OBVIOUS
<1>1. handleAddAgreement(v) \in Views
  <2>1. [v EXCEPT !.adds = @ + 1, !.doubled = TRUE] \in Views
    <3>1. v.adds + 1 \in Nat
      BY DEF Views
    <3> QED
      BY <3>1 DEF Views
  <2>2. [v EXCEPT !.exists = TRUE, !.deleted = FALSE] \in Views
    BY DEF Views
  <2> QED
    BY <2>1, <2>2, ProcessType DEF handleAddAgreement
<1>2. handleRemoveAgreement(v) \in Views
  <2>1. [v EXCEPT !.exists = FALSE, !.tasks = FALSE, !.listed = {}, !.deleted = TRUE] \in Views
    <3>1. {} \in SUBSET Nodes
      OBVIOUS
    <3> QED
      BY <3>1 DEF Views
  <2> QED
    BY <2>1, ProcessType DEF handleRemoveAgreement
<1>3. handleJoinAgreement(v) \in Views
  <2>1. [v EXCEPT !.joins = @ + 1] \in Views
    BY DEF Views
  <2> QED
    BY <2>1, ProcessType, JoinType DEF handleJoinAgreement
<1>4. handleLeaveAgreement(v) \in Views
  <2>1. [v EXCEPT !.points = FALSE, !.listed = @ \ {Home}] \in Views
    BY DEF Views
  <2> QED
    BY <2>1, ProcessType DEF handleLeaveAgreement
<1> QED
  BY <1>1, <1>2, <1>3, <1>4

\* A query is replaced by a record of the same type, whichever field changes.
LEMMA QueryType ==
  ASSUME q \in [Queries -> QueryRecords], NEW i \in Queries, NEW c \in QueryRecords
  PROVE [q EXCEPT ![i] = c] \in [Queries -> QueryRecords]
OBVIOUS

\* New queries are queries.
LEMMA AskedType ==
  ASSUME q \in [Queries -> QueryRecords], NEW asks
  PROVE Asked(asks) \in [Queries -> QueryRecords]
<1> SUFFICES ASSUME NEW i \in Queries
             PROVE [q[i] EXCEPT !.at = "asked", !.open = TRUE, !.mixed = behind # {}]
                     \in QueryRecords
  BY DEF Asked
<1>1. q[i] \in QueryRecords /\ (behind # {}) \in BOOLEAN
  OBVIOUS
<1> QED
  BY <1>1 DEF QueryRecords

\* So is one that is over.
LEMMA DoneType ==
  ASSUME q \in [Queries -> QueryRecords], NEW i \in Queries
  PROVE Done(i) \in [Queries -> QueryRecords]
<1>1. q[i] \in QueryRecords /\ {} \in SUBSET Answers
  OBVIOUS
<1>2. [q[i] EXCEPT !.at = "done", !.from = {}, !.start = FALSE, !.mixed = FALSE] \in QueryRecords
  BY <1>1 DEF QueryRecords
<1> QED
  BY <1>2, QueryType DEF Done

\* The answers a node sends are well formed.
LEMMA ResponseType ==
  ASSUME TypeOK, NEW n \in Nodes
  PROVE Response(n) \in SUBSET Answers
<1>1. CASE task[n] = "none"
  BY <1>1 DEF Response
<1>2. CASE task[n] # "none"
  <2>1. task[n] \in TaskStates
    BY <1>2 DEF TypeOK
  <2>2. [from |-> n, state |-> task[n]] \in Answers
    BY <2>1 DEF Answers
  <2> QED
    BY <2>2 DEF Response
<1> QED
  BY <1>1, <1>2

-----------------------------------------------------------------------------
(* Type correctness, action by action.                                      *)

\* The test of a request keeps the types.
LEMMA BeginType ==
  ASSUME TypeOK, NEW op \in Ops, NEW allowed, Begin(op, allowed)
  PROVE TypeOK'
<1> DEFINE free == 1..MaxOpen \ {r.id : r \in reqs}
           taken == [id |-> CHOOSE k \in free : TRUE, op |-> op]
<1>1. free # {} /\ reqs' = IF allowed THEN reqs \cup {taken} ELSE reqs
  BY DEF Begin
<1>2. (CHOOSE k \in free : TRUE) \in free
  BY <1>1
<1>3. (CHOOSE k \in free : TRUE) \in 1..MaxOpen
  BY <1>2
<1>4. taken \in [id : 1..MaxOpen, op : Ops]
  BY <1>3
<1>5. reqs' \subseteq [id : 1..MaxOpen, op : Ops]
  <2> HIDE DEF taken
  <2> QED
    BY <1>1, <1>4 DEF TypeOK
<1>6. made' \in Nat
  BY DEF Begin, TypeOK
<1>7. UNCHANGED <<view, crash, member, task, wanted, behind, changes, q>>
  BY DEF Begin, tasks
<1> QED
  BY <1>5, <1>6, <1>7 DEF TypeOK

\* So does its handler.
LEMMA HandleType ==
  ASSUME TypeOK, NEW r \in reqs, Handle(r)
  PROVE TypeOK'
<1>1. r.op \in Ops /\ view \in Views /\ q \in [Queries -> QueryRecords]
  BY DEF TypeOK
<1>2. view' \in Views
  BY <1>1, HandlersType DEF Handle, Ops
<1>3. q' \in [Queries -> QueryRecords]
  <2>1. \E asks : q' = Asked(asks)
    BY DEF Handle
  <2> QED
    BY <1>1, <2>1, AskedType
<1>4. reqs' \subseteq reqs /\ UNCHANGED <<made, crash, member, task, wanted, behind, changes>>
  BY DEF Handle, tasks
<1> QED
  BY <1>2, <1>3, <1>4 DEF TypeOK

\* So do users and members that change the task or leave.
LEMMA TaskSteps ==
  ASSUME TypeOK,
         Change \/ \E n \in Nodes : HearChange(n) \/ MemberLeaves(n)
  PROVE TypeOK'
<1>1. CASE Change
  <2>1. q' \in [Queries -> QueryRecords]
    <3>1. q' = [i \in Queries |->
                  IF q[i].at \in {"none", "done"} THEN q[i] ELSE [q[i] EXCEPT !.mixed = TRUE]]
      BY <1>1 DEF Change
    <3>2. ASSUME NEW i \in Queries PROVE [q[i] EXCEPT !.mixed = TRUE] \in QueryRecords
      <4>1. q[i] \in QueryRecords
        BY DEF TypeOK
      <4> QED
        BY <4>1 DEF QueryRecords
    <3> QED
      BY <3>1, <3>2 DEF TypeOK
  <2>2. changes' \in Nat /\ wanted' \in TaskStates /\ behind' \subseteq Nodes
    BY <1>1 DEF Change, TypeOK, TaskStates, Nodes
  <2>3. UNCHANGED <<view, reqs, made, crash, member, task>>
    BY <1>1 DEF Change, agreement
  <2> QED
    BY <2>1, <2>2, <2>3 DEF TypeOK
<1>2. ASSUME NEW n \in Nodes, HearChange(n) PROVE TypeOK'
  <2>1. task' \in [Nodes -> TaskStates \cup {"none"}]
    BY <1>2 DEF HearChange, TypeOK
  <2>2. behind' \subseteq behind
        /\ UNCHANGED <<view, reqs, made, crash, member, wanted, changes, q>>
    BY <1>2 DEF HearChange, agreement
  <2> QED
    BY <2>1, <2>2 DEF TypeOK
<1>3. ASSUME NEW n \in Nodes, MemberLeaves(n) PROVE TypeOK'
  <2>1. view' \in Views
    <3>1. view.listed \ {n} \in SUBSET Nodes
      BY DEF TypeOK, Views
    <3>2. view' = [view EXCEPT !.listed = @ \ {n}]
      BY <1>3 DEF MemberLeaves
    <3> QED
      BY <3>1, <3>2 DEF TypeOK, Views
  <2>2. member' \subseteq member /\ behind' \subseteq behind
        /\ UNCHANGED <<reqs, made, crash, task, wanted, changes, q>>
    BY <1>3 DEF MemberLeaves
  <2> QED
    BY <2>1, <2>2 DEF TypeOK
<1> QED
  BY <1>1, <1>2, <1>3

\* The steps of a query and of the worker: what they may do to the other
\* variables, and that the query keeps its type.
QuerySteps(i) ==
  \/ \E n \in Nodes : handleTaskStateQuery(n, i)
  \/ \E a \in q[i].sent : FindQuery(i, a)
  \/ \E a \in q[i].found : TakeAnswer(i, a)
  \/ Timeout(i) \/ Conclude(i) \/ TakeWork(i) \/ Copy(i) \/ CopyCrashes(i)

\* So does every step of a query and of the copy it leads to.
LEMMA QueryStepsType ==
  ASSUME TypeOK, NEW i \in Queries, QuerySteps(i)
  PROVE TypeOK'
<1>1. q \in [Queries -> QueryRecords] /\ q[i] \in QueryRecords
  BY DEF TypeOK
<1>2. UNCHANGED <<view, reqs, made, member, wanted, behind, changes>>
  BY DEF QuerySteps, handleTaskStateQuery, FindQuery, TakeAnswer, Timeout, Conclude,
         TakeWork, Copy, CopyCrashes, agreement, tasks
<1>3. crash' \in {"no", "closed", "nil"}
  BY DEF TypeOK, QuerySteps, handleTaskStateQuery, FindQuery, TakeAnswer, Timeout, Conclude,
         TakeWork, Copy, CopyCrashes
<1>4. task' \in [Nodes -> TaskStates \cup {"none"}]
  BY DEF TypeOK, QuerySteps, handleTaskStateQuery, FindQuery, TakeAnswer, Timeout, Conclude,
         TakeWork, Copy, CopyCrashes, tasks, TaskStates
<1>5. q' \in [Queries -> QueryRecords]
  <2>1. ASSUME NEW n \in Nodes, handleTaskStateQuery(n, i) PROVE q' \in [Queries -> QueryRecords]
    <3>1. q[i].heard \cup {n} \in SUBSET Nodes
      BY <1>1 DEF QueryRecords
    <3>2. q[i].sent \cup Response(n) \in SUBSET Answers
      BY <1>1, ResponseType DEF QueryRecords
    <3> DEFINE c == [q[i] EXCEPT !.heard = q[i].heard \cup {n}, !.sent = q[i].sent \cup Response(n)]
    <3>3. c \in QueryRecords
      BY <1>1, <3>1, <3>2 DEF QueryRecords
    <3>4. q' = [q EXCEPT ![i] = c]
      BY <1>1, <2>1 DEF handleTaskStateQuery
    <3> QED
      BY <1>1, <3>3, <3>4, QueryType
  <2>2. ASSUME NEW a \in q[i].sent, FindQuery(i, a) PROVE q' \in [Queries -> QueryRecords]
    <3>1. q[i].found \cup {a} \in SUBSET Answers
      BY <1>1 DEF QueryRecords
    <3> DEFINE c == [q[i] EXCEPT !.found = q[i].found \cup {a}]
    <3>2. c \in QueryRecords
      BY <1>1, <3>1 DEF QueryRecords
    <3>3. q' = [q EXCEPT ![i] = c]
      BY <1>1, <2>2 DEF FindQuery
    <3> QED
      BY <1>1, <3>2, <3>3, QueryType
  <2>3. ASSUME NEW a \in q[i].found, TakeAnswer(i, a) PROVE q' \in [Queries -> QueryRecords]
    <3>1. q[i].found \ {a} \in SUBSET Answers /\ q[i].from \cup {a} \in SUBSET Answers
      BY <1>1 DEF QueryRecords
    <3> DEFINE c == [q[i] EXCEPT !.found = q[i].found \ {a}, !.from = q[i].from \cup {a}]
    <3>2. c \in QueryRecords
      BY <1>1, <3>1 DEF QueryRecords
    <3>3. q' = q \/ q' = [q EXCEPT ![i] = c]
      BY <1>1, <2>3 DEF TakeAnswer
    <3> QED
      BY <1>1, <3>2, <3>3, QueryType
  <2>4. ASSUME Timeout(i) PROVE q' \in [Queries -> QueryRecords]
    <3>1. {} \in SUBSET Answers /\ {} \in SUBSET Nodes /\ (q[i].found # {}) \in BOOLEAN
      OBVIOUS
    <3>2. Close(q[i]) \in QueryRecords
      BY <1>1, <3>1 DEF QueryRecords, Close
    <3> DEFINE c == [Close(q[i]) EXCEPT !.open = FALSE, !.heard = {}, !.sent = {}]
    <3>3. c \in QueryRecords
      BY <3>1, <3>2 DEF QueryRecords
    <3>4. q' = [q EXCEPT ![i] = c]
      BY <2>4 DEF Timeout
    <3> QED
      BY <1>1, <3>3, <3>4, QueryType
  <2>5. ASSUME Conclude(i) PROVE q' \in [Queries -> QueryRecords]
    <3>1. PICK state : q' = [q EXCEPT ![i].at = "work", ![i].start = (state = "spinning")]
      BY <2>5 DEF Conclude
    <3>2. (state = "spinning") \in BOOLEAN
      OBVIOUS
    <3> DEFINE c == [q[i] EXCEPT !.at = "work", !.start = (state = "spinning")]
    <3>3. c \in QueryRecords
      BY <1>1, <3>2 DEF QueryRecords
    <3>4. q' = [q EXCEPT ![i] = c]
      BY <1>1, <3>1
    <3> QED
      BY <1>1, <3>3, <3>4, QueryType
  <2>6. ASSUME TakeWork(i) PROVE q' \in [Queries -> QueryRecords]
    <3> DEFINE c == [q[i] EXCEPT !.at = "copy"]
    <3>1. c \in QueryRecords
      BY <1>1 DEF QueryRecords
    <3>2. q' = [q EXCEPT ![i] = c] \/ q' = Done(i)
      BY <1>1, <2>6 DEF TakeWork
    <3> QED
      BY <1>1, <3>1, <3>2, QueryType, DoneType
  <2>7. ASSUME Copy(i) PROVE q' \in [Queries -> QueryRecords]
    BY <1>1, <2>7, DoneType DEF Copy
  <2>8. ASSUME CopyCrashes(i) PROVE q' \in [Queries -> QueryRecords]
    BY <1>1, <2>8 DEF CopyCrashes
  <2> QED
    BY <2>1, <2>2, <2>3, <2>4, <2>5, <2>6, <2>7, <2>8 DEF QuerySteps
<1> QED
  BY <1>2, <1>3, <1>4, <1>5 DEF TypeOK

\* The steps of Next, sorted by what they change.
LEMMA NextSplits ==
  ASSUME Next
  PROVE \/ \E op \in Ops : \E allowed : Begin(op, allowed)
        \/ \E r \in reqs : Handle(r)
        \/ Change \/ \E n \in Nodes : HearChange(n) \/ MemberLeaves(n)
        \/ \E i \in Queries : QuerySteps(i)
BY DEF Next, QuerySteps, Ops, addAgreement, deleteAgreement, joinAgreement, leaveAgreement

\* Every step keeps the types.
LEMMA TypeStep == TypeOK /\ [Next]_vars => TypeOK'
<1> SUFFICES ASSUME TypeOK, [Next]_vars PROVE TypeOK'
  OBVIOUS
<1>1. CASE UNCHANGED vars
  BY <1>1 DEF TypeOK, vars
<1>2. CASE Next
  BY <1>2, NextSplits, BeginType, HandleType, TaskSteps, QueryStepsType
<1> QED
  BY <1>1, <1>2

\* The initial state has them.
LEMMA TypeInit == Init => TypeOK
<1> SUFFICES ASSUME Init PROVE TypeOK
  OBVIOUS
<1>1. view \in Views
  <2>1. \A e \in BOOLEAN : (IF e THEN Members ELSE {}) \in SUBSET Nodes
    BY DEF Nodes
  <2>2. \A e \in BOOLEAN : View(e) \in Views
    BY <2>1 DEF View, Views
  <2> QED
    BY <2>2 DEF Init
<1>2. NoQuery \in QueryRecords
  <2>1. {} \in SUBSET Answers /\ {} \in SUBSET Nodes
    OBVIOUS
  <2> QED
    BY <2>1 DEF NoQuery, QueryRecords
<1>3. q \in [Queries -> QueryRecords]
  BY <1>2 DEF Init
<1>4. task \in [Nodes -> TaskStates \cup {"none"}]
  BY DEF Init, TaskStates
<1>5. member \subseteq Members /\ behind \subseteq Nodes /\ reqs = {} /\ made = 0
      /\ changes = 0 /\ crash = "no" /\ wanted \in TaskStates
  BY DEF Init, TaskStates
<1> QED
  BY <1>1, <1>3, <1>4, <1>5 DEF TypeOK

\* Type correctness of Joining, for any nodes and bounds.
THEOREM TypeCorrect == Spec => []TypeOK
BY TypeInit, TypeStep, PTL DEF Spec

-----------------------------------------------------------------------------
(* A delete holds.  DeleteHolds is not inductive: it also takes that there  *)
(* are intents to add the agreement only if an add found it there.          *)

AddsKnown(v) ==
  /\ v.adds > 0 => v.doubled
  /\ v.deleted /\ v.exists => v.doubled

\* Applying intents brings none to add.
LEMMA ProcessKeepsAdds ==
  ASSUME NEW v \in Views, AddsKnown(v)
  PROVE AddsKnown(processIntents(v))
<1> DEFINE added == IF v.adds > 0 /\ ~v.exists
                    THEN [v EXCEPT !.adds = @ - 1, !.exists = TRUE] ELSE v
           joined == [Join(added) EXCEPT !.joins = 0,
                        !.asks = added.asks + IF added.tasks THEN added.joins ELSE 0]
<1>1. AddsKnown(added)
  BY DEF AddsKnown, Views
<1>2. /\ joined.adds = added.adds /\ joined.deleted = added.deleted
      /\ joined.exists = added.exists /\ joined.doubled = added.doubled
  BY DEF Join, Views
<1>3. processIntents(v) = IF added.joins > 0 /\ added.exists THEN joined ELSE added
  BY DEF processIntents
<1>4. AddsKnown(joined)
  BY <1>1, <1>2 DEF AddsKnown
<1> HIDE DEF added, joined
<1> QED
  BY <1>1, <1>3, <1>4

\* A handler brings one only when it finds the agreement there.
LEMMA HandlersKeepAdds ==
  ASSUME NEW v \in Views, AddsKnown(v)
  PROVE /\ AddsKnown(handleAddAgreement(v))
        /\ AddsKnown(handleRemoveAgreement(v))
        /\ AddsKnown(handleJoinAgreement(v))
        /\ AddsKnown(handleLeaveAgreement(v))
<1>1. AddsKnown(handleAddAgreement(v))
  <2> DEFINE w == [v EXCEPT !.exists = TRUE, !.deleted = FALSE]
  <2>1. w \in Views /\ AddsKnown(w)
    BY DEF Views, AddsKnown
  <2>2. AddsKnown([v EXCEPT !.adds = @ + 1, !.doubled = TRUE])
    BY DEF Views, AddsKnown
  <2> QED
    BY <2>1, <2>2, ProcessKeepsAdds DEF handleAddAgreement
<1>2. AddsKnown(handleRemoveAgreement(v))
  <2> DEFINE w == [v EXCEPT !.exists = FALSE, !.tasks = FALSE, !.listed = {}, !.deleted = TRUE]
  <2>1. {} \in SUBSET Nodes
    OBVIOUS
  <2>2. w \in Views
    BY <2>1 DEF Views
  <2>3. AddsKnown(w)
    BY DEF Views, AddsKnown
  <2> QED
    BY <2>2, <2>3, ProcessKeepsAdds DEF handleRemoveAgreement
<1>3. AddsKnown(handleJoinAgreement(v))
  <2>1. AddsKnown([v EXCEPT !.joins = @ + 1])
    BY DEF Views, AddsKnown
  <2>2. Join(v) \in Views /\ AddsKnown(Join(v))
    <3>1. AddsKnown(Join(v))
      BY DEF Views, AddsKnown, Join
    <3> QED
      BY <3>1, JoinType
  <2> QED
    BY <2>1, <2>2, ProcessKeepsAdds DEF handleJoinAgreement
<1>4. AddsKnown(handleLeaveAgreement(v))
  <2> DEFINE w == [v EXCEPT !.points = FALSE, !.listed = @ \ {Home}]
  <2>1. w \in Views /\ AddsKnown(w)
    BY DEF Views, AddsKnown
  <2> QED
    BY <2>1, ProcessKeepsAdds DEF handleLeaveAgreement
<1> QED
  BY <1>1, <1>2, <1>3, <1>4

\* No step brings an intent to add unless two adds overlapped.
LEMMA AddsStep == TypeOK /\ AddsKnown(view) /\ [Next]_vars => AddsKnown(view')
<1> SUFFICES ASSUME TypeOK, AddsKnown(view), [Next]_vars PROVE AddsKnown(view')
  OBVIOUS
<1>1. view \in Views
  BY DEF TypeOK
<1>2. CASE UNCHANGED view
  BY <1>2
<1>3. ASSUME NEW r \in reqs, Handle(r) PROVE AddsKnown(view')
  <2>1. r.op \in Ops
    BY DEF TypeOK
  <2> QED
    BY <1>1, <1>3, <2>1, HandlersKeepAdds DEF Handle, Ops
<1>4. ASSUME NEW n \in Nodes, MemberLeaves(n) PROVE AddsKnown(view')
  BY <1>1, <1>4 DEF MemberLeaves, AddsKnown, Views
<1>5. CASE Next
  <2>1. ASSUME NEW op, NEW allowed, Begin(op, allowed) PROVE UNCHANGED view
    BY <2>1 DEF Begin
  <2>2. ASSUME NEW n \in Nodes, HearChange(n) PROVE UNCHANGED view
    BY <2>2 DEF HearChange, agreement
  <2>3. ASSUME Change PROVE UNCHANGED view
    BY <2>3 DEF Change, agreement
  <2>4. ASSUME NEW i \in Queries, QuerySteps(i) PROVE UNCHANGED view
    BY <2>4 DEF QuerySteps, handleTaskStateQuery, FindQuery, TakeAnswer, Timeout, Conclude,
                TakeWork, Copy, CopyCrashes, agreement
  <2> QED
    BY <1>2, <1>3, <1>4, <1>5, <2>1, <2>2, <2>3, <2>4, NextSplits
<1> QED
  BY <1>2, <1>5 DEF vars

\* A deleted agreement comes back without a new add only after two adds had
\* overlapped (tribe.go, handleAddAgreement, processIntents), for any nodes and
\* any number of requests.
THEOREM DeletesSafe == Spec => []DeleteHolds
<1>1. Init => AddsKnown(view)
  BY DEF Init, View, AddsKnown
<1>2. AddsKnown(view) => DeleteHolds
  BY DEF AddsKnown, DeleteHolds
<1>3. TypeOK /\ AddsKnown(view) /\ [Next]_vars => AddsKnown(view)'
  BY AddsStep
<1> QED
  BY <1>1, <1>2, <1>3, TypeCorrect, PTL DEF Spec

-----------------------------------------------------------------------------
(* Only an answer that crosses the timer ends the process.  The invariant   *)
(* ties the table of queries to the channel: a registered query is not      *)
(* closed, and of a closed one there are answers looked up only if there    *)
(* were when it was closed.                                                 *)

Tied(c) ==
  /\ c.at = "none" => ~c.open /\ ~c.closed
  /\ c.open => ~c.closed
  /\ c.closed /\ c.found # {} => c.crossed

QueriesTied == \A i \in Queries : Tied(q[i])

\* A step of a query keeps all queries tied.
LEMMA TiedStep ==
  ASSUME TypeOK, QueriesTied, NEW i \in Queries, QuerySteps(i)
  PROVE QueriesTied'
<1>1. q \in [Queries -> QueryRecords] /\ q[i] \in QueryRecords /\ Tied(q[i])
  BY DEF TypeOK, QueriesTied
<1>2. ASSUME NEW c, Tied(c), q' = [q EXCEPT ![i] = c] PROVE QueriesTied'
  BY <1>1, <1>2 DEF QueriesTied
<1>3. ASSUME q' = q PROVE QueriesTied'
  BY <1>3 DEF QueriesTied
<1>4. ASSUME NEW n \in Nodes, handleTaskStateQuery(n, i) PROVE QueriesTied'
  <2> DEFINE c == [q[i] EXCEPT !.heard = q[i].heard \cup {n}, !.sent = q[i].sent \cup Response(n)]
  <2>1. Tied(c)
    BY <1>1 DEF Tied, QueryRecords
  <2>2. q' = [q EXCEPT ![i] = c]
    BY <1>1, <1>4 DEF handleTaskStateQuery
  <2> QED
    BY <1>2, <2>1, <2>2
<1>5. ASSUME NEW a, FindQuery(i, a) PROVE QueriesTied'
  <2> DEFINE c == [q[i] EXCEPT !.found = q[i].found \cup {a}]
  <2>1. q[i].open
    BY <1>5 DEF FindQuery
  <2>2. Tied(c)
    BY <1>1, <2>1 DEF Tied, QueryRecords
  <2>3. q' = [q EXCEPT ![i] = c]
    BY <1>1, <1>5 DEF FindQuery
  <2> QED
    BY <1>2, <2>2, <2>3
<1>6. ASSUME NEW a, TakeAnswer(i, a) PROVE QueriesTied'
  <2> DEFINE c == [q[i] EXCEPT !.found = q[i].found \ {a}, !.from = q[i].from \cup {a}]
  <2>1. CASE q[i].closed
    BY <1>3, <1>6, <2>1 DEF TakeAnswer
  <2>2. CASE ~q[i].closed
    <3>1. Tied(c)
      BY <1>1, <2>2 DEF Tied, QueryRecords
    <3>2. q' = [q EXCEPT ![i] = c]
      BY <1>1, <1>6, <2>2 DEF TakeAnswer
    <3> QED
      BY <1>2, <3>1, <3>2
  <2> QED
    BY <2>1, <2>2
<1>7. ASSUME Timeout(i) PROVE QueriesTied'
  <2> DEFINE c == [Close(q[i]) EXCEPT !.open = FALSE, !.heard = {}, !.sent = {}]
  <2>1. q[i].at # "none"
    BY <1>1, <1>7 DEF Timeout, Tied
  <2>2. Tied(c)
    BY <1>1, <2>1 DEF Tied, QueryRecords, Close
  <2>3. q' = [q EXCEPT ![i] = c]
    BY <1>7 DEF Timeout
  <2> QED
    BY <1>2, <2>2, <2>3
<1>8. ASSUME Conclude(i) PROVE QueriesTied'
  <2>1. PICK state : q' = [q EXCEPT ![i].at = "work", ![i].start = (state = "spinning")]
    BY <1>8 DEF Conclude
  <2> DEFINE c == [q[i] EXCEPT !.at = "work", !.start = (state = "spinning")]
  <2>2. Tied(c)
    BY <1>1 DEF Tied, QueryRecords
  <2>3. q' = [q EXCEPT ![i] = c]
    BY <1>1, <2>1
  <2> QED
    BY <1>2, <2>2, <2>3
<1>9. ASSUME q' = Done(i) PROVE QueriesTied'
  <2> DEFINE c == [q[i] EXCEPT !.at = "done", !.from = {}, !.start = FALSE, !.mixed = FALSE]
  <2>1. Tied(c)
    BY <1>1 DEF Tied, QueryRecords
  <2>2. q' = [q EXCEPT ![i] = c]
    BY <1>9 DEF Done
  <2> QED
    BY <1>2, <2>1, <2>2
<1>10. ASSUME TakeWork(i) PROVE QueriesTied'
  <2> DEFINE c == [q[i] EXCEPT !.at = "copy"]
  <2>1. Tied(c)
    BY <1>1 DEF Tied, QueryRecords
  <2>2. q' = [q EXCEPT ![i] = c] \/ q' = Done(i)
    BY <1>1, <1>10 DEF TakeWork
  <2> QED
    BY <1>2, <1>9, <2>1, <2>2
<1> QED
  BY <1>3, <1>4, <1>5, <1>6, <1>7, <1>8, <1>9, <1>10 DEF QuerySteps, Copy, CopyCrashes

\* So does every step.
LEMMA TiedKept == TypeOK /\ QueriesTied /\ [Next]_vars => QueriesTied'
<1> SUFFICES ASSUME TypeOK, QueriesTied, [Next]_vars PROVE QueriesTied'
  OBVIOUS
<1>1. q \in [Queries -> QueryRecords]
  BY DEF TypeOK
<1>2. CASE UNCHANGED q
  BY <1>2 DEF QueriesTied
<1>3. ASSUME NEW r, Handle(r) PROVE QueriesTied'
  <2>1. PICK asks : q' = Asked(asks)
    BY <1>3 DEF Handle
  <2>2. ASSUME NEW i \in Queries PROVE Tied(q'[i])
    <3>1. q[i] \in QueryRecords /\ Tied(q[i])
      BY <1>1 DEF QueriesTied
    <3>2. q'[i] = q[i] \/ (q[i].at = "none" /\ q'[i] = [q[i] EXCEPT !.at = "asked", !.open = TRUE, !.mixed = behind # {}])
      BY <2>1 DEF Asked
    <3> QED
      BY <3>1, <3>2 DEF Tied, QueryRecords
  <2> QED
    BY <2>2 DEF QueriesTied
<1>4. ASSUME Change PROVE QueriesTied'
  <2>1. ASSUME NEW i \in Queries PROVE Tied(q'[i])
    <3>1. q[i] \in QueryRecords /\ Tied(q[i])
      BY <1>1 DEF QueriesTied
    <3>2. q'[i] = q[i] \/ q'[i] = [q[i] EXCEPT !.mixed = TRUE]
      BY <1>4 DEF Change
    <3> QED
      BY <3>1, <3>2 DEF Tied, QueryRecords
  <2> QED
    BY <2>1 DEF QueriesTied
<1>5. CASE Next
  <2>1. ASSUME NEW op, NEW allowed, Begin(op, allowed) PROVE UNCHANGED q
    BY <2>1 DEF Begin
  <2>2. ASSUME NEW n \in Nodes, HearChange(n) \/ MemberLeaves(n) PROVE UNCHANGED q
    BY <2>2 DEF HearChange, MemberLeaves
  <2> QED
    BY <1>2, <1>3, <1>4, <1>5, <2>1, <2>2, TiedStep, NextSplits
<1> QED
  BY <1>2, <1>5 DEF vars

\* Once the process has ended nothing happens any more; only TakeAnswer ends it
\* with a closed channel, and then the query was crossed.
LEMMA CrossingStep ==
  TypeOK /\ QueriesTied /\ OnlyCrossingCrashes /\ [Next]_vars => OnlyCrossingCrashes'
<1> SUFFICES ASSUME TypeOK, QueriesTied, OnlyCrossingCrashes, [Next]_vars, crash' = "closed"
             PROVE \E i \in Queries : q'[i].crossed
  BY DEF OnlyCrossingCrashes
<1>1. CASE UNCHANGED vars
  BY <1>1 DEF vars, OnlyCrossingCrashes
<1>2. CASE Next
  <2>1. crash = "no"
    BY <1>2, NextSplits DEF Begin, Handle, Change, HearChange, MemberLeaves, QuerySteps,
       handleTaskStateQuery, FindQuery, TakeAnswer, Timeout, Conclude, TakeWork, Copy,
       CopyCrashes, Up
  <2>2. PICK i \in Queries : QuerySteps(i)
    BY <1>2, <2>1, NextSplits DEF Begin, Handle, Change, HearChange, MemberLeaves
  <2>3. PICK a \in q[i].found : TakeAnswer(i, a) /\ q[i].closed /\ q' = q
    BY <2>1, <2>2 DEF QuerySteps, handleTaskStateQuery, FindQuery, TakeAnswer, Timeout,
       Conclude, TakeWork, Copy, CopyCrashes
  <2> QED
    BY <2>3 DEF QueriesTied, Tied
<1> QED
  BY <1>1, <1>2

\* An answer ends the process of the node that asked only if it was looked up
\* before the timer fired and taken after (tribe.go, registerQueryResponse;
\* delegate.go, NotifyMsg), for any nodes, queries and answers.
THEOREM CrossingsSafe == Spec => []OnlyCrossingCrashes
<1>1. Init => QueriesTied /\ OnlyCrossingCrashes
  BY DEF Init, NoQuery, QueriesTied, Tied, OnlyCrossingCrashes
<1> QED
  BY <1>1, TiedKept, CrossingStep, TypeCorrect, PTL DEF Spec

-----------------------------------------------------------------------------
(* A copy is started exactly if the members run the task.  As long as the   *)
(* task is not changed under a query, every member has heard of the last    *)
(* change, so what it answers is what users want; and what the query has    *)
(* concluded is what it has been answered.                                  *)

Heard(c, late, here, state) ==
  LET plain == c.at \in {"asked", "work", "copy"} /\ ~c.mixed IN
  /\ c.at = "none" => c.sent = {} /\ c.found = {} /\ c.from = {}
  /\ c.at \in {"work", "copy"} => c.closed
  /\ plain => late = {}
  /\ plain /\ here = "none" =>
       /\ \A a \in c.sent \cup c.found \cup c.from : a.state = state
       /\ c.at # "asked" /\ c.from # {} => c.start = (state = "spinning")

MembersHeard ==
  /\ \A n \in Members : task[n] # "none"
  /\ \A n \in member \ behind : task[n] = wanted
QueriesHeard == \A i \in Queries : Heard(q[i], behind, task[Home], wanted)
HeardInv == MembersHeard /\ QueriesHeard

\* At first every member runs what users want, and nothing is asked.
LEMMA HeardInit == Init => HeardInv
<1> SUFFICES ASSUME Init PROVE HeardInv
  OBVIOUS
<1>1. MembersHeard
  BY BoundsAssumption DEF Init, MembersHeard, Nodes
<1>2. QueriesHeard
  BY DEF Init, QueriesHeard, Heard, NoQuery
<1> QED
  BY <1>1, <1>2 DEF HeardInv

\* A step of query i that leaves the members alone.
LEMMA QueryHeard ==
  ASSUME TypeOK, HeardInv, NEW i \in Queries, NEW c, q' = [q EXCEPT ![i] = c],
         UNCHANGED <<member, behind, wanted, task>>,
         Heard(c, behind, task[Home], wanted)
  PROVE  HeardInv'
<1>1. MembersHeard'
  BY DEF HeardInv, MembersHeard
<1>2. ASSUME NEW j \in Queries PROVE Heard(q'[j], behind, task[Home], wanted)
  BY DEF HeardInv, QueriesHeard, TypeOK
<1>3. QueriesHeard'
  BY <1>2 DEF QueriesHeard
<1> QED
  BY <1>1, <1>3 DEF HeardInv

\* A query that is over says nothing any more.
LEMMA DoneHeard ==
  ASSUME NEW c \in QueryRecords, NEW late, NEW here, NEW state
  PROVE  Heard([c EXCEPT !.at = "done", !.from = {}, !.start = FALSE, !.mixed = FALSE],
               late, here, state)
BY DEF Heard, QueryRecords

\* A member that answers a query under which nothing has changed says what users want.
LEMMA ResponseHeard ==
  ASSUME TypeOK, HeardInv, NEW n \in Nodes, behind = {}, task[Home] = "none"
  PROVE  \A a \in Response(n) : a.state = wanted
<1>1. CASE n = Home
  BY <1>1 DEF Response
<1>2. CASE n # Home
  BY <1>2 DEF Response, isMemberOfAgreement, HeardInv, MembersHeard
<1> QED
  BY <1>1, <1>2

\* A step of a query, of an answer or of a copy.
LEMMA HeardStep ==
  ASSUME TypeOK, QueriesTied, HeardInv, NEW i \in Queries, QuerySteps(i)
  PROVE HeardInv'
<1>1. /\ q \in [Queries -> QueryRecords] /\ q[i] \in QueryRecords /\ Tied(q[i])
      /\ Heard(q[i], behind, task[Home], wanted)
  BY DEF TypeOK, QueriesTied, HeardInv, QueriesHeard
<1>2. ASSUME NEW n \in Nodes, handleTaskStateQuery(n, i) PROVE HeardInv'
  <2> DEFINE c == [q[i] EXCEPT !.heard = q[i].heard \cup {n}, !.sent = q[i].sent \cup Response(n)]
  <2>1. UNCHANGED <<member, behind, wanted, task>> /\ q[i].open
    BY <1>2 DEF handleTaskStateQuery, tasks
  <2>2. /\ c.at = q[i].at /\ c.mixed = q[i].mixed /\ c.closed = q[i].closed /\ c.start = q[i].start
        /\ c.found = q[i].found /\ c.from = q[i].from /\ c.sent = q[i].sent \cup Response(n)
    BY <1>1 DEF QueryRecords
  <2>3. q' = [q EXCEPT ![i] = c]
    BY <1>1, <1>2 DEF handleTaskStateQuery
  <2>4. behind = {} /\ task[Home] = "none" => \A a \in Response(n) : a.state = wanted
    BY ResponseHeard
  <2> HIDE DEF c
  <2>5. Heard(c, behind, task[Home], wanted)
    BY <1>1, <2>1, <2>2, <2>4 DEF Heard, Tied
  <2> QED
    BY <2>1, <2>3, <2>5, QueryHeard
<1>3. ASSUME NEW a \in q[i].sent, FindQuery(i, a) PROVE HeardInv'
  <2> DEFINE c == [q[i] EXCEPT !.found = q[i].found \cup {a}]
  <2>1. UNCHANGED <<member, behind, wanted, task>> /\ q' = [q EXCEPT ![i] = c]
    BY <1>1, <1>3 DEF FindQuery, tasks
  <2>2. Heard(c, behind, task[Home], wanted)
    BY <1>1 DEF Heard, QueryRecords
  <2> QED
    BY <2>1, <2>2, QueryHeard
<1>4. ASSUME NEW a \in q[i].found, TakeAnswer(i, a) PROVE HeardInv'
  <2> DEFINE c == [q[i] EXCEPT !.found = q[i].found \ {a}, !.from = q[i].from \cup {a}]
  <2>1. UNCHANGED <<member, behind, wanted, task>>
    BY <1>4 DEF TakeAnswer, tasks
  <2>2. CASE q[i].closed
    BY <1>4, <2>1, <2>2 DEF TakeAnswer, HeardInv, MembersHeard, QueriesHeard
  <2>3. CASE ~q[i].closed
    <3>1. q' = [q EXCEPT ![i] = c]
      BY <1>1, <1>4, <2>3 DEF TakeAnswer
    <3>2. Heard(c, behind, task[Home], wanted)
      BY <1>1, <2>3 DEF Heard, QueryRecords
    <3> QED
      BY <2>1, <3>1, <3>2, QueryHeard
  <2> QED
    BY <2>2, <2>3
<1>5. ASSUME Timeout(i) PROVE HeardInv'
  <2> DEFINE c == [Close(q[i]) EXCEPT !.open = FALSE, !.heard = {}, !.sent = {}]
  <2>1. UNCHANGED <<member, behind, wanted, task>> /\ q' = [q EXCEPT ![i] = c]
    BY <1>5 DEF Timeout, tasks
  <2>2. Heard(c, behind, task[Home], wanted)
    BY <1>1 DEF Heard, QueryRecords, Close
  <2> QED
    BY <2>1, <2>2, QueryHeard
<1>6. ASSUME Conclude(i) PROVE HeardInv'
  <2>1. PICK state \in States(q[i].from) :
          q' = [q EXCEPT ![i].at = "work", ![i].start = (state = "spinning")]
    BY <1>6 DEF Conclude
  <2> DEFINE c == [q[i] EXCEPT !.at = "work", !.start = (state = "spinning")]
  <2>2. /\ UNCHANGED <<member, behind, wanted, task>> /\ q[i].at = "asked" /\ q[i].closed
        /\ q' = [q EXCEPT ![i] = c]
    BY <1>1, <1>6, <2>1 DEF Conclude, tasks
  <2>3. q[i].from # {} => \E a \in q[i].from : a.state = state
    BY <2>1 DEF States
  <2>4. Heard(c, behind, task[Home], wanted)
    BY <1>1, <2>2, <2>3 DEF Heard, QueryRecords
  <2> QED
    BY <2>2, <2>4, QueryHeard
<1>7. ASSUME TakeWork(i) PROVE HeardInv'
  <2> DEFINE c == [q[i] EXCEPT !.at = "copy"]
             d == [q[i] EXCEPT !.at = "done", !.from = {}, !.start = FALSE, !.mixed = FALSE]
  <2>1. /\ UNCHANGED <<member, behind, wanted, task>> /\ q[i].at = "work"
        /\ q' = [q EXCEPT ![i] = c] \/ q' = [q EXCEPT ![i] = d]
    BY <1>1, <1>7 DEF TakeWork, Done, tasks
  <2>2. Heard(c, behind, task[Home], wanted)
    BY <1>1, <2>1 DEF Heard, QueryRecords
  <2>3. Heard(d, behind, task[Home], wanted)
    BY <1>1, DoneHeard
  <2> HIDE DEF c, d
  <2> QED
    BY <2>1, <2>2, <2>3, QueryHeard
<1>8. ASSUME Copy(i) PROVE HeardInv'
  <2> DEFINE d == [q[i] EXCEPT !.at = "done", !.from = {}, !.start = FALSE, !.mixed = FALSE]
  <2>1. UNCHANGED <<member, behind, wanted>> /\ q' = [q EXCEPT ![i] = d]
    BY <1>8 DEF Copy, Done
  <2>2. task'[Home] # "none" /\ \A n \in Members : task'[n] = task[n]
    BY <1>8, BoundsAssumption DEF Copy, TypeOK, Nodes
  <2>3. MembersHeard'
    BY <2>1, <2>2 DEF HeardInv, MembersHeard, TypeOK
  <2>4. Heard(d, behind, task'[Home], wanted)
    BY <1>1, DoneHeard
  <2> HIDE DEF d
  <2>5. ASSUME NEW j \in Queries PROVE Heard(q'[j], behind, task'[Home], wanted)
    <3>1. CASE j = i
      BY <1>1, <2>1, <2>4, <3>1
    <3>2. CASE j # i
      <4>1. q'[j] = q[j] /\ Heard(q[j], behind, task[Home], wanted)
        BY <1>1, <2>1, <3>2 DEF HeardInv, QueriesHeard
      <4> QED
        BY <2>2, <4>1 DEF Heard
    <3> QED
      BY <3>1, <3>2
  <2>6. QueriesHeard'
    BY <2>1, <2>5 DEF QueriesHeard
  <2> QED
    BY <2>3, <2>6 DEF HeardInv
<1>9. ASSUME CopyCrashes(i) PROVE HeardInv'
  BY <1>9 DEF CopyCrashes, tasks, HeardInv, MembersHeard, QueriesHeard
<1> QED
  BY <1>2, <1>3, <1>4, <1>5, <1>6, <1>7, <1>8, <1>9 DEF QuerySteps

\* Every step: one that changes the task marks the queries under way.
LEMMA HeardKept == TypeOK /\ QueriesTied /\ HeardInv /\ [Next]_vars => HeardInv'
<1> SUFFICES ASSUME TypeOK, QueriesTied, HeardInv, [Next]_vars PROVE HeardInv'
  OBVIOUS
<1>1. q \in [Queries -> QueryRecords] /\ \A j \in Queries : q[j] \in QueryRecords
  BY DEF TypeOK
<1>2. CASE UNCHANGED <<member, behind, wanted, task, q>>
  BY <1>2 DEF HeardInv, MembersHeard, QueriesHeard
<1>3. ASSUME NEW r, Handle(r) PROVE HeardInv'
  <2>1. PICK asks : q' = Asked(asks)
    BY <1>3 DEF Handle
  <2>2. UNCHANGED <<member, behind, wanted, task>>
    BY <1>3 DEF Handle, tasks
  <2>3. ASSUME NEW j \in Queries PROVE Heard(q'[j], behind, task[Home], wanted)
    <3>1. \/ q'[j] = q[j]
          \/ /\ q[j].at = "none"
             /\ q'[j] = [q[j] EXCEPT !.at = "asked", !.open = TRUE, !.mixed = behind # {}]
      BY <2>1 DEF Asked
    <3>2. Heard(q[j], behind, task[Home], wanted)
      BY DEF HeardInv, QueriesHeard
    <3> QED
      BY <1>1, <3>1, <3>2 DEF Heard, QueryRecords
  <2> QED
    BY <2>2, <2>3 DEF HeardInv, MembersHeard, QueriesHeard
<1>4. ASSUME Change PROVE HeardInv'
  <2>1. UNCHANGED <<member, task>> /\ member \subseteq behind'
    BY <1>4 DEF Change
  <2>2. ASSUME NEW j \in Queries PROVE Heard(q'[j], behind', task'[Home], wanted')
    <3>1. \/ q'[j] = q[j] /\ q[j].at \in {"none", "done"}
          \/ q'[j] = [q[j] EXCEPT !.mixed = TRUE] /\ q[j].at \notin {"none", "done"}
      BY <1>4 DEF Change
    <3>2. Heard(q[j], behind, task[Home], wanted)
      BY DEF HeardInv, QueriesHeard
    <3> QED
      BY <1>1, <3>1, <3>2 DEF Heard, QueryRecords
  <2> QED
    BY <2>1, <2>2 DEF HeardInv, MembersHeard, QueriesHeard
<1>5. ASSUME NEW n \in Nodes, HearChange(n) PROVE HeardInv'
  <2>1. /\ UNCHANGED <<member, wanted, q>> /\ behind' = behind \ {n}
        /\ \A m \in Nodes : task'[m] = IF m = n /\ task[m] # "none" THEN wanted ELSE task[m]
    BY <1>5 DEF HearChange, TypeOK
  <2>2. MembersHeard'
    BY <2>1 DEF HeardInv, MembersHeard, TypeOK, Nodes, TaskStates
  <2>3. task'[Home] = "none" => task[Home] = "none"
    BY <2>1 DEF Nodes, TypeOK, TaskStates
  <2>4. ASSUME NEW j \in Queries PROVE Heard(q'[j], behind', task'[Home], wanted')
    <3>1. Heard(q[j], behind, task[Home], wanted)
      BY DEF HeardInv, QueriesHeard
    <3> QED
      BY <2>1, <2>3, <3>1 DEF Heard
  <2> QED
    BY <2>2, <2>4 DEF HeardInv, QueriesHeard
<1>6. ASSUME NEW n \in Nodes, MemberLeaves(n) PROVE HeardInv'
  <2>1. /\ UNCHANGED <<wanted, task, q>>
        /\ member' = member \ {n} /\ behind' = behind \ {n}
    BY <1>6 DEF MemberLeaves
  <2>2. ASSUME NEW j \in Queries PROVE Heard(q'[j], behind', task'[Home], wanted')
    <3>1. Heard(q[j], behind, task[Home], wanted)
      BY DEF HeardInv, QueriesHeard
    <3> QED
      BY <2>1, <3>1 DEF Heard
  <2> QED
    BY <2>1, <2>2 DEF HeardInv, MembersHeard, QueriesHeard
<1>7. CASE Next
  <2>1. ASSUME NEW op, NEW allowed, Begin(op, allowed)
        PROVE UNCHANGED <<member, behind, wanted, task, q>>
    BY <2>1 DEF Begin, tasks
  <2> QED
    BY <1>2, <1>3, <1>4, <1>5, <1>6, <1>7, <2>1, HeardStep, NextSplits
<1> QED
  BY <1>2, <1>7 DEF vars

\* A query that was to be copied is done.
Copied(i) == q[i].at = "copy" /\ q'[i].at = "done"

\* A step of a query changes that query only.
LEMMA QueryMoves ==
  ASSUME TypeOK, NEW j \in Queries, QuerySteps(j)
  PROVE  q' = q \/ \E c : q' = [q EXCEPT ![j] = c]
<1>1. q \in [Queries -> QueryRecords]
  BY DEF TypeOK
<1>2. ASSUME NEW n \in Nodes, handleTaskStateQuery(n, j)
      PROVE  \E c : q' = [q EXCEPT ![j] = c]
  <2>1. q' = [q EXCEPT ![j] = [q[j] EXCEPT !.heard = q[j].heard \cup {n},
                                           !.sent = q[j].sent \cup Response(n)]]
    BY <1>1, <1>2 DEF handleTaskStateQuery
  <2> QED
    BY <2>1
<1>3. ASSUME NEW a, FindQuery(j, a) PROVE \E c : q' = [q EXCEPT ![j] = c]
  BY <1>1, <1>3 DEF FindQuery
<1>4. ASSUME NEW a, TakeAnswer(j, a) PROVE q' = q \/ \E c : q' = [q EXCEPT ![j] = c]
  <2>1. \/ q' = q
        \/ q' = [q EXCEPT ![j] = [q[j] EXCEPT !.found = q[j].found \ {a},
                                              !.from = q[j].from \cup {a}]]
    BY <1>1, <1>4 DEF TakeAnswer
  <2> QED
    BY <2>1
<1>5. ASSUME Conclude(j) PROVE \E c : q' = [q EXCEPT ![j] = c]
  <2>1. PICK state : q' = [q EXCEPT ![j].at = "work", ![j].start = (state = "spinning")]
    BY <1>5 DEF Conclude
  <2>2. q' = [q EXCEPT ![j] = [q[j] EXCEPT !.at = "work", !.start = (state = "spinning")]]
    BY <1>1, <2>1
  <2> QED
    BY <2>2
<1>6. ASSUME Timeout(j) \/ TakeWork(j) \/ Copy(j) \/ CopyCrashes(j)
      PROVE  q' = q \/ \E c : q' = [q EXCEPT ![j] = c]
  BY <1>1, <1>6 DEF Timeout, TakeWork, Copy, CopyCrashes, Done
<1> QED
  BY <1>2, <1>3, <1>4, <1>5, <1>6 DEF QuerySteps

\* Only the worker of a query makes a copy for it.
LEMMA OnlyCopyCopies ==
  ASSUME TypeOK, [Next]_vars, NEW i \in Queries, Copied(i)
  PROVE  Copy(i)
<1>1. q \in [Queries -> QueryRecords] /\ \A j \in Queries : q[j] \in QueryRecords
  BY DEF TypeOK
<1>2. q'[i].at # q[i].at
  BY DEF Copied
<1>3. ~\E r : Handle(r)
  BY <1>1 DEF Copied, Handle, Asked, QueryRecords
<1>4. ~Change
  BY <1>1, <1>2 DEF Copied, Change, QueryRecords
<1>5. PICK j \in Queries : QuerySteps(j)
  <2>1. Next
    BY <1>2 DEF vars
  <2>2. ~\E op \in Ops : \E allowed : Begin(op, allowed)
    BY <1>2 DEF Begin
  <2>3. ~\E n \in Nodes : HearChange(n) \/ MemberLeaves(n)
    BY <1>2 DEF HearChange, MemberLeaves
  <2> QED
    BY <1>3, <1>4, <2>1, <2>2, <2>3, NextSplits
<1>6. j = i
  <2>1. q' = q \/ \E c : q' = [q EXCEPT ![j] = c]
    BY <1>5, QueryMoves
  <2> QED
    BY <1>1, <1>2, <2>1
<1>7. ~\E n \in Nodes : handleTaskStateQuery(n, i)
  BY <1>1, <1>2 DEF handleTaskStateQuery, QueryRecords
<1>8. ~\E a : FindQuery(i, a) \/ TakeAnswer(i, a)
  <2>1. ASSUME NEW a, FindQuery(i, a) PROVE FALSE
    <3>1. q'[i] = [q[i] EXCEPT !.found = q[i].found \cup {a}]
      BY <1>1, <2>1 DEF FindQuery
    <3> QED
      BY <1>1, <1>2, <3>1 DEF QueryRecords
  <2>2. ASSUME NEW a, TakeAnswer(i, a) PROVE FALSE
    <3>1. q'[i] = [q[i] EXCEPT !.found = q[i].found \ {a}, !.from = q[i].from \cup {a}]
      BY <1>1, <1>2, <2>2 DEF TakeAnswer
    <3> QED
      BY <1>1, <1>2, <3>1 DEF QueryRecords
  <2> QED
    BY <2>1, <2>2
<1>9. ~Timeout(i)
  <2> SUFFICES ASSUME Timeout(i) PROVE FALSE
    OBVIOUS
  <2>1. q'[i] = [Close(q[i]) EXCEPT !.open = FALSE, !.heard = {}, !.sent = {}]
    BY <1>1 DEF Timeout
  <2> QED
    BY <1>1, <1>2, <2>1 DEF Close, QueryRecords
<1>10. ~Conclude(i) /\ ~TakeWork(i) /\ ~CopyCrashes(i)
  BY <1>2 DEF Copied, Conclude, TakeWork, CopyCrashes
<1> QED
  BY <1>5, <1>6, <1>7, <1>8, <1>9, <1>10 DEF QuerySteps

\* A copy of the task is started exactly if the members run it, when one of them
\* at least has answered in time and nobody started or stopped it meanwhile
\* (tribe.go, handleTaskStateQuery; worker.go, createTask), for any nodes, and
\* however many queries, leavers and changes of the agreement there are.
THEOREM MembersFollowed == Spec => FollowsTheMembers
<1> DEFINE Follows ==
      \A i \in Queries :
        /\ task[Home] = "none" /\ q[i].at = "copy" /\ q'[i].at = "done"
        /\ q[i].from # {} /\ ~q[i].mixed
        => task'[Home] = wanted
<1>1. TypeOK /\ HeardInv /\ [Next]_vars => Follows
  <2> SUFFICES ASSUME TypeOK, HeardInv, [Next]_vars, NEW i \in Queries,
                      task[Home] = "none", q[i].at = "copy", q'[i].at = "done",
                      q[i].from # {}, ~q[i].mixed
               PROVE  task'[Home] = wanted
    OBVIOUS
  <2>1. Copy(i)
    BY OnlyCopyCopies DEF Copied
  <2>2. q[i].start = (wanted = "spinning")
    BY DEF HeardInv, QueriesHeard, Heard
  <2>3. task'[Home] = IF q[i].start THEN "spinning" ELSE "stopped"
    BY <2>1 DEF Copy, TypeOK, Nodes
  <2> QED
    BY <2>2, <2>3 DEF TypeOK, TaskStates
<1>2. Init => QueriesTied
  BY DEF Init, NoQuery, QueriesTied, Tied
<1> QED
  BY <1>1, <1>2, HeardInit, HeardKept, TiedKept, TypeCorrect, PTL DEF Spec, FollowsTheMembers
=============================================================================
