------------------------------- MODULE Tribe -------------------------------
(***************************************************************************)
(* mgmt/tribe: daemons that share plugins and tasks through agreements.    *)
(* A call stamps a message with a Lamport clock, handles it like any other *)
(* and gossips it.  A message that cannot be applied yet is kept as an     *)
(* intent and tried again after every message that could be (tribe.go).    *)
(* Nodes also exchange their full state, when they start and from time to  *)
(* time (delegate.go).                                                     *)
(*                                                                         *)
(* The state of a node is a record and a handler a function on it.  The    *)
(* gossip of memberlist is modelled from its use: what a node has queued   *)
(* reaches the others at any time, any number of times, or never.          *)
(***************************************************************************)
EXTENDS Integers, Sequences, SequencesExt, FiniteSetsExt

CONSTANTS
  Nodes, Agreements, Plugins, Tasks,
  None,
  BufferSize,  \* len(msgBuffer), 512 in the code
  Word,        \* clocks are unsigned and wrap at Word, 2^64 in the code
  MaxMsgs,     \* bound: messages issued
  MaxAccepted, \* bound: how often one node accepts one message
  MaxRare      \* bound: crashes, periodic exchanges of the full state and
               \* departures of nodes that run

ASSUME TribeAssumption ==
  /\ BufferSize \in Nat \ {0} /\ MaxMsgs \in Nat /\ MaxAccepted \in Nat
  /\ MaxRare \in Nat
  /\ Word \in Nat /\ Word > 2 * MaxMsgs + BufferSize
  /\ None \notin Nodes \cup Agreements \cup Plugins \cup Tasks

PluginTypes == {"addPlugin", "removePlugin"}
TaskTypes == {"addTask", "removeTask", "startTask", "stopTask"}
MemberTypes == {"join", "leave"}
AgreementTypes == {"addAgreement", "removeAgreement"} \cup MemberTypes
Types == PluginTypes \cup TaskTypes \cup AgreementTypes

Ids == 1..MaxMsgs
Subjects(type) ==
  CASE type \in PluginTypes -> Plugins
    [] type \in TaskTypes -> Tasks
    [] type \in MemberTypes -> Nodes
    [] OTHER -> {None}

VARIABLES
  node,    \* the state of every node
  calls,   \* calls whose message is stamped and not handled yet
  queued,  \* the messages every node has given to the gossip
  issued,  \* how many messages there have been
  rare     \* how many of the events MaxRare bounds there have been

vars == <<node, calls, queued, issued, rare>>

NoAgreement == [exists |-> FALSE, plugins |-> {}, tasks |-> {}, members |-> {}]
NewAgreement == [NoAgreement EXCEPT !.exists = TRUE]

\* A member's PluginAgreement points to an agreement, or (live is FALSE) to one
\* that has been removed or to a copy that came with another node's state.
NoPointer == [agr |-> None, live |-> FALSE, full |-> FALSE]

\* work: what the workers have been asked to do.  Two histories: accepted, how
\* often the node (or the one it has its state from) has taken each message for
\* a new one; restarted, whether it has been down before.
Fresh(n) ==
  [up |-> "up", clock |-> 0, msgs |-> [i \in 0..BufferSize - 1 |-> None],
   intents |-> <<>>, agr |-> [a \in Agreements |-> NoAgreement],
   members |-> {n}, plugin |-> [m \in Nodes |-> NoPointer],
   task |-> [m \in Nodes |-> {}], cache |-> {}, work |-> {},
   accepted |-> [i \in Ids |-> 0], restarted |-> FALSE]
Stopped(n) == [Fresh(n) EXCEPT !.up = "down"]

Init ==
  /\ \E first \in Nodes :
       node = [n \in Nodes |-> IF n = first THEN Fresh(n) ELSE Stopped(n)]
  /\ calls = {} /\ queued = [n \in Nodes |-> {}]
  /\ issued = 0 /\ rare = 0
-----------------------------------------------------------------------------
(* The clock and the messages seen.                                         *)

Update(c, t) == IF t < c THEN c ELSE (t + 1) % Word

Slot(m) == m.time % BufferSize
IsDuplicateLate(s, m) ==
  \/ s.clock > BufferSize /\ m.time < s.clock - BufferSize - 1
  \/ s.msgs[Slot(m)] = m
IsDuplicate(s, m) ==
  \/ s.clock > BufferSize /\ m.time < s.clock - BufferSize
  \/ s.msgs[Slot(m)] = m
-----------------------------------------------------------------------------
(* Joining and leaving agreements.                                          *)

HasPlugins(s, m) ==
  LET p == s.plugin[m]
  IN p.agr # None /\ (IF p.live THEN s.agr[p.agr].plugins # {} ELSE p.full)

CanJoinAgreement(s, a, m) ==
  s.agr[a].exists /\ m \in s.members /\ ~HasPlugins(s, m)
CanLeaveAgreement(s, a, m) ==
  s.agr[a].exists /\ m \in s.members /\ s.plugin[m].agr # None

\* The node that joins has its workers fetch what the agreement has.  (That is
\* done by a goroutine; what comes later has requests of its own.)
JoinNoFetch(s, n, a, m) ==
  [s EXCEPT !.plugin[m] = [agr |-> a, live |-> TRUE, full |-> FALSE],
            !.task[m] = @ \cup {a},
            !.agr[a].members = @ \cup {m}]
Join(s, n, a, m) ==
  [s EXCEPT !.plugin[m] = [agr |-> a, live |-> TRUE, full |-> FALSE],
            !.task[m] = @ \cup {a},
            !.agr[a].members = @ \cup {m},
            !.work = IF m # n THEN @
                     ELSE @ \cup ({"load"} \X s.agr[a].plugins)
                            \cup ({"create"} \X s.agr[a].tasks)]
LeaveKeepsMember(s, a, m) ==
  [s EXCEPT !.plugin[m] = NoPointer, !.task[m] = @ \ {a}]
Leave(s, a, m) ==
  [s EXCEPT !.plugin[m] = NoPointer, !.task[m] = @ \ {a},
            !.agr[a].members = @ \ {m}]

\* Members keep pointing to an agreement that is removed.
RemoveAgreement(s, a) ==
  [s EXCEPT !.agr[a] = NoAgreement,
            !.plugin = [m \in Nodes |->
               IF s.plugin[m].agr = a /\ s.plugin[m].live
               THEN [agr |-> a, live |-> FALSE, full |-> HasPlugins(s, m)]
               ELSE s.plugin[m]]]
-----------------------------------------------------------------------------
(* Whether a message can be applied, and what it does then.                 *)

Applies(s, m) ==
  LET a == s.agr[m.agr]
  IN CASE m.type = "addPlugin"    -> a.exists /\ m.subject \notin a.plugins
       [] m.type = "removePlugin" -> a.exists /\ m.subject \in a.plugins
       [] m.type = "addTask"      -> a.exists /\ m.subject \notin a.tasks
       [] m.type = "removeTask"   -> a.exists /\ m.subject \in a.tasks
       [] m.type = "addAgreement" -> ~a.exists
       [] m.type = "removeAgreement" -> a.exists
       [] m.type = "join"  -> CanJoinAgreement(s, m.agr, m.subject)
       [] m.type = "leave" -> CanLeaveAgreement(s, m.agr, m.subject)
       [] OTHER -> a.exists /\ <<m.type, m.id>> \notin s.cache

Apply(s, n, m) ==
  LET a == m.agr
      x == m.subject
  IN CASE m.type = "addPlugin" ->
            [s EXCEPT !.agr[a].plugins = @ \cup {x}, !.work = @ \cup {<<"load", x>>}]
       [] m.type = "removePlugin" -> [s EXCEPT !.agr[a].plugins = @ \ {x}]
       [] m.type = "addTask" ->
            [s EXCEPT !.agr[a].tasks = @ \cup {x}, !.work = @ \cup {<<"create", x>>}]
       [] m.type = "removeTask" -> [s EXCEPT !.agr[a].tasks = @ \ {x}]
       [] m.type = "addAgreement" -> [s EXCEPT !.agr[a] = NewAgreement]
       [] m.type = "removeAgreement" -> RemoveAgreement(s, a)
       [] m.type = "join" -> Join(s, n, a, x)
       [] m.type = "leave" -> Leave(s, a, x)
       [] OTHER -> [s EXCEPT !.cache = @ \cup {<<m.type, m.id>>},
                             !.work = @ \cup {<<m.type, x>>}]

\* The order in which the kinds of intent are looked at.  Leave intents never
\* are: the function meant for them looks for joins, which the one before it
\* has dealt with (tribe.go:841).
Order == <<"addPlugin", "removePlugin", "addAgreement", "join", "addTask", "removeTask">>

\* A join is tried as soon as the member and the agreement are known.
Ready(s, m) ==
  IF m.type = "join" THEN s.agr[m.agr].exists /\ m.subject \in s.members
                     ELSE Applies(s, m)

\* One round of processIntents.  Applying an intent ends the round, and so does
\* a join that fails: it is tried again for ever, with the mutex held.
ProcessOne(s, n) ==
  LET ready(r) == {i \in DOMAIN s.intents : s.intents[i].type = Order[r]
                                            /\ Ready(s, s.intents[i])}
      ranks == {r \in DOMAIN Order : ready(r) # {}}
  IN IF s.up # "up" \/ ranks = {} THEN s
     ELSE LET i == Min(ready(Min(ranks)))
              m == s.intents[i]
          IN IF Applies(s, m)
             THEN [Apply(s, n, m) EXCEPT !.intents = RemoveAt(@, i)]
             ELSE [s EXCEPT !.up = "hung"]

ProcessNothing(s, n) == s
ProcessIntents(s, n) ==
  FoldLeft(LAMBDA t, m : ProcessOne(t, n), s, Append(s.intents, None))
-----------------------------------------------------------------------------
(* The handlers.  Starting and stopping a task, and removing an agreement,  *)
(* are dropped when they do not apply; the others become intents.           *)

\* A removal is also carried out, unless it was an intent: the task workers are
\* asked at once, the plugin is unloaded after the intents.
AskRemove(s, m) ==
  IF m.type = "removeTask" THEN [s EXCEPT !.work = @ \cup {<<"remove", m.subject>>}] ELSE s
Unload(s, m) ==
  IF m.type = "removePlugin" /\ s.up = "up"
  THEN [s EXCEPT !.work = @ \cup {<<"unload", m.subject>>}] ELSE s

Handle(s, n, m) ==
  LET t == [s EXCEPT !.clock = Update(@, m.time)]
      u == [t EXCEPT !.msgs[Slot(m)] = m, !.accepted[m.id] = @ + 1]
  IN IF IsDuplicate(t, m) THEN t
     ELSE IF m.type \in {"startTask", "stopTask"}
          THEN IF Applies(u, m) THEN Apply(u, n, m) ELSE u
     ELSE IF Applies(u, m)
          THEN Unload(ProcessIntents(AskRemove(Apply(u, n, m), m), n), m)
     ELSE IF m.type = "removeAgreement" THEN u
     ELSE [u EXCEPT !.intents = Append(@, m)]

\* Whether the handler has the message broadcast.  A start or a stop that the
\* cache still holds is not sent again.
Forwards(s, n, m) ==
  /\ ~IsDuplicate([s EXCEPT !.clock = Update(@, m.time)], m)
  /\ <<m.type, m.id>> \in s.cache => ~s.agr[m.agr].exists
  /\ Handle(s, n, m).up = "up"

\* The bound on repeated messages.
MayHandle(s, m) == s.up = "up" /\ s.accepted[m.id] < MaxAccepted
-----------------------------------------------------------------------------
(* Calls and messages.                                                      *)

\* What a call tests, without the mutex, before it stamps its message.
CallAllowed(s, type, a, x) ==
  CASE type \in PluginTypes -> s.agr[a].exists
    [] type \in {"startTask", "stopTask"} -> s.agr[a].exists /\ x \in s.agr[a].tasks
    [] OTHER -> Applies(s, [type |-> type, agr |-> a, subject |-> x])

Call(n, type, a, x) ==
  LET m == [type |-> type, agr |-> a, subject |-> x,
            time |-> (node[n].clock + 1) % Word, id |-> issued + 1]
  IN /\ node[n].up = "up" /\ issued < MaxMsgs
     /\ CallAllowed(node[n], type, a, x)
     /\ issued' = issued + 1
     /\ node' = [node EXCEPT ![n].clock = m.time]
     /\ calls' = calls \cup {[node |-> n, msg |-> m]}
     /\ UNCHANGED <<queued, rare>>

Take(n, m) ==
  /\ MayHandle(node[n], m)
  /\ node' = [node EXCEPT ![n] = Handle(@, n, m)]
  /\ queued' = [queued EXCEPT ![n] =
       IF Forwards(node[n], n, m) THEN @ \cup {m} ELSE @]
  /\ UNCHANGED <<issued, rare>>

HandleCall(c) == Take(c.node, c.msg) /\ calls' = calls \ {c}
NotifyMsg(n, k, m) == n # k /\ m \in queued[k] /\ Take(n, m) /\ UNCHANGED calls

\* Entries of taskStartStopCache time out.
CacheExpires(n, e) ==
  /\ e \in node[n].cache
  /\ node' = [node EXCEPT ![n].cache = @ \ {e}]
  /\ UNCHANGED <<calls, queued, issued, rare>>
-----------------------------------------------------------------------------
(* Members, and the exchange of the full state.  LocalState takes no mutex, *)
(* so a node that hangs still sends its own.                                *)

Runs(s) == s.up \in {"up", "hung"}
Panicked(n) == [Stopped(n) EXCEPT !.up = "panic", !.restarted = TRUE]
CallsNotOf(n) == {c \in calls : c.node # n}

HandleMemberJoin(n, m) ==
  /\ m # n /\ node[n].up = "up" /\ Runs(node[m])
  /\ node' = [node EXCEPT ![n] = ProcessIntents([@ EXCEPT !.members = @ \cup {m}], n)]
  /\ UNCHANGED <<calls, queued, issued, rare>>

\* memberlist may give up on a node that runs.  Looking up an agreement that no
\* longer exists is a nil dereference and ends the process.
HandleMemberLeave(n, m) ==
  LET s == node[n]
      named == s.task[m] \cup ({s.plugin[m].agr} \ {None})
      panics == \E a \in named : ~s.agr[a].exists
  IN /\ m # n /\ s.up = "up" /\ m \in s.members
     /\ node' = [node EXCEPT ![n] =
          IF panics THEN Panicked(n)
          ELSE [s EXCEPT !.members = @ \ {m}, !.plugin[m] = NoPointer, !.task[m] = {},
                         !.agr = [a \in Agreements |-> IF a \in named
                                    THEN [s.agr[a] EXCEPT !.members = @ \ {m}]
                                    ELSE s.agr[a]]]]
     /\ calls' = IF panics THEN CallsNotOf(n) ELSE calls
     /\ Runs(node[m]) => rare < MaxRare
     /\ rare' = IF Runs(node[m]) THEN rare + 1 ELSE rare
     /\ UNCHANGED <<queued, issued>>

\* The state of k as a node that starts takes it over.  What was a pointer in k
\* has become a copy.
Merged(n, k) ==
  LET s == node[k]
      copy(m) == [agr |-> s.plugin[m].agr, live |-> FALSE, full |-> HasPlugins(s, m)]
  IN [Fresh(n) EXCEPT !.clock = Update(@, (s.clock - 1) % Word),
                      !.agr = s.agr, !.msgs = s.msgs,
                      !.members = @ \cup s.members,
                      !.plugin = [m \in Nodes |-> copy(m)],
                      !.task = s.task,
                      !.accepted = s.accepted, !.restarted = node[n].restarted]

\* A node starts with another one as its seed.  The new node's intentBuffer is
\* empty and assigning to its elements panics, so a seed that has intents ends
\* the process.  (A seed ignores the state of a node whose clock is 0.)
Start(n, k) ==
  /\ n # k /\ ~Runs(node[n]) /\ Runs(node[k])
  /\ node' = [node EXCEPT ![n] =
       IF node[k].intents = <<>> THEN Merged(n, k)
       ELSE Panicked(n)]
  /\ UNCHANGED <<calls, queued, issued, rare>>

\* From time to time a node handles again what is in the buffer of another:
\* plugins first, then agreements, then tasks.  Nothing is rebroadcast.
Remembered(s) ==
  LET slots == [i \in 1..BufferSize |-> s.msgs[i - 1]]
      of(types) == SelectSeq(slots, LAMBDA m : m # None /\ m.type \in types)
  IN of(PluginTypes) \o of(AgreementTypes) \o of(TaskTypes)

Sync(n, k) ==
  LET s == [node[n] EXCEPT !.clock = Update(@, (node[k].clock - 1) % Word)]
      step(t, m) == IF t.up = "up" THEN Handle(t, n, m) ELSE t
      final == FoldLeft(step, s, Remembered(node[k]))
  IN /\ n # k /\ node[n].up = "up" /\ Runs(node[k])
     /\ node[n].clock <= node[k].clock
     /\ rare < MaxRare
     /\ \A i \in Ids : final.accepted[i] <= MaxAccepted
     /\ node' = [node EXCEPT ![n] = final]
     /\ rare' = rare + 1
     /\ UNCHANGED <<calls, queued, issued>>

Crash(n) ==
  /\ Runs(node[n]) /\ rare < MaxRare
  /\ node' = [node EXCEPT ![n] = [Stopped(n) EXCEPT !.restarted = TRUE]]
  /\ calls' = CallsNotOf(n)
  /\ rare' = rare + 1
  /\ UNCHANGED <<queued, issued>>

Next ==
  \/ \E n \in Nodes, type \in Types, a \in Agreements :
       \E x \in Subjects(type) : Call(n, type, a, x)
  \/ \E c \in calls : HandleCall(c)
  \/ \E n, k \in Nodes : \E m \in queued[k] : NotifyMsg(n, k, m)
  \/ \E n \in Nodes : \E e \in node[n].cache : CacheExpires(n, e)
  \/ \E n, m \in Nodes : HandleMemberJoin(n, m)
  \/ \E n, m \in Nodes : HandleMemberLeave(n, m)
  \/ \E n, k \in Nodes : Start(n, k)
  \/ \E n, k \in Nodes : Sync(n, k)
  \/ \E n \in Nodes : Crash(n)

Spec == Init /\ [][Next]_vars
-----------------------------------------------------------------------------
\* Every message there has been that some node still holds.
Known == {c.msg : c \in calls} \cup UNION {queued[n] : n \in Nodes}
           \cup UNION {Range(node[n].msgs) \ {None} : n \in Nodes}

\* isDuplicate keeps a node from handling a message twice, whatever the order
\* and the number of its copies, unless another message bears the same time: the
\* slot of msgBuffer holds one of them only (tribe.go:1451-1474).
OnlyTiesRepeat ==
  \A n \in Nodes, i \in Ids :
    node[n].accepted[i] > 1 =>
      \E m, o \in Known : m.id = i /\ o.id # i /\ o.time = m.time

\* The intents make the order of messages irrelevant: nodes that have accepted
\* the same ones as often agree on which agreements there are and on their
\* plugins and tasks, as long as no agreement was removed (tribe.go:692-819).
OrderDoesNotMatter ==
  \A n, k \in Nodes :
    /\ node[n].up = "up" /\ node[k].up = "up"
    /\ node[n].accepted = node[k].accepted
    /\ \A m \in Known : m.type # "removeAgreement"
    => \A a \in Agreements :
         LET x == node[n].agr[a]
             y == node[k].agr[a]
         IN x.exists = y.exists /\ x.plugins = y.plugins /\ x.tasks = y.tasks

\* An agreement's list of members and the members' own lists tell the same:
\* joining, leaving, the loss of a member and the merge of another node's state
\* change both (tribe.go:1076-1088, 1289-1350).
MembershipIsMutual ==
  \A n \in Nodes, a \in Agreements :
    \A m \in node[n].agr[a].members :
      m \in node[n].members /\ a \in node[n].task[m]

\* A member that has not been restarted has asked its workers for every plugin
\* and every task of its agreements, whether it joined before or after they were
\* added and whether or not they came as intents (tribe.go:707-775, 1302-1334).
AgreedIsRequested ==
  \A n \in Nodes, a \in Agreements :
    n \in node[n].agr[a].members /\ ~node[n].restarted =>
      /\ {"load"} \X node[n].agr[a].plugins \subseteq node[n].work
      /\ {"create"} \X node[n].agr[a].tasks \subseteq node[n].work
=============================================================================
