---------------------- MODULE SubscriptionGroupsProofs ----------------------
(***************************************************************************)
(* Proofs about SubscriptionGroups: at rest the catalog has no metrics of  *)
(* plugins that are gone, and every task's view is what catalog and table  *)
(* offer, for every number of callers, tasks, plugins and calls.           *)
(***************************************************************************)
EXTENDS SubscriptionGroups, TLAPS

\* Most leaves need no arithmetic.
USE ZenonT(5), SMTT(15)

-----------------------------------------------------------------------------
(* Loads and the callers that wait for them.                               *)

CallTypes == [pc : {"idle", "wait", "loaded", "unload", "purge", "emit"},
              op : {"none", "load", "swap", "rollback", "unload"},
              in : SUBSET Plugins, out : SUBSET Plugins]
LoadTypes == [pc : {"idle", "run"}, todo : SUBSET UNION {Exposes[p] : p \in Plugins},
              caller : Callers \cup {NoCaller}]

One(S) == \E p \in Plugins : S = {p}

\* A call of Load or SwapPlugins has the plugin it loads, one of UnloadPlugin the
\* one it takes out; what a swap takes back is what it has loaded.
CallOk(r) ==
  /\ r.pc \in {"wait", "loaded"} => r.op \in {"load", "swap"}
  /\ r.pc \in {"unload", "purge"} => r.op \in {"swap", "rollback", "unload"}
  /\ r.pc = "emit" => r.op = "unload"
  /\ r.op \in {"load", "swap", "rollback"} => One(r.in)
  /\ r.op \in {"swap", "rollback", "unload"} => One(r.out)
  /\ r.op = "rollback" => r.out = r.in

\* A goroutine that has somebody to answer is waited for, for its plugin.
LoadOk(p) ==
  load[p].caller # NoCaller =>
    /\ load[p].pc = "run"
    /\ caller[load[p].caller].pc = "wait" /\ caller[load[p].caller].in = {p}

CallsInv ==
  /\ caller \in [Callers -> CallTypes] /\ load \in [Plugins -> LoadTypes]
  /\ \A c \in Callers : CallOk(caller[c])
  /\ \A p \in Plugins : LoadOk(p)

\* A caller that does nothing.
LEMMA NoCallOk == NoCall \in CallTypes /\ CallOk(NoCall) /\ NoCall.pc = "idle"
BY DEF NoCall, CallTypes, CallOk

\* A plugin that nobody loads.
LEMMA NoLoadOk == NoLoad \in LoadTypes /\ NoLoad.pc = "idle" /\ NoLoad.caller = NoCaller
BY DEF NoLoad, LoadTypes

\* A step of a caller that waits for no load.
LEMMA CallerMoves ==
  ASSUME CallsInv, NEW c \in Callers, caller[c].pc # "wait",
         NEW r \in CallTypes, CallOk(r), caller' = [caller EXCEPT ![c] = r], UNCHANGED load
  PROVE  CallsInv'
<1>1. caller' \in [Callers -> CallTypes] /\ load' \in [Plugins -> LoadTypes]
  BY DEF CallsInv
<1>2. \A d \in Callers : CallOk(caller'[d])
  BY DEF CallsInv
<1>3. ASSUME NEW p \in Plugins PROVE LoadOk(p)'
  <2>1. LoadOk(p) /\ load[p].caller \in Callers \cup {NoCaller}
    BY DEF CallsInv, LoadTypes
  <2> QED
    BY <2>1 DEF LoadOk, CallsInv
<1> QED
  BY <1>1, <1>2, <1>3 DEF CallsInv

\* What the steps of a caller make of its call.
SwapChecked(r) ==
  LET same == \A p \in r.in, q \in r.out : Name[p] = Name[q]
  IN [pc |-> "unload", op |-> IF same THEN "swap" ELSE "rollback",
      in |-> r.in, out |-> IF same THEN r.out ELSE r.in]
Unloaded(r) ==
  IF r.out \subseteq table THEN [pc |-> "purge", op |-> r.op, in |-> r.in, out |-> r.out]
  ELSE IF r.op = "swap" THEN [pc |-> r.pc, op |-> "rollback", in |-> r.in, out |-> r.in]
  ELSE NoCall
PurgedCall(r) ==
  IF r.op = "unload" THEN [pc |-> "emit", op |-> r.op, in |-> r.in, out |-> r.out] ELSE NoCall

\* The steps of an unload and of a swap, as functions of the call.
LEMMA CallMoves ==
  ASSUME CallsInv, NEW c \in Callers
  PROVE  /\ SwapCheck(c) => caller' = [caller EXCEPT ![c] = SwapChecked(caller[c])]
         /\ UnloadPlugin(c) => caller' = [caller EXCEPT ![c] = Unloaded(caller[c])]
         /\ RmUnloadedPluginMetrics(c) => caller' = [caller EXCEPT ![c] = PurgedCall(caller[c])]
<1>1. caller \in [Callers -> CallTypes] /\ caller[c] \in CallTypes
  BY DEF CallsInv
<1>2. SwapCheck(c) => caller' = [caller EXCEPT ![c] = SwapChecked(caller[c])]
  <2> DEFINE same == \A p \in caller[c].in, q \in caller[c].out : Name[p] = Name[q]
             op == IF same THEN "swap" ELSE "rollback"
             out == IF same THEN caller[c].out ELSE caller[c].in
  <2>1. SwapCheck(c) => caller' = [caller EXCEPT ![c].pc = "unload", ![c].op = op, ![c].out = out]
    BY <1>1 DEF SwapCheck
  <2>2. SwapChecked(caller[c]) = [pc |-> "unload", op |-> op, in |-> caller[c].in, out |-> out]
    BY DEF SwapChecked
  <2> HIDE DEF op, out
  <2> QED
    BY <1>1, <2>1, <2>2 DEF CallTypes
<1>3. UnloadPlugin(c) => caller' = [caller EXCEPT ![c] = Unloaded(caller[c])]
  BY <1>1 DEF UnloadPlugin, Unloaded, CallTypes
<1>4. RmUnloadedPluginMetrics(c) => caller' = [caller EXCEPT ![c] = PurgedCall(caller[c])]
  BY <1>1 DEF RmUnloadedPluginMetrics, PurgedCall, CallTypes
<1> QED
  BY <1>2, <1>3, <1>4

\* They make calls of calls.
LEMMA CallMovesOk ==
  ASSUME NEW r \in CallTypes, CallOk(r)
  PROVE  /\ r.pc = "loaded" /\ r.op = "swap" => SwapChecked(r) \in CallTypes /\ CallOk(SwapChecked(r))
         /\ r.pc = "unload" => Unloaded(r) \in CallTypes /\ CallOk(Unloaded(r))
         /\ r.pc = "purge" => PurgedCall(r) \in CallTypes /\ CallOk(PurgedCall(r))
<1>1. CASE r.pc = "loaded" /\ r.op = "swap"
  <2>1. SwapChecked(r) \in CallTypes
    BY <1>1 DEF SwapChecked, CallTypes
  <2>2. CallOk(SwapChecked(r))
    BY <1>1 DEF SwapChecked, CallOk
  <2> QED
    BY <1>1, <2>1, <2>2
<1>2. CASE r.pc = "unload"
  <2>1. Unloaded(r) \in CallTypes
    BY <1>2, NoCallOk DEF Unloaded, CallTypes
  <2>2. CallOk(Unloaded(r))
    BY <1>2, NoCallOk DEF Unloaded, CallOk
  <2> QED
    BY <1>2, <2>1, <2>2
<1>3. CASE r.pc = "purge"
  BY <1>3, NoCallOk DEF PurgedCall, CallTypes, CallOk
<1> QED
  BY <1>1, <1>2, <1>3

\* A goroutine is started, with a caller that waits or none.
LEMMA LoadBegins ==
  ASSUME CallsInv, NEW c \in Callers, NEW p \in Plugins, NEW op \in {"load", "swap"},
         NEW out \in SUBSET Plugins, op = "swap" => One(out), LoadPlugin(c, p, op, out)
  PROVE  CallsInv'
<1> DEFINE l(d) == [pc |-> "run", todo |-> Exposes[p], caller |-> d]
           r == [pc |-> "wait", op |-> op, in |-> {p}, out |-> out]
<1>1. caller[c].pc = "idle" /\ \A q \in Plugins : load[q].caller # c
  BY NoCallOk, TasksAssumption DEF LoadPlugin, CallsInv, LoadOk
<1>2. \A d \in Callers \cup {NoCaller} : l(d) \in LoadTypes
  BY DEF LoadTypes
<1>3. r \in CallTypes /\ CallOk(r)
  BY DEF CallTypes, CallOk, One
<1>4. /\ l(c).caller = c /\ l(NoCaller).caller = NoCaller /\ l(c).pc = "run"
      /\ r.pc = "wait" /\ r.in = {p}
  OBVIOUS
<1>5. CASE load' = [load EXCEPT ![p] = l(NoCaller)] /\ UNCHANGED caller
  <2> HIDE DEF l, r
  <2>1. load' \in [Plugins -> LoadTypes]
    BY <1>2, <1>5 DEF CallsInv
  <2>2. \A q \in Plugins : LoadOk(q)'
    BY <1>4, <1>5 DEF CallsInv, LoadOk
  <2> QED
    BY <1>5, <2>1, <2>2 DEF CallsInv
<1>6. CASE load' = [load EXCEPT ![p] = l(c)] /\ caller' = [caller EXCEPT ![c] = r]
  <2> HIDE DEF l, r
  <2>1. load' \in [Plugins -> LoadTypes] /\ caller' \in [Callers -> CallTypes]
    BY <1>2, <1>3, <1>6 DEF CallsInv
  <2>2. \A d \in Callers : CallOk(caller'[d])
    BY <1>3, <1>6 DEF CallsInv
  <2>3. ASSUME NEW q \in Plugins PROVE LoadOk(q)'
    <3>1. CASE q = p
      BY <1>4, <1>6, <3>1 DEF CallsInv, LoadOk
    <3>2. CASE q # p
      <4>1. load'[q] = load[q] /\ load[q] \in LoadTypes /\ load[q].caller # c
        BY <1>1, <1>6, <3>2 DEF CallsInv
      <4> QED
        BY <1>6, <4>1 DEF CallsInv, LoadOk, LoadTypes
    <3> QED
      BY <3>1, <3>2
  <2> QED
    BY <2>1, <2>2, <2>3 DEF CallsInv
<1> QED
  BY <1>5, <1>6 DEF LoadPlugin

\* A goroutine ends and answers whoever waits for it.
AnsweredCall(r, pc) ==
  IF pc = "idle" THEN NoCall ELSE [pc |-> pc, op |-> r.op, in |-> r.in, out |-> r.out]

\* The answer of a load goes to the one caller that waits for it, if any.
LEMMA AnswerMoves ==
  ASSUME CallsInv, NEW p \in Plugins, NEW pc \in {"loaded", "idle"}, Answer(p, pc)
  PROVE  \/ load[p].caller = NoCaller /\ UNCHANGED caller
         \/ /\ load[p].caller \in Callers
            /\ caller' = [caller EXCEPT ![load[p].caller] = AnsweredCall(caller[load[p].caller], pc)]
<1>1. load[p].caller \in Callers \cup {NoCaller} /\ caller \in [Callers -> CallTypes]
  BY DEF CallsInv, LoadTypes
<1>2. CASE load[p].caller = NoCaller
  BY <1>2 DEF Answer
<1>3. CASE load[p].caller \in Callers
  <2> DEFINE c == load[p].caller
  <2>1. c \in Callers /\ c # NoCaller
    BY <1>3, TasksAssumption
  <2>2. caller' = [caller EXCEPT ![c] = IF pc = "idle" THEN NoCall ELSE [caller[c] EXCEPT !.pc = pc]]
    BY <1>1, <2>1 DEF Answer
  <2>3. [caller[c] EXCEPT !.pc = pc] = [pc |-> pc, op |-> caller[c].op,
                                        in |-> caller[c].in, out |-> caller[c].out]
    BY <1>1, <2>1 DEF CallTypes
  <2> QED
    BY <2>1, <2>2, <2>3 DEF AnsweredCall
<1> QED
  BY <1>1, <1>2, <1>3

\* A load that ends leaves nobody waiting.
LEMMA LoadEnds ==
  ASSUME CallsInv, NEW p \in Plugins, NEW pc \in {"loaded", "idle"}, Answer(p, pc),
         load' = [load EXCEPT ![p] = NoLoad]
  PROVE  CallsInv'
<1>1. load' \in [Plugins -> LoadTypes] /\ load'[p].caller = NoCaller
  BY NoLoadOk DEF CallsInv
<1>2. CASE UNCHANGED caller
  <2>1. \A q \in Plugins : LoadOk(q)'
    BY <1>1, <1>2 DEF CallsInv, LoadOk
  <2> QED
    BY <1>1, <1>2, <2>1 DEF CallsInv
<1>3. ASSUME load[p].caller \in Callers,
             caller' = [caller EXCEPT ![load[p].caller] = AnsweredCall(caller[load[p].caller], pc)]
      PROVE  CallsInv'
  <2> DEFINE c == load[p].caller
             r == AnsweredCall(caller[c], pc)
  <2>1. c \in Callers /\ caller[c] \in CallTypes /\ CallOk(caller[c])
    BY <1>3 DEF CallsInv
  <2>2. caller[c].pc = "wait" /\ caller[c].in = {p}
    BY <1>3, TasksAssumption DEF CallsInv, LoadOk
  <2>3. r \in CallTypes
    BY <2>1, NoCallOk DEF AnsweredCall, CallTypes
  <2>4. CallOk(r)
    BY <2>1, <2>2, NoCallOk DEF AnsweredCall, CallOk
  <2> HIDE DEF r
  <2>5. caller' \in [Callers -> CallTypes] /\ \A d \in Callers : CallOk(caller'[d])
    BY <1>3, <2>1, <2>3, <2>4 DEF CallsInv, r
  <2>6. ASSUME NEW q \in Plugins, q # p PROVE LoadOk(q)'
    <3>1. LoadOk(q) /\ load[q] \in LoadTypes /\ load'[q] = load[q]
      BY <2>6 DEF CallsInv
    <3>2. load[q].caller # c
      BY <2>2, <2>6, <3>1, <2>1, TasksAssumption DEF LoadOk
    <3> QED
      BY <1>3, <3>1, <3>2 DEF LoadOk, LoadTypes, CallsInv
  <2>7. LoadOk(p)'
    BY <1>1 DEF LoadOk
  <2> QED
    BY <1>1, <2>5, <2>6, <2>7 DEF CallsInv
<1> QED
  BY <1>2, <1>3, AnswerMoves

\* At first nobody loads.
LEMMA CallsInit == Init => CallsInv
BY NoCallOk, NoLoadOk DEF Init, CallsInv, LoadOk

\* Every step keeps calls and loads in step with each other.
LEMMA CallsStep == CallsInv /\ [Next]_vars => CallsInv'
<1> SUFFICES ASSUME CallsInv, [Next]_vars PROVE CallsInv'
  OBVIOUS
<1>1. ASSUME NEW c \in Callers, NEW p \in Plugins, Load(c, p) PROVE CallsInv'
  BY <1>1, LoadBegins DEF Load
<1>2. ASSUME NEW c \in Callers, NEW p \in Plugins, NEW q \in Plugins, SwapPlugins(c, p, q)
      PROVE  CallsInv'
  <2>1. LoadPlugin(c, p, "swap", {q}) /\ One({q}) /\ {q} \in SUBSET Plugins
    BY <1>2 DEF SwapPlugins, One
  <2> QED
    BY <2>1, LoadBegins
<1>3. ASSUME NEW c \in Callers, NEW p \in Plugins, Unload(c, p) PROVE CallsInv'
  <2> DEFINE r == [pc |-> "unload", op |-> "unload", in |-> {}, out |-> {p}]
  <2>1. caller[c].pc # "wait" /\ caller' = [caller EXCEPT ![c] = r] /\ UNCHANGED load
    BY <1>3, NoCallOk DEF Unload
  <2>2. r \in CallTypes /\ CallOk(r)
    BY DEF CallTypes, CallOk, One
  <2> HIDE DEF r
  <2> QED
    BY <2>1, <2>2, CallerMoves
<1>4. ASSUME NEW c \in Callers, SwapCheck(c) \/ UnloadPlugin(c) \/ RmUnloadedPluginMetrics(c)
      PROVE  CallsInv'
  <2>1. caller[c] \in CallTypes /\ CallOk(caller[c]) /\ UNCHANGED load
    BY <1>4 DEF CallsInv, SwapCheck, UnloadPlugin, RmUnloadedPluginMetrics
  <2>2. CASE SwapCheck(c)
    <3>1. caller[c].pc = "loaded" /\ caller[c].op = "swap"
      BY <2>2 DEF SwapCheck
    <3> QED
      BY <2>1, <2>2, <3>1, CallMoves, CallMovesOk, CallerMoves
  <2>3. CASE UnloadPlugin(c)
    <3>1. caller[c].pc = "unload"
      BY <2>3 DEF UnloadPlugin
    <3> QED
      BY <2>1, <2>3, <3>1, CallMoves, CallMovesOk, CallerMoves
  <2>4. CASE RmUnloadedPluginMetrics(c)
    <3>1. caller[c].pc = "purge"
      BY <2>4 DEF RmUnloadedPluginMetrics
    <3> QED
      BY <2>1, <2>4, <3>1, CallMoves, CallMovesOk, CallerMoves
  <2> QED
    BY <1>4, <2>2, <2>3, <2>4
<1>5. ASSUME NEW c \in Callers, Emit(c) PROVE CallsInv'
  <2>1. caller[c].pc # "wait" /\ caller' = [caller EXCEPT ![c] = NoCall] /\ UNCHANGED load
    BY <1>5 DEF Emit
  <2> QED
    BY <2>1, NoCallOk, CallerMoves
<1>6. ASSUME NEW c \in Callers, LoadTimesOut(c) PROVE CallsInv'
  <2>1. /\ caller' = [caller EXCEPT ![c] = NoCall]
        /\ load' = [p \in Plugins |-> IF load[p].caller = c
                      THEN [load[p] EXCEPT !.caller = NoCaller] ELSE load[p]]
    BY <1>6 DEF LoadTimesOut
  <2>2. \A p \in Plugins : load'[p] \in LoadTypes
    BY <2>1 DEF CallsInv, LoadTypes
  <2>3. load' \in [Plugins -> LoadTypes]
    BY <2>1, <2>2
  <2>4. caller' \in [Callers -> CallTypes] /\ \A d \in Callers : CallOk(caller'[d])
    BY <2>1, NoCallOk DEF CallsInv
  <2>5. ASSUME NEW p \in Plugins PROVE LoadOk(p)'
    <3>1. CASE load[p].caller = c
      <4>1. load'[p].caller = NoCaller
        BY <2>1, <3>1 DEF CallsInv, LoadTypes
      <4> QED
        BY <4>1 DEF LoadOk
    <3>2. CASE load[p].caller # c
      BY <2>1, <3>2 DEF CallsInv, LoadTypes, LoadOk
    <3> QED
      BY <3>1, <3>2
  <2> QED
    BY <2>3, <2>4, <2>5 DEF CallsInv
<1>7. ASSUME NEW p \in Plugins, AddLoadedMetricType(p) PROVE CallsInv'
  <2>1. PICK ns : load' = [load EXCEPT ![p].todo = @ \ {ns}]
    BY <1>7 DEF AddLoadedMetricType
  <2>2. /\ UNCHANGED caller /\ load' \in [Plugins -> LoadTypes]
        /\ \A q \in Plugins : load'[q].pc = load[q].pc /\ load'[q].caller = load[q].caller
    BY <1>7, <2>1 DEF AddLoadedMetricType, CallsInv, LoadTypes
  <2>3. ASSUME NEW q \in Plugins PROVE LoadOk(q)'
    <3>1. /\ LoadOk(q) /\ caller' = caller
          /\ load'[q].pc = load[q].pc /\ load'[q].caller = load[q].caller
      BY <2>2 DEF CallsInv
    <3> QED
      BY <3>1 DEF LoadOk
  <2> QED
    BY <2>2, <2>3 DEF CallsInv
<1>8. ASSUME NEW p \in Plugins, AddToTable(p) \/ LoadFails(p) PROVE CallsInv'
  BY <1>8, LoadEnds DEF AddToTable, LoadFails
<1>9. CASE (\E t \in Tasks : Add(t) \/ Remove(t)) \/ HandleGomitEvent \/ GroupStep \/ UNCHANGED vars
  <2>1. UNCHANGED <<load, caller>>
    BY <1>9 DEF Add, Remove, HandleGomitEvent, GroupStep, ProcessNext, Subscribe, loadVars, vars
  <2> QED
    BY <2>1 DEF CallsInv, LoadOk
<1> QED
  BY <1>1, <1>2, <1>3, <1>4, <1>5, <1>6, <1>7, <1>8, <1>9 DEF Next, CallStep, LoadStep

\* They always are.
LEMMA CallsHold == Spec => []CallsInv
  BY CallsInit, CallsStep, PTL DEF Spec

-----------------------------------------------------------------------------
(* The catalog.                                                            *)

\* A metric belongs to a plugin that is loaded, that is being loaded, whose load
\* failed, or that was taken out by a call which is about to remove it.
OrphanInv ==
  \A m \in catalog :
    \/ m[1] \in table \cup failed
    \/ m[1] \in Plugins /\ load[m[1]].pc = "run"
    \/ \E c \in Callers : caller[c].pc = "purge" /\ m[1] \in caller[c].out

\* A step that adds no metric and takes no plugin out.
LEMMA OrphanKeeps ==
  ASSUME OrphanInv, catalog' \subseteq catalog, table \subseteq table', failed \subseteq failed',
         \A p \in Plugins : load[p].pc = "run" => load'[p].pc = "run" \/ p \in table' \cup failed',
         \A c \in Callers : caller[c].pc = "purge" => caller'[c] = caller[c]
  PROVE  OrphanInv'
BY DEF OrphanInv

\* A plugin leaves the table only with a call that goes on to remove its metrics.
LEMMA OrphanStep == CallsInv /\ OrphanInv /\ [Next]_vars => OrphanInv'
<1> SUFFICES ASSUME CallsInv, OrphanInv, [Next]_vars PROVE OrphanInv'
  OBVIOUS
<1>1. caller \in [Callers -> CallTypes] /\ load \in [Plugins -> LoadTypes]
  BY DEF CallsInv
<1>2. ASSUME NEW c \in Callers, NEW p \in Plugins, NEW op, NEW out, LoadPlugin(c, p, op, out),
             UNCHANGED <<table, catalog, failed>>
      PROVE  OrphanInv'
  <2>1. caller[c].pc = "idle" /\ \A d \in Callers \ {c} : caller'[d] = caller[d]
    BY <1>1, <1>2, NoCallOk DEF LoadPlugin
  <2>2. \A q \in Plugins : load[q].pc = "run" => load'[q].pc = "run"
    BY <1>1, <1>2 DEF LoadPlugin
  <2> QED
    BY <1>2, <2>1, <2>2, OrphanKeeps
<1>3. ASSUME NEW c \in Callers, caller[c].pc # "purge", UNCHANGED <<table, catalog, load, failed>>,
             NEW r, caller' = [caller EXCEPT ![c] = r]
      PROVE  OrphanInv'
  <2>1. \A d \in Callers \ {c} : caller'[d] = caller[d]
    BY <1>1, <1>3
  <2> QED
    BY <1>3, <2>1, OrphanKeeps
<1>4. ASSUME NEW c \in Callers, NEW p \in Plugins, Unload(c, p) PROVE OrphanInv'
  BY <1>3, <1>4, NoCallOk DEF Unload, history
<1>5. ASSUME NEW c \in Callers, SwapCheck(c) PROVE OrphanInv'
  BY <1>3, <1>5, CallMoves DEF SwapCheck, history
<1>6. ASSUME NEW c \in Callers, Emit(c) PROVE OrphanInv'
  BY <1>3, <1>6 DEF Emit, history
<1>7. ASSUME NEW c \in Callers, UnloadPlugin(c) PROVE OrphanInv'
  <2>1. /\ caller[c].pc = "unload" /\ table' = table \ caller[c].out
        /\ UNCHANGED <<catalog, load, failed>>
        /\ caller' = [caller EXCEPT ![c] = Unloaded(caller[c])]
    BY <1>7, CallMoves DEF UnloadPlugin, history
  <2>2. PICK q \in Plugins : caller[c].out = {q}
    BY <2>1 DEF CallsInv, CallOk, One
  <2>3. CASE q \in table
    <3>1. caller'[c].pc = "purge" /\ caller'[c].out = {q}
      BY <1>1, <2>1, <2>2, <2>3 DEF Unloaded
    <3>2. \A d \in Callers : caller[d].pc = "purge" => caller'[d] = caller[d]
      BY <1>1, <2>1
    <3> QED
      BY <2>1, <2>2, <3>1, <3>2 DEF OrphanInv
  <2>4. CASE q \notin table
    BY <1>3, <2>1, <2>2, <2>4
  <2> QED
    BY <2>3, <2>4
<1>8. ASSUME NEW c \in Callers, RmUnloadedPluginMetrics(c) PROVE OrphanInv'
  <2>1. /\ catalog' = {m \in catalog : m[1] \notin caller[c].out}
        /\ UNCHANGED <<table, load, failed>>
        /\ \A d \in Callers \ {c} : caller'[d] = caller[d]
    BY <1>1, <1>8 DEF RmUnloadedPluginMetrics, Purged
  <2> QED
    BY <2>1 DEF OrphanInv
<1>9. ASSUME NEW c \in Callers, LoadTimesOut(c) PROVE OrphanInv'
  <2>1. /\ caller[c].pc = "wait" /\ UNCHANGED <<table, catalog, failed>>
        /\ \A d \in Callers \ {c} : caller'[d] = caller[d]
    BY <1>1, <1>9 DEF LoadTimesOut, history
  <2>2. \A p \in Plugins : load'[p].pc = load[p].pc
    BY <1>1, <1>9 DEF LoadTimesOut, LoadTypes
  <2> QED
    BY <2>1, <2>2, OrphanKeeps
<1>10. ASSUME NEW p \in Plugins, AddLoadedMetricType(p) PROVE OrphanInv'
  <2>1. PICK ns : /\ catalog' = catalog \cup {<<p, ns>>}
                  /\ load' = [load EXCEPT ![p].todo = @ \ {ns}]
    BY <1>10 DEF AddLoadedMetricType
  <2>2. /\ load[p].pc = "run" /\ UNCHANGED <<table, caller, failed>>
        /\ \A q \in Plugins : load'[q].pc = load[q].pc
    BY <1>1, <1>10, <2>1 DEF AddLoadedMetricType, LoadTypes, history
  <2> QED
    BY <2>1, <2>2 DEF OrphanInv
<1>11. ASSUME NEW p \in Plugins, AddToTable(p) \/ LoadFails(p) PROVE OrphanInv'
  <2>1. /\ catalog' = catalog /\ table \subseteq table' /\ failed \subseteq failed'
        /\ p \in table' \cup failed' /\ \A q \in Plugins \ {p} : load'[q] = load[q]
    BY <1>1, <1>11 DEF AddToTable, LoadFails
  <2>2. \A c \in Callers : caller[c].pc = "purge" => caller'[c] = caller[c]
    <3>1. load[p].caller # NoCaller => caller[load[p].caller].pc = "wait"
      BY DEF CallsInv, LoadOk
    <3>2. Answer(p, "loaded") \/ Answer(p, "idle")
      BY <1>11 DEF AddToTable, LoadFails
    <3> QED
      BY <1>1, <3>1, <3>2, AnswerMoves, TasksAssumption
  <2> QED
    BY <2>1, <2>2, OrphanKeeps
<1>12. CASE (\E t \in Tasks : Add(t) \/ Remove(t)) \/ HandleGomitEvent \/ GroupStep \/ UNCHANGED vars
  <2>1. UNCHANGED <<table, catalog, load, caller, failed>>
    BY <1>12
    DEF Add, Remove, HandleGomitEvent, GroupStep, ProcessNext, Subscribe, loadVars, history, vars
  <2> QED
    BY <2>1, OrphanKeeps
<1>13. ASSUME NEW c \in Callers, NEW p \in Plugins, Load(c, p) PROVE OrphanInv'
  BY <1>2, <1>13 DEF Load, history
<1>14. ASSUME NEW c \in Callers, NEW p \in Plugins, NEW q \in Plugins, SwapPlugins(c, p, q)
       PROVE  OrphanInv'
  BY <1>2, <1>14 DEF SwapPlugins, history
<1> QED
  BY <1>4, <1>5, <1>6, <1>7, <1>8, <1>9, <1>10, <1>11, <1>12, <1>13, <1>14
  DEF Next, CallStep, LoadStep

\* At rest the catalog has no metric of a plugin that is not loaded, unless its
\* load failed half-way: however many callers load, unload and swap the same
\* plugins, and whichever of them gave up waiting (plugin_manager.go:753-758).
THEOREM CatalogSafe == Spec => []NoOrphanMetrics
<1>1. Init => OrphanInv
  BY DEF Init, OrphanInv
<1>2. OrphanInv => NoOrphanMetrics
  BY NoLoadOk, NoCallOk DEF OrphanInv, NoOrphanMetrics, Quiet
<1> QED
  BY <1>1, <1>2, CallsHold, OrphanStep, PTL DEF Spec

-----------------------------------------------------------------------------
(* The views of the tasks.                                                 *)

\* The call will emit an event, or change plugins without one.  A swap whose new
\* plugin somebody else has unloaded meanwhile will not: that unload emits.
Telling(c) ==
  \/ caller[c].pc \in {"purge", "emit"}
  \/ caller[c].pc = "loaded" /\ caller[c].op = "load"
  \/ /\ caller[c].pc \in {"loaded", "unload"} /\ caller[c].op \in {"swap", "rollback"}
     /\ caller[c].in \subseteq table

\* Views may be stale: something is, or will be, told or was not.
Unsettled ==
  \/ silent \/ events > 0
  \/ \E p \in Plugins : load[p].pc = "run"
  \/ \E c \in Callers : Telling(c)

\* Every view is current or will be made so, from what is there now.
Settled ==
  /\ \A t \in Tasks : t \in work.todo \/ Current(t)
  /\ work.task # NoTask => /\ work.plugins = Needed(work.task)
                           /\ work.metrics = Metrics(work.task)

WorkInv ==
  /\ work = [op |-> work.op, todo |-> work.todo, task |-> work.task,
             plugins |-> work.plugins, metrics |-> work.metrics, ok |-> work.ok]
  /\ work.task \in Tasks \cup {NoTask}
  /\ work.op = "add" => work.todo = {}
  /\ groups = [t \in Tasks |-> groups[t]]
  /\ events \in Nat

ViewInv == WorkInv /\ (Unsettled \/ Settled)

\* What a task is offered depends on table and catalog only.
LEMMA SameView ==
  ASSUME UNCHANGED <<table, catalog>>, NEW t \in Tasks
  PROVE  Needed(t)' = Needed(t) /\ Metrics(t)' = Metrics(t)
<1>1. \A r \in Requests[t] : GetMetrics(r)' = GetMetrics(r)
  BY DEF GetMetrics
<1>2. \A u \in Uses[t] : Get(u)' = Get(u)
  BY DEF Get
<1>3. Metrics(t)' = Metrics(t)
  BY <1>1 DEF Metrics
<1>4. \A p \in Plugins : {u \in Uses[t] : p \in Get(u)}' = {u \in Uses[t] : p \in Get(u)}
  BY <1>2
<1> QED
  BY <1>3, <1>4 DEF Needed

\* The steps of loads and callers leave the groups alone.  Whatever they change is
\* told, will be told, or is recorded as silent; and what was, still is.
LEMMA StepsTell ==
  ASSUME CallsInv, events \in Nat,
         \/ \E c \in Callers, p \in Plugins : Load(c, p) \/ Unload(c, p)
         \/ \E c \in Callers, p, q \in Plugins : SwapPlugins(c, p, q)
         \/ \E c \in Callers : CallStep(c) \/ LoadTimesOut(c)
         \/ \E p \in Plugins : LoadStep(p) \/ LoadFails(p)
  PROVE  Unsettled' \/ (UNCHANGED <<table, catalog>> /\ ~Unsettled)
<1>1. caller \in [Callers -> CallTypes] /\ load \in [Plugins -> LoadTypes]
  BY DEF CallsInv
<1> DEFINE Goal == Unsettled' \/ (UNCHANGED <<table, catalog>> /\ ~Unsettled)
<1>2. ASSUME NEW c \in Callers, NEW p \in Plugins, NEW op, NEW out, LoadPlugin(c, p, op, out)
      PROVE  Goal
  <2>1. PICK d : load' = [load EXCEPT ![p] = [pc |-> "run", todo |-> Exposes[p], caller |-> d]]
    BY <1>2 DEF LoadPlugin
  <2>2. load'[p].pc = "run"
    BY <1>1, <2>1
  <2> QED
    BY <2>2 DEF Unsettled
<1>3. ASSUME NEW c \in Callers, UNCHANGED <<table, catalog, load, events, silent>>,
             NEW r, caller' = [caller EXCEPT ![c] = r], Telling(c) => Telling(c)'
      PROVE  Goal
  <2>1. \A d \in Callers \ {c} : caller'[d] = caller[d]
    BY <1>1, <1>3
  <2>2. \A d \in Callers : Telling(d) => Telling(d)'
    BY <1>3, <2>1 DEF Telling
  <2> QED
    BY <1>3, <2>2 DEF Unsettled
<1>4. ASSUME NEW c \in Callers, NEW p \in Plugins, Unload(c, p) PROVE Goal
  BY <1>3, <1>4, NoCallOk DEF Unload, Telling, history
<1>5. ASSUME NEW c \in Callers, SwapCheck(c) PROVE Goal
  <2>1. /\ caller[c].pc = "loaded" /\ caller[c].op = "swap"
        /\ caller' = [caller EXCEPT ![c] = SwapChecked(caller[c])]
        /\ UNCHANGED <<table, catalog, load, events, silent>>
    BY <1>5, CallMoves DEF SwapCheck, history
  <2>2. /\ SwapChecked(caller[c]).pc = "unload" /\ SwapChecked(caller[c]).op \in {"swap", "rollback"}
        /\ SwapChecked(caller[c]).in = caller[c].in
    BY DEF SwapChecked
  <2>3. Telling(c) => Telling(c)'
    BY <1>1, <2>1, <2>2 DEF Telling
  <2> QED
    BY <1>3, <2>1, <2>3
<1>6. ASSUME NEW c \in Callers, UnloadPlugin(c) PROVE Goal
  <2>1. /\ caller[c].pc = "unload" /\ table' = table \ caller[c].out
        /\ UNCHANGED <<catalog, load, events, silent>>
        /\ caller' = [caller EXCEPT ![c] = Unloaded(caller[c])]
    BY <1>6, CallMoves DEF UnloadPlugin, history
  <2>2. PICK q \in Plugins : caller[c].out = {q}
    BY <2>1 DEF CallsInv, CallOk, One
  <2>3. CASE q \in table
    <3>1. caller'[c].pc = "purge"
      BY <1>1, <2>1, <2>2, <2>3 DEF Unloaded
    <3> QED
      BY <3>1 DEF Telling, Unsettled
  <2>4. CASE q \notin table
    <3>1. UNCHANGED table
      BY <2>1, <2>2, <2>4
    <3>2. ASSUME Telling(c) PROVE Telling(c)'
      <4>1. caller[c].op = "swap" /\ caller[c].in \subseteq table
        BY <2>1, <2>2, <2>4, <3>2 DEF Telling, CallsInv, CallOk
      <4>2. caller'[c].pc = "unload" /\ caller'[c].op = "rollback" /\ caller'[c].in = caller[c].in
        BY <1>1, <2>1, <2>2, <2>4, <4>1 DEF Unloaded
      <4> QED
        BY <3>1, <4>1, <4>2 DEF Telling
    <3> QED
      BY <1>3, <2>1, <3>1, <3>2
  <2> QED
    BY <2>3, <2>4
<1>7. ASSUME NEW c \in Callers, RmUnloadedPluginMetrics(c) PROVE Goal
  <2>1. caller[c].op # "unload" => silent'
    BY <1>7 DEF RmUnloadedPluginMetrics
  <2>2. caller[c].op = "unload" => caller'[c].pc = "emit"
    BY <1>1, <1>7, CallMoves DEF PurgedCall
  <2> QED
    BY <2>1, <2>2 DEF Telling, Unsettled
<1>8. ASSUME NEW c \in Callers, Emit(c) PROVE Goal
  <2>1. events' > 0
    BY <1>8 DEF Emit
  <2> QED
    BY <2>1 DEF Unsettled
<1>9. ASSUME NEW c \in Callers, LoadTimesOut(c) PROVE Goal
  <2>1. /\ caller[c].pc = "wait" /\ UNCHANGED <<table, catalog, events, silent>>
        /\ \A d \in Callers \ {c} : caller'[d] = caller[d]
    BY <1>1, <1>9 DEF LoadTimesOut, history
  <2>2. \A p \in Plugins : load'[p].pc = load[p].pc
    BY <1>1, <1>9 DEF LoadTimesOut, LoadTypes
  <2>3. \A d \in Callers : Telling(d) => Telling(d)'
    BY <2>1 DEF Telling
  <2> QED
    BY <2>1, <2>2, <2>3 DEF Unsettled
<1>10. ASSUME NEW p \in Plugins, AddLoadedMetricType(p) PROVE Goal
  <2>1. load'[p].pc = "run"
    BY <1>1, <1>10 DEF AddLoadedMetricType, LoadTypes
  <2> QED
    BY <2>1 DEF Unsettled
<1>11. ASSUME NEW p \in Plugins, AddToTable(p) PROVE Goal
  <2>1. load[p].caller = NoCaller => silent'
    BY <1>11 DEF AddToTable
  <2>2. ASSUME NEW c \in Callers, c = load[p].caller,
               caller' = [caller EXCEPT ![c] = AnsweredCall(caller[c], "loaded")]
        PROVE  Telling(c)'
    <3>1. caller[c].op \in {"load", "swap"} /\ caller[c].in = {p}
      BY <2>2, TasksAssumption DEF CallsInv, LoadOk, CallOk
    <3>2. caller'[c].pc = "loaded" /\ caller'[c].op = caller[c].op /\ caller'[c].in = caller[c].in
      BY <1>1, <2>2 DEF AnsweredCall
    <3>3. p \in table'
      BY <1>11 DEF AddToTable
    <3> QED
      BY <3>1, <3>2, <3>3 DEF Telling
  <2>3. Answer(p, "loaded")
    BY <1>11 DEF AddToTable
  <2> QED
    BY <2>1, <2>2, <2>3, AnswerMoves DEF Unsettled
<1>12. ASSUME NEW p \in Plugins, LoadFails(p) PROVE Goal
  BY <1>12 DEF LoadFails, Unsettled
<1> HIDE DEF Goal
<1>13. Goal
  BY <1>2, <1>4, <1>5, <1>6, <1>7, <1>8, <1>9, <1>10, <1>11, <1>12
  DEF CallStep, LoadStep, Load, SwapPlugins
<1> QED
  BY <1>13 DEF Goal

\* The view of the task that holds the mutex is replaced by what was gathered.
LEMMA SubscribeSettles ==
  ASSUME WorkInv, Settled, Subscribe
  PROVE  Settled'
<1>1. PICK t \in Tasks : t = work.task /\ t # NoTask
  BY TasksAssumption DEF WorkInv, Subscribe
<1>2. /\ work.plugins = Needed(t) /\ work.metrics = Metrics(t)
      /\ \A u \in Tasks : u \in work.todo \/ Current(u)
  BY <1>1 DEF Settled
<1>3. work'.task = NoTask /\ work'.todo = work.todo \ {t}
  BY <1>1 DEF Subscribe, NoWork
<1>4. \/ work.op = "add" /\ groups' = groups
      \/ groups' = [groups EXCEPT ![t] = [present |-> TRUE,
                      plugins |-> work.plugins, metrics |-> work.metrics]]
  BY <1>1 DEF Subscribe, Process
<1>5. \A u \in Tasks : Needed(u)' = Needed(u) /\ Metrics(u)' = Metrics(u)
  BY SameView DEF Subscribe, loadVars
<1>6. ASSUME NEW u \in Tasks, u # t PROVE u \in work'.todo \/ Current(u)'
  <2>1. groups'[u] = groups[u]
    BY <1>4, <1>6 DEF WorkInv
  <2> QED
    BY <1>2, <1>3, <1>5, <1>6, <2>1 DEF Current
<1>7. Current(t)'
  <2>1. CASE work.op = "add" /\ groups' = groups
    BY <1>2, <1>5, <2>1 DEF WorkInv, Current
  <2>2. CASE groups' = [groups EXCEPT ![t] = [present |-> TRUE,
                          plugins |-> work.plugins, metrics |-> work.metrics]]
    <3>1. groups'[t].plugins = Needed(t) /\ groups'[t].metrics = Metrics(t)
      BY <1>2, <2>2 DEF WorkInv
    <3> QED
      BY <1>5, <3>1 DEF Current
  <2> QED
    BY <1>4, <2>1, <2>2
<1> QED
  BY <1>3, <1>6, <1>7 DEF Settled

\* What HandleGomitEvent begins with and Subscribe ends with.
LEMMA Begun ==
  ASSUME WorkInv, groups' = [t \in Tasks |-> groups'[t]], events' \in Nat,
         work' = NoWork \/ \E S : work' = [NoWork EXCEPT !.op = "process", !.todo = S]
  PROVE  WorkInv'
<1>1. CASE work' = NoWork
  BY <1>1 DEF WorkInv, NoWork
<1>2. ASSUME NEW S, work' = [NoWork EXCEPT !.op = "process", !.todo = S] PROVE WorkInv'
  <2>1. work' = [op |-> "process", todo |-> S, task |-> NoTask, plugins |-> NoneNeeded,
                 metrics |-> {}, ok |-> TRUE]
    BY <1>2 DEF NoWork
  <2> QED
    BY <2>1 DEF WorkInv
<1> QED
  BY <1>1, <1>2

\* Every step keeps the types of groups and of the work on them.
LEMMA WorkStep == WorkInv /\ [Next]_vars => WorkInv'
<1> SUFFICES ASSUME WorkInv, [Next]_vars PROVE WorkInv'
  OBVIOUS
<1>1. CASE UNCHANGED groupVars /\ (UNCHANGED events \/ \E c \in Callers : Emit(c))
  BY <1>1 DEF WorkInv, groupVars, Emit
<1>2. ASSUME NEW t \in Tasks, Add(t) \/ ProcessNext(t) PROVE WorkInv'
  <2>1. UNCHANGED <<groups, events>>
    BY <1>2 DEF Add, ProcessNext
  <2>2. CASE Add(t)
    BY <2>1, <2>2 DEF Add, WorkInv
  <2>3. CASE ProcessNext(t)
    <3>1. work' = [op |-> work.op, todo |-> work.todo, task |-> t,
                   plugins |-> Needed(t), metrics |-> Metrics(t), ok |-> Found(t)]
      BY <2>3 DEF ProcessNext, Gather, WorkInv
    <3>2. work'.op # "add"
      BY <2>3, <3>1 DEF ProcessNext
    <3> QED
      BY <2>1, <3>1, <3>2 DEF WorkInv
  <2> QED
    BY <1>2, <2>2, <2>3
<1>3. ASSUME NEW t \in Tasks, Remove(t) PROVE WorkInv'
  BY <1>3 DEF Remove, WorkInv
<1>4. CASE HandleGomitEvent
  <2>1. work' = NoWork \/ \E S : work' = [NoWork EXCEPT !.op = "process", !.todo = S]
    BY <1>4 DEF HandleGomitEvent
  <2>2. events' \in Nat
    BY <1>4 DEF HandleGomitEvent, WorkInv
  <2>3. groups' = [t \in Tasks |-> groups'[t]]
    BY <1>4 DEF HandleGomitEvent, WorkInv
  <2> QED
    BY <2>1, <2>2, <2>3, Begun
<1>5. CASE Subscribe
  <2>1. /\ work' = NoWork \/ \E S : work' = [NoWork EXCEPT !.op = "process", !.todo = S]
        /\ UNCHANGED events
    BY <1>5 DEF Subscribe
  <2>2. \/ groups' = groups
        \/ \E g : groups' = [groups EXCEPT ![work.task] = g]
    BY <1>5 DEF Subscribe, Process
  <2>3. groups' = [t \in Tasks |-> groups'[t]]
    BY <2>2 DEF WorkInv
  <2> QED
    BY <2>1, <2>3, Begun DEF WorkInv
<1>6. \/ UNCHANGED groupVars /\ (UNCHANGED events \/ \E c \in Callers : Emit(c))
      \/ (\E t \in Tasks : Add(t) \/ Remove(t)) \/ HandleGomitEvent \/ GroupStep
  BY DEF Next, CallStep, LoadStep, Load, Unload, SwapPlugins, SwapCheck, UnloadPlugin,
    RmUnloadedPluginMetrics, Emit, LoadTimesOut, AddLoadedMetricType, AddToTable, LoadFails,
    groupVars, vars
<1> QED
  BY <1>1, <1>2, <1>3, <1>4, <1>5, <1>6 DEF GroupStep

\* A step that changes neither plugins nor groups.
LEMMA SettledKeeps ==
  ASSUME WorkInv, Settled, UNCHANGED <<table, catalog, groups, work>>
  PROVE  Settled'
<1>1. \A t \in Tasks : Needed(t)' = Needed(t) /\ Metrics(t)' = Metrics(t)
  BY SameView
<1>2. \A t \in Tasks : t \in work'.todo \/ Current(t)'
  BY <1>1 DEF Settled, Current
<1>3. ASSUME NEW t \in Tasks, t = work.task, t # NoTask
      PROVE  work'.plugins = Needed(t)' /\ work'.metrics = Metrics(t)'
  BY <1>1, <1>3 DEF Settled
<1> QED
  BY <1>2, <1>3 DEF Settled, WorkInv

\* Whoever changes table or catalog tells, or has it recorded that it does not; the
\* last to handle an event computes all views from what is there.
LEMMA ViewStep == CallsInv /\ ViewInv /\ [Next]_vars => ViewInv'
<1> SUFFICES ASSUME CallsInv, ViewInv, [Next]_vars PROVE ViewInv'
  OBVIOUS
<1>1. WorkInv /\ WorkInv'
  BY WorkStep DEF ViewInv
<1>2. CASE \/ \E c \in Callers, p \in Plugins : Load(c, p) \/ Unload(c, p)
           \/ \E c \in Callers, p, q \in Plugins : SwapPlugins(c, p, q)
           \/ \E c \in Callers : CallStep(c) \/ LoadTimesOut(c)
           \/ \E p \in Plugins : LoadStep(p) \/ LoadFails(p)
  <2>1. UNCHANGED <<groups, work>>
    BY <1>2 DEF CallStep, LoadStep, Load, Unload, SwapPlugins, SwapCheck, UnloadPlugin,
      RmUnloadedPluginMetrics, Emit, LoadTimesOut, AddLoadedMetricType, AddToTable, LoadFails,
      groupVars
  <2> QED
    BY <1>1, <1>2, <2>1, SettledKeeps, StepsTell DEF ViewInv, WorkInv
<1>3. ASSUME UNCHANGED <<table, catalog, load, caller, events, silent>> PROVE Unsettled' <=> Unsettled
  BY <1>3 DEF Unsettled, Telling
<1>4. ASSUME NEW t \in Tasks, Add(t) \/ Remove(t) \/ ProcessNext(t) PROVE ViewInv'
  <2>1. UNCHANGED <<table, catalog, load, caller, events, silent>>
    BY <1>4 DEF Add, Remove, ProcessNext, loadVars, history
  <2>2. \A u \in Tasks : Needed(u)' = Needed(u) /\ Metrics(u)' = Metrics(u)
    BY <2>1, SameView
  <2>3. CASE Settled /\ Add(t)
    <3>1. /\ UNCHANGED groups /\ work.todo = {} /\ work'.todo = {} /\ work'.task = t
          /\ work'.plugins = Needed(t) /\ work'.metrics = Metrics(t)
      BY <2>3 DEF Add, NoWork
    <3> QED
      BY <1>1, <2>2, <2>3, <3>1 DEF Settled, Current, ViewInv
  <2>4. CASE Settled /\ ProcessNext(t)
    <3>1. /\ UNCHANGED groups /\ work'.todo = work.todo /\ work'.task = t
          /\ work'.plugins = Needed(t) /\ work'.metrics = Metrics(t)
      BY <1>1, <2>4 DEF ProcessNext, Gather, WorkInv
    <3> QED
      BY <1>1, <2>2, <2>4, <3>1 DEF Settled, Current, ViewInv
  <2>5. CASE Settled /\ Remove(t)
    <3>1. /\ UNCHANGED work /\ work.task = NoTask
          /\ \A u \in Tasks \ {t} : groups'[u] = groups[u]
          /\ ~groups'[t].present
      BY <1>1, <2>5 DEF Remove, NoGroup, NoWork, WorkInv
    <3> QED
      BY <1>1, <2>2, <2>5, <3>1 DEF Settled, Current, ViewInv
  <2> QED
    BY <1>1, <1>3, <1>4, <2>1, <2>3, <2>4, <2>5 DEF ViewInv
<1>5. CASE HandleGomitEvent
  <2>1. UNCHANGED groups /\ work'.task = NoTask /\ work'.todo = {t \in Tasks : groups[t].present}
    BY <1>5 DEF HandleGomitEvent, NoWork
  <2> QED
    BY <1>1, <2>1 DEF Settled, Current, ViewInv
<1>6. CASE Subscribe
  <2>1. UNCHANGED <<table, catalog, load, caller, events, silent>>
    BY <1>6 DEF Subscribe, loadVars, history
  <2> QED
    BY <1>1, <1>3, <1>6, <2>1, SubscribeSettles DEF ViewInv
<1>7. CASE UNCHANGED vars
  <2>1. UNCHANGED <<table, catalog, load, caller, events, silent, groups, work>>
    BY <1>7 DEF vars
  <2>2. Settled => Settled'
    BY <1>1, <2>1, SettledKeeps
  <2> QED
    BY <1>1, <1>3, <2>1, <2>2 DEF ViewInv
<1> QED
  BY <1>2, <1>4, <1>5, <1>6, <1>7 DEF Next, GroupStep

\* One load or unload event brings every view up to date: in whatever order any
\* number of loads, unloads, swaps, failed and abandoned loads, handlers and new
\* tasks cross each other, once all has come to rest and nothing changed without
\* an event since the last one, each view is what catalog and table offer
\* (control.go:285, subscription_group.go:426).
THEOREM ViewsSafe == Spec => []ViewsConverge
<1>1. Init => ViewInv
  <2> SUFFICES ASSUME Init PROVE ViewInv
    OBVIOUS
  <2>1. WorkInv
    BY DEF Init, WorkInv, NoWork
  <2>2. \A t \in Tasks : ~groups[t].present
    BY DEF Init, NoGroup
  <2> QED
    BY <2>1, <2>2 DEF Init, ViewInv, Settled, Current, NoWork
<1>2. ViewInv => ViewsConverge
  <2> SUFFICES ASSUME ViewInv, Quiet, ~silent PROVE \A t \in Tasks : Current(t)
    BY DEF ViewsConverge
  <2>1. ~Unsettled
    <3>1. \A c \in Callers : caller[c].pc = "idle"
      BY NoCallOk DEF Quiet
    <3>2. \A p \in Plugins : load[p].pc = "idle"
      BY NoLoadOk DEF Quiet
    <3> QED
      BY <3>1, <3>2 DEF Quiet, Unsettled, Telling
  <2> QED
    BY <2>1 DEF ViewInv, Settled, Quiet, NoWork
<1> QED
  BY <1>1, <1>2, CallsHold, ViewStep, PTL DEF Spec
=============================================================================
