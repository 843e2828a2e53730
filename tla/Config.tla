------------------------------- MODULE Config -------------------------------
(* How configuration reaches a plugin: the daemon's plugin configuration     *)
(* with its levels and its cache (control/config.go), which requests change  *)
(* while goroutines read it; the policies of loaded plugins; and the         *)
(* configuration tree of a task, from its manifest to the tables that the    *)
(* plugins are called with (control/control.go, subscription_group.go).      *)
(*                                                                           *)
(* Nodes are shared: what Get answers is a node of the tree, or a struct     *)
(* that has the table of the topmost node, and both are written to.          *)
EXTENDS ConfigPolicy

CONSTANTS Plugins,     \* [typ, name, ver] of the plugins
          Publisher,   \* the plugin that the task publishes with
          Metrics,     \* the metrics the task asks for
          NsOf, PluginOf, \* a metric's namespace and its collector
          Declared,    \* a plugin's policy as its author wrote it
          Rpc,         \* "native" or "grpc"
          Files,       \* the plugins sections of daemon configuration files
          Manifests,   \* tasks: [collect, publish], tables of literals
          Requests,    \* what is asked of the configuration API
          MaxUpdates,  \* bound on the requests
          None

VARIABLES conf,      \* the daemon's plugin configuration
          cache,     \* pluginCache
          upd,       \* a request that has cleared the cache and not written yet
          fill,      \* the plugin whose cache entry is being put together
          raced,     \* (history) a request and a reader have overlapped
          updates,   \* (bound) requests so far
          catalog,   \* policies of the cataloged plugins
          task,      \* "none", "refused", "created", "running"
          manifest,  \* (history) the manifest of the task
          tree,      \* the configuration tree of the task
          pub,       \* the configuration of its publish node
          mt,        \* the configuration nodes of its metrics
          sent,      \* the tables the plugins were last called with
          changed,   \* (history) a request came after the task was validated
          dead       \* a goroutine has panicked; the model ends there
globals == <<conf, cache, upd, fill, raced, updates>>
tasks == <<task, manifest, tree, pub, mt, sent>>
vars == <<globals, catalog, tasks, changed, dead>>

Collectors == {PluginOf[m] : m \in Metrics}
ConfTypes == {"collector", "processor", "publisher"}
NewPluginConfig == [all |-> Empty,
                    typ |-> [t \in ConfTypes |-> [all |-> Empty, plugins |-> Empty]]]

\* The plugins section of the configuration file: what it does not have
\* stays as it is in a new configuration.
UnmarshalPluginConfig(item) ==
  [all |-> UnmarshalJSON(item.all),
   plugins |-> [n \in DOMAIN item.plugins |->
                  [all |-> UnmarshalJSON(item.plugins[n].all),
                   versions |-> [v \in DOMAIN item.plugins[n].versions |->
                                   UnmarshalJSON(item.plugins[n].versions[v])]]]]
UnmarshalFile(file) ==
  [all |-> UnmarshalJSON(file.all),
   typ |-> Merge(NewPluginConfig.typ,
                 [t \in DOMAIN file.typ |-> UnmarshalPluginConfig(file.typ[t])])]

Init ==
  /\ conf \in {UnmarshalFile(f) : f \in Files} /\ cache = Empty
  /\ upd = None /\ fill = None /\ raced = FALSE /\ updates = 0
  /\ catalog = Empty
  /\ task = "none" /\ manifest = None /\ tree = Empty /\ pub = Empty
  /\ mt = Empty /\ sent = Empty
  /\ changed = FALSE /\ dead = FALSE

-----------------------------------------------------------------------------
(* The daemon's plugin configuration.                                        *)

SwitchPluginConfigType(typ) == IF typ = "streaming" THEN "collector" ELSE typ

PluginItem(c, p) == c.typ[SwitchPluginConfigType(p.typ)]
\* The table put together from the levels, the most specific on top.
Named(c, p) ==
  LET item == PluginItem(c, p)
  IN IF p.name \notin DOMAIN item.plugins THEN Empty
     ELSE LET res == item.plugins[p.name]
          IN IF p.ver \in DOMAIN res.versions
             THEN Merge(res.all, res.versions[p.ver]) ELSE res.all
Levels(c, p) == Merge(PluginItem(c, p).all, Named(c, p))
Effective(c, p) == Merge(c.all, Levels(c, p))

\* An entry that is there is taken as it is, finished or not.
GetPluginConfigDataNode(c, p) ==
  IF p \in DOMAIN c THEN c[p] ELSE Effective(conf, p)
\* The cache once ps have been looked up.
Filled(c, ps) == [p \in DOMAIN c \union ps |-> GetPluginConfigDataNode(c, p)]

MergePluginConfigDataNodeAll(c, cdn) == [c EXCEPT !.all = Merge(@, cdn)]
MergePluginConfigDataNode(c, r, cdn) ==
  LET t == SwitchPluginConfigType(r.typ)
      known == c.typ[t].plugins
      New == IF r.ver > 0
             THEN [all |-> Empty, versions |-> [v \in {r.ver} |-> cdn]]
             ELSE [all |-> cdn, versions |-> Empty]
  IN IF r.name \in DOMAIN known
     THEN IF r.ver \in DOMAIN known[r.name].versions
          THEN [c EXCEPT !.typ[t].plugins[r.name].versions[r.ver] = Merge(@, cdn)]
          ELSE [c EXCEPT !.typ[t].plugins[r.name].all = Merge(@, cdn)]
     ELSE IF r.name # ""
          THEN [c EXCEPT !.typ[t].plugins = Put(@, r.name, New)]
          ELSE [c EXCEPT !.typ[t].all = Merge(@, cdn)]

DeletePluginConfigDataNodeFieldAll(c, key) == [c EXCEPT !.all = DeleteItem(@, key)]
DeletePluginConfigDataNodeField(c, r, key) ==
  LET t == SwitchPluginConfigType(r.typ)
      known == c.typ[t].plugins
  IN IF r.name \in DOMAIN known
     THEN IF r.ver \in DOMAIN known[r.name].versions
          THEN [c EXCEPT !.typ[t].plugins[r.name].versions[r.ver] = DeleteItem(@, key)]
          ELSE [c EXCEPT !.typ[t].plugins[r.name].all = DeleteItem(@, key)]
     ELSE [c EXCEPT !.typ[t].all = DeleteItem(@, key)]

SetPluginConfigItem(c, r) ==
  IF r.typ = "" THEN MergePluginConfigDataNodeAll(c, UnmarshalJSON(r.items))
  ELSE MergePluginConfigDataNode(c, r, UnmarshalJSON(r.items))
DeletePluginConfigItem(c, r) ==
  IF r.typ = "" THEN DeletePluginConfigDataNodeFieldAll(c, r.key)
  ELSE DeletePluginConfigDataNodeField(c, r, r.key)
Applied(c, r) ==
  IF r.op = "set" THEN SetPluginConfigItem(c, r) ELSE DeletePluginConfigItem(c, r)

\* Mutant: the request does not drop the cache.
ClearCacheNot(r) ==
  /\ ~dead
  /\ upd = None /\ updates < MaxUpdates
  /\ upd' = r /\ updates' = updates + 1
  /\ raced' = (raced \/ fill # None)
  /\ UNCHANGED <<conf, cache, fill, catalog, tasks, changed, dead>>
\* A request first drops the cache and then writes; there is no lock.
ClearCache(r) ==
  /\ ~dead
  /\ upd = None /\ updates < MaxUpdates
  /\ upd' = r /\ updates' = updates + 1
  /\ cache' = Empty
  /\ raced' = (raced \/ fill # None)
  /\ UNCHANGED <<conf, fill, catalog, tasks, changed, dead>>
\* It answers with the plugin's configuration and so caches that again.
WriteConfig ==
  /\ ~dead
  /\ upd # None /\ upd' = None
  /\ conf' = Applied(conf, upd)
  /\ LET asked == {p \in Plugins : /\ upd.typ = p.typ /\ upd.name = p.name
                                   /\ upd.ver = p.ver}
     IN cache' = Merge([p \in asked |-> Effective(conf', p)], cache)
  /\ raced' = (raced \/ fill # None)
  /\ changed' = (changed \/ task # "none")
  /\ UNCHANGED <<fill, updates, catalog, tasks, dead>>

\* A reader that misses makes an entry, and merges the levels into it after
\* having looked it up again: a request in between leaves a nil pointer.
MakeEntry(p) ==
  /\ ~dead
  /\ fill = None /\ p \notin DOMAIN cache
  /\ fill' = p
  /\ cache' = Put(cache, p, conf.all)
  /\ raced' = (raced \/ upd # None)
  /\ UNCHANGED <<conf, upd, updates, catalog, tasks, changed, dead>>
FillEntry ==
  /\ ~dead
  /\ fill # None /\ fill' = None
  /\ IF fill \in DOMAIN cache
     THEN /\ cache' = [cache EXCEPT ![fill] = Merge(@, Levels(conf, fill))]
          /\ UNCHANGED dead
     ELSE dead' = TRUE /\ UNCHANGED cache
  /\ UNCHANGED <<conf, upd, raced, updates, catalog, tasks, changed>>

-----------------------------------------------------------------------------
(* Plugins and their policies.                                               *)

LoadedPolicy(p) == Transported(Declared[p], Rpc[p])
\* Loading puts the defaults of all nodes of the policy into one table and
\* asks for the metrics with it; the catalog gets its own copy of the policy.
LoadPlugin(p) ==
  /\ ~dead
  /\ p \notin DOMAIN catalog
  /\ ~AddDefaultsFails(LoadedPolicy(p))
  /\ \E order \in GetAll(LoadedPolicy(p)) :
       catalog' = Put(catalog, p, NewCatalogedPlugin(LoadedPolicy(p), order))
  /\ cache' = Filled(cache, {p})
  /\ raced' = (raced \/ upd # None)
  /\ UNCHANGED <<conf, upd, fill, updates, tasks, changed, dead>>

\* The rules for a metric, and those for a plugin as a whole.
PolicyOf(m) == TreeGet(catalog[PluginOf[m]], NsOf[m])
PolicyOfPlugin(p) == TreeGet(LoadedPolicy(p), <<"">>)

-----------------------------------------------------------------------------
(* The configuration of a task.  st has the tree, the nodes of the metrics   *)
(* and a verdict.  A metric's node is one of the tree, or has the table of   *)
(* one, or has a table of its own.                                           *)

OwnTable(t) == [kind |-> "own", path |-> <<>>, table |-> t]
NodeAt(p) == [kind |-> "node", path |-> p, table |-> Empty]
TableAt(p) == [kind |-> "table", path |-> p, table |-> Empty]
TableOf(st, m) ==
  IF st.mt[m].kind = "own" THEN st.mt[m].table ELSE st.tree[st.mt[m].path]

\* Get writes what it merges into the topmost node; the plugin configuration
\* and the defaults of the policy are then put into the same table.
GetMetric(st, m, c) ==
  LET on == NodesTo(st.tree, NsOf[m])
      top == Topmost(on)
      Full(t) == ApplyDefaults(
                   ApplyDefaults(t, GetPluginConfigDataNode(c, PluginOf[m])),
                   Defaults(PolicyOf(m)))
  IN IF on = {} THEN [st EXCEPT !.mt[m] = OwnTable(Full(Empty))]
     ELSE [st EXCEPT !.tree = Put(@, top, Full(TreeGet(st.tree, NsOf[m]))),
                     !.mt[m] = IF on = {top} THEN NodeAt(top) ELSE TableAt(top)]
GetMetricsAndCollectors(st, order, c) ==
  FoldLeft(LAMBDA s, m : GetMetric(s, m, c), st, order)

\* Mutant: the plugin configuration goes over the values of the task.
ReverseMergeInPlaceOver(st, m, g) ==
  LET new == Merge(TableOf(st, m), g)
  IN IF st.mt[m].kind # "node" THEN [st EXCEPT !.mt[m] = OwnTable(new)]
     ELSE [st EXCEPT !.tree = Put(@, st.mt[m].path, new)]
\* ReverseMergeInPlace gives the node a new table.  A struct that shared the
\* old one keeps it.
ReverseMergeInPlace(st, m, g) ==
  LET new == ReverseMerge(TableOf(st, m), g)
      at == st.mt[m].path
  IN IF st.mt[m].kind # "node" THEN [st EXCEPT !.mt[m] = OwnTable(new)]
     ELSE [st EXCEPT !.tree = Put(@, at, new),
                     !.mt = [n \in DOMAIN st.mt |->
                               IF st.mt[n] = TableAt(at)
                               THEN OwnTable(st.tree[at]) ELSE st.mt[n]]]
Write(st, m, t) ==
  IF st.mt[m].kind = "own" THEN [st EXCEPT !.mt[m] = OwnTable(t)]
  ELSE [st EXCEPT !.tree = Put(@, st.mt[m].path, t)]
Worse(v, w) ==
  CASE "panic" \in {v, w} -> "panic" [] "error" \in {v, w} -> "error" [] OTHER -> "ok"
ValidateMetric(st, m, c) ==
  LET s == ReverseMergeInPlace(st, m, GetPluginConfigDataNode(c, PluginOf[m]))
      r == Process(PolicyOf(m), TableOf(s, m))
  IN [Write(s, m, r.table) EXCEPT !.verdict = Worse(@, r.verdict)]
\* Processors, publishers and collectors are validated on a copy.
ValidatePluginSubscription(p, config, c) ==
  Process(PolicyOfPlugin(p),
          ReverseMerge(config, GetPluginConfigDataNode(c, p))).verdict

Start(t) == [tree |-> t, mt |-> [m \in Metrics |-> OwnTable(Empty)], verdict |-> "ok"]
AllLoaded == Plugins \subseteq DOMAIN catalog
Reads(ps) == /\ cache' = Filled(cache, ps)
             /\ raced' = (raced \/ fill \in ps \/ upd # None)

\* GetConfigTree: an item that is no configuration value refuses the task, a
\* second root name panics.
CreateTask(w) ==
  /\ ~dead
  /\ task = "none" /\ AllLoaded
  /\ manifest' = w
  /\ \E order \in SetToSeqs(Metrics) :
       LET t0 == [p \in DOMAIN w.collect |-> ConfigToConfigDataNode(w.collect[p])]
           p0 == ConfigToConfigDataNode(w.publish)
           got == GetMetricsAndCollectors(Start(t0), order, cache)
           checked == FoldLeft(LAMBDA s, m : ValidateMetric(s, m, cache), got, order)
           publish == ValidatePluginSubscription(Publisher, p0, cache)
           collect == {ValidatePluginSubscription(p, Empty, cache) : p \in Collectors}
           \* the first plugin that fails ends the check of the plugins
           others == IF publish = "ok" THEN FoldSet(Worse, "ok", collect) ELSE publish
           verdict == Worse(checked.verdict, others)
           bad == ~Convertible(w.publish)
                    \/ \E p \in DOMAIN w.collect : ~Convertible(w.collect[p])
       IN /\ task' = IF ~bad /\ OneRoot(DOMAIN w.collect) /\ verdict = "ok"
                     THEN "created" ELSE "refused"
          /\ dead' = (~bad /\ (~OneRoot(DOMAIN w.collect) \/ verdict = "panic"))
          /\ tree' = IF task' = "created" THEN checked.tree ELSE Empty
          /\ pub' = IF task' = "created" THEN p0 ELSE Empty
  /\ Reads(Plugins)
  /\ UNCHANGED <<conf, upd, fill, updates, catalog, mt, sent, changed>>

\* Subscribing processes the group, and so does every plugin that is loaded
\* or unloaded while the task runs.
ProcessGroup ==
  /\ ~dead
  /\ task \in {"created", "running"}
  /\ task' = "running"
  /\ \E order \in SetToSeqs(Metrics) :
       LET got == GetMetricsAndCollectors(Start(tree), order, cache)
       IN tree' = got.tree /\ mt' = got.mt
  /\ pub' = ApplyDefaults(pub, Defaults(PolicyOfPlugin(Publisher)))
  /\ Reads(Collectors)
  /\ UNCHANGED <<conf, upd, fill, updates, catalog, manifest, sent, changed, dead>>

\* Every collection merges the plugin configuration in again.
CollectMetrics ==
  /\ ~dead
  /\ task = "running"
  /\ \E order \in SetToSeqs(Metrics) :
       LET got == FoldLeft(LAMBDA s, m : ReverseMergeInPlace(
                                           s, m, GetPluginConfigDataNode(cache, PluginOf[m])),
                           [tree |-> tree, mt |-> mt], order)
       IN /\ tree' = got.tree /\ mt' = got.mt
          /\ sent' = Merge(sent, [m \in Metrics |-> TableOf(got, m)])
  /\ Reads(Collectors)
  /\ UNCHANGED <<conf, upd, fill, updates, catalog, task, manifest, pub, changed, dead>>
PublishMetrics ==
  /\ ~dead
  /\ task = "running"
  /\ sent' = Put(sent, "publish", Merge(GetPluginConfigDataNode(cache, Publisher), pub))
  /\ Reads({Publisher})
  /\ UNCHANGED <<conf, upd, fill, updates, catalog, task, manifest, tree, pub, mt,
                 changed, dead>>

Next ==
  \/ \E r \in Requests : ClearCache(r)
  \/ WriteConfig
  \/ \E p \in Plugins : MakeEntry(p)
  \/ FillEntry
  \/ \E p \in Plugins : LoadPlugin(p)
  \/ \E w \in Manifests : CreateTask(w)
  \/ ProcessGroup
  \/ CollectMetrics
  \/ PublishMetrics
Spec == Init /\ [][Next]_vars

-----------------------------------------------------------------------------
(* Properties.                                                               *)

\* What getPluginConfigDataNode keeps in pluginCache is what the levels of the
\* configuration give, unless a request overlapped with a reader: every change
\* drops every entry it could make wrong.
StaleOnlyByRace ==
  raced \/ \A p \in DOMAIN cache \ {fill} : cache[p] = Effective(conf, p)

\* Where every node of the task's configuration leads to one metric, and none
\* lies above another, CollectMetrics calls the plugin with exactly the task's
\* values, over those of the plugin configuration, over the defaults of the
\* policy, however often the group was processed and the metrics collected.
Plain(paths) ==
  /\ \A p \in paths : Cardinality({m \in Metrics : IsPrefix(p, NsOf[m])}) <= 1
  /\ \A p, q \in paths : IsPrefix(p, q) => p = q
TaskTree == [p \in DOMAIN manifest.collect |-> ConfigToConfigDataNode(manifest.collect[p])]
Expected(m) ==
  ApplyDefaults(ApplyDefaults(TreeGet(TaskTree, NsOf[m]), Effective(conf, PluginOf[m])),
                Defaults(PolicyOf(m)))
PlainConfigIsExact ==
  \A m \in Metrics \cap DOMAIN sent :
    ~raced /\ ~changed /\ Plain(DOMAIN manifest.collect) => sent[m] = Expected(m)

\* A key that the cataloged policy of a metric requires is in every table that
\* CollectMetrics calls the plugin with, unless the plugin configuration was
\* changed after the task was validated: a task is validated once.
RequiredIsDelivered ==
  \A m \in Metrics \cap DOMAIN sent :
    ~raced /\ ~changed =>
      \A k \in DOMAIN PolicyOf(m) : PolicyOf(m)[k].required => k \in DOMAIN sent[m]

\* What CollectMetrics sends is what the task, the daemon and the policy say.
ConfigIsDelivered == PlainConfigIsExact /\ RequiredIsDelivered
=============================================================================
