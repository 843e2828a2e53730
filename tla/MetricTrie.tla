----------------------------- MODULE MetricTrie -----------------------------
(***************************************************************************)
(* The metric catalog: control/metrics.go over the trie of control/        *)
(* mttrie.go, filled and emptied as collectors are loaded and unloaded, and*)
(* what a query finds in it.                                               *)
(*                                                                         *)
(* A node of the trie is the sequence of names that leads to it.  Nodes are*)
(* never taken out: deleting metrics empties them.  A name of a query is a *)
(* sequence of items, of length one unless it is a tuple such as           *)
(* (host0;host1); Star is the wildcard of queries and the dynamic element  *)
(* of metrics.                                                             *)
(***************************************************************************)
EXTENDS Integers, Sequences, SequencesExt, FiniteSets

CONSTANTS
  Plugins,
  Offers,  \* [Plugins -> set of [ns, ver]]: the metric types a plugin exposes
  Queries, \* requested namespaces, as sequences of sequences of items
  Star

Versions == UNION {{o.ver : o \in Offers[p]} : p \in Plugins}

\* validateMetricNamespace refuses the others.
ASSUME OffersAssumption ==
  \A p \in Plugins : \A o \in Offers[p] :
    o.ver \in Nat \ {0} /\ o.ns # <<>> /\ Last(o.ns) # Star
ASSUME QueriesAssumption ==
  \A q \in Queries : q # <<>> /\ \A k \in DOMAIN q : q[k] # <<>>

VARIABLES
  loaded, \* plugins that are loaded
  nodes,  \* nodes of the trie
  mts,    \* metric types at the nodes: [ns, ver, plugin]
  keys,   \* metricCatalog.keys, as a set
  answer  \* what the last query was, stood for and found

vars == <<loaded, nodes, mts, keys, answer>>

Init ==
  /\ loaded = {}
  /\ nodes = {<<>>}
  /\ mts = {}
  /\ keys = {}
  /\ answer = [query |-> <<>>, nss |-> {}, found |-> {}]
-----------------------------------------------------------------------------
(* The trie.                                                                *)
ChildrenOf(n) == {m \in nodes : m # <<>> /\ Front(m) = n}
IsBelow(n, m) == Len(m) > Len(n) /\ IsPrefix(n, m)

\* A named child, the dynamic child if there is none of that name, all for Star.
GatherChildrenDynamic(n, name) ==
  IF name = Star THEN ChildrenOf(n)
  ELSE LET dynamic == {Append(n, Star)} \cap nodes
       IN IF dynamic # {} THEN dynamic ELSE {Append(n, name)} \cap nodes
GatherChildren(n, name) ==
  IF name = Star THEN ChildrenOf(n)
  ELSE LET named == {Append(n, name)} \cap nodes
       IN IF named # {} THEN named ELSE {Append(n, Star)} \cap nodes

\* A final wildcard takes a node and all below it, but not one without children.
Fetch(n) ==
  IF ChildrenOf(n) = {} THEN {} ELSE {n} \cup {m \in nodes : IsBelow(n, m)}

Search(ns) ==
  LET level[k \in 0..Len(ns) - 1] ==
        IF k = 0 THEN {<<>>}
        ELSE UNION {GatherChildren(n, ns[k]) : n \in level[k - 1]}
  IN UNION {IF Last(ns) = Star THEN Fetch(n) ELSE GatherChildren(n, Last(ns)) :
              n \in level[Len(ns) - 1]}

\* getVersion: the one asked for, or the latest if ver is 0.
GetVersion(n, ver) ==
  {m \in mts :
     /\ m.ns = n
     /\ IF ver > 0 THEN m.ver = ver
        ELSE \A o \in mts : o.ns = n => o.ver <= m.ver}

TreeGetMetrics(ns, ver) == UNION {GetVersion(n, ver) : n \in Search(ns)}

\* Starts at the children of the root's children.
GatherLeaves == {m \in mts : Len(m.ns) > 1 /\ ChildrenOf(m.ns) = {}}
GatherMetricTypes == {m \in mts : Len(m.ns) > 1}
-----------------------------------------------------------------------------
(* Queries of the catalog.                                                  *)

\* findTuplesMatches: as many namespaces as there are combinations, the i-th of
\* them with the i-th item of every tuple, counted round.
Combinations(q) == FoldLeft(LAMBDA n, items : n * Len(items), 1, q)
FindTuplesMatches(q) ==
  {[k \in DOMAIN q |-> q[k][(i % Len(q[k])) + 1]] : i \in 0..Combinations(q) - 1}

\* specifyInstanceOfDynamicMetric
Specify(ns, rns) ==
  [k \in DOMAIN ns |-> IF ns[k] = Star /\ k <= Len(rns) THEN rns[k] ELSE ns[k]]

\* metricCatalog.GetMetrics: an error as soon as one of the namespaces has none.
FoundFor(rns, ver) ==
  {[mt |-> m, ns |-> Specify(m.ns, rns), rns |-> rns] :
     m \in TreeGetMetrics(rns, ver)}

GetMetrics(q, ver) ==
  LET nss == FindTuplesMatches(q)
  IN /\ answer' = [query |-> q, nss |-> nss, found |->
            IF \E rns \in nss : FoundFor(rns, ver) = {} THEN {}
            ELSE UNION {FoundFor(rns, ver) : rns \in nss}]
     /\ UNCHANGED <<loaded, nodes, mts, keys>>
-----------------------------------------------------------------------------
(* AddLoadedMetricType for all a plugin exposes: a metric type of the same  *)
(* namespace and version is replaced, whosever it is.                       *)
Taken(p) == {m \in mts : \E o \in Offers[p] : o.ns = m.ns /\ o.ver = m.ver}
Own(p) == {[ns |-> o.ns, ver |-> o.ver, plugin |-> p] : o \in Offers[p]}

Load(p) ==
  /\ p \notin loaded
  /\ loaded' = loaded \cup {p}
  /\ mts' = (mts \ Taken(p)) \cup Own(p)
  /\ nodes' = nodes \cup UNION {Prefixes(o.ns) : o \in Offers[p]}
  /\ keys' = keys \cup {o.ns : o \in Offers[p]}
  /\ UNCHANGED answer

(* RmUnloadedPluginMetrics: DeleteByPlugin, and the keys are made anew.     *)
Unload(p) ==
  /\ p \in loaded
  /\ loaded' = loaded \ {p}
  /\ mts' = mts \ {m \in GatherMetricTypes : m.plugin = p}
  /\ keys' = {m.ns : m \in {n \in GatherMetricTypes : n.plugin # p}}
  /\ UNCHANGED <<nodes, answer>>

Next ==
  \/ \E p \in Plugins : Load(p) \/ Unload(p)
  \/ \E q \in Queries, ver \in Versions \cup {0} : GetMetrics(q, ver)
Spec == Init /\ [][Next]_vars
-----------------------------------------------------------------------------
(* Properties.                                                              *)

\* After any loads and unloads the catalog offers nothing of a plugin that is
\* not loaded, even where plugins took each other's place, and its keys stay in
\* step with the trie; metrics with a namespace of one element are the exception
\* (mttrie.go:83-107, metrics.go:400-423).
NoForeignMetrics ==
  /\ \A m \in mts : Len(m.ns) > 1 => m.plugin \in loaded
  /\ {k \in keys : Len(k) > 1} = {m.ns : m \in {n \in mts : Len(n.ns) > 1}}

\* docs/TASKS.md:329 "Declaring a metric's name exactly as it appears in the
\* metric catalog" finds it, whatever else was loaded and left nodes behind,
\* dynamic elements included (mttrie.go:283-344).
ExactIsFound == \A m \in mts : m \in TreeGetMetrics(m.ns, m.ver)

\* What a query finds is an instance of what was requested: a collector is never
\* asked for another name than the one in the request (metrics.go:741-755).
AnswersAreInstances ==
  \A a \in answer.found : \A k \in DOMAIN a.rns :
    a.rns[k] # Star => k \in DOMAIN a.ns /\ a.ns[k] = a.rns[k]

\* All namespaces a query with tuples stands for.
Product(q) ==
  {ns \in [DOMAIN q -> UNION {ToSet(q[k]) : k \in DOMAIN q}] :
     \A k \in DOMAIN q : ns[k] \in ToSet(q[k])}
Divides(d, n) == n % d = 0
Coprime(m, n) == \A d \in 2..m : ~(Divides(d, m) /\ Divides(d, n))

\* The tuples of a query are combined in every way if no two of them have a
\* number of items with a common divisor (metrics.go:729-735).
CoprimeTuplesMatch ==
  LET q == answer.query
  IN (\A j, k \in DOMAIN q : j # k => Coprime(Len(q[j]), Len(q[k])))
       => q = <<>> \/ answer.nss = Product(q)

\* A query finds what bears its name, asks collectors for nothing else, and its
\* tuples stand for all their combinations (metrics.go:470-520, 656-755).
QueriesAreAnswered == ExactIsFound /\ AnswersAreInstances /\ CoprimeTuplesMatch
=============================================================================
