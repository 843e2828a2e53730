---------------------------- MODULE ConfigPolicy ----------------------------
(* Configuration data and configuration policies as values: the tables of    *)
(* core/cdata, the trees of pkg/ctree, the rules of control/plugin/cpolicy,  *)
(* and what becomes of them on their way from a manifest, a request or a     *)
(* plugin into the daemon.                                                   *)
(*                                                                           *)
(* A table or a policy node is a function from the keys it has.  A tree is a *)
(* function from the paths that hold a node.  Numbers are counted in halves, *)
(* so that an odd number is one that is not whole.                           *)
EXTENDS Integers, Sequences, SequencesExt, FiniteSets

Empty == [k \in {} |-> 0]
Value(type, half) == [type |-> type, half |-> half]
NoValue == Value("none", 0)

-----------------------------------------------------------------------------
(* Tables.                                                                   *)

\* The items of n laid over those of c.
Merge(c, n) ==
  [k \in DOMAIN c \union DOMAIN n |-> IF k \in DOMAIN n THEN n[k] ELSE c[k]]
Put(c, key, value) == Merge(c, [k \in {key} |-> value])
\* Where both have an item the caller's stays.
ReverseMerge(c, n) == Merge(n, c)
ApplyDefaults(c, defaults) == Merge(defaults, c)
DeleteItem(c, key) == [k \in DOMAIN c \ {key} |-> c[k]]

(* A value in a manifest or a request is a literal: a number written whole   *)
(* or with a decimal point, a string, a bool, or something that is not a     *)
(* configuration value.                                                      *)

\* A manifest: JSON has made floats of the numbers, whole ones become
\* integers again.
ConfigValueOf(raw) ==
  CASE raw.type \in {"whole", "decimal"} ->
         Value(IF raw.half % 2 = 0 THEN "integer" ELSE "float", raw.half)
    [] OTHER -> raw
\* A request or the daemon's own configuration: the spelling decides.
UnmarshalValue(raw) ==
  CASE raw.type = "whole" -> Value("integer", raw.half)
    [] raw.type = "decimal" -> Value("float", raw.half)
    [] OTHER -> raw
Convertible(cmap) == \A k \in DOMAIN cmap : cmap[k].type # "other"
ConfigToConfigDataNode(cmap) == [k \in DOMAIN cmap |-> ConfigValueOf(cmap[k])]
UnmarshalJSON(cmap) == [k \in DOMAIN cmap |-> UnmarshalValue(cmap[k])]

-----------------------------------------------------------------------------
(* Trees.                                                                    *)

\* A tree has one root name; Add panics on another.
OneRoot(paths) == \A p, q \in paths : p[1] = q[1]
\* The nodes whose path leads to ns, and the topmost of them.
NodesTo(tree, ns) == {p \in DOMAIN tree : IsPrefix(p, ns)}
Topmost(paths) == CHOOSE p \in paths : \A q \in paths : Len(p) <= Len(q)
\* The nodes on the way to ns merged one over the other, the deepest on top.
TreeGet(tree, ns) ==
  LET on == NodesTo(tree, ns)
      Deepest(k) == CHOOSE p \in on : /\ k \in DOMAIN tree[p]
                                      /\ \A q \in on : k \in DOMAIN tree[q]
                                                         => Len(q) <= Len(p)
  IN [k \in UNION {DOMAIN tree[p] : p \in on} |-> tree[Deepest(k)][k]]

(* GetAll walks the tree with a slice of keys that its calls share.  At the  *)
(* fourth level the slice has room left, so siblings write the same element: *)
(* in the end all of them bear the name of the one visited last.             *)
SharedDepth == 4
Siblings(tree, p) ==
  {q \in DOMAIN tree : Len(q) = SharedDepth /\ Front(q) = Front(p)}
\* What GetAll may answer: for every fourth-level node the one visited last.
GetAll(tree) ==
  {order \in [DOMAIN tree -> DOMAIN tree] :
     \A p \in DOMAIN tree :
       IF Len(p) = SharedDepth
       THEN /\ order[p] \in Siblings(tree, p)
            /\ \A q \in Siblings(tree, p) : order[q] = order[p]
       ELSE order[p] = p}

-----------------------------------------------------------------------------
(* Rules.                                                                    *)

Rule(type, required, default, min, max) ==
  [type |-> type, required |-> required, default |-> default,
   min |-> min, max |-> max]
NewRule(type, required, default) == Rule(type, required, default, NoValue, NoValue)

Under(rule, cv) == rule.min # NoValue /\ cv.half < rule.min.half
Over(rule, cv) == rule.max # NoValue /\ cv.half > rule.max.half
ValidateBool(rule, cv) == IF cv.type # "bool" THEN "error" ELSE "ok"
ValidateString(rule, cv) == IF cv.type # "string" THEN "error" ELSE "ok"
\* A float passes the check of the type and then fails the assertion that
\* the comparison with a limit makes.
ValidateInt(rule, cv) ==
  CASE cv.type \notin {"integer", "float"} -> "error"
    [] cv.type = "float" /\ (rule.min # NoValue \/ rule.max # NoValue) -> "panic"
    [] cv.type = "integer" /\ (Under(rule, cv) \/ Over(rule, cv)) -> "error"
    [] OTHER -> "ok"
ValidateFloat(rule, cv) ==
  IF cv.type # "float" \/ Under(rule, cv) \/ Over(rule, cv) THEN "error" ELSE "ok"
Validate(rule, cv) ==
  CASE rule.type = "bool" -> ValidateBool(rule, cv)
    [] rule.type = "string" -> ValidateString(rule, cv)
    [] rule.type = "integer" -> ValidateInt(rule, cv)
    [] rule.type = "float" -> ValidateFloat(rule, cv)

Defaults(rules) ==
  [k \in {j \in DOMAIN rules : rules[j].default # NoValue} |-> rules[k].default]
\* The defaults that Process and AddDefaults put in: not those of required keys.
OwnDefaults(rules) ==
  LET d == Defaults(rules)
  IN [k \in {j \in DOMAIN d : ~rules[j].required} |-> d[k]]
\* Process answers a verdict and fills the table it is given, also when some
\* other key is wrong.
Verdicts(rules, m) ==
  {IF k \in DOMAIN m THEN Validate(rules[k], m[k])
   ELSE IF rules[k].required THEN "error" ELSE "ok" : k \in DOMAIN rules}
Process(rules, m) ==
  [verdict |-> LET v == Verdicts(rules, m)
               IN IF "panic" \in v THEN "panic"
                  ELSE IF "error" \in v THEN "error" ELSE "ok",
   table |-> ApplyDefaults(m, OwnDefaults(rules))]
\* A second node with a rule for a key that has a default already is an error.
AddDefaultsFails(tree) ==
  \E p, q \in DOMAIN tree : /\ p # q
                            /\ DOMAIN OwnDefaults(tree[p]) \cap DOMAIN tree[q] # {}

-----------------------------------------------------------------------------
(* What becomes of a rule on its way.                                        *)

\* Gob, native plugins: the decoder stops once it has read a default.
GobBool(rule) == NewRule("bool", rule.required, rule.default)
GobString(rule) == NewRule("string", rule.required, rule.default)
GobInt(rule) ==
  IF rule.default # NoValue THEN NewRule("integer", rule.required, rule.default)
  ELSE Rule("integer", rule.required, NoValue, rule.min, rule.max)
GobFloat(rule) ==
  IF rule.default # NoValue THEN NewRule("float", rule.required, rule.default)
  ELSE Rule("float", rule.required, NoValue, rule.min, rule.max)
Gob(rule) ==
  CASE rule.type = "bool" -> GobBool(rule)
    [] rule.type = "string" -> GobString(rule)
    [] rule.type = "integer" -> GobInt(rule)
    [] rule.type = "float" -> GobFloat(rule)
\* gRPC: the reply says of each of the three whether it is there.
ToConfigPolicy(rule) ==
  IF rule.type \in {"bool", "string"}
  THEN NewRule(rule.type, rule.required, rule.default)
  ELSE Rule(rule.type, rule.required, rule.default, rule.min, rule.max)
\* The catalog's copy has no limits.
CopyRule(rule) == NewRule(rule.type, rule.required, rule.default)
CopyRules(rules) == [k \in DOMAIN rules |-> CopyRule(rules[k])]

Transported(tree, rpc) ==
  [p \in DOMAIN tree |->
     [k \in DOMAIN tree[p] |-> IF rpc = "native" THEN Gob(tree[p][k])
                               ELSE ToConfigPolicy(tree[p][k])]]
\* The catalog adds each copied node at the path GetAll gives for it; of the
\* nodes given one path the last stays, which is the one the path names.
NewCatalogedPlugin(tree, order) ==
  [p \in {order[q] : q \in DOMAIN tree} |-> CopyRules(tree[p])]
=============================================================================
