---------------------------- MODULE MCMetricTrie ----------------------------
(* Collectors with static and dynamic metrics that lie over each other, two  *)
(* versions of one, one whose metric another takes over, and one with a      *)
(* namespace of a single element.                                            *)
EXTENDS MetricTrie

Mt(ns, ver) == [ns |-> ns, ver |-> ver]
MCPlugins == {"static", "static2", "dynamic", "rival", "inner", "short"}
MCOffers ==
  [p \in MCPlugins |->
     CASE p = "static" -> {Mt(<<"mock", "host0", "foo">>, 1)}
       [] p = "static2" -> {Mt(<<"mock", "host0", "foo">>, 2),
                            Mt(<<"mock", "host0", "bar">>, 2)}
       [] p = "dynamic" -> {Mt(<<"mock", "*", "foo">>, 1),
                            Mt(<<"mock", "*", "bar">>, 1)}
       [] p = "rival" -> {Mt(<<"mock", "host0", "foo">>, 1)}
       [] p = "inner" -> {Mt(<<"mock", "host0">>, 1),
                          Mt(<<"mock", "*", "foo", "*", "baz">>, 1)}
       [] p = "short" -> {Mt(<<"mock">>, 1)}]
One(name) == <<name>>
MCQueries ==
  { <<One("mock"), One("host0"), One("foo")>>,
    <<One("mock"), One("host1"), One("bar")>>,
    <<One("mock"), One("*")>>,
    <<One("*"), One("host1"), One("*")>>,
    <<One("mock"), One("h"), One("foo"), One("i"), One("baz")>>,
    <<One("mock"), <<"host0", "host1">>, One("foo")>>,
    <<One("mock"), <<"host0", "host1">>, <<"foo", "bar", "baz">>>> }
=============================================================================
