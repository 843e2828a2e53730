------------------------------ MODULE MCConfig ------------------------------
(* Two versions of a collector and a publisher.  Two metrics are siblings at *)
(* the fourth level.  The manifests have configuration at the root, at a     *)
(* branch, at leaves, nested, with two roots and with unfit values.          *)
EXTENDS Config, TLC

c1 == [typ |-> "collector", name |-> "c", ver |-> 1]
c2 == [typ |-> "streaming", name |-> "c", ver |-> 2]
pb == [typ |-> "publisher", name |-> "p", ver |-> 1]
MCPlugins == {c1, c2, pb}
Root == <<"intel">>
LeafA == <<"intel", "mock", "load", "a">>
LeafB == <<"intel", "mock", "load", "b">>
LeafD == <<"intel", "disk">>
MCNsOf == ("a" :> LeafA) @@ ("b" :> LeafB) @@ ("d" :> LeafD)
MCPluginOf == ("a" :> c1) @@ ("b" :> c1) @@ ("d" :> c2)

IntOf(n) == Value("integer", 2 * n)
MCDeclared ==
  (c1 :> ((LeafA :> ("k" :> Rule("integer", FALSE, IntOf(1), IntOf(1), IntOf(9))))
            @@ (LeafB :> ("q" :> NewRule("string", TRUE, NoValue)))))
  @@ (c2 :> Empty)
  @@ (pb :> (<<"">> :> ("k" :> Rule("integer", FALSE, IntOf(2), IntOf(1), NoValue))))
MCRpc == (c1 :> "native") @@ (c2 :> "grpc") @@ (pb :> "grpc")

N(n) == "k" :> Value("whole", 2 * n)
Q == "q" :> Value("string", 0)
Task(collect, publish) == [collect |-> collect, publish |-> publish]
MCManifests ==
  { Task(Empty, Empty),
    Task((LeafA :> N(3)) @@ (LeafB :> Q), N(3)),
    Task((Root :> Q) @@ (LeafD :> N(3)), Empty),
    Task((Root :> Q) @@ (LeafA :> N(3)) @@ (LeafB :> N(4)), Empty),
    Task(LeafB :> Q, "k" :> Value("decimal", 3)),
    Task(LeafB :> ("q" :> Value("other", 0)), Empty),
    Task((LeafB :> Q) @@ (<<"other">> :> N(3)), Empty) }

Section(all, plugins) == [all |-> all, plugins |-> plugins]
Item(all, versions) == [all |-> all, versions |-> versions]
MCFiles ==
  { [all |-> Empty, typ |-> Empty],
    [all |-> N(5),
     typ |-> ("collector" :> Section(Empty, "c" :> Item(Q, 1 :> N(6))))
               @@ ("publisher" :> Section(N(8), Empty))] }

Req(op, typ, name, ver, items, key) ==
  [op |-> op, typ |-> typ, name |-> name, ver |-> ver, items |-> items, key |-> key]
MCRequests ==
  { Req("set", "", "", -2, N(8), ""),
    Req("set", "collector", "c", 1, "k" :> Value("decimal", 18), ""),
    Req("set", "collector", "c", 2, N(7), ""),
    Req("delete", "collector", "c", 1, Empty, "k"),
    Req("delete", "collector", "x", 1, Empty, "q") }
=============================================================================
