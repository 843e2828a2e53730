---------------------------- MODULE MCCollection ----------------------------
EXTENDS Collection

MCWants == [t \in {"t1", "t2"} |-> IF t = "t1" THEN {"s", "h1"} ELSE {"s", "*"}]
MCInstances == {"h1", "h2"}
MCSpecs ==
  [t \in {"t1", "t2"} |->
    IF t = "t1"
    THEN { [kind |-> "windowed", interval |-> 2, start |-> -1, stop |-> -1, count |-> 2],
           [kind |-> "windowed", interval |-> 2, start |-> 3, stop |-> 2, count |-> 0],
           [kind |-> "windowed", interval |-> 1, start |-> -1, stop |-> 4, count |-> 1] }
    ELSE { [kind |-> "windowed", interval |-> 2, start |-> 1, stop |-> -1, count |-> 1],
           [kind |-> "cron", interval |-> 3, start |-> -1, stop |-> -1, count |-> 0] }]
=============================================================================
