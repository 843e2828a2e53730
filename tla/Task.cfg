\* Two clients, a workflow on two nodes, two starts, disabled at the second
\* failure in a row, periodic or streaming.
CONSTANTS
  Clients = {c1, c2}
  Groups = {local, remote}
  Streams = {FALSE, TRUE}
  StopOnFailure = 2
  MaxStarts = 2
  Ops = {"stop", "enable", "remove", "kill"}
SPECIFICATION LiveSpec
INVARIANTS StoppedIsIdle OneSpin RunningIsSubscribed SpinHasWaiter
 
CHECK_DEADLOCK FALSE
