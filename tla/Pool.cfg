SPECIFICATION LiveSpec
CONSTANTS
  t1 = t1
  t2 = t2
  Tasks <- MCTasks
  MaxPid = 2
  Checks = {1}
  Max = 2
  Concurrency = 1
  MaxRestarts = 1
  FailLimit = 1
  Sticky = FALSE
  Faults = {"unsubscribe", "fail", "timeout"}
INVARIANTS  InUseStaysInPool
 
CHECK_DEADLOCK FALSE
