CONSTANTS
  t1 = t1
  p1 = p1
  Nodes = {n1, n2}
  Tasks = {t1}
  Plugins = {p1}
  Needs <- MCNeeds
  Rushed = {}
  Workers = 2
  RetryLimit = 1
  QueueSize = 2
  MaxOps = 2
SPECIFICATION LiveSpec
CHECK_DEADLOCK FALSE
 
PROPERTY Settles 
