SPECIFICATION Spec
CONSTANTS
  Tasks = {"t1", "t2"}
  Wants <- MCWants
  Instances <- MCInstances
  Specs <- MCSpecs
  Strategies = {"least-recently-used", "sticky", "config-based"}
  Rpcs = {"native", "grpc"}
  GlobalCacheExpiration = 1
  PluginTTL = 3
  Deadline = 1
  Grace = 1
  MaxTime = 8
INVARIANTS
  WindowIsKept
  AgeIsBounded
  AnswerIsComplete
CHECK_DEADLOCK FALSE
PROPERTY
  AllEnds
