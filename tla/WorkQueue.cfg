\* Three callers on a queue of two, one worker, with workManager.Stop.
CONSTANTS
  Callers = {c1, c2, c3}
  Workers = {w1}
  Limit = 2
  Kind = "collect"
  NoJob = NoJob
SPECIFICATION LiveSpec
INVARIANT NoJobLost
PROPERTIES IsJobService JobsComplete
CHECK_DEADLOCK FALSE
