\* Three runs of the tree, two failures in a row disable the task; periodic or
\* fed by a stream.
SPECIFICATION LiveSpec
CONSTANTS
  pr1 = pr1
  pr2 = pr2
  pu1 = pu1
  pu2 = pu2
  pu3 = pu3
  remote = remote
  Collect = collect
  Local = local
  Nodes <- MCNodes
  Parent <- MCParent
  Above <- MCAbove
  Target <- MCTarget
  Streams = {FALSE, TRUE}
  StopOnFailure = 2
  MaxRuns = 3
INVARIANTS RunsDoNotOverlap InputIsOfThisRun 
PROPERTY RunEnds
CHECK_DEADLOCK FALSE
