\* Two callers, three calls of Load, Unload and SwapPlugins.
SPECIFICATION Spec
CONSTANTS
  col1 = col1
  col2 = col2
  pub = pub
  t1 = t1
  t2 = t2
  nsA = nsA
  nsB = nsB
  collector = collector
  publisher = publisher
  Callers = {a1, a2}
  NoCaller = NoCaller
  NoTask = NoTask
  Tasks <- MCTasks
  Plugins <- MCPlugins
  Name <- MCName
  Version <- MCVersion
  Exposes <- MCExposes
  Requests <- MCRequests
  Uses <- MCUses
  Ops = {"unload", "swap", "reload", "fail", "timeout"}
  MaxCalls = 3
SYMMETRY CallerSymmetry
INVARIANTS ViewsConverge NoOrphanMetrics
CHECK_DEADLOCK FALSE
