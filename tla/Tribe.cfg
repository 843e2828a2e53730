\* Two accepted requests, three messages, one crash, sync or departure.
SPECIFICATION Spec
CONSTANTS
  n1 = n1
  n2 = n2
  a1 = a1
  p1 = p1
  t1 = t1
  none = none
  None = none
  Nodes <- MCNodes
  Agreements <- MCAgreements
  Plugins <- MCPlugins
  Tasks <- MCTasks
  BufferSize = 2
  Word = 32
  MaxMsgs = 3
  MaxAccepted = 2
  MaxRare = 1
INVARIANTS OnlyTiesRepeat OrderDoesNotMatter  AgreedIsRequested
SYMMETRY Symmetry
CHECK_DEADLOCK FALSE
