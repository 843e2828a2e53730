SPECIFICATION LiveSpec
CONSTANTS
  NumCPU = 2
  Clients = {c1}
  FlagSets <- MCFlagSets
  FileSets <- MCFileSets
  Files <- MCFiles
  MaxStarts = 1
  MaxNotes = 1
INVARIANTS
  PortIsTheOneGiven
  
PROPERTIES
  WatchEnds
  SignalIsObeyed
CHECK_DEADLOCK FALSE
