CONSTANTS
  Plugins <- MCPlugins
  Publisher <- pb
  Metrics = {"a", "b", "d"}
  NsOf <- MCNsOf
  PluginOf <- MCPluginOf
  Declared <- MCDeclared
  Rpc <- MCRpc
  Files <- MCFiles
  Manifests <- MCManifests
  Requests <- MCRequests
  MaxUpdates = 1
  None = None
SPECIFICATION Spec
INVARIANTS
  StaleOnlyByRace
  
CHECK_DEADLOCK FALSE
