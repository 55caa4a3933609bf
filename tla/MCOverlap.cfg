CONSTANTS
  Procs = {p1, p2}
  Sessions = {s1}
  NoSession = NoSession
  NoProc = NoProc
  Faulty = {NoSession}
  Outlives = {s1}

SPECIFICATION Spec
SYMMETRY Symmetric
VIEW View
CHECK_DEADLOCK FALSE

INVARIANTS
  LiveWorkerReachable
  OneWorkerPerWorkspace
  BridgeWatched
  RowIsState
  SettledBetweenCommands
  StopMeansDead

PROPERTIES
  ShutdownStopsWorkers
  WorktreeOutlivesSession
  KeepsContract
