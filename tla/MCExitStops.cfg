CONSTANTS
  Procs = {p1, p2}
  Sessions = {s1}
  NoSession = NoSession
  NoProc = NoProc
  Faulty = {}
  Outlives = {}

SPECIFICATION Spec
SYMMETRY Symmetric
VIEW View
CHECK_DEADLOCK FALSE

INVARIANT
  ExitStopsWorker
