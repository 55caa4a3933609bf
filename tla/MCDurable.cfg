CONSTANTS
  Procs = {p1}
  Sessions = {s1, s2}
  NoSession = NoSession
  NoProc = NoProc
  Faulty = {}
  Outlives = {}

SPECIFICATION Spec
SYMMETRY Symmetric
VIEW Narrow
CHECK_DEADLOCK FALSE

INVARIANTS
  NoLostSession

PROPERTIES
  RowOutlivesWorktree
  ImageSurvives
  BootRestoresEveryRow
