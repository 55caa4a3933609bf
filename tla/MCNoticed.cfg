CONSTANTS
  Procs = {p1, p2}
  Sessions = {s1}
  NoSession = NoSession
  NoProc = NoProc
  Faulty = {}
  Outlives = {s1}

SPECIFICATION CalmSpec
VIEW Narrow
CHECK_DEADLOCK FALSE

PROPERTIES
  UnexpectedEndNoticed
