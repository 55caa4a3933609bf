CONSTANTS
  Procs = {p1}
  Sessions = {s1}
  NoSession = NoSession
  NoProc = NoProc
  Faulty = {s1}
  Outlives = {s1}

SPECIFICATION FairSpec
CHECK_DEADLOCK FALSE

INVARIANT
  TypeOK

PROPERTIES
  HandlerReturns
  ShutdownCompletes
