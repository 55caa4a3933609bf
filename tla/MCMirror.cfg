CONSTANTS
  Sessions = {s1, s2}
  Branches = {main}
  NoBranch = NoBranch
  Remotes = {"origin", "url"}
  MaxCommits = 3
  MaxEdits = 2
  MaxFails = 1

SPECIFICATION Spec

CHECK_DEADLOCK FALSE

INVARIANTS
  TypeOK
  FreshBase
  NotFoundIsTrue
  CommitTakesAll
  CleanedUp
