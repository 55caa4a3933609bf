CONSTANTS
  Sessions = {s1, s2}
  Branches = {main}
  NoBranch = NoBranch
  Remotes = {"origin"}
  MaxCommits = 3
  MaxEdits = 1
  MaxFails = 0

SPECIFICATION Spec

CHECK_DEADLOCK FALSE

INVARIANT
  CommitsKept
