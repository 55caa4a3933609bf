CONSTANTS
  Rooms = {r1, r2}
  Limit = 2
  MaxDelay = 3
  MaxEvents = 2
  MaxFaults = 1

SPECIFICATION Spec
SYMMETRY Symmetric
VIEW View
CHECK_DEADLOCK FALSE

INVARIANTS
  TypeOK
  ReplayOnlyAfterLoss
  DelayDoubles
  NoMessagePassedOver

PROPERTY
  HandledInOrder
