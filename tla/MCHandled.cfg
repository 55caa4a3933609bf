CONSTANTS
  Rooms = {r1}
  Limit = 1
  MaxDelay = 1
  MaxEvents = 2
  MaxFaults = 1

SPECIFICATION FairSpec

CHECK_DEADLOCK FALSE

INVARIANT
  NoMessagePassedOver

PROPERTY
  MessageHandled
