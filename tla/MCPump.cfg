CONSTANTS
  Streams = {"stdout"}
  Texts = {a}
  ChanCap = 1
  Pipes = TRUE
  MaxPayload = 2
  MaxKept = 1
  MaxChunks = 3
  MaxFails = 0

SPECIFICATION FairSpec

CHECK_DEADLOCK FALSE

INVARIANTS
  TypeOK
  TextIsTimed
  NoStaleTick
  RoomShowsPicture
  TypingEnds

PROPERTIES
  TextDelivered
  PumpEnds
  ReaderEnds
