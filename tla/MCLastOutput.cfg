CONSTANTS
  Streams = {"stdout"}
  Texts = {a}
  ChanCap = 1
  Pipes = FALSE
  MaxPayload = 2
  MaxKept = 1
  MaxChunks = 2
  MaxFails = 0

SPECIFICATION Spec

CHECK_DEADLOCK FALSE

INVARIANT AllShownAtEnd
