CONSTANTS
  MaxBatch = 3
  MaxUnits = 3

SPECIFICATION Spec

CHECK_DEADLOCK FALSE

INVARIANTS
  TypeOK
  PictureIsTheStream
