SPECIFICATION Spec
CONSTANTS
  k1 = k1
  k2 = k2
  Stream = {k1, k2}
  KeyOrder <- MCKeyOrder
  MaxFrames = 4
  HalfDuplex = {k1}
  LateFrames = {k2}
  MidCapture = {k2}
  WriteFaults = {k1}
  NoState = NoState
  NoDoc = NoDoc
INVARIANTS
  TypeOK
  NothingElseLost
  MembersMatchDisk
  ClosedMeansWritten
  AttributionExact
CHECK_DEADLOCK FALSE
