CONSTANTS
  Word <- MCWord
  InitialDstSlotBytes = 4
  Requests = {65537}
  Sources <- FrameSources
  Image <- FrameImages
  Destinations <- FrameDests
  Dest <- FrameDest
  nilDst = "nil"
  Indices = {0, 1, 2}
  MaxWidth = 2
  MaxHeight = 1
  Word64 = 536870912
  Second = 5000
  FlicksPerSecond = 3528
SPECIFICATION Spec
INVARIANTS
  TypeOK
  RetryAdvice
PROPERTIES
  FailureChangesNothingReturned
  ProbedGeometryDecodes
  CountedFramesExist
  ImplementsDecodeContract
