CONSTANTS
  Word <- MCWord
  InitialDstSlotBytes = 4
  Requests = {8}
  Sources <- UnfitSources
  Image <- UnfitImages
  Destinations <- UnfitDests
  Dest <- UnfitDest
  nilDst = "nil"
  Indices = {1}
  MaxWidth = 2
  MaxHeight = 1
  Word64 = 536870912
  Second = 5000
  FlicksPerSecond = 3528
SPECIFICATION Spec
INVARIANTS
  RetryAdvice
PROPERTIES
  ImplementsDecodeContract
