CONSTANTS
  Word <- MCWord
  InitialDstSlotBytes = 4
  Requests = {8}
  Sources <- StillSources
  Image <- StillImages
  Destinations <- StillDests
  Dest <- StillDest
  nilDst = "nil"
  Indices = {0, 1, 2}
  MaxWidth = 2
  MaxHeight = 1
  Word64 = 536870912
  Second = 5000
  FlicksPerSecond = 3528
SPECIFICATION Spec
INVARIANT
  CanvasIsDecoded
