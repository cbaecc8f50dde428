CONSTANTS
  Word <- MCWord
  InitialDstSlotBytes = 4
  Requests = {}
  Sources <- MCSources
  CallerSources = {"anim", "gif", "corner", "large", "wide"}
  Image <- MCCallerImages
  Destinations <- CallerDests
  Dest <- MCCallerDest
  nilDst = "nil"
  Indices = {0}
  MaxWidth = 2
  MaxHeight = 1
  Word64 = 536870912
  Second = 5000
  FlicksPerSecond = 3528
SPECIFICATION CallersSpec
INVARIANTS
  HelpersDeliver
  AllocationsBounded
  AnimationShowsEveryFrame
PROPERTY
  CallersFinish
CHECK_DEADLOCK FALSE
