CONSTANTS
  Word <- MCWord
  Requests <- MCRequests
  InitialDstSlotBytes = 131072
  Inputs <- MCInputs
  Items <- MCItems
SPECIFICATION PackSpec
INVARIANTS
  TypeOK
  BlocksApart
  ArenaBelowSlots
  AccumulatorsFit
  BlobsReachCaller
