CONSTANTS
  Word <- MCWord
  Requests <- MCRequests
  InitialDstSlotBytes = 131072
  Inputs <- PNGInputs
  Items <- NoItems
SPECIFICATION PackSpec
INVARIANT
  SlotsAreTheHosts
