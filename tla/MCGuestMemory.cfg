CONSTANTS
  Word <- MCWord
  Requests <- MCRequests
  InitialDstSlotBytes = 131072
SPECIFICATION Spec
INVARIANTS
  TypeOK
  SlotsInMemory
  LayoutIsCurrent
  LayoutFits
  GrowNeverFails
PROPERTIES
  FailedReserveChangesNothing
  CapacityNeverShrinks
  SmallerRequestMovesNothing
  GrowthIsMinimal
  ImplementsReserveContract
  EachRequestMeetsContract
