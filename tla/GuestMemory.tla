------------------------------ MODULE GuestMemory ------------------------------
(***************************************************************************)
(* A decoder's linear memory and the slots in it: New places the default   *)
(* slots, Reserve validates, grows the memory and places them again.        *)
(***************************************************************************)
EXTENDS SlotLayout

CONSTANTS
  InitialDstSlotBytes,   \* the package variable initialDstSlotBytes
  Requests               \* the ints callers pass to Reserve

ASSUME GuestMemoryAssumption ==
  /\ InitialDstSlotBytes \in Nat
  /\ InitialDstSlotBytes <= 131072         \* defaultInitialDstSlotBytes
  /\ Requests \subseteq Int

VARIABLES
  memSize,         \* len of the guest's memory slice, in bytes
  currentLayout,   \* Decoder.currentLayout
  reserveErr       \* what the last Reserve returned

vars == <<memSize, currentLayout, reserveErr>>

Outcomes == {"nil", "invalid", "growFailed"}

----------------------------------------------------------------------------
(* The uint64 validation of a complete layout. *)

\* MUTANT of requiredMem: the slots alone, without what lies below them.
slotsMem(newDst, newSrc) ==
  RoundUp8(hostAnimationScratchBytes + metaSlotBytes + newSrc + newDst)

requiredMem(newDst, newSrc) ==
  hostSlotRegionBase
  + RoundUp8(hostAnimationScratchBytes + metaSlotBytes + newSrc + newDst)

\* MUTANT of pagesNeeded: whole pages only.
wholePages(newDst, newSrc) == requiredMem(newDst, newSrc) \div wasmPageSize

pagesNeeded(newDst, newSrc) ==
  (requiredMem(newDst, newSrc) + wasmPageSize - 1) \div wasmPageSize

\* MUTANT of memoryGrow: the delta taken as bytes.
growBytes(size, delta, max) ==
  IF size \div wasmPageSize + delta > max THEN -1 ELSE size + delta

\* memory_grow: the memory's new length, or -1 and no change.
memoryGrow(size, delta, max) ==
  IF size \div wasmPageSize + delta > max THEN -1
  ELSE size + delta * wasmPageSize

\* MUTANT of grownMemory: one page too many.
grownOver(newDst, newSrc) ==
  LET currentPages == memSize \div wasmPageSize
      needed       == pagesNeeded(newDst, newSrc)
  IN  IF needed > currentPages
        THEN memoryGrow(memSize, needed - currentPages + 1, maxReservePages)
        ELSE memSize

\* The memory Reserve leaves: grown only when the layout does not fit in it.
grownMemory(newDst, newSrc) ==
  LET currentPages == memSize \div wasmPageSize
      needed       == pagesNeeded(newDst, newSrc)
  IN  IF needed > currentPages
        THEN memoryGrow(memSize, needed - currentPages, maxReservePages)
        ELSE memSize

\* MUTANT of reserveOutcome: no check against the module's maximum.
uncheckedOutcome(newDst, newSrc) ==
  IF newDst = errInvalid \/ newSrc = errInvalid THEN "invalid"
  ELSE IF grownMemory(newDst, newSrc) < 0 THEN "growFailed" ELSE "nil"

\* MUTANT of reserveOutcome: refuses the layout that just fits.
strictOutcome(newDst, newSrc) ==
  IF newDst = errInvalid \/ newSrc = errInvalid THEN "invalid"
  ELSE IF requiredMem(newDst, newSrc) >= maxMemory THEN "invalid"
  ELSE IF grownMemory(newDst, newSrc) < 0 THEN "growFailed" ELSE "nil"

\* What Reserve returns for the two resolved slot lengths.
reserveOutcome(newDst, newSrc) ==
  IF newDst = errInvalid \/ newSrc = errInvalid THEN "invalid"
  ELSE IF requiredMem(newDst, newSrc) > maxMemory THEN "invalid"
  ELSE IF grownMemory(newDst, newSrc) < 0 THEN "growFailed"
  ELSE "nil"

----------------------------------------------------------------------------
Init ==
  /\ memSize = initialMemory
  /\ currentLayout = computeLayout(initialMemory, InitialDstSlotBytes, defaultSrcCap)
  /\ reserveErr = "nil"

\* MUTANT of Reserve: places the slots for the memory read before it grew.
ReserveStaleView(dstBytes, srcBytes) ==
  LET newDst  == resolveSlot(currentLayout.dstLen, dstBytes)
      newSrc  == resolveSlot(currentLayout.srcLen, srcBytes)
      outcome == reserveOutcome(newDst, newSrc)
  IN  /\ reserveErr' = outcome
      /\ IF outcome = "nil"
           THEN /\ memSize' = grownMemory(newDst, newSrc)
                /\ currentLayout' = computeLayout(memSize, newDst, newSrc)
           ELSE UNCHANGED <<memSize, currentLayout>>

\* MUTANT of Reserve: takes the layout over before it is validated.
ReserveEager(dstBytes, srcBytes) ==
  LET newDst  == resolveSlot(currentLayout.dstLen, dstBytes)
      newSrc  == resolveSlot(currentLayout.srcLen, srcBytes)
      outcome == reserveOutcome(newDst, newSrc)
  IN  /\ reserveErr' = outcome
      /\ memSize' = IF outcome = "nil" THEN grownMemory(newDst, newSrc) ELSE memSize
      /\ currentLayout' = computeLayout(memSize', newDst, newSrc)

Reserve(dstBytes, srcBytes) ==
  LET newDst  == resolveSlot(currentLayout.dstLen, dstBytes)
      newSrc  == resolveSlot(currentLayout.srcLen, srcBytes)
      outcome == reserveOutcome(newDst, newSrc)
  IN  /\ reserveErr' = outcome
      /\ IF outcome = "nil"
           THEN /\ memSize' = grownMemory(newDst, newSrc)
                /\ currentLayout' =
                     computeLayout(grownMemory(newDst, newSrc), newDst, newSrc)
           ELSE UNCHANGED <<memSize, currentLayout>>

Next == \E dstBytes, srcBytes \in Requests : Reserve(dstBytes, srcBytes)

Spec == Init /\ [][Next]_vars

----------------------------------------------------------------------------
(* Every variable has its type; the memory is whole pages within the limit. *)
TypeOK ==
  /\ memSize \in 0 .. maxMemory
  /\ memSize % wasmPageSize = 0
  /\ currentLayout \in slotLayout
  /\ reserveErr \in Outcomes

(* The slots of memory.go's layout lie above the guest's own data, one after
   another, and end inside linear memory: no offset of computeLayout wrapped,
   and the frame meta slot the guest writes uint64 fields to is aligned. *)
SlotsInMemory ==
  LET l == currentLayout
  IN  /\ hostSlotRegionBase <= l.countOutOff
      /\ l.countOutOff + frameCountOutSlotBytes <= l.loopsOutOff
      /\ l.loopsOutOff + animationLoopsOutSlotBytes <= l.frameMetaOff
      /\ l.frameMetaOff % 8 = 0
      /\ l.frameMetaOff + frameMetaSlotBytes <= l.metaOff
      /\ l.metaOff + l.metaLen <= l.srcOff
      /\ l.srcOff + l.srcLen <= l.dstOff
      /\ l.dstOff + l.dstLen <= memSize

(* The layout is always the one computeLayout gives for the memory as it is
   now: Reserve never places slots for a length read before it grew. *)
LayoutIsCurrent ==
  currentLayout = computeLayout(memSize, currentLayout.dstLen, currentLayout.srcLen)

(* The memory is never too small for the slots placed in it, so computeLayout
   never has to raise the base to the host slot region. *)
LayoutFits ==
  requiredMem(currentLayout.dstLen, currentLayout.srcLen) <= memSize

(* errReserveGrowFailed cannot happen: what Reserve's 4096-page check lets
   through, memory_grow never refuses. *)
GrowNeverFails == reserveErr # "growFailed"

(* A Reserve that fails leaves the memory and the whole layout as they were. *)
FailedReserveChangesNothing ==
  [][reserveErr' # "nil" => UNCHANGED <<memSize, currentLayout>>]_vars

(* No Reserve takes capacity or memory away, whatever the order of requests. *)
CapacityNeverShrinks ==
  [][ /\ memSize' >= memSize
      /\ currentLayout'.dstLen >= currentLayout.dstLen
      /\ currentLayout'.srcLen >= currentLayout.srcLen ]_vars

(* A request for no more than a decoder already has succeeds, grows nothing
   and moves no slot, in every state a decoder can be in. *)
SmallerRequestMovesNothing ==
  [][ \A dstBytes, srcBytes \in Requests :
        ( /\ dstBytes <= currentLayout.dstLen
          /\ srcBytes <= currentLayout.srcLen
          /\ Reserve(dstBytes, srcBytes) )
        => reserveErr' = "nil" /\ UNCHANGED <<memSize, currentLayout>> ]_vars

(* Growth takes no more pages than the layout needs: after it the slots start
   within one page of the host slot region's base. *)
GrowthIsMinimal ==
  [][ memSize' # memSize
        => currentLayout'.hostBase < hostSlotRegionBase + wasmPageSize ]_vars

(* Reserve implements the capacities it documents, with no page, offset or
   wrapped sum showing through. *)
Contract ==
  INSTANCE ReserveContract WITH
    dstCap     <- currentLayout.dstLen,
    srcCap     <- currentLayout.srcLen,
    accepted   <- reserveErr = "nil",
    InitialDst <- InitialDstSlotBytes,
    InitialSrc <- defaultSrcCap,
    FixedBytes <- hostAnimationScratchBytes + metaSlotBytes,
    Region     <- maxMemory - hostSlotRegionBase

ImplementsReserveContract == Contract!Spec

(* The contract holds of every single request: one that fits the module's
   memory is accepted and raises exactly the capacities it names, one that does
   not is refused. *)
EachRequestMeetsContract ==
  [][ \A dstBytes, srcBytes \in Requests :
        Reserve(dstBytes, srcBytes)
          => \/ Contract!Accept(dstBytes, srcBytes)
             \/ Contract!Refuse(dstBytes, srcBytes) ]_vars

=============================================================================
