------------------------------ MODULE SlotLayout ------------------------------
(***************************************************************************)
(* The slot arithmetic of memory.go.  The host places five scratch slots   *)
(* at the end of the guest's linear memory, low to high: count out and     *)
(* loops out, frame meta, decode meta, src, dst.  Offsets and lengths are  *)
(* uint32 values; Word is 2^32 in the code and is a parameter here only    *)
(* because TLC's integers are 32 bits wide.  Everything else has the       *)
(* value it has in the source.                                             *)
(***************************************************************************)
EXTENDS Integers

CONSTANT Word          \* number of uint32 values

defaultSrcCap              == 64 * 1024
metaSlotBytes              == 24
frameCountOutSlotBytes     == 4
animationLoopsOutSlotBytes == 4
frameMetaSlotBytes         == 48
hostAnimationScratchBytes  ==
  frameCountOutSlotBytes + animationLoopsOutSlotBytes + frameMetaSlotBytes
hostSlotRegionBase         == 33554432      \* 0x2000000
wasmPageSize               == 64 * 1024
maxReservePages            == 4096
initialMemory              == 134217728     \* 0x8000000, made by New of the module
maxMemory                  == maxReservePages * wasmPageSize

\* 2^32 is far above the largest linear memory and is a multiple of 8; even an
\* int32 counts its bytes.
ASSUME WordAssumption ==
  /\ Word \in Nat
  /\ Word >= 2 * maxMemory
  /\ Word % 8 = 0

uint32 == 0 .. Word - 1
U32(n) == n % Word

\* (n + 7) &^ 7 on unbounded naturals (the uint64 arithmetic of Reserve).
RoundUp8(n) == (n + 7) - ((n + 7) % 8)

align8(n) == U32(n + 7) - (U32(n + 7) % 8)

slotTotal(dstBytes, srcBytes) ==
  align8(U32(hostAnimationScratchBytes + metaSlotBytes + srcBytes + dstBytes))

errInvalid == -1

\* MUTANT of resolveSlot: a positive request replaces the capacity.
exactSlot(current, requested) ==
  IF requested <= 0 THEN current
  ELSE IF requested >= Word THEN errInvalid ELSE requested

\* MUTANT of resolveSlot: a request that is not positive is invalid.
positiveSlot(current, requested) ==
  IF requested <= 0 \/ requested >= Word THEN errInvalid
  ELSE IF requested > current THEN requested ELSE current

\* The new length of one slot: max(current, requested), or errInvalid.
resolveSlot(current, requested) ==
  IF requested <= 0 THEN current
  ELSE IF requested >= Word THEN errInvalid
  ELSE IF requested > current THEN requested ELSE current

\* hostBase of computeLayout: the end of memory less the slots, not below the
\* host slot region.  The subtraction is a uint32 subtraction.
slotBase(memSize, dstBytes, srcBytes) ==
  LET base == U32(memSize - slotTotal(dstBytes, srcBytes))
  IN  IF base < hostSlotRegionBase THEN hostSlotRegionBase ELSE base

\* The slots of a layout that starts at base.
slotsAt(base, dstBytes, srcBytes) ==
  [ countOutOff  |-> base,
    loopsOutOff  |-> U32(base + frameCountOutSlotBytes),
    frameMetaOff |-> U32(base + 8),
    metaOff      |-> U32(base + hostAnimationScratchBytes),
    metaLen      |-> metaSlotBytes,
    srcOff       |-> U32(base + hostAnimationScratchBytes + metaSlotBytes),
    srcLen       |-> srcBytes,
    dstOff       |-> U32(base + hostAnimationScratchBytes + metaSlotBytes
                         + srcBytes),
    dstLen       |-> dstBytes,
    hostBase     |-> base ]

computeLayout(memSize, dstBytes, srcBytes) ==
  slotsAt(slotBase(memSize, dstBytes, srcBytes), dstBytes, srcBytes)

slotLayout ==
  [ countOutOff : uint32, loopsOutOff : uint32, frameMetaOff : uint32,
    metaOff : uint32, metaLen : uint32, srcOff : uint32, srcLen : uint32,
    dstOff : uint32, dstLen : uint32, hostBase : uint32 ]

=============================================================================
