--------------------------- MODULE GuestMemoryProofs ---------------------------
(***************************************************************************)
(* Proofs about GuestMemory for every request, every initial dst slot and   *)
(* every word size that satisfies the assumptions.                          *)
(***************************************************************************)
EXTENDS GuestMemory, TLAPS

(* A value below 2^32 is its own uint32 value. *)
LEMMA U32Small ==
  \A n \in Nat : n < Word => U32(n) = n
  BY WordAssumption DEF U32

(* What the rounding to a multiple of 8 returns. *)
LEMMA RoundUp8Bounds ==
  ASSUME NEW n \in Nat
  PROVE  /\ RoundUp8(n) \in Nat
         /\ RoundUp8(n) % 8 = 0
         /\ n <= RoundUp8(n)
         /\ RoundUp8(n) <= n + 7
  BY DEF RoundUp8

(* The sizes of the fixed slots add up to 80 bytes. *)
LEMMA FixedSlots ==
  /\ hostAnimationScratchBytes = 56
  /\ metaSlotBytes = 24
  /\ frameCountOutSlotBytes = 4
  BY DEF hostAnimationScratchBytes, metaSlotBytes, frameCountOutSlotBytes,
     animationLoopsOutSlotBytes, frameMetaSlotBytes

(* The sizes Reserve compares are natural numbers. *)
LEMMA RequiredMemType ==
  /\ maxMemory \in Nat
  /\ \A d, s \in Nat : requiredMem(d, s) \in Nat
  <1>1. maxMemory \in Nat
    BY DEF maxMemory, maxReservePages, wasmPageSize
  <1>2. ASSUME NEW d \in Nat, NEW s \in Nat
        PROVE  requiredMem(d, s) \in Nat
    <2>1. RoundUp8(80 + s + d) \in Nat
      BY RoundUp8Bounds
    <2>. QED  BY <2>1, FixedSlots DEF requiredMem, hostSlotRegionBase
  <1>. QED  BY <1>1, <1>2

(* The uint32 total of the slots is the unbounded one when it fits a word. *)
LEMMA SlotTotalExact ==
  ASSUME NEW d \in Nat, NEW s \in Nat, d + s + 87 < Word
  PROVE  slotTotal(d, s) = RoundUp8(80 + s + d)
  <1>1. U32(80 + s + d) = 80 + s + d
    <2>1. 80 + s + d \in Nat /\ 80 + s + d < Word
      BY WordAssumption
    <2>. QED  BY <2>1, U32Small
  <1>2. U32(80 + s + d + 7) = 80 + s + d + 7
    <2>1. 80 + s + d + 7 \in Nat /\ 80 + s + d + 7 < Word
      BY WordAssumption
    <2>. QED  BY <2>1, U32Small
  <1>. QED
    BY <1>1, <1>2, FixedSlots DEF slotTotal, align8, RoundUp8

(* When the memory holds the validated layout, computeLayout's subtraction
   neither wraps nor falls below the host slot region, and the slots that
   follow the base are laid out with no wrapped offset. *)
LEMMA LayoutPlacement ==
  ASSUME NEW m \in Nat, m <= maxMemory, m % wasmPageSize = 0,
         NEW d \in Nat, NEW s \in Nat, requiredMem(d, s) <= m
  PROVE  LET base == m - RoundUp8(80 + s + d)
         IN  /\ base \in Nat
             /\ hostSlotRegionBase <= base
             /\ base % 8 = 0
             /\ base + 80 + s + d <= m
             /\ computeLayout(m, d, s) =
                  [ countOutOff |-> base, loopsOutOff |-> base + 4,
                    frameMetaOff |-> base + 8, metaOff |-> base + 56,
                    metaLen |-> 24, srcOff |-> base + 80, srcLen |-> s,
                    dstOff |-> base + 80 + s, dstLen |-> d,
                    hostBase |-> base ]
  <1>. DEFINE total == RoundUp8(80 + s + d)
              base  == m - total
  <1>1. /\ total \in Nat
        /\ total % 8 = 0
        /\ 80 + s + d <= total
        /\ total <= 87 + s + d
    BY RoundUp8Bounds, SMTT(30)
  <1>2. requiredMem(d, s) = 33554432 + total
    BY FixedSlots DEF requiredMem, hostSlotRegionBase
  <1>3. m < Word /\ Word \in Nat
    BY WordAssumption DEF maxMemory, maxReservePages, wasmPageSize
  <1>. HIDE DEF total
  <1>4. /\ base \in Nat
        /\ 33554432 <= base
        /\ base + 80 + s + d <= m
    BY <1>1, <1>2
  <1>5. base % 8 = 0
    BY <1>1, <1>4 DEF wasmPageSize
  <1>6. slotTotal(d, s) = total
    <2>1. d + s + 87 < Word
      BY <1>1, <1>2, <1>3
    <2>. QED  BY <2>1, SlotTotalExact DEF total
  <1>7. slotBase(m, d, s) = base
    <2>1. U32(m - total) = m - total
      BY <1>3, <1>4, U32Small
    <2>. QED  BY <2>1, <1>4, <1>6 DEF slotBase, hostSlotRegionBase
  <1>. HIDE DEF base
  <1>8. /\ U32(base + 4) = base + 4
        /\ U32(base + 8) = base + 8
        /\ U32(base + 56) = base + 56
        /\ U32(base + 56 + 24) = base + 80
        /\ U32(base + 56 + 24 + s) = base + 80 + s
    BY <1>3, <1>4, U32Small
  <1>9. computeLayout(m, d, s) =
          [ countOutOff |-> base, loopsOutOff |-> base + 4,
            frameMetaOff |-> base + 8, metaOff |-> base + 56,
            metaLen |-> 24, srcOff |-> base + 80, srcLen |-> s,
            dstOff |-> base + 80 + s, dstLen |-> d,
            hostBase |-> base ]
    BY <1>7, <1>8, FixedSlots DEF computeLayout, slotsAt
  <1>. QED
    BY <1>4, <1>5, <1>9 DEF base, total, hostSlotRegionBase

----------------------------------------------------------------------------
(* The inductive invariant: the memory is whole pages within the limit, it
   holds the layout Reserve validated, and the layout is computed from it. *)
MemoryInv ==
  /\ memSize \in Nat
  /\ memSize <= maxMemory
  /\ memSize % wasmPageSize = 0
  /\ currentLayout.dstLen \in Nat
  /\ currentLayout.srcLen \in Nat
  /\ reserveErr \in {"nil", "invalid"}
  /\ LayoutFits
  /\ LayoutIsCurrent

(* resolveSlot never lowers a length and returns a uint32 or errInvalid. *)
LEMMA ResolveSlotRange ==
  ASSUME NEW current \in Nat, NEW requested \in Int
  PROVE  LET r == resolveSlot(current, requested)
         IN  /\ r \in Nat \cup {errInvalid}
             /\ r # errInvalid => r >= current /\ r >= requested
             /\ requested <= current => r = current \/ requested >= Word
             /\ r = errInvalid => requested >= Word
  BY WordAssumption DEF resolveSlot, errInvalid

(* What Reserve leaves when it succeeds: a memory of whole pages within the
   limit that is no smaller than before and holds the layout. *)
LEMMA GrownMemoryFits ==
  ASSUME memSize \in Nat, memSize <= maxMemory, memSize % wasmPageSize = 0,
         NEW d \in Nat, NEW s \in Nat, requiredMem(d, s) <= maxMemory
  PROVE  LET g == grownMemory(d, s)
         IN  /\ g \in Nat
             /\ g <= maxMemory
             /\ g % wasmPageSize = 0
             /\ requiredMem(d, s) <= g
             /\ memSize <= g
             /\ g # memSize => g < requiredMem(d, s) + wasmPageSize
             /\ requiredMem(d, s) <= memSize => g = memSize
  <1>. DEFINE required == requiredMem(d, s)
              needed   == (required + 65535) \div 65536
              pages    == memSize \div 65536
  <1>1. required \in Nat
    BY RoundUp8Bounds, FixedSlots, SMTT(30) DEF requiredMem, hostSlotRegionBase
  <1>2. required <= 268435456
    BY DEF maxMemory, maxReservePages, wasmPageSize
  <1>3. pagesNeeded(d, s) = needed
    BY <1>1 DEF pagesNeeded, wasmPageSize
  <1>. HIDE DEF required
  <1>4. /\ needed \in Nat /\ needed <= 4096
        /\ required <= 65536 * needed /\ 65536 * needed < required + 65536
    BY <1>1, <1>2
  <1>5. pages \in Nat /\ memSize = 65536 * pages /\ pages <= 4096
    BY DEF wasmPageSize, maxMemory, maxReservePages
  <1>6. grownMemory(d, s) = IF needed > pages THEN 65536 * needed ELSE memSize
    <2>. HIDE DEF needed
    <2>1. grownMemory(d, s) = IF needed > pages
                                THEN memoryGrow(memSize, needed - pages, 4096)
                                ELSE memSize
      BY <1>3 DEF grownMemory, wasmPageSize, maxReservePages
    <2>2. ASSUME needed > pages
          PROVE  memoryGrow(memSize, needed - pages, 4096) = 65536 * needed
      <3>1. memoryGrow(memSize, needed - pages, 4096)
              = IF pages + (needed - pages) > 4096 THEN -1
                ELSE memSize + (needed - pages) * 65536
        BY DEF memoryGrow, wasmPageSize
      <3>. HIDE DEF pages
      <3>. QED  BY <3>1, <2>2, <1>4, <1>5
    <2>. QED  BY <2>1, <2>2
  <1>. HIDE DEF needed, pages
  <1>7. CASE needed > pages
    BY <1>1, <1>2, <1>4, <1>5, <1>6, <1>7
       DEF required, wasmPageSize, maxMemory, maxReservePages
  <1>8. CASE ~(needed > pages)
    BY <1>1, <1>2, <1>4, <1>5, <1>6, <1>8
       DEF required, wasmPageSize, maxMemory, maxReservePages
  <1>. QED  BY <1>7, <1>8

(* New's layout satisfies the invariant. *)
LEMMA MemoryInvInit == Init => MemoryInv
  <1>. SUFFICES ASSUME Init PROVE MemoryInv
    OBVIOUS
  <1>1. InitialDstSlotBytes \in Nat /\ InitialDstSlotBytes <= 131072
    BY GuestMemoryAssumption
  <1>2. defaultSrcCap = 65536
    BY DEF defaultSrcCap
  <1>3. requiredMem(InitialDstSlotBytes, 65536) <= initialMemory
    <2>1. RoundUp8(80 + 65536 + InitialDstSlotBytes) <= 87 + 65536 + 131072
      BY <1>1, RoundUp8Bounds
    <2>2. RoundUp8(80 + 65536 + InitialDstSlotBytes) \in Nat
      BY <1>1, RoundUp8Bounds
    <2>. QED
      BY <2>1, <2>2, FixedSlots, <1>1 DEF requiredMem, hostSlotRegionBase, initialMemory
  <1>4. /\ initialMemory \in Nat
        /\ initialMemory <= maxMemory
        /\ initialMemory % wasmPageSize = 0
    BY DEF initialMemory, maxMemory, maxReservePages, wasmPageSize
  <1>5. /\ currentLayout.dstLen = InitialDstSlotBytes
        /\ currentLayout.srcLen = 65536
    BY <1>1, <1>2, <1>3, <1>4, LayoutPlacement DEF Init
  <1>. QED
    BY <1>1, <1>2, <1>3, <1>4, <1>5 DEF Init, MemoryInv, LayoutFits, LayoutIsCurrent

(* What one Reserve does in a state that satisfies the invariant. *)
LEMMA ReserveStep ==
  ASSUME MemoryInv, NEW dstBytes \in Int, NEW srcBytes \in Int,
         Reserve(dstBytes, srcBytes)
  PROVE  LET d == resolveSlot(currentLayout.dstLen, dstBytes)
             s == resolveSlot(currentLayout.srcLen, srcBytes)
         IN  \/ /\ reserveErr' = "invalid"
                /\ \/ d = errInvalid
                   \/ s = errInvalid
                   \/ d \in Nat /\ s \in Nat /\ requiredMem(d, s) > maxMemory
                /\ memSize' = memSize
                /\ currentLayout' = currentLayout
             \/ /\ reserveErr' = "nil"
                /\ d \in Nat /\ s \in Nat
                /\ requiredMem(d, s) <= maxMemory
                /\ memSize' = grownMemory(d, s)
                /\ currentLayout' = computeLayout(memSize', d, s)
                /\ currentLayout'.dstLen = d
                /\ currentLayout'.srcLen = s
  <1>. DEFINE d == resolveSlot(currentLayout.dstLen, dstBytes)
              s == resolveSlot(currentLayout.srcLen, srcBytes)
  <1>1. d \in Nat \cup {errInvalid} /\ s \in Nat \cup {errInvalid}
    BY ResolveSlotRange DEF MemoryInv
  <1>2. reserveErr' = reserveOutcome(d, s)
    BY DEF Reserve
  <1>3. IF reserveOutcome(d, s) = "nil"
          THEN /\ memSize' = grownMemory(d, s)
               /\ currentLayout' = computeLayout(grownMemory(d, s), d, s)
          ELSE memSize' = memSize /\ currentLayout' = currentLayout
    BY DEF Reserve
  <1>. HIDE DEF d, s
  <1>4. CASE d = errInvalid \/ s = errInvalid
    BY <1>2, <1>3, <1>4 DEF reserveOutcome, d, s
  <1>5. CASE d \in Nat /\ s \in Nat /\ d # errInvalid /\ s # errInvalid
    <2>1. requiredMem(d, s) \in Nat /\ maxMemory \in Nat
      BY <1>5, RequiredMemType
    <2>2. CASE requiredMem(d, s) > maxMemory
      BY <1>2, <1>3, <1>5, <2>2 DEF reserveOutcome, d, s
    <2>3. CASE requiredMem(d, s) <= maxMemory
      <3>1. /\ grownMemory(d, s) \in Nat
            /\ grownMemory(d, s) <= maxMemory
            /\ grownMemory(d, s) % wasmPageSize = 0
            /\ requiredMem(d, s) <= grownMemory(d, s)
        BY <1>5, <2>3, GrownMemoryFits DEF MemoryInv
      <3>2. reserveOutcome(d, s) = "nil"
        BY <1>5, <2>1, <2>3, <3>1 DEF reserveOutcome
      <3>3. /\ computeLayout(grownMemory(d, s), d, s).dstLen = d
            /\ computeLayout(grownMemory(d, s), d, s).srcLen = s
        BY <1>5, <3>1, LayoutPlacement
      <3>. QED
        BY <1>2, <1>3, <1>5, <2>3, <3>2, <3>3 DEF d, s
    <2>. QED  BY <2>1, <2>2, <2>3
  <1>. QED  BY <1>1, <1>4, <1>5 DEF errInvalid

(* A Reserve call keeps the invariant. *)
LEMMA MemoryInvReserve ==
  ASSUME MemoryInv, NEW dstBytes \in Int, NEW srcBytes \in Int,
         Reserve(dstBytes, srcBytes)
  PROVE  MemoryInv'
  <1>. DEFINE d == resolveSlot(currentLayout.dstLen, dstBytes)
              s == resolveSlot(currentLayout.srcLen, srcBytes)
  <1>1. CASE /\ reserveErr' = "invalid"
             /\ memSize' = memSize
             /\ currentLayout' = currentLayout
    BY <1>1 DEF MemoryInv, LayoutFits, LayoutIsCurrent
  <1>2. CASE /\ reserveErr' = "nil"
             /\ d \in Nat /\ s \in Nat
             /\ requiredMem(d, s) <= maxMemory
             /\ memSize' = grownMemory(d, s)
             /\ currentLayout' = computeLayout(memSize', d, s)
             /\ currentLayout'.dstLen = d
             /\ currentLayout'.srcLen = s
    <2>. HIDE DEF d, s
    <2>1. /\ memSize' \in Nat
          /\ memSize' <= maxMemory
          /\ memSize' % wasmPageSize = 0
          /\ requiredMem(d, s) <= memSize'
      BY <1>2, GrownMemoryFits DEF MemoryInv
    <2>. QED  BY <1>2, <2>1 DEF MemoryInv, LayoutFits, LayoutIsCurrent
  <1>. QED  BY <1>1, <1>2, ReserveStep

LEMMA MemoryInvNext == MemoryInv /\ [Next]_vars => MemoryInv'
  <1>. SUFFICES ASSUME MemoryInv, [Next]_vars PROVE MemoryInv'
    OBVIOUS
  <1>1. CASE Next
    <2>1. PICK dstBytes \in Requests, srcBytes \in Requests :
            Reserve(dstBytes, srcBytes)
      BY <1>1 DEF Next
    <2>. QED  BY <2>1, MemoryInvReserve, GuestMemoryAssumption
  <1>2. CASE UNCHANGED vars
    BY <1>2 DEF vars, MemoryInv, LayoutFits, LayoutIsCurrent
  <1>. QED  BY <1>1, <1>2

(* The slots of a state that satisfies the invariant, with their offsets as
   unbounded sums over the base. *)
LEMMA SlotsOfInv ==
  ASSUME MemoryInv
  PROVE  \E base \in Nat :
           /\ hostSlotRegionBase <= base
           /\ base % 8 = 0
           /\ base + 80 + currentLayout.srcLen + currentLayout.dstLen <= memSize
           /\ currentLayout =
                [ countOutOff |-> base, loopsOutOff |-> base + 4,
                  frameMetaOff |-> base + 8, metaOff |-> base + 56,
                  metaLen |-> 24, srcOff |-> base + 80,
                  srcLen |-> currentLayout.srcLen,
                  dstOff |-> base + 80 + currentLayout.srcLen,
                  dstLen |-> currentLayout.dstLen,
                  hostBase |-> base ]
  <1>. DEFINE d    == currentLayout.dstLen
              s    == currentLayout.srcLen
              base == memSize - RoundUp8(80 + s + d)
  <1>1. d \in Nat /\ s \in Nat /\ requiredMem(d, s) <= memSize
    BY DEF MemoryInv, LayoutFits
  <1>2. computeLayout(memSize, d, s) = currentLayout
    BY DEF MemoryInv, LayoutIsCurrent
  <1>. HIDE DEF d, s
  <1>3. /\ base \in Nat
        /\ hostSlotRegionBase <= base
        /\ base % 8 = 0
        /\ base + 80 + s + d <= memSize
        /\ computeLayout(memSize, d, s) =
             [ countOutOff |-> base, loopsOutOff |-> base + 4,
               frameMetaOff |-> base + 8, metaOff |-> base + 56,
               metaLen |-> 24, srcOff |-> base + 80, srcLen |-> s,
               dstOff |-> base + 80 + s, dstLen |-> d,
               hostBase |-> base ]
    BY <1>1, LayoutPlacement DEF MemoryInv
  <1>. QED  BY <1>2, <1>3 DEF d, s

----------------------------------------------------------------------------
(* Every behaviour of New and Reserve keeps MemoryInv. *)
THEOREM MemoryInvariant == Spec => []MemoryInv
  BY MemoryInvInit, MemoryInvNext, PTL DEF Spec

(* The invariant gives the types. *)
LEMMA TypesOfInv == MemoryInv => TypeOK
  <1>. SUFFICES ASSUME MemoryInv PROVE TypeOK
    OBVIOUS
  <1>1. PICK base \in Nat :
          /\ base + 80 + currentLayout.srcLen + currentLayout.dstLen <= memSize
          /\ currentLayout =
              [ countOutOff |-> base, loopsOutOff |-> base + 4,
                frameMetaOff |-> base + 8, metaOff |-> base + 56,
                metaLen |-> 24, srcOff |-> base + 80,
                srcLen |-> currentLayout.srcLen,
                dstOff |-> base + 80 + currentLayout.srcLen,
                dstLen |-> currentLayout.dstLen,
                hostBase |-> base ]
    BY SlotsOfInv
  <1>. DEFINE d == currentLayout.dstLen
              s == currentLayout.srcLen
  <1>2. /\ d \in Nat /\ s \in Nat /\ memSize \in Nat
        /\ memSize < Word /\ Word \in Nat
    BY WordAssumption
       DEF MemoryInv, maxMemory, maxReservePages, wasmPageSize
  <1>. HIDE DEF d, s
  <1>3. base + 80 + s + d <= memSize
    BY <1>1 DEF d, s
  <1>4. /\ base \in uint32 /\ base + 4 \in uint32 /\ base + 8 \in uint32
        /\ base + 56 \in uint32 /\ 24 \in uint32 /\ base + 80 \in uint32
        /\ s \in uint32 /\ base + 80 + s \in uint32 /\ d \in uint32
    BY <1>2, <1>3 DEF uint32
  <1>5. currentLayout \in slotLayout
    BY <1>1, <1>4 DEF slotLayout, d, s
  <1>6. maxMemory \in Nat
    BY DEF maxMemory, maxReservePages, wasmPageSize
  <1>7. memSize \in 0 .. maxMemory
    BY <1>6 DEF MemoryInv
  <1>. QED  BY <1>5, <1>7 DEF TypeOK, MemoryInv, Outcomes

(* The memory, the layout's uint32 fields and the error stay in their types
   (TypeOK) under any sequence of Reserve calls. *)
THEOREM TypeCorrect == Spec => []TypeOK
  BY TypesOfInv, MemoryInvariant, PTL

(* The slots are disjoint, aligned, above the guest's data and inside linear
   memory (SlotsInMemory) whatever is reserved in whatever order. *)
THEOREM SlotsStayInMemory == Spec => []SlotsInMemory
  <1>1. MemoryInv => SlotsInMemory
    <2>. SUFFICES ASSUME MemoryInv PROVE SlotsInMemory
      OBVIOUS
    <2>1. PICK base \in Nat :
            /\ hostSlotRegionBase <= base
            /\ base % 8 = 0
            /\ base + 80 + currentLayout.srcLen + currentLayout.dstLen <= memSize
            /\ currentLayout =
                [ countOutOff |-> base, loopsOutOff |-> base + 4,
                  frameMetaOff |-> base + 8, metaOff |-> base + 56,
                  metaLen |-> 24, srcOff |-> base + 80,
                  srcLen |-> currentLayout.srcLen,
                  dstOff |-> base + 80 + currentLayout.srcLen,
                  dstLen |-> currentLayout.dstLen,
                  hostBase |-> base ]
      BY SlotsOfInv
    <2>2. currentLayout.srcLen \in Nat /\ currentLayout.dstLen \in Nat
          /\ memSize \in Nat
      BY DEF MemoryInv
    <2>. DEFINE l == currentLayout
    <2>3. /\ l.countOutOff = base /\ l.loopsOutOff = base + 4
          /\ l.frameMetaOff = base + 8 /\ l.metaOff = base + 56
          /\ l.metaLen = 24 /\ l.srcOff = base + 80
          /\ l.dstOff = base + 80 + l.srcLen
      BY <2>1
    <2>. HIDE DEF l
    <2>4. /\ l.srcLen \in Nat /\ l.dstLen \in Nat
          /\ base + 80 + l.srcLen + l.dstLen <= memSize
      BY <2>1, <2>2 DEF l
    <2>5. (base + 8) % 8 = 0
      BY <2>1
    <2>6. /\ hostSlotRegionBase <= l.countOutOff
          /\ l.countOutOff + 4 <= l.loopsOutOff
          /\ l.loopsOutOff + 4 <= l.frameMetaOff
          /\ l.frameMetaOff % 8 = 0
          /\ l.frameMetaOff + 48 <= l.metaOff
          /\ l.metaOff + l.metaLen <= l.srcOff
          /\ l.srcOff + l.srcLen <= l.dstOff
          /\ l.dstOff + l.dstLen <= memSize
      BY <2>1, <2>2, <2>3, <2>4, <2>5
    <2>. QED  BY <2>6 DEF SlotsInMemory, l, frameCountOutSlotBytes,
                 animationLoopsOutSlotBytes, frameMetaSlotBytes
  <1>. QED  BY <1>1, MemoryInvariant, PTL

(* The layout in use is always the one for the memory as it is now. *)
THEOREM LayoutStaysCurrent == Spec => []LayoutIsCurrent
  BY MemoryInvariant, PTL DEF MemoryInv

(* The memory always holds the layout that Reserve validated. *)
THEOREM LayoutStaysWithinMemory == Spec => []LayoutFits
  BY MemoryInvariant, PTL DEF MemoryInv

(* Reserve never returns errReserveGrowFailed. *)
THEOREM GrowthNeverRefused == Spec => []GrowNeverFails
  <1>1. MemoryInv => GrowNeverFails
    BY DEF MemoryInv, GrowNeverFails
  <1>. QED  BY <1>1, MemoryInvariant, PTL

----------------------------------------------------------------------------
(* A failed Reserve changes neither the memory nor any slot. *)
THEOREM ReserveFailsAtomically == Spec => FailedReserveChangesNothing
  <1>1. ASSUME MemoryInv, [Next]_vars
        PROVE  [reserveErr' # "nil" => UNCHANGED <<memSize, currentLayout>>]_vars
    <2>1. CASE Next
      <3>1. PICK dstBytes \in Requests, srcBytes \in Requests :
              Reserve(dstBytes, srcBytes)
        BY <2>1 DEF Next
      <3>. QED  BY <3>1, <1>1, ReserveStep, GuestMemoryAssumption
    <2>. QED  BY <1>1, <2>1
  <1>. QED  BY <1>1, MemoryInvariant, PTL DEF Spec, FailedReserveChangesNothing

(* The memory and both capacities never shrink. *)
THEOREM CapacityIsMonotone == Spec => CapacityNeverShrinks
  <1>. DEFINE Grows == /\ memSize' >= memSize
                       /\ currentLayout'.dstLen >= currentLayout.dstLen
                       /\ currentLayout'.srcLen >= currentLayout.srcLen
  <1>1. ASSUME MemoryInv, [Next]_vars
        PROVE  [Grows]_vars
    <2>1. CASE Next
      <3>1. PICK dstBytes \in Requests, srcBytes \in Requests :
              Reserve(dstBytes, srcBytes)
        BY <2>1 DEF Next
      <3>2. dstBytes \in Int /\ srcBytes \in Int
        BY GuestMemoryAssumption
      <3>. DEFINE d == resolveSlot(currentLayout.dstLen, dstBytes)
                  s == resolveSlot(currentLayout.srcLen, srcBytes)
      <3>3. CASE memSize' = memSize /\ currentLayout' = currentLayout
        BY <1>1, <3>3 DEF MemoryInv
      <3>4. CASE /\ d \in Nat /\ s \in Nat
                 /\ requiredMem(d, s) <= maxMemory
                 /\ memSize' = grownMemory(d, s)
                 /\ currentLayout'.dstLen = d
                 /\ currentLayout'.srcLen = s
        <4>1. d >= currentLayout.dstLen /\ s >= currentLayout.srcLen
          BY <1>1, <3>2, <3>4, ResolveSlotRange DEF MemoryInv, errInvalid
        <4>. HIDE DEF d, s
        <4>2. memSize' >= memSize
          BY <1>1, <3>4, GrownMemoryFits DEF MemoryInv
        <4>. QED  BY <3>4, <4>1, <4>2
      <3>. QED  BY <1>1, <3>1, <3>2, <3>3, <3>4, ReserveStep
    <2>. QED  BY <1>1, <2>1
  <1>. QED  BY <1>1, MemoryInvariant, PTL DEF Spec, CapacityNeverShrinks

(* The contract's test on unbounded sums is Reserve's uint64 test. *)
LEMMA FitsIsRequiredMem ==
  ASSUME NEW d \in Nat, NEW s \in Nat, d < Word, s < Word
  PROVE  Contract!Fits(d, s) <=> requiredMem(d, s) <= maxMemory
  <1>1. maxMemory = 268435456
    BY DEF maxMemory, maxReservePages, wasmPageSize
  <1>. DEFINE t == RoundUp8(80 + s + d)
  <1>2. t \in Nat /\ t % 8 = 0 /\ 80 + s + d <= t /\ t <= 87 + s + d
    BY RoundUp8Bounds, SMTT(30)
  <1>. HIDE DEF t
  <1>3. requiredMem(d, s) = 33554432 + t
    BY FixedSlots DEF requiredMem, hostSlotRegionBase, t
  <1>4. Contract!Fits(d, s) <=>
          \E pad \in 0 .. 7 : /\ (80 + d + s + pad) % 8 = 0
                             /\ 80 + d + s + pad <= maxMemory - hostSlotRegionBase
    <2>1. \A pad \in 0 .. 7 :
            hostAnimationScratchBytes + metaSlotBytes + d + s + pad
              = 80 + d + s + pad
      BY FixedSlots
    <2>. QED  BY <2>1, Zenon DEF Contract!Fits
  <1>5. ASSUME NEW pad \in 0 .. 7, (80 + d + s + pad) % 8 = 0
        PROVE  80 + d + s + pad = t
    BY <1>2, <1>5
  <1>6. t - (80 + d + s) \in 0 .. 7
    BY <1>2
  <1>7. maxMemory - hostSlotRegionBase = 234881024
    BY <1>1 DEF hostSlotRegionBase
  <1>. QED  BY <1>1, <1>2, <1>3, <1>4, <1>5, <1>6, <1>7, SMT

(* resolveSlot is the contract's Raise on every request below 2^32, and fails
   exactly on the others. *)
LEMMA ResolveSlotIsRaise ==
  ASSUME NEW cap \in Nat, cap < Word, NEW request \in Int
  PROVE  /\ request < Word => resolveSlot(cap, request) = Contract!Raise(cap, request)
         /\ request >= Word => resolveSlot(cap, request) = errInvalid
         /\ request >= Word => Contract!Raise(cap, request) = request
         /\ Contract!Raise(cap, request) \in Nat
         /\ request < Word => Contract!Raise(cap, request) < Word
  BY WordAssumption DEF resolveSlot, Contract!Raise, errInvalid

(* One Reserve is one Accept or one Refuse of the contract. *)
LEMMA ReserveSimulates ==
  ASSUME MemoryInv, NEW dstBytes \in Int, NEW srcBytes \in Int,
         Reserve(dstBytes, srcBytes)
  PROVE  Contract!Accept(dstBytes, srcBytes) \/ Contract!Refuse(dstBytes, srcBytes)
  <1>. DEFINE cd == currentLayout.dstLen
              cs == currentLayout.srcLen
              rd == Contract!Raise(cd, dstBytes)
              rs == Contract!Raise(cs, srcBytes)
              d  == resolveSlot(cd, dstBytes)
              s  == resolveSlot(cs, srcBytes)
  <1>1. cd \in Nat /\ cd < Word /\ cs \in Nat /\ cs < Word
    <2>1. PICK base \in Nat : base + 80 + cs + cd <= memSize
      BY SlotsOfInv
    <2>2. /\ cd \in Nat /\ cs \in Nat /\ memSize \in Nat
          /\ memSize < Word /\ Word \in Nat
      BY WordAssumption
         DEF MemoryInv, maxMemory, maxReservePages, wasmPageSize
    <2>. HIDE DEF cd, cs
    <2>. QED  BY <2>1, <2>2
  <1>2. /\ dstBytes < Word => d = rd /\ rd < Word
        /\ srcBytes < Word => s = rs /\ rs < Word
        /\ dstBytes >= Word => d = errInvalid /\ rd >= Word
        /\ srcBytes >= Word => s = errInvalid /\ rs >= Word
        /\ rd \in Nat /\ rs \in Nat
    <2>. HIDE DEF cd, cs
    <2>. QED  BY <1>1, ResolveSlotIsRaise
  <1>3. maxMemory \in Nat /\ Word \in Nat
    BY WordAssumption DEF maxMemory, maxReservePages, wasmPageSize
  <1>4. CASE /\ reserveErr' = "invalid"
             /\ \/ d = errInvalid
                \/ s = errInvalid
                \/ d \in Nat /\ s \in Nat /\ requiredMem(d, s) > maxMemory
             /\ memSize' = memSize
             /\ currentLayout' = currentLayout
    <2>1. ~ Contract!Fits(rd, rs)
      <3>. HIDE DEF rd, rs, d, s
      <3>1. CASE dstBytes >= Word \/ srcBytes >= Word
        BY <1>2, <1>3, <3>1 DEF Contract!Fits
      <3>2. CASE dstBytes < Word /\ srcBytes < Word
        <4>1. /\ d = rd /\ s = rs /\ rd \in Nat /\ rs \in Nat
              /\ rd < Word /\ rs < Word
          BY <1>2, <3>2
        <4>2. requiredMem(rd, rs) > maxMemory
          BY <1>4, <4>1 DEF errInvalid
        <4>3. requiredMem(rd, rs) \in Nat
          BY <4>1, RequiredMemType
        <4>. QED  BY <1>3, <4>1, <4>2, <4>3, FitsIsRequiredMem
      <3>. QED  BY <1>3, <3>1, <3>2
    <2>. QED  BY <1>4, <2>1 DEF Contract!Refuse
  <1>5. CASE /\ reserveErr' = "nil"
             /\ d \in Nat /\ s \in Nat
             /\ requiredMem(d, s) <= maxMemory
             /\ currentLayout'.dstLen = d
             /\ currentLayout'.srcLen = s
    <2>1. /\ d = rd /\ s = rs /\ rd < Word /\ rs < Word
      <3>. HIDE DEF rd, rs, d, s
      <3>. QED  BY <1>2, <1>3, <1>5 DEF errInvalid
    <2>2. Contract!Fits(rd, rs)
      <3>. HIDE DEF rd, rs, d, s
      <3>. QED  BY <1>2, <1>5, <2>1, FitsIsRequiredMem
    <2>. QED  BY <1>5, <2>1, <2>2 DEF Contract!Accept
  <1>. QED  BY <1>4, <1>5, ReserveStep

(* Reserve refines ReserveContract: for every decoder and every sequence of
   requests, a request is refused exactly when the slots it asks for cannot
   fit the module's memory, and no offset or wrapped sum shows through. *)
THEOREM ReserveImplementsContract == Spec => ImplementsReserveContract
  <1>1. Init => Contract!Init
    <2>. SUFFICES ASSUME Init PROVE Contract!Init
      OBVIOUS
    <2>. QED
      BY SMT DEF Init, Contract!Init, computeLayout, slotsAt
  <1>2. ASSUME MemoryInv, [Next]_vars
        PROVE  [Contract!Next]_(Contract!vars)
    <2>1. CASE Next
      <3>1. PICK dstBytes \in Requests, srcBytes \in Requests :
              Reserve(dstBytes, srcBytes)
        BY <2>1 DEF Next
      <3>2. Contract!Accept(dstBytes, srcBytes) \/ Contract!Refuse(dstBytes, srcBytes)
        BY <1>2, <3>1, ReserveSimulates, GuestMemoryAssumption
      <3>. QED  BY <3>1, <3>2 DEF Contract!Next
    <2>2. CASE UNCHANGED vars
      BY <2>2 DEF vars, Contract!vars
    <2>. QED  BY <1>2, <2>1, <2>2
  <1>. QED
    BY <1>1, <1>2, MemoryInvariant, PTL
       DEF Spec, ImplementsReserveContract, Contract!Spec

(* Every single request is answered as ReserveContract has it: the refinement
   cannot hold by mistaking one request for another. *)
THEOREM EachRequestIsAnswered == Spec => EachRequestMeetsContract
  <1>. DEFINE Answered(dst, src) ==
                Reserve(dst, src)
                  => \/ Contract!Accept(dst, src)
                     \/ Contract!Refuse(dst, src)
  <1>1. ASSUME MemoryInv
        PROVE  \A dstBytes, srcBytes \in Requests : Answered(dstBytes, srcBytes)
    BY <1>1, ReserveSimulates, GuestMemoryAssumption
  <1>2. MemoryInv =>
          [\A dstBytes, srcBytes \in Requests : Answered(dstBytes, srcBytes)]_vars
    BY <1>1
  <1>. QED  BY <1>2, MemoryInvariant, PTL DEF EachRequestMeetsContract

----------------------------------------------------------------------------
(* A request for no more than the current capacities succeeds, grows nothing
   and moves no slot. *)
THEOREM SmallRequestsAreNoOps == Spec => SmallerRequestMovesNothing
  <1>. DEFINE Quiet(dst, src) ==
                ( /\ dst <= currentLayout.dstLen
                  /\ src <= currentLayout.srcLen
                  /\ Reserve(dst, src) )
                => reserveErr' = "nil" /\ UNCHANGED <<memSize, currentLayout>>
  <1>1. ASSUME MemoryInv, NEW dst \in Int, NEW src \in Int,
               dst <= currentLayout.dstLen, src <= currentLayout.srcLen,
               Reserve(dst, src)
        PROVE  reserveErr' = "nil" /\ UNCHANGED <<memSize, currentLayout>>
    <2>. DEFINE cd == currentLayout.dstLen
                cs == currentLayout.srcLen
                d  == resolveSlot(cd, dst)
                s  == resolveSlot(cs, src)
    <2>1. cd \in Nat /\ cs \in Nat /\ cd < Word /\ cs < Word
      <3>1. PICK base \in Nat : base + 80 + cs + cd <= memSize
        BY <1>1, SlotsOfInv
      <3>2. /\ cd \in Nat /\ cs \in Nat /\ memSize \in Nat
            /\ memSize < Word /\ Word \in Nat
        BY <1>1, WordAssumption
           DEF MemoryInv, maxMemory, maxReservePages, wasmPageSize
      <3>. HIDE DEF cd, cs
      <3>. QED  BY <3>1, <3>2
    <2>2. d = cd /\ s = cs
      <3>1. dst <= cd /\ src <= cs
        BY <1>1
      <3>. HIDE DEF cd, cs
      <3>. QED  BY <1>1, <2>1, <3>1, WordAssumption DEF resolveSlot
    <2>3. requiredMem(cd, cs) <= memSize
      BY <1>1 DEF MemoryInv, LayoutFits
    <2>4. requiredMem(cd, cs) <= maxMemory
      <3>. HIDE DEF cd, cs
      <3>1. requiredMem(cd, cs) \in Nat /\ maxMemory \in Nat
        BY <2>1, RequiredMemType
      <3>2. memSize \in Nat /\ memSize <= maxMemory
        BY <1>1 DEF MemoryInv
      <3>. QED  BY <2>3, <3>1, <3>2
    <2>5. grownMemory(cd, cs) = memSize
      <3>. HIDE DEF cd, cs
      <3>. QED  BY <1>1, <2>1, <2>3, <2>4, GrownMemoryFits DEF MemoryInv
    <2>6. CASE /\ reserveErr' = "invalid"
               /\ \/ d = errInvalid
                  \/ s = errInvalid
                  \/ d \in Nat /\ s \in Nat /\ requiredMem(d, s) > maxMemory
      <3>. HIDE DEF cd, cs, d, s
      <3>1. requiredMem(cd, cs) \in Nat /\ maxMemory \in Nat
        BY <2>1, RequiredMemType
      <3>. QED  BY <2>1, <2>2, <2>4, <2>6, <3>1 DEF errInvalid
    <2>7. CASE /\ reserveErr' = "nil"
               /\ memSize' = grownMemory(d, s)
               /\ currentLayout' = computeLayout(memSize', d, s)
      BY <1>1, <2>2, <2>5, <2>7 DEF MemoryInv, LayoutIsCurrent
    <2>. QED  BY <1>1, <2>6, <2>7, ReserveStep
  <1>2. ASSUME MemoryInv
        PROVE  \A dstBytes, srcBytes \in Requests : Quiet(dstBytes, srcBytes)
    BY <1>1, <1>2, GuestMemoryAssumption
  <1>3. MemoryInv =>
          [\A dstBytes, srcBytes \in Requests : Quiet(dstBytes, srcBytes)]_vars
    BY <1>2
  <1>. QED  BY <1>3, MemoryInvariant, PTL DEF SmallerRequestMovesNothing

(* When Reserve grows the memory it takes the fewest pages that hold the
   layout. *)
THEOREM GrowthTakesFewestPages == Spec => GrowthIsMinimal
  <1>1. ASSUME MemoryInv, [Next]_vars
        PROVE  [memSize' # memSize
                  => currentLayout'.hostBase < hostSlotRegionBase + wasmPageSize]_vars
    <2>1. CASE Next
      <3>1. PICK dst \in Requests, src \in Requests : Reserve(dst, src)
        BY <2>1 DEF Next
      <3>2. dst \in Int /\ src \in Int
        BY GuestMemoryAssumption
      <3>. DEFINE d == resolveSlot(currentLayout.dstLen, dst)
                  s == resolveSlot(currentLayout.srcLen, src)
      <3>3. CASE memSize' = memSize
        BY <3>3
      <3>4. CASE /\ d \in Nat /\ s \in Nat
                 /\ requiredMem(d, s) <= maxMemory
                 /\ memSize' = grownMemory(d, s)
                 /\ currentLayout' = computeLayout(memSize', d, s)
        <4>. HIDE DEF d, s
        <4>1. /\ memSize' \in Nat /\ memSize' <= maxMemory
              /\ memSize' % wasmPageSize = 0
              /\ requiredMem(d, s) <= memSize'
              /\ memSize' # memSize => memSize' < requiredMem(d, s) + wasmPageSize
          BY <1>1, <3>4, GrownMemoryFits DEF MemoryInv
        <4>2. currentLayout'.hostBase = memSize' - RoundUp8(80 + s + d)
          BY <3>4, <4>1, LayoutPlacement
        <4>3. requiredMem(d, s) = hostSlotRegionBase + RoundUp8(80 + s + d)
          BY FixedSlots DEF requiredMem
        <4>4. RoundUp8(80 + s + d) \in Nat
          BY <3>4, RoundUp8Bounds, SMTT(30)
        <4>. QED  BY <4>1, <4>2, <4>3, <4>4 DEF hostSlotRegionBase, wasmPageSize
      <3>. QED  BY <1>1, <3>1, <3>2, <3>3, <3>4, ReserveStep
    <2>. QED  BY <1>1, <2>1
  <1>. QED  BY <1>1, MemoryInvariant, PTL DEF Spec, GrowthIsMinimal

=============================================================================
