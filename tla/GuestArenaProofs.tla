---------------------------- MODULE GuestArenaProofs ----------------------------
(***************************************************************************)
(* Proofs about GuestArena, for every set of inputs and requests: what        *)
(* GuestMemoryProofs shows of the slots holds beside the arena, and the       *)
(* arena's blocks stay below them as long as the work buffer is a safe one.   *)
(***************************************************************************)
EXTENDS GuestArena, TLAPS

Memory == INSTANCE GuestMemoryProofs

\* No block of the running call reaches the host slot region, unless the call is
\* a decode whose codec asks for more than a safe work buffer.
BlocksLow ==
  call # idle /\ (call.export \in Decodes => workbufLen(call.in) <= SafeWorkbuf)
    => \A b \in live : top(b) <= hostSlotRegionBase

\* Between the codec object and the work buffer the pointer is just past the
\* object.
PointerPastObject ==
  call # idle /\ call.export \in Decodes /\ live = {object(call.in)}
    => /\ object(call.in).size <= BUMP_LIMIT
       /\ bump_ptr = bumped(bump_base, object(call.in).size)

ArenaTypes ==
  /\ bump_ptr \in uint32
  /\ live \subseteq [at : uint32, size : uint32]
  /\ call = idle \/ call \in [export : Exports, in : Inputs]

ArenaInv == ArenaTypes /\ BlocksApart /\ BlocksLow /\ PointerPastObject

----------------------------------------------------------------------------
(* The memory's actions and invariants. *)

(* GuestArena and GuestMemoryProofs each instance the same memory. *)
LEMMA SameMemory ==
  /\ Mem!Init <=> Memory!Init
  /\ \A dstBytes, srcBytes :
       Mem!Reserve(dstBytes, srcBytes) <=> Memory!Reserve(dstBytes, srcBytes)
  <1>1. /\ Mem!initialMemory = Memory!initialMemory
        /\ Mem!defaultSrcCap = Memory!defaultSrcCap
        /\ Mem!errInvalid = Memory!errInvalid
        /\ Mem!maxMemory = Memory!maxMemory
    BY DEF Mem!initialMemory, Memory!initialMemory, Mem!defaultSrcCap,
           Memory!defaultSrcCap, Mem!errInvalid, Memory!errInvalid,
           Mem!maxMemory, Memory!maxMemory, Mem!maxReservePages,
           Memory!maxReservePages, Mem!wasmPageSize, Memory!wasmPageSize
  <1>2. \A c, r : Mem!resolveSlot(c, r) = Memory!resolveSlot(c, r)
    BY DEF Mem!resolveSlot, Memory!resolveSlot, Mem!errInvalid, Memory!errInvalid
  <1>3. \A d, s : Mem!slotTotal(d, s) = Memory!slotTotal(d, s)
    BY DEF Mem!slotTotal, Memory!slotTotal, Mem!align8, Memory!align8, Mem!U32,
           Memory!U32, Mem!hostAnimationScratchBytes,
           Memory!hostAnimationScratchBytes, Mem!metaSlotBytes, Memory!metaSlotBytes,
           Mem!frameCountOutSlotBytes, Memory!frameCountOutSlotBytes,
           Mem!animationLoopsOutSlotBytes, Memory!animationLoopsOutSlotBytes,
           Mem!frameMetaSlotBytes, Memory!frameMetaSlotBytes
  <1>4. \A m, d, s : Mem!slotBase(m, d, s) = Memory!slotBase(m, d, s)
    BY <1>3 DEF Mem!slotBase, Memory!slotBase, Mem!U32, Memory!U32,
       Mem!hostSlotRegionBase, Memory!hostSlotRegionBase
  <1>5. \A b, d, s : Mem!slotsAt(b, d, s) = Memory!slotsAt(b, d, s)
    BY DEF Mem!slotsAt, Memory!slotsAt, Mem!U32, Memory!U32,
       Mem!hostAnimationScratchBytes, Memory!hostAnimationScratchBytes,
       Mem!metaSlotBytes, Memory!metaSlotBytes, Mem!frameCountOutSlotBytes,
       Memory!frameCountOutSlotBytes, Mem!animationLoopsOutSlotBytes,
       Memory!animationLoopsOutSlotBytes, Mem!frameMetaSlotBytes,
       Memory!frameMetaSlotBytes
  <1>6. \A m, d, s : Mem!computeLayout(m, d, s) = Memory!computeLayout(m, d, s)
    BY <1>4, <1>5 DEF Mem!computeLayout, Memory!computeLayout
  <1>7. \A d, s : Mem!requiredMem(d, s) = Memory!requiredMem(d, s)
    BY DEF Mem!requiredMem, Memory!requiredMem, Mem!RoundUp8, Memory!RoundUp8,
       Mem!hostSlotRegionBase, Memory!hostSlotRegionBase,
       Mem!hostAnimationScratchBytes, Memory!hostAnimationScratchBytes,
       Mem!metaSlotBytes, Memory!metaSlotBytes, Mem!frameCountOutSlotBytes,
       Memory!frameCountOutSlotBytes, Mem!animationLoopsOutSlotBytes,
       Memory!animationLoopsOutSlotBytes, Mem!frameMetaSlotBytes,
       Memory!frameMetaSlotBytes
  <1>8. \A d, s : Mem!pagesNeeded(d, s) = Memory!pagesNeeded(d, s)
    BY <1>7 DEF Mem!pagesNeeded, Memory!pagesNeeded, Mem!wasmPageSize,
       Memory!wasmPageSize
  <1>9. \A m, n, x : Mem!memoryGrow(m, n, x) = Memory!memoryGrow(m, n, x)
    BY DEF Mem!memoryGrow, Memory!memoryGrow, Mem!wasmPageSize,
       Memory!wasmPageSize
  <1>10. \A d, s : Mem!grownMemory(d, s) = Memory!grownMemory(d, s)
    BY <1>8, <1>9 DEF Mem!grownMemory, Memory!grownMemory, Mem!wasmPageSize,
       Memory!wasmPageSize, Mem!maxReservePages, Memory!maxReservePages
  <1>11. \A d, s : Mem!reserveOutcome(d, s) = Memory!reserveOutcome(d, s)
    BY <1>1, <1>7, <1>10 DEF Mem!reserveOutcome, Memory!reserveOutcome
  <1>12. Mem!Init <=> Memory!Init
    BY <1>1, <1>6 DEF Mem!Init, Memory!Init
  <1>13. \A dstBytes, srcBytes :
           Mem!Reserve(dstBytes, srcBytes) <=> Memory!Reserve(dstBytes, srcBytes)
    BY <1>2, <1>6, <1>10, <1>11 DEF Mem!Reserve, Memory!Reserve
  <1>. QED  BY <1>12, <1>13

(* A behaviour of the arena is one of the memory: exports never touch it. *)
LEMMA ArenaKeepsMemory == Spec => Memory!Spec
  <1>1. Init => Memory!Init
    BY SameMemory DEF Init
  <1>2. [Next]_vars => [Memory!Next]_(Memory!vars)
    <2>. SUFFICES ASSUME [Next]_vars PROVE [Memory!Next]_(Memory!vars)
      OBVIOUS
    <2>1. ASSUME NEW dstBytes \in Requests, NEW srcBytes \in Requests,
                 Reserve(dstBytes, srcBytes)
          PROVE  Memory!Next
      BY <2>1, SameMemory DEF Reserve, Memory!Next
    <2>2. CASE UNCHANGED memory
      BY <2>2 DEF memory, Memory!vars
    <2>3. CASE UNCHANGED vars
      BY <2>3 DEF vars, memory, Memory!vars
    <2>. QED
      BY <2>1, <2>2, <2>3
         DEF Next, Enter, EnterMetadata, AllocateWorkbuf, Return
  <1>. QED  BY <1>1, <1>2, PTL DEF Spec, Memory!Spec

(* GuestMemoryProofs assumes nothing the arena does not. *)
LEMMA MemoryAssumptions ==
  Memory!WordAssumption /\ Memory!GuestMemoryAssumption
  <1>1. Memory!maxMemory = maxMemory
    BY DEF Memory!maxMemory, maxMemory, Memory!maxReservePages, maxReservePages,
           Memory!wasmPageSize, wasmPageSize
  <1>. QED
    BY <1>1, WordAssumption, ArenaAssumption
       DEF Memory!WordAssumption, Memory!GuestMemoryAssumption

(* The memory of every behaviour of the arena has the types and the slots
   that GuestMemoryProofs shows. *)
LEMMA MemoryFacts == Spec => [](Mem!TypeOK /\ Memory!SlotsInMemory)
  <1>1. Memory!TypeOK => Mem!TypeOK
    <2>1. /\ Mem!maxMemory = Memory!maxMemory
          /\ Mem!wasmPageSize = Memory!wasmPageSize
      BY DEF Mem!maxMemory, Memory!maxMemory, Mem!maxReservePages,
             Memory!maxReservePages, Mem!wasmPageSize, Memory!wasmPageSize
    <2>2. Mem!uint32 = Memory!uint32
      BY DEF Mem!uint32, Memory!uint32
    <2>3. Mem!slotLayout = Memory!slotLayout
      BY <2>2 DEF Mem!slotLayout, Memory!slotLayout
    <2>4. Mem!Outcomes = Memory!Outcomes
      BY DEF Mem!Outcomes, Memory!Outcomes
    <2>. QED  BY <2>1, <2>3, <2>4 DEF Mem!TypeOK, Memory!TypeOK
  <1>2. Memory!Spec => [](Memory!TypeOK /\ Memory!SlotsInMemory)
    BY Memory!TypeCorrect, Memory!SlotsStayInMemory, MemoryAssumptions, PTL
  <1>. QED
    BY <1>1, <1>2, ArenaKeepsMemory, PTL

----------------------------------------------------------------------------
(* Arithmetic of bump_alloc. *)

(* The addresses of the region are words. *)
LEMMA Region ==
  /\ maxMemory = 268435456
  /\ Word \in Nat /\ Word > 268435456
  /\ \A n \in Nat : n < Word => U32(n) = n
  /\ \A n \in Int : U32(n) \in uint32
  /\ \A n \in Nat : n < Word => n \in uint32
  <1>1. maxMemory = 268435456
    BY DEF maxMemory, maxReservePages, wasmPageSize
  <1>2. Word \in Nat /\ Word > 268435456
    BY <1>1, WordAssumption
  <1>. QED  BY <1>1, <1>2 DEF U32, uint32

(* An allocation in the region moves the pointer by the size rounded up to 8
   bytes: no sum wraps. *)
LEMMA BumpedExact ==
  ASSUME NEW p \in Nat, NEW n \in Nat, p + n + 7 < 268435456
  PROVE  /\ bumped(p, n) \in Nat
         /\ bumped(p, n) = p + ((n + 7) - ((n + 7) % 8))
         /\ p + n <= bumped(p, n)
         /\ bumped(p, n) <= p + n + 7
  <1>. DEFINE r == (n + 7) - ((n + 7) % 8)
  <1>1. U32(n + 7) = n + 7
    BY Region
  <1>2. align8(n) = r
    BY <1>1 DEF align8
  <1>3. r \in Nat /\ n <= r /\ r <= n + 7
    OBVIOUS
  <1>. HIDE DEF r
  <1>4. bumped(p, n) = p + r
    <2>1. p + r \in Nat /\ p + r < Word
      BY <1>3, Region
    <2>. QED  BY <1>2, <2>1, Region DEF bumped
  <1>. QED  BY <1>3, <1>4 DEF r

(* An input's sizes are natural numbers. *)
LEMMA InputSizes ==
  ASSUME NEW in \in Inputs
  PROVE  /\ decoderObjSize[in.fourcc] \in Nat
         /\ decoderObjSize[in.fourcc] > 0
         /\ in.srcLen \in Nat
         /\ in.workbufLen \in Nat
         /\ workbufLen(in) \in Nat
         /\ workbufLen(in) \in uint32
  <1>1. in \in InputType
    BY ArenaAssumption
  <1>2. in.fourcc \in Formats /\ in.srcLen \in Nat /\ in.workbufLen \in Nat
    BY <1>1 DEF InputType
  <1>3. decoderObjSize[in.fourcc] \in Nat /\ decoderObjSize[in.fourcc] > 0
    BY <1>2 DEF Formats, decoderObjSize
  <1>4. workbufLen(in) \in uint32
    <2>1. 65536 \in uint32 /\ U32(in.workbufLen) \in uint32
      BY <1>2, Region
    <2>. QED  BY <2>1 DEF workbufLen, fallbackWorkbuf
  <1>5. uint32 \subseteq Nat
    BY Region DEF uint32
  <1>. QED  BY <1>2, <1>3, <1>4, <1>5

(* The pointer after the codec's object. *)
LEMMA PastObject ==
  ASSUME NEW n \in Nat, n <= BUMP_LIMIT
  PROVE  /\ bumped(bump_base, n) \in Nat
         /\ bump_base + n <= bumped(bump_base, n)
         /\ bumped(bump_base, n) <= bump_base + BUMP_LIMIT
  <1>1. bump_base \in Nat /\ bump_base + n + 7 < 268435456
    BY DEF bump_base, BUMP_LIMIT
  <1>2. (n + 7) - ((n + 7) % 8) <= BUMP_LIMIT
    BY DEF BUMP_LIMIT
  <1>3. /\ bumped(bump_base, n) \in Nat
        /\ bumped(bump_base, n) = bump_base + ((n + 7) - ((n + 7) % 8))
        /\ bump_base + n <= bumped(bump_base, n)
    BY <1>1, BumpedExact
  <1>. QED  BY <1>1, <1>2, <1>3 DEF BUMP_LIMIT

(* Every pointer bump_alloc leaves is a word, wrapped or not. *)
LEMMA BumpedWord ==
  ASSUME NEW p \in Nat, NEW n \in Nat
  PROVE  bumped(p, n) \in uint32
  <1>1. U32(n + 7) \in Int
    BY Region DEF uint32
  <1>2. align8(n) \in Int
    BY <1>1 DEF align8
  <1>. QED  BY <1>2, Region DEF bumped

(* The block bump_alloc places after another begins past its end. *)
LEMMA AfterBlock ==
  ASSUME NEW b \in [at : Nat, size : Nat], NEW n \in Nat,
         top(b) + 7 < 268435456
  PROVE  /\ after(b, n) \in [at : Nat, size : Nat]
         /\ after(b, n).size = n
         /\ top(b) <= after(b, n).at
         /\ after(b, n).at <= top(b) + 7
  <1>1. b.at \in Nat /\ b.size \in Nat /\ b.at + b.size + 7 < 268435456
    BY DEF top
  <1>2. after(b, n) = [at |-> bumped(b.at, b.size), size |-> n]
    BY DEF after, block
  <1>. QED  BY <1>1, <1>2, BumpedExact DEF top

(* The blocks read_image_metadata allocates follow one another and end below the
   host slot region. *)
LEMMA MetadataBlocks ==
  ASSUME NEW in \in Inputs, metadataNeed(in) <= BUMP_LIMIT
  PROVE  /\ {object(in), have(in), icc(in), exif(in), xmp(in)}
              \subseteq [at : Nat, size : Nat]
         /\ top(object(in)) <= have(in).at
         /\ top(have(in)) <= icc(in).at
         /\ top(icc(in)) <= exif(in).at
         /\ top(exif(in)) <= xmp(in).at
         /\ top(xmp(in)) <= hostSlotRegionBase
  <1>. DEFINE s == decoderObjSize[in.fourcc]
              n == in.srcLen
  <1>1. s \in Nat /\ n \in Nat /\ s + 2097152 + 2 * n <= 4194304
    BY InputSizes
       DEF metadataNeed, BUMP_LIMIT, WUFFS_WASM_METADATA_HAVE_LEN,
           WUFFS_WASM_METADATA_ICC_CAP
  <1>2. object(in) = [at |-> 9437184, size |-> s]
    BY DEF object, block, bump_base
  <1>. HIDE DEF s, n
  <1>3. object(in) \in [at : Nat, size : Nat] /\ top(object(in)) = 9437184 + s
    BY <1>1, <1>2 DEF top
  <1>4. /\ have(in) \in [at : Nat, size : Nat]
        /\ top(object(in)) <= have(in).at
        /\ top(have(in)) <= 10485767 + s
    BY <1>1, <1>3, AfterBlock DEF have, top, WUFFS_WASM_METADATA_HAVE_LEN
  <1>5. /\ icc(in) \in [at : Nat, size : Nat]
        /\ top(have(in)) <= icc(in).at
        /\ top(icc(in)) <= 11534350 + s
    BY <1>1, <1>4, AfterBlock DEF icc, top, WUFFS_WASM_METADATA_ICC_CAP
  <1>6. /\ exif(in) \in [at : Nat, size : Nat]
        /\ top(icc(in)) <= exif(in).at
        /\ top(exif(in)) <= 11534357 + s + n
    BY <1>1, <1>5, AfterBlock DEF exif, top, n
  <1>7. /\ xmp(in) \in [at : Nat, size : Nat]
        /\ top(exif(in)) <= xmp(in).at
        /\ top(xmp(in)) <= 11534364 + s + 2 * n
    BY <1>1, <1>6, AfterBlock DEF xmp, top, n
  <1>8. top(xmp(in)) <= hostSlotRegionBase
    BY <1>1, <1>7 DEF hostSlotRegionBase, top
  <1>. QED  BY <1>3, <1>4, <1>5, <1>6, <1>7, <1>8

----------------------------------------------------------------------------
(* The invariant. *)

LEMMA ArenaInvInit == Init => ArenaInv
  <1>. SUFFICES ASSUME Init PROVE ArenaInv
    OBVIOUS
  <1>1. bump_ptr \in uint32
    BY Region DEF Init, bump_base
  <1>. QED
    BY <1>1 DEF Init, ArenaInv, ArenaTypes, BlocksApart, BlocksLow,
       PointerPastObject

LEMMA EnterKeeps ==
  ASSUME NEW export \in Exports \ {"read_image_metadata"}, NEW in \in Inputs,
         Enter(export, in)
  PROVE  ArenaInv'
  <1>. DEFINE s == decoderObjSize[in.fourcc]
  <1>1. /\ s \in Nat /\ s <= BUMP_LIMIT
        /\ call' = [export |-> export, in |-> in]
        /\ live' = {object(in)}
        /\ object(in) = [at |-> bump_base, size |-> s]
        /\ bump_ptr' = bumped(bump_base, s)
    BY InputSizes DEF Enter, running, object, block
  <1>. HIDE DEF s
  <1>2. bump_base \in Nat /\ bump_base \in uint32 /\ s \in uint32
    BY <1>1, Region DEF bump_base, BUMP_LIMIT
  <1>3. ArenaTypes'
    BY <1>1, <1>2, BumpedWord DEF ArenaTypes, uint32
  <1>4. BlocksApart'
    BY <1>1 DEF BlocksApart
  <1>5. BlocksLow'
    <2>1. bump_base + s <= hostSlotRegionBase
      BY <1>1 DEF bump_base, BUMP_LIMIT, hostSlotRegionBase
    <2>. QED  BY <1>1, <2>1 DEF BlocksLow, top, hostSlotRegionBase
  <1>6. PointerPastObject'
    BY <1>1 DEF PointerPastObject, object
  <1>. QED  BY <1>3, <1>4, <1>5, <1>6 DEF ArenaInv

LEMMA EnterMetadataKeeps ==
  ASSUME NEW in \in Inputs, EnterMetadata(in)
  PROVE  ArenaInv'
  <1>. DEFINE Region8 == [at : Nat, size : Nat]
  <1>1. /\ call' = [export |-> "read_image_metadata", in |-> in]
        /\ live' = {object(in), have(in), icc(in), exif(in), xmp(in)}
        /\ bump_ptr' = bumped(xmp(in).at, xmp(in).size)
        /\ metadataNeed(in) <= BUMP_LIMIT
    BY DEF EnterMetadata, running
  <1>2. /\ live' \subseteq Region8
        /\ top(object(in)) <= have(in).at
        /\ top(have(in)) <= icc(in).at
        /\ top(icc(in)) <= exif(in).at
        /\ top(exif(in)) <= xmp(in).at
        /\ top(xmp(in)) <= hostSlotRegionBase
    BY <1>1, MetadataBlocks
  <1>3. /\ object(in) \in Region8 /\ have(in) \in Region8 /\ icc(in) \in Region8
        /\ exif(in) \in Region8 /\ xmp(in) \in Region8
    BY <1>1, <1>2
  <1>4. \A b \in live' : top(b) <= hostSlotRegionBase
    BY <1>1, <1>2, <1>3 DEF top, hostSlotRegionBase
  <1>5. ArenaTypes'
    <2>1. bump_ptr' \in uint32
      BY <1>1, <1>3, BumpedWord
    <2>2. ASSUME NEW b \in live'
          PROVE  b \in [at : uint32, size : uint32]
      <3>1. b \in Region8 /\ b.at + b.size <= 33554432
        BY <1>2, <1>4 DEF top, hostSlotRegionBase
      <3>2. b.at \in Nat /\ b.size \in Nat /\ b.at < Word /\ b.size < Word
        BY <3>1, Region
      <3>. QED  BY <3>1, <3>2, Region
    <2>. QED  BY <1>1, <2>1, <2>2 DEF ArenaTypes, Exports
  <1>6. BlocksApart'
    <2>1. \A b, c \in live' : b = c \/ apart(b, c)
      BY <1>1, <1>2, <1>3 DEF apart, top
    <2>. QED  BY <2>1 DEF BlocksApart
  <1>7. BlocksLow'
    BY <1>4 DEF BlocksLow, hostSlotRegionBase
  <1>8. PointerPastObject'
    BY <1>1 DEF PointerPastObject, Decodes
  <1>. QED  BY <1>5, <1>6, <1>7, <1>8 DEF ArenaInv

LEMMA AllocateWorkbufKeeps ==
  ASSUME ArenaInv, AllocateWorkbuf
  PROVE  ArenaInv'
  <1>. DEFINE in == call.in
              s  == decoderObjSize[in.fourcc]
              n  == workbufLen(in)
              w  == block(bump_ptr, n)
  <1>1. /\ call # idle /\ call.export \in Decodes
        /\ live = {object(in)}
        /\ live' = {object(in), w}
        /\ bump_ptr' = bumped(bump_ptr, n)
        /\ call' = call
    BY DEF AllocateWorkbuf
  <1>2. call \in [export : Exports, in : Inputs] /\ in \in Inputs
    BY <1>1 DEF ArenaInv, ArenaTypes
  <1>3. /\ s \in Nat /\ s > 0
        /\ n \in Nat /\ n \in uint32
        /\ s <= BUMP_LIMIT
        /\ bump_ptr = bumped(bump_base, s)
    BY <1>1, <1>2, InputSizes DEF ArenaInv, PointerPastObject, object, block
  <1>4. /\ object(in) = [at |-> bump_base, size |-> s]
        /\ w = [at |-> bump_ptr, size |-> n]
    BY DEF object, block
  <1>. HIDE DEF s, n, w, in
  <1>5. /\ bump_ptr \in Nat
        /\ bump_base + s <= bump_ptr
        /\ bump_ptr <= bump_base + BUMP_LIMIT
    BY <1>3, PastObject
  <1>6. bump_base \in Nat
    BY DEF bump_base
  <1>7. ArenaTypes'
    <2>1. bump_ptr' \in uint32
      BY <1>1, <1>3, <1>5, BumpedWord
    <2>2. w \in [at : uint32, size : uint32]
      BY <1>3, <1>4 DEF ArenaInv, ArenaTypes
    <2>3. object(in) \in [at : uint32, size : uint32]
      BY <1>1 DEF ArenaInv, ArenaTypes
    <2>. QED  BY <1>1, <1>2, <2>1, <2>2, <2>3 DEF ArenaTypes
  <1>8. BlocksApart'
    <2>1. apart(object(in), w) /\ apart(w, object(in))
      BY <1>4, <1>5, <1>6, <1>3 DEF apart, top
    <2>. QED  BY <1>1, <2>1 DEF BlocksApart
  <1>9. BlocksLow'
    <2>. SUFFICES ASSUME n <= SafeWorkbuf
                  PROVE  \A b \in live' : top(b) <= hostSlotRegionBase
      BY <1>1 DEF BlocksLow, n, in, workbufLen, U32, fallbackWorkbuf,
         SafeWorkbuf, hostSlotRegionBase, bump_base, BUMP_LIMIT
    <2>1. bump_ptr + n <= hostSlotRegionBase
      BY <1>3, <1>5 DEF SafeWorkbuf, hostSlotRegionBase, bump_base, BUMP_LIMIT
    <2>2. bump_base + s <= hostSlotRegionBase
      BY <1>3 DEF hostSlotRegionBase, bump_base, BUMP_LIMIT
    <2>. QED  BY <1>1, <1>4, <2>1, <2>2 DEF top
  <1>10. PointerPastObject'
    <2>1. w # object(in)
      BY <1>3, <1>4, <1>5, <1>6
    <2>2. live' # {object(in)}
      BY <1>1, <2>1
    <2>. QED  BY <1>1, <2>2 DEF PointerPastObject, in, object, block
  <1>. QED  BY <1>7, <1>8, <1>9, <1>10 DEF ArenaInv

LEMMA ArenaInvNext == ArenaInv /\ [Next]_vars => ArenaInv'
  <1>. SUFFICES ASSUME ArenaInv, [Next]_vars PROVE ArenaInv'
    OBVIOUS
  <1>1. ASSUME UNCHANGED <<bump_ptr, live, call>>
        PROVE  ArenaInv'
    BY <1>1 DEF ArenaInv, ArenaTypes, BlocksApart, BlocksLow, PointerPastObject
  <1>2. ASSUME NEW dstBytes \in Requests, NEW srcBytes \in Requests,
               Reserve(dstBytes, srcBytes)
        PROVE  ArenaInv'
    BY <1>1, <1>2 DEF Reserve
  <1>3. CASE Return
    BY <1>3 DEF Return, ArenaInv, ArenaTypes, BlocksApart, BlocksLow,
       PointerPastObject
  <1>4. CASE UNCHANGED vars
    BY <1>1, <1>4 DEF vars
  <1>. QED
    BY <1>2, <1>3, <1>4, EnterKeeps, EnterMetadataKeeps, AllocateWorkbufKeeps
       DEF Next

THEOREM ArenaInvariant == Spec => []ArenaInv
  BY ArenaInvInit, ArenaInvNext, PTL DEF Spec

----------------------------------------------------------------------------
(* bump_alloc never gives out the same byte twice in a call (BlocksApart): the
   rounding of its sizes leaves the blocks apart, for any input. *)
THEOREM ArenaBlocksApart == Spec => []BlocksApart
  BY ArenaInvariant, PTL DEF ArenaInv

(* The memory, the pointer and the blocks stay in their types (TypeOK). *)
THEOREM ArenaTypeCorrect == Spec => []TypeOK
  <1>1. ArenaInv /\ Mem!TypeOK => TypeOK
    BY DEF ArenaInv, ArenaTypes, TypeOK
  <1>. QED  BY <1>1, ArenaInvariant, MemoryFacts, PTL

(* No block of an export reaches a slot, in any layout Reserve makes, while the
   work buffer is a safe one (ArenaBelowSlots): the blocks end below the host
   slot region, the slots begin in it. *)
THEOREM ArenaStaysBelowSlots == Spec => []ArenaBelowSlots
  <1>1. ASSUME ArenaInv, Mem!TypeOK, Memory!SlotsInMemory
        PROVE  ArenaBelowSlots
    <2>. DEFINE l == currentLayout
    <2>1. /\ l.metaLen \in Nat /\ l.srcLen \in Nat
          /\ \A f \in {"countOutOff", "loopsOutOff", "frameMetaOff", "metaOff",
                       "srcOff", "dstOff"} : l[f] \in Nat
      BY <1>1, Region DEF Mem!TypeOK, Mem!slotLayout, Mem!uint32, uint32
    <2>2. /\ hostSlotRegionBase <= l.countOutOff
          /\ hostSlotRegionBase <= l.loopsOutOff
          /\ hostSlotRegionBase <= l.frameMetaOff
          /\ hostSlotRegionBase <= l.metaOff
          /\ hostSlotRegionBase <= l.srcOff
          /\ hostSlotRegionBase <= l.dstOff
      BY <1>1, <2>1
         DEF Memory!SlotsInMemory, Memory!hostSlotRegionBase, hostSlotRegionBase,
             Memory!frameCountOutSlotBytes, Memory!animationLoopsOutSlotBytes,
             Memory!frameMetaSlotBytes
    <2>3. \A slot \in Slots : slot.at \in Nat /\ hostSlotRegionBase <= slot.at
      BY <2>1, <2>2 DEF Slots, block
    <2>4. ASSUME NEW b \in live, top(b) <= hostSlotRegionBase, NEW slot \in Slots
          PROVE  top(b) <= slot.at
      <3>1. b.at \in Nat /\ b.size \in Nat
        BY <1>1, Region DEF ArenaInv, ArenaTypes, uint32
      <3>. QED  BY <2>3, <2>4, <3>1 DEF top, hostSlotRegionBase
    <2>. QED  BY <1>1, <2>4 DEF ArenaInv, BlocksLow, ArenaBelowSlots
  <1>. QED  BY <1>1, ArenaInvariant, MemoryFacts, PTL

=============================================================================
