----------------------------- MODULE DecoderProofs -----------------------------
(***************************************************************************)
(* Proofs about Decoder, for every image a codec can report, every            *)
(* destination and every sequence of calls: its types, what a failed call       *)
(* leaves alone, the advice of its errors, and that a reused decoder implements   *)
(* DecodeContract, in which there is nothing to reuse.                              *)
(***************************************************************************)
EXTENDS Decoder, TLAPS

Memory == INSTANCE GuestMemoryProofs

----------------------------------------------------------------------------
(* The memory. *)

(* Decoder and GuestMemoryProofs each instance the same memory. *)
LEMMA SameMemory ==
  /\ Mem!Init <=> Memory!Init
  /\ \A dstBytes, srcBytes :
       Mem!Reserve(dstBytes, srcBytes) <=> Memory!Reserve(dstBytes, srcBytes)
  <1>1. /\ Mem!initialMemory = Memory!initialMemory
        /\ Mem!defaultSrcCap = Memory!defaultSrcCap
        /\ Mem!errInvalid = Memory!errInvalid
        /\ Mem!maxMemory = Memory!maxMemory
    BY DEF Mem!initialMemory, Memory!initialMemory, Mem!defaultSrcCap,
           Memory!defaultSrcCap, Mem!errInvalid, Memory!errInvalid,
           Mem!maxMemory, Memory!maxMemory, Mem!maxReservePages,
           Memory!maxReservePages, Mem!wasmPageSize, Memory!wasmPageSize
  <1>2. \A c, r : Mem!resolveSlot(c, r) = Memory!resolveSlot(c, r)
    BY DEF Mem!resolveSlot, Memory!resolveSlot, Mem!errInvalid, Memory!errInvalid
  <1>3. \A d, s : Mem!slotTotal(d, s) = Memory!slotTotal(d, s)
    BY DEF Mem!slotTotal, Memory!slotTotal, Mem!align8, Memory!align8, Mem!U32,
           Memory!U32, Mem!hostAnimationScratchBytes,
           Memory!hostAnimationScratchBytes, Mem!metaSlotBytes, Memory!metaSlotBytes,
           Mem!frameCountOutSlotBytes, Memory!frameCountOutSlotBytes,
           Mem!animationLoopsOutSlotBytes, Memory!animationLoopsOutSlotBytes,
           Mem!frameMetaSlotBytes, Memory!frameMetaSlotBytes
  <1>4. \A m, d, s : Mem!slotBase(m, d, s) = Memory!slotBase(m, d, s)
    BY <1>3 DEF Mem!slotBase, Memory!slotBase, Mem!U32, Memory!U32,
       Mem!hostSlotRegionBase, Memory!hostSlotRegionBase
  <1>5. \A b, d, s : Mem!slotsAt(b, d, s) = Memory!slotsAt(b, d, s)
    BY DEF Mem!slotsAt, Memory!slotsAt, Mem!U32, Memory!U32,
       Mem!hostAnimationScratchBytes, Memory!hostAnimationScratchBytes,
       Mem!metaSlotBytes, Memory!metaSlotBytes, Mem!frameCountOutSlotBytes,
       Memory!frameCountOutSlotBytes, Mem!animationLoopsOutSlotBytes,
       Memory!animationLoopsOutSlotBytes, Mem!frameMetaSlotBytes,
       Memory!frameMetaSlotBytes
  <1>6. \A m, d, s : Mem!computeLayout(m, d, s) = Memory!computeLayout(m, d, s)
    BY <1>4, <1>5 DEF Mem!computeLayout, Memory!computeLayout
  <1>7. \A d, s : Mem!requiredMem(d, s) = Memory!requiredMem(d, s)
    BY DEF Mem!requiredMem, Memory!requiredMem, Mem!RoundUp8, Memory!RoundUp8,
       Mem!hostSlotRegionBase, Memory!hostSlotRegionBase,
       Mem!hostAnimationScratchBytes, Memory!hostAnimationScratchBytes,
       Mem!metaSlotBytes, Memory!metaSlotBytes, Mem!frameCountOutSlotBytes,
       Memory!frameCountOutSlotBytes, Mem!animationLoopsOutSlotBytes,
       Memory!animationLoopsOutSlotBytes, Mem!frameMetaSlotBytes,
       Memory!frameMetaSlotBytes
  <1>8. \A d, s : Mem!pagesNeeded(d, s) = Memory!pagesNeeded(d, s)
    BY <1>7 DEF Mem!pagesNeeded, Memory!pagesNeeded, Mem!wasmPageSize,
       Memory!wasmPageSize
  <1>9. \A m, n, x : Mem!memoryGrow(m, n, x) = Memory!memoryGrow(m, n, x)
    BY DEF Mem!memoryGrow, Memory!memoryGrow, Mem!wasmPageSize,
       Memory!wasmPageSize
  <1>10. \A d, s : Mem!grownMemory(d, s) = Memory!grownMemory(d, s)
    BY <1>8, <1>9 DEF Mem!grownMemory, Memory!grownMemory, Mem!wasmPageSize,
       Memory!wasmPageSize, Mem!maxReservePages, Memory!maxReservePages
  <1>11. \A d, s : Mem!reserveOutcome(d, s) = Memory!reserveOutcome(d, s)
    BY <1>1, <1>7, <1>10 DEF Mem!reserveOutcome, Memory!reserveOutcome
  <1>12. Mem!Init <=> Memory!Init
    BY <1>1, <1>6 DEF Mem!Init, Memory!Init
  <1>13. \A dstBytes, srcBytes :
           Mem!Reserve(dstBytes, srcBytes) <=> Memory!Reserve(dstBytes, srcBytes)
    BY <1>2, <1>6, <1>10, <1>11 DEF Mem!Reserve, Memory!Reserve
  <1>. QED  BY <1>12, <1>13

(* GuestMemoryProofs assumes nothing the decoder does not. *)
LEMMA MemoryAssumptions ==
  Memory!WordAssumption /\ Memory!GuestMemoryAssumption
  <1>1. Memory!maxMemory = maxMemory
    BY DEF Memory!maxMemory, maxMemory, Memory!maxReservePages, maxReservePages,
           Memory!wasmPageSize, wasmPageSize
  <1>. QED
    BY <1>1, WordAssumption, DecoderAssumption
       DEF Memory!WordAssumption, Memory!GuestMemoryAssumption

\* The invariant GuestMemoryProofs shows, and its types.
MemoryOK == Memory!MemoryInv

raised(capacity, request) == IF request > capacity THEN request ELSE capacity

(* What is known of the capacities. *)
LEMMA Capacities ==
  ASSUME MemoryOK
  PROVE  /\ currentLayout.dstLen \in Nat /\ currentLayout.srcLen \in Nat
         /\ currentLayout.dstLen <= maxMemory - hostSlotRegionBase
         /\ currentLayout.dstLen <= maxMemory /\ currentLayout.srcLen <= maxMemory
  <1>. DEFINE d == currentLayout.dstLen
              s == currentLayout.srcLen
              r == Memory!RoundUp8(80 + s + d)
  <1>1. d \in Nat /\ s \in Nat /\ memSize \in Nat /\ memSize <= Memory!maxMemory
        /\ Memory!requiredMem(d, s) <= memSize
    BY DEF MemoryOK, Memory!MemoryInv, Memory!LayoutFits
  <1>2. Memory!maxMemory = 268435456 /\ maxMemory = 268435456
    BY DEF Memory!maxMemory, maxMemory, Memory!maxReservePages, maxReservePages,
           Memory!wasmPageSize, wasmPageSize
  <1>3. Memory!requiredMem(d, s) = 33554432 + r
    BY DEF Memory!requiredMem, Memory!hostSlotRegionBase,
           Memory!hostAnimationScratchBytes, Memory!metaSlotBytes,
           Memory!frameCountOutSlotBytes, Memory!animationLoopsOutSlotBytes,
           Memory!frameMetaSlotBytes
  <1>4. r \in Nat /\ 80 + s + d <= r
    <2>. HIDE DEF d, s
    <2>. QED  BY <1>1 DEF Memory!RoundUp8
  <1>. HIDE DEF d, s, r
  <1>5. d + s + 80 <= 268435456 - 33554432
    BY SMT, <1>1, <1>2, <1>3, <1>4
  <1>6. hostSlotRegionBase = 33554432
    BY DEF hostSlotRegionBase
  <1>7. /\ d <= maxMemory - hostSlotRegionBase
        /\ d <= maxMemory /\ s <= maxMemory
    BY SMT, <1>1, <1>2, <1>5, <1>6
  <1>. QED  BY <1>1, <1>7 DEF d, s

(* What Reserve does to the memory: it raises the capacities, or refuses. *)
LEMMA ReserveMemory ==
  ASSUME MemoryOK, NEW dstBytes \in Int, NEW srcBytes \in Int,
         Mem!Reserve(dstBytes, srcBytes)
  PROVE  /\ MemoryOK'
         /\ \/ /\ reserveErr' = "invalid"
               /\ memSize' = memSize /\ currentLayout' = currentLayout
            \/ /\ reserveErr' = "nil"
               /\ currentLayout'.dstLen = raised(currentLayout.dstLen, dstBytes)
               /\ currentLayout'.srcLen = raised(currentLayout.srcLen, srcBytes)
  <1>. DEFINE d == Memory!resolveSlot(currentLayout.dstLen, dstBytes)
              s == Memory!resolveSlot(currentLayout.srcLen, srcBytes)
  <1>1. Memory!Reserve(dstBytes, srcBytes)
    BY SameMemory
  <1>2. MemoryOK'
    BY <1>1, MemoryAssumptions, Memory!MemoryInvReserve DEF MemoryOK
  <1>3. \/ /\ reserveErr' = "invalid"
           /\ memSize' = memSize /\ currentLayout' = currentLayout
        \/ /\ reserveErr' = "nil"
           /\ d \in Nat /\ s \in Nat
           /\ currentLayout'.dstLen = d
           /\ currentLayout'.srcLen = s
    BY <1>1, MemoryAssumptions, Memory!ReserveStep DEF MemoryOK
  <1>4. \A c \in Nat, r \in Int :
          Memory!resolveSlot(c, r) \in Nat => Memory!resolveSlot(c, r) = raised(c, r)
    BY WordAssumption DEF Memory!resolveSlot, raised, Memory!errInvalid
  <1>5. currentLayout.dstLen \in Nat /\ currentLayout.srcLen \in Nat
    BY Capacities
  <1>. QED  BY <1>2, <1>3, <1>4, <1>5

----------------------------------------------------------------------------
(* Sources. *)

(* What the assumptions say of one source; every codec's object fits the arena,
   so that only the source decides how far an export gets. *)
LEMMA SourceFacts ==
  ASSUME NEW src \in Sources
  PROVE  LET im == Image[src]
         IN  /\ im.len \in Nat
             /\ im.fourcc \in Formats \cup {noFormat}
             /\ im.width \in uint32 /\ im.height \in uint32
             /\ im.frames \in Seq(Frames)
             /\ Len(im.frames) \in Nat /\ Len(im.frames) <= im.len
             /\ im.len = 0 => im.fourcc = noFormat
             /\ configCode(im) =
                  IF im.len = 0 THEN "badArg"
                  ELSE IF im.fourcc = noFormat THEN "unknown"
                  ELSE IF im.configOK THEN "ok" ELSE "decode"
  <1>. DEFINE im == Image[src]
  <1>1. im \in Images
    BY ImagesAssumption
  <1>2. /\ im.len \in Nat /\ im.fourcc \in Formats \cup {noFormat}
        /\ im.frames \in Seq(Frames)
    BY <1>1 DEF Images
  <1>3. im.width \in uint32 /\ im.height \in uint32 /\ Len(im.frames) <= im.len
    BY ShimAssumption
  <1>4. Len(im.frames) \in Nat
    BY <1>2
  <1>5. im.len = 0 => im.fourcc = noFormat
    BY ImagesAssumption
  <1>6. \A f \in Formats : decoderObjSize[f] <= BUMP_LIMIT
    BY SMT DEF Formats, decoderObjSize, BUMP_LIMIT
  <1>7. \A f \in Formats : ~ decoderObjSize[f] > BUMP_LIMIT
    BY <1>6, SMT DEF Formats, decoderObjSize, BUMP_LIMIT
  <1>8. configCode(im) =
          IF im.len = 0 THEN "badArg"
          ELSE IF im.fourcc = noFormat THEN "unknown"
          ELSE IF im.configOK THEN "ok" ELSE "decode"
    <2>. HIDE DEF im
    <2>. QED  BY <1>2, <1>7, Zenon DEF configCode
  <1>. QED  BY <1>2, <1>3, <1>4, <1>5, <1>8

(* A frame of a source: its bounds are natural numbers in order. *)
LEMMA FrameFacts ==
  ASSUME NEW src \in Sources, NEW i \in Nat, i < Len(Image[src].frames)
  PROVE  LET b == Image[src].frames[i + 1].bounds
         IN  /\ Image[src].frames[i + 1] \in Frames
             /\ b.minX \in Nat /\ b.minY \in Nat /\ b.maxX \in Nat /\ b.maxY \in Nat
             /\ b.minX <= b.maxX /\ b.minY <= b.maxY
  <1>. DEFINE fs == Image[src].frames
              b  == fs[i + 1].bounds
  <1>1. fs \in Seq(Frames) /\ i < Len(fs)
    BY SourceFacts
  <1>2. i + 1 \in DOMAIN fs /\ fs[i + 1] \in Frames
    <2>. HIDE DEF fs
    <2>. QED  BY <1>1
  <1>3. b \in Rects
    BY <1>2 DEF Frames
  <1>4. b.minX <= b.maxX /\ b.minY <= b.maxY
    BY <1>2, ImagesAssumption
  <1>. QED  BY <1>2, <1>3, <1>4 DEF Rects

----------------------------------------------------------------------------
(* Arithmetic. *)

(* Words: a memory's byte counts are far below an int32's. *)
LEMMA Words ==
  /\ maxMemory \in Nat /\ maxMemory > 4
  /\ Word \in Nat /\ Word >= 2 * maxMemory
  /\ \A n \in Nat : n < Word => U32(n) = n /\ n \in uint32
  /\ \A n \in Int : U32(n) \in uint32
  /\ \A n \in uint32 : n \in Nat /\ n < Word
  /\ \A n \in Nat : n <= maxMemory => n < Word
  /\ \A n \in Int : n < maxMemory => n < Word \div 2
  /\ \A n \in Nat : n < Word \div 4 => 4 * n < Word
  /\ \A n \in Nat : 4 * n <= maxMemory => n < Word \div 4
  /\ 0 \in uint32
  <1>1. maxMemory \in Nat /\ maxMemory > 4
    BY SMT DEF maxMemory, maxReservePages, wasmPageSize
  <1>2. Word \in Nat /\ Word >= 2 * maxMemory
    BY WordAssumption
  <1>3. /\ \A n \in Nat : n < Word => U32(n) = n /\ n \in uint32
        /\ \A n \in Int : U32(n) \in uint32
        /\ 0 \in uint32
    BY <1>1, <1>2 DEF U32, uint32
  <1>4. \A n \in uint32 : n \in Nat /\ n < Word
    BY <1>2 DEF uint32
  <1>5. /\ \A n \in Int : n < maxMemory => n < Word \div 2
        /\ \A n \in Nat : n < Word \div 4 => 4 * n < Word
        /\ \A n \in Nat : 4 * n <= maxMemory => n < Word \div 4
    BY <1>1, <1>2
  <1>. QED  BY <1>1, <1>2, <1>3, <1>4, <1>5

(* The numbers of uint32. *)
LEMMA Uint32s == \A n \in uint32 : n \in Nat /\ n < Word
  BY Words

(* Products of two sides. *)
LEMMA Products ==
  ASSUME NEW w \in Nat, NEW h \in Nat
  PROVE  /\ w * h \in Nat
         /\ 4 * w * h = 4 * (w * h)
         /\ (4 * w) * h = 4 * (w * h)
         /\ w > 0 /\ h > 0 => w * h > 0 /\ w <= w * h /\ h <= w * h
         /\ w = 0 \/ h = 0 => w * h = 0
  OBVIOUS

(* What is known of a canvas that a dst slot holds: the codec's dimensions are
   the source's, and no byte count of it wraps. *)
LEMMA Geometry ==
  ASSUME NEW src \in Sources, NEW cap \in Nat, cap <= maxMemory,
         slotCode(Image[src], cap) = "ok"
  PROVE  LET im == Image[src]
         IN  /\ configCode(im) = "ok"
             /\ canvasWidth(im) = im.width /\ canvasHeight(im) = im.height
             /\ im.width \in Nat /\ im.height \in Nat
             /\ im.width > 0 /\ im.height > 0
             /\ im.width <= MaxWidth /\ im.height <= MaxHeight
             /\ U32(4 * im.width) = 4 * im.width
             /\ need(im) = 4 * (im.width * im.height) /\ need(im) <= cap
             /\ im.width * im.height \in Nat
             /\ U32(need(im)) = need(im)
             /\ U32(im.width * im.height) = im.width * im.height
             /\ 4 * im.width < Word
             /\ 4 * (im.width * im.height) < Word
  <1>. DEFINE im == Image[src]
              w  == im.width
              h  == im.height
  <1>1. configCode(im) = "ok" /\ need(im) # 0 /\ ~ need(im) > cap
    BY DEF slotCode
  <1>2. w \in Nat /\ h \in Nat
    <2>1. w \in uint32 /\ h \in uint32
      BY SourceFacts
    <2>. QED  BY <2>1, Uint32s
  <1>3. representable(im)
    <2>1. ~ representable(im) => need(im) = 0
      BY DEF need, canvasWidth, canvasHeight
    <2>. QED  BY <1>1, <2>1
  <1>4. canvasWidth(im) = w /\ canvasHeight(im) = h
    BY <1>3 DEF canvasWidth, canvasHeight
  <1>5. need(im) = 4 * w * h
    BY <1>4 DEF need
  <1>6. need(im) <= maxMemory => w <= MaxWidth /\ h <= MaxHeight
    BY <1>4, ShimAssumption
  <1>. HIDE DEF w, h, im
  <1>7. w * h \in Nat /\ need(im) = 4 * (w * h) /\ (4 * w) * h = 4 * (w * h)
    BY <1>2, <1>5, Products
  <1>8. need(im) <= cap /\ need(im) <= maxMemory /\ need(im) \in Nat
    BY <1>1, <1>7, Words
  <1>9. w > 0 /\ h > 0
    BY <1>1, <1>2, <1>7, Products
  <1>10. w <= w * h
    BY <1>2, <1>9, Products
  <1>11. 4 * w <= maxMemory /\ w * h <= maxMemory
    BY <1>2, <1>7, <1>8, <1>10, Words
  <1>12. /\ U32(4 * w) = 4 * w /\ U32(need(im)) = need(im) /\ U32(w * h) = w * h
         /\ 4 * w < Word /\ need(im) < Word
    BY <1>2, <1>7, <1>8, <1>11, Words
  <1>. QED
    BY <1>1, <1>2, <1>4, <1>6, <1>7, <1>8, <1>9, <1>12 DEF w, h, im

(* The dst slot's cells are those of a canvas, row by row: what the host copies
   for a position is what the codec painted there. *)
LEMMA CellPosition ==
  ASSUME NEW src \in Sources, NEW cap \in Nat, cap <= maxMemory,
         slotCode(Image[src], cap) = "ok", NEW c \in Canvas,
         c[1] < Image[src].width, c[2] < Image[src].height
  PROVE  LET im == Image[src]
             k  == cellOf(c, im.width)
         IN  /\ k \in Cells
             /\ k < canvasWidth(im) * canvasHeight(im)
             /\ position(im, k) = c
  <1>. DEFINE im == Image[src]
              w  == im.width
              h  == im.height
              x  == c[1]
              y  == c[2]
              k  == y * w + x
  <1>1. /\ canvasWidth(im) = w /\ canvasHeight(im) = h
        /\ w \in Nat /\ h \in Nat /\ w > 0 /\ h > 0
        /\ w <= MaxWidth /\ h <= MaxHeight
    BY Geometry
  <1>2. c = <<x, y>> /\ x \in Nat /\ y \in Nat /\ x < w /\ y < h
    <2>1. MaxWidth \in Nat /\ MaxHeight \in Nat
      BY ImagesAssumption
    <2>. QED  BY <2>1 DEF Canvas
  <1>3. MaxWidth \in Nat /\ MaxHeight \in Nat
    BY ImagesAssumption
  <1>4. cellOf(c, w) = k
    BY DEF cellOf
  <1>. HIDE DEF im, w, h, x, y
  <1>5. k \in Nat /\ k < w * h
    BY <1>1, <1>2
  <1>6. k % w = x /\ k \div w = y
    BY <1>1, <1>2
  <1>7. w * h <= MaxWidth * MaxHeight
    <2>1. w * h <= MaxWidth * h
      BY <1>1, <1>3
    <2>2. MaxWidth * h <= MaxWidth * MaxHeight
      BY <1>1, <1>3
    <2>3. w * h \in Int /\ MaxWidth * h \in Int /\ MaxWidth * MaxHeight \in Int
      BY <1>1, <1>3
    <2>. QED  BY <2>1, <2>2, <2>3
  <1>. HIDE DEF k
  <1>8. k \in Cells
    <2>1. w * h \in Int /\ MaxWidth * MaxHeight \in Int
      BY <1>1, <1>3
    <2>. QED  BY <1>5, <1>7, <2>1 DEF Cells
  <1>9. position(im, k) = c
    BY <1>1, <1>2, <1>6 DEF position
  <1>. QED  BY <1>1, <1>4, <1>5, <1>8, <1>9 DEF im, w, h

----------------------------------------------------------------------------
(* Slots and exports. *)

MetaOK(m) == m.width \in uint32 /\ m.height \in uint32 /\ m.stride \in uint32

\* The slots are one record, the dst slot a function of its cells.
SlotsOK(s) ==
  /\ s = [ src |-> s.src, meta |-> s.meta, frame |-> s.frame, count |-> s.count,
           loops |-> s.loops, dst |-> s.dst ]
  /\ MetaOK(s.meta)
  /\ DOMAIN s.dst = Cells

Codes == {"badArg", "unknown", "decode", "dstTooSmall", "ok"}

(* Every export leaves a meta slot of words. *)
LEMMA WrittenMeta ==
  ASSUME NEW src \in Sources, NEW code \in Codes, NEW bytes, NEW old, MetaOK(old)
  PROVE  MetaOK(writtenMeta(Image[src], code, bytes, old))
  <1>. DEFINE im == Image[src]
  <1>1. canvasWidth(im) \in uint32 /\ canvasHeight(im) \in uint32
    BY SourceFacts, Words DEF canvasWidth, canvasHeight
  <1>2. U32(4 * canvasWidth(im)) \in uint32
    BY <1>1, Words
  <1>3. MetaOK(zeroMeta) /\ 0 \in uint32
    BY Words DEF MetaOK, zeroMeta
  <1>4. \A c : MetaOK([zeroMeta EXCEPT !.err = c])
    BY <1>3 DEF MetaOK, zeroMeta
  <1>5. CASE code = "badArg"
    BY <1>5, SMT DEF writtenMeta
  <1>6. CASE code \in {"unknown", "decode"}
    BY <1>4, <1>6, SMT DEF writtenMeta
  <1>7. CASE code = "dstTooSmall"
    <2>. DEFINE m == [zeroMeta EXCEPT !.err = code, !.width = canvasWidth(im),
                                      !.height = canvasHeight(im),
                                      !.stride = U32(4 * canvasWidth(im))]
    <2>1. writtenMeta(im, code, bytes, old) = m
      BY <1>7, SMT DEF writtenMeta
    <2>2. m.width = canvasWidth(im) /\ m.height = canvasHeight(im)
          /\ m.stride = U32(4 * canvasWidth(im))
      BY SMT DEF zeroMeta
    <2>. QED  BY <1>1, <1>2, <2>1, <2>2 DEF MetaOK
  <1>8. CASE code = "ok"
    BY <1>1, <1>2, <1>8, SMT DEF writtenMeta, MetaOK
  <1>. QED  BY <1>5, <1>6, <1>7, <1>8 DEF Codes

(* The codes of the exports. *)
LEMMA CodesOfExports ==
  ASSUME NEW src \in Sources
  PROVE  LET im == Image[src]
         IN  /\ configCode(im) \in Codes \ {"dstTooSmall"}
             /\ \A cap : slotCode(im, cap) \in Codes
             /\ \A cap, i : decodeCode(im, cap, i) \in Codes
             /\ \A cap : metadataCode(im, cap) \in Codes \ {"dstTooSmall"}
  BY SourceFacts DEF Codes, slotCode, decodeCode, metadataCode

(* What an error of a call says is so: the three ways to fail to read a source. *)
ReadCause(im, err) ==
  \/ err = failure("ErrSrcTooLarge") /\ im.len > currentLayout.srcLen
  \/ err = failure("ErrUnknownFormat") /\ im.len > 0 /\ im.fourcc = noFormat
  \/ err = failure("ErrDecode") /\ (im.len = 0 \/ (im.fourcc # noFormat /\ ~ im.configOK))

Readable(im) ==
  /\ im.len <= currentLayout.srcLen
  /\ im.len > 0 /\ im.fourcc # noFormat /\ im.configOK
  /\ configCode(im) = "ok"

(* What the host makes of a return code. *)
LEMMA GuestErrors ==
  \A call :
    /\ call.ret = "ok" => guestError(call) = nilError
    /\ call.ret = "unknown" => guestError(call) = failure("ErrUnknownFormat")
    /\ call.ret \in {"badArg", "decode"} => guestError(call) = failure("ErrDecode")
    /\ call.ret = "dstTooSmall" =>
         guestError(call) = dstTooSmall(U32(call.slots.meta.stride
                                              * call.slots.meta.height),
                                        call.slots.meta.width,
                                        call.slots.meta.height,
                                        call.slots.meta.stride)
  BY SMT DEF guestError

LEMMA ReadErrors ==
  ASSUME NEW src \in Sources, MemoryOK,
         NEW call, call.ret = configCode(Image[src])
  PROVE  LET im == Image[src]
         IN  \/ ReadCause(im, readError(src, call))
             \/ Readable(im) /\ readError(src, call) = nilError
  <1>. DEFINE im == Image[src]
              code == configCode(im)
              err == readError(src, call)
  <1>1. im.len \in Nat /\ currentLayout.srcLen \in Nat
    BY SourceFacts, Capacities
  <1>2. ~ checkSrcCapacity(src) => ReadCause(im, err)
    BY <1>1 DEF checkSrcCapacity, readError, ReadCause
  <1>3. /\ im.len = 0 => im.fourcc = noFormat
        /\ code = IF im.len = 0 THEN "badArg"
                  ELSE IF im.fourcc = noFormat THEN "unknown"
                  ELSE IF im.configOK THEN "ok" ELSE "decode"
    BY SourceFacts
  <1>4. ASSUME checkSrcCapacity(src)
        PROVE  ReadCause(im, err) \/ (Readable(im) /\ err = nilError)
    <2>1. err = guestError(call) /\ im.len <= currentLayout.srcLen
      BY <1>4 DEF readError, checkSrcCapacity
    <2>. HIDE DEF im, err, code
    <2>2. CASE im.len = 0
      <3>1. call.ret = "badArg"
        BY <1>3, <2>2 DEF code, im
      <3>2. err = failure("ErrDecode")
        BY <2>1, <3>1, GuestErrors
      <3>3. ReadCause(im, err)
        BY <2>2, <3>2 DEF ReadCause
      <3>. QED  BY <3>3
    <2>3. CASE im.len > 0 /\ im.fourcc = noFormat
      <3>1. call.ret = "unknown"
        BY <1>1, <1>3, <2>3 DEF code, im
      <3>2. err = failure("ErrUnknownFormat")
        BY <2>1, <3>1, GuestErrors
      <3>3. ReadCause(im, err)
        BY <2>3, <3>2 DEF ReadCause
      <3>. QED  BY <3>3
    <2>4. CASE im.len > 0 /\ im.fourcc # noFormat /\ ~ im.configOK
      <3>1. call.ret = "decode"
        BY <1>1, <1>3, <2>4 DEF code, im
      <3>2. err = failure("ErrDecode")
        BY <2>1, <3>1, GuestErrors
      <3>3. ReadCause(im, err)
        BY <2>4, <3>2 DEF ReadCause
      <3>. QED  BY <3>3
    <2>5. CASE im.len > 0 /\ im.fourcc # noFormat /\ im.configOK
      <3>1. code = "ok"
        BY <1>1, <1>3, <2>5
      <3>2. call.ret = "ok"
        BY <3>1 DEF code, im
      <3>. QED  BY <2>1, <2>5, <3>1, <3>2, GuestErrors, Zenon DEF Readable, code
    <2>. QED  BY <1>1, <2>2, <2>3, <2>4, <2>5
  <1>. QED  BY <1>2, <1>4

----------------------------------------------------------------------------
(* What each call does, with the export it makes taken apart. *)

LEMMA ErrorNamed ==
  /\ nilError.name = "nil" /\ nilError = failure("nil")
  /\ \A name : failure(name).name = name
  /\ \A b, w, h, s : dstTooSmall(b, w, h, s).name = "ErrDstTooSmall"
  /\ \A im, err : ReadCause(im, err)
       => err.name \in {"ErrSrcTooLarge", "ErrUnknownFormat", "ErrDecode"}
  <1>1. /\ nilError.name = "nil" /\ nilError = failure("nil")
        /\ \A name : failure(name).name = name
        /\ \A b, w, h, s : dstTooSmall(b, w, h, s).name = "ErrDstTooSmall"
    BY SMT DEF nilError, failure, dstTooSmall
  <1>2. \A im, err : ReadCause(im, err)
          => err.name \in {"ErrSrcTooLarge", "ErrUnknownFormat", "ErrDecode"}
    BY <1>1, Zenon DEF ReadCause
  <1>. QED  BY <1>1, <1>2

(* The slots a call begins with. *)
LEMMA CopiedSlots ==
  ASSUME SlotsOK(slots), NEW src \in Sources
  PROVE  LET sl == copySrcToSlot(src)
         IN  /\ sl = [ src |-> src, meta |-> slots.meta, frame |-> slots.frame,
                       count |-> slots.count, loops |-> slots.loops,
                       dst |-> slots.dst ]
             /\ SlotsOK(sl)
  <1>1. copySrcToSlot(src) =
          [ src |-> src, meta |-> slots.meta, frame |-> slots.frame,
            count |-> slots.count, loops |-> slots.loops, dst |-> slots.dst ]
    BY DEF SlotsOK, copySrcToSlot
  <1>. QED  BY <1>1 DEF SlotsOK

(* Probe reads the source and reports what the codec found, or fails for a cause
   that its error names. *)
LEMMA ProbeStep ==
  ASSUME MemoryOK, SlotsOK(slots), NEW src \in Sources, Probe(src)
  PROVE  LET im == Image[src]
         IN  /\ SlotsOK(slots)'
             /\ UNCHANGED <<memory, pix, lastFrame, lastMetadata>>
             /\ returned("Probe", src, nilDst, 0, lastCall'.err, 0)
             /\ \/ ReadCause(im, lastCall'.err) /\ lastMeta' = lastMeta
                \/ /\ lastCall'.err = nilError /\ Readable(im)
                   /\ lastMeta' = writtenMeta(im, "ok", 0, zeroMeta)
  <1>. DEFINE im   == Image[src]
              sl   == copySrcToSlot(src)
              meta == writtenMeta(im, configCode(im), 0, slots.meta)
              call == probe_image(sl)
              err  == readError(src, call)
  <1>1. /\ slots' = slotsAfter(src, call)
        /\ lastMeta' = stored(err, call.slots.meta, lastMeta)
        /\ returned("Probe", src, nilDst, 0, err, 0)
        /\ UNCHANGED <<memory, pix, lastFrame, lastMetadata>>
    BY DEF Probe
  <1>2. sl = [ src |-> src, meta |-> slots.meta, frame |-> slots.frame,
               count |-> slots.count, loops |-> slots.loops, dst |-> slots.dst ]
    BY CopiedSlots
  <1>3. /\ call.ret = configCode(im)
        /\ call.slots = [ src |-> src, meta |-> meta, frame |-> slots.frame,
                          count |-> slots.count, loops |-> slots.loops,
                          dst |-> slots.dst ]
    BY <1>2 DEF probe_image
  <1>4. MetaOK(meta)
    BY WrittenMeta, CodesOfExports DEF SlotsOK
  <1>5. \/ ReadCause(im, err)
        \/ Readable(im) /\ err = nilError
    BY <1>3, ReadErrors
  <1>6. Readable(im) => meta = writtenMeta(im, "ok", 0, zeroMeta)
    BY DEF Readable, writtenMeta
  <1>7. lastCall'.err = err
    BY <1>1 DEF returned
  <1>. HIDE DEF meta, call, err, sl
  <1>8. SlotsOK(slots)'
    <2>1. SlotsOK(call.slots)
      BY <1>3, <1>4 DEF SlotsOK
    <2>. QED  BY <1>1, <2>1, Zenon DEF slotsAfter, SlotsOK
  <1>9. ReadCause(im, err) => lastMeta' = lastMeta
    BY <1>1, ErrorNamed DEF stored
  <1>10. err = nilError => lastMeta' = meta
    <2>1. call.slots.meta = meta
      BY <1>3
    <2>. QED  BY <1>1, <2>1, ErrorNamed DEF stored
  <1>. QED  BY <1>1, <1>5, <1>6, <1>7, <1>8, <1>9, <1>10

(* FrameCount answers the number of frames when every frame config can be read. *)
LEMMA FrameCountStep ==
  ASSUME MemoryOK, SlotsOK(slots), NEW src \in Sources, FrameCount(src)
  PROVE  LET im   == Image[src]
             good == \A j \in 1 .. Len(im.frames) : im.frames[j].configOK
         IN  /\ SlotsOK(slots)'
             /\ UNCHANGED <<memory, pix, fields>>
             /\ returned("FrameCount", src, nilDst, 0, lastCall'.err, lastCall'.value)
             /\ \/ ReadCause(im, lastCall'.err)
                \/ /\ lastCall'.err = failure("ErrDecode") /\ Readable(im)
                   /\ Len(im.frames) = 0 \/ ~ good
                \/ /\ lastCall'.err = nilError /\ Readable(im)
                   /\ Len(im.frames) > 0 /\ good
                   /\ lastCall'.value = Len(im.frames)
  <1>. DEFINE im    == Image[src]
              good  == \A j \in 1 .. Len(im.frames) : im.frames[j].configOK
              sl    == [copySrcToSlot(src) EXCEPT !.count = 0]
              code  == IF configCode(im) # "ok" THEN configCode(im)
                       ELSE IF good THEN "ok" ELSE "decode"
              count == IF code = "ok" THEN Len(im.frames) ELSE 0
              call  == frame_count(sl)
              err   == IF checkSrcCapacity(src) /\ call.ret = "ok" /\ call.slots.count <= 0
                         THEN failure("ErrDecode") ELSE readError(src, call)
  <1>1. /\ slots' = slotsAfter(src, call)
        /\ returned("FrameCount", src, nilDst, 0, err,
                    IF err.name = "nil" THEN call.slots.count ELSE 0)
        /\ UNCHANGED <<memory, pix, fields>>
    BY DEF FrameCount
  <1>2. sl = [ src |-> src, meta |-> slots.meta, frame |-> slots.frame,
               count |-> 0, loops |-> slots.loops, dst |-> slots.dst ]
    BY CopiedSlots
  <1>3. /\ call.ret = code
        /\ call.slots = [ src |-> src, meta |-> slots.meta, frame |-> slots.frame,
                          count |-> count, loops |-> slots.loops,
                          dst |-> slots.dst ]
    <2>1. sl.src = src /\ sl.count = 0
      BY <1>2
    <2>2. call = [ ret   |-> code,
                   slots |-> [sl EXCEPT !.count = IF code = "ok" THEN Len(im.frames)
                                  ELSE IF code = "badArg" THEN sl.count ELSE 0] ]
      <3>. HIDE DEF sl
      <3>. QED  BY <2>1, Zenon DEF frame_count
    <2>3. call.ret = code /\ call.slots = [sl EXCEPT !.count = count]
      <3>. HIDE DEF sl, call
      <3>. QED  BY <2>1, <2>2
    <2>. HIDE DEF call, count
    <2>. QED  BY <1>2, <2>3
  <1>4. Len(im.frames) \in Nat
    BY SourceFacts
  <1>5. /\ lastCall'.err = err
        /\ lastCall'.value = IF err.name = "nil" THEN call.slots.count ELSE 0
    BY <1>1 DEF returned
  <1>6. returned("FrameCount", src, nilDst, 0, lastCall'.err, lastCall'.value)
    BY <1>1, <1>5 DEF returned
  <1>7. SlotsOK(slots)'
    <2>. HIDE DEF call, sl, count, err
    <2>1. SlotsOK(call.slots)
      BY <1>3 DEF SlotsOK
    <2>. QED  BY <1>1, <2>1, Zenon DEF slotsAfter, SlotsOK
  <1>8. call.slots.count = count
    BY <1>3
  <1>9. CASE configCode(im) # "ok"
    <2>1. call.ret = configCode(im) /\ call.ret # "ok"
      BY <1>3, <1>9
    <2>2. err = readError(src, call)
      BY <2>1
    <2>3. ReadCause(im, readError(src, call))
      <3>. HIDE DEF call
      <3>. QED  BY <2>1, ReadErrors DEF Readable
    <2>. QED  BY <1>1, <1>5, <1>6, <1>7, <2>2, <2>3
  <1>10. CASE configCode(im) = "ok" /\ ~ checkSrcCapacity(src)
    <2>1. err = failure("ErrSrcTooLarge")
      BY <1>10 DEF readError
    <2>2. im.len > currentLayout.srcLen
      BY <1>10, SourceFacts, Capacities DEF checkSrcCapacity
    <2>. QED  BY <1>1, <1>5, <1>6, <1>7, <2>1, <2>2 DEF ReadCause
  <1>11. CASE configCode(im) = "ok" /\ checkSrcCapacity(src)
    <2>1. Readable(im)
      BY <1>11, SourceFacts DEF Readable, checkSrcCapacity
    <2>2. CASE ~ good
      <3>1. call.ret = "decode"
        BY <1>3, <1>11, <2>2
      <3>2. err = guestError(call)
        BY <1>11, <3>1 DEF readError
      <3>3. err = failure("ErrDecode")
        <4>. HIDE DEF call, err
        <4>. QED  BY <3>1, <3>2, GuestErrors
      <3>. QED  BY <1>1, <1>5, <1>6, <1>7, <2>1, <2>2, <3>3
    <2>3. CASE good
      <3>1. call.ret = "ok" /\ call.slots.count = Len(im.frames)
        BY <1>3, <1>8, <1>11, <2>3
      <3>2. CASE Len(im.frames) = 0
        <4>1. err = failure("ErrDecode")
          BY <1>11, <3>1, <3>2
        <4>. QED  BY <1>1, <1>5, <1>6, <1>7, <2>1, <3>2, <4>1
      <3>3. CASE Len(im.frames) > 0
        <4>1. err = guestError(call)
          BY <1>4, <1>11, <3>1, <3>3 DEF readError
        <4>2. err = nilError
          <5>. HIDE DEF call, err
          <5>. QED  BY <3>1, <4>1, GuestErrors
        <4>3. lastCall'.value = Len(im.frames)
          <5>. HIDE DEF err, call
          <5>. QED  BY <1>5, <3>1, <4>2, ErrorNamed
        <4>. QED  BY <1>1, <1>5, <1>6, <1>7, <2>1, <2>3, <3>3, <4>2, <4>3
      <3>. QED  BY <1>4, <3>2, <3>3
    <2>. QED  BY <2>2, <2>3
  <1>. QED  BY <1>9, <1>10, <1>11

(* LoopCount answers the codec's loop count. *)
LEMMA LoopCountStep ==
  ASSUME MemoryOK, SlotsOK(slots), NEW src \in Sources, LoopCount(src)
  PROVE  LET im == Image[src]
         IN  /\ SlotsOK(slots)'
             /\ UNCHANGED <<memory, pix, fields>>
             /\ returned("LoopCount", src, nilDst, 0, lastCall'.err, lastCall'.value)
             /\ \/ ReadCause(im, lastCall'.err)
                \/ /\ lastCall'.err = nilError /\ Readable(im)
                   /\ lastCall'.value = im.loops
  <1>. DEFINE im    == Image[src]
              sl    == [copySrcToSlot(src) EXCEPT !.loops = 0]
              loops == IF configCode(im) = "ok" THEN im.loops ELSE 0
              call  == animation_loops(sl)
              err   == readError(src, call)
  <1>1. /\ slots' = slotsAfter(src, call)
        /\ returned("LoopCount", src, nilDst, 0, err,
                    IF err.name = "nil" THEN call.slots.loops ELSE 0)
        /\ UNCHANGED <<memory, pix, fields>>
    BY DEF LoopCount
  <1>2. sl = [ src |-> src, meta |-> slots.meta, frame |-> slots.frame,
               count |-> slots.count, loops |-> 0, dst |-> slots.dst ]
    BY CopiedSlots
  <1>3. /\ call.ret = configCode(im)
        /\ call.slots = [ src |-> src, meta |-> slots.meta, frame |-> slots.frame,
                          count |-> slots.count, loops |-> loops,
                          dst |-> slots.dst ]
    <2>1. sl.src = src /\ sl.loops = 0
      BY <1>2
    <2>2. call = [ ret   |-> configCode(im),
                   slots |-> [sl EXCEPT !.loops = IF configCode(im) = "ok" THEN im.loops
                                  ELSE IF configCode(im) = "badArg" THEN sl.loops ELSE 0] ]
      <3>. HIDE DEF sl
      <3>. QED  BY <2>1, Zenon DEF animation_loops
    <2>3. call.ret = configCode(im) /\ call.slots = [sl EXCEPT !.loops = loops]
      <3>. HIDE DEF sl, call
      <3>. QED  BY <2>1, <2>2
    <2>. HIDE DEF call, loops, sl
    <2>4. [sl EXCEPT !.loops = loops] =
            [ src |-> src, meta |-> slots.meta, frame |-> slots.frame,
              count |-> slots.count, loops |-> loops, dst |-> slots.dst ]
      BY <1>2
    <2>. QED  BY <2>3, <2>4
  <1>4. \/ ReadCause(im, err)
        \/ Readable(im) /\ err = nilError
    BY <1>3, ReadErrors
  <1>5. /\ lastCall'.err = err
        /\ lastCall'.value = IF err.name = "nil" THEN call.slots.loops ELSE 0
    BY <1>1 DEF returned
  <1>6. returned("LoopCount", src, nilDst, 0, lastCall'.err, lastCall'.value)
    BY <1>1, <1>5 DEF returned
  <1>7. Readable(im) => loops = im.loops
    BY DEF Readable
  <1>8. call.slots.loops = loops
    BY <1>3
  <1>. HIDE DEF call, sl, loops, err
  <1>9. SlotsOK(slots)'
    <2>1. SlotsOK(call.slots)
      BY <1>3 DEF SlotsOK
    <2>. QED  BY <1>1, <2>1, Zenon DEF slotsAfter, SlotsOK
  <1>10. err = nilError => lastCall'.value = loops
    BY <1>5, <1>8, ErrorNamed
  <1>. QED  BY <1>1, <1>4, <1>5, <1>6, <1>7, <1>9, <1>10

(* Metadata hands over the pack of the source it was given, and of no other. *)
LEMMA MetadataStep ==
  ASSUME MemoryOK, SlotsOK(slots), NEW src \in Sources, Metadata(src)
  PROVE  LET im == Image[src]
         IN  /\ SlotsOK(slots)'
             /\ UNCHANGED <<memory, pix, lastMeta, lastFrame>>
             /\ returned("Metadata", src, nilDst, 0, lastCall'.err, 0)
             /\ \/ /\ \/ ReadCause(im, lastCall'.err)
                      \/ lastCall'.err = failure("ErrDecode")
                   /\ lastMetadata' = lastMetadata
                \/ /\ lastCall'.err = nilError /\ Readable(im)
                   /\ im.metadataOK
                   /\ currentLayout.dstLen >= minimumMetadataDstSlotBytes
                   /\ lastMetadata' = [format |-> im.fourcc, src |-> src]
  <1>. DEFINE im    == Image[src]
              cap   == currentLayout.dstLen
              head  == WUFFS_WASM_METADATA_PACK_HEADER_SIZE
              sl    == copySrcToSlot(src)
              dst0  == overwritten(slots.dst, head, Zero)
              sl0   == [sl EXCEPT !.dst = dst0]
              code  == metadataCode(im, cap)
              dst1  == CASE code = "badArg" -> dst0
                         [] code = "ok" ->
                              overwritten(dst0, head + im.blobBytes, Packed(src))
                         [] OTHER -> overwritten(overwritten(dst0, head, Zero),
                                                 verdictBytes, Verdict(src))
              call  == packCall(src)
              err   == readError(src, call)
  <1>1. /\ slots' = slotsAfter(src, call)
        /\ lastMetadata' = IF err.name = "nil" THEN readPack(call.slots.dst[0])
                           ELSE lastMetadata
        /\ returned("Metadata", src, nilDst, 0, err, 0)
        /\ UNCHANGED <<memory, pix, lastMeta, lastFrame>>
    BY DEF Metadata
  <1>2. /\ sl = [ src |-> src, meta |-> slots.meta, frame |-> slots.frame,
                  count |-> slots.count, loops |-> slots.loops, dst |-> slots.dst ]
        /\ SlotsOK(sl) /\ MetaOK(slots.meta)
    BY CopiedSlots DEF SlotsOK
  <1>3. /\ im.len \in Nat /\ cap \in Nat /\ currentLayout.srcLen \in Nat
        /\ im.len = 0 => im.fourcc = noFormat
        /\ im.blobBytes \in Nat
        /\ im.len > 0 /\ im.fourcc # noFormat /\ im.configOK => configCode(im) = "ok"
    <2>1. im.blobBytes \in Nat
      BY ImagesAssumption DEF Images
    <2>. QED  BY <2>1, SourceFacts, Capacities
  <1>4. lastCall'.err = err
    BY <1>1 DEF returned
  <1>5. /\ code \in {"badArg", "unknown", "decode", "ok"}
        /\ code = "badArg" <=> im.len = 0
        /\ code = "unknown" => im.len > 0 /\ im.fourcc = noFormat
        /\ code = "ok" => /\ im.len > 0 /\ im.fourcc # noFormat
                          /\ im.configOK /\ im.metadataOK
    BY <1>3 DEF metadataCode
  <1>6. CASE cap < minimumMetadataDstSlotBytes
    <2>1. call = [ret |-> "decode", slots |-> sl]
      BY <1>6 DEF packCall
    <2>2. call.ret = "decode" /\ call.slots = sl
      BY <2>1
    <2>. HIDE DEF call
    <2>3. err = failure("ErrDecode") \/ ReadCause(im, err)
      <3>1. guestError(call) = failure("ErrDecode")
        BY <2>2, GuestErrors
      <3>. QED  BY <1>3, <3>1 DEF readError, ReadCause, checkSrcCapacity
    <2>. HIDE DEF err, sl
    <2>4. err.name # "nil"
      BY <2>3, ErrorNamed
    <2>5. SlotsOK(slots)'
      BY <1>1, <1>2, <2>2, Zenon DEF slotsAfter, SlotsOK
    <2>6. lastMetadata' = lastMetadata
      BY <1>1, <2>4
    <2>. QED  BY <1>1, <1>4, <2>3, <2>5, <2>6
  <1>7. CASE ~ cap < minimumMetadataDstSlotBytes
    <2>1. sl0 = [ src |-> src, meta |-> slots.meta, frame |-> slots.frame,
                  count |-> slots.count, loops |-> slots.loops, dst |-> dst0 ]
      <3>. HIDE DEF dst0
      <3>. QED  BY <1>2
    <2>2. call = read_image_metadata(sl0, cap)
      <3>1. sl.dst = slots.dst
        BY <1>2
      <3>. QED  BY <1>7, <3>1 DEF packCall
    <2>3. sl0.src = src /\ sl0.dst = dst0
      <3>. HIDE DEF dst0, sl0
      <3>. QED  BY <2>1
    <2>4. call = [ret |-> code, slots |-> [sl0 EXCEPT !.dst = dst1]]
      <3>. HIDE DEF call, sl0, dst0
      <3>. QED  BY <2>2, <2>3, Zenon DEF read_image_metadata
    <2>5. call.ret = code /\ call.slots = [sl0 EXCEPT !.dst = dst1]
      <3>. HIDE DEF call, sl0, dst1, code
      <3>. QED  BY <2>4
    <2>6. call.slots = [ src |-> src, meta |-> slots.meta, frame |-> slots.frame,
                         count |-> slots.count, loops |-> slots.loops, dst |-> dst1 ]
      <3>. HIDE DEF call, sl0, dst0, dst1, code
      <3>. QED  BY <2>1, <2>5
    <2>7. DOMAIN dst1 = Cells
      <3>. HIDE DEF code
      <3>. QED  BY SMT DEF overwritten
    <2>8. code = "ok" => dst1[0] = Packed(src)
      <3>1. 0 \in Cells
        <4>1. MaxWidth * MaxHeight > 0 /\ MaxWidth * MaxHeight \in Nat
          BY ImagesAssumption, Products
        <4>. QED  BY <4>1 DEF Cells
      <3>2. 4 * 0 < head + im.blobBytes
        BY <1>3 DEF WUFFS_WASM_METADATA_PACK_HEADER_SIZE
      <3>3. overwritten(dst0, head + im.blobBytes, Packed(src))[0] = Packed(src)
        <4>. HIDE DEF dst0, head
        <4>. QED  BY <3>1, <3>2 DEF overwritten
      <3>4. code = "ok" => dst1 = overwritten(dst0, head + im.blobBytes, Packed(src))
        <4>. HIDE DEF dst0, head, code
        <4>. QED  BY SMT
      <3>. HIDE DEF dst1
      <3>. QED  BY <3>3, <3>4
    <2>. HIDE DEF call, code, sl0, dst0, dst1, sl, head
    <2>9. SlotsOK(slots)'
      <3>1. SlotsOK(call.slots)
        BY <1>2, <2>6, <2>7 DEF SlotsOK
      <3>. QED  BY <1>1, <3>1, Zenon DEF slotsAfter, SlotsOK
    <2>10. CASE ~ checkSrcCapacity(src)
      <3>1. err = failure("ErrSrcTooLarge") /\ im.len > currentLayout.srcLen
        BY <1>3, <2>10 DEF readError, checkSrcCapacity
      <3>. HIDE DEF err
      <3>2. ReadCause(im, err)
        BY <3>1 DEF ReadCause
      <3>3. lastMetadata' = lastMetadata
        BY <1>1, <3>1, ErrorNamed
      <3>. QED  BY <1>1, <1>4, <2>9, <3>2, <3>3
    <2>11. CASE checkSrcCapacity(src)
      <3>1. err = guestError(call) /\ im.len <= currentLayout.srcLen
        BY <2>11 DEF readError, checkSrcCapacity
      <3>. HIDE DEF err
      <3>2. CASE code \in {"badArg", "decode"}
        <4>1. err = failure("ErrDecode")
          BY <2>5, <3>1, <3>2, GuestErrors
        <4>2. lastMetadata' = lastMetadata
          BY <1>1, <4>1, ErrorNamed
        <4>. QED  BY <1>1, <1>4, <2>9, <4>1, <4>2
      <3>3. CASE code = "unknown"
        <4>1. err = failure("ErrUnknownFormat")
          BY <2>5, <3>1, <3>3, GuestErrors
        <4>2. lastMetadata' = lastMetadata
          BY <1>1, <4>1, ErrorNamed
        <4>3. ReadCause(im, err)
          BY <1>5, <3>3, <4>1 DEF ReadCause
        <4>. QED  BY <1>1, <1>4, <2>9, <4>2, <4>3
      <3>4. CASE code = "ok"
        <4>1. err = nilError
          BY <2>5, <3>1, <3>4, GuestErrors
        <4>2. Readable(im)
          BY <1>3, <1>5, <3>1, <3>4 DEF Readable
        <4>3. packSource(call.slots.dst[0]) = src
          BY <2>6, <2>8, <3>4 DEF packSource, Packed
        <4>4. lastMetadata' = [format |-> im.fourcc, src |-> src]
          <5>1. lastMetadata' = readPack(call.slots.dst[0])
            BY <1>1, <4>1, ErrorNamed
          <5>. QED  BY <4>3, <5>1 DEF readPack
        <4>5. cap >= minimumMetadataDstSlotBytes
          BY <1>3, <1>7 DEF minimumMetadataDstSlotBytes
        <4>. QED  BY <1>1, <1>4, <1>5, <2>9, <3>4, <4>1, <4>2, <4>4, <4>5
      <3>. QED  BY <1>5, <3>2, <3>3, <3>4
    <2>. QED  BY <2>10, <2>11
  <1>. QED  BY <1>6, <1>7

----------------------------------------------------------------------------
(* Decodes. *)

\* The slot holds the canvas; the frame decodes as well.
CanvasFits(im)   == slotCode(im, currentLayout.dstLen) = "ok"
Decodable(im, i) == CanvasFits(im) /\ frameReached(im, i) /\ im.frames[i + 1].pixelsOK

\* What the guest's "dst too small" is turned into.
slotError(im) ==
  dstTooSmall(U32(U32(4 * canvasWidth(im)) * canvasHeight(im)),
              canvasWidth(im), canvasHeight(im), U32(4 * canvasWidth(im)))

\* The three ways a decode can fail in the guest.
GuestCause(im, i, err) ==
  \/ ReadCause(im, err)
  \/ /\ Readable(im) /\ slotCode(im, currentLayout.dstLen) = "dstTooSmall"
     /\ err = slotError(im)
  \/ /\ Readable(im) /\ CanvasFits(im) /\ ~ Decodable(im, i)
     /\ err = failure("ErrDecode")

(* What the host makes of a decode's return code. *)
LEMMA DecodeErrors ==
  ASSUME MemoryOK, NEW src \in Sources, checkSrcCapacity(src), NEW i \in Nat,
         NEW code,
         LET im == Image[src] IN
           \/ code = decodeCode(im, currentLayout.dstLen, i)
           \/ code = IF configCode(im) = "badArg" THEN "decode"
                     ELSE decodeCode(im, currentLayout.dstLen, i),
         NEW bytes, NEW old, NEW call,
         call.ret = code,
         call.slots.meta = writtenMeta(Image[src], code, bytes, old)
  PROVE  LET im == Image[src]
         IN  \/ /\ code = "ok" /\ guestError(call) = nilError
                /\ Readable(im) /\ Decodable(im, i)
             \/ code # "ok" /\ GuestCause(im, i, guestError(call))
  <1>. DEFINE im  == Image[src]
              cap == currentLayout.dstLen
              err == guestError(call)
  <1>1. /\ im.len \in Nat
        /\ im.len = 0 => im.fourcc = noFormat
        /\ configCode(im) = IF im.len = 0 THEN "badArg"
                            ELSE IF im.fourcc = noFormat THEN "unknown"
                            ELSE IF im.configOK THEN "ok" ELSE "decode"
        /\ im.len <= currentLayout.srcLen
    BY SourceFacts DEF checkSrcCapacity
  <1>. HIDE DEF im, cap, err
  <1>2. CASE configCode(im) # "ok"
    <2>1. slotCode(im, cap) = configCode(im)
      BY <1>2 DEF slotCode
    <2>2. decodeCode(im, cap, i) = configCode(im)
      BY <1>2, <2>1 DEF decodeCode
    <2>3. code = configCode(im) \/ (im.len = 0 /\ code = "decode")
      BY <1>1, <2>2 DEF im, cap
    <2>4. CASE im.len = 0
      <3>1. code \in {"badArg", "decode"}
        BY <1>1, <2>3, <2>4
      <3>2. err = failure("ErrDecode")
        BY <3>1, GuestErrors DEF err
      <3>3. ReadCause(im, err)
        BY <2>4, <3>2 DEF ReadCause
      <3>. QED  BY <3>1, <3>3 DEF GuestCause, im, err
    <2>5. CASE im.len > 0 /\ im.fourcc = noFormat
      <3>1. code = "unknown"
        BY <1>1, <2>3, <2>5
      <3>2. err = failure("ErrUnknownFormat")
        BY <3>1, GuestErrors DEF err
      <3>3. ReadCause(im, err)
        BY <2>5, <3>2 DEF ReadCause
      <3>. QED  BY <3>1, <3>3 DEF GuestCause, im, err
    <2>6. CASE im.len > 0 /\ im.fourcc # noFormat
      <3>1. code = "decode" /\ ~ im.configOK
        BY <1>1, <1>2, <2>3, <2>6
      <3>2. err = failure("ErrDecode")
        BY <3>1, GuestErrors DEF err
      <3>3. ReadCause(im, err)
        BY <2>6, <3>1, <3>2 DEF ReadCause
      <3>. QED  BY <3>1, <3>3 DEF GuestCause, im, err
    <2>. QED  BY <1>1, <2>4, <2>5, <2>6
  <1>3. CASE configCode(im) = "ok"
    <2>1. Readable(im)
      BY <1>1, <1>3 DEF Readable
    <2>2. code = decodeCode(im, cap, i)
      BY <1>3 DEF im, cap
    <2>3. slotCode(im, cap) \in {"ok", "dstTooSmall"}
      BY <1>3 DEF slotCode
    <2>4. CASE slotCode(im, cap) = "dstTooSmall"
      <3>1. code = "dstTooSmall"
        BY <2>2, <2>4 DEF decodeCode
      <3>. DEFINE m == call.slots.meta
      <3>2. /\ m.width = canvasWidth(im) /\ m.height = canvasHeight(im)
            /\ m.stride = U32(4 * canvasWidth(im))
        <4>1. m = [zeroMeta EXCEPT !.err = code, !.width = canvasWidth(im),
                                   !.height = canvasHeight(im),
                                   !.stride = U32(4 * canvasWidth(im))]
          BY <3>1, Zenon DEF writtenMeta, im
        <4>. HIDE DEF m
        <4>. QED  BY <4>1, SMT DEF zeroMeta
      <3>3. err = dstTooSmall(U32(m.stride * m.height), m.width, m.height, m.stride)
        BY <3>1, GuestErrors DEF err
      <3>. HIDE DEF m
      <3>4. err = slotError(im)
        BY <3>2, <3>3 DEF slotError
      <3>. QED  BY <2>1, <2>4, <3>1, <3>4, Zenon DEF GuestCause, im, err, cap
    <2>5. CASE slotCode(im, cap) = "ok" /\ Decodable(im, i)
      <3>1. code = "ok"
        BY <2>2, <2>5 DEF decodeCode, Decodable
      <3>2. err = nilError
        BY <3>1, GuestErrors DEF err
      <3>. QED  BY <2>1, <2>5, <3>1, <3>2 DEF im, err
    <2>6. CASE slotCode(im, cap) = "ok" /\ ~ Decodable(im, i)
      <3>1. code = "decode"
        BY <2>2, <2>6 DEF decodeCode, Decodable, CanvasFits, cap
      <3>2. err = failure("ErrDecode")
        BY <3>1, GuestErrors DEF err
      <3>. QED  BY <2>1, <2>6, <3>1, <3>2 DEF GuestCause, CanvasFits, im, err, cap
    <2>. QED  BY <2>3, <2>4, <2>5, <2>6
  <1>. QED  BY <1>2, <1>3

(* What the codec painted at a position of the canvas inside the frame is that
   frame's pixel, whatever the dst slot held. *)
LEMMA PaintedCell ==
  ASSUME NEW src \in Sources, NEW cap \in Nat, cap <= maxMemory,
         slotCode(Image[src], cap) = "ok",
         NEW i \in Nat, frameReached(Image[src], i), Image[src].frames[i + 1].pixelsOK,
         NEW c \in Canvas, Inside(Image[src].frames[i + 1].bounds, c),
         c[1] < Image[src].width, c[2] < Image[src].height, NEW fmt, NEW dst
  PROVE  LET im == Image[src]
         IN  paint(src, im, i, fmt, dst)[cellOf(c, im.width)] = Pixel(src, i, c, fmt)
  <1>. DEFINE im == Image[src]
              k  == cellOf(c, im.width)
  <1>1. /\ k \in Cells /\ k < canvasWidth(im) * canvasHeight(im)
        /\ position(im, k) = c
    BY CellPosition
  <1>2. Inside(im.frames[i + 1].bounds, c) /\ frameReached(im, i)
        /\ im.frames[i + 1].pixelsOK
    OBVIOUS
  <1>. HIDE DEF k, im
  <1>3. k \in frameCells(im, i)
    BY <1>1, <1>2, Zenon DEF frameCells
  <1>4. paint(src, im, i, fmt, dst)[k] = Pixel(src, i, position(im, k), fmt)
    BY <1>1, <1>2, <1>3, Zenon DEF paint
  <1>. QED  BY <1>1, <1>4 DEF k, im

(* Positions inside a rectangle of the canvas are on the canvas. *)
LEMMA InsideCanvas ==
  ASSUME NEW src \in Sources, NEW i \in Nat, i < Len(Image[src].frames),
         NEW w \in Nat, NEW h \in Nat,
         ~ badBounds(Image[src].frames[i + 1].bounds, w, h),
         NEW c \in Canvas, Inside(Image[src].frames[i + 1].bounds, c)
  PROVE  c[1] < w /\ c[2] < h
  <1>. DEFINE b == Image[src].frames[i + 1].bounds
  <1>1. b.maxX \in Nat /\ b.maxY \in Nat
    BY FrameFacts
  <1>2. c[1] \in Int /\ c[2] \in Int
    BY ImagesAssumption DEF Canvas
  <1>3. ~ b.maxX > w /\ ~ b.maxY > h /\ c[1] < b.maxX /\ c[2] < b.maxY
    BY DEF badBounds, Inside
  <1>. HIDE DEF b
  <1>. QED  BY <1>1, <1>2, <1>3

\* A destination that does not fit the decoded canvas.
shapeError(d, im) == validateDestination(Dest[d], im.width, im.height)

\* The ways DecodeFrame can fail.
FrameCause(d, src, index, err) ==
  LET im == Image[src]
  IN  \/ d = nilDst /\ err = failure("ErrBadImage")
      \/ (index < 0 \/ index >= Word \div 2) /\ err = failure("ErrDecode")
      \/ index >= 0 /\ GuestCause(im, index, err)
      \/ /\ index >= 0 /\ Readable(im) /\ Decodable(im, index)
         /\ d \in Destinations
         /\ \/ err = shapeError(d, im) /\ err # nilError
            \/ /\ shapeError(d, im) = nilError
               /\ badBounds(im.frames[index + 1].bounds, im.width, im.height)
               /\ err = failure("ErrDecode")

\* What a decoded frame looks like.
frameDrawn(old, src, index) ==
  [c \in Canvas |-> IF Inside(Image[src].frames[index + 1].bounds, c)
                      THEN Pixel(src, index, c, RGBAPremul) ELSE old[c]]

decodedMeta(im) == writtenMeta(im, "ok", U32(need(im)), zeroMeta)

decodedFrame(src, index) ==
  readFrameMeta([ src |-> src, index |-> index,
                  bounds |-> Image[src].frames[index + 1].bounds,
                  flicks |-> Image[src].frames[index + 1].flicks ])

FrameFails(d, src, index) ==
  /\ FrameCause(d, src, index, lastCall'.err)
  /\ lastCall'.err # nilError
  /\ UNCHANGED <<pix, fields>>

FrameSucceeds(d, src, index) ==
  LET im == Image[src]
  IN  /\ lastCall'.err = nilError
      /\ d \in Destinations /\ index >= 0 /\ index < Word \div 2
      /\ Readable(im) /\ Decodable(im, index)
      /\ shapeError(d, im) = nilError
      /\ ~ badBounds(im.frames[index + 1].bounds, im.width, im.height)
      /\ pix' = [pix EXCEPT ![d] = frameDrawn(@, src, index)]
      /\ lastMeta' = decodedMeta(im)
      /\ lastFrame' = decodedFrame(src, index)

(* DecodeFrame draws exactly the frame it is asked for, or fails for a cause that
   its error names and changes nothing its caller has. *)
LEMMA FrameStep ==
  ASSUME MemoryOK, SlotsOK(slots), NEW src \in Sources, NEW op,
         NEW d \in Destinations \cup {nilDst}, NEW index \in Int,
         decodeFrame(op, d, src, index)
  PROVE  /\ SlotsOK(slots)'
         /\ UNCHANGED <<memory, lastMetadata>>
         /\ returned(op, src, d, index, lastCall'.err, 0)
         /\ FrameFails(d, src, index) \/ FrameSucceeds(d, src, index)
  <1>. DEFINE im    == Image[src]
              cap   == currentLayout.dstLen
              sl    == [copySrcToSlot(src) EXCEPT !.meta = zeroMeta,
                                                  !.frame = zeroFrame]
              early == IF d = nilDst THEN failure("ErrBadImage")
                       ELSE IF index < 0 \/ index >= Word \div 2
                         THEN failure("ErrDecode")
                       ELSE IF ~ checkSrcCapacity(src) THEN failure("ErrSrcTooLarge")
                       ELSE nilError
              call  == decode_frame(sl, cap, index, RGBAPremul)
              err   == frameError(d, call)
              code  == IF configCode(im) = "badArg" THEN "decode"
                       ELSE decodeCode(im, cap, index)
              clear == [k \in Cells |-> IF k < canvasWidth(im) * canvasHeight(im)
                                          THEN Zero ELSE slots.dst[k]]
              meta  == writtenMeta(im, code, U32(need(im)), zeroMeta)
              frame == IF code = "ok"
                         THEN [ src |-> src, index |-> index,
                                bounds |-> im.frames[index + 1].bounds,
                                flicks |-> im.frames[index + 1].flicks ]
                         ELSE zeroFrame
              dst   == IF slotCode(im, cap) = "ok"
                         THEN paint(src, im, index, RGBAPremul, clear) ELSE slots.dst
  <1>1. CASE early # nilError
    <2>1. /\ returned(op, src, d, index, early, 0)
          /\ UNCHANGED <<memory, slots, pix, fields>>
      BY <1>1 DEF decodeFrame
    <2>2. lastCall'.err = early
      BY <2>1 DEF returned
    <2>3. FrameCause(d, src, index, early)
      <3>1. CASE d = nilDst
        BY <3>1 DEF FrameCause
      <3>2. CASE d # nilDst /\ (index < 0 \/ index >= Word \div 2)
        BY <3>2 DEF FrameCause
      <3>3. CASE d # nilDst /\ ~ (index < 0 \/ index >= Word \div 2)
        <4>1. early = failure("ErrSrcTooLarge") /\ ~ checkSrcCapacity(src)
          BY <1>1, <3>3
        <4>2. im.len > currentLayout.srcLen
          BY <4>1, SourceFacts, Capacities DEF checkSrcCapacity
        <4>3. ReadCause(im, early)
          BY <4>1, <4>2 DEF ReadCause
        <4>4. index >= 0
          BY <3>3
        <4>. QED  BY <4>3, <4>4, Zenon DEF FrameCause, GuestCause
      <3>. QED  BY <3>1, <3>2, <3>3
    <2>4. SlotsOK(slots)'
      BY <2>1, Zenon DEF SlotsOK
    <2>. HIDE DEF early
    <2>5. UNCHANGED <<memory, lastMetadata>> /\ UNCHANGED <<pix, fields>>
      BY <2>1, Zenon DEF fields
    <2>. QED  BY <1>1, <2>1, <2>2, <2>3, <2>4, <2>5 DEF FrameFails
  <1>2. CASE early = nilError
    <2>1. /\ d # nilDst /\ d \in Destinations
          /\ index >= 0 /\ index < Word \div 2 /\ index \in Nat
          /\ checkSrcCapacity(src)
      <3>1. d # nilDst
        BY <1>2, ErrorNamed
      <3>2. ~ (index < 0 \/ index >= Word \div 2)
        BY <1>2, <3>1, ErrorNamed
      <3>3. checkSrcCapacity(src)
        BY <1>2, <3>1, <3>2, ErrorNamed
      <3>4. index >= 0 /\ index < Word \div 2 /\ index \in Nat
        BY <3>2, Words
      <3>. QED  BY <3>1, <3>3, <3>4
    <2>2. /\ slots' = call.slots
          /\ pix' = IF err.name # "nil" THEN pix
                    ELSE [pix EXCEPT ![d] =
                            copyRegion(@, call.slots.dst, call.slots.meta.width,
                                       readFrameMeta(call.slots.frame).bounds)]
          /\ lastMeta' = stored(err, call.slots.meta, lastMeta)
          /\ lastFrame' = stored(err, readFrameMeta(call.slots.frame), lastFrame)
          /\ returned(op, src, d, index, err, 0)
          /\ UNCHANGED <<memory, lastMetadata>>
      BY <1>2 DEF decodeFrame
    <2>3. sl = [ src |-> src, meta |-> zeroMeta, frame |-> zeroFrame,
                 count |-> slots.count, loops |-> slots.loops, dst |-> slots.dst ]
      <3>. DEFINE copied == [copySrcToSlot(src) EXCEPT !.meta = zeroMeta]
      <3>1. copied = [ src |-> src, meta |-> zeroMeta, frame |-> slots.frame,
                       count |-> slots.count, loops |-> slots.loops,
                       dst |-> slots.dst ]
        BY CopiedSlots
      <3>2. sl = [copied EXCEPT !.frame = zeroFrame]
        OBVIOUS
      <3>. HIDE DEF copied, sl
      <3>. QED  BY <3>1, <3>2
    <2>4. call.ret = code /\ call.slots =
            [ src |-> src, meta |-> meta, frame |-> frame, count |-> slots.count,
              loops |-> slots.loops, dst |-> dst ]
      <3>1. sl.src = src /\ sl.dst = slots.dst /\ sl.meta = zeroMeta
        BY <2>3
      <3>2. call = [ret |-> code, slots |-> [sl EXCEPT !.meta = meta, !.frame = frame,
                                                       !.dst = dst]]
        <4>. HIDE DEF sl
        <4>. QED  BY <3>1, Zenon DEF decode_frame
      <3>3. call.ret = code /\ call.slots = [sl EXCEPT !.meta = meta, !.frame = frame,
                                                       !.dst = dst]
        <4>. HIDE DEF call, sl, meta, frame, dst, code
        <4>. QED  BY <3>2
      <3>. HIDE DEF call, meta, frame, dst, code
      <3>. QED  BY <2>3, <3>3
    <2>. HIDE DEF call
    <2>5. call.slots.meta = meta /\ call.slots.frame = frame /\ call.slots.dst = dst
      <3>. HIDE DEF meta, frame, dst, code
      <3>. QED  BY <2>4
    <2>6. SlotsOK(slots)'
      <3>1. MetaOK(zeroMeta)
        BY Words DEF MetaOK, zeroMeta
      <3>2. code \in Codes
        BY CodesOfExports DEF Codes
      <3>3. MetaOK(meta)
        <4>. HIDE DEF code
        <4>. QED  BY <3>1, <3>2, WrittenMeta
      <3>4. DOMAIN dst = Cells
        BY DEF paint, SlotsOK
      <3>. HIDE DEF meta, frame, dst, code
      <3>. QED  BY <2>2, <2>4, <3>3, <3>4 DEF SlotsOK
    <2>7. lastCall'.err = err
      BY <2>2 DEF returned
    <2>8. \/ /\ code = "ok" /\ guestError(call) = nilError
             /\ Readable(im) /\ Decodable(im, index)
          \/ code # "ok" /\ GuestCause(im, index, guestError(call))
      <3>1. code = IF configCode(im) = "badArg" THEN "decode"
                   ELSE decodeCode(im, cap, index)
        OBVIOUS
      <3>. HIDE DEF code
      <3>. QED  BY <2>1, <2>4, <2>5, <3>1, DecodeErrors
    <2>9. CASE code # "ok"
      <3>1. GuestCause(im, index, guestError(call))
        BY <2>8, <2>9
      <3>2. err = guestError(call)
        BY <2>4, <2>9 DEF frameError
      <3>3. err.name # "nil"
        <4>1. slotError(im).name = "ErrDstTooSmall"
          BY ErrorNamed DEF slotError
        <4>. HIDE DEF err
        <4>. QED  BY <3>1, <3>2, <4>1, ErrorNamed, Zenon DEF GuestCause
      <3>4. FrameCause(d, src, index, err)
        BY <2>1, <3>1, <3>2 DEF FrameCause
      <3>. HIDE DEF err, code, meta, frame, dst
      <3>5. UNCHANGED <<pix, fields>>
        BY <2>2, <3>3 DEF stored, fields
      <3>6. err # nilError
        BY <3>3, ErrorNamed
      <3>. QED  BY <2>2, <2>6, <2>7, <3>4, <3>5, <3>6 DEF FrameFails
    <2>10. CASE code = "ok"
      <3>1. Readable(im) /\ Decodable(im, index) /\ guestError(call) = nilError
        BY <2>8, <2>10
      <3>2. cap \in Nat /\ cap <= maxMemory
        BY Capacities
      <3>3. slotCode(im, cap) = "ok" /\ frameReached(im, index)
            /\ im.frames[index + 1].pixelsOK
        BY <3>1 DEF Decodable, CanvasFits
      <3>4. /\ canvasWidth(im) = im.width /\ canvasHeight(im) = im.height
            /\ im.width \in Nat /\ im.height \in Nat
        BY <3>2, <3>3, Geometry
      <3>5. meta = decodedMeta(im)
        BY <2>10, Zenon DEF decodedMeta
      <3>6. meta.width = im.width /\ meta.height = im.height
        <4>1. meta = [err |-> "ok", width |-> canvasWidth(im),
                      height |-> canvasHeight(im), stride |-> U32(4 * canvasWidth(im)),
                      bytesWritten |-> U32(need(im)), format |-> im.fourcc]
          <5>. HIDE DEF code
          <5>. QED  BY <2>10, SMT DEF writtenMeta
        <4>. HIDE DEF meta
        <4>. QED  BY <3>4, <4>1
      <3>. DEFINE b == im.frames[index + 1].bounds
      <3>7. frame = [ src |-> src, index |-> index, bounds |-> b,
                      flicks |-> im.frames[index + 1].flicks ]
        BY <2>10
      <3>8. frame.bounds = b /\ readFrameMeta(frame) = decodedFrame(src, index)
            /\ readFrameMeta(frame).bounds = b
        <4>. HIDE DEF frame
        <4>. QED  BY <3>7 DEF readFrameMeta, decodedFrame
      <3>9. err = IF shapeError(d, im) # nilError THEN shapeError(d, im)
                  ELSE IF badBounds(b, im.width, im.height) THEN failure("ErrDecode")
                  ELSE nilError
        <4>. HIDE DEF meta, frame, dst
        <4>. QED  BY <2>4, <2>5, <2>10, <3>6, <3>8, Zenon DEF frameError, shapeError
      <3>. HIDE DEF err, meta, frame, code
      <3>10. CASE err # nilError
        <4>1. FrameCause(d, src, index, err)
          BY <2>1, <3>1, <3>9, <3>10, Zenon DEF FrameCause
        <4>2. err.name # "nil"
          <5>1. shapeError(d, im) # nilError => shapeError(d, im).name # "nil"
            BY ErrorNamed, Zenon DEF shapeError, validateDestination
          <5>. QED  BY <3>9, <3>10, <5>1, ErrorNamed
        <4>3. UNCHANGED <<pix, fields>>
          BY <2>2, <4>2 DEF stored, fields
        <4>. QED  BY <2>2, <2>6, <2>7, <3>10, <4>1, <4>3 DEF FrameFails
      <3>11. CASE err = nilError
        <4>1. shapeError(d, im) = nilError /\ ~ badBounds(b, im.width, im.height)
          BY <3>9, <3>11, ErrorNamed
        <4>2. lastMeta' = decodedMeta(im) /\ lastFrame' = decodedFrame(src, index)
          BY <2>2, <2>5, <3>5, <3>8, <3>11, ErrorNamed DEF stored
        <4>3. pix' = [pix EXCEPT ![d] = copyRegion(@, dst, im.width, b)]
          <5>. HIDE DEF dst
          <5>. QED  BY <2>2, <2>5, <3>6, <3>8, <3>11, ErrorNamed, Zenon
        <4>4. \A old : copyRegion(old, dst, im.width, b) = frameDrawn(old, src, index)
          <5>1. ASSUME NEW c \in Canvas, Inside(b, c)
                PROVE  dst[cellOf(c, im.width)] = Pixel(src, index, c, RGBAPremul)
            <6>1. index < Len(im.frames)
              BY <3>3 DEF frameReached
            <6>2. c[1] < im.width /\ c[2] < im.height
              BY <2>1, <3>4, <4>1, <5>1, <6>1, InsideCanvas
            <6>3. dst = paint(src, im, index, RGBAPremul, clear)
              BY <3>3
            <6>. HIDE DEF clear, dst
            <6>. QED  BY <2>1, <3>2, <3>3, <5>1, <6>2, <6>3, PaintedCell
          <5>. HIDE DEF dst
          <5>. QED  BY <5>1, Zenon DEF copyRegion, frameDrawn
        <4>5. pix' = [pix EXCEPT ![d] = frameDrawn(@, src, index)]
          <5>. HIDE DEF dst
          <5>. QED  BY <4>3, <4>4, Zenon
        <4>. QED  BY <2>1, <2>2, <2>6, <2>7, <3>1, <3>11, <4>1, <4>2, <4>5
                 DEF FrameSucceeds
      <3>. QED  BY <3>10, <3>11
    <2>. QED  BY <2>9, <2>10
  <1>. QED  BY <1>1, <1>2

\* The ways DecodeNRGBA and DecodeGray can fail.
StillCause(d, src, err) ==
  LET im == Image[src]
  IN  \/ d = nilDst /\ err = failure("ErrBadImage")
      \/ GuestCause(im, 0, err)
      \/ /\ Readable(im) /\ Decodable(im, 0) /\ d \in Destinations
         /\ err = shapeError(d, im) /\ err # nilError

StillFails(d, src) ==
  /\ StillCause(d, src, lastCall'.err)
  /\ lastCall'.err # nilError
  /\ UNCHANGED <<pix, fields>>

StillSucceeds(op, d, src, fmt) ==
  LET im == Image[src]
  IN  /\ lastCall'.err = nilError
      /\ d \in Destinations
      /\ Readable(im) /\ Decodable(im, 0)
      /\ shapeError(d, im) = nilError
      /\ pix' = [pix EXCEPT ![d] = drawn(op, @, slots'.dst, im.width, im.height)]
      /\ \A c \in Canvas :
           Inside(im.frames[1].bounds, c) /\ c[1] < im.width /\ c[2] < im.height
             => slots'.dst[cellOf(c, im.width)] = Pixel(src, 0, c, fmt)
      /\ lastMeta' = shown(op, decodedMeta(im))

(* DecodeNRGBA and DecodeGray draw the canvas, inside the first frame's rectangle
   that frame's pixels, or fail for a cause their error names and change nothing
   their caller has. *)
LEMMA StillStep ==
  ASSUME MemoryOK, SlotsOK(slots), NEW src \in Sources, NEW op, NEW fmt,
         NEW d \in Destinations \cup {nilDst}, decodeStill(op, d, src, fmt)
  PROVE  /\ SlotsOK(slots)'
         /\ UNCHANGED <<memory, lastFrame, lastMetadata>>
         /\ returned(op, src, d, 0, lastCall'.err, 0)
         /\ StillFails(d, src) \/ StillSucceeds(op, d, src, fmt)
  <1>. DEFINE im    == Image[src]
              cap   == currentLayout.dstLen
              sl    == copySrcToSlot(src)
              early == IF d = nilDst THEN failure("ErrBadImage")
                       ELSE IF ~ checkSrcCapacity(src) THEN failure("ErrSrcTooLarge")
                       ELSE nilError
              call  == decode_image(sl, cap, fmt)
              err   == IF call.ret # "ok" THEN guestError(call)
                       ELSE validateDestination(Dest[d], call.slots.meta.width,
                                                call.slots.meta.height)
              code  == decodeCode(im, cap, 0)
              meta  == writtenMeta(im, code, U32(need(im)), slots.meta)
              dst   == IF slotCode(im, cap) = "ok"
                         THEN paint(src, im, 0, fmt, slots.dst) ELSE slots.dst
  <1>1. CASE early # nilError
    <2>1. /\ returned(op, src, d, 0, early, 0)
          /\ UNCHANGED <<memory, slots, pix, fields>>
      BY <1>1 DEF decodeStill
    <2>2. lastCall'.err = early
      BY <2>1 DEF returned
    <2>3. StillCause(d, src, early)
      <3>1. CASE d = nilDst
        BY <3>1 DEF StillCause
      <3>2. CASE d # nilDst
        <4>1. early = failure("ErrSrcTooLarge") /\ ~ checkSrcCapacity(src)
          BY <1>1, <3>2
        <4>2. im.len > currentLayout.srcLen
          BY <4>1, SourceFacts, Capacities DEF checkSrcCapacity
        <4>3. ReadCause(im, early)
          BY <4>1, <4>2 DEF ReadCause
        <4>. QED  BY <4>3, Zenon DEF StillCause, GuestCause
      <3>. QED  BY <3>1, <3>2
    <2>4. SlotsOK(slots)'
      BY <2>1, Zenon DEF SlotsOK
    <2>. HIDE DEF early
    <2>5. /\ UNCHANGED <<memory, lastFrame, lastMetadata>>
          /\ UNCHANGED <<pix, fields>>
      BY <2>1, Zenon DEF fields
    <2>. QED  BY <1>1, <2>1, <2>2, <2>3, <2>4, <2>5 DEF StillFails
  <1>2. CASE early = nilError
    <2>1. d # nilDst /\ d \in Destinations /\ checkSrcCapacity(src)
      <3>1. d # nilDst
        BY <1>2, ErrorNamed
      <3>2. checkSrcCapacity(src)
        BY <1>2, <3>1, ErrorNamed
      <3>. QED  BY <3>1, <3>2
    <2>2. /\ slots' = call.slots
          /\ pix' = IF err.name # "nil" THEN pix
                    ELSE [pix EXCEPT ![d] =
                            drawn(op, @, call.slots.dst, call.slots.meta.width,
                                  call.slots.meta.height)]
          /\ lastMeta' = stored(err, shown(op, call.slots.meta), lastMeta)
          /\ returned(op, src, d, 0, err, 0)
          /\ UNCHANGED <<memory, lastFrame, lastMetadata>>
      BY <1>2 DEF decodeStill
    <2>3. sl = [ src |-> src, meta |-> slots.meta, frame |-> slots.frame,
                 count |-> slots.count, loops |-> slots.loops, dst |-> slots.dst ]
      BY CopiedSlots
    <2>4. call.ret = code /\ call.slots =
            [ src |-> src, meta |-> meta, frame |-> slots.frame,
              count |-> slots.count, loops |-> slots.loops, dst |-> dst ]
      <3>1. sl.src = src /\ sl.dst = slots.dst /\ sl.meta = slots.meta
        BY <2>3
      <3>2. call = [ret |-> code, slots |-> [sl EXCEPT !.meta = meta, !.dst = dst]]
        <4>. HIDE DEF sl
        <4>. QED  BY <3>1, Zenon DEF decode_image
      <3>3. call.ret = code /\ call.slots = [sl EXCEPT !.meta = meta, !.dst = dst]
        <4>. HIDE DEF call, sl, meta, dst, code
        <4>. QED  BY <3>2
      <3>. HIDE DEF call, sl, meta, dst, code
      <3>. QED  BY <2>3, <3>3
    <2>. HIDE DEF call
    <2>5. call.slots.meta = meta /\ call.slots.dst = dst
      <3>. HIDE DEF meta, dst, code
      <3>. QED  BY <2>4
    <2>6. SlotsOK(slots)'
      <3>1. MetaOK(slots.meta)
        BY DEF SlotsOK
      <3>2. code \in Codes
        BY CodesOfExports
      <3>3. MetaOK(meta)
        <4>. HIDE DEF code
        <4>. QED  BY <3>1, <3>2, WrittenMeta
      <3>4. DOMAIN dst = Cells
        BY DEF paint, SlotsOK
      <3>. HIDE DEF meta, dst, code
      <3>. QED  BY <2>2, <2>4, <3>3, <3>4 DEF SlotsOK
    <2>7. lastCall'.err = err
      BY <2>2 DEF returned
    <2>8. \/ /\ code = "ok" /\ guestError(call) = nilError
             /\ Readable(im) /\ Decodable(im, 0)
          \/ code # "ok" /\ GuestCause(im, 0, guestError(call))
      <3>1. code = decodeCode(im, cap, 0)
        OBVIOUS
      <3>. HIDE DEF code
      <3>. QED  BY <2>1, <2>4, <2>5, <3>1, DecodeErrors
    <2>9. CASE code # "ok"
      <3>1. GuestCause(im, 0, guestError(call))
        BY <2>8, <2>9
      <3>2. err = guestError(call)
        BY <2>4, <2>9
      <3>3. err.name # "nil"
        <4>1. slotError(im).name = "ErrDstTooSmall"
          BY ErrorNamed DEF slotError
        <4>. HIDE DEF err
        <4>. QED  BY <3>1, <3>2, <4>1, ErrorNamed, Zenon DEF GuestCause
      <3>4. StillCause(d, src, err)
        BY <3>1, <3>2 DEF StillCause
      <3>. HIDE DEF err, code, meta, dst
      <3>5. UNCHANGED <<pix, fields>>
        BY <2>2, <3>3 DEF stored, fields
      <3>6. err # nilError
        BY <3>3, ErrorNamed
      <3>. QED  BY <2>2, <2>6, <2>7, <3>4, <3>5, <3>6 DEF StillFails
    <2>10. CASE code = "ok"
      <3>1. Readable(im) /\ Decodable(im, 0) /\ guestError(call) = nilError
        BY <2>8, <2>10
      <3>2. cap \in Nat /\ cap <= maxMemory
        BY Capacities
      <3>3. slotCode(im, cap) = "ok" /\ frameReached(im, 0)
            /\ im.frames[0 + 1].pixelsOK /\ 0 + 1 = 1
        BY <3>1 DEF Decodable, CanvasFits
      <3>4. /\ canvasWidth(im) = im.width /\ canvasHeight(im) = im.height
            /\ im.width \in Nat /\ im.height \in Nat
        BY <3>2, <3>3, Geometry
      <3>5. meta = decodedMeta(im)
        BY <2>10, SMT DEF decodedMeta, writtenMeta
      <3>6. meta.width = im.width /\ meta.height = im.height
        <4>1. meta = [err |-> "ok", width |-> canvasWidth(im),
                      height |-> canvasHeight(im), stride |-> U32(4 * canvasWidth(im)),
                      bytesWritten |-> U32(need(im)), format |-> im.fourcc]
          <5>. HIDE DEF code
          <5>. QED  BY <2>10, SMT DEF writtenMeta
        <4>. HIDE DEF meta
        <4>. QED  BY <3>4, <4>1
      <3>7. err = shapeError(d, im)
        <4>. HIDE DEF meta, dst
        <4>. QED  BY <2>4, <2>5, <2>10, <3>6, Zenon DEF shapeError
      <3>. HIDE DEF err, meta, code
      <3>8. CASE err # nilError
        <4>1. StillCause(d, src, err)
          BY <2>1, <3>1, <3>7, <3>8, Zenon DEF StillCause
        <4>2. err.name # "nil"
          <5>1. shapeError(d, im) # nilError => shapeError(d, im).name # "nil"
            BY ErrorNamed, Zenon DEF shapeError, validateDestination
          <5>. QED  BY <3>7, <3>8, <5>1, ErrorNamed
        <4>3. UNCHANGED <<pix, fields>>
          BY <2>2, <4>2 DEF stored, fields
        <4>. QED  BY <2>2, <2>6, <2>7, <3>8, <4>1, <4>3 DEF StillFails
      <3>9. CASE err = nilError
        <4>1. shapeError(d, im) = nilError
          BY <3>7, <3>9
        <4>2. lastMeta' = shown(op, decodedMeta(im))
          BY <2>2, <2>5, <3>5, <3>9, ErrorNamed DEF stored
        <4>3. slots'.dst = dst
          BY <2>2, <2>5
        <4>4. pix' = [pix EXCEPT ![d] = drawn(op, @, slots'.dst, im.width, im.height)]
          <5>. HIDE DEF dst
          <5>. QED  BY <2>2, <2>5, <3>6, <3>9, <4>3, ErrorNamed, Zenon
        <4>5. ASSUME NEW c \in Canvas, Inside(im.frames[1].bounds, c),
                     c[1] < im.width, c[2] < im.height
              PROVE  slots'.dst[cellOf(c, im.width)] = Pixel(src, 0, c, fmt)
          <5>1. dst = paint(src, im, 0, fmt, slots.dst)
            BY <3>3
          <5>2. Inside(im.frames[0 + 1].bounds, c)
            BY <4>5
          <5>. HIDE DEF dst
          <5>. QED  BY <3>2, <3>3, <4>3, <4>5, <5>1, <5>2, PaintedCell
        <4>. HIDE DEF dst
        <4>. QED  BY <2>1, <2>2, <2>6, <2>7, <3>1, <3>9, <4>1, <4>2, <4>4, <4>5
                 DEF StillSucceeds
      <3>. QED  BY <3>8, <3>9
    <2>. QED  BY <2>9, <2>10
  <1>. QED  BY <1>1, <1>2

(* What validateDestination answers for a canvas of two sides. *)
LEMMA ShapeErrors ==
  ASSUME NEW shape \in Shapes, NEW w \in Nat, NEW h \in Nat, w > 0, h > 0
  PROVE  LET row   == w * bytesPerPixel[shape.kind]
             tight == row * h
             total == shape.stride * h
             err   == validateDestination(shape, w, h)
             fits  == /\ shape.width = w /\ shape.height = h
                      /\ shape.pixLen # 0 /\ shape.atOrigin /\ tight < Word
         IN  /\ row \in Nat /\ w <= row
             /\ tight \in Nat /\ row <= tight /\ tight > 0
             /\ total \in Nat /\ shape.stride \in Nat /\ shape.stride <= total
             /\ ~ fits => err = failure("ErrBadImage")
             /\ fits /\ shape.stride < row => err = dstTooSmall(tight, w, h, row)
             /\ fits /\ shape.stride >= row /\ total >= Word
                  => err = failure("ErrBadImage")
             /\ fits /\ shape.stride >= row /\ total < Word /\ shape.pixLen < total
                  => err = dstTooSmall(total, w, h, shape.stride)
             /\ fits /\ shape.stride >= row /\ total < Word /\ shape.pixLen >= total
                  => err = nilError
  <1>. DEFINE bpp   == bytesPerPixel[shape.kind]
              row   == w * bpp
              tight == row * h
              total == shape.stride * h
              err   == validateDestination(shape, w, h)
              fits  == /\ shape.width = w /\ shape.height = h
                       /\ shape.pixLen # 0 /\ shape.atOrigin /\ tight < Word
  <1>1. /\ shape.width \in Nat /\ shape.height \in Nat /\ shape.pixLen \in Nat
        /\ shape.stride \in Nat /\ shape.atOrigin \in BOOLEAN
        /\ shape.kind \in {"RGBA", "NRGBA", "Gray"}
    BY DEF Shapes, bytesPerPixel
  <1>2. bpp \in {1, 4}
    BY <1>1 DEF bytesPerPixel
  <1>. HIDE DEF bpp
  <1>3. row \in Nat /\ w <= row /\ row > 0
    BY <1>2
  <1>. HIDE DEF row
  <1>4. tight \in Nat /\ row <= tight /\ tight > 0
    BY <1>3, Products
  <1>5. total \in Nat /\ shape.stride <= total
    BY <1>1
  <1>6. Word \in Nat
    BY Words
  <1>7. err =
          CASE \/ shape.width = 0 \/ shape.height = 0 \/ shape.pixLen = 0
               \/ ~ shape.atOrigin            -> failure("ErrBadImage")
            [] OTHER ->
               CASE \/ shape.width # w \/ shape.height # h \/ w = 0 \/ h = 0
                    \/ tight >= Word          -> failure("ErrBadImage")
                 [] OTHER ->
                    CASE shape.stride < row   -> dstTooSmall(tight, w, h, row)
                      [] OTHER ->
                         CASE total >= Word   -> failure("ErrBadImage")
                           [] OTHER ->
                              IF shape.pixLen < total
                                THEN dstTooSmall(total, w, h, shape.stride)
                                ELSE nilError
    BY Zenon DEF validateDestination, row, bpp
  <1>. HIDE DEF err, tight, total
  <1>8. ~ fits => err = failure("ErrBadImage")
    BY <1>1, <1>4, <1>6, <1>7
  <1>9. fits /\ shape.stride < row => err = dstTooSmall(tight, w, h, row)
    BY <1>1, <1>4, <1>6, <1>7
  <1>10. fits /\ shape.stride >= row /\ total >= Word => err = failure("ErrBadImage")
    BY <1>1, <1>3, <1>4, <1>6, <1>7
  <1>11. fits /\ shape.stride >= row /\ total < Word /\ shape.pixLen < total
           => err = dstTooSmall(total, w, h, shape.stride)
    BY <1>1, <1>3, <1>4, <1>5, <1>6, <1>7
  <1>12. fits /\ shape.stride >= row /\ total < Word /\ shape.pixLen >= total
           => err = nilError
    BY <1>1, <1>3, <1>4, <1>5, <1>6, <1>7
  <1>. QED
    BY <1>1, <1>3, <1>4, <1>5, <1>8, <1>9, <1>10, <1>11, <1>12
       DEF err, tight, total, row, bpp

(* Every error a call returns has the fields of its type. *)
LEMMA ErrorTypes ==
  /\ \A name \in ErrorNames : failure(name) \in Errors
  /\ nilError \in Errors
  /\ \A im, err : ReadCause(im, err) => err \in Errors
  /\ \A src \in Sources : slotError(Image[src]) \in Errors
  /\ \A b, w, h, s \in uint32 : dstTooSmall(b, w, h, s) \in Errors
  <1>1. \A name \in ErrorNames : failure(name) \in Errors
    BY Words DEF failure, Errors
  <1>2. nilError \in Errors
    BY <1>1 DEF nilError, ErrorNames
  <1>3. \A im, err : ReadCause(im, err) => err \in Errors
    <2>1. /\ failure("ErrSrcTooLarge") \in Errors
          /\ failure("ErrUnknownFormat") \in Errors /\ failure("ErrDecode") \in Errors
      BY <1>1 DEF ErrorNames
    <2>. QED  BY <2>1, Zenon DEF ReadCause
  <1>4. \A b, w, h, s \in uint32 : dstTooSmall(b, w, h, s) \in Errors
    BY DEF dstTooSmall, Errors, ErrorNames
  <1>5. ASSUME NEW src \in Sources
        PROVE  slotError(Image[src]) \in Errors
    <2>. DEFINE im == Image[src]
                cw == canvasWidth(im)
                ch == canvasHeight(im)
    <2>1. cw \in uint32 /\ ch \in uint32
      BY SourceFacts, Words DEF canvasWidth, canvasHeight
    <2>. HIDE DEF cw, ch
    <2>2. U32(4 * cw) \in uint32
      BY <2>1, Words
    <2>3. U32(U32(4 * cw) * ch) \in uint32
      BY <2>1, <2>2, Words
    <2>. QED  BY <1>4, <2>1, <2>2, <2>3 DEF slotError, cw, ch
  <1>. QED  BY <1>1, <1>2, <1>3, <1>4, <1>5

(* The shape of every destination and canvas gives such an error. *)
LEMMA ShapeErrorTypes ==
  ASSUME MemoryOK, NEW src \in Sources, CanvasFits(Image[src]), NEW d \in Destinations
  PROVE  shapeError(d, Image[src]) \in Errors
  <1>. DEFINE w     == Image[src].width
              h     == Image[src].height
              shape == Dest[d]
              row   == w * bytesPerPixel[shape.kind]
              tight == row * h
              total == shape.stride * h
              err   == validateDestination(shape, w, h)
  <1>1. currentLayout.dstLen \in Nat /\ currentLayout.dstLen <= maxMemory
    BY Capacities
  <1>2. /\ w \in Nat /\ h \in Nat /\ w > 0 /\ h > 0
        /\ 4 * w < Word /\ 4 * (w * h) < Word
    BY <1>1, Geometry DEF CanvasFits
  <1>3. w \in uint32 /\ h \in uint32
    BY SourceFacts
  <1>4. shape \in Shapes
    BY ImagesAssumption
  <1>. HIDE DEF w, h, shape
  <1>5. /\ row \in Nat /\ tight \in Nat /\ row <= tight
        /\ total \in Nat /\ shape.stride \in Nat /\ shape.stride <= total
        /\ \/ err = failure("ErrBadImage")
           \/ tight < Word /\ err = dstTooSmall(tight, w, h, row)
           \/ total < Word /\ err = dstTooSmall(total, w, h, shape.stride)
           \/ err = nilError
    <2>. DEFINE fits == /\ shape.width = w /\ shape.height = h
                        /\ shape.pixLen # 0 /\ shape.atOrigin /\ tight < Word
    <2>1. /\ row \in Nat /\ w <= row
          /\ tight \in Nat /\ row <= tight /\ tight > 0
          /\ total \in Nat /\ shape.stride \in Nat /\ shape.stride <= total
          /\ ~ fits => err = failure("ErrBadImage")
          /\ fits /\ shape.stride < row => err = dstTooSmall(tight, w, h, row)
          /\ fits /\ shape.stride >= row /\ total >= Word
               => err = failure("ErrBadImage")
          /\ fits /\ shape.stride >= row /\ total < Word /\ shape.pixLen < total
               => err = dstTooSmall(total, w, h, shape.stride)
          /\ fits /\ shape.stride >= row /\ total < Word /\ shape.pixLen >= total
               => err = nilError
      BY <1>2, <1>4, ShapeErrors
    <2>2. shape.pixLen \in Nat /\ Word \in Nat
      BY <1>4, Words DEF Shapes
    <2>. HIDE DEF err, row, total
    <2>. QED  BY <2>1, <2>2
  <1>. HIDE DEF row, tight, total, err
  <1>6. /\ tight < Word => tight \in uint32 /\ row \in uint32
        /\ total < Word => total \in uint32 /\ shape.stride \in uint32
    BY <1>5, Words
  <1>7. err \in Errors
    BY <1>3, <1>5, <1>6, ErrorTypes DEF ErrorNames
  <1>. QED  BY <1>7 DEF shapeError, err, w, h, shape

(* A frame is shown for an integral number of nanoseconds. *)
LEMMA DurationType == \A flicks \in Nat : duration(flicks) \in Int
  <1>1. /\ Word64 \in Nat /\ Word64 > 0 /\ Second \in Nat
        /\ FlicksPerSecond \in Nat /\ FlicksPerSecond > 0
    BY TimingAssumption
  <1>2. \A n \in Int : int64(n) \in Int
    BY <1>1 DEF int64
  <1>3. \A n \in Int : n * Second \in Int
    BY <1>1
  <1>4. \A n \in Int : quotient(n, FlicksPerSecond) \in Int
    BY <1>1 DEF quotient
  <1>. QED  BY <1>2, <1>3, <1>4 DEF duration

----------------------------------------------------------------------------
(* The inductive invariant. *)

PixOK ==
  /\ DOMAIN pix = Destinations
  /\ \A d \in Destinations : DOMAIN pix[d] = Canvas

FieldsOK ==
  /\ lastMeta.bytesWritten \in uint32
  /\ lastFrame.index \in Nat /\ lastFrame.duration \in Int

\* What a successful Probe or FrameCount says of its source and of the capacity it
\* was read in; the next call still finds it so.
ReadIsKnown ==
  lastCall.op \in {"Probe", "FrameCount"} /\ lastCall.err = nilError =>
    lastCall.src \in Sources /\ Readable(Image[lastCall.src])

ProbeIsKnown ==
  lastCall.op = "Probe" /\ lastCall.err = nilError =>
    lastMeta = writtenMeta(Image[lastCall.src], "ok", 0, zeroMeta)

CountIsKnown ==
  lastCall.op = "FrameCount" /\ lastCall.err = nilError =>
    LET im == Image[lastCall.src]
    IN  /\ lastCall.value = Len(im.frames)
        /\ \A j \in 1 .. Len(im.frames) : im.frames[j].configOK

CallOK ==
  /\ lastCall.err \in Errors
  /\ lastCall.err.name = "nil" => lastCall.err = nilError
  /\ ReadIsKnown /\ ProbeIsKnown /\ CountIsKnown

DecoderInv == MemoryOK /\ SlotsOK(slots) /\ PixOK /\ FieldsOK /\ CallOK

(* Of the errors only the nil error is called nil. *)
LEMMA NilErrors ==
  ASSUME NEW err,
         \/ \E im : ReadCause(im, err)
         \/ \E name \in ErrorNames : err = failure(name)
         \/ \E b, w, h, s : err = dstTooSmall(b, w, h, s)
         \/ err = nilError
  PROVE  err.name = "nil" => err = nilError
  <1>1. ASSUME NEW im, ReadCause(im, err)
        PROVE  err.name = "nil" => err = nilError
    BY <1>1, ErrorNamed
  <1>2. ASSUME NEW name \in ErrorNames, err = failure(name)
        PROVE  err.name = "nil" => err = nilError
    <2>1. err.name = name
      BY <1>2, ErrorNamed
    <2>. QED  BY <1>2, <2>1, ErrorNamed
  <1>3. ASSUME NEW b, NEW w, NEW h, NEW s, err = dstTooSmall(b, w, h, s)
        PROVE  err.name = "nil" => err = nilError
    BY <1>3, ErrorNamed
  <1>. QED  BY <1>1, <1>2, <1>3

(* What a decode that succeeds reports. *)
LEMMA DecodedMeta ==
  ASSUME MemoryOK, NEW src \in Sources, CanvasFits(Image[src])
  PROVE  LET im == Image[src]
         IN  /\ decodedMeta(im) =
                  [ err |-> "ok", width |-> im.width, height |-> im.height,
                    stride |-> 4 * im.width,
                    bytesWritten |-> 4 * (im.width * im.height),
                    format |-> im.fourcc ]
             /\ \A op : shown(op, decodedMeta(im)) =
                  [ err |-> "ok", width |-> im.width, height |-> im.height,
                    stride |-> 4 * im.width,
                    bytesWritten |-> IF op = "DecodeGray" THEN im.width * im.height
                                     ELSE 4 * (im.width * im.height),
                    format |-> im.fourcc ]
             /\ decodedMeta(im).bytesWritten \in uint32
             /\ \A op : shown(op, decodedMeta(im)).bytesWritten \in uint32
  <1>. DEFINE im == Image[src]
              w  == im.width
              h  == im.height
  <1>1. currentLayout.dstLen \in Nat /\ currentLayout.dstLen <= maxMemory
    BY Capacities
  <1>2. /\ canvasWidth(im) = w /\ canvasHeight(im) = h
        /\ U32(4 * w) = 4 * w
        /\ need(im) = 4 * (w * h) /\ U32(need(im)) = need(im)
        /\ w * h \in Nat /\ U32(w * h) = w * h /\ 4 * (w * h) < Word
    BY <1>1, Geometry DEF CanvasFits
  <1>3. decodedMeta(im) =
          [ err |-> "ok", width |-> canvasWidth(im), height |-> canvasHeight(im),
            stride |-> U32(4 * canvasWidth(im)), bytesWritten |-> U32(need(im)),
            format |-> im.fourcc ]
    BY SMT DEF decodedMeta, writtenMeta
  <1>. HIDE DEF w, h, im
  <1>4. decodedMeta(im) =
          [ err |-> "ok", width |-> w, height |-> h, stride |-> 4 * w,
            bytesWritten |-> 4 * (w * h), format |-> im.fourcc ]
    BY <1>2, <1>3
  <1>. DEFINE m == decodedMeta(im)
  <1>5. m.width = w /\ m.height = h
    <2>. HIDE DEF m
    <2>. QED  BY <1>4 DEF m
  <1>6. ASSUME NEW op
        PROVE  shown(op, m) =
                 [ err |-> "ok", width |-> w, height |-> h, stride |-> 4 * w,
                   bytesWritten |-> IF op = "DecodeGray" THEN w * h
                                    ELSE 4 * (w * h),
                   format |-> im.fourcc ]
    <2>. HIDE DEF m
    <2>0. m = [ err |-> "ok", width |-> w, height |-> h, stride |-> 4 * w,
            bytesWritten |-> 4 * (w * h), format |-> im.fourcc ]
      BY <1>4 DEF m
    <2>1. CASE op = "DecodeGray"
      <3>1. shown(op, m) = [m EXCEPT !.bytesWritten = w * h]
        BY <1>2, <1>5, <2>1 DEF shown
      <3>. QED  BY <2>0, <2>1, <3>1
    <2>2. CASE op # "DecodeGray"
      BY <2>0, <2>2 DEF shown
    <2>. QED  BY <2>1, <2>2
  <1>7. 4 * (w * h) \in uint32 /\ w * h \in uint32
    BY <1>2, Words
  <1>8. m.bytesWritten \in uint32
    <2>1. m.bytesWritten = 4 * (w * h)
      BY <1>4
    <2>. QED  BY <1>7, <2>1
  <1>9. ASSUME NEW op
        PROVE  shown(op, m).bytesWritten \in uint32
    <2>1. shown(op, m).bytesWritten = IF op = "DecodeGray" THEN w * h ELSE 4 * (w * h)
      <3>. HIDE DEF m
      <3>. QED  BY <1>6
    <2>. HIDE DEF m
    <2>. QED  BY <1>7, <2>1
  <1>. QED  BY <1>4, <1>6, <1>8, <1>9 DEF m, w, h, im

(* The first state. *)
LEMMA InvInit == Init => DecoderInv
  <1>. SUFFICES ASSUME Init PROVE DecoderInv
    OBVIOUS
  <1>1. MemoryOK
    BY SameMemory, MemoryAssumptions, Memory!MemoryInvInit DEF Init, MemoryOK
  <1>2. SlotsOK(slots)
    <2>1. MetaOK(zeroMeta)
      BY Words DEF MetaOK, zeroMeta
    <2>. DEFINE first == [k \in Cells |-> Zero]
    <2>2. DOMAIN first = Cells
      OBVIOUS
    <2>. HIDE DEF first
    <2>3. slots = [ src |-> noFormat, meta |-> zeroMeta, frame |-> zeroFrame,
                    count |-> 0, loops |-> 0, dst |-> first ]
      BY DEF Init, first
    <2>. QED  BY <2>1, <2>2, <2>3 DEF SlotsOK
  <1>3. PixOK
    BY DEF Init, PixOK
  <1>4. FieldsOK
    <2>1. lastMeta.bytesWritten \in uint32
      BY Words DEF Init, zeroMeta
    <2>2. lastFrame.index = 0 /\ lastFrame.duration = duration(0)
      BY DEF Init, readFrameMeta, zeroFrame
    <2>. QED  BY <2>1, <2>2, DurationType DEF FieldsOK
  <1>5. CallOK
    <2>1. lastCall.op = "New" /\ lastCall.err = nilError
      BY DEF Init
    <2>. QED  BY <2>1, ErrorTypes
              DEF CallOK, ReadIsKnown, ProbeIsKnown, CountIsKnown
  <1>. QED  BY <1>1, <1>2, <1>3, <1>4, <1>5 DEF DecoderInv

(* Calls that leave the memory alone. *)
LEMMA MemoryKept == MemoryOK /\ UNCHANGED memory => MemoryOK'
  BY Zenon DEF MemoryOK, memory, Memory!MemoryInv, Memory!LayoutFits,
     Memory!LayoutIsCurrent

(* A slot that moved is still a slot. *)
LEMMA ReserveKeepsSlots ==
  ASSUME SlotsOK(slots), NEW dstBytes, NEW srcBytes, Reserve(dstBytes, srcBytes)
  PROVE  SlotsOK(slots)'
  <1>. DEFINE at(off, old, moved) ==
                IF currentLayout'[off] = currentLayout[off] THEN old ELSE moved
              junk  == [k \in Cells |-> Junk]
              src   == at("srcOff", slots.src, noFormat)
              meta  == at("metaOff", slots.meta, junkMeta)
              frame == at("frameMetaOff", slots.frame, junkFrame)
              count == at("countOutOff", slots.count, -1)
              loops == at("loopsOutOff", slots.loops, -1)
              dst   == at("dstOff", slots.dst, junk)
  <1>1. slots' = [ src |-> src, meta |-> meta, frame |-> frame, count |-> count,
                   loops |-> loops, dst |-> dst ]
    BY DEF Reserve
  <1>2. MetaOK(junkMeta)
    BY Words DEF MetaOK, junkMeta, zeroMeta
  <1>3. MetaOK(meta)
    BY <1>2 DEF SlotsOK
  <1>4. DOMAIN dst = Cells
    BY DEF SlotsOK
  <1>. HIDE DEF src, meta, frame, count, loops, dst
  <1>. QED  BY <1>1, <1>3, <1>4 DEF SlotsOK

(* What Reserve does to a decoder. *)
LEMMA ReserveCall ==
  ASSUME MemoryOK, SlotsOK(slots), NEW dstBytes \in Int, NEW srcBytes \in Int,
         Reserve(dstBytes, srcBytes)
  PROVE  /\ MemoryOK' /\ SlotsOK(slots)'
         /\ UNCHANGED <<pix, fields>>
         /\ returned("Reserve", noFormat, nilDst, 0, lastCall'.err, 0)
         /\ \/ /\ lastCall'.err = failure("invalid")
               /\ memSize' = memSize /\ currentLayout' = currentLayout
            \/ /\ lastCall'.err = nilError
               /\ currentLayout'.dstLen = raised(currentLayout.dstLen, dstBytes)
               /\ currentLayout'.srcLen = raised(currentLayout.srcLen, srcBytes)
  <1>1. /\ Mem!Reserve(dstBytes, srcBytes)
        /\ returned("Reserve", noFormat, nilDst, 0, failure(reserveErr'), 0)
        /\ UNCHANGED <<pix, fields>>
    BY DEF Reserve
  <1>2. lastCall'.err = failure(reserveErr')
    BY <1>1 DEF returned
  <1>3. /\ MemoryOK'
        /\ \/ /\ reserveErr' = "invalid"
              /\ memSize' = memSize /\ currentLayout' = currentLayout
           \/ /\ reserveErr' = "nil"
              /\ currentLayout'.dstLen = raised(currentLayout.dstLen, dstBytes)
              /\ currentLayout'.srcLen = raised(currentLayout.srcLen, srcBytes)
    BY <1>1, ReserveMemory
  <1>4. SlotsOK(slots)'
    BY ReserveKeepsSlots
  <1>. QED  BY <1>1, <1>2, <1>3, <1>4, ErrorNamed

(* Each call keeps the invariant: Reserve, *)
LEMMA InvReserve ==
  ASSUME DecoderInv, NEW dstBytes \in Int, NEW srcBytes \in Int,
         Reserve(dstBytes, srcBytes)
  PROVE  DecoderInv'
  <1>1. /\ MemoryOK' /\ SlotsOK(slots)'
        /\ UNCHANGED <<pix, fields>>
        /\ returned("Reserve", noFormat, nilDst, 0, lastCall'.err, 0)
        /\ lastCall'.err = failure("invalid") \/ lastCall'.err = nilError
    BY ReserveCall DEF DecoderInv
  <1>2. PixOK' /\ FieldsOK'
    BY <1>1 DEF DecoderInv, PixOK, FieldsOK, fields
  <1>3. lastCall'.op = "Reserve"
    BY <1>1 DEF returned
  <1>4. /\ lastCall'.err \in Errors
        /\ (lastCall'.err.name = "nil" => lastCall'.err = nilError)
    <2>1. "invalid" \in ErrorNames
      BY DEF ErrorNames
    <2>. QED  BY <1>1, <2>1, ErrorTypes, NilErrors
  <1>5. CallOK'
    BY <1>3, <1>4 DEF CallOK, ReadIsKnown, ProbeIsKnown, CountIsKnown
  <1>. QED  BY <1>1, <1>2, <1>5 DEF DecoderInv

(* Probe, whose report it records for the next call, *)
LEMMA InvProbe ==
  ASSUME DecoderInv, NEW src \in Sources, Probe(src)
  PROVE  DecoderInv'
  <1>. DEFINE im == Image[src]
  <1>1. /\ SlotsOK(slots)'
        /\ UNCHANGED <<memory, pix, lastFrame, lastMetadata>>
        /\ returned("Probe", src, nilDst, 0, lastCall'.err, 0)
        /\ \/ ReadCause(im, lastCall'.err) /\ lastMeta' = lastMeta
           \/ /\ lastCall'.err = nilError /\ Readable(im)
              /\ lastMeta' = writtenMeta(im, "ok", 0, zeroMeta)
    BY ProbeStep DEF DecoderInv
  <1>2. MemoryOK' /\ currentLayout' = currentLayout
    BY <1>1, MemoryKept DEF DecoderInv, memory
  <1>3. lastCall'.op = "Probe" /\ lastCall'.src = src
    BY <1>1 DEF returned
  <1>4. /\ lastCall'.err \in Errors
        /\ (lastCall'.err.name = "nil" => lastCall'.err = nilError)
    BY <1>1, ErrorTypes, NilErrors
  <1>5. PixOK'
    BY <1>1 DEF DecoderInv, PixOK
  <1>6. FieldsOK'
    <2>1. writtenMeta(im, "ok", 0, zeroMeta).bytesWritten = 0
      BY SMT DEF writtenMeta
    <2>. QED  BY <1>1, <2>1, Words DEF DecoderInv, FieldsOK
  <1>7. ReadCause(im, lastCall'.err) => lastCall'.err # nilError
    BY ErrorNamed
  <1>8. CallOK'
    <2>1. lastCall'.err = nilError
            => /\ src \in Sources /\ Readable(im)'
               /\ lastMeta' = writtenMeta(im, "ok", 0, zeroMeta)
      BY <1>1, <1>2, <1>7, Zenon DEF Readable
    <2>. QED  BY <1>3, <1>4, <2>1 DEF CallOK, ReadIsKnown, ProbeIsKnown, CountIsKnown
  <1>. QED  BY <1>1, <1>2, <1>5, <1>6, <1>8 DEF DecoderInv

(* FrameCount, likewise, *)
LEMMA InvFrameCount ==
  ASSUME DecoderInv, NEW src \in Sources, FrameCount(src)
  PROVE  DecoderInv'
  <1>. DEFINE im   == Image[src]
              good == \A j \in 1 .. Len(im.frames) : im.frames[j].configOK
  <1>1. /\ SlotsOK(slots)'
        /\ UNCHANGED <<memory, pix, fields>>
        /\ returned("FrameCount", src, nilDst, 0, lastCall'.err, lastCall'.value)
        /\ \/ ReadCause(im, lastCall'.err)
           \/ lastCall'.err = failure("ErrDecode")
           \/ /\ lastCall'.err = nilError /\ Readable(im) /\ good
              /\ lastCall'.value = Len(im.frames)
    BY FrameCountStep DEF DecoderInv
  <1>2. MemoryOK' /\ currentLayout' = currentLayout
    BY <1>1, MemoryKept DEF DecoderInv, memory
  <1>3. lastCall'.op = "FrameCount" /\ lastCall'.src = src
    BY <1>1 DEF returned
  <1>4. /\ lastCall'.err \in Errors
        /\ (lastCall'.err.name = "nil" => lastCall'.err = nilError)
    <2>1. "ErrDecode" \in ErrorNames
      BY DEF ErrorNames
    <2>. QED  BY <1>1, <2>1, ErrorTypes, NilErrors
  <1>5. PixOK' /\ FieldsOK'
    BY <1>1 DEF DecoderInv, PixOK, FieldsOK, fields
  <1>6. lastCall'.err = nilError
          => Readable(im) /\ good /\ lastCall'.value = Len(im.frames)
    BY <1>1, ErrorNamed
  <1>7. CallOK'
    <2>1. lastCall'.err = nilError
            => /\ src \in Sources /\ Readable(im)'
               /\ lastCall'.value = Len(im.frames) /\ good
      BY <1>2, <1>6, Zenon DEF Readable
    <2>. QED  BY <1>3, <1>4, <2>1 DEF CallOK, ReadIsKnown, ProbeIsKnown, CountIsKnown
  <1>. QED  BY <1>1, <1>2, <1>5, <1>7 DEF DecoderInv

(* LoopCount, *)
LEMMA InvLoopCount ==
  ASSUME DecoderInv, NEW src \in Sources, LoopCount(src)
  PROVE  DecoderInv'
  <1>1. /\ SlotsOK(slots)'
        /\ UNCHANGED <<memory, pix, fields>>
        /\ returned("LoopCount", src, nilDst, 0, lastCall'.err, lastCall'.value)
        /\ ReadCause(Image[src], lastCall'.err) \/ lastCall'.err = nilError
    BY LoopCountStep DEF DecoderInv
  <1>2. MemoryOK'
    BY <1>1, MemoryKept DEF DecoderInv
  <1>3. lastCall'.op = "LoopCount"
    BY <1>1 DEF returned
  <1>4. /\ lastCall'.err \in Errors
        /\ (lastCall'.err.name = "nil" => lastCall'.err = nilError)
    BY <1>1, ErrorTypes, NilErrors
  <1>5. PixOK' /\ FieldsOK'
    BY <1>1 DEF DecoderInv, PixOK, FieldsOK, fields
  <1>6. CallOK'
    BY <1>3, <1>4 DEF CallOK, ReadIsKnown, ProbeIsKnown, CountIsKnown
  <1>. QED  BY <1>1, <1>2, <1>5, <1>6 DEF DecoderInv

(* Metadata, *)
LEMMA InvMetadata ==
  ASSUME DecoderInv, NEW src \in Sources, Metadata(src)
  PROVE  DecoderInv'
  <1>1. /\ SlotsOK(slots)'
        /\ UNCHANGED <<memory, pix, lastMeta, lastFrame>>
        /\ returned("Metadata", src, nilDst, 0, lastCall'.err, 0)
        /\ \/ ReadCause(Image[src], lastCall'.err)
           \/ lastCall'.err = failure("ErrDecode")
           \/ lastCall'.err = nilError
    BY MetadataStep DEF DecoderInv
  <1>2. MemoryOK'
    BY <1>1, MemoryKept DEF DecoderInv
  <1>3. lastCall'.op = "Metadata"
    BY <1>1 DEF returned
  <1>4. /\ lastCall'.err \in Errors
        /\ (lastCall'.err.name = "nil" => lastCall'.err = nilError)
    <2>1. "ErrDecode" \in ErrorNames
      BY DEF ErrorNames
    <2>. QED  BY <1>1, <2>1, ErrorTypes, NilErrors
  <1>5. PixOK' /\ FieldsOK'
    BY <1>1 DEF DecoderInv, PixOK, FieldsOK
  <1>6. CallOK'
    BY <1>3, <1>4 DEF CallOK, ReadIsKnown, ProbeIsKnown, CountIsKnown
  <1>. QED  BY <1>1, <1>2, <1>5, <1>6 DEF DecoderInv

(* the frame decodes, *)
LEMMA InvFrame ==
  ASSUME DecoderInv, NEW src \in Sources, NEW d \in Destinations \cup {nilDst},
         NEW index \in Int, NEW op \in {"DecodeFrame", "DecodeRGBA"},
         decodeFrame(op, d, src, index)
  PROVE  DecoderInv'
  <1>. DEFINE im == Image[src]
  <1>1. /\ SlotsOK(slots)'
        /\ UNCHANGED <<memory, lastMetadata>>
        /\ returned(op, src, d, index, lastCall'.err, 0)
        /\ \/ /\ FrameCause(d, src, index, lastCall'.err)
              /\ UNCHANGED <<pix, fields>>
           \/ /\ lastCall'.err = nilError
              /\ d \in Destinations /\ index >= 0
              /\ Decodable(im, index)
              /\ pix' = [pix EXCEPT ![d] = frameDrawn(@, src, index)]
              /\ lastMeta' = decodedMeta(im)
              /\ lastFrame' = decodedFrame(src, index)
    <2>1. /\ SlotsOK(slots)'
          /\ UNCHANGED <<memory, lastMetadata>>
          /\ returned(op, src, d, index, lastCall'.err, 0)
          /\ FrameFails(d, src, index) \/ FrameSucceeds(d, src, index)
      BY FrameStep DEF DecoderInv
    <2>. QED  BY <2>1, Zenon DEF FrameFails, FrameSucceeds
  <1>2. MemoryOK'
    BY <1>1, MemoryKept DEF DecoderInv
  <1>3. lastCall'.op = op
    BY <1>1 DEF returned
  <1>4. /\ lastCall'.err \in Errors
        /\ (lastCall'.err.name = "nil" => lastCall'.err = nilError)
    <2>1. "ErrDecode" \in ErrorNames /\ "ErrBadImage" \in ErrorNames
      BY DEF ErrorNames
    <2>2. ASSUME NEW err, GuestCause(im, index, err)
          PROVE  err \in Errors /\ (err.name = "nil" => err = nilError)
      <3>1. CASE ReadCause(im, err)
        BY <3>1, ErrorTypes, NilErrors
      <3>2. CASE err = slotError(im)
        <4>1. err.name = "nil" => err = nilError
          BY <3>2, NilErrors DEF slotError
        <4>. QED  BY <3>2, <4>1, ErrorTypes
      <3>3. CASE err = failure("ErrDecode")
        BY <2>1, <3>3, ErrorTypes, NilErrors
      <3>. QED  BY <2>2, <3>1, <3>2, <3>3 DEF GuestCause
    <2>3. ASSUME NEW err, err = shapeError(d, im), Decodable(im, index),
                 d \in Destinations
          PROVE  err \in Errors /\ (err.name = "nil" => err = nilError)
      <3>1. err \in Errors
        BY <2>3, ShapeErrorTypes DEF DecoderInv, Decodable
      <3>2. err.name = "nil" => err = nilError
        BY <2>3, ErrorNamed, Zenon DEF shapeError, validateDestination
      <3>. QED  BY <3>1, <3>2
    <2>4. ASSUME NEW err, FrameCause(d, src, index, err)
          PROVE  err \in Errors /\ (err.name = "nil" => err = nilError)
      <3>1. CASE err = failure("ErrBadImage") \/ err = failure("ErrDecode")
        BY <2>1, <3>1, ErrorTypes, NilErrors
      <3>2. CASE GuestCause(im, index, err)
        BY <2>2, <3>2
      <3>3. CASE err = shapeError(d, im) /\ Decodable(im, index) /\ d \in Destinations
        BY <2>3, <3>3
      <3>. QED  BY <2>4, <3>1, <3>2, <3>3, Zenon DEF FrameCause
    <2>. QED  BY <1>1, <2>4, ErrorTypes
  <1>5. PixOK'
    BY <1>1 DEF DecoderInv, PixOK, frameDrawn
  <1>6. FieldsOK'
    <2>1. CASE UNCHANGED fields
      BY <2>1 DEF DecoderInv, FieldsOK, fields
    <2>2. CASE /\ index >= 0 /\ Decodable(im, index)
               /\ lastMeta' = decodedMeta(im)
               /\ lastFrame' = decodedFrame(src, index)
      <3>1. lastMeta'.bytesWritten \in uint32
        BY <2>2, DecodedMeta DEF DecoderInv, Decodable
      <3>. DEFINE flicks == im.frames[index + 1].flicks
      <3>2. index \in Nat /\ flicks \in Nat
        <4>1. index \in Nat /\ index < Len(im.frames)
          BY <2>2 DEF Decodable, frameReached
        <4>2. im.frames[index + 1] \in Frames
          BY <4>1, FrameFacts
        <4>. QED  BY <4>1, <4>2 DEF Frames
      <3>3. lastFrame'.index = index /\ lastFrame'.duration = duration(flicks)
        BY <2>2 DEF decodedFrame, readFrameMeta
      <3>. HIDE DEF flicks
      <3>. QED  BY <3>1, <3>2, <3>3, DurationType DEF FieldsOK
    <2>. QED  BY <1>1, <2>1, <2>2
  <1>7. CallOK'
    BY <1>3, <1>4 DEF CallOK, ReadIsKnown, ProbeIsKnown, CountIsKnown
  <1>. QED  BY <1>1, <1>2, <1>5, <1>6, <1>7 DEF DecoderInv

(* and the still decodes. *)
LEMMA InvStill ==
  ASSUME DecoderInv, NEW src \in Sources, NEW d \in Destinations \cup {nilDst},
         NEW fmt, NEW op \in {"DecodeNRGBA", "DecodeGray"},
         decodeStill(op, d, src, fmt)
  PROVE  DecoderInv'
  <1>. DEFINE im == Image[src]
  <1>1. /\ SlotsOK(slots)'
        /\ UNCHANGED <<memory, lastFrame, lastMetadata>>
        /\ returned(op, src, d, 0, lastCall'.err, 0)
        /\ \/ /\ StillCause(d, src, lastCall'.err)
              /\ UNCHANGED <<pix, fields>>
           \/ /\ lastCall'.err = nilError
              /\ d \in Destinations
              /\ Decodable(im, 0)
              /\ pix' = [pix EXCEPT ![d] = drawn(op, @, slots'.dst, im.width,
                                                 im.height)]
              /\ lastMeta' = shown(op, decodedMeta(im))
    <2>1. /\ SlotsOK(slots)'
          /\ UNCHANGED <<memory, lastFrame, lastMetadata>>
          /\ returned(op, src, d, 0, lastCall'.err, 0)
          /\ StillFails(d, src) \/ StillSucceeds(op, d, src, fmt)
      BY StillStep DEF DecoderInv
    <2>. QED  BY <2>1, Zenon DEF StillFails, StillSucceeds
  <1>2. MemoryOK'
    BY <1>1, MemoryKept DEF DecoderInv
  <1>3. lastCall'.op = op
    BY <1>1 DEF returned
  <1>4. /\ lastCall'.err \in Errors
        /\ (lastCall'.err.name = "nil" => lastCall'.err = nilError)
    <2>1. "ErrDecode" \in ErrorNames /\ "ErrBadImage" \in ErrorNames
      BY DEF ErrorNames
    <2>2. ASSUME NEW err, StillCause(d, src, err)
          PROVE  err \in Errors /\ (err.name = "nil" => err = nilError)
      <3>1. CASE err = failure("ErrBadImage") \/ err = failure("ErrDecode")
        BY <2>1, <3>1, ErrorTypes, NilErrors
      <3>2. CASE ReadCause(im, err)
        BY <3>2, ErrorTypes, NilErrors
      <3>3. CASE err = slotError(im)
        <4>1. err.name = "nil" => err = nilError
          BY <3>3, NilErrors DEF slotError
        <4>. QED  BY <3>3, <4>1, ErrorTypes
      <3>4. CASE err = shapeError(d, im) /\ Decodable(im, 0) /\ d \in Destinations
        <4>1. err \in Errors
          BY <3>4, ShapeErrorTypes DEF DecoderInv, Decodable
        <4>2. err.name = "nil" => err = nilError
          BY <3>4, ErrorNamed, Zenon DEF shapeError, validateDestination
        <4>. QED  BY <4>1, <4>2
      <3>. QED  BY <2>2, <3>1, <3>2, <3>3, <3>4, Zenon DEF StillCause, GuestCause
    <2>. QED  BY <1>1, <2>2, ErrorTypes
  <1>5. PixOK'
    <2>1. \A old, dst, w, h : DOMAIN drawn(op, old, dst, w, h) = Canvas
      BY DEF drawn, convertCanvas, copyCanvas
    <2>. QED  BY <1>1, <2>1 DEF DecoderInv, PixOK
  <1>6. FieldsOK'
    <2>1. CASE UNCHANGED fields
      BY <2>1 DEF DecoderInv, FieldsOK, fields
    <2>2. CASE Decodable(im, 0) /\ lastMeta' = shown(op, decodedMeta(im))
      <3>1. lastMeta'.bytesWritten \in uint32
        BY <2>2, DecodedMeta DEF DecoderInv, Decodable
      <3>. QED  BY <1>1, <3>1 DEF DecoderInv, FieldsOK
    <2>. QED  BY <1>1, <2>1, <2>2
  <1>7. CallOK'
    BY <1>3, <1>4 DEF CallOK, ReadIsKnown, ProbeIsKnown, CountIsKnown
  <1>. QED  BY <1>1, <1>2, <1>5, <1>6, <1>7 DEF DecoderInv

(* A stuttering step keeps it. *)
LEMMA InvKept == DecoderInv /\ UNCHANGED vars => DecoderInv'
  <1>1. ASSUME DecoderInv, UNCHANGED vars
        PROVE  DecoderInv'
    <2>1. UNCHANGED memory /\ slots' = slots /\ pix' = pix /\ lastMeta' = lastMeta
          /\ lastFrame' = lastFrame /\ lastCall' = lastCall
          /\ currentLayout' = currentLayout
      BY <1>1 DEF vars, memory, fields
    <2>2. MemoryOK'
      BY <1>1, <2>1, MemoryKept DEF DecoderInv
    <2>. QED  BY <1>1, <2>1, <2>2, Zenon
              DEF DecoderInv, SlotsOK, PixOK, FieldsOK, CallOK, ReadIsKnown,
                  ProbeIsKnown, CountIsKnown, Readable
  <1>. QED  BY <1>1

(* The calls of a decoder, one by one. *)
LEMMA Calls ==
  ASSUME Next
  PROVE  \/ \E dstBytes, srcBytes \in Requests : Reserve(dstBytes, srcBytes)
         \/ \E src \in Sources :
              \/ Probe(src) \/ FrameCount(src) \/ LoopCount(src) \/ Metadata(src)
              \/ \E d \in ofKind("RGBA") : decodeFrame("DecodeRGBA", d, src, 0)
              \/ \E d \in ofKind("RGBA"), index \in Indices :
                   decodeFrame("DecodeFrame", d, src, index)
              \/ \E d \in ofKind("NRGBA") :
                   decodeStill("DecodeNRGBA", d, src, RGBANonPremul)
              \/ \E d \in ofKind("Gray") :
                   decodeStill("DecodeGray", d, src, BGRAPremul)
  BY Zenon DEF Next, DecodeRGBA, DecodeFrame, DecodeNRGBA, DecodeGray

(* The arguments of a call. *)
LEMMA Arguments ==
  /\ Requests \subseteq Int /\ Indices \subseteq Int
  /\ \A kind : ofKind(kind) \subseteq Destinations \cup {nilDst}
  BY DecoderAssumption, ImagesAssumption DEF ofKind

LEMMA InvNext == DecoderInv /\ [Next]_vars => DecoderInv'
  <1>. SUFFICES ASSUME DecoderInv, [Next]_vars PROVE DecoderInv'
    OBVIOUS
  <1>1. ASSUME NEW dstBytes \in Requests, NEW srcBytes \in Requests,
               Reserve(dstBytes, srcBytes)
        PROVE  DecoderInv'
    BY <1>1, Arguments, InvReserve
  <1>2. ASSUME NEW src \in Sources,
               Probe(src) \/ FrameCount(src) \/ LoopCount(src) \/ Metadata(src)
        PROVE  DecoderInv'
    BY <1>2, InvProbe, InvFrameCount, InvLoopCount, InvMetadata
  <1>3. ASSUME NEW src \in Sources, NEW d \in ofKind("RGBA"),
               decodeFrame("DecodeRGBA", d, src, 0)
        PROVE  DecoderInv'
    BY <1>3, Arguments, InvFrame
  <1>4. ASSUME NEW src \in Sources, NEW d \in ofKind("RGBA"), NEW index \in Indices,
               decodeFrame("DecodeFrame", d, src, index)
        PROVE  DecoderInv'
    BY <1>4, Arguments, InvFrame
  <1>5. ASSUME NEW src \in Sources, NEW d \in ofKind("NRGBA"),
               decodeStill("DecodeNRGBA", d, src, RGBANonPremul)
        PROVE  DecoderInv'
    BY <1>5, Arguments, InvStill
  <1>6. ASSUME NEW src \in Sources, NEW d \in ofKind("Gray"),
               decodeStill("DecodeGray", d, src, BGRAPremul)
        PROVE  DecoderInv'
    BY <1>6, Arguments, InvStill
  <1>7. CASE Next
    BY <1>1, <1>2, <1>3, <1>4, <1>5, <1>6, <1>7, Calls
  <1>8. CASE UNCHANGED vars
    BY <1>8, InvKept
  <1>. QED  BY <1>7, <1>8

(* DecoderInv holds of every decoder, whatever is called: the memory's own invariant,
   the types of the slots, Pix and fields, and of the call just made that its error
   is well formed and that, when it was a Probe or a FrameCount and succeeded,
   lastMeta or the count is that of its source. *)
THEOREM DecoderInvariant == Spec => []DecoderInv
  BY InvInit, InvNext, PTL DEF Spec

----------------------------------------------------------------------------
(* What follows from the invariant. *)

(* Every variable of a decoder has its type, the guest's memory's among them. *)
LEMMA TypesOfDecoder == DecoderInv => TypeOK
  <1>. SUFFICES ASSUME DecoderInv PROVE TypeOK
    OBVIOUS
  <1>1. Memory!TypeOK
    BY MemoryAssumptions, Memory!TypesOfInv DEF DecoderInv, MemoryOK
  <1>2. Mem!TypeOK
    <2>1. /\ Mem!uint32 = Memory!uint32 /\ Mem!maxMemory = Memory!maxMemory
          /\ Mem!wasmPageSize = Memory!wasmPageSize
      BY DEF Mem!uint32, Memory!uint32, Mem!maxMemory, Memory!maxMemory,
             Mem!maxReservePages, Memory!maxReservePages, Mem!wasmPageSize,
             Memory!wasmPageSize
    <2>2. Mem!slotLayout = Memory!slotLayout
      BY <2>1 DEF Mem!slotLayout, Memory!slotLayout
    <2>3. Mem!Outcomes = Memory!Outcomes
      BY DEF Mem!Outcomes, Memory!Outcomes
    <2>. QED  BY <1>1, <2>1, <2>2, <2>3 DEF Mem!TypeOK, Memory!TypeOK
  <1>3. slots.meta.width \in uint32 /\ slots.meta.stride \in uint32
        /\ DOMAIN slots.dst = Cells
    BY DEF DecoderInv, SlotsOK, MetaOK
  <1>4. DOMAIN pix = Destinations /\ \A d \in Destinations : DOMAIN pix[d] = Canvas
    BY DEF DecoderInv, PixOK
  <1>5. /\ lastMeta.bytesWritten \in uint32
        /\ lastFrame.index \in Nat /\ lastFrame.duration \in Int
    BY DEF DecoderInv, FieldsOK
  <1>6. lastCall.err \in Errors
    BY DEF DecoderInv, CallOK
  <1>. QED  BY <1>2, <1>3, <1>4, <1>5, <1>6 DEF TypeOK

(* Type correctness of a decoder with any slots. *)
THEOREM DecoderTypeCorrect == Spec => []TypeOK
  BY DecoderInvariant, TypesOfDecoder, PTL

(* One call that fails: its error is not the nil error, and it changed nothing. *)
LEMMA FailureKeeps ==
  ASSUME DecoderInv, Next, lastCall'.err.name # "nil"
  PROVE  UNCHANGED <<pix, fields>>
  <1>1. ASSUME NEW dstBytes \in Requests, NEW srcBytes \in Requests,
               Reserve(dstBytes, srcBytes)
        PROVE  UNCHANGED <<pix, fields>>
    BY <1>1 DEF Reserve
  <1>2. ASSUME NEW src \in Sources, Probe(src)
        PROVE  UNCHANGED <<pix, fields>>
    <2>1. /\ UNCHANGED <<pix, lastFrame, lastMetadata>>
          /\ lastMeta' = lastMeta \/ lastCall'.err = nilError
      BY <1>2, ProbeStep DEF DecoderInv
    <2>. QED  BY <2>1, ErrorNamed DEF fields
  <1>3. ASSUME NEW src \in Sources, FrameCount(src) \/ LoopCount(src)
        PROVE  UNCHANGED <<pix, fields>>
    BY <1>3 DEF FrameCount, LoopCount
  <1>4. ASSUME NEW src \in Sources, Metadata(src)
        PROVE  UNCHANGED <<pix, fields>>
    <2>1. /\ UNCHANGED <<pix, lastMeta, lastFrame>>
          /\ lastMetadata' = lastMetadata \/ lastCall'.err = nilError
      BY <1>4, MetadataStep DEF DecoderInv
    <2>. QED  BY <2>1, ErrorNamed DEF fields
  <1>5. ASSUME NEW op, NEW src \in Sources, NEW d \in Destinations \cup {nilDst},
               NEW index \in Int, decodeFrame(op, d, src, index)
        PROVE  UNCHANGED <<pix, fields>>
    <2>1. FrameFails(d, src, index) \/ FrameSucceeds(d, src, index)
      BY <1>5, FrameStep DEF DecoderInv
    <2>2. lastCall'.err # nilError
      BY ErrorNamed
    <2>. QED  BY <2>1, <2>2, Zenon DEF FrameFails, FrameSucceeds
  <1>6. ASSUME NEW op, NEW src \in Sources, NEW d \in Destinations \cup {nilDst},
               NEW fmt, decodeStill(op, d, src, fmt)
        PROVE  UNCHANGED <<pix, fields>>
    <2>1. StillFails(d, src) \/ StillSucceeds(op, d, src, fmt)
      BY <1>6, StillStep DEF DecoderInv
    <2>2. lastCall'.err # nilError
      BY ErrorNamed
    <2>. QED  BY <2>1, <2>2, Zenon DEF StillFails, StillSucceeds
  <1>. QED
    <2>1. 0 \in Int
      OBVIOUS
    <2>2. ASSUME NEW src \in Sources,
                 \/ Probe(src) \/ FrameCount(src) \/ LoopCount(src) \/ Metadata(src)
          PROVE  UNCHANGED <<pix, fields>>
      BY <1>2, <1>3, <1>4, <2>2
    <2>3. ASSUME NEW src \in Sources, NEW d \in ofKind("RGBA"),
                 decodeFrame("DecodeRGBA", d, src, 0)
          PROVE  UNCHANGED <<pix, fields>>
      BY <1>5, <2>1, <2>3, Arguments
    <2>4. ASSUME NEW src \in Sources, NEW d \in ofKind("RGBA"), NEW index \in Indices,
                 decodeFrame("DecodeFrame", d, src, index)
          PROVE  UNCHANGED <<pix, fields>>
      BY <1>5, <2>4, Arguments
    <2>5. ASSUME NEW src \in Sources, NEW d \in ofKind("NRGBA"),
                 decodeStill("DecodeNRGBA", d, src, RGBANonPremul)
          PROVE  UNCHANGED <<pix, fields>>
      BY <1>6, <2>5, Arguments
    <2>6. ASSUME NEW src \in Sources, NEW d \in ofKind("Gray"),
                 decodeStill("DecodeGray", d, src, BGRAPremul)
          PROVE  UNCHANGED <<pix, fields>>
      BY <1>6, <2>6, Arguments
    <2>. QED  BY <1>1, <2>2, <2>3, <2>4, <2>5, <2>6, Calls

(* A failed call leaves every destination's pixels and everything earlier calls
   returned as they were: each decode sets them only once its last check has
   passed. *)
THEOREM FailureStaysInvisible == Spec => FailureChangesNothingReturned
  <1>1. DecoderInv /\ [Next]_vars
          => [lastCall'.err.name # "nil" => UNCHANGED <<pix, fields>>]_vars
    BY FailureKeeps
  <1>. QED  BY <1>1, DecoderInvariant, PTL DEF Spec, FailureChangesNothingReturned

(* The advice of a dst slot that is too small: its MinBytes is what the canvas
   needs, when a uint32 counts it. *)
LEMMA SlotAdvice ==
  ASSUME NEW src \in Sources, MemoryOK,
         slotCode(Image[src], currentLayout.dstLen) = "dstTooSmall",
         Image[src].width * Image[src].height \in 1 .. Word \div 4 - 1
  PROVE  LET im == Image[src]
         IN  /\ slotError(im).minBytes > currentLayout.dstLen
             /\ slotCode(im, slotError(im).minBytes) = "ok"
  <1>. DEFINE im == Image[src]
              w  == im.width
              h  == im.height
              n  == w * h
  <1>1. w \in Nat /\ h \in Nat /\ configCode(im) \in Codes \ {"dstTooSmall"}
    BY SourceFacts, CodesOfExports, Words
  <1>2. n \in Nat /\ n > 0 /\ 4 * n < Word /\ n < Word
    BY Words
  <1>3. canvasWidth(im) = w /\ canvasHeight(im) = h
    BY <1>2 DEF representable, canvasWidth, canvasHeight
  <1>4. w > 0 /\ h > 0 /\ w <= n /\ 4 * w * h = 4 * n /\ (4 * w) * h = 4 * n
    <2>. HIDE DEF w, h
    <2>. QED  BY <1>1, <1>2, Products DEF n
  <1>5. need(im) = 4 * n
    BY <1>3, <1>4 DEF need
  <1>6. slotError(im).minBytes = U32(U32(4 * w) * h)
    BY <1>3, SMT DEF slotError, dstTooSmall
  <1>7. currentLayout.dstLen \in Nat
    BY Capacities
  <1>8. configCode(im) = "ok" /\ (need(im) = 0 \/ need(im) > currentLayout.dstLen)
    BY <1>1, SMT DEF slotCode
  <1>. HIDE DEF w, h, n, im
  <1>9. U32(4 * w) = 4 * w /\ U32(4 * n) = 4 * n
    <2>1. 4 * w \in Nat /\ 4 * w < Word /\ 4 * n \in Nat
      BY <1>1, <1>2, <1>4, Words
    <2>. QED  BY <1>2, <2>1, Words
  <1>10. slotError(im).minBytes = 4 * n
    BY <1>4, <1>6, <1>9
  <1>11. 4 * n > currentLayout.dstLen
    BY <1>2, <1>5, <1>7, <1>8
  <1>12. slotCode(im, 4 * n) = "ok"
    BY <1>2, <1>5, <1>8 DEF slotCode
  <1>. QED  BY <1>10, <1>11, <1>12 DEF im

(* A destination of the canvas's size fits when its Stride holds a row and its Pix
   the rows. *)
LEMMA FittingShape ==
  \A shape \in Shapes, w, h \in Nat :
    LET row   == w * bytesPerPixel[shape.kind]
        total == shape.stride * h
    IN  /\ w > 0 /\ h > 0 /\ shape.width = w /\ shape.height = h
        /\ shape.pixLen # 0 /\ shape.atOrigin /\ row * h < Word
        /\ shape.stride >= row /\ total < Word /\ shape.pixLen >= total
        => validateDestination(shape, w, h) = nilError
  <1>. TAKE shape \in Shapes, w \in Nat, h \in Nat
  <1>. DEFINE row   == w * bytesPerPixel[shape.kind]
              total == shape.stride * h
  <1>1. w > 0 /\ h > 0 =>
          LET fits == /\ shape.width = w /\ shape.height = h
                      /\ shape.pixLen # 0 /\ shape.atOrigin /\ row * h < Word
          IN  fits /\ shape.stride >= row /\ total < Word /\ shape.pixLen >= total
                => validateDestination(shape, w, h) = nilError
    BY ShapeErrors
  <1>. QED  BY <1>1, Zenon

\* A destination that is refused as too small is not with what its error asks for.
refits(shape, w, h) ==
  LET err == validateDestination(shape, w, h)
  IN  err.name = "ErrDstTooSmall"
        => validateDestination([shape EXCEPT !.stride = err.stride,
                                             !.pixLen = err.minBytes], w, h)
             = nilError

(* The advice of a destination that is too small: with the error's Stride and
   MinBytes it fits. *)
LEMMA ShapeAdvice ==
  ASSUME NEW shape \in Shapes, NEW w \in Nat, NEW h \in Nat, w > 0, h > 0
  PROVE  refits(shape, w, h)
  <1>. SUFFICES ASSUME validateDestination(shape, w, h).name = "ErrDstTooSmall"
                PROVE  LET err == validateDestination(shape, w, h)
                       IN  validateDestination([shape EXCEPT !.stride = err.stride,
                                                             !.pixLen = err.minBytes],
                                               w, h) = nilError
    BY Zenon DEF refits
  <1>. DEFINE row   == w * bytesPerPixel[shape.kind]
              tight == row * h
              total == shape.stride * h
              err   == validateDestination(shape, w, h)
              fits  == /\ shape.width = w /\ shape.height = h
                       /\ shape.pixLen # 0 /\ shape.atOrigin /\ tight < Word
  <1>1. /\ row \in Nat /\ w <= row
        /\ tight \in Nat /\ row <= tight /\ tight > 0
        /\ total \in Nat /\ shape.stride \in Nat /\ shape.stride <= total
        /\ ~ fits => err = failure("ErrBadImage")
        /\ fits /\ shape.stride < row => err = dstTooSmall(tight, w, h, row)
        /\ fits /\ shape.stride >= row /\ total >= Word
             => err = failure("ErrBadImage")
        /\ fits /\ shape.stride >= row /\ total < Word /\ shape.pixLen < total
             => err = dstTooSmall(total, w, h, shape.stride)
        /\ fits /\ shape.stride >= row /\ total < Word /\ shape.pixLen >= total
             => err = nilError
    BY ShapeErrors
  <1>2. shape.pixLen \in Nat /\ Word \in Nat
    BY Words DEF Shapes
  <1>3. /\ err # failure("ErrBadImage") /\ err # nilError
        /\ \A b, x, y, s : dstTooSmall(b, x, y, s).minBytes = b
                           /\ dstTooSmall(b, x, y, s).stride = s
    <2>1. \A b, x, y, s : dstTooSmall(b, x, y, s).minBytes = b
                          /\ dstTooSmall(b, x, y, s).stride = s
      BY SMT DEF dstTooSmall
    <2>. HIDE DEF err
    <2>2. err.name = "ErrDstTooSmall"
      BY DEF err
    <2>. QED  BY <2>1, <2>2, ErrorNamed
  <1>4. fits
    BY <1>1, <1>3
  <1>. DEFINE refit(s, b) ==
                validateDestination([shape EXCEPT !.stride = s, !.pixLen = b], w, h)
  <1>5. ASSUME NEW s \in Nat, NEW b \in Nat, s >= row, s * h = b, b < Word, b > 0
        PROVE  refit(s, b) = nilError
    <2>. DEFINE new == [shape EXCEPT !.stride = s, !.pixLen = b]
    <2>1. /\ new \in Shapes
          /\ new.width = shape.width /\ new.height = shape.height
          /\ new.kind = shape.kind /\ new.atOrigin = shape.atOrigin
          /\ new.stride = s /\ new.pixLen = b
      BY DEF Shapes
    <2>. HIDE DEF new
    <2>. DEFINE row2 == w * bytesPerPixel[new.kind]
                tight2 == row2 * h
                total2 == new.stride * h
                err2   == validateDestination(new, w, h)
                fits2  == /\ new.width = w /\ new.height = h
                          /\ new.pixLen # 0 /\ new.atOrigin /\ tight2 < Word
    <2>2. fits2 /\ new.stride >= row2 /\ total2 < Word /\ new.pixLen >= total2
            => err2 = nilError
      BY <2>1, FittingShape
    <2>3. row2 = row /\ tight2 = tight /\ total2 = b
      BY <1>5, <2>1
    <2>. HIDE DEF row, tight, row2, tight2, total2, err2
    <2>4. fits2 /\ new.stride >= row2 /\ total2 < Word /\ new.pixLen >= total2
      BY <1>1, <1>2, <1>4, <1>5, <2>1, <2>3
    <2>. QED  BY <2>2, <2>4 DEF err2, new
  <1>6. \A s, b \in Nat :
          s >= row /\ s * h = b /\ b < Word /\ b > 0 => refit(s, b) = nilError
    <2>. HIDE DEF refit
    <2>. QED  BY <1>5
  <1>7. refit(err.stride, err.minBytes) = nilError
    <2>. HIDE DEF err, row, refit
    <2>1. CASE shape.stride < row
      <3>1. err.minBytes = tight /\ err.stride = row
        BY <1>1, <1>3, <1>4, <2>1
      <3>2. row >= row /\ tight < Word
        BY <1>1, <1>4
      <3>3. refit(row, tight) = nilError
        BY <1>1, <1>6, <3>2
      <3>. HIDE DEF tight
      <3>. QED  BY <3>1, <3>3
    <2>2. CASE shape.stride >= row
      <3>1. total < Word /\ shape.pixLen < total
        <4>. HIDE DEF total, tight
        <4>. QED  BY <1>1, <1>2, <1>3, <1>4, <2>2
      <3>2. err.minBytes = total /\ err.stride = shape.stride
        <4>. HIDE DEF total, tight
        <4>. QED  BY <1>1, <1>3, <1>4, <2>2, <3>1
      <3>3. total > 0
        <4>. HIDE DEF total, tight
        <4>. QED  BY <1>1, <1>2, <3>1
      <3>4. refit(shape.stride, total) = nilError
        BY <1>1, <1>6, <2>2, <3>1, <3>3
      <3>. HIDE DEF total
      <3>. QED  BY <3>2, <3>4
    <2>. QED
      <3>. HIDE DEF tight, total
      <3>. QED  BY <1>1, <2>1, <2>2
  <1>. QED  BY <1>7

\* What RetryAdvice says of a call's arguments and its error.
Advice(src, d, err) ==
  LET im == Image[src]
  IN  err.name = "ErrDstTooSmall" =>
        /\ slotCode(im, currentLayout.dstLen) = "dstTooSmall"
           /\ im.width * im.height \in 1 .. Word \div 4 - 1
             => /\ err.minBytes > currentLayout.dstLen
                /\ slotCode(im, err.minBytes) = "ok"
        /\ slotCode(im, currentLayout.dstLen) # "dstTooSmall"
             => validateDestination([Dest[d] EXCEPT !.stride = err.stride,
                                                    !.pixLen = err.minBytes],
                                    im.width, im.height) = nilError

(* Only the dst slot and the shape of a destination give advice, and both keep
   it. *)
LEMMA CausesAdvise ==
  ASSUME MemoryOK, NEW src \in Sources, NEW d, NEW err,
         LET im == Image[src]
         IN  \/ err.name # "ErrDstTooSmall"
             \/ slotCode(im, currentLayout.dstLen) = "dstTooSmall" /\ err = slotError(im)
             \/ CanvasFits(im) /\ d \in Destinations /\ err = shapeError(d, im)
  PROVE  Advice(src, d, err)
  <1>. DEFINE im == Image[src]
  <1>1. CASE err.name # "ErrDstTooSmall"
    BY <1>1 DEF Advice
  <1>2. CASE slotCode(im, currentLayout.dstLen) = "dstTooSmall" /\ err = slotError(im)
    <2>1. im.width * im.height \in 1 .. Word \div 4 - 1
            => /\ err.minBytes > currentLayout.dstLen
               /\ slotCode(im, err.minBytes) = "ok"
      BY <1>2, SlotAdvice
    <2>. QED  BY <1>2, <2>1 DEF Advice
  <1>3. CASE CanvasFits(im) /\ d \in Destinations /\ err = shapeError(d, im)
    <2>1. slotCode(im, currentLayout.dstLen) = "ok"
      BY <1>3 DEF CanvasFits
    <2>2. /\ im.width \in Nat /\ im.height \in Nat
          /\ im.width > 0 /\ im.height > 0
      <3>1. currentLayout.dstLen \in Nat /\ currentLayout.dstLen <= maxMemory
        BY Capacities
      <3>. QED  BY <2>1, <3>1, Geometry
    <2>3. Dest[d] \in Shapes
      BY <1>3, ImagesAssumption
    <2>4. err.name = "ErrDstTooSmall"
            => validateDestination([Dest[d] EXCEPT !.stride = err.stride,
                                                   !.pixLen = err.minBytes],
                                   im.width, im.height) = nilError
      <3>. DEFINE e == validateDestination(Dest[d], im.width, im.height)
      <3>0. refits(Dest[d], im.width, im.height)
        BY <2>2, <2>3, ShapeAdvice
      <3>1. e.name = "ErrDstTooSmall"
              => validateDestination([Dest[d] EXCEPT !.stride = e.stride,
                                                     !.pixLen = e.minBytes],
                                     im.width, im.height) = nilError
        BY <3>0, Zenon DEF refits
      <3>2. err = e
        BY <1>3 DEF shapeError
      <3>. HIDE DEF e
      <3>. QED  BY <3>1, <3>2
    <2>. QED  BY <2>1, <2>4 DEF Advice
  <1>. QED  BY <1>1, <1>2, <1>3

(* The errors of the decodes. *)
LEMMA GuestAdvice ==
  ASSUME MemoryOK, NEW src \in Sources, NEW d, NEW i, NEW err,
         GuestCause(Image[src], i, err)
  PROVE  Advice(src, d, err)
  <1>. DEFINE im == Image[src]
  <1>1. CASE ReadCause(im, err) \/ err = failure("ErrDecode")
    <2>1. err.name # "ErrDstTooSmall"
      BY <1>1, ErrorNamed
    <2>. QED  BY <2>1, CausesAdvise
  <1>2. CASE slotCode(im, currentLayout.dstLen) = "dstTooSmall" /\ err = slotError(im)
    BY <1>2, CausesAdvise
  <1>. QED  BY <1>1, <1>2, Zenon DEF GuestCause

LEMMA FrameAdvice ==
  ASSUME MemoryOK, NEW src \in Sources, NEW d, NEW index,
         FrameFails(d, src, index) \/ FrameSucceeds(d, src, index)
  PROVE  Advice(src, d, lastCall'.err)
  <1>. DEFINE im  == Image[src]
              err == lastCall'.err
  <1>1. \/ err = nilError \/ err = failure("ErrBadImage") \/ err = failure("ErrDecode")
        \/ GuestCause(im, index, err)
        \/ CanvasFits(im) /\ d \in Destinations /\ err = shapeError(d, im)
    BY Zenon DEF FrameFails, FrameSucceeds, FrameCause, Decodable
  <1>. HIDE DEF err
  <1>2. CASE err = nilError \/ err = failure("ErrBadImage") \/ err = failure("ErrDecode")
    <2>1. err.name # "ErrDstTooSmall"
      BY <1>2, ErrorNamed
    <2>. QED  BY <2>1, CausesAdvise DEF err
  <1>3. CASE GuestCause(im, index, err)
    BY <1>3, GuestAdvice DEF err
  <1>4. CASE CanvasFits(im) /\ d \in Destinations /\ err = shapeError(d, im)
    BY <1>4, CausesAdvise DEF err
  <1>. QED  BY <1>1, <1>2, <1>3, <1>4 DEF err

LEMMA StillAdvice ==
  ASSUME MemoryOK, NEW src \in Sources, NEW d, NEW op, NEW fmt,
         StillFails(d, src) \/ StillSucceeds(op, d, src, fmt)
  PROVE  Advice(src, d, lastCall'.err)
  <1>. DEFINE im  == Image[src]
              err == lastCall'.err
  <1>1. \/ err = nilError \/ err = failure("ErrBadImage")
        \/ GuestCause(im, 0, err)
        \/ CanvasFits(im) /\ d \in Destinations /\ err = shapeError(d, im)
    BY Zenon DEF StillFails, StillSucceeds, StillCause, Decodable
  <1>. HIDE DEF err
  <1>2. CASE err = nilError \/ err = failure("ErrBadImage")
    <2>1. err.name # "ErrDstTooSmall"
      BY <1>2, ErrorNamed
    <2>. QED  BY <2>1, CausesAdvise DEF err
  <1>3. CASE GuestCause(im, 0, err)
    BY <1>3, GuestAdvice DEF err
  <1>4. CASE CanvasFits(im) /\ d \in Destinations /\ err = shapeError(d, im)
    BY <1>4, CausesAdvise DEF err
  <1>. QED  BY <1>1, <1>2, <1>3, <1>4 DEF err

(* Every call ends with an error whose advice holds. *)
LEMMA CallAdvice == DecoderInv /\ Next => RetryAdvice'
  <1>. SUFFICES ASSUME DecoderInv, Next PROVE RetryAdvice'
    OBVIOUS
  <1>0. MemoryOK /\ SlotsOK(slots)
    BY DEF DecoderInv
  <1>1. ASSUME lastCall'.err.name # "ErrDstTooSmall"
        PROVE  RetryAdvice'
    BY <1>1 DEF RetryAdvice, slotWasTooSmall
  <1>2. ASSUME NEW op, NEW src \in Sources, NEW d, NEW index,
               returned(op, src, d, index, lastCall'.err, 0),
               UNCHANGED memory, Advice(src, d, lastCall'.err)
        PROVE  RetryAdvice'
    <2>1. lastCall'.src = src /\ lastCall'.dst = d /\ currentLayout' = currentLayout
      BY <1>2 DEF returned, memory
    <2>. QED  BY <1>2, <2>1, Zenon DEF RetryAdvice, slotWasTooSmall, Advice
  <1>3. ASSUME NEW dstBytes \in Requests, NEW srcBytes \in Requests,
               Reserve(dstBytes, srcBytes)
        PROVE  RetryAdvice'
    <2>1. lastCall'.err = failure("invalid") \/ lastCall'.err = nilError
      BY <1>0, <1>3, Arguments, ReserveCall
    <2>. QED  BY <1>1, <2>1, ErrorNamed
  <1>4. ASSUME NEW src \in Sources,
               Probe(src) \/ FrameCount(src) \/ LoopCount(src) \/ Metadata(src)
        PROVE  RetryAdvice'
    <2>1. \/ ReadCause(Image[src], lastCall'.err)
          \/ lastCall'.err = failure("ErrDecode")
          \/ lastCall'.err = nilError
      BY <1>0, <1>4, ProbeStep, FrameCountStep, LoopCountStep, MetadataStep
    <2>. QED  BY <1>1, <2>1, ErrorNamed
  <1>5. ASSUME NEW op, NEW src \in Sources, NEW d \in Destinations \cup {nilDst},
               NEW index \in Int, decodeFrame(op, d, src, index)
        PROVE  RetryAdvice'
    <2>1. /\ UNCHANGED <<memory, lastMetadata>>
          /\ returned(op, src, d, index, lastCall'.err, 0)
          /\ FrameFails(d, src, index) \/ FrameSucceeds(d, src, index)
      BY <1>0, <1>5, FrameStep
    <2>. QED  BY <1>0, <1>2, <2>1, FrameAdvice
  <1>6. ASSUME NEW op, NEW src \in Sources, NEW d \in Destinations \cup {nilDst},
               NEW fmt, decodeStill(op, d, src, fmt)
        PROVE  RetryAdvice'
    <2>1. /\ UNCHANGED <<memory, lastFrame, lastMetadata>>
          /\ returned(op, src, d, 0, lastCall'.err, 0)
          /\ StillFails(d, src) \/ StillSucceeds(op, d, src, fmt)
      BY <1>0, <1>6, StillStep
    <2>. QED  BY <1>0, <1>2, <2>1, StillAdvice
  <1>7. ASSUME NEW src \in Sources, NEW d \in ofKind("RGBA"),
               decodeFrame("DecodeRGBA", d, src, 0)
        PROVE  RetryAdvice'
    <2>1. 0 \in Int
      OBVIOUS
    <2>. QED  BY <1>5, <1>7, <2>1, Arguments
  <1>8. ASSUME NEW src \in Sources, NEW d \in ofKind("RGBA"), NEW index \in Indices,
               decodeFrame("DecodeFrame", d, src, index)
        PROVE  RetryAdvice'
    BY <1>5, <1>8, Arguments
  <1>9. ASSUME NEW src \in Sources, NEW d \in ofKind("NRGBA"),
               decodeStill("DecodeNRGBA", d, src, RGBANonPremul)
        PROVE  RetryAdvice'
    BY <1>6, <1>9, Arguments
  <1>10. ASSUME NEW src \in Sources, NEW d \in ofKind("Gray"),
                decodeStill("DecodeGray", d, src, BGRAPremul)
         PROVE  RetryAdvice'
    BY <1>6, <1>10, Arguments
  <1>. QED  BY <1>3, <1>4, <1>7, <1>8, <1>9, <1>10, Calls

(* Whoever follows the advice of a DstTooSmallError is not refused for the same
   reason again, for every canvas whose bytes a uint32 counts. *)
THEOREM RetryAdviceHolds == Spec => []RetryAdvice
  <1>1. Init => RetryAdvice
    <2>1. Init => lastCall.err.name = "nil"
      BY ErrorNamed DEF Init
    <2>. QED  BY <2>1 DEF RetryAdvice, slotWasTooSmall
  <1>2. DecoderInv /\ RetryAdvice /\ [Next]_vars => RetryAdvice'
    <2>1. RetryAdvice /\ UNCHANGED vars => RetryAdvice'
      BY Zenon DEF RetryAdvice, slotWasTooSmall, vars, memory
    <2>. QED  BY <2>1, CallAdvice
  <1>. QED  BY <1>1, <1>2, DecoderInvariant, PTL DEF Spec

----------------------------------------------------------------------------
(* What one call says of the next. *)

FrameOps == {"DecodeFrame", "DecodeRGBA"}
StillOps == {"DecodeNRGBA", "DecodeGray"}

(* A call is one that has no destination, a frame decode or a still decode. *)
LEMMA KindsOfCall ==
  ASSUME DecoderInv, Next
  PROVE  \/ lastCall'.dst = nilDst /\ lastCall'.op \notin FrameOps \cup StillOps
         \/ \E src \in Sources, d \in Destinations \cup {nilDst}, index \in Int,
               op \in FrameOps :
              /\ returned(op, src, d, index, lastCall'.err, 0)
              /\ FrameFails(d, src, index) \/ FrameSucceeds(d, src, index)
         \/ \E src \in Sources, d \in Destinations \cup {nilDst}, op \in StillOps :
              /\ returned(op, src, d, 0, lastCall'.err, 0)
              /\ StillFails(d, src) \/ \E fmt : StillSucceeds(op, d, src, fmt)
  <1>. DEFINE none  == lastCall'.dst = nilDst /\ lastCall'.op \notin FrameOps \cup StillOps
              frame == \E src \in Sources, d \in Destinations \cup {nilDst}, index \in Int,
                          op \in FrameOps :
                         /\ returned(op, src, d, index, lastCall'.err, 0)
                         /\ FrameFails(d, src, index) \/ FrameSucceeds(d, src, index)
              still == \E src \in Sources, d \in Destinations \cup {nilDst},
                          op \in StillOps :
                         /\ returned(op, src, d, 0, lastCall'.err, 0)
                         /\ StillFails(d, src) \/ \E fmt : StillSucceeds(op, d, src, fmt)
  <1>0. MemoryOK /\ SlotsOK(slots)
    BY DEF DecoderInv
  <1>1. ASSUME NEW dstBytes \in Requests, NEW srcBytes \in Requests,
               Reserve(dstBytes, srcBytes)
        PROVE  none
    BY <1>1 DEF Reserve, returned, FrameOps, StillOps
  <1>2. ASSUME NEW src \in Sources,
               Probe(src) \/ FrameCount(src) \/ LoopCount(src) \/ Metadata(src)
        PROVE  none
    <2>1. \/ returned("Probe", src, nilDst, 0, lastCall'.err, 0)
          \/ returned("FrameCount", src, nilDst, 0, lastCall'.err, lastCall'.value)
          \/ returned("LoopCount", src, nilDst, 0, lastCall'.err, lastCall'.value)
          \/ returned("Metadata", src, nilDst, 0, lastCall'.err, 0)
      BY <1>0, <1>2, ProbeStep, FrameCountStep, LoopCountStep, MetadataStep
    <2>. QED  BY <2>1 DEF returned, FrameOps, StillOps
  <1>3. ASSUME NEW src \in Sources, NEW d \in Destinations \cup {nilDst},
               NEW index \in Int, NEW op \in FrameOps, decodeFrame(op, d, src, index)
        PROVE  frame
    <2>1. /\ returned(op, src, d, index, lastCall'.err, 0)
          /\ FrameFails(d, src, index) \/ FrameSucceeds(d, src, index)
      BY <1>0, <1>3, FrameStep
    <2>. QED  BY <2>1, Zenon
  <1>4. ASSUME NEW src \in Sources, NEW d \in Destinations \cup {nilDst},
               NEW op \in StillOps, NEW fmt, decodeStill(op, d, src, fmt)
        PROVE  still
    <2>1. /\ returned(op, src, d, 0, lastCall'.err, 0)
          /\ StillFails(d, src) \/ StillSucceeds(op, d, src, fmt)
      BY <1>0, <1>4, StillStep
    <2>. QED  BY <2>1, Zenon
  <1>. HIDE DEF none, frame, still
  <1>5. ASSUME NEW src \in Sources, NEW d \in ofKind("RGBA"),
               decodeFrame("DecodeRGBA", d, src, 0)
        PROVE  frame
    <2>1. 0 \in Int /\ "DecodeRGBA" \in FrameOps
      BY DEF FrameOps
    <2>. QED  BY <1>3, <1>5, <2>1, Arguments
  <1>6. ASSUME NEW src \in Sources, NEW d \in ofKind("RGBA"), NEW index \in Indices,
               decodeFrame("DecodeFrame", d, src, index)
        PROVE  frame
    <2>1. "DecodeFrame" \in FrameOps
      BY DEF FrameOps
    <2>. QED  BY <1>3, <1>6, <2>1, Arguments
  <1>7. ASSUME NEW src \in Sources, NEW d \in ofKind("NRGBA"),
               decodeStill("DecodeNRGBA", d, src, RGBANonPremul)
        PROVE  still
    <2>1. "DecodeNRGBA" \in StillOps
      BY DEF StillOps
    <2>. QED  BY <1>4, <1>7, <2>1, Arguments
  <1>8. ASSUME NEW src \in Sources, NEW d \in ofKind("Gray"),
               decodeStill("DecodeGray", d, src, BGRAPremul)
        PROVE  still
    <2>1. "DecodeGray" \in StillOps
      BY DEF StillOps
    <2>. QED  BY <1>4, <1>8, <2>1, Arguments
  <1>9. none \/ frame \/ still
    BY <1>1, <1>2, <1>5, <1>6, <1>7, <1>8, Calls
  <1>. QED  BY <1>9 DEF none, frame, still

(* A source that could be read still can be. *)
LEMMA ReadableHasNoCause ==
  ASSUME NEW src \in Sources, MemoryOK, Readable(Image[src]), NEW err
  PROVE  ~ ReadCause(Image[src], err)
  <1>1. Image[src].len \in Nat /\ currentLayout.srcLen \in Nat
    BY SourceFacts, Capacities
  <1>. QED  BY <1>1 DEF Readable, ReadCause

(* What validateDestination can answer. *)
LEMMA ShapeAnswers ==
  \A shape, w, h :
    LET err == validateDestination(shape, w, h)
    IN  \/ err = nilError \/ err = failure("ErrBadImage")
        \/ \E b, x, y, s : err = dstTooSmall(b, x, y, s)
  <1>. DEFINE answer(err) == \/ err = nilError \/ err = failure("ErrBadImage")
                             \/ \E b, x, y, s : err = dstTooSmall(b, x, y, s)
  <1>1. answer(nilError) /\ answer(failure("ErrBadImage"))
        /\ \A b, x, y, s : answer(dstTooSmall(b, x, y, s))
    BY Zenon
  <1>. HIDE DEF answer
  <1>2. \A shape, w, h : answer(validateDestination(shape, w, h))
    BY <1>1, ZenonT(30) DEF validateDestination
  <1>. QED  BY <1>2 DEF answer

(* An error about the shape of a destination is never ErrDecode. *)
LEMMA ShapeIsNoDecode ==
  \A shape, w, h : validateDestination(shape, w, h).name # "ErrDecode"
  BY ShapeAnswers, ErrorNamed

(* A frame FrameCount counted is refused with ErrDecode only when its own pixels or
   rectangle are bad. *)
LEMMA CountedFrame ==
  ASSUME MemoryOK, NEW src \in Sources, Readable(Image[src]),
         \A j \in 1 .. Len(Image[src].frames) : Image[src].frames[j].configOK,
         NEW d \in Destinations \cup {nilDst}, NEW index \in Int,
         FrameFails(d, src, index) \/ FrameSucceeds(d, src, index)
  PROVE  LET im    == Image[src]
             frame == im.frames[index + 1]
         IN  /\ lastCall'.err.name = "nil" => index < Len(im.frames)
             /\ index \in 0 .. Len(im.frames) - 1 /\ lastCall'.err.name = "ErrDecode"
                  => ~ frame.pixelsOK \/ badBounds(frame.bounds, im.width, im.height)
  <1>. DEFINE im    == Image[src]
              frame == im.frames[index + 1]
              err   == lastCall'.err
  <1>1. Len(im.frames) \in Nat /\ Len(im.frames) <= im.len /\ im.len \in Nat
    BY SourceFacts
  <1>2. ASSUME FrameSucceeds(d, src, index)
        PROVE  index < Len(im.frames) /\ err = nilError
    BY <1>2 DEF FrameSucceeds, Decodable, frameReached
  <1>3. ASSUME FrameFails(d, src, index)
        PROVE  err.name # "nil"
    <2>1. FrameCause(d, src, index, err) /\ err # nilError
      BY <1>3 DEF FrameFails
    <2>2. ~ ReadCause(im, err)
      BY ReadableHasNoCause
    <2>3. shapeError(d, im) # nilError => shapeError(d, im).name # "nil"
      BY ShapeAnswers, ErrorNamed DEF shapeError
    <2>4. slotError(im).name # "nil"
      BY ErrorNamed DEF slotError
    <2>. HIDE DEF err
    <2>5. \/ err = failure("ErrBadImage") \/ err = failure("ErrDecode")
          \/ err = slotError(im) \/ err = shapeError(d, im)
      BY <2>1, <2>2, Zenon DEF FrameCause, GuestCause
    <2>. QED  BY <2>1, <2>3, <2>4, <2>5, ErrorNamed
  <1>4. ASSUME FrameFails(d, src, index), index \in 0 .. Len(im.frames) - 1,
               err.name = "ErrDecode"
        PROVE  ~ frame.pixelsOK \/ badBounds(frame.bounds, im.width, im.height)
    <2>1. index \in Nat /\ index < Len(im.frames) /\ index < Word \div 2
      <3>1. im.len <= currentLayout.srcLen
        BY DEF Readable
      <3>2. currentLayout.srcLen <= maxMemory /\ currentLayout.srcLen \in Nat
        BY Capacities
      <3>3. index \in Nat /\ index < maxMemory
        <4>1. maxMemory \in Nat
          BY Words
        <4>. DEFINE n == Len(im.frames)
                    cap == currentLayout.srcLen
        <4>2. index \in 0 .. n - 1
          BY <1>4
        <4>. HIDE DEF im, n, cap
        <4>3. n \in Nat /\ n <= im.len /\ im.len \in Nat /\ im.len <= cap
              /\ cap <= maxMemory /\ cap \in Nat
          BY <1>1, <3>1, <3>2 DEF n, cap
        <4>. QED  BY <4>1, <4>2, <4>3
      <3>4. index < Word \div 2
        BY <3>3, Words
      <3>5. index < Len(im.frames)
        BY <1>1, <1>4
      <3>. QED  BY <3>3, <3>4, <3>5
    <2>2. frameReached(im, index)
      <3>1. \A j \in 0 .. index : j + 1 \in 1 .. Len(im.frames)
        BY <1>1, <2>1
      <3>. QED  BY <2>1, <3>1 DEF frameReached
    <2>3. ~ (index < 0 \/ index >= Word \div 2)
      BY <2>1, Words
    <2>4. err # failure("ErrBadImage") /\ err # slotError(im)
      BY <1>4, ErrorNamed DEF slotError
    <2>5. err # shapeError(d, im)
      BY <1>4, ShapeIsNoDecode DEF shapeError
    <2>6. ~ ReadCause(im, err)
      BY ReadableHasNoCause
    <2>7. FrameCause(d, src, index, err)
      BY <1>4 DEF FrameFails
    <2>. HIDE DEF err
    <2>8. \/ ~ Decodable(im, index) /\ CanvasFits(im)
          \/ badBounds(frame.bounds, im.width, im.height)
      BY <2>3, <2>4, <2>5, <2>6, <2>7, Zenon DEF FrameCause, GuestCause
    <2>. QED  BY <2>2, <2>8, Zenon DEF Decodable
  <1>. QED  BY <1>2, <1>3, <1>4, ErrorNamed

(* The frames DecodeFrame decodes are those FrameCount counted: no index at or above
   the count decodes, and below it a frame is refused only for itself. *)
THEOREM CountedFramesDecode == Spec => CountedFramesExist
  <1>. DEFINE step ==
         /\ lastCall.op = "FrameCount" /\ ok
         /\ lastCall'.op = "DecodeFrame" /\ lastCall'.src = lastCall.src
         => /\ lastCall'.err.name = "nil" => lastCall'.index < lastCall.value
            /\ lastCall'.index \in 0 .. lastCall.value - 1
                 /\ lastCall'.err.name = "ErrDecode"
                 => LET im    == Image[lastCall.src]
                        frame == im.frames[lastCall'.index + 1]
                    IN  ~ frame.pixelsOK
                          \/ badBounds(frame.bounds, im.width, im.height)
  <1>1. ASSUME DecoderInv, Next
        PROVE  step
    <2>. SUFFICES ASSUME lastCall.op = "FrameCount", ok,
                         lastCall'.op = "DecodeFrame", lastCall'.src = lastCall.src
                  PROVE  step
      OBVIOUS
    <2>1. lastCall.err = nilError
      BY <1>1 DEF ok, DecoderInv, CallOK
    <2>2. /\ lastCall.src \in Sources /\ Readable(Image[lastCall.src])
          /\ lastCall.value = Len(Image[lastCall.src].frames)
          /\ \A j \in 1 .. Len(Image[lastCall.src].frames) :
               Image[lastCall.src].frames[j].configOK
      BY <1>1, <2>1 DEF DecoderInv, CallOK, ReadIsKnown, CountIsKnown
    <2>3. "DecodeFrame" \in FrameOps /\ "DecodeFrame" \notin StillOps
      BY DEF FrameOps, StillOps
    <2>4. PICK src \in Sources, d \in Destinations \cup {nilDst}, index \in Int,
               op \in FrameOps :
            /\ returned(op, src, d, index, lastCall'.err, 0)
            /\ FrameFails(d, src, index) \/ FrameSucceeds(d, src, index)
      <3>1. \A src, d, index, op, err, value :
              returned(op, src, d, index, err, value) => lastCall'.op = op
        BY DEF returned
      <3>. QED  BY <1>1, <2>3, <3>1, KindsOfCall
    <2>5. src = lastCall.src /\ lastCall'.index = index
      BY <2>4 DEF returned
    <2>6. MemoryOK
      BY <1>1 DEF DecoderInv
    <2>7. /\ Readable(Image[src]) /\ lastCall.value = Len(Image[src].frames)
          /\ \A j \in 1 .. Len(Image[src].frames) : Image[src].frames[j].configOK
      BY <2>2, <2>5
    <2>. DEFINE im    == Image[src]
                frame == im.frames[index + 1]
    <2>8. /\ lastCall'.err.name = "nil" => index < Len(im.frames)
          /\ index \in 0 .. Len(im.frames) - 1 /\ lastCall'.err.name = "ErrDecode"
               => ~ frame.pixelsOK \/ badBounds(frame.bounds, im.width, im.height)
      BY <2>4, <2>6, <2>7, CountedFrame
    <2>. QED  BY <2>5, <2>7, <2>8
  <1>2. DecoderInv /\ [Next]_vars => [step]_vars
    BY <1>1
  <1>. QED  BY <1>2, DecoderInvariant, PTL DEF Spec, CountedFramesExist

(* What a Probe reported is the canvas the next decode needs. *)
LEMMA ProbedCanvas ==
  ASSUME MemoryOK, NEW src \in Sources, Readable(Image[src]),
         LET meta == writtenMeta(Image[src], "ok", 0, zeroMeta)
         IN  /\ meta.width < Word \div 4
             /\ meta.stride * meta.height \in 1 .. currentLayout.dstLen
  PROVE  LET im   == Image[src]
             meta == writtenMeta(im, "ok", 0, zeroMeta)
         IN  CanvasFits(im) /\ meta.width = im.width /\ meta.height = im.height
  <1>. DEFINE im   == Image[src]
              meta == writtenMeta(im, "ok", 0, zeroMeta)
              w    == canvasWidth(im)
              h    == canvasHeight(im)
              cap  == currentLayout.dstLen
  <1>1. meta = [err |-> "ok", width |-> w, height |-> h, stride |-> U32(4 * w),
                bytesWritten |-> 0, format |-> im.fourcc]
    BY SMT DEF writtenMeta
  <1>2. w \in Nat /\ h \in Nat
    BY SourceFacts, Words DEF canvasWidth, canvasHeight
  <1>3. meta.width < Word \div 4 /\ meta.stride * meta.height \in 1 .. cap
    OBVIOUS
  <1>4. cap \in Nat /\ cap <= maxMemory
    BY Capacities
  <1>5. configCode(im) = "ok"
    BY DEF Readable
  <1>6. need(im) = 4 * w * h
    BY DEF need
  <1>. HIDE DEF meta, w, h, cap, im
  <1>7. /\ meta.width = w /\ meta.height = h /\ meta.stride = U32(4 * w)
    BY <1>1
  <1>8. U32(4 * w) = 4 * w
    BY <1>2, <1>3, <1>7, Words
  <1>9. need(im) \in 1 .. cap
    <2>1. (4 * w) * h = 4 * w * h
      BY <1>2
    <2>. QED  BY <1>3, <1>6, <1>7, <1>8, <2>1
  <1>10. slotCode(im, cap) = "ok"
    BY <1>4, <1>5, <1>9 DEF slotCode
  <1>11. w = im.width /\ h = im.height
    BY <1>4, <1>10, Geometry DEF im, w, h
  <1>. QED  BY <1>7, <1>10, <1>11 DEF CanvasFits, im, meta, cap

(* A destination of exactly a canvas that fits the slot is not refused. *)
LEMMA ExactDestination ==
  ASSUME MemoryOK, NEW src \in Sources, CanvasFits(Image[src]),
         NEW d \in Destinations,
         LET shape == Dest[d]
             w     == Image[src].width
             h     == Image[src].height
             row   == w * bytesPerPixel[shape.kind]
         IN  /\ shape.width = w /\ shape.height = h /\ shape.atOrigin
             /\ shape.stride = row /\ shape.pixLen = row * h
  PROVE  shapeError(d, Image[src]) = nilError
  <1>. DEFINE shape == Dest[d]
              w     == Image[src].width
              h     == Image[src].height
              bpp   == bytesPerPixel[shape.kind]
              row   == w * bpp
              total == shape.stride * h
  <1>1. currentLayout.dstLen \in Nat /\ currentLayout.dstLen <= maxMemory
    BY Capacities
  <1>2. w \in Nat /\ h \in Nat /\ w > 0 /\ h > 0 /\ 4 * (w * h) < Word
    BY <1>1, Geometry DEF CanvasFits
  <1>3. shape \in Shapes
    BY ImagesAssumption
  <1>4. bpp \in {1, 4}
    <2>1. shape.kind \in {"RGBA", "NRGBA", "Gray"}
      BY <1>3 DEF Shapes, bytesPerPixel
    <2>. QED  BY <2>1 DEF bytesPerPixel
  <1>5. /\ shape.width = w /\ shape.height = h /\ shape.atOrigin
        /\ shape.stride = row /\ shape.pixLen = row * h
    OBVIOUS
  <1>6. row \in Nat /\ row * h \in Nat /\ row * h > 0 /\ row * h < Word
    <2>. HIDE DEF w, h, bpp
    <2>1. row * h = bpp * (w * h) /\ w * h \in Nat /\ w * h > 0
      BY <1>2, <1>4, Products
    <2>2. row \in Nat /\ bpp * (w * h) \in Nat /\ bpp * (w * h) > 0
          /\ bpp * (w * h) <= 4 * (w * h)
      BY <1>2, <1>4, <2>1
    <2>. HIDE DEF row
    <2>3. Word \in Nat
      BY Words
    <2>. QED  BY <1>2, <2>1, <2>2, <2>3
  <1>7. total = row * h
    BY <1>5
  <1>8. /\ w > 0 /\ h > 0 /\ shape.width = w /\ shape.height = h
        /\ shape.pixLen # 0 /\ shape.atOrigin /\ row * h < Word
        /\ shape.stride >= row /\ total < Word /\ shape.pixLen >= total
        => validateDestination(shape, w, h) = nilError
    BY <1>2, <1>3, FittingShape
  <1>9. validateDestination(shape, w, h) = nilError
    <2>. HIDE DEF w, h, row, total, shape
    <2>. QED  BY <1>2, <1>5, <1>6, <1>7, <1>8
  <1>. QED  BY <1>9 DEF shapeError

(* A decode into a canvas that fits, of a source that can be read, succeeds or
   finds the frame corrupt. *)
LEMMA FittingDecode ==
  ASSUME MemoryOK, NEW src \in Sources, Readable(Image[src]), CanvasFits(Image[src]),
         NEW d \in Destinations, shapeError(d, Image[src]) = nilError,
         NEW op, NEW index,
         \/ FrameFails(d, src, index) \/ FrameSucceeds(d, src, index)
         \/ StillFails(d, src) \/ \E fmt : StillSucceeds(op, d, src, fmt)
  PROVE  lastCall'.err.name \in {"nil", "ErrDecode"}
  <1>. DEFINE im  == Image[src]
              err == lastCall'.err
  <1>1. ASSUME NEW i, GuestCause(im, i, err)
        PROVE  err = failure("ErrDecode")
    <2>1. ~ ReadCause(im, err)
      BY ReadableHasNoCause
    <2>2. slotCode(im, currentLayout.dstLen) = "ok"
      BY DEF CanvasFits
    <2>. HIDE DEF err
    <2>. QED  BY <1>1, <2>1, <2>2 DEF GuestCause
  <1>2. d # nilDst
    BY ImagesAssumption
  <1>3. CASE FrameFails(d, src, index)
    <2>1. FrameCause(d, src, index, err)
      BY <1>3 DEF FrameFails
    <2>. HIDE DEF err
    <2>2. err = failure("ErrDecode")
      BY <1>1, <1>2, <2>1, Zenon DEF FrameCause
    <2>. QED  BY <2>2, ErrorNamed DEF err
  <1>4. CASE StillFails(d, src)
    <2>1. StillCause(d, src, err)
      BY <1>4 DEF StillFails
    <2>. HIDE DEF err
    <2>2. err = failure("ErrDecode")
      BY <1>1, <1>2, <2>1, Zenon DEF StillCause
    <2>. QED  BY <2>2, ErrorNamed DEF err
  <1>5. CASE FrameSucceeds(d, src, index) \/ \E fmt : StillSucceeds(op, d, src, fmt)
    <2>1. err = nilError
      BY <1>5, Zenon DEF FrameSucceeds, StillSucceeds
    <2>. QED  BY <2>1, ErrorNamed
  <1>. QED  BY <1>3, <1>4, <1>5

(* A destination and a dst slot of the size Probe reported suit the decode. *)
THEOREM ProbedGeometrySuits == Spec => ProbedGeometryDecodes
  <1>. DEFINE told ==
         /\ lastCall.op = "Probe" /\ ok
         /\ lastCall'.src = lastCall.src
         /\ lastCall'.dst \in Destinations
         /\ LET shape == Dest[lastCall'.dst]
                row   == lastMeta.width * bytesPerPixel[shape.kind]
            IN  /\ shape.width = lastMeta.width /\ shape.height = lastMeta.height
                /\ shape.atOrigin
                /\ shape.stride = row
                /\ shape.pixLen = row * lastMeta.height
                /\ lastMeta.width < Word \div 4
                /\ lastMeta.stride * lastMeta.height \in 1 .. currentLayout.dstLen
  <1>1. ASSUME DecoderInv, Next, told
        PROVE  lastCall'.err.name \in {"nil", "ErrDecode"}
    <2>. DEFINE im == Image[lastCall.src]
                d  == lastCall'.dst
    <2>1. lastCall.err = nilError
      BY <1>1 DEF ok, DecoderInv, CallOK
    <2>2. /\ lastCall.src \in Sources /\ Readable(im) /\ MemoryOK
          /\ lastMeta = writtenMeta(im, "ok", 0, zeroMeta)
      BY <1>1, <2>1 DEF DecoderInv, CallOK, ReadIsKnown, ProbeIsKnown
    <2>3. CanvasFits(im) /\ lastMeta.width = im.width /\ lastMeta.height = im.height
      BY <1>1, <2>2, ProbedCanvas
    <2>4. shapeError(d, im) = nilError
      BY <1>1, <2>2, <2>3, ExactDestination
    <2>5. d # nilDst /\ d \in Destinations
      BY <1>1, ImagesAssumption
    <2>6. \A src, e, index, op, err, value :
            returned(op, src, e, index, err, value)
              => lastCall'.src = src /\ lastCall'.dst = e
      BY DEF returned
    <2>7. ASSUME NEW src \in Sources, NEW e \in Destinations \cup {nilDst},
                 NEW index \in Int, NEW op \in FrameOps,
                 returned(op, src, e, index, lastCall'.err, 0),
                 FrameFails(e, src, index) \/ FrameSucceeds(e, src, index)
          PROVE  lastCall'.err.name \in {"nil", "ErrDecode"}
      <3>1. src = lastCall.src /\ e = d
        BY <1>1, <2>6, <2>7
      <3>. QED  BY <2>2, <2>3, <2>4, <2>5, <2>7, <3>1, FittingDecode
    <2>8. ASSUME NEW src \in Sources, NEW e \in Destinations \cup {nilDst},
                 NEW op \in StillOps,
                 returned(op, src, e, 0, lastCall'.err, 0),
                 StillFails(e, src) \/ \E fmt : StillSucceeds(op, e, src, fmt)
          PROVE  lastCall'.err.name \in {"nil", "ErrDecode"}
      <3>1. src = lastCall.src /\ e = d
        BY <1>1, <2>6, <2>8
      <3>. QED  BY <2>2, <2>3, <2>4, <2>5, <2>8, <3>1, FittingDecode
    <2>. QED  BY <1>1, <2>5, <2>7, <2>8, KindsOfCall
  <1>2. DecoderInv /\ [Next]_vars
          => [told => lastCall'.err.name \in {"nil", "ErrDecode"}]_vars
    BY <1>1
  <1>3. Spec => [][told => lastCall'.err.name \in {"nil", "ErrDecode"}]_vars
    BY <1>2, DecoderInvariant, PTL DEF Spec
  <1>. QED  BY <1>3 DEF ProbedGeometryDecodes

----------------------------------------------------------------------------
(* A reused decoder implements DecodeContract. *)

(* The contract speaks of the same images. *)
LEMMA SameImages ==
  /\ Contract!Canvas = Canvas /\ Contract!noFormat = noFormat
  /\ \A b, c : Contract!Inside(b, c) <=> Inside(b, c)
  /\ \A src, i, c, fmt : Contract!Pixel(src, i, c, fmt) = Pixel(src, i, c, fmt)
  /\ \A p : Contract!gray(p) = gray(p)
  /\ Contract!Caller = Caller
  /\ Contract!bytesPerPixel = bytesPerPixel
  /\ \A kind : Contract!ofKind(kind) = ofKind(kind)
  /\ Contract!RGBAPremul = RGBAPremul /\ Contract!RGBANonPremul = RGBANonPremul
  /\ Contract!BGRAPremul = BGRAPremul
  <1>1. Contract!Canvas = Canvas /\ Contract!noFormat = noFormat
    BY DEF Contract!Canvas, Canvas, Contract!noFormat, noFormat
  <1>2. \A b, c : Contract!Inside(b, c) <=> Inside(b, c)
    BY DEF Contract!Inside, Inside
  <1>3. /\ \A src, i, c, fmt : Contract!Pixel(src, i, c, fmt) = Pixel(src, i, c, fmt)
        /\ \A p : Contract!gray(p) = gray(p)
        /\ Contract!Caller = Caller
    BY DEF Contract!Pixel, Pixel, Contract!gray, gray, Contract!Caller, Caller
  <1>4. Contract!bytesPerPixel = bytesPerPixel
    BY DEF Contract!bytesPerPixel, bytesPerPixel
  <1>5. \A kind : Contract!ofKind(kind) = ofKind(kind)
    BY DEF Contract!ofKind, ofKind
  <1>6. /\ Contract!RGBAPremul = RGBAPremul /\ Contract!RGBANonPremul = RGBANonPremul
        /\ Contract!BGRAPremul = BGRAPremul
    BY DEF Contract!RGBAPremul, RGBAPremul, Contract!RGBANonPremul, RGBANonPremul,
           Contract!BGRAPremul, BGRAPremul
  <1>. QED  BY <1>1, <1>2, <1>3, <1>4, <1>5, <1>6

(* What a caller sees of a step. *)
LEMMA CausesNamed ==
  /\ \A condition, name : condition => name \in Contract!cause(condition, name)
  /\ \A condition, name : ~ condition => Contract!cause(condition, name) = {}
  BY DEF Contract!cause

LEMMA ContractFails ==
  ASSUME NEW causes, lastCall'.err.name \in causes, UNCHANGED <<pix, fields>>
  PROVE  Contract!Fails(causes)
  BY DEF Contract!Fails, Contract!results, fields

LEMMA ContractSucceeds ==
  ASSUME NEW causes, causes = {}, lastCall'.err = nilError
  PROVE  Contract!Succeeds(causes)
  BY ErrorNamed DEF Contract!Succeeds

LEMMA ContractCalled ==
  \A op, src, d, index, err, value :
    returned(op, src, d, index, err, value) => Contract!called(op, src, d, index)
  BY DEF returned, Contract!called

(* The causes to fail that have to do with the source. *)
LEMMA UnreadableCauses ==
  ASSUME MemoryOK, NEW src \in Sources
  PROVE  LET im == Image[src]
         IN  /\ \A err : ReadCause(im, err) => err.name \in Contract!Unreadable(im)
             /\ Readable(im) => Contract!Unreadable(im) = {}
  <1>. DEFINE im == Image[src]
  <1>1. im.len \in Nat /\ currentLayout.srcLen \in Nat
    BY SourceFacts, Capacities
  <1>2. ASSUME NEW err, ReadCause(im, err)
        PROVE  err.name \in Contract!Unreadable(im)
    <2>1. \/ err.name = "ErrSrcTooLarge" /\ im.len > currentLayout.srcLen
          \/ err.name = "ErrUnknownFormat" /\ im.len > 0 /\ im.fourcc = noFormat
          \/ /\ err.name = "ErrDecode"
             /\ im.len = 0 \/ (im.fourcc # noFormat /\ ~ im.configOK)
      BY <1>2, ErrorNamed, Zenon DEF ReadCause
    <2>. QED  BY <2>1, SameImages, CausesNamed, Zenon DEF Contract!Unreadable
  <1>3. ASSUME Readable(im)
        PROVE  Contract!Unreadable(im) = {}
    <2>1. /\ ~ im.len > currentLayout.srcLen
          /\ ~ (im.len > 0 /\ im.fourcc = noFormat)
          /\ ~ (im.len = 0 \/ (im.fourcc # noFormat /\ ~ im.configOK))
      BY <1>1, <1>3 DEF Readable
    <2>2. /\ Contract!cause(im.len > currentLayout.srcLen, "ErrSrcTooLarge") = {}
          /\ Contract!cause(im.len > 0 /\ im.fourcc = noFormat, "ErrUnknownFormat") = {}
          /\ Contract!cause(im.len = 0 \/ (im.fourcc # noFormat /\ ~ im.configOK),
                            "ErrDecode") = {}
      BY <2>1, CausesNamed, Zenon
    <2>. QED  BY <2>2, SameImages DEF Contract!Unreadable
  <1>. QED  BY <1>2, <1>3

(* Reserve raises the capacities, each to what is asked for or not at all. *)
LEMMA ReserveSimulates ==
  ASSUME DecoderInv, NEW dstBytes \in Requests, NEW srcBytes \in Requests,
         Reserve(dstBytes, srcBytes)
  PROVE  Contract!Reserve
  <1>1. /\ UNCHANGED <<pix, fields>>
        /\ returned("Reserve", noFormat, nilDst, 0, lastCall'.err, 0)
        /\ \/ currentLayout' = currentLayout
           \/ /\ currentLayout'.dstLen = raised(currentLayout.dstLen, dstBytes)
              /\ currentLayout'.srcLen = raised(currentLayout.srcLen, srcBytes)
    BY Arguments, ReserveCall DEF DecoderInv
  <1>2. currentLayout.dstLen \in Nat /\ currentLayout.srcLen \in Nat
        /\ dstBytes \in Int /\ srcBytes \in Int
    BY Arguments, Capacities DEF DecoderInv
  <1>3. /\ currentLayout'.dstLen \in {currentLayout.dstLen, dstBytes}
        /\ currentLayout'.srcLen \in {currentLayout.srcLen, srcBytes}
        /\ currentLayout'.dstLen >= currentLayout.dstLen
        /\ currentLayout'.srcLen >= currentLayout.srcLen
    BY <1>1, <1>2 DEF raised
  <1>4. lastCall'.op = "Reserve"
    BY <1>1 DEF returned
  <1>5. UNCHANGED <<pix, Contract!results>>
    BY <1>1 DEF fields, Contract!results
  <1>. QED  BY <1>3, <1>4, <1>5 DEF Contract!Reserve

(* Probe answers for the source alone. *)
LEMMA ProbeSimulates ==
  ASSUME DecoderInv, NEW src \in Sources, Probe(src)
  PROVE  Contract!called("Probe", src, nilDst, 0) /\ Contract!Probe(src)
  <1>. DEFINE im   == Image[src]
              w    == im.width
              h    == im.height
              meta == writtenMeta(im, "ok", 0, zeroMeta)
  <1>1. /\ UNCHANGED <<memory, pix, lastFrame, lastMetadata>>
        /\ returned("Probe", src, nilDst, 0, lastCall'.err, 0)
        /\ \/ ReadCause(im, lastCall'.err) /\ lastMeta' = lastMeta
           \/ lastCall'.err = nilError /\ Readable(im) /\ lastMeta' = meta
    BY ProbeStep DEF DecoderInv
  <1>2. CASE ReadCause(im, lastCall'.err) /\ lastMeta' = lastMeta
    <2>1. lastCall'.err.name \in Contract!Unreadable(im)
      BY <1>2, UnreadableCauses DEF DecoderInv
    <2>2. UNCHANGED <<pix, fields>>
      BY <1>1, <1>2 DEF fields
    <2>. QED  BY <1>1, <2>1, <2>2, ContractCalled, ContractFails DEF Contract!Probe
  <1>3. CASE lastCall'.err = nilError /\ Readable(im) /\ lastMeta' = meta
    <2>1. Contract!Succeeds(Contract!Unreadable(im))
      BY <1>3, UnreadableCauses, ContractSucceeds DEF DecoderInv
    <2>2. ASSUME Contract!Countable(im)
          PROVE  meta = Contract!Meta(im, 0)
      <3>1. w \in Nat /\ h \in Nat /\ Word \in Nat
        BY SourceFacts, Words
      <3>2. w * h < Word \div 4 /\ w < Word \div 4
        BY <2>2 DEF Contract!Countable
      <3>3. w * h \in Nat /\ w * h < Word /\ U32(4 * w) = 4 * w /\ 0 * w * h = 0
        <4>. HIDE DEF w, h
        <4>. QED  BY <3>1, <3>2, Words
      <3>4. canvasWidth(im) = w /\ canvasHeight(im) = h
        BY <3>3 DEF representable, canvasWidth, canvasHeight
      <3>5. meta = [err |-> "ok", width |-> canvasWidth(im),
                    height |-> canvasHeight(im), stride |-> U32(4 * canvasWidth(im)),
                    bytesWritten |-> 0, format |-> im.fourcc]
        BY SMT DEF writtenMeta
      <3>. HIDE DEF meta
      <3>. QED  BY <3>3, <3>4, <3>5 DEF Contract!Meta
    <2>3. UNCHANGED <<pix, [src |-> lastFrame.src, index |-> lastFrame.index,
                            bounds |-> lastFrame.bounds], lastMetadata>>
      BY <1>1
    <2>. QED  BY <1>1, <1>3, <2>1, <2>2, <2>3, ContractCalled DEF Contract!Probe
  <1>. QED  BY <1>1, <1>2, <1>3

(* FrameCount answers for every frame of the source. *)
LEMMA FrameCountSimulates ==
  ASSUME DecoderInv, NEW src \in Sources, FrameCount(src)
  PROVE  Contract!called("FrameCount", src, nilDst, 0) /\ Contract!FrameCount(src)
  <1>. DEFINE im     == Image[src]
              fs     == im.frames
              good   == \A j \in 1 .. Len(fs) : fs[j].configOK
              broken == fs = <<>> \/ \E j \in DOMAIN fs : ~ fs[j].configOK
              causes == Contract!Unreadable(im)
                        \cup Contract!cause(broken, "ErrDecode")
  <1>1. /\ UNCHANGED <<memory, pix, fields>>
        /\ returned("FrameCount", src, nilDst, 0, lastCall'.err, lastCall'.value)
        /\ \/ ReadCause(im, lastCall'.err)
           \/ /\ lastCall'.err = failure("ErrDecode") /\ Readable(im)
              /\ Len(fs) = 0 \/ ~ good
           \/ /\ lastCall'.err = nilError /\ Readable(im)
              /\ Len(fs) > 0 /\ good
              /\ lastCall'.value = Len(fs)
    BY FrameCountStep DEF DecoderInv
  <1>2. broken <=> (Len(fs) = 0 \/ ~ good)
    <2>1. fs \in Seq(Frames)
      BY SourceFacts
    <2>. HIDE DEF fs
    <2>. QED  BY <2>1
  <1>. HIDE DEF good, broken
  <1>3. CASE ReadCause(im, lastCall'.err)
    <2>1. lastCall'.err.name \in causes
      BY <1>3, UnreadableCauses DEF DecoderInv
    <2>2. Contract!Fails(causes)
      BY <1>1, <2>1, ContractFails
    <2>. QED  BY <1>1, <2>2, ContractCalled DEF Contract!FrameCount, broken
  <1>4. CASE lastCall'.err = failure("ErrDecode") /\ (Len(fs) = 0 \/ ~ good)
    <2>1. lastCall'.err.name = "ErrDecode" /\ broken
      BY <1>2, <1>4, ErrorNamed
    <2>2. lastCall'.err.name \in causes
      BY <2>1, CausesNamed
    <2>3. Contract!Fails(causes)
      BY <1>1, <2>2, ContractFails
    <2>. QED  BY <1>1, <2>3, ContractCalled DEF Contract!FrameCount, broken
  <1>5. CASE /\ lastCall'.err = nilError /\ Readable(im) /\ Len(fs) > 0 /\ good
             /\ lastCall'.value = Len(fs)
    <2>1. ~ broken
      BY <1>2, <1>5
    <2>2. causes = {}
      BY <1>5, <2>1, UnreadableCauses, CausesNamed DEF DecoderInv
    <2>3. Contract!Succeeds(causes)
      BY <1>5, <2>2, ContractSucceeds
    <2>4. UNCHANGED <<pix, Contract!results>>
      BY <1>1 DEF fields, Contract!results
    <2>. QED  BY <1>1, <1>5, <2>3, <2>4, ContractCalled DEF Contract!FrameCount, broken
  <1>. QED  BY <1>1, <1>3, <1>4, <1>5

(* LoopCount and Metadata answer for the source. *)
LEMMA LoopCountSimulates ==
  ASSUME DecoderInv, NEW src \in Sources, LoopCount(src)
  PROVE  Contract!called("LoopCount", src, nilDst, 0) /\ Contract!LoopCount(src)
  <1>. DEFINE im == Image[src]
  <1>1. /\ UNCHANGED <<memory, pix, fields>>
        /\ returned("LoopCount", src, nilDst, 0, lastCall'.err, lastCall'.value)
        /\ \/ ReadCause(im, lastCall'.err)
           \/ /\ lastCall'.err = nilError /\ Readable(im)
              /\ lastCall'.value = im.loops
    BY LoopCountStep DEF DecoderInv
  <1>2. CASE ReadCause(im, lastCall'.err)
    <2>1. Contract!Fails(Contract!Unreadable(im))
      BY <1>1, <1>2, UnreadableCauses, ContractFails DEF DecoderInv
    <2>. QED  BY <1>1, <2>1, ContractCalled DEF Contract!LoopCount
  <1>3. CASE /\ lastCall'.err = nilError /\ Readable(im) /\ lastCall'.value = im.loops
    <2>1. Contract!Succeeds(Contract!Unreadable(im))
      BY <1>3, UnreadableCauses, ContractSucceeds DEF DecoderInv
    <2>2. UNCHANGED <<pix, Contract!results>>
      BY <1>1 DEF fields, Contract!results
    <2>. QED  BY <1>1, <1>3, <2>1, <2>2, ContractCalled DEF Contract!LoopCount
  <1>. QED  BY <1>1, <1>2, <1>3

LEMMA MetadataSimulates ==
  ASSUME DecoderInv, NEW src \in Sources, Metadata(src)
  PROVE  Contract!called("Metadata", src, nilDst, 0) /\ Contract!Metadata(src)
  <1>. DEFINE im     == Image[src]
              cap    == currentLayout.dstLen
              short  == ~ im.metadataOK \/ cap < minimumMetadataDstSlotBytes
              causes == Contract!Unreadable(im) \cup Contract!cause(short, "ErrDecode")
  <1>1. /\ UNCHANGED <<memory, pix, lastMeta, lastFrame>>
        /\ returned("Metadata", src, nilDst, 0, lastCall'.err, 0)
        /\ \/ /\ \/ ReadCause(im, lastCall'.err)
                 \/ lastCall'.err = failure("ErrDecode")
              /\ lastMetadata' = lastMetadata
           \/ /\ lastCall'.err = nilError /\ Readable(im)
              /\ im.metadataOK
              /\ cap >= minimumMetadataDstSlotBytes
              /\ lastMetadata' = [format |-> im.fourcc, src |-> src]
    BY MetadataStep DEF DecoderInv
  <1>. HIDE DEF short
  <1>2. CASE /\ ReadCause(im, lastCall'.err) \/ lastCall'.err = failure("ErrDecode")
             /\ lastMetadata' = lastMetadata
    <2>1. lastCall'.err.name \in causes \cup {"ErrDecode"}
      BY <1>2, UnreadableCauses, ErrorNamed DEF DecoderInv
    <2>2. UNCHANGED <<pix, fields>>
      BY <1>1, <1>2 DEF fields
    <2>3. Contract!Fails(causes \cup {"ErrDecode"})
      BY <2>1, <2>2, ContractFails
    <2>. QED  BY <1>1, <2>3, ContractCalled DEF Contract!Metadata, short
  <1>3. CASE /\ lastCall'.err = nilError /\ Readable(im) /\ im.metadataOK
             /\ cap >= minimumMetadataDstSlotBytes
             /\ lastMetadata' = [format |-> im.fourcc, src |-> src]
    <2>1. ~ short
      <3>1. cap \in Nat /\ minimumMetadataDstSlotBytes \in Nat
        BY Capacities DEF DecoderInv, minimumMetadataDstSlotBytes
      <3>. HIDE DEF cap
      <3>. QED  BY <1>3, <3>1 DEF short
    <2>2. causes = {}
      BY <1>3, <2>1, UnreadableCauses, CausesNamed DEF DecoderInv
    <2>3. Contract!Succeeds(causes)
      BY <1>3, <2>2, ContractSucceeds
    <2>4. UNCHANGED <<pix, lastMeta, [src |-> lastFrame.src, index |-> lastFrame.index,
                                      bounds |-> lastFrame.bounds]>>
      BY <1>1
    <2>. QED  BY <1>1, <1>3, <2>3, <2>4, ContractCalled DEF Contract!Metadata, short
  <1>. QED  BY <1>1, <1>2, <1>3

(* The causes of a canvas, *)
LEMMA CanvasCauses ==
  ASSUME MemoryOK, NEW src \in Sources
  PROVE  LET im == Image[src]
         IN  /\ slotCode(im, currentLayout.dstLen) = "dstTooSmall"
                  => "ErrDstTooSmall" \in Contract!CanvasTooBig(im)
             /\ CanvasFits(im) => Contract!CanvasTooBig(im) = {}
  <1>. DEFINE im  == Image[src]
              w   == im.width
              h   == im.height
              cap == currentLayout.dstLen
  <1>1. cap \in Nat /\ cap <= maxMemory /\ cap < Word
    <2>1. cap \in Nat /\ cap <= maxMemory
      BY Capacities
    <2>. QED  BY <2>1, Words
  <1>2. w \in Nat /\ h \in Nat /\ w * h \in Nat
    BY SourceFacts, Words
  <1>3. Word \in Nat
    BY Words
  <1>4. ASSUME slotCode(im, cap) = "dstTooSmall"
        PROVE  w * h \notin 1 .. cap \div 4
    <2>1. need(im) = 0 \/ need(im) > cap
      <3>1. configCode(im) # "dstTooSmall"
        BY CodesOfExports
      <3>. QED  BY <1>4, <3>1, SMT DEF slotCode
    <2>2. CASE representable(im)
      <3>1. need(im) = 4 * w * h
        BY <2>2 DEF need, canvasWidth, canvasHeight
      <3>. HIDE DEF w, h, cap
      <3>2. need(im) = 4 * (w * h)
        BY <1>2, <3>1
      <3>. DEFINE n == w * h
      <3>. HIDE DEF n
      <3>. QED  BY <1>1, <1>2, <2>1, <3>2 DEF n
    <2>3. CASE ~ representable(im)
      <3>1. ~ w * h < Word
        BY <2>3 DEF representable
      <3>. HIDE DEF w, h, cap
      <3>. DEFINE n == w * h
      <3>. HIDE DEF n
      <3>. QED  BY <1>1, <1>2, <1>3, <3>1 DEF n
    <2>. QED  BY <2>2, <2>3
  <1>5. ASSUME CanvasFits(im)
        PROVE  w * h \in 1 .. cap \div 4
    <2>1. /\ w > 0 /\ h > 0 /\ need(im) = 4 * (w * h) /\ need(im) <= cap
      BY <1>1, <1>5, Geometry DEF CanvasFits
    <2>2. w * h > 0
      <3>. HIDE DEF w, h
      <3>. QED  BY <1>2, <2>1, Products
    <2>. DEFINE n == w * h
    <2>3. 4 * n <= cap
      BY <2>1
    <2>. HIDE DEF n, cap
    <2>. QED  BY <1>1, <1>2, <2>2, <2>3 DEF n
  <1>. QED  BY <1>4, <1>5, CausesNamed DEF Contract!CanvasTooBig

(* of a frame, *)
LEMMA FrameCauses ==
  ASSUME MemoryOK, NEW src \in Sources, NEW i \in Int
  PROVE  LET im == Image[src]
             b  == im.frames[i + 1].bounds
         IN  /\ i < 0 \/ i >= Word \div 2 \/ (CanvasFits(im) /\ ~ Decodable(im, i))
                  => "ErrDecode" \in Contract!FrameBroken(im, i)
             /\ i >= 0 /\ i < Word \div 2 /\ Decodable(im, i)
                  => Contract!FrameBroken(im, i) = {}
             /\ i >= 0 /\ Decodable(im, i) /\ badBounds(b, im.width, im.height)
                  => "ErrDecode" \in Contract!FrameOutside(im, i)
             /\ i >= 0 /\ Decodable(im, i) /\ ~ badBounds(b, im.width, im.height)
                  => Contract!FrameOutside(im, i) = {}
  <1>. DEFINE im    == Image[src]
              b     == im.frames[i + 1].bounds
              n     == Len(im.frames)
              whole == /\ i \in 0 .. n - 1
                       /\ i < Word \div 2
                       /\ \A j \in 1 .. i + 1 : im.frames[j].configOK
                       /\ im.frames[i + 1].pixelsOK
  <1>1. n \in Nat /\ Word \in Nat /\ im.width \in Nat /\ im.height \in Nat
    BY SourceFacts, Words
  <1>2. whole => i >= 0 /\ i < Word \div 2 /\ (CanvasFits(im) => Decodable(im, i))
    <2>1. SUFFICES ASSUME whole
                   PROVE  i >= 0 /\ i < n /\ frameReached(im, i)
      BY DEF Decodable
    <2>2. i \in Nat /\ i < n
      BY <1>1, <2>1
    <2>3. \A j \in 0 .. i : j + 1 \in 1 .. i + 1
      BY <2>2
    <2>. QED  BY <2>1, <2>2, <2>3 DEF frameReached
  <1>3. i >= 0 /\ i < Word \div 2 /\ Decodable(im, i) => whole
    <2>1. SUFFICES ASSUME i >= 0, i < Word \div 2, Decodable(im, i)
                   PROVE  whole
      OBVIOUS
    <2>2. i \in Nat /\ i < n /\ \A j \in 0 .. i : im.frames[j + 1].configOK
      BY <2>1 DEF Decodable, frameReached
    <2>3. \A j \in 1 .. i + 1 : j - 1 \in 0 .. i /\ (j - 1) + 1 = j
      BY <2>2
    <2>4. \A j \in 1 .. i + 1 : im.frames[j].configOK
      BY <2>2, <2>3
    <2>5. i \in 0 .. n - 1
      <3>. HIDE DEF n
      <3>. QED  BY <1>1, <2>2
    <2>. QED  BY <2>1, <2>4, <2>5 DEF Decodable
  <1>4. Contract!FrameBroken(im, i) = Contract!cause(~ whole, "ErrDecode")
    BY DEF Contract!FrameBroken
  <1>5. ASSUME i >= 0, Decodable(im, i)
        PROVE  /\ i \in 0 .. n - 1
               /\ badBounds(b, im.width, im.height)
                    <=> ~ /\ b.minX < b.maxX /\ b.maxX <= im.width
                          /\ b.minY < b.maxY /\ b.maxY <= im.height
    <2>1. i \in Nat /\ i < n
      BY <1>5 DEF Decodable, frameReached
    <2>2. b.minX \in Nat /\ b.minY \in Nat /\ b.maxX \in Nat /\ b.maxY \in Nat
      BY <2>1, FrameFacts
    <2>3. i \in 0 .. n - 1
      <3>. HIDE DEF n
      <3>. QED  BY <1>1, <2>1
    <2>. HIDE DEF b, n
    <2>. QED  BY <1>1, <2>2, <2>3 DEF badBounds
  <1>. DEFINE outside == i \in 0 .. n - 1 /\ ~ /\ b.minX < b.maxX /\ b.maxX <= im.width
                                               /\ b.minY < b.maxY /\ b.maxY <= im.height
  <1>6. Contract!FrameOutside(im, i) = Contract!cause(outside, "ErrDecode")
    BY DEF Contract!FrameOutside
  <1>7. i >= 0 /\ Decodable(im, i)
          => (outside <=> badBounds(b, im.width, im.height))
    BY <1>5
  <1>8. (i < 0 => ~ i >= 0) /\ (i >= Word \div 2 => ~ i < Word \div 2)
    BY <1>1
  <1>. HIDE DEF whole, outside
  <1>9. /\ i < 0 \/ i >= Word \div 2 \/ (CanvasFits(im) /\ ~ Decodable(im, i)) => ~ whole
        /\ i >= 0 /\ i < Word \div 2 /\ Decodable(im, i) => whole
    BY <1>2, <1>3, <1>8
  <1>10. /\ ~ whole => "ErrDecode" \in Contract!FrameBroken(im, i)
         /\ whole => Contract!FrameBroken(im, i) = {}
    BY <1>4 DEF Contract!cause
  <1>11. /\ outside => "ErrDecode" \in Contract!FrameOutside(im, i)
         /\ ~ outside => Contract!FrameOutside(im, i) = {}
    BY <1>6 DEF Contract!cause
  <1>. QED  BY <1>7, <1>9, <1>10, <1>11, Zenon

(* and of the destination. *)
LEMMA ShapeCauses ==
  ASSUME MemoryOK, NEW src \in Sources, CanvasFits(Image[src]), NEW d \in Destinations
  PROVE  LET im  == Image[src]
             err == shapeError(d, im)
         IN  /\ err # nilError => err.name \in Contract!DestinationUnfit(im, d)
             /\ err = nilError => Contract!DestinationUnfit(im, d) = {}
  <1>. DEFINE im    == Image[src]
              w     == im.width
              h     == im.height
              shape == Dest[d]
              bpp   == bytesPerPixel[shape.kind]
              row   == w * bpp
              tight == row * h
              total == shape.stride * h
              err   == validateDestination(shape, w, h)
              fits  == /\ shape.width = w /\ shape.height = h
                       /\ shape.pixLen # 0 /\ shape.atOrigin /\ tight < Word
              bad   == \/ <<shape.width, shape.height>> # <<w, h>>
                       \/ ~ shape.atOrigin
                       \/ shape.pixLen = 0
                       \/ total >= Word
              small == shape.stride < row \/ shape.pixLen < total
  <1>1. currentLayout.dstLen \in Nat /\ currentLayout.dstLen <= maxMemory
    BY Capacities
  <1>2. w \in Nat /\ h \in Nat /\ w > 0 /\ h > 0 /\ 4 * (w * h) < Word
    BY <1>1, Geometry DEF CanvasFits
  <1>3. shape \in Shapes
    BY ImagesAssumption
  <1>4. bpp \in {1, 4}
    <2>1. shape.kind \in {"RGBA", "NRGBA", "Gray"}
      BY <1>3 DEF Shapes, bytesPerPixel
    <2>. QED  BY <2>1 DEF bytesPerPixel
  <1>5. tight < Word
    <2>. HIDE DEF w, h, bpp
    <2>1. tight = bpp * (w * h) /\ w * h \in Nat
      BY <1>2, <1>4, Products
    <2>2. Word \in Nat
      BY Words
    <2>. QED  BY <1>2, <1>4, <2>1, <2>2
  <1>6. /\ row \in Nat /\ w <= row
        /\ tight \in Nat /\ row <= tight /\ tight > 0
        /\ total \in Nat /\ shape.stride \in Nat /\ shape.stride <= total
        /\ ~ fits => err = failure("ErrBadImage")
        /\ fits /\ shape.stride < row => err = dstTooSmall(tight, w, h, row)
        /\ fits /\ shape.stride >= row /\ total >= Word
             => err = failure("ErrBadImage")
        /\ fits /\ shape.stride >= row /\ total < Word /\ shape.pixLen < total
             => err = dstTooSmall(total, w, h, shape.stride)
        /\ fits /\ shape.stride >= row /\ total < Word /\ shape.pixLen >= total
             => err = nilError
    BY <1>2, <1>3, ShapeErrors
  <1>7. /\ shape.pixLen \in Nat /\ Word \in Nat
        /\ shape.width \in Nat /\ shape.height \in Nat
    BY <1>3, Words DEF Shapes
  <1>8. Contract!DestinationUnfit(im, d)
          = Contract!cause(bad, "ErrBadImage") \cup Contract!cause(small, "ErrDstTooSmall")
    BY ImagesAssumption, SameImages DEF Contract!DestinationUnfit
  <1>9. nilError # failure("ErrBadImage")
        /\ \A x, y, z, s : dstTooSmall(x, y, z, s) # nilError
    BY ErrorNamed
  <1>. HIDE DEF err, row, tight, total, w, h, shape
  <1>10. \/ err = failure("ErrBadImage") /\ bad
         \/ err.name = "ErrDstTooSmall" /\ small /\ err # nilError
         \/ err = nilError /\ ~ bad /\ ~ small
    BY <1>5, <1>6, <1>7, <1>9, ErrorNamed
  <1>. HIDE DEF bad, small
  <1>11. /\ err # nilError => err.name \in Contract!DestinationUnfit(im, d)
         /\ err = nilError => Contract!DestinationUnfit(im, d) = {}
    BY <1>8, <1>9, <1>10, ErrorNamed, CausesNamed
  <1>. QED  BY <1>11 DEF shapeError, err, shape, w, h

(* What the guest refuses the contract lets a decode refuse. *)
LEMMA GuestCauses ==
  ASSUME MemoryOK, NEW src \in Sources, NEW i \in Int, NEW err,
         GuestCause(Image[src], i, err)
  PROVE  LET im == Image[src]
         IN  err.name \in Contract!Unreadable(im) \cup Contract!CanvasTooBig(im)
                            \cup Contract!FrameBroken(im, i)
  <1>. DEFINE im == Image[src]
  <1>1. CASE ReadCause(im, err)
    BY <1>1, UnreadableCauses
  <1>2. CASE slotCode(im, currentLayout.dstLen) = "dstTooSmall" /\ err = slotError(im)
    <2>1. err.name = "ErrDstTooSmall"
      BY <1>2, ErrorNamed DEF slotError
    <2>. QED  BY <1>2, <2>1, CanvasCauses
  <1>3. CASE CanvasFits(im) /\ ~ Decodable(im, i) /\ err = failure("ErrDecode")
    <2>1. err.name = "ErrDecode"
      BY <1>3, ErrorNamed
    <2>2. "ErrDecode" \in Contract!FrameBroken(im, i)
      BY <1>3, FrameCauses
    <2>. QED  BY <2>1, <2>2
  <1>. QED  BY <1>1, <1>2, <1>3, Zenon DEF GuestCause

(* Without a destination there is one cause more. *)
LEMMA NoDestination ==
  \A im : "ErrBadImage" \in Contract!DestinationUnfit(im, nilDst)
  BY DEF Contract!DestinationUnfit

(* DecodeFrame and DecodeRGBA draw one frame's rectangle of one destination. *)
LEMMA FrameSimulates ==
  ASSUME DecoderInv, NEW src \in Sources, NEW d \in Destinations \cup {nilDst},
         NEW index \in Int, NEW op, decodeFrame(op, d, src, index)
  PROVE  Contract!called(op, src, d, index) /\ Contract!DecodeFrame(d, src, index)
  <1>. DEFINE im     == Image[src]
              b      == im.frames[index + 1].bounds
              err    == lastCall'.err
              causes == Contract!Unreadable(im) \cup Contract!CanvasTooBig(im)
                        \cup Contract!FrameBroken(im, index)
                        \cup Contract!FrameOutside(im, index)
                        \cup Contract!DestinationUnfit(im, d)
  <1>0. MemoryOK
    BY DEF DecoderInv
  <1>1. /\ UNCHANGED <<memory, lastMetadata>>
        /\ returned(op, src, d, index, lastCall'.err, 0)
        /\ FrameFails(d, src, index) \/ FrameSucceeds(d, src, index)
    BY FrameStep DEF DecoderInv
  <1>2. CASE FrameFails(d, src, index)
    <2>1. FrameCause(d, src, index, err) /\ UNCHANGED <<pix, fields>>
      BY <1>2 DEF FrameFails
    <2>. HIDE DEF err, causes
    <2>2. CASE d = nilDst /\ err = failure("ErrBadImage")
      <3>1. err.name = "ErrBadImage"
        BY <2>2, ErrorNamed
      <3>. QED  BY <2>1, <2>2, <3>1, NoDestination, ContractFails, ContractCalled, <1>1
                DEF Contract!DecodeFrame, err, causes
    <2>3. CASE (index < 0 \/ index >= Word \div 2) /\ err = failure("ErrDecode")
      <3>1. err.name = "ErrDecode"
        BY <2>3, ErrorNamed
      <3>2. "ErrDecode" \in Contract!FrameBroken(im, index)
        BY <1>0, <2>3, FrameCauses
      <3>3. err.name \in causes
        BY <3>1, <3>2 DEF causes
      <3>4. Contract!Fails(causes)
        BY <2>1, <3>3, ContractFails DEF err
      <3>. QED  BY <1>1, <3>4, ContractCalled DEF Contract!DecodeFrame, causes
    <2>4. CASE GuestCause(im, index, err)
      <3>1. err.name \in causes
        BY <1>0, <2>4, GuestCauses DEF causes
      <3>2. Contract!Fails(causes)
        BY <2>1, <3>1, ContractFails DEF err
      <3>. QED  BY <1>1, <3>2, ContractCalled DEF Contract!DecodeFrame, causes
    <2>5. CASE /\ Decodable(im, index) /\ d \in Destinations
               /\ err = shapeError(d, im) /\ err # nilError
      <3>1. err.name \in Contract!DestinationUnfit(im, d)
        BY <1>0, <2>5, ShapeCauses DEF Decodable
      <3>2. err.name \in causes
        BY <3>1 DEF causes
      <3>3. Contract!Fails(causes)
        BY <2>1, <3>2, ContractFails DEF err
      <3>. QED  BY <1>1, <3>3, ContractCalled DEF Contract!DecodeFrame, causes
    <2>6. CASE /\ index >= 0 /\ Decodable(im, index)
               /\ badBounds(b, im.width, im.height) /\ err = failure("ErrDecode")
      <3>1. err.name = "ErrDecode"
        BY <2>6, ErrorNamed
      <3>2. "ErrDecode" \in Contract!FrameOutside(im, index)
        BY <1>0, <2>6, FrameCauses
      <3>3. err.name \in causes
        BY <3>1, <3>2 DEF causes
      <3>4. Contract!Fails(causes)
        BY <2>1, <3>3, ContractFails DEF err
      <3>. QED  BY <1>1, <3>4, ContractCalled DEF Contract!DecodeFrame, causes
    <2>. QED  BY <2>1, <2>2, <2>3, <2>4, <2>5, <2>6, Zenon DEF FrameCause
  <1>3. CASE FrameSucceeds(d, src, index)
    <2>1. /\ err = nilError
          /\ d \in Destinations /\ index >= 0 /\ index < Word \div 2
          /\ Readable(im) /\ Decodable(im, index) /\ CanvasFits(im)
          /\ shapeError(d, im) = nilError
          /\ ~ badBounds(b, im.width, im.height)
          /\ pix' = [pix EXCEPT ![d] = frameDrawn(@, src, index)]
          /\ lastMeta' = decodedMeta(im)
          /\ lastFrame' = decodedFrame(src, index)
      BY <1>3, Zenon DEF FrameSucceeds, Decodable
    <2>2. causes = {}
      <3>1. Contract!Unreadable(im) = {}
        BY <1>0, <2>1, UnreadableCauses
      <3>2. Contract!CanvasTooBig(im) = {}
        BY <1>0, <2>1, CanvasCauses
      <3>3. Contract!FrameBroken(im, index) = {} /\ Contract!FrameOutside(im, index) = {}
        BY <1>0, <2>1, FrameCauses
      <3>4. Contract!DestinationUnfit(im, d) = {}
        BY <1>0, <2>1, ShapeCauses
      <3>. QED  BY <3>1, <3>2, <3>3, <3>4
    <2>. HIDE DEF causes
    <2>3. Contract!Succeeds(causes)
      BY <2>1, <2>2, ContractSucceeds
    <2>4. pix' = [pix EXCEPT ![d] =
                    [c \in Contract!Canvas |->
                       IF Contract!Inside(b, c)
                         THEN Contract!Pixel(src, index, c, Contract!RGBAPremul)
                         ELSE @[c]]]
      BY <2>1, SameImages DEF frameDrawn
    <2>5. lastMeta' = Contract!Meta(im, 4)
      <3>1. decodedMeta(im) =
              [ err |-> "ok", width |-> im.width, height |-> im.height,
                stride |-> 4 * im.width, bytesWritten |-> 4 * (im.width * im.height),
                format |-> im.fourcc ]
        BY <1>0, <2>1, DecodedMeta
      <3>2. 4 * im.width * im.height = 4 * (im.width * im.height)
        <4>1. im.width \in Nat /\ im.height \in Nat
          BY SourceFacts, Words
        <4>. HIDE DEF im
        <4>. QED  BY <4>1, Products
      <3>. QED  BY <2>1, <3>1, <3>2 DEF Contract!Meta
    <2>6. [src |-> lastFrame'.src, index |-> lastFrame'.index,
           bounds |-> lastFrame'.bounds]
            = [src |-> src, index |-> index, bounds |-> b]
      BY <2>1 DEF decodedFrame, readFrameMeta
    <2>7. UNCHANGED lastMetadata
      BY <1>1
    <2>. QED  BY <1>1, <2>3, <2>4, <2>5, <2>6, <2>7, ContractCalled
              DEF Contract!DecodeFrame, causes
  <1>. QED  BY <1>1, <1>2, <1>3

\* The pixels of a still decode that shows each decoded pixel p as show(p).
stillDrawn(d, src, fmt, op) ==
  LET im          == Image[src]
      onCanvas(c) == c[1] < im.width /\ c[2] < im.height
      shownAs(p)  == IF op = "DecodeGray" THEN gray(p) ELSE p
  IN  /\ \A e \in Destinations \ {d} : pix'[e] = pix[e]
      /\ \A c \in Canvas :
           /\ Inside(im.frames[1].bounds, c) /\ onCanvas(c)
                => pix'[d][c] = shownAs(Pixel(src, 0, c, fmt))
           /\ ~ onCanvas(c) => pix'[d][c] = pix[d][c]

(* A still decode fails for a cause of the contract, or draws the canvas. *)
LEMMA StillOutcome ==
  ASSUME DecoderInv, NEW src \in Sources, NEW d \in Destinations \cup {nilDst},
         NEW fmt, NEW op, decodeStill(op, d, src, fmt)
  PROVE  LET im     == Image[src]
             causes == Contract!Unreadable(im) \cup Contract!CanvasTooBig(im)
                       \cup Contract!FrameBroken(im, 0)
                       \cup Contract!DestinationUnfit(im, d)
         IN  /\ UNCHANGED <<memory, lastFrame, lastMetadata>>
             /\ Contract!called(op, src, d, 0)
             /\ \/ Contract!Fails(causes)
                \/ /\ Contract!Succeeds(causes)
                   /\ stillDrawn(d, src, fmt, op)
                   /\ lastMeta' = Contract!Meta(im, IF op = "DecodeGray" THEN 1 ELSE 4)
  <1>. DEFINE im     == Image[src]
              err    == lastCall'.err
              causes == Contract!Unreadable(im) \cup Contract!CanvasTooBig(im)
                        \cup Contract!FrameBroken(im, 0)
                        \cup Contract!DestinationUnfit(im, d)
  <1>0. MemoryOK /\ PixOK
    BY DEF DecoderInv
  <1>1. /\ UNCHANGED <<memory, lastFrame, lastMetadata>>
        /\ returned(op, src, d, 0, lastCall'.err, 0)
        /\ StillFails(d, src) \/ StillSucceeds(op, d, src, fmt)
    BY StillStep DEF DecoderInv
  <1>2. Contract!called(op, src, d, 0)
    BY <1>1, ContractCalled
  <1>3. CASE StillFails(d, src)
    <2>1. StillCause(d, src, err) /\ UNCHANGED <<pix, fields>>
      BY <1>3 DEF StillFails
    <2>. HIDE DEF err, causes
    <2>2. err.name \in causes
      <3>1. CASE d = nilDst /\ err = failure("ErrBadImage")
        BY <3>1, ErrorNamed, NoDestination DEF causes
      <3>2. CASE GuestCause(im, 0, err)
        BY <1>0, <3>2, GuestCauses DEF causes
      <3>3. CASE /\ Decodable(im, 0) /\ d \in Destinations
                 /\ err = shapeError(d, im) /\ err # nilError
        <4>1. err.name \in Contract!DestinationUnfit(im, d)
          BY <1>0, <3>3, ShapeCauses DEF Decodable
        <4>. QED  BY <4>1 DEF causes
      <3>. QED  BY <2>1, <3>1, <3>2, <3>3, Zenon DEF StillCause
    <2>3. Contract!Fails(causes)
      BY <2>1, <2>2, ContractFails DEF err
    <2>. QED  BY <1>1, <1>2, <2>3 DEF causes
  <1>4. CASE StillSucceeds(op, d, src, fmt)
    <2>1. /\ err = nilError
          /\ d \in Destinations
          /\ Readable(im) /\ Decodable(im, 0) /\ CanvasFits(im)
          /\ shapeError(d, im) = nilError
          /\ pix' = [pix EXCEPT ![d] = drawn(op, @, slots'.dst, im.width, im.height)]
          /\ lastMeta' = shown(op, decodedMeta(im))
      BY <1>4, Zenon DEF StillSucceeds, Decodable
    <2>2. \A c \in Canvas :
            Inside(im.frames[1].bounds, c) /\ c[1] < im.width /\ c[2] < im.height
              => slots'.dst[cellOf(c, im.width)] = Pixel(src, 0, c, fmt)
      BY <1>4, Zenon DEF StillSucceeds
    <2>3. causes = {}
      <3>1. Contract!Unreadable(im) = {}
        BY <1>0, <2>1, UnreadableCauses
      <3>2. Contract!CanvasTooBig(im) = {}
        BY <1>0, <2>1, CanvasCauses
      <3>3. Contract!FrameBroken(im, 0) = {}
        <4>1. 0 \in Int /\ 0 >= 0 /\ 0 < Word \div 2
          BY Words
        <4>. QED  BY <1>0, <2>1, <4>1, FrameCauses
      <3>4. Contract!DestinationUnfit(im, d) = {}
        BY <1>0, <2>1, ShapeCauses
      <3>. QED  BY <3>1, <3>2, <3>3, <3>4
    <2>. HIDE DEF causes
    <2>4. Contract!Succeeds(causes)
      BY <2>1, <2>3, ContractSucceeds
    <2>. DEFINE dst      == slots'.dst
                cell(c)  == dst[cellOf(c, im.width)]
                on(c)    == c[1] < im.width /\ c[2] < im.height
                look(p)  == IF op = "DecodeGray" THEN gray(p) ELSE p
    <2>5. ASSUME NEW c \in Canvas
          PROVE  pix'[d][c] = IF on(c) THEN look(cell(c)) ELSE pix[d][c]
      <3>1. pix'[d] = drawn(op, pix[d], dst, im.width, im.height)
        BY <1>0, <2>1 DEF PixOK
      <3>2. drawn(op, pix[d], dst, im.width, im.height)[c]
              = IF on(c) THEN look(cell(c)) ELSE pix[d][c]
        BY DEF drawn, convertCanvas, copyCanvas
      <3>. QED  BY <3>1, <3>2
    <2>6. stillDrawn(d, src, fmt, op)
      <3>1. \A e \in Destinations \ {d} : pix'[e] = pix[e]
        BY <1>0, <2>1 DEF PixOK
      <3>2. ASSUME NEW c \in Canvas
            PROVE  /\ Inside(im.frames[1].bounds, c) /\ on(c)
                        => pix'[d][c] = look(Pixel(src, 0, c, fmt))
                   /\ ~ on(c) => pix'[d][c] = pix[d][c]
        <4>1. Inside(im.frames[1].bounds, c) /\ on(c) => cell(c) = Pixel(src, 0, c, fmt)
          BY <2>2
        <4>. HIDE DEF cell, look
        <4>. QED  BY <2>5, <4>1
      <3>. QED  BY <3>1, <3>2, Zenon DEF stillDrawn
    <2>7. lastMeta' = Contract!Meta(im, IF op = "DecodeGray" THEN 1 ELSE 4)
      <3>1. shown(op, decodedMeta(im)) =
              [ err |-> "ok", width |-> im.width, height |-> im.height,
                stride |-> 4 * im.width,
                bytesWritten |-> IF op = "DecodeGray" THEN im.width * im.height
                                 ELSE 4 * (im.width * im.height),
                format |-> im.fourcc ]
        BY <1>0, <2>1, DecodedMeta
      <3>2. 4 * im.width * im.height = 4 * (im.width * im.height)
            /\ 1 * im.width * im.height = im.width * im.height
        <4>1. im.width \in Nat /\ im.height \in Nat
          BY SourceFacts, Words
        <4>. HIDE DEF im
        <4>. QED  BY <4>1, Products
      <3>3. CASE op = "DecodeGray"
        BY <2>1, <3>1, <3>2, <3>3 DEF Contract!Meta
      <3>4. CASE op # "DecodeGray"
        BY <2>1, <3>1, <3>2, <3>4 DEF Contract!Meta
      <3>. QED  BY <3>3, <3>4
    <2>. QED  BY <1>1, <1>2, <2>4, <2>6, <2>7 DEF causes
  <1>. QED  BY <1>1, <1>3, <1>4

(* DecodeNRGBA and DecodeGray are the contract's still decodes. *)
LEMMA NRGBASimulates ==
  ASSUME DecoderInv, NEW src \in Sources, NEW d \in Destinations \cup {nilDst},
         decodeStill("DecodeNRGBA", d, src, RGBANonPremul)
  PROVE  /\ Contract!called("DecodeNRGBA", src, d, 0)
         /\ Contract!DecodeStill(d, src, 4, LAMBDA c :
              Contract!Pixel(src, 0, c, Contract!RGBANonPremul))
  <1>. DEFINE im     == Image[src]
              causes == Contract!Unreadable(im) \cup Contract!CanvasTooBig(im)
                        \cup Contract!FrameBroken(im, 0)
                        \cup Contract!DestinationUnfit(im, d)
  <1>1. /\ UNCHANGED <<memory, lastFrame, lastMetadata>>
        /\ Contract!called("DecodeNRGBA", src, d, 0)
        /\ \/ Contract!Fails(causes)
           \/ /\ Contract!Succeeds(causes)
              /\ stillDrawn(d, src, RGBANonPremul, "DecodeNRGBA")
              /\ lastMeta' = Contract!Meta(im, 4)
    <2>. DEFINE bytes == IF "DecodeNRGBA" = "DecodeGray" THEN 1 ELSE 4
    <2>1. /\ UNCHANGED <<memory, lastFrame, lastMetadata>>
          /\ Contract!called("DecodeNRGBA", src, d, 0)
          /\ \/ Contract!Fails(causes)
             \/ /\ Contract!Succeeds(causes)
                /\ stillDrawn(d, src, RGBANonPremul, "DecodeNRGBA")
                /\ lastMeta' = Contract!Meta(im, bytes)
      BY StillOutcome, Zenon
    <2>2. bytes = 4
      OBVIOUS
    <2>. HIDE DEF bytes, causes
    <2>. QED  BY <2>1, <2>2
  <1>2. stillDrawn(d, src, RGBANonPremul, "DecodeNRGBA")
          => /\ \A e \in Destinations \ {d} : pix'[e] = pix[e]
             /\ \A c \in Contract!Canvas :
                  /\ Contract!Inside(im.frames[1].bounds, c)
                       /\ (c[1] < im.width /\ c[2] < im.height)
                       => pix'[d][c] = Contract!Pixel(src, 0, c, Contract!RGBANonPremul)
                  /\ ~ (c[1] < im.width /\ c[2] < im.height)
                       => pix'[d][c] = pix[d][c]
    BY SameImages DEF stillDrawn
  <1>. QED  BY <1>1, <1>2 DEF Contract!DecodeStill, causes

LEMMA GraySimulates ==
  ASSUME DecoderInv, NEW src \in Sources, NEW d \in Destinations \cup {nilDst},
         decodeStill("DecodeGray", d, src, BGRAPremul)
  PROVE  /\ Contract!called("DecodeGray", src, d, 0)
         /\ Contract!DecodeStill(d, src, 1, LAMBDA c :
              Contract!gray(Contract!Pixel(src, 0, c, Contract!BGRAPremul)))
  <1>. DEFINE im     == Image[src]
              causes == Contract!Unreadable(im) \cup Contract!CanvasTooBig(im)
                        \cup Contract!FrameBroken(im, 0)
                        \cup Contract!DestinationUnfit(im, d)
  <1>1. /\ UNCHANGED <<memory, lastFrame, lastMetadata>>
        /\ Contract!called("DecodeGray", src, d, 0)
        /\ \/ Contract!Fails(causes)
           \/ /\ Contract!Succeeds(causes)
              /\ stillDrawn(d, src, BGRAPremul, "DecodeGray")
              /\ lastMeta' = Contract!Meta(im, 1)
    BY StillOutcome
  <1>2. stillDrawn(d, src, BGRAPremul, "DecodeGray")
          => /\ \A e \in Destinations \ {d} : pix'[e] = pix[e]
             /\ \A c \in Contract!Canvas :
                  /\ Contract!Inside(im.frames[1].bounds, c)
                       /\ (c[1] < im.width /\ c[2] < im.height)
                       => pix'[d][c] = Contract!gray(Contract!Pixel(src, 0, c,
                                                       Contract!BGRAPremul))
                  /\ ~ (c[1] < im.width /\ c[2] < im.height)
                       => pix'[d][c] = pix[d][c]
    BY SameImages DEF stillDrawn
  <1>. QED  BY <1>1, <1>2 DEF Contract!DecodeStill, causes

(* One call of a decoder is one step of the contract. *)
LEMMA StepSimulates ==
  ASSUME DecoderInv, Next
  PROVE  Contract!Next
  <1>. DEFINE simulated(src) ==
         UNCHANGED <<currentLayout.dstLen, currentLayout.srcLen>> /\ Contract!Call(src)
  <1>0. UNCHANGED memory => UNCHANGED <<currentLayout.dstLen, currentLayout.srcLen>>
    BY DEF memory
  <1>1. ASSUME NEW dstBytes \in Requests, NEW srcBytes \in Requests,
               Reserve(dstBytes, srcBytes)
        PROVE  Contract!Next
    BY <1>1, ReserveSimulates DEF Contract!Next
  <1>2. ASSUME NEW src \in Sources, Probe(src)
        PROVE  simulated(src)
    <2>1. UNCHANGED memory
      BY <1>2 DEF Probe
    <2>. QED  BY <1>0, <1>2, <2>1, ProbeSimulates, Zenon DEF Contract!Call
  <1>3. ASSUME NEW src \in Sources, FrameCount(src)
        PROVE  simulated(src)
    <2>1. UNCHANGED memory
      BY <1>3 DEF FrameCount
    <2>. QED  BY <1>0, <1>3, <2>1, FrameCountSimulates, Zenon DEF Contract!Call
  <1>4. ASSUME NEW src \in Sources, LoopCount(src)
        PROVE  simulated(src)
    <2>1. UNCHANGED memory
      BY <1>4 DEF LoopCount
    <2>. QED  BY <1>0, <1>4, <2>1, LoopCountSimulates, Zenon DEF Contract!Call
  <1>5. ASSUME NEW src \in Sources, Metadata(src)
        PROVE  simulated(src)
    <2>1. UNCHANGED memory
      BY <1>5 DEF Metadata
    <2>. QED  BY <1>0, <1>5, <2>1, MetadataSimulates, Zenon DEF Contract!Call
  <1>6. ASSUME NEW src \in Sources, NEW d \in ofKind("RGBA"),
               decodeFrame("DecodeRGBA", d, src, 0)
        PROVE  simulated(src)
    <2>1. d \in Destinations \cup {nilDst} /\ 0 \in Int /\ d \in Contract!ofKind("RGBA")
      BY Arguments, SameImages
    <2>2. UNCHANGED memory
      BY <1>6, <2>1, FrameStep DEF DecoderInv
    <2>3. Contract!called("DecodeRGBA", src, d, 0) /\ Contract!DecodeFrame(d, src, 0)
      BY <1>6, <2>1, FrameSimulates
    <2>. QED  BY <1>0, <2>1, <2>2, <2>3, Zenon DEF Contract!Call
  <1>7. ASSUME NEW src \in Sources, NEW d \in ofKind("RGBA"), NEW index \in Indices,
               decodeFrame("DecodeFrame", d, src, index)
        PROVE  simulated(src)
    <2>1. d \in Destinations \cup {nilDst} /\ index \in Int
          /\ d \in Contract!ofKind("RGBA")
      BY Arguments, SameImages
    <2>2. UNCHANGED memory
      BY <1>7, <2>1, FrameStep DEF DecoderInv
    <2>3. /\ Contract!called("DecodeFrame", src, d, index)
          /\ Contract!DecodeFrame(d, src, index)
      BY <1>7, <2>1, FrameSimulates
    <2>. QED  BY <1>0, <2>1, <2>2, <2>3, Zenon DEF Contract!Call
  <1>8. ASSUME NEW src \in Sources, NEW d \in ofKind("NRGBA"),
               decodeStill("DecodeNRGBA", d, src, RGBANonPremul)
        PROVE  simulated(src)
    <2>1. d \in Destinations \cup {nilDst} /\ d \in Contract!ofKind("NRGBA")
      BY Arguments, SameImages
    <2>2. UNCHANGED memory
      BY <1>8, <2>1, StillStep DEF DecoderInv
    <2>. QED  BY <1>0, <1>8, <2>1, <2>2, NRGBASimulates, Zenon DEF Contract!Call
  <1>9. ASSUME NEW src \in Sources, NEW d \in ofKind("Gray"),
               decodeStill("DecodeGray", d, src, BGRAPremul)
        PROVE  simulated(src)
    <2>1. d \in Destinations \cup {nilDst} /\ d \in Contract!ofKind("Gray")
      BY Arguments, SameImages
    <2>2. UNCHANGED memory
      BY <1>9, <2>1, StillStep DEF DecoderInv
    <2>. QED  BY <1>0, <1>9, <2>1, <2>2, GraySimulates, Zenon DEF Contract!Call
  <1>10. \A src \in Sources : simulated(src) => Contract!Next
    BY Zenon DEF Contract!Next
  <1>. HIDE DEF simulated
  <1>. QED  BY <1>1, <1>2, <1>3, <1>4, <1>5, <1>6, <1>7, <1>8, <1>9, <1>10, Calls

(* Each call is one step of DecodeContract: its causes to fail, what it returns and
   the pixels it draws are given by its arguments and the two capacities, but for
   the pixels of a still decode outside the first frame's rectangle, which the
   contract leaves open because earlier bytes of the dst slot come back there.  The
   slots, which the contract does not have, are what the refinement map forgets. *)
THEOREM DecoderImplementsContract == Spec => ImplementsDecodeContract
  <1>1. Init => Contract!Init
    BY SameImages DEF Init, Contract!Init
  <1>2. DecoderInv /\ [Next]_vars => [Contract!Next]_Contract!vars
    <2>1. UNCHANGED vars => UNCHANGED Contract!vars
      BY DEF vars, memory, fields, Contract!vars, Contract!results
    <2>. QED  BY <2>1, StepSimulates
  <1>. QED
    BY <1>1, <1>2, DecoderInvariant, PTL
       DEF Spec, ImplementsDecodeContract, Contract!Spec

=============================================================================
