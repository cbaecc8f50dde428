-------------------------------- MODULE Decoder --------------------------------
(***************************************************************************)
(* A Decoder (decoder.go): the host side of every call, over the guest       *)
(* memory of GuestMemory and the exports of GuestShim.  A decoder is used by  *)
(* one goroutine, so a call is one step; what makes it hard is what one call   *)
(* leaves in the reusable slots and fields for the next.                       *)
(***************************************************************************)
EXTENDS GuestShim, FrameTiming

CONSTANTS
  InitialDstSlotBytes,   \* the package variable initialDstSlotBytes
  Requests               \* the ints callers pass to Reserve

ASSUME DecoderAssumption ==
  /\ InitialDstSlotBytes \in Nat
  /\ InitialDstSlotBytes <= 131072         \* defaultInitialDstSlotBytes
  /\ Requests \subseteq Int

VARIABLES
  memSize, currentLayout, reserveErr,   \* GuestMemory
  slots,          \* contents of the slots at the current layout
  pix,            \* the pixels of every destination
  lastMeta, lastFrame, lastMetadata,    \* the fields returned pointers alias
  lastCall        \* the last call and what it returned

Mem == INSTANCE GuestMemory

fields == <<lastMeta, lastFrame, lastMetadata>>
memory == <<memSize, currentLayout, reserveErr>>
vars   == <<memory, slots, pix, fields, lastCall>>

noMetadata == [format |-> noFormat, src |-> noFormat]

----------------------------------------------------------------------------
(* Errors. *)

failure(name) ==
  [name |-> name, minBytes |-> 0, width |-> 0, height |-> 0, stride |-> 0]
nilError == failure("nil")

\* MUTANT of dstTooSmall: the tight size whatever the stride.
tightTooSmall(minBytes, width, height, stride) ==
  [ name |-> "ErrDstTooSmall", minBytes |-> 4 * width * height, width |-> width,
    height |-> height, stride |-> stride ]

dstTooSmall(minBytes, width, height, stride) ==
  [ name |-> "ErrDstTooSmall", minBytes |-> minBytes, width |-> width,
    height |-> height, stride |-> stride ]

\* errFromGuestReturn, with the fields a decode fills from the meta slot.
guestError(call) ==
  CASE call.ret = "ok"          -> nilError
    [] call.ret = "unknown"     -> failure("ErrUnknownFormat")
    [] call.ret = "dstTooSmall" ->
         LET m == call.slots.meta
         IN  dstTooSmall(U32(m.stride * m.height), m.width, m.height, m.stride)
    [] OTHER                    -> failure("ErrDecode")

validateDestination(shape, width, height) ==
  LET row   == width * bytesPerPixel[shape.kind]
      tight == row * height
      total == shape.stride * height
  IN  CASE \/ shape.width = 0 \/ shape.height = 0 \/ shape.pixLen = 0
           \/ ~ shape.atOrigin            -> failure("ErrBadImage")
        [] OTHER ->
           CASE \/ shape.width # width \/ shape.height # height
                \/ width = 0 \/ height = 0
                \/ tight >= Word          -> failure("ErrBadImage")
             [] OTHER ->
                CASE shape.stride < row   -> dstTooSmall(tight, width, height, row)
                  [] OTHER ->
                     CASE total >= Word   -> failure("ErrBadImage")
                       [] OTHER ->
                          IF shape.pixLen < total
                            THEN dstTooSmall(total, width, height, shape.stride)
                            ELSE nilError

\* MUTANT of badBounds: an empty rectangle passes.
outOfCanvas(b, width, height) == b.maxX > width \/ b.maxY > height

\* DecodeFrame's check of the bounds the guest reports (image.Rect leaves corners
\* that are in order as they are).
badBounds(b, width, height) ==
  b.minX >= b.maxX \/ b.minY >= b.maxY \/ b.maxX > width \/ b.maxY > height

checkSrcCapacity(src) == Image[src].len <= currentLayout.srcLen

\* MUTANT of copySrcToSlot: keeps the source it has.
cachedSrc(src) == IF slots.src = noFormat THEN [slots EXCEPT !.src = src] ELSE slots

copySrcToSlot(src) == [slots EXCEPT !.src = src]

----------------------------------------------------------------------------
(* Pixels the host copies out of the dst slot. *)

cellOf(c, width) == c[2] * width + c[1]

\* MUTANT of copyRegion: a new Pix of the region alone.
replaceRegion(old, dst, width, b) ==
  [c \in {c \in Canvas : Inside(b, c)} |-> dst[cellOf(c, width)]]

\* copyScratchToRGBARegion
copyRegion(old, dst, width, b) ==
  [c \in Canvas |-> IF Inside(b, c) THEN dst[cellOf(c, width)] ELSE old[c]]

\* MUTANT of copyCanvas: rows one pixel short.
copyShortRows(old, dst, width, height) ==
  [c \in Canvas |-> IF c[1] < width - 1 /\ c[2] < height
                      THEN dst[cellOf(c, width)] ELSE old[c]]

\* copyScratchToNRGBA
copyCanvas(old, dst, width, height) ==
  [c \in Canvas |-> IF c[1] < width /\ c[2] < height
                      THEN dst[cellOf(c, width)] ELSE old[c]]

\* convertBGRAToGray
convertCanvas(old, dst, width, height) ==
  [c \in Canvas |-> IF c[1] < width /\ c[2] < height
                      THEN gray(dst[cellOf(c, width)]) ELSE old[c]]

\* MUTANT of stored: the field is set before the error is looked at.
storedAlways(err, new, old) == new

\* A reusable field is set once nothing can fail any more.
stored(err, new, old) == IF err.name = "nil" THEN new ELSE old

\* The Frame of a frame meta slot.
readFrameMeta(slot) ==
  [ src |-> slot.src, index |-> slot.index, bounds |-> slot.bounds,
    duration |-> duration(slot.flicks) ]

----------------------------------------------------------------------------
Init ==
  /\ Mem!Init
  /\ slots = [ src |-> noFormat, meta |-> zeroMeta, frame |-> zeroFrame,
               count |-> 0, loops |-> 0, dst |-> [k \in Cells |-> Zero] ]
  /\ pix = [d \in Destinations |-> [c \in Canvas |-> Caller]]
  /\ lastMeta = zeroMeta
  /\ lastFrame = readFrameMeta(zeroFrame)
  /\ lastMetadata = noMetadata
  /\ lastCall = [ op |-> "New", src |-> noFormat, dst |-> nilDst, index |-> 0,
                  err |-> nilError, value |-> 0 ]

returned(op, src, dst, index, err, value) ==
  lastCall' = [ op |-> op, src |-> src, dst |-> dst, index |-> index,
                err |-> err, value |-> value ]

\* A slot that moved holds whatever bytes were at its new offset.
Reserve(dstBytes, srcBytes) ==
  LET at(off, old, moved) ==
        IF currentLayout'[off] = currentLayout[off] THEN old ELSE moved
  IN  /\ Mem!Reserve(dstBytes, srcBytes)
      /\ slots' = [ src   |-> at("srcOff", slots.src, noFormat),
                    meta  |-> at("metaOff", slots.meta, junkMeta),
                    frame |-> at("frameMetaOff", slots.frame, junkFrame),
                    count |-> at("countOutOff", slots.count, -1),
                    loops |-> at("loopsOutOff", slots.loops, -1),
                    dst   |-> at("dstOff", slots.dst, [k \in Cells |-> Junk]) ]
      /\ returned("Reserve", noFormat, nilDst, 0,
                  failure(reserveErr'), 0)
      /\ UNCHANGED <<pix, fields>>

\* A source the slot cannot hold never reaches the guest.
readError(src, call) ==
  IF checkSrcCapacity(src) THEN guestError(call) ELSE failure("ErrSrcTooLarge")

slotsAfter(src, call) == IF checkSrcCapacity(src) THEN call.slots ELSE slots

\* In the actions below \E x \in {e} names the value of e, which TLC then
\* computes once; each has one step.

Probe(src) ==
  \E call \in {probe_image(copySrcToSlot(src))} :
  \E err \in {readError(src, call)} :
    /\ slots' = slotsAfter(src, call)
    /\ lastMeta' = stored(err, call.slots.meta, lastMeta)
    /\ returned("Probe", src, nilDst, 0, err, 0)
    /\ UNCHANGED <<memory, pix, lastFrame, lastMetadata>>

FrameCount(src) ==
  \E call \in {frame_count([copySrcToSlot(src) EXCEPT !.count = 0])} :
  \E err \in {IF checkSrcCapacity(src) /\ call.ret = "ok" /\ call.slots.count <= 0
                THEN failure("ErrDecode") ELSE readError(src, call)} :
    /\ slots' = slotsAfter(src, call)
    /\ returned("FrameCount", src, nilDst, 0, err,
                IF err.name = "nil" THEN call.slots.count ELSE 0)
    /\ UNCHANGED <<memory, pix, fields>>

LoopCount(src) ==
  \E call \in {animation_loops([copySrcToSlot(src) EXCEPT !.loops = 0])} :
  \E err \in {readError(src, call)} :
    /\ slots' = slotsAfter(src, call)
    /\ returned("LoopCount", src, nilDst, 0, err,
                IF err.name = "nil" THEN call.slots.loops ELSE 0)
    /\ UNCHANGED <<memory, pix, fields>>

minimumMetadataDstSlotBytes == 64 * 1024

\* The host zeroes the pack header and asks for the pack; a dst slot that is too
\* short ends the call before that.
packCall(src) ==
  LET copied == copySrcToSlot(src)
      header == WUFFS_WASM_METADATA_PACK_HEADER_SIZE
  IN  IF currentLayout.dstLen < minimumMetadataDstSlotBytes
        THEN [ret |-> "decode", slots |-> copied]
        ELSE read_image_metadata([copied EXCEPT !.dst = overwritten(@, header, Zero)],
                                 currentLayout.dstLen)

\* The source of the pack a cell is part of.
packSource(cell) == cell[2]

\* What the host makes of the pack that begins in a cell.
readPack(cell) ==
  [format |-> Image[packSource(cell)].fourcc, src |-> packSource(cell)]

Metadata(src) ==
  \E call \in {packCall(src)} :
  \E err \in {readError(src, call)} :
    /\ slots' = slotsAfter(src, call)
    /\ lastMetadata' = IF err.name = "nil" THEN readPack(call.slots.dst[0])
                       ELSE lastMetadata
    /\ returned("Metadata", src, nilDst, 0, err, 0)
    /\ UNCHANGED <<memory, pix, lastMeta, lastFrame>>

\* What DecodeFrame finds wrong once the guest has returned.
frameError(d, call) ==
  LET meta    == call.slots.meta
      invalid == validateDestination(Dest[d], meta.width, meta.height)
  IN  IF call.ret # "ok" THEN guestError(call)
      ELSE IF invalid # nilError THEN invalid
      ELSE IF badBounds(call.slots.frame.bounds, meta.width, meta.height)
        THEN failure("ErrDecode") ELSE nilError

\* DecodeFrame, and DecodeRGBA which is DecodeFrame of frame 0.
decodeFrame(op, d, src, index) ==
  LET zeroed == [copySrcToSlot(src) EXCEPT !.meta = zeroMeta, !.frame = zeroFrame]
      early  == IF d = nilDst THEN failure("ErrBadImage")
                ELSE IF index < 0 \/ index >= Word \div 2 THEN failure("ErrDecode")
                ELSE IF ~ checkSrcCapacity(src) THEN failure("ErrSrcTooLarge")
                ELSE nilError
  IN  IF early # nilError
        THEN /\ returned(op, src, d, index, early, 0)
             /\ UNCHANGED <<memory, slots, pix, fields>>
        ELSE \E call \in {decode_frame(zeroed, currentLayout.dstLen, index, RGBAPremul)} :
             \E err \in {frameError(d, call)} :
               LET meta  == call.slots.meta
                   frame == readFrameMeta(call.slots.frame)
               IN  /\ slots' = call.slots
                   /\ pix' = IF err.name # "nil" THEN pix
                             ELSE [pix EXCEPT ![d] =
                                     copyRegion(@, call.slots.dst, meta.width,
                                                frame.bounds)]
                   /\ lastMeta' = stored(err, meta, lastMeta)
                   /\ lastFrame' = stored(err, frame, lastFrame)
                   /\ returned(op, src, d, index, err, 0)
                   /\ UNCHANGED <<memory, lastMetadata>>

DecodeFrame(d, src, index) == decodeFrame("DecodeFrame", d, src, index)
DecodeRGBA(d, src)         == decodeFrame("DecodeRGBA", d, src, 0)

\* What DecodeNRGBA and DecodeGray do with a decoded canvas.
drawn(op, old, dst, width, height) ==
  IF op = "DecodeGray" THEN convertCanvas(old, dst, width, height)
  ELSE copyCanvas(old, dst, width, height)

shown(op, meta) ==
  IF op = "DecodeGray" THEN [meta EXCEPT !.bytesWritten = U32(meta.width * meta.height)]
  ELSE meta

\* decodeImageForDestination and what DecodeNRGBA and DecodeGray do around it.
decodeStill(op, d, src, fmt) ==
  LET early == IF d = nilDst THEN failure("ErrBadImage")
               ELSE IF ~ checkSrcCapacity(src) THEN failure("ErrSrcTooLarge")
               ELSE nilError
  IN  IF early # nilError
        THEN /\ returned(op, src, d, 0, early, 0)
             /\ UNCHANGED <<memory, slots, pix, fields>>
        ELSE \E call \in {decode_image(copySrcToSlot(src), currentLayout.dstLen, fmt)} :
             LET meta == call.slots.meta
             IN  \E err \in {IF call.ret # "ok" THEN guestError(call)
                             ELSE validateDestination(Dest[d], meta.width, meta.height)} :
                   /\ slots' = call.slots
                   /\ pix' = IF err.name # "nil" THEN pix
                             ELSE [pix EXCEPT ![d] =
                                     drawn(op, @, call.slots.dst, meta.width,
                                           meta.height)]
                   /\ lastMeta' = stored(err, shown(op, meta), lastMeta)
                   /\ returned(op, src, d, 0, err, 0)
                   /\ UNCHANGED <<memory, lastFrame, lastMetadata>>

DecodeNRGBA(d, src) == decodeStill("DecodeNRGBA", d, src, RGBANonPremul)
DecodeGray(d, src)  == decodeStill("DecodeGray", d, src, BGRAPremul)

Next ==
  \/ \E dstBytes, srcBytes \in Requests : Reserve(dstBytes, srcBytes)
  \/ \E src \in Sources :
       \/ Probe(src)
       \/ FrameCount(src)
       \/ LoopCount(src)
       \/ Metadata(src)
       \/ \E d \in ofKind("RGBA") :
            \/ DecodeRGBA(d, src)
            \/ \E index \in Indices : DecodeFrame(d, src, index)
       \/ \E d \in ofKind("NRGBA") : DecodeNRGBA(d, src)
       \/ \E d \in ofKind("Gray") : DecodeGray(d, src)

Spec == Init /\ [][Next]_vars

----------------------------------------------------------------------------
ErrorNames == {"nil", "ErrDecode", "ErrUnknownFormat", "ErrSrcTooLarge",
               "ErrDstTooSmall", "ErrBadImage", "invalid", "growFailed"}

(* Every variable has its type. *)
Errors == [ name : ErrorNames, minBytes : uint32, width : uint32, height : uint32,
            stride : uint32 ]

TypeOK ==
  /\ Mem!TypeOK
  /\ slots.meta.width \in uint32 /\ slots.meta.stride \in uint32
  /\ DOMAIN slots.dst = Cells
  /\ DOMAIN pix = Destinations
  /\ \A d \in Destinations : DOMAIN pix[d] = Canvas
  /\ lastMeta.bytesWritten \in uint32
  /\ lastFrame.index \in Nat /\ lastFrame.duration \in Int
  /\ lastCall.err \in Errors

ok == lastCall.err.name = "nil"

(* A call the dst slot was too small for: the error is the guest's, and not
   that of a destination with a short Stride or Pix. *)
slotWasTooSmall ==
  /\ lastCall.err.name = "ErrDstTooSmall"
  /\ slotCode(Image[lastCall.src], currentLayout.dstLen) = "dstTooSmall"

(* What a DstTooSmallError asks for is what the call lacked.  With a dst slot of
   MinBytes the slot is no longer too small, and MinBytes is more than it has;
   a destination of the error's Stride and MinBytes is no longer refused.  This
   is so of every canvas whose bytes a uint32 counts. *)
RetryAdvice ==
  LET im  == Image[lastCall.src]
      err == lastCall.err
  IN  /\ slotWasTooSmall /\ im.width * im.height \in 1 .. Word \div 4 - 1
           => /\ err.minBytes > currentLayout.dstLen
              /\ slotCode(im, err.minBytes) = "ok"
      /\ err.name = "ErrDstTooSmall" /\ ~ slotWasTooSmall
           => validateDestination([Dest[lastCall.dst] EXCEPT !.stride = err.stride,
                                                             !.pixLen = err.minBytes],
                                  im.width, im.height) = nilError

(* A call that fails leaves every destination's pixels and everything earlier
   calls returned as they were, however far the guest got. *)
FailureChangesNothingReturned ==
  [][lastCall'.err.name # "nil" => UNCHANGED <<pix, fields>>]_vars

(* The geometry Probe reports is the one the decodes need: when the probed
   source is decoded next into a canvas of that size, and the dst slot holds
   Stride * Height bytes, the shape and size of neither is refused.  This is so
   of every canvas with a row whose bytes a uint32 counts. *)
ProbedGeometryDecodes ==
  [][ /\ lastCall.op = "Probe" /\ ok
      /\ lastCall'.src = lastCall.src
      /\ lastCall'.dst \in Destinations
      /\ LET shape == Dest[lastCall'.dst]
             row   == lastMeta.width * bytesPerPixel[shape.kind]
         IN  /\ shape.width = lastMeta.width /\ shape.height = lastMeta.height
             /\ shape.atOrigin
             /\ shape.stride = row
             /\ shape.pixLen = row * lastMeta.height
             /\ lastMeta.width < Word \div 4
             /\ lastMeta.stride * lastMeta.height \in 1 .. currentLayout.dstLen
      => lastCall'.err.name \in {"nil", "ErrDecode"} ]_vars

(* Exactly the indices below FrameCount decode, unless the frame itself is
   corrupt or no rectangle of the canvas: the two exports walk the same frame
   configs. *)
CountedFramesExist ==
  [][ /\ lastCall.op = "FrameCount" /\ ok
      /\ lastCall'.op = "DecodeFrame" /\ lastCall'.src = lastCall.src
      => /\ lastCall'.err.name = "nil" => lastCall'.index < lastCall.value
         /\ lastCall'.index \in 0 .. lastCall.value - 1
              /\ lastCall'.err.name = "ErrDecode"
              => LET im    == Image[lastCall.src]
                     frame == im.frames[lastCall'.index + 1]
                 IN  ~ frame.pixelsOK
                       \/ badBounds(frame.bounds, im.width, im.height) ]_vars

(* Every call is one that DecodeContract allows, which has no slots: the causes it
   may fail for, what it returns and the pixels it draws are given by its arguments
   and the two capacities, whatever earlier calls, moved slots or failed decodes
   left in the slots.  The contract leaves three things open.  Outside the first
   frame's rectangle DecodeNRGBA and DecodeGray may show anything: decode_image does
   not clear the dst slot, and bytes an earlier call left there do come back.
   Metadata may fail for want of room, and what Probe says of a canvas whose bytes
   no uint32 counts is not promised. *)
Contract ==
  INSTANCE DecodeContract WITH
    dstCap         <- currentLayout.dstLen,
    srcCap         <- currentLayout.srcLen,
    lastFrame      <- [ src |-> lastFrame.src, index |-> lastFrame.index,
                        bounds |-> lastFrame.bounds ],
    MinMetadataCap <- minimumMetadataDstSlotBytes

ImplementsDecodeContract == Contract!Spec

=============================================================================
