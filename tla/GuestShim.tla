------------------------------- MODULE GuestShim -------------------------------
(***************************************************************************)
(* The exports of wasm/shim.c as functions from a source image, the slot    *)
(* capacities and the slots' present contents to a return code and the      *)
(* contents they leave.                                                      *)
(***************************************************************************)
EXTENDS SlotLayout, Images

----------------------------------------------------------------------------
(* Slots. *)

Zero               == <<"zero">>
Junk               == <<"junk">>              \* bytes no call of this layout wrote
Partial(src, i)    == <<"partial", src, i>>   \* left by a decode that failed
Packed(src)        == <<"pack", src>>         \* metadata pack bytes
Verdict(src)       == <<"verdict", src>>      \* err and format where there is no pack

Cells == 0 .. MaxWidth * MaxHeight - 1        \* dst slot, four bytes a cell

zeroMeta ==
  [err |-> "ok", width |-> 0, height |-> 0, stride |-> 0, bytesWritten |-> 0,
   format |-> noFormat]
junkMeta  == [zeroMeta EXCEPT !.format = "junk"]

noBounds  == [minX |-> 0, minY |-> 0, maxX |-> 0, maxY |-> 0]
zeroFrame == [src |-> noFormat, index |-> 0, bounds |-> noBounds, flicks |-> 0]
junkFrame == [zeroFrame EXCEPT !.src = "junk"]

----------------------------------------------------------------------------
(* What the codecs report.  pixel_config__set zeroes both dimensions when    *)
(* their product does not fit the guest's size_t.                            *)

representable(im) == im.width * im.height < Word
canvasWidth(im)   == IF representable(im) THEN im.width ELSE 0
canvasHeight(im)  == IF representable(im) THEN im.height ELSE 0
need(im)          == 4 * canvasWidth(im) * canvasHeight(im)

\* Everything up to decode_image_config, common to all exports.
configCode(im) ==
  IF im.len = 0 THEN "badArg"
  ELSE IF im.fourcc = noFormat THEN "unknown"
  ELSE IF decoderObjSize[im.fourcc] > BUMP_LIMIT THEN "decode"
  ELSE IF im.configOK THEN "ok" ELSE "decode"

\* MUTANT of slotCode: a slot of exactly the canvas is too small.
strictSlotCode(im, dstCap) ==
  IF configCode(im) # "ok" THEN configCode(im)
  ELSE IF need(im) = 0 \/ need(im) >= dstCap THEN "dstTooSmall" ELSE "ok"

\* ... and the check of the dst slot.
slotCode(im, dstCap) ==
  IF configCode(im) # "ok" THEN configCode(im)
  ELSE IF need(im) = 0 \/ need(im) > dstCap THEN "dstTooSmall" ELSE "ok"

\* decode_frame_config reaches frame i (from 0).
frameReached(im, i) ==
  i < Len(im.frames) /\ \A j \in 0 .. i : im.frames[j + 1].configOK

\* Between the two come the codec's work buffer and its pixel buffer.  A codec asks
\* for a work buffer of one length, and the canvas fits the slot by now, so neither
\* is refused.
decodeCode(im, dstCap, i) ==
  IF slotCode(im, dstCap) # "ok" THEN slotCode(im, dstCap)
  ELSE IF frameReached(im, i) /\ im.frames[i + 1].pixelsOK THEN "ok" ELSE "decode"

\* The canvas position of a cell of the dst slot.
position(im, k) == <<k % canvasWidth(im), k \div canvasWidth(im)>>

\* The cells of the canvas the codec writes when it decodes frame i.
frameCells(im, i) ==
  { k \in Cells : /\ k < canvasWidth(im) * canvasHeight(im)
                  /\ Inside(im.frames[i + 1].bounds, position(im, k)) }

\* The codec's decode_frame on a dst slot: SRC blend inside the bounds only.
paint(src, im, i, fmt, dst) ==
  [ k \in Cells |->
      IF ~ (frameReached(im, i) /\ k \in frameCells(im, i)) THEN dst[k]
      ELSE IF im.frames[i + 1].pixelsOK
        THEN Pixel(src, i, position(im, k), fmt)
        ELSE Partial(src, i) ]

----------------------------------------------------------------------------
(* The meta slot after an export that returned code. *)

writtenMeta(im, code, bytes, old) ==
  CASE code = "badArg"      -> old
    [] code \in {"unknown", "decode"} -> [zeroMeta EXCEPT !.err = code]
    [] code = "dstTooSmall" ->
         [zeroMeta EXCEPT !.err = code, !.width = canvasWidth(im),
                          !.height = canvasHeight(im),
                          !.stride = U32(4 * canvasWidth(im))]
    [] code = "ok" ->
         [err |-> "ok", width |-> canvasWidth(im), height |-> canvasHeight(im),
          stride |-> U32(4 * canvasWidth(im)), bytesWritten |-> bytes,
          format |-> im.fourcc]

----------------------------------------------------------------------------
(* The exports.  sl is the slots' contents with the source copied in.        *)

decode_image(sl, dstCap, fmt) ==
  LET im   == Image[sl.src]
      code == decodeCode(im, dstCap, 0)
  IN  [ ret   |-> code,
        slots |-> [sl EXCEPT
          !.meta = writtenMeta(im, code, U32(need(im)), @),
          !.dst  = IF slotCode(im, dstCap) = "ok"
                     THEN paint(sl.src, im, 0, fmt, @) ELSE @] ]

decode_frame(sl, dstCap, index, fmt) ==
  LET im   == Image[sl.src]
      code == IF configCode(im) = "badArg" THEN "decode"
              ELSE decodeCode(im, dstCap, index)
      zeroed == [k \in Cells |-> IF k < canvasWidth(im) * canvasHeight(im)
                                   THEN Zero ELSE sl.dst[k]]
  IN  [ ret   |-> code,
        slots |-> [sl EXCEPT
          !.meta  = writtenMeta(im, code, U32(need(im)), @),
          !.frame = IF code = "ok"
                      THEN [src |-> sl.src, index |-> index,
                            bounds |-> im.frames[index + 1].bounds,
                            flicks |-> im.frames[index + 1].flicks]
                      ELSE zeroFrame,
          !.dst   = IF slotCode(im, dstCap) = "ok"
                      THEN paint(sl.src, im, index, fmt, zeroed) ELSE @] ]

\* MUTANT of probe_image: the stride of the source's own one-byte pixels.
nativeProbe(sl) ==
  LET im   == Image[sl.src]
      code == configCode(im)
  IN  [ ret   |-> code,
        slots |-> [sl EXCEPT
          !.meta = [writtenMeta(im, code, 0, @) EXCEPT !.stride = canvasWidth(im)]] ]

probe_image(sl) ==
  LET im   == Image[sl.src]
      code == configCode(im)
  IN  [ ret   |-> code,
        slots |-> [sl EXCEPT !.meta = writtenMeta(im, code, 0, @)] ]

\* MUTANT of frame_count: stops at the first frame.
oneFrame(sl) ==
  [ ret |-> configCode(Image[sl.src]), slots |-> [sl EXCEPT !.count = 1] ]

frame_count(sl) ==
  LET im   == Image[sl.src]
      code == IF configCode(im) # "ok" THEN configCode(im)
              ELSE IF \A j \in 1 .. Len(im.frames) : im.frames[j].configOK
                THEN "ok" ELSE "decode"
  IN  [ ret   |-> code,
        slots |-> [sl EXCEPT !.count = IF code = "ok" THEN Len(im.frames)
                                       ELSE IF code = "badArg" THEN @ ELSE 0] ]

animation_loops(sl) ==
  LET im   == Image[sl.src]
      code == configCode(im)
  IN  [ ret   |-> code,
        slots |-> [sl EXCEPT !.loops = IF code = "ok" THEN im.loops
                                       ELSE IF code = "badArg" THEN @ ELSE 0] ]

\* The codec object, the transform buffer and three accumulators must fit one
\* BUMP_LIMIT together.
metadataArenaFits(im) ==
  decoderObjSize[im.fourcc] + WUFFS_WASM_METADATA_HAVE_LEN
    + WUFFS_WASM_METADATA_ICC_CAP + 2 * im.len <= BUMP_LIMIT

metadataCode(im, packCap) ==
  IF im.len = 0 THEN "badArg"
  ELSE IF im.fourcc = noFormat THEN "unknown"
  ELSE IF ~ metadataArenaFits(im) THEN "decode"
  ELSE IF ~ (im.configOK /\ im.metadataOK) THEN "decode"
  ELSE IF WUFFS_WASM_METADATA_PACK_HEADER_SIZE + im.blobBytes > packCap THEN "decode"
  ELSE "ok"

\* The dst slot once its first bytes have been written over.
overwritten(dst, bytes, by) == [k \in Cells |-> IF 4 * k < bytes THEN by ELSE dst[k]]

verdictBytes == 8

\* The pack is written over the dst slot; when there is none, its header is zeroed
\* but for err and format, which come first.
read_image_metadata(sl, packCap) ==
  LET im     == Image[sl.src]
      code   == metadataCode(im, packCap)
      header == WUFFS_WASM_METADATA_PACK_HEADER_SIZE
  IN  [ ret   |-> code,
        slots |-> [sl EXCEPT !.dst =
          CASE code = "badArg" -> @
            [] code = "ok"     -> overwritten(@, header + im.blobBytes, Packed(sl.src))
            [] OTHER           -> overwritten(overwritten(@, header, Zero),
                                              verdictBytes, Verdict(sl.src)) ] ]

----------------------------------------------------------------------------
\* A codec reports a canvas as two uint32 values, and no frame takes less than a
\* byte of the source; what some dst slot can hold is within the model's bounds.
ASSUME ShimAssumption ==
  \A src \in Sources :
    LET im == Image[src]
    IN  /\ im.width \in uint32 /\ im.height \in uint32
        /\ Len(im.frames) <= im.len
        /\ need(im) <= maxMemory => /\ canvasWidth(im) <= MaxWidth
                                    /\ canvasHeight(im) <= MaxHeight

=============================================================================
