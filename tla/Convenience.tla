------------------------------ MODULE Convenience ------------------------------
(***************************************************************************)
(* The allocating helpers of convenience.go: each makes a decoder, grows its *)
(* slots to what it learns of the source on the way, allocates a tight image   *)
(* and decodes into it.  Every call it makes of the decoder is a step, since    *)
(* each can fail; what it has so far is in job.                                 *)
(***************************************************************************)
EXTENDS Decoder

VARIABLE job           \* the call in progress, or what the last one returned

allVars == <<vars, job>>

kindOf  == [Decode |-> "RGBA", DecodeNRGBA |-> "NRGBA", DecodeGray |-> "Gray"]
Decodes == DOMAIN kindOf
Helpers == Decodes \cup {"Probe", "DecodeConfig"}

noJob ==
  [ who |-> "none", src |-> noFormat, pc |-> "returned", err |-> "nil",
    dst |-> nilDst, meta |-> zeroMeta, frames |-> 0, shown |-> 0 ]

\* The images Go allocates for one rectangle at the origin: one of each kind.
newImage(kind, width, height) ==
  LET row == width * bytesPerPixel[kind]
  IN  { d \in Destinations :
          Dest[d] = [ kind |-> kind, width |-> width, height |-> height,
                      atOrigin |-> TRUE, stride |-> row, pixLen |-> row * height ] }

zeroed == [c \in Canvas |-> Zero]

ASSUME ConvenienceAssumption ==
  \A src \in Sources : need(Image[src]) <= maxMemory =>
    \A kind \in DOMAIN bytesPerPixel :
      newImage(kind, canvasWidth(Image[src]), canvasHeight(Image[src])) # {}

----------------------------------------------------------------------------

\* MUTANT of goOn: the error is lost in an inner scope.
goOnAnyway(next) == job' = next

\* The helper goes on as next, or returns the error the decoder answered with.
goOn(next) ==
  job' = IF ok' THEN next
         ELSE [job EXCEPT !.pc = "returned", !.err = lastCall'.err.name]

maxWuffsDimension == 16777215

\* validateAllocatingGeometry, whose other guards no int64 can trip.
validGeometry(width, height) ==
  /\ width \in 1 .. maxWuffsDimension
  /\ height \in 1 .. maxWuffsDimension
  /\ 4 * width * height < Word

\* probeWithDecoder, decodePrep: Reserve(0, len(src))
ReserveSource ==
  /\ job.pc = "reserveSource"
  /\ Reserve(0, Image[job.src].len)
  /\ goOn([job EXCEPT !.pc = "probe"])

\* Probe and DecodeConfig are done with that, and return a copy of the Meta.
ProbeSource ==
  /\ job.pc = "probe"
  /\ Probe(job.src)
  /\ goOn([job EXCEPT !.pc = IF job.who \in Decodes THEN "reserveBoth" ELSE "returned",
                      !.meta = lastMeta'])

\* MUTANT of ReserveBoth: reserves what the host's image takes, not the guest's.
ReserveHostBytes ==
  /\ job.pc = "reserveBoth"
  /\ IF validGeometry(job.meta.width, job.meta.height)
       THEN /\ Reserve(bytesPerPixel[kindOf[job.who]] * job.meta.width * job.meta.height,
                       Image[job.src].len)
            /\ goOn([job EXCEPT !.pc = "allocate"])
       ELSE /\ job' = [job EXCEPT !.pc = "returned", !.err = "ErrBadImage"]
            /\ UNCHANGED vars

\* The rest of decodePrep: the geometry, and Reserve(guestLen, len(src)).
ReserveBoth ==
  /\ job.pc = "reserveBoth"
  /\ IF validGeometry(job.meta.width, job.meta.height)
       THEN /\ Reserve(4 * job.meta.width * job.meta.height, Image[job.src].len)
            /\ goOn([job EXCEPT !.pc = "allocate"])
       ELSE /\ job' = [job EXCEPT !.pc = "returned", !.err = "ErrBadImage"]
            /\ UNCHANGED vars

\* image.NewRGBA, NewNRGBA or NewGray.
Allocate(kind, pc) ==
  /\ job.pc = "allocate"
  /\ \E d \in newImage(kind, job.meta.width, job.meta.height) :
       /\ pix' = [pix EXCEPT ![d] = zeroed]
       /\ job' = [job EXCEPT !.pc = pc, !.dst = d]
  /\ UNCHANGED <<memory, slots, fields, lastCall>>

AllocateImage == job.who \in Decodes /\ Allocate(kindOf[job.who], "decode")

\* The decode, whose Meta is returned as a copy.
DecodeInto ==
  /\ job.pc = "decode"
  /\ CASE job.who = "Decode"      -> DecodeRGBA(job.dst, job.src)
       [] job.who = "DecodeNRGBA" -> DecodeNRGBA(job.dst, job.src)
       [] job.who = "DecodeGray"  -> DecodeGray(job.dst, job.src)
  /\ goOn([job EXCEPT !.pc = "returned", !.meta = lastMeta'])

\* A helper called with a source: it starts with New().
HelperInit ==
  /\ Init
  /\ \E who \in Helpers, src \in Sources :
       job = [noJob EXCEPT !.who = who, !.src = src, !.pc = "reserveSource"]

Helper == ReserveSource \/ ProbeSource \/ ReserveBoth \/ AllocateImage \/ DecodeInto

----------------------------------------------------------------------------
\* A memory of the largest size can hold the slots for a source and a canvas.
holdable(im, canvasBytes) ==
  LET larger(a, b) == IF a > b THEN a ELSE b
  IN  hostSlotRegionBase
        + RoundUp8(hostAnimationScratchBytes + metaSlotBytes
                   + larger(im.len, defaultSrcCap)
                   + larger(canvasBytes, InitialDstSlotBytes)) <= maxMemory

readable(im) == im.len > 0 /\ im.fourcc # noFormat /\ im.configOK

decodable(im) ==
  /\ need(im) > 0                    \* neither side is 0, nor reported as 0
  /\ im.width <= maxWuffsDimension /\ im.height <= maxWuffsDimension
  /\ holdable(im, need(im))
  /\ im.frames # <<>> /\ im.frames[1].configOK /\ im.frames[1].pixelsOK

\* An RGBA decode is refused if the frame is no rectangle of the canvas.
framed(im) == ~ badBounds(im.frames[1].bounds, im.width, im.height)

(* A helper succeeds exactly if the source can be decoded in the memory a
   decoder can have, whatever slots a decoder starts with; what fails never fails
   for want of room in a slot.  Decode's pixels are then the first frame's, and
   zero outside its rectangle. *)
HelpersDeliver ==
  job.who \in Helpers /\ job.pc = "returned" =>
    LET im == Image[job.src]
    IN  /\ job.err = "nil" <=>
             /\ readable(im) /\ holdable(im, 0)
             /\ job.who \in Decodes => decodable(im)
             /\ job.who = "Decode" => framed(im)
        /\ job.err \notin {"ErrDstTooSmall", "ErrSrcTooLarge", "growFailed"}
        /\ job.err = "nil" /\ job.who = "Decode" =>
             \A c \in Canvas :
               pix[job.dst][c] = IF Inside(im.frames[1].bounds, c)
                                   THEN Pixel(job.src, 0, c, RGBAPremul) ELSE Zero

(* No header makes a helper allocate more than a dst slot that a decoder can
   have: whatever dimensions a source claims, the image is allocated only once
   guest memory for its canvas has been had. *)
AllocationsBounded ==
  job.who \in Decodes /\ job.pc = "allocate" =>
    /\ 4 * job.meta.width * job.meta.height \in 1 .. currentLayout.dstLen
    /\ currentLayout.dstLen <= maxMemory - hostSlotRegionBase

=============================================================================
