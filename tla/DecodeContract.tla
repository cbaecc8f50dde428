----------------------------- MODULE DecodeContract -----------------------------
(***************************************************************************)
(* What a Decoder promises, with no slots, layout, guest or return codes.   *)
(* Whether a call may fail, and what one that succeeds returns, is given by   *)
(* its arguments and the two capacities, and by no earlier call; so are the     *)
(* pixels it draws, but for those a still decode leaves outside the first         *)
(* frame's rectangle, of which nothing is promised.  A call that fails has a        *)
(* cause, names one, and changes nothing its caller can see.                         *)
(***************************************************************************)
EXTENDS Images

CONSTANTS Word, Requests, MinMetadataCap

VARIABLES dstCap, srcCap,                    \* what Reserve has raised them to
          pix,                               \* the pixels of every destination
          lastMeta, lastFrame, lastMetadata, \* what the last successes returned
          lastCall

results == <<lastMeta, lastFrame, lastMetadata>>
vars    == <<dstCap, srcCap, pix, results, lastCall>>

----------------------------------------------------------------------------
(* The causes a call can have to fail, as the errors that name them. *)

cause(condition, name) == IF condition THEN {name} ELSE {}

Unreadable(im) ==
  cause(im.len > srcCap, "ErrSrcTooLarge")
  \cup cause(im.len > 0 /\ im.fourcc = noFormat, "ErrUnknownFormat")
  \cup cause(im.len = 0 \/ (im.fourcc # noFormat /\ ~ im.configOK), "ErrDecode")

CanvasTooBig(im) ==
  cause(im.width * im.height \notin 1 .. dstCap \div 4, "ErrDstTooSmall")

\* Frames are numbered by an int32.
FrameBroken(im, i) ==
  cause(~ /\ i \in 0 .. Len(im.frames) - 1
          /\ i < Word \div 2
          /\ \A j \in 1 .. i + 1 : im.frames[j].configOK
          /\ im.frames[i + 1].pixelsOK, "ErrDecode")

\* The frame is a rectangle of the canvas.
FrameOutside(im, i) ==
  cause(i \in 0 .. Len(im.frames) - 1
        /\ LET b == im.frames[i + 1].bounds
           IN  ~ /\ b.minX < b.maxX /\ b.maxX <= im.width
                 /\ b.minY < b.maxY /\ b.maxY <= im.height, "ErrDecode")

DestinationUnfit(im, d) ==
  IF d = nilDst THEN {"ErrBadImage"}
  ELSE LET shape == Dest[d]
           row   == im.width * bytesPerPixel[shape.kind]
       IN  cause(\/ <<shape.width, shape.height>> # <<im.width, im.height>>
                 \/ ~ shape.atOrigin
                 \/ shape.pixLen = 0
                 \/ shape.stride * im.height >= Word, "ErrBadImage")
           \cup cause(\/ shape.stride < row
                      \/ shape.pixLen < shape.stride * im.height, "ErrDstTooSmall")

----------------------------------------------------------------------------
Meta(im, bytesPerPix) ==
  [ err |-> "ok", width |-> im.width, height |-> im.height,
    stride |-> 4 * im.width,
    bytesWritten |-> bytesPerPix * im.width * im.height, format |-> im.fourcc ]

\* A uint32 counts the bytes of the canvas and of a row; of larger canvases Probe
\* promises nothing.
Countable(im) == im.width * im.height < Word \div 4 /\ im.width < Word \div 4

called(op, src, d, index) ==
  /\ lastCall'.op = op
  /\ lastCall'.src = src
  /\ lastCall'.dst = d
  /\ lastCall'.index = index

Succeeds(causes) == causes = {} /\ lastCall'.err.name = "nil"
Fails(causes)    == lastCall'.err.name \in causes /\ UNCHANGED <<pix, results>>

Init ==
  /\ pix = [d \in Destinations |-> [c \in Canvas |-> Caller]]
  /\ lastCall.op = "New"

Reserve ==
  /\ \E d, s \in Requests : /\ dstCap' \in {dstCap, d}
                           /\ srcCap' \in {srcCap, s}
  /\ dstCap' >= dstCap
  /\ srcCap' >= srcCap
  /\ lastCall'.op = "Reserve"
  /\ UNCHANGED <<pix, results>>

Probe(src) ==
  LET causes == Unreadable(Image[src])
  IN  \/ Fails(causes)
      \/ /\ Succeeds(causes)
         /\ Countable(Image[src]) => lastMeta' = Meta(Image[src], 0)
         /\ UNCHANGED <<pix, lastFrame, lastMetadata>>

FrameCount(src) ==
  LET im     == Image[src]
      causes == Unreadable(im)
                \cup cause(\/ im.frames = <<>>
                           \/ \E j \in DOMAIN im.frames : ~ im.frames[j].configOK,
                           "ErrDecode")
  IN  \/ Fails(causes)
      \/ /\ Succeeds(causes)
         /\ lastCall'.value = Len(im.frames)
         /\ UNCHANGED <<pix, results>>

LoopCount(src) ==
  LET causes == Unreadable(Image[src])
  IN  \/ Fails(causes)
      \/ /\ Succeeds(causes)
         /\ lastCall'.value = Image[src].loops
         /\ UNCHANGED <<pix, results>>

\* Which blobs a Metadata call has room for is no promise: it may always fail.
Metadata(src) ==
  LET im     == Image[src]
      causes == Unreadable(im)
                \cup cause(~ im.metadataOK \/ dstCap < MinMetadataCap, "ErrDecode")
  IN  \/ Fails(causes \cup {"ErrDecode"})
      \/ /\ Succeeds(causes)
         /\ lastMetadata' = [format |-> im.fourcc, src |-> src]
         /\ UNCHANGED <<pix, lastMeta, lastFrame>>

\* Only the frame's rectangle of only this destination is written.
DecodeFrame(d, src, index) ==
  LET im     == Image[src]
      causes == Unreadable(im) \cup CanvasTooBig(im) \cup FrameBroken(im, index)
                \cup FrameOutside(im, index) \cup DestinationUnfit(im, d)
      bounds == im.frames[index + 1].bounds
  IN  \/ Fails(causes)
      \/ /\ Succeeds(causes)
         /\ pix' = [pix EXCEPT ![d] =
                     [c \in Canvas |-> IF Inside(bounds, c)
                                         THEN Pixel(src, index, c, RGBAPremul)
                                         ELSE @[c]]]
         /\ lastMeta' = Meta(im, 4)
         /\ lastFrame' = [src |-> src, index |-> index, bounds |-> bounds]
         /\ UNCHANGED lastMetadata

\* A still decode writes the canvas.  Outside the first frame's rectangle no pixel
\* is promised: what an earlier call left may show there.
DecodeStill(d, src, bytesPerPix, stored(_)) ==
  LET im     == Image[src]
      causes == Unreadable(im) \cup CanvasTooBig(im) \cup FrameBroken(im, 0)
                \cup DestinationUnfit(im, d)
      onCanvas(c) == c[1] < im.width /\ c[2] < im.height
  IN  \/ Fails(causes)
      \/ /\ Succeeds(causes)
         /\ \A e \in Destinations \ {d} : pix'[e] = pix[e]
         /\ \A c \in Canvas :
              /\ Inside(im.frames[1].bounds, c) /\ onCanvas(c)
                   => pix'[d][c] = stored(c)
              /\ ~ onCanvas(c) => pix'[d][c] = pix[d][c]
         /\ lastMeta' = Meta(im, bytesPerPix)
         /\ UNCHANGED <<lastFrame, lastMetadata>>

Call(src) ==
  \/ called("Probe", src, nilDst, 0) /\ Probe(src)
  \/ called("FrameCount", src, nilDst, 0) /\ FrameCount(src)
  \/ called("LoopCount", src, nilDst, 0) /\ LoopCount(src)
  \/ called("Metadata", src, nilDst, 0) /\ Metadata(src)
  \/ \E d \in ofKind("RGBA") :
       \/ called("DecodeRGBA", src, d, 0) /\ DecodeFrame(d, src, 0)
       \/ \E index \in Indices :
            called("DecodeFrame", src, d, index) /\ DecodeFrame(d, src, index)
  \/ \E d \in ofKind("NRGBA") :
       /\ called("DecodeNRGBA", src, d, 0)
       /\ DecodeStill(d, src, 4, LAMBDA c : Pixel(src, 0, c, RGBANonPremul))
  \/ \E d \in ofKind("Gray") :
       /\ called("DecodeGray", src, d, 0)
       /\ DecodeStill(d, src, 1, LAMBDA c : gray(Pixel(src, 0, c, BGRAPremul)))

Next == Reserve \/ \E src \in Sources : /\ UNCHANGED <<dstCap, srcCap>>
                                       /\ Call(src)

Spec == Init /\ [][Next]_vars

=============================================================================
