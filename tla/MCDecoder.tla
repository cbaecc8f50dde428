------------------------------- MODULE MCDecoder -------------------------------
(***************************************************************************)
(* Small decoders: a canvas of two pixels by one, a dst slot that starts    *)
(* with room for one pixel, and sources that make each export take every     *)
(* way out of it.  The sizes of the requests are those of the source.        *)
(***************************************************************************)
EXTENDS Decoder

MCWord == 536870912                    \* 2^29 stands for 2^32

Bounds(x0, y0, x1, y1) == [minX |-> x0, minY |-> y0, maxX |-> x1, maxY |-> y1]
Good(b)    == [bounds |-> b, flicks |-> 0, configOK |-> TRUE, pixelsOK |-> TRUE]
Corrupt(b) == [Good(b) EXCEPT !.pixelsOK = FALSE]
Cut        == [Corrupt(Bounds(0, 0, 0, 0)) EXCEPT !.configOK = FALSE]

Whole == Bounds(0, 0, 2, 1)
Right == Bounds(1, 0, 2, 1)
Empty == Bounds(1, 0, 1, 1)
Wider == Bounds(1, 0, 3, 1)            \* than the canvas

Still(fourcc) ==
  [ len |-> 100, fourcc |-> fourcc, configOK |-> TRUE, width |-> 2, height |-> 1,
    frames |-> <<Good(Whole)>>, loops |-> 0, metadataOK |-> TRUE, blobBytes |-> 0 ]

MCImages ==
  [ png     |-> Still("PNG"),
    gif     |-> [Still("GIF") EXCEPT !.frames = <<Corrupt(Whole), Good(Right)>>,
                                     !.loops = 2],
    corner  |-> [Still("PNG") EXCEPT !.frames = <<Good(Right)>>, !.metadataOK = FALSE],
    large   |-> [Still("GIF") EXCEPT !.frames = <<Good(Whole), Good(Wider)>>,
                                     !.len = defaultSrcCap + 1],
    empty   |-> [Still(noFormat) EXCEPT !.len = 0, !.frames = <<>>],
    text    |-> Still(noFormat),
    broken  |-> [Still("PNG") EXCEPT !.frames = <<Good(Whole), Good(Empty), Cut>>,
                                     !.metadataOK = FALSE],
    wide    |-> [Still("PNG") EXCEPT !.width = 16384, !.height = 8193] ]

Shape(kind, w, h, stride, pixLen) ==
  [ kind |-> kind, width |-> w, height |-> h, atOrigin |-> TRUE,
    stride |-> stride, pixLen |-> pixLen ]

MCDest ==
  [ rgba   |-> Shape("RGBA", 2, 1, 8, 8),
    padded |-> Shape("RGBA", 2, 1, 12, 12),
    narrow |-> Shape("RGBA", 2, 1, 4, 8),
    short  |-> Shape("RGBA", 2, 1, 12, 8),
    nrgba  |-> Shape("NRGBA", 2, 1, 8, 8),
    gray   |-> Shape("Gray", 2, 1, 2, 2) ]

Only(f, S) == [x \in S |-> f[x]]

\* Still and animated sources, frame by frame, into RGBA.
FrameSources == {"large", "gif"}
FrameImages  == Only(MCImages, FrameSources)
FrameDests   == {"rgba"}
FrameDest    == Only(MCDest, FrameDests)

\* Still decodes, and the metadata pack that takes their dst slot's place.
StillSources == {"png", "corner"}
StillImages  == Only(MCImages, StillSources)
StillDests   == {"nrgba", "gray"}
StillDest    == Only(MCDest, StillDests)

\* Sources that some export refuses and destinations that do not fit.
UnfitSources == {"empty", "text", "broken", "wide"}
UnfitImages  == Only(MCImages, UnfitSources)
UnfitDests   == {"padded", "short", "narrow"}
UnfitDest    == Only(MCDest, UnfitDests)

----------------------------------------------------------------------------
(* What the repository's own words say of a decoder.                         *)

(* convert.go of DecodeNRGBA's copy: it "copies width*height decoded
   RGBA-non-premultiplied pixels".  Every pixel of the canvas is one. *)
CanvasIsDecoded ==
  lastCall.op = "DecodeNRGBA" /\ ok
    => \A c \in Canvas : pix[lastCall.dst][c] =
                           Pixel(lastCall.src, 0, c, RGBANonPremul)

(* errors.go: "MinBytes is the minimum number of bytes required for the
   destination buffer". *)
MinBytesIsRequired ==
  slotWasTooSmall
    => LET im == Image[lastCall.src]
       IN  lastCall.err.minBytes \div 4 >= im.width * im.height

(* frame.go of Frame.Duration: "Durations convert from Wuffs flicks (1 flick =
   1/705_600_000 s)".  Every frame's does. *)
DurationsConvert ==
  lastCall.op = "DecodeFrame" /\ ok
    => LET frame == Image[lastCall.src].frames[lastCall.index + 1]
       IN  lastFrame.duration = (frame.flicks * Second) \div FlicksPerSecond

\* A GIF whose frames are shown for 10 and for 16 seconds.
SlowSources == {"slow"}
SlowImages ==
  [ slow |-> [Still("GIF") EXCEPT !.frames =
                << [Good(Whole) EXCEPT !.flicks = 10 * FlicksPerSecond],
                   [Good(Right) EXCEPT !.flicks = 16 * FlicksPerSecond] >>] ]

WideSources == {"wide"}
WideImages  == Only(MCImages, WideSources)
=============================================================================
