--------------------------------- MODULE Images ---------------------------------
(***************************************************************************)
(* What the calls of a decoder are about.  What the Wuffs codecs find in a  *)
(* source is the constant Image: a record per source that says whether each  *)
(* step of its codec succeeds and what it reports.  A pixel is its provenance: *)
(* the source, frame and position it was decoded from and the format it was   *)
(* decoded to, or why it is not a decoded pixel.                               *)
(***************************************************************************)
EXTENDS Codecs, Integers, Sequences

CONSTANTS
  Sources,       \* the byte slices callers pass
  Image,         \* [Sources -> Images]
  Destinations,  \* the images callers decode into
  Dest,          \* [Destinations -> Shapes]
  nilDst,        \* a nil *image.RGBA, *image.NRGBA or *image.Gray
  Indices,       \* the frame indices callers ask for
  MaxWidth,      \* bound on the canvases that fit a dst slot
  MaxHeight

noFormat == "none"

Rects   == [minX : Nat, minY : Nat, maxX : Nat, maxY : Nat]
Frames  == [ bounds : Rects, flicks : Nat, configOK : BOOLEAN, pixelsOK : BOOLEAN ]

Images ==
  [ len : Nat, fourcc : Formats \cup {noFormat}, configOK : BOOLEAN,
    width : Nat, height : Nat, frames : Seq(Frames), loops : Nat,
    metadataOK : BOOLEAN, blobBytes : Nat ]

Inside(b, c) == /\ b.minX <= c[1] /\ c[1] < b.maxX
                /\ b.minY <= c[2] /\ c[2] < b.maxY

----------------------------------------------------------------------------
(* Pixels. *)

Canvas == (0 .. MaxWidth - 1) \X (0 .. MaxHeight - 1)

RGBAPremul    == 1
RGBANonPremul == 2
BGRAPremul    == 3

Caller                   == <<"caller">>      \* what the caller had in Pix
Pixel(src, i, c, fmt)    == <<"pixel", src, i, c, fmt>>
gray(p)                  == <<"gray", p>>     \* convertBGRAToGray of one pixel

----------------------------------------------------------------------------
(* Destinations: the fields of image.RGBA, image.NRGBA and image.Gray. *)

bytesPerPixel == [RGBA |-> 4, NRGBA |-> 4, Gray |-> 1]

Shapes == [ kind : DOMAIN bytesPerPixel, width : Nat, height : Nat,
            atOrigin : BOOLEAN, stride : Nat, pixLen : Nat ]

\* The destinations a call of one kind can be given; Go's types exclude others.
ofKind(kind) == {d \in Destinations : Dest[d].kind = kind} \cup {nilDst}

ASSUME ImagesAssumption ==
  /\ MaxWidth \in Nat \ {0}
  /\ MaxHeight \in Nat \ {0}
  /\ Image \in [Sources -> Images]
  /\ \A src \in Sources : Image[src].len = 0 => Image[src].fourcc = noFormat
  \* Wuffs reports rectangles whose corners are in order.
  /\ \A src \in Sources : \A j \in DOMAIN Image[src].frames :
       LET b == Image[src].frames[j].bounds IN b.minX <= b.maxX /\ b.minY <= b.maxY
  /\ nilDst \notin Destinations
  /\ Dest \in [Destinations -> Shapes]
  /\ \A d \in Destinations : Dest[d].width <= MaxWidth /\ Dest[d].height <= MaxHeight
  /\ Indices \subseteq Int

=============================================================================
