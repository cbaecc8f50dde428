--------------------------------- MODULE Sniff ---------------------------------
(***************************************************************************)
(* How a source gets its format: the guest's sniff_fourcc (wasm/shim.c), and *)
(* the magics registration.go gives the image package, which are to send a    *)
(* source to this module only when the guest will take it for that format.    *)
(* The one variable is what has been read of a source; it grows byte by byte   *)
(* along the headers of Templates.                                             *)
(***************************************************************************)
EXTENDS Codecs, Naturals, SequencesExt

CONSTANT Templates     \* headers: sequences of the sets of bytes at each position

VARIABLE src

Byte     == 0 .. 255
noFormat == "none"

ASSUME SniffAssumption == Templates \subseteq Seq(SUBSET Byte)

Init == src = <<>>

Read(b) == src' = Append(src, b)

\* The next byte of a header that what was read so far is a prefix of.
Next ==
  \E t \in Templates :
    /\ Len(src) < Len(t)
    /\ \A i \in DOMAIN src : src[i] \in t[i]
    /\ \E b \in t[Len(src) + 1] : Read(b)

Spec == Init /\ [][Next]_src

----------------------------------------------------------------------------
(* Signatures: the bytes allowed at each position of a prefix. *)

Exactly(bytes) == [i \in DOMAIN bytes |-> {bytes[i]}]
Wildcards(n)   == [i \in 1 .. n |-> Byte]

starts(s, signature) ==
  /\ Len(s) >= Len(signature)
  /\ \A i \in DOMAIN signature : s[i] \in signature[i]

ascii == [ B |-> 66, C |-> 67, E |-> 69, F |-> 70, G |-> 71, I |-> 73, K |-> 75,
           M |-> 77, N |-> 78, P |-> 80, R |-> 82, W |-> 87, a |-> 97, f |-> 102,
           i |-> 105, o |-> 111, q |-> 113 ]
letters(s) == [i \in DOMAIN s |-> {ascii[s[i]]}]

blank    == {32, 10, 13, 9}           \* ' ', '\n', '\r', '\t'
riffWebp == letters(<<"R", "I", "F", "F">>) \o Wildcards(4)
              \o letters(<<"W", "E", "B", "P">>)
pngBytes == Exactly(<<137, 80, 78, 71, 13, 10, 26, 10>>)

\* The literal signatures of sniff_fourcc, by format.
signatures ==
  [ BMP  |-> {letters(<<"B", "M">>)},
    PNG  |-> {pngBytes},
    JPEG |-> {Exactly(<<255, 216, 255>>)},
    GIF  |-> {letters(<<"G", "I", "F">>) \o <<{56}, {55, 57}>> \o letters(<<"a">>)},
    WEBP |-> {riffWebp},
    QOI  |-> {letters(<<"q", "o", "i", "f">>)},
    NIE  |-> {<<{110}, {195}, {175}, {69, 65}>>},
    NPBM |-> {letters(<<"P">>) \o <<49 .. 54, blank, Byte>>,
              letters(<<"P">>) \o <<{54}>>},
    ETC2 |-> {letters(<<"P", "K", "M">>) \o <<{32}>>},
    TH   |-> {Exactly(<<195, 190, 254>>)} ]

----------------------------------------------------------------------------
(* The formats without a signature.  C's src[i] is s[i + 1] here. *)

\* MUTANT of mapFieldsOK: a true color header's first-entry index is not looked at.
mapFieldsLoose(s) ==
  IF s[3] \in {1, 9}
    THEN /\ s[2] = 1 /\ s[4] = 0 /\ s[5] = 0
         /\ s[6] + 256 * s[7] \in 1 .. 256 /\ s[8] \in {15, 24, 32}
    ELSE s[2] = 0 /\ s[6] = 0 /\ s[7] = 0 /\ s[8] = 0

\* The color map's type, first index, length and depth, by image type.
mapFieldsOK(s) ==
  IF s[3] \in {1, 9}
    THEN /\ s[2] = 1 /\ s[4] = 0 /\ s[5] = 0
         /\ s[6] + 256 * s[7] \in 1 .. 256 /\ s[8] \in {15, 24, 32}
    ELSE s[2] = 0 /\ \A i \in 4 .. 8 : s[i] = 0

\* The fields of an 18-byte header.
tgaHeaderOK(s) ==
  /\ s[13] + 256 * s[14] # 0 /\ s[15] + 256 * s[16] # 0      \* width, height
  /\ s[3] \in {1, 2, 3, 9, 10, 11}
  /\ mapFieldsOK(s)
  /\ LET trueColor  == s[3] \in {2, 10}
         attributes == IF trueColor /\ s[17] = 32 THEN 8 ELSE 0
     IN  /\ s[17] \in IF trueColor THEN {15, 16, 24, 32} ELSE {8}
         /\ s[18] \in {attributes, attributes + 32}          \* bit 5 is free

\* MUTANT of sniff_tga: a source that goes on after its header is none.
sniff_tgaWhole(s) == Len(s) = 18 /\ tgaHeaderOK(s)

sniff_tga(s) == Len(s) >= 18 /\ tgaHeaderOK(s)

MaxDimension == 16777215

\* The number the groups up to position last make, most significant first.
groupsValue(s, first, last) ==
  LET val[i \in first - 1 .. last] ==
        IF i < first THEN 0 ELSE val[i - 1] * 128 + (s[i] % 128)
  IN  val[last]

\* The positions, within four groups and the source, of groups that end a number.
groupEnds(s, first) == {i \in first .. first + 3 : i <= Len(s) /\ s[i] < 128}

\* MUTANT of dimension: a leading group of zeros is let through.
dimensionAnyLength(s, first) ==
  LET last == Min(groupEnds(s, first))
  IN  IF groupEnds(s, first) # {} /\ groupsValue(s, first, last) \in 1 .. MaxDimension
        THEN last + 1 ELSE 0

\* The loop over the groups of one of sniff_wbmp's integers, from position first:
\* the position after it, or 0 where sniff_wbmp returns 0.
dimension(s, first) ==
  LET last == Min(groupEnds(s, first))
  IN  IF /\ groupEnds(s, first) # {}
         /\ s[first] # 128
         /\ groupsValue(s, first, last) \in 1 .. MaxDimension
        THEN last + 1 ELSE 0

sniff_wbmp(s) ==
  /\ Len(s) >= 4 /\ s[1] = 0 /\ s[2] = 0
  /\ LET second == dimension(s, 3)
     IN  second # 0 /\ dimension(s, second) # 0

hnsmTopBits == 32619                  \* 0x7F6B

sniff_hnsm(s) ==
  /\ Len(s) >= 3
  /\ LET c32 == s[1] * 65536 + s[2] * 256 + s[3]
     IN  /\ c32 \div 512 = hnsmTopBits
         /\ (c32 \div 128) % 4 # 1
         /\ c32 % 32 # 31

\* One test of sniff_fourcc.
accepts(f, s) ==
  CASE f = "TGA"  -> sniff_tga(s)
    [] f = "WBMP" -> sniff_wbmp(s)
    [] f = "HNSM" -> sniff_hnsm(s)
    [] OTHER      -> \E signature \in signatures[f] : starts(s, signature)

order == << "BMP", "PNG", "JPEG", "GIF", "WEBP", "QOI", "NIE", "NPBM", "ETC2", "TH",
            "TGA", "WBMP", "HNSM" >>

sniff_fourcc(s) ==
  LET i == SelectInSeq(order, LAMBDA f : accepts(f, s))
  IN  IF i = 0 THEN noFormat ELSE order[i]

----------------------------------------------------------------------------
(* The registered magics, by the format of their name. *)

\* MUTANT of tgaMagics: the beginning of the true color header is enough.
tgaShortMagics == {Exactly(<<0, 0, 2>>)}

\* Three 18-byte headers of a 160 by 120 image.
tgaMagics ==
  LET header(start, depth) ==
        Exactly(start \o <<0, 0, 0, 0, 160, 0, 120, 0, depth, 32>>)
  IN  { header(<<0, 0, 2, 0, 0, 0, 0, 0>>, 24), header(<<0, 1, 1, 0, 0, 0, 1, 24>>, 8),
        header(<<0, 0, 11, 0, 0, 0, 0, 0>>, 8) }

magics ==
  [ PNG  |-> {pngBytes},
    WEBP |-> {riffWebp},
    BMP  |-> {letters(<<"B", "M">>)},
    GIF  |-> {letters(<<"G", "I", "F">>) \o <<{56}>>},
    JPEG |-> {Exactly(<<255, 216, 255>>)},
    QOI  |-> {letters(<<"q", "o", "i", "f">>)},
    ETC2 |-> {letters(<<"P", "K", "M">>) \o <<{32}>>},
    NIE  |-> {Exactly(<<110, 195, 175, 69>>)},
    TH   |-> {Exactly(<<195, 190, 254>>)},
    NPBM |-> {Exactly(<<80, 53>>), Exactly(<<80, 54>>)},
    WBMP |-> {Exactly(<<0, 0, 30, 20>>), Exactly(<<0, 0, 129, 32, 120>>)},
    TGA  |-> tgaMagics,
    HNSM |-> {} ]                     \* hnsmMagics below

\* The three bytes of v, whose fields or'ed together do not overlap.
hnsmMagic(color, quality, geom) ==
  LET v == hnsmTopBits * 512 + color * 128 + quality * 32 + geom
  IN  <<(v \div 65536) % 256, (v \div 256) % 256, v % 256>>

\* MUTANT of hnsmMagics: the reserved geometry code too.
hnsmAllMagics ==
  {hnsmMagic(color, quality, geom) : color \in {0, 2, 3}, quality \in 0 .. 3,
                                     geom \in 0 .. 31}

\* hnsmFormats: all of them, one for each structural header.
hnsmMagics ==
  {hnsmMagic(color, quality, geom) : color \in {0, 2, 3}, quality \in 0 .. 3,
                                     geom \in 0 .. 30}

\* The formats with a magic the image package matches to a source.
routed(s) ==
  {f \in Formats : \E magic \in magics[f] : starts(s, magic)}
    \cup {f \in {"HNSM"} : Len(s) >= 3 /\ SubSeq(s, 1, 3) \in hnsmMagics}

----------------------------------------------------------------------------
(* No source passes the tests of two formats, the TGA, WBMP and HNSM heuristics
   included: sniff_fourcc's order does not decide what a source is. *)
OneFormatOnly == \A f, g \in Formats : accepts(f, src) /\ accepts(g, src) => f = g

(* Once a prefix of a source has a format, nothing that follows it changes it:
   the verdict on a partial read stands. *)
LongerSourceSameFormat ==
  [][sniff_fourcc(src) # noFormat => sniff_fourcc(src') = sniff_fourcc(src)]_src

(* A source that some magic sends to this module is one the guest takes for that
   format or for none: never for another, and never with two names to it. *)
MagicsAgreeWithGuest ==
  \A f \in routed(src) :
    /\ routed(src) = {f}
    /\ sniff_fourcc(src) \in {f, noFormat}

(* hnsmFormats' 372 three-byte magics are exactly the headers sniff_hnsm accepts:
   packing fields into a magic and taking a header apart are inverse, with the
   reserved color and geometry left out of both. *)
HandsumMagicsExact ==
  sniff_hnsm(src) <=> Len(src) >= 3 /\ SubSeq(src, 1, 3) \in hnsmMagics

\* The weights of up to four base-128 digits, least significant first.
weights == <<1, 128, 128 * 128, 128 * 128 * 128>>

valueOf(bytes) ==
  LET n == Len(bytes)
      digit(i) == IF i <= n THEN (bytes[n + 1 - i] % 128) * weights[i] ELSE 0
  IN  digit(1) + digit(2) + digit(3) + digit(4)

\* Only the last byte ends a number, and no fewer bytes would hold it.
encodesDimension(bytes) ==
  /\ \A i \in DOMAIN bytes : bytes[i] >= 128 <=> i < Len(bytes)
  /\ valueOf(bytes) \in 1 .. MaxDimension
  /\ valueOf(bytes) >= weights[Len(bytes)]

(* sniff_wbmp accepts exactly two zero bytes followed by the shortest encodings
   of two dimensions from 1 to 0xFFFFFF, however the source ends. *)
WBMPHeadersExact ==
  sniff_wbmp(src) <=>
    \E a, b \in 1 .. 4 :
      /\ Len(src) >= 2 + a + b
      /\ src[1] = 0 /\ src[2] = 0
      /\ encodesDimension(SubSeq(src, 3, 2 + a))
      /\ encodesDimension(SubSeq(src, 3 + a, 2 + a + b))

=============================================================================
