----------------------------- MODULE MCGuestArena -----------------------------
(***************************************************************************)
(* Inputs whose work buffers are absent, as long as the host slot region is   *)
(* far, one byte too long, longer than 32 bits count, and that of a           *)
(* 4096 by 4096 RGBA PNG; sources on each side of the metadata guard; packs on  *)
(* each side of the dst slot's end.                                           *)
(***************************************************************************)
EXTENDS MetadataPack

MCWord == 536870912                    \* 2^29 stands for 2^32
MiB    == 1048576

Input(fourcc, srcLen, need, workbuf) ==
  [fourcc |-> fourcc, srcLen |-> srcLen, need |-> need, workbufLen |-> workbuf]

\* The longest source that read_image_metadata takes for a codec.
LongestMetadata(fourcc) ==
  (BUMP_LIMIT - 2 * MiB - decoderObjSize[fourcc]) \div 2

MCInputs ==
  { Input("QOI", 1, 4, 0),
    Input("WEBP", 8, 4, SafeWorkbuf),
    Input("WEBP", 9, 64 * MiB, SafeWorkbuf + 1),
    Input("JPEG", LongestMetadata("JPEG"), 4, 5 * MiB + 3),
    Input("JPEG", LongestMetadata("JPEG") + 1, 4, MCWord),
    Input("GIF", LongestMetadata("GIF") - 4, 8, MCWord - 3),
    Input("PNG", 12345, 64 * MiB, 4096 * (1 + 4 * 4096)) }

MCRequests == {0, 64 * MiB, 2 * MiB + 5, 120 * MiB}

Item(flavor, kind, from, to) ==
  [flavor |-> flavor, kind |-> kind, from |-> from, to |-> to]

\* Halves of a source, all of it, none, and a range that a truncated file makes
\* too long; transforms of no, half, just over half and all of an accumulator.
Passthrough(kind, srcLen) ==
  { Item("passthrough", kind, 0, srcLen),
    Item("passthrough", kind, srcLen \div 2, srcLen) }

MCItems ==
  [in \in MCInputs |->
     CASE in.fourcc = "JPEG" ->
            Passthrough("EXIF", in.srcLen) \cup Passthrough("ICCP", in.srcLen)
            \cup {Item("passthrough", "EXIF", 5, in.srcLen + 1)}
       [] in.fourcc = "GIF" ->
            Passthrough("XMP", in.srcLen) \cup Passthrough("ICCP", in.srcLen)
            \cup {Item("passthrough", "KVP", 5, 5)}
       [] in.fourcc = "PNG" ->
            { Item("transform", "ICCP", 0, n) :
                n \in {0, MiB \div 2, MiB \div 2 + 1, 100000} }
            \cup {Item("passthrough", "EXIF", 2, 11002),
                  Item("passthrough", "XMP", 1000, 12000),
                  Item("passthrough", "KVP", 3, 7),
                  Item("transform", "KVP", 0, 9),
                  Item("parsed", "GAMA", 0, 0), Item("parsed", "MTIM", 0, 0)}
       [] OTHER -> {}]

(* memory.go: hostSlotRegionBase is where the "host-accessible slots begin"; the
   slots are the host's while an export runs, and no block of the guest's own
   lies over one. *)
SlotsAreTheHosts ==
  \A b \in live : \A slot \in Slots : apart(b, slot)

PNGInputs == {Input("PNG", 12345, 64 * MiB, 4096 * (1 + 4 * 4096))}
NoItems   == [in \in PNGInputs |-> {}]
=============================================================================
