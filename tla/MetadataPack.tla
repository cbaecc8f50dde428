----------------------------- MODULE MetadataPack -----------------------------
(***************************************************************************)
(* A metadata read, step by step, on the arena's blocks.  The guest collects  *)
(* what the codec reports in pieces into three accumulators, then writes one    *)
(* pack over the dst slot, and the host cuts the pack into slices again.         *)
(***************************************************************************)
EXTENDS GuestArena

CONSTANT Items     \* what the codec may report of each input's metadata

VARIABLES
  phase,      \* "idle", in decode_image_config, "telling", "returned", "sliced"
  have_wi,    \* have.meta.wi, the transformed bytes in the have block
  lens,       \* exif_len, icc_len, xmp_len by kind
  has,        \* has_gamma, has_chrm, has_srgb as a set
  told,       \* history: the bytes of each kind the codec has delivered
  pack,       \* the header in the dst slot, and where the blobs went
  metadata    \* what the host has made of it

locals   == <<phase, have_wi, lens, has, told>>
packVars == <<vars, locals, pack, metadata>>

Blobs  == {"EXIF", "ICCP", "XMP"}
Parsed == {"CHRM", "GAMA", "SRGB"}

\* A more_information: its bytes are [from, to) of the source for a passthrough,
\* the to - from bytes that have.meta.wi counts for a transform.
ItemType ==
  { i \in [flavor : {"parsed", "passthrough", "transform"},
           kind : Blobs \cup Parsed \cup {"MTIM", "KVP"}, from : Nat, to : Nat] :
      i.flavor = "transform" => i.from <= i.to }

ASSUME ItemsAssumption == Items \in [Inputs -> SUBSET ItemType]

minimumMetadataDstSlotBytes == 64 * 1024

noBytes == [k \in Blobs |-> 0]
nowhere == [k \in Blobs |-> block(0, 0)]
header(err, h, l, at) == [err |-> err, has |-> h, lens |-> l, blobs |-> at]
zeroHeader(err)       == header(err, {}, noBytes, nowhere)
result(err, h, at)    == [err |-> err, has |-> h, blobs |-> at]
noResult              == result("none", {}, nowhere)

AtRest(f, w, l, h, t, p, m) ==
  /\ f = "idle" /\ w = 0 /\ l = noBytes /\ h = {} /\ t = noBytes
  /\ p = zeroHeader("none") /\ m = noResult

PackInit == Init /\ AtRest(phase, have_wi, lens, has, told, pack, metadata)

----------------------------------------------------------------------------
(* The guest. *)

\* Metadata zeroes the header and calls the export, which allocates.  A dst slot or
\* an arena that is too small ends the call before there is a loop to follow: that
\* error is Decoder's (packCall, metadataCode).
BeginMetadata(in) ==
  /\ currentLayout.dstLen >= minimumMetadataDstSlotBytes
  /\ currentLayout.dstOff + WUFFS_WASM_METADATA_PACK_HEADER_SIZE <= memSize
  /\ EnterMetadata(in)
  /\ phase' = "config"
  /\ pack' = zeroHeader("ok")
  /\ UNCHANGED <<have_wi, lens, has, told, metadata>>

\* Every error return: the header is zeroed but for err and format.
GivesUp ==
  /\ phase' = "returned"
  /\ pack' = zeroHeader("decode")
  /\ UNCHANGED <<vars, have_wi, lens, has, told, metadata>>

\* Where a delivered piece leaves the loops: even_more_information asks again.
goesOn(more) == phase' = IF more THEN "telling" ELSE "config"

\* decode_image_config suspends with metadata_reported.
ConfigReports ==
  /\ phase = "config"
  /\ Items[call.in] # {}
  /\ phase' = "telling"
  /\ UNCHANGED <<vars, have_wi, lens, has, told, pack, metadata>>

\* An error of the codec, from decode_image_config or tell_me_more; or a status
\* or a flavor the loop has no case for.
CodecFails == phase \in {"config", "telling"} /\ GivesUp

\* Every tell_me_more starts with have rewound.
TellParsed(minfo) ==
  /\ phase = "telling"
  /\ minfo.flavor = "parsed"
  /\ have_wi' = 0
  /\ has' = has \cup ({minfo.kind} \cap Parsed)
  /\ goesOn(FALSE)
  /\ UNCHANGED <<vars, lens, told, pack, metadata>>

delivers(kind, n, taken) ==
  /\ lens' = [lens EXCEPT ![kind] = @ + taken]
  /\ told' = [told EXCEPT ![kind] = @ + n]
  /\ UNCHANGED <<vars, has, pack, metadata>>

\* MUTANT of room: each piece is compared, not the sum.
roomForPiece(kind, n, cap) == n <= cap

\* The bound check before each memcpy into an accumulator.
room(kind, n, cap) == lens[kind] + n <= cap

\* Ranges of the source, copied from it.  An empty one is only acknowledged, as
\* is a kind that is not stored.  src.meta.ri, which moves past the range and
\* which the codec alone reads, is left out.
TellPassthrough(minfo, more) ==
  LET n == minfo.to - minfo.from
  IN  /\ phase = "telling"
      /\ minfo.flavor = "passthrough"
      /\ \/ /\ n > 0
            /\ \/ minfo.to > call.in.srcLen
               \/ minfo.kind \in Blobs /\ ~ room(minfo.kind, n, call.in.srcLen)
            /\ GivesUp
         \/ /\ n > 0
            /\ minfo.to <= call.in.srcLen
            /\ minfo.kind \in Blobs
            /\ room(minfo.kind, n, call.in.srcLen)
            /\ delivers(minfo.kind, n, n)
            /\ have_wi' = 0
            /\ goesOn(more)
         \/ /\ n <= 0 \/ (minfo.to <= call.in.srcLen /\ minfo.kind \notin Blobs)
            /\ have_wi' = 0
            /\ goesOn(more)
            /\ UNCHANGED <<vars, lens, has, told, pack, metadata>>

\* MUTANT of TellTransform: have is not rewound between pieces.
TellTransformAppending(minfo, more) ==
  LET n == minfo.to - minfo.from
  IN  /\ phase = "telling"
      /\ minfo.flavor = "transform"
      /\ minfo.kind = "ICCP"
      /\ have_wi' = have_wi + n
      /\ room("ICCP", have_wi', WUFFS_WASM_METADATA_ICC_CAP)
      /\ delivers("ICCP", n, have_wi')
      /\ goesOn(more)

\* A piece of a decompressed ICC profile, appended from have.
TellTransform(minfo, more) ==
  LET n == minfo.to - minfo.from
  IN  /\ phase = "telling"
      /\ minfo.flavor = "transform"
      /\ \/ /\ \/ minfo.kind # "ICCP"
               \/ ~ room("ICCP", n, WUFFS_WASM_METADATA_ICC_CAP)
            /\ GivesUp
         \/ /\ minfo.kind = "ICCP"
            /\ room("ICCP", n, WUFFS_WASM_METADATA_ICC_CAP)
            /\ have_wi' = n
            /\ delivers("ICCP", n, have_wi')
            /\ goesOn(more)

\* The three accumulators behind the header at pack_off, EXIF, ICC, XMP.
blobsAt(out) ==
  [ EXIF |-> block(out, lens["EXIF"]),
    ICCP |-> block(out + lens["EXIF"], lens["ICCP"]),
    XMP  |-> block(out + lens["EXIF"] + lens["ICCP"], lens["XMP"]) ]

total(l) ==
  WUFFS_WASM_METADATA_PACK_HEADER_SIZE + l["EXIF"] + l["ICCP"] + l["XMP"]

\* decode_image_config is done: the pack is written if the dst slot holds it.
WritePack ==
  /\ phase = "config"
  /\ \/ total(lens) > currentLayout.dstLen /\ GivesUp
     \/ /\ total(lens) <= currentLayout.dstLen
        /\ phase' = "returned"
        /\ pack' = header("ok", has, lens,
                     blobsAt(currentLayout.dstOff + WUFFS_WASM_METADATA_PACK_HEADER_SIZE))
        /\ UNCHANGED <<vars, have_wi, lens, has, told, metadata>>

----------------------------------------------------------------------------
(* The host. *)

\* The slices of memory Metadata copies, for the lengths in the header.
slicesAt(off, l) ==
  [ EXIF |-> block(off, l["EXIF"]),
    ICCP |-> block(U32(off + l["EXIF"]), l["ICCP"]),
    XMP  |-> block(U32(off + l["EXIF"] + l["ICCP"]), l["XMP"]) ]

\* Metadata after the export: an error code, a header that says more than the
\* memory holds, or the slices.
ReadPack ==
  LET off == U32(currentLayout.dstOff + WUFFS_WASM_METADATA_PACK_HEADER_SIZE)
  IN  /\ phase = "returned"
      /\ phase' = "sliced"
      /\ metadata' =
           IF pack.err # "ok" \/ currentLayout.dstOff + total(pack.lens) > memSize
             THEN result("ErrDecode", {}, nowhere)
             ELSE result("nil", pack.has, slicesAt(off, pack.lens))
      /\ UNCHANGED <<vars, have_wi, lens, has, told, pack>>

EndMetadata ==
  /\ phase = "sliced"
  /\ Return
  /\ AtRest(phase', have_wi', lens', has', told', pack', metadata')

----------------------------------------------------------------------------
\* The other exports run as in GuestArena while no metadata read does.
OtherCalls ==
  /\ phase = "idle"
  /\ UNCHANGED <<locals, pack, metadata>>
  /\ \/ \E dstBytes, srcBytes \in Requests : Reserve(dstBytes, srcBytes)
     \/ \E in \in Inputs, export \in Exports \ {"read_image_metadata"} :
          Enter(export, in)
     \/ AllocateWorkbuf
     \/ Return

Reports ==
  \E minfo \in Items[call.in] :
    \/ TellParsed(minfo)
    \/ \E more \in BOOLEAN : \/ TellPassthrough(minfo, more)
                             \/ TellTransform(minfo, more)

PackNext ==
  \/ OtherCalls
  \/ \E in \in Inputs : BeginMetadata(in)
  \/ phase # "idle" /\ (\/ ConfigReports \/ CodecFails \/ Reports
                        \/ WritePack \/ ReadPack \/ EndMetadata)

PackSpec == PackInit /\ [][PackNext]_packVars

----------------------------------------------------------------------------
(* However many pieces the codec delivers, no accumulator outgrows its block.  An
   ICC profile in passthrough pieces is held to src_len while its block is
   ICC_CAP bytes: only the arena's limit on src_len keeps that below it. *)
AccumulatorsFit ==
  phase # "idle" => /\ lens["EXIF"] <= exif(call.in).size
                    /\ lens["ICCP"] <= icc(call.in).size
                    /\ lens["XMP"] <= xmp(call.in).size

(* A Metadata call that succeeds hands out every byte of each kind that the codec
   delivered and no other: its slices are the blobs the guest wrote, they lie
   inside the dst slot, and what does not fit there fails and is never cut. *)
BlobsReachCaller ==
  metadata.err = "nil" =>
    /\ metadata.blobs = pack.blobs
    /\ metadata.has = has
    /\ \A k \in Blobs :
         /\ metadata.blobs[k].size = told[k]
         /\ top(metadata.blobs[k]) <= currentLayout.dstOff + currentLayout.dstLen

=============================================================================
