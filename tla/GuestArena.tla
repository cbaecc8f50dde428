------------------------------- MODULE GuestArena -------------------------------
(***************************************************************************)
(* The bump allocator of wasm/shim.c beside the host's slots.  Every export  *)
(* rewinds it, allocates the codec object and, past the codec's config, the   *)
(* buffers that export needs.  Nothing in bump_alloc looks at the end of the   *)
(* memory or at the slots: what keeps guest and host apart is the sizes.       *)
(***************************************************************************)
EXTENDS SlotLayout, Codecs

CONSTANTS
  InitialDstSlotBytes,   \* as in GuestMemory
  Requests,
  Inputs                 \* what a call finds in its source

VARIABLES
  memSize, currentLayout, reserveErr,   \* GuestMemory
  bump_ptr,       \* the next free address
  live,           \* the blocks the current call has allocated
  call            \* the export that runs and its input, or idle

Mem    == INSTANCE GuestMemory
memory == <<memSize, currentLayout, reserveErr>>
vars   == <<memory, bump_ptr, live, call>>

bump_base == 9437184                              \* 0x900000
fallbackWorkbuf == 64 * 1024

Exports == {"decode_image", "decode_frame", "probe_image", "frame_count",
            "animation_loops", "read_image_metadata"}
Decodes == {"decode_image", "decode_frame"}

\* need and workbufLen are the 64-bit values the codec reports.
InputType == [fourcc : Formats, srcLen : Nat, need : Nat, workbufLen : Nat]

noInput == [fourcc |-> "PNG", srcLen |-> 0, need |-> 0, workbufLen |-> 0]

ASSUME ArenaAssumption ==
  /\ InitialDstSlotBytes \in Nat
  /\ InitialDstSlotBytes <= 131072
  /\ Requests \subseteq Int
  /\ Inputs \subseteq InputType

----------------------------------------------------------------------------

running(export, in) == [export |-> export, in |-> in]
idle == running("none", noInput)

block(at, size) == [at |-> at, size |-> size]
top(b)          == b.at + b.size
apart(b, c)     == top(b) <= c.at \/ top(c) <= b.at

\* MUTANT of bumped: rounds the size down.
bumpedDown(p, size) == U32(p + (size - (size % 8)))

\* The pointer after bump_alloc(size) at p.
bumped(p, size) == U32(p + align8(size))

Init ==
  /\ Mem!Init
  /\ bump_ptr = bump_base
  /\ live = {}
  /\ call = idle

Reserve(dstBytes, srcBytes) ==
  /\ call = idle
  /\ Mem!Reserve(dstBytes, srcBytes)
  /\ UNCHANGED <<bump_ptr, live, call>>

\* MUTANT of Enter: no bump_rewind.
EnterWithoutRewind(export, in) ==
  /\ call = idle
  /\ in.srcLen \in 1 .. currentLayout.srcLen
  /\ call' = running(export, in)
  /\ live' = {block(bump_ptr, decoderObjSize[in.fourcc])}
  /\ bump_ptr' = bumped(bump_ptr, decoderObjSize[in.fourcc])
  /\ UNCHANGED memory

\* The codec's object, the first block of every call.
object(in) == block(bump_base, decoderObjSize[in.fourcc])

\* bump_rewind and the codec object, which every export but the metadata one
\* allocates as soon as it knows the format.
Enter(export, in) ==
  /\ call = idle
  /\ in.srcLen \in 1 .. currentLayout.srcLen
  /\ decoderObjSize[in.fourcc] <= BUMP_LIMIT
  /\ call' = running(export, in)
  /\ live' = {object(in)}
  /\ bump_ptr' = bumped(bump_base, object(in).size)
  /\ UNCHANGED memory

\* MUTANT of workbufLen: the codec's 64-bit length as it is.
workbufLen64(in) == IF in.workbufLen = 0 THEN fallbackWorkbuf ELSE in.workbufLen

\* The uint32 length a decode allocates for the work buffer.
workbufLen(in) ==
  IF U32(in.workbufLen) = 0 THEN fallbackWorkbuf ELSE U32(in.workbufLen)

\* decode_image and decode_frame once the canvas fits the dst slot.
AllocateWorkbuf ==
  /\ call # idle
  /\ call.export \in Decodes
  /\ live = {object(call.in)}              \* not yet
  /\ call.in.need \in 1 .. currentLayout.dstLen
  /\ live' = live \cup {block(bump_ptr, workbufLen(call.in))}
  /\ bump_ptr' = bumped(bump_ptr, workbufLen(call.in))
  /\ UNCHANGED <<memory, call>>

\* What read_image_metadata checks before it allocates anything.
metadataNeed(in) ==
  decoderObjSize[in.fourcc]
  + (WUFFS_WASM_METADATA_HAVE_LEN + WUFFS_WASM_METADATA_ICC_CAP + 2 * in.srcLen)

\* The block bump_alloc returns after block b.
after(b, size) == block(bumped(b.at, b.size), size)

have(in) == after(object(in), WUFFS_WASM_METADATA_HAVE_LEN)
icc(in)  == after(have(in), WUFFS_WASM_METADATA_ICC_CAP)
exif(in) == after(icc(in), in.srcLen)
xmp(in)  == after(exif(in), in.srcLen)

EnterMetadata(in) ==
  /\ call = idle
  /\ in.srcLen \in 1 .. currentLayout.srcLen
  /\ metadataNeed(in) <= BUMP_LIMIT
  /\ call' = running("read_image_metadata", in)
  /\ live' = {object(in), have(in), icc(in), exif(in), xmp(in)}
  /\ bump_ptr' = bumped(xmp(in).at, xmp(in).size)
  /\ UNCHANGED memory

\* Any way out of the export.  The blocks are dead; the pointer stays.
Return ==
  /\ call # idle
  /\ call' = idle
  /\ live' = {}
  /\ UNCHANGED <<memory, bump_ptr>>

Next ==
  \/ \E dstBytes, srcBytes \in Requests : Reserve(dstBytes, srcBytes)
  \/ \E in \in Inputs : \/ EnterMetadata(in)
                      \/ \E export \in Exports \ {"read_image_metadata"} :
                           Enter(export, in)
  \/ AllocateWorkbuf
  \/ Return

Spec == Init /\ [][Next]_vars

----------------------------------------------------------------------------
(* Every variable has its type. *)
TypeOK ==
  /\ Mem!TypeOK
  /\ bump_ptr \in uint32
  /\ live \subseteq [at : uint32, size : uint32]
  /\ call = idle \/ call \in [export : Exports, in : Inputs]

(* The blocks of a call never overlap: rounding a size up to 8 bytes leaves no
   block inside another, whatever the sizes. *)
BlocksApart == \A b, c \in live : b = c \/ apart(b, c)

\* The slots of the layout as blocks.
Slots ==
  LET l == currentLayout
  IN  { block(l.countOutOff, frameCountOutSlotBytes),
        block(l.loopsOutOff, animationLoopsOutSlotBytes),
        block(l.frameMetaOff, frameMetaSlotBytes),
        block(l.metaOff, l.metaLen), block(l.srcOff, l.srcLen),
        block(l.dstOff, l.dstLen) }

\* The work buffers that end below the host slot region beside any codec.
SafeWorkbuf == hostSlotRegionBase - bump_base - BUMP_LIMIT

(* No export writes over the host's slots, whatever Reserve made of the layout,
   as long as the codec's work buffer is at most SafeWorkbuf bytes: metadata
   reads, probes and frame walks never do. *)
ArenaBelowSlots ==
  call # idle /\ (call.export \in Decodes => workbufLen(call.in) <= SafeWorkbuf)
    => \A b \in live : \A slot \in Slots : top(b) <= slot.at

=============================================================================
