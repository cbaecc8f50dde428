--------------------------- MODULE MetadataPackProofs ---------------------------
(***************************************************************************)
(* Proofs about MetadataPack, for every set of inputs and whatever a codec     *)
(* reports of them: a metadata read is a call of the arena like any other, no    *)
(* piece outgrows its accumulator, and the slices the host cuts are the bytes     *)
(* the codec delivered.                                                             *)
(***************************************************************************)
EXTENDS MetadataPack, GuestArenaProofs

Phases == {"idle", "config", "telling", "returned", "sliced"}

\* Between two reads nothing is left of the last one, and any call that runs is
\* of another export.
RestInv ==
  phase = "idle" =>
    /\ AtRest(phase, have_wi, lens, has, told, pack, metadata)
    /\ call.export # "read_image_metadata"

\* While a read runs, the arena runs its export on an input that passed the guard
\* before the allocations.
ReadInv ==
  phase # "idle" =>
    /\ call.export = "read_image_metadata"
    /\ call.in \in Inputs
    /\ metadataNeed(call.in) <= BUMP_LIMIT

\* The bound each room check keeps, by kind.
capOf(in, kind) ==
  IF kind = "ICCP" THEN WUFFS_WASM_METADATA_ICC_CAP ELSE in.srcLen

\* The accumulators hold what was told and no more than their blocks.
AccumulatorInv ==
  /\ lens \in [Blobs -> Nat]
  /\ told = lens
  /\ phase # "idle" => \A k \in Blobs : lens[k] <= capOf(call.in, k)

\* The pack is written whole or it is an error.
WrittenInv ==
  phase \in {"returned", "sliced"} /\ pack.err = "ok" =>
    /\ pack = header("ok", has, lens,
                blobsAt(currentLayout.dstOff + WUFFS_WASM_METADATA_PACK_HEADER_SIZE))
    /\ total(lens) <= currentLayout.dstLen

\* What the host has made of the pack.
SlicedInv ==
  /\ phase # "sliced" => metadata = noResult
  /\ metadata.err = "nil" =>
       /\ phase = "sliced"
       /\ pack.err = "ok"
       /\ metadata = result("nil", pack.has,
            slicesAt(U32(currentLayout.dstOff + WUFFS_WASM_METADATA_PACK_HEADER_SIZE),
                     pack.lens))

PackInv ==
  /\ phase \in Phases
  /\ RestInv
  /\ ReadInv
  /\ AccumulatorInv
  /\ WrittenInv
  /\ SlicedInv

----------------------------------------------------------------------------
(* A metadata read is a call of the arena. *)

(* Every step of a read is a step of GuestArena or leaves its state alone. *)
LEMMA StepsOfArena == [PackNext]_packVars => [Next]_vars
  <1>. SUFFICES ASSUME [PackNext]_packVars PROVE [Next]_vars
    OBVIOUS
  <1>1. CASE OtherCalls
    BY <1>1 DEF OtherCalls, Next
  <1>2. ASSUME NEW in \in Inputs, BeginMetadata(in)
        PROVE  Next
    BY <1>2 DEF BeginMetadata, Next
  <1>3. CASE ConfigReports
    BY <1>3 DEF ConfigReports
  <1>4. CASE CodecFails
    BY <1>4 DEF CodecFails, GivesUp
  <1>5. ASSUME NEW minfo \in Items[call.in], NEW more \in BOOLEAN,
               TellParsed(minfo) \/ TellPassthrough(minfo, more)
                 \/ TellTransform(minfo, more)
        PROVE  UNCHANGED vars
    BY <1>5 DEF TellParsed, TellPassthrough, TellTransform, GivesUp, delivers
  <1>6. CASE Reports
    BY <1>5, <1>6 DEF Reports
  <1>7. CASE WritePack
    BY <1>7 DEF WritePack, GivesUp
  <1>8. CASE ReadPack
    BY <1>8 DEF ReadPack
  <1>9. CASE EndMetadata
    BY <1>9 DEF EndMetadata, Next
  <1>10. CASE UNCHANGED packVars
    BY <1>10 DEF packVars
  <1>. QED
    BY <1>1, <1>2, <1>3, <1>4, <1>6, <1>7, <1>8, <1>9, <1>10 DEF PackNext

(* Reading metadata implements the arena: the blocks, the pointer and the memory
   of a read behave as GuestArena says of any call. *)
THEOREM PackImplementsArena == PackSpec => Spec
  <1>1. PackInit => Init
    BY DEF PackInit
  <1>. QED  BY <1>1, StepsOfArena, PTL DEF PackSpec, Spec

(* The memory and the arena keep their types while metadata is read (TypeOK). *)
THEOREM PackTypeCorrect == PackSpec => []TypeOK
  BY PackImplementsArena, ArenaTypeCorrect, PTL

(* The accumulators never overlap each other or the codec (BlocksApart). *)
THEOREM PackBlocksApart == PackSpec => []BlocksApart
  BY PackImplementsArena, ArenaBlocksApart, PTL

(* The accumulators end below the host's slots (ArenaBelowSlots). *)
THEOREM PackBelowSlots == PackSpec => []ArenaBelowSlots
  BY PackImplementsArena, ArenaStaysBelowSlots, PTL

----------------------------------------------------------------------------
(* What the codec reports. *)

(* The pieces of an input are of the declared type. *)
LEMMA PieceType ==
  ASSUME NEW in \in Inputs, NEW minfo \in Items[in]
  PROVE  /\ minfo.from \in Nat /\ minfo.to \in Nat
         /\ minfo.flavor = "transform" => minfo.from <= minfo.to
  <1>1. Items[in] \subseteq ItemType
    BY ItemsAssumption
  <1>2. minfo \in ItemType
    BY <1>1
  <1>. QED  BY <1>2 DEF ItemType

(* The guard before the allocations keeps every cap within the ICC block. *)
LEMMA GuardBoundsSource ==
  ASSUME NEW in \in Inputs, metadataNeed(in) <= BUMP_LIMIT
  PROVE  in.srcLen \in Nat /\ in.srcLen <= WUFFS_WASM_METADATA_ICC_CAP
  BY InputSizes
     DEF metadataNeed, BUMP_LIMIT, WUFFS_WASM_METADATA_HAVE_LEN,
         WUFFS_WASM_METADATA_ICC_CAP

(* A piece that finds room leaves its accumulator within its cap and the others
   as they were. *)
LEMMA DeliveryKeeps ==
  ASSUME AccumulatorInv, phase # "idle", phase' # "idle", call' = call,
         NEW kind \in Blobs, NEW n \in Nat, delivers(kind, n, n),
         room(kind, n, capOf(call.in, kind))
  PROVE  AccumulatorInv'
  <1>1. /\ lens \in [Blobs -> Nat]
        /\ lens' = [lens EXCEPT ![kind] = @ + n]
        /\ told' = lens'
        /\ lens[kind] + n <= capOf(call.in, kind)
    BY DEF AccumulatorInv, delivers, room
  <1>2. lens' \in [Blobs -> Nat]
    BY <1>1
  <1>3. ASSUME NEW k \in Blobs
        PROVE  lens'[k] <= capOf(call'.in, k)
    <2>1. CASE k = kind
      BY <1>1, <2>1
    <2>2. CASE k # kind
      BY <1>1, <2>2 DEF AccumulatorInv
    <2>. QED  BY <2>1, <2>2
  <1>. QED  BY <1>1, <1>2, <1>3 DEF AccumulatorInv

----------------------------------------------------------------------------
(* The invariant. *)

LEMMA PackInvInit == PackInit => PackInv
  <1>. SUFFICES ASSUME PackInit PROVE PackInv
    OBVIOUS
  <1>1. /\ phase = "idle" /\ call = idle
        /\ AtRest(phase, have_wi, lens, has, told, pack, metadata)
    BY DEF PackInit, Init, AtRest
  <1>2. RestInv
    BY <1>1 DEF RestInv, idle, running
  <1>3. AccumulatorInv
    BY <1>1 DEF AccumulatorInv, AtRest, noBytes
  <1>4. SlicedInv
    BY <1>1 DEF SlicedInv, AtRest, noResult, result
  <1>. QED
    BY <1>1, <1>2, <1>3, <1>4 DEF PackInv, Phases, ReadInv, WrittenInv

(* Other calls leave a decoder at rest at rest. *)
LEMMA OtherCallsKeep ==
  ASSUME PackInv, OtherCalls
  PROVE  PackInv'
  <1>1. /\ phase = "idle" /\ phase' = "idle"
        /\ UNCHANGED <<have_wi, lens, has, told, pack, metadata>>
    BY DEF OtherCalls, locals
  <1>2. call'.export # "read_image_metadata"
    <2>1. call.export # "read_image_metadata"
      BY <1>1 DEF PackInv, RestInv
    <2>2. ASSUME NEW in \in Inputs, NEW export \in Exports \ {"read_image_metadata"},
                 Enter(export, in)
          PROVE  call'.export # "read_image_metadata"
      BY <2>2 DEF Enter, running
    <2>3. ASSUME Return
          PROVE  call'.export # "read_image_metadata"
      BY <2>3 DEF Return, idle, running
    <2>4. ASSUME call' = call
          PROVE  call'.export # "read_image_metadata"
      BY <2>1, <2>4
    <2>. QED
      BY <2>2, <2>3, <2>4 DEF OtherCalls, Reserve, AllocateWorkbuf
  <1>3. RestInv'
    BY <1>1, <1>2 DEF PackInv, RestInv, AtRest
  <1>4. AccumulatorInv'
    BY <1>1 DEF PackInv, AccumulatorInv
  <1>5. SlicedInv'
    BY <1>1 DEF PackInv, RestInv, SlicedInv, AtRest, noResult, result
  <1>. QED
    BY <1>1, <1>3, <1>4, <1>5 DEF PackInv, Phases, ReadInv, WrittenInv

(* A read begins with empty accumulators. *)
LEMMA BeginKeeps ==
  ASSUME PackInv, NEW in \in Inputs, BeginMetadata(in)
  PROVE  PackInv'
  <1>1. /\ call = idle /\ call' = running("read_image_metadata", in)
        /\ metadataNeed(in) <= BUMP_LIMIT
        /\ phase' = "config"
        /\ UNCHANGED <<have_wi, lens, has, told, metadata>>
    BY DEF BeginMetadata, EnterMetadata
  <1>2. phase = "idle"
    BY <1>1 DEF PackInv, ReadInv, idle, running
  <1>3. lens = noBytes /\ told = noBytes /\ metadata = noResult
    BY <1>2 DEF PackInv, RestInv, AtRest
  <1>4. call'.export = "read_image_metadata" /\ call'.in = in
    BY <1>1 DEF running
  <1>5. ReadInv'
    BY <1>1, <1>4 DEF ReadInv
  <1>6. AccumulatorInv'
    <2>1. in.srcLen \in Nat
      BY InputSizes
    <2>2. \A k \in Blobs : 0 <= capOf(in, k)
      BY <2>1 DEF capOf, WUFFS_WASM_METADATA_ICC_CAP
    <2>. QED  BY <1>1, <1>3, <1>4, <2>2 DEF AccumulatorInv, noBytes
  <1>7. SlicedInv'
    BY <1>1, <1>3 DEF SlicedInv, noResult, result
  <1>. QED
    BY <1>1, <1>5, <1>6, <1>7 DEF PackInv, Phases, RestInv, WrittenInv

(* A step of the guest's loops that stores nothing, and the error returns. *)
LEMMA QuietStepKeeps ==
  ASSUME PackInv, phase \in {"config", "telling"},
         phase' \in {"config", "telling"} \/ (phase' = "returned" /\ pack'.err # "ok"),
         UNCHANGED <<vars, lens, told, metadata>>
  PROVE  PackInv'
  <1>1. call' = call
    BY DEF vars
  <1>2. ReadInv'
    BY <1>1 DEF PackInv, ReadInv
  <1>3. AccumulatorInv'
    BY <1>1 DEF PackInv, AccumulatorInv
  <1>4. SlicedInv'
    BY DEF PackInv, SlicedInv, noResult, result
  <1>. QED
    BY <1>2, <1>3, <1>4 DEF PackInv, Phases, RestInv, WrittenInv

LEMMA GivesUpKeeps ==
  ASSUME PackInv, phase \in {"config", "telling"}, GivesUp
  PROVE  PackInv'
  <1>1. pack'.err # "ok"
    BY DEF GivesUp, zeroHeader, header
  <1>. QED  BY <1>1, QuietStepKeeps DEF GivesUp

(* A piece the guest stores. *)
LEMMA StoredPieceKeeps ==
  ASSUME PackInv, phase = "telling", NEW more \in BOOLEAN, goesOn(more),
         NEW kind \in Blobs, NEW n \in Nat, delivers(kind, n, n),
         room(kind, n, capOf(call.in, kind))
  PROVE  PackInv'
  <1>1. phase' \in {"config", "telling"}
    BY DEF goesOn
  <1>2. call' = call /\ metadata' = metadata
    BY DEF delivers, vars
  <1>3. AccumulatorInv'
    BY <1>1, <1>2, DeliveryKeeps DEF PackInv
  <1>4. ReadInv'
    BY <1>2 DEF PackInv, ReadInv
  <1>5. SlicedInv'
    BY <1>1, <1>2 DEF PackInv, SlicedInv, noResult, result
  <1>. QED
    BY <1>1, <1>3, <1>4, <1>5 DEF PackInv, Phases, RestInv, WrittenInv

(* One more_information of the codec. *)
LEMMA ReportsKeep ==
  ASSUME PackInv, Reports
  PROVE  PackInv'
  <1>1. PICK minfo \in Items[call.in], more \in BOOLEAN :
          TellParsed(minfo) \/ TellPassthrough(minfo, more)
            \/ TellTransform(minfo, more)
    BY DEF Reports
  <1>2. phase = "telling"
    BY <1>1 DEF TellParsed, TellPassthrough, TellTransform
  <1>3. call.in \in Inputs /\ metadataNeed(call.in) <= BUMP_LIMIT
    BY <1>2 DEF PackInv, ReadInv
  <1>4. /\ minfo.from \in Nat /\ minfo.to \in Nat
        /\ minfo.flavor = "transform" => minfo.from <= minfo.to
    BY <1>3, PieceType
  <1>. DEFINE n == minfo.to - minfo.from
  <1>5. CASE GivesUp
    BY <1>2, <1>5, GivesUpKeeps
  <1>6. ASSUME NEW again \in BOOLEAN, goesOn(again),
               UNCHANGED <<vars, lens, told, metadata>>
        PROVE  PackInv'
    BY <1>2, <1>6, QuietStepKeeps DEF goesOn
  <1>7. CASE TellParsed(minfo)
    BY <1>6, <1>7 DEF TellParsed
  <1>8. CASE TellPassthrough(minfo, more)
    <2>1. CASE /\ n > 0 /\ minfo.kind \in Blobs
               /\ room(minfo.kind, n, call.in.srcLen)
               /\ delivers(minfo.kind, n, n) /\ goesOn(more)
      <3>1. n \in Nat
        BY <1>4, <2>1
      <3>2. room(minfo.kind, n, capOf(call.in, minfo.kind))
        <4>1. lens[minfo.kind] \in Nat
          BY <2>1 DEF PackInv, AccumulatorInv
        <4>2. /\ call.in.srcLen \in Nat
              /\ call.in.srcLen <= WUFFS_WASM_METADATA_ICC_CAP
          BY <1>3, GuardBoundsSource
        <4>. QED
          BY <2>1, <3>1, <4>1, <4>2 DEF room, capOf, WUFFS_WASM_METADATA_ICC_CAP
      <3>. HIDE DEF n
      <3>. QED  BY <1>2, <2>1, <3>1, <3>2, StoredPieceKeeps
    <2>2. CASE goesOn(more) /\ UNCHANGED <<vars, lens, has, told, pack, metadata>>
      BY <1>6, <2>2
    <2>. QED  BY <1>5, <1>8, <2>1, <2>2 DEF TellPassthrough
  <1>9. CASE TellTransform(minfo, more)
    <2>1. CASE /\ room("ICCP", n, WUFFS_WASM_METADATA_ICC_CAP)
               /\ delivers("ICCP", n, n) /\ goesOn(more)
      <3>1. n \in Nat
        BY <1>4, <1>9 DEF TellTransform
      <3>2. room("ICCP", n, capOf(call.in, "ICCP"))
        BY <2>1 DEF capOf
      <3>3. "ICCP" \in Blobs
        BY DEF Blobs
      <3>. HIDE DEF n
      <3>. QED  BY <1>2, <2>1, <3>1, <3>2, <3>3, StoredPieceKeeps
    <2>. QED  BY <1>5, <1>9, <2>1 DEF TellTransform
  <1>. QED  BY <1>1, <1>7, <1>8, <1>9

(* The pack is written from accumulators that no longer change. *)
LEMMA WritePackKeeps ==
  ASSUME PackInv, WritePack
  PROVE  PackInv'
  <1>1. CASE GivesUp
    BY <1>1, GivesUpKeeps DEF WritePack
  <1>2. CASE ~ GivesUp
    <2>1. /\ phase = "config" /\ phase' = "returned"
          /\ total(lens) <= currentLayout.dstLen
          /\ pack' = header("ok", has, lens,
               blobsAt(currentLayout.dstOff + WUFFS_WASM_METADATA_PACK_HEADER_SIZE))
          /\ UNCHANGED <<vars, lens, has, told, metadata>>
      BY <1>2 DEF WritePack
    <2>2. call' = call /\ currentLayout' = currentLayout
      BY <2>1 DEF vars, memory
    <2>3. ReadInv'
      BY <2>1, <2>2 DEF PackInv, ReadInv
    <2>4. AccumulatorInv'
      BY <2>1, <2>2 DEF PackInv, AccumulatorInv
    <2>5. WrittenInv'
      BY <2>1, <2>2 DEF WrittenInv, blobsAt, total
    <2>6. SlicedInv'
      BY <2>1 DEF PackInv, SlicedInv, noResult, result
    <2>. QED
      BY <2>1, <2>3, <2>4, <2>5, <2>6 DEF PackInv, Phases, RestInv
  <1>. QED  BY <1>1, <1>2

LEMMA ReadPackKeeps ==
  ASSUME PackInv, ReadPack
  PROVE  PackInv'
  <1>1. /\ phase = "returned" /\ phase' = "sliced"
        /\ UNCHANGED <<vars, lens, has, told, pack>>
    BY DEF ReadPack
  <1>2. call' = call /\ currentLayout' = currentLayout
    BY <1>1 DEF vars, memory
  <1>3. ReadInv'
    BY <1>1, <1>2 DEF PackInv, ReadInv
  <1>4. AccumulatorInv'
    BY <1>1, <1>2 DEF PackInv, AccumulatorInv
  <1>5. WrittenInv'
    BY <1>1, <1>2 DEF PackInv, WrittenInv, blobsAt, total
  <1>6. SlicedInv'
    BY <1>1, <1>2 DEF ReadPack, SlicedInv, result
  <1>. QED
    BY <1>1, <1>3, <1>4, <1>5, <1>6 DEF PackInv, Phases, RestInv

LEMMA EndKeeps ==
  ASSUME EndMetadata
  PROVE  PackInv'
  <1>1. /\ phase' = "idle" /\ call' = idle /\ lens' = noBytes /\ told' = noBytes
        /\ metadata' = noResult
        /\ AtRest(phase', have_wi', lens', has', told', pack', metadata')
    BY DEF EndMetadata, Return, AtRest
  <1>2. RestInv'
    BY <1>1 DEF RestInv, idle, running
  <1>3. AccumulatorInv'
    BY <1>1 DEF AccumulatorInv, noBytes
  <1>4. SlicedInv'
    BY <1>1 DEF SlicedInv, noResult, result
  <1>. QED
    BY <1>1, <1>2, <1>3, <1>4 DEF PackInv, Phases, ReadInv, WrittenInv

LEMMA PackInvNext == PackInv /\ [PackNext]_packVars => PackInv'
  <1>. SUFFICES ASSUME PackInv, [PackNext]_packVars PROVE PackInv'
    OBVIOUS
  <1>1. CASE ConfigReports
    BY <1>1, QuietStepKeeps DEF ConfigReports
  <1>2. CASE CodecFails
    BY <1>2, GivesUpKeeps DEF CodecFails
  <1>3. CASE UNCHANGED packVars
    BY <1>3 DEF packVars, vars, memory, locals, PackInv, RestInv, ReadInv,
       AccumulatorInv, WrittenInv, SlicedInv, blobsAt, AtRest
  <1>. QED
    BY <1>1, <1>2, <1>3, OtherCallsKeep, BeginKeeps, ReportsKeep, WritePackKeeps,
       ReadPackKeeps, EndKeeps DEF PackNext

(* PackInv holds throughout: a read that runs passed the guard before its allocations,
   each accumulator is within what its room check compares with, the pack is whole
   or an error, the host's slices are cut from that pack, and between two reads
   nothing is left of the last. *)
THEOREM PackInvariant == PackSpec => []PackInv
  BY PackInvInit, PackInvNext, PTL DEF PackSpec

----------------------------------------------------------------------------
(* No accumulator outgrows its block (AccumulatorsFit), whatever the codec
   reports in whatever pieces. *)
THEOREM AccumulatorsNeverOverflow == PackSpec => []AccumulatorsFit
  <1>1. PackInv => AccumulatorsFit
    <2>. SUFFICES ASSUME PackInv, phase # "idle" PROVE AccumulatorsFit
      BY DEF AccumulatorsFit
    <2>1. \A k \in Blobs : lens[k] <= capOf(call.in, k)
      BY DEF PackInv, AccumulatorInv
    <2>2. /\ exif(call.in).size = call.in.srcLen
          /\ xmp(call.in).size = call.in.srcLen
          /\ icc(call.in).size = WUFFS_WASM_METADATA_ICC_CAP
      BY DEF exif, xmp, icc, after, block
    <2>. QED
      BY <2>1, <2>2 DEF AccumulatorsFit, capOf, Blobs, WUFFS_WASM_METADATA_ICC_CAP
  <1>. QED  BY <1>1, PackInvariant, PTL

(* The host's uint32 offsets into the pack do not wrap: the dst slot they lie in
   ends inside the memory. *)
LEMMA SlicesAreBlobs ==
  ASSUME Mem!TypeOK, Memory!SlotsInMemory, lens \in [Blobs -> Nat],
         total(lens) <= currentLayout.dstLen
  PROVE  LET out == currentLayout.dstOff + WUFFS_WASM_METADATA_PACK_HEADER_SIZE
         IN  /\ slicesAt(U32(out), lens) = blobsAt(out)
             /\ \A k \in Blobs : /\ blobsAt(out)[k].size = lens[k]
                                 /\ top(blobsAt(out)[k])
                                      <= currentLayout.dstOff + currentLayout.dstLen
  <1>. DEFINE off == currentLayout.dstOff
              len == currentLayout.dstLen
              e   == lens["EXIF"]
              i   == lens["ICCP"]
              x   == lens["XMP"]
  <1>1. e \in Nat /\ i \in Nat /\ x \in Nat
    BY DEF Blobs
  <1>2. /\ off \in Nat /\ len \in Nat /\ off + len < Word
    <2>1. currentLayout \in Mem!slotLayout /\ memSize \in 0 .. maxMemory
      <3>1. Mem!maxMemory = maxMemory
        BY DEF Mem!maxMemory, Mem!maxReservePages, Mem!wasmPageSize, maxMemory,
           maxReservePages, wasmPageSize
      <3>. QED  BY <3>1 DEF Mem!TypeOK
    <2>2. off \in uint32 /\ len \in uint32
      BY <2>1 DEF Mem!slotLayout, Mem!uint32, uint32
    <2>3. off + len <= memSize
      BY DEF Memory!SlotsInMemory
    <2>4. /\ Word \in Nat /\ maxMemory \in Nat /\ maxMemory < Word
          /\ off \in Nat /\ len \in Nat
      BY <2>2, Region DEF uint32
    <2>. HIDE DEF off, len
    <2>. QED  BY <2>1, <2>3, <2>4
  <1>3. off + 88 + e + i + x <= off + len
    BY <1>1, <1>2 DEF total, WUFFS_WASM_METADATA_PACK_HEADER_SIZE
  <1>. HIDE DEF off, len, e, i, x
  <1>4. /\ U32(off + 88) = off + 88
        /\ U32(off + 88 + e) = off + 88 + e
        /\ U32(off + 88 + e + i) = off + 88 + e + i
    BY <1>1, <1>2, <1>3, Region
  <1>5. /\ blobsAt(off + 88)["EXIF"] = [at |-> off + 88, size |-> e]
        /\ blobsAt(off + 88)["ICCP"] = [at |-> off + 88 + e, size |-> i]
        /\ blobsAt(off + 88)["XMP"]  = [at |-> off + 88 + e + i, size |-> x]
    BY DEF blobsAt, block, e, i, x
  <1>6. slicesAt(U32(off + 88), lens) = blobsAt(off + 88)
    BY <1>4 DEF slicesAt, blobsAt, e, i
  <1>7. \A k \in Blobs : /\ blobsAt(off + 88)[k].size = lens[k]
                         /\ top(blobsAt(off + 88)[k]) <= off + len
    <2>1. \A k \in Blobs : blobsAt(off + 88)[k].size = lens[k]
      BY <1>5 DEF Blobs, e, i, x
    <2>2. \A k \in Blobs : top(blobsAt(off + 88)[k]) <= off + len
      BY <1>1, <1>2, <1>3, <1>5 DEF Blobs, top
    <2>. QED  BY <2>1, <2>2
  <1>. QED  BY <1>6, <1>7 DEF WUFFS_WASM_METADATA_PACK_HEADER_SIZE, off, len

(* A Metadata call that succeeds hands out every byte the codec delivered and no
   other, from inside the dst slot (BlobsReachCaller). *)
THEOREM EveryBlobReachesCaller == PackSpec => []BlobsReachCaller
  <1>1. PackInv /\ Mem!TypeOK /\ Memory!SlotsInMemory => BlobsReachCaller
    <2>. SUFFICES ASSUME PackInv, Mem!TypeOK, Memory!SlotsInMemory,
                         metadata.err = "nil"
                  PROVE  BlobsReachCaller
      BY DEF BlobsReachCaller
    <2>. DEFINE out == currentLayout.dstOff + WUFFS_WASM_METADATA_PACK_HEADER_SIZE
    <2>1. /\ phase = "sliced" /\ pack.err = "ok"
          /\ metadata = result("nil", pack.has, slicesAt(U32(out), pack.lens))
      BY DEF PackInv, SlicedInv
    <2>2. /\ pack = header("ok", has, lens, blobsAt(out))
          /\ total(lens) <= currentLayout.dstLen
      BY <2>1 DEF PackInv, WrittenInv
    <2>3. pack.has = has /\ pack.lens = lens /\ pack.blobs = blobsAt(out)
      BY <2>2 DEF header
    <2>4. metadata.has = has /\ metadata.blobs = slicesAt(U32(out), lens)
      BY <2>1, <2>3 DEF result
    <2>5. lens \in [Blobs -> Nat] /\ told = lens
      BY DEF PackInv, AccumulatorInv
    <2>6. /\ slicesAt(U32(out), lens) = blobsAt(out)
          /\ \A k \in Blobs : /\ blobsAt(out)[k].size = lens[k]
                              /\ top(blobsAt(out)[k])
                                   <= currentLayout.dstOff + currentLayout.dstLen
      BY <2>2, <2>5, SlicesAreBlobs
    <2>. HIDE DEF out
    <2>. QED  BY <2>3, <2>4, <2>5, <2>6 DEF BlobsReachCaller
  <1>. QED
    BY <1>1, PackInvariant, PackImplementsArena, MemoryFacts, PTL

=============================================================================
