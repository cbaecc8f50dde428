# A verification development of wuffs-wasm

TLA+ models of the Go package `wuffs` (image decoding through a reusable
`Decoder` around the Wuffs codecs, compiled to WebAssembly and translated to
Go), the TLC runs that check them and the proofs TLAPS checks. All paths below
are relative to the repository.

## 1. The system

| Component | Code | State | Operations |
| --- | --- | --- | --- |
| Guest memory and `Reserve` | `memory.go` | length of linear memory, `currentLayout` (five slots at the end of memory: count/loops out, frame meta, decode meta, src, dst) | `New`, `Reserve` |
| `Decoder` | `decoder.go`, `errors.go`, `meta.go`, `frame.go`, `convert.go` | `lastMeta`, `lastFrame` (returned pointers alias them), contents of the slots, the caller's `Pix` | `Probe`, `FrameCount`, `LoopCount`, `DecodeRGBA`, `DecodeNRGBA`, `DecodeGray`, `DecodeFrame` |
| Metadata | `metadata.go` | `lastMetadata`; borrows the dst slot for the pack | `Metadata` |
| Guest shim | `wasm/shim.c` | nothing but the slots it writes and the bump pointer | six exports, each: rewind arena, sniff, create codec, read config, then its own part |
| Bump arena | `wasm/shim.c:9-26` | `bump_ptr` from 0x900000 up | `bump_rewind`, `bump_alloc` |
| Sniffers | `wasm/shim.c:99-333` | none | `sniff_fourcc` in a fixed order |
| Convenience helpers | `convenience.go` | a fresh `Decoder` per call | `DecodeConfig`, `Probe`, `Decode`, `DecodeNRGBA`, `DecodeGray` |
| Registration, adapter | `registration.go`, `adapter.go`, `internal/imgreg` | a `sync.Once`, the global registry of `image` | `RegisterFormats`, the registered decode functions |
| Translated module | `internal/wuffswasm/wuffs.go` | memory slice, 128 MiB at start, at most 4096 pages | `memory_grow`, the exports (translations of `shim.c`) |
| Wuffs codecs | inside the same file | codec objects | third party |
| WASI host | `wasi.go` | a stub | none on the modelled paths |

How they interact.  A host call checks its arguments, copies the source to the
src slot, calls one export with slot offsets, and reads back the meta slot and
the dst slot.  Everything passes through memory that both sides write and that
the next call finds as the last one left it.  `Reserve` may move every slot.
The guest never grows the memory.  Guest memory is shared between the slots,
placed downwards from the end, and the bump arena, placed upwards from 9 MiB.
A `Decoder` belongs to one goroutine; only registration is concurrent.

What is hard: 32-bit offset arithmetic, refusals halfway through a call, what a
call leaves in slots and aliased fields, sequences such as Probe, Reserve,
decode, retry, the two ends of linear memory growing towards each other,
heuristic sniffers in order, and `sync.Once` beside `image.Decode`.

What makes each component correct:

* memory: the slots never overlap or leave memory, a refused `Reserve` changes
  nothing, capacities are exactly what `Reserve` documents;
* decoder: the result of a call depends on its arguments and the two capacities
  only (finding 2 shows where a still decode fails this); a failed call changes
  nothing its caller can see; its error says truly what was lacking; the exports
  agree on geometry and frame numbers;
* arena: blocks are disjoint and stay away from the slots;
* sniffers: at most one heuristic accepts a source, and no registered magic
  disagrees with the guest;
* convenience and registration: all or nothing, exactly once, and every caller
  returns.

## 2. The modules

| Module | Models | Correspondence |
| --- | --- | --- |
| `SlotLayout` | constants and arithmetic of `memory.go` | `computeLayout`, `align8`, `slotTotal`, `resolveSlot` by name; `slotLayout` is the set of layouts |
| `GuestMemory` | `New`, `Reserve`, `memory_grow` | variables are the length of the memory slice, `Decoder.currentLayout` and the error `Reserve` returned; `requiredMem`, `pagesNeeded`, `grownMemory`, `reserveOutcome` are the steps of `Reserve` in the order of its early returns |
| `ReserveContract` | what `Reserve` promises | two capacities, unbounded integers |
| `Codecs` | codec table of `shim.c` | object sizes and arena constants |
| `Images` | sources, destinations, pixels | see the abstraction below |
| `GuestShim` | the exports | each is a function from source, capacity and slot contents to return code and slot contents |
| `Decoder` | the exported methods | one action per method, composed with `GuestMemory` (`Mem`) and `GuestShim` |
| `DecodeContract` | what a `Decoder` promises | no slots, no guest, no return codes; of a still decode outside the first frame's rectangle it promises no pixel |
| `GuestArena` | the bump allocator during each export | composed with `GuestMemory`; one step per allocation phase |
| `MetadataPack` | `read_image_metadata` and `Metadata` step by step | extends `GuestArena`: `phase` is the place in the two nested loops, `lens` the three accumulator lengths, `pack` what lies in the dst slot, `metadata` what the host made of it; one action per outcome of `decode_image_config` and per flavor of `tell_me_more` |
| `FrameTiming` | the conversion of a frame's duration | the expression of `readFrameMeta` in wrapping arithmetic; `Decoder` uses it |
| `Sniff` | `sniff_fourcc` and the registered magics | a source is a sequence of bytes and the only variable; `sniff_tga`, `sniff_wbmp`, `sniff_hnsm`, `order` by name; `magics` is what `registration.go` registers, `routed` the first match the `image` package takes |
| `Registration` | `RegisterFormats`, `sync.Once`, the registry of `image`, `image.Decode`, the reader functions | per goroutine a `pc` and what it has read; `formats` is the registry, `onceDone` and `onceMutex` the `Once` |
| `RegistryContract` | what registering promises | a list that fills up in catalog order, and the calls that wait for it |
| `Convenience` | the allocating helpers | extends `Decoder`; `job` is the running call: its step, source, geometry and image |
| `Callers` | README's animation loop, and a caller that retries | extends `Convenience`; external, by what the documents tell a caller |
| `*Proofs` | theorems about the module of that name | `GuestMemory`, `GuestArena`, `MetadataPack`, `Registration`, `Sniff`, `Decoder`, `Callers` (with `Convenience`) |
| `MC*` | model values for TLC | |

**Abstraction.**  A source is a model value; the constant `Image` says what its
codec reports (format, dimensions, frames with their rectangles, and whether
each step succeeds).  A pixel is its provenance: source, frame, position and
pixel format, or a mark for bytes that are no decoded pixel (caller's, zeroed,
moved slot, half-decoded frame, metadata pack, the err and format of a refused
one).  Two pixels are equal in the model only if the code produces the same bytes for the same reason, which is
what the properties need.  The model keeps every guard, early return, zeroing
and assignment; it leaves out pixel arithmetic, disposal, background colour and
the text of errors.

`slots` holds what the slots contain at the present layout.  A `Reserve` that
moves a slot makes its contents junk.  A failed decode may have written part of
its frame: those cells are `Partial`.  `lastCall` records what the last call
returned, so that properties can speak of it.

`MetadataPack` lets every call of `GuestArena` happen and gives the metadata call
its inside, so each of its behaviours, without the added variables, is one of
`GuestArena`: the run checks the theorems of `GuestArenaProofs` on it.  `Decoder`
keeps the summary `metadataOK` and `blobBytes` of what `MetadataPack` works out,
and `Sniff` what `fourcc` summarises.

`Decoder` takes from `SlotsInMemory` that slots do not overlap, and assumes that
the guest's own data does not reach them.  `GuestArena` examines that
assumption, and finding 1 shows when it fails.

## 3. Runs

| Run | Shows |
| --- | --- |
| `guest_memory` | all orders of `Reserve` with 13 request sizes per slot. Type, layout and growth invariants, five action properties, and refinement of `ReserveContract` |
| `decoder_frames` | an over-long source with a frame that reaches past its canvas, and an animation (a frame that fails halfway, a partial frame), calls in any order |
| `decoder_stills` | two images, one covering half its canvas, into NRGBA and gray, with metadata packs between; the uncovered half is where the contract promises nothing |
| `decoder_unfit` | empty, unknown, cut, over-large sources; an empty frame rectangle; destinations with padded, short and narrow rows |
| `guest_arena` | allocations of each export under every layout of the requests, and metadata reads of three kinds of source, whose items arrive in up to all the pieces the accumulators hold |
| `registration` | two goroutines that call `RegisterFormats`, `image.Decode` and the reader functions, beside another package that registers a format |
| `sniff` | headers of all thirteen formats with one byte changed, every Handsum header, TGA and WBMP headers at each edge, and all their extensions |
| `callers` | the helpers on a new decoder and two callers on a kept one, over thirteen sources that make each step fail |
| `arena_slots`, `stale_canvas`, `min_bytes`, `durations` | expected violations, section 5 |

The properties, by what could go wrong:

* `SlotsInMemory`, `LayoutIsCurrent`, `LayoutFits`, `GrowNeverFails`,
  `GrowthIsMinimal`: wrapped or stale offsets, the last page;
* `FailedReserveChangesNothing`, `CapacityNeverShrinks`,
  `SmallerRequestMovesNothing`, `ImplementsReserveContract`,
  `EachRequestMeetsContract`: sequences of requests, accepted and refused.  The
  refinement alone would let one request pass for another, since the contract's
  state does not name the request; the action property does not;
* `ImplementsDecodeContract` (refinement of `DecodeContract`): each failure has a
  cause and names it, and what a call returns and draws is given by its arguments
  and the two capacities.  So no byte of an earlier call reaches a later result,
  with one exception that the contract states: outside the first frame's rectangle
  `DecodeNRGBA` and `DecodeGray` may show anything, and the bytes of finding 2 do
  come back there in `decoder_stills`.  The contract also leaves open whether
  `Metadata` fails for want of room, and what `Probe` says of a canvas whose bytes
  no uint32 counts.  Frames (`DecodeFrame`, `DecodeRGBA`) have no exception;
* `FailureChangesNothingReturned`: `Pix` and the aliased fields after a failure;
* `RetryAdvice`: doing what a `DstTooSmallError` asks removes its cause;
* `ProbedGeometryDecodes`, `CountedFramesExist`: two exports agree;
* `BlocksApart`, `ArenaBelowSlots`: the allocator beside the slots;
* `AccumulatorsFit`, `BlobsReachCaller`: metadata in pieces.  An ICC profile in
  passthrough pieces is compared with `src_len` although its block is 1 MiB; it
  fits because the arena admits no source as long as that;
* `RegistersOnce` (refinement of `RegistryContract`), `SupportedOnceRegistered`,
  `NamesAgree`, `EveryCallReturns`: racing registrations and decodes;
* `OneFormatOnly`, `MagicsAgreeWithGuest`, `HandsumMagicsExact`,
  `WBMPHeadersExact`, `LongerSourceSameFormat`: that the order of the sniffers
  never decides, that `image.Decode` and the guest choose alike, and that the
  prefix of a source is sniffed as the source;
* `HelpersDeliver`, `AllocationsBounded`: a helper returns an image exactly when
  its source can be decoded in the memory there is, and allocates none that guest
  memory was not had for first;
* `AnimationShowsEveryFrame`, `CallersFinish`: the sequences of calls the
  documents recommend do what they are for, and come to an end.

**Bounds.**  `Word` is 2^29 instead of 2^32, because TLC's integers have 32
bits; it is twice the 256 MiB of the largest memory, which is all the code
relies on, and the proofs hold for every such value.  All other sizes are those
of the source.  Requests lie on both sides of every comparison `Reserve` makes,
so a larger set adds no new branch.  A canvas is two pixels wide and one high:
enough for a frame that covers part of it, for two rows' worth of cells, and
for a dst slot (four bytes at first) that is too small until a `Reserve`.
Sources and destinations are split over three runs so that each finishes in two
minutes; between them every exit of every method is taken.  In `durations`,
`Second`, `FlicksPerSecond` and the 64-bit word are scaled down together: the
ratio is the code's and the wrap comes at 15 seconds instead of 13.07.
Metadata pieces are halves of the source and of an accumulator, and one byte
more, so sums land on both sides of each capacity and of the dst slot's end.
Two goroutines are enough for a race on the `Once`: a third meets the same mutex
and the same list.

**Deadlock** is checked except in `sniff`, where a source comes to its end, and
in `callers`, where a helper's call returns.

**Fairness.**  A `Decoder` does nothing unless it is called, so `Decoder` and
below state none.  `Registration` has weak fairness of each goroutine's steps
once it is in a call, which is what Go's scheduler gives a runnable goroutine;
nobody has to make a call.  The mutex of the `Once` is taken once, for a loop
over a finite catalog, so weak fairness suffices.  In `Callers` the one goroutine that
is in a call goes on with it; `CallGoesOn` is weak fairness of `Proceed` with
its `ENABLED` written out.  Neither allows for a process that is killed.

## 4. Proofs

`GuestMemoryProofs` proves for every `Word` of at least twice the memory limit that
is a multiple of 8, every set of integer requests and every initial dst size up to
the default (`WordAssumption`, `GuestMemoryAssumption`):

* `MemoryInvariant`, the inductive invariant `MemoryInv`: whole pages between
  the initial and the largest memory, capacities in range, the layout being
  the one for the present memory, and `requiredMem` of that layout within it.
  The last part is what makes it inductive: it is why the subtraction in
  `computeLayout` does not wrap, why `slotBase` never raises the base, and why
  a smaller request cannot need growth;
* from it `TypeCorrect`, `SlotsStayInMemory`, `LayoutStaysCurrent`,
  `LayoutStaysWithinMemory`, `GrowthNeverRefused`;
* the action properties `ReserveFailsAtomically`, `CapacityIsMonotone`,
  `SmallRequestsAreNoOps`, `GrowthTakesFewestPages`;
* `ReserveImplementsContract`: `GuestMemory` implements `ReserveContract`, and
  `EachRequestIsAnswered`: it does so request by request.

The lemmas below them are about rounding to 8, pages, and the absence of
wrapping in sums of slot lengths that fit the memory.

`GuestArenaProofs` proves for every set of inputs, whatever sizes their sources
report (`ArenaAssumption`):

* `ArenaInvariant`, the inductive invariant `ArenaInv`: types, `BlocksApart`,
  `BlocksLow` (the blocks end below the host slot region while the work buffer
  is a safe one) and `PointerPastObject`, which says where the pointer is between
  the codec object and the work buffer and is what the second allocation needs;
* from it `ArenaBlocksApart` and `ArenaTypeCorrect`, and, with `SlotsInMemory` from
  `GuestMemoryProofs` carried over by `ArenaKeepsMemory` (a behaviour of the
  arena is one of the memory), `ArenaStaysBelowSlots`.

`MetadataPackProofs` proves for every set of inputs and of metadata items, in
whatever pieces the codec hands them over (`ItemsAssumption`: a transformed piece
does not end before it begins):

* `PackImplementsArena`: every behaviour of the loops is one of `GuestArena`, so
  `PackTypeCorrect`, `PackBlocksApart` and `PackBelowSlots` follow from the
  theorems above;
* `PackInvariant`, the inductive invariant `PackInv`: a read that is under way
  passed the guard before the allocations; each accumulator is within what its
  room check compares with; the pack, once written, is whole and lies in the dst
  slot; and the host's slices are cut where the guest put the blobs.  The first
  part is why the next holds: an ICC profile in passthrough pieces is compared with
  `src_len`, and only the guard bounds that by the block's 1 MiB;
* from it `AccumulatorsNeverOverflow` and `EveryBlobReachesCaller`, the second
  with `SlotsInMemory`, without which the host's check of the memory's end could
  refuse a good pack or its 32-bit offsets wrap.

`RegistrationProofs` proves for every number of goroutines, every catalog and
every set of rival registrations (`RegistrationAssumption`; that no magic of the
catalog is that of a source the guest takes for another format is what
`MagicsAgreeWithGuest` says of the bytes):

* `RegistrationInvariant`, the inductive invariant `IInv`: types; `OneInLoop`, only
  the holder of the mutex is in the loop and `done` is not yet stored;
  `CatalogSoFar`, the catalog's entries in the registry are a prefix of the catalog,
  complete once somebody may return; `EntriesFromCatalog`, every entry of the
  adapter's that a goroutine has read is one of the catalog's.  Rivals register in
  between, so where the catalog's entries stand is a `rank` among their own, and
  the lemmas on `mine` and `rank` say what an `Append` does to it;
* from it `RegistrationTypeCorrect`, `SupportedWhenRegistered`,
  `NamesOfBothReaders`, and `RegistrationImplementsContract`: the initial state and
  every step are those of `RegistryContract`, which is `RegistersOnce` without its
  fairness.

`SniffProofs` proves for byte sequences of any length (`SniffAssumption` says only
that templates are sequences of sets of bytes).  The invariant is no more than
that a source is one; the work is in what the sniffers compute:

* `WBMPHeadersAreExact` unfolds the two loops of `sniff_wbmp` to the five bytes at
  which they must stop and relates them to the number the bytes spell;
* `HandsumMagicsAreExact` relates the list of magics to the bits `sniff_hnsm` tests;
* `EverySourceHasOneFormat`: sniffers are told apart by their first bytes, except
  for the heuristics, where the lemmas say which later byte decides;
* `MagicsNeverMislead` and `VerdictsStand` follow from what each format needs of a
  source, which all lies within the bytes a longer source shares.

`DecoderProofs` proves for every set of images and destinations, every capacity
and every set of requests (`ImagesAssumption`, `ShimAssumption`,
`DecoderAssumption`, `TimingAssumption`):

* `DecoderInvariant`, the inductive invariant `DecoderInv`: the memory's own
  `MemoryInv` (each method leaves the memory alone, and `Reserve` is the memory's
  `Reserve`), the types of slots, `Pix` and fields, and `CallOK`, which speaks of
  the last call only: its error is well formed, and its parts `ReadIsKnown`,
  `ProbeIsKnown` and `CountIsKnown` say what a successful `Probe` or `FrameCount`
  reported.  Properties that relate one call to the next need them; types alone do
  not carry it over;
* `DecoderTypeCorrect`, `FailureStaysInvisible`, `RetryAdviceHolds`,
  `CountedFramesDecode`, `ProbedGeometrySuits`;
* `DecoderImplementsContract`: initial state and every step of `Decoder` are those
  of `DecodeContract`, the refinement `ImplementsDecodeContract`, with the exceptions
  section 3 names.  No invariant on what the slots hold is used, only their types,
  which is the point: each call overwrites what it later reads, but for the cells of
  a still decode that the contract leaves open.  The argument goes export by export: one lemma each
  (`ProbeStep`, `FrameStep`, `StillStep`, ...) says what a call returns and leaves in
  the slots, one each (`ProbeSimulates`, ...) that the contract allows it.  The
  arithmetic is that of a canvas within the dst slot, where no 32-bit product wraps
  (`Geometry`, `CanvasFits`), and of cells, each the place of one position only
  (`CellPosition`).

`CallersProofs` proves for every source, whatever its codec reports, every initial dst
size and every sequence of sources a caller goes through (`ConvenienceAssumption`: for
each canvas that a memory can hold there is an image to allocate;
`CallersAssumption`):

* `ReserveAccepts`, from `GuestMemoryProofs`: `Reserve` succeeds exactly when the
  capacities it would raise to fit the largest memory;
* `CallersInvariant`, the inductive invariant `CallersInv`: `DecoderInv`, kept step by
  step by the lemmas of `DecoderProofs`, and `JobInv`, what a call knows at each of its
  steps.  A helper's part (`HelperKnows`) is its capacities, which are those it asked
  for as its decoder is new, then the probed geometry, then that the canvas fits the
  slot; a loop's part (`AnimationKnows`) is that too and, while frames are shown,
  `drawnUpTo`: each position holds the last frame so far that covers it.
  `HelpersDeliver` is not inductive without the first, since "the source cannot be
  decoded" has to follow from the one call that failed;
* from it `HelpersAlwaysDeliver`, `AllocationsStayBounded` and
  `AnimationAlwaysShowsEveryFrame`, the last by adding a frame at a time
  (`OneMoreFrame`, `AllDrawn`), so for any number of frames.

The first of these could not be proved as it was stated: the helpers refuse canvases
with a side above 2^24 - 1 (`convenience.go:219`), though a memory may hold one, and
no canvas of the model is that wide.  `decodable` now says so.

**Assumptions on the constants**, beyond sizes: `Word` is at least twice the
largest memory, which 2^32 is sixteen times, so that a 31-bit index can count what a
memory holds; a codec reports dimensions of 32 bits and no more frames than the
source has bytes; what a dst slot can hold lies within the bounds `MaxWidth` and
`MaxHeight` of the model's canvas.  Three properties state their limits: `Probe`
promises a geometry of canvases whose bytes, and row bytes, a uint32 counts
(`Countable`; a canvas of no height may be wider), `ProbedGeometryDecodes` is stated
of those rows, and a frame number has 31 bits (`FrameBroken`).

**Model-checked only.**  `EveryCallReturns`, the fairness of `RegistersOnce` and
`CallersFinish` are liveness, which needs `ENABLED`.  No property, checked or proved,
says that a codec given a work buffer cut to 32 bits (`wasm/shim.c:457`) refuses it, nor
that the metadata loop ends: both are the codec's doing.  Each of the other properties
of a run that passes is stated by a theorem.

## 5. What the checks found

1. `arena_slots`: the work buffer of a large image lies over the host's slots.
   A 4096 by 4096 RGBA PNG needs 67,112,960 bytes from 9 MiB up
   (`wasm/shim.c:461`); after `Reserve(64 MiB, 0)` the src slot is at 63.9 MiB.
   `ArenaBelowSlots` states the bound below which this cannot happen.
2. `stale_canvas`: `DecodeNRGBA` and `DecodeGray` return, outside the first
   frame's rectangle, bytes an earlier call left in the dst slot: `decode_image`
   does not clear it, `decode_frame` does (`wasm/shim.c:862`).
3. `min_bytes`: `MinBytes` is a 32-bit product and wraps for canvases of 4 GiB
   (`decoder.go:241`, `493`).

4. `durations`: `time.Duration(flicks) * time.Second / 705600000` multiplies
   first; a frame shown for more than 13.07 seconds gets a wrapped, possibly
   negative `Duration` (`decoder.go:431`).  GIF delays go up to 655 seconds.

Observed while modelling, without a run of their own: finding 2 reaches the
helpers `DecodeNRGBA` and `DecodeGray` too, where what lies in the dst slot of a new
decoder may be bytes of the source; a caller that follows the advice of finding 3
retries for ever, as does one of a canvas without pixels, whose `MinBytes` is 0
(`CallersFinish` is stated of other canvases); a `gAMA` of 0
gives an infinite `Gamma` (`metadata.go:230`); `Probe` reports 0 by 0 for canvases of
2^32 pixels or more; `Metadata` refuses every WebP, and sources above about
1 MiB, with `ErrDecode`, because the codec object and the buffers must share one
`BUMP_LIMIT` (`wasm/shim.c:986`); that check leaves out the rounding to 8 bytes;
`DecodeRGBA` leaves `Pix` outside the first frame's bounds as it was while
`BytesWritten` counts the whole canvas.

## 6. Plan

Done: all modules of section 2, and the proofs of section 4.

Next: that a caller's retries raise a capacity or mend the destination each time, the
measure behind `CallersFinish`, as an action property with a theorem; and that the
decoder a helper or caller has implements `DecodeContract` too.

**Not modelled.**

* `internal/wuffswasm/wuffs.go` is 75,000 lines that a translator made from the
  compiled C.  What of them is this repository's own program is `shim.c`, modelled
  from its source, and the memory, modelled from the translation.  The rest is the
  Wuffs codecs, third party, whose reports are constants of the models.  The models
  therefore cover most of the hand-written lines and next to none of the generated
  ones.
* `wasi.go` hands the module a host that the modelled exports never call.
* Build scripts, golden-file generators, fixtures, benchmarks and tests.
* The arithmetic of single pixels (`unpremultiply`, the gray weights), which unit
  tests cover by enumeration.
