----------------------------- MODULE CallersProofs -----------------------------
(***************************************************************************)
(* Proofs about Convenience and Callers, for every source, whatever its codec *)
(* reports: the helpers deliver an image exactly when there is room for it, and  *)
(* README's animation loop shows every frame.                                      *)
(***************************************************************************)
EXTENDS Callers, DecoderProofs

----------------------------------------------------------------------------
(* Room. *)

(* Reserve accepts exactly the slots the largest memory holds. *)
LEMMA ReserveAccepts ==
  ASSUME MemoryOK, SlotsOK(slots), NEW dstBytes \in Int, NEW srcBytes \in Int,
         Reserve(dstBytes, srcBytes)
  PROVE  lastCall'.err = nilError <=>
           Memory!requiredMem(raised(currentLayout.dstLen, dstBytes),
                              raised(currentLayout.srcLen, srcBytes)) <= maxMemory
  <1>. DEFINE d == raised(currentLayout.dstLen, dstBytes)
              s == raised(currentLayout.srcLen, srcBytes)
  <1>1. Memory!Reserve(dstBytes, srcBytes)
    BY SameMemory DEF Reserve
  <1>2. \/ Memory!Contract!Accept(dstBytes, srcBytes)
        \/ Memory!Contract!Refuse(dstBytes, srcBytes)
    BY <1>1, MemoryAssumptions, Memory!ReserveSimulates DEF MemoryOK
  <1>3. /\ d = Memory!Contract!Raise(currentLayout.dstLen, dstBytes)
        /\ s = Memory!Contract!Raise(currentLayout.srcLen, srcBytes)
    BY DEF raised, Memory!Contract!Raise
  <1>4. lastCall'.err = nilError <=> reserveErr' = "nil"
    <2>1. lastCall'.err = failure(reserveErr')
      BY DEF Reserve, returned
    <2>. QED  BY <2>1, ErrorNamed
  <1>5. d \in Nat /\ s \in Nat
    BY Capacities DEF raised
  <1>6. Memory!maxMemory = maxMemory
    BY DEF Memory!maxMemory, maxMemory, Memory!maxReservePages, maxReservePages,
           Memory!wasmPageSize, wasmPageSize
  <1>7. Memory!requiredMem(d, s) <= maxMemory => d < Word /\ s < Word
    <2>1. Memory!requiredMem(d, s) = 33554432 + Memory!RoundUp8(80 + s + d)
      BY DEF Memory!requiredMem, Memory!hostSlotRegionBase,
             Memory!hostAnimationScratchBytes, Memory!metaSlotBytes,
             Memory!frameCountOutSlotBytes, Memory!animationLoopsOutSlotBytes,
             Memory!frameMetaSlotBytes
    <2>. HIDE DEF d, s
    <2>2. Memory!RoundUp8(80 + s + d) >= 80 + s + d
          /\ Memory!RoundUp8(80 + s + d) \in Nat
      BY <1>5 DEF Memory!RoundUp8
    <2>. QED  BY <1>5, <2>1, <2>2, Words
  <1>8. d < Word /\ s < Word
          => (Memory!Contract!Fits(d, s) <=> Memory!requiredMem(d, s) <= maxMemory)
    <2>. HIDE DEF d, s
    <2>. QED  BY <1>5, <1>6, MemoryAssumptions, Memory!FitsIsRequiredMem
  <1>9. Memory!Contract!Fits(d, s) => d < Word /\ s < Word
    BY DEF Memory!Contract!Fits
  <1>. HIDE DEF d, s
  <1>10. reserveErr' = "nil" <=> Memory!Contract!Fits(d, s)
    BY <1>2, <1>3 DEF Memory!Contract!Accept, Memory!Contract!Refuse
  <1>. QED  BY <1>4, <1>7, <1>8, <1>9, <1>10 DEF d, s

(* The room a helper needs, in the terms of Reserve. *)
LEMMA RoomFor ==
  ASSUME NEW im, NEW n
  PROVE  holdable(im, n) <=>
           Memory!requiredMem(raised(InitialDstSlotBytes, n),
                              raised(defaultSrcCap, im.len)) <= maxMemory
  BY DEF holdable, raised, Memory!requiredMem, RoundUp8, Memory!RoundUp8,
         hostSlotRegionBase, Memory!hostSlotRegionBase, hostAnimationScratchBytes,
         Memory!hostAnimationScratchBytes, metaSlotBytes, Memory!metaSlotBytes,
         frameCountOutSlotBytes, Memory!frameCountOutSlotBytes,
         animationLoopsOutSlotBytes, Memory!animationLoopsOutSlotBytes,
         frameMetaSlotBytes, Memory!frameMetaSlotBytes

----------------------------------------------------------------------------
(* The inductive invariant: what a call knows at each of its steps. *)

HelperSteps ==
  {"reserveSource", "probe", "reserveBoth", "allocate", "decode", "returned"}

AnimationSteps ==
  {"animate", "reserveCanvas", "countFrames", "countLoops", "allocate", "show",
   "returned"}

RetrySteps == {"try", "makeRoom", "returned"}

\* A job with these fields after the call and the source it has.
jobWith(pc, err, dst, meta, frames, shownTo) ==
  [ who |-> job.who, src |-> job.src, pc |-> pc, err |-> err, dst |-> dst,
    meta |-> meta, frames |-> frames, shown |-> shownTo ]

JobRecord == job = jobWith(job.pc, job.err, job.dst, job.meta, job.frames, job.shown)

JobOK ==
  /\ JobRecord
  /\ job.who \in Helpers \cup {"none", "animation", "retry"}
  /\ job.who \in Helpers => job.pc \in HelperSteps
  /\ animating => job.pc \in AnimationSteps
  /\ retrying => job.pc \in RetrySteps
  /\ job.who = "none" => job.pc = "returned"
  /\ job.who # "none" => job.src \in Sources
  /\ job.who \in Helpers \cup {"animation"} /\ inCall => job.err = "nil"
  /\ job.pc \in {"decode", "show", "try", "makeRoom"} => job.dst \in Destinations
  /\ job.shown \in Nat

capacities(dstLen, srcLen) ==
  currentLayout.dstLen = dstLen /\ currentLayout.srcLen = srcLen

\* The call's source has been probed in the src slot there is.
probed(im) == writtenMeta(im, "ok", 0, zeroMeta)
Probed(im) == Readable(im) /\ job.meta = probed(im)

\* The room for its canvas is had.
Roomy(im) == CanvasFits(im) /\ holdable(im, need(im))
             /\ im.width <= maxWuffsDimension /\ im.height <= maxWuffsDimension

HelperKnows ==
  job.who \in Helpers =>
    LET im == Image[job.src]
    IN  /\ job.pc \in {"reserveBoth", "allocate", "decode"} => job.who \in Decodes
        /\ job.pc = "reserveSource" => capacities(InitialDstSlotBytes, defaultSrcCap)
        /\ job.pc \in {"probe", "reserveBoth"} =>
             capacities(InitialDstSlotBytes, raised(defaultSrcCap, im.len))
        /\ job.pc \in {"probe", "reserveBoth", "allocate", "decode"} => holdable(im, 0)
        /\ job.pc \in {"reserveBoth", "allocate", "decode"} => Probed(im)
        /\ job.pc \in {"allocate", "decode"} => Roomy(im)
        /\ job.pc = "decode" =>
             /\ job.dst \in newImage(kindOf[job.who], im.width, im.height)
             /\ pix[job.dst] = zeroed
        /\ HelpersDeliver

\* Each of the first n frames is drawn over the ones before it.
drawnUpTo(p, src, n) ==
  LET inside(j, c) == Inside(Image[src].frames[j].bounds, c)
  IN  \A c \in Canvas :
        \/ p[c] = Zero /\ \A j \in 1 .. n : ~ inside(j, c)
        \/ \E j \in 1 .. n : /\ inside(j, c)
                            /\ p[c] = Pixel(src, j - 1, c, RGBAPremul)
                            /\ \A k \in j + 1 .. n : ~ inside(k, c)

AnimationKnows ==
  animating =>
    LET im == Image[job.src]
    IN  /\ job.pc \in {"animate", "reserveCanvas", "countFrames", "countLoops",
                       "allocate"} => job.shown = 0
        /\ job.pc \in {"reserveCanvas", "countFrames", "countLoops", "allocate", "show"}
             => Probed(im)
        /\ countable(im) =>
             /\ job.pc \in {"countFrames", "countLoops", "allocate", "show"}
                  => CanvasFits(im)
             /\ job.pc \in {"countLoops", "allocate", "show"} =>
                  job.frames = Len(im.frames) /\ job.frames > 0
             /\ job.pc = "show" =>
                  /\ job.dst \in newImage("RGBA", im.width, im.height)
                  /\ job.shown < job.frames
                  /\ drawnUpTo(pix[job.dst], job.src, job.shown)
             /\ AnimationShowsEveryFrame

JobInv     == JobOK /\ HelperKnows /\ AnimationKnows
CallersInv == DecoderInv /\ JobInv

----------------------------------------------------------------------------
(* Steps of every call. *)

(* Helpers and other callers are different callers. *)
LEMMA Who ==
  /\ Decodes = {"Decode", "DecodeNRGBA", "DecodeGray"}
  /\ Helpers = {"Decode", "DecodeNRGBA", "DecodeGray", "Probe", "DecodeConfig"}
  /\ "animation" \notin Helpers /\ "retry" \notin Helpers /\ "none" \notin Helpers
  /\ \A who \in Decodes : kindOf[who] \in DOMAIN bytesPerPixel
  <1>1. Decodes = {"Decode", "DecodeNRGBA", "DecodeGray"}
    BY DEF Decodes, kindOf
  <1>2. Helpers = {"Decode", "DecodeNRGBA", "DecodeGray", "Probe", "DecodeConfig"}
    BY <1>1 DEF Helpers
  <1>3. \A who \in Decodes : kindOf[who] \in DOMAIN bytesPerPixel
    BY <1>1 DEF kindOf, bytesPerPixel
  <1>. QED  BY <1>1, <1>2, <1>3

\* What a source must be for a helper to deliver.
Deliverable(who, im) ==
  /\ readable(im) /\ holdable(im, 0)
  /\ who \in Decodes => decodable(im)
  /\ who = "Decode" => framed(im)

\* The call returns with an error.
stopped(e) == job' = [job EXCEPT !.pc = "returned", !.err = e]

(* What goOn makes of the decoder's answer. *)
LEMMA GoOn ==
  ASSUME NEW next, goOn(next),
         lastCall'.err = nilError \/ lastCall'.err.name # "nil"
  PROVE  \/ lastCall'.err = nilError /\ job' = next
         \/ lastCall'.err.name # "nil" /\ stopped(lastCall'.err.name)
  BY ErrorNamed DEF goOn, ok, stopped

(* A step that changes no more than pixels keeps the decoder's invariant. *)
LEMMA InvPixels ==
  ASSUME DecoderInv, UNCHANGED <<memory, slots, fields, lastCall>>, PixOK'
  PROVE  DecoderInv'
  <1>1. MemoryOK'
    BY MemoryKept DEF DecoderInv
  <1>2. /\ slots' = slots /\ currentLayout' = currentLayout /\ lastCall' = lastCall
        /\ lastMeta' = lastMeta /\ lastFrame' = lastFrame
    BY DEF memory, fields
  <1>3. SlotsOK(slots)' /\ FieldsOK'
    BY <1>2 DEF DecoderInv, SlotsOK, FieldsOK
  <1>4. CallOK'
    BY <1>2, Zenon DEF DecoderInv, CallOK, ReadIsKnown, ProbeIsKnown, CountIsKnown,
                       Readable
  <1>. QED  BY <1>1, <1>3, <1>4 DEF DecoderInv

(* The fields of the job after a step that writes it. *)
LEMMA JobWritten ==
  ASSUME NEW pc, NEW err, NEW dst, NEW meta, NEW frames, NEW shownTo,
         job' = jobWith(pc, err, dst, meta, frames, shownTo)
  PROVE  /\ JobRecord'
         /\ job'.who = job.who /\ job'.src = job.src /\ job'.pc = pc
         /\ job'.err = err /\ job'.dst = dst /\ job'.meta = meta
         /\ job'.frames = frames /\ job'.shown = shownTo
  BY DEF jobWith, JobRecord

(* A call that returns with an error. *)
LEMMA JobStopped ==
  ASSUME JobOK, NEW e, stopped(e)
  PROVE  /\ JobRecord'
         /\ job'.who = job.who /\ job'.src = job.src /\ job'.pc = "returned"
         /\ job'.err = e /\ job'.dst = job.dst /\ job'.shown = job.shown
  <1>1. job' = jobWith("returned", e, job.dst, job.meta, job.frames, job.shown)
    BY DEF stopped, JobOK, JobRecord, jobWith
  <1>. QED  BY <1>1, JobWritten

(* A helper that fails does so for a cause. *)
LEMMA HelperStops ==
  ASSUME JobInv, inCall, job.who \in Helpers, NEW e, stopped(e),
         e \notin {"nil", "ErrDstTooSmall", "ErrSrcTooLarge", "growFailed"},
         ~ Deliverable(job.who, Image[job.src])
  PROVE  JobInv'
  <1>1. /\ JobRecord'
        /\ job'.who = job.who /\ job'.src = job.src /\ job'.pc = "returned"
        /\ job'.err = e /\ job'.dst = job.dst /\ job'.shown = job.shown
    BY JobStopped DEF JobInv
  <1>2. JobOK'
    BY <1>1, Who DEF JobInv, JobOK, HelperSteps, animating, retrying, inCall
  <1>3. HelpersDeliver'
    BY <1>1, Who DEF HelpersDeliver, Deliverable
  <1>4. HelperKnows'
    BY <1>1, <1>3 DEF HelperKnows
  <1>5. AnimationKnows'
    BY <1>1, Who DEF AnimationKnows, animating
  <1>. QED  BY <1>2, <1>4, <1>5 DEF JobInv

(* README's loop may stop only on errors other than those of room and shape. *)
LEMMA AnimationStops ==
  ASSUME JobInv, animating, NEW e, stopped(e),
         countable(Image[job.src]) => e \notin {"nil", "ErrDstTooSmall", "ErrBadImage"}
  PROVE  JobInv'
  <1>1. /\ JobRecord'
        /\ job'.who = "animation" /\ job'.src = job.src /\ job'.pc = "returned"
        /\ job'.err = e /\ job'.dst = job.dst /\ job'.shown = job.shown
    BY JobStopped DEF JobInv, animating
  <1>2. JobOK'
    BY <1>1, Who DEF JobInv, JobOK, AnimationSteps, animating, retrying, inCall
  <1>3. AnimationShowsEveryFrame'
    BY <1>1 DEF AnimationShowsEveryFrame
  <1>4. AnimationKnows'
    BY <1>1, <1>3 DEF AnimationKnows
  <1>5. HelperKnows'
    BY <1>1, Who DEF HelperKnows
  <1>. QED  BY <1>2, <1>4, <1>5 DEF JobInv

(* The step a job is at says whose it is. *)
LEMMA WhoseStep ==
  ASSUME JobOK
  PROVE  /\ job.pc \in {"reserveSource", "probe", "reserveBoth", "decode"}
              => job.who \in Helpers /\ inCall /\ job.src \in Sources /\ job.err = "nil"
         /\ job.pc \in {"animate", "reserveCanvas", "countFrames", "countLoops", "show"}
              => animating /\ inCall /\ job.src \in Sources /\ job.err = "nil"
         /\ job.pc \in {"try", "makeRoom"}
              => retrying /\ inCall /\ job.src \in Sources
         /\ job.pc = "allocate" /\ job.who \in Decodes
              => job.who \in Helpers /\ inCall /\ job.src \in Sources /\ job.err = "nil"
         /\ job.pc = "allocate" /\ animating
              => inCall /\ job.src \in Sources /\ job.err = "nil"
  BY Who DEF JobOK, HelperSteps, AnimationSteps, RetrySteps, animating, retrying, inCall

----------------------------------------------------------------------------
(* The helpers' steps. *)

(* Room for the source. *)
LEMMA ReserveSourceStep ==
  ASSUME CallersInv, ReserveSource
  PROVE  CallersInv'
  <1>. DEFINE im == Image[job.src]
  <1>1. /\ job.pc = "reserveSource" /\ Reserve(0, im.len)
        /\ goOn([job EXCEPT !.pc = "probe"])
    BY DEF ReserveSource
  <1>2. job.who \in Helpers /\ job.src \in Sources /\ inCall /\ job.err = "nil"
    BY <1>1, WhoseStep DEF CallersInv, JobInv
  <1>3. im.len \in Nat /\ 0 \in Int
    BY <1>2, SourceFacts
  <1>4. capacities(InitialDstSlotBytes, defaultSrcCap)
    BY <1>1, <1>2 DEF CallersInv, JobInv, HelperKnows
  <1>5. DecoderInv'
    BY <1>1, <1>3, InvReserve DEF CallersInv
  <1>6. /\ UNCHANGED <<pix, fields>>
        /\ \/ lastCall'.err = failure("invalid")
           \/ /\ lastCall'.err = nilError
              /\ currentLayout'.dstLen = raised(currentLayout.dstLen, 0)
              /\ currentLayout'.srcLen = raised(currentLayout.srcLen, im.len)
    BY <1>1, <1>3, ReserveCall DEF CallersInv, DecoderInv
  <1>7. lastCall'.err = nilError <=> holdable(im, 0)
    <2>1. lastCall'.err = nilError <=>
            Memory!requiredMem(raised(currentLayout.dstLen, 0),
                               raised(currentLayout.srcLen, im.len)) <= maxMemory
      BY <1>1, <1>3, ReserveAccepts DEF CallersInv, DecoderInv
    <2>. QED  BY <1>4, <2>1, RoomFor DEF capacities
  <1>8. CASE lastCall'.err = nilError
    <2>1. job' = [job EXCEPT !.pc = "probe"]
      BY <1>1, <1>8, ErrorNamed DEF goOn, ok
    <2>2. job' = jobWith("probe", job.err, job.dst, job.meta, job.frames, job.shown)
      BY <2>1 DEF CallersInv, JobInv, JobOK, JobRecord, jobWith
    <2>3. /\ JobRecord'
          /\ job'.who = job.who /\ job'.src = job.src /\ job'.pc = "probe"
          /\ job'.err = job.err /\ job'.dst = job.dst /\ job'.shown = job.shown
      BY <2>2, JobWritten
    <2>4. JobOK'
      BY <1>2, <2>3, Who DEF CallersInv, JobInv, JobOK, HelperSteps, animating, retrying,
                             inCall
    <2>5. capacities(InitialDstSlotBytes, raised(defaultSrcCap, im.len))'
      <3>1. raised(InitialDstSlotBytes, 0) = InitialDstSlotBytes
        BY DecoderAssumption DEF raised
      <3>2. failure("invalid") # nilError
        BY ErrorNamed
      <3>3. /\ currentLayout'.dstLen = raised(currentLayout.dstLen, 0)
            /\ currentLayout'.srcLen = raised(currentLayout.srcLen, im.len)
        BY <1>6, <1>8, <3>2
      <3>4. im' = im
        BY <2>3
      <3>. QED  BY <1>4, <2>3, <3>1, <3>3, <3>4 DEF capacities, raised, defaultSrcCap
    <2>6. HelpersDeliver'
      BY <2>3 DEF HelpersDeliver
    <2>7. HelperKnows'
      BY <1>7, <1>8, <2>3, <2>5, <2>6 DEF HelperKnows
    <2>8. AnimationKnows'
      BY <1>2, <2>3, Who DEF AnimationKnows, animating
    <2>. QED  BY <1>5, <2>4, <2>7, <2>8 DEF CallersInv, JobInv
  <1>9. CASE lastCall'.err # nilError
    <2>1. lastCall'.err.name = "invalid"
      BY <1>6, <1>9, ErrorNamed
    <2>2. stopped("invalid")
      BY <1>1, <2>1 DEF goOn, ok, stopped
    <2>3. ~ Deliverable(job.who, im)
      BY <1>7, <1>9 DEF Deliverable
    <2>4. JobInv'
      BY <1>2, <2>2, <2>3, HelperStops DEF CallersInv
    <2>. QED  BY <1>5, <2>4 DEF CallersInv
  <1>. QED  BY <1>8, <1>9

(* A call that reads its source in a slot that holds it fails to only if nothing could. *)
LEMMA ReadFails ==
  ASSUME MemoryOK, NEW src \in Sources, Image[src].len <= currentLayout.srcLen,
         NEW err, ReadCause(Image[src], err)
  PROVE  err.name \in {"ErrUnknownFormat", "ErrDecode"} /\ ~ readable(Image[src])
  <1>. DEFINE im == Image[src]
  <1>1. im.len \in Nat /\ ~ im.len > currentLayout.srcLen
    BY SourceFacts, Capacities
  <1>. QED  BY <1>1, ErrorNamed DEF ReadCause, readable

(* The probe, after which Probe and DecodeConfig are done. *)
LEMMA ProbeSourceStep ==
  ASSUME CallersInv, ProbeSource
  PROVE  CallersInv'
  <1>. DEFINE im   == Image[job.src]
              next == IF job.who \in Decodes THEN "reserveBoth" ELSE "returned"
  <1>1. /\ job.pc = "probe" /\ Probe(job.src)
        /\ goOn([job EXCEPT !.pc = next, !.meta = lastMeta'])
    BY DEF ProbeSource
  <1>2. job.who \in Helpers /\ job.src \in Sources /\ inCall /\ job.err = "nil"
    BY <1>1, WhoseStep DEF CallersInv, JobInv
  <1>3. /\ capacities(InitialDstSlotBytes, raised(defaultSrcCap, im.len))
        /\ holdable(im, 0)
    BY <1>1, <1>2 DEF CallersInv, JobInv, HelperKnows
  <1>4. DecoderInv'
    BY <1>1, <1>2, InvProbe DEF CallersInv
  <1>5. /\ UNCHANGED <<memory, pix, lastFrame, lastMetadata>>
        /\ \/ ReadCause(im, lastCall'.err)
           \/ /\ lastCall'.err = nilError /\ Readable(im)
              /\ lastMeta' = probed(im)
    BY <1>1, <1>2, ProbeStep DEF CallersInv, DecoderInv, probed
  <1>6. im.len <= currentLayout.srcLen /\ im.len \in Nat
    <2>1. im.len \in Nat
      BY <1>2, SourceFacts
    <2>. QED  BY <1>3, <2>1 DEF capacities, raised, defaultSrcCap
  <1>7. currentLayout' = currentLayout
    BY <1>5 DEF memory
  <1>8. CASE lastCall'.err = nilError
    <2>1. job' = [job EXCEPT !.pc = next, !.meta = lastMeta']
      BY <1>1, <1>8, ErrorNamed DEF goOn, ok
    <2>. HIDE DEF next
    <2>2. job' = jobWith(next, job.err, job.dst, lastMeta', job.frames, job.shown)
      BY <2>1 DEF CallersInv, JobInv, JobOK, JobRecord, jobWith
    <2>3. /\ JobRecord'
          /\ job'.who = job.who /\ job'.src = job.src /\ job'.pc = next
          /\ job'.err = job.err /\ job'.dst = job.dst /\ job'.shown = job.shown
          /\ job'.meta = lastMeta'
      BY <2>2, JobWritten
    <2>4. JobOK'
      BY <1>2, <2>3, Who DEF CallersInv, JobInv, JobOK, HelperSteps, animating, retrying,
                             inCall, next
    <2>5. capacities(InitialDstSlotBytes, raised(defaultSrcCap, im.len))'
      BY <1>3, <1>7, <2>3 DEF capacities
    <2>6. Readable(im) /\ lastMeta' = probed(im)
      <3>1. ~ ReadCause(im, nilError)
        BY ErrorNamed
      <3>. QED  BY <1>5, <1>8, <3>1
    <2>7. Probed(im)'
      BY <1>7, <2>3, <2>6, Zenon DEF Probed, Readable
    <2>8. HelpersDeliver'
      <3>1. readable(im)
        BY <2>6 DEF Readable, readable
      <3>2. job.who \in Decodes => next # "returned"
        BY DEF next
      <3>3. job.who = "Decode" => job.who \in Decodes
        BY Who
      <3>. QED  BY <1>2, <1>3, <2>3, <3>1, <3>2, <3>3 DEF HelpersDeliver
    <2>9. HelperKnows'
      BY <1>3, <2>3, <2>5, <2>7, <2>8 DEF HelperKnows, next
    <2>10. AnimationKnows'
      BY <1>2, <2>3, Who DEF AnimationKnows, animating
    <2>. QED  BY <1>4, <2>4, <2>9, <2>10 DEF CallersInv, JobInv
  <1>9. CASE lastCall'.err # nilError
    <2>1. ReadCause(im, lastCall'.err)
      BY <1>5, <1>9
    <2>2. lastCall'.err.name \in {"ErrUnknownFormat", "ErrDecode"} /\ ~ readable(im)
      BY <1>2, <1>6, <2>1, ReadFails DEF CallersInv, DecoderInv
    <2>3. stopped(lastCall'.err.name)
      BY <1>1, <2>2 DEF goOn, ok, stopped
    <2>4. ~ Deliverable(job.who, im)
      BY <2>2 DEF Deliverable
    <2>5. JobInv'
      <3>1. \A e : stopped(e) /\ e \in {"ErrUnknownFormat", "ErrDecode"} => JobInv'
        BY <1>2, <2>4, HelperStops DEF CallersInv
      <3>. QED  BY <2>2, <2>3, <3>1
    <2>. QED  BY <1>4, <2>5 DEF CallersInv
  <1>. QED  BY <1>8, <1>9

(* What the Meta of a probe says of the canvas. *)
LEMMA ProbedMeta ==
  ASSUME NEW im
  PROVE  /\ probed(im).width = canvasWidth(im)
         /\ probed(im).height = canvasHeight(im)
         /\ probed(im).stride = U32(4 * canvasWidth(im))
  <1>1. probed(im) =
          [ err |-> "ok", width |-> canvasWidth(im), height |-> canvasHeight(im),
            stride |-> U32(4 * canvasWidth(im)), bytesWritten |-> 0,
            format |-> im.fourcc ]
    BY SMT DEF probed, writtenMeta
  <1>. QED  BY <1>1

(* A canvas there is room for is smaller than a memory. *)
LEMMA HoldableBound ==
  ASSUME NEW src \in Sources, NEW n \in Nat, holdable(Image[src], n)
  PROVE  n <= maxMemory
  <1>. DEFINE d == raised(InitialDstSlotBytes, n)
              s == raised(defaultSrcCap, Image[src].len)
              r == Memory!RoundUp8(80 + s + d)
  <1>1. Memory!requiredMem(d, s) <= maxMemory
    BY RoomFor
  <1>2. Memory!requiredMem(d, s) = 33554432 + r
    BY DEF Memory!requiredMem, Memory!hostSlotRegionBase,
           Memory!hostAnimationScratchBytes, Memory!metaSlotBytes,
           Memory!frameCountOutSlotBytes, Memory!animationLoopsOutSlotBytes,
           Memory!frameMetaSlotBytes
  <1>3. d \in Nat /\ s \in Nat /\ n <= d
    BY SourceFacts, DecoderAssumption DEF raised, defaultSrcCap
  <1>4. r \in Nat /\ 80 + s + d <= r
    <2>. HIDE DEF d, s
    <2>. QED  BY <1>3 DEF Memory!RoundUp8
  <1>. HIDE DEF d, s, r
  <1>. QED  BY SMT, <1>1, <1>2, <1>3, <1>4, Words

(* validateAllocatingGeometry passes every canvas that the helpers could decode,
   and of those it passes the dimensions are the source's. *)
LEMMA ValidGeometry ==
  ASSUME NEW src \in Sources
  PROVE  LET im == Image[src]
             w  == canvasWidth(im)
             h  == canvasHeight(im)
         IN  /\ validGeometry(w, h) =>
                  /\ w = im.width /\ h = im.height /\ w \in Nat /\ h \in Nat
                  /\ need(im) = 4 * w * h /\ need(im) \in Nat /\ need(im) > 0
                  /\ w <= maxWuffsDimension /\ h <= maxWuffsDimension
             /\ need(im) > 0 /\ holdable(im, need(im))
                /\ im.width <= maxWuffsDimension /\ im.height <= maxWuffsDimension
                  => validGeometry(w, h)
  <1>. DEFINE im == Image[src]
              w  == canvasWidth(im)
              h  == canvasHeight(im)
  <1>1. im.width \in Nat /\ im.height \in Nat
    <2>1. im.width \in uint32 /\ im.height \in uint32
      BY SourceFacts
    <2>. QED  BY <2>1, Uint32s
  <1>2. \/ w = im.width /\ h = im.height
        \/ w = 0 /\ h = 0
    BY DEF canvasWidth, canvasHeight
  <1>3. need(im) = 4 * w * h
    BY DEF need
  <1>4. need(im) \in Nat => (holdable(im, need(im)) => need(im) <= maxMemory)
    BY HoldableBound
  <1>5. maxWuffsDimension \in Nat
    BY DEF maxWuffsDimension
  <1>. HIDE DEF w, h, im
  <1>6. w \in Nat /\ h \in Nat
    BY <1>1, <1>2
  <1>7. /\ 4 * w * h = 4 * (w * h) /\ w * h \in Nat
        /\ w > 0 /\ h > 0 => w * h > 0
        /\ w = 0 \/ h = 0 => w * h = 0
    BY <1>6, Products
  <1>8. ASSUME validGeometry(w, h)
        PROVE  /\ w = im.width /\ h = im.height /\ w \in Nat /\ h \in Nat
               /\ need(im) = 4 * w * h /\ need(im) \in Nat /\ need(im) > 0
               /\ w <= maxWuffsDimension /\ h <= maxWuffsDimension
    <2>1. w > 0 /\ h > 0 /\ w <= maxWuffsDimension /\ h <= maxWuffsDimension
      BY <1>5, <1>6, <1>8 DEF validGeometry
    <2>. QED  BY <1>2, <1>3, <1>6, <1>7, <2>1
  <1>9. ASSUME need(im) > 0, holdable(im, need(im)),
               im.width <= maxWuffsDimension, im.height <= maxWuffsDimension
        PROVE  validGeometry(w, h)
    <2>1. w > 0 /\ h > 0
      BY <1>3, <1>6, <1>7, <1>9
    <2>2. need(im) \in Nat
      BY <1>3, <1>7
    <2>3. 4 * w * h < Word
      BY <1>3, <1>4, <1>9, <2>2, Words
    <2>4. w <= maxWuffsDimension /\ h <= maxWuffsDimension
      BY <1>2, <1>9, <2>1
    <2>. QED  BY <1>5, <1>6, <2>1, <2>3, <2>4 DEF validGeometry
  <1>. QED  BY <1>8, <1>9 DEF w, h, im

(* Room for the canvas, which is had if a memory can hold it. *)
LEMMA ReserveBothStep ==
  ASSUME CallersInv, ReserveBoth
  PROVE  CallersInv'
  <1>. DEFINE im == Image[job.src]
              w  == canvasWidth(im)
              h  == canvasHeight(im)
  <1>1. job.pc = "reserveBoth"
    BY DEF ReserveBoth
  <1>2. /\ job.who \in Helpers /\ job.who \in Decodes
        /\ job.src \in Sources /\ inCall /\ job.err = "nil"
    BY <1>1, WhoseStep DEF CallersInv, JobInv, HelperKnows
  <1>3. /\ capacities(InitialDstSlotBytes, raised(defaultSrcCap, im.len))
        /\ holdable(im, 0) /\ Probed(im)
    BY <1>1, <1>2 DEF CallersInv, JobInv, HelperKnows
  <1>4. job.meta.width = w /\ job.meta.height = h
    BY <1>3, ProbedMeta DEF Probed
  <1>5. im.len \in Nat
    BY <1>2, SourceFacts
  <1>6. CASE validGeometry(w, h)
    <2>1. /\ Reserve(4 * w * h, im.len)
          /\ goOn([job EXCEPT !.pc = "allocate"])
      BY <1>4, <1>6 DEF ReserveBoth
    <2>2. /\ w = im.width /\ h = im.height /\ w \in Nat /\ h \in Nat
          /\ need(im) = 4 * w * h /\ need(im) \in Nat /\ need(im) > 0
          /\ w <= maxWuffsDimension /\ h <= maxWuffsDimension
      BY <1>2, <1>6, ValidGeometry
    <2>. HIDE DEF w, h
    <2>3. Reserve(need(im), im.len) /\ need(im) \in Int /\ im.len \in Int
      BY <1>5, <2>1, <2>2
    <2>4. DecoderInv'
      BY <2>3, InvReserve DEF CallersInv
    <2>5. /\ UNCHANGED <<pix, fields>>
          /\ \/ lastCall'.err = failure("invalid")
             \/ /\ lastCall'.err = nilError
                /\ currentLayout'.dstLen = raised(currentLayout.dstLen, need(im))
                /\ currentLayout'.srcLen = raised(currentLayout.srcLen, im.len)
      BY <2>3, ReserveCall DEF CallersInv, DecoderInv
    <2>6. raised(currentLayout.srcLen, im.len) = raised(defaultSrcCap, im.len)
      BY <1>3, <1>5 DEF capacities, raised, defaultSrcCap
    <2>7. lastCall'.err = nilError <=> holdable(im, need(im))
      <3>1. lastCall'.err = nilError <=>
              Memory!requiredMem(raised(currentLayout.dstLen, need(im)),
                                 raised(currentLayout.srcLen, im.len)) <= maxMemory
        BY <2>3, ReserveAccepts DEF CallersInv, DecoderInv
      <3>. QED  BY <1>3, <2>6, <3>1, RoomFor DEF capacities
    <2>8. CASE lastCall'.err = nilError
      <3>1. job' = [job EXCEPT !.pc = "allocate"]
        BY <2>1, <2>8, ErrorNamed DEF goOn, ok
      <3>2. job' = jobWith("allocate", job.err, job.dst, job.meta, job.frames, job.shown)
        BY <3>1 DEF CallersInv, JobInv, JobOK, JobRecord, jobWith
      <3>3. /\ JobRecord'
            /\ job'.who = job.who /\ job'.src = job.src /\ job'.pc = "allocate"
            /\ job'.err = job.err /\ job'.dst = job.dst /\ job'.shown = job.shown
            /\ job'.meta = job.meta
        BY <3>2, JobWritten
      <3>4. JobOK'
        BY <1>2, <3>3, Who DEF CallersInv, JobInv, JobOK, HelperSteps, animating,
                               retrying, inCall
      <3>5. /\ currentLayout'.dstLen = raised(currentLayout.dstLen, need(im))
            /\ currentLayout'.srcLen = raised(currentLayout.srcLen, im.len)
        BY <2>5, <2>8, ErrorNamed
      <3>6. Probed(im)'
        <4>1. im.len <= currentLayout'.srcLen
          BY <1>5, <3>5, Capacities DEF CallersInv, DecoderInv, raised
        <4>2. im' = im
          BY <3>3
        <4>. QED  BY <1>3, <3>3, <4>1, <4>2 DEF Probed, Readable
      <3>7. Roomy(im)'
        <4>1. configCode(im) = "ok" /\ ~ need(im) = 0
          BY <1>3, <2>2 DEF Probed, Readable
        <4>2. ~ need(im) > currentLayout'.dstLen
          <5>. HIDE DEF im
          <5>. QED  BY <2>2, <3>5, Capacities DEF CallersInv, DecoderInv, raised
        <4>3. slotCode(im, currentLayout'.dstLen) = "ok"
          BY <4>1, <4>2 DEF slotCode
        <4>4. im' = im
          BY <3>3
        <4>. QED  BY <2>2, <2>7, <2>8, <4>3, <4>4 DEF Roomy, CanvasFits
      <3>8. HelpersDeliver'
        BY <3>3 DEF HelpersDeliver
      <3>9. HelperKnows'
        BY <1>2, <1>3, <3>3, <3>6, <3>7, <3>8 DEF HelperKnows
      <3>10. AnimationKnows'
        BY <1>2, <3>3, Who DEF AnimationKnows, animating
      <3>. QED  BY <2>4, <3>4, <3>9, <3>10 DEF CallersInv, JobInv
    <2>9. CASE lastCall'.err # nilError
      <3>1. lastCall'.err.name = "invalid"
        BY <2>5, <2>9, ErrorNamed
      <3>2. stopped("invalid")
        BY <2>1, <3>1 DEF goOn, ok, stopped
      <3>3. ~ Deliverable(job.who, im)
        BY <1>2, <2>7, <2>9 DEF Deliverable, decodable
      <3>4. JobInv'
        BY <1>2, <3>2, <3>3, HelperStops DEF CallersInv
      <3>. QED  BY <2>4, <3>4 DEF CallersInv
    <2>. QED  BY <2>8, <2>9
  <1>7. CASE ~ validGeometry(w, h)
    <2>1. stopped("ErrBadImage") /\ UNCHANGED vars
      BY <1>4, <1>7 DEF ReserveBoth, stopped
    <2>2. DecoderInv'
      BY <2>1, InvKept DEF CallersInv
    <2>3. ~ Deliverable(job.who, im)
      BY <1>2, <1>7, ValidGeometry DEF Deliverable, decodable
    <2>4. JobInv'
      BY <1>2, <2>1, <2>3, HelperStops DEF CallersInv
    <2>. QED  BY <2>2, <2>4 DEF CallersInv
  <1>. QED  BY <1>6, <1>7

(* The image is of the canvas, and zero. *)
LEMMA AllocateImageStep ==
  ASSUME CallersInv, AllocateImage
  PROVE  CallersInv'
  <1>. DEFINE im == Image[job.src]
              kind == kindOf[job.who]
  <1>1. job.pc = "allocate" /\ job.who \in Decodes
    BY DEF AllocateImage, Allocate
  <1>. DEFINE taken(d) == /\ pix' = [pix EXCEPT ![d] = zeroed]
                          /\ job' = [job EXCEPT !.pc = "decode", !.dst = d]
  <1>2. \E d \in newImage(kind, job.meta.width, job.meta.height) : taken(d)
    BY Zenon DEF AllocateImage, Allocate
  <1>. HIDE DEF taken
  <1>3. PICK d \in newImage(kind, job.meta.width, job.meta.height) : taken(d)
    BY <1>2
  <1>. USE DEF taken
  <1>4. UNCHANGED <<memory, slots, fields, lastCall>>
    BY DEF AllocateImage, Allocate
  <1>5. job.who \in Helpers /\ inCall /\ job.src \in Sources /\ job.err = "nil"
    BY <1>1, WhoseStep DEF CallersInv, JobInv
  <1>6. holdable(im, 0) /\ Probed(im) /\ Roomy(im)
    BY <1>1, <1>5 DEF CallersInv, JobInv, HelperKnows
  <1>7. d \in Destinations /\ d \in newImage(kind, im.width, im.height)
    <2>1. job.meta.width = im.width /\ job.meta.height = im.height
      <3>1. job.meta.width = canvasWidth(im) /\ job.meta.height = canvasHeight(im)
        BY <1>6, ProbedMeta DEF Probed
      <3>2. currentLayout.dstLen \in Nat /\ currentLayout.dstLen <= maxMemory
        BY Capacities DEF CallersInv, DecoderInv
      <3>. QED  BY <1>5, <1>6, <3>1, <3>2, Geometry DEF Roomy, CanvasFits
    <2>. QED  BY <1>3, <2>1 DEF newImage
  <1>8. PixOK' /\ pix'[d] = zeroed
    <2>1. DOMAIN zeroed = Canvas
      BY DEF zeroed
    <2>. QED  BY <1>3, <1>7, <2>1 DEF CallersInv, DecoderInv, PixOK
  <1>9. DecoderInv'
    BY <1>4, <1>8, InvPixels DEF CallersInv
  <1>10. job' = jobWith("decode", job.err, d, job.meta, job.frames, job.shown)
    BY <1>3 DEF CallersInv, JobInv, JobOK, JobRecord, jobWith
  <1>11. /\ JobRecord'
         /\ job'.who = job.who /\ job'.src = job.src /\ job'.pc = "decode"
         /\ job'.err = job.err /\ job'.dst = d /\ job'.shown = job.shown
         /\ job'.meta = job.meta
    BY <1>10, JobWritten
  <1>12. JobOK'
    BY <1>5, <1>7, <1>11, Who DEF CallersInv, JobInv, JobOK, HelperSteps, animating,
                                  retrying, inCall
  <1>13. currentLayout' = currentLayout /\ im' = im
    BY <1>4, <1>11 DEF memory
  <1>14. Probed(im)' /\ Roomy(im)'
    BY <1>6, <1>11, <1>13, Zenon DEF Probed, Readable, Roomy, CanvasFits
  <1>15. HelpersDeliver'
    BY <1>11 DEF HelpersDeliver
  <1>16. HelperKnows'
    BY <1>1, <1>6, <1>7, <1>8, <1>11, <1>13, <1>14, <1>15 DEF HelperKnows
  <1>17. AnimationKnows'
    BY <1>5, <1>11, Who DEF AnimationKnows, animating
  <1>. QED  BY <1>9, <1>12, <1>16, <1>17 DEF CallersInv, JobInv

(* A new image of the canvas fits it: no decode refuses its shape. *)
LEMMA NewImageFits ==
  ASSUME MemoryOK, NEW src \in Sources, CanvasFits(Image[src]),
         NEW kind \in DOMAIN bytesPerPixel,
         NEW d \in newImage(kind, Image[src].width, Image[src].height)
  PROVE  d \in Destinations /\ d # nilDst /\ shapeError(d, Image[src]) = nilError
  <1>. DEFINE im == Image[src]
              w  == im.width
              h  == im.height
              bytes == bytesPerPixel[kind]
              shape == Dest[d]
  <1>1. d \in Destinations /\ d # nilDst /\ shape \in Shapes
    BY ImagesAssumption DEF newImage
  <1>2. shape = [ kind |-> kind, width |-> w, height |-> h, atOrigin |-> TRUE,
                  stride |-> w * bytes, pixLen |-> (w * bytes) * h ]
    BY DEF newImage
  <1>3. /\ w \in Nat /\ h \in Nat /\ w > 0 /\ h > 0
        /\ w * h \in Nat /\ 4 * (w * h) < Word
    BY Capacities, Geometry DEF CanvasFits
  <1>4. bytes = 1 \/ bytes = 4
    BY DEF bytesPerPixel
  <1>. HIDE DEF shape, w, h, bytes
  <1>5. /\ shape.kind = kind /\ shape.width = w /\ shape.height = h /\ shape.atOrigin
        /\ shape.stride = w * bytes /\ shape.pixLen = (w * bytes) * h
    BY <1>2
  <1>6. /\ (w * bytes) * h \in Nat /\ (w * bytes) * h > 0 /\ (w * bytes) * h < Word
        /\ w * bytes \in Nat
    <2>1. w * h > 0 /\ (4 * w) * h = 4 * (w * h)
      BY <1>3, Products
    <2>2. CASE bytes = 1
      BY <1>3, <2>1, <2>2, Words
    <2>3. CASE bytes = 4
      <3>1. w * bytes = 4 * w
        BY <1>3, <2>3
      <3>. QED  BY <1>3, <2>1, <3>1, Words
    <2>. QED  BY <1>4, <2>2, <2>3
  <1>7. bytesPerPixel[shape.kind] = bytes
    BY <1>5 DEF bytes
  <1>8. validateDestination(shape, w, h) = nilError
    <2>. DEFINE row == w * bytes
    <2>. HIDE DEF row
    <2>1. /\ shape.width = w /\ shape.height = h /\ shape.atOrigin
          /\ shape.stride = row /\ shape.pixLen = row * h
          /\ row * h \in Nat /\ row * h > 0 /\ row * h < Word /\ row \in Nat
          /\ w * bytesPerPixel[shape.kind] = row
      BY <1>5, <1>6, <1>7 DEF row
    <2>. QED  BY <1>1, <1>3, <2>1, FittingShape, SMT
  <1>. QED  BY <1>1, <1>8 DEF shapeError, shape, w, h

(* Why a decode of frame 0 into a new image fails. *)
LEMMA WhyNotDecoded ==
  ASSUME MemoryOK, NEW src \in Sources, Readable(Image[src]), CanvasFits(Image[src]),
         NEW i \in Nat, NEW err, GuestCause(Image[src], i, err)
  PROVE  err = failure("ErrDecode") /\ ~ Decodable(Image[src], i)
  <1>1. ~ ReadCause(Image[src], err)
    BY ReadableHasNoCause
  <1>. QED  BY <1>1 DEF GuestCause, CanvasFits

(* Of a source with room for its canvas, the first frame decodes as decodable says. *)
LEMMA FirstFrameDecodes ==
  ASSUME MemoryOK, NEW src \in Sources, Readable(Image[src]), Roomy(Image[src])
  PROVE  Decodable(Image[src], 0) <=> decodable(Image[src])
  <1>. DEFINE im == Image[src]
  <1>1. im.frames \in Seq(Frames)
    BY SourceFacts
  <1>2. need(im) = 4 * (im.width * im.height) /\ im.width * im.height > 0
        /\ im.width * im.height \in Nat
    BY Capacities, Geometry, Products DEF Roomy, CanvasFits
  <1>3. frameReached(im, 0) <=> im.frames # <<>> /\ im.frames[1].configOK
    <2>1. \A j \in 0 .. 0 : j + 1 = 1
      OBVIOUS
    <2>. DEFINE fs == im.frames
    <2>. HIDE DEF fs
    <2>2. 0 < Len(fs) <=> fs # <<>>
      BY <1>1 DEF fs
    <2>. QED  BY <2>1, <2>2 DEF frameReached, fs
  <1>4. im.frames[0 + 1] = im.frames[1]
    OBVIOUS
  <1>. QED  BY <1>2, <1>3, <1>4 DEF Decodable, decodable, Roomy

(* A decode that a helper ends with: it delivers, or the source cannot be. *)
LEMMA HelperEnds ==
  ASSUME CallersInv, job.pc = "decode", DecoderInv',
         goOn([job EXCEPT !.pc = "returned", !.meta = lastMeta']),
         LET im == Image[job.src]
         IN  \/ /\ lastCall'.err = nilError
                /\ Deliverable(job.who, im)
                /\ job.who = "Decode" =>
                     pix'[job.dst] = frameDrawn(zeroed, job.src, 0)
             \/ /\ lastCall'.err = failure("ErrDecode")
                /\ ~ Deliverable(job.who, im)
  PROVE  CallersInv'
  <1>. DEFINE im == Image[job.src]
  <1>1. job.who \in Helpers /\ job.src \in Sources /\ inCall /\ job.err = "nil"
    BY WhoseStep DEF CallersInv, JobInv
  <1>2. CASE /\ lastCall'.err = nilError
             /\ Deliverable(job.who, im)
             /\ job.who = "Decode" => pix'[job.dst] = frameDrawn(zeroed, job.src, 0)
    <2>1. job' = [job EXCEPT !.pc = "returned", !.meta = lastMeta']
      BY <1>2, ErrorNamed DEF goOn, ok
    <2>2. job' = jobWith("returned", job.err, job.dst, lastMeta', job.frames, job.shown)
      BY <2>1 DEF CallersInv, JobInv, JobOK, JobRecord, jobWith
    <2>3. /\ JobRecord'
          /\ job'.who = job.who /\ job'.src = job.src /\ job'.pc = "returned"
          /\ job'.err = job.err /\ job'.dst = job.dst /\ job'.shown = job.shown
      BY <2>2, JobWritten
    <2>4. JobOK'
      BY <1>1, <2>3, Who DEF CallersInv, JobInv, JobOK, HelperSteps, animating, retrying,
                             inCall
    <2>5. ASSUME job.who = "Decode", NEW c \in Canvas
          PROVE  pix'[job.dst][c] = IF Inside(im.frames[1].bounds, c)
                                      THEN Pixel(job.src, 0, c, RGBAPremul) ELSE Zero
      <3>1. im.frames[0 + 1] = im.frames[1]
        OBVIOUS
      <3>2. pix'[job.dst][c] = IF Inside(im.frames[1].bounds, c)
                                 THEN Pixel(job.src, 0, c, RGBAPremul) ELSE zeroed[c]
        BY <1>2, <2>5, <3>1 DEF frameDrawn
      <3>. QED  BY <3>2 DEF zeroed
    <2>6. HelpersDeliver'
      BY <1>1, <1>2, <2>3, <2>5 DEF HelpersDeliver, Deliverable
    <2>7. HelperKnows'
      BY <2>3, <2>6 DEF HelperKnows
    <2>8. AnimationKnows'
      BY <1>1, <2>3, Who DEF AnimationKnows, animating
    <2>. QED  BY <2>4, <2>7, <2>8 DEF CallersInv, JobInv
  <1>3. CASE lastCall'.err = failure("ErrDecode") /\ ~ Deliverable(job.who, im)
    <2>1. lastCall'.err.name = "ErrDecode"
      BY <1>3, ErrorNamed
    <2>2. stopped("ErrDecode")
      BY <2>1 DEF goOn, ok, stopped
    <2>3. JobInv'
      BY <1>1, <1>3, <2>2, HelperStops DEF CallersInv
    <2>. QED  BY <2>3 DEF CallersInv
  <1>. QED  BY <1>2, <1>3

(* The decode. *)
LEMMA DecodeIntoStep ==
  ASSUME CallersInv, DecodeInto
  PROVE  CallersInv'
  <1>. DEFINE im == Image[job.src]
              d  == job.dst
  <1>1. /\ job.pc = "decode"
        /\ goOn([job EXCEPT !.pc = "returned", !.meta = lastMeta'])
    BY DEF DecodeInto
  <1>2. job.who \in Decodes /\ job.src \in Sources
    BY <1>1, WhoseStep DEF CallersInv, JobInv, HelperKnows
  <1>3. /\ holdable(im, 0) /\ Probed(im) /\ Roomy(im)
        /\ d \in newImage(kindOf[job.who], im.width, im.height)
        /\ pix[d] = zeroed
    BY <1>1, <1>2, Who DEF CallersInv, JobInv, HelperKnows
  <1>4. MemoryOK /\ SlotsOK(slots) /\ PixOK
    BY DEF CallersInv, DecoderInv
  <1>5. d \in Destinations /\ d # nilDst /\ shapeError(d, im) = nilError
    BY <1>2, <1>3, <1>4, NewImageFits, Who DEF Roomy
  <1>6. Readable(im) /\ CanvasFits(im)
    BY <1>3 DEF Probed, Roomy
  <1>7. Decodable(im, 0) <=> decodable(im)
    BY <1>2, <1>3, <1>4, <1>6, FirstFrameDecodes
  <1>8. \A err : GuestCause(im, 0, err)
                   => err = failure("ErrDecode") /\ ~ decodable(im)
    BY <1>2, <1>4, <1>6, <1>7, WhyNotDecoded
  <1>9. readable(im) /\ im.frames[0 + 1] = im.frames[1]
    BY <1>6 DEF Readable, readable
  <1>10. CASE job.who = "Decode"
    <2>1. decodeFrame("DecodeRGBA", d, job.src, 0)
      BY <1>10, Zenon DEF DecodeInto, DecodeRGBA
    <2>2. DecoderInv'
      BY <1>2, <1>5, <2>1, InvFrame DEF CallersInv
    <2>3. FrameFails(d, job.src, 0) \/ FrameSucceeds(d, job.src, 0)
      BY <1>2, <1>4, <1>5, <2>1, FrameStep
    <2>4. ASSUME FrameFails(d, job.src, 0)
          PROVE  lastCall'.err = failure("ErrDecode") /\ ~ Deliverable(job.who, im)
      <3>1. ~ (0 < 0 \/ 0 >= Word \div 2)
        BY Words
      <3>. QED  BY <1>2, <1>5, <1>8, <1>9, <1>10, <2>4, <3>1
               DEF FrameFails, FrameCause, Deliverable, framed
    <2>5. ASSUME FrameSucceeds(d, job.src, 0)
          PROVE  /\ lastCall'.err = nilError
                 /\ Deliverable(job.who, im)
                 /\ pix'[d] = frameDrawn(zeroed, job.src, 0)
      <3>1. pix'[d] = frameDrawn(pix[d], job.src, 0)
        BY <1>4, <1>5, <2>5 DEF FrameSucceeds, PixOK
      <3>2. framed(im)
        BY <1>9, <2>5 DEF FrameSucceeds, framed
      <3>3. decodable(im)
        BY <1>7, <2>5 DEF FrameSucceeds
      <3>. QED  BY <1>3, <1>9, <2>5, <3>1, <3>2, <3>3 DEF FrameSucceeds, Deliverable
    <2>. QED  BY <1>1, <2>2, <2>3, <2>4, <2>5, HelperEnds
  <1>11. CASE job.who # "Decode"
    <2>1. PICK op \in {"DecodeNRGBA", "DecodeGray"}, fmt \in {RGBANonPremul, BGRAPremul} :
            decodeStill(op, d, job.src, fmt)
      <3>1. job.who = "DecodeNRGBA" \/ job.who = "DecodeGray"
        BY <1>2, <1>11, Who
      <3>2. \/ decodeStill("DecodeNRGBA", d, job.src, RGBANonPremul)
            \/ decodeStill("DecodeGray", d, job.src, BGRAPremul)
        BY <3>1 DEF DecodeInto, DecodeNRGBA, DecodeGray
      <3>. QED  BY <3>2, Zenon
    <2>2. DecoderInv'
      BY <1>2, <1>5, <2>1, InvStill DEF CallersInv
    <2>3. StillFails(d, job.src) \/ StillSucceeds(op, d, job.src, fmt)
      BY <1>2, <1>4, <1>5, <2>1, StillStep
    <2>4. ASSUME StillFails(d, job.src)
          PROVE  lastCall'.err = failure("ErrDecode") /\ ~ Deliverable(job.who, im)
      BY <1>2, <1>5, <1>8, <2>4 DEF StillFails, StillCause, Deliverable
    <2>5. ASSUME StillSucceeds(op, d, job.src, fmt)
          PROVE  lastCall'.err = nilError /\ Deliverable(job.who, im)
      BY <1>3, <1>7, <1>9, <1>11, <2>5 DEF StillSucceeds, Deliverable
    <2>. QED  BY <1>1, <1>11, <2>2, <2>3, <2>4, <2>5, HelperEnds
  <1>. QED  BY <1>10, <1>11

----------------------------------------------------------------------------
(* README's animation loop. *)

(* A step of the loop that goes on before it has a canvas. *)
LEMMA AnimationGoesOn ==
  ASSUME CallersInv, animating, inCall, DecoderInv', job.shown = 0,
         NEW pc \in AnimationSteps \ {"returned", "show"}, NEW meta, NEW frames,
         job' = jobWith(pc, job.err, job.dst, meta, frames, job.shown),
         LET im == Image[job.src]
         IN  /\ pc \in {"reserveCanvas", "countFrames", "countLoops", "allocate"}
                  => /\ im.len <= currentLayout'.srcLen
                     /\ Readable(im)
                     /\ meta = probed(im)
             /\ countable(im) =>
                  /\ pc \in {"countFrames", "countLoops", "allocate"}
                       => slotCode(im, currentLayout'.dstLen) = "ok"
                  /\ pc \in {"countLoops", "allocate"} =>
                       frames = Len(im.frames) /\ frames > 0
  PROVE  CallersInv'
  <1>. DEFINE im == Image[job.src]
  <1>1. /\ JobRecord'
        /\ job'.who = job.who /\ job'.src = job.src /\ job'.pc = pc
        /\ job'.err = job.err /\ job'.dst = job.dst /\ job'.shown = job.shown
        /\ job'.meta = meta /\ job'.frames = frames
    BY JobWritten
  <1>2. JobOK'
    BY <1>1, Who DEF CallersInv, JobInv, JobOK, AnimationSteps, animating, retrying,
                     inCall
  <1>3. im' = im /\ pc # "returned" /\ pc # "show"
    BY <1>1
  <1>4. pc \in {"reserveCanvas", "countFrames", "countLoops", "allocate"} => Probed(im)'
    BY <1>1, <1>3 DEF Probed, Readable
  <1>5. AnimationShowsEveryFrame'
    BY <1>1, <1>3 DEF AnimationShowsEveryFrame
  <1>6. AnimationKnows'
    BY <1>1, <1>3, <1>4, <1>5 DEF AnimationKnows, CanvasFits, countable
  <1>7. HelperKnows'
    BY <1>1, Who DEF HelperKnows, animating
  <1>. QED  BY <1>2, <1>6, <1>7 DEF CallersInv, JobInv

(* Probe. *)
LEMMA ProbeAnimationStep ==
  ASSUME CallersInv, ProbeAnimation
  PROVE  CallersInv'
  <1>. DEFINE im == Image[job.src]
  <1>1. /\ animating /\ job.pc = "animate" /\ Probe(job.src)
        /\ goOn([job EXCEPT !.pc = "reserveCanvas", !.meta = lastMeta'])
    BY DEF ProbeAnimation
  <1>2. inCall /\ job.src \in Sources /\ job.shown = 0
    BY <1>1, WhoseStep DEF CallersInv, JobInv, AnimationKnows
  <1>3. DecoderInv'
    BY <1>1, <1>2, InvProbe DEF CallersInv
  <1>4. /\ UNCHANGED <<memory, pix, lastFrame, lastMetadata>>
        /\ \/ ReadCause(im, lastCall'.err)
           \/ /\ lastCall'.err = nilError /\ Readable(im)
              /\ lastMeta' = probed(im)
    BY <1>1, <1>2, ProbeStep DEF CallersInv, DecoderInv, probed
  <1>5. CASE lastCall'.err = nilError /\ Readable(im) /\ lastMeta' = probed(im)
    <2>1. job' = [job EXCEPT !.pc = "reserveCanvas", !.meta = lastMeta']
      BY <1>1, <1>5, ErrorNamed DEF goOn, ok
    <2>2. job' = jobWith("reserveCanvas", job.err, job.dst, lastMeta', job.frames,
                         job.shown)
      BY <2>1 DEF CallersInv, JobInv, JobOK, JobRecord, jobWith
    <2>3. im.len <= currentLayout'.srcLen
      BY <1>4, <1>5 DEF Readable, memory
    <2>4. "reserveCanvas" \in AnimationSteps \ {"returned", "show"}
      BY DEF AnimationSteps
    <2>. QED  BY <1>1, <1>2, <1>3, <1>5, <2>2, <2>3, <2>4, AnimationGoesOn
  <1>6. CASE ReadCause(im, lastCall'.err)
    <2>1. lastCall'.err.name \in {"ErrSrcTooLarge", "ErrUnknownFormat", "ErrDecode"}
      BY <1>6, ErrorNamed
    <2>2. stopped(lastCall'.err.name)
      BY <1>1, <2>1 DEF goOn, ok, stopped
    <2>3. JobInv'
      BY <1>1, <2>1, <2>2, AnimationStops DEF CallersInv
    <2>. QED  BY <1>3, <2>3 DEF CallersInv
  <1>. QED  BY <1>4, <1>5, <1>6

(* Reserve: afterwards the slot holds the canvas, if a uint32 counts its bytes. *)
LEMMA ReserveCanvasStep ==
  ASSUME CallersInv, ReserveCanvas
  PROVE  CallersInv'
  <1>. DEFINE im == Image[job.src]
              w  == canvasWidth(im)
              h  == canvasHeight(im)
              asked == U32(4 * w) * h
  <1>1. job.pc = "reserveCanvas"
    BY DEF ReserveCanvas
  <1>2. animating /\ inCall /\ job.src \in Sources /\ job.shown = 0 /\ Probed(im)
    BY <1>1, WhoseStep DEF CallersInv, JobInv, AnimationKnows
  <1>3. /\ Reserve(asked, im.len)
        /\ goOn([job EXCEPT !.pc = "countFrames"])
    BY <1>2, ProbedMeta DEF ReserveCanvas, Probed
  <1>4. im.len \in Nat /\ im.width \in Nat /\ im.height \in Nat
    <2>1. im.len \in Nat /\ im.width \in uint32 /\ im.height \in uint32
      BY <1>2, SourceFacts
    <2>. QED  BY <2>1, Uint32s
  <1>5. \/ w = im.width /\ h = im.height
        \/ w = 0 /\ h = 0
    BY DEF canvasWidth, canvasHeight
  <1>6. w \in Nat /\ h \in Nat /\ asked \in Int
    <2>. HIDE DEF w, h, im
    <2>1. w \in Nat /\ h \in Nat
      BY <1>4, <1>5
    <2>2. U32(4 * w) \in uint32
      BY <2>1, Words
    <2>3. U32(4 * w) \in Nat
      BY <2>2, Uint32s
    <2>. QED  BY <2>1, <2>3
  <1>7. countable(im) => /\ need(im) = asked
                         /\ need(im) > 0
    <2>1. need(im) = 4 * w * h
      BY DEF need
    <2>2. SUFFICES ASSUME countable(im) PROVE need(im) = asked /\ need(im) > 0
      OBVIOUS
    <2>3. im.width * im.height \in Nat /\ im.width * im.height > 0
          /\ im.width * im.height < Word \div 4
      <3>. DEFINE n == im.width * im.height
      <3>1. n \in 1 .. Word \div 4 - 1
        BY <2>2 DEF countable
      <3>2. Word \div 4 \in Nat
        BY Words
      <3>. HIDE DEF n
      <3>. QED  BY <3>1, <3>2 DEF n
    <2>4. 4 * (im.width * im.height) < Word
      BY <2>3, Words
    <2>5. im.width * im.height < Word
      <3>. DEFINE n == im.width * im.height
      <3>. HIDE DEF n
      <3>. QED  BY <2>3, <2>4, Words DEF n
    <2>6. w = im.width /\ h = im.height
      BY <2>5 DEF canvasWidth, canvasHeight, representable
    <2>. HIDE DEF w, h, im
    <2>7. w > 0 /\ h > 0
      BY <1>6, <2>3, <2>6, Products
    <2>8. /\ w <= w * h /\ w * h \in Nat
          /\ 4 * w * h = 4 * (w * h) /\ (4 * w) * h = 4 * (w * h)
      BY <1>6, <2>7, Products
    <2>9. U32(4 * w) = 4 * w
      <3>1. 4 * w < Word /\ 4 * w \in Nat
        BY <1>6, <2>4, <2>6, <2>8, Words
      <3>. QED  BY <3>1, Words
    <2>. QED  BY <1>6, <2>1, <2>3, <2>6, <2>8, <2>9
  <1>. HIDE DEF asked
  <1>8. DecoderInv'
    BY <1>3, <1>4, <1>6, InvReserve DEF CallersInv
  <1>9. \/ lastCall'.err = failure("invalid")
        \/ /\ lastCall'.err = nilError
           /\ currentLayout'.dstLen = raised(currentLayout.dstLen, asked)
           /\ currentLayout'.srcLen = raised(currentLayout.srcLen, im.len)
    BY <1>3, <1>4, <1>6, ReserveCall DEF CallersInv, DecoderInv
  <1>10. CASE lastCall'.err = nilError
    <2>1. /\ currentLayout'.dstLen = raised(currentLayout.dstLen, asked)
          /\ currentLayout'.srcLen = raised(currentLayout.srcLen, im.len)
      BY <1>9, <1>10, ErrorNamed
    <2>2. job' = [job EXCEPT !.pc = "countFrames"]
      BY <1>3, <1>10, ErrorNamed DEF goOn, ok
    <2>3. job' = jobWith("countFrames", job.err, job.dst, job.meta, job.frames, job.shown)
      BY <2>2 DEF CallersInv, JobInv, JobOK, JobRecord, jobWith
    <2>4. currentLayout.dstLen \in Nat /\ currentLayout.srcLen \in Nat
      BY Capacities DEF CallersInv, DecoderInv
    <2>5. im.len <= currentLayout'.srcLen
      BY <1>4, <2>1, <2>4 DEF raised
    <2>6. countable(im) => slotCode(im, currentLayout'.dstLen) = "ok"
      <3>1. SUFFICES ASSUME countable(im) PROVE slotCode(im, currentLayout'.dstLen) = "ok"
        OBVIOUS
      <3>2. configCode(im) = "ok"
        BY <1>2 DEF Probed, Readable
      <3>3. ~ need(im) = 0 /\ ~ need(im) > currentLayout'.dstLen
        BY <1>6, <1>7, <2>1, <2>4, <3>1 DEF raised
      <3>. QED  BY <3>2, <3>3 DEF slotCode
    <2>7. "countFrames" \in AnimationSteps \ {"returned", "show"}
      BY DEF AnimationSteps
    <2>8. Readable(im) /\ job.meta = probed(im)
      BY <1>2 DEF Probed
    <2>. QED  BY <1>2, <1>8, <2>3, <2>5, <2>6, <2>7, <2>8, AnimationGoesOn
  <1>11. CASE lastCall'.err # nilError
    <2>1. lastCall'.err.name = "invalid"
      BY <1>9, <1>11, ErrorNamed
    <2>2. stopped("invalid")
      BY <1>3, <2>1 DEF goOn, ok, stopped
    <2>3. JobInv'
      BY <1>2, <2>2, AnimationStops DEF CallersInv
    <2>. QED  BY <1>8, <2>3 DEF CallersInv
  <1>. QED  BY <1>10, <1>11

(* FrameCount: a frame at least, and as many as the source has. *)
LEMMA CountFramesStep ==
  ASSUME CallersInv, CountFrames
  PROVE  CallersInv'
  <1>. DEFINE im == Image[job.src]
  <1>1. /\ job.pc = "countFrames" /\ FrameCount(job.src)
        /\ goOn([job EXCEPT !.pc = "countLoops", !.frames = lastCall'.value])
    BY DEF CountFrames
  <1>2. /\ animating /\ inCall /\ job.src \in Sources /\ job.shown = 0 /\ Probed(im)
        /\ countable(im) => CanvasFits(im)
    BY <1>1, WhoseStep DEF CallersInv, JobInv, AnimationKnows
  <1>3. DecoderInv'
    BY <1>1, <1>2, InvFrameCount DEF CallersInv
  <1>4. /\ UNCHANGED memory
        /\ \/ ReadCause(im, lastCall'.err)
           \/ lastCall'.err = failure("ErrDecode")
           \/ /\ lastCall'.err = nilError
              /\ Len(im.frames) > 0 /\ lastCall'.value = Len(im.frames)
    BY <1>1, <1>2, FrameCountStep DEF CallersInv, DecoderInv
  <1>5. currentLayout' = currentLayout
    BY <1>4 DEF memory
  <1>6. CASE /\ lastCall'.err = nilError
             /\ Len(im.frames) > 0 /\ lastCall'.value = Len(im.frames)
    <2>1. job' = [job EXCEPT !.pc = "countLoops", !.frames = lastCall'.value]
      BY <1>1, <1>6, ErrorNamed DEF goOn, ok
    <2>2. job' = jobWith("countLoops", job.err, job.dst, job.meta, lastCall'.value,
                         job.shown)
      BY <2>1 DEF CallersInv, JobInv, JobOK, JobRecord, jobWith
    <2>3. /\ im.len <= currentLayout'.srcLen /\ Readable(im) /\ job.meta = probed(im)
          /\ countable(im) => slotCode(im, currentLayout'.dstLen) = "ok"
      BY <1>2, <1>5 DEF Probed, Readable, CanvasFits
    <2>4. "countLoops" \in AnimationSteps \ {"returned", "show"}
      BY DEF AnimationSteps
    <2>. QED  BY <1>2, <1>3, <1>6, <2>2, <2>3, <2>4, AnimationGoesOn
  <1>7. CASE ReadCause(im, lastCall'.err) \/ lastCall'.err = failure("ErrDecode")
    <2>1. lastCall'.err.name \in {"ErrSrcTooLarge", "ErrUnknownFormat", "ErrDecode"}
      BY <1>7, ErrorNamed
    <2>2. stopped(lastCall'.err.name)
      BY <1>1, <2>1 DEF goOn, ok, stopped
    <2>3. JobInv'
      BY <1>2, <2>1, <2>2, AnimationStops DEF CallersInv
    <2>. QED  BY <1>3, <2>3 DEF CallersInv
  <1>. QED  BY <1>4, <1>6, <1>7

(* LoopCount. *)
LEMMA CountLoopsStep ==
  ASSUME CallersInv, CountLoops
  PROVE  CallersInv'
  <1>. DEFINE im == Image[job.src]
  <1>1. /\ job.pc = "countLoops" /\ LoopCount(job.src)
        /\ goOn([job EXCEPT !.pc = "allocate"])
    BY DEF CountLoops
  <1>2. /\ animating /\ inCall /\ job.src \in Sources /\ job.shown = 0 /\ Probed(im)
        /\ countable(im) => CanvasFits(im)
        /\ countable(im) => job.frames = Len(im.frames) /\ job.frames > 0
    BY <1>1, WhoseStep DEF CallersInv, JobInv, AnimationKnows
  <1>3. DecoderInv'
    BY <1>1, <1>2, InvLoopCount DEF CallersInv
  <1>4. /\ UNCHANGED memory
        /\ ReadCause(im, lastCall'.err) \/ lastCall'.err = nilError
    BY <1>1, <1>2, LoopCountStep DEF CallersInv, DecoderInv
  <1>5. currentLayout' = currentLayout
    BY <1>4 DEF memory
  <1>6. CASE lastCall'.err = nilError
    <2>1. job' = [job EXCEPT !.pc = "allocate"]
      BY <1>1, <1>6, ErrorNamed DEF goOn, ok
    <2>2. job' = jobWith("allocate", job.err, job.dst, job.meta, job.frames, job.shown)
      BY <2>1 DEF CallersInv, JobInv, JobOK, JobRecord, jobWith
    <2>3. /\ im.len <= currentLayout'.srcLen /\ Readable(im) /\ job.meta = probed(im)
          /\ countable(im) => slotCode(im, currentLayout'.dstLen) = "ok"
      BY <1>2, <1>5 DEF Probed, Readable, CanvasFits
    <2>4. "allocate" \in AnimationSteps \ {"returned", "show"}
      BY DEF AnimationSteps
    <2>. QED  BY <1>2, <1>3, <2>2, <2>3, <2>4, AnimationGoesOn
  <1>7. CASE ReadCause(im, lastCall'.err)
    <2>1. lastCall'.err.name \in {"ErrSrcTooLarge", "ErrUnknownFormat", "ErrDecode"}
      BY <1>7, ErrorNamed
    <2>2. stopped(lastCall'.err.name)
      BY <1>1, <2>1 DEF goOn, ok, stopped
    <2>3. JobInv'
      BY <1>2, <2>1, <2>2, AnimationStops DEF CallersInv
    <2>. QED  BY <1>3, <2>3 DEF CallersInv
  <1>. QED  BY <1>4, <1>6, <1>7

(* A step of the loop that has a canvas and frames to show. *)
LEMMA AnimationShows ==
  ASSUME CallersInv, animating, inCall, DecoderInv', Probed(Image[job.src]),
         currentLayout' = currentLayout,
         NEW d \in Destinations, NEW n \in Nat,
         job' = jobWith("show", job.err, d, job.meta, job.frames, n),
         LET im == Image[job.src]
         IN  countable(im) =>
               /\ CanvasFits(im)
               /\ job.frames = Len(im.frames) /\ job.frames > 0
               /\ d \in newImage("RGBA", im.width, im.height)
               /\ n < job.frames
               /\ drawnUpTo(pix'[d], job.src, n)
  PROVE  CallersInv'
  <1>. DEFINE im == Image[job.src]
  <1>1. /\ JobRecord'
        /\ job'.who = job.who /\ job'.src = job.src /\ job'.pc = "show"
        /\ job'.err = job.err /\ job'.dst = d /\ job'.shown = n
        /\ job'.meta = job.meta /\ job'.frames = job.frames
    BY JobWritten
  <1>2. JobOK'
    BY <1>1, Who DEF CallersInv, JobInv, JobOK, AnimationSteps, animating, retrying,
                     inCall
  <1>3. im' = im
    BY <1>1
  <1>4. Probed(im)' /\ (CanvasFits(im)' <=> CanvasFits(im))
    BY <1>1, <1>3 DEF Probed, Readable, CanvasFits
  <1>5. AnimationShowsEveryFrame'
    BY <1>1 DEF AnimationShowsEveryFrame
  <1>6. drawnUpTo(pix[job.dst], job.src, job.shown)' <=> drawnUpTo(pix'[d], job.src, n)
    BY <1>1
  <1>7. AnimationKnows'
    BY <1>1, <1>3, <1>4, <1>5, <1>6 DEF AnimationKnows, countable
  <1>8. HelperKnows'
    BY <1>1, Who DEF HelperKnows, animating
  <1>. QED  BY <1>2, <1>7, <1>8 DEF CallersInv, JobInv

(* The canvas is zero: no frame is drawn yet. *)
LEMMA AllocateCanvasStep ==
  ASSUME CallersInv, AllocateCanvas
  PROVE  CallersInv'
  <1>. DEFINE im == Image[job.src]
              taken(d) == /\ pix' = [pix EXCEPT ![d] = zeroed]
                          /\ job' = [job EXCEPT !.pc = "show", !.dst = d]
  <1>1. /\ animating /\ job.pc = "allocate"
        /\ UNCHANGED <<memory, slots, fields, lastCall>>
    BY DEF AllocateCanvas, Allocate
  <1>2. \E d \in newImage("RGBA", job.meta.width, job.meta.height) : taken(d)
    BY Zenon DEF AllocateCanvas, Allocate
  <1>. HIDE DEF taken
  <1>3. PICK d \in newImage("RGBA", job.meta.width, job.meta.height) : taken(d)
    BY <1>2
  <1>. USE DEF taken
  <1>4. /\ inCall /\ job.src \in Sources /\ job.shown = 0 /\ Probed(im)
        /\ countable(im) => CanvasFits(im)
        /\ countable(im) => job.frames = Len(im.frames) /\ job.frames > 0
    BY <1>1, WhoseStep DEF CallersInv, JobInv, AnimationKnows
  <1>5. d \in Destinations
    BY <1>3 DEF newImage
  <1>6. PixOK' /\ pix'[d] = zeroed
    <2>1. DOMAIN zeroed = Canvas
      BY DEF zeroed
    <2>. QED  BY <1>3, <1>5, <2>1 DEF CallersInv, DecoderInv, PixOK
  <1>7. DecoderInv'
    BY <1>1, <1>6, InvPixels DEF CallersInv
  <1>8. job' = jobWith("show", job.err, d, job.meta, job.frames, job.shown)
    BY <1>3 DEF CallersInv, JobInv, JobOK, JobRecord, jobWith
  <1>9. currentLayout' = currentLayout
    BY <1>1 DEF memory
  <1>10. countable(im) => d \in newImage("RGBA", im.width, im.height)
    <2>1. job.meta.width = canvasWidth(im) /\ job.meta.height = canvasHeight(im)
      BY <1>4, ProbedMeta DEF Probed
    <2>2. currentLayout.dstLen \in Nat /\ currentLayout.dstLen <= maxMemory
      BY Capacities DEF CallersInv, DecoderInv
    <2>3. countable(im) => canvasWidth(im) = im.width /\ canvasHeight(im) = im.height
      BY <1>4, <2>2, Geometry DEF CanvasFits
    <2>. QED  BY <1>3, <2>1, <2>3
  <1>11. drawnUpTo(pix'[d], job.src, 0)
    BY <1>6 DEF drawnUpTo, zeroed
  <1>. QED  BY <1>1, <1>4, <1>5, <1>7, <1>8, <1>9, <1>10, <1>11, AnimationShows

(* One more frame over the ones before it. *)
LEMMA OneMoreFrame ==
  ASSUME NEW src \in Sources, NEW n \in Nat, NEW p, drawnUpTo(p, src, n)
  PROVE  drawnUpTo(frameDrawn(p, src, n), src, n + 1)
  <1>. DEFINE inside(j, c) == Inside(Image[src].frames[j].bounds, c)
              q == frameDrawn(p, src, n)
  <1>1. SUFFICES ASSUME NEW c \in Canvas
                 PROVE  \/ q[c] = Zero /\ \A j \in 1 .. n + 1 : ~ inside(j, c)
                        \/ \E j \in 1 .. n + 1 :
                             /\ inside(j, c)
                             /\ q[c] = Pixel(src, j - 1, c, RGBAPremul)
                             /\ \A k \in j + 1 .. n + 1 : ~ inside(k, c)
    BY Zenon DEF drawnUpTo
  <1>2. q[c] = IF inside(n + 1, c) THEN Pixel(src, n, c, RGBAPremul) ELSE p[c]
    BY DEF frameDrawn
  <1>3. \/ p[c] = Zero /\ \A j \in 1 .. n : ~ inside(j, c)
        \/ \E j \in 1 .. n : /\ inside(j, c)
                            /\ p[c] = Pixel(src, j - 1, c, RGBAPremul)
                            /\ \A k \in j + 1 .. n : ~ inside(k, c)
    BY DEF drawnUpTo
  <1>. HIDE DEF inside, q
  <1>4. CASE inside(n + 1, c)
    <2>1. n + 1 \in 1 .. n + 1 /\ (n + 1) - 1 = n
      OBVIOUS
    <2>2. \A k \in (n + 1) + 1 .. n + 1 : ~ inside(k, c)
      OBVIOUS
    <2>. QED  BY <1>2, <1>4, <2>1, <2>2
  <1>5. CASE ~ inside(n + 1, c)
    <2>1. \A k \in 1 .. n + 1 : k \in 1 .. n \/ k = n + 1
      OBVIOUS
    <2>2. q[c] = p[c]
      BY <1>2, <1>5
    <2>3. CASE p[c] = Zero /\ \A j \in 1 .. n : ~ inside(j, c)
      BY <1>5, <2>1, <2>2, <2>3
    <2>4. ASSUME NEW j \in 1 .. n, inside(j, c),
                 p[c] = Pixel(src, j - 1, c, RGBAPremul),
                 \A k \in j + 1 .. n : ~ inside(k, c)
          PROVE  \E i \in 1 .. n + 1 :
                   /\ inside(i, c)
                   /\ q[c] = Pixel(src, i - 1, c, RGBAPremul)
                   /\ \A k \in i + 1 .. n + 1 : ~ inside(k, c)
      <3>1. \A k \in j + 1 .. n + 1 : ~ inside(k, c)
        BY <1>5, <2>4
      <3>2. j \in 1 .. n + 1
        OBVIOUS
      <3>. QED  BY <2>2, <2>4, <3>1, <3>2
    <2>. QED  BY <1>3, <2>3, <2>4
  <1>. QED  BY <1>4, <1>5

(* Once they are all drawn, every position shows its top frame. *)
LEMMA AllDrawn ==
  ASSUME NEW src \in Sources, NEW p, drawnUpTo(p, src, Len(Image[src].frames)),
         NEW c \in Canvas
  PROVE  LET top == topFrame(Image[src], c)
         IN  p[c] = IF top = 0 THEN Zero ELSE Pixel(src, top - 1, c, RGBAPremul)
  <1>. DEFINE im == Image[src]
              n  == Len(im.frames)
              inside(j) == Inside(im.frames[j].bounds, c)
              over == {j \in DOMAIN im.frames : inside(j)}
  <1>1. n \in Nat /\ DOMAIN im.frames = 1 .. n
    BY SourceFacts
  <1>2. topFrame(im, c) = IF over = {} THEN 0 ELSE Max(over)
    BY DEF topFrame
  <1>3. \/ p[c] = Zero /\ \A j \in 1 .. n : ~ inside(j)
        \/ \E j \in 1 .. n : /\ inside(j)
                            /\ p[c] = Pixel(src, j - 1, c, RGBAPremul)
                            /\ \A k \in j + 1 .. n : ~ inside(k)
    BY DEF drawnUpTo
  <1>4. \A j : j \in over <=> j \in 1 .. n /\ inside(j)
    BY <1>1
  <1>. HIDE DEF im, n, inside, over
  <1>5. CASE p[c] = Zero /\ \A j \in 1 .. n : ~ inside(j)
    BY <1>2, <1>4, <1>5 DEF im
  <1>6. ASSUME NEW j \in 1 .. n, inside(j), p[c] = Pixel(src, j - 1, c, RGBAPremul),
               \A k \in j + 1 .. n : ~ inside(k)
        PROVE  p[c] = IF topFrame(im, c) = 0 THEN Zero
                      ELSE Pixel(src, topFrame(im, c) - 1, c, RGBAPremul)
    <2>1. j \in over
      BY <1>4, <1>6
    <2>2. \A k \in over : k \in Int /\ j >= k
      BY <1>1, <1>4, <1>6
    <2>3. Max(over) = j
      <3>1. \A x : x \in over /\ (\A y \in over : x >= y) => x = j
        BY <2>1, <2>2
      <3>. QED  BY <2>1, <2>2, <3>1 DEF Max
    <2>4. topFrame(im, c) = j /\ j # 0
      BY <1>1, <1>2, <2>1, <2>3
    <2>. QED  BY <1>6, <2>4
  <1>. QED  BY <1>3, <1>5, <1>6 DEF im

(* DecodeFrame of the next frame, which is never refused for the canvas's room or
   shape. *)
LEMMA ShowFrameStep ==
  ASSUME CallersInv, ShowFrame
  PROVE  CallersInv'
  <1>. DEFINE im == Image[job.src]
              d  == job.dst
              i  == job.shown
              next == IF i + 1 = job.frames THEN "returned" ELSE "show"
  <1>1. /\ job.pc = "show" /\ DecodeFrame(d, job.src, i)
        /\ goOn([job EXCEPT !.shown = i + 1, !.pc = next])
    BY DEF ShowFrame
  <1>2. /\ animating /\ inCall /\ job.src \in Sources /\ job.err = "nil"
        /\ Probed(im) /\ d \in Destinations /\ i \in Nat
    BY <1>1, WhoseStep DEF CallersInv, JobInv, JobOK, AnimationKnows
  <1>3. countable(im) => /\ CanvasFits(im)
                         /\ job.frames = Len(im.frames) /\ job.frames > 0
                         /\ d \in newImage("RGBA", im.width, im.height)
                         /\ i < job.frames
                         /\ drawnUpTo(pix[d], job.src, i)
    BY <1>1, <1>2 DEF CallersInv, JobInv, AnimationKnows
  <1>4. MemoryOK /\ SlotsOK(slots) /\ PixOK
    BY DEF CallersInv, DecoderInv
  <1>5. decodeFrame("DecodeFrame", d, job.src, i)
    BY <1>1 DEF DecodeFrame
  <1>6. DecoderInv'
    BY <1>2, <1>5, InvFrame DEF CallersInv
  <1>7. /\ UNCHANGED memory
        /\ FrameFails(d, job.src, i) \/ FrameSucceeds(d, job.src, i)
    BY <1>2, <1>4, <1>5, FrameStep
  <1>8. CASE FrameSucceeds(d, job.src, i)
    <2>1. lastCall'.err = nilError /\ pix'[d] = frameDrawn(pix[d], job.src, i)
      BY <1>2, <1>4, <1>8 DEF FrameSucceeds, PixOK
    <2>2. job' = [job EXCEPT !.shown = i + 1, !.pc = next]
      BY <1>1, <2>1, ErrorNamed DEF goOn, ok
    <2>. HIDE DEF next
    <2>3. job' = jobWith(next, job.err, d, job.meta, job.frames, i + 1)
      BY <2>2 DEF CallersInv, JobInv, JobOK, JobRecord, jobWith
    <2>4. countable(im) => drawnUpTo(pix'[d], job.src, i + 1)
      BY <1>2, <1>3, <2>1, OneMoreFrame
    <2>5. CASE i + 1 # job.frames
      <3>1. job' = jobWith("show", job.err, d, job.meta, job.frames, i + 1)
        BY <2>3, <2>5 DEF next
      <3>2. countable(im) => i + 1 < job.frames
        <4>1. Len(im.frames) \in Nat
          BY <1>2, SourceFacts
        <4>. HIDE DEF im, i
        <4>. QED  BY <1>2, <1>3, <2>5, <4>1
      <3>3. i + 1 \in Nat /\ currentLayout' = currentLayout
        BY <1>2, <1>7 DEF memory
      <3>. QED  BY <1>2, <1>3, <1>6, <2>4, <3>1, <3>2, <3>3, AnimationShows
    <2>6. CASE i + 1 = job.frames
      <3>1. /\ JobRecord'
            /\ job'.who = job.who /\ job'.src = job.src /\ job'.pc = "returned"
            /\ job'.err = job.err /\ job'.dst = d /\ job'.shown = i + 1
        <4>1. job' = jobWith("returned", job.err, d, job.meta, job.frames, i + 1)
          BY <2>3, <2>6 DEF next
        <4>. QED  BY <4>1, JobWritten
      <3>2. JobOK'
        BY <1>2, <3>1, Who DEF CallersInv, JobInv, JobOK, AnimationSteps, animating,
                               retrying, inCall
      <3>3. ASSUME countable(im), NEW c \in Canvas
            PROVE  pix'[d][c] = IF topFrame(im, c) = 0 THEN Zero
                                ELSE Pixel(job.src, topFrame(im, c) - 1, c, RGBAPremul)
        BY <1>2, <1>3, <2>4, <2>6, <3>3, AllDrawn
      <3>4. countable(im) => i + 1 = Len(im.frames)
        BY <1>3, <2>6
      <3>5. AnimationShowsEveryFrame'
        BY <1>2, <3>1, <3>3, <3>4 DEF AnimationShowsEveryFrame, countable, topFrame
      <3>6. AnimationKnows'
        BY <3>1, <3>5 DEF AnimationKnows
      <3>7. HelperKnows'
        BY <1>2, <3>1, Who DEF HelperKnows, animating
      <3>. QED  BY <1>6, <3>2, <3>6, <3>7 DEF CallersInv, JobInv
    <2>. QED  BY <2>5, <2>6
  <1>9. CASE FrameFails(d, job.src, i)
    <2>1. lastCall'.err # nilError /\ FrameCause(d, job.src, i, lastCall'.err)
      BY <1>9 DEF FrameFails
    <2>2. lastCall'.err.name # "nil"
      BY <1>6, <2>1 DEF DecoderInv, CallOK
    <2>3. stopped(lastCall'.err.name)
      BY <1>1, <2>2 DEF goOn, ok, stopped
    <2>4. countable(im) => lastCall'.err = failure("ErrDecode")
      <3>1. SUFFICES ASSUME countable(im) PROVE lastCall'.err = failure("ErrDecode")
        OBVIOUS
      <3>2. CanvasFits(im) /\ Readable(im)
        BY <1>2, <1>3, <3>1 DEF Probed
      <3>3. d # nilDst /\ shapeError(d, im) = nilError
        <4>1. "RGBA" \in DOMAIN bytesPerPixel
          BY DEF bytesPerPixel
        <4>. QED  BY <1>2, <1>3, <1>4, <3>1, <4>1, NewImageFits
      <3>4. \A err : GuestCause(im, i, err) => err = failure("ErrDecode")
        BY <1>2, <1>4, <3>2, WhyNotDecoded
      <3>. QED  BY <2>1, <3>3, <3>4 DEF FrameCause
    <2>5. countable(im) => lastCall'.err.name = "ErrDecode"
      BY <2>4, ErrorNamed
    <2>6. \A e : /\ stopped(e)
                 /\ countable(im) => e = "ErrDecode"
                 => JobInv'
      BY <1>2, AnimationStops DEF CallersInv
    <2>. QED  BY <1>6, <2>3, <2>5, <2>6 DEF CallersInv
  <1>. QED  BY <1>7, <1>8, <1>9

----------------------------------------------------------------------------
(* The caller who decodes and makes room, and the calls between sources. *)

(* Of such a caller nothing is promised but that it has a source and an image. *)
LEMMA RetryGoesOn ==
  ASSUME CallersInv, retrying, DecoderInv', NEW pc \in RetrySteps, NEW err,
         NEW d \in Destinations,
         job' = jobWith(pc, err, d, job.meta, job.frames, job.shown)
  PROVE  CallersInv'
  <1>1. /\ JobRecord'
        /\ job'.who = "retry" /\ job'.src = job.src /\ job'.pc = pc
        /\ job'.dst = d /\ job'.shown = job.shown
    BY JobWritten DEF retrying
  <1>2. JobOK'
    BY <1>1, Who DEF CallersInv, JobInv, JobOK, animating, retrying
  <1>3. HelperKnows' /\ AnimationKnows'
    BY <1>1, Who DEF HelperKnows, AnimationKnows, animating
  <1>. QED  BY <1>2, <1>3 DEF CallersInv, JobInv

(* Decode. *)
LEMMA TryDecodeStep ==
  ASSUME CallersInv, TryDecode
  PROVE  CallersInv'
  <1>. DEFINE next == IF lastCall'.err.name \in Retryable THEN "makeRoom" ELSE "returned"
  <1>1. /\ retrying /\ job.pc = "try" /\ DecodeRGBA(job.dst, job.src)
        /\ job' = [job EXCEPT !.pc = next, !.err = lastCall'.err.name]
    BY DEF TryDecode
  <1>2. job.src \in Sources /\ job.dst \in Destinations
    BY <1>1, WhoseStep DEF CallersInv, JobInv, JobOK
  <1>3. decodeFrame("DecodeRGBA", job.dst, job.src, 0)
    BY <1>1 DEF DecodeRGBA
  <1>4. DecoderInv'
    BY <1>2, <1>3, InvFrame DEF CallersInv
  <1>5. next \in RetrySteps
    BY DEF RetrySteps
  <1>. HIDE DEF next
  <1>6. job' = jobWith(next, lastCall'.err.name, job.dst, job.meta, job.frames, job.shown)
    BY <1>1 DEF CallersInv, JobInv, JobOK, JobRecord, jobWith
  <1>. QED  BY <1>1, <1>2, <1>4, <1>5, <1>6, RetryGoesOn

(* Reserve, and another destination if the error describes one. *)
LEMMA MakeRoomStep ==
  ASSUME CallersInv, MakeRoom
  PROVE  CallersInv'
  <1>. DEFINE tries(d) == goOn([job EXCEPT !.pc = "try", !.dst = d])
  <1>1. job.pc = "makeRoom"
    BY Zenon DEF MakeRoom
  <1>2. retrying /\ job.src \in Sources /\ job.dst \in Destinations
    BY <1>1, WhoseStep DEF CallersInv, JobInv, JobOK
  <1>3. PICK dstBytes \in Int, srcBytes \in Int : Reserve(dstBytes, srcBytes)
    <2>1. Image[job.src].len \in Int /\ 0 \in Int
      BY <1>2, SourceFacts
    <2>2. lastCall.err.minBytes \in Int
      <3>1. lastCall.err.minBytes \in uint32
        BY DEF CallersInv, DecoderInv, CallOK, Errors
      <3>. QED  BY <3>1, Uint32s
    <2>3. \/ Reserve(0, Image[job.src].len)
          \/ Reserve(lastCall.err.minBytes, 0)
      BY Zenon DEF MakeRoom
    <2>. QED  BY <2>1, <2>2, <2>3
  <1>4. DecoderInv'
    BY <1>3, InvReserve DEF CallersInv
  <1>5. goOn([job EXCEPT !.pc = "try"]) \/ \E d \in Destinations : tries(d)
    <2>1. asAsked(job.dst, lastCall.err) \subseteq Destinations
      BY <1>2 DEF asAsked
    <2>2. \/ goOn([job EXCEPT !.pc = "try"])
          \/ \E d \in asAsked(job.dst, lastCall.err) :
               tries(d)
      BY Zenon DEF MakeRoom
    <2>. HIDE DEF tries
    <2>. QED  BY <2>1, <2>2
  <1>6. "try" \in RetrySteps /\ "returned" \in RetrySteps
    BY DEF RetrySteps
  <1>7. CASE goOn([job EXCEPT !.pc = "try"])
    <2>1. \/ job' = jobWith("try", job.err, job.dst, job.meta, job.frames, job.shown)
          \/ job' = jobWith("returned", lastCall'.err.name, job.dst, job.meta, job.frames,
                            job.shown)
      BY <1>7 DEF goOn, CallersInv, JobInv, JobOK, JobRecord, jobWith
    <2>. QED  BY <1>2, <1>4, <1>6, <2>1, RetryGoesOn
  <1>8. ASSUME NEW d \in Destinations, tries(d)
        PROVE  CallersInv'
    <2>1. \/ job' = jobWith("try", job.err, d, job.meta, job.frames, job.shown)
          \/ job' = jobWith("returned", lastCall'.err.name, job.dst, job.meta, job.frames,
                            job.shown)
      BY <1>8 DEF goOn, CallersInv, JobInv, JobOK, JobRecord, jobWith
    <2>. QED  BY <1>2, <1>4, <1>6, <2>1, RetryGoesOn
  <1>. HIDE DEF tries
  <1>. QED  BY <1>5, <1>7, <1>8

(* The next source. *)
LEMMA BeginStep ==
  ASSUME CallersInv, NEW src \in CallerSources, Begin(src)
  PROVE  CallersInv'
  <1>. DEFINE fresh(who, pc, dst) ==
                [ who |-> who, src |-> src, pc |-> pc, err |-> "nil", dst |-> dst,
                  meta |-> zeroMeta, frames |-> 0, shown |-> 0 ]
  <1>1. src \in Sources
    BY CallersAssumption
  <1>2. DecoderInv'
    <2>1. pix' = [d \in Destinations |-> zeroed]
          /\ UNCHANGED <<memory, slots, fields, lastCall>>
      BY Zenon DEF Begin
    <2>2. PixOK'
      BY <2>1 DEF PixOK, zeroed
    <2>. QED  BY <2>1, <2>2, InvPixels DEF CallersInv
  <1>3. \/ job' = fresh("animation", "animate", nilDst)
        \/ \E d \in Destinations : job' = fresh("retry", "try", d)
    <2>1. ofKind("RGBA") \ {nilDst} \subseteq Destinations
      BY DEF ofKind
    <2>. DEFINE begins(d) ==
                  job' = [noJob EXCEPT !.who = "retry", !.src = src, !.pc = "try",
                                        !.dst = d]
    <2>2. \/ job' = [noJob EXCEPT !.who = "animation", !.src = src, !.pc = "animate"]
          \/ \E d \in ofKind("RGBA") \ {nilDst} : begins(d)
      BY Zenon DEF Begin
    <2>3. \A d : begins(d) => job' = fresh("retry", "try", d)
      <3>1. SUFFICES ASSUME NEW d, begins(d) PROVE job' = fresh("retry", "try", d)
        BY Zenon
      <3>. QED  BY <3>1 DEF noJob
    <2>. HIDE DEF begins
    <2>4. CASE job' = [noJob EXCEPT !.who = "animation", !.src = src, !.pc = "animate"]
      BY <2>4 DEF noJob
    <2>. HIDE DEF fresh
    <2>. QED  BY <2>1, <2>2, <2>3, <2>4
  <1>4. ASSUME job' = fresh("animation", "animate", nilDst)
        PROVE  JobInv'
    <2>1. /\ job'.who = "animation" /\ job'.src = src /\ job'.pc = "animate"
          /\ job'.err = "nil" /\ job'.shown = 0
      BY <1>4
    <2>2. JobRecord'
      BY <1>4 DEF JobRecord, jobWith
    <2>. HIDE DEF fresh
    <2>3. JobOK'
      BY <1>1, <2>1, <2>2, Who DEF JobOK, AnimationSteps, animating, retrying, inCall
    <2>4. AnimationShowsEveryFrame'
      BY <2>1 DEF AnimationShowsEveryFrame
    <2>5. AnimationKnows'
      BY <2>1, <2>4 DEF AnimationKnows
    <2>6. HelperKnows'
      BY <2>1, Who DEF HelperKnows
    <2>. QED  BY <2>3, <2>5, <2>6 DEF JobInv
  <1>5. ASSUME NEW d \in Destinations, job' = fresh("retry", "try", d)
        PROVE  JobInv'
    <2>1. /\ job'.who = "retry" /\ job'.src = src /\ job'.pc = "try"
          /\ job'.dst = d /\ job'.shown = 0
      BY <1>5
    <2>2. JobRecord'
      BY <1>5 DEF JobRecord, jobWith
    <2>. HIDE DEF fresh
    <2>3. JobOK'
      BY <1>1, <2>1, <2>2, Who DEF JobOK, RetrySteps, animating, retrying, inCall
    <2>4. HelperKnows' /\ AnimationKnows'
      BY <2>1, Who DEF HelperKnows, AnimationKnows, animating
    <2>. QED  BY <2>3, <2>4 DEF JobInv
  <1>. QED  BY <1>2, <1>3, <1>4, <1>5 DEF CallersInv

----------------------------------------------------------------------------
(* The invariant. *)

(* A new decoder's slots. *)
LEMMA FirstCapacities == Init => capacities(InitialDstSlotBytes, defaultSrcCap)
  <1>. SUFFICES ASSUME Init PROVE capacities(InitialDstSlotBytes, defaultSrcCap)
    OBVIOUS
  <1>1. currentLayout = Mem!computeLayout(Mem!initialMemory, InitialDstSlotBytes,
                                          Mem!defaultSrcCap)
    BY DEF Init, Mem!Init
  <1>2. Mem!defaultSrcCap = defaultSrcCap
    BY DEF Mem!defaultSrcCap, defaultSrcCap
  <1>3. \A m, d, s : /\ Mem!computeLayout(m, d, s).dstLen = d
                     /\ Mem!computeLayout(m, d, s).srcLen = s
    BY DEF Mem!computeLayout, Mem!slotsAt
  <1>. QED  BY <1>1, <1>2, <1>3 DEF capacities

(* The first states: a helper that starts with its decoder, or a caller's decoder. *)
LEMMA CallersInvInit == CallersInit => CallersInv
  <1>. SUFFICES ASSUME CallersInit PROVE CallersInv
    OBVIOUS
  <1>. DEFINE fresh(who, src, pc) ==
                [ who |-> who, src |-> src, pc |-> pc, err |-> "nil", dst |-> nilDst,
                  meta |-> zeroMeta, frames |-> 0, shown |-> 0 ]
              starts(who, src) ==
                job = [noJob EXCEPT !.who = who, !.src = src, !.pc = "reserveSource"]
  <1>1. Init
    BY Zenon DEF CallersInit, HelperInit
  <1>2. \/ \E who \in Helpers, src \in Sources : starts(who, src)
        \/ job = noJob
    BY Zenon DEF CallersInit, HelperInit
  <1>3. \A who, src : starts(who, src) => job = fresh(who, src, "reserveSource")
    <2>1. SUFFICES ASSUME NEW who, NEW src, starts(who, src)
                   PROVE  job = fresh(who, src, "reserveSource")
      BY Zenon
    <2>. QED  BY <2>1 DEF noJob
  <1>4. DecoderInv
    BY <1>1, InvInit
  <1>. HIDE DEF starts
  <1>5. ASSUME NEW who \in Helpers, NEW src \in Sources, starts(who, src)
        PROVE  JobInv
    <2>1. job = fresh(who, src, "reserveSource")
      BY <1>3, <1>5
    <2>2. /\ job.who = who /\ job.src = src /\ job.pc = "reserveSource"
          /\ job.err = "nil" /\ job.shown = 0
      BY <2>1
    <2>3. JobRecord
      BY <2>1 DEF JobRecord, jobWith
    <2>. HIDE DEF fresh
    <2>4. JobOK
      BY <2>2, <2>3, Who DEF JobOK, HelperSteps, animating, retrying, inCall
    <2>5. HelpersDeliver
      BY <2>2 DEF HelpersDeliver
    <2>6. HelperKnows
      BY <1>1, <2>2, <2>5, FirstCapacities DEF HelperKnows
    <2>7. AnimationKnows
      BY <2>2, Who DEF AnimationKnows, animating
    <2>. QED  BY <2>4, <2>6, <2>7 DEF JobInv
  <1>6. CASE job = noJob
    <2>1. /\ job.who = "none" /\ job.pc = "returned" /\ job.shown = 0
      BY <1>6 DEF noJob
    <2>2. JobRecord
      BY <1>6 DEF JobRecord, jobWith, noJob
    <2>3. JobOK
      BY <2>1, <2>2, Who DEF JobOK, animating, retrying, inCall
    <2>4. HelperKnows /\ AnimationKnows
      BY <2>1, Who DEF HelperKnows, AnimationKnows, animating
    <2>. QED  BY <1>4, <2>3, <2>4 DEF CallersInv, JobInv
  <1>. QED  BY <1>2, <1>4, <1>5, <1>6 DEF CallersInv

(* A step that changes nothing. *)
LEMMA CallersStutter == CallersInv /\ UNCHANGED allVars => CallersInv'
  <1>. SUFFICES ASSUME CallersInv, UNCHANGED allVars PROVE CallersInv'
    OBVIOUS
  <1>1. DecoderInv'
    BY InvKept DEF CallersInv, allVars
  <1>2. job' = job /\ pix' = pix /\ currentLayout' = currentLayout
    BY DEF allVars, vars, memory
  <1>3. JobOK'
    BY <1>2 DEF CallersInv, JobInv, JobOK, JobRecord, jobWith, animating, retrying, inCall
  <1>4. HelpersDeliver' /\ AnimationShowsEveryFrame'
    BY <1>2, Zenon DEF CallersInv, JobInv, HelperKnows, AnimationKnows, HelpersDeliver,
                       AnimationShowsEveryFrame, animating
  <1>5. HelperKnows'
    BY <1>2, <1>4, Zenon DEF CallersInv, JobInv, HelperKnows, capacities, Probed,
                             Readable, Roomy, CanvasFits
  <1>6. AnimationKnows'
    BY <1>2, <1>4, Zenon DEF CallersInv, JobInv, AnimationKnows, animating, Probed,
                             Readable, CanvasFits
  <1>. QED  BY <1>1, <1>3, <1>5, <1>6 DEF CallersInv, JobInv

LEMMA CallersInvNext == CallersInv /\ [CallersNext]_allVars => CallersInv'
  <1>. SUFFICES ASSUME CallersInv, [CallersNext]_allVars PROVE CallersInv'
    OBVIOUS
  <1>1. CASE Helper
    BY <1>1, ReserveSourceStep, ProbeSourceStep, ReserveBothStep, AllocateImageStep,
       DecodeIntoStep DEF Helper
  <1>2. CASE ProbeAnimation \/ ReserveCanvas \/ CountFrames \/ CountLoops
    BY <1>2, ProbeAnimationStep, ReserveCanvasStep, CountFramesStep, CountLoopsStep
  <1>3. CASE AllocateCanvas \/ ShowFrame
    BY <1>3, AllocateCanvasStep, ShowFrameStep
  <1>4. CASE TryDecode \/ MakeRoom
    BY <1>4, TryDecodeStep, MakeRoomStep
  <1>5. CASE \E src \in CallerSources : Begin(src)
    BY <1>5, BeginStep
  <1>6. CASE UNCHANGED allVars
    BY <1>6, CallersStutter
  <1>. QED  BY <1>1, <1>2, <1>3, <1>4, <1>5, <1>6 DEF CallersNext, Proceed

(* Whoever calls it, the decoder keeps its invariant, and a call that is under way
   knows what its next step relies on. *)
THEOREM CallersInvariant == CallersSpec => []CallersInv
  BY CallersInvInit, CallersInvNext, PTL DEF CallersSpec

(* A helper delivers an image exactly if the source can be decoded in a memory a
   decoder can have, it never fails for want of room in a slot, and Decode's pixels
   are the first frame's: whatever the source's codec reports (convenience.go,
   decodePrep and the helpers). *)
THEOREM HelpersAlwaysDeliver == CallersSpec => []HelpersDeliver
  <1>1. CallersInv => HelpersDeliver
    BY DEF CallersInv, JobInv, HelperKnows, HelpersDeliver
  <1>. QED  BY <1>1, CallersInvariant, PTL

(* An image is allocated only once guest memory for its canvas has been had, so no
   header makes a helper allocate more than a decoder's memory (convenience.go,
   validateAllocatingGeometry and decodePrep). *)
THEOREM AllocationsStayBounded == CallersSpec => []AllocationsBounded
  <1>1. CallersInv => AllocationsBounded
    <2>. SUFFICES ASSUME CallersInv, job.who \in Decodes, job.pc = "allocate"
                  PROVE  /\ 4 * job.meta.width * job.meta.height
                              \in 1 .. currentLayout.dstLen
                         /\ currentLayout.dstLen <= maxMemory - hostSlotRegionBase
      BY DEF AllocationsBounded
    <2>. DEFINE im == Image[job.src]
    <2>1. job.who \in Helpers /\ job.src \in Sources
      BY WhoseStep DEF CallersInv, JobInv
    <2>2. Probed(im) /\ CanvasFits(im)
      BY <2>1 DEF CallersInv, JobInv, HelperKnows, Roomy
    <2>3. /\ currentLayout.dstLen \in Nat /\ currentLayout.dstLen <= maxMemory
          /\ currentLayout.dstLen <= maxMemory - hostSlotRegionBase
      BY Capacities DEF CallersInv, DecoderInv
    <2>4. 4 * job.meta.width * job.meta.height = need(im)
      BY <2>2, ProbedMeta DEF Probed, need
    <2>5. need(im) \in Nat /\ need(im) > 0 /\ need(im) <= currentLayout.dstLen
      <3>1. /\ need(im) = 4 * (im.width * im.height) /\ need(im) <= currentLayout.dstLen
            /\ im.width \in Nat /\ im.height \in Nat /\ im.width > 0 /\ im.height > 0
            /\ im.width * im.height \in Nat
        BY <2>1, <2>2, <2>3, Geometry DEF CanvasFits
      <3>2. im.width * im.height > 0
        BY <3>1, Products
      <3>. QED  BY <3>1, <3>2
    <2>. QED  BY <2>3, <2>4, <2>5
  <1>. QED  BY <1>1, CallersInvariant, PTL

(* README's animation loop never gives up because the room it made after Probe is
   too little or of another shape, and if it gets to its end the destination shows
   every frame over the ones before it, for every canvas whose bytes a uint32
   counts (README.md's loop over decoder.go's Probe, Reserve, FrameCount, LoopCount
   and DecodeFrame). *)
THEOREM AnimationAlwaysShowsEveryFrame == CallersSpec => []AnimationShowsEveryFrame
  <1>1. CallersInv => AnimationShowsEveryFrame
    BY DEF CallersInv, JobInv, AnimationKnows, AnimationShowsEveryFrame
  <1>. QED  BY <1>1, CallersInvariant, PTL

=============================================================================
