-------------------------------- MODULE Callers --------------------------------
(***************************************************************************)
(* Callers of a Decoder beside the helpers: the animation loop of README.md,  *)
(* and the caller who decodes first and makes room when an error says so.      *)
(* Both are external; they go by what the decoder's documents tell them, and     *)
(* keep their decoder from one source to the next.                                *)
(***************************************************************************)
EXTENDS Convenience, FiniteSetsExt

CONSTANT CallerSources     \* the sources they go through

ASSUME CallersAssumption == CallerSources \subseteq Sources

animating == job.who = "animation"
retrying  == job.who = "retry"

\* Between two sources.  A helper's decoder is gone when it returns.
Begin(src) ==
  /\ job.pc = "returned"
  /\ job.who \notin Helpers
  /\ \/ job' = [noJob EXCEPT !.who = "animation", !.src = src, !.pc = "animate"]
     \/ \E d \in ofKind("RGBA") \ {nilDst} :
          job' = [noJob EXCEPT !.who = "retry", !.src = src, !.pc = "try", !.dst = d]
  /\ pix' = [d \in Destinations |-> zeroed]
  /\ UNCHANGED <<memory, slots, fields, lastCall>>

----------------------------------------------------------------------------
(* README.md: Probe, Reserve, FrameCount, LoopCount, then every frame in turn, *)
(* giving up at the first error.                                                *)

ProbeAnimation ==
  /\ animating /\ job.pc = "animate"
  /\ Probe(job.src)
  /\ goOn([job EXCEPT !.pc = "reserveCanvas", !.meta = lastMeta'])

ReserveCanvas ==
  /\ job.pc = "reserveCanvas"
  /\ Reserve(job.meta.stride * job.meta.height, Image[job.src].len)
  /\ goOn([job EXCEPT !.pc = "countFrames"])

CountFrames ==
  /\ job.pc = "countFrames"
  /\ FrameCount(job.src)
  /\ goOn([job EXCEPT !.pc = "countLoops", !.frames = lastCall'.value])

CountLoops ==
  /\ job.pc = "countLoops"
  /\ LoopCount(job.src)
  /\ goOn([job EXCEPT !.pc = "allocate"])

AllocateCanvas == animating /\ Allocate("RGBA", "show")

ShowFrame ==
  /\ job.pc = "show"
  /\ DecodeFrame(job.dst, job.src, job.shown)
  /\ goOn([job EXCEPT !.shown = @ + 1,
                      !.pc = IF job.shown + 1 = job.frames THEN "returned" ELSE "show"])

----------------------------------------------------------------------------
(* Decode, and on an error that names a want of room, make it and retry. *)

Retryable == {"ErrSrcTooLarge", "ErrDstTooSmall"}

TryDecode ==
  /\ retrying /\ job.pc = "try"
  /\ DecodeRGBA(job.dst, job.src)
  /\ job' = [job EXCEPT !.pc = IF lastCall'.err.name \in Retryable THEN "makeRoom"
                               ELSE "returned",
                        !.err = lastCall'.err.name]

\* The image the error describes, if the caller can have one.
asAsked(d, err) ==
  LET described == { e \in Destinations :
                       Dest[e] = [ kind |-> "RGBA", width |-> err.width,
                                   height |-> err.height, atOrigin |-> TRUE,
                                   stride |-> err.stride, pixLen |-> err.minBytes ] }
  IN  IF described = {} THEN {d} ELSE described

MakeRoom ==
  /\ job.pc = "makeRoom"
  /\ IF job.err = "ErrSrcTooLarge"
       THEN /\ Reserve(0, Image[job.src].len)
            /\ goOn([job EXCEPT !.pc = "try"])
       ELSE /\ Reserve(lastCall.err.minBytes, 0)
            /\ \E d \in asAsked(job.dst, lastCall.err) :
                 goOn([job EXCEPT !.pc = "try", !.dst = d])

----------------------------------------------------------------------------
CallersInit == HelperInit \/ (Init /\ job = noJob)

Proceed ==
  \/ Helper
  \/ ProbeAnimation \/ ReserveCanvas \/ CountFrames \/ CountLoops
  \/ AllocateCanvas \/ ShowFrame
  \/ TryDecode \/ MakeRoom

CallersNext == Proceed \/ \E src \in CallerSources : Begin(src)

inCall == job.pc # "returned"

\* A goroutine that is in a call goes on with it; nothing in it blocks.  This is
\* WF_allVars(Proceed), with ENABLED <<Proceed>>_allVars written out as inCall,
\* which TLC evaluates at once.
CallGoesOn == []<>(~ inCall) \/ []<><<Proceed>>_allVars

CallersSpec == CallersInit /\ [][CallersNext]_allVars /\ CallGoesOn

----------------------------------------------------------------------------
\* A canvas that has pixels and whose bytes a uint32 counts.
countable(im) == im.width * im.height \in 1 .. Word \div 4 - 1

underway == inCall /\ (retrying => countable(Image[job.src]))

(* Every call ends.  A caller who retries whenever room is asked for gets an
   image or another error after finitely many retries, since each raises a
   capacity or mends the destination; only of a canvas without pixels, or of
   one no uint32 counts (MinBytesIsRequired), may the advice lead in a circle. *)
CallersFinish == underway ~> job.pc = "returned"

\* The frame last drawn over a position, or 0.
topFrame(im, c) ==
  LET over == {j \in DOMAIN im.frames : Inside(im.frames[j].bounds, c)}
  IN  IF over = {} THEN 0 ELSE Max(over)

(* The animation loop of README.md shows every frame: if it gets to its end, the
   destination holds each frame drawn over the ones before it, untouched by the
   slot's clearing between frames; and it never gives up because the room it made
   after Probe was too little or of another shape. *)
AnimationShowsEveryFrame ==
  animating /\ job.pc = "returned" /\ countable(Image[job.src]) =>
    LET im == Image[job.src]
    IN  /\ job.err \notin {"ErrDstTooSmall", "ErrBadImage"}
        /\ job.err = "nil" =>
             /\ job.shown = Len(im.frames)
             /\ \A c \in Canvas :
                  pix[job.dst][c] = IF topFrame(im, c) = 0 THEN Zero
                                    ELSE Pixel(job.src, topFrame(im, c) - 1, c,
                                               RGBAPremul)

=============================================================================
