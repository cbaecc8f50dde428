------------------------------- MODULE MCCallers -------------------------------
(***************************************************************************)
(* Sources that make each step of a helper or caller the one that fails: read  *)
(* errors, canvases and sources that no memory holds, that only wrap, or that  *)
(* a default slot does not hold; and two animations, one with a corrupt frame.   *)
(***************************************************************************)
EXTENDS MCDecoder, Callers

MCCallerImages ==
  [ png    |-> Still("PNG"),
    anim   |-> [Still("GIF") EXCEPT !.frames = <<Good(Whole), Good(Right)>>, !.loops = 3],
    gif    |-> MCImages["gif"],
    corner |-> MCImages["corner"],
    large  |-> MCImages["large"],
    empty  |-> MCImages["empty"],
    text   |-> MCImages["text"],
    broken |-> MCImages["broken"],
    hollow |-> [Still("GIF") EXCEPT !.frames = <<Good(Empty)>>],
    wide   |-> MCImages["wide"],
    heavy  |-> [Still("PNG") EXCEPT !.width = 16384, !.height = 5000],
    huge   |-> [Still("PNG") EXCEPT !.width = 32768, !.height = 32768],
    vast   |-> [Still("PNG") EXCEPT !.len = maxMemory - hostSlotRegionBase] ]

MCSources == DOMAIN MCCallerImages

\* Tight images of every kind and of no size, and two an error has to mend.
MCCallerDest ==
  [ rgba |-> MCDest["rgba"], nrgba |-> MCDest["nrgba"], gray |-> MCDest["gray"],
    void |-> Shape("RGBA", 0, 0, 0, 0), voidN |-> Shape("NRGBA", 0, 0, 0, 0),
    voidG |-> Shape("Gray", 0, 0, 0, 0),
    padded |-> MCDest["padded"], short |-> MCDest["short"], narrow |-> MCDest["narrow"] ]

CallerDests == DOMAIN MCCallerDest

=============================================================================
