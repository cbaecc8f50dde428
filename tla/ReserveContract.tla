---------------------------- MODULE ReserveContract ----------------------------
(***************************************************************************)
(* What Reserve promises a caller, without pages, offsets or words: a      *)
(* decoder has a dst and a src capacity; Reserve(d, s) raises each to at    *)
(* least the request when the two slots and the fixed ones fit the          *)
(* module's memory, and refuses, changing nothing, exactly when they do     *)
(* not.  The arithmetic is that of unbounded integers.                      *)
(***************************************************************************)
EXTENDS Integers

CONSTANTS Requests, InitialDst, InitialSrc, FixedBytes, Region, Word

VARIABLES dstCap, srcCap, accepted

vars == <<dstCap, srcCap, accepted>>

Raise(cap, request) == IF request > cap THEN request ELSE cap

Fits(d, s) ==
  /\ d < Word
  /\ s < Word
  /\ \E pad \in 0 .. 7 : /\ (FixedBytes + d + s + pad) % 8 = 0
                       /\ FixedBytes + d + s + pad <= Region

Init ==
  /\ dstCap = InitialDst
  /\ srcCap = InitialSrc
  /\ accepted = TRUE

Accept(d, s) ==
  /\ Fits(Raise(dstCap, d), Raise(srcCap, s))
  /\ dstCap' = Raise(dstCap, d)
  /\ srcCap' = Raise(srcCap, s)
  /\ accepted' = TRUE

Refuse(d, s) ==
  /\ ~ Fits(Raise(dstCap, d), Raise(srcCap, s))
  /\ accepted' = FALSE
  /\ UNCHANGED <<dstCap, srcCap>>

Next == \E d, s \in Requests : Accept(d, s) \/ Refuse(d, s)

Spec == Init /\ [][Next]_vars

=============================================================================
