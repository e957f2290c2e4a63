----------------------------- MODULE FrameSource -----------------------------
(***************************************************************************)
(* What a caller of readMjpegFrame relies on: images of the stream, each   *)
(* one whole, in the order of the stream and none twice, until the stream  *)
(* is over.  Images may be skipped.                                        *)
(***************************************************************************)
EXTENDS Naturals, Sequences

CONSTANT Images  \* the images of the stream, numbered in order

VARIABLES shown, over

Init == shown = << >> /\ over = FALSE

Show ==
  /\ ~over
  /\ \E k \in Images :
       /\ \A j \in DOMAIN shown : shown[j] < k
       /\ shown' = Append(shown, k)
  /\ UNCHANGED over

End ==
  /\ ~over
  /\ over' = TRUE
  /\ UNCHANGED shown

Safe == Init /\ [][Show \/ End]_<< shown, over >>

Spec == Safe /\ WF_<< shown, over >>(End)
=============================================================================
