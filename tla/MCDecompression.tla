--------------------------- MODULE MCDecompression ---------------------------
(***************************************************************************)
(* The two ends of decompression: the coefficient controller of the        *)
(* library on small pictures, and ImageProc.c, which is given the lines of *)
(* the output, on small images.  Nothing is shared between the two that    *)
(* the models keep, so of the two only one is at work in a behaviour.      *)
(***************************************************************************)
EXTENDS CoefController, NativeDecoder

-----------------------------------------------------------------------------
(* Pictures: blocks of one sample, so that a width or height is a number   *)
(* of blocks, sampling factors 1 and 2, and scans that are interleaved or  *)
(* not, of the whole coefficients or progressive.                          *)

C(h, v) == [h |-> h, v |-> v]
F(w, h, comps, prog) ==
  [baseline |-> ~prog, prog |-> prog, precision |-> BitsInSample, height |-> h, width |-> w, comps |-> comps]
Dc(cur) == [comps |-> cur, dc |-> TRUE]
Ac(c) == [comps |-> << c >>, dc |-> FALSE]
Gray(h, v) == << C(h, v) >>
Two(h, v) == << C(h, v), C(1, 1) >>
Crossed == << C(2, 1), C(1, 2) >>

Sizes == { << 1, 1 >>, << 3, 3 >>, << 3, 2 >> }
Sampled == { Two(2, 1), Two(2, 2), Crossed }
P(header, scans, buffered) ==
  [frame |-> header, Se |-> IF header.prog THEN 0 ELSE DCTSIZE2 - 1, scans |-> scans, buffered |-> buffered]

\* One scan, with and without a buffered image, and a scan for each component.
Sequential ==
  { P(F(z[1], z[2], Gray(2, 2), FALSE), << Dc(<< 1 >>) >>, b) : z \in Sizes, b \in BOOLEAN } \cup
  { P(F(z[1], z[2], g, FALSE), << Dc(<< 1, 2 >>) >>, b) : z \in Sizes, g \in Sampled, b \in BOOLEAN } \cup
  { P(F(3, 3, g, FALSE), << Dc(<< 2 >>), Dc(<< 1 >>) >>, b) : g \in { Two(2, 2), Crossed }, b \in BOOLEAN } \cup
  { P(F(4, 5, Two(2, 2), FALSE), << Dc(<< 1, 2 >>) >>, FALSE) }
\* The DC coefficients in one scan or two, then AC coefficients.
Progressive ==
  { P(F(z[1], z[2], Gray(1, 2), TRUE), << Dc(<< 1 >>), Ac(1) >>, b) : z \in Sizes, b \in BOOLEAN } \cup
  { P(F(3, 3, g, TRUE), << Dc(<< 1, 2 >>), Ac(1) >>, TRUE) : g \in { Two(2, 2), Crossed } } \cup
  { P(F(2, 3, Two(1, 1), TRUE), << Dc(<< 1 >>), Dc(<< 2 >>), Ac(2) >>, TRUE) }

AnyPicture == Sequential \cup Progressive

-----------------------------------------------------------------------------
(* Uses of ImageProc.c                                                     *)

CONSTANTS t1, t2

Jpeg(name, width, height, lines, fate) ==
  [name |-> name, width |-> width, height |-> height, lines |-> lines, fate |-> fate]

NoUse ==
  [threads |-> { }, width |-> 1, height |-> 1, blocks |-> 0, stopTask |-> FALSE,
   frames |-> { Jpeg("none", 1, 1, 1, "whole") }]

\* A camera that sends one size, good and bad images.
OneSize ==
  [threads |-> { t1 }, width |-> 2, height |-> 2, blocks |-> 2, stopTask |-> TRUE,
   frames |-> { Jpeg("a", 2, 2, 2, "whole"), Jpeg("b", 2, 2, 2, "whole"),
                Jpeg("e", 2, 2, 0, "early"), Jpeg("l", 2, 2, 0, "late") }]

\* A camera whose images change size or are cut short.
AnySize ==
  [threads |-> { t1 }, width |-> 2, height |-> 1, blocks |-> 2, stopTask |-> TRUE,
   frames |-> { Jpeg("wide", 2, 1, 1, "whole"), Jpeg("high", 1, 2, 2, "whole"),
                Jpeg("dot", 1, 1, 1, "whole"), Jpeg("early", 2, 1, 0, "early"),
                Jpeg("cut", 2, 2, 1, "cut") }]

\* Headers too large for a size_t, on a view of the size that is left of them.
LargeSize ==
  [threads |-> { t1 }, width |-> 2, height |-> 1, blocks |-> 2, stopTask |-> FALSE,
   frames |-> { Jpeg("large", 3, 3, 3, "whole"), Jpeg("empty", 4, 2, 2, "whole"),
                Jpeg("line", 5, 2, 2, "whole"), Jpeg("fits", 2, 1, 1, "whole") }]

\* Two threads side by side, and images of one size or of two.
PairSize ==
  [threads |-> { t1, t2 }, width |-> 2, height |-> 1, blocks |-> 3, stopTask |-> FALSE,
   frames |-> { Jpeg("a", 2, 1, 1, "whole"), Jpeg("e", 2, 1, 0, "early") }]

PairSizes ==
  [threads |-> { t1, t2 }, width |-> 1, height |-> 1, blocks |-> 3, stopTask |-> FALSE,
   frames |-> { Jpeg("a", 1, 1, 1, "whole"), Jpeg("b", 2, 1, 1, "whole") }]

\* And a stopTask beside them.
PairFreed ==
  [threads |-> { t1, t2 }, width |-> 1, height |-> 1, blocks |-> 2, stopTask |-> TRUE,
   frames |-> { Jpeg("a", 1, 1, 1, "whole") }]

MCUses == { NoUse, OneSize, AnySize, LargeSize, PairSize, PairSizes, PairFreed }

-----------------------------------------------------------------------------
\* The controller has done its work.
CoefAtRest ==
  /\ pic = SetUp(CHOOSE p \in Pictures : TRUE)
  /\ api = "START" /\ array = {} /\ shown = << >>
  /\ inp = [scan |-> 1, row |-> 0, vert |-> 0, ctr |-> 0, consume |-> "markers", eoi |-> FALSE]
  /\ out = [scan |-> 0, row |-> 0, smooth |-> FALSE]

BothInit ==
  /\ DecoderInit
  /\ \/ use = NoUse /\ Init
     \/ use # NoUse /\ CoefAtRest

BothNext ==
  \/ Next /\ UNCHANGED decoderVars
  \/ DecoderNext /\ UNCHANGED vars

BothSpec ==
  BothInit /\ [][BothNext]_<< vars, decoderVars >> /\ Fairness /\ DecoderFairness

=============================================================================
