------------------------------ MODULE ScanSetup ------------------------------
(***************************************************************************)
(* jdinput.c: what initial_setup derives from the frame header when the      *)
(* first SOS is reached, and what per_scan_setup derives for each scan: the  *)
(* size of every component in blocks, the MCUs of the scan and how much of   *)
(* the last column and row of MCUs is padding.                              *)
(*                                                                         *)
(* A frame f is [baseline, prog, precision, height, width, comps]; its       *)
(* components are [h, v], and may have more fields.  Se and n are the last   *)
(* coefficient and the number of components of the scan header at hand.     *)
(***************************************************************************)
EXTENDS Integers, Sequences, FiniteSetsExt

CONSTANTS DctSize,          \* DCTSIZE, 8: coefficients of a side of a block
          MaxDimension,     \* JPEG_MAX_DIMENSION, 65500
          MaxComponents,    \* MAX_COMPONENTS, 10
          MaxSampFactor,    \* MAX_SAMP_FACTOR, 4
          MaxCompsInScan,   \* MAX_COMPS_IN_SCAN, 4
          MaxBlocksInMcu    \* D_MAX_BLOCKS_IN_MCU, 10

DCTSIZE2 == DctSize * DctSize
BitsInSample == 8
RoundUp(a, b) == (a + b - 1) \div b

MaxH(f) == Max({ 1 } \cup { f.comps[k].h : k \in DOMAIN f.comps })
MaxV(f) == Max({ 1 } \cup { f.comps[k].v : k \in DOMAIN f.comps })

\* The block is the usual one, or as large as the scan header's Se says.
UsualBlock(f, n) == f.baseline \/ (f.prog /\ n > 0)
BlockSizes(f, Se, n) ==
  IF UsualBlock(f, n) THEN { DctSize } ELSE { k \in 1..(2 * DctSize) : Se = k * k - 1 }

\* initial_setup gives up on the image (ERREXIT).
SetupRefused(f, Se, n) ==
  \/ f.height > MaxDimension \/ f.width > MaxDimension
  \/ f.precision # BitsInSample
  \/ Len(f.comps) > MaxComponents
  \/ \E k \in DOMAIN f.comps : ~(f.comps[k].h \in 1..MaxSampFactor /\ f.comps[k].v \in 1..MaxSampFactor)
  \/ BlockSizes(f, Se, n) = {}

InitialSetup(f, Se, n) ==
  LET b == CHOOSE k \in BlockSizes(f, Se, n) : TRUE IN
  [blockSize |-> b,
   limSe |-> IF b < DctSize THEN b * b - 1 ELSE DCTSIZE2 - 1,
   maxH |-> MaxH(f), maxV |-> MaxV(f),
   blocks |-> [k \in DOMAIN f.comps |->
                 [w |-> RoundUp(f.width * f.comps[k].h, MaxH(f) * b),
                  h |-> RoundUp(f.height * f.comps[k].v, MaxV(f) * b)]],
   samples |-> [k \in DOMAIN f.comps |->
                 [w |-> RoundUp(f.width * f.comps[k].h, MaxH(f)),
                  h |-> RoundUp(f.height * f.comps[k].v, MaxV(f))]],
   totalIMcuRows |-> RoundUp(f.height, MaxV(f) * b),
   multi |-> n < Len(f.comps) \/ f.prog]

\* What is left of a row of MCUs of m blocks each, of a component of size
\* blocks: the blocks of the last one that are not padding.
LastOf(size, m) == IF size % m = 0 THEN m ELSE size % m

\* The scan of the components cur (their places in the frame) of image im.
ScanMcuBlocks(f, cur) ==
  LET sum[k \in 0..Len(cur)] ==
        IF k = 0 THEN 0 ELSE sum[k - 1] + f.comps[cur[k]].h * f.comps[cur[k]].v
  IN sum[Len(cur)]
ScanRefused(f, cur) ==
  Len(cur) # 1 /\ (Len(cur) \notin 1..MaxCompsInScan \/ ScanMcuBlocks(f, cur) > MaxBlocksInMcu)

SingleScan(f, im, c) ==
  [mcusPerRow |-> im.blocks[c].w, mcuRows |-> im.blocks[c].h,
   comps |-> << [c |-> c, w |-> 1, h |-> 1, lastCol |-> 1,
                 lastRow |-> LastOf(im.blocks[c].h, f.comps[c].v)] >>,
   membership |-> << 1 >>]

InterleavedScan(f, im, cur) ==
  LET part(k) == [c |-> cur[k], w |-> f.comps[cur[k]].h, h |-> f.comps[cur[k]].v,
                  lastCol |-> LastOf(im.blocks[cur[k]].w, f.comps[cur[k]].h),
                  lastRow |-> LastOf(im.blocks[cur[k]].h, f.comps[cur[k]].v)]
      owner[k \in 0..Len(cur)] ==   \* MCU_membership
        IF k = 0 THEN << >> ELSE owner[k - 1] \o [b \in 1..(part(k).w * part(k).h) |-> k]
  IN [mcusPerRow |-> RoundUp(f.width, im.maxH * im.blockSize),
      mcuRows |-> RoundUp(f.height, im.maxV * im.blockSize),
      comps |-> [k \in DOMAIN cur |-> part(k)],
      membership |-> owner[Len(cur)]]

PerScanSetup(f, im, cur) ==
  IF Len(cur) = 1 THEN SingleScan(f, im, cur[1]) ELSE InterleavedScan(f, im, cur)
=============================================================================
