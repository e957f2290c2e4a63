------------------------- MODULE LosslessTransform -------------------------
(***************************************************************************)
(* transupp.c: rotating, flipping and cropping a picture by moving its     *)
(* blocks of coefficients.  The caller asks for a workspace, lets the      *)
(* parameters of the destination be adjusted, and executes the transform,  *)
(* which walks the destination one row of iMCUs at a time.                 *)
(*                                                                         *)
(* A block is where it was in the source, whether its coefficients were    *)
(* transposed, and the sign they were given by the parity of their row and *)
(* column.  A colour picture is its luminance and one chrominance: the     *)
(* second chrominance goes through the same steps as the first.  Exif data *)
(* is left out.                                                            *)
(***************************************************************************)
EXTENDS Integers, Sequences, FiniteSets, FiniteSetsExt

CONSTANTS BlockSize,   \* samples a block is wide and high (min_DCT_*_scaled_size)
          Widths, Heights,
          Samplings,   \* sequences of [h, v], one per component
          Requests     \* what the caller may ask: transform, perfect, trim, gray, crop

\* Every picture the library reads, and every request.  A crop gives a size and an
\* offset for each axis, or leaves them unset.
Axis == [size : Nat, sset : {"unset", "pos", "force"}, offset : Nat, oset : {"unset", "pos", "neg"}]
TransformAssumption ==
  /\ BlockSize \in Nat \ { 0 } /\ Widths \subseteq Nat \ { 0 } /\ Heights \subseteq Nat \ { 0 }
  /\ Samplings \subseteq Seq([h : 1..4, v : 1..4]) \ { << >> }
  /\ Requests \subseteq
       [transform : {"none", "flip_h", "flip_v", "transpose", "transverse", "rot_90", "rot_180", "rot_270"},
        perfect : BOOLEAN, trim : BOOLEAN, gray : BOOLEAN, crop : BOOLEAN, cropx : Axis, cropy : Axis]

VARIABLES image, info, dest, quant, srcArrays, work, pc, at
vars == << image, info, dest, quant, srcArrays, work, pc, at >>

DivRoundUp(a, b) == (a + b - 1) \div b                     \* jdiv_round_up
MaxOf(comps, f) == Max({ comps[i][f] : i \in DOMAIN comps })

\* The transforms that exchange rows and columns.
Transposes(transform) ==
  transform \in {"transpose", "transverse", "rot_90", "rot_270"}
NeedsRight(transform) == transform \in {"flip_h", "transverse", "rot_90", "rot_180"}
NeedsBottom(transform) == transform \in {"flip_v", "transverse", "rot_270", "rot_180"}

-----------------------------------------------------------------------------
(* Blocks.  The sign of coefficient (row r, column c) by parities.         *)

Parity == (0..1) \X (0..1)
Sign(flipx, flipy) ==
  [p \in Parity |-> (IF flipx /\ p[2] = 1 THEN -1 ELSE 1)
                  * (IF flipy /\ p[1] = 1 THEN -1 ELSE 1)]
Plain == Sign(FALSE, FALSE)
Block(x, y) == [x |-> x, y |-> y, t |-> FALSE, sign |-> Plain]
Garbage == [x |-> -1, y |-> -1, t |-> FALSE, sign |-> Plain]

\* The virtual arrays of jmemmgr.c: rows, columns, the most rows an access
\* may take, and the blocks, which nothing clears.
Array(rows, cols, most) ==
  [rows |-> rows, cols |-> cols, most |-> most,
   block |-> [y \in 0..rows-1 |-> [x \in 0..cols-1 |-> Garbage]]]

Accessible(a, start, n) == start >= 0 /\ n <= a.most /\ start + n <= a.rows

\* What lies in column x of row y, inside the array or not.
Fetch(a, y, x) == IF x \in 0..a.cols-1 THEN a.block[y][x] ELSE Garbage

\* The coefficient arrays jpeg_read_coefficients fills: whole iMCUs, the
\* blocks past the picture included.
SourceArray(im, i) ==
  LET c == im.comps[i]
      rows == DivRoundUp(im.height * c.v, MaxOf(im.comps, "v") * BlockSize)
      cols == DivRoundUp(im.width * c.h, MaxOf(im.comps, "h") * BlockSize)
      array == Array(DivRoundUp(rows, c.v) * c.v, DivRoundUp(cols, c.h) * c.h, c.v)
  IN  [array EXCEPT !.block = [y \in 0..array.rows-1 |->
                                 [x \in 0..array.cols-1 |-> Block(x, y)]]]

-----------------------------------------------------------------------------
(* jtransform_request_workspace.                                           *)

\* jtransform_perfect_transform.
Perfect(width, height, mcuw, mcuh, transform) ==
  /\ transform \in {"flip_h", "rot_270", "transverse", "rot_180"} => width % mcuw = 0
  /\ transform \in {"flip_v", "rot_90", "transverse", "rot_180"} => height % mcuh = 0

ForcesGray(im, r) == r.gray /\ Len(im.comps) > 1
NumComponents(im, r) == IF ForcesGray(im, r) THEN 1 ELSE Len(im.comps)

\* Size in samples of an iMCU of the source, and of one of the destination.
McuWidth(im, n) == (IF n = 1 THEN 1 ELSE MaxOf(im.comps, "h")) * BlockSize
McuHeight(im, n) == (IF n = 1 THEN 1 ELSE MaxOf(im.comps, "v")) * BlockSize

\* The crop along one axis: `full' is the picture, `mcu' the iMCU, c the
\* request (size and offset, each unset, "pos" and so on).  An empty set is
\* JERR_BAD_CROP_SPEC.
CropAxis(full, mcu, c) ==
  LET offset == IF c.oset = "unset" THEN 0 ELSE c.offset
      size == IF c.sset = "unset" THEN full - offset ELSE c.size
      start == IF c.oset = "neg" THEN full - size - offset ELSE offset
  IN  IF offset >= full \/ size <= 0 \/ size > full \/ offset > full - size THEN {}
      ELSE { [size |-> IF c.sset = "force" THEN size ELSE size + (start % mcu),
              offset |-> start \div mcu] }

\* trim_right_edge and trim_bottom_edge.
Trimmed(axis, full, mcu) ==
  LET n == axis.size \div mcu
  IN  IF n > 0 /\ axis.offset + n = full \div mcu
      THEN [axis EXCEPT !.size = n * mcu] ELSE axis

\* The areas the request may lead to (none: the crop is refused), before the
\* edges are trimmed.
Areas(im, r) ==
  LET n == NumComponents(im, r)
      swap == Transposes(r.transform)
      fullw == IF swap THEN im.height ELSE im.width
      fullh == IF swap THEN im.width ELSE im.height
      mcuw == IF swap THEN McuHeight(im, n) ELSE McuWidth(im, n)
      mcuh == IF swap THEN McuWidth(im, n) ELSE McuHeight(im, n)
      whole(full) == { [size |-> full, offset |-> 0] }
  IN  { [x |-> x, y |-> y, fullw |-> fullw, fullh |-> fullh, mcuw |-> mcuw, mcuh |-> mcuh] :
          x \in IF r.crop THEN CropAxis(fullw, mcuw, r.cropx) ELSE whole(fullw),
          y \in IF r.crop THEN CropAxis(fullh, mcuh, r.cropy) ELSE whole(fullh) }

NeedWorkspace(transform, x, y) ==
  CASE transform = "none"   -> x.offset # 0 \/ y.offset # 0
    [] transform = "flip_h" -> y.offset # 0
    [] OTHER                -> TRUE

RequestWorkspace ==
  /\ pc = "request"
  /\ \E r \in Requests :
       LET n == NumComponents(image, r)
       IN  IF r.perfect /\ ~Perfect(image.width, image.height, McuWidth(image, n),
                                    McuHeight(image, n), r.transform)
           THEN /\ pc' = "refused"
                /\ info' = r
                /\ UNCHANGED work
           ELSE IF Areas(image, r) = {}
           THEN /\ pc' = "error"
                /\ info' = r
                /\ UNCHANGED work
           ELSE \E a \in Areas(image, r) :
                  LET x == IF r.trim /\ NeedsRight(r.transform)
                           THEN Trimmed(a.x, a.fullw, a.mcuw) ELSE a.x
                      y == IF r.trim /\ NeedsBottom(r.transform)
                           THEN Trimmed(a.y, a.fullh, a.mcuh) ELSE a.y
                      swap == Transposes(r.transform)
                      samp(i) == IF n = 1 THEN [h |-> 1, v |-> 1]
                                 ELSE IF swap THEN [h |-> image.comps[i].v,
                                                    v |-> image.comps[i].h]
                                 ELSE image.comps[i]
                  IN  /\ info' = [transform |-> r.transform, perfect |-> r.perfect, trim |-> r.trim,
                                   gray |-> r.gray, crop |-> r.crop, n |-> n, x |-> x, y |-> y]
                      /\ work' = IF NeedWorkspace(r.transform, x, y)
                                 THEN [i \in 1..n |->
                                         Array(DivRoundUp(y.size, a.mcuh) * samp(i).v,
                                               DivRoundUp(x.size, a.mcuw) * samp(i).h,
                                               samp(i).v)]
                                 ELSE << >>
                      /\ pc' = "adjust"
  /\ UNCHANGED << image, dest, quant, srcArrays, at >>

-----------------------------------------------------------------------------
(* jtransform_adjust_parameters.                                           *)

Swapped(comps) == [i \in DOMAIN comps |-> [h |-> comps[i].v, v |-> comps[i].h]]

\* The loop of transpose_critical_parameters over one table: entry (i, j) is
\* exchanged with (j, i) for every j below i.
TransposeTable(q) ==
  [p \in DOMAIN q |-> q[<< p[2], p[1] >>]]

Adjust ==
  /\ pc = "adjust"
  /\ LET c1 == image.comps[1]
         full == c1.h = MaxOf(image.comps, "h") /\ c1.v = MaxOf(image.comps, "v")
         comps == IF info.gray \/ info.n = 1 THEN << [h |-> 1, v |-> 1] >> ELSE image.comps
         swap == Transposes(info.transform)
     IN  IF info.gray /\ ~full
         THEN /\ pc' = "error"
              /\ UNCHANGED << dest, quant >>
         ELSE /\ dest' = [width |-> info.x.size, height |-> info.y.size,
                          comps |-> IF swap THEN Swapped(comps) ELSE comps]
              /\ quant' = IF swap THEN TransposeTable(quant) ELSE quant
              /\ pc' = "execute"
  /\ UNCHANGED << image, info, srcArrays, work, at >>

-----------------------------------------------------------------------------
(* The transforms.  Component i of the destination, as the do_ routines    *)
(* see it: its sampling factors, its size in blocks (jcmaster.c), the part *)
(* whole iMCUs cover, and the crop in blocks.                              *)

Comp(i) ==
  LET c == dest.comps[i]
      maxh == MaxOf(dest.comps, "h")
      maxv == MaxOf(dest.comps, "v")
      swap == Transposes(info.transform)
  IN  [h |-> c.h, v |-> c.v,
       w |-> DivRoundUp(dest.width * c.h, maxh * BlockSize),
       ht |-> DivRoundUp(dest.height * c.v, maxv * BlockSize),
       mw |-> ((IF swap THEN image.height ELSE image.width) \div (maxh * BlockSize)) * c.h,
       mh |-> ((IF swap THEN image.width ELSE image.height) \div (maxv * BlockSize)) * c.v,
       xc |-> info.x.offset * c.h, yc |-> info.y.offset * c.v]

\* A read: the group of source rows accessed, the row of it and the column
\* taken, and what is done to the block.
Read(start, n, row, col, t, sign) ==
  [start |-> start, n |-> n, row |-> row, col |-> col, t |-> t, sign |-> sign]

\* Rows come in groups of one iMCU: the group that starts at `base', taken
\* from the mirrored place where there is one, and row k of it.
Mirrored(base, crop, m) == crop + base < m
GroupStart(base, crop, m, samp) ==
  IF Mirrored(base, crop, m) THEN m - crop - base - samp ELSE base + crop
GroupRow(base, off, crop, m, samp) ==
  IF Mirrored(base, crop, m) THEN samp - off - 1 ELSE off

DoCrop(c, x, base, off) == Read(base + c.yc, c.v, off, x + c.xc, FALSE, Plain)

DoFlipH(c, x, base, off) ==
  LET mir == c.xc + x < c.mw
  IN  Read(base + c.yc, c.v, off, IF mir THEN c.mw - c.xc - x - 1 ELSE x + c.xc,
           FALSE, Sign(mir, FALSE))

DoFlipV(c, x, base, off) ==
  Read(GroupStart(base, c.yc, c.mh, c.v), c.v, GroupRow(base, off, c.yc, c.mh, c.v),
       x + c.xc, FALSE, Sign(FALSE, Mirrored(base, c.yc, c.mh)))

DoRot180(c, x, base, off) ==
  LET mir == c.xc + x < c.mw
  IN  Read(GroupStart(base, c.yc, c.mh, c.v), c.v, GroupRow(base, off, c.yc, c.mh, c.v),
           IF mir THEN c.mw - c.xc - x - 1 ELSE x + c.xc,
           FALSE, Sign(mir, Mirrored(base, c.yc, c.mh)))

\* The transposing ones take source rows for destination columns: xbase is
\* the first column of the iMCU that x is in.
DoTranspose(c, x, base, off) ==
  LET xbase == x - (x % c.h)
  IN  Read(xbase + c.xc, c.h, x - xbase, base + off + c.yc, TRUE, Plain)

DoRot90(c, x, base, off) ==
  LET xbase == x - (x % c.h)
  IN  Read(GroupStart(xbase, c.xc, c.mw, c.h), c.h,
           GroupRow(xbase, x - xbase, c.xc, c.mw, c.h), base + off + c.yc,
           TRUE, Sign(Mirrored(xbase, c.xc, c.mw), FALSE))

DoRot270(c, x, base, off) ==
  LET xbase == x - (x % c.h)
      mir == Mirrored(base, c.yc, c.mh)
  IN  Read(xbase + c.xc, c.h, x - xbase,
           IF mir THEN c.mh - c.yc - base - off - 1 ELSE base + off + c.yc,
           TRUE, Sign(FALSE, mir))

DoTransverse(c, x, base, off) ==
  LET xbase == x - (x % c.h)
      mir == Mirrored(base, c.yc, c.mh)
  IN  Read(GroupStart(xbase, c.xc, c.mw, c.h), c.h,
           GroupRow(xbase, x - xbase, c.xc, c.mw, c.h),
           IF mir THEN c.mh - c.yc - base - off - 1 ELSE base + off + c.yc,
           TRUE, Sign(Mirrored(xbase, c.xc, c.mw), mir))

ReadFor(c, x, base, off) ==
  CASE info.transform = "none"       -> DoCrop(c, x, base, off)
    [] info.transform = "flip_h"     -> DoFlipH(c, x, base, off)
    [] info.transform = "flip_v"     -> DoFlipV(c, x, base, off)
    [] info.transform = "transpose"  -> DoTranspose(c, x, base, off)
    [] info.transform = "transverse" -> DoTransverse(c, x, base, off)
    [] info.transform = "rot_90"     -> DoRot90(c, x, base, off)
    [] info.transform = "rot_180"    -> DoRot180(c, x, base, off)
    [] OTHER                         -> DoRot270(c, x, base, off)

\* The columns of the destination a row writes: the transposing routines
\* finish the last iMCU.
Columns(c) == IF Transposes(info.transform) THEN 0..DivRoundUp(c.w, c.h) * c.h - 1 ELSE 0..c.w-1

Advance(c) ==
  IF at.row + c.v < c.ht THEN /\ at' = [at EXCEPT !.row = @ + c.v]
                              /\ UNCHANGED pc
  ELSE IF at.ci < info.n THEN /\ at' = [ci |-> at.ci + 1, row |-> 0]
                              /\ UNCHANGED pc
  ELSE /\ pc' = "done"
       /\ UNCHANGED at

\* One iMCU row of one component, from the source to the workspace.
CopyRow ==
  /\ pc = "execute"
  /\ work # << >>
  /\ LET c == Comp(at.ci)
         s == srcArrays[at.ci]
         d == work[at.ci]
         read(x, off) == ReadFor(c, x, at.row, off)
         moved(x, off) ==
           LET r == read(x, off)
               b == Fetch(s, r.start + r.row, r.col)
           IN  [b EXCEPT !.t = r.t, !.sign = r.sign]
         cols == Columns(c)
     IN  IF /\ Accessible(d, at.row, c.v)
            /\ \A x \in cols, off \in 0..c.v-1 :
                 LET r == read(x, off) IN Accessible(s, r.start, r.n)
         THEN /\ work' = [work EXCEPT ![at.ci].block =
                   [y \in DOMAIN @ |->
                      IF y \in at.row..at.row+c.v-1
                      THEN [x \in DOMAIN @[y] \cup cols |->
                              IF x \in cols THEN moved(x, y - at.row) ELSE @[y][x]]
                      ELSE @[y]]]
              /\ Advance(c)
         ELSE /\ pc' = "bad access"
              /\ UNCHANGED << work, at >>
  /\ UNCHANGED << image, info, dest, quant, srcArrays >>

\* A faulty form of FlippedRow, for the checks: blocks are copied, not exchanged.
FlippedRowCopied(c, row) ==
  [x \in DOMAIN row |-> IF 2 * x < c.mw THEN row[c.mw - x - 1] ELSE row[x]]

\* do_flip_h_no_crop: pairs of blocks exchanged inside the source, then what
\* is kept moved to the left, one block at a time.
FlippedRow(c, row) ==
  LET swapped == [x \in DOMAIN row |->
                    IF x < c.mw THEN [row[c.mw - x - 1] EXCEPT !.sign = Sign(TRUE, FALSE)]
                    ELSE row[x]]
  IN  IF c.xc = 0 THEN swapped
      ELSE [x \in DOMAIN row |-> IF x < c.w THEN swapped[x + c.xc] ELSE swapped[x]]

FlipInPlace ==
  /\ pc = "execute"
  /\ work = << >>
  /\ info.transform = "flip_h"
  /\ LET c == Comp(at.ci)
         s == srcArrays[at.ci]
     IN  IF Accessible(s, at.row, c.v) /\ c.mw <= s.cols /\ c.w + c.xc <= s.cols
         THEN /\ srcArrays' = [srcArrays EXCEPT ![at.ci].block =
                   [y \in DOMAIN @ |-> IF y \in at.row..at.row+c.v-1
                                       THEN FlippedRow(c, @[y]) ELSE @[y]]]
              /\ Advance(c)
         ELSE /\ pc' = "bad access"
              /\ UNCHANGED << srcArrays, at >>
  /\ UNCHANGED << image, info, dest, quant, work >>

\* JXFORM_NONE at the origin: the source arrays are written out as they are.
NothingToDo ==
  /\ pc = "execute"
  /\ work = << >>
  /\ info.transform = "none"
  /\ pc' = "done"
  /\ UNCHANGED << image, info, dest, quant, srcArrays, work, at >>

-----------------------------------------------------------------------------
Init ==
  /\ image \in [width : Widths, height : Heights, comps : Samplings]
  /\ info = [transform |-> "none"]
  /\ dest = [width |-> 0, height |-> 0, comps |-> << >>]
  /\ quant = [p \in (0..2) \X (0..2) |-> p]     \* three frequencies stand for eight
  /\ srcArrays = [i \in DOMAIN image.comps |-> SourceArray(image, i)]
  /\ work = << >>
  /\ pc = "request"
  /\ at = [ci |-> 1, row |-> 0]

Next == RequestWorkspace \/ Adjust \/ CopyRow \/ FlipInPlace \/ NothingToDo

Spec == Init /\ [][Next]_vars

-----------------------------------------------------------------------------
(* Properties.                                                             *)

\* The arrays that are written to the output file.
Result == IF work # << >> THEN work ELSE srcArrays

\* Type invariant.
TypeOK ==
  /\ image \in [width : Widths, height : Heights, comps : Samplings]
  /\ pc \in {"request", "adjust", "execute", "done", "refused", "error", "bad access"}
  /\ pc \in {"adjust", "execute", "done"} =>
       /\ info.n \in 1..Len(image.comps)
       /\ info.x.size >= 1 /\ info.y.size >= 1
       /\ info.x.offset >= 0 /\ info.y.offset >= 0
  /\ pc \in {"execute", "done"} => info.n = Len(dest.comps) /\ at.ci \in 1..info.n
  /\ work # << >> => DOMAIN work = 1..info.n

\* No routine reads or writes past the arrays, which are padded to whole iMCUs:
\* no access to the virtual arrays is refused, no row is written longer than it
\* was allocated, and once the transform is over every block of the output
\* came from the source (what all the do_ routines assume, transupp.c:72-74).
Inside ==
  /\ pc # "bad access"
  /\ \A i \in DOMAIN work : \A y \in DOMAIN work[i].block :
       DOMAIN work[i].block[y] = 0..work[i].cols-1
  /\ pc = "done" =>
       \A i \in 1..info.n :
         LET c == Comp(i) IN
           /\ c.ht <= Result[i].rows /\ c.w <= Result[i].cols
           /\ \A y \in 0..c.ht-1, x \in 0..c.w-1 : Result[i].block[y][x].x >= 0

\* The sample of the source that sample (px, py) of block b shows.
SampleOf(b, px, py) ==
  LET fx == IF b.sign[<< 0, 1 >>] = -1 THEN BlockSize - 1 - px ELSE px
      fy == IF b.sign[<< 1, 0 >>] = -1 THEN BlockSize - 1 - py ELSE py
  IN  << b.x * BlockSize + (IF b.t THEN fy ELSE fx),
         b.y * BlockSize + (IF b.t THEN fx ELSE fy) >>

\* Where the sample at (x, y) of a transformed plane comes from, when w and h
\* are the width and height of the transformed plane.
Origin(transform, x, y, w, h) ==
  CASE transform = "none"       -> << x, y >>
    [] transform = "flip_h"     -> << w - 1 - x, y >>
    [] transform = "flip_v"     -> << x, h - 1 - y >>
    [] transform = "rot_180"    -> << w - 1 - x, h - 1 - y >>
    [] transform = "transpose"  -> << y, x >>
    [] transform = "rot_90"     -> << y, w - 1 - x >>
    [] transform = "rot_270"    -> << h - 1 - y, x >>
    [] OTHER                    -> << h - 1 - y, w - 1 - x >>

\* The picture of component i is where the transform should put it, sample by
\* sample, in the part of it whole iMCUs cover; with "perfect" that is all of it.
PicturePlaced ==
  pc = "done" =>
    \A i \in 1..info.n :
      LET c == Comp(i)
          mirx == NeedsRight(info.transform)
          miry == NeedsBottom(info.transform)
      IN  \A y \in 0..c.ht-1, x \in 0..c.w-1 :
            LET b == Result[i].block[y][x]
            IN  (mirx => x + c.xc < c.mw) /\ (miry => y + c.yc < c.mh) =>
                  /\ b.sign[<< 1, 1 >>] = b.sign[<< 0, 1 >>] * b.sign[<< 1, 0 >>]
                  /\ b.sign[<< 0, 0 >>] = 1
                  /\ \A py, px \in {0, BlockSize - 1} :
                       SampleOf(b, px, py) =
                         Origin(info.transform, (x + c.xc) * BlockSize + px,
                                (y + c.yc) * BlockSize + py, c.mw * BlockSize, c.mh * BlockSize)

\* With "perfect", or with "trim" where there is an iMCU left to trim to, no
\* part of the output is left unmirrored.
NothingUnmirrored ==
  pc = "done" /\ (info.perfect \/ info.trim) =>
    \A i \in 1..info.n :
      LET c == Comp(i) IN
        /\ NeedsRight(info.transform) /\ (info.trim => info.x.size >= MaxOf(dest.comps, "h") * BlockSize)
             => c.xc + c.w <= c.mw
        /\ NeedsBottom(info.transform) /\ (info.trim => info.y.size >= MaxOf(dest.comps, "v") * BlockSize)
             => c.yc + c.ht <= c.mh

\* Lossless: without crop or trim every block of the source picture is in the
\* output exactly once, so that the inverse transform brings the picture back;
\* the blocks at the edges that cannot be mirrored are there too.
EveryBlockOnce ==
  pc = "done" /\ ~info.crop /\ ~info.trim =>
    \A i \in 1..info.n :
      LET c == Comp(i)
          swap == Transposes(info.transform)
          place == { << Result[i].block[y][x].x, Result[i].block[y][x].y >> :
                       x \in 0..c.w-1, y \in 0..c.ht-1 }
      IN  place = (0..(IF swap THEN c.ht ELSE c.w) - 1) \X (0..(IF swap THEN c.w ELSE c.ht) - 1)

\* A coefficient keeps its quantization step: the table of the destination has
\* at (r, c) the entry the source had where the coefficient came from.
StepKept ==
  pc = "done" =>
    \A i \in 1..info.n : \A y \in 0..Comp(i).ht-1, x \in 0..Comp(i).w-1 :
      \A p \in DOMAIN quant :
        quant[p] = IF Result[i].block[y][x].t THEN << p[2], p[1] >> ELSE p

\* All of these: the blocks of the output are where they belong.
BlocksPlaced ==
  TypeOK /\ Inside /\ PicturePlaced /\ NothingUnmirrored /\ EveryBlockOnce /\ StepKept
=============================================================================
