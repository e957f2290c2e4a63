--------------------------- MODULE FileLayoutProofs ---------------------------
(***************************************************************************)
(* What the lossless transforms and the choice of DCTs and divisors do,    *)
(* for any picture and any request, and what becomes of any scan with one  *)
(* damage.                                                                 *)
(*                                                                         *)
(* The lossless transforms: Placing is the inductive invariant.  It says   *)
(* what the request led to on each axis, how large the arrays are, which   *)
(* rows of the destination are written, and that those hold the blocks     *)
(* that belong there; that the source is untouched where it is still to be *)
(* read is what makes flipping in place right.                             *)
(*                                                                         *)
(* The divisors: Divided says what the components seen so far left in the  *)
(* tables.                                                                 *)
(*                                                                         *)
(* The damaged scans: SyncInv says which part of the file has been read,   *)
(* which marker is held, and how far the segment that is decoded can be    *)
(* from the one the file is in.                                            *)
(***************************************************************************)
EXTENDS DamagedScans, LosslessTransform, DctManager, SequenceTheorems, TLAPS

-----------------------------------------------------------------------------
(* Arithmetic                                                              *)

\* Quotient and remainder.
LEMMA DivFacts ==
  ASSUME NEW y \in Nat, NEW v \in Nat \ { 0 }
  PROVE  y \div v \in Nat /\ y % v \in 0 .. v - 1 /\ y = (y \div v) * v + (y % v)
OBVIOUS

LEMMA LessFactor ==
  ASSUME NEW a \in Int, NEW b \in Int, NEW m \in Nat \ { 0 }, a * m < b * m
  PROVE  a < b
OBVIOUS

LEMMA LeftOver ==
  ASSUME NEW d \in Int, NEW o \in Int, NEW s \in Int, NEW m \in Nat \ { 0 }, o * m + s <= d * m
  PROVE  s <= (d - o) * m
<1>1. (d - o) * m = d * m - o * m /\ d * m \in Int /\ o * m \in Int
  OBVIOUS
<1> QED  BY <1>1

LEMMA DivUnique ==
  ASSUME NEW q \in Nat, NEW v \in Nat \ { 0 }, NEW r \in 0 .. v - 1
  PROVE  (q * v + r) \div v = q /\ (q * v + r) % v = r
<1> DEFINE y == q * v + r
<1>0. y \in Nat
  OBVIOUS
<1>1. y \div v \in Nat /\ y % v \in 0 .. v - 1 /\ y = (y \div v) * v + (y % v)
  BY <1>0, DivFacts
<1> DEFINE d == y \div v
           n == y % v
<1>2. d \in Nat /\ n \in 0 .. v - 1 /\ q * v + r = d * v + n
  BY <1>1
<1> HIDE DEF d, n
<1>3. d < q + 1
  <2>1. d * v < (q + 1) * v
    BY <1>2
  <2> QED  BY <2>1, <1>2, LessFactor
<1>4. q < d + 1
  <2>1. q * v < (d + 1) * v
    BY <1>2
  <2> QED  BY <2>1, <1>2, LessFactor
<1>5. d = q /\ n = r
  BY <1>2, <1>3, <1>4
<1> QED  BY <1>5 DEF d, n

\* a in parts of m: enough of them, and no fewer would do.
LEMMA RoundUpFacts ==
  ASSUME NEW a \in Nat \ { 0 }, NEW m \in Nat \ { 0 }
  PROVE  /\ DivRoundUp(a, m) \in Nat \ { 0 }
         /\ (DivRoundUp(a, m) - 1) * m < a /\ a <= DivRoundUp(a, m) * m
<1> DEFINE q == (a + m - 1) \div m
           r == (a + m - 1) % m
<1>0. a + m - 1 \in Nat
  OBVIOUS
<1>1. q \in Nat /\ r \in 0 .. m - 1 /\ a + m - 1 = q * m + r
  BY <1>0, DivFacts
<1> HIDE DEF q, r
<1>2. q # 0
  <2> SUFFICES ASSUME q = 0 PROVE FALSE
    OBVIOUS
  <2>1. q * m = 0
    OBVIOUS
  <2> QED  BY <1>1, <2>1
<1>3. (q - 1) * m = q * m - m
  BY <1>1
<1> QED  BY <1>1, <1>2, <1>3 DEF q, r, DivRoundUp

LEMMA RoundUpLeast ==
  ASSUME NEW a \in Nat \ { 0 }, NEW m \in Nat \ { 0 }, NEW k \in Int, a <= k * m
  PROVE  DivRoundUp(a, m) <= k
<1> DEFINE t == DivRoundUp(a, m)
<1>1. t \in Nat \ { 0 } /\ (t - 1) * m < a
  BY RoundUpFacts
<1> HIDE DEF t
<1>2. (t - 1) * m < k * m
  BY <1>1
<1>3. t - 1 < k
  BY <1>1, <1>2, LessFactor
<1> QED  BY <1>1, <1>3 DEF t

\* The largest of the sampling factors.
LEMMA MaxOfFour ==
  ASSUME NEW S, S \subseteq 1..4, S # {}
  PROVE  Max(S) \in S /\ \A x \in S : x <= Max(S)
<1>1. \E m \in S : \A x \in S : m >= x
  <2>1. CASE 4 \in S
    BY <2>1
  <2>2. CASE 4 \notin S /\ 3 \in S
    BY <2>2
  <2>3. CASE 4 \notin S /\ 3 \notin S /\ 2 \in S
    BY <2>3
  <2>4. CASE 4 \notin S /\ 3 \notin S /\ 2 \notin S
    <3>1. \A x \in S : x \in 1..4 /\ x # 4 /\ x # 3 /\ x # 2
      BY <2>4
    <3>2. \A x \in S : x = 1
      BY <3>1
    <3>3. \E x : x \in S
      OBVIOUS
    <3>4. 1 \in S
      BY <3>2, <3>3
    <3> QED  BY <3>2, <3>4
  <2> QED  BY <2>1, <2>2, <2>3, <2>4
<1> QED  BY <1>1 DEF Max

-----------------------------------------------------------------------------
(* One axis                                                                *)

\* What a component is along one axis, when its blocks come samp to an iMCU of m
\* samples: its size in blocks for `size' samples that begin at iMCU `offset', the part
\* of the whole picture that whole iMCUs cover, and the offset in blocks.
BlocksOf(size, samp, m) == DivRoundUp(size * samp, m)
Covered(full, samp, m) == (full \div m) * samp

\* What the routines need of it: `extent' is what the source array has along the axis,
\* `room' what the workspace has.
Serves(samp, size, covered, crop, extent, room) ==
  /\ samp \in 1..4 /\ size \in Nat \ { 0 } /\ covered \in Nat /\ crop \in Nat
  /\ extent \in Nat /\ room \in Nat
  /\ covered % samp = 0 /\ crop % samp = 0
  /\ DivRoundUp(size, samp) * samp + crop <= extent /\ covered <= extent
  /\ DivRoundUp(size, samp) * samp <= room

LEMMA MultipleOf ==
  ASSUME NEW a \in Nat, NEW samp \in 1..4
  PROVE  (a * samp) % samp = 0 /\ a * samp \in Nat
<1>1. 0 \in 0..samp - 1
  OBVIOUS
<1>2. (a * samp + 0) % samp = 0
  BY <1>1, DivUnique
<1> QED  BY <1>2

\* What is asked lies inside the picture.
Fits(axis, full, m) ==
  /\ axis \in [size : Nat \ { 0 }, offset : Nat]
  /\ full \in Nat \ { 0 }
  /\ axis.offset * m + axis.size <= full

LEMMA AxisServes ==
  ASSUME NEW samp \in 1..4, NEW m \in Nat \ { 0 }, NEW full, NEW axis, Fits(axis, full, m),
         NEW extent \in Nat, extent >= DivRoundUp(BlocksOf(full, samp, m), samp) * samp
  PROVE  /\ Serves(samp, BlocksOf(axis.size, samp, m), Covered(full, samp, m), axis.offset * samp,
                   extent, DivRoundUp(axis.size, m) * samp)
         /\ axis.offset * samp + BlocksOf(axis.size, samp, m) <= BlocksOf(full, samp, m)
         /\ Covered(full, samp, m) <= BlocksOf(full, samp, m)
<1> DEFINE s == axis.size
           o == axis.offset
           w == BlocksOf(s, samp, m)
           b == BlocksOf(full, samp, m)
           k == DivRoundUp(s, m)
           d == full \div m
<1>0. s \in Nat \ { 0 } /\ o \in Nat /\ full \in Nat \ { 0 } /\ o * m + s <= full
  BY DEF Fits
<1>1. s * samp \in Nat \ { 0 } /\ full * samp \in Nat \ { 0 }
  BY <1>0
<1>2. w \in Nat \ { 0 } /\ (w - 1) * m < s * samp /\ s * samp <= w * m
  BY <1>1, RoundUpFacts DEF BlocksOf
<1>3. b \in Nat \ { 0 } /\ full * samp <= b * m
  BY <1>1, RoundUpFacts DEF BlocksOf
<1>4. k \in Nat \ { 0 } /\ s <= k * m
  BY <1>0, RoundUpFacts
<1>5. d \in Nat /\ d * m <= full
  BY <1>0, DivFacts
<1> HIDE DEF w, b, k, d
<1>6. o * samp + w <= b
  <2>1. (o * m + s) * samp <= full * samp
    BY <1>0
  <2>2. (o * m + s) * samp = (o * samp) * m + s * samp
    BY <1>0
  <2>3. (b - o * samp) * m = b * m - (o * samp) * m
    BY <1>0, <1>3
  <2>4. s * samp <= (b - o * samp) * m
    <3> DEFINE p == o * samp * m
               q == s * samp
               z == full * samp
    <3>1. p \in Int /\ q \in Int /\ z \in Int /\ b * m \in Int
      BY <1>0, <1>3
    <3> QED  BY <1>0, <1>3, <2>1, <2>2, <2>3, <3>1
  <2>5. b - o * samp \in Int
    BY <1>0, <1>3
  <2>6. w <= b - o * samp
    BY <1>1, <2>4, <2>5, RoundUpLeast DEF w, BlocksOf
  <2> QED  BY <1>0, <1>2, <1>3, <2>6
<1>7. d * samp <= b
  <2>1. (d * m) * samp <= full * samp
    BY <1>0, <1>5
  <2>2. (d * m) * samp = (d * samp) * m
    BY <1>5
  <2>3. (d * samp) * m < (b + 1) * m
    BY <1>0, <1>3, <1>5, <2>1, <2>2
  <2>4. d * samp < b + 1
    BY <1>3, <1>5, <2>3, LessFactor
  <2> QED  BY <1>3, <1>5, <2>4
<1>8. w <= k * samp
  <2>1. s * samp <= (k * m) * samp
    BY <1>0, <1>4
  <2>2. (k * m) * samp = (k * samp) * m
    BY <1>4
  <2>3. s * samp <= (k * samp) * m
    BY <2>1, <2>2
  <2> QED  BY <1>1, <1>4, <2>3, RoundUpLeast DEF w, BlocksOf
<1>9. DivRoundUp(w, samp) * samp + o * samp <= DivRoundUp(b, samp) * samp
  <2> DEFINE i == DivRoundUp(w, samp)
             j == DivRoundUp(b, samp)
  <2>1. i \in Nat /\ (i - 1) * samp < w
    BY <1>2, RoundUpFacts
  <2>2. j \in Nat /\ b <= j * samp
    BY <1>3, RoundUpFacts
  <2> HIDE DEF i, j
  <2>3. (i + o - 1) * samp < j * samp
    BY <1>0, <1>2, <1>3, <1>6, <2>1, <2>2
  <2>4. i + o - 1 < j
    BY <1>0, <2>1, <2>2, <2>3, LessFactor
  <2>5. (i + o) * samp <= j * samp
    BY <1>0, <2>1, <2>2, <2>4
  <2>6. (i + o) * samp = i * samp + o * samp
    BY <1>0, <2>1
  <2> QED  BY <2>5, <2>6 DEF i, j
<1>10. DivRoundUp(w, samp) <= k
  BY <1>2, <1>4, <1>8, RoundUpLeast
<1>11. DivRoundUp(w, samp) \in Nat /\ DivRoundUp(w, samp) * samp <= k * samp
  BY <1>2, <1>4, <1>10, RoundUpFacts
<1>12. b <= DivRoundUp(b, samp) * samp
  BY <1>3, RoundUpFacts
<1>13. DivRoundUp(b, samp) \in Nat
  BY <1>3, RoundUpFacts
<1>14. (d * samp) % samp = 0 /\ d * samp \in Nat /\ (o * samp) % samp = 0 /\ o * samp \in Nat
  BY <1>0, <1>5, MultipleOf
<1>15. k * samp \in Nat
  BY <1>4
<1> QED
  <2>0. extent >= DivRoundUp(b, samp) * samp
    BY DEF b
  <2>00. DivRoundUp(b, samp) * samp \in Nat
    BY <1>13
  <2>1. d * samp <= extent
    BY <1>3, <1>7, <1>12, <1>14, <2>0, <2>00
  <2>2. DivRoundUp(w, samp) * samp + o * samp <= extent
    BY <1>9, <1>11, <1>14, <2>0, <2>00
  <2>3. Serves(samp, w, d * samp, o * samp, extent, k * samp)
    BY <1>2, <1>11, <1>14, <1>15, <2>1, <2>2 DEF Serves
  <2> QED  BY <1>6, <1>7, <2>3 DEF w, b, k, d, Covered

\* Where the iMCUs cover the whole picture they cover what is asked.
LEMMA PerfectCovers ==
  ASSUME NEW samp \in 1..4, NEW m \in Nat \ { 0 }, NEW full, NEW axis, Fits(axis, full, m), full % m = 0
  PROVE  axis.offset * samp + BlocksOf(axis.size, samp, m) <= Covered(full, samp, m)
<1> DEFINE s == axis.size
           o == axis.offset
           d == full \div m
<1>0. s \in Nat \ { 0 } /\ o \in Nat /\ full \in Nat \ { 0 } /\ o * m + s <= full
  BY DEF Fits
<1>1. d \in Nat /\ full = d * m
  BY <1>0, DivFacts
<1> HIDE DEF d
<1>2. s * samp <= ((d - o) * samp) * m
  <2>1. s <= (d - o) * m
    <3>1. d \in Int /\ o \in Int /\ s \in Int
      BY <1>0, <1>1
    <3>2. o * m + s <= d * m
      BY <1>0, <1>1
    <3> QED  BY <3>1, <3>2, LeftOver
  <2>2. s * samp <= ((d - o) * m) * samp
    BY <1>0, <1>1, <2>1
  <2>3. ((d - o) * m) * samp = ((d - o) * samp) * m
    BY <1>0, <1>1
  <2> QED  BY <2>2, <2>3
<1>3. s * samp \in Nat \ { 0 } /\ (d - o) * samp \in Int
  BY <1>0, <1>1
<1>4. DivRoundUp(s * samp, m) <= (d - o) * samp /\ DivRoundUp(s * samp, m) \in Nat
  BY <1>2, <1>3, RoundUpLeast, RoundUpFacts
<1>5. (d - o) * samp = d * samp - o * samp
  BY <1>0, <1>1
<1>6. d * samp \in Int /\ o * samp \in Int
  BY <1>0, <1>1
<1> QED  BY <1>4, <1>5, <1>6 DEF BlocksOf, Covered, d

\* No iMCU that is only partly in the picture is asked for, if there is a whole one.
Trim(axis, full, m) ==
  axis.size >= m /\ axis.offset + (axis.size \div m) = full \div m => axis.size % m = 0

LEMMA TrimmedFits ==
  ASSUME NEW m \in Nat \ { 0 }, NEW full, NEW axis, Fits(axis, full, m)
  PROVE  Fits(Trimmed(axis, full, m), full, m) /\ Trim(Trimmed(axis, full, m), full, m)
<1> DEFINE s == axis.size
           o == axis.offset
           n == s \div m
           t == Trimmed(axis, full, m)
<1>0. /\ s \in Nat \ { 0 } /\ o \in Nat /\ full \in Nat \ { 0 } /\ o * m + s <= full
      /\ axis = [size |-> s, offset |-> o]
  BY DEF Fits
<1>1. n \in Nat /\ n * m <= s
  BY <1>0, DivFacts
<1>2. CASE n > 0 /\ o + n = full \div m
  <2>1. t = [size |-> n * m, offset |-> o]
    BY <1>0, <1>2 DEF Trimmed
  <2> HIDE DEF n
  <2>2. n * m \in Nat \ { 0 }
    BY <1>1, <1>2
  <2>3. o * m + n * m <= full
    <3>1. o * m \in Nat
      BY <1>0
    <3> QED  BY <1>0, <1>1, <2>2, <3>1
  <2>4. (n * m) % m = 0
    <3>1. 0 \in 0..m - 1
      OBVIOUS
    <3>2. (n * m + 0) % m = 0
      BY <1>1, <3>1, DivUnique
    <3>3. n * m + 0 = n * m
      BY <2>2
    <3> QED  BY <3>2, <3>3
  <2> QED  BY <1>0, <2>1, <2>2, <2>3, <2>4 DEF Fits, Trim
<1>3. CASE ~(n > 0 /\ o + n = full \div m)
  <2>1. t = axis
    BY <1>3 DEF Trimmed
  <2>2. s >= m => n > 0
    <3> SUFFICES ASSUME s >= m, ~(n > 0) PROVE FALSE
      OBVIOUS
    <3>1. s = n * m + (s % m) /\ s % m \in 0..m - 1
      BY <1>0, DivFacts
    <3>2. n = 0
      BY <1>1
    <3> HIDE DEF n
    <3>3. n * m = 0
      BY <3>2
    <3> QED  BY <1>0, <3>1, <3>3
  <2> QED  BY <1>3, <2>1, <2>2 DEF Trim
<1> QED  BY <1>2, <1>3

LEMMA TrimCovers ==
  ASSUME NEW samp \in 1..4, NEW m \in Nat \ { 0 }, NEW full, NEW axis, Fits(axis, full, m),
         Trim(axis, full, m), axis.size >= m
  PROVE  axis.offset * samp + BlocksOf(axis.size, samp, m) <= Covered(full, samp, m)
<1> DEFINE s == axis.size
           o == axis.offset
           d == full \div m
           n == s \div m
           r == s % m
<1>0. s \in Nat \ { 0 } /\ o \in Nat /\ full \in Nat \ { 0 } /\ o * m + s <= full
  BY DEF Fits
<1>1. d \in Nat /\ full % m \in 0..m - 1 /\ full = d * m + (full % m)
  <2>1. full \in Nat
    BY <1>0
  <2> QED  BY <2>1, DivFacts
<1>2. n \in Nat /\ r \in 0..m - 1 /\ s = n * m + r
  BY <1>0, DivFacts
<1>3. o + n = d => r = 0
  BY DEF Trim
<1> HIDE DEF d, n, r
<1>4. o + n <= d
  <2>1. o * m + n * m < d * m + m
    BY <1>0, <1>1, <1>2
  <2>2. (o + n) * m < (d + 1) * m
    BY <1>0, <1>1, <1>2, <2>1
  <2>3. o + n < d + 1
    BY <1>0, <1>1, <1>2, <2>2, LessFactor
  <2> QED  BY <1>0, <1>1, <1>2, <2>3
<1>5. s <= (d - o) * m
  <2>1. CASE o + n = d
    <3>1. s = n * m /\ n = d - o
      BY <1>0, <1>1, <1>2, <1>3, <2>1
    <3> QED  BY <3>1, <1>0
  <2>2. CASE o + n # d
    <3>0. n \in Nat /\ d \in Nat /\ o \in Nat
      BY <1>0, <1>1, <1>2
    <3>1. n + 1 <= d - o
      BY <1>4, <2>2, <3>0
    <3>2. (n + 1) * m <= (d - o) * m
      BY <1>0, <1>1, <1>2, <3>1
    <3>3. s < (n + 1) * m
      BY <1>2
    <3> QED  BY <1>0, <1>1, <1>2, <3>2, <3>3
  <2> QED  BY <2>1, <2>2
<1>6. s * samp <= ((d - o) * samp) * m
  <2>2. s * samp <= ((d - o) * m) * samp
    BY <1>0, <1>1, <1>5
  <2>3. ((d - o) * m) * samp = ((d - o) * samp) * m
    BY <1>0, <1>1
  <2> QED  BY <2>2, <2>3
<1>7. s * samp \in Nat \ { 0 } /\ (d - o) * samp \in Int
  BY <1>0, <1>1
<1>8. DivRoundUp(s * samp, m) <= (d - o) * samp /\ DivRoundUp(s * samp, m) \in Nat
  BY <1>6, <1>7, RoundUpLeast, RoundUpFacts
<1>9. (d - o) * samp = d * samp - o * samp
  BY <1>0, <1>1
<1>10. d * samp \in Int /\ o * samp \in Int
  BY <1>0, <1>1
<1> QED  BY <1>8, <1>9, <1>10 DEF BlocksOf, Covered, d

LEMMA CropFits ==
  ASSUME NEW m \in Nat \ { 0 }, NEW full \in Nat \ { 0 }, NEW c \in Axis, NEW a \in CropAxis(full, m, c)
  PROVE  Fits(a, full, m)
<1> DEFINE offset == IF c.oset = "unset" THEN 0 ELSE c.offset
           size == IF c.sset = "unset" THEN full - offset ELSE c.size
           start == IF c.oset = "neg" THEN full - size - offset ELSE offset
<1>1. offset \in Nat /\ size \in Int
  BY DEF Axis
<1>2. offset < full /\ size > 0 /\ size <= full /\ offset <= full - size
  BY <1>1 DEF CropAxis
<1>3. a = [size |-> IF c.sset = "force" THEN size ELSE size + (start % m), offset |-> start \div m]
  BY <1>1, <1>2 DEF CropAxis
<1>4. start \in Nat /\ start + size <= full
  BY <1>1, <1>2
<1> HIDE DEF start, size, offset
<1>5. start \div m \in Nat /\ start % m \in Nat /\ start = (start \div m) * m + (start % m)
  <2>1. start \div m \in Nat /\ start % m \in 0..m - 1 /\ start = (start \div m) * m + (start % m)
    BY <1>4, DivFacts
  <2> QED  BY <2>1
<1> DEFINE d == start \div m
           r == start % m
<1>6. d \in Nat /\ r \in Nat /\ start = d * m + r
  BY <1>5
<1>7. \E z \in Nat \ { 0 } : a = [size |-> z, offset |-> d] /\ z <= size + r
  <2>1. size + r \in Nat \ { 0 } /\ size \in Nat \ { 0 } /\ size <= size + r
    BY <1>1, <1>2, <1>6
  <2> HIDE DEF r, d
  <2>2. CASE c.sset = "force"
    BY <1>3, <2>1, <2>2 DEF r, d
  <2>3. CASE c.sset # "force"
    BY <1>3, <2>1, <2>3 DEF r, d
  <2> QED  BY <2>2, <2>3
<1>8. PICK z \in Nat \ { 0 } : a = [size |-> z, offset |-> d] /\ z <= size + r
  BY <1>7
<1> HIDE DEF d, r
<1>9. d * m + z <= full
  <2>1. d * m \in Nat
    BY <1>6
  <2> QED  BY <1>1, <1>4, <1>6, <1>8, <2>1
<1> QED  BY <1>6, <1>8, <1>9 DEF Fits

-----------------------------------------------------------------------------
(* Groups of rows                                                          *)

\* Where the block at q is taken from: the mirrored place where there is one.
Turned(flips, q, crop, m) == IF flips /\ q + crop < m THEN m - 1 - crop - q ELSE q + crop

\* Row k of the group at `base', when the groups are samp long: the group lies inside the
\* source, and row k of it is where Turned says.
LEMMA GroupIs ==
  ASSUME NEW samp, NEW size, NEW m, NEW crop, NEW extent, NEW room,
         Serves(samp, size, m, crop, extent, room),
         NEW base \in Nat, base % samp = 0, base + samp <= DivRoundUp(size, samp) * samp, NEW off \in 0..samp - 1
  PROVE  /\ Mirrored(base, crop, m) <=> base + off + crop < m
         /\ GroupStart(base, crop, m, samp) \in Nat
         /\ GroupStart(base, crop, m, samp) + samp <= extent
         /\ GroupStart(base, crop, m, samp) + GroupRow(base, off, crop, m, samp) = Turned(TRUE, base + off, crop, m)
         /\ base + crop + samp <= extent
<1> DEFINE z == DivRoundUp(size, samp) * samp
<1>0. /\ samp \in 1..4 /\ size \in Nat \ { 0 } /\ m \in Nat /\ crop \in Nat /\ extent \in Nat
      /\ m % samp = 0 /\ crop % samp = 0 /\ z + crop <= extent /\ m <= extent
  BY DEF Serves
<1>1. z \in Nat
  BY <1>0, RoundUpFacts
<1> HIDE DEF z
<1>2. base + samp <= z
  BY DEF z
<1>3. base + crop < m <=> base + off + crop < m
  BY <1>0
<1>4. base + crop < m => base + crop + samp <= m
  BY <1>0
<1> QED  BY <1>0, <1>1, <1>2, <1>3, <1>4 DEF Mirrored, GroupStart, GroupRow, Turned

\* Every place is in a group.
LEMMA GroupOf ==
  ASSUME NEW samp \in 1..4, NEW size \in Nat \ { 0 }, NEW x \in Nat, x < DivRoundUp(size, samp) * samp
  PROVE  /\ x - (x % samp) \in Nat /\ (x - (x % samp)) % samp = 0 /\ x % samp \in 0..samp - 1
         /\ x - (x % samp) + samp <= DivRoundUp(size, samp) * samp
<1> DEFINE r == DivRoundUp(size, samp)
<1>0. r \in Nat
  BY RoundUpFacts
<1> HIDE DEF r
<1>1. x < r * samp
  BY DEF r
<1>2. x - (x % samp) + samp <= r * samp
  BY <1>0, <1>1
<1>3. x - (x % samp) \in Nat /\ (x - (x % samp)) % samp = 0 /\ x % samp \in 0..samp - 1
  OBVIOUS
<1> QED  BY <1>2, <1>3 DEF r

-----------------------------------------------------------------------------
(* The picture, and the components of the destination                      *)

Kinds == {"none", "flip_h", "flip_v", "transpose", "transverse", "rot_90", "rot_180", "rot_270"}

ImageFacts ==
  /\ image \in [width : Widths, height : Heights, comps : Samplings]
  /\ image.width \in Nat \ { 0 } /\ image.height \in Nat \ { 0 } /\ BlockSize \in Nat \ { 0 }
  /\ Len(image.comps) \in Nat \ { 0 } /\ DOMAIN image.comps = 1..Len(image.comps)
  /\ \A i \in 1..Len(image.comps) : image.comps[i] \in [h : 1..4, v : 1..4]
  /\ MaxOf(image.comps, "h") \in 1..4 /\ MaxOf(image.comps, "v") \in 1..4
  /\ \A i \in 1..Len(image.comps) :
       image.comps[i].h <= MaxOf(image.comps, "h") /\ image.comps[i].v <= MaxOf(image.comps, "v")

LEMMA ImageIs ==
  ASSUME TransformAssumption, image \in [width : Widths, height : Heights, comps : Samplings]
  PROVE  ImageFacts
<1> DEFINE R == [h : 1..4, v : 1..4]
           n == Len(image.comps)
<1>1. image.width \in Nat \ { 0 } /\ image.height \in Nat \ { 0 } /\ BlockSize \in Nat \ { 0 }
  BY DEF TransformAssumption
<1>2. image.comps \in Seq(R) /\ image.comps # << >>
  BY DEF TransformAssumption
<1> HIDE DEF R
<1>3. n \in Nat \ { 0 } /\ DOMAIN image.comps = 1..n /\ \A i \in 1..n : image.comps[i] \in R
  BY <1>2
<1> USE DEF R
<1>4. 1 \in 1..n
  BY <1>3
<1>5. ASSUME NEW f \in {"h", "v"}
      PROVE  MaxOf(image.comps, f) \in 1..4 /\ \A i \in 1..n : image.comps[i][f] <= MaxOf(image.comps, f)
  <2> DEFINE S == { image.comps[i][f] : i \in DOMAIN image.comps }
  <2>1. \A i \in 1..n : image.comps[i][f] \in 1..4
    BY <1>3
  <2>2. S \subseteq 1..4 /\ S # {} /\ \A i \in 1..n : image.comps[i][f] \in S
    BY <1>3, <1>4, <2>1
  <2>3. MaxOf(image.comps, f) = Max(S)
    BY DEF MaxOf
  <2> HIDE DEF S
  <2> QED  BY <2>2, <2>3, MaxOfFour
<1>6. /\ MaxOf(image.comps, "h") \in 1..4 /\ \A i \in 1..n : image.comps[i]["h"] <= MaxOf(image.comps, "h")
      /\ MaxOf(image.comps, "v") \in 1..4 /\ \A i \in 1..n : image.comps[i]["v"] <= MaxOf(image.comps, "v")
  BY <1>5
<1> QED  BY <1>1, <1>3, <1>6 DEF ImageFacts

\* Component i of a destination of n components, seen as the destination is turned: its
\* sampling factors, the largest ones, and the size of the whole picture.
SampX(n, t, i) == IF n = 1 THEN 1 ELSE IF Transposes(t) THEN image.comps[i].v ELSE image.comps[i].h
SampY(n, t, i) == IF n = 1 THEN 1 ELSE IF Transposes(t) THEN image.comps[i].h ELSE image.comps[i].v
TopX(n, t) == IF n = 1 THEN 1 ELSE IF Transposes(t) THEN MaxOf(image.comps, "v") ELSE MaxOf(image.comps, "h")
TopY(n, t) == IF n = 1 THEN 1 ELSE IF Transposes(t) THEN MaxOf(image.comps, "h") ELSE MaxOf(image.comps, "v")
FullX(t) == IF Transposes(t) THEN image.height ELSE image.width
FullY(t) == IF Transposes(t) THEN image.width ELSE image.height
McuX(n, t) == TopX(n, t) * BlockSize
McuY(n, t) == TopY(n, t) * BlockSize

LEMMA SampsAre ==
  ASSUME ImageFacts, NEW n, n = 1 \/ n = Len(image.comps), NEW t, NEW i \in 1..n
  PROVE  /\ SampX(n, t, i) \in 1..4 /\ SampY(n, t, i) \in 1..4
         /\ McuX(n, t) \in Nat \ { 0 } /\ McuY(n, t) \in Nat \ { 0 }
         /\ FullX(t) \in Nat \ { 0 } /\ FullY(t) \in Nat \ { 0 }
         /\ i \in 1..Len(image.comps)
<1>1. i \in 1..Len(image.comps)
  BY DEF ImageFacts
<1>2. image.comps[i].h \in 1..4 /\ image.comps[i].v \in 1..4
  BY <1>1 DEF ImageFacts
<1>3. TopX(n, t) \in 1..4 /\ TopY(n, t) \in 1..4
  BY DEF TopX, TopY, ImageFacts
<1>4. McuX(n, t) \in Nat \ { 0 } /\ McuY(n, t) \in Nat \ { 0 }
  <2> DEFINE a == TopX(n, t)
             b == TopY(n, t)
  <2>1. a \in 1..4 /\ b \in 1..4 /\ BlockSize \in Nat \ { 0 }
    BY <1>3 DEF ImageFacts
  <2> HIDE DEF a, b
  <2>2. a * BlockSize \in Nat \ { 0 } /\ b * BlockSize \in Nat \ { 0 }
    BY <2>1
  <2> QED  BY <2>2 DEF a, b, McuX, McuY
<1>5. SampX(n, t, i) \in 1..4 /\ SampY(n, t, i) \in 1..4
  BY <1>2 DEF SampX, SampY
<1>6. FullX(t) \in Nat \ { 0 } /\ FullY(t) \in Nat \ { 0 }
  BY DEF FullX, FullY, ImageFacts
<1> QED  BY <1>1, <1>4, <1>5, <1>6

\* The source arrays.
SourceRows(i) ==
  DivRoundUp(DivRoundUp(image.height * image.comps[i].v, MaxOf(image.comps, "v") * BlockSize), image.comps[i].v)
    * image.comps[i].v
SourceCols(i) ==
  DivRoundUp(DivRoundUp(image.width * image.comps[i].h, MaxOf(image.comps, "h") * BlockSize), image.comps[i].h)
    * image.comps[i].h

\* Their extents along the axes of the destination.
ExtentX(t, i) == IF Transposes(t) THEN SourceRows(i) ELSE SourceCols(i)
ExtentY(t, i) == IF Transposes(t) THEN SourceCols(i) ELSE SourceRows(i)

LEMMA RoundUpOne ==
  ASSUME NEW z \in Nat
  PROVE  DivRoundUp(z, 1) * 1 = z
BY DEF DivRoundUp

\* A component that is alone has no more blocks than it had at full sampling.
LEMMA AloneFits ==
  ASSUME NEW full \in Nat \ { 0 }, NEW samp \in 1..4, NEW b \in Nat \ { 0 }
  PROVE  DivRoundUp(DivRoundUp(full * samp, samp * b), samp) * samp >= DivRoundUp(BlocksOf(full, 1, 1 * b), 1) * 1
<1> DEFINE t == DivRoundUp(full * samp, samp * b)
           u == DivRoundUp(full, b)
<1>1. full * samp \in Nat \ { 0 } /\ samp * b \in Nat \ { 0 }
  OBVIOUS
<1>2. t \in Nat \ { 0 } /\ full * samp <= t * (samp * b)
  BY <1>1, RoundUpFacts
<1>3. u \in Nat \ { 0 }
  BY RoundUpFacts
<1> HIDE DEF t, u
<1>4. full <= t * b
  <2>1. t * (samp * b) = (t * b) * samp
    BY <1>2
  <2> DEFINE z == t * b
  <2>2. z \in Nat /\ full * samp <= z * samp
    BY <1>2, <2>1
  <2> HIDE DEF z
  <2>3. full <= z
    BY <2>2
  <2> QED  BY <2>3 DEF z
<1>5. u <= t
  BY <1>2, <1>4, RoundUpLeast DEF u
<1>6. DivRoundUp(t, samp) \in Nat /\ t <= DivRoundUp(t, samp) * samp
  BY <1>2, RoundUpFacts
<1>7. BlocksOf(full, 1, 1 * b) = u
  BY DEF BlocksOf, u
<1>8. DivRoundUp(u, 1) * 1 = u
  BY <1>3, RoundUpOne
<1>9. DivRoundUp(t, samp) * samp >= u
  BY <1>2, <1>3, <1>5, <1>6
<1> QED  BY <1>7, <1>8, <1>9 DEF t

\* When the luminance is kept alone it has the largest sampling factors.
Alone(n) ==
  n = 1 => image.comps[1].h = MaxOf(image.comps, "h") /\ image.comps[1].v = MaxOf(image.comps, "v")

\* The source holds whole iMCUs of the destination.
LEMMA ExtentsServe ==
  ASSUME ImageFacts, NEW n, n = 1 \/ n = Len(image.comps), Alone(n), NEW t, NEW i \in 1..n
  PROVE  /\ ExtentX(t, i) \in Nat /\ ExtentY(t, i) \in Nat
         /\ ExtentX(t, i) >= DivRoundUp(BlocksOf(FullX(t), SampX(n, t, i), McuX(n, t)), SampX(n, t, i)) * SampX(n, t, i)
         /\ ExtentY(t, i) >= DivRoundUp(BlocksOf(FullY(t), SampY(n, t, i), McuY(n, t)), SampY(n, t, i)) * SampY(n, t, i)
         /\ SourceRows(i) \in Nat /\ SourceCols(i) \in Nat
<1> DEFINE h == image.comps[i].h
           v == image.comps[i].v
           maxh == MaxOf(image.comps, "h")
           maxv == MaxOf(image.comps, "v")
           cols == DivRoundUp(BlocksOf(image.width, h, maxh * BlockSize), h) * h
           rows == DivRoundUp(BlocksOf(image.height, v, maxv * BlockSize), v) * v
<1>0. /\ i \in 1..Len(image.comps) /\ h \in 1..4 /\ v \in 1..4 /\ maxh \in 1..4 /\ maxv \in 1..4
      /\ image.width \in Nat \ { 0 } /\ image.height \in Nat \ { 0 } /\ BlockSize \in Nat \ { 0 }
  BY DEF ImageFacts
<1>1. SourceRows(i) = rows /\ SourceCols(i) = cols
  BY DEF SourceRows, SourceCols, BlocksOf
<1>2. ASSUME NEW full \in Nat \ { 0 }, NEW samp \in 1..4, NEW top \in 1..4
      PROVE  DivRoundUp(BlocksOf(full, samp, top * BlockSize), samp) * samp \in Nat
  <2>1. full * samp \in Nat \ { 0 } /\ top * BlockSize \in Nat \ { 0 }
    BY <1>0
  <2>2. BlocksOf(full, samp, top * BlockSize) \in Nat \ { 0 }
    BY <2>1, RoundUpFacts DEF BlocksOf
  <2> DEFINE z == BlocksOf(full, samp, top * BlockSize)
  <2>3. z \in Nat \ { 0 }
    BY <2>2
  <2> HIDE DEF z
  <2>4. DivRoundUp(z, samp) \in Nat
    <3>1. samp \in Nat \ { 0 }
      OBVIOUS
    <3>2. DivRoundUp(z, samp) \in Nat \ { 0 }
      BY ONLY <2>3, <3>1, RoundUpFacts
    <3> QED  BY <3>2
  <2>5. DivRoundUp(z, samp) * samp \in Nat
    BY <2>4
  <2> QED  BY <2>5 DEF z
<1>3. rows \in Nat /\ cols \in Nat
  BY <1>0, <1>2
<1>4. CASE n = 1
  <2>1. i = 1 /\ h = maxh /\ v = maxv
    BY <1>4 DEF Alone
  <2>2. /\ SampX(n, t, i) = 1 /\ SampY(n, t, i) = 1
        /\ McuX(n, t) = 1 * BlockSize /\ McuY(n, t) = 1 * BlockSize
    BY <1>4 DEF SampX, SampY, McuX, McuY, TopX, TopY
  <2>3. cols >= DivRoundUp(BlocksOf(image.width, 1, 1 * BlockSize), 1) * 1
    BY <1>0, <2>1, AloneFits DEF BlocksOf
  <2>4. rows >= DivRoundUp(BlocksOf(image.height, 1, 1 * BlockSize), 1) * 1
    BY <1>0, <2>1, AloneFits DEF BlocksOf
  <2> HIDE DEF rows, cols
  <2> QED  BY <1>1, <1>3, <2>2, <2>3, <2>4 DEF ExtentX, ExtentY, FullX, FullY
<1>5. CASE n # 1
  <2>1. CASE Transposes(t)
    <3>1. SampX(n, t, i) = v /\ SampY(n, t, i) = h /\ McuX(n, t) = maxv * BlockSize /\ McuY(n, t) = maxh * BlockSize
      BY <1>5, <2>1 DEF SampX, SampY, McuX, McuY, TopX, TopY
    <3>2. FullX(t) = image.height /\ FullY(t) = image.width /\ ExtentX(t, i) = rows /\ ExtentY(t, i) = cols
      BY <1>1, <2>1 DEF FullX, FullY, ExtentX, ExtentY
    <3>3. /\ rows = DivRoundUp(BlocksOf(FullX(t), SampX(n, t, i), McuX(n, t)), SampX(n, t, i)) * SampX(n, t, i)
          /\ cols = DivRoundUp(BlocksOf(FullY(t), SampY(n, t, i), McuY(n, t)), SampY(n, t, i)) * SampY(n, t, i)
      BY <3>1, <3>2
    <3> HIDE DEF rows, cols
    <3> QED  BY <1>1, <1>3, <3>2, <3>3
  <2>2. CASE ~Transposes(t)
    <3>1. SampX(n, t, i) = h /\ SampY(n, t, i) = v /\ McuX(n, t) = maxh * BlockSize /\ McuY(n, t) = maxv * BlockSize
      BY <1>5, <2>2 DEF SampX, SampY, McuX, McuY, TopX, TopY
    <3>2. FullX(t) = image.width /\ FullY(t) = image.height /\ ExtentX(t, i) = cols /\ ExtentY(t, i) = rows
      BY <1>1, <2>2 DEF FullX, FullY, ExtentX, ExtentY
    <3>3. /\ cols = DivRoundUp(BlocksOf(FullX(t), SampX(n, t, i), McuX(n, t)), SampX(n, t, i)) * SampX(n, t, i)
          /\ rows = DivRoundUp(BlocksOf(FullY(t), SampY(n, t, i), McuY(n, t)), SampY(n, t, i)) * SampY(n, t, i)
      BY <3>1, <3>2
    <3> HIDE DEF rows, cols
    <3> QED  BY <1>1, <1>3, <3>2, <3>3
  <2> QED  BY <2>1, <2>2
<1> QED  BY <1>4, <1>5

-----------------------------------------------------------------------------
(* What has been asked, and what the steps keep                            *)

AxisFacts(axis, full, m, needed) ==
  /\ Fits(axis, full, m)
  /\ info.perfect /\ needed => full % m = 0
  /\ info.trim /\ needed => Trim(axis, full, m)
  /\ ~info.crop /\ ~info.trim => axis = [size |-> full, offset |-> 0]

Asked ==
  /\ info.transform \in Kinds
  /\ info.n = 1 \/ info.n = Len(image.comps)
  /\ info.gray \/ info.n = Len(image.comps)
  /\ info.gray => info.n = 1
  /\ AxisFacts(info.x, FullX(info.transform), McuX(info.n, info.transform), NeedsRight(info.transform))
  /\ AxisFacts(info.y, FullY(info.transform), McuY(info.n, info.transform), NeedsBottom(info.transform))

\* Component i as the destination has it, and its workspace.
PartX(i) == SampX(info.n, info.transform, i)
PartY(i) == SampY(info.n, info.transform, i)
ImcuX == McuX(info.n, info.transform)
ImcuY == McuY(info.n, info.transform)
RoomX(i) == DivRoundUp(info.x.size, ImcuX) * PartX(i)
RoomY(i) == DivRoundUp(info.y.size, ImcuY) * PartY(i)
HeightOf(i) == BlocksOf(info.y.size, PartY(i), ImcuY)

\* An array of so many rows and columns.
Shaped(a, rows, cols, most) ==
  /\ a = [rows |-> rows, cols |-> cols, most |-> most, block |-> a.block]
  /\ a.block = [y \in 0..rows - 1 |-> [x \in 0..cols - 1 |-> a.block[y][x]]]

Workspace ==
  IF NeedWorkspace(info.transform, info.x, info.y)
  THEN /\ work = [i \in 1..info.n |-> work[i]]
       /\ \A i \in 1..info.n : Shaped(work[i], RoomY(i), RoomX(i), PartY(i))
  ELSE work = << >>

Source ==
  /\ srcArrays = [i \in 1..Len(image.comps) |-> srcArrays[i]]
  /\ \A i \in 1..Len(image.comps) :
       Shaped(srcArrays[i], SourceRows(i), SourceCols(i), image.comps[i].v)

\* Row y of component i is as the file had it.
Original(i, y) == \A x \in 0..SourceCols(i) - 1 : srcArrays[i].block[y][x] = Block(x, y)

\* The parameters of the destination.
Adjusted ==
  /\ dest = [width |-> info.x.size, height |-> info.y.size, comps |-> dest.comps]
  /\ dest.comps = [i \in 1..info.n |-> [h |-> PartX(i), v |-> PartY(i)]]
  /\ Alone(info.n)
  /\ quant = [p \in (0..2) \X (0..2) |-> IF Transposes(info.transform) THEN << p[2], p[1] >> ELSE p]

\* The block that belongs at (x, y) of component c.
Belongs(c, x, y) ==
  LET right == NeedsRight(info.transform)
      bottom == NeedsBottom(info.transform)
      swap == Transposes(info.transform)
      u == Turned(right, x, c.xc, c.mw)
      v == Turned(bottom, y, c.yc, c.mh)
  IN  [x |-> IF swap THEN v ELSE u, y |-> IF swap THEN u ELSE v, t |-> swap,
       sign |-> Sign(right /\ x + c.xc < c.mw, bottom /\ y + c.yc < c.mh)]

RowPlaced(i, y) == \A x \in 0..Comp(i).w - 1 : Result[i].block[y][x] = Belongs(Comp(i), x, y)

\* The place in the destination.
Target ==
  /\ at = [ci |-> at.ci, row |-> at.row] /\ at.ci \in 1..info.n /\ at.row \in Nat
  /\ at.row % PartY(at.ci) = 0
  /\ at.row < HeightOf(at.ci)

\* The row has been written.
Written(i, y) == pc = "done" \/ i < at.ci \/ (i = at.ci /\ y < at.row)

\* The inductive invariant.
Placing ==
  /\ image \in [width : Widths, height : Heights, comps : Samplings]
  /\ pc \in {"request", "adjust", "execute", "done", "refused", "error"}
  /\ Source
  /\ pc \in {"request", "refused"} => work = << >>
  /\ pc = "error" =>
       work = << >> \/ (DOMAIN work = 1..info.n /\
         \A i \in 1..info.n : \A y \in DOMAIN work[i].block : DOMAIN work[i].block[y] = 0..work[i].cols - 1)
  /\ pc \in {"request", "adjust"} =>
       /\ at = [ci |-> 1, row |-> 0] /\ quant = [p \in (0..2) \X (0..2) |-> p]
       /\ \A i \in 1..Len(image.comps) : \A y \in 0..SourceRows(i) - 1 : Original(i, y)
  /\ pc \in {"adjust", "execute", "done"} => Asked /\ Workspace
  /\ pc \in {"execute", "done"} =>
       /\ Adjusted /\ Target
       /\ \A i \in 1..info.n : \A y \in Nat : y < Comp(i).ht /\ Written(i, y) => RowPlaced(i, y)
  /\ pc = "execute" =>
       \A i \in 1..Len(image.comps) : \A y \in 0..SourceRows(i) - 1 :
         work # << >> \/ info.transform = "none" \/ ~Written(i, y) => Original(i, y)

-----------------------------------------------------------------------------
(* A component of the destination                                          *)

LEMMA MaxOfOne ==
  ASSUME NEW x \in Int
  PROVE  Max({ x }) = x
BY DEF Max

LEMMA TopsAre ==
  ASSUME ImageFacts, Asked, Adjusted
  PROVE  /\ MaxOf(dest.comps, "h") = TopX(info.n, info.transform)
         /\ MaxOf(dest.comps, "v") = TopY(info.n, info.transform)
<1> DEFINE n == info.n
           t == info.transform
           H == { dest.comps[j]["h"] : j \in DOMAIN dest.comps }
           V == { dest.comps[j]["v"] : j \in DOMAIN dest.comps }
           h == { image.comps[j]["h"] : j \in DOMAIN image.comps }
           v == { image.comps[j]["v"] : j \in DOMAIN image.comps }
<1>0. DOMAIN dest.comps = 1..n /\ \A j \in 1..n : dest.comps[j] = [h |-> PartX(j), v |-> PartY(j)]
  BY DEF Adjusted
<1>1. \A j \in 1..n : dest.comps[j]["h"] = PartX(j) /\ dest.comps[j]["v"] = PartY(j)
  <2> HIDE DEF H, V, h, v
  <2>1. ASSUME NEW j \in 1..n
        PROVE  dest.comps[j]["h"] = PartX(j) /\ dest.comps[j]["v"] = PartY(j)
    <3>1. dest.comps[j] = [h |-> PartX(j), v |-> PartY(j)]
      BY <1>0
    <3> QED  BY <3>1
  <2> QED  BY <2>1
<1>2. CASE n = 1
  <2>1. H = { 1 } /\ V = { 1 }
    BY <1>0, <1>1, <1>2 DEF PartX, PartY, SampX, SampY
  <2> HIDE DEF H, V
  <2>2. Max(H) = 1 /\ Max(V) = 1
    BY <2>1, MaxOfOne
  <2> QED  BY <1>2, <2>2 DEF MaxOf, H, V, TopX, TopY
<1>3. CASE n # 1
  <2>1. n = Len(image.comps) /\ DOMAIN image.comps = 1..n
    BY <1>3 DEF Asked, ImageFacts
  <2>2. CASE Transposes(t)
    <3>1. H = v /\ V = h
      BY <1>0, <1>1, <1>3, <2>1, <2>2 DEF PartX, PartY, SampX, SampY
    <3> HIDE DEF H, V, h, v
    <3>2. Max(H) = Max(v) /\ Max(V) = Max(h)
      BY <3>1
    <3> QED  BY <1>3, <2>2, <3>2 DEF MaxOf, H, V, h, v, TopX, TopY
  <2>3. CASE ~Transposes(t)
    <3>1. H = h /\ V = v
      BY <1>0, <1>1, <1>3, <2>1, <2>3 DEF PartX, PartY, SampX, SampY
    <3> HIDE DEF H, V, h, v
    <3>2. Max(H) = Max(h) /\ Max(V) = Max(v)
      BY <3>1
    <3> QED  BY <1>3, <2>3, <3>2 DEF MaxOf, H, V, h, v, TopX, TopY
  <2> QED  BY <2>2, <2>3
<1> QED  BY <1>2, <1>3

LEMMA CompIs ==
  ASSUME ImageFacts, Asked, Adjusted, NEW i \in 1..info.n
  PROVE  Comp(i) = [h |-> PartX(i), v |-> PartY(i),
                    w |-> BlocksOf(info.x.size, PartX(i), ImcuX),
                    ht |-> BlocksOf(info.y.size, PartY(i), ImcuY),
                    mw |-> Covered(FullX(info.transform), PartX(i), ImcuX),
                    mh |-> Covered(FullY(info.transform), PartY(i), ImcuY),
                    xc |-> info.x.offset * PartX(i), yc |-> info.y.offset * PartY(i)]
<1>1. dest.comps[i] = [h |-> PartX(i), v |-> PartY(i)]
  BY DEF Adjusted
<1>2. dest.comps[i].h = PartX(i) /\ dest.comps[i].v = PartY(i)
  BY <1>1
<1>3. dest.width = info.x.size /\ dest.height = info.y.size
  <2>1. dest = [width |-> info.x.size, height |-> info.y.size, comps |-> dest.comps]
    BY DEF Adjusted
  <2> QED  BY <2>1
<1>4. MaxOf(dest.comps, "h") * BlockSize = ImcuX /\ MaxOf(dest.comps, "v") * BlockSize = ImcuY
  BY TopsAre DEF ImcuX, ImcuY, McuX, McuY
<1> QED  BY <1>2, <1>3, <1>4 DEF Comp, BlocksOf, Covered, FullX, FullY

\* Component i and the arrays it is read from and written to.
CompFacts(i) ==
  /\ Comp(i).h = PartX(i) /\ Comp(i).v = PartY(i)
  /\ Comp(i).w = BlocksOf(info.x.size, PartX(i), ImcuX) /\ Comp(i).ht = HeightOf(i)
  /\ Serves(Comp(i).h, Comp(i).w, Comp(i).mw, Comp(i).xc, ExtentX(info.transform, i), RoomX(i))
  /\ Serves(Comp(i).v, Comp(i).ht, Comp(i).mh, Comp(i).yc, ExtentY(info.transform, i), RoomY(i))
  /\ Comp(i).mw <= BlocksOf(FullX(info.transform), PartX(i), ImcuX)
  /\ Comp(i).mh <= BlocksOf(FullY(info.transform), PartY(i), ImcuY)
  /\ i \in 1..Len(image.comps)
  /\ SourceRows(i) \in Nat /\ SourceCols(i) \in Nat

LEMMA CompServes ==
  ASSUME ImageFacts, Asked, Adjusted, NEW i \in 1..info.n
  PROVE  CompFacts(i)
<1> DEFINE n == info.n
           t == info.transform
           c == Comp(i)
           r == [h |-> PartX(i), v |-> PartY(i),
                    w |-> BlocksOf(info.x.size, PartX(i), ImcuX),
                    ht |-> BlocksOf(info.y.size, PartY(i), ImcuY),
                    mw |-> Covered(FullX(info.transform), PartX(i), ImcuX),
                    mh |-> Covered(FullY(info.transform), PartY(i), ImcuY),
                    xc |-> info.x.offset * PartX(i), yc |-> info.y.offset * PartY(i)]
<1>0. n = 1 \/ n = Len(image.comps)
  BY DEF Asked
<1>1. /\ PartX(i) \in 1..4 /\ PartY(i) \in 1..4 /\ ImcuX \in Nat \ { 0 } /\ ImcuY \in Nat \ { 0 }
      /\ i \in 1..Len(image.comps)
  BY <1>0, SampsAre DEF PartX, PartY, ImcuX, ImcuY
<1>2. Alone(n)
  BY DEF Adjusted
<1>3. /\ ExtentX(t, i) \in Nat /\ ExtentY(t, i) \in Nat
      /\ ExtentX(t, i) >= DivRoundUp(BlocksOf(FullX(t), PartX(i), ImcuX), PartX(i)) * PartX(i)
      /\ ExtentY(t, i) >= DivRoundUp(BlocksOf(FullY(t), PartY(i), ImcuY), PartY(i)) * PartY(i)
      /\ SourceRows(i) \in Nat /\ SourceCols(i) \in Nat
  BY <1>0, <1>2, ExtentsServe DEF PartX, PartY, ImcuX, ImcuY
<1>4. Fits(info.x, FullX(t), ImcuX) /\ Fits(info.y, FullY(t), ImcuY)
  BY DEF Asked, AxisFacts, ImcuX, ImcuY
<1>5. /\ Serves(PartX(i), BlocksOf(info.x.size, PartX(i), ImcuX), Covered(FullX(t), PartX(i), ImcuX),
               info.x.offset * PartX(i), ExtentX(t, i), RoomX(i))
      /\ Covered(FullX(t), PartX(i), ImcuX) <= BlocksOf(FullX(t), PartX(i), ImcuX)
  BY <1>1, <1>3, <1>4, AxisServes DEF RoomX
<1>6. /\ Serves(PartY(i), BlocksOf(info.y.size, PartY(i), ImcuY), Covered(FullY(t), PartY(i), ImcuY),
               info.y.offset * PartY(i), ExtentY(t, i), RoomY(i))
      /\ Covered(FullY(t), PartY(i), ImcuY) <= BlocksOf(FullY(t), PartY(i), ImcuY)
  BY <1>1, <1>3, <1>4, AxisServes DEF RoomY
<1>7. c = r
  BY CompIs
<1>8. /\ c.h = PartX(i) /\ c.v = PartY(i)
      /\ c.w = BlocksOf(info.x.size, PartX(i), ImcuX) /\ c.ht = BlocksOf(info.y.size, PartY(i), ImcuY)
      /\ c.mw = Covered(FullX(t), PartX(i), ImcuX) /\ c.mh = Covered(FullY(t), PartY(i), ImcuY)
      /\ c.xc = info.x.offset * PartX(i) /\ c.yc = info.y.offset * PartY(i)
  BY <1>7
<1> QED  BY <1>1, <1>3, <1>5, <1>6, <1>8 DEF CompFacts, HeightOf

-----------------------------------------------------------------------------
(* Reads                                                                   *)

\* Where Turned leads is in the source.
LEMMA TurnedIn ==
  ASSUME NEW samp, NEW size, NEW m, NEW crop, NEW extent, NEW room,
         Serves(samp, size, m, crop, extent, room),
         NEW q \in Nat, q < DivRoundUp(size, samp) * samp, NEW flips \in BOOLEAN
  PROVE  Turned(flips, q, crop, m) \in 0..extent - 1
<1> DEFINE z == DivRoundUp(size, samp) * samp
<1>0. /\ m \in Nat /\ crop \in Nat /\ extent \in Nat /\ z + crop <= extent /\ m <= extent
  BY DEF Serves
<1>1. z \in Nat
  <2>1. samp \in Nat \ { 0 } /\ size \in Nat \ { 0 }
    BY DEF Serves
  <2>2. DivRoundUp(size, samp) \in Nat
    BY <2>1, RoundUpFacts
  <2> QED  BY <2>1, <2>2
<1>2. q < z
  OBVIOUS
<1> HIDE DEF z
<1> QED  BY <1>0, <1>1, <1>2 DEF Turned

\* What is inside the last iMCU.
LEMMA LastImcu ==
  ASSUME NEW samp, NEW size, NEW m, NEW crop, NEW extent, NEW room,
         Serves(samp, size, m, crop, extent, room)
  PROVE  /\ DivRoundUp(size, samp) * samp \in Nat /\ size <= DivRoundUp(size, samp) * samp
         /\ samp \in 1..4 /\ size \in Nat \ { 0 }
         /\ \A base \in Nat : base % samp = 0 /\ base < size => base + samp <= DivRoundUp(size, samp) * samp
<1> DEFINE r == DivRoundUp(size, samp)
<1>1. samp \in 1..4 /\ size \in Nat \ { 0 }
  BY DEF Serves
<1>2. r \in Nat \ { 0 } /\ size <= r * samp
  BY <1>1, RoundUpFacts
<1> HIDE DEF r
<1>3. r * samp \in Nat
  BY <1>1, <1>2
<1>4. ASSUME NEW base \in Nat, base % samp = 0, base < size
      PROVE  base + samp <= r * samp
  <2>1. base < r * samp
    BY <1>1, <1>2, <1>3, <1>4
  <2> HIDE DEF r
  <2> QED  BY <1>1, <1>2, <1>4, <2>1
<1> QED  BY <1>1, <1>2, <1>3, <1>4 DEF r

\* The read for column x of row base + off takes the block that belongs there, and lies in
\* the source.
Reads(i, x, base, off) ==
  LET r == ReadFor(Comp(i), x, base, off)
      b == Belongs(Comp(i), x, base + off)
  IN  /\ r.start \in Nat /\ r.n <= image.comps[i].v /\ r.start + r.n <= SourceRows(i)
      /\ r.start + r.row = b.y /\ r.col = b.x /\ r.t = b.t /\ r.sign = b.sign
      /\ b.x \in 0..SourceCols(i) - 1 /\ b.y \in 0..SourceRows(i) - 1
      /\ b = [x |-> b.x, y |-> b.y, t |-> b.t, sign |-> b.sign]

LEMMA ReadIs ==
  ASSUME ImageFacts, Asked, NEW i \in 1..info.n, CompFacts(i),
         NEW x \in Columns(Comp(i)), NEW base \in Nat, base % Comp(i).v = 0, base < Comp(i).ht,
         NEW off \in 0..Comp(i).v - 1
  PROVE  Reads(i, x, base, off)
<1> DEFINE c == Comp(i)
           t == info.transform
           h == c.h
           v == c.v
           y == base + off
           xoff == x % h
           xbase == x - xoff
           zx == DivRoundUp(c.w, h) * h
           zy == DivRoundUp(c.ht, v) * v
           ex == ExtentX(t, i)
           ey == ExtentY(t, i)
           right == Mirrored(xbase, c.xc, c.mw)
           bottom == Mirrored(base, c.yc, c.mh)
<1>0. Serves(h, c.w, c.mw, c.xc, ex, RoomX(i)) /\ Serves(v, c.ht, c.mh, c.yc, ey, RoomY(i))
  BY DEF CompFacts
<1>1. /\ zx \in Nat /\ c.w <= zx /\ h \in 1..4 /\ c.w \in Nat \ { 0 }
      /\ zy \in Nat /\ v \in 1..4 /\ c.ht \in Nat \ { 0 } /\ base + v <= zy
  BY <1>0, LastImcu
<1>2. x \in Nat /\ x < zx
  BY <1>1 DEF Columns
<1>3. y \in Nat /\ y < zy
  <2> HIDE DEF zy
  <2> QED  BY <1>1
<1>4. xbase \in Nat /\ xbase % h = 0 /\ xoff \in 0..h - 1 /\ xbase + h <= zx
  BY <1>1, <1>2, GroupOf
<1>5. x = xbase + xoff
  BY <1>1, <1>2
<1>6. /\ right <=> xbase + xoff + c.xc < c.mw
      /\ GroupStart(xbase, c.xc, c.mw, h) \in Nat
      /\ GroupStart(xbase, c.xc, c.mw, h) + h <= ex
      /\ GroupStart(xbase, c.xc, c.mw, h) + GroupRow(xbase, xoff, c.xc, c.mw, h)
           = Turned(TRUE, xbase + xoff, c.xc, c.mw)
      /\ xbase + c.xc + h <= ex
  <2> HIDE DEF xbase, xoff
  <2> QED  BY <1>0, <1>1, <1>4, GroupIs
<1>7. /\ bottom <=> y + c.yc < c.mh
      /\ GroupStart(base, c.yc, c.mh, v) \in Nat
      /\ GroupStart(base, c.yc, c.mh, v) + v <= ey
      /\ GroupStart(base, c.yc, c.mh, v) + GroupRow(base, off, c.yc, c.mh, v)
           = Turned(TRUE, y, c.yc, c.mh)
      /\ base + c.yc + v <= ey
  BY <1>0, <1>1, GroupIs
<1>8. \A f \in BOOLEAN : Turned(f, x, c.xc, c.mw) \in 0..ex - 1 /\ Turned(f, y, c.yc, c.mh) \in 0..ey - 1
  <2> HIDE DEF y, ex, ey
  <2> QED  BY <1>0, <1>2, <1>3, TurnedIn
<1>9. c.xc \in Nat /\ c.yc \in Nat /\ c.mw \in Nat /\ c.mh \in Nat /\ ex \in Nat /\ ey \in Nat
  BY <1>0 DEF Serves
<1>10. /\ ~Transposes(t) => ex = SourceCols(i) /\ ey = SourceRows(i) /\ v <= image.comps[i].v
       /\ Transposes(t) => ex = SourceRows(i) /\ ey = SourceCols(i) /\ h <= image.comps[i].v
  <2>1. h = PartX(i) /\ v = PartY(i) /\ i \in 1..Len(image.comps)
    BY DEF CompFacts
  <2>2. image.comps[i].v \in 1..4
    BY <2>1 DEF ImageFacts
  <2> QED  BY <2>1, <2>2 DEF ExtentX, ExtentY, PartX, PartY, SampX, SampY
<1>11. SourceRows(i) \in Nat /\ SourceCols(i) \in Nat
  BY DEF CompFacts
<1> HIDE DEF c, y, xoff, xbase, zx, zy, ex, ey
<1> DEFINE r == ReadFor(c, x, base, off)
           b == Belongs(c, x, y)
<1>12. r.start \in Nat /\ r.n <= image.comps[i].v /\ r.start + r.n <= SourceRows(i)
       /\ r.start + r.row = b.y /\ r.col = b.x /\ r.t = b.t /\ r.sign = b.sign
       => Reads(i, x, base, off)
  <2>1. b = [x |-> b.x, y |-> b.y, t |-> b.t, sign |-> b.sign]
    BY DEF Belongs
  <2>2. NeedsBottom(t) \in BOOLEAN /\ NeedsRight(t) \in BOOLEAN
    BY DEF NeedsBottom, NeedsRight
  <2>3. /\ b.x = IF Transposes(t) THEN Turned(NeedsBottom(t), y, c.yc, c.mh) ELSE Turned(NeedsRight(t), x, c.xc, c.mw)
        /\ b.y = IF Transposes(t) THEN Turned(NeedsRight(t), x, c.xc, c.mw) ELSE Turned(NeedsBottom(t), y, c.yc, c.mh)
    BY DEF Belongs
  <2>4. b.x \in 0..SourceCols(i) - 1 /\ b.y \in 0..SourceRows(i) - 1
    <3> HIDE DEF t, b
    <3> QED  BY <1>8, <1>10, <2>2, <2>3
  <2> QED  BY <2>1, <2>4 DEF Reads, c, y
<1>13. ASSUME ~Transposes(t), NEW s \in Nat, NEW n \in Nat, NEW w \in Int, NEW l, NEW g,
              r = [start |-> s, n |-> n, row |-> w, col |-> l, t |-> FALSE, sign |-> g],
              n <= image.comps[i].v, s + n <= SourceRows(i),
              s + w = b.y, l = b.x, g = b.sign
       PROVE  Reads(i, x, base, off)
  <2>1. b.t = FALSE
    BY <1>13 DEF Belongs
  <2> HIDE DEF b
  <2>2. r.start = s /\ r.n = n /\ r.row = w /\ r.col = l /\ r.sign = g /\ r.t = FALSE
    BY <1>13
  <2> HIDE DEF r
  <2> QED  BY <1>12, <1>13, <2>1, <2>2
<1>14. ASSUME Transposes(t), NEW s \in Nat, NEW n \in Nat, NEW w \in Int, NEW l, NEW g,
              r = [start |-> s, n |-> n, row |-> w, col |-> l, t |-> TRUE, sign |-> g],
              n <= image.comps[i].v, s + n <= SourceRows(i),
              s + w = b.y, l = b.x, g = b.sign
       PROVE  Reads(i, x, base, off)
  <2>1. b.t = TRUE
    BY <1>14 DEF Belongs
  <2> HIDE DEF b
  <2>2. r.start = s /\ r.n = n /\ r.row = w /\ r.col = l /\ r.sign = g /\ r.t = TRUE
    BY <1>14
  <2> HIDE DEF r
  <2> QED  BY <1>12, <1>14, <2>1, <2>2
<1>15. /\ x + c.xc \in Nat /\ y + c.yc \in Nat /\ base \in Nat /\ off \in Nat /\ xbase \in Nat /\ xoff \in Nat
       /\ h \in Nat /\ v \in Nat /\ base + c.yc \in Nat /\ xbase + c.xc \in Nat
       /\ base + c.yc + off = y + c.yc /\ xbase + c.xc + xoff = x + c.xc /\ base + off + c.yc = y + c.yc
       /\ x - xbase = xoff
       /\ GroupRow(xbase, xoff, c.xc, c.mw, h) \in Int /\ GroupRow(base, off, c.yc, c.mh, v) \in Int
  BY <1>1, <1>2, <1>3, <1>4, <1>5, <1>9 DEF GroupRow, y
<1>16. /\ right <=> x + c.xc < c.mw
       /\ bottom <=> y + c.yc < c.mh
       /\ c.xc + x < c.mw <=> x + c.xc < c.mw
  BY <1>2, <1>5, <1>6, <1>7, <1>9
<1>17. /\ (IF c.xc + x < c.mw THEN c.mw - c.xc - x - 1 ELSE x + c.xc) = Turned(TRUE, x, c.xc, c.mw)
       /\ (IF bottom THEN c.mh - c.yc - base - off - 1 ELSE base + off + c.yc) = Turned(TRUE, y, c.yc, c.mh)
  BY <1>2, <1>3, <1>9, <1>15, <1>16 DEF Turned, y
<1>18. /\ GroupStart(xbase, c.xc, c.mw, h) + GroupRow(xbase, xoff, c.xc, c.mw, h) = Turned(TRUE, x, c.xc, c.mw)
       /\ x - (x % h) = xbase
  BY <1>5, <1>6 DEF xbase, xoff
<1> HIDE DEF right, bottom, r, b
<1>19. CASE t = "none"
  <2>1. ~NeedsRight(t) /\ ~NeedsBottom(t) /\ ~Transposes(t)
    BY <1>19 DEF NeedsRight, NeedsBottom, Transposes
  <2>2. r = [start |-> base + c.yc, n |-> v, row |-> off, col |-> x + c.xc, t |-> FALSE,
           sign |-> Plain]
    BY <1>19, <1>15, <1>18 DEF ReadFor, DoCrop, Read, r, bottom, right
  <2>3. b.x = x + c.xc /\ b.y = y + c.yc
    BY <2>1 DEF Turned, Belongs, b
  <2>4. b.sign = Plain
    BY <1>16, <2>1 DEF Belongs, Sign, Plain, b
  <2>5. /\ base + c.yc \in Nat /\ v \in Nat /\ off \in Int
        /\ v <= image.comps[i].v /\ base + c.yc + v <= SourceRows(i)
        /\ base + c.yc + off = b.y
    BY <1>6, <1>7, <1>10, <1>15, <1>18, <2>1, <2>3
  <2>6. (x + c.xc) = b.x
    BY <1>15, <1>17, <2>3
  <2> QED  BY <1>13, <2>1, <2>2, <2>4, <2>5, <2>6
<1>20. CASE t = "flip_h"
  <2>1. NeedsRight(t) /\ ~NeedsBottom(t) /\ ~Transposes(t)
    BY <1>20 DEF NeedsRight, NeedsBottom, Transposes
  <2>2. r = [start |-> base + c.yc, n |-> v, row |-> off, col |-> IF c.xc + x < c.mw THEN c.mw - c.xc - x - 1 ELSE x + c.xc, t |-> FALSE,
           sign |-> Sign(c.xc + x < c.mw, FALSE)]
    BY <1>20, <1>15, <1>18 DEF ReadFor, DoFlipH, Read, r, bottom, right
  <2>3. b.x = Turned(TRUE, x, c.xc, c.mw) /\ b.y = y + c.yc
    BY <2>1 DEF Turned, Belongs, b
  <2>4. b.sign = Sign(c.xc + x < c.mw, FALSE)
    BY <1>16, <2>1 DEF Belongs, Sign, Plain, b
  <2>5. /\ base + c.yc \in Nat /\ v \in Nat /\ off \in Int
        /\ v <= image.comps[i].v /\ base + c.yc + v <= SourceRows(i)
        /\ base + c.yc + off = b.y
    BY <1>6, <1>7, <1>10, <1>15, <1>18, <2>1, <2>3
  <2>6. (IF c.xc + x < c.mw THEN c.mw - c.xc - x - 1 ELSE x + c.xc) = b.x
    BY <1>15, <1>17, <2>3
  <2> QED  BY <1>13, <2>1, <2>2, <2>4, <2>5, <2>6
<1>21. CASE t = "flip_v"
  <2>1. ~NeedsRight(t) /\ NeedsBottom(t) /\ ~Transposes(t)
    BY <1>21 DEF NeedsRight, NeedsBottom, Transposes
  <2>2. r = [start |-> GroupStart(base, c.yc, c.mh, v), n |-> v, row |-> GroupRow(base, off, c.yc, c.mh, v), col |-> x + c.xc, t |-> FALSE,
           sign |-> Sign(FALSE, bottom)]
    BY <1>21, <1>15, <1>18 DEF ReadFor, DoFlipV, Read, r, bottom, right
  <2>3. b.x = x + c.xc /\ b.y = Turned(TRUE, y, c.yc, c.mh)
    BY <2>1 DEF Turned, Belongs, b
  <2>4. b.sign = Sign(FALSE, bottom)
    BY <1>16, <2>1 DEF Belongs, Sign, Plain, b
  <2>5. /\ GroupStart(base, c.yc, c.mh, v) \in Nat /\ v \in Nat /\ GroupRow(base, off, c.yc, c.mh, v) \in Int
        /\ v <= image.comps[i].v /\ GroupStart(base, c.yc, c.mh, v) + v <= SourceRows(i)
        /\ GroupStart(base, c.yc, c.mh, v) + GroupRow(base, off, c.yc, c.mh, v) = b.y
    BY <1>6, <1>7, <1>10, <1>15, <1>18, <2>1, <2>3
  <2>6. (x + c.xc) = b.x
    BY <1>15, <1>17, <2>3
  <2> QED  BY <1>13, <2>1, <2>2, <2>4, <2>5, <2>6
<1>22. CASE t = "rot_180"
  <2>1. NeedsRight(t) /\ NeedsBottom(t) /\ ~Transposes(t)
    BY <1>22 DEF NeedsRight, NeedsBottom, Transposes
  <2>2. r = [start |-> GroupStart(base, c.yc, c.mh, v), n |-> v, row |-> GroupRow(base, off, c.yc, c.mh, v), col |-> IF c.xc + x < c.mw THEN c.mw - c.xc - x - 1 ELSE x + c.xc, t |-> FALSE,
           sign |-> Sign(c.xc + x < c.mw, bottom)]
    BY <1>22, <1>15, <1>18 DEF ReadFor, DoRot180, Read, r, bottom, right
  <2>3. b.x = Turned(TRUE, x, c.xc, c.mw) /\ b.y = Turned(TRUE, y, c.yc, c.mh)
    BY <2>1 DEF Turned, Belongs, b
  <2>4. b.sign = Sign(c.xc + x < c.mw, bottom)
    BY <1>16, <2>1 DEF Belongs, Sign, Plain, b
  <2>5. /\ GroupStart(base, c.yc, c.mh, v) \in Nat /\ v \in Nat /\ GroupRow(base, off, c.yc, c.mh, v) \in Int
        /\ v <= image.comps[i].v /\ GroupStart(base, c.yc, c.mh, v) + v <= SourceRows(i)
        /\ GroupStart(base, c.yc, c.mh, v) + GroupRow(base, off, c.yc, c.mh, v) = b.y
    BY <1>6, <1>7, <1>10, <1>15, <1>18, <2>1, <2>3
  <2>6. (IF c.xc + x < c.mw THEN c.mw - c.xc - x - 1 ELSE x + c.xc) = b.x
    BY <1>15, <1>17, <2>3
  <2> QED  BY <1>13, <2>1, <2>2, <2>4, <2>5, <2>6
<1>23. CASE t = "transpose"
  <2>1. ~NeedsRight(t) /\ ~NeedsBottom(t) /\ Transposes(t)
    BY <1>23 DEF NeedsRight, NeedsBottom, Transposes
  <2>2. r = [start |-> xbase + c.xc, n |-> h, row |-> xoff, col |-> base + off + c.yc, t |-> TRUE,
           sign |-> Plain]
    BY <1>23, <1>15, <1>18 DEF ReadFor, DoTranspose, Read, r, bottom, right
  <2>3. b.x = y + c.yc /\ b.y = x + c.xc
    BY <2>1 DEF Turned, Belongs, b
  <2>4. b.sign = Plain
    BY <1>16, <2>1 DEF Belongs, Sign, Plain, b
  <2>5. /\ xbase + c.xc \in Nat /\ h \in Nat /\ xoff \in Int
        /\ h <= image.comps[i].v /\ xbase + c.xc + h <= SourceRows(i)
        /\ xbase + c.xc + xoff = b.y
    BY <1>6, <1>7, <1>10, <1>15, <1>18, <2>1, <2>3
  <2>6. (base + off + c.yc) = b.x
    BY <1>15, <1>17, <2>3
  <2> QED  BY <1>14, <2>1, <2>2, <2>4, <2>5, <2>6
<1>24. CASE t = "rot_90"
  <2>1. NeedsRight(t) /\ ~NeedsBottom(t) /\ Transposes(t)
    BY <1>24 DEF NeedsRight, NeedsBottom, Transposes
  <2>2. r = [start |-> GroupStart(xbase, c.xc, c.mw, h), n |-> h, row |-> GroupRow(xbase, xoff, c.xc, c.mw, h), col |-> base + off + c.yc, t |-> TRUE,
           sign |-> Sign(right, FALSE)]
    BY <1>24, <1>15, <1>18 DEF ReadFor, DoRot90, Read, r, bottom, right
  <2>3. b.x = y + c.yc /\ b.y = Turned(TRUE, x, c.xc, c.mw)
    BY <2>1 DEF Turned, Belongs, b
  <2>4. b.sign = Sign(right, FALSE)
    BY <1>16, <2>1 DEF Belongs, Sign, Plain, b
  <2>5. /\ GroupStart(xbase, c.xc, c.mw, h) \in Nat /\ h \in Nat /\ GroupRow(xbase, xoff, c.xc, c.mw, h) \in Int
        /\ h <= image.comps[i].v /\ GroupStart(xbase, c.xc, c.mw, h) + h <= SourceRows(i)
        /\ GroupStart(xbase, c.xc, c.mw, h) + GroupRow(xbase, xoff, c.xc, c.mw, h) = b.y
    BY <1>6, <1>7, <1>10, <1>15, <1>18, <2>1, <2>3
  <2>6. (base + off + c.yc) = b.x
    BY <1>15, <1>17, <2>3
  <2> QED  BY <1>14, <2>1, <2>2, <2>4, <2>5, <2>6
<1>25. CASE t = "rot_270"
  <2>1. ~NeedsRight(t) /\ NeedsBottom(t) /\ Transposes(t)
    BY <1>25 DEF NeedsRight, NeedsBottom, Transposes
  <2>2. r = [start |-> xbase + c.xc, n |-> h, row |-> xoff, col |-> IF bottom THEN c.mh - c.yc - base - off - 1 ELSE base + off + c.yc, t |-> TRUE,
           sign |-> Sign(FALSE, bottom)]
    BY <1>25, <1>15, <1>18 DEF ReadFor, DoRot270, Read, r, bottom, right
  <2>3. b.x = Turned(TRUE, y, c.yc, c.mh) /\ b.y = x + c.xc
    BY <2>1 DEF Turned, Belongs, b
  <2>4. b.sign = Sign(FALSE, bottom)
    BY <1>16, <2>1 DEF Belongs, Sign, Plain, b
  <2>5. /\ xbase + c.xc \in Nat /\ h \in Nat /\ xoff \in Int
        /\ h <= image.comps[i].v /\ xbase + c.xc + h <= SourceRows(i)
        /\ xbase + c.xc + xoff = b.y
    BY <1>6, <1>7, <1>10, <1>15, <1>18, <2>1, <2>3
  <2>6. (IF bottom THEN c.mh - c.yc - base - off - 1 ELSE base + off + c.yc) = b.x
    BY <1>15, <1>17, <2>3
  <2> QED  BY <1>14, <2>1, <2>2, <2>4, <2>5, <2>6
<1>26. CASE t = "transverse"
  <2>1. NeedsRight(t) /\ NeedsBottom(t) /\ Transposes(t)
    BY <1>26 DEF NeedsRight, NeedsBottom, Transposes
  <2>2. r = [start |-> GroupStart(xbase, c.xc, c.mw, h), n |-> h, row |-> GroupRow(xbase, xoff, c.xc, c.mw, h), col |-> IF bottom THEN c.mh - c.yc - base - off - 1 ELSE base + off + c.yc, t |-> TRUE,
           sign |-> Sign(right, bottom)]
    BY <1>26, <1>15, <1>18 DEF ReadFor, DoTransverse, Read, r, bottom, right
  <2>3. b.x = Turned(TRUE, y, c.yc, c.mh) /\ b.y = Turned(TRUE, x, c.xc, c.mw)
    BY <2>1 DEF Turned, Belongs, b
  <2>4. b.sign = Sign(right, bottom)
    BY <1>16, <2>1 DEF Belongs, Sign, Plain, b
  <2>5. /\ GroupStart(xbase, c.xc, c.mw, h) \in Nat /\ h \in Nat /\ GroupRow(xbase, xoff, c.xc, c.mw, h) \in Int
        /\ h <= image.comps[i].v /\ GroupStart(xbase, c.xc, c.mw, h) + h <= SourceRows(i)
        /\ GroupStart(xbase, c.xc, c.mw, h) + GroupRow(xbase, xoff, c.xc, c.mw, h) = b.y
    BY <1>6, <1>7, <1>10, <1>15, <1>18, <2>1, <2>3
  <2>6. (IF bottom THEN c.mh - c.yc - base - off - 1 ELSE base + off + c.yc) = b.x
    BY <1>15, <1>17, <2>3
  <2> QED  BY <1>14, <2>1, <2>2, <2>4, <2>5, <2>6
<1> QED
  <2>1. t \in Kinds
    BY DEF Asked
  <2> QED  BY <2>1, <1>19, <1>20, <1>21, <1>22, <1>23, <1>24, <1>25, <1>26 DEF Kinds

-----------------------------------------------------------------------------
(* The steps                                                               *)

\* Once the parameters are adjusted nothing else changes them.
LEMMA StaysAsked ==
  ASSUME UNCHANGED << image, info, dest, quant >>
  PROVE  /\ \A i : Comp(i)' = Comp(i)
         /\ (Asked => Asked') /\ (Adjusted => Adjusted')
         /\ \A i : RoomX(i)' = RoomX(i) /\ RoomY(i)' = RoomY(i) /\ PartX(i)' = PartX(i) /\ PartY(i)' = PartY(i)
         /\ \A i : HeightOf(i)' = HeightOf(i)
         /\ \A i : SourceRows(i)' = SourceRows(i) /\ SourceCols(i)' = SourceCols(i)
         /\ \A c, x, y : Belongs(c, x, y)' = Belongs(c, x, y)
<1>1. \A i : Comp(i)' = Comp(i)
  BY DEF Comp, MaxOf
<1>2. Asked => Asked'
  BY DEF Asked, AxisFacts, FullX, FullY, McuX, McuY, TopX, TopY, MaxOf
<1>3. \A i : PartX(i)' = PartX(i) /\ PartY(i)' = PartY(i)
  BY DEF PartX, PartY, SampX, SampY
<1>4. ImcuX' = ImcuX /\ ImcuY' = ImcuY
  BY DEF ImcuX, ImcuY, McuX, McuY, TopX, TopY, MaxOf
<1>5. Alone(info.n) => Alone(info.n)'
  BY DEF Alone, MaxOf
<1>6. Adjusted => Adjusted'
  <2> SUFFICES ASSUME Adjusted PROVE Adjusted'
    OBVIOUS
  <2>1. dest' = dest /\ info' = info /\ quant' = quant
    OBVIOUS
  <2>2. [i \in 1..info.n |-> [h |-> PartX(i)', v |-> PartY(i)']] = [i \in 1..info.n |-> [h |-> PartX(i), v |-> PartY(i)]]
    BY <1>3
  <2> QED  BY <1>5, <2>1, <2>2 DEF Adjusted
<1>7. \A i : RoomX(i)' = RoomX(i) /\ RoomY(i)' = RoomY(i) /\ HeightOf(i)' = HeightOf(i)
  BY <1>3, <1>4 DEF RoomX, RoomY, HeightOf
<1>8. \A i : SourceRows(i)' = SourceRows(i) /\ SourceCols(i)' = SourceCols(i)
  BY DEF SourceRows, SourceCols, MaxOf
<1>9. \A c, x, y : Belongs(c, x, y)' = Belongs(c, x, y)
  BY DEF Belongs
<1> QED  BY <1>1, <1>2, <1>3, <1>6, <1>7, <1>8, <1>9

\* Going on to the next row of iMCUs, or of the next component.
LEMMA AdvanceIs ==
  ASSUME ImageFacts, Asked, Adjusted, Target, pc = "execute", UNCHANGED << image, info, dest, quant >>,
         Advance(Comp(at.ci))
  PROVE  /\ Target' /\ pc' \in {"execute", "done"}
         /\ \A i \in 1..info.n, y \in Nat : y < Comp(i).ht /\ Written(i, y)' =>
              Written(i, y) \/ (i = at.ci /\ y \in at.row..at.row + Comp(at.ci).v - 1)
         /\ pc' = "execute" => \A i \in Nat, y \in Nat : ~Written(i, y)' =>
              ~Written(i, y) /\ ~(i = at.ci /\ y \in at.row..at.row + Comp(at.ci).v - 1)
<1> DEFINE k == at.ci
           c == Comp(k)
<1>0. k \in 1..info.n /\ at.row \in Nat /\ at = [ci |-> k, row |-> at.row] /\ at.row % PartY(k) = 0
      /\ at.row < HeightOf(k) /\ info.n \in Nat
  BY DEF Target, Asked, ImageFacts
<1>1. \A i \in 1..info.n : CompFacts(i)
  BY CompServes
<1>2. \A i \in 1..info.n : /\ Comp(i).ht \in Nat \ { 0 } /\ Comp(i).v = PartY(i) /\ Comp(i).v \in 1..4
                            /\ Comp(i).ht = HeightOf(i)
  BY <1>1 DEF CompFacts, Serves
<1>3. \A i : Comp(i)' = Comp(i) /\ PartY(i)' = PartY(i) /\ HeightOf(i)' = HeightOf(i)
  BY StaysAsked
<1>4. CASE at.row + c.v < c.ht
  <2>1. at' = [at EXCEPT !.row = @ + c.v] /\ pc' = pc
    BY <1>4 DEF Advance
  <2>2. at'.ci = k /\ at'.row = at.row + c.v /\ at' = [ci |-> k, row |-> at.row + c.v]
    BY <1>0, <2>1
  <2>3. (at.row + c.v) % PartY(k) = 0 /\ at.row + c.v \in Nat
    BY <1>0, <1>2
  <2>4. Target'
    BY <1>0, <1>2, <1>3, <1>4, <2>2, <2>3 DEF Target
  <2>5. \A i \in Nat, y \in Nat : Written(i, y)' <=> i < k \/ (i = k /\ y < at.row + c.v)
    BY <2>1, <2>2 DEF Written
  <2> QED  BY <1>0, <1>2, <2>1, <2>4, <2>5 DEF Written
<1>5. CASE ~(at.row + c.v < c.ht) /\ k < info.n
  <2>1. at' = [ci |-> k + 1, row |-> 0] /\ pc' = pc
    BY <1>5 DEF Advance
  <2>2. at'.ci = k + 1 /\ at'.row = 0
    BY <2>1
  <2>3. k + 1 \in 1..info.n /\ 0 % PartY(k + 1) = 0 /\ 0 < Comp(k + 1).ht
    BY <1>0, <1>2, <1>5
  <2>4. Target'
    BY <1>2, <1>3, <2>1, <2>2, <2>3 DEF Target
  <2>5. \A i \in Nat, y \in Nat : Written(i, y)' <=> i < k + 1
    BY <2>1, <2>2 DEF Written
  <2> QED  BY <1>0, <1>2, <1>5, <2>1, <2>4, <2>5 DEF Written
<1>6. CASE ~(at.row + c.v < c.ht) /\ ~(k < info.n)
  <2>1. at' = at /\ pc' = "done"
    BY <1>6 DEF Advance
  <2>2. Target'
    BY <1>3, <2>1 DEF Target
  <2>3. ASSUME NEW i \in 1..info.n, NEW y \in Nat, y < Comp(i).ht
        PROVE  Written(i, y) \/ (i = at.ci /\ y \in at.row..at.row + Comp(at.ci).v - 1)
    BY <1>0, <1>2, <1>6, <2>3 DEF Written
  <2> QED  BY <2>1, <2>2, <2>3
<1> QED  BY <1>4, <1>5, <1>6

\* Component i is as the file had it.
Untouched(i) == \A y \in 0..SourceRows(i) - 1 : Original(i, y)

\* What CopyRow leaves in column x of row y.
Copied(c, s, base, block, x, y) ==
  IF x \in Columns(c)
  THEN LET r == ReadFor(c, x, base, y - base)
       IN  [Fetch(s, r.start + r.row, r.col) EXCEPT !.t = r.t, !.sign = r.sign]
  ELSE block[y][x]

LEMMA CopiedBelongs ==
  ASSUME ImageFacts, Asked, Source, NEW i \in 1..info.n, CompFacts(i),
         NEW x \in Columns(Comp(i)), NEW base \in Nat, base % Comp(i).v = 0, base < Comp(i).ht,
         NEW y \in base..base + Comp(i).v - 1, NEW block,
         Untouched(i)
  PROVE  Copied(Comp(i), srcArrays[i], base, block, x, y) = Belongs(Comp(i), x, y)
<1> DEFINE off == y - base
           r == ReadFor(Comp(i), x, base, off)
           b == Belongs(Comp(i), x, base + off)
<1>1. off \in 0..Comp(i).v - 1 /\ base + off = y
  <2>1. Comp(i).v \in 1..4
    BY DEF CompFacts, Serves
  <2> QED  BY <2>1
<1>2. Reads(i, x, base, off)
  <2> HIDE DEF off
  <2> QED  BY <1>1, ReadIs
<1>3. /\ r.start + r.row = b.y /\ r.col = b.x /\ r.t = b.t /\ r.sign = b.sign
      /\ b.x \in 0..SourceCols(i) - 1 /\ b.y \in 0..SourceRows(i) - 1
      /\ b = [x |-> b.x, y |-> b.y, t |-> b.t, sign |-> b.sign]
  BY <1>2 DEF Reads
<1> HIDE DEF r, b
<1>4. srcArrays[i].block[b.y][b.x] = Block(b.x, b.y)
  BY <1>3 DEF Original, Untouched
<1>5. srcArrays[i].cols = SourceCols(i)
  <2>1. Shaped(srcArrays[i], SourceRows(i), SourceCols(i), image.comps[i].v)
    BY DEF Source, CompFacts
  <2> QED  BY <2>1 DEF Shaped
<1>6. Fetch(srcArrays[i], r.start + r.row, r.col) = [x |-> b.x, y |-> b.y, t |-> FALSE, sign |-> Plain]
  BY <1>3, <1>4, <1>5 DEF Fetch, Block
<1>7. [Fetch(srcArrays[i], r.start + r.row, r.col) EXCEPT !.t = r.t, !.sign = r.sign]
        = [x |-> b.x, y |-> b.y, t |-> b.t, sign |-> b.sign]
  <2>1. [Fetch(srcArrays[i], r.start + r.row, r.col) EXCEPT !.t = r.t, !.sign = r.sign]
          = [x |-> b.x, y |-> b.y, t |-> r.t, sign |-> r.sign]
    <3> DEFINE f == Fetch(srcArrays[i], r.start + r.row, r.col)
    <3>1. f = [x |-> b.x, y |-> b.y, t |-> FALSE, sign |-> Plain]
      BY <1>6
    <3> HIDE DEF f
    <3> DEFINE g == [f EXCEPT !.t = r.t]
    <3>2. g = [x |-> b.x, y |-> b.y, t |-> r.t, sign |-> Plain]
      BY <3>1
    <3> HIDE DEF g
    <3>3. [g EXCEPT !.sign = r.sign] = [x |-> b.x, y |-> b.y, t |-> r.t, sign |-> r.sign]
      BY <3>2
    <3>4. [f EXCEPT !.t = r.t, !.sign = r.sign] = [g EXCEPT !.sign = r.sign]
      BY DEF g
    <3> QED  BY <3>3, <3>4 DEF f
  <2> QED  BY <1>3, <2>1
<1>8. b = Belongs(Comp(i), x, y)
  BY <1>1 DEF b
<1> QED  BY <1>3, <1>7, <1>8 DEF Copied, r

LEMMA CopyRowKeeps ==
  ASSUME TransformAssumption, Placing, CopyRow
  PROVE  Placing'
<1> DEFINE k == at.ci
           c == Comp(k)
           d == work[k]
           base == at.row
           fresh == [y \in DOMAIN d.block |->
                       IF y \in base..base + c.v - 1
                       THEN [x \in DOMAIN d.block[y] \cup Columns(c) |-> Copied(c, srcArrays[k], base, d.block, x, y)]
                       ELSE d.block[y]]
<1>0. /\ pc = "execute" /\ work # << >>
      /\ image' = image /\ info' = info /\ dest' = dest /\ quant' = quant /\ srcArrays' = srcArrays
      /\ UNCHANGED << image, info, dest, quant >>
  BY DEF CopyRow
<1>1. ImageFacts
  BY ImageIs DEF Placing
<1>2. Asked /\ Adjusted /\ Target /\ Source /\ Workspace
  BY <1>0 DEF Placing
<1>3. /\ work = [i \in 1..info.n |-> work[i]] /\ info.n \in Nat
      /\ \A i \in 1..info.n : Shaped(work[i], RoomY(i), RoomX(i), PartY(i))
      /\ NeedWorkspace(info.transform, info.x, info.y)
  BY <1>0, <1>1, <1>2 DEF Workspace, Asked, ImageFacts
<1>4. \A i \in 1..info.n : CompFacts(i)
  BY <1>1, <1>2, CompServes
<1>5. k \in 1..info.n /\ base \in Nat /\ base % c.v = 0 /\ base < c.ht
  BY <1>2, <1>4 DEF Target, CompFacts
<1>6. \A i \in 1..Len(image.comps) : \A y \in 0..SourceRows(i) - 1 : Original(i, y)
  BY <1>0 DEF Placing
<1>7. /\ Serves(c.h, c.w, c.mw, c.xc, ExtentX(info.transform, k), RoomX(k))
      /\ Serves(c.v, c.ht, c.mh, c.yc, ExtentY(info.transform, k), RoomY(k))
      /\ c.v = PartY(k) /\ k \in 1..Len(image.comps)
  BY <1>4, <1>5 DEF CompFacts
<1>8. /\ c.v \in 1..4 /\ c.h \in 1..4 /\ c.w \in Nat \ { 0 } /\ base + c.v <= RoomY(k) /\ RoomX(k) \in Nat /\ RoomY(k) \in Nat
      /\ c.w <= RoomX(k) /\ Columns(c) \subseteq 0..RoomX(k) - 1 /\ 0..c.w - 1 \subseteq Columns(c)
  <2> DEFINE zx == DivRoundUp(c.w, c.h) * c.h
             zy == DivRoundUp(c.ht, c.v) * c.v
  <2>1. /\ zx \in Nat /\ c.w <= zx /\ c.h \in 1..4 /\ c.w \in Nat \ { 0 }
        /\ zy \in Nat /\ c.v \in 1..4 /\ base + c.v <= zy
    BY <1>5, <1>7, LastImcu
  <2>2. zx <= RoomX(k) /\ zy <= RoomY(k) /\ RoomX(k) \in Nat /\ RoomY(k) \in Nat
    BY <1>7 DEF Serves
  <2>3. Columns(c) = 0..zx - 1 \/ Columns(c) = 0..c.w - 1
    BY DEF Columns
  <2> HIDE DEF zx, zy
  <2>4. 0..c.w - 1 \subseteq 0..zx - 1 /\ 0..zx - 1 \subseteq 0..RoomX(k) - 1
    BY <2>1, <2>2
  <2>5. Columns(c) \subseteq 0..RoomX(k) - 1 /\ 0..c.w - 1 \subseteq Columns(c)
    BY <2>3, <2>4
  <2>6. base + c.v <= RoomY(k) /\ c.w <= RoomX(k)
    BY <1>5, <2>1, <2>2
  <2> QED  BY <2>1, <2>2, <2>5, <2>6
<1>9. Shaped(d, RoomY(k), RoomX(k), PartY(k))
  BY <1>3, <1>5
<1>10. /\ Accessible(d, base, c.v)
       /\ \A x \in Columns(c), off \in 0..c.v - 1 :
            LET r == ReadFor(c, x, base, off) IN Accessible(srcArrays[k], r.start, r.n)
  <2>1. d.rows = RoomY(k) /\ d.most = c.v
    BY <1>7, <1>9 DEF Shaped
  <2>2. Accessible(d, base, c.v)
    BY <1>5, <1>8, <2>1 DEF Accessible
  <2>3. Shaped(srcArrays[k], SourceRows(k), SourceCols(k), image.comps[k].v)
    BY <1>2, <1>7 DEF Source
  <2>4. srcArrays[k].rows = SourceRows(k) /\ srcArrays[k].most = image.comps[k].v
    BY <2>3 DEF Shaped
  <2>5. ASSUME NEW x \in Columns(c), NEW off \in 0..c.v - 1
        PROVE  LET r == ReadFor(c, x, base, off) IN Accessible(srcArrays[k], r.start, r.n)
    <3>1. Reads(k, x, base, off)
      BY <1>1, <1>2, <1>4, <1>5, ReadIs
    <3> QED  BY <2>4, <3>1 DEF Reads, Accessible
  <2> QED  BY <2>2, <2>5
<1>11. work' = [work EXCEPT ![k].block = fresh] /\ Advance(c)
  BY <1>10 DEF CopyRow, Copied
<1>12. /\ work' = [i \in 1..info.n |-> work'[i]]
       /\ \A i \in 1..info.n : i # k => work'[i] = work[i]
       /\ work'[k] = [work[k] EXCEPT !.block = fresh]
  <2> HIDE DEF fresh
  <2> QED  BY <1>3, <1>5, <1>11
<1>13. /\ DOMAIN d.block = 0..RoomY(k) - 1
       /\ \A y \in 0..RoomY(k) - 1 : d.block[y] = [x \in 0..RoomX(k) - 1 |-> d.block[y][x]]
       /\ \A y \in 0..RoomY(k) - 1 : DOMAIN d.block[y] = 0..RoomX(k) - 1
  BY <1>9 DEF Shaped
<1>14. /\ fresh = [y \in 0..RoomY(k) - 1 |-> [x \in 0..RoomX(k) - 1 |-> fresh[y][x]]]
       /\ \A y \in base..base + c.v - 1 : \A x \in Columns(c) : fresh[y][x] = Belongs(c, x, y)
       /\ \A y \in 0..RoomY(k) - 1 : y \notin base..base + c.v - 1 => fresh[y] = d.block[y]
  <2>1. \A y \in 0..RoomY(k) - 1 : DOMAIN d.block[y] \cup Columns(c) = 0..RoomX(k) - 1
    BY <1>8, <1>13
  <2>2. fresh = [y \in 0..RoomY(k) - 1 |->
                   IF y \in base..base + c.v - 1
                   THEN [x \in 0..RoomX(k) - 1 |-> Copied(c, srcArrays[k], base, d.block, x, y)]
                   ELSE d.block[y]]
    BY <1>13, <2>1
  <2> HIDE DEF fresh
  <2>3. ASSUME NEW y \in 0..RoomY(k) - 1
        PROVE  fresh[y] = [x \in 0..RoomX(k) - 1 |-> fresh[y][x]]
    <3>1. CASE y \in base..base + c.v - 1
      <4>1. fresh[y] = [x \in 0..RoomX(k) - 1 |-> Copied(c, srcArrays[k], base, d.block, x, y)]
        BY <2>2, <3>1
      <4> QED  BY <4>1
    <3>2. CASE y \notin base..base + c.v - 1
      <4>1. fresh[y] = d.block[y]
        BY <2>2, <3>2
      <4> QED  BY <1>13, <4>1
    <3> QED  BY <3>1, <3>2
  <2>4. ASSUME NEW y \in base..base + c.v - 1, NEW x \in Columns(c)
        PROVE  fresh[y][x] = Belongs(c, x, y)
    <3>1. y \in 0..RoomY(k) - 1 /\ x \in 0..RoomX(k) - 1
      BY <1>5, <1>8
    <3>2. fresh[y] = [z \in 0..RoomX(k) - 1 |-> Copied(c, srcArrays[k], base, d.block, z, y)]
      BY <2>2, <3>1
    <3>3. fresh[y][x] = Copied(c, srcArrays[k], base, d.block, x, y)
      BY <3>1, <3>2
    <3>4. Copied(c, srcArrays[k], base, d.block, x, y) = Belongs(c, x, y)
      <4>1. CompFacts(k) /\ Untouched(k)
        BY <1>4, <1>5, <1>6, <1>7 DEF Untouched
      <4>2. ImageFacts /\ Asked /\ Source /\ k \in 1..info.n
        BY <1>1, <1>2, <1>5
      <4>3. base \in Nat /\ base % Comp(k).v = 0 /\ base < Comp(k).ht
        BY <1>5
      <4>4. x \in Columns(Comp(k)) /\ y \in base..base + Comp(k).v - 1
        OBVIOUS
      <4> DEFINE block == d.block
      <4> HIDE DEF k, base, block
      <4>5. Copied(Comp(k), srcArrays[k], base, block, x, y) = Belongs(Comp(k), x, y)
        BY ONLY <4>1, <4>2, <4>3, <4>4, CopiedBelongs
      <4> QED  BY <4>5 DEF block
    <3> QED  BY <3>3, <3>4
  <2>5. fresh = [y \in 0..RoomY(k) - 1 |-> fresh[y]]
    BY <2>2
  <2> QED  BY <2>2, <2>3, <2>4, <2>5
<1> HIDE DEF fresh
<1>15. /\ \A i : Comp(i)' = Comp(i)
       /\ Asked' /\ Adjusted'
       /\ \A i : RoomX(i)' = RoomX(i) /\ RoomY(i)' = RoomY(i) /\ PartX(i)' = PartX(i) /\ PartY(i)' = PartY(i)
       /\ \A i : SourceRows(i)' = SourceRows(i) /\ SourceCols(i)' = SourceCols(i)
       /\ \A z, x, y : Belongs(z, x, y)' = Belongs(z, x, y)
  BY <1>0, <1>2, StaysAsked
<1>16. Workspace'
  <2>1. NeedWorkspace(info.transform, info.x, info.y)'
    BY <1>0, <1>3
  <2>2. ASSUME NEW i \in 1..info.n
        PROVE  Shaped(work'[i], RoomY(i), RoomX(i), PartY(i))
    <3>1. CASE i # k
      BY <1>3, <1>12, <3>1
    <3>2. CASE i = k
      <4>1. work'[k] = [rows |-> RoomY(k), cols |-> RoomX(k), most |-> PartY(k), block |-> fresh]
        BY <1>9, <1>12 DEF Shaped
      <4>2. work'[k].block = fresh
        BY <4>1
      <4> QED  BY <1>14, <3>2, <4>1, <4>2 DEF Shaped
    <3> QED  BY <3>1, <3>2
  <2> QED  BY <1>0, <1>12, <1>15, <2>1, <2>2 DEF Workspace
<1>17. work' # << >>
  <2>1. DOMAIN work' = 1..info.n /\ k \in DOMAIN work'
    BY <1>5, <1>12
  <2>2. DOMAIN << >> = {}
    OBVIOUS
  <2> QED  BY <2>1, <2>2
<1>18. work'[k].block = fresh
  BY <1>9, <1>12 DEF Shaped
<1>19. Result' = work' /\ Result = work
  BY <1>0, <1>17 DEF Result
<1>20. /\ Target' /\ pc' \in {"execute", "done"}
       /\ \A i \in 1..info.n, y \in Nat : y < Comp(i).ht /\ Written(i, y)' =>
            Written(i, y) \/ (i = k /\ y \in base..base + c.v - 1)
  BY <1>0, <1>1, <1>2, <1>11, AdvanceIs
<1>21. ASSUME NEW i \in 1..info.n, NEW y \in Nat, y < Comp(i).ht, Written(i, y)'
       PROVE  RowPlaced(i, y)'
  <2>0. y \in Nat /\ y < Comp(i).ht
    BY <1>21
  <2>1. Written(i, y) \/ (i = k /\ y \in base..base + c.v - 1)
    BY <1>20, <1>21, <2>0
  <2>2. CASE i = k /\ y \in base..base + c.v - 1
    <3>1. \A x \in 0..c.w - 1 : fresh[y][x] = Belongs(c, x, y)
      BY <1>8, <1>14, <2>2
    <3> QED  BY <1>15, <1>18, <1>19, <2>2, <3>1 DEF RowPlaced
  <2>3. CASE Written(i, y) /\ ~(i = k /\ y \in base..base + c.v - 1)
    <3>1. RowPlaced(i, y)
      BY <1>0, <2>0, <2>3 DEF Placing
    <3>2. work'[i].block[y] = work[i].block[y]
      <4>1. CASE i # k
        BY <1>12, <4>1
      <4>2. CASE i = k
        <5>1. y \in 0..RoomY(k) - 1
          <6>1. c.ht <= RoomY(k)
            <7>1. c.ht <= DivRoundUp(c.ht, c.v) * c.v /\ DivRoundUp(c.ht, c.v) * c.v \in Nat /\ c.ht \in Nat
              BY <1>7, LastImcu
            <7>2. DivRoundUp(c.ht, c.v) * c.v <= RoomY(k)
              BY <1>7 DEF Serves
            <7> QED  BY <1>8, <7>1, <7>2
          <6>2. y \in Nat /\ y < c.ht /\ c.ht \in Nat /\ RoomY(k) \in Nat
            BY <1>7, <2>0, <4>2 DEF Serves
          <6> QED  BY <6>1, <6>2
        <5> QED  BY <1>14, <1>18, <2>3, <4>2, <5>1
      <4> QED  BY <4>1, <4>2
    <3> QED  BY <1>15, <1>19, <3>1, <3>2 DEF RowPlaced
  <2> QED  BY <2>1, <2>2, <2>3
<1>22. Source'
  BY <1>0, <1>2, <1>15 DEF Source
<1>23. \A i \in 1..Len(image.comps) : \A y \in 0..SourceRows(i) - 1 : Original(i, y)'
  BY <1>0, <1>6, <1>15 DEF Original
<1>24. image' \in [width : Widths, height : Heights, comps : Samplings]
  BY <1>0 DEF Placing
<1>25. \A i \in 1..info'.n : \A y \in Nat : y < Comp(i)'.ht /\ Written(i, y)' => RowPlaced(i, y)'
  BY <1>0, <1>15, <1>21
<1> QED
  BY <1>0, <1>15, <1>16, <1>20, <1>22, <1>23, <1>24, <1>25 DEF Placing

\* A row as the file had it.
OriginalRow(row, cols, y) == row = [x \in 0..cols - 1 |-> Block(x, y)]

\* A row flipped in place holds what belongs there.
LEMMA FlippedBelongs ==
  ASSUME info.transform = "flip_h", NEW cols \in Nat, NEW row, NEW y \in Nat, NEW c,
         OriginalRow(row, cols, y),
         c.mw \in Nat, c.xc \in Nat, c.yc = 0, c.w \in Nat, c.mw <= cols, c.w + c.xc <= cols
  PROVE  /\ FlippedRow(c, row) = [x \in 0..cols - 1 |-> FlippedRow(c, row)[x]]
         /\ \A x \in 0..c.w - 1 : FlippedRow(c, row)[x] = Belongs(c, x, y)
<1> DEFINE swapped == [x \in DOMAIN row |->
                         IF x < c.mw THEN [row[c.mw - x - 1] EXCEPT !.sign = Sign(TRUE, FALSE)]
                         ELSE row[x]]
           f == FlippedRow(c, row)
<1>1. f = IF c.xc = 0 THEN swapped
          ELSE [x \in DOMAIN row |-> IF x < c.w THEN swapped[x + c.xc] ELSE swapped[x]]
  BY DEF FlippedRow
<1>2. DOMAIN row = 0..cols - 1 /\ \A x \in 0..cols - 1 : row[x] = Block(x, y)
  BY DEF OriginalRow
<1>3. ASSUME NEW q \in 0..cols - 1
      PROVE  swapped[q] = [x |-> IF q < c.mw THEN c.mw - q - 1 ELSE q, y |-> y, t |-> FALSE,
                           sign |-> Sign(q < c.mw, FALSE)]
  <2>1. swapped[q] = IF q < c.mw THEN [row[c.mw - q - 1] EXCEPT !.sign = Sign(TRUE, FALSE)] ELSE row[q]
    BY <1>2
  <2>2. CASE q < c.mw
    <3> DEFINE p == c.mw - q - 1
    <3>1. p \in 0..cols - 1
      BY <2>2
    <3> HIDE DEF p
    <3>2. row[p] = [x |-> p, y |-> y, t |-> FALSE, sign |-> Plain]
      BY <1>2, <3>1 DEF Block
    <3>3. [row[p] EXCEPT !.sign = Sign(TRUE, FALSE)] = [x |-> p, y |-> y, t |-> FALSE, sign |-> Sign(TRUE, FALSE)]
      <4> DEFINE z == row[p]
                 e == Sign(TRUE, FALSE)
      <4>1. z = [x |-> p, y |-> y, t |-> FALSE, sign |-> Plain]
        BY <3>2
      <4> HIDE DEF z, e
      <4>2. [z EXCEPT !.sign = e] = [x |-> p, y |-> y, t |-> FALSE, sign |-> e]
        <5> DEFINE g == [z EXCEPT !.sign = e]
        <5>1. /\ DOMAIN g = {"x", "y", "t", "sign"} /\ g["x"] = p /\ g["y"] = y /\ g["t"] = FALSE /\ g["sign"] = e
              /\ g = [l \in {"x", "y", "t", "sign"} |-> g[l]]
          BY <4>1
        <5> HIDE DEF g
        <5>2. g = [x |-> p, y |-> y, t |-> FALSE, sign |-> e]
          BY <5>1
        <5> QED  BY <5>2 DEF g
      <4> QED  BY <4>2 DEF z, e
    <3>4. Sign(q < c.mw, FALSE) = Sign(TRUE, FALSE)
      BY <2>2 DEF Sign
    <3> HIDE DEF swapped
    <3> QED  BY <2>1, <2>2, <3>3, <3>4 DEF p
  <2>3. CASE ~(q < c.mw)
    <3>1. row[q] = [x |-> q, y |-> y, t |-> FALSE, sign |-> Plain]
      BY <1>2 DEF Block
    <3>2. Sign(q < c.mw, FALSE) = Plain
      BY <2>3 DEF Sign, Plain
    <3> HIDE DEF swapped
    <3> QED  BY <2>1, <2>3, <3>1, <3>2
  <2> QED  BY <2>2, <2>3
<1>4. DOMAIN swapped = 0..cols - 1 /\ swapped = [x \in 0..cols - 1 |-> swapped[x]]
  BY <1>2
<1> HIDE DEF swapped, f
<1>5. f = [x \in 0..cols - 1 |-> f[x]] /\ \A x \in 0..c.w - 1 : x \in 0..cols - 1 /\ f[x] = swapped[x + c.xc]
  <2>1. CASE c.xc = 0
    <3>1. f = swapped
      BY <1>1, <2>1
    <3>2. \A x \in 0..c.w - 1 : x \in 0..cols - 1 /\ x + c.xc = x
      BY <2>1
    <3> QED  BY <1>4, <3>1, <3>2
  <2>2. CASE c.xc # 0
    <3>1. f = [x \in 0..cols - 1 |-> IF x < c.w THEN swapped[x + c.xc] ELSE swapped[x]]
      BY <1>1, <1>2, <2>2
    <3>2. \A x \in 0..c.w - 1 : x \in 0..cols - 1 /\ x < c.w
      OBVIOUS
    <3> QED  BY <3>1, <3>2
  <2> QED  BY <2>1, <2>2
<1>6. ASSUME NEW x \in 0..c.w - 1
      PROVE  f[x] = Belongs(c, x, y)
  <2> DEFINE q == x + c.xc
  <2>1. q \in 0..cols - 1
    OBVIOUS
  <2>2. f[x] = [x |-> IF q < c.mw THEN c.mw - q - 1 ELSE q, y |-> y, t |-> FALSE,
                sign |-> Sign(q < c.mw, FALSE)]
    BY <1>3, <1>5, <2>1
  <2>3. NeedsRight(info.transform) /\ ~NeedsBottom(info.transform) /\ ~Transposes(info.transform)
    BY DEF NeedsRight, NeedsBottom, Transposes
  <2>4. Turned(TRUE, x, c.xc, c.mw) = IF q < c.mw THEN c.mw - q - 1 ELSE q
    <3>1. x \in Nat /\ c.xc \in Nat /\ c.mw \in Nat
      OBVIOUS
    <3>2. c.mw - 1 - c.xc - x = c.mw - (x + c.xc) - 1
      BY <3>1
    <3> QED  BY <3>2 DEF Turned
  <2>5. Turned(FALSE, y, c.yc, c.mh) = y
    BY DEF Turned
  <2>6. /\ Belongs(c, x, y).x = Turned(TRUE, x, c.xc, c.mw)
        /\ Belongs(c, x, y).y = Turned(FALSE, y, c.yc, c.mh)
        /\ Belongs(c, x, y).t = FALSE
        /\ Belongs(c, x, y) = [x |-> Belongs(c, x, y).x, y |-> Belongs(c, x, y).y, t |-> Belongs(c, x, y).t,
                               sign |-> Belongs(c, x, y).sign]
    BY <2>3 DEF Belongs, Turned
  <2>7. Belongs(c, x, y).sign = Sign(q < c.mw, FALSE)
    BY <2>3 DEF Belongs, Sign
  <2> HIDE DEF q
  <2> QED  BY <2>2, <2>4, <2>5, <2>6, <2>7
<1> QED  BY <1>5, <1>6 DEF f

\* Without a workspace the picture is flipped, or nothing is done; it begins at the top.
LEMMA InPlace ==
  ASSUME ImageFacts, Asked, Workspace, work = << >>
  PROVE  /\ info.transform \in {"none", "flip_h"} /\ info.y.offset = 0
         /\ info.transform = "none" => info.x.offset = 0
<1>1. ~NeedWorkspace(info.transform, info.x, info.y)
  <2> SUFFICES ASSUME NeedWorkspace(info.transform, info.x, info.y) PROVE FALSE
    OBVIOUS
  <2>1. work = [i \in 1..info.n |-> work[i]]
    BY DEF Workspace
  <2>2. 1 \in 1..info.n
    BY DEF Asked, ImageFacts
  <2>3. 1 \in DOMAIN work
    BY <2>1, <2>2
  <2>4. DOMAIN << >> = {}
    OBVIOUS
  <2> QED  BY <2>3, <2>4
<1> QED  BY <1>1 DEF NeedWorkspace, Asked, Kinds

LEMMA FlipInPlaceKeeps ==
  ASSUME TransformAssumption, Placing, FlipInPlace
  PROVE  Placing'
<1> DEFINE k == at.ci
           c == Comp(k)
           s == srcArrays[k]
           base == at.row
           cols == SourceCols(k)
           fresh == [y \in DOMAIN s.block |->
                       IF y \in base..base + c.v - 1 THEN FlippedRow(c, s.block[y]) ELSE s.block[y]]
<1>0. /\ pc = "execute" /\ work = << >> /\ info.transform = "flip_h"
      /\ image' = image /\ info' = info /\ dest' = dest /\ quant' = quant /\ work' = work
      /\ UNCHANGED << image, info, dest, quant >>
  BY DEF FlipInPlace
<1>1. ImageFacts
  BY ImageIs DEF Placing
<1>2. Asked /\ Adjusted /\ Target /\ Source /\ Workspace
  BY <1>0 DEF Placing
<1>3. info.y.offset = 0
  BY <1>0, <1>1, <1>2, InPlace
<1>4. \A i \in 1..info.n : CompFacts(i)
  BY <1>1, <1>2, CompServes
<1>5. k \in 1..info.n /\ base \in Nat /\ base % c.v = 0 /\ base < c.ht /\ info.n \in Nat
  BY <1>1, <1>2, <1>4 DEF Target, CompFacts, Asked, ImageFacts
<1>6. \A i \in 1..Len(image.comps) : \A y \in 0..SourceRows(i) - 1 : ~Written(i, y) => Original(i, y)
  BY <1>0 DEF Placing
<1>7. /\ Serves(c.h, c.w, c.mw, c.xc, SourceCols(k), RoomX(k))
      /\ Serves(c.v, c.ht, c.mh, c.yc, SourceRows(k), RoomY(k))
      /\ c.v = PartY(k) /\ k \in 1..Len(image.comps) /\ SourceRows(k) \in Nat /\ cols \in Nat
      /\ c.v <= image.comps[k].v
  <2>1. ~Transposes(info.transform)
    BY <1>0 DEF Transposes
  <2>2. CompFacts(k)
    BY <1>4, <1>5
  <2>3. PartY(k) <= image.comps[k].v
    <3>1. image.comps[k].v \in 1..4
      BY <1>1, <2>2 DEF ImageFacts, CompFacts
    <3> QED  BY <2>1, <3>1 DEF PartY, SampY
  <2> QED  BY <2>1, <2>2, <2>3 DEF CompFacts, ExtentX, ExtentY
<1>8. c.yc = 0
  <2>1. c.yc = info.y.offset * PartY(k)
    BY <1>1, <1>2, <1>5, CompIs
  <2>2. PartY(k) \in 1..4
    BY <1>7 DEF Serves
  <2> QED  BY <1>3, <2>1, <2>2
<1>9. /\ c.v \in 1..4 /\ c.w \in Nat \ { 0 } /\ base + c.v <= SourceRows(k) /\ c.mw \in Nat /\ c.xc \in Nat
      /\ c.mw <= cols /\ c.w + c.xc <= cols
  <2> DEFINE zx == DivRoundUp(c.w, c.h) * c.h
             zy == DivRoundUp(c.ht, c.v) * c.v
  <2>1. /\ zx \in Nat /\ c.w <= zx /\ c.w \in Nat \ { 0 }
        /\ zy \in Nat /\ c.v \in 1..4 /\ base + c.v <= zy
    BY <1>5, <1>7, LastImcu
  <2>2. zx + c.xc <= cols /\ zy + c.yc <= SourceRows(k) /\ c.mw <= cols /\ c.mw \in Nat /\ c.xc \in Nat
    BY <1>7 DEF Serves
  <2> HIDE DEF zx, zy
  <2>3. base + c.v <= SourceRows(k)
    <3>1. zy + 0 <= SourceRows(k)
      BY <1>8, <2>2
    <3>2. SourceRows(k) \in Nat /\ base \in Nat
      BY <1>5, <1>7 DEF Serves
    <3> QED  BY <2>1, <3>1, <3>2
  <2>4. c.w + c.xc <= cols
    BY <1>7, <2>1, <2>2
  <2> QED  BY <2>1, <2>2, <2>3, <2>4
<1>10. \A y \in Nat : y < base + c.v => y \in 0..SourceRows(k) - 1
  <2>1. base \in Nat /\ c.v \in 1..4 /\ base + c.v <= SourceRows(k) /\ SourceRows(k) \in Nat
    BY <1>5, <1>7, <1>9
  <2> HIDE DEF base, c
  <2> QED  BY <2>1
<1>11. \A y \in base..base + c.v - 1 : y \in Nat /\ y < base + c.v
  <2>1. base \in Nat /\ c.v \in 1..4
    BY <1>5, <1>9
  <2> HIDE DEF base, c
  <2> QED  BY <2>1
<1>12. Shaped(s, SourceRows(k), cols, image.comps[k].v)
  BY <1>2, <1>7 DEF Source
<1>13. Accessible(s, base, c.v) /\ c.mw <= s.cols /\ c.w + c.xc <= s.cols
  <2>1. s.rows = SourceRows(k) /\ s.most = image.comps[k].v /\ s.cols = cols
    BY <1>12 DEF Shaped
  <2> QED  BY <1>5, <1>7, <1>9, <2>1 DEF Accessible
<1>14. srcArrays' = [srcArrays EXCEPT ![k].block = fresh] /\ Advance(c)
  BY <1>0, <1>13 DEF FlipInPlace
<1>15. /\ srcArrays' = [i \in 1..Len(image.comps) |-> srcArrays'[i]]
       /\ \A i \in 1..Len(image.comps) : i # k => srcArrays'[i] = srcArrays[i]
       /\ srcArrays'[k] = [srcArrays[k] EXCEPT !.block = fresh]
  <2>1. srcArrays = [i \in 1..Len(image.comps) |-> srcArrays[i]]
    BY <1>2 DEF Source
  <2> HIDE DEF fresh
  <2> QED  BY <1>7, <1>14, <2>1
<1>16. /\ DOMAIN s.block = 0..SourceRows(k) - 1
       /\ \A y \in 0..SourceRows(k) - 1 : s.block[y] = [x \in 0..cols - 1 |-> s.block[y][x]]
  BY <1>12 DEF Shaped
<1>17. /\ fresh = [y \in 0..SourceRows(k) - 1 |-> [x \in 0..cols - 1 |-> fresh[y][x]]]
       /\ \A y \in base..base + c.v - 1 : \A x \in 0..c.w - 1 : fresh[y][x] = Belongs(c, x, y)
       /\ \A y \in 0..SourceRows(k) - 1 : y \notin base..base + c.v - 1 => fresh[y] = s.block[y]
  <2>1. fresh = [y \in 0..SourceRows(k) - 1 |->
                   IF y \in base..base + c.v - 1 THEN FlippedRow(c, s.block[y]) ELSE s.block[y]]
    BY <1>16
  <2> HIDE DEF fresh
  <2>2. ASSUME NEW y \in base..base + c.v - 1
        PROVE  /\ y \in 0..SourceRows(k) - 1
               /\ fresh[y] = [x \in 0..cols - 1 |-> fresh[y][x]]
               /\ \A x \in 0..c.w - 1 : fresh[y][x] = Belongs(c, x, y)
    <3>1. y \in 0..SourceRows(k) - 1 /\ y \in Nat
      BY <1>10, <1>11
    <3>2. ~Written(k, y)
      BY <1>0, <1>5, <3>1 DEF Written
    <3>3. Original(k, y)
      BY <1>6, <1>7, <3>1, <3>2
    <3>4. s.block[y] = [x \in 0..cols - 1 |-> Block(x, y)]
      BY <1>16, <3>1, <3>3 DEF Original
    <3> DEFINE row == s.block[y]
    <3> HIDE DEF row
    <3>5. /\ FlippedRow(c, row) = [x \in 0..cols - 1 |-> FlippedRow(c, row)[x]]
          /\ \A x \in 0..c.w - 1 : FlippedRow(c, row)[x] = Belongs(c, x, y)
      <4>1. OriginalRow(row, cols, y)
        BY <3>4 DEF row, OriginalRow
      <4>2. /\ info.transform = "flip_h" /\ cols \in Nat /\ y \in Nat /\ c.mw \in Nat /\ c.xc \in Nat
            /\ c.yc = 0 /\ c.w \in Nat /\ c.mw <= cols /\ c.w + c.xc <= cols
        BY <1>0, <1>7, <1>8, <1>9, <3>1
      <4> HIDE DEF c, cols
      <4> QED  BY ONLY <4>1, <4>2, FlippedBelongs
    <3>6. fresh[y] = FlippedRow(c, row)
      BY <2>1, <3>1 DEF row
    <3> QED  BY <3>1, <3>5, <3>6
  <2>3. ASSUME NEW y \in 0..SourceRows(k) - 1, y \notin base..base + c.v - 1
        PROVE  fresh[y] = s.block[y]
    BY <2>1, <2>3
  <2>4. fresh = [y \in 0..SourceRows(k) - 1 |-> fresh[y]]
    BY <2>1
  <2>5. \A y \in 0..SourceRows(k) - 1 : fresh[y] = [x \in 0..cols - 1 |-> fresh[y][x]]
    BY <1>16, <2>2, <2>3
  <2> QED  BY <2>2, <2>3, <2>4, <2>5
<1> HIDE DEF fresh
<1>18. /\ \A i : Comp(i)' = Comp(i)
       /\ Asked' /\ Adjusted'
       /\ \A i : RoomX(i)' = RoomX(i) /\ RoomY(i)' = RoomY(i) /\ PartX(i)' = PartX(i) /\ PartY(i)' = PartY(i)
       /\ \A i : SourceRows(i)' = SourceRows(i) /\ SourceCols(i)' = SourceCols(i)
       /\ \A z, x, y : Belongs(z, x, y)' = Belongs(z, x, y)
  BY <1>0, <1>2, StaysAsked
<1>19. srcArrays'[k] = [rows |-> SourceRows(k), cols |-> cols, most |-> image.comps[k].v, block |-> fresh]
       /\ srcArrays'[k].block = fresh
  BY <1>12, <1>15 DEF Shaped
<1>20. Source'
  <2>1. ASSUME NEW i \in 1..Len(image.comps)
        PROVE  Shaped(srcArrays'[i], SourceRows(i), SourceCols(i), image.comps[i].v)
    <3>1. CASE i # k
      BY <1>2, <1>15, <3>1 DEF Source
    <3>2. CASE i = k
      BY <1>17, <1>19, <3>2 DEF Shaped
    <3> QED  BY <3>1, <3>2
  <2> QED  BY <1>0, <1>15, <1>18, <2>1 DEF Source
<1>21. Workspace'
  <2>1. ~NeedWorkspace(info.transform, info.x, info.y)
    BY <1>0, <1>3 DEF NeedWorkspace
  <2> QED  BY <1>0, <2>1 DEF Workspace
<1>22. /\ Target' /\ pc' \in {"execute", "done"}
       /\ \A i \in 1..info.n, y \in Nat : y < Comp(i).ht /\ Written(i, y)' =>
            Written(i, y) \/ (i = k /\ y \in base..base + c.v - 1)
       /\ pc' = "execute" => \A i \in Nat, y \in Nat : ~Written(i, y)' =>
            ~Written(i, y) /\ ~(i = k /\ y \in base..base + c.v - 1)
  BY <1>0, <1>1, <1>2, <1>14, AdvanceIs
<1>23. Result = srcArrays /\ Result' = srcArrays'
  BY <1>0 DEF Result
<1>24. ASSUME NEW i \in 1..info.n, NEW y \in Nat, y < Comp(i).ht, Written(i, y)'
       PROVE  RowPlaced(i, y)'
  <2>0. y \in Nat /\ y < Comp(i).ht /\ i \in 1..Len(image.comps)
    BY <1>4, <1>24 DEF CompFacts
  <2>1. Written(i, y) \/ (i = k /\ y \in base..base + c.v - 1)
    BY <1>22, <1>24, <2>0
  <2>2. CASE i = k /\ y \in base..base + c.v - 1
    <3>1. \A x \in 0..c.w - 1 : fresh[y][x] = Belongs(c, x, y)
      BY <1>17, <2>2
    <3> QED  BY <1>18, <1>19, <1>23, <2>2, <3>1 DEF RowPlaced
  <2>3. CASE Written(i, y) /\ ~(i = k /\ y \in base..base + c.v - 1)
    <3>1. RowPlaced(i, y)
      BY <1>0, <2>0, <2>3 DEF Placing
    <3>2. srcArrays'[i].block[y] = srcArrays[i].block[y]
      <4>1. CASE i # k
        BY <1>15, <2>0, <4>1
      <4>2. CASE i = k
        <5>1. y < base
          BY <1>0, <1>5, <2>3, <4>2 DEF Written
        <5>2. y \in 0..SourceRows(k) - 1
          <6>1. base \in Nat /\ c.v \in 1..4
            BY <1>5, <1>9
          <6>2. y < base + c.v
            <7> HIDE DEF base, c
            <7> QED  BY <2>0, <5>1, <6>1
          <6> QED  BY <1>10, <2>0, <6>2
        <5> QED  BY <1>17, <1>19, <2>3, <4>2, <5>2
      <4> QED  BY <4>1, <4>2
    <3> QED  BY <1>18, <1>23, <3>1, <3>2 DEF RowPlaced
  <2> QED  BY <2>1, <2>2, <2>3
<1>25. ASSUME pc' = "execute", NEW i \in 1..Len(image.comps), NEW y \in 0..SourceRows(i) - 1, ~Written(i, y)'
       PROVE  Original(i, y)'
  <2>1. i \in Nat /\ y \in Nat
    BY <1>1 DEF ImageFacts
  <2>2. ~Written(i, y) /\ ~(i = k /\ y \in base..base + c.v - 1)
    BY <1>22, <1>25, <2>1
  <2>3. Original(i, y)
    BY <1>6, <2>2
  <2>4. srcArrays'[i].block[y] = srcArrays[i].block[y]
    <3>1. CASE i # k
      BY <1>15, <3>1
    <3>2. CASE i = k
      BY <1>17, <1>19, <2>2, <3>2
    <3> QED  BY <3>1, <3>2
  <2> QED  BY <1>18, <2>3, <2>4 DEF Original
<1>26. image' \in [width : Widths, height : Heights, comps : Samplings]
  BY <1>0 DEF Placing
<1>27. \A i \in 1..info'.n : \A y \in Nat : y < Comp(i)'.ht /\ Written(i, y)' => RowPlaced(i, y)'
  BY <1>0, <1>18, <1>24
<1>28. pc' = "execute" =>
         \A i \in 1..Len(image'.comps) : \A y \in 0..SourceRows(i)' - 1 :
           work' # << >> \/ info'.transform = "none" \/ ~Written(i, y)' => Original(i, y)'
  BY <1>0, <1>18, <1>25
<1> QED
  BY <1>0, <1>18, <1>20, <1>21, <1>22, <1>26, <1>27, <1>28 DEF Placing

LEMMA NothingToDoKeeps ==
  ASSUME TransformAssumption, Placing, NothingToDo
  PROVE  Placing'
<1>0. /\ pc = "execute" /\ pc' = "done" /\ work = << >> /\ info.transform = "none"
      /\ image' = image /\ info' = info /\ dest' = dest /\ quant' = quant /\ work' = work /\ srcArrays' = srcArrays /\ at' = at
      /\ UNCHANGED << image, info, dest, quant >>
  BY DEF NothingToDo
<1>1. ImageFacts
  BY ImageIs DEF Placing
<1>2. Asked /\ Adjusted /\ Target /\ Source /\ Workspace
  BY <1>0 DEF Placing
<1>3. info.y.offset = 0 /\ info.x.offset = 0
  BY <1>0, <1>1, <1>2, InPlace
<1>4. \A i \in 1..info.n : CompFacts(i)
  BY <1>1, <1>2, CompServes
<1>5. /\ \A i : Comp(i)' = Comp(i)
      /\ Asked' /\ Adjusted'
      /\ \A i : RoomX(i)' = RoomX(i) /\ RoomY(i)' = RoomY(i) /\ PartX(i)' = PartX(i) /\ PartY(i)' = PartY(i)
      /\ \A i : HeightOf(i)' = HeightOf(i)
      /\ \A i : SourceRows(i)' = SourceRows(i) /\ SourceCols(i)' = SourceCols(i)
      /\ \A z, x, y : Belongs(z, x, y)' = Belongs(z, x, y)
  BY <1>0, <1>2, StaysAsked
<1>6. \A i \in 1..Len(image.comps) : \A y \in 0..SourceRows(i) - 1 : Original(i, y)
  BY <1>0 DEF Placing
<1>7. ASSUME NEW i \in 1..info.n, NEW y \in Nat, y < Comp(i).ht
      PROVE  RowPlaced(i, y)'
  <2> DEFINE c == Comp(i)
  <2>1. /\ Serves(c.h, c.w, c.mw, c.xc, SourceCols(i), RoomX(i))
        /\ Serves(c.v, c.ht, c.mh, c.yc, SourceRows(i), RoomY(i))
        /\ i \in 1..Len(image.comps) /\ SourceRows(i) \in Nat /\ SourceCols(i) \in Nat
        /\ c.v = PartY(i) /\ c.h = PartX(i)
    <3>1. ~Transposes(info.transform)
      BY <1>0 DEF Transposes
    <3> QED  BY <1>4, <3>1 DEF CompFacts, ExtentX, ExtentY
  <2>2. c.xc = 0 /\ c.yc = 0
    <3>1. c.xc = info.x.offset * PartX(i) /\ c.yc = info.y.offset * PartY(i)
      BY <1>1, <1>2, CompIs
    <3>2. PartX(i) \in 1..4 /\ PartY(i) \in 1..4
      BY <2>1 DEF Serves
    <3> QED  BY <1>3, <3>1, <3>2
  <2>3. y \in 0..SourceRows(i) - 1 /\ \A x \in 0..c.w - 1 : x \in 0..SourceCols(i) - 1
    <3> DEFINE zx == DivRoundUp(c.w, c.h) * c.h
               zy == DivRoundUp(c.ht, c.v) * c.v
    <3>1. zx \in Nat /\ c.w <= zx /\ c.w \in Nat /\ zy \in Nat /\ c.ht <= zy /\ c.ht \in Nat
      BY <2>1, LastImcu
    <3>2. zx + c.xc <= SourceCols(i) /\ zy + c.yc <= SourceRows(i)
      BY <2>1 DEF Serves
    <3> HIDE DEF zx, zy
    <3>3. c.w <= SourceCols(i) /\ c.ht <= SourceRows(i) /\ SourceCols(i) \in Nat /\ SourceRows(i) \in Nat
      BY <1>7, <2>1, <2>2, <3>1, <3>2
    <3>4. y \in Nat /\ y < c.ht
      BY <1>7
    <3> HIDE DEF c
    <3> QED  BY <3>1, <3>3, <3>4
  <2>4. ASSUME NEW x \in 0..c.w - 1
        PROVE  srcArrays[i].block[y][x] = Belongs(c, x, y)
    <3>1. srcArrays[i].block[y][x] = Block(x, y)
      BY <1>6, <2>1, <2>3 DEF Original
    <3>2. ~NeedsRight(info.transform) /\ ~NeedsBottom(info.transform) /\ ~Transposes(info.transform)
      BY <1>0 DEF NeedsRight, NeedsBottom, Transposes
    <3>3. x + 0 = x /\ y + 0 = y
      OBVIOUS
    <3>4. Belongs(c, x, y) = [x |-> x + 0, y |-> y + 0, t |-> FALSE, sign |-> Plain]
      <4>1. Turned(FALSE, x, c.xc, c.mw) = x + 0 /\ Turned(FALSE, y, c.yc, c.mh) = y + 0
        BY <2>2 DEF Turned
      <4>2. /\ Belongs(c, x, y).x = x + 0 /\ Belongs(c, x, y).y = y + 0 /\ Belongs(c, x, y).t = FALSE
            /\ Belongs(c, x, y) = [x |-> Belongs(c, x, y).x, y |-> Belongs(c, x, y).y, t |-> Belongs(c, x, y).t,
                                   sign |-> Belongs(c, x, y).sign]
        BY <3>2, <4>1 DEF Belongs, Turned
      <4>3. Belongs(c, x, y).sign = Plain
        BY <3>2 DEF Belongs, Sign, Plain
      <4> QED  BY <4>2, <4>3
    <3> QED  BY <3>1, <3>3, <3>4 DEF Block
  <2>5. Result' = srcArrays
    BY <1>0 DEF Result
  <2> QED  BY <1>5, <2>4, <2>5 DEF RowPlaced
<1>8. Target' /\ Workspace' /\ Source'
  BY <1>0, <1>2, <1>5 DEF Target, Workspace, Source
<1>9. image' \in [width : Widths, height : Heights, comps : Samplings]
  BY <1>0 DEF Placing
<1>10. \A i \in 1..info'.n : \A y \in Nat : y < Comp(i)'.ht /\ Written(i, y)' => RowPlaced(i, y)'
  BY <1>0, <1>5, <1>7
<1> QED  BY <1>0, <1>5, <1>8, <1>9, <1>10 DEF Placing

\* The axes that a request leads to.
LEMMA AreaServes ==
  ASSUME ImageFacts, TransformAssumption, NEW r \in Requests, NEW a \in Areas(image, r)
  PROVE  LET n == NumComponents(image, r)
             t == r.transform
         IN  /\ Fits(a.x, FullX(t), McuX(n, t)) /\ Fits(a.y, FullY(t), McuY(n, t))
             /\ a.fullw = FullX(t) /\ a.fullh = FullY(t) /\ a.mcuw = McuX(n, t) /\ a.mcuh = McuY(n, t)
             /\ ~r.crop => a.x = [size |-> FullX(t), offset |-> 0] /\ a.y = [size |-> FullY(t), offset |-> 0]
<1> DEFINE n == NumComponents(image, r)
           t == r.transform
           fullw == FullX(t)
           fullh == FullY(t)
           mcuw == McuX(n, t)
           mcuh == McuY(n, t)
           whole(full) == { [size |-> full, offset |-> 0] }
           xs == IF r.crop THEN CropAxis(fullw, mcuw, r.cropx) ELSE whole(fullw)
           ys == IF r.crop THEN CropAxis(fullh, mcuh, r.cropy) ELSE whole(fullh)
<1>1. n = 1 \/ n = Len(image.comps)
  BY DEF NumComponents
<1>2. n \in Nat \ { 0 } /\ 1 \in 1..n
  BY <1>1 DEF ImageFacts
<1>3. mcuw \in Nat \ { 0 } /\ mcuh \in Nat \ { 0 } /\ fullw \in Nat \ { 0 } /\ fullh \in Nat \ { 0 }
  <2> HIDE DEF n, t
  <2> QED  BY <1>1, <1>2, SampsAre
<1>4. Areas(image, r) = { [x |-> x, y |-> y, fullw |-> fullw, fullh |-> fullh, mcuw |-> mcuw, mcuh |-> mcuh] :
                            x \in xs, y \in ys }
  BY DEF Areas, McuWidth, McuHeight, McuX, McuY, TopX, TopY, FullX, FullY
<1> HIDE DEF n, t, fullw, fullh, mcuw, mcuh, xs, ys
<1>5. PICK x \in xs, y \in ys :
        a = [x |-> x, y |-> y, fullw |-> fullw, fullh |-> fullh, mcuw |-> mcuw, mcuh |-> mcuh]
  BY <1>4
<1>6. r.cropx \in Axis /\ r.cropy \in Axis
  BY DEF TransformAssumption
<1>7. Fits([size |-> fullw, offset |-> 0], fullw, mcuw) /\ Fits([size |-> fullh, offset |-> 0], fullh, mcuh)
  BY <1>3 DEF Fits
<1>8. Fits(x, fullw, mcuw) /\ (~r.crop => x = [size |-> fullw, offset |-> 0])
  <2>1. CASE r.crop
    BY <1>3, <1>6, <2>1, CropFits DEF xs
  <2>2. CASE ~r.crop
    BY <1>7, <2>2 DEF xs
  <2> QED  BY <2>1, <2>2
<1>9. Fits(y, fullh, mcuh) /\ (~r.crop => y = [size |-> fullh, offset |-> 0])
  <2>1. CASE r.crop
    BY <1>3, <1>6, <2>1, CropFits DEF ys
  <2>2. CASE ~r.crop
    BY <1>7, <2>2 DEF ys
  <2> QED  BY <2>1, <2>2
<1>10. a.x = x /\ a.y = y /\ a.fullw = fullw /\ a.fullh = fullh /\ a.mcuw = mcuw /\ a.mcuh = mcuh
  BY <1>5
<1> QED  BY <1>8, <1>9, <1>10 DEF n, t, fullw, fullh, mcuw, mcuh

\* With "perfect" the iMCUs cover the picture where it is mirrored.
LEMMA PerfectIs ==
  ASSUME ImageFacts, TransformAssumption, NEW r \in Requests,
         Perfect(image.width, image.height, McuWidth(image, NumComponents(image, r)),
                 McuHeight(image, NumComponents(image, r)), r.transform)
  PROVE  LET n == NumComponents(image, r)
             t == r.transform
         IN  /\ NeedsRight(t) => FullX(t) % McuX(n, t) = 0
             /\ NeedsBottom(t) => FullY(t) % McuY(n, t) = 0
<1> DEFINE n == NumComponents(image, r)
           t == r.transform
<1>1. t \in Kinds
  BY DEF TransformAssumption, Kinds
<1>2. /\ ~Transposes(t) => /\ FullX(t) = image.width /\ FullY(t) = image.height
                           /\ McuX(n, t) = McuWidth(image, n) /\ McuY(n, t) = McuHeight(image, n)
      /\ Transposes(t) => /\ FullX(t) = image.height /\ FullY(t) = image.width
                          /\ McuX(n, t) = McuHeight(image, n) /\ McuY(n, t) = McuWidth(image, n)
  BY DEF FullX, FullY, McuX, McuY, TopX, TopY, McuWidth, McuHeight
<1>3. /\ t \in {"flip_h", "rot_270", "transverse", "rot_180"} => image.width % McuWidth(image, n) = 0
      /\ t \in {"flip_v", "rot_90", "transverse", "rot_180"} => image.height % McuHeight(image, n) = 0
  BY DEF Perfect
<1> HIDE DEF n, t
<1>4. /\ NeedsRight(t) => FullX(t) % McuX(n, t) = 0
      /\ NeedsBottom(t) => FullY(t) % McuY(n, t) = 0
  <2>1. CASE Transposes(t)
    <3>1. t \in {"transpose", "transverse", "rot_90", "rot_270"}
      BY <2>1 DEF Transposes
    <3>2. /\ NeedsRight(t) => t \in {"flip_v", "rot_90", "transverse", "rot_180"}
          /\ NeedsBottom(t) => t \in {"flip_h", "rot_270", "transverse", "rot_180"}
      BY <3>1 DEF NeedsRight, NeedsBottom
    <3> QED  BY <1>2, <1>3, <2>1, <3>2
  <2>2. CASE ~Transposes(t)
    <3>1. t \in {"none", "flip_h", "flip_v", "rot_180"}
      BY <1>1, <2>2 DEF Transposes, Kinds
    <3>2. /\ NeedsRight(t) => t \in {"flip_h", "rot_270", "transverse", "rot_180"}
          /\ NeedsBottom(t) => t \in {"flip_v", "rot_90", "transverse", "rot_180"}
      BY <3>1 DEF NeedsRight, NeedsBottom
    <3> QED  BY <1>2, <1>3, <2>2, <3>2
  <2> QED  BY <2>1, <2>2
<1> QED  BY <1>4 DEF n, t

LEMMA RequestWorkspaceKeeps ==
  ASSUME TransformAssumption, Placing, RequestWorkspace
  PROVE  Placing'
<1>0. /\ pc = "request" /\ work = << >> /\ Source
      /\ image' = image /\ dest' = dest /\ quant' = quant /\ srcArrays' = srcArrays /\ at' = at
      /\ at = [ci |-> 1, row |-> 0] /\ quant = [p \in (0..2) \X (0..2) |-> p]
  BY DEF RequestWorkspace, Placing
<1>1. ImageFacts
  BY ImageIs DEF Placing
<1>2. \A i : SourceRows(i)' = SourceRows(i) /\ SourceCols(i)' = SourceCols(i)
  BY <1>0 DEF SourceRows, SourceCols, MaxOf
<1>3. Source'
  BY <1>0, <1>2 DEF Source
<1>4. \A i \in 1..Len(image.comps) : \A y \in 0..SourceRows(i) - 1 : Original(i, y)'
  BY <1>0, <1>2 DEF Placing, Original
<1>5. image' \in [width : Widths, height : Heights, comps : Samplings]
  BY <1>0 DEF Placing
<1>6. PICK r \in Requests :
       LET n == NumComponents(image, r)
       IN  \/ pc' \in {"refused", "error"} /\ work' = work
           \/ /\ r.perfect => Perfect(image.width, image.height, McuWidth(image, n),
                                      McuHeight(image, n), r.transform)
              /\ \E a \in Areas(image, r) :
                  LET x == IF r.trim /\ NeedsRight(r.transform)
                           THEN Trimmed(a.x, a.fullw, a.mcuw) ELSE a.x
                      y == IF r.trim /\ NeedsBottom(r.transform)
                           THEN Trimmed(a.y, a.fullh, a.mcuh) ELSE a.y
                      swap == Transposes(r.transform)
                      samp(i) == IF n = 1 THEN [h |-> 1, v |-> 1]
                                 ELSE IF swap THEN [h |-> image.comps[i].v,
                                                    v |-> image.comps[i].h]
                                 ELSE image.comps[i]
                  IN  /\ info' = [transform |-> r.transform, perfect |-> r.perfect, trim |-> r.trim,
                                   gray |-> r.gray, crop |-> r.crop, n |-> n, x |-> x, y |-> y]
                      /\ work' = IF NeedWorkspace(r.transform, x, y)
                                 THEN [i \in 1..n |->
                                         Array(DivRoundUp(y.size, a.mcuh) * samp(i).v,
                                               DivRoundUp(x.size, a.mcuw) * samp(i).h,
                                               samp(i).v)]
                                 ELSE << >>
                      /\ pc' = "adjust"
  BY DEF RequestWorkspace
<1> DEFINE n == NumComponents(image, r)
           t == r.transform
<1>7. CASE pc' \in {"refused", "error"} /\ work' = work
  BY <1>0, <1>3, <1>5, <1>7 DEF Placing
<1>8. ASSUME r.perfect => Perfect(image.width, image.height, McuWidth(image, n), McuHeight(image, n), t),
             NEW a \in Areas(image, r), NEW x, NEW y,
             x = IF r.trim /\ NeedsRight(t) THEN Trimmed(a.x, a.fullw, a.mcuw) ELSE a.x,
             y = IF r.trim /\ NeedsBottom(t) THEN Trimmed(a.y, a.fullh, a.mcuh) ELSE a.y,
             info' = [transform |-> t, perfect |-> r.perfect, trim |-> r.trim,
                      gray |-> r.gray, crop |-> r.crop, n |-> n, x |-> x, y |-> y],
             work' = IF NeedWorkspace(t, x, y)
                     THEN [i \in 1..n |-> Array(DivRoundUp(y.size, McuY(n, t)) * SampY(n, t, i),
                                                DivRoundUp(x.size, McuX(n, t)) * SampX(n, t, i), SampY(n, t, i))]
                     ELSE << >>,
             pc' = "adjust"
      PROVE  Placing'
  <2>1. /\ Fits(a.x, FullX(t), McuX(n, t)) /\ Fits(a.y, FullY(t), McuY(n, t))
        /\ a.fullw = FullX(t) /\ a.fullh = FullY(t) /\ a.mcuw = McuX(n, t) /\ a.mcuh = McuY(n, t)
        /\ ~r.crop => a.x = [size |-> FullX(t), offset |-> 0] /\ a.y = [size |-> FullY(t), offset |-> 0]
    BY <1>1, AreaServes
  <2>2. r.perfect => /\ NeedsRight(t) => FullX(t) % McuX(n, t) = 0
                     /\ NeedsBottom(t) => FullY(t) % McuY(n, t) = 0
    BY <1>1, <1>8, PerfectIs
  <2>3. n = 1 \/ n = Len(image.comps)
    BY DEF NumComponents
  <2>4. /\ t \in Kinds /\ (r.gray \/ n = Len(image.comps)) /\ (r.gray => n = 1)
    <3>1. t \in Kinds
      BY DEF TransformAssumption, Kinds
    <3>2. (r.gray \/ n = Len(image.comps)) /\ (r.gray => n = 1)
      <4>1. Len(image.comps) \in Nat \ { 0 } /\ r.gray \in BOOLEAN
        BY <1>1 DEF ImageFacts, TransformAssumption
      <4>2. n = IF r.gray /\ Len(image.comps) > 1 THEN 1 ELSE Len(image.comps)
        BY DEF NumComponents, ForcesGray
      <4>3. \A l \in Nat \ { 0 }, g \in BOOLEAN : \A k :
              (k = IF g /\ l > 1 THEN 1 ELSE l) => (g \/ k = l) /\ (g => k = 1)
        OBVIOUS
      <4> HIDE DEF n
      <4> QED  BY <4>1, <4>2, <4>3
    <3> QED  BY <3>1, <3>2
  <2>5. McuX(n, t) \in Nat \ { 0 } /\ McuY(n, t) \in Nat \ { 0 }
    <3>1. 1 \in 1..n
      BY <1>1, <2>3 DEF ImageFacts
    <3> HIDE DEF n, t
    <3> QED  BY <1>1, <2>3, <3>1, SampsAre
  <2> HIDE DEF n, t
  <2>6. /\ info'.transform = t /\ info'.perfect = r.perfect /\ info'.trim = r.trim /\ info'.gray = r.gray
        /\ info'.crop = r.crop /\ info'.n = n /\ info'.x = x /\ info'.y = y
    BY <1>8
  <2>7. /\ Fits(x, FullX(t), McuX(n, t)) /\ (r.trim /\ NeedsRight(t) => Trim(x, FullX(t), McuX(n, t)))
        /\ ~r.crop /\ ~r.trim => x = [size |-> FullX(t), offset |-> 0]
    <3>1. CASE r.trim /\ NeedsRight(t)
      <4>1. x = Trimmed(a.x, FullX(t), McuX(n, t))
        BY <1>8, <2>1, <3>1
      <4>2. Fits(Trimmed(a.x, FullX(t), McuX(n, t)), FullX(t), McuX(n, t)) /\ Trim(Trimmed(a.x, FullX(t), McuX(n, t)), FullX(t), McuX(n, t))
        BY <2>1, <2>5, TrimmedFits
      <4> QED  BY <3>1, <4>1, <4>2
    <3>2. CASE ~(r.trim /\ NeedsRight(t))
      BY <1>8, <2>1, <3>2
    <3> QED  BY <3>1, <3>2
  <2>8. /\ Fits(y, FullY(t), McuY(n, t)) /\ (r.trim /\ NeedsBottom(t) => Trim(y, FullY(t), McuY(n, t)))
        /\ ~r.crop /\ ~r.trim => y = [size |-> FullY(t), offset |-> 0]
    <3>1. CASE r.trim /\ NeedsBottom(t)
      <4>1. y = Trimmed(a.y, FullY(t), McuY(n, t))
        BY <1>8, <2>1, <3>1
      <4>2. Fits(Trimmed(a.y, FullY(t), McuY(n, t)), FullY(t), McuY(n, t)) /\ Trim(Trimmed(a.y, FullY(t), McuY(n, t)), FullY(t), McuY(n, t))
        BY <2>1, <2>5, TrimmedFits
      <4> QED  BY <3>1, <4>1, <4>2
    <3>2. CASE ~(r.trim /\ NeedsBottom(t))
      BY <1>8, <2>1, <3>2
    <3> QED  BY <3>1, <3>2
  <2>9. /\ \A z : FullX(z)' = FullX(z) /\ FullY(z)' = FullY(z)
        /\ \A m, z : McuX(m, z)' = McuX(m, z) /\ McuY(m, z)' = McuY(m, z)
        /\ \A m, z, i : SampX(m, z, i)' = SampX(m, z, i) /\ SampY(m, z, i)' = SampY(m, z, i)
    BY <1>0 DEF FullX, FullY, McuX, McuY, TopX, TopY, MaxOf, SampX, SampY
  <2>10. /\ FullX(info.transform)' = FullX(t) /\ FullY(info.transform)' = FullY(t)
         /\ ImcuX' = McuX(n, t) /\ ImcuY' = McuY(n, t)
         /\ McuX(info.n, info.transform)' = McuX(n, t) /\ McuY(info.n, info.transform)' = McuY(n, t)
         /\ \A i : PartX(i)' = SampX(n, t, i) /\ PartY(i)' = SampY(n, t, i)
    <3>1. image' = image
      BY <1>0
    <3> QED  BY <2>6, <3>1 DEF FullX, FullY, McuX, McuY, TopX, TopY, MaxOf, SampX, SampY, ImcuX, ImcuY, PartX, PartY
  <2>11. Asked'
    BY <1>0, <2>2, <2>3, <2>4, <2>6, <2>7, <2>8, <2>10 DEF Asked, AxisFacts
  <2>12. Workspace'
    <3>1. CASE NeedWorkspace(t, x, y)
      <4>1. work' = [i \in 1..n |-> Array(DivRoundUp(y.size, McuY(n, t)) * SampY(n, t, i),
                                          DivRoundUp(x.size, McuX(n, t)) * SampX(n, t, i), SampY(n, t, i))]
        BY <1>8, <3>1
      <4>2. ASSUME NEW i \in 1..n
            PROVE  Shaped(work'[i], DivRoundUp(y.size, McuY(n, t)) * SampY(n, t, i),
                          DivRoundUp(x.size, McuX(n, t)) * SampX(n, t, i), SampY(n, t, i))
        <5> DEFINE rows == DivRoundUp(y.size, McuY(n, t)) * SampY(n, t, i)
                   cols == DivRoundUp(x.size, McuX(n, t)) * SampX(n, t, i)
                   most == SampY(n, t, i)
                   w == work'[i]
        <5>1. w = Array(rows, cols, most)
          BY <4>1
        <5> HIDE DEF rows, cols, most, w
        <5>2. w = [rows |-> rows, cols |-> cols, most |-> most,
                   block |-> [z \in 0..rows-1 |-> [l \in 0..cols-1 |-> Garbage]]]
          BY <5>1 DEF Array
        <5>3. w.block = [z \in 0..rows-1 |-> [l \in 0..cols-1 |-> Garbage]]
          BY <5>2
        <5>4. w.block = [z \in 0..rows-1 |-> [l \in 0..cols-1 |-> w.block[z][l]]]
          BY <5>3
        <5>5. w = [rows |-> rows, cols |-> cols, most |-> most, block |-> w.block]
          BY <5>2, <5>3
        <5>6. Shaped(w, rows, cols, most)
          BY <5>4, <5>5 DEF Shaped
        <5> QED  BY <5>6 DEF rows, cols, most, w
      <4>3. work' = [i \in 1..n |-> work'[i]]
        BY <4>1
      <4>4. \A i : RoomX(i)' = DivRoundUp(x.size, McuX(n, t)) * SampX(n, t, i) /\ RoomY(i)' = DivRoundUp(y.size, McuY(n, t)) * SampY(n, t, i)
        BY <2>6, <2>10 DEF RoomX, RoomY
      <4>5. NeedWorkspace(info.transform, info.x, info.y)'
        BY <2>6, <3>1
      <4>6. \A i \in 1..n : Shaped(work'[i], RoomY(i)', RoomX(i)', PartY(i)')
        BY <2>10, <4>2, <4>4
      <4> QED  BY <2>6, <4>3, <4>5, <4>6 DEF Workspace
    <3>2. CASE ~NeedWorkspace(t, x, y)
      BY <1>8, <2>6, <3>2 DEF Workspace
    <3> QED  BY <3>1, <3>2
  <2> QED  BY <1>0, <1>3, <1>4, <1>2, <1>5, <1>8, <2>11, <2>12 DEF Placing
<1>9. CASE ~(pc' \in {"refused", "error"} /\ work' = work)
  <2> DEFINE samp(i) == IF n = 1 THEN [h |-> 1, v |-> 1]
                        ELSE IF Transposes(t) THEN [h |-> image.comps[i].v, v |-> image.comps[i].h]
                        ELSE image.comps[i]
             xof(a) == IF r.trim /\ NeedsRight(t) THEN Trimmed(a.x, a.fullw, a.mcuw) ELSE a.x
             yof(a) == IF r.trim /\ NeedsBottom(t) THEN Trimmed(a.y, a.fullh, a.mcuh) ELSE a.y
  <2>1. r.perfect => Perfect(image.width, image.height, McuWidth(image, n), McuHeight(image, n), t)
    BY <1>6, <1>9
  <2>2. PICK a \in Areas(image, r) :
          /\ info' = [transform |-> t, perfect |-> r.perfect, trim |-> r.trim,
                      gray |-> r.gray, crop |-> r.crop, n |-> n, x |-> xof(a), y |-> yof(a)]
          /\ work' = IF NeedWorkspace(t, xof(a), yof(a))
                     THEN [i \in 1..n |-> Array(DivRoundUp(yof(a).size, a.mcuh) * samp(i).v,
                                                DivRoundUp(xof(a).size, a.mcuw) * samp(i).h, samp(i).v)]
                     ELSE << >>
          /\ pc' = "adjust"
    BY <1>6, <1>9
  <2>3. \A i : samp(i).h = SampX(n, t, i) /\ samp(i).v = SampY(n, t, i)
    BY DEF SampX, SampY
  <2>4. a.mcuw = McuX(n, t) /\ a.mcuh = McuY(n, t)
    BY <1>1, AreaServes
  <2> DEFINE x == xof(a)
             y == yof(a)
  <2>5. x = xof(a) /\ y = yof(a)
    OBVIOUS
  <2> HIDE DEF samp, x, y
  <2>6. [i \in 1..n |-> Array(DivRoundUp(y.size, a.mcuh) * samp(i).v, DivRoundUp(x.size, a.mcuw) * samp(i).h, samp(i).v)]
        = [i \in 1..n |-> Array(DivRoundUp(y.size, McuY(n, t)) * SampY(n, t, i),
                                DivRoundUp(x.size, McuX(n, t)) * SampX(n, t, i), SampY(n, t, i))]
    BY <2>3, <2>4
  <2>7. /\ info' = [transform |-> t, perfect |-> r.perfect, trim |-> r.trim,
                    gray |-> r.gray, crop |-> r.crop, n |-> n, x |-> x, y |-> y]
        /\ work' = IF NeedWorkspace(t, x, y)
                   THEN [i \in 1..n |-> Array(DivRoundUp(y.size, a.mcuh) * samp(i).v,
                                              DivRoundUp(x.size, a.mcuw) * samp(i).h, samp(i).v)]
                   ELSE << >>
        /\ pc' = "adjust"
    BY <2>2 DEF x, y
  <2>8. work' = IF NeedWorkspace(t, x, y)
                THEN [i \in 1..n |-> Array(DivRoundUp(y.size, McuY(n, t)) * SampY(n, t, i),
                                           DivRoundUp(x.size, McuX(n, t)) * SampX(n, t, i), SampY(n, t, i))]
                ELSE << >>
    BY <2>6, <2>7
  <2> QED  BY <1>8, <2>1, <2>5, <2>7, <2>8
<1> QED  BY <1>7, <1>9

LEMMA AdjustKeeps ==
  ASSUME TransformAssumption, Placing, Adjust
  PROVE  Placing'
<1> DEFINE c1 == image.comps[1]
           full == c1.h = MaxOf(image.comps, "h") /\ c1.v = MaxOf(image.comps, "v")
           comps == IF info.gray \/ info.n = 1 THEN << [h |-> 1, v |-> 1] >> ELSE image.comps
           swap == Transposes(info.transform)
           n == info.n
<1>0. /\ pc = "adjust" /\ image' = image /\ info' = info /\ srcArrays' = srcArrays /\ work' = work /\ at' = at
      /\ at = [ci |-> 1, row |-> 0] /\ quant = [p \in (0..2) \X (0..2) |-> p]
      /\ Source /\ Asked /\ Workspace
  BY DEF Adjust, Placing
<1>1. ImageFacts
  BY ImageIs DEF Placing
<1>2. n \in Nat \ { 0 } /\ (n = 1 \/ n = Len(image.comps)) /\ Len(image.comps) \in Nat \ { 0 }
  BY <1>0, <1>1 DEF Asked, ImageFacts
<1>3. /\ \A i : SourceRows(i)' = SourceRows(i) /\ SourceCols(i)' = SourceCols(i)
      /\ \A i : RoomX(i)' = RoomX(i) /\ RoomY(i)' = RoomY(i) /\ PartX(i)' = PartX(i) /\ PartY(i)' = PartY(i)
      /\ \A i : HeightOf(i)' = HeightOf(i)
  <2>1. ImcuX' = ImcuX /\ ImcuY' = ImcuY
    BY <1>0 DEF ImcuX, ImcuY, McuX, McuY, TopX, TopY, MaxOf
  <2>2. \A i : PartX(i)' = PartX(i) /\ PartY(i)' = PartY(i)
    BY <1>0 DEF PartX, PartY, SampX, SampY
  <2>3. \A i : SourceRows(i)' = SourceRows(i) /\ SourceCols(i)' = SourceCols(i)
    BY <1>0 DEF SourceRows, SourceCols, MaxOf
  <2>4. \A i : RoomX(i)' = RoomX(i) /\ RoomY(i)' = RoomY(i) /\ HeightOf(i)' = HeightOf(i)
    BY <1>0, <2>1, <2>2 DEF RoomX, RoomY, HeightOf
  <2> QED  BY <2>2, <2>3, <2>4
<1>4. Source' /\ Workspace' /\ image' \in [width : Widths, height : Heights, comps : Samplings]
  BY <1>0, <1>3 DEF Source, Workspace, Placing
<1>5. Asked'
  BY <1>0 DEF Asked, AxisFacts, FullX, FullY, McuX, McuY, TopX, TopY, MaxOf
<1>6. \A i \in 1..Len(image.comps) : \A y \in 0..SourceRows(i) - 1 : Original(i, y)'
  BY <1>0, <1>3 DEF Placing, Original
<1>7. CASE info.gray /\ ~full
  <2>1. pc' = "error"
    BY <1>7 DEF Adjust
  <2>2. work = << >> \/ (DOMAIN work = 1..n /\
          \A i \in 1..n : \A y \in DOMAIN work[i].block : DOMAIN work[i].block[y] = 0..work[i].cols - 1)
    <3>1. CASE NeedWorkspace(info.transform, info.x, info.y)
      <4>1. DOMAIN work = 1..n /\ \A i \in 1..n : Shaped(work[i], RoomY(i), RoomX(i), PartY(i))
        BY <1>0, <3>1 DEF Workspace
      <4>2. ASSUME NEW i \in 1..n
            PROVE  \A y \in DOMAIN work[i].block : DOMAIN work[i].block[y] = 0..work[i].cols - 1
        <5> DEFINE w == work[i]
        <5>1. Shaped(w, RoomY(i), RoomX(i), PartY(i))
          BY <4>1
        <5> HIDE DEF w
        <5>2. w.cols = RoomX(i)
          BY <5>1 DEF Shaped
        <5>3. \A y \in DOMAIN w.block : DOMAIN w.block[y] = 0..RoomX(i) - 1
          BY <5>1 DEF Shaped
        <5> QED  BY <5>2, <5>3 DEF w
      <4> QED  BY <4>1, <4>2
    <3>2. CASE ~NeedWorkspace(info.transform, info.x, info.y)
      BY <1>0, <3>2 DEF Workspace
    <3> QED  BY <3>1, <3>2
  <2> QED  BY <1>0, <1>4, <2>1, <2>2 DEF Placing
<1>8. CASE ~(info.gray /\ ~full)
  <2>1. /\ dest' = [width |-> info.x.size, height |-> info.y.size, comps |-> IF swap THEN Swapped(comps) ELSE comps]
        /\ quant' = IF swap THEN TransposeTable(quant) ELSE quant
        /\ pc' = "execute"
    BY <1>8 DEF Adjust
  <2>2. dest'.comps = IF swap THEN Swapped(comps) ELSE comps
    BY <2>1
  <2>3. (IF swap THEN Swapped(comps) ELSE comps) = [i \in 1..n |-> [h |-> PartX(i), v |-> PartY(i)]]
    <3>1. CASE n = 1
      <4>1. comps = << [h |-> 1, v |-> 1] >>
        BY <3>1
      <4>2. comps = [i \in 1..1 |-> [h |-> 1, v |-> 1]]
        BY <4>1
      <4> HIDE DEF comps
      <4>3. Swapped(comps) = [i \in 1..1 |-> [h |-> 1, v |-> 1]]
        BY <4>2 DEF Swapped
      <4>4. [i \in 1..n |-> [h |-> PartX(i), v |-> PartY(i)]] = [i \in 1..1 |-> [h |-> 1, v |-> 1]]
        BY <3>1 DEF PartX, PartY, SampX, SampY
      <4> QED  BY <4>2, <4>3, <4>4
    <3>2. CASE n # 1
      <4>1. ~info.gray /\ n = Len(image.comps) /\ comps = image.comps
        BY <1>0, <3>2 DEF Asked
      <4>2. DOMAIN comps = 1..n /\ comps = [i \in 1..n |-> comps[i]] /\ \A i \in 1..n : comps[i] \in [h : 1..4, v : 1..4]
        <5>1. image.comps \in Seq([h : 1..4, v : 1..4])
          BY DEF TransformAssumption, Placing
        <5>2. \A i \in 1..Len(image.comps) : image.comps[i] \in [h : 1..4, v : 1..4]
          BY <1>1 DEF ImageFacts
        <5> DEFINE s == image.comps
        <5>3. s \in Seq([h : 1..4, v : 1..4])
          BY <5>1
        <5> HIDE DEF s
        <5>4. DOMAIN s = 1..Len(s) /\ s = [i \in 1..Len(s) |-> s[i]]
          BY <5>3
        <5>5. s = comps
          BY <4>1 DEF s
        <5> HIDE DEF comps
        <5> QED  BY <4>1, <5>2, <5>4, <5>5 DEF s
      <4>3. \A i \in 1..n : comps[i] = [h |-> comps[i].h, v |-> comps[i].v]
        BY <4>2
      <4>4. CASE swap
        <5>1. \A i \in 1..n : PartX(i) = comps[i].v /\ PartY(i) = comps[i].h
          BY <3>2, <4>1, <4>4 DEF PartX, PartY, SampX, SampY
        <5> HIDE DEF comps
        <5>2. Swapped(comps) = [i \in 1..n |-> [h |-> comps[i].v, v |-> comps[i].h]]
          BY <4>2 DEF Swapped
        <5>3. [i \in 1..n |-> [h |-> comps[i].v, v |-> comps[i].h]] = [i \in 1..n |-> [h |-> PartX(i), v |-> PartY(i)]]
          BY <5>1
        <5> QED  BY <4>4, <5>2, <5>3
      <4>5. CASE ~swap
        <5>1. \A i \in 1..n : PartX(i) = comps[i].h /\ PartY(i) = comps[i].v
          BY <3>2, <4>1, <4>5 DEF PartX, PartY, SampX, SampY
        <5> HIDE DEF comps
        <5>2. [i \in 1..n |-> comps[i]] = [i \in 1..n |-> [h |-> PartX(i), v |-> PartY(i)]]
          BY <4>3, <5>1
        <5> QED  BY <4>2, <4>5, <5>2
      <4> QED  BY <4>4, <4>5
    <3> QED  BY <3>1, <3>2
  <2> HIDE DEF comps
  <2>4. Alone(n)
    <3> SUFFICES ASSUME n = 1 PROVE full
      BY DEF Alone
    <3>1. CASE info.gray
      BY <1>8, <3>1
    <3>2. CASE ~info.gray
      <4>1. Len(image.comps) = 1 /\ DOMAIN image.comps = 1..1
        BY <1>0, <1>1, <3>2 DEF Asked, ImageFacts
      <4>2. c1.h \in 1..4 /\ c1.v \in 1..4
        BY <1>1, <4>1 DEF ImageFacts
      <4>3. { image.comps[i]["h"] : i \in DOMAIN image.comps } = { c1.h } /\ { image.comps[i]["v"] : i \in DOMAIN image.comps } = { c1.v }
        BY <4>1
      <4>4. MaxOf(image.comps, "h") = Max({ c1.h }) /\ MaxOf(image.comps, "v") = Max({ c1.v })
        BY <4>3 DEF MaxOf
      <4> QED  BY <4>2, <4>4, MaxOfOne
    <3> QED  BY <3>1, <3>2
  <2>5. quant' = [p \in (0..2) \X (0..2) |-> IF swap THEN << p[2], p[1] >> ELSE p]
    <3> DEFINE D == (0..2) \X (0..2)
    <3>1. CASE swap
      <4>1. quant' = [p \in D |-> quant[<< p[2], p[1] >>]]
        BY <1>0, <2>1, <3>1 DEF TransposeTable
      <4>2. \A p \in D : << p[2], p[1] >> \in D
        OBVIOUS
      <4>3. \A p \in D : quant[<< p[2], p[1] >>] = << p[2], p[1] >>
        BY <1>0, <4>2
      <4>4. [p \in D |-> quant[<< p[2], p[1] >>]] = [p \in D |-> << p[2], p[1] >>]
        BY <4>3
      <4>5. quant' = [p \in D |-> << p[2], p[1] >>]
        BY <4>1, <4>4
      <4> QED  BY <3>1, <4>5
    <3>2. CASE ~swap
      BY <1>0, <2>1, <3>2
    <3> QED  BY <3>1, <3>2
  <2>6. Adjusted'
    <3>1. dest' = [width |-> info'.x.size, height |-> info'.y.size, comps |-> dest'.comps]
      BY <1>0, <2>1, <2>2
    <3>2. dest'.comps = [i \in 1..n |-> [h |-> PartX(i)', v |-> PartY(i)']]
      BY <1>3, <2>2, <2>3
    <3>3. Alone(info.n)'
      BY <1>0, <2>4 DEF Alone, MaxOf
    <3> QED  BY <1>0, <2>5, <3>1, <3>2, <3>3 DEF Adjusted
  <2>7. 1 \in 1..n /\ HeightOf(1) \in Nat \ { 0 } /\ PartY(1) \in 1..4
    <3>1. 1 \in 1..n
      BY <1>2
    <3>2. PartY(1) \in 1..4 /\ ImcuY \in Nat \ { 0 }
      BY <1>1, <1>2, <3>1, SampsAre DEF PartY, ImcuY
    <3>3. info.y.size \in Nat \ { 0 }
      BY <1>0 DEF Asked, AxisFacts, Fits
    <3>4. info.y.size * PartY(1) \in Nat \ { 0 }
      BY <3>2, <3>3
    <3> QED  BY <3>1, <3>2, <3>4, RoundUpFacts DEF HeightOf, BlocksOf
  <2>8. at.ci = 1 /\ at.row = 0
    BY <1>0
  <2>9. Target'
    <3>1. 0 % PartY(1) = 0 /\ 0 < HeightOf(1)
      BY <2>7
    <3> QED  BY <1>0, <1>3, <2>7, <2>8, <3>1 DEF Target
  <2>10. ASSUME NEW i \in 1..n, NEW y \in Nat PROVE ~Written(i, y)'
    BY <1>0, <1>2, <2>1, <2>8 DEF Written
  <2> QED  BY <1>0, <1>3, <1>4, <1>5, <1>6, <2>1, <2>6, <2>9, <2>10 DEF Placing
<1> QED  BY <1>7, <1>8

LEMMA PlacingInit ==
  ASSUME TransformAssumption, Init
  PROVE  Placing
<1>0. /\ image \in [width : Widths, height : Heights, comps : Samplings]
      /\ quant = [p \in (0..2) \X (0..2) |-> p]
      /\ srcArrays = [i \in DOMAIN image.comps |-> SourceArray(image, i)]
      /\ work = << >> /\ pc = "request" /\ at = [ci |-> 1, row |-> 0]
  BY DEF Init
<1>1. ImageFacts
  BY <1>0, ImageIs
<1>2. DOMAIN image.comps = 1..Len(image.comps)
  BY <1>1 DEF ImageFacts
<1>3. ASSUME NEW i \in 1..Len(image.comps)
      PROVE  /\ Shaped(srcArrays[i], SourceRows(i), SourceCols(i), image.comps[i].v)
             /\ \A y \in 0..SourceRows(i) - 1 : Original(i, y)
  <2> DEFINE rows == SourceRows(i)
             cols == SourceCols(i)
             most == image.comps[i].v
             s == srcArrays[i]
  <2>1. s = [Array(rows, cols, most) EXCEPT !.block = [y \in 0..Array(rows, cols, most).rows - 1 |->
                                                       [x \in 0..Array(rows, cols, most).cols - 1 |-> Block(x, y)]]]
    BY <1>0, <1>2 DEF SourceArray, SourceRows, SourceCols
  <2> HIDE DEF rows, cols, most, s
  <2>2. Array(rows, cols, most).rows = rows /\ Array(rows, cols, most).cols = cols
    BY DEF Array
  <2> DEFINE blocks == [y \in 0..rows - 1 |-> [x \in 0..cols - 1 |-> Block(x, y)]]
  <2>3. s = [Array(rows, cols, most) EXCEPT !.block = blocks]
    BY <2>1, <2>2
  <2> DEFINE b0 == [y \in 0..rows-1 |-> [x \in 0..cols-1 |-> Garbage]]
             z == blocks
  <2>4. Array(rows, cols, most) = [rows |-> rows, cols |-> cols, most |-> most, block |-> b0]
    BY DEF Array
  <2>5. \A y \in 0..rows - 1 : blocks[y] = [x \in 0..cols - 1 |-> Block(x, y)]
    OBVIOUS
  <2>6. blocks = [y \in 0..rows - 1 |-> [x \in 0..cols - 1 |-> blocks[y][x]]]
    OBVIOUS
  <2>7. \A y \in 0..rows - 1 : \A x \in 0..cols - 1 : blocks[y][x] = Block(x, y)
    BY <2>5
  <2> HIDE DEF blocks, b0
  <2>8. s = [rows |-> rows, cols |-> cols, most |-> most, block |-> blocks]
    BY <2>3, <2>4
  <2>9. s.block = blocks
    BY <2>8
  <2>10. Shaped(s, rows, cols, most)
    BY <2>6, <2>8, <2>9 DEF Shaped
  <2>11. \A y \in 0..rows - 1 : \A x \in 0..cols - 1 : s.block[y][x] = Block(x, y)
    BY <2>7, <2>9
  <2> QED  BY <2>10, <2>11 DEF rows, cols, most, s, Original
<1>4. srcArrays = [i \in 1..Len(image.comps) |-> srcArrays[i]]
  BY <1>0, <1>2
<1>5. Source
  BY <1>3, <1>4 DEF Source
<1> QED  BY <1>0, <1>3, <1>5 DEF Placing

LEMMA PlacingNext ==
  ASSUME TransformAssumption, Placing, [Next]_vars
  PROVE  Placing'
<1>1. CASE UNCHANGED vars
  <2>1. UNCHANGED << image, info, dest, quant >> /\ srcArrays' = srcArrays /\ work' = work /\ pc' = pc /\ at' = at
        /\ image' = image /\ info' = info /\ quant' = quant
    BY <1>1 DEF vars
  <2>2. /\ \A i : Comp(i)' = Comp(i)
        /\ (Asked => Asked') /\ (Adjusted => Adjusted')
        /\ \A i : RoomX(i)' = RoomX(i) /\ RoomY(i)' = RoomY(i) /\ PartX(i)' = PartX(i) /\ PartY(i)' = PartY(i)
        /\ \A i : HeightOf(i)' = HeightOf(i)
        /\ \A i : SourceRows(i)' = SourceRows(i) /\ SourceCols(i)' = SourceCols(i)
        /\ \A c, x, y : Belongs(c, x, y)' = Belongs(c, x, y)
    BY <2>1, StaysAsked
  <2>3. (Source => Source') /\ (Workspace => Workspace') /\ (Target => Target')
    BY <2>1, <2>2 DEF Source, Workspace, Target
  <2>4. \A i, y : Original(i, y)' = Original(i, y)
    BY <2>1, <2>2 DEF Original
  <2>5. \A i, y : Written(i, y)' = Written(i, y)
    BY <2>1 DEF Written
  <2>6. \A i, y : RowPlaced(i, y) => RowPlaced(i, y)'
    BY <2>1, <2>2 DEF RowPlaced, Result
  <2> QED  BY <2>1, <2>2, <2>3, <2>4, <2>5, <2>6 DEF Placing
<1>2. CASE RequestWorkspace
  BY <1>2, RequestWorkspaceKeeps
<1>3. CASE Adjust
  BY <1>3, AdjustKeeps
<1>4. CASE CopyRow
  BY <1>4, CopyRowKeeps
<1>5. CASE FlipInPlace
  BY <1>5, FlipInPlaceKeeps
<1>6. CASE NothingToDo
  BY <1>6, NothingToDoKeeps
<1> QED  BY <1>1, <1>2, <1>3, <1>4, <1>5, <1>6 DEF Next

\* The invariant holds of every transform of every picture.
THEOREM PlacingHolds == ASSUME TransformAssumption PROVE Spec => []Placing
<1>1. Init => Placing
  BY PlacingInit
<1>2. Placing /\ [Next]_vars => Placing'
  BY PlacingNext
<1> QED  BY <1>1, <1>2, PTL DEF Spec

-----------------------------------------------------------------------------
(* What the invariant says of the output                                   *)

\* Column and row, turned, of the block that belongs at (x, y) of component c.
TurnedX(c, x) == Turned(NeedsRight(info.transform), x, c.xc, c.mw)
TurnedY(c, y) == Turned(NeedsBottom(info.transform), y, c.yc, c.mh)

\* Component i of the output is what belongs there.
OutputIs(i) ==
  \A y \in 0..Comp(i).ht - 1, x \in 0..Comp(i).w - 1 : Result[i].block[y][x] = Belongs(Comp(i), x, y)

LEMMA OutputBelongs ==
  ASSUME TransformAssumption, Placing, pc = "done", NEW i \in 1..info.n
  PROVE  /\ ImageFacts /\ Asked /\ Adjusted /\ Workspace /\ Source
         /\ CompFacts(i) /\ OutputIs(i)
<1>1. ImageFacts /\ Asked /\ Adjusted /\ Workspace /\ Source
  BY ImageIs DEF Placing
<1>2. CompFacts(i)
  BY <1>1, CompServes
<1>3. \A y \in Nat : y < Comp(i).ht => RowPlaced(i, y)
  BY DEF Placing, Written
<1>4. OutputIs(i)
  <2> SUFFICES ASSUME NEW y \in 0..Comp(i).ht - 1, NEW x \in 0..Comp(i).w - 1
               PROVE  Result[i].block[y][x] = Belongs(Comp(i), x, y)
    BY DEF OutputIs
  <2>1. Comp(i).ht \in Nat
    BY <1>2 DEF CompFacts, Serves
  <2>2. y \in Nat /\ y < Comp(i).ht
    BY <2>1
  <2> QED  BY <1>3, <2>2 DEF RowPlaced
<1> QED  BY <1>1, <1>2, <1>4

\* The parts of that block.
LEMMA BelongsIs ==
  ASSUME NEW i, CompFacts(i), NEW x \in 0..Comp(i).w - 1, NEW y \in 0..Comp(i).ht - 1
  PROVE  LET b == Belongs(Comp(i), x, y)
             swap == Transposes(info.transform)
         IN  /\ b.x = IF swap THEN TurnedY(Comp(i), y) ELSE TurnedX(Comp(i), x)
             /\ b.y = IF swap THEN TurnedX(Comp(i), x) ELSE TurnedY(Comp(i), y)
             /\ b.t = swap
             /\ b.sign = Sign(NeedsRight(info.transform) /\ x + Comp(i).xc < Comp(i).mw,
                              NeedsBottom(info.transform) /\ y + Comp(i).yc < Comp(i).mh)
             /\ TurnedX(Comp(i), x) \in Nat /\ TurnedY(Comp(i), y) \in Nat
<1> DEFINE c == Comp(i)
           t == info.transform
<1>1. /\ Serves(c.h, c.w, c.mw, c.xc, ExtentX(t, i), RoomX(i))
      /\ Serves(c.v, c.ht, c.mh, c.yc, ExtentY(t, i), RoomY(i))
  BY DEF CompFacts
<1>2. NeedsRight(t) \in BOOLEAN /\ NeedsBottom(t) \in BOOLEAN
  BY DEF NeedsRight, NeedsBottom
<1>3. TurnedX(c, x) \in Nat
  <2>1. /\ DivRoundUp(c.w, c.h) * c.h \in Nat /\ c.w <= DivRoundUp(c.w, c.h) * c.h /\ c.w \in Nat \ { 0 }
    BY <1>1, LastImcu
  <2>2. x \in Nat /\ x < DivRoundUp(c.w, c.h) * c.h
    BY <2>1
  <2>3. Turned(NeedsRight(t), x, c.xc, c.mw) \in 0..ExtentX(t, i) - 1
    <3> HIDE DEF c, t
    <3> QED  BY <1>1, <1>2, <2>2, TurnedIn
  <2>4. ExtentX(t, i) \in Nat
    BY <1>1 DEF Serves
  <2> QED  BY <2>3, <2>4 DEF TurnedX
<1>4. TurnedY(c, y) \in Nat
  <2>1. /\ DivRoundUp(c.ht, c.v) * c.v \in Nat /\ c.ht <= DivRoundUp(c.ht, c.v) * c.v /\ c.ht \in Nat \ { 0 }
    BY <1>1, LastImcu
  <2>2. y \in Nat /\ y < DivRoundUp(c.ht, c.v) * c.v
    BY <2>1
  <2>3. Turned(NeedsBottom(t), y, c.yc, c.mh) \in 0..ExtentY(t, i) - 1
    <3> HIDE DEF c, t
    <3> QED  BY <1>1, <1>2, <2>2, TurnedIn
  <2>4. ExtentY(t, i) \in Nat
    BY <1>1 DEF Serves
  <2> QED  BY <2>3, <2>4 DEF TurnedY
<1> HIDE DEF c, t
<1>5. Belongs(c, x, y) =
        [x |-> IF Transposes(t) THEN TurnedY(c, y) ELSE TurnedX(c, x),
         y |-> IF Transposes(t) THEN TurnedX(c, x) ELSE TurnedY(c, y), t |-> Transposes(t),
         sign |-> Sign(NeedsRight(t) /\ x + c.xc < c.mw, NeedsBottom(t) /\ y + c.yc < c.mh)]
  BY DEF Belongs, TurnedX, TurnedY, t
<1>6. /\ Belongs(c, x, y).x = IF Transposes(t) THEN TurnedY(c, y) ELSE TurnedX(c, x)
      /\ Belongs(c, x, y).y = IF Transposes(t) THEN TurnedX(c, x) ELSE TurnedY(c, y)
      /\ Belongs(c, x, y).t = Transposes(t)
      /\ Belongs(c, x, y).sign = Sign(NeedsRight(t) /\ x + c.xc < c.mw, NeedsBottom(t) /\ y + c.yc < c.mh)
  BY <1>5
<1> QED  BY <1>3, <1>4, <1>6 DEF c, t

\* The signs by parity of column and row.
LEMMA SignIs ==
  ASSUME NEW P \in BOOLEAN, NEW Q \in BOOLEAN
  PROVE  /\ Sign(P, Q)[<< 0, 1 >>] = IF P THEN -1 ELSE 1
         /\ Sign(P, Q)[<< 1, 0 >>] = IF Q THEN -1 ELSE 1
         /\ Sign(P, Q)[<< 1, 1 >>] = Sign(P, Q)[<< 0, 1 >>] * Sign(P, Q)[<< 1, 0 >>]
         /\ Sign(P, Q)[<< 0, 0 >>] = 1
<1>1. << 0, 1 >> \in Parity /\ << 1, 0 >> \in Parity /\ << 1, 1 >> \in Parity /\ << 0, 0 >> \in Parity
  BY DEF Parity
<1>2. \A p \in Parity : Sign(P, Q)[p] = (IF P /\ p[2] = 1 THEN -1 ELSE 1) * (IF Q /\ p[1] = 1 THEN -1 ELSE 1)
  BY DEF Sign
<1>3. /\ Sign(P, Q)[<< 0, 1 >>] = (IF P THEN -1 ELSE 1) * 1
      /\ Sign(P, Q)[<< 1, 0 >>] = 1 * (IF Q THEN -1 ELSE 1)
      /\ Sign(P, Q)[<< 1, 1 >>] = (IF P THEN -1 ELSE 1) * (IF Q THEN -1 ELSE 1)
      /\ Sign(P, Q)[<< 0, 0 >>] = 1 * 1
  BY <1>1, <1>2
<1> QED  BY <1>3

\* A transform turns either axis or both, and may exchange them.
LEMMA OriginIs ==
  ASSUME NEW t \in Kinds, NEW x, NEW y, NEW w, NEW h
  PROVE  LET sx == IF NeedsRight(t) THEN w - 1 - x ELSE x
             sy == IF NeedsBottom(t) THEN h - 1 - y ELSE y
         IN  Origin(t, x, y, w, h) = IF Transposes(t) THEN << sy, sx >> ELSE << sx, sy >>
BY DEF Origin, NeedsRight, NeedsBottom, Transposes, Kinds

\* A turned sample of a turned block.
LEMMA MirroredSample ==
  ASSUME NEW m \in Int, NEW q \in Int, NEW b \in Int, NEW p \in Int
  PROVE  (m - 1 - q) * b + (b - 1 - p) = m * b - 1 - (q * b + p)
OBVIOUS

LEMMA OutputType ==
  ASSUME TransformAssumption, Placing
  PROVE  TypeOK
<1>0. /\ image \in [width : Widths, height : Heights, comps : Samplings]
      /\ pc \in {"request", "adjust", "execute", "done", "refused", "error"}
      /\ pc \in {"request", "refused"} => work = << >>
      /\ pc = "error" => work = << >> \/ DOMAIN work = 1..info.n
      /\ pc \in {"adjust", "execute", "done"} => Asked /\ Workspace
      /\ pc \in {"execute", "done"} => Adjusted /\ Target
  BY DEF Placing
<1>1. ImageFacts
  BY <1>0, ImageIs
<1>2. ASSUME Asked
      PROVE  /\ info.n \in 1..Len(image.comps) /\ info.x.size >= 1 /\ info.y.size >= 1
             /\ info.x.offset >= 0 /\ info.y.offset >= 0
  <2>1. info.x \in [size : Nat \ { 0 }, offset : Nat] /\ info.y \in [size : Nat \ { 0 }, offset : Nat]
    BY <1>2 DEF Asked, AxisFacts, Fits
  <2>2. info.x.size >= 1 /\ info.y.size >= 1 /\ info.x.offset >= 0 /\ info.y.offset >= 0
    BY <2>1
  <2>3. info.n \in 1..Len(image.comps)
    BY <1>1, <1>2 DEF Asked, ImageFacts
  <2> QED  BY <2>2, <2>3
<1>3. ASSUME Asked, Adjusted
      PROVE  info.n = Len(dest.comps)
  <2> DEFINE n == info.n
             part == [i \in 1..n |-> [h |-> PartX(i), v |-> PartY(i)]]
  <2>1. n \in Nat
    BY <1>1, <1>2, <1>3 DEF ImageFacts
  <2>2. dest.comps = part
    BY <1>3 DEF Adjusted
  <2> HIDE DEF n
  <2>3. Len(part) = n
    BY <2>1
  <2> QED  BY <2>2, <2>3 DEF n
<1>4. ASSUME Target
      PROVE  at.ci \in 1..info.n
  BY <1>4 DEF Target
<1>5. work # << >> => DOMAIN work = 1..info.n
  BY <1>0 DEF Workspace
<1> QED  BY <1>0, <1>2, <1>3, <1>4, <1>5 DEF TypeOK

LEMMA OutputInside ==
  ASSUME TransformAssumption, Placing
  PROVE  Inside
<1>1. pc # "bad access"
  BY DEF Placing
<1>2. ASSUME NEW i \in DOMAIN work, NEW y \in DOMAIN work[i].block
      PROVE  DOMAIN work[i].block[y] = 0..work[i].cols - 1
  <2>0. work # << >>
    BY <1>2
  <2>1. CASE pc \in {"request", "refused"}
    BY <2>0, <2>1 DEF Placing
  <2>2. CASE pc = "error"
    <3>1. /\ DOMAIN work = 1..info.n
          /\ \A j \in 1..info.n : \A z \in DOMAIN work[j].block : DOMAIN work[j].block[z] = 0..work[j].cols - 1
      BY <2>0, <2>2 DEF Placing
    <3> QED  BY <1>2, <3>1
  <2>3. CASE pc \in {"adjust", "execute", "done"}
    <3>1. Workspace
      BY <2>3 DEF Placing
    <3>2. i \in 1..info.n /\ Shaped(work[i], RoomY(i), RoomX(i), PartY(i))
      <4>1. /\ work = [j \in 1..info.n |-> work[j]]
            /\ \A j \in 1..info.n : Shaped(work[j], RoomY(j), RoomX(j), PartY(j))
        BY <2>0, <3>1 DEF Workspace
      <4>2. DOMAIN work = 1..info.n
        BY <4>1
      <4> QED  BY <1>2, <4>1, <4>2
    <3> DEFINE a == work[i]
               rows == RoomY(i)
               cols == RoomX(i)
               f == [yy \in 0..rows - 1 |-> [x \in 0..cols - 1 |-> a.block[yy][x]]]
    <3>3. a = [rows |-> rows, cols |-> cols, most |-> PartY(i), block |-> a.block]
      BY <3>2 DEF Shaped
    <3>4. a.block = f
      BY <3>2 DEF Shaped
    <3>5. a.cols = cols
      BY <3>3
    <3>6. y \in 0..rows - 1
      BY <1>2, <3>4
    <3>7. a.block[y] = [x \in 0..cols - 1 |-> a.block[y][x]]
      BY <3>4, <3>6
    <3> HIDE DEF a
    <3>8. DOMAIN a.block[y] = 0..cols - 1
      BY <3>7
    <3> QED  BY <3>5, <3>8 DEF a
  <2> QED  BY <2>1, <2>2, <2>3 DEF Placing
<1>3. ASSUME pc = "done", NEW i \in 1..info.n
      PROVE  /\ Comp(i).ht <= Result[i].rows /\ Comp(i).w <= Result[i].cols
             /\ \A y \in 0..Comp(i).ht - 1, x \in 0..Comp(i).w - 1 : Result[i].block[y][x].x >= 0
  <2> DEFINE c == Comp(i)
  <2>1. /\ ImageFacts /\ Asked /\ Adjusted /\ Workspace /\ Source
        /\ CompFacts(i) /\ OutputIs(i)
    BY <1>3, OutputBelongs
  <2>2. /\ Serves(c.h, c.w, c.mw, c.xc, ExtentX(info.transform, i), RoomX(i))
        /\ Serves(c.v, c.ht, c.mh, c.yc, ExtentY(info.transform, i), RoomY(i))
        /\ i \in 1..Len(image.comps)
    BY <2>1 DEF CompFacts
  <2>3. /\ DivRoundUp(c.w, c.h) * c.h \in Nat /\ c.w <= DivRoundUp(c.w, c.h) * c.h /\ c.w \in Nat \ { 0 }
        /\ DivRoundUp(c.ht, c.v) * c.v \in Nat /\ c.ht <= DivRoundUp(c.ht, c.v) * c.v /\ c.ht \in Nat \ { 0 }
    BY <2>2, LastImcu
  <2>4. /\ c.w <= ExtentX(info.transform, i) /\ c.w <= RoomX(i)
        /\ c.ht <= ExtentY(info.transform, i) /\ c.ht <= RoomY(i)
    <3> HIDE DEF c
    <3>1. /\ DivRoundUp(c.w, c.h) * c.h + c.xc <= ExtentX(info.transform, i) /\ DivRoundUp(c.w, c.h) * c.h <= RoomX(i)
          /\ c.xc \in Nat /\ ExtentX(info.transform, i) \in Nat /\ RoomX(i) \in Nat
      BY <2>2 DEF Serves
    <3>2. /\ DivRoundUp(c.ht, c.v) * c.v + c.yc <= ExtentY(info.transform, i) /\ DivRoundUp(c.ht, c.v) * c.v <= RoomY(i)
          /\ c.yc \in Nat /\ ExtentY(info.transform, i) \in Nat /\ RoomY(i) \in Nat
      BY <2>2 DEF Serves
    <3>3. \A w \in Nat \ { 0 }, k \in Nat, o \in Nat, e \in Nat, room \in Nat :
            w <= k /\ k + o <= e /\ k <= room => w <= e /\ w <= room
      OBVIOUS
    <3> QED  BY <2>3, <3>1, <3>2, <3>3
  <2>5. c.ht <= Result[i].rows /\ c.w <= Result[i].cols
    <3>1. CASE work # << >>
      <4>1. Shaped(work[i], RoomY(i), RoomX(i), PartY(i))
        BY <2>1, <3>1 DEF Workspace
      <4>2. work[i].rows = RoomY(i) /\ work[i].cols = RoomX(i)
        BY <4>1 DEF Shaped
      <4> QED  BY <2>4, <3>1, <4>2 DEF Result
    <3>2. CASE work = << >>
      <4>1. info.transform \in {"none", "flip_h"}
        BY <2>1, <3>2, InPlace
      <4>2. ExtentX(info.transform, i) = SourceCols(i) /\ ExtentY(info.transform, i) = SourceRows(i)
        BY <4>1 DEF ExtentX, ExtentY, Transposes
      <4>3. Shaped(srcArrays[i], SourceRows(i), SourceCols(i), image.comps[i].v)
        BY <2>1, <2>2 DEF Source
      <4>4. srcArrays[i].rows = SourceRows(i) /\ srcArrays[i].cols = SourceCols(i)
        BY <4>3 DEF Shaped
      <4> QED  BY <2>4, <3>2, <4>2, <4>4 DEF Result
    <3> QED  BY <3>1, <3>2
  <2>6. ASSUME NEW y \in 0..c.ht - 1, NEW x \in 0..c.w - 1
        PROVE  Result[i].block[y][x].x >= 0
    <3>1. Result[i].block[y][x] = Belongs(c, x, y)
      BY <2>1, <2>6 DEF OutputIs
    <3>2. Belongs(c, x, y).x \in Nat
      BY <2>1, <2>6, BelongsIs
    <3> QED  BY <3>1, <3>2
  <2> QED  BY <2>5, <2>6
<1> QED  BY <1>1, <1>2, <1>3 DEF Inside

\* Sample p of the block at q, seen from the turned axis.
SampleIs(flips, q, crop, m, p) ==
  Turned(flips, q, crop, m) * BlockSize + (IF flips THEN BlockSize - 1 - p ELSE p)
    = IF flips THEN m * BlockSize - 1 - ((q + crop) * BlockSize + p) ELSE (q + crop) * BlockSize + p

LEMMA TurnedSample ==
  ASSUME NEW flips \in BOOLEAN, NEW q \in Nat, NEW crop \in Nat, NEW m \in Nat, NEW p \in Int,
         flips => q + crop < m, BlockSize \in Nat \ { 0 }
  PROVE  SampleIs(flips, q, crop, m, p)
<1>1. CASE flips
  <2>1. Turned(flips, q, crop, m) = m - 1 - (q + crop)
    BY <1>1 DEF Turned
  <2>2. q + crop \in Int
    OBVIOUS
  <2>3. (m - 1 - (q + crop)) * BlockSize + (BlockSize - 1 - p) = m * BlockSize - 1 - ((q + crop) * BlockSize + p)
    BY <2>2, MirroredSample
  <2> QED  BY <1>1, <2>1, <2>3 DEF SampleIs
<1>2. CASE ~flips
  <2>1. Turned(flips, q, crop, m) = q + crop
    BY <1>2 DEF Turned
  <2> QED  BY <1>2, <2>1 DEF SampleIs
<1> QED  BY <1>1, <1>2

LEMMA OutputPlaced ==
  ASSUME TransformAssumption, Placing
  PROVE  PicturePlaced
<1> SUFFICES ASSUME pc = "done", NEW i \in 1..info.n,
                    NEW y \in 0..Comp(i).ht - 1, NEW x \in 0..Comp(i).w - 1,
                    NeedsRight(info.transform) => x + Comp(i).xc < Comp(i).mw,
                    NeedsBottom(info.transform) => y + Comp(i).yc < Comp(i).mh
             PROVE  LET c == Comp(i)
                        b == Result[i].block[y][x]
                    IN  /\ b.sign[<< 1, 1 >>] = b.sign[<< 0, 1 >>] * b.sign[<< 1, 0 >>]
                        /\ b.sign[<< 0, 0 >>] = 1
                        /\ \A py, px \in { 0, BlockSize - 1 } :
                             SampleOf(b, px, py) =
                               Origin(info.transform, (x + c.xc) * BlockSize + px,
                                      (y + c.yc) * BlockSize + py, c.mw * BlockSize, c.mh * BlockSize)
  BY ZenonT(60) DEF PicturePlaced
<1> DEFINE t == info.transform
           mirx == NeedsRight(t)
           miry == NeedsBottom(t)
           swap == Transposes(t)
           c == Comp(i)
           b == Result[i].block[y][x]
<1>1. ImageFacts /\ Asked /\ CompFacts(i) /\ OutputIs(i)
  BY OutputBelongs
<1>2. b = Belongs(c, x, y)
  BY <1>1 DEF OutputIs
<1>3. mirx \in BOOLEAN /\ miry \in BOOLEAN /\ swap \in BOOLEAN
  BY DEF NeedsRight, NeedsBottom, Transposes
<1>4. /\ b.x = IF swap THEN TurnedY(c, y) ELSE TurnedX(c, x)
      /\ b.y = IF swap THEN TurnedX(c, x) ELSE TurnedY(c, y)
      /\ TurnedX(c, x) \in Nat /\ TurnedY(c, y) \in Nat
      /\ b.sign = Sign(mirx /\ x + c.xc < c.mw, miry /\ y + c.yc < c.mh)
      /\ b.t = swap
  BY <1>1, <1>2, BelongsIs
<1>5. /\ c.xc \in Nat /\ c.mw \in Nat /\ c.yc \in Nat /\ c.mh \in Nat /\ c.w \in Nat /\ c.ht \in Nat
      /\ BlockSize \in Nat \ { 0 } /\ t \in Kinds
  BY <1>1 DEF CompFacts, Serves, ImageFacts, Asked
<1>6. x \in Nat /\ y \in Nat
  BY <1>5
<1> HIDE DEF b, c
<1>7. b.sign = Sign(mirx, miry)
  <2>1. (mirx /\ x + c.xc < c.mw) = mirx /\ (miry /\ y + c.yc < c.mh) = miry
    BY <1>3 DEF c
  <2> QED  BY <1>4, <2>1
<1>8. /\ b.sign[<< 0, 1 >>] = IF mirx THEN -1 ELSE 1
      /\ b.sign[<< 1, 0 >>] = IF miry THEN -1 ELSE 1
      /\ b.sign[<< 1, 1 >>] = b.sign[<< 0, 1 >>] * b.sign[<< 1, 0 >>]
      /\ b.sign[<< 0, 0 >>] = 1
  BY <1>3, <1>7, SignIs
<1>9. ASSUME NEW py \in { 0, BlockSize - 1 }, NEW px \in { 0, BlockSize - 1 }
      PROVE  SampleOf(b, px, py) =
               Origin(t, (x + c.xc) * BlockSize + px, (y + c.yc) * BlockSize + py,
                      c.mw * BlockSize, c.mh * BlockSize)
  <2> DEFINE fx == IF mirx THEN BlockSize - 1 - px ELSE px
             fy == IF miry THEN BlockSize - 1 - py ELSE py
             ax == (x + c.xc) * BlockSize + px
             ay == (y + c.yc) * BlockSize + py
             w == c.mw * BlockSize
             h == c.mh * BlockSize
             sx == IF mirx THEN w - 1 - ax ELSE ax
             sy == IF miry THEN h - 1 - ay ELSE ay
  <2>1. px \in Int /\ py \in Int
    BY <1>5
  <2>2. TurnedX(c, x) * BlockSize + fx = sx
    <3>1. mirx => x + c.xc < c.mw
      BY DEF c
    <3>2. TurnedX(c, x) = Turned(mirx, x, c.xc, c.mw)
      BY DEF TurnedX
    <3>3. mirx \in BOOLEAN
      BY <1>3
    <3> HIDE DEF mirx, t
    <3>4. SampleIs(mirx, x, c.xc, c.mw, px)
      BY <1>5, <1>6, <2>1, <3>1, <3>3, TurnedSample
    <3> QED  BY <3>2, <3>4 DEF SampleIs
  <2>3. TurnedY(c, y) * BlockSize + fy = sy
    <3>1. miry => y + c.yc < c.mh
      BY DEF c
    <3>2. TurnedY(c, y) = Turned(miry, y, c.yc, c.mh)
      BY DEF TurnedY
    <3>3. miry \in BOOLEAN
      BY <1>3
    <3> HIDE DEF miry, t
    <3>4. SampleIs(miry, y, c.yc, c.mh, py)
      BY <1>5, <1>6, <2>1, <3>1, <3>3, TurnedSample
    <3> QED  BY <3>2, <3>4 DEF SampleIs
  <2>4. SampleOf(b, px, py) = << b.x * BlockSize + (IF b.t THEN fy ELSE fx), b.y * BlockSize + (IF b.t THEN fx ELSE fy) >>
    BY <1>8 DEF SampleOf
  <2>5. Origin(t, ax, ay, w, h) = IF swap THEN << sy, sx >> ELSE << sx, sy >>
    BY <1>5, OriginIs
  <2> HIDE DEF fx, fy, sx, sy, swap
  <2>6. SampleOf(b, px, py) = IF swap THEN << sy, sx >> ELSE << sx, sy >>
    <3>1. CASE swap
      <4>1. b.x = TurnedY(c, y) /\ b.y = TurnedX(c, x) /\ b.t
        BY <1>4, <3>1
      <4> QED  BY <2>2, <2>3, <2>4, <3>1, <4>1
    <3>2. CASE ~swap
      <4>1. b.x = TurnedX(c, x) /\ b.y = TurnedY(c, y) /\ ~b.t
        BY <1>4, <3>2
      <4> QED  BY <2>2, <2>3, <2>4, <3>2, <4>1
    <3> QED  BY <3>1, <3>2
  <2> QED  BY <2>5, <2>6
<1> QED  BY <1>8, <1>9 DEF b, c

LEMMA OutputMirrored ==
  ASSUME TransformAssumption, Placing
  PROVE  NothingUnmirrored
<1> DEFINE t == info.transform
<1> SUFFICES ASSUME pc = "done", info.perfect \/ info.trim, NEW i \in 1..info.n
             PROVE  LET c == Comp(i) IN
                      /\ NeedsRight(t) /\ (info.trim => info.x.size >= MaxOf(dest.comps, "h") * BlockSize)
                           => c.xc + c.w <= c.mw
                      /\ NeedsBottom(t) /\ (info.trim => info.y.size >= MaxOf(dest.comps, "v") * BlockSize)
                           => c.yc + c.ht <= c.mh
  BY DEF NothingUnmirrored
<1> DEFINE c == Comp(i)
<1>1. ImageFacts /\ Asked /\ Adjusted
  BY OutputBelongs
<1>2. MaxOf(dest.comps, "h") * BlockSize = ImcuX /\ MaxOf(dest.comps, "v") * BlockSize = ImcuY
  BY <1>1, TopsAre DEF ImcuX, ImcuY, McuX, McuY
<1>3. PartX(i) \in 1..4 /\ PartY(i) \in 1..4 /\ ImcuX \in Nat \ { 0 } /\ ImcuY \in Nat \ { 0 }
  <2>1. info.n = 1 \/ info.n = Len(image.comps)
    BY <1>1 DEF Asked
  <2> QED  BY <1>1, <2>1, SampsAre DEF PartX, PartY, ImcuX, ImcuY
<1>4. AxisFacts(info.x, FullX(t), ImcuX, NeedsRight(t)) /\ AxisFacts(info.y, FullY(t), ImcuY, NeedsBottom(t))
  BY <1>1 DEF Asked, ImcuX, ImcuY
<1>5. /\ c.w = BlocksOf(info.x.size, PartX(i), ImcuX) /\ c.ht = BlocksOf(info.y.size, PartY(i), ImcuY)
      /\ c.mw = Covered(FullX(t), PartX(i), ImcuX) /\ c.mh = Covered(FullY(t), PartY(i), ImcuY)
      /\ c.xc = info.x.offset * PartX(i) /\ c.yc = info.y.offset * PartY(i)
  BY <1>1, CompIs
<1>6. ASSUME NeedsRight(t), info.trim => info.x.size >= ImcuX
      PROVE  c.xc + c.w <= c.mw
  <2>1. Fits(info.x, FullX(t), ImcuX)
    BY <1>4 DEF AxisFacts
  <2>2. CASE info.perfect
    <3>1. FullX(t) % ImcuX = 0
      BY <1>4, <1>6, <2>2 DEF AxisFacts
    <3> QED  BY <1>3, <1>5, <2>1, <3>1, PerfectCovers
  <2>3. CASE info.trim
    <3>1. Trim(info.x, FullX(t), ImcuX)
      BY <1>4, <1>6, <2>3 DEF AxisFacts
    <3> QED  BY <1>3, <1>5, <1>6, <2>1, <2>3, <3>1, TrimCovers
  <2> QED  BY <2>2, <2>3
<1>7. ASSUME NeedsBottom(t), info.trim => info.y.size >= ImcuY
      PROVE  c.yc + c.ht <= c.mh
  <2>1. Fits(info.y, FullY(t), ImcuY)
    BY <1>4 DEF AxisFacts
  <2>2. CASE info.perfect
    <3>1. FullY(t) % ImcuY = 0
      BY <1>4, <1>7, <2>2 DEF AxisFacts
    <3> QED  BY <1>3, <1>5, <2>1, <3>1, PerfectCovers
  <2>3. CASE info.trim
    <3>1. Trim(info.y, FullY(t), ImcuY)
      BY <1>4, <1>7, <2>3 DEF AxisFacts
    <3> QED  BY <1>3, <1>5, <1>7, <2>1, <2>3, <3>1, TrimCovers
  <2> QED  BY <2>2, <2>3
<1> QED  BY <1>2, <1>6, <1>7

\* Without an offset, turning an axis that holds what is turned is its own inverse.
LEMMA TurnedTwice ==
  ASSUME NEW flips \in BOOLEAN, NEW m \in Nat, NEW size \in Nat, m <= size, NEW q \in 0..size - 1
  PROVE  /\ Turned(flips, q, 0, m) \in 0..size - 1
         /\ Turned(flips, Turned(flips, q, 0, m), 0, m) = q
BY DEF Turned

LEMMA OutputOnce ==
  ASSUME TransformAssumption, Placing
  PROVE  EveryBlockOnce
<1> DEFINE t == info.transform
           swap == Transposes(t)
<1> SUFFICES ASSUME pc = "done", ~info.crop, ~info.trim, NEW i \in 1..info.n
             PROVE  LET c == Comp(i)
                        place == { << Result[i].block[y][x].x, Result[i].block[y][x].y >> :
                                     x \in 0..c.w - 1, y \in 0..c.ht - 1 }
                    IN  place = (0..(IF swap THEN c.ht ELSE c.w) - 1) \X (0..(IF swap THEN c.w ELSE c.ht) - 1)
  BY DEF EveryBlockOnce
<1> DEFINE c == Comp(i)
           b(x, y) == Result[i].block[y][x]
           X(x) == Turned(NeedsRight(t), x, 0, c.mw)
           Y(y) == Turned(NeedsBottom(t), y, 0, c.mh)
<1>1. ImageFacts /\ Asked /\ Adjusted /\ CompFacts(i) /\ OutputIs(i)
  BY OutputBelongs
<1>2. info.x = [size |-> FullX(t), offset |-> 0] /\ info.y = [size |-> FullY(t), offset |-> 0]
  BY <1>1 DEF Asked, AxisFacts
<1>3. c.xc = 0 /\ c.yc = 0
  <2>1. c.xc = info.x.offset * PartX(i) /\ c.yc = info.y.offset * PartY(i)
    BY <1>1, CompIs
  <2>2. info.x.offset = 0 /\ info.y.offset = 0
    BY <1>2
  <2>3. PartX(i) \in Int /\ PartY(i) \in Int
    <3>1. c.h = PartX(i) /\ c.v = PartY(i) /\ c.h \in 1..4 /\ c.v \in 1..4
      <4>1. /\ Serves(c.h, c.w, c.mw, c.xc, ExtentX(t, i), RoomX(i))
            /\ Serves(c.v, c.ht, c.mh, c.yc, ExtentY(t, i), RoomY(i))
            /\ c.h = PartX(i) /\ c.v = PartY(i)
        BY <1>1 DEF CompFacts
      <4> HIDE DEF c, t
      <4> QED  BY <4>1 DEF Serves
    <3> HIDE DEF c
    <3> QED  BY <3>1
  <2> HIDE DEF c
  <2> QED  BY <2>1, <2>2, <2>3
<1>4. /\ c.w \in Nat /\ c.ht \in Nat /\ c.mw \in Nat /\ c.mh \in Nat /\ c.mw <= c.w /\ c.mh <= c.ht
  <2>1. info.x.size = FullX(t) /\ info.y.size = FullY(t)
    BY <1>2
  <2> QED  BY <1>1, <2>1 DEF CompFacts, Serves, HeightOf
<1>5. \A x \in 0..c.w - 1, y \in 0..c.ht - 1 :
        /\ b(x, y).x = IF swap THEN Y(y) ELSE X(x)
        /\ b(x, y).y = IF swap THEN X(x) ELSE Y(y)
  <2> SUFFICES ASSUME NEW x \in 0..c.w - 1, NEW y \in 0..c.ht - 1
               PROVE  /\ b(x, y).x = IF swap THEN Y(y) ELSE X(x)
                      /\ b(x, y).y = IF swap THEN X(x) ELSE Y(y)
    OBVIOUS
  <2>1. b(x, y) = Belongs(c, x, y)
    BY <1>1 DEF OutputIs
  <2>2. TurnedX(c, x) = X(x) /\ TurnedY(c, y) = Y(y)
    BY <1>3 DEF TurnedX, TurnedY
  <2>3. /\ Belongs(c, x, y).x = IF swap THEN TurnedY(c, y) ELSE TurnedX(c, x)
        /\ Belongs(c, x, y).y = IF swap THEN TurnedX(c, x) ELSE TurnedY(c, y)
    BY <1>1, BelongsIs
  <2> QED  BY <2>1, <2>2, <2>3
<1>6. \A x \in 0..c.w - 1 : X(x) \in 0..c.w - 1 /\ X(X(x)) = x
  <2>1. NeedsRight(t) \in BOOLEAN
    BY DEF NeedsRight
  <2> QED  BY <1>4, <2>1, TurnedTwice
<1>7. \A y \in 0..c.ht - 1 : Y(y) \in 0..c.ht - 1 /\ Y(Y(y)) = y
  <2>1. NeedsBottom(t) \in BOOLEAN
    BY DEF NeedsBottom
  <2> QED  BY <1>4, <2>1, TurnedTwice
<1> DEFINE cols == 0..c.w - 1
           rows == 0..c.ht - 1
<1> HIDE DEF X, Y, b, swap, c
<1>8. CASE swap
  <2>1. \A x \in cols, y \in rows : b(x, y).x = Y(y) /\ b(x, y).y = X(x)
    BY <1>5, <1>8
  <2> HIDE DEF cols, rows
  <2>2. \A x \in cols : X(x) \in cols /\ X(X(x)) = x
    BY <1>6 DEF cols
  <2>3. \A y \in rows : Y(y) \in rows /\ Y(Y(y)) = y
    BY <1>7 DEF rows
  <2>4. { << b(x, y).x, b(x, y).y >> : x \in cols, y \in rows } = rows \X cols
    <3>1. { << b(x, y).x, b(x, y).y >> : x \in cols, y \in rows } = { << Y(y), X(x) >> : x \in cols, y \in rows }
      BY <2>1
    <3>2. { << Y(y), X(x) >> : x \in cols, y \in rows } = rows \X cols
      BY <2>2, <2>3
    <3> QED  BY <3>1, <3>2
  <2> QED  BY <1>8, <2>4 DEF cols, rows, b, swap, c
<1>9. CASE ~swap
  <2>1. \A x \in cols, y \in rows : b(x, y).x = X(x) /\ b(x, y).y = Y(y)
    BY <1>5, <1>9
  <2> HIDE DEF cols, rows
  <2>2. \A x \in cols : X(x) \in cols /\ X(X(x)) = x
    BY <1>6 DEF cols
  <2>3. \A y \in rows : Y(y) \in rows /\ Y(Y(y)) = y
    BY <1>7 DEF rows
  <2>4. { << b(x, y).x, b(x, y).y >> : x \in cols, y \in rows } = cols \X rows
    <3>1. { << b(x, y).x, b(x, y).y >> : x \in cols, y \in rows } = { << X(x), Y(y) >> : x \in cols, y \in rows }
      BY <2>1
    <3>2. { << X(x), Y(y) >> : x \in cols, y \in rows } = cols \X rows
      BY <2>2, <2>3
    <3> QED  BY <3>1, <3>2
  <2> QED  BY <1>9, <2>4 DEF cols, rows, b, swap, c
<1> QED  BY <1>8, <1>9

LEMMA OutputSteps ==
  ASSUME TransformAssumption, Placing
  PROVE  StepKept
<1> SUFFICES ASSUME pc = "done", NEW i \in 1..info.n,
                    NEW y \in 0..Comp(i).ht - 1, NEW x \in 0..Comp(i).w - 1, NEW p \in DOMAIN quant
             PROVE  quant[p] = IF Result[i].block[y][x].t THEN << p[2], p[1] >> ELSE p
  BY DEF StepKept
<1>1. Adjusted /\ CompFacts(i) /\ OutputIs(i)
  BY OutputBelongs
<1>2. Result[i].block[y][x].t = Transposes(info.transform)
  <2>1. Result[i].block[y][x] = Belongs(Comp(i), x, y)
    BY <1>1 DEF OutputIs
  <2>2. Belongs(Comp(i), x, y).t = Transposes(info.transform)
    BY <1>1, BelongsIs
  <2> QED  BY <2>1, <2>2
<1>3. quant[p] = IF Transposes(info.transform) THEN << p[2], p[1] >> ELSE p
  <2>1. quant = [q \in (0..2) \X (0..2) |-> IF Transposes(info.transform) THEN << q[2], q[1] >> ELSE q]
    BY <1>1 DEF Adjusted
  <2>2. p \in (0..2) \X (0..2)
    BY <2>1
  <2> QED  BY <2>1, <2>2
<1> QED  BY <1>2, <1>3

\* Every block of the output is where it belongs, in every picture and whatever is asked:
\* no routine leaves its arrays, the picture is turned sample by sample, nothing that should
\* be mirrored is left out, no block is lost and no coefficient loses its quantization step.
THEOREM BlocksPlacedHolds == ASSUME TransformAssumption PROVE Spec => []BlocksPlaced
<1>1. Placing => BlocksPlaced
  BY OutputType, OutputInside, OutputPlaced, OutputMirrored, OutputOnce, OutputSteps DEF BlocksPlaced
<1> QED  BY <1>1, PlacingHolds, PTL

-----------------------------------------------------------------------------
(* The divisors                                                            *)

\* A picture and its sampling factors.
PicFacts ==
  /\ Comps = 1..Len(pic.comps) /\ Len(pic.comps) \in Nat \ { 0 }
  /\ \A c \in Comps : pic.comps[c].h \in 1..4 /\ pic.comps[c].v \in 1..4 /\ pic.comps[c].tbl \in Nat
  /\ MaxHSamp \in 1..4 /\ MaxVSamp \in 1..4
  /\ pic.quant \in [Tables -> Nat] /\ pic.method \in { "islow", "ifast", "float" }
  /\ pic.size \in 1..16 /\ pic.fancy \in BOOLEAN

LEMMA PicIs ==
  ASSUME PictureAssumption, pic \in Pictures
  PROVE  PicFacts
<1>1. /\ pic.comps \in Seq([h : 1..4, v : 1..4, tbl : Nat]) /\ pic.comps # << >>
      /\ pic.quant \in [Tables -> Nat] /\ pic.method \in { "islow", "ifast", "float" }
      /\ pic.size \in 1..16 /\ pic.fancy \in BOOLEAN
  BY DEF PictureAssumption
<1>2. Comps = 1..Len(pic.comps) /\ Len(pic.comps) \in Nat \ { 0 }
  BY <1>1 DEF Comps
<1>3. \A c \in Comps : pic.comps[c] \in [h : 1..4, v : 1..4, tbl : Nat]
  <2> DEFINE R == [h : 1..4, v : 1..4, tbl : Nat]
  <2>1. pic.comps \in Seq(R)
    BY <1>1
  <2> HIDE DEF R
  <2>2. \A c \in 1..Len(pic.comps) : pic.comps[c] \in R
    BY <2>1
  <2> QED  BY <1>2, <2>2 DEF R
<1>4. \A c \in Comps : pic.comps[c].h \in 1..4 /\ pic.comps[c].v \in 1..4 /\ pic.comps[c].tbl \in Nat
  BY <1>3
<1>5. MaxHSamp \in 1..4
  <2> DEFINE S == { pic.comps[c].h : c \in Comps }
  <2>0. 1 \in Comps
    BY <1>2
  <2>1. S \subseteq 1..4 /\ S # {}
    BY <1>4, <2>0
  <2> HIDE DEF S
  <2>2. Max(S) \in S
    BY <2>1, MaxOfFour
  <2> QED  BY <2>1, <2>2 DEF MaxHSamp, S
<1>6. MaxVSamp \in 1..4
  <2> DEFINE S == { pic.comps[c].v : c \in Comps }
  <2>0. 1 \in Comps
    BY <1>2
  <2>1. S \subseteq 1..4 /\ S # {}
    BY <1>4, <2>0
  <2> HIDE DEF S
  <2>2. Max(S) \in S
    BY <2>1, MaxOfFour
  <2> QED  BY <2>1, <2>2 DEF MaxVSamp, S
<1> QED  BY <1>1, <1>2, <1>4, <1>5, <1>6 DEF PicFacts

-----------------------------------------------------------------------------
\* The loops over ssize.
Doubled(max, samp, k) ==
  /\ k \in { 1, 2, 4 } /\ pic.size * k <= 16
  /\ k # 1 => max % (samp * k) = 0

LEMMA ScaledSizeIs ==
  ASSUME PicFacts, NEW max \in 1..4, NEW samp \in 1..4
  PROVE  \E k \in { 1, 2, 4 } : ScaledSize(max, samp) = pic.size * k /\ Doubled(max, samp, k)
<1> DEFINE limit == IF pic.fancy THEN DCTSIZE ELSE DCTSIZE \div 2
           c(s) == pic.size * s <= limit /\ max % (samp * s * 2) = 0
           n == pic.size
           f == CHOOSE g : g = [s \in Nat |-> IF pic.size * s <= limit /\ max % (samp * s * 2) = 0
                                               THEN g[2 * s] ELSE pic.size * s]
           four == IF c(2) THEN n * 4 ELSE n * 2
           g == [s \in Nat |-> IF s = 1 THEN IF c(1) THEN four ELSE n
                              ELSE IF s = 2 THEN four ELSE n * s]
<1>1. limit \in 0..8 /\ n \in 1..16
  BY DEF PicFacts, DCTSIZE
<1>2. \A s \in Nat : s > 2 => ~c(s)
  <2> SUFFICES ASSUME NEW s \in Nat, s > 2
               PROVE  max % (samp * s * 2) # 0
    OBVIOUS
  <2> DEFINE m == samp * s * 2
  <2>1. m \in Nat /\ m > 4
    <3>1. samp * s >= s /\ samp * s \in Nat
      OBVIOUS
    <3> QED  BY <3>1
  <2> HIDE DEF m
  <2>2. max % m = max
    BY <2>1
  <2> QED  BY <2>2 DEF m
<1>3. \A s \in Nat : g[s] = IF c(s) THEN g[2 * s] ELSE n * s
  <2> SUFFICES ASSUME NEW s \in Nat
               PROVE  g[s] = IF c(s) THEN g[2 * s] ELSE n * s
    OBVIOUS
  <2>0. 2 * s \in Nat
    OBVIOUS
  <2>1. CASE s = 0
    BY <2>1, <1>1
  <2>2. CASE s = 1
    BY <2>2, <1>1
  <2>3. CASE s = 2
    BY <2>3, <1>1
  <2>4. CASE s > 2
    <3>1. g[s] = n * s
      BY <2>4
    <3> QED  BY <2>4, <1>2, <3>1
  <2> QED  BY <2>1, <2>2, <2>3, <2>4
<1>4. g = [s \in Nat |-> IF c(s) THEN g[2 * s] ELSE n * s]
  BY <1>3
<1>5. f = [s \in Nat |-> IF c(s) THEN f[2 * s] ELSE n * s]
  BY <1>4
<1>6. ScaledSize(max, samp) = f[1]
  BY DEF ScaledSize
<1> HIDE DEF f
<1>7. \A s \in Nat : f[s] = IF c(s) THEN f[2 * s] ELSE n * s
  BY <1>5
<1>8. /\ f[1] = IF c(1) THEN f[2] ELSE n
      /\ f[2] = IF c(2) THEN f[4] ELSE n * 2
      /\ f[4] = n * 4
  BY <1>1, <1>2, <1>7
<1> DEFINE k == IF c(1) THEN IF c(2) THEN 4 ELSE 2 ELSE 1
<1>9. f[1] = n * k /\ k \in { 1, 2, 4 }
  BY <1>8, <1>1
<1>10. n * k <= 16 /\ (k # 1 => max % (samp * k) = 0)
  BY <1>1
<1> HIDE DEF k
<1> QED  BY <1>6, <1>9, <1>10 DEF Doubled

\* What initial_setup chooses: a multiple of the scale in each direction, none twice as
\* large as the other.
Sized(c, j, k) ==
  /\ dct[c] = << pic.size * j, pic.size * k >>
  /\ Doubled(MaxHSamp, pic.comps[c].h, j) /\ Doubled(MaxVSamp, pic.comps[c].v, k)
  /\ j <= 2 * k /\ k <= 2 * j

LEMMA SetupSizes ==
  ASSUME PicFacts, NEW c \in Comps, MasterSetup
  PROVE  \E j, k \in { 1, 2, 4 } : Sized(c, j, k)'
<1> DEFINE h == pic.comps[c].h
           v == pic.comps[c].v
           n == pic.size
<1>1. h \in 1..4 /\ v \in 1..4 /\ MaxHSamp \in 1..4 /\ MaxVSamp \in 1..4 /\ n \in 1..16
  BY DEF PicFacts
<1>2. PICK j \in { 1, 2, 4 } : ScaledSize(MaxHSamp, h) = n * j /\ Doubled(MaxHSamp, h, j)
  BY <1>1, ScaledSizeIs
<1>3. PICK k \in { 1, 2, 4 } : ScaledSize(MaxVSamp, v) = n * k /\ Doubled(MaxVSamp, v, k)
  BY <1>1, ScaledSizeIs
<1>4. dct'[c] = AtMostTwo(n * j, n * k)
  BY <1>2, <1>3 DEF MasterSetup
<1>5. pic' = pic /\ Comps' = Comps /\ MaxHSamp' = MaxHSamp /\ MaxVSamp' = MaxVSamp
  BY DEF MasterSetup, Comps, MaxHSamp, MaxVSamp
<1>6. ASSUME NEW a \in { 1, 2, 4 }, NEW b \in { 1, 2, 4 }, dct'[c] = << n * a, n * b >>,
             Doubled(MaxHSamp, h, a), Doubled(MaxVSamp, v, b), a <= 2 * b, b <= 2 * a
      PROVE  Sized(c, a, b)'
  BY <1>5, <1>6 DEF Sized, Doubled
<1>7. CASE j <= 2 * k /\ k <= 2 * j
  <2>1. AtMostTwo(n * j, n * k) = << n * j, n * k >>
    BY <1>1, <1>7, <1>2, <1>3 DEF AtMostTwo
  <2> QED  BY <1>2, <1>3, <1>4, <1>6, <1>7, <2>1
<1>8. CASE j > 2 * k
  <2>1. j = 4 /\ k = 1
    BY <1>8
  <2>2. AtMostTwo(n * j, n * k) = << n * 2, n * 1 >>
    BY <1>1, <2>1 DEF AtMostTwo
  <2>3. Doubled(MaxHSamp, h, 2)
    BY <1>1, <1>2, <2>1 DEF Doubled
  <2> QED  BY <1>3, <1>4, <1>6, <2>1, <2>2, <2>3
<1>9. CASE k > 2 * j
  <2>1. j = 1 /\ k = 4
    BY <1>9
  <2>2. AtMostTwo(n * j, n * k) = << n * 1, n * 2 >>
    BY <1>1, <2>1 DEF AtMostTwo
  <2>3. Doubled(MaxVSamp, v, 2)
    BY <1>1, <1>3, <2>1 DEF Doubled
  <2> QED  BY <1>2, <1>4, <1>6, <2>1, <2>2, <2>3
<1> QED  BY <1>7, <1>8, <1>9

\* There is a routine for each of these sizes, and the ratio left is whole.
LEMMA SizesServe ==
  ASSUME PicFacts, NEW c \in Comps, NEW j \in { 1, 2, 4 }, NEW k \in { 1, 2, 4 }, Sized(c, j, k)
  PROVE  /\ dct[c] \in Scaled
         /\ MaxHSamp % pic.comps[c].h = 0 => MaxHSamp % (pic.comps[c].h * (dct[c][1] \div pic.size)) = 0
         /\ MaxVSamp % pic.comps[c].v = 0 => MaxVSamp % (pic.comps[c].v * (dct[c][2] \div pic.size)) = 0
<1> DEFINE h == pic.comps[c].h
           v == pic.comps[c].v
           n == pic.size
<1>1. h \in 1..4 /\ v \in 1..4 /\ MaxHSamp \in 1..4 /\ MaxVSamp \in 1..4 /\ n \in 1..16
  BY DEF PicFacts
<1>2. dct[c] = << n * j, n * k >> /\ n * j \in 1..16 /\ n * k \in 1..16
  BY <1>1 DEF Sized, Doubled
<1>3. dct[c] \in Scaled
  <2>1. j = k \/ j = 2 * k \/ k = 2 * j
    BY DEF Sized
  <2> DEFINE a == n * j
             b == n * k
  <2>2. a \in 1..16 /\ b \in 1..16 /\ dct[c] = << a, b >> /\ (a = b \/ a = 2 * b \/ b = 2 * a)
    BY <1>1, <1>2, <2>1
  <2> HIDE DEF a, b
  <2> QED  BY <2>2 DEF Scaled
<1>4. (n * j) \div n = j /\ (n * k) \div n = k
  BY <1>1
<1>5. (MaxHSamp % h = 0 => MaxHSamp % (h * j) = 0) /\ (MaxVSamp % v = 0 => MaxVSamp % (v * k) = 0)
  BY <1>1 DEF Sized, Doubled
<1> QED  BY <1>2, <1>3, <1>4, <1>5

-----------------------------------------------------------------------------
(* The pass                                                                *)
\* What components that share a table have left there when component n is next.
OverwrittenBy(c, n) ==
  \E d \in Comps : /\ d > c /\ d < n /\ pic.comps[d].tbl = pic.comps[c].tbl
                    /\ { OwnMethod(c), OwnMethod(d) } = { "islow", "ifast" }
Stored(c) ==
  LET t == pic.comps[c].tbl IN
  /\ t \in Tables
  /\ OwnMethod(c) = "float" => floatDivisors[t] = << pic.quant[t] >>
  /\ OwnMethod(c) # "float" /\ ~OverwrittenBy(c, ci) => divisors[t] = Divisors(OwnMethod(c), pic.quant[t])

\* The inductive invariant.
Divided ==
  /\ pic \in Pictures /\ state \in { "setup", "starting", "ready", "refused" }
  /\ ci \in 1..Len(pic.comps) + 1
  /\ DOMAIN divisors = Tables /\ DOMAIN floatDivisors = Tables
  /\ state = "setup" => ci = 1
  /\ state # "setup" => \A c \in Comps : \E j, k \in { 1, 2, 4 } : Sized(c, j, k)
  /\ \A c \in Comps : c < ci => Stored(c)
  /\ state = "ready" => ci = Len(pic.comps) + 1
  /\ RefusedRightly

\* It holds at the start and every step keeps it.
LEMMA DividedInit ==
  ASSUME PictureAssumption, DctInit
  PROVE  Divided
<1>1. PicFacts
  BY PicIs DEF DctInit
<1> QED  BY <1>1 DEF DctInit, Divided, PicFacts, RefusedRightly

LEMMA StartComponentKeeps ==
  ASSUME PicFacts, Divided, StartComponent
  PROVE  Divided'
<1> DEFINE t == pic.comps[ci].tbl
           m == MethodOf(ci)
<1>0. /\ pic' = pic /\ dct' = dct /\ state' = state /\ ci' = ci + 1 /\ state = "starting"
      /\ ci <= Len(pic.comps) /\ ~Refused(ci)
  BY DEF StartComponent
<1>1. ci \in Comps /\ ci \in Nat
  BY <1>0 DEF Divided, PicFacts
<1>2. Comps' = Comps /\ MaxHSamp' = MaxHSamp /\ MaxVSamp' = MaxVSamp
  BY <1>0 DEF Comps, MaxHSamp, MaxVSamp
<1>3. t \in Tables /\ m = OwnMethod(ci)
  BY <1>0 DEF Refused, MethodOf, OwnMethod
<1>4. /\ m = "float" => floatDivisors' = [floatDivisors EXCEPT ![t] = << pic.quant[t] >>] /\ divisors' = divisors
      /\ m # "float" => divisors' = [divisors EXCEPT ![t] = Divisors(m, pic.quant[t])] /\ floatDivisors' = floatDivisors
  BY DEF StartComponent
<1>5. \A c : OwnMethod(c)' = OwnMethod(c)
  BY <1>0 DEF OwnMethod
<1>6. \A c \in Comps : OwnMethod(c) \in { "islow", "ifast", "float" }
  BY DEF OwnMethod, PicFacts
<1>7. \A c, j, k : Sized(c, j, k)' = Sized(c, j, k)
  BY <1>0, <1>2 DEF Sized, Doubled
<1>8. DOMAIN divisors = Tables /\ DOMAIN floatDivisors = Tables
  BY DEF Divided
<1> HIDE DEF m
<1>9. ASSUME NEW c \in Comps, c < ci
      PROVE  Stored(c)'
  <2> DEFINE u == pic.comps[c].tbl
  <2>1. Stored(c)
    BY <1>9 DEF Divided
  <2>2. OverwrittenBy(c, ci) => OverwrittenBy(c, ci)'
    <3> SUFFICES ASSUME NEW d \in Comps, d > c, d < ci, pic.comps[d].tbl = u,
                        { OwnMethod(c), OwnMethod(d) } = { "islow", "ifast" }
                 PROVE  OverwrittenBy(c, ci)'
      BY DEF OverwrittenBy
    <3>1. d < ci + 1
      BY <1>1 DEF PicFacts
    <3> QED  BY <1>0, <1>2, <1>5, <3>1 DEF OverwrittenBy
  <2>3. u = t /\ { OwnMethod(c), OwnMethod(ci) } = { "islow", "ifast" } => OverwrittenBy(c, ci)'
    <3>1. ci > c /\ ci < ci + 1
      BY <1>1, <1>9 DEF PicFacts
    <3> QED  BY <1>0, <1>1, <1>2, <1>5, <3>1 DEF OverwrittenBy
  <2>4. u \in Tables /\ pic.comps'[c].tbl = u
    BY <2>1, <1>0 DEF Stored
  <2>5. OwnMethod(c) = "float" => floatDivisors'[u] = << pic.quant[u] >>
    BY <1>3, <1>4, <1>8, <2>1, <2>4 DEF Stored
  <2>6. ASSUME OwnMethod(c) # "float", ~OverwrittenBy(c, ci)'
        PROVE  divisors'[u] = Divisors(OwnMethod(c), pic.quant[u])
    <3>1. divisors[u] = Divisors(OwnMethod(c), pic.quant[u])
      BY <2>1, <2>2, <2>6 DEF Stored
    <3>2. CASE m = "float" \/ u # t
      BY <1>3, <1>4, <1>8, <2>4, <3>1, <3>2
    <3>3. CASE m # "float" /\ u = t
      <4>1. m = OwnMethod(c)
        BY <1>1, <1>3, <1>6, <2>3, <2>6, <3>3
      <4> QED  BY <1>3, <1>4, <1>8, <3>3, <4>1
    <3> QED  BY <3>2, <3>3
  <2> QED  BY <1>0, <1>5, <2>4, <2>5, <2>6 DEF Stored
<1>10. ASSUME NEW c \in Comps, c = ci
       PROVE  Stored(c)'
  <2>1. pic'.comps[c].tbl = t
    BY <1>0, <1>10
  <2>2. m = "float" => floatDivisors'[t] = << pic.quant[t] >>
    BY <1>3, <1>4, <1>8
  <2>3. m # "float" => divisors'[t] = Divisors(m, pic.quant[t])
    BY <1>3, <1>4, <1>8
  <2>4. m = OwnMethod(c)' /\ pic'.quant = pic.quant
    BY <1>0, <1>3, <1>5, <1>10
  <2> QED  BY <1>3, <2>1, <2>2, <2>3, <2>4 DEF Stored
<1>11. \A c \in Comps' : c < ci' => Stored(c)'
  <2> SUFFICES ASSUME NEW c \in Comps, c < ci + 1
               PROVE  Stored(c)'
    BY <1>0, <1>2
  <2>1. c < ci \/ c = ci
    BY <1>1 DEF PicFacts
  <2> QED  BY <2>1, <1>9, <1>10
<1>12. DOMAIN divisors' = Tables /\ DOMAIN floatDivisors' = Tables
  BY <1>4, <1>8
<1>13. ci' \in 1..Len(pic.comps) + 1
  BY <1>0, <1>1 DEF PicFacts
<1>14. \A c \in Comps' : \E j, k \in { 1, 2, 4 } : Sized(c, j, k)'
  BY <1>0, <1>2, <1>7 DEF Divided
<1> QED  BY <1>0, <1>11, <1>12, <1>13, <1>14 DEF Divided, RefusedRightly

LEMMA DividedNext ==
  ASSUME PictureAssumption, Divided, [DctNext]_dctVars
  PROVE  Divided'
<1>0. PicFacts
  BY PicIs DEF Divided
<1>1. CASE MasterSetup
  <2>1. /\ pic' = pic /\ ci' = ci /\ divisors' = divisors /\ floatDivisors' = floatDivisors
        /\ state = "setup" /\ state' = "starting" /\ ci = 1
    BY <1>1 DEF MasterSetup, Divided
  <2>2. Comps' = Comps
    BY <2>1 DEF Comps
  <2>3. \A c \in Comps : \E j, k \in { 1, 2, 4 } : Sized(c, j, k)'
    BY <1>0, <1>1, SetupSizes
  <2>4. \A c \in Comps : ~(c < ci)
    BY <1>0, <2>1 DEF PicFacts
  <2> QED  BY <2>1, <2>2, <2>3, <2>4 DEF Divided, RefusedRightly
<1>2. CASE StartComponent
  BY <1>0, <1>2, StartComponentKeeps
<1>3. ASSUME pic' = pic, dct' = dct, ci' = ci, divisors' = divisors, floatDivisors' = floatDivisors,
             state # "setup" \/ state' = "setup", state' \in { "setup", "starting", "ready", "refused" },
             state' = "setup" => state = "setup",
             state' = "ready" => ci = Len(pic.comps) + 1, RefusedRightly'
      PROVE  Divided'
  <2>1. Comps' = Comps /\ MaxHSamp' = MaxHSamp /\ MaxVSamp' = MaxVSamp
    BY <1>3 DEF Comps, MaxHSamp, MaxVSamp
  <2>2. \A c : OwnMethod(c)' = OwnMethod(c)
    BY <1>3 DEF OwnMethod
  <2>3. \A c, j, k : Sized(c, j, k)' = Sized(c, j, k)
    BY <1>3, <2>1 DEF Sized, Doubled
  <2>4. \A c, n : OverwrittenBy(c, n)' = OverwrittenBy(c, n)
    BY <1>3, <2>1, <2>2 DEF OverwrittenBy
  <2>5. \A c : Stored(c)' = Stored(c)
    BY <1>3, <2>2, <2>4 DEF Stored
  <2> QED  BY <1>3, <2>1, <2>3, <2>5 DEF Divided
<1>4. CASE RefuseComponent
  <2>1. /\ pic' = pic /\ dct' = dct /\ ci' = ci /\ divisors' = divisors /\ floatDivisors' = floatDivisors
        /\ state = "starting" /\ state' = "refused" /\ ci <= Len(pic.comps) /\ Refused(ci)
    BY <1>4 DEF RefuseComponent
  <2>2. ci \in Comps
    BY <1>0, <2>1 DEF Divided, PicFacts
  <2>3. dct[ci] \in Scaled
    <3>1. PICK j, k \in { 1, 2, 4 } : Sized(ci, j, k)
      BY <2>1, <2>2 DEF Divided
    <3> QED  BY <1>0, <2>2, <3>1, SizesServe
  <2>4. pic.comps[ci].tbl \notin Tables \/ pic.quant[pic.comps[ci].tbl] = 0
    BY <2>1, <2>3 DEF Refused
  <2>5. RefusedRightly'
    BY <2>1, <2>2, <2>4 DEF RefusedRightly, Comps
  <2> QED  BY <1>3, <2>1, <2>5
<1>5. CASE EndStartPass
  <2>1. /\ pic' = pic /\ dct' = dct /\ ci' = ci /\ divisors' = divisors /\ floatDivisors' = floatDivisors
        /\ state = "starting" /\ state' = "ready" /\ ci > Len(pic.comps)
    BY <1>5 DEF EndStartPass
  <2>2. ci = Len(pic.comps) + 1
    BY <1>0, <2>1 DEF Divided, PicFacts
  <2> QED  BY <1>3, <2>1, <2>2 DEF RefusedRightly
<1>6. CASE UNCHANGED dctVars
  <2>1. /\ pic' = pic /\ dct' = dct /\ ci' = ci /\ divisors' = divisors /\ floatDivisors' = floatDivisors
        /\ state' = state
    BY <1>6 DEF dctVars
  <2>2. RefusedRightly'
    BY <2>1 DEF Divided, RefusedRightly, Comps
  <2> QED  BY <1>3, <2>1, <2>2 DEF Divided
<1> QED  BY <1>1, <1>2, <1>4, <1>5, <1>6 DEF DctNext

\* The invariant holds of every compression.
THEOREM DividedHolds == ASSUME PictureAssumption PROVE DctSpec => []Divided
<1>1. DctInit => Divided
  BY DividedInit
<1>2. Divided /\ [DctNext]_dctVars => Divided'
  BY DividedNext
<1> QED  BY <1>1, <1>2, PTL DEF DctSpec

\* It says what is promised of the divisors.
LEMMA DividedRight ==
  ASSUME PictureAssumption, Divided
  PROVE  DivisorsRight
<1>0. PicFacts
  BY PicIs DEF Divided
<1>1. OwnDivisors
  <2> SUFFICES ASSUME state = "ready", NEW c \in Comps, ~Overwritten(c)
               PROVE  LET t == pic.comps[c].tbl IN
                      IF OwnMethod(c) = "float" THEN floatDivisors[t] = << pic.quant[t] >>
                      ELSE divisors[t] = Divisors(OwnMethod(c), pic.quant[t])
    BY DEF OwnDivisors
  <2>1. c < ci
    BY <1>0 DEF Divided, PicFacts
  <2>2. ~OverwrittenBy(c, ci)
    BY DEF OverwrittenBy, Overwritten
  <2>3. Stored(c)
    BY <2>1 DEF Divided
  <2> QED  BY <2>2, <2>3 DEF Stored
<1>2. WholeRatios
  <2> SUFFICES ASSUME state # "setup", NEW c \in Comps
               PROVE  LET f == pic.comps[c] IN
                      /\ MaxHSamp % f.h = 0 => MaxHSamp % (f.h * (dct[c][1] \div pic.size)) = 0
                      /\ MaxVSamp % f.v = 0 => MaxVSamp % (f.v * (dct[c][2] \div pic.size)) = 0
    BY DEF WholeRatios
  <2>1. PICK j, k \in { 1, 2, 4 } : Sized(c, j, k)
    BY DEF Divided
  <2> QED  BY <1>0, <2>1, SizesServe
<1> QED  BY <1>1, <1>2 DEF Divided, DivisorsRight

\* Whatever the sampling factors and the scale, each component is divided by its own
\* table, scaled for its own routine, unless a later one that shares the table spoiled it;
\* only a missing table is refused, and the ratios left to the downsampler are whole.
THEOREM DivisorsRightHolds == ASSUME PictureAssumption PROVE DctSpec => []DivisorsRight
<1>1. Divided => DivisorsRight
  BY DividedRight
<1> QED  BY <1>1, DividedHolds, PTL

-----------------------------------------------------------------------------
(* Scans with restart markers                                              *)

\* The place in the scan of item o of segment q, and where the decoder is by
\* what it has read: in front of the damage, or behind it.
PlaceOf(q, o) == (q - 1) * Size + o
BeforeDamage(q, o) == Gone <= damage.kept /\ Gone + 1 = PlaceOf(q, o)
AfterDamage(q, o) ==
  /\ Gone >= damage.kept + Len(damage.wrong)
  /\ Gone - damage.kept - Len(damage.wrong) + damage.from = PlaceOf(q, o)

\* What is at the end of segment q, and the last segment damage may reach.
EndCode(q) == IF q = Segments THEN M_EOI ELSE Code(q)
Reach == IF damage.kind = "lost" THEN damage.last ELSE damage.last + 3

\* In step: the decoder is in segment x, and so is the file, or the marker
\* after it has been read.
InStepBefore(x) ==
  \/ unread = 0 /\ BeforeDamage(x, Size - toGo)
  \/ unread = Code(x) /\ toGo = 0 /\ BeforeDamage(x + 1, 1)
InStepAfter(x) ==
  \/ unread = 0 /\ AfterDamage(x, Size - toGo)
  \/ unread = Code(x) /\ toGo = 0 /\ AfterDamage(x + 1, 1)
\* Out of step: the marker after segment q has been read; none has; an earlier
\* one has and is skipped; the wrong one has.
HoldsMarker(x, q) ==
  /\ unread = EndCode(q) /\ q \in 1..Segments /\ q - x \in -2..2 /\ q <= Reach
  /\ AfterDamage(q + 1, 1)
Loose(x, q, o) ==
  /\ unread = 0 /\ q - x \in -2..2 /\ q <= Reach
  /\ AfterDamage(q, o)
Skips(x, q, o) ==
  /\ unread # 0 /\ ~Expected(unread) /\ Action(unread) = 2 /\ toGo = 0
  /\ q - x \in -1..1 /\ q <= Reach
  /\ AfterDamage(q, o)
HoldsWrong(x, q, o) ==
  /\ damage.wrong = << Marker(unread) >> /\ Gone = damage.kept + 1
  /\ q - x \in -1..1 /\ q <= damage.first + 1
  /\ q = x + 1 => o = 1
  /\ q = x => unread # Code(x + 2)
  /\ q = x - 1 => unread = Code(x)
  /\ AfterDamage(q, o)
OutOfStep(x) ==
  /\ x \in damage.first..Reach
  /\ \E q \in 1..(Segments + 1), o \in 1..Size :
        HoldsMarker(x, q) \/ Loose(x, q, o) \/ Skips(x, q, o) \/ HoldsWrong(x, q, o)
InSegment(x) ==
  InStepBefore(x) \/ (damage.kind # "whole" /\ (InStepAfter(x) \/ OutOfStep(x)))

Tracked == { "whole", "lost", "changed", "added" }
Counted(x) == Len(placed) + toGo = x * Interval /\ nextRst = (x - 1) % 8
PlacedWell ==
  \A p \in DOMAIN placed :
    (damage.kind # "whole" /\ SegmentOf(p) \in damage.first..Reach) \/ Right(p)
\* What has been read is the beginning of the damaged scan, and the decoder has
\* the marker it says it has.
Item == Seq(Int)
Reading ==
  /\ damage \in Streams /\ stream \in Seq(Item) /\ Gone \in Nat
  /\ \A i \in 1..Len(stream) : stream[i] = damage.items[Gone + i]
  /\ placed \in Seq(Item \cup { "stuffed", "zero" })
  /\ ScanTypeOK /\ StopsAtEnd
  /\ unread \in { 0, M_EOI } \cup Codes
  /\ insufficient => unread # 0
  /\ phase # "mcu" => toGo = 0
  /\ phase = "scan" => unread # 0 /\ ~Expected(unread) /\ Action(unread) = 2
Kept(x) == Counted(x) /\ (damage.kind \in Tracked => InSegment(x) /\ PlacedWell)
SyncInv == Reading /\ \E x \in 1..Segments : Kept(x)

-----------------------------------------------------------------------------
(* Places in a scan                                                          *)

LEMMA SizeIs ==
  ASSUME RestartAssumption
  PROVE  /\ Interval \in Nat \ { 0 } /\ Segments \in Nat \ { 0 } /\ Size \in Nat \ { 0, 1 } /\ Size = Interval + 1
         /\ ScanLength \in Nat \ { 0, 1 } /\ Total \in Nat
BY DEF RestartAssumption, Size, ScanLength, Total

LEMMA PlaceIs ==
  ASSUME RestartAssumption, NEW q \in Nat \ { 0 }, NEW o \in 1..Size
  PROVE  /\ PlaceOf(q, o) \in Nat \ { 0 } /\ SegmentAt(PlaceOf(q, o)) = q
         /\ o < Size => PlaceOf(q, o) % Size = o
         /\ PlaceOf(q, Size) % Size = 0 /\ PlaceOf(q, Size) = q * Size
         /\ PlaceOf(q, Size) + 1 = PlaceOf(q + 1, 1)
         /\ o < Size => PlaceOf(q, o) + 1 = PlaceOf(q, o + 1)
<1>1. Size \in Nat \ { 0 } /\ (q - 1) * Size \in Nat /\ q * Size = (q - 1) * Size + Size /\ q * Size \in Nat
  BY SizeIs
<1>2. (PlaceOf(q, o) - 1) \div Size = q - 1
  <2>1. PlaceOf(q, o) - 1 = (q - 1) * Size + (o - 1)
    BY <1>1 DEF PlaceOf
  <2>2. q - 1 \in Nat /\ o - 1 \in 0 .. Size - 1
    BY <1>1
  <2>3. ((q - 1) * Size + (o - 1)) \div Size = q - 1
    BY <1>1, <2>2, DivUnique
  <2> QED  BY <2>1, <2>3
<1>3. o < Size => PlaceOf(q, o) % Size = o
  <2> HAVE o < Size
  <2>1. o \in 0 .. Size - 1 /\ q - 1 \in Nat
    BY <1>1
  <2> QED  BY <1>1, <2>1, DivUnique DEF PlaceOf
<1>4. PlaceOf(q, Size) = q * Size /\ PlaceOf(q, Size) = q * Size + 0
  BY <1>1 DEF PlaceOf
<1>5. PlaceOf(q, Size) % Size = 0
  <2>1. (q * Size + 0) % Size = 0
    BY <1>1, DivUnique
  <2> QED  BY <2>1, <1>4
<1>6. PlaceOf(q, o) \in Nat \ { 0 } /\ (o < Size => PlaceOf(q, o) + 1 = PlaceOf(q, o + 1))
  BY <1>1 DEF PlaceOf
<1>7. PlaceOf(q, Size) + 1 = PlaceOf(q + 1, 1)
  <2>1. q + 1 - 1 = q
    OBVIOUS
  <2> QED  BY <1>1, <1>4, <2>1 DEF PlaceOf
<1>8. SegmentAt(PlaceOf(q, o)) = q
  BY <1>2 DEF SegmentAt
<1> QED  BY <1>3, <1>4, <1>5, <1>6, <1>7, <1>8

\* A place is of one segment.
LEMMA PlaceUnique ==
  ASSUME RestartAssumption, NEW q \in Nat \ { 0 }, NEW o \in 1..Size, NEW r \in Nat \ { 0 }, NEW p \in 1..Size,
         PlaceOf(q, o) = PlaceOf(r, p)
  PROVE  q = r /\ o = p
<1>1. q = r
  BY PlaceIs
<1>2. Size \in Nat /\ (q - 1) * Size \in Nat
  BY SizeIs
<1> QED  BY <1>1, <1>2 DEF PlaceOf

LEMMA PlaceInside ==
  ASSUME RestartAssumption, NEW q \in 1..Segments, NEW o \in 1..Size
  PROVE  /\ PlaceOf(q, o) \in 1..ScanLength
         /\ PlaceOf(q, o) = ScanLength <=> q = Segments /\ o = Size
<1>1. Size \in Nat \ { 0 } /\ Segments \in Nat \ { 0 } /\ ScanLength = Segments * Size /\ ScanLength \in Nat
  BY SizeIs DEF ScanLength
<1>2. ScanLength = PlaceOf(Segments, Size)
  BY <1>1, PlaceIs
<1>3. PlaceOf(q, o) = ScanLength <=> q = Segments /\ o = Size
  <2>1. Size \in 1..Size
    BY <1>1
  <2> QED  BY <1>1, <1>2, <2>1, PlaceUnique
<1>4. (Segments - q) * Size = Segments * Size - q * Size /\ (Segments - q) * Size >= 0 /\ q * Size \in Nat
  BY <1>1
<1>5. PlaceOf(q, o) <= q * Size /\ PlaceOf(q, o) \in Nat \ { 0 }
  <2>1. q * Size = (q - 1) * Size + Size /\ (q - 1) * Size \in Nat
    BY <1>1
  <2> QED  BY <1>1, <2>1 DEF PlaceOf
<1> HIDE DEF ScanLength
<1> QED  BY <1>1, <1>3, <1>4, <1>5

\* What is there: data, or the marker after the segment.
LEMMA ItemIs ==
  ASSUME RestartAssumption, NEW q \in 1..Segments, NEW o \in 1..Size
  PROVE  /\ o < Size => Scan[PlaceOf(q, o)] = << q, o >>
         /\ o = Size => Scan[PlaceOf(q, o)] = Marker(EndCode(q))
<1>1. PlaceOf(q, o) \in 1..ScanLength
  BY PlaceInside
<1>2. q \in Nat \ { 0 } /\ Size \in Nat \ { 0 } /\ Size \in 1..Size
  BY SizeIs
<1>3. SegmentAt(PlaceOf(q, o)) = q
  BY <1>2, PlaceIs
<1>4. o < Size => PlaceOf(q, o) % Size = o
  BY <1>2, PlaceIs
<1>5. o = Size => PlaceOf(q, o) % Size = 0
  BY <1>2, PlaceIs
<1>6. PlaceOf(q, o) = ScanLength <=> q = Segments /\ o = Size
  BY PlaceInside
<1>7. ASSUME o < Size PROVE Scan[PlaceOf(q, o)] = << q, o >>
  BY <1>1, <1>2, <1>3, <1>4, <1>7 DEF Scan
<1>8. ASSUME o = Size PROVE Scan[PlaceOf(q, o)] = Marker(EndCode(q))
  BY <1>1, <1>2, <1>3, <1>5, <1>6, <1>8 DEF Scan, EndCode
<1> QED  BY <1>7, <1>8

LEMMA PlaceOfAny ==
  ASSUME RestartAssumption, NEW p \in 1..ScanLength
  PROVE  \E q \in 1..Segments, o \in 1..Size : p = PlaceOf(q, o) /\ q = SegmentAt(p)
<1>1. Size \in Nat \ { 0 } /\ Segments \in Nat \ { 0 } /\ ScanLength = Segments * Size /\ ScanLength \in Nat
  BY SizeIs DEF ScanLength
<1> DEFINE d == (p - 1) \div Size
           n == (p - 1) % Size
<1>2. p - 1 \in Nat
  BY <1>1
<1>3. d \in Nat /\ n \in 0 .. Size - 1 /\ p - 1 = d * Size + n
  BY <1>1, <1>2, DivFacts
<1>4. SegmentAt(p) = d + 1
  BY DEF SegmentAt
<1> HIDE DEF d, n, ScanLength, Size
<1>5. d < Segments
  <2>1. d * Size \in Int /\ Segments * Size \in Int /\ d * Size < Segments * Size
    BY <1>1, <1>2, <1>3
  <2> QED  BY <1>1, <1>3, <2>1, LessFactor
<1>6. d + 1 \in 1..Segments /\ n + 1 \in 1..Size
  BY <1>1, <1>3, <1>5
<1>7. p = PlaceOf(d + 1, n + 1)
  <2>1. d + 1 - 1 = d
    BY <1>3
  <2> QED  BY <1>1, <1>2, <1>3, <2>1 DEF PlaceOf
<1> QED  BY <1>4, <1>6, <1>7

-----------------------------------------------------------------------------
(* The damaged scans                                                       *)

\* The damage takes the decoder from item o of segment q to item p of segment r.
Jumps(q, o, r, p) ==
  /\ damage.kept + 1 = PlaceOf(q, o) /\ damage.from = PlaceOf(r, p)
  /\ \/ /\ damage.wrong = << >>
        /\ q = damage.first /\ r \in q..(q + 2) /\ r <= Reach
     \/ /\ \E c \in Codes : damage.wrong = << Marker(c) >> /\ (r = q => c # Code(q + 2))
        /\ Reach = damage.first + 3 /\ q \in damage.first..(damage.first + 1)
        /\ r \in q..(q + 1) /\ r <= damage.first + 1
        /\ r = q + 1 => p = 1
DamageIs ==
  /\ damage.kept \in 0..ScanLength /\ damage.from \in 1..(ScanLength + 1)
  /\ damage.wrong = << >> \/ \E c \in Codes \cup { M_EOI } : damage.wrong = << Marker(c) >>
  /\ damage.items = SubSeq(Scan, 1, damage.kept) \o damage.wrong \o SubSeq(Scan, damage.from, ScanLength)
  /\ damage.from = ScanLength + 1 => damage.kept = ScanLength /\ damage.wrong = << >>
  /\ damage.kind = "whole" => damage.kept = ScanLength /\ damage.wrong = << >> /\ damage.from = ScanLength + 1
  /\ damage.first \in Nat \ { 0 } /\ Reach \in Nat
  /\ damage.kind \in Tracked \ { "whole" } =>
       \E q, r \in 1..Segments, o, p \in 1..Size : Jumps(q, o, r, p)

LEMMA LostIs ==
  ASSUME RestartAssumption, damage \in Lost
  PROVE  DamageIs
<1>1. PICK ab \in (1..(ScanLength - 1)) \X (1..(ScanLength - 1)) :
        /\ ab[1] <= ab[2] /\ SegmentAt(ab[2] + 1) - SegmentAt(ab[1]) <= 2
        /\ damage = Stream("lost", ab[1] - 1, << >>, ab[2] + 1, ab[1], ab[2] + 1)
  BY DEF Lost
<1> DEFINE a == ab[1]
           b == ab[2] + 1
<1>2. ScanLength \in Nat \ { 0, 1 }
  BY SizeIs
<1>3. a \in 1..ScanLength /\ b \in 1..ScanLength /\ a < b /\ SegmentAt(b) - SegmentAt(a) <= 2
  BY <1>1, <1>2
<1>4. damage = Stream("lost", a - 1, << >>, b, a, b)
  BY <1>1
<1> HIDE DEF a, b
<1>5. /\ damage.kind = "lost" /\ damage.kept = a - 1 /\ damage.wrong = << >> /\ damage.from = b
      /\ damage.first = SegmentAt(a) /\ damage.last = SegmentAt(b)
      /\ damage.items = SubSeq(Scan, 1, a - 1) \o << >> \o SubSeq(Scan, b, ScanLength)
  BY <1>4 DEF Stream
<1>6. PICK q \in 1..Segments, o \in 1..Size : a = PlaceOf(q, o) /\ q = SegmentAt(a)
  BY <1>3, PlaceOfAny
<1>7. PICK r \in 1..Segments, p \in 1..Size : b = PlaceOf(r, p) /\ r = SegmentAt(b)
  BY <1>3, PlaceOfAny
<1>8. Segments \in Nat /\ Size \in Nat \ { 0 }
  BY SizeIs
<1>9. q <= r
  <2> SUFFICES ASSUME r < q PROVE FALSE
    BY <1>8
  <2>1. (q - 1 - r) * Size >= 0 /\ (q - 1) * Size = r * Size + (q - 1 - r) * Size
        /\ r * Size = (r - 1) * Size + Size /\ (r - 1) * Size \in Nat /\ (q - 1) * Size \in Nat
    BY <1>8
  <2> QED  BY <1>3, <1>6, <1>7, <1>8, <2>1 DEF PlaceOf
<1>10. Jumps(q, o, r, p)
  <2>1. Reach = r
    BY <1>5, <1>7 DEF Reach
  <2>2. r \in q..(q + 2)
    BY <1>3, <1>6, <1>7, <1>8, <1>9
  <2>3. damage.kept + 1 = PlaceOf(q, o) /\ damage.from = PlaceOf(r, p)
    BY <1>3, <1>5, <1>6, <1>7
  <2> QED  BY <1>5, <1>6, <1>8, <2>1, <2>2, <2>3 DEF Jumps
<1>11. \E q1, r1 \in 1..Segments, o1, p1 \in 1..Size : Jumps(q1, o1, r1, p1)
  BY <1>10
<1>12. damage.first \in Nat \ { 0 } /\ Reach \in Nat
  BY <1>5, <1>6, <1>7, <1>8 DEF Reach
<1>13. damage.kept \in 0..ScanLength /\ damage.from \in 1..(ScanLength + 1) /\ damage.from # ScanLength + 1
  BY <1>2, <1>3, <1>5
<1>14. damage.kind # "whole"
  BY <1>5
<1>15. damage.items = SubSeq(Scan, 1, damage.kept) \o damage.wrong \o SubSeq(Scan, damage.from, ScanLength)
  BY <1>2, <1>3, <1>5
<1> HIDE DEF ScanLength
<1> QED  BY <1>5, <1>11, <1>12, <1>13, <1>14, <1>15 DEF DamageIs

LEMMA ChangedIs ==
  ASSUME RestartAssumption, damage \in Changed
  PROVE  DamageIs
<1>1. PICK i \in 1..(Segments - 1), c \in Codes :
        damage = Stream("changed", i * Size - 1, << Marker(c) >>, i * Size + 1, i * Size, i * Size)
  BY DEF Changed, MarkerPlaces
<1>2. Segments \in Nat \ { 0 } /\ Size \in Nat \ { 0, 1 } /\ i \in 1..Segments /\ i + 1 \in 1..Segments
      /\ Size \in 1..Size /\ 1 \in 1..Size
  BY SizeIs
<1>3. PlaceOf(i, Size) = i * Size /\ PlaceOf(i, Size) + 1 = PlaceOf(i + 1, 1) /\ SegmentAt(PlaceOf(i, Size)) = i
  <2>1. i \in Nat \ { 0 }
    BY <1>2
  <2> QED  BY <1>2, <2>1, PlaceIs
<1>4. /\ damage.kind = "changed" /\ damage.kept = i * Size - 1 /\ damage.wrong = << Marker(c) >>
      /\ damage.from = i * Size + 1 /\ damage.first = i
      /\ damage.items = SubSeq(Scan, 1, i * Size - 1) \o << Marker(c) >> \o SubSeq(Scan, i * Size + 1, ScanLength)
      /\ damage.last = i
  BY <1>1, <1>3 DEF Stream
<1>5. PlaceOf(i, Size) \in 1..ScanLength /\ PlaceOf(i + 1, 1) \in 1..ScanLength /\ ScanLength \in Nat
  BY <1>2, PlaceInside, SizeIs
<1>6. Reach = i + 3
  BY <1>4 DEF Reach
<1>7. Jumps(i, Size, i + 1, 1)
  BY <1>2, <1>3, <1>4, <1>5, <1>6 DEF Jumps
<1>8. \E q, r \in 1..Segments, o, p \in 1..Size : Jumps(q, o, r, p)
  BY <1>2, <1>7
<1>9. damage.wrong # << >>
  BY <1>4
<1> QED  BY <1>2, <1>3, <1>4, <1>5, <1>6, <1>8, <1>9 DEF DamageIs

LEMMA ExtraIs ==
  ASSUME RestartAssumption, NEW kind, NEW p \in 1..(ScanLength - 2), NEW c \in Codes \cup { M_EOI },
         damage = Extra(kind, p, c), kind \in { "added", "strayed", "ended" },
         kind = "added" => c \in Codes /\ c # Code(SegmentAt(p + 1) + 2)
  PROVE  DamageIs
<1>1. Segments \in Nat \ { 0 } /\ Size \in Nat \ { 0, 1 } /\ ScanLength \in Nat \ { 0, 1 }
  BY SizeIs
<1>2. /\ damage.kind = kind /\ damage.kept = p /\ damage.wrong = << Marker(c) >>
      /\ damage.from = p + 1 /\ damage.first = SegmentAt(p) /\ damage.last = SegmentAt(p)
      /\ damage.items = SubSeq(Scan, 1, p) \o << Marker(c) >> \o SubSeq(Scan, p + 1, ScanLength)
  BY DEF Extra, Stream
<1>3. p \in 1..ScanLength /\ p + 1 \in 1..ScanLength
  BY <1>1
<1>4. PICK q \in 1..Segments, o \in 1..Size : p = PlaceOf(q, o) /\ q = SegmentAt(p)
  BY <1>3, PlaceOfAny
<1>5. PICK r \in 1..Segments, k \in 1..Size : p + 1 = PlaceOf(r, k) /\ r = SegmentAt(p + 1)
  BY <1>3, PlaceOfAny
<1>6. r \in q..(q + 1)
  <2>1. q \in Nat \ { 0 } /\ r \in Nat \ { 0 } /\ Size \in 1..Size /\ 1 \in 1..Size /\ q + 1 \in Nat \ { 0 }
    BY <1>1
  <2>2. CASE o < Size
    <3>1. PlaceOf(q, o) + 1 = PlaceOf(q, o + 1)
      BY <2>1, <2>2, PlaceIs
    <3>2. p + 1 = PlaceOf(q, o + 1) /\ o + 1 \in 1..Size
      BY <1>1, <1>4, <2>2, <3>1
    <3> QED  BY <1>1, <1>5, <2>1, <3>2, PlaceUnique
  <2>3. CASE o = Size
    <3>1. p + 1 = PlaceOf(q + 1, 1)
      BY <1>1, <1>4, <2>1, <2>3, PlaceIs
    <3> QED  BY <1>5, <2>1, <3>1, PlaceUnique
  <2> QED  BY <1>1, <2>2, <2>3
<1>7. damage.first = q /\ Reach = q + 3
  <2>1. Reach = damage.last + 3
    BY <1>2 DEF Reach
  <2> QED  BY <1>2, <1>4, <2>1
<1>8. kind = "added" => Jumps(r, k, r, k)
  <2> HAVE kind = "added"
  <2>1. c # Code(r + 2) /\ c \in Codes
    BY <1>5
  <2>2. damage.kept + 1 = PlaceOf(r, k) /\ damage.from = PlaceOf(r, k) /\ damage.wrong = << Marker(c) >>
    BY <1>2, <1>5
  <2>3. /\ Reach = damage.first + 3 /\ r \in damage.first..(damage.first + 1)
        /\ r \in r..(r + 1) /\ r <= damage.first + 1 /\ r # r + 1
    BY <1>1, <1>6, <1>7
  <2> QED  BY <2>1, <2>2, <2>3 DEF Jumps
<1>9. kind = "added" => \E q1, r1 \in 1..Segments, o1, p1 \in 1..Size : Jumps(q1, o1, r1, p1)
  BY <1>8
<1>10. damage.wrong # << >> /\ damage.kind \in { "added", "strayed", "ended" }
  BY <1>2
<1>11. damage.kind \in Tracked \ { "whole" } => \E q1, r1 \in 1..Segments, o1, p1 \in 1..Size : Jumps(q1, o1, r1, p1)
  BY <1>2, <1>9, <1>10 DEF Tracked
<1>12. damage.first \in Nat \ { 0 } /\ Reach \in Nat
  BY <1>1, <1>7
<1>13. \E d \in Codes \cup { M_EOI } : damage.wrong = << Marker(d) >>
  BY <1>2
<1>14. damage.kept \in 0..ScanLength /\ damage.from \in 1..(ScanLength + 1) /\ damage.from # ScanLength + 1
  BY <1>1, <1>2
<1>15. damage.items = SubSeq(Scan, 1, damage.kept) \o damage.wrong \o SubSeq(Scan, damage.from, ScanLength)
  BY <1>2
<1> QED  BY <1>10, <1>11, <1>12, <1>13, <1>14, <1>15 DEF DamageIs

LEMMA StreamsAre ==
  ASSUME RestartAssumption, damage \in Streams
  PROVE  DamageIs
<1>1. damage \in Whole \/ damage \in Lost \/ damage \in Changed \/ damage \in Added \/ damage \in Ended
  BY DEF RestartAssumption, AllStreams
<1>2. CASE damage \in Whole
  <2>1. ScanLength \in Nat \ { 0, 1 } /\ Size \in Nat \ { 0, 1 } /\ Segments \in Nat \ { 0 }
    BY SizeIs
  <2>2. damage = Stream("whole", ScanLength, << >>, ScanLength + 1, 1, 1)
    BY <1>2 DEF Whole
  <2>3. SegmentAt(1) = 1
    <3>1. PlaceOf(1, 1) = 1
      BY <2>1 DEF PlaceOf
    <3> QED  BY <2>1, <3>1, PlaceIs
  <2>4. /\ damage.kind = "whole" /\ damage.kept = ScanLength /\ damage.wrong = << >>
        /\ damage.from = ScanLength + 1 /\ damage.first = 1 /\ damage.last = 1
        /\ damage.items = SubSeq(Scan, 1, ScanLength) \o << >> \o SubSeq(Scan, ScanLength + 1, ScanLength)
    BY <2>2, <2>3 DEF Stream
  <2>5. Reach = 4
    BY <2>4 DEF Reach
  <2> QED  BY <2>1, <2>4, <2>5 DEF DamageIs
<1>3. CASE damage \in Added
  <2>1. PICK p \in 1..(ScanLength - 2), c \in Codes :
          damage = Extra(IF c = Code(SegmentAt(p + 1) + 2) THEN "strayed" ELSE "added", p, c)
    BY <1>3 DEF Added
  <2>2. CASE c = Code(SegmentAt(p + 1) + 2)
    <3>1. damage = Extra("strayed", p, c)
      BY <2>1, <2>2
    <3> QED  BY <3>1, ExtraIs
  <2>3. CASE c # Code(SegmentAt(p + 1) + 2)
    <3>1. damage = Extra("added", p, c)
      BY <2>1, <2>3
    <3> QED  BY <2>3, <3>1, ExtraIs
  <2> QED  BY <2>2, <2>3
<1>4. CASE damage \in Ended
  <2>1. PICK p \in 1..(ScanLength - 2) : damage = Extra("ended", p, M_EOI)
    BY <1>4 DEF Ended
  <2> QED  BY <2>1, ExtraIs
<1> QED  BY <1>1, <1>2, <1>3, <1>4, LostIs, ChangedIs

IsItem(x) == (\E s, k \in Nat : x = << s, k >>) \/ \E c \in Codes \cup { M_EOI } : x = Marker(c)

LEMMA IsItemIs ==
  ASSUME NEW x, IsItem(x)
  PROVE  /\ x \in Item
         /\ IsMarker(x) => \E c \in Codes \cup { M_EOI } : x = Marker(c) /\ x[1] = c
         /\ x = Marker(M_EOI) => IsMarker(x) /\ x[1] = M_EOI
<1>1. ASSUME NEW s \in Nat, NEW k \in Nat, x = << s, k >> PROVE x \in Item /\ ~IsMarker(x) /\ x # Marker(M_EOI)
  BY <1>1 DEF Item, IsMarker, Marker
<1>2. ASSUME NEW c \in Codes \cup { M_EOI }, x = Marker(c) PROVE x \in Item /\ IsMarker(x) /\ x[1] = c
  BY <1>2 DEF Item, IsMarker, Marker, Codes, M_EOI, M_RST0, M_RST7
<1>3. x = Marker(M_EOI) => x[1] = M_EOI
  BY DEF Marker
<1> QED  BY <1>1, <1>2, <1>3 DEF IsItem

LEMMA MarkerIs ==
  ASSUME NEW x, NEW c, x = Marker(c)
  PROVE  IsMarker(x) /\ x[1] = c
BY DEF IsMarker, Marker

LEMMA ScanIs ==
  ASSUME RestartAssumption, NEW p \in 1..ScanLength
  PROVE  IsItem(Scan[p]) /\ (p = ScanLength => Scan[p] = Marker(M_EOI))
<1>1. PICK q \in 1..Segments, o \in 1..Size : p = PlaceOf(q, o)
  BY PlaceOfAny
<1>2. Size \in Nat /\ Segments \in Nat
  BY SizeIs
<1>3. o < Size => Scan[p] = << q, o >>
  BY <1>1, ItemIs
<1>4. o = Size => Scan[p] = Marker(EndCode(q))
  BY <1>1, ItemIs
<1>5. p = ScanLength => q = Segments /\ o = Size
  BY <1>1, PlaceInside
<1>6. EndCode(q) \in Codes \cup { M_EOI } /\ EndCode(Segments) = M_EOI
  BY <1>2 DEF EndCode, Codes, Code, M_RST0, M_RST7
<1>7. q \in Nat /\ o \in Nat /\ (o < Size \/ o = Size)
  BY <1>2
<1> QED  BY <1>3, <1>4, <1>5, <1>6, <1>7 DEF IsItem

LEMMA ItemsAre ==
  ASSUME RestartAssumption, DamageIs
  PROVE  /\ damage.items \in Seq(Item) /\ Len(damage.wrong) \in 0..1
         /\ Len(damage.items) = damage.kept + Len(damage.wrong) + ScanLength + 1 - damage.from
         /\ \A i \in 1..damage.kept : damage.items[i] = Scan[i]
         /\ \A c : damage.wrong = << Marker(c) >> => Len(damage.wrong) = 1 /\ damage.items[damage.kept + 1] = Marker(c)
         /\ \A i \in (damage.kept + Len(damage.wrong) + 1)..Len(damage.items) :
              damage.items[i] = Scan[i - damage.kept - Len(damage.wrong) + damage.from - 1]
         /\ Len(damage.items) \in Nat \ { 0 } /\ damage.items[Len(damage.items)] = Marker(M_EOI)
         /\ \A i \in 1..Len(damage.items) : IsItem(damage.items[i])
<1> DEFINE n == damage.kept
           m == damage.from
           w == damage.wrong
           z == Len(w)
           a == SubSeq(Scan, 1, n)
           b == SubSeq(Scan, m, ScanLength)
           d == damage.items
<1>1. n \in 0..ScanLength /\ m \in 1..(ScanLength + 1) /\ ScanLength \in Nat \ { 0, 1 }
  BY SizeIs DEF DamageIs
<1>2. \A p \in 1..ScanLength : Scan[p] \in Item
  BY ScanIs, IsItemIs
<1>3. a \in Seq(Item) /\ Len(a) = n /\ \A i \in 1..n : a[i] = Scan[i]
  <2>1. \A i \in 1..n : Scan[i] \in Item
    BY <1>1, <1>2
  <2>2. a \in Seq(Item) /\ Len(a) = (IF 1 <= n THEN n - 1 + 1 ELSE 0) /\ \A i \in 1..(n - 1 + 1) : a[i] = Scan[1 + i - 1]
    BY <1>1, <2>1, SubSeqProperties
  <2> QED  BY <1>1, <2>2
<1>4. b \in Seq(Item) /\ Len(b) = ScanLength + 1 - m /\ \A i \in 1..(ScanLength + 1 - m) : b[i] = Scan[m + i - 1]
  <2>1. \A i \in m..ScanLength : Scan[i] \in Item
    BY <1>1, <1>2
  <2>2. /\ b \in Seq(Item) /\ Len(b) = (IF m <= ScanLength THEN ScanLength - m + 1 ELSE 0)
        /\ \A i \in 1..(ScanLength - m + 1) : b[i] = Scan[m + i - 1]
    BY <1>1, <2>1, SubSeqProperties
  <2> QED  BY <1>1, <2>2
<1>5. /\ w \in Seq(Item) /\ z \in 0..1 /\ (z = 0 => w = << >>)
      /\ (z = 1 => \E c \in Codes \cup { M_EOI } : w = << Marker(c) >>)
      /\ \A c : w = << Marker(c) >> => z = 1 /\ w[1] = Marker(c)
  <2>1. CASE w = << >>
    BY <2>1
  <2>2. ASSUME NEW c \in Codes \cup { M_EOI }, w = << Marker(c) >>
        PROVE  w \in Seq(Item) /\ z = 1 /\ w[1] = Marker(c)
    <3>1. Marker(c) \in Item
      BY DEF Item, Marker, Codes, M_EOI, M_RST0, M_RST7
    <3> HIDE DEF w
    <3> QED  BY <2>2, <3>1
  <2>3. w = << >> \/ \E c \in Codes \cup { M_EOI } : w = << Marker(c) >>
    BY DEF DamageIs
  <2>4. \A c : << Marker(c) >> # << >> /\ << Marker(c) >>[1] = Marker(c) /\ Len(<< Marker(c) >>) = 1
    OBVIOUS
  <2> HIDE DEF w
  <2> QED  BY <2>1, <2>2, <2>3, <2>4
<1>6. d = a \o w \o b
  BY DEF DamageIs
<1>7. m = ScanLength + 1 => n = ScanLength /\ z = 0
  <2>1. m = ScanLength + 1 => n = ScanLength /\ w = << >>
    BY DEF DamageIs
  <2>2. w = << >> => z = 0
    OBVIOUS
  <2> QED  BY <2>1, <2>2
<1>8. /\ a \o w \in Seq(Item) /\ Len(a \o w) = n + z
      /\ \A i \in 1..(n + z) : (a \o w)[i] = IF i <= n THEN a[i] ELSE w[i - n]
  <2> HIDE DEF a, b, w, d, n, m
  <2>0. a \in Seq(Item) /\ w \in Seq(Item)
    BY <1>3, <1>5
  <2>1. /\ a \o w \in Seq(Item) /\ Len(a \o w) = Len(a) + Len(w)
        /\ \A i \in 1..(Len(a) + Len(w)) : (a \o w)[i] = IF i <= Len(a) THEN a[i] ELSE w[i - Len(a)]
    BY <2>0, ConcatProperties
  <2> QED  BY <1>3, <2>1
<1> DEFINE u == a \o w
<1>9. /\ u \o b \in Seq(Item) /\ Len(u \o b) = n + z + (ScanLength + 1 - m)
      /\ \A i \in 1..(n + z + (ScanLength + 1 - m)) : (u \o b)[i] = IF i <= n + z THEN u[i] ELSE b[i - (n + z)]
  <2>1. u \in Seq(Item) /\ Len(u) = n + z
    BY <1>8
  <2> HIDE DEF a, b, w, d, n, m, u, z
  <2>2. /\ u \o b \in Seq(Item) /\ Len(u \o b) = Len(u) + Len(b)
        /\ \A i \in 1..(Len(u) + Len(b)) : (u \o b)[i] = IF i <= Len(u) THEN u[i] ELSE b[i - Len(u)]
    BY <1>4, <2>1, ConcatProperties
  <2> QED  BY <1>4, <2>1, <2>2
<1>10. d = u \o b
  BY <1>6
<1>11. d \in Seq(Item) /\ Len(d) = n + z + ScanLength + 1 - m
  <2> HIDE DEF a, b, w, d, n, m, u, z
  <2> QED  BY <1>1, <1>5, <1>9, <1>10
<1>12. ASSUME NEW i \in 1..n PROVE d[i] = Scan[i]
  <2>1. u[i] = a[i]
    <3> HIDE DEF a, b, w, d, n, m, z
    <3> QED  BY <1>1, <1>5, <1>8
  <2> HIDE DEF a, b, w, d, n, m, u, z
  <2>2. i \in 1..(n + z + (ScanLength + 1 - m)) /\ i <= n + z
    BY <1>1, <1>5
  <2>3. d[i] = u[i]
    BY <1>9, <1>10, <2>2
  <2> QED  BY <1>3, <2>1, <2>3
<1>13. ASSUME z = 1 PROVE d[n + 1] = w[1]
  <2>1. u[n + 1] = w[1]
    <3> HIDE DEF a, b, w, d, n, m, z
    <3> DEFINE j == n + 1
    <3>1. j \in 1..(n + z) /\ ~(j <= n) /\ j - n = 1
      BY <1>1, <1>13
    <3> HIDE DEF j, u
    <3>2. (a \o w)[j] = IF j <= n THEN a[j] ELSE w[j - n]
      BY <1>8, <3>1
    <3>3. (a \o w)[j] = w[1]
      BY <3>1, <3>2
    <3> QED  BY <3>3 DEF u, j
  <2> HIDE DEF a, b, w, d, n, m, u, z
  <2>2. n + 1 \in 1..(n + z + (ScanLength + 1 - m)) /\ n + 1 <= n + z
    BY <1>1, <1>13
  <2> QED  BY <1>9, <1>10, <2>1, <2>2
<1>14. ASSUME NEW i \in (n + z + 1)..Len(d) PROVE d[i] = Scan[i - n - z + m - 1] /\ i - n - z + m - 1 \in 1..ScanLength
  <2> HIDE DEF a, b, w, d, n, m, u, z
  <2>1. i \in 1..(n + z + (ScanLength + 1 - m)) /\ ~(i <= n + z) /\ i - (n + z) \in 1..(ScanLength + 1 - m)
    BY <1>1, <1>5, <1>11
  <2>2. m + (i - (n + z)) - 1 = i - n - z + m - 1 /\ i - n - z + m - 1 \in 1..ScanLength
    BY <1>1, <1>5, <2>1
  <2>3. d[i] = b[i - (n + z)]
    BY <1>9, <1>10, <2>1
  <2>4. b[i - (n + z)] = Scan[m + (i - (n + z)) - 1]
    BY <1>4, <2>1
  <2> QED  BY <2>2, <2>3, <2>4
<1>15. Len(d) \in Nat \ { 0 }
  <2> HIDE DEF a, b, w, d, n, m, u, z
  <2> QED  BY <1>1, <1>5, <1>7, <1>11
<1>16. ASSUME NEW i \in 1..Len(d) PROVE IsItem(d[i])
  <2>1. CASE i \in 1..n
    <3>1. i \in 1..ScanLength
      BY <1>1, <2>1
    <3> QED  BY <2>1, <3>1, <1>12, ScanIs
  <2>2. CASE z = 1 /\ i = n + 1
    <3>1. PICK c \in Codes \cup { M_EOI } : w = << Marker(c) >>
      BY <1>5, <2>2
    <3>2. d[i] = Marker(c)
      BY <1>5, <1>13, <2>2, <3>1
    <3> QED  BY <3>2 DEF IsItem
  <2>3. CASE i \in (n + z + 1)..Len(d)
    BY <2>3, <1>14, ScanIs
  <2>4. i \in 1..n \/ (z = 1 /\ i = n + 1) \/ i \in (n + z + 1)..Len(d)
    <3> HIDE DEF a, b, w, d, n, m, u, z
    <3> QED  BY <1>1, <1>5, <1>15
  <2> QED  BY <2>1, <2>2, <2>3, <2>4
<1>17. d[Len(d)] = Marker(M_EOI)
  <2>1. CASE m = ScanLength + 1
    <3>1. n = ScanLength /\ z = 0 /\ Len(d) = ScanLength /\ ScanLength \in 1..n
      <4> HIDE DEF a, b, w, d, n, m, u, z
      <4> QED  BY <1>1, <1>7, <1>11, <2>1
    <3>2. d[Len(d)] = Scan[ScanLength]
      BY <1>12, <3>1
    <3> QED  BY <1>1, <3>2, ScanIs
  <2>2. CASE m # ScanLength + 1
    <3>1. Len(d) \in (n + z + 1)..Len(d) /\ Len(d) - n - z + m - 1 = ScanLength
      <4> HIDE DEF a, b, w, d, n, m, u, z
      <4> QED  BY <1>1, <1>5, <1>11, <2>2
    <3>2. d[Len(d)] = Scan[ScanLength]
      BY <1>14, <3>1
    <3>3. ScanLength \in 1..ScanLength
      BY <1>1
    <3> QED  BY <3>2, <3>3, ScanIs
  <2> QED  BY <2>1, <2>2
<1> QED
  <2>1. \A c : w = << Marker(c) >> => z = 1 /\ d[n + 1] = Marker(c)
    BY <1>5, <1>13
  <2> QED  BY <1>5, <1>11, <1>12, <1>14, <1>15, <1>16, <1>17, <2>1

-----------------------------------------------------------------------------
(* What is read                                                            *)

\* The item that is read next.
LEMMA HeadIs ==
  ASSUME RestartAssumption, Reading, have > 0
  PROVE  /\ stream # << >> /\ Gone + 1 \in 1..Len(damage.items)
         /\ Head(stream) = damage.items[Gone + 1] /\ IsItem(Head(stream))
<1>1. DamageIs
  BY StreamsAre DEF Reading
<1>2. Len(damage.items) \in Nat \ { 0 } /\ \A i \in 1..Len(damage.items) : IsItem(damage.items[i])
  BY <1>1, ItemsAre
<1>3. stream \in Seq(Item) /\ Len(stream) \in Nat \ { 0 }
  BY DEF Reading, ScanTypeOK
<1>4. Gone + 1 \in 1..Len(damage.items)
  BY <1>2, <1>3 DEF Gone, Reading
<1>5. Head(stream) = stream[1] /\ stream # << >>
  BY <1>3
<1>6. stream[1] = damage.items[Gone + 1]
  BY <1>3 DEF Reading
<1> QED  BY <1>2, <1>4, <1>5, <1>6

LEMMA ConsumeIs ==
  ASSUME RestartAssumption, Reading, have > 0, Consume, UNCHANGED damage
  PROVE  /\ Gone' = Gone + 1 /\ Gone' \in Nat /\ stream' \in Seq(Item)
         /\ \A i \in 1..Len(stream') : stream'[i] = damage.items[Gone' + i]
         /\ have' \in 0..Len(stream')
<1>1. stream \in Seq(Item) /\ stream # << >> /\ Len(stream) \in Nat \ { 0 } /\ have \in 1..Len(stream)
  BY HeadIs DEF Reading, ScanTypeOK
<1>2. stream' = Tail(stream) /\ have' = have - 1
  BY DEF Consume
<1>3. stream' \in Seq(Item) /\ Len(stream') = Len(stream) - 1 /\ \A i \in 1..Len(stream') : stream'[i] = stream[i + 1]
  BY <1>1, <1>2, HeadTailProperties
<1>4. Len(damage.items) \in Nat
  <2>1. DamageIs
    BY StreamsAre DEF Reading
  <2> QED  BY <2>1, ItemsAre
<1>5. Gone' = Gone + 1 /\ Gone' \in Nat /\ Gone \in Nat
  BY <1>1, <1>3, <1>4 DEF Gone, Reading
<1>6. ASSUME NEW i \in 1..Len(stream') PROVE stream'[i] = damage.items[Gone' + i]
  <2>1. i + 1 \in 1..Len(stream) /\ Gone + (i + 1) = Gone' + i
    BY <1>1, <1>3, <1>5
  <2>2. stream[i + 1] = damage.items[Gone + (i + 1)]
    BY <2>1 DEF Reading
  <2> QED  BY <1>3, <2>1, <2>2
<1> QED  BY <1>1, <1>2, <1>3, <1>5, <1>6

\* A marker that is skipped is not the last one.
LEMMA ActionIs ==
  ASSUME NEW code \in { 0, M_EOI } \cup Codes, nextRst \in 0..7
  PROVE  /\ code = M_EOI => ~Expected(code) /\ Action(code) = 3
         /\ code \in Codes => Action(code) \in 1..3
<1> QED  BY DEF M_EOI, Codes, M_RST0, M_RST7, M_SOF0, Expected, Away, Action, Future, Prior

\* Once unread is not EOI, EOI has not been read.
LEMMA ReadOn ==
  ASSUME RestartAssumption, Reading, have > 0, Consume, UNCHANGED damage, unread # M_EOI,
         \/ IsMarker(Head(stream)) /\ unread' = Head(stream)[1]
         \/ ~IsMarker(Head(stream)) /\ unread' = unread
  PROVE  StopsAtEnd' /\ unread' \in { 0, M_EOI } \cup Codes /\ (IsMarker(Head(stream)) => unread' # 0)
<1>1. IsItem(Head(stream)) /\ Head(stream) = damage.items[Gone + 1]
  BY HeadIs
<1>2. Gone' = Gone + 1 /\ Gone \in Nat
  BY ConsumeIs DEF Reading
<1>3. \A i \in 1..Gone : damage.items[i] # Marker(M_EOI)
  BY DEF Reading, StopsAtEnd
<1>4. Head(stream) = Marker(M_EOI) <=> unread' = M_EOI
  <2>1. CASE IsMarker(Head(stream)) /\ unread' = Head(stream)[1]
    <3>1. PICK c \in Codes \cup { M_EOI } : Head(stream) = Marker(c) /\ Head(stream)[1] = c
      BY <1>1, <2>1, IsItemIs
    <3>2. unread' = c
      BY <2>1, <3>1
    <3>3. Marker(c) = Marker(M_EOI) <=> c = M_EOI
      BY DEF Marker
    <3> QED  BY <3>1, <3>2, <3>3
  <2>2. CASE ~IsMarker(Head(stream)) /\ unread' = unread
    <3>1. Head(stream) # Marker(M_EOI)
      BY <1>1, <2>2, IsItemIs
    <3> QED  BY <2>2, <3>1
  <2> QED  BY <2>1, <2>2
<1>5. ASSUME NEW i \in 1..Gone' PROVE damage.items[i] = Marker(M_EOI) <=> i = Gone' /\ unread' = M_EOI
  <2>1. CASE i \in 1..Gone
    BY <1>2, <1>3, <2>1
  <2>2. CASE i = Gone + 1
    BY <1>1, <1>2, <1>4, <2>2
  <2> QED  BY <1>2, <2>1, <2>2
<1>6. StopsAtEnd'
  BY <1>5 DEF StopsAtEnd
<1>7. unread' \in { 0, M_EOI } \cup Codes /\ (IsMarker(Head(stream)) => unread' # 0)
  <2>1. CASE IsMarker(Head(stream)) /\ unread' = Head(stream)[1]
    <3>1. PICK c \in Codes \cup { M_EOI } : Head(stream)[1] = c
      BY <1>1, <2>1, IsItemIs
    <3>2. c # 0
      BY DEF Codes, M_EOI, M_RST0, M_RST7
    <3> QED  BY <2>1, <3>1, <3>2
  <2>2. CASE ~IsMarker(Head(stream)) /\ unread' = unread
    BY <2>2 DEF Reading
  <2> QED  BY <2>1, <2>2
<1> QED  BY <1>6, <1>7

Contents == Item \cup { "stuffed", "zero" }

\* What a marker is taken for.
LEMMA SameGuess ==
  ASSUME nextRst' = nextRst, unread' = unread
  PROVE  (Expected(unread)' <=> Expected(unread)) /\ Action(unread)' = Action(unread)
BY DEF Expected, Away, Action, Future, Prior

\* What an action that reads nothing, or that puts no MCU in its place, leaves.
LEMMA NothingRead ==
  ASSUME Reading, UNCHANGED << stream, damage >>
  PROVE  /\ Gone' = Gone /\ stream' \in Seq(Item) /\ Gone' \in Nat
         /\ \A i \in 1..Len(stream') : stream'[i] = damage'.items[Gone' + i]
         /\ damage' \in Streams /\ have \in 0..Len(stream')
         /\ (unread' = M_EOI <=> unread = M_EOI) => StopsAtEnd'
BY DEF Reading, Gone, StopsAtEnd, ScanTypeOK

LEMMA PlaceKeeps ==
  ASSUME RestartAssumption, Reading, Decoding, toGo > 0, NEW what \in Contents, Place(what)
  PROVE  /\ placed' \in Seq(Contents) /\ Len(placed') \in Nat /\ Len(placed') = Len(placed) + 1 /\ Len(placed') <= Total
         /\ toGo' = toGo - 1 /\ toGo' \in 0..Interval
         /\ DOMAIN placed' = 1..(Len(placed) + 1) /\ DOMAIN placed = 1..Len(placed) /\ Len(placed) \in Nat
         /\ \A p \in 1..Len(placed) : placed'[p] = placed[p]
         /\ placed'[Len(placed) + 1] = what
<1>1. placed \in Seq(Contents) /\ Len(placed) \in Nat /\ DOMAIN placed = 1..Len(placed)
  BY DEF Reading, Contents
<1>2. placed' = Append(placed, what) /\ toGo' = toGo - 1
  BY DEF Place
<1>3. /\ placed' \in Seq(Contents) /\ Len(placed') = Len(placed) + 1
      /\ \A i \in 1..Len(placed) : placed'[i] = placed[i]
      /\ placed'[Len(placed) + 1] = what
  BY <1>1, <1>2, AppendProperties
<1>4. Total \in Nat /\ Interval \in Nat /\ Len(placed) < Total /\ toGo \in 0..Interval
  BY SizeIs DEF Decoding, Reading, ScanTypeOK
<1>5. DOMAIN placed' = 1..Len(placed')
  BY <1>3
<1> QED  BY <1>1, <1>2, <1>3, <1>4, <1>5

LEMMA ReadingNext ==
  ASSUME RestartAssumption, Reading, [SyncNext]_syncVars
  PROVE  Reading'
<1>0. /\ damage \in Streams /\ have \in 0..Len(stream) /\ unread \in { 0, M_EOI } \cup Codes /\ nextRst \in 0..7
      /\ toGo \in 0..Interval /\ insufficient \in BOOLEAN /\ phase \in { "mcu", "restart", "scan" }
      /\ Len(placed) <= Total /\ placed \in Seq(Contents) /\ stream \in Seq(Item) /\ Interval \in Nat \ { 0 }
      /\ StopsAtEnd /\ Len(stream) \in Nat
      /\ insufficient => unread # 0
      /\ phase # "mcu" => toGo = 0
      /\ phase = "scan" => unread # 0 /\ ~Expected(unread) /\ Action(unread) = 2
  BY SizeIs DEF Reading, ScanTypeOK, Contents
<1>01. phase = "scan" => unread # M_EOI
  BY <1>0, ActionIs
<1>02. \A c \in { 0, M_EOI } \cup Codes : c \in 0..254
  BY DEF Codes, M_EOI, M_RST0, M_RST7
<1>03. nextRst' = nextRst /\ unread' = unread => (Expected(unread)' <=> Expected(unread)) /\ Action(unread)' = Action(unread)
  BY SameGuess
<1>1. CASE MoreArrives
  <2>1. have' \in 0..Len(stream')
    BY <1>0, <1>1 DEF MoreArrives
  <2>2. /\ UNCHANGED << stream, unread, nextRst, toGo, insufficient, phase, placed, damage >>
    BY <1>1 DEF MoreArrives
  <2> QED  BY <1>0, <1>02, <1>03, <2>1, <2>2, NothingRead DEF Reading, ScanTypeOK, Contents
<1>2. CASE DecodeData
  <2>1. have > 0 /\ Consume /\ damage' = damage /\ phase = "mcu" /\ phase' = "mcu" /\ unread = 0 /\ nextRst' = nextRst
        /\ toGo > 0 /\ Decoding /\ ~insufficient
    BY <1>2 DEF DecodeData
  <2>2. IsItem(Head(stream))
    BY <2>1, HeadIs
  <2>3. unread # M_EOI
    BY <2>1 DEF M_EOI
  <2>4. /\ \/ IsMarker(Head(stream)) /\ unread' = Head(stream)[1] /\ insufficient' = TRUE /\ Place("stuffed")
           \/ ~IsMarker(Head(stream)) /\ unread' = unread /\ insufficient' = insufficient /\ Place(Head(stream))
    BY <1>2 DEF DecodeData
  <2>5. StopsAtEnd' /\ unread' \in { 0, M_EOI } \cup Codes /\ (insufficient' => unread' # 0) /\ insufficient' \in BOOLEAN
    <3>1. CASE IsMarker(Head(stream)) /\ unread' = Head(stream)[1] /\ insufficient' = TRUE
      BY <2>1, <2>3, <3>1, ReadOn
    <3>2. CASE ~IsMarker(Head(stream)) /\ unread' = unread /\ insufficient' = insufficient
      <4>1. StopsAtEnd' /\ unread' \in { 0, M_EOI } \cup Codes
        BY <2>1, <2>3, <3>2, ReadOn
      <4>2. ~insufficient' /\ insufficient' \in BOOLEAN
        BY <1>0, <2>1, <3>2
      <4> QED  BY <4>1, <4>2
    <3> QED  BY <2>4, <3>1, <3>2
  <2>6. placed' \in Seq(Contents) /\ toGo' \in 0..Interval /\ Len(placed') <= Total
    <3>1. Head(stream) \in Contents /\ "stuffed" \in Contents
      BY <2>2, IsItemIs DEF Contents
    <3> QED  BY <2>1, <2>4, <3>1, PlaceKeeps
  <2>7. /\ Gone' \in Nat /\ stream' \in Seq(Item) /\ have' \in 0..Len(stream')
        /\ \A i \in 1..Len(stream') : stream'[i] = damage'.items[Gone' + i]
    BY <2>1, ConsumeIs
  <2> QED  BY <1>0, <1>02, <2>1, <2>5, <2>6, <2>7 DEF Reading, ScanTypeOK, Contents
<1>3. CASE DecodeEmpty
  <2>1. /\ Decoding /\ phase = "mcu" /\ toGo > 0 /\ insufficient' = TRUE /\ (insufficient \/ unread # 0)
        /\ Place(IF insufficient THEN "zero" ELSE "stuffed")
        /\ UNCHANGED << stream, have, unread, nextRst, phase, damage >>
    BY <1>3 DEF DecodeEmpty
  <2>2. placed' \in Seq(Contents) /\ toGo' \in 0..Interval /\ Len(placed') <= Total
    <3>1. (IF insufficient THEN "zero" ELSE "stuffed") \in Contents
      BY DEF Contents
    <3> QED  BY <2>1, <3>1, PlaceKeeps
  <2> QED  BY <1>0, <1>02, <2>1, <2>2, NothingRead DEF Reading, ScanTypeOK, Contents
<1>4. CASE PeekMarker
  <2>1. /\ have > 0 /\ Consume /\ unread = 0 /\ IsMarker(Head(stream)) /\ unread' = Head(stream)[1] /\ phase = "mcu"
        /\ UNCHANGED << nextRst, toGo, insufficient, phase, placed, damage >> /\ ~insufficient
    BY <1>4 DEF PeekMarker
  <2>2. unread # M_EOI
    BY <2>1 DEF M_EOI
  <2>3. StopsAtEnd' /\ unread' \in { 0, M_EOI } \cup Codes /\ unread' # 0
    BY <2>1, <2>2, ReadOn
  <2>4. /\ Gone' \in Nat /\ stream' \in Seq(Item) /\ have' \in 0..Len(stream')
        /\ \A i \in 1..Len(stream') : stream'[i] = damage'.items[Gone' + i]
    BY <2>1, ConsumeIs
  <2> QED  BY <1>0, <1>02, <2>1, <2>3, <2>4 DEF Reading, ScanTypeOK, Contents
<1>5. CASE BeginRestart
  BY <1>0, <1>02, <1>5, NothingRead DEF Reading, ScanTypeOK, Contents, BeginRestart
<1>6. CASE SeekMarker
  <2>1. /\ have > 0 /\ Consume /\ LookingForMarker
        /\ UNCHANGED << nextRst, toGo, insufficient, placed, damage >>
        /\ \/ IsMarker(Head(stream)) /\ unread' = Head(stream)[1] /\ phase' = "restart"
           \/ ~IsMarker(Head(stream)) /\ unread' = unread /\ phase' = phase
    BY <1>6 DEF SeekMarker
  <2>2. unread # M_EOI /\ toGo = 0
    BY <1>0, <1>01, <2>1 DEF LookingForMarker, M_EOI
  <2>3. StopsAtEnd' /\ unread' \in { 0, M_EOI } \cup Codes /\ (IsMarker(Head(stream)) => unread' # 0)
    BY <2>1, <2>2, ReadOn
  <2>4. /\ Gone' \in Nat /\ stream' \in Seq(Item) /\ have' \in 0..Len(stream')
        /\ \A i \in 1..Len(stream') : stream'[i] = damage'.items[Gone' + i]
    BY <2>1, ConsumeIs
  <2>5. /\ phase' # "mcu" => toGo' = 0
        /\ phase' = "scan" => unread' # 0 /\ ~Expected(unread)' /\ Action(unread)' = 2
        /\ phase' \in { "mcu", "restart", "scan" }
    BY <1>0, <1>03, <2>1, <2>2
  <2>6. insufficient' => unread' # 0
    <3>1. insufficient' => insufficient
      BY <2>1
    <3>2. CASE IsMarker(Head(stream))
      BY <2>3, <3>2
    <3>3. CASE ~IsMarker(Head(stream))
      BY <1>0, <2>1, <3>1, <3>3
    <3> QED  BY <3>2, <3>3
  <2> QED  BY <1>0, <1>02, <2>1, <2>3, <2>4, <2>5, <2>6 DEF Reading, ScanTypeOK, Contents
<1>7. CASE SuspendRestart
  BY <1>0, <1>02, <1>7, NothingRead DEF Reading, ScanTypeOK, Contents, SuspendRestart
<1>8. ASSUME NEW left \in { 0, unread }, Restarted(left), left = 0 => unread # M_EOI PROVE Reading'
  <2>1. /\ unread' = left /\ insufficient' = (insufficient /\ left # 0)
        /\ nextRst' = (nextRst + 1) % 8 /\ toGo' = Interval /\ phase' = "mcu"
        /\ UNCHANGED << stream, have, placed, damage >>
    BY <1>8 DEF Restarted
  <2>2. unread' \in { 0, M_EOI } \cup Codes /\ (unread' = M_EOI <=> unread = M_EOI) /\ nextRst' \in 0..7
    BY <1>0, <1>8, <2>1 DEF M_EOI
  <2>3. insufficient' \in BOOLEAN /\ (insufficient' => unread' # 0)
    <3>1. insufficient' <=> insufficient /\ left # 0
      BY <2>1
    <3>2. insufficient' \in BOOLEAN
      BY <2>1
    <3> QED  BY <2>1, <3>1, <3>2
  <2> QED  BY <1>0, <1>02, <2>1, <2>2, <2>3, NothingRead DEF Reading, ScanTypeOK, Contents
<1>9. CASE SwallowMarker \/ Discard
  <2>1. Restarted(0) /\ (Expected(unread) \/ Action(unread) = 1)
    BY <1>9 DEF SwallowMarker, Discard
  <2>2. unread # M_EOI
    BY <1>0, <2>1, ActionIs
  <2> QED  BY <1>8, <2>1, <2>2
<1>10. CASE LeaveUnread
  <2>1. Restarted(unread) /\ unread # 0
    BY <1>10 DEF LeaveUnread
  <2> QED  BY <1>8, <2>1
<1>11. CASE ScanForward
  <2>1. /\ phase = "restart" /\ unread # 0 /\ ~Expected(unread) /\ Action(unread) = 2 /\ phase' = "scan"
        /\ UNCHANGED << stream, have, unread, nextRst, toGo, insufficient, placed, damage >>
    BY <1>11 DEF ScanForward
  <2>2. ~Expected(unread)' /\ Action(unread)' = 2
    BY <1>03, <2>1
  <2> QED  BY <1>0, <1>02, <2>1, <2>2, NothingRead DEF Reading, ScanTypeOK, Contents
<1>12. CASE UNCHANGED syncVars
  BY <1>0, <1>02, <1>03, <1>12, NothingRead DEF Reading, ScanTypeOK, Contents, syncVars
<1> QED
  BY <1>1, <1>2, <1>3, <1>4, <1>5, <1>6, <1>7, <1>9, <1>10, <1>11, <1>12 DEF SyncNext, DecodeMcu, ProcessRestart

-----------------------------------------------------------------------------
(* Counting                                                                *)

LEMMA CountIs ==
  ASSUME RestartAssumption, Reading, NEW x \in 1..Segments, Counted(x)
  PROVE  /\ x \in Nat \ { 0 } /\ x * Interval \in Nat /\ Len(placed) \in Nat /\ toGo \in 0..Interval
         /\ (x + 1) * Interval = x * Interval + Interval /\ (x - 1) * Interval = x * Interval - Interval
         /\ Size - toGo \in 1..Size /\ (toGo = 0 => Size - toGo = Size) /\ (toGo > 0 => Size - toGo < Size)
         /\ toGo = 0 /\ Decoding => x < Segments /\ x + 1 \in 1..Segments
<1>1. Segments \in Nat \ { 0 } /\ Interval \in Nat \ { 0 } /\ Size = Interval + 1 /\ toGo \in 0..Interval
  BY SizeIs DEF Reading, ScanTypeOK
<1>2. placed \in Seq(Contents)
  BY DEF Reading, Contents
<1>3. x \in Nat \ { 0 } /\ Len(placed) \in Nat /\ Len(placed) + toGo = x * Interval
  BY <1>1, <1>2 DEF Counted
<1>4. /\ x * Interval \in Nat /\ (x + 1) * Interval = x * Interval + Interval
      /\ (x - 1) * Interval = x * Interval - Interval
  BY <1>1, <1>3
<1>5. Size - toGo \in 1..Size /\ (toGo = 0 => Size - toGo = Size) /\ (toGo > 0 => Size - toGo < Size)
  <2> HIDE DEF Size
  <2> QED  BY <1>1
<1>6. ASSUME toGo = 0, Decoding PROVE x < Segments /\ x + 1 \in 1..Segments
  <2>1. x * Interval < Segments * Interval
    BY <1>3, <1>6 DEF Decoding, Total
  <2> QED  BY <1>1, <1>3, <2>1, LessFactor
<1> QED  BY <1>1, <1>3, <1>4, <1>5, <1>6

\* The MCU that is read next, and its place.
LEMMA NextMcu ==
  ASSUME RestartAssumption, Reading, NEW x \in 1..Segments, Counted(x), toGo > 0
  PROVE  SegmentOf(Len(placed) + 1) = x /\ Own(Len(placed) + 1) = << x, Size - toGo >>
<1>1. Interval \in Nat \ { 0 } /\ Size = Interval + 1
  BY SizeIs
<1>2. /\ x \in Nat \ { 0 } /\ Len(placed) \in Nat /\ toGo \in 1..Interval /\ Len(placed) + toGo = x * Interval
      /\ (x - 1) * Interval = x * Interval - Interval /\ x * Interval \in Nat
  BY CountIs DEF Counted
<1> DEFINE p == Len(placed) + 1
<1>3. p - 1 = (x - 1) * Interval + (Interval - toGo)
  BY <1>1, <1>2
<1>4. x - 1 \in Nat /\ Interval - toGo \in 0..(Interval - 1)
  BY <1>1, <1>2
<1>5. (p - 1) \div Interval = x - 1 /\ (p - 1) % Interval = Interval - toGo
  <2>1. /\ ((x - 1) * Interval + (Interval - toGo)) \div Interval = x - 1
        /\ ((x - 1) * Interval + (Interval - toGo)) % Interval = Interval - toGo
    BY <1>1, <1>4, DivUnique
  <2> HIDE DEF p
  <2> QED  BY <1>3, <2>1
<1>6. Interval - toGo + 1 = Size - toGo /\ x - 1 + 1 = x
  <2> HIDE DEF Size
  <2> QED  BY <1>1, <1>2
<1>7. SegmentOf(p) = x /\ Own(p) = << x, Size - toGo >>
  <2> HIDE DEF p, Size
  <2> QED  BY <1>5, <1>6 DEF SegmentOf, Own
<1> QED  BY <1>7

\* An MCU is put in its place.
LEMMA CountedPlaces ==
  ASSUME RestartAssumption, Reading, Decoding, toGo > 0, NEW what \in Contents, Place(what),
         NEW x \in 1..Segments, Counted(x), nextRst' = nextRst
  PROVE  Counted(x)'
<1>1. Len(placed') = Len(placed) + 1 /\ toGo' = toGo - 1 /\ Len(placed) \in Nat /\ toGo \in 0..Interval
  BY PlaceKeeps DEF Reading, ScanTypeOK
<1> QED  BY <1>1, SizeIs DEF Counted

\* A segment begins.
LEMMA CountedBegins ==
  ASSUME RestartAssumption, Reading, Decoding, toGo = 0, NEW left, Restarted(left), NEW x \in 1..Segments, Counted(x)
  PROVE  x + 1 \in 1..Segments /\ Counted(x + 1)' /\ toGo' = Interval /\ Size - toGo' = 1 /\ Gone' = Gone
<1>1. x + 1 \in 1..Segments /\ x \in Nat \ { 0 } /\ (x + 1) * Interval = x * Interval + Interval
  BY CountIs
<1>2. /\ nextRst' = (nextRst + 1) % 8 /\ toGo' = Interval
      /\ placed' = placed /\ stream' = stream /\ damage' = damage
  BY DEF Restarted
<1>3. Len(placed) + 0 = x * Interval /\ nextRst = (x - 1) % 8 /\ Len(placed) \in Nat
  BY CountIs DEF Counted
<1>4. (((x - 1) % 8) + 1) % 8 = (x + 1 - 1) % 8
  BY <1>1
<1>5. Interval \in Nat \ { 0 } /\ Size = Interval + 1
  BY SizeIs
<1>6. Size - toGo' = 1
  <2> HIDE DEF Size
  <2> QED  BY <1>2, <1>5
<1>7. Len(placed') + toGo' = (x + 1) * Interval
  BY <1>1, <1>2, <1>3, <1>5
<1> QED  BY <1>1, <1>2, <1>3, <1>4, <1>6, <1>7 DEF Counted, Gone

-----------------------------------------------------------------------------
(* What a marker is taken for                                              *)

LEMMA CodeIs ==
  ASSUME NEW i \in Int, NEW n \in -2..4
  PROVE  Code(i + n) = M_RST0 + ((((i - 1) % 8) + n) % 8)
<1>1. (i + n - 1) % 8 = (((i - 1) % 8) + n) % 8
  OBVIOUS
<1> QED  BY <1>1 DEF Code

LEMMA CodesDiffer ==
  ASSUME NEW i \in Int, NEW n \in -2..4, NEW m \in -2..4, Code(i + n) = Code(i + m)
  PROVE  n = m \/ n - m \in { 8, -8 }
<1> DEFINE j == (i - 1) % 8
<1>1. j \in 0..7
  OBVIOUS
<1>2. Code(i + n) = M_RST0 + ((j + n) % 8) /\ Code(i + m) = M_RST0 + ((j + m) % 8)
  BY CodeIs
<1> HIDE DEF j
<1>3. (j + n) % 8 = (j + m) % 8
  BY <1>1, <1>2 DEF M_RST0
<1> QED  BY <1>1, <1>3

\* Decoding segment x: the marker after it is expected, the next two are taken
\* for later ones and the two before for earlier ones.
LEMMA GuessIs ==
  ASSUME NEW x \in Nat \ { 0 }, nextRst = (x - 1) % 8
  PROVE  /\ \A code : Expected(code) <=> code = Code(x)
         /\ \A code \in Codes : Action(code) = 3 => code \in { Code(x + 1), Code(x + 2) }
         /\ ~Expected(Code(x + 1)) /\ Action(Code(x + 1)) = 3 /\ ~Expected(Code(x + 2)) /\ Action(Code(x + 2)) = 3
         /\ ~Expected(Code(x - 1)) /\ Action(Code(x - 1)) = 2 /\ ~Expected(Code(x - 2)) /\ Action(Code(x - 2)) = 2
         /\ Code(x) # 0 /\ Code(x) # M_EOI
<1>0. x \in Int /\ nextRst \in 0..7
  OBVIOUS
<1>1. /\ Code(x + 0) = Away(0) /\ Code(x + 1) = Away(1) /\ Code(x + 2) = Away(2)
      /\ Code(x + -1) = Away(-1) /\ Code(x + -2) = Away(-2)
  <2>1. \A n \in -2..2 : Code(x + n) = M_RST0 + ((((x - 1) % 8) + n) % 8)
    BY <1>0, CodeIs
  <2> QED  BY <2>1 DEF Away
<1>2. x + 0 = x /\ x + -1 = x - 1 /\ x + -2 = x - 2
  OBVIOUS
<1>3. /\ Code(x) = Away(0) /\ Code(x + 1) = Away(1) /\ Code(x + 2) = Away(2)
      /\ Code(x - 1) = Away(-1) /\ Code(x - 2) = Away(-2)
  BY <1>1, <1>2
<1>4. \A code \in Codes : Action(code) = 3 => code \in { Away(1), Away(2) }
  BY <1>0 DEF Codes, M_RST0, M_RST7, M_SOF0, Action, Future, Prior, Away
<1>5. /\ ~Expected(Away(1)) /\ Action(Away(1)) = 3 /\ ~Expected(Away(2)) /\ Action(Away(2)) = 3
      /\ ~Expected(Away(-1)) /\ Action(Away(-1)) = 2 /\ ~Expected(Away(-2)) /\ Action(Away(-2)) = 2
      /\ Away(0) # 0 /\ Away(0) # M_EOI
  <2>1. \A n \in -2..2 : Away(n) \in M_RST0..M_RST7
    BY <1>0 DEF M_RST0, M_RST7, Away
  <2>2. ASSUME NEW n \in -2..2, NEW m \in -2..2, Away(n) = Away(m) PROVE n = m
    <3>1. (nextRst + n) % 8 = (nextRst + m) % 8
      BY <1>0, <2>2 DEF M_RST0, Away
    <3> QED  BY <1>0, <3>1
  <2>3. ~Expected(Away(1)) /\ ~Expected(Away(2)) /\ ~Expected(Away(-1)) /\ ~Expected(Away(-2))
    BY <2>2 DEF Expected
  <2>4. \A n \in { 1, 2 } : Future(Away(n))
    BY DEF Future
  <2>5. \A n \in { -1, -2 } : Prior(Away(n)) /\ ~Future(Away(n))
    BY <2>2 DEF Future, Prior
  <2>6. ASSUME NEW n \in { 1, 2 } PROVE Action(Away(n)) = 3
    <3>1. Away(n) \in M_RST0..M_RST7 /\ Future(Away(n)) /\ ~Prior(Away(n)) /\ Away(n) \in Int
      BY <2>1, <2>2, <2>4 DEF M_RST0, M_RST7, Prior
    <3>2. ~(Away(n) < M_SOF0) /\ ~(Away(n) < M_RST0 \/ Away(n) > M_RST7)
      BY <3>1 DEF M_RST0, M_RST7, M_SOF0
    <3> QED  BY <3>1, <3>2 DEF Action
  <2>7. ASSUME NEW n \in { -1, -2 } PROVE Action(Away(n)) = 2
    BY <2>1, <2>5 DEF Action, M_RST0, M_RST7, M_SOF0
  <2>8. Away(0) # 0 /\ Away(0) # M_EOI
    BY <2>1 DEF M_RST0, M_RST7, M_EOI
  <2> QED  BY <2>3, <2>6, <2>7, <2>8
<1>6. \A code : Expected(code) <=> code = Away(0)
  BY DEF Expected
<1> QED  BY <1>3, <1>4, <1>5, <1>6

-----------------------------------------------------------------------------
(* The next item                                                           *)

\* In front of the damage.
LEMMA BeforeItem ==
  ASSUME RestartAssumption, Reading, have > 0, Consume, UNCHANGED damage,
         NEW q \in 1..Segments, NEW o \in 1..Size, BeforeDamage(q, o), Gone < damage.kept
  PROVE  /\ o < Size => Head(stream) = << q, o >> /\ ~IsMarker(Head(stream)) /\ BeforeDamage(q, o + 1)'
         /\ o = Size => Head(stream) = Marker(EndCode(q)) /\ BeforeDamage(q + 1, 1)'
<1>1. DamageIs
  BY StreamsAre DEF Reading
<1>2. Gone \in Nat /\ damage.kept \in Nat /\ Gone + 1 \in 1..damage.kept
  <2>1. damage.kept \in 0..ScanLength
    BY <1>1 DEF DamageIs
  <2> QED  BY <2>1, SizeIs DEF Reading
<1>3. Head(stream) = Scan[PlaceOf(q, o)]
  BY <1>1, <1>2, HeadIs, ItemsAre DEF BeforeDamage
<1>4. Gone' = Gone + 1 /\ damage' = damage
  BY ConsumeIs
<1>5. q \in Nat \ { 0 } /\ Size \in Nat
  BY SizeIs
<1>6. ASSUME o < Size
      PROVE  Head(stream) = << q, o >> /\ ~IsMarker(Head(stream)) /\ BeforeDamage(q, o + 1)'
  <2>1. Head(stream) = << q, o >>
    BY <1>3, <1>6, ItemIs
  <2>2. PlaceOf(q, o) + 1 = PlaceOf(q, o + 1)
    BY <1>5, <1>6, PlaceIs
  <2>3. BeforeDamage(q, o + 1)'
    BY <1>2, <1>4, <2>2 DEF BeforeDamage, PlaceOf, Size
  <2> QED  BY <2>1, <2>3 DEF IsMarker
<1>7. ASSUME o = Size PROVE Head(stream) = Marker(EndCode(q)) /\ BeforeDamage(q + 1, 1)'
  <2>1. Head(stream) = Marker(EndCode(q))
    BY <1>3, <1>7, ItemIs
  <2>2. PlaceOf(q, o) + 1 = PlaceOf(q + 1, 1)
    BY <1>5, <1>7, PlaceIs
  <2> QED  BY <1>2, <1>4, <2>1, <2>2 DEF BeforeDamage, PlaceOf, Size
<1> QED  BY <1>6, <1>7

\* Behind the damage.
LEMMA AfterItem ==
  ASSUME RestartAssumption, Reading, have > 0, Consume, UNCHANGED damage,
         NEW q \in 1..(Segments + 1), NEW o \in 1..Size, AfterDamage(q, o)
  PROVE  /\ q \in 1..Segments
         /\ o < Size => Head(stream) = << q, o >> /\ ~IsMarker(Head(stream)) /\ AfterDamage(q, o + 1)'
         /\ o = Size => Head(stream) = Marker(EndCode(q)) /\ AfterDamage(q + 1, 1)'
<1>1. DamageIs
  BY StreamsAre DEF Reading
<1> DEFINE n == damage.kept
           m == damage.from
           z == Len(damage.wrong)
           k == PlaceOf(q, o)
<1>2. /\ n \in Nat /\ m \in Nat /\ z \in Nat /\ ScanLength \in Nat
      /\ Len(damage.items) = n + z + ScanLength + 1 - m
      /\ \A i \in (n + z + 1)..Len(damage.items) : damage.items[i] = Scan[i - n - z + m - 1]
  <2>1. damage.kept \in 0..ScanLength /\ damage.from \in 1..(ScanLength + 1)
    BY <1>1 DEF DamageIs
  <2>2. z \in 0..1 /\ Len(damage.items) = n + z + ScanLength + 1 - m
    BY <1>1, ItemsAre
  <2>3. ASSUME NEW i \in (n + z + 1)..Len(damage.items) PROVE damage.items[i] = Scan[i - n - z + m - 1]
    BY <1>1, <2>3, ItemsAre
  <2>4. ScanLength \in Nat
    BY SizeIs
  <2>5. n \in Nat /\ m \in Nat /\ z \in Nat
    BY <2>1, <2>2, <2>4
  <2> HIDE DEF n, m, z
  <2> QED  BY <2>2, <2>3, <2>4, <2>5
<1>3. Gone \in Nat /\ Gone >= n + z /\ Gone - n - z + m = k
  BY DEF Reading, AfterDamage
<1>4. Gone + 1 \in 1..Len(damage.items) /\ Head(stream) = damage.items[Gone + 1]
  BY HeadIs
<1>5. Gone' = Gone + 1 /\ damage' = damage
  BY ConsumeIs
<1>6. q \in Nat \ { 0 } /\ Size \in Nat \ { 0 } /\ Segments \in Nat \ { 0 }
  BY SizeIs
<1> HIDE DEF n, m, z, k, ScanLength, Size
<1>7. Head(stream) = Scan[k] /\ k <= ScanLength
  <2> DEFINE g == Gone + 1
  <2>1. g \in (n + z + 1)..Len(damage.items) /\ g - n - z + m - 1 = k /\ k <= ScanLength
    BY <1>2, <1>3, <1>4
  <2>2. Head(stream) = damage.items[g]
    BY <1>4
  <2> HIDE DEF g
  <2>3. damage.items[g] = Scan[g - n - z + m - 1]
    BY <1>2, <2>1
  <2> QED  BY <2>1, <2>2, <2>3
<1>8. q \in 1..Segments
  <2>1. q # Segments + 1
    <3> SUFFICES ASSUME q = Segments + 1 PROVE FALSE
      OBVIOUS
    <3>1. Segments + 1 - 1 = Segments /\ Segments * Size \in Nat
      BY <1>6
    <3>2. k = Segments * Size + o
      <4>1. k = (Segments + 1 - 1) * Size + o
        BY <1>6, <3>1 DEF k, PlaceOf
      <4> QED  BY <3>1, <4>1
    <3> QED  BY <1>6, <1>7, <3>1, <3>2 DEF ScanLength
  <2> QED  BY <1>6, <2>1
<1>9. (Gone >= n + z)' /\ Gone' - n - z + m = k + 1 /\ n' = n /\ m' = m /\ z' = z
  <2>1. n' = n /\ m' = m /\ z' = z
    BY <1>5 DEF n, m, z
  <2> QED  BY <1>2, <1>3, <1>5, <2>1
<1>10. ASSUME o < Size
       PROVE  Head(stream) = << q, o >> /\ ~IsMarker(Head(stream)) /\ AfterDamage(q, o + 1)'
  <2>1. Head(stream) = << q, o >>
    BY <1>7, <1>8, <1>10, ItemIs DEF k
  <2>2. k + 1 = PlaceOf(q, o + 1)
    BY <1>6, <1>10, PlaceIs DEF k
  <2>3. AfterDamage(q, o + 1)'
    BY <1>9, <2>2 DEF AfterDamage, PlaceOf, n, m, z, Size
  <2> QED  BY <2>1, <2>3 DEF IsMarker
<1>11. ASSUME o = Size PROVE Head(stream) = Marker(EndCode(q)) /\ AfterDamage(q + 1, 1)'
  <2>1. Head(stream) = Marker(EndCode(q))
    BY <1>7, <1>8, <1>11, ItemIs DEF k
  <2>2. k + 1 = PlaceOf(q + 1, 1)
    BY <1>6, <1>11, PlaceIs DEF k
  <2>3. AfterDamage(q + 1, 1)'
    BY <1>9, <2>2 DEF AfterDamage, PlaceOf, n, m, z, Size
  <2> QED  BY <2>1, <2>3
<1> QED  BY <1>8, <1>10, <1>11

\* At the damage.
LEMMA JumpIs ==
  ASSUME RestartAssumption, Reading, have > 0, damage.kind \in Tracked,
         NEW x \in 1..Segments, NEW o \in 1..Size, BeforeDamage(x, o), Gone = damage.kept
  PROVE  damage.kind # "whole" /\ \E r \in 1..Segments, p \in 1..Size : Jumps(x, o, r, p)
<1>1. DamageIs
  BY StreamsAre DEF Reading
<1>2. damage.kind # "whole"
  <2> SUFFICES ASSUME damage.kind = "whole" PROVE FALSE
    OBVIOUS
  <2>1. damage.kept = ScanLength /\ damage.wrong = << >> /\ damage.from = ScanLength + 1
    BY <1>1 DEF DamageIs
  <2>2. Len(damage.items) = damage.kept + Len(damage.wrong) + ScanLength + 1 - damage.from
    BY <1>1, ItemsAre
  <2>3. Len(damage.wrong) = 0 /\ ScanLength \in Nat
    BY <2>1, SizeIs
  <2>4. Len(damage.items) = ScanLength
    BY <2>1, <2>2, <2>3
  <2> QED  BY <2>1, <2>3, <2>4, HeadIs
<1>3. PICK q \in 1..Segments, r \in 1..Segments, k \in 1..Size, p \in 1..Size : Jumps(q, k, r, p)
  <2>1. damage.kind \in Tracked \ { "whole" }
    BY <1>2
  <2> QED  BY <1>1, <2>1 DEF DamageIs
<1>4. PlaceOf(q, k) = PlaceOf(x, o)
  BY <1>3 DEF Jumps, BeforeDamage
<1>5. q = x /\ k = o
  <2>1. q \in Nat \ { 0 } /\ x \in Nat \ { 0 }
    BY SizeIs
  <2> QED  BY <1>4, <2>1, PlaceUnique
<1> QED  BY <1>2, <1>3, <1>5

\* One item is read, with no marker in hand: it is the next of the segment, or
\* the decoder is out of step.
StandsAt(x, o) == BeforeDamage(x, o) \/ (damage.kind # "whole" /\ AfterDamage(x, o))
Off(x) == damage.kind # "whole" /\ OutOfStep(x)
DataRead(x, o) ==
  \/ toGo > 0 /\ Head(stream) = << x, o >> /\ StandsAt(x, o + 1)'
  \/ Off(x)'
MarkerRead(x) ==
  \/ toGo = 0 /\ unread' = EndCode(x) /\ StandsAt(x + 1, 1)'
  \/ Off(x)'
ReadRight(x, o) == IF IsMarker(Head(stream)) THEN MarkerRead(x) ELSE DataRead(x, o)

LEMMA ReadsLoose ==
  ASSUME RestartAssumption, Reading, have > 0, Consume, UNCHANGED damage, unread = 0,
         NEW x \in 1..Segments, damage.kind # "whole", x \in damage.first..Reach,
         NEW q \in 1..(Segments + 1), NEW o \in 1..Size, Loose(x, q, o),
         unread' = IF IsMarker(Head(stream)) THEN Head(stream)[1] ELSE unread
  PROVE  Off(x)'
<1>1. /\ q \in 1..Segments
      /\ o < Size => Head(stream) = << q, o >> /\ ~IsMarker(Head(stream)) /\ AfterDamage(q, o + 1)'
      /\ o = Size => Head(stream) = Marker(EndCode(q)) /\ AfterDamage(q + 1, 1)'
  BY AfterItem DEF Loose
<1>2. Size \in Nat \ { 0 } /\ Segments \in Nat
  BY SizeIs
<1>3. q - x \in -2..2 /\ q <= Reach /\ damage' = damage /\ Reach' = Reach
  BY DEF Loose, Reach
<1>4. CASE o < Size
  <2>1. Loose(x, q, o + 1)' /\ o + 1 \in 1..Size
    BY <1>1, <1>2, <1>3, <1>4 DEF Loose, AfterDamage, PlaceOf, Size
  <2> QED  BY <1>3, <2>1 DEF OutOfStep, Off, Size
<1>5. CASE o = Size
  <2>1. unread' = EndCode(q) /\ AfterDamage(q + 1, 1)'
    BY <1>1, <1>5 DEF IsMarker, Marker
  <2>2. HoldsMarker(x, q)'
    BY <1>1, <1>3, <2>1 DEF HoldsMarker, AfterDamage, PlaceOf, EndCode, Code, Size
  <2> QED  BY <1>3, <2>2 DEF OutOfStep, Off, Size
<1> QED  BY <1>2, <1>4, <1>5

LEMMA ReadsOne ==
  ASSUME RestartAssumption, Reading, have > 0, Consume, UNCHANGED damage, unread = 0,
         NEW x \in 1..Segments, damage.kind \in Tracked, InSegment(x), NEW o \in 1..Size, o = Size - toGo,
         unread' = IF IsMarker(Head(stream)) THEN Head(stream)[1] ELSE unread
  PROVE  ReadRight(x, o)
<1>1. /\ Size \in Nat \ { 0 } /\ Segments \in Nat \ { 0 } /\ toGo \in 0..Interval /\ Size = Interval + 1
      /\ Interval \in Nat
  BY SizeIs DEF Reading, ScanTypeOK
<1>2. o \in 1..Size /\ (o < Size <=> toGo > 0) /\ (o = Size <=> toGo = 0)
  <2> HIDE DEF Size
  <2> QED  BY <1>1
<1>3. ASSUME Off(x)' PROVE ReadRight(x, o)
  BY <1>3 DEF ReadRight, DataRead, MarkerRead
<1>4. ASSUME o < Size, Head(stream) = << x, o >>, ~IsMarker(Head(stream)), StandsAt(x, o + 1)'
      PROVE  ReadRight(x, o)
  BY <1>2, <1>4 DEF ReadRight, DataRead
<1>5. ASSUME o = Size, Head(stream) = Marker(EndCode(x)), StandsAt(x + 1, 1)' PROVE ReadRight(x, o)
  <2>0. IsMarker(Head(stream)) /\ Head(stream)[1] = EndCode(x)
    BY <1>5, MarkerIs
  <2>1. IsMarker(Head(stream)) /\ unread' = EndCode(x)
    BY <2>0
  <2> QED  BY <1>2, <1>5, <2>1 DEF ReadRight, MarkerRead
<1>6. ASSUME BeforeDamage(x, o) PROVE ReadRight(x, o)
  <2>1. Gone <= damage.kept /\ Gone \in Nat /\ damage.kept \in Nat
    <3>1. DamageIs
      BY StreamsAre DEF Reading
    <3>2. damage.kept \in 0..ScanLength
      BY <3>1 DEF DamageIs
    <3> QED  BY <1>6, <3>2, SizeIs DEF BeforeDamage, Reading
  <2>2. CASE Gone < damage.kept
    <3>1. /\ o < Size => Head(stream) = << x, o >> /\ ~IsMarker(Head(stream)) /\ BeforeDamage(x, o + 1)'
          /\ o = Size => Head(stream) = Marker(EndCode(x)) /\ BeforeDamage(x + 1, 1)'
      BY <1>6, <2>2, BeforeItem
    <3>2. (o < Size => StandsAt(x, o + 1)') /\ (o = Size => StandsAt(x + 1, 1)')
      BY <3>1 DEF StandsAt
    <3> QED  BY <1>1, <1>2, <1>4, <1>5, <3>1, <3>2
  <2>3. CASE Gone = damage.kept
    <3>1. damage.kind # "whole" /\ \E r \in 1..Segments, p \in 1..Size : Jumps(x, o, r, p)
      BY <1>2, <1>6, <2>3, JumpIs
    <3>2. PICK r \in 1..Segments, p \in 1..Size : Jumps(x, o, r, p)
      BY <3>1
    <3>3. Gone' = Gone + 1 /\ damage' = damage /\ Reach' = Reach
      BY ConsumeIs DEF Reach
    <3>4. DamageIs
      BY StreamsAre DEF Reading
    <3>5. Reach \in Nat /\ damage.first \in Nat /\ damage.from \in Nat
      <4>1. Reach \in Nat /\ damage.first \in Nat \ { 0 } /\ damage.from \in 1..(ScanLength + 1)
        BY <3>4 DEF DamageIs
      <4> QED  BY <4>1, SizeIs
    <3>6. CASE damage.wrong = << >>
      <4>1. x = damage.first /\ r \in x..(x + 2) /\ r <= Reach /\ damage.from = PlaceOf(r, p)
        BY <3>2, <3>6 DEF Jumps
      <4>2. Len(damage.wrong) = 0
        BY <3>6
      <4>3. AfterDamage(r, p)
        BY <2>1, <2>3, <3>5, <4>1, <4>2 DEF AfterDamage
      <4>4. Loose(x, r, p) /\ x \in damage.first..Reach /\ r \in 1..(Segments + 1)
        BY <1>1, <3>5, <4>1, <4>3 DEF Loose
      <4>5. Off(x)'
        BY <3>1, <4>4, ReadsLoose
      <4> QED  BY <1>3, <4>5
    <3>7. CASE damage.wrong # << >>
      <4>1. PICK c \in Codes : damage.wrong = << Marker(c) >> /\ (r = x => c # Code(x + 2))
        BY <3>2, <3>7 DEF Jumps
      <4>2. /\ Reach = damage.first + 3 /\ x \in damage.first..(damage.first + 1)
            /\ r \in x..(x + 1) /\ r <= damage.first + 1 /\ damage.from = PlaceOf(r, p)
            /\ r = x + 1 => p = 1
        BY <3>2, <3>7 DEF Jumps
      <4>3. Len(damage.wrong) = 1 /\ damage.items[damage.kept + 1] = Marker(c)
        BY <3>4, <4>1, ItemsAre
      <4>4. Head(stream) = Marker(c)
        BY <2>3, <4>3, HeadIs
      <4>5. unread' = c
        BY <4>4 DEF IsMarker, Marker
      <4>6. AfterDamage(r, p)'
        <5>1. Gone + 1 >= damage.kept + 1 /\ Gone + 1 - damage.kept - 1 + damage.from = PlaceOf(r, p)
          BY <2>1, <2>3, <3>5, <4>2
        <5>0. Len(damage'.wrong) = 1 /\ Gone' = Gone + 1 /\ damage'.kept = damage.kept /\ damage'.from = damage.from
          BY <3>3, <4>3
        <5>2. Gone' >= damage'.kept + Len(damage'.wrong)
              /\ Gone' - damage'.kept - Len(damage'.wrong) + damage'.from = PlaceOf(r, p)
          BY <2>1, <2>3, <3>5, <4>2, <5>0
        <5> QED  BY <5>2 DEF AfterDamage, PlaceOf, Size
      <4>7. HoldsWrong(x, r, p)'
        <5>1. damage'.wrong = << Marker(unread') >> /\ Gone' = damage'.kept + 1
          BY <2>3, <3>3, <4>1, <4>5
        <5>2. r - x \in -1..1 /\ r <= damage'.first + 1
          BY <1>1, <3>3, <4>2
        <5>3. r = x => unread' # Code(x + 2)
          BY <4>1, <4>5
        <5>4. r # x - 1
          BY <1>1, <4>2
        <5> QED  BY <4>2, <4>6, <5>1, <5>2, <5>3, <5>4 DEF HoldsWrong, AfterDamage, PlaceOf, Code, Size
      <4>8. x \in damage'.first..Reach' /\ r \in 1..(Segments + 1)
        BY <1>1, <3>3, <3>5, <4>2
      <4>9. Off(x)'
        BY <3>1, <3>3, <4>7, <4>8 DEF Off, OutOfStep, Size
      <4> QED  BY <1>3, <4>9
    <3> QED  BY <3>6, <3>7
  <2> QED  BY <2>1, <2>2, <2>3
<1>7. ASSUME damage.kind # "whole", AfterDamage(x, o) PROVE ReadRight(x, o)
  <2>0. x \in 1..(Segments + 1)
    BY <1>1
  <2>1. /\ o < Size => Head(stream) = << x, o >> /\ ~IsMarker(Head(stream)) /\ AfterDamage(x, o + 1)'
        /\ o = Size => Head(stream) = Marker(EndCode(x)) /\ AfterDamage(x + 1, 1)'
    BY <1>7, <2>0, AfterItem
  <2>2. (o < Size => StandsAt(x, o + 1)') /\ (o = Size => StandsAt(x + 1, 1)')
    BY <1>7, <2>1 DEF StandsAt
  <2> QED  BY <1>1, <1>2, <1>4, <1>5, <2>1, <2>2
<1>8. ASSUME damage.kind # "whole", OutOfStep(x) PROVE ReadRight(x, o)
  <2>1. PICK q \in 1..(Segments + 1), k \in 1..Size :
          HoldsMarker(x, q) \/ Loose(x, q, k) \/ Skips(x, q, k) \/ HoldsWrong(x, q, k)
    BY <1>8 DEF OutOfStep
  <2>2. ~HoldsMarker(x, q)
    BY DEF HoldsMarker, EndCode, Code, M_EOI, M_RST0
  <2>3. ~Skips(x, q, k)
    BY DEF Skips
  <2>4. ~HoldsWrong(x, q, k)
    <3> SUFFICES ASSUME HoldsWrong(x, q, k) PROVE FALSE
      OBVIOUS
    <3>1. damage.wrong = << Marker(0) >>
      BY DEF HoldsWrong
    <3>2. DamageIs
      BY StreamsAre DEF Reading
    <3>3. PICK c \in Codes \cup { M_EOI } : damage.wrong = << Marker(c) >>
      BY <3>1, <3>2 DEF DamageIs
    <3>4. c = 0
      BY <3>1, <3>3 DEF Marker
    <3> QED  BY <3>4 DEF Codes, M_EOI, M_RST0, M_RST7
  <2>5. Loose(x, q, k) /\ x \in damage.first..Reach
    BY <1>8, <2>1, <2>2, <2>3, <2>4 DEF OutOfStep
  <2>6. Off(x)'
    BY <1>8, <2>5, ReadsLoose
  <2> QED  BY <1>3, <2>6
<1>9. \/ BeforeDamage(x, o) \/ (damage.kind # "whole" /\ AfterDamage(x, o))
      \/ (damage.kind # "whole" /\ OutOfStep(x))
  <2>1. unread # Code(x)
    BY DEF Code, M_RST0
  <2> QED  BY <2>1 DEF InSegment, InStepBefore, InStepAfter
<1> QED  BY <1>6, <1>7, <1>8, <1>9

\* A marker that does not belong there.
LEMMA WrongIs ==
  ASSUME RestartAssumption, Reading, damage.kind \in Tracked, NEW c, damage.wrong = << Marker(c) >>
  PROVE  damage.kind # "whole" /\ c \in Codes /\ Reach = damage.first + 3 /\ damage.first \in Nat \ { 0 }
<1>1. DamageIs
  BY StreamsAre DEF Reading
<1>2. damage.wrong # << >>
  OBVIOUS
<1>3. damage.kind # "whole" /\ damage.first \in Nat \ { 0 }
  BY <1>1, <1>2 DEF DamageIs
<1>4. \E q, r \in 1..Segments, o, p \in 1..Size : Jumps(q, o, r, p)
  <2>1. damage.kind \in Tracked \ { "whole" }
    BY <1>3
  <2> QED  BY <1>1, <2>1 DEF DamageIs
<1>5. PICK d \in Codes : damage.wrong = << Marker(d) >> /\ Reach = damage.first + 3
  BY <1>2, <1>4 DEF Jumps
<1>6. c = d
  <2>1. << Marker(c) >>[1] = << Marker(d) >>[1]
    BY <1>5
  <2>2. Marker(c)[1] = Marker(d)[1]
    BY <2>1
  <2> QED  BY <2>2 DEF Marker
<1> QED  BY <1>3, <1>5, <1>6

\* Another marker is looked for only out of step.
LEMMA SkipsIs ==
  ASSUME RestartAssumption, Reading, damage.kind \in Tracked, phase = "scan",
         NEW x \in 1..Segments, Counted(x), InSegment(x)
  PROVE  /\ damage.kind # "whole" /\ x \in damage.first..Reach
         /\ \E q \in 1..(Segments + 1), o \in 1..Size : Skips(x, q, o)
<1>1. unread # 0 /\ ~Expected(unread) /\ Action(unread) = 2 /\ toGo = 0
  BY DEF Reading
<1>2. x \in Nat \ { 0 } /\ nextRst = (x - 1) % 8 /\ Size \in Nat \ { 0 } /\ Segments \in Nat
  BY SizeIs DEF Counted
<1>3. unread # Code(x)
  BY <1>1, <1>2, GuessIs
<1>4. damage.kind # "whole" /\ OutOfStep(x)
  BY <1>1, <1>3 DEF InSegment, InStepBefore, InStepAfter
<1>5. PICK q \in 1..(Segments + 1), o \in 1..Size :
        HoldsMarker(x, q) \/ Loose(x, q, o) \/ Skips(x, q, o) \/ HoldsWrong(x, q, o)
  BY <1>4 DEF OutOfStep
<1>6. x \in damage.first..Reach /\ damage.first \in Nat /\ Reach \in Nat
  <2>1. DamageIs
    BY StreamsAre DEF Reading
  <2>2. damage.first \in Nat \ { 0 } /\ Reach \in Nat
    BY <2>1 DEF DamageIs
  <2> QED  BY <1>4, <2>2 DEF OutOfStep
<1>7. CASE HoldsMarker(x, q)
  <2>1. q \in 1..Segments /\ q - x \in -2..2 /\ unread = EndCode(q) /\ AfterDamage(q + 1, 1)
    BY <1>7 DEF HoldsMarker
  <2>2. unread = Code(q)
    <3>1. unread # M_EOI
      BY <1>1, <1>2, ActionIs DEF Reading, ScanTypeOK
    <3> QED  BY <2>1, <3>1 DEF EndCode
  <2>3. q - x \in { -2, -1 }
    <3>1. q # x /\ q # x + 1 /\ q # x + 2
      BY <1>1, <1>2, <2>2, GuessIs
    <3> QED  BY <1>2, <2>1, <3>1
  <2>4. q + 1 - x \in -1..1 /\ q + 1 <= Reach /\ q + 1 \in 1..(Segments + 1) /\ 1 \in 1..Size
    BY <1>2, <1>6, <2>1, <2>3
  <2>5. Skips(x, q + 1, 1)
    BY <1>1, <2>1, <2>4 DEF Skips
  <2> QED  BY <1>4, <1>6, <2>4, <2>5
<1>8. CASE Loose(x, q, o)
  BY <1>1, <1>8 DEF Loose
<1>9. CASE Skips(x, q, o)
  BY <1>4, <1>6, <1>9
<1>10. CASE HoldsWrong(x, q, o)
  <2>1. damage.wrong = << Marker(unread) >> /\ q - x \in -1..1 /\ q <= damage.first + 1 /\ AfterDamage(q, o)
    BY <1>10 DEF HoldsWrong
  <2>2. Reach = damage.first + 3
    BY <2>1, WrongIs
  <2>3. q <= Reach
    BY <1>2, <1>6, <2>1, <2>2
  <2>4. Skips(x, q, o)
    BY <1>1, <2>1, <2>3 DEF Skips
  <2> QED  BY <1>4, <1>6, <2>4
<1> QED  BY <1>5, <1>7, <1>8, <1>9, <1>10

LEMMA SkipsOne ==
  ASSUME RestartAssumption, Reading, have > 0, Consume, UNCHANGED << damage, nextRst, toGo >>,
         NEW x \in 1..Segments, damage.kind # "whole", x \in damage.first..Reach,
         NEW q \in 1..(Segments + 1), NEW o \in 1..Size, Skips(x, q, o),
         unread' = IF IsMarker(Head(stream)) THEN Head(stream)[1] ELSE unread
  PROVE  Off(x)'
<1>1. /\ q \in 1..Segments
      /\ o < Size => Head(stream) = << q, o >> /\ ~IsMarker(Head(stream)) /\ AfterDamage(q, o + 1)'
      /\ o = Size => Head(stream) = Marker(EndCode(q)) /\ AfterDamage(q + 1, 1)'
  BY AfterItem DEF Skips
<1>2. Size \in Nat \ { 0 } /\ Segments \in Nat
  BY SizeIs
<1>3. q - x \in -1..1 /\ q <= Reach /\ damage' = damage /\ Reach' = Reach
  BY DEF Skips, Reach
<1>4. CASE o < Size
  <2>1. unread' = unread /\ nextRst' = nextRst /\ toGo' = toGo
    BY <1>1, <1>4
  <2>2. unread' # 0 /\ ~Expected(unread)' /\ Action(unread)' = 2 /\ toGo' = 0
    BY <2>1, SameGuess DEF Skips
  <2>3. Skips(x, q, o + 1)' /\ o + 1 \in 1..Size
    BY <1>1, <1>2, <1>3, <1>4, <2>2 DEF Skips, AfterDamage, PlaceOf, Size
  <2> QED  BY <1>3, <2>3 DEF OutOfStep, Off, Size
<1>5. CASE o = Size
  <2>0. IsMarker(Head(stream)) /\ Head(stream)[1] = EndCode(q)
    BY <1>1, <1>5, MarkerIs
  <2>1. unread' = EndCode(q) /\ AfterDamage(q + 1, 1)'
    BY <1>1, <1>5, <2>0
  <2>2. q - x \in -2..2
    BY <1>2, <1>3
  <2>3. HoldsMarker(x, q)'
    BY <1>1, <1>3, <2>1, <2>2 DEF HoldsMarker, AfterDamage, PlaceOf, EndCode, Code, Size
  <2> QED  BY <1>2, <1>3, <2>3 DEF OutOfStep, Off, Size
<1> QED  BY <1>2, <1>4, <1>5

-----------------------------------------------------------------------------
(* One step                                                                *)

\* Every MCU is still where it may be.
LEMMA PlacedWellKeeps ==
  ASSUME RestartAssumption, Reading, Decoding, toGo > 0, NEW what \in Contents, Place(what), UNCHANGED damage,
         NEW x \in 1..Segments, Counted(x), PlacedWell,
         (damage.kind # "whole" /\ x \in damage.first..Reach) \/ what = << x, Size - toGo >>
  PROVE  PlacedWell'
<1>1. /\ DOMAIN placed' = 1..(Len(placed) + 1) /\ DOMAIN placed = 1..Len(placed) /\ Len(placed) \in Nat
      /\ \A p \in 1..Len(placed) : placed'[p] = placed[p]
      /\ placed'[Len(placed) + 1] = what
  BY PlaceKeeps
<1>2. SegmentOf(Len(placed) + 1) = x /\ Own(Len(placed) + 1) = << x, Size - toGo >>
  BY NextMcu
<1>3. damage' = damage /\ Reach' = Reach
  BY DEF Reach
<1>4. SUFFICES ASSUME NEW p \in DOMAIN placed'
               PROVE  (damage.kind # "whole" /\ SegmentOf(p) \in damage.first..Reach) \/ placed'[p] = Own(p)
  BY <1>3, <1>4 DEF PlacedWell, Right, SegmentOf, Own
<1>5. CASE p \in 1..Len(placed)
  BY <1>1, <1>5 DEF PlacedWell, Right
<1>6. CASE p = Len(placed) + 1
  BY <1>1, <1>2, <1>6
<1> QED  BY <1>1, <1>5, <1>6

\* Nothing is read, put in its place or begun.
LEMMA StaysInPlace ==
  ASSUME NEW x, Kept(x), UNCHANGED << stream, unread, nextRst, toGo, placed, damage >>
  PROVE  Kept(x)'
<1>1. /\ Gone' = Gone /\ Reach' = Reach /\ (Expected(unread)' <=> Expected(unread)) /\ Action(unread)' = Action(unread)
      /\ damage' = damage /\ unread' = unread /\ toGo' = toGo /\ placed' = placed /\ nextRst' = nextRst
  BY SameGuess DEF Gone, Reach
<1>2. \A q, o : /\ BeforeDamage(q, o)' <=> BeforeDamage(q, o)
                /\ AfterDamage(q, o)' <=> AfterDamage(q, o)
  BY <1>1 DEF BeforeDamage, AfterDamage, PlaceOf, Size
<1>3. OutOfStep(x)' <=> OutOfStep(x)
  BY <1>1, <1>2 DEF OutOfStep, HoldsMarker, Loose, Skips, HoldsWrong, EndCode, Code, Size
<1>4. (InStepBefore(x)' <=> InStepBefore(x)) /\ (InStepAfter(x)' <=> InStepAfter(x))
  BY <1>1 DEF InStepBefore, InStepAfter, BeforeDamage, AfterDamage, PlaceOf, Code, Size
<1>5. PlacedWell' <=> PlacedWell
  BY <1>1 DEF PlacedWell, Right, SegmentOf, Own
<1> QED  BY <1>1, <1>3, <1>4, <1>5 DEF Kept, Counted, InSegment

LEMMA OffIs ==
  ASSUME NEW x, Off(x)', UNCHANGED damage
  PROVE  InSegment(x)' /\ damage.kind # "whole" /\ x \in damage.first..Reach
<1>1. Reach' = Reach /\ damage' = damage
  BY DEF Reach
<1>2. (damage.kind # "whole")' /\ OutOfStep(x)'
  BY DEF Off
<1>3. (x \in damage.first..Reach)'
  BY <1>2 DEF OutOfStep
<1> QED  BY <1>1, <1>2, <1>3 DEF InSegment

\* Behind the marker of the segment.
LEMMA StandsBehind ==
  ASSUME NEW x, StandsAt(x + 1, 1), unread = Code(x), toGo = 0
  PROVE  InSegment(x)
BY DEF StandsAt, InSegment, InStepBefore, InStepAfter

LEMMA DecodeDataInPlace ==
  ASSUME RestartAssumption, Reading, damage.kind \in Tracked, DecodeData,
         NEW x \in 1..Segments, Counted(x), InSegment(x), PlacedWell
  PROVE  InSegment(x)' /\ PlacedWell'
<1>1. /\ Decoding /\ toGo > 0 /\ unread = 0 /\ have > 0 /\ Consume /\ nextRst' = nextRst /\ damage' = damage
      /\ unread' = IF IsMarker(Head(stream)) THEN Head(stream)[1] ELSE unread
      /\ Place(IF IsMarker(Head(stream)) THEN "stuffed" ELSE Head(stream))
  BY DEF DecodeData
<1>2. PICK o \in 1..Size : o = Size - toGo
  BY CountIs
<1>3. ReadRight(x, o)
  BY <1>1, <1>2, ReadsOne
<1> DEFINE what == IF IsMarker(Head(stream)) THEN "stuffed" ELSE Head(stream)
<1>4. what \in Contents
  BY <1>1, HeadIs, IsItemIs DEF Contents
<1>5. toGo' = toGo - 1 /\ toGo \in 0..Interval /\ Size = Interval + 1 /\ Interval \in Nat
  BY <1>1, SizeIs DEF Reading, ScanTypeOK, Place
<1>6. CASE Off(x)'
  <2>1. InSegment(x)' /\ damage.kind # "whole" /\ x \in damage.first..Reach
    BY <1>1, <1>6, OffIs
  <2>2. \A w \in Contents : Place(w) => PlacedWell'
    BY <1>1, <2>1, PlacedWellKeeps
  <2> QED  BY <1>1, <1>4, <2>1, <2>2
<1>7. CASE ~IsMarker(Head(stream)) /\ Head(stream) = << x, o >> /\ StandsAt(x, o + 1)'
  <2>1. (Size - toGo)' = o + 1
    <3>1. Size - (toGo - 1) = o + 1
      <4> HIDE DEF Size
      <4> QED  BY <1>2, <1>5
    <3> QED  BY <1>5, <3>1 DEF Size
  <2>2. InSegment(x)'
    <3>1. unread' = 0 /\ (Size - toGo)' = o + 1
      BY <1>1, <1>7, <2>1
    <3>2. BeforeDamage(x, o + 1)' => BeforeDamage(x, Size - toGo)'
      BY <3>1 DEF BeforeDamage, PlaceOf
    <3>3. AfterDamage(x, o + 1)' => AfterDamage(x, Size - toGo)'
      BY <3>1 DEF AfterDamage, PlaceOf
    <3>4. BeforeDamage(x, o + 1)' \/ ((damage.kind # "whole")' /\ AfterDamage(x, o + 1)')
      BY <1>7 DEF StandsAt
    <3> QED  BY <3>1, <3>2, <3>3, <3>4 DEF InSegment, InStepBefore, InStepAfter
  <2>3. << x, Size - toGo >> \in Contents /\ Place(<< x, Size - toGo >>)
    <3>1. << x, Size - toGo >> = Head(stream)
      BY <1>2, <1>7
    <3> QED  BY <1>1, <1>4, <1>7, <3>1
  <2>4. PlacedWell'
    <3>1. \A w \in Contents : Place(w) /\ w = << x, Size - toGo >> => PlacedWell'
      BY <1>1, PlacedWellKeeps
    <3> QED  BY <2>3, <3>1
  <2> QED  BY <2>2, <2>4
<1>8. ASSUME IsMarker(Head(stream)) PROVE Off(x)'
  BY <1>1, <1>3, <1>8 DEF ReadRight, MarkerRead
<1>9. ASSUME ~IsMarker(Head(stream)) PROVE Off(x)' \/ (Head(stream) = << x, o >> /\ StandsAt(x, o + 1)')
  BY <1>3, <1>9 DEF ReadRight, DataRead
<1> QED  BY <1>6, <1>7, <1>8, <1>9

LEMMA DecodeEmptyInPlace ==
  ASSUME RestartAssumption, Reading, damage.kind \in Tracked, DecodeEmpty,
         NEW x \in 1..Segments, Counted(x), InSegment(x), PlacedWell
  PROVE  InSegment(x)' /\ PlacedWell'
<1>1. /\ Decoding /\ toGo > 0 /\ (insufficient \/ unread # 0)
      /\ Place(IF insufficient THEN "zero" ELSE "stuffed")
      /\ UNCHANGED << stream, unread, nextRst, damage >>
  BY DEF DecodeEmpty
<1>2. unread # 0
  <2>1. insufficient => unread # 0
    BY DEF Reading
  <2> QED  BY <1>1, <2>1
<1>3. toGo # 0
  BY <1>1
<1>4. damage.kind # "whole" /\ OutOfStep(x)
  BY <1>2, <1>3 DEF InSegment, InStepBefore, InStepAfter
<1>5. PICK q \in 1..(Segments + 1), o \in 1..Size : HoldsMarker(x, q) \/ HoldsWrong(x, q, o)
  BY <1>2, <1>3, <1>4 DEF OutOfStep, Loose, Skips
<1>6. Gone' = Gone /\ Reach' = Reach /\ damage' = damage /\ unread' = unread
  BY <1>1 DEF Gone, Reach
<1>7. HoldsMarker(x, q)' \/ HoldsWrong(x, q, o)'
  BY <1>5, <1>6 DEF HoldsMarker, HoldsWrong, AfterDamage, PlaceOf, EndCode, Code, Size
<1>8. x \in damage'.first..Reach'
  BY <1>4, <1>6 DEF OutOfStep
<1>9. Off(x)'
  BY <1>4, <1>6, <1>7, <1>8 DEF Off, OutOfStep, Size
<1>10. InSegment(x)' /\ x \in damage.first..Reach
  BY <1>6, <1>9, OffIs
<1>11. \A w \in Contents : Place(w) => PlacedWell'
  BY <1>1, <1>4, <1>10, PlacedWellKeeps
<1>12. (IF insufficient THEN "zero" ELSE "stuffed") \in Contents
  BY DEF Contents
<1> QED  BY <1>1, <1>10, <1>11, <1>12

LEMMA MarkerInPlace ==
  ASSUME RestartAssumption, Reading, damage.kind \in Tracked, PeekMarker \/ SeekMarker,
         NEW x \in 1..Segments, Counted(x), InSegment(x), PlacedWell
  PROVE  InSegment(x)' /\ PlacedWell'
<1>1. /\ Decoding /\ have > 0 /\ Consume /\ UNCHANGED << nextRst, toGo, placed, damage >>
      /\ unread' = IF IsMarker(Head(stream)) THEN Head(stream)[1] ELSE unread
      /\ (unread = 0 /\ (IsMarker(Head(stream)) \/ toGo = 0)) \/ phase = "scan"
  BY DEF PeekMarker, SeekMarker, LookingForMarker, Reading
<1>2. PlacedWell'
  <2>1. placed' = placed /\ damage' = damage /\ Reach' = Reach
    BY <1>1 DEF Reach
  <2> QED  BY <2>1 DEF PlacedWell, Right, SegmentOf, Own
<1>3. CASE phase = "scan"
  <2>1. /\ damage.kind # "whole" /\ x \in damage.first..Reach
        /\ \E q \in 1..(Segments + 1), o \in 1..Size : Skips(x, q, o)
    BY <1>3, SkipsIs
  <2>2. Off(x)'
    BY <1>1, <2>1, SkipsOne
  <2> QED  BY <1>1, <1>2, <2>2, OffIs
<1>4. CASE unread = 0 /\ (IsMarker(Head(stream)) \/ toGo = 0)
  <2>1. PICK o \in 1..Size : o = Size - toGo
    BY CountIs
  <2>2. ReadRight(x, o)
    BY <1>1, <1>4, <2>1, ReadsOne
  <2>3. Off(x)' \/ (toGo = 0 /\ unread' = EndCode(x) /\ StandsAt(x + 1, 1)')
    BY <1>4, <2>2 DEF ReadRight, MarkerRead, DataRead
  <2>4. ASSUME toGo = 0, unread' = EndCode(x), StandsAt(x + 1, 1)' PROVE InSegment(x)'
    <3>1. EndCode(x) = Code(x)
      BY <1>1, <2>4, CountIs DEF EndCode
    <3>2. (unread = Code(x))' /\ (toGo = 0)'
      BY <1>1, <2>4, <3>1 DEF Code
    <3>3. StandsAt(x + 1, 1)'
      BY <2>4
    <3> QED  BY <3>2, <3>3, StandsBehind, PTL
  <2> QED  BY <1>1, <1>2, <2>3, <2>4, OffIs
<1> QED  BY <1>1, <1>3, <1>4

\* The next segment begins out of step.
LEMMA OffNext ==
  ASSUME RestartAssumption, Reading, damage.kind # "whole", NEW x \in 1..Segments, x + 1 \in damage.first..Reach,
         NEW q \in 1..(Segments + 1), NEW o \in 1..Size, UNCHANGED << stream, damage >>,
         HoldsMarker(x + 1, q)' \/ Loose(x + 1, q, o)' \/ HoldsWrong(x + 1, q, o)'
  PROVE  InSegment(x + 1)'
<1>1. damage' = damage /\ Reach' = Reach
  BY DEF Reach
<1>2. (x + 1 \in damage.first..Reach)' /\ (damage.kind # "whole")'
  BY <1>1
<1> QED  BY <1>2 DEF InSegment, OutOfStep, Size

\* What is known of the marker, and of its number.
LEMMA RestartOf ==
  ASSUME RestartAssumption, Reading, Decoding, toGo = 0, NEW left, Restarted(left), NEW x \in 1..Segments,
         Counted(x), PlacedWell
  PROVE  /\ x \in Nat \ { 0 } /\ nextRst = (x - 1) % 8 /\ x < Segments /\ Segments \in Nat
         /\ Gone' = Gone /\ Reach' = Reach /\ damage' = damage /\ stream' = stream /\ unread' = left
         /\ (Size - toGo)' = 1 /\ PlacedWell'
         /\ \A q, o : AfterDamage(q, o)' <=> AfterDamage(q, o)
         /\ \A q, o : BeforeDamage(q, o)' <=> BeforeDamage(q, o)
         /\ damage.first \in Nat \ { 0 } /\ Reach \in Nat
<1>1. Gone' = Gone /\ Size - toGo' = 1
  BY CountedBegins
<1>2. x \in Nat \ { 0 } /\ nextRst = (x - 1) % 8 /\ x < Segments /\ Segments \in Nat
  BY CountIs, SizeIs DEF Counted
<1>3. Reach' = Reach /\ damage' = damage /\ unread' = left /\ placed' = placed /\ stream' = stream
  BY DEF Restarted, Reach
<1>4. /\ \A q, o : AfterDamage(q, o)' <=> AfterDamage(q, o)
      /\ \A q, o : BeforeDamage(q, o)' <=> BeforeDamage(q, o)
  BY <1>1, <1>3 DEF AfterDamage, BeforeDamage, PlaceOf, Size
<1>5. PlacedWell'
  BY <1>3 DEF PlacedWell, Right, SegmentOf, Own
<1>6. damage.first \in Nat \ { 0 } /\ Reach \in Nat
  <2>1. DamageIs
    BY StreamsAre DEF Reading
  <2> QED  BY <2>1 DEF DamageIs
<1>7. (Size - toGo)' = 1
  BY <1>1 DEF Size
<1> QED  BY <1>1, <1>2, <1>3, <1>4, <1>5, <1>6, <1>7

\* The marker is taken for the one that is due, or dropped.
LEMMA SwallowInPlace ==
  ASSUME RestartAssumption, Reading, damage.kind \in Tracked, Decoding, toGo = 0, Restarted(0),
         unread # 0, Expected(unread) \/ (~Expected(unread) /\ Action(unread) = 1),
         NEW x \in 1..Segments, Counted(x), InSegment(x), PlacedWell
  PROVE  InSegment(x + 1)' /\ PlacedWell'
<1>1. /\ x \in Nat \ { 0 } /\ nextRst = (x - 1) % 8 /\ x < Segments /\ Segments \in Nat
      /\ Gone' = Gone /\ Reach' = Reach /\ damage' = damage /\ stream' = stream /\ unread' = 0
      /\ (Size - toGo)' = 1 /\ PlacedWell'
      /\ \A q, o : AfterDamage(q, o)' <=> AfterDamage(q, o)
      /\ \A q, o : BeforeDamage(q, o)' <=> BeforeDamage(q, o)
      /\ damage.first \in Nat \ { 0 } /\ Reach \in Nat
  BY RestartOf
<1>2. ASSUME BeforeDamage(x + 1, 1) PROVE InSegment(x + 1)'
  <2>1. BeforeDamage(x + 1, 1)'
    BY <1>1, <1>2
  <2>2. BeforeDamage(x + 1, Size - toGo)'
    BY <1>1, <2>1 DEF BeforeDamage, PlaceOf
  <2> QED  BY <1>1, <2>2 DEF InSegment, InStepBefore
<1>3. ASSUME damage.kind # "whole", AfterDamage(x + 1, 1) PROVE InSegment(x + 1)'
  <2>1. AfterDamage(x + 1, 1)'
    BY <1>1, <1>3
  <2>2. AfterDamage(x + 1, Size - toGo)'
    BY <1>1, <2>1 DEF AfterDamage, PlaceOf
  <2> QED  BY <1>1, <1>3, <2>2 DEF InSegment, InStepAfter
<1>4. CASE InStepBefore(x)
  BY <1>1, <1>2, <1>4 DEF InStepBefore
<1>5. CASE damage.kind # "whole" /\ InStepAfter(x)
  BY <1>1, <1>3, <1>5 DEF InStepAfter
<1>6. CASE damage.kind # "whole" /\ OutOfStep(x)
  <2>1. PICK q \in 1..(Segments + 1), o \in 1..Size :
          HoldsMarker(x, q) \/ Loose(x, q, o) \/ Skips(x, q, o) \/ HoldsWrong(x, q, o)
    BY <1>6 DEF OutOfStep
  <2>2. CASE HoldsMarker(x, q)
    <3>1. unread = EndCode(q) /\ q - x \in -2..2 /\ AfterDamage(q + 1, 1) /\ q \in 1..Segments
      BY <2>2 DEF HoldsMarker
    <3>2. unread # M_EOI
      <4>1. unread \in { 0, M_EOI } \cup Codes /\ nextRst \in 0..7
        BY DEF Reading, ScanTypeOK
      <4>2. unread = M_EOI => ~Expected(unread) /\ Action(unread) = 3
        BY <4>1, ActionIs
      <4> QED  BY <4>2
    <3>3. unread = Code(q)
      BY <3>1, <3>2 DEF EndCode
    <3>4. q # x + 1 /\ q # x + 2 /\ q # x - 1 /\ q # x - 2
      BY <1>1, <3>3, GuessIs
    <3>5. q = x
      BY <1>1, <3>1, <3>4
    <3> QED  BY <1>1, <1>3, <1>6, <3>1, <3>5
  <2>3. CASE Loose(x, q, o)
    BY <2>3 DEF Loose
  <2>4. CASE Skips(x, q, o)
    BY <2>4 DEF Skips
  <2>5. CASE HoldsWrong(x, q, o)
    <3>1. /\ damage.wrong = << Marker(unread) >> /\ q - x \in -1..1 /\ q <= damage.first + 1
          /\ (q = x + 1 => o = 1) /\ AfterDamage(q, o)
      BY <2>5 DEF HoldsWrong
    <3>2. Reach = damage.first + 3
      BY <3>1, WrongIs
    <3>3. CASE q = x + 1
      BY <1>1, <1>3, <1>6, <3>1, <3>3
    <3>4. CASE q # x + 1
      <4>1. q - (x + 1) \in -2..2 /\ q <= Reach /\ x + 1 <= Reach
        BY <1>1, <3>1, <3>2, <3>4
      <4>2. x \in damage.first..Reach
        BY <1>6 DEF OutOfStep
      <4>3. x + 1 \in damage.first..Reach
        BY <1>1, <4>1, <4>2
      <4>4. AfterDamage(q, o)'
        BY <1>1, <3>1
      <4>5. Loose(x + 1, q, o)'
        BY <1>1, <4>1, <4>4 DEF Loose, AfterDamage, PlaceOf, Size
      <4> QED  BY <1>1, <1>6, <4>3, <4>5, OffNext
    <3> QED  BY <3>3, <3>4
  <2> QED  BY <2>1, <2>2, <2>3, <2>4, <2>5
<1> QED  BY <1>1, <1>4, <1>5, <1>6 DEF InSegment

\* The marker is taken for a later one.
LEMMA LeaveInPlace ==
  ASSUME RestartAssumption, Reading, damage.kind \in Tracked, Decoding, toGo = 0, Restarted(unread),
         unread # 0, ~Expected(unread), Action(unread) = 3,
         NEW x \in 1..Segments, Counted(x), InSegment(x), PlacedWell
  PROVE  InSegment(x + 1)' /\ PlacedWell'
<1>1. /\ x \in Nat \ { 0 } /\ nextRst = (x - 1) % 8 /\ x < Segments /\ Segments \in Nat
      /\ Gone' = Gone /\ Reach' = Reach /\ damage' = damage /\ stream' = stream /\ unread' = unread
      /\ (Size - toGo)' = 1 /\ PlacedWell'
      /\ \A q, o : AfterDamage(q, o)' <=> AfterDamage(q, o)
      /\ \A q, o : BeforeDamage(q, o)' <=> BeforeDamage(q, o)
      /\ damage.first \in Nat \ { 0 } /\ Reach \in Nat
  BY RestartOf
<1>2. unread # Code(x)
  BY <1>1, GuessIs
<1>3. damage.kind # "whole" /\ OutOfStep(x)
  BY <1>2 DEF InSegment, InStepBefore, InStepAfter
<1>4. PICK q \in 1..(Segments + 1), o \in 1..Size :
        HoldsMarker(x, q) \/ Loose(x, q, o) \/ Skips(x, q, o) \/ HoldsWrong(x, q, o)
  BY <1>3 DEF OutOfStep
<1>5. x \in damage.first..Reach
  BY <1>3 DEF OutOfStep
<1>6. CASE HoldsMarker(x, q)
  <2>1. unread = EndCode(q) /\ q - x \in -2..2 /\ AfterDamage(q + 1, 1) /\ q \in 1..Segments /\ q <= Reach
    BY <1>6 DEF HoldsMarker
  <2>2. q > x
    <3>1. CASE q = Segments
      BY <1>1, <3>1
    <3>2. CASE q # Segments
      <4>1. unread = Code(q)
        BY <2>1, <3>2 DEF EndCode
      <4>2. q # x /\ q # x - 1 /\ q # x - 2
        BY <1>1, <4>1, GuessIs
      <4> QED  BY <1>1, <2>1, <4>2
    <3> QED  BY <3>1, <3>2
  <2>3. q - (x + 1) \in -2..2 /\ x + 1 \in damage.first..Reach
    BY <1>1, <1>5, <2>1, <2>2
  <2>4. AfterDamage(q + 1, 1)'
    BY <1>1, <2>1
  <2>5. HoldsMarker(x + 1, q)'
    BY <1>1, <2>1, <2>3, <2>4 DEF HoldsMarker, AfterDamage, PlaceOf, EndCode, Code, Size
  <2> QED  BY <1>1, <1>3, <2>3, <2>5, OffNext
<1>7. CASE Loose(x, q, o)
  BY <1>7 DEF Loose
<1>8. CASE Skips(x, q, o)
  BY <1>8 DEF Skips
<1>9. CASE HoldsWrong(x, q, o)
  <2>1. /\ damage.wrong = << Marker(unread) >> /\ Gone = damage.kept + 1 /\ q - x \in -1..1 /\ q <= damage.first + 1
        /\ (q = x => unread # Code(x + 2)) /\ (q = x - 1 => unread = Code(x)) /\ AfterDamage(q, o)
        /\ (q = x + 1 => o = 1)
    BY <1>9 DEF HoldsWrong
  <2>2. Reach = damage.first + 3 /\ unread \in Codes
    BY <2>1, WrongIs
  <2>3. unread \in { Code(x + 1), Code(x + 2) }
    BY <1>1, <2>2, GuessIs
  <2>4. q \in { x, x + 1 } /\ q - (x + 1) \in -1..1 /\ q # x + 1 + 1
    BY <1>1, <1>2, <2>1
  <2>5. x + 1 \in damage.first..Reach
    BY <1>1, <1>5, <2>1, <2>2, <2>4
  <2>6. q = x + 1 => unread # Code(x + 1 + 2)
    <3>1. Code(x + 3) # Code(x + 1) /\ Code(x + 3) # Code(x + 2)
      BY <1>1, CodesDiffer
    <3>2. x + 1 + 2 = x + 3
      BY <1>1
    <3> QED  BY <2>3, <3>1, <3>2
  <2>7. q = x + 1 - 1 => unread = Code(x + 1)
    BY <1>1, <2>1, <2>3
  <2>8. AfterDamage(q, o)'
    BY <1>1, <2>1
  <2>9. HoldsWrong(x + 1, q, o)'
    BY <1>1, <2>1, <2>4, <2>6, <2>7, <2>8 DEF HoldsWrong, AfterDamage, PlaceOf, Code, Size
  <2> QED  BY <1>1, <1>3, <2>5, <2>9, OffNext
<1> QED  BY <1>1, <1>4, <1>6, <1>7, <1>8, <1>9

LEMMA InPlaceNext ==
  ASSUME RestartAssumption, Reading, NEW x \in 1..Segments, Kept(x), [SyncNext]_syncVars
  PROVE  \E y \in 1..Segments : Kept(y)'
<1>1. Counted(x) /\ (damage.kind \in Tracked => InSegment(x) /\ PlacedWell)
  BY DEF Kept
<1>2. ASSUME UNCHANGED << stream, unread, nextRst, toGo, placed, damage >> PROVE Kept(x)'
  BY <1>2, StaysInPlace
<1>3. CASE MoreArrives \/ BeginRestart \/ SuspendRestart \/ ScanForward \/ UNCHANGED syncVars
  BY <1>2, <1>3 DEF MoreArrives, BeginRestart, SuspendRestart, ScanForward, syncVars
<1>4. CASE DecodeData
  <2>1. /\ Decoding /\ toGo > 0 /\ have > 0 /\ nextRst' = nextRst /\ damage' = damage
        /\ Place(IF IsMarker(Head(stream)) THEN "stuffed" ELSE Head(stream))
    BY <1>4 DEF DecodeData
  <2>2. (IF IsMarker(Head(stream)) THEN "stuffed" ELSE Head(stream)) \in Contents
    BY <2>1, HeadIs, IsItemIs DEF Contents
  <2>3. Counted(x)'
    BY <1>1, <2>1, <2>2, CountedPlaces
  <2>4. damage.kind \in Tracked => InSegment(x)' /\ PlacedWell'
    BY <1>1, <1>4, DecodeDataInPlace
  <2> QED  BY <2>1, <2>3, <2>4 DEF Kept, Tracked
<1>5. CASE DecodeEmpty
  <2>1. /\ Decoding /\ toGo > 0 /\ nextRst' = nextRst /\ damage' = damage
        /\ Place(IF insufficient THEN "zero" ELSE "stuffed")
    BY <1>5 DEF DecodeEmpty
  <2>2. (IF insufficient THEN "zero" ELSE "stuffed") \in Contents
    BY DEF Contents
  <2>3. Counted(x)'
    BY <1>1, <2>1, <2>2, CountedPlaces
  <2>4. damage.kind \in Tracked => InSegment(x)' /\ PlacedWell'
    BY <1>1, <1>5, DecodeEmptyInPlace
  <2> QED  BY <2>1, <2>3, <2>4 DEF Kept, Tracked
<1>6. CASE PeekMarker \/ SeekMarker
  <2>1. UNCHANGED << nextRst, toGo, placed, damage >>
    BY <1>6 DEF PeekMarker, SeekMarker
  <2>2. Counted(x)'
    BY <1>1, <2>1 DEF Counted
  <2>3. damage.kind \in Tracked => InSegment(x)' /\ PlacedWell'
    BY <1>1, <1>6, MarkerInPlace
  <2> QED  BY <2>1, <2>2, <2>3 DEF Kept, Tracked
<1>7. ASSUME NEW left, Restarted(left), Decoding, phase = "restart", unread # 0,
             damage.kind \in Tracked => InSegment(x + 1)' /\ PlacedWell'
      PROVE  \E y \in 1..Segments : Kept(y)'
  <2>1. toGo = 0
    BY <1>7 DEF Reading
  <2>2. x + 1 \in 1..Segments /\ Counted(x + 1)'
    BY <1>1, <1>7, <2>1, CountedBegins
  <2>3. damage' = damage
    BY <1>7 DEF Restarted
  <2>4. Kept(x + 1)'
    BY <1>7, <2>2, <2>3 DEF Kept, Tracked
  <2> QED  BY <2>2, <2>4
<1>8. CASE SwallowMarker \/ Discard
  <2>1. /\ Decoding /\ phase = "restart" /\ unread # 0 /\ Restarted(0)
        /\ Expected(unread) \/ (~Expected(unread) /\ Action(unread) = 1)
    BY <1>8 DEF SwallowMarker, Discard
  <2>2. toGo = 0
    BY <2>1 DEF Reading
  <2>3. damage.kind \in Tracked => InSegment(x + 1)' /\ PlacedWell'
    BY <1>1, <2>1, <2>2, SwallowInPlace
  <2> QED  BY <1>7, <2>1, <2>3
<1>9. CASE LeaveUnread
  <2>1. /\ Decoding /\ phase = "restart" /\ unread # 0 /\ Restarted(unread)
        /\ ~Expected(unread) /\ Action(unread) = 3
    BY <1>9 DEF LeaveUnread
  <2>2. toGo = 0
    BY <2>1 DEF Reading
  <2>3. damage.kind \in Tracked => InSegment(x + 1)' /\ PlacedWell'
    BY <1>1, <2>1, <2>2, LeaveInPlace
  <2>4. x + 1 \in 1..Segments /\ Counted(x + 1)' /\ damage' = damage
    BY <1>1, <2>1, <2>2, CountedBegins DEF Restarted
  <2>5. Kept(x + 1)'
    BY <2>3, <2>4 DEF Kept, Tracked
  <2> QED  BY <2>4, <2>5
<1> QED
  BY <1>2, <1>3, <1>4, <1>5, <1>6, <1>8, <1>9 DEF SyncNext, DecodeMcu, ProcessRestart

LEMMA SyncStarts ==
  ASSUME RestartAssumption, SyncInit
  PROVE  SyncInv
<1>1. /\ damage \in Streams /\ stream = damage.items /\ have = 0 /\ unread = 0 /\ nextRst = 0 /\ toGo = Interval
      /\ insufficient = FALSE /\ phase = "mcu" /\ placed = << >>
  BY DEF SyncInit
<1>2. DamageIs
  BY <1>1, StreamsAre
<1>3. damage.items \in Seq(Item) /\ Len(damage.items) \in Nat
  BY <1>2, ItemsAre
<1>4. Gone = 0
  BY <1>1, <1>3 DEF Gone
<1>5. Interval \in Nat \ { 0 } /\ Segments \in Nat \ { 0 } /\ Size = Interval + 1 /\ Total \in Nat /\ 1 \in 1..Segments
      /\ ScanLength \in Nat
  BY SizeIs
<1>6. placed \in Seq(Item \cup { "stuffed", "zero" }) /\ Len(placed) = 0 /\ DOMAIN placed = {}
  BY <1>1
<1>7. Reading
  <2>1. \A i \in 1..Len(stream) : stream[i] = damage.items[Gone + i]
    BY <1>1, <1>3, <1>4
  <2>2. ScanTypeOK
    <3>1. insufficient \in BOOLEAN /\ phase \in { "mcu", "restart", "scan" }
      BY <1>1
    <3>2. have \in 0..Len(stream) /\ unread \in 0..254 /\ nextRst \in 0..7 /\ toGo \in 0..Interval
      BY <1>1, <1>3, <1>5
    <3>3. Len(placed) <= Total
      BY <1>5, <1>6
    <3> QED  BY <3>1, <3>2, <3>3 DEF ScanTypeOK
  <2>3. StopsAtEnd
    BY <1>4 DEF StopsAtEnd
  <2> QED  BY <1>1, <1>3, <1>4, <1>6, <2>1, <2>2, <2>3 DEF Reading
<1>8. Counted(1)
  BY <1>1, <1>5, <1>6 DEF Counted
<1>9. InSegment(1)
  <2>1. Size - toGo = 1
    <3> HIDE DEF Size
    <3> QED  BY <1>1, <1>5
  <2>2. PlaceOf(1, 1) = 1
    <3>1. (1 - 1) * Size = 0
      BY <1>5
    <3> QED  BY <3>1 DEF PlaceOf
  <2>3. damage.kept \in Nat
    <3>1. damage.kept \in 0..ScanLength
      BY <1>2 DEF DamageIs
    <3> QED  BY <1>5, <3>1
  <2>4. BeforeDamage(1, Size - toGo)
    BY <1>4, <2>1, <2>2, <2>3 DEF BeforeDamage
  <2> QED  BY <1>1, <2>4 DEF InSegment, InStepBefore
<1>10. PlacedWell
  BY <1>6 DEF PlacedWell
<1> QED  BY <1>5, <1>7, <1>8, <1>9, <1>10 DEF SyncInv, Kept

\* However a scan is damaged, what has been read is its beginning up to the
\* marker the decoder holds, the MCUs are counted from marker to marker, and
\* while the damage is of a kind the decoder can make good it is in step, or
\* within two markers of where the file is and not yet past the reach of the
\* damage (decode_mcu, read_restart_marker, jpeg_resync_to_restart).
THEOREM SyncInvHolds == ASSUME RestartAssumption PROVE SyncSpec => []SyncInv
<1>1. SyncInit => SyncInv
  BY SyncStarts
<1>2. SyncInv /\ [SyncNext]_syncVars => SyncInv'
  BY ReadingNext, InPlaceNext DEF SyncInv
<1> QED  BY <1>1, <1>2, PTL DEF SyncSpec

LEMMA SyncInvMeans ==
  ASSUME RestartAssumption, SyncInv
  PROVE  DamageContained
<1>1. Reading /\ ScanTypeOK /\ StopsAtEnd
  BY DEF SyncInv, Reading
<1>2. PICK x \in 1..Segments : Kept(x)
  BY DEF SyncInv
<1>3. damage.kind \in Tracked => PlacedWell
  BY <1>2 DEF Kept
<1>4. LossContained
  <2>1. ASSUME damage.kind \in { "whole", "lost" }, NEW p \in DOMAIN placed,
               SegmentOf(p) \notin damage.first..damage.last \/ damage.kind = "whole"
        PROVE  Right(p)
    BY <1>3, <2>1 DEF Tracked, PlacedWell, Reach
  <2> QED  BY <2>1 DEF LossContained
<1>5. BackInStep
  <2>1. ASSUME damage.kind \in { "changed", "added" }, NEW p \in DOMAIN placed,
               SegmentOf(p) < damage.first \/ SegmentOf(p) > damage.last + 3
        PROVE  Right(p)
    <3>1. SegmentOf(p) \in damage.first..Reach \/ Right(p)
      BY <1>3, <2>1 DEF Tracked, PlacedWell
    <3>2. Reach = damage.last + 3
      BY <2>1 DEF Reach
    <3>3. damage.first \in Nat \ { 0 } /\ Reach \in Nat
      <4>1. DamageIs
        BY <1>1, StreamsAre DEF Reading
      <4> QED  BY <4>1 DEF DamageIs
    <3> QED  BY <2>1, <3>1, <3>2, <3>3
  <2> QED  BY <2>1 DEF BackInStep
<1>6. NeverStuck
  <2> SUFFICES ASSUME have = Len(stream), Decoding
               PROVE  /\ LookingForMarker => have > 0
                      /\ phase = "mcu" /\ toGo > 0 => have > 0 \/ insufficient \/ unread # 0
    BY DEF NeverStuck
  <2>1. DamageIs
    BY <1>1, StreamsAre DEF Reading
  <2>2. Len(damage.items) \in Nat \ { 0 } /\ damage.items[Len(damage.items)] = Marker(M_EOI)
    BY <2>1, ItemsAre
  <2>3. have \in Nat
    BY <1>1 DEF Reading
  <2>4. ASSUME ~(have > 0) PROVE unread = M_EOI
    <3>1. Gone = Len(damage.items)
      BY <2>2, <2>3, <2>4 DEF Gone
    <3> QED  BY <1>1, <2>2, <3>1 DEF StopsAtEnd
  <2>5. unread = M_EOI => unread # 0 /\ Action(unread) = 3
    <3>1. unread \in { 0, M_EOI } \cup Codes /\ nextRst \in 0..7
      BY <1>1 DEF Reading, ScanTypeOK
    <3> QED  BY <3>1, ActionIs DEF M_EOI
  <2>6. phase = "scan" => Action(unread) = 2
    BY <1>1 DEF Reading
  <2> QED  BY <2>4, <2>5, <2>6 DEF LookingForMarker
<1> QED  BY <1>1, <1>4, <1>5, <1>6 DEF DamageContained

\* Damage to a scan stays where it is: every MCU of a segment that a loss of at
\* most two markers does not touch is in its place, after a marker too many or
\* with a wrong number the decoder is in step again by the fourth segment, it
\* never reads past EOI and never waits for what will not come
\* (jpeg_resync_to_restart under decode_mcu).
THEOREM DamageContainedHolds == ASSUME RestartAssumption PROVE SyncSpec => []DamageContained
<1>1. SyncInv => DamageContained
  BY SyncInvMeans
<1> QED  BY <1>1, SyncInvHolds, PTL
=============================================================================
