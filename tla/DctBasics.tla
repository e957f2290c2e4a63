----------------------------- MODULE DctBasics -----------------------------
(***************************************************************************)
(* What the transform modules share: the fixed-point macros of jdct.h, the *)
(* table that limits samples (jdmaster.c), and the cosines the transforms  *)
(* are measured against.                                                   *)
(***************************************************************************)
EXTENDS Integers

DCTSIZE == 8
SCALE == 8192                         \* ONE << CONST_BITS
MAXJSAMPLE == 255
CENTERJSAMPLE == 128

\* Right shift of x by n bits after half a unit was added.
Descale(x, n) == (x + 2^(n-1)) \div 2^n

\* The post-IDCT part of sample_range_limit, read at x & RANGE_MASK (10 bits).
RangeLimit(x) ==
  LET i == x % (4 * (MAXJSAMPLE + 1))
  IN  CASE i < CENTERJSAMPLE        -> i + CENTERJSAMPLE
        [] i \in CENTERJSAMPLE..511 -> MAXJSAMPLE
        [] i \in 512..895           -> 0
        [] OTHER                    -> i - 896

\* The n outputs of an inverse transform: output k is even part plus odd part,
\* its mirror image even part minus odd part.
Mirror(n, even, odd) ==
  [k \in 0..n-1 |-> CASE 2*k < n-1 -> even[k+1] + odd[k+1]
                      [] 2*k = n-1 -> even[k+1]
                      [] OTHER     -> even[n-k] - odd[n-k]]

-----------------------------------------------------------------------------
(* The reference: the cosines of the transforms, in fixed point.           *)

\* 2^14 * cos(pi * n / (2 * d)) for 0 <= n <= d, from the Taylor series;
\* 25736 is 2^14 * pi / 2.
Quarter(n, d) ==
  LET t == (25736 * n) \div d
      s == (t * t) \div 16384
      c1 == 16384 - s \div 90
      c2 == 16384 - ((s * c1) \div 16384) \div 56
      c3 == 16384 - ((s * c2) \div 16384) \div 30
      c4 == 16384 - ((s * c3) \div 16384) \div 12
  IN  16384 - ((s * c4) \div 16384) \div 2

\* 2^14 * cos(pi * n / (2 * d)) for every natural n.
Cosine(n, d) ==
  LET m == n % (4 * d)
  IN  CASE m <= d     -> Quarter(m, d)
        [] m <= 2 * d -> 0 - Quarter(2 * d - m, d)
        [] m <= 3 * d -> 0 - Quarter(m - 2 * d, d)
        [] OTHER      -> Quarter(4 * d - m, d)

\* 2^13 times the value at point x of the basis function of frequency u among
\* n points, with the factor sqrt(2) of all frequencies but 0.
Basis(u, x, n) ==
  IF u = 0 THEN 8192 ELSE Descale(Cosine((2 * x + 1) * u, n) * 11585, 14)

\* 2^12 times the value at row y, column x of the basis picture of frequency v
\* down and u across a block of w columns and h rows.
Wave(v, u, y, x, w, h) == Descale(Basis(v, y, h) * Basis(u, x, w), 14)
============================================================================
