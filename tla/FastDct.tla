------------------------------ MODULE FastDct ------------------------------
(***************************************************************************)
(* The fast 8x8 transforms (JDCT_IFAST), the inverse one of which          *)
(* ImageProc.c asks for: jfdctfst.c and jidctfst.c, with the quantization  *)
(* tables that jcdctmgr.c and jddctmgr.c prepare for them.  They use eight *)
(* bits of the constants and cut every product down without rounding; a    *)
(* factor per frequency (AanScale) is left out of the transforms and put   *)
(* into the divisors of the one and the multipliers of the other.          *)
(*                                                                         *)
(* A behaviour takes one block of samples through the forward transform,   *)
(* the quantization, and the inverse transform.                            *)
(***************************************************************************)
EXTENDS DctBasics, Sequences, FiniteSets, FiniteSetsExt

CONSTANTS Pictures,     \* the blocks of samples tried: functions of row, column
          QuantTables   \* the quantization tables tried: functions of 0..63

Mul(x, c) == (x * c) \div 256

-----------------------------------------------------------------------------
(* jfdctfst.c, one row or column.                                          *)

FastFdct(x) ==
  LET s == [k \in 0..3 |-> x[k] + x[7-k]]
      d == [k \in 0..3 |-> x[k] - x[7-k]]
      tmp10 == s[0] + s[3]
      tmp11 == s[1] + s[2]
      tmp13 == s[0] - s[3]
      z1 == Mul(s[1] - s[2] + tmp13, 181)
      o10 == d[3] + d[2]
      o12 == d[1] + d[0]
      z5 == Mul(o10 - o12, 98)
      z2 == Mul(o10, 139) + z5
      z4 == Mul(o12, 334) + z5
      z3 == Mul(d[2] + d[1], 181)
      z11 == d[0] + z3
      z13 == d[0] - z3
  IN  << tmp10 + tmp11, z11 + z4, tmp13 + z1, z13 - z2,
         tmp10 - tmp11, z13 + z2, tmp13 - z1, z11 - z4 >>

(* jidctfst.c, one column or row.                                          *)

FastIdct(v) ==
  LET tmp13 == v[2] + v[6]
      tmp12 == Mul(v[2] - v[6], 362) - tmp13
      z13 == v[5] + v[3]
      z10 == v[5] - v[3]
      z11 == v[1] + v[7]
      z12 == v[1] - v[7]
      z5 == Mul(z10 + z12, 473)
      tmp7 == z11 + z13
      tmp6 == Mul(z10, -669) + z5 - tmp7
      tmp5 == Mul(z11 - z13, 362) - tmp6
      tmp4 == Mul(z12, 277) - z5 + tmp5
  IN  Mirror(8, << v[0] + v[4] + tmp13, v[0] - v[4] + tmp12,
                   v[0] - v[4] - tmp12, v[0] + v[4] - tmp13 >>,
                << tmp7, tmp6, tmp5, 0 - tmp4 >>)

-----------------------------------------------------------------------------
(* The tables.                                                             *)

\* 2^14 times the product of the factors of the row and of the column.
AanScale ==
  << 16384, 22725, 21407, 19266, 16384, 12873,  8867,  4520,
     22725, 31521, 29692, 26722, 22725, 17855, 12299,  6270,
     21407, 29692, 27969, 25172, 21407, 16819, 11585,  5906,
     19266, 26722, 25172, 22654, 19266, 15137, 10426,  5315,
     16384, 22725, 21407, 19266, 16384, 12873,  8867,  4520,
     12873, 17855, 16819, 15137, 12873, 10114,  6967,  3552,
      8867, 12299, 11585, 10426,  8867,  6967,  4799,  2446,
      4520,  6270,  5906,  5315,  4520,  3552,  2446,  1247 >>

\* jcdctmgr.c, start_pass_fdctmgr: the divisors, with a factor of eight.
Divisor(quantval, k) == Descale(quantval * AanScale[k+1], 11)

\* jddctmgr.c, start_pass: the multipliers, with two more bits.
Multiplier(quantval, k) == Descale(quantval * AanScale[k+1], 12)

-----------------------------------------------------------------------------
VARIABLES sample,   \* the samples to compress, a function of row and column
          quant,    \* the quantization table
          block,    \* the block of the forward transform, row by row
          coef,     \* the quantized coefficients, once they are stored
          ws,       \* the workspace of the inverse transform, its columns
          out,      \* the sample rows of the inverse transform
          ctr       \* rows and columns done in the current pass

vars == << sample, quant, block, coef, ws, out, ctr >>

Init ==
  /\ sample \in Pictures
  /\ quant \in QuantTables
  /\ block = [y \in 0..7 |-> [u \in 0..7 |-> 0]]
  /\ coef = << >>
  /\ ws = << >>
  /\ out = << >>
  /\ ctr = 0

\* jpeg_fdct_ifast, pass 1: a row, centred in the lowest frequency.
ForwardRow ==
  /\ ctr \in 0..7
  /\ LET f == FastFdct(sample[ctr])
         row == [u \in 0..7 |-> IF u = 0 THEN f[1] - 8 * CENTERJSAMPLE ELSE f[u+1]]
     IN  block' = [block EXCEPT ![ctr] = row]
  /\ ctr' = ctr + 1
  /\ UNCHANGED << sample, quant, coef, ws, out >>

\* Pass 2: a column in place.
ForwardColumn ==
  /\ ctr \in 8..15
  /\ LET u == ctr - 8
         f == FastFdct([y \in 0..7 |-> block[y][u]])
     IN  block' = [y \in 0..7 |-> [block[y] EXCEPT ![u] = f[y+1]]]
  /\ ctr' = ctr + 1
  /\ UNCHANGED << sample, quant, coef, ws, out >>

\* forward_DCT: division rounded to the nearest, halves away from zero.
Quantized(t, q) ==
  IF t < 0 THEN 0 - ((q \div 2) - t) \div q ELSE (t + (q \div 2)) \div q

Quantize ==
  /\ ctr = 16
  /\ coef' = [k \in 0..63 |-> Quantized(block[k \div 8][k % 8], Divisor(quant[k], k))]
  /\ ctr' = 17
  /\ UNCHANGED << sample, quant, block, ws, out >>

NoAC(v) == \A k \in 1..7 : v[k] = 0
Coefs(u) == [v \in 0..7 |-> coef[8*v + u]]
Dequantized(u) == [v \in 0..7 |-> coef[8*v + u] * Multiplier(quant[8*v + u], 8*v + u)]

\* jpeg_idct_ifast, pass 1: a column of coefficients, with a shortcut for one
\* that has no AC terms.
InverseColumn ==
  /\ ctr \in 17..24
  /\ LET u == ctr - 17 IN
       ws' = Append(ws, IF NoAC(Coefs(u)) THEN [y \in 0..7 |-> Dequantized(u)[0]]
                        ELSE FastIdct(Dequantized(u)))
  /\ ctr' = ctr + 1
  /\ UNCHANGED << sample, quant, block, coef, out >>

\* Pass 2: a row of the workspace, descaled and limited, with the same shortcut.
InverseRow ==
  /\ ctr \in 25..32
  /\ LET row == [u \in 0..7 |-> ws[u+1][ctr - 25]]
         t == IF NoAC(row) THEN [x \in 0..7 |-> row[0]] ELSE FastIdct(row)
     IN  out' = Append(out, [x \in 0..7 |-> RangeLimit(t[x] \div 32)])
  /\ ctr' = ctr + 1
  /\ UNCHANGED << sample, quant, block, coef, ws >>

Next == ForwardRow \/ ForwardColumn \/ Quantize \/ InverseColumn \/ InverseRow

Spec == Init /\ [][Next]_vars

-----------------------------------------------------------------------------
(* What the transforms promise.                                            *)

\* Four times the true coefficient of frequency v down and u across.
ExactCoef(v, u) ==
  LET Term(p) == (sample[p[1]][p[2]] - CENTERJSAMPLE) * Wave(v, u, p[1], p[2], 8, 8)
  IN  MapThenSumSet(Term, {p \in (0..7) \X (0..7) : sample[p[1]][p[2]] # CENTERJSAMPLE})
        \div 8192

\* 256 times the sample that the coefficients stand for, limited.
ExactSample(y, x) ==
  LET Term(k) == (coef[k] * quant[k] * Wave(k \div 8, k % 8, y, x, 8, 8)) \div 128
      s == 256 * CENTERJSAMPLE + MapThenSumSet(Term, {k \in 0..63 : coef[k] # 0})
  IN  Max({0, Min({256 * MAXJSAMPLE, s})})

\* A stored coefficient times its quantization value is within half of that
\* value, and ForwardSlack quarters, of the cosine transform of the samples.
\* The slack is what cut products and divisors rounded to an eighth cost a block
\* of the largest contrast.
ForwardSlack == 40
ForwardNear ==
  ctr = 17 =>
    \A v, u \in 0..7 :
      LET k == 8 * v + u
          d == 4 * coef[k] * quant[k] - ExactCoef(v, u)
      IN  d \in -(2 * quant[k] + ForwardSlack)..(2 * quant[k] + ForwardSlack)

\* Every sample of the inverse transform is within InverseSlack grey levels of
\* what the coefficients stand for, limited to the sample range: shortcuts,
\* tables, constants and the mask of the table are right.
\* The slack is what multipliers rounded to a quarter cost a block of the largest
\* contrast at quantization values of ten and more; it grows as they fall, for at
\* value 1 the multiplier of the highest frequency is rounded from 0.3 to 0.
InverseSlack == 9
InverseNear ==
  out # << >> =>
    LET y == Len(out) - 1 IN
      \A x \in 0..7 :
        256 * out[y+1][x] - ExactSample(y, x) \in -256 * InverseSlack..256 * InverseSlack

TypeOK ==
  /\ ctr \in 0..33
  /\ coef # << >> => coef \in [0..63 -> -1024..1024]
  /\ Len(ws) = Max({0, Min({8, ctr - 17})}) /\ Len(out) = Max({0, ctr - 25})
  /\ out # << >> => out[Len(out)] \in [0..7 -> 0..MAXJSAMPLE]
============================================================================
