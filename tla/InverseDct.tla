---------------------------- MODULE InverseDct ----------------------------
(***************************************************************************)
(* The scaled integer inverse DCTs of libjpeg (jidctint.c): thirty-two     *)
(* routines that turn a block of 8x8 coefficients into W columns and H     *)
(* rows of samples.  Each works in two passes over a workspace: one        *)
(* H-point transform per column of coefficients, kept with two extra bits, *)
(* then one W-point transform per row, descaled and limited to a sample.   *)
(*                                                                         *)
(* The routines share fourteen kernels; IdctN is the N-point one, a        *)
(* function of the N (at most 8) lowest frequencies.  All results carry    *)
(* the factor SCALE = 2^CONST_BITS of the constants.  The output half of   *)
(* every kernel is symmetric: sample k is even part plus odd part, sample  *)
(* N-1-k even part minus odd part (Mirror).                                *)
(***************************************************************************)
EXTENDS DctBasics, Sequences, FiniteSets, FiniteSetsExt

CONSTANTS Blocks,     \* the blocks of dequantized coefficients tried
          Routines    \* the routines tried, a subset of Inverses

-----------------------------------------------------------------------------
(* The kernels.                                                            *)

Idct1(v) == Mirror(1, << SCALE * v[0] >>, << >>)

Idct2(v) == Mirror(2, << SCALE * v[0] >>, << SCALE * v[1] >>)

Idct3(v) ==
  LET tmp0 == SCALE * v[0]  tmp12 == 5793 * v[2]
  IN  Mirror(3, << tmp0 + tmp12, tmp0 - tmp12 - tmp12 >>, << 10033 * v[1] >>)

Idct4(v) ==
  LET z1 == 4433 * (v[1] + v[3])
  IN  Mirror(4, << SCALE * (v[0] + v[2]), SCALE * (v[0] - v[2]) >>,
                << z1 + 6270 * v[1], z1 - 15137 * v[3] >>)

Idct5(v) ==
  LET tmp12 == SCALE * v[0]  z1 == 6476 * (v[2] + v[4])
      z2 == 2896 * (v[2] - v[4])  z3 == tmp12 + z2  z1b == 6810 * (v[1] + v[3])
  IN  Mirror(5, << z3 + z1, z3 - z1, tmp12 - 4 * z2 >>,
                << z1b + 4209 * v[1], z1b - 17828 * v[3] >>)

Idct6(v) ==
  LET tmp0 == SCALE * v[0]  tmp10 == 5793 * v[4]  tmp1 == tmp0 + tmp10
      tmp0b == 10033 * v[2]  tmp1b == 2998 * (v[1] + v[5])
  IN  Mirror(6, << tmp1 + tmp0b, tmp0 - tmp10 - tmp10, tmp1 - tmp0b >>,
                << tmp1b + SCALE * (v[1] + v[3]), SCALE * (v[1] - v[3] - v[5]),
                   tmp1b + SCALE * (v[5] - v[3]) >>)

Idct7(v) ==
  LET tmp13 == SCALE * v[0]  tmp10 == 7223 * (v[4] - v[6])
      tmp12 == 2578 * (v[2] - v[4])
      tmp11 == tmp10 + tmp12 + tmp13 - 15083 * v[4]  tmp0 == v[2] + v[6]
      tmp0b == 10438 * tmp0 + tmp13  tmp1 == 7663 * (v[1] + v[3])
      tmp2 == 1395 * (v[1] - v[3])  tmp2b == -11295 * (v[3] + v[5])
      z2b == 5027 * (v[1] + v[5])
  IN  Mirror(7, << tmp10 + tmp0b - 637 * v[6], tmp11,
                   tmp12 + tmp0b - 20239 * v[2], tmp13 + 11585 * (v[4] - tmp0) >>,
                << tmp1 - tmp2 + z2b, tmp1 + tmp2 + tmp2b,
                   tmp2b + z2b + 15326 * v[5] >>)

Idct8(v) ==
  LET z1 == 4433 * (v[2] + v[6])  tmp2 == z1 + 6270 * v[2]
      tmp3 == z1 - 15137 * v[6]  tmp0 == SCALE * (v[0] + v[4])
      tmp1 == SCALE * (v[0] - v[4])  z2 == v[7] + v[3]  z3 == v[5] + v[1]
      z1b == 9633 * (z2 + z3)  z2c == -16069 * z2 + z1b  z3c == -3196 * z3 + z1b
      z1c == -7373 * (v[7] + v[1])  z1d == -20995 * (v[5] + v[3])
  IN  Mirror(8, << tmp0 + tmp2, tmp1 + tmp3, tmp1 - tmp3, tmp0 - tmp2 >>,
                << 12299 * v[1] + z1c + z3c, 25172 * v[3] + z1d + z2c,
                   16819 * v[5] + z1d + z3c, 2446 * v[7] + z1c + z2c >>)

Idct9(v) ==
  LET tmp0 == SCALE * v[0]  tmp3 == 5793 * v[6]  tmp1 == tmp0 + tmp3
      tmp2 == tmp0 - tmp3 - tmp3  tmp0b == 5793 * (v[2] - v[4])
      tmp0c == 10887 * (v[2] + v[4])  tmp2b == 8875 * v[2]  tmp3b == 2012 * v[4]
      z2 == -10033 * v[3]  tmp2c == 7447 * (v[1] + v[5])
      tmp3c == 3962 * (v[1] + v[7])  tmp1b == 11409 * (v[5] - v[7])
  IN  Mirror(9, << tmp1 + tmp0c - tmp3b, tmp2 + tmp0b, tmp1 - tmp0c + tmp2b,
                   tmp1 - tmp2b + tmp3b, tmp2 - tmp0b - tmp0b >>,
                << tmp2c + tmp3c - z2, 10033 * (v[1] - v[5] - v[7]),
                   tmp2c + z2 - tmp1b, tmp3c + z2 + tmp1b >>)

Idct10(v) ==
  LET z3 == SCALE * v[0]  z1 == 9373 * v[4]  z2 == 3580 * v[4]  tmp10 == z3 + z1
      tmp11 == z3 - z2  z1b == 6810 * (v[2] + v[6])  tmp12 == z1b + 4209 * v[2]
      tmp13 == z1b - 17828 * v[6]  z3b == SCALE * v[5]  tmp11b == v[3] + v[7]
      tmp13b == v[3] - v[7]  tmp12b == 2531 * tmp13b  z2b == 7791 * tmp11b
      z4 == z3b + tmp12b  z2c == 4815 * tmp11b
      z4b == z3b - tmp12b - 4096 * tmp13b
  IN  Mirror(10, << tmp10 + tmp12, tmp11 + tmp13, z3 - 2 * (z1 - z2),
                   tmp11 - tmp13, tmp10 - tmp12 >>,
                << 11443 * v[1] + z2b + z4, 10323 * v[1] - z2c - z4b,
                   SCALE * (v[1] - tmp13b) - z3b, 5260 * v[1] - z2c + z4b,
                   1812 * v[1] - z2b + z4 >>)

Idct11(v) ==
  LET tmp10 == SCALE * v[0]  tmp20 == 20862 * (v[4] - v[6])
      tmp23 == 3529 * (v[4] - v[2])  z4 == v[2] + v[6]  z4b == z4 - v[4]
      tmp25 == tmp10 + 11116 * z4b
      tmp21 == tmp20 + tmp23 + tmp25 - 14924 * v[4]
      tmp24b == -9467 * z4 + tmp25
      tmp24c == tmp24b + 15929 * v[4] - 11395 * v[2]  tmp11 == v[1] + v[3]
      tmp14 == 3264 * (tmp11 + v[5] + v[7])  tmp11b == 7274 * tmp11
      tmp12 == 5492 * (v[1] + v[5])  tmp13 == tmp14 + 3000 * (v[1] + v[7])
      tmp10b == tmp11b + tmp12 + tmp13 - 7562 * v[1]
      z1 == tmp14 - 9527 * (v[3] + v[5])  z1b == -14731 * (v[3] + v[7])
      tmp14b == tmp14 + -12019 * v[3] + 8203 * v[5] - 13802 * v[7]
  IN  Mirror(11, << tmp20 + tmp25 + 17333 * v[6], tmp21, tmp24b - 6461 * v[6],
                   tmp23 + tmp25 - 12399 * v[2], tmp24c, tmp10 - 11585 * z4b >>,
                << tmp10b, tmp11b + z1 + 16984 * v[3] + z1b,
                   tmp12 + z1 - 9766 * v[5], tmp13 + z1b + 17223 * v[7], tmp14b >>)

Idct12(v) ==
  LET z3 == SCALE * v[0]  z4 == 10033 * v[4]  tmp10 == z3 + z4  tmp11 == z3 - z4
      z4b == 11190 * v[2]  z1 == SCALE * v[2]  z2 == SCALE * v[6]  tmp12 == z1 - z2
      tmp12b == z4b + z2  tmp12c == z4b - z1 - z2  tmp11b == 10703 * v[3]
      tmp14 == -4433 * v[3]  tmp10b == v[1] + v[5]
      tmp15 == 7053 * (tmp10b + v[7])  tmp12d == tmp15 + 2139 * tmp10b
      tmp13 == -8565 * (v[5] + v[7])
      tmp12e == tmp12d + tmp13 + tmp14 - 12112 * v[5]
      tmp13b == tmp13 + tmp15 - tmp11b + 12998 * v[7]
      tmp15b == tmp15 + tmp14 - 5540 * v[1] - 16244 * v[7]  z1b == v[1] - v[7]
      z2b == v[3] - v[5]  z3b == 4433 * (z1b + z2b)
  IN  Mirror(12, << tmp10 + tmp12b, z3 + tmp12, tmp11 + tmp12c, tmp11 - tmp12c,
                   z3 - tmp12, tmp10 - tmp12b >>,
                << tmp12d + tmp11b + 2295 * v[1], z3b + 6270 * z1b, tmp12e,
                   tmp13b, z3b - 15137 * z2b, tmp15b >>)

Idct13(v) ==
  LET z1 == SCALE * v[0]  tmp10 == v[4] + v[6]  tmp11 == v[4] - v[6]
      tmp12 == 9465 * tmp10  tmp13 == 793 * tmp11 + z1  tmp12b == 2592 * tmp10
      tmp13b == 3989 * tmp11 + z1  tmp12c == 3570 * tmp10
      tmp13c == 7678 * tmp11 - z1  tmp11b == 10832 * (v[1] + v[3])
      tmp12d == 9534 * (v[1] + v[5])  tmp15 == v[1] + v[7]
      tmp13d == 7682 * tmp15  tmp10b == tmp11b + tmp12d + tmp13d - 16549 * v[1]
      tmp14 == -2773 * (v[3] + v[5])  tmp14b == -9534 * (v[3] + v[7])
      tmp11d == tmp11b + tmp14 + 6859 * v[3] + tmp14b
      tmp14c == -5384 * (v[5] + v[7])
      tmp12f == tmp12d + tmp14 - 12879 * v[5] + tmp14c
      tmp13f == tmp13d + tmp14b + 18068 * v[7] + tmp14c  tmp15b == 2773 * tmp15
      z1b == 7682 * (v[5] - v[3])
      tmp14e == tmp15b + 2611 * v[1] - 3818 * v[3] + z1b
      tmp15c == tmp15b + z1b + 3150 * v[5] - 14273 * v[7]
  IN  Mirror(13, << 11249 * v[2] + tmp12 + tmp13, 8672 * v[2] - tmp12b + tmp13b,
                   4108 * v[2] - tmp12 + tmp13, -1396 * v[2] - tmp12c - tmp13c,
                   -6581 * v[2] + tmp12c - tmp13c,
                   -10258 * v[2] + tmp12b + tmp13b, 11585 * (tmp11 - v[2]) + z1 >>,
                << tmp10b, tmp11d, tmp12f, tmp13f, tmp14e, tmp15c >>)

Idct14(v) ==
  LET z1 == SCALE * v[0]  z2 == 10438 * v[4]  z3 == 2578 * v[4]  z4 == 7223 * v[4]
      tmp10 == z1 + z2  tmp11 == z1 + z3  tmp12 == z1 - z4
      z3b == 9058 * (v[2] + v[6])  tmp13 == z3b + 2237 * v[2]
      tmp14 == z3b - 14084 * v[6]  tmp15 == 5027 * v[2] - 11295 * v[6]
      z4b == SCALE * v[7]  tmp14b == v[1] + v[5]  tmp11b == 10935 * (v[1] + v[3])
      tmp12b == 9810 * tmp14b  tmp10b == tmp11b + tmp12b + z4b - 9232 * v[1]
      tmp14c == 6164 * tmp14b  z1b == v[1] - v[3]  tmp15b == 3826 * z1b - z4b
      tmp13b == -1297 * (v[3] + v[5]) - z4b  tmp13c == 11512 * (v[5] - v[3])
      tmp14d == tmp14c + tmp13c + z4b - 13850 * v[5]
  IN  Mirror(14, << tmp10 + tmp13, tmp11 + tmp14, tmp12 + tmp15,
                   z1 - 2 * (z2 + z3 - z4), tmp12 - tmp15, tmp11 - tmp14,
                   tmp10 - tmp13 >>,
                << tmp10b, tmp11b + tmp13b - 3474 * v[3],
                   tmp12b + tmp13b - 19447 * v[5], SCALE * (z1b - v[5]) + z4b,
                   tmp14d, tmp15b + tmp13c + 5529 * v[3],
                   tmp14c - 8693 * v[1] + tmp15b >>)

Idct15(v) ==
  LET z1 == SCALE * v[0]  tmp10 == 3580 * v[6]  tmp11 == 9373 * v[6]
      tmp12 == z1 - tmp10  tmp13 == z1 + tmp11  z1b == z1 - 2 * (tmp11 - tmp10)
      z4 == v[2] - v[4]  z3 == v[4] + v[2]  tmp10b == 10958 * z3
      tmp11b == 374 * z4  z2 == 11795 * v[2]  tmp10c == 4482 * z3
      tmp11c == 3271 * z4  tmp10d == 6476 * z3  tmp11d == 2896 * z4
      tmp11e == tmp11d + tmp11d  z3b == 10033 * v[5]  tmp13b == v[3] - v[7]
      tmp15 == 6810 * (v[1] + tmp13b)  tmp13c == -6810 * v[3]
      tmp15b == -11018 * v[3]  z2b == v[1] - v[7]  tmp12b == z3b + 11522 * z2b
      z2c == 4712 * (v[1] + v[7])
  IN  Mirror(15, << tmp13 + tmp10b + tmp11b, tmp12 + tmp10d + tmp11d,
                   z1b + tmp11e, tmp12 - tmp10b + tmp11b + z2,
                   tmp13 - tmp10d + tmp11d, tmp13 - tmp10c - tmp11c,
                   tmp12 + tmp10c - tmp11c - z2, z1b - tmp11e - tmp11e >>,
                << tmp12b + 20131 * v[7] - tmp15b, tmp15 + 4209 * v[1],
                   10033 * z2b - z3b, tmp13c + z2c + 3897 * v[1] - z3b,
                   tmp15 - 17828 * tmp13b, tmp15b + z2c - 7121 * v[7] + z3b,
                   tmp12b - 9113 * v[1] + tmp13c >>)

Idct16(v) ==
  LET tmp0 == SCALE * v[0]  tmp1 == 10703 * v[4]  tmp2 == 4433 * v[4]
      tmp10 == tmp0 + tmp1  tmp11 == tmp0 - tmp1  tmp12 == tmp0 + tmp2
      tmp13 == tmp0 - tmp2  z3 == v[2] - v[6]  z4 == 2260 * z3
      z3b == 11363 * z3  tmp0b == z3b + 20995 * v[6]  tmp1b == z4 + 7373 * v[2]
      tmp2b == z3b - 4926 * v[2]  tmp3 == z4 - 4176 * v[6]
      tmp11b == v[1] + v[5]  tmp1c == 11086 * (v[1] + v[3])
      tmp2c == 10217 * tmp11b  tmp3b == 8956 * (v[1] + v[7])
      tmp10b == 7350 * (v[1] - v[7])  tmp11c == 5461 * tmp11b
      tmp12b == 3363 * (v[1] - v[3])
      tmp0c == tmp1c + tmp2c + tmp3b - 18730 * v[1]
      tmp13b == tmp10b + tmp11c + tmp12b - 15038 * v[1]
      z1 == 1136 * (v[3] + v[5])  z1b == 11529 * (v[5] - v[3])
      z2 == v[3] + v[7]  z1c == -5461 * z2  z2b == -10217 * z2
      z2c == -11086 * (v[5] + v[7])  z2d == 3363 * (v[7] - v[5])
  IN  Mirror(16, << tmp10 + tmp0b, tmp12 + tmp1b, tmp13 + tmp2b, tmp11 + tmp3,
                   tmp11 - tmp3, tmp13 - tmp2b, tmp12 - tmp1b, tmp10 - tmp0b >>,
                << tmp0c, tmp1c + z1 + 589 * v[3] + z1c,
                   tmp2c + z1 - 9222 * v[5] + z2c,
                   tmp3b + z1c + 8728 * v[7] + z2c,
                   tmp10b + z2b + 25733 * v[7] + z2d,
                   tmp11c + z1b - 6278 * v[5] + z2d,
                   tmp12b + z1b + 16154 * v[3] + z2b, tmp13b >>)

\* A faulty form of Idct4Rows, for the checks: a sign of the odd part.
Idct4RowsSigned(v) ==
  LET z1 == 4433 * (v[1] + v[3])
  IN  Mirror(4, << 4 * (v[0] + v[2]), 4 * (v[0] - v[2]) >>,
                << Descale(z1 + 6270 * v[1], 11), Descale(z1 + 15137 * v[3], 11) >>)

\* Pass 1 of the 4-row routines shifts its odd part down before the output
\* stage, so that it is rounded once for the two samples it serves.
Idct4Rows(v) ==
  LET z1 == 4433 * (v[1] + v[3])
  IN  Mirror(4, << 4 * (v[0] + v[2]), 4 * (v[0] - v[2]) >>,
                << Descale(z1 + 6270 * v[1], 11), Descale(z1 - 15137 * v[3], 11) >>)

Idct(n, v) ==
  CASE n = 1 -> Idct1(v) [] n = 2 -> Idct2(v) [] n = 3 -> Idct3(v)
    [] n = 4 -> Idct4(v) [] n = 5 -> Idct5(v) [] n = 6 -> Idct6(v)
    [] n = 7 -> Idct7(v) [] n = 8 -> Idct8(v) [] n = 9 -> Idct9(v)
    [] n = 10 -> Idct10(v) [] n = 11 -> Idct11(v) [] n = 12 -> Idct12(v)
    [] n = 13 -> Idct13(v) [] n = 14 -> Idct14(v) [] n = 15 -> Idct15(v)
    [] n = 16 -> Idct16(v)

-----------------------------------------------------------------------------
(* The routines: width is the number of columns they produce, height the   *)
(* number of rows; shift1 and shift2 undo the scale of the two passes, all *)
(* but two bits of it in the first and the rest, with the factor of eight  *)
(* of a two-dimensional transform, in the second.                          *)

jpeg_idct_islow == [width |-> 8, height |-> 8, shift1 |-> 11, shift2 |-> 18]
jpeg_idct_7x7 == [width |-> 7, height |-> 7, shift1 |-> 11, shift2 |-> 18]
jpeg_idct_6x6 == [width |-> 6, height |-> 6, shift1 |-> 11, shift2 |-> 18]
jpeg_idct_5x5 == [width |-> 5, height |-> 5, shift1 |-> 11, shift2 |-> 18]
jpeg_idct_4x4 == [width |-> 4, height |-> 4, shift1 |-> 11, shift2 |-> 18]
jpeg_idct_3x3 == [width |-> 3, height |-> 3, shift1 |-> 11, shift2 |-> 18]
jpeg_idct_2x2 == [width |-> 2, height |-> 2, shift1 |-> 11, shift2 |-> 18]
jpeg_idct_1x1 == [width |-> 1, height |-> 1, shift1 |-> 11, shift2 |-> 18]
jpeg_idct_9x9 == [width |-> 9, height |-> 9, shift1 |-> 11, shift2 |-> 18]
jpeg_idct_10x10 == [width |-> 10, height |-> 10, shift1 |-> 11, shift2 |-> 18]
jpeg_idct_11x11 == [width |-> 11, height |-> 11, shift1 |-> 11, shift2 |-> 18]
jpeg_idct_12x12 == [width |-> 12, height |-> 12, shift1 |-> 11, shift2 |-> 18]
jpeg_idct_13x13 == [width |-> 13, height |-> 13, shift1 |-> 11, shift2 |-> 18]
jpeg_idct_14x14 == [width |-> 14, height |-> 14, shift1 |-> 11, shift2 |-> 18]
jpeg_idct_15x15 == [width |-> 15, height |-> 15, shift1 |-> 11, shift2 |-> 18]
jpeg_idct_16x16 == [width |-> 16, height |-> 16, shift1 |-> 11, shift2 |-> 18]
jpeg_idct_16x8 == [width |-> 16, height |-> 8, shift1 |-> 11, shift2 |-> 18]
jpeg_idct_14x7 == [width |-> 14, height |-> 7, shift1 |-> 11, shift2 |-> 18]
jpeg_idct_12x6 == [width |-> 12, height |-> 6, shift1 |-> 11, shift2 |-> 18]
jpeg_idct_10x5 == [width |-> 10, height |-> 5, shift1 |-> 11, shift2 |-> 18]
jpeg_idct_8x4 == [width |-> 8, height |-> 4, shift1 |-> 11, shift2 |-> 18]
jpeg_idct_6x3 == [width |-> 6, height |-> 3, shift1 |-> 11, shift2 |-> 18]
jpeg_idct_4x2 == [width |-> 4, height |-> 2, shift1 |-> 11, shift2 |-> 18]
jpeg_idct_2x1 == [width |-> 2, height |-> 1, shift1 |-> 11, shift2 |-> 18]
jpeg_idct_8x16 == [width |-> 8, height |-> 16, shift1 |-> 11, shift2 |-> 18]
jpeg_idct_7x14 == [width |-> 7, height |-> 14, shift1 |-> 11, shift2 |-> 18]
jpeg_idct_6x12 == [width |-> 6, height |-> 12, shift1 |-> 11, shift2 |-> 18]
jpeg_idct_5x10 == [width |-> 5, height |-> 10, shift1 |-> 11, shift2 |-> 18]
jpeg_idct_4x8 == [width |-> 4, height |-> 8, shift1 |-> 11, shift2 |-> 18]
jpeg_idct_3x6 == [width |-> 3, height |-> 6, shift1 |-> 11, shift2 |-> 18]
jpeg_idct_2x4 == [width |-> 2, height |-> 4, shift1 |-> 0, shift2 |-> 16]
jpeg_idct_1x2 == [width |-> 1, height |-> 2, shift1 |-> 11, shift2 |-> 18]

Inverses ==
  { jpeg_idct_islow, jpeg_idct_7x7, jpeg_idct_6x6, jpeg_idct_5x5, jpeg_idct_4x4,
    jpeg_idct_3x3, jpeg_idct_2x2, jpeg_idct_1x1, jpeg_idct_9x9, jpeg_idct_10x10,
    jpeg_idct_11x11, jpeg_idct_12x12, jpeg_idct_13x13, jpeg_idct_14x14,
    jpeg_idct_15x15, jpeg_idct_16x16, jpeg_idct_16x8, jpeg_idct_14x7,
    jpeg_idct_12x6, jpeg_idct_10x5, jpeg_idct_8x4, jpeg_idct_6x3, jpeg_idct_4x2,
    jpeg_idct_2x1, jpeg_idct_8x16, jpeg_idct_7x14, jpeg_idct_6x12,
    jpeg_idct_5x10, jpeg_idct_4x8, jpeg_idct_3x6, jpeg_idct_2x4, jpeg_idct_1x2 }

-----------------------------------------------------------------------------
VARIABLES routine,   \* the routine at work
          block,     \* its dequantized coefficients, row by row
          ws,        \* the workspace: what pass 1 made of each column
          out,       \* the sample rows written so far
          ctr        \* columns done in pass 1, plus rows done in pass 2

vars == << routine, block, ws, out, ctr >>

Columns == Min({DCTSIZE, routine.width})
Column(u) == [v \in 0..DCTSIZE-1 |-> block[DCTSIZE * v + u]]
NoAC(v) == \A k \in 1..DCTSIZE-1 : v[k] = 0
InPass1 == ctr < Columns
Finished == ctr = Columns + routine.height

Init ==
  /\ routine \in Routines
  /\ block \in Blocks
  /\ ws = << >>
  /\ out = << >>
  /\ ctr = 0

Kernel1(v) ==
  IF routine.height = 4 /\ routine.shift1 > 0 THEN Idct4Rows(v)
  ELSE LET t == Idct(routine.height, v)
       IN  IF routine.shift1 = 0 THEN t
           ELSE [k \in DOMAIN t |-> Descale(t[k], routine.shift1)]

\* The 2-point row transform of what was not shifted down needs no scaling.
Kernel2(v) ==
  IF routine.shift1 = 0 THEN Mirror(2, << v[0] >>, << v[1] >>)
  ELSE Idct(routine.width, v)

Limit(t) == [k \in DOMAIN t |-> RangeLimit(Descale(t[k], routine.shift2))]

\* Pass 1: a column of coefficients into the workspace.
ColumnStep ==
  /\ InPass1
  /\ routine = jpeg_idct_islow => ~NoAC(Column(ctr))
  /\ ws' = Append(ws, Kernel1(Column(ctr)))
  /\ ctr' = ctr + 1
  /\ UNCHANGED << routine, block, out >>

\* The 8x8 routine leaves the transform out for a column without AC terms.
ZeroColumn ==
  /\ InPass1
  /\ routine = jpeg_idct_islow /\ NoAC(Column(ctr))
  /\ ws' = Append(ws, [k \in 0..DCTSIZE-1 |-> 4 * block[ctr]])
  /\ ctr' = ctr + 1
  /\ UNCHANGED << routine, block, out >>

WsRow(y) == [u \in 0..DCTSIZE-1 |-> IF u < Columns THEN ws[u+1][y] ELSE 0]

\* Pass 2: a row of the workspace into a row of samples.
RowStep ==
  /\ ~InPass1 /\ ~Finished
  /\ LET row == WsRow(ctr - Columns) IN
       /\ routine = jpeg_idct_islow => ~NoAC(row)
       /\ out' = Append(out, Limit(Kernel2(row)))
  /\ ctr' = ctr + 1
  /\ UNCHANGED << routine, block, ws >>

ZeroRow ==
  /\ ~InPass1 /\ ~Finished
  /\ LET row == WsRow(ctr - Columns) IN
       /\ routine = jpeg_idct_islow /\ NoAC(row)
       /\ out' = Append(out, [k \in 0..DCTSIZE-1 |-> RangeLimit(Descale(row[0], 5))])
  /\ ctr' = ctr + 1
  /\ UNCHANGED << routine, block, ws >>

Next == ColumnStep \/ ZeroColumn \/ RowStep \/ ZeroRow

Spec == Init /\ [][Next]_vars

-----------------------------------------------------------------------------
(* What the routines promise: the inverse cosine transform over the W x H  *)
(* points of the block, of which the coefficients are the lowest           *)
(* frequencies.                                                            *)

Used(v, u) == v < Min({DCTSIZE, routine.height}) /\ u < Columns

\* 256 times the sample at column x of row y, before it is limited.
Exact(y, x) ==
  LET Term(k) == LET v == k \div DCTSIZE
                     u == k % DCTSIZE
                     b == Wave(v, u, y, x, routine.width, routine.height)
                 IN  IF block[k] = 0 \/ ~Used(v, u) THEN 0
                     ELSE (block[k] * b) \div 128
  IN  256 * CENTERJSAMPLE + MapThenSumSet(Term, {k \in DOMAIN block : block[k] # 0})

Limited(x) == Max({0, Min({256 * MAXJSAMPLE, x})})

-----------------------------------------------------------------------------
TypeOK ==
  /\ routine \in Inverses
  /\ ctr \in 0..Columns + routine.height
  /\ Len(ws) = Min({ctr, Columns}) /\ Len(out) = ctr - Len(ws)
  /\ out # << >> => out[Len(out)] \in [0..routine.width-1 -> 0..MAXJSAMPLE]

\* Every sample a routine stores is within four fifths of a grey level of the inverse cosine
\* transform of its block, limited to the sample range: no constant, rotation or
\* shift of the fourteen kernels is wrong, the two shortcuts of the 8x8 routine
\* give what the transform gives, and RANGE_MASK never wraps a real value.
\* Stated of the row written last, for each row in its turn.
Accurate ==
  out # << >> =>
    \A x \in 0..routine.width-1 :
      LET y == Len(out)
          d == 256 * out[y][x] - Limited(Exact(y-1, x))
      IN  d \in -200..200
=============================================================================
