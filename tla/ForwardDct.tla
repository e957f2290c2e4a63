---------------------------- MODULE ForwardDct ----------------------------
(***************************************************************************)
(* The scaled integer forward DCTs of libjpeg (jfdctint.c) and the         *)
(* quantization that follows them (jcdctmgr.c, forward_DCT): thirty-two    *)
(* routines that turn W x H samples into a block of 8x8 coefficients, the  *)
(* lowest frequencies of the W x H transform, scaled as if the block had   *)
(* been 8x8.                                                               *)
(*                                                                         *)
(* Each works in place in two passes: a W-point transform per row, then an *)
(* H-point one per column.  The two passes use the same kernels with       *)
(* different constants: those of pass 2 contain the factor that corrects   *)
(* the size of the block.  FdctN(x, c) is the N-point kernel over the      *)
(* constants c; Plain[N] and Scaled[N] are its constants in the two passes *)
(* (every routine with that kernel uses the same two lists).               *)
(***************************************************************************)
EXTENDS DctBasics, Sequences, FiniteSets, FiniteSetsExt

CONSTANTS Pictures,   \* the blocks of samples tried: functions of row, column
          Routines,   \* the routines tried, a subset of Forwards
          QuantVals   \* the quantization values tried

-----------------------------------------------------------------------------
(* The kernels.                                                            *)

Fdct1(x, c) == << SCALE * x[0] >>

Fdct2(x, c) == << SCALE * (x[0] + x[1]), SCALE * (x[0] - x[1]) >>

Fdct3(x, c) ==
  LET tmp0 == x[0] + x[2]
  IN  << c[1] * (tmp0 + x[1]), c[3] * (x[0] - x[2]), c[2] * (tmp0 - x[1] - x[1]) >>

Fdct4(x, c) ==
  LET tmp0 == x[0] + x[3]  tmp1 == x[1] + x[2]  tmp10 == x[0] - x[3]
      tmp11 == x[1] - x[2]  tmp0b == c[1] * (tmp10 + tmp11)
  IN  << SCALE * (tmp0 + tmp1), tmp0b + c[2] * tmp10, SCALE * (tmp0 - tmp1),
         tmp0b - c[3] * tmp11 >>

Fdct5(x, c) ==
  LET tmp0 == x[0] + x[4]  tmp1 == x[1] + x[3]  tmp10 == tmp0 + tmp1
      tmp0b == x[0] - x[4]  tmp1b == x[1] - x[3]  tmp11b == c[1] * (tmp0 - tmp1)
      tmp10c == c[2] * (tmp10 - 4 * x[2])  tmp10d == c[3] * (tmp0b + tmp1b)
  IN  << c[4] * (tmp10 + x[2]), tmp10d + c[5] * tmp0b, tmp11b + tmp10c,
         tmp10d - c[6] * tmp1b, tmp11b - tmp10c >>

Fdct6(x, c) ==
  LET tmp0 == x[0] + x[5]  tmp11 == x[1] + x[4]  tmp2 == x[2] + x[3]
      tmp10 == tmp0 + tmp2  tmp0b == x[0] - x[5]  tmp1 == x[1] - x[4]
      tmp2b == x[2] - x[3]  tmp10b == c[1] * (tmp0b + tmp2b)
  IN  << c[2] * (tmp10 + tmp11), tmp10b + c[2] * (tmp0b + tmp1),
         c[3] * (tmp0 - tmp2), c[2] * (tmp0b - tmp1 - tmp2b),
         c[4] * (tmp10 - tmp11 - tmp11), tmp10b + c[2] * (tmp2b - tmp1) >>

Fdct7(x, c) ==
  LET tmp0 == x[0] + x[6]  tmp1 == x[1] + x[5]  tmp2 == x[2] + x[4]
      tmp10 == x[0] - x[6]  tmp11 == x[1] - x[5]  tmp12 == x[2] - x[4]
      z1 == tmp0 + tmp2  tmp3 == x[3] + x[3]  z1d == c[1] * (z1 - tmp3 - tmp3)
      z2 == c[2] * (tmp0 - tmp2)  z3 == c[3] * (tmp1 - tmp2)
      z2b == c[4] * (tmp0 - tmp1)  tmp1b == c[5] * (tmp10 + tmp11)
      tmp2b == c[6] * (tmp10 - tmp11)  tmp2c == -c[7] * (tmp11 + tmp12)
      tmp3b == c[8] * (tmp10 + tmp12)
  IN  << c[10] * (z1 + tmp1 + x[3]), tmp1b - tmp2b + tmp3b, z1d + z2 + z3,
         tmp1b + tmp2b + tmp2c, z2b + z3 - c[11] * (tmp1 - tmp3),
         tmp2c + tmp3b + c[9] * tmp12, z1d - z2 + z2b >>

Fdct8(x, c) ==
  LET tmp0 == x[0] + x[7]  tmp1 == x[1] + x[6]  tmp2 == x[2] + x[5]
      tmp3 == x[3] + x[4]  tmp10 == tmp0 + tmp3  tmp12 == tmp0 - tmp3
      tmp11 == tmp1 + tmp2  tmp13 == tmp1 - tmp2  tmp0b == x[0] - x[7]
      tmp1b == x[1] - x[6]  tmp2b == x[2] - x[5]  tmp3b == x[3] - x[4]
      z1 == c[1] * (tmp12 + tmp13)  tmp12b == tmp0b + tmp2b
      tmp13b == tmp1b + tmp3b  z1b == c[2] * (tmp12b + tmp13b)
      tmp10c == -c[7] * (tmp0b + tmp3b)  tmp11c == -c[8] * (tmp1b + tmp2b)
      tmp12d == -c[9] * tmp12b + z1b  tmp13d == -c[10] * tmp13b + z1b
  IN  << SCALE * (tmp10 + tmp11), c[3] * tmp0b + tmp10c + tmp12d,
         z1 + c[11] * tmp12, c[4] * tmp1b + tmp11c + tmp13d,
         SCALE * (tmp10 - tmp11), c[5] * tmp2b + tmp11c + tmp12d,
         z1 - c[12] * tmp13, c[6] * tmp3b + tmp10c + tmp13d >>

Fdct9(x, c) ==
  LET tmp0 == x[0] + x[8]  tmp1 == x[1] + x[7]  tmp2 == x[2] + x[6]
      tmp3 == x[3] + x[5]  tmp10 == x[0] - x[8]  tmp12 == x[2] - x[6]
      tmp13 == x[3] - x[5]  z1 == tmp0 + tmp2 + tmp3  z2 == tmp1 + x[4]
      z1b == c[1] * (tmp0 - tmp2)  z2b == c[2] * (tmp1 - x[4] - x[4])
      tmp11b == c[3] * (x[1] - x[7])  tmp0b == c[4] * (tmp10 + tmp12)
      tmp1b == c[5] * (tmp10 + tmp13)  tmp2b == c[6] * (tmp12 - tmp13)
  IN  << c[7] * (z1 + z2), tmp11b + tmp0b + tmp1b,
         c[8] * (tmp2 - tmp3) + z1b + z2b, c[3] * (tmp10 - tmp12 - tmp13),
         c[9] * (tmp3 - tmp0) + z1b - z2b, tmp0b - tmp11b - tmp2b,
         c[2] * (z1 - z2 - z2), tmp1b - tmp11b + tmp2b >>

Fdct10(x, c) ==
  LET tmp0 == x[0] + x[9]  tmp1 == x[1] + x[8]  tmp12 == x[2] + x[7]
      tmp3 == x[3] + x[6]  tmp4 == x[4] + x[5]  tmp10 == tmp0 + tmp4
      tmp13 == tmp0 - tmp4  tmp11 == tmp1 + tmp3  tmp14 == tmp1 - tmp3
      tmp0b == x[0] - x[9]  tmp1b == x[1] - x[8]  tmp2 == x[2] - x[7]
      tmp3b == x[3] - x[6]  tmp4b == x[4] - x[5]  tmp12b == tmp12 + tmp12
      tmp10b == c[1] * (tmp13 + tmp14)  tmp10c == tmp0b + tmp4b
      tmp11b == tmp1b - tmp3b  tmp2b == c[2] * tmp2
      tmp12c == c[3] * (tmp0b - tmp4b) - c[4] * (tmp1b + tmp3b)
      tmp13b == c[5] * (tmp10c + tmp11b) + c[6] * tmp11b - tmp2b
  IN  << c[2] * (tmp10 + tmp11 + tmp12),
         c[11] * tmp0b + c[12] * tmp1b + tmp2b + c[13] * tmp3b + c[14] * tmp4b,
         tmp10b + c[9] * tmp13, tmp12c + tmp13b,
         c[7] * (tmp10 - tmp12b) - c[8] * (tmp11 - tmp12b),
         c[2] * (tmp10c - tmp11b - tmp2), tmp10b - c[10] * tmp14,
         tmp12c - tmp13b >>

Fdct11(x, c) ==
  LET tmp0 == x[0] + x[10]  tmp1 == x[1] + x[9]  tmp2 == x[2] + x[8]
      tmp3 == x[3] + x[7]  tmp4 == x[4] + x[6]  tmp10 == x[0] - x[10]
      tmp11 == x[1] - x[9]  tmp12 == x[2] - x[8]  tmp13 == x[3] - x[7]
      tmp14 == x[4] - x[6]  tmp5 == x[5] + x[5]  tmp0b == tmp0 - tmp5
      tmp1b == tmp1 - tmp5  tmp2b == tmp2 - tmp5  tmp3b == tmp3 - tmp5
      tmp4b == tmp4 - tmp5
      z1 == c[1] * (tmp0b + tmp3b) + c[2] * (tmp2b + tmp4b)
      z2 == c[3] * (tmp1b - tmp3b)  z3 == c[4] * (tmp0b - tmp1b)
      tmp1c == c[5] * (tmp10 + tmp11)  tmp2c == c[6] * (tmp10 + tmp12)
      tmp3c == c[7] * (tmp10 + tmp13)
      tmp0c == tmp1c + tmp2c + tmp3c - c[8] * tmp10 + c[9] * tmp14
      tmp4c == -c[7] * (tmp11 + tmp12)  tmp5b == -c[10] * (tmp11 + tmp13)
      tmp1d == tmp1c + tmp4c + tmp5b + c[11] * tmp11 - c[6] * tmp14
      tmp10b == c[9] * (tmp12 + tmp13)
      tmp2d == tmp2c + tmp4c + tmp10b - c[12] * tmp12 + c[10] * tmp14
      tmp3d == tmp3c + tmp5b + tmp10b + c[13] * tmp13 - c[5] * tmp14
  IN  << c[14] * (tmp0 + tmp1 + tmp2 + tmp3 + tmp4 + x[5]), tmp0c,
         z1 + z2 - c[15] * tmp3b - c[16] * tmp4b, tmp1d,
         z2 + z3 + c[17] * tmp1b - c[1] * tmp2b + c[18] * tmp4b, tmp2d,
         z1 + z3 - c[19] * tmp0b - c[20] * tmp2b, tmp3d >>

Fdct12(x, c) ==
  LET tmp0 == x[0] + x[11]  tmp1 == x[1] + x[10]  tmp2 == x[2] + x[9]
      tmp3 == x[3] + x[8]  tmp4 == x[4] + x[7]  tmp5 == x[5] + x[6]
      tmp10 == tmp0 + tmp5  tmp13 == tmp0 - tmp5  tmp14 == tmp1 - tmp4
      tmp12 == tmp2 + tmp3  tmp15 == tmp2 - tmp3  tmp0b == x[0] - x[11]
      tmp1b == x[1] - x[10]  tmp2b == x[2] - x[9]  tmp3b == x[3] - x[8]
      tmp4b == x[4] - x[7]  tmp5b == x[5] - x[6]
      tmp10b == c[1] * (tmp1b + tmp4b)  tmp14b == tmp10b + c[2] * tmp1b
      tmp15b == tmp10b - c[3] * tmp4b  tmp12b == c[4] * (tmp0b + tmp2b)
      tmp13b == c[5] * (tmp0b + tmp3b)
      tmp10c == tmp12b + tmp13b + tmp14b - c[6] * tmp0b + c[7] * tmp5b
      tmp11b == -c[7] * (tmp2b + tmp3b)
      tmp12c == tmp12b + tmp11b - tmp15b - c[8] * tmp2b + c[5] * tmp5b
      tmp13c == tmp13b + tmp11b - tmp14b + c[9] * tmp3b - c[4] * tmp5b
      tmp11c == tmp15b + c[10] * (tmp0b - tmp3b) - c[1] * (tmp2b + tmp5b)
  IN  << c[11] * (tmp10 + tmp1 + tmp4 + tmp12), tmp10c,
         c[14] * (tmp14 - tmp15) + c[13] * (tmp13 + tmp15), tmp11c,
         c[12] * (tmp10 - tmp12), tmp12c, c[11] * (tmp13 - tmp14 - tmp15),
         tmp13c >>

Fdct13(x, c) ==
  LET tmp0 == x[0] + x[12]  tmp1 == x[1] + x[11]  tmp2 == x[2] + x[10]
      tmp3 == x[3] + x[9]  tmp4 == x[4] + x[8]  tmp5 == x[5] + x[7]
      tmp10 == x[0] - x[12]  tmp11 == x[1] - x[11]  tmp12 == x[2] - x[10]
      tmp13 == x[3] - x[9]  tmp14 == x[4] - x[8]  tmp15 == x[5] - x[7]
      tmp6 == x[6] + x[6]  tmp0b == tmp0 - tmp6  tmp1b == tmp1 - tmp6
      tmp2b == tmp2 - tmp6  tmp3b == tmp3 - tmp6  tmp4b == tmp4 - tmp6
      tmp5b == tmp5 - tmp6
      z1 == c[1] * (tmp0b - tmp2b) - c[2] * (tmp3b - tmp4b) - c[3] * (tmp1b - tmp5b)
      z2 == c[4] * (tmp0b + tmp2b) - c[5] * (tmp3b + tmp4b) + c[6] * (tmp1b + tmp5b)
      tmp1c == c[7] * (tmp10 + tmp11)  tmp2c == c[8] * (tmp10 + tmp12)
      tmp3c == c[9] * (tmp10 + tmp13) + c[10] * (tmp14 + tmp15)
      tmp0c == tmp1c + tmp2c + tmp3c - c[11] * tmp10 + c[12] * tmp14
      tmp4c == c[9] * (tmp14 - tmp15) - c[10] * (tmp11 + tmp12)
      tmp5c == -c[8] * (tmp11 + tmp13)
      tmp1d == tmp1c + tmp4c + tmp5c + c[13] * tmp11 - c[14] * tmp14
      tmp6b == -c[15] * (tmp12 + tmp13)
      tmp2d == tmp2c + tmp4c + tmp6b - c[16] * tmp12 + c[17] * tmp15
      tmp3d == tmp3c + tmp5c + tmp6b + c[18] * tmp13 - c[19] * tmp15
  IN  << c[20] * (tmp0 + tmp1 + tmp2 + tmp3 + tmp4 + tmp5 + x[6]), tmp0c,
         c[21] * tmp0b + c[22] * tmp1b + c[23] * tmp2b - c[24] * tmp3b - c[25] * tmp4b - c[26] * tmp5b,
         tmp1d, z1 + z2, tmp2d, z1 - z2, tmp3d >>

Fdct14(x, c) ==
  LET tmp0 == x[0] + x[13]  tmp1 == x[1] + x[12]  tmp2 == x[2] + x[11]
      tmp13 == x[3] + x[10]  tmp4 == x[4] + x[9]  tmp5 == x[5] + x[8]
      tmp6 == x[6] + x[7]  tmp10 == tmp0 + tmp6  tmp14 == tmp0 - tmp6
      tmp11 == tmp1 + tmp5  tmp15 == tmp1 - tmp5  tmp12 == tmp2 + tmp4
      tmp16 == tmp2 - tmp4  tmp0b == x[0] - x[13]  tmp1b == x[1] - x[12]
      tmp2b == x[2] - x[11]  tmp3 == x[3] - x[10]  tmp4b == x[4] - x[9]
      tmp5b == x[5] - x[8]  tmp6b == x[6] - x[7]  tmp13b == tmp13 + tmp13
      tmp10b == c[1] * (tmp14 + tmp15)  tmp10c == tmp1b + tmp2b
      tmp11b == tmp5b - tmp4b  tmp3b == c[2] * tmp3
      tmp10e == -c[3] * tmp10c + c[4] * tmp11b - tmp3b
      tmp11d == c[5] * (tmp0b + tmp2b) + c[6] * (tmp4b + tmp6b)
      tmp12b == c[7] * (tmp0b + tmp1b) + c[8] * (tmp5b - tmp6b)
  IN  << c[2] * (tmp10 + tmp11 + tmp12 + tmp13),
         tmp11d + tmp12b + tmp3b - c[20] * tmp0b - c[21] * tmp6b,
         tmp10b + c[12] * tmp14 + c[13] * tmp16,
         tmp10e + tmp12b - c[18] * tmp1b - c[19] * tmp5b,
         c[9] * (tmp10 - tmp13b) + c[10] * (tmp11 - tmp13b) - c[11] * (tmp12 - tmp13b),
         tmp10e + tmp11d - c[16] * tmp2b + c[17] * tmp4b,
         tmp10b - c[14] * tmp15 - c[15] * tmp16,
         c[2] * (tmp0b - tmp10c + tmp3 - tmp11b - tmp6b) >>

Fdct15(x, c) ==
  LET tmp0 == x[0] + x[14]  tmp1 == x[1] + x[13]  tmp2 == x[2] + x[12]
      tmp3 == x[3] + x[11]  tmp4 == x[4] + x[10]  tmp5 == x[5] + x[9]
      tmp6 == x[6] + x[8]  tmp10 == x[0] - x[14]  tmp11 == x[1] - x[13]
      tmp12 == x[2] - x[12]  tmp13 == x[3] - x[11]  tmp14 == x[4] - x[10]
      tmp15 == x[5] - x[9]  tmp16 == x[6] - x[8]  z1 == tmp0 + tmp4 + tmp5
      z2 == tmp1 + tmp3 + tmp6  z3 == tmp2 + x[7]  z3b == z3 + z3
      tmp2b == tmp2 + ((tmp1 + tmp4) \div 2) - x[7] - x[7]
      z1b == c[1] * (tmp3 - tmp2b) - c[2] * (tmp6 - tmp2b)
      z2b == c[3] * (tmp5 - tmp2b) - c[4] * (tmp0 - tmp2b)
      z3c == c[5] * (tmp0 - tmp3) + c[6] * (tmp6 - tmp5) + c[7] * (tmp1 - tmp4)
      tmp2c == c[8] * (tmp10 - tmp12 - tmp13 + tmp15 + tmp16)
      tmp1b == c[9] * (tmp10 - tmp14 - tmp15) + c[10] * (tmp11 - tmp13 - tmp16)
      tmp12b == c[8] * tmp12
      tmp4b == c[11] * (tmp10 - tmp16) + c[9] * (tmp11 + tmp14) + c[12] * (tmp13 + tmp15)
      tmp0b == c[13] * tmp13 - c[14] * tmp14 + c[15] * tmp16 + tmp4b + tmp12b
      tmp3b == -c[16] * tmp10 - c[17] * tmp11 - c[18] * tmp15 + tmp4b - tmp12b
  IN  << c[19] * (z1 + z2 + z3), tmp0b, z1b + z3c, tmp1b, z2b + z3c, tmp2c,
         c[20] * (z1 - z3b) - c[21] * (z2 - z3b), tmp3b >>

Fdct16(x, c) ==
  LET tmp0 == x[0] + x[15]  tmp1 == x[1] + x[14]  tmp2 == x[2] + x[13]
      tmp3 == x[3] + x[12]  tmp4 == x[4] + x[11]  tmp5 == x[5] + x[10]
      tmp6 == x[6] + x[9]  tmp7 == x[7] + x[8]  tmp10 == tmp0 + tmp7
      tmp14 == tmp0 - tmp7  tmp11 == tmp1 + tmp6  tmp15 == tmp1 - tmp6
      tmp12 == tmp2 + tmp5  tmp16 == tmp2 - tmp5  tmp13 == tmp3 + tmp4
      tmp17 == tmp3 - tmp4  tmp0b == x[0] - x[15]  tmp1b == x[1] - x[14]
      tmp2b == x[2] - x[13]  tmp3b == x[3] - x[12]  tmp4b == x[4] - x[11]
      tmp5b == x[5] - x[10]  tmp6b == x[6] - x[9]  tmp7b == x[7] - x[8]
      tmp10b == c[1] * (tmp17 - tmp15) + c[2] * (tmp14 - tmp16)
      tmp11b == c[3] * (tmp0b + tmp1b) + c[4] * (tmp6b - tmp7b)
      tmp12b == c[5] * (tmp0b + tmp2b) + c[6] * (tmp5b + tmp7b)
      tmp13b == c[7] * (tmp0b + tmp3b) + c[8] * (tmp4b - tmp7b)
      tmp14b == c[9] * (tmp1b + tmp2b) + c[10] * (tmp6b - tmp5b)
      tmp15b == -c[6] * (tmp1b + tmp3b) - c[5] * (tmp4b + tmp6b)
      tmp16b == -c[3] * (tmp2b + tmp3b) + c[4] * (tmp5b - tmp4b)
      tmp10c == tmp11b + tmp12b + tmp13b - c[11] * tmp0b + c[12] * tmp7b
      tmp11c == tmp11b + tmp14b + tmp15b + c[13] * tmp1b - c[14] * tmp6b
      tmp12c == tmp12b + tmp14b + tmp16b - c[15] * tmp2b + c[16] * tmp5b
      tmp13c == tmp13b + tmp15b + tmp16b + c[17] * tmp3b + c[18] * tmp4b
  IN  << SCALE * (tmp10 + tmp11 + tmp12 + tmp13), tmp10c,
         tmp10b + c[21] * tmp15 + c[22] * tmp16, tmp11c,
         c[19] * (tmp10 - tmp13) + c[20] * (tmp11 - tmp12), tmp12c,
         tmp10b - c[23] * tmp14 - c[24] * tmp17, tmp13c >>

Fdct(n, x, c) ==
  CASE n = 1 -> Fdct1(x, c) [] n = 2 -> Fdct2(x, c) [] n = 3 -> Fdct3(x, c)
    [] n = 4 -> Fdct4(x, c) [] n = 5 -> Fdct5(x, c) [] n = 6 -> Fdct6(x, c)
    [] n = 7 -> Fdct7(x, c) [] n = 8 -> Fdct8(x, c) [] n = 9 -> Fdct9(x, c)
    [] n = 10 -> Fdct10(x, c) [] n = 11 -> Fdct11(x, c) [] n = 12 -> Fdct12(x, c)
    [] n = 13 -> Fdct13(x, c) [] n = 14 -> Fdct14(x, c) [] n = 15 -> Fdct15(x, c)
    [] n = 16 -> Fdct16(x, c)

-----------------------------------------------------------------------------
(* The constants of the kernels, N = 1..16, in pass 1 and in pass 2.       *)

Plain ==
  << << >>,
     << >>,
     << 8192, 5793, 10033 >>,
     << 4433, 6270, 15137 >>,
     << 6476, 2896, 6810, 8192, 4209, 17828 >>,
     << 2998, 8192, 10033, 5793 >>,
     << 2896, 7542, 2578, 7223, 7663, 1395, 11295, 5027, 15326, 8192, 5793 >>,
     << 4433, 9633, 12299, 25172, 16819, 2446, 7373, 20995, 3196, 16069, 6270,
        15137 >>,
     << 10887, 5793, 10033, 7447, 3962, 11409, 8192, 8875, 2012 >>,
     << 6810, 8192, 7791, 4815, 2531, 4096, 9373, 3580, 4209, 17828, 11443,
        10323, 5260, 1812 >>,
     << 11116, 1649, 7587, 9746, 10538, 8756, 6263, 14090, 3264, 11467, 10456,
        16294, 10695, 8192, 8342, 11395, 511, 4813, 13275, 6461 >>,
     << 4433, 6270, 15137, 9191, 7053, 4758, 1512, 19165, 5946, 10703, 8192,
        10033, 11190, 1 >>,
     << 9465, 3570, 2592, 793, 7678, 3989, 10832, 9534, 7682, 2773, 16549, 2611,
        6859, 19183, 5384, 12879, 18515, 18068, 14273, 8192, 11249, 8672, 4108,
        1396, 6581, 10258 >>,
     << 9058, 8192, 1297, 11512, 9810, 6164, 10935, 3826, 10438, 2578, 7223,
        2237, 5027, 14084, 11295, 19447, 9175, 3474, 25148, 9232, 9231 >>,
     << 12543, 18336, 6541, 748, 11332, 7752, 6476, 10033, 11018, 6810, 11522,
        4712, 3897, 4209, 13930, 2912, 17828, 7121, 8192, 9373, 3580 >>,
     << 2260, 11363, 11086, 3363, 10217, 5461, 8956, 7350, 1136, 11529, 18730,
        6387, 589, 13631, 9222, 10055, 8728, 17760, 10703, 4433, 11893, 17799,
        1730, 8697 >> >>

Scaled ==
  << << >>,
     << >>,
     << 14564, 10298, 17837 >>,
     << 4433, 6270, 15137 >>,
     << 8290, 3707, 8716, 10486, 5387, 22820 >>,
     << 5331, 14564, 17837, 10298 >>,
     << 3783, 9850, 3367, 9434, 10009, 1822, 14752, 6565, 20017, 10700, 7566 >>,
     << 4433, 9633, 12299, 25172, 16819, 2446, 7373, 20995, 3196, 16069, 6270,
        15137 >>,
     << 17203, 9154, 15855, 11768, 6262, 18029, 12945, 14024, 3179 >>,
     << 8716, 10486, 9973, 6163, 3240, 5243, 11997, 4582, 5387, 22820, 14647,
        13213, 6732, 2320 >>,
     << 11759, 1744, 8026, 10310, 11148, 9262, 6626, 14905, 3453, 12131, 11061,
        17237, 11314, 8666, 8825, 12054, 540, 5091, 14043, 6835 >>,
     << 3941, 5573, 13455, 8170, 6269, 4229, 1344, 17036, 5285, 9514, 7282,
        8918, 9947, 7282 >>,
     << 7169, 2704, 1963, 601, 5816, 3021, 8204, 7221, 5819, 2100, 12534, 1978,
        5195, 14529, 4078, 9754, 14023, 13685, 10811, 6205, 8520, 6568, 3112,
        1058, 4985, 7770 >>,
     << 5915, 5350, 847, 7518, 6406, 4025, 7141, 2499, 6817, 1684, 4717, 1461,
        3283, 9198, 7376, 12700, 5992, 2269, 16423, 6029, 679 >>,
     << 14271, 20862, 7442, 852, 12893, 8820, 7369, 11415, 12536, 7748, 13109,
        5361, 4434, 4788, 15850, 3314, 20284, 8102, 9321, 10664, 4073 >>,
     << 2260, 11363, 11086, 3363, 10217, 5461, 8956, 7350, 1136, 11529, 18730,
        6387, 589, 13631, 9222, 10055, 8728, 17760, 10703, 4433, 11893, 17799,
        1730, 8697 >> >>

-----------------------------------------------------------------------------
(* The routines: the samples they take, width x height, and the shifts     *)
(* that undo the scale of the constants after each pass.                   *)

jpeg_fdct_islow ==
  [width |-> 8, height |-> 8, shift1 |-> 11, shift2 |-> 15]
jpeg_fdct_7x7 ==
  [width |-> 7, height |-> 7, shift1 |-> 11, shift2 |-> 15]
jpeg_fdct_6x6 ==
  [width |-> 6, height |-> 6, shift1 |-> 11, shift2 |-> 15]
jpeg_fdct_5x5 ==
  [width |-> 5, height |-> 5, shift1 |-> 10, shift2 |-> 15]
jpeg_fdct_4x4 ==
  [width |-> 4, height |-> 4, shift1 |-> 9, shift2 |-> 15]
jpeg_fdct_3x3 ==
  [width |-> 3, height |-> 3, shift1 |-> 9, shift2 |-> 15]
jpeg_fdct_2x2 ==
  [width |-> 2, height |-> 2, shift1 |-> 13, shift2 |-> 9]
jpeg_fdct_1x1 ==
  [width |-> 1, height |-> 1, shift1 |-> 13, shift2 |-> 7]
jpeg_fdct_9x9 ==
  [width |-> 9, height |-> 9, shift1 |-> 12, shift2 |-> 15]
jpeg_fdct_10x10 ==
  [width |-> 10, height |-> 10, shift1 |-> 12, shift2 |-> 15]
jpeg_fdct_11x11 ==
  [width |-> 11, height |-> 11, shift1 |-> 12, shift2 |-> 15]
jpeg_fdct_12x12 ==
  [width |-> 12, height |-> 12, shift1 |-> 13, shift2 |-> 14]
jpeg_fdct_13x13 ==
  [width |-> 13, height |-> 13, shift1 |-> 13, shift2 |-> 14]
jpeg_fdct_14x14 ==
  [width |-> 14, height |-> 14, shift1 |-> 13, shift2 |-> 14]
jpeg_fdct_15x15 ==
  [width |-> 15, height |-> 15, shift1 |-> 13, shift2 |-> 15]
jpeg_fdct_16x16 ==
  [width |-> 16, height |-> 16, shift1 |-> 11, shift2 |-> 17]
jpeg_fdct_16x8 ==
  [width |-> 16, height |-> 8, shift1 |-> 11, shift2 |-> 16]
jpeg_fdct_14x7 ==
  [width |-> 14, height |-> 7, shift1 |-> 11, shift2 |-> 16]
jpeg_fdct_12x6 ==
  [width |-> 12, height |-> 6, shift1 |-> 11, shift2 |-> 16]
jpeg_fdct_10x5 ==
  [width |-> 10, height |-> 5, shift1 |-> 11, shift2 |-> 15]
jpeg_fdct_8x4 ==
  [width |-> 8, height |-> 4, shift1 |-> 10, shift2 |-> 15]
jpeg_fdct_6x3 ==
  [width |-> 6, height |-> 3, shift1 |-> 10, shift2 |-> 15]
jpeg_fdct_4x2 ==
  [width |-> 4, height |-> 2, shift1 |-> 8, shift2 |-> 15]
jpeg_fdct_2x1 ==
  [width |-> 2, height |-> 1, shift1 |-> 8, shift2 |-> 13]
jpeg_fdct_8x16 ==
  [width |-> 8, height |-> 16, shift1 |-> 11, shift2 |-> 16]
jpeg_fdct_7x14 ==
  [width |-> 7, height |-> 14, shift1 |-> 11, shift2 |-> 15]
jpeg_fdct_6x12 ==
  [width |-> 6, height |-> 12, shift1 |-> 11, shift2 |-> 15]
jpeg_fdct_5x10 ==
  [width |-> 5, height |-> 10, shift1 |-> 11, shift2 |-> 15]
jpeg_fdct_4x8 ==
  [width |-> 4, height |-> 8, shift1 |-> 10, shift2 |-> 15]
jpeg_fdct_3x6 ==
  [width |-> 3, height |-> 6, shift1 |-> 10, shift2 |-> 15]
jpeg_fdct_2x4 ==
  [width |-> 2, height |-> 4, shift1 |-> 10, shift2 |-> 13]
jpeg_fdct_1x2 ==
  [width |-> 1, height |-> 2, shift1 |-> 13, shift2 |-> 8]

Forwards ==
  { jpeg_fdct_islow, jpeg_fdct_7x7, jpeg_fdct_6x6, jpeg_fdct_5x5, jpeg_fdct_4x4,
    jpeg_fdct_3x3, jpeg_fdct_2x2, jpeg_fdct_1x1, jpeg_fdct_9x9, jpeg_fdct_10x10,
    jpeg_fdct_11x11, jpeg_fdct_12x12, jpeg_fdct_13x13, jpeg_fdct_14x14,
    jpeg_fdct_15x15, jpeg_fdct_16x16, jpeg_fdct_16x8, jpeg_fdct_14x7,
    jpeg_fdct_12x6, jpeg_fdct_10x5, jpeg_fdct_8x4, jpeg_fdct_6x3, jpeg_fdct_4x2,
    jpeg_fdct_2x1, jpeg_fdct_8x16, jpeg_fdct_7x14, jpeg_fdct_6x12,
    jpeg_fdct_5x10, jpeg_fdct_4x8, jpeg_fdct_3x6, jpeg_fdct_2x4, jpeg_fdct_1x2 }

-----------------------------------------------------------------------------
VARIABLES routine,   \* the routine at work
          sample,    \* the samples, as a function of row and column
          qval,      \* the quantization value of every frequency
          data,      \* the rows of the block; those from 8 on are a workspace
          ctr,       \* rows done in pass 1, plus columns done in pass 2
          coef       \* the block of quantized coefficients, once it is stored

vars == << routine, sample, qval, data, ctr, coef >>

Columns == Min({DCTSIZE, routine.width})
Rows == Min({DCTSIZE, routine.height})
InPass1 == ctr \in 0..routine.height-1
InPass2 == ctr \in routine.height..routine.height+Columns-1

\* forward_DCT's workspace is a local array: it holds anything.
Junk == 77

Init ==
  /\ routine \in Routines
  /\ sample \in Pictures
  /\ qval \in QuantVals
  /\ data = [y \in 0..15 |-> [u \in 0..DCTSIZE-1 |-> Junk]]
  /\ ctr = -1
  /\ coef = << >>

\* A routine for fewer than 8 rows or columns clears what it will not compute.
Clear ==
  /\ ctr = -1
  /\ data' = [y \in 0..15 |-> IF y < DCTSIZE /\ (routine.width < DCTSIZE \/ y >= routine.height)
                              THEN [u \in 0..DCTSIZE-1 |-> 0] ELSE data[y]]
  /\ ctr' = 0
  /\ UNCHANGED << routine, sample, qval, coef >>

\* The unsigned samples are centred in the lowest frequency alone.
Row(y) ==
  LET f == Fdct(routine.width, sample[y], Plain[routine.width])
      centre == routine.width * CENTERJSAMPLE * SCALE
  IN  [u \in 0..DCTSIZE-1 |->
         CASE u = 0       -> Descale(f[1] - centre, routine.shift1)
           [] u \in 1..Columns-1 -> Descale(f[u+1], routine.shift1)
           [] OTHER       -> data[y][u]]

\* Pass 1: a row of samples into a row of the block.
RowStep ==
  /\ InPass1
  /\ data' = [data EXCEPT ![ctr] = Row(ctr)]
  /\ ctr' = ctr + 1
  /\ UNCHANGED << routine, sample, qval, coef >>

\* Pass 2: a column of the block in place.
ColumnStep ==
  /\ InPass2
  /\ LET u == ctr - routine.height
         f == Fdct(routine.height, [y \in 0..routine.height-1 |-> data[y][u]],
                   Scaled[routine.height])
     IN  data' = [y \in 0..15 |->
                    IF y < Rows THEN [data[y] EXCEPT ![u] = Descale(f[y+1], routine.shift2)]
                    ELSE data[y]]
  /\ ctr' = ctr + 1
  /\ UNCHANGED << routine, sample, qval, coef >>

\* Division by the divisor, rounded to the nearest, halves away from zero.
DivideBy(a, b) == IF a >= b THEN a \div b ELSE 0
Quantized(t, q) ==
  IF t < 0 THEN 0 - DivideBy((q \div 2) - t, q) ELSE DivideBy(t + (q \div 2), q)

\* forward_DCT: the results are eight times too large, so are the divisors.
Quantize ==
  /\ ctr = routine.height + Columns /\ coef = << >>
  /\ coef' = [k \in 0..63 |-> Quantized(data[k \div DCTSIZE][k % DCTSIZE], qval * 8)]
  /\ UNCHANGED << routine, sample, qval, data, ctr >>

Next == Clear \/ RowStep \/ ColumnStep \/ Quantize

Spec == Init /\ [][Next]_vars

-----------------------------------------------------------------------------
(* What the routines promise: the cosine transform of the W x H samples.   *)

\* Samples that are not grey.
Lit == { p \in (0..routine.height-1) \X (0..routine.width-1) :
           sample[p[1]][p[2]] # CENTERJSAMPLE }

\* 16 times the coefficient of the transform, eight times as large as the true
\* one, of frequency v down and u across.
Exact(v, u) ==
  LET Term(p) ==
        (sample[p[1]][p[2]] - CENTERJSAMPLE)
          * Wave(v, u, p[1], p[2], routine.width, routine.height)
  IN  IF v < Rows /\ u < Columns
      THEN MapThenSumSet(Term, Lit) \div (4 * routine.width * routine.height)
      ELSE 0

-----------------------------------------------------------------------------
TypeOK ==
  /\ routine \in Forwards
  /\ ctr \in -1..routine.height + Columns
  /\ coef # << >> => coef \in [0..63 -> -1024..1024]

\* The column that pass 2 finished last holds, up to three eighths of a
\* coefficient, the cosine transform of the samples, and zero at the frequencies
\* the block has no samples for: no constant, rotation, shift or correction of
\* the fourteen kernels in either pass is wrong, and no junk of the workspace
\* is left.
Accurate ==
  ctr > routine.height =>
    LET u == ctr - routine.height - 1 IN
      \A v \in 0..DCTSIZE-1 :
        16 * data[v][u] - Exact(v, u) \in -48..48

\* The stored coefficient, scaled back, is as near to what the transform gave as
\* any multiple of the quantization value, for both signs; the frequencies the
\* block has no samples for are zero.
Nearest ==
  coef # << >> =>
    \A v, u \in 0..DCTSIZE-1 :
      LET c == coef[DCTSIZE * v + u] IN
        /\ 2 * (data[v][u] - 8 * qval * c) \in -8 * qval..8 * qval
        /\ (v >= Rows \/ u >= Columns) => c = 0
============================================================================
