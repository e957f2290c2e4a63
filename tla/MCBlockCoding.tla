---------------------------- MODULE MCBlockCoding ----------------------------
(***************************************************************************)
(* The parts of the library that turn blocks of samples into coefficients  *)
(* and those into bits, and back: the transforms, the two entropy coders   *)
(* and what these rest on.  Each part has its own inputs and shares no     *)
(* state with the others; part is the one at work.                         *)
(***************************************************************************)
EXTENDS ArithScan, FiniteSets, TLC

Idle == << >>

-----------------------------------------------------------------------------
(* The transforms, on blocks that name a few frequencies, or that are grey *)
(* but for a few samples, or that use the whole range.                     *)
VARIABLES routine, block, ws, out, ctr, sample, qval, data, coef, quant
Basics == INSTANCE DctBasics

Zero == [k \in 0..63 |-> 0]
\* One frequency at a time, at an amplitude that keeps the samples in range; a
\* grey level with two waves, one column with and one without AC terms, a block
\* far out of the sample range on either side.
SomeBlocks ==
  { [Zero EXCEPT ![k] = 600] : k \in 0..63 } \cup
  { [Zero EXCEPT ![0] = -317, ![9] = 250, ![58] = -131],
    [Zero EXCEPT ![0] = 205, ![1] = 77, ![2] = -90, ![33] = 411],
    [Zero EXCEPT ![0] = 1016, ![1] = 500, ![8] = 500],
    [Zero EXCEPT ![0] = -1024, ![18] = -400],
    [k \in 0..63 |-> ((k * 37) % 23) - 11] }

\* The first n rows and columns of f.
Picture(n, f(_, _)) == [y \in 0..n-1 |-> [x \in 0..n-1 |-> f(y, x)]]
\* One bright sample, in every column and in every row; a dark block, a bright
\* one, a chessboard, a gradient.
LargePictures ==
  { Picture(16, LAMBDA y, x : IF y = p[1] /\ x = p[2] THEN 255 ELSE 128) :
      p \in ({3} \X (0..15)) \cup ((0..15) \X {2}) } \cup
  { Picture(16, LAMBDA y, x : 0), Picture(16, LAMBDA y, x : 255),
    Picture(16, LAMBDA y, x : IF (x + y) % 2 = 0 THEN 255 ELSE 0),
    Picture(16, LAMBDA y, x : 100 + 3 * x + 5 * y) }
SmallPictures ==
  { Picture(8, LAMBDA y, x : IF y = p[1] /\ x = p[2] THEN 255 ELSE 100) : p \in (0..7) \X (0..7) } \cup
  { Picture(8, LAMBDA y, x : 0), Picture(8, LAMBDA y, x : 255),
    Picture(8, LAMBDA y, x : IF (x + y) % 2 = 0 THEN 255 ELSE 0),
    Picture(8, LAMBDA y, x : IF x < 4 THEN 255 ELSE 0),
    Picture(8, LAMBDA y, x : IF y % 3 = 0 THEN 240 ELSE 20),
    Picture(8, LAMBDA y, x : 60 + 9 * x + 15 * y),
    Picture(8, LAMBDA y, x : (37 * x + 91 * y + 13 * x * y) % 256) }
\* An even quantization table and a steep one.
SomeTables ==
  { [k \in 0..63 |-> 10], [k \in 0..63 |-> 16 + 2 * (k \div 8) + 3 * (k % 8)] }

\* The widths whose forward transforms are left out: the row transforms of 12
\* and 14 points are not what they should be, see the README.
CONSTANT LeftOut
Inverses == INSTANCE InverseDct WITH Blocks <- {}, Routines <- {}
Forwards == INSTANCE ForwardDct WITH Pictures <- {}, Routines <- {}, QuantVals <- {}
Inverted == INSTANCE InverseDct WITH Blocks <- SomeBlocks, Routines <- Inverses!Inverses
Forward == INSTANCE ForwardDct WITH Pictures <- LargePictures, QuantVals <- {1, 16},
                                    Routines <- { r \in Forwards!Forwards : r.width \notin LeftOut }
Fast == INSTANCE FastDct WITH Pictures <- SmallPictures, QuantTables <- SomeTables

-----------------------------------------------------------------------------
(* Huffman tables for five symbols, and their codes.                       *)
VARIABLES counts, freq, others, codesize, lengths, table, at, pc
Tables == INSTANCE HuffmanTables
            WITH counted <- counts, bits <- lengths, MaxLen <- 3, MaxCLen <- 6, Lookahead <- 2,
                 Symbols <- 0..4, Counts <- {0, 1, 2, 4, 7}

\* The lengths of the standard tables ImageProc.c loads make legal codes:
\* JPEG_DHT, ImageProc.c:68-122.
StdDcBits == << 0, 1, 5, 1, 1, 1, 1, 1, 1, 0, 0, 0, 0, 0, 0, 0 >>
StdAcBits == << 0, 2, 1, 3, 3, 2, 4, 3, 5, 5, 4, 4, 0, 0, 1, 125 >>
StdAcChromaBits == << 0, 2, 1, 2, 4, 4, 3, 4, 7, 5, 4, 4, 0, 1, 2, 119 >>
Standard == INSTANCE HuffmanTables
              WITH counted <- counts, bits <- lengths, MaxLen <- 16, MaxCLen <- 32, Lookahead <- 8,
                   Symbols <- 0..255, Counts <- {}

(* Segments of a few bits: bytes of two bits, MCUs of one or two fields.   *)
VARIABLES mcus, cut, wnext, put, buffer, file, closed, lost,
          arrived, rpos, bits, marker, insufficient, warned, got
Fields == { f \in [val : 0..3, n : {1, 2}] : f.val < 2^f.n }
Bitstream == INSTANCE BitStream
             WITH ByteBits <- 2, MinGetBits <- 5, Room <- 5, Cuts <- {1, 3, 99},
                  Mcus <- { << << a >>, << b, c >>, << d >> >> :
                              a, b, c \in Fields, d \in { f \in Fields : f.val = 2^f.n - 1 } }

(* Decisions: bytes of three bits, a register of six below three spacer    *)
(* bits, two contexts; a table with the features of the real one:          *)
(* intervals larger than half of what is left, a switch of the likely      *)
(* value, a state for rare values, and a fixed state.                      *)
VARIABLES said, coder, ended, decoder, heard
State(qe, lps, mps, switch) == [qe |-> qe, lps |-> lps, mps |-> mps, switch |-> switch]
Decisions == INSTANCE ArithCoder
               WITH enc <- coder, dec <- decoder, closed <- ended,
                    FracBits <- 6, SpacerBits <- 3, ByteBits <- 3,
                    Table <- << State(22, 1, 2, TRUE), State(15, 1, 3, FALSE), State(5, 2, 4, FALSE),
                                State(1, 3, 4, FALSE), State(22, 5, 5, FALSE) >>,
                    Fixed <- 5, Contexts <- {"bin", "fixed"}, MaxDecisions <- 7

-----------------------------------------------------------------------------
(* Scans of few blocks: progressive ones of one component, and sequential  *)
(* ones of two.                                                            *)
VARIABLES image, order, every, limit, counted, avail, accuracy

Scan(ss, se, ah, al, blks) == [ss |-> ss, se |-> se, ah |-> ah, al |-> al, blks |-> blks]

\* Blocks of six or eight coefficients, runs of at most two zeros, so that runs
\* of three blocks fill the counter.  One component: nothing; one small
\* coefficient after a run; large ones that get correction bits; both, with a
\* zero run between; a full band.
Coefs(s) == [k \in 0..(Len(s) - 1) |-> s[k + 1]]
HuffmanOne == { Coefs(<< 0, 0, 0, 0, 0, 0 >>), Coefs(<< -3, 0, 0, 0, 0, -1 >>),
                Coefs(<< 2, 3, 0, -2, 0, 3 >>), Coefs(<< 1, -3, 0, 0, 0, 1 >>),
                Coefs(<< -1, 2, 3, 1, -2, 2 >>) }
\* Two components.  Blocks of four coefficients, of a smaller DCT, end in zeros.
HuffmanTwo == { Coefs(<< 0, 0, 0, 0, 0, 0, 0, 0 >>), Coefs(<< 3, 0, 0, -1, 0, 0, 0, 0 >>),
                Coefs(<< -2, 1, 0, 0, 0, 0, 0, 4 >>), Coefs(<< 1, 0, 0, 0, 0, 2, 0, 0 >>) }

HuffmanProgressive ==
  INSTANCE HuffmanScan
    WITH picture <- image, script <- order, interval <- every,
         DctSize2 <- 6, RunMax <- 2, MaxCorr <- 8, Progressive <- TRUE, Membership <- << 1 >>,
         Scripts <- { << Scan(0, 0, 0, 1, << 1 >>), Scan(1, 5, 0, 1, << 1 >>),
                         Scan(0, 0, 1, 0, << 1 >>), Scan(1, 5, 1, 0, << 1 >>) >> },
         Pictures <- { << << a >>, << b >>, << c >>, << a >> >> : a, b, c \in HuffmanOne },
         Intervals <- {0, 2}, Limits <- { << 6 >> }
HuffmanSequential ==
  INSTANCE HuffmanScan
    WITH picture <- image, script <- order, interval <- every,
         DctSize2 <- 8, RunMax <- 2, MaxCorr <- 8, Progressive <- FALSE, Membership <- << 1, 2 >>,
         Scripts <- { << Scan(0, 7, 0, 0, << 1, 2 >>) >>, << Scan(0, 3, 0, 0, << 1, 2 >>) >> },
         Pictures <- UNION { { << << a, b >>, << c, d >> >> : d \in {b, c} } : a, b, c \in HuffmanTwo },
         Intervals <- {0, 1}, Limits <- { << 8, 8 >>, << 3, 8 >>, << 0, 1 >> }

\* Blocks with few nonzero coefficients, chosen for the decisions they take:
\* large numbers, runs to the end of the band, numbers on both sides of the
\* bounds of the conditioning.
Sparse(f) == [k \in 0..63 |-> IF k \in DOMAIN f THEN f[k] ELSE 0]
ArithOne == { Sparse(0 :> 1), Sparse(0 :> -6 @@ 1 :> -3 @@ 2 :> 1 @@ 4 :> 2 @@ 63 :> -9),
              Sparse(0 :> 700 @@ 3 :> 1 @@ 5 :> -1 @@ 6 :> 40 @@ 7 :> 2) }
\* Two components that share their tables; pictures of 3x3 blocks, and of 1x1.
ArithTwo == { Sparse(0 :> 3), Sparse(0 :> 2047 @@ 1 :> -1023 @@ 8 :> 5),
              Sparse(0 :> -1 @@ 2 :> 2 @@ 6 :> 3) }
Image(progressive, members, tables, scans, n, blocks) ==
  [progressive |-> progressive, membership |-> members, tables |-> tables,
   script |-> scans, interval |-> n, mcus |-> blocks]

\* One component in five scans: the band in two parts, the first refined.
ArithImages ==
  { Image(TRUE, << 1 >>, << 0 >>,
          << Scan(0, 0, 0, 1, << 1 >>), Scan(1, 5, 0, 1, << 1 >>), Scan(6, 63, 0, 0, << 1 >>),
             Scan(1, 5, 1, 0, << 1 >>), Scan(0, 0, 1, 0, << 1 >>) >>,
          n, << << a >>, << b >>, << c >> >>) : a, b, c \in ArithOne, n \in {0, 2} } \cup
  { Image(FALSE, << 1, 2 >>, << 0, 0 >>, << Scan(0, se, 0, 0, << 1, 2 >>) >>,
          n, << << a, b >>, << b, c >>, << c, a >> >>) : a, b, c \in ArithTwo, n \in {0, 2}, se \in {8, 63} }
SomeFaults == [scan : 1..5, segment : 1..2, from : {1, 6}, val : {0, 1}]

-----------------------------------------------------------------------------
ASSUME CodingAssumption ==
  /\ Tables!LengthsAssumption /\ Bitstream!WidthsAssumption /\ Decisions!WidthsAssumption
  /\ HuffmanProgressive!SizesAssumption /\ HuffmanSequential!SizesAssumption
  /\ ConditioningAssumption
  /\ Standard!LegalCode(Standard!HuffSize(StdDcBits))
  /\ \A b \in { StdAcBits, StdAcChromaBits } :
       Standard!LegalCode(Standard!HuffSize(b)) /\ Standard!NumCodes(b) = 162

VARIABLE part
transformVars == << routine, block, ws, out, ctr, sample, qval, data, coef, quant >>
tableVars == << counts, freq, others, codesize, lengths, table, at, pc >>
segmentVars == << mcus, cut, wnext, put, buffer, file, closed, lost,
                  arrived, rpos, bits, marker, insufficient, warned, got >>
decisionVars == << said, coder, ended, decoder, heard >>
huffmanVars == << image, order, every, limit, counted, avail, accuracy >>
scanVars == << huffmanVars, cinfo, fault, scan, phase, mcu, enc, dec, coefs >>
allVars == << part, transformVars, tableVars, segmentVars, decisionVars, scanVars >>

\* The variables of parts that are not at work.
NoTransform ==
  /\ routine = Idle /\ block = Idle /\ ws = Idle /\ out = Idle /\ ctr = Idle
  /\ sample = Idle /\ qval = Idle /\ data = Idle /\ coef = Idle /\ quant = Idle
NoTables ==
  /\ counts = Idle /\ freq = Idle /\ others = Idle /\ codesize = Idle
  /\ lengths = Idle /\ table = Idle /\ at = Idle /\ pc = Idle
NoSegment ==
  /\ mcus = Idle /\ cut = Idle /\ wnext = Idle /\ put = Idle /\ buffer = Idle
  /\ file = Idle /\ closed = Idle /\ lost = Idle /\ arrived = Idle /\ rpos = Idle
  /\ bits = Idle /\ marker = Idle /\ insufficient = Idle /\ warned = Idle /\ got = Idle
NoDecisions ==
  said = Idle /\ coder = Idle /\ ended = Idle /\ decoder = Idle /\ heard = Idle
NoHuffman ==
  /\ image = Idle /\ order = Idle /\ every = Idle /\ limit = Idle
  /\ counted = Idle /\ avail = Idle /\ accuracy = Idle
NoScan ==
  /\ NoHuffman /\ cinfo = Idle /\ fault = Idle /\ scan = Idle /\ phase = Idle
  /\ mcu = Idle /\ enc = Idle /\ dec = Idle /\ coefs = Idle

TransformInit ==
  /\ NoTables /\ NoSegment /\ NoDecisions /\ NoScan
  /\ \/ /\ part = "inverse" /\ Inverted!Init
        /\ sample = Idle /\ qval = Idle /\ data = Idle /\ coef = Idle /\ quant = Idle
     \/ /\ part = "forward" /\ Forward!Init
        /\ block = Idle /\ ws = Idle /\ out = Idle /\ quant = Idle
     \/ part = "fast" /\ Fast!Init /\ routine = Idle /\ qval = Idle /\ data = Idle

ScanInit ==
  /\ NoTransform /\ NoTables /\ NoSegment /\ NoDecisions
  /\ \/ /\ cinfo = Idle /\ fault = Idle
        /\ \/ part = "huffmanProgressive" /\ HuffmanProgressive!Init
           \/ part = "huffmanSequential" /\ HuffmanSequential!Init
     \/ part = "arithmetic" /\ Init /\ NoHuffman

CodingInit ==
  \/ TransformInit
  \/ ScanInit
  \/ part = "tables" /\ Tables!Init /\ NoTransform /\ NoSegment /\ NoDecisions /\ NoScan
  \/ part = "segment" /\ Bitstream!Init /\ NoTransform /\ NoTables /\ NoDecisions /\ NoScan
  \/ part = "decisions" /\ Decisions!Init /\ NoTransform /\ NoTables /\ NoSegment /\ NoScan

TransformNext ==
  /\ UNCHANGED << tableVars, segmentVars, decisionVars, scanVars >>
  /\ \/ part = "inverse" /\ Inverted!Next /\ UNCHANGED << sample, qval, data, coef, quant >>
     \/ part = "forward" /\ Forward!Next /\ UNCHANGED << block, ws, out, quant >>
     \/ part = "fast" /\ Fast!Next /\ UNCHANGED << routine, qval, data >>

ScanNext ==
  /\ UNCHANGED << transformVars, tableVars, segmentVars, decisionVars >>
  /\ \/ part = "huffmanProgressive" /\ HuffmanProgressive!Next /\ UNCHANGED << cinfo, fault >>
     \/ part = "huffmanSequential" /\ HuffmanSequential!Next /\ UNCHANGED << cinfo, fault >>
     \/ part = "arithmetic" /\ Next /\ UNCHANGED huffmanVars

CodingNext ==
  /\ UNCHANGED part
  /\ \/ TransformNext
     \/ ScanNext
     \/ part = "tables" /\ Tables!Next /\ UNCHANGED << transformVars, segmentVars, decisionVars, scanVars >>
     \/ part = "segment" /\ Bitstream!Next /\ UNCHANGED << transformVars, tableVars, decisionVars, scanVars >>
     \/ part = "decisions" /\ Decisions!Next /\ UNCHANGED << transformVars, tableVars, segmentVars, scanVars >>

CodingSpec == CodingInit /\ [][CodingNext]_allVars

-----------------------------------------------------------------------------
\* Every transform is as near to the cosine transform as its method allows: see
\* InverseDct, ForwardDct and FastDct.
TransformsNear ==
  /\ part = "inverse" => Inverted!TypeOK /\ Inverted!Accurate
  /\ part = "forward" => Forward!TypeOK /\ Forward!Accurate /\ Forward!Nearest
  /\ part = "fast"    => Fast!TypeOK /\ Fast!ForwardNear /\ Fast!InverseNear

\* A Huffman table decodes what it encodes, and the bits of a segment come back
\* however coder and decoder are interrupted: see HuffmanTables and BitStream.
CodesReadBack ==
  /\ part = "tables"  => Tables!CodesRight
  /\ part = "segment" => Bitstream!BitsRight

\* Huffman-coded scans come back: see HuffmanScan.
HuffmanReadsBack ==
  /\ part = "huffmanProgressive" => HuffmanProgressive!ScansRight
  /\ part = "huffmanSequential"  => HuffmanSequential!ScansRight

\* Arithmetic-coded decisions and scans come back, and damage leads nowhere it
\* should not: see ArithCoder and ArithScan.
ArithmeticReadsBack ==
  /\ part = "decisions"  => Decisions!DecisionsRight
  /\ part = "arithmetic" => ScansRight
=============================================================================
