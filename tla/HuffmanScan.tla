----------------------------- MODULE HuffmanScan -----------------------------
(***************************************************************************)
(* The scans of a Huffman-coded picture: jchuff.c turns the coefficients of *)
(* each MCU into symbols and bits, jdhuff.c turns them back.  A sequential  *)
(* picture is one scan.  A progressive one first sends coefficients without *)
(* their last Al bits, then one bit more of each per scan; runs of blocks    *)
(* with nothing new are one EOBn symbol, and the correction bits of such     *)
(* blocks wait in a buffer until it goes out.  Every scan is coded twice:    *)
(* once only to count the symbols its tables need, once for real.  The       *)
(* reader gets the file in pieces and gives up an MCU it cannot finish.      *)
(*                                                                          *)
(* What a table makes of a symbol, and bytes, are in HuffmanTables and       *)
(* BitStream: here a file is a sequence of symbols and groups of bits.  A    *)
(* run of zeros in a symbol is at most RunMax (15), a block has DctSize2     *)
(* (64) coefficients, in zigzag order, and MaxCorr (1000) correction bits    *)
(* fit the buffer.                                                          *)
(***************************************************************************)
EXTENDS Integers, Sequences, SequencesExt

CONSTANTS DctSize2, RunMax, MaxCorr, Membership, Progressive,
          Scripts, Pictures, Intervals, Limits

SizesAssumption ==
  /\ DctSize2 \in Nat \ {0, 1} /\ RunMax \in Nat \ {0}
  /\ MaxCorr \in Nat /\ MaxCorr >= DctSize2 - 1

VARIABLES picture,     \* the blocks of every MCU, as the writer has them
          script,      \* the scans: [ss, se, ah, al, blks], blks the blocks of an MCU it holds
          interval,    \* restart_interval
          limit,       \* coef_limit of each component
          scan, phase, mcu,
          enc, counted,               \* the writer; the symbols its first pass counted
          avail, dec, coefs, accuracy \* the reader; accuracy is coef_bits
vars == << picture, script, interval, limit, scan, phase, mcu,
           enc, counted, avail, dec, coefs, accuracy >>

Components == { Membership[b] : b \in DOMAIN Membership }
Refinement(s) == s.ah # 0
Mcus == 1..Len(picture)

Magnitude(x) == IF x < 0 THEN -x ELSE x
Size(x) == CHOOSE n \in 0..16 : Magnitude(x) < 2^n /\ (n = 0 \/ Magnitude(x) >= 2^(n-1))
\* The bits of x: the number itself, or the complement of its magnitude.
Bits(x) == IF x < 0 THEN x - 1 + 2^Size(x) ELSE x
Extend(v, n) == IF n = 0 THEN 0 ELSE IF v < 2^(n-1) THEN v - (2^n - 1) ELSE v
\* The point transform of an AC coefficient rounds toward zero, that of DC down.
Scaled(x, al) == IF x < 0 THEN -((-x) \div 2^al) ELSE x \div 2^al
Bit(x, al) == (x \div 2^al) % 2

-----------------------------------------------------------------------------
(* The writer.                                                             *)

Token(kind, a, b) == [kind |-> kind, a |-> a, b |-> b]
EmitSymbol(e, kind, r, s) == [e EXCEPT !.out = Append(@, Token(kind, r, s))]
EmitBits(e, v, n) ==
  IF e.gather \/ n = 0 THEN e ELSE [e EXCEPT !.out = Append(@, Token("bits", v, n))]
EmitBuffered(e, bits) ==
  IF e.gather THEN e
  ELSE [e EXCEPT !.out = @ \o [i \in DOMAIN bits |-> Token("bits", bits[i], 1)]]

\* The run of blocks that end here, then the correction bits of those blocks.
EmitEobrun(e) ==
  IF e.eobrun = 0 THEN e
  ELSE LET n == Size(e.eobrun) - 1
           sent == EmitBits(EmitSymbol(e, "ac", n, 0), e.eobrun % 2^n, n)
       IN  [EmitBuffered(sent, e.corr) EXCEPT !.eobrun = 0, !.corr = << >>]

EmitRestart(e, s) ==
  LET flushed == EmitEobrun(e)
      marked == IF e.gather THEN flushed
                ELSE [flushed EXCEPT !.out = Append(@, Token("rst", e.rst, 0))]
  IN  IF s.ss = 0 THEN [marked EXCEPT !.last = [c \in Components |-> 0]]
      ELSE [marked EXCEPT !.eobrun = 0, !.corr = << >>]

EmitDc(e, c, x) ==
  LET diff == x - e.last[c]
  IN  [EmitBits(EmitSymbol(e, "dc", 0, Size(diff)), Bits(diff), Size(diff)) EXCEPT !.last[c] = x]

EncodeDcFirst(e, blocks, s) ==
  FoldLeft(LAMBDA acc, b : EmitDc(acc, Membership[b], blocks[b][0] \div 2^s.al), e, s.blks)

EncodeDcRefine(e, blocks, s) ==
  FoldLeft(LAMBDA acc, b : EmitBits(acc, Bit(blocks[b][0], s.al), 1), e, s.blks)

RECURSIVE EmitZeroRuns(_, _)
EmitZeroRuns(e, r) ==
  IF r > RunMax THEN EmitZeroRuns(EmitSymbol(e, "ac", RunMax, 0), r - (RunMax + 1)) ELSE e

\* Coefficients that are new in this scan, after the point transform by al; r
\* counts the zeros before the next one.
AcCoefs(e, block, first, last, al) ==
  LET Step(acc, k) ==
        LET x == Scaled(block[k], al)
        IN  IF x = 0 THEN [acc EXCEPT !.r = @ + 1]
            ELSE LET runs == EmitZeroRuns(EmitEobrun(acc.e), acc.r)
                     coded == EmitSymbol(runs, "ac", acc.r % (RunMax + 1), Size(x))
                 IN  [e |-> EmitBits(coded, Bits(x), Size(x)), r |-> 0]
  IN  FoldLeft(Step, [e |-> e, r |-> 0], [i \in 1..(last - first + 1) |-> first + i - 1])

EncodeAcFirst(e, block, s) ==
  LET acc == AcCoefs(e, block, s.ss, s.se, s.al)
      ended == [acc.e EXCEPT !.eobrun = @ + 1]
  IN  IF acc.r = 0 THEN acc.e
      ELSE IF ended.eobrun = 2^RunMax - 1 THEN EmitEobrun(ended) ELSE ended

\* One more bit of the band.  br holds the correction bits of this block since
\* its last symbol; a run of zeros is left to the end of the block when no new
\* coefficient follows it.
RECURSIVE RefineZeroRuns(_, _)
RefineZeroRuns(acc, more) ==
  IF acc.r > RunMax /\ more
  THEN RefineZeroRuns([e |-> EmitBuffered(EmitSymbol(EmitEobrun(acc.e), "ac", RunMax, 0), acc.br),
                       r |-> acc.r - (RunMax + 1), br |-> << >>], more)
  ELSE acc

RefineCoefs(e, block, s) ==
  LET value(k) == Magnitude(block[k]) \div 2^s.al
      eob == Max({0} \cup {k \in s.ss..s.se : value(k) = 1})
      Held(acc) == [acc EXCEPT !.e.peak = Max({@, Len(acc.e.corr) + Len(acc.br)})]
      Step(acc, k) ==
        IF value(k) = 0 THEN [acc EXCEPT !.r = @ + 1]
        ELSE LET run == RefineZeroRuns(acc, k <= eob)
             IN  IF value(k) > 1 THEN Held([run EXCEPT !.br = Append(@, value(k) % 2)])
                 ELSE LET coded == EmitSymbol(EmitEobrun(run.e), "ac", run.r, 1)
                          signed == EmitBits(coded, IF block[k] < 0 THEN 0 ELSE 1, 1)
                      IN  [e |-> EmitBuffered(signed, run.br), r |-> 0, br |-> << >>]
  IN  FoldLeft(Step, [e |-> e, r |-> 0, br |-> << >>], [i \in 1..(s.se - s.ss + 1) |-> s.ss + i - 1])

\* A block that ends before its band does joins the run; the run is sent when
\* its counter is full, or when the next block might not fit the buffer.
EncodeAcRefine(e, block, s) ==
  LET acc == RefineCoefs(e, block, s)
      ended == [acc.e EXCEPT !.eobrun = @ + 1, !.corr = @ \o acc.br]
  IN  IF acc.r = 0 /\ acc.br = << >> THEN acc.e
      ELSE IF ended.eobrun = 2^RunMax - 1 \/ Len(ended.corr) > MaxCorr - DctSize2 + 1
      THEN EmitEobrun(ended) ELSE ended

EncodeOneBlock(e, c, block, se) ==
  LET acc == AcCoefs(EmitDc(e, c, block[0]), block, 1, se, 0)
  IN  IF acc.r > 0 THEN EmitSymbol(acc.e, "ac", 0, 0) ELSE acc.e

\* The same block in the pass that only counts.
HtestOneBlock(e, c, block, se) ==
  LET nonzero == {k \in 1..se : block[k] # 0}
      before(k) == k - 1 - Max({0} \cup {j \in nonzero : j < k})
      zrls(k) == [i \in 1..(before(k) \div (RunMax + 1)) |-> Token("ac", RunMax, 0)]
      coef(k) == IF k \notin nonzero THEN << >>
                 ELSE Append(zrls(k), Token("ac", before(k) % (RunMax + 1), Size(block[k])))
      eob == IF se \in nonzero \cup {0} THEN << >> ELSE << Token("ac", 0, 0) >>
  IN  [e EXCEPT !.out = @ \o << Token("dc", 0, Size(block[0] - e.last[c])) >>
                          \o FlattenSeq([k \in 1..se |-> coef(k)]) \o eob,
                !.last[c] = block[0]]

EncodeSequential(e, blocks, s) ==
  FoldLeft(LAMBDA acc, b : IF e.gather THEN HtestOneBlock(acc, Membership[b], blocks[b], s.se)
                           ELSE EncodeOneBlock(acc, Membership[b], blocks[b], s.se), e, s.blks)

EncodeMcu(e, blocks, s) ==
  CASE ~Progressive                     -> EncodeSequential(e, blocks, s)
    [] Progressive /\ s.ss = 0 /\ ~Refinement(s) -> EncodeDcFirst(e, blocks, s)
    [] Progressive /\ s.ss = 0 /\ Refinement(s)  -> EncodeDcRefine(e, blocks, s)
    [] Progressive /\ s.ss > 0 /\ ~Refinement(s) -> EncodeAcFirst(e, blocks[s.blks[1]], s)
    [] OTHER                            -> EncodeAcRefine(e, blocks[s.blks[1]], s)

StartPass(gather) ==
  [gather |-> gather, out |-> << >>, eobrun |-> 0, corr |-> << >>, peak |-> 0,
   last |-> [c \in Components |-> 0], togo |-> interval, rst |-> 0]

\* A restart marker goes before an MCU, and the MCU counts against the interval.
Restarted(e, s) == IF interval > 0 /\ e.togo = 0 THEN EmitRestart(e, s) ELSE e
Accounted(e) ==
  IF interval = 0 THEN e
  ELSE IF e.togo = 0 THEN [e EXCEPT !.togo = interval - 1, !.rst = (@ + 1) % 8]
  ELSE [e EXCEPT !.togo = @ - 1]

FinishPass(e) == IF Progressive THEN EmitEobrun(e) ELSE e

WriteMcu ==
  /\ phase \in {"gather", "write"} /\ mcu \in Mcus
  /\ enc' = Accounted(EncodeMcu(Restarted(enc, script[scan]), picture[mcu], script[scan]))
  /\ mcu' = mcu + 1
  /\ UNCHANGED << picture, script, interval, limit, scan, phase, counted, avail, dec, coefs, accuracy >>

EndGather ==
  /\ phase = "gather" /\ mcu \notin Mcus
  /\ counted' = FinishPass(enc).out
  /\ enc' = StartPass(FALSE) /\ phase' = "write" /\ mcu' = 1
  /\ UNCHANGED << picture, script, interval, limit, scan, avail, dec, coefs, accuracy >>

EndWrite ==
  /\ phase = "write" /\ mcu \notin Mcus
  /\ enc' = FinishPass(enc)
  /\ phase' = "start" /\ avail' = 0
  /\ UNCHANGED << picture, script, interval, limit, scan, mcu, counted, dec, coefs, accuracy >>

-----------------------------------------------------------------------------
(* The reader.                                                             *)

Has(pos, kind) == pos <= avail /\ enc.out[pos].kind = kind
Given == Len(enc.out)

\* start_pass_huff_decoder: what the scan will bring the coefficients to.
StartRead ==
  /\ phase = "start"
  /\ dec' = [pos |-> 1, eobrun |-> 0, last |-> [c \in Components |-> 0], togo |-> interval]
  /\ accuracy' = LET s == script[scan]
                     held == { Membership[s.blks[i]] : i \in DOMAIN s.blks }
                 IN  [c \in Components |-> [k \in 0..(DctSize2 - 1) |->
                        IF c \in held /\ k \in s.ss..s.se THEN s.al ELSE accuracy[c][k]]]
  /\ phase' = "read" /\ mcu' = 1
  /\ UNCHANGED << picture, script, interval, limit, scan, enc, counted, avail, coefs >>

Arrive ==
  /\ phase = "read" /\ avail < Given
  /\ avail' = avail + 1
  /\ UNCHANGED << picture, script, interval, limit, scan, phase, mcu, enc, counted, dec, coefs, accuracy >>

\* The state after the restart marker, kept even if the MCU is then given up.
NeedsRestart == interval > 0 /\ dec.togo = 0
ProcessRestart ==
  IF NeedsRestart /\ Has(dec.pos, "rst")
  THEN [pos |-> dec.pos + 1, eobrun |-> 0, last |-> [c \in Components |-> 0], togo |-> interval]
  ELSE dec

\* A decoder takes and returns [ok, pos, eobrun, last, mcu], the last the
\* blocks of the MCU; it returns what it had when it gives up.
GivenUp(d) == [d EXCEPT !.ok = FALSE]

DecodeDcFirst(d, s) ==
  LET Step(acc, b) ==
        LET c == Membership[b]
            n == enc.out[acc.pos].b
            diff == IF n = 0 THEN 0 ELSE Extend(enc.out[acc.pos + 1].a, n)
            x == acc.last[c] + diff
        IN  IF ~acc.ok THEN acc
            ELSE IF ~Has(acc.pos, "dc") \/ (n > 0 /\ ~Has(acc.pos + 1, "bits")) THEN GivenUp(acc)
            ELSE [acc EXCEPT !.pos = @ + (IF n = 0 THEN 1 ELSE 2), !.last[c] = x,
                             !.mcu[b][0] = x * 2^s.al]
  IN  FoldLeft(Step, d, s.blks)

DecodeDcRefine(d, s) ==
  LET Step(acc, b) ==
        IF ~acc.ok THEN acc
        ELSE IF ~Has(acc.pos, "bits") THEN GivenUp(acc)
        ELSE [acc EXCEPT !.pos = @ + 1,
                !.mcu[b][0] = IF enc.out[acc.pos].a = 1 /\ Bit(@, s.al) = 0 THEN @ + 2^s.al ELSE @]
  IN  FoldLeft(Step, d, s.blks)

\* The length of a run of blocks that starts at symbol <<r, 0>>, and what follows it.
RunSent(pos, r) == r = 0 \/ Has(pos + 1, "bits")
RunAt(pos, r) == IF r = 0 THEN 1 ELSE 2^r + enc.out[pos + 1].a
AfterRun(pos, r) == pos + (IF r = 0 THEN 1 ELSE 2)

RECURSIVE AcFirst(_, _, _, _)
AcFirst(d, b, k, s) ==
  LET r == enc.out[d.pos].a
      n == enc.out[d.pos].b
      x == Extend(enc.out[d.pos + 1].a, n) * 2^s.al
  IN  IF k > s.se THEN d
      ELSE IF ~Has(d.pos, "ac") THEN GivenUp(d)
      ELSE IF n > 0
      THEN IF Has(d.pos + 1, "bits")
           THEN AcFirst([d EXCEPT !.pos = @ + 2, !.mcu[b][k + r] = x], b, k + r + 1, s)
           ELSE GivenUp(d)
      ELSE IF r = RunMax THEN AcFirst([d EXCEPT !.pos = @ + 1], b, k + RunMax + 1, s)
      ELSE IF ~RunSent(d.pos, r) THEN GivenUp(d)
      ELSE [d EXCEPT !.pos = AfterRun(d.pos, r), !.eobrun = RunAt(d.pos, r) - 1]

DecodeAcFirst(d, s) ==
  IF d.eobrun > 0 THEN [d EXCEPT !.eobrun = @ - 1] ELSE AcFirst(d, s.blks[1], s.ss, s)

\* A correction bit of 1 takes the coefficient away from zero, unless an earlier
\* attempt at this MCU has done so.
Corrected(x, bit, al) ==
  IF bit = 0 \/ Bit(x, al) = 1 THEN x ELSE IF x >= 0 THEN x + 2^al ELSE x - 2^al

\* Over coefficients known already, one correction bit each, and over r zeros;
\* stops at the zero after them, or past the band.  newnz collects positions
\* made nonzero by this attempt.
RECURSIVE Advance(_, _, _, _, _)
Advance(d, b, k, r, s) ==
  LET x == d.mcu[b][k]
  IN  IF k > s.se \/ (x = 0 /\ r = 0) THEN [d |-> d, k |-> k]
      ELSE IF x = 0 THEN Advance(d, b, k + 1, r - 1, s)
      ELSE IF ~Has(d.pos, "bits") THEN [d |-> GivenUp(d), k |-> k]
      ELSE Advance([d EXCEPT !.pos = @ + 1, !.mcu[b][k] = Corrected(@, enc.out[d.pos].a, s.al)],
                   b, k + 1, r, s)

\* The rest of a block in a run: correction bits only.
EndOfBand(d, b, k, s) ==
  LET a == Advance(d, b, k, DctSize2, s).d
  IN  IF a.ok THEN [a EXCEPT !.eobrun = @ - 1] ELSE a

RECURSIVE AcRefine(_, _, _, _)
AcRefine(d, b, k, s) ==
  LET r == enc.out[d.pos].a
      n == enc.out[d.pos].b
      sign == IF enc.out[d.pos + 1].a = 1 THEN 2^s.al ELSE -(2^s.al)
      moved == Advance([d EXCEPT !.pos = @ + (IF n > 0 THEN 2 ELSE 1)], b, k, r, s)
  IN  IF k > s.se THEN d
      ELSE IF ~Has(d.pos, "ac") \/ (n > 0 /\ ~Has(d.pos + 1, "bits")) THEN GivenUp(d)
      ELSE IF n = 0 /\ r # RunMax
      THEN IF RunSent(d.pos, r)
           THEN EndOfBand([d EXCEPT !.pos = AfterRun(d.pos, r), !.eobrun = RunAt(d.pos, r)], b, k, s)
           ELSE GivenUp(d)
      ELSE IF ~moved.d.ok THEN moved.d
      ELSE AcRefine(IF n > 0 THEN [moved.d EXCEPT !.mcu[b][moved.k] = sign,
                                                  !.newnz = @ \cup {moved.k}]
                    ELSE moved.d, b, moved.k + 1, s)

\* When the MCU is given up its new coefficients are zero again.
DecodeAcRefine(d, s) ==
  LET b == s.blks[1]
      tried == IF d.eobrun > 0 THEN EndOfBand(d, b, s.ss, s) ELSE AcRefine(d, b, s.ss, s)
  IN  IF tried.ok THEN tried
      ELSE [tried EXCEPT !.mcu[b] = [k \in DOMAIN @ |-> IF k \in tried.newnz THEN 0 ELSE @[k]]]

\* A block of a sequential scan: coefficients from the limit on are skipped,
\* except the one a run starts below it.
RECURSIVE Sequential(_, _, _, _, _)
Sequential(d, b, k, lim, se) ==
  LET r == enc.out[d.pos].a
      n == enc.out[d.pos].b
      x == Extend(enc.out[d.pos + 1].a, n)
  IN  IF k > se THEN d
      ELSE IF ~Has(d.pos, "ac") THEN GivenUp(d)
      ELSE IF n = 0
      THEN IF r = RunMax THEN Sequential([d EXCEPT !.pos = @ + 1], b, k + RunMax + 1, lim, se)
           ELSE [d EXCEPT !.pos = @ + 1]
      ELSE IF ~Has(d.pos + 1, "bits") THEN GivenUp(d)
      ELSE Sequential([d EXCEPT !.pos = @ + 2,
                                !.mcu[b][k + r] = IF k < lim THEN x ELSE @], b, k + r + 1, lim, se)

DecodeBlocks(d, s, se) ==
  LET Step(acc, b) ==
        LET c == Membership[b]
            dc == DecodeDcFirst(acc, [s EXCEPT !.blks = << b >>])
            kept == IF limit[c] > 0 THEN dc
                    ELSE [dc EXCEPT !.last[c] = acc.last[c], !.mcu[b][0] = 0]
        IN  IF ~acc.ok THEN acc ELSE IF ~dc.ok THEN dc
            ELSE Sequential(kept, b, 1, limit[c], se)
  IN  FoldLeft(Step, d, s.blks)

\* Faulty form: a small block is read as if it were a full one.
DecodeMcuSubFull(d, s) == DecodeBlocks(d, s, DctSize2 - 1)

\* Blocks of full size, and blocks of a smaller DCT, whose last coefficient is
\* lim_Se.
DecodeMcuFull(d, s) == DecodeBlocks(d, s, DctSize2 - 1)
DecodeMcuSub(d, s) == DecodeBlocks(d, s, s.se)

Decode(d, s) ==
  CASE ~Progressive -> IF s.se = DctSize2 - 1 THEN DecodeMcuFull(d, s) ELSE DecodeMcuSub(d, s)
    [] Progressive /\ s.ss = 0 /\ ~Refinement(s) -> DecodeDcFirst(d, s)
    [] Progressive /\ s.ss = 0 /\ Refinement(s)  -> DecodeDcRefine(d, s)
    [] Progressive /\ s.ss > 0 /\ ~Refinement(s) -> DecodeAcFirst(d, s)
    [] OTHER                                     -> DecodeAcRefine(d, s)

Attempt ==
  LET d == ProcessRestart
  IN  Decode([ok |-> TRUE, pos |-> d.pos, eobrun |-> d.eobrun, last |-> d.last,
              mcu |-> coefs[mcu], newnz |-> {}], script[scan])

\* The decoder's own state moves only when the MCU is complete; what reached the
\* coefficients stays.
ReadMcu ==
  /\ phase = "read" /\ mcu \in Mcus
  /\ NeedsRestart => Has(dec.pos, "rst")
  /\ LET a == Attempt
         togo == ProcessRestart.togo
     IN  /\ coefs' = [coefs EXCEPT ![mcu] = a.mcu]
         /\ dec' = IF a.ok THEN [pos |-> a.pos, eobrun |-> a.eobrun, last |-> a.last,
                                 togo |-> IF interval = 0 THEN 0 ELSE togo - 1]
                   ELSE ProcessRestart
         /\ mcu' = IF a.ok THEN mcu + 1 ELSE mcu
  /\ UNCHANGED << picture, script, interval, limit, scan, phase, enc, counted, avail, accuracy >>

EndScan ==
  /\ phase = "read" /\ mcu \notin Mcus
  /\ phase' = IF scan = Len(script) THEN "done" ELSE "gather"
  /\ scan' = IF scan = Len(script) THEN scan ELSE scan + 1
  /\ enc' = IF scan = Len(script) THEN enc ELSE StartPass(TRUE)
  /\ mcu' = IF scan = Len(script) THEN mcu ELSE 1
  /\ UNCHANGED << picture, script, interval, limit, counted, avail, dec, coefs, accuracy >>

Init ==
  /\ script \in Scripts /\ interval \in Intervals /\ limit \in Limits
  /\ picture \in {p \in Pictures : Progressive \/ \A i \in DOMAIN p : \A b \in DOMAIN p[i] :
                    \A k \in (script[1].se + 1)..(DctSize2 - 1) : p[i][b][k] = 0}
  /\ scan = 1 /\ phase = "gather" /\ mcu = 1
  /\ enc = StartPass(TRUE) /\ counted = << >>
  /\ avail = 0
  /\ dec = [pos |-> 1, eobrun |-> 0, last |-> [c \in Components |-> 0], togo |-> 0]
  /\ coefs = [i \in DOMAIN picture |-> [b \in DOMAIN picture[i] |-> [k \in 0..(DctSize2 - 1) |-> 0]]]
  /\ accuracy = [c \in Components |-> [k \in 0..(DctSize2 - 1) |-> -1]]

Next == WriteMcu \/ EndGather \/ EndWrite \/ StartRead \/ Arrive \/ ReadMcu \/ EndScan

Spec == Init /\ [][Next]_vars

-----------------------------------------------------------------------------
(* Properties.                                                             *)

\* Type invariant: the run counter and the buffer of correction bits stay below
\* what their symbols and the next block allow between two MCUs.
TypeOK ==
  /\ phase \in {"gather", "write", "start", "read", "done"}
  /\ enc.eobrun \in 0..(2^RunMax - 2) /\ Len(enc.corr) <= MaxCorr - DctSize2 + 1
  /\ (enc.corr # << >> => enc.eobrun > 0) /\ enc.rst \in 0..7
  /\ avail \in Nat /\ dec.eobrun \in 0..(2^RunMax - 1)
  /\ mcu \in 1..(Len(picture) + 1) /\ scan \in DOMAIN script

\* bit_buffer holds MAX_CORR_BITS: the bits of the blocks that wait and those of
\* the block at work never exceed it, though only a finished block is checked.
CorrectionBitsFit == enc.peak <= MaxCorr

\* "This process MUST agree with the code above" (jchuff.c): the pass that
\* counts sees the very symbols, in number, that the pass that writes then uses.
CountsAgree ==
  phase = "start" => LET isSymbol(t) == t.kind \in {"dc", "ac"}
                     IN  SelectSeq(enc.out, isSymbol) = counted

\* A file that is all there never makes the reader give up, and nothing of a
\* scan is left when its last MCU is read.
Synchronised ==
  phase = "read" /\ avail = Given =>
    IF mcu \in Mcus THEN (NeedsRestart => Has(dec.pos, "rst")) /\ Attempt.ok
    ELSE dec.pos = Given + 1

\* x with all its bits but the last al; 0 when nothing of it was sent.
Known(x, k, al) ==
  IF al < 0 THEN 0 ELSE IF k = 0 THEN (x \div 2^al) * 2^al ELSE Scaled(x, al) * 2^al

\* What coef_bits says is what is known of the coefficients, and the smoothing of
\* incomplete pictures relies on it: an MCU that was read holds its coefficients
\* to the accuracy of the scan, an MCU yet to be read to that of the scan
\* before, however often the reader had to give up and try again.
Accurate ==
  phase = "read" \/ phase = "done" =>
    \A i \in Mcus : \A b \in DOMAIN Membership : \A k \in 0..(DctSize2 - 1) :
      LET s == script[scan]
          x == picture[i][b][k]
          c == Membership[b]
          inScan == b \in ToSet(s.blks) /\ k \in s.ss..s.se
          before == IF Refinement(s) THEN s.ah ELSE -1
      IN  (k < limit[c] \/ Progressive) =>
            IF i < mcu \/ ~inScan THEN coefs[i][b][k] = Known(x, k, accuracy[c][k])
            ELSE i > mcu => coefs[i][b][k] = Known(x, k, before)

\* Coefficients the inverse DCT will not look at are absent or true, never
\* something else.
SkippedOrTrue ==
  ~Progressive => \A i \in 1..(mcu - 1) : phase = "read" =>
    \A b \in DOMAIN Membership : \A k \in 0..(DctSize2 - 1) :
      coefs[i][b][k] \in {0, picture[i][b][k]}

\* All of these: the scans come back, to the accuracy they were written with.
ScansRight ==
  TypeOK /\ CorrectionBitsFit /\ CountsAgree /\ Synchronised /\ Accurate /\ SkippedOrTrue
=============================================================================
