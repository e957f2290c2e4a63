------------------------------ MODULE ArithScan ------------------------------
(***************************************************************************)
(* The scans of an arithmetic-coded picture: jcarith.c takes the             *)
(* coefficients of each MCU apart into yes/no decisions, each under a         *)
(* statistics bin that depends on what was decided before, and jdarith.c      *)
(* asks for them again.  Nothing in the file says which decision is which, so *)
(* both sides must walk through the very same bins.  A segment ends at a       *)
(* restart marker, where statistics and predictions start afresh.  Damaged     *)
(* data yield decisions like any other: the decoder notices only a block or a  *)
(* number that grows too long, and then does nothing until the next restart.   *)
(*                                                                            *)
(* How decisions become bytes is in ArithCoder.  The sizes are the real ones: *)
(* 64 coefficients, numbers of up to 15 bits, bins as in tables F.4 and F.5.   *)
(***************************************************************************)
EXTENDS Integers, Sequences, SequencesExt

CONSTANTS Images,   \* what is coded: the values of cinfo
          DcLower, DcUpper, AcK, Faults

ConditioningAssumption == DcLower \in 0..15 /\ DcUpper \in DcLower..15 /\ AcK \in 1..63

VARIABLES cinfo,             \* [progressive, membership, tables, script, interval, mcus]
          fault,             \* [scan, segment, from, val]: what damaged data say from there on;
                             \* of scan 0 as long as none are damaged
          scan, phase, mcu, enc, dec, coefs
vars == << cinfo, fault, scan, phase, mcu, enc, dec, coefs >>

Progressive == cinfo.progressive
Membership == cinfo.membership     \* the component of each block of an MCU
TableOf == cinfo.tables            \* the statistics each component uses
script == cinfo.script
interval == cinfo.interval
picture == cinfo.mcus              \* the blocks of every MCU

Components == { Membership[b] : b \in DOMAIN Membership }
Mcus == 1..Len(picture)
SegmentOf(i) == IF interval = 0 THEN 1 ELSE ((i - 1) \div interval) + 1

Magnitude(x) == IF x < 0 THEN -x ELSE x
Size(x) == CHOOSE n \in 0..16 : x < 2^n /\ (n = 0 \/ x >= 2^(n-1))
Scaled(x, al) == IF x < 0 THEN -((-x) \div 2^al) ELSE x \div 2^al
Bit(x, al) == (x \div 2^al) % 2

\* Bins: of DC and AC, per table; and the one with a fixed probability.
DcStats(c) == << "dc", TableOf[c] >>
AcStats(c) == << "ac", TableOf[c] >>
Dc(c, n) == Append(DcStats(c), n)
Ac(c, n) == Append(AcStats(c), n)
FixedBin == << "fixed", 0, 0 >>
Decision(bin, val) == << [bin |-> bin, val |-> val] >>
Times(n, Op(_)) == FlattenSeq([i \in 1..n |-> Op(i - 1)])

-----------------------------------------------------------------------------
(* The writer.  Each part is the sequence of decisions it makes.            *)

\* Below n bits: one decision for each further bit, and one that says no more;
\* then the bits below the first, all in the bin 14 above the last of these.
Category(stats, first, w, n) ==
  Times(n, LAMBDA i : Decision(Append(stats, first + i), 1)) \o Decision(Append(stats, first + n), 0)
Pattern(stats, last, w) ==
  Times(Size(w) - 1, LAMBDA i : Decision(Append(stats, last + 14), Bit(w, Size(w) - 2 - i)))

DcMagnitude(c, st, w) ==
  LET n == Size(w)
  IN  IF n = 0 THEN Decision(Dc(c, st), 0)
      ELSE Decision(Dc(c, st), 1)
           \o Category(DcStats(c), 20, w, n - 1) \o Pattern(DcStats(c), 20 + n - 1, w)

AcMagnitude(c, st, w, k) ==
  LET n == Size(w)
      x == IF k <= AcK THEN 189 ELSE 217
  IN  IF n = 0 THEN Decision(Ac(c, st), 0)
      ELSE IF n = 1 THEN Decision(Ac(c, st), 1) \o Decision(Ac(c, st), 0)
      ELSE Decision(Ac(c, st), 1) \o Decision(Ac(c, st), 1)
           \o Category(AcStats(c), x, w, n - 2) \o Pattern(AcStats(c), x + n - 2, w)

\* Faulty form of Context, for the checks: the larger numbers are those of the
\* lower bound on.
ContextLoose(negative, w) ==
  LET m == IF w = 0 THEN 0 ELSE 2^(Size(w) - 1)
  IN  IF m < 2^DcLower \div 2 THEN 0
      ELSE (IF negative THEN 8 ELSE 4) + (IF m >= 2^DcUpper \div 2 THEN 8 ELSE 0)

\* The bins of the next DC difference, after one of magnitude w + 1.
Context(negative, w) ==
  LET m == IF w = 0 THEN 0 ELSE 2^(Size(w) - 1)
  IN  IF m < 2^DcLower \div 2 THEN 0
      ELSE (IF negative THEN 8 ELSE 4) + (IF m > 2^DcUpper \div 2 THEN 8 ELSE 0)

Emit(e, decisions) == [e EXCEPT !.out[Len(e.out)] = @ \o decisions]

EmitDc(e, c, x) ==
  LET diff == x - e.last[c]
      w == Magnitude(diff) - 1
      st == e.ctx[c]
      sign == IF diff < 0 THEN 1 ELSE 0
  IN  IF diff = 0 THEN [Emit(e, Decision(Dc(c, st), 0)) EXCEPT !.ctx[c] = 0]
      ELSE [Emit(e, Decision(Dc(c, st), 1) \o Decision(Dc(c, st + 1), sign)
                    \o DcMagnitude(c, st + 2 + sign, w))
            EXCEPT !.last[c] = x, !.ctx[c] = Context(diff < 0, w)]

\* The decision that the block ends is made at the start of the band and after
\* each nonzero coefficient.
AcDecisions(c, block, s) ==
  LET x(k) == Scaled(block[k], s.al)
      ke == Max({0} \cup {k \in 1..s.se : x(k) # 0})
      next == Max({ke + 1, s.ss})
      coef(k) ==
        (IF k = s.ss \/ x(k - 1) # 0 THEN Decision(Ac(c, 3 * (k - 1)), 0) ELSE << >>)
        \o IF x(k) = 0 THEN Decision(Ac(c, 3 * (k - 1) + 1), 0)
           ELSE Decision(Ac(c, 3 * (k - 1) + 1), 1)
                \o Decision(FixedBin, IF x(k) < 0 THEN 1 ELSE 0)
                \o AcMagnitude(c, 3 * (k - 1) + 2, Magnitude(x(k)) - 1, k)
  IN  FlattenSeq([i \in 1..(next - s.ss) |-> coef(s.ss + i - 1)])
      \o IF next <= s.se THEN Decision(Ac(c, 3 * (next - 1)), 1) ELSE << >>

\* In a refinement it is made only past the last coefficient known before (kex).
RefineDecisions(c, block, s) ==
  LET v(k) == Magnitude(block[k]) \div 2^s.al
      ke == Max({0} \cup {k \in 1..s.se : v(k) # 0})
      kex == Max({0} \cup {k \in 1..ke : Magnitude(block[k]) \div 2^s.ah # 0})
      next == Max({ke + 1, s.ss})
      coef(k) ==
        (IF (k = s.ss \/ v(k - 1) # 0) /\ k > kex
         THEN Decision(Ac(c, 3 * (k - 1)), 0) ELSE << >>)
        \o IF v(k) = 0 THEN Decision(Ac(c, 3 * (k - 1) + 1), 0)
           ELSE IF v(k) > 1 THEN Decision(Ac(c, 3 * (k - 1) + 2), v(k) % 2)
           ELSE Decision(Ac(c, 3 * (k - 1) + 1), 1)
                \o Decision(FixedBin, IF block[k] < 0 THEN 1 ELSE 0)
  IN  FlattenSeq([i \in 1..(next - s.ss) |-> coef(s.ss + i - 1)])
      \o IF next <= s.se THEN Decision(Ac(c, 3 * (next - 1)), 1) ELSE << >>

EncodeDcFirst(e, blocks, s) ==
  FoldLeft(LAMBDA acc, b : EmitDc(acc, Membership[b], blocks[b][0] \div 2^s.al), e, s.blks)
EncodeDcRefine(e, blocks, s) ==
  FoldLeft(LAMBDA acc, b : Emit(acc, Decision(FixedBin, Bit(blocks[b][0], s.al))), e, s.blks)
EncodeAcFirst(e, blocks, s) ==
  LET b == s.blks[1] IN Emit(e, AcDecisions(Membership[b], blocks[b], s))
EncodeAcRefine(e, blocks, s) ==
  LET b == s.blks[1] IN Emit(e, RefineDecisions(Membership[b], blocks[b], s))
EncodeMcu(e, blocks, s) ==
  FoldLeft(LAMBDA acc, b : LET dc == EmitDc(acc, Membership[b], blocks[b][0])
                           IN  IF s.se = 0 THEN dc
                               ELSE Emit(dc, AcDecisions(Membership[b], blocks[b], [s EXCEPT !.ss = 1])),
           e, s.blks)

Encode(e, blocks, s) ==
  CASE ~Progressive                         -> EncodeMcu(e, blocks, s)
    [] Progressive /\ s.ss = 0 /\ s.ah = 0  -> EncodeDcFirst(e, blocks, s)
    [] Progressive /\ s.ss = 0 /\ s.ah # 0  -> EncodeDcRefine(e, blocks, s)
    [] Progressive /\ s.ss # 0 /\ s.ah = 0  -> EncodeAcFirst(e, blocks, s)
    [] OTHER                                -> EncodeAcRefine(e, blocks, s)

None == [c \in Components |-> 0]
StartPass == [out |-> << << >> >>, last |-> None, ctx |-> None, togo |-> interval]
\* A restart: the segment ends, and with it the predictions.
EmitRestart(e) == [out |-> Append(e.out, << >>), last |-> None, ctx |-> None, togo |-> interval]
Restarted(e) == IF interval > 0 /\ e.togo = 0 THEN EmitRestart(e) ELSE e
Accounted(e) == IF interval > 0 THEN [e EXCEPT !.togo = @ - 1] ELSE e

WriteMcu ==
  /\ phase = "write" /\ mcu \in Mcus
  /\ enc' = Accounted(Encode(Restarted(enc), picture[mcu], script[scan]))
  /\ mcu' = mcu + 1
  /\ UNCHANGED << cinfo, fault, scan, phase, dec, coefs >>

-----------------------------------------------------------------------------
(* The reader: a decoder takes and returns what it has got, with the bit it *)
(* took last; strayed says that it used another bin than the writer.        *)

Segment(d) == enc.out[d.segment]
Damaged(d, p) ==
  fault.scan = scan /\ fault.segment = d.segment /\ p >= fault.from

Take(d, bin) ==
  LET written == d.pos <= Len(Segment(d))
  IN  [d EXCEPT !.pos = @ + 1,
                !.bit = IF Damaged(d, d.pos) THEN fault.val
                        ELSE IF written THEN Segment(d)[d.pos].val ELSE 0,
                !.strayed = @ \/ (~Damaged(d, d.pos) /\ ~(written /\ Segment(d)[d.pos].bin = bin)),
                !.bins = @ \cup {bin}]
Error(d) == [d EXCEPT !.error = TRUE]

\* As long as the bit is 1 the number has one bit more, at the next bin.
RECURSIVE MoreBits(_, _, _, _)
MoreBits(d, stats, st, m) ==
  LET t == Take(d, Append(stats, st))
  IN  IF t.bit = 0 THEN [t EXCEPT !.st = st, !.m = m]
      ELSE IF 2 * m = 2^15 THEN Error(t) ELSE MoreBits(t, stats, st + 1, 2 * m)

\* The bits below the first, at the bin 14 above; leaves the magnitude in m.
RECURSIVE LowBits(_, _, _, _)
LowBits(d, bin, m, v) ==
  IF m <= 1 THEN [d EXCEPT !.m = v + 1]
  ELSE LET t == Take(d, bin) IN LowBits(t, bin, m \div 2, v + t.bit * (m \div 2))

\* Each decision is handed to the operator that goes on from it.
DcDifference(d, c, st) ==
  LET Rest(more) ==
        IF more.error THEN more
        ELSE [LowBits(more, Dc(c, more.st + 14), more.m, more.m) EXCEPT !.category = more.m]
      Magnitudes(first) ==
        IF first.bit = 0 THEN [first EXCEPT !.st = st, !.m = 0]
        ELSE MoreBits(first, DcStats(c), 20, 1)
  IN  Rest(Magnitudes(Take(d, Dc(c, st))))

DecodeDc(d, b, al) ==
  LET c == Membership[b]
      st == d.ctx[c]
      NextContext(category, sign) ==
        IF category < 2^DcLower \div 2 THEN 0
        ELSE IF category > 2^DcUpper \div 2 THEN 12 + 4 * sign ELSE 4 + 4 * sign
      Stored(got, sign, x) ==
        IF got.error THEN got
        ELSE [got EXCEPT !.ctx[c] = NextContext(got.category, sign), !.last[c] = x, !.mcu[b][0] = x * 2^al]
      Difference(got, sign) == Stored(got, sign, d.last[c] + (IF sign = 1 THEN -got.m ELSE got.m))
      Signed(signed) == Difference(DcDifference(signed, c, st + 2 + signed.bit), signed.bit)
      Nonzero(zero) ==
        IF zero.bit = 0 THEN [zero EXCEPT !.ctx[c] = 0, !.mcu[b][0] = d.last[c] * 2^al]
        ELSE Signed(Take(zero, Dc(c, st + 1)))
  IN  IF d.error THEN d ELSE Nonzero(Take(d, Dc(c, st)))

\* A nonzero AC coefficient at k, its sign known to be next.
AcValue(d, b, k, al) ==
  LET c == Membership[b]
      st == 3 * (k - 1) + 2
      Stored(got, sign) == [got EXCEPT !.mcu[b][k] = (IF sign = 1 THEN -got.m ELSE got.m) * 2^al]
      Rest(more, sign) ==
        IF more.error THEN more
        ELSE Stored(LowBits(more, Ac(c, more.st + 14), more.m, more.m), sign)
      Second(two) ==
        IF two.bit = 0 THEN [two EXCEPT !.st = st, !.m = 1]
        ELSE MoreBits(two, AcStats(c), IF k <= AcK THEN 189 ELSE 217, 2)
      First(one) ==
        IF one.bit = 0 THEN [one EXCEPT !.st = st, !.m = 0] ELSE Second(Take(one, Ac(c, st)))
      Signed(signed) == Rest(First(Take(signed, Ac(c, st))), signed.bit)
  IN  Signed(Take(d, FixedBin))

\* Over zeros to the next coefficient; past the band it is an error.
RECURSIVE Zeros(_, _, _, _)
Zeros(d, b, k, s) ==
  LET t == Take(d, Ac(Membership[b], 3 * (k - 1) + 1))
  IN  IF t.bit = 1 THEN [t EXCEPT !.k = k]
      ELSE IF k + 1 > s.se THEN Error(t) ELSE Zeros(t, b, k + 1, s)

RECURSIVE AcBand(_, _, _, _)
AcBand(d, b, k, s) ==
  LET eob == Take(d, Ac(Membership[b], 3 * (k - 1)))
      zeros == Zeros(eob, b, k, s)
      value == AcValue(zeros, b, zeros.k, s.al)
  IN  IF d.error \/ k > s.se THEN d
      ELSE IF eob.bit = 1 THEN eob
      ELSE IF zeros.error THEN zeros
      ELSE AcBand(value, b, zeros.k + 1, s)

\* The refinement of the band: one decision for a coefficient known before, and
\* whether a zero becomes one.
RECURSIVE RefineNext(_, _, _, _)
RefineNext(d, b, k, s) ==
  LET c == Membership[b]
      x == d.mcu[b][k]
      known == Take(d, Ac(c, 3 * (k - 1) + 2))
      new == Take(d, Ac(c, 3 * (k - 1) + 1))
      sign == Take(new, FixedBin)
  IN  IF x # 0
      THEN [known EXCEPT !.k = k, !.mcu[b][k] = IF known.bit = 0 THEN @
                                                ELSE IF @ < 0 THEN @ - 2^s.al ELSE @ + 2^s.al]
      ELSE IF new.bit = 1
      THEN [sign EXCEPT !.k = k, !.mcu[b][k] = IF sign.bit = 1 THEN -(2^s.al) ELSE 2^s.al]
      ELSE IF k + 1 > s.se THEN Error(new) ELSE RefineNext(new, b, k + 1, s)

RECURSIVE RefineBand(_, _, _, _, _)
RefineBand(d, b, k, kex, s) ==
  LET eob == IF k > kex THEN Take(d, Ac(Membership[b], 3 * (k - 1))) ELSE [d EXCEPT !.bit = 0]
      next == RefineNext(eob, b, k, s)
  IN  IF d.error \/ k > s.se THEN d
      ELSE IF eob.bit = 1 THEN eob
      ELSE IF next.error THEN next
      ELSE RefineBand(next, b, next.k + 1, kex, s)

DecodeDcFirst(d, s) == FoldLeft(LAMBDA acc, b : DecodeDc(acc, b, s.al), d, s.blks)
DecodeDcRefine(d, s) ==
  LET Step(acc, b) ==
        LET t == Take(acc, FixedBin)
        IN  [t EXCEPT !.mcu[b][0] = IF t.bit = 1 /\ Bit(@, s.al) = 0 THEN @ + 2^s.al ELSE @]
  IN  FoldLeft(Step, d, s.blks)
DecodeAcFirst(d, s) == AcBand(d, s.blks[1], s.ss, s)
DecodeAcRefine(d, s) ==
  LET b == s.blks[1]
  IN  RefineBand(d, b, s.ss, Max({0} \cup {k \in 1..s.se : d.mcu[b][k] # 0}), s)
DecodeMcu(d, s) ==
  FoldLeft(LAMBDA acc, b : LET dc == DecodeDc(acc, b, 0)
                           IN  IF dc.error THEN dc ELSE AcBand(dc, b, 1, s), d, s.blks)

Decode(d, s) ==
  CASE ~Progressive                         -> DecodeMcu(d, s)
    [] Progressive /\ s.ss = 0 /\ s.ah = 0  -> DecodeDcFirst(d, s)
    [] Progressive /\ s.ss = 0 /\ s.ah # 0  -> DecodeDcRefine(d, s)
    [] Progressive /\ s.ss # 0 /\ s.ah = 0  -> DecodeAcFirst(d, s)
    [] OTHER                                -> DecodeAcRefine(d, s)

StartRead ==
  [segment |-> 1, pos |-> 1, error |-> FALSE, last |-> None, ctx |-> None, togo |-> interval,
   strayed |-> FALSE, bins |-> {}]

ProcessRestart(d) ==
  [d EXCEPT !.segment = @ + 1, !.pos = 1, !.error = FALSE, !.last = None, !.ctx = None,
            !.togo = interval, !.strayed = FALSE]

EndWrite ==
  /\ phase = "write" /\ mcu \notin Mcus
  /\ phase' = "read" /\ mcu' = 1 /\ dec' = StartRead
  /\ \/ fault' = fault
     \/ fault.scan = 0 /\ fault' \in { f \in Faults : f.scan = scan }
  /\ UNCHANGED << cinfo, scan, enc, coefs >>

ReadMcu ==
  /\ phase = "read" /\ mcu \in Mcus
  /\ LET d == IF interval > 0 /\ dec.togo = 0 THEN ProcessRestart(dec) ELSE dec
         start == [d EXCEPT !.togo = IF interval = 0 THEN 0 ELSE @ - 1]
         work == start @@ [mcu |-> coefs[mcu], bit |-> 0, st |-> 0, m |-> 0, k |-> 0, category |-> 0]
     IN  \E got \in { IF start.error THEN work ELSE Decode(work, script[scan]) } :
           /\ dec' = [f \in DOMAIN start |-> got[f]]
           /\ coefs' = [coefs EXCEPT ![mcu] = got.mcu]
  /\ mcu' = mcu + 1
  /\ UNCHANGED << cinfo, fault, scan, phase, enc >>

EndScan ==
  /\ phase = "read" /\ mcu \notin Mcus
  /\ phase' = IF scan = Len(script) THEN "done" ELSE "write"
  /\ scan' = IF scan = Len(script) THEN scan ELSE scan + 1
  /\ enc' = IF scan = Len(script) THEN enc ELSE StartPass
  /\ mcu' = IF scan = Len(script) THEN mcu ELSE 1
  /\ UNCHANGED << cinfo, fault, dec, coefs >>

Init ==
  /\ cinfo \in Images
  /\ fault = [scan |-> 0, segment |-> 0, from |-> 0, val |-> 0]
  /\ scan = 1 /\ phase = "write" /\ mcu = 1
  /\ enc = StartPass /\ dec = StartRead
  /\ coefs = [i \in DOMAIN picture |-> [b \in DOMAIN picture[i] |-> [k \in 0..63 |-> 0]]]

Next == WriteMcu \/ EndWrite \/ ReadMcu \/ EndScan

Spec == Init /\ [][Next]_vars

-----------------------------------------------------------------------------
(* Properties.                                                             *)

\* MCU i has met the damage: it is in that segment, in that scan or a later one.
Touched(i, upTo) == fault.scan <= upTo /\ fault.segment = SegmentOf(i)

\* Decoder and coder walk through the same bins and the same number of decisions.
InStep ==
  phase = "read" /\ mcu > 1 =>
    LET ended == mcu \notin Mcus \/ SegmentOf(mcu) # SegmentOf(mcu - 1)
    IN  ~Touched(mcu - 1, scan) =>
          ~dec.strayed /\ ~dec.error /\ (ended => dec.pos = Len(Segment(dec)) + 1)

Known(x, k, al) ==
  IF al < 0 THEN 0 ELSE IF k = 0 THEN (x \div 2^al) * 2^al ELSE Scaled(x, al) * 2^al
Accuracy(b, k, upTo) ==
  LET sent == {n \in 1..upTo : b \in ToSet(script[n].blks) /\ k \in script[n].ss..script[n].se}
  IN  IF sent = {} THEN -1 ELSE script[Max(sent)].al

\* Every MCU that no damage has met holds its coefficients to the accuracy of the
\* last scan it was read in.
Accurate ==
  phase \in {"read", "done"} =>
    \A i \in Mcus : \A b \in DOMAIN Membership :
     \A k \in { k \in 0..63 : picture[i][b][k] # 0 \/ coefs[i][b][k] # 0 } :
      LET upTo == IF phase = "done" \/ i < mcu THEN scan ELSE scan - 1
      IN  ~Touched(i, upTo) => coefs[i][b][k] = Known(picture[i][b][k], k, Accuracy(b, k, upTo))

\* Whatever the data say, the decoder stays in its 49 bins for DC and 245 for AC,
\* and reads and writes nothing past the band of the scan.
Inside ==
  phase = "read" =>
    /\ \A bin \in dec.bins : bin[1] = "dc" => bin[3] \in 0..48
    /\ \A bin \in dec.bins : bin[1] = "ac" =>
         bin[3] \in 0..(3 * script[scan].se - 1) \cup 189..244
    /\ \A i \in Mcus : \A b \in DOMAIN Membership : \A k \in 0..63 :
         coefs[i][b][k] # 0 => \E n \in 1..scan : k \in script[n].ss..script[n].se

\* All of these: the scans come back, but for what damage has met.
ScansRight == InStep /\ Accurate /\ Inside
=============================================================================
