----------------------------- MODULE ArithCoder -----------------------------
(***************************************************************************)
(* The binary arithmetic coder of jcarith.c and its decoder in jdarith.c.    *)
(* The coder narrows an interval at each decision; a carry may still run     *)
(* through bytes it has produced, so it holds the last byte back, counts     *)
(* bytes of all ones behind it (sc) and counts zero bytes (zc) that are       *)
(* dropped if nothing follows them.  The decoder reads zeros once it is at a  *)
(* marker.                                                                   *)
(*                                                                           *)
(* The interval register has FracBits bits (16) below SpacerBits (3) that     *)
(* absorb carries, a byte has ByteBits (8).  Table is jpeg_aritab: states     *)
(* [qe, lps, mps, switch]; state 1 is where a context starts, and the state   *)
(* Fixed leads back to itself.                                                *)
(***************************************************************************)
EXTENDS Integers, Sequences, SequencesExt

CONSTANTS FracBits, SpacerBits, ByteBits, Table, Fixed, Contexts, MaxDecisions

WidthsAssumption ==
  /\ SpacerBits \in 1..ByteBits /\ FracBits = 2 * ByteBits
  /\ Fixed \in DOMAIN Table /\ Table[Fixed].lps = Fixed /\ Table[Fixed].mps = Fixed
  /\ \A i \in DOMAIN Table : 0 < Table[i].qe /\ Table[i].qe < 2^(FracBits - 1)

VARIABLES said,          \* the decisions coded so far: [ctx, val]
          enc, closed,
          dec, heard     \* the decisions decoded
vars == << said, enc, closed, dec, heard >>

Whole == 2^FracBits
Half == 2^(FracBits - 1)
FF == 2^ByteBits - 1
Marker == -1                       \* the code of the marker after its first byte
Statistics == [x \in Contexts |-> [i |-> IF x = "fixed" THEN Fixed ELSE 1, mps |-> 0]]

\* What a decision does to the statistics of its context.
AfterMps(st) == [st EXCEPT !.i = Table[st.i].mps]
AfterLps(st) ==
  [i |-> Table[st.i].lps, mps |-> IF Table[st.i].switch THEN 1 - st.mps ELSE st.mps]

-----------------------------------------------------------------------------
(* The coder.                                                              *)

Copies(n, b) == [i \in 1..n |-> b]
Stuffed(b) == IF b = FF THEN << FF, 0 >> ELSE << b >>
Put(e, b) == [e EXCEPT !.out = @ \o Copies(e.zc, 0) \o Stuffed(b), !.zc = 0]

\* A carry: into the byte held back; the bytes of ones behind it become zeros.
Carry(e) ==
  LET put == IF e.buffer >= 0 THEN Put(e, e.buffer + 1) ELSE e
  IN  [put EXCEPT !.zc = @ + e.sc, !.sc = 0]

\* No carry can come any more.
Settle(e) ==
  LET held == IF e.buffer = 0 THEN [e EXCEPT !.zc = @ + 1]
              ELSE IF e.buffer > 0 THEN Put(e, e.buffer) ELSE e
  IN  IF e.sc = 0 THEN held
      ELSE [held EXCEPT !.out = @ \o Copies(held.zc, 0) \o FlattenSeq(Copies(e.sc, << FF, 0 >>)),
                        !.zc = 0, !.sc = 0]

\* The next byte is at the top of the register.
ByteOut(e) ==
  LET top == e.c \div 2^(FracBits + SpacerBits)
      put == IF top > FF THEN [Carry(e) EXCEPT !.buffer = top % (FF + 1)]
             ELSE IF top = FF THEN [e EXCEPT !.sc = @ + 1]
             ELSE [Settle(e) EXCEPT !.buffer = top]
  IN  [put EXCEPT !.c = @ % 2^(FracBits + SpacerBits), !.ct = @ + ByteBits]

RECURSIVE RenormEncoder(_)
RenormEncoder(e) ==
  LET shifted == [e EXCEPT !.a = 2 * @, !.c = 2 * @, !.ct = @ - 1]
      next == IF shifted.ct = 0 THEN ByteOut(shifted) ELSE shifted
  IN  IF next.a < Half THEN RenormEncoder(next) ELSE next

\* The larger part of the interval goes to the more probable value, whichever
\* that part is; where that exchanges them, the part at the top is the likely one.
ArithEncode(e, ctx, val) ==
  LET st == e.st[ctx]
      qe == Table[st.i].qe
      rest == e.a - qe
      top == [e EXCEPT !.c = @ + rest, !.a = qe]
      bottom == [e EXCEPT !.a = rest]
  IN  IF val # st.mps
      THEN RenormEncoder([IF rest >= qe THEN top ELSE bottom EXCEPT !.st[ctx] = AfterLps(st)])
      ELSE IF rest >= Half THEN bottom
      ELSE RenormEncoder([IF rest < qe THEN top ELSE bottom EXCEPT !.st[ctx] = AfterMps(st)])

\* The end: the number in the interval with the most zeros at its end, then what
\* of it is not zero.
FinishPass(e) ==
  LET low == ((e.a - 1 + e.c) \div Whole) * Whole
      c == (IF low < e.c THEN low + Half ELSE low) * 2^e.ct
      over == c >= 2^(FracBits + SpacerBits + ByteBits)
      sent == IF over THEN Carry(e) ELSE Settle(e)
      first == (c \div 2^(FracBits + SpacerBits)) % (FF + 1)
      second == (c \div 2^(FracBits + SpacerBits - ByteBits)) % (FF + 1)
  IN  IF first = 0 /\ second = 0 THEN sent
      ELSE IF second = 0 THEN Put(sent, first) ELSE Put(Put(sent, first), second)

Code(ctx, val) ==
  /\ ~closed /\ Len(said) < MaxDecisions
  /\ enc' = ArithEncode(enc, ctx, val)
  /\ said' = Append(said, [ctx |-> ctx, val |-> val])
  /\ UNCHANGED << closed, dec, heard >>

Close ==
  /\ ~closed /\ closed' = TRUE
  /\ enc' = FinishPass(enc)
  /\ UNCHANGED << said, dec, heard >>

-----------------------------------------------------------------------------
(* The decoder.                                                            *)

File == enc.out \o << FF, Marker >>

\* The next byte: stuffing is taken out; at the marker, and after it, zero.
Fetch(d) ==
  IF d.atMarker THEN [d EXCEPT !.data = 0]
  ELSE IF File[d.pos] # FF THEN [d EXCEPT !.data = File[d.pos], !.pos = @ + 1]
  ELSE IF File[d.pos + 1] = 0 THEN [d EXCEPT !.data = FF, !.pos = @ + 2]
  ELSE [d EXCEPT !.data = 0, !.pos = @ + 2, !.atMarker = TRUE]

\* Before each decision; the count is negative until the first two bytes are in.
RECURSIVE RenormDecoder(_)
RenormDecoder(d) ==
  LET read == LET f == Fetch(d) IN [f EXCEPT !.c = @ * (FF + 1) + f.data]
      count == d.ct - 1 + ByteBits
      filled == IF d.ct > 0 THEN [d EXCEPT !.ct = @ - 1, !.a = 2 * @]
                ELSE IF count >= 0 THEN [read EXCEPT !.ct = count, !.a = 2 * @]
                ELSE [read EXCEPT !.ct = count + 1,
                                  !.a = IF count + 1 = 0 THEN Whole ELSE 2 * @]
  IN  IF d.a >= Half THEN d ELSE RenormDecoder(filled)

ArithDecode(d0, ctx) ==
  LET d == RenormDecoder(d0)
      st == d.st[ctx]
      qe == Table[st.i].qe
      rest == d.a - qe
      cut == rest * 2^d.ct
      likely(x) == [x EXCEPT !.val = st.mps, !.st[ctx] = AfterMps(st)]
      unlikely(x) == [x EXCEPT !.val = 1 - st.mps, !.st[ctx] = AfterLps(st)]
      top == [d EXCEPT !.c = @ - cut, !.a = qe]
      bottom == [d EXCEPT !.a = rest]
  IN  IF d.c >= cut THEN (IF rest < qe THEN likely(top) ELSE unlikely(top))
      ELSE IF rest >= Half THEN [bottom EXCEPT !.val = st.mps]
      ELSE IF rest < qe THEN unlikely(bottom) ELSE likely(bottom)

Decode ==
  /\ closed /\ Len(heard) < Len(said)
  /\ LET ctx == said[Len(heard) + 1].ctx
         d == ArithDecode(dec, ctx)
     IN  dec' = d /\ heard' = Append(heard, [ctx |-> ctx, val |-> d.val])
  /\ UNCHANGED << said, enc, closed >>

Init ==
  /\ said = << >> /\ closed = FALSE /\ heard = << >>
  /\ enc = [c |-> 0, a |-> Whole, sc |-> 0, zc |-> 0, ct |-> ByteBits + SpacerBits,
            buffer |-> -1, st |-> Statistics, out |-> << >>]
  /\ dec = [c |-> 0, a |-> 0, ct |-> -FracBits, st |-> Statistics, pos |-> 1,
            atMarker |-> FALSE, data |-> 0, val |-> 0]

Next == (\E ctx \in Contexts, val \in {0, 1} : Code(ctx, val)) \/ Close \/ Decode

Spec == Init /\ [][Next]_vars

-----------------------------------------------------------------------------
(* Properties.                                                             *)

\* Type invariant: the interval stays normalised, and the byte held back leaves
\* room for a carry.
TypeOK ==
  /\ enc.a \in Half..Whole /\ enc.ct \in 1..(ByteBits + SpacerBits)
  /\ enc.buffer \in -1..(FF - 1) /\ enc.sc \in Nat /\ enc.zc \in Nat
  /\ \A i \in DOMAIN enc.out : enc.out[i] \in 0..FF
  /\ dec.a \in 0..Whole /\ dec.ct \in -FracBits..(ByteBits - 1)

\* The decoder takes every decision as the coder did.
SameDecisions == \A i \in DOMAIN heard : heard[i] = said[i]

\* The two sides have learnt the same statistics when all is decoded.
SameStatistics == closed /\ Len(heard) = Len(said) => dec.st = enc.st

\* No byte of all ones is followed by anything but a stuffed zero, or the marker.
NoMarkerInside ==
  closed => \A i \in DOMAIN enc.out : enc.out[i] = FF => i < Len(enc.out) /\ enc.out[i + 1] = 0

\* "We always produce the shortest possible output": no zero byte ends the
\* segment unless it is stuffing.
NoZeroAtEnd ==
  closed /\ enc.out # << >> =>
    Last(enc.out) # 0 \/ (Len(enc.out) > 1 /\ enc.out[Len(enc.out) - 1] = FF)

\* Once every decision is taken the decoder has read all of the segment's bytes:
\* the search for the next marker finds nothing to skip and to complain about.
NothingToSkip == closed /\ said # << >> /\ Len(heard) = Len(said) => dec.pos > Len(enc.out)

\* All of these: the decisions come back, from the shortest of segments.
DecisionsRight ==
  /\ TypeOK /\ SameDecisions /\ SameStatistics
  /\ NoMarkerInside /\ NoZeroAtEnd /\ NothingToSkip
=============================================================================
