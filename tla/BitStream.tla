------------------------------ MODULE BitStream ------------------------------
(***************************************************************************)
(* The bits of a Huffman-coded segment on their way through bytes: emit_bits *)
(* and flush_bits of jchuff.c on one side, jpeg_fill_bit_buffer of jdhuff.c *)
(* on the other.  A byte of all ones is followed by a stuffed zero, so that *)
(* it is no marker; the reader fills its buffer ahead of what it needs and  *)
(* stops at a marker.  Either side may have to stop in the middle of an MCU *)
(* (the output buffer is full; no more input yet) and then starts the MCU   *)
(* again from the state saved before it.                                    *)
(*                                                                          *)
(* An MCU is a sequence of fields [val, n], n bits each.  Bytes are ByteBits *)
(* wide (8), the output buffer holds Room bytes.                             *)
(***************************************************************************)
EXTENDS Integers, Sequences, SequencesExt

CONSTANTS ByteBits, MinGetBits, Room, Mcus, Cuts

WidthsAssumption ==
  /\ ByteBits \in Nat \ {0, 1} /\ MinGetBits \in Nat /\ MinGetBits >= ByteBits
  /\ Room \in Nat \ {0}

VARIABLES mcus,      \* what is to be written
          cut,       \* the file loses what follows this byte (a number too large: nothing)
          wnext, put, buffer, file, closed, lost,        \* the writer; whether the cut lost bytes
          arrived, rpos, bits, marker, insufficient, warned, got      \* the reader
vars == << mcus, cut, wnext, put, buffer, file, closed, lost,
           arrived, rpos, bits, marker, insufficient, warned, got >>

FF == 2^ByteBits - 1
Marker == -1                          \* the code after FF of the marker that ends the segment
Ones(n) == [i \in 1..n |-> 1]
BitsOf(x, n) == [i \in 1..n |-> (x \div 2^(n-i)) % 2]
Number(s) == FoldLeft(LAMBDA acc, b : 2 * acc + b, 0, s)

-----------------------------------------------------------------------------
(* The writer.                                                             *)

\* The loop of emit_bits over the bits s: whole bytes leave, each one of all
\* ones followed by a zero; fewer bits than a byte stay.
Emit(s) ==
  LET n == Len(s) \div ByteBits
      byte(i) == Number(SubSeq(s, (i - 1) * ByteBits + 1, i * ByteBits))
  IN  [bytes |-> FlattenSeq([i \in 1..n |-> IF byte(i) = FF THEN << FF, 0 >> ELSE << byte(i) >>]),
       rest |-> SubSeq(s, n * ByteBits + 1, Len(s))]

McuBits(m) == FlattenSeq([i \in DOMAIN m |-> BitsOf(m[i].val, m[i].n)])

\* One MCU.  The buffer is full as soon as its last byte is used; then nothing
\* of the MCU counts, the caller empties the buffer and calls again.
WriteMcu ==
  /\ wnext <= Len(mcus)
  /\ LET e == Emit(put \o McuBits(mcus[wnext]))
     IN  IF Len(buffer) + Len(e.bytes) >= Room
         THEN /\ file' = file \o buffer
              /\ buffer' = << >>
              /\ UNCHANGED << wnext, put >>
         ELSE /\ buffer' = buffer \o e.bytes
              /\ put' = e.rest
              /\ wnext' = wnext + 1
              /\ UNCHANGED file
  /\ UNCHANGED << mcus, cut, closed, lost, arrived, rpos, bits, marker, insufficient, warned, got >>

\* finish_pass_huff: flush_bits fills the last byte with ones; the marker
\* follows.  The part of the file past the cut is lost on the way.
CloseSegment ==
  /\ wnext > Len(mcus)
  /\ ~closed
  /\ LET e == Emit(put \o Ones(ByteBits - 1))
         whole == file \o buffer \o e.bytes
     IN  /\ lost' = (cut < Len(whole))
         /\ file' = (IF cut < Len(whole) THEN SubSeq(whole, 1, cut) ELSE whole) \o << FF, Marker >>
  /\ closed' = TRUE
  /\ put' = << >>
  /\ buffer' = << >>
  /\ UNCHANGED << mcus, cut, wnext, arrived, rpos, bits, marker, insufficient, warned, got >>

-----------------------------------------------------------------------------
(* The reader.                                                             *)

\* More of the file reaches the source manager.
Arrive ==
  /\ closed
  /\ \E n \in arrived+1..Len(file) : arrived' = n
  /\ UNCHANGED << mcus, cut, wnext, put, buffer, file, closed, lost, rpos, bits, marker,
                  insufficient, warned, got >>

\* jpeg_fill_bit_buffer from the state r = [pos, bits, marker, warn], for at
\* least n bits, of the bytes there are: it fails where it runs out of bytes.
\* The loop reads byte after byte until the buffer is deep enough.
FillOnce(r) ==
  LET p == r.pos
      nonff == { q \in p..arrived : file[q] # FF }
      q == CHOOSE x \in nonff : \A y \in nonff : x <= y
  IN  IF p > arrived \/ nonff = {} THEN [r EXCEPT !.ok = FALSE]
      ELSE IF q = p THEN [r EXCEPT !.pos = p + 1, !.bits = @ \o BitsOf(file[p], ByteBits)]
      ELSE IF file[q] = 0 THEN [r EXCEPT !.pos = q + 1, !.bits = @ \o Ones(ByteBits)]
      ELSE [r EXCEPT !.pos = q + 1, !.marker = file[q]]

Loaded(r) ==
  LET step[k \in 0..MinGetBits] ==
        IF k = 0 THEN r
        ELSE LET s == step[k-1]
             IN  IF s.ok /\ s.marker = 0 /\ Len(s.bits) < MinGetBits THEN FillOnce(s) ELSE s
  IN  step[MinGetBits]

Zeros(n) == [i \in 1..n |-> 0]

Fill(r, n) ==
  LET s == Loaded(r)
  IN  IF ~s.ok \/ s.marker = 0 \/ n <= Len(s.bits) THEN s
      ELSE [s EXCEPT !.bits = @ \o Zeros(MinGetBits - Len(@)), !.warn = TRUE]

\* CHECK_BIT_BUFFER and GET_BITS for one field after another; `vals' is what
\* was read.
GetField(r, n) ==
  LET s == IF Len(r.bits) < n THEN Fill(r, n) ELSE r
  IN  IF ~s.ok THEN s
      ELSE [s EXCEPT !.bits = SubSeq(@, n + 1, Len(@)),
                     !.vals = Append(@, Number(SubSeq(s.bits, 1, n)))]

GetMcu(r, m) ==
  LET step[k \in 0..Len(m)] ==
        IF k = 0 THEN r ELSE IF step[k-1].ok THEN GetField(step[k-1], m[k].n) ELSE step[k-1]
  IN  step[Len(m)]

Start == [pos |-> rpos, bits |-> bits, marker |-> marker, warn |-> FALSE, ok |-> TRUE, vals |-> << >>]

\* decode_mcu: the working state is kept only when the MCU is complete; the
\* marker and the flag for missing data are not in it and stay.
ReadMcu ==
  /\ Len(got) < Len(mcus)
  /\ IF insufficient
     THEN /\ got' = Append(got, << >>)          \* left as it was: zeros
          /\ UNCHANGED << rpos, bits, marker, insufficient, warned >>
     ELSE LET r == GetMcu(Start, mcus[Len(got) + 1])
          IN  /\ marker' = r.marker
              /\ insufficient' = r.warn
              /\ warned' = warned + (IF r.warn THEN 1 ELSE 0)
              /\ IF r.ok THEN /\ rpos' = r.pos
                              /\ bits' = r.bits
                              /\ got' = Append(got, r.vals)
                 ELSE UNCHANGED << rpos, bits, got >>
  /\ UNCHANGED << mcus, cut, wnext, put, buffer, file, closed, lost, arrived >>

-----------------------------------------------------------------------------
Init ==
  /\ mcus \in Mcus /\ cut \in Cuts
  /\ wnext = 1 /\ put = << >> /\ buffer = << >> /\ file = << >> /\ closed = FALSE /\ lost = FALSE
  /\ arrived = 0 /\ rpos = 1 /\ bits = << >> /\ marker = 0
  /\ insufficient = FALSE /\ warned = 0 /\ got = << >>

Next == WriteMcu \/ CloseSegment \/ Arrive \/ ReadMcu

Spec == Init /\ [][Next]_vars

-----------------------------------------------------------------------------
(* Properties.                                                             *)

\* Type invariant.
TypeOK ==
  /\ wnext \in 1..Len(mcus)+1 /\ Len(put) < ByteBits /\ Len(buffer) < Room
  /\ arrived \in 0..Len(file) /\ rpos \in 1..Len(file)+1
  /\ marker \in {0, Marker} /\ Len(got) <= Len(mcus)
  /\ insufficient \in BOOLEAN /\ lost \in BOOLEAN /\ warned \in Nat

\* What was written, as a sequence of values per MCU.
Values(m) == [i \in DOMAIN m |-> m[i].val]

\* Every MCU is read as it was written, however often either side had to stop
\* in the middle of one; in a file that was cut, the MCUs before the cut are.
ReadBack ==
  \A i \in DOMAIN got :
    got[i] = Values(mcus[i]) \/ (lost /\ warned > 0 /\ (i = Len(got) \/ got[i+1] = << >>))

\* No byte pair inside the segment looks like a marker, and the reader's place
\* never passes the one that ends it.
MarkerOnlyAtEnd ==
  /\ \A i \in 1..Len(file)-1 : file[i] = FF /\ file[i+1] # 0 =>
       \/ i + 1 = Len(file)
       \/ lost /\ i + 1 = Len(file) - 1           \* an FF cut off from its zero
  /\ marker # 0 => arrived = Len(file)

\* A whole file is read without the warning for missing data, and what is left
\* over at the end is the padding: less than a byte of ones.
PaddingLeft ==
  closed /\ ~lost /\ Len(got) = Len(mcus) =>
    /\ warned = 0
    /\ marker # 0 => Len(bits) < ByteBits /\ ToSet(bits) \subseteq {1}

\* One warning per segment at most (jdhuff.c:540-543).
OneWarning == warned <= 1

\* Neither side is stuck: what stops the coder in the middle of an MCU is gone
\* once the buffer is empty, what stops the decoder once the file has arrived.
NeverStuck ==
  /\ wnext <= Len(mcus) => Len(Emit(put \o McuBits(mcus[wnext])).bytes) < Room
  /\ closed /\ arrived = Len(file) /\ Len(got) < Len(mcus) /\ ~insufficient =>
       GetMcu(Start, mcus[Len(got) + 1]).ok

\* All of these: the bits of a segment come back, and only they.
BitsRight == TypeOK /\ ReadBack /\ MarkerOnlyAtEnd /\ PaddingLeft /\ OneWarning /\ NeverStuck
=============================================================================
