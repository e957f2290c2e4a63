---------------------------- MODULE MCMarkerReader ----------------------------
(***************************************************************************)
(* MarkerReader over small files.  A file is made of pieces; a piece has its *)
(* bytes and what they say, and Meaning adds up what the pieces written so   *)
(* far say, by the rules of the file format and not by the code's.  Blocks   *)
(* have 3 x 3 coefficients, Huffman codes two lengths, APPn headers two or   *)
(* three interesting bytes.                                                *)
(***************************************************************************)
EXTENDS MarkerReader

W2(n) == << n \div 256, n % 256 >>
Flat(ss) == FlattenSeq(ss)
Seg(code, payload) == << FF, code >> \o W2(Len(payload) + 2) \o payload

(* The pieces *)
Bare(code, k) == [k |-> k, bytes |-> << FF, code >>]
Stray(bytes) == [k |-> "garbage", bytes |-> bytes, n |-> Len(bytes)]
Padded(n, piece) == [piece EXCEPT !.bytes = [i \in 1..n |-> FF] \o @]
Bad(bytes) == [k |-> "bad", bytes |-> bytes]
Dri(n) == [k |-> "DRI", bytes |-> Seg(DRI, W2(n)), n |-> n]
Nothing(code, payload) == [k |-> "nothing", bytes |-> Seg(code, payload)]
App(code, data) == [k |-> "APP", bytes |-> Seg(code, data), code |-> code, data |-> data]
Dqt(ts) == [k |-> "DQT", ts |-> ts,
            bytes |-> Seg(DQT, Flat([i \in DOMAIN ts |->
              << ts[i].n + (IF ts[i].wide THEN 16 ELSE 0) >>
                \o Flat([j \in DOMAIN ts[i].v |-> IF ts[i].wide THEN W2(ts[i].v[j]) ELSE << ts[i].v[j] >>])]))]
Dac(es) == [k |-> "DAC", es |-> es, bytes |-> Seg(DAC, Flat([i \in DOMAIN es |-> << es[i].i, es[i].v >>]))]
Dht(ts) == [k |-> "DHT", ts |-> ts,
            bytes |-> Seg(DHT, Flat([i \in DOMAIN ts |->
              << ts[i].n + (IF ts[i].ac THEN 16 ELSE 0) >> \o ts[i].bits \o ts[i].vals]))]
Sof(kind, prec, h, w, cs) ==
  [k |-> "SOF", kind |-> kind, prec |-> prec, h |-> h, w |-> w, cs |-> cs,
   bytes |-> Seg(SOF[kind], << prec >> \o W2(h) \o W2(w) \o << Len(cs) >>
               \o Flat([i \in DOMAIN cs |-> << cs[i].id, 16 * cs[i].h + cs[i].v, cs[i].tq >>]))]
\* Coded with the tables of the slots s: of DCs and of ACs; coefficients b[1] to
\* b[2]; a[1] bits have been sent before, and a[2] are still to come.
ScanWith(cs, s, b, a) ==
  [k |-> "SOS", cs |-> cs, dc |-> s[1], ac |-> s[2], ss |-> b[1], se |-> b[2], ah |-> a[1], al |-> a[2],
   bytes |-> Seg(SOS, << Len(cs) >> \o Flat([i \in DOMAIN cs |-> << cs[i], 16 * s[1] + s[2] >>]) \o b \o << 16 * a[1] + a[2] >>)]
Sos(cs, ss, se) == ScanWith(cs, << 0, 1 >>, << ss, se >>, << 0, 0 >>)

(* What the pieces say *)
Kept(code) == CASE code = COM -> 2 [] code = APP0 -> 3 [] code = 225 -> 3 [] OTHER -> 0
Blank == [soi |-> FALSE, eoi |-> FALSE, bad |-> FALSE, interval |-> 0, garbage |-> 0, saved |-> << >>,
          quant |-> [n \in 0..(NumQuantTbls - 1) |-> << >>],
          dcHuff |-> [n \in 0..(NumHuffTbls - 1) |-> << >>], acHuff |-> [n \in 0..(NumHuffTbls - 1) |-> << >>],
          cond |-> [i \in 0..(2 * NumArithTbls - 1) |-> IF i < NumArithTbls THEN 16 ELSE 5],
          jfif |-> << 1, 1 >>, adobe |-> 0, frame |-> << >>, block |-> 0, scans |-> << >>, used |-> << >>]

\* The cell of a block that value i of a table of count values belongs to: the
\* table of a smaller square goes along the zigzag of that square.
Diagonals(side) == [d \in 0..(2 * side - 2) |->
  LET rows == SetToSortSeq({ r \in 0..(side - 1) : d - r \in 0..(side - 1) }, LAMBDA a, b : a < b)
      cells == [i \in DOMAIN rows |-> DctSize * rows[i] + (d - rows[i])]
  IN IF d % 2 = 1 THEN cells ELSE Reverse(cells)]
Along == [side \in 2..DctSize |-> Flat([d \in 1..(2 * side - 1) |-> Diagonals(side)[d - 1]])]
Natural(count) == IF count = 4 THEN Along[2] ELSE Along[DctSize]
TableOf(v) == [p \in 0..(DCTSIZE2 - 1) |->
                 IF \E i \in DOMAIN v : Natural(Len(v))[i] = p THEN v[CHOOSE i \in DOMAIN v : Natural(Len(v))[i] = p] ELSE 1]
WithTables(old, ts, val(_)) ==
  [n \in DOMAIN old |-> LET of == { i \in DOMAIN ts : ts[i].n = n }
                        IN IF of = {} THEN old[n] ELSE val(ts[Max(of)])]
HuffOf(t) == [bits |-> t.bits, vals |-> t.vals]
OfClass(ts, ac) == SelectSeq(ts, LAMBDA t : t.ac = ac)

Progressive(m) == m.frame.kind \in { "progressive", "arithProgressive" }
\* The size of the blocks that a first scan header p says.
BlockOf(m, p) == IF m.frame.kind = "baseline" \/ (Progressive(m) /\ p.cs # << >>) THEN { DctSize }
                 ELSE { k \in 1..(2 * DctSize) : p.se = k * k - 1 }
FirstAllowed(m, p) ==
  /\ m.frame.prec = 8 /\ BlockOf(m, p) # {}
  /\ \A c \in DOMAIN m.frame.cs : m.frame.cs[c].h \in 1..MaxSampFactor /\ m.frame.cs[c].v \in 1..MaxSampFactor
McuBlocks(m, p) == Sum(Len(p.cs), LAMBDA i : LET c == m.frame.cs[CHOOSE j \in DOMAIN m.frame.cs : m.frame.cs[j].id = p.cs[i]] IN c.h * c.v)
ScanAllowed(m, p) ==
  /\ m.frame # << >>
  /\ p.cs = << >> => Progressive(m)
  /\ \A i \in DOMAIN p.cs : \E c \in DOMAIN m.frame.cs : m.frame.cs[c].id = p.cs[i]
  /\ m.block = 0 => FirstAllowed(m, p)
  /\ m.scans # << >> => Progressive(m) \/ Len(m.scans[1]) < Len(m.frame.cs)
  /\ Len(p.cs) > 1 => McuBlocks(m, p) <= MaxBlocksInMcu
Places(m, p) == [i \in DOMAIN p.cs |-> CHOOSE c \in DOMAIN m.frame.cs : m.frame.cs[c].id = p.cs[i]]
FirstUse(m, p) == { c \in Range(Places(m, p)) : m.used[c] = << >> }
TablesThere(m, p) == \A c \in FirstUse(m, p) : m.quant[m.frame.cs[c].tq] # << >>
\* The last coefficient of a block, when the scan p is at hand.
LastCoef(m, p) == LET b == IF m.block # 0 THEN m.block ELSE CHOOSE k \in BlockOf(m, p) : TRUE IN Min({ b * b, DCTSIZE2 }) - 1
\* Progressive scans send the DCs, of any components, or ACs of a single one;
\* the most significant bits at first and then one bit more at a time.
ProgressionAllowed(m, p) ==
  LET band == p.ss..p.se
  IN /\ band = { 0 } \/ (band # {} /\ band \subseteq 1..LastCoef(m, p) /\ Len(p.cs) = 1)
     /\ p.ah \in { 0, p.al + 1 } /\ p.al <= 13
\* A code leaves room for one more word (Kraft), the one of ones alone.
Prefix(t) == Sum(HuffLengths, LAMBDA l : t.bits[l] * 2^(HuffLengths - l)) < 2^HuffLengths
Uses(m, p) ==   \* whether the scan has words for DCs, for ACs
  IF Progressive(m) THEN << p.ss = 0 /\ p.ah = 0, p.ss > 0 >> ELSE << TRUE, LastCoef(m, p) > 0 >>
CodesThere(m, p) ==
  IF m.frame.kind \in { "arith", "arithProgressive" }
  THEN (Uses(m, p)[1] => p.dc < NumArithTbls) /\ (Uses(m, p)[2] => p.ac < NumArithTbls)
  ELSE LET legal(tables, n) == n < NumHuffTbls /\ tables[n] # << >> /\ Prefix(tables[n])
       IN /\ Uses(m, p)[1] => legal(m.dcHuff, p.dc) /\ Range(m.dcHuff[p.dc].vals) \subseteq 0..15
          /\ Uses(m, p)[2] => legal(m.acHuff, p.ac)
Decodable(m, p) ==
  p.cs # << >> => TablesThere(m, p) /\ CodesThere(m, p) /\ (Progressive(m) => ProgressionAllowed(m, p))

Say(m, p) ==
  CASE ~m.soi /\ p.k # "SOI" -> [m EXCEPT !.bad = TRUE]
    [] p.k = "SOI" -> IF m.soi THEN [m EXCEPT !.bad = TRUE] ELSE [m EXCEPT !.soi = TRUE]
    [] p.k = "EOI" -> IF m.frame # << >> /\ m.scans = << >> THEN [m EXCEPT !.bad = TRUE] ELSE [m EXCEPT !.eoi = TRUE]
    [] p.k = "bad" -> [m EXCEPT !.bad = TRUE]
    [] p.k = "garbage" -> [m EXCEPT !.garbage = @ + p.n]
    [] p.k = "DRI" -> [m EXCEPT !.interval = p.n]
    [] p.k = "DQT" -> [m EXCEPT !.quant = WithTables(@, p.ts, LAMBDA t : TableOf(t.v))]
    [] p.k = "DHT" -> [m EXCEPT !.dcHuff = WithTables(@, OfClass(p.ts, FALSE), HuffOf),
                                !.acHuff = WithTables(@, OfClass(p.ts, TRUE), HuffOf)]
    [] p.k = "DAC" -> [m EXCEPT !.cond = [i \in DOMAIN @ |->
                         LET of == { e \in DOMAIN p.es : p.es[e].i = i } IN IF of = {} THEN @[i] ELSE p.es[Max(of)].v]]
    [] p.k = "APP" -> [m EXCEPT !.saved = IF Kept(p.code) = 0 THEN @
                                          ELSE Append(@, << p.code, Len(p.data), SubSeq(p.data, 1, Min({ Len(p.data), Kept(p.code) })) >>),
                                !.jfif = IF p.code = APP0 /\ Len(p.data) >= 3 /\ p.data[1] = JfifSignature
                                         THEN << p.data[2], p.data[3] >> ELSE @,
                                !.adobe = IF p.code = APP14 /\ Len(p.data) >= 2 /\ p.data[1] = AdobeSignature
                                          THEN p.data[2] ELSE @]
    [] p.k = "SOF" -> IF m.frame # << >> \/ p.h = 0 THEN [m EXCEPT !.bad = TRUE]
                      ELSE [m EXCEPT !.frame = p, !.used = [c \in DOMAIN p.cs |-> << >>]]
    [] p.k = "SOS" -> IF ~ScanAllowed(m, p) \/ ~Decodable(m, p) THEN [m EXCEPT !.bad = TRUE]
                      ELSE [m EXCEPT !.block = IF @ = 0 THEN CHOOSE k \in BlockOf(m, p) : TRUE ELSE @,
                                     !.scans = IF p.cs = << >> THEN @ ELSE Append(@, Places(m, p)),
                                     !.used = [c \in DOMAIN @ |-> IF c \in FirstUse(m, p)
                                                                  THEN m.quant[m.frame.cs[c].tq] ELSE @[c]]]
    [] OTHER -> m
Meaning ==
  LET m[i \in 0..Len(written)] == IF i = 0 THEN Blank ELSE Say(m[i - 1], Following(SubSeq(written, 1, i - 1))[written[i]]) IN m[Len(written)]

(* The files *)
Ones == << 7, 2, 3, 4, 5, 6, 7, 8, 9 >>
Tab(n, wide, v) == [n |-> n, wide |-> wide, v |-> v]
Huff(n, ac, bits, vals) == [n |-> n, ac |-> ac, bits |-> bits, vals |-> vals]
\* Tables whole and short, narrow and wide, one or two in a marker, and what
\* must be refused: bad slots, bad lengths, too many codes, low over high.
TablePieces == <<
  Dri(0), Dri(258),
  Dqt(<< Tab(0, FALSE, Ones) >>), Dqt(<< Tab(1, TRUE, << 300, 2, 3, 4 >>) >>), Dqt(<< Tab(0, FALSE, << 8, 9 >>) >>),
  Dqt(<< Tab(1, FALSE, Ones), Tab(0, FALSE, << 5, 6, 7, 8 >>) >>),
  Dac(<< [i |-> 0, v |-> 33], [i |-> 3, v |-> 9] >>), Dac(<< >>),
  Dht(<< Huff(0, FALSE, << 1, 1 >>, << 4, 6 >>) >>), Dht(<< Huff(1, TRUE, << 0, 1 >>, << 9 >>), Huff(1, FALSE, << 1, 0 >>, << 3 >>) >>),
  Bare(SOI, "SOI"), Bare(EOI, "EOI"), Bare(210, "nothing"), Bare(TEM, "nothing"), Padded(2, Dri(1)),
  Stray(<< 0, 9 >>), Stray(<< 255, 0 >>),
  Bad(Seg(DRI, << 0, 1, 2 >>)), Bad(Seg(DQT, << 4, 1 >>)), Bad(Seg(DAC, << 0, 1 >>)), Bad(Seg(DAC, << 9, 1 >>)), Bad(Seg(DAC, << 0, 16, 1 >>)),
  Bad(Seg(DHT, << 2, 1, 0, 5 >>)), Bad(Seg(DHT, << 0, 1, 1, 5 >>)), Bad(Seg(DHT, << 0, 2, 1, 5, 6, 7 >>)), Bad(Seg(DHT, << 0, 1, 0, 5, 1 >>)),
  Bad(<< 255, 195 >>), Bad(<< 255, 2 >>) >>
TablesShape == << TablePieces, TablePieces, TablePieces >>

\* Comments and application markers: shorter and longer than what is saved and
\* looked at, with a JFIF or an Adobe signature or without, among garbage.
CommentPieces == <<
  App(COM, << >>), App(COM, << 4 >>), App(COM, << 255, 216, 0, 4 >>),
  App(APP0, << 74, 1, 9 >>), App(APP0, << 74, 2, 5, 255, 217 >>), App(APP0, << 74, 1 >>), App(APP0, << 75, 1, 9, 4 >>),
  App(APP14, << 65 >>), App(APP14, << 65, 3 >>), App(APP14, << 65, 1, 255, 0, 5 >>), App(APP14, << 66, 1, 7 >>),
  App(225, << 1, 2, 3, 4 >>), App(226, << 1, 255, 217 >>), App(225, << >>), Nothing(DNL, << 1, 2, 3 >>),
  Stray(<< 7 >>), Stray(<< 255, 0, 8 >>), Padded(1, App(COM, << 5 >>)), Padded(3, App(225, << 6 >>)),
  [k |-> "nothing", bytes |-> << 255, 254, 0, 1 >>],
  Bare(EOI, "EOI") >>
\* What comes last: one of each kind.
LastPieces == << App(COM, << 255, 216, 0, 4 >>), App(APP0, << 74, 1, 9 >>), App(APP14, << 65, 1, 255, 0, 5 >>),
                 App(225, << 1, 2, 3, 4 >>), App(226, << 1, 255, 217 >>), Nothing(DNL, << 1, 2, 3 >>),
                 Stray(<< 255, 0, 8 >>), Padded(3, App(225, << 6 >>)), Bare(EOI, "EOI") >>
CommentsShape == << CommentPieces, CommentPieces, LastPieces >>

\* Frames and scans.
FrameComp(id, h, v, tq) == [id |-> id, h |-> h, v |-> v, tq |-> tq]
Two == << FrameComp(5, 2, 1, 0), FrameComp(7, 1, 1, 1) >>
Same == << FrameComp(5, 1, 1, 0), FrameComp(7, 1, 1, 0) >>
FramePieces == << Sof("baseline", 8, 300, 7, Two), Sof("progressive", 8, 6, 7, Same), Sof("extended", 8, 6, 7, << FrameComp(5, 1, 1, 1) >>),
                  Sof("arith", 8, 6, 7, << FrameComp(5, 3, 2, 0), FrameComp(7, 2, 2, 1) >>), Sof("arithProgressive", 8, 6, 7, Two),
                  Sof("arith", 12, 6, 7, Two), Sof("baseline", 8, 0, 7, Two), Sof("baseline", 8, 6, 7, << FrameComp(5, 0, 1, 0) >>),
                  Bad(<< 255, 192 >> \o W2(12) \o << 8, 0, 6, 0, 7, 2, 5, 17, 0, 7 >>) >>
QuantPieces == << Dqt(<< Tab(0, FALSE, Ones) >>), Dqt(<< Tab(0, FALSE, Ones), Tab(1, FALSE, << 8, 9 >>) >>) >>
\* The tables that scans use, or only one of them.
HuffPieces == << Dht(<< Huff(0, FALSE, << 0, 1 >>, << 15 >>), Huff(1, TRUE, << 1, 1 >>, << 255, 3 >>) >>),
                 Dht(<< Huff(0, FALSE, << 1, 0 >>, << 4 >>) >>) >>
Again == Dqt(<< Tab(0, FALSE, << 3, 3, 3, 3 >>) >>)
\* Codes that no scan may use: a word of ones, a DC that is too large.
Unusable == << Dht(<< Huff(1, TRUE, << 2, 0 >>, << 5, 6 >>) >>), Dht(<< Huff(0, FALSE, << 1, 0 >>, << 16 >>) >>) >>
ScanPieces == << Sos(<< 5, 7 >>, 0, 8), Sos(<< 5 >>, 0, 3), Sos(<< 7 >>, 1, 8), Sos(<< 5, 7 >>, 0, 0), Sos(<< >>, 0, 3),
                 ScanWith(<< 5, 7 >>, << 0, 1 >>, << 0, 0 >>, << 1, 0 >>), Again, Bare(EOI, "EOI") >>
\* Scans that the reader or the entropy decoder refuses: of no component of the
\* frame, of a wrong length, with a slot that is none, of two bits at once, of a
\* band that ends where it does not begin.
WrongScans == << Sos(<< 6 >>, 0, 8), Bad(Seg(SOS, << 1, 5, 0, 0, 3, 0, 0 >>)), ScanWith(<< 7 >>, << 0, 2 >>, << 1, 3 >>, << 0, 0 >>),
                 ScanWith(<< 5, 7 >>, << 2, 1 >>, << 0, 0 >>, << 0, 0 >>), ScanWith(<< 7 >>, << 0, 1 >>, << 1, 8 >>, << 2, 0 >>),
                 ScanWith(<< 5 >>, << 0, 1 >>, << 3, 2 >>, << 0, 0 >>), ScanWith(<< 5 >>, << 0, 1 >>, << 1, 8 >>, << 0, 14 >>) >>
ScansShape == << QuantPieces, HuffPieces, FramePieces \o << Sos(<< 5 >>, 0, 8) >>, ScanPieces \o WrongScans \o Unusable,
                 ScanPieces \o Unusable \o << Last(WrongScans), Stray(<< 255, 0, 3 >>), Sof("baseline", 8, 6, 7, Two) >>,
                 SubSeq(ScanPieces, 1, 4) \o << Padded(2, Again) >>,
                 << Bare(EOI, "EOI") >> >>

\* A file begins with SOI, of which there is one for each of the three.
Shapes == << TablesShape, CommentsShape, ScansShape >>
Follows(pieces) ==
  CASE pieces = << >> -> [i \in DOMAIN Shapes |-> Bare(SOI, "SOI")]
    [] Len(pieces) \in 1..Len(Shapes[pieces[1]]) -> Shapes[pieces[1]][Len(pieces)]
    [] OTHER -> << >>

\* What is asked for of each marker, and how much of it is kept: of an APP0 at
\* least the interesting data.
Saves == [m \in APPn \cup { COM } |-> CASE m = COM -> 2 [] m = APP0 -> 1 [] m = 225 -> 3 [] OTHER -> 0]

(* Properties *)
ReadAll == /\ src.buf = << >> /\ src.skip = 0 /\ cinfo.unread = 0 /\ marker.cur = Null
           /\ status \in { "suspended", "scan", "eoi" }
ReaderTypeOK ==
  /\ status \in { "reading", "suspended", "sos", "scan", "eoi", "error" }
  /\ src.have \in 0..Len(src.buf) /\ src.skip \in Nat /\ (src.skip > 0 => src.have = 0)
  /\ local.at \in 0..src.have /\ local.left \in Int
  /\ cinfo.unread \in 0..(FF - 1) /\ cinfo.inScan \in 0..MaxCompsInScan
  /\ inputctl.inheaders \in 0..2 /\ marker.discarded \in Nat

\* However the file comes in pieces, and wherever handlers had to stop and
\* start again, the tables are those the file defines: each in its slot, the
\* last one written there, its values in their cells, ones where a short table
\* ends (get_dqt, get_dht, get_dac, get_dri).
TablesAsWritten ==
  ReadAll => LET m == Meaning IN m.soi =>
    /\ cinfo.interval = m.interval /\ cinfo.quant = m.quant
    /\ cinfo.dcHuff = m.dcHuff /\ cinfo.acHuff = m.acHuff
    /\ \A i \in DOMAIN cinfo.dcL : cinfo.dcL[i] + 16 * cinfo.dcU[i] = m.cond[i]
    /\ \A i \in DOMAIN cinfo.acK : cinfo.acK[i] = m.cond[NumArithTbls + i]

\* Every comment and APPn that was asked for is in the list, once, in order and
\* cut where asked, though its data may have come in many pieces; a JFIF or
\* Adobe marker is seen whether it is saved or only looked at; the warnings
\* count exactly the bytes that belong to no marker.
CommentsAsWritten ==
  ReadAll => LET m == Meaning IN m.soi =>
    /\ [i \in DOMAIN cinfo.saved |-> << cinfo.saved[i].code, cinfo.saved[i].length, cinfo.saved[i].data >>] = m.saved
    /\ << cinfo.jfif.major, cinfo.jfif.density >> = m.jfif /\ cinfo.adobe.transform = m.adobe
    /\ warned + marker.discarded = m.garbage

\* Frame and scans are as the file has them, and each component keeps the
\* quantization table that stood in its slot when its first scan began, though
\* the slot may be defined again between scans (latch_quant_tables).
ScansAsWritten ==
  ReadAll => LET m == Meaning IN
    /\ marker.sawSof = (m.frame # << >>)
    /\ cinfo.scanNo = Len(m.scans)
    /\ m.frame # << >> =>
         /\ << cinfo.height, cinfo.width, cinfo.precision >> = << m.frame.h, m.frame.w, m.frame.prec >>
         /\ [c \in DOMAIN cinfo.comps |-> << cinfo.comps[c].id, cinfo.comps[c].h, cinfo.comps[c].v >>]
              = [c \in DOMAIN m.frame.cs |-> << m.frame.cs[c].id, m.frame.cs[c].h, m.frame.cs[c].v >>]
         /\ [c \in DOMAIN cinfo.comps |-> cinfo.comps[c].table] = m.used
    /\ m.block # 0 => cinfo.image.blockSize = m.block
    /\ status = "scan" /\ m.scans # << >> => Len(cinfo.mcu.comps) = Len(Last(m.scans)) /\ ScanOf(cinfo) = Last(m.scans)

\* What breaks the rules of the format is refused, and nothing else is, and
\* not for having come in pieces.
RefusedAsWritten ==
  /\ ReadAll => ~Meaning.bad
  /\ status = "error" => Meaning.bad

\* Once every piece is at hand whole, the reader waits only in front of the
\* next marker: no handler asks for a byte beyond its marker, unless the
\* marker's length is wrong.
WaitsForMarker ==
  status = "suspended" /\ src.have = Len(src.buf) /\ src.skip = 0 /\ ~Meaning.bad =>
    cinfo.unread = 0 /\ marker.cur = Null /\ \A i \in DOMAIN src.buf : src.buf[i] = FF

\* However the file comes in pieces, what has been read is what was written.
ReadAsWritten ==
  ReaderTypeOK /\ TablesAsWritten /\ CommentsAsWritten /\ ScansAsWritten /\ WaitsForMarker
=============================================================================
