----------------------------- MODULE MarkerReader -----------------------------
(***************************************************************************)
(* The marker reader of the decompressor (jdmarker.c) under its input        *)
(* controller (jdinput.c), over a data source that gets the file in pieces   *)
(* and suspends when it runs out.  src.buf is the file from the restart      *)
(* point on, of which the first src.have bytes are at hand; src.skip bytes   *)
(* of what comes next are to be dropped.  A handler reads on from the        *)
(* restart point with local.at; when it suspends, local is lost and it       *)
(* starts again, whatever it has stored by then.  The bytes of a marker are  *)
(* real; tables are smaller (see the constants), a signature is one byte.    *)
(***************************************************************************)
EXTENDS ScanSetup, SequencesExt

CONSTANTS NumQuantTbls, NumHuffTbls, NumArithTbls,
          HuffLengths,     \* 16: lengths of a code
          HuffSymbols,     \* 256: symbols of a table at most
          App0DataLen, App14DataLen, AppnDataLen,   \* interesting data of an APPn
          JfifSignature, AdobeSignature,
          SaveLimit,       \* what the application asked to save of each APPn and COM, 0 for none
          Following(_)     \* the pieces, with their bytes, that may follow the pieces written

VARIABLES cinfo,     \* the public fields of the decompressor
          marker,    \* my_marker_reader: saw_SOI, saw_SOF, next_restart_num, discarded_bytes, cur_marker, bytes_read
          inputctl,  \* inheaders, has_multiple_scans, eoi_reached
          src,       \* the data source
          local,     \* a handler's copies of the input pointer and the length left
          status,    \* "reading", "suspended", "sos" (first scan header read), "scan", "eoi" or "error"
          warned,    \* extraneous bytes the warnings have counted
          written    \* which pieces the file has so far
readerVars == << cinfo, marker, inputctl, src, local, status, warned, written >>

FF == 255
SOF == [baseline |-> 192, extended |-> 193, progressive |-> 194, arith |-> 201, arithProgressive |-> 202]
DHT == 196  DAC == 204  SOI == 216  EOI == 217  SOS == 218  DQT == 219  DNL == 220  DRI == 221
APP0 == 224  APP14 == 238  COM == 254  TEM == 1
RST == 208..215
APPn == 224..239
Parameterless == RST \cup { TEM }

Sum(n, f(_)) == LET s[k \in 0..n] == IF k = 0 THEN 0 ELSE s[k - 1] + f(k) IN s[n]
Null == << >>      \* a table, a component array, a marker that is not allocated
Fresh == [at |-> 0, left |-> 0, loop |-> FALSE]

(* The data source *)
AtHand(k) == local.at + k <= src.have
Byte(k) == src.buf[local.at + k]
Word(k) == 256 * Byte(k) + Byte(k + 1)
Drop(s, k) == [s EXCEPT !.buf = SubSeq(@, k + 1, Len(@)), !.have = @ - k]
SkipInputData(s, n) ==
  IF n > s.have THEN [Drop(s, s.have) EXCEPT !.skip = n - s.have] ELSE [Drop(s, n) EXCEPT !.skip = 0]

\* More of the file reaches the source, which drops what it was told to skip,
\* and the application calls the decompressor again.
Arrive ==
  /\ status \in { "suspended", "scan" }
  /\ \E n \in 1..(Len(src.buf) - src.have) :
       LET d == Min({ n, src.skip })
       IN src' = [buf |-> SubSeq(src.buf, d + 1, Len(src.buf)), have |-> src.have + n - d, skip |-> src.skip - d]
  /\ status' = IF status = "scan" THEN "scan" ELSE "reading"
  /\ UNCHANGED << cinfo, marker, inputctl, local, warned, written >>

\* The next piece of the file is written: one of those that may follow.
Supply ==
  /\ status \in { "suspended", "scan" } /\ src.have = Len(src.buf)
  /\ \E i \in DOMAIN Following(written) :
       /\ src' = [src EXCEPT !.buf = @ \o Following(written)[i].bytes]
       /\ written' = Append(written, i)
  /\ UNCHANGED << cinfo, marker, inputctl, local, status, warned >>

(* How a handler ends *)
Suspend == /\ status' = "suspended" /\ local' = Fresh
           /\ UNCHANGED << inputctl, src, warned, written >>
Fail == /\ status' = "error" /\ local' = Fresh
        /\ UNCHANGED << marker, inputctl, src, warned, written >>
\* The parameters up to the k-th byte are processed, and n more are skipped.
Processed(c, k, n) ==
  /\ cinfo' = [c EXCEPT !.unread = 0]
  /\ src' = IF n > 0 THEN SkipInputData(Drop(src, local.at + k), n) ELSE Drop(src, local.at + k)
  /\ local' = Fresh
  /\ UNCHANGED << inputctl, status, warned, written >>
\* Go on with the next entry of the marker, k bytes further.
NextEntry(k) == /\ local' = [at |-> local.at + k, left |-> local.left - k, loop |-> TRUE]
                /\ UNCHANGED << inputctl, src, status, warned, written >>
Quiet == cinfo' = cinfo /\ marker' = marker

At(m) == status = "reading" /\ cinfo.unread \in m
Cut(k) == ~AtHand(k) /\ Suspend
LengthCut == ~local.loop /\ Cut(2) /\ Quiet
\* The length word is read and the loop over the entries begins.
BeginEntries == ~local.loop /\ AtHand(2) /\ Quiet
                /\ local' = [at |-> 2, left |-> Word(1) - 2, loop |-> TRUE]
                /\ UNCHANGED << inputctl, src, status, warned, written >>
EndEntries(least) ==
  /\ local.loop /\ local.left < least
  /\ \/ local.left # 0 /\ Fail /\ cinfo' = cinfo
     \/ local.left = 0 /\ Processed(cinfo, 0, 0) /\ marker' = marker

(* The markers *)
NextMarker ==
  LET pad == CHOOSE k \in 0..src.have :   \* the FFs at the front
               /\ \A i \in 1..k : src.buf[i] = FF
               /\ k = src.have \/ src.buf[k + 1] # FF
      c == src.buf[pad + 1]
  IN /\ status = "reading" /\ cinfo.unread = 0 /\ marker.sawSoi
     /\ \/ pad = src.have /\ Suspend /\ Quiet
        \/ /\ pad < src.have /\ (pad = 0 \/ c = 0)       \* not a marker, or a stuffed zero
           /\ marker' = [marker EXCEPT !.discarded = @ + (IF pad = 0 THEN 1 ELSE 2)]
           /\ src' = Drop(src, IF pad = 0 THEN 1 ELSE pad + 1)
           /\ UNCHANGED << cinfo, inputctl, local, status, warned, written >>
        \/ /\ pad > 0 /\ pad < src.have /\ c # 0
           /\ warned' = warned + marker.discarded
           /\ marker' = [marker EXCEPT !.discarded = 0]
           /\ cinfo' = [cinfo EXCEPT !.unread = c]
           /\ src' = Drop(src, pad + 1)
           /\ UNCHANGED << inputctl, local, status, written >>

FirstMarker ==
  /\ status = "reading" /\ cinfo.unread = 0 /\ ~marker.sawSoi
  /\ \/ Cut(2) /\ Quiet
     \/ AtHand(2) /\ (Byte(1) # FF \/ Byte(2) # SOI) /\ Fail /\ cinfo' = cinfo
     \/ /\ AtHand(2) /\ Byte(1) = FF /\ Byte(2) = SOI
        /\ cinfo' = [cinfo EXCEPT !.unread = SOI]
        /\ src' = Drop(src, 2)
        /\ UNCHANGED << marker, inputctl, local, status, warned, written >>

GetSoi ==
  /\ At({ SOI })
  /\ \/ marker.sawSoi /\ Fail /\ cinfo' = cinfo
     \/ /\ ~marker.sawSoi
        /\ marker' = [marker EXCEPT !.sawSoi = TRUE]
        /\ Processed([cinfo EXCEPT
             !.dcL = [i \in DOMAIN @ |-> 0], !.dcU = [i \in DOMAIN @ |-> 1], !.acK = [i \in DOMAIN @ |-> 5],
             !.interval = 0, !.jfif = [saw |-> FALSE, major |-> 1, density |-> 1],
             !.adobe = [saw |-> FALSE, transform |-> 0]], 0, 0)

\* What get_sof has stored when it stops, for more or for good.
SofHeader ==
  [cinfo EXCEPT !.baseline = cinfo.unread = SOF.baseline,
                !.prog = cinfo.unread \in { SOF.progressive, SOF.arithProgressive },
                !.arith = cinfo.unread \in { SOF.arith, SOF.arithProgressive },
                !.precision = IF AtHand(3) THEN Byte(3) ELSE @,
                !.height = IF AtHand(5) THEN Word(4) ELSE @,
                !.width = IF AtHand(7) THEN Word(6) ELSE @,
                !.num = IF AtHand(8) THEN Byte(8) ELSE @]
Unset == [id |-> -1, h |-> 0, v |-> 0, tq |-> 0, dc |-> 0, ac |-> 0, table |-> Null]
SofComponents ==
  LET allocated == IF cinfo.comps = Null THEN [k \in 1..Byte(8) |-> Unset] ELSE cinfo.comps
      p(k) == 8 + 3 * (k - 1)
  IN [k \in DOMAIN allocated |->
        [allocated[k] EXCEPT !.id = IF AtHand(p(k) + 1) THEN Byte(p(k) + 1) ELSE @,
                             !.h = IF AtHand(p(k) + 2) THEN Byte(p(k) + 2) \div 16 ELSE @,
                             !.v = IF AtHand(p(k) + 2) THEN Byte(p(k) + 2) % 16 ELSE @,
                             !.tq = IF AtHand(p(k) + 3) THEN Byte(p(k) + 3) ELSE @]]
SofRefused == \/ marker.sawSof
              \/ Word(4) = 0 \/ Word(6) = 0 \/ Byte(8) = 0
              \/ Word(1) - 8 # 3 * Byte(8)
GetSof ==
  /\ At({ SOF[k] : k \in DOMAIN SOF })
  /\ \/ Cut(8) /\ cinfo' = SofHeader /\ marker' = marker
     \/ AtHand(8) /\ SofRefused /\ Fail /\ cinfo' = SofHeader
     \/ /\ AtHand(8) /\ ~SofRefused
        /\ LET c == [SofHeader EXCEPT !.comps = SofComponents]
           IN \/ Cut(Word(1)) /\ cinfo' = c /\ marker' = marker
              \/ /\ AtHand(Word(1))
                 /\ marker' = [marker EXCEPT !.sawSof = TRUE]
                 /\ Processed(c, Word(1), 0)

GetSos ==
  LET i == cinfo.inScan - local.left + 1
      found == { k \in DOMAIN cinfo.comps : cinfo.comps[k].id = Byte(1) }
      c == Min(found)
  IN
  /\ At({ SOS })
  /\ \/ ~marker.sawSof /\ Fail /\ cinfo' = cinfo
     \/ /\ marker.sawSof /\ ~local.loop
        /\ \/ Cut(3) /\ Quiet
           \/ /\ AtHand(3)
              /\ LET n == Byte(3)
                     refused == Word(1) # 2 * n + 6 \/ n > MaxCompsInScan \/ (n = 0 /\ ~cinfo.prog)
                 IN \/ refused /\ Fail /\ cinfo' = cinfo
                    \/ /\ ~refused /\ cinfo' = [cinfo EXCEPT !.inScan = n]
                       /\ local' = [at |-> 3, left |-> n, loop |-> TRUE]
                       /\ UNCHANGED << marker, inputctl, src, status, warned, written >>
     \/ /\ local.loop /\ local.left > 0
        /\ \/ Cut(2) /\ Quiet
           \/ AtHand(2) /\ found = {} /\ Fail /\ cinfo' = cinfo
           \/ /\ AtHand(2) /\ found # {}
              /\ cinfo' = [cinfo EXCEPT !.cur[i] = c, !.comps[c].dc = Byte(2) \div 16, !.comps[c].ac = Byte(2) % 16]
              /\ local' = [local EXCEPT !.at = @ + 2, !.left = @ - 1]
              /\ UNCHANGED << marker, inputctl, src, status, warned, written >>

(* The input controller at a scan header *)
ScanOf(c) == SubSeq(c.cur, 1, c.inScan)
NoQuantTable(c, k) ==
  c.comps[k].table = Null /\ (c.comps[k].tq >= NumQuantTbls \/ c.quant[c.comps[k].tq] = Null)
\* The entropy decoder starts a scan (start_pass of jdhuff.c and jdarith.c): a
\* progressive one is of DCs alone or of a band of ACs of one component, and is
\* a first approximation or the next bit of one.
BadProgression(c) ==
  \/ c.Ss = 0 /\ c.Se # 0
  \/ c.Ss # 0 /\ (c.Se < c.Ss \/ c.Se > c.image.limSe \/ c.inScan # 1)
  \/ c.Ah # 0 /\ c.Al # c.Ah - 1
  \/ c.Al > 13
\* Faulty variant: a table is asked for where the DCs are only refined.
DcCodedAlways(c) == ~c.prog \/ c.Ss = 0
\* The scan has DCs, or ACs, that are coded with a table.
DcCoded(c) == ~c.prog \/ (c.Ss = 0 /\ c.Ah = 0)
AcCoded(c) == IF c.prog THEN c.Ss # 0 ELSE c.image.limSe # 0
\* jpeg_make_d_derived_tbl: the table is there, has not too many codes of any
\* length, and no symbol that is too large.
HuffTable(tables, slot, largest) ==
  /\ slot < NumHuffTbls /\ tables[slot] # Null
  /\ LET t == tables[slot]
         next[l \in 0..HuffLengths] == IF l = 0 THEN 0 ELSE 2 * next[l - 1] + t.bits[l]
     IN /\ Sum(HuffLengths, LAMBDA l : t.bits[l]) <= HuffSymbols
        /\ \A l \in 1..HuffLengths : next[l] < 2^l
        /\ \A i \in DOMAIN t.vals : t.vals[i] <= largest
NoCodeTable(c, k) ==
  LET dc == c.comps[k].dc  ac == c.comps[k].ac
  IN \/ DcCoded(c) /\ IF c.arith THEN dc >= NumArithTbls ELSE ~HuffTable(c.dcHuff, dc, 15)
     \/ AcCoded(c) /\ IF c.arith THEN ac >= NumArithTbls ELSE ~HuffTable(c.acHuff, ac, FF)
EntropyRefused(c) == (c.prog /\ BadProgression(c)) \/ \E k \in Range(ScanOf(c)) : NoCodeTable(c, k)
\* start_input_pass: the scan is laid out, the quantization tables its
\* components use for the first time are copied, and the entropy decoder begins.
PassRefused(c) ==
  ScanRefused(c, ScanOf(c)) \/ (\E k \in Range(ScanOf(c)) : NoQuantTable(c, k)) \/ EntropyRefused(c)
LatchQuantTables(c) ==
  [k \in DOMAIN c.comps |-> IF k \in Range(ScanOf(c)) /\ c.comps[k].table = Null
                            THEN [c.comps[k] EXCEPT !.table = c.quant[c.comps[k].tq]] ELSE c.comps[k]]
StartedPass(c) == [c EXCEPT !.comps = LatchQuantTables(c), !.mcu = PerScanSetup(c, c.image, ScanOf(c))]
SetUp(c) == [c EXCEPT !.image = InitialSetup(c, c.Se, c.inScan),
                      !.comps = [k \in DOMAIN @ |-> [@[k] EXCEPT !.table = Null]]]

FirstScanHeader(c) ==
  LET refused == inputctl.inheaders = 1 /\ SetupRefused(c, c.Se, c.inScan)
      d == IF inputctl.inheaders = 1 THEN SetUp(c) ELSE c
  IN /\ inputctl.inheaders # 0
     /\ \/ refused /\ status' = "error" /\ cinfo' = c /\ UNCHANGED inputctl
        \/ /\ ~refused /\ cinfo' = d
           /\ inputctl' = [inputctl EXCEPT !.inheaders = IF c.inScan = 0 THEN 2 ELSE 0,
                                           !.multi = IF inputctl.inheaders = 1 THEN d.image.multi ELSE @]
           /\ status' = IF c.inScan = 0 THEN "reading" ELSE "sos"
LaterScanHeader(c) ==
  LET refused == ~inputctl.multi \/ (c.inScan # 0 /\ PassRefused(c))
  IN /\ inputctl.inheaders = 0 /\ UNCHANGED inputctl
     /\ \/ refused /\ status' = "error" /\ cinfo' = c
        \/ /\ ~refused
           /\ status' = IF c.inScan = 0 THEN "reading" ELSE "scan"
           /\ cinfo' = IF c.inScan = 0 THEN c ELSE StartedPass(c)
ReachSos ==
  LET c == [cinfo EXCEPT !.unread = 0, !.Ss = Byte(1), !.Se = Byte(2), !.Ah = Byte(3) \div 16, !.Al = Byte(3) % 16,
                         !.scanNo = @ + (IF cinfo.inScan = 0 THEN 0 ELSE 1)]
  IN /\ At({ SOS }) /\ local.loop /\ local.left = 0
     /\ \/ /\ Cut(3) /\ marker' = marker
           /\ cinfo' = [cinfo EXCEPT !.Ss = IF AtHand(1) THEN Byte(1) ELSE @, !.Se = IF AtHand(2) THEN Byte(2) ELSE @]
        \/ /\ AtHand(3)
           /\ marker' = [marker EXCEPT !.nextRst = 0]
           /\ src' = Drop(src, local.at + 3) /\ local' = Fresh
           /\ FirstScanHeader(c) \/ LaterScanHeader(c)
           /\ UNCHANGED << warned, written >>

\* jdmaster.c starts the first pass once the output is set up.
StartInputPass ==
  /\ status = "sos"
  /\ \/ PassRefused(cinfo) /\ status' = "error" /\ cinfo' = cinfo
     \/ ~PassRefused(cinfo) /\ status' = "scan" /\ cinfo' = StartedPass(cinfo)
  /\ UNCHANGED << marker, inputctl, src, local, warned, written >>
\* The entropy decoder, filling its bit buffer, runs into the marker that ends
\* the scan; or the scan's data end without it having looked further.
ReadAhead ==
  /\ status = "scan" /\ cinfo.unread = 0
  /\ \E k \in 2..src.have : /\ \A i \in 1..(k - 1) : src.buf[i] = FF
                            /\ src.buf[k] \notin { 0, FF }
                            /\ cinfo' = [cinfo EXCEPT !.unread = src.buf[k]]
                            /\ src' = Drop(src, k)
  /\ UNCHANGED << marker, inputctl, local, status, warned, written >>
FinishInputPass ==
  /\ status = "scan" /\ status' = "reading"
  /\ UNCHANGED << cinfo, marker, inputctl, src, local, warned, written >>

ReachEoi ==
  /\ At({ EOI })
  /\ cinfo' = [cinfo EXCEPT !.unread = 0]
  /\ inputctl' = [inputctl EXCEPT !.eoi = TRUE]
  /\ status' = IF inputctl.inheaders # 0 /\ marker.sawSof THEN "error" ELSE "eoi"
  /\ UNCHANGED << marker, src, local, warned, written >>

(* Tables *)
GetDac ==
  LET index == Byte(1)  low == Byte(2) % 16  high == Byte(2) \div 16
      dc == [cinfo EXCEPT !.dcL[index] = low, !.dcU[index] = high]
  IN
  /\ At({ DAC })
  /\ \/ LengthCut \/ BeginEntries \/ EndEntries(1)
     \/ /\ local.loop /\ local.left > 0
        /\ \/ Cut(2) /\ Quiet
           \/ AtHand(2) /\ index >= 2 * NumArithTbls /\ Fail /\ cinfo' = cinfo
           \/ /\ AtHand(2) /\ index \in NumArithTbls..(2 * NumArithTbls - 1)
              /\ cinfo' = [cinfo EXCEPT !.acK[index - NumArithTbls] = Byte(2)]
              /\ NextEntry(2) /\ marker' = marker
           \/ /\ AtHand(2) /\ index < NumArithTbls /\ cinfo' = dc
              /\ \/ low > high /\ Fail
                 \/ low <= high /\ NextEntry(2) /\ marker' = marker

GetDht ==
  LET count == Sum(HuffLengths, LAMBDA k : Byte(1 + k))
      head == 1 + HuffLengths
      ac == (Byte(1) \div 16) % 2 = 1
      index == IF ac THEN Byte(1) - 16 ELSE Byte(1)
      table == [bits |-> [k \in 1..HuffLengths |-> Byte(1 + k)], vals |-> [k \in 1..count |-> Byte(head + k)]]
  IN
  /\ At({ DHT })
  /\ \/ LengthCut \/ BeginEntries \/ EndEntries(HuffLengths + 1)
     \/ /\ local.loop /\ local.left > HuffLengths
        /\ \/ Cut(head) /\ Quiet
           \/ AtHand(head) /\ (count > HuffSymbols \/ count > local.left - head) /\ Fail /\ cinfo' = cinfo
           \/ /\ AtHand(head) /\ count <= HuffSymbols /\ count <= local.left - head
              /\ \/ Cut(head + count) /\ Quiet
                 \/ AtHand(head + count) /\ index >= NumHuffTbls /\ Fail /\ cinfo' = cinfo
                 \/ /\ AtHand(head + count) /\ index < NumHuffTbls
                    /\ cinfo' = IF ac THEN [cinfo EXCEPT !.acHuff[index] = table]
                                      ELSE [cinfo EXCEPT !.dcHuff[index] = table]
                    /\ NextEntry(head + count) /\ marker' = marker

\* The cells of a side x side corner of the block, along the zigzag, numbered
\* in the whole block (jpeg_natural_order, and jpeg_natural_order2 to 7).
ZigZag == [side \in 2..DctSize |->
  LET cells == (0..(side - 1)) \X (0..(side - 1))
      before(a, b) == \/ a[1] + a[2] < b[1] + b[2]
                      \/ a[1] + a[2] = b[1] + b[2] /\ (IF (a[1] + a[2]) % 2 = 1 THEN a[1] < b[1] ELSE a[1] > b[1])
  IN [i \in 0..(side * side - 1) |->
        LET cell == CHOOSE b \in cells : Cardinality({ a \in cells : before(a, b) }) = i
        IN DctSize * cell[1] + cell[2]]]
NaturalOrder(count) ==
  IF \E k \in 2..(DctSize - 1) : k * k = count
  THEN ZigZag[CHOOSE k \in 2..(DctSize - 1) : k * k = count] ELSE ZigZag[DctSize]

\* The values of a table that a DQT has room for: fewer than all of them are
\* put on a table of ones.
DqtCount(wide, room) == Min({ DCTSIZE2, IF wide THEN room \div 2 ELSE room })
Filled(v) == [i \in 0..(DCTSIZE2 - 1) |-> v]
\* Faulty variant: a short table leaves the values it does not reach as they were.
DqtBaseKept(n, short) == IF cinfo.quant[n] = Null THEN Filled(1) ELSE cinfo.quant[n]
DqtBase(n, short) == IF short THEN Filled(1) ELSE IF cinfo.quant[n] = Null THEN Filled(-1) ELSE cinfo.quant[n]
GetDqt ==
  LET n == Byte(1) % 16
      wide == Byte(1) \div 16 # 0
      size == IF wide THEN 2 ELSE 1
      count == DqtCount(wide, local.left - 1)
      order == NaturalOrder(count)
      old == DqtBase(n, local.left - 1 < size * DCTSIZE2)
      read == { i \in 0..(count - 1) : AtHand(1 + size * (i + 1)) }
      value(i) == IF wide THEN Word(2 + 2 * i) ELSE Byte(2 + i)
      table == [p \in 0..(DCTSIZE2 - 1) |->
                  IF \E i \in read : order[i] = p THEN value(CHOOSE i \in read : order[i] = p) ELSE old[p]]
  IN
  /\ At({ DQT })
  /\ \/ LengthCut \/ BeginEntries \/ EndEntries(1)
     \/ /\ local.loop /\ local.left > 0
        /\ \/ Cut(1) /\ Quiet
           \/ AtHand(1) /\ n >= NumQuantTbls /\ Fail /\ cinfo' = cinfo
           \/ /\ AtHand(1) /\ n < NumQuantTbls
              /\ cinfo' = [cinfo EXCEPT !.quant[n] = table]
              /\ marker' = marker
              /\ Cut(1 + size * count) \/ (AtHand(1 + size * count) /\ NextEntry(1 + size * count))

GetDri ==
  /\ At({ DRI })
  /\ \/ Cut(2) /\ Quiet
     \/ AtHand(2) /\ Word(1) # 4 /\ Fail /\ cinfo' = cinfo
     \/ AtHand(2) /\ Word(1) = 4 /\ Cut(4) /\ Quiet
     \/ AtHand(4) /\ Word(1) = 4 /\ Processed([cinfo EXCEPT !.interval = Word(3)], 4, 0) /\ marker' = marker

(* APPn and COM *)
ExamineApp0(c, data) ==
  IF Len(data) >= App0DataLen /\ data[1] = JfifSignature
  THEN [c EXCEPT !.jfif = [saw |-> TRUE, major |-> data[2], density |-> data[3]]] ELSE c
ExamineApp14(c, data) ==
  IF Len(data) >= App14DataLen /\ data[1] = AdobeSignature
  THEN [c EXCEPT !.adobe = [saw |-> TRUE, transform |-> data[2]]] ELSE c
Examine(c, data) == CASE c.unread = APP0 -> ExamineApp0(c, data)
                      [] c.unread = APP14 -> ExamineApp14(c, data)
                      [] OTHER -> c

\* What jpeg_save_markers sets up: at least the interesting data are saved.
LimitOf(m) == IF SaveLimit[m] = 0 THEN 0
              ELSE Max({ SaveLimit[m], CASE m = APP0 -> App0DataLen [] m = APP14 -> App14DataLen [] OTHER -> 1 })
Saving(m) == LimitOf(m) > 0
Interesting(m) == ~Saving(m) /\ m \in { APP0, APP14 }

LookedAt(length) == Max({ 0, Min({ length, AppnDataLen }) })
GetInterestingAppn ==
  LET k == LookedAt(Word(1) - 2)
      data == SubSeq(src.buf, 3, 2 + k)
  IN /\ At({ m \in APPn : Interesting(m) })
     /\ \/ Cut(2) /\ Quiet
        \/ AtHand(2) /\ Cut(2 + k) /\ Quiet
        \/ AtHand(2) /\ AtHand(2 + k) /\ Processed(Examine(cinfo, data), 2 + k, Word(1) - 2 - k) /\ marker' = marker

\* save_marker: the marker is allocated, its data are copied as they come, with
\* the restart point moved along, and it is linked when they are complete.
SavedLength == Word(1) - 2
BeginSaving ==
  /\ marker.cur = Null
  /\ \/ Cut(2) /\ Quiet
     \/ AtHand(2) /\ SavedLength < 0 /\ Processed(cinfo, 2, 0) /\ marker' = marker
     \/ /\ AtHand(2) /\ SavedLength >= 0
        /\ marker' = [marker EXCEPT !.cur = [code |-> cinfo.unread, length |-> SavedLength, data |-> << >>,
                                             limit |-> Min({ SavedLength, LimitOf(cinfo.unread) })]]
        /\ src' = Drop(src, 2)
        /\ UNCHANGED << cinfo, inputctl, local, status, warned, written >>
CopyData ==
  LET wanted == marker.cur.limit - Len(marker.cur.data)
      k == Min({ wanted, src.have })
  IN /\ marker.cur # Null /\ wanted > 0
     /\ \/ src.have = 0 /\ Suspend /\ Quiet
        \/ /\ src.have > 0
           /\ marker' = [marker EXCEPT !.cur.data = @ \o SubSeq(src.buf, 1, k)]
           /\ src' = Drop(src, k)
           /\ UNCHANGED << cinfo, inputctl, local, status, warned, written >>
LinkMarker ==
  LET cur == marker.cur
  IN /\ cur # Null /\ Len(cur.data) = cur.limit
     /\ marker' = [marker EXCEPT !.cur = Null]
     /\ Processed([Examine(cinfo, cur.data) EXCEPT !.saved = Append(@, cur)], 0, cur.length - cur.limit)
SaveMarker == At({ m \in APPn \cup { COM } : Saving(m) }) /\ (BeginSaving \/ CopyData \/ LinkMarker)

SkipVariable ==
  /\ At({ DNL } \cup { m \in APPn \cup { COM } : ~Saving(m) /\ ~Interesting(m) })
  /\ \/ Cut(2) /\ Quiet
     \/ AtHand(2) /\ Processed(cinfo, 2, Word(1) - 2) /\ marker' = marker

SkipParameterless == At(Parameterless) /\ Processed(cinfo, 0, 0) /\ marker' = marker
Known == Parameterless \cup APPn \cup { SOF[k] : k \in DOMAIN SOF }
           \cup { SOI, EOI, SOS, DAC, DHT, DQT, DRI, DNL, COM }
RefuseMarker == status = "reading" /\ cinfo.unread # 0 /\ cinfo.unread \notin Known /\ Fail /\ cinfo' = cinfo

(* The reader *)
ReaderInit ==
  /\ cinfo = [unread |-> 0, baseline |-> FALSE, prog |-> FALSE, arith |-> FALSE,
              precision |-> 0, height |-> 0, width |-> 0, num |-> 0, comps |-> Null,
              inScan |-> 0, cur |-> [i \in 1..MaxCompsInScan |-> 0], Ss |-> 0, Se |-> 0, Ah |-> 0, Al |-> 0,
              dcL |-> [i \in 0..(NumArithTbls - 1) |-> 0], dcU |-> [i \in 0..(NumArithTbls - 1) |-> 0],
              acK |-> [i \in 0..(NumArithTbls - 1) |-> 0], interval |-> 0,
              quant |-> [i \in 0..(NumQuantTbls - 1) |-> Null],
              dcHuff |-> [i \in 0..(NumHuffTbls - 1) |-> Null], acHuff |-> [i \in 0..(NumHuffTbls - 1) |-> Null],
              jfif |-> [saw |-> FALSE, major |-> 0, density |-> 0], adobe |-> [saw |-> FALSE, transform |-> 0],
              saved |-> << >>, scanNo |-> 0, image |-> Null, mcu |-> Null]
  /\ marker = [sawSoi |-> FALSE, sawSof |-> FALSE, nextRst |-> 0, discarded |-> 0, cur |-> Null]
  /\ inputctl = [inheaders |-> 1, multi |-> FALSE, eoi |-> FALSE]
  /\ src = [buf |-> << >>, have |-> 0, skip |-> 0]
  /\ local = Fresh /\ status = "suspended" /\ warned = 0
  /\ written = << >>

TableMarkers == GetDac \/ GetDht \/ GetDqt \/ GetDri
Headers == GetSoi \/ GetSof \/ GetSos \/ ReachSos \/ ReachEoi
Comments == GetInterestingAppn \/ SaveMarker \/ SkipVariable \/ SkipParameterless \/ RefuseMarker
ReadMarkers == FirstMarker \/ NextMarker \/ Headers \/ TableMarkers \/ Comments
ReaderNext == ReadMarkers \/ StartInputPass \/ ReadAhead \/ FinishInputPass \/ Arrive \/ Supply
ReaderSpec == ReaderInit /\ [][ReaderNext]_readerVars
=============================================================================
