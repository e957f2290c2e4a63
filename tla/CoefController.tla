---------------------------- MODULE CoefController ----------------------------
(***************************************************************************)
(* The coefficient controller of the decompressor (jdcoefct.c) between the   *)
(* entropy decoder, which gives it one MCU after the other, and the output   *)
(* side, which takes one row of interleaved MCUs (an iMCU row) at a time,    *)
(* under the calls of the application (jdapistd.c, jdapimin.c): in one pass, *)
(* after all scans, or, with a buffered image, while scans still come in.    *)
(* A block is known by << scan, MCU, block of the MCU >>: the coefficients   *)
(* that scan has for it.  The source may run dry before any MCU; all that    *)
(* the controller keeps then is in inp.                                     *)
(***************************************************************************)
EXTENDS ScanSetup, FiniteSets

CONSTANT Pictures   \* [frame, Se, scans, buffered]: Se is that of the first scan; scans are [comps, dc],
                    \* the components of each and whether it has their DC

\* Pictures the library accepts, but that a file may also name a component twice in a
\* scan, or add a scan to a sequential picture that is complete.
Distinct(q) == \A i, j \in DOMAIN q : q[i] = q[j] => i = j
Legal(p) ==
  LET n == Len(p.scans[1].comps) IN
  /\ p.frame.width \in Nat \ { 0 } /\ p.frame.height \in Nat \ { 0 }
  /\ Len(p.frame.comps) \in Nat \ { 0 } /\ DOMAIN p.frame.comps = 1..Len(p.frame.comps)
  /\ Len(p.scans) \in Nat \ { 0 } /\ DOMAIN p.scans = 1..Len(p.scans)
  /\ ~SetupRefused(p.frame, p.Se, n)
  /\ \A s \in DOMAIN p.scans : LET cur == p.scans[s].comps IN
       cur \in Seq(DOMAIN p.frame.comps) /\ cur # << >> /\ ~ScanRefused(p.frame, cur) /\ Distinct(cur)
  /\ n = Len(p.frame.comps) /\ ~p.frame.prog /\ ~p.buffered => Len(p.scans) = 1
ASSUME PictureAssumption ==
  /\ DctSize \in Nat \ { 0 } /\ MaxSampFactor \in Nat \ { 0 } /\ MaxCompsInScan \in 1..4
  /\ \A p \in Pictures : Legal(p) /\ p.buffered \in BOOLEAN

VARIABLES pic,     \* the picture, with what initial_setup and per_scan_setup make of it
          api,     \* global_state
          inp,     \* the input side: input_scan_number, input_iMCU_row, MCU_vert_offset, MCU_ctr, consume_input, eoi_reached
          out,     \* the output side: output_scan_number, output_iMCU_row, and whether blocks are smoothed
          array,   \* whole_image: for each component, what has been stored in each block
          shown    \* what this pass has put out, a set of << block, its content >> after the other
vars == << pic, api, inp, out, array, shown >>

Frame == pic.frame
Image == pic.image
Comps == DOMAIN Frame.comps
ScanComps(s) == pic.scans[s].comps
Scan == pic.perScan[inp.scan]
FullBuffer == Image.multi \/ pic.buffered
LastIMcuRow == Image.totalIMcuRows - 1

(* The input side *)
\* Faulty variant: the bottom of the image is not told from the rest.
RowsPerIMcuRowAll(s, row) == IF Len(ScanComps(s)) > 1 THEN 1 ELSE Frame.comps[ScanComps(s)[1]].v
\* MCU_rows_per_iMCU_row
RowsPerIMcuRow(s, row) ==
  IF Len(ScanComps(s)) > 1 THEN 1
  ELSE IF row < LastIMcuRow THEN Frame.comps[ScanComps(s)[1]].v
  ELSE pic.perScan[s].comps[1].lastRow
StartIMcuRow(i) == [i EXCEPT !.ctr = 0, !.vert = 0]
StartInputPass(i) == StartIMcuRow([i EXCEPT !.row = 0, !.consume = IF FullBuffer THEN "data" ELSE "dummy"])
FinishInputPass(i) == [i EXCEPT !.consume = "markers"]

\* The number of the MCU at hand, and of each of its blocks in it.
Mcu == (IF Len(Scan.comps) > 1 THEN inp.row * Scan.mcusPerRow
        ELSE (inp.row * Frame.comps[Scan.comps[1].c].v + inp.vert) * Scan.mcusPerRow) + inp.ctr
FirstBlock(k) ==
  LET b[i \in 0..k] == IF i = 0 THEN 0 ELSE b[i - 1] + Scan.comps[i].w * Scan.comps[i].h IN b[k - 1]
\* A block of the MCU: part k of the scan, y down and x across in its share.
McuBlocks == { << k, y, x >> : k \in DOMAIN Scan.comps, y \in 0..(MaxSampFactor - 1), x \in 0..(MaxSampFactor - 1) }
InMcu(b) == b[2] < Scan.comps[b[1]].h /\ b[3] < Scan.comps[b[1]].w
Coefs(b) == << inp.scan, Mcu, FirstBlock(b[1]) + b[2] * Scan.comps[b[1]].w + b[3] >>
\* Where consume_data puts it: the component, the row and the column.
Target(b) == LET p == Scan.comps[b[1]] IN
  << p.c, inp.row * Frame.comps[p.c].v + inp.vert + b[2], inp.ctr * p.w + b[3] >>

\* The MCU is done; perhaps the row of MCUs is, the iMCU row, the scan.
AfterMcu ==
  IF inp.ctr + 1 < Scan.mcusPerRow THEN [inp EXCEPT !.ctr = @ + 1]
  ELSE IF inp.vert + 1 < RowsPerIMcuRow(inp.scan, inp.row) THEN [inp EXCEPT !.ctr = 0, !.vert = @ + 1]
  ELSE IF inp.row + 1 < Image.totalIMcuRows THEN StartIMcuRow([inp EXCEPT !.row = @ + 1])
  ELSE FinishInputPass([inp EXCEPT !.row = @ + 1, !.ctr = 0])

ConsumeData ==
  LET blocks == { b \in McuBlocks : InMcu(b) } IN
  /\ inp.consume = "data"
  /\ array' = array \cup { << Target(b), Coefs(b) >> : b \in blocks }
  /\ inp' = AfterMcu
  /\ UNCHANGED << pic, api, out, shown >>

\* consume_markers: the next scan header, or the end, which also bounds the
\* scan that is being put out.
ReachSos ==
  /\ inp.consume = "markers" /\ inp.scan < Len(pic.scans)
  /\ inp' = StartInputPass([inp EXCEPT !.scan = @ + 1])
  /\ UNCHANGED << pic, api, out, array, shown >>
\* Faulty variant: the scan put out stays one that never comes.
BoundedNot(o) == o
Bounded(o) == [o EXCEPT !.scan = Min({ @, inp.scan })]
ReachEoi ==
  /\ inp.consume = "markers" /\ inp.scan = Len(pic.scans) /\ ~inp.eoi
  /\ inp' = [inp EXCEPT !.eoi = TRUE]
  /\ out' = Bounded(out)
  /\ UNCHANGED << pic, api, array, shown >>

\* jpeg_consume_input, or another call that has to read on: more than the
\* first scan header only after jpeg_start_decompress.
ConsumeInput == api \notin { "READY", "START" } /\ (ConsumeData \/ ReachSos \/ ReachEoi)

(* The output side *)
\* decompress_onepass: the blocks of the MCU that are in the image.
Useful(b) ==
  LET p == Scan.comps[b[1]] IN
  /\ b[3] < (IF inp.ctr < Scan.mcusPerRow - 1 THEN p.w ELSE p.lastCol)
  /\ inp.row < LastIMcuRow \/ inp.vert + b[2] < p.lastRow
DecompressOnepass ==
  /\ api = "SCANNING" /\ ~FullBuffer /\ inp.consume = "dummy"
  /\ shown' = shown \o << { << Target(b), { Coefs(b) } >> : b \in { c \in McuBlocks : InMcu(c) /\ Useful(c) } } >>
  /\ inp' = AfterMcu
  /\ out' = [out EXCEPT !.row = AfterMcu.row]
  /\ UNCHANGED << pic, api, array >>

\* Faulty variant: the row being read will do.
InputReadyEarly == \/ inp.scan > out.scan
                   \/ inp.scan = out.scan /\ inp.row >= out.row
\* The input must not be behind the output.
InputReady == \/ inp.scan > out.scan
              \/ inp.scan = out.scan /\ inp.row > out.row
\* Faulty variant: no row ahead.
SmoothReadyLevel == \/ inp.eoi \/ inp.scan > out.scan
                    \/ inp.scan = out.scan /\ inp.row > out.row
\* With smoothing, a scan of DC coefficients has to be a row ahead.
SmoothReady == \/ inp.eoi \/ inp.scan > out.scan
               \/ inp.scan = out.scan /\ inp.row > out.row + (IF pic.scans[inp.scan].dc THEN 1 ELSE 0)
\* The block rows of component c in the iMCU row to put out.
BlockRows(c) ==
  LET v == Frame.comps[c].v  rows == IF out.row < LastIMcuRow THEN v ELSE LastOf(Image.blocks[c].h, v)
  IN (out.row * v)..(out.row * v + rows - 1)
Content(p) == { e[2] : e \in { f \in array : f[1] = p } }
DecompressData ==
  /\ api = "SCANNING" /\ FullBuffer /\ out.row < Image.totalIMcuRows
  /\ IF out.smooth THEN SmoothReady ELSE InputReady
  /\ shown' = shown \o << UNION { { << << c, y, x >>, Content(<< c, y, x >>) >> :
                                      y \in BlockRows(c), x \in 0..(Image.blocks[c].w - 1) } : c \in Comps } >>
  /\ out' = [out EXCEPT !.row = @ + 1]
  /\ UNCHANGED << pic, api, inp, array >>

(* The calls of the application *)
\* smoothing_ok, but for how well the coefficients are known.
Smoothable == /\ Frame.prog
              /\ \A c \in Comps : \E s \in 1..inp.scan : pic.scans[s].dc /\ \E k \in DOMAIN ScanComps(s) : ScanComps(s)[k] = c
\* output_pass_setup, with start_output_pass.
OutputPass(n) == /\ \E s \in { FALSE, Smoothable } : out' = [scan |-> n, row |-> 0, smooth |-> s]
                 /\ shown' = << >> /\ api' = "SCANNING"
StartDecompress ==
  /\ api = "READY"
  /\ api' = IF pic.buffered THEN "BUFIMAGE" ELSE "PRELOAD"
  /\ inp' = StartInputPass(inp)
  /\ UNCHANGED << pic, out, array, shown >>
EndPreload ==
  /\ api = "PRELOAD" /\ (Image.multi => inp.eoi)
  /\ OutputPass(inp.scan)
  /\ UNCHANGED << pic, inp, array >>
StartOutput ==
  /\ api = "BUFIMAGE"
  /\ \E n \in 1..(Len(pic.scans) + 1) : OutputPass(IF inp.eoi THEN Min({ n, inp.scan }) ELSE n)
  /\ UNCHANGED << pic, inp, array >>
FinishOutput ==
  /\ api = "SCANNING" /\ pic.buffered /\ api' = "BUFPOST"
  /\ UNCHANGED << pic, inp, out, array, shown >>
EndOutput ==
  /\ api = "BUFPOST" /\ (inp.scan > out.scan \/ inp.eoi)
  /\ api' = "BUFIMAGE"
  /\ UNCHANGED << pic, inp, out, array, shown >>
FinishDecompress ==
  /\ \/ api = "SCANNING" /\ ~pic.buffered /\ out.row = Image.totalIMcuRows
     \/ api = "BUFIMAGE"
  /\ api' = "STOPPING"
  /\ UNCHANGED << pic, inp, out, array, shown >>
EndDecompress ==
  /\ api = "STOPPING" /\ inp.eoi /\ api' = "START"
  /\ UNCHANGED << pic, inp, out, array, shown >>

SetUp(p) ==
  LET image == InitialSetup(p.frame, p.Se, Len(p.scans[1].comps)) IN
  [frame |-> p.frame, scans |-> p.scans, buffered |-> p.buffered, image |-> image,
   perScan |-> [s \in DOMAIN p.scans |-> PerScanSetup(p.frame, image, p.scans[s].comps)]]

Init ==
  /\ pic \in { SetUp(p) : p \in Pictures }
  /\ api = "READY" /\ array = {} /\ shown = << >>
  /\ inp = [scan |-> 1, row |-> 0, vert |-> 0, ctr |-> 0, consume |-> "markers", eoi |-> FALSE]
  /\ out = [scan |-> 0, row |-> 0, smooth |-> FALSE]

ReadRows == DecompressOnepass \/ DecompressData
Calls == StartDecompress \/ StartOutput \/ FinishOutput \/ FinishDecompress
Ends == EndPreload \/ EndOutput \/ EndDecompress
Next == ConsumeInput \/ ReadRows \/ Calls \/ Ends

\* The call that the application is in cannot go on without more input.
OutputReady == IF out.smooth THEN SmoothReady ELSE InputReady
Waiting == \/ api \in { "PRELOAD", "BUFPOST", "STOPPING" }
           \/ api = "SCANNING" /\ FullBuffer /\ ~OutputReady
\* The source gives more, and the application repeats the call it is in.
Fairness == WF_vars(Waiting /\ ConsumeInput) /\ WF_vars(ReadRows) /\ WF_vars(Ends)
Spec == Init /\ [][Next]_vars /\ Fairness
-----------------------------------------------------------------------------
(* Where the format has block p = << c, y, x >> of the picture in scan s: in
   a scan of one component the blocks come row by row; else in MCUs of h by v
   blocks of each component, the components one after the other. *)
Total == Image.totalIMcuRows
Real(p) == p[2] < Image.blocks[p[1]].h /\ p[3] < Image.blocks[p[1]].w
RealBlocks == UNION { { c } \X (0..(Image.blocks[c].h - 1)) \X (0..(Image.blocks[c].w - 1)) : c \in Comps }
InScan(s, c) == \E k \in DOMAIN ScanComps(s) : ScanComps(s)[k] = c
Ahead(s, c) ==   \* the blocks of the components before c in an MCU
  LET k == CHOOSE i \in DOMAIN ScanComps(s) : ScanComps(s)[i] = c
  IN ScanMcuBlocks(Frame, SubSeq(ScanComps(s), 1, k - 1))
McuColumns == RoundUp(Frame.width, Image.maxH * Image.blockSize)
Place(s, p) ==
  LET h == Frame.comps[p[1]].h  v == Frame.comps[p[1]].v IN
  IF Len(ScanComps(s)) = 1 THEN << s, p[2] * Image.blocks[p[1]].w + p[3], 0 >>
  ELSE << s, (p[2] \div v) * McuColumns + p[3] \div h, Ahead(s, p[1]) + (p[2] % v) * h + (p[3] % h) >>
McusOf(s) == IF Len(ScanComps(s)) = 1 THEN Image.blocks[ScanComps(s)[1]].w * Image.blocks[ScanComps(s)[1]].h
             ELSE Total * McuColumns

Triples == Nat \X Nat \X Nat
TypeOK ==
  /\ api \in { "READY", "PRELOAD", "BUFIMAGE", "SCANNING", "BUFPOST", "STOPPING", "START" }
  /\ inp \in [scan : 1..Len(pic.scans), row : 0..Total, vert : 0..(MaxSampFactor - 1), ctr : Nat,
              consume : { "data", "dummy", "markers" }, eoi : BOOLEAN]
  /\ inp.ctr < Scan.mcusPerRow
  /\ out \in [scan : 0..(Len(pic.scans) + 1), row : 0..Total, smooth : BOOLEAN]
  /\ array \subseteq Triples \X Triples /\ shown \in Seq(SUBSET (Triples \X SUBSET Triples))

\* At the end of a scan, whatever the sampling factors and the size, every block
\* is stored inside the array that jinit_d_coef_controller asked for, comes from
\* an MCU the scan has, and, unless it is padding, is the block the format puts
\* there; at the end of the image no block of any scan is missing.
WellStored ==
  /\ inp.consume = "markers" => \A e \in array :
       LET c == e[1][1]  s == e[2][1] IN
       /\ e[1][2] < RoundUp(Image.blocks[c].h, Frame.comps[c].v) * Frame.comps[c].v
       /\ e[1][3] < RoundUp(Image.blocks[c].w, Frame.comps[c].h) * Frame.comps[c].h
       /\ e[2][2] < McusOf(s)
       /\ Real(e[1]) => e[2] = Place(s, e[1])
  /\ inp.eoi /\ FullBuffer => \A s \in DOMAIN pic.scans : \A p \in RealBlocks :
       InScan(s, p[1]) => << p, Place(s, p) >> \in array

\* What a pass shows is the picture as of the scan asked for at least, each block
\* with its own coefficients; later scans may show through, and without a buffered
\* image it is all there is.  When the pass is over every block has been shown,
\* and none of them twice, though input and output keep their positions in
\* counters of their own.
PassShows ==
  LET Shown(i) == { e[1] : e \in shown[i] } IN
  /\ TypeOK
  /\ shown # << >> => \A e \in shown[Len(shown)] :
       /\ Real(e[1])
       /\ \A k \in e[2] : k = Place(k[1], e[1])
       /\ \A s \in 1..(IF pic.buffered THEN Min({ out.scan, Len(pic.scans) }) ELSE Len(pic.scans)) :
            InScan(s, e[1][1]) => Place(s, e[1]) \in e[2]
  /\ api = "SCANNING" /\ out.row = Total =>
       /\ UNION { Shown(i) : i \in DOMAIN shown } = RealBlocks
       /\ \A i, j \in DOMAIN shown : i < j => Shown(i) \cap Shown(j) = {}

\* Smoothing predicts from the neighbours of a block, the row below included:
\* while the DC scan itself is put out that row has been read.
NeighboursKnown == [][
  out.smooth /\ out.scan \in DOMAIN pic.scans /\ pic.scans[out.scan].dc /\ shown' # shown /\ shown' # << >> =>
    \A p \in RealBlocks :
      InScan(out.scan, p[1]) /\ p[2] \div Frame.comps[p[1]].v = out.row + 1 => << p, Place(out.scan, p) >> \in array ]_vars

\* While input comes no call waits for ever: the preload, finish_output and
\* finish_decompress return, and a pass, also one of a scan that the picture
\* turns out not to have, reaches its last row or is ended.
CallsReturn ==
  /\ api = "PRELOAD" ~> api = "SCANNING"
  /\ api = "BUFPOST" ~> api = "BUFIMAGE"
  /\ api = "STOPPING" ~> api = "START"
  /\ api = "SCANNING" ~> (api # "SCANNING" \/ out.row = Total)

-----------------------------------------------------------------------------
(* Why they hold *)
\* The input side has one position: between scans at the end, in a scan inside it.
AtStart == inp.row = 0 /\ inp.vert = 0 /\ inp.ctr = 0
Positioned ==
  /\ inp.consume = "markers" => inp.row = (IF api = "READY" THEN 0 ELSE Total)
  /\ inp.consume # "markers" =>
       /\ inp.consume = (IF FullBuffer THEN "data" ELSE "dummy") /\ api # "READY"
       /\ inp.row < Total /\ inp.vert < RowsPerIMcuRow(inp.scan, inp.row)
  /\ api = "READY" => AtStart /\ inp.scan = 1 /\ inp.consume = "markers"
  /\ inp.eoi => inp.scan = Len(pic.scans) /\ inp.consume = "markers" /\ out.scan <= inp.scan
                 /\ api # "READY"

\* What the output side may count on: without a buffered image all scans, without a
\* full buffer the one there is.
Paced ==
  /\ api \in { "BUFIMAGE", "BUFPOST" } => pic.buffered
  /\ api = "PRELOAD" => ~pic.buffered
  /\ api = "SCANNING" => out.scan >= 1
  /\ shown # << >> => out.scan >= 1
  /\ FullBuffer /\ ~pic.buffered /\ api = "SCANNING" => inp.eoi
  /\ ~FullBuffer =>
       /\ ~out.smooth
       /\ api = "PRELOAD" => AtStart /\ inp.consume = "dummy"
       /\ api = "SCANNING" => out.row = inp.row

\* The input is past block p of the scan at hand.
Passed(p) ==
  LET v == Frame.comps[p[1]].v  row == p[2] \div v IN
  \/ row < inp.row
  \/ row = inp.row /\
     IF Len(ScanComps(inp.scan)) = 1
     THEN p[2] % v < inp.vert \/ (p[2] % v = inp.vert /\ p[3] < inp.ctr)
     ELSE p[3] \div Frame.comps[p[1]].h < inp.ctr

\* What is stored is stored right, and what the input has passed is stored.
WellPlaced(e) ==
  LET c == e[1][1]  s == e[2][1] IN
  /\ c \in Comps /\ s \in 1..Len(pic.scans)
  /\ e[1][2] < RoundUp(Image.blocks[c].h, Frame.comps[c].v) * Frame.comps[c].v
  /\ e[1][3] < RoundUp(Image.blocks[c].w, Frame.comps[c].h) * Frame.comps[c].h
  /\ e[2][2] < McusOf(s)
  /\ Real(e[1]) => e[2] = Place(s, e[1])
Arrived(s, p) == s < inp.scan \/ (s = inp.scan /\ Passed(p))
Stored ==
  /\ \A e \in array : WellPlaced(e)
  /\ FullBuffer => \A s \in 1..inp.scan : \A p \in RealBlocks :
       InScan(s, p[1]) /\ Arrived(s, p) => << p, Place(s, p) >> \in array

\* What has been shown is right, and is what the pass has gone over.
Promised == IF pic.buffered THEN Min({ out.scan, Len(pic.scans) }) ELSE Len(pic.scans)
ShownRight(e) ==
  /\ e[1] \in RealBlocks
  /\ \A k \in e[2] : k = Place(k[1], e[1])
  /\ \A s \in 1..Promised : InScan(s, e[1][1]) => Place(s, e[1]) \in e[2]
GoneOver(p) == IF FullBuffer THEN p[2] \div Frame.comps[p[1]].v < out.row ELSE Passed(p)
ShownIn(i) == { e[1] : e \in shown[i] }
Displayed ==
  /\ \A i \in DOMAIN shown : \A e \in shown[i] : ShownRight(e)
  /\ api = "SCANNING" =>
       /\ UNION { ShownIn(i) : i \in DOMAIN shown } = { p \in RealBlocks : GoneOver(p) }
       /\ \A i, j \in DOMAIN shown : i < j => ShownIn(i) \cap ShownIn(j) = {}

\* The inductive invariant.
Controlled ==
  /\ pic \in { SetUp(p) : p \in Pictures }
  /\ TypeOK /\ Positioned /\ Paced /\ Stored /\ Displayed
=============================================================================
