------------------------ MODULE CoefControllerProofs ------------------------
(***************************************************************************)
(* The coefficient controller, for every picture: what it stores, what a     *)
(* pass shows, and what smoothing may look at.                              *)
(***************************************************************************)
EXTENDS CoefController, TLAPS, WellFoundedInduction, SequenceTheorems

-----------------------------------------------------------------------------
(* Arithmetic                                                               *)

\* Quotient and remainder.
LEMMA DivFacts ==
  ASSUME NEW y \in Nat, NEW v \in Nat \ { 0 }
  PROVE  y \div v \in Nat /\ y % v \in 0 .. v - 1 /\ y = (y \div v) * v + (y % v)
OBVIOUS

LEMMA LessFactor ==
  ASSUME NEW a \in Int, NEW b \in Int, NEW m \in Nat \ { 0 }, a * m < b * m
  PROVE  a < b
OBVIOUS

LEMMA DivUnique ==
  ASSUME NEW q \in Nat, NEW v \in Nat \ { 0 }, NEW r \in 0 .. v - 1
  PROVE  (q * v + r) \div v = q /\ (q * v + r) % v = r
<1> DEFINE y == q * v + r
<1>0. y \in Nat
  OBVIOUS
<1>1. y \div v \in Nat /\ y % v \in 0 .. v - 1 /\ y = (y \div v) * v + (y % v)
  BY <1>0, DivFacts
<1> DEFINE d == y \div v
           n == y % v
<1>2. d \in Nat /\ n \in 0 .. v - 1 /\ q * v + r = d * v + n
  BY <1>1
<1> HIDE DEF d, n
<1>3. d < q + 1
  <2>1. d * v < (q + 1) * v
    BY <1>2
  <2> QED  BY <2>1, <1>2, LessFactor
<1>4. q < d + 1
  <2>1. q * v < (d + 1) * v
    BY <1>2
  <2> QED  BY <2>1, <1>2, LessFactor
<1>5. d = q /\ n = r
  BY <1>2, <1>3, <1>4
<1> QED  BY <1>5 DEF d, n

\* a in parts of m.
LEMMA RoundUpFacts ==
  ASSUME NEW a \in Nat \ { 0 }, NEW m \in Nat \ { 0 }
  PROVE  /\ RoundUp(a, m) \in Nat \ { 0 }
         /\ (RoundUp(a, m) - 1) * m < a /\ a <= RoundUp(a, m) * m
<1> DEFINE q == (a + m - 1) \div m
           r == (a + m - 1) % m
<1>0. a + m - 1 \in Nat
  OBVIOUS
<1>1. q \in Nat /\ r \in 0 .. m - 1 /\ a + m - 1 = q * m + r
  BY <1>0, DivFacts
<1> HIDE DEF q, r
<1>2. q # 0
  <2> SUFFICES ASSUME q = 0 PROVE FALSE
    OBVIOUS
  <2>1. q * m = 0
    OBVIOUS
  <2> QED  BY <1>1, <2>1
<1>3. (q - 1) * m = q * m - m
  BY <1>1
<1> QED  BY <1>1, <1>2, <1>3 DEF q, r, RoundUp

\* The blocks of a component are those of so many MCUs, but for the last.
LEMMA RoundUpScaled ==
  ASSUME NEW a \in Nat \ { 0 }, NEW m \in Nat \ { 0 }, NEW v \in Nat \ { 0 }
  PROVE  /\ RoundUp(a * v, m) \in Nat \ { 0 }
         /\ (RoundUp(a, m) - 1) * v < RoundUp(a * v, m)
         /\ RoundUp(a * v, m) <= RoundUp(a, m) * v
<1> DEFINE t == RoundUp(a, m)
           b == RoundUp(a * v, m)
<1>0. a * v \in Nat \ { 0 }
  OBVIOUS
<1>1. t \in Nat \ { 0 } /\ (t - 1) * m < a /\ a <= t * m
  BY RoundUpFacts
<1>2. b \in Nat \ { 0 } /\ (b - 1) * m < a * v /\ a * v <= b * m
  BY <1>0, RoundUpFacts
<1> HIDE DEF t, b
<1>3. (t - 1) * v < b
  <2>1. ((t - 1) * m) * v < a * v
    BY <1>1
  <2>2. ((t - 1) * v) * m = ((t - 1) * m) * v
    BY <1>1
  <2>3. ((t - 1) * v) * m < b * m
    BY <1>1, <1>2, <2>1, <2>2
  <2> QED  BY <1>1, <1>2, <2>3, LessFactor
<1>4. b - 1 < t * v
  <2>1. a * v <= (t * m) * v
    BY <1>1
  <2>2. (t * m) * v = (t * v) * m
    BY <1>1
  <2>3. (b - 1) * m < (t * v) * m
    BY <1>1, <1>2, <2>1, <2>2
  <2> QED  BY <1>1, <1>2, <2>3, LessFactor
<1> QED  BY <1>1, <1>2, <1>3, <1>4 DEF t, b

\* What the last one has.
LEMMA LastOfFacts ==
  ASSUME NEW b \in Nat \ { 0 }, NEW t \in Nat \ { 0 }, NEW v \in Nat \ { 0 },
         (t - 1) * v < b, b <= t * v
  PROVE  LastOf(b, v) = b - (t - 1) * v
<1>1. CASE b = t * v
  <2>1. b % v = 0
    BY <1>1, DivUnique
  <2>2. b - (t - 1) * v = v
    BY <1>1
  <2> QED  BY <2>1, <2>2 DEF LastOf
<1>2. CASE b # t * v
  <2> DEFINE r == b - (t - 1) * v
  <2>1. r \in 0 .. v - 1 /\ r # 0
    BY <1>2
  <2>2. b = (t - 1) * v + r
    OBVIOUS
  <2> HIDE DEF r
  <2>3. (t - 1) \in Nat
    OBVIOUS
  <2>4. ((t - 1) * v + r) % v = r
    BY <2>1, <2>3, DivUnique
  <2>5. b % v = r
    BY <2>2, <2>4
  <2> QED  BY <2>1, <2>5 DEF LastOf, r
<1> QED  BY <1>1, <1>2

\* A set of numbers has a least one, and, when bounded, a greatest one.
LEMMA LeastNat ==
  ASSUME NEW T, T \subseteq Nat, T # {}
  PROVE  \E n \in T : \A m \in T : n <= m
<1>1. IsWellFoundedOn(OpToRel(<, Nat), Nat)
  BY NatLessThanWellFounded
<1>2. PICK n \in T : \A m \in T : ~(<<m, n>> \in OpToRel(<, Nat))
  BY <1>1, WFMin
<1>3. \A m \in T : ~(m < n)
  BY <1>2 DEF OpToRel
<1> QED  BY <1>3

LEMMA MaxIs ==
  ASSUME NEW T, T \subseteq Nat, T # {}, NEW m \in Nat, \A t \in T : t <= m
  PROVE  Max(T) \in T /\ \A t \in T : t <= Max(T)
<1> DEFINE U == { u \in Nat : \A t \in T : t <= u }
<1>1. U \subseteq Nat /\ U # {}
  OBVIOUS
<1>2. PICK n \in U : \A u \in U : n <= u
  BY <1>1, LeastNat
<1>3. n \in Nat /\ \A t \in T : t <= n
  BY <1>2
<1>4. n \in T
  <2> SUFFICES ASSUME n \notin T
               PROVE  FALSE
    OBVIOUS
  <2>1. \A t \in T : t <= n - 1
    BY <1>3
  <2>2. n - 1 \in Nat
    <3>1. PICK t \in T : t \in Nat
      OBVIOUS
    <3> QED  BY <1>3, <2>1, <3>1
  <2>3. n - 1 \in U
    BY <2>1, <2>2
  <2> QED  BY <1>2, <1>3, <2>3
<1> QED  BY <1>3, <1>4 DEF Max

LEMMA MinIs ==
  ASSUME NEW a \in Int, NEW b \in Int
  PROVE  Min({ a, b }) = IF a <= b THEN a ELSE b
BY DEF Min

-----------------------------------------------------------------------------
(* The picture                                                              *)

\* What initial_setup makes of the frame header: the last MCU of every component
\* reaches its last block, the one before does not.
FrameFacts ==
  /\ Len(Frame.comps) \in Nat \ { 0 } /\ Comps = 1..Len(Frame.comps)
  /\ Total \in Nat \ { 0 } /\ McuColumns \in Nat \ { 0 }
  /\ \A c \in Comps :
       /\ Frame.comps[c].v \in 1..MaxSampFactor /\ Frame.comps[c].h \in 1..MaxSampFactor
       /\ Image.blocks[c].h \in Nat \ { 0 } /\ Image.blocks[c].w \in Nat \ { 0 }
       /\ (Total - 1) * Frame.comps[c].v < Image.blocks[c].h
       /\ Image.blocks[c].h <= Total * Frame.comps[c].v
       /\ (McuColumns - 1) * Frame.comps[c].h < Image.blocks[c].w
       /\ Image.blocks[c].w <= McuColumns * Frame.comps[c].h

LEMMA MaxSamp ==
  ASSUME NEW T, T \subseteq 1..MaxSampFactor
  PROVE  /\ Max({ 1 } \cup T) \in Nat \ { 0 }
         /\ \A t \in T : t <= Max({ 1 } \cup T)
<1> DEFINE S == { 1 } \cup T
<1>1. /\ S \subseteq Nat /\ S # {} /\ MaxSampFactor \in Nat
      /\ \A t \in S : t <= MaxSampFactor /\ t # 0
  BY PictureAssumption
<1>2. Max(S) \in S /\ \A t \in S : t <= Max(S)
  BY <1>1, MaxIs
<1> QED  BY <1>1, <1>2

LEMMA BlockSizeIs ==
  ASSUME NEW f, NEW Se, NEW n, BlockSizes(f, Se, n) # {}
  PROVE  (CHOOSE k \in BlockSizes(f, Se, n) : TRUE) \in Nat \ { 0 }
<1>1. BlockSizes(f, Se, n) \subseteq Nat \ { 0 }
  BY PictureAssumption DEF BlockSizes
<1> QED  BY <1>1

LEMMA FrameIs ==
  ASSUME NEW p \in Pictures, pic = SetUp(p)
  PROVE  FrameFacts
<1> DEFINE f == p.frame
           n == Len(p.scans[1].comps)
           b == CHOOSE k \in BlockSizes(f, p.Se, n) : TRUE
           mh == MaxH(f)
           mv == MaxV(f)
<1>1. /\ Frame = f
      /\ Image = InitialSetup(f, p.Se, n)
  BY DEF Frame, Image, SetUp
<1>2. /\ Total = RoundUp(f.height, mv * b)
      /\ McuColumns = RoundUp(f.width, mh * b)
      /\ \A c \in DOMAIN f.comps :
           /\ Image.blocks[c].h = RoundUp(f.height * f.comps[c].v, mv * b)
           /\ Image.blocks[c].w = RoundUp(f.width * f.comps[c].h, mh * b)
  BY <1>1 DEF Total, McuColumns, InitialSetup
<1>3. /\ f.height \in Nat \ { 0 } /\ f.width \in Nat \ { 0 }
      /\ Len(f.comps) \in Nat \ { 0 } /\ DOMAIN f.comps = 1..Len(f.comps)
      /\ ~SetupRefused(f, p.Se, n)
  BY PictureAssumption DEF Legal
<1>4. /\ b \in Nat \ { 0 }
      /\ \A c \in DOMAIN f.comps : f.comps[c].h \in 1..MaxSampFactor /\ f.comps[c].v \in 1..MaxSampFactor
  BY <1>3, BlockSizeIs DEF SetupRefused
<1>5. mh \in Nat \ { 0 } /\ mv \in Nat \ { 0 }
  <2>1. /\ { f.comps[k].h : k \in DOMAIN f.comps } \subseteq 1..MaxSampFactor
        /\ { f.comps[k].v : k \in DOMAIN f.comps } \subseteq 1..MaxSampFactor
    BY <1>4
  <2> QED  BY <2>1, MaxSamp DEF MaxH, MaxV
<1> HIDE DEF b, mh, mv
<1>6. mv * b \in Nat \ { 0 } /\ mh * b \in Nat \ { 0 }
  BY <1>4, <1>5
<1>7. Total \in Nat \ { 0 } /\ McuColumns \in Nat \ { 0 }
  BY <1>2, <1>3, <1>6, RoundUpFacts
<1>8. ASSUME NEW c \in DOMAIN f.comps
      PROVE  /\ Image.blocks[c].h \in Nat \ { 0 } /\ Image.blocks[c].w \in Nat \ { 0 }
             /\ (Total - 1) * f.comps[c].v < Image.blocks[c].h
             /\ Image.blocks[c].h <= Total * f.comps[c].v
             /\ (McuColumns - 1) * f.comps[c].h < Image.blocks[c].w
             /\ Image.blocks[c].w <= McuColumns * f.comps[c].h
  <2>1. f.comps[c].h \in Nat \ { 0 } /\ f.comps[c].v \in Nat \ { 0 }
    BY <1>4
  <2>2. /\ Image.blocks[c].h \in Nat \ { 0 }
        /\ (Total - 1) * f.comps[c].v < Image.blocks[c].h
        /\ Image.blocks[c].h <= Total * f.comps[c].v
    <3> DEFINE a == f.height
               m == mv * b
               x == f.comps[c].v
    <3>1. a \in Nat \ { 0 } /\ m \in Nat \ { 0 } /\ x \in Nat \ { 0 }
      BY <1>3, <1>6, <2>1
    <3>2. Image.blocks[c].h = RoundUp(a * x, m) /\ Total = RoundUp(a, m)
      BY <1>2
    <3> HIDE DEF a, m, x
    <3>3. /\ RoundUp(a * x, m) \in Nat \ { 0 }
          /\ (RoundUp(a, m) - 1) * x < RoundUp(a * x, m)
          /\ RoundUp(a * x, m) <= RoundUp(a, m) * x
      BY <3>1, RoundUpScaled
    <3> QED  BY <3>2, <3>3 DEF x
  <2>3. /\ Image.blocks[c].w \in Nat \ { 0 }
        /\ (McuColumns - 1) * f.comps[c].h < Image.blocks[c].w
        /\ Image.blocks[c].w <= McuColumns * f.comps[c].h
    <3> DEFINE a == f.width
               m == mh * b
               x == f.comps[c].h
    <3>1. a \in Nat \ { 0 } /\ m \in Nat \ { 0 } /\ x \in Nat \ { 0 }
      BY <1>3, <1>6, <2>1
    <3>2. Image.blocks[c].w = RoundUp(a * x, m) /\ McuColumns = RoundUp(a, m)
      BY <1>2
    <3> HIDE DEF a, m, x
    <3>3. /\ RoundUp(a * x, m) \in Nat \ { 0 }
          /\ (RoundUp(a, m) - 1) * x < RoundUp(a * x, m)
          /\ RoundUp(a * x, m) <= RoundUp(a, m) * x
      BY <3>1, RoundUpScaled
    <3> QED  BY <3>2, <3>3 DEF x
  <2> QED  BY <2>2, <2>3
<1> QED  BY <1>1, <1>3, <1>4, <1>7, <1>8 DEF FrameFacts, Comps

\* The scans: distinct components, at most four of them.
ScanFacts ==
  /\ Len(pic.scans) \in Nat \ { 0 } /\ DOMAIN pic.scans = 1..Len(pic.scans)
  /\ \A s \in 1..Len(pic.scans) :
       /\ Len(ScanComps(s)) \in 1..4 /\ ScanComps(s) \in Seq(Comps)
       /\ Distinct(ScanComps(s))
       /\ pic.perScan[s] = PerScanSetup(Frame, Image, ScanComps(s))

LEMMA ScansAre ==
  ASSUME NEW p \in Pictures, pic = SetUp(p)
  PROVE  ScanFacts
<1>1. /\ pic.scans = p.scans /\ Frame = p.frame
      /\ pic.perScan = [s \in DOMAIN p.scans |-> PerScanSetup(Frame, Image, p.scans[s].comps)]
  BY DEF SetUp, Frame, Image
<1>2. Legal(p)
  BY PictureAssumption
<1>3. /\ Len(p.scans) \in Nat \ { 0 } /\ DOMAIN p.scans = 1..Len(p.scans)
  BY <1>2 DEF Legal
<1>4. ASSUME NEW s \in 1..Len(p.scans)
      PROVE  /\ Len(p.scans[s].comps) \in 1..4 /\ p.scans[s].comps \in Seq(Comps)
             /\ Distinct(p.scans[s].comps)
  <2> DEFINE cur == p.scans[s].comps
  <2>1. /\ cur \in Seq(Comps) /\ cur # << >> /\ ~ScanRefused(Frame, cur) /\ Distinct(cur)
    BY <1>1, <1>2, <1>3 DEF Legal, Comps
  <2> HIDE DEF cur
  <2>2. Len(cur) = 1 \/ Len(cur) \in 1..MaxCompsInScan
    BY <2>1 DEF ScanRefused
  <2>3. Len(cur) \in 1..4
    <3>1. MaxCompsInScan \in 1..4
      BY PictureAssumption
    <3> DEFINE n == Len(cur)
    <3>2. n = 1 \/ n \in 1..MaxCompsInScan
      BY <2>2
    <3> HIDE DEF n
    <3>3. n \in 1..4
      BY <3>1, <3>2
    <3> QED  BY <3>3 DEF n
  <2> QED  BY <2>1, <2>3 DEF cur
<1>5. \A s \in 1..Len(p.scans) : pic.perScan[s] = PerScanSetup(Frame, Image, p.scans[s].comps)
  BY <1>1, <1>3
<1> QED  BY <1>1, <1>3, <1>4, <1>5 DEF ScanFacts, ScanComps

\* Distinct numbers that are as many as there are to choose from are all of them.
LEMMA AllChosen ==
  ASSUME NEW m \in Nat, NEW q \in Seq(1..m), Len(q) \in 1..4, Len(q) >= m, Distinct(q)
  PROVE  Len(q) = m /\ \A c \in 1..m : \E k \in DOMAIN q : q[k] = c
<1>1. DOMAIN q = 1..Len(q) /\ \A k \in 1..Len(q) : q[k] \in 1..m
  OBVIOUS
<1>2. CASE Len(q) = 1
  BY <1>1, <1>2 DEF Distinct
<1>3. CASE Len(q) = 2
  BY <1>1, <1>3 DEF Distinct
<1>4. CASE Len(q) = 3
  BY <1>1, <1>4 DEF Distinct
<1>5. CASE Len(q) = 4
  BY <1>1, <1>5 DEF Distinct
<1> QED  BY <1>2, <1>3, <1>4, <1>5

\* Without a full buffer there is one scan, of everything.
OneScan ==
  ~FullBuffer => /\ Len(pic.scans) = 1 /\ ~Frame.prog /\ ~pic.buffered
                 /\ \A c \in Comps : InScan(1, c)

LEMMA OneScanIs ==
  ASSUME NEW p \in Pictures, pic = SetUp(p), FrameFacts, ScanFacts
  PROVE  OneScan
<1> DEFINE n == Len(p.scans[1].comps)
<1>1. /\ pic.scans = p.scans /\ Frame = p.frame /\ pic.buffered = p.buffered
      /\ Image.multi = (n < Len(Frame.comps) \/ Frame.prog)
  BY DEF SetUp, Frame, Image, InitialSetup
<1>2. ScanComps(1) = p.scans[1].comps
  BY <1>1 DEF ScanComps
<1> SUFFICES ASSUME ~FullBuffer
             PROVE  /\ Len(pic.scans) = 1 /\ ~Frame.prog /\ ~pic.buffered
                    /\ \A c \in Comps : InScan(1, c)
  BY DEF OneScan
<1>3. ~Frame.prog /\ ~pic.buffered /\ ~(n < Len(Frame.comps))
  BY <1>1 DEF FullBuffer
<1>4. /\ Len(Frame.comps) \in Nat /\ Comps = 1..Len(Frame.comps)
      /\ ScanComps(1) \in Seq(Comps) /\ n \in 1..4 /\ Distinct(ScanComps(1))
  BY <1>2 DEF FrameFacts, ScanFacts
<1>5. n = Len(Frame.comps) /\ \A c \in Comps : \E k \in DOMAIN ScanComps(1) : ScanComps(1)[k] = c
  <2> DEFINE m == Len(Frame.comps)
             q == ScanComps(1)
  <2>1. /\ m \in Nat /\ q \in Seq(1..m) /\ Len(q) = n /\ n \in 1..4 /\ n >= m /\ Distinct(q)
    BY <1>2, <1>3, <1>4
  <2> HIDE DEF m, q, n
  <2>2. n = m /\ \A c \in 1..m : \E k \in DOMAIN q : q[k] = c
    BY <2>1, AllChosen
  <2> QED  BY <1>4, <2>2 DEF m, q
<1>6. Len(p.scans) = 1
  BY <1>1, <1>3, <1>5, PictureAssumption DEF Legal
<1> QED  BY <1>1, <1>3, <1>5, <1>6 DEF InScan

LEMMA CompFacts ==
  ASSUME FrameFacts, NEW c \in Comps
  PROVE  /\ Frame.comps[c].v \in Nat \ { 0 } /\ Frame.comps[c].h \in Nat \ { 0 }
         /\ Frame.comps[c].v <= MaxSampFactor /\ Frame.comps[c].h <= MaxSampFactor
         /\ Image.blocks[c].h \in Nat \ { 0 } /\ Image.blocks[c].w \in Nat \ { 0 }
         /\ Total \in Nat \ { 0 } /\ McuColumns \in Nat \ { 0 } /\ MaxSampFactor \in Nat \ { 0 }
         /\ (Total - 1) * Frame.comps[c].v < Image.blocks[c].h
         /\ Image.blocks[c].h <= Total * Frame.comps[c].v
         /\ (McuColumns - 1) * Frame.comps[c].h < Image.blocks[c].w
         /\ Image.blocks[c].w <= McuColumns * Frame.comps[c].h
<1>1. MaxSampFactor \in Nat \ { 0 }
  BY PictureAssumption
<1>2. Frame.comps[c].v \in 1..MaxSampFactor /\ Frame.comps[c].h \in 1..MaxSampFactor
  BY DEF FrameFacts
<1>3. /\ Frame.comps[c].v \in Nat \ { 0 } /\ Frame.comps[c].h \in Nat \ { 0 }
      /\ Frame.comps[c].v <= MaxSampFactor /\ Frame.comps[c].h <= MaxSampFactor
  BY <1>1, <1>2
<1> QED  BY <1>1, <1>3 DEF FrameFacts

\* What is left for the last MCU: all of it or a part.
LEMMA LastIs ==
  ASSUME FrameFacts, NEW c \in Comps
  PROVE  /\ LastOf(Image.blocks[c].h, Frame.comps[c].v) = Image.blocks[c].h - (Total - 1) * Frame.comps[c].v
         /\ LastOf(Image.blocks[c].w, Frame.comps[c].h) = Image.blocks[c].w - (McuColumns - 1) * Frame.comps[c].h
<1> DEFINE v == Frame.comps[c].v
           h == Frame.comps[c].h
           bh == Image.blocks[c].h
           bw == Image.blocks[c].w
           t == Total
           w == McuColumns
<1>1. /\ v \in Nat \ { 0 } /\ bh \in Nat \ { 0 } /\ t \in Nat \ { 0 }
      /\ (t - 1) * v < bh /\ bh <= t * v
  BY CompFacts
<1>2. /\ h \in Nat \ { 0 } /\ bw \in Nat \ { 0 } /\ w \in Nat \ { 0 }
      /\ (w - 1) * h < bw /\ bw <= w * h
  BY CompFacts
<1> HIDE DEF v, h, bh, bw, t, w
<1>3. LastOf(bh, v) = bh - (t - 1) * v
  BY <1>1, LastOfFacts, Zenon
<1>4. LastOf(bw, h) = bw - (w - 1) * h
  BY <1>2, LastOfFacts, Zenon
<1> QED  BY <1>3, <1>4 DEF v, h, bh, bw, t, w

\* Rounding up once more changes nothing.
LEMMA RoundUpIs ==
  ASSUME FrameFacts, NEW c \in Comps
  PROVE  /\ RoundUp(Image.blocks[c].h, Frame.comps[c].v) = Total
         /\ RoundUp(Image.blocks[c].w, Frame.comps[c].h) = McuColumns
<1>1. ASSUME NEW b \in Nat \ { 0 }, NEW t \in Nat \ { 0 }, NEW v \in Nat \ { 0 },
             (t - 1) * v < b, b <= t * v
      PROVE  RoundUp(b, v) = t
  <2> DEFINE q == RoundUp(b, v)
  <2>1. q \in Nat \ { 0 } /\ (q - 1) * v < b /\ b <= q * v
    BY RoundUpFacts
  <2> HIDE DEF q
  <2>2. (q - 1) * v < t * v /\ (t - 1) * v < q * v
    BY <1>1, <2>1
  <2>3. q - 1 < t
    BY <2>1, <2>2, LessFactor
  <2>4. t - 1 < q
    BY <2>1, <2>2, LessFactor
  <2> QED  BY <2>1, <2>3, <2>4 DEF q
<1> DEFINE v == Frame.comps[c].v
           h == Frame.comps[c].h
           bh == Image.blocks[c].h
           bw == Image.blocks[c].w
<1>2. /\ v \in Nat \ { 0 } /\ h \in Nat \ { 0 } /\ bh \in Nat \ { 0 } /\ bw \in Nat \ { 0 }
      /\ Total \in Nat \ { 0 } /\ McuColumns \in Nat \ { 0 }
      /\ (Total - 1) * v < bh /\ bh <= Total * v
      /\ (McuColumns - 1) * h < bw /\ bw <= McuColumns * h
  BY CompFacts
<1> HIDE DEF v, h, bh, bw
<1>3. RoundUp(bh, v) = Total
  BY <1>1, <1>2
<1>4. RoundUp(bw, h) = McuColumns
  BY <1>1, <1>2
<1> QED  BY <1>3, <1>4 DEF v, h, bh, bw

\* per_scan_setup for a scan of one component, and of several.
LEMMA SingleIs ==
  ASSUME FrameFacts, ScanFacts, NEW s \in 1..Len(pic.scans), Len(ScanComps(s)) = 1
  PROVE  LET c == ScanComps(s)[1]  r == pic.perScan[s] IN
         /\ c \in Comps /\ r.mcusPerRow = Image.blocks[c].w
         /\ Len(r.comps) = 1 /\ DOMAIN r.comps = { 1 }
         /\ r.comps[1] = [c |-> c, w |-> 1, h |-> 1, lastCol |-> 1,
                          lastRow |-> Image.blocks[c].h - (Total - 1) * Frame.comps[c].v]
<1>1. /\ ScanComps(s) \in Seq(Comps) /\ 1 \in DOMAIN ScanComps(s)
      /\ pic.perScan[s] = SingleScan(Frame, Image, ScanComps(s)[1])
  BY DEF ScanFacts, PerScanSetup
<1>2. ScanComps(s)[1] \in Comps
  <2> DEFINE q == ScanComps(s)
             C == Comps
  <2>1. q \in Seq(C) /\ 1 \in DOMAIN q
    BY <1>1
  <2> HIDE DEF q, C
  <2>2. q[1] \in C
    BY <2>1
  <2> QED  BY <2>2 DEF q, C
<1> QED  BY <1>1, <1>2, LastIs DEF SingleScan

LEMMA InterleavedIs ==
  ASSUME FrameFacts, ScanFacts, NEW s \in 1..Len(pic.scans), Len(ScanComps(s)) # 1
  PROVE  LET q == ScanComps(s)  r == pic.perScan[s] IN
         /\ r.mcusPerRow = McuColumns
         /\ Len(r.comps) = Len(q) /\ Len(q) \in 2..4
         /\ DOMAIN r.comps = 1..Len(q) /\ DOMAIN q = 1..Len(q)
         /\ \A k \in 1..Len(q) :
              /\ q[k] \in Comps
              /\ r.comps[k] = [c |-> q[k], w |-> Frame.comps[q[k]].h, h |-> Frame.comps[q[k]].v,
                               lastCol |-> Image.blocks[q[k]].w - (McuColumns - 1) * Frame.comps[q[k]].h,
                               lastRow |-> Image.blocks[q[k]].h - (Total - 1) * Frame.comps[q[k]].v]
<1> DEFINE q == ScanComps(s)
           r == pic.perScan[s]
<1>1. /\ q \in Seq(Comps) /\ Len(q) \in 1..4
      /\ r = InterleavedScan(Frame, Image, q)
  BY DEF ScanFacts, PerScanSetup
<1>2. /\ DOMAIN q = 1..Len(q) /\ \A k \in 1..Len(q) : q[k] \in Comps
  BY <1>1
<1> HIDE DEF q
<1>8. PICK o : r = [mcusPerRow |-> McuColumns, mcuRows |-> RoundUp(Frame.height, Image.maxV * Image.blockSize),
                    comps |-> [k \in DOMAIN q |->
                      [c |-> q[k], w |-> Frame.comps[q[k]].h, h |-> Frame.comps[q[k]].v,
                       lastCol |-> LastOf(Image.blocks[q[k]].w, Frame.comps[q[k]].h),
                       lastRow |-> LastOf(Image.blocks[q[k]].h, Frame.comps[q[k]].v)]],
                    membership |-> o]
  BY <1>1 DEF InterleavedScan, McuColumns
<1>3. /\ r.mcusPerRow = McuColumns
      /\ r.comps = [k \in DOMAIN q |->
                      [c |-> q[k], w |-> Frame.comps[q[k]].h, h |-> Frame.comps[q[k]].v,
                       lastCol |-> LastOf(Image.blocks[q[k]].w, Frame.comps[q[k]].h),
                       lastRow |-> LastOf(Image.blocks[q[k]].h, Frame.comps[q[k]].v)]]
  BY <1>8
<1> HIDE DEF r
<1>4. DOMAIN r.comps = 1..Len(q) /\ Len(r.comps) = Len(q)
  <2>1. r.comps = [k \in 1..Len(q) |-> r.comps[k]]
    BY <1>2, <1>3
  <2>2. Len(q) \in Nat
    BY <1>1
  <2> QED  BY <2>1, <2>2
<1>5. \A k \in 1..Len(q) :
        r.comps[k] = [c |-> q[k], w |-> Frame.comps[q[k]].h, h |-> Frame.comps[q[k]].v,
                      lastCol |-> Image.blocks[q[k]].w - (McuColumns - 1) * Frame.comps[q[k]].h,
                      lastRow |-> Image.blocks[q[k]].h - (Total - 1) * Frame.comps[q[k]].v]
  <2> SUFFICES ASSUME NEW k \in 1..Len(q)
               PROVE  r.comps[k] = [c |-> q[k], w |-> Frame.comps[q[k]].h, h |-> Frame.comps[q[k]].v,
                        lastCol |-> Image.blocks[q[k]].w - (McuColumns - 1) * Frame.comps[q[k]].h,
                        lastRow |-> Image.blocks[q[k]].h - (Total - 1) * Frame.comps[q[k]].v]
    OBVIOUS
  <2>1. q[k] \in Comps /\ k \in DOMAIN q
    BY <1>2
  <2> DEFINE c == q[k]
  <2>2. r.comps[k] = [c |-> c, w |-> Frame.comps[c].h, h |-> Frame.comps[c].v,
                      lastCol |-> LastOf(Image.blocks[c].w, Frame.comps[c].h),
                      lastRow |-> LastOf(Image.blocks[c].h, Frame.comps[c].v)]
    BY <1>3, <2>1
  <2> HIDE DEF c
  <2>3. /\ LastOf(Image.blocks[c].h, Frame.comps[c].v) = Image.blocks[c].h - (Total - 1) * Frame.comps[c].v
        /\ LastOf(Image.blocks[c].w, Frame.comps[c].h) = Image.blocks[c].w - (McuColumns - 1) * Frame.comps[c].h
    BY <2>1, LastIs DEF c
  <2>4. r.comps[k] = [c |-> c, w |-> Frame.comps[c].h, h |-> Frame.comps[c].v,
                      lastCol |-> Image.blocks[c].w - (McuColumns - 1) * Frame.comps[c].h,
                      lastRow |-> Image.blocks[c].h - (Total - 1) * Frame.comps[c].v]
    BY <2>2, <2>3
  <2> QED  BY <2>4 DEF c
<1>6. Len(q) \in 2..4
  BY <1>1 DEF q
<1> QED  BY <1>2, <1>3, <1>4, <1>5, <1>6 DEF q, r

-----------------------------------------------------------------------------
(* The blocks of an MCU before those of a component, counted by the code as *)
(* it goes and by the format over the components before it                  *)

Sum(x, n) ==
  IF n = 0 THEN 0 ELSE IF n = 1 THEN x[1] ELSE IF n = 2 THEN x[1] + x[2]
  ELSE IF n = 3 THEN x[1] + x[2] + x[3] ELSE x[1] + x[2] + x[3] + x[4]

LEMMA SumSame ==
  ASSUME NEW j \in 0..3, NEW x, NEW y, \A i \in 1..j : x[i] = y[i] /\ x[i] \in Nat
  PROVE  Sum(x, j) = Sum(y, j) /\ Sum(x, j) \in Nat
<1>1. CASE j = 0
  BY <1>1 DEF Sum
<1>2. CASE j = 1
  <2>1. x[1] = y[1] /\ x[1] \in Nat
    BY <1>2
  <2> QED  BY <1>2, <2>1 DEF Sum
<1>3. CASE j = 2
  <2>1. x[1] = y[1] /\ x[1] \in Nat /\ x[2] = y[2] /\ x[2] \in Nat
    BY <1>3
  <2> QED  BY <1>3, <2>1 DEF Sum
<1>4. CASE j = 3
  <2>1. x[1] = y[1] /\ x[1] \in Nat /\ x[2] = y[2] /\ x[2] \in Nat /\ x[3] = y[3] /\ x[3] \in Nat
    BY <1>4
  <2> QED  BY <1>4, <2>1 DEF Sum
<1> QED  BY <1>1, <1>2, <1>3, <1>4

LEMMA SumStep ==
  ASSUME NEW x, NEW i \in 1..4, i = 1 => x[1] \in Nat
  PROVE  Sum(x, i) = Sum(x, i - 1) + x[i]
<1>1. i = 1 \/ i = 2 \/ i = 3 \/ i = 4
  OBVIOUS
<1>2. CASE i = 1
  BY <1>2 DEF Sum
<1>3. CASE i = 2
  BY <1>3 DEF Sum
<1>4. CASE i = 3
  BY <1>4 DEF Sum
<1>5. CASE i = 4
  BY <1>5 DEF Sum
<1> QED  BY <1>1, <1>2, <1>3, <1>4, <1>5

LEMMA RunningSum ==
  ASSUME NEW n \in 0..4, NEW x, \A i \in 1..n : x[i] \in Nat
  PROVE  /\ \E b : b = [i \in 0..n |-> IF i = 0 THEN 0 ELSE b[i - 1] + x[i]]
         /\ \A b : (\A i \in 0..n : b[i] = IF i = 0 THEN 0 ELSE b[i - 1] + x[i]) =>
                     \A j \in 0..n : b[j] = Sum(x, j)
<1>1. \E b : b = [i \in 0..n |-> IF i = 0 THEN 0 ELSE b[i - 1] + x[i]]
  <2> DEFINE g == [i \in 0..n |-> Sum(x, i)]
  <2>1. \A i \in 0..n : g[i] = IF i = 0 THEN 0 ELSE g[i - 1] + x[i]
    <3> SUFFICES ASSUME NEW i \in 0..n PROVE g[i] = IF i = 0 THEN 0 ELSE g[i - 1] + x[i]
      OBVIOUS
    <3>1. g[i] = Sum(x, i) /\ (i # 0 => i \in 1..4 /\ i - 1 \in 0..n)
      OBVIOUS
    <3>2. i # 0 => g[i - 1] = Sum(x, i - 1)
      BY <3>1
    <3> HIDE DEF g
    <3>3. CASE i = 0
      BY <3>1, <3>3 DEF Sum
    <3>4. CASE i # 0
      <4>1. Sum(x, i) = Sum(x, i - 1) + x[i]
        <5>1. i = 1 => x[1] \in Nat
          OBVIOUS
        <5> QED  BY <3>1, <3>4, <5>1, SumStep
      <4> QED  BY <3>1, <3>2, <3>4, <4>1
    <3> QED  BY <3>3, <3>4
  <2>2. g = [i \in 0..n |-> IF i = 0 THEN 0 ELSE g[i - 1] + x[i]]
    BY <2>1
  <2> QED  BY <2>2
<1>2. ASSUME NEW b, \A i \in 0..n : b[i] = IF i = 0 THEN 0 ELSE b[i - 1] + x[i], NEW j \in 0..n
      PROVE  b[j] = Sum(x, j)
  <2>1. \A i \in 0..n : b[i] = IF i = 0 THEN 0 ELSE b[i - 1] + x[i]
    BY <1>2
  <2>2. b[0] = 0
    BY <2>1
  <2>3. n >= 1 => b[1] = x[1]
    BY <2>1, <2>2
  <2>4. n >= 2 => b[2] = x[1] + x[2]
    BY <2>1, <2>3
  <2>5. n >= 3 => b[3] = x[1] + x[2] + x[3]
    BY <2>1, <2>4
  <2>6. n >= 4 => b[4] = x[1] + x[2] + x[3] + x[4]
    BY <2>1, <2>5
  <2> QED  BY <2>2, <2>3, <2>4, <2>5, <2>6 DEF Sum
<1> QED  BY <1>1, <1>2

LEMMA FirstBlockIs ==
  ASSUME NEW k \in 1..4, \A i \in 1..k : Scan.comps[i].w * Scan.comps[i].h \in Nat
  PROVE  FirstBlock(k) = Sum([i \in 1..k |-> Scan.comps[i].w * Scan.comps[i].h], k - 1)
<1> DEFINE x == [i \in 1..k |-> Scan.comps[i].w * Scan.comps[i].h]
           f == CHOOSE b : b = [i \in 0..k |-> IF i = 0 THEN 0
                                               ELSE b[i - 1] + Scan.comps[i].w * Scan.comps[i].h]
<1>1. \A i \in 1..k : x[i] = Scan.comps[i].w * Scan.comps[i].h /\ x[i] \in Nat
  OBVIOUS
<1> HIDE DEF x
<1>0. k \in 0..4
  OBVIOUS
<1>2. PICK b : b = [i \in 0..k |-> IF i = 0 THEN 0 ELSE b[i - 1] + x[i]]
  BY <1>0, <1>1, RunningSum
<1>3. b = [i \in 0..k |-> IF i = 0 THEN 0 ELSE b[i - 1] + Scan.comps[i].w * Scan.comps[i].h]
  <2>1. ASSUME NEW i \in 0..k
        PROVE  (IF i = 0 THEN 0 ELSE b[i - 1] + x[i])
                 = (IF i = 0 THEN 0 ELSE b[i - 1] + Scan.comps[i].w * Scan.comps[i].h)
    <3>1. i # 0 => i \in 1..k
      OBVIOUS
    <3> QED  BY <1>1, <3>1
  <2>2. [i \in 0..k |-> IF i = 0 THEN 0 ELSE b[i - 1] + x[i]]
          = [i \in 0..k |-> IF i = 0 THEN 0 ELSE b[i - 1] + Scan.comps[i].w * Scan.comps[i].h]
    BY <2>1, Zenon
  <2> QED  BY <1>2, <2>2
<1>4. f = [i \in 0..k |-> IF i = 0 THEN 0 ELSE f[i - 1] + Scan.comps[i].w * Scan.comps[i].h]
  BY <1>3
<1>5. FirstBlock(k) = f[k - 1]
  BY DEF FirstBlock
<1> HIDE DEF f
<1>6. \A i \in 0..k : f[i] = IF i = 0 THEN 0 ELSE f[i - 1] + x[i]
  <2> SUFFICES ASSUME NEW i \in 0..k PROVE f[i] = IF i = 0 THEN 0 ELSE f[i - 1] + x[i]
    OBVIOUS
  <2>1. f[i] = IF i = 0 THEN 0 ELSE f[i - 1] + Scan.comps[i].w * Scan.comps[i].h
    BY <1>4
  <2>2. i # 0 => i \in 1..k
    OBVIOUS
  <2> QED  BY <1>1, <2>1, <2>2
<1>7. \A j \in 0..k : f[j] = Sum(x, j)
  <2>1. \A i \in 1..k : x[i] \in Nat
    BY <1>1
  <2> QED  BY <1>0, <1>6, <2>1, RunningSum
<1>8. k - 1 \in 0..k
  OBVIOUS
<1> QED  BY <1>5, <1>7, <1>8 DEF x

LEMMA McuBlocksAre ==
  ASSUME NEW f, NEW q, Len(q) \in 0..4,
         \A i \in 1..Len(q) : f.comps[q[i]].h * f.comps[q[i]].v \in Nat
  PROVE  ScanMcuBlocks(f, q) = Sum([i \in 1..Len(q) |-> f.comps[q[i]].h * f.comps[q[i]].v], Len(q))
<1> DEFINE n == Len(q)
           x == [i \in 1..n |-> f.comps[q[i]].h * f.comps[q[i]].v]
           g == CHOOSE b : b = [i \in 0..n |-> IF i = 0 THEN 0
                                               ELSE b[i - 1] + f.comps[q[i]].h * f.comps[q[i]].v]
<1>0. n \in 0..4 /\ \A i \in 1..n : f.comps[q[i]].h * f.comps[q[i]].v \in Nat
  OBVIOUS
<1>5. ScanMcuBlocks(f, q) = g[n]
  BY DEF ScanMcuBlocks
<1> HIDE DEF n
<1>1. \A i \in 1..n : x[i] = f.comps[q[i]].h * f.comps[q[i]].v /\ x[i] \in Nat
  BY <1>0
<1> HIDE DEF x
<1>2. PICK b : b = [i \in 0..n |-> IF i = 0 THEN 0 ELSE b[i - 1] + x[i]]
  BY <1>0, <1>1, RunningSum
<1>3. b = [i \in 0..n |-> IF i = 0 THEN 0 ELSE b[i - 1] + f.comps[q[i]].h * f.comps[q[i]].v]
  BY <1>0, <1>1, <1>2
<1>4. g = [i \in 0..n |-> IF i = 0 THEN 0 ELSE g[i - 1] + f.comps[q[i]].h * f.comps[q[i]].v]
  BY <1>3
<1> HIDE DEF g
<1>6. \A i \in 0..n : g[i] = IF i = 0 THEN 0 ELSE g[i - 1] + x[i]
  <2> SUFFICES ASSUME NEW i \in 0..n PROVE g[i] = IF i = 0 THEN 0 ELSE g[i - 1] + x[i]
    OBVIOUS
  <2>1. g[i] = IF i = 0 THEN 0 ELSE g[i - 1] + f.comps[q[i]].h * f.comps[q[i]].v
    BY <1>4
  <2>2. i # 0 => i \in 1..n
    BY <1>0
  <2> QED  BY <1>1, <2>1, <2>2
<1>7. \A j \in 0..n : g[j] = Sum(x, j)
  BY <1>0, <1>1, <1>6, RunningSum
<1> QED  BY <1>0, <1>5, <1>7 DEF x, n

LEMMA AheadIs ==
  ASSUME FrameFacts, ScanFacts, inp.scan \in 1..Len(pic.scans), Len(ScanComps(inp.scan)) # 1,
         NEW k \in 1..Len(ScanComps(inp.scan))
  PROVE  /\ FirstBlock(k) = Ahead(inp.scan, ScanComps(inp.scan)[k])
         /\ FirstBlock(k) \in Nat
<1> DEFINE q == ScanComps(inp.scan)
           a(i) == Frame.comps[q[i]].h * Frame.comps[q[i]].v
           r == SubSeq(q, 1, k - 1)
           x == [i \in 1..k |-> Scan.comps[i].w * Scan.comps[i].h]
           y == [i \in 1..Len(r) |-> Frame.comps[r[i]].h * Frame.comps[r[i]].v]
<1>1. /\ Len(q) \in 2..4 /\ DOMAIN q = 1..Len(q) /\ q \in Seq(Comps) /\ Distinct(q)
      /\ \A i \in 1..Len(q) : q[i] \in Comps
      /\ \A i \in 1..Len(q) : Scan.comps[i].w = Frame.comps[q[i]].h /\ Scan.comps[i].h = Frame.comps[q[i]].v
  <2>1. q \in Seq(Comps) /\ Distinct(q)
    BY DEF ScanFacts
  <2>2. /\ Len(q) \in 2..4 /\ DOMAIN q = 1..Len(q)
        /\ \A i \in 1..Len(q) :
             /\ q[i] \in Comps
             /\ pic.perScan[inp.scan].comps[i] =
                  [c |-> q[i], w |-> Frame.comps[q[i]].h, h |-> Frame.comps[q[i]].v,
                   lastCol |-> Image.blocks[q[i]].w - (McuColumns - 1) * Frame.comps[q[i]].h,
                   lastRow |-> Image.blocks[q[i]].h - (Total - 1) * Frame.comps[q[i]].v]
    BY InterleavedIs
  <2> HIDE DEF q
  <2>3. \A i \in 1..Len(q) : Scan.comps[i].w = Frame.comps[q[i]].h /\ Scan.comps[i].h = Frame.comps[q[i]].v
    <3> SUFFICES ASSUME NEW i \in 1..Len(q)
                 PROVE  Scan.comps[i].w = Frame.comps[q[i]].h /\ Scan.comps[i].h = Frame.comps[q[i]].v
      OBVIOUS
    <3>1. Scan.comps[i] =
                  [c |-> q[i], w |-> Frame.comps[q[i]].h, h |-> Frame.comps[q[i]].v,
                   lastCol |-> Image.blocks[q[i]].w - (McuColumns - 1) * Frame.comps[q[i]].h,
                   lastRow |-> Image.blocks[q[i]].h - (Total - 1) * Frame.comps[q[i]].v]
      BY <2>2 DEF Scan
    <3> QED  BY <3>1
  <2> QED  BY <2>1, <2>2, <2>3
<1>2. k \in 1..4 /\ \A i \in 1..k : a(i) \in Nat /\ Scan.comps[i].w * Scan.comps[i].h = a(i)
  <2> DEFINE n == Len(q)
  <2>0. n \in 2..4 /\ k \in 1..n
    BY <1>1
  <2>1. \A i \in 1..k : i \in 1..n
    <3> HIDE DEF n
    <3> QED  BY <2>0
  <2>2. ASSUME NEW i \in 1..k
        PROVE  a(i) \in Nat /\ Scan.comps[i].w * Scan.comps[i].h = a(i)
    <3>1. i \in 1..n
      BY <2>1
    <3>2. /\ q[i] \in Comps
          /\ Scan.comps[i].w = Frame.comps[q[i]].h /\ Scan.comps[i].h = Frame.comps[q[i]].v
      BY <1>1, <3>1
    <3>3. Frame.comps[q[i]].h \in Nat /\ Frame.comps[q[i]].v \in Nat
      BY <3>2, CompFacts
    <3> QED  BY <3>2, <3>3
  <2>3. k \in 1..4
    <3> HIDE DEF n
    <3> QED  BY <2>0
  <2> QED  BY <2>2, <2>3
<1>3. FirstBlock(k) = Sum(x, k - 1)
  BY <1>2, FirstBlockIs
<1>4. Len(r) = k - 1 /\ \A i \in 1..(k - 1) : r[i] = q[i]
  <2> HIDE DEF q
  <2>1. \A i \in 1..(k - 1) : q[i] \in Comps
    <3> DEFINE n == Len(q)
    <3>1. n \in 2..4 /\ k \in 1..n /\ \A i \in 1..n : q[i] \in Comps
      BY <1>1 DEF q
    <3> HIDE DEF n
    <3> QED  BY <3>1
  <2>2. 1 \in Int /\ k - 1 \in Int
    BY <1>2
  <2>3. /\ Len(r) = IF 1 <= k - 1 THEN k - 1 - 1 + 1 ELSE 0
        /\ \A i \in 1 .. k - 1 - 1 + 1 : r[i] = q[1 + i - 1]
    BY <2>1, <2>2, SubSeqProperties
  <2> HIDE DEF r
  <2> QED  BY <1>2, <2>3
<1>5. (CHOOSE i \in DOMAIN q : q[i] = q[k]) = k
  BY <1>1 DEF Distinct
<1>6. Ahead(inp.scan, q[k]) = ScanMcuBlocks(Frame, r)
  BY <1>5 DEF Ahead
<1> HIDE DEF q, r
<1>7. /\ Len(r) \in 0..4
      /\ \A i \in 1..Len(r) : Frame.comps[r[i]].h * Frame.comps[r[i]].v = a(i) /\ a(i) \in Nat
  BY <1>2, <1>4
<1>8. ScanMcuBlocks(Frame, r) = Sum(y, k - 1)
  BY <1>4, <1>7, McuBlocksAre
<1>9. \A i \in 1..(k - 1) : x[i] = a(i) /\ y[i] = a(i) /\ a(i) \in Nat
  BY <1>2, <1>4, <1>7
<1> HIDE DEF x, y, a
<1>10. Sum(x, k - 1) = Sum(y, k - 1) /\ Sum(x, k - 1) \in Nat
  <2> DEFINE j == k - 1
  <2>1. j \in 0..3 /\ \A i \in 1..j : x[i] = y[i] /\ x[i] \in Nat
    BY <1>2, <1>9
  <2> HIDE DEF j
  <2>2. Sum(x, j) = Sum(y, j) /\ Sum(x, j) \in Nat
    BY <2>1, SumSame
  <2> QED  BY <2>2 DEF j
<1> QED  BY <1>3, <1>6, <1>8, <1>10 DEF q

-----------------------------------------------------------------------------
(* The MCU at hand                                                          *)

\* The input side is inside a scan.
Within ==
  /\ inp.scan \in 1..Len(pic.scans) /\ inp.row \in 0..(Total - 1)
  /\ inp.vert \in Nat /\ inp.vert < RowsPerIMcuRow(inp.scan, inp.row)
  /\ inp.ctr \in 0..(Scan.mcusPerRow - 1)

\* Block p is in the MCU at hand.
AtHand(p) ==
  LET v == Frame.comps[p[1]].v IN
  /\ p[2] \div v = inp.row
  /\ IF Len(ScanComps(inp.scan)) = 1
     THEN p[2] % v = inp.vert /\ p[3] = inp.ctr
     ELSE p[3] \div Frame.comps[p[1]].h = inp.ctr

LEMMA RealIs ==
  ASSUME FrameFacts, NEW p
  PROVE  p \in RealBlocks <=>
           \E c \in Comps : \E y \in 0..(Image.blocks[c].h - 1) : \E x \in 0..(Image.blocks[c].w - 1) :
             p = << c, y, x >>
BY DEF RealBlocks

LEMMA RealTyped ==
  ASSUME FrameFacts, NEW p \in RealBlocks
  PROVE  /\ p = << p[1], p[2], p[3] >> /\ p[1] \in Comps /\ p[2] \in Nat /\ p[3] \in Nat
         /\ p[2] < Image.blocks[p[1]].h /\ p[3] < Image.blocks[p[1]].w
         /\ Real(p) /\ p \in Triples
<1>0. PICK c \in Comps :
        \E y \in 0..(Image.blocks[c].h - 1) : \E x \in 0..(Image.blocks[c].w - 1) : p = << c, y, x >>
  BY RealIs
<1>1. PICK y \in 0..(Image.blocks[c].h - 1), x \in 0..(Image.blocks[c].w - 1) : p = << c, y, x >>
  BY <1>0
<1>2. Image.blocks[c].h \in Nat /\ Image.blocks[c].w \in Nat /\ c \in Nat
  BY CompFacts DEF FrameFacts
<1>3. y \in Nat /\ x \in Nat /\ y < Image.blocks[c].h /\ x < Image.blocks[c].w
  BY <1>1, <1>2
<1> QED  BY <1>1, <1>2, <1>3 DEF Real, Triples

\* The rows of blocks of the iMCU row, for a scan of one component: all, or those that are left.
LEMMA RowsIs ==
  ASSUME FrameFacts, ScanFacts, NEW s \in 1..Len(pic.scans), NEW row \in 0..(Total - 1)
  PROVE  /\ Len(ScanComps(s)) # 1 => RowsPerIMcuRow(s, row) = 1
         /\ Len(ScanComps(s)) = 1 =>
              LET c == ScanComps(s)[1] IN
              /\ c \in Comps
              /\ RowsPerIMcuRow(s, row) = IF row < Total - 1 THEN Frame.comps[c].v
                                          ELSE Image.blocks[c].h - (Total - 1) * Frame.comps[c].v
         /\ RowsPerIMcuRow(s, row) \in 1..MaxSampFactor
<1>1. CASE Len(ScanComps(s)) # 1
  <2>1. Len(ScanComps(s)) > 1
    <3> DEFINE n == Len(ScanComps(s))
    <3>1. n \in 1..4 /\ n # 1
      BY <1>1 DEF ScanFacts
    <3> HIDE DEF n
    <3>2. n > 1
      BY <3>1
    <3> QED  BY <3>2 DEF n
  <2>2. RowsPerIMcuRow(s, row) = 1
    BY <2>1 DEF RowsPerIMcuRow
  <2>3. 1 \in 1..MaxSampFactor
    BY PictureAssumption
  <2> QED  BY <1>1, <2>2, <2>3
<1>2. CASE Len(ScanComps(s)) = 1
  <2> DEFINE c == ScanComps(s)[1]
             v == Frame.comps[c].v
             bh == Image.blocks[c].h
             l == pic.perScan[s].comps[1].lastRow
  <2>1. c \in Comps /\ l = bh - (Total - 1) * v
    <3>1. /\ c \in Comps
          /\ pic.perScan[s].comps[1] = [c |-> c, w |-> 1, h |-> 1, lastCol |-> 1,
                                        lastRow |-> bh - (Total - 1) * v]
      BY <1>2, SingleIs
    <3> QED  BY <3>1
  <2>2. RowsPerIMcuRow(s, row) = IF row < Total - 1 THEN v ELSE l
    BY <1>2 DEF RowsPerIMcuRow, LastIMcuRow, Total
  <2>3. /\ v \in Nat \ { 0 } /\ v <= MaxSampFactor /\ bh \in Nat /\ Total \in Nat /\ MaxSampFactor \in Nat
        /\ (Total - 1) * v < bh /\ bh <= Total * v
    BY <2>1, CompFacts
  <2>4. Total * v = (Total - 1) * v + v
    BY <2>3
  <2> HIDE DEF v, bh, l
  <2>5. l \in 1..MaxSampFactor
    BY <2>1, <2>3, <2>4
  <2> QED  BY <1>2, <2>1, <2>2, <2>3, <2>5 DEF v, bh
<1> QED  BY <1>1, <1>2

\* The one block of an MCU, in a scan of one component.
LEMMA SingleBlock ==
  ASSUME FrameFacts, ScanFacts, Within, Len(ScanComps(inp.scan)) = 1
  PROVE  LET c == ScanComps(inp.scan)[1]
             v == Frame.comps[c].v
             y == inp.row * v + inp.vert
             b == << 1, 0, 0 >>
         IN
         /\ { d \in McuBlocks : InMcu(d) } = { b } /\ Useful(b)
         /\ c \in Comps /\ y \in Nat /\ y < Image.blocks[c].h
         /\ inp.ctr \in Nat /\ inp.ctr < Image.blocks[c].w
         /\ y \div v = inp.row /\ y % v = inp.vert
         /\ Target(b) = << c, y, inp.ctr >>
         /\ Coefs(b) = << inp.scan, y * Image.blocks[c].w + inp.ctr, 0 >>
<1> DEFINE c == ScanComps(inp.scan)[1]
           v == Frame.comps[c].v
           bh == Image.blocks[c].h
           bw == Image.blocks[c].w
           y == inp.row * v + inp.vert
           b == << 1, 0, 0 >>
<1>1. /\ c \in Comps /\ Scan.mcusPerRow = bw /\ Len(Scan.comps) = 1 /\ DOMAIN Scan.comps = { 1 }
      /\ Scan.comps[1] = [c |-> c, w |-> 1, h |-> 1, lastCol |-> 1, lastRow |-> bh - (Total - 1) * v]
  BY SingleIs DEF Within, Scan
<1>2. /\ Scan.comps[1].c = c /\ Scan.comps[1].w = 1 /\ Scan.comps[1].h = 1
      /\ Scan.comps[1].lastCol = 1 /\ Scan.comps[1].lastRow = bh - (Total - 1) * v
  BY <1>1
<1>3. inp.vert < IF inp.row < Total - 1 THEN v ELSE bh - (Total - 1) * v
  BY RowsIs DEF Within
<1>4. /\ v \in Nat \ { 0 } /\ bh \in Nat \ { 0 } /\ bw \in Nat \ { 0 } /\ Total \in Nat \ { 0 }
      /\ (Total - 1) * v < bh /\ bh <= Total * v /\ MaxSampFactor \in Nat \ { 0 }
  BY <1>1, CompFacts
<1>5. /\ inp.row \in 0..(Total - 1) /\ inp.vert \in Nat /\ inp.ctr \in 0..(bw - 1)
  BY <1>1 DEF Within
<1>6. { d \in McuBlocks : InMcu(d) } = { b }
  <2>1. McuBlocks = { << k, j, i >> : k \in { 1 }, j \in 0..(MaxSampFactor - 1), i \in 0..(MaxSampFactor - 1) }
    BY <1>1 DEF McuBlocks
  <2>2. b \in McuBlocks /\ InMcu(b)
    BY <1>2, <1>4, <2>1 DEF InMcu
  <2>3. ASSUME NEW d \in McuBlocks, InMcu(d)
        PROVE  d = b
    <3>1. PICK j \in 0..(MaxSampFactor - 1), i \in 0..(MaxSampFactor - 1) : d = << 1, j, i >>
      BY <2>1
    <3>2. j < 1 /\ i < 1
      BY <1>2, <2>3, <3>1 DEF InMcu
    <3>3. j = 0 /\ i = 0
      BY <1>4, <3>1, <3>2
    <3> QED  BY <3>1, <3>3
  <2> QED  BY <2>2, <2>3
<1>7. Total * v = (Total - 1) * v + v /\ (Total - 1) * v \in Nat /\ inp.row * v \in Nat
  BY <1>4, <1>5
<1>8. inp.vert < v
  <2> DEFINE z == (Total - 1) * v
             w == Total * v
  <2>1. /\ inp.vert < IF inp.row < Total - 1 THEN v ELSE bh - z
        /\ bh \in Nat /\ bh <= w /\ w = z + v /\ z \in Nat /\ v \in Nat /\ inp.vert \in Nat
    BY <1>3, <1>4, <1>5, <1>7
  <2> HIDE DEF z, w, v, bh
  <2> QED  BY <2>1
<1>9. y \in Nat /\ y < bh /\ inp.ctr \in Nat /\ inp.ctr < bw
  <2>1. CASE inp.row < Total - 1
    <3>1. (inp.row + 1) * v <= (Total - 1) * v
      BY <1>4, <1>5, <2>1
    <3>2. (inp.row + 1) * v = inp.row * v + v
      BY <1>4, <1>5
    <3> QED  BY <1>4, <1>5, <1>7, <1>8, <3>1, <3>2
  <2>2. CASE inp.row = Total - 1
    BY <1>3, <1>4, <1>5, <1>7, <2>2
  <2> QED  BY <1>4, <1>5, <2>1, <2>2
<1>10. y \div v = inp.row /\ y % v = inp.vert
  <2> DEFINE r == inp.row
             n == inp.vert
  <2>1. r \in Nat /\ n \in 0..(v - 1) /\ v \in Nat \ { 0 }
    BY <1>4, <1>5, <1>8
  <2> HIDE DEF r, n, v
  <2>2. (r * v + n) \div v = r /\ (r * v + n) % v = n
    BY <2>1, DivUnique
  <2> QED  BY <2>2 DEF r, n
<1>11. Target(b) = << c, y, inp.ctr >>
  BY <1>2, <1>5, <1>7 DEF Target
<1>12. FirstBlock(1) = 0
  <2>1. \A i \in 1..1 : Scan.comps[i].w * Scan.comps[i].h \in Nat
    BY <1>2
  <2> QED  BY <2>1, FirstBlockIs DEF Sum
<1>13. Coefs(b) = << inp.scan, y * bw + inp.ctr, 0 >>
  <2>1. Mcu = y * bw + inp.ctr
    BY <1>1, <1>2 DEF Mcu
  <2> QED  BY <1>2, <1>12, <2>1 DEF Coefs
<1>14. Useful(b)
  BY <1>2, <1>3, <1>5 DEF Useful, LastIMcuRow, Total
<1> QED  BY <1>1, <1>6, <1>9, <1>10, <1>11, <1>13, <1>14

\* Whether x = m * h + n, in the m-th of t parts of h, is below b.
LEMMA InPart ==
  ASSUME NEW t \in Nat \ { 0 }, NEW h \in Nat \ { 0 }, NEW b \in Nat, NEW m \in 0..(t - 1),
         NEW n \in 0..(h - 1), (t - 1) * h < b
  PROVE  /\ m * h + n \in Nat /\ m * h + n < t * h
         /\ (m * h + n) \div h = m /\ (m * h + n) % h = n
         /\ m * h + n < b <=> m < t - 1 \/ n < b - (t - 1) * h
<1>1. m \in Nat /\ m * h \in Nat /\ (t - 1) * h \in Nat /\ t * h = (t - 1) * h + h
  OBVIOUS
<1>2. (m * h + n) \div h = m /\ (m * h + n) % h = n
  BY <1>1, DivUnique
<1>3. CASE m < t - 1
  <2>1. (m + 1) * h <= (t - 1) * h /\ (m + 1) * h = m * h + h
    BY <1>1, <1>3
  <2> DEFINE z == (t - 1) * h
             w == m * h
             u == t * h
  <2>2. /\ w + h <= z /\ u = z + h /\ z < b /\ w \in Nat /\ z \in Nat
    BY <1>1, <2>1
  <2>3. w + n \in Nat /\ w + n < u /\ w + n < b
    <3> HIDE DEF z, w, u
    <3> QED  BY <2>2
  <2> QED  BY <1>2, <1>3, <2>3
<1>4. CASE m = t - 1
  <2> DEFINE z == (t - 1) * h
             u == t * h
  <2>2. u = z + h /\ z < b /\ z \in Nat
    BY <1>1
  <2>3. z + n \in Nat /\ z + n < u /\ (z + n < b <=> n < b - z)
    <3> HIDE DEF z, u
    <3> QED  BY <2>2
  <2> QED  BY <1>2, <1>4, <2>3
<1> QED  BY <1>3, <1>4

LEMMA Grid ==
  ASSUME NEW t \in Nat \ { 0 }, NEW w \in Nat \ { 0 }, NEW i \in 0..(t - 1), NEW j \in 0..(w - 1)
  PROVE  i * w + j \in Nat /\ i * w + j < t * w /\ t * w = w * t
<1>1. (t - 1) * w < t * w /\ t * w \in Nat /\ t * w = w * t
  OBVIOUS
<1>2. i * w + j \in Nat /\ i * w + j < t * w
  <2> DEFINE b == t * w
  <2>1. b \in Nat /\ (t - 1) * w < b
    BY <1>1
  <2> QED  BY <2>1, InPart
<1> QED  BY <1>1, <1>2

\* A block of an MCU, in a scan of several components.
LEMMA InterleavedBlock ==
  ASSUME FrameFacts, ScanFacts, Within, Len(ScanComps(inp.scan)) # 1, NEW b \in McuBlocks, InMcu(b)
  PROVE  LET k == b[1]
             c == ScanComps(inp.scan)[k]
             v == Frame.comps[c].v
             h == Frame.comps[c].h
             y == inp.row * v + b[2]
             x == inp.ctr * h + b[3]
         IN
         /\ k \in 1..Len(ScanComps(inp.scan)) /\ c \in Comps /\ inp.vert = 0
         /\ b = << k, b[2], b[3] >> /\ b[2] \in 0..(v - 1) /\ b[3] \in 0..(h - 1)
         /\ y \in Nat /\ y < Total * v /\ x \in Nat /\ x < McuColumns * h
         /\ y \div v = inp.row /\ y % v = b[2] /\ x \div h = inp.ctr /\ x % h = b[3]
         /\ Target(b) = << c, y, x >>
         /\ Coefs(b) = << inp.scan, inp.row * McuColumns + inp.ctr, Ahead(inp.scan, c) + b[2] * h + b[3] >>
         /\ Ahead(inp.scan, c) \in Nat
         /\ Useful(b) <=> y < Image.blocks[c].h /\ x < Image.blocks[c].w
<1> DEFINE q == ScanComps(inp.scan)
           k == b[1]
           c == q[k]
           v == Frame.comps[c].v
           h == Frame.comps[c].h
           bh == Image.blocks[c].h
           bw == Image.blocks[c].w
           y == inp.row * v + b[2]
           x == inp.ctr * h + b[3]
<1>1. inp.scan \in 1..Len(pic.scans) /\ Scan = pic.perScan[inp.scan]
  BY DEF Within, Scan
<1>2. /\ Scan.mcusPerRow = McuColumns /\ Len(Scan.comps) = Len(q) /\ Len(q) \in 2..4
      /\ DOMAIN Scan.comps = 1..Len(q)
  BY <1>1, InterleavedIs
<1>3. /\ k \in 1..Len(q) /\ b[2] \in 0..(MaxSampFactor - 1) /\ b[3] \in 0..(MaxSampFactor - 1)
      /\ b = << b[1], b[2], b[3] >>
  BY <1>2 DEF McuBlocks
<1>4. /\ c \in Comps
      /\ Scan.comps[k] = [c |-> c, w |-> h, h |-> v,
                          lastCol |-> bw - (McuColumns - 1) * h, lastRow |-> bh - (Total - 1) * v]
  BY <1>1, <1>3, InterleavedIs
<1>5. /\ Scan.comps[k].c = c /\ Scan.comps[k].w = h /\ Scan.comps[k].h = v
      /\ Scan.comps[k].lastCol = bw - (McuColumns - 1) * h
      /\ Scan.comps[k].lastRow = bh - (Total - 1) * v
  BY <1>4
<1>6. inp.vert = 0
  <2>1. RowsPerIMcuRow(inp.scan, inp.row) = 1
    BY RowsIs DEF Within
  <2> QED  BY <2>1 DEF Within
<1>7. /\ v \in Nat \ { 0 } /\ h \in Nat \ { 0 } /\ bh \in Nat \ { 0 } /\ bw \in Nat \ { 0 }
      /\ Total \in Nat \ { 0 } /\ McuColumns \in Nat \ { 0 } /\ MaxSampFactor \in Nat \ { 0 }
      /\ (Total - 1) * v < bh /\ (McuColumns - 1) * h < bw
  BY <1>4, CompFacts
<1>8. inp.row \in 0..(Total - 1) /\ inp.ctr \in 0..(McuColumns - 1)
  BY <1>2 DEF Within
<1>9. b[2] \in 0..(v - 1) /\ b[3] \in 0..(h - 1)
  <2>1. b[2] < v /\ b[3] < h
    BY <1>5 DEF InMcu
  <2>2. /\ b[2] \in 0..(MaxSampFactor - 1) /\ b[3] \in 0..(MaxSampFactor - 1)
        /\ v \in Nat /\ h \in Nat /\ MaxSampFactor \in Nat
    BY <1>3, <1>7
  <2> HIDE DEF v, h
  <2> QED  BY <2>1, <2>2
<1>10. /\ y \in Nat /\ y < Total * v /\ y \div v = inp.row /\ y % v = b[2]
       /\ y < bh <=> inp.row < Total - 1 \/ b[2] < bh - (Total - 1) * v
  <2> DEFINE m == inp.row
             n == b[2]
  <2>1. /\ m \in 0..(Total - 1) /\ n \in 0..(v - 1) /\ v \in Nat \ { 0 } /\ bh \in Nat
        /\ Total \in Nat \ { 0 } /\ (Total - 1) * v < bh
    BY <1>7, <1>8, <1>9
  <2> HIDE DEF m, n, v, bh
  <2>2. /\ m * v + n \in Nat /\ m * v + n < Total * v
        /\ (m * v + n) \div v = m /\ (m * v + n) % v = n
        /\ m * v + n < bh <=> m < Total - 1 \/ n < bh - (Total - 1) * v
    BY <2>1, InPart
  <2> QED  BY <2>2 DEF m, n
<1>11. /\ x \in Nat /\ x < McuColumns * h /\ x \div h = inp.ctr /\ x % h = b[3]
       /\ x < bw <=> inp.ctr < McuColumns - 1 \/ b[3] < bw - (McuColumns - 1) * h
  <2> DEFINE m == inp.ctr
             n == b[3]
             t == McuColumns
  <2>1. /\ m \in 0..(t - 1) /\ n \in 0..(h - 1) /\ h \in Nat \ { 0 } /\ bw \in Nat
        /\ t \in Nat \ { 0 } /\ (t - 1) * h < bw
    BY <1>7, <1>8, <1>9
  <2> HIDE DEF m, n, h, bw, t
  <2>2. /\ m * h + n \in Nat /\ m * h + n < t * h
        /\ (m * h + n) \div h = m /\ (m * h + n) % h = n
        /\ m * h + n < bw <=> m < t - 1 \/ n < bw - (t - 1) * h
    BY <2>1, InPart
  <2> QED  BY <2>2 DEF m, n, t
<1>12. Target(b) = << c, y, x >>
  <2> DEFINE a == inp.row * v
  <2>1. a \in Nat
    BY <1>7, <1>8
  <2>2. Target(b) = << c, a + inp.vert + b[2], x >>
    <3> DEFINE o == inp.ctr * h + b[3]
    <3>1. Target(b) = << c, a + inp.vert + b[2], o >>
      BY <1>5 DEF Target
    <3> QED  BY <3>1
  <2>3. b[2] \in Nat
    BY <1>3, <1>7
  <2>4. a + inp.vert + b[2] = a + b[2]
    <3> HIDE DEF a
    <3> QED  BY <1>6, <2>1, <2>3
  <2> QED  BY <2>2, <2>4
<1>13. /\ Coefs(b) = << inp.scan, inp.row * McuColumns + inp.ctr, Ahead(inp.scan, c) + b[2] * h + b[3] >>
       /\ Ahead(inp.scan, c) \in Nat
  <2>1. FirstBlock(k) = Ahead(inp.scan, c) /\ FirstBlock(k) \in Nat
    BY <1>1, <1>3, AheadIs
  <2>2. Mcu = inp.row * McuColumns + inp.ctr
    <3> DEFINE n == Len(Scan.comps)
    <3>1. n > 1
      <4>1. n \in 2..4
        BY <1>2
      <4> HIDE DEF n
      <4> QED  BY <4>1
    <3> QED  BY <1>2, <3>1 DEF Mcu
  <2> QED  BY <1>5, <2>1, <2>2 DEF Coefs
<1>14. Useful(b) <=> y < bh /\ x < bw
  <2>1. inp.ctr < Scan.mcusPerRow - 1 => b[3] < h
    BY <1>7, <1>9
  <2>2. Useful(b) <=> /\ b[3] < (IF inp.ctr < McuColumns - 1 THEN h ELSE bw - (McuColumns - 1) * h)
                      /\ inp.row < Total - 1 \/ b[2] < bh - (Total - 1) * v
    <3> DEFINE col == bw - (McuColumns - 1) * h
               row == bh - (Total - 1) * v
    <3>1. /\ Scan.comps[k].w = h /\ Scan.comps[k].lastCol = col /\ Scan.comps[k].lastRow = row
          /\ Scan.mcusPerRow = McuColumns /\ LastIMcuRow = Total - 1 /\ inp.vert + b[2] = b[2]
      BY <1>2, <1>5, <1>6, <1>9 DEF LastIMcuRow, Total
    <3> HIDE DEF col, row, h
    <3>2. Useful(b) <=> /\ b[3] < (IF inp.ctr < McuColumns - 1 THEN h ELSE col)
                        /\ inp.row < Total - 1 \/ b[2] < row
      BY <3>1 DEF Useful
    <3> QED  BY <3>2 DEF col, row, h
  <2>3. b[3] < (IF inp.ctr < McuColumns - 1 THEN h ELSE bw - (McuColumns - 1) * h)
          <=> inp.ctr < McuColumns - 1 \/ b[3] < bw - (McuColumns - 1) * h
    BY <1>2, <2>1
  <2> HIDE DEF y, x, bh, bw, h, v
  <2> QED  BY <1>10, <1>11, <2>2, <2>3
<1> QED  BY <1>3, <1>4, <1>6, <1>9, <1>10, <1>11, <1>12, <1>13, <1>14

\* Every block is stored where it belongs; those that are put out are those of the image.
LEMMA BlockPlaced ==
  ASSUME FrameFacts, ScanFacts, Within, NEW b \in McuBlocks, InMcu(b)
  PROVE  /\ Target(b) \in Triples /\ Coefs(b) \in Triples /\ Coefs(b)[1] = inp.scan
         /\ Coefs(b) = Place(inp.scan, Target(b))
         /\ WellPlaced(<< Target(b), Coefs(b) >>)
         /\ InScan(inp.scan, Target(b)[1]) /\ AtHand(Target(b))
         /\ Useful(b) <=> Target(b) \in RealBlocks
<1> DEFINE q == ScanComps(inp.scan)
<1>1. /\ inp.scan \in 1..Len(pic.scans) /\ inp.scan \in Nat
      /\ q \in Seq(Comps) /\ DOMAIN q = 1..Len(q) /\ Len(q) \in 1..4
      /\ inp.row \in Nat /\ inp.row < Total /\ Total \in Nat
  <2>1. inp.scan \in 1..Len(pic.scans) /\ inp.row \in 0..(Total - 1) /\ Total \in Nat /\ Len(pic.scans) \in Nat
    BY DEF Within, FrameFacts, ScanFacts
  <2> QED  BY <2>1 DEF ScanFacts
<1>2. CASE Len(q) = 1
  <2> DEFINE c == q[1]
             v == Frame.comps[c].v
             bw == Image.blocks[c].w
             bh == Image.blocks[c].h
             y == inp.row * v + inp.vert
             x == inp.ctr
  <2>1. /\ { d \in McuBlocks : InMcu(d) } = { << 1, 0, 0 >> } /\ Useful(<< 1, 0, 0 >>)
        /\ c \in Comps /\ y \in Nat /\ y < bh /\ x \in Nat /\ x < bw
        /\ y \div v = inp.row /\ y % v = inp.vert
        /\ Target(<< 1, 0, 0 >>) = << c, y, x >>
        /\ Coefs(<< 1, 0, 0 >>) = << inp.scan, y * bw + x, 0 >>
    BY <1>2, SingleBlock
  <2> HIDE DEF y, x
  <2>2. b = << 1, 0, 0 >>
    BY <2>1
  <2>3. Useful(b) /\ Target(b) = << c, y, x >> /\ Coefs(b) = << inp.scan, y * bw + x, 0 >>
    BY <2>1, <2>2
  <2>4. /\ v \in Nat \ { 0 } /\ bh \in Nat \ { 0 } /\ bw \in Nat \ { 0 } /\ bh <= Total * v
        /\ bw <= McuColumns * Frame.comps[c].h /\ McuColumns \in Nat
        /\ Frame.comps[c].h \in Nat \ { 0 } /\ c \in Nat
    <3>0. c \in Comps
      BY <2>1
    <3>1. c \in Nat
      <4>1. Comps = 1..Len(Frame.comps)
        BY DEF FrameFacts
      <4> QED  BY <3>0, <4>1
    <3> QED  BY <3>0, <3>1, CompFacts
  <2>5. y < Total * v /\ x < McuColumns * Frame.comps[c].h
    <3> DEFINE h == Frame.comps[c].h
               s == Total * v
               t == McuColumns * h
    <3>0. /\ Total \in Nat /\ v \in Nat /\ McuColumns \in Nat /\ h \in Nat
          /\ bh <= s /\ bw <= t
      BY <1>1, <2>4
    <3>1. s \in Nat /\ t \in Nat /\ bh <= s /\ bw <= t
      <4> HIDE DEF v, h, bh, bw
      <4> QED  BY <3>0
    <3>2. y \in Nat /\ y < bh /\ x \in Nat /\ x < bw /\ bh \in Nat /\ bw \in Nat
      BY <2>1, <2>4
    <3> HIDE DEF s, t, bh, bw
    <3>3. y < s /\ x < t
      BY <3>1, <3>2
    <3> QED  BY <3>3 DEF s, t, h
  <2>0. y \in 0..(bh - 1) /\ x \in 0..(bw - 1) /\ bh \in Nat \ { 0 } /\ bw \in Nat \ { 0 }
    <3>1. y \in Nat /\ y < bh /\ x \in Nat /\ x < bw /\ bh \in Nat \ { 0 } /\ bw \in Nat \ { 0 }
      BY <2>1, <2>4
    <3> HIDE DEF bh, bw
    <3> QED  BY <3>1
  <2>6. y * bw + x \in Nat /\ y * bw + x < bw * bh
    <3> HIDE DEF bh, bw
    <3> QED  BY <2>0, Grid
  <2>7. Target(b) \in Triples /\ Coefs(b) \in Triples /\ Coefs(b)[1] = inp.scan
    <3> DEFINE m == y * bw + x
    <3>1. m \in Nat /\ Coefs(b) = << inp.scan, m, 0 >>
      BY <2>3, <2>6
    <3> HIDE DEF m
    <3>2. Target(b) = << c, y, x >> /\ c \in Nat /\ y \in Nat /\ x \in Nat
      BY <2>1, <2>3, <2>4
    <3>3. inp.scan \in Nat
      BY <1>1
    <3> QED  BY <3>1, <3>2, <3>3 DEF Triples
  <2>8. Coefs(b) = Place(inp.scan, Target(b))
    BY <1>2, <2>3 DEF Place
  <2>9. WellPlaced(<< Target(b), Coefs(b) >>)
    <3>1. RoundUp(bh, v) = Total /\ RoundUp(bw, Frame.comps[c].h) = McuColumns
      BY <2>1, RoundUpIs
    <3>2. McusOf(inp.scan) = bw * bh
      BY <1>2 DEF McusOf
    <3> DEFINE e == << Target(b), Coefs(b) >>
               m == y * bw + x
    <3>3. /\ e[1] = << c, y, x >> /\ e[1][1] = c /\ e[1][2] = y /\ e[1][3] = x
          /\ e[2] = Coefs(b) /\ e[2][1] = inp.scan /\ e[2][2] = m
      <4>1. Target(b) = << c, y, x >> /\ Coefs(b) = << inp.scan, m, 0 >>
        BY <2>3
      <4> HIDE DEF m, y, x, c
      <4> QED  BY <4>1
    <3>4. c \in Comps /\ y < Total * v /\ x < McuColumns * Frame.comps[c].h /\ m < bw * bh
      BY <2>1, <2>5, <2>6
    <3>5. e[2] = Place(e[2][1], e[1])
      BY <2>8, <3>3
    <3> HIDE DEF e, m
    <3> QED  BY <1>1, <3>1, <3>2, <3>3, <3>4, <3>5 DEF WellPlaced, e
  <2>10. InScan(inp.scan, Target(b)[1]) /\ AtHand(Target(b))
    <3>1. Target(b) = << c, y, inp.ctr >> /\ y \div v = inp.row /\ y % v = inp.vert
      BY <2>1, <2>3 DEF x
    <3>2. Target(b)[1] = c /\ Target(b)[2] = y /\ Target(b)[3] = inp.ctr
      BY <3>1
    <3>3. 1 \in DOMAIN q
      BY <1>1, <1>2
    <3> QED  BY <1>2, <3>1, <3>2, <3>3 DEF InScan, AtHand
  <2>11. Target(b) \in RealBlocks
    <3>1. c \in Comps /\ Target(b) = << c, y, x >>
      BY <2>1, <2>3
    <3> QED  BY <2>0, <3>1, RealIs
  <2> QED  BY <2>3, <2>7, <2>8, <2>9, <2>10, <2>11
<1>3. CASE Len(q) # 1
  <2> DEFINE k == b[1]
             c == q[k]
             v == Frame.comps[c].v
             h == Frame.comps[c].h
             bw == Image.blocks[c].w
             bh == Image.blocks[c].h
             y == inp.row * v + b[2]
             x == inp.ctr * h + b[3]
             m == inp.row * McuColumns + inp.ctr
             n == Ahead(inp.scan, c) + b[2] * h + b[3]
  <2>1. /\ k \in 1..Len(q) /\ c \in Comps
        /\ b[2] \in 0..(v - 1) /\ b[3] \in 0..(h - 1)
        /\ y \in Nat /\ y < Total * v /\ x \in Nat /\ x < McuColumns * h
        /\ y \div v = inp.row /\ y % v = b[2] /\ x \div h = inp.ctr /\ x % h = b[3]
        /\ Target(b) = << c, y, x >>
        /\ Coefs(b) = << inp.scan, m, n >>
        /\ Ahead(inp.scan, c) \in Nat
        /\ Useful(b) <=> y < bh /\ x < bw
    BY <1>3, InterleavedBlock
  <2> HIDE DEF y, x
  <2>0. b[2] \in 0..(v - 1) /\ b[3] \in 0..(h - 1) /\ Ahead(inp.scan, c) \in Nat
    BY <2>1
  <2>2. /\ v \in Nat \ { 0 } /\ h \in Nat \ { 0 } /\ bh \in Nat \ { 0 } /\ bw \in Nat \ { 0 }
        /\ McuColumns \in Nat \ { 0 } /\ c \in Nat /\ Total \in Nat \ { 0 }
    <3>0. c \in Comps
      BY <2>1
    <3>1. c \in Nat
      <4>1. Comps = 1..Len(Frame.comps)
        BY DEF FrameFacts
      <4> QED  BY <3>0, <4>1
    <3> QED  BY <3>0, <3>1, CompFacts
  <2>3. m \in Nat /\ m < Total * McuColumns /\ n \in Nat
    <3>1. inp.ctr \in 0..(McuColumns - 1) /\ inp.row \in 0..(Total - 1)
      <4>1. pic.perScan[inp.scan].mcusPerRow = McuColumns
        BY <1>1, <1>3, InterleavedIs
      <4> QED  BY <4>1 DEF Within, Scan
    <3>3. m \in Nat /\ m < Total * McuColumns
      <4> DEFINE t == Total
                 w == McuColumns
                 i == inp.row
                 j == inp.ctr
      <4>1. t \in Nat \ { 0 } /\ w \in Nat \ { 0 } /\ i \in 0..(t - 1) /\ j \in 0..(w - 1)
        BY <2>2, <3>1
      <4> HIDE DEF t, w, i, j
      <4>2. i * w + j \in Nat /\ i * w + j < t * w
        BY <4>1, Grid
      <4> QED  BY <4>2 DEF t, w, i, j
    <3>4. n \in Nat
      <4> DEFINE a == Ahead(inp.scan, c)
                 i == b[2]
                 j == b[3]
      <4>0. a \in Nat /\ i \in 0..(v - 1) /\ j \in 0..(h - 1) /\ v \in Nat /\ h \in Nat
        BY <2>0, <2>2
      <4>1. a \in Nat /\ i \in Nat /\ h \in Nat /\ j \in Nat
        <5> HIDE DEF a, i, j, h, v
        <5> QED  BY <4>0
      <4> HIDE DEF a, i, j, h
      <4>2. a + i * h + j \in Nat
        BY <4>1
      <4> QED  BY <4>2 DEF a, i, j
    <3> QED  BY <3>3, <3>4
  <2>4. Coefs(b) = Place(inp.scan, Target(b))
    <3>1. y \div v = inp.row /\ y % v = b[2] /\ x \div h = inp.ctr /\ x % h = b[3]
      BY <2>1
    <3>2. Target(b) = << c, y, x >> /\ Coefs(b) = << inp.scan, m, n >>
      BY <2>1
    <3> HIDE DEF y, x
    <3>3. Place(inp.scan, << c, y, x >>) =
            << inp.scan, (y \div v) * McuColumns + x \div h, Ahead(inp.scan, c) + (y % v) * h + (x % h) >>
      BY <1>3 DEF Place
    <3> QED  BY <3>1, <3>2, <3>3
  <2> HIDE DEF m, n
  <2>12. Target(b) = << c, y, x >> /\ Coefs(b) = << inp.scan, m, n >>
    BY <2>1 DEF m, n
  <2>5. Target(b) \in Triples /\ Coefs(b) \in Triples /\ Coefs(b)[1] = inp.scan
    <3>1. c \in Nat /\ y \in Nat /\ x \in Nat /\ inp.scan \in Nat /\ m \in Nat /\ n \in Nat
      BY <1>1, <2>1, <2>2, <2>3
    <3> HIDE DEF c
    <3> QED  BY <2>12, <3>1 DEF Triples
  <2>6. WellPlaced(<< Target(b), Coefs(b) >>)
    <3>1. RoundUp(bh, v) = Total /\ RoundUp(bw, h) = McuColumns
      BY <2>1, RoundUpIs
    <3>2. McusOf(inp.scan) = Total * McuColumns
      BY <1>3 DEF McusOf
    <3> DEFINE e == << Target(b), Coefs(b) >>
    <3>3. /\ e[1] = << c, y, x >> /\ e[1][1] = c /\ e[1][2] = y /\ e[1][3] = x
          /\ e[2] = Coefs(b) /\ e[2][1] = inp.scan /\ e[2][2] = m
      BY <2>12
    <3>4. c \in Comps /\ y < Total * v /\ x < McuColumns * h /\ m < Total * McuColumns
      BY <2>1, <2>3
    <3>5. e[2] = Place(e[2][1], e[1])
      BY <2>4, <3>3
    <3> HIDE DEF e
    <3> QED  BY <1>1, <3>1, <3>2, <3>3, <3>4, <3>5 DEF WellPlaced, e
  <2>7. InScan(inp.scan, Target(b)[1]) /\ AtHand(Target(b))
    <3>1. y \div v = inp.row /\ x \div h = inp.ctr /\ k \in DOMAIN q
      BY <1>1, <2>1
    <3>2. Target(b)[1] = c /\ Target(b)[2] = y /\ Target(b)[3] = x
      BY <2>12
    <3> QED  BY <1>3, <3>1, <3>2 DEF InScan, AtHand
  <2>8. Useful(b) <=> Target(b) \in RealBlocks
    <3>1. y \in 0..(bh - 1) /\ x \in 0..(bw - 1) <=> y < bh /\ x < bw
      <4>1. y \in Nat /\ x \in Nat /\ bh \in Nat /\ bw \in Nat
        BY <2>1, <2>2
      <4> HIDE DEF bh, bw
      <4> QED  BY <4>1
    <3>2. Target(b) \in RealBlocks <=> y \in 0..(bh - 1) /\ x \in 0..(bw - 1)
      <4>1. c \in Comps
        BY <2>1
      <4>2. \A i \in Comps : \A j, l : << c, y, x >> = << i, j, l >> => i = c /\ j = y /\ l = x
        OBVIOUS
      <4> HIDE DEF c
      <4> QED  BY <2>12, <4>1, <4>2, RealIs DEF c
    <3> QED  BY <2>1, <3>1, <3>2
  <2> QED  BY <2>4, <2>5, <2>6, <2>7, <2>8
<1> QED  BY <1>2, <1>3

\* And every block of the image gets its turn.
LEMMA BlockFound ==
  ASSUME FrameFacts, ScanFacts, Within,
         NEW p \in RealBlocks, InScan(inp.scan, p[1]), AtHand(p)
  PROVE  \E b \in McuBlocks : InMcu(b) /\ Target(b) = p
<1> DEFINE q == ScanComps(inp.scan)
           c == p[1]
           v == Frame.comps[c].v
           h == Frame.comps[c].h
<1>1. /\ p = << c, p[2], p[3] >> /\ c \in Comps /\ p[2] \in Nat /\ p[3] \in Nat
  BY RealTyped
<1>2. PICK k \in DOMAIN q : q[k] = c
  BY DEF InScan
<1>3. DOMAIN q = 1..Len(q) /\ inp.scan \in 1..Len(pic.scans)
  BY DEF ScanFacts, Within
<1>4. /\ v \in Nat \ { 0 } /\ h \in Nat \ { 0 } /\ v <= MaxSampFactor /\ h <= MaxSampFactor
      /\ MaxSampFactor \in Nat
  BY <1>1, CompFacts
<1>5. /\ p[2] = (p[2] \div v) * v + (p[2] % v) /\ p[2] % v \in 0..(v - 1)
      /\ p[3] = (p[3] \div h) * h + (p[3] % h) /\ p[3] % h \in 0..(h - 1)
  <2> DEFINE y == p[2]
             x == p[3]
  <2>1. y \in Nat /\ x \in Nat /\ v \in Nat \ { 0 } /\ h \in Nat \ { 0 }
    BY <1>1, <1>4
  <2> HIDE DEF y, x, v, h
  <2>2. y = (y \div v) * v + (y % v) /\ y % v \in 0..(v - 1)
    BY <2>1, DivFacts
  <2>3. x = (x \div h) * h + (x % h) /\ x % h \in 0..(h - 1)
    BY <2>1, DivFacts
  <2> QED  BY <2>2, <2>3 DEF y, x
<1>6. CASE Len(q) = 1
  <2>1. k = 1
    BY <1>2, <1>3, <1>6
  <2>2. /\ << 1, 0, 0 >> \in { d \in McuBlocks : InMcu(d) }
        /\ Target(<< 1, 0, 0 >>) = << q[1], inp.row * Frame.comps[q[1]].v + inp.vert, inp.ctr >>
    BY <1>6, SingleBlock
  <2>3. Target(<< 1, 0, 0 >>) = << c, inp.row * v + inp.vert, inp.ctr >>
    BY <1>2, <2>1, <2>2
  <2>4. p[2] \div v = inp.row /\ p[2] % v = inp.vert /\ p[3] = inp.ctr
    BY <1>6 DEF AtHand
  <2>5. p[2] = inp.row * v + inp.vert
    BY <1>5, <2>4
  <2> QED  BY <1>1, <2>2, <2>3, <2>4, <2>5
<1>7. CASE Len(q) # 1
  <2> DEFINE b == << k, p[2] % v, p[3] % h >>
  <2>1. /\ DOMAIN Scan.comps = 1..Len(q)
        /\ Scan.comps[k] = [c |-> c, w |-> h, h |-> v,
                            lastCol |-> Image.blocks[c].w - (McuColumns - 1) * h,
                            lastRow |-> Image.blocks[c].h - (Total - 1) * v]
    BY <1>2, <1>3, <1>7, InterleavedIs DEF Scan
  <2>2. Scan.comps[k].w = h /\ Scan.comps[k].h = v
    BY <2>1
  <2>3. b \in McuBlocks
    <3>1. p[2] % v \in 0..(MaxSampFactor - 1) /\ p[3] % h \in 0..(MaxSampFactor - 1)
      <4> DEFINE i == p[2] % v
                 j == p[3] % h
      <4>1. /\ i \in 0..(v - 1) /\ j \in 0..(h - 1) /\ v \in Nat /\ h \in Nat
            /\ v <= MaxSampFactor /\ h <= MaxSampFactor /\ MaxSampFactor \in Nat
        BY <1>4, <1>5
      <4> HIDE DEF i, j, v, h
      <4>2. i \in 0..(MaxSampFactor - 1) /\ j \in 0..(MaxSampFactor - 1)
        BY <4>1
      <4> QED  BY <4>2 DEF i, j
    <3> DEFINE i == p[2] % v
               j == p[3] % h
    <3>2. k \in DOMAIN Scan.comps /\ b = << k, i, j >>
      BY <1>2, <1>3, <2>1
    <3>3. i \in 0..(MaxSampFactor - 1) /\ j \in 0..(MaxSampFactor - 1)
      BY <3>1
    <3> HIDE DEF i, j, b
    <3> QED  BY <3>2, <3>3 DEF McuBlocks
  <2>4. InMcu(b)
    <3> DEFINE i == p[2] % v
               j == p[3] % h
    <3>1. i \in 0..(v - 1) /\ j \in 0..(h - 1) /\ v \in Nat /\ h \in Nat
      BY <1>4, <1>5
    <3> HIDE DEF i, j, v, h
    <3>2. i < v /\ j < h
      BY <3>1
    <3> QED  BY <2>2, <3>2 DEF InMcu, i, j, v, h
  <2>5. Target(b) = << c, inp.row * v + (p[2] % v), inp.ctr * h + (p[3] % h) >>
    <3>1. b[1] = k /\ b[2] = p[2] % v /\ b[3] = p[3] % h /\ q[b[1]] = c
      BY <1>2
    <3> HIDE DEF b
    <3>2. Target(b) = << q[b[1]], inp.row * Frame.comps[q[b[1]]].v + b[2], inp.ctr * Frame.comps[q[b[1]]].h + b[3] >>
      BY <1>7, <2>3, <2>4, InterleavedBlock
    <3> QED  BY <3>1, <3>2
  <2>6. p[2] \div v = inp.row /\ p[3] \div h = inp.ctr
    BY <1>7 DEF AtHand
  <2>7. p[2] = inp.row * v + (p[2] % v) /\ p[3] = inp.ctr * h + (p[3] % h)
    BY <1>5, <2>6
  <2> QED  BY <1>1, <2>3, <2>4, <2>5, <2>7
<1> QED  BY <1>6, <1>7

-----------------------------------------------------------------------------
(* The order in which the blocks come                                       *)

\* Passed, of any position i of the input side.
PastAt(i, p) ==
  LET v == Frame.comps[p[1]].v  row == p[2] \div v IN
  \/ row < i.row
  \/ row = i.row /\
     IF Len(ScanComps(i.scan)) = 1
     THEN p[2] % v < i.vert \/ (p[2] % v = i.vert /\ p[3] < i.ctr)
     ELSE p[3] \div Frame.comps[p[1]].h < i.ctr

LEMMA PassedIs ==
  ASSUME NEW p
  PROVE  /\ Passed(p) <=> PastAt(inp, p)
         /\ UNCHANGED pic => (Passed(p)' <=> PastAt(inp', p))
BY DEF Passed, PastAt, Frame, ScanComps

\* Which of the MCUs has block p.
LEMMA TurnIs ==
  ASSUME FrameFacts, ScanFacts, NEW s \in 1..Len(pic.scans), NEW p \in RealBlocks, InScan(s, p[1])
  PROVE  LET r == p[2] \div Frame.comps[p[1]].v
             n == p[2] % Frame.comps[p[1]].v
             z == p[3] \div Frame.comps[p[1]].h
         IN
         /\ r \in 0..(Total - 1) /\ n \in Nat /\ z \in Nat /\ p[3] \in Nat
         /\ Len(ScanComps(s)) = 1 => n < RowsPerIMcuRow(s, r) /\ p[3] < pic.perScan[s].mcusPerRow
         /\ Len(ScanComps(s)) # 1 => z < pic.perScan[s].mcusPerRow
<1> DEFINE c == p[1]
           y == p[2]
           x == p[3]
           v == Frame.comps[c].v
           h == Frame.comps[c].h
           bh == Image.blocks[c].h
           bw == Image.blocks[c].w
           r == y \div v
           n == y % v
           z == x \div h
           t == Total
           w == McuColumns
<1>1. c \in Comps /\ y \in Nat /\ x \in Nat /\ y < bh /\ x < bw
  BY RealTyped
<1>2. /\ v \in Nat \ { 0 } /\ h \in Nat \ { 0 } /\ bh \in Nat /\ bw \in Nat
      /\ t \in Nat \ { 0 } /\ w \in Nat \ { 0 }
      /\ (t - 1) * v < bh /\ bh <= t * v /\ bw <= w * h
  BY <1>1, CompFacts
<1> HIDE DEF v, h, bh, bw, t, w
<1>3. /\ r \in Nat /\ n \in 0..(v - 1) /\ y = r * v + n
      /\ z \in Nat /\ x % h \in 0..(h - 1) /\ x = z * h + (x % h)
  <2> HIDE DEF y, x
  <2>1. y \div v \in Nat /\ y % v \in 0..(v - 1) /\ y = (y \div v) * v + (y % v)
    BY <1>1, <1>2, DivFacts
  <2>2. x \div h \in Nat /\ x % h \in 0..(h - 1) /\ x = (x \div h) * h + (x % h)
    BY <1>1, <1>2, DivFacts
  <2> QED  BY <2>1, <2>2
<1>4. r < t
  <2> HIDE DEF r, n, y
  <2>1. r * v \in Nat /\ t * v \in Nat
    BY <1>2, <1>3
  <2>2. r * v < t * v
    <3> DEFINE rv == r * v
               tv == t * v
    <3>1. rv \in Nat /\ tv \in Nat /\ y = rv + n /\ y < bh /\ bh <= tv
      BY <1>1, <1>2, <1>3, <2>1
    <3>2. n \in Nat
      BY <1>2, <1>3
    <3> HIDE DEF rv, tv
    <3>3. rv < tv
      BY <1>1, <1>2, <3>1, <3>2
    <3> QED  BY <3>3 DEF rv, tv
  <2> QED  BY <1>2, <1>3, <2>2, LessFactor
<1>5. z < w
  <2> DEFINE o == x % h
  <2>1. x = z * h + o /\ o \in 0..(h - 1)
    BY <1>3
  <2> HIDE DEF z, o, x
  <2>2. z * h < w * h
    <3> DEFINE zh == z * h
               wh == w * h
    <3>1. zh \in Nat /\ wh \in Nat /\ x = zh + o /\ x < bw /\ bw <= wh
      BY <1>1, <1>2, <1>3, <2>1
    <3>2. o \in Nat
      BY <1>2, <2>1
    <3> HIDE DEF zh, wh
    <3>3. zh < wh
      BY <1>1, <1>2, <3>1, <3>2
    <3> QED  BY <3>3 DEF zh, wh
  <2> QED  BY <1>2, <1>3, <2>2, LessFactor
<1>6. r \in 0..(t - 1) /\ n \in Nat
  <2> HIDE DEF r, n
  <2> QED  BY <1>2, <1>3, <1>4
<1>7. CASE Len(ScanComps(s)) = 1
  <2>1. ScanComps(s)[1] = c
    <3>1. PICK k \in DOMAIN ScanComps(s) : ScanComps(s)[k] = c
      BY DEF InScan
    <3>2. k = 1
      BY <1>7, <3>1 DEF ScanFacts
    <3> QED  BY <3>1, <3>2
  <2>2. pic.perScan[s].mcusPerRow = bw
    BY <1>7, <2>1, SingleIs DEF bw
  <2>3. RowsPerIMcuRow(s, r) = IF r < t - 1 THEN v ELSE bh - (t - 1) * v
    <3> HIDE DEF r
    <3>1. r \in 0..(Total - 1)
      BY <1>6 DEF t
    <3> QED  BY <1>7, <2>1, <3>1, RowsIs DEF v, bh, t
  <2>4. n < RowsPerIMcuRow(s, r)
    <3>1. CASE r < t - 1
      <4> HIDE DEF r, n
      <4> QED  BY <1>2, <1>3, <2>3, <3>1
    <3>2. CASE r = t - 1
      <4>1. y = (t - 1) * v + n
        BY <1>3, <3>2
      <4> DEFINE e == (t - 1) * v
      <4>2. e \in Nat /\ y = e + n /\ y < bh /\ RowsPerIMcuRow(s, r) = bh - e
        <5>1. e \in Nat
          BY <1>2
        <5> HIDE DEF r, n, y
        <5> QED  BY <1>1, <1>2, <2>3, <3>2, <4>1, <5>1
      <4> HIDE DEF e, r, n, y
      <4> QED  BY <1>2, <1>6, <4>2
    <3> QED  BY <1>2, <1>4, <1>6, <3>1, <3>2
  <2> QED  BY <1>1, <1>3, <1>6, <1>7, <2>2, <2>4 DEF t, v, h
<1>8. CASE Len(ScanComps(s)) # 1
  <2>1. pic.perScan[s].mcusPerRow = w
    BY <1>8, InterleavedIs DEF w
  <2> QED  BY <1>1, <1>3, <1>5, <1>6, <1>8, <2>1 DEF t, v, h
<1> QED  BY <1>7, <1>8

\* The positions one after the other: a block is passed once the MCU it is in has been
\* at hand, and not before.
LEMMA Order ==
  ASSUME NEW row \in Nat, NEW vert \in Nat, NEW ctr \in Nat, NEW rows \in Nat, NEW m \in Nat,
         NEW t \in Nat, NEW r \in Nat, NEW n \in Nat, NEW x \in Nat, NEW row2 \in Nat,
         NEW vert2 \in Nat, NEW ctr2 \in Nat,
         row < t, vert < rows, ctr < m, r < t, x < m, r = row => n < rows,
         \/ ctr + 1 < m /\ row2 = row /\ vert2 = vert /\ ctr2 = ctr + 1
         \/ ~(ctr + 1 < m) /\ vert + 1 < rows /\ row2 = row /\ vert2 = vert + 1 /\ ctr2 = 0
         \/ ~(ctr + 1 < m) /\ ~(vert + 1 < rows) /\ row + 1 < t /\ row2 = row + 1 /\ vert2 = 0 /\ ctr2 = 0
         \/ ~(ctr + 1 < m) /\ ~(vert + 1 < rows) /\ ~(row + 1 < t) /\ row2 = row + 1 /\ vert2 = vert /\ ctr2 = 0
  PROVE  /\ r < row2 \/ (r = row2 /\ (n < vert2 \/ (n = vert2 /\ x < ctr2)))
              <=> \/ r < row \/ (r = row /\ (n < vert \/ (n = vert /\ x < ctr)))
                  \/ r = row /\ n = vert /\ x = ctr
         /\ ~ (/\ r < row \/ (r = row /\ (n < vert \/ (n = vert /\ x < ctr)))
               /\ r = row /\ n = vert /\ x = ctr)
OBVIOUS

\* Where the input side is after an MCU.
LEMMA AfterIs ==
  ASSUME FrameFacts, ScanFacts, TypeOK, Within
  PROVE  LET i == AfterMcu  m == Scan.mcusPerRow  rows == RowsPerIMcuRow(inp.scan, inp.row) IN
         /\ DOMAIN i = DOMAIN inp /\ i.scan = inp.scan /\ i.eoi = inp.eoi
         /\ i.row \in Nat /\ i.vert \in 0..(MaxSampFactor - 1) /\ i.ctr \in Nat /\ i.ctr < m
         /\ inp.row \in Nat /\ inp.vert \in Nat /\ inp.ctr \in Nat /\ inp.ctr < m /\ inp.row < Total
         /\ rows \in Nat /\ m \in Nat /\ inp.vert < rows /\ Total \in Nat
         /\ \/ /\ i.consume = inp.consume /\ i.row < Total
               /\ i.vert < RowsPerIMcuRow(inp.scan, i.row)
            \/ i.consume = "markers" /\ i.row = Total
         /\ \/ inp.ctr + 1 < m /\ i.row = inp.row /\ i.vert = inp.vert /\ i.ctr = inp.ctr + 1
            \/ /\ ~(inp.ctr + 1 < m) /\ inp.vert + 1 < rows
               /\ i.row = inp.row /\ i.vert = inp.vert + 1 /\ i.ctr = 0
            \/ /\ ~(inp.ctr + 1 < m) /\ ~(inp.vert + 1 < rows) /\ inp.row + 1 < Total
               /\ i.row = inp.row + 1 /\ i.vert = 0 /\ i.ctr = 0
            \/ /\ ~(inp.ctr + 1 < m) /\ ~(inp.vert + 1 < rows) /\ ~(inp.row + 1 < Total)
               /\ i.row = inp.row + 1 /\ i.vert = inp.vert /\ i.ctr = 0
<1> DEFINE i == AfterMcu
           m == Scan.mcusPerRow
           rows == RowsPerIMcuRow(inp.scan, inp.row)
<1>1. /\ inp.scan \in 1..Len(pic.scans) /\ inp.row \in Nat /\ inp.row < Total /\ inp.vert \in Nat
      /\ inp.ctr \in Nat /\ Total \in Nat /\ inp.vert < rows /\ inp.row \in 0..(Total - 1)
      /\ inp.vert \in 0..(MaxSampFactor - 1) /\ MaxSampFactor \in Nat \ { 0 }
  <2>1. Total \in Nat \ { 0 }
    BY DEF FrameFacts
  <2>2. inp.vert \in 0..(MaxSampFactor - 1) /\ MaxSampFactor \in Nat \ { 0 } /\ inp.ctr \in Nat
    BY PictureAssumption DEF TypeOK
  <2> QED  BY <2>1, <2>2 DEF Within
<1>2. rows \in 1..MaxSampFactor
  BY <1>1, RowsIs
<1>3. m \in Nat /\ inp.ctr < m
  <2>1. m \in Nat
    <3>1. CASE Len(ScanComps(inp.scan)) = 1
      <4>1. ScanComps(inp.scan)[1] \in Comps /\ m = Image.blocks[ScanComps(inp.scan)[1]].w
        BY <1>1, <3>1, SingleIs DEF Scan
      <4> QED  BY <4>1, CompFacts
    <3>2. CASE Len(ScanComps(inp.scan)) # 1
      <4>1. m = McuColumns
        BY <1>1, <3>2, InterleavedIs DEF Scan
      <4> QED  BY <4>1 DEF FrameFacts
    <3> QED  BY <3>1, <3>2
  <2> QED  BY <2>1 DEF TypeOK
<1>4. \A r \in 0..(Total - 1) : 0 < RowsPerIMcuRow(inp.scan, r)
  BY <1>1, RowsIs
<1> DEFINE fields == { "scan", "row", "vert", "ctr", "consume", "eoi" }
<1>5. DOMAIN inp = fields
  BY DEF TypeOK
<1>6. CASE inp.ctr + 1 < m
  <2>1. i = [inp EXCEPT !.ctr = inp.ctr + 1]
    BY <1>6 DEF AfterMcu
  <2>2. /\ DOMAIN i = fields /\ i.scan = inp.scan /\ i.eoi = inp.eoi /\ i.consume = inp.consume
        /\ i.row = inp.row /\ i.vert = inp.vert /\ i.ctr = inp.ctr + 1
    BY <1>5, <2>1
  <2> HIDE DEF i, m, rows, fields
  <2>3. i.ctr \in Nat /\ i.ctr < m
    BY <1>1, <1>6, <2>2
  <2> QED  BY <1>1, <1>2, <1>3, <1>5, <1>6, <2>2, <2>3 DEF i, m, rows
<1>7. CASE ~(inp.ctr + 1 < m) /\ inp.vert + 1 < rows
  <2>1. i = [inp EXCEPT !.ctr = 0, !.vert = inp.vert + 1]
    BY <1>7 DEF AfterMcu
  <2>2. /\ DOMAIN i = fields /\ i.scan = inp.scan /\ i.eoi = inp.eoi /\ i.consume = inp.consume
        /\ i.row = inp.row /\ i.vert = inp.vert + 1 /\ i.ctr = 0
    BY <1>5, <2>1
  <2> HIDE DEF i, m, rows, fields
  <2>4. i.vert \in 0..(MaxSampFactor - 1)
    BY <1>1, <1>2, <1>7, <2>2
  <2>5. i.ctr \in Nat /\ i.ctr < m
    BY <1>1, <1>3, <2>2
  <2>3. i.ctr \in Nat /\ i.ctr < m /\ i.vert \in 0..(MaxSampFactor - 1)
    BY <2>4, <2>5
  <2> QED  BY <1>1, <1>2, <1>3, <1>5, <1>7, <2>2, <2>3 DEF i, m, rows
<1>8. CASE ~(inp.ctr + 1 < m) /\ ~(inp.vert + 1 < rows) /\ inp.row + 1 < Total
  <2>0. inp.row + 1 < Image.totalIMcuRows
    BY <1>8 DEF Total
  <2>1. i = [inp EXCEPT !.row = inp.row + 1, !.ctr = 0, !.vert = 0]
    BY <1>8, <2>0 DEF AfterMcu, StartIMcuRow
  <2>2. /\ DOMAIN i = fields /\ i.scan = inp.scan /\ i.eoi = inp.eoi /\ i.consume = inp.consume
        /\ i.row = inp.row + 1 /\ i.vert = 0 /\ i.ctr = 0
    BY <1>5, <2>1
  <2> HIDE DEF i, m, rows, fields
  <2>5. i.row \in Nat /\ i.row \in 0..(Total - 1)
    BY <1>1, <1>8, <2>2
  <2>6. i.ctr \in Nat /\ i.ctr < m
    BY <1>1, <1>3, <2>2
  <2>7. i.vert \in 0..(MaxSampFactor - 1)
    BY <1>1, <2>2
  <2>3. /\ i.ctr \in Nat /\ i.ctr < m /\ i.vert \in 0..(MaxSampFactor - 1) /\ i.row \in Nat
        /\ i.row \in 0..(Total - 1)
    BY <2>5, <2>6, <2>7
  <2>4. i.vert < RowsPerIMcuRow(inp.scan, i.row)
    BY <1>4, <2>2, <2>3
  <2> QED  BY <1>1, <1>2, <1>3, <1>5, <1>8, <2>2, <2>3, <2>4 DEF i, m, rows
<1>9. CASE ~(inp.ctr + 1 < m) /\ ~(inp.vert + 1 < rows) /\ ~(inp.row + 1 < Total)
  <2>0. ~(inp.row + 1 < Image.totalIMcuRows)
    BY <1>9 DEF Total
  <2>1. i = [inp EXCEPT !.row = inp.row + 1, !.ctr = 0, !.consume = "markers"]
    BY <1>9, <2>0 DEF AfterMcu, FinishInputPass
  <2>2. /\ DOMAIN i = fields /\ i.scan = inp.scan /\ i.eoi = inp.eoi /\ i.consume = "markers"
        /\ i.row = inp.row + 1 /\ i.vert = inp.vert /\ i.ctr = 0
    BY <1>5, <2>1
  <2> HIDE DEF i, m, rows, fields
  <2>3. /\ i.ctr \in Nat /\ i.ctr < m /\ i.vert \in 0..(MaxSampFactor - 1) /\ i.row \in Nat
        /\ i.row = Total
    BY <1>1, <1>2, <1>3, <1>9, <2>2
  <2> QED  BY <1>1, <1>2, <1>3, <1>5, <1>9, <2>2, <2>3 DEF i, m, rows
<1> QED  BY <1>6, <1>7, <1>8, <1>9

\* An MCU takes the input side past its own blocks and no others.
LEMMA Advance ==
  ASSUME FrameFacts, ScanFacts, TypeOK, Within, NEW p \in RealBlocks, InScan(inp.scan, p[1])
  PROVE  /\ PastAt(AfterMcu, p) <=> PastAt(inp, p) \/ AtHand(p)
         /\ ~(PastAt(inp, p) /\ AtHand(p))
<1> DEFINE i == AfterMcu
           m == Scan.mcusPerRow
           rows == RowsPerIMcuRow(inp.scan, inp.row)
           r == p[2] \div Frame.comps[p[1]].v
           n == p[2] % Frame.comps[p[1]].v
           z == p[3] \div Frame.comps[p[1]].h
           x == p[3]
           one == Len(ScanComps(inp.scan)) = 1
<1>1. /\ i.scan = inp.scan
      /\ i.row \in Nat /\ i.vert \in Nat /\ i.ctr \in Nat
      /\ inp.row \in Nat /\ inp.vert \in Nat /\ inp.ctr \in Nat /\ inp.ctr < m /\ inp.row < Total
      /\ rows \in Nat /\ m \in Nat /\ inp.vert < rows /\ Total \in Nat
  <2>1. i.vert \in 0..(MaxSampFactor - 1)
    BY AfterIs
  <2>2. i.vert \in Nat
    <3> HIDE DEF i
    <3> QED  BY <2>1
  <2> QED  BY <2>2, AfterIs
<1>2. \/ inp.ctr + 1 < m /\ i.row = inp.row /\ i.vert = inp.vert /\ i.ctr = inp.ctr + 1
      \/ /\ ~(inp.ctr + 1 < m) /\ inp.vert + 1 < rows
         /\ i.row = inp.row /\ i.vert = inp.vert + 1 /\ i.ctr = 0
      \/ /\ ~(inp.ctr + 1 < m) /\ ~(inp.vert + 1 < rows) /\ inp.row + 1 < Total
         /\ i.row = inp.row + 1 /\ i.vert = 0 /\ i.ctr = 0
      \/ /\ ~(inp.ctr + 1 < m) /\ ~(inp.vert + 1 < rows) /\ ~(inp.row + 1 < Total)
         /\ i.row = inp.row + 1 /\ i.vert = inp.vert /\ i.ctr = 0
  BY AfterIs
<1>3. inp.scan \in 1..Len(pic.scans) /\ pic.perScan[inp.scan].mcusPerRow = m
  BY DEF Within, Scan
<1>4. /\ r \in 0..(Total - 1) /\ n \in Nat /\ z \in Nat /\ x \in Nat
      /\ one => n < RowsPerIMcuRow(inp.scan, r) /\ x < m
      /\ ~one => z < m
  BY <1>3, TurnIs
<1>5. r \in Nat /\ r < Total
  <2> HIDE DEF r
  <2> QED  BY <1>1, <1>4
<1>6. /\ PastAt(inp, p) <=> \/ r < inp.row
                            \/ r = inp.row /\ IF one THEN n < inp.vert \/ (n = inp.vert /\ x < inp.ctr)
                                              ELSE z < inp.ctr
      /\ PastAt(i, p) <=> \/ r < i.row
                          \/ r = i.row /\ IF one THEN n < i.vert \/ (n = i.vert /\ x < i.ctr)
                                          ELSE z < i.ctr
      /\ AtHand(p) <=> r = inp.row /\ IF one THEN n = inp.vert /\ x = inp.ctr ELSE z = inp.ctr
  <2>1. i.scan = inp.scan
    BY <1>1
  <2> HIDE DEF i
  <2> QED  BY <2>1 DEF PastAt, AtHand
<1>7. CASE one
  <2>1. r = inp.row => n < rows
    BY <1>4, <1>7
  <2>2. x < m
    BY <1>4, <1>7
  <2> DEFINE a == inp.row
             b == inp.vert
             c == inp.ctr
             a2 == i.row
             b2 == i.vert
             c2 == i.ctr
             t == Total
  <2>3. /\ a \in Nat /\ b \in Nat /\ c \in Nat /\ rows \in Nat /\ m \in Nat /\ t \in Nat
        /\ r \in Nat /\ n \in Nat /\ x \in Nat /\ a2 \in Nat /\ b2 \in Nat /\ c2 \in Nat
        /\ a < t /\ b < rows /\ c < m /\ r < t /\ x < m /\ (r = a => n < rows)
    BY <1>1, <1>4, <1>5, <2>1, <2>2
  <2>4. \/ c + 1 < m /\ a2 = a /\ b2 = b /\ c2 = c + 1
        \/ ~(c + 1 < m) /\ b + 1 < rows /\ a2 = a /\ b2 = b + 1 /\ c2 = 0
        \/ ~(c + 1 < m) /\ ~(b + 1 < rows) /\ a + 1 < t /\ a2 = a + 1 /\ b2 = 0 /\ c2 = 0
        \/ ~(c + 1 < m) /\ ~(b + 1 < rows) /\ ~(a + 1 < t) /\ a2 = a + 1 /\ b2 = b /\ c2 = 0
    BY <1>2
  <2>5. /\ PastAt(inp, p) <=> r < a \/ (r = a /\ (n < b \/ (n = b /\ x < c)))
        /\ PastAt(i, p) <=> r < a2 \/ (r = a2 /\ (n < b2 \/ (n = b2 /\ x < c2)))
        /\ AtHand(p) <=> r = a /\ n = b /\ x = c
    BY <1>6, <1>7
  <2> HIDE DEF a, b, c, a2, b2, c2, rows, m, r, n, x, t, i
  <2>6. /\ r < a2 \/ (r = a2 /\ (n < b2 \/ (n = b2 /\ x < c2)))
              <=> \/ r < a \/ (r = a /\ (n < b \/ (n = b /\ x < c)))
                  \/ r = a /\ n = b /\ x = c
        /\ ~ (/\ r < a \/ (r = a /\ (n < b \/ (n = b /\ x < c)))
              /\ r = a /\ n = b /\ x = c)
    BY <2>3, <2>4, Order
  <2> QED  BY <2>5, <2>6 DEF i
<1>8. CASE ~one
  <2>0. rows = 1
    BY <1>1, <1>3, <1>8, RowsIs DEF Within
  <2> DEFINE a == inp.row
             b == inp.vert
             c == inp.ctr
             a2 == i.row
             b2 == i.vert
             c2 == i.ctr
             t == Total
  <2>3. /\ a \in Nat /\ b \in Nat /\ c \in Nat /\ rows \in Nat /\ m \in Nat /\ t \in Nat
        /\ r \in Nat /\ z \in Nat /\ a2 \in Nat /\ b2 \in Nat /\ c2 \in Nat
        /\ a < t /\ b < rows /\ c < m /\ r < t /\ z < m /\ rows = 1
    BY <1>1, <1>4, <1>5, <1>8, <2>0
  <2>4. \/ c + 1 < m /\ a2 = a /\ b2 = b /\ c2 = c + 1
        \/ ~(c + 1 < m) /\ b + 1 < rows /\ a2 = a /\ b2 = b + 1 /\ c2 = 0
        \/ ~(c + 1 < m) /\ ~(b + 1 < rows) /\ a + 1 < t /\ a2 = a + 1 /\ b2 = 0 /\ c2 = 0
        \/ ~(c + 1 < m) /\ ~(b + 1 < rows) /\ ~(a + 1 < t) /\ a2 = a + 1 /\ b2 = b /\ c2 = 0
    BY <1>2
  <2>5. /\ PastAt(inp, p) <=> r < a \/ (r = a /\ z < c)
        /\ PastAt(i, p) <=> r < a2 \/ (r = a2 /\ z < c2)
        /\ AtHand(p) <=> r = a /\ z = c
    BY <1>6, <1>8
  <2> HIDE DEF a, b, c, a2, b2, c2, rows, m, r, z, t, i
  <2>6. /\ r < a2 \/ (r = a2 /\ z < c2) <=> (r < a \/ (r = a /\ z < c)) \/ (r = a /\ z = c)
        /\ ~ ((r < a \/ (r = a /\ z < c)) /\ r = a /\ z = c)
    BY <2>3, <2>4
  <2> QED  BY <2>5, <2>6 DEF i
<1> QED  BY <1>7, <1>8

-----------------------------------------------------------------------------
(* The invariant                                                            *)

Facts == FrameFacts /\ ScanFacts /\ OneScan

LEMMA FactsAre ==
  ASSUME pic \in { SetUp(p) : p \in Pictures }
  PROVE  Facts
<1> PICK p \in Pictures : pic = SetUp(p)
  OBVIOUS
<1> QED  BY FrameIs, ScansAre, OneScanIs DEF Facts

\* The picture stays, and what is derived from it.
LEMMA PicSame ==
  ASSUME UNCHANGED pic
  PROVE  /\ Frame' = Frame /\ Image' = Image /\ Comps' = Comps /\ Total' = Total
         /\ FullBuffer' = FullBuffer /\ RealBlocks' = RealBlocks
         /\ \A s : ScanComps(s)' = ScanComps(s)
         /\ \A s, c : InScan(s, c)' <=> InScan(s, c)
         /\ \A s, r : RowsPerIMcuRow(s, r)' = RowsPerIMcuRow(s, r)
<1>1. Frame' = Frame /\ Image' = Image
  BY DEF Frame, Image
<1>2. Comps' = Comps /\ Total' = Total /\ FullBuffer' = FullBuffer
  BY <1>1 DEF Comps, Total, FullBuffer
<1>3. \A s : ScanComps(s)' = ScanComps(s)
  BY DEF ScanComps
<1>4. \A s, c : InScan(s, c)' <=> InScan(s, c)
  BY <1>3 DEF InScan
<1>5. \A s, r : RowsPerIMcuRow(s, r)' = RowsPerIMcuRow(s, r)
  BY <1>1, <1>3 DEF RowsPerIMcuRow, LastIMcuRow
<1>6. RealBlocks' = RealBlocks
  BY <1>1, <1>2 DEF RealBlocks
<1> QED  BY <1>1, <1>2, <1>3, <1>4, <1>5, <1>6

LEMMA PlaceSame ==
  ASSUME UNCHANGED pic
  PROVE  /\ \A s, p : Place(s, p)' = Place(s, p)
         /\ \A e : WellPlaced(e)' <=> WellPlaced(e)
<1>1. /\ Frame' = Frame /\ Image' = Image /\ Comps' = Comps /\ Total' = Total
      /\ \A s : ScanComps(s)' = ScanComps(s)
  BY PicSame
<1>2. McuColumns' = McuColumns
  BY <1>1 DEF McuColumns
<1>3. \A s, c : Ahead(s, c)' = Ahead(s, c)
  BY <1>1 DEF Ahead
<1>4. \A s, p : Place(s, p)' = Place(s, p)
  BY <1>1, <1>2, <1>3 DEF Place
<1>5. \A s : McusOf(s)' = McusOf(s)
  BY <1>1, <1>2 DEF McusOf
<1>6. \A p : Real(p)' <=> Real(p)
  BY <1>1 DEF Real
<1>7. \A e : WellPlaced(e)' <=> WellPlaced(e)
  BY <1>1, <1>4, <1>5, <1>6 DEF WellPlaced
<1> QED  BY <1>4, <1>7

LEMMA McusNat ==
  ASSUME Facts, NEW s \in 1..Len(pic.scans)
  PROVE  pic.perScan[s].mcusPerRow \in Nat \ { 0 }
<1>0. FrameFacts /\ ScanFacts
  BY DEF Facts
<1>1. CASE Len(ScanComps(s)) = 1
  <2>1. ScanComps(s)[1] \in Comps /\ pic.perScan[s].mcusPerRow = Image.blocks[ScanComps(s)[1]].w
    BY <1>0, <1>1, SingleIs
  <2> QED  BY <1>0, <2>1, CompFacts
<1>2. CASE Len(ScanComps(s)) # 1
  <2>1. pic.perScan[s].mcusPerRow = McuColumns
    BY <1>0, <1>2, InterleavedIs
  <2> QED  BY <1>0, <2>1 DEF FrameFacts
<1> QED  BY <1>1, <1>2

\* In a scan there is an MCU at hand.
LEMMA WithinIs ==
  ASSUME Controlled, inp.consume # "markers"
  PROVE  Within
<1>1. Facts
  BY FactsAre DEF Controlled
<1>2. inp.scan \in 1..Len(pic.scans) /\ inp.row \in Nat /\ inp.ctr \in Nat /\ inp.ctr < Scan.mcusPerRow
      /\ inp.vert \in Nat /\ Total \in Nat
  <2>1. /\ inp \in [scan : 1..Len(pic.scans), row : 0..Total, vert : 0..(MaxSampFactor - 1), ctr : Nat,
                    consume : { "data", "dummy", "markers" }, eoi : BOOLEAN]
        /\ inp.ctr < Scan.mcusPerRow
    BY DEF Controlled, TypeOK
  <2>2. MaxSampFactor \in Nat /\ Total \in Nat
    BY <1>1, PictureAssumption DEF Facts, FrameFacts
  <2> QED  BY <2>1, <2>2
<1>3. inp.row < Total /\ inp.vert < RowsPerIMcuRow(inp.scan, inp.row)
  BY DEF Controlled, Positioned
<1>4. Scan.mcusPerRow \in Nat
  BY <1>1, <1>2, McusNat DEF Scan
<1>5. inp.ctr \in 0..(Scan.mcusPerRow - 1)
  <2> DEFINE m == Scan.mcusPerRow
             c == inp.ctr
  <2>1. c \in Nat /\ m \in Nat /\ c < m
    BY <1>2, <1>4
  <2> HIDE DEF m, c
  <2>2. c \in 0..(m - 1)
    BY <2>1
  <2> QED  BY <2>2 DEF m, c
<1>6. inp.row \in 0..(Total - 1)
  BY <1>2, <1>3
<1> QED  BY <1>2, <1>3, <1>5, <1>6 DEF Within

\* The input side has not moved.
Still ==
  /\ pic' = pic
  /\ inp'.scan = inp.scan /\ inp'.row = inp.row /\ inp'.vert = inp.vert /\ inp'.ctr = inp.ctr

LEMMA StillIs ==
  ASSUME Still
  PROVE  /\ \A p : Passed(p)' <=> Passed(p)
         /\ \A s, p : Arrived(s, p)' <=> Arrived(s, p)
<1>1. UNCHANGED pic /\ inp'.scan = inp.scan
  BY DEF Still
<1>2. Frame' = Frame /\ \A s : ScanComps(s)' = ScanComps(s)
  BY <1>1, PicSame
<1>3. ScanComps(inp.scan)' = ScanComps(inp.scan)
  BY <1>1 DEF ScanComps
<1>4. \A p : Passed(p)' <=> Passed(p)
  BY <1>2, <1>3 DEF Passed, Still
<1> QED  BY <1>1, <1>4 DEF Arrived

\* What is stored stays right when nothing else is, and there is nothing else to be stored.
LEMMA StoredKept ==
  ASSUME Stored, UNCHANGED << pic, array >>,
         FullBuffer => \A s \in 1..inp'.scan : \A p \in RealBlocks :
           InScan(s, p[1]) /\ Arrived(s, p)' => s \in 1..inp.scan /\ Arrived(s, p)
  PROVE  Stored'
<1>1. /\ FullBuffer' = FullBuffer /\ RealBlocks' = RealBlocks
      /\ \A s, c : InScan(s, c)' <=> InScan(s, c)
  BY PicSame
<1>2. /\ \A s, p : Place(s, p)' = Place(s, p)
      /\ \A e : WellPlaced(e)' <=> WellPlaced(e)
  BY PlaceSame
<1>3. \A e \in array' : WellPlaced(e)'
  BY <1>2 DEF Stored
<1>4. ASSUME FullBuffer, NEW s \in 1..inp'.scan, NEW p \in RealBlocks, InScan(s, p[1]), Arrived(s, p)'
      PROVE  << p, Place(s, p) >> \in array
  <2>1. s \in 1..inp.scan /\ Arrived(s, p)
    BY <1>4
  <2> QED  BY <1>4, <2>1 DEF Stored
<1>5. FullBuffer' => \A s \in 1..inp'.scan : \A p \in RealBlocks' :
        InScan(s, p[1])' /\ Arrived(s, p)' => << p, Place(s, p)' >> \in array'
  BY <1>1, <1>2, <1>4
<1> QED  BY <1>3, <1>5 DEF Stored

LEMMA StoredStill ==
  ASSUME Stored, Still, array' = array
  PROVE  Stored'
<1>1. \A s, p : Arrived(s, p)' <=> Arrived(s, p)
  BY StillIs
<1>2. UNCHANGED << pic, array >> /\ inp'.scan = inp.scan
  BY DEF Still
<1> QED  BY <1>1, <1>2, StoredKept

LEMMA RightSame ==
  ASSUME UNCHANGED pic, Promised' = Promised
  PROVE  \A e : ShownRight(e)' <=> ShownRight(e)
<1>1. RealBlocks' = RealBlocks /\ \A s, c : InScan(s, c)' <=> InScan(s, c)
  BY PicSame
<1>2. \A s, p : Place(s, p)' = Place(s, p)
  BY PlaceSame
<1> QED  BY <1>1, <1>2 DEF ShownRight

\* Nothing more is shown and nothing more gone over.
LEMMA DisplayedKept ==
  ASSUME Displayed, UNCHANGED << pic, shown >>, Promised' = Promised,
         api' = "SCANNING" => api = "SCANNING" /\ \A p \in RealBlocks : GoneOver(p)' <=> GoneOver(p)
  PROVE  Displayed'
<1>1. \A e : ShownRight(e)' <=> ShownRight(e)
  BY RightSame
<1>2. RealBlocks' = RealBlocks
  BY PicSame
<1>3. \A i : ShownIn(i)' = ShownIn(i)
  BY DEF ShownIn
<1>4. \A i \in DOMAIN shown' : \A e \in shown'[i] : ShownRight(e)'
  BY <1>1 DEF Displayed
<1>5. ASSUME api' = "SCANNING"
      PROVE  /\ UNION { ShownIn(i)' : i \in DOMAIN shown' } = { p \in RealBlocks' : GoneOver(p)' }
             /\ \A i, j \in DOMAIN shown' : i < j => ShownIn(i)' \cap ShownIn(j)' = {}
  <2>1. /\ UNION { ShownIn(i) : i \in DOMAIN shown } = { p \in RealBlocks : GoneOver(p) }
        /\ \A i, j \in DOMAIN shown : i < j => ShownIn(i) \cap ShownIn(j) = {}
    BY <1>5 DEF Displayed
  <2>2. { p \in RealBlocks' : GoneOver(p)' } = { p \in RealBlocks : GoneOver(p) }
    BY <1>2, <1>5
  <2>3. { ShownIn(i)' : i \in DOMAIN shown' } = { ShownIn(i) : i \in DOMAIN shown }
    BY <1>3
  <2> QED  BY <1>3, <2>1, <2>2, <2>3
<1> QED  BY <1>4, <1>5 DEF Displayed

\* A pass begins.
LEMMA DisplayedFresh ==
  ASSUME shown' = << >>, \A p \in RealBlocks' : ~GoneOver(p)'
  PROVE  Displayed'
<1>1. DOMAIN shown' = {}
  OBVIOUS
<1>2. { p \in RealBlocks' : GoneOver(p)' } = {}
  OBVIOUS
<1>3. UNION { ShownIn(i)' : i \in DOMAIN shown' } = {}
  BY <1>1
<1> QED  BY <1>1, <1>2, <1>3 DEF Displayed

\* More is shown, just what is gone over.
LEMMA DisplayedMore ==
  ASSUME Displayed, UNCHANGED pic, Promised' = Promised, api = "SCANNING",
         NEW S, NEW T, shown \in Seq(T), S \in T, shown' = shown \o << S >>,
         \A e \in S : ShownRight(e),
         \A p \in RealBlocks : /\ GoneOver(p)' <=> GoneOver(p) \/ \E e \in S : e[1] = p
                               /\ ~(GoneOver(p) /\ \E e \in S : e[1] = p)
  PROVE  Displayed'
<1> DEFINE n == Len(shown)
<1>1. \A e : ShownRight(e)' <=> ShownRight(e)
  BY RightSame
<1>2. RealBlocks' = RealBlocks
  BY PicSame
<1>3. /\ n \in Nat /\ DOMAIN shown = 1..n /\ DOMAIN shown' = 1..(n + 1)
      /\ \A i \in 1..n : shown'[i] = shown[i]
      /\ shown'[n + 1] = S
  <2>1. n \in Nat /\ DOMAIN shown = 1..n
    OBVIOUS
  <2>2. shown' = Append(shown, S)
    OBVIOUS
  <2> QED  BY <2>1, <2>2
<1> HIDE DEF n
<1>4. /\ \A i \in 1..n : ShownIn(i)' = ShownIn(i)
      /\ \A i : i = n + 1 => ShownIn(i)' = { e[1] : e \in S }
  BY <1>3 DEF ShownIn
<1>5. \A i \in DOMAIN shown' : \A e \in shown'[i] : ShownRight(e)'
  BY <1>1, <1>3 DEF Displayed
<1>6. /\ UNION { ShownIn(i) : i \in 1..n } = { p \in RealBlocks : GoneOver(p) }
      /\ \A i, j \in 1..n : i < j => ShownIn(i) \cap ShownIn(j) = {}
  BY <1>3 DEF Displayed
<1>7. \A p \in { e[1] : e \in S } : p \in RealBlocks /\ GoneOver(p)' /\ ~GoneOver(p)
  <2> SUFFICES ASSUME NEW e \in S PROVE e[1] \in RealBlocks /\ GoneOver(e[1])' /\ ~GoneOver(e[1])
    OBVIOUS
  <2>1. e[1] \in RealBlocks
    BY DEF ShownRight
  <2> QED  BY <2>1
<1>8. ASSUME NEW i \in 1..n, NEW p \in ShownIn(i)
      PROVE  p \in RealBlocks /\ GoneOver(p)
  BY <1>6, <1>8
<1>9. \A i, j \in 1..(n + 1) : i < j => ShownIn(i)' \cap ShownIn(j)' = {}
  <2> SUFFICES ASSUME NEW i \in 1..(n + 1), NEW j \in 1..(n + 1), i < j
               PROVE  ShownIn(i)' \cap ShownIn(j)' = {}
    OBVIOUS
  <2>1. i \in 1..n /\ ShownIn(i)' = ShownIn(i)
    BY <1>3, <1>4
  <2>2. CASE j \in 1..n
    BY <1>4, <1>6, <2>1, <2>2
  <2>3. CASE j = n + 1
    BY <1>4, <1>7, <1>8, <2>1, <2>3
  <2> QED  BY <1>3, <2>2, <2>3
<1>10. UNION { ShownIn(i)' : i \in 1..(n + 1) } = { p \in RealBlocks : GoneOver(p)' }
  <2>1. ASSUME NEW i \in 1..(n + 1), NEW p \in ShownIn(i)'
        PROVE  p \in RealBlocks /\ GoneOver(p)'
    <3>1. CASE i \in 1..n
      <4>1. p \in RealBlocks /\ GoneOver(p)
        BY <1>4, <1>8, <2>1, <3>1
      <4> QED  BY <4>1
    <3>2. CASE i = n + 1
      BY <1>4, <1>7, <2>1, <3>2
    <3> QED  BY <1>3, <3>1, <3>2
  <2>2. ASSUME NEW p \in RealBlocks, GoneOver(p)'
        PROVE  \E i \in 1..(n + 1) : p \in ShownIn(i)'
    <3>1. CASE GoneOver(p)
      <4>1. p \in UNION { ShownIn(i) : i \in 1..n }
        BY <1>6, <2>2, <3>1
      <4>2. PICK i \in 1..n : p \in ShownIn(i)
        BY <4>1
      <4>3. i \in 1..(n + 1)
        BY <1>3
      <4> QED  BY <1>4, <4>2, <4>3
    <3>2. CASE \E e \in S : e[1] = p
      <4>1. p \in { e[1] : e \in S }
        BY <3>2
      <4>2. n + 1 \in 1..(n + 1)
        BY <1>3
      <4>3. PICK i \in 1..(n + 1) : i = n + 1
        BY <4>2
      <4> QED  BY <1>4, <4>1, <4>3
    <3> QED  BY <2>2, <3>1, <3>2
  <2> QED  BY <2>1, <2>2
<1> QED  BY <1>2, <1>3, <1>5, <1>9, <1>10 DEF Displayed

\* Records of the input side, field by field.
LEMMA FieldsSet ==
  ASSUME NEW A, NEW B, NEW C, NEW D, NEW E, NEW F,
         NEW i \in [scan : A, row : B, vert : C, ctr : D, consume : E, eoi : F],
         NEW a \in A, NEW b \in B, NEW c \in C, NEW d \in D, NEW e \in E
  PROVE  LET R == [scan : A, row : B, vert : C, ctr : D, consume : E, eoi : F] IN
         /\ [i EXCEPT !.ctr = d] \in R
         /\ [i EXCEPT !.ctr = d, !.vert = c] \in R
         /\ [i EXCEPT !.row = b, !.ctr = d, !.vert = c] \in R
         /\ [i EXCEPT !.row = b, !.ctr = d, !.consume = e] \in R
         /\ [i EXCEPT !.row = b, !.consume = e, !.ctr = d, !.vert = c] \in R
         /\ [i EXCEPT !.scan = a, !.row = b, !.consume = e, !.ctr = d, !.vert = c] \in R
OBVIOUS

InputRecords ==
  [scan : 1..Len(pic.scans), row : 0..Total, vert : 0..(MaxSampFactor - 1), ctr : Nat,
   consume : { "data", "dummy", "markers" }, eoi : BOOLEAN]

LEMMA AfterTyped ==
  ASSUME FrameFacts, ScanFacts, TypeOK, Within
  PROVE  AfterMcu \in InputRecords
<1> DEFINE i == AfterMcu
           A == 1..Len(pic.scans)
           B == 0..Total
           C == 0..(MaxSampFactor - 1)
           E == { "data", "dummy", "markers" }
           R == [scan : A, row : B, vert : C, ctr : Nat, consume : E, eoi : BOOLEAN]
<1>1. inp \in R
  BY DEF TypeOK
<1>2. /\ i.row \in B /\ i.vert \in C /\ i.ctr \in Nat
      /\ 0 \in Nat /\ 0 \in C /\ "markers" \in E
  <2>1. i.row \in Nat /\ i.row <= Total /\ Total \in Nat
    <3>1. i.row \in Nat /\ Total \in Nat /\ (i.row < Total \/ i.row = Total)
      BY AfterIs
    <3> HIDE DEF i
    <3> QED  BY <3>1
  <2>2. i.row \in B
    <3> HIDE DEF i
    <3> QED  BY <2>1
  <2>3. 0 \in C
    BY PictureAssumption
  <2> QED  BY <2>2, <2>3, AfterIs
<1>3. \/ i = [inp EXCEPT !.ctr = i.ctr]
      \/ i = [inp EXCEPT !.ctr = 0, !.vert = i.vert]
      \/ i = [inp EXCEPT !.row = i.row, !.ctr = 0, !.vert = 0]
      \/ i = [inp EXCEPT !.row = i.row, !.ctr = 0, !.consume = "markers"]
  <2>0. DOMAIN inp = { "scan", "row", "vert", "ctr", "consume", "eoi" }
    BY <1>1
  <2>1. CASE inp.ctr + 1 < Scan.mcusPerRow
    <3>1. i = [inp EXCEPT !.ctr = inp.ctr + 1]
      BY <2>1 DEF AfterMcu
    <3>2. i.ctr = inp.ctr + 1
      BY <2>0, <3>1
    <3> QED  BY <3>1, <3>2
  <2>2. CASE ~(inp.ctr + 1 < Scan.mcusPerRow) /\ inp.vert + 1 < RowsPerIMcuRow(inp.scan, inp.row)
    <3>1. i = [inp EXCEPT !.ctr = 0, !.vert = inp.vert + 1]
      BY <2>2 DEF AfterMcu
    <3>2. i.vert = inp.vert + 1
      BY <2>0, <3>1
    <3> QED  BY <3>1, <3>2
  <2>3. CASE /\ ~(inp.ctr + 1 < Scan.mcusPerRow) /\ ~(inp.vert + 1 < RowsPerIMcuRow(inp.scan, inp.row))
             /\ inp.row + 1 < Image.totalIMcuRows
    <3>1. i = [inp EXCEPT !.row = inp.row + 1, !.ctr = 0, !.vert = 0]
      BY <2>3 DEF AfterMcu, StartIMcuRow
    <3>2. i.row = inp.row + 1
      BY <2>0, <3>1
    <3> QED  BY <3>1, <3>2
  <2>4. CASE /\ ~(inp.ctr + 1 < Scan.mcusPerRow) /\ ~(inp.vert + 1 < RowsPerIMcuRow(inp.scan, inp.row))
             /\ ~(inp.row + 1 < Image.totalIMcuRows)
    <3>1. i = [inp EXCEPT !.row = inp.row + 1, !.ctr = 0, !.consume = "markers"]
      BY <2>4 DEF AfterMcu, FinishInputPass
    <3>2. i.row = inp.row + 1
      BY <2>0, <3>1
    <3> QED  BY <3>1, <3>2
  <2> QED  BY <2>1, <2>2, <2>3, <2>4
<1> HIDE DEF i, A, B, C, E
<1>4. /\ [inp EXCEPT !.ctr = i.ctr] \in R
      /\ [inp EXCEPT !.ctr = 0, !.vert = i.vert] \in R
      /\ [inp EXCEPT !.row = i.row, !.ctr = 0, !.vert = 0] \in R
      /\ [inp EXCEPT !.row = i.row, !.ctr = 0, !.consume = "markers"] \in R
  <2> HIDE DEF R
  <2> SUFFICES ASSUME NEW r \in B, NEW v \in C, NEW c \in Nat, NEW z \in Nat, NEW y \in C, NEW e \in E
               PROVE  /\ [inp EXCEPT !.ctr = c] \in R
                      /\ [inp EXCEPT !.ctr = z, !.vert = v] \in R
                      /\ [inp EXCEPT !.row = r, !.ctr = z, !.vert = y] \in R
                      /\ [inp EXCEPT !.row = r, !.ctr = z, !.consume = e] \in R
    BY <1>2
  <2> QED  BY <1>1 DEF R
<1>5. i \in R
  <2> HIDE DEF R
  <2> QED  BY <1>3, <1>4
<1> QED  BY <1>5 DEF i, A, B, C, E, InputRecords

\* What is to be shown of the types after a step.
LEMMA TypeNext ==
  ASSUME UNCHANGED pic,
         api' \in { "READY", "PRELOAD", "BUFIMAGE", "SCANNING", "BUFPOST", "STOPPING", "START" },
         inp' \in InputRecords', inp'.ctr < Scan'.mcusPerRow,
         out' \in [scan : 0..(Len(pic.scans) + 1), row : 0..Total, smooth : BOOLEAN],
         array' \subseteq Triples \X Triples, shown' \in Seq(SUBSET (Triples \X SUBSET Triples))
  PROVE  TypeOK'
<1>1. Total' = Total
  BY PicSame
<1> QED  BY <1>1 DEF TypeOK, InputRecords

LEMMA RecordsSame ==
  ASSUME UNCHANGED pic
  PROVE  InputRecords' = InputRecords
<1>1. Total' = Total
  BY PicSame
<1> QED  BY <1>1 DEF InputRecords

\* An MCU comes: where that takes the input side.
LEMMA McuMoves ==
  ASSUME Controlled, UNCHANGED pic, inp.consume # "markers", inp' = AfterMcu,
         api' = api, out'.scan = out.scan
  PROVE  /\ Facts /\ Within
         /\ inp' \in InputRecords' /\ inp'.ctr < Scan'.mcusPerRow /\ Positioned'
         /\ inp'.scan = inp.scan /\ inp'.row \in 0..Total
         /\ \A p \in RealBlocks : InScan(inp.scan, p[1]) =>
              /\ Passed(p)' <=> Passed(p) \/ AtHand(p)
              /\ ~(Passed(p) /\ AtHand(p))
<1>1. Facts /\ Within
  BY WithinIs, FactsAre DEF Controlled
<1>2. FrameFacts /\ ScanFacts /\ TypeOK
  BY <1>1 DEF Facts, Controlled
<1>3. AfterMcu \in InputRecords
  BY <1>1, <1>2, AfterTyped
<1>4. inp' \in InputRecords'
  BY <1>3, RecordsSame
<1>5. /\ inp'.scan = inp.scan /\ inp'.eoi = inp.eoi
      /\ inp'.ctr < Scan.mcusPerRow
      /\ \/ /\ inp'.consume = inp.consume /\ inp'.row < Total
            /\ inp'.vert < RowsPerIMcuRow(inp.scan, inp'.row)
         \/ inp'.consume = "markers" /\ inp'.row = Total
  BY <1>1, <1>2, AfterIs
<1>6. Scan' = Scan
  BY <1>5 DEF Scan
<1>7. /\ api # "READY" /\ inp.consume = (IF FullBuffer THEN "data" ELSE "dummy") /\ ~inp.eoi
  <2>1. inp.consume = (IF FullBuffer THEN "data" ELSE "dummy") /\ api # "READY"
    BY DEF Controlled, Positioned
  <2>2. inp.eoi => inp.consume = "markers"
    BY DEF Controlled, Positioned
  <2>3. inp.eoi \in BOOLEAN
    BY <1>2 DEF TypeOK
  <2> QED  BY <2>1, <2>2
<1>8. /\ Total' = Total /\ FullBuffer' = FullBuffer
      /\ \A s, r : RowsPerIMcuRow(s, r)' = RowsPerIMcuRow(s, r)
  BY PicSame
<1>9. RowsPerIMcuRow(inp.scan, inp.row)' = RowsPerIMcuRow(inp.scan, inp'.row)
  <2>1. RowsPerIMcuRow(inp.scan, inp.row)' = RowsPerIMcuRow(inp'.scan, inp'.row)
    <3>1. Frame' = Frame /\ Image' = Image
      BY PicSame
    <3>2. \A s : ScanComps(s)' = ScanComps(s)
      BY PicSame
    <3>3. ScanComps(inp.scan)' = ScanComps(inp'.scan)
      BY DEF ScanComps
    <3> QED  BY <3>1, <3>3 DEF RowsPerIMcuRow, LastIMcuRow
  <2> QED  BY <1>5, <2>1
<1>10. Positioned'
  <2>1. inp'.consume = "markers" => inp'.row = (IF api' = "READY" THEN 0 ELSE Total')
    BY <1>5, <1>7, <1>8
  <2>2. inp'.consume # "markers" =>
           /\ inp'.consume = (IF FullBuffer' THEN "data" ELSE "dummy") /\ api' # "READY"
           /\ inp'.row < Total' /\ inp'.vert < RowsPerIMcuRow(inp.scan, inp.row)'
    BY <1>5, <1>7, <1>8, <1>9
  <2>3. api' # "READY" /\ ~inp'.eoi
    BY <1>5, <1>7
  <2> QED  BY <2>1, <2>2, <2>3 DEF Positioned
<1>11. inp'.row \in 0..Total
  BY <1>3 DEF InputRecords
<1>12. ASSUME NEW p \in RealBlocks, InScan(inp.scan, p[1])
       PROVE  /\ Passed(p)' <=> Passed(p) \/ AtHand(p)
              /\ ~(Passed(p) /\ AtHand(p))
  <2>1. (Passed(p) <=> PastAt(inp, p)) /\ (Passed(p)' <=> PastAt(inp', p))
    BY PassedIs
  <2>2. /\ PastAt(AfterMcu, p) <=> PastAt(inp, p) \/ AtHand(p)
        /\ ~(PastAt(inp, p) /\ AtHand(p))
    BY <1>1, <1>2, <1>12, Advance
  <2> QED  BY <2>1, <2>2
<1> QED  BY <1>1, <1>4, <1>5, <1>6, <1>10, <1>11, <1>12

\* The passes and the pace of the two sides, when neither side goes on.
LEMMA PromisedSame ==
  ASSUME UNCHANGED pic, out'.scan = out.scan
  PROVE  Promised' = Promised
BY DEF Promised

LEMMA ConsumeDataStep ==
  ASSUME Controlled, ConsumeData
  PROVE  Controlled'
<1>1. /\ UNCHANGED << pic, api, out, shown >> /\ inp.consume = "data" /\ inp' = AfterMcu
      /\ array' = array \cup { << Target(b), Coefs(b) >> : b \in { d \in McuBlocks : InMcu(d) } }
  BY DEF ConsumeData
<1>2. /\ Facts /\ Within
      /\ inp' \in InputRecords' /\ inp'.ctr < Scan'.mcusPerRow /\ Positioned'
      /\ inp'.scan = inp.scan
      /\ \A p \in RealBlocks : InScan(inp.scan, p[1]) =>
           /\ Passed(p)' <=> Passed(p) \/ AtHand(p)
           /\ ~(Passed(p) /\ AtHand(p))
  BY <1>1, McuMoves
<1>3. FrameFacts /\ ScanFacts
  BY <1>2 DEF Facts
<1>4. FullBuffer
  <2>1. inp.consume = (IF FullBuffer THEN "data" ELSE "dummy")
    BY <1>1 DEF Controlled, Positioned
  <2> QED  BY <1>1, <2>1
<1>5. \A b \in McuBlocks : InMcu(b) =>
        /\ Target(b) \in Triples /\ Coefs(b) \in Triples /\ Coefs(b) = Place(inp.scan, Target(b))
        /\ WellPlaced(<< Target(b), Coefs(b) >>)
  BY <1>2, <1>3, BlockPlaced
<1>6. pic' \in { SetUp(p) : p \in Pictures }
  BY <1>1 DEF Controlled
<1>7. TypeOK'
  <2>1. array' \subseteq Triples \X Triples
    <3>1. array \subseteq Triples \X Triples
      BY DEF Controlled, TypeOK
    <3> QED  BY <1>1, <1>5, <3>1
  <2>2. TypeOK
    BY DEF Controlled
  <2> QED  BY <1>1, <1>2, <2>1, <2>2, TypeNext DEF TypeOK
<1>8. Paced'
  <2>1. FullBuffer' = FullBuffer
    BY <1>1, PicSame
  <2>2. inp'.eoi = inp.eoi
    BY <1>2, <1>3, AfterIs, <1>1 DEF Controlled
  <2> QED  BY <1>1, <1>4, <2>1, <2>2 DEF Controlled, Paced
<1>9. Stored'
  <2>1. /\ FullBuffer' = FullBuffer /\ RealBlocks' = RealBlocks
        /\ \A s, c : InScan(s, c)' <=> InScan(s, c)
    BY <1>1, PicSame
  <2>2. /\ \A s, p : Place(s, p)' = Place(s, p)
        /\ \A e : WellPlaced(e)' <=> WellPlaced(e)
    BY <1>1, PlaceSame
  <2>3. Stored
    BY DEF Controlled
  <2>4. \A e \in array' : WellPlaced(e)'
    BY <1>1, <1>5, <2>2, <2>3 DEF Stored
  <2>5. ASSUME NEW s \in 1..inp.scan, NEW p \in RealBlocks, InScan(s, p[1]), Arrived(s, p)'
        PROVE  << p, Place(s, p) >> \in array'
    <3>1. CASE Arrived(s, p)
      <4>1. << p, Place(s, p) >> \in array
        BY <1>4, <2>3, <2>5, <3>1 DEF Stored
      <4> QED  BY <1>1, <4>1
    <3>2. CASE ~Arrived(s, p)
      <4>1. s = inp.scan /\ AtHand(p)
        BY <1>2, <2>5, <3>2 DEF Arrived
      <4>2. PICK b \in McuBlocks : InMcu(b) /\ Target(b) = p
        BY <1>2, <1>3, <2>5, <4>1, BlockFound
      <4>3. Coefs(b) = Place(s, p)
        BY <1>5, <4>1, <4>2
      <4>4. << Target(b), Coefs(b) >> \in array'
        BY <1>1, <4>2
      <4> QED  BY <4>2, <4>3, <4>4
    <3> QED  BY <3>1, <3>2
  <2>6. \A s \in 1..inp'.scan : \A p \in RealBlocks' :
          InScan(s, p[1])' /\ Arrived(s, p)' => << p, Place(s, p)' >> \in array'
    BY <1>2, <2>1, <2>2, <2>5
  <2> QED  BY <2>4, <2>6 DEF Stored
<1>10. Displayed'
  <2>1. Promised' = Promised
    BY <1>1, PromisedSame
  <2>2. FullBuffer' = FullBuffer /\ Frame' = Frame
    BY <1>1, PicSame
  <2>3. \A p : GoneOver(p)' <=> GoneOver(p)
    BY <1>1, <1>4, <2>2 DEF GoneOver
  <2> QED  BY <1>1, <2>1, <2>3, DisplayedKept DEF Controlled
<1> QED  BY <1>2, <1>6, <1>7, <1>8, <1>9, <1>10 DEF Controlled

LEMMA DecompressOnepassStep ==
  ASSUME Controlled, DecompressOnepass
  PROVE  Controlled'
<1> DEFINE S == { << Target(b), { Coefs(b) } >> : b \in { c \in McuBlocks : InMcu(c) /\ Useful(c) } }
           T == SUBSET (Triples \X SUBSET Triples)
<1>1. /\ UNCHANGED << pic, api, array >> /\ api = "SCANNING" /\ ~FullBuffer /\ inp.consume = "dummy"
      /\ inp' = AfterMcu /\ out' = [out EXCEPT !.row = AfterMcu.row] /\ shown' = shown \o << S >>
  BY DEF DecompressOnepass
<1>2. TypeOK /\ Positioned /\ Paced /\ Stored /\ Displayed
  BY DEF Controlled
<1>3. /\ out \in [scan : 0..(Len(pic.scans) + 1), row : 0..Total, smooth : BOOLEAN]
      /\ out'.scan = out.scan /\ out'.smooth = out.smooth /\ out'.row = inp'.row
  <2>1. out \in [scan : 0..(Len(pic.scans) + 1), row : 0..Total, smooth : BOOLEAN]
    BY <1>2 DEF TypeOK
  <2>2. PICK r : r = AfterMcu.row
    OBVIOUS
  <2>3. out' = [out EXCEPT !.row = r] /\ inp'.row = r
    BY <1>1, <2>2
  <2> QED  BY <2>1, <2>3
<1>4. /\ Facts /\ Within
      /\ inp' \in InputRecords' /\ inp'.ctr < Scan'.mcusPerRow /\ Positioned'
      /\ inp'.scan = inp.scan /\ inp'.row \in 0..Total
      /\ \A p \in RealBlocks : InScan(inp.scan, p[1]) =>
           /\ Passed(p)' <=> Passed(p) \/ AtHand(p)
           /\ ~(Passed(p) /\ AtHand(p))
  BY <1>1, <1>3, McuMoves
<1>5. FrameFacts /\ ScanFacts /\ OneScan
  BY <1>4 DEF Facts
<1>6. /\ Len(pic.scans) = 1 /\ ~pic.buffered /\ inp.scan = 1
      /\ \A c \in Comps : InScan(inp.scan, c)
  <2>1. Len(pic.scans) = 1 /\ ~pic.buffered /\ \A c \in Comps : InScan(1, c)
    BY <1>1, <1>5 DEF OneScan
  <2>2. inp.scan = 1
    BY <1>4, <2>1 DEF Within
  <2> QED  BY <2>1, <2>2
<1>7. \A b \in McuBlocks : InMcu(b) =>
        /\ Target(b) \in Triples /\ Coefs(b) \in Triples /\ Coefs(b)[1] = inp.scan
        /\ Coefs(b) = Place(inp.scan, Target(b)) /\ AtHand(Target(b))
        /\ Useful(b) <=> Target(b) \in RealBlocks
  BY <1>4, <1>5, BlockPlaced
<1>8. FullBuffer' = FullBuffer /\ Promised' = Promised
  BY <1>1, <1>3, PicSame, PromisedSame
<1>9. S \in T
  BY <1>7
<1>10. shown \in Seq(T)
  BY <1>2 DEF TypeOK
<1>11. pic' \in { SetUp(p) : p \in Pictures }
  BY <1>1 DEF Controlled
<1>12. TypeOK'
  <2>1. shown' \in Seq(T)
    <3> HIDE DEF S, T
    <3> QED  BY <1>1, <1>9, <1>10
  <2>2. out' \in [scan : 0..(Len(pic.scans) + 1), row : 0..Total, smooth : BOOLEAN]
    <3>1. PICK r \in 0..Total : r = AfterMcu.row
      BY <1>1, <1>4
    <3>2. out' = [out EXCEPT !.row = r]
      BY <1>1, <3>1
    <3> QED  BY <1>3, <3>2
  <2> QED  BY <1>1, <1>2, <1>4, <2>1, <2>2, TypeNext DEF TypeOK
<1>13. Paced'
  BY <1>1, <1>2, <1>3, <1>8 DEF Paced
<1>14. Stored'
  BY <1>1, <1>2, <1>4, StoredKept
<1>15. ASSUME NEW e \in S
       PROVE  ShownRight(e)
  <2>1. PICK b \in McuBlocks : InMcu(b) /\ Useful(b) /\ e = << Target(b), { Coefs(b) } >>
    OBVIOUS
  <2>2. Promised = 1
    BY <1>6 DEF Promised
  <2> HIDE DEF S
  <2>3. e[1] = Target(b) /\ e[2] = { Coefs(b) }
    BY <2>1
  <2>4. \A k \in e[2] : k = Place(k[1], e[1])
    BY <1>7, <2>1, <2>3
  <2>5. \A s \in 1..Promised : InScan(s, e[1][1]) => Place(s, e[1]) \in e[2]
    BY <1>6, <1>7, <2>1, <2>2, <2>3
  <2> QED  BY <1>7, <2>1, <2>3, <2>4, <2>5 DEF ShownRight
<1>16. ASSUME NEW p \in RealBlocks
       PROVE  AtHand(p) <=> \E e \in S : e[1] = p
  <2>1. ASSUME AtHand(p) PROVE \E e \in S : e[1] = p
    <3>1. InScan(inp.scan, p[1])
      BY <1>5, <1>6, RealTyped
    <3>2. PICK b \in McuBlocks : InMcu(b) /\ Target(b) = p
      BY <1>4, <1>5, <2>1, <3>1, BlockFound
    <3>3. Useful(b)
      BY <1>7, <3>2
    <3>4. << Target(b), { Coefs(b) } >> \in S
      BY <3>2, <3>3
    <3> QED  BY <3>2, <3>4
  <2>2. ASSUME NEW e \in S, e[1] = p PROVE AtHand(p)
    <3>1. PICK b \in McuBlocks : InMcu(b) /\ Useful(b) /\ e = << Target(b), { Coefs(b) } >>
      OBVIOUS
    <3> QED  BY <1>7, <2>2, <3>1
  <2> QED  BY <2>1, <2>2
<1>17. ASSUME NEW p \in RealBlocks
       PROVE  /\ GoneOver(p)' <=> GoneOver(p) \/ \E e \in S : e[1] = p
              /\ ~(GoneOver(p) /\ \E e \in S : e[1] = p)
  <2>1. (GoneOver(p) <=> Passed(p)) /\ (GoneOver(p)' <=> Passed(p)')
    BY <1>1, <1>8 DEF GoneOver
  <2>2. InScan(inp.scan, p[1])
    BY <1>5, <1>6, RealTyped
  <2> QED  BY <1>4, <1>16, <2>1, <2>2
<1>18. Displayed'
  <2> HIDE DEF S, T
  <2> QED  BY <1>1, <1>2, <1>8, <1>9, <1>10, <1>15, <1>17, DisplayedMore
<1> QED  BY <1>4, <1>11, <1>12, <1>13, <1>14, <1>18 DEF Controlled

\* At the end of a scan all of it has arrived.
LEMMA AllArrived ==
  ASSUME Controlled, inp.consume = "markers", api # "READY",
         NEW s \in 1..inp.scan, NEW p \in RealBlocks, InScan(s, p[1])
  PROVE  Arrived(s, p)
<1>1. FrameFacts /\ ScanFacts
  BY FactsAre DEF Controlled, Facts
<1>2. inp.scan \in 1..Len(pic.scans) /\ inp.row = Total
  BY DEF Controlled, TypeOK, Positioned
<1>3. CASE s < inp.scan
  BY <1>3 DEF Arrived
<1>4. CASE s = inp.scan
  <2> DEFINE r == p[2] \div Frame.comps[p[1]].v
  <2>1. r \in 0..(Total - 1) /\ Total \in Nat
    BY <1>1, <1>2, <1>4, TurnIs DEF FrameFacts
  <2>2. r < inp.row
    <3> HIDE DEF r
    <3> QED  BY <1>2, <2>1
  <2> QED  BY <1>4, <2>2 DEF Arrived, Passed
<1>5. s < inp.scan \/ s = inp.scan
  <2>1. inp.scan \in Nat
    BY <1>1, <1>2 DEF ScanFacts
  <2> QED  BY <2>1
<1> QED  BY <1>3, <1>4, <1>5

\* At the start of a scan nothing of it has.
LEMMA NoneArrived ==
  ASSUME FrameFacts, ScanFacts, inp.scan \in 1..Len(pic.scans), AtStart,
         NEW p \in RealBlocks, InScan(inp.scan, p[1])
  PROVE  ~Passed(p)
<1> DEFINE r == p[2] \div Frame.comps[p[1]].v
           n == p[2] % Frame.comps[p[1]].v
           z == p[3] \div Frame.comps[p[1]].h
<1>1. r \in 0..(Total - 1) /\ n \in Nat /\ z \in Nat /\ p[3] \in Nat
  BY TurnIs
<1>2. Passed(p) <=> \/ r < inp.row
                    \/ r = inp.row /\ IF Len(ScanComps(inp.scan)) = 1
                                      THEN n < inp.vert \/ (n = inp.vert /\ p[3] < inp.ctr)
                                      ELSE z < inp.ctr
  BY DEF Passed
<1>3. ~(r < 0) /\ ~(n < 0) /\ ~(z < 0) /\ ~(p[3] < 0)
  <2> DEFINE x == p[3]
  <2>1. r \in 0..(Total - 1) /\ n \in Nat /\ z \in Nat /\ x \in Nat
    BY <1>1
  <2> HIDE DEF r, n, z, x
  <2>2. ~(r < 0) /\ ~(n < 0) /\ ~(z < 0) /\ ~(x < 0)
    BY <2>1
  <2> QED  BY <2>2 DEF x
<1> QED  BY <1>2, <1>3 DEF AtStart

LEMMA ReachSosStep ==
  ASSUME Controlled, api # "READY", ReachSos
  PROVE  Controlled'
<1>1. /\ UNCHANGED << pic, api, out, array, shown >>
      /\ inp.consume = "markers" /\ inp.scan < Len(pic.scans)
      /\ inp' = StartInputPass([inp EXCEPT !.scan = inp.scan + 1])
  BY DEF ReachSos
<1>2. TypeOK /\ Positioned /\ Paced /\ Stored /\ Displayed
  BY DEF Controlled
<1>3. Facts /\ FrameFacts /\ ScanFacts /\ OneScan
  BY FactsAre DEF Controlled, Facts
<1>4. inp \in InputRecords /\ inp.scan \in 1..Len(pic.scans) /\ Len(pic.scans) \in Nat
  BY <1>2, <1>3 DEF TypeOK, InputRecords, ScanFacts
<1>5. FullBuffer
  <2>1. Len(pic.scans) # 1
    <3> DEFINE n == Len(pic.scans)
               m == inp.scan
    <3>1. m \in 1..n /\ m < n /\ n \in Nat
      BY <1>1, <1>4
    <3> HIDE DEF n, m
    <3>2. n # 1
      BY <3>1
    <3> QED  BY <3>2 DEF n
  <2>2. ~FullBuffer => Len(pic.scans) = 1
    BY <1>3 DEF OneScan
  <2> QED  BY <2>1, <2>2
<1>6. inp' = [inp EXCEPT !.scan = inp.scan + 1, !.row = 0, !.consume = "data", !.ctr = 0, !.vert = 0]
  BY <1>1, <1>5 DEF StartInputPass, StartIMcuRow
<1>7. inp.scan + 1 \in 1..Len(pic.scans)
  BY <1>1, <1>4
<1>8. inp' \in InputRecords
  <2>1. 0 \in 0..Total /\ 0 \in 0..(MaxSampFactor - 1) /\ 0 \in Nat
    BY <1>3, PictureAssumption DEF FrameFacts
  <2> DEFINE A == 1..Len(pic.scans)
             B == 0..Total
             C == 0..(MaxSampFactor - 1)
             E == { "data", "dummy", "markers" }
             m == inp.scan + 1
  <2>2. inp \in [scan : A, row : B, vert : C, ctr : Nat, consume : E, eoi : BOOLEAN] /\ "data" \in E
    BY <1>4 DEF InputRecords
  <2>3. m \in A /\ 0 \in B /\ 0 \in C
    BY <1>7, <2>1
  <2> HIDE DEF A, B, C, E, m
  <2>4. [inp EXCEPT !.scan = m, !.row = 0, !.consume = "data", !.ctr = 0, !.vert = 0]
          \in [scan : A, row : B, vert : C, ctr : Nat, consume : E, eoi : BOOLEAN]
    BY <2>1, <2>2, <2>3
  <2> QED  BY <1>6, <2>4 DEF A, B, C, E, m, InputRecords
<1>9. /\ inp'.scan = inp.scan + 1 /\ inp'.row = 0 /\ inp'.consume = "data" /\ inp'.ctr = 0
      /\ inp'.vert = 0 /\ inp'.eoi = inp.eoi
  BY <1>4, <1>6 DEF InputRecords
<1>10. /\ FullBuffer' = FullBuffer /\ Total' = Total /\ Frame' = Frame
       /\ RealBlocks' = RealBlocks /\ \A s : ScanComps(s)' = ScanComps(s)
       /\ \A s, r : RowsPerIMcuRow(s, r)' = RowsPerIMcuRow(s, r)
       /\ \A s, c : InScan(s, c)' <=> InScan(s, c)
  BY <1>1, PicSame
<1>11. inp'.ctr < Scan'.mcusPerRow
  <2>1. Scan' = pic.perScan[inp'.scan] /\ inp'.scan \in 1..Len(pic.scans)
    BY <1>1, <1>7, <1>9 DEF Scan
  <2>2. Scan'.mcusPerRow \in Nat \ { 0 }
    BY <1>3, <2>1, McusNat
  <2> DEFINE m == Scan'.mcusPerRow
  <2> HIDE DEF m
  <2>3. 0 < m
    BY <2>2 DEF m
  <2> QED  BY <1>9, <2>3 DEF m
<1>12. TypeOK'
  <2>1. inp' \in InputRecords'
    BY <1>1, <1>8, RecordsSame
  <2> QED  BY <1>1, <1>2, <1>11, <2>1, TypeNext DEF TypeOK
<1>13. Positioned'
  <2>1. ~inp.eoi
    <3>1. inp.eoi => inp.scan = Len(pic.scans)
      BY <1>2 DEF Positioned
    <3> QED  BY <1>1, <1>4, <3>1
  <2>2. inp'.row < Total'
    BY <1>3, <1>9, <1>10 DEF FrameFacts
  <2>3. inp'.vert < RowsPerIMcuRow(inp.scan, inp.row)'
    <3>1. RowsPerIMcuRow(inp.scan, inp.row)' = RowsPerIMcuRow(inp'.scan, inp'.row)
      BY <1>1 DEF RowsPerIMcuRow, ScanComps, Frame, Image, LastIMcuRow
    <3>2. inp'.scan \in 1..Len(pic.scans) /\ inp'.row \in 0..(Total - 1)
      BY <1>3, <1>7, <1>9 DEF FrameFacts
    <3>3. RowsPerIMcuRow(inp'.scan, inp'.row) \in 1..MaxSampFactor
      BY <1>3, <3>2, RowsIs
    <3> DEFINE m == RowsPerIMcuRow(inp'.scan, inp'.row)
    <3>4. 0 < m
      <4> HIDE DEF m
      <4> QED  BY <3>3 DEF m
    <3> QED  BY <1>9, <3>1, <3>4
  <2>4. api' # "READY"
    BY <1>1
  <2> QED  BY <1>5, <1>9, <1>10, <2>1, <2>2, <2>3, <2>4 DEF Positioned
<1>14. Paced'
  BY <1>1, <1>2, <1>5, <1>9, <1>10 DEF Paced
<1>15. Stored'
  <2>1. ASSUME NEW s \in 1..inp'.scan, NEW p \in RealBlocks, InScan(s, p[1]), Arrived(s, p)'
        PROVE  s \in 1..inp.scan /\ Arrived(s, p)
    <3>1. CASE s \in 1..inp.scan
      BY <1>1, <2>1, <3>1, AllArrived
    <3>2. CASE s = inp'.scan
      <4>1. Passed(p)'
        BY <1>9, <2>1, <3>2 DEF Arrived
      <4>2. ~Passed(p)'
        <5> DEFINE r == p[2] \div Frame.comps[p[1]].v
                   n == p[2] % Frame.comps[p[1]].v
                   z == p[3] \div Frame.comps[p[1]].h
                   x == p[3]
        <5>1. r \in 0..(Total - 1) /\ n \in Nat /\ z \in Nat /\ x \in Nat
          <6>1. s \in 1..Len(pic.scans)
            BY <1>7, <1>9, <3>2
          <6> QED  BY <1>3, <2>1, <6>1, TurnIs
        <5>2. Passed(p)' <=> \/ r < 0
                             \/ r = 0 /\ IF Len(ScanComps(inp'.scan)) = 1
                                         THEN n < 0 \/ (n = 0 /\ x < 0)
                                         ELSE z < 0
          <6>1. ScanComps(inp.scan)' = ScanComps(inp'.scan)
            BY <1>1 DEF ScanComps
          <6> QED  BY <1>9, <1>10, <6>1 DEF Passed
        <5> HIDE DEF r, n, z, x
        <5>3. ~(r < 0) /\ ~(n < 0) /\ ~(z < 0) /\ ~(x < 0)
          BY <5>1
        <5> QED  BY <5>2, <5>3
      <4> QED  BY <4>1, <4>2
    <3>3. s \in 1..inp.scan \/ s = inp'.scan
      BY <1>4, <1>9
    <3> QED  BY <3>1, <3>2, <3>3
  <2> QED  BY <1>1, <1>2, <2>1, StoredKept
<1>16. Displayed'
  <2>1. Promised' = Promised
    BY <1>1, PromisedSame
  <2>2. \A p : GoneOver(p)' <=> GoneOver(p)
    BY <1>1, <1>5, <1>10 DEF GoneOver
  <2> QED  BY <1>1, <1>2, <2>1, <2>2, DisplayedKept
<1> QED  BY <1>1, <1>12, <1>13, <1>14, <1>15, <1>16 DEF Controlled

LEMMA ReachEoiStep ==
  ASSUME Controlled, api # "READY", ReachEoi
  PROVE  Controlled'
<1>1. /\ UNCHANGED << pic, api, array, shown >>
      /\ inp.consume = "markers" /\ inp.scan = Len(pic.scans) /\ ~inp.eoi
      /\ inp' = [inp EXCEPT !.eoi = TRUE]
      /\ out' = [out EXCEPT !.scan = Min({ out.scan, inp.scan })]
  BY DEF ReachEoi, Bounded
<1>2. TypeOK /\ Positioned /\ Paced /\ Stored /\ Displayed
  BY DEF Controlled
<1>3. FrameFacts /\ ScanFacts
  BY FactsAre DEF Controlled, Facts
<1>4. /\ inp \in InputRecords /\ inp.scan \in 1..Len(pic.scans) /\ Len(pic.scans) \in Nat \ { 0 }
      /\ inp.scan \in Nat \ { 0 }
      /\ out \in [scan : 0..(Len(pic.scans) + 1), row : 0..Total, smooth : BOOLEAN]
  BY <1>1, <1>2, <1>3 DEF TypeOK, InputRecords, ScanFacts
<1>5. /\ inp'.scan = inp.scan /\ inp'.row = inp.row /\ inp'.vert = inp.vert /\ inp'.ctr = inp.ctr
      /\ inp'.consume = inp.consume /\ inp'.eoi = TRUE
  BY <1>1, <1>4 DEF InputRecords
<1>6. inp' \in InputRecords'
  <2>1. inp' \in InputRecords
    <3> PICK e \in BOOLEAN : e = TRUE
      OBVIOUS
    <3>1. inp' = [inp EXCEPT !.eoi = e]
      BY <1>1
    <3> QED  BY <1>4, <3>1 DEF InputRecords
  <2> QED  BY <1>1, <2>1, RecordsSame
<1>7. /\ Min({ out.scan, inp.scan }) = IF out.scan <= inp.scan THEN out.scan ELSE inp.scan
      /\ Min({ out.scan, Len(pic.scans) }) = Min({ out.scan, inp.scan })
  BY <1>1, <1>4, MinIs
<1>8. /\ out'.scan = Min({ out.scan, inp.scan }) /\ out'.row = out.row /\ out'.smooth = out.smooth
      /\ out' \in [scan : 0..(Len(pic.scans) + 1), row : 0..Total, smooth : BOOLEAN]
      /\ out'.scan <= inp.scan /\ (out.scan >= 1 => out'.scan >= 1) /\ out'.scan \in Nat
  <2> DEFINE L == Len(pic.scans)
             A == 0..(L + 1)
             B == 0..Total
             m == Min({ out.scan, inp.scan })
             a == out.scan
             b == inp.scan
  <2>1. a \in A /\ b \in Nat \ { 0 } /\ b = L /\ L \in Nat \ { 0 } /\ m = IF a <= b THEN a ELSE b
    BY <1>1, <1>4, <1>7
  <2>2. m \in A /\ m <= b /\ (a >= 1 => m >= 1) /\ m \in Nat
    <3> HIDE DEF m, a, b, L
    <3> QED  BY <2>1
  <2>3. out \in [scan : A, row : B, smooth : BOOLEAN] /\ out' = [out EXCEPT !.scan = m]
    BY <1>1, <1>4
  <2> HIDE DEF m, A, B
  <2>4. /\ out'.scan = m /\ out'.row = out.row /\ out'.smooth = out.smooth
        /\ out' \in [scan : A, row : B, smooth : BOOLEAN]
    BY <2>2, <2>3
  <2> QED  BY <2>2, <2>4 DEF m, A, B
<1>9. /\ FullBuffer' = FullBuffer /\ Total' = Total /\ Frame' = Frame
      /\ \A s, r : RowsPerIMcuRow(s, r)' = RowsPerIMcuRow(s, r)
  BY <1>1, PicSame
<1>10. Still
  BY <1>1, <1>5 DEF Still
<1>11. TypeOK'
  <2>1. inp'.ctr < Scan'.mcusPerRow
    BY <1>1, <1>2, <1>5 DEF TypeOK, Scan
  <2> QED  BY <1>1, <1>2, <1>6, <1>8, <2>1, TypeNext DEF TypeOK
<1>12. Positioned'
  <2>1. inp'.row = (IF api' = "READY" THEN 0 ELSE Total') /\ inp'.consume = "markers" /\ api' # "READY"
    BY <1>1, <1>2, <1>5, <1>9 DEF Positioned
  <2>2. inp'.scan = Len(pic'.scans) /\ out'.scan <= inp'.scan
    BY <1>1, <1>5, <1>8
  <2> QED  BY <2>1, <2>2 DEF Positioned
<1>13. Paced'
  BY <1>1, <1>2, <1>5, <1>8, <1>9 DEF Paced, AtStart
<1>14. Stored'
  BY <1>1, <1>2, <1>10, StoredStill
<1>15. Promised' = Promised
  <2>1. CASE ~pic.buffered
    BY <1>1, <2>1 DEF Promised
  <2>2. CASE pic.buffered
    <3>1. Promised = Min({ out.scan, Len(pic.scans) }) /\ Promised' = Min({ out'.scan, Len(pic.scans) })
      BY <1>1, <2>2 DEF Promised
    <3>2. Min({ out'.scan, Len(pic.scans) }) = IF out'.scan <= Len(pic.scans) THEN out'.scan ELSE Len(pic.scans)
      <4>1. out'.scan \in Int /\ Len(pic.scans) \in Int
        BY <1>4, <1>8
      <4> QED  BY <4>1, MinIs
    <3> QED  BY <1>1, <1>7, <1>8, <3>1, <3>2
  <2> QED  BY <2>1, <2>2
<1>16. Displayed'
  <2>1. \A p : Passed(p)' <=> Passed(p)
    BY <1>10, StillIs
  <2>2. \A p : GoneOver(p)' <=> GoneOver(p)
    BY <1>8, <1>9, <2>1 DEF GoneOver
  <2> QED  BY <1>1, <1>2, <1>15, <2>2, DisplayedKept
<1> QED  BY <1>1, <1>11, <1>12, <1>13, <1>14, <1>16 DEF Controlled

\* A call that only changes api, and not into a pass.
LEMMA CallStep ==
  ASSUME Controlled, UNCHANGED << pic, inp, out, array, shown >>, api # "READY",
         api' \in { "BUFIMAGE", "BUFPOST", "STOPPING", "START" },
         api' \in { "BUFIMAGE", "BUFPOST" } => pic.buffered
  PROVE  Controlled'
<1>1. TypeOK /\ Positioned /\ Paced /\ Stored /\ Displayed
  BY DEF Controlled
<1>2. /\ FullBuffer' = FullBuffer /\ Total' = Total
      /\ \A s, r : RowsPerIMcuRow(s, r)' = RowsPerIMcuRow(s, r)
  BY PicSame
<1>3. TypeOK'
  <2>1. InputRecords' = InputRecords /\ Scan' = Scan
    BY RecordsSame DEF Scan
  <2> QED  BY <1>1, <2>1, TypeNext DEF TypeOK, InputRecords
<1>4. Positioned'
  <2>1. RowsPerIMcuRow(inp.scan, inp.row)' = RowsPerIMcuRow(inp.scan, inp.row)
    BY DEF RowsPerIMcuRow, ScanComps, Frame, Image, LastIMcuRow
  <2> QED  BY <1>1, <1>2, <2>1 DEF Positioned
<1>5. Paced'
  BY <1>1, <1>2 DEF Paced
<1>6. Still
  BY DEF Still
<1>7. Stored'
  BY <1>1, <1>6, StoredStill
<1>8. Displayed'
  BY <1>1, PromisedSame, DisplayedKept
<1> QED  BY <1>3, <1>4, <1>5, <1>7, <1>8 DEF Controlled

\* A pass begins.
LEMMA PassStep ==
  ASSUME Controlled, UNCHANGED << pic, inp, array >>, api # "READY",
         NEW n \in 1..(Len(pic.scans) + 1), OutputPass(n),
         inp.eoi => n <= inp.scan,
         FullBuffer /\ ~pic.buffered => inp.eoi,
         ~FullBuffer => AtStart
  PROVE  Controlled'
<1>1. TypeOK /\ Positioned /\ Paced /\ Stored /\ Displayed
  BY DEF Controlled
<1>2. FrameFacts /\ ScanFacts /\ OneScan
  BY FactsAre DEF Controlled, Facts
<1>3. PICK s \in { FALSE, Smoothable } : out' = [scan |-> n, row |-> 0, smooth |-> s]
  BY DEF OutputPass
<1>4. shown' = << >> /\ api' = "SCANNING"
  BY DEF OutputPass
<1>5. s \in BOOLEAN /\ (~FullBuffer => ~s)
  <2>1. s \in BOOLEAN
    BY DEF Smoothable
  <2>2. ~FullBuffer => ~Frame.prog
    BY <1>2 DEF OneScan
  <2> QED  BY <2>1, <2>2 DEF Smoothable
<1>6. /\ out'.scan = n /\ out'.row = 0 /\ out'.smooth = s
      /\ out' \in [scan : 0..(Len(pic.scans) + 1), row : 0..Total, smooth : BOOLEAN]
  <2>1. n \in 0..(Len(pic.scans) + 1) /\ 0 \in 0..Total
    BY <1>2 DEF FrameFacts, ScanFacts
  <2> QED  BY <1>3, <1>5, <2>1
<1>7. /\ FullBuffer' = FullBuffer /\ Total' = Total /\ Frame' = Frame /\ RealBlocks' = RealBlocks
      /\ \A q, r : RowsPerIMcuRow(q, r)' = RowsPerIMcuRow(q, r)
  BY PicSame
<1>8. TypeOK'
  <2>1. InputRecords' = InputRecords /\ Scan' = Scan
    BY RecordsSame DEF Scan
  <2>2. shown' \in Seq(SUBSET (Triples \X SUBSET Triples))
    BY <1>4
  <2> QED  BY <1>1, <1>4, <1>6, <2>1, <2>2, TypeNext DEF TypeOK, InputRecords
<1>9. Positioned'
  <2>1. RowsPerIMcuRow(inp.scan, inp.row)' = RowsPerIMcuRow(inp.scan, inp.row)
    BY DEF RowsPerIMcuRow, ScanComps, Frame, Image, LastIMcuRow
  <2> QED  BY <1>1, <1>4, <1>6, <1>7, <2>1 DEF Positioned
<1>10. Paced'
  <2>1. n >= 1
    BY <1>2 DEF ScanFacts
  <2>2. ~FullBuffer => inp.row = 0
    BY DEF AtStart
  <2> QED  BY <1>4, <1>5, <1>6, <1>7, <2>1, <2>2 DEF Paced
<1>11. Still
  BY DEF Still
<1>12. Stored'
  BY <1>1, <1>11, StoredStill
<1>13. Displayed'
  <2>1. ASSUME NEW p \in RealBlocks PROVE ~GoneOver(p)'
    <3>1. CASE FullBuffer
      <4> DEFINE r == p[2] \div Frame.comps[p[1]].v
      <4>1. r \in Nat
        <5>1. p[1] \in Comps /\ p[2] \in Nat
          BY <1>2, RealTyped
        <5>2. Frame.comps[p[1]].v \in Nat \ { 0 }
          BY <1>2, <5>1, CompFacts
        <5> QED  BY <5>1, <5>2, DivFacts
      <4>2. GoneOver(p)' <=> r < 0
        BY <1>6, <1>7, <3>1 DEF GoneOver
      <4> HIDE DEF r
      <4> QED  BY <4>1, <4>2
    <3>2. CASE ~FullBuffer
      <4>1. GoneOver(p)' <=> Passed(p)
        BY <1>7, <1>11, <3>2, StillIs DEF GoneOver
      <4>2. inp.scan \in 1..Len(pic.scans)
        BY <1>1 DEF TypeOK
      <4>3. InScan(inp.scan, p[1])
        <5>1. inp.scan = 1
          <6>1. Len(pic.scans) = 1
            BY <1>2, <3>2 DEF OneScan
          <6>2. inp.scan \in 1..1
            BY <4>2, <6>1
          <6> QED  BY <6>2
        <5>2. p[1] \in Comps
          BY <1>2, RealTyped
        <5> QED  BY <1>2, <3>2, <5>1, <5>2 DEF OneScan
      <4> QED  BY <1>2, <3>2, <4>1, <4>2, <4>3, NoneArrived
    <3> QED  BY <3>1, <3>2
  <2> QED  BY <1>4, <1>7, <2>1, DisplayedFresh
<1> QED  BY <1>8, <1>9, <1>10, <1>12, <1>13 DEF Controlled

LEMMA StartDecompressStep ==
  ASSUME Controlled, StartDecompress
  PROVE  Controlled'
<1>1. /\ UNCHANGED << pic, out, array, shown >> /\ api = "READY"
      /\ api' = (IF pic.buffered THEN "BUFIMAGE" ELSE "PRELOAD")
      /\ inp' = StartInputPass(inp)
  BY DEF StartDecompress
<1>2. TypeOK /\ Positioned /\ Paced /\ Stored /\ Displayed
  BY DEF Controlled
<1>3. FrameFacts /\ ScanFacts /\ OneScan
  BY FactsAre DEF Controlled, Facts
<1>4. AtStart /\ inp.scan = 1 /\ inp \in InputRecords /\ ~inp.eoi
  <2>1. AtStart /\ inp.scan = 1 /\ (inp.eoi => api # "READY")
    BY <1>1, <1>2 DEF Positioned
  <2> QED  BY <1>1, <1>2, <2>1 DEF TypeOK, InputRecords
<1> DEFINE d == IF FullBuffer THEN "data" ELSE "dummy"
<1>5. inp' = [inp EXCEPT !.row = 0, !.consume = d, !.ctr = 0, !.vert = 0]
  BY <1>1 DEF StartInputPass, StartIMcuRow
<1>6. /\ inp'.scan = inp.scan /\ inp'.row = 0 /\ inp'.vert = 0 /\ inp'.ctr = 0
      /\ inp'.consume = d /\ inp'.eoi = inp.eoi /\ inp' \in InputRecords
  <2> DEFINE A == 1..Len(pic.scans)
             B == 0..Total
             C == 0..(MaxSampFactor - 1)
             E == { "data", "dummy", "markers" }
             R == [scan : A, row : B, vert : C, ctr : Nat, consume : E, eoi : BOOLEAN]
  <2>1. inp \in R /\ d \in E
    BY <1>4 DEF InputRecords
  <2>2. 0 \in B /\ 0 \in C
    BY <1>3, PictureAssumption DEF FrameFacts
  <2>3. inp' = [inp EXCEPT !.row = 0, !.consume = d, !.ctr = 0, !.vert = 0]
    BY <1>5
  <2> HIDE DEF A, B, C, E, d
  <2>4. /\ inp'.scan = inp.scan /\ inp'.row = 0 /\ inp'.vert = 0 /\ inp'.ctr = 0
        /\ inp'.consume = d /\ inp'.eoi = inp.eoi /\ inp' \in R
    BY <2>1, <2>2, <2>3
  <2> QED  BY <2>4 DEF A, B, C, E, InputRecords
<1>7. Still
  BY <1>1, <1>4, <1>6 DEF Still, AtStart
<1>8. /\ FullBuffer' = FullBuffer /\ Total' = Total /\ Frame' = Frame
  BY <1>1, PicSame
<1>9. TypeOK'
  <2>1. inp' \in InputRecords' /\ Scan' = Scan
    BY <1>1, <1>6, RecordsSame DEF Scan
  <2>2. inp'.ctr < Scan'.mcusPerRow
    BY <1>2, <1>7, <2>1 DEF TypeOK, Still
  <2> QED  BY <1>1, <1>2, <2>1, <2>2, TypeNext DEF TypeOK
<1>10. Positioned'
  <2>1. inp'.vert < RowsPerIMcuRow(inp.scan, inp.row)'
    <3>1. RowsPerIMcuRow(inp.scan, inp.row)' = RowsPerIMcuRow(inp'.scan, inp'.row)
      BY <1>1 DEF RowsPerIMcuRow, ScanComps, Frame, Image, LastIMcuRow
    <3>2. inp'.scan \in 1..Len(pic.scans) /\ inp'.row \in 0..(Total - 1)
      BY <1>3, <1>4, <1>6 DEF FrameFacts, InputRecords
    <3>3. RowsPerIMcuRow(inp'.scan, inp'.row) \in 1..MaxSampFactor
      BY <1>3, <3>2, RowsIs
    <3> DEFINE m == RowsPerIMcuRow(inp'.scan, inp'.row)
    <3>4. 0 < m
      <4> HIDE DEF m
      <4> QED  BY <3>3 DEF m
    <3> QED  BY <1>6, <3>1, <3>4
  <2>2. inp'.row < Total'
    BY <1>3, <1>6, <1>8 DEF FrameFacts
  <2>3. api' # "READY"
    BY <1>1
  <2>4. inp'.consume = (IF FullBuffer' THEN "data" ELSE "dummy") /\ inp'.consume # "markers" /\ ~inp'.eoi
    BY <1>4, <1>6, <1>8
  <2> QED  BY <2>1, <2>2, <2>3, <2>4 DEF Positioned
<1>11. Paced'
  <2>1. ~FullBuffer => ~pic.buffered
    BY DEF FullBuffer
  <2> QED  BY <1>1, <1>2, <1>6, <1>8, <2>1 DEF Paced, AtStart
<1>12. Stored'
  BY <1>1, <1>2, <1>7, StoredStill
<1>13. Displayed'
  BY <1>1, <1>2, PromisedSame, DisplayedKept
<1> QED  BY <1>1, <1>9, <1>10, <1>11, <1>12, <1>13 DEF Controlled

\* The blocks of the row of MCUs that is put out.
LEMMA RowIs ==
  ASSUME FrameFacts, NEW p, out.row \in Nat, out.row < Total
  PROVE  (\E c \in Comps : \E y \in BlockRows(c) : \E x \in 0..(Image.blocks[c].w - 1) : p = << c, y, x >>)
           <=> p \in RealBlocks /\ p[2] \div Frame.comps[p[1]].v = out.row
<1> DEFINE n == out.row
<1>1. ASSUME NEW c \in Comps, NEW y
      PROVE  y \in BlockRows(c) <=>
               y \in 0..(Image.blocks[c].h - 1) /\ y \div Frame.comps[c].v = n
  <2> DEFINE v == Frame.comps[c].v
             b == Image.blocks[c].h
             t == Total
             e == (t - 1) * v
             k == n * v
  <2>1. /\ v \in Nat \ { 0 } /\ b \in Nat \ { 0 } /\ t \in Nat \ { 0 } /\ e < b /\ b <= t * v
        /\ n \in Nat /\ n < t /\ LastOf(b, v) = b - e /\ LastIMcuRow = t - 1
    BY CompFacts, LastIs DEF LastIMcuRow, Total
  <2>2. BlockRows(c) = (n * v)..(n * v + (IF n < t - 1 THEN v ELSE b - e) - 1)
    <3>1. LastIMcuRow = t - 1 /\ LastOf(b, v) = b - e
      BY <2>1
    <3> HIDE DEF t, e
    <3> QED  BY <3>1 DEF BlockRows
  <2> HIDE DEF v, b, t, n
  <2>3. e \in Nat /\ k \in Nat /\ (n = t - 1 => k = e) /\ t * v = e + v
    BY <2>1
  <2>4. n < t - 1 => k + v <= e
    <3> SUFFICES ASSUME n < t - 1 PROVE k + v <= e
      OBVIOUS
    <3>1. k + v = (n + 1) * v
      BY <2>1
    <3>2. (n + 1) * v <= (t - 1) * v
      <4> DEFINE i == t - 1 - (n + 1)
      <4>1. i \in Nat
        BY <2>1
      <4>2. (t - 1) * v = (n + 1) * v + i * v
        BY <2>1
      <4>3. i * v \in Nat /\ (n + 1) * v \in Nat
        BY <2>1, <4>1
      <4> DEFINE f == i * v
                 g == (n + 1) * v
                 h == (t - 1) * v
      <4>4. h = g + f /\ f \in Nat /\ g \in Nat
        BY <4>2, <4>3
      <4> HIDE DEF f, g, h
      <4>5. g <= h
        BY <4>4
      <4> QED  BY <4>5 DEF g, h
    <3> QED  BY <3>1, <3>2
  <2>5. ASSUME y \in BlockRows(c)
        PROVE  y \in 0..(b - 1) /\ y \div v = n
    <3> DEFINE r == y - k
               w == IF n < t - 1 THEN v ELSE b - e
    <3>1. y \in k..(k + w - 1)
      BY <2>2, <2>5
    <3>2. w \in Nat /\ w <= v /\ k + w <= b
      <4> DEFINE tv == t * v
      <4>1. tv = e + v /\ b <= tv
        BY <2>1, <2>3
      <4> HIDE DEF e, k, tv
      <4> QED  BY <2>1, <2>3, <2>4, <4>1
    <3> HIDE DEF w, k, e
    <3>3. r \in 0..(v - 1) /\ y = k + r /\ y \in 0..(b - 1)
      BY <2>1, <2>3, <3>1, <3>2
    <3> HIDE DEF r
    <3>4. y = n * v + r
      BY <3>3 DEF k
    <3>5. (n * v + r) \div v = n
      BY <2>1, <3>3, DivUnique
    <3> QED  BY <3>3, <3>4, <3>5
  <2>6. ASSUME y \in 0..(b - 1), y \div v = n
        PROVE  y \in BlockRows(c)
    <3> DEFINE r == y % v
    <3>1. y \in Nat
      BY <2>1, <2>6
    <3>2. r \in 0..(v - 1) /\ y = (y \div v) * v + r
      BY <2>1, <3>1, DivFacts
    <3>3. y = k + r
      BY <2>6, <3>2
    <3> HIDE DEF k, e, r
    <3>4. y \in k..(k + (IF n < t - 1 THEN v ELSE b - e) - 1)
      BY <2>1, <2>3, <2>6, <3>2, <3>3
    <3> QED  BY <2>2, <3>4 DEF k, e
  <2> QED  BY <2>5, <2>6 DEF v, b
<1> HIDE DEF n
<1>2. p \in RealBlocks <=>
        \E c \in Comps : \E y \in 0..(Image.blocks[c].h - 1) : \E x \in 0..(Image.blocks[c].w - 1) :
          p = << c, y, x >>
  BY RealIs
<1>3. ASSUME NEW c \in Comps, NEW y \in BlockRows(c), NEW x \in 0..(Image.blocks[c].w - 1), p = << c, y, x >>
      PROVE  p \in RealBlocks /\ p[2] \div Frame.comps[p[1]].v = n
  <2>1. p[1] = c /\ p[2] = y
    BY <1>3
  <2> QED  BY <1>1, <1>2, <1>3, <2>1
<1>4. ASSUME p \in RealBlocks, p[2] \div Frame.comps[p[1]].v = n
      PROVE  \E c \in Comps : \E y \in BlockRows(c) : \E x \in 0..(Image.blocks[c].w - 1) : p = << c, y, x >>
  <2>1. PICK c \in Comps : \E y \in 0..(Image.blocks[c].h - 1) : \E x \in 0..(Image.blocks[c].w - 1) :
          p = << c, y, x >>
    BY <1>2, <1>4
  <2>2. PICK y \in 0..(Image.blocks[c].h - 1) : \E x \in 0..(Image.blocks[c].w - 1) : p = << c, y, x >>
    BY <2>1
  <2>3. p[1] = c /\ p[2] = y
    BY <2>2
  <2>4. y \in BlockRows(c)
    BY <1>1, <1>4, <2>3
  <2> QED  BY <2>2, <2>4
<1> QED  BY <1>3, <1>4 DEF n

\* What has been put out so far has arrived, of every scan that is promised.
LEMMA RowArrived ==
  ASSUME Controlled, api = "SCANNING", FullBuffer,
         IF out.smooth THEN SmoothReady ELSE InputReady,
         NEW p \in RealBlocks, p[2] \div Frame.comps[p[1]].v = out.row,
         NEW s \in 1..Promised, InScan(s, p[1])
  PROVE  s \in 1..inp.scan /\ Arrived(s, p)
<1>1. TypeOK /\ Positioned /\ Paced
  BY DEF Controlled
<1>2. FrameFacts /\ ScanFacts
  BY FactsAre DEF Controlled, Facts
<1> DEFINE L == Len(pic.scans)
<1>3. /\ L \in Nat \ { 0 } /\ inp.scan \in 1..L /\ inp.row \in Nat /\ out.row \in Nat
      /\ out.scan \in Nat /\ Total \in Nat
  <2>1. inp \in InputRecords /\ out \in [scan : 0..(L + 1), row : 0..Total, smooth : BOOLEAN]
    BY <1>1 DEF TypeOK, InputRecords
  <2>2. L \in Nat \ { 0 } /\ Total \in Nat
    BY <1>2 DEF ScanFacts, FrameFacts
  <2>3. inp.scan \in 1..L /\ inp.row \in 0..Total /\ out.row \in 0..Total /\ out.scan \in 0..(L + 1)
    BY <2>1 DEF InputRecords
  <2> HIDE DEF L
  <2> QED  BY <2>2, <2>3
<1>4. CASE inp.eoi
  <2>1. inp.scan = L /\ inp.consume = "markers" /\ api # "READY"
    BY <1>1, <1>4 DEF Positioned
  <2>2. s \in 1..L
    <3>1. CASE ~pic.buffered
      BY <3>1 DEF Promised
    <3>2. CASE pic.buffered
      <4>1. Promised = IF out.scan <= L THEN out.scan ELSE L
        BY <1>3, <3>2, MinIs DEF Promised
      <4> DEFINE m == Promised
      <4>2. s \in 1..m
        OBVIOUS
      <4> HIDE DEF L, m
      <4> QED  BY <1>3, <4>1, <4>2 DEF m
    <3> QED  BY <3>1, <3>2
  <2> QED  BY <2>1, <2>2, AllArrived
<1>5. CASE ~inp.eoi
  <2>1. pic.buffered
    BY <1>1, <1>5 DEF Paced
  <2>2. Promised = IF out.scan <= L THEN out.scan ELSE L
    BY <1>3, <2>1, MinIs DEF Promised
  <2>3. s \in Nat \ { 0 } /\ s <= out.scan
    <3> DEFINE m == Promised
    <3>1. s \in 1..m
      OBVIOUS
    <3> HIDE DEF L, m
    <3> QED  BY <1>3, <2>2, <3>1 DEF m
  <2>4. inp.scan > out.scan \/ (inp.scan = out.scan /\ inp.row > out.row)
    <3>1. CASE ~out.smooth
      BY <3>1 DEF InputReady
    <3>2. CASE out.smooth
      <4> DEFINE d == IF pic.scans[inp.scan].dc THEN 1 ELSE 0
      <4>1. inp.scan > out.scan \/ (inp.scan = out.scan /\ inp.row > out.row + d)
        BY <1>5, <3>2 DEF SmoothReady
      <4>2. d \in Nat
        OBVIOUS
      <4> HIDE DEF d
      <4> QED  BY <1>3, <4>1, <4>2
    <3> QED  BY <3>1, <3>2
  <2>5. s \in 1..inp.scan
    <3> HIDE DEF L
    <3> QED  BY <1>3, <2>3, <2>4
  <2>6. CASE s < inp.scan
    BY <2>5, <2>6 DEF Arrived
  <2>7. CASE s = inp.scan
    <3>1. inp.row > out.row
      BY <1>3, <2>3, <2>4, <2>7
    <3> DEFINE r == p[2] \div Frame.comps[p[1]].v
    <3>2. r < inp.row
      BY <1>3, <3>1
    <3>3. Passed(p)
      BY <3>2 DEF Passed
    <3> QED  BY <2>5, <2>7, <3>3 DEF Arrived
  <2> QED  BY <1>3, <2>5, <2>6, <2>7
<1> QED  BY <1>1, <1>4, <1>5 DEF TypeOK

LEMMA DecompressDataStep ==
  ASSUME Controlled, DecompressData
  PROVE  Controlled'
<1> DEFINE S == UNION { { << << c, y, x >>, Content(<< c, y, x >>) >> :
                            y \in BlockRows(c), x \in 0..(Image.blocks[c].w - 1) } : c \in Comps }
           T == SUBSET (Triples \X SUBSET Triples)
<1>1. /\ UNCHANGED << pic, api, inp, array >> /\ api = "SCANNING" /\ FullBuffer
      /\ out.row < Total /\ (IF out.smooth THEN SmoothReady ELSE InputReady)
      /\ out' = [out EXCEPT !.row = out.row + 1] /\ shown' = shown \o << S >>
  BY DEF DecompressData, Total
<1>2. TypeOK /\ Positioned /\ Paced /\ Stored /\ Displayed
  BY DEF Controlled
<1>3. FrameFacts /\ ScanFacts
  BY FactsAre DEF Controlled, Facts
<1>4. /\ out \in [scan : 0..(Len(pic.scans) + 1), row : 0..Total, smooth : BOOLEAN]
      /\ Total \in Nat /\ out.row \in 0..Total
  BY <1>2, <1>3 DEF TypeOK, FrameFacts
<1>5. out.row \in Nat /\ out.row + 1 \in 0..Total
  BY <1>1, <1>4
<1>6. /\ out'.scan = out.scan /\ out'.smooth = out.smooth /\ out'.row = out.row + 1
      /\ out' \in [scan : 0..(Len(pic.scans) + 1), row : 0..Total, smooth : BOOLEAN]
  BY <1>1, <1>4, <1>5
<1>7. /\ FullBuffer' = FullBuffer /\ Total' = Total /\ Frame' = Frame
  BY <1>1, PicSame
<1>8. Promised' = Promised
  BY <1>1, <1>6, PromisedSame
<1>9. \A e : e \in S <=> \E c \in Comps : \E y \in BlockRows(c) : \E x \in 0..(Image.blocks[c].w - 1) :
                           e = << << c, y, x >>, Content(<< c, y, x >>) >>
  OBVIOUS
<1> HIDE DEF S
<1>10. ASSUME NEW e \in S
       PROVE  /\ e = << e[1], Content(e[1]) >> /\ e[1] \in RealBlocks
              /\ e[1][2] \div Frame.comps[e[1][1]].v = out.row
  <2>1. PICK c \in Comps : \E y \in BlockRows(c) : \E x \in 0..(Image.blocks[c].w - 1) :
               e = << << c, y, x >>, Content(<< c, y, x >>) >>
    BY <1>9
  <2>2. PICK y \in BlockRows(c) : \E x \in 0..(Image.blocks[c].w - 1) :
               e = << << c, y, x >>, Content(<< c, y, x >>) >>
    BY <2>1
  <2>3. PICK x \in 0..(Image.blocks[c].w - 1) : e = << << c, y, x >>, Content(<< c, y, x >>) >>
    BY <2>2
  <2> DEFINE p == << c, y, x >>
  <2>4. e[1] = p /\ e[2] = Content(p) /\ e = << e[1], e[2] >>
    BY <2>3
  <2>5. \E i \in Comps : \E j \in BlockRows(i) : \E k \in 0..(Image.blocks[i].w - 1) : p = << i, j, k >>
    OBVIOUS
  <2> HIDE DEF p
  <2>6. p \in RealBlocks /\ p[2] \div Frame.comps[p[1]].v = out.row
    BY <1>1, <1>3, <1>5, <2>5, RowIs
  <2> QED  BY <2>4, <2>6
<1>11. ASSUME NEW p \in RealBlocks, p[2] \div Frame.comps[p[1]].v = out.row
       PROVE  << p, Content(p) >> \in S
  <2>1. \E c \in Comps : \E y \in BlockRows(c) : \E x \in 0..(Image.blocks[c].w - 1) : p = << c, y, x >>
    BY <1>1, <1>3, <1>5, <1>11, RowIs
  <2> QED  BY <1>9, <2>1
<1>12. S \in T
  <2>1. ASSUME NEW p PROVE Content(p) \subseteq Triples
    <3>1. array \subseteq Triples \X Triples
      BY <1>2 DEF TypeOK
    <3> QED  BY <3>1 DEF Content
  <2>2. ASSUME NEW e \in S PROVE e \in Triples \X SUBSET Triples
    <3>1. e[1] \in Triples
      BY <1>3, <1>10, RealTyped
    <3> QED  BY <1>10, <2>1, <3>1
  <2> QED  BY <2>2
<1>13. shown \in Seq(T)
  BY <1>2 DEF TypeOK
<1>14. TypeOK'
  <2>1. shown' \in Seq(T)
    <3> HIDE DEF T
    <3> QED  BY <1>1, <1>12, <1>13
  <2>2. InputRecords' = InputRecords /\ Scan' = Scan
    BY <1>1, RecordsSame DEF Scan
  <2> QED  BY <1>1, <1>2, <1>6, <2>1, <2>2, TypeNext DEF TypeOK, InputRecords
<1>15. Positioned'
  <2>1. RowsPerIMcuRow(inp.scan, inp.row)' = RowsPerIMcuRow(inp.scan, inp.row)
    BY <1>1 DEF RowsPerIMcuRow, ScanComps, Frame, Image, LastIMcuRow
  <2> QED  BY <1>1, <1>2, <1>6, <1>7, <2>1 DEF Positioned
<1>16. Paced'
  BY <1>1, <1>2, <1>6, <1>7 DEF Paced
<1>17. Stored'
  <2>1. Still
    BY <1>1 DEF Still
  <2> QED  BY <1>1, <1>2, <2>1, StoredStill
<1>18. ASSUME NEW e \in S
       PROVE  ShownRight(e)
  <2>1. e[2] = Content(e[1]) /\ e[1] \in RealBlocks /\ e[1][2] \div Frame.comps[e[1][1]].v = out.row
    <3>1. e = << e[1], Content(e[1]) >>
      BY <1>10
    <3>2. e[2] = Content(e[1])
      BY <3>1
    <3> QED  BY <1>10, <3>2
  <2>2. ASSUME NEW k \in e[2] PROVE k = Place(k[1], e[1])
    <3>1. PICK f \in array : f[1] = e[1] /\ k = f[2]
      BY <2>1 DEF Content
    <3>2. WellPlaced(f)
      BY <1>2 DEF Stored
    <3>3. Real(f[1])
      BY <1>3, <2>1, <3>1, RealTyped
    <3> QED  BY <3>1, <3>2, <3>3 DEF WellPlaced
  <2>3. ASSUME NEW s \in 1..Promised, InScan(s, e[1][1]) PROVE Place(s, e[1]) \in e[2]
    <3>1. s \in 1..inp.scan /\ Arrived(s, e[1])
      BY <1>1, <2>1, <2>3, RowArrived
    <3>2. << e[1], Place(s, e[1]) >> \in array
      BY <1>1, <1>2, <2>1, <2>3, <3>1 DEF Stored
    <3>3. << e[1], Place(s, e[1]) >>[1] = e[1] /\ << e[1], Place(s, e[1]) >>[2] = Place(s, e[1])
      OBVIOUS
    <3>4. Place(s, e[1]) \in Content(e[1])
      BY <3>2, <3>3 DEF Content
    <3> QED  BY <2>1, <3>4
  <2> QED  BY <2>1, <2>2, <2>3 DEF ShownRight
<1>19. ASSUME NEW p \in RealBlocks
       PROVE  /\ GoneOver(p)' <=> GoneOver(p) \/ \E e \in S : e[1] = p
              /\ ~(GoneOver(p) /\ \E e \in S : e[1] = p)
  <2> DEFINE r == p[2] \div Frame.comps[p[1]].v
             n == out.row
  <2>1. (GoneOver(p) <=> r < n) /\ (GoneOver(p)' <=> r < n + 1)
    BY <1>1, <1>6, <1>7 DEF GoneOver
  <2>2. r \in Nat
    <3>1. p[1] \in Comps /\ p[2] \in Nat
      BY <1>3, RealTyped
    <3>2. Frame.comps[p[1]].v \in Nat \ { 0 }
      BY <1>3, <3>1, CompFacts
    <3> QED  BY <3>1, <3>2, DivFacts
  <2>3. (\E e \in S : e[1] = p) <=> r = n
    <3>1. ASSUME NEW e \in S, e[1] = p PROVE r = n
      BY <1>10, <3>1
    <3>2. ASSUME r = n PROVE \E e \in S : e[1] = p
      <4>1. << p, Content(p) >> \in S
        BY <1>11, <3>2
      <4> QED  BY <4>1
    <3> QED  BY <3>1, <3>2
  <2>4. n \in Nat
    BY <1>5
  <2> HIDE DEF r, n
  <2>5. (r < n + 1 <=> r < n \/ r = n) /\ ~(r < n /\ r = n)
    BY <2>2, <2>4
  <2> QED  BY <2>1, <2>3, <2>5
<1>20. Displayed'
  <2> HIDE DEF T
  <2> QED  BY <1>1, <1>2, <1>8, <1>12, <1>13, <1>18, <1>19, DisplayedMore
<1>21. pic' \in { SetUp(p) : p \in Pictures }
  BY <1>1 DEF Controlled
<1> QED  BY <1>14, <1>15, <1>16, <1>17, <1>20, <1>21 DEF Controlled

LEMMA InitIs ==
  ASSUME Init
  PROVE  Controlled
<1>1. /\ pic \in { SetUp(p) : p \in Pictures }
      /\ api = "READY" /\ array = {} /\ shown = << >>
      /\ inp = [scan |-> 1, row |-> 0, vert |-> 0, ctr |-> 0, consume |-> "markers", eoi |-> FALSE]
      /\ out = [scan |-> 0, row |-> 0, smooth |-> FALSE]
  BY DEF Init
<1>2. Facts /\ FrameFacts /\ ScanFacts
  BY <1>1, FactsAre DEF Facts
<1>3. inp.scan = 1 /\ inp.row = 0 /\ inp.vert = 0 /\ inp.ctr = 0 /\ inp.consume = "markers" /\ inp.eoi = FALSE
  BY <1>1
<1>4. out.scan = 0 /\ out.row = 0 /\ out.smooth = FALSE
  BY <1>1
<1>5. /\ 1 \in 1..Len(pic.scans) /\ 0 \in 0..Total /\ 0 \in 0..(MaxSampFactor - 1)
      /\ 0 \in 0..(Len(pic.scans) + 1)
  BY <1>2, PictureAssumption DEF FrameFacts, ScanFacts
<1>6. TypeOK
  <2>1. inp.ctr < Scan.mcusPerRow
    <3> DEFINE m == Scan.mcusPerRow
    <3>1. m \in Nat \ { 0 }
      BY <1>2, <1>3, <1>5, McusNat DEF Scan
    <3> HIDE DEF m
    <3>2. 0 < m
      BY <3>1
    <3> QED  BY <1>3, <3>2 DEF m
  <2>2. inp \in InputRecords
    BY <1>1, <1>5 DEF InputRecords
  <2>3. out \in [scan : 0..(Len(pic.scans) + 1), row : 0..Total, smooth : BOOLEAN]
    BY <1>1, <1>5
  <2>4. shown \in Seq(SUBSET (Triples \X SUBSET Triples))
    BY <1>1
  <2> QED  BY <1>1, <2>1, <2>2, <2>3, <2>4 DEF TypeOK, InputRecords
<1>7. Positioned
  BY <1>1, <1>3 DEF Positioned, AtStart
<1>8. Paced
  BY <1>1, <1>4 DEF Paced
<1>9. Stored
  <2>1. ASSUME NEW s \in 1..inp.scan, NEW p \in RealBlocks, InScan(s, p[1]), Arrived(s, p) PROVE FALSE
    <3>1. s = inp.scan
      BY <1>3
    <3>2. ~Passed(p)
      BY <1>2, <1>3, <1>5, <2>1, <3>1, NoneArrived DEF AtStart
    <3> QED  BY <1>3, <2>1, <3>1, <3>2 DEF Arrived
  <2> QED  BY <1>1, <2>1 DEF Stored
<1>10. Displayed
  BY <1>1 DEF Displayed
<1> QED  BY <1>1, <1>6, <1>7, <1>8, <1>9, <1>10 DEF Controlled

LEMMA NextIs ==
  ASSUME Controlled, [Next]_vars
  PROVE  Controlled'
<1>1. TypeOK /\ Positioned /\ Paced
  BY DEF Controlled
<1>2. FrameFacts /\ ScanFacts /\ OneScan
  BY FactsAre DEF Controlled, Facts
<1>3. CASE UNCHANGED vars
  <2>1. UNCHANGED << pic, api, inp, out, array, shown >>
    BY <1>3 DEF vars
  <2>3. Still
    BY <2>1 DEF Still
  <2>4. Displayed'
    <3>1. \A p : GoneOver(p)' <=> GoneOver(p)
      BY <2>1, <2>3, StillIs, PicSame DEF GoneOver
    <3> QED  BY <2>1, <3>1, PromisedSame, DisplayedKept DEF Controlled
  <2>5. Stored'
    BY <2>1, <2>3, StoredStill DEF Controlled
  <2>6. TypeOK'
    <3>1. InputRecords' = InputRecords /\ Scan' = Scan
      BY <2>1, RecordsSame DEF Scan
    <3> QED  BY <1>1, <2>1, <3>1, TypeNext DEF TypeOK, InputRecords
  <2>7. Positioned'
    <3>1. RowsPerIMcuRow(inp.scan, inp.row)' = RowsPerIMcuRow(inp.scan, inp.row)
      BY <2>1 DEF RowsPerIMcuRow, ScanComps, Frame, Image, LastIMcuRow
    <3>2. FullBuffer' = FullBuffer /\ Total' = Total
      BY <2>1, PicSame
    <3> QED  BY <1>1, <2>1, <3>1, <3>2 DEF Positioned, AtStart
  <2>8. Paced'
    <3>1. FullBuffer' = FullBuffer
      BY <2>1, PicSame
    <3> QED  BY <1>1, <2>1, <3>1 DEF Paced, AtStart
  <2> QED  BY <2>1, <2>4, <2>5, <2>6, <2>7, <2>8 DEF Controlled
<1>4. CASE ConsumeInput
  <2>1. api # "READY"
    BY <1>4 DEF ConsumeInput
  <2> QED  BY <1>4, <2>1, ConsumeDataStep, ReachSosStep, ReachEoiStep DEF ConsumeInput
<1>5. CASE ReadRows
  BY <1>5, DecompressOnepassStep, DecompressDataStep DEF ReadRows
<1>6. CASE StartDecompress
  BY <1>6, StartDecompressStep
<1>7. CASE StartOutput
  <2>1. /\ UNCHANGED << pic, inp, array >> /\ api = "BUFIMAGE" /\ pic.buffered
    BY <1>1, <1>7 DEF StartOutput, Paced
  <2>2. PICK k \in 1..(Len(pic.scans) + 1) : OutputPass(IF inp.eoi THEN Min({ k, inp.scan }) ELSE k)
    BY <1>7 DEF StartOutput
  <2> DEFINE n == IF inp.eoi THEN Min({ k, inp.scan }) ELSE k
  <2>3. n \in 1..(Len(pic.scans) + 1) /\ (inp.eoi => n <= inp.scan)
    <3> DEFINE L == Len(pic.scans)
    <3>1. inp.scan \in 1..L /\ L \in Nat /\ k \in 1..(L + 1)
      BY <1>1, <1>2 DEF TypeOK, ScanFacts
    <3> HIDE DEF L
    <3>2. Min({ k, inp.scan }) = IF k <= inp.scan THEN k ELSE inp.scan
      BY <3>1, MinIs
    <3>3. n \in 1..(L + 1) /\ (inp.eoi => n <= inp.scan)
      BY <3>1, <3>2
    <3> QED  BY <3>3 DEF L
  <2>4. OutputPass(n) /\ FullBuffer /\ api # "READY"
    BY <2>1, <2>2 DEF FullBuffer
  <2> HIDE DEF n
  <2> QED  BY <2>1, <2>3, <2>4, PassStep
<1>8. CASE FinishOutput
  BY <1>8, CallStep DEF FinishOutput
<1>9. CASE FinishDecompress
  BY <1>9, CallStep DEF FinishDecompress
<1>10. CASE EndPreload
  <2>1. /\ UNCHANGED << pic, inp, array >> /\ api = "PRELOAD" /\ ~pic.buffered /\ (Image.multi => inp.eoi)
        /\ OutputPass(inp.scan)
    BY <1>1, <1>10 DEF EndPreload, Paced
  <2>2. inp.scan \in 1..(Len(pic.scans) + 1) /\ inp.scan <= inp.scan
    <3> DEFINE L == Len(pic.scans)
    <3>1. inp.scan \in 1..L /\ L \in Nat
      BY <1>1, <1>2 DEF TypeOK, ScanFacts
    <3> HIDE DEF L
    <3>2. inp.scan \in 1..(L + 1) /\ inp.scan <= inp.scan
      BY <3>1
    <3> QED  BY <3>2 DEF L
  <2>3. FullBuffer => inp.eoi
    BY <2>1 DEF FullBuffer
  <2>4. ~FullBuffer => AtStart
    BY <1>1, <2>1 DEF Paced
  <2> QED  BY <2>1, <2>2, <2>3, <2>4, PassStep
<1>11. CASE EndOutput
  <2>1. pic.buffered
    BY <1>1, <1>11 DEF EndOutput, Paced
  <2> QED  BY <1>11, <2>1, CallStep DEF EndOutput
<1>12. CASE EndDecompress
  BY <1>12, CallStep DEF EndDecompress
<1> QED  BY <1>3, <1>4, <1>5, <1>6, <1>7, <1>8, <1>9, <1>10, <1>11, <1>12 DEF Next, Calls, Ends

-----------------------------------------------------------------------------
(* The theorems                                                             *)

\* Whatever the picture, and in whatever order input and output go on, the two sides
\* keep the places they have in the picture, and what is stored and shown is right.
THEOREM ControlledHolds == Spec => []Controlled
<1>1. Init => Controlled
  BY InitIs
<1>2. Controlled /\ [Next]_vars => Controlled'
  BY NextIs
<1> QED  BY <1>1, <1>2, PTL DEF Spec

LEMMA StoredWell ==
  ASSUME Controlled
  PROVE  WellStored
<1>1. TypeOK /\ Positioned /\ Stored
  BY DEF Controlled
<1>2. \A e \in array : WellPlaced(e)
  BY <1>1 DEF Stored
<1>3. ASSUME inp.eoi, FullBuffer, NEW s \in DOMAIN pic.scans, NEW p \in RealBlocks, InScan(s, p[1])
      PROVE  << p, Place(s, p) >> \in array
  <2>1. inp.scan = Len(pic.scans) /\ inp.consume = "markers" /\ api # "READY"
    BY <1>1, <1>3 DEF Positioned
  <2>2. s \in 1..inp.scan
    BY <2>1, FactsAre DEF Controlled, Facts, ScanFacts
  <2>3. Arrived(s, p)
    BY <1>3, <2>1, <2>2, AllArrived
  <2> QED  BY <1>1, <1>3, <2>2, <2>3 DEF Stored
<1>4. inp.consume = "markers" => \A e \in array :
       LET c == e[1][1]  s == e[2][1] IN
       /\ e[1][2] < RoundUp(Image.blocks[c].h, Frame.comps[c].v) * Frame.comps[c].v
       /\ e[1][3] < RoundUp(Image.blocks[c].w, Frame.comps[c].h) * Frame.comps[c].h
       /\ e[2][2] < McusOf(s)
       /\ Real(e[1]) => e[2] = Place(s, e[1])
  BY <1>2 DEF WellPlaced
<1> QED  BY <1>3, <1>4 DEF WellStored

\* jdcoefct.c, consume_data: every block is stored inside the array, at the place the
\* format gives it, and at the end of the image none is missing.
THEOREM WellStoredHolds == Spec => []WellStored
<1>1. Controlled => WellStored
  BY StoredWell
<1> QED  BY <1>1, ControlledHolds, PTL

\* The row of a block is a row of the picture.
LEMMA RowOf ==
  ASSUME FrameFacts, NEW p \in RealBlocks
  PROVE  p[2] \div Frame.comps[p[1]].v \in Nat /\ p[2] \div Frame.comps[p[1]].v < Total
<1> DEFINE c == p[1]
           y == p[2]
           v == Frame.comps[c].v
           b == Image.blocks[c].h
           r == y \div v
           n == y % v
           t == Total
<1>1. c \in Comps /\ y \in Nat /\ y < b
  BY RealTyped
<1>2. v \in Nat \ { 0 } /\ b \in Nat /\ t \in Nat /\ b <= t * v
  BY <1>1, CompFacts
<1> HIDE DEF v, b, t, y
<1>3. r \in Nat /\ n \in 0..(v - 1) /\ y = r * v + n
  BY <1>1, <1>2, DivFacts
<1> HIDE DEF r, n
<1>4. r * v < t * v
  <2> DEFINE rv == r * v
             tv == t * v
  <2>1. rv \in Nat /\ tv \in Nat /\ y = rv + n /\ b <= tv
    BY <1>2, <1>3
  <2>2. n \in Nat
    BY <1>2, <1>3
  <2> HIDE DEF rv, tv
  <2>3. rv < tv
    BY <1>1, <1>2, <2>1, <2>2
  <2> QED  BY <2>3 DEF rv, tv
<1>5. r < t
  BY <1>2, <1>3, <1>4, LessFactor
<1> QED  BY <1>3, <1>5 DEF r, t, y, v

LEMMA ShownWell ==
  ASSUME Controlled
  PROVE  PassShows
<1>1. TypeOK /\ Positioned /\ Paced /\ Displayed
  BY DEF Controlled
<1>2. FrameFacts
  BY FactsAre DEF Controlled, Facts
<1>3. ASSUME shown # << >>, NEW e \in shown[Len(shown)]
      PROVE  /\ Real(e[1])
             /\ \A k \in e[2] : k = Place(k[1], e[1])
             /\ \A s \in 1..(IF pic.buffered THEN Min({ out.scan, Len(pic.scans) }) ELSE Len(pic.scans)) :
                  InScan(s, e[1][1]) => Place(s, e[1]) \in e[2]
  <2>1. Len(shown) \in DOMAIN shown
    <3>1. shown \in Seq(SUBSET (Triples \X SUBSET Triples))
      BY <1>1 DEF TypeOK
    <3> QED  BY <1>3, <3>1
  <2>2. ShownRight(e)
    BY <1>1, <1>3, <2>1 DEF Displayed
  <2>3. Real(e[1])
    BY <1>2, <2>2, RealTyped DEF ShownRight
  <2> QED  BY <2>2, <2>3 DEF ShownRight, Promised
<1>4. ASSUME api = "SCANNING", out.row = Total
      PROVE  /\ UNION { ShownIn(i) : i \in DOMAIN shown } = RealBlocks
             /\ \A i, j \in DOMAIN shown : i < j => ShownIn(i) \cap ShownIn(j) = {}
  <2>1. ASSUME NEW p \in RealBlocks PROVE GoneOver(p)
    <3>1. p[2] \div Frame.comps[p[1]].v < Total
      BY <1>2, RowOf
    <3>2. CASE FullBuffer
      BY <1>4, <3>1, <3>2 DEF GoneOver
    <3>3. CASE ~FullBuffer
      <4>1. inp.row = Total
        BY <1>1, <1>4, <3>3 DEF Paced
      <4> QED  BY <3>1, <3>3, <4>1 DEF GoneOver, Passed
    <3> QED  BY <3>2, <3>3
  <2>2. { p \in RealBlocks : GoneOver(p) } = RealBlocks
    BY <2>1
  <2> QED  BY <1>1, <1>4, <2>2 DEF Displayed
<1> QED  BY <1>1, <1>3, <1>4 DEF PassShows, ShownIn

\* jdcoefct.c, decompress_onepass and decompress_data: a pass shows every block once,
\* with its own coefficients and all those of the scans that were asked for.
THEOREM PassShowsHolds == Spec => []PassShows
<1>1. Controlled => PassShows
  BY ShownWell
<1> QED  BY <1>1, ControlledHolds, PTL

\* jdcoefct.c, decompress_smooth_data: while a DC scan is put out with smoothing, the
\* row below the one put out has been read.
THEOREM NeighboursKnownHolds == Spec => NeighboursKnown
<1> DEFINE Known ==
      out.smooth /\ out.scan \in DOMAIN pic.scans /\ pic.scans[out.scan].dc /\ shown' # shown /\ shown' # << >> =>
        \A p \in RealBlocks :
          InScan(out.scan, p[1]) /\ p[2] \div Frame.comps[p[1]].v = out.row + 1 => << p, Place(out.scan, p) >> \in array
<1>1. Controlled /\ [Next]_vars => [Known]_vars
  <2> SUFFICES ASSUME Controlled, [Next]_vars, vars' # vars,
                      out.smooth, out.scan \in DOMAIN pic.scans, pic.scans[out.scan].dc,
                      shown' # shown, shown' # << >>,
                      NEW p \in RealBlocks, InScan(out.scan, p[1]),
                      p[2] \div Frame.comps[p[1]].v = out.row + 1
               PROVE  << p, Place(out.scan, p) >> \in array
    OBVIOUS
  <2>1. TypeOK /\ Positioned /\ Paced /\ Stored
    BY DEF Controlled
  <2>2. FrameFacts /\ ScanFacts /\ OneScan
    BY FactsAre DEF Controlled, Facts
  <2>3. FullBuffer
    BY <2>1 DEF Paced
  <2>4. DecompressData
    <3>1. CASE UNCHANGED vars
      BY <3>1
    <3>2. CASE ConsumeInput
      BY <3>2 DEF ConsumeInput, ConsumeData, ReachSos, ReachEoi
    <3>3. CASE Calls
      BY <3>3 DEF Calls, StartDecompress, StartOutput, FinishOutput, FinishDecompress, OutputPass
    <3>4. CASE Ends
      BY <3>4 DEF Ends, EndPreload, EndOutput, EndDecompress, OutputPass
    <3>5. CASE ReadRows
      BY <2>3, <3>5 DEF ReadRows, DecompressOnepass
    <3> QED  BY <3>1, <3>2, <3>3, <3>4, <3>5 DEF Next
  <2>5. SmoothReady /\ api = "SCANNING"
    BY <2>4 DEF DecompressData
  <2>6. /\ inp.scan \in Nat /\ out.scan \in Nat \ { 0 } /\ inp.row \in Nat /\ out.row \in Nat
        /\ inp.scan \in 1..Len(pic.scans)
    <3>1. inp \in InputRecords /\ out \in [scan : 0..(Len(pic.scans) + 1), row : 0..Total, smooth : BOOLEAN]
      BY <2>1 DEF TypeOK, InputRecords
    <3>2. out.scan \in 1..Len(pic.scans) /\ Len(pic.scans) \in Nat /\ Total \in Nat
      BY <2>2 DEF ScanFacts, FrameFacts
    <3>3. inp.scan \in 1..Len(pic.scans) /\ inp.row \in 0..Total /\ out.row \in 0..Total
      BY <3>1 DEF InputRecords
    <3> QED  BY <3>2, <3>3
  <2>7. out.scan \in 1..inp.scan /\ Arrived(out.scan, p)
    <3>1. CASE inp.eoi
      <4>1. inp.consume = "markers" /\ out.scan <= inp.scan
        BY <2>1, <3>1 DEF Positioned
      <4>2. out.scan \in 1..inp.scan
        BY <2>6, <4>1
      <4> QED  BY <2>5, <4>1, <4>2, AllArrived
    <3>2. CASE inp.scan > out.scan
      BY <2>6, <3>2 DEF Arrived
    <3>3. CASE inp.scan = out.scan /\ inp.row > out.row + (IF pic.scans[inp.scan].dc THEN 1 ELSE 0)
      <4>1. out.row + 1 < inp.row
        BY <2>6, <3>3
      <4>2. Passed(p)
        BY <4>1 DEF Passed
      <4> QED  BY <2>6, <3>3, <4>2 DEF Arrived
    <3> QED  BY <2>5, <3>1, <3>2, <3>3 DEF SmoothReady
  <2> QED  BY <2>1, <2>3, <2>7 DEF Stored
<1> QED  BY <1>1, ControlledHolds, PTL DEF Spec, NeighboursKnown

=============================================================================
