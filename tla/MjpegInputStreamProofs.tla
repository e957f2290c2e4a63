----------------------- MODULE MjpegInputStreamProofs -----------------------
(***************************************************************************)
(* What getEndOfSeqeunce returns, for any stream and any limit; what       *)
(* readMjpegFrame does on every stream, whatever its headers declare, that *)
(* it loses no frame of a steady one, and that of an even one it delivers  *)
(* whole images in order.                                                  *)
(***************************************************************************)
EXTENDS MarkerScan, MjpegInputStream, FiniteSetTheorems, SequenceTheorems, TLAPS

-----------------------------------------------------------------------------
(* The scanner of single bytes                                             *)

\* A loop that waits for the Code has just read an FF; one that waits for an FF has not,
\* but for padding.
THEOREM WatchingHolds == ScanSpec => []Watching
<1>1. ASSUME ScanInit
      PROVE  Watching
  BY <1>1, ScanAssumption DEF Watching, ScanInit, ScanTypeOK, MarkersFound
<1>2. ASSUME Watching, [ScanNext]_scanVars
      PROVE  Watching'
  <2> /\ input \in Seq(Byte) /\ Len(input) \in Nat /\ limit \in Nat /\ i \in Nat
      /\ FF # Code
    BY <1>2, ScanAssumption DEF Watching, ScanTypeOK
  <2>1. CASE Match \/ Mismatch
    <3>1. /\ scan = "reading" /\ i < limit /\ i < Len(input)
          /\ i' = i + 1 /\ UNCHANGED << input, limit >>
      BY <2>1 DEF Match, Mismatch, CanRead
    <3>2. \/ seqIndex = 0 /\ input[i + 1] = FF /\ seqIndex' = 1 /\ scan' = "reading"
          \/ seqIndex = 0 /\ input[i + 1] # FF /\ seqIndex' = 0 /\ scan' = "reading"
          \/ seqIndex = 1 /\ input[i + 1] = Code /\ seqIndex' = 1 /\ scan' = "found"
          \/ seqIndex = 1 /\ input[i + 1] # Code /\ seqIndex' = 0 /\ scan' = "reading"
      BY <1>2, <2>1, <3>1 DEF Watching, Match, Mismatch, Wanted, ScanTypeOK
    <3>3. ScanTypeOK'
      BY <1>2, <3>1, <3>2 DEF Watching, ScanTypeOK
    <3>4. scan' = "found" => Marker(i + 1)
      BY <1>2, <3>1, <3>2 DEF Watching, Marker
    <3>5. Marker(i + 1) /\ ~Padded(i + 1) => scan' = "found"
      BY <1>2, <3>1, <3>2 DEF Watching, Marker, Padded
    <3>6. \A k \in 1 .. i : ~(Marker(k) /\ ~Padded(k))
      BY <1>2, <3>1 DEF Watching, MarkersFound
    <3>7. MarkersFound'
      BY <3>1, <3>4, <3>5, <3>6 DEF MarkersFound, Marker, Padded
    <3> QED  BY <1>2, <3>1, <3>2, <3>3, <3>7 DEF Watching
  <2>2. CASE GiveUp \/ EndOfFile
    BY <1>2, <2>2 DEF Watching, GiveUp, EndOfFile, ScanTypeOK, MarkersFound, Marker, Padded
  <2>3. CASE UNCHANGED scanVars
    BY <1>2, <2>3 DEF Watching, scanVars, ScanTypeOK, MarkersFound, Marker, Padded
  <2> QED  BY <1>2, <2>1, <2>2, <2>3 DEF ScanNext
<1> QED  BY <1>1, <1>2, PTL DEF ScanSpec

\* A call returns the end of a marker, of the first one but for padded ones, and has
\* met no other when it returns -1 or meets the end of the stream.
THEOREM MarkersFoundHolds == ScanSpec => []MarkersFound
<1>1. Watching => MarkersFound
  BY DEF Watching
<1> QED  BY <1>1, WatchingHolds, PTL

-----------------------------------------------------------------------------
(* Searching                                                               *)

\* A set of numbers that is not empty has a least one: of the intervals that its
\* numbers end, one contains no other.
LEMMA Least ==
  ASSUME NEW S \in SUBSET Nat, S # {}
  PROVE  \E e \in S : \A f \in S : e <= f
<1> DEFINE Below == { 0 .. s : s \in S }
<1>1. \A s \in S : 0 .. s \in FiniteSubsetsOf(Nat)
  BY FS_Interval DEF FiniteSubsetsOf
<1>2. Below \subseteq FiniteSubsetsOf(Nat) /\ Below # {}
  BY <1>1
<1>3. PICK b \in Below : \A c \in Below : << c, b >> \notin StrictSubsetOrdering(Nat)
  BY <1>2, FS_StrictSubsetOrderingWellFounded, WFMin
<1>4. PICK e \in S : b = 0 .. e
  BY <1>3
<1>5. ASSUME NEW f \in S, f < e
      PROVE  FALSE
  <2>1. << 0 .. f, b >> \in StrictSubsetOrdering(Nat)
    BY <1>4, <1>5 DEF StrictSubsetOrdering
  <2> QED  BY <1>3, <2>1
<1>6. \A f \in S : e <= f
  <2> SUFFICES ASSUME NEW f \in S
               PROVE  e <= f
    OBVIOUS
  <2>1. ~(f < e)
    BY <1>5
  <2>2. e \in Nat /\ f \in Nat
    BY <1>4
  <2> QED  BY <2>1, <2>2
<1> QED  BY <1>4, <1>6

\* What a search returns: the first end of a marker that it meets.
LEMMA FirstEndIs ==
  ASSUME TypeOK, NEW ends \in SUBSET Nat, NEW from \in Int, NEW n \in Int,
         NEW e, e = FirstEnd(ends, from, n)
  PROVE  \/ /\ e \in ends
            /\ from + 2 <= e /\ e <= from + n /\ e <= stream.total
            /\ \A f \in ends : from + 2 <= f => e <= f
         \/ /\ e = -1
            /\ \A f \in ends : from + 2 <= f => f > from + n \/ f > stream.total
<1> DEFINE met == { f \in ends : from + 2 <= f /\ f <= from + n /\ f <= stream.total }
<1>1. stream.total \in Nat
  BY DEF TypeOK, WellFormed
<1>2. e = IF met = {} THEN -1 ELSE CHOOSE f \in met : \A g \in met : f <= g
  BY DEF FirstEnd
<1>3. CASE met = {}
  BY <1>1, <1>2, <1>3
<1>4. CASE met # {}
  <2>1. \E f \in met : \A g \in met : f <= g
    BY <1>4, Least
  <2>2. e \in met /\ \A g \in met : e <= g
    BY <1>2, <1>4, <2>1
  <2> QED  BY <1>1, <2>2
<1> QED  BY <1>3, <1>4

LEMMA PartsType ==
  ASSUME TypeOK
  PROVE  /\ stream.total \in Nat
         /\ Len(Parts) \in Nat /\ DOMAIN Parts = 1 .. Len(Parts)
         /\ \A k \in DOMAIN Parts :
              /\ Parts[k].soi \in Nat /\ Parts[k].end \in Nat
              /\ Parts[k].length \in Int \cup { Undeclared }
              /\ Parts[k].end >= Parts[k].soi + 4
         /\ Starts \in SUBSET Nat /\ Ends \in SUBSET Nat
<1> DEFINE Part == [soi : Nat, end : Nat, length : Int \cup { Undeclared }]
<1>1. Parts \in Seq(Part) /\ stream.total \in Nat
  BY DEF TypeOK, WellFormed, Parts
<1>2. Len(Parts) \in Nat /\ DOMAIN Parts = 1 .. Len(Parts)
  BY <1>1, Zenon, LenProperties
<1>3. ASSUME NEW k \in DOMAIN Parts
      PROVE  Parts[k] \in Part
  BY <1>1, <1>2, <1>3, ElementOfSeq, Zenon
<1>4. ASSUME NEW k \in DOMAIN Parts
      PROVE  /\ Parts[k].soi \in Nat /\ Parts[k].end \in Nat
             /\ Parts[k].length \in Int \cup { Undeclared }
             /\ Parts[k].end >= Parts[k].soi + 4
  BY <1>3 DEF TypeOK, WellFormed, Parts
<1>5. Starts \in SUBSET Nat /\ Ends \in SUBSET Nat
  BY <1>4 DEF Starts, Ends
<1> QED  BY <1>1, <1>2, <1>4, <1>5

\* The values that Java's arithmetic yields.
LEMMA Arithmetic ==
  ASSUME NEW n \in Int
  PROVE  /\ Wrap(n) \in Int /\ Half(n) \in Int
         /\ -IntMax - 1 <= n /\ n <= IntMax => Wrap(n) = n
<1> DEFINE m == 2 * (IntMax + 1)
           a == n + IntMax + 1
<1>1. IntMax \in Nat /\ m \in Nat \ { 0 } /\ a \in Int
  BY StreamAssumption
<1>2. a % m \in Int /\ (0 <= a /\ a < m => a % m = a)
  <2> HIDE DEF a, m
  <2> QED  BY <1>1
<1>3. Half(n) \in Int
  BY DEF Half
<1> QED  BY <1>1, <1>2, <1>3 DEF Wrap

-----------------------------------------------------------------------------
(* No byte is read twice, and the arrays fit                               *)

LEMMA LastEndType ==
  ASSUME TypeOK
  PROVE  /\ LastEnd \in Nat
         /\ Len(delivered) \in Nat
         /\ \A j \in 1 .. Len(delivered) : delivered[j] \in [from : Nat, length : Nat]
<1> DEFINE Ranges == [from : Nat, length : Nat]
<1>1. delivered \in Seq(Ranges)
  BY DEF TypeOK
<1> HIDE DEF Ranges
<1>2. Len(delivered) \in Nat /\ \A j \in 1 .. Len(delivered) : delivered[j] \in Ranges
  BY <1>1, ElementOfSeq, LenProperties
<1> USE DEF Ranges
<1>3. delivered # << >> => Len(delivered) \in 1 .. Len(delivered)
  BY <1>1, <1>2, EmptySeq
<1> QED  BY <1>2, <1>3 DEF LastEnd

\* A step that delivers nothing leaves what was delivered where it was.
LEMMA NothingDelivered ==
  ASSUME Placed, UNCHANGED << stream, delivered >>
  PROVE  /\ NoByteTwice' /\ LastEnd' = LastEnd
         /\ WellFormed(stream') /\ delivered' \in Seq([from : Nat, length : Nat])
BY DEF Placed, TypeOK, NoByteTwice, LastEnd

LEMMA PlacedInit == Init => Placed
<1> SUFFICES ASSUME Init
             PROVE  Placed
  OBVIOUS
<1>1. WellFormed(stream) /\ stream.total \in Nat
  BY StreamAssumption DEF Init, WellFormed
<1>2. delivered = << >> /\ delivered \in Seq([from : Nat, length : Nat]) /\ Len(delivered) = 0
  BY DEF Init
<1>3. TypeOK
  BY <1>1, <1>2 DEF Init, TypeOK
<1> QED  BY <1>1, <1>2, <1>3 DEF Init, Placed, NoByteTwice, LastEnd, InCall

LEMMA PlacedFindStart ==
  ASSUME Placed, FindStart
  PROVE  Placed'
<1> DEFINE e == FirstEnd(Starts, pos, FRAME_MAX_LENGTH)
<1>1. TypeOK /\ pos \in Nat /\ FRAME_MAX_LENGTH \in Int /\ stream.total \in Nat
  BY PartsType, StreamAssumption DEF Placed, TypeOK
<1>2. e = -1 \/ (e \in Nat /\ pos + 2 <= e /\ e <= stream.total)
  <2>1. Starts \in SUBSET Nat
    BY <1>1, PartsType
  <2>2. pos \in Int /\ e = FirstEnd(Starts, pos, FRAME_MAX_LENGTH)
    BY <1>1
  <2> HIDE DEF e
  <2>3. \/ e \in Starts /\ pos + 2 <= e /\ e <= stream.total
        \/ e = -1
    BY <1>1, <2>1, <2>2, FirstEndIs
  <2> QED  BY <1>1, <2>1, <2>3
<1>3. /\ markpos' = pos /\ newLength' = -1
      /\ UNCHANGED << stream, pos, mContentLength, header, headerLenPrev, frameData, delivered >>
      /\ \/ e # -1 /\ headerLen' = e - 2 - pos /\ pc' = "header"
         \/ e = -1 /\ headerLen' = -1 /\ pc' \in { "ended", "threw" }
  BY DEF FindStart, frame
<1> HIDE DEF e
<1>4. TypeOK'
  BY <1>1, <1>2, <1>3, NothingDelivered DEF TypeOK
<1>5. LastEnd <= pos /\ LastEnd' = LastEnd /\ NoByteTwice'
  BY <1>3, NothingDelivered DEF Placed
<1> QED
  BY <1>1, <1>2, <1>3, <1>4, <1>5, LastEndType DEF Placed, InCall

LEMMA PlacedReadHeader ==
  ASSUME Placed, ReadHeader
  PROVE  Placed'
<1>1. /\ pc = "header" /\ InCall /\ TypeOK /\ pos \in Nat /\ headerLen \in Nat
      /\ stream.total \in Nat /\ markpos = pos /\ pos + headerLen + 2 <= stream.total
      /\ header # -1 => header = headerLenPrev
  BY PartsType DEF Placed, TypeOK, ReadHeader, InCall
<1>2. /\ header' = headerLen /\ headerLenPrev' = headerLen
      /\ pos' = pos + headerLen /\ pc' = "parse"
      /\ UNCHANGED << stream, markpos, mContentLength, frameData, headerLen, newLength,
                      delivered >>
  BY <1>1 DEF ReadHeader
<1>3. TypeOK'
  BY <1>1, <1>2, NothingDelivered DEF TypeOK
<1>4. LastEnd <= pos /\ LastEnd' = LastEnd /\ NoByteTwice'
  BY <1>2, NothingDelivered DEF Placed
<1> QED
  BY <1>1, <1>2, <1>3, <1>4, LastEndType DEF Placed, InCall

LEMMA PlacedParseLength ==
  ASSUME Placed, ParseLength
  PROVE  Placed'
<1>1. /\ pc = "parse" /\ InCall /\ TypeOK /\ Undeclared \notin Int
  BY StreamAssumption DEF Placed, ParseLength, InCall
<1>2. /\ \/ pc' = "simplified" /\ UNCHANGED newLength
         \/ pc' = "size" /\ newLength' \in Int
      /\ UNCHANGED << stream, pos, markpos, mContentLength, header, headerLenPrev,
                      frameData, headerLen, delivered >>
  BY <1>1, PartsType DEF ParseLength, Found, frame
<1>3. TypeOK'
  BY <1>1, <1>2, NothingDelivered DEF TypeOK
<1>4. LastEnd <= pos /\ LastEnd' = LastEnd /\ NoByteTwice'
  BY <1>2, NothingDelivered DEF Placed
<1> QED
  BY <1>1, <1>2, <1>3, <1>4, LastEndType DEF Placed, InCall

LEMMA PlacedSearchSimplified ==
  ASSUME Placed, SearchSimplified
  PROVE  Placed'
<1> DEFINE skip == FieldHeaderLen + StartPos
           from == SkipTo(pos + IF skip > 0 THEN skip ELSE 0)
           n    == IF EndPos > StartPos THEN EndPos - StartPos ELSE 0
           e    == FirstEnd(Ends, from, n)
<1>1. /\ pc = "simplified" /\ InCall /\ TypeOK /\ pos \in Nat /\ stream.total \in Nat
      /\ pos <= stream.total
      /\ StartPos \in Int /\ EndPos \in Int /\ FieldHeaderLen = -1
      /\ FRAME_MAX_LENGTH \in Nat
  <2>1. /\ pc = "simplified" /\ InCall /\ TypeOK /\ pos \in Nat /\ stream.total \in Nat
        /\ pos <= stream.total /\ mContentLength \in Int /\ 3 * mContentLength \in Int
    BY PartsType DEF Placed, TypeOK, SearchSimplified, InCall
  <2>2. StartPos \in Int
    BY <2>1, Arithmetic DEF StartPos
  <2>3. Wrap(3 * mContentLength) \in Int
    BY <2>1, Arithmetic
  <2>4. EndPos \in Int
    BY <2>3, Arithmetic DEF EndPos
  <2> QED  BY <2>1, <2>2, <2>4, StreamAssumption DEF FieldHeaderLen
<1>2. skip \in Int /\ from \in Nat /\ n \in Nat /\ pos <= from /\ from <= stream.total
  BY <1>1 DEF SkipTo
<1>3. e = -1 \/ (e \in Nat /\ from + 2 <= e /\ e <= stream.total)
  <2>1. Ends \in SUBSET Nat
    BY <1>1, PartsType
  <2>2. e = FirstEnd(Ends, from, n)
    OBVIOUS
  <2> HIDE DEF from, n, e
  <2>3. \/ e \in Ends /\ from + 2 <= e /\ e <= stream.total
        \/ e = -1
    BY <1>1, <1>2, <2>1, <2>2, FirstEndIs
  <2> QED  BY <1>1, <1>2, <2>1, <2>3
<1>4. /\ UNCHANGED << stream, mContentLength, header, headerLenPrev, frameData, headerLen,
                      delivered >>
      /\ pos' \in pos .. stream.total /\ newLength' \in Int
      /\ markpos' = -1 \/ markpos' = markpos
      /\ pc' \in { "size", "worst", "call" }
  <2> HIDE DEF from, n, e, skip
  <2>1. \/ /\ e # -1
           /\ pos' = e /\ markpos' = MarkAfter(e)
           /\ newLength' = skip + (e - from)
           /\ pc' = "size"
        \/ /\ e = -1 /\ from + n <= stream.total
           /\ pos' = from + n /\ markpos' = MarkAfter(from + n)
           /\ newLength' = -1
           /\ pc' = "worst"
        \/ /\ e = -1 /\ from + n > stream.total
           /\ pos' = stream.total /\ markpos' = MarkAfter(stream.total + 1)
           /\ newLength' = -1 /\ pc' = "call"
    BY DEF SearchSimplified, ThrowIOException, from, n, e, skip
  <2>2. \A to : MarkAfter(to) \in { -1, markpos }
    BY DEF MarkAfter
  <2>3. UNCHANGED << stream, mContentLength, header, headerLenPrev, frameData, headerLen,
                     delivered >>
    BY DEF SearchSimplified, frame
  <2> QED  BY <1>1, <1>2, <1>3, <2>1, <2>2, <2>3
<1> HIDE DEF from, n, e, skip
<1>5. TypeOK'
  BY <1>1, <1>4, NothingDelivered DEF TypeOK
<1>6. LastEnd <= pos /\ LastEnd' = LastEnd /\ NoByteTwice'
  BY <1>4, NothingDelivered DEF Placed
<1> QED
  BY <1>1, <1>4, <1>5, <1>6, LastEndType DEF Placed, InCall

LEMMA PlacedSearchWorst ==
  ASSUME Placed, SearchWorst
  PROVE  Placed'
<1> DEFINE e == FirstEnd(Ends, markpos, FRAME_MAX_LENGTH)
<1>1. /\ pc = "worst" /\ InCall /\ TypeOK /\ pos \in Nat /\ stream.total \in Nat
      /\ markpos \in Int /\ -1 <= markpos /\ FRAME_MAX_LENGTH \in Nat
      /\ Ends \in SUBSET Nat
  BY PartsType, StreamAssumption DEF Placed, TypeOK, SearchWorst, InCall
<1>2. e = -1 \/ (e \in Nat /\ markpos + 2 <= e /\ e <= stream.total)
  <2>1. e = FirstEnd(Ends, markpos, FRAME_MAX_LENGTH)
    OBVIOUS
  <2> HIDE DEF e
  <2>2. \/ e \in Ends /\ markpos + 2 <= e /\ e <= stream.total
        \/ e = -1
    BY <1>1, <2>1, FirstEndIs
  <2> QED  BY <1>1, <2>2
<1>3. /\ UNCHANGED << stream, markpos, mContentLength, header, headerLenPrev, frameData,
                      headerLen, delivered >>
      /\ newLength' \in Int
      /\ \/ UNCHANGED pos
         \/ markpos # -1 /\ pos' \in markpos .. stream.total
         \/ pos' = stream.total
      /\ pc' \in { "size", "call" }
  <2> HIDE DEF e
  <2>1. \/ markpos = -1 /\ UNCHANGED pos /\ pc' = "call" /\ newLength' = -1
        \/ /\ markpos # -1 /\ e # -1
           /\ pos' = e /\ newLength' = e - markpos /\ pc' = "size"
        \/ /\ markpos # -1 /\ markpos + FRAME_MAX_LENGTH <= stream.total
           /\ pos' = markpos + FRAME_MAX_LENGTH /\ newLength' = -1 /\ pc' = "size"
        \/ pos' = stream.total /\ pc' = "call" /\ newLength' = -1
    BY DEF SearchWorst, ThrowIOException, e
  <2>2. UNCHANGED << stream, markpos, mContentLength, header, headerLenPrev, frameData,
                     headerLen, delivered >>
    BY DEF SearchWorst, frame
  <2> QED  BY <1>1, <1>2, <2>1, <2>2
<1> HIDE DEF e
<1>4. TypeOK'
  BY <1>1, <1>3, NothingDelivered DEF TypeOK
<1>5. LastEnd <= pos /\ LastEnd' = LastEnd /\ NoByteTwice'
  BY <1>3, NothingDelivered DEF Placed
<1>6. LastEnd \in Nat /\ LastEnd <= stream.total /\ (markpos # -1 => LastEnd <= markpos)
  BY <1>1, LastEndType DEF Placed, TypeOK
<1> QED
  BY <1>1, <1>3, <1>4, <1>5, <1>6 DEF Placed, InCall

LEMMA PlacedSizeBuffer ==
  ASSUME Placed, SizeBuffer
  PROVE  Placed'
<1> DEFINE need == Wrap(newLength + HEADER_MAX_LENGTH)
<1>1. /\ pc = "size" /\ InCall /\ TypeOK /\ pos \in Nat /\ stream.total \in Nat
      /\ markpos \in -1 .. stream.total /\ newLength \in Int
      /\ frameData \in Nat \cup { -1 }
      /\ FRAME_MAX_LENGTH \in Nat /\ HEADER_MAX_LENGTH \in Nat /\ IntMax \in Nat
  BY PartsType, StreamAssumption DEF Placed, TypeOK, SizeBuffer, InCall
<1>2. /\ need \in Int
      /\ newLength >= 0 /\ newLength + HEADER_MAX_LENGTH <= IntMax
           => need = newLength + HEADER_MAX_LENGTH
  <2>1. newLength + HEADER_MAX_LENGTH \in Int
    BY <1>1
  <2>2. /\ Wrap(newLength + HEADER_MAX_LENGTH) \in Int
        /\ -IntMax - 1 <= newLength + HEADER_MAX_LENGTH
             /\ newLength + HEADER_MAX_LENGTH <= IntMax
             => Wrap(newLength + HEADER_MAX_LENGTH) = newLength + HEADER_MAX_LENGTH
    BY <2>1, Arithmetic
  <2> QED  BY <1>1, <2>2
<1> HIDE DEF need
<1>3. /\ mContentLength' = newLength /\ newLength' \in Int
      /\ UNCHANGED << stream, markpos, header, headerLenPrev, headerLen, delivered >>
      /\ \/ /\ markpos = -1 /\ UNCHANGED << pos, frameData >>
            /\ pc' = "call"
         \/ /\ markpos # -1 /\ pos' = markpos /\ pc' = "read"
            /\ frameData' = IF need > FRAME_MAX_LENGTH THEN need
                            ELSE IF frameData = -1 THEN FRAME_MAX_LENGTH
                            ELSE frameData
  BY <1>1 DEF SizeBuffer, ThrowIOException, need
<1>4. /\ frameData' \in Nat \cup { -1 } 
      /\ frameData' # -1 => frameData' >= FRAME_MAX_LENGTH
      /\ pc' = "read" => frameData' # -1 /\ (need > FRAME_MAX_LENGTH => frameData' = need)
  BY <1>1, <1>2, <1>3 DEF Placed
<1>5. pc' = "read" /\ mContentLength' + HEADER_MAX_LENGTH <= IntMax
        => mContentLength' <= frameData'
  BY <1>1, <1>2, <1>3, <1>4
<1>6. TypeOK'
  BY <1>1, <1>3, <1>4, NothingDelivered DEF TypeOK
<1>7. LastEnd <= pos /\ LastEnd' = LastEnd /\ NoByteTwice'
  BY <1>3, NothingDelivered DEF Placed
<1>8. LastEnd \in Nat /\ (markpos # -1 => LastEnd <= markpos)
  BY <1>1, LastEndType DEF Placed
<1> QED
  BY <1>1, <1>3, <1>4, <1>5, <1>6, <1>7, <1>8 DEF Placed, InCall

LEMMA PlacedReadFrame ==
  ASSUME Placed, ReadFrame
  PROVE  Placed'
<1>1. /\ pc = "read" /\ InCall /\ TypeOK /\ pos \in Nat /\ stream.total \in Nat
      /\ pos = markpos /\ markpos # -1 /\ headerLen \in Nat
      /\ pos + headerLen <= stream.total
      /\ mContentLength \in Int
      /\ LastEnd \in Nat /\ LastEnd <= pos
  BY PartsType, LastEndType DEF Placed, TypeOK, ReadFrame, InCall
<1>2. /\ UNCHANGED << stream, markpos, mContentLength, header, headerLenPrev, frameData,
                      headerLen >>
      /\ pc' \in { "call", "threw" } /\ newLength' \in Int
  BY <1>1 DEF ReadFrame, ThrowIOException, frame, TypeOK
<1>3. CASE UNCHANGED delivered
  <2>1. pos' \in pos .. stream.total
    BY <1>1, <1>3 DEF ReadFrame
  <2>2. TypeOK'
    BY <1>1, <1>2, <1>3, <2>1, NothingDelivered DEF TypeOK
  <2>3. LastEnd' = LastEnd /\ NoByteTwice'
    BY <1>2, <1>3, NothingDelivered DEF Placed
  <2> QED  BY <1>1, <1>2, <2>1, <2>2, <2>3 DEF Placed, InCall
<1>4. CASE delivered' # delivered
  <2> DEFINE d == [from |-> pos + headerLen, length |-> mContentLength]
             Ranges == [from : Nat, length : Nat]
  <2>1. /\ mContentLength \in Nat
        /\ pos' = pos + headerLen + mContentLength /\ pos' <= stream.total
        /\ delivered' = Append(delivered, d)
    BY <1>1, <1>4 DEF ReadFrame
  <2>2. d \in Ranges /\ delivered \in Seq(Ranges) /\ Len(delivered) \in Nat
    BY <1>1, <2>1, LastEndType DEF TypeOK
  <2>3. d.from = pos + headerLen /\ d.length = mContentLength
    OBVIOUS
  <2> HIDE DEF d, Ranges
  <2>4. /\ delivered' \in Seq(Ranges) /\ delivered' # << >>
        /\ Len(delivered') = Len(delivered) + 1
        /\ \A j \in 1 .. Len(delivered) : delivered'[j] = delivered[j]
        /\ delivered'[Len(delivered) + 1] = d
    BY <2>1, <2>2, AppendProperties
  <2>5. LastEnd' = pos'
    BY <1>1, <2>1, <2>3, <2>4 DEF LastEnd
  <2>6. Len(delivered) # 0 =>
          LastEnd = delivered[Len(delivered)].from + delivered[Len(delivered)].length
    BY <2>2 DEF LastEnd, Ranges
  <2>7. NoByteTwice'
    <3> SUFFICES ASSUME NEW j \in 2 .. Len(delivered) + 1
                 PROVE  delivered'[j].from >= delivered'[j - 1].from + delivered'[j - 1].length
      BY <2>4 DEF NoByteTwice
    <3>1. CASE j = Len(delivered) + 1
      <4>1. /\ j - 1 = Len(delivered) /\ j - 1 \in 1 .. Len(delivered)
            /\ delivered'[j] = d /\ delivered'[j - 1] = delivered[Len(delivered)]
            /\ LastEnd = delivered[Len(delivered)].from + delivered[Len(delivered)].length
        BY <2>2, <2>4, <2>6, <3>1
      <4> QED  BY <1>1, <2>3, <4>1
    <3>2. CASE j # Len(delivered) + 1
      <4>1. /\ j \in 2 .. Len(delivered) /\ j - 1 \in 1 .. Len(delivered)
            /\ j \in 1 .. Len(delivered)
        BY <2>2, <3>2
      <4>2. delivered'[j] = delivered[j] /\ delivered'[j - 1] = delivered[j - 1]
        BY <2>4, <4>1
      <4> QED  BY <4>1, <4>2 DEF Placed, NoByteTwice
    <3> QED  BY <3>1, <3>2
  <2>8. TypeOK'
    <3>1. WellFormed(stream')
      BY <1>1, <1>2 DEF TypeOK
    <3>2. pos' \in 0 .. stream'.total
      BY <1>1, <1>2, <2>1
    <3> QED  BY <1>1, <1>2, <2>4, <3>1, <3>2 DEF TypeOK, Ranges
  <2> QED  BY <1>1, <1>2, <2>5, <2>7, <2>8, <2>1 DEF Placed, InCall
<1> QED  BY <1>3, <1>4

\* Placed is inductive on every stream, whatever its headers declare.
THEOREM PlacedHolds == Spec => []Placed
<1>1. ASSUME Placed, [Next]_vars
      PROVE  Placed'
  <2>1. CASE UNCHANGED vars
    BY <1>1, <2>1 DEF vars, Placed, TypeOK, NoByteTwice, LastEnd, InCall, Parts
  <2> QED
    BY <1>1, <2>1, PlacedFindStart, PlacedReadHeader, PlacedParseLength,
       PlacedSearchSimplified, PlacedSearchWorst, PlacedSizeBuffer, PlacedReadFrame DEF Next
<1> QED  BY <1>1, PlacedInit, PTL DEF Spec

\* No byte reaches the decoder twice.
THEOREM NoByteTwiceHolds == Spec => []NoByteTwice
<1>1. Placed => NoByteTwice
  BY DEF Placed
<1> QED  BY <1>1, PlacedHolds, PTL

\* frameData and header fit the frame at hand, though both outlive their call.
THEOREM ArraysFitHolds == Spec => []ArraysFit
<1>1. Placed => ArraysFit
  BY DEF Placed, ArraysFit, InCall
<1> QED  BY <1>1, PlacedHolds, PTL

-----------------------------------------------------------------------------
(* No frame of a steady stream is lost                                     *)

\* Images lie one behind the other, each behind a header of the first's length.
LEMMA Geometry ==
  ASSUME TypeOK, Steady, NEW k \in DOMAIN Parts
  PROVE  /\ HeaderOf(1) \in Nat
         /\ HeaderStart(k) \in Nat /\ HeaderStart(k) + HeaderOf(1) = Parts[k].soi
         /\ HeaderStart(k + 1) = Parts[k].end
         /\ Size(k) = Parts[k].end - Parts[k].soi /\ Size(k) \in Nat /\ Size(k) >= 4
         /\ stream.total <= Parts[Len(Parts)].end
         /\ \A m \in DOMAIN Parts : k < m => Parts[k].end <= Parts[m].soi
<1>1. /\ stream.total \in Nat /\ Len(Parts) \in Nat /\ DOMAIN Parts = 1 .. Len(Parts)
      /\ \A m \in 1 .. Len(Parts) : /\ Parts[m].soi \in Nat /\ Parts[m].end \in Nat
                                    /\ Parts[m].end >= Parts[m].soi + 4
  BY PartsType
<1>2. k \in 1 .. Len(Parts) /\ 1 \in 1 .. Len(Parts)
  BY <1>1
<1>3. HeaderOf(1) = Parts[1].soi /\ HeaderOf(1) \in Nat
  BY <1>1, <1>2 DEF HeaderOf, HeaderStart
<1>4. HeaderStart(k) \in Nat
  BY <1>1, <1>2 DEF HeaderStart
<1>5. HeaderOf(k) = HeaderOf(1)
  BY <1>1, <1>2 DEF Steady
<1>6. HeaderStart(k) + HeaderOf(1) = Parts[k].soi
  BY <1>1, <1>2, <1>3, <1>4, <1>5 DEF HeaderOf
<1>7. HeaderStart(k + 1) = Parts[k].end
  BY <1>1, <1>2 DEF HeaderStart
<1>8. stream.total <= Parts[Len(Parts)].end
  BY <1>1, <1>2 DEF Steady, HeaderStart
<1>9. \A m \in DOMAIN Parts : k < m => Parts[k].end <= Parts[m].soi
  BY <1>1, <1>2 DEF TypeOK, WellFormed, Parts
<1>10. Size(k) = Parts[k].end - Parts[k].soi /\ Size(k) \in Nat /\ Size(k) >= 4
  BY <1>1, <1>2 DEF Size
<1> QED  BY <1>3, <1>4, <1>6, <1>7, <1>8, <1>9, <1>10

LEMMA Order ==
  ASSUME TypeOK, NEW j \in DOMAIN Parts, NEW k \in DOMAIN Parts
  PROVE  /\ j \in Nat /\ k \in Nat /\ 1 <= j /\ j <= Len(Parts)
         /\ Parts[j].soi \in Nat /\ Parts[j].end \in Nat
         /\ Parts[k].soi \in Nat /\ Parts[k].end \in Nat
         /\ Parts[j].soi + 4 <= Parts[j].end /\ Parts[k].soi + 4 <= Parts[k].end
         /\ j < k => Parts[j].end <= Parts[k].soi
         /\ j <= k => Parts[j].end <= Parts[k].end
<1>1. /\ Len(Parts) \in Nat /\ DOMAIN Parts = 1 .. Len(Parts)
      /\ Parts[j].soi \in Nat /\ Parts[j].end \in Nat /\ Parts[j].soi + 4 <= Parts[j].end
      /\ Parts[k].soi \in Nat /\ Parts[k].end \in Nat /\ Parts[k].soi + 4 <= Parts[k].end
  BY PartsType
<1>2. j < k => Parts[j].end <= Parts[k].soi
  BY DEF TypeOK, WellFormed, Parts
<1>3. j <= k => Parts[j].end <= Parts[k].end
  <2>1. CASE j = k
    BY <1>1, <2>1
  <2>2. CASE j # k
    BY <1>1, <1>2, <2>2
  <2> QED  BY <2>1, <2>2
<1> QED  BY <1>1, <1>2, <1>3

\* The window that a length gives holds the end of every image.
LEMMA Window ==
  ASSUME TypeOK, Steady, NEW k \in DOMAIN Parts, NEW m \in DOMAIN Parts, NEW n,
         n = Size(m) \/ n = Size(m) + HeaderOf(1)
  PROVE  /\ n \in Nat /\ n >= 4 /\ Wrap(3 * n) = 3 * n
         /\ Half(n) \in Nat /\ Half(n) >= 2 /\ Half(3 * n) \in Nat
         /\ Half(n) < Size(k) /\ Size(k) < Half(3 * n)
         /\ HeaderOf(1) + Half(3 * n) <= FRAME_MAX_LENGTH
<1>1. HeaderOf(1) \in Nat /\ Size(m) \in Nat /\ Size(m) >= 4 /\ Size(k) \in Nat
  BY Geometry
<1>2. n \in Nat /\ n >= 4
  BY <1>1
<1>3. Half(n) = n \div 2 /\ Half(3 * n) = (3 * n) \div 2
  BY <1>2 DEF Half
<1>4. /\ Half(n) \in Nat /\ Half(n) >= 2
      /\ Half(3 * n) \in Nat /\ 3 * n <= 2 * Half(3 * n) + 1
  BY <1>2, <1>3
<1>5. PICK h \in { 0, HeaderOf(1) } : n = Size(m) + h
  BY <1>1
<1>6. LET l == Size(m) + h
      IN  /\ Size(k) > Half(l) /\ Size(k) < Half(3 * l)
          /\ HeaderOf(1) + Half(3 * l) <= FRAME_MAX_LENGTH
  BY DEF Steady
<1>7. /\ Size(k) > Half(n) /\ Size(k) < Half(3 * n)
      /\ HeaderOf(1) + Half(3 * n) <= FRAME_MAX_LENGTH
  BY <1>5, <1>6
<1>8. 3 * n <= IntMax /\ IntMax \in Nat /\ 3 * n \in Nat
  BY <1>1, <1>2, <1>4, <1>7, StreamAssumption
<1>9. Wrap(3 * n) = 3 * n
  <2> DEFINE w == 3 * n
  <2>1. w \in Int /\ -IntMax - 1 <= w /\ w <= IntMax
    BY <1>8
  <2> HIDE DEF w
  <2>2. Wrap(w) = w
    BY <2>1, Arithmetic
  <2> QED  BY <2>2 DEF w
<1> QED  BY <1>1, <1>2, <1>4, <1>7, <1>9

\* What is known during a call, k being its image.
LEMMA CallFacts ==
  ASSUME Placed, Synced, Steady, InCall, NEW k, k = Upcoming
  PROVE  /\ TypeOK /\ stream.total \in Nat /\ pos \in Nat /\ pos <= stream.total
         /\ k \in DOMAIN Parts /\ 1 \in DOMAIN Parts /\ Len(Parts) \in DOMAIN Parts
         /\ k >= 1 /\ k <= Len(Parts) /\ Len(delivered) = k - 1
         /\ markpos \in Nat /\ headerLen \in Nat /\ markpos + headerLen = Parts[k].soi
         /\ Parts[k].soi \in Nat /\ Parts[k].end \in Nat
         /\ Parts[k].soi + 2 <= stream.total
         /\ HeaderOf(1) \in Nat
         /\ FRAME_MAX_LENGTH \in Nat /\ HEADER_MAX_LENGTH \in Nat
         /\ HeaderOf(1) + Size(k) < FRAME_MAX_LENGTH
         /\ pc # "read" => InLine(markpos, mContentLength) /\ headerLen <= HeaderOf(1)
<1>1. /\ TypeOK /\ stream.total \in Nat /\ pos \in Nat /\ pos <= stream.total
      /\ Len(Parts) \in Nat /\ DOMAIN Parts = 1 .. Len(Parts)
      /\ Len(delivered) \in Nat
      /\ FRAME_MAX_LENGTH \in Nat /\ HEADER_MAX_LENGTH \in Nat
  BY PartsType, LastEndType, StreamAssumption DEF Placed, TypeOK
<1>2. /\ k = Len(delivered) + 1 /\ k \in Nat /\ k >= 1 /\ k <= Len(Parts)
      /\ k \in DOMAIN Parts /\ 1 \in DOMAIN Parts /\ Len(Parts) \in DOMAIN Parts
  BY <1>1 DEF Synced, Upcoming
<1>3. /\ markpos \in Nat /\ headerLen \in Nat
      /\ markpos + headerLen + 2 <= stream.total
  BY <1>1 DEF Placed, TypeOK, Synced
<1>4. markpos + headerLen = Parts[k].soi
  BY <1>2 DEF Synced
<1>5. /\ HeaderOf(1) \in Nat /\ Parts[k].soi \in Nat /\ Parts[k].end \in Nat
      /\ Size(k) \in Nat
  BY <1>1, <1>2, Geometry, PartsType
<1>6. HeaderOf(1) + Size(k) < FRAME_MAX_LENGTH
  <2> DEFINE n == Size(k)
  <2>1. Size(k) < Half(3 * n) /\ HeaderOf(1) + Half(3 * n) <= FRAME_MAX_LENGTH /\ Half(3 * n) \in Nat
    BY <1>1, <1>2, Window
  <2> HIDE DEF n
  <2> QED  BY <1>1, <1>5, <2>1
<1>7. pc # "read" => InLine(markpos, mContentLength)
  BY DEF Synced
<1>8. pc # "read" => headerLen <= HeaderOf(1)
  <2>1. HeaderStart(k) \in Nat /\ HeaderStart(k) + HeaderOf(1) = Parts[k].soi
    BY <1>1, <1>2, Geometry
  <2>2. pc # "read" => markpos = HeaderStart(k) \/ markpos = HeaderStart(k) + HeaderOf(1)
    BY <1>2, <1>7 DEF InLine, Upcoming
  <2> QED  BY <1>3, <1>4, <1>5, <2>1, <2>2
<1> QED  BY <1>1, <1>2, <1>3, <1>4, <1>5, <1>6, <1>7, <1>8

\* All of these depend on the stream and on what was delivered only.
LEMMA SameStream ==
  ASSUME UNCHANGED << stream, delivered >>
  PROVE  /\ Steady' <=> Steady
         /\ Parts' = Parts /\ Upcoming' = Upcoming
         /\ AllSeen' <=> AllSeen
         /\ \A n : RightLength(n)' <=> RightLength(n)
         /\ \A a, n : InLine(a, n)' <=> InLine(a, n)
         /\ (\A j \in DOMAIN delivered : Holds(delivered[j], j))' <=>
              \A j \in DOMAIN delivered : Holds(delivered[j], j)
BY DEF Steady, Honest, HeaderStart, HeaderOf, Size, Parts, Upcoming, AllSeen, RightLength,
       InLine, Holds

LEMMA SyncedFindStart ==
  ASSUME Placed, Synced, FindStart
  PROVE  Synced'
<1> SUFFICES ASSUME Steady
             PROVE  Synced'
  BY SameStream DEF FindStart, Synced
<1> DEFINE e == FirstEnd(Starts, pos, FRAME_MAX_LENGTH)
           k == Upcoming
<1>1. /\ TypeOK /\ stream.total \in Nat /\ pos \in Nat /\ pos <= stream.total
      /\ Len(Parts) \in Nat /\ DOMAIN Parts = 1 .. Len(Parts)
      /\ Len(delivered) \in Nat /\ Len(delivered) <= Len(Parts) /\ k = Len(delivered) + 1
      /\ FRAME_MAX_LENGTH \in Nat /\ FRAME_MAX_LENGTH >= 1
      /\ pc = "call"
      /\ InLine(pos, mContentLength) \/ (pos = stream.total /\ AllSeen)
      /\ Starts \in SUBSET Nat
  BY PartsType, LastEndType, StreamAssumption DEF Placed, TypeOK, Synced, FindStart, Upcoming
<1>2. \/ /\ e \in Starts /\ pos + 2 <= e /\ e <= stream.total
         /\ \A f \in Starts : pos + 2 <= f => e <= f
      \/ /\ e = -1
         /\ \A f \in Starts : pos + 2 <= f => f > pos + FRAME_MAX_LENGTH \/ f > stream.total
  <2>1. e = FirstEnd(Starts, pos, FRAME_MAX_LENGTH) /\ pos \in Int /\ FRAME_MAX_LENGTH \in Int
    BY <1>1
  <2> HIDE DEF e
  <2>2. \/ /\ e \in Starts
           /\ pos + 2 <= e /\ e <= pos + FRAME_MAX_LENGTH /\ e <= stream.total
           /\ \A f \in Starts : pos + 2 <= f => e <= f
        \/ /\ e = -1
           /\ \A f \in Starts : pos + 2 <= f => f > pos + FRAME_MAX_LENGTH \/ f > stream.total
    <3>1. TypeOK /\ Starts \in SUBSET Nat
      BY <1>1
    <3> QED  BY <2>1, <3>1, FirstEndIs
  <2> QED  BY <2>2
<1>3. /\ markpos' = pos
      /\ UNCHANGED << stream, pos, mContentLength, delivered >>
      /\ \/ e # -1 /\ headerLen' = e - 2 - pos /\ pc' = "header"
         \/ /\ e = -1
            /\ pc' = IF stream.total < pos + FRAME_MAX_LENGTH THEN "ended" ELSE "threw"
  BY DEF FindStart, frame
<1> HIDE DEF e, k
<1>4. CASE pos = stream.total /\ AllSeen
  <2>1. pos \in Nat /\ FRAME_MAX_LENGTH \in Nat /\ FRAME_MAX_LENGTH >= 1
        /\ \A f \in Starts : f \in Nat
    BY <1>1
  <2>2. e = -1
    BY <1>2, <1>4, <2>1
  <2>3. pc' = "ended"
    BY <1>3, <1>4, <2>1, <2>2
  <2> QED  BY <1>3, <1>4, <2>3, SameStream DEF Synced, InCall
<1>5. CASE InLine(pos, mContentLength) /\ k > Len(Parts)
  <2>1. k = Len(Parts) + 1
    BY <1>1, <1>5
  <2>2. pos >= HeaderStart(Len(Parts) + 1)
    <3>1. CASE Len(Parts) = 0
      BY <1>1, <2>1, <3>1 DEF HeaderStart
    <3>2. CASE Len(Parts) # 0
      <4>1. Len(Parts) \in DOMAIN Parts
        BY <1>1, <3>2
      <4>2. HeaderStart(Len(Parts) + 1) \in Nat /\ HeaderOf(1) \in Nat
        BY <1>1, <4>1, Geometry, PartsType
      <4> QED  BY <1>1, <1>5, <2>1, <4>2 DEF InLine, k
    <3> QED  BY <3>1, <3>2
  <2>3. stream.total <= HeaderStart(Len(Parts) + 1)
    BY DEF Steady
  <2>4. HeaderStart(Len(Parts) + 1) \in Nat
    BY <1>1, PartsType DEF HeaderStart
  <2>5. pos = stream.total
    BY <1>1, <2>2, <2>3, <2>4
  <2>6. AllSeen
    BY <1>1, <2>1 DEF AllSeen
  <2> QED  BY <1>4, <2>5, <2>6
<1>6. CASE InLine(pos, mContentLength) /\ k <= Len(Parts)
  <2>1. k \in DOMAIN Parts /\ 1 \in DOMAIN Parts /\ Len(Parts) \in DOMAIN Parts
    BY <1>1, <1>6
  <2>2. /\ HeaderOf(1) \in Nat /\ HeaderStart(k) \in Nat
        /\ HeaderStart(k) + HeaderOf(1) = Parts[k].soi /\ Parts[k].soi \in Nat
        /\ Parts[k].end \in Nat /\ Parts[k].soi + 4 <= Parts[k].end
    BY <1>1, <2>1, Geometry, PartsType
  <2>3. HeaderStart(k) <= pos /\ pos <= Parts[k].soi
    BY <1>1, <1>6, <2>2 DEF InLine, k
  <2>4. Parts[k].soi + 2 \in Starts
    BY <2>1 DEF Starts
  <2>5. ASSUME NEW j \in DOMAIN Parts, pos + 2 <= Parts[j].soi + 2
        PROVE  j >= k
    <3> SUFFICES ASSUME j < k
                 PROVE  FALSE
      BY <1>1
    <3>1. Parts[k - 1].end = HeaderStart(k) /\ k - 1 \in DOMAIN Parts /\ j <= k - 1
      BY <1>1, <1>6 DEF HeaderStart
    <3>2. /\ Parts[j].soi \in Nat /\ Parts[j].soi + 4 <= Parts[j].end /\ Parts[j].end \in Nat
          /\ Parts[k - 1].end \in Nat /\ Parts[j].end <= Parts[k - 1].end
      BY <1>1, <3>1, Order
    <3>3. pos \in Nat
      BY <1>1
    <3> QED  BY <2>3, <2>5, <3>1, <3>2, <3>3
  <2>6. HeaderOf(1) + 2 <= FRAME_MAX_LENGTH
    <3> DEFINE n == Size(k)
    <3>1. /\ Half(3 * n) \in Nat /\ Size(k) < Half(3 * n) /\ Size(k) >= 4 /\ Size(k) \in Nat
          /\ HeaderOf(1) + Half(3 * n) <= FRAME_MAX_LENGTH
      BY <1>1, <2>1, Window, Geometry
    <3> HIDE DEF n
    <3> QED  BY <1>1, <2>2, <3>1
  <2>7. CASE e = -1
    <3>1. Parts[k].soi + 2 > stream.total
      <4> DEFINE f == Parts[k].soi + 2
      <4>1. f \in Starts /\ pos \in Nat /\ f \in Nat /\ pos + 2 <= f
        <5>1. pos \in Nat
          BY <1>1
        <5> QED  BY <2>2, <2>3, <2>4, <5>1
      <4>2. f <= pos + FRAME_MAX_LENGTH
        <5>1. pos \in Nat /\ HeaderStart(k) <= pos /\ FRAME_MAX_LENGTH \in Nat
          BY <1>1, <2>3
        <5> QED  BY <2>2, <2>6, <5>1
      <4> HIDE DEF f
      <4>3. f > pos + FRAME_MAX_LENGTH \/ f > stream.total
        BY <1>2, <2>7, <4>1
      <4>4. f > stream.total
        BY <1>1, <4>1, <4>2, <4>3
      <4> QED  BY <4>4 DEF f
    <3>2. pc' = "ended"
      <4>1. pos \in Nat /\ FRAME_MAX_LENGTH \in Nat /\ stream.total \in Nat
        BY <1>1
      <4>2. stream.total < pos + FRAME_MAX_LENGTH
        BY <2>2, <2>3, <2>6, <3>1, <4>1
      <4> QED  BY <1>3, <2>7, <4>2
    <3>3. Parts[k].end <= Parts[Len(Parts)].end
      BY <1>6, <2>1, <1>1, Order
    <3>4. AllSeen
      <4>1. Parts[Len(Parts)].end \in Nat /\ stream.total \in Nat
        BY <1>1, <2>1, Order
      <4>2. stream.total < Parts[Len(Parts)].end
        BY <2>2, <3>1, <3>3, <4>1, SMTT(60)
      <4> QED  BY <4>1, <4>2 DEF AllSeen
    <3> QED  BY <1>3, <3>2, <3>4, SameStream DEF Synced, InCall
  <2>8. CASE e # -1
    <3>1. PICK j \in DOMAIN Parts : e = Parts[j].soi + 2
      BY <1>2, <2>8 DEF Starts
    <3>2. j >= k
      BY <1>2, <2>5, <2>8, <3>1
    <3>3. e <= Parts[k].soi + 2
      <4> DEFINE f == Parts[k].soi + 2
      <4>1. f \in Starts /\ pos + 2 <= f
        BY <1>1, <2>2, <2>3, <2>4, SMTT(30)
      <4> HIDE DEF f
      <4>2. e <= f
        BY <1>2, <2>8, <4>1
      <4> QED  BY <4>2 DEF f
    <3>4. /\ Parts[j].soi \in Nat /\ j \in Nat /\ k \in Nat
          /\ k < j => Parts[k].end <= Parts[j].soi
      BY <1>1, <2>1, Order
    <3>5. e = Parts[k].soi + 2
      <4>1. CASE j = k
        BY <3>1, <4>1
      <4>2. CASE k < j
        BY <2>2, <3>1, <3>3, <3>4, <4>2
      <4> QED  BY <3>2, <3>4, <4>1, <4>2
    <3>6. /\ pc' = "header" /\ markpos' + headerLen' = Parts[k].soi /\ markpos' # -1
      <4>1. pos \in Nat /\ pc' = "header" /\ markpos' = pos /\ headerLen' = e - 2 - pos
        BY <1>1, <1>3, <2>8
      <4> QED  BY <2>2, <3>5, <4>1
    <3>7. Len(delivered) < Len(Parts)
      BY <1>1, <1>6
    <3> QED  BY <1>3, <1>6, <3>6, <3>7, SameStream DEF Synced, InCall, k
  <2> QED  BY <2>7, <2>8
<1> QED  BY <1>1, <1>4, <1>5, <1>6

LEMMA SyncedReadHeader ==
  ASSUME Placed, Synced, ReadHeader
  PROVE  Synced'
<1>1. /\ pc = "header" /\ pc' = "parse"
      /\ UNCHANGED << stream, markpos, mContentLength, headerLen, delivered >>
  BY DEF ReadHeader
<1> QED  BY <1>1, SameStream DEF Synced, InCall

LEMMA SyncedParseLength ==
  ASSUME Placed, Synced, ParseLength
  PROVE  Synced'
<1> SUFFICES ASSUME Steady
             PROVE  Synced'
  BY SameStream DEF ParseLength, Synced
<1> DEFINE k == Upcoming
<1>1. /\ pc = "parse" /\ InCall
      /\ UNCHANGED << stream, pos, markpos, mContentLength, headerLen, delivered >>
  BY DEF ParseLength, frame, InCall
<1>2. /\ TypeOK /\ k \in DOMAIN Parts /\ markpos \in Nat /\ headerLen \in Nat
      /\ pos = Parts[k].soi
  BY <1>1, CallFacts DEF Placed
<1> HIDE DEF k
<1>3. PICK j \in DOMAIN Parts :
        \E n \in Found(j) : /\ Parts[j].soi = pos
                           /\ \/ n = Undeclared /\ pc' = "simplified"
                              \/ n # Undeclared /\ pc' = "size" /\ newLength' = n
  BY DEF ParseLength
<1>4. j = k
  <2>1. /\ j \in Nat /\ k \in Nat
        /\ Parts[j].soi \in Nat /\ Parts[j].soi + 4 <= Parts[j].end
        /\ Parts[k].soi \in Nat /\ Parts[k].soi + 4 <= Parts[k].end
        /\ Parts[j].end \in Nat /\ Parts[k].end \in Nat
        /\ j < k => Parts[j].end <= Parts[k].soi
        /\ k < j => Parts[k].end <= Parts[j].soi
    BY <1>2, Order
  <2> QED  BY <1>2, <1>3, <2>1
<1>5. ASSUME NEW n \in Found(j)
      PROVE  n = Undeclared \/ n = Size(k)
  <2>1. Parts[k].length \in { Undeclared, Size(k) }
    BY <1>2 DEF Steady, Honest
  <2>2. n \in { Parts[k].length, Undeclared }
    BY <1>4, <1>5 DEF Found
  <2> QED  BY <2>1, <2>2
<1> QED  BY <1>1, <1>3, <1>5, SameStream DEF Synced, InCall, RightLength, k

\* A search that the window guides yields the length of the image; the first, with no
\* window, finds nothing.
LEMMA SyncedSearchSimplified ==
  ASSUME Placed, Synced, SearchSimplified
  PROVE  Synced'
<1> SUFFICES ASSUME Steady
             PROVE  Synced'
  BY SameStream DEF SearchSimplified, Synced
<1> DEFINE skip == FieldHeaderLen + StartPos
           from == SkipTo(pos + IF skip > 0 THEN skip ELSE 0)
           n    == IF EndPos > StartPos THEN EndPos - StartPos ELSE 0
           e    == FirstEnd(Ends, from, n)
           k    == Upcoming
<1>1. /\ pc = "simplified" /\ InCall /\ pos = markpos + headerLen
      /\ UNCHANGED << stream, mContentLength, headerLen, delivered >>
  BY DEF Placed, SearchSimplified, frame, InCall
<1> DEFINE size == Size(k)
           end == Parts[k].end
           total == stream.total
           H == HeaderOf(1)
<1>2. /\ TypeOK /\ k \in DOMAIN Parts /\ 1 \in DOMAIN Parts /\ Len(Parts) \in DOMAIN Parts
      /\ InLine(markpos, mContentLength)
  BY <1>1, CallFacts
<1>6. k \in Nat /\ k >= 1 /\ k <= Len(Parts) /\ Len(delivered) = k - 1
  BY <1>1, <1>2, CallFacts, Order
<1>7. /\ total \in Nat /\ pos \in Nat /\ pos <= total
      /\ end \in Nat /\ end = pos + size /\ size \in Nat /\ size >= 4
      /\ pos = Parts[k].soi
  <2>1. /\ stream.total \in Nat /\ pos \in Nat /\ pos <= stream.total
        /\ Parts[k].soi \in Nat /\ Parts[k].end \in Nat /\ pos = Parts[k].soi
    BY <1>1, CallFacts
  <2>2. Size(k) = Parts[k].end - Parts[k].soi /\ Size(k) \in Nat /\ Size(k) >= 4
    BY <1>2, Geometry
  <2> QED  BY <2>1, <2>2
<1>8. /\ markpos \in Nat /\ headerLen \in Nat /\ pos = markpos + headerLen
      /\ headerLen <= H /\ H \in Nat /\ FRAME_MAX_LENGTH \in Nat
      /\ H + size < FRAME_MAX_LENGTH
  BY <1>1, CallFacts
<1> HIDE DEF size, end, total, H
<1>3. \/ /\ e # -1
         /\ pos' = e /\ markpos' = MarkAfter(e)
         /\ newLength' = skip + (e - from)
         /\ pc' = "size"
      \/ /\ e = -1 /\ from + n <= stream.total
         /\ pos' = from + n /\ markpos' = MarkAfter(from + n)
         /\ pc' = "worst"
      \/ /\ e = -1 /\ from + n > stream.total
         /\ pos' = stream.total
         /\ pc' = "call"
  BY DEF SearchSimplified, ThrowIOException
<1>9. from = IF pos + (IF skip > 0 THEN skip ELSE 0) > total THEN total
             ELSE pos + (IF skip > 0 THEN skip ELSE 0)
  BY DEF SkipTo, total
<1>4. CASE k = 1
  <2>1. mContentLength = -1 /\ markpos = HeaderStart(1)
    BY <1>2, <1>4 DEF InLine
  <2>2. StartPos = 0 /\ Half(-3) = -1
    BY <2>1 DEF StartPos, Half
  <2>3. Wrap(-3) = -3
    <3>1. IntMax \in Nat /\ IntMax >= 2
      BY <1>2, StreamAssumption
    <3>2. -IntMax - 1 <= -3 /\ -3 <= IntMax
      BY <3>1
    <3> QED  BY <3>2, Arithmetic
  <2>4. EndPos = -1
    <3>1. 3 * mContentLength = -3
      BY <2>1
    <3> QED  BY <2>2, <2>3, <3>1 DEF EndPos
  <2>5. n = 0 /\ from = pos /\ skip = -1
    <3>1. skip = -1 /\ n = 0
      BY <2>2, <2>4 DEF FieldHeaderLen
    <3> HIDE DEF skip, n, from
    <3> QED  BY <1>7, <1>9, <3>1
  <2>6. e = -1
    <3>1. e = FirstEnd(Ends, pos, 0) /\ pos \in Int /\ 0 \in Int
      BY <1>7, <2>5
    <3> HIDE DEF e
    <3>2. TypeOK /\ Ends \in SUBSET Nat
      BY <1>2, PartsType
    <3>3. \/ e \in Ends /\ pos + 2 <= e /\ e <= pos + 0
          \/ e = -1
      BY <3>1, <3>2, FirstEndIs
    <3>4. e \in Ends => e \in Nat
      BY <3>2
    <3> QED  BY <1>7, <3>3, <3>4
  <2> HIDE DEF e, from, n, skip
  <2>7. pc' = "worst" /\ markpos' = MarkAfter(pos)
    BY <1>3, <1>7, <2>5, <2>6 DEF total
  <2>8. markpos' = markpos
    <3>1. pos <= markpos + FRAME_MAX_LENGTH
      BY <1>7, <1>8
    <3> QED  BY <1>7, <1>8, <2>7, <3>1 DEF MarkAfter
  <2>9. delivered = << >>
    BY <1>2, <1>4, <1>6, LastEndType, EmptySeq DEF TypeOK
  <2> QED  BY <1>1, <2>7, <2>8, <2>9, SameStream DEF Synced, InCall
<1>5. CASE k # 1
  <2> DEFINE m == k - 1
             l == mContentLength
  <2>1. m \in DOMAIN Parts /\ m \in Nat /\ m < k
    BY <1>2, <1>5, <1>6, PartsType
  <2>2. l = Size(m) \/ l = Size(m) + HeaderOf(1)
    BY <1>2, <1>5 DEF InLine
  <2>3. /\ l \in Nat /\ l >= 4 /\ Wrap(3 * l) = 3 * l
        /\ Half(l) \in Nat /\ Half(l) >= 2 /\ Half(3 * l) \in Nat
        /\ Half(l) < size /\ size < Half(3 * l)
    BY <1>2, <2>1, <2>2, Window DEF size
  <2>4. StartPos = Half(l) /\ EndPos = Half(3 * l)
    BY <2>3 DEF StartPos, EndPos
  <2> HIDE DEF l
  <2> DEFINE half == Half(l)
             most == Half(3 * l)
  <2>11. /\ half \in Nat /\ half >= 2 /\ most \in Nat /\ half < size /\ size < most
    BY <2>3
  <2> HIDE DEF half, most
  <2>5. skip = half - 1 /\ n = most - half
    BY <1>7, <2>4, <2>11 DEF FieldHeaderLen, half, most
  <2>12. from = IF pos + half - 1 > total THEN total ELSE pos + half - 1
    <3> HIDE DEF skip, from
    <3> QED  BY <1>7, <1>9, <2>5, <2>11
  <2>6. /\ from \in Nat /\ n \in Nat /\ n >= 1 /\ pos <= from /\ from + 2 <= end
        /\ from + n >= end \/ from = total
    <3> HIDE DEF n, from
    <3> QED  BY <1>7, <2>5, <2>11, <2>12
  <2>7. end \in Ends /\ Ends \in SUBSET Nat
    BY <1>2, PartsType DEF Ends, end
  <2>8. \/ /\ e \in Ends
           /\ from + 2 <= e /\ e <= from + n /\ e <= stream.total
           /\ \A f \in Ends : from + 2 <= f => e <= f
        \/ /\ e = -1
           /\ \A f \in Ends : from + 2 <= f => f > from + n \/ f > stream.total
    <3>1. e = FirstEnd(Ends, from, n) /\ from \in Int /\ n \in Int /\ TypeOK
      BY <1>2, <2>6
    <3> HIDE DEF e, from, n
    <3> QED  BY <2>7, <3>1, FirstEndIs
  <2> HIDE DEF e, from, n, skip, k, m
  <2>9. CASE e = -1
    <3>1. end > total
      BY <1>7, <2>6, <2>7, <2>8, <2>9 DEF total
    <3>2. from + n > total
      BY <1>7, <2>6, <3>1
    <3>3. pc' = "call" /\ pos' = stream.total
      BY <1>3, <1>7, <2>6, <2>9, <3>2 DEF total
    <3>4. Parts[k].end <= Parts[Len(Parts)].end /\ Parts[Len(Parts)].end \in Nat
      BY <1>2, <1>6, Order
    <3>5. total < Parts[Len(Parts)].end
      BY <1>7, <3>1, <3>4 DEF end
    <3>6. AllSeen
      BY <1>7, <3>4, <3>5 DEF AllSeen, total
    <3> QED  BY <1>1, <3>3, <3>6, SameStream DEF Synced, InCall
  <2>10. CASE e # -1
    <3>1. PICK j \in DOMAIN Parts : e = Parts[j].end
      BY <2>8, <2>10 DEF Ends
    <3>2. e <= end
      BY <2>6, <2>7, <2>8, <2>10
    <3>3. /\ Parts[j].soi \in Nat /\ j \in Nat /\ Parts[j].end \in Nat
          /\ Parts[j].soi + 4 <= Parts[j].end
          /\ j < k => Parts[j].end <= Parts[k].soi
          /\ k < j => Parts[k].end <= Parts[j].soi
      BY <1>2, Order
    <3>4. e \in Nat /\ e >= pos + 2 /\ e <= total /\ from + 2 <= e
      BY <1>7, <2>6, <2>8, <2>10, <3>1, <3>3 DEF total
    <3>5. e = end
      <4>1. ~(j < k)
        BY <1>7, <3>1, <3>3, <3>4
      <4>2. ~(k < j)
        BY <1>7, <3>1, <3>2, <3>3, <3>4 DEF end
      <4>3. j = k
        BY <1>6, <3>3, <4>1, <4>2
      <4> QED  BY <3>1, <4>3 DEF end
    <3>6. from = pos + half - 1
      BY <1>7, <2>11, <2>12, <3>4
    <3>7. newLength' = size /\ pc' = "size" /\ markpos' = MarkAfter(e)
      BY <1>3, <1>7, <2>5, <2>10, <2>11, <3>5, <3>6
    <3>8. markpos' = markpos
      <4>1. e <= markpos + FRAME_MAX_LENGTH
        BY <1>7, <1>8, <3>5
      <4> QED  BY <1>8, <3>4, <3>7, <4>1 DEF MarkAfter
    <3> QED  BY <1>1, <3>7, <3>8, SameStream DEF Synced, InCall, RightLength, k, size
  <2> QED  BY <2>9, <2>10
<1> QED  BY <1>4, <1>5

\* The search from the mark meets the end of the first image, and counts its header.
LEMMA SyncedSearchWorst ==
  ASSUME Placed, Synced, SearchWorst
  PROVE  Synced'
<1> SUFFICES ASSUME Steady
             PROVE  Synced'
  BY SameStream DEF SearchWorst, Synced
<1> DEFINE e == FirstEnd(Ends, markpos, FRAME_MAX_LENGTH)
           size == Size(1)
           end == Parts[1].end
           total == stream.total
           H == HeaderOf(1)
<1>1. /\ pc = "worst" /\ InCall /\ delivered = << >>
      /\ UNCHANGED << stream, markpos, mContentLength, headerLen, delivered >>
  BY DEF SearchWorst, frame, InCall, Synced
<1>2. Upcoming = 1
  BY <1>1 DEF Upcoming
<1>3. /\ TypeOK /\ 1 \in DOMAIN Parts /\ Len(Parts) \in DOMAIN Parts
      /\ InLine(markpos, mContentLength)
  BY <1>1, <1>2, CallFacts
<1>4. markpos = 0
  BY <1>2, <1>3 DEF InLine, HeaderStart
<1>5. total \in Nat /\ end \in Nat /\ end = H + size /\ size \in Nat /\ size >= 4 /\ H \in Nat
  <2>1. /\ stream.total \in Nat /\ Parts[1].soi \in Nat /\ Parts[1].end \in Nat
        /\ HeaderOf(1) \in Nat
    BY <1>1, <1>2, CallFacts
  <2>2. HeaderStart(1) = 0 /\ HeaderStart(1) + HeaderOf(1) = Parts[1].soi
    BY <1>3, Geometry DEF HeaderStart
  <2>3. Size(1) = Parts[1].end - Parts[1].soi /\ Size(1) \in Nat /\ Size(1) >= 4
    BY <1>3, Geometry
  <2> QED  BY <2>1, <2>2, <2>3
<1>6. FRAME_MAX_LENGTH \in Nat /\ H + size < FRAME_MAX_LENGTH
  BY <1>1, <1>2, CallFacts
<1>7. /\ \/ /\ e \in Ends
            /\ 2 <= e /\ e <= total
            /\ \A f \in Ends : 2 <= f => e <= f
         \/ /\ e = -1
            /\ \A f \in Ends : 2 <= f => f > FRAME_MAX_LENGTH \/ f > total
      /\ end \in Ends /\ Ends \in SUBSET Nat
  <2>1. TypeOK /\ Ends \in SUBSET Nat /\ end \in Ends
    BY <1>3, PartsType DEF Ends
  <2>2. e = FirstEnd(Ends, 0, FRAME_MAX_LENGTH) /\ 0 \in Int /\ FRAME_MAX_LENGTH \in Int
    BY <1>4, <1>6
  <2> HIDE DEF e, end
  <2>3. \/ /\ e \in Ends
           /\ 0 + 2 <= e /\ e <= 0 + FRAME_MAX_LENGTH /\ e <= stream.total
           /\ \A f \in Ends : 0 + 2 <= f => e <= f
        \/ /\ e = -1
           /\ \A f \in Ends : 0 + 2 <= f => f > 0 + FRAME_MAX_LENGTH \/ f > stream.total
    <3>1. TypeOK /\ Ends \in SUBSET Nat
      BY <2>1
    <3> QED  BY <2>2, <3>1, FirstEndIs
  <2>4. /\ 0 + 2 = 2 /\ 0 + FRAME_MAX_LENGTH = FRAME_MAX_LENGTH
    BY <1>6
  <2> QED  BY <2>1, <2>3, <2>4
<1>8. \/ /\ e # -1 /\ newLength' = e - markpos
         /\ pc' = "size"
      \/ /\ e = -1 /\ markpos + FRAME_MAX_LENGTH <= stream.total
         /\ pc' = "size"
      \/ /\ e = -1 /\ markpos + FRAME_MAX_LENGTH > stream.total
         /\ pos' = stream.total /\ pc' = "call"
  BY <1>4 DEF SearchWorst, ThrowIOException
<1> HIDE DEF e, size, end, total, H
<1>9. CASE e = -1
  <2>1. end > total
    BY <1>5, <1>6, <1>7, <1>9
  <2>2. pc' = "call" /\ pos' = stream.total
    BY <1>4, <1>5, <1>6, <1>8, <1>9, <2>1 DEF total
  <2>3. Parts[1].end <= Parts[Len(Parts)].end /\ Parts[Len(Parts)].end \in Nat
    <3>1. Len(Parts) \in Nat /\ 1 <= Len(Parts)
      BY <1>3, Order
    <3> QED  BY <1>3, <3>1, Order
  <2>4. stream.total < Parts[Len(Parts)].end
    BY <1>5, <2>1, <2>3 DEF end, total
  <2>5. AllSeen
    BY <1>5, <2>3, <2>4 DEF AllSeen, total
  <2> QED  BY <1>1, <2>2, <2>5, SameStream DEF Synced, InCall
<1>10. CASE e # -1
  <2>1. PICK j \in DOMAIN Parts : e = Parts[j].end
    BY <1>7, <1>10 DEF Ends
  <2>2. e <= end
    BY <1>5, <1>7, <1>10
  <2>3. j \in Nat /\ 1 <= j /\ Parts[1].end <= Parts[j].end /\ Parts[j].end \in Nat
    BY <1>3, Order
  <2>4. e = end
    BY <1>5, <2>1, <2>2, <2>3 DEF end
  <2>5. newLength' = size + H /\ pc' = "size"
    BY <1>4, <1>5, <1>8, <1>10, <2>4
  <2> QED  BY <1>1, <1>2, <2>5, SameStream DEF Synced, InCall, RightLength, size, H
<1> QED  BY <1>9, <1>10

LEMMA SyncedSizeBuffer ==
  ASSUME Placed, Synced, SizeBuffer
  PROVE  Synced'
<1> SUFFICES ASSUME Steady
             PROVE  Synced'
  BY SameStream DEF SizeBuffer, Synced
<1>1. pc = "size" /\ markpos # -1 /\ RightLength(newLength)
  BY DEF SizeBuffer, Synced, InCall
<1>2. /\ pc' = "read" /\ mContentLength' = newLength
      /\ UNCHANGED << stream, markpos, headerLen, delivered >>
  BY <1>1 DEF SizeBuffer
<1> QED  BY <1>1, <1>2, SameStream DEF Synced, InCall

\* Each call that comes to the end of its image delivers it; only behind the last
\* image, or the first and only one, can the data end before.
LEMMA SyncedReadFrame ==
  ASSUME Placed, Synced, ReadFrame
  PROVE  Synced'
<1> SUFFICES ASSUME Steady
             PROVE  Synced'
  <2>1. stream' = stream
    BY DEF ReadFrame
  <2>2. Steady' <=> Steady
    BY <2>1 DEF Steady, Honest, HeaderStart, HeaderOf, Size, Parts
  <2> QED  BY <2>2 DEF Synced
<1> DEFINE k == Upcoming
           from == pos + headerLen
           n == mContentLength
           size == Size(k)
           end == Parts[k].end
           last == Parts[Len(Parts)].end
           total == stream.total
           H == HeaderOf(1)
<1>1. /\ pc = "read" /\ InCall /\ RightLength(n) /\ pos = markpos
      /\ UNCHANGED << stream, mContentLength >>
  BY DEF ReadFrame, frame, InCall, Synced, Placed
<1>2. TypeOK /\ k \in DOMAIN Parts /\ 1 \in DOMAIN Parts /\ Len(Parts) \in DOMAIN Parts
  BY <1>1, CallFacts
<1>3. k \in Nat /\ k >= 1 /\ k <= Len(Parts) /\ Len(delivered) = k - 1 /\ Len(Parts) \in Nat
  BY <1>1, <1>2, CallFacts, Order
<1>4. /\ total \in Nat /\ from \in Nat /\ end \in Nat /\ end = from + size
      /\ size \in Nat /\ H \in Nat /\ from = Parts[k].soi
  <2>1. /\ stream.total \in Nat /\ HeaderOf(1) \in Nat
        /\ Parts[k].soi \in Nat /\ Parts[k].end \in Nat /\ markpos + headerLen = Parts[k].soi
    BY <1>1, CallFacts
  <2>2. Size(k) = Parts[k].end - Parts[k].soi /\ Size(k) \in Nat
    BY <1>2, Geometry
  <2> QED  BY <1>1, <2>1, <2>2
<1>5. H + size < FRAME_MAX_LENGTH /\ FRAME_MAX_LENGTH \in Nat /\ HEADER_MAX_LENGTH \in Nat
  BY <1>1, CallFacts
<1>6. n = size \/ (k = 1 /\ n = size + H)
  BY <1>1 DEF RightLength
<1>11. \/ n < 0 \/ n > frameData
       \/ /\ from + n > total
          /\ pos' = stream.total /\ pc' = "call" /\ UNCHANGED delivered
       \/ /\ from + n <= total
          /\ pos' = from + n /\ pc' = "call"
          /\ delivered' = Append(delivered, [from |-> from, length |-> n])
  BY DEF ReadFrame, ThrowIOException
<1> HIDE DEF from, size, end, total, H
<1>7. n \in Nat /\ n >= size /\ n + HEADER_MAX_LENGTH <= IntMax
  <2>1. FRAME_MAX_LENGTH + HEADER_MAX_LENGTH <= IntMax /\ IntMax \in Nat
    BY StreamAssumption
  <2> QED  BY <1>4, <1>5, <1>6, <2>1
<1>8. /\ n \in 0 .. frameData /\ ~(n < 0) /\ ~(n > frameData)
  <2>1. frameData \in Int
    BY <1>2 DEF TypeOK
  <2>2. n <= frameData
    BY <1>1, <1>7 DEF Placed
  <2> QED  BY <1>7, <2>1, <2>2
<1>9. CASE from + n > total
  <2>1. pc' = "call" /\ pos' = stream.total /\ UNCHANGED delivered
    BY <1>4, <1>7, <1>8, <1>9, <1>11
  <2>2. last \in Nat /\ end <= last
    BY <1>2, <1>3, Order DEF end
  <2>3. AllSeen
    <3> SUFFICES ASSUME Len(Parts) > 1, total >= last
                 PROVE  FALSE
      BY DEF AllSeen, total
    <3>1. k = 1 /\ n = size + H
      BY <1>4, <1>6, <1>9, <2>2
    <3>2. /\ 2 \in DOMAIN Parts /\ 1 + 1 = 2
      BY <1>2, <1>3, PartsType
    <3>3. /\ HeaderStart(2) = Parts[1].end
          /\ HeaderStart(2) + HeaderOf(1) = Parts[2].soi
      <4>1. HeaderStart(1 + 1) = Parts[1].end
        BY <1>2, Geometry
      <4> QED  BY <1>2, <3>2, <4>1, Geometry
    <3>4. end + H = Parts[2].soi
      BY <3>1, <3>3 DEF end, H
    <3>5. /\ Parts[2].soi \in Nat /\ Parts[2].end \in Nat
          /\ Parts[2].soi + 4 <= Parts[2].end /\ Parts[2].end <= last
      BY <1>2, <1>3, <3>2, Order
    <3>6. total < end + H
      <4>1. from + n = end + H
        BY <1>4, <3>1
      <4> QED  BY <1>9, <4>1
    <3>7. total < Parts[2].soi
      BY <3>4, <3>6
    <3>8. Parts[2].soi < last
      BY <2>2, <3>5
    <3> QED  BY <1>4, <2>2, <3>5, <3>7, <3>8
  <2> QED  BY <1>1, <2>1, <2>3, SameStream DEF Synced, InCall
<1>10. CASE from + n <= total
  <2> DEFINE d == [from |-> from, length |-> n]
  <2>1. pc' = "call" /\ pos' = from + n /\ delivered' = Append(delivered, d)
    BY <1>4, <1>7, <1>8, <1>10, <1>11
  <2>2. d \in [from : Nat, length : Nat] /\ d.from = from /\ d.length = n
    BY <1>4, <1>7
  <2> HIDE DEF d
  <2>3. /\ delivered \in Seq([from : Nat, length : Nat])
    BY <1>2 DEF TypeOK
  <2>4. /\ Len(delivered') = k /\ DOMAIN delivered' = 1 .. k
        /\ \A j \in 1 .. Len(delivered) : delivered'[j] = delivered[j]
        /\ delivered'[k] = d
    BY <1>3, <2>1, <2>2, <2>3, AppendProperties, LenProperties
  <2>5. Parts' = Parts /\ Steady' /\ DOMAIN delivered = 1 .. (k - 1)
    BY <1>1, <1>3, <2>3 DEF Parts, Steady, Honest, HeaderStart, HeaderOf, Size
  <2>6. \A j \in DOMAIN delivered' : Holds(delivered'[j], j)
    <3> SUFFICES ASSUME NEW j \in 1 .. k
                 PROVE  Holds(delivered'[j], j)
      BY <2>4
    <3>1. CASE j = k
      <4>1. from + n >= end
        BY <1>4, <1>7
      <4> QED  BY <1>4, <2>2, <2>4, <3>1, <4>1 DEF Holds, end
    <3>2. CASE j # k
      <4>1. j \in DOMAIN delivered /\ j \in 1 .. Len(delivered)
        BY <1>3, <2>5, <3>2
      <4> QED  BY <2>4, <4>1 DEF Synced
    <3> QED  BY <3>1, <3>2
  <2>7. Upcoming' = k + 1
    BY <1>3, <2>4 DEF Upcoming
  <2>8. HeaderStart(k + 1) = end
    BY <1>2, Geometry DEF end
  <2>9. InLine(pos, mContentLength)'
    <3>1. \A j : HeaderStart(j)' = HeaderStart(j)
      BY <2>5 DEF HeaderStart
    <3>2. HeaderOf(1)' = HeaderOf(1) /\ \A j : Size(j)' = Size(j)
      BY <2>5, <3>1 DEF HeaderOf, Size
    <3>3. CASE n = size
      <4>1. pos' = HeaderStart(k + 1) /\ k + 1 # 1 /\ k + 1 - 1 = k
        BY <1>3, <1>4, <2>1, <2>8, <3>3
      <4>2. mContentLength' = Size(Upcoming' - 1)
        <5>1. Upcoming' - 1 = k
          BY <1>3, <2>7
        <5> QED  BY <1>1, <3>3, <5>1 DEF size
      <4> QED  BY <2>7, <3>1, <3>2, <4>1, <4>2 DEF InLine
    <3>4. CASE k = 1 /\ n = size + H
      <4>1. pos' = HeaderStart(2) + HeaderOf(1) /\ k + 1 = 2
        BY <1>4, <2>1, <2>8, <3>4, SMTT(30) DEF H
      <4> QED  BY <1>1, <2>7, <3>1, <3>2, <3>4, <4>1 DEF InLine, size, H
    <3> QED  BY <1>6, <3>3, <3>4
  <2>10. (\A j \in DOMAIN delivered : Holds(delivered[j], j))'
    BY <2>5, <2>6 DEF Holds
  <2>11. Len(delivered') <= Len(Parts')
    BY <1>3, <2>4, <2>5
  <2> QED  BY <2>1, <2>9, <2>10, <2>11 DEF Synced, InCall
<1> QED  BY <1>4, <1>7, <1>9, <1>10

\* Synced is inductive on the states that are Placed.
THEOREM SyncedHolds == Spec => []Synced
<1>1. ASSUME Init
      PROVE  Synced
  <2>1. delivered = << >> /\ Len(delivered) = 0 /\ DOMAIN delivered = { }
    BY <1>1 DEF Init
  <2>2. Upcoming = 1
    BY <2>1 DEF Upcoming
  <2>3. InLine(pos, mContentLength)
    BY <1>1, <2>2 DEF InLine, HeaderStart, Init
  <2>4. Len(Parts) \in Nat
    BY <1>1, PlacedInit, PartsType DEF Placed
  <2> QED  BY <1>1, <2>1, <2>3, <2>4 DEF Synced, Init, InCall
<1>2. ASSUME Placed, Synced, [Next]_vars
      PROVE  Synced'
  <2>1. CASE UNCHANGED vars
    BY <1>2, <2>1, SameStream DEF vars, Synced, InCall
  <2> QED
    BY <1>2, <2>1, SyncedFindStart, SyncedReadHeader, SyncedParseLength,
       SyncedSearchSimplified, SyncedSearchWorst, SyncedSizeBuffer, SyncedReadFrame DEF Next
<1> QED  BY <1>1, <1>2, PlacedHolds, PTL DEF Spec

\* No frame of a steady stream is lost.
THEOREM AllDeliveredHolds == Spec => []AllDelivered
<1>1. Synced => AllDelivered
  BY DEF Synced, AllDelivered, AllSeen
<1> QED  BY <1>1, SyncedHolds, PTL

-----------------------------------------------------------------------------
(* What reaches the decoder is whole images, in order                      *)

\* Where the header of an image starts.
LEMMA HeaderFacts ==
  ASSUME TypeOK, NEW k \in DOMAIN Parts
  PROVE  /\ k \in Nat /\ 1 <= k /\ k <= Len(Parts) /\ Len(Parts) \in Nat
         /\ Parts[k].soi \in Nat /\ Parts[k].end \in Nat /\ Parts[k].soi + 4 <= Parts[k].end
         /\ HeaderStart(k) \in Nat /\ HeaderStart(k) <= Parts[k].soi
         /\ HeaderStart(k + 1) = Parts[k].end
         /\ HeaderOf(k) \in Nat /\ HeaderStart(k) + HeaderOf(k) = Parts[k].soi
         /\ Size(k) \in Nat /\ Size(k) >= 4 /\ Parts[k].soi + Size(k) = Parts[k].end
         /\ \A j \in DOMAIN Parts : j < k => Parts[j].end <= HeaderStart(k)
<1>1. /\ Len(Parts) \in Nat /\ DOMAIN Parts = 1 .. Len(Parts)
      /\ k \in Nat /\ 1 <= k /\ k <= Len(Parts)
  BY PartsType
<1>2. /\ Parts[k].soi \in Nat /\ Parts[k].end \in Nat /\ Parts[k].soi + 4 <= Parts[k].end
  BY Order
<1>3. /\ HeaderStart(k) \in Nat /\ HeaderStart(k) <= Parts[k].soi
      /\ \A j \in DOMAIN Parts : j < k => Parts[j].end <= HeaderStart(k)
  <2>1. CASE k = 1
    <3>1. HeaderStart(k) = 0
      BY <2>1 DEF HeaderStart
    <3>2. \A j \in DOMAIN Parts : ~(j < k)
      BY <1>1, <2>1
    <3> QED  BY <1>2, <3>1, <3>2
  <2>2. CASE k # 1
    <3>1. k - 1 \in DOMAIN Parts /\ k - 1 < k /\ HeaderStart(k) = Parts[k - 1].end
      BY <1>1, <2>2 DEF HeaderStart
    <3>2. Parts[k - 1].end \in Nat /\ Parts[k - 1].end <= Parts[k].soi
      BY <3>1, Order
    <3>3. ASSUME NEW j \in DOMAIN Parts, j < k
          PROVE  Parts[j].end <= Parts[k - 1].end
      <4>1. j <= k - 1
        BY <1>1, <3>3
      <4> QED  BY <3>1, <4>1, Order
    <3> QED  BY <3>1, <3>2, <3>3
  <2> QED  BY <2>1, <2>2
<1>4. HeaderStart(k + 1) = Parts[k].end
  BY <1>1 DEF HeaderStart
<1>5. HeaderOf(k) \in Nat /\ HeaderStart(k) + HeaderOf(k) = Parts[k].soi
  BY <1>2, <1>3 DEF HeaderOf
<1>6. Size(k) \in Nat /\ Size(k) >= 4 /\ Parts[k].soi + Size(k) = Parts[k].end
  BY <1>2 DEF Size
<1> QED  BY <1>1, <1>2, <1>3, <1>4, <1>5, <1>6

\* Behind an image comes the header of the next, or the end.
LEMMA BehindImage ==
  ASSUME TypeOK, NEW k \in DOMAIN Parts
  PROVE  Lands(Parts[k].end)
<1>1. /\ k \in Nat /\ 1 <= k /\ k <= Len(Parts) /\ Len(Parts) \in Nat
      /\ Parts[k].end \in Nat /\ HeaderStart(k + 1) = Parts[k].end
  BY HeaderFacts
<1>2. CASE k = Len(Parts)
  BY <1>1, <1>2 DEF Lands
<1>3. CASE k # Len(Parts)
  <2>1. k + 1 \in DOMAIN Parts
    BY <1>1, <1>3, PartsType
  <2>2. HeaderStart(k + 1) <= Parts[k + 1].soi
    BY <2>1, HeaderFacts
  <2>3. InHeader(Parts[k].end, k + 1)
    BY <1>1, <2>2 DEF InHeader
  <2> QED  BY <2>1, <2>3 DEF Lands
<1> QED  BY <1>2, <1>3

\* Where headers have no lengths, what is not in a header or behind all images is
\* inside an image.
LEMMA Somewhere ==
  ASSUME TypeOK, ~AllDeclared, NEW p \in Nat
  PROVE  \/ Lands(p)
         \/ \E m \in DOMAIN Parts : Parts[m].soi < p /\ p < Parts[m].end
<1> DEFINE Ahead == { k \in DOMAIN Parts : p <= Parts[k].soi }
<1>1. /\ Len(Parts) \in Nat /\ DOMAIN Parts = 1 .. Len(Parts)
      /\ \A k \in DOMAIN Parts : Parts[k].soi \in Nat /\ Parts[k].end \in Nat
  BY PartsType
<1>2. CASE Ahead = {} /\ Len(Parts) = 0
  BY <1>1, <1>2 DEF Lands, HeaderStart
<1>3. CASE Ahead = {} /\ Len(Parts) # 0
  <2> DEFINE l == Len(Parts)
  <2>1. l \in DOMAIN Parts
    BY <1>1, <1>3
  <2>2. Parts[l].soi \in Nat /\ Parts[l].end \in Nat /\ HeaderStart(l + 1) = Parts[l].end
    BY <2>1, HeaderFacts
  <2>3. ~(p <= Parts[l].soi)
    BY <1>3, <2>1
  <2>4. Parts[l].soi < p
    BY <2>2, <2>3
  <2>5. p < Parts[l].end \/ p >= HeaderStart(l + 1)
    BY <2>2
  <2> QED  BY <2>1, <2>4, <2>5 DEF Lands
<1>4. CASE Ahead # {}
  <2>1. PICK k \in Ahead : \A j \in Ahead : k <= j
    <3>1. Ahead \in SUBSET Nat
      BY <1>1
    <3> HIDE DEF Ahead
    <3> QED  BY <1>4, <3>1, Least
  <2>2. k \in DOMAIN Parts /\ p <= Parts[k].soi
    BY <2>1
  <2>3. k \in Nat /\ 1 <= k /\ HeaderStart(k) \in Nat
    BY <2>2, HeaderFacts
  <2>4. CASE HeaderStart(k) <= p
    <3>1. InHeader(p, k)
      BY <2>2, <2>4 DEF InHeader
    <3> QED  BY <2>2, <3>1 DEF Lands
  <2>5. CASE ~(HeaderStart(k) <= p)
    <3>1. k # 1
      BY <2>5 DEF HeaderStart
    <3>2. k - 1 \in DOMAIN Parts /\ HeaderStart(k) = Parts[k - 1].end
      BY <1>1, <2>2, <2>3, <3>1 DEF HeaderStart
    <3>3. k - 1 \notin Ahead
      <4>1. ~(k <= k - 1)
        BY <2>3
      <4> QED  BY <2>1, <4>1
    <3>4. ~(p <= Parts[k - 1].soi) /\ Parts[k - 1].soi \in Nat
      BY <1>1, <3>2, <3>3
    <3>5. Parts[k - 1].soi < p /\ p < Parts[k - 1].end
      BY <2>3, <2>5, <3>2, <3>4
    <3> QED  BY <3>2, <3>5
  <2> QED  BY <2>4, <2>5
<1> QED  BY <1>2, <1>3, <1>4

\* These depend on the stream only, and Resumes on the length of the frame before too.
LEMMA StaticFacts ==
  ASSUME UNCHANGED stream
  PROVE  /\ Parts' = Parts
         /\ Even' <=> Even
         /\ AllDeclared' <=> AllDeclared
         /\ \A p : Lands(p)' <=> Lands(p)
         /\ \A p, k : InHeader(p, k)' <=> InHeader(p, k)
         /\ \A n : Sensible(n)' <=> Sensible(n)
         /\ \A n, k : Covers(n, k)' <=> Covers(n, k)
         /\ \A k : HeaderOf(k)' = HeaderOf(k)
         /\ \A d, k : Holds(d, k)' <=> Holds(d, k)
         /\ UNCHANGED mContentLength => Reach' = Reach
         /\ \A p : UNCHANGED mContentLength /\ Resumes(p) => Resumes(p)'
<1>1. /\ Parts' = Parts
      /\ \A k : HeaderStart(k)' = HeaderStart(k)
      /\ \A k : Size(k)' = Size(k)
      /\ \A p : InWindow(p)' <=> InWindow(p)
  BY DEF Parts, HeaderStart, Size, InWindow
<1>2. \A k : HeaderOf(k)' = HeaderOf(k)
  BY <1>1 DEF HeaderOf
<1>3. (AllDeclared' <=> AllDeclared) /\ (Growing' <=> Growing)
  BY <1>1, <1>2 DEF AllDeclared, Growing
<1>4. Even' <=> Even
  BY <1>1, <1>2, <1>3 DEF Even, Honest
<1>5. /\ \A p : Lands(p)' <=> Lands(p)
      /\ \A p, k : InHeader(p, k)' <=> InHeader(p, k)
  BY <1>1, <1>2, <1>3 DEF Lands, InHeader
<1>6. /\ \A n : Sensible(n)' <=> Sensible(n)
      /\ \A n, k : Covers(n, k)' <=> Covers(n, k)
      /\ \A d, k : Holds(d, k)' <=> Holds(d, k)
  BY <1>1, <1>2, <1>3, <1>5 DEF Sensible, Covers, Holds
<1>7. UNCHANGED mContentLength => Reach' = Reach
  BY DEF Reach, StartPos, EndPos, FieldHeaderLen
<1>8. \A p : UNCHANGED mContentLength /\ Resumes(p) => Resumes(p)'
  BY <1>1, <1>2, <1>3, <1>5, <1>7 DEF Resumes, LosesMark
<1> QED  BY <1>1, <1>2, <1>3, <1>4, <1>5, <1>6, <1>7, <1>8

\* A step that delivers nothing keeps what is known of the ranges delivered.
LEMMA WholeKept ==
  ASSUME Placed, Whole, UNCHANGED << stream, delivered >>
  PROVE  /\ (\A j \in DOMAIN delivered : delivered[j].from + delivered[j].length <= LastEnd)'
         /\ Even => (\A j \in DOMAIN delivered : \E k \in DOMAIN Parts : Holds(delivered[j], k))'
<1>1. LastEnd' = LastEnd /\ delivered' = delivered /\ Parts' = Parts
  BY NothingDelivered DEF Parts
<1>2. \A d, k : Holds(d, k)' <=> Holds(d, k)
  BY DEF Holds, Parts
<1> QED  BY <1>1, <1>2 DEF Whole

\* What is known of a call whose mark is valid.
LEMMA CallState ==
  ASSUME Placed, InCall, markpos # -1
  PROVE  /\ TypeOK /\ stream.total \in Nat /\ pos \in Nat /\ pos <= stream.total
         /\ markpos \in Nat /\ headerLen \in Nat /\ markpos + headerLen + 2 <= stream.total
         /\ FRAME_MAX_LENGTH \in Nat /\ mContentLength \in Int /\ newLength \in Int
         /\ pc \in { "parse", "simplified" } => pos = markpos + headerLen
         /\ pc = "read" => pos = markpos
BY PartsType, StreamAssumption DEF Placed, TypeOK

LEMMA WholeFindStart ==
  ASSUME Placed, Whole, FindStart
  PROVE  Whole'
<1>1. /\ pc = "call" /\ markpos' = pos /\ newLength' = -1
      /\ UNCHANGED << stream, pos, mContentLength, delivered >>
  BY DEF FindStart, frame
<1> SUFFICES ASSUME Even
             PROVE  Whole'
  BY <1>1, WholeKept, StaticFacts DEF Whole
<1> DEFINE e == FirstEnd(Starts, pos, FRAME_MAX_LENGTH)
<1>2. /\ TypeOK /\ stream.total \in Nat /\ pos \in Nat /\ FRAME_MAX_LENGTH \in Nat
      /\ Starts \in SUBSET Nat /\ Resumes(pos) /\ Sensible(mContentLength)
  BY <1>1, PartsType, StreamAssumption DEF Placed, TypeOK, Whole
<1>3. e # -1 => /\ e \in Starts /\ pos + 2 <= e /\ e <= stream.total
                /\ \A f \in Starts : pos + 2 <= f => e <= f
  <2>1. e = FirstEnd(Starts, pos, FRAME_MAX_LENGTH) /\ pos \in Int /\ FRAME_MAX_LENGTH \in Int
    BY <1>2
  <2> HIDE DEF e
  <2>2. TypeOK /\ Starts \in SUBSET Nat
    BY <1>2
  <2>3. \/ /\ e \in Starts
           /\ pos + 2 <= e /\ e <= pos + FRAME_MAX_LENGTH /\ e <= stream.total
           /\ \A f \in Starts : pos + 2 <= f => e <= f
        \/ e = -1
    BY <2>1, <2>2, FirstEndIs
  <2> QED  BY <2>3
<1>4. \/ e # -1 /\ headerLen' = e - 2 - pos /\ pc' = "header"
      \/ e = -1 /\ pc' \in { "ended", "threw" }
  BY DEF FindStart
<1> HIDE DEF e
<1>5. CASE e = -1
  <2>1. pc' \in { "ended", "threw" }
    BY <1>4, <1>5
  <2> QED  BY <1>1, <1>2, <2>1, WholeKept, StaticFacts DEF Whole, InCall
<1>6. CASE e # -1
  <2>1. PICK k \in DOMAIN Parts : e = Parts[k].soi + 2
    BY <1>3, <1>6 DEF Starts
  <2>2. /\ k \in Nat /\ Parts[k].soi \in Nat /\ HeaderStart(k) \in Nat
        /\ HeaderStart(k) + HeaderOf(k) = Parts[k].soi /\ HeaderOf(k) \in Nat
    BY <1>2, HeaderFacts
  <2>3. pc' = "header" /\ headerLen' = Parts[k].soi - pos /\ pos <= Parts[k].soi
        /\ Parts[k].soi + 2 <= stream.total
    BY <1>2, <1>3, <1>4, <1>6, <2>1, <2>2
  <2>4. \A j \in DOMAIN Parts : j < k => Parts[j].soi < pos
    <3> SUFFICES ASSUME NEW j \in DOMAIN Parts, j < k, ~(Parts[j].soi < pos)
                 PROVE  FALSE
      OBVIOUS
    <3>1. /\ Parts[j].soi \in Nat /\ Parts[j].soi < Parts[k].soi
      BY <1>2, Order, SMTT(30)
    <3>2. Parts[j].soi + 2 \in Starts /\ pos + 2 <= Parts[j].soi + 2
      BY <1>2, <3>1 DEF Starts
    <3>3. e <= Parts[j].soi + 2
      BY <1>3, <1>6, <3>2
    <3> QED  BY <2>1, <2>2, <3>1, <3>3
  <2>5. \/ InHeader(pos, k)
        \/ ~AllDeclared /\ headerLen' > HeaderOf(k) /\ HeaderOf(k) + Reach >= FRAME_MAX_LENGTH
    <3>1. CASE pos = stream.total
      BY <1>2, <2>2, <2>3, <3>1
    <3>2. ASSUME NEW j \in DOMAIN Parts, InHeader(pos, j)
          PROVE  InHeader(pos, k)
      <4>1. /\ j \in Nat /\ HeaderStart(j) \in Nat /\ HeaderStart(j) <= Parts[j].soi
            /\ Parts[j].soi \in Nat
        BY <1>2, HeaderFacts
      <4>2. HeaderStart(j) <= pos /\ pos <= Parts[j].soi
        BY <1>2, <3>2, <4>1 DEF InHeader
      <4>3. ~(j < k)
        BY <1>2, <2>4, <4>1, <4>2
      <4>4. ~(k < j)
        <5>1. k < j => Parts[k].end <= HeaderStart(j) /\ Parts[k].soi + 4 <= Parts[k].end
                       /\ Parts[k].end \in Nat
          BY <1>2, HeaderFacts
        <5> QED  BY <1>2, <2>2, <2>3, <4>1, <4>2, <5>1
      <4>5. j = k
        BY <2>2, <4>1, <4>3, <4>4
      <4> QED  BY <3>2, <4>5
    <3>3. CASE pos >= HeaderStart(Len(Parts) + 1)
      <4> DEFINE l == Len(Parts)
      <4>1. l \in DOMAIN Parts /\ k <= l
        BY <1>2, <2>1, PartsType
      <4>2. /\ HeaderStart(l + 1) = Parts[l].end /\ Parts[l].end \in Nat
            /\ Parts[k].end <= Parts[l].end /\ Parts[k].soi + 4 <= Parts[k].end
            /\ Parts[k].end \in Nat
        BY <1>2, <4>1, HeaderFacts, Order
      <4>3. Parts[l].end <= pos
        BY <1>2, <3>3, <4>2
      <4>4. pos \in Nat /\ Parts[k].soi \in Nat /\ pos <= Parts[k].soi
        BY <1>2, <2>2, <2>3
      <4> HIDE DEF l
      <4> QED  BY <4>2, <4>3, <4>4
    <3>4. CASE LosesMark(pos)
      <4>1. PICK m \in DOMAIN Parts :
              /\ Parts[m].soi < pos /\ pos < Parts[m].end
              /\ \A j \in DOMAIN Parts : j > m => HeaderOf(j) + Reach >= FRAME_MAX_LENGTH
        BY <3>4 DEF LosesMark
      <4>2. m \in Nat /\ Parts[m].soi \in Nat /\ Parts[m].end \in Nat
        BY <1>2, HeaderFacts
      <4>3. k > m /\ Parts[m].end <= HeaderStart(k)
        <5>1. ~(k = m)
          BY <1>2, <2>2, <2>3, <4>1
        <5>2. ~(k < m)
          <6>1. k < m => Parts[k].soi < Parts[m].soi
            BY <1>2, Order
          <6> QED  BY <1>2, <2>2, <2>3, <4>1, <4>2, <6>1
        <5>3. k > m
          BY <2>2, <4>2, <5>1, <5>2
        <5> QED  BY <1>2, <5>3, HeaderFacts
      <4>4. HeaderOf(k) + Reach >= FRAME_MAX_LENGTH
        BY <4>1, <4>3
      <4>5. headerLen' > HeaderOf(k)
        BY <1>2, <2>2, <2>3, <4>1, <4>2, <4>3
      <4> QED  BY <3>4, <4>4, <4>5 DEF LosesMark
    <3> QED  BY <1>2, <3>1, <3>2, <3>3, <3>4 DEF Resumes, Lands
  <2>6. Parts[k].soi = markpos' + headerLen'
    BY <1>1, <1>2, <2>2, <2>3
  <2>7. CallFor(k)'
    <3>1. /\ InHeader(markpos, k)' <=> InHeader(pos, k)
          /\ HeaderOf(k)' = HeaderOf(k) /\ Reach' = Reach /\ Parts' = Parts
          /\ AllDeclared' <=> AllDeclared
      <4>1. InHeader(markpos, k)' <=> InHeader(pos, k)
        BY <1>1 DEF InHeader, AllDeclared, HeaderOf, HeaderStart, Parts
      <4> QED  BY <1>1, <4>1, StaticFacts
    <3> QED  BY <2>3, <2>5, <2>6, <3>1 DEF CallFor
  <2> QED  BY <1>1, <1>2, <2>1, <2>3, <2>7, WholeKept, StaticFacts DEF Whole, InCall
<1> QED  BY <1>5, <1>6

LEMMA WholeReadHeader ==
  ASSUME Placed, Whole, ReadHeader
  PROVE  Whole'
<1>1. /\ pc = "header" /\ pc' = "parse" /\ InCall /\ InCall'
      /\ UNCHANGED << stream, markpos, mContentLength, headerLen, newLength, delivered >>
  BY DEF ReadHeader, InCall
<1>2. Parts' = Parts /\ \A k : CallFor(k) => CallFor(k)'
  BY <1>1 DEF CallFor, InHeader, AllDeclared, HeaderOf, HeaderStart, Parts, Reach, StartPos,
     EndPos, FieldHeaderLen
<1> QED  BY <1>1, <1>2, WholeKept, StaticFacts DEF Whole

LEMMA WholeParseLength ==
  ASSUME Placed, Whole, ParseLength
  PROVE  Whole'
<1>1. /\ pc = "parse" /\ InCall /\ markpos # -1 /\ pos = markpos + headerLen
      /\ UNCHANGED << stream, pos, markpos, mContentLength, headerLen, delivered >>
  BY DEF ParseLength, frame, InCall, Placed
<1> SUFFICES ASSUME Even
             PROVE  Whole'
  BY <1>1, WholeKept, StaticFacts DEF Whole
<1>2. PICK k \in DOMAIN Parts : \E n \in Found(k) :
              /\ Parts[k].soi = pos
              /\ IF n = Undeclared
                   THEN pc' = "simplified" /\ UNCHANGED newLength
                   ELSE pc' = "size" /\ newLength' = n
  BY DEF ParseLength
<1>3. PICK j \in DOMAIN Parts : CallFor(j)
  BY <1>1 DEF Whole
<1>4. TypeOK /\ Undeclared \notin Int
  BY StreamAssumption DEF Placed
<1>5. j = k
  <2>1. Parts[j].soi = Parts[k].soi
    BY <1>1, <1>2, <1>3 DEF CallFor
  <2>2. /\ j \in Nat /\ k \in Nat /\ Parts[j].soi \in Nat
        /\ j < k => Parts[j].soi < Parts[k].soi
        /\ k < j => Parts[k].soi < Parts[j].soi
    <3>1. /\ j \in Nat /\ k \in Nat /\ Parts[j].soi \in Nat /\ Parts[k].soi \in Nat
          /\ Parts[j].end \in Nat /\ Parts[j].soi + 4 <= Parts[j].end
          /\ j < k => Parts[j].end <= Parts[k].soi
      BY <1>4, Order
    <3>2. /\ Parts[k].end \in Nat /\ Parts[k].soi + 4 <= Parts[k].end
          /\ k < j => Parts[k].end <= Parts[j].soi
      BY <1>4, Order
    <3> QED  BY <3>1, <3>2
  <2> QED  BY <2>1, <2>2
<1>6. Parts[k].length \in { Undeclared, Size(k) }
  BY DEF Even, Honest
<1>7. /\ Size(k) \in Nat /\ Size(k) >= 4 /\ Parts[k].soi + Size(k) = Parts[k].end
      /\ HeaderStart(k) \in Nat /\ HeaderOf(k) \in Nat
      /\ HeaderStart(k) + HeaderOf(k) = Parts[k].soi
  BY <1>4, HeaderFacts
<1>8. AllDeclared => Found(k) = { Size(k) }
  <2> SUFFICES ASSUME AllDeclared
               PROVE  Found(k) = { Size(k) }
    OBVIOUS
  <2>1. markpos = HeaderStart(k)
    BY <1>1, <1>3, <1>5 DEF CallFor, InHeader
  <2>2. headerLen # 0
    <3>1. HeaderOf(k) > 0
      BY DEF AllDeclared
    <3>2. Parts[k].soi = markpos + headerLen /\ headerLen \in Nat
      BY <1>1, <1>3, <1>5, CallState DEF CallFor
    <3> QED  BY <1>7, <2>1, <3>1, <3>2
  <2>3. Parts[k].length = Size(k)
    BY <1>6 DEF AllDeclared
  <2> QED  BY <2>1, <2>2, <2>3 DEF Found
<1>9. \A n \in Found(k) : n = Undeclared \/ n = Size(k)
  BY <1>6 DEF Found
<1>10. \/ pc' = "simplified" /\ UNCHANGED newLength /\ ~AllDeclared
       \/ pc' = "size" /\ newLength' = Size(k)
  <2>1. Size(k) # Undeclared
    BY <1>4, <1>7
  <2> QED  BY <1>2, <1>8, <1>9, <2>1
<1>11. CASE pc' = "simplified" /\ ~AllDeclared
  <2>1. CallFor(j)'
    BY <1>1, <1>3, <1>11 DEF CallFor, InHeader, AllDeclared, HeaderOf, HeaderStart, Parts, Reach,
       StartPos, EndPos, FieldHeaderLen
  <2>2. Parts' = Parts
    BY <1>1, StaticFacts
  <2> QED  BY <1>1, <1>11, <2>1, <2>2, WholeKept, StaticFacts DEF Whole, InCall
<1>12. CASE pc' = "size" /\ newLength' = Size(k)
  <2>1. Sensible(Size(k))
    BY <1>7 DEF Sensible, Even, Growing
  <2>2. Covers(Size(k), k)
    BY <1>4, <1>7, BehindImage DEF Covers
  <2>3. Parts' = Parts /\ Covers(newLength, k)' /\ Sensible(newLength)'
    BY <1>1, <1>12, <2>1, <2>2 DEF Covers, Sensible, Lands, InHeader, AllDeclared, InWindow,
       HeaderOf, HeaderStart, Size, Parts
  <2>4. CallFor(k)'
    BY <1>1, <1>3, <1>5, <1>12, <2>3 DEF CallFor
  <2> QED  BY <1>1, <1>12, <2>3, <2>4, WholeKept, StaticFacts DEF Whole, InCall
<1> QED  BY <1>10, <1>11, <1>12

LEMMA WholeSearchWorst ==
  ASSUME Placed, Whole, SearchWorst
  PROVE  Whole'
<1>1. /\ pc = "worst" /\ InCall
      /\ UNCHANGED << stream, markpos, mContentLength, headerLen, delivered >>
  BY DEF SearchWorst, frame, InCall
<1> SUFFICES ASSUME Even
             PROVE  Whole'
  BY <1>1, WholeKept, StaticFacts DEF Whole
<1> DEFINE e == FirstEnd(Ends, markpos, FRAME_MAX_LENGTH)
<1>2. TypeOK /\ ~AllDeclared /\ Sensible(mContentLength)
  BY <1>1 DEF Whole, Placed
<1>3. CASE markpos = -1
  <2>1. Resumes(pos) /\ pos' = pos /\ pc' = "call"
    BY <1>1, <1>3 DEF Whole, SearchWorst, ThrowIOException
  <2>2. Resumes(pos)'
    BY <1>1, <2>1 DEF Resumes, LosesMark, Lands, InHeader, AllDeclared, HeaderOf, HeaderStart,
       Parts, Reach, StartPos, EndPos, FieldHeaderLen
  <2> QED  BY <1>1, <1>2, <2>1, <2>2, WholeKept, StaticFacts DEF Whole, InCall
<1>4. CASE markpos # -1
  <2>1. /\ markpos \in Nat /\ headerLen \in Nat /\ FRAME_MAX_LENGTH \in Nat
        /\ stream.total \in Nat
    BY <1>1, <1>4, CallState
  <2>2. PICK k \in DOMAIN Parts : Parts[k].soi = markpos + headerLen /\ InHeader(markpos, k)
    BY <1>1, <1>4 DEF Whole, CallFor
  <2>3. /\ k \in Nat /\ k <= Len(Parts) /\ Len(Parts) \in Nat
        /\ Parts[k].soi \in Nat /\ Parts[k].end \in Nat /\ Parts[k].soi + 4 <= Parts[k].end
        /\ HeaderStart(k) \in Nat /\ HeaderStart(k) + HeaderOf(k) = Parts[k].soi
        /\ HeaderOf(k) \in Nat /\ HeaderStart(k + 1) = Parts[k].end
        /\ Size(k) \in Nat /\ Size(k) >= 4 /\ Parts[k].soi + Size(k) = Parts[k].end
    BY <1>2, HeaderFacts
  <2>4. headerLen <= HeaderOf(k) /\ HeaderStart(k) <= markpos
    BY <1>2, <2>1, <2>2, <2>3 DEF InHeader
  <2>5. e # -1 => /\ e \in Ends /\ markpos + 2 <= e /\ e <= stream.total
                  /\ \A f \in Ends : markpos + 2 <= f => e <= f
    <3>1. e = FirstEnd(Ends, markpos, FRAME_MAX_LENGTH) /\ markpos \in Int /\ FRAME_MAX_LENGTH \in Int
      BY <2>1
    <3>2. TypeOK /\ Ends \in SUBSET Nat
      BY <1>2, PartsType
    <3> HIDE DEF e
    <3>3. \/ /\ e \in Ends
             /\ markpos + 2 <= e /\ e <= markpos + FRAME_MAX_LENGTH /\ e <= stream.total
             /\ \A f \in Ends : markpos + 2 <= f => e <= f
          \/ e = -1
      BY <3>1, <3>2, FirstEndIs
    <3> QED  BY <3>3
  <2>6. \/ e # -1 /\ newLength' = e - markpos /\ pc' = "size"
        \/ e = -1 /\ newLength' = -1 /\ pc' = "size"
        \/ pos' = stream.total /\ newLength' = -1 /\ pc' = "call"
    BY <1>4 DEF SearchWorst, ThrowIOException
  <2> HIDE DEF e
  <2>7. CASE pos' = stream.total /\ pc' = "call"
    <3>1. Resumes(pos)'
      BY <1>1, <2>7 DEF Resumes
    <3> QED  BY <1>1, <1>2, <2>7, <3>1, WholeKept, StaticFacts DEF Whole, InCall
  <2>8. ASSUME pc' = "size", Sensible(newLength'), Covers(newLength', k)
        PROVE  Whole'
    <3>1. Parts' = Parts /\ Covers(newLength, k)' /\ Sensible(newLength)'
      BY <1>1, <2>8 DEF Covers, Sensible, Lands, InHeader, AllDeclared, InWindow,
         HeaderOf, HeaderStart, Size, Parts
    <3>2. CallFor(k)'
      BY <1>1, <2>2, <2>8, <3>1 DEF CallFor
    <3> QED  BY <1>1, <1>2, <1>4, <2>8, <3>1, <3>2, WholeKept, StaticFacts DEF Whole, InCall
  <2>9. CASE newLength' = -1 /\ pc' = "size"
    BY <2>8, <2>9 DEF Sensible, Covers
  <2>10. CASE e # -1 /\ newLength' = e - markpos /\ pc' = "size"
    <3>1. PICK m \in DOMAIN Parts : e = Parts[m].end
      BY <2>5, <2>10 DEF Ends
    <3>2. e <= Parts[k].end
      <4>1. Parts[k].end \in Ends /\ markpos + 2 <= Parts[k].end
        BY <2>1, <2>2, <2>3, SMTT(30) DEF Ends
      <4> QED  BY <2>5, <2>10, <4>1
    <3>11. /\ markpos \in Nat /\ HeaderStart(k) \in Nat /\ HeaderStart(k) <= markpos
           /\ markpos + 2 <= e
      BY <2>1, <2>3, <2>4, <2>5, <2>10
    <3>3. ~(m < k)
      <4>1. m < k => Parts[m].end <= HeaderStart(k)
        BY <1>2, HeaderFacts
      <4>2. Parts[m].end \in Nat
        BY <1>2, HeaderFacts
      <4> QED  BY <3>1, <3>11, <4>1, <4>2
    <3>4. ~(k < m)
      <4>1. k < m => Parts[k].end <= Parts[m].soi
        BY <1>2, Order
      <4>2. Parts[m].soi \in Nat /\ Parts[m].soi + 4 <= Parts[m].end /\ Parts[m].end \in Nat
        BY <1>2, Order
      <4>3. Parts[k].end \in Nat
        BY <2>3
      <4> QED  BY <3>1, <3>2, <4>1, <4>2, <4>3
    <3>12. /\ headerLen \in Nat /\ Size(k) \in Nat /\ Size(k) >= 4 /\ Parts[k].soi \in Nat
           /\ Parts[k].soi + Size(k) = Parts[k].end
      BY <2>1, <2>3
    <3>5. m = k /\ e = Parts[k].end
      <4>1. m \in Nat
        BY <1>2, Order
      <4> QED  BY <2>3, <3>1, <3>3, <3>4, <4>1
    <3>6. newLength' = Size(k) + headerLen
      BY <2>1, <2>2, <2>3, <2>10, <3>5, SMTT(30)
    <3>7. Growing
      BY <1>2 DEF Even
    <3>8. Sensible(newLength')
      <4>1. 3 * stream.total <= IntMax /\ IntMax \in Nat
        BY <3>7, StreamAssumption DEF Growing, InWindow
      <4>2. newLength' \in Nat /\ newLength' >= 4 /\ newLength' <= stream.total
        <5>1. e <= stream.total /\ newLength' = e - markpos /\ e \in Nat
          BY <2>3, <2>5, <2>10, <3>5
        <5>2. newLength' \in Nat /\ newLength' >= 4
          BY <3>6, <3>12
        <5> QED  BY <2>1, <3>11, <5>1, <5>2
      <4>3. 3 * newLength' <= IntMax
        <5> DEFINE n == newLength'
                   total == stream.total
        <5>1. n \in Nat /\ n <= total /\ total \in Nat /\ 3 * total <= IntMax /\ IntMax \in Nat
          BY <2>1, <4>1, <4>2
        <5> HIDE DEF n, total
        <5>2. 3 * n <= IntMax
          BY <5>1
        <5> QED  BY <5>2 DEF n
      <4> QED  BY <4>2, <4>3 DEF Sensible, InWindow
    <3>9. Lands(Parts[k].soi + newLength')
      <4> DEFINE p == Parts[k].end + headerLen
      <4>1. Parts[k].soi + newLength' = p /\ p \in Nat
        BY <3>6, <3>12
      <4>2. CASE k = Len(Parts)
        <5>1. p >= HeaderStart(Len(Parts) + 1)
          BY <2>1, <2>3, <4>2
        <5> QED  BY <4>1, <5>1 DEF Lands
      <4>3. CASE k # Len(Parts)
        <5> DEFINE j == k + 1
        <5>1. j \in DOMAIN Parts /\ k < j
          BY <1>2, <2>3, <4>3, PartsType, SMTT(30)
        <5>2. HeaderOf(k) <= HeaderOf(j)
          BY <3>7, <5>1 DEF Growing
        <5>3. HeaderOf(j) \in Nat /\ HeaderStart(j) + HeaderOf(j) = Parts[j].soi
          BY <1>2, <5>1, HeaderFacts
        <5>4. HeaderStart(j) = Parts[k].end
          BY <2>3
        <5>7. HeaderOf(k) \in Nat /\ headerLen <= HeaderOf(k) /\ Parts[k].end \in Nat
          BY <2>3, <2>4
        <5> HIDE DEF j
        <5>5. HeaderStart(j) <= p /\ p <= Parts[j].soi
          BY <3>12, <5>2, <5>3, <5>4, <5>7
        <5>6. InHeader(p, j)
          BY <1>2, <5>5 DEF InHeader
        <5> QED  BY <4>1, <5>1, <5>6 DEF Lands
      <4> QED  BY <4>2, <4>3
    <3>10. Covers(newLength', k)
      <4>1. newLength' >= Size(k)
        BY <2>1, <2>3, <3>6
      <4> QED  BY <3>9, <4>1 DEF Covers
    <3> QED  BY <2>8, <2>10, <3>8, <3>10
  <2> QED  BY <2>6, <2>7, <2>9, <2>10
<1> QED  BY <1>3, <1>4

LEMMA WholeSizeBuffer ==
  ASSUME Placed, Whole, SizeBuffer
  PROVE  Whole'
<1>1. /\ pc = "size" /\ InCall /\ mContentLength' = newLength
      /\ UNCHANGED << stream, markpos, headerLen, delivered >>
  BY DEF SizeBuffer, InCall
<1> SUFFICES ASSUME Even
             PROVE  Whole'
  BY <1>1, WholeKept, StaticFacts DEF Whole
<1>2. Sensible(newLength) /\ Sensible(mContentLength)'
  BY <1>1, StaticFacts DEF Whole, Sensible, AllDeclared, HeaderOf, HeaderStart, Parts
<1>3. CASE markpos = -1
  <2>1. Lands(pos) /\ pos' = pos /\ pc' = "call"
    BY <1>1, <1>3 DEF Whole, SizeBuffer, ThrowIOException
  <2>2. Resumes(pos)'
    BY <1>1, <2>1 DEF Resumes, Lands, InHeader, AllDeclared, HeaderOf, HeaderStart, Parts
  <2> QED  BY <1>1, <1>2, <2>1, <2>2, WholeKept, StaticFacts DEF Whole, InCall
<1>4. CASE markpos # -1
  <2>1. PICK k \in DOMAIN Parts : Parts[k].soi = markpos + headerLen /\ Covers(newLength, k)
    BY <1>1, <1>4 DEF Whole, CallFor
  <2>2. pc' = "read" /\ Parts' = Parts /\ Covers(mContentLength, k)'
    BY <1>1, <1>4, <2>1 DEF SizeBuffer, Covers, Lands, InHeader, AllDeclared, HeaderOf,
       HeaderStart, Size, Parts
  <2>3. CallFor(k)'
    BY <1>1, <2>1, <2>2 DEF CallFor
  <2> QED  BY <1>1, <1>2, <1>4, <2>2, <2>3, WholeKept, StaticFacts DEF Whole, InCall
<1> QED  BY <1>3, <1>4

\* The window of a search, where no length overflows: it begins and ends behind what
\* the search skips, and is empty only when no length is known.
LEMMA WindowOf ==
  ASSUME mContentLength \in Int,
         mContentLength = -1 \/ (mContentLength >= 4 /\ InWindow(mContentLength))
  PROVE  /\ StartPos \in Int /\ EndPos \in Int /\ FieldHeaderLen = -1
         /\ mContentLength = -1 => StartPos = 0 /\ EndPos <= 0
         /\ mContentLength # -1 => StartPos >= 2 /\ EndPos > StartPos
<1>1. CASE mContentLength = -1
  <2>1. Half(-1) = 0 /\ Half(-3) = -1
    BY DEF Half
  <2>2. Wrap(-3) = -3
    BY Arithmetic, StreamAssumption
  <2>3. 3 * mContentLength = -3
    BY <1>1
  <2> QED  BY <1>1, <2>1, <2>2, <2>3 DEF StartPos, EndPos, FieldHeaderLen
<1>2. CASE mContentLength # -1
  <2> DEFINE n == mContentLength
             w == 3 * n
  <2>1. n \in Nat /\ n >= 4 /\ w \in Nat /\ w <= IntMax /\ IntMax \in Nat
    BY <1>2, StreamAssumption DEF InWindow
  <2>2. Wrap(w) = w
    <3> HIDE DEF w, n
    <3> QED  BY <2>1, Arithmetic
  <2>3. Half(n) = n \div 2 /\ Half(w) = w \div 2
    BY <2>1 DEF Half
  <2>4. n \div 2 >= 2 /\ w \div 2 > n \div 2 /\ n \div 2 \in Int /\ w \div 2 \in Int
    <3> HIDE DEF n
    <3> QED  BY <2>1
  <2> QED  BY <1>2, <2>2, <2>3, <2>4 DEF StartPos, EndPos, FieldHeaderLen
<1> QED  BY <1>1, <1>2

LEMMA WholeSearchSimplified ==
  ASSUME Placed, Whole, SearchSimplified
  PROVE  Whole'
<1>1. /\ pc = "simplified" /\ InCall /\ markpos # -1
      /\ UNCHANGED << stream, mContentLength, headerLen, delivered >>
  BY DEF SearchSimplified, frame, InCall, Placed
<1> SUFFICES ASSUME Even
             PROVE  Whole'
  BY <1>1, WholeKept, StaticFacts DEF Whole
<1> DEFINE skip  == FieldHeaderLen + StartPos
           ahead == IF skip > 0 THEN skip ELSE 0
           from  == SkipTo(pos + ahead)
           n     == IF EndPos > StartPos THEN EndPos - StartPos ELSE 0
           e     == FirstEnd(Ends, from, n)
           total == stream.total
<1>2. TypeOK /\ ~AllDeclared /\ Sensible(mContentLength) /\ Growing
  BY <1>1 DEF Whole, Placed, Even
<1>3. /\ total \in Nat /\ pos \in Nat /\ pos <= total /\ pos = markpos + headerLen
      /\ markpos \in Nat /\ headerLen \in Nat /\ FRAME_MAX_LENGTH \in Nat
  BY <1>1, CallState
<1>4. PICK k \in DOMAIN Parts : CallFor(k)
  BY <1>1 DEF Whole
<1>5. /\ k \in Nat /\ Parts[k].soi = pos /\ Parts[k].end \in Nat
      /\ HeaderStart(k) \in Nat /\ HeaderStart(k) + HeaderOf(k) = pos /\ HeaderOf(k) \in Nat
      /\ Size(k) \in Nat /\ Size(k) >= 4 /\ pos + Size(k) = Parts[k].end
  <2>1. Parts[k].soi = pos
    BY <1>3, <1>4 DEF CallFor
  <2> QED  BY <1>2, <2>1, HeaderFacts
<1>6. \/ InHeader(markpos, k) /\ headerLen <= HeaderOf(k)
      \/ headerLen > HeaderOf(k) /\ HeaderOf(k) + Reach >= FRAME_MAX_LENGTH
  <2>1. InHeader(markpos, k) => headerLen <= HeaderOf(k)
    <3>1. InHeader(markpos, k) => HeaderStart(k) <= markpos
      BY <1>2 DEF InHeader
    <3> QED  BY <1>3, <1>5, <3>1
  <2> QED  BY <1>1, <1>4, <2>1 DEF CallFor
<1>7. /\ skip \in Int /\ n \in Nat /\ ahead \in Nat
      /\ n = 0 => ahead = 0
      /\ n # 0 => skip = ahead
      /\ Reach = ahead + n
  <2>1. /\ StartPos \in Int /\ EndPos \in Int /\ FieldHeaderLen = -1
        /\ mContentLength = -1 => StartPos = 0 /\ EndPos <= 0
        /\ mContentLength # -1 => StartPos >= 2 /\ EndPos > StartPos
    <3>1. mContentLength \in Int
      BY <1>1, CallState
    <3> QED  BY <1>2, <3>1, WindowOf DEF Sensible
  <2>2. Reach = ahead + n
    BY DEF Reach
  <2> QED  BY <2>1, <2>2
<1>8. /\ from \in Nat /\ pos <= from /\ from <= total
      /\ from = pos + ahead \/ from = total
      /\ from <= pos + ahead
  <2> HIDE DEF ahead
  <2> QED  BY <1>3, <1>7 DEF SkipTo
<1>9. \/ e \in Ends /\ from + 2 <= e /\ e <= from + n /\ e <= stream.total
      \/ e = -1
  <2>1. TypeOK /\ Ends \in SUBSET Nat
    BY <1>2, PartsType
  <2>2. from \in Int /\ n \in Int /\ e = FirstEnd(Ends, from, n)
    BY <1>7, <1>8
  <2> HIDE DEF from, n, e
  <2>3. \/ /\ e \in Ends
           /\ from + 2 <= e /\ e <= from + n /\ e <= stream.total
           /\ \A f \in Ends : from + 2 <= f => e <= f
        \/ e = -1
    BY <2>1, <2>2, FirstEndIs
  <2> QED  BY <2>3
<1>10. \/ /\ e # -1
          /\ pos' = e /\ markpos' = MarkAfter(e)
          /\ newLength' = skip + (e - from)
          /\ pc' = "size"
       \/ /\ e = -1 /\ from + n <= total
          /\ pos' = from + n /\ markpos' = MarkAfter(from + n)
          /\ newLength' = -1
          /\ pc' = "worst"
       \/ /\ pos' = total
          /\ newLength' = -1 /\ pc' = "call"
  BY DEF SearchSimplified, ThrowIOException
<1> HIDE DEF skip, ahead, from, n, e, total
<1>11. CASE pos' = total /\ newLength' = -1 /\ pc' = "call"
  <2>1. Resumes(pos)'
    BY <1>1, <1>11 DEF Resumes, total
  <2> QED  BY <1>1, <1>2, <1>11, <2>1, WholeKept, StaticFacts DEF Whole, InCall
\* The end of an image is met: this one or a later one.
<1>12. CASE e # -1 /\ pos' = e /\ markpos' = MarkAfter(e)
            /\ newLength' = skip + (e - from) /\ pc' = "size"
  <2>1. PICK m \in DOMAIN Parts : e = Parts[m].end
    BY <1>9, <1>12 DEF Ends
  <2>2. from + 2 <= e /\ e <= from + n /\ e <= total /\ e \in Nat
    <3>1. Parts[m].end \in Nat
      BY <1>2, HeaderFacts
    <3> QED  BY <1>9, <1>12, <2>1, <3>1 DEF total
  <2>3. newLength' = e - pos
    <3>1. n # 0 /\ from # total
      BY <1>3, <1>7, <1>8, <2>2
    <3>2. skip = ahead /\ from = pos + ahead
      BY <1>7, <1>8, <3>1
    <3> QED  BY <1>3, <1>7, <1>12, <2>2, <3>2
  <2>4. Parts[k].end <= e
    <3>1. /\ m \in Nat /\ k \in Nat
          /\ m < k => Parts[m].end <= Parts[k].soi
          /\ k <= m => Parts[k].end <= Parts[m].end
      <4>1. m < k => Parts[m].end <= Parts[k].soi
        BY <1>2, Order
      <4>2. k <= m => Parts[k].end <= Parts[m].end
        BY <1>2, Order
      <4>3. m \in Nat
        BY <1>2, Order
      <4> QED  BY <1>5, <4>1, <4>2, <4>3
    <3>2. ~(m < k)
      BY <1>3, <1>5, <1>8, <2>1, <2>2, <3>1
    <3> QED  BY <2>1, <3>1, <3>2
  <2>5. newLength' \in Nat /\ newLength' >= Size(k) /\ pos + newLength' = e
    <3>1. pos + Size(k) <= e
      BY <1>5, <2>4
    <3>2. Size(k) \in Nat /\ pos \in Nat
      BY <1>3, <1>5
    <3> QED  BY <2>2, <2>3, <3>1, <3>2
  <2>6. Lands(e)
    BY <1>2, <2>1, BehindImage
  <2>7. Covers(newLength', k)
    <3>1. Parts[k].soi + newLength' = e
      BY <1>5, <2>5
    <3> QED  BY <2>5, <2>6, <3>1 DEF Covers
  <2>8. Sensible(newLength')
    <3>1. newLength' >= 4
      BY <1>5, <2>5
    <3>2. newLength' <= total
      <4>1. pos \in Nat /\ total \in Nat /\ e <= total
        BY <1>3, <2>2
      <4> QED  BY <2>5, <4>1
    <3>3. 3 * total <= IntMax /\ IntMax \in Nat
      BY <1>2, StreamAssumption DEF Growing, InWindow, total
    <3>4. 3 * newLength' <= IntMax
      <4> DEFINE l == newLength'
      <4>1. l \in Nat /\ l <= total
        BY <2>5, <3>2
      <4> HIDE DEF l
      <4>2. 3 * l <= IntMax
        BY <1>3, <3>3, <4>1
      <4> QED  BY <4>2 DEF l
    <3> QED  BY <3>1, <3>4 DEF Sensible, InWindow
  <2>9. /\ Parts' = Parts /\ Covers(newLength, k)' /\ Sensible(newLength)' /\ Lands(pos)'
    BY <1>1, <1>12, <2>6, <2>7, <2>8 DEF Covers, Sensible, Lands, InHeader, AllDeclared,
       InWindow, HeaderOf, HeaderStart, Size, Parts
  <2>10. markpos' # -1 => CallFor(k)'
    <3>1. markpos' # -1 => markpos' = markpos
      BY <1>12 DEF MarkAfter
    <3>2. Parts[k].soi = markpos + headerLen
      BY <1>4 DEF CallFor
    <3> QED  BY <1>1, <1>12, <2>9, <3>1, <3>2 DEF CallFor
  <2> QED  BY <1>1, <1>2, <1>12, <2>9, <2>10, WholeKept, StaticFacts DEF Whole, InCall
\* None is met: the mark is lost unless it was set in front of this image.
<1>13. CASE e = -1 /\ from + n <= total /\ pos' = from + n /\ markpos' = MarkAfter(from + n)
            /\ newLength' = -1 /\ pc' = "worst"
  <2>1. from = pos + ahead
    <3>1. from = total => n = 0
      BY <1>3, <1>7, <1>8, <1>13
    <3>2. from = total => from = pos + ahead
      BY <1>3, <1>7, <1>8, <3>1
    <3> QED  BY <1>8, <3>2
  <2>2. pos' = pos + Reach /\ Reach \in Nat /\ pos' \in Nat /\ pos <= pos'
    BY <1>3, <1>7, <1>13, <2>1
  <2>3. CASE markpos' # -1
    <3>1. markpos' = markpos /\ pos' <= markpos + FRAME_MAX_LENGTH
      <4>1. markpos' = markpos /\ ~(from + n > markpos + FRAME_MAX_LENGTH)
        BY <1>13, <2>3 DEF MarkAfter
      <4> QED  BY <1>3, <1>13, <2>2, <4>1
    <3>2. InHeader(markpos, k)
      <4>1. headerLen + Reach <= FRAME_MAX_LENGTH
        BY <1>3, <2>2, <3>1
      <4>2. ~(headerLen > HeaderOf(k) /\ HeaderOf(k) + Reach >= FRAME_MAX_LENGTH)
        BY <1>3, <1>5, <2>2, <4>1
      <4> QED  BY <1>6, <4>2
    <3>3. Parts' = Parts /\ InHeader(markpos, k)'
      BY <1>1, <3>1, <3>2 DEF InHeader, AllDeclared, HeaderOf, HeaderStart, Parts
    <3>4. CallFor(k)'
      BY <1>1, <1>4, <1>13, <3>1, <3>3 DEF CallFor
    <3> QED  BY <1>1, <1>2, <1>13, <2>3, <3>3, <3>4, WholeKept, StaticFacts DEF Whole, InCall
  <2>4. CASE markpos' = -1
    <3>1. headerLen + Reach > FRAME_MAX_LENGTH
      <4>1. from + n > markpos + FRAME_MAX_LENGTH
        BY <1>3, <1>13, <2>4 DEF MarkAfter
      <4> QED  BY <1>3, <1>13, <2>2, <4>1
    <3>2. HeaderOf(k) + Reach >= FRAME_MAX_LENGTH
      BY <1>3, <1>5, <1>6, <2>2, <3>1
    <3>3. Resumes(pos')
      <4>1. CASE Lands(pos')
        BY <4>1 DEF Resumes
      <4>2. ASSUME NEW m \in DOMAIN Parts, Parts[m].soi < pos', pos' < Parts[m].end
            PROVE  LosesMark(pos')
        <5>1. k <= m
          <6>1. m < k => Parts[m].end <= Parts[k].soi
            BY <1>2, Order
          <6>2. m \in Nat /\ Parts[m].end \in Nat
            BY <1>2, Order
          <6>3. ~(m < k)
            BY <1>3, <1>5, <2>2, <4>2, <6>1, <6>2
          <6> QED  BY <1>5, <6>2, <6>3
        <5>2. ASSUME NEW j \in DOMAIN Parts, j > m
              PROVE  HeaderOf(j) + Reach >= FRAME_MAX_LENGTH
          <6>1. k < j
            <7>1. j \in Nat /\ m \in Nat
              BY <1>2, Order
            <7> QED  BY <1>5, <5>1, <5>2, <7>1
          <6>2. HeaderOf(k) <= HeaderOf(j)
            BY <1>2, <6>1 DEF Growing
          <6>3. HeaderOf(j) \in Nat /\ HeaderOf(k) \in Nat
            BY <1>2, HeaderFacts
          <6> QED  BY <1>3, <2>2, <3>2, <6>2, <6>3
        <5> QED  BY <1>2, <4>2, <5>2 DEF LosesMark
      <4> QED  BY <1>2, <2>2, <4>1, <4>2, Somewhere DEF Resumes
    <3>4. Resumes(pos)'
      BY <1>1, <3>3 DEF Resumes, LosesMark, Lands, InHeader, AllDeclared, HeaderOf,
         HeaderStart, Parts, Reach, StartPos, EndPos, FieldHeaderLen
    <3> QED  BY <1>1, <1>2, <1>13, <2>4, <3>4, WholeKept, StaticFacts DEF Whole, InCall
  <2> QED  BY <2>3, <2>4
<1> QED  BY <1>10, <1>11, <1>12, <1>13

\* What a step that delivers does to the ranges.
LEMMA Delivery ==
  ASSUME Placed, ReadFrame, delivered' # delivered
  PROVE  LET from == pos + headerLen
             d    == [from |-> from, length |-> mContentLength]
         IN  /\ pc = "read" /\ pc' = "call" /\ mContentLength \in Nat /\ markpos # -1
             /\ pos' = from + mContentLength /\ from \in Nat /\ LastEnd <= from
             /\ delivered' = Append(delivered, d) /\ LastEnd' = pos'
             /\ Len(delivered) \in Nat /\ DOMAIN delivered = 1 .. Len(delivered)
             /\ DOMAIN delivered' = 1 .. (Len(delivered) + 1)
             /\ \A j \in DOMAIN delivered : delivered'[j] = delivered[j]
             /\ delivered'[Len(delivered) + 1] = d
<1> DEFINE from == pos + headerLen
           d == [from |-> from, length |-> mContentLength]
           Ranges == [from : Nat, length : Nat]
<1>1. /\ pc = "read" /\ InCall /\ TypeOK /\ pos \in Nat /\ markpos # -1 /\ headerLen \in Nat
      /\ mContentLength \in Int /\ LastEnd \in Nat /\ LastEnd <= pos
  BY PartsType, LastEndType DEF Placed, TypeOK, ReadFrame, InCall
<1>2. /\ mContentLength \in Nat
      /\ pos' = pos + headerLen + mContentLength
      /\ delivered' = Append(delivered, d) /\ pc' = "call"
  BY <1>1 DEF ReadFrame
<1>3. d \in Ranges /\ delivered \in Seq(Ranges) /\ Len(delivered) \in Nat
  BY <1>1, <1>2, LastEndType DEF TypeOK
<1>4. d.from = from /\ d.length = mContentLength /\ from \in Nat /\ LastEnd <= from
  BY <1>1
<1>5. pos' = from + mContentLength
  BY <1>2
<1> HIDE DEF d, Ranges, from
<1>6. /\ delivered' # << >>
      /\ Len(delivered') = Len(delivered) + 1
      /\ DOMAIN delivered = 1 .. Len(delivered)
      /\ DOMAIN delivered' = 1 .. (Len(delivered) + 1)
      /\ \A j \in 1 .. Len(delivered) : delivered'[j] = delivered[j]
      /\ delivered'[Len(delivered) + 1] = d
  BY <1>2, <1>3, AppendProperties, LenProperties
<1>7. LastEnd' = pos'
  BY <1>4, <1>5, <1>6 DEF LastEnd
<1> QED  BY <1>1, <1>2, <1>3, <1>4, <1>5, <1>6, <1>7 DEF d, from

LEMMA WholeReadFrame ==
  ASSUME Placed, Whole, ReadFrame
  PROVE  Whole'
<1>1. /\ pc = "read" /\ InCall /\ markpos # -1 /\ pos = markpos
      /\ UNCHANGED << stream, markpos, mContentLength, headerLen >>
  <2>1. pc = "read" /\ InCall /\ UNCHANGED << stream, markpos, mContentLength, headerLen >>
    BY DEF ReadFrame, frame, InCall
  <2>2. markpos = pos /\ pos \in 0 .. stream.total /\ stream.total \in Nat
    BY <2>1, PartsType DEF Placed, TypeOK
  <2> QED  BY <2>1, <2>2
<1>2. /\ TypeOK /\ stream.total \in Nat /\ pos \in Nat /\ headerLen \in Nat
  BY <1>1, CallState
<1>3. CASE UNCHANGED delivered
  <2> SUFFICES ASSUME Even
               PROVE  Whole'
    BY <1>1, <1>3, WholeKept, StaticFacts DEF Whole
  <2>1. \/ pc' = "threw"
        \/ pos' = stream.total /\ pc' = "call"
        \/ pc' = "call" /\ delivered' = Append(delivered, [from |-> pos + headerLen, length |-> mContentLength])
    BY DEF ReadFrame, ThrowIOException
  <2>2. delivered' # Append(delivered, [from |-> pos + headerLen, length |-> mContentLength])
    <3>1. \A d : Len(Append(delivered, d)) = Len(delivered) + 1
      BY DEF Append
    <3> QED  BY <1>2, <1>3, <3>1, LastEndType
  <2>3. pos' = stream.total => Resumes(pos)'
    BY <1>1 DEF Resumes
  <2> QED  BY <1>1, <1>3, <2>1, <2>2, <2>3, WholeKept, StaticFacts DEF Whole, InCall
<1>4. CASE delivered' # delivered
  <2> DEFINE from == pos + headerLen
             d    == [from |-> from, length |-> mContentLength]
  <2>1. /\ pc' = "call" /\ mContentLength \in Nat
        /\ pos' = from + mContentLength /\ from \in Nat /\ LastEnd <= from /\ LastEnd' = pos'
        /\ Len(delivered) \in Nat /\ DOMAIN delivered = 1 .. Len(delivered)
        /\ DOMAIN delivered' = 1 .. (Len(delivered) + 1)
        /\ \A j \in DOMAIN delivered : delivered'[j] = delivered[j]
        /\ delivered'[Len(delivered) + 1] = d
    BY <1>4, Delivery
  <2>2. d.from = from /\ d.length = mContentLength
    OBVIOUS
  <2>3. LastEnd \in Nat /\ \A j \in DOMAIN delivered : delivered[j] \in [from : Nat, length : Nat]
    BY <1>2, <2>1, LastEndType
  <2> HIDE DEF d
  <2>4. (\A j \in DOMAIN delivered : delivered[j].from + delivered[j].length <= LastEnd)'
    <3> SUFFICES ASSUME NEW j \in DOMAIN delivered'
                 PROVE  delivered'[j].from + delivered'[j].length <= pos'
      BY <2>1
    <3>1. CASE j = Len(delivered) + 1
      BY <2>1, <2>2, <3>1
    <3>2. CASE j # Len(delivered) + 1
      <4>1. j \in DOMAIN delivered /\ delivered'[j] = delivered[j]
        BY <2>1, <3>2
      <4>2. delivered[j].from + delivered[j].length <= LastEnd
        BY <4>1 DEF Whole
      <4>3. delivered[j].from \in Nat /\ delivered[j].length \in Nat
        BY <2>3, <4>1
      <4>4. LastEnd <= pos'
        BY <2>1, <2>3
      <4> QED  BY <2>1, <2>3, <4>1, <4>2, <4>3, <4>4
    <3> QED  BY <3>1, <3>2
  <2> SUFFICES ASSUME Even
               PROVE  Whole'
    BY <1>1, <2>4, StaticFacts DEF Whole
  <2>5. PICK k \in DOMAIN Parts : Parts[k].soi = from /\ Covers(mContentLength, k)
    BY <1>1 DEF Whole, CallFor
  <2>6. mContentLength >= Size(k) /\ Lands(pos')
    BY <2>1, <2>5 DEF Covers
  <2>7. Holds(d, k)
    <3>1. Size(k) \in Nat /\ Parts[k].soi + Size(k) = Parts[k].end
      BY <1>2, HeaderFacts
    <3>2. from + mContentLength >= Parts[k].end
      BY <2>1, <2>5, <2>6, <3>1
    <3> QED  BY <2>2, <2>5, <3>2 DEF Holds
  <2>8. (\A j \in DOMAIN delivered : \E im \in DOMAIN Parts : Holds(delivered[j], im))'
    <3>1. Parts' = Parts /\ \A c, im : Holds(c, im)' <=> Holds(c, im)
      BY <1>1 DEF Parts, Holds
    <3>2. ASSUME NEW j \in DOMAIN delivered'
          PROVE  \E im \in DOMAIN Parts : Holds(delivered'[j], im)
      <4>1. CASE j = Len(delivered) + 1
        BY <2>1, <2>7, <4>1
      <4>2. CASE j # Len(delivered) + 1
        <5>1. j \in DOMAIN delivered /\ delivered'[j] = delivered[j]
          BY <2>1, <4>2
        <5> QED  BY <5>1 DEF Whole
      <4> QED  BY <4>1, <4>2
    <3>3. ASSUME NEW j \in DOMAIN delivered'
          PROVE  \E im \in DOMAIN Parts' : Holds(delivered[j], im)'
      <4>1. PICK im \in DOMAIN Parts : Holds(delivered'[j], im)
        BY <3>2, <3>3
      <4>2. Holds(delivered[j], im)'
        BY <3>1, <4>1 DEF Holds
      <4> QED  BY <3>1, <4>2
    <3> QED  BY <3>3
  <2>9. Resumes(pos)'
    BY <1>1, <2>6 DEF Resumes, Lands, InHeader, AllDeclared, HeaderOf, HeaderStart, Parts
  <2>10. Sensible(mContentLength)'
    BY <1>1 DEF Whole, Sensible, AllDeclared, HeaderOf, HeaderStart, Parts
  <2> QED  BY <2>1, <2>4, <2>8, <2>9, <2>10 DEF Whole, InCall
<1> QED  BY <1>3, <1>4

\* Whole is inductive on the states that are Placed.
THEOREM WholeHolds == Spec => []Whole
<1>1. ASSUME Init
      PROVE  Whole
  <2>1. delivered = << >> /\ DOMAIN delivered = { } /\ mContentLength = -1 /\ pos = 0 /\ pc = "call"
    BY <1>1 DEF Init
  <2>2. Resumes(pos)
    <3>1. TypeOK /\ Len(Parts) \in Nat /\ DOMAIN Parts = 1 .. Len(Parts) /\ stream.total \in Nat
      BY <1>1, PlacedInit, PartsType DEF Placed
    <3>2. CASE Len(Parts) = 0
      BY <2>1, <3>1, <3>2 DEF Resumes, Lands, HeaderStart
    <3>3. CASE Len(Parts) # 0
      <4>1. 1 \in DOMAIN Parts
        BY <3>1, <3>3
      <4>2. HeaderStart(1) = 0 /\ HeaderStart(1) <= Parts[1].soi
        BY <3>1, <4>1, HeaderFacts DEF HeaderStart
      <4>3. InHeader(pos, 1)
        BY <2>1, <4>2 DEF InHeader
      <4> QED  BY <4>1, <4>3 DEF Resumes, Lands
    <3> QED  BY <3>2, <3>3
  <2>3. Sensible(mContentLength)
    BY <2>1 DEF Sensible
  <2> QED  BY <2>1, <2>2, <2>3 DEF Whole, InCall
<1>2. ASSUME Placed, Whole, [Next]_vars
      PROVE  Whole'
  <2>1. CASE UNCHANGED vars
    <3>1. /\ UNCHANGED << stream, delivered, pc, pos, markpos, mContentLength, headerLen, newLength >>
      BY <2>1 DEF vars
    <3>2. \A k : CallFor(k)' <=> CallFor(k)
      BY <3>1 DEF CallFor, InHeader, Covers, Lands, AllDeclared, HeaderOf, HeaderStart, Size,
         Parts, Reach, StartPos, EndPos, FieldHeaderLen
    <3>3. /\ Resumes(pos)' <=> Resumes(pos)
          /\ Lands(pos)' <=> Lands(pos)
          /\ Sensible(newLength)' <=> Sensible(newLength)
          /\ Sensible(mContentLength)' <=> Sensible(mContentLength)
      BY <3>1 DEF Resumes, LosesMark, InHeader, Lands, AllDeclared, HeaderOf, HeaderStart,
         Parts, Reach, StartPos, EndPos, FieldHeaderLen, Sensible, InWindow
    <3> QED  BY <1>2, <3>1, <3>2, <3>3, WholeKept, StaticFacts DEF Whole, InCall
  <2> QED
    BY <1>2, <2>1, WholeFindStart, WholeReadHeader, WholeParseLength,
       WholeSearchSimplified, WholeSearchWorst, WholeSizeBuffer, WholeReadFrame DEF Next
<1> QED  BY <1>1, <1>2, PlacedHolds, PTL DEF Spec

\* An image that a range holds.
LEMMA ImageOfIs ==
  ASSUME NEW d, \E k \in DOMAIN Parts : Holds(d, k)
  PROVE  ImageOf(d) \in DOMAIN Parts /\ Holds(d, ImageOf(d))
BY DEF ImageOf

\* Every step is one of a source of images, or leaves what has been shown: on an even
\* stream what reaches the decoder is whole images, in order, and the end is final.
\* That the end is reached is a liveness property and not part of Safe.
THEOREM SourceSafety == Spec => Source!Safe
<1> DEFINE shown == IF Even THEN [j \in DOMAIN delivered |-> ImageOf(delivered[j])] ELSE << >>
           over  == pc \in { "ended", "threw" }
           Images == 1 .. MaxParts
<1>1. Init => Source!Init
  <2> SUFFICES ASSUME Init
               PROVE  Source!Init
    OBVIOUS
  <2>1. shown = << >>
    <3>1. DOMAIN delivered = { } /\ delivered = << >>
      BY DEF Init
    <3>2. [j \in DOMAIN delivered |-> ImageOf(delivered[j])] = << >>
      BY <3>1
    <3> QED  BY <3>2
  <2>2. over = FALSE
    BY DEF Init
  <2> QED  BY <2>1, <2>2 DEF Source!Init
<1>2. ASSUME Placed, Whole, [Next]_vars
      PROVE  [Source!Show \/ Source!End]_<< shown, over >>
  <2>1. CASE UNCHANGED delivered
    <3>1. stream' = stream
      BY <1>2 DEF Next, vars, FindStart, ReadHeader, ParseLength, SearchSimplified,
         SearchWorst, SizeBuffer, ReadFrame
    <3>2. Even' <=> Even
      BY <3>1, StaticFacts
    <3>3. \A d : ImageOf(d)' = ImageOf(d)
      BY <3>1 DEF ImageOf, Holds, Parts
    <3>4. shown' = shown
      BY <2>1, <3>2, <3>3
    <3>5. over => over' = over
      BY <1>2 DEF Next, vars, FindStart, ReadHeader, ParseLength, SearchSimplified,
         SearchWorst, SizeBuffer, ReadFrame
    <3> HIDE DEF shown
    <3>6. over' \in BOOLEAN /\ over \in BOOLEAN
      OBVIOUS
    <3> HIDE DEF over
    <3>7. UNCHANGED << shown, over >> \/ (over = FALSE /\ over' = TRUE /\ shown' = shown)
      BY <3>4, <3>5, <3>6
    <3> QED  BY <3>7 DEF Source!End, shown, over
  <2>2. CASE delivered' # delivered
    <3>1. ReadFrame
      BY <1>2, <2>2 DEF Next, vars, FindStart, ReadHeader, ParseLength, SearchSimplified,
         SearchWorst, SizeBuffer
    <3> DEFINE from == pos + headerLen
               d    == [from |-> from, length |-> mContentLength]
               n    == Len(delivered)
    <3>2. /\ pc = "read" /\ pc' = "call" /\ markpos # -1
          /\ from \in Nat /\ LastEnd <= from
          /\ n \in Nat /\ DOMAIN delivered = 1 .. n /\ DOMAIN delivered' = 1 .. (n + 1)
          /\ \A j \in DOMAIN delivered : delivered'[j] = delivered[j]
          /\ delivered'[n + 1] = d
      BY <1>2, <2>2, <3>1, Delivery
    <3>3. d.from = from
      OBVIOUS
    <3> HIDE DEF d, n
    <3>4. over = FALSE /\ over' = FALSE
      BY <3>2
    <3>5. stream' = stream /\ Parts' = Parts /\ (Even' <=> Even)
      BY <3>1, StaticFacts DEF ReadFrame
    <3>6. \A c : ImageOf(c)' = ImageOf(c)
      BY <3>5 DEF ImageOf, Holds
    <3>7. CASE ~Even
      BY <3>4, <3>5, <3>7
    <3>8. CASE Even
      <4> DEFINE k == ImageOf(d)
                 before == [j \in 1 .. n |-> ImageOf(delivered[j])]
                 after  == [j \in 1 .. (n + 1) |-> ImageOf(delivered'[j])]
      <4>1. TypeOK /\ LastEnd \in Nat
        BY <1>2, LastEndType DEF Placed
      <4>2. \E im \in DOMAIN Parts : Holds(d, im)
        <5>1. /\ (\A j \in DOMAIN delivered : \E im \in DOMAIN Parts : Holds(delivered[j], im))'
          BY <1>2, <3>1, <3>5, <3>8, WholeReadFrame DEF Whole
        <5>2. \A j \in DOMAIN delivered' : \E im \in DOMAIN Parts : Holds(delivered'[j], im)
          BY <3>5, <5>1 DEF Holds
        <5>3. n + 1 \in DOMAIN delivered'
          BY <3>2
        <5> QED  BY <3>2, <5>2, <5>3
      <4>3. k \in DOMAIN Parts /\ Holds(d, k)
        BY <4>2, ImageOfIs
      <4>4. k \in Images
        <5>1. Len(Parts) <= MaxParts /\ MaxParts \in Nat
          BY <4>1, StreamAssumption DEF TypeOK, WellFormed, Parts
        <5>2. k \in Nat /\ 1 <= k /\ k <= Len(Parts) /\ Len(Parts) \in Nat
          BY <4>1, <4>3, HeaderFacts
        <5> HIDE DEF k
        <5> QED  BY <5>1, <5>2
      <4> HIDE DEF k
      <4>5. ASSUME NEW j \in 1 .. n
            PROVE  ImageOf(delivered[j]) < k
        <5> DEFINE im == ImageOf(delivered[j])
        <5>1. j \in DOMAIN delivered
          BY <3>2, <4>5
        <5>2. im \in DOMAIN Parts /\ Holds(delivered[j], im)
          BY <1>2, <3>8, <5>1, ImageOfIs DEF Whole
        <5>3. delivered[j].from + delivered[j].length <= LastEnd
          BY <1>2, <5>1 DEF Whole
        <5>4. delivered[j].from \in Nat /\ delivered[j].length \in Nat
          <6>1. delivered[j] \in [from : Nat, length : Nat]
            BY <3>2, <4>1, <5>1, LastEndType DEF n
          <6> QED  BY <6>1
        <5> HIDE DEF im
        <5>5. Parts[im].end <= LastEnd
          <6>1. delivered[j].from + delivered[j].length >= Parts[im].end
            BY <5>2 DEF Holds
          <6>2. Parts[im].end \in Nat
            BY <4>1, <5>2, HeaderFacts
          <6> QED  BY <4>1, <5>3, <5>4, <6>1, <6>2
        <5>6. Parts[im].end <= Parts[k].soi
          <6>1. Parts[k].soi = from
            BY <3>3, <4>3 DEF Holds
          <6>2. Parts[im].end \in Nat
            BY <4>1, <5>2, HeaderFacts
          <6> QED  BY <3>2, <4>1, <5>5, <6>1, <6>2
        <5>7. /\ im \in Nat /\ k \in Nat
              /\ Parts[im].soi \in Nat /\ Parts[im].end \in Nat /\ Parts[im].soi + 4 <= Parts[im].end
              /\ Parts[k].soi \in Nat /\ Parts[k].end \in Nat /\ Parts[k].soi + 4 <= Parts[k].end
              /\ k < im => Parts[k].end <= Parts[im].soi
          <6>1. k < im => Parts[k].end <= Parts[im].soi
            BY <4>1, <4>3, <5>2, Order
          <6> QED  BY <4>1, <4>3, <5>2, <6>1, Order
        <5>8. im < k
          <6>1. CASE im = k
            BY <5>6, <5>7, <6>1
          <6>2. CASE k < im
            BY <5>6, <5>7, <6>2
          <6> QED  BY <5>7, <6>1, <6>2
        <5> QED  BY <5>8 DEF im
      <4>6. shown = before /\ shown' = after
        BY <3>2, <3>5, <3>6, <3>8
      <4>7. after = Append(before, k)
        <5>1. before \in Seq(Int) /\ Len(before) = n
          <6>1. \A j \in 1 .. n : ImageOf(delivered[j]) \in Int
            <7>1. ASSUME NEW j \in 1 .. n
                  PROVE  ImageOf(delivered[j]) \in DOMAIN Parts
              BY <1>2, <3>2, <3>8, <7>1, ImageOfIs DEF Whole
            <7> QED  BY <4>1, <7>1, HeaderFacts
          <6> QED  BY <3>2, <6>1
        <5>2. k \in Int
          BY <4>4
        <5>3. Append(before, k) = [j \in 1 .. (n + 1) |-> IF j = n + 1 THEN k ELSE before[j]]
          BY <3>2, <5>1, <5>2
        <5>4. \A j \in 1 .. (n + 1) : ImageOf(delivered'[j]) = IF j = n + 1 THEN k ELSE before[j]
          <6>1. \A j \in 1 .. (n + 1) : j # n + 1 => j \in 1 .. n
            BY <3>2
          <6> QED  BY <3>2, <6>1 DEF k
        <5> QED  BY <5>3, <5>4
      <4>8. \A j \in DOMAIN before : before[j] < k
        BY <4>5
      <4> HIDE DEF before, after, shown, over
      <4>9. /\ over = FALSE
            /\ \E im \in Images : /\ \A j \in DOMAIN shown : shown[j] < im
                                 /\ shown' = Append(shown, im)
            /\ over' = over
        BY <3>4, <4>4, <4>6, <4>7, <4>8
      <4> QED  BY <4>9 DEF Source!Show, shown, over
    <3> QED  BY <3>7, <3>8
  <2> QED  BY <2>1, <2>2
<1> QED  BY <1>1, <1>2, PlacedHolds, WholeHolds, PTL DEF Spec, Source!Safe

=============================================================================
