--------------------------- MODULE MjpegInputStream ---------------------------
(***************************************************************************)
(* How MjpegInputStream.readMjpegFrame(Bitmap) cuts a stream into frames.  *)
(*                                                                         *)
(* The stream is a sequence of parts, each a header and a JPEG image.  Of  *)
(* its bytes only positions matter: where each image starts (at its SOI    *)
(* marker) and ends (after its EOI marker), and the Content-Length that    *)
(* the header declares, if any.  The loop that looks for a marker is       *)
(* MarkerScan; on streams that pad no marker it finds the first one.       *)
(*                                                                         *)
(* One render thread calls readMjpegFrame over and over, as run does.      *)
(***************************************************************************)
EXTENDS Integers, Sequences

CONSTANTS
  Streams,            \* the streams a camera may send
  FRAME_MAX_LENGTH,   \* bytes a search looks at, and the limit of the mark
  HEADER_MAX_LENGTH,  \* slack of the frame buffer
  IntMax,             \* the largest Java int
  MaxParts,           \* no stream has more parts
  Undeclared          \* no Content-Length, or one that is not a number

\* Images start where the part before ended, or later; bytes beyond total never
\* come, the camera having closed the connection.
WellFormed(s) ==
  /\ s.total \in Nat
  /\ s.parts \in Seq([soi : Nat, end : Nat, length : Int \cup { Undeclared }])
  /\ Len(s.parts) <= MaxParts
  /\ \A k \in DOMAIN s.parts : s.parts[k].end >= s.parts[k].soi + 4
  /\ \A k, m \in DOMAIN s.parts : k < m => s.parts[m].soi >= s.parts[k].end

\* The lengths of the code are far from the largest int.
ASSUME StreamAssumption ==
  /\ FRAME_MAX_LENGTH \in Nat \ { 0 } /\ HEADER_MAX_LENGTH \in Nat
  /\ MaxParts \in Nat
  /\ IntMax \in Nat
  /\ FRAME_MAX_LENGTH + HEADER_MAX_LENGTH <= IntMax
  /\ 2 * FRAME_MAX_LENGTH < IntMax
  /\ Undeclared \notin Int
  /\ \A s \in Streams : WellFormed(s)

VARIABLES
  stream,          \* what this camera sends
  pos, markpos,    \* of the BufferedInputStream; markpos is -1 once invalid
  mContentLength,
  header,          \* length of the array header, or -1 for null
  headerLenPrev,
  frameData,       \* length of the array frameData, or -1 for null
  headerLen,       \* the local variable, -1 before it is set
  newLength,       \* ContentLengthNew
  pc,
  delivered        \* history: the ranges of bytes given to pixeltobmp

vars == << stream, pos, markpos, mContentLength, header, headerLenPrev, frameData,
           headerLen, newLength, pc, delivered >>

Parts == stream.parts

TypeOK ==
  /\ WellFormed(stream)
  /\ pos \in 0 .. stream.total
  /\ markpos \in -1 .. stream.total
  /\ mContentLength \in Int
  /\ header \in Nat \cup { -1 }
  /\ headerLenPrev \in Nat \cup { -1 }
  /\ frameData \in Nat \cup { -1 }
  /\ headerLen \in Int
  /\ newLength \in Int
  /\ pc \in { "call", "header", "parse", "simplified", "worst", "size", "read",
              "ended", "threw" }
  /\ delivered \in Seq([from : Nat, length : Nat])

Init ==
  /\ stream \in Streams
  /\ pos = 0 /\ markpos = -1
  /\ mContentLength = -1
  /\ header = -1 /\ headerLenPrev = -1
  /\ frameData = -1
  /\ headerLen = -1 /\ newLength = -1
  /\ pc = "call"
  /\ delivered = << >>

-----------------------------------------------------------------------------
(* Reading and searching                                                   *)

\* Where a search that starts at from and looks at n bytes meets a marker that
\* ends at one of ends; -1 if it does not.
FirstEnd(ends, from, n) ==
  LET met == { e \in ends : from + 2 <= e /\ e <= from + n /\ e <= stream.total }
  IN  IF met = {} THEN -1 ELSE CHOOSE e \in met : \A f \in met : e <= f

Starts == { Parts[k].soi + 2 : k \in DOMAIN Parts }
Ends   == { Parts[k].end : k \in DOMAIN Parts }

\* The mark is lost when more than FRAME_MAX_LENGTH bytes beyond it are asked for.
MarkAfter(to) == IF to > markpos + FRAME_MAX_LENGTH THEN -1 ELSE markpos

\* Java's int arithmetic wraps around.
Wrap(n) == ((n + IntMax + 1) % (2 * (IntMax + 1))) - (IntMax + 1)

\* Java's division truncates towards 0.
Half(n) == IF n >= 0 THEN n \div 2 ELSE -((-n) \div 2)

\* The window of getEndOfSeqeunceSimplified.  Its headerLen is the field, which
\* stays -1: readMjpegFrame has a local variable of that name.
StartPos == Half(mContentLength)
EndPos   == Half(Wrap(3 * mContentLength))
HeaderLenSet == headerLen  \* faulty variant: the field is set
FieldHeaderLen == -1

SkipTo(p) == IF p > stream.total THEN stream.total ELSE p

\* An IOException leaves readMjpegFrame; run swallows it and calls again.
ThrowIOException == pc' = "call" /\ newLength' = -1

-----------------------------------------------------------------------------
(* readMjpegFrame                                                          *)

frame == << mContentLength, header, headerLenPrev, frameData >>

\* Faulty variants: the mark is set once for all; the end of the stream is taken
\* for one more swallowed exception.
FindStartMarksOnce ==
  /\ pc = "call"
  /\ markpos' = IF markpos = -1 THEN pos ELSE markpos
  /\ LET e == FirstEnd(Starts, markpos', FRAME_MAX_LENGTH)
     IN  \/ /\ e # -1
            /\ headerLen' = e - 2 - markpos'
            /\ pos' = markpos'
            /\ pc' = "header"
         \/ /\ e = -1
            /\ headerLen' = -1
            /\ pc' = IF stream.total < pos + FRAME_MAX_LENGTH THEN "ended" ELSE "threw"
            /\ UNCHANGED pos
  /\ newLength' = -1
  /\ UNCHANGED << stream, frame, delivered >>

FindStartRetries ==
  /\ pc = "call"
  /\ markpos' = pos
  /\ LET e == FirstEnd(Starts, pos, FRAME_MAX_LENGTH)
     IN  \/ /\ e # -1
            /\ headerLen' = e - 2 - pos
            /\ pc' = "header"
         \/ /\ e = -1
            /\ headerLen' = -1
            /\ pc' = IF stream.total < pos + FRAME_MAX_LENGTH THEN "call" ELSE "threw"
  /\ newLength' = -1
  /\ UNCHANGED << stream, pos, frame, delivered >>

\* mark, getStartOfSequence, reset.  No start in FRAME_MAX_LENGTH bytes gives -1,
\* and an array of -1 bytes; the end of the stream makes the call return -1.
FindStart ==
  /\ pc = "call"
  /\ markpos' = pos
  /\ LET e == FirstEnd(Starts, pos, FRAME_MAX_LENGTH)
     IN  \/ /\ e # -1
            /\ headerLen' = e - 2 - pos
            /\ pc' = "header"
         \/ /\ e = -1
            /\ headerLen' = -1
            /\ pc' = IF stream.total < pos + FRAME_MAX_LENGTH THEN "ended" ELSE "threw"
  /\ newLength' = -1
  /\ UNCHANGED << stream, pos, frame, delivered >>

\* The array header is kept while the length stays the same; readFully(header).
ReadHeader ==
  /\ pc = "header"
  /\ header' = IF header = -1 \/ headerLen # headerLenPrev THEN headerLen ELSE header
  /\ headerLenPrev' = headerLen
  /\ pos' = pos + header'
  /\ pc' = "parse"
  /\ UNCHANGED << stream, markpos, mContentLength, frameData, headerLen, newLength,
                  delivered >>

\* parseContentLength on exactly one header finds what it declares.  On a header
\* that is cut, or behind the rest of an image, it may also find nothing.
HeaderStart(k) == IF k = 1 THEN 0 ELSE Parts[k - 1].end

Found(k) ==
  IF headerLen = 0 THEN { Undeclared }
  ELSE IF HeaderStart(k) = markpos THEN { Parts[k].length }
  ELSE { Parts[k].length, Undeclared }

ParseLength ==
  /\ pc = "parse"
  /\ \E k \in DOMAIN Parts : \E n \in Found(k) :
       /\ Parts[k].soi = pos
       /\ IF n = Undeclared
            THEN pc' = "simplified" /\ UNCHANGED newLength
            ELSE pc' = "size" /\ newLength' = n
  /\ UNCHANGED << stream, pos, markpos, frame, headerLen, delivered >>

\* getEndOfSeqeunceSimplified: skip half the length of the frame before, then
\* look for the end of the image in as many bytes as that frame had.
SearchSimplified ==
  /\ pc = "simplified"
  /\ LET skip == FieldHeaderLen + StartPos
         from == SkipTo(pos + IF skip > 0 THEN skip ELSE 0)
         n    == IF EndPos > StartPos THEN EndPos - StartPos ELSE 0
         e    == FirstEnd(Ends, from, n)
     IN  \/ /\ e # -1
            /\ pos' = e /\ markpos' = MarkAfter(e)
            /\ newLength' = FieldHeaderLen + StartPos + (e - from)
            /\ pc' = "size"
         \/ /\ e = -1 /\ from + n <= stream.total
            /\ pos' = from + n /\ markpos' = MarkAfter(from + n)
            /\ newLength' = -1
            /\ pc' = "worst"
         \/ /\ e = -1 /\ from + n > stream.total
            /\ pos' = stream.total /\ markpos' = MarkAfter(stream.total + 1)
            /\ ThrowIOException
  /\ UNCHANGED << stream, frame, headerLen, delivered >>

\* reset, then getEndOfSeqeunce from the mark: the length it finds includes the
\* header.
SearchWorst ==
  /\ pc = "worst"
  /\ LET e == FirstEnd(Ends, markpos, FRAME_MAX_LENGTH)
         end == markpos + FRAME_MAX_LENGTH
     IN  \/ /\ markpos = -1
            /\ UNCHANGED pos
            /\ ThrowIOException
         \/ /\ markpos # -1 /\ e # -1
            /\ pos' = e
            /\ newLength' = e - markpos
            /\ pc' = "size"
         \/ /\ markpos # -1 /\ e = -1 /\ end <= stream.total
            /\ pos' = end
            /\ newLength' = -1
            /\ pc' = "size"
         \/ /\ markpos # -1 /\ e = -1 /\ end > stream.total
            /\ pos' = stream.total
            /\ ThrowIOException
  /\ UNCHANGED << stream, markpos, frame, headerLen, delivered >>

\* Faulty variant: the buffer is allocated once.
SizeBufferOnce ==
  /\ pc = "size"
  /\ mContentLength' = newLength
  /\ IF markpos = -1
       THEN ThrowIOException /\ UNCHANGED << pos, frameData >>
       ELSE /\ pos' = markpos
            /\ frameData' = IF frameData = -1 THEN FRAME_MAX_LENGTH ELSE frameData
            /\ pc' = "read"
            /\ UNCHANGED newLength
  /\ UNCHANGED << stream, markpos, header, headerLenPrev, headerLen, delivered >>

\* mContentLength = ContentLengthNew; reset; make frameData large enough.
SizeBuffer ==
  /\ pc = "size"
  /\ mContentLength' = newLength
  /\ IF markpos = -1
       THEN ThrowIOException /\ UNCHANGED << pos, frameData >>
       ELSE /\ pos' = markpos
            /\ LET need == Wrap(newLength + HEADER_MAX_LENGTH)
               IN  frameData' = IF need > FRAME_MAX_LENGTH THEN need
                                ELSE IF frameData = -1 THEN FRAME_MAX_LENGTH
                                ELSE frameData
            /\ pc' = "read"
            /\ UNCHANGED newLength
  /\ UNCHANGED << stream, markpos, header, headerLenPrev, headerLen, delivered >>

\* Faulty variant: whatever has come by the end of the stream is decoded.
ReadFrameShort ==
  /\ pc = "read" /\ mContentLength \in 0 .. frameData
  /\ pos' = SkipTo(pos + headerLen + mContentLength)
  /\ delivered' = Append(delivered, [from   |-> pos + headerLen,
                                     length |-> pos' - pos - headerLen])
  /\ pc' = "call"
  /\ UNCHANGED << stream, markpos, frame, headerLen, newLength >>

\* skipBytes(headerLen); readFully(frameData, 0, mContentLength); pixeltobmp.
ReadFrame ==
  /\ pc = "read"
  /\ LET from == pos + headerLen
     IN  \/ /\ mContentLength < 0 \/ mContentLength > frameData
            /\ pos' = from
            /\ pc' = "threw"
            /\ UNCHANGED << newLength, delivered >>
         \/ /\ mContentLength \in 0 .. frameData
            /\ from + mContentLength > stream.total
            /\ pos' = stream.total
            /\ ThrowIOException
            /\ UNCHANGED delivered
         \/ /\ mContentLength \in 0 .. frameData
            /\ from + mContentLength <= stream.total
            /\ pos' = from + mContentLength
            /\ delivered' = Append(delivered, [from |-> from, length |-> mContentLength])
            /\ pc' = "call"
            /\ UNCHANGED newLength
  /\ UNCHANGED << stream, markpos, frame, headerLen >>

Next ==
  \/ FindStart \/ ReadHeader \/ ParseLength \/ SearchSimplified \/ SearchWorst
  \/ SizeBuffer \/ ReadFrame

Spec == Init /\ [][Next]_vars

Fairness == WF_vars(Next)

-----------------------------------------------------------------------------
(* Properties                                                              *)

Size(k) == Parts[k].end - Parts[k].soi
HeaderOf(k) == Parts[k].soi - HeaderStart(k)

\* The headers declare the size of the image or nothing.
Honest == \A k \in DOMAIN Parts : Parts[k].length \in { Undeclared, Size(k) }

\* All headers are as long as the first, nothing follows the last image, every
\* search ends within the mark, and no image ends outside the window that the length
\* before it gives, where the length of the first may include its header.
Steady ==
  /\ Honest
  /\ stream.total <= HeaderStart(Len(Parts) + 1)
  /\ \A k, m \in DOMAIN Parts : \A h \in { 0, HeaderOf(1) } :
       LET n == Size(m) + h
       IN  /\ HeaderOf(k) = HeaderOf(1)
           /\ Size(k) > Half(n) /\ Size(k) < Half(3 * n)
           /\ HeaderOf(1) + Half(3 * n) <= FRAME_MAX_LENGTH

\* The range d of bytes starts at the start of image k and holds all of it.
Holds(d, k) == d.from = Parts[k].soi /\ d.from + d.length >= Parts[k].end

\* No frame of a steady stream is lost: the j-th call yields the j-th image, with
\* or without Content-Length, also after the first search, whose length is too
\* large by a header.  Only a stream of one part may end inside that excess.
AllDelivered ==
  Steady =>
    /\ \A j \in DOMAIN delivered : Holds(delivered[j], j)
    /\ pc # "threw"
    /\ pc = "ended" /\ Len(Parts) > 1 /\ stream.total >= Parts[Len(Parts)].end
         => Len(delivered) = Len(Parts)

InCall == pc \in { "header", "parse", "simplified", "worst", "size", "read" }

\* The inductive invariant behind it.  A call begins at the header of the image that
\* is next and knows the length of the one before; only the second may begin a
\* header late, the first search having counted its header into the length.
Upcoming == Len(delivered) + 1

InLine(from, length) ==
  \/ /\ from = HeaderStart(Upcoming)
     /\ length = IF Upcoming = 1 THEN -1 ELSE Size(Upcoming - 1)
  \/ /\ Upcoming = 2
     /\ from = HeaderStart(2) + HeaderOf(1)
     /\ length = Size(1) + HeaderOf(1)

RightLength(n) == n = Size(Upcoming) \/ (Upcoming = 1 /\ n = Size(1) + HeaderOf(1))

AllSeen ==
  Len(Parts) > 1 /\ stream.total >= Parts[Len(Parts)].end => Len(delivered) = Len(Parts)

Synced ==
  Steady =>
    /\ Len(delivered) <= Len(Parts)
    /\ \A j \in DOMAIN delivered : Holds(delivered[j], j)
    /\ pc # "threw"
    /\ pc = "ended" => AllSeen
    /\ pc = "call" => InLine(pos, mContentLength) \/ (pos = stream.total /\ AllSeen)
    /\ InCall => /\ Len(delivered) < Len(Parts)
                 /\ markpos # -1
                 /\ markpos + headerLen = Parts[Upcoming].soi
                 /\ pc # "read" => InLine(markpos, mContentLength)
    /\ pc = "worst" => delivered = << >>
    /\ pc = "size" => RightLength(newLength)
    /\ pc = "read" => RightLength(mContentLength)

\* The two arrays that outlive a call fit the frame at hand: frameData, replaced
\* only when a frame is larger, holds the frame that is read into it, whatever length
\* was declared or found, unless adding HEADER_MAX_LENGTH to it overflows; and header,
\* kept while its length stays the same, has the length of this header (a longer
\* one would swallow the start of the image).
ArraysFit ==
  /\ TypeOK
  /\ pc = "read" /\ mContentLength + HEADER_MAX_LENGTH <= IntMax
       => mContentLength <= frameData
  /\ pc \in { "parse", "simplified", "worst", "size", "read" } => header = headerLen

\* No byte reaches the decoder twice, however often the stream was reset between
\* two frames and whatever the headers declare.
NoByteTwice ==
  \A j \in 2 .. Len(delivered) :
    delivered[j].from >= delivered[j - 1].from + delivered[j - 1].length

\* The inductive invariant behind both.  No byte before LastEnd is read again: the
\* mark, which every reset of a call goes back to, is set behind it, and it is where
\* the header of the call's image starts.
LastEnd ==
  IF delivered = << >> THEN 0
  ELSE delivered[Len(delivered)].from + delivered[Len(delivered)].length

Placed ==
  /\ TypeOK
  /\ NoByteTwice
  /\ LastEnd <= pos
  /\ InCall => /\ headerLen >= 0
               /\ markpos # -1 => /\ LastEnd <= markpos
                                  /\ markpos + headerLen + 2 <= stream.total
  /\ pc \in { "header", "read" } => markpos = pos
  /\ pc \in { "parse", "simplified" } => markpos # -1 /\ pos = markpos + headerLen
  /\ header # -1 => header = headerLenPrev
  /\ InCall /\ pc # "header" => header = headerLen
  /\ frameData # -1 => frameData >= FRAME_MAX_LENGTH
  /\ pc = "read" /\ mContentLength + HEADER_MAX_LENGTH <= IntMax
       => mContentLength <= frameData

\* The render thread comes to the end of a stream that ends: no reset or swallowed
\* exception makes it read the same bytes forever.
Terminates == <>(pc \in { "ended", "threw" })

\* No length lies, and where one is missing no image is preceded by a shorter header
\* than the image before (a search from the mark counts a header into the length, and as
\* many bytes of what comes next are read with the image) and no search window overflows.
AllDeclared == \A k \in DOMAIN Parts : Parts[k].length # Undeclared /\ HeaderOf(k) > 0

InWindow(n) == 3 * n <= IntMax

Growing ==
  /\ \A k, m \in DOMAIN Parts : k < m => HeaderOf(k) <= HeaderOf(m)
  /\ InWindow(stream.total) /\ \A k \in DOMAIN Parts : InWindow(Size(k))

Even == Honest /\ (AllDeclared \/ Growing)

\* The image that a range holds, 0 if it does not hold one from its start to its end.
ImageOf(d) ==
  IF \E k \in DOMAIN Parts : Holds(d, k)
    THEN CHOOSE k \in DOMAIN Parts : Holds(d, k)
    ELSE 0

Source == INSTANCE FrameSource WITH
            Images <- 1 .. MaxParts,
            shown  <- IF Even THEN [j \in DOMAIN delivered |-> ImageOf(delivered[j])]
                      ELSE << >>,
            over   <- pc \in { "ended", "threw" }

\* On even streams, steady or not, what reaches the decoder is whole images, in order,
\* until the stream is over.
ImplementsSource == Source!Spec

\* The inductive invariant behind it.  A call begins in front of an image, at the end
\* of the data, or inside an image in which a search that lost the mark has left it;
\* then it loses the mark again, because it asks for as many bytes behind a header
\* that is longer.
InHeader(p, k) ==
  IF AllDeclared THEN p = HeaderStart(k)
  ELSE HeaderStart(k) <= p /\ p <= Parts[k].soi

Lands(p) ==
  \/ \E k \in DOMAIN Parts : InHeader(p, k)
  \/ p >= HeaderStart(Len(Parts) + 1)

\* How far behind the start of an image getEndOfSeqeunceSimplified may read.
Reach ==
  LET skip == FieldHeaderLen + StartPos
  IN  (IF skip > 0 THEN skip ELSE 0) + (IF EndPos > StartPos THEN EndPos - StartPos ELSE 0)

LosesMark(p) ==
  /\ ~AllDeclared
  /\ \E m \in DOMAIN Parts :
       /\ Parts[m].soi < p /\ p < Parts[m].end
       /\ \A k \in DOMAIN Parts : k > m => HeaderOf(k) + Reach >= FRAME_MAX_LENGTH

Resumes(p) == p = stream.total \/ Lands(p) \/ LosesMark(p)

Sensible(n) == n = -1 \/ (n >= 4 /\ (AllDeclared \/ InWindow(n)))

Covers(n, k) == n = -1 \/ (n >= Size(k) /\ Lands(Parts[k].soi + n))

\* What is known of the call for image k, its mark being valid.
CallFor(k) ==
  /\ Parts[k].soi = markpos + headerLen
  /\ pc \in { "header", "parse", "simplified" } =>
       \/ InHeader(markpos, k)
       \/ ~AllDeclared /\ headerLen > HeaderOf(k) /\ HeaderOf(k) + Reach >= FRAME_MAX_LENGTH
  /\ pc = "worst" => InHeader(markpos, k)
  /\ pc = "size" => Covers(newLength, k)
  /\ pc = "read" => Covers(mContentLength, k)

Whole ==
  /\ \A j \in DOMAIN delivered : delivered[j].from + delivered[j].length <= LastEnd
  /\ Even =>
       /\ \A j \in DOMAIN delivered : \E k \in DOMAIN Parts : Holds(delivered[j], k)
       /\ Sensible(mContentLength)
       /\ pc = "size" => Sensible(newLength)
       /\ pc = "call" => Resumes(pos)
       /\ pc = "worst" /\ markpos = -1 => Resumes(pos)
       /\ pc = "size" /\ markpos = -1 => Lands(pos)
       /\ InCall /\ markpos # -1 => \E k \in DOMAIN Parts : CallFor(k)
       /\ AllDeclared => pc \notin { "simplified", "worst" }

=============================================================================
