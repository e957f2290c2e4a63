-------------------------- MODULE MCMjpegInputStream --------------------------
(***************************************************************************)
(* MjpegInputStream on two levels: getEndOfSeqeunce on streams of a few    *)
(* bytes (MarkerScan), and readMjpegFrame on streams of a few parts.  Of   *)
(* the two only one is at work in a behaviour.                             *)
(***************************************************************************)
EXTENDS MarkerScan, MjpegInputStream, SequencesExt

CONSTANTS x, MaxInput

\* Every stream of at most MaxInput bytes, x standing for all other bytes.
MCInputs == BoundedSeq({ FF, Code, x }, MaxInput)

-----------------------------------------------------------------------------
\* Parts as their header's length, their image's and what they declare: the right
\* length, nothing, or one of wrong.
Shapes(headers, sizes, wrong) ==
  { sh \in [header : headers, size : sizes, length : sizes \cup wrong \cup { Undeclared }] :
      sh.length \in { sh.size, Undeclared } \cup wrong }

SeqsUpTo(n, shapes) == UNION { [1 .. m -> shapes] : m \in 1 .. n }

\* The positions of parts of these shapes, one behind the other.
EndOf(sh) ==
  LET f[k \in 0 .. Len(sh)] ==
        IF k = 0 THEN 0 ELSE f[k - 1] + sh[k].header + sh[k].size
  IN  f

Layout(sh) ==
  [k \in DOMAIN sh |->
     [soi |-> EndOf(sh)[k - 1] + sh[k].header, end |-> EndOf(sh)[k],
      length |-> sh[k].length]]

\* Streams of them, complete or cut short in the last.
StreamsOf(shapes) ==
  { [parts |-> Layout(sh), total |-> EndOf(sh)[Len(sh)] - cut] : sh \in shapes, cut \in 0 .. 1 }

\* Up to MaxParts parts that are honest, no header shorter than one before it, or
\* every one with a Content-Length; and any two.
HonestStreams ==
  LET any(n) == SeqsUpTo(n, Shapes({ 1, 2 }, { 4, 5, 13 }, { })) IN
  StreamsOf({ sh \in any(MaxParts) :
                \/ \A k, m \in DOMAIN sh : k < m => sh[k].header <= sh[m].header
                \/ \A k \in DOMAIN sh : sh[k].length # Undeclared } \cup any(2))

\* Up to two parts, with lengths that lie: negative, too short, beyond the stream,
\* and such that adding HEADER_MAX_LENGTH overflows.
LyingStreams ==
  StreamsOf(SeqsUpTo(2, Shapes({ 0, 1, 2 }, { 4, 7, 13 }, { -1, 0, 3, 100, 254 })))

EmptyStream == [parts |-> << >>, total |-> 0]
MCStreams == HonestStreams \cup LyingStreams \cup { EmptyStream }

-----------------------------------------------------------------------------
\* A call of getEndOfSeqeunce that has returned.
ScanOver == input = << >> /\ limit = 0 /\ i = 0 /\ seqIndex = 0 /\ scan = "none"

BothInit ==
  /\ Init
  /\ IF stream = EmptyStream THEN ScanInit ELSE ScanOver

BothNext ==
  \/ ScanNext /\ UNCHANGED vars
  \/ Next /\ UNCHANGED scanVars

BothSpec == BothInit /\ [][BothNext]_<< vars, scanVars >> /\ Fairness

=============================================================================
