----------------------------- MODULE MarkerScan -----------------------------
(***************************************************************************)
(* The byte loop of MjpegInputStream.getEndOfSeqeunce, which looks for a   *)
(* JPEG marker, the byte FF and then a Code, in the next bytes of the      *)
(* stream.  getEndOfSeqeunceSimplified runs the same loop over fewer bytes.*)
(*                                                                         *)
(* seqIndex goes back to 0 on a mismatch without looking at the byte       *)
(* again, so FF FF Code is not seen as FF followed by FF Code.             *)
(***************************************************************************)
EXTENDS Integers, Sequences

CONSTANTS
  Byte,    \* the bytes told apart
  FF,      \* the first byte of the marker
  Code,    \* the second: D8 starts an image, D9 ends it
  Inputs,  \* what the stream may hold before it ends
  Limits   \* how many bytes a call looks at: FRAME_MAX_LENGTH, or a window

ASSUME ScanAssumption ==
  /\ FF \in Byte /\ Code \in Byte /\ FF # Code
  /\ Inputs \subseteq Seq(Byte)
  /\ Limits \subseteq Nat

VARIABLES
  input,     \* the bytes of this stream
  limit,     \* the bound of this call's loop
  i,         \* bytes read so far
  seqIndex,  \* bytes of the marker matched so far
  scan         \* "reading", or how the call ended: "found" returns i, "none" -1

scanVars == << input, limit, i, seqIndex, scan >>

ScanTypeOK ==
  /\ input \in Inputs
  /\ limit \in Limits
  /\ i \in 0 .. Len(input)
  /\ seqIndex \in 0 .. 1
  /\ scan \in { "reading", "found", "none", "eof" }

ScanInit ==
  /\ input \in Inputs
  /\ limit \in Limits
  /\ i = 0
  /\ seqIndex = 0
  /\ scan = "reading"

\* The marker's byte that the loop waits for: sequence[seqIndex].
Wanted == IF seqIndex = 0 THEN FF ELSE Code

CanRead == scan = "reading" /\ i < limit /\ i < Len(input)

\* Faulty variant: a mismatch leaves the index as it is.
MismatchKeeps ==
  /\ CanRead
  /\ input[i + 1] # Wanted
  /\ i' = i + 1
  /\ UNCHANGED << input, limit, seqIndex, scan >>

Match ==
  /\ CanRead
  /\ input[i + 1] = Wanted
  /\ i' = i + 1
  /\ IF seqIndex = 1
       THEN scan' = "found" /\ UNCHANGED seqIndex
       ELSE seqIndex' = 1 /\ UNCHANGED scan
  /\ UNCHANGED << input, limit >>

Mismatch ==
  /\ CanRead
  /\ input[i + 1] # Wanted
  /\ i' = i + 1
  /\ seqIndex' = 0
  /\ UNCHANGED << input, limit, scan >>

\* return -1
GiveUp ==
  /\ scan = "reading" /\ i = limit
  /\ scan' = "none"
  /\ UNCHANGED << input, limit, i, seqIndex >>

\* readUnsignedByte throws EOFException.
EndOfFile ==
  /\ scan = "reading" /\ i < limit /\ i = Len(input)
  /\ scan' = "eof"
  /\ UNCHANGED << input, limit, i, seqIndex >>

ScanNext == Match \/ Mismatch \/ GiveUp \/ EndOfFile

ScanSpec == ScanInit /\ [][ScanNext]_scanVars

-----------------------------------------------------------------------------
(* Properties                                                              *)

\* A marker of the JPEG format ends at byte k; and there is a pad byte before it.
Marker(k) == k >= 2 /\ input[k - 1] = FF /\ input[k] = Code
Padded(k) == k >= 3 /\ input[k - 2] = FF

\* What the call finds is a marker, whatever came before it, and it passes over none
\* but padded ones: on a stream without padding it is the first.
MarkersFound ==
  /\ scan = "found" => Marker(i)
  /\ \A k \in 1 .. i : Marker(k) /\ ~Padded(k) => scan = "found" /\ k = i

\* The inductive invariant: an index of 1 means an FF just read, and an FF that is no
\* padding sets it.
Watching ==
  /\ ScanTypeOK
  /\ MarkersFound
  /\ scan = "reading" =>
       /\ seqIndex = 1 => i >= 1 /\ input[i] = FF
       /\ i >= 1 /\ input[i] = FF /\ (i = 1 \/ input[i - 1] # FF) => seqIndex = 1

=============================================================================
