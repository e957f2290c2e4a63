----------------------------- MODULE RestartSync -----------------------------
(***************************************************************************)
(* How the decoder keeps its place in a scan with restart markers when the   *)
(* file is damaged: read_restart_marker and jpeg_resync_to_restart           *)
(* (jdmarker.c) with next_marker, under decode_mcu and process_restart of    *)
(* the Huffman decoder (jdhuff.c).  The scan is a sequence of items: the     *)
(* data of one MCU, << segment, place >>, or a marker code.  MCUs are put    *)
(* in a row, in placed, as the decoder finds them: a "zero" MCU is left      *)
(* blank, a "stuffed" one is decoded from zero bits.                        *)
(***************************************************************************)
EXTENDS Integers, Sequences

CONSTANTS Segments,   \* segments of the scan, between restart markers
          Interval,   \* MCUs of a segment (restart_interval)
          Streams     \* the scan as it reaches the decoder, and the last item that is damaged

VARIABLES stream,        \* the items not read yet
          have,          \* how many of them are at hand
          unread,        \* cinfo->unread_marker, 0 for none
          nextRst,       \* next_restart_num
          toGo,          \* restarts_to_go
          insufficient,  \* insufficient_data: the segment has run out
          phase,         \* "mcu", "restart" (looking for the marker) or "scan" (resync looks for another)
          placed,        \* what each MCU position got
          damage         \* which stream it is
syncVars == << stream, have, unread, nextRst, toGo, insufficient, phase, placed, damage >>

M_RST0 == 208  M_RST7 == 215  M_SOF0 == 192  M_EOI == 217
IsMarker(item) == Len(item) = 1
Marker(code) == << code >>
Total == Segments * Interval
Decoding == Len(placed) < Total

SyncInit ==
  /\ damage \in Streams /\ stream = damage.items /\ have = 0
  /\ unread = 0 /\ nextRst = 0 /\ toGo = Interval /\ insufficient = FALSE
  /\ phase = "mcu" /\ placed = << >>

MoreArrives ==
  /\ Decoding /\ have < Len(stream)
  /\ \E n \in { 1, Len(stream) - have } : have' = have + n
  /\ UNCHANGED << stream, unread, nextRst, toGo, insufficient, phase, placed, damage >>

Consume == stream' = Tail(stream) /\ have' = have - 1

(* decode_mcu *)
Place(what) == placed' = Append(placed, what) /\ toGo' = toGo - 1
\* The MCU is read, or the data have run out and it is made of zero bits.
DecodeData ==
  /\ Decoding /\ phase = "mcu" /\ toGo > 0 /\ ~insufficient /\ unread = 0 /\ have > 0
  /\ Consume
  /\ IF IsMarker(Head(stream))
     THEN unread' = Head(stream)[1] /\ insufficient' = TRUE /\ Place("stuffed")
     ELSE UNCHANGED << unread, insufficient >> /\ Place(Head(stream))
  /\ UNCHANGED << nextRst, phase, damage >>
DecodeEmpty ==
  /\ Decoding /\ phase = "mcu" /\ toGo > 0 /\ (insufficient \/ unread # 0)
  /\ insufficient' = TRUE
  /\ Place(IF insufficient THEN "zero" ELSE "stuffed")
  /\ UNCHANGED << stream, have, unread, nextRst, phase, damage >>
\* With the last bits of a segment the marker after it may be read.
PeekMarker ==
  /\ Decoding /\ phase = "mcu" /\ ~insufficient /\ unread = 0 /\ have > 0 /\ placed # << >>
  /\ IsMarker(Head(stream)) /\ unread' = Head(stream)[1] /\ Consume
  /\ UNCHANGED << nextRst, toGo, insufficient, phase, placed, damage >>

(* process_restart *)
BeginRestart ==
  /\ Decoding /\ phase = "mcu" /\ toGo = 0
  /\ phase' = "restart"
  /\ UNCHANGED << stream, have, unread, nextRst, toGo, insufficient, placed, damage >>
\* next_marker: data in front of the next marker are dropped.
LookingForMarker == phase = "scan" \/ (phase = "restart" /\ unread = 0)
SeekMarker ==
  /\ Decoding /\ LookingForMarker /\ have > 0 /\ Consume
  /\ IF IsMarker(Head(stream)) THEN unread' = Head(stream)[1] /\ phase' = "restart"
                               ELSE UNCHANGED << unread, phase >>
  /\ UNCHANGED << nextRst, toGo, insufficient, placed, damage >>
\* What is at hand has run out: everybody returns FALSE, and starts again with
\* the marker it had.
SuspendRestart ==
  /\ Decoding /\ LookingForMarker /\ have = 0
  /\ phase' = "mcu"
  /\ UNCHANGED << stream, have, unread, nextRst, toGo, insufficient, placed, damage >>

Away(n) == M_RST0 + ((nextRst + n) % 8)
Expected(code) == code = Away(0)
\* Faulty variant: only the next marker counts as a future one.
FutureNext(code) == code = Away(1)
Future(code) == code \in { Away(1), Away(2) }
Prior(code) == code \in { Away(-1), Away(-2) }
Action(code) ==
  CASE code < M_SOF0 -> 2
    [] code >= M_SOF0 /\ (code < M_RST0 \/ code > M_RST7) -> 3
    [] code \in M_RST0..M_RST7 /\ Future(code) -> 3
    [] code \in M_RST0..M_RST7 /\ Prior(code) -> 2
    [] OTHER -> 1

Restarted(left) ==
  /\ unread' = left
  /\ insufficient' = (insufficient /\ left # 0)
  /\ nextRst' = (nextRst + 1) % 8 /\ toGo' = Interval /\ phase' = "mcu"
  /\ UNCHANGED << stream, have, placed, damage >>
SwallowMarker == /\ Decoding /\ phase = "restart" /\ unread # 0 /\ Expected(unread)
                 /\ Restarted(0)
Discard == /\ Decoding /\ phase = "restart" /\ unread # 0 /\ ~Expected(unread) /\ Action(unread) = 1
           /\ Restarted(0)
LeaveUnread == /\ Decoding /\ phase = "restart" /\ unread # 0 /\ ~Expected(unread) /\ Action(unread) = 3
               /\ Restarted(unread)
ScanForward == /\ Decoding /\ phase = "restart" /\ unread # 0 /\ ~Expected(unread) /\ Action(unread) = 2
               /\ phase' = "scan"
               /\ UNCHANGED << stream, have, unread, nextRst, toGo, insufficient, placed, damage >>

DecodeMcu == DecodeData \/ DecodeEmpty \/ PeekMarker
ProcessRestart == BeginRestart \/ SeekMarker \/ SuspendRestart \/ SwallowMarker \/ Discard \/ LeaveUnread \/ ScanForward
SyncNext == MoreArrives \/ DecodeMcu \/ ProcessRestart
SyncSpec == SyncInit /\ [][SyncNext]_syncVars /\ WF_syncVars(MoreArrives) /\ WF_syncVars(DecodeMcu \/ ProcessRestart)
=============================================================================
