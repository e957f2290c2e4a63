---------------------------- MODULE DamagedScans ----------------------------
(***************************************************************************)
(* RestartSync over every scan with one damage.  A stream is what is kept of  *)
(* a scan before the damage, a marker that does not belong there, if any, and *)
(* what is kept from some place on; the segments first to last have a damaged *)
(* place in them, or at their end.                                           *)
(***************************************************************************)
EXTENDS RestartSync

\* A scan: the data of the MCUs of each segment, and a marker.
Size == Interval + 1
ScanLength == Segments * Size
SegmentAt(p) == (p - 1) \div Size + 1
Code(i) == M_RST0 + ((i - 1) % 8)
Scan == [p \in 1..ScanLength |->
           IF p % Size # 0 THEN << SegmentAt(p), p % Size >>
           ELSE IF p = ScanLength THEN Marker(M_EOI) ELSE Marker(Code(SegmentAt(p)))]
MarkerPlaces == { i * Size : i \in 1..(Segments - 1) }
Stream(kind, kept, wrong, from, a, b) ==
  [kind |-> kind, kept |-> kept, wrong |-> wrong, from |-> from,
   first |-> SegmentAt(a), last |-> SegmentAt(b),
   items |-> SubSeq(Scan, 1, kept) \o wrong \o SubSeq(Scan, from, ScanLength)]

Whole == { Stream("whole", ScanLength, << >>, ScanLength + 1, 1, 1) }
\* A stretch with at most two markers is lost: from the segment of its first
\* item to that of the item that now follows.
Lost == { Stream("lost", ab[1] - 1, << >>, ab[2] + 1, ab[1], ab[2] + 1) : ab \in
            { ab \in (1..(ScanLength - 1)) \X (1..(ScanLength - 1)) :
                ab[1] <= ab[2] /\ SegmentAt(ab[2] + 1) - SegmentAt(ab[1]) <= 2 } }
\* A marker has the number of another, or is no restart marker at all.
Codes == M_RST0..M_RST7 \cup { 1 }
Changed == { Stream("changed", p - 1, << Marker(c) >>, p + 1, p, p) : p \in MarkerPlaces, c \in Codes }
\* A marker too many, in or after the data; "strayed" if it is the one due two
\* segments later, which the decoder takes for two markers lost.
Extra(kind, p, c) == Stream(kind, p, << Marker(c) >>, p + 1, p, p)
Added == { Extra(IF c = Code(SegmentAt(p + 1) + 2) THEN "strayed" ELSE "added", p, c) :
             p \in 1..(ScanLength - 2), c \in Codes }
\* The scan ends early.
Ended == { Extra("ended", p, M_EOI) : p \in 1..(ScanLength - 2) }
AllStreams == Whole \cup Lost \cup Changed \cup Added \cup Ended

\* Any scan, with any of these done to it.
RestartAssumption ==
  /\ Segments \in Nat \ { 0 } /\ Interval \in Nat \ { 0 }
  /\ Streams \subseteq AllStreams

-----------------------------------------------------------------------------
SegmentOf(p) == (p - 1) \div Interval + 1
Own(p) == << SegmentOf(p), ((p - 1) % Interval) + 1 >>
Right(p) == placed[p] = Own(p)

ScanTypeOK ==
  /\ have \in 0..Len(stream) /\ unread \in 0..254 /\ nextRst \in 0..7 /\ toGo \in 0..Interval
  /\ insufficient \in BOOLEAN /\ phase \in { "mcu", "restart", "scan" } /\ Len(placed) <= Total

\* Where a stretch is lost with at most two markers in it, every MCU of a
\* segment it does not touch is in its place: nothing is shifted, before or
\* after (jpeg_resync_to_restart).
LossContained ==
  damage.kind \in { "whole", "lost" } =>
    \A p \in DOMAIN placed : SegmentOf(p) \notin damage.first..damage.last \/ damage.kind = "whole" => Right(p)

\* After a marker with a wrong number, or one too many, the decoder is in step
\* again by the fourth segment after it, whatever the number was
\* (jpeg_resync_to_restart), but for a stray one two ahead of the one due.
BackInStep ==
  damage.kind \in { "changed", "added" } =>
    \A p \in DOMAIN placed : SegmentOf(p) < damage.first \/ SegmentOf(p) > damage.last + 3 => Right(p)

\* The decoder never reads past the marker that ends the scan, early or not:
\* what follows it is there for the marker reader.
Gone == Len(damage.items) - Len(stream)
StopsAtEnd == \A i \in 1..Gone : damage.items[i] = Marker(M_EOI) <=> i = Gone /\ unread = M_EOI

\* However the file is damaged, the decoder can go on until every MCU has got
\* something: once all is at hand it neither looks for a marker that will not
\* come nor waits for data that are not there.
NeverStuck ==
  have = Len(stream) /\ Decoding =>
    /\ LookingForMarker => have > 0
    /\ phase = "mcu" /\ toGo > 0 => have > 0 \/ insufficient \/ unread # 0

\* All of these.
DamageContained == ScanTypeOK /\ LossContained /\ BackInStep /\ StopsAtEnd /\ NeverStuck
=============================================================================
