------------------------ MODULE NativeDecoderProofs ------------------------
(***************************************************************************)
(* What the native decoder keeps to, for any number of render threads, any *)
(* frames and any bitmap: where it writes, which buffer it uses and what   *)
(* it shows.                                                               *)
(***************************************************************************)
EXTENDS NativeDecoder, FiniteSetTheorems, SequenceTheorems, TLAPS

-----------------------------------------------------------------------------
(* Types                                                                   *)

\* What the assumption says of the use at hand.
LEMMA UseFacts ==
  ASSUME use \in Uses
  PROVE  /\ NULL \notin Nat
         /\ use.threads \subseteq Threads /\ IsFiniteSet(use.threads)
         /\ BmpWidth \in Nat \ { 0 } /\ BmpHeight \in Nat \ { 0 }
         /\ BmpWidth * BmpHeight \in Nat \ { 0 }
         /\ SizeWrap \in Nat \ { 0 } /\ BmpWidth * BmpHeight < SizeWrap
         /\ Frames # { }
         /\ \A f \in Frames : f.width \in Nat \ { 0 } /\ f.height \in Nat \ { 0 }
<1>1. /\ NULL \notin Nat /\ SizeWrap \in Nat \ { 0 } /\ BmpWidth * BmpHeight < SizeWrap
      /\ use.threads \subseteq Threads /\ IsFiniteSet(use.threads)
      /\ BmpWidth \in Nat \ { 0 } /\ BmpHeight \in Nat \ { 0 }
      /\ Frames # { }
      /\ \A f \in Frames : f.width \in Nat \ { 0 } /\ f.height \in Nat \ { 0 }
  BY UseAssumption DEF BmpWidth, BmpHeight, Frames
<1>2. BmpWidth * BmpHeight \in Nat \ { 0 }
  <2> DEFINE w == BmpWidth
             h == BmpHeight
  <2>1. w \in Nat \ { 0 } /\ h \in Nat \ { 0 }
    BY <1>1
  <2> HIDE DEF w, h
  <2>2. w * h \in Nat \ { 0 }
    BY <2>1
  <2> QED  BY <2>2 DEF w, h
<1> QED  BY <1>1, <1>2

\* What malloc is asked for: no more than the pixels of the frame, and these unless
\* their bytes are too many for a size_t.
LEMMA SizeFacts ==
  ASSUME NEW w \in Nat, NEW h \in Nat
  PROVE  /\ w * h \in Nat /\ BufferSize(w, h) \in Nat /\ BufferSize(w, h) <= w * h
         /\ w * h < SizeWrap => BufferSize(w, h) = w * h
<1> DEFINE n == w * h
           m == SizeWrap
<1>1. n \in Nat /\ m \in Nat \ { 0 }
  BY UseAssumption
<1> HIDE DEF n, m
<1>2. n % m \in Nat /\ n % m <= n /\ (n < m => n % m = n)
  BY <1>1
<1> QED  BY <1>1, <1>2 DEF BufferSize, n, m

\* Sizes of buffers are numbers, and a buffer has that many pixels.
LEMMA BlockFacts ==
  ASSUME DecoderTypeOK
  PROVE  /\ Len(block) \in Nat /\ Blocks = 1 .. Len(block) /\ NULL \notin Blocks
         /\ \A n \in Areas : n \in Nat
         /\ \A b \in Blocks : /\ block[b] \in Buffer
                              /\ block[b].size \in Nat /\ block[b].live \in BOOLEAN
                              /\ DOMAIN block[b].px = 0 .. block[b].size - 1
                              /\ block[b].px \in [0 .. block[b].size - 1 -> Pixels]
<1>1. use \in Uses /\ block \in Seq(Buffer)
  BY DEF DecoderTypeOK
<1>2. /\ Len(block) \in Nat /\ Blocks = 1 .. Len(block) /\ NULL \notin Blocks
      /\ \A b \in Blocks : block[b] \in Buffer
  <2> HIDE DEF Buffer
  <2>1. Len(block) \in Nat /\ Blocks = 1 .. Len(block)
    BY <1>1, LenProperties DEF Blocks
  <2> QED  BY <1>1, <2>1, ElementOfSeq, UseFacts
<1>3. \A n \in Areas : n \in Nat
  <2> SUFFICES ASSUME NEW f \in Frames, NEW g \in Frames
               PROVE  BufferSize(f.width, g.height) \in Nat
    BY DEF Areas
  <2>1. f.width \in Nat /\ g.height \in Nat
    BY <1>1, UseFacts
  <2> QED  BY <2>1, SizeFacts
<1>4. ASSUME NEW b \in Blocks
      PROVE  /\ block[b].size \in Nat /\ block[b].live \in BOOLEAN
             /\ DOMAIN block[b].px = 0 .. block[b].size - 1
             /\ block[b].px \in [0 .. block[b].size - 1 -> Pixels]
  <2>1. block[b] \in Buffer
    BY <1>2
  <2>2. DOMAIN block[b].px = 0 .. block[b].size - 1
    BY DEF DecoderTypeOK
  <2>3. PICK n \in Areas : block[b].px \in [0 .. n - 1 -> Pixels]
    BY <2>1 DEF Buffer
  <2>4. block[b].px \in [DOMAIN block[b].px -> Pixels]
    BY <2>3
  <2>5. block[b].size \in Areas /\ block[b].live \in BOOLEAN
    BY <2>1 DEF Buffer
  <2> QED  BY <1>3, <2>2, <2>4, <2>5
<1> QED  BY <1>2, <1>3, <1>4

LEMMA TypeInit == DecoderInit => DecoderTypeOK
<1> SUFFICES ASSUME DecoderInit
             PROVE  DecoderTypeOK
  OBVIOUS
<1>1. use \in Uses /\ Frames # { }
  BY UseFacts DEF DecoderInit
<1>2. block = << >> /\ block \in Seq(Buffer) /\ Blocks = { }
  BY DEF DecoderInit, Blocks
<1>3. frame \in [Threads -> Frames]
  BY <1>1 DEF DecoderInit
<1>4. bitmap \in [0 .. BmpWidth * BmpHeight - 1 -> Pixels]
  BY DEF DecoderInit, Pixels
<1>5. /\ pc \in [Threads -> Places] /\ \A t \in Threads : pc[t] = "out"
      /\ outp \in [Threads -> Blocks \cup { NULL }]
  BY DEF DecoderInit, Places
<1>6. /\ y \in [Threads -> Int] /\ line \in [Threads -> Nat]
      /\ i \in [Threads -> Nat] /\ count \in [Threads -> Int]
  BY DEF DecoderInit
<1>7. /\ rgb = NULL /\ IMG_WIDTH = -1 /\ IMG_HEIGHT = -1 /\ freeing = "out" /\ freed = FALSE
      /\ starved = FALSE /\ fault = NoFault
  BY DEF DecoderInit
<1> QED  BY <1>1, <1>2, <1>3, <1>4, <1>5, <1>6, <1>7 DEF DecoderTypeOK

\* These depend on the use only.
LEMMA SameUse ==
  ASSUME UNCHANGED use
  PROVE  /\ Frames' = Frames /\ BmpWidth' = BmpWidth /\ BmpHeight' = BmpHeight
         /\ Pixels' = Pixels /\ Areas' = Areas /\ Buffer' = Buffer
         /\ Single' <=> Single
         /\ Uniform' <=> Uniform
BY DEF Frames, BmpWidth, BmpHeight, Pixels, Areas, Buffer, Single, Uniform

\* A step that moves one thread on.
LEMMA Moves ==
  ASSUME DecoderTypeOK, NEW t \in Threads, NEW from, NEW to \in Places, Goto(t, from, to)
  PROVE  /\ pc' \in [Threads -> Places] /\ pc[t] = from /\ pc'[t] = to /\ fault = NoFault
         /\ \A s \in Threads : s # t => pc'[s] = pc[s]
BY DEF DecoderTypeOK, Goto

\* A step that moves one thread on and changes nothing else keeps the types.
LEMMA TypeMoves ==
  ASSUME DecoderTypeOK, NEW t \in Threads, NEW from, NEW to \in Places, Goto(t, from, to),
         to \notin { "height", "alloc", "lines" },
         UNCHANGED << globals, bitmap, locals, freeing, fault >>
  PROVE  DecoderTypeOK'
<1>1. /\ pc' \in [Threads -> Places] /\ pc'[t] \notin { "height", "alloc", "lines" }
      /\ \A s \in Threads : s # t => pc'[s] = pc[s]
  BY Moves
<1>2. UNCHANGED << use, rgb, IMG_WIDTH, IMG_HEIGHT, block, freed, starved, bitmap, frame, outp, y, line,
                   i, count, freeing, fault >>
  BY DEF globals, locals
<1>3. Frames' = Frames /\ Blocks' = Blocks /\ BmpWidth' = BmpWidth /\ BmpHeight' = BmpHeight
      /\ Pixels' = Pixels /\ Buffer' = Buffer
  BY <1>2, SameUse DEF Blocks
<1> QED  BY <1>1, <1>2, <1>3 DEF DecoderTypeOK, NoFault

LEMMA TypeEnter ==
  ASSUME DecoderTypeOK, NEW t \in Threads, NEW f \in Frames, Enter(t, f)
  PROVE  DecoderTypeOK'
<1>1. /\ pc' \in [Threads -> Places]
      /\ pc'[t] \in { "size", "test" } /\ \A s \in Threads : s # t => pc'[s] = pc[s]
  BY Moves DEF Enter, Places
<1>2. /\ frame' \in [Threads -> Frames] /\ \A s \in Threads : s # t => frame'[s] = frame[s]
  BY DEF DecoderTypeOK, Enter
<1>3. UNCHANGED << use, rgb, IMG_WIDTH, IMG_HEIGHT, block, freed, starved, bitmap, outp, y, line, i,
                   count, freeing, fault >>
  BY DEF Enter, globals
<1>4. Frames' = Frames /\ Blocks' = Blocks /\ BmpWidth' = BmpWidth /\ BmpHeight' = BmpHeight
      /\ Pixels' = Pixels /\ Buffer' = Buffer
  BY <1>3, SameUse DEF Blocks
<1> QED  BY <1>1, <1>2, <1>3, <1>4 DEF DecoderTypeOK, NoFault

LEMMA TypeSetSizes ==
  ASSUME DecoderTypeOK, NEW t \in Threads, SetWidth(t) \/ SetHeight(t)
  PROVE  DecoderTypeOK'
<1>1. /\ pc' \in [Threads -> Places] /\ \A s \in Threads : s # t => pc'[s] = pc[s]
      /\ \/ pc'[t] = "height" /\ IMG_WIDTH' = frame[t].width /\ IMG_HEIGHT' = IMG_HEIGHT
         \/ pc'[t] = "alloc" /\ IMG_WIDTH' = IMG_WIDTH /\ IMG_HEIGHT' = frame[t].height
            /\ pc[t] = "height"
  BY Moves DEF SetWidth, SetHeight, Places
<1>2. UNCHANGED << use, rgb, block, freed, starved, bitmap, frame, outp, y, line, i, count, freeing,
                   fault >>
  BY DEF SetWidth, SetHeight, locals
<1>3. Frames' = Frames /\ Blocks' = Blocks /\ BmpWidth' = BmpWidth /\ BmpHeight' = BmpHeight
      /\ Pixels' = Pixels /\ Buffer' = Buffer
  BY <1>2, SameUse DEF Blocks
<1>4. frame[t] \in Frames /\ frame[t].width # -1 /\ frame[t].height # -1
  BY UseFacts DEF DecoderTypeOK
<1>5. /\ IMG_WIDTH' = frame[t].width \/ IMG_WIDTH' = IMG_WIDTH
      /\ IMG_HEIGHT' = frame[t].height \/ IMG_HEIGHT' = IMG_HEIGHT
      /\ pc'[t] = "height" => IMG_WIDTH' = frame[t].width
      /\ pc'[t] = "alloc" => IMG_HEIGHT' = frame[t].height
  BY <1>1
<1>6. /\ IMG_WIDTH' \in { f.width : f \in Frames } \cup { -1 }
      /\ IMG_HEIGHT' \in { f.height : f \in Frames } \cup { -1 }
      /\ IMG_WIDTH # -1 => IMG_WIDTH' # -1
      /\ IMG_HEIGHT # -1 => IMG_HEIGHT' # -1
  BY <1>4, <1>5 DEF DecoderTypeOK
<1>7. \A s \in Threads : /\ pc'[s] \in { "height", "alloc" } => IMG_WIDTH' # -1
                         /\ pc'[s] = "alloc" => IMG_HEIGHT' # -1
  BY <1>1, <1>4, <1>5, <1>6 DEF DecoderTypeOK
<1> QED  BY <1>1, <1>2, <1>3, <1>6, <1>7 DEF DecoderTypeOK, NoFault

\* The sizes that an allocation finds were set.
LEMMA AllocateFacts ==
  ASSUME DecoderTypeOK, NEW t \in Threads, Allocate(t)
  PROVE  LET size == BufferSize(IMG_WIDTH, IMG_HEIGHT)
             new  == [size |-> size, live |-> TRUE, px |-> [p \in 0 .. size - 1 |-> Junk]]
         IN  /\ size \in Areas /\ new \in Buffer
             /\ block' = Append(block, new) /\ Len(block') = Len(block) + 1
             /\ block' \in Seq(Buffer)
             /\ Blocks' = 1 .. (Len(block) + 1) /\ rgb' = Len(block) + 1
             /\ \A b \in Blocks : block'[b] = block[b]
             /\ block'[rgb'] = new
<1> DEFINE size == BufferSize(IMG_WIDTH, IMG_HEIGHT)
           new  == [size |-> size, live |-> TRUE, px |-> [p \in 0 .. size - 1 |-> Junk]]
<1>1. pc[t] = "alloc" /\ block' = Append(block, new) /\ rgb' = Len(block')
  BY DEF Allocate, Goto
<1>2. size \in Areas
  BY <1>1 DEF DecoderTypeOK, Areas
<1>3. new \in Buffer
  <2>1. new.px \in [0 .. size - 1 -> Pixels]
    BY DEF Pixels
  <2> QED  BY <1>2, <2>1 DEF Buffer
<1>4. block \in Seq(Buffer)
  BY DEF DecoderTypeOK
<1> HIDE DEF new
<1>5. /\ Len(block') = Len(block) + 1 /\ Blocks' = 1 .. (Len(block) + 1) /\ block' \in Seq(Buffer)
      /\ \A b \in Blocks : block'[b] = block[b]
      /\ block'[Len(block) + 1] = new
  <2> HIDE DEF Buffer
  <2> QED  BY <1>1, <1>3, <1>4, AppendProperties, LenProperties DEF Blocks
<1> QED  BY <1>1, <1>2, <1>3, <1>5 DEF new

LEMMA TypeAllocate ==
  ASSUME DecoderTypeOK, NEW t \in Threads, Allocate(t)
  PROVE  DecoderTypeOK'
<1> DEFINE size == BufferSize(IMG_WIDTH, IMG_HEIGHT)
           new  == [size |-> size, live |-> TRUE, px |-> [p \in 0 .. size - 1 |-> Junk]]
<1>1. /\ pc' \in [Threads -> Places] /\ pc'[t] = "take"
      /\ \A s \in Threads : s # t => pc'[s] = pc[s]
  BY Moves DEF Allocate, Places
<1>2. UNCHANGED << use, IMG_WIDTH, IMG_HEIGHT, freed, starved, bitmap, frame, outp, y, line, i, count,
                   freeing, fault >>
  BY DEF Allocate, locals
<1>3. Frames' = Frames /\ BmpWidth' = BmpWidth /\ BmpHeight' = BmpHeight
      /\ Pixels' = Pixels /\ Buffer' = Buffer
  BY <1>2, SameUse
<1>4. /\ block' \in Seq(Buffer) /\ Blocks' = 1 .. (Len(block) + 1) /\ rgb' = Len(block) + 1
      /\ \A b \in Blocks : block'[b] = block[b]
      /\ block'[rgb'] = new
  BY AllocateFacts
<1>5. new.size = size /\ DOMAIN new.px = 0 .. size - 1
  OBVIOUS
<1> HIDE DEF new
<1>6. \A b \in Blocks' : DOMAIN block'[b].px = 0 .. block'[b].size - 1
  <2>1. Len(block) \in Nat /\ Blocks = 1 .. Len(block)
    BY BlockFacts
  <2> SUFFICES ASSUME NEW b \in Blocks'
               PROVE  DOMAIN block'[b].px = 0 .. block'[b].size - 1
    OBVIOUS
  <2>2. CASE b = Len(block) + 1
    BY <1>4, <1>5, <2>2
  <2>3. CASE b # Len(block) + 1
    <3>1. b \in Blocks
      BY <1>4, <2>1, <2>3
    <3> QED  BY <1>4, <3>1 DEF DecoderTypeOK
  <2> QED  BY <2>2, <2>3
<1>7. rgb' \in Blocks' /\ rgb' # NULL /\ Blocks \subseteq Blocks'
  <2>1. Len(block) \in Nat /\ Blocks = 1 .. Len(block) /\ NULL \notin Nat
    BY BlockFacts, UseFacts DEF DecoderTypeOK
  <2> QED  BY <1>4, <2>1
<1> QED  BY <1>1, <1>2, <1>3, <1>4, <1>6, <1>7 DEF DecoderTypeOK, NoFault

LEMMA TypeAllocateFails ==
  ASSUME DecoderTypeOK, NEW t \in Threads, AllocateFails(t)
  PROVE  DecoderTypeOK'
<1>1. /\ pc' \in [Threads -> Places] /\ pc'[t] = "take"
      /\ \A s \in Threads : s # t => pc'[s] = pc[s]
  BY Moves DEF AllocateFails, Places
<1>2. /\ UNCHANGED << use, IMG_WIDTH, IMG_HEIGHT, block, freed, bitmap, frame, outp, y, line, i,
                      count, freeing, fault >>
      /\ rgb' = NULL /\ starved' \in BOOLEAN
  BY DEF AllocateFails, locals
<1>3. Frames' = Frames /\ Blocks' = Blocks /\ BmpWidth' = BmpWidth /\ BmpHeight' = BmpHeight
      /\ Pixels' = Pixels /\ Buffer' = Buffer
  BY <1>2, SameUse DEF Blocks
<1> QED  BY <1>1, <1>2, <1>3 DEF DecoderTypeOK, NoFault

LEMMA TypeTake ==
  ASSUME DecoderTypeOK, NEW t \in Threads, TakeBuffer(t) \/ TakeSource(t)
  PROVE  DecoderTypeOK'
<1>1. /\ pc' \in [Threads -> Places] /\ pc'[t] \in { "lines", "copy" }
      /\ \A s \in Threads : s # t => pc'[s] = pc[s]
  BY Moves DEF TakeBuffer, TakeSource, Places
<1>2. UNCHANGED << use, rgb, IMG_WIDTH, IMG_HEIGHT, block, freed, starved, bitmap, frame, count,
                   freeing, fault >>
  BY DEF TakeBuffer, TakeSource, globals
<1>3. Frames' = Frames /\ Blocks' = Blocks /\ BmpWidth' = BmpWidth /\ BmpHeight' = BmpHeight
      /\ Pixels' = Pixels /\ Buffer' = Buffer
  BY <1>2, SameUse DEF Blocks
<1>4. outp' \in [Threads -> Blocks \cup { NULL }]
  BY DEF DecoderTypeOK, TakeBuffer, TakeSource
<1>5. /\ y' \in [Threads -> Int] /\ line' \in [Threads -> Nat] /\ i' \in [Threads -> Nat]
      /\ \A s \in Threads : s # t => line'[s] = line[s]
      /\ pc'[t] = "lines" => line'[t] = 0
  <2>1. CASE TakeBuffer(t)
    BY <2>1 DEF DecoderTypeOK, TakeBuffer
  <2>2. CASE TakeSource(t)
    <3>1. UNCHANGED << y, line >> /\ i' = [i EXCEPT ![t] = 0] /\ pc'[t] = "copy"
      BY <2>2, Moves DEF TakeSource, Places
    <3> QED  BY <3>1 DEF DecoderTypeOK
  <2> QED  BY <2>1, <2>2
<1>6. frame[t] \in Frames /\ frame[t].height \in Nat
  BY UseFacts DEF DecoderTypeOK
<1>7. ASSUME NEW s \in Threads, pc'[s] = "lines"
      PROVE  line'[s] <= frame[s].height
  <2>1. CASE s = t
    BY <1>5, <1>6, <1>7, <2>1
  <2>2. CASE s # t
    BY <1>1, <1>5, <1>7, <2>2 DEF DecoderTypeOK
  <2> QED  BY <2>1, <2>2
<1> QED  BY <1>1, <1>2, <1>3, <1>4, <1>5, <1>7, ZenonT(60) DEF DecoderTypeOK, NoFault

LEMMA TypeReadSize ==
  ASSUME DecoderTypeOK, NEW t \in Threads, ReadSize(t)
  PROVE  DecoderTypeOK'
<1>1. /\ pc' \in [Threads -> Places] /\ pc'[t] = "check"
      /\ \A s \in Threads : s # t => pc'[s] = pc[s]
  BY Moves DEF ReadSize, Places
<1>2. UNCHANGED << use, rgb, IMG_WIDTH, IMG_HEIGHT, block, freed, starved, bitmap, frame, outp, y, line,
                   i, freeing, fault >>
  BY DEF ReadSize, globals
<1>3. Frames' = Frames /\ Blocks' = Blocks /\ BmpWidth' = BmpWidth /\ BmpHeight' = BmpHeight
      /\ Pixels' = Pixels /\ Buffer' = Buffer
  BY <1>2, SameUse DEF Blocks
<1>4. IMG_WIDTH \in Int /\ IMG_HEIGHT \in Int
  BY UseFacts DEF DecoderTypeOK
<1>5. count' \in [Threads -> Int]
  <2>1. IMG_WIDTH * IMG_HEIGHT \in Int
    BY <1>4
  <2> QED  BY <2>1 DEF DecoderTypeOK, ReadSize
<1> QED  BY <1>1, <1>2, <1>3, <1>5 DEF DecoderTypeOK, NoFault

\* What a line does to the blocks: it may paint pixels of the block it is written to.
LEMMA LineFacts ==
  ASSUME DecoderTypeOK, NEW t \in Threads, WriteLine(t)
  PROVE  /\ block' \in Seq(Buffer) /\ Blocks' = Blocks
         /\ \A b \in Blocks : /\ block'[b].size = block[b].size
                              /\ block'[b].live = block[b].live
                              /\ DOMAIN block'[b].px = DOMAIN block[b].px
                              /\ b # outp[t] => block'[b] = block[b]
         /\ \/ LinePixels(t) = { } /\ block' = block
            \/ fault' # NoFault /\ block' = block
            \/ /\ outp[t] \in Blocks /\ LinePixels(t) \subseteq DOMAIN block[outp[t]].px
               /\ fault' = fault
               /\ block'[outp[t]].px = Painted(outp[t], LinePixels(t),
                    IF line[t] = 0 /\ Suspended(t) THEN Junk ELSE frame[t])
<1> DEFINE at    == LinePixels(t)
           pixel == IF line[t] = 0 /\ Suspended(t) THEN Junk ELSE frame[t]
           b     == outp[t]
<1>1. /\ Blocks = 1 .. Len(block) /\ block \in Seq(Buffer) /\ Len(block) \in Nat
      /\ \A c \in Blocks : /\ block[c] \in Buffer
                           /\ block[c].px \in [0 .. block[c].size - 1 -> Pixels]
      /\ b \in Blocks \cup { NULL } /\ pixel \in Pixels
  BY BlockFacts DEF DecoderTypeOK, Pixels
<1>2. \/ Trouble(b, at) = "none" /\ fault' = fault
         /\ block' = IF at = { } THEN block ELSE [block EXCEPT ![b].px = Painted(b, at, pixel)]
      \/ Trouble(b, at) # "none" /\ block' = block
         /\ fault' = [kind |-> Trouble(b, at), frame |-> frame[t]]
  BY DEF WriteLine
<1>3. CASE block' = block
  <2>1. Trouble(b, at) # "none" => fault' # NoFault
    <3>1. Trouble(b, at) # "none" => fault'.kind = Trouble(b, at)
      BY <1>2
    <3>2. NoFault.kind = "none"
      BY DEF NoFault
    <3> QED  BY <3>1, <3>2
  <2>2. Trouble(b, at) = "none" /\ at # { } =>
          /\ b \in Blocks /\ at \subseteq DOMAIN block[b].px /\ fault' = fault
          /\ block' = [block EXCEPT ![b].px = Painted(b, at, pixel)]
    BY <1>1, <1>2 DEF Trouble
  <2>3. Trouble(b, at) = "none" /\ at # { } => block'[b].px = Painted(b, at, pixel)
    BY <1>1, <2>2 DEF Buffer
  <2> QED  BY <1>1, <1>3, <2>1, <2>2, <2>3 DEF Blocks
<1>4. CASE block' # block
  <2>1. /\ at # { } /\ b \in Blocks /\ at \subseteq DOMAIN block[b].px /\ fault' = fault
        /\ block' = [block EXCEPT ![b].px = Painted(b, at, pixel)]
    BY <1>1, <1>2, <1>4 DEF Trouble
  <2> DEFINE new == [block[b] EXCEPT !.px = Painted(b, at, pixel)]
  <2>2. block' = [block EXCEPT ![b] = new]
    BY <2>1
  <2>3. /\ new \in Buffer /\ new.size = block[b].size /\ new.live = block[b].live
        /\ new.px = Painted(b, at, pixel) /\ DOMAIN new.px = DOMAIN block[b].px
    <3>1. block[b] \in Buffer
      BY <1>1, <2>1
    <3>2. PICK n \in Areas : block[b].px \in [0 .. n - 1 -> Pixels]
      BY <3>1 DEF Buffer
    <3>3. Painted(b, at, pixel) \in [0 .. n - 1 -> Pixels]
      BY <1>1, <3>2 DEF Painted
    <3>4. Painted(b, at, pixel) \in UNION { [0 .. m - 1 -> Pixels] : m \in Areas }
      BY <3>3
    <3>5. new.px = Painted(b, at, pixel) /\ new.size = block[b].size /\ new.live = block[b].live
      BY <3>1 DEF Buffer
    <3> QED  BY <3>1, <3>2, <3>3, <3>4, <3>5 DEF Buffer
  <2> HIDE DEF new
  <2>4. block' \in Seq(Buffer) /\ Len(block') = Len(block) /\ Blocks' = Blocks
    <3>1. block \in [1 .. Len(block) -> Buffer] /\ block' \in [1 .. Len(block) -> Buffer]
      BY <1>1, <2>1, <2>2, <2>3
    <3> QED  BY <1>1, <3>1 DEF Blocks
  <2>5. block'[b] = new /\ \A c \in Blocks : c # b => block'[c] = block[c]
    BY <1>1, <2>1, <2>2 DEF Blocks
  <2> QED  BY <1>1, <2>1, <2>3, <2>4, <2>5
<1> QED  BY <1>3, <1>4

LEMMA TypeWriteLine ==
  ASSUME DecoderTypeOK, NEW t \in Threads, WriteLine(t)
  PROVE  DecoderTypeOK'
<1>1. UNCHANGED << use, rgb, IMG_WIDTH, IMG_HEIGHT, freed, starved, bitmap, pc, frame, outp, i, count,
                   freeing >>
  BY DEF WriteLine
<1>2. Frames' = Frames /\ BmpWidth' = BmpWidth /\ BmpHeight' = BmpHeight
      /\ Pixels' = Pixels /\ Buffer' = Buffer
  BY <1>1, SameUse
<1>3. /\ block' \in Seq(Buffer) /\ Blocks' = Blocks
      /\ \A b \in Blocks' : DOMAIN block'[b].px = 0 .. block'[b].size - 1
  <2> HIDE DEF Buffer
  <2> QED  BY LineFacts DEF DecoderTypeOK
<1>4. /\ frame[t] \in Frames /\ frame[t].height \in Nat /\ line[t] \in Nat
      /\ IMG_WIDTH \in Int /\ line[t] < frame[t].height
  BY UseFacts DEF DecoderTypeOK, WriteLine
<1>5. line' = [line EXCEPT ![t] = IF Suspended(t) THEN line[t] ELSE line[t] + 1]
      /\ y' = [y EXCEPT ![t] = y[t] + IMG_WIDTH]
  BY DEF WriteLine
<1>6. /\ y' \in [Threads -> Int] /\ line' \in [Threads -> Nat]
      /\ \A s \in Threads : s # t => line'[s] = line[s]
      /\ line'[t] <= frame[t].height
  BY <1>4, <1>5 DEF DecoderTypeOK
<1>7. \A s \in Threads : pc[s] = "lines" => line'[s] <= frame[s].height
  BY <1>4, <1>6 DEF DecoderTypeOK
<1>8. \/ fault' = NoFault
      \/ fault' \in [kind : { "null", "freed", "past_end", "past_bitmap" }, frame : Frames]
  BY <1>4 DEF WriteLine, Trouble, DecoderTypeOK
<1> QED  BY <1>1, <1>2, <1>3, <1>6, <1>7, <1>8 DEF DecoderTypeOK, NoFault

LEMMA TypeCopyPixel ==
  ASSUME DecoderTypeOK, NEW t \in Threads, CopyPixel(t)
  PROVE  DecoderTypeOK'
<1>1. UNCHANGED << use, rgb, IMG_WIDTH, IMG_HEIGHT, block, freed, starved, pc, frame, outp, y, line,
                   count, freeing >>
  BY DEF CopyPixel, globals
<1>2. Frames' = Frames /\ Blocks' = Blocks /\ BmpWidth' = BmpWidth /\ BmpHeight' = BmpHeight
      /\ Pixels' = Pixels /\ Buffer' = Buffer
  BY <1>1, SameUse DEF Blocks
<1>3. i' \in [Threads -> Nat]
  BY DEF CopyPixel, DecoderTypeOK
<1>4. \/ fault' = NoFault
      \/ fault' \in [kind : { "null", "freed", "past_end", "past_bitmap" }, frame : Frames]
  BY DEF CopyPixel, Trouble, DecoderTypeOK
<1>5. bitmap' \in [0 .. BmpWidth * BmpHeight - 1 -> Pixels]
  <2>1. CASE bitmap' = bitmap
    BY <2>1 DEF DecoderTypeOK
  <2>2. CASE bitmap' # bitmap
    <3>1. /\ i[t] \in DOMAIN bitmap /\ Trouble(outp[t], { i[t] }) = "none"
          /\ bitmap' = [bitmap EXCEPT ![i[t]] = block[outp[t]].px[i[t]]]
      BY <2>2 DEF CopyPixel
    <3>2. outp[t] \in Blocks /\ i[t] \in DOMAIN block[outp[t]].px
      BY <3>1 DEF Trouble, DecoderTypeOK
    <3>3. block[outp[t]].px[i[t]] \in Pixels
      BY <3>2, BlockFacts
    <3> QED  BY <3>1, <3>3 DEF DecoderTypeOK
  <2> QED  BY <2>1, <2>2
<1> QED  BY <1>1, <1>2, <1>3, <1>4, <1>5 DEF DecoderTypeOK, NoFault

LEMMA TypeFree ==
  ASSUME DecoderTypeOK, FreeCameraMemory
  PROVE  DecoderTypeOK'
<1>1. UNCHANGED << use, IMG_WIDTH, IMG_HEIGHT, bitmap, pc, frame, outp, y, line, i, count, fault >>
  BY DEF FreeCameraMemory, FreeBegins, FreeBuffer, ForgetBuffer, locals
<1>2. Frames' = Frames /\ BmpWidth' = BmpWidth /\ BmpHeight' = BmpHeight
      /\ Pixels' = Pixels /\ Buffer' = Buffer
  BY <1>1, SameUse
<1>3. /\ block' \in Seq(Buffer) /\ Blocks' = Blocks
      /\ \A b \in Blocks' : DOMAIN block'[b].px = 0 .. block'[b].size - 1
  <2>1. CASE UNCHANGED block
    BY <2>1 DEF DecoderTypeOK, Blocks
  <2>2. CASE FreeBuffer /\ rgb # NULL
    <3> DEFINE new == [block[rgb] EXCEPT !.live = FALSE]
    <3>1. rgb \in Blocks /\ block' = [block EXCEPT ![rgb] = new]
      BY <2>2 DEF DecoderTypeOK, FreeBuffer
    <3>2. /\ Blocks = 1 .. Len(block) /\ block \in Seq(Buffer) /\ Len(block) \in Nat
          /\ \A c \in Blocks : block[c] \in Buffer /\ DOMAIN block[c].px = 0 .. block[c].size - 1
      BY BlockFacts DEF DecoderTypeOK
    <3>3. new \in Buffer /\ new.size = block[rgb].size /\ new.px = block[rgb].px
      BY <3>1, <3>2 DEF Buffer
    <3> HIDE DEF new
    <3>4. block' \in Seq(Buffer) /\ Blocks' = Blocks
      <4>1. block \in [1 .. Len(block) -> Buffer] /\ block' \in [1 .. Len(block) -> Buffer]
        BY <3>1, <3>2, <3>3
      <4> QED  BY <3>2, <4>1 DEF Blocks
    <3>5. \A c \in Blocks : block'[c] = IF c = rgb THEN new ELSE block[c]
      BY <3>1, <3>2 DEF Blocks
    <3> QED  BY <3>1, <3>2, <3>3, <3>4, <3>5
  <2> QED  BY <2>1, <2>2 DEF FreeCameraMemory, FreeBegins, FreeBuffer, ForgetBuffer
<1>4. /\ rgb' \in Blocks \cup { NULL }
      /\ freeing' \in { "out", "free", "forget" } /\ freed' \in BOOLEAN /\ starved' \in BOOLEAN
  BY DEF DecoderTypeOK, FreeCameraMemory, FreeBegins, FreeBuffer, ForgetBuffer
<1> QED  BY <1>1, <1>2, <1>3, <1>4 DEF DecoderTypeOK, NoFault

LEMMA TypeNext ==
  ASSUME DecoderTypeOK, [DecoderNext]_decoderVars
  PROVE  DecoderTypeOK'
<1>1. CASE UNCHANGED decoderVars
  BY <1>1 DEF decoderVars, DecoderTypeOK, NoFault, Frames, Blocks, BmpWidth, BmpHeight, Pixels,
     Areas, Buffer
<1>2. CASE FreeCameraMemory
  BY <1>2, TypeFree
<1>3. ASSUME NEW t \in use.threads, Decode(t) \/ \E f \in Frames : Enter(t, f)
      PROVE  DecoderTypeOK'
  <2>1. t \in Threads
    BY UseFacts DEF DecoderTypeOK
  <2>2. CASE TestBuffer(t) \/ LeaveLines(t) \/ CheckSize(t) \/ Shown(t)
    <3>1. \E to \in { "width", "take", "size", "source", "out" } : \E from :
             /\ Goto(t, from, to)
             /\ UNCHANGED << globals, bitmap, locals, freeing, fault >>
      BY <2>2 DEF TestBuffer, LeaveLines, CheckSize, Shown
    <3> QED  BY <2>1, <3>1, TypeMoves DEF Places
  <2> QED  BY <1>3, <2>1, <2>2, TypeEnter, TypeSetSizes, TypeAllocate, TypeAllocateFails, TypeTake,
              TypeReadSize, TypeWriteLine, TypeCopyPixel DEF Decode
<1> QED  BY <1>1, <1>2, <1>3 DEF DecoderNext

\* Every variable of the decoder keeps its type.
THEOREM TypeCorrect == DecoderSpec => []DecoderTypeOK
BY TypeInit, TypeNext, PTL DEF DecoderSpec

-----------------------------------------------------------------------------
(* What is written stays inside the buffer                                 *)

\* The lines before line n end where it begins, and it ends before the buffer does.
LEMMA LinesFit ==
  ASSUME NEW n \in Nat, NEW h \in Nat, NEW w \in Nat, n < h, NEW x \in 0 .. w - 1
  PROVE  /\ n * w \in Nat /\ (n + 1) * w = n * w + w
         /\ n * w + x \in 0 .. w * h - 1
<1>1. n * w \in Nat /\ (n + 1) * w = n * w + w
  OBVIOUS
<1>2. PICK d \in Nat : h = (n + 1) + d
  <2>1. h - (n + 1) \in Nat /\ h = (n + 1) + (h - (n + 1))
    OBVIOUS
  <2> QED  BY <2>1
<1>3. w * h = (n + 1) * w + d * w /\ d * w \in Nat
  BY <1>2
<1> QED  BY <1>1, <1>3

\* Where all frames have one size, sizes that are set do not change.
LEMMA UniformSizes ==
  ASSUME DecoderTypeOK, Uniform
  PROVE  /\ \A f \in Frames : /\ IMG_WIDTH # -1 => IMG_WIDTH = f.width
                              /\ IMG_HEIGHT # -1 => IMG_HEIGHT = f.height
         /\ SizesSet => \A b \in Blocks : FitsSizes(b)
<1>1. \A f \in Frames : /\ IMG_WIDTH # -1 => IMG_WIDTH = f.width
                        /\ IMG_HEIGHT # -1 => IMG_HEIGHT = f.height
  BY DEF DecoderTypeOK, Uniform
<1>2. ASSUME SizesSet, NEW b \in Blocks
      PROVE  FitsSizes(b)
  <2>1. block[b].size \in Areas
    BY BlockFacts DEF Buffer
  <2>2. PICK f \in Frames, g \in Frames : block[b].size = BufferSize(f.width, g.height)
    BY <2>1 DEF Areas
  <2>3. IMG_WIDTH = f.width /\ IMG_HEIGHT = g.height
    BY <1>1, <1>2 DEF SizesSet
  <2> QED  BY <2>2, <2>3 DEF FitsSizes
<1> QED  BY <1>1, <1>2

\* A thread that does not move keeps agreeing while the globals stay, blocks keep
\* their sizes and no buffer comes up behind the back of a single thread.
LEMMA AgreesKept ==
  ASSUME NEW t,
         UNCHANGED << use, IMG_WIDTH, IMG_HEIGHT >>, Single => rgb' \in { rgb, NULL },
         pc'[t] = pc[t], frame'[t] = frame[t], outp'[t] = outp[t],
         y'[t] = y[t], line'[t] = line[t], count'[t] = count[t],
         outp[t] # NULL => block'[outp[t]].size = block[outp[t]].size,
         Agrees(t)
  PROVE  Agrees(t)'
<1>1. Single' <=> Single
  BY SameUse
<1>2. BmpWidth' = BmpWidth /\ BmpHeight' = BmpHeight
  BY SameUse
<1>3. outp[t] # NULL => (FitsSizes(outp[t])' <=> FitsSizes(outp[t]))
  BY DEF FitsSizes
<1>4. SizesSet' <=> SizesSet
  BY DEF SizesSet
<1> QED  BY <1>1, <1>2, <1>3, <1>4 DEF Agrees, FitsSizes

\* What is left to show of a step that changes no global.
LEMMA FittingLocal ==
  ASSUME DecoderTypeOK, Fitting, NEW t \in Threads, UNCHANGED << globals, fault >>,
         \A s \in Threads : s # t =>
           /\ pc'[s] = pc[s] /\ frame'[s] = frame[s] /\ outp'[s] = outp[s]
           /\ y'[s] = y[s] /\ line'[s] = line[s] /\ count'[s] = count[s],
         Single \/ Uniform => Agrees(t)'
  PROVE  Fitting'
<1>1. UNCHANGED << use, rgb, IMG_WIDTH, IMG_HEIGHT, block, fault >>
  BY DEF globals
<1>2. Inside'
  BY <1>1, SameUse DEF Fitting, Inside, Wrapped
<1>3. ASSUME (Single \/ Uniform)'
      PROVE  (/\ rgb # NULL => SizesSet /\ FitsSizes(rgb)
              /\ \A s \in use.threads : Agrees(s))'
  <2>1. Single \/ Uniform
    BY <1>1, <1>3, SameUse
  <2>2. (rgb # NULL => SizesSet /\ FitsSizes(rgb))'
    BY <1>1, <2>1 DEF Fitting, SizesSet, FitsSizes
  <2>3. ASSUME NEW s \in use.threads
        PROVE  Agrees(s)'
    <3>1. s \in Threads
      BY UseFacts DEF DecoderTypeOK
    <3>2. CASE s = t
      BY <2>1, <3>2
    <3>3. CASE s # t
      <4>1. Agrees(s)
        BY <2>1 DEF Fitting
      <4>2. /\ pc'[s] = pc[s] /\ frame'[s] = frame[s] /\ outp'[s] = outp[s]
            /\ y'[s] = y[s] /\ line'[s] = line[s] /\ count'[s] = count[s]
        BY <3>1, <3>3
      <4> QED  BY <1>1, <4>1, <4>2, AgreesKept
    <3> QED  BY <3>2, <3>3
  <2> QED  BY <1>1, <2>2, <2>3
<1> QED  BY <1>2, <1>3 DEF Fitting

LEMMA FittingMoves ==
  ASSUME DecoderTypeOK, Fitting, NEW t \in Threads, t \in use.threads,
         \/ \E f \in Frames : Enter(t, f)
         \/ TestBuffer(t) \/ LeaveLines(t) \/ CheckSize(t) \/ Shown(t)
         \/ TakeBuffer(t) \/ TakeSource(t) \/ ReadSize(t)
  PROVE  Fitting'
<1>1. UNCHANGED << use, rgb, IMG_WIDTH, IMG_HEIGHT, block, freed, starved, fault >>
  BY DEF Enter, TestBuffer, LeaveLines, CheckSize, Shown, TakeBuffer, TakeSource, ReadSize, globals
<1>2. \A s \in Threads : s # t =>
        /\ pc'[s] = pc[s] /\ frame'[s] = frame[s] /\ outp'[s] = outp[s]
        /\ y'[s] = y[s] /\ line'[s] = line[s] /\ count'[s] = count[s]
  BY DEF DecoderTypeOK, Goto, Enter, TestBuffer, LeaveLines, CheckSize, Shown, TakeBuffer,
     TakeSource, ReadSize, locals
<1>3. ASSUME Single \/ Uniform
      PROVE  Agrees(t)'
  <2>1. /\ Single' <=> Single
        /\ SizesSet' <=> SizesSet
        /\ BmpWidth' = BmpWidth /\ BmpHeight' = BmpHeight
        /\ FitsSizes(rgb)' <=> FitsSizes(rgb)
    BY <1>1, SameUse DEF SizesSet, FitsSizes
  <2>2. (rgb # NULL => SizesSet /\ FitsSizes(rgb)) /\ Agrees(t)
    BY <1>3 DEF Fitting
  <2>3. CASE (\E f \in Frames : Enter(t, f)) \/ Shown(t) \/ LeaveLines(t)
    <3>1. pc'[t] \in { "size", "test", "out" }
      BY <2>3 DEF DecoderTypeOK, Goto, Enter, Shown, LeaveLines
    <3> QED  BY <3>1 DEF Agrees
  <2>4. CASE TestBuffer(t)
    <3>1. \/ pc'[t] = "width" /\ rgb = NULL
          \/ pc'[t] = "take" /\ rgb # NULL
      BY <2>4 DEF DecoderTypeOK, Goto, TestBuffer
    <3> QED  BY <1>1, <2>1, <2>2, <3>1 DEF Agrees
  <2>5. CASE TakeBuffer(t)
    <3>1. /\ pc[t] = "take" /\ pc'[t] = "lines" /\ outp'[t] = rgb /\ y'[t] = 0 /\ line'[t] = 0
      BY <2>5 DEF DecoderTypeOK, Goto, TakeBuffer
    <3>2. IMG_WIDTH \in Int
      BY UseFacts DEF DecoderTypeOK
    <3>3. 0 * IMG_WIDTH' = 0
      BY <1>1, <3>2
    <3>4. SizesSet' /\ (outp'[t] # NULL => FitsSizes(rgb)')
      BY <2>1, <2>2, <3>1 DEF Agrees
    <3>5. FitsSizes(outp[t])' <=> FitsSizes(rgb)'
      BY <1>1, <3>1 DEF FitsSizes
    <3> QED  BY <3>1, <3>3, <3>4, <3>5 DEF Agrees
  <2>6. CASE TakeSource(t)
    <3>1. /\ pc[t] = "source" /\ pc'[t] = "copy" /\ outp'[t] = rgb /\ count'[t] = count[t]
      BY <2>6 DEF DecoderTypeOK, Goto, TakeSource
    <3>2. outp'[t] # NULL => FitsSizes(rgb)'
      BY <2>1, <2>2, <3>1
    <3>3. FitsSizes(outp[t])' <=> FitsSizes(rgb)'
      BY <1>1, <3>1 DEF FitsSizes
    <3> QED  BY <1>1, <2>1, <2>2, <3>1, <3>2, <3>3 DEF Agrees
  <2>7. CASE ReadSize(t)
    <3>1. pc'[t] = "check" /\ count'[t] = IMG_WIDTH * IMG_HEIGHT
      BY <2>7 DEF DecoderTypeOK, Goto, ReadSize
    <3> QED  BY <1>1, <3>1 DEF Agrees
  <2>8. CASE CheckSize(t)
    <3>1. /\ pc[t] = "check" /\ count'[t] = count[t]
          /\ \/ pc'[t] = "source" /\ IMG_WIDTH = BmpWidth /\ IMG_HEIGHT = BmpHeight
             \/ pc'[t] = "out"
      BY <2>8 DEF DecoderTypeOK, Goto, CheckSize, locals
    <3> QED  BY <1>1, <2>1, <2>2, <3>1 DEF Agrees
  <2> QED  BY <2>3, <2>4, <2>5, <2>6, <2>7, <2>8
<1> QED  BY <1>1, <1>2, <1>3, FittingLocal DEF globals

\* SetWidth and SetHeight: where frames differ in size only a thread that is alone
\* writes the sizes, and while there is no buffer.
LEMMA FittingSetSizes ==
  ASSUME DecoderTypeOK, Fitting, NEW t \in Threads, t \in use.threads,
         SetWidth(t) \/ SetHeight(t)
  PROVE  Fitting'
<1>1. UNCHANGED << use, rgb, block, bitmap, freed, frame, outp, y, line, i, count, fault >>
  BY DEF SetWidth, SetHeight, locals
<1>2. /\ pc[t] \in { "width", "height" } /\ pc'[t] \in { "height", "alloc" }
      /\ \A s \in Threads : s # t => pc'[s] = pc[s]
      /\ fault = NoFault
      /\ IMG_WIDTH' \in { IMG_WIDTH, frame[t].width }
      /\ IMG_HEIGHT' \in { IMG_HEIGHT, frame[t].height }
  BY DEF DecoderTypeOK, Goto, SetWidth, SetHeight
<1>3. Inside'
  <2>1. fault'.kind = "none"
    BY <1>1, <1>2 DEF NoFault
  <2> QED  BY <2>1 DEF Inside
<1>4. (Single' <=> Single) /\ (Uniform' <=> Uniform) /\ BmpWidth' = BmpWidth /\ BmpHeight' = BmpHeight
  BY <1>1, SameUse
<1>5. ASSUME Single
      PROVE  Fitting'
  <2>1. rgb' = NULL
    BY <1>1, <1>2, <1>5 DEF Fitting, Agrees
  <2>2. Agrees(t)'
    BY <1>2, <2>1 DEF Agrees
  <2>3. \A s \in use'.threads : s = t
    BY <1>1, <1>5 DEF Single
  <2> QED  BY <1>3, <2>1, <2>2, <2>3 DEF Fitting
<1>6. ASSUME ~Single, Uniform
      PROVE  Fitting'
  <2>1. /\ rgb # NULL => SizesSet /\ FitsSizes(rgb)
        /\ \A s \in use.threads : Agrees(s)
    BY <1>6 DEF Fitting
  <2>2. Agrees(t)'
    BY <1>2, <1>4, <1>6 DEF Agrees
  <2>3. frame[t] \in Frames /\ use.threads \subseteq Threads
    BY UseFacts DEF DecoderTypeOK
  <2>4. SizesSet => IMG_WIDTH' = IMG_WIDTH /\ IMG_HEIGHT' = IMG_HEIGHT
    BY <1>2, <1>6, <2>3, UniformSizes DEF SizesSet
  <2>5. CASE SizesSet
    <3>1. (rgb # NULL => SizesSet /\ FitsSizes(rgb))'
      BY <1>1, <2>1, <2>4, <2>5 DEF SizesSet, FitsSizes
    <3>2. ASSUME NEW s \in use.threads, s # t
          PROVE  Agrees(s)'
      <4>1. pc'[s] = pc[s] /\ Agrees(s)
        BY <1>2, <2>1, <2>3, <3>2
      <4> QED  BY <1>1, <2>4, <2>5, <4>1, AgreesKept
    <3> QED  BY <1>1, <1>3, <2>2, <3>1, <3>2 DEF Fitting
  <2>6. CASE ~SizesSet
    <3>1. rgb = NULL /\ rgb' = NULL
      BY <1>1, <2>1, <2>6
    <3>2. ASSUME NEW s \in use.threads, s # t
          PROVE  Agrees(s)'
      <4>1. pc'[s] = pc[s] /\ Agrees(s) /\ count'[s] = count[s]
        BY <1>1, <1>2, <2>1, <2>3, <3>2
      <4>2. pc[s] \notin { "take", "lines", "source", "copy" }
        <5>1. BmpWidth # -1 /\ BmpHeight # -1
          BY UseFacts DEF DecoderTypeOK
        <5> QED  BY <2>6, <4>1, <5>1 DEF Agrees, SizesSet
      <4>3. pc[s] = "check" => count[s] <= 1
        <5>1. IMG_WIDTH * IMG_HEIGHT <= 1
          <6> DEFINE w == IMG_WIDTH
                     h == IMG_HEIGHT
          <6>1. w \in Nat \/ w = -1
            BY UseFacts DEF DecoderTypeOK
          <6>2. h \in Nat \/ h = -1
            BY UseFacts DEF DecoderTypeOK
          <6>3. w = -1 \/ h = -1
            BY <2>6 DEF SizesSet
          <6> HIDE DEF w, h
          <6>4. w = -1 => w * h <= 1
            <7> SUFFICES ASSUME w = -1  PROVE w * h <= 1
              OBVIOUS
            <7>1. w * h = -h
              BY <6>2
            <7> QED  BY <6>2, <7>1
          <6>5. h = -1 => w * h <= 1
            <7> SUFFICES ASSUME h = -1  PROVE w * h <= 1
              OBVIOUS
            <7>1. w * h = -w
              BY <6>1
            <7> QED  BY <6>1, <7>1
          <6>6. w * h <= 1
            BY <6>3, <6>4, <6>5
          <6> QED  BY <6>6 DEF w, h
        <5>2. pc[s] = "check" => count[s] = IMG_WIDTH * IMG_HEIGHT \/ count[s] <= 1
          BY <4>1 DEF Agrees
        <5> QED  BY <5>1, <5>2
      <4> QED  BY <1>4, <1>6, <4>1, <4>2, <4>3 DEF Agrees
    <3> QED  BY <1>1, <1>3, <2>2, <3>1, <3>2 DEF Fitting
  <2> QED  BY <2>5, <2>6
<1>7. CASE ~Single /\ ~Uniform
  BY <1>3, <1>4, <1>7 DEF Fitting
<1> QED  BY <1>5, <1>6, <1>7

\* A new buffer has the sizes that are set.
LEMMA FittingAllocate ==
  ASSUME DecoderTypeOK, Fitting, NEW t \in Threads, t \in use.threads, Allocate(t)
  PROVE  Fitting'
<1>1. UNCHANGED << use, IMG_WIDTH, IMG_HEIGHT, frame, outp, y, line, i, count, fault >>
  BY DEF Allocate, locals
<1>2. /\ pc[t] = "alloc" /\ pc'[t] = "take" /\ \A s \in Threads : s # t => pc'[s] = pc[s]
  BY DEF DecoderTypeOK, Goto, Allocate
<1>3. Inside'
  BY <1>1, SameUse DEF Fitting, Inside, Wrapped
<1>4. (Single' <=> Single) /\ (Uniform' <=> Uniform)
  BY <1>1, SameUse
<1>5. SizesSet /\ SizesSet'
  BY <1>1, <1>2 DEF DecoderTypeOK, SizesSet
<1>6. block'[rgb'].size = BufferSize(IMG_WIDTH, IMG_HEIGHT) /\ \A b \in Blocks : block'[b] = block[b]
  BY AllocateFacts
<1>7. FitsSizes(rgb)'
  BY <1>1, <1>6 DEF FitsSizes
<1>8. Agrees(t)'
  BY <1>2, <1>5 DEF Agrees
<1>9. ASSUME Single \/ Uniform, NEW s \in use.threads, s # t
      PROVE  Agrees(s)'
  <2>1. ~Single
    BY <1>9 DEF Single
  <2>2. Agrees(s)
    BY <1>9 DEF Fitting
  <2>3. s \in Threads /\ pc'[s] = pc[s] /\ outp[s] \in Blocks \cup { NULL }
    BY <1>2, <1>9, UseFacts DEF DecoderTypeOK
  <2> QED  BY <1>1, <1>6, <2>1, <2>2, <2>3, AgreesKept
<1> QED  BY <1>1, <1>3, <1>4, <1>5, <1>7, <1>8, <1>9 DEF Fitting

\* A malloc that fails takes the buffer away.
LEMMA FittingAllocateFails ==
  ASSUME DecoderTypeOK, Fitting, NEW t \in Threads, t \in use.threads, AllocateFails(t)
  PROVE  Fitting'
<1>1. /\ UNCHANGED << use, IMG_WIDTH, IMG_HEIGHT, block, frame, outp, y, line, i, count, fault >>
      /\ rgb' = NULL
  BY DEF AllocateFails, locals
<1>2. /\ pc[t] = "alloc" /\ pc'[t] = "take" /\ \A s \in Threads : s # t => pc'[s] = pc[s]
  BY DEF DecoderTypeOK, Goto, AllocateFails
<1>3. Inside' /\ (Single' <=> Single) /\ (Uniform' <=> Uniform)
  BY <1>1, SameUse DEF Fitting, Inside, Wrapped
<1>4. SizesSet'
  BY <1>1, <1>2 DEF DecoderTypeOK, SizesSet
<1>5. Agrees(t)'
  BY <1>2, <1>4 DEF Agrees
<1>6. ASSUME Single \/ Uniform, NEW s \in use.threads, s # t
      PROVE  Agrees(s)'
  <2>1. Agrees(s)
    BY <1>6 DEF Fitting
  <2>2. s \in Threads /\ pc'[s] = pc[s]
    BY <1>2, <1>6, UseFacts DEF DecoderTypeOK
  <2> QED  BY <1>1, <2>1, <2>2, AgreesKept
<1> QED  BY <1>1, <1>3, <1>5, <1>6 DEF Fitting

\* A line of an image that goes on lies where its number says, inside any buffer that
\* has as many lines.
LEMMA LineInside ==
  ASSUME DecoderTypeOK, NEW t \in Threads, Agrees(t), WriteLine(t),
         frame[t].fate # "cut", frame[t].height <= IMG_HEIGHT, ~Wrapped, outp[t] \in Blocks
  PROVE  LinePixels(t) \subseteq DOMAIN block[outp[t]].px
<1> DEFINE n == line[t]
           h == IMG_HEIGHT
           w == IMG_WIDTH
<1>1. /\ pc[t] = "lines" /\ n \in Nat /\ frame[t].height \in Nat /\ frame[t].width \in Nat
      /\ n < frame[t].height
  BY UseFacts DEF DecoderTypeOK, WriteLine
<1>2. w \in Nat /\ h \in Nat
  BY <1>1, UseFacts DEF Agrees, SizesSet, DecoderTypeOK
<1>3. y[t] = n * w /\ block[outp[t]].size = w * h
  <2>1. y[t] = n * w /\ block[outp[t]].size = BufferSize(w, h)
    BY <1>1, BlockFacts DEF Agrees, FitsSizes
  <2>2. BufferSize(w, h) = w * h
    <3>1. w * h \in Nat /\ SizeWrap \in Nat /\ ~(w * h >= SizeWrap)
      BY <1>2, SizeFacts, UseAssumption DEF Wrapped
    <3>2. w * h < SizeWrap
      BY <3>1
    <3> QED  BY <1>2, <3>2, SizeFacts
  <2> QED  BY <2>1, <2>2
<1>4. DOMAIN block[outp[t]].px = 0 .. w * h - 1
  BY <1>3, BlockFacts
<1>5. LinePixels(t) = { n * w + xx : xx \in { x \in 0 .. frame[t].width - 1 : x < w } }
  BY <1>3 DEF LinePixels
<1>6. n < h
  BY <1>1, <1>2
<1> HIDE DEF n, h, w
<1>7. ASSUME NEW x \in 0 .. frame[t].width - 1, x < w
      PROVE  n * w + x \in 0 .. w * h - 1
  <2>1. x \in 0 .. w - 1
    BY <1>1, <1>2, <1>7
  <2>2. n \in Nat
    BY <1>1 DEF n
  <2> QED  BY <1>2, <1>6, <2>1, <2>2, LinesFit
<1> QED  BY <1>4, <1>5, <1>7

LEMMA FittingWriteLine ==
  ASSUME DecoderTypeOK, Fitting, NEW t \in Threads, t \in use.threads, WriteLine(t)
  PROVE  Fitting'
<1>1. UNCHANGED << use, rgb, IMG_WIDTH, IMG_HEIGHT, pc, frame, outp, i, count >>
  BY DEF WriteLine
<1>2. (Single' <=> Single) /\ (Uniform' <=> Uniform) /\ (SizesSet' <=> SizesSet)
  BY <1>1, SameUse DEF SizesSet
<1>3. /\ pc[t] = "lines" /\ fault = NoFault
      /\ line' = [line EXCEPT ![t] = IF Suspended(t) THEN line[t] ELSE line[t] + 1]
      /\ y' = [y EXCEPT ![t] = y[t] + IMG_WIDTH]
      /\ \/ fault' = NoFault
         \/ /\ fault' = [kind |-> Trouble(outp[t], LinePixels(t)), frame |-> frame[t]]
            /\ Trouble(outp[t], LinePixels(t)) # "none"
  BY DEF WriteLine
<1>4. /\ line[t] \in Nat /\ y[t] \in Int /\ IMG_WIDTH \in Int
      /\ frame[t].height \in Nat /\ IMG_HEIGHT \in Int
      /\ DOMAIN line = Threads /\ DOMAIN y = Threads
      /\ use.threads \subseteq Threads
      /\ \A s \in Threads : outp[s] \in Blocks \cup { NULL }
      /\ rgb \in Blocks \cup { NULL }
  BY UseFacts DEF DecoderTypeOK
<1>5. \A b \in Blocks : block'[b].size = block[b].size
  BY LineFacts
<1>6. ASSUME Single \/ Uniform
      PROVE  /\ rgb # NULL => SizesSet /\ FitsSizes(rgb)
             /\ \A s \in use.threads : Agrees(s)
  BY <1>6 DEF Fitting
<1>7. Inside'
  <2>1. CASE fault' = NoFault
    BY <2>1 DEF Inside, NoFault
  <2>2. CASE fault' = [kind |-> Trouble(outp[t], LinePixels(t)), frame |-> frame[t]]
    <3>1. fault'.kind = Trouble(outp[t], LinePixels(t)) /\ fault'.frame = frame[t]
      BY <2>2
    <3>2. fault'.kind # "past_bitmap"
      BY <3>1 DEF Trouble
    <3>3. ASSUME Single \/ Uniform, fault'.kind = "past_end"
          PROVE  frame[t].fate = "cut" \/ frame[t].height > IMG_HEIGHT \/ Wrapped
      <4>1. outp[t] \in Blocks /\ ~(LinePixels(t) \subseteq DOMAIN block[outp[t]].px)
        BY <1>4, <3>1, <3>3 DEF Trouble
      <4>2. Agrees(t)
        BY <1>6, <3>3
      <4> QED  BY <1>4, <4>1, <4>2, LineInside
    <3> QED  BY <1>1, <1>2, <3>1, <3>2, <3>3 DEF Inside, Wrapped
  <2> QED  BY <1>3, <2>1, <2>2
<1>8. ASSUME Single \/ Uniform
      PROVE  (rgb # NULL => SizesSet /\ FitsSizes(rgb))'
  BY <1>1, <1>2, <1>4, <1>5, <1>6, <1>8 DEF FitsSizes
<1>9. ASSUME Single \/ Uniform, NEW s \in use.threads
      PROVE  Agrees(s)'
  <2>1. Agrees(s) /\ outp[s] \in Blocks \cup { NULL }
    BY <1>4, <1>6, <1>9
  <2>2. CASE s # t
    <3>1. line'[s] = line[s] /\ y'[s] = y[s]
      BY <1>3, <1>4, <2>2
    <3> QED  BY <1>1, <1>5, <2>1, <3>1, AgreesKept
  <2>3. CASE s = t
    <3>1. outp[t] # NULL => FitsSizes(outp[t])'
      <4>1. outp[t] # NULL => FitsSizes(outp[t])
        BY <1>3, <2>1, <2>3 DEF Agrees
      <4> QED  BY <1>1, <1>4, <1>5, <4>1 DEF FitsSizes
    <3>2. frame[t].fate # "cut" => y'[t] = line'[t] * IMG_WIDTH
      <4> SUFFICES ASSUME frame[t].fate # "cut"
                   PROVE  y'[t] = line'[t] * IMG_WIDTH
        OBVIOUS
      <4>1. line'[t] = line[t] + 1 /\ y'[t] = y[t] + IMG_WIDTH /\ y[t] = line[t] * IMG_WIDTH
        BY <1>3, <1>4, <2>1, <2>3 DEF Agrees, Suspended
      <4>2. (line[t] + 1) * IMG_WIDTH = line[t] * IMG_WIDTH + IMG_WIDTH
        BY <1>4
      <4> QED  BY <4>1, <4>2
    <3>3. SizesSet
      BY <1>3, <2>1, <2>3 DEF Agrees
    <3> QED  BY <1>1, <1>2, <1>3, <2>3, <3>1, <3>2, <3>3 DEF Agrees, FitsSizes
  <2> QED  BY <2>2, <2>3
<1> QED  BY <1>1, <1>2, <1>7, <1>8, <1>9 DEF Fitting

\* The bitmap has the size of the buffer once pixeltobmp has compared them.
LEMMA FittingCopyPixel ==
  ASSUME DecoderTypeOK, Fitting, NEW t \in Threads, t \in use.threads, CopyPixel(t)
  PROVE  Fitting'
<1>1. UNCHANGED << use, rgb, IMG_WIDTH, IMG_HEIGHT, block, freed, starved, pc, frame, outp, y,
                   line, count >>
  BY DEF CopyPixel, globals
<1>2. (Single' <=> Single) /\ (Uniform' <=> Uniform) /\ (SizesSet' <=> SizesSet)
  BY <1>1, SameUse DEF SizesSet
<1>3. Inside'
  <2> SUFFICES ASSUME Single \/ Uniform, fault' # NoFault
               PROVE  fault'.kind \notin { "past_bitmap", "past_end" }
    BY <1>2 DEF Inside, NoFault
  <2>1. /\ pc[t] = "copy" /\ i[t] < count[t]
        /\ fault'.kind = IF i[t] \in DOMAIN bitmap THEN Trouble(outp[t], { i[t] })
                                                  ELSE "past_bitmap"
    BY DEF CopyPixel
  <2> DEFINE area == BmpWidth * BmpHeight
  <2>2. Agrees(t)
    BY DEF Fitting
  <2>3. /\ i[t] \in Nat /\ count[t] \in Int /\ area \in Nat \ { 0 }
        /\ DOMAIN bitmap = 0 .. area - 1 /\ outp[t] \in Blocks \cup { NULL }
    BY UseFacts DEF DecoderTypeOK
  <2>4. count[t] = area \/ count[t] <= 1
    BY <2>1, <2>2 DEF Agrees
  <2>5. outp[t] # NULL => DOMAIN block[outp[t]].px = 0 .. area - 1
    <3>1. outp[t] # NULL => block[outp[t]].size = BufferSize(BmpWidth, BmpHeight)
      BY <2>1, <2>2 DEF Agrees, FitsSizes
    <3>2. BufferSize(BmpWidth, BmpHeight) = area
      BY UseFacts, SizeFacts DEF DecoderTypeOK
    <3> QED  BY <2>3, <3>1, <3>2, BlockFacts
  <2> HIDE DEF area
  <2>6. i[t] \in 0 .. area - 1
    BY <2>1, <2>3, <2>4
  <2> QED  BY <2>1, <2>3, <2>5, <2>6 DEF Trouble
<1>4. ASSUME Single \/ Uniform
      PROVE  (/\ rgb # NULL => SizesSet /\ FitsSizes(rgb)
              /\ \A s \in use.threads : Agrees(s))'
  <2>1. /\ rgb # NULL => SizesSet /\ FitsSizes(rgb)
        /\ \A s \in use.threads : Agrees(s)
    BY <1>4 DEF Fitting
  <2>2. \A s \in use.threads : Agrees(s)'
    BY <1>1, <2>1, AgreesKept
  <2>3. (rgb # NULL => SizesSet /\ FitsSizes(rgb))'
    BY <1>1, <2>1 DEF SizesSet, FitsSizes
  <2> QED  BY <1>1, <2>2, <2>3
<1> QED  BY <1>2, <1>3, <1>4 DEF Fitting

\* freeCameraMemory leaves the sizes of the blocks alone.
LEMMA FittingFree ==
  ASSUME DecoderTypeOK, Fitting, FreeCameraMemory
  PROVE  Fitting'
<1>1. /\ UNCHANGED << use, IMG_WIDTH, IMG_HEIGHT, bitmap, pc, frame, outp, y, line, i, count, fault >>
      /\ rgb' \in { rgb, NULL }
  BY DEF FreeCameraMemory, FreeBegins, FreeBuffer, ForgetBuffer, locals
<1>2. (Single' <=> Single) /\ (Uniform' <=> Uniform) /\ (SizesSet' <=> SizesSet)
  BY <1>1, SameUse DEF SizesSet
<1>3. \A b \in Blocks : block'[b].size = block[b].size
  <2>1. CASE UNCHANGED block
    BY <2>1
  <2>2. CASE FreeBuffer /\ rgb # NULL
    <3>1. block' = [block EXCEPT ![rgb] = [block[rgb] EXCEPT !.live = FALSE]] /\ rgb \in Blocks
      BY <2>2 DEF FreeBuffer, DecoderTypeOK
    <3>2. block[rgb] \in Buffer
      BY <3>1, BlockFacts
    <3>3. [block[rgb] EXCEPT !.live = FALSE].size = block[rgb].size
      BY <3>2 DEF Buffer
    <3> QED  BY <3>1, <3>3 DEF Blocks
  <2> QED  BY <2>1, <2>2 DEF FreeCameraMemory, FreeBegins, FreeBuffer, ForgetBuffer
<1>4. ASSUME Single \/ Uniform
      PROVE  (/\ rgb # NULL => SizesSet /\ FitsSizes(rgb)
              /\ \A s \in use.threads : Agrees(s))'
  <2>1. /\ rgb # NULL => SizesSet /\ FitsSizes(rgb)
        /\ \A s \in use.threads : Agrees(s)
    BY <1>4 DEF Fitting
  <2>2. ASSUME NEW s \in use.threads
        PROVE  Agrees(s)'
    <3>1. Agrees(s) /\ outp[s] \in Blocks \cup { NULL }
      BY <2>1, UseFacts DEF DecoderTypeOK
    <3>2. outp[s] # NULL => block'[outp[s]].size = block[outp[s]].size
      BY <1>3, <3>1
    <3> QED  BY <1>1, <3>1, <3>2, AgreesKept
  <2>3. (rgb # NULL => SizesSet /\ FitsSizes(rgb))'
    <3>1. rgb \in Blocks \cup { NULL }
      BY DEF DecoderTypeOK
    <3> QED  BY <1>1, <1>2, <1>3, <2>1, <3>1 DEF FitsSizes
  <2> QED  BY <1>1, <2>2, <2>3
<1>5. Inside'
  BY <1>1, <1>2 DEF Fitting, Inside, Wrapped
<1> QED  BY <1>2, <1>4, <1>5 DEF Fitting

LEMMA FittingNext ==
  ASSUME DecoderTypeOK, Fitting, [DecoderNext]_decoderVars
  PROVE  Fitting'
<1>1. CASE UNCHANGED decoderVars
  BY <1>1 DEF decoderVars, Fitting, Inside, Wrapped, Single, Uniform, SizesSet, FitsSizes, Agrees, Frames,
     BmpWidth, BmpHeight
<1>2. CASE FreeCameraMemory
  BY <1>2, FittingFree
<1>3. ASSUME NEW t \in use.threads, Decode(t) \/ \E f \in Frames : Enter(t, f)
      PROVE  Fitting'
  <2>1. t \in Threads
    BY UseFacts DEF DecoderTypeOK
  <2> QED  BY <1>3, <2>1, FittingMoves, FittingSetSizes, FittingAllocate,
              FittingAllocateFails, FittingWriteLine, FittingCopyPixel DEF Decode
<1> QED  BY <1>1, <1>2, <1>3 DEF DecoderNext

LEMMA FittingInit == DecoderInit => Fitting
<1> SUFFICES ASSUME DecoderInit
             PROVE  Fitting
  OBVIOUS
<1>1. rgb = NULL /\ fault = NoFault /\ \A t \in Threads : pc[t] = "out"
  BY DEF DecoderInit
<1>2. use.threads \subseteq Threads
  BY UseFacts DEF DecoderInit
<1> QED  BY <1>1, <1>2 DEF Fitting, Inside, Agrees, NoFault

\* What every thread has read from the globals agrees with them and with its block.
THEOREM FittingHolds == DecoderSpec => []Fitting
<1>1. DecoderTypeOK /\ Fitting /\ [DecoderNext]_decoderVars => Fitting'
  BY FittingNext
<1> QED  BY <1>1, FittingInit, TypeCorrect, PTL DEF DecoderSpec

\* processimage and pixeltobmp stay inside the buffer and the bitmap, but for images
\* with more lines than the buffer, for images cut short and for a buffer whose size
\* wrapped.
THEOREM InsideHolds == DecoderSpec => []Inside
<1>1. Fitting => Inside
  BY DEF Fitting
<1> QED  BY <1>1, FittingHolds, PTL

-----------------------------------------------------------------------------
(* Which buffer is used                                                    *)

\* The threads that fill the buffer's place are threads of the use.
LEMMA FillingFacts ==
  ASSUME DecoderTypeOK
  PROVE  /\ IsFiniteSet(Filling) /\ Cardinality(Filling) \in Nat
         /\ Cardinality(use.threads) \in Nat
         /\ Cardinality(Filling) <= Cardinality(use.threads)
<1>1. IsFiniteSet(use.threads) /\ Filling \subseteq use.threads
  BY UseFacts DEF DecoderTypeOK, Filling
<1> QED  BY <1>1, FS_Subset, FS_CardinalityType

\* Other threads keep their buffer while rgb, once set, stays set.
LEMMA HasBufferKept ==
  ASSUME NEW s, NEW t, s \in use.threads, t \in use.threads, s # t, UNCHANGED use,
         pc'[s] = pc[s], frame'[s] = frame[s], outp'[s] = outp[s],
         rgb # NULL => rgb' # NULL, HasBuffer(s)
  PROVE  HasBuffer(s)'
<1>1. ~Single /\ ~Single'
  BY SameUse DEF Single
<1> QED  BY <1>1 DEF HasBuffer

\* What is left to show of a step of a thread that writes no block and leaves it as
\* far from an allocation as it was.
LEMMA GuardedLocal ==
  ASSUME DecoderTypeOK, Guarded, ~freed, ~starved, NEW t \in Threads, t \in use.threads,
         UNCHANGED << use, rgb, block, freed, starved, freeing, fault >>,
         \A s \in Threads : s # t => /\ pc'[s] = pc[s] /\ frame'[s] = frame[s]
                                     /\ outp'[s] = outp[s],
         rgb # NULL => (pc'[t] \in { "width", "height", "alloc" }
                          <=> pc[t] \in { "width", "height", "alloc" }),
         HasBuffer(t)'
  PROVE  Guarded'
<1>1. /\ freeing = "out" /\ \A b \in Blocks : block[b].live
      /\ \A s \in use.threads : HasBuffer(s)
      /\ fault.kind # "freed"
      /\ fault.kind = "null" => fault.frame.fate = "early" /\ ~Single
      /\ IF rgb = NULL THEN block = << >>
         ELSE Len(block) + Cardinality(Filling) <= Cardinality(use.threads)
  BY DEF Guarded
<1>2. use.threads \subseteq Threads
  BY UseFacts DEF DecoderTypeOK
<1>3. \A s \in use'.threads : HasBuffer(s)'
  BY <1>1, <1>2, HasBufferKept
<1>4. rgb # NULL => Filling' = Filling
  BY <1>2 DEF Filling
<1>5. IF rgb' = NULL THEN block' = << >>
      ELSE Len(block') + Cardinality(Filling') <= Cardinality(use'.threads)
  BY <1>1, <1>4
<1>6. Blocks' = Blocks /\ (Single' <=> Single)
  BY SameUse DEF Blocks
<1>7. freeing' = "out" /\ \A b \in Blocks' : block'[b].live
  BY <1>1, <1>6
<1>8. fault'.kind # "freed" /\ (fault'.kind = "null" => fault'.frame.fate = "early" /\ ~Single')
  BY <1>1, <1>6
<1> QED  BY <1>3, <1>5, <1>7, <1>8 DEF Guarded

\* A thread that finds rgb set goes on with it; one that finds it missing sets it.
LEMMA GuardedMoves ==
  ASSUME DecoderTypeOK, Guarded, ~freed, ~starved, NEW t \in Threads, t \in use.threads,
         \/ \E f \in Frames : Enter(t, f)
         \/ TestBuffer(t) \/ SetWidth(t) \/ SetHeight(t) \/ LeaveLines(t) \/ CheckSize(t)
         \/ Shown(t) \/ TakeBuffer(t) \/ TakeSource(t) \/ ReadSize(t)
  PROVE  Guarded'
<1>1. UNCHANGED << use, rgb, block, freed, starved, freeing, fault >>
  BY DEF Enter, TestBuffer, SetWidth, SetHeight, LeaveLines, CheckSize, Shown, TakeBuffer,
     TakeSource, ReadSize, globals
<1>2. \A s \in Threads : s # t => pc'[s] = pc[s] /\ frame'[s] = frame[s] /\ outp'[s] = outp[s]
  BY DEF DecoderTypeOK, Goto, Enter, TestBuffer, SetWidth, SetHeight, LeaveLines, CheckSize,
     Shown, TakeBuffer, TakeSource, ReadSize, locals
<1>3. HasBuffer(t) /\ (Single' <=> Single)
  BY <1>1, SameUse DEF Guarded
<1>4. CASE \E f \in Frames : Enter(t, f)
  <2>1. /\ pc[t] = "out" /\ IMG_WIDTH' = IMG_WIDTH
        /\ pc'[t] = "test" \/ (pc'[t] = "size" /\ frame'[t].fate = "early")
    BY <1>4 DEF DecoderTypeOK, Goto, Enter, globals
  <2>2. HasBuffer(t)'
    BY <1>1, <1>3, <2>1 DEF HasBuffer
  <2> QED  BY <1>1, <1>2, <2>1, <2>2, GuardedLocal
<1>5. CASE TestBuffer(t) \/ SetWidth(t) \/ SetHeight(t)
  <2>1. /\ \/ pc[t] = "test" /\ pc'[t] = "width" /\ rgb = NULL /\ IMG_WIDTH' = IMG_WIDTH
           \/ pc[t] = "test" /\ pc'[t] = "take" /\ rgb # NULL
           \/ pc[t] = "width" /\ pc'[t] = "height"
           \/ pc[t] = "height" /\ pc'[t] = "alloc"
    BY <1>5 DEF DecoderTypeOK, Goto, TestBuffer, SetWidth, SetHeight, globals
  <2>2. HasBuffer(t)'
    BY <1>1, <1>3, <2>1 DEF HasBuffer
  <2> QED  BY <1>1, <1>2, <2>1, <2>2, GuardedLocal
<1>6. CASE TakeBuffer(t) \/ LeaveLines(t)
  <2>1. /\ IMG_WIDTH' = IMG_WIDTH /\ frame'[t] = frame[t]
        /\ \/ pc[t] = "take" /\ pc'[t] = "lines" /\ outp'[t] = rgb
           \/ pc[t] = "lines" /\ pc'[t] = "size" /\ outp'[t] = outp[t]
    BY <1>6 DEF DecoderTypeOK, Goto, TakeBuffer, LeaveLines, globals, locals
  <2>2. HasBuffer(t)'
    BY <1>1, <1>3, <2>1 DEF HasBuffer
  <2> QED  BY <1>1, <1>2, <2>1, <2>2, GuardedLocal
<1>7. CASE ReadSize(t) \/ CheckSize(t) \/ Shown(t)
  <2>1. /\ IMG_WIDTH' = IMG_WIDTH /\ frame'[t] = frame[t] /\ outp'[t] = outp[t]
        /\ \/ pc[t] = "size" /\ pc'[t] = "check"
           \/ pc[t] = "check" /\ pc'[t] = "source" /\ IMG_WIDTH = BmpWidth
           \/ pc[t] = "check" /\ pc'[t] = "out"
           \/ pc[t] = "copy" /\ pc'[t] = "out"
    BY <1>7 DEF DecoderTypeOK, Goto, ReadSize, CheckSize, Shown, globals, locals
  <2>2. BmpWidth # -1
    BY UseFacts DEF DecoderTypeOK
  <2>3. HasBuffer(t)'
    BY <1>1, <1>3, <2>1, <2>2 DEF HasBuffer
  <2> QED  BY <1>1, <1>2, <2>1, <2>3, GuardedLocal
<1>8. CASE TakeSource(t)
  <2>1. /\ IMG_WIDTH' = IMG_WIDTH /\ frame'[t] = frame[t]
        /\ pc[t] = "source" /\ pc'[t] = "copy" /\ outp'[t] = rgb
    BY <1>8 DEF DecoderTypeOK, Goto, TakeSource, globals
  <2>2. HasBuffer(t)'
    BY <1>1, <1>3, <2>1 DEF HasBuffer
  <2> QED  BY <1>1, <1>2, <2>1, <2>2, GuardedLocal
<1> QED  BY <1>4, <1>5, <1>6, <1>7, <1>8

\* Each thread that found rgb missing allocates once.
LEMMA GuardedAllocate ==
  ASSUME DecoderTypeOK, Guarded, ~freed, ~starved, NEW t \in Threads, t \in use.threads, Allocate(t)
  PROVE  Guarded'
<1>1. UNCHANGED << use, IMG_WIDTH, freed, starved, frame, outp, freeing, fault >>
  BY DEF Allocate, locals
<1>2. /\ pc[t] = "alloc" /\ pc'[t] = "take" /\ \A s \in Threads : s # t => pc'[s] = pc[s]
  BY DEF DecoderTypeOK, Goto, Allocate
<1>3. use.threads \subseteq Threads /\ NULL \notin Nat
  BY UseFacts DEF DecoderTypeOK
<1>4. /\ Len(block) \in Nat /\ Blocks = 1 .. Len(block) /\ \A b \in Blocks : block[b].live
  BY BlockFacts DEF Guarded
<1>5. /\ Blocks' = 1 .. (Len(block) + 1) /\ rgb' = Len(block) + 1 /\ Len(block') = Len(block) + 1
      /\ \A b \in Blocks : block'[b] = block[b]
      /\ block'[rgb'].live
  BY AllocateFacts
<1>6. rgb' # NULL
  BY <1>3, <1>4, <1>5
<1>7. \A b \in Blocks' : block'[b].live
  <2> SUFFICES ASSUME NEW b \in Blocks', b # rgb'
               PROVE  block'[b].live
    BY <1>5
  <2>1. b \in Blocks
    BY <1>4, <1>5
  <2> QED  BY <1>4, <1>5, <2>1
<1>8. \A s \in use'.threads : HasBuffer(s)'
  <2>1. HasBuffer(t)'
    BY <1>2, <1>6 DEF HasBuffer
  <2>2. \A s \in use.threads : HasBuffer(s)
    BY DEF Guarded
  <2> QED  BY <1>1, <1>2, <1>3, <1>6, <2>1, <2>2, HasBufferKept
<1>9. Len(block') + Cardinality(Filling') <= Cardinality(use'.threads)
  <2>1. t \in Filling /\ Filling' = Filling \ { t }
    BY <1>1, <1>2, <1>3 DEF Filling
  <2>2. Cardinality(Filling') = Cardinality(Filling) - 1
    BY <2>1, FillingFacts, FS_RemoveElement
  <2>3. Len(block) + Cardinality(Filling) <= Cardinality(use.threads)
    <3>1. CASE rgb = NULL
      <4>1. Len(block) = 0
        BY <3>1 DEF Guarded
      <4> QED  BY <4>1, FillingFacts
    <3>2. CASE rgb # NULL
      BY <3>2 DEF Guarded
    <3> QED  BY <3>1, <3>2
  <2> QED  BY <1>1, <1>4, <1>5, <2>2, <2>3, FillingFacts
<1> QED  BY <1>1, <1>6, <1>7, <1>8, <1>9, SameUse DEF Guarded

\* Reads and writes of pixels: a buffer is there and is not freed.
LEMMA GuardedPixels ==
  ASSUME DecoderTypeOK, Guarded, ~freed, ~starved, NEW t \in Threads, t \in use.threads,
         WriteLine(t) \/ CopyPixel(t)
  PROVE  Guarded'
<1>1. UNCHANGED << use, rgb, IMG_WIDTH, freed, starved, pc, frame, outp, freeing >>
  BY DEF WriteLine, CopyPixel, globals
<1>2. /\ freeing = "out" /\ \A b \in Blocks : block[b].live
      /\ \A s \in use.threads : HasBuffer(s)
      /\ IF rgb = NULL THEN block = << >>
         ELSE Len(block) + Cardinality(Filling) <= Cardinality(use.threads)
  BY DEF Guarded
<1>3. Single' <=> Single
  BY <1>1, SameUse
<1>4. \A s \in use'.threads : HasBuffer(s)'
  BY <1>1, <1>2, <1>3 DEF HasBuffer
<1>5. Filling' = Filling
  BY <1>1 DEF Filling
<1>6. /\ Blocks' = Blocks /\ \A b \in Blocks : block'[b].live = block[b].live
      /\ Len(block') = Len(block) /\ (block = << >> => block' = << >>)
  <2>1. CASE WriteLine(t)
    <3>1. block' \in Seq(Buffer) /\ Blocks' = Blocks /\ \A b \in Blocks : block'[b].live = block[b].live
      BY <2>1, LineFacts
    <3>2. Blocks = 1 .. Len(block) /\ Blocks' = 1 .. Len(block') /\ Len(block) \in Nat
          /\ Len(block') \in Nat
      <4> HIDE DEF Buffer
      <4> QED  BY <3>1, BlockFacts, LenProperties DEF Blocks
    <3>3. Len(block') = Len(block)
      BY <3>1, <3>2
    <3> HIDE DEF Buffer
    <3> QED  BY <3>1, <3>3, EmptySeq
  <2>2. CASE CopyPixel(t)
    BY <2>2 DEF CopyPixel, globals, Blocks
  <2> QED  BY <2>1, <2>2
<1>7. fault'.kind # "freed" /\ (fault'.kind = "null" => fault'.frame.fate = "early" /\ ~Single)
  <2>1. CASE fault' = NoFault
    BY <2>1 DEF NoFault
  <2>2. ASSUME NEW at, fault' = [kind |-> Trouble(outp[t], at), frame |-> frame[t]]
        PROVE  /\ fault'.kind # "freed"
               /\ fault'.kind = "null" => fault'.frame.fate = "early" /\ ~Single
    <3>1. fault'.kind = Trouble(outp[t], at) /\ fault'.frame = frame[t]
      BY <2>2
    <3>2. pc[t] \in { "lines", "copy" } /\ HasBuffer(t) /\ outp[t] \in Blocks \cup { NULL }
      BY <1>2 DEF WriteLine, CopyPixel, DecoderTypeOK
    <3>3. fault'.kind # "freed"
      BY <1>2, <3>1, <3>2 DEF Trouble
    <3>4. fault'.kind = "null" => outp[t] = NULL
      BY <3>1 DEF Trouble
    <3> QED  BY <3>1, <3>2, <3>3, <3>4 DEF HasBuffer
  <2>3. CASE fault' = [kind |-> "past_bitmap", frame |-> frame[t]]
    BY <2>3
  <2>4. \/ fault' = NoFault \/ fault' = [kind |-> "past_bitmap", frame |-> frame[t]]
        \/ \E at : fault' = [kind |-> Trouble(outp[t], at), frame |-> frame[t]]
    BY DEF WriteLine, CopyPixel
  <2> QED  BY <2>1, <2>2, <2>3, <2>4
<1> QED  BY <1>1, <1>2, <1>3, <1>4, <1>5, <1>6, <1>7 DEF Guarded

LEMMA GuardedNext ==
  ASSUME DecoderTypeOK, Guarded, [DecoderNext]_decoderVars
  PROVE  Guarded'
<1> SUFFICES ASSUME ~freed', ~starved'
             PROVE  Guarded'
  BY DEF Guarded
<1>1. CASE UNCHANGED decoderVars
  BY <1>1 DEF decoderVars, Guarded, HasBuffer, Filling, Single, Blocks
<1>2. ASSUME FreeCameraMemory
      PROVE  FALSE
  BY <1>2 DEF FreeCameraMemory, FreeBegins, FreeBuffer, ForgetBuffer, Guarded
<1>3. ASSUME NEW t \in use.threads, Decode(t) \/ \E f \in Frames : Enter(t, f)
      PROVE  Guarded'
  <2>1. t \in Threads
    BY UseFacts DEF DecoderTypeOK
  <2>2. ~freed /\ ~starved /\ ~AllocateFails(t)
    BY <1>3 DEF Decode, Enter, TestBuffer, SetWidth, SetHeight, Allocate, AllocateFails,
       TakeBuffer, WriteLine, LeaveLines, ReadSize, CheckSize, TakeSource, CopyPixel, Shown, globals
  <2> QED  BY <1>3, <2>1, <2>2, GuardedMoves, GuardedAllocate, GuardedPixels DEF Decode
<1> QED  BY <1>1, <1>2, <1>3 DEF DecoderNext

LEMMA GuardedInit == DecoderInit => Guarded
<1> SUFFICES ASSUME DecoderInit
             PROVE  Guarded
  OBVIOUS
<1>1. /\ rgb = NULL /\ fault = NoFault /\ IMG_WIDTH = -1 /\ block = << >> /\ freeing = "out"
      /\ \A t \in Threads : pc[t] = "out"
  BY DEF DecoderInit
<1>2. use.threads \subseteq Threads
  BY UseFacts DEF DecoderInit
<1>3. Blocks = { }
  BY <1>1 DEF Blocks
<1> QED  BY <1>1, <1>2, <1>3 DEF Guarded, HasBuffer, NoFault

\* Until a stopTask frees it, and while malloc finds memory, rgb stays set and only who
\* found it missing allocates.
THEOREM GuardedHolds == DecoderSpec => []Guarded
<1>1. DecoderTypeOK /\ Guarded /\ [DecoderNext]_decoderVars => Guarded'
  BY GuardedNext
<1> QED  BY <1>1, GuardedInit, TypeCorrect, PTL DEF DecoderSpec

\* Until a stopTask frees it, and while malloc finds memory, the buffer is missing only
\* for a frame that failed to decode beside another thread, and no more buffers are
\* lost than threads race.
THEOREM SizeGuardsBufferHolds == DecoderSpec => []SizeGuardsBuffer
<1>1. DecoderTypeOK /\ Guarded => SizeGuardsBuffer
  <2> SUFFICES ASSUME DecoderTypeOK, Guarded, ~freed, ~starved
               PROVE  /\ fault.kind \in { "null", "freed" } => fault.frame.fate = "early" /\ ~Single
                      /\ Len(block) <= Cardinality(use.threads)
    BY DEF SizeGuardsBuffer
  <2>1. fault.kind \in { "null", "freed" } => fault.frame.fate = "early" /\ ~Single
    BY DEF Guarded
  <2>2. Len(block) <= Cardinality(use.threads)
    <3>1. Len(block) \in Nat
      BY BlockFacts
    <3>2. CASE rgb = NULL
      <4>1. Len(block) = 0
        BY <3>2 DEF Guarded
      <4> QED  BY <4>1, FillingFacts
    <3>3. CASE rgb # NULL
      BY <3>1, <3>3, FillingFacts DEF Guarded
    <3> QED  BY <3>2, <3>3
  <2> QED  BY <2>1, <2>2
<1> QED  BY <1>1, GuardedHolds, TypeCorrect, PTL

-----------------------------------------------------------------------------
(* What is shown                                                           *)

\* What is drawn for a frame that decodes is not disturbed by a step that leaves its
\* thread, the buffer, the width and the pixels alone.
LEMMA DrawnKept ==
  ASSUME DecoderTypeOK, Drawn, UNCHANGED << use, IMG_WIDTH, bitmap, frame, outp, line, i, pc >>,
         fault' = NoFault => fault = NoFault, rgb' \in { rgb, NULL }, Blocks' = Blocks,
         \A b \in Blocks : block'[b].px = block[b].px
  PROVE  Drawn'
<1> SUFFICES ASSUME Single', Uniform', fault' = NoFault, NEW t \in use'.threads,
                    frame'[t].fate = "whole"
             PROVE  (/\ pc[t] = "lines" /\ outp[t] # NULL =>
                          \A p \in 0 .. line[t] * IMG_WIDTH - 1 : block[outp[t]].px[p] = frame[t]
                     /\ pc[t] = "lines" /\ rgb # NULL => rgb = outp[t]
                     /\ pc[t] \in { "size", "check", "source" } /\ rgb # NULL => Of(frame[t], rgb)
                     /\ pc[t] = "copy" => /\ outp[t] # NULL => Of(frame[t], outp[t])
                                          /\ \A p \in 0 .. i[t] - 1 : bitmap[p] = frame[t])'
  BY DEF Drawn
<1>1. Single /\ Uniform /\ fault = NoFault
  BY SameUse
<1>2. t \in Threads /\ outp[t] \in Blocks \cup { NULL } /\ rgb \in Blocks \cup { NULL }
  BY UseFacts DEF DecoderTypeOK
<1>3. /\ pc[t] = "lines" /\ outp[t] # NULL =>
           \A p \in 0 .. line[t] * IMG_WIDTH - 1 : block[outp[t]].px[p] = frame[t]
      /\ pc[t] = "lines" /\ rgb # NULL => rgb = outp[t]
      /\ pc[t] \in { "size", "check", "source" } /\ rgb # NULL => Of(frame[t], rgb)
      /\ pc[t] = "copy" => /\ outp[t] # NULL => Of(frame[t], outp[t])
                           /\ \A p \in 0 .. i[t] - 1 : bitmap[p] = frame[t]
  BY <1>1 DEF Drawn
<1>4. /\ pc'[t] = "lines" /\ outp'[t] # NULL =>
           \A p \in 0 .. line'[t] * IMG_WIDTH' - 1 : block'[outp'[t]].px[p] = frame'[t]
      /\ pc'[t] = "lines" /\ rgb' # NULL => rgb' = outp'[t]
  BY <1>2, <1>3
<1>5. pc'[t] \in { "size", "check", "source" } /\ rgb' # NULL => Of(frame[t], rgb)'
  BY <1>2, <1>3 DEF Of
<1>6. pc'[t] = "copy" => /\ outp'[t] # NULL => Of(frame[t], outp[t])'
                         /\ \A p \in 0 .. i'[t] - 1 : bitmap'[p] = frame'[t]
  BY <1>2, <1>3 DEF Of
<1> QED  BY <1>4, <1>5, <1>6

\* Where all frames have the size of the buffer, a line of a frame that goes on is
\* written whole, and the frame fills the buffer.
LEMMA LineWhole ==
  ASSUME DecoderTypeOK, Fitting, Single, Uniform, NEW t \in Threads, t \in use.threads,
         pc[t] = "lines", frame[t].fate = "whole"
  PROVE  /\ IMG_WIDTH = frame[t].width /\ IMG_HEIGHT = frame[t].height
         /\ IMG_WIDTH \in Nat \ { 0 } /\ IMG_HEIGHT \in Nat \ { 0 }
         /\ line[t] \in Nat /\ y[t] = line[t] * IMG_WIDTH
         /\ LinePixels(t) = { line[t] * IMG_WIDTH + x : x \in 0 .. IMG_WIDTH - 1 }
         /\ outp[t] # NULL =>
              DOMAIN block[outp[t]].px = 0 .. BufferSize(IMG_WIDTH, IMG_HEIGHT) - 1
<1>1. Agrees(t)
  BY DEF Fitting
<1>2. /\ IMG_WIDTH = frame[t].width /\ IMG_HEIGHT = frame[t].height
      /\ IMG_WIDTH \in Nat \ { 0 } /\ IMG_HEIGHT \in Nat \ { 0 } /\ line[t] \in Nat
      /\ y[t] = line[t] * IMG_WIDTH
  BY <1>1, UniformSizes, UseFacts, ZenonT(60) DEF Agrees, SizesSet, DecoderTypeOK
<1>3. LinePixels(t) = { line[t] * IMG_WIDTH + x : x \in 0 .. IMG_WIDTH - 1 }
  <2> DEFINE from == line[t] * IMG_WIDTH
  <2>1. LinePixels(t) = { from + xx : xx \in { x \in 0 .. IMG_WIDTH - 1 : x < IMG_WIDTH } }
    BY <1>2 DEF LinePixels
  <2>2. { x \in 0 .. IMG_WIDTH - 1 : x < IMG_WIDTH } = 0 .. IMG_WIDTH - 1
    BY <1>2
  <2> QED  BY <2>1, <2>2
<1>4. outp[t] # NULL => DOMAIN block[outp[t]].px = 0 .. BufferSize(IMG_WIDTH, IMG_HEIGHT) - 1
  <2>1. outp[t] \in Blocks \cup { NULL }
    BY DEF DecoderTypeOK
  <2> QED  BY <1>1, <2>1, BlockFacts DEF Agrees, FitsSizes
<1> QED  BY <1>2, <1>3, <1>4

LEMMA DrawnWriteLine ==
  ASSUME DecoderTypeOK, Fitting, Drawn, NEW t \in Threads, t \in use.threads, WriteLine(t)
  PROVE  Drawn'
<1>1. UNCHANGED << use, rgb, IMG_WIDTH, pc, frame, outp >> /\ pc[t] = "lines" /\ fault = NoFault
  BY DEF WriteLine
<1> SUFFICES ASSUME Single, Uniform, fault' = NoFault, frame[t].fate = "whole"
             PROVE  (/\ outp[t] # NULL =>
                          \A p \in 0 .. line[t] * IMG_WIDTH - 1 : block[outp[t]].px[p] = frame[t]
                     /\ rgb # NULL => rgb = outp[t])'
  <2>1. (Single' <=> Single) /\ (Uniform' <=> Uniform)
    BY <1>1, SameUse
  <2> QED  BY <1>1, <2>1 DEF Drawn, Single
<1> DEFINE w == IMG_WIDTH
           n == line[t]
<1>2. /\ outp[t] # NULL => \A p \in 0 .. n * w - 1 : block[outp[t]].px[p] = frame[t]
      /\ rgb # NULL => rgb = outp[t]
  BY <1>1 DEF Drawn
<1>3. line' = [line EXCEPT ![t] = n + 1] /\ ~Suspended(t)
  BY DEF WriteLine, Suspended
<1>4. line'[t] = n + 1
  BY <1>3 DEF DecoderTypeOK
<1>5. /\ w \in Nat \ { 0 } /\ n \in Nat
      /\ LinePixels(t) = { n * w + x : x \in 0 .. w - 1 }
  BY <1>1, LineWhole
<1> HIDE DEF w, n
<1>6. n * w \in Nat /\ (n + 1) * w = n * w + w
  BY <1>5
<1>7. ASSUME NEW p \in 0 .. (n + 1) * w - 1
      PROVE  p \in 0 .. n * w - 1 \/ p \in LinePixels(t)
  <2>1. CASE p < n * w
    BY <1>6, <2>1
  <2>2. CASE ~(p < n * w)
    <3>1. p - n * w \in 0 .. w - 1 /\ p = n * w + (p - n * w)
      BY <1>5, <1>6, <2>2
    <3> QED  BY <1>5, <3>1
  <2> QED  BY <2>1, <2>2
<1>8. /\ outp[t] \in Blocks /\ LinePixels(t) \subseteq DOMAIN block[outp[t]].px
      /\ block'[outp[t]].px = Painted(outp[t], LinePixels(t), frame[t])
  <2>1. n * w + 0 \in LinePixels(t)
    BY <1>5
  <2> QED  BY <1>3, <2>1, LineFacts
<1>9. ASSUME NEW p \in 0 .. (n + 1) * w - 1
      PROVE  block'[outp[t]].px[p] = frame[t]
  <2>1. CASE p \in LinePixels(t)
    BY <1>8, <2>1 DEF Painted
  <2>2. CASE p \notin LinePixels(t)
    <3>1. p \in 0 .. n * w - 1 /\ outp[t] # NULL
      BY <1>7, <1>8, <2>2, BlockFacts
    <3>2. p \in DOMAIN block[outp[t]].px
      <4>1. n * w + 0 \in LinePixels(t)
        BY <1>5
      <4>2. block[outp[t]].size \in Nat /\ DOMAIN block[outp[t]].px = 0 .. block[outp[t]].size - 1
        BY <1>8, BlockFacts
      <4>3. n * w + 0 \in DOMAIN block[outp[t]].px
        BY <1>8, <4>1
      <4>4. n * w <= block[outp[t]].size - 1
        BY <1>6, <4>2, <4>3
      <4> QED  BY <1>6, <3>1, <4>2, <4>4
    <3> QED  BY <1>2, <1>8, <2>2, <3>1, <3>2 DEF Painted
  <2> QED  BY <2>1, <2>2
<1>10. \A p \in 0 .. line'[t] * IMG_WIDTH' - 1 : block'[outp'[t]].px[p] = frame'[t]
  BY <1>1, <1>4, <1>9 DEF w
<1> QED  BY <1>1, <1>2, <1>10

LEMMA DrawnCopyPixel ==
  ASSUME DecoderTypeOK, Drawn, NEW t \in Threads, t \in use.threads, CopyPixel(t)
  PROVE  Drawn'
<1>1. UNCHANGED << use, block, pc, frame, outp >> /\ pc[t] = "copy" /\ fault = NoFault
  BY DEF CopyPixel, globals
<1> SUFFICES ASSUME Single, Uniform, fault' = NoFault, frame[t].fate = "whole"
             PROVE  (/\ outp[t] # NULL => Of(frame[t], outp[t])
                     /\ \A p \in 0 .. i[t] - 1 : bitmap[p] = frame[t])'
  <2>1. (Single' <=> Single) /\ (Uniform' <=> Uniform)
    BY <1>1, SameUse
  <2> QED  BY <1>1, <2>1 DEF Drawn, Single
<1>2. /\ outp[t] # NULL => Of(frame[t], outp[t])
      /\ \A p \in 0 .. i[t] - 1 : bitmap[p] = frame[t]
  BY <1>1 DEF Drawn
<1>3. (outp[t] # NULL => Of(frame[t], outp[t]))'
  BY <1>1, <1>2 DEF Of
<1>4. /\ i[t] \in DOMAIN bitmap /\ Trouble(outp[t], { i[t] }) = "none"
      /\ bitmap' = [bitmap EXCEPT ![i[t]] = block[outp[t]].px[i[t]]]
  BY DEF CopyPixel, NoFault, Trouble
<1>5. outp[t] # NULL /\ i[t] \in DOMAIN block[outp[t]].px
  BY <1>4 DEF Trouble
<1>6. block[outp[t]].px[i[t]] = frame[t]
  BY <1>2, <1>5 DEF Of
<1>7. i'[t] = i[t] + 1 /\ i[t] \in Nat
  BY DEF CopyPixel, DecoderTypeOK
<1>8. \A p \in 0 .. i[t] : bitmap'[p] = frame[t]
  <2> SUFFICES ASSUME NEW p \in 0 .. i[t]
               PROVE  bitmap'[p] = frame[t]
    OBVIOUS
  <2>1. p = i[t] \/ p \in 0 .. i[t] - 1
    BY <1>7
  <2>2. DOMAIN bitmap = 0 .. BmpWidth * BmpHeight - 1 /\ BmpWidth * BmpHeight \in Nat
    BY UseFacts DEF DecoderTypeOK
  <2>3. p \in DOMAIN bitmap
    BY <1>4, <1>7, <2>2
  <2> QED  BY <1>2, <1>4, <1>6, <2>1, <2>3
<1> QED  BY <1>1, <1>3, <1>7, <1>8

\* A frame that decoded is whole in the buffer when its last line is written.
LEMMA DrawnMoves ==
  ASSUME DecoderTypeOK, Fitting, Drawn, NEW t \in Threads, t \in use.threads,
         \/ \E f \in Frames : Enter(t, f)
         \/ TestBuffer(t) \/ SetWidth(t) \/ SetHeight(t) \/ Allocate(t) \/ AllocateFails(t)
         \/ TakeBuffer(t) \/ LeaveLines(t) \/ ReadSize(t) \/ CheckSize(t) \/ TakeSource(t) \/ Shown(t)
  PROVE  Drawn'
<1> SUFFICES ASSUME Single, Uniform, frame'[t].fate = "whole",
                    pc'[t] \in { "lines", "size", "check", "source", "copy" }
             PROVE  (/\ pc[t] = "lines" /\ outp[t] # NULL =>
                          \A p \in 0 .. line[t] * IMG_WIDTH - 1 : block[outp[t]].px[p] = frame[t]
                     /\ pc[t] = "lines" /\ rgb # NULL => rgb = outp[t]
                     /\ pc[t] \in { "size", "check", "source" } /\ rgb # NULL => Of(frame[t], rgb)
                     /\ pc[t] = "copy" => /\ outp[t] # NULL => Of(frame[t], outp[t])
                                          /\ \A p \in 0 .. i[t] - 1 : bitmap[p] = frame[t])'
  <2>1. UNCHANGED use
    BY DEF Enter, TestBuffer, SetWidth, SetHeight, Allocate, AllocateFails, TakeBuffer,
       LeaveLines, ReadSize, CheckSize, TakeSource, Shown, globals
  <2>2. (Single' <=> Single) /\ (Uniform' <=> Uniform)
    BY <2>1, SameUse
  <2> QED  BY <2>1, <2>2 DEF Drawn, Single
<1>1. fault = NoFault
  BY DEF Goto, Enter, TestBuffer, SetWidth, SetHeight, Allocate, AllocateFails, TakeBuffer,
     LeaveLines, ReadSize, CheckSize, TakeSource, Shown
<1>2. /\ \/ pc[t] = "take" /\ pc'[t] = "lines" /\ outp'[t] = rgb /\ line'[t] = 0
         \/ pc[t] = "lines" /\ pc'[t] = "size" /\ line[t] = frame[t].height
         \/ pc[t] = "size" /\ pc'[t] = "check"
         \/ pc[t] = "check" /\ pc'[t] = "source"
         \/ pc[t] = "source" /\ pc'[t] = "copy" /\ outp'[t] = rgb /\ i'[t] = 0
      /\ UNCHANGED << rgb, IMG_WIDTH, block, frame >>
  BY DEF DecoderTypeOK, Goto, Enter, TestBuffer, SetWidth, SetHeight, Allocate, AllocateFails, TakeBuffer,
     LeaveLines, ReadSize, CheckSize, TakeSource, Shown, globals, locals
<1>3. /\ pc[t] = "lines" /\ outp[t] # NULL =>
           \A p \in 0 .. line[t] * IMG_WIDTH - 1 : block[outp[t]].px[p] = frame[t]
      /\ pc[t] = "lines" /\ rgb # NULL => rgb = outp[t]
      /\ pc[t] \in { "size", "check", "source" } /\ rgb # NULL => Of(frame[t], rgb)
  BY <1>1, <1>2 DEF Drawn
<1>4. CASE pc[t] = "take"
  <2>1. 0 * IMG_WIDTH = 0
    BY UseFacts DEF DecoderTypeOK
  <2>2. line'[t] * IMG_WIDTH' = 0
    BY <1>2, <1>4, <2>1
  <2> QED  BY <1>2, <1>4, <2>2
<1>5. CASE pc[t] = "lines"
  <2>1. rgb # NULL => Of(frame[t], rgb)
    <3> SUFFICES ASSUME rgb # NULL
                 PROVE  Of(frame[t], rgb)
      OBVIOUS
    <3>1. rgb = outp[t] /\ frame[t].fate = "whole"
      BY <1>2, <1>3, <1>5
    <3>2. /\ IMG_HEIGHT = line[t] /\ IMG_WIDTH \in Nat /\ IMG_HEIGHT \in Nat
          /\ DOMAIN block[rgb].px = 0 .. BufferSize(IMG_WIDTH, IMG_HEIGHT) - 1
      BY <1>2, <1>5, <3>1, LineWhole
    <3>3. DOMAIN block[rgb].px \subseteq 0 .. line[t] * IMG_WIDTH - 1
      <4> DEFINE asked == BufferSize(IMG_WIDTH, IMG_HEIGHT)
                 whole == IMG_WIDTH * IMG_HEIGHT
      <4>1. asked \in Nat /\ whole \in Nat /\ asked <= whole
        BY <3>2, SizeFacts
      <4>2. whole = line[t] * IMG_WIDTH
        BY <3>2
      <4>3. DOMAIN block[rgb].px = 0 .. asked - 1
        BY <3>2
      <4> HIDE DEF asked, whole
      <4>4. 0 .. asked - 1 \subseteq 0 .. whole - 1
        BY <4>1
      <4> QED  BY <4>2, <4>3, <4>4
    <3> QED  BY <1>3, <1>5, <3>1, <3>2, <3>3 DEF Of
  <2> QED  BY <1>2, <1>5, <2>1 DEF Of
<1>6. CASE pc[t] \in { "size", "check" }
  BY <1>2, <1>3, <1>6 DEF Of
<1>7. CASE pc[t] = "source"
  <2>1. i'[t] = 0 /\ pc'[t] = "copy"
    BY <1>2, <1>7
  <2> QED  BY <1>2, <1>3, <1>7, <2>1 DEF Of
<1> QED  BY <1>2, <1>4, <1>5, <1>6, <1>7

LEMMA DrawnNext ==
  ASSUME DecoderTypeOK, Fitting, Drawn, [DecoderNext]_decoderVars
  PROVE  Drawn'
<1>1. CASE UNCHANGED decoderVars
  BY <1>1 DEF decoderVars, Drawn, Of, Single, Uniform, Frames, NoFault
<1>2. CASE FreeCameraMemory
  <2>1. /\ UNCHANGED << use, IMG_WIDTH, bitmap, frame, outp, line, i, pc, fault >>
        /\ rgb' \in { rgb, NULL }
    BY <1>2 DEF FreeCameraMemory, FreeBegins, FreeBuffer, ForgetBuffer, locals
  <2>2. Blocks' = Blocks /\ \A b \in Blocks : block'[b].px = block[b].px
    <3>1. CASE UNCHANGED block
      BY <3>1 DEF Blocks
    <3>2. CASE FreeBuffer /\ rgb # NULL
      <4>1. block' = [block EXCEPT ![rgb] = [block[rgb] EXCEPT !.live = FALSE]] /\ rgb \in Blocks
        BY <3>2 DEF FreeBuffer, DecoderTypeOK
      <4>2. block[rgb] \in Buffer
        BY <4>1, BlockFacts
      <4>3. [block[rgb] EXCEPT !.live = FALSE].px = block[rgb].px
        BY <4>2 DEF Buffer
      <4> QED  BY <4>1, <4>3 DEF Blocks
    <3> QED  BY <1>2, <3>1, <3>2 DEF FreeCameraMemory, FreeBegins, FreeBuffer, ForgetBuffer
  <2> QED  BY <2>1, <2>2, DrawnKept
<1>3. ASSUME NEW t \in use.threads, Decode(t) \/ \E f \in Frames : Enter(t, f)
      PROVE  Drawn'
  <2>1. t \in Threads
    BY UseFacts DEF DecoderTypeOK
  <2> QED  BY <1>3, <2>1, DrawnMoves, DrawnWriteLine, DrawnCopyPixel DEF Decode
<1> QED  BY <1>1, <1>2, <1>3 DEF DecoderNext

\* With one thread and one size, the buffer and the bitmap hold of a frame that
\* decodes what has been written and copied of it.
THEOREM DrawnHolds == DecoderSpec => []Drawn
<1>1. DecoderInit => Drawn
  <2> SUFFICES ASSUME DecoderInit
               PROVE  Drawn
    OBVIOUS
  <2>1. (\A t \in Threads : pc[t] = "out") /\ use.threads \subseteq Threads
    BY UseFacts DEF DecoderInit
  <2> QED  BY <2>1 DEF Drawn
<1>2. DecoderTypeOK /\ Fitting /\ Drawn /\ [DecoderNext]_decoderVars => Drawn'
  BY DrawnNext
<1> QED  BY <1>1, <1>2, FittingHolds, TypeCorrect, PTL DEF DecoderSpec

\* What the view draws after a frame that decoded is that frame.
THEOREM FrameShownHolds == DecoderSpec => FrameShown
<1>1. ASSUME DecoderTypeOK, Fitting, Drawn, DecoderNext, Single, Uniform,
             NEW t \in use.threads, pc[t] = "copy", pc'[t] = "out", frame[t].fate = "whole"
      PROVE  \A p \in DOMAIN bitmap : bitmap'[p] = frame[t]
  <2>1. t \in Threads
    BY <1>1, UseFacts DEF DecoderTypeOK
  <2>2. ~FreeCameraMemory
    BY <1>1 DEF FreeCameraMemory, FreeBegins, FreeBuffer, ForgetBuffer
  <2>3. Decode(t) \/ \E f \in Frames : Enter(t, f)
    BY <1>1, <2>2 DEF DecoderNext, Single
  <2>4. Shown(t)
    BY <1>1, <2>1, <2>3 DEF Decode, Enter, TestBuffer, SetWidth, SetHeight, Allocate, AllocateFails,
       TakeBuffer, WriteLine, LeaveLines, ReadSize, CheckSize, TakeSource, CopyPixel, Goto
  <2>5. i[t] >= count[t] /\ bitmap' = bitmap /\ fault = NoFault
    BY <2>4 DEF Shown, Goto
  <2>6. \A p \in 0 .. i[t] - 1 : bitmap[p] = frame[t]
    BY <1>1, <2>5 DEF Drawn
  <2> DEFINE area == BmpWidth * BmpHeight
  <2>7. count[t] = area
    BY <1>1 DEF Fitting, Agrees
  <2>8. area \in Nat /\ i[t] \in Nat /\ DOMAIN bitmap = 0 .. area - 1
    BY <1>1, <2>1, UseFacts DEF DecoderTypeOK
  <2> HIDE DEF area
  <2> QED  BY <2>5, <2>6, <2>7, <2>8
<1>2. DecoderTypeOK /\ Fitting /\ Drawn /\ [DecoderNext]_decoderVars =>
        [Single /\ Uniform =>
           \A t \in use.threads :
             pc[t] = "copy" /\ pc'[t] = "out" /\ frame[t].fate = "whole" =>
               \A p \in DOMAIN bitmap : bitmap'[p] = frame[t]]_decoderVars
  BY <1>1
<1> QED  BY <1>2, DrawnHolds, FittingHolds, TypeCorrect, PTL DEF DecoderSpec, FrameShown

=============================================================================
