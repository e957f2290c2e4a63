--------------------------- MODULE NativeDecoder ---------------------------
(***************************************************************************)
(* The native half of MjpegInputStream (ImageProc.c): pixeltobmp decodes a *)
(* frame into the process-wide buffer rgb and copies that to the bitmap of *)
(* the view; freeCameraMemory gives the buffer back.                       *)
(*                                                                         *)
(* rgb, IMG_WIDTH and IMG_HEIGHT are globals nothing locks.  Render        *)
(* threads that nobody joins (MjpegActivity!StoppedThreadsEnd) decode side *)
(* by side, and a stopTask frees the buffer next to them.  Every action is *)
(* one access to a global or one line of pixels.                           *)
(*                                                                         *)
(* A frame is known by its size, the lines its data holds and where the    *)
(* decoder meets an error; a pixel by the frame it was decoded from.       *)
(***************************************************************************)
EXTENDS Integers, Sequences, FiniteSets

CONSTANTS
  Threads,    \* the render threads of the process
  Uses,       \* uses of the decoder: which threads, the frames the camera sends
              \* them, the size of their view's bitmap, whether a stopTask is run
              \* and, a bound, the allocations
  NULL, Junk, \* no block; a pixel nobody has written
  SizeWrap    \* a size_t counts the bytes of so many pixels and starts again: 2^30 of
              \* four bytes where it has 32 bits

\* Where the decoder leaves processimage: after the last line ("whole"); in
\* jpeg_read_header or jpeg_start_decompress, before the buffer is looked at
\* ("early": a header that is wrong or cut short, a grey image); in the first
\* jpeg_read_scanlines ("late": jpeg_start_decompress was suspended by a
\* progressive image that is cut short).  "cut" is an image whose data ends
\* without an EOI: every further call is suspended, for the source has no more.
Fates == { "whole", "early", "late", "cut" }

ASSUME UseAssumption ==
  /\ NULL \notin Nat /\ SizeWrap \in Nat \ { 0 }
  /\ \A u \in Uses :
       /\ u.stopTask \in BOOLEAN
       /\ u.threads \subseteq Threads /\ IsFiniteSet(u.threads) /\ u.blocks \in Nat
       /\ u.width \in Nat \ { 0 } /\ u.height \in Nat \ { 0 }
       /\ u.width * u.height < SizeWrap  \* the bitmap is there
       /\ u.frames # { }
       /\ \A f \in u.frames : /\ f.width \in Nat \ { 0 } /\ f.height \in Nat \ { 0 }
                              /\ f.fate \in Fates

VARIABLES
  use,     \* the use that is made of the decoder
  rgb, IMG_WIDTH, IMG_HEIGHT,  \* the globals
  block,   \* the blocks malloc has returned: size, pixels, not yet freed
  bitmap,  \* the pixels of the view's bitmap
  pc,      \* where each render thread is in pixeltobmp
  frame,   \* the frame it decodes
  outp,    \* its local outp, then lrgb: the block it writes, then reads
  y, line, \* its local y; mycinfo.output_scanline
  i, count,  \* its locals i and width * height in the copy to the bitmap
  freeing, \* where the stopTask is in freeCameraMemory
  freed,   \* history: freeCameraMemory has been called
  starved, \* history: malloc has returned NULL
  fault    \* the access that killed the process or overwrote its heap

decoderVars == << use, rgb, IMG_WIDTH, IMG_HEIGHT, block, bitmap, pc, frame, outp, y, line,
           i, count, freeing, freed, starved, fault >>
globals == << use, rgb, IMG_WIDTH, IMG_HEIGHT, block, freed, starved >>
locals == << frame, outp, y, line, i, count >>

BmpWidth == use.width
BmpHeight == use.height
Frames == use.frames

Pixels == Frames \cup { Junk }
Blocks == DOMAIN block
NoFault == [kind |-> "none"]

Goto(t, from, to) ==
  /\ pc[t] = from /\ fault = NoFault
  /\ pc' = [pc EXCEPT ![t] = to]

DecoderInit ==
  /\ use \in Uses
  /\ rgb = NULL /\ IMG_WIDTH = -1 /\ IMG_HEIGHT = -1
  /\ block = << >>
  /\ bitmap = [p \in 0 .. BmpWidth * BmpHeight - 1 |-> Junk]
  /\ pc = [t \in Threads |-> "out"]
  /\ frame = [t \in Threads |-> CHOOSE f \in Frames : TRUE]
  /\ outp = [t \in Threads |-> NULL]
  /\ y = [t \in Threads |-> 0] /\ line = [t \in Threads |-> 0]
  /\ i = [t \in Threads |-> 0] /\ count = [t \in Threads |-> 0]
  /\ freeing = "out" /\ freed = FALSE /\ starved = FALSE
  /\ fault = NoFault

-----------------------------------------------------------------------------
(* processimage                                                            *)

\* Up to jpeg_start_decompress nothing shared is touched.  An error is a longjmp
\* back into processimage, which then returns to pixeltobmp.
Enter(t, f) ==
  /\ Goto(t, "out", IF f.fate = "early" THEN "size" ELSE "test")
  /\ frame' = [frame EXCEPT ![t] = f]
  /\ UNCHANGED << globals, bitmap, outp, y, line, i, count, freeing, fault >>

(* Faulty variants, which the properties below must catch.                 *)

\* The sizes stand in for the buffer.
TestBufferSize(t) ==
  /\ Goto(t, "test", IF IMG_WIDTH = -1 THEN "width" ELSE "take")
  /\ UNCHANGED << globals, bitmap, locals, freeing, fault >>

\* A line is not clipped at the width of the buffer.
LinePixelsUnclipped(t) == { y[t] + xx : xx \in 0 .. frame[t].width - 1 }

\* The loop ends one line early.
LeaveLinesEarly(t) ==
  /\ line[t] >= frame[t].height - 1 \/ frame[t].fate = "late"
  /\ Goto(t, "lines", "size")
  /\ UNCHANGED << globals, bitmap, locals, freeing, fault >>

\* A suspended jpeg_start_decompress is not an error.
LeaveLinesDone(t) ==
  /\ line[t] = frame[t].height
  /\ Goto(t, "lines", "size")
  /\ UNCHANGED << globals, bitmap, locals, freeing, fault >>

(* The code.                                                               *)

\* if (rgb == NULL)
TestBuffer(t) ==
  /\ Goto(t, "test", IF rgb = NULL THEN "width" ELSE "take")
  /\ UNCHANGED << globals, bitmap, locals, freeing, fault >>

SetWidth(t) ==
  /\ Goto(t, "width", "height")
  /\ IMG_WIDTH' = frame[t].width
  /\ UNCHANGED << use, rgb, IMG_HEIGHT, block, freed, starved, bitmap, locals, freeing, fault >>

SetHeight(t) ==
  /\ Goto(t, "height", "alloc")
  /\ IMG_HEIGHT' = frame[t].height
  /\ UNCHANGED << use, rgb, IMG_WIDTH, block, freed, starved, bitmap, locals, freeing, fault >>

\* rgb = malloc(sizeof(int) * (IMG_WIDTH*IMG_HEIGHT)): the size is read from the
\* globals again, and the product may wrap.  Bound: use.blocks.
BufferSize(w, h) == (w * h) % SizeWrap
Allocate(t) ==
  /\ Len(block) < use.blocks
  /\ Goto(t, "alloc", "take")
  /\ LET size == BufferSize(IMG_WIDTH, IMG_HEIGHT) IN
     block' = Append(block, [size |-> size, live |-> TRUE, px |-> [p \in 0 .. size - 1 |-> Junk]])
  /\ rgb' = Len(block')
  /\ UNCHANGED << use, IMG_WIDTH, IMG_HEIGHT, freed, starved, bitmap, locals, freeing, fault >>
\* There is no memory, which nobody checks: the sizes stay set.
AllocateFails(t) ==
  /\ Goto(t, "alloc", "take")
  /\ rgb' = NULL /\ starved' = TRUE
  /\ UNCHANGED << use, IMG_WIDTH, IMG_HEIGHT, block, freed, bitmap, locals, freeing, fault >>

\* int *outp = rgb; y = 0
TakeBuffer(t) ==
  /\ Goto(t, "take", "lines")
  /\ outp' = [outp EXCEPT ![t] = rgb]
  /\ y' = [y EXCEPT ![t] = 0] /\ line' = [line EXCEPT ![t] = 0]
  /\ UNCHANGED << globals, bitmap, frame, i, count, freeing, fault >>

\* Has the data of t's frame run out?  jpeg_read_scanlines then returns 0, and
\* processimage does not look at what it returns.
Suspended(t) == frame[t].fate = "cut" /\ line[t] = frame[t].lines

\* What keeps t from using the pixels at of block b, or "none".
Trouble(b, at) ==
  IF at = {} THEN "none"
  ELSE IF b = NULL THEN "null"
  ELSE IF ~block[b].live THEN "freed"
  ELSE IF at \subseteq DOMAIN block[b].px THEN "none" ELSE "past_end"

\* The pixels of one line, clipped at the narrower of buffer and frame.
LinePixels(t) ==
  { y[t] + xx : xx \in { x \in 0 .. frame[t].width - 1 : x < IMG_WIDTH } }

\* The pixels of block b once those at have been written.
Painted(b, at, pixel) ==
  [p \in DOMAIN block[b].px |-> IF p \in at THEN pixel ELSE block[b].px[p]]

\* One turn of the loop over the lines.  y moves on whether or not a line was
\* read; jpegbuffer still holds the line before.
WriteLine(t) ==
  LET at == LinePixels(t)
      pixel == IF line[t] = 0 /\ Suspended(t) THEN Junk ELSE frame[t]
  IN
  /\ pc[t] = "lines" /\ fault = NoFault
  /\ line[t] < frame[t].height /\ frame[t].fate # "late"
  /\ line' = [line EXCEPT ![t] = IF Suspended(t) THEN @ ELSE @ + 1]
  /\ y' = [y EXCEPT ![t] = @ + IMG_WIDTH]
  /\ IF Trouble(outp[t], at) = "none"
       THEN /\ block' = IF at = {} THEN block
                        ELSE [block EXCEPT ![outp[t]].px = Painted(outp[t], at, pixel)]
            /\ UNCHANGED fault
       ELSE /\ fault' = [kind |-> Trouble(outp[t], at), frame |-> frame[t]]
            /\ UNCHANGED block
  /\ UNCHANGED << use, rgb, IMG_WIDTH, IMG_HEIGHT, freed, starved, bitmap, pc, frame, outp, i,
                  count, freeing >>

\* jpeg_finish_decompress, or the error of a suspended jpeg_start_decompress.
LeaveLines(t) ==
  /\ line[t] = frame[t].height \/ frame[t].fate = "late"
  /\ Goto(t, "lines", "size")
  /\ UNCHANGED << globals, bitmap, locals, freeing, fault >>

-----------------------------------------------------------------------------
(* The rest of pixeltobmp                                                  *)

\* width = IMG_WIDTH; height = IMG_HEIGHT
ReadSize(t) ==
  /\ Goto(t, "size", "check")
  /\ count' = [count EXCEPT ![t] = IMG_WIDTH * IMG_HEIGHT]
  /\ UNCHANGED << globals, bitmap, frame, outp, y, line, i, freeing, fault >>

\* "Bitmap size differs !": -1 is returned.
CheckSize(t) ==
  /\ Goto(t, "check", IF BmpWidth = IMG_WIDTH /\ BmpHeight = IMG_HEIGHT
                        THEN "source" ELSE "out")
  /\ UNCHANGED << globals, bitmap, locals, freeing, fault >>

\* int *lrgb = &rgb[0]
TakeSource(t) ==
  /\ Goto(t, "source", "copy")
  /\ outp' = [outp EXCEPT ![t] = rgb]
  /\ i' = [i EXCEPT ![t] = 0]
  /\ UNCHANGED << globals, bitmap, frame, y, line, count, freeing, fault >>

CopyPixel(t) ==
  LET trouble == IF i[t] \in DOMAIN bitmap THEN Trouble(outp[t], { i[t] })
                                           ELSE "past_bitmap" IN
  /\ pc[t] = "copy" /\ fault = NoFault /\ i[t] < count[t]
  /\ i' = [i EXCEPT ![t] = @ + 1]
  /\ IF trouble # "none"
       THEN fault' = [kind |-> trouble, frame |-> frame[t]] /\ UNCHANGED bitmap
       ELSE /\ bitmap' = [bitmap EXCEPT ![i[t]] = block[outp[t]].px[i[t]]]
            /\ UNCHANGED fault
  /\ UNCHANGED << globals, pc, frame, outp, y, line, count, freeing >>

\* 0 is returned, and the view draws the bitmap.
Shown(t) ==
  /\ i[t] >= count[t]
  /\ Goto(t, "copy", "out")
  /\ UNCHANGED << globals, bitmap, locals, freeing, fault >>

Decode(t) ==
  \/ TestBuffer(t) \/ SetWidth(t) \/ SetHeight(t) \/ Allocate(t) \/ AllocateFails(t)
  \/ TakeBuffer(t) \/ WriteLine(t) \/ LeaveLines(t)
  \/ ReadSize(t) \/ CheckSize(t) \/ TakeSource(t) \/ CopyPixel(t) \/ Shown(t)

-----------------------------------------------------------------------------
(* freeCameraMemory, run by a stopTask                                     *)

\* if (rgb)
FreeBegins ==
  /\ use.stopTask /\ freeing = "out" /\ fault = NoFault
  /\ freeing' = IF rgb = NULL THEN "forget" ELSE "free"
  /\ freed' = TRUE
  /\ UNCHANGED << use, rgb, IMG_WIDTH, IMG_HEIGHT, block, starved, bitmap, pc, locals, fault >>

\* free(rgb): another thread may just have set it to a new block, or to a NULL.
FreeBuffer ==
  /\ freeing = "free" /\ fault = NoFault
  /\ freeing' = "forget"
  /\ block' = IF rgb = NULL THEN block ELSE [block EXCEPT ![rgb].live = FALSE]
  /\ UNCHANGED << use, rgb, IMG_WIDTH, IMG_HEIGHT, freed, starved, bitmap, pc, locals, fault >>

\* rgb = NULL.  IMG_WIDTH and IMG_HEIGHT keep their values.
ForgetBuffer ==
  /\ freeing = "forget" /\ fault = NoFault
  /\ freeing' = "out"
  /\ rgb' = NULL
  /\ UNCHANGED << use, IMG_WIDTH, IMG_HEIGHT, block, freed, starved, bitmap, pc, locals, fault >>

FreeCameraMemory == FreeBegins \/ FreeBuffer \/ ForgetBuffer

DecoderNext ==
  \/ \E t \in use.threads : Decode(t) \/ \E f \in Frames : Enter(t, f)
  \/ FreeCameraMemory

\* A running thread goes on; frames may stop and nobody need free the buffer.
DecoderFairness == \A t \in Threads : WF_decoderVars(Decode(t))
DecoderSpec == DecoderInit /\ [][DecoderNext]_decoderVars /\ DecoderFairness

-----------------------------------------------------------------------------
\* The sizes a buffer may have: width and height may come from different frames.
Areas == { BufferSize(f.width, g.height) : f, g \in Frames }

Buffer == [size : Areas, live : BOOLEAN, px : UNION { [0 .. n - 1 -> Pixels] : n \in Areas }]

Places == { "out", "test", "width", "height", "alloc", "take", "lines", "size", "check",
            "source", "copy" }

DecoderTypeOK ==
  /\ use \in Uses
  /\ IMG_WIDTH \in { f.width : f \in Frames } \cup { -1 }
  /\ IMG_HEIGHT \in { f.height : f \in Frames } \cup { -1 }
  /\ block \in Seq(Buffer)
  /\ \A b \in Blocks : DOMAIN block[b].px = 0 .. block[b].size - 1
  /\ rgb \in Blocks \cup { NULL }
  /\ bitmap \in [0 .. BmpWidth * BmpHeight - 1 -> Pixels]
  /\ pc \in [Threads -> Places]
  /\ frame \in [Threads -> Frames]
  /\ outp \in [Threads -> Blocks \cup { NULL }]
  /\ y \in [Threads -> Int] /\ line \in [Threads -> Nat]
  /\ i \in [Threads -> Nat] /\ count \in [Threads -> Int]
  /\ \A t \in Threads : /\ pc[t] = "lines" => line[t] <= frame[t].height
                        /\ pc[t] \in { "height", "alloc" } => IMG_WIDTH # -1
                        /\ pc[t] = "alloc" => IMG_HEIGHT # -1
  /\ freeing \in { "out", "free", "forget" } /\ freed \in BOOLEAN /\ starved \in BOOLEAN
  /\ \/ fault = NoFault
     \/ fault \in [kind : { "null", "freed", "past_end", "past_bitmap" }, frame : Frames]

Single  == \A s, t \in use.threads : s = t
Uniform == \A f, g \in Frames : f.width = g.width /\ f.height = g.height

\* Nothing is written past the end of the pixel buffer but by a frame with more
\* lines than the one the buffer was allocated for, by one whose data ends without an
\* EOI, or where the size of the buffer wrapped and malloc was asked for too little:
\* wider, narrower and lower frames stay inside whatever came before (the loop of
\* processimage over a buffer of another frame's size).  Nothing is ever read past
\* the end of the buffer or written past the bitmap.
\* Two threads that decode frames of different sizes change IMG_WIDTH and IMG_HEIGHT
\* under each other's feet, and nothing of this holds.
Wrapped == IMG_WIDTH * IMG_HEIGHT >= SizeWrap

Inside ==
  Single \/ Uniform =>
    /\ fault.kind # "past_bitmap"
    /\ fault.kind = "past_end" =>
         \/ fault.frame.fate = "cut"
         \/ fault.frame.height > IMG_HEIGHT
         \/ Wrapped

\* The inductive invariant behind it: what a thread has read from the globals still
\* agrees with them and with the block it has taken.
FitsSizes(b) == block[b].size = BufferSize(IMG_WIDTH, IMG_HEIGHT)

SizesSet == IMG_WIDTH # -1 /\ IMG_HEIGHT # -1

Agrees(t) ==
  /\ Single /\ pc[t] \in { "width", "height", "alloc" } => rgb = NULL
  /\ pc[t] \in { "take", "lines" } => SizesSet
  /\ pc[t] \in { "lines", "copy" } /\ outp[t] # NULL => FitsSizes(outp[t])
  /\ pc[t] = "lines" /\ frame[t].fate # "cut" => y[t] = line[t] * IMG_WIDTH
  /\ pc[t] \in { "check", "source", "copy" } =>
       count[t] = IMG_WIDTH * IMG_HEIGHT \/ (~Single /\ count[t] <= 1)
  /\ pc[t] \in { "source", "copy" } => IMG_WIDTH = BmpWidth /\ IMG_HEIGHT = BmpHeight

Fitting ==
  /\ Inside
  /\ Single \/ Uniform =>
       /\ rgb # NULL => SizesSet /\ FitsSizes(rgb)
       /\ \A t \in use.threads : Agrees(t)

\* The decoder uses a missing or freed buffer only if freeCameraMemory ran, or if
\* malloc found no memory, or, with two threads, for a frame that failed to decode
\* while another thread had set the sizes and not yet the buffer: the size check of
\* pixeltobmp stands in for a test of rgb.  Until the buffer is freed, threads that
\* decode their first frame side by side lose at most one buffer each but the last.
SizeGuardsBuffer ==
  ~freed /\ ~starved =>
    /\ fault.kind \in { "null", "freed" } => fault.frame.fate = "early" /\ ~Single
    /\ Len(block) <= Cardinality(use.threads)

\* The inductive invariant behind it: rgb, once set, stays set, and only the threads
\* that found it missing allocate, each with success.
Filling == { t \in use.threads : pc[t] \in { "width", "height", "alloc" } }

HasBuffer(t) ==
  /\ pc[t] \in { "take", "lines" } => rgb # NULL
  /\ pc[t] = "lines" => outp[t] # NULL
  /\ pc[t] \in { "size", "check", "source", "copy" } /\ frame[t].fate # "early" => rgb # NULL
  /\ pc[t] = "copy" /\ outp[t] = NULL => frame[t].fate = "early" /\ ~Single
  /\ Single /\ rgb = NULL /\ pc[t] \notin { "height", "alloc" } => IMG_WIDTH = -1
  /\ Single /\ pc[t] \in { "source", "copy" } => rgb # NULL

Guarded ==
  ~freed /\ ~starved =>
    /\ freeing = "out"
    /\ \A b \in Blocks : block[b].live
    /\ IF rgb = NULL THEN block = << >>
       ELSE Len(block) + Cardinality(Filling) <= Cardinality(use.threads)
    /\ \A t \in use.threads : HasBuffer(t)
    /\ fault.kind # "freed"
    /\ fault.kind = "null" => fault.frame.fate = "early" /\ ~Single

\* What the view draws after a frame that decoded is that frame, never the one
\* before, with one thread and a camera that sends one size.
FrameShown ==
  [][Single /\ Uniform =>
       \A t \in use.threads :
         pc[t] = "copy" /\ pc'[t] = "out" /\ frame[t].fate = "whole" =>
           \A p \in DOMAIN bitmap : bitmap'[p] = frame[t]]_decoderVars

\* The inductive invariant behind it: how much of the block and of the bitmap is of
\* the frame at hand.
Of(f, b) == \A p \in DOMAIN block[b].px : block[b].px[p] = f

Drawn ==
  Single /\ Uniform /\ fault = NoFault =>
    \A t \in use.threads : frame[t].fate = "whole" =>
      /\ pc[t] = "lines" /\ outp[t] # NULL =>
           \A p \in 0 .. line[t] * IMG_WIDTH - 1 : block[outp[t]].px[p] = frame[t]
      /\ pc[t] = "lines" /\ rgb # NULL => rgb = outp[t]
      /\ pc[t] \in { "size", "check", "source" } /\ rgb # NULL => Of(frame[t], rgb)
      /\ pc[t] = "copy" => /\ outp[t] # NULL => Of(frame[t], outp[t])
                           /\ \A p \in 0 .. i[t] - 1 : bitmap[p] = frame[t]

\* The decoder comes back from every frame that ends with an EOI, or the process
\* dies; only an image cut short keeps it in the loop over the lines.
DecodeReturns ==
  \A t \in Threads :
    pc[t] = "take" ~> \/ pc[t] = "out" \/ fault # NoFault
                      \/ frame[t].fate = "cut"
=============================================================================
