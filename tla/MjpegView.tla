------------------------------ MODULE MjpegView ------------------------------
(***************************************************************************)
(* The SurfaceView that plays an MJPEG stream (MjpegView.java) with its    *)
(* render threads (inner class MjpegViewThread).                           *)
(*                                                                         *)
(* Three kinds of threads read and write the fields of the view: the UI    *)
(* thread (setSource, the surface callbacks), the pool threads of the      *)
(* activity's AsyncTasks (stopPlayback), and the render threads.  The only *)
(* lock is the monitor of the SurfaceHolder, which run holds while it      *)
(* draws and setSurfaceSize waits for; it guards none of the fields below. *)
(* Every action below is one access, or one run of accesses no other       *)
(* thread can tell apart, so that a check of a field and its use are two   *)
(* steps.                                                                  *)
(*                                                                         *)
(* The module only holds the view.  MjpegActivity adds the threads that    *)
(* call it and the specification.                                          *)
(***************************************************************************)
EXTENDS Naturals

CONSTANTS
  Threads,  \* Thread objects, live or not; each is started at most once
  Streams,  \* MjpegInputStream objects a connection can hand to the view
  Callers,  \* the threads that can be inside stopPlayback
  NULL      \* Java's null

ASSUME ViewAssumption == NULL \notin Threads /\ NULL \notin Streams

VARIABLES
  mRun, surfaceDone, viewSuspending,  \* boolean fields of the view
  mIn,      \* the stream being played, or NULL
  thread,   \* the current render thread, or NULL
  open,     \* streams whose connection is open
  surface,  \* the window has a valid surface (kept by the system)
  tpc,      \* where each render thread is in MjpegViewThread.run
  cur,      \* the stream each render thread is reading a frame of
  stop,     \* where each caller is in stopPlayback
  crash     \* "none", or the uncaught exception that killed the process

viewVars == << mRun, surfaceDone, viewSuspending, mIn, thread, open, surface,
               tpc, cur, stop, crash >>

RenderPC == { "unborn", "new", "loop", "surf", "read", "reading", "lock",
              "draw", "done" }

StopPC == { "out", "run", "susp", "clear", "thread", "interrupt", "forget_thread",
            "source", "close", "forget_source", "returned", "threw" }

Crashes == { "none", "render_no_source", "render_bad_frame", "render_no_canvas",
             "ui_null", "ui_thread_started" }

\* A render thread that has been started and has not returned from run.
Live(t) == tpc[t] \notin { "unborn", "new", "done" }

\* Faulty variant: the synchronized block begins before readMjpegFrame.
DrawingOrReading(t) == tpc[t] \in { "reading", "draw" }

\* In run's synchronized block, with the canvas locked.
Drawing(t) == tpc[t] = "draw"

\* Nobody is in the monitor of the SurfaceHolder.
MonitorFree == \A t \in Threads : ~Drawing(t)

ViewTypeOK ==
  /\ mRun \in BOOLEAN /\ surfaceDone \in BOOLEAN /\ viewSuspending \in BOOLEAN
  /\ mIn \in Streams \cup { NULL }
  /\ thread \in Threads \cup { NULL }
  /\ open \subseteq Streams
  /\ surface \in BOOLEAN
  /\ tpc \in [Threads -> RenderPC]
  /\ cur \in [Threads -> Streams \cup { NULL }]
  /\ stop \in [Callers -> StopPC]
  /\ crash \in Crashes

\* The constructor: init() creates, and does not start, the first thread.
ViewInit ==
  /\ mRun = FALSE /\ surfaceDone = FALSE /\ viewSuspending = FALSE
  /\ mIn = NULL
  /\ thread \in Threads
  /\ open = {}
  /\ surface = FALSE
  /\ tpc = [t \in Threads |-> IF t = thread THEN "new" ELSE "unborn"]
  /\ cur = [t \in Threads |-> NULL]
  /\ stop = [c \in Callers |-> "out"]
  /\ crash = "none"

-----------------------------------------------------------------------------
(* MjpegViewThread.run                                                     *)

Goto(t, from, to) == tpc[t] = from /\ tpc' = [tpc EXCEPT ![t] = to]

\* The fields only the UI thread and the tasks write.
callerVars == << mRun, surfaceDone, viewSuspending, mIn, thread, open, surface,
                 stop >>

\* while (mRun)
CheckRun(t) ==
  /\ Goto(t, "loop", IF mRun THEN "surf" ELSE "done")
  /\ UNCHANGED << callerVars, cur, crash >>

\* if (surfaceDone): with no surface yet the thread spins on the two flags.
CheckSurface(t) ==
  /\ Goto(t, "surf", IF surfaceDone THEN "read" ELSE "loop")
  /\ UNCHANGED << callerVars, cur, crash >>

\* mIn.readMjpegFrame(bmp) reads the field again; the catch clause only takes
\* IOException, so a NULL met here kills the process.
ReadSource(t) ==
  /\ IF mIn = NULL
       THEN /\ tpc[t] = "read"
            /\ crash' = "render_no_source"
            /\ UNCHANGED << tpc, cur >>
       ELSE /\ Goto(t, "read", "reading")
            /\ cur' = [cur EXCEPT ![t] = mIn]
            /\ UNCHANGED crash
  /\ UNCHANGED callerVars

\* readMjpegFrame returns 0: a frame is in the bitmap.
FrameRead(t) ==
  /\ cur[t] \in open
  /\ Goto(t, "reading", "lock")
  /\ cur' = [cur EXCEPT ![t] = NULL]
  /\ UNCHANGED << callerVars, crash >>

\* readMjpegFrame returns -1 (the camera ended the stream, or the decoder
\* refused the frame): run returns and nobody clears mRun.
StreamEnds(t) ==
  /\ cur[t] \in open
  /\ Goto(t, "reading", "done")
  /\ cur' = [cur EXCEPT ![t] = NULL]
  /\ UNCHANGED << callerVars, crash >>

\* readMjpegFrame throws IOException, as it does at once on a closed stream:
\* swallowed, and the loop goes on.
ReadFails(t) ==
  /\ Goto(t, "reading", "loop")
  /\ cur' = [cur EXCEPT ![t] = NULL]
  /\ UNCHANGED << callerVars, crash >>

\* readMjpegFrame throws an unchecked exception: no image starts, or none ends,
\* within FRAME_MAX_LENGTH bytes (see MjpegInputStream).
ReadThrows(t) ==
  /\ tpc[t] = "reading" /\ cur[t] \in open
  /\ crash' = "render_bad_frame"
  /\ UNCHANGED << callerVars, tpc, cur >>

\* lockCanvas and synchronized, which wait for a thread that draws.  lockCanvas
\* gives null once the surface is gone, and c.drawBitmap then throws; the
\* finally clause does not catch it.
LockCanvas(t) ==
  /\ MonitorFree
  /\ IF surface
       THEN Goto(t, "lock", "draw") /\ UNCHANGED crash
       ELSE tpc[t] = "lock" /\ crash' = "render_no_canvas" /\ UNCHANGED tpc
  /\ UNCHANGED << callerVars, cur >>

\* drawBitmap, the end of the synchronized block, then unlockCanvasAndPost.
Draw(t) ==
  /\ Goto(t, "draw", "loop")
  /\ UNCHANGED << callerVars, cur, crash >>

\* Every step of run but the arrival of data or of an error on an open stream.
RenderStep(t) ==
  \/ CheckRun(t) \/ CheckSurface(t) \/ ReadSource(t) \/ LockCanvas(t) \/ Draw(t)
  \/ cur[t] \notin open /\ ReadFails(t)

Render(t) ==
  \/ RenderStep(t)
  \/ FrameRead(t) \/ StreamEnds(t) \/ ReadFails(t) \/ ReadThrows(t)

-----------------------------------------------------------------------------
(* stopPlayback, run by the UI thread or by a pauseTask c                  *)

StopGoto(c, from, to) == stop[c] = from /\ stop' = [stop EXCEPT ![c] = to]

(* Faulty variants, which the properties of MjpegActivity must catch.      *)

\* stopPlayback forgets that it stopped a running view.
StopSuspendForgotten(c) ==
  /\ StopGoto(c, "susp", "clear")
  /\ UNCHANGED << mRun, surfaceDone, viewSuspending, mIn, thread, open, surface,
                  tpc, cur, crash >>

\* stopPlayback drops the stream without closing it.
StopLeavesOpen(c) ==
  /\ StopGoto(c, "close", IF mIn = NULL THEN "threw" ELSE "forget_source")
  /\ UNCHANGED << mRun, surfaceDone, viewSuspending, mIn, thread, open, surface,
                  tpc, cur, crash >>

(* The code.                                                               *)

\* The call, made by an action of the caller.
EnterStop(c) == StopGoto(c, "out", "run")

\* if (mRun)
StopCheckRun(c) ==
  /\ StopGoto(c, "run", IF mRun THEN "susp" ELSE "clear")
  /\ UNCHANGED << mRun, surfaceDone, viewSuspending, mIn, thread, open, surface,
                  tpc, cur, crash >>

\* suspending = true
StopSuspend(c) ==
  /\ StopGoto(c, "susp", "clear")
  /\ viewSuspending' = TRUE
  /\ UNCHANGED << mRun, surfaceDone, mIn, thread, open, surface, tpc, cur, crash >>

\* mRun = false
StopClearRun(c) ==
  /\ StopGoto(c, "clear", "thread")
  /\ mRun' = FALSE
  /\ UNCHANGED << surfaceDone, viewSuspending, mIn, thread, open, surface, tpc,
                  cur, crash >>

\* if (thread != null)
StopCheckThread(c) ==
  /\ StopGoto(c, "thread", IF thread = NULL THEN "source" ELSE "interrupt")
  /\ UNCHANGED << mRun, surfaceDone, viewSuspending, mIn, thread, open, surface,
                  tpc, cur, crash >>

\* thread.interrupt() reads the field again.  Nothing in run is interruptible.
StopInterrupt(c) ==
  /\ StopGoto(c, "interrupt", IF thread = NULL THEN "threw" ELSE "forget_thread")
  /\ UNCHANGED << mRun, surfaceDone, viewSuspending, mIn, thread, open, surface,
                  tpc, cur, crash >>

\* thread = null.  Nobody joins the thread.
StopForgetThread(c) ==
  /\ StopGoto(c, "forget_thread", "source")
  /\ thread' = NULL
  /\ UNCHANGED << mRun, surfaceDone, viewSuspending, mIn, open, surface, tpc, cur,
                  crash >>

\* if (mIn != null)
StopCheckSource(c) ==
  /\ StopGoto(c, "source", IF mIn = NULL THEN "returned" ELSE "close")
  /\ UNCHANGED << mRun, surfaceDone, viewSuspending, mIn, thread, open, surface,
                  tpc, cur, crash >>

\* mIn.close() reads the field again.
StopCloseSource(c) ==
  /\ StopGoto(c, "close", IF mIn = NULL THEN "threw" ELSE "forget_source")
  /\ open' = open \ { mIn }
  /\ UNCHANGED << mRun, surfaceDone, viewSuspending, mIn, thread, surface, tpc,
                  cur, crash >>

\* mIn = null
StopForgetSource(c) ==
  /\ StopGoto(c, "forget_source", "returned")
  /\ mIn' = NULL
  /\ UNCHANGED << mRun, surfaceDone, viewSuspending, thread, open, surface, tpc,
                  cur, crash >>

StopPlayback(c) ==
  \/ StopCheckRun(c) \/ StopSuspend(c) \/ StopClearRun(c)
  \/ StopCheckThread(c) \/ StopInterrupt(c) \/ StopForgetThread(c)
  \/ StopCheckSource(c) \/ StopCloseSource(c) \/ StopForgetSource(c)

=============================================================================
