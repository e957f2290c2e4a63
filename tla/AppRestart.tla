------------------------------ MODULE AppRestart ------------------------------
(***************************************************************************)
(* The activities that one process runs one after the other: saved settings  *)
(* end the activity and start another (RestartApp), and the user may leave   *)
(* and launch it again, while the pool threads still run the tasks of the    *)
(* one before.  They share the pixel buffer of ImageProc.c, which belongs to *)
(* the process.                                                             *)
(*                                                                         *)
(* MjpegActivity and MjpegView cut one activity into its smallest steps, and *)
(* NativeDecoder the decoding; here every callback, task and frame is one    *)
(* step, and the render threads of a view are one.                          *)
(***************************************************************************)
EXTENDS Integers, FiniteSets

CONSTANTS N,          \* bound: activities in the life of the process, the last of which stays at the front
          MaxReads, MaxPauses,  \* bounds: DoReads of each, and onPauses before the last
          Settings,   \* what the user may save: [size, frames], the resolution set and that of the camera
          NULL

ASSUME BoundAssumption ==
  N \in Nat \ { 0 } /\ MaxReads \in Nat \ { 0 } /\ MaxPauses \in Nat /\ NULL \notin 1..MaxReads

Activities == 1..N
Reads == 1..MaxReads

VARIABLES
  act,       \* each activity and its view: see NewActivity
  reads,     \* the state of each DoRead
  open,      \* the connections that are open, << activity, DoRead >>
  rgb,       \* rgb is allocated, and IMG_WIDTH and IMG_HEIGHT: the size of the frame it was for
  settings,  \* the preferences
  clash,     \* history: the buffer was freed while a render thread decoded into it
  crash      \* "none", or the exception nobody caught, which ended the process
vars == << act, reads, open, rgb, settings, clash, crash >>

\* An activity before onCreate.
Unborn ==
  [life |-> "none", suspending |-> FALSE, finishing |-> FALSE, restart |-> "none", stopTask |-> "none",
   pauseTasks |-> 0, pauses |-> 0,   \* those that have not run yet, and all
   mRun |-> FALSE, viewSuspending |-> FALSE, mIn |-> NULL, thread |-> "new", surface |-> FALSE,
   resolution |-> NULL, bmp |-> NULL, frames |-> NULL,
   render |-> "none",                \* "loop", "frame" to be read, in "decode", or ended
   overtaken |-> FALSE,  \* history: a callback or the stopTask came before a pauseTask had run
   late |-> FALSE,       \* history: a connection was made when the activity was paused or destroyed
   differs |-> FALSE]    \* history: a frame was refused for its size
Created(s) == [Unborn EXCEPT !.life = "created", !.resolution = s.size, !.frames = s.frames]

Init ==
  /\ settings \in Settings
  /\ act = [a \in Activities |-> IF a = 1 THEN Created(settings) ELSE Unborn]
  /\ reads = [a \in Activities |-> [r \in Reads |-> IF a = 1 /\ r = 1 THEN "background" ELSE "unborn"]]
  /\ open = {} /\ rgb = [allocated |-> FALSE, size |-> NULL]
  /\ clash = FALSE /\ crash = "none"

Overtaking(r) == [r EXCEPT !.overtaken = @ \/ r.pauseTasks > 0]
-----------------------------------------------------------------------------
(* The view *)
StopPlayback(r) ==
  [r EXCEPT !.viewSuspending = @ \/ r.mRun, !.mRun = FALSE, !.thread = "null", !.mIn = NULL]
Closed(a) == open \ { << a, act[a].mIn >> }

\* setSource, then startPlayback or resumePlayback, which makes a new thread.
Playing(r) == [r EXCEPT !.mRun = TRUE, !.thread = "started", !.render = IF @ = "none" THEN "loop" ELSE @,
                        !.viewSuspending = FALSE]
SetSource(r, d) == LET s == [r EXCEPT !.mIn = d] IN IF d = NULL THEN s ELSE Playing(s)
StartThrows(r, d) == d # NULL /\ ~r.viewSuspending /\ r.thread = "started"

SurfaceCreated(a) ==
  /\ act[a].life = "resumed" /\ ~act[a].surface
  /\ act' = [act EXCEPT ![a].surface = TRUE]
  /\ UNCHANGED << reads, open, rgb, settings, clash, crash >>
SurfaceDestroyed(a) ==
  /\ act[a].life \in { "paused", "destroyed" } /\ act[a].surface
  /\ act' = [act EXCEPT ![a] = [StopPlayback(Overtaking(@)) EXCEPT !.surface = FALSE]]
  /\ open' = Closed(a)
  /\ UNCHANGED << reads, rgb, settings, clash, crash >>

\* while (mRun), if (surfaceDone)
RenderChecks(a) ==
  /\ act[a].render = "loop" /\ act[a].mRun /\ act[a].surface
  /\ act' = [act EXCEPT ![a].render = "frame"]
  /\ UNCHANGED << reads, open, rgb, settings, clash, crash >>
\* mIn.readMjpegFrame(bmp) on a view that was stopped since: nobody catches the
\* NullPointerException.
SourceGone(a) ==
  /\ act[a].render = "frame" /\ act[a].mIn = NULL
  /\ crash' = "render"
  /\ UNCHANGED << act, reads, open, rgb, settings, clash >>
\* The stream was read from before it was closed, or fails by itself: an
\* IOException, which the loop swallows.
FrameFails(a) ==
  /\ act[a].render = "frame"
  /\ act' = [act EXCEPT ![a].render = "loop"]
  /\ UNCHANGED << reads, open, rgb, settings, clash, crash >>
\* A frame is read and decoded: the first one allocates the buffer, and the size
\* stays that of the frame it was allocated for.
Decode(a) ==
  /\ act[a].render = "frame" /\ act[a].mIn # NULL
  /\ act' = [act EXCEPT ![a].render = "decode", ![a].bmp = IF @ = NULL THEN act[a].resolution ELSE @]
  /\ rgb' = IF rgb.allocated THEN rgb ELSE [allocated |-> TRUE, size |-> act[a].frames]
  /\ UNCHANGED << reads, open, settings, clash, crash >>
\* The frame is drawn; or its size differs, -1 is returned and the thread ends; or
\* the surface is gone and lockCanvas gives a null, which c.drawBitmap throws on.
Decoded(a) ==
  /\ act[a].render = "decode"
  /\ IF act[a].bmp # rgb.size
       THEN act' = [act EXCEPT ![a].render = "none", ![a].differs = TRUE] /\ UNCHANGED crash
     ELSE IF act[a].surface
       THEN act' = [act EXCEPT ![a].render = "loop"] /\ UNCHANGED crash
     ELSE UNCHANGED act /\ crash' = "render"
  /\ UNCHANGED << reads, open, rgb, settings, clash >>
RenderEnds(a) ==
  /\ act[a].render = "loop" /\ ~act[a].mRun
  /\ act' = [act EXCEPT ![a].render = "none"]
  /\ UNCHANGED << reads, open, rgb, settings, clash, crash >>
Render(a) ==
  RenderChecks(a) \/ SourceGone(a) \/ FrameFails(a) \/ Decode(a) \/ Decoded(a) \/ RenderEnds(a)
-----------------------------------------------------------------------------
(* DoRead *)
ReadOpens(a, d) ==
  /\ reads[a][d] = "background"
  /\ reads' = [reads EXCEPT ![a][d] = "opened"] /\ open' = open \cup { << a, d >> }
  /\ UNCHANGED << act, rgb, settings, clash, crash >>
\* An exception, with no connection; or a 401, whose answer nobody consumes or
\* closes.
ReadFails(a, d) ==
  /\ reads[a][d] = "background"
  /\ reads' = [reads EXCEPT ![a][d] = "failed"]
  /\ open' \in { open, open \cup { << a, d >> } }
  /\ UNCHANGED << act, rgb, settings, clash, crash >>
ReadPosted(a, d) ==
  /\ reads[a][d] \in { "opened", "failed" }
  /\ LET source == IF reads[a][d] = "opened" THEN d ELSE NULL
         late == act[a].late \/ (source # NULL /\ act[a].life # "resumed")
     IN /\ act' = [act EXCEPT ![a] = [Overtaking(SetSource(@, source)) EXCEPT !.late = late]]
        /\ crash' = IF StartThrows(act[a], source) THEN "start" ELSE crash
        /\ reads' = [reads EXCEPT ![a][d] = IF source = NULL THEN "posted_null" ELSE "posted"]
  /\ UNCHANGED << open, rgb, settings, clash >>
StartRead(a) ==
  \E d \in Reads : reads[a][d] = "unborn" /\ reads' = [reads EXCEPT ![a][d] = "background"]
-----------------------------------------------------------------------------
(* pauseTask and stopTask *)
\* A pauseTask: if (mv.isStreaming()) ...
\* Faulty variant: the stream is left to the surface.
PauseTaskKeepsStream(a) ==
  /\ act[a].pauseTasks > 0
  /\ act' = [act EXCEPT ![a].pauseTasks = @ - 1, ![a].mRun = FALSE, ![a].thread = "null", ![a].suspending = TRUE]
  /\ UNCHANGED << reads, open, rgb, settings, clash, crash >>
PauseTask(a) ==
  /\ act[a].pauseTasks > 0
  /\ LET r == [act[a] EXCEPT !.pauseTasks = @ - 1] IN
     IF r.mRun THEN act' = [act EXCEPT ![a] = [StopPlayback(r) EXCEPT !.suspending = TRUE]] /\ open' = Closed(a)
     ELSE act' = [act EXCEPT ![a] = r] /\ UNCHANGED open
  /\ UNCHANGED << reads, rgb, settings, clash, crash >>
Decoding == { a \in Activities : act[a].render = "decode" }
\* Faulty variant: freed whether or not the view has a stream.
StopTaskAlways(a) ==
  /\ act[a].stopTask = "begin"
  /\ act' = [act EXCEPT ![a] = [Overtaking(@) EXCEPT !.stopTask = "end"]]
  /\ rgb' = [rgb EXCEPT !.allocated = FALSE] /\ clash' = (clash \/ Decoding # {})
  /\ UNCHANGED << reads, open, settings, crash >>
\* freeCameraMemory, of the view and then of ImageProc.c, if mIn is not null.
StopTask(a) ==
  /\ act[a].stopTask = "begin"
  /\ act' = [act EXCEPT ![a] = [Overtaking(@) EXCEPT !.stopTask = "end"]]
  /\ IF act[a].mIn = NULL THEN UNCHANGED << rgb, clash >>
     ELSE rgb' = [rgb EXCEPT !.allocated = FALSE] /\ clash' = (clash \/ Decoding # {})
  /\ UNCHANGED << reads, open, settings, crash >>
-----------------------------------------------------------------------------
(* The lifecycle.  One activity is at the front.                           *)
Resumed(a, r) ==
  IF r.suspending THEN StartRead(a) /\ act' = [act EXCEPT ![a] = [r EXCEPT !.life = "resumed", !.suspending = FALSE]]
  ELSE UNCHANGED reads /\ act' = [act EXCEPT ![a] = [r EXCEPT !.life = "resumed"]]
CanResume(a) ==
  /\ act[a].life \in { "created", "paused" } /\ ~act[a].finishing
  /\ \A b \in Activities : act[b].life # "resumed"
OnResume(a) ==
  /\ CanResume(a)
  /\ Resumed(a, Overtaking(act[a]))
  /\ UNCHANGED << open, rgb, settings, clash, crash >>
\* onActivityResult with RESULT_OK comes just before onResume.
SaveSettings(a) ==
  /\ CanResume(a) /\ act[a].life = "paused" /\ act[a].restart = "none" /\ a < N
  /\ \E s \in Settings :
       /\ settings' = s
       /\ Resumed(a, [Overtaking(act[a]) EXCEPT !.resolution = s.size, !.restart = "begin"])
  /\ UNCHANGED << open, rgb, clash, crash >>

\* The user leaves, or opens the settings, or the activity is finishing.
OnPause(a) ==
  /\ act[a].life = "resumed" /\ (act[a].pauses < MaxPauses \/ act[a].finishing) /\ a < N
  /\ act' = [act EXCEPT ![a].life = "paused", ![a].pauseTasks = @ + 1, ![a].pauses = @ + 1]
  /\ UNCHANGED << reads, open, rgb, settings, clash, crash >>
\* The back key, or a change of configuration.
Finish(a) ==
  /\ act[a].life = "resumed" /\ act[a].restart = "none" /\ ~act[a].finishing /\ a < N
  /\ act' = [act EXCEPT ![a].finishing = TRUE]
  /\ UNCHANGED << reads, open, rgb, settings, clash, crash >>
OnDestroy(a) ==
  /\ act[a].life = "paused" /\ act[a].finishing
  /\ act' = [act EXCEPT ![a].life = "destroyed", ![a].stopTask = "begin"]
  /\ UNCHANGED << reads, open, rgb, settings, clash, crash >>

\* RestartApp: finish(), then startActivity on the UI thread.
RestartBackground(a) ==
  /\ act[a].restart = "begin"
  /\ act' = [act EXCEPT ![a].restart = "finished", ![a].finishing = TRUE]
  /\ UNCHANGED << reads, open, rgb, settings, clash, crash >>
RestartPosted(a) ==
  /\ act[a].restart = "finished"
  /\ act' = [act EXCEPT ![a].restart = "started"]
  /\ UNCHANGED << reads, open, rgb, settings, clash, crash >>
\* The next activity is created, for the intent or by the user, as soon as the
\* one before is paused.
\* Faulty variant: what RestartApp asks for is forgotten.
OnCreateByUser(a) ==
  /\ a > 1 /\ act[a].life = "none" /\ act[a - 1].life \in { "paused", "destroyed" }
  /\ act[a - 1].finishing /\ act[a - 1].restart = "none"
  /\ act' = [act EXCEPT ![a] = Created(settings)]
  /\ StartRead(a)
  /\ UNCHANGED << open, rgb, settings, clash, crash >>
OnCreate(a) ==
  /\ a > 1 /\ act[a].life = "none" /\ act[a - 1].life \in { "paused", "destroyed" }
  /\ act[a - 1].finishing /\ act[a - 1].restart \in { "none", "started" }
  /\ act' = [act EXCEPT ![a] = Created(settings)]
  /\ StartRead(a)
  /\ UNCHANGED << open, rgb, settings, clash, crash >>

User(a) == OnResume(a) \/ SaveSettings(a) \/ Finish(a) \/ SurfaceCreated(a)
Tasks(a) == PauseTask(a) \/ StopTask(a) \/ RestartBackground(a) \/ RestartPosted(a)
ReadEnds(a) == \E d \in Reads : ReadOpens(a, d) \/ ReadFails(a, d) \/ ReadPosted(a, d)
System(a) == OnPause(a) \/ OnDestroy(a) \/ OnCreate(a) \/ SurfaceDestroyed(a)
Next == crash = "none" /\ \E a \in Activities : User(a) \/ Tasks(a) \/ ReadEnds(a) \/ System(a) \/ Render(a)

\* Tasks run, connections are made or fail, the system destroys a finishing
\* activity with its surface and creates the one RestartApp asked for.
Owed(a) == \/ act[a].finishing /\ (OnPause(a) \/ OnDestroy(a))
           \/ act[a].life = "destroyed" /\ SurfaceDestroyed(a)
           \/ a > 1 /\ act[a - 1].restart = "started" /\ OnCreate(a)
\* Each of an activity's is a step taken finitely often, so that none can keep
\* another from its turn.
Fairness == \A a \in Activities : WF_vars(crash = "none" /\ (Tasks(a) \/ ReadEnds(a) \/ Owed(a)))
Spec == Init /\ [][Next]_vars /\ Fairness
-----------------------------------------------------------------------------
Sizes == { s.size : s \in Settings } \cup { s.frames : s \in Settings } \cup { NULL }
ActivityState ==
  [life : { "none", "created", "resumed", "paused", "destroyed" },
   restart : { "none", "begin", "finished", "started" }, stopTask : { "none", "begin", "end" },
   pauseTasks : Nat, pauses : Nat, mIn : Reads \cup { NULL }, thread : { "new", "null", "started" },
   render : { "none", "loop", "frame", "decode" }, resolution : Sizes, bmp : Sizes, frames : Sizes,
   suspending : BOOLEAN, finishing : BOOLEAN, mRun : BOOLEAN, viewSuspending : BOOLEAN,
   surface : BOOLEAN, overtaken : BOOLEAN, late : BOOLEAN, differs : BOOLEAN]

ReadPC == { "unborn", "background", "opened", "failed", "posted", "posted_null" }

TypeOK ==
  /\ act \in [Activities -> ActivityState]
  /\ \A a \in Activities : act[a].pauseTasks <= act[a].pauses
  /\ reads \in [Activities -> [Reads -> ReadPC]]
  /\ open \in SUBSET (Activities \X Reads) /\ rgb \in [allocated : BOOLEAN, size : Sizes]
  /\ settings \in Settings /\ clash \in BOOLEAN /\ crash \in { "none", "start", "render" }

Failed(a, d) == reads[a][d] \in { "failed", "posted_null" }

\* An activity that goes away in good order, its pauseTasks run before the next
\* callback and no connection arriving late, never takes the buffer away from
\* the one that follows, although nothing says whose the buffer is.
FreedUnused == clash => \E a \in Activities : act[a].overtaken \/ act[a].late

\* A process that goes from one activity to the next keeps at most one camera
\* connection of each: whatever overtakes what, one that was destroyed and has no
\* task left holds none, but for a connection that arrived late and for one the
\* camera refused, which is never closed and is the last the activity made.  A
\* connection made while another plays would start the view's thread a second
\* time, which throws on the UI thread: however tasks and callbacks overtake one
\* another, as long as each runs as a whole, no view meets that.
OldReleases ==
  /\ TypeOK
  /\ crash # "start"
  /\ \A a \in Activities :
       /\ act[a].life = "destroyed" /\ act[a].pauseTasks = 0 /\ ~act[a].surface
       /\ ~act[a].late
       /\ \A d \in Reads : reads[a][d] \notin { "background", "opened" }
       => \A d \in Reads : << a, d >> \in open =>
            Failed(a, d) /\ \A e \in Reads \ { d } : << a, e >> \notin open

\* Saving the settings ends in a new activity, and the old one destroyed, unless a
\* render thread meets the null of its stopped view or lost surface on the way:
\* then the whole process ends.
RestartEnds ==
  \A a \in Activities \ { N } :
    act[a].restart = "begin"
      ~> \/ act[a].life = "destroyed" /\ act[a + 1].life # "none"
         \/ crash = "render"

\* The user who sets the resolution the camera has sees its frames: none is
\* refused for its size, at least where every pauseTask ran in time.
CorrectResolutionShows ==
  \A a \in Activities : act[a].differs =>
    act[a].bmp # act[a].frames \/ \E b \in Activities : act[b].overtaken \/ act[b].late
-----------------------------------------------------------------------------
(* Why FreedUnused and OldReleases hold *)
\* A connection that has not given the view a stream, or never will.
Pending(a, d) == reads[a][d] \in { "background", "opened" } \/ Failed(a, d)

\* A view plays, or a DoRead is to give it a stream or has failed to, or the next
\* onResume is to start one: at most one of the three, and every open connection is
\* the view's, one not yet handed to it or one that was refused.
OneStream(a) ==
  /\ \A d \in Reads : Pending(a, d) => /\ \A e \in Reads : Pending(a, e) => e = d
                                       /\ ~act[a].suspending /\ ~act[a].mRun
  /\ act[a].suspending => ~act[a].mRun
  /\ act[a].mRun <=> act[a].thread = "started"
  /\ act[a].mIn # NULL => act[a].mRun
  /\ \A d \in Reads : << a, d >> \in open =>
       reads[a][d] = "opened" \/ act[a].mIn = d \/ Failed(a, d)

\* No view plays off screen but until its pauseTask runs; the stopTask is run last.
Leaving(a) ==
  /\ act[a].mRun => act[a].life = "resumed" \/ act[a].pauseTasks > 0 \/ act[a].late
  /\ act[a].stopTask = "begin" => act[a].life = "destroyed"

NotYet(a) == act[a].life = "none" => act[a] = Unborn /\ \A d \in Reads : reads[a][d] = "unborn"

\* The inductive invariant.
Released ==
  /\ \A a \in Activities : OneStream(a) /\ Leaving(a) /\ NotYet(a)
  /\ FreedUnused /\ crash # "start"
=============================================================================
