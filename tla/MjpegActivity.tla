---------------------------- MODULE MjpegActivity ----------------------------
(***************************************************************************)
(* One MjpegActivity, from onCreate on, driving its MjpegView: the         *)
(* lifecycle and surface callbacks of the UI thread, the connections       *)
(* (DoRead), the pauseTasks and the stopTask that run on AsyncTask's pool, *)
(* where tasks of one class run side by side.                              *)
(*                                                                         *)
(* Callbacks never overlap one another (one UI thread); each is cut into   *)
(* steps wherever a pool thread or a render thread can get in between.     *)
(***************************************************************************)
EXTENDS MjpegView

CONSTANTS
  Reads,       \* DoRead tasks; the stream a DoRead opens is named after it
  PauseTasks,  \* pauseTask tasks, one for each onPause
  UI           \* the UI thread

ASSUME ActivityAssumption ==
  /\ Streams = Reads
  /\ Callers = PauseTasks \cup { UI }
  /\ UI \notin PauseTasks

VARIABLES
  life,           \* where the activity is in its lifecycle
  actSuspending,  \* MjpegActivity.suspending
  rpc,            \* state of each DoRead
  ppc,            \* state of each pauseTask
  stopT,          \* state of the stopTask, and whether it freed the pixels
  upc,            \* where the UI thread is in the callback it runs
  overtaken,      \* history: see Overtake
  lateSource,     \* history: a stream reached the view while not resumed
  crossed         \* history: see SetSource

actVars == << life, actSuspending, rpc, ppc, stopT, upc, overtaken, lateSource, crossed >>
vars == << viewVars, actVars >>

Lives   == { "created", "resumed", "paused", "destroyed" }
ReadPC  == { "unborn", "background", "opened", "failed", "posted", "posted_null" }
PausePC == { "unborn", "begin", "stopping", "mark", "end" }
StopT   == { "unborn", "begin", "freed", "skipped" }
UiPC    == { "idle", "resume_clear", "source",
             "start", "start_run", "start_thread", "start_go",
             "resume", "resume_run", "resume_thread", "resume_go", "resume_flag",
              "changed", "destroyed" }

TypeOK ==
  /\ ViewTypeOK
  /\ life \in Lives
  /\ actSuspending \in BOOLEAN
  /\ rpc \in [Reads -> ReadPC]
  /\ ppc \in [PauseTasks -> PausePC]
  /\ stopT \in StopT
  /\ upc \in UiPC
  /\ \A s \in open : rpc[s] \notin { "unborn", "background" }
  /\ overtaken \in BOOLEAN /\ lateSource \in BOOLEAN /\ crossed \in BOOLEAN

\* onCreate ends with new DoRead().execute(URL).
Init ==
  /\ ViewInit
  /\ life = "created"
  /\ actSuspending = FALSE
  /\ \E d \in Reads :
       rpc = [e \in Reads |-> IF e = d THEN "background" ELSE "unborn"]
  /\ ppc = [p \in PauseTasks |-> "unborn"]
  /\ stopT = "unborn"
  /\ upc = "idle"
  /\ overtaken = FALSE /\ lateSource = FALSE /\ crossed = FALSE

-----------------------------------------------------------------------------
\* A pauseTask that has been executed and has not ended.
Pausing(p) == ppc[p] \notin { "unborn", "end" }

\* A callback that reads what a pauseTask writes starts before that task has
\* ended.  Only a history variable, no code reads it: it separates the schedules
\* in which a pauseTask ends before the next such callback from those in which
\* it is overtaken.
Overtake ==
  overtaken' = (overtaken \/ \E p \in PauseTasks : Pausing(p))

\* The UI thread takes up a callback, or goes on with the one it runs.
UiGoto(from, to) == upc = from /\ upc' = to

StartRead(d) == rpc[d] = "unborn" /\ rpc' = [rpc EXCEPT ![d] = "background"]

-----------------------------------------------------------------------------
(* Lifecycle callbacks                                                     *)

\* Faulty variant: connect on every resume.
OnResumeAlwaysReads ==
  /\ life \in { "created", "paused" }
  /\ life' = "resumed"
  /\ UiGoto("idle", "resume_clear") /\ \E d \in Reads : StartRead(d)
  /\ Overtake
  /\ UNCHANGED << viewVars, actSuspending, ppc, stopT, lateSource, crossed >>

OnResume ==
  /\ life \in { "created", "paused" }
  /\ life' = "resumed"
  /\ IF actSuspending
       THEN UiGoto("idle", "resume_clear") /\ \E d \in Reads : StartRead(d)
       ELSE UiGoto("idle", "idle") /\ UNCHANGED rpc
  /\ Overtake
  /\ UNCHANGED << viewVars, actSuspending, ppc, stopT, lateSource, crossed >>

\* suspending = false, after the task was started.
OnResumeClear ==
  /\ UiGoto("resume_clear", "idle")
  /\ actSuspending' = FALSE
  /\ UNCHANGED << viewVars, life, rpc, ppc, stopT, overtaken, lateSource, crossed >>

OnPause ==
  /\ life = "resumed" /\ upc = "idle"
  /\ life' = "paused"
  /\ \E p \in PauseTasks :
       ppc[p] = "unborn" /\ ppc' = [ppc EXCEPT ![p] = "begin"]
  /\ UNCHANGED << viewVars, actSuspending, rpc, stopT, upc, overtaken, lateSource, crossed >>

OnDestroy ==
  /\ life = "paused" /\ upc = "idle"
  /\ life' = "destroyed"
  /\ stopT' = "begin"
  /\ UNCHANGED << viewVars, actSuspending, rpc, ppc, upc, overtaken, lateSource, crossed >>

-----------------------------------------------------------------------------
(* Surface callbacks.  The system creates the surface of a resumed window  *)
(* and may destroy it once the activity is paused.                         *)

SurfaceCreated ==
  /\ life = "resumed" /\ upc = "idle" /\ ~surface
  /\ surface' = TRUE
  /\ surfaceDone' = TRUE
  /\ UNCHANGED << mRun, viewSuspending, mIn, thread, open, tpc, cur, stop, crash,
                  actVars >>

\* if (thread != null) thread.setSurfaceSize(w, h): the second read is a step
\* of its own, and setSurfaceSize waits for the monitor, which it holds for two
\* assignments only.  The size itself is left out.
SurfaceChanged ==
  /\ surface /\ life = "resumed"
  /\ UiGoto("idle", IF thread = NULL THEN "idle" ELSE "changed")
  /\ Overtake
  /\ UNCHANGED << viewVars, life, actSuspending, rpc, ppc, stopT, lateSource, crossed >>

SurfaceChangedUse ==
  /\ UiGoto("changed", "idle")
  /\ thread # NULL => MonitorFree
  /\ crash' = IF thread = NULL THEN "ui_null" ELSE crash
  /\ UNCHANGED << mRun, surfaceDone, viewSuspending, mIn, thread, open, surface,
                  tpc, cur, stop, life, actSuspending, rpc, ppc, stopT, overtaken, lateSource, crossed >>

SurfaceDestroyed ==
  /\ life \in { "paused", "destroyed" } /\ surface
  /\ UiGoto("idle", "destroyed")
  /\ surfaceDone' = FALSE
  /\ EnterStop(UI)
  /\ Overtake
  /\ UNCHANGED << mRun, viewSuspending, mIn, thread, open, surface, tpc, cur,
                  crash, life, actSuspending, rpc, ppc, stopT, lateSource, crossed >>

\* surfaceDestroyed has returned and the system takes the surface away, which
\* waits for a canvas that is still locked.
SurfaceGone ==
  /\ StopGoto(UI, "returned", "out")
  /\ \A t \in Threads : tpc[t] # "draw"
  /\ UiGoto("destroyed", "idle")
  /\ surface' = FALSE
  /\ UNCHANGED << mRun, surfaceDone, viewSuspending, mIn, thread, open, tpc, cur,
                  crash, life, actSuspending, rpc, ppc, stopT, overtaken, lateSource, crossed >>

SurfaceDestroyedThrows ==
  /\ stop[UI] = "threw"
  /\ crash' = "ui_null"
  /\ UNCHANGED << mRun, surfaceDone, viewSuspending, mIn, thread, open, surface,
                  tpc, cur, stop, actVars >>

-----------------------------------------------------------------------------
(* DoRead                                                                  *)

\* doInBackground: the request is answered and the entity opened as a stream.
ReadOpens(d) ==
  /\ rpc[d] = "background"
  /\ rpc' = [rpc EXCEPT ![d] = "opened"]
  /\ open' = open \cup { d }
  /\ UNCHANGED << mRun, surfaceDone, viewSuspending, mIn, thread, surface, tpc,
                  cur, stop, crash, life, actSuspending, ppc, stopT, upc, overtaken, lateSource, crossed >>

\* doInBackground: ClientProtocolException or IOException.  The handler is sent
\* msg, the one Message object of the activity, and the task yields null.
ReadFailsToOpen(d) ==
  /\ rpc[d] = "background"
  /\ rpc' = [rpc EXCEPT ![d] = "failed"]
  /\ UNCHANGED << viewVars, life, actSuspending, ppc, stopT, upc, overtaken, lateSource, crossed >>

\* doInBackground: the camera answers 401.  msg is sent and the task yields null
\* all the same, but nobody consumes or closes the answer, whose connection
\* stays open.
ReadRefused(d) ==
  /\ rpc[d] = "background"
  /\ rpc' = [rpc EXCEPT ![d] = "failed"]
  /\ open' = open \cup { d }
  /\ UNCHANGED << mRun, surfaceDone, viewSuspending, mIn, thread, surface, tpc,
                  cur, stop, crash, life, actSuspending, ppc, stopT, upc, overtaken, lateSource, crossed >>

\* onPostExecute calls mv.setSource(result), which starts with mIn = source.
\* crossed records that the view was not rid of the stream before: it is still
\* there, or a stopPlayback has closed it and is about to set mIn = null, which
\* will forget the new one instead.
SetSource(d) ==
  /\ rpc[d] \in { "opened", "failed" }
  /\ UiGoto("idle", "source")
  /\ rpc' = [rpc EXCEPT ![d] = IF rpc[d] = "opened" THEN "posted" ELSE "posted_null"]
  /\ mIn' = IF rpc[d] = "opened" THEN d ELSE NULL
  /\ Overtake
  /\ lateSource' = (lateSource \/ life # "resumed")
  /\ crossed' = (crossed \/ mIn # NULL \/ \E c \in Callers : stop[c] = "forget_source")
  /\ UNCHANGED << mRun, surfaceDone, viewSuspending, thread, open, surface, tpc,
                  cur, stop, crash, life, actSuspending, ppc, stopT >>

\* if (!suspending) startPlayback() else resumePlayback()
SetSourceBranch ==
  /\ UiGoto("source", IF viewSuspending THEN "resume" ELSE "start")
  /\ UNCHANGED << viewVars, life, actSuspending, rpc, ppc, stopT, overtaken, lateSource, crossed >>

uiStepUnchanged == << surfaceDone, mIn, open, surface, cur, stop, life,
                      actSuspending, rpc, ppc, stopT, overtaken, lateSource, crossed >>

\* Faulty variant: no test of mIn.
CheckNoSource(from, to) ==
  /\ UiGoto(from, to)
  /\ UNCHANGED << uiStepUnchanged, mRun, viewSuspending, thread, tpc, crash >>

\* startPlayback, resumePlayback: if (mIn != null).  resumePlayback tests
\* suspending first, which nobody but the UI thread clears.
CheckSource(from, to) ==
  /\ UiGoto(from, IF mIn = NULL THEN "idle" ELSE to)
  /\ UNCHANGED << uiStepUnchanged, mRun, viewSuspending, thread, tpc, crash >>

\* mRun = true
SetRun(from, to) ==
  /\ UiGoto(from, to)
  /\ mRun' = TRUE
  /\ UNCHANGED << uiStepUnchanged, viewSuspending, thread, tpc, crash >>

\* thread = new MjpegViewThread(holder, saved_context)
NewThread ==
  \E t \in Threads :
    /\ tpc[t] = "unborn"
    /\ tpc' = [tpc EXCEPT ![t] = "new"]
    /\ thread' = t

\* Faulty variant: startPlayback only ever uses the thread of the constructor.
StartThreadAsIs ==
  /\ UiGoto("start_thread", "start_go")
  /\ UNCHANGED << uiStepUnchanged, viewSuspending, mRun, tpc, thread, crash >>

\* startPlayback: if (thread == null) thread = new ...
StartThread ==
  /\ UiGoto("start_thread", "start_go")
  /\ IF thread = NULL THEN NewThread ELSE UNCHANGED << tpc, thread >>
  /\ UNCHANGED << uiStepUnchanged, viewSuspending, mRun, crash >>

\* resumePlayback always makes a new thread.
ResumeThread ==
  /\ UiGoto("resume_thread", "resume_go")
  /\ NewThread
  /\ UNCHANGED << uiStepUnchanged, viewSuspending, mRun, crash >>

\* thread.start(): throws on null, and on a thread that was started before.
StartGo(from, to) ==
  /\ UiGoto(from, to)
  /\ \/ /\ thread = NULL
        /\ crash' = "ui_null"
        /\ UNCHANGED tpc
     \/ /\ thread # NULL
        /\ tpc[thread] # "new"
        /\ crash' = "ui_thread_started"
        /\ UNCHANGED tpc
     \/ /\ thread # NULL
        /\ Goto(thread, "new", "loop")
        /\ UNCHANGED crash
  /\ UNCHANGED << uiStepUnchanged, viewSuspending, mRun, thread >>

\* resumePlayback: suspending = false
ResumeFlag ==
  /\ UiGoto("resume_flag", "idle")
  /\ viewSuspending' = FALSE
  /\ UNCHANGED << uiStepUnchanged, mRun, thread, tpc, crash >>

-----------------------------------------------------------------------------
(* pauseTask and stopTask                                                  *)

taskUnchanged == << life, rpc, stopT, upc, overtaken, lateSource, crossed >>

PauseGoto(p, from, to) == ppc[p] = from /\ ppc' = [ppc EXCEPT ![p] = to]

\* Faulty variants: isStreaming() asks whether the render thread is alive, and a
\* pauseTask that leaves the flag of the activity alone.
PauseBeginIfAlive(p) ==
  /\ IF thread # NULL /\ Live(thread)
       THEN PauseGoto(p, "begin", "stopping") /\ EnterStop(p)
       ELSE PauseGoto(p, "begin", "end") /\ UNCHANGED stop
  /\ UNCHANGED << mRun, surfaceDone, viewSuspending, mIn, thread, open, surface,
                  tpc, cur, crash, actSuspending, taskUnchanged >>

PauseForgets(p) ==
  /\ PauseGoto(p, "mark", "end")
  /\ UNCHANGED << viewVars, actSuspending, taskUnchanged >>

\* if (mv.isStreaming()) mv.stopPlayback()
PauseBegin(p) ==
  /\ IF mRun
       THEN PauseGoto(p, "begin", "stopping") /\ EnterStop(p)
       ELSE PauseGoto(p, "begin", "end") /\ UNCHANGED stop
  /\ UNCHANGED << mRun, surfaceDone, viewSuspending, mIn, thread, open, surface,
                  tpc, cur, crash, actSuspending, taskUnchanged >>

\* stopPlayback returned; or threw, and catch (Exception) swallowed it, which
\* skips the assignment to suspending.
PauseStopped(p) ==
  /\ \/ StopGoto(p, "returned", "out") /\ PauseGoto(p, "stopping", "mark")
     \/ StopGoto(p, "threw", "out") /\ PauseGoto(p, "stopping", "end")
  /\ UNCHANGED << mRun, surfaceDone, viewSuspending, mIn, thread, open, surface,
                  tpc, cur, crash, actSuspending, taskUnchanged >>

\* suspending = true
PauseMark(p) ==
  /\ PauseGoto(p, "mark", "end")
  /\ actSuspending' = TRUE
  /\ UNCHANGED << viewVars, taskUnchanged >>

\* mv.freeCameraMemory() releases the native pixels only if there is a source.
StopTask ==
  /\ stopT = "begin"
  /\ stopT' = IF mIn = NULL THEN "skipped" ELSE "freed"
  /\ UNCHANGED << viewVars, life, actSuspending, rpc, ppc, upc, overtaken, lateSource, crossed >>

-----------------------------------------------------------------------------
\* What the UI thread does without waiting for the user or the system.
UiStep ==
  \/ OnResumeClear \/ SurfaceChangedUse \/ SurfaceGone \/ SurfaceDestroyedThrows
  \/ SetSourceBranch
  \/ CheckSource("start", "start_run") \/ SetRun("start_run", "start_thread")
  \/ StartThread \/ StartGo("start_go", "idle")
  \/ CheckSource("resume", "resume_run") \/ SetRun("resume_run", "resume_thread")
  \/ ResumeThread \/ StartGo("resume_go", "resume_flag") \/ ResumeFlag
  \/ StopPlayback(UI) /\ UNCHANGED actVars

Callback ==
  \/ OnResume \/ OnPause \/ OnDestroy
  \/ SurfaceCreated \/ SurfaceChanged \/ SurfaceDestroyed
  \/ \E d \in Reads : SetSource(d)

PauseStep(p) ==
  \/ PauseBegin(p) \/ PauseStopped(p) \/ PauseMark(p)
  \/ StopPlayback(p) /\ UNCHANGED actVars

Next ==
  /\ crash = "none"
  /\ \/ UiStep
     \/ Callback
     \/ \E d \in Reads : ReadOpens(d) \/ ReadFailsToOpen(d) \/ ReadRefused(d)
     \/ \E p \in PauseTasks : PauseStep(p)
     \/ StopTask
     \/ \E t \in Threads : Render(t) /\ UNCHANGED actVars

Spec == Init /\ [][Next]_vars

\* Android's UI thread, pool threads and render threads are scheduled fairly and
\* independently, and a thread that waits for a monitor which is free again and
\* again gets it in the end.  Nothing is assumed of the user, the camera or the
\* network: no callback, connection, frame or error on an open connection need
\* ever come.
Running == crash = "none"

Fairness ==
  /\ WF_vars(Running /\ UiStep)
  /\ \A p \in PauseTasks : WF_vars(Running /\ PauseStep(p))
  /\ \A t \in Threads : WF_vars(Running /\ RenderStep(t) /\ UNCHANGED actVars)
  /\ SF_vars(Running /\ SurfaceChangedUse)

FairSpec == Spec /\ Fairness

-----------------------------------------------------------------------------
(* Properties                                                              *)

(* Most of them are about schedules in which every pauseTask ends before   *)
(* the next callback that touches the view.  When one is overtaken the     *)
(* code guarantees none of them: its fields are not synchronized.          *)

\* No callback is running and no pauseTask is unfinished.
Quiet == upc = "idle" /\ \A p \in PauseTasks : ~Pausing(p)

InFlight(d) == rpc[d] \in { "background", "opened" }
Failed(d)   == rpc[d] \in { "failed", "posted_null" }

\* Between callbacks a running view has a stream and a started thread: mRun,
\* mIn and thread, which setSource and stopPlayback change one at a time, agree.
Coupled ==
  ~overtaken /\ Quiet /\ mRun =>
    /\ mIn # NULL
    /\ thread # NULL
    /\ tpc[thread] # "new"

\* An activity on screen whose view is not running is waiting for a connection,
\* or a connection failed (which nothing retries): onPause, onResume and the
\* surface callbacks never lose the stream between them.  lateSource excepts a
\* connection completed off screen, whose stream surfaceDestroyed then drops.
NotDark ==
  ~overtaken /\ ~lateSource /\ Quiet /\ life = "resumed" /\ ~mRun =>
    \E d \in Reads : InFlight(d) \/ Failed(d)

\* The only open connections are the view's, one not yet handed to it, and the
\* refused one that doInBackground leaks: no setSource overwrites an open stream
\* and no stopPlayback drops one.
NoStreamLeak ==
  ~overtaken => \A s \in open : s = mIn \/ rpc[s] = "opened" \/ Failed(s)

\* No callback dereferences a thread or stream that stopPlayback cleared, and
\* no thread is started twice.
CleanUI == ~overtaken => crash \notin { "ui_null", "ui_thread_started" }

\* DoReads share one Message object, which a Handler refuses or garbles when it
\* is sent again before it was handled: two never both fail.
MessageSentOnce ==
  ~overtaken => \A d, e \in Reads : Failed(d) /\ Failed(e) => d = e

\* The two flags called suspending, one of the activity and one of the view,
\* tell the same story: onResume reconnects only a view that was playing, is
\* stopped, and will take the resumePlayback path.
SuspendAgree ==
  ~overtaken /\ Quiet /\ actSuspending => viewSuspending /\ ~mRun /\ mIn = NULL

\* Render threads told to stop do stop, unless playback is started again before
\* they look: one blocked in a read is freed by the close.  It never is when a
\* stalled pauseTask has forgotten its stream (crossed).
StoppedThreadsEnd ==
  ~mRun ~> (\A t \in Threads : ~Live(t)) \/ mRun \/ crossed \/ ~Running

\* Once the activity is paused every connection the view was given is closed,
\* also when the stream has ended by itself, and however pauseTasks are
\* overtaken, short of one that forgets a newer stream.
PauseReleasesCamera ==
  life = "paused" /\ ~lateSource
    ~> \/ \A s \in open : rpc[s] # "posted"
       \/ lateSource \/ crossed \/ ~Running

\* No callback hangs the UI thread: not surfaceChanged, which waits for the
\* monitor that render threads enter, nor surfaceDestroyed, which stops playback
\* and then waits for the canvas, even if the camera sends nothing any more.
CallbacksReturn == upc # "idle" ~> upc = "idle" \/ ~Running

-----------------------------------------------------------------------------
(* Why Coupled, NoStreamLeak, CleanUI and SuspendAgree hold                *)

\* A connection whose result the view has not been given.
Pending(d) == rpc[d] \in { "background", "opened", "failed" }

\* setSource has not returned; and has set mRun but not started the thread.
Starting == { "source", "start", "start_run", "start_thread", "start_go",
              "resume", "resume_run", "resume_thread", "resume_go", "resume_flag" }
Unstarted == { "start_thread", "start_go", "resume_thread", "resume_go" }

\* Who is inside stopPlayback.
Calls ==
  /\ \A p \in PauseTasks : stop[p] # "out" <=> ppc[p] = "stopping"
  /\ stop[UI] # "out" <=> upc = "destroyed"

\* No two of them work on the view at a time.
Alone ==
  /\ upc # "idle" \/ life \in { "created", "resumed" } =>
       \A p \in PauseTasks : ~Pausing(p)
  /\ \A p, q \in PauseTasks : Pausing(p) /\ Pausing(q) => p = q

\* There is one connection at a time, and none while the view plays.
OneRead ==
  \A d \in Reads : Pending(d) =>
    /\ \A e \in Reads : Pending(e) => e = d
    /\ ~mRun /\ mIn = NULL
    /\ upc \notin Starting
    /\ actSuspending => upc = "resume_clear"
    /\ \A p \in PauseTasks : ppc[p] \notin { "stopping", "mark" }

\* The activity's flag says that playback was stopped and can be resumed.
Stopped ==
  /\ actSuspending =>
       viewSuspending /\ ~mRun /\ mIn = NULL /\ upc \notin Starting
  /\ \A p \in PauseTasks :
       /\ ppc[p] = "mark" => viewSuspending /\ ~mRun /\ mIn = NULL
       /\ stop[p] \in { "run", "susp" } => mRun
       /\ stop[p] \notin { "out", "run", "susp" } => viewSuspending

\* How far stopPlayback has got.
StopOrder ==
  \A c \in Callers :
    /\ stop[c] \notin { "out", "run", "susp", "clear" } => ~mRun
    /\ stop[c] = "interrupt" => thread # NULL
    /\ stop[c] = "close" => mIn # NULL
    /\ stop[c] = "forget_source" => mIn \notin open
    /\ stop[c] = "returned" => mIn = NULL
    /\ stop[c] # "threw"

\* How far setSource has got.
StartOrder ==
  /\ upc \in { "source", "start", "start_run", "start_thread" } =>
       thread = NULL \/ tpc[thread] = "new"
  /\ upc \in { "start_go", "resume_go" } => thread # NULL /\ tpc[thread] = "new"
  /\ upc \in { "start_run", "resume_run" } => mIn # NULL
  /\ upc \in Unstarted \cup { "resume_flag" } => mRun
  /\ upc = "changed" => thread # NULL

\* A thread that was started is the view's only while the view runs, or until
\* stopPlayback has forgotten it.
Held ==
  /\ mRun => mIn # NULL
  /\ mRun /\ upc \notin Unstarted => thread # NULL /\ tpc[thread] # "new"
  /\ thread # NULL /\ tpc[thread] # "new" =>
       mRun \/ \E c \in Callers : stop[c] \in { "thread", "interrupt", "forget_thread" }

\* The inductive invariant.
Ordered ==
  /\ Calls
  /\ ~overtaken =>
       /\ Alone /\ OneRead /\ Stopped /\ StopOrder /\ StartOrder /\ Held
       /\ NoStreamLeak /\ CleanUI

-----------------------------------------------------------------------------
(* Why MessageSentOnce and NotDark hold                                    *)

\* A connection that failed is the last: nothing plays, so that no pauseTask
\* finds anything to stop, and no onResume connects again.
LastRead ==
  \A d \in Reads : Failed(d) =>
    /\ \A e \in Reads : Pending(e) \/ Failed(e) => e = d
    /\ ~mRun /\ mIn = NULL
    /\ upc \notin Starting \ { "source", "start", "resume" }
    /\ actSuspending => upc = "resume_clear"
    /\ \A p \in PauseTasks : ppc[p] \notin { "stopping", "mark" }

\* Who makes the view play: itself, a setSource that has a stream, a connection
\* under way; or the next onResume, which a pauseTask has told or will tell.
Lit ==
  \/ mRun
  \/ upc \in Starting /\ mIn # NULL
  \/ \E d \in Reads : InFlight(d) \/ Failed(d)
  \/ actSuspending
  \/ \E p \in PauseTasks : ppc[p] \in { "stopping", "mark" }

\* Where in the lifecycle that happens.
Staged ==
  /\ upc \in Starting => life = "resumed"
  /\ upc = "destroyed" => life \in { "paused", "destroyed" }
  /\ mRun => life = "resumed" \/ \E p \in PauseTasks : ppc[p] \in { "begin", "stopping" }
  /\ actSuspending /\ life = "resumed" => upc = "resume_clear"
  /\ upc = "resume_clear" => \E d \in Reads : InFlight(d) \/ Failed(d)

\* The inductive invariant, on top of Ordered.
Lasting ==
  ~overtaken => /\ LastRead
                /\ ~lateSource => Lit /\ Staged

=============================================================================
