------------------------- MODULE MjpegActivityProofs -------------------------
(***************************************************************************)
(* Theorems about MjpegActivity, for any number of tasks, streams and      *)
(* render threads.                                                         *)
(***************************************************************************)
EXTENDS MjpegActivity, TLAPS

-----------------------------------------------------------------------------
(* Type correctness                                                        *)

\* The steps of the render threads keep the types.
LEMMA RenderType ==
  ASSUME TypeOK, NEW t \in Threads, Render(t), UNCHANGED actVars
  PROVE  TypeOK'
<1> USE DEF TypeOK, ViewTypeOK, actVars, callerVars, Goto, RenderPC, Crashes
<1>1. CASE CheckRun(t)      BY <1>1 DEF CheckRun
<1>2. CASE CheckSurface(t)  BY <1>2 DEF CheckSurface
<1>3. CASE ReadSource(t)    BY <1>3 DEF ReadSource
<1>4. CASE FrameRead(t)     BY <1>4 DEF FrameRead
<1>5. CASE StreamEnds(t)    BY <1>5 DEF StreamEnds
<1>6. CASE ReadFails(t)     BY <1>6 DEF ReadFails
<1>7. CASE LockCanvas(t)    BY <1>7 DEF LockCanvas
<1>8. CASE Draw(t)          BY <1>8 DEF Draw
<1>9. CASE ReadThrows(t)    BY <1>9 DEF ReadThrows
<1> QED
  BY <1>1, <1>2, <1>3, <1>4, <1>5, <1>6, <1>7, <1>8, <1>9 DEF Render, RenderStep

\* So do the steps of stopPlayback, whoever runs it.
LEMMA StopType ==
  ASSUME TypeOK, NEW c \in Callers, StopPlayback(c), UNCHANGED actVars
  PROVE  TypeOK'
<1> USE DEF TypeOK, ViewTypeOK, actVars, StopGoto, StopPC
<1>1. CASE StopCheckRun(c)      BY <1>1 DEF StopCheckRun
<1>2. CASE StopSuspend(c)       BY <1>2 DEF StopSuspend
<1>3. CASE StopClearRun(c)      BY <1>3 DEF StopClearRun
<1>4. CASE StopCheckThread(c)   BY <1>4 DEF StopCheckThread
<1>5. CASE StopInterrupt(c)     BY <1>5 DEF StopInterrupt
<1>6. CASE StopForgetThread(c)  BY <1>6 DEF StopForgetThread
<1>7. CASE StopCheckSource(c)   BY <1>7 DEF StopCheckSource
<1>8. CASE StopCloseSource(c)   BY <1>8 DEF StopCloseSource
<1>9. CASE StopForgetSource(c)  BY <1>9 DEF StopForgetSource
<1> QED
  BY <1>1, <1>2, <1>3, <1>4, <1>5, <1>6, <1>7, <1>8, <1>9 DEF StopPlayback

\* The steps of a callback the UI thread has begun.
LEMMA UiType ==
  ASSUME TypeOK, UiStep
  PROVE  TypeOK'
<1> UI \in Callers  BY ActivityAssumption
<1> USE ActivityAssumption
    DEF TypeOK, ViewTypeOK, UiGoto, UiPC, viewVars, uiStepUnchanged, Crashes
<1>1. CASE OnResumeClear           BY <1>1, ZenonT(60) DEF OnResumeClear
<1>2. CASE SurfaceChangedUse       BY <1>2 DEF SurfaceChangedUse
<1>3. CASE SurfaceGone             BY <1>3, ZenonT(60) DEF SurfaceGone, StopGoto, StopPC
<1>4. CASE SurfaceDestroyedThrows  BY <1>4 DEF SurfaceDestroyedThrows, actVars
<1>5. CASE SetSourceBranch         BY <1>5 DEF SetSourceBranch
<1>6. ASSUME NEW from, NEW to \in UiPC, CheckSource(from, to)
      PROVE  TypeOK'
  BY <1>6 DEF CheckSource
<1>7. ASSUME NEW from, NEW to \in UiPC, SetRun(from, to)
      PROVE  TypeOK'
  BY <1>7 DEF SetRun
<1>8. CASE StartThread   BY <1>8 DEF StartThread, NewThread, RenderPC
<1>9. CASE ResumeThread  BY <1>9 DEF ResumeThread, NewThread, RenderPC
<1>10. ASSUME NEW from, NEW to \in UiPC, StartGo(from, to)
       PROVE  TypeOK'
  BY <1>10 DEF StartGo, Goto, RenderPC
<1>11. CASE ResumeFlag   BY <1>11, ZenonT(60) DEF ResumeFlag
<1>12. CASE StopPlayback(UI) /\ UNCHANGED actVars  BY <1>12, StopType
<1> QED
  BY <1>1, <1>2, <1>3, <1>4, <1>5, <1>6, <1>7, <1>8, <1>9, <1>10, <1>11, <1>12
     DEF UiStep

\* The callbacks' first steps.
LEMMA CallbackType ==
  ASSUME TypeOK, Callback
  PROVE  TypeOK'
<1> UI \in Callers  BY ActivityAssumption
<1> USE ActivityAssumption
    DEF TypeOK, ViewTypeOK, UiGoto, UiPC, viewVars, Overtake
<1>1. CASE OnResume          BY <1>1 DEF OnResume, StartRead, Lives, ReadPC
<1>2. CASE OnPause           BY <1>2 DEF OnPause, Lives, PausePC
<1>3. CASE OnDestroy         BY <1>3 DEF OnDestroy, Lives, StopT
<1>4. CASE SurfaceCreated    BY <1>4 DEF SurfaceCreated, actVars
<1>5. CASE SurfaceChanged    BY <1>5 DEF SurfaceChanged
<1>6. CASE SurfaceDestroyed  BY <1>6 DEF SurfaceDestroyed, EnterStop, StopGoto, StopPC
<1>7. ASSUME NEW d \in Reads, SetSource(d)
      PROVE  TypeOK'
  BY <1>7 DEF SetSource, ReadPC
<1> QED  BY <1>1, <1>2, <1>3, <1>4, <1>5, <1>6, <1>7 DEF Callback

\* The tasks on the pool.
LEMMA TaskType ==
  ASSUME TypeOK,
         \/ \E d \in Reads : ReadOpens(d) \/ ReadFailsToOpen(d) \/ ReadRefused(d)
         \/ \E p \in PauseTasks : PauseStep(p)
         \/ StopTask
  PROVE  TypeOK'
<1> USE ActivityAssumption DEF TypeOK, ViewTypeOK, viewVars, taskUnchanged
<1>1. ASSUME NEW d \in Reads, ReadOpens(d)
      PROVE  TypeOK'
  BY <1>1 DEF ReadOpens, ReadPC
<1>2. ASSUME NEW d \in Reads, ReadFailsToOpen(d)
      PROVE  TypeOK'
  BY <1>2 DEF ReadFailsToOpen, ReadPC
<1>8. ASSUME NEW d \in Reads, ReadRefused(d)
      PROVE  TypeOK'
  BY <1>8 DEF ReadRefused, ReadPC
<1>3. ASSUME NEW p \in PauseTasks, PauseBegin(p)
      PROVE  TypeOK'
  BY <1>3 DEF PauseBegin, PauseGoto, PausePC, EnterStop, StopGoto, StopPC
<1>4. ASSUME NEW p \in PauseTasks, PauseStopped(p)
      PROVE  TypeOK'
  BY <1>4 DEF PauseStopped, PauseGoto, PausePC, StopGoto, StopPC
<1>5. ASSUME NEW p \in PauseTasks, PauseMark(p)
      PROVE  TypeOK'
  BY <1>5 DEF PauseMark, PauseGoto, PausePC
<1>6. ASSUME NEW p \in PauseTasks, StopPlayback(p), UNCHANGED actVars
      PROVE  TypeOK'
  BY <1>6, StopType
<1>7. CASE StopTask  BY <1>7 DEF StopTask, StopT
<1> QED  BY <1>1, <1>2, <1>3, <1>4, <1>5, <1>6, <1>7, <1>8 DEF PauseStep

\* Every variable keeps its type, and every open connection is that of a DoRead
\* that has had an answer, a refusal among them.
THEOREM TypeCorrect == Spec => []TypeOK
<1>1. ASSUME Init
      PROVE  TypeOK
  <2>1. ViewTypeOK
    BY <1>1 DEF Init, ViewInit, ViewTypeOK, RenderPC, StopPC, Crashes
  <2>2. rpc \in [Reads -> ReadPC]
    BY <1>1 DEF Init, ReadPC
  <2>3. ppc \in [PauseTasks -> PausePC]
    BY <1>1 DEF Init, PausePC
  <2>4. open = {}
    BY <1>1 DEF Init, ViewInit
  <2> QED
    BY <1>1, <2>1, <2>2, <2>3, <2>4 DEF Init, TypeOK, Lives, StopT, UiPC
<1>2. TypeOK /\ [Next]_vars => TypeOK'
  <2> SUFFICES ASSUME TypeOK, [Next]_vars
               PROVE  TypeOK'
    OBVIOUS
  <2>1. CASE UiStep    BY <2>1, UiType
  <2>2. CASE Callback  BY <2>2, CallbackType
  <2>3. CASE \/ \E d \in Reads : ReadOpens(d) \/ ReadFailsToOpen(d) \/ ReadRefused(d)
             \/ \E p \in PauseTasks : PauseStep(p)
             \/ StopTask
    BY <2>3, TaskType
  <2>4. ASSUME NEW t \in Threads, Render(t), UNCHANGED actVars
        PROVE  TypeOK'
    BY <2>4, RenderType
  <2>5. CASE UNCHANGED vars
    BY <2>5 DEF vars, viewVars, actVars, TypeOK, ViewTypeOK
  <2> QED  BY <2>1, <2>2, <2>3, <2>4, <2>5 DEF Next
<1> QED  BY <1>1, <1>2, PTL DEF Spec

-----------------------------------------------------------------------------
(* The inductive invariant Ordered                                         *)

\* A render thread only moves itself: it writes none of the view's fields, and
\* it is neither "new" before nor after its step.
LEMMA RenderOrdered ==
  ASSUME TypeOK, Ordered, Running, NEW t \in Threads, Render(t), UNCHANGED actVars
  PROVE  Ordered'
<1> USE ViewAssumption
    DEF TypeOK, ViewTypeOK, Ordered, Calls, Alone, OneRead, Stopped, StopOrder,
        StartOrder, Held, NoStreamLeak, Failed, CleanUI, Pending, Pausing, Running,
        actVars, callerVars, Goto
<1>1. CASE CheckRun(t)      BY <1>1 DEF CheckRun
<1>2. CASE CheckSurface(t)  BY <1>2 DEF CheckSurface
<1>3. CASE ReadSource(t)    BY <1>3 DEF ReadSource
<1>4. CASE FrameRead(t)     BY <1>4 DEF FrameRead
<1>5. CASE StreamEnds(t)    BY <1>5 DEF StreamEnds
<1>6. CASE ReadFails(t)     BY <1>6 DEF ReadFails
<1>7. CASE LockCanvas(t)    BY <1>7 DEF LockCanvas
<1>8. CASE Draw(t)          BY <1>8 DEF Draw
<1>9. CASE ReadThrows(t)    BY <1>9 DEF ReadThrows
<1> QED
  BY <1>1, <1>2, <1>3, <1>4, <1>5, <1>6, <1>7, <1>8, <1>9 DEF Render, RenderStep

\* stopPlayback.  While c runs it nobody else does (Alone with Calls), so what c
\* tested a step ago is still so.
LEMMA StopOrdered ==
  ASSUME TypeOK, Ordered, Running, NEW c \in Callers, StopPlayback(c),
         UNCHANGED actVars
  PROVE  Ordered'
<1> USE ViewAssumption, ActivityAssumption
    DEF TypeOK, ViewTypeOK, Ordered, Calls, Alone, OneRead, Stopped, StopOrder,
        StartOrder, Held, NoStreamLeak, Failed, CleanUI, Pending, Pausing, Starting,
        Unstarted, Running, actVars, StopGoto
<1>1. CASE StopCheckRun(c)      BY <1>1 DEF StopCheckRun
<1>2. CASE StopSuspend(c)       BY <1>2 DEF StopSuspend
<1>3. CASE StopClearRun(c)      BY <1>3 DEF StopClearRun
<1>4. CASE StopCheckThread(c)   BY <1>4 DEF StopCheckThread
<1>5. CASE StopInterrupt(c)     BY <1>5 DEF StopInterrupt
<1>6. CASE StopForgetThread(c)  BY <1>6 DEF StopForgetThread
<1>7. CASE StopCheckSource(c)   BY <1>7 DEF StopCheckSource
<1>8. CASE StopCloseSource(c)   BY <1>8 DEF StopCloseSource
<1>9. CASE StopForgetSource(c)  BY <1>9 DEF StopForgetSource
<1> QED
  BY <1>1, <1>2, <1>3, <1>4, <1>5, <1>6, <1>7, <1>8, <1>9 DEF StopPlayback

\* The rest of a callback.  setSource walks StartOrder's conjuncts in turn.
LEMMA UiOrdered ==
  ASSUME TypeOK, Ordered, Running, UiStep
  PROVE  Ordered'
<1> USE ViewAssumption, ActivityAssumption
    DEF TypeOK, ViewTypeOK, Ordered, Calls, Alone, OneRead, Stopped, StopOrder,
        StartOrder, Held, NoStreamLeak, Failed, CleanUI, Pending, Pausing, Starting,
        Unstarted, Running, UiGoto, viewVars, uiStepUnchanged
<1>1. CASE OnResumeClear           BY <1>1 DEF OnResumeClear
<1>2. CASE SurfaceChangedUse       BY <1>2 DEF SurfaceChangedUse
<1>3. CASE SurfaceGone             BY <1>3 DEF SurfaceGone, StopGoto
<1>4. CASE SurfaceDestroyedThrows  BY <1>4 DEF SurfaceDestroyedThrows, actVars
<1>5. CASE SetSourceBranch         BY <1>5 DEF SetSourceBranch
<1>6. CASE CheckSource("start", "start_run")      BY <1>6 DEF CheckSource
<1>7. CASE CheckSource("resume", "resume_run")    BY <1>7 DEF CheckSource
<1>8. CASE SetRun("start_run", "start_thread")    BY <1>8 DEF SetRun
<1>9. CASE SetRun("resume_run", "resume_thread")  BY <1>9 DEF SetRun
<1>10. CASE StartThread                           BY <1>10 DEF StartThread, NewThread
<1>11. CASE ResumeThread                          BY <1>11 DEF ResumeThread, NewThread
<1>12. CASE StartGo("start_go", "idle")           BY <1>12 DEF StartGo, Goto
<1>13. CASE StartGo("resume_go", "resume_flag")   BY <1>13 DEF StartGo, Goto
<1>14. CASE ResumeFlag                            BY <1>14 DEF ResumeFlag
<1>15. CASE StopPlayback(UI) /\ UNCHANGED actVars
  <2> HIDE DEF Ordered, TypeOK
  <2> QED  BY <1>15, StopOrdered
<1> QED
  BY <1>1, <1>2, <1>3, <1>4, <1>5, <1>6, <1>7, <1>8, <1>9, <1>10, <1>11, <1>12,
     <1>13, <1>14, <1>15
  DEF UiStep

\* A callback that touches the view leaves overtaken FALSE only if no pauseTask
\* is unfinished, and then the view is nobody's but the UI thread's.
LEMMA NotOvertaken ==
  ASSUME Ordered, Overtake, ~overtaken', upc = "idle"
  PROVE  /\ ~overtaken
         /\ \A p \in PauseTasks : ppc[p] \in { "unborn", "end" }
         /\ \A c \in Callers : stop[c] = "out"
BY ActivityAssumption DEF Ordered, Calls, Overtake, Pausing

\* onResume starts a connection only when there is none (Stopped, OneRead).
LEMMA ResumeOrdered ==
  ASSUME TypeOK, Ordered, Running, OnResume
  PROVE  Ordered'
<1> USE ActivityAssumption DEF TypeOK, ViewTypeOK, OnResume, UiGoto, StartRead, viewVars
<1>1. Calls'
  BY DEF Ordered, Calls
<1> SUFFICES ASSUME ~overtaken'
             PROVE  /\ Alone' /\ OneRead' /\ Stopped' /\ StopOrder' /\ StartOrder'
                    /\ Held' /\ NoStreamLeak' /\ CleanUI'
  BY <1>1 DEF Ordered
<1>2. /\ ~overtaken
      /\ \A p \in PauseTasks : ppc[p] \in { "unborn", "end" }
      /\ \A c \in Callers : stop[c] = "out"
  BY NotOvertaken
<1>3. Alone'
  BY <1>2 DEF Alone, Pausing
<1>4. OneRead'
  <2>1. CASE actSuspending
    <3>1. \A d \in Reads : ~Pending(d)
      BY <1>2, <2>1 DEF Ordered, OneRead
    <3>2. PICK d \in Reads : StartRead(d)
      BY <2>1
    <3>3. \A e \in Reads : Pending(e)' <=> e = d
      BY <3>1, <3>2 DEF Pending
    <3> QED  BY <1>2, <2>1, <3>3 DEF Ordered, OneRead, Stopped, Starting
  <2>2. CASE ~actSuspending
    BY <1>2, <2>2 DEF Ordered, OneRead, Pending, Starting
  <2> QED  BY <2>1, <2>2
<1>5. Stopped'
  BY <1>2 DEF Ordered, Stopped, Starting
<1>6. StopOrder' /\ StartOrder' /\ Held' /\ CleanUI'
  BY <1>2 DEF Ordered, StopOrder, StartOrder, Held, CleanUI, Unstarted
<1>7. NoStreamLeak'
  BY <1>2 DEF Ordered, NoStreamLeak, Failed
<1> QED  BY <1>3, <1>4, <1>5, <1>6, <1>7

\* surfaceDestroyed enters stopPlayback, with no pauseTask inside it.
LEMMA DestroyedOrdered ==
  ASSUME TypeOK, Ordered, Running, SurfaceDestroyed
  PROVE  Ordered'
<1> USE ActivityAssumption
    DEF TypeOK, ViewTypeOK, SurfaceDestroyed, UiGoto, EnterStop, StopGoto
<1>1. Calls'
  BY DEF Ordered, Calls
<1> SUFFICES ASSUME ~overtaken'
             PROVE  /\ Alone' /\ OneRead' /\ Stopped' /\ StopOrder' /\ StartOrder'
                    /\ Held' /\ NoStreamLeak' /\ CleanUI'
  BY <1>1 DEF Ordered
<1>2. /\ ~overtaken
      /\ \A p \in PauseTasks : ppc[p] \in { "unborn", "end" }
      /\ \A c \in Callers : stop[c] = "out"
  BY NotOvertaken
<1>3. Alone'
  BY <1>2 DEF Alone, Pausing
<1>4. OneRead'
  BY <1>2 DEF Ordered, OneRead, Pending, Starting
<1>5. Stopped'
  BY <1>2 DEF Ordered, Stopped, Starting
<1>6. StopOrder' /\ StartOrder' /\ Held' /\ CleanUI' /\ NoStreamLeak'
  BY <1>2
  DEF Ordered, StopOrder, StartOrder, Held, CleanUI, Unstarted, NoStreamLeak, Failed
<1> QED  BY <1>3, <1>4, <1>5, <1>6

\* setSource takes over the one connection: the view has no stream to lose, and
\* what thread it has was never started.
LEMMA SourceOrdered ==
  ASSUME TypeOK, Ordered, Running, NEW d \in Reads, SetSource(d)
  PROVE  Ordered'
<1> USE ViewAssumption, ActivityAssumption DEF TypeOK, ViewTypeOK, SetSource, UiGoto
<1>1. Calls'
  BY DEF Ordered, Calls
<1> SUFFICES ASSUME ~overtaken'
             PROVE  /\ Alone' /\ OneRead' /\ Stopped' /\ StopOrder' /\ StartOrder'
                    /\ Held' /\ NoStreamLeak' /\ CleanUI'
  BY <1>1 DEF Ordered
<1>2. /\ ~overtaken
      /\ \A p \in PauseTasks : ppc[p] \in { "unborn", "end" }
      /\ \A c \in Callers : stop[c] = "out"
  BY NotOvertaken
<1>3. /\ Pending(d)
      /\ \A e \in Reads : Pending(e) => e = d
      /\ ~mRun /\ mIn = NULL /\ ~actSuspending
  BY <1>2 DEF Ordered, OneRead, Pending
<1>4. Alone'
  BY <1>2 DEF Alone, Pausing
<1>5. OneRead'
  BY <1>3 DEF OneRead, Pending
<1>6. Stopped'
  BY <1>2, <1>3 DEF Stopped
<1>7. thread = NULL \/ tpc[thread] = "new"
  BY <1>2, <1>3 DEF Ordered, Held
<1>8. StopOrder' /\ StartOrder' /\ Held' /\ CleanUI'
  BY <1>2, <1>3, <1>7
  DEF Ordered, StopOrder, StartOrder, Held, CleanUI, Unstarted
<1>9. NoStreamLeak'
  BY <1>2, <1>3 DEF Ordered, NoStreamLeak, Pending, Failed
<1> QED  BY <1>4, <1>5, <1>6, <1>8, <1>9

LEMMA CallbackOrdered ==
  ASSUME TypeOK, Ordered, Running, Callback
  PROVE  Ordered'
<1>1. CASE OnResume          BY <1>1, ResumeOrdered
<1>2. CASE SurfaceDestroyed  BY <1>2, DestroyedOrdered
<1>3. ASSUME NEW d \in Reads, SetSource(d)
      PROVE  Ordered'
  BY <1>3, SourceOrdered
<1> USE ViewAssumption, ActivityAssumption
    DEF TypeOK, ViewTypeOK, Ordered, Calls, Alone, OneRead, Stopped, StopOrder,
        StartOrder, Held, NoStreamLeak, Failed, CleanUI, Pending, Pausing, Starting,
        Unstarted, Running, UiGoto, viewVars, Overtake
<1>4. CASE OnPause         BY <1>4 DEF OnPause
<1>5. CASE OnDestroy       BY <1>5 DEF OnDestroy
<1>6. CASE SurfaceCreated  BY <1>6 DEF SurfaceCreated, actVars
<1>7. CASE SurfaceChanged  BY <1>7 DEF SurfaceChanged
<1> HIDE DEF Ordered, TypeOK
<1> QED  BY <1>1, <1>2, <1>3, <1>4, <1>5, <1>6, <1>7 DEF Callback

\* The tasks on the pool.  A pauseTask that has stopped a view leaves what
\* onResume relies on.
LEMMA TaskOrdered ==
  ASSUME TypeOK, Ordered, Running,
         \/ \E d \in Reads : ReadOpens(d) \/ ReadFailsToOpen(d) \/ ReadRefused(d)
         \/ \E p \in PauseTasks : PauseStep(p)
         \/ StopTask
  PROVE  Ordered'
<1>1. ASSUME NEW p \in PauseTasks, StopPlayback(p), UNCHANGED actVars
      PROVE  Ordered'
  BY <1>1, StopOrdered, ActivityAssumption
<1> USE ViewAssumption, ActivityAssumption
    DEF TypeOK, ViewTypeOK, Ordered, Calls, Alone, OneRead, Stopped, StopOrder,
        StartOrder, Held, NoStreamLeak, Failed, CleanUI, Pending, Pausing, Starting,
        Unstarted, Running, viewVars, taskUnchanged, PauseGoto, StopGoto
<1>2. ASSUME NEW d \in Reads, ReadOpens(d)
      PROVE  Ordered'
  BY <1>2 DEF ReadOpens
<1>3. ASSUME NEW d \in Reads, ReadFailsToOpen(d)
      PROVE  Ordered'
  BY <1>3 DEF ReadFailsToOpen
<1>8. ASSUME NEW d \in Reads, ReadRefused(d)
      PROVE  Ordered'
  BY <1>8 DEF ReadRefused
<1>4. ASSUME NEW p \in PauseTasks, PauseBegin(p)
      PROVE  Ordered'
  BY <1>4 DEF PauseBegin, EnterStop
<1>5. ASSUME NEW p \in PauseTasks, PauseStopped(p)
      PROVE  Ordered'
  BY <1>5 DEF PauseStopped
<1>6. ASSUME NEW p \in PauseTasks, PauseMark(p)
      PROVE  Ordered'
  BY <1>6 DEF PauseMark
<1>7. CASE StopTask  BY <1>7 DEF StopTask
<1> HIDE DEF Ordered, TypeOK
<1> QED  BY <1>1, <1>2, <1>3, <1>4, <1>5, <1>6, <1>7, <1>8 DEF PauseStep

\* Ordered holds for any number of pauses, connections and render threads.
THEOREM OrderedHolds == Spec => []Ordered
<1>1. ASSUME Init
      PROVE  Ordered
  BY <1>1, ViewAssumption, ActivityAssumption
  DEF Init, ViewInit, Ordered, Calls, Alone, OneRead, Stopped, StopOrder,
      StartOrder, Held, NoStreamLeak, Failed, CleanUI, Pending, Pausing, Starting, Unstarted
<1>2. TypeOK /\ Ordered /\ [Next]_vars => Ordered'
  <2> SUFFICES ASSUME TypeOK, Ordered, [Next]_vars
               PROVE  Ordered'
    OBVIOUS
  <2>1. CASE Running /\ UiStep    BY <2>1, UiOrdered
  <2>2. CASE Running /\ Callback  BY <2>2, CallbackOrdered
  <2>3. CASE /\ Running
             /\ \/ \E d \in Reads : ReadOpens(d) \/ ReadFailsToOpen(d) \/ ReadRefused(d)
                \/ \E p \in PauseTasks : PauseStep(p)
                \/ StopTask
    BY <2>3, TaskOrdered
  <2>4. ASSUME Running, NEW t \in Threads, Render(t), UNCHANGED actVars
        PROVE  Ordered'
    BY <2>4, RenderOrdered
  <2>5. CASE UNCHANGED vars
    BY <2>5
    DEF vars, viewVars, actVars, Ordered, Calls, Alone, OneRead, Stopped, StopOrder,
        StartOrder, Held, NoStreamLeak, Failed, CleanUI, Pending, Pausing
  <2> QED  BY <2>1, <2>2, <2>3, <2>4, <2>5 DEF Next, Running
<1> QED  BY <1>1, <1>2, TypeCorrect, PTL DEF Spec

-----------------------------------------------------------------------------
(* What follows from it                                                    *)

\* As long as no pauseTask is overtaken, the view's flag, stream and thread agree
\* between callbacks.
THEOREM CoupledHolds == Spec => []Coupled
<1>1. Ordered => Coupled
  BY DEF Ordered, Held, Coupled, Quiet, Unstarted
<1> QED  BY <1>1, OrderedHolds, PTL

\* ..., no callback meets a null or a thread that was started before,
THEOREM CleanUIHolds == Spec => []CleanUI
<1>1. Ordered => CleanUI
  BY DEF Ordered, CleanUI
<1> QED  BY <1>1, OrderedHolds, PTL

\* ..., no open connection is ever dropped but the one that was refused,
THEOREM NoStreamLeakHolds == Spec => []NoStreamLeak
<1>1. Ordered => NoStreamLeak
  BY DEF Ordered, NoStreamLeak
<1> QED  BY <1>1, OrderedHolds, PTL

\* ..., and onResume reconnects only a view that playback was taken from.
THEOREM SuspendAgreeHolds == Spec => []SuspendAgree
<1>1. Ordered => SuspendAgree
  BY DEF Ordered, Stopped, SuspendAgree
<1> QED  BY <1>1, OrderedHolds, PTL

-----------------------------------------------------------------------------
(* The inductive invariant Lasting                                         *)

LEMMA RenderLasting ==
  ASSUME TypeOK, Ordered, Lasting, Running, NEW t \in Threads, Render(t),
         UNCHANGED actVars
  PROVE  Lasting'
<1>1. UNCHANGED << callerVars, actVars >>
  BY DEF Render, RenderStep, CheckRun, CheckSurface, ReadSource, FrameRead,
         StreamEnds, ReadFails, LockCanvas, Draw, ReadThrows
<1> QED
  BY <1>1
  DEF callerVars, actVars, Lasting, LastRead, Lit, Staged, Pending, Failed, InFlight

\* stopPlayback.  A pauseTask that runs it is one that Lit counts on; the UI
\* thread runs it off screen, where nothing plays any more.
LEMMA StopLasting ==
  ASSUME TypeOK, Ordered, Lasting, Running, NEW c \in Callers, StopPlayback(c),
         UNCHANGED actVars
  PROVE  Lasting'
<1> SUFFICES ASSUME ~overtaken
             PROVE  LastRead' /\ (~lateSource => Lit' /\ Staged')
  BY DEF Lasting, actVars
<1>1. /\ mRun' = mRun \/ mRun' = FALSE
      /\ mIn' = mIn \/ mIn' = NULL
      /\ stop[c] # "out"
  BY DEF StopPlayback, StopGoto, StopCheckRun, StopSuspend, StopClearRun,
         StopCheckThread, StopInterrupt, StopForgetThread, StopCheckSource,
         StopCloseSource, StopForgetSource
<1>2. LastRead'
  BY <1>1 DEF Lasting, LastRead, Pending, Failed, actVars
<1>3. ASSUME ~lateSource
      PROVE  Lit' /\ Staged'
  <2>1. CASE c \in PauseTasks
    BY <1>1, <1>3, <2>1
    DEF Ordered, Calls, Lasting, Lit, Staged, InFlight, Failed, actVars
  <2>2. CASE c = UI
    <3>1. upc = "destroyed" /\ \A p \in PauseTasks : ~Pausing(p)
      BY <1>1, <2>2 DEF Ordered, Calls, Alone
    <3>2. ~mRun
      BY <1>3, <3>1 DEF Lasting, Staged, Pausing
    <3> QED
      BY <1>1, <1>3, <3>1, <3>2
      DEF Lasting, Lit, Staged, Starting, InFlight, Failed, actVars
  <2> QED  BY <2>1, <2>2, ActivityAssumption
<1> QED  BY <1>2, <1>3

\* The rest of a callback: setSource carries its stream to mRun.
LEMMA UiLasting ==
  ASSUME TypeOK, Ordered, Lasting, Running, UiStep
  PROVE  Lasting'
<1>1. CASE StopPlayback(UI) /\ UNCHANGED actVars
  BY <1>1, StopLasting, ActivityAssumption
<1> USE DEF TypeOK, ViewTypeOK, Lasting, LastRead, Lit, Staged, Pending, Failed,
            InFlight, Starting, UiGoto, viewVars, uiStepUnchanged
<1>2. CASE OnResumeClear           BY <1>2 DEF OnResumeClear
<1>3. CASE SurfaceChangedUse       BY <1>3 DEF SurfaceChangedUse
<1>4. CASE SurfaceGone             BY <1>4 DEF SurfaceGone, StopGoto
<1>5. CASE SurfaceDestroyedThrows  BY <1>5 DEF SurfaceDestroyedThrows, actVars
<1>6. CASE SetSourceBranch         BY <1>6 DEF SetSourceBranch
<1>7. CASE CheckSource("start", "start_run")      BY <1>7 DEF CheckSource
<1>8. CASE CheckSource("resume", "resume_run")    BY <1>8 DEF CheckSource
<1>9. CASE SetRun("start_run", "start_thread")    BY <1>9 DEF SetRun
<1>10. CASE SetRun("resume_run", "resume_thread") BY <1>10 DEF SetRun
<1>11. CASE StartThread                           BY <1>11 DEF StartThread
<1>12. CASE ResumeThread                          BY <1>12 DEF ResumeThread
<1>13. CASE StartGo("start_go", "idle")
  BY <1>13 DEF StartGo, Ordered, StartOrder, Unstarted
<1>14. CASE StartGo("resume_go", "resume_flag")   BY <1>14 DEF StartGo
<1>15. CASE ResumeFlag
  BY <1>15 DEF ResumeFlag, Ordered, StartOrder, Unstarted
<1> HIDE DEF Lasting, TypeOK
<1> QED
  BY <1>1, <1>2, <1>3, <1>4, <1>5, <1>6, <1>7, <1>8, <1>9, <1>10, <1>11, <1>12,
     <1>13, <1>14, <1>15
  DEF UiStep

\* The callbacks' first steps.  onResume, told to, connects after every failure
\* has been ruled out; a failure of the connection whose result setSource takes
\* leaves nothing that plays.
LEMMA CallbackLasting ==
  ASSUME TypeOK, Ordered, Lasting, Running, Callback
  PROVE  Lasting'
<1>1. CASE OnResume
  <2> SUFFICES ASSUME ~overtaken'
               PROVE  LastRead' /\ (~lateSource => Lit' /\ Staged')
    BY <1>1 DEF Lasting, OnResume
  <2>1. /\ ~overtaken /\ upc = "idle"
        /\ \A p \in PauseTasks : ppc[p] \in { "unborn", "end" }
    BY <1>1, NotOvertaken DEF OnResume, UiGoto
  <2>2. CASE actSuspending
    <3>1. \A d \in Reads : ~Pending(d) /\ ~Failed(d)
      BY <2>1, <2>2 DEF Ordered, OneRead, Lasting, LastRead
    <3>2. PICK d \in Reads : StartRead(d)
      BY <1>1, <2>2 DEF OnResume
    <3>3. \A e \in Reads : /\ Failed(e)' <=> FALSE
                           /\ InFlight(e)' <=> e = d
      BY <3>1, <3>2 DEF TypeOK, StartRead, Pending, Failed, InFlight
    <3>4. LastRead'
      BY <3>3 DEF LastRead
    <3> QED
      BY <1>1, <2>1, <2>2, <3>3, <3>4
      DEF Lasting, Lit, Staged, OnResume, UiGoto, Starting, viewVars
  <2>3. CASE ~actSuspending
    BY <1>1, <2>1, <2>3
    DEF Lasting, LastRead, Lit, Staged, OnResume, UiGoto, Starting, viewVars,
        Pending, Failed, InFlight
  <2> QED  BY <2>2, <2>3
<1>2. ASSUME NEW d \in Reads, SetSource(d)
      PROVE  Lasting'
  <2> SUFFICES ASSUME ~overtaken'
               PROVE  LastRead' /\ (~lateSource' => Lit' /\ Staged')
    BY DEF Lasting
  <2>1. /\ ~overtaken
        /\ \A p \in PauseTasks : ppc[p] \in { "unborn", "end" }
    BY <1>2, NotOvertaken DEF SetSource, UiGoto
  <2>2. /\ Pending(d)
        /\ \A e \in Reads : Pending(e) => e = d
        /\ ~mRun /\ mIn = NULL /\ ~actSuspending
    BY <1>2, <2>1 DEF Ordered, OneRead, Pending, SetSource, UiGoto
  <2>3. \A e \in Reads : e # d => ~Failed(e)
    BY <2>1, <2>2 DEF Lasting, LastRead
  <2>4. \A e \in Reads : e # d => ~Failed(e)' /\ ~Pending(e)'
    BY <1>2, <2>2, <2>3 DEF SetSource, TypeOK, Failed, Pending
  <2>5. /\ Failed(d)' <=> rpc[d] = "failed"
        /\ mIn' = IF rpc[d] = "opened" THEN d ELSE NULL
        /\ upc' = "source" /\ UNCHANGED << mRun, life, actSuspending, ppc >>
        /\ rpc[d] \in { "opened", "failed" }
        /\ lateSource' = (lateSource \/ life # "resumed")
    BY <1>2 DEF SetSource, UiGoto, TypeOK, Failed
  <2>6. LastRead'
    BY <2>1, <2>2, <2>4, <2>5 DEF LastRead, Starting
  <2>7. d # NULL
    BY ViewAssumption, ActivityAssumption
  <2> QED
    BY <2>2, <2>5, <2>6, <2>7 DEF Lit, Staged, Starting
<1>3. CASE SurfaceDestroyed
  <2> SUFFICES ASSUME ~overtaken'
               PROVE  LastRead' /\ (~lateSource => Lit' /\ Staged')
    BY <1>3 DEF Lasting, SurfaceDestroyed
  <2>1. /\ ~overtaken
        /\ \A p \in PauseTasks : ppc[p] \in { "unborn", "end" }
    BY <1>3, NotOvertaken DEF SurfaceDestroyed, UiGoto
  <2> QED
    BY <1>3, <2>1
    DEF Lasting, LastRead, Lit, Staged, SurfaceDestroyed, UiGoto, Starting, Pending,
        Failed, InFlight
<1> USE DEF TypeOK, ViewTypeOK, Lasting, LastRead, Lit, Staged, Pending, Failed,
            InFlight, Starting, UiGoto, viewVars, Overtake
<1>4. CASE OnPause         BY <1>4 DEF OnPause
<1>5. CASE OnDestroy       BY <1>5 DEF OnDestroy
<1>6. CASE SurfaceCreated  BY <1>6 DEF SurfaceCreated, actVars
<1>7. CASE SurfaceChanged  BY <1>7 DEF SurfaceChanged
<1> HIDE DEF Lasting, TypeOK
<1> QED  BY <1>1, <1>2, <1>3, <1>4, <1>5, <1>6, <1>7 DEF Callback

\* The tasks on the pool.  A connection fails while nothing plays (OneRead); a
\* pauseTask that finds the view playing ends by telling onResume.
LEMMA TaskLasting ==
  ASSUME TypeOK, Ordered, Lasting, Running,
         \/ \E d \in Reads : ReadOpens(d) \/ ReadFailsToOpen(d) \/ ReadRefused(d)
         \/ \E p \in PauseTasks : PauseStep(p)
         \/ StopTask
  PROVE  Lasting'
<1>1. ASSUME NEW p \in PauseTasks, StopPlayback(p), UNCHANGED actVars
      PROVE  Lasting'
  BY <1>1, StopLasting, ActivityAssumption
<1> USE DEF TypeOK, ViewTypeOK, Lasting, LastRead, Lit, Staged, Pending, Failed,
            InFlight, viewVars, taskUnchanged, PauseGoto, StopGoto
<1>2. ASSUME NEW d \in Reads, ReadOpens(d)
      PROVE  Lasting'
  BY <1>2 DEF ReadOpens
<1>3. ASSUME NEW d \in Reads, ReadFailsToOpen(d)
      PROVE  Lasting'
  BY <1>3 DEF ReadFailsToOpen, Ordered, OneRead
<1>8. ASSUME NEW d \in Reads, ReadRefused(d)
      PROVE  Lasting'
  BY <1>8 DEF ReadRefused, Ordered, OneRead
<1>4. ASSUME NEW p \in PauseTasks, PauseBegin(p)
      PROVE  Lasting'
  BY <1>4 DEF PauseBegin, EnterStop, Ordered, Alone, Pausing
<1>5. ASSUME NEW p \in PauseTasks, PauseStopped(p)
      PROVE  Lasting'
  BY <1>5, ActivityAssumption DEF PauseStopped, Ordered, StopOrder
<1>6. ASSUME NEW p \in PauseTasks, PauseMark(p)
      PROVE  Lasting'
  BY <1>6 DEF PauseMark, Ordered, Alone, Pausing
<1>7. CASE StopTask  BY <1>7 DEF StopTask
<1> HIDE DEF Lasting, TypeOK
<1> QED  BY <1>1, <1>2, <1>3, <1>4, <1>5, <1>6, <1>7, <1>8 DEF PauseStep

\* Lasting holds for any number of pauses, connections and render threads.
THEOREM LastingHolds == Spec => []Lasting
<1>1. ASSUME Init
      PROVE  Lasting
  BY <1>1
  DEF Init, ViewInit, Lasting, LastRead, Lit, Staged, Failed, InFlight, Starting
<1>2. TypeOK /\ Ordered /\ Lasting /\ [Next]_vars => Lasting'
  <2> SUFFICES ASSUME TypeOK, Ordered, Lasting, [Next]_vars
               PROVE  Lasting'
    OBVIOUS
  <2>1. CASE Running /\ UiStep    BY <2>1, UiLasting
  <2>2. CASE Running /\ Callback  BY <2>2, CallbackLasting
  <2>3. CASE /\ Running
             /\ \/ \E d \in Reads : ReadOpens(d) \/ ReadFailsToOpen(d) \/ ReadRefused(d)
                \/ \E p \in PauseTasks : PauseStep(p)
                \/ StopTask
    BY <2>3, TaskLasting
  <2>4. ASSUME Running, NEW t \in Threads, Render(t), UNCHANGED actVars
        PROVE  Lasting'
    BY <2>4, RenderLasting
  <2>5. CASE UNCHANGED vars
    BY <2>5
    DEF vars, viewVars, actVars, Lasting, LastRead, Lit, Staged, Pending, Failed,
        InFlight
  <2> QED  BY <2>1, <2>2, <2>3, <2>4, <2>5 DEF Next, Running
<1> QED  BY <1>1, <1>2, TypeCorrect, OrderedHolds, PTL DEF Spec

\* As long as no pauseTask is overtaken, a second DoRead never finds the Message
\* of the first in use.
THEOREM MessageSentOnceHolds == Spec => []MessageSentOnce
<1>1. Lasting => MessageSentOnce
  BY DEF Lasting, LastRead, MessageSentOnce
<1> QED  BY <1>1, LastingHolds, PTL

\* ..., and an activity on screen plays, is being connected or saw its connection
\* fail.
THEOREM NotDarkHolds == Spec => []NotDark
<1>1. Lasting => NotDark
  BY DEF Lasting, Lit, Staged, NotDark, Quiet, Pausing, Starting
<1> QED  BY <1>1, LastingHolds, PTL

=============================================================================
