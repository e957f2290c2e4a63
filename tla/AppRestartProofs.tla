--------------------------- MODULE AppRestartProofs ---------------------------
(***************************************************************************)
(* Theorems about AppRestart, for any number of activities, connections    *)
(* and pauses.                                                             *)
(***************************************************************************)
EXTENDS AppRestart, TLAPS

-----------------------------------------------------------------------------
(* What a step makes of the activity it is a step of                       *)

\* a becomes r, which is an activity again.
Becomes(a, r) ==
  /\ act' = [act EXCEPT ![a] = r]
  /\ r \in ActivityState /\ r.pauseTasks <= r.pauses

LEMMA Step ==
  ASSUME TypeOK, NEW a \in Activities, NEW r, Becomes(a, r)
  PROVE  /\ act' \in [Activities -> ActivityState]
         /\ \A b \in Activities : act'[b].pauseTasks <= act'[b].pauses
         /\ act'[a] = r
         /\ \A b \in Activities \ { a } : act'[b] = act[b]
BY DEF TypeOK, Becomes

LEMMA ActivityType ==
  ASSUME TypeOK, NEW a \in Activities
  PROVE  act[a] \in ActivityState /\ act[a].pauseTasks <= act[a].pauses
BY DEF TypeOK

\* The fields that the properties are about, as a value.
Core(r) == [life |-> r.life, pauseTasks |-> r.pauseTasks, suspending |-> r.suspending,
            mRun |-> r.mRun, thread |-> r.thread, mIn |-> r.mIn, stopTask |-> r.stopTask,
            overtaken |-> r.overtaken, late |-> r.late]

\* The activity onCreate makes of the settings.
LEMMA CreatedIs ==
  ASSUME NEW s, s.size \in Sizes, s.frames \in Sizes, NULL \in Sizes
  PROVE  LET r == Created(s) IN
         /\ r \in ActivityState
         /\ r.mRun = FALSE /\ r.suspending = FALSE /\ r.thread = "new" /\ r.mIn = NULL
         /\ r.life = "created" /\ r.stopTask = "none" /\ r.pauseTasks = 0 /\ r.pauses = 0
<1> DEFINE w == [Unborn EXCEPT !.life = "created"]
           x == [w EXCEPT !.resolution = s.size]
           r == [x EXCEPT !.frames = s.frames]
<1>1. Unborn \in ActivityState
  BY DEF Unborn, ActivityState
<1>2. /\ Unborn.mRun = FALSE /\ Unborn.suspending = FALSE /\ Unborn.thread = "new"
      /\ Unborn.mIn = NULL /\ Unborn.stopTask = "none"
      /\ Unborn.pauseTasks = 0 /\ Unborn.pauses = 0
  BY DEF Unborn
<1>3. /\ w \in ActivityState /\ w.life = "created"
      /\ w.mRun = FALSE /\ w.suspending = FALSE /\ w.thread = "new" /\ w.mIn = NULL
      /\ w.stopTask = "none" /\ w.pauseTasks = 0 /\ w.pauses = 0
  BY <1>1, <1>2 DEF ActivityState
<1> HIDE DEF w
<1>4. /\ x \in ActivityState /\ x.life = "created"
      /\ x.mRun = FALSE /\ x.suspending = FALSE /\ x.thread = "new" /\ x.mIn = NULL
      /\ x.stopTask = "none" /\ x.pauseTasks = 0 /\ x.pauses = 0
  BY <1>3 DEF ActivityState
<1> HIDE DEF x
<1>5. /\ r \in ActivityState /\ r.life = "created"
      /\ r.mRun = FALSE /\ r.suspending = FALSE /\ r.thread = "new" /\ r.mIn = NULL
      /\ r.stopTask = "none" /\ r.pauseTasks = 0 /\ r.pauses = 0
  BY <1>4 DEF ActivityState
<1>6. Created(s) = r
  BY <1>1 DEF Created, w, x, ActivityState
<1> HIDE DEF r
<1> QED  BY <1>5, <1>6

\* Steps that leave these fields alone.
Aside(a) ==
  \/ SurfaceCreated(a) \/ Finish(a) \/ RestartBackground(a) \/ RestartPosted(a) \/ Render(a)

\* r is q but for fields that are not in Core.
Same(q, r) ==
  r \in ActivityState /\ Core(r) = Core(q) /\ r.pauseTasks = q.pauseTasks /\ r.pauses = q.pauses

LEMMA SetField ==
  ASSUME NEW q \in ActivityState, NEW v \in BOOLEAN, NEW z \in Sizes,
         NEW s \in { "none", "begin", "finished", "started" }, NEW n \in { "none", "loop", "frame", "decode" }
  PROVE  /\ Same(q, [q EXCEPT !.surface = v]) /\ Same(q, [q EXCEPT !.finishing = v])
         /\ Same(q, [q EXCEPT !.differs = v]) /\ Same(q, [q EXCEPT !.restart = s])
         /\ Same(q, [q EXCEPT !.render = n]) /\ Same(q, [q EXCEPT !.bmp = z])
<1>1. Same(q, [q EXCEPT !.surface = v])    BY DEF Same, ActivityState, Core
<1>2. Same(q, [q EXCEPT !.finishing = v])  BY DEF Same, ActivityState, Core
<1>3. Same(q, [q EXCEPT !.differs = v])    BY DEF Same, ActivityState, Core
<1>4. Same(q, [q EXCEPT !.restart = s])    BY DEF Same, ActivityState, Core
<1>5. Same(q, [q EXCEPT !.render = n])     BY DEF Same, ActivityState, Core
<1>6. Same(q, [q EXCEPT !.bmp = z])        BY DEF Same, ActivityState, Core
<1> QED  BY <1>1, <1>2, <1>3, <1>4, <1>5, <1>6

LEMMA SameTwice ==
  ASSUME NEW q, NEW m, NEW r, Same(q, m), Same(m, r)
  PROVE  Same(q, r)
BY DEF Same

LEMMA SameBecomes ==
  ASSUME TypeOK, NEW a \in Activities, NEW r, Same(act[a], r), act' = [act EXCEPT ![a] = r]
  PROVE  Becomes(a, r) /\ Core(r) = Core(act[a])
BY ActivityType DEF Same, Becomes

\* A render thread dies, and the process with it: nothing else changes.
LEMMA Dies ==
  ASSUME TypeOK, NEW a \in Activities, crash' = "render",
         UNCHANGED << act, reads, open, rgb, settings, clash >>
  PROVE  TypeOK' /\ \E r : Becomes(a, r) /\ Core(r) = Core(act[a])
<1>1. act' = [act EXCEPT ![a] = act[a]]
  BY DEF TypeOK
<1>2. Becomes(a, act[a])
  BY <1>1, ActivityType DEF Becomes
<1> QED  BY <1>2 DEF TypeOK

LEMMA AsideIs ==
  ASSUME TypeOK, NEW a \in Activities, Aside(a)
  PROVE  /\ TypeOK'
         /\ \E r : Becomes(a, r) /\ Core(r) = Core(act[a])
         /\ UNCHANGED << reads, open, settings, clash >>
         /\ crash' \in { crash, "render" }
<1> DEFINE q == act[a]
<1>0. q \in ActivityState
  BY ActivityType
<1>1. CASE SurfaceCreated(a)
  <2> DEFINE r == [q EXCEPT !.surface = TRUE]
  <2>1. Same(q, r)
    BY <1>0, SetField DEF Sizes
  <2>2. act' = [act EXCEPT ![a] = r]
    BY <1>1 DEF SurfaceCreated
  <2> HIDE DEF r
  <2> QED  BY <1>1, <2>1, <2>2, SameBecomes, Step DEF SurfaceCreated, TypeOK
<1>2. CASE Finish(a)
  <2> DEFINE r == [q EXCEPT !.finishing = TRUE]
  <2>1. Same(q, r)
    BY <1>0, SetField DEF Sizes
  <2>2. act' = [act EXCEPT ![a] = r]
    BY <1>2 DEF Finish
  <2> HIDE DEF r
  <2> QED  BY <1>2, <2>1, <2>2, SameBecomes, Step DEF Finish, TypeOK
<1>3. CASE RestartBackground(a)
  <2> DEFINE m == [q EXCEPT !.restart = "finished"]
             r == [m EXCEPT !.finishing = TRUE]
  <2>1. Same(q, m)
    BY <1>0, SetField DEF Sizes
  <2>2. act' = [act EXCEPT ![a] = r]
    BY <1>3 DEF RestartBackground
  <2> HIDE DEF m
  <2>3. Same(m, r)
    BY <2>1, SetField DEF Sizes, Same
  <2> HIDE DEF r
  <2>4. Same(q, r)
    BY <2>1, <2>3, SameTwice
  <2> QED  BY <1>3, <2>2, <2>4, SameBecomes, Step DEF RestartBackground, TypeOK
<1>4. CASE RestartPosted(a)
  <2> DEFINE r == [q EXCEPT !.restart = "started"]
  <2>1. Same(q, r)
    BY <1>0, SetField DEF Sizes
  <2>2. act' = [act EXCEPT ![a] = r]
    BY <1>4 DEF RestartPosted
  <2> HIDE DEF r
  <2> QED  BY <1>4, <2>1, <2>2, SameBecomes, Step DEF RestartPosted, TypeOK
<1>5. CASE Decode(a)
  <2> DEFINE z == IF q.bmp = NULL THEN q.resolution ELSE q.bmp
             m == [q EXCEPT !.render = "decode"]
             r == [m EXCEPT !.bmp = z]
  <2>0. z \in Sizes /\ q.bmp = m.bmp /\ q.resolution = m.resolution
    BY <1>0 DEF ActivityState
  <2>1. Same(q, m)
    BY <1>0, SetField DEF Sizes
  <2>2. act' = [act EXCEPT ![a] = r]
    BY <1>5, <1>0 DEF Decode, ActivityState
  <2>3. rgb' \in [allocated : BOOLEAN, size : Sizes]
    BY <1>5 DEF Decode, TypeOK, ActivityState
  <2> HIDE DEF m, z
  <2>4. Same(m, r)
    BY <2>0, <2>1, SetField DEF Same
  <2> HIDE DEF r
  <2>5. Same(q, r)
    BY <2>1, <2>4, SameTwice
  <2> QED  BY <1>5, <2>2, <2>3, <2>5, SameBecomes, Step DEF Decode, TypeOK
<1>6. CASE Decoded(a)
  <2>1. CASE q.bmp = rgb.size /\ q.surface
    <3> DEFINE r == [q EXCEPT !.render = "loop"]
    <3>1. Same(q, r)
      BY <1>0, SetField DEF Sizes
    <3>2. act' = [act EXCEPT ![a] = r] /\ UNCHANGED << reads, open, rgb, settings, clash, crash >>
      BY <1>6, <2>1 DEF Decoded
    <3> HIDE DEF r
    <3> QED  BY <3>1, <3>2, SameBecomes, Step DEF TypeOK
  <2>2. CASE q.bmp # rgb.size
    <3> DEFINE m == [q EXCEPT !.render = "none"]
               r == [m EXCEPT !.differs = TRUE]
    <3>1. Same(q, m)
      BY <1>0, SetField DEF Sizes
    <3>2. act' = [act EXCEPT ![a] = r] /\ UNCHANGED << reads, open, rgb, settings, clash, crash >>
      BY <1>6, <2>2 DEF Decoded
    <3> HIDE DEF m
    <3>3. Same(m, r)
      BY <3>1, SetField DEF Sizes, Same
    <3> HIDE DEF r
    <3>4. Same(q, r)
      BY <3>1, <3>3, SameTwice
    <3> QED  BY <3>2, <3>4, SameBecomes, Step DEF TypeOK
  <2>3. CASE q.bmp = rgb.size /\ ~q.surface
    <3>1. UNCHANGED << act, reads, open, rgb, settings, clash >> /\ crash' = "render"
      BY <1>6, <2>3 DEF Decoded
    <3> QED  BY <3>1, Dies
  <2> QED  BY <2>1, <2>2, <2>3
<1>8. CASE RenderChecks(a)
  <2> DEFINE r == [q EXCEPT !.render = "frame"]
  <2>1. Same(q, r)
    BY <1>0, SetField DEF Sizes
  <2>2. act' = [act EXCEPT ![a] = r]
    BY <1>8 DEF RenderChecks
  <2> HIDE DEF r
  <2> QED  BY <1>8, <2>1, <2>2, SameBecomes, Step DEF RenderChecks, TypeOK
<1>9. CASE FrameFails(a)
  <2> DEFINE r == [q EXCEPT !.render = "loop"]
  <2>1. Same(q, r)
    BY <1>0, SetField DEF Sizes
  <2>2. act' = [act EXCEPT ![a] = r]
    BY <1>9 DEF FrameFails
  <2> HIDE DEF r
  <2> QED  BY <1>9, <2>1, <2>2, SameBecomes, Step DEF FrameFails, TypeOK
<1>10. CASE SourceGone(a)
  BY <1>10, Dies DEF SourceGone
<1>7. CASE RenderEnds(a)
  <2> DEFINE r == [q EXCEPT !.render = "none"]
  <2>1. Same(q, r)
    BY <1>0, SetField DEF Sizes
  <2>2. act' = [act EXCEPT ![a] = r]
    BY <1>7 DEF RenderEnds
  <2> HIDE DEF r
  <2> QED  BY <1>7, <2>1, <2>2, SameBecomes, Step DEF RenderEnds, TypeOK
<1> QED
  BY <1>1, <1>2, <1>3, <1>4, <1>5, <1>6, <1>7, <1>8, <1>9, <1>10 DEF Aside, Render

LEMMA OvertakingIs ==
  ASSUME NEW r \in ActivityState
  PROVE  LET o == Overtaking(r) IN
         /\ o \in ActivityState
         /\ o.overtaken = (r.overtaken \/ r.pauseTasks > 0)
         /\ o.life = r.life /\ o.pauseTasks = r.pauseTasks /\ o.suspending = r.suspending
         /\ o.mRun = r.mRun /\ o.thread = r.thread /\ o.mIn = r.mIn
         /\ o.stopTask = r.stopTask /\ o.late = r.late /\ o.pauses = r.pauses
<1> DEFINE v == r.overtaken \/ r.pauseTasks > 0
           o == [r EXCEPT !.overtaken = v]
<1>1. v \in BOOLEAN
  OBVIOUS
<1>2. Overtaking(r) = o
  BY DEF Overtaking
<1>3. v = (r.overtaken \/ r.pauseTasks > 0)
  OBVIOUS
<1> HIDE DEF v
<1>4. o \in ActivityState
  BY <1>1 DEF ActivityState
<1>5. /\ o.overtaken = v
      /\ o.life = r.life /\ o.pauseTasks = r.pauseTasks /\ o.suspending = r.suspending
      /\ o.mRun = r.mRun /\ o.thread = r.thread /\ o.mIn = r.mIn
      /\ o.stopTask = r.stopTask /\ o.late = r.late /\ o.pauses = r.pauses
  BY DEF ActivityState
<1> QED  BY <1>2, <1>3, <1>4, <1>5

LEMMA StopPlaybackIs ==
  ASSUME NEW r \in ActivityState
  PROVE  LET s == StopPlayback(r) IN
         /\ s \in ActivityState
         /\ s.mRun = FALSE /\ s.thread = "null" /\ s.mIn = NULL
         /\ s.life = r.life /\ s.pauseTasks = r.pauseTasks /\ s.suspending = r.suspending
         /\ s.stopTask = r.stopTask /\ s.overtaken = r.overtaken /\ s.late = r.late
         /\ s.pauses = r.pauses
<1> DEFINE v == r.viewSuspending \/ r.mRun
           s == [r EXCEPT !.viewSuspending = v, !.mRun = FALSE, !.thread = "null", !.mIn = NULL]
<1>1. v \in BOOLEAN
  OBVIOUS
<1>2. StopPlayback(r) = s
  BY DEF StopPlayback
<1> HIDE DEF v
<1>3. s \in ActivityState
  BY <1>1 DEF ActivityState
<1>4. /\ s.mRun = FALSE /\ s.thread = "null" /\ s.mIn = NULL
      /\ s.life = r.life /\ s.pauseTasks = r.pauseTasks /\ s.suspending = r.suspending
      /\ s.stopTask = r.stopTask /\ s.overtaken = r.overtaken /\ s.late = r.late
      /\ s.pauses = r.pauses
  BY DEF ActivityState
<1> QED  BY <1>2, <1>3, <1>4

\* Equal cores, field by field.
LEMMA CoreIs ==
  ASSUME NEW r, NEW q, Core(r) = Core(q)
  PROVE  /\ r.life = q.life /\ r.pauseTasks = q.pauseTasks /\ r.suspending = q.suspending
         /\ r.mRun = q.mRun /\ r.thread = q.thread /\ r.mIn = q.mIn
         /\ r.stopTask = q.stopTask /\ r.overtaken = q.overtaken /\ r.late = q.late
BY DEF Core

ReadStates == { "unborn", "background", "opened", "failed", "posted", "posted_null" }

LEMMA StartReadType ==
  ASSUME TypeOK, NEW a \in Activities, StartRead(a)
  PROVE  reads' \in [Activities -> [Reads -> ReadStates]]
BY DEF TypeOK, StartRead, ReadPC, ReadStates

\* The first step of onResume, for q the activity with what the callbacks before it
\* have set.
LEMMA ResumedIs ==
  ASSUME TypeOK, NEW a \in Activities, NEW q \in ActivityState,
         q.pauseTasks <= q.pauses, Resumed(a, q)
  PROVE  /\ \E r : /\ Becomes(a, r)
                   /\ r.life = "resumed" /\ r.suspending = FALSE
                   /\ r.mRun = q.mRun /\ r.thread = q.thread /\ r.mIn = q.mIn
                   /\ r.pauseTasks = q.pauseTasks /\ r.stopTask = q.stopTask
                   /\ r.late = q.late /\ r.overtaken = q.overtaken
         /\ reads' \in [Activities -> [Reads -> ReadStates]]
         /\ IF q.suspending THEN StartRead(a) ELSE UNCHANGED reads
<1> DEFINE r == [q EXCEPT !.life = "resumed", !.suspending = FALSE]
<1>1. act' = [act EXCEPT ![a] = r]
  <2>1. CASE q.suspending   BY <2>1 DEF Resumed
  <2>2. CASE ~q.suspending
    <3>1. [q EXCEPT !.life = "resumed"] = r
      BY <2>2 DEF ActivityState
    <3> QED  BY <2>2, <3>1 DEF Resumed
  <2> QED  BY <2>1, <2>2
<1>2. r \in ActivityState
  BY DEF ActivityState
<1>3. /\ r.life = "resumed" /\ r.suspending = FALSE
      /\ r.mRun = q.mRun /\ r.thread = q.thread /\ r.mIn = q.mIn
      /\ r.pauseTasks = q.pauseTasks /\ r.stopTask = q.stopTask
      /\ r.late = q.late /\ r.overtaken = q.overtaken /\ r.pauses = q.pauses
  BY DEF ActivityState
<1> HIDE DEF r
<1>4. Becomes(a, r)
  BY <1>1, <1>2, <1>3 DEF Becomes
<1>5. IF q.suspending THEN StartRead(a) ELSE UNCHANGED reads
  BY DEF Resumed
<1> QED  BY <1>3, <1>4, <1>5, StartReadType DEF TypeOK, ReadPC, ReadStates

\* What onResume does, at first or with the settings saved.
LEMMA OnResumeIs ==
  ASSUME TypeOK, NEW a \in Activities, OnResume(a) \/ SaveSettings(a)
  PROVE  /\ TypeOK'
         /\ \E r : /\ Becomes(a, r)
                   /\ r.life = "resumed" /\ r.suspending = FALSE
                   /\ r.mRun = act[a].mRun /\ r.thread = act[a].thread
                   /\ r.mIn = act[a].mIn /\ r.pauseTasks = act[a].pauseTasks
                   /\ r.stopTask = act[a].stopTask /\ r.late = act[a].late
                   /\ act[a].overtaken => r.overtaken
         /\ act[a].life \in { "created", "paused" }
         /\ IF act[a].suspending THEN StartRead(a) ELSE UNCHANGED reads
         /\ UNCHANGED << open, clash, crash >>
<1> DEFINE o == Overtaking(act[a])
<1>0. act[a] \in ActivityState /\ act[a].pauseTasks <= act[a].pauses
  BY ActivityType
<1>1. /\ o \in ActivityState /\ o.pauses = act[a].pauses
      /\ act[a].overtaken => o.overtaken
      /\ o.life = act[a].life /\ o.pauseTasks = act[a].pauseTasks
      /\ o.suspending = act[a].suspending /\ o.mRun = act[a].mRun
      /\ o.thread = act[a].thread /\ o.mIn = act[a].mIn
      /\ o.stopTask = act[a].stopTask /\ o.late = act[a].late
  BY <1>0, OvertakingIs
<1>2. /\ act[a].life \in { "created", "paused" }
      /\ UNCHANGED << open, rgb, clash, crash >> /\ settings' \in Settings
  BY DEF OnResume, SaveSettings, CanResume, TypeOK
<1>3. ASSUME NEW q \in ActivityState, q.pauses = o.pauses, q.overtaken = o.overtaken,
             q.pauseTasks = o.pauseTasks, q.suspending = o.suspending, q.mRun = o.mRun,
             q.thread = o.thread, q.mIn = o.mIn, q.stopTask = o.stopTask, q.late = o.late,
             Resumed(a, q)
      PROVE  /\ TypeOK'
             /\ \E r : /\ Becomes(a, r)
                       /\ r.life = "resumed" /\ r.suspending = FALSE
                       /\ r.mRun = act[a].mRun /\ r.thread = act[a].thread
                       /\ r.mIn = act[a].mIn /\ r.pauseTasks = act[a].pauseTasks
                       /\ r.stopTask = act[a].stopTask /\ r.late = act[a].late
                       /\ act[a].overtaken => r.overtaken
             /\ IF act[a].suspending THEN StartRead(a) ELSE UNCHANGED reads
  <2> HIDE DEF o
  <2>0. q.pauseTasks <= q.pauses
    BY <1>0, <1>1, <1>3
  <2>1. PICK r : /\ Becomes(a, r)
                 /\ r.life = "resumed" /\ r.suspending = FALSE
                 /\ r.mRun = q.mRun /\ r.thread = q.thread /\ r.mIn = q.mIn
                 /\ r.pauseTasks = q.pauseTasks /\ r.stopTask = q.stopTask
                 /\ r.late = q.late /\ r.overtaken = q.overtaken
    BY <1>3, <2>0, ResumedIs
  <2>2. /\ reads' \in [Activities -> [Reads -> ReadStates]]
        /\ IF q.suspending THEN StartRead(a) ELSE UNCHANGED reads
    BY <1>3, <2>0, ResumedIs
  <2>3. TypeOK'
    BY <1>2, <2>1, <2>2, Step DEF TypeOK, ReadPC, ReadStates
  <2> QED  BY <1>1, <1>3, <2>1, <2>2, <2>3
<1>4. CASE OnResume(a)
  <2>1. Resumed(a, o)  BY <1>4 DEF OnResume
  <2> HIDE DEF o
  <2> QED  BY <1>1, <1>2, <1>3, <2>1
<1>5. CASE SaveSettings(a)
  <2>1. PICK s \in Settings :
          Resumed(a, [o EXCEPT !.resolution = s.size, !.restart = "begin"])
    BY <1>5 DEF SaveSettings
  <2> HIDE DEF o
  <2> DEFINE q == [o EXCEPT !.resolution = s.size, !.restart = "begin"]
  <2>2. s.size \in Sizes
    BY DEF Sizes
  <2>3. q \in ActivityState
    BY <1>1, <2>2 DEF ActivityState
  <2>4. /\ q.pauses = o.pauses /\ q.overtaken = o.overtaken
        /\ q.pauseTasks = o.pauseTasks /\ q.suspending = o.suspending /\ q.mRun = o.mRun
        /\ q.thread = o.thread /\ q.mIn = o.mIn /\ q.stopTask = o.stopTask /\ q.late = o.late
    BY <1>1 DEF ActivityState
  <2>5. Resumed(a, q)  BY <2>1
  <2> HIDE DEF q
  <2> QED  BY <1>2, <1>3, <2>3, <2>4, <2>5
<1> QED  BY <1>4, <1>5

\* A pauseTask stops a view that plays and leaves every other alone.
LEMMA PauseTaskIs ==
  ASSUME TypeOK, NEW a \in Activities, PauseTask(a)
  PROVE  /\ TypeOK'
         /\ \E r : /\ Becomes(a, r)
                   /\ r.mRun = FALSE
                   /\ r.suspending = IF act[a].mRun THEN TRUE ELSE act[a].suspending
                   /\ r.thread = IF act[a].mRun THEN "null" ELSE act[a].thread
                   /\ r.mIn = IF act[a].mRun THEN NULL ELSE act[a].mIn
                   /\ r.life = act[a].life /\ r.stopTask = act[a].stopTask
                   /\ r.overtaken = act[a].overtaken /\ r.late = act[a].late
         /\ act[a].pauseTasks > 0
         /\ open' = IF act[a].mRun THEN Closed(a) ELSE open
         /\ UNCHANGED << reads, clash, crash >>
<1> DEFINE q == [act[a] EXCEPT !.pauseTasks = @ - 1]
<1>0. act[a] \in ActivityState /\ act[a].pauseTasks <= act[a].pauses
  BY ActivityType
<1>1. act[a].pauseTasks > 0 /\ UNCHANGED << reads, rgb, settings, clash, crash >>
  BY DEF PauseTask
<1>2. q \in ActivityState
  BY <1>0, <1>1 DEF ActivityState
<1>3. /\ q.mRun = act[a].mRun /\ q.suspending = act[a].suspending
      /\ q.thread = act[a].thread /\ q.mIn = act[a].mIn
      /\ q.life = act[a].life /\ q.stopTask = act[a].stopTask
      /\ q.overtaken = act[a].overtaken /\ q.late = act[a].late
      /\ q.viewSuspending = act[a].viewSuspending
      /\ q.pauseTasks <= q.pauses
  BY <1>0 DEF ActivityState
<1>4. CASE act[a].mRun
  <2>1. act' = [act EXCEPT ![a] = [StopPlayback(q) EXCEPT !.suspending = TRUE]] /\ open' = Closed(a)
    BY <1>3, <1>4 DEF PauseTask
  <2> HIDE DEF q
  <2> DEFINE s == StopPlayback(q)
             r == [s EXCEPT !.suspending = TRUE]
  <2>4. act' = [act EXCEPT ![a] = r]
    BY <2>1
  <2>s. /\ s \in ActivityState
        /\ s.mRun = FALSE /\ s.thread = "null" /\ s.mIn = NULL
        /\ s.life = q.life /\ s.pauseTasks = q.pauseTasks /\ s.stopTask = q.stopTask
        /\ s.overtaken = q.overtaken /\ s.late = q.late /\ s.pauses = q.pauses
    BY <1>2, StopPlaybackIs
  <2> HIDE DEF s
  <2>2. r \in ActivityState
    BY <2>s DEF ActivityState
  <2>3. /\ r.mRun = FALSE /\ r.suspending = TRUE /\ r.thread = "null" /\ r.mIn = NULL
        /\ r.life = q.life /\ r.stopTask = q.stopTask /\ r.pauseTasks = q.pauseTasks
        /\ r.overtaken = q.overtaken /\ r.late = q.late /\ r.pauses = q.pauses
    BY <2>s DEF ActivityState
  <2> HIDE DEF r
  <2>5. Becomes(a, r)
    BY <1>3, <2>2, <2>3, <2>4 DEF Becomes
  <2>6. TypeOK'
    BY <1>1, <2>1, <2>5, Step DEF TypeOK, Closed
  <2> QED  BY <1>1, <1>3, <1>4, <2>1, <2>3, <2>5, <2>6
<1>5. CASE ~act[a].mRun
  <2>1. act' = [act EXCEPT ![a] = q] /\ UNCHANGED open
    BY <1>3, <1>5 DEF PauseTask
  <2> HIDE DEF q
  <2>2. Becomes(a, q)
    BY <1>2, <1>3, <2>1 DEF Becomes
  <2>3. TypeOK'
    BY <1>1, <2>1, <2>2, Step DEF TypeOK
  <2>4. act[a].mRun = FALSE
    BY <1>0, <1>5 DEF ActivityState
  <2> QED  BY <1>1, <1>3, <2>1, <2>2, <2>3, <2>4
<1> QED  BY <1>4, <1>5

\* The stopTask finds out whether the view has a stream.
LEMMA StopTaskIs ==
  ASSUME TypeOK, NEW a \in Activities, StopTask(a)
  PROVE  /\ TypeOK'
         /\ \E r : /\ Becomes(a, r)
                   /\ r.mRun = act[a].mRun /\ r.suspending = act[a].suspending
                   /\ r.thread = act[a].thread /\ r.mIn = act[a].mIn
                   /\ r.life = act[a].life /\ r.stopTask = "end"
                   /\ r.pauseTasks = act[a].pauseTasks /\ r.late = act[a].late
                   /\ r.overtaken = (act[a].overtaken \/ act[a].pauseTasks > 0)
         /\ act[a].stopTask = "begin"
         /\ act[a].mIn = NULL => UNCHANGED clash
         /\ UNCHANGED << reads, open, crash >>
<1> DEFINE o == Overtaking(act[a])
           r == [o EXCEPT !.stopTask = "end"]
<1>0. act[a] \in ActivityState /\ act[a].pauseTasks <= act[a].pauses
  BY ActivityType
<1>1. /\ o \in ActivityState /\ o.pauses = act[a].pauses
      /\ o.overtaken = (act[a].overtaken \/ act[a].pauseTasks > 0)
      /\ o.life = act[a].life /\ o.pauseTasks = act[a].pauseTasks
      /\ o.suspending = act[a].suspending /\ o.mRun = act[a].mRun
      /\ o.thread = act[a].thread /\ o.mIn = act[a].mIn /\ o.late = act[a].late
  BY <1>0, OvertakingIs
<1>2. act' = [act EXCEPT ![a] = r]
  BY DEF StopTask
<1> HIDE DEF o
<1>3. r \in ActivityState
  BY <1>1 DEF ActivityState
<1>4. /\ r.mRun = o.mRun /\ r.suspending = o.suspending /\ r.thread = o.thread
      /\ r.mIn = o.mIn /\ r.life = o.life /\ r.stopTask = "end" /\ r.late = o.late
      /\ r.pauseTasks = o.pauseTasks /\ r.pauses = o.pauses /\ r.overtaken = o.overtaken
  BY <1>1 DEF ActivityState
<1> HIDE DEF r
<1>5. Becomes(a, r)
  BY <1>0, <1>1, <1>2, <1>3, <1>4 DEF Becomes
<1>6. /\ rgb' \in [allocated : BOOLEAN, size : Sizes] /\ clash' \in BOOLEAN
      /\ act[a].stopTask = "begin" /\ UNCHANGED << reads, open, settings, crash >>
      /\ act[a].mIn = NULL => UNCHANGED clash
  BY DEF StopTask, TypeOK
<1>7. TypeOK'
  BY <1>5, <1>6, Step DEF TypeOK
<1> QED  BY <1>1, <1>4, <1>5, <1>6, <1>7

\* surfaceDestroyed stops the view, whether it plays or not.
LEMMA SurfaceDestroyedIs ==
  ASSUME TypeOK, NEW a \in Activities, SurfaceDestroyed(a)
  PROVE  /\ TypeOK'
         /\ \E r : /\ Becomes(a, r)
                   /\ r.mRun = FALSE /\ r.thread = "null" /\ r.mIn = NULL
                   /\ r.suspending = act[a].suspending
                   /\ r.life = act[a].life /\ r.stopTask = act[a].stopTask
                   /\ act[a].overtaken => r.overtaken
                   /\ r.late = act[a].late
         /\ act[a].life \in { "paused", "destroyed" }
         /\ open' = Closed(a)
         /\ UNCHANGED << reads, clash, crash >>
<1> DEFINE o == Overtaking(act[a])
           s == StopPlayback(o)
           r == [s EXCEPT !.surface = FALSE]
<1>0. act[a] \in ActivityState /\ act[a].pauseTasks <= act[a].pauses
  BY ActivityType
<1>1. act' = [act EXCEPT ![a] = r]
  BY DEF SurfaceDestroyed
<1>2. /\ o \in ActivityState /\ o.pauses = act[a].pauses
      /\ act[a].overtaken => o.overtaken
      /\ o.life = act[a].life /\ o.pauseTasks = act[a].pauseTasks
      /\ o.suspending = act[a].suspending
      /\ o.stopTask = act[a].stopTask /\ o.late = act[a].late
  BY <1>0, OvertakingIs
<1> HIDE DEF o
<1>3. /\ s \in ActivityState
      /\ s.mRun = FALSE /\ s.thread = "null" /\ s.mIn = NULL
      /\ s.life = o.life /\ s.pauseTasks = o.pauseTasks /\ s.suspending = o.suspending
      /\ s.stopTask = o.stopTask /\ s.overtaken = o.overtaken /\ s.late = o.late
      /\ s.pauses = o.pauses
  BY <1>2, StopPlaybackIs
<1> HIDE DEF s
<1>4. r \in ActivityState
  BY <1>3 DEF ActivityState
<1>5. /\ r.mRun = s.mRun /\ r.thread = s.thread /\ r.mIn = s.mIn
      /\ r.life = s.life /\ r.pauseTasks = s.pauseTasks /\ r.suspending = s.suspending
      /\ r.stopTask = s.stopTask /\ r.overtaken = s.overtaken /\ r.late = s.late
      /\ r.pauses = s.pauses
  BY <1>3 DEF ActivityState
<1> HIDE DEF r
<1>6. Becomes(a, r)
  BY <1>0, <1>1, <1>2, <1>3, <1>4, <1>5 DEF Becomes
<1>7. /\ act[a].life \in { "paused", "destroyed" } /\ open' = Closed(a)
      /\ UNCHANGED << reads, rgb, settings, clash, crash >>
  BY DEF SurfaceDestroyed
<1>8. TypeOK'
  BY <1>6, <1>7, Step DEF TypeOK, Closed
<1> QED  BY <1>2, <1>3, <1>5, <1>6, <1>7, <1>8

\* onPause executes a pauseTask; onDestroy executes the stopTask.
LEMMA OnPauseIs ==
  ASSUME TypeOK, NEW a \in Activities, OnPause(a) \/ OnDestroy(a)
  PROVE  /\ TypeOK'
         /\ \E r : /\ Becomes(a, r)
                   /\ r.mRun = act[a].mRun /\ r.suspending = act[a].suspending
                   /\ r.thread = act[a].thread /\ r.mIn = act[a].mIn
                   /\ r.overtaken = act[a].overtaken /\ r.late = act[a].late
                   /\ \/ /\ act[a].life = "resumed" /\ r.life = "paused"
                         /\ r.pauseTasks > 0 /\ r.stopTask = act[a].stopTask
                      \/ /\ act[a].life = "paused" /\ r.life = "destroyed"
                         /\ r.pauseTasks = act[a].pauseTasks /\ r.stopTask = "begin"
         /\ UNCHANGED << reads, open, clash, crash >>
<1>0. act[a] \in ActivityState /\ act[a].pauseTasks <= act[a].pauses
  BY ActivityType
<1>1. UNCHANGED << reads, open, rgb, settings, clash, crash >>
  BY DEF OnPause, OnDestroy
<1>2. CASE OnPause(a)
  <2> DEFINE m == act[a].pauseTasks + 1
             n == act[a].pauses + 1
             r == [act[a] EXCEPT !.life = "paused", !.pauseTasks = m, !.pauses = n]
  <2>0. m \in Nat /\ n \in Nat /\ m > 0 /\ m <= n
    BY <1>0 DEF ActivityState
  <2>1. act' = [act EXCEPT ![a] = r] /\ act[a].life = "resumed"
    BY <1>2, <1>0 DEF OnPause, TypeOK, ActivityState
  <2> HIDE DEF m, n
  <2>2. r \in ActivityState
    BY <1>0, <2>0 DEF ActivityState
  <2>3. /\ r.mRun = act[a].mRun /\ r.suspending = act[a].suspending
        /\ r.thread = act[a].thread /\ r.mIn = act[a].mIn
        /\ r.overtaken = act[a].overtaken /\ r.late = act[a].late
        /\ r.life = "paused" /\ r.stopTask = act[a].stopTask
        /\ r.pauseTasks > 0 /\ r.pauseTasks <= r.pauses
    BY <1>0, <2>0 DEF ActivityState
  <2> HIDE DEF r
  <2>4. Becomes(a, r)
    BY <2>1, <2>2, <2>3 DEF Becomes
  <2>5. TypeOK'
    BY <1>1, <2>4, Step DEF TypeOK
  <2> QED  BY <1>1, <2>1, <2>3, <2>4, <2>5
<1>3. CASE OnDestroy(a)
  <2> DEFINE r == [act[a] EXCEPT !.life = "destroyed", !.stopTask = "begin"]
  <2>1. act' = [act EXCEPT ![a] = r] /\ act[a].life = "paused"
    BY <1>3 DEF OnDestroy, TypeOK
  <2>2. r \in ActivityState
    BY <1>0 DEF ActivityState
  <2>3. /\ r.mRun = act[a].mRun /\ r.suspending = act[a].suspending
        /\ r.thread = act[a].thread /\ r.mIn = act[a].mIn
        /\ r.overtaken = act[a].overtaken /\ r.late = act[a].late
        /\ r.life = "destroyed" /\ r.stopTask = "begin"
        /\ r.pauseTasks = act[a].pauseTasks /\ r.pauseTasks <= r.pauses
    BY <1>0 DEF ActivityState
  <2> HIDE DEF r
  <2>4. Becomes(a, r)
    BY <2>1, <2>2, <2>3 DEF Becomes
  <2>5. TypeOK'
    BY <1>1, <2>4, Step DEF TypeOK
  <2> QED  BY <1>1, <2>1, <2>3, <2>4, <2>5
<1> QED  BY <1>2, <1>3

\* onCreate starts the first DoRead of an activity that was not there.
LEMMA OnCreateIs ==
  ASSUME TypeOK, NEW a \in Activities, OnCreate(a)
  PROVE  /\ TypeOK'
         /\ \E r : /\ Becomes(a, r)
                   /\ r.mRun = FALSE /\ r.suspending = FALSE
                   /\ r.thread = "new" /\ r.mIn = NULL
                   /\ r.life = "created" /\ r.stopTask = "none"
         /\ act[a].life = "none" /\ StartRead(a)
         /\ UNCHANGED << open, clash, crash >>
<1> DEFINE r == Created(settings)
<1>1. settings \in Settings
  BY DEF TypeOK
<1>2. settings.size \in Sizes /\ settings.frames \in Sizes /\ NULL \in Sizes
  BY <1>1 DEF Sizes
<1>3. /\ r \in ActivityState
      /\ r.mRun = FALSE /\ r.suspending = FALSE /\ r.thread = "new" /\ r.mIn = NULL
      /\ r.life = "created" /\ r.stopTask = "none" /\ r.pauseTasks = 0 /\ r.pauses = 0
  BY <1>2, CreatedIs
<1>4. /\ act' = [act EXCEPT ![a] = r] /\ act[a].life = "none" /\ StartRead(a)
      /\ UNCHANGED << open, rgb, settings, clash, crash >>
  BY DEF OnCreate
<1> HIDE DEF r
<1>5. Becomes(a, r)
  BY <1>3, <1>4 DEF Becomes
<1>6. TypeOK'
  BY <1>4, <1>5, Step, StartReadType DEF TypeOK, ReadPC, ReadStates
<1> QED  BY <1>3, <1>4, <1>5, <1>6

LEMMA SetPlaying ==
  ASSUME NEW q \in ActivityState, NEW v \in BOOLEAN, NEW t \in { "new", "null", "started" }
  PROVE  /\ [q EXCEPT !.mRun = v] \in ActivityState
         /\ [q EXCEPT !.viewSuspending = v] \in ActivityState
         /\ [q EXCEPT !.thread = t] \in ActivityState
<1>1. [q EXCEPT !.mRun = v] \in ActivityState            BY DEF ActivityState
<1>2. [q EXCEPT !.viewSuspending = v] \in ActivityState  BY DEF ActivityState
<1>3. [q EXCEPT !.thread = t] \in ActivityState          BY DEF ActivityState
<1> QED  BY <1>1, <1>2, <1>3

\* setSource, with the stream d or with none.
LEMMA SetSourceIs ==
  ASSUME NEW r \in ActivityState, NEW d \in Reads \cup { NULL }
  PROVE  LET s == SetSource(r, d) IN
         /\ s \in ActivityState
         /\ s.life = r.life /\ s.pauseTasks = r.pauseTasks /\ s.suspending = r.suspending
         /\ s.stopTask = r.stopTask /\ s.overtaken = r.overtaken /\ s.late = r.late
         /\ s.pauses = r.pauses /\ s.mIn = d
         /\ s.mRun = IF d = NULL THEN r.mRun ELSE TRUE
         /\ s.thread = IF d = NULL THEN r.thread ELSE "started"
<1> DEFINE q == [r EXCEPT !.mIn = d]
           x == IF q.render = "none" THEN "loop" ELSE q.render
           s == [q EXCEPT !.mRun = TRUE, !.thread = "started", !.viewSuspending = FALSE,
                   !.render = x]
<1>1. /\ q \in ActivityState
      /\ q.life = r.life /\ q.pauseTasks = r.pauseTasks /\ q.suspending = r.suspending
      /\ q.stopTask = r.stopTask /\ q.overtaken = r.overtaken /\ q.late = r.late
      /\ q.pauses = r.pauses /\ q.mIn = d /\ q.mRun = r.mRun /\ q.thread = r.thread
  BY DEF ActivityState
<1>2. SetSource(r, d) = IF d = NULL THEN q ELSE Playing(q)
  BY DEF SetSource
<1> HIDE DEF q
<1>3. x \in { "none", "loop", "frame", "decode" }
  BY <1>1 DEF ActivityState
<1>4. Playing(q) = s
  BY <1>1 DEF Playing, ActivityState
<1> HIDE DEF x
<1>5. s \in ActivityState
  <2> DEFINE w == [q EXCEPT !.mRun = TRUE, !.thread = "started", !.viewSuspending = FALSE]
  <2>1. w \in ActivityState
    <3> DEFINE u == [q EXCEPT !.mRun = TRUE]
               n == [u EXCEPT !.thread = "started"]
    <3>1. u \in ActivityState
      BY <1>1, SetPlaying
    <3>2. w = [n EXCEPT !.viewSuspending = FALSE]
      OBVIOUS
    <3> HIDE DEF u
    <3>3. n \in ActivityState
      BY <3>1, SetPlaying
    <3> HIDE DEF n, w
    <3> QED  BY <3>2, <3>3, SetPlaying
  <2>2. s = [w EXCEPT !.render = x]
    OBVIOUS
  <2> HIDE DEF s, w
  <2> QED  BY <1>3, <2>1, <2>2 DEF ActivityState
<1>6. /\ s.life = q.life /\ s.pauseTasks = q.pauseTasks /\ s.suspending = q.suspending
      /\ s.stopTask = q.stopTask /\ s.overtaken = q.overtaken /\ s.late = q.late
      /\ s.pauses = q.pauses /\ s.mIn = q.mIn /\ s.mRun = TRUE /\ s.thread = "started"
  BY <1>1 DEF ActivityState
<1> HIDE DEF s
<1>7. CASE d = NULL   BY <1>1, <1>2, <1>7
<1>8. CASE d # NULL   BY <1>1, <1>2, <1>4, <1>5, <1>6, <1>8
<1> QED  BY <1>7, <1>8

\* onPostExecute, after a connection or none was made.
LEMMA ReadPostedIs ==
  ASSUME TypeOK, NEW a \in Activities, NEW d \in Reads, ReadPosted(a, d)
  PROVE  /\ TypeOK'
         /\ reads[a][d] \in { "opened", "failed" }
         /\ \E r : /\ Becomes(a, r)
                   /\ r.mIn = IF reads[a][d] = "opened" THEN d ELSE NULL
                   /\ r.mRun = IF reads[a][d] = "opened" THEN TRUE ELSE act[a].mRun
                   /\ r.thread = IF reads[a][d] = "opened" THEN "started" ELSE act[a].thread
                   /\ r.suspending = act[a].suspending /\ r.life = act[a].life
                   /\ r.pauseTasks = act[a].pauseTasks /\ r.stopTask = act[a].stopTask
                   /\ act[a].overtaken => r.overtaken
                   /\ act[a].late => r.late
                   /\ reads[a][d] = "opened" /\ act[a].life # "resumed" => r.late
         /\ reads' = [reads EXCEPT ![a][d] = IF reads[a][d] = "opened" THEN "posted" ELSE "posted_null"]
         /\ act[a].thread # "started" => crash' = crash
         /\ UNCHANGED << open, clash >>
<1> DEFINE source == IF reads[a][d] = "opened" THEN d ELSE NULL
           late == act[a].late \/ (source # NULL /\ act[a].life # "resumed")
           s == SetSource(act[a], source)
           o == Overtaking(s)
           r == [o EXCEPT !.late = late]
<1>0. act[a] \in ActivityState /\ act[a].pauseTasks <= act[a].pauses
  BY ActivityType
<1>1. /\ source \in Reads \cup { NULL }
      /\ source = NULL <=> reads[a][d] # "opened"
      /\ late \in BOOLEAN
      /\ act[a].late => late
      /\ source # NULL /\ act[a].life # "resumed" => late
  BY BoundAssumption DEF Reads
<1>2. act' = [act EXCEPT ![a] = r]
  BY DEF ReadPosted
<1>3. /\ crash' = IF StartThrows(act[a], source) THEN "start" ELSE crash
      /\ reads[a][d] \in { "opened", "failed" }
      /\ reads' = [reads EXCEPT ![a][d] = IF reads[a][d] = "opened" THEN "posted" ELSE "posted_null"]
      /\ UNCHANGED << open, rgb, settings, clash >>
  BY <1>1 DEF ReadPosted
<1>4. source = IF reads[a][d] = "opened" THEN d ELSE NULL
  OBVIOUS
<1> HIDE DEF source, late
<1>5. /\ s \in ActivityState
      /\ s.life = act[a].life /\ s.pauseTasks = act[a].pauseTasks
      /\ s.suspending = act[a].suspending
      /\ s.stopTask = act[a].stopTask /\ s.overtaken = act[a].overtaken
      /\ s.pauses = act[a].pauses /\ s.mIn = source
      /\ s.mRun = IF source = NULL THEN act[a].mRun ELSE TRUE
      /\ s.thread = IF source = NULL THEN act[a].thread ELSE "started"
  <2> DEFINE q == act[a]
  <2>1. q \in ActivityState /\ source \in Reads \cup { NULL }
    BY <1>0, <1>1
  <2> HIDE DEF q
  <2>2. LET t == SetSource(q, source) IN
        /\ t \in ActivityState
        /\ t.life = q.life /\ t.pauseTasks = q.pauseTasks /\ t.suspending = q.suspending
        /\ t.stopTask = q.stopTask /\ t.overtaken = q.overtaken /\ t.late = q.late
        /\ t.pauses = q.pauses /\ t.mIn = source
        /\ t.mRun = IF source = NULL THEN q.mRun ELSE TRUE
        /\ t.thread = IF source = NULL THEN q.thread ELSE "started"
    BY <2>1, SetSourceIs
  <2> QED  BY <2>2 DEF q
<1> HIDE DEF s
<1>6. /\ o \in ActivityState /\ o.pauses = s.pauses
      /\ s.overtaken => o.overtaken
      /\ o.life = s.life /\ o.pauseTasks = s.pauseTasks /\ o.suspending = s.suspending
      /\ o.mRun = s.mRun /\ o.thread = s.thread /\ o.mIn = s.mIn /\ o.stopTask = s.stopTask
  BY <1>5, OvertakingIs
<1> HIDE DEF o
<1>7. r \in ActivityState
  BY <1>1, <1>6 DEF ActivityState
<1>8. /\ r.pauses = o.pauses /\ r.overtaken = o.overtaken /\ r.late = late
      /\ r.life = o.life /\ r.pauseTasks = o.pauseTasks /\ r.suspending = o.suspending
      /\ r.mRun = o.mRun /\ r.thread = o.thread /\ r.mIn = o.mIn /\ r.stopTask = o.stopTask
  BY <1>6 DEF ActivityState
<1> HIDE DEF r
<1>9. Becomes(a, r)
  BY <1>0, <1>2, <1>5, <1>6, <1>7, <1>8 DEF Becomes
<1>10. crash' \in { "none", "start", "render" } /\ (act[a].thread # "started" => crash' = crash)
  BY <1>3 DEF StartThrows, TypeOK
<1>11. reads' \in [Activities -> [Reads -> ReadStates]]
  BY <1>3 DEF TypeOK, ReadPC, ReadStates
<1>12. TypeOK'
  BY <1>3, <1>9, <1>10, <1>11, Step DEF TypeOK, ReadPC, ReadStates
<1> QED
  BY <1>1, <1>3, <1>4, <1>5, <1>6, <1>8, <1>9, <1>10, <1>12, ZenonT(40)

LEMMA ReadEndsIs ==
  ASSUME TypeOK, NEW a \in Activities, NEW d \in Reads, ReadOpens(a, d) \/ ReadFails(a, d)
  PROVE  TypeOK'
<1>1. reads' \in [Activities -> [Reads -> ReadStates]]
  <2>1. CASE ReadOpens(a, d)  BY <2>1 DEF ReadOpens, TypeOK, ReadPC, ReadStates
  <2>2. CASE ReadFails(a, d)  BY <2>2 DEF ReadFails, TypeOK, ReadPC, ReadStates
  <2> QED  BY <2>1, <2>2
<1> QED  BY <1>1 DEF ReadOpens, ReadFails, TypeOK, ReadPC, ReadStates

\* Every variable keeps its type.
THEOREM TypeCorrect == Spec => []TypeOK
<1>1. ASSUME Init
      PROVE  TypeOK
  <2>1. settings \in Settings
    BY <1>1 DEF Init
  <2>2. settings.size \in Sizes /\ settings.frames \in Sizes /\ NULL \in Sizes
    BY <2>1 DEF Sizes
  <2>3. /\ Created(settings) \in ActivityState
        /\ Created(settings).pauseTasks = 0 /\ Created(settings).pauses = 0
    BY <2>2, CreatedIs
  <2>4. Unborn \in ActivityState /\ Unborn.pauseTasks = 0 /\ Unborn.pauses = 0
    BY <2>2 DEF Unborn, ActivityState
  <2>5. act \in [Activities -> ActivityState]
    BY <1>1, <2>3, <2>4 DEF Init
  <2>6. \A a \in Activities : act[a].pauseTasks <= act[a].pauses
    BY <1>1, <2>3, <2>4 DEF Init
  <2>7. reads \in [Activities -> [Reads -> ReadPC]]
    BY <1>1 DEF Init, ReadPC
  <2> QED  BY <1>1, <2>2, <2>5, <2>6, <2>7 DEF Init, TypeOK
<1>2. TypeOK /\ [Next]_vars => TypeOK'
  <2> SUFFICES ASSUME TypeOK, [Next]_vars
               PROVE  TypeOK'
    OBVIOUS
  <2>1. ASSUME NEW a \in Activities,
               User(a) \/ Tasks(a) \/ ReadEnds(a) \/ System(a) \/ Render(a)
        PROVE  TypeOK'
    BY <2>1, AsideIs, OnResumeIs, PauseTaskIs, StopTaskIs, SurfaceDestroyedIs, OnPauseIs,
       OnCreateIs, ReadPostedIs, ReadEndsIs
    DEF User, Tasks, ReadEnds, System, Aside
  <2>2. CASE UNCHANGED vars
    BY <2>2 DEF vars, TypeOK
  <2> QED  BY <2>1, <2>2 DEF Next
<1> QED  BY <1>1, <1>2, PTL DEF Spec

-----------------------------------------------------------------------------
(* The inductive invariant Released                                        *)

\* A step of a leaves the other activities as they are: what is left to show is
\* about a, and that nothing is forgiven or broken that was not before.
LEMMA OneSteps ==
  ASSUME TypeOK, Released, NEW a \in Activities, NEW r, Becomes(a, r),
         \A b \in Activities \ { a } : reads'[b] = reads[b],
         \A b \in Activities \ { a }, d \in Reads : << b, d >> \in open' => << b, d >> \in open,
         act[a].overtaken => r.overtaken, act[a].late => r.late,
         clash' => clash \/ r.overtaken \/ r.late,
         crash' # "start",
         OneStream(a)', Leaving(a)', NotYet(a)'
  PROVE  Released'
<1>1. act'[a] = r /\ \A b \in Activities \ { a } : act'[b] = act[b]
  BY Step
<1>2. ASSUME NEW b \in Activities \ { a }
      PROVE  OneStream(b)' /\ Leaving(b)' /\ NotYet(b)'
  <2>1. OneStream(b) /\ Leaving(b) /\ NotYet(b)
    BY DEF Released
  <2> QED  BY <1>1, <2>1 DEF OneStream, Leaving, NotYet, Pending, Failed
<1>3. FreedUnused'
  BY <1>1 DEF Released, FreedUnused
<1> QED  BY <1>2, <1>3 DEF Released

\* Steps that none of it is about.
LEMMA AsideReleased ==
  ASSUME TypeOK, Released, crash = "none", NEW a \in Activities, Aside(a)
  PROVE  Released'
<1>1. PICK r : Becomes(a, r) /\ Core(r) = Core(act[a])
  BY AsideIs
<1>2. UNCHANGED << reads, open, settings, clash >> /\ crash' \in { crash, "render" }
  BY AsideIs
<1>3. act'[a] = r
  BY <1>1, Step
<1>4. /\ r.life = act[a].life /\ r.pauseTasks = act[a].pauseTasks
      /\ r.suspending = act[a].suspending /\ r.mRun = act[a].mRun
      /\ r.thread = act[a].thread /\ r.mIn = act[a].mIn /\ r.stopTask = act[a].stopTask
      /\ r.overtaken = act[a].overtaken /\ r.late = act[a].late
  BY <1>1, CoreIs
<1>5. OneStream(a) /\ Leaving(a) /\ NotYet(a)
  BY DEF Released
<1>6. act[a].life # "none"
  BY <1>5
  DEF NotYet, Unborn, Aside, SurfaceCreated, Finish, RestartBackground, RestartPosted,
      Render, RenderChecks, SourceGone, FrameFails, Decode, Decoded, RenderEnds
<1>7. OneStream(a)' /\ Leaving(a)' /\ NotYet(a)'
  BY <1>2, <1>3, <1>4, <1>5, <1>6 DEF OneStream, Leaving, NotYet, Pending, Failed
<1> QED  BY <1>1, <1>2, <1>4, <1>7, OneSteps

\* A DoRead is started by an activity whose view has none and does not play.
LEMMA OnResumeReleased ==
  ASSUME TypeOK, Released, crash = "none", NEW a \in Activities, OnResume(a) \/ SaveSettings(a)
  PROVE  Released'
<1>1. PICK r : /\ Becomes(a, r)
               /\ r.life = "resumed" /\ r.suspending = FALSE
               /\ r.mRun = act[a].mRun /\ r.thread = act[a].thread
               /\ r.mIn = act[a].mIn /\ r.pauseTasks = act[a].pauseTasks
               /\ r.stopTask = act[a].stopTask /\ r.late = act[a].late
               /\ act[a].overtaken => r.overtaken
  BY OnResumeIs
<1>2. /\ act[a].life \in { "created", "paused" }
      /\ IF act[a].suspending THEN StartRead(a) ELSE UNCHANGED reads
      /\ UNCHANGED << open, clash, crash >>
  BY OnResumeIs
<1>3. act'[a] = r
  BY <1>1, Step
<1>4. OneStream(a) /\ Leaving(a) /\ NotYet(a)
  BY DEF Released
<1>5. Leaving(a)' /\ NotYet(a)'
  BY <1>1, <1>2, <1>3, <1>4 DEF Leaving, NotYet
<1>6. CASE act[a].suspending
  <2>1. PICK d \in Reads : reads[a][d] = "unborn" /\ reads' = [reads EXCEPT ![a][d] = "background"]
    BY <1>2, <1>6 DEF StartRead
  <2>2. /\ \A e \in Reads : ~Pending(a, e)
        /\ ~act[a].mRun
    BY <1>4, <1>6 DEF OneStream
  <2>3. /\ reads'[a][d] = "background"
        /\ \A e \in Reads \ { d } : reads'[a][e] = reads[a][e]
        /\ \A b \in Activities \ { a } : reads'[b] = reads[b]
    BY <2>1 DEF TypeOK
  <2>4. OneStream(a)'
    BY <1>1, <1>2, <1>3, <1>4, <2>1, <2>2, <2>3 DEF OneStream, Pending, Failed
  <2> QED  BY <1>1, <1>2, <1>5, <2>3, <2>4, OneSteps
<1>7. CASE ~act[a].suspending
  <2>1. OneStream(a)'
    BY <1>1, <1>2, <1>3, <1>4, <1>7 DEF OneStream, Pending, Failed
  <2> QED  BY <1>1, <1>2, <1>5, <1>7, <2>1, OneSteps
<1> QED  BY <1>6, <1>7

LEMMA PauseTaskReleased ==
  ASSUME TypeOK, Released, crash = "none", NEW a \in Activities, PauseTask(a)
  PROVE  Released'
<1>1. PICK r : /\ Becomes(a, r)
               /\ r.mRun = FALSE
               /\ r.suspending = IF act[a].mRun THEN TRUE ELSE act[a].suspending
               /\ r.thread = IF act[a].mRun THEN "null" ELSE act[a].thread
               /\ r.mIn = IF act[a].mRun THEN NULL ELSE act[a].mIn
               /\ r.life = act[a].life /\ r.stopTask = act[a].stopTask
               /\ r.overtaken = act[a].overtaken /\ r.late = act[a].late
  BY PauseTaskIs
<1>2. /\ act[a].pauseTasks > 0
      /\ open' = IF act[a].mRun THEN Closed(a) ELSE open
      /\ UNCHANGED << reads, clash, crash >>
  BY PauseTaskIs
<1>3. act'[a] = r
  BY <1>1, Step
<1>4. OneStream(a) /\ Leaving(a) /\ NotYet(a)
  BY DEF Released
<1>5. act[a].life # "none"
  BY <1>2, <1>4 DEF NotYet, Unborn
<1>6. Leaving(a)' /\ NotYet(a)'
  BY <1>1, <1>3, <1>4, <1>5 DEF Leaving, NotYet
<1>7. OneStream(a)'
  BY <1>1, <1>2, <1>3, <1>4 DEF OneStream, Pending, Failed, Closed
<1>8. \A b \in Activities \ { a }, d \in Reads : << b, d >> \in open' => << b, d >> \in open
  BY <1>2 DEF Closed
<1> QED  BY <1>1, <1>2, <1>6, <1>7, <1>8, OneSteps

\* In good order the stopTask comes after the pauseTask has taken the stream away.
LEMMA StopTaskReleased ==
  ASSUME TypeOK, Released, crash = "none", NEW a \in Activities, StopTask(a)
  PROVE  Released'
<1>1. PICK r : /\ Becomes(a, r)
               /\ r.mRun = act[a].mRun /\ r.suspending = act[a].suspending
               /\ r.thread = act[a].thread /\ r.mIn = act[a].mIn
               /\ r.life = act[a].life /\ r.stopTask = "end"
               /\ r.pauseTasks = act[a].pauseTasks /\ r.late = act[a].late
               /\ r.overtaken = (act[a].overtaken \/ act[a].pauseTasks > 0)
  BY StopTaskIs
<1>2. /\ act[a].stopTask = "begin"
      /\ act[a].mIn = NULL => UNCHANGED clash
      /\ UNCHANGED << reads, open, crash >>
  BY StopTaskIs
<1>3. act'[a] = r
  BY <1>1, Step
<1>4. OneStream(a) /\ Leaving(a) /\ NotYet(a)
  BY DEF Released
<1>5. act[a].life = "destroyed"
  BY <1>2, <1>4 DEF Leaving
<1>6. OneStream(a)' /\ Leaving(a)' /\ NotYet(a)'
  BY <1>1, <1>2, <1>3, <1>4, <1>5 DEF OneStream, Leaving, NotYet, Pending, Failed
<1>7. clash' => clash \/ r.overtaken \/ r.late
  <2> SUFFICES ASSUME act[a].mIn # NULL
               PROVE  r.overtaken \/ r.late
    BY <1>2
  <2> QED  BY <1>1, <1>4, <1>5 DEF OneStream, Leaving
<1> QED  BY <1>1, <1>2, <1>6, <1>7, OneSteps

LEMMA SurfaceDestroyedReleased ==
  ASSUME TypeOK, Released, crash = "none", NEW a \in Activities, SurfaceDestroyed(a)
  PROVE  Released'
<1>1. PICK r : /\ Becomes(a, r)
               /\ r.mRun = FALSE /\ r.thread = "null" /\ r.mIn = NULL
               /\ r.suspending = act[a].suspending
               /\ r.life = act[a].life /\ r.stopTask = act[a].stopTask
               /\ act[a].overtaken => r.overtaken
               /\ r.late = act[a].late
  BY SurfaceDestroyedIs
<1>2. /\ act[a].life \in { "paused", "destroyed" }
      /\ open' = Closed(a)
      /\ UNCHANGED << reads, clash, crash >>
  BY SurfaceDestroyedIs
<1>3. act'[a] = r
  BY <1>1, Step
<1>4. OneStream(a) /\ Leaving(a) /\ NotYet(a)
  BY DEF Released
<1>5. Leaving(a)' /\ NotYet(a)'
  BY <1>1, <1>2, <1>3, <1>4 DEF Leaving, NotYet
<1>6. OneStream(a)'
  BY <1>1, <1>2, <1>3, <1>4 DEF OneStream, Pending, Failed, Closed
<1>7. \A b \in Activities \ { a }, d \in Reads : << b, d >> \in open' => << b, d >> \in open
  BY <1>2 DEF Closed
<1> QED  BY <1>1, <1>2, <1>5, <1>6, <1>7, OneSteps

LEMMA OnPauseReleased ==
  ASSUME TypeOK, Released, crash = "none", NEW a \in Activities, OnPause(a) \/ OnDestroy(a)
  PROVE  Released'
<1>1. PICK r : /\ Becomes(a, r)
               /\ r.mRun = act[a].mRun /\ r.suspending = act[a].suspending
               /\ r.thread = act[a].thread /\ r.mIn = act[a].mIn
               /\ r.overtaken = act[a].overtaken /\ r.late = act[a].late
               /\ \/ /\ act[a].life = "resumed" /\ r.life = "paused"
                     /\ r.pauseTasks > 0 /\ r.stopTask = act[a].stopTask
                  \/ /\ act[a].life = "paused" /\ r.life = "destroyed"
                     /\ r.pauseTasks = act[a].pauseTasks /\ r.stopTask = "begin"
  BY OnPauseIs
<1>2. UNCHANGED << reads, open, clash, crash >>
  BY OnPauseIs
<1>3. act'[a] = r
  BY <1>1, Step
<1>4. OneStream(a) /\ Leaving(a)
  BY DEF Released
<1>5. Leaving(a)' /\ NotYet(a)'
  BY <1>1, <1>3, <1>4 DEF Leaving, NotYet
<1>6. OneStream(a)'
  BY <1>1, <1>2, <1>3, <1>4 DEF OneStream, Pending, Failed
<1> QED  BY <1>1, <1>2, <1>5, <1>6, OneSteps

LEMMA OnCreateReleased ==
  ASSUME TypeOK, Released, crash = "none", NEW a \in Activities, OnCreate(a)
  PROVE  Released'
<1>1. PICK r : /\ Becomes(a, r)
               /\ r.mRun = FALSE /\ r.suspending = FALSE
               /\ r.thread = "new" /\ r.mIn = NULL
               /\ r.life = "created" /\ r.stopTask = "none"
  BY OnCreateIs
<1>2. act[a].life = "none" /\ StartRead(a) /\ UNCHANGED << open, clash, crash >>
  BY OnCreateIs
<1>3. act'[a] = r
  BY <1>1, Step
<1>4. OneStream(a) /\ NotYet(a)
  BY DEF Released
<1>5. /\ \A d \in Reads : reads[a][d] = "unborn"
      /\ ~act[a].overtaken /\ ~act[a].late /\ act[a].mIn = NULL
  BY <1>2, <1>4 DEF NotYet, Unborn
<1>6. PICK d \in Reads : reads' = [reads EXCEPT ![a][d] = "background"]
  BY <1>2 DEF StartRead
<1>7. /\ reads'[a][d] = "background"
      /\ \A e \in Reads \ { d } : reads'[a][e] = reads[a][e]
      /\ \A b \in Activities \ { a } : reads'[b] = reads[b]
  BY <1>6 DEF TypeOK
<1>8. OneStream(a)'
  BY <1>1, <1>2, <1>3, <1>4, <1>5, <1>7, BoundAssumption DEF OneStream, Pending, Failed, Reads
<1>9. Leaving(a)' /\ NotYet(a)'
  BY <1>1, <1>3 DEF Leaving, NotYet
<1> QED  BY <1>1, <1>2, <1>5, <1>7, <1>8, <1>9, OneSteps

LEMMA ReadEndsReleased ==
  ASSUME TypeOK, Released, crash = "none", NEW a \in Activities, NEW d \in Reads,
         ReadOpens(a, d) \/ ReadFails(a, d)
  PROVE  Released'
<1>1. /\ reads[a][d] = "background" /\ UNCHANGED << act, clash, crash >>
      /\ reads' \in { [reads EXCEPT ![a][d] = "opened"], [reads EXCEPT ![a][d] = "failed"] }
      /\ open' \in { open, open \cup { << a, d >> } }
  BY DEF ReadOpens, ReadFails
<1>2. /\ reads'[a][d] \in { "opened", "failed" }
      /\ \A e \in Reads \ { d } : reads'[a][e] = reads[a][e]
      /\ \A b \in Activities \ { a } : reads'[b] = reads[b]
  BY <1>1 DEF TypeOK
<1>3. ASSUME NEW b \in Activities
      PROVE  OneStream(b)' /\ Leaving(b)' /\ NotYet(b)'
  <2>1. OneStream(b) /\ Leaving(b) /\ NotYet(b)
    BY DEF Released
  <2>2. \A e \in Reads : << b, e >> \in open' => << b, e >> \in open \/ (b = a /\ e = d)
    BY <1>1
  <2>3. CASE b = a
    BY <1>1, <1>2, <2>1, <2>2, <2>3 DEF OneStream, Leaving, NotYet, Pending, Failed
  <2>4. CASE b # a
    BY <1>1, <1>2, <2>1, <2>2, <2>4 DEF OneStream, Leaving, NotYet, Pending, Failed
  <2> QED  BY <2>3, <2>4
<1> QED  BY <1>1, <1>3 DEF Released, FreedUnused

\* setSource finds the view without a stream and with no thread it has started.
LEMMA ReadPostedReleased ==
  ASSUME TypeOK, Released, crash = "none", NEW a \in Activities, NEW d \in Reads, ReadPosted(a, d)
  PROVE  Released'
<1>1. PICK r : /\ Becomes(a, r)
               /\ r.mIn = IF reads[a][d] = "opened" THEN d ELSE NULL
               /\ r.mRun = IF reads[a][d] = "opened" THEN TRUE ELSE act[a].mRun
               /\ r.thread = IF reads[a][d] = "opened" THEN "started" ELSE act[a].thread
               /\ r.suspending = act[a].suspending /\ r.life = act[a].life
               /\ r.pauseTasks = act[a].pauseTasks /\ r.stopTask = act[a].stopTask
               /\ act[a].overtaken => r.overtaken
               /\ act[a].late => r.late
               /\ reads[a][d] = "opened" /\ act[a].life # "resumed" => r.late
  BY ReadPostedIs
<1>2. /\ reads[a][d] \in { "opened", "failed" }
      /\ reads' = [reads EXCEPT ![a][d] = IF reads[a][d] = "opened" THEN "posted" ELSE "posted_null"]
      /\ act[a].thread # "started" => crash' = crash
      /\ UNCHANGED << open, clash >>
  BY ReadPostedIs
<1>3. act'[a] = r
  BY <1>1, Step
<1>4. OneStream(a) /\ Leaving(a) /\ NotYet(a)
  BY DEF Released
<1>5. /\ ~act[a].suspending /\ ~act[a].mRun /\ act[a].mIn = NULL
      /\ act[a].thread # "started"
      /\ \A e \in Reads : Pending(a, e) => e = d
  BY <1>2, <1>4 DEF OneStream, Pending, Failed
<1>6. act[a].life # "none"
  BY <1>2, <1>4 DEF NotYet
<1>7. /\ reads'[a][d] = IF reads[a][d] = "opened" THEN "posted" ELSE "posted_null"
      /\ \A e \in Reads \ { d } : reads'[a][e] = reads[a][e]
      /\ \A b \in Activities \ { a } : reads'[b] = reads[b]
  BY <1>2 DEF TypeOK
<1>8. Leaving(a)' /\ NotYet(a)'
  BY <1>1, <1>3, <1>4, <1>5, <1>6 DEF Leaving, NotYet
<1>9. OneStream(a)'
  <2>1. \A e \in Reads : Pending(a, e)' => e = d /\ reads[a][d] = "failed"
    BY <1>2, <1>5, <1>7 DEF Pending, Failed
  <2>2. \A e \in Reads \ { d } : << a, e >> \notin open
    BY <1>4, <1>5, BoundAssumption DEF OneStream, Pending, Failed, Reads
  <2>3. << a, d >> \in open => (reads'[a][d] = "posted" /\ r.mIn = d) \/ reads'[a][d] = "posted_null"
    BY <1>1, <1>2, <1>7
  <2> QED  BY <1>1, <1>2, <1>3, <1>5, <2>1, <2>2, <2>3 DEF OneStream, Failed
<1> QED  BY <1>1, <1>2, <1>5, <1>7, <1>8, <1>9, OneSteps

\* Released holds for any number of activities, connections and pauses.
THEOREM ReleasedHolds == Spec => []Released
<1>1. ASSUME Init, TypeOK
      PROVE  Released
  <2>1. /\ act[1] = Created(settings)
        /\ \A a \in Activities \ { 1 } : act[a] = Unborn
    BY <1>1, BoundAssumption DEF Init, Activities
  <2>2. /\ open = {} /\ ~clash /\ crash = "none"
        /\ \A a \in Activities, d \in Reads :
             reads[a][d] = IF a = 1 /\ d = 1 THEN "background" ELSE "unborn"
    BY <1>1 DEF Init
  <2>3. /\ Created(settings).life = "created" /\ ~Created(settings).mRun
        /\ ~Created(settings).suspending /\ Created(settings).thread = "new"
        /\ Created(settings).mIn = NULL /\ Created(settings).stopTask = "none"
    BY DEF Created, Unborn
  <2>4. /\ Unborn.life = "none" /\ ~Unborn.mRun /\ ~Unborn.suspending
        /\ Unborn.thread = "new" /\ Unborn.mIn = NULL /\ Unborn.stopTask = "none"
    BY DEF Unborn
  <2>5. ASSUME NEW a \in Activities
        PROVE  OneStream(a) /\ Leaving(a) /\ NotYet(a)
    <3>1. CASE a = 1   BY <2>1, <2>2, <2>3, <3>1 DEF OneStream, Leaving, NotYet, Pending, Failed
    <3>2. CASE a # 1   BY <2>1, <2>2, <2>4, <3>2 DEF OneStream, Leaving, NotYet, Pending, Failed
    <3> QED  BY <3>1, <3>2
  <2> QED  BY <2>2, <2>5 DEF Released, FreedUnused
<1>2. TypeOK /\ Released /\ [Next]_vars => Released'
  <2> SUFFICES ASSUME TypeOK, Released, [Next]_vars
               PROVE  Released'
    OBVIOUS
  <2>1. ASSUME crash = "none", NEW a \in Activities,
               User(a) \/ Tasks(a) \/ ReadEnds(a) \/ System(a) \/ Render(a)
        PROVE  Released'
    BY <2>1, AsideReleased, OnResumeReleased, PauseTaskReleased, StopTaskReleased,
       SurfaceDestroyedReleased, OnPauseReleased, OnCreateReleased, ReadEndsReleased,
       ReadPostedReleased
    DEF User, Tasks, ReadEnds, System, Aside
  <2>2. CASE UNCHANGED vars
    BY <2>2
    DEF vars, Released, OneStream, Leaving, NotYet, Pending, Failed, FreedUnused
  <2> QED  BY <2>1, <2>2 DEF Next
<1> QED  BY <1>1, <1>2, TypeCorrect, PTL DEF Spec

\* No stopTask of an activity that leaves in good order frees the pixels that a
\* render thread of another is writing.
THEOREM FreedUnusedHolds == Spec => []FreedUnused
<1>1. Released => FreedUnused
  BY DEF Released
<1> QED  BY <1>1, ReleasedHolds, PTL

\* An activity that was destroyed and has no task left holds no connection but one
\* that was refused, and no view ever starts a thread twice.
THEOREM OldReleasesHolds == Spec => []OldReleases
<1>1. TypeOK /\ Released => OldReleases
  <2> SUFFICES ASSUME TypeOK, Released, NEW a \in Activities,
                      act[a].life = "destroyed", act[a].pauseTasks = 0, ~act[a].late,
                      \A d \in Reads : reads[a][d] \notin { "background", "opened" },
                      NEW d \in Reads, << a, d >> \in open
               PROVE  Failed(a, d) /\ \A e \in Reads \ { d } : << a, e >> \notin open
    BY DEF OldReleases, Released
  <2>1. OneStream(a) /\ Leaving(a)
    BY DEF Released
  <2>2. act[a].mIn = NULL
    BY <2>1 DEF OneStream, Leaving
  <2>3. \A e \in Reads : << a, e >> \in open => Failed(a, e)
    BY <2>1, <2>2, BoundAssumption DEF OneStream, Reads
  <2> QED  BY <2>1, <2>3 DEF OneStream, Pending
<1> QED  BY <1>1, ReleasedHolds, TypeCorrect, PTL

=============================================================================
