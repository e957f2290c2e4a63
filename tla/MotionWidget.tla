----------------------------- MODULE MotionWidget -----------------------------
(***************************************************************************)
(* The home screen widgets: MotionWidget, which receives the broadcasts,   *)
(* MyService, which an alarm starts to refresh the icons, and the status   *)
(* icon each widget shows.                                                 *)
(*                                                                         *)
(* Broadcasts and service commands run on the main thread, one at a time.  *)
(* Everything that talks to Motion runs on a thread of its own, over the   *)
(* calls that RemoteCamera describes.  A broadcast has a MotionWidget      *)
(* object of its own, gone when it has been handled; only the views object *)
(* of one that started refresh threads lives on in them.                   *)
(***************************************************************************)
EXTENDS Naturals, MotionCommands

CONSTANTS
  Clients,    \* threads that can talk to Motion at the same time
  Cameras,
  Widgets,    \* widget ids
  Intervals,  \* numbers the interval field can hold
  NoNumber,   \* the interval field left empty, or never saved
  NoAlarm,
  MaxReady    \* bound: refresh threads of one widget that wait to be scheduled

ASSUME WidgetAssumption ==
  /\ Intervals \subseteq Nat
  /\ NoNumber \notin Nat /\ NoAlarm \notin Nat
  /\ MaxReady \in Nat

VARIABLES
  detection, camera, method, told, done, result,  \* of RemoteCamera
  \* The system and the preferences.
  interval,  \* control_interval in SAVED_VALUES
  bound,     \* the widgets on the home screen
  config,    \* the camera in each widget's preferences
  enabled,   \* whether an ENABLED broadcast is on its way
  updates,   \* UPDATE broadcasts on their way, each with its widget ids
  alarm,     \* the interval of the alarm that is set
  service,   \* MyService: "none", "running", or "killed" and to be restarted
  icon,      \* what each widget's toggle button shows
  live,      \* widgets whose buttons have been given click intents
  \* The process.
  main,      \* what the main thread is in: "idle", "onUpdate" or "onStartCommand"
  todo,      \* the widget ids its loop has still to go over
  ready,     \* refresh threads started and not yet scheduled, by object and widget
  views,     \* the icon in the field remoteViewsUpdateOnce of each object
  thread,    \* what each client thread is doing
  \* History.
  disturbed  \* widgets whose icon may be outdated: something has changed since
             \* their last thread began, or threads have overlapped

remote  == << detection, camera, method, told, done, result >>
system  == << interval, bound, config, enabled, updates, alarm, service >>
screen  == << icon, live >>
process == << main, todo, ready, views, thread >>

widgetVars == << remote, system, screen, process, disturbed >>

Remote == INSTANCE RemoteCamera

\* The objects with a field remoteViewsUpdateOnce: the service, and the receiver
\* of the ENABLED broadcast.
Owners == { "service", "receiver" }
Clicks == { "toggleDetection", "snapshot" }

\* The button's image as the layout has it, and as the code sets it; "unset" is a
\* views object that does not set it.
Icons == { "start", "start_pressed", "pause_pressed", "pause" }

Idle == [by |-> "none", for |-> "none", at |-> "none"]

Threads ==
  { Idle } \cup [by : Owners, for : Widgets, at : { "getStatus", "updateAppWidget" }]
           \cup [by : Clicks, for : Widgets, at : { "getStatus", "command" }]

Busy(c) == thread[c].by # "none"

\* The method a thread calls where it is.
Doing(c) ==
  IF thread[c].at = "getStatus" THEN "getStatus"
  ELSE IF thread[c].at = "command" THEN thread[c].by ELSE "none"

TypeOK ==
  /\ Remote!TypeOK
  /\ interval \in Intervals \cup { NoNumber }
  /\ bound \subseteq Widgets
  /\ config \in [Widgets -> Cameras]
  /\ enabled \in BOOLEAN
  /\ updates \subseteq (SUBSET Widgets) \ { { } }
  /\ alarm \in { i \in Intervals : i > 0 } \cup { NoAlarm }
  /\ service \in { "none", "running", "killed" }
  /\ icon \in [Widgets -> Icons]
  /\ live \subseteq Widgets
  /\ main \in { "idle", "onUpdate", "onStartCommand" }
  /\ todo \subseteq Widgets
  /\ ready \in [Owners -> [Widgets -> Nat]]
  /\ views \in [Owners -> Icons \cup { "unset" }]
  /\ thread \in [Clients -> Threads]
  /\ disturbed \subseteq Widgets
  /\ main = "idle" <=> todo = { }
  /\ \A c \in Clients : method[c] \in { Doing(c), "none" }

Init ==
  /\ Remote!Init
  /\ interval = NoNumber
  /\ bound = { }
  /\ config \in [Widgets -> Cameras]
  /\ enabled = FALSE
  /\ updates = { }
  /\ alarm = NoAlarm
  /\ service = "none"
  /\ icon = [w \in Widgets |-> "start"]
  /\ live = { }
  /\ main = "idle"
  /\ todo = { }
  /\ ready = [o \in Owners |-> [w \in Widgets |-> 0]]
  /\ views = [o \in Owners |-> "unset"]
  /\ thread = [c \in Clients |-> Idle]
  /\ disturbed = { }

-----------------------------------------------------------------------------
(* The user and the system                                                 *)

\* The settings screen saves the interval field, whatever is in it.
SaveInterval ==
  /\ \E i \in Intervals \cup { NoNumber } : interval' = i
  /\ UNCHANGED << remote, bound, config, enabled, updates, alarm, service, screen,
                  process, disturbed >>

\* Nothing is left of an earlier use of widget id w.
Fresh(w) ==
  /\ w \notin bound /\ w \notin todo /\ \A ids \in updates : w \notin ids
  /\ \A o \in Owners : ready[o][w] = 0
  /\ \A c \in Clients : Busy(c) => thread[c].for # w

\* A widget is put on the home screen and configured for camera k.
AddWidget(w, k) ==
  /\ Fresh(w)
  /\ bound' = bound \cup { w }
  /\ config' = [config EXCEPT ![w] = k]
  /\ enabled' = (enabled \/ bound = { })
  /\ updates' = updates \cup { { w } }
  /\ icon' = [icon EXCEPT ![w] = "start"]
  /\ disturbed' = disturbed \cup { w }
  /\ UNCHANGED << remote, interval, alarm, service, live, process >>

\* onDisabled, of an object whose field service is null, cancels no alarm.
RemoveWidget(w) ==
  /\ w \in bound
  /\ bound' = bound \ { w }
  /\ live' = live \ { w }
  /\ UNCHANGED << remote, interval, config, enabled, updates, alarm, service, icon,
                  process, disturbed >>

\* Every thread goes with the process; the system restarts a service that ran.
ProcessEnds ==
  /\ Remote!Killed
  /\ main' = "idle"
  /\ todo' = { }
  /\ ready' = [o \in Owners |-> [w \in Widgets |-> 0]]
  /\ views' = [o \in Owners |-> "unset"]
  /\ thread' = [c \in Clients |-> Idle]
  /\ disturbed' = disturbed \cup { thread[c].for : c \in { d \in Clients : Busy(d) } }

Sticky == IF service = "running" THEN "killed" ELSE service

KillProcess ==
  /\ ProcessEnds
  /\ service' = Sticky
  /\ UNCHANGED << interval, bound, config, enabled, updates, alarm, screen >>

\* Alarms do not survive, and the widgets are announced anew.
Reboot ==
  /\ ProcessEnds
  /\ service' = "none"
  /\ alarm' = NoAlarm
  /\ enabled' = (bound # { })
  /\ updates' = { bound } \ { { } }
  /\ icon' = [w \in Widgets |-> "start"]
  /\ live' = { }
  /\ UNCHANGED << interval, bound, config >>

-----------------------------------------------------------------------------
(* The main thread                                                         *)

\* bUpdateIcons starts one thread for each widget there is.
RefreshAll(o) ==
  [ready EXCEPT ![o] = [w \in Widgets |-> ready[o][w] + (IF w \in bound THEN 1 ELSE 0)]]

\* Bound: not while threads of an earlier ENABLED broadcast are left.
OnEnabled ==
  /\ main = "idle" /\ enabled
  /\ \A w \in Widgets : ready["receiver"][w] = 0
  /\ \A c \in Clients : thread[c].by # "receiver"
  /\ enabled' = FALSE
  /\ ready' = RefreshAll("receiver")
  /\ UNCHANGED << remote, interval, bound, config, updates, alarm, service, screen,
                  main, todo, views, thread, disturbed >>

OnUpdate(ids) ==
  /\ main = "idle" /\ ~enabled /\ ids \in updates
  /\ updates' = updates \ { ids }
  /\ main' = "onUpdate"
  /\ todo' = ids
  /\ UNCHANGED << remote, interval, bound, config, enabled, alarm, service, screen,
                  ready, views, thread, disturbed >>

\* The loop over the ids goes on.
Done(w) ==
  /\ todo' = todo \ { w }
  /\ main' = IF todo = { w } THEN "idle" ELSE main

\* m.cancel(service) cancels nothing, since service is null.
SetAlarm == IF interval >= 1 THEN interval ELSE alarm

OnUpdateOne(w) ==
  /\ main = "onUpdate" /\ w \in todo
  /\ interval # NoNumber
  /\ alarm' = SetAlarm
  /\ live' = live \cup ({ w } \cap bound)
  /\ Done(w)
  /\ UNCHANGED << remote, interval, bound, config, enabled, updates, service, icon,
                  ready, views, thread, disturbed >>

\* NumberFormatException.
OnUpdateThrows ==
  /\ main = "onUpdate"
  /\ interval = NoNumber
  /\ ProcessEnds
  /\ service' = Sticky
  /\ UNCHANGED << interval, bound, config, enabled, updates, alarm, screen >>

\* The alarm starts the service, which refreshes on creation and on the command.
\* Bound: not while threads of the last alarm wait to be scheduled.
AlarmFires ==
  /\ alarm # NoAlarm /\ main = "idle"
  /\ \A w \in Widgets : ready["service"][w] = 0
  /\ ready' = IF service = "running" THEN ready ELSE RefreshAll("service")
  /\ service' = "running"
  /\ todo' = bound
  /\ main' = IF bound = { } THEN "idle" ELSE "onStartCommand"
  /\ UNCHANGED << remote, interval, bound, config, enabled, updates, alarm, screen,
                  views, thread, disturbed >>

\* Faulty variant: the command does not refresh the icons.
ServiceUpdateSilent(w) ==
  /\ main = "onStartCommand" /\ w \in todo
  /\ live' = live \cup ({ w } \cap bound)
  /\ Done(w)
  /\ UNCHANGED << remote, system, icon, ready, views, thread, disturbed >>

\* bUpdate refreshes all widgets once for each of them.  Bound: MaxReady.
ServiceUpdate(w) ==
  /\ main = "onStartCommand" /\ w \in todo
  /\ \A v \in Widgets : ready["service"][v] < MaxReady
  /\ live' = live \cup ({ w } \cap bound)
  /\ ready' = RefreshAll("service")
  /\ Done(w)
  /\ UNCHANGED << remote, system, icon, views, thread, disturbed >>

\* The system restarts the service without an intent: onCreate refreshes, bUpdate
\* returns.
ServiceRestarts ==
  /\ service = "killed" /\ main = "idle"
  /\ service' = "running"
  /\ ready' = RefreshAll("service")
  /\ UNCHANGED << remote, interval, bound, config, enabled, updates, alarm, screen,
                  main, todo, views, thread, disturbed >>

-----------------------------------------------------------------------------
(* The threads that talk to Motion                                         *)

\* Threads that get into each other's way with a new one of kind o for widget w.
Conflicts(o, w) ==
  { c \in Clients : Busy(c) /\ (thread[c].for = w \/ (o \in Owners /\ thread[c].by = o)) }

\* Thread c begins; what it will show is sound unless something disturbs it.
Begins(c, o, w) ==
  /\ ~Busy(c)
  /\ thread' = [thread EXCEPT ![c] = [by |-> o, for |-> w, at |-> "getStatus"]]
  /\ Remote!Call(c, config[w], "getStatus")
  /\ disturbed' = IF Conflicts(o, w) = { } THEN disturbed \ { w }
                  ELSE disturbed \cup { w } \cup { thread[d].for : d \in Conflicts(o, w) }

Returned(c) == method[c] = "none"

IconOf(r) ==
  CASE r \in { "PAUSED", "Paused" }  -> "pause_pressed"
    [] r \in { "ACTIVE", "Started" } -> "start_pressed"
    [] OTHER -> "pause"

\* updateAppWidget; views that do not set the image leave the one there is.
Shows(w, i) ==
  icon' = IF w \in bound /\ i # "unset" THEN [icon EXCEPT ![w] = i] ELSE icon

\* A refresh thread makes a new views object, for all threads of its owner.
RefreshBegins(c, o, w) ==
  /\ ready[o][w] > 0
  /\ ready' = [ready EXCEPT ![o] = [ready[o] EXCEPT ![w] = ready[o][w] - 1]]
  /\ views' = [views EXCEPT ![o] = "unset"]
  /\ Begins(c, o, w)
  /\ UNCHANGED << system, screen, main, todo >>

RefreshSets(c) ==
  /\ thread[c].by \in Owners /\ thread[c].at = "getStatus" /\ Returned(c)
  /\ Remote!Taken(c)
  /\ views' = [views EXCEPT ![thread[c].by] = IconOf(result[c])]
  /\ thread' = [thread EXCEPT ![c].at = "updateAppWidget"]
  /\ UNCHANGED << system, screen, main, todo, ready, disturbed >>

\* Faulty variant: updateAppWidget for the provider, and so for all its widgets.
RefreshShowsAll(c) ==
  /\ thread[c].by \in Owners /\ thread[c].at = "updateAppWidget"
  /\ icon' = [w \in Widgets |-> IF w \in bound /\ views[thread[c].by] # "unset"
                                THEN views[thread[c].by] ELSE icon[w]]
  /\ thread' = [thread EXCEPT ![c] = Idle]
  /\ views' = [o \in Owners |-> IF \E d \in Clients : thread'[d].by = o THEN views[o] ELSE "unset"]
  /\ UNCHANGED << remote, system, live, main, todo, ready, disturbed >>

\* A field that no thread works with counts as unset.
RefreshShows(c) ==
  /\ thread[c].by \in Owners /\ thread[c].at = "updateAppWidget"
  /\ Shows(thread[c].for, views[thread[c].by])
  /\ thread' = [thread EXCEPT ![c] = Idle]
  /\ views' = [o \in Owners |-> IF \E d \in Clients : thread'[d].by = o THEN views[o] ELSE "unset"]
  /\ UNCHANGED << remote, system, live, main, todo, ready, disturbed >>

\* onReceive of a click starts a thread, which asks for the status first.
ClickBegins(c, kind, w) ==
  /\ main = "idle" /\ w \in bound \cap live
  /\ Begins(c, kind, w)
  /\ UNCHANGED << system, screen, main, todo, ready, views >>

ClickCommands(c) ==
  /\ thread[c].by \in Clicks /\ thread[c].at = "getStatus" /\ Returned(c)
  /\ Remote!Call(c, camera[c], thread[c].by)
  /\ thread' = [thread EXCEPT ![c].at = "command"]
  /\ UNCHANGED << system, screen, main, todo, ready, views, disturbed >>

ClickShows(c) ==
  /\ thread[c].by \in Clicks /\ thread[c].at = "command" /\ Returned(c)
  /\ Shows(thread[c].for, IconOf(result[c]))
  /\ Remote!Taken(c)
  /\ thread' = [thread EXCEPT ![c] = Idle]
  /\ UNCHANGED << system, live, main, todo, ready, views, disturbed >>

\* Whoever changes a camera outdates the icons of its other widgets.
Outdates(own) ==
  disturbed' = disturbed \cup { w \in Widgets \ own :
                                  detection'[config[w]] # detection[config[w]] }

CallGoesOn(c) ==
  /\ Remote!Look(c) \/ Remote!Act(c)
  /\ Outdates({ thread[c].for })
  /\ UNCHANGED << system, screen, process >>

CallReturns(c) ==
  /\ Remote!Return(c)
  /\ UNCHANGED << system, screen, process, disturbed >>

Elsewhere(k) ==
  /\ Remote!Elsewhere(k)
  /\ Outdates({ })
  /\ UNCHANGED << system, screen, process >>

-----------------------------------------------------------------------------

MainThread ==
  \/ OnEnabled \/ OnUpdateThrows \/ AlarmFires \/ ServiceRestarts
  \/ \E ids \in updates : OnUpdate(ids)
  \/ \E w \in Widgets : OnUpdateOne(w) \/ ServiceUpdate(w)

ThreadStep(c) == RefreshSets(c) \/ RefreshShows(c) \/ ClickCommands(c) \/ ClickShows(c)

Scheduled(c) == \E o \in Owners, w \in Widgets : RefreshBegins(c, o, w)

Outside ==
  \/ SaveInterval \/ KillProcess \/ Reboot
  \/ \E w \in Widgets : RemoveWidget(w) \/ \E k \in Cameras : AddWidget(w, k)
  \/ \E c \in Clients, kind \in Clicks, w \in Widgets : ClickBegins(c, kind, w)
  \/ \E k \in Cameras : Elsewhere(k)

Next ==
  \/ Outside \/ MainThread
  \/ \E c \in Clients : ThreadStep(c) \/ Scheduled(c) \/ CallGoesOn(c) \/ CallReturns(c)

Spec == Init /\ [][Next]_widgetVars

\* Threads are scheduled, requests end, and the alarm goes off.
FairSpec ==
  /\ Spec
  /\ WF_widgetVars(MainThread)
  /\ \A c \in Clients :
       /\ WF_widgetVars(ThreadStep(c)) /\ WF_widgetVars(Scheduled(c))
       /\ WF_widgetVars(CallReturns(c))

-----------------------------------------------------------------------------
(* Properties                                                              *)

\* What an icon says of the camera is so, unless the camera has been switched by
\* somebody else, or another thread has got in the way, since the widget's last
\* thread began.
Says(i, k) ==
  /\ i = "pause_pressed" => detection[k] = "PAUSED"
  /\ i = "start_pressed" => detection[k] = "ACTIVE"

IconTruth ==
  /\ TypeOK
  /\ \A w \in Widgets :
       /\ w \in bound \ disturbed
       /\ \A c \in Clients : Busy(c) => thread[c].for # w
       => Says(icon[w], config[w])

\* The inductive invariant behind it: no other thread gets in the way of one whose
\* widget is undisturbed, and what it has been told or has done is what the camera
\* is in.
Alone(c) ==
  \A d \in Clients \ { c } : Busy(d) =>
    /\ thread[d].for # thread[c].for
    /\ thread[c].by \in Owners => thread[d].by # thread[c].by

Knows(c) ==
  LET k == config[thread[c].for]
  IN  /\ thread[c].at = "getStatus" => told[c] \in { "nothing", detection[k] }
      /\ method[c] = "toggleDetection" /\ done[c] =>
           detection[k] = Effect(Command(told[c]), detection[k])
      /\ thread[c].at \in { "getStatus", "command" } /\ Returned(c) =>
           Says(IconOf(result[c]), k)
      /\ thread[c].at = "updateAppWidget" =>
           views[thread[c].by] # "unset" /\ Says(views[thread[c].by], k)

Informed ==
  /\ IconTruth
  /\ \A c \in Clients :
       /\ Returned(c) => told[c] = "nothing" /\ ~done[c]
       /\ Busy(c) => camera[c] = config[thread[c].for]
       /\ Busy(c) /\ thread[c].for \notin disturbed => Alone(c) /\ Knows(c)

\* An interval of 0 disables the update.  The code cancels with the field service
\* of a new object, which is null.
ZeroDisables ==
  [][\A w \in Widgets : interval = 0 /\ OnUpdateOne(w) => alarm' = NoAlarm]_widgetVars

\* What can keep an icon from being right: a camera that is switched or does not
\* answer, clicks, the end of the process, and an alarm that does not wait for
\* the refresh before it.
Disturbance ==
  \/ detection' # detection
  \/ \E c \in Clients : result'[c] = "Failed" /\ result[c] # "Failed"
  \/ \E c \in Clients, kind \in Clicks, w \in Widgets : ClickBegins(c, kind, w)
  \/ KillProcess \/ Reboot \/ OnUpdateThrows
  \/ AlarmFires /\ \E c \in Clients : Busy(c)

\* As long as nothing of that happens the alarm makes the icon of the only widget
\* say what its camera does.
Refreshed ==
  \A w \in Widgets :
    <>[][~Disturbance]_widgetVars /\ <>[](bound = { w } /\ alarm # NoAlarm)
      => <>[](icon[w] = IconOf(detection[config[w]]))

=============================================================================
