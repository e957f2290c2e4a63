-------------------------- MODULE MotionWidgetProofs --------------------------
(***************************************************************************)
(* What an icon may say, for any number of widgets, cameras and threads.   *)
(***************************************************************************)
EXTENDS MotionWidget, TLAPS

-----------------------------------------------------------------------------
(* The calls                                                               *)

LEMMA RemoteTypes ==
  Remote!TypeOK <=> /\ detection \in [Cameras -> Detection]
                    /\ camera \in [Clients -> Cameras]
                    /\ method \in [Clients -> Methods \cup { "none" }]
                    /\ told \in [Clients -> Detection \cup { "nothing" }]
                    /\ done \in [Clients -> BOOLEAN]
                    /\ result \in [Clients -> Results \cup { "none" }]
BY DEF Remote!TypeOK, Remote!Detection, Remote!Methods, Remote!FirstRequest, Remote!Results,
   Detection, Methods, FirstRequest, Results

LEMMA RemoteTypesNext ==
  (Remote!TypeOK <=> /\ detection \in [Cameras -> Detection]
                     /\ camera \in [Clients -> Cameras]
                     /\ method \in [Clients -> Methods \cup { "none" }]
                     /\ told \in [Clients -> Detection \cup { "nothing" }]
                     /\ done \in [Clients -> BOOLEAN]
                     /\ result \in [Clients -> Results \cup { "none" }])'
BY DEF Remote!TypeOK, Remote!Detection, Remote!Methods, Remote!FirstRequest, Remote!Results,
   Detection, Methods, FirstRequest, Results

\* What each step of a call changes.
LEMMA CallFacts ==
  ASSUME Remote!TypeOK, NEW c \in Clients, NEW k \in Cameras, NEW m \in Methods,
         Remote!Call(c, k, m)
  PROVE  /\ Remote!TypeOK'
         /\ method[c] = "none" /\ method'[c] = m /\ camera'[c] = k /\ result'[c] = "none"
         /\ \A d \in Clients : d # c => /\ method'[d] = method[d] /\ camera'[d] = camera[d]
                                        /\ result'[d] = result[d]
         /\ UNCHANGED << detection, told, done >>
BY RemoteTypes DEF Remote!Call, Remote!TypeOK, Remote!Methods, Methods, Remote!FirstRequest,
   FirstRequest

LEMMA LookFacts ==
  ASSUME Remote!TypeOK, NEW c \in Clients, Remote!Look(c)
  PROVE  /\ Remote!TypeOK'
         /\ method[c] \in { "getStatus", "toggleDetection" } /\ ~done[c]
         /\ told'[c] \in { "nothing", detection[camera[c]] }
         /\ \A d \in Clients : d # c => told'[d] = told[d]
         /\ UNCHANGED << detection, camera, method, done, result >>
BY RemoteTypes DEF Remote!Look, Remote!TypeOK

\* A command leaves the camera in the state it commands, and no other camera.
LEMMA ActFacts ==
  ASSUME Remote!TypeOK, NEW c \in Clients, Remote!Act(c)
  PROVE  /\ Remote!TypeOK'
         /\ method[c] \notin { "none", "getStatus" } /\ done'[c]
         /\ method[c] = "toggleDetection" =>
              detection'[camera[c]] = Effect(Command(told[c]), detection[camera[c]])
         /\ \A d \in Clients : d # c => done'[d] = done[d]
         /\ UNCHANGED << camera, method, told, result >>
<1>1. /\ detection' = [detection EXCEPT ![camera[c]] =
                         Remote!Effect(Remote!Asked(c), detection[camera[c]])]
      /\ done' = [done EXCEPT ![c] = TRUE]
      /\ method[c] \notin { "none", "getStatus" }
      /\ UNCHANGED << camera, method, told, result >>
  BY DEF Remote!Act
<1>2. camera[c] \in Cameras /\ detection[camera[c]] \in Detection
  BY RemoteTypes
<1>3. Remote!Effect(Remote!Asked(c), detection[camera[c]]) \in Detection
  BY <1>2 DEF Remote!Effect, Detection
<1>4. method[c] = "toggleDetection" =>
        Remote!Effect(Remote!Asked(c), detection[camera[c]])
          = Effect(Command(told[c]), detection[camera[c]])
  BY DEF Remote!Effect, Effect, Remote!Asked, Remote!Command, Command
<1>5. Remote!TypeOK'
  BY <1>1, <1>2, <1>3, RemoteTypes, RemoteTypesNext
<1>6. detection'[camera[c]] = Remote!Effect(Remote!Asked(c), detection[camera[c]])
  BY <1>1, <1>2, RemoteTypes
<1>7. done'[c] /\ \A d \in Clients : d # c => done'[d] = done[d]
  BY <1>1, RemoteTypes
<1> QED  BY <1>1, <1>4, <1>5, <1>6, <1>7

\* What a call reports: a status it was told, or the command it has carried out.
LEMMA ReturnFacts ==
  ASSUME Remote!TypeOK, NEW c \in Clients, Remote!Return(c)
  PROVE  /\ Remote!TypeOK'
         /\ method[c] # "none" /\ method'[c] = "none" /\ told'[c] = "nothing" /\ ~done'[c]
         /\ method[c] = "getStatus" => result'[c] \in { "Failed", told[c] }
         /\ method[c] = "toggleDetection" =>
              \/ result'[c] = "Failed"
              \/ done[c] /\ Command(told[c]) = "start" /\ result'[c] = "Started"
              \/ done[c] /\ Command(told[c]) = "pause" /\ result'[c] = "Paused"
         /\ method[c] = "snapshot" => result'[c] \in { "Failed", "Taken" }
         /\ \A d \in Clients : d # c =>
              /\ method'[d] = method[d] /\ told'[d] = told[d] /\ done'[d] = done[d]
              /\ result'[d] = result[d]
         /\ UNCHANGED << detection, camera >>
<1>1. PICK s \in Remote!Reports(c) : result' = [result EXCEPT ![c] = s]
  BY DEF Remote!Return
<1>2. /\ method[c] # "none"
      /\ method' = [method EXCEPT ![c] = "none"]
      /\ told' = [told EXCEPT ![c] = "nothing"]
      /\ done' = [done EXCEPT ![c] = FALSE]
      /\ UNCHANGED << detection, camera >>
  BY DEF Remote!Return
<1>3. method[c] = "getStatus" => s \in { "Failed", told[c] } \ { "nothing" }
  BY <1>1 DEF Remote!Reports
<1>4. method[c] = "toggleDetection" =>
        \/ s = "Failed"
        \/ done[c] /\ Command(told[c]) = "start" /\ s = "Started"
        \/ done[c] /\ Command(told[c]) = "pause" /\ s = "Paused"
  BY <1>1 DEF Remote!Reports, Remote!Asked, Remote!Command, Command, Remote!Success
<1>5. method[c] = "snapshot" => s \in { "Failed", "Taken" }
  BY <1>1 DEF Remote!Reports, Remote!Asked, Remote!FirstRequest, Remote!Success
<1>6. s \in Results
  <2>1. method[c] \in Methods /\ told[c] \in Detection \cup { "nothing" }
    BY <1>2, RemoteTypes
  <2>2. method[c] \in { "startDetection", "pauseDetection" } => s \in { "Failed", "Started", "Paused" }
    BY <1>1 DEF Remote!Reports, Remote!Asked, Remote!FirstRequest, Remote!Success
  <2> QED  BY <1>3, <1>4, <1>5, <2>1, <2>2 DEF Results, Methods, FirstRequest
<1>7. Remote!TypeOK'
  BY <1>1, <1>2, <1>6, RemoteTypes, RemoteTypesNext
<1>8. result'[c] = s /\ \A d \in Clients : d # c => result'[d] = result[d]
  BY <1>1, RemoteTypes
<1>9. /\ method'[c] = "none" /\ told'[c] = "nothing" /\ ~done'[c]
      /\ \A d \in Clients : d # c =>
           method'[d] = method[d] /\ told'[d] = told[d] /\ done'[d] = done[d]
  BY <1>2, RemoteTypes
<1> QED  BY <1>2, <1>3, <1>4, <1>5, <1>7, <1>8, <1>9

LEMMA TakenFacts ==
  ASSUME Remote!TypeOK, NEW c \in Clients, Remote!Taken(c)
  PROVE  /\ Remote!TypeOK'
         /\ method[c] = "none"
         /\ \A d \in Clients : d # c => result'[d] = result[d]
         /\ UNCHANGED << detection, camera, method, told, done >>
BY RemoteTypes, RemoteTypesNext DEF Remote!Taken

LEMMA KilledFacts ==
  ASSUME Remote!TypeOK, Remote!Killed
  PROVE  /\ Remote!TypeOK'
         /\ \A c \in Clients : method'[c] = "none" /\ told'[c] = "nothing" /\ ~done'[c]
         /\ UNCHANGED << detection, camera, result >>
BY RemoteTypes, RemoteTypesNext DEF Remote!Killed

LEMMA ElsewhereFacts ==
  ASSUME Remote!TypeOK, NEW k \in Cameras, Remote!Elsewhere(k)
  PROVE  /\ Remote!TypeOK'
         /\ UNCHANGED << camera, method, told, done, result >>
BY RemoteTypes, RemoteTypesNext DEF Remote!Elsewhere, Remote!Detection, Detection

-----------------------------------------------------------------------------
(* Types                                                                   *)

\* What a thread can be doing.
LEMMA ThreadFacts ==
  ASSUME TypeOK, NEW c \in Clients
  PROVE  /\ thread[c] \in Threads
         /\ ~Busy(c) => thread[c] = Idle /\ Doing(c) = "none" /\ method[c] = "none"
         /\ Busy(c) => /\ thread[c].for \in Widgets
                       /\ \/ thread[c].by \in Owners /\ thread[c].at \in { "getStatus", "updateAppWidget" }
                          \/ thread[c].by \in Clicks /\ thread[c].at \in { "getStatus", "command" }
                       /\ config[thread[c].for] \in Cameras
         /\ method[c] \in { Doing(c), "none" }
<1>1. thread[c] \in Threads /\ method[c] \in { Doing(c), "none" } /\ config \in [Widgets -> Cameras]
  BY DEF TypeOK
<1>2. CASE thread[c] = Idle
  BY <1>1, <1>2 DEF Idle, Busy, Doing
<1>3. CASE thread[c] \in [by : Owners, for : Widgets, at : { "getStatus", "updateAppWidget" }]
  BY <1>1, <1>3 DEF Busy, Owners
<1>4. CASE thread[c] \in [by : Clicks, for : Widgets, at : { "getStatus", "command" }]
  BY <1>1, <1>4 DEF Busy, Clicks
<1> QED  BY <1>1, <1>2, <1>3, <1>4 DEF Threads

LEMMA TypeInit == Init => TypeOK
<1> SUFFICES ASSUME Init
             PROVE  TypeOK
  OBVIOUS
<1>1. Remote!TypeOK /\ \A c \in Clients : method[c] = "none"
  BY RemoteTypes DEF Init, Remote!Init, Remote!Detection, Detection
<1>2. thread \in [Clients -> Threads] /\ \A c \in Clients : Doing(c) = "none"
  BY DEF Init, Threads, Idle, Doing
<1> QED  BY <1>1, <1>2 DEF Init, TypeOK, Icons

\* Threads that are started are counted by numbers.
LEMMA RefreshType ==
  ASSUME TypeOK, NEW o \in Owners
  PROVE  RefreshAll(o) \in [Owners -> [Widgets -> Nat]]
<1>1. ready \in [Owners -> [Widgets -> Nat]]
  BY DEF TypeOK
<1>2. \A w \in Widgets : ready[o][w] + (IF w \in bound THEN 1 ELSE 0) \in Nat
  BY <1>1
<1>3. [w \in Widgets |-> ready[o][w] + (IF w \in bound THEN 1 ELSE 0)] \in [Widgets -> Nat]
  BY <1>2
<1> QED  BY <1>1, <1>3 DEF RefreshAll

\* A process that has ended.
LEMMA EndFacts ==
  ASSUME TypeOK, ProcessEnds
  PROVE  /\ Remote!TypeOK' /\ main' = "idle" /\ todo' = { }
         /\ ready' \in [Owners -> [Widgets -> Nat]]
         /\ views' \in [Owners -> Icons \cup { "unset" }]
         /\ thread' \in [Clients -> Threads] /\ \A c \in Clients : ~Busy(c)'
         /\ disturbed \subseteq disturbed' /\ disturbed' \subseteq Widgets
         /\ \A c \in Clients : Busy(c) => thread[c].for \in disturbed'
         /\ \A c \in Clients : /\ method'[c] \in { Doing(c)', "none" }
                               /\ method'[c] = "none" /\ told'[c] = "nothing" /\ ~done'[c]
         /\ UNCHANGED << detection, camera, result >>
<1>1. /\ Remote!TypeOK'
      /\ \A c \in Clients : method'[c] = "none" /\ told'[c] = "nothing" /\ ~done'[c]
      /\ UNCHANGED << detection, camera, result >>
  BY KilledFacts DEF ProcessEnds, TypeOK
<1>2. /\ main' = "idle" /\ todo' = { }
      /\ ready' \in [Owners -> [Widgets -> Nat]]
      /\ views' \in [Owners -> Icons \cup { "unset" }]
  BY DEF ProcessEnds
<1>3. thread' \in [Clients -> Threads] /\ \A c \in Clients : ~Busy(c)'
  BY DEF ProcessEnds, Threads, Idle, Busy
<1>4. disturbed' = disturbed \cup { thread[c].for : c \in { d \in Clients : Busy(d) } }
  BY DEF ProcessEnds
<1>5. disturbed' \subseteq Widgets /\ \A c \in Clients : Busy(c) => thread[c].for \in disturbed'
  BY <1>4, ThreadFacts DEF TypeOK
<1> QED  BY <1>1, <1>2, <1>3, <1>4, <1>5

LEMMA TypeEnds ==
  ASSUME TypeOK, KillProcess \/ Reboot \/ OnUpdateThrows
  PROVE  TypeOK'
<1>1. ProcessEnds
  BY DEF KillProcess, Reboot, OnUpdateThrows
<1>2. /\ interval' \in Intervals \cup { NoNumber }
      /\ bound' \subseteq Widgets
      /\ config' \in [Widgets -> Cameras]
      /\ enabled' \in BOOLEAN
      /\ updates' \subseteq (SUBSET Widgets) \ { { } }
      /\ alarm' \in { n \in Intervals : n > 0 } \cup { NoAlarm }
      /\ service' \in { "none", "running", "killed" }
      /\ icon' \in [Widgets -> Icons]
      /\ live' \subseteq Widgets
  <2>1. CASE KillProcess \/ OnUpdateThrows
    BY <2>1 DEF TypeOK, KillProcess, OnUpdateThrows, Sticky, screen
  <2>2. CASE Reboot
    <3>1. enabled' = (bound # { }) /\ updates' = { bound } \ { { } } /\ bound \subseteq Widgets
      BY <2>2 DEF TypeOK, Reboot
    <3>2. /\ enabled' \in BOOLEAN
          /\ updates' \subseteq (SUBSET Widgets) \ { { } }
      <4>1. (bound # { }) \in BOOLEAN
        OBVIOUS
      <4> QED  BY <3>1, <4>1
    <3>3. icon' \in [Widgets -> Icons] /\ live' \subseteq Widgets
      BY <2>2 DEF Reboot, Icons
    <3> QED  BY <2>2, <3>2, <3>3 DEF TypeOK, Reboot
  <2> QED  BY <2>1, <2>2
<1> QED  BY <1>1, <1>2, EndFacts DEF TypeOK

\* The user, and the steps of the main thread.
LEMMA TypeMain ==
  ASSUME TypeOK,
         \/ SaveInterval \/ OnEnabled \/ AlarmFires \/ ServiceRestarts
         \/ \E w \in Widgets : RemoveWidget(w) \/ OnUpdateOne(w) \/ ServiceUpdate(w)
                               \/ \E k \in Cameras : AddWidget(w, k)
         \/ \E ids \in updates : OnUpdate(ids)
  PROVE  TypeOK'
<1>1. UNCHANGED << remote, views, thread >>
  BY DEF SaveInterval, OnEnabled, AlarmFires, ServiceRestarts, RemoveWidget, OnUpdateOne,
     ServiceUpdate, AddWidget, OnUpdate, process
<1>2. Remote!TypeOK' /\ \A c \in Clients : method'[c] \in { Doing(c)', "none" }
  BY <1>1, RemoteTypes, RemoteTypesNext DEF remote, TypeOK, Doing
<1>3. /\ interval' \in Intervals \cup { NoNumber }
      /\ bound' \subseteq Widgets
      /\ config' \in [Widgets -> Cameras]
      /\ enabled' \in BOOLEAN
      /\ updates' \subseteq (SUBSET Widgets) \ { { } }
      /\ service' \in { "none", "running", "killed" }
      /\ icon' \in [Widgets -> Icons]
      /\ live' \subseteq Widgets
      /\ disturbed' \subseteq Widgets
      /\ main' \in { "idle", "onUpdate", "onStartCommand" } /\ todo' \subseteq Widgets
      /\ (main' = "idle" <=> todo' = { })
  <2> USE DEF TypeOK
  <2>1. CASE SaveInterval \/ OnEnabled \/ ServiceRestarts
    BY <2>1 DEF SaveInterval, OnEnabled, ServiceRestarts, screen, process
  <2>2. CASE AlarmFires
    BY <2>2 DEF AlarmFires, screen
  <2>3. CASE \E w \in Widgets : RemoveWidget(w) \/ OnUpdateOne(w) \/ ServiceUpdate(w)
    BY <2>3 DEF RemoveWidget, OnUpdateOne, ServiceUpdate, Done, system, process
  <2>4. CASE \E w \in Widgets : \E k \in Cameras : AddWidget(w, k)
    <3> PICK w \in Widgets, k \in Cameras : AddWidget(w, k)
      BY <2>4
    <3>1. enabled' = (enabled \/ bound = { }) /\ updates' = updates \cup { { w } }
      BY DEF AddWidget
    <3>2. enabled' \in BOOLEAN
      <4>1. (enabled \/ bound = { }) \in BOOLEAN
        OBVIOUS
      <4> QED  BY <3>1, <4>1
    <3>3. { w } \in (SUBSET Widgets) \ { { } }
      OBVIOUS
    <3>4. updates' \subseteq (SUBSET Widgets) \ { { } }
      BY <3>1, <3>3
    <3>5. config' \in [Widgets -> Cameras] /\ icon' \in [Widgets -> Icons]
      BY DEF AddWidget, Icons
    <3>6. UNCHANGED << main, todo, interval, alarm, service, live >>
      BY DEF AddWidget, process
    <3>7. bound' \subseteq Widgets /\ disturbed' \subseteq Widgets
      BY DEF AddWidget
    <3> QED  BY <3>2, <3>4, <3>5, <3>6, <3>7
  <2>5. CASE \E ids \in updates : OnUpdate(ids)
    <3> PICK ids \in updates : OnUpdate(ids)
      BY <2>5
    <3>1. ids \in (SUBSET Widgets) \ { { } }
      OBVIOUS
    <3>2. updates' = updates \ { ids } /\ main' = "onUpdate" /\ todo' = ids
      BY DEF OnUpdate
    <3>3. UNCHANGED << interval, bound, config, enabled, service, icon, live, disturbed >>
      BY DEF OnUpdate, screen
    <3> QED  BY <3>1, <3>2, <3>3
  <2> QED  BY <2>1, <2>2, <2>3, <2>4, <2>5
<1>4. alarm' \in { n \in Intervals : n > 0 } \cup { NoAlarm }
  <2>1. CASE alarm' = alarm
    BY <2>1 DEF TypeOK
  <2>2. CASE \E w \in Widgets : OnUpdateOne(w)
    <3>1. alarm' = IF interval >= 1 THEN interval ELSE alarm
      BY <2>2 DEF OnUpdateOne, SetAlarm
    <3>2. interval \in Intervals /\ interval \in Nat
      BY <2>2, WidgetAssumption DEF OnUpdateOne, TypeOK
    <3> QED  BY <3>1, <3>2 DEF TypeOK
  <2> QED  BY <2>1, <2>2 DEF SaveInterval, OnEnabled, AlarmFires, ServiceRestarts, RemoveWidget,
              ServiceUpdate, AddWidget, OnUpdate, system
<1>5. ready' \in [Owners -> [Widgets -> Nat]]
  <2>1. "receiver" \in Owners /\ "service" \in Owners
    BY DEF Owners
  <2>2. \/ ready' = ready \/ ready' = RefreshAll("receiver") \/ ready' = RefreshAll("service")
    BY DEF SaveInterval, OnEnabled, AlarmFires, ServiceRestarts, RemoveWidget, OnUpdateOne,
     ServiceUpdate, AddWidget, OnUpdate, process
  <2> QED  BY <2>1, <2>2, RefreshType DEF TypeOK
<1>6. views' \in [Owners -> Icons \cup { "unset" }] /\ thread' \in [Clients -> Threads]
  BY <1>1 DEF TypeOK
<1> QED  BY <1>2, <1>3, <1>4, <1>5, <1>6 DEF TypeOK

\* A thread that begins, and the threads it may get in the way of.
LEMMA BeginsFacts ==
  ASSUME TypeOK, NEW c \in Clients, NEW o \in Owners \cup Clicks, NEW w \in Widgets,
         Begins(c, o, w)
  PROVE  /\ Remote!TypeOK' /\ thread' \in [Clients -> Threads] /\ disturbed' \subseteq Widgets
         /\ \A d \in Clients : method'[d] \in { Doing(d)', "none" }
         /\ ~Busy(c) /\ method[c] = "none" /\ method'[c] = "getStatus"
         /\ camera'[c] = config[w] /\ result'[c] = "none"
         /\ thread'[c] = [by |-> o, for |-> w, at |-> "getStatus"]
         /\ \A d \in Clients : d # c =>
              /\ thread'[d] = thread[d] /\ method'[d] = method[d] /\ camera'[d] = camera[d]
              /\ result'[d] = result[d]
         /\ UNCHANGED << detection, told, done >>
<1>1. ~Busy(c) /\ Remote!Call(c, config[w], "getStatus")
  BY DEF Begins
<1>2. config[w] \in Cameras /\ "getStatus" \in Methods
  BY DEF TypeOK, Methods, FirstRequest
<1>3. /\ Remote!TypeOK'
      /\ method[c] = "none" /\ method'[c] = "getStatus" /\ camera'[c] = config[w]
      /\ result'[c] = "none"
      /\ \A d \in Clients : d # c => /\ method'[d] = method[d] /\ camera'[d] = camera[d]
                                     /\ result'[d] = result[d]
      /\ UNCHANGED << detection, told, done >>
  BY <1>1, <1>2, CallFacts DEF TypeOK
<1>4. [by |-> o, for |-> w, at |-> "getStatus"] \in Threads
  BY DEF Threads
<1>5. thread' = [thread EXCEPT ![c] = [by |-> o, for |-> w, at |-> "getStatus"]]
  BY DEF Begins
<1>6. /\ thread' \in [Clients -> Threads]
      /\ thread'[c] = [by |-> o, for |-> w, at |-> "getStatus"]
      /\ \A d \in Clients : d # c => thread'[d] = thread[d]
  BY <1>4, <1>5 DEF TypeOK
<1>7. disturbed' \subseteq Widgets
  <2>1. \A d \in Conflicts(o, w) : thread[d].for \in Widgets
    BY ThreadFacts DEF Conflicts
  <2>2. disturbed' = IF Conflicts(o, w) = { } THEN disturbed \ { w }
                     ELSE disturbed \cup { w } \cup { thread[d].for : d \in Conflicts(o, w) }
    BY DEF Begins
  <2> QED  BY <2>1, <2>2 DEF TypeOK
<1>8. \A d \in Clients : method'[d] \in { Doing(d)', "none" }
  <2>1. method'[c] = Doing(c)'
    BY <1>3, <1>6 DEF Doing
  <2>2. \A d \in Clients : d # c => Doing(d)' = Doing(d)
    BY <1>6 DEF Doing
  <2> QED  BY <1>3, <2>1, <2>2 DEF TypeOK
<1> QED  BY <1>1, <1>3, <1>6, <1>7, <1>8

LEMMA TypeRefreshBegins ==
  ASSUME TypeOK, NEW c \in Clients, NEW o \in Owners, NEW w \in Widgets, RefreshBegins(c, o, w)
  PROVE  TypeOK'
<1>1. /\ Remote!TypeOK' /\ thread' \in [Clients -> Threads] /\ disturbed' \subseteq Widgets
      /\ \A d \in Clients : method'[d] \in { Doing(d)', "none" }
  BY BeginsFacts DEF RefreshBegins
<1>2. ready' \in [Owners -> [Widgets -> Nat]]
  <2>1. ready \in [Owners -> [Widgets -> Nat]]
    BY DEF TypeOK
  <2>2. ready[o][w] \in Nat /\ ready[o][w] > 0 /\ ready[o] \in [Widgets -> Nat]
    BY <2>1 DEF RefreshBegins
  <2>3. [ready[o] EXCEPT ![w] = ready[o][w] - 1] \in [Widgets -> Nat]
    BY <2>2
  <2>4. ready' = [ready EXCEPT ![o] = [ready[o] EXCEPT ![w] = ready[o][w] - 1]]
    BY DEF RefreshBegins
  <2> QED  BY <2>1, <2>3, <2>4
<1>3. views' \in [Owners -> Icons \cup { "unset" }]
  BY DEF TypeOK, RefreshBegins
<1> QED  BY <1>1, <1>2, <1>3 DEF TypeOK, RefreshBegins, system, screen

LEMMA TypeClickBegins ==
  ASSUME TypeOK, NEW c \in Clients, NEW o \in Clicks, NEW w \in Widgets, ClickBegins(c, o, w)
  PROVE  TypeOK'
<1>1. /\ Remote!TypeOK' /\ thread' \in [Clients -> Threads] /\ disturbed' \subseteq Widgets
      /\ \A d \in Clients : method'[d] \in { Doing(d)', "none" }
  BY BeginsFacts DEF ClickBegins
<1> QED  BY <1>1 DEF TypeOK, ClickBegins, system, screen

\* What a thread puts on a widget is an icon.
LEMMA ShowsFacts ==
  ASSUME TypeOK, NEW w \in Widgets, NEW i \in Icons \cup { "unset" }, Shows(w, i)
  PROVE  /\ icon' \in [Widgets -> Icons]
         /\ \A v \in Widgets : v # w => icon'[v] = icon[v]
         /\ icon'[w] = IF w \in bound /\ i # "unset" THEN i ELSE icon[w]
BY DEF TypeOK, Shows

LEMMA IconType == \A r : IconOf(r) \in Icons
BY DEF IconOf, Icons

\* A thread that goes on to its next call, or ends.
LEMMA RefreshSetsFacts ==
  ASSUME TypeOK, NEW c \in Clients, RefreshSets(c)
  PROVE  /\ TypeOK'
         /\ Returned(c) /\ Busy(c) /\ thread[c].by \in Owners /\ thread[c].at = "getStatus"
         /\ thread'[c] = [by |-> thread[c].by, for |-> thread[c].for, at |-> "updateAppWidget"]
         /\ \A d \in Clients : d # c => thread'[d] = thread[d] /\ result'[d] = result[d]
         /\ views'[thread[c].by] = IconOf(result[c])
         /\ \A o \in Owners : o # thread[c].by => views'[o] = views[o]
         /\ UNCHANGED << detection, camera, method, told, done, icon, bound, config, disturbed >>
<1>1. /\ thread[c].by \in Owners /\ thread[c].at = "getStatus" /\ Returned(c) /\ Busy(c)
      /\ Remote!Taken(c)
      /\ views' = [views EXCEPT ![thread[c].by] = IconOf(result[c])]
      /\ thread' = [thread EXCEPT ![c].at = "updateAppWidget"]
      /\ UNCHANGED << system, screen, main, todo, ready, disturbed >>
  BY DEF RefreshSets, Busy, Owners
<1>2. /\ Remote!TypeOK'
      /\ \A d \in Clients : d # c => result'[d] = result[d]
      /\ UNCHANGED << detection, camera, method, told, done >>
  BY <1>1, TakenFacts DEF TypeOK
<1>3. thread[c] \in [by : Owners, for : Widgets, at : { "getStatus", "updateAppWidget" }]
  BY <1>1, ThreadFacts DEF Threads, Idle, Owners, Clicks
<1>4. /\ thread'[c] = [by |-> thread[c].by, for |-> thread[c].for, at |-> "updateAppWidget"]
      /\ \A d \in Clients : d # c => thread'[d] = thread[d]
      /\ thread' \in [Clients -> Threads]
  BY <1>1, <1>3 DEF TypeOK, Threads
<1>5. /\ views'[thread[c].by] = IconOf(result[c])
      /\ \A o \in Owners : o # thread[c].by => views'[o] = views[o]
      /\ views' \in [Owners -> Icons \cup { "unset" }]
  BY <1>1, IconType DEF TypeOK
<1>6. \A d \in Clients : method'[d] \in { Doing(d)', "none" }
  <2>1. method'[c] = "none"
    BY <1>1, <1>2 DEF Returned
  <2> QED  BY <1>2, <1>4, <2>1 DEF TypeOK, Doing
<1>7. TypeOK'
  BY <1>1, <1>2, <1>4, <1>5, <1>6 DEF TypeOK, system, screen
<1> QED  BY <1>1, <1>2, <1>4, <1>5, <1>7 DEF system, screen

LEMMA RefreshShowsFacts ==
  ASSUME TypeOK, NEW c \in Clients, RefreshShows(c)
  PROVE  /\ TypeOK'
         /\ Busy(c) /\ thread[c].by \in Owners /\ thread[c].at = "updateAppWidget"
         /\ thread[c].for \in Widgets
         /\ Shows(thread[c].for, views[thread[c].by])
         /\ views[thread[c].by] \in Icons \cup { "unset" }
         /\ thread'[c] = Idle /\ \A d \in Clients : d # c => thread'[d] = thread[d]
         /\ \A d \in Clients : thread'[d].by \in Owners =>
              views'[thread'[d].by] = views[thread'[d].by]
         /\ UNCHANGED << detection, camera, method, told, done, result, bound, config, disturbed >>
<1>1. /\ thread[c].by \in Owners /\ thread[c].at = "updateAppWidget" /\ Busy(c)
      /\ Shows(thread[c].for, views[thread[c].by])
      /\ thread' = [thread EXCEPT ![c] = Idle]
      /\ views' = [o \in Owners |-> IF \E d \in Clients : thread'[d].by = o THEN views[o] ELSE "unset"]
      /\ UNCHANGED << remote, system, live, main, todo, ready, disturbed >>
  BY DEF RefreshShows, Busy, Owners
<1>2. Remote!TypeOK' /\ UNCHANGED << detection, camera, method, told, done, result >>
  BY <1>1, RemoteTypes, RemoteTypesNext DEF TypeOK, remote
<1>3. /\ thread'[c] = Idle /\ \A d \in Clients : d # c => thread'[d] = thread[d]
      /\ thread' \in [Clients -> Threads]
  BY <1>1 DEF TypeOK, Threads
<1>4. /\ views[thread[c].by] \in Icons \cup { "unset" } /\ thread[c].for \in Widgets
      /\ views' \in [Owners -> Icons \cup { "unset" }]
      /\ \A d \in Clients : thread'[d].by \in Owners => views'[thread'[d].by] = views[thread'[d].by]
  BY <1>1, ThreadFacts DEF TypeOK
<1>5. icon' \in [Widgets -> Icons]
  BY <1>1, <1>4, ShowsFacts
<1>6. \A d \in Clients : method'[d] \in { Doing(d)', "none" }
  <2>1. method'[c] = "none"
    BY <1>1, <1>2, ThreadFacts DEF Doing
  <2> QED  BY <1>2, <1>3, <2>1 DEF TypeOK, Doing
<1>7. TypeOK'
  BY <1>1, <1>2, <1>3, <1>4, <1>5, <1>6 DEF TypeOK, system
<1> QED  BY <1>1, <1>2, <1>3, <1>4, <1>7 DEF system

LEMMA ClickCommandsFacts ==
  ASSUME TypeOK, NEW c \in Clients, ClickCommands(c)
  PROVE  /\ TypeOK'
         /\ Busy(c) /\ Returned(c)
         /\ thread'[c] = [by |-> thread[c].by, for |-> thread[c].for, at |-> "command"]
         /\ camera'[c] = camera[c] /\ method'[c] # "none" /\ result'[c] = "none"
         /\ \A d \in Clients : d # c =>
              /\ thread'[d] = thread[d] /\ method'[d] = method[d] /\ camera'[d] = camera[d]
              /\ result'[d] = result[d]
         /\ UNCHANGED << detection, told, done, icon, bound, config, views, disturbed >>
<1>1. /\ thread[c].by \in Clicks /\ thread[c].at = "getStatus" /\ Returned(c) /\ Busy(c)
      /\ Remote!Call(c, camera[c], thread[c].by)
      /\ thread' = [thread EXCEPT ![c].at = "command"]
      /\ UNCHANGED << system, screen, main, todo, ready, views, disturbed >>
  BY DEF ClickCommands, Busy, Clicks
<1>2. camera[c] \in Cameras /\ thread[c].by \in Methods
  BY <1>1, RemoteTypes DEF TypeOK, Clicks, Methods, FirstRequest
<1>3. /\ Remote!TypeOK'
      /\ camera'[c] = camera[c] /\ method'[c] = thread[c].by /\ result'[c] = "none"
      /\ \A d \in Clients : d # c => /\ method'[d] = method[d] /\ camera'[d] = camera[d]
                                     /\ result'[d] = result[d]
      /\ UNCHANGED << detection, told, done >>
  BY <1>1, <1>2, CallFacts DEF TypeOK
<1>4. thread[c] \in [by : Clicks, for : Widgets, at : { "getStatus", "command" }]
  BY <1>1, ThreadFacts DEF Threads, Idle, Owners, Clicks
<1>5. /\ thread'[c] = [by |-> thread[c].by, for |-> thread[c].for, at |-> "command"]
      /\ \A d \in Clients : d # c => thread'[d] = thread[d]
      /\ thread' \in [Clients -> Threads]
  BY <1>1, <1>4 DEF TypeOK, Threads
<1>6. \A d \in Clients : method'[d] \in { Doing(d)', "none" }
  <2>1. method'[c] = Doing(c)'
    BY <1>3, <1>5 DEF Doing
  <2> QED  BY <1>3, <1>5, <2>1 DEF TypeOK, Doing
<1>7. TypeOK'
  BY <1>1, <1>3, <1>5, <1>6 DEF TypeOK, system, screen
<1>8. method'[c] # "none"
  BY <1>1, <1>3 DEF Clicks
<1> QED  BY <1>1, <1>3, <1>5, <1>7, <1>8 DEF system, screen

LEMMA ClickShowsFacts ==
  ASSUME TypeOK, NEW c \in Clients, ClickShows(c)
  PROVE  /\ TypeOK'
         /\ Busy(c) /\ Returned(c) /\ thread[c].at = "command"
         /\ thread[c].for \in Widgets
         /\ Shows(thread[c].for, IconOf(result[c]))
         /\ thread'[c] = Idle
         /\ \A d \in Clients : d # c => thread'[d] = thread[d] /\ result'[d] = result[d]
         /\ UNCHANGED << detection, camera, method, told, done, bound, config, views, disturbed >>
<1>1. /\ thread[c].by \in Clicks /\ thread[c].at = "command" /\ Returned(c) /\ Busy(c)
      /\ Shows(thread[c].for, IconOf(result[c]))
      /\ Remote!Taken(c)
      /\ thread' = [thread EXCEPT ![c] = Idle]
      /\ UNCHANGED << system, live, main, todo, ready, views, disturbed >>
  BY DEF ClickShows, Busy, Clicks
<1>2. /\ Remote!TypeOK'
      /\ \A d \in Clients : d # c => result'[d] = result[d]
      /\ UNCHANGED << detection, camera, method, told, done >>
  BY <1>1, TakenFacts DEF TypeOK
<1>3. /\ thread'[c] = Idle /\ \A d \in Clients : d # c => thread'[d] = thread[d]
      /\ thread' \in [Clients -> Threads]
  BY <1>1 DEF TypeOK, Threads
<1>4. thread[c].for \in Widgets /\ IconOf(result[c]) \in Icons
  BY <1>1, ThreadFacts, IconType
<1>5. icon' \in [Widgets -> Icons]
  BY <1>1, <1>4, ShowsFacts
<1>6. \A d \in Clients : method'[d] \in { Doing(d)', "none" }
  <2>1. method'[c] = "none"
    BY <1>1, <1>2 DEF Returned
  <2> QED  BY <1>2, <1>3, <2>1 DEF TypeOK, Doing
<1>7. TypeOK'
  BY <1>1, <1>2, <1>3, <1>5, <1>6 DEF TypeOK, system
<1> QED  BY <1>1, <1>2, <1>3, <1>4, <1>7 DEF system

\* A call, or another client, that changes cameras.
LEMMA OutdatesFacts ==
  ASSUME TypeOK, NEW own, Outdates(own)
  PROVE  /\ disturbed' \subseteq Widgets /\ disturbed \subseteq disturbed'
         /\ \A w \in Widgets : w \notin disturbed' /\ w \notin own =>
              detection'[config[w]] = detection[config[w]]
BY DEF TypeOK, Outdates

LEMMA TypeCalls ==
  ASSUME TypeOK,
         \/ \E c \in Clients : CallGoesOn(c) \/ CallReturns(c)
         \/ \E k \in Cameras : Elsewhere(k)
  PROVE  TypeOK'
<1>1. UNCHANGED << system, screen, process >>
  BY DEF CallGoesOn, CallReturns, Elsewhere
<1>2. disturbed' \subseteq Widgets
  BY OutdatesFacts DEF CallGoesOn, CallReturns, Elsewhere, TypeOK
<1>3. Remote!TypeOK' /\ \A d \in Clients : method'[d] \in { method[d], "none" }
  <2>1. CASE \E c \in Clients : Remote!Look(c) \/ Remote!Act(c)
    BY <2>1, LookFacts, ActFacts DEF TypeOK
  <2>2. CASE \E c \in Clients : Remote!Return(c)
    BY <2>2, ReturnFacts DEF TypeOK
  <2>3. CASE \E k \in Cameras : Remote!Elsewhere(k)
    BY <2>3, ElsewhereFacts DEF TypeOK
  <2> QED  BY <2>1, <2>2, <2>3 DEF CallGoesOn, CallReturns, Elsewhere
<1>4. \A d \in Clients : method'[d] \in { Doing(d)', "none" }
  BY <1>1, <1>3 DEF TypeOK, Doing, process
<1> QED  BY <1>1, <1>2, <1>3, <1>4 DEF TypeOK, system, screen, process

LEMMA TypeStutter ==
  ASSUME TypeOK, UNCHANGED widgetVars
  PROVE  TypeOK'
<1>1. Remote!TypeOK' /\ \A c \in Clients : method'[c] \in { Doing(c)', "none" }
  BY RemoteTypes, RemoteTypesNext DEF widgetVars, remote, process, TypeOK, Doing
<1> QED  BY <1>1 DEF TypeOK, widgetVars, system, screen, process

LEMMA TypeNext == TypeOK /\ [Next]_widgetVars => TypeOK'
<1> SUFFICES ASSUME TypeOK, [Next]_widgetVars
             PROVE  TypeOK'
  OBVIOUS
<1>1. CASE Outside
  BY <1>1, TypeMain, TypeEnds, TypeClickBegins, TypeCalls DEF Outside
<1>2. CASE MainThread
  BY <1>2, TypeMain, TypeEnds DEF MainThread
<1>3. CASE \E c \in Clients : ThreadStep(c) \/ Scheduled(c)
  BY <1>3, RefreshSetsFacts, RefreshShowsFacts, ClickCommandsFacts, ClickShowsFacts,
     TypeRefreshBegins DEF ThreadStep, Scheduled
<1>4. CASE \E c \in Clients : CallGoesOn(c) \/ CallReturns(c)
  BY <1>4, TypeCalls
<1>5. CASE UNCHANGED widgetVars
  BY <1>5, TypeStutter
<1> QED  BY <1>1, <1>2, <1>3, <1>4, <1>5 DEF Next

\* Each variable stays within what the code can store in it; the main thread is in a
\* loop exactly as long as widgets are left, and a thread is in the call its code is at.
THEOREM TypeCorrect == Spec => []TypeOK
<1>1. Init => TypeOK
  BY TypeInit
<1>2. TypeOK /\ [Next]_widgetVars => TypeOK'
  BY TypeNext
<1> QED  BY <1>1, <1>2, PTL DEF Spec

-----------------------------------------------------------------------------
(* What the threads know                                                   *)

\* What a thread knows stays right as long as nobody touches what it rests on.
LEMMA KnowsKept ==
  ASSUME NEW c \in Clients, Knows(c),
         thread'[c] = thread[c], method'[c] = method[c], told'[c] = told[c],
         done'[c] = done[c], result'[c] = result[c],
         config'[thread[c].for] = config[thread[c].for],
         detection'[config[thread[c].for]] = detection[config[thread[c].for]],
         thread[c].at = "updateAppWidget" => views'[thread[c].by] = views[thread[c].by]
  PROVE  Knows(c)'
BY DEF Knows, Says, Returned

LEMMA AloneKept ==
  ASSUME NEW c \in Clients, Alone(c),
         thread'[c].for = thread[c].for, thread'[c].by = thread[c].by,
         \A d \in Clients \ { c } : Busy(d)' =>
           Busy(d) /\ thread'[d].for = thread[d].for /\ thread'[d].by = thread[d].by
  PROVE  Alone(c)'
BY DEF Alone

\* Only a refresh thread is at updateAppWidget.
LEMMA ShowerFacts ==
  ASSUME TypeOK, NEW c \in Clients, thread[c].at = "updateAppWidget"
  PROVE  Busy(c) /\ thread[c].by \in Owners
BY ThreadFacts DEF Idle

\* Steps that touch neither threads, calls nor icons.
LEMMA InformedQuiet ==
  ASSUME Informed, TypeOK', bound' \subseteq bound,
         UNCHANGED << remote, thread, views, config, icon, disturbed >>
  PROVE  Informed'
<1>1. UNCHANGED << detection, camera, method, told, done, result >>
  BY DEF remote
<1>2. IconTruth'
  <2> SUFFICES ASSUME NEW w \in Widgets, w \in bound' \ disturbed',
                      \A c \in Clients : Busy(c)' => thread'[c].for # w
               PROVE  Says(icon[w], config[w])'
    BY DEF IconTruth
  <2>1. \A c \in Clients : Busy(c) => thread[c].for # w
    BY DEF Busy
  <2>2. Says(icon[w], config[w])
    BY <2>1 DEF Informed, IconTruth
  <2> QED  BY <1>1, <2>2 DEF Says
<1>3. ASSUME NEW c \in Clients
      PROVE  /\ Returned(c)' => told'[c] = "nothing" /\ ~done'[c]
             /\ Busy(c)' => camera'[c] = config'[thread'[c].for]
  BY <1>1 DEF Informed, Returned, Busy
<1>4. ASSUME NEW c \in Clients, Busy(c)', thread'[c].for \notin disturbed'
      PROVE  Alone(c)' /\ Knows(c)'
  <2>1. Alone(c) /\ Knows(c)
    BY <1>4 DEF Informed, Busy
  <2>2. Alone(c)'
    BY <2>1, AloneKept DEF Busy
  <2>3. Knows(c)'
    BY <1>1, <2>1, KnowsKept
  <2> QED  BY <2>2, <2>3
<1> QED  BY <1>2, <1>3, <1>4 DEF Informed

LEMMA InformedEnds ==
  ASSUME Informed, TypeOK', KillProcess \/ Reboot \/ OnUpdateThrows
  PROVE  Informed'
<1>1. ProcessEnds /\ TypeOK
  BY DEF KillProcess, Reboot, OnUpdateThrows, Informed, IconTruth
<1>2. /\ \A c \in Clients : ~Busy(c)' /\ told'[c] = "nothing" /\ ~done'[c]
      /\ \A c \in Clients : Busy(c) => thread[c].for \in disturbed'
      /\ disturbed \subseteq disturbed'
      /\ detection' = detection
  BY <1>1, EndFacts
<1>3. /\ UNCHANGED << bound, config >>
      /\ icon' = icon \/ icon' = [w \in Widgets |-> "start"]
  BY DEF KillProcess, Reboot, OnUpdateThrows, screen
<1>4. IconTruth'
  <2> SUFFICES ASSUME NEW w \in Widgets, w \in bound' \ disturbed'
               PROVE  Says(icon[w], config[w])'
    BY DEF IconTruth
  <2>1. Says(icon[w], config[w])
    BY <1>2, <1>3 DEF Informed, IconTruth
  <2>2. icon'[w] = icon[w] \/ icon'[w] = "start"
    BY <1>3
  <2> QED  BY <1>2, <1>3, <2>1, <2>2 DEF Says
<1> QED  BY <1>2, <1>4 DEF Informed

\* A widget that is added is nobody's, and its icon is the layout's.
LEMMA InformedAdd ==
  ASSUME Informed, TypeOK', NEW w \in Widgets, NEW k \in Cameras, AddWidget(w, k)
  PROVE  Informed'
<1>1. /\ UNCHANGED << remote, thread, views >>
      /\ bound' = bound \cup { w }
      /\ disturbed' = disturbed \cup { w }
      /\ \A c \in Clients : Busy(c) => thread[c].for # w
  BY DEF AddWidget, Fresh, process
<1>2. UNCHANGED << detection, camera, method, told, done, result >>
  BY <1>1 DEF remote
<1>3. \A v \in Widgets : v # w => config'[v] = config[v] /\ icon'[v] = icon[v]
  BY DEF AddWidget, Informed, IconTruth, TypeOK
<1>4. IconTruth'
  <2> SUFFICES ASSUME NEW v \in Widgets, v \in bound' \ disturbed',
                      \A c \in Clients : Busy(c)' => thread'[c].for # v
               PROVE  Says(icon[v], config[v])'
    BY DEF IconTruth
  <2>1. v # w /\ v \in bound \ disturbed /\ \A c \in Clients : Busy(c) => thread[c].for # v
    BY <1>1 DEF Busy
  <2>2. Says(icon[v], config[v])
    BY <2>1 DEF Informed, IconTruth
  <2> QED  BY <1>2, <1>3, <2>1, <2>2 DEF Says
<1>5. ASSUME NEW c \in Clients, Busy(c)'
      PROVE  Busy(c) /\ config'[thread[c].for] = config[thread[c].for] /\ thread[c].for # w
  <2>1. Busy(c) /\ thread[c].for # w
    BY <1>1, <1>5 DEF Busy
  <2>2. thread[c].for \in Widgets
    BY <2>1, ThreadFacts DEF Informed, IconTruth
  <2> QED  BY <1>3, <2>1, <2>2
<1>6. ASSUME NEW c \in Clients
      PROVE  /\ Returned(c)' => told'[c] = "nothing" /\ ~done'[c]
             /\ Busy(c)' => camera'[c] = config'[thread'[c].for]
  BY <1>1, <1>2, <1>5 DEF Informed, Returned
<1>7. ASSUME NEW c \in Clients, Busy(c)', thread'[c].for \notin disturbed'
      PROVE  Alone(c)' /\ Knows(c)'
  <2>1. Alone(c) /\ Knows(c)
    BY <1>1, <1>5, <1>7 DEF Informed
  <2>2. Alone(c)'
    BY <1>1, <2>1, AloneKept DEF Busy
  <2>3. Knows(c)'
    BY <1>1, <1>2, <1>5, <1>7, <2>1, KnowsKept
  <2> QED  BY <2>2, <2>3
<1> QED  BY <1>4, <1>6, <1>7 DEF Informed

\* A thread that begins knows nothing yet; those that are still undisturbed are none
\* that it gets in the way of.
LEMMA InformedBegins ==
  ASSUME Informed, TypeOK', NEW c \in Clients, NEW o \in Owners \cup Clicks, NEW w \in Widgets,
         Begins(c, o, w), UNCHANGED << bound, config, icon >>,
         \A p \in Owners : p # o => views'[p] = views[p]
  PROVE  Informed'
<1>1. TypeOK
  BY DEF Informed, IconTruth
<1>2. /\ ~Busy(c) /\ method[c] = "none" /\ method'[c] = "getStatus"
      /\ camera'[c] = config[w] /\ result'[c] = "none"
      /\ thread'[c] = [by |-> o, for |-> w, at |-> "getStatus"]
      /\ \A d \in Clients : d # c =>
           /\ thread'[d] = thread[d] /\ method'[d] = method[d] /\ camera'[d] = camera[d]
           /\ result'[d] = result[d]
      /\ UNCHANGED << detection, told, done >>
  BY <1>1, BeginsFacts
<1>3. disturbed' = IF Conflicts(o, w) = { } THEN disturbed \ { w }
                   ELSE disturbed \cup { w } \cup { thread[d].for : d \in Conflicts(o, w) }
  BY DEF Begins
<1>4. Busy(c)' /\ thread'[c].for = w /\ thread'[c].by = o
  BY <1>2 DEF Busy, Owners, Clicks
<1>5. \A d \in Clients : d # c => (Busy(d)' <=> Busy(d))
  BY <1>2 DEF Busy
<1>6. IconTruth'
  <2> SUFFICES ASSUME NEW v \in Widgets, v \in bound' \ disturbed',
                      \A d \in Clients : Busy(d)' => thread'[d].for # v
               PROVE  Says(icon[v], config[v])'
    BY DEF IconTruth
  <2>1. v # w
    BY <1>4
  <2>2. v \in bound \ disturbed
    BY <1>3, <2>1
  <2>3. \A d \in Clients : Busy(d) => thread[d].for # v
    BY <1>2, <1>5
  <2>4. Says(icon[v], config[v])
    BY <2>2, <2>3 DEF Informed, IconTruth
  <2> QED  BY <1>2, <2>4 DEF Says
<1>7. ASSUME NEW d \in Clients
      PROVE  /\ Returned(d)' => told'[d] = "nothing" /\ ~done'[d]
             /\ Busy(d)' => camera'[d] = config'[thread'[d].for]
  <2>1. CASE d = c
    BY <1>2, <2>1 DEF Returned
  <2>2. CASE d # c
    BY <1>2, <1>5, <2>2 DEF Returned, Informed
  <2> QED  BY <2>1, <2>2
<1>8. ASSUME NEW d \in Clients, Busy(d)', thread'[d].for \notin disturbed'
      PROVE  Alone(d)' /\ Knows(d)'
  <2>1. CASE d = c
    <3>1. Conflicts(o, w) = { }
      BY <1>3, <1>4, <1>8, <2>1
    <3>2. Alone(d)'
      <4> SUFFICES ASSUME NEW e \in Clients \ { c }, Busy(e)'
                   PROVE  thread'[e].for # w /\ (o \in Owners => thread'[e].by # o)
        BY <1>4, <2>1 DEF Alone
      <4>1. Busy(e) /\ thread'[e] = thread[e]
        BY <1>2, <1>5
      <4> QED  BY <3>1, <4>1 DEF Conflicts
    <3>3. told[c] = "nothing" /\ ~done[c]
      BY <1>2 DEF Informed, Returned
    <3>4. Knows(d)'
      BY <1>2, <2>1, <3>3 DEF Knows, Returned
    <3> QED  BY <3>2, <3>4
  <2>2. CASE d # c
    <3>1. Busy(d) /\ thread'[d] = thread[d]
      BY <1>2, <1>5, <1>8, <2>2
    <3>2. d \notin Conflicts(o, w) /\ thread[d].for \notin disturbed
      <4>1. CASE Conflicts(o, w) = { }
        <5>1. thread[d].for # w
          BY <3>1, <4>1 DEF Conflicts
        <5> QED  BY <1>3, <1>8, <3>1, <4>1, <5>1
      <4>2. CASE Conflicts(o, w) # { }
        BY <1>3, <1>8, <3>1, <4>2
      <4> QED  BY <4>1, <4>2
    <3>3. Alone(d) /\ Knows(d)
      BY <3>1, <3>2 DEF Informed
    <3>4. thread[d].for # w /\ (o \in Owners => thread[d].by # o)
      BY <3>1, <3>2 DEF Conflicts
    <3>5. Alone(d)'
      <4> SUFFICES ASSUME NEW e \in Clients \ { d }, Busy(e)'
                   PROVE  /\ thread'[e].for # thread[d].for
                          /\ thread[d].by \in Owners => thread'[e].by # thread[d].by
        BY <3>1 DEF Alone
      <4>1. CASE e = c
        BY <1>4, <3>4, <4>1
      <4>2. CASE e # c
        BY <1>2, <1>5, <3>3, <4>2 DEF Alone
      <4> QED  BY <4>1, <4>2
    <3>6. thread[d].at = "updateAppWidget" => views'[thread[d].by] = views[thread[d].by]
      BY <1>1, <3>4, ShowerFacts
    <3>7. Knows(d)'
      BY <1>2, <2>2, <3>1, <3>3, <3>6, KnowsKept
    <3> QED  BY <3>5, <3>7
  <2> QED  BY <2>1, <2>2
<1> QED  BY <1>6, <1>7, <1>8 DEF Informed

\* The icon a refresh thread sets on the views object is what it has been told.
LEMMA InformedSets ==
  ASSUME Informed, NEW c \in Clients, RefreshSets(c)
  PROVE  Informed'
<1>1. TypeOK
  BY DEF Informed, IconTruth
<1>2. /\ TypeOK'
      /\ Returned(c) /\ Busy(c) /\ thread[c].by \in Owners /\ thread[c].at = "getStatus"
      /\ thread'[c] = [by |-> thread[c].by, for |-> thread[c].for, at |-> "updateAppWidget"]
      /\ \A d \in Clients : d # c => thread'[d] = thread[d] /\ result'[d] = result[d]
      /\ views'[thread[c].by] = IconOf(result[c])
      /\ \A o \in Owners : o # thread[c].by => views'[o] = views[o]
      /\ UNCHANGED << detection, camera, method, told, done, icon, bound, config, disturbed >>
  BY <1>1, RefreshSetsFacts
<1>3. \A d \in Clients : /\ thread'[d].by = thread[d].by /\ thread'[d].for = thread[d].for
                         /\ Busy(d)' <=> Busy(d)
  BY <1>2 DEF Busy
<1>4. IconTruth'
  <2> SUFFICES ASSUME NEW w \in Widgets, w \in bound' \ disturbed',
                      \A d \in Clients : Busy(d)' => thread'[d].for # w
               PROVE  Says(icon[w], config[w])'
    BY <1>2 DEF IconTruth
  <2>1. Says(icon[w], config[w])
    BY <1>2, <1>3 DEF Informed, IconTruth
  <2> QED  BY <1>2, <2>1 DEF Says
<1>5. ASSUME NEW d \in Clients
      PROVE  /\ Returned(d)' => told'[d] = "nothing" /\ ~done'[d]
             /\ Busy(d)' => camera'[d] = config'[thread'[d].for]
  BY <1>2, <1>3 DEF Informed, Returned
<1>6. ASSUME NEW d \in Clients, Busy(d)', thread'[d].for \notin disturbed'
      PROVE  Alone(d)' /\ Knows(d)'
  <2>1. Busy(d) /\ Alone(d) /\ Knows(d)
    BY <1>2, <1>3, <1>6 DEF Informed
  <2>2. Alone(d)'
    BY <1>3, <2>1, AloneKept
  <2>3. CASE d = c
    <3>1. Says(IconOf(result[c]), config[thread[c].for]) /\ method'[c] = "none"
      BY <1>2, <2>1, <2>3 DEF Knows, Returned
    <3>2. IconOf(result[c]) # "unset"
      BY DEF IconOf
    <3>3. /\ views'[thread[c].by] = "pause_pressed" =>
               detection'[config'[thread[c].for]] = "PAUSED"
          /\ views'[thread[c].by] = "start_pressed" =>
               detection'[config'[thread[c].for]] = "ACTIVE"
      BY <1>2, <3>1 DEF Says
    <3>4. Knows(c)'
      BY <1>2, <3>1, <3>2, <3>3 DEF Knows, Says
    <3> QED  BY <2>2, <2>3, <3>4
  <2>4. CASE d # c
    <3>1. thread[d].by \in Owners => thread[d].by # thread[c].by
      BY <1>2, <2>1, <2>4 DEF Alone
    <3>2. thread[d].at = "updateAppWidget" => views'[thread[d].by] = views[thread[d].by]
      BY <1>1, <1>2, <3>1, ShowerFacts
    <3>3. Knows(d)'
      BY <1>2, <2>1, <2>4, <3>2, KnowsKept
    <3> QED  BY <2>2, <3>3
  <2> QED  BY <2>3, <2>4
<1> QED  BY <1>4, <1>5, <1>6 DEF Informed

\* What the threads that are left know, when one ends.
LEMMA KnowsAfterEnd ==
  ASSUME Informed, NEW c \in Clients, thread'[c] = Idle,
         \A d \in Clients : d # c => thread'[d] = thread[d] /\ result'[d] = result[d],
         \A d \in Clients : thread'[d].by \in Owners =>
           views'[thread'[d].by] = views[thread'[d].by],
         UNCHANGED << detection, camera, method, told, done, config, disturbed >>,
         NEW d \in Clients
  PROVE  /\ Returned(d)' => told'[d] = "nothing" /\ ~done'[d]
         /\ Busy(d)' => camera'[d] = config'[thread'[d].for]
         /\ Busy(d)' /\ thread'[d].for \notin disturbed' => Alone(d)' /\ Knows(d)'
<1>1. ~Busy(c)' /\ \A e \in Clients : e # c => (Busy(e)' <=> Busy(e))
  BY DEF Busy, Idle
<1>2. /\ Returned(d)' => told'[d] = "nothing" /\ ~done'[d]
      /\ Busy(d)' => camera'[d] = config'[thread'[d].for]
  BY <1>1 DEF Informed, Returned
<1>3. ASSUME Busy(d)', thread'[d].for \notin disturbed'
      PROVE  Alone(d)' /\ Knows(d)'
  <2>1. d # c /\ Busy(d) /\ thread'[d] = thread[d] /\ result'[d] = result[d]
    BY <1>1, <1>3
  <2>2. Alone(d) /\ Knows(d) /\ TypeOK
    BY <1>3, <2>1 DEF Informed, IconTruth
  <2>3. Alone(d)'
    BY <1>1, <2>1, <2>2, AloneKept
  <2>4. thread[d].at = "updateAppWidget" => views'[thread[d].by] = views[thread[d].by]
    BY <2>1, <2>2, ShowerFacts
  <2>5. Knows(d)'
    BY <2>1, <2>2, <2>4, KnowsKept
  <2> QED  BY <2>3, <2>5
<1> QED  BY <1>2, <1>3

LEMMA TruthAfterEnd ==
  ASSUME Informed, TypeOK', NEW c \in Clients, thread'[c] = Idle, Busy(c),
         \A d \in Clients : d # c => thread'[d] = thread[d],
         NEW i \in Icons \cup { "unset" }, thread[c].for \in Widgets, Shows(thread[c].for, i),
         thread[c].for \notin disturbed => i # "unset" /\ Says(i, config[thread[c].for]),
         UNCHANGED << detection, bound, config, disturbed >>
  PROVE  IconTruth'
<1> DEFINE v == thread[c].for
<1>1. /\ \A w \in Widgets : w # v => icon'[w] = icon[w]
      /\ icon'[v] = IF v \in bound /\ i # "unset" THEN i ELSE icon[v]
  BY ShowsFacts DEF Informed, IconTruth
<1> SUFFICES ASSUME NEW w \in Widgets, w \in bound' \ disturbed',
                    \A d \in Clients : Busy(d)' => thread'[d].for # w
             PROVE  Says(icon[w], config[w])'
  BY DEF IconTruth
<1>2. CASE w = v
  BY <1>1, <1>2 DEF Says
<1>3. CASE w # v
  <2>1. \A d \in Clients : Busy(d) => thread[d].for # w
    BY <1>3 DEF Busy
  <2>2. Says(icon[w], config[w])
    BY <2>1 DEF Informed, IconTruth
  <2> QED  BY <1>1, <1>3, <2>2 DEF Says
<1> QED  BY <1>2, <1>3

LEMMA InformedRefreshShows ==
  ASSUME Informed, NEW c \in Clients, RefreshShows(c)
  PROVE  Informed'
<1>1. TypeOK
  BY DEF Informed, IconTruth
<1>2. /\ TypeOK'
      /\ Busy(c) /\ thread[c].by \in Owners /\ thread[c].at = "updateAppWidget"
      /\ thread[c].for \in Widgets
      /\ Shows(thread[c].for, views[thread[c].by])
      /\ views[thread[c].by] \in Icons \cup { "unset" }
      /\ thread'[c] = Idle /\ \A d \in Clients : d # c => thread'[d] = thread[d]
      /\ \A d \in Clients : thread'[d].by \in Owners =>
           views'[thread'[d].by] = views[thread'[d].by]
      /\ UNCHANGED << detection, camera, method, told, done, result, bound, config, disturbed >>
  BY <1>1, RefreshShowsFacts
<1>3. thread[c].for \notin disturbed =>
        views[thread[c].by] # "unset" /\ Says(views[thread[c].by], config[thread[c].for])
  BY <1>2 DEF Informed, Knows
<1>4. IconTruth'
  BY <1>2, <1>3, TruthAfterEnd
<1>5. \A d \in Clients : /\ Returned(d)' => told'[d] = "nothing" /\ ~done'[d]
                         /\ Busy(d)' => camera'[d] = config'[thread'[d].for]
                         /\ Busy(d)' /\ thread'[d].for \notin disturbed' => Alone(d)' /\ Knows(d)'
  BY <1>2, KnowsAfterEnd
<1> QED  BY <1>4, <1>5 DEF Informed

LEMMA InformedClickShows ==
  ASSUME Informed, NEW c \in Clients, ClickShows(c)
  PROVE  Informed'
<1>1. TypeOK
  BY DEF Informed, IconTruth
<1>2. /\ TypeOK'
      /\ Busy(c) /\ Returned(c) /\ thread[c].at = "command"
      /\ thread[c].for \in Widgets
      /\ Shows(thread[c].for, IconOf(result[c]))
      /\ thread'[c] = Idle
      /\ \A d \in Clients : d # c => thread'[d] = thread[d] /\ result'[d] = result[d]
      /\ UNCHANGED << detection, camera, method, told, done, bound, config, views, disturbed >>
  BY <1>1, ClickShowsFacts
<1>3. IconOf(result[c]) \in Icons \cup { "unset" } /\ IconOf(result[c]) # "unset"
  BY DEF IconOf, Icons
<1>4. thread[c].for \notin disturbed => Says(IconOf(result[c]), config[thread[c].for])
  BY <1>2 DEF Informed, Knows
<1>5. IconTruth'
  BY <1>2, <1>3, <1>4, TruthAfterEnd
<1>6. \A d \in Clients : /\ Returned(d)' => told'[d] = "nothing" /\ ~done'[d]
                         /\ Busy(d)' => camera'[d] = config'[thread'[d].for]
                         /\ Busy(d)' /\ thread'[d].for \notin disturbed' => Alone(d)' /\ Knows(d)'
  BY <1>2, KnowsAfterEnd
<1> QED  BY <1>5, <1>6 DEF Informed

\* A click that goes on to its command has not done it yet.
LEMMA InformedCommands ==
  ASSUME Informed, NEW c \in Clients, ClickCommands(c)
  PROVE  Informed'
<1>1. TypeOK
  BY DEF Informed, IconTruth
<1>2. /\ TypeOK'
      /\ Busy(c) /\ Returned(c)
      /\ thread'[c] = [by |-> thread[c].by, for |-> thread[c].for, at |-> "command"]
      /\ camera'[c] = camera[c] /\ method'[c] # "none" /\ result'[c] = "none"
      /\ \A d \in Clients : d # c =>
           /\ thread'[d] = thread[d] /\ method'[d] = method[d] /\ camera'[d] = camera[d]
           /\ result'[d] = result[d]
      /\ UNCHANGED << detection, told, done, icon, bound, config, views, disturbed >>
  BY <1>1, ClickCommandsFacts
<1>3. \A d \in Clients : /\ thread'[d].by = thread[d].by /\ thread'[d].for = thread[d].for
                         /\ Busy(d)' <=> Busy(d)
                         /\ camera'[d] = camera[d]
  BY <1>2 DEF Busy
<1>4. IconTruth'
  <2> SUFFICES ASSUME NEW w \in Widgets, w \in bound' \ disturbed',
                      \A d \in Clients : Busy(d)' => thread'[d].for # w
               PROVE  Says(icon[w], config[w])'
    BY <1>2 DEF IconTruth
  <2>1. Says(icon[w], config[w])
    BY <1>2, <1>3 DEF Informed, IconTruth
  <2> QED  BY <1>2, <2>1 DEF Says
<1>5. ASSUME NEW d \in Clients
      PROVE  /\ Returned(d)' => told'[d] = "nothing" /\ ~done'[d]
             /\ Busy(d)' => camera'[d] = config'[thread'[d].for]
  BY <1>2, <1>3 DEF Informed, Returned
<1>6. ASSUME NEW d \in Clients, Busy(d)', thread'[d].for \notin disturbed'
      PROVE  Alone(d)' /\ Knows(d)'
  <2>1. Busy(d) /\ Alone(d) /\ Knows(d)
    BY <1>2, <1>3, <1>6 DEF Informed
  <2>2. Alone(d)'
    BY <1>3, <2>1, AloneKept
  <2>3. CASE d = c
    <3>1. ~done'[c]
      BY <1>2 DEF Informed
    <3>2. Knows(c)'
      BY <1>2, <3>1 DEF Knows, Returned
    <3> QED  BY <2>2, <2>3, <3>2
  <2>4. CASE d # c
    <3>1. Knows(d)'
      BY <1>2, <2>1, <2>4, KnowsKept
    <3> QED  BY <2>2, <3>1
  <2> QED  BY <2>3, <2>4
<1> QED  BY <1>4, <1>5, <1>6 DEF Informed

\* A call that goes on: what it does to its camera it knows, and the icons of other
\* widgets of that camera count as outdated.
LEMMA InformedCall ==
  ASSUME Informed, TypeOK', NEW c \in Clients, CallGoesOn(c)
  PROVE  Informed'
<1>1. TypeOK
  BY DEF Informed, IconTruth
<1>2. UNCHANGED << thread, views, icon, bound, config >>
  BY DEF CallGoesOn, process, screen, system
<1>3. /\ disturbed \subseteq disturbed'
      /\ \A w \in Widgets : w \notin disturbed' /\ w # thread[c].for =>
           detection'[config[w]] = detection[config[w]]
  BY <1>1, OutdatesFacts DEF CallGoesOn
<1>4. /\ method[c] # "none"
      /\ UNCHANGED << camera, method, result >>
      /\ \A d \in Clients : d # c => told'[d] = told[d] /\ done'[d] = done[d]
  <2>1. CASE Remote!Look(c)
    BY <1>1, <2>1, LookFacts DEF TypeOK
  <2>2. CASE Remote!Act(c)
    BY <1>1, <2>2, ActFacts DEF TypeOK
  <2> QED  BY <2>1, <2>2 DEF CallGoesOn
<1>5. /\ Busy(c) /\ ~Returned(c) /\ thread[c].for \in Widgets
      /\ method[c] = Doing(c)
  BY <1>1, <1>4, ThreadFacts DEF Returned
<1>6. \A d \in Clients : (Busy(d)' <=> Busy(d)) /\ (Returned(d)' <=> Returned(d))
  BY <1>2, <1>4 DEF Busy, Returned
<1>7. IconTruth'
  <2> SUFFICES ASSUME NEW w \in Widgets, w \in bound' \ disturbed',
                      \A d \in Clients : Busy(d)' => thread'[d].for # w
               PROVE  Says(icon[w], config[w])'
    BY DEF IconTruth
  <2>1. \A d \in Clients : Busy(d) => thread[d].for # w
    BY <1>2, <1>6
  <2>2. w # thread[c].for /\ detection'[config[w]] = detection[config[w]]
    BY <1>3, <1>5, <2>1
  <2>3. Says(icon[w], config[w])
    BY <1>2, <1>3, <2>1 DEF Informed, IconTruth
  <2> QED  BY <1>2, <2>2, <2>3 DEF Says
<1>8. ASSUME NEW d \in Clients
      PROVE  /\ Returned(d)' => told'[d] = "nothing" /\ ~done'[d]
             /\ Busy(d)' => camera'[d] = config'[thread'[d].for]
  BY <1>2, <1>4, <1>5, <1>6 DEF Informed
<1>9. ASSUME NEW d \in Clients, Busy(d)', thread'[d].for \notin disturbed'
      PROVE  Alone(d)' /\ Knows(d)'
  <2>1. Busy(d) /\ Alone(d) /\ Knows(d) /\ thread[d].for \in Widgets
    BY <1>1, <1>2, <1>3, <1>6, <1>9, ThreadFacts DEF Informed
  <2>2. Alone(d)'
    BY <1>2, <1>6, <2>1, AloneKept
  <2>3. CASE d # c
    <3>1. thread[d].for # thread[c].for
      BY <1>5, <2>1, <2>3 DEF Alone
    <3>2. detection'[config[thread[d].for]] = detection[config[thread[d].for]]
      BY <1>2, <1>3, <1>9, <2>1, <3>1
    <3>3. Knows(d)'
      BY <1>2, <1>4, <2>1, <2>3, <3>2, KnowsKept
    <3> QED  BY <2>2, <3>3
  <2>4. CASE d = c /\ Remote!Look(c)
    <3>1. camera[c] = config[thread[c].for]
      BY <1>5 DEF Informed
    <3>2. ~done[c] /\ told'[c] \in { "nothing", detection[camera[c]] }
          /\ UNCHANGED << detection, done, method >>
      BY <1>1, <2>4, LookFacts DEF TypeOK
    <3>3. thread[c].at # "updateAppWidget"
      BY <1>4, <1>5 DEF Doing
    <3>4. Knows(c)'
      BY <1>2, <1>5, <1>6, <3>1, <3>2, <3>3 DEF Knows
    <3> QED  BY <2>2, <2>4, <3>4
  <2>5. CASE d = c /\ Remote!Act(c)
    <3>1. camera[c] = config[thread[c].for]
      BY <1>5 DEF Informed
    <3>2. /\ method[c] \notin { "none", "getStatus" }
          /\ method[c] = "toggleDetection" =>
               detection'[camera[c]] = Effect(Command(told[c]), detection[camera[c]])
          /\ UNCHANGED << told, method >>
      BY <1>1, <2>5, ActFacts DEF TypeOK
    <3>3. thread[c].at = "command"
      BY <1>5, <3>2 DEF Doing
    <3>4. \A r \in { "start", "pause" } : \A x : Effect(r, Effect(r, x)) = Effect(r, x)
      BY DEF Effect
    <3>5. Command(told[c]) \in { "start", "pause" }
      BY DEF Command
    <3>6. method[c] = "toggleDetection" =>
            detection'[camera[c]] = Effect(Command(told[c]), detection'[camera[c]])
      BY <3>2, <3>4, <3>5
    <3>7. Knows(c)'
      BY <1>2, <1>5, <1>6, <3>1, <3>2, <3>3, <3>6 DEF Knows
    <3> QED  BY <2>2, <2>5, <3>7
  <2> QED  BY <2>3, <2>4, <2>5 DEF CallGoesOn
<1> QED  BY <1>7, <1>8, <1>9 DEF Informed

\* A call returns what it was told, or the command it has carried out.
LEMMA InformedReturn ==
  ASSUME Informed, TypeOK', NEW c \in Clients, CallReturns(c)
  PROVE  Informed'
<1>1. TypeOK
  BY DEF Informed, IconTruth
<1>2. UNCHANGED << thread, views, icon, bound, config, disturbed >>
  BY DEF CallReturns, process, screen, system
<1>3. /\ method[c] # "none" /\ method'[c] = "none" /\ told'[c] = "nothing" /\ ~done'[c]
      /\ method[c] = "getStatus" => result'[c] \in { "Failed", told[c] }
      /\ method[c] = "toggleDetection" =>
           \/ result'[c] = "Failed"
           \/ done[c] /\ Command(told[c]) = "start" /\ result'[c] = "Started"
           \/ done[c] /\ Command(told[c]) = "pause" /\ result'[c] = "Paused"
      /\ method[c] = "snapshot" => result'[c] \in { "Failed", "Taken" }
      /\ \A d \in Clients : d # c =>
           /\ method'[d] = method[d] /\ told'[d] = told[d] /\ done'[d] = done[d]
           /\ result'[d] = result[d]
      /\ UNCHANGED << detection, camera >>
  BY <1>1, ReturnFacts DEF CallReturns, TypeOK
<1>4. Busy(c) /\ method[c] = Doing(c) /\ thread[c] \in Threads
  BY <1>1, <1>3, ThreadFacts
<1>5. \A d \in Clients : Busy(d)' <=> Busy(d)
  BY <1>2 DEF Busy
<1>6. IconTruth'
  <2> SUFFICES ASSUME NEW w \in Widgets, w \in bound' \ disturbed',
                      \A d \in Clients : Busy(d)' => thread'[d].for # w
               PROVE  Says(icon[w], config[w])'
    BY DEF IconTruth
  <2>1. Says(icon[w], config[w])
    BY <1>2, <1>5 DEF Informed, IconTruth
  <2> QED  BY <1>2, <1>3, <2>1 DEF Says
<1>7. ASSUME NEW d \in Clients
      PROVE  /\ Returned(d)' => told'[d] = "nothing" /\ ~done'[d]
             /\ Busy(d)' => camera'[d] = config'[thread'[d].for]
  <2>1. CASE d = c
    BY <1>2, <1>3, <1>5, <2>1 DEF Informed
  <2>2. CASE d # c
    BY <1>2, <1>3, <1>5, <2>2 DEF Informed, Returned
  <2> QED  BY <2>1, <2>2
<1>8. ASSUME NEW d \in Clients, Busy(d)', thread'[d].for \notin disturbed'
      PROVE  Alone(d)' /\ Knows(d)'
  <2>1. Busy(d) /\ Alone(d) /\ Knows(d)
    BY <1>2, <1>5, <1>8 DEF Informed
  <2>2. Alone(d)'
    BY <1>2, <1>5, <2>1, AloneKept
  <2>3. CASE d # c
    BY <1>2, <1>3, <2>1, <2>2, <2>3, KnowsKept
  <2>4. CASE d = c
    <3> DEFINE k == config[thread[c].for]
    <3>1. CASE thread[c].at = "getStatus"
      <4>1. method[c] = "getStatus"
        BY <1>4, <3>1 DEF Doing
      <4>2. result'[c] \in { "Failed", "nothing", detection[k] }
        BY <1>3, <2>1, <2>4, <3>1, <4>1 DEF Knows
      <4>3. detection[k] \in { "ACTIVE", "PAUSED" }
        BY <1>1, <1>4, ThreadFacts, RemoteTypes DEF TypeOK, Detection
      <4>4. Says(IconOf(result'[c]), k)
        BY <4>2, <4>3 DEF Says, IconOf
      <4>5. Knows(c)'
        BY <1>2, <1>3, <3>1, <4>4 DEF Knows, Says
      <4> QED  BY <2>2, <2>4, <4>5
    <3>2. CASE thread[c].at = "command"
      <4>1. method[c] \in { "toggleDetection", "snapshot" }
        BY <1>1, <1>4, <3>2, ThreadFacts DEF Doing, Clicks
      <4>2. \/ result'[c] \in { "Failed", "Taken" }
            \/ result'[c] = "Started" /\ detection[k] = "ACTIVE"
            \/ result'[c] = "Paused" /\ detection[k] = "PAUSED"
        <5>1. CASE method[c] = "toggleDetection" /\ done[c]
          <6>1. detection[k] = Effect(Command(told[c]), detection[k])
            BY <2>1, <2>4, <5>1 DEF Knows
          <6> QED  BY <1>3, <5>1, <6>1 DEF Effect
        <5>2. CASE method[c] = "toggleDetection" /\ ~done[c]
          BY <1>3, <5>2
        <5>3. CASE method[c] = "snapshot"
          BY <1>3, <5>3
        <5> QED  BY <4>1, <5>1, <5>2, <5>3
      <4>3. Says(IconOf(result'[c]), k)
        BY <4>2 DEF Says, IconOf
      <4>4. Knows(c)'
        BY <1>2, <1>3, <3>2, <4>3 DEF Knows, Says
      <4> QED  BY <2>2, <2>4, <4>4
    <3>3. thread[c].at \in { "getStatus", "command" }
      BY <1>3, <1>4 DEF Doing
    <3> QED  BY <3>1, <3>2, <3>3
  <2> QED  BY <2>3, <2>4
<1> QED  BY <1>6, <1>7, <1>8 DEF Informed

\* Another client outdates the icons of the camera it switches.
LEMMA InformedElsewhere ==
  ASSUME Informed, TypeOK', NEW k \in Cameras, Elsewhere(k)
  PROVE  Informed'
<1>1. TypeOK
  BY DEF Informed, IconTruth
<1>2. UNCHANGED << thread, views, icon, bound, config, camera, method, told, done, result >>
  BY <1>1, ElsewhereFacts DEF Elsewhere, process, screen, system, TypeOK
<1>3. /\ disturbed \subseteq disturbed'
      /\ \A w \in Widgets : w \notin disturbed' =>
           detection'[config[w]] = detection[config[w]]
  BY <1>1, OutdatesFacts DEF Elsewhere
<1>4. \A d \in Clients : (Busy(d)' <=> Busy(d)) /\ (Returned(d)' <=> Returned(d))
  BY <1>2 DEF Busy, Returned
<1>5. IconTruth'
  <2> SUFFICES ASSUME NEW w \in Widgets, w \in bound' \ disturbed',
                      \A d \in Clients : Busy(d)' => thread'[d].for # w
               PROVE  Says(icon[w], config[w])'
    BY DEF IconTruth
  <2>1. Says(icon[w], config[w])
    BY <1>2, <1>3, <1>4 DEF Informed, IconTruth
  <2> QED  BY <1>2, <1>3, <2>1 DEF Says
<1>6. ASSUME NEW d \in Clients
      PROVE  /\ Returned(d)' => told'[d] = "nothing" /\ ~done'[d]
             /\ Busy(d)' => camera'[d] = config'[thread'[d].for]
  BY <1>2, <1>4 DEF Informed
<1>7. ASSUME NEW d \in Clients, Busy(d)', thread'[d].for \notin disturbed'
      PROVE  Alone(d)' /\ Knows(d)'
  <2>1. Busy(d) /\ Alone(d) /\ Knows(d) /\ thread[d].for \in Widgets
    BY <1>1, <1>2, <1>3, <1>4, <1>7, ThreadFacts DEF Informed
  <2>2. Alone(d)'
    BY <1>2, <1>4, <2>1, AloneKept
  <2>3. Knows(d)'
    BY <1>2, <1>3, <1>7, <2>1, KnowsKept
  <2> QED  BY <2>2, <2>3
<1> QED  BY <1>5, <1>6, <1>7 DEF Informed

LEMMA InformedInit == Init => Informed
<1> SUFFICES ASSUME Init
             PROVE  Informed
  OBVIOUS
<1>1. TypeOK
  BY TypeInit
<1>2. bound = { } /\ \A c \in Clients : ~Busy(c) /\ told[c] = "nothing" /\ ~done[c]
  BY DEF Init, Remote!Init, Busy, Idle
<1> QED  BY <1>1, <1>2 DEF Informed, IconTruth

LEMMA InformedNext == Informed /\ [Next]_widgetVars => Informed'
<1> SUFFICES ASSUME Informed, [Next]_widgetVars
             PROVE  Informed'
  OBVIOUS
<1>1. TypeOK /\ TypeOK'
  BY TypeNext DEF Informed, IconTruth
<1>2. CASE \/ SaveInterval \/ OnEnabled \/ AlarmFires \/ ServiceRestarts
           \/ \E w \in Widgets : RemoveWidget(w) \/ OnUpdateOne(w) \/ ServiceUpdate(w)
           \/ \E ids \in updates : OnUpdate(ids)
           \/ UNCHANGED widgetVars
  <2>1. /\ UNCHANGED << remote, thread, views, config, icon, disturbed >>
        /\ bound' \subseteq bound
    BY <1>2 DEF SaveInterval, OnEnabled, AlarmFires, ServiceRestarts, RemoveWidget, OnUpdateOne,
       ServiceUpdate, OnUpdate, widgetVars, process, screen, system
  <2> QED  BY <1>1, <2>1, InformedQuiet
<1>3. CASE KillProcess \/ Reboot \/ OnUpdateThrows
  BY <1>1, <1>3, InformedEnds
<1>4. CASE \E w \in Widgets, k \in Cameras : AddWidget(w, k)
  BY <1>1, <1>4, InformedAdd
<1>5. CASE \E c \in Clients, kind \in Clicks, w \in Widgets : ClickBegins(c, kind, w)
  <2> PICK c \in Clients, kind \in Clicks, w \in Widgets : ClickBegins(c, kind, w)
    BY <1>5
  <2>1. Begins(c, kind, w) /\ UNCHANGED << bound, config, icon, views >>
    BY DEF ClickBegins, system, screen
  <2> QED  BY <1>1, <2>1, InformedBegins
<1>6. CASE \E c \in Clients, o \in Owners, w \in Widgets : RefreshBegins(c, o, w)
  <2> PICK c \in Clients, o \in Owners, w \in Widgets : RefreshBegins(c, o, w)
    BY <1>6
  <2>1. /\ Begins(c, o, w) /\ UNCHANGED << bound, config, icon >>
        /\ views' = [views EXCEPT ![o] = "unset"]
    BY DEF RefreshBegins, system, screen
  <2>2. \A p \in Owners : p # o => views'[p] = views[p]
    BY <1>1, <2>1 DEF TypeOK
  <2> QED  BY <1>1, <2>1, <2>2, InformedBegins
<1>7. CASE \E c \in Clients : ThreadStep(c)
  BY <1>7, InformedSets, InformedRefreshShows, InformedCommands, InformedClickShows DEF ThreadStep
<1>8. CASE \E c \in Clients : CallGoesOn(c) \/ CallReturns(c)
  BY <1>1, <1>8, InformedCall, InformedReturn
<1>9. CASE \E k \in Cameras : Elsewhere(k)
  BY <1>1, <1>9, InformedElsewhere
<1> QED
  BY <1>2, <1>3, <1>4, <1>5, <1>6, <1>7, <1>8, <1>9 DEF Next, Outside, MainThread, Scheduled

\* A thread whose widget nothing has disturbed is alone with it, and what it has been told,
\* has done or has put on its views object is the state of the widget's camera.
THEOREM InformedHolds == Spec => []Informed
<1>1. Init => Informed
  BY InformedInit
<1>2. Informed /\ [Next]_widgetVars => Informed'
  BY InformedNext
<1> QED  BY <1>1, <1>2, PTL DEF Spec

\* An icon says of its camera what is so, unless somebody else has switched the camera or
\* another thread has got in the way since the widget's last thread began.
THEOREM IconTruthHolds == Spec => []IconTruth
<1>1. Informed => IconTruth
  BY DEF Informed
<1> QED  BY <1>1, InformedHolds, PTL

=============================================================================
