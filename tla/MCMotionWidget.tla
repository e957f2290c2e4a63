---------------------------- MODULE MCMotionWidget ----------------------------
EXTENDS MotionWidget, TLC

CONSTANTS c1, c2, k1, k2, w1, w2

Symmetry ==
  Permutations({ c1, c2 }) \cup Permutations({ k1, k2 }) \cup Permutations({ w1, w2 })

VARIABLE cast  \* the widgets of this behaviour, all or a single one

\* The widgets are on the home screen, each for a camera of its own, updated, and
\* the alarm is set; nobody changes that or switches a camera by other means.
Installed ==
  /\ cast = Widgets
  /\ Remote!Init
  /\ interval \in Intervals \ { 0 } /\ alarm = interval
  /\ bound = Widgets /\ live = Widgets /\ enabled = FALSE /\ updates = { }
  /\ config \in [Widgets -> Cameras]
  /\ \A v, w \in Widgets : config[v] = config[w] => v = w
  /\ service = "none" /\ main = "idle" /\ todo = { }
  /\ icon = [w \in Widgets |-> "start"]
  /\ ready = [o \in Owners |-> [w \in Widgets |-> 0]]
  /\ views = [o \in Owners |-> "unset"]
  /\ thread = [c \in Clients |-> Idle]
  /\ disturbed = { }

\* Bound: two threads at most wait for one of these widgets.
InstalledNext ==
  /\ \/ AlarmFires \/ ServiceRestarts \/ KillProcess
     \/ \E w \in Widgets : ServiceUpdate(w)
     \/ \E c \in Clients : ThreadStep(c) \/ Scheduled(c) \/ CallGoesOn(c) \/ CallReturns(c)
     \/ \E c \in Clients, w \in Widgets : ClickBegins(c, "toggleDetection", w)
  /\ \A w \in Widgets : ready'["service"][w] <= 1

\* A single widget for one camera, which is added and removed at any time; the
\* settings are saved once, with a number.
Single ==
  /\ \E w \in Widgets : cast = { w }
  /\ Init
  /\ \E k \in Cameras :
       /\ config = [w \in Widgets |-> IF w \in cast THEN k ELSE CHOOSE j \in Cameras : j # k]
       /\ camera = [c \in Clients |-> k]
       /\ \A j \in Cameras \ { k } : detection[j] = "ACTIVE"

SingleNext ==
  \/ interval = NoNumber /\ SaveInterval
  \/ KillProcess \/ Reboot \/ MainThread
  \/ \E w \in cast :
       \/ AddWidget(w, config[w]) \/ RemoveWidget(w) \/ Elsewhere(config[w])
       \/ \E c \in Clients, kind \in Clicks : ClickBegins(c, kind, w)
  \/ \E c \in Clients : ThreadStep(c) \/ Scheduled(c) \/ CallGoesOn(c) \/ CallReturns(c)

ScenesInit == Installed \/ Single

ScenesNext ==
  /\ IF cast = Widgets THEN InstalledNext ELSE SingleNext
  /\ UNCHANGED cast

ScenesSpec == ScenesInit /\ [][ScenesNext]_<< widgetVars, cast >>
=============================================================================
