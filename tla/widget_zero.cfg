SPECIFICATION Spec
CONSTANTS
  Clients = {c1}
  Cameras = {k1}
  Widgets = {w1}
  Intervals = {0, 1}
  NoNumber = NoNumber
  NoAlarm = NoAlarm
  MaxReady = 2
PROPERTY
  ZeroDisables
