SPECIFICATION ScenesSpec
CONSTANTS
  c1 = c1  c2 = c2
  k1 = k1  k2 = k2
  w1 = w1  w2 = w2
  Clients = {c1, c2}
  Cameras = {k1, k2}
  Widgets = {w1, w2}
  Intervals = {1}
  NoNumber = NoNumber
  NoAlarm = NoAlarm
  MaxReady = 2
SYMMETRY Symmetry
INVARIANT IconTruth
