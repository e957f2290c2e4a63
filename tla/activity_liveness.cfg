SPECIFICATION NamedSpec
CONSTANTS
  d1 = d1  d2 = d2  d3 = d3
  p1 = p1  p2 = p2  p3 = p3
  t1 = t1  t2 = t2  t3 = t3  t4 = t4
  NULL = NULL
  UI = UI
  Reads = {d1, d2}
  Streams = {d1, d2}
  PauseTasks = {p1, p2, p3}
  Callers = {p1, p2, p3, UI}
  Threads = {t1, t2, t3}
CHECK_DEADLOCK FALSE
PROPERTIES
  StoppedThreadsEnd
  PauseReleasesCamera
  CallbacksReturn
