SPECIFICATION Spec
CONSTANTS
  d1 = d1  d2 = d2  d3 = d3
  p1 = p1  p2 = p2  p3 = p3
  t1 = t1  t2 = t2  t3 = t3  t4 = t4
  NULL = NULL
  UI = UI
  Reads = {d1, d2, d3}
  Streams = {d1, d2, d3}
  PauseTasks = {p1, p2}
  Callers = {p1, p2, UI}
  Threads = {t1, t2, t3, t4}
SYMMETRY Symmetry
CHECK_DEADLOCK FALSE
INVARIANTS
  Coupled
  NotDark
  NoStreamLeak
  CleanUI
  MessageSentOnce
  SuspendAgree
