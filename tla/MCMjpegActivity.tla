--------------------------- MODULE MCMjpegActivity ---------------------------
EXTENDS MjpegActivity, Sequences, TLC

CONSTANTS d1, d2, d3, p1, p2, p3, t1, t2, t3, t4

\* Tasks, streams and threads are interchangeable.
Symmetry == Permutations(Threads) \cup Permutations(PauseTasks)
              \cup Permutations(Reads)

\* TLC cannot use the symmetry for liveness.  Instead tasks and threads are
\* taken up in the order of their names: every behaviour is one of these after
\* a renaming, which no property can tell.
TakenUpInOrder(names, state) ==
  \A i \in 2..Len(names) :
    state[names[i]] # "unborn" => state[names[i - 1]] # "unborn"

Named ==
  /\ TakenUpInOrder(<< d1, d2 >>, rpc)
  /\ TakenUpInOrder(<< p1, p2, p3 >>, ppc)
  /\ TakenUpInOrder(<< t1, t2, t3 >>, tpc)

\* Bounds of the liveness run: the third pause comes when the pauseTasks of the
\* first two, which anything may overtake, have ended, and is the last callback;
\* the activity is not destroyed, which changes nothing in the view.
Bounded ==
  /\ ppc[p3] # "unborn" =>
       ~Pausing(p1) /\ ~Pausing(p2) /\ upc = "idle" /\ life = "paused"
  /\ life # "destroyed"

NamedInit == Init /\ Named
NamedSpec == NamedInit /\ [][Next /\ Named' /\ Bounded']_vars /\ Fairness
=============================================================================
