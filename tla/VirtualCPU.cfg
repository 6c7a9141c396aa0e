\* Three starts of one thread and two stops, two tasks: every interleaving of
\* submit, cancel, start, stop and the workers, with left-over pills, threads
\* of an earlier start that survive into a later one, and fns that end their
\* thread.  A history of one, so that eviction happens.
CONSTANTS
  t1 = t1  t2 = t2
  Task = {t1, t2}
  NoTask = NoTask
  Worker = {w1, w2, w3}
  NumWorkers = 1
  Prio <- MCPrio
  Outcome = {"return", "raise", "exit"}
  MaxHistory = 1
  MaxStops = 2
SYMMETRY WorkerSymmetry
SPECIFICATION Spec
INVARIANTS TypeOK AtMostOnce CancelHonoured MetricsExact LiveTasksRegistered
           HistoryBounded
PROPERTIES ImplementsExecutor
\* After the last stop() and the last submit nothing is left to do.
CHECK_DEADLOCK FALSE
