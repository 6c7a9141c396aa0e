\* Fair scheduling, fns that end normally, two workers, two tasks, one stop.
CONSTANTS
  t1 = t1  t2 = t2
  Task = {t1, t2}
  NoTask = NoTask
  Worker = {w1, w2}
  NumWorkers = 2
  Prio <- MCPrio
  Outcome = {"return", "raise"}
  MaxHistory = 1
  MaxStops = 1
SPECIFICATION FairSpec
PROPERTIES WorkersServe
\* After stop() and the last submit nothing is left to do.
CHECK_DEADLOCK FALSE
