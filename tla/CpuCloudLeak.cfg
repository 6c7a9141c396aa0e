\* Two tasks, one node: a completion that overtakes the submission event.
CONSTANTS
  Task = {t1, t2}
  NoTask = NoTask
  Worker = {w1, w2}
  NumWorkers = 2
  Prio <- EvenPrio
  Outcome = {"return"}
  MaxHistory = 2
  MaxStops = 0
  Node = {n1}
  NoNode = NoNode
  FirstNodes = {n1}
  VCpus <- OneVCpu
SPECIFICATION CoupledSpec
INVARIANTS InSyncWhenSettled
CHECK_DEADLOCK FALSE
