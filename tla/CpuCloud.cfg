\* Two workers, three tasks of equal priority, two one-vCPU nodes of which one
\* may be added and any removed while tasks run.
CONSTANTS
  Task = {t1, t2, t3}
  NoTask = NoTask
  Worker = {w1, w2}
  NumWorkers = 2
  Prio <- EvenPrio
  Outcome = {"return"}
  MaxHistory = 2
  MaxStops = 0
  Node = {n1, n2}
  NoNode = NoNode
  FirstNodes = {n1}
  VCpus <- OneVCpu
SYMMETRY CpuCloudSymmetry
SPECIFICATION CoupledSpec
INVARIANTS UsageExplained BookingsSettle
CHECK_DEADLOCK FALSE
