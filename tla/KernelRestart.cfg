\* svc restart kernel-cron: stop_fn stops the cron service, start_fn is empty.
CONSTANTS
  Job = {j1}
  MaxLoops = 2
  Main = Main
  Caller = {c1, Main}
  Thread = {c1}
  Exits = {j1}
  MaxRuns = 1
  NoService = NoService
  Cron = cron
  Service = {cron}
  AutoRestart = {}
  NoopStart = {cron}
  HasStop = {cron}
  MaxAutoRestarts = 3
SPECIFICATION Spec
PROPERTIES RestartRevives
\* All calls made, all jobs removed and the cron service stopped.
CHECK_DEADLOCK FALSE
