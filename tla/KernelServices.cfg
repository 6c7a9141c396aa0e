\* One job, two loops, one thread of service commands beside AIOS's own: the
\* cron service is stopped by both while it may be busy.
CONSTANTS
  Job = {j1}
  MaxLoops = 2
  Main = Main
  Caller = {c1, Main}
  Thread = {c1}
  Exits = {j1}
  MaxRuns = 1
  NoService = NoService
  Cron = cron
  Service = {cron}
  AutoRestart = {}
  NoopStart = {cron}
  HasStop = {cron}
  MaxAutoRestarts = 3
SPECIFICATION FairSpec
INVARIANTS TypeOK CronExact
PROPERTIES DueJobsFire
\* All calls made, all jobs removed and the cron service stopped.
CHECK_DEADLOCK FALSE
