CONSTANTS
  \* Services: one with automatic restart, and one whose start_fn does nothing
  \* and which has no stop_fn (web-api), under calls of two threads.
  Thread = {c1, c2}
  NoService = NoService
  Service = {gen, web}
  AutoRestart = {gen}
  NoopStart = {web}
  HasStop = {gen}
  MaxAutoRestarts = 3
  \* Processes, channels, log and secrets: more entries than the log holds.
  Pid = {p1, p2}
  Channel = {q1, q2}
  MaxSends = 4
  SysLevel = {info, error}
  LogMax = 2
  MaxLogged = 4
  Secret = {key, bad}
  ValidKey = {key}
  SecretValue = {v1, v2}
  NoSecret = NoSecret
  \* The virtual node: three generations of heartbeat threads.
  Beater = {b1, b2, b3}
  Client = {k1, k2}
  Peer = {n1, n2}
  MaxMsgs = 4
  MaxIds = 3
  \* HOME: a default that can also be cloned, and a package that is no default.
  Process = {h1, h2}
  Package = {shell, tool}
  Default = {shell}
  Repo = {shell, tool}
SPECIFICATION SideSpec
INVARIANTS KernelTablesTrue NodeAndHomeKept
PROPERTIES CallsReturn HeartbeatEnds
CHECK_DEADLOCK FALSE
