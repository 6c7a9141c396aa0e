CONSTANTS
  j1 = j1
  j2 = j2
  etc = etc
  web = web
  Job = {j1, j2}
  JobMb <- MCJobMb
  PoolMb = 2
  QuotaJob = {j1, j2}
  MaxTasks = 1
  MaxMb = 1
  Canceller = {c1, c2}
  LedgerMax = 1
  Lanes = 2
  Ask <- MCAsk
  MaxPushed = 4
  Workers = 2
  MaxWork = 5
  MaxThreads = 3
  PoolCaller = {s1, s2}
  Inside = {s2}
  Handler = {h1, h2}
  Publisher = {u1, u2}
  MaxSubs = 3
  MaxEvents = 2
  MaxWritten = 4
  AuditMax = 2
  Collector = {k1, k2}
  Part = {etc, web}
  MaxDepth = 2
  Target = {a1, a2}
  MaxMaps = 2
  Pkg = {core, net}
  Admin = {m1, m2}
  MaxVersion = 2
  Gpu = {g1, g2, g3}
  CpuWorkers = 1
  Query = {q1, q2}
  Pull = {p1}
  Own = own
  RouterMax = 1
  Volume = {v1, v2}
  Key = {x1}
  Writer = {w1, w2, w3}
  Value = {v1, "gone"}
  Plugin = {p1, p2}
  Registrar = {r1, r2}
  Model = {m1, m2, m3}
  MaxRating = 1
  MaxRatings = 1
  Top = 2
  Asker = {c1, c2}
  Backends = {"builtin", "transformers", "ollama"}
  MaxHistory = 2
  Known = {m1}
  MaxSaves = 1
  b1 = b1
  b2 = b2
  b3 = b3
  Client = {d1, d2}
  Topic = {t1}
  MaxSent = 3
  Routes <- MCRoutes
  User = {"u1", "u2"}
  MaxStarts = 2
  MaxAsked = 2
  Mirror = {b1, b2, b3}
  Primary = {b1}
  Priority <- MCPriority
  MaxMoves = 4
  Stopper = {s1, s2}
  Task = {t1}
  Node = {n1}
SPECIFICATION PlatformSpec
INVARIANTS ResourcesBalance WorkReported ObserversTold StoresSound FrontsHold
\* A component that has made all its bounded steps stops.
CHECK_DEADLOCK FALSE
