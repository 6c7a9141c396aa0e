\* Network: three clients for two addresses, two source ports and three external
\* ports: leases expire while the pool is full, and the port counter wraps.
\* The rest: two rules beyond the defaults, an audit ring of two, two records a
\* name, five units of memory, two namesake volumes, a thread that looks
\* identities up.
CONSTANTS
  Mac = {m1, m2, m3}
  Pool = 2
  SrcPort = {s1, s2}
  ExtPorts = 3
  Request <- MCRequest
  ExtraRule <- MCExtraRule
  Removable = {"lock", "user-read"}
  MaxExtra = 2
  Device = {dev}
  AuditMax = 2
  Packet <- MCPacket
  ExtraFwRule <- MCExtraFwRule
  FwRemovable = {"block", "allow-ssh"}
  MaxFwExtra = 2
  Name = {"gw", "gw.local"}
  Qualified <- MCQualified
  Ip = {ip1, ip2}
  Seeded = {"gw.local"}
  MaxRecords = 2
  NoAnswer = NoAnswer
  Block = {b1, b2, b3}
  Owner = {o1, o2}
  Size = {1, 2, 4}
  TotalRam = 5
  Volume = {v1, v2, v3}
  Label = {l1, l2}
  MountPoint = {p1, p2}
  Peripheral = {d1, d2}
  Token = {k1, k2}
  Session = {x1}
  Verifier = {f1}
  NoLook = NoLook
SYMMETRY MacSymmetry
SPECIFICATION RootSpec
INVARIANTS TypeOK AddressesUnique RepliesReachSender
           AccessDecided DevicesKeepPromises IdentitiesHonoured
PROPERTIES RenewalKeepsAddress EndsAreFinal
