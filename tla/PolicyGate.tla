----------------------------- MODULE PolicyGate -----------------------------
(***************************************************************************)
(* The policy engine (aura/root/policy.py) behind the gate of the ROOT     *)
(* layer (aura/root/sovereign.py): rules come and go while callers ask,    *)
(* HOME is mounted and unmounted, and the audit ring fills.  Every         *)
(* operation is one critical section of an RLock.                          *)
(***************************************************************************)
EXTENDS Lists

CONSTANTS
  Request,    \* what callers ask: a subject, an action, a kind of resource
  ExtraRule,  \* rules an administrator may add at run time
  Removable,  \* names of rules an administrator may remove
  MaxExtra,   \* bound on the rules beyond the defaults
  Device,     \* paths of devices
  AuditMax    \* ROOTLayer._audit_max

ASSUME GateAssumption ==
  /\ MaxExtra \in Nat /\ AuditMax \in Nat
  /\ \A r \in ExtraRule : r.prio \in Int /\ r.verdict \in {"allow", "deny", "audit"}

VARIABLES
  policy,     \* PolicyEngine._rules
  policyLog,  \* history: the present rules in the order they were added
  online,     \* ROOTLayer._running
  homeUp,     \* ROOTLayer._home_mounted
  audit,      \* ROOTLayer._audit
  devices     \* the paths in DeviceManager._devices

gateVars == <<policy, policyLog, online, homeUp, audit, devices>>

PolicyRule(name, subject, action, resource, verdict, prio) ==
  [name |-> name, subject |-> subject, action |-> action, resource |-> resource,
   verdict |-> verdict, prio |-> prio]

\* The rules every system starts with, as they are added; "*" is any.
OsPolicy == <<
  PolicyRule("root-superuser", "root", "*", "*", "allow", 1),
  PolicyRule("init-device-open", "aura-init", "device.open", "dev", "allow", 5),
  PolicyRule("home-device-read", "home", "device.read", "dev", "audit", 10),
  PolicyRule("build-artefact-stage", "build", "artefact.stage", "artefact", "allow", 20),
  PolicyRule("root-artefact-deploy", "root", "artefact.deploy", "artefact", "allow", 2),
  PolicyRule("admin-status-read", "admin", "read", "system", "allow", 30),
  PolicyRule("operator-read-write", "operator", "read", "*", "allow", 40),
  PolicyRule("operator-write", "operator", "write", "*", "allow", 41),
  PolicyRule("user-read", "user", "read", "*", "allow", 50) >>

\* The part before the pattern: a rule for "*" matches whatever is asked.
Glob(pattern, x) == pattern \in {"*", x}
RuleMatches(r, q) == /\ Glob(r.subject, q.subject) /\ Glob(r.action, q.action)
                     /\ Glob(r.resource, q.resource)
PolicyHits(rs, q) == {i \in DOMAIN rs : RuleMatches(rs[i], q)}

\* evaluate(): the verdict of the first matching rule, or DENY.
Evaluate(q) == FirstMatch(policy, PolicyHits(policy, q), "deny")

\* Mutant of PolicyInsert: the list is not sorted again.
PolicyAppend(rs, r) == Append(rs, r)
PolicyInsert(rs, r) == Insert(rs, r)

\* Mutant of PolicyWithout: only the first rule of the name goes.
PolicyWithoutFirst(rs, n) ==
  RemoveAt(rs, CHOOSE i \in DOMAIN rs : rs[i].name = n /\ \A j \in 1..(i - 1) : rs[j].name # n)
PolicyWithout(rs, n) == WithoutName(rs, n)

GateInit ==
  /\ policy = Built(OsPolicy) /\ policyLog = OsPolicy
  /\ online = FALSE /\ homeUp = FALSE /\ audit = <<>> /\ devices = {}

\* _audit_write: the oldest entries make room.
Recorded(log, entry) ==
  LET a == Append(log, entry)
  IN  IF Len(a) > AuditMax THEN SubSeq(a, Len(a) - AuditMax + 1, Len(a)) ELSE a
Audited(entry) == Recorded(audit, entry)

PolicyAdd(r) ==
  /\ Cardinality({i \in DOMAIN policy : policy[i] \in ExtraRule}) < MaxExtra
  /\ policy' = PolicyInsert(policy, r) /\ policyLog' = Append(policyLog, r)
  /\ UNCHANGED <<online, homeUp, audit, devices>>

PolicyRemove(n) ==
  /\ n \in Names(policy)
  /\ policy' = PolicyWithout(policy, n) /\ policyLog' = WithoutName(policyLog, n)
  /\ UNCHANGED <<online, homeUp, audit, devices>>

\* gate(): the verdict is told as it is, AUDIT included, or raised as
\* PermissionError on a DENY if the caller wants that (require() always does).
\* It asks whether ROOT is online of nobody.
Gate(q) ==
  /\ audit' = Audited(Evaluate(q))
  /\ UNCHANGED <<policy, policyLog, online, homeUp, devices>>

\* The device manager: a path is registered once; open() and read() of one
\* that is not raise before the gate is asked, and hand the device out unless
\* the gate raises.
RegisterDevice(d) ==
  /\ d \notin devices /\ devices' = devices \cup {d}
  /\ UNCHANGED <<policy, policyLog, online, homeUp, audit>>

DeviceRequest(subject, action) == [subject |-> subject, action |-> action, resource |-> "dev"]
OpenDevice(d, subject) == d \in devices /\ Gate(DeviceRequest(subject, "device.open"))
ReadDevice(d, subject) == d \in devices /\ Gate(DeviceRequest(subject, "device.read"))

StartRoot ==
  /\ ~online /\ online' = TRUE
  /\ audit' = Audited("root.start")
  /\ UNCHANGED <<policy, policyLog, homeUp, devices>>

\* stop() unmounts HOME first; both leave an entry.
StopRoot ==
  /\ online /\ online' = FALSE /\ homeUp' = FALSE
  /\ audit' = Recorded(IF homeUp THEN Audited("home.unmount") ELSE audit, "root.stop")
  /\ UNCHANGED <<policy, policyLog, devices>>

\* mount_home() evaluates the policy by _gate, which ignores raise_on_deny:
\* whatever the verdict, HOME is mounted, ROOT online or not.
Mount ==
  /\ ~homeUp /\ homeUp' = TRUE
  /\ audit' = Audited("home.mount")
  /\ UNCHANGED <<policy, policyLog, online, devices>>

Unmount ==
  /\ homeUp /\ homeUp' = FALSE
  /\ audit' = Audited("home.unmount")
  /\ UNCHANGED <<policy, policyLog, online, devices>>

GateNext == \/ \E r \in ExtraRule : PolicyAdd(r)
            \/ \E n \in Removable : PolicyRemove(n)
            \/ \E q \in Request : Gate(q)
            \/ \E d \in Device : \/ RegisterDevice(d)
                                 \/ \E subject \in {"home", "aura-init"} :
                                      OpenDevice(d, subject) \/ ReadDevice(d, subject)
            \/ StartRoot \/ StopRoot \/ Mount \/ Unmount

-----------------------------------------------------------------------------
(* Properties. *)

GateTypeOK ==
  /\ online \in BOOLEAN /\ homeUp \in BOOLEAN
  /\ devices \subseteq Device /\ Len(audit) <= AuditMax
  /\ Len(policy) <= Len(OsPolicy) + MaxExtra

\* Whatever rules were added, removed and added again, and in whatever order,
\* every request is decided by the matching rule of lowest priority, ties by
\* age, and denied when none is left: a removed rule, and every namesake of
\* it, decides nothing (add_rule, remove_rule, evaluate).
PolicyDecides ==
  \A q \in Request :
    Evaluate(q) = ByPriority(policyLog, PolicyHits(policyLog, q), "deny")

\* The last entry about HOME in the audit ring, if it still holds one, tells
\* whether HOME is mounted: no mount or unmount goes unrecorded, and stop()
\* records its unmount before itself (mount_home, unmount_home, stop).
AuditTellsMount ==
  LET about == {i \in DOMAIN audit : audit[i] \in {"home.mount", "home.unmount"}}
  IN  about # {} => (homeUp <=> audit[Max(about)] = "home.mount")
=============================================================================
