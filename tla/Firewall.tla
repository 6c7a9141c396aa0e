------------------------------ MODULE Firewall ------------------------------
(***************************************************************************)
(* The packet filter of aura/network/firewall.py.  The rules are under a   *)
(* lock; the switch is read before it is taken, so a packet that is being  *)
(* decided when the switch is thrown is decided as before or as after.     *)
(***************************************************************************)
EXTENDS Lists

CONSTANTS
  Packet,     \* what is asked: source, destination, protocol, port, direction
  ExtraFwRule,\* rules callers of fw_add_rule or the configuration add
  FwRemovable,\* names of rules callers remove
  MaxFwExtra  \* bound on the rules beyond the defaults

ASSUME FirewallAssumption == MaxFwExtra \in Nat /\ \A r \in ExtraFwRule : r.prio \in Int

VARIABLES
  fwRules,    \* Firewall._rules
  fwLog,      \* history: the present rules in the order they were added
  fwOn        \* Firewall._enabled

fwVars == <<fwRules, fwLog, fwOn>>

FwRule(name, src, dst, proto, port, prio, dir) ==
  [name |-> name, src |-> src, dst |-> dst, proto |-> proto, port |-> port,
   verdict |-> "allow", prio |-> prio, dir |-> dir]

\* The rules of with_os_defaults; "lo" and "net" stand for 127.0.0.0/8 and
\* 10.0.0.0/24, port 0 for any.
OsFirewall == <<
  FwRule("allow-loopback", "lo", "*", "*", 0, 1, "both"),
  FwRule("allow-internal-subnet", "net", "net", "*", 0, 5, "both"),
  FwRule("allow-api-8000", "*", "*", "tcp", 8000, 10, "both"),
  FwRule("allow-ssh", "*", "*", "tcp", 22, 11, "both"),
  FwRule("allow-http-out", "net", "*", "tcp", 80, 20, "out"),
  FwRule("allow-https-out", "net", "*", "tcp", 443, 20, "out"),
  FwRule("allow-dns-udp", "*", "*", "udp", 53, 15, "both") >>

\* A rule of the configuration ("tcp:8000"), named after both.
ConfigRule(name, proto, port) == FwRule(name, "*", "*", proto, port, 50, "both")

IpMatches(ip, pattern) == pattern \in {"*", ip}

FwMatches(r, p) ==
  /\ r.dir \in {p.dir, "both"}
  /\ IpMatches(p.src, r.src) /\ IpMatches(p.dst, r.dst)
  /\ r.proto \in {"*", p.proto}
  /\ r.port \in {0, p.port}
FwHits(rs, p) == {i \in DOMAIN rs : FwMatches(rs[i], p)}

\* Mutant of FwDecision: the last match decides.
FwDecisionLast(p) ==
  FirstMatch(Reverse(fwRules), FwHits(Reverse(fwRules), p), "deny")
FwDecision(p) == FirstMatch(fwRules, FwHits(fwRules, p), "deny")

\* allow(): a LOG verdict lets the packet through, and so does the switch.
Passes(p) == ~fwOn \/ FwDecision(p) \in {"allow", "log"}

FwInit ==
  /\ fwRules = Built(OsFirewall) /\ fwLog = OsFirewall
  /\ fwOn = TRUE

FwAdd(r) ==
  /\ Cardinality({i \in DOMAIN fwRules : fwRules[i] \in ExtraFwRule}) < MaxFwExtra
  /\ fwRules' = Insert(fwRules, r) /\ fwLog' = Append(fwLog, r)
  /\ UNCHANGED fwOn

FwRemove(n) ==
  /\ n \in Names(fwRules)
  /\ fwRules' = WithoutName(fwRules, n) /\ fwLog' = WithoutName(fwLog, n)
  /\ UNCHANGED fwOn

FwFlush ==
  /\ fwRules' = <<>> /\ fwLog' = <<>>
  /\ UNCHANGED fwOn

FwSwitch == fwOn' = ~fwOn /\ UNCHANGED <<fwRules, fwLog>>

FwNext == \/ \E r \in ExtraFwRule : FwAdd(r)
          \/ \E n \in FwRemovable : FwRemove(n)
          \/ FwFlush \/ FwSwitch

-----------------------------------------------------------------------------
(* Properties. *)

FwTypeOK == fwOn \in BOOLEAN /\ Len(fwRules) <= Len(OsFirewall) + MaxFwExtra

\* The rules decide by priority, then age, and deny what none of them allows:
\* a packet gets through a firewall that is on only by the verdict of the
\* first of the rules still present (add_rule, remove_rule, flush, allow).
FirewallDecides ==
  \A p \in Packet :
    Passes(p) <=> \/ ~fwOn
                 \/ ByPriority(fwLog, FwHits(fwLog, p), "deny") \in {"allow", "log"}
=============================================================================
