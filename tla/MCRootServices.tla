--------------------------- MODULE MCRootServices ---------------------------
(***************************************************************************)
(* What ROOT owns and hands out: addresses, names, rules, devices and      *)
(* identities.  The components do not call each other; a behaviour is one  *)
(* of each, chosen at the start.                                           *)
(***************************************************************************)
EXTENDS VirtualNetwork, PolicyGate, Firewall, NameService, Hardware, Identity, TLC

VARIABLE by   \* the component that moves in this behaviour

\* Who asks ROOT for what: allowed, audited, denied and at the mercy of the
\* extra rules.
MCRequest == { [subject |-> "root", action |-> "artefact.deploy", resource |-> "artefact"],
               [subject |-> "home", action |-> "device.read", resource |-> "dev"],
               [subject |-> "home", action |-> "device.open", resource |-> "dev"],
               [subject |-> "user", action |-> "write", resource |-> "system"] }
\* Two rules of one name and one priority that disagree, and one that comes
\* before a default it has the name of.
MCExtraRule == { PolicyRule("lock", "*", "device.open", "dev", "deny", 7),
                 PolicyRule("lock", "home", "*", "dev", "allow", 7),
                 PolicyRule("user-read", "*", "write", "*", "audit", 0) }
MCPacket == { [src |-> "wan", dst |-> "net", proto |-> "tcp", port |-> 22, dir |-> "in"],
              [src |-> "net", dst |-> "wan", proto |-> "tcp", port |-> 443, dir |-> "out"],
              [src |-> "wan", dst |-> "net", proto |-> "udp", port |-> 9, dir |-> "in"] }
MCExtraFwRule == { ConfigRule("config-allow-udp-9", "udp", 9),
                   [FwRule("block", "wan", "*", "*", 0, 50, "in") EXCEPT !.verdict = "drop"],
                   [FwRule("watch", "wan", "*", "*", 0, 11, "both") EXCEPT !.verdict = "log"] }
\* A short name, and the name it is short for; no name is twice qualified.
MCQualified == [n \in Name |-> "gw.local"]

MacSymmetry == Permutations(Mac)

rootVars == <<vars, gateVars, fwVars, dnsVars, hardwareVars, identityVars, by>>

\* One component moves, the others stay as they were at the start.
RootInit ==
  /\ Init /\ GateInit /\ FwInit /\ DnsInit
  /\ RamInit /\ DiskInit /\ BusInit /\ IdentityInit
  /\ by \in {"network", "policy", "firewall", "names", "ram", "disk", "bus", "identity"}
  /\ by # "network" => ~enabled
  /\ by # "names" => ~upstream /\ zone["gw.local"][1].value = CHOOSE ip \in Ip : TRUE
  /\ by # "disk" => volume[CHOOSE v \in Volume : TRUE] # None /\ dirs = {CHOOSE n \in Label : TRUE}

Rest == <<gateVars, fwVars, dnsVars, hardwareVars, identityVars>>
RootNext ==
  /\ UNCHANGED by
  /\ \/ by = "network" /\ Next /\ UNCHANGED Rest
     \/ by = "policy" /\ GateNext /\ UNCHANGED <<vars, fwVars, dnsVars, hardwareVars, identityVars>>
     \/ by = "firewall" /\ FwNext /\ UNCHANGED <<vars, gateVars, dnsVars, hardwareVars, identityVars>>
     \/ by = "names" /\ DnsNext /\ UNCHANGED <<vars, gateVars, fwVars, hardwareVars, identityVars>>
     \/ by = "identity" /\ IdentityNext
        /\ UNCHANGED <<vars, gateVars, fwVars, dnsVars, hardwareVars>>
     \/ /\ UNCHANGED <<vars, gateVars, fwVars, dnsVars, identityVars>>
        /\ \/ by = "ram" /\ RamNext /\ UNCHANGED <<diskVars, busVars>>
           \/ by = "disk" /\ DiskNext /\ UNCHANGED <<ramVars, busVars>>
           \/ by = "bus" /\ BusNext /\ UNCHANGED <<ramVars, diskVars>>

RootSpec == RootInit /\ [][RootNext]_rootVars

-----------------------------------------------------------------------------
(* Properties. *)

\* Requests, packets and names are answered by what was added and is still
\* there: rules by priority and age, nothing by a rule that is gone, and an
\* override until it is taken back.
AccessDecided ==
  /\ by = "policy" => GateTypeOK /\ PolicyDecides /\ AuditTellsMount
  /\ by = "firewall" => FwTypeOK /\ FirewallDecides
  /\ by = "names" => DnsTypeOK /\ OverrideHolds

\* Devices keep what they promised in spite of the order of the calls.
DevicesKeepPromises ==
  by \in {"ram", "disk", "bus"} =>
    HardwareTypeOK /\ RamWithinTotal /\ VolumesKeepData /\ ConnectedWasPaired

\* Late answers about tokens and sessions are never wrong on the unsafe side.
IdentitiesHonoured ==
  by = "identity" => IdentityTypeOK /\ TokensHonoured /\ ActiveNotOverstated
=============================================================================
