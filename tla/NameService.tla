---------------------------- MODULE NameService ----------------------------
(***************************************************************************)
(* The virtual DNS resolver of aura/network/dns.py: local records in the   *)
(* order they were added, then the search domain, then the upstream        *)
(* resolver of the host.  Names stand for their normalised form (lower     *)
(* case, no final dot).                                                    *)
(***************************************************************************)
EXTENDS Lists

CONSTANTS
  Name,       \* names as callers write them, normalised
  Qualified,  \* for each name, the name with the search domain appended
  Ip,         \* values of A records
  Seeded,     \* the names of _seed_defaults
  MaxRecords, \* bound on the records of one name
  NoAnswer    \* what resolve() returns when nothing is found

ASSUME NameAssumption == /\ Qualified \in [Name -> Name] /\ Seeded \subseteq Name
                         /\ MaxRecords \in Nat \ {0}

VARIABLES
  zone,       \* DNSResolver._records: the records of each name, in order
  pinned,     \* history: the answer that override() promised for a name and
              \* that no later removal or override took back
  upstream    \* whether the host's resolver answers at the moment

dnsVars == <<zone, pinned, upstream>>

ARec(ip) == [rtype |-> "A", value |-> ip]
Text(ip) == [rtype |-> "TXT", value |-> ip]
OfType(n, t) == Kept(zone[n], {r \in ToSet(zone[n]) : r.rtype = t})

DnsInit ==
  /\ \E ip \in Ip : zone = [n \in Name |-> IF n \in Seeded THEN <<ARec(ip)>> ELSE <<>>]
  /\ pinned = [n \in Name |-> NoAnswer] /\ upstream \in BOOLEAN

AddRecord(n, r) ==
  /\ Len(zone[n]) < MaxRecords
  /\ zone' = [zone EXCEPT ![n] = Append(@, r)]
  /\ UNCHANGED <<pinned, upstream>>

\* remove_record(n, t) keeps the records of other types, ...
RemoveType(n, t) ==
  /\ zone' = [zone EXCEPT ![n] = Kept(@, {r \in ToSet(@) : r.rtype # t})]
  /\ pinned' = IF t = "A" THEN [pinned EXCEPT ![n] = NoAnswer] ELSE pinned
  /\ UNCHANGED upstream

\* ... and without a type drops the name.
RemoveName(n) ==
  /\ zone' = [zone EXCEPT ![n] = <<>>] /\ pinned' = [pinned EXCEPT ![n] = NoAnswer]
  /\ UNCHANGED upstream

\* Mutant of Override: the new record joins the old ones.
OverrideAppends(n, ip) ==
  /\ Len(zone[n]) < MaxRecords
  /\ zone' = [zone EXCEPT ![n] = Append(@, ARec(ip))]
  /\ pinned' = [pinned EXCEPT ![n] = ip] /\ UNCHANGED upstream

\* override() replaces the records of every type, not only the A records.
Override(n, ip) ==
  /\ zone' = [zone EXCEPT ![n] = <<ARec(ip)>>]
  /\ pinned' = [pinned EXCEPT ![n] = ip]
  /\ UNCHANGED upstream

UpstreamChanges == upstream' = ~upstream /\ UNCHANGED <<zone, pinned>>

\* The host's resolver is asked for A records only; any of its answers, or
\* an error, which is swallowed.
UpstreamAnswers(t) == IF t = "A" /\ upstream THEN Ip ELSE {NoAnswer}

\* The answers resolve() may give.
Resolve(n, t) ==
  LET local  == OfType(n, t)
      search == OfType(Qualified[n], t)
  IN  IF local # <<>> THEN {Head(local).value}
      ELSE IF search # <<>> THEN {Head(search).value} ELSE UpstreamAnswers(t)

DnsNext ==
  \/ UpstreamChanges
  \/ \E n \in Name : \/ RemoveName(n)
                     \/ \E t \in {"A", "TXT"} : RemoveType(n, t)
                     \/ \E ip \in Ip : \/ Override(n, ip)
                                       \/ AddRecord(n, ARec(ip)) \/ AddRecord(n, Text(ip))

-----------------------------------------------------------------------------
(* Properties. *)

DnsTypeOK ==
  /\ zone \in [Name -> BoundedSeq([rtype : {"A", "TXT"}, value : Ip], MaxRecords)]
  /\ pinned \in [Name -> Ip \cup {NoAnswer}]

\* An override holds until it is taken back: records added later, for this
\* name or for the one in the search domain, never win over it, and neither
\* does the host's resolver; and what the zone answers for a name it keeps
\* answering whether the host's resolver works or not (override, resolve).
OverrideHolds ==
  \A n \in Name :
    /\ pinned[n] # NoAnswer => Resolve(n, "A") = {pinned[n]}
    /\ pinned[n] = NoAnswer /\ pinned[Qualified[n]] # NoAnswer /\ OfType(n, "A") = <<>>
         => Resolve(n, "A") = {pinned[Qualified[n]]}
=============================================================================
