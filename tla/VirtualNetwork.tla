---------------------------- MODULE VirtualNetwork ----------------------------
(***************************************************************************)
(* The DHCP server and the NAT table of aura/network, as NetworkStack puts *)
(* them together: clients lease an address, send packets from it through   *)
(* snat(), and replies come back through dnat().  Every operation is one   *)
(* critical section of its component's RLock.                              *)
(***************************************************************************)
EXTENDS Integers, Sequences, FiniteSets

CONSTANTS
  Mac,      \* the clients
  Pool,     \* the number of dynamic addresses of the subnet
  SrcPort,  \* the ports (with protocol) a client sends from
  ExtPorts  \* the number of ephemeral ports of the gateway

ASSUME NetworkAssumption == /\ IsFiniteSet(Mac) /\ Pool \in Nat
                            /\ ExtPorts \in Nat \ {0}

VARIABLES
  lease,    \* the address in self._leases of each client, 0 if none
  fresh,    \* the clients with an unexpired lease, least recently renewed first
  table,    \* the entries of NATTable._table in their order of insertion
  nextPort, \* NATTable._next_port
  enabled,  \* NATTable._enabled
  flow      \* the external port each client was last told for a source port
            \* of its present address, 0 if none

dhcpVars == <<lease, fresh>>
natVars  == <<table, nextPort, enabled>>
vars     == <<dhcpVars, natVars, flow>>

Address == 1..Pool
Entry   == [ip : Address, port : SrcPort, ext : 1..ExtPorts]
Valid   == {fresh[i] : i \in 1..Len(fresh)}
Quiet   == [s \in SrcPort |-> 0]

Init ==
  /\ lease = [m \in Mac |-> 0] /\ fresh = <<>>
  /\ table = <<>> /\ nextPort = 1 /\ enabled \in BOOLEAN
  /\ flow = [m \in Mac |-> Quiet]

-----------------------------------------------------------------------------
(* DHCP. *)

At(m) == CHOOSE i \in 1..Len(fresh) : fresh[i] = m
Without(m) == IF m \in Valid
              THEN SubSeq(fresh, 1, At(m) - 1) \o SubSeq(fresh, At(m) + 1, Len(fresh))
              ELSE fresh

\* The addresses in the lease table, those of expired leases included.
Assigned == {lease[m] : m \in Mac} \ {0}

\* Mutant of NextFree: the address after as many as are leased.
NextFreeByCount == {a \in Address : a = Cardinality(Assigned) + 1}

\* The lowest address without a lease, if there is one.
NextFree == {a \in Address \ Assigned : \A b \in Address \ Assigned : a <= b}

\* Mutant of Renew: a renewal is a new assignment.
RenewMoves(m) ==
  /\ m \in Valid
  /\ \E a \in NextFree : lease' = [lease EXCEPT ![m] = a]
  /\ fresh' = Append(Without(m), m)
  /\ UNCHANGED <<natVars, flow>>

Renew(m) ==
  /\ m \in Valid
  /\ fresh' = Append(Without(m), m)
  /\ UNCHANGED <<lease, natVars, flow>>

\* A client without a valid lease gets an address that is in no lease, not
\* even in its own expired one; without any the request raises.
Assign(m) ==
  /\ m \notin Valid
  /\ \E a \in NextFree : lease' = [lease EXCEPT ![m] = a]
  /\ fresh' = Append(fresh, m)
  /\ flow' = [flow EXCEPT ![m] = Quiet]
  /\ UNCHANGED natVars

Release(m) ==
  /\ lease[m] # 0
  /\ lease' = [lease EXCEPT ![m] = 0]
  /\ fresh' = Without(m)
  /\ flow' = [flow EXCEPT ![m] = Quiet]
  /\ UNCHANGED natVars

\* Time passes: the lease renewed least recently expires.  Its client stops
\* using the address; the lease table does not change.
Expire ==
  /\ fresh # <<>>
  /\ fresh' = Tail(fresh)
  /\ flow' = [flow EXCEPT ![Head(fresh)] = Quiet]
  /\ UNCHANGED <<lease, natVars>>

\* list_leases() and metrics() drop the expired leases.
EvictExpired ==
  /\ \E m \in Mac \ Valid : lease[m] # 0
  /\ lease' = [m \in Mac |-> IF m \in Valid THEN lease[m] ELSE 0]
  /\ UNCHANGED <<fresh, natVars, flow>>

-----------------------------------------------------------------------------
(* NAT. *)

\* Mutant of Following: the last port is passed once.
FollowingLate(p) == IF p > ExtPorts THEN 1 ELSE p + 1

\* _allocate_port wraps around without a look at the ports in use.
Following(p) == IF p = ExtPorts THEN 1 ELSE p + 1

Known(a, s) == {i \in 1..Len(table) : table[i].ip = a /\ table[i].port = s}

\* A packet of client m leaves by its entry of before, ...
SnatKnown(m, s) ==
  /\ enabled /\ m \in Valid
  /\ \E i \in Known(lease[m], s) : flow' = [flow EXCEPT ![m][s] = table[i].ext]
  /\ UNCHANGED <<dhcpVars, natVars>>

\* Mutant of SnatNew: the counter is not moved on.
SnatNewSamePort(m, s) ==
  /\ enabled /\ m \in Valid /\ Known(lease[m], s) = {}
  /\ table' = Append(table, [ip |-> lease[m], port |-> s, ext |-> nextPort])
  /\ flow' = [flow EXCEPT ![m][s] = nextPort]
  /\ UNCHANGED <<dhcpVars, nextPort, enabled>>

\* ... or by a new one with the next port.
SnatNew(m, s) ==
  /\ enabled /\ m \in Valid /\ Known(lease[m], s) = {}
  /\ table' = Append(table, [ip |-> lease[m], port |-> s, ext |-> nextPort])
  /\ nextPort' = Following(nextPort)
  /\ flow' = [flow EXCEPT ![m][s] = nextPort]
  /\ UNCHANGED <<dhcpVars, enabled>>

\* flush() forgets every flow; the clients are told nothing.
Flush ==
  /\ table' = <<>> /\ nextPort' = 1
  /\ flow' = [m \in Mac |-> Quiet]
  /\ UNCHANGED <<dhcpVars, enabled>>

\* The setter of "enabled": entries stay, and dnat() still uses them.
Switch ==
  /\ enabled' = ~enabled
  /\ UNCHANGED <<dhcpVars, table, nextPort, flow>>

\* dnat(): the oldest entry with the external port, as an index.
Dnat(p) == {i \in 1..Len(table) :
              table[i].ext = p /\ \A j \in 1..(i - 1) : table[j].ext # p}

Next == \/ \E m \in Mac : Renew(m) \/ Assign(m) \/ Release(m)
        \/ Expire \/ EvictExpired
        \/ \E m \in Mac, s \in SrcPort : SnatKnown(m, s) \/ SnatNew(m, s)
        \/ Flush \/ Switch

Spec == Init /\ [][Next]_vars

-----------------------------------------------------------------------------
(* Properties. *)

TypeOK ==
  /\ lease \in [Mac -> 0..Pool]
  /\ fresh \in Seq(Mac) /\ \A m \in Valid : lease[m] # 0
  /\ table \in Seq(Entry) /\ nextPort \in 1..ExtPorts /\ enabled \in BOOLEAN
  /\ flow \in [Mac -> [SrcPort -> 0..ExtPorts]]

\* No address is in two leases, so no client is given an address while
\* another one's lease on it is valid, whatever the order of requests,
\* renewals, expiries, releases and evictions (_next_free_ip).
AddressesUnique ==
  \A m, n \in Mac : m # n /\ lease[m] # 0 => lease[m] # lease[n]

\* A client that renews in time keeps its address: the address changes only
\* when the lease has expired or been released (request).
RenewalKeepsAddress ==
  [][\A m \in Valid : m \in Valid' => lease'[m] = lease[m]]_vars

\* Entry i was made before the port counter wrapped around.
Early(i) == i <= ExtPorts

\* "Return traffic can be de-NATted back to the correct internal host": a
\* reply to the port a client was told reaches the address and the source port
\* it was sent from, as long as the port was given out before the counter
\* wrapped around; later flows never take it over, since dnat() looks at
\* older entries first.
RepliesReachSender ==
  \A m \in Valid, s \in SrcPort :
    LET i == Known(lease[m], s)
    IN  flow[m][s] # 0 /\ (\A k \in i : Early(k)) => Dnat(flow[m][s]) = i
=============================================================================
