------------------------- MODULE RootServicesProofs -------------------------
(***************************************************************************)
(* Proofs about what ROOT hands out: addresses and ports, for any clients, *)
(* any number of addresses and of external ports; identity tokens and      *)
(* sessions, for any finite set of tokens and any sessions and threads;    *)
(* memory, volumes and peripherals; and the answers of policy, firewall    *)
(* and name service.                                                       *)
(***************************************************************************)
EXTENDS MCRootServices, DataLemmas

-----------------------------------------------------------------------------
(* The virtual network: the inductive invariant. *)

\* No client is twice in the order of renewal.
FreshOnce == \A i, j \in 1..Len(fresh) : fresh[i] = fresh[j] => i = j

\* One entry per endpoint, and entry i has port i until the counter wraps.
EntryOnce == \A i, j \in 1..Len(table) :
               table[i].ip = table[j].ip /\ table[i].port = table[j].port => i = j
PortLaw   == /\ \A i \in 1..Len(table) : i <= ExtPorts => table[i].ext = i
             /\ Len(table) < ExtPorts => nextPort = Len(table) + 1

\* What a client was told is in the table.
FlowLaw == \A m \in Mac, s \in SrcPort : flow[m][s] # 0 =>
             m \in Valid /\ \E i \in Known(lease[m], s) : table[i].ext = flow[m][s]

IInv == TypeOK /\ AddressesUnique /\ FreshOnce /\ EntryOnce /\ PortLaw /\ FlowLaw

-----------------------------------------------------------------------------
(* The order of renewal. *)

\* Removing one element of a sequence.
LEMMA Removal ==
  ASSUME NEW S, NEW q \in Seq(S), NEW i \in 1..Len(q)
  PROVE  LET r == SubSeq(q, 1, i - 1) \o SubSeq(q, i + 1, Len(q))
         IN  /\ r \in Seq(S) /\ Len(r) = Len(q) - 1
             /\ \A k \in 1..Len(r) : r[k] = IF k < i THEN q[k] ELSE q[k + 1]
<1> DEFINE a == SubSeq(q, 1, i - 1)
           b == SubSeq(q, i + 1, Len(q))
<1>1. a \in Seq(S) /\ Len(a) = i - 1 /\ \A k \in 1..(i - 1) : a[k] = q[k]
  OBVIOUS
<1>2. b \in Seq(S) /\ Len(b) = Len(q) - i /\ \A k \in 1..(Len(q) - i) : b[k] = q[k + i]
  OBVIOUS
<1> HIDE DEF a, b
<1>3. a \o b \in Seq(S) /\ Len(a \o b) = Len(q) - 1
  <2>1. a \o b \in Seq(S) /\ Len(a \o b) = Len(a) + Len(b)
    BY <1>1, <1>2, ConcatProperties
  <2>2. Len(a) + Len(b) = Len(q) - 1 /\ Len(q) \in Nat
    BY <1>1, <1>2
  <2> QED BY <2>1, <2>2
<1>4. ASSUME NEW k \in 1..Len(a \o b)
      PROVE  (a \o b)[k] = IF k < i THEN q[k] ELSE q[k + 1]
  <2>1. CASE k < i
    BY <1>1, <1>2, <1>3, <2>1
  <2>2. CASE k >= i
    <3>1. (a \o b)[k] = b[k - (i - 1)] /\ k - (i - 1) \in 1..(Len(q) - i)
      BY <1>1, <1>2, <1>3, <2>2
    <3> QED BY <1>2, <3>1, <2>2
  <2> QED BY <1>3, <2>1, <2>2
<1> QED BY <1>3, <1>4 DEF a, b

\* Appending an element.
LEMMA Appending ==
  ASSUME NEW S, NEW q \in Seq(S), NEW e \in S
  PROVE  LET r == Append(q, e)
         IN  /\ r \in Seq(S)
             /\ \A n : (\E i \in 1..Len(r) : r[i] = n)
                       <=> n = e \/ \E i \in 1..Len(q) : q[i] = n
             /\ (\A i, j \in 1..Len(q) : q[i] = q[j] => i = j)
                /\ (\A i \in 1..Len(q) : q[i] # e)
                => \A i, j \in 1..Len(r) : r[i] = r[j] => i = j
<1> DEFINE r == Append(q, e)
<1>1. /\ r \in Seq(S) /\ Len(r) = Len(q) + 1 /\ Len(q) \in Nat
      /\ \A i \in 1..Len(q) : r[i] = q[i]
      /\ r[Len(q) + 1] = e
  OBVIOUS
<1> HIDE DEF r
<1>2. ASSUME NEW n, NEW i \in 1..Len(r), r[i] = n
      PROVE  n = e \/ \E k \in 1..Len(q) : q[k] = n
  <2>1. i \in 1..Len(q) \/ i = Len(q) + 1
    BY <1>1
  <2> QED BY <1>1, <1>2, <2>1
<1>3. ASSUME NEW n, n = e \/ \E k \in 1..Len(q) : q[k] = n
      PROVE  \E i \in 1..Len(r) : r[i] = n
  <2>1. 1..Len(q) \subseteq 1..Len(r) /\ Len(q) + 1 \in 1..Len(r)
    BY <1>1
  <2> QED BY <1>1, <1>3, <2>1
<1>4. ASSUME \A i, j \in 1..Len(q) : q[i] = q[j] => i = j,
             \A i \in 1..Len(q) : q[i] # e,
             NEW i \in 1..Len(r), NEW j \in 1..Len(r), r[i] = r[j]
      PROVE  i = j
  <2>1. (i \in 1..Len(q) \/ i = Len(q) + 1) /\ (j \in 1..Len(q) \/ j = Len(q) + 1)
    BY <1>1
  <2> QED BY <1>1, <1>4, <2>1
<1> QED BY <1>1, <1>2, <1>3, <1>4 DEF r

\* Without(m) is the rest of the order, without m.
LEMMA WithoutRest ==
  ASSUME fresh \in Seq(Mac), FreshOnce, NEW m \in Mac
  PROVE  /\ Without(m) \in Seq(Mac)
         /\ \A i, j \in 1..Len(Without(m)) : Without(m)[i] = Without(m)[j] => i = j
         /\ {Without(m)[i] : i \in 1..Len(Without(m))} = Valid \ {m}
<1>1. CASE m \notin Valid
  BY <1>1 DEF Without, Valid, FreshOnce
<1>2. CASE m \in Valid
  <2> DEFINE r == Without(m)
  <2>1. At(m) \in 1..Len(fresh) /\ fresh[At(m)] = m
    BY <1>2 DEF At, Valid
  <2>2. /\ r \in Seq(Mac) /\ Len(r) = Len(fresh) - 1
        /\ \A k \in 1..Len(r) : r[k] = IF k < At(m) THEN fresh[k] ELSE fresh[k + 1]
    BY <1>2, <2>1, Removal DEF Without
  <2> HIDE DEF r
  <2>3. ASSUME NEW i \in 1..Len(r), NEW j \in 1..Len(r), r[i] = r[j] PROVE i = j
    <3> DEFINE up(k) == IF k < At(m) THEN k ELSE k + 1
    <3>1. up(i) \in 1..Len(fresh) /\ up(j) \in 1..Len(fresh)
      BY <2>1, <2>2
    <3>2. fresh[up(i)] = fresh[up(j)]
      BY <2>2, <2>3
    <3>3. up(i) = up(j)
      BY <3>1, <3>2 DEF FreshOnce
    <3> QED BY <2>1, <3>3
  <2>4. ASSUME NEW k \in 1..Len(r) PROVE r[k] \in Valid \ {m}
    <3>1. CASE k < At(m)
      <4>1. r[k] = fresh[k] /\ k \in 1..Len(fresh) /\ k # At(m)
        BY <2>1, <2>2, <3>1
      <4> QED BY <2>1, <4>1 DEF FreshOnce, Valid
    <3>2. CASE k >= At(m)
      <4>1. r[k] = fresh[k + 1] /\ k + 1 \in 1..Len(fresh) /\ k + 1 # At(m)
        BY <2>1, <2>2, <3>2
      <4> QED BY <2>1, <4>1 DEF FreshOnce, Valid
    <3> QED BY <2>1, <3>1, <3>2
  <2>5. ASSUME NEW n \in Valid \ {m} PROVE \E k \in 1..Len(r) : r[k] = n
    <3>1. PICK i \in 1..Len(fresh) : fresh[i] = n
      BY DEF Valid
    <3>2. i # At(m)
      BY <2>1, <3>1
    <3>3. CASE i < At(m)
      BY <2>1, <2>2, <3>1, <3>3
    <3>4. CASE i > At(m)
      <4>1. i - 1 \in 1..Len(r) /\ ~(i - 1 < At(m)) /\ (i - 1) + 1 = i
        BY <2>1, <2>2, <3>4
      <4> QED BY <2>2, <3>1, <4>1
    <3> QED BY <2>1, <3>2, <3>3, <3>4
  <2>6. {r[k] : k \in 1..Len(r)} = Valid \ {m}
    BY <2>4, <2>5
  <2> QED BY <2>2, <2>3, <2>6 DEF r
<1> QED BY <1>1, <1>2

-----------------------------------------------------------------------------
(* The invariant holds initially. *)

LEMMA InitIInv == Init => IInv
<1> SUFFICES ASSUME Init PROVE IInv
  OBVIOUS
<1>1. TypeOK
  <2>1. fresh \in Seq(Mac) /\ table \in Seq(Entry) /\ Valid = {}
    BY DEF Init, Valid
  <2>2. nextPort \in 1..ExtPorts /\ 0 \in 0..Pool /\ 0 \in 0..ExtPorts
    BY NetworkAssumption DEF Init
  <2> QED BY <2>1, <2>2, Zenon DEF Init, TypeOK, Quiet
<1>2. AddressesUnique /\ FreshOnce /\ EntryOnce /\ PortLaw
  BY DEF Init, AddressesUnique, FreshOnce, EntryOnce, PortLaw
<1>3. FlowLaw
  BY DEF Init, FlowLaw, Quiet
<1> QED BY <1>1, <1>2, <1>3 DEF IInv

-----------------------------------------------------------------------------
(* DHCP preserves the invariant. *)

\* Client n's flows are forgotten, or kept with its lease.
FlowKept(n) == \/ flow'[n] = Quiet
           \/ /\ flow'[n] = flow[n] /\ lease'[n] = lease[n]
              /\ n \in Valid => n \in Valid'

\* What a DHCP operation owes: a client whose flows are kept keeps its lease.
LEMMA DhcpKeeps ==
  ASSUME IInv, UNCHANGED natVars,
         lease' \in [Mac -> 0..Pool], fresh' \in Seq(Mac),
         flow' \in [Mac -> [SrcPort -> 0..ExtPorts]],
         \A m \in Valid' : lease'[m] # 0,
         AddressesUnique', FreshOnce',
         \A n \in Mac : FlowKept(n)
  PROVE  IInv'
<1>1. TypeOK'
  BY Zenon DEF IInv, TypeOK, natVars
<1>2. EntryOnce' /\ PortLaw'
  BY DEF IInv, EntryOnce, PortLaw, natVars
<1>3. FlowLaw'
  <2> SUFFICES ASSUME NEW m \in Mac, NEW s \in SrcPort, flow'[m][s] # 0
               PROVE  m \in Valid' /\ \E i \in Known(lease[m], s)' : table'[i].ext = flow'[m][s]
    BY Zenon DEF FlowLaw
  <2>1. flow'[m] # Quiet
    BY DEF Quiet
  <2>2. flow'[m] = flow[m] /\ lease'[m] = lease[m] /\ (m \in Valid => m \in Valid') /\ table' = table
    BY <2>1 DEF natVars, FlowKept
  <2>3. Known(lease[m], s)' = Known(lease[m], s)
    BY <2>2 DEF Known
  <2>4. m \in Valid /\ \E i \in Known(lease[m], s) : table[i].ext = flow[m][s]
    BY <2>2 DEF IInv, FlowLaw
  <2> QED BY <2>2, <2>3, <2>4
<1> QED BY <1>1, <1>2, <1>3 DEF IInv

\* The elements of Valid, before and after a step.
LEMMA ValidElements ==
  /\ \A n : n \in Valid <=> \E i \in 1..Len(fresh) : fresh[i] = n
  /\ \A n : n \in Valid' <=> \E i \in 1..Len(fresh') : fresh'[i] = n
BY DEF Valid

\* When one client's flows are forgotten, the others' flows and leases stay.
LEMMA OtherFlowsKeep ==
  ASSUME NEW m \in Mac, NEW a, lease \in [Mac -> 0..Pool],
         flow \in [Mac -> [SrcPort -> 0..ExtPorts]],
         flow' = [flow EXCEPT ![m] = Quiet],
         lease' = lease \/ lease' = [lease EXCEPT ![m] = a],
         \A n \in Mac : n # m /\ n \in Valid => n \in Valid'
  PROVE  /\ flow' \in [Mac -> [SrcPort -> 0..ExtPorts]]
         /\ \A n \in Mac : FlowKept(n)
<1>1. flow' \in [Mac -> [SrcPort -> 0..ExtPorts]]
  <2>1. Quiet \in [SrcPort -> 0..ExtPorts]
    BY NetworkAssumption DEF Quiet
  <2> QED BY <2>1
<1>2. ASSUME NEW n \in Mac, n # m
      PROVE  flow'[n] = flow[n] /\ lease'[n] = lease[n] /\ (n \in Valid => n \in Valid')
  BY <1>2
<1>3. flow'[m] = Quiet
  OBVIOUS
<1>4. ASSUME NEW n \in Mac PROVE FlowKept(n)
  <2>1. CASE n = m
    BY <1>3, <2>1 DEF FlowKept
  <2>2. CASE n # m
    BY <1>2, <2>2 DEF FlowKept
  <2> QED BY <2>1, <2>2
<1> QED BY <1>1, <1>4

LEMMA RenewIInv == ASSUME IInv, NEW m \in Mac, Renew(m) PROVE IInv'
<1>0. /\ lease \in [Mac -> 0..Pool] /\ fresh \in Seq(Mac) /\ Len(fresh) \in Nat
      /\ flow \in [Mac -> [SrcPort -> 0..ExtPorts]]
      /\ AddressesUnique /\ FreshOnce /\ FlowLaw /\ \A n \in Valid : lease[n] # 0
  BY DEF IInv, TypeOK
<1> DEFINE r == Without(m)
<1>1. /\ r \in Seq(Mac) /\ \A i, j \in 1..Len(r) : r[i] = r[j] => i = j
      /\ {r[i] : i \in 1..Len(r)} = Valid \ {m}
  BY <1>0, WithoutRest
<1> HIDE DEF r
<1>2. fresh' = Append(r, m) /\ m \in Valid /\ UNCHANGED <<lease, natVars, flow>>
  BY DEF Renew, r
<1>3. /\ fresh' \in Seq(Mac)
      /\ \A n : (\E i \in 1..Len(fresh') : fresh'[i] = n)
                <=> n = m \/ \E i \in 1..Len(r) : r[i] = n
      /\ (\A i \in 1..Len(r) : r[i] # m) => FreshOnce'
  BY <1>1, <1>2, Appending DEF FreshOnce
<1>4. \A n : n \in Valid' <=> n \in Valid
  <2>1. \A n : (\E i \in 1..Len(r) : r[i] = n) <=> n \in Valid \ {m}
    BY <1>1, Zenon
  <2> QED BY <1>2, <1>3, <2>1, ValidElements
<1>5. FreshOnce'
  <2>1. \A i \in 1..Len(r) : r[i] # m
    BY <1>1
  <2> QED BY <1>3, <2>1
<1>6. AddressesUnique'
  BY <1>0, <1>2 DEF AddressesUnique
<1>7. \A n \in Mac : FlowKept(n)
  BY <1>2, <1>4 DEF FlowKept
<1>8. /\ flow' \in [Mac -> [SrcPort -> 0..ExtPorts]] /\ lease' \in [Mac -> 0..Pool]
      /\ \A n \in Valid' : lease'[n] # 0
  BY <1>0, <1>2, <1>4
<1> QED BY <1>2, <1>3, <1>5, <1>6, <1>7, <1>8, DhcpKeeps

LEMMA AssignIInv == ASSUME IInv, NEW m \in Mac, Assign(m) PROVE IInv'
<1>0. /\ lease \in [Mac -> 0..Pool] /\ fresh \in Seq(Mac) /\ Len(fresh) \in Nat
      /\ flow \in [Mac -> [SrcPort -> 0..ExtPorts]]
      /\ AddressesUnique /\ FreshOnce /\ FlowLaw /\ \A n \in Valid : lease[n] # 0
  BY DEF IInv, TypeOK
<1>1. PICK a \in NextFree : lease' = [lease EXCEPT ![m] = a]
  BY DEF Assign
<1>2. a \in Address \ Assigned /\ a \in 1..Pool
  BY DEF NextFree, Address
<1>3. /\ m \notin Valid /\ fresh' = Append(fresh, m) /\ UNCHANGED natVars
      /\ flow' = [flow EXCEPT ![m] = Quiet]
  BY DEF Assign
<1>4. /\ fresh' \in Seq(Mac)
      /\ \A n : (\E i \in 1..Len(fresh') : fresh'[i] = n)
                <=> n = m \/ \E i \in 1..Len(fresh) : fresh[i] = n
      /\ (\A i \in 1..Len(fresh) : fresh[i] # m) => FreshOnce'
  <2>1. Append(fresh, m) \in Seq(Mac)
    BY <1>0
  <2>2. FreshOnce <=> \A i, j \in 1..Len(fresh) : fresh[i] = fresh[j] => i = j
    BY DEF FreshOnce
  <2>3. FreshOnce' <=> \A i, j \in 1..Len(fresh') : fresh'[i] = fresh'[j] => i = j
    BY DEF FreshOnce
  <2>4. /\ \A n : (\E i \in 1..Len(fresh') : fresh'[i] = n)
                 <=> n = m \/ \E i \in 1..Len(fresh) : fresh[i] = n
        /\ FreshOnce /\ (\A i \in 1..Len(fresh) : fresh[i] # m) => FreshOnce'
    <3>1. fresh \in Seq(Mac) /\ fresh' = Append(fresh, m)
      BY <1>0, <1>3
    <3> QED BY <3>1, <2>2, <2>3, Appending
  <2> QED BY <1>0, <1>3, <2>1, <2>4
<1>5. \A n : n \in Valid' <=> n \in Valid \/ n = m
  BY <1>4, ValidElements
<1>6. FreshOnce'
  <2>1. \A i \in 1..Len(fresh) : fresh[i] # m
    BY <1>3, ValidElements
  <2> QED BY <1>4, <2>1
<1>7. lease' \in [Mac -> 0..Pool]
  BY <1>0, <1>1, <1>2
<1>8. AddressesUnique'
  <2> SUFFICES ASSUME NEW n \in Mac, NEW k \in Mac, n # k, lease'[n] # 0
               PROVE  lease'[n] # lease'[k]
    BY DEF AddressesUnique
  <2>1. \A j \in Mac : lease[j] # a
    BY <1>0, <1>2 DEF Assigned
  <2> QED BY <1>0, <1>1, <2>1 DEF AddressesUnique
<1>9. \A n \in Valid' : lease'[n] # 0
  BY <1>0, <1>1, <1>2, <1>5
<1>10. /\ flow' \in [Mac -> [SrcPort -> 0..ExtPorts]]
       /\ \A n \in Mac : FlowKept(n)
  BY <1>0, <1>1, <1>3, <1>5, OtherFlowsKeep
<1> QED BY <1>0, <1>3, <1>4, <1>6, <1>7, <1>8, <1>9, <1>10, DhcpKeeps

LEMMA ReleaseIInv == ASSUME IInv, NEW m \in Mac, Release(m) PROVE IInv'
<1>0. /\ lease \in [Mac -> 0..Pool] /\ fresh \in Seq(Mac) /\ Len(fresh) \in Nat
      /\ flow \in [Mac -> [SrcPort -> 0..ExtPorts]]
      /\ AddressesUnique /\ FreshOnce /\ FlowLaw /\ \A n \in Valid : lease[n] # 0
  BY DEF IInv, TypeOK
<1>1. /\ Without(m) \in Seq(Mac)
      /\ \A i, j \in 1..Len(Without(m)) : Without(m)[i] = Without(m)[j] => i = j
      /\ {Without(m)[i] : i \in 1..Len(Without(m))} = Valid \ {m}
  BY <1>0, WithoutRest
<1>2. /\ fresh' = Without(m) /\ lease' = [lease EXCEPT ![m] = 0]
      /\ flow' = [flow EXCEPT ![m] = Quiet] /\ UNCHANGED natVars
  BY DEF Release
<1>3. (\A n : n \in Valid' <=> n \in Valid /\ n # m) /\ FreshOnce' /\ fresh' \in Seq(Mac)
  <2>1. \A n : (\E i \in 1..Len(fresh') : fresh'[i] = n) <=> n \in Valid \ {m}
    BY <1>0, <1>1, <1>2, Zenon
  <2>2. FreshOnce' /\ fresh' \in Seq(Mac)
    BY <1>0, <1>1, <1>2 DEF FreshOnce
  <2> QED BY <2>1, <2>2, ValidElements
<1>4. lease' \in [Mac -> 0..Pool]
  BY <1>0, <1>2, NetworkAssumption
<1>5. AddressesUnique'
  BY <1>0, <1>2 DEF AddressesUnique
<1>9. Valid \subseteq Mac
  BY <1>0 DEF Valid
<1>6. \A n \in Valid' : lease'[n] # 0
  <2>1. \A n \in Valid' : n \in Mac /\ n # m /\ n \in Valid
    BY <1>3, <1>9
  <2> QED BY <1>0, <1>2, <2>1
<1>7. /\ flow' \in [Mac -> [SrcPort -> 0..ExtPorts]]
      /\ \A n \in Mac : FlowKept(n)
  BY <1>0, <1>2, <1>3, OtherFlowsKeep
<1> QED BY <1>0, <1>2, <1>3, <1>4, <1>5, <1>6, <1>7, DhcpKeeps

LEMMA ExpireIInv == ASSUME IInv, Expire PROVE IInv'
<1>0. /\ lease \in [Mac -> 0..Pool] /\ fresh \in Seq(Mac) /\ Len(fresh) \in Nat
      /\ flow \in [Mac -> [SrcPort -> 0..ExtPorts]]
      /\ AddressesUnique /\ FreshOnce /\ FlowLaw /\ \A n \in Valid : lease[n] # 0
  BY DEF IInv, TypeOK
<1>1. /\ fresh # <<>> /\ fresh' = Tail(fresh) /\ UNCHANGED <<lease, natVars>>
      /\ flow' = [flow EXCEPT ![Head(fresh)] = Quiet]
  BY DEF Expire
<1>2. /\ Head(fresh) = fresh[1] /\ Head(fresh) \in Mac
      /\ fresh' \in Seq(Mac) /\ Len(fresh') = Len(fresh) - 1 /\ Len(fresh) \in Nat \ {0}
      /\ \A i \in 1..Len(fresh') : fresh'[i] = fresh[i + 1]
  BY <1>0, <1>1
<1>3. Valid' \subseteq Valid
  <2> SUFFICES ASSUME NEW n \in Valid' PROVE n \in Valid
    OBVIOUS
  <2>1. PICK i \in 1..Len(fresh') : fresh'[i] = n
    BY ValidElements
  <2>2. i + 1 \in 1..Len(fresh) /\ fresh[i + 1] = n
    BY <1>2, <2>1
  <2> QED BY <2>2, ValidElements
<1>4. \A n \in Valid \ {Head(fresh)} : n \in Valid'
  <2> SUFFICES ASSUME NEW n \in Valid \ {Head(fresh)} PROVE n \in Valid'
    OBVIOUS
  <2>1. PICK i \in 1..Len(fresh) : fresh[i] = n
    BY ValidElements
  <2>2. i # 1
    BY <1>0, <1>2, <2>1
  <2>3. i - 1 \in 1..Len(fresh') /\ (i - 1) + 1 = i
    BY <1>0, <1>2, <2>2
  <2>4. fresh'[i - 1] = n
    BY <1>0, <1>2, <2>1, <2>3
  <2> QED BY <2>3, <2>4, ValidElements
<1>5. FreshOnce'
  <2> SUFFICES ASSUME NEW i \in 1..Len(fresh'), NEW j \in 1..Len(fresh'),
                      fresh'[i] = fresh'[j]
               PROVE  i = j
    BY Zenon DEF FreshOnce
  <2>1. i + 1 \in 1..Len(fresh) /\ j + 1 \in 1..Len(fresh) /\ fresh[i + 1] = fresh[j + 1]
    BY <1>2
  <2> QED BY <1>0, <2>1 DEF FreshOnce
<1>6. AddressesUnique' /\ \A n \in Valid' : lease'[n] # 0
  BY <1>0, <1>1, <1>3 DEF AddressesUnique
<1>7. /\ flow' \in [Mac -> [SrcPort -> 0..ExtPorts]]
      /\ \A n \in Mac : FlowKept(n)
  <2>1. \A n \in Mac : n # Head(fresh) /\ n \in Valid => n \in Valid'
    BY <1>4
  <2>2. lease' = lease
    BY <1>1
  <2> QED BY <1>0, <1>1, <1>2, <2>1, <2>2, OtherFlowsKeep
<1> QED BY <1>0, <1>1, <1>2, <1>5, <1>6, <1>7, DhcpKeeps

LEMMA EvictIInv == ASSUME IInv, EvictExpired PROVE IInv'
<1>0. /\ lease \in [Mac -> 0..Pool] /\ fresh \in Seq(Mac) /\ Len(fresh) \in Nat
      /\ flow \in [Mac -> [SrcPort -> 0..ExtPorts]]
      /\ AddressesUnique /\ FreshOnce /\ FlowLaw /\ \A n \in Valid : lease[n] # 0
  BY DEF IInv, TypeOK
<1>1. /\ lease' = [m \in Mac |-> IF m \in Valid THEN lease[m] ELSE 0]
      /\ UNCHANGED <<fresh, natVars, flow>>
  BY DEF EvictExpired
<1>2. Valid' = Valid /\ FreshOnce' /\ Valid \subseteq Mac
  BY <1>0, <1>1 DEF Valid, FreshOnce
<1>3. lease' \in [Mac -> 0..Pool]
  BY <1>0, <1>1, NetworkAssumption
<1>4. AddressesUnique' /\ \A n \in Valid' : lease'[n] # 0
  BY <1>0, <1>1, <1>2 DEF AddressesUnique
<1>5. ASSUME NEW n \in Mac PROVE FlowKept(n)
  <2>1. CASE n \in Valid
    BY <1>1, <1>2, <2>1 DEF FlowKept
  <2>2. CASE n \notin Valid
    <3>1. \A s \in SrcPort : flow[n][s] = 0
      BY <1>0, <2>2 DEF FlowLaw
    <3>2. flow[n] \in [SrcPort -> 0..ExtPorts]
      BY <1>0
    <3>3. flow[n] = Quiet
      BY <3>1, <3>2 DEF Quiet
    <3> QED BY <1>1, <3>3 DEF FlowKept
  <2> QED BY <2>1, <2>2
<1> QED BY <1>0, <1>1, <1>2, <1>3, <1>4, <1>5, DhcpKeeps
-----------------------------------------------------------------------------
(* NAT preserves the invariant. *)

LEMMA SnatKnownIInv ==
  ASSUME IInv, NEW m \in Mac, NEW s \in SrcPort, SnatKnown(m, s)
  PROVE  IInv'
<1>1. /\ m \in Valid /\ UNCHANGED <<lease, fresh, table, nextPort, enabled>>
      /\ \E i \in Known(lease[m], s) : flow' = [flow EXCEPT ![m][s] = table[i].ext]
  BY DEF SnatKnown, dhcpVars, natVars
<1>2. PICK i \in Known(lease[m], s) : flow' = [flow EXCEPT ![m][s] = table[i].ext]
  BY <1>1
<1>3. i \in 1..Len(table) /\ table[i].ext \in 1..ExtPorts
  <2>1. i \in 1..Len(table)
    BY DEF Known
  <2>2. table \in Seq(Entry)
    BY DEF IInv, TypeOK
  <2>3. table[i] \in Entry
    BY <2>1, <2>2
  <2> QED BY <2>1, <2>3 DEF Entry
<1>4. flow \in [Mac -> [SrcPort -> 0..ExtPorts]]
  BY DEF IInv, TypeOK
<1>5. flow' \in [Mac -> [SrcPort -> 0..ExtPorts]]
  BY <1>2, <1>3, <1>4
<1>6. TypeOK'
  BY <1>1, <1>5, Zenon DEF IInv, TypeOK, Valid
<1>7. AddressesUnique' /\ FreshOnce' /\ EntryOnce' /\ PortLaw'
  BY <1>1 DEF IInv, AddressesUnique, FreshOnce, EntryOnce, PortLaw
<1>8. FlowLaw'
  <2> SUFFICES ASSUME NEW n \in Mac, NEW t \in SrcPort, flow'[n][t] # 0
               PROVE  n \in Valid' /\ \E k \in Known(lease[n], t)' : table'[k].ext = flow'[n][t]
    BY Zenon DEF FlowLaw
  <2>1. Known(lease[n], t)' = Known(lease[n], t) /\ (n \in Valid' <=> n \in Valid)
    BY <1>1 DEF Known, Valid
  <2>2. CASE n = m /\ t = s
    BY <1>1, <1>2, <1>4, <2>1, <2>2
  <2>3. CASE ~(n = m /\ t = s)
    <3>1. flow'[n][t] = flow[n][t]
      BY <1>2, <1>4, <2>3
    <3> QED BY <1>1, <2>1, <3>1 DEF IInv, FlowLaw
  <2> QED BY <2>2, <2>3
<1> QED BY <1>6, <1>7, <1>8 DEF IInv

LEMMA SnatNewIInv ==
  ASSUME IInv, NEW m \in Mac, NEW s \in SrcPort, SnatNew(m, s)
  PROVE  IInv'
<1> DEFINE e == [ip |-> lease[m], port |-> s, ext |-> nextPort]
           N == Len(table)
<1>1. /\ m \in Valid /\ Known(lease[m], s) = {} /\ UNCHANGED <<lease, fresh, enabled>>
      /\ table' = Append(table, e) /\ nextPort' = Following(nextPort)
      /\ flow' = [flow EXCEPT ![m][s] = nextPort]
  BY DEF SnatNew, dhcpVars
<1>2. /\ table \in Seq(Entry) /\ nextPort \in 1..ExtPorts /\ lease[m] \in Address
      /\ flow \in [Mac -> [SrcPort -> 0..ExtPorts]] /\ N \in Nat
  BY <1>1 DEF IInv, TypeOK, Address
<1>3. e \in Entry
  BY <1>2 DEF Entry
<1>4. /\ table' \in Seq(Entry) /\ Len(table') = N + 1 /\ table'[N + 1] = e
      /\ \A i \in 1..N : table'[i] = table[i]
  BY <1>1, <1>2, <1>3
<1>5. nextPort' \in 1..ExtPorts
  BY <1>1, <1>2, NetworkAssumption DEF Following
<1>6. flow' \in [Mac -> [SrcPort -> 0..ExtPorts]]
  BY <1>1, <1>2
<1>7. TypeOK'
  BY <1>1, <1>4, <1>5, <1>6, Zenon DEF IInv, TypeOK, Valid
<1>8. AddressesUnique' /\ FreshOnce'
  BY <1>1 DEF IInv, AddressesUnique, FreshOnce
<1>9. EntryOnce'
  <2> SUFFICES ASSUME NEW i \in 1..(N + 1), NEW j \in 1..(N + 1),
                      table'[i].ip = table'[j].ip, table'[i].port = table'[j].port
               PROVE  i = j
    BY <1>4 DEF EntryOnce
  <2>1. \A k \in 1..N : ~(table[k].ip = lease[m] /\ table[k].port = s)
    BY <1>1 DEF Known
  <2>2. e.ip = lease[m] /\ e.port = s
    OBVIOUS
  <2>3. CASE i \in 1..N /\ j \in 1..N
    BY <1>4, <2>3 DEF IInv, EntryOnce
  <2>4. CASE i = N + 1 /\ j \in 1..N
    BY <1>4, <2>1, <2>2, <2>4
  <2>5. CASE j = N + 1 /\ i \in 1..N
    BY <1>4, <2>1, <2>2, <2>5
  <2> QED BY <1>2, <2>3, <2>4, <2>5
<1>10. PortLaw'
  <2>1. \A i \in 1..Len(table') : i <= ExtPorts => table'[i].ext = i
    <3> SUFFICES ASSUME NEW i \in 1..(N + 1), i <= ExtPorts PROVE table'[i].ext = i
      BY <1>4
    <3>1. CASE i \in 1..N
      BY <1>4, <3>1 DEF IInv, PortLaw
    <3>2. CASE i = N + 1
      <4>1. nextPort = N + 1
        BY <1>2, <3>2, NetworkAssumption DEF IInv, PortLaw
      <4> QED BY <1>4, <3>2, <4>1
    <3> QED BY <1>2, <3>1, <3>2
  <2>2. Len(table') < ExtPorts => nextPort' = Len(table') + 1
    BY <1>1, <1>2, <1>4, NetworkAssumption DEF IInv, PortLaw, Following
  <2> QED BY <2>1, <2>2 DEF PortLaw
<1>11. FlowLaw'
  <2> SUFFICES ASSUME NEW n \in Mac, NEW t \in SrcPort, flow'[n][t] # 0
               PROVE  n \in Valid' /\ \E k \in Known(lease[n], t)' : table'[k].ext = flow'[n][t]
    BY Zenon DEF FlowLaw
  <2>1. n \in Valid' <=> n \in Valid
    BY <1>1 DEF Valid
  <2>2. CASE n = m /\ t = s
    <3>1. N + 1 \in Known(lease[n], t)'
      BY <1>1, <1>2, <1>4, <2>2 DEF Known
    <3>2. table'[N + 1].ext = nextPort /\ flow'[n][t] = nextPort
      BY <1>1, <1>2, <1>4, <2>2
    <3> QED BY <1>1, <2>1, <2>2, <3>1, <3>2
  <2>3. CASE ~(n = m /\ t = s)
    <3>1. flow'[n][t] = flow[n][t]
      BY <1>1, <1>2, <2>3
    <3>2. n \in Valid /\ \E k \in Known(lease[n], t) : table[k].ext = flow[n][t]
      BY <3>1 DEF IInv, FlowLaw
    <3>3. PICK k \in Known(lease[n], t) : table[k].ext = flow[n][t]
      BY <3>2
    <3>4. k \in Known(lease[n], t)' /\ table'[k].ext = table[k].ext
      BY <1>1, <1>2, <1>4 DEF Known
    <3> QED BY <2>1, <3>1, <3>2, <3>3, <3>4
  <2> QED BY <2>2, <2>3
<1> QED BY <1>7, <1>8, <1>9, <1>10, <1>11 DEF IInv

LEMMA FlushIInv == ASSUME IInv, Flush PROVE IInv'
<1>1. /\ UNCHANGED <<lease, fresh, enabled>> /\ table' = <<>> /\ nextPort' = 1
      /\ flow' = [m \in Mac |-> Quiet]
  BY DEF Flush, dhcpVars
<1>2. /\ table' \in Seq(Entry) /\ nextPort' \in 1..ExtPorts
      /\ flow' \in [Mac -> [SrcPort -> 0..ExtPorts]]
  BY <1>1, NetworkAssumption DEF Quiet
<1>3. TypeOK'
  BY <1>1, <1>2, Zenon DEF IInv, TypeOK, Valid
<1>4. AddressesUnique' /\ FreshOnce' /\ EntryOnce' /\ PortLaw'
  BY <1>1 DEF IInv, AddressesUnique, FreshOnce, EntryOnce, PortLaw
<1>5. FlowLaw'
  BY <1>1 DEF FlowLaw, Quiet
<1> QED BY <1>3, <1>4, <1>5 DEF IInv

LEMMA IdleIInv == ASSUME IInv, UNCHANGED <<lease, fresh, table, nextPort, flow>>,
                         enabled' \in BOOLEAN
                  PROVE  IInv'
<1>1. TypeOK'
  BY Zenon DEF IInv, TypeOK, Valid
<1>2. AddressesUnique' /\ FreshOnce' /\ EntryOnce' /\ PortLaw'
  BY DEF IInv, AddressesUnique, FreshOnce, EntryOnce, PortLaw
<1>3. FlowLaw'
  BY DEF IInv, FlowLaw, Valid, Known
<1> QED BY <1>1, <1>2, <1>3 DEF IInv

-----------------------------------------------------------------------------
(* The theorems. *)

LEMMA Inductive == IInv /\ [Next]_vars => IInv'
<1> SUFFICES ASSUME IInv, [Next]_vars PROVE IInv'
  OBVIOUS
<1>1. ASSUME NEW m \in Mac, Renew(m) \/ Assign(m) \/ Release(m) PROVE IInv'
  BY <1>1, RenewIInv, AssignIInv, ReleaseIInv
<1>2. CASE Expire \/ EvictExpired
  BY <1>2, ExpireIInv, EvictIInv
<1>3. ASSUME NEW m \in Mac, NEW s \in SrcPort, SnatKnown(m, s) \/ SnatNew(m, s) PROVE IInv'
  BY <1>3, SnatKnownIInv, SnatNewIInv
<1>4. CASE Flush
  BY <1>4, FlushIInv
<1>5. CASE Switch \/ UNCHANGED vars
  <2>1. enabled \in BOOLEAN
    BY DEF IInv, TypeOK
  <2>2. UNCHANGED <<lease, fresh, table, nextPort, flow>> /\ enabled' \in BOOLEAN
    BY <1>5, <2>1, Zenon DEF Switch, vars, dhcpVars, natVars
  <2> QED BY <2>2, IdleIInv
<1> QED BY <1>1, <1>2, <1>3, <1>4, <1>5 DEF Next

LEMMA Invariance == Spec => []IInv
BY InitIInv, Inductive, PTL DEF Spec

\* The state of the DHCP server and the NAT table is well typed.
THEOREM TypeCorrect == Spec => []TypeOK
<1>1. IInv => TypeOK
  BY DEF IInv
<1> QED BY <1>1, Invariance, PTL

\* No address is ever in two leases, for any number of clients and addresses.
THEOREM NoSharedAddress == Spec => []AddressesUnique
<1>1. IInv => AddressesUnique
  BY DEF IInv
<1> QED BY <1>1, Invariance, PTL

\* A reply to a port given out before the counter wrapped reaches its sender,
\* for any number of ports and any interleaving of leases and flows.
THEOREM ReturnTraffic == Spec => []RepliesReachSender
<1>1. IInv => RepliesReachSender
  <2> SUFFICES ASSUME IInv, NEW m \in Valid, NEW s \in SrcPort, flow[m][s] # 0,
                      \A k \in Known(lease[m], s) : Early(k)
               PROVE  Dnat(flow[m][s]) = Known(lease[m], s)
    BY Zenon DEF RepliesReachSender
  <2>1. m \in Mac /\ Len(table) \in Nat
    BY DEF IInv, TypeOK, Valid
  <2>2. PICK k \in Known(lease[m], s) : table[k].ext = flow[m][s]
    BY <2>1 DEF IInv, FlowLaw
  <2>3. k \in 1..Len(table) /\ k <= ExtPorts /\ flow[m][s] = k
    BY <2>2 DEF Known, Early, IInv, PortLaw
  <2>4. Known(lease[m], s) = {k}
    BY <2>2, <2>3 DEF Known, IInv, EntryOnce
  <2>5. \A j \in 1..Len(table) : j < k => table[j].ext # k
    BY <2>1, <2>3, NetworkAssumption DEF IInv, PortLaw
  <2>6. k \in Dnat(k)
    BY <2>1, <2>2, <2>3, <2>5 DEF Dnat
  <2>7. ASSUME NEW i \in Dnat(k) PROVE i = k
    <3>1. /\ i \in 1..Len(table) /\ table[i].ext = k
          /\ \A j \in 1..(i - 1) : table[j].ext # k
      BY <2>7 DEF Dnat
    <3>2. ~(i < k)
      BY <2>5, <3>1
    <3>3. ~(k < i)
      BY <2>1, <2>2, <2>3, <3>1
    <3> QED BY <2>3, <3>1, <3>2, <3>3
  <2> QED BY <2>3, <2>4, <2>6, <2>7
<1> QED BY <1>1, Invariance, PTL

\* A lease that is renewed before it expires never changes its address.
THEOREM AddressStable == Spec => RenewalKeepsAddress
<1> DEFINE Keeps == \A m \in Valid : m \in Valid' => lease'[m] = lease[m]
<1>1. IInv /\ [Next]_vars => [Keeps]_vars
  <2> SUFFICES ASSUME IInv, Next, NEW m \in Valid, m \in Valid'
               PROVE  lease'[m] = lease[m]
    BY Zenon
  <2>1. /\ lease \in [Mac -> 0..Pool] /\ fresh \in Seq(Mac) /\ FreshOnce /\ m \in Mac
    BY DEF IInv, TypeOK, Valid
  <2>2. ASSUME NEW n \in Mac, Assign(n) PROVE lease'[m] = lease[m]
    BY <2>1, <2>2 DEF Assign
  <2>3. ASSUME NEW n \in Mac, Release(n) PROVE lease'[m] = lease[m]
    <3>1. {Without(n)[i] : i \in 1..Len(Without(n))} = Valid \ {n}
      BY <2>1, WithoutRest
    <3>2. m # n
      BY <2>3, <3>1 DEF Release, Valid
    <3> QED BY <2>1, <2>3, <3>2 DEF Release
  <2>4. CASE EvictExpired
    BY <2>1, <2>4 DEF EvictExpired
  <2>5. ASSUME NEW n \in Mac, Renew(n) PROVE lease'[m] = lease[m]
    BY <2>5 DEF Renew
  <2>6. CASE Expire \/ Flush \/ Switch \/
             \E n \in Mac, s \in SrcPort : SnatKnown(n, s) \/ SnatNew(n, s)
    BY <2>6 DEF Expire, Flush, Switch, SnatKnown, SnatNew, dhcpVars
  <2> QED BY <2>2, <2>3, <2>4, <2>5, <2>6 DEF Next
<1> QED BY <1>1, Invariance, PTL DEF Spec, RenewalKeepsAddress

-----------------------------------------------------------------------------
(* The inductive invariant: a look that began on something bad still has    *)
(* the reason for its no ahead of it, since no reason is ever taken back.   *)

LookInv(v) ==
  look[v] # NoLook =>
    /\ look[v] = [id |-> look[v].id, at |-> look[v].at]
    /\ look[v].at = "yes" => truth[v]
    /\ look[v].at = "revoked?" /\ ~truth[v] => look[v].id \in revoked \cup expired \cup altered
    /\ look[v].at = "expired?" /\ ~truth[v] => look[v].id \in expired \cup altered
    /\ look[v].at = "active?" /\ ~truth[v] => look[v].id \in inactive \cup over

LooksInv == /\ look = [v \in Verifier |-> look[v]]
            /\ truth = [v \in Verifier |-> truth[v]]
            /\ \A v \in Verifier : LookInv(v)

IdentityInv == IdentityTypeOK /\ LooksInv

LEMMA InitIdentityInv == IdentityInit => IdentityInv
BY DEF IdentityInit, IdentityInv, IdentityTypeOK, LooksInv, LookInv

\* Reasons are never taken back, tokens stay issued.
Grows == /\ issued \subseteq issued' /\ revoked \subseteq revoked' /\ expired \subseteq expired'
         /\ altered \subseteq altered' /\ inactive \subseteq inactive' /\ over \subseteq over'

LEMMA ReasonsGrow == IdentityNext => Grows
BY DEF IdentityNext, IssueToken, Revoke, TokenExpires, AlterMetadata, CreateSession,
   Invalidate, SessionExpires, Cleanup, VerifyBegin, GetBegin, VerifyRevoked, VerifyRest,
   GetEnd, Return, Finds, Becomes, Goes, tokenVars, sessionVars, Grows

LEMMA TypeStep ==
  ASSUME IdentityTypeOK, IdentityNext
  PROVE  IdentityTypeOK'
<1> USE DEF IdentityTypeOK
<1>1. ASSUME NEW t \in Token,
             \/ \E ttl \in {0, 1} : IssueToken(t, ttl)
             \/ Revoke(t) \/ TokenExpires(t) \/ AlterMetadata(t)
      PROVE  IdentityTypeOK'
  BY <1>1 DEF IssueToken, Revoke, TokenExpires, AlterMetadata, sessionVars
<1>2. ASSUME NEW s \in Session, CreateSession(s) \/ Invalidate(s) \/ SessionExpires(s)
      PROVE  IdentityTypeOK'
  BY <1>2 DEF CreateSession, Invalidate, SessionExpires, tokenVars
<1>3. CASE Cleanup
  BY <1>3 DEF Cleanup, tokenVars
<1>4. ASSUME NEW v \in Verifier,
             \/ \E t \in Token : VerifyBegin(v, t)
             \/ \E s \in Session : GetBegin(v, s)
             \/ VerifyRevoked(v) \/ VerifyRest(v) \/ GetEnd(v) \/ Return(v)
      PROVE  IdentityTypeOK'
  BY <1>4 DEF VerifyBegin, GetBegin, VerifyRevoked, VerifyRest, GetEnd, Return, Finds,
     Becomes, Goes, tokenVars, sessionVars
<1> QED BY <1>1, <1>2, <1>3, <1>4 DEF IdentityNext

\* Others' looks are not disturbed by a step that only adds reasons.
LEMMA OthersKeep ==
  ASSUME NEW v \in Verifier, LookInv(v), Grows, look'[v] = look[v], truth'[v] = truth[v]
  PROVE  LookInv(v)'
BY DEF LookInv, Grows

LEMMA LooksStep ==
  ASSUME LooksInv, IdentityNext
  PROVE  LooksInv'
<1>0. Grows
  BY ReasonsGrow
<1>1. CASE UNCHANGED <<look, truth>>
  BY <1>0, <1>1, OthersKeep DEF LooksInv
<1>2. ASSUME NEW v \in Verifier,
             NEW id, NEW step, NEW good \in BOOLEAN,
             Finds(v, id, step, good),
             step = "revoked?" /\ ~good => id \in revoked \cup expired \cup altered,
             step = "active?" /\ ~good => id \in inactive \cup over,
             step \in {"revoked?", "active?", "no"}
      PROVE  LooksInv'
  <2>1. /\ look' = [look EXCEPT ![v] = [id |-> id, at |-> step]]
        /\ truth' = [truth EXCEPT ![v] = good]
    BY <1>2 DEF Finds
  <2>2. look'[v] = [id |-> id, at |-> step] /\ truth'[v] = good
    BY <2>1 DEF LooksInv
  <2>3. LookInv(v)'
    BY <1>0, <1>2, <2>2 DEF LookInv, Grows
  <2>4. \A u \in Verifier : u # v => look'[u] = look[u] /\ truth'[u] = truth[u]
    BY <2>1 DEF LooksInv
  <2>5. look' = [u \in Verifier |-> look'[u]] /\ truth' = [u \in Verifier |-> truth'[u]]
    BY <2>1 DEF LooksInv
  <2> QED BY <1>0, <2>3, <2>4, <2>5, OthersKeep DEF LooksInv
<1>3. ASSUME NEW v \in Verifier, NEW t \in Token, VerifyBegin(v, t) PROVE LooksInv'
  <2>1. t \in issued /\ ~GoodToken(t) => t \in revoked \cup expired \cup altered
    BY DEF GoodToken
  <2>2. Finds(v, t, IF t \in issued THEN "revoked?" ELSE "no", GoodToken(t))
    BY <1>3 DEF VerifyBegin
  <2>3. GoodToken(t) \in BOOLEAN
    BY DEF GoodToken
  <2> QED BY <1>2, <2>1, <2>2, <2>3
<1>4. ASSUME NEW v \in Verifier, NEW s \in Session, GetBegin(v, s) PROVE LooksInv'
  <2>1. s \in session /\ ~GoodSession(s) => s \in inactive \cup over
    BY DEF GoodSession
  <2>2. Finds(v, s, IF s \in session THEN "active?" ELSE "no", GoodSession(s))
    BY <1>4 DEF GetBegin
  <2>3. GoodSession(s) \in BOOLEAN
    BY DEF GoodSession
  <2> QED BY <1>2, <2>1, <2>2, <2>3
<1>5. ASSUME NEW v \in Verifier, look[v] # NoLook,
             VerifyRevoked(v) \/ VerifyRest(v) \/ GetEnd(v) \/ Return(v)
      PROVE  LooksInv'
  <2>1. LookInv(v)
    BY DEF LooksInv
  <2>2. PICK step : look' = [look EXCEPT ![v] = step] /\ truth' = truth
    BY <1>5 DEF VerifyRevoked, VerifyRest, GetEnd, Return, Becomes, Goes
  <2>3. look'[v] = step
    BY <2>2 DEF LooksInv
  <2>4. LookInv(v)'
    <3>1. CASE VerifyRevoked(v)
      <4>1. /\ look[v].at = "revoked?"
            /\ look'[v] = [look[v] EXCEPT !.at = IF look[v].id \in revoked THEN "no" ELSE "expired?"]
        BY <3>1 DEF VerifyRevoked, Goes, LooksInv
      <4>2. /\ look'[v].id = look[v].id
            /\ look'[v].at = IF look[v].id \in revoked THEN "no" ELSE "expired?"
            /\ look'[v] = [id |-> look'[v].id, at |-> look'[v].at]
        BY <1>5, <2>1, <4>1 DEF LookInv
      <4> QED BY <1>0, <1>5, <2>1, <2>2, <4>1, <4>2 DEF LookInv, Grows
    <3>2. CASE VerifyRest(v)
      <4>1. /\ look[v].at = "expired?"
            /\ look'[v] = [look[v] EXCEPT !.at = IF look[v].id \notin expired \cup altered THEN "yes" ELSE "no"]
        BY <3>2 DEF VerifyRest, Becomes, Goes, LooksInv
      <4>2. /\ look'[v].at = IF look[v].id \notin expired \cup altered THEN "yes" ELSE "no"
            /\ look'[v] = [id |-> look'[v].id, at |-> look'[v].at]
        BY <1>5, <2>1, <4>1 DEF LookInv
      <4> QED BY <1>5, <2>1, <2>2, <4>1, <4>2 DEF LookInv
    <3>3. CASE GetEnd(v)
      <4>1. /\ look[v].at = "active?"
            /\ look'[v] = [look[v] EXCEPT !.at = IF look[v].id \notin inactive \cup over THEN "yes" ELSE "no"]
        BY <3>3 DEF GetEnd, Becomes, Goes, LooksInv
      <4>2. /\ look'[v].at = IF look[v].id \notin inactive \cup over THEN "yes" ELSE "no"
            /\ look'[v] = [id |-> look'[v].id, at |-> look'[v].at]
        BY <1>5, <2>1, <4>1 DEF LookInv
      <4> QED BY <1>5, <2>1, <2>2, <4>1, <4>2 DEF LookInv
    <3>4. CASE Return(v)
      <4>1. look'[v] = NoLook
        BY <3>4 DEF Return, Goes, LooksInv
      <4> QED BY <4>1 DEF LookInv
    <3> QED BY <1>5, <3>1, <3>2, <3>3, <3>4
  <2>5. \A u \in Verifier : u # v => look'[u] = look[u] /\ truth'[u] = truth[u]
    BY <2>2 DEF LooksInv
  <2>6. look' = [u \in Verifier |-> look'[u]] /\ truth' = [u \in Verifier |-> truth'[u]]
    BY <2>2 DEF LooksInv
  <2> QED BY <1>0, <2>4, <2>5, <2>6, OthersKeep DEF LooksInv
<1>6. CASE \/ \E t \in Token : \/ \E ttl \in {0, 1} : IssueToken(t, ttl)
                               \/ Revoke(t) \/ TokenExpires(t) \/ AlterMetadata(t)
           \/ \E s \in Session : CreateSession(s) \/ Invalidate(s) \/ SessionExpires(s)
           \/ Cleanup
  <2>1. UNCHANGED <<look, truth>>
    BY <1>6 DEF IssueToken, Revoke, TokenExpires, AlterMetadata, CreateSession, Invalidate,
       SessionExpires, Cleanup
  <2> QED BY <1>1, <2>1
<1> QED BY <1>3, <1>4, <1>5, <1>6 DEF IdentityNext

-----------------------------------------------------------------------------
(* The count of active tokens. *)

LEMMA CountNotOverstated == IdentityTypeOK => ActiveNotOverstated
<1> SUFFICES ASSUME IdentityTypeOK PROVE ActiveNotOverstated
  OBVIOUS
<1> DEFINE bad == revoked \cup expired
<1>1. IsFiniteSet(issued)
  BY IdentityAssumption, FS_Subset DEF IdentityTypeOK
<1>2. /\ revoked \subseteq issued /\ expired \subseteq issued /\ bad \subseteq issued
      /\ IsFiniteSet(revoked) /\ IsFiniteSet(expired) /\ IsFiniteSet(bad)
  BY <1>1, FS_Subset DEF IdentityTypeOK
<1>3. /\ Cardinality(issued) \in Nat /\ Cardinality(revoked) \in Nat
      /\ Cardinality(expired) \in Nat /\ Cardinality(bad) \in Nat
      /\ Cardinality(revoked \cap expired) \in Nat
  BY <1>1, <1>2, FS_CardinalityType, FS_Intersection
<1>4. Cardinality(bad) = Cardinality(revoked) + Cardinality(expired)
                           - Cardinality(revoked \cap expired)
  BY <1>2, FS_Union
<1>5. Cardinality(issued \ bad) = Cardinality(issued) - Cardinality(issued \cap bad)
  BY <1>1, FS_Difference
<1>6. issued \cap bad = bad
  BY <1>2
<1> QED BY <1>3, <1>4, <1>5, <1>6 DEF ActiveNotOverstated, ReportedActive

-----------------------------------------------------------------------------
(* The theorems. *)

LEMMA RootStep ==
  ASSUME by = "identity" => IdentityInv, [RootNext]_rootVars
  PROVE  (by = "identity" => IdentityInv)'
<1> SUFFICES ASSUME by' = "identity" PROVE IdentityInv'
  OBVIOUS
<1>1. CASE RootNext
  <2>1. by = "identity" /\ IdentityNext
    BY <1>1 DEF RootNext
  <2> QED BY <2>1, TypeStep, LooksStep DEF IdentityInv
<1>2. CASE UNCHANGED rootVars
  <2>1. by' = by /\ UNCHANGED identityVars
    BY <1>2 DEF rootVars
  <2> QED BY <2>1 DEF identityVars, tokenVars, sessionVars, IdentityInv, IdentityTypeOK,
             LooksInv, LookInv
<1> QED BY <1>1, <1>2

\* A look at a token or a session that was bad when it began never says yes,
\* however many threads issue, revoke and look, and the number of active
\* tokens is never overstated.
THEOREM IdentitiesAreHonoured == RootSpec => []IdentitiesHonoured
<1>1. RootInit => (by = "identity" => IdentityInv)
  BY InitIdentityInv DEF RootInit
<1>2. (by = "identity" => IdentityInv) => IdentitiesHonoured
  <2>1. IdentityInv => TokensHonoured
    BY DEF IdentityInv, LooksInv, LookInv, TokensHonoured
  <2> QED BY <2>1, CountNotOverstated DEF IdentityInv, IdentitiesHonoured
<1> QED BY <1>1, <1>2, RootStep, PTL DEF RootSpec

\* Nothing makes a token good again that is not, or revives a session.
THEOREM NothingRevives == RootSpec => EndsAreFinal
<1> DEFINE A == /\ \A t \in issued : ~GoodToken(t) => ~GoodToken(t)'
                /\ \A s \in Session : s \in inactive \cup over => ~GoodSession(s)'
<1>1. [RootNext]_rootVars => [A]_identityVars
  <2> SUFFICES ASSUME [RootNext]_rootVars PROVE [A]_identityVars
    OBVIOUS
  <2>1. CASE by = "identity" /\ IdentityNext
    <3>1. Grows
      BY <2>1, ReasonsGrow
    <3> QED BY <3>1 DEF Grows, GoodToken, GoodSession
  <2>2. CASE ~(by = "identity" /\ IdentityNext)
    BY <2>2 DEF RootNext, rootVars, Rest
  <2> QED BY <2>1, <2>2
<1> QED BY <1>1, PTL DEF RootSpec, EndsAreFinal

-----------------------------------------------------------------------------
(* Hardware. *)

Held == [owner : Owner, mb : Size]
Mounted == [name : Label, at : MountPoint \cup {Unmounted}]

RamInv == /\ block \in [Block -> Held \cup {None}] /\ RamWithinTotal
DiskInv == /\ volume \in [Volume -> Mounted \cup {None}] /\ VolumesKeepData
BusInv ==
  /\ link \in [Peripheral -> {"unknown", "discovered", "paired", "connected", "disconnected"}]
  /\ paired \subseteq Peripheral
  /\ message \in {<<p>> : p \in Peripheral} \cup {None}
  /\ \A p \in Peripheral : link[p] = "paired" => p \in paired
  /\ ConnectedWasPaired

LEMMA RecordsAreSomething == None \notin Held /\ None \notin Mounted
<1>1. DOMAIN None = {}
  BY DEF None
<1>2. \A r \in Held : "mb" \in DOMAIN r
  BY DEF Held
<1>3. \A r \in Mounted : "name" \in DOMAIN r
  BY DEF Mounted
<1> QED BY <1>1, <1>2, <1>3

\* What is used is what the blocks hold; a block that takes some adds it.
LEMMA UsedIsNat == ASSUME RamInv PROVE UsedRam \in Nat
<1>1. IsFiniteSet(Allocated)
  BY HardwareAssumption, FS_Subset DEF Allocated
<1> DEFINE f == [b \in Allocated |-> block[b].mb]
<1>2. \A b \in Allocated : f[b] \in Nat
  BY HardwareAssumption DEF RamInv, Allocated, Held
<1>3. UsedRam = Total(f, Allocated)
  BY DEF UsedRam, Total
<1> HIDE DEF f
<1> QED BY <1>1, <1>2, <1>3, TotalFewer

LEMMA RamKeeps == ASSUME RamInv, RamNext PROVE RamInv'
<1> DEFINE f == [b \in Allocated |-> block[b].mb]
           g == [b \in Allocated' |-> block'[b].mb]
<1>1. IsFiniteSet(Allocated)
  BY HardwareAssumption, FS_Subset DEF Allocated
<1>2. \A b \in Allocated : f[b] \in Nat
  BY HardwareAssumption DEF RamInv, Allocated, Held
<1>3. UsedRam = Total(f, Allocated) /\ UsedRam' = Total(g, Allocated')
  BY DEF UsedRam, Total
<1>4. UsedRam \in Nat /\ TotalRam \in Nat
  BY UsedIsNat, HardwareAssumption
<1>5. ASSUME NEW b \in Block, NEW o \in Owner, NEW mb \in Size, Allocate(b, o, mb) PROVE RamInv'
  <2>1. mb \in Nat
    BY HardwareAssumption
  <2>2. [owner |-> o, mb |-> mb] \in Held /\ [owner |-> o, mb |-> mb] # None
    BY RecordsAreSomething DEF Held
  <2>3. block' \in [Block -> Held \cup {None}] /\ block'[b] = [owner |-> o, mb |-> mb]
        /\ \A c \in Block \ {b} : block'[c] = block[c]
    BY <1>5, <2>2 DEF Allocate, RamInv
  <2>4. Allocated' = Allocated \cup {b} /\ b \notin Allocated
    BY <1>5, <2>2, <2>3 DEF Allocate, Allocated
  <2>5. g[b] = mb /\ \A c \in Allocated : g[c] = f[c]
    BY <2>3, <2>4 DEF Allocated
  <2>6. Total(g, Allocated \cup {b}) = g[b] + Total(g, Allocated) /\ Total(g, Allocated) = Total(f, Allocated)
    <3> HIDE DEF f, g
    <3>1. \A c \in Allocated \cup {b} : g[c] \in Int
      BY <1>2, <2>1, <2>5
    <3>2. \A c \in Allocated : f[c] \in Int /\ f[c] = g[c]
      BY <1>2, <2>5
    <3> QED BY <1>1, <2>4, <3>1, <3>2, TotalAdd, TotalAgrees
  <2>7. UsedRam' = UsedRam + mb
    BY <1>3, <1>4, <2>1, <2>4, <2>5, <2>6
  <2>8. mb <= TotalRam - UsedRam /\ alarm' = AlarmAt(UsedRam + mb)
    BY <1>5 DEF Allocate, Fits
  <2>9. RamWithinTotal'
    BY <1>4, <2>1, <2>7, <2>8 DEF AlarmAt, RamWithinTotal
  <2> QED BY <2>3, <2>9 DEF RamInv
<1>6. ASSUME Allocated' \subseteq Allocated, \A b \in Allocated' : block'[b] = block[b], UNCHANGED alarm
      PROVE  RamWithinTotal'
  <2>1. \A b \in Allocated' : f[b] = g[b] /\ f[b] \in Int
    BY <1>2, <1>6
  <2>2. IsFiniteSet(Allocated') /\ Allocated' \in SUBSET Allocated
    BY <1>1, <1>6, FS_Subset
  <2>3. Total(f, Allocated') = Total(g, Allocated')
    <3> HIDE DEF f, g
    <3> QED BY <2>1, <2>2, TotalAgrees
  <2>4. Total(f, Allocated') \in Nat /\ Total(f, Allocated') <= Total(f, Allocated)
    <3> HIDE DEF f
    <3> QED BY <1>1, <1>2, <2>2, TotalFewer
  <2>5. UsedRam' \in Nat /\ UsedRam' <= UsedRam
    BY <1>3, <2>3, <2>4
  <2>6. PICK u, w, t : u = UsedRam /\ w = UsedRam' /\ t = TotalRam
    OBVIOUS
  <2>7. u \in Nat /\ w \in Nat /\ t \in Nat /\ w <= u
    BY <1>4, <2>5, <2>6
  <2>8. u <= t /\ (100 * u >= 80 * t => alarm # "none") /\ (100 * u >= 95 * t => alarm = "vram.critical")
    BY <2>6 DEF RamInv, RamWithinTotal
  <2>9. w <= t /\ (100 * w >= 80 * t => alarm' # "none") /\ (100 * w >= 95 * t => alarm' = "vram.critical")
    BY <1>6, <2>7, <2>8
  <2> QED BY <2>6, <2>9 DEF RamWithinTotal
<1>7. ASSUME NEW b \in Block, FreeBlock(b) PROVE RamInv'
  <2>1. block' \in [Block -> Held \cup {None}]
    BY <1>7 DEF FreeBlock, RamInv
  <2>2. Allocated' \subseteq Allocated /\ (\A c \in Allocated' : block'[c] = block[c]) /\ UNCHANGED alarm
    BY <1>7 DEF FreeBlock, Allocated, RamInv
  <2> QED BY <1>6, <2>1, <2>2 DEF RamInv
<1>8. ASSUME NEW o \in Owner, FreeOwner(o) PROVE RamInv'
  <2>1. block' \in [Block -> Held \cup {None}]
    BY <1>8 DEF FreeOwner, RamInv
  <2>2. Allocated' \subseteq Allocated /\ (\A c \in Allocated' : block'[c] = block[c]) /\ UNCHANGED alarm
    BY <1>8 DEF FreeOwner, Allocated, RamInv
  <2> QED BY <1>6, <2>1, <2>2 DEF RamInv
<1> QED BY <1>5, <1>7, <1>8 DEF RamNext

LEMMA DiskKeeps == ASSUME DiskInv, DiskNext PROVE DiskInv'
<1> USE DEF DiskInv, VolumesKeepData, Volumes, DirOf
<1>1. PICK v \in Volume : \/ \E n \in Label : CreateVolume(v, n)
                          \/ \E p \in MountPoint : MountVolume(v, p)
                          \/ UnmountVolume(v)
                          \/ \E refused \in BOOLEAN : DeleteVolume(v, refused)
  BY DEF DiskNext
<1>2. ASSUME NEW n \in Label, CreateVolume(v, n) PROVE DiskInv'
  <2>1. [name |-> n, at |-> Unmounted] \in Mounted
    BY DEF Mounted
  <2> QED BY <1>2, <2>1 DEF CreateVolume
<1>3. ASSUME NEW r \in Mounted, v \in Volumes, r.name = volume[v].name, volume' = [volume EXCEPT ![v] = r],
             UNCHANGED <<dirs, robbed>>
      PROVE  DiskInv'
  BY <1>3
<1>4. ASSUME NEW p, p \in MountPoint \cup {Unmounted}, v \in Volumes, volume' = [volume EXCEPT ![v].at = p]
      PROVE  \E r \in Mounted : r.name = volume[v].name /\ volume' = [volume EXCEPT ![v] = r]
  <2>1. volume[v] \in Mounted
    BY <1>4
  <2>2. [volume[v] EXCEPT !.at = p] \in Mounted /\ [volume[v] EXCEPT !.at = p].name = volume[v].name
    BY <1>4, <2>1 DEF Mounted
  <2> QED BY <1>4, <2>2
<1>5. ASSUME NEW p \in MountPoint, MountVolume(v, p) PROVE DiskInv'
  BY <1>3, <1>4, <1>5 DEF MountVolume
<1>6. ASSUME UnmountVolume(v) PROVE DiskInv'
  BY <1>3, <1>4, <1>6 DEF UnmountVolume
<1>7. ASSUME NEW refused \in BOOLEAN, DeleteVolume(v, refused) PROVE DiskInv'
  BY <1>7 DEF DeleteVolume
<1> QED BY <1>1, <1>2, <1>5, <1>6, <1>7

LEMMA BusKeeps == ASSUME BusInv, BusNext PROVE BusInv'
<1> USE DEF BusInv, ConnectedWasPaired
<1>1. CASE SendPublish
  BY <1>1 DEF SendPublish, None
<1>2. ASSUME NEW p \in Peripheral, Discover(p) \/ Pair(p) PROVE BusInv'
  BY <1>2 DEF Discover, Pair
<1>3. ASSUME NEW p \in Peripheral, Connect(p) \/ Disconnect(p) PROVE BusInv'
  <2>1. p \in paired /\ UNCHANGED <<paired, message>>
    BY <1>3 DEF Connect, Connectable, Disconnect
  <2>2. link' \in [Peripheral -> {"unknown", "discovered", "paired", "connected", "disconnected"}]
        /\ \A q \in Peripheral \ {p} : link'[q] = link[q]
    BY <1>3 DEF Connect, Disconnect
  <2> QED BY <2>1, <2>2
<1>4. ASSUME NEW p \in Peripheral, SendLook(p) PROVE BusInv'
  BY <1>4 DEF SendLook
<1> QED BY <1>1, <1>2, <1>3, <1>4 DEF BusNext

\* In whatever order they are called: memory is never given out twice nor
\* fuller than the last alarm said, a volume keeps its directory unless it
\* shares its name, and what is connected or sent to was paired (VRAMDevice,
\* VDiskDevice, VBluetoothDevice).
THEOREM DevicesArePromised == RootSpec => []DevicesKeepPromises
<1> DEFINE I == RamInv /\ DiskInv /\ BusInv
<1>1. RootInit => I
  <2> SUFFICES ASSUME RootInit PROVE I
    OBVIOUS
  <2>1. RamInv
    <3>1. block \in [Block -> Held \cup {None}] /\ Allocated = {}
      BY DEF RootInit, RamInit, Allocated
    <3>2. UsedRam = 0
      BY <3>1, TotalEmpty DEF UsedRam, Total
    <3> QED BY <3>1, <3>2, HardwareAssumption DEF RamInv, RamWithinTotal
  <2>2. DiskInv
    <3>1. PICK v \in Volume, n \in Label :
            /\ volume = [w \in Volume |-> IF w = v THEN [name |-> n, at |-> Unmounted] ELSE None]
            /\ dirs = {n}
      BY DEF RootInit, DiskInit
    <3>2. [name |-> n, at |-> Unmounted] \in Mounted
      BY DEF Mounted
    <3> QED BY <3>1, <3>2 DEF DiskInv, VolumesKeepData, Volumes
  <2>3. BusInv
    BY DEF RootInit, BusInit, BusInv, ConnectedWasPaired, None
  <2> QED BY <2>1, <2>2, <2>3
<1>2. I /\ [RootNext]_rootVars => I'
  <2> SUFFICES ASSUME I, [RootNext]_rootVars PROVE I'
    OBVIOUS
  <2>1. ASSUME UNCHANGED ramVars PROVE RamInv'
    BY <2>1 DEF ramVars, RamInv, RamWithinTotal, UsedRam, Allocated
  <2>2. ASSUME UNCHANGED diskVars PROVE DiskInv'
    BY <2>2 DEF diskVars, DiskInv, VolumesKeepData, Volumes
  <2>3. ASSUME UNCHANGED busVars PROVE BusInv'
    BY <2>3 DEF busVars, BusInv, ConnectedWasPaired
  <2>4. CASE RamNext /\ UNCHANGED <<diskVars, busVars>>
    BY <2>2, <2>3, <2>4, RamKeeps
  <2>5. CASE DiskNext /\ UNCHANGED <<ramVars, busVars>>
    BY <2>1, <2>3, <2>5, DiskKeeps
  <2>6. CASE BusNext /\ UNCHANGED <<ramVars, diskVars>>
    BY <2>1, <2>2, <2>6, BusKeeps
  <2>7. CASE UNCHANGED <<ramVars, diskVars, busVars>>
    BY <2>1, <2>2, <2>3, <2>7
  <2> QED BY <2>4, <2>5, <2>6, <2>7 DEF RootNext, rootVars, Rest, hardwareVars
<1>3. I => DevicesKeepPromises
  <2> SUFFICES ASSUME I PROVE HardwareTypeOK /\ RamWithinTotal /\ VolumesKeepData /\ ConnectedWasPaired
    BY DEF DevicesKeepPromises
  <2>1. \A b \in Allocated : block[b] \in Held
    BY DEF RamInv, Allocated
  <2>2. \A v \in Volumes : volume[v].name \in Label
    BY DEF DiskInv, Volumes, Mounted
  <2> QED BY <2>1, <2>2 DEF HardwareTypeOK, Held, RamInv, DiskInv, BusInv
<1> HIDE DEF I
<1> QED BY <1>1, <1>2, <1>3, PTL DEF RootSpec

\* A function on 1..n is a list.
LEMMA FunctionIsSeq == ASSUME NEW X, NEW n \in Nat, NEW s, s \in [1..n -> X] PROVE s \in Seq(X)
<1>1. s \in UNION {[1..k -> X] : k \in Nat}
  BY Zenon
<1> QED BY <1>1, SeqDef, Zenon

-----------------------------------------------------------------------------
(* Rules by name. *)

\* Taking a name out of two lists of the same rules.
LEMMA WithoutNameKeeps ==
  ASSUME NEW X, NEW n
  PROVE  \E A : \A s \in Seq(X) : WithoutName(s, n) = Kept(s, A)
<1> DEFINE A == {x \in X : x.name # n}
<1>1. ASSUME NEW s \in Seq(X) PROVE WithoutName(s, n) = Kept(s, A)
  <2>1. PICK B : B = {r \in ToSet(s) : r.name # n}
    OBVIOUS
  <2>2. ToSet(s) \subseteq X
    BY SetOfType
  <2>3. \A x \in ToSet(s) : x \in B <=> x \in A
    BY <2>1, <2>2
  <2> HIDE DEF A
  <2>4. Kept(s, B) = Kept(s, A)
    BY <2>3, KeptAgrees
  <2> QED BY <2>1, <2>4 DEF WithoutName
<1> QED BY <1>1

\* The rules of other names stay in order.
LEMMA WithoutNameStable ==
  ASSUME NEW X, HavePrio(X), NEW rs, NEW log, Stable(rs, log, X), NEW n
  PROVE  Stable(WithoutName(rs, n), WithoutName(log, n), X)
<1>1. PICK A : \A s \in Seq(X) : WithoutName(s, n) = Kept(s, A)
  BY WithoutNameKeeps
<1>2. rs \in Seq(X) /\ log \in Seq(X)
  BY DEF Stable
<1> QED BY <1>1, <1>2, KeptStable

\* A list with fewer rules is as short.
LEMMA WithoutNameCapped ==
  ASSUME NEW X, NEW rs, rs \in Seq(X), NEW name, NEW E, NEW n \in Nat, NEW m \in Nat, Capped(rs, X, E, n, m)
  PROVE  Capped(WithoutName(rs, name), X, E, n, m)
<1>1. PICK A : \A s \in Seq(X) : WithoutName(s, name) = Kept(s, A)
  BY WithoutNameKeeps
<1>2. Capped(Kept(rs, A), X, E, n, m)
  BY CappedKept
<1> QED BY <1>1, <1>2

\* So is an empty one.
LEMMA CappedEmpty ==
  ASSUME NEW X, NEW E, NEW n \in Nat, NEW m
  PROVE  Capped(<<>>, X, E, n, m)
<1>1. PICK N : N = X \ E
  OBVIOUS
<1>2. Kept(<<>>, N) = <<>> /\ Len(<<>>) = 0 /\ 0 <= n
  BY KeptEmpty
<1> QED BY <1>1, <1>2 DEF Capped

-----------------------------------------------------------------------------
(* The firewall. *)

FwUniverse == {OsFirewall[i] : i \in 1..7} \cup ExtraFwRule

FwInv == /\ fwOn \in BOOLEAN /\ Stable(fwRules, fwLog, FwUniverse)
         /\ Capped(fwRules, FwUniverse, ExtraFwRule, 7, MaxFwExtra)

\* The default rules are rules with a priority.
LEMMA FwDefaults ==
  /\ OsFirewall \in Seq(FwUniverse) /\ Len(OsFirewall) = 7 /\ HavePrio(FwUniverse)
<1>1. Len(OsFirewall) = 7 /\ DOMAIN OsFirewall = 1..7
  BY DEF OsFirewall
<1>2. \A i \in 1..7 : OsFirewall[i] \in FwUniverse
  BY DEF FwUniverse
<1>3. OsFirewall \in Seq(FwUniverse)
  <2>1. OsFirewall = [i \in 1..7 |-> OsFirewall[i]]
    BY DEF OsFirewall
  <2>2. OsFirewall \in [1..7 -> FwUniverse]
    BY <1>2, <2>1
  <2> QED BY <2>2, FunctionIsSeq
<1>4. \A i \in 1..7 : OsFirewall[i].prio \in Int
  <2> TAKE i \in 1..7
  <2>1. i = 1 \/ i = 2 \/ i = 3 \/ i = 4 \/ i = 5 \/ i = 6 \/ i = 7
    OBVIOUS
  <2> QED BY <2>1 DEF OsFirewall, FwRule
<1>5. HavePrio(FwUniverse)
  BY <1>4, FirewallAssumption DEF HavePrio, FwUniverse
<1> QED BY <1>1, <1>3, <1>5

\* The firewall starts with its defaults in order.
LEMMA FwStarts == FwInit => FwInv
<1> SUFFICES ASSUME FwInit PROVE FwInv
  OBVIOUS
<1>1. PICK X, s : X = FwUniverse /\ s = OsFirewall
  OBVIOUS
<1>2. s \in Seq(X) /\ Len(s) = 7 /\ HavePrio(X)
  BY <1>1, FwDefaults
<1>3. Stable(Built(s), s, X) /\ Len(Built(s)) = 7
  BY <1>2, BuiltStable
<1>4. Built(s) \in Seq(X)
  BY <1>3 DEF Stable
<1>5. Capped(Built(s), X, ExtraFwRule, Len(Built(s)), MaxFwExtra)
  BY <1>4, CappedInit
<1>6. Capped(Built(s), X, ExtraFwRule, 7, MaxFwExtra)
  BY <1>3, <1>5
<1>7. fwRules = Built(s) /\ fwLog = s /\ fwOn = TRUE
  BY <1>1 DEF FwInit
<1> QED BY <1>1, <1>3, <1>6, <1>7 DEF FwInv

\* Adding, removing, flushing and switching keep the rules in order.
LEMMA FwKeeps == ASSUME FwInv, FwNext PROVE FwInv'
<1>1. PICK X : X = FwUniverse
  OBVIOUS
<1>2. /\ HavePrio(X) /\ ExtraFwRule \subseteq X /\ MaxFwExtra \in Nat /\ fwOn \in BOOLEAN
      /\ Stable(fwRules, fwLog, X) /\ Capped(fwRules, X, ExtraFwRule, 7, MaxFwExtra)
      /\ fwRules \in Seq(X) /\ ByPrio(fwRules)
  BY <1>1, FwDefaults, FirewallAssumption DEF FwInv, FwUniverse, Stable
<1>3. CASE \E r \in ExtraFwRule : FwAdd(r)
  <2>1. PICK r \in ExtraFwRule : FwAdd(r)
    BY <1>3
  <2>2. r \in X /\ fwRules' = Insert(fwRules, r) /\ fwLog' = Append(fwLog, r) /\ fwOn' = fwOn
        /\ Cardinality({i \in DOMAIN fwRules : fwRules[i] \in ExtraFwRule}) < MaxFwExtra
    BY <1>2, <2>1 DEF FwAdd
  <2>3. Stable(Insert(fwRules, r), Append(fwLog, r), X)
    BY <1>2, <2>2, InsertStable
  <2>4. Capped(Insert(fwRules, r), X, ExtraFwRule, 7, MaxFwExtra)
    BY <1>2, <2>2, CappedInsert
  <2> QED BY <1>1, <1>2, <2>2, <2>3, <2>4 DEF FwInv
<1>4. CASE \E n \in FwRemovable : FwRemove(n)
  <2>1. PICK n : FwRemove(n)
    BY <1>4
  <2>2. fwRules' = WithoutName(fwRules, n) /\ fwLog' = WithoutName(fwLog, n) /\ fwOn' = fwOn
    BY <2>1 DEF FwRemove
  <2>3. Stable(WithoutName(fwRules, n), WithoutName(fwLog, n), X)
    BY <1>2, WithoutNameStable
  <2>4. Capped(WithoutName(fwRules, n), X, ExtraFwRule, 7, MaxFwExtra)
    BY <1>2, WithoutNameCapped
  <2> QED BY <1>1, <1>2, <2>2, <2>3, <2>4 DEF FwInv
<1>5. CASE FwFlush
  <2>1. fwRules' = <<>> /\ fwLog' = <<>> /\ fwOn' = fwOn
    BY <1>5 DEF FwFlush
  <2>2. Stable(<<>>, <<>>, X) /\ Capped(<<>>, X, ExtraFwRule, 7, MaxFwExtra)
    BY EmptyStable, CappedEmpty
  <2> QED BY <1>1, <1>2, <2>1, <2>2 DEF FwInv
<1>6. CASE FwSwitch
  BY <1>6 DEF FwInv, FwSwitch
<1> QED BY <1>3, <1>4, <1>5, <1>6 DEF FwNext

\* Rules in order decide as the firewall promises.
LEMMA FwPromises == ASSUME FwInv PROVE FwTypeOK /\ FirewallDecides
<1>1. HavePrio(FwUniverse) /\ Stable(fwRules, fwLog, FwUniverse)
  BY FwDefaults DEF FwInv
<1>2. fwRules \in Seq(FwUniverse) /\ fwLog \in Seq(FwUniverse)
  BY <1>1 DEF Stable
<1>3. Len(fwRules) <= 7 + MaxFwExtra
  BY <1>2, CappedLen, FirewallAssumption DEF FwInv
<1>4. ASSUME NEW p \in Packet PROVE FwDecision(p) = ByPriority(fwLog, FwHits(fwLog, p), "deny")
  <2> DEFINE M == {r \in FwUniverse : FwMatches(r, p)}
  <2>1. ASSUME NEW s, s \in Seq(FwUniverse) PROVE FwHits(s, p) = {i \in DOMAIN s : s[i] \in M}
    <3>1. \A i \in DOMAIN s : s[i] \in FwUniverse
      BY <2>1
    <3>2. \A i \in DOMAIN s : FwMatches(s[i], p) <=> s[i] \in M
      BY <3>1
    <3> HIDE DEF M
    <3> QED BY <3>2 DEF FwHits
  <2> HIDE DEF M
  <2>2. FwHits(fwRules, p) = {i \in DOMAIN fwRules : fwRules[i] \in M}
    BY <1>2, <2>1
  <2>3. FwHits(fwLog, p) = {i \in DOMAIN fwLog : fwLog[i] \in M}
    BY <1>2, <2>1
  <2>4. FirstMatch(fwRules, {i \in DOMAIN fwRules : fwRules[i] \in M}, "deny")
          = ByPriority(fwLog, {i \in DOMAIN fwLog : fwLog[i] \in M}, "deny")
    BY <1>1, DecidedAlike
  <2> QED BY <2>2, <2>3, <2>4, Zenon DEF FwDecision
<1>5. FirewallDecides
  BY <1>4 DEF FirewallDecides, Passes
<1> QED BY <1>3, <1>5, FwDefaults DEF FwInv, FwTypeOK

-----------------------------------------------------------------------------
(* The policy engine and the gate. *)

PolicyUniverse == {OsPolicy[i] : i \in 1..9} \cup ExtraRule

AboutHome == {"home.mount", "home.unmount"}
Entries == {"allow", "deny", "audit", "root.start", "root.stop"} \cup AboutHome

\* The last entry of a about HOME says whether it is up.
Tells(a, up) ==
  \A i \in 1..Len(a) :
    a[i] \in AboutHome /\ (\A j \in 1..Len(a) : i < j => a[j] \notin AboutHome) => (up <=> a[i] = "home.mount")

GateInv ==
  /\ online \in BOOLEAN /\ homeUp \in BOOLEAN /\ devices \subseteq Device
  /\ audit \in Seq(Entries) /\ Len(audit) <= AuditMax /\ Tells(audit, homeUp)
  /\ Stable(policy, policyLog, PolicyUniverse)
  /\ Capped(policy, PolicyUniverse, ExtraRule, 9, MaxExtra)

\* The default rules are rules with a priority and a verdict.
LEMMA GateDefaults ==
  /\ OsPolicy \in Seq(PolicyUniverse) /\ Len(OsPolicy) = 9 /\ HavePrio(PolicyUniverse)
  /\ \A r \in PolicyUniverse : r.verdict \in {"allow", "deny", "audit"}
<1>1. Len(OsPolicy) = 9 /\ DOMAIN OsPolicy = 1..9
  BY DEF OsPolicy
<1>2. \A i \in 1..9 : OsPolicy[i] \in PolicyUniverse
  BY DEF PolicyUniverse
<1>3. OsPolicy \in Seq(PolicyUniverse)
  <2>1. OsPolicy = [i \in 1..9 |-> OsPolicy[i]]
    BY DEF OsPolicy
  <2>2. OsPolicy \in [1..9 -> PolicyUniverse]
    BY <1>2, <2>1
  <2> QED BY <2>2, FunctionIsSeq
<1>4. \A i \in 1..9 : OsPolicy[i].prio \in Int /\ OsPolicy[i].verdict \in {"allow", "deny", "audit"}
  <2> TAKE i \in 1..9
  <2>1. i = 1 \/ i = 2 \/ i = 3 \/ i = 4 \/ i = 5 \/ i = 6 \/ i = 7 \/ i = 8 \/ i = 9
    OBVIOUS
  <2> QED BY <2>1 DEF OsPolicy, PolicyRule
<1>5. HavePrio(PolicyUniverse) /\ \A r \in PolicyUniverse : r.verdict \in {"allow", "deny", "audit"}
  BY <1>4, GateAssumption DEF HavePrio, PolicyUniverse
<1> QED BY <1>1, <1>3, <1>5

-----------------------------------------------------------------------------
(* The audit ring. *)

\* r is what is left of b without its first d entries, and has room in the ring.
PushedOut(r, b, d) ==
  /\ d \in Nat /\ r \in Seq(Entries) /\ Len(r) <= AuditMax /\ Len(r) + d = Len(b)
  /\ \A i \in 1..Len(r) : r[i] = b[i + d]

\* One entry more, the oldest gone if there is no room.
LEMMA RecordedPlaces ==
  ASSUME NEW a, a \in Seq(Entries), Len(a) <= AuditMax, NEW e, e \in Entries
  PROVE  \E d : PushedOut(Recorded(a, e), Append(a, e), d)
<1>1. PICK b : b = Append(a, e)
  OBVIOUS
<1>2. PICK m, n : m = AuditMax /\ n = Len(a)
  OBVIOUS
<1>3. m \in Nat /\ n \in Nat /\ n <= m /\ b \in Seq(Entries) /\ Len(b) = n + 1
  BY <1>1, <1>2, GateAssumption
<1>4. PICK r : r = Recorded(a, e)
  OBVIOUS
<1>5. r = IF n + 1 > m THEN SubSeq(b, n + 1 - m + 1, n + 1) ELSE b
  BY <1>1, <1>2, <1>3, <1>4 DEF Recorded
<1>6. CASE n + 1 > m
  <2>1. n = m
    BY <1>3, <1>6
  <2>2. n + 1 - m + 1 = 2
    BY <1>3, <2>1
  <2>3. r = SubSeq(b, 2, n + 1)
    <3>1. r = SubSeq(b, n + 1 - m + 1, n + 1)
      BY <1>5, <1>6
    <3> QED BY <2>2, <3>1
  <2>4. r \in Seq(Entries) /\ Len(r) = n /\ \A i \in 1..n : r[i] = b[i + 1]
    BY <1>3, <2>3
  <2>5. Len(r) <= AuditMax /\ Len(r) + 1 = Len(b) /\ \A i \in 1..Len(r) : r[i] = b[i + 1]
    BY <1>2, <1>3, <2>1, <2>4
  <2>6. PushedOut(r, b, 1)
    BY <2>4, <2>5 DEF PushedOut
  <2> QED BY <1>1, <1>4, <2>6, Zenon
<1>7. CASE ~(n + 1 > m)
  <2>1. r = b
    BY <1>5, <1>7
  <2>2. Len(r) <= AuditMax /\ Len(r) + 0 = Len(b) /\ \A i \in 1..Len(r) : r[i] = b[i + 0]
    BY <1>2, <1>3, <1>7, <2>1
  <2>3. PushedOut(r, b, 0)
    BY <1>3, <2>1, <2>2 DEF PushedOut
  <2> QED BY <1>1, <1>4, <2>3, Zenon
<1> QED BY <1>6, <1>7

\* An entry that tells what becomes of HOME keeps the ring telling it.
LEMMA RecordedTells ==
  ASSUME NEW a, a \in Seq(Entries), Len(a) <= AuditMax, NEW e, e \in Entries,
         NEW up, up \in BOOLEAN, NEW now, now \in BOOLEAN, Tells(a, up),
         e \in AboutHome => (now <=> e = "home.mount"), e \notin AboutHome => now = up
  PROVE  /\ Recorded(a, e) \in Seq(Entries) /\ Len(Recorded(a, e)) <= AuditMax
         /\ Tells(Recorded(a, e), now)
<1>1. PICK r, b, n : r = Recorded(a, e) /\ b = Append(a, e) /\ n = Len(a)
  OBVIOUS
<1>2. PICK d : PushedOut(r, b, d)
  <2>1. \E d : PushedOut(Recorded(a, e), Append(a, e), d)
    BY RecordedPlaces
  <2> QED BY <1>1, <2>1, Zenon
<1>3. n \in Nat /\ Len(b) = n + 1 /\ b[n + 1] = e /\ \A i \in 1..n : b[i] = a[i]
  BY <1>1
<1>4. PICK l : l = Len(r)
  OBVIOUS
<1>4a. /\ d \in Nat /\ r \in Seq(Entries) /\ Len(r) <= AuditMax
      /\ \A i \in 1..l : r[i] = b[i + d]
  BY <1>4, <1>2 DEF PushedOut
<1>5. l \in Nat /\ l + d = n + 1
  BY <1>4a, <1>3, <1>4, <1>2 DEF PushedOut
<1>6. ASSUME NEW i \in 1..l, r[i] \in AboutHome, \A j \in 1..l : i < j => r[j] \notin AboutHome
      PROVE  now <=> r[i] = "home.mount"
  <2>1. r[l] = e
    <3>1. l \in 1..l
      BY <1>5
    <3> QED BY <1>4a, <1>3, <1>4, <1>5, <3>1
  <2>2. CASE i = l
    BY <1>6, <2>1, <2>2
  <2>3. CASE i # l
    <3>1. e \notin AboutHome /\ now = up
      <4>1. l \in 1..l /\ i < l
        BY <1>5, <2>3
      <4> QED BY <1>6, <2>1, <4>1
    <3>2. i + d \in 1..n /\ r[i] = b[i + d]
      <4>1. i + d \in 1..n
        BY <1>4a, <1>3, <1>5, <2>3
      <4> QED BY <1>4a, <4>1
    <3>3. a[i + d] = r[i]
      BY <1>3, <3>2
    <3>4. ASSUME NEW j \in 1..n, i + d < j PROVE a[j] \notin AboutHome
      <4>1. PICK k : k = j - d
        OBVIOUS
      <4>2. k \in 1..l /\ i < k /\ k + d = j
        BY <1>4a, <1>3, <1>5, <3>4, <4>1
      <4>3. r[k] = a[j]
        BY <1>4a, <1>3, <1>4, <4>2
      <4> QED BY <1>6, <4>2, <4>3
    <3>5. PICK k : k = i + d
      OBVIOUS
    <3>6. k \in 1..Len(a) /\ a[k] \in AboutHome /\ \A j \in 1..Len(a) : k < j => a[j] \notin AboutHome
      BY <1>1, <1>6, <3>2, <3>3, <3>4, <3>5
    <3>7. up <=> a[k] = "home.mount"
      BY <3>6 DEF Tells
    <3> QED BY <3>1, <3>3, <3>5, <3>7
  <2> QED BY <2>2, <2>3
<1>7. Tells(r, now)
  BY <1>4, <1>6 DEF Tells
<1> QED BY <1>1, <1>4a, <1>7

\* What is asked is answered by a verdict.
LEMMA VerdictIsEntry == ASSUME GateInv, NEW q PROVE Evaluate(q) \in {"allow", "deny", "audit"}
<1>1. policy \in Seq(PolicyUniverse)
  BY DEF GateInv, Stable
<1>2. PICK H : H = PolicyHits(policy, q)
  OBVIOUS
<1>3. H \subseteq DOMAIN policy /\ DOMAIN policy = 1..Len(policy)
  BY <1>1, <1>2 DEF PolicyHits
<1>4. CASE H = {}
  BY <1>2, <1>4 DEF Evaluate, FirstMatch
<1>5. CASE H # {}
  <2>1. H \in SUBSET Nat
    BY <1>3
  <2>2. \E x \in H : \A y \in H : x <= y
    BY <1>5, <2>1, NatMin
  <2>3. Min(H) \in H
    BY <2>2 DEF Min
  <2>4. policy[Min(H)] \in PolicyUniverse
    BY <1>1, <1>3, <2>3
  <2>5. Evaluate(q) = policy[Min(H)].verdict
    BY <1>2, <1>5 DEF Evaluate, FirstMatch
  <2> QED BY <2>4, <2>5, GateDefaults
<1> QED BY <1>4, <1>5

\* The policy starts with its defaults in order, the ring empty.
LEMMA GateStarts == GateInit => GateInv
<1> SUFFICES ASSUME GateInit PROVE GateInv
  OBVIOUS
<1>1. PICK X, s : X = PolicyUniverse /\ s = OsPolicy
  OBVIOUS
<1>2. s \in Seq(X) /\ Len(s) = 9 /\ HavePrio(X)
  BY <1>1, GateDefaults
<1>3. Stable(Built(s), s, X) /\ Len(Built(s)) = 9
  BY <1>2, BuiltStable
<1>4. Built(s) \in Seq(X)
  BY <1>3 DEF Stable
<1>5. Capped(Built(s), X, ExtraRule, Len(Built(s)), MaxExtra)
  BY <1>4, CappedInit
<1>6. Capped(Built(s), X, ExtraRule, 9, MaxExtra)
  BY <1>3, <1>5
<1>7. policy = Built(s) /\ policyLog = s
  BY <1>1 DEF GateInit
<1>8. online = FALSE /\ homeUp = FALSE /\ audit = <<>> /\ devices = {}
  BY DEF GateInit
<1>9. Tells(<<>>, FALSE)
  BY DEF Tells
<1>10. <<>> \in Seq(Entries) /\ Len(<<>>) <= AuditMax
  BY GateAssumption
<1> QED BY <1>1, <1>3, <1>6, <1>7, <1>8, <1>9, <1>10 DEF GateInv

\* The rules of the policy and what the ring tells, apart.
RulesInv == /\ Stable(policy, policyLog, PolicyUniverse)
            /\ Capped(policy, PolicyUniverse, ExtraRule, 9, MaxExtra)
RingInv == audit \in Seq(Entries) /\ Len(audit) <= AuditMax /\ Tells(audit, homeUp)

\* Adding and removing rules keep the others in order.
LEMMA RulesKeep ==
  ASSUME RulesInv, (\E r \in ExtraRule : PolicyAdd(r)) \/ (\E n \in Removable : PolicyRemove(n))
  PROVE  RulesInv'
<1>1. PICK X : X = PolicyUniverse
  OBVIOUS
<1>2. /\ HavePrio(X) /\ ExtraRule \subseteq X /\ MaxExtra \in Nat
      /\ Stable(policy, policyLog, X) /\ Capped(policy, X, ExtraRule, 9, MaxExtra)
      /\ policy \in Seq(X) /\ ByPrio(policy)
  BY <1>1, GateDefaults, GateAssumption DEF RulesInv, PolicyUniverse, Stable
<1>3. CASE \E r \in ExtraRule : PolicyAdd(r)
  <2>1. PICK r \in ExtraRule : PolicyAdd(r)
    BY <1>3
  <2>2. r \in X /\ policy' = Insert(policy, r) /\ policyLog' = Append(policyLog, r)
        /\ Cardinality({i \in DOMAIN policy : policy[i] \in ExtraRule}) < MaxExtra
    BY <1>2, <2>1 DEF PolicyAdd, PolicyInsert
  <2>3. Stable(Insert(policy, r), Append(policyLog, r), X)
    BY <1>2, <2>2, InsertStable
  <2>4. Capped(Insert(policy, r), X, ExtraRule, 9, MaxExtra)
    BY <1>2, <2>2, CappedInsert
  <2> QED BY <1>1, <2>2, <2>3, <2>4 DEF RulesInv
<1>4. CASE \E n \in Removable : PolicyRemove(n)
  <2>1. PICK n : PolicyRemove(n)
    BY <1>4
  <2>2. policy' = WithoutName(policy, n) /\ policyLog' = WithoutName(policyLog, n)
    BY <2>1 DEF PolicyRemove, PolicyWithout
  <2>3. Stable(WithoutName(policy, n), WithoutName(policyLog, n), X)
    BY <1>2, WithoutNameStable
  <2>4. Capped(WithoutName(policy, n), X, ExtraRule, 9, MaxExtra)
    BY <1>2, WithoutNameCapped
  <2> QED BY <1>1, <2>2, <2>3, <2>4 DEF RulesInv
<1> QED BY <1>3, <1>4

\* Every call keeps the rules in order and the ring telling.
LEMMA GateKeeps == ASSUME GateInv, GateNext PROVE GateInv'
<1>1. RulesInv /\ RingInv /\ online \in BOOLEAN /\ homeUp \in BOOLEAN /\ devices \subseteq Device
  BY DEF GateInv, RulesInv, RingInv
<1>2. ASSUME RulesInv', RingInv', online' \in BOOLEAN, homeUp' \in BOOLEAN, devices' \subseteq Device PROVE GateInv'
  BY <1>2 DEF GateInv, RulesInv, RingInv
<1>3. audit \in Seq(Entries) /\ Len(audit) <= AuditMax /\ Tells(audit, homeUp)
  BY <1>1 DEF RingInv
<1>4. ASSUME UNCHANGED <<policy, policyLog>> PROVE RulesInv'
  BY <1>1, <1>4 DEF RulesInv
<1>5. ASSUME UNCHANGED <<audit, homeUp>> PROVE RingInv'
  BY <1>1, <1>5 DEF RingInv
<1>6. ASSUME NEW e, e \in Entries, audit' = Recorded(audit, e), homeUp' \in BOOLEAN,
             e \in AboutHome => (homeUp' <=> e = "home.mount"), e \notin AboutHome => homeUp' = homeUp
      PROVE  RingInv'
  <2>1. PICK up, now : up = homeUp /\ now = homeUp'
    OBVIOUS
  <2>2. /\ Recorded(audit, e) \in Seq(Entries) /\ Len(Recorded(audit, e)) <= AuditMax
        /\ Tells(Recorded(audit, e), now)
    BY <1>1, <1>3, <1>6, <2>1, RecordedTells
  <2> QED BY <1>6, <2>1, <2>2 DEF RingInv
<1>7. CASE (\E r \in ExtraRule : PolicyAdd(r)) \/ (\E n \in Removable : PolicyRemove(n))
  <2>1. RulesInv'
    BY <1>1, <1>7, RulesKeep
  <2>2. UNCHANGED <<online, homeUp, audit, devices>>
    BY <1>7 DEF PolicyAdd, PolicyRemove
  <2> QED BY <1>1, <1>2, <1>5, <2>1, <2>2
<1>8. ASSUME NEW q, Gate(q) PROVE GateInv'
  <2>1. UNCHANGED <<policy, policyLog, online, homeUp, devices>> /\ audit' = Recorded(audit, Evaluate(q))
    BY <1>8 DEF Gate, Audited
  <2>2. PICK e : e = Evaluate(q)
    OBVIOUS
  <2>3. e \in {"allow", "deny", "audit"}
    BY <2>2, VerdictIsEntry
  <2>4. e \in Entries /\ e \notin AboutHome
    BY <2>3 DEF Entries, AboutHome
  <2>5. RingInv'
    BY <1>1, <1>6, <2>1, <2>2, <2>4
  <2> QED BY <1>1, <1>2, <1>4, <2>1, <2>5
<1>9. ASSUME NEW d \in Device, RegisterDevice(d) PROVE GateInv'
  <2>1. UNCHANGED <<policy, policyLog, online, homeUp, audit>> /\ devices' \subseteq Device
    BY <1>1, <1>9 DEF RegisterDevice
  <2> QED BY <1>1, <1>2, <1>4, <1>5, <2>1
<1>10. CASE StartRoot
  <2>1. UNCHANGED <<policy, policyLog, homeUp, devices>> /\ online' = TRUE /\ audit' = Recorded(audit, "root.start")
    BY <1>10 DEF StartRoot, Audited
  <2>2. "root.start" \in Entries /\ "root.start" \notin AboutHome
    BY DEF Entries, AboutHome
  <2>3. RingInv'
    BY <1>1, <1>6, <2>1, <2>2
  <2> QED BY <1>1, <1>2, <1>4, <2>1, <2>3
<1>11. CASE StopRoot
  <2>1. UNCHANGED <<policy, policyLog, devices>> /\ online' = FALSE /\ homeUp' = FALSE
    BY <1>11 DEF StopRoot
  <2>2. PICK a : a = IF homeUp THEN Recorded(audit, "home.unmount") ELSE audit
    OBVIOUS
  <2>3. audit' = Recorded(a, "root.stop")
    BY <1>11, <2>2 DEF StopRoot, Audited
  <2>4. "root.stop" \in Entries /\ "root.stop" \notin AboutHome
        /\ "home.unmount" \in Entries /\ "home.unmount" \in AboutHome /\ "home.unmount" # "home.mount"
    BY DEF Entries, AboutHome
  <2>5. a \in Seq(Entries) /\ Len(a) <= AuditMax /\ Tells(a, FALSE)
    <3>1. CASE homeUp
      <4>1. PICK up, e, now : up = homeUp /\ e = "home.unmount" /\ now = FALSE
        OBVIOUS
      <4>2. e \in Entries /\ e \in AboutHome /\ (now <=> e = "home.mount") /\ up \in BOOLEAN /\ now \in BOOLEAN
            /\ Tells(audit, up)
        BY <1>1, <1>3, <2>4, <4>1
      <4>3. Recorded(audit, e) \in Seq(Entries) /\ Len(Recorded(audit, e)) <= AuditMax /\ Tells(Recorded(audit, e), now)
        BY <1>3, <4>2, RecordedTells
      <4> QED BY <2>2, <3>1, <4>1, <4>3
    <3>2. CASE ~homeUp
      <4>1. homeUp = FALSE
        BY <1>1, <3>2
      <4> QED BY <1>3, <2>2, <4>1
    <3> QED BY <3>1, <3>2
  <2>6. RingInv'
    <3>1. PICK up, e, now : up = FALSE /\ e = "root.stop" /\ now = FALSE
      OBVIOUS
    <3>2. e \in Entries /\ e \notin AboutHome /\ now = up /\ up \in BOOLEAN /\ now \in BOOLEAN /\ Tells(a, up)
      BY <2>4, <2>5, <3>1
    <3>3. Recorded(a, e) \in Seq(Entries) /\ Len(Recorded(a, e)) <= AuditMax /\ Tells(Recorded(a, e), now)
      BY <2>5, <3>2, RecordedTells
    <3> QED BY <2>1, <2>3, <3>1, <3>3 DEF RingInv
  <2> QED BY <1>2, <1>1, <1>4, <2>1, <2>6
<1>12. CASE Mount
  <2>1. UNCHANGED <<policy, policyLog, online, devices>> /\ homeUp' = TRUE /\ audit' = Recorded(audit, "home.mount")
    BY <1>12 DEF Mount, Audited
  <2>2. "home.mount" \in Entries /\ "home.mount" \in AboutHome
    BY DEF Entries, AboutHome
  <2>3. RingInv'
    BY <1>1, <1>6, <2>1, <2>2
  <2> QED BY <1>1, <1>2, <1>4, <2>1, <2>3
<1>13. CASE Unmount
  <2>1. UNCHANGED <<policy, policyLog, online, devices>> /\ homeUp' = FALSE /\ audit' = Recorded(audit, "home.unmount")
    BY <1>13 DEF Unmount, Audited
  <2>2. "home.unmount" \in Entries /\ "home.unmount" \in AboutHome /\ "home.unmount" # "home.mount"
    BY DEF Entries, AboutHome
  <2>3. RingInv'
    BY <1>1, <1>6, <2>1, <2>2
  <2> QED BY <1>1, <1>2, <1>4, <2>1, <2>3
<1> QED BY <1>7, <1>8, <1>9, <1>10, <1>11, <1>12, <1>13 DEF GateNext, OpenDevice, ReadDevice

\* Rules in order and a telling ring are what the gate promises.
LEMMA GatePromises == ASSUME GateInv PROVE GateTypeOK /\ PolicyDecides /\ AuditTellsMount
<1>1. HavePrio(PolicyUniverse) /\ Stable(policy, policyLog, PolicyUniverse)
  BY GateDefaults DEF GateInv
<1>2. policy \in Seq(PolicyUniverse) /\ policyLog \in Seq(PolicyUniverse)
  BY <1>1 DEF Stable
<1>3. Len(policy) <= 9 + MaxExtra
  BY <1>2, CappedLen, GateAssumption DEF GateInv
<1>4. ASSUME NEW q \in Request PROVE Evaluate(q) = ByPriority(policyLog, PolicyHits(policyLog, q), "deny")
  <2> DEFINE M == {r \in PolicyUniverse : RuleMatches(r, q)}
  <2>1. ASSUME NEW s, s \in Seq(PolicyUniverse) PROVE PolicyHits(s, q) = {i \in DOMAIN s : s[i] \in M}
    <3>1. \A i \in DOMAIN s : s[i] \in PolicyUniverse
      BY <2>1
    <3>2. \A i \in DOMAIN s : RuleMatches(s[i], q) <=> s[i] \in M
      BY <3>1
    <3> HIDE DEF M
    <3> QED BY <3>2 DEF PolicyHits
  <2> HIDE DEF M
  <2>2. PolicyHits(policy, q) = {i \in DOMAIN policy : policy[i] \in M}
    BY <1>2, <2>1
  <2>3. PolicyHits(policyLog, q) = {i \in DOMAIN policyLog : policyLog[i] \in M}
    BY <1>2, <2>1
  <2>4. FirstMatch(policy, {i \in DOMAIN policy : policy[i] \in M}, "deny")
          = ByPriority(policyLog, {i \in DOMAIN policyLog : policyLog[i] \in M}, "deny")
    BY <1>1, DecidedAlike
  <2> QED BY <2>2, <2>3, <2>4, Zenon DEF Evaluate
<1>5. PolicyDecides
  BY <1>4 DEF PolicyDecides
<1>6. AuditTellsMount
  <2>1. PICK about : about = {i \in DOMAIN audit : audit[i] \in {"home.mount", "home.unmount"}}
    OBVIOUS
  <2>2. DOMAIN audit = 1..Len(audit) /\ Len(audit) \in Nat
    BY DEF GateInv
  <2>3. about \in SUBSET (1..Len(audit))
    BY <2>1, <2>2
  <2>4. ASSUME about # {} PROVE homeUp <=> audit[Max(about)] = "home.mount"
    <3>1. PICK k : k = Max(about)
      OBVIOUS
    <3>2. k \in about /\ \A x \in about : k >= x
      BY <2>2, <2>3, <2>4, <3>1, PlaceMax
    <3>3. k \in 1..Len(audit) /\ audit[k] \in AboutHome
      BY <2>1, <2>2, <3>2 DEF AboutHome
    <3>4. \A j \in 1..Len(audit) : k < j => audit[j] \notin AboutHome
      <4> SUFFICES ASSUME NEW j \in 1..Len(audit), k < j, audit[j] \in AboutHome PROVE FALSE
        OBVIOUS
      <4>1. j \in about
        BY <2>1, <2>2 DEF AboutHome
      <4> QED BY <2>2, <3>2, <3>3, <4>1
    <3> QED BY <3>1, <3>3, <3>4 DEF GateInv, Tells
  <2> QED BY <2>1, <2>4 DEF AuditTellsMount
<1>7. Len(OsPolicy) = 9
  BY GateDefaults
<1>8. online \in BOOLEAN /\ homeUp \in BOOLEAN /\ devices \subseteq Device /\ Len(audit) <= AuditMax
  BY DEF GateInv
<1> QED BY <1>3, <1>5, <1>6, <1>7, <1>8 DEF GateTypeOK

-----------------------------------------------------------------------------
(* The name service. *)

Records == [rtype : {"A", "TXT"}, value : Ip]
Addresses == {r \in Records : r.rtype = "A"}

\* An override that holds is the first address of its name.
PinHolds(z, p) == p # NoAnswer => Kept(z, Addresses) # <<>> /\ Head(Kept(z, Addresses)).value = p

DnsInv ==
  /\ zone \in [Name -> Seq(Records)] /\ pinned \in [Name -> Ip \cup {NoAnswer}]
  /\ \A n \in Name : zone[n] \in Seq(Records) /\ Len(zone[n]) <= MaxRecords /\ PinHolds(zone[n], pinned[n])

\* The addresses of a name.
LEMMA OfTypeKept == ASSUME NEW n, zone[n] \in Seq(Records) PROVE OfType(n, "A") = Kept(zone[n], Addresses)
<1>1. PICK z, B : z = zone[n] /\ B = {r \in ToSet(z) : r.rtype = "A"}
  OBVIOUS
<1>2. z \in Seq(Records) /\ ToSet(z) \subseteq Records
  BY <1>1, SetOfType
<1>3. \A x \in ToSet(z) : x \in B <=> x \in Addresses
  BY <1>1, <1>2 DEF Addresses
<1>4. Kept(z, B) = Kept(z, Addresses)
  BY <1>2, <1>3, KeptAgrees
<1> QED BY <1>1, <1>4 DEF OfType

\* The record of an override.
LEMMA OneAddress ==
  ASSUME NEW ip, ip \in Ip
  PROVE  <<ARec(ip)>> \in Seq(Records) /\ Len(<<ARec(ip)>>) = 1 /\ PinHolds(<<ARec(ip)>>, ip)
<1>1. PICK r : r = ARec(ip)
  OBVIOUS
<1>2. r \in Records /\ r \in Addresses /\ r.value = ip
  BY <1>1 DEF ARec, Records, Addresses
<1>3. Kept(<<r>>, Addresses) = <<r>>
  BY <1>2, KeptOne
<1>4. <<r>> # <<>> /\ Head(<<r>>) = r /\ Len(<<r>>) = 1 /\ <<r>> \in Seq(Records)
  BY <1>2
<1> QED BY <1>1, <1>2, <1>3, <1>4 DEF PinHolds

\* Nothing is overridden at the start.
LEMMA DnsStarts == DnsInit => DnsInv
<1> SUFFICES ASSUME DnsInit PROVE DnsInv
  OBVIOUS
<1>1. PICK ip \in Ip : zone = [n \in Name |-> IF n \in Seeded THEN <<ARec(ip)>> ELSE <<>>]
  BY DEF DnsInit
<1>2. pinned = [n \in Name |-> NoAnswer]
  BY DEF DnsInit
<1>3. <<ARec(ip)>> \in Seq(Records) /\ Len(<<ARec(ip)>>) = 1
  BY OneAddress
<1>4. <<>> \in Seq(Records) /\ Len(<<>>) = 0
  OBVIOUS
<1>5. MaxRecords \in Nat /\ 1 <= MaxRecords /\ 0 <= MaxRecords
  BY NameAssumption
<1>6. ASSUME NEW n \in Name PROVE zone[n] \in Seq(Records) /\ Len(zone[n]) <= MaxRecords
  <2>1. zone[n] = <<ARec(ip)>> \/ zone[n] = <<>>
    BY <1>1
  <2> QED BY <1>3, <1>4, <1>5, <2>1
<1>7. zone \in [Name -> Seq(Records)]
  BY <1>1, <1>6
<1> QED BY <1>2, <1>6, <1>7 DEF DnsInv, PinHolds

\* One name changes at a time, and keeps its invariant.
LEMMA OneNameKeeps ==
  ASSUME DnsInv, NEW n \in Name, NEW z, NEW p, z \in Seq(Records), Len(z) <= MaxRecords,
         p \in Ip \cup {NoAnswer}, PinHolds(z, p),
         zone' = [zone EXCEPT ![n] = z], pinned' = [pinned EXCEPT ![n] = p]
  PROVE  DnsInv'
<1>1. zone' \in [Name -> Seq(Records)] /\ pinned' \in [Name -> Ip \cup {NoAnswer}]
  BY DEF DnsInv
<1>2. ASSUME NEW m \in Name
      PROVE  zone'[m] \in Seq(Records) /\ Len(zone'[m]) <= MaxRecords /\ PinHolds(zone'[m], pinned'[m])
  <2>1. CASE m = n
    <3>1. zone'[m] = z /\ pinned'[m] = p
      BY <2>1 DEF DnsInv
    <3> QED BY <3>1
  <2>2. CASE m # n
    <3>1. zone'[m] = zone[m] /\ pinned'[m] = pinned[m]
      BY <2>2 DEF DnsInv
    <3>2. zone[m] \in Seq(Records) /\ Len(zone[m]) <= MaxRecords /\ PinHolds(zone[m], pinned[m])
      BY DEF DnsInv
    <3> QED BY <3>1, <3>2
  <2> QED BY <2>1, <2>2
<1>3. ASSUME NEW m \in Name PROVE PinHolds(zone[m], pinned[m])'
  BY <1>2 DEF PinHolds
<1> QED BY <1>1, <1>2, <1>3 DEF DnsInv

\* Removing records leaves no more of them.
LEMMA KeptRecords ==
  ASSUME NEW z, z \in Seq(Records), Len(z) <= MaxRecords, NEW A
  PROVE  Kept(z, A) \in Seq(Records) /\ Len(Kept(z, A)) <= MaxRecords
<1>1. PICK k, a, b, l : k = Kept(z, A) /\ a = Len(k) /\ b = Len(Kept(z, Records \ A)) /\ l = Len(z)
  OBVIOUS
<1>2. /\ Len(Kept(z, A)) \in Nat /\ Len(Kept(z, Records \ A)) \in Nat
      /\ Len(Kept(z, A)) + Len(Kept(z, Records \ A)) = Len(z)
  BY KeptParts
<1>3. a \in Nat /\ b \in Nat /\ a + b = l
  BY <1>1, <1>2, Zenon
<1>4. l <= MaxRecords /\ MaxRecords \in Nat
  BY <1>1, NameAssumption
<1>5. a <= MaxRecords
  BY <1>3, <1>4
<1>6. k \in Seq(Records \cap A)
  BY <1>1, KeptType
<1>7. k \in Seq(Records)
  BY <1>6
<1> QED BY <1>1, <1>5, <1>7

\* Records added later, and removals of other types, leave an override first.
LEMMA DnsKeeps == ASSUME DnsInv, DnsNext PROVE DnsInv'
<1>1. MaxRecords \in Nat /\ 1 <= MaxRecords /\ 0 <= MaxRecords
  BY NameAssumption
<1>2. CASE UpstreamChanges
  BY <1>2 DEF UpstreamChanges, DnsInv, PinHolds
<1>3. PinHolds(<<>>, NoAnswer) /\ <<>> \in Seq(Records) /\ Len(<<>>) <= MaxRecords
  BY <1>1 DEF PinHolds
<1>4. \A n \in Name : zone[n] \in Seq(Records) /\ Len(zone[n]) <= MaxRecords /\ PinHolds(zone[n], pinned[n])
                      /\ pinned[n] \in Ip \cup {NoAnswer}
  BY DEF DnsInv
<1>5. \A n \in Name : pinned = [pinned EXCEPT ![n] = pinned[n]]
  BY DEF DnsInv
<1>6. ASSUME NEW n \in Name, RemoveName(n) PROVE DnsInv'
  <2>1. zone' = [zone EXCEPT ![n] = <<>>] /\ pinned' = [pinned EXCEPT ![n] = NoAnswer]
    BY <1>6 DEF RemoveName
  <2>2. PICK e : e = <<>>
    OBVIOUS
  <2>3. NoAnswer \in Ip \cup {NoAnswer}
    OBVIOUS
  <2> QED BY <1>3, <2>1, <2>2, <2>3, OneNameKeeps
<1>7. ASSUME NEW n \in Name, NEW t \in {"A", "TXT"}, RemoveType(n, t) PROVE DnsInv'
  <2>1. PICK z, B, A : z = zone[n] /\ B = {r \in ToSet(z) : r.rtype # t} /\ A = {r \in Records : r.rtype # t}
    OBVIOUS
  <2>2. z \in Seq(Records) /\ Len(z) <= MaxRecords /\ ToSet(z) \subseteq Records
    BY <1>4, <2>1, SetOfType
  <2>3. \A x \in ToSet(z) : x \in B <=> x \in A
    BY <2>1, <2>2
  <2>4. Kept(z, B) = Kept(z, A)
    BY <2>2, <2>3, KeptAgrees
  <2>5. PICK k : k = Kept(z, A)
    OBVIOUS
  <2>6. k \in Seq(Records) /\ Len(k) <= MaxRecords
    BY <2>2, <2>5, KeptRecords
  <2>7. zone' = [zone EXCEPT ![n] = k]
    BY <1>7, <2>1, <2>4, <2>5 DEF RemoveType
  <2>8. CASE t = "A"
    <3>1. pinned' = [pinned EXCEPT ![n] = NoAnswer]
      BY <1>7, <2>8 DEF RemoveType
    <3>2. PinHolds(k, NoAnswer)
      BY DEF PinHolds
    <3>3. NoAnswer \in Ip \cup {NoAnswer}
      OBVIOUS
    <3> QED BY <2>6, <2>7, <3>1, <3>2, <3>3, OneNameKeeps
  <2>9. CASE t # "A"
    <3>1. pinned' = pinned
      BY <1>7, <2>9 DEF RemoveType
    <3>2. Kept(k, Addresses) = Kept(z, Addresses)
      <4>1. PICK C : C = A \cap Addresses
        OBVIOUS
      <4>2. Kept(k, Addresses) = Kept(z, C)
        BY <2>2, <2>5, <4>1, KeptTwice
      <4>3. C = Addresses
        BY <2>1, <2>9, <4>1 DEF Addresses
      <4> QED BY <4>2, <4>3
    <3>3. PICK p : p = pinned[n]
      OBVIOUS
    <3>4. PinHolds(k, p) /\ p \in Ip \cup {NoAnswer}
      BY <1>4, <2>1, <3>2, <3>3 DEF PinHolds
    <3>5. pinned' = [pinned EXCEPT ![n] = p]
      BY <1>5, <3>1, <3>3
    <3> QED BY <2>6, <2>7, <3>4, <3>5, OneNameKeeps
  <2> QED BY <2>8, <2>9
<1>8. ASSUME NEW n \in Name, NEW ip \in Ip, Override(n, ip) PROVE DnsInv'
  <2>1. PICK z : z = <<ARec(ip)>>
    OBVIOUS
  <2>2. z \in Seq(Records) /\ Len(z) <= MaxRecords /\ PinHolds(z, ip)
    BY <1>1, <2>1, OneAddress
  <2>3. zone' = [zone EXCEPT ![n] = z] /\ pinned' = [pinned EXCEPT ![n] = ip]
    BY <1>8, <2>1 DEF Override
  <2>4. ip \in Ip \cup {NoAnswer}
    OBVIOUS
  <2> QED BY <2>2, <2>3, <2>4, OneNameKeeps
<1>9. ASSUME NEW n \in Name, NEW r, r \in Records, AddRecord(n, r) PROVE DnsInv'
  <2>1. PICK z, k, p : z = zone[n] /\ k = Append(z, r) /\ p = pinned[n]
    OBVIOUS
  <2>2. z \in Seq(Records) /\ PinHolds(z, p) /\ p \in Ip \cup {NoAnswer}
    BY <1>4, <2>1
  <2>3. Len(z) < MaxRecords /\ zone' = [zone EXCEPT ![n] = k] /\ pinned' = pinned
    BY <1>9, <2>1 DEF AddRecord
  <2>4. k \in Seq(Records) /\ Len(k) <= MaxRecords
    BY <1>1, <1>9, <2>1, <2>2, <2>3
  <2>5. PinHolds(k, p)
    <3>1. PICK h : h = Kept(z, Addresses)
      OBVIOUS
    <3>2. /\ r \in Addresses => Kept(Append(z, r), Addresses) = Append(Kept(z, Addresses), r)
          /\ r \notin Addresses => Kept(Append(z, r), Addresses) = Kept(z, Addresses)
      BY <1>9, <2>2, KeptAppend
    <3>3. Kept(k, Addresses) = Append(h, r) \/ Kept(k, Addresses) = h
      BY <2>1, <3>1, <3>2
    <3>4. h \in Seq(Records)
      <4>1. h \in Seq(Records \cap Addresses)
        BY <2>2, <3>1, KeptType
      <4> QED BY <4>1
    <3>5. h # <<>> => Append(h, r) # <<>> /\ Head(Append(h, r)) = Head(h)
      BY <1>9, <3>4
    <3> QED BY <2>2, <3>1, <3>3, <3>5 DEF PinHolds
  <2>6. pinned' = [pinned EXCEPT ![n] = p]
    BY <1>5, <2>1, <2>3
  <2> QED BY <2>2, <2>3, <2>4, <2>5, <2>6, OneNameKeeps
<1>10. \A ip \in Ip : ARec(ip) \in Records /\ Text(ip) \in Records
  BY DEF ARec, Text, Records
<1> QED BY <1>2, <1>6, <1>7, <1>8, <1>9, <1>10 DEF DnsNext

\* An override that is first is what is resolved.
LEMMA DnsPromises == ASSUME DnsInv PROVE DnsTypeOK /\ OverrideHolds
<1>1. ASSUME NEW n \in Name PROVE zone[n] \in BoundedSeq([rtype : {"A", "TXT"}, value : Ip], MaxRecords)
  <2>1. PICK S, z, l : S = Records /\ z = zone[n] /\ l = Len(z)
    OBVIOUS
  <2>2. z \in Seq(S) /\ l <= MaxRecords /\ MaxRecords \in Nat
    BY <2>1, NameAssumption DEF DnsInv
  <2>3. l \in 0..MaxRecords /\ z \in [1..l -> S]
    BY <2>1, <2>2
  <2>4. z \in UNION {[1..m -> S] : m \in 0..MaxRecords}
    BY <2>3, Zenon
  <2> QED BY <2>1, <2>4, Zenon DEF BoundedSeq, SeqOf, Records
<1>2. DnsTypeOK
  <2>1. zone = [n \in Name |-> zone[n]]
    BY DEF DnsInv
  <2> QED BY <1>1, <2>1 DEF DnsTypeOK, DnsInv
<1>3. ASSUME NEW n \in Name, pinned[n] # NoAnswer PROVE OfType(n, "A") # <<>> /\ Head(OfType(n, "A")).value = pinned[n]
  <2>1. OfType(n, "A") = Kept(zone[n], Addresses)
    BY OfTypeKept DEF DnsInv
  <2>2. PinHolds(zone[n], pinned[n])
    BY DEF DnsInv
  <2> QED BY <1>3, <2>1, <2>2 DEF PinHolds
<1>4. \A n \in Name : Qualified[n] \in Name
  BY NameAssumption
<1> QED BY <1>2, <1>3, <1>4 DEF OverrideHolds, Resolve

-----------------------------------------------------------------------------
(* The policy, the firewall and the names of any system. *)

AccessInv == GateInv /\ FwInv /\ DnsInv

\* Whichever component moves, all three keep their invariants.
LEMMA AccessStep == ASSUME AccessInv, [RootNext]_rootVars PROVE AccessInv'
<1>1. GateInv'
  <2>1. GateNext \/ UNCHANGED gateVars
    BY DEF RootNext, rootVars, Rest
  <2>2. ASSUME UNCHANGED gateVars PROVE GateInv'
    BY <2>2 DEF AccessInv, gateVars, GateInv
  <2> QED BY <2>1, <2>2, GateKeeps DEF AccessInv
<1>2. FwInv'
  <2>1. FwNext \/ UNCHANGED fwVars
    BY DEF RootNext, rootVars, Rest
  <2>2. ASSUME UNCHANGED fwVars PROVE FwInv'
    BY <2>2 DEF AccessInv, fwVars, FwInv
  <2> QED BY <2>1, <2>2, FwKeeps DEF AccessInv
<1>3. DnsInv'
  <2>1. DnsNext \/ UNCHANGED dnsVars
    BY DEF RootNext, rootVars, Rest
  <2>2. ASSUME UNCHANGED dnsVars PROVE DnsInv'
    BY <2>2 DEF AccessInv, dnsVars, DnsInv, PinHolds
  <2> QED BY <2>1, <2>2, DnsKeeps DEF AccessInv
<1> QED BY <1>1, <1>2, <1>3 DEF AccessInv

\* Requests, packets and names are answered by what was added and is still
\* there, whatever the requests and packets, the extra rules and their
\* priorities, the size of the audit ring, and the names and addresses.
THEOREM AccessIsDecided == RootSpec => []AccessDecided
<1>1. RootInit => AccessInv
  BY GateStarts, FwStarts, DnsStarts DEF RootInit, AccessInv
<1>2. AccessInv /\ [RootNext]_rootVars => AccessInv'
  BY AccessStep
<1>3. AccessInv => AccessDecided
  BY GatePromises, FwPromises, DnsPromises DEF AccessInv, AccessDecided
<1> QED BY <1>1, <1>2, <1>3, PTL DEF RootSpec
=============================================================================
