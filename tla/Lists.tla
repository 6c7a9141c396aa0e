------------------------------- MODULE Lists -------------------------------
(***************************************************************************)
(* Operators on the lists the components keep: what is left of a list when *)
(* some of its elements go, and the ordered rule lists of PolicyEngine     *)
(* (aura/root/policy.py) and Firewall (aura/network/firewall.py), where a  *)
(* rule is a record with at least a name, a verdict and a priority.  Both  *)
(* keep the list sorted by priority, ties in the order of insertion, and   *)
(* let the first match decide.                                             *)
(***************************************************************************)
EXTENDS Integers, Sequences, FiniteSets, FiniteSetsExt, SequencesExt

\* The elements of s that are in A, in their order: [x for x in s if x in A].
Kept(s, A) == FoldLeft(LAMBDA kept, x : IF x \in A THEN Append(kept, x) ELSE kept, <<>>, s)

\* Append and stable sort: a new rule goes behind those of its priority.
Insert(rs, r) ==
  InsertAt(rs, 1 + Cardinality({i \in DOMAIN rs : rs[i].prio <= r.prio}), r)

WithoutName(rs, n) == Kept(rs, {r \in ToSet(rs) : r.name # n})

Names(rs) == {rs[i].name : i \in DOMAIN rs}

\* Of the places in the list that match, the first decides.
FirstMatch(rs, hits, default) == IF hits = {} THEN default ELSE rs[Min(hits)].verdict

\* A list built by inserting rules one after the other.
Built(rs) == FoldLeft(Insert, <<>>, rs)

\* What the list promises, in terms of the rules as they were added: of those
\* that match, the lowest priority decides, and the earliest among equals.
ByPriority(added, hits, default) ==
  LET best == {i \in hits : \A j \in hits : \/ added[i].prio < added[j].prio
                                            \/ added[i].prio = added[j].prio /\ i <= j}
  IN  IF hits = {} THEN default ELSE added[CHOOSE i \in best : TRUE].verdict
=============================================================================
