----------------------------- MODULE DataLemmas -----------------------------
(***************************************************************************)
(* Facts about finite sets, sums and lists that the proofs of several      *)
(* components rest on.  Induction is over a set of values: the values that *)
(* satisfy what is to be shown.                                            *)
(***************************************************************************)
EXTENDS Lists, FiniteSetTheorems, SequenceTheorems, WellFoundedInduction, TLAPS

-----------------------------------------------------------------------------
(* Induction. *)

LEMMA NatMin ==
  ASSUME NEW T \in SUBSET Nat, T # {} PROVE \E x \in T : \A y \in T : x <= y
<1>1. PICK x \in T : \A y \in T : ~ (<<y, x>> \in OpToRel(<, Nat))
  BY NatLessThanWellFounded, WFMin, Zenon
<1>2. ASSUME NEW y \in T, y < x PROVE FALSE
  <2>1. <<y, x>> \in OpToRel(<, Nat)
    BY <1>2, Zenon DEF OpToRel
  <2> QED BY <1>1, <2>1
<1> QED BY <1>2

LEMMA NatInduct ==
  ASSUME NEW P, 0 \in P, \A n \in Nat : n \in P => n + 1 \in P
  PROVE  Nat \subseteq P
<1> SUFFICES ASSUME Nat \ P # {} PROVE FALSE
  OBVIOUS
<1>1. PICK x \in Nat \ P : \A y \in Nat \ P : x <= y
  BY NatMin
<1>2. x # 0 /\ x - 1 \in Nat
  BY <1>1
<1>3. x - 1 \in P
  BY <1>1, <1>2
<1> QED BY <1>1, <1>2, <1>3

LEMMA PlaceMax ==
  ASSUME NEW n \in Nat, NEW S \in SUBSET (1..n), S # {}
  PROVE  Max(S) \in S /\ \A x \in S : Max(S) >= x
<1> DEFINE T == {k \in Nat : \A x \in S : x <= k}
<1>1. n \in T
  OBVIOUS
<1>2. PICK m \in T : \A k \in T : m <= k
  BY <1>1, NatMin
<1>3. m \in S
  <2> SUFFICES ASSUME m \notin S PROVE FALSE
    OBVIOUS
  <2>1. \A x \in S : x <= m /\ x # m /\ x \in 1..n
    BY <1>2
  <2>2. m >= 1
    <3>1. PICK y \in S : TRUE
      OBVIOUS
    <3> QED BY <2>1, <3>1
  <2>3. m - 1 \in Nat /\ \A x \in S : x <= m - 1
    BY <2>1, <2>2
  <2> QED BY <1>2, <2>3
<1> QED BY <1>2, <1>3 DEF Max

LEMMA SubsetInduct ==
  ASSUME NEW S, IsFiniteSet(S), NEW P, {} \in P,
         \A s \in SUBSET S : (s # {} /\ \A x \in s : s \ {x} \in P) => s \in P
  PROVE  SUBSET S \subseteq P
<1> DEFINE N == {n \in Nat : \A s \in SUBSET S : Cardinality(s) = n => s \in P}
<1>1. \A s \in SUBSET S : IsFiniteSet(s) /\ Cardinality(s) \in Nat
  BY FS_Subset, FS_CardinalityType
<1>2. 0 \in N
  BY <1>1, FS_EmptySet
<1>3. ASSUME NEW n \in Nat, n \in N PROVE n + 1 \in N
  <2> SUFFICES ASSUME NEW s \in SUBSET S, Cardinality(s) = n + 1 PROVE s \in P
    OBVIOUS
  <2>1. s # {}
    BY <1>1, FS_EmptySet
  <2>2. ASSUME NEW x \in s PROVE s \ {x} \in P
    <3>1. Cardinality(s \ {x}) = n /\ s \ {x} \in SUBSET S
      BY <1>1, FS_RemoveElement
    <3> QED BY <1>3, <3>1
  <2> QED BY <2>1, <2>2
<1> HIDE DEF N
<1>4. Nat \subseteq N
  BY <1>2, <1>3, NatInduct
<1> QED BY <1>1, <1>4 DEF N

LEMMA SeqInduct ==
  ASSUME NEW X, NEW P, <<>> \in P, \A s \in Seq(X), x \in X : s \in P => Append(s, x) \in P
  PROVE  Seq(X) \subseteq P
<1> DEFINE N == {n \in Nat : \A s \in Seq(X) : Len(s) = n => s \in P}
<1>1. 0 \in N
  BY EmptySeq
<1>2. ASSUME NEW n \in Nat, n \in N PROVE n + 1 \in N
  <2> SUFFICES ASSUME NEW s \in Seq(X), Len(s) = n + 1 PROVE s \in P
    OBVIOUS
  <2>1. s # <<>>
    BY EmptySeq
  <2>2. PICK t \in Seq(X), x \in X : s = Append(t, x)
    <3>1. s = Append(SubSeq(s, 1, n), s[n + 1])
      OBVIOUS
    <3>2. SubSeq(s, 1, n) \in Seq(X) /\ s[n + 1] \in X
      OBVIOUS
    <3> QED BY <3>1, <3>2
  <2>3. Len(t) = n
    BY <2>2
  <2> QED BY <1>2, <2>2, <2>3
<1> HIDE DEF N
<1>3. Nat \subseteq N
  BY <1>1, <1>2, NatInduct
<1> QED BY <1>3, LenProperties DEF N

-----------------------------------------------------------------------------
(* Folds.  h is the fold of g over every subset of I: c chooses the element *)
(* that is taken last, e is what it stands for, and a what the empty set    *)
(* gives.                                                                   *)

Folded(h, I, a, e, g, c) ==
  h = [s \in SUBSET I |-> IF s = {} THEN a ELSE g[<<e[c[s]], h[s \ {c[s]}]>>]]

LEMMA FoldExists ==
  ASSUME NEW I, IsFiniteSet(I), NEW A, NEW a \in A, NEW X, NEW e, \A i \in I : e[i] \in X,
         NEW g, \A x \in X, b \in A : g[<<x, b>>] \in A, NEW c, \A s \in SUBSET I : s # {} => c[s] \in s
  PROVE  \E h \in [SUBSET I -> A] : Folded(h, I, a, e, g, c)
<1> DEFINE Step(h, s) == IF s = {} THEN a ELSE g[<<e[c[s]], h[s \ {c[s]}]>>]
           N == {n \in Nat : \E h \in [SUBSET I -> A] : \A s \in SUBSET I :
                               Cardinality(s) <= n => h[s] = Step(h, s)}
<1>1. \A s \in SUBSET I : IsFiniteSet(s) /\ Cardinality(s) \in Nat
  BY FS_Subset, FS_CardinalityType
<1>2. \A s \in SUBSET I : s # {} => /\ c[s] \in s /\ s \ {c[s]} \in SUBSET I
                                    /\ Cardinality(s \ {c[s]}) = Cardinality(s) - 1
  BY <1>1, FS_RemoveElement
<1>3. 0 \in N
  <2>1. [s \in SUBSET I |-> a] \in [SUBSET I -> A]
    OBVIOUS
  <2>2. \A s \in SUBSET I : Cardinality(s) <= 0 => s = {}
    BY <1>1, FS_EmptySet
  <2> QED BY <2>1, <2>2
<1>4. ASSUME NEW n \in Nat, n \in N PROVE n + 1 \in N
  <2>1. PICK h \in [SUBSET I -> A] : \A s \in SUBSET I : Cardinality(s) <= n => h[s] = Step(h, s)
    BY <1>4
  <2> DEFINE k == [s \in SUBSET I |-> Step(h, s)]
  <2>2. \A s \in SUBSET I : Step(h, s) \in A
    BY <1>2
  <2>3. k \in [SUBSET I -> A]
    BY <2>2
  <2>4. \A s \in SUBSET I : Cardinality(s) <= n => k[s] = h[s]
    BY <2>1
  <2>5. ASSUME NEW s \in SUBSET I, Cardinality(s) <= n + 1 PROVE k[s] = Step(k, s)
    <3>1. CASE s = {}
      BY <3>1
    <3>2. CASE s # {}
      <4>1. s \ {c[s]} \in SUBSET I /\ Cardinality(s \ {c[s]}) <= n
        BY <1>1, <1>2, <2>5, <3>2
      <4>2. k[s \ {c[s]}] = h[s \ {c[s]}]
        BY <2>4, <4>1
      <4> QED BY <3>2, <4>2
    <3> QED BY <3>1, <3>2
  <2> HIDE DEF k, Step
  <2> QED BY <2>3, <2>5
<1> HIDE DEF N
<1>5. Nat \subseteq N
  BY <1>3, <1>4, NatInduct
<1>6. Cardinality(I) \in N /\ \A s \in SUBSET I : Cardinality(s) <= Cardinality(I)
  BY <1>1, <1>5, FS_Subset
<1>7. PICK h \in [SUBSET I -> A] : \A s \in SUBSET I : h[s] = Step(h, s)
  BY <1>6 DEF N
<1>8. h = [s \in SUBSET I |-> Step(h, s)]
  BY <1>7
<1> QED BY <1>8 DEF Folded

\* Two folds agree on the sets they both cover.
LEMMA FoldsAgree ==
  ASSUME NEW I, NEW J, NEW K, IsFiniteSet(K), K \subseteq I, K \subseteq J,
         NEW a, NEW e, NEW f, NEW g, NEW c, NEW h, NEW k,
         Folded(h, I, a, e, g, c), Folded(k, J, a, f, g, c),
         \A s \in SUBSET K : s # {} => c[s] \in s,
         \A x \in K : e[x] = f[x]
  PROVE  \A s \in SUBSET K : h[s] = k[s]
<1> DEFINE P == {s \in SUBSET K : h[s] = k[s]}
<1>1. {} \in P
  BY DEF Folded
<1>2. ASSUME NEW s \in SUBSET K, s # {}, \A x \in s : s \ {x} \in P PROVE s \in P
  <2>1. c[s] \in s /\ s \in SUBSET I /\ s \in SUBSET J
    BY <1>2
  <2>2. h[s] = g[<<e[c[s]], h[s \ {c[s]}]>>] /\ k[s] = g[<<f[c[s]], k[s \ {c[s]}]>>]
    BY <1>2, <2>1 DEF Folded
  <2>3. h[s \ {c[s]}] = k[s \ {c[s]}] /\ e[c[s]] = f[c[s]]
    BY <1>2, <2>1
  <2> QED BY <2>2, <2>3
<1> HIDE DEF P
<1>3. SUBSET K \subseteq P
  BY <1>1, <1>2, SubsetInduct
<1> QED BY <1>3 DEF P

-----------------------------------------------------------------------------
(* Sums. *)

\* The sum of f over S.
Total(f, S) == SumFunctionOnSet(f, S)

\* h is the sum of f over every subset of S.
Sums(h, f, S) ==
  h = [s \in SUBSET S |-> IF s = {} THEN 0
                          ELSE f[CHOOSE x \in s : TRUE] + h[s \ {CHOOSE x \in s : TRUE}]]

LEMMA SumsExist ==
  ASSUME NEW S, IsFiniteSet(S), NEW f, \A x \in S : f[x] \in Int
  PROVE  \E h \in [SUBSET S -> Int] : Sums(h, f, S)
<1> DEFINE c == [s \in SUBSET S |-> CHOOSE x \in s : TRUE]
           g == [p \in Int \X Int |-> p[1] + p[2]]
           e == [x \in S |-> f[x]]
<1>1. \A s \in SUBSET S : s # {} => c[s] \in s
  OBVIOUS
<1>2. 0 \in Int /\ (\A x \in S : e[x] \in Int) /\ \A x, b \in Int : g[<<x, b>>] \in Int
  OBVIOUS
<1> HIDE DEF c, g, e
<1>3. PICK h \in [SUBSET S -> Int] : Folded(h, S, 0, e, g, c)
  BY <1>1, <1>2, FoldExists
<1>4. ASSUME NEW s \in SUBSET S
      PROVE  h[s] = IF s = {} THEN 0
                    ELSE f[CHOOSE x \in s : TRUE] + h[s \ {CHOOSE x \in s : TRUE}]
  <2>1. h[s] = IF s = {} THEN 0 ELSE g[<<e[c[s]], h[s \ {c[s]}]>>]
    BY <1>3 DEF Folded
  <2>2. CASE s # {}
    <3>1. c[s] = (CHOOSE x \in s : TRUE) /\ c[s] \in S
      BY <1>1, <2>2 DEF c
    <3>2. e[c[s]] = f[c[s]] /\ f[c[s]] \in Int /\ h[s \ {c[s]}] \in Int
      BY <3>1 DEF e
    <3>3. g[<<e[c[s]], h[s \ {c[s]}]>>] = f[c[s]] + h[s \ {c[s]}]
      BY <3>2 DEF g
    <3> QED BY <2>1, <2>2, <3>1, <3>3
  <2> QED BY <2>1, <2>2
<1> QED BY <1>4 DEF Sums

LEMMA SumsAgree ==
  ASSUME NEW S, NEW T, NEW K, IsFiniteSet(K), K \subseteq S, K \subseteq T,
         NEW f, NEW e, NEW g, NEW h, Sums(g, f, S), Sums(h, e, T), \A x \in K : f[x] = e[x]
  PROVE  \A s \in SUBSET K : g[s] = h[s]
<1> DEFINE P == {s \in SUBSET K : g[s] = h[s]}
<1>1. {} \in P
  BY DEF Sums
<1>2. ASSUME NEW s \in SUBSET K, s # {}, \A x \in s : s \ {x} \in P PROVE s \in P
  <2> DEFINE c == CHOOSE x \in s : TRUE
  <2>1. c \in s /\ s \in SUBSET S /\ s \in SUBSET T
    BY <1>2
  <2>2. g[s] = f[c] + g[s \ {c}] /\ h[s] = e[c] + h[s \ {c}]
    BY <1>2, <2>1 DEF Sums
  <2>3. g[s \ {c}] = h[s \ {c}] /\ f[c] = e[c]
    BY <1>2, <2>1
  <2> HIDE DEF c
  <2> QED BY <2>2, <2>3
<1> HIDE DEF P
<1>3. SUBSET K \subseteq P
  BY <1>1, <1>2, SubsetInduct
<1> QED BY <1>3 DEF P

\* Any element may be taken last.
LEMMA SumsRemove ==
  ASSUME NEW S, IsFiniteSet(S), NEW f, \A x \in S : f[x] \in Int,
         NEW g, \A s \in SUBSET S : g[s] \in Int, Sums(g, f, S), NEW x \in S, NEW r, r = S \ {x}
  PROVE  g[S] = f[x] + g[r]
<1> DEFINE P == {s \in SUBSET S : \A y \in s : g[s] = f[y] + g[s \ {y}]}
<1>1. {} \in P
  OBVIOUS
<1>2. ASSUME NEW s \in SUBSET S, s # {}, \A y \in s : s \ {y} \in P PROVE s \in P
  <2> DEFINE c == CHOOSE y \in s : TRUE
  <2>1. c \in s
    BY <1>2
  <2>2. g[s] = f[c] + g[s \ {c}]
    BY <1>2 DEF Sums
  <2> HIDE DEF c
  <2>3. ASSUME NEW y \in s, y # c PROVE g[s] = f[y] + g[s \ {y}]
    <3>1. g[s \ {c}] = f[y] + g[(s \ {c}) \ {y}]
      BY <1>2, <2>1, <2>3
    <3>2. g[s \ {y}] = f[c] + g[(s \ {y}) \ {c}]
      BY <1>2, <2>1, <2>3
    <3>3. (s \ {y}) \ {c} = (s \ {c}) \ {y} /\ (s \ {y}) \ {c} \in SUBSET S
      OBVIOUS
    <3>4. f[y] \in Int /\ f[c] \in Int /\ g[(s \ {y}) \ {c}] \in Int
      BY <2>1, <3>3
    <3>5. g[s] = f[c] + (f[y] + g[(s \ {y}) \ {c}])
      BY <2>2, <3>1, <3>3
    <3>6. \A i, j, k \in Int : i + (j + k) = j + (i + k)
      OBVIOUS
    <3>7. f[c] + (f[y] + g[(s \ {y}) \ {c}]) = f[y] + (f[c] + g[(s \ {y}) \ {c}])
      BY <3>4, <3>6
    <3> QED BY <3>2, <3>5, <3>7
  <2> QED BY <2>2, <2>3
<1>3. SUBSET S \subseteq P
  <2> HIDE DEF P
  <2> QED BY <1>1, <1>2, SubsetInduct
<1>4. S \in P
  BY <1>3
<1>5. \A y \in S : g[S] = f[y] + g[S \ {y}]
  BY <1>4
<1> QED BY <1>5

LEMMA TotalIsSums ==
  ASSUME NEW S, IsFiniteSet(S), NEW f, \A x \in S : f[x] \in Int
  PROVE  \E h \in [SUBSET S -> Int] : Sums(h, f, S) /\ Total(f, S) = h[S]
<1> DEFINE iter == CHOOSE h : Sums(h, f, S)
<1>1. PICK h \in [SUBSET S -> Int] : Sums(h, f, S)
  BY SumsExist
<1>2. Sums(iter, f, S)
  BY <1>1
<1>3. Total(f, S) = iter[S]
  BY DEF Total, SumFunctionOnSet, FoldFunctionOnSet, MapThenFoldSet, Sums
<1> HIDE DEF iter
<1>4. iter[S] = h[S]
  BY <1>1, <1>2, SumsAgree
<1> QED BY <1>1, <1>3, <1>4

LEMMA TotalType ==
  ASSUME NEW S, IsFiniteSet(S), NEW f, \A x \in S : f[x] \in Int
  PROVE  Total(f, S) \in Int
<1>1. PICK h \in [SUBSET S -> Int] : Sums(h, f, S) /\ Total(f, S) = h[S]
  BY TotalIsSums
<1> QED BY <1>1

LEMMA TotalEmpty == ASSUME NEW f PROVE Total(f, {}) = 0
<1>1. PICK h \in [SUBSET {} -> Int] : Sums(h, f, {}) /\ Total(f, {}) = h[{}]
  BY TotalIsSums, FS_EmptySet
<1> QED BY <1>1 DEF Sums

LEMMA TotalAdd ==
  ASSUME NEW S, IsFiniteSet(S), NEW x, x \notin S, NEW f, \A y \in S \cup {x} : f[y] \in Int
  PROVE  Total(f, S \cup {x}) = f[x] + Total(f, S)
<1>1. PICK g \in [SUBSET S -> Int] : Sums(g, f, S) /\ Total(f, S) = g[S]
  BY TotalIsSums
<1>2. PICK T : T = S \cup {x}
  OBVIOUS
<1>3. IsFiniteSet(T) /\ \A y \in T : f[y] \in Int
  BY <1>2, FS_AddElement
<1>4. PICK h \in [SUBSET T -> Int] : Sums(h, f, T) /\ Total(f, T) = h[T]
  BY <1>3, TotalIsSums
<1>5. \A s \in SUBSET T : h[s] \in Int
  OBVIOUS
<1>6. S = T \ {x} /\ x \in T /\ S \subseteq T
  BY <1>2
<1>7. h[T] = f[x] + h[S]
  BY <1>3, <1>4, <1>5, <1>6, SumsRemove
<1>8. g[S] = h[S]
  BY <1>1, <1>4, <1>6, SumsAgree
<1> QED BY <1>1, <1>2, <1>4, <1>7, <1>8

LEMMA TotalAgrees ==
  ASSUME NEW S, IsFiniteSet(S), NEW f, NEW e, \A x \in S : f[x] \in Int /\ f[x] = e[x]
  PROVE  Total(f, S) = Total(e, S)
<1>1. PICK g \in [SUBSET S -> Int] : Sums(g, f, S) /\ Total(f, S) = g[S]
  BY TotalIsSums
<1>2. PICK h \in [SUBSET S -> Int] : Sums(h, e, S) /\ Total(e, S) = h[S]
  BY TotalIsSums
<1>3. g[S] = h[S]
  BY <1>1, <1>2, SumsAgree
<1> QED BY <1>1, <1>2, <1>3

\* One term changes.
LEMMA TotalChange ==
  ASSUME NEW S, IsFiniteSet(S), NEW x \in S, NEW f, NEW e,
         \A y \in S : f[y] \in Int /\ e[y] \in Int, \A y \in S \ {x} : e[y] = f[y]
  PROVE  Total(f, S) \in Int /\ Total(e, S) = Total(f, S) + e[x] - f[x]
<1>1. PICK r : r = S \ {x}
  OBVIOUS
<1>2. IsFiniteSet(r) /\ x \notin r /\ S = r \cup {x}
  BY <1>1, FS_Subset
<1>3. Total(f, r) = Total(e, r) /\ Total(f, r) \in Int
  BY <1>1, <1>2, TotalAgrees, TotalType
<1>4. Total(f, S) = f[x] + Total(f, r) /\ Total(e, S) = e[x] + Total(e, r)
  BY <1>2, TotalAdd
<1>5. PICK a, b, c : a = f[x] /\ b = e[x] /\ c = Total(f, r)
  OBVIOUS
<1>6. a \in Int /\ b \in Int /\ c \in Int /\ b + c = (a + c) + b - a
  BY <1>3, <1>5
<1> QED BY <1>3, <1>4, <1>5, <1>6

\* The terms of N grow by one.
LEMMA TotalMore ==
  ASSUME NEW S, IsFiniteSet(S), NEW N \in SUBSET S, NEW f, NEW e, \A y \in S : f[y] \in Int,
         \A y \in N : e[y] = f[y] + 1, \A y \in S \ N : e[y] = f[y]
  PROVE  Total(e, S) = Total(f, S) + Cardinality(N)
<1> DEFINE P == {s \in SUBSET S : Total(e, s) = Total(f, s) + Cardinality(s \cap N)}
<1>1. {} \in P
  BY TotalEmpty, FS_EmptySet
<1>2. ASSUME NEW s \in SUBSET S, s # {}, \A x \in s : s \ {x} \in P PROVE s \in P
  <2>1. PICK x \in s : TRUE
    BY <1>2
  <2>2. PICK r : r = s \ {x}
    OBVIOUS
  <2>3. IsFiniteSet(r) /\ x \notin r /\ s = r \cup {x} /\ r \in P
    <3>1. IsFiniteSet(s)
      BY FS_Subset
    <3>2. IsFiniteSet(r)
      BY <2>2, <3>1, FS_Subset
    <3> QED BY <1>2, <2>1, <2>2, <3>2
  <2>4. \A y \in s : f[y] \in Int /\ e[y] \in Int
    <3>1. ASSUME NEW y \in s PROVE e[y] \in Int
      <4>1. y \in S /\ f[y] \in Int
        OBVIOUS
      <4> QED BY <4>1
    <3> QED BY <3>1
  <2>5. /\ Total(f, s) = f[x] + Total(f, r) /\ Total(e, s) = e[x] + Total(e, r)
        /\ Total(f, r) \in Int
    BY <2>1, <2>3, <2>4, TotalAdd, TotalType
  <2>6. Total(e, r) = Total(f, r) + Cardinality(r \cap N)
    BY <2>3
  <2>7. PICK k : k = Cardinality(r \cap N)
    OBVIOUS
  <2>8. k \in Nat /\ IsFiniteSet(r \cap N)
    <3>1. IsFiniteSet(r \cap N)
      BY <2>3, FS_Subset
    <3> QED BY <2>7, <3>1, FS_CardinalityType
  <2>9. CASE x \in N
    <3>1. s \cap N = (r \cap N) \cup {x} /\ x \notin r \cap N
      BY <2>3, <2>9
    <3>2. Cardinality(s \cap N) = k + 1
      BY <2>7, <2>8, <3>1, FS_AddElement
    <3>3. e[x] = f[x] + 1
      BY <2>9
    <3>4. PICK a, b : a = f[x] /\ b = Total(f, r)
      OBVIOUS
    <3>5. a \in Int /\ b \in Int
      BY <2>1, <2>4, <2>5, <3>4
    <3>6. Total(e, s) = (a + 1) + (b + k) /\ Total(f, s) = a + b
      BY <2>5, <2>6, <2>7, <3>3, <3>4
    <3> QED BY <2>8, <3>2, <3>5, <3>6
  <2>10. CASE x \notin N
    <3>1. s \cap N = r \cap N
      BY <2>3, <2>10
    <3>2. e[x] = f[x]
      BY <2>1, <2>10
    <3>4. PICK a, b : a = f[x] /\ b = Total(f, r)
      OBVIOUS
    <3>5. a \in Int /\ b \in Int
      BY <2>1, <2>4, <2>5, <3>4
    <3>6. Total(e, s) = a + (b + k) /\ Total(f, s) = a + b
      BY <2>5, <2>6, <2>7, <3>2, <3>4
    <3>7. Cardinality(s \cap N) = k
      BY <2>7, <3>1
    <3>8. a + (b + k) = (a + b) + k
      BY <2>8, <3>5
    <3> QED BY <3>6, <3>7, <3>8
  <2> QED BY <2>9, <2>10
<1> HIDE DEF P
<1>3. SUBSET S \subseteq P
  BY <1>1, <1>2, SubsetInduct
<1>4. S \in P /\ S \cap N = N
  BY <1>3
<1> QED BY <1>4 DEF P

LEMMA TotalZero ==
  ASSUME NEW S, IsFiniteSet(S), NEW f, \A x \in S : f[x] = 0
  PROVE  Total(f, S) = 0
<1> DEFINE P == {s \in SUBSET S : Total(f, s) = 0}
<1>1. {} \in P
  BY TotalEmpty
<1>2. ASSUME NEW s \in SUBSET S, s # {}, \A x \in s : s \ {x} \in P PROVE s \in P
  <2>1. PICK x \in s : TRUE
    BY <1>2
  <2>2. PICK r : r = s \ {x}
    OBVIOUS
  <2>3. IsFiniteSet(r) /\ x \notin r /\ s = r \cup {x} /\ r \in P
    <3>1. IsFiniteSet(s)
      BY FS_Subset
    <3>2. IsFiniteSet(r)
      BY <2>2, <3>1, FS_Subset
    <3> QED BY <1>2, <2>1, <2>2, <3>2
  <2>4. \A y \in s : f[y] \in Int
    OBVIOUS
  <2>5. Total(f, s) = f[x] + Total(f, r)
    BY <2>1, <2>3, <2>4, TotalAdd
  <2> QED BY <2>1, <2>3, <2>5
<1> HIDE DEF P
<1>3. SUBSET S \subseteq P
  BY <1>1, <1>2, SubsetInduct
<1> QED BY <1>3 DEF P

\* Fewer terms, none of them negative, have no greater sum.
LEMMA TotalFewer ==
  ASSUME NEW T, IsFiniteSet(T), NEW S \in SUBSET T, NEW f, \A x \in T : f[x] \in Nat
  PROVE  Total(f, S) \in Nat /\ Total(f, T) \in Nat /\ Total(f, S) <= Total(f, T)
<1> DEFINE P == {s \in SUBSET T : Total(f, s) \in Nat}
<1>1. \A s \in SUBSET T, x \in T : IsFiniteSet(s) /\ (x \notin s => Total(f, s \cup {x}) = f[x] + Total(f, s))
  <2> SUFFICES ASSUME NEW s \in SUBSET T, NEW x \in T
               PROVE  IsFiniteSet(s) /\ (x \notin s => Total(f, s \cup {x}) = f[x] + Total(f, s))
    OBVIOUS
  <2>1. IsFiniteSet(s) /\ \A y \in s \cup {x} : f[y] \in Int
    BY FS_Subset
  <2> QED BY <2>1, TotalAdd
<1>2. {} \in P
  BY TotalEmpty
<1>3. \A s \in SUBSET T : (s # {} /\ \A x \in s : s \ {x} \in P) => s \in P
  <2> SUFFICES ASSUME NEW s \in SUBSET T, s # {}, \A x \in s : s \ {x} \in P PROVE s \in P
    OBVIOUS
  <2>1. PICK x \in s : TRUE
    OBVIOUS
  <2>2. s = (s \ {x}) \cup {x} /\ s \ {x} \in SUBSET T /\ x \notin s \ {x} /\ x \in T
    BY <2>1
  <2>3. Total(f, s) = f[x] + Total(f, s \ {x})
    BY <1>1, <2>2
  <2>4. Total(f, s \ {x}) \in Nat /\ f[x] \in Nat
    BY <2>1, <2>2
  <2> QED BY <2>3, <2>4
<1>4. SUBSET T \subseteq P
  <2> HIDE DEF P
  <2> QED BY <1>2, <1>3, SubsetInduct
<1> DEFINE Q == {r \in SUBSET (T \ S) : Total(f, S) <= Total(f, S \cup r)}
<1>5. {} \in Q
  BY <1>4
<1>6. \A r \in SUBSET (T \ S) : (r # {} /\ \A x \in r : r \ {x} \in Q) => r \in Q
  <2> SUFFICES ASSUME NEW r \in SUBSET (T \ S), r # {}, \A x \in r : r \ {x} \in Q PROVE r \in Q
    OBVIOUS
  <2>1. PICK x \in r : TRUE
    OBVIOUS
  <2>2. PICK u : u = S \cup (r \ {x})
    OBVIOUS
  <2>3. S \cup r = u \cup {x} /\ u \in SUBSET T /\ x \notin u /\ x \in T
    BY <2>1, <2>2
  <2>4. Total(f, S \cup r) = f[x] + Total(f, u)
    BY <1>1, <2>3
  <2>5. Total(f, u) \in Nat /\ f[x] \in Nat /\ Total(f, S) \in Nat /\ Total(f, S) <= Total(f, u)
    BY <1>4, <2>1, <2>2, <2>3
  <2> QED BY <2>4, <2>5
<1>7. SUBSET (T \ S) \subseteq Q
  <2>1. IsFiniteSet(T \ S)
    BY FS_Subset
  <2> HIDE DEF Q
  <2> QED BY <1>5, <1>6, <2>1, SubsetInduct
<1>8. T \ S \in Q /\ S \cup (T \ S) = T
  BY <1>7
<1> QED BY <1>4, <1>8

-----------------------------------------------------------------------------
(* Lists: what Kept computes, place by place. *)

LEMMA UpTo ==
  ASSUME NEW i \in Nat, i > 0
  PROVE  1..i # {} /\ Max(1..i) = i /\ (1..i) \ {i} = 1..(i - 1)
<1>1. PICK S : S = 1..i
  OBVIOUS
<1>2. S \in SUBSET (1..i) /\ S # {} /\ i \in S
  BY <1>1
<1>3. Max(S) \in S /\ \A x \in S : Max(S) >= x
  BY <1>2, PlaceMax
<1>4. Max(S) = i
  BY <1>1, <1>2, <1>3
<1> QED BY <1>1, <1>4

\* p[i] is what is kept of the first i elements of s.
KeepsOf(p, s, X, A) ==
  /\ p \in [0..Len(s) -> Seq(X)] /\ p[0] = <<>>
  /\ \A i \in 1..Len(s) : /\ s[i] \in A => p[i] = Append(p[i - 1], s[i])
                          /\ s[i] \notin A => p[i] = p[i - 1]

LEMMA KeptSteps ==
  ASSUME NEW X, NEW s, s \in Seq(X), NEW A
  PROVE  \E p : KeepsOf(p, s, X, A) /\ Kept(s, A) = p[Len(s)]
<1> DEFINE I == DOMAIN s
           c == [S \in SUBSET I |-> Max(S)]
           g == [p \in X \X Seq(X) |-> IF p[1] \in A THEN Append(p[2], p[1]) ELSE p[2]]
           Step(h, S) == IF s[Max(S)] \in A THEN Append(h[S \ {Max(S)}], s[Max(S)]) ELSE h[S \ {Max(S)}]
           iter == CHOOSE h : h = [S \in SUBSET I |-> IF S = {} THEN <<>> ELSE Step(h, S)]
<1>1. I = 1..Len(s) /\ IsFiniteSet(I) /\ Len(s) \in Nat
  BY FS_Interval
<1>2. \A S \in SUBSET I : S # {} => c[S] \in S
  BY <1>1, PlaceMax
<1>3. <<>> \in Seq(X) /\ (\A i \in I : s[i] \in X) /\ \A x \in X, b \in Seq(X) : g[<<x, b>>] \in Seq(X)
  OBVIOUS
<1> HIDE DEF I, c, g, iter
<1>4. PICK h \in [SUBSET I -> Seq(X)] : Folded(h, I, <<>>, s, g, c)
  BY <1>1, <1>2, <1>3, FoldExists
<1>5. \A S \in SUBSET I : h[S] = IF S = {} THEN <<>> ELSE Step(h, S)
  <2> SUFFICES ASSUME NEW S \in SUBSET I, S # {} PROVE h[S] = Step(h, S)
    BY <1>4 DEF Folded
  <2>1. h[S] = g[<<s[c[S]], h[S \ {c[S]}]>>]
    BY <1>4 DEF Folded
  <2>2. s[c[S]] \in X /\ h[S \ {c[S]}] \in Seq(X) /\ c[S] = Max(S)
    BY <1>2, <1>3 DEF c
  <2> QED BY <2>1, <2>2 DEF g
<1>6. h = [S \in SUBSET I |-> IF S = {} THEN <<>> ELSE Step(h, S)]
  BY <1>5
<1>7. iter = [S \in SUBSET I |-> IF S = {} THEN <<>> ELSE Step(iter, S)]
  BY <1>6 DEF iter
<1>8. Kept(s, A) = iter[I]
  BY DEF Kept, FoldLeft, MapThenFoldSet, iter, I
<1>9. ASSUME NEW i \in 1..Len(s)
      PROVE  1..i \in SUBSET I /\ 1..i # {} /\ Max(1..i) = i /\ (1..i) \ {i} = 1..(i - 1)
  <2>1. i \in Nat /\ i > 0 /\ 1..i \in SUBSET I
    BY <1>1
  <2>2. 1..i # {} /\ Max(1..i) = i /\ (1..i) \ {i} = 1..(i - 1)
    BY <2>1, UpTo
  <2> QED BY <2>1, <2>2
<1>10. \A i \in 1..Len(s) : iter[1..i] = IF s[i] \in A THEN Append(iter[1..(i - 1)], s[i]) ELSE iter[1..(i - 1)]
  <2> SUFFICES ASSUME NEW i \in 1..Len(s)
               PROVE  iter[1..i] = IF s[i] \in A THEN Append(iter[1..(i - 1)], s[i]) ELSE iter[1..(i - 1)]
    OBVIOUS
  <2>1. PICK S : S = 1..i
    OBVIOUS
  <2>2. iter[S] = Step(iter, S)
    BY <1>7, <1>9, <2>1
  <2> QED BY <1>9, <2>1, <2>2
<1>11. \A i \in 1..Len(s) : h[1..i] = IF s[i] \in A THEN Append(h[1..(i - 1)], s[i]) ELSE h[1..(i - 1)]
  BY <1>5, <1>9
<1>12. iter[1..0] = <<>> /\ h[1..0] = <<>>
  <2>1. 1..0 = {} /\ {} \in SUBSET I
    OBVIOUS
  <2>2. iter[{}] = <<>> /\ h[{}] = <<>>
    BY <1>5, <1>7, <2>1
  <2> QED BY <2>1, <2>2
<1>13. \A i \in 0..Len(s) : iter[1..i] = h[1..i]
  <2> DEFINE P == {i \in Nat : i <= Len(s) => iter[1..i] = h[1..i]}
  <2>1. 0 \in P
    BY <1>12
  <2>2. ASSUME NEW i \in Nat, i \in P PROVE i + 1 \in P
    BY <1>1, <1>10, <1>11, <2>2
  <2> HIDE DEF P
  <2>3. Nat \subseteq P
    BY <2>1, <2>2, NatInduct
  <2> QED BY <1>1, <2>3 DEF P
<1> DEFINE p == [i \in 0..Len(s) |-> h[1..i]]
<1>14. p \in [0..Len(s) -> Seq(X)] /\ p[0] = <<>> /\ Kept(s, A) = p[Len(s)]
  <2>1. \A i \in 0..Len(s) : 1..i \in SUBSET I
    BY <1>1
  <2>2. p[Len(s)] = iter[I] /\ p[0] = <<>>
    BY <1>1, <1>12, <1>13
  <2> QED BY <1>8, <2>1, <2>2
<1>15. \A i \in 1..Len(s) : p[i] = IF s[i] \in A THEN Append(p[i - 1], s[i]) ELSE p[i - 1]
  BY <1>1, <1>11
<1> HIDE DEF p
<1> QED BY <1>14, <1>15 DEF KeepsOf

LEMMA KeptEmpty == ASSUME NEW A PROVE Kept(<<>>, A) = <<>>
<1>1. <<>> \in Seq({})
  OBVIOUS
<1>2. PICK p : KeepsOf(p, <<>>, {}, A) /\ Kept(<<>>, A) = p[Len(<<>>)]
  BY <1>1, KeptSteps
<1> QED BY <1>2 DEF KeepsOf

LEMMA KeptAppend ==
  ASSUME NEW X, NEW s, s \in Seq(X), NEW x \in X, NEW A
  PROVE  /\ x \in A => Kept(Append(s, x), A) = Append(Kept(s, A), x)
         /\ x \notin A => Kept(Append(s, x), A) = Kept(s, A)
<1>1. PICK t : t = Append(s, x)
  OBVIOUS
<1>2. t \in Seq(X) /\ Len(t) = Len(s) + 1 /\ Len(s) \in Nat
      /\ t[Len(t)] = x /\ \A i \in 1..Len(s) : t[i] = s[i]
  BY <1>1
<1>3. PICK p : KeepsOf(p, s, X, A) /\ Kept(s, A) = p[Len(s)]
  BY KeptSteps
<1>4. PICK q : KeepsOf(q, t, X, A) /\ Kept(t, A) = q[Len(t)]
  BY <1>2, KeptSteps
<1>5. q[Len(s)] = p[Len(s)]
  <2> DEFINE P == {i \in Nat : i <= Len(s) => p[i] = q[i]}
  <2>1. 0 \in P
    BY <1>3, <1>4 DEF KeepsOf
  <2>2. ASSUME NEW i \in Nat, i \in P PROVE i + 1 \in P
    <3> SUFFICES ASSUME i + 1 <= Len(s) PROVE p[i + 1] = q[i + 1]
      OBVIOUS
    <3>1. p[i] = q[i] /\ t[i + 1] = s[i + 1] /\ i + 1 \in 1..Len(s) /\ i + 1 \in 1..Len(t) /\ (i + 1) - 1 = i
      BY <1>2, <2>2
    <3> QED BY <1>3, <1>4, <3>1 DEF KeepsOf
  <2> HIDE DEF P
  <2>3. Nat \subseteq P
    BY <2>1, <2>2, NatInduct
  <2> QED BY <1>2, <2>3 DEF P
<1>6. Len(t) \in 1..Len(t) /\ Len(t) - 1 = Len(s)
  BY <1>2
<1>7. /\ x \in A => q[Len(t)] = Append(q[Len(s)], x)
      /\ x \notin A => q[Len(t)] = q[Len(s)]
  BY <1>2, <1>4, <1>6 DEF KeepsOf
<1> QED BY <1>1, <1>3, <1>4, <1>5, <1>7

\* What is left is a list of elements of s that are in A.
LEMMA KeptType ==
  ASSUME NEW X, NEW s, s \in Seq(X), NEW A
  PROVE  Kept(s, A) \in Seq(X \cap A)
<1> DEFINE P == {t \in Seq(X) : Kept(t, A) \in Seq(X \cap A)}
<1>1. <<>> \in P
  <2>1. Kept(<<>>, A) = <<>> /\ <<>> \in Seq(X \cap A) /\ <<>> \in Seq(X)
    BY KeptEmpty
  <2> QED BY <2>1
<1>2. ASSUME NEW t \in Seq(X), NEW x \in X, t \in P PROVE Append(t, x) \in P
  <2>1. Kept(t, A) \in Seq(X \cap A)
    BY <1>2
  <2>2. Kept(Append(t, x), A) \in Seq(X \cap A)
    <3>1. CASE x \in A
      <4>1. Kept(Append(t, x), A) = Append(Kept(t, A), x)
        BY <3>1, KeptAppend
      <4> QED BY <2>1, <3>1, <4>1
    <3>2. CASE x \notin A
      <4>1. Kept(Append(t, x), A) = Kept(t, A)
        BY <3>2, KeptAppend
      <4> QED BY <2>1, <4>1
    <3> QED BY <3>1, <3>2
  <2> QED BY <2>2
<1> HIDE DEF P
<1>3. Seq(X) \subseteq P
  BY <1>1, <1>2, SeqInduct
<1> QED BY <1>3 DEF P
-----------------------------------------------------------------------------
(* The elements of a list. *)

LEMMA SetOfEmpty == ToSet(<<>>) = {}
BY DEF ToSet

LEMMA SetOfType ==
  ASSUME NEW X, NEW s, s \in Seq(X)
  PROVE  ToSet(s) \subseteq X /\ (s # <<>> => Head(s) \in ToSet(s) /\ Head(s) \in X)
BY DEF ToSet

LEMMA SetOfAppend ==
  ASSUME NEW X, NEW s, s \in Seq(X), NEW x, x \in X
  PROVE  ToSet(Append(s, x)) = ToSet(s) \cup {x}
<1>1. PICK t : t = Append(s, x)
  OBVIOUS
<1>2. /\ t \in Seq(X) /\ Len(t) = Len(s) + 1 /\ t[Len(s) + 1] = x /\ \A i \in 1..Len(s) : t[i] = s[i]
      /\ Len(s) \in Nat
  BY <1>1
<1>3. DOMAIN t = 1..(Len(s) + 1) /\ DOMAIN s = 1..Len(s)
  BY <1>2
<1>4. ToSet(t) \subseteq ToSet(s) \cup {x}
  <2> SUFFICES ASSUME NEW i \in DOMAIN t PROVE t[i] \in ToSet(s) \cup {x}
    BY DEF ToSet
  <2>1. i = Len(s) + 1 \/ i \in 1..Len(s)
    BY <1>2, <1>3
  <2> QED BY <1>2, <1>3, <2>1 DEF ToSet
<1>5. x \in ToSet(t)
  <2>1. Len(s) + 1 \in DOMAIN t
    BY <1>2, <1>3
  <2> QED BY <1>2, <2>1 DEF ToSet
<1>6. ToSet(s) \subseteq ToSet(t)
  <2> SUFFICES ASSUME NEW i \in DOMAIN s PROVE s[i] \in ToSet(t)
    BY DEF ToSet
  <2>1. i \in DOMAIN t /\ t[i] = s[i]
    BY <1>2, <1>3
  <2> QED BY <2>1 DEF ToSet
<1> QED BY <1>1, <1>4, <1>5, <1>6

LEMMA SetOfTail ==
  ASSUME NEW X, NEW s, s \in Seq(X), s # <<>>
  PROVE  ToSet(s) = {Head(s)} \cup ToSet(Tail(s))
<1>1. PICK t : t = Tail(s)
  OBVIOUS
<1>2. PICK n : n = Len(t)
  OBVIOUS
<1>3. /\ t \in Seq(X) /\ n \in Nat /\ Len(s) = n + 1 /\ Head(s) = s[1] /\ \A i \in 1..n : t[i] = s[i + 1]
      /\ DOMAIN t = 1..n /\ DOMAIN s = 1..(n + 1)
  BY <1>1, <1>2
<1>4. ToSet(s) \subseteq {Head(s)} \cup ToSet(t)
  <2> SUFFICES ASSUME NEW i \in DOMAIN s PROVE s[i] \in {Head(s)} \cup ToSet(t)
    BY DEF ToSet
  <2>1. CASE i = 1
    BY <1>3, <2>1
  <2>2. CASE i # 1
    <3>1. i - 1 \in 1..n /\ (i - 1) + 1 = i
      BY <1>3, <2>2
    <3>2. t[i - 1] = s[i]
      BY <1>3, <3>1
    <3>3. i - 1 \in DOMAIN t
      BY <1>3, <3>1
    <3> QED BY <3>2, <3>3 DEF ToSet
  <2> QED BY <2>1, <2>2
<1>5. Head(s) \in ToSet(s)
  <2>1. 1 \in DOMAIN s
    BY <1>3
  <2> QED BY <1>3, <2>1 DEF ToSet
<1>6. ToSet(t) \subseteq ToSet(s)
  <2> SUFFICES ASSUME NEW i \in DOMAIN t PROVE t[i] \in ToSet(s)
    BY DEF ToSet
  <2>1. i + 1 \in DOMAIN s /\ t[i] = s[i + 1]
    BY <1>3
  <2> QED BY <2>1 DEF ToSet
<1> QED BY <1>1, <1>4, <1>5, <1>6

LEMMA SetOfConcat ==
  ASSUME NEW X, NEW s, s \in Seq(X), NEW t, t \in Seq(X)
  PROVE  ToSet(s \o t) = ToSet(s) \cup ToSet(t)
<1>1. PICK c : c = s \o t
  OBVIOUS
<1>2. PICK m, n : m = Len(s) /\ n = Len(t)
  OBVIOUS
<1>3. /\ c \in Seq(X) /\ m \in Nat /\ n \in Nat /\ Len(c) = m + n
      /\ \A i \in 1..(m + n) : c[i] = IF i <= m THEN s[i] ELSE t[i - m]
  BY <1>1, <1>2, ConcatProperties
<1>4. DOMAIN c = 1..(m + n) /\ DOMAIN s = 1..m /\ DOMAIN t = 1..n
  BY <1>2, <1>3
<1>5. ToSet(c) \subseteq ToSet(s) \cup ToSet(t)
  <2> SUFFICES ASSUME NEW i \in DOMAIN c PROVE c[i] \in ToSet(s) \cup ToSet(t)
    BY DEF ToSet
  <2>1. CASE i <= m
    <3>1. i \in DOMAIN s /\ c[i] = s[i]
      BY <1>3, <1>4, <2>1
    <3> QED BY <3>1 DEF ToSet
  <2>2. CASE ~(i <= m)
    <3>1. i - m \in DOMAIN t /\ c[i] = t[i - m]
      BY <1>3, <1>4, <2>2
    <3> QED BY <3>1 DEF ToSet
  <2> QED BY <2>1, <2>2
<1>6. ToSet(s) \subseteq ToSet(c)
  <2> SUFFICES ASSUME NEW i \in DOMAIN s PROVE s[i] \in ToSet(c)
    BY DEF ToSet
  <2>1. i \in DOMAIN c /\ c[i] = s[i]
    BY <1>3, <1>4
  <2> QED BY <2>1 DEF ToSet
<1>7. ToSet(t) \subseteq ToSet(c)
  <2> SUFFICES ASSUME NEW i \in DOMAIN t PROVE t[i] \in ToSet(c)
    BY DEF ToSet
  <2>1. i + m \in DOMAIN c /\ ~(i + m <= m) /\ (i + m) - m = i
    BY <1>3, <1>4
  <2>2. c[i + m] = t[i]
    BY <1>3, <1>4, <2>1
  <2> QED BY <2>1, <2>2 DEF ToSet
<1> QED BY <1>1, <1>5, <1>6, <1>7

LEMMA KeptSet ==
  ASSUME NEW X, NEW s, s \in Seq(X), NEW A
  PROVE  ToSet(Kept(s, A)) = ToSet(s) \cap A
<1> DEFINE P == {t \in Seq(X) : ToSet(Kept(t, A)) = ToSet(t) \cap A}
<1>1. <<>> \in P
  BY KeptEmpty, SetOfEmpty
<1>2. ASSUME NEW t \in Seq(X), NEW x \in X, t \in P PROVE Append(t, x) \in P
  <2>1. ToSet(Append(t, x)) = ToSet(t) \cup {x} /\ Append(t, x) \in Seq(X)
    BY SetOfAppend
  <2>2. CASE x \in A
    <3>1. Kept(t, A) \in Seq(X \cap A)
      BY KeptType
    <3>2. ToSet(Append(Kept(t, A), x)) = ToSet(Kept(t, A)) \cup {x}
      <4>1. x \in X \cap A
        BY <2>2
      <4> QED BY <3>1, <4>1, SetOfAppend
    <3>3. Kept(Append(t, x), A) = Append(Kept(t, A), x)
      BY <2>2, KeptAppend
    <3> QED BY <1>2, <2>1, <2>2, <3>2, <3>3
  <2>3. CASE x \notin A
    <3>1. Kept(Append(t, x), A) = Kept(t, A)
      BY <2>3, KeptAppend
    <3> QED BY <1>2, <2>1, <2>3, <3>1
  <2> QED BY <2>2, <2>3
<1> HIDE DEF P
<1>3. Seq(X) \subseteq P
  BY <1>1, <1>2, SeqInduct
<1> QED BY <1>3 DEF P

LEMMA KeptTail ==
  ASSUME NEW X, NEW s, s \in Seq(X), s # <<>>, NEW A
  PROVE  Len(Kept(s, A)) = Len(Kept(Tail(s), A)) + (IF Head(s) \in A THEN 1 ELSE 0)
<1> DEFINE n(t) == Len(Kept(t, A))
           P == {t \in Seq(X) : t # <<>> => n(t) = n(Tail(t)) + (IF Head(t) \in A THEN 1 ELSE 0)}
<1>1. <<>> \in P
  OBVIOUS
<1>2. ASSUME NEW t \in Seq(X), NEW x \in X, t \in P PROVE Append(t, x) \in P
  <2>0. ASSUME NEW r, r \in Seq(X)
        PROVE  n(r) \in Nat /\ n(Append(r, x)) = n(r) + (IF x \in A THEN 1 ELSE 0)
    <3>1. Kept(r, A) \in Seq(X \cap A)
      BY <2>0, KeptType
    <3>2. PICK k : k = Kept(r, A)
      OBVIOUS
    <3>3. Len(k) \in Nat
      BY <3>1, <3>2
    <3>4. x \in A => Kept(Append(r, x), A) = Append(k, x) /\ Len(Append(k, x)) = Len(k) + 1
      <4>1. x \in A => Kept(Append(r, x), A) = Append(k, x)
        <5>1. x \in A => Kept(Append(r, x), A) = Append(Kept(r, A), x)
          BY <2>0, KeptAppend
        <5> QED BY <3>2, <5>1
      <4>2. x \in A => Len(Append(k, x)) = Len(k) + 1
        BY <3>1, <3>2
      <4> QED BY <4>1, <4>2
    <3>5. x \notin A => Kept(Append(r, x), A) = k
      <4>1. x \notin A => Kept(Append(r, x), A) = Kept(r, A)
        BY <2>0, KeptAppend
      <4> QED BY <3>2, <4>1
    <3> QED BY <3>2, <3>3, <3>4, <3>5
  <2>1. Append(t, x) \in Seq(X)
    OBVIOUS
  <2>2. CASE t = <<>>
    <3>1. Head(Append(t, x)) = x /\ Tail(Append(t, x)) = t
      BY <2>2
    <3> HIDE DEF n
    <3>2. n(Append(t, x)) = n(Tail(Append(t, x))) + (IF Head(Append(t, x)) \in A THEN 1 ELSE 0)
      BY <2>0, <3>1
    <3> QED BY <2>1, <3>2
  <2>3. CASE t # <<>>
    <3>1. Head(Append(t, x)) = Head(t) /\ Tail(Append(t, x)) = Append(Tail(t), x) /\ Tail(t) \in Seq(X)
      BY <2>3
    <3> HIDE DEF n
    <3>2. /\ n(Append(t, x)) = n(t) + (IF x \in A THEN 1 ELSE 0) /\ n(t) \in Nat
          /\ n(Append(Tail(t), x)) = n(Tail(t)) + (IF x \in A THEN 1 ELSE 0) /\ n(Tail(t)) \in Nat
      BY <2>0, <3>1
    <3>3. n(t) = n(Tail(t)) + (IF Head(t) \in A THEN 1 ELSE 0)
      BY <1>2, <2>3
    <3>4. n(Append(t, x)) = n(Append(Tail(t), x)) + (IF Head(t) \in A THEN 1 ELSE 0)
      <4>1. PICK a, b, c, d, e : /\ a = n(t) /\ b = n(Tail(t)) /\ c = n(Append(t, x)) /\ d = n(Append(Tail(t), x))
                                 /\ e = Head(t)
        OBVIOUS
      <4> QED BY <3>2, <3>3, <4>1
    <3>5. n(Append(t, x)) = n(Tail(Append(t, x))) + (IF Head(Append(t, x)) \in A THEN 1 ELSE 0)
      BY <3>1, <3>4, Zenon
    <3> QED BY <2>1, <3>5
  <2> QED BY <2>2, <2>3
<1> HIDE DEF P
<1>3. Seq(X) \subseteq P
  BY <1>1, <1>2, SeqInduct
<1> QED BY <1>3 DEF P

LEMMA KeptConcat ==
  ASSUME NEW X, NEW s, s \in Seq(X), NEW t, t \in Seq(X), NEW A
  PROVE  Len(Kept(s \o t, A)) = Len(Kept(s, A)) + Len(Kept(t, A))
<1> DEFINE n(r) == Len(Kept(r, A))
           P == {r \in Seq(X) : n(s \o r) = n(s) + n(r)}
<1>0. ASSUME NEW r, r \in Seq(X), NEW x \in X
      PROVE  n(r) \in Nat /\ n(Append(r, x)) = n(r) + (IF x \in A THEN 1 ELSE 0)
  <2>1. Kept(r, A) \in Seq(X \cap A)
    BY <1>0, KeptType
  <2>2. PICK k : k = Kept(r, A)
    OBVIOUS
  <2>3. Len(k) \in Nat
    BY <2>1, <2>2
  <2>4. x \in A => Kept(Append(r, x), A) = Append(k, x)
    <3>1. x \in A => Kept(Append(r, x), A) = Append(Kept(r, A), x)
      BY <1>0, KeptAppend
    <3> QED BY <2>2, <3>1
  <2>5. x \in A => Len(Append(k, x)) = Len(k) + 1
    BY <2>1, <2>2
  <2>6. x \notin A => Kept(Append(r, x), A) = k
    <3>1. x \notin A => Kept(Append(r, x), A) = Kept(r, A)
      BY <1>0, KeptAppend
    <3> QED BY <2>2, <3>1
  <2> QED BY <2>2, <2>3, <2>4, <2>5, <2>6
<1>1. <<>> \in P
  <2>1. s \o <<>> = s
    BY ConcatEmptySeq
  <2>2. n(<<>>) = 0
    BY KeptEmpty
  <2>3. n(s) \in Nat
    <3>1. Kept(s, A) \in Seq(X \cap A)
      BY KeptType
    <3> QED BY <3>1
  <2> HIDE DEF n
  <2> QED BY <2>1, <2>2, <2>3
<1>2. ASSUME NEW r \in Seq(X), NEW x \in X, r \in P PROVE Append(r, x) \in P
  <2>1. s \o r \in Seq(X) /\ s \o Append(r, x) = Append(s \o r, x) /\ Append(r, x) \in Seq(X)
    OBVIOUS
  <2> HIDE DEF n
  <2>2. /\ n(s \o r) \in Nat /\ n(Append(s \o r, x)) = n(s \o r) + (IF x \in A THEN 1 ELSE 0)
        /\ n(r) \in Nat /\ n(Append(r, x)) = n(r) + (IF x \in A THEN 1 ELSE 0)
    BY <1>0, <2>1
  <2>3. n(s \o r) = n(s) + n(r)
    BY <1>2
  <2>4. n(s) \in Nat
    BY <1>0, <1>2
  <2>5. n(s \o Append(r, x)) = n(Append(s \o r, x))
    BY <2>1, Zenon
  <2>6. n(s \o Append(r, x)) = n(s) + n(Append(r, x))
    <3>1. PICK a, b, c, d, e : a = n(s \o r) /\ b = n(r) /\ c = n(s) /\ d = n(Append(r, x)) /\ e = n(s \o Append(r, x))
      OBVIOUS
    <3> QED BY <2>2, <2>3, <2>4, <2>5, <3>1
  <2> QED BY <2>1, <2>6
<1> HIDE DEF P
<1>3. Seq(X) \subseteq P
  BY <1>1, <1>2, SeqInduct
<1> QED BY <1>3 DEF P

\* A list of one value, as long as it is long.
LEMMA KeptAll ==
  ASSUME NEW x, NEW n \in Nat
  PROVE  [i \in 1..n |-> x] \in Seq({x}) /\ Len(Kept([i \in 1..n |-> x], {x})) = n
<1> DEFINE L(k) == [i \in 1..k |-> x]
           P == {k \in Nat : Len(Kept(L(k), {x})) = k}
<1>0. ASSUME NEW k \in Nat PROVE L(k) \in Seq({x}) /\ L(k + 1) = Append(L(k), x)
  <2>1. PICK s : s = L(k)
    OBVIOUS
  <2>2. PICK t : t = L(k + 1)
    OBVIOUS
  <2>3. s \in Seq({x}) /\ t \in Seq({x}) /\ Len(s) = k /\ Len(t) = k + 1
    BY <2>1, <2>2
  <2>4. Append(s, x) \in Seq({x}) /\ Len(Append(s, x)) = k + 1
    BY <2>3
  <2>5. \A i \in 1..(k + 1) : t[i] = x /\ Append(s, x)[i] = x
    BY <2>3
  <2>6. t = Append(s, x)
    BY <2>3, <2>4, <2>5, SeqEqual
  <2> QED BY <2>1, <2>2, <2>3, <2>6
<1>1. 0 \in P
  <2>1. L(0) = <<>>
    OBVIOUS
  <2> QED BY <2>1, KeptEmpty
<1>2. ASSUME NEW k \in Nat, k \in P PROVE k + 1 \in P
  <2>1. L(k) \in Seq({x}) /\ L(k + 1) = Append(L(k), x)
    BY <1>0
  <2> HIDE DEF L
  <2>2. Kept(L(k + 1), {x}) = Append(Kept(L(k), {x}), x)
    <3>1. PICK X, l, m : X = {x} /\ l = L(k) /\ m = L(k + 1)
      OBVIOUS
    <3>2. l \in Seq(X) /\ x \in X /\ m = Append(l, x)
      BY <2>1, <3>1
    <3>3. Kept(Append(l, x), X) = Append(Kept(l, X), x)
      BY <3>2, KeptAppend
    <3> QED BY <3>1, <3>2, <3>3, Zenon
  <2>3. Kept(L(k), {x}) \in Seq({x} \cap {x})
    BY <2>1, KeptType
  <2>4. Len(Append(Kept(L(k), {x}), x)) = k + 1
    BY <1>2, <2>3
  <2> QED BY <2>2, <2>4
<1> HIDE DEF P
<1>3. Nat \subseteq P
  BY <1>1, <1>2, NatInduct
<1> QED BY <1>0, <1>3 DEF P

-----------------------------------------------------------------------------
(* Ascending lists of numbers. *)

Ascending(s) == s \in Seq(Nat) /\ \A i, j \in 1..Len(s) : i < j => s[i] < s[j]

LEMMA AscendingAppend ==
  ASSUME NEW s, Ascending(s), NEW x \in Nat, \A y \in ToSet(s) : y < x
  PROVE  Ascending(Append(s, x))
<1>1. PICK t : t = Append(s, x)
  OBVIOUS
<1>2. PICK n : n = Len(s)
  OBVIOUS
<1>3. /\ s \in Seq(Nat) /\ t \in Seq(Nat) /\ n \in Nat /\ Len(t) = n + 1 /\ t[n + 1] = x
      /\ \A i \in 1..n : t[i] = s[i]
  BY <1>1, <1>2 DEF Ascending
<1>4. \A i \in 1..n : s[i] < x
  <2>1. DOMAIN s = 1..n
    BY <1>2, <1>3
  <2> QED BY <2>1 DEF ToSet
<1>5. ASSUME NEW i \in 1..(n + 1), NEW j \in 1..(n + 1), i < j PROVE t[i] < t[j]
  <2>1. i \in 1..n /\ t[i] = s[i]
    BY <1>3, <1>5
  <2>2. CASE j = n + 1
    BY <1>3, <1>4, <2>1, <2>2
  <2>3. CASE j # n + 1
    <3>1. j \in 1..n
      BY <1>3, <2>3
    <3>2. s[i] < s[j]
      BY <1>2, <1>5, <2>1, <3>1 DEF Ascending
    <3> QED BY <1>3, <2>1, <3>1, <3>2
  <2> QED BY <2>2, <2>3
<1> QED BY <1>1, <1>3, <1>5 DEF Ascending

LEMMA AscendingFront ==
  ASSUME NEW s, s \in Seq(Nat), NEW x \in Nat, Ascending(Append(s, x))
  PROVE  Ascending(s) /\ \A y \in ToSet(s) : y < x
<1>1. PICK t : t = Append(s, x)
  OBVIOUS
<1>2. PICK n : n = Len(s)
  OBVIOUS
<1>3. /\ n \in Nat /\ Len(t) = n + 1 /\ t[n + 1] = x /\ \A i \in 1..n : t[i] = s[i]
      /\ DOMAIN s = 1..n
  BY <1>1, <1>2
<1>4. \A i, j \in 1..(n + 1) : i < j => t[i] < t[j]
  BY <1>1, <1>3 DEF Ascending
<1>5. ASSUME NEW i \in 1..n PROVE s[i] < x
  <2>1. i \in 1..(n + 1) /\ n + 1 \in 1..(n + 1) /\ i < n + 1
    BY <1>3
  <2>2. t[i] < t[n + 1]
    BY <1>4, <2>1
  <2> QED BY <1>3, <2>2
<1>6. ASSUME NEW i \in 1..n, NEW j \in 1..n, i < j PROVE s[i] < s[j]
  <2>1. i \in 1..(n + 1) /\ j \in 1..(n + 1)
    BY <1>3
  <2>2. t[i] < t[j]
    BY <1>4, <1>6, <2>1
  <2> QED BY <1>3, <2>2
<1> QED BY <1>2, <1>3, <1>5, <1>6 DEF Ascending, ToSet

LEMMA AscendingTail ==
  ASSUME NEW s, Ascending(s), s # <<>>
  PROVE  Ascending(Tail(s)) /\ Head(s) \in Nat /\ \A y \in ToSet(Tail(s)) : Head(s) < y
<1>1. PICK t : t = Tail(s)
  OBVIOUS
<1>2. PICK n : n = Len(t)
  OBVIOUS
<1>3. /\ s \in Seq(Nat) /\ t \in Seq(Nat) /\ n \in Nat /\ Len(s) = n + 1 /\ Head(s) = s[1]
      /\ \A i \in 1..n : t[i] = s[i + 1]
  BY <1>1, <1>2 DEF Ascending
<1>4. \A i, j \in 1..(n + 1) : i < j => s[i] < s[j]
  BY <1>3 DEF Ascending
<1>5. ASSUME NEW i \in 1..n PROVE s[1] < t[i]
  <2>1. 1 \in 1..(n + 1) /\ i + 1 \in 1..(n + 1) /\ 1 < i + 1
    BY <1>3
  <2>2. s[1] < s[i + 1]
    BY <1>4, <2>1
  <2> QED BY <1>3, <2>2
<1>6. ASSUME NEW i \in 1..n, NEW j \in 1..n, i < j PROVE t[i] < t[j]
  <2>1. i + 1 \in 1..(n + 1) /\ j + 1 \in 1..(n + 1) /\ i + 1 < j + 1
    BY <1>3, <1>6
  <2>2. s[i + 1] < s[j + 1]
    BY <1>4, <2>1
  <2> QED BY <1>3, <2>2
<1>7. DOMAIN t = 1..n /\ s[1] \in Nat
  BY <1>2, <1>3
<1> QED BY <1>1, <1>2, <1>3, <1>5, <1>6, <1>7 DEF Ascending, ToSet

LEMMA AscendingKept ==
  ASSUME NEW s, Ascending(s), NEW A
  PROVE  Ascending(Kept(s, A))
<1> DEFINE P == {t \in Seq(Nat) : Ascending(t) => Ascending(Kept(t, A))}
<1>1. <<>> \in P
  BY KeptEmpty
<1>2. ASSUME NEW t \in Seq(Nat), NEW x \in Nat, t \in P PROVE Append(t, x) \in P
  <2>1. Append(t, x) \in Seq(Nat)
    OBVIOUS
  <2>2. SUFFICES ASSUME Ascending(Append(t, x)) PROVE Ascending(Kept(Append(t, x), A))
    BY <2>1
  <2>3. Ascending(t) /\ \A y \in ToSet(t) : y < x
    BY <2>2, AscendingFront
  <2>4. Ascending(Kept(t, A))
    BY <1>2, <2>3
  <2>5. \A y \in ToSet(Kept(t, A)) : y < x
    BY <2>3, KeptSet
  <2>6. CASE x \in A
    <3>1. Kept(Append(t, x), A) = Append(Kept(t, A), x)
      BY <2>6, KeptAppend
    <3>2. Ascending(Append(Kept(t, A), x))
      BY <2>4, <2>5, AscendingAppend
    <3> QED BY <3>1, <3>2
  <2>7. CASE x \notin A
    BY <2>4, <2>7, KeptAppend
  <2> QED BY <2>6, <2>7
<1> HIDE DEF P
<1>3. Seq(Nat) \subseteq P
  BY <1>1, <1>2, SeqInduct
<1>4. s \in Seq(Nat)
  BY DEF Ascending
<1> QED BY <1>3, <1>4 DEF P

LEMMA AscendingConcat ==
  ASSUME NEW s, Ascending(s), NEW t, Ascending(t), \A x \in ToSet(s), y \in ToSet(t) : x < y
  PROVE  Ascending(s \o t)
<1>1. PICK c : c = s \o t
  OBVIOUS
<1>2. PICK m, n : m = Len(s) /\ n = Len(t)
  OBVIOUS
<1>3. /\ s \in Seq(Nat) /\ t \in Seq(Nat)
  BY DEF Ascending
<1>4. /\ c \in Seq(Nat) /\ m \in Nat /\ n \in Nat /\ Len(c) = m + n
      /\ \A i \in 1..(m + n) : c[i] = IF i <= m THEN s[i] ELSE t[i - m]
  BY <1>1, <1>2, <1>3, ConcatProperties
<1>5. DOMAIN s = 1..m /\ DOMAIN t = 1..n
  BY <1>2, <1>3
<1>6. \A i \in 1..m, j \in 1..n : s[i] < t[j]
  BY <1>5 DEF ToSet
<1>7. (\A i, j \in 1..m : i < j => s[i] < s[j]) /\ \A i, j \in 1..n : i < j => t[i] < t[j]
  BY <1>2 DEF Ascending
<1>8. ASSUME NEW i \in 1..(m + n), NEW j \in 1..(m + n), i < j PROVE c[i] < c[j]
  <2>1. CASE i <= m /\ j <= m
    <3>1. i \in 1..m /\ j \in 1..m /\ c[i] = s[i] /\ c[j] = s[j]
      BY <1>4, <2>1
    <3> QED BY <1>7, <1>8, <3>1
  <2>2. CASE i <= m /\ ~(j <= m)
    <3>1. i \in 1..m /\ j - m \in 1..n /\ c[i] = s[i] /\ c[j] = t[j - m]
      BY <1>4, <2>2
    <3> QED BY <1>6, <3>1
  <2>3. CASE ~(i <= m)
    <3>1. i - m \in 1..n /\ j - m \in 1..n /\ i - m < j - m /\ ~(j <= m)
      BY <1>4, <1>8, <2>3
    <3>2. c[i] = t[i - m] /\ c[j] = t[j - m]
      BY <1>4, <2>3, <3>1
    <3> QED BY <1>7, <3>1, <3>2
  <2> QED BY <1>4, <2>1, <2>2, <2>3
<1> QED BY <1>1, <1>4, <1>8 DEF Ascending

LEMMA AscendingPrefix ==
  ASSUME NEW s, s \in Seq(Nat), NEW t, t \in Seq(Nat), Ascending(s \o t)
  PROVE  Ascending(s)
<1>1. PICK c : c = s \o t
  OBVIOUS
<1>2. PICK n : n = Len(s)
  OBVIOUS
<1>3. n \in Nat /\ Len(t) \in Nat /\ Len(c) = n + Len(t) /\ \A i \in 1..n : c[i] = s[i] /\ i \in 1..Len(c)
  BY <1>1, <1>2
<1>4. \A i, j \in 1..n : i < j => s[i] < s[j]
  BY <1>1, <1>3 DEF Ascending
<1> QED BY <1>2, <1>4 DEF Ascending

LEMMA ConcatAppend ==
  ASSUME NEW X, NEW s \in Seq(X), NEW t \in Seq(X), NEW x \in X
  PROVE  s \o Append(t, x) = Append(s \o t, x)
<1>1. <<x>> \in Seq(X) /\ s \o t \in Seq(X)
  OBVIOUS
<1>2. Append(t, x) = t \o <<x>> /\ Append(s \o t, x) = (s \o t) \o <<x>>
  BY <1>1, AppendIsConcat, Zenon
<1>3. (s \o t) \o <<x>> = s \o (t \o <<x>>)
  BY <1>1, ConcatAssociative
<1> QED BY <1>2, <1>3, Zenon

-----------------------------------------------------------------------------
(* Lists in which each element is related to those behind it. *)

InOrder(s, R) == \A i, j \in DOMAIN s : i < j => <<s[i], s[j]>> \in R

LEMMA InOrderAppend ==
  ASSUME NEW X, NEW s, s \in Seq(X), NEW x \in X, NEW R
  PROVE  InOrder(Append(s, x), R) <=> InOrder(s, R) /\ \A y \in ToSet(s) : <<y, x>> \in R
<1>1. PICK t : t = Append(s, x)
  OBVIOUS
<1>2. PICK n : n = Len(s)
  OBVIOUS
<1>3. /\ n \in Nat /\ DOMAIN t = 1..(n + 1) /\ t[n + 1] = x /\ \A i \in 1..n : t[i] = s[i]
      /\ DOMAIN s = 1..n
  BY <1>1, <1>2
<1>4. ASSUME InOrder(t, R) PROVE InOrder(s, R) /\ \A y \in ToSet(s) : <<y, x>> \in R
  <2>1. ASSUME NEW i \in 1..n PROVE <<s[i], x>> \in R
    <3>1. i \in 1..(n + 1) /\ n + 1 \in 1..(n + 1) /\ i < n + 1
      BY <1>3
    <3>2. <<t[i], t[n + 1]>> \in R
      BY <1>3, <1>4, <3>1 DEF InOrder
    <3> QED BY <1>3, <3>2
  <2>2. ASSUME NEW i \in 1..n, NEW j \in 1..n, i < j PROVE <<s[i], s[j]>> \in R
    <3>1. i \in 1..(n + 1) /\ j \in 1..(n + 1)
      BY <1>3
    <3>2. <<t[i], t[j]>> \in R
      BY <1>3, <1>4, <2>2, <3>1 DEF InOrder
    <3> QED BY <1>3, <3>2
  <2> QED BY <1>3, <2>1, <2>2 DEF InOrder, ToSet
<1>5. ASSUME InOrder(s, R), \A y \in ToSet(s) : <<y, x>> \in R PROVE InOrder(t, R)
  <2> SUFFICES ASSUME NEW i \in 1..(n + 1), NEW j \in 1..(n + 1), i < j PROVE <<t[i], t[j]>> \in R
    BY <1>3 DEF InOrder
  <2>1. i \in 1..n /\ t[i] = s[i]
    BY <1>3
  <2>2. CASE j = n + 1
    <3>1. <<s[i], x>> \in R
      BY <1>3, <1>5, <2>1 DEF ToSet
    <3> QED BY <1>3, <2>1, <2>2, <3>1
  <2>3. CASE j # n + 1
    <3>1. j \in 1..n
      BY <1>3, <2>3
    <3>2. <<s[i], s[j]>> \in R
      BY <1>3, <1>5, <2>1, <3>1 DEF InOrder
    <3> QED BY <1>3, <2>1, <3>1, <3>2
  <2> QED BY <2>2, <2>3
<1> QED BY <1>1, <1>4, <1>5

LEMMA InOrderKept ==
  ASSUME NEW X, NEW s, s \in Seq(X), NEW R, InOrder(s, R), NEW A
  PROVE  InOrder(Kept(s, A), R)
<1> DEFINE P == {t \in Seq(X) : InOrder(t, R) => InOrder(Kept(t, A), R)}
<1>1. <<>> \in P
  BY KeptEmpty
<1>2. ASSUME NEW t \in Seq(X), NEW x \in X, t \in P PROVE Append(t, x) \in P
  <2>1. Append(t, x) \in Seq(X)
    OBVIOUS
  <2>2. SUFFICES ASSUME InOrder(Append(t, x), R) PROVE InOrder(Kept(Append(t, x), A), R)
    BY <2>1
  <2>3. InOrder(t, R) /\ \A y \in ToSet(t) : <<y, x>> \in R
    BY <2>2, InOrderAppend
  <2>4. InOrder(Kept(t, A), R) /\ \A y \in ToSet(Kept(t, A)) : <<y, x>> \in R
    BY <1>2, <2>3, KeptSet
  <2>5. CASE x \in A
    <3>1. Kept(Append(t, x), A) = Append(Kept(t, A), x)
      BY <2>5, KeptAppend
    <3>2. Kept(t, A) \in Seq(X \cap A) /\ x \in X \cap A
      BY <2>5, KeptType
    <3>3. InOrder(Append(Kept(t, A), x), R)
      BY <2>4, <3>2, InOrderAppend
    <3> QED BY <3>1, <3>3
  <2>6. CASE x \notin A
    BY <2>4, <2>6, KeptAppend
  <2> QED BY <2>5, <2>6
<1> HIDE DEF P
<1>3. Seq(X) \subseteq P
  BY <1>1, <1>2, SeqInduct
<1> QED BY <1>3 DEF P

-----------------------------------------------------------------------------
(* Kept again: what decides it, twice, over a concatenation, its first     *)
(* element, and its length.                                                *)

\* Only the elements of the list matter.
LEMMA KeptAgrees ==
  ASSUME NEW X, NEW s, s \in Seq(X), NEW A, NEW B, \A x \in ToSet(s) : x \in A <=> x \in B
  PROVE  Kept(s, A) = Kept(s, B)
<1> DEFINE P == {t \in Seq(X) : (\A x \in ToSet(t) : x \in A <=> x \in B) => Kept(t, A) = Kept(t, B)}
<1>1. <<>> \in P
  BY KeptEmpty
<1>2. ASSUME NEW t \in Seq(X), NEW x \in X, t \in P PROVE Append(t, x) \in P
  <2>1. Append(t, x) \in Seq(X) /\ ToSet(Append(t, x)) = ToSet(t) \cup {x}
    BY SetOfAppend
  <2>2. SUFFICES ASSUME \A y \in ToSet(t) \cup {x} : y \in A <=> y \in B
                 PROVE  Kept(Append(t, x), A) = Kept(Append(t, x), B)
    BY <2>1
  <2>3. Kept(t, A) = Kept(t, B)
    BY <1>2, <2>2
  <2>4. CASE x \in A
    <3>1. Kept(Append(t, x), A) = Append(Kept(t, A), x) /\ Kept(Append(t, x), B) = Append(Kept(t, B), x)
      BY <2>2, <2>4, KeptAppend
    <3> QED BY <2>3, <3>1
  <2>5. CASE x \notin A
    <3>1. Kept(Append(t, x), A) = Kept(t, A) /\ Kept(Append(t, x), B) = Kept(t, B)
      BY <2>2, <2>5, KeptAppend
    <3> QED BY <2>3, <3>1
  <2> QED BY <2>4, <2>5
<1> HIDE DEF P
<1>3. Seq(X) \subseteq P
  BY <1>1, <1>2, SeqInduct
<1> QED BY <1>3 DEF P

\* What is kept of what is kept.
LEMMA KeptTwice ==
  ASSUME NEW X, NEW s, s \in Seq(X), NEW A, NEW B
  PROVE  Kept(Kept(s, A), B) = Kept(s, A \cap B)
<1> DEFINE P == {t \in Seq(X) : Kept(Kept(t, A), B) = Kept(t, A \cap B)}
<1>1. <<>> \in P
  BY KeptEmpty
<1>2. ASSUME NEW t \in Seq(X), NEW x \in X, t \in P PROVE Append(t, x) \in P
  <2>1. Append(t, x) \in Seq(X)
    OBVIOUS
  <2>2. Kept(Kept(t, A), B) = Kept(t, A \cap B)
    BY <1>2
  <2>3. CASE x \in A
    <3>1. Kept(Append(t, x), A) = Append(Kept(t, A), x)
      BY <2>3, KeptAppend
    <3>2. PICK k : k = Kept(t, A)
      OBVIOUS
    <3>3. k \in Seq(X)
      <4>1. k \in Seq(X \cap A)
        BY <3>2, KeptType
      <4> QED BY <4>1
    <3>4. /\ x \in B => Kept(Append(k, x), B) = Append(Kept(k, B), x)
          /\ x \notin B => Kept(Append(k, x), B) = Kept(k, B)
      BY <3>3, KeptAppend
    <3>5. /\ x \in B => Kept(Append(t, x), A \cap B) = Append(Kept(t, A \cap B), x)
          /\ x \notin B => Kept(Append(t, x), A \cap B) = Kept(t, A \cap B)
      <4>1. x \in B => x \in A \cap B
        BY <2>3
      <4>2. x \notin B => x \notin A \cap B
        OBVIOUS
      <4>3. PICK C : C = A \cap B
        OBVIOUS
      <4>4. /\ x \in C => Kept(Append(t, x), C) = Append(Kept(t, C), x)
            /\ x \notin C => Kept(Append(t, x), C) = Kept(t, C)
        BY KeptAppend
      <4> QED BY <4>1, <4>2, <4>3, <4>4
    <3>6. Kept(Kept(Append(t, x), A), B) = Kept(Append(t, x), A \cap B)
      BY <2>2, <3>1, <3>2, <3>4, <3>5
    <3> QED BY <2>1, <3>6
  <2>4. CASE x \notin A
    <3>1. Kept(Append(t, x), A) = Kept(t, A)
      BY <2>4, KeptAppend
    <3>2. x \notin A \cap B
      BY <2>4
    <3>3. Kept(Append(t, x), A \cap B) = Kept(t, A \cap B)
      BY <3>2, KeptAppend
    <3> QED BY <2>1, <2>2, <3>1, <3>3
  <2> QED BY <2>3, <2>4
<1> HIDE DEF P
<1>3. Seq(X) \subseteq P
  BY <1>1, <1>2, SeqInduct
<1> QED BY <1>3 DEF P

\* A list is kept part by part.
LEMMA KeptJoin ==
  ASSUME NEW X, NEW s, s \in Seq(X), NEW t, t \in Seq(X), NEW A
  PROVE  Kept(s \o t, A) = Kept(s, A) \o Kept(t, A)
<1> DEFINE P == {r \in Seq(X) : Kept(s \o r, A) = Kept(s, A) \o Kept(r, A)}
<1>0. \A r \in Seq(X) : Kept(r, A) \in Seq(X)
  <2> TAKE r \in Seq(X)
  <2>1. Kept(r, A) \in Seq(X \cap A)
    BY KeptType
  <2>2. \A k \in Seq(X \cap A) : k \in Seq(X)
    OBVIOUS
  <2> QED BY <2>1, <2>2
<1>1. <<>> \in P
  <2>1. s \o <<>> = s /\ Kept(<<>>, A) = <<>>
    BY ConcatEmptySeq, KeptEmpty
  <2>2. Kept(s, A) \o <<>> = Kept(s, A)
    BY <1>0, ConcatEmptySeq
  <2>3. <<>> \in Seq(X)
    OBVIOUS
  <2> QED BY <2>1, <2>2, <2>3, Zenon
<1>2. ASSUME NEW r \in Seq(X), NEW x \in X, r \in P PROVE Append(r, x) \in P
  <2>1. s \o r \in Seq(X) /\ Append(r, x) \in Seq(X)
    OBVIOUS
  <2>2. s \o Append(r, x) = Append(s \o r, x)
    BY ConcatAppend
  <2>3. Kept(s \o r, A) = Kept(s, A) \o Kept(r, A)
    BY <1>2
  <2>4. PICK a, b : a = Kept(s, A) /\ b = Kept(r, A) /\ a \in Seq(X) /\ b \in Seq(X)
    BY <1>0
  <2>5. a \o Append(b, x) = Append(a \o b, x)
    BY <2>4, ConcatAppend
  <2>6. CASE x \in A
    <3>1. PICK c : c = s \o r
      OBVIOUS
    <3>2. c \in Seq(X)
      BY <2>1, <3>1
    <3>3. Kept(Append(c, x), A) = Append(Kept(c, A), x)
      BY <3>2, <2>6, KeptAppend
    <3>4. Kept(Append(r, x), A) = Append(Kept(r, A), x)
      BY <2>6, KeptAppend
    <3>5. Kept(Append(s \o r, x), A) = Append(Kept(s \o r, A), x) /\ Kept(Append(r, x), A) = Append(b, x)
      BY <2>4, <3>1, <3>3, <3>4, Zenon
    <3>6. Kept(s \o Append(r, x), A) = a \o Append(b, x)
      BY <2>2, <2>3, <2>4, <2>5, <3>5, Zenon
    <3> QED BY <2>1, <2>4, <3>5, <3>6, Zenon
  <2>7. CASE x \notin A
    <3>1. PICK c : c = s \o r
      OBVIOUS
    <3>2. c \in Seq(X)
      BY <2>1, <3>1
    <3>3. Kept(Append(c, x), A) = Kept(c, A)
      BY <3>2, <2>7, KeptAppend
    <3>4. Kept(Append(r, x), A) = Kept(r, A)
      BY <2>7, KeptAppend
    <3>5. Kept(Append(s \o r, x), A) = Kept(s \o r, A) /\ Kept(Append(r, x), A) = b
      BY <2>4, <3>1, <3>3, <3>4, Zenon
    <3>6. Kept(s \o Append(r, x), A) = a \o b
      BY <2>2, <2>3, <2>4, <3>5, Zenon
    <3> QED BY <2>1, <2>4, <3>5, <3>6, Zenon
  <2> QED BY <2>6, <2>7
<1> HIDE DEF P
<1>3. Seq(X) \subseteq P
  BY <1>1, <1>2, SeqInduct
<1> QED BY <1>3 DEF P

\* Nothing is left when nothing is kept.
LEMMA KeptNothing ==
  ASSUME NEW X, NEW s, s \in Seq(X), NEW A, \A x \in ToSet(s) : x \notin A
  PROVE  Kept(s, A) = <<>>
<1>1. Kept(s, A) \in Seq(X \cap A) /\ ToSet(Kept(s, A)) = {}
  BY KeptType, KeptSet
<1> QED BY <1>1, SetOfType

\* A list of one element.
LEMMA KeptOne == ASSUME NEW x, NEW A PROVE Kept(<<x>>, A) = IF x \in A THEN <<x>> ELSE <<>>
<1>1. <<>> \in Seq({x}) /\ <<x>> = Append(<<>>, x)
  OBVIOUS
<1>2. Kept(<<>>, A) = <<>>
  BY KeptEmpty
<1>3. /\ x \in A => Kept(Append(<<>>, x), A) = Append(Kept(<<>>, A), x)
      /\ x \notin A => Kept(Append(<<>>, x), A) = Kept(<<>>, A)
  <2>1. PICK X, e : X = {x} /\ e = <<>>
    OBVIOUS
  <2>2. e \in Seq(X) /\ x \in X
    BY <2>1
  <2>3. /\ x \in A => Kept(Append(e, x), A) = Append(Kept(e, A), x)
        /\ x \notin A => Kept(Append(e, x), A) = Kept(e, A)
    BY <2>2, KeptAppend
  <2> QED BY <2>1, <2>3
<1> QED BY <1>1, <1>2, <1>3, Zenon

\* The first element that is kept is the head of what is left.
LEMMA KeptFirst ==
  ASSUME NEW X, NEW s, s \in Seq(X), NEW A,
         NEW i \in DOMAIN s, s[i] \in A, \A j \in DOMAIN s : j < i => s[j] \notin A
  PROVE  Kept(s, A) # <<>> /\ Head(Kept(s, A)) = s[i]
<1> DEFINE First(t, k) == t[k] \in A /\ \A j \in DOMAIN t : j < k => t[j] \notin A
           P == {t \in Seq(X) : \A k \in DOMAIN t : First(t, k) => Kept(t, A) # <<>> /\ Head(Kept(t, A)) = t[k]}
<1>1. <<>> \in P
  OBVIOUS
<1>2. ASSUME NEW t \in Seq(X), NEW x \in X, t \in P PROVE Append(t, x) \in P
  <2>1. PICK r : r = Append(t, x)
    OBVIOUS
  <2>2. PICK n : n = Len(t)
    OBVIOUS
  <2>3. /\ n \in Nat /\ r \in Seq(X) /\ DOMAIN t = 1..n /\ DOMAIN r = 1..(n + 1)
        /\ r[n + 1] = x /\ \A j \in 1..n : r[j] = t[j]
    BY <2>1, <2>2
  <2>4. PICK k : k = Kept(t, A)
    OBVIOUS
  <2>5. k \in Seq(X)
    <3>1. k \in Seq(X \cap A)
      BY <2>4, KeptType
    <3> QED BY <3>1
  <2>6. Kept(r, A) = Append(k, x) \/ Kept(r, A) = k
    BY <2>1, <2>4, KeptAppend
  <2>7. ASSUME NEW m \in 1..(n + 1), First(r, m) PROVE Kept(r, A) # <<>> /\ Head(Kept(r, A)) = r[m]
    <3>1. CASE m \in 1..n
      <4>1. First(t, m)
        BY <2>3, <2>7, <3>1
      <4>2. k # <<>> /\ Head(k) = t[m]
        BY <1>2, <2>3, <2>4, <3>1, <4>1
      <4>3. Append(k, x) # <<>> /\ Head(Append(k, x)) = Head(k)
        BY <2>5, <4>2
      <4> QED BY <2>3, <2>6, <3>1, <4>2, <4>3
    <3>2. CASE m = n + 1
      <4>1. \A y \in ToSet(t) : y \notin A
        <5>1. \A j \in DOMAIN r : j < m => r[j] \notin A
          BY <2>7, Zenon
        <5>2. \A j \in 1..n : j < m /\ j \in 1..(n + 1)
          BY <2>3, <3>2
        <5>3. \A j \in 1..n : r[j] \notin A
          BY <2>3, <5>1, <5>2
        <5> QED BY <2>3, <5>3 DEF ToSet
      <4>2. k = <<>> /\ x \in A
        BY <2>3, <2>4, <2>7, <3>2, <4>1, KeptNothing
      <4>3. Kept(r, A) = Append(<<>>, x)
        <5>1. Kept(Append(t, x), A) = Append(Kept(t, A), x)
          BY <4>2, KeptAppend
        <5> QED BY <2>1, <2>4, <4>2, <5>1
      <4>4. Append(<<>>, x) # <<>> /\ Head(Append(<<>>, x)) = x
        OBVIOUS
      <4> QED BY <2>3, <3>2, <4>3, <4>4
    <3> QED BY <2>3, <3>1, <3>2
  <2> HIDE DEF First
  <2> QED BY <2>1, <2>3, <2>7
<1>3. Seq(X) \subseteq P
  <2> HIDE DEF P
  <2> QED BY <1>1, <1>2, SeqInduct
<1> QED BY <1>3

\* What is kept and what is not are all there is; and how many places hold it.
LEMMA KeptParts ==
  ASSUME NEW X, NEW s, s \in Seq(X), NEW A
  PROVE  /\ Len(Kept(s, A)) \in Nat /\ Len(Kept(s, X \ A)) \in Nat
         /\ Len(Kept(s, A)) + Len(Kept(s, X \ A)) = Len(s)
         /\ Cardinality({i \in DOMAIN s : s[i] \in A}) = Len(Kept(s, A))
<1> DEFINE n(t) == Len(Kept(t, A))  m(t) == Len(Kept(t, X \ A))
           at(t) == {i \in DOMAIN t : t[i] \in A}
           P == {t \in Seq(X) : /\ n(t) \in Nat /\ m(t) \in Nat /\ n(t) + m(t) = Len(t)
                                /\ IsFiniteSet(at(t)) /\ Cardinality(at(t)) = n(t)}
<1>1. <<>> \in P
  <2>1. n(<<>>) = 0 /\ m(<<>>) = 0 /\ <<>> \in Seq(X) /\ Len(<<>>) = 0 /\ at(<<>>) = {}
    BY KeptEmpty
  <2>2. Cardinality({}) = 0 /\ IsFiniteSet({})
    BY FS_EmptySet
  <2> HIDE DEF n, m, at
  <2>3. n(<<>>) \in Nat /\ m(<<>>) \in Nat /\ n(<<>>) + m(<<>>) = Len(<<>>)
    BY <2>1
  <2>4. IsFiniteSet(at(<<>>)) /\ Cardinality(at(<<>>)) = n(<<>>)
    BY <2>1, <2>2, Zenon
  <2>5. <<>> \in Seq(X)
    BY <2>1
  <2> QED BY <2>3, <2>4, <2>5, Zenon
<1>2. ASSUME NEW t \in Seq(X), NEW x \in X, t \in P PROVE Append(t, x) \in P
  <2>1. PICK r : r = Append(t, x)
    OBVIOUS
  <2>2. /\ Len(t) \in Nat /\ r \in Seq(X) /\ DOMAIN t = 1..Len(t) /\ Len(r) = Len(t) + 1 /\ DOMAIN r = 1..(Len(t) + 1)
        /\ r[Len(t) + 1] = x /\ \A j \in 1..Len(t) : r[j] = t[j]
    BY <2>1
  <2>3. PICK k, l : k = Kept(t, A) /\ l = Kept(t, X \ A)
    OBVIOUS
  <2>4. k \in Seq(X \cap A) /\ l \in Seq(X \cap (X \ A))
    BY <2>3, KeptType
  <2>5. Len(Append(k, x)) = Len(k) + 1 /\ Len(Append(l, x)) = Len(l) + 1
    BY <2>4
  <2>6. CASE x \in A
    <3>1. Kept(r, A) = Append(k, x) /\ Kept(r, X \ A) = l
      <4>1. x \notin X \ A
        BY <2>6
      <4> QED BY <2>1, <2>3, <2>6, <4>1, KeptAppend
    <3>2. n(r) = n(t) + 1 /\ m(r) = m(t)
      BY <2>3, <2>5, <3>1
    <3>3. at(r) = at(t) \cup {Len(t) + 1} /\ Len(t) + 1 \notin at(t)
      BY <2>2, <2>6
    <3> HIDE DEF n, m, at
    <3>4. IsFiniteSet(at(r)) /\ Cardinality(at(r)) = Cardinality(at(t)) + 1
      BY <1>2, <3>3, FS_AddElement
    <3> QED BY <1>2, <2>1, <2>2, <3>2, <3>4
  <2>7. CASE x \notin A
    <3>1. Kept(r, A) = k /\ Kept(r, X \ A) = Append(l, x)
      <4>1. x \in X \ A
        BY <2>7
      <4> QED BY <2>1, <2>3, <2>7, <4>1, KeptAppend
    <3>2. n(r) = n(t) /\ m(r) = m(t) + 1
      BY <2>3, <2>5, <3>1
    <3>3. at(r) = at(t)
      BY <2>2, <2>7
    <3> HIDE DEF n, m, at
    <3> QED BY <1>2, <2>1, <2>2, <3>2, <3>3
  <2> QED BY <2>6, <2>7
<1> HIDE DEF P
<1>3. Seq(X) \subseteq P
  BY <1>1, <1>2, SeqInduct
<1> QED BY <1>3 DEF P

-----------------------------------------------------------------------------
(* Rule lists: sorted by priority, ties in the order of insertion.          *)

HavePrio(X) == \A x \in X : x.prio \in Int
ByPrio(rs) == \A i, j \in 1..Len(rs) : i < j => rs[i].prio <= rs[j].prio
OfPrio(X, p) == {x \in X : x.prio = p}

\* rs holds the rules of log, in order of priority and then of age.
Stable(rs, log, X) ==
  /\ rs \in Seq(X) /\ log \in Seq(X) /\ ByPrio(rs)
  /\ \A p \in Int : Kept(rs, OfPrio(X, p)) = Kept(log, OfPrio(X, p))

\* Where a new rule goes: behind the first k, which come before it.
PlacedBehind(n, rs, r, k) ==
  /\ k \in 0..Len(rs)
  /\ n = (SubSeq(rs, 1, k) \o <<r>>) \o SubSeq(rs, k + 1, Len(rs))
  /\ \A i \in 1..k : rs[i].prio <= r.prio
  /\ \A i \in (k + 1)..Len(rs) : r.prio < rs[i].prio

\* A new rule has a place: behind all of its priority or a lower one.
LEMMA InsertPlaces ==
  ASSUME NEW X, HavePrio(X), NEW rs, rs \in Seq(X), ByPrio(rs), NEW r, r \in X
  PROVE  \E k : PlacedBehind(Insert(rs, r), rs, r, k)
<1> DEFINE before == {i \in DOMAIN rs : rs[i].prio <= r.prio}
<1>1. PICK n : n = Len(rs)
  OBVIOUS
<1>2. n \in Nat /\ DOMAIN rs = 1..n /\ \A i \in 1..n : rs[i] \in X
  BY <1>1
<1>3. r.prio \in Int /\ \A i \in 1..n : rs[i].prio \in Int
  BY <1>2 DEF HavePrio
<1>4. \E k \in 0..n : before = 1..k
  <2> DEFINE T == {i \in 1..n : r.prio < rs[i].prio}
  <2>1. CASE T = {}
    <3>1. before = 1..n
      BY <1>2, <1>3, <2>1
    <3> QED BY <1>2, <3>1
  <2>2. CASE T # {}
    <3>1. PICK m \in T : \A y \in T : m <= y
      <4>1. T \in SUBSET Nat
        OBVIOUS
      <4> HIDE DEF T
      <4> QED BY <2>2, <4>1, NatMin
    <3>2. m \in 1..n /\ r.prio < rs[m].prio
      OBVIOUS
    <3>3. ASSUME NEW i \in 1..n PROVE rs[i].prio <= r.prio <=> i \in 1..(m - 1)
      <4>1. CASE i < m
        <5>1. i \notin T
          BY <3>1, <4>1
        <5> QED BY <1>3, <3>2, <4>1, <5>1
      <4>2. CASE i = m
        BY <1>3, <3>2, <4>2
      <4>3. CASE m < i
        <5>1. rs[m].prio <= rs[i].prio
          BY <1>1, <3>2, <4>3 DEF ByPrio
        <5> QED BY <1>3, <3>2, <4>3, <5>1
      <4> QED BY <3>2, <4>1, <4>2, <4>3
    <3>4. before = 1..(m - 1) /\ m - 1 \in 0..n
      <4>1. before \subseteq 1..(m - 1)
        BY <1>2, <3>3
      <4>2. 1..(m - 1) \subseteq 1..n
        BY <1>2, <3>2
      <4>3. 1..(m - 1) \subseteq before
        BY <1>2, <3>3, <4>2
      <4> QED BY <1>2, <3>2, <4>1, <4>3
    <3> QED BY <3>4
  <2> QED BY <2>1, <2>2
<1>5. PICK k \in 0..n : before = 1..k
  BY <1>4
<1>6. Cardinality(before) = k
  <2>1. k \in Nat
    BY <1>2
  <2>2. Cardinality(1..k) = k
    <3>1. Cardinality(1..k) = IF 1 > k THEN 0 ELSE k - 1 + 1
      BY <2>1, FS_Interval
    <3> QED BY <2>1, <3>1
  <2> QED BY <1>5, <2>2
<1>7. Insert(rs, r) = (SubSeq(rs, 1, k) \o <<r>>) \o SubSeq(rs, k + 1, Len(rs))
  <2>1. Insert(rs, r) = InsertAt(rs, 1 + k, r)
    BY <1>6 DEF Insert
  <2>2. (1 + k) - 1 = k /\ 1 + k = k + 1
    BY <1>2
  <2>3. InsertAt(rs, k + 1, r) = (SubSeq(rs, 1, (k + 1) - 1) \o <<r>>) \o SubSeq(rs, k + 1, Len(rs))
    BY DEF InsertAt
  <2>4. (k + 1) - 1 = k
    BY <1>2
  <2> QED BY <2>1, <2>2, <2>3, <2>4
<1>8. \A i \in 1..k : rs[i].prio <= r.prio
  BY <1>5
<1>9. \A i \in (k + 1)..n : r.prio < rs[i].prio
  <2> SUFFICES ASSUME NEW i \in (k + 1)..n PROVE r.prio < rs[i].prio
    OBVIOUS
  <2>1. i \in 1..n /\ i \notin 1..k
    BY <1>2
  <2> QED BY <1>2, <1>3, <1>5, <2>1
<1> HIDE DEF before
<1> QED BY <1>1, <1>2, <1>5, <1>7, <1>8, <1>9 DEF PlacedBehind

\* c is s and then t, place by place.
Joined(X, s, t, c) ==
  /\ c \in Seq(X) /\ Len(c) = Len(s) + Len(t)
  /\ (\A i \in 1..Len(s) : c[i] = s[i]) /\ \A i \in 1..Len(t) : c[Len(s) + i] = t[i]

\* So is their concatenation.
LEMMA JoinedConcat ==
  ASSUME NEW X, NEW s, s \in Seq(X), NEW t, t \in Seq(X) PROVE Joined(X, s, t, s \o t)
<1>1. PICK c, m, n : c = s \o t /\ m = Len(s) /\ n = Len(t)
  OBVIOUS
<1>2. c \in Seq(X) /\ Len(c) = m + n /\ m \in Nat /\ n \in Nat
      /\ \A i \in 1..(m + n) : c[i] = IF i <= m THEN s[i] ELSE t[i - m]
  BY <1>1, ConcatProperties
<1>3. \A i \in 1..m : c[i] = s[i]
  BY <1>2
<1>4. ASSUME NEW i \in 1..n PROVE c[m + i] = t[i]
  <2>1. PICK j : j = m + i
    OBVIOUS
  <2>2. j \in 1..(m + n) /\ ~(j <= m) /\ j - m = i
    BY <1>2, <2>1
  <2> QED BY <1>2, <2>1, <2>2
<1>5. Joined(X, s, t, c)
  BY <1>1, <1>2, <1>3, <1>4 DEF Joined
<1> QED BY <1>1, <1>5, Zenon

\* The first k places and the others.
Halves(X, rs, k, a, b) ==
  /\ a \in Seq(X) /\ b \in Seq(X) /\ rs = a \o b
  /\ Len(a) = k /\ Len(b) = Len(rs) - k
  /\ \A i \in 1..k : a[i] = rs[i]
  /\ \A i \in 1..(Len(rs) - k) : b[i] = rs[k + i]

\* A list is its first k elements and then the others.
LEMMA Parts ==
  ASSUME NEW X, NEW rs, rs \in Seq(X), NEW k \in 0..Len(rs)
  PROVE  Halves(X, rs, k, SubSeq(rs, 1, k), SubSeq(rs, k + 1, Len(rs)))
<1>1. PICK a, b : a = SubSeq(rs, 1, k) /\ b = SubSeq(rs, k + 1, Len(rs))
  OBVIOUS
<1>2. PICK n : n = Len(rs)
  OBVIOUS
<1>3. n \in Nat /\ k \in 0..n
  BY <1>2
<1>4. a \in Seq(X) /\ Len(a) = k /\ \A i \in 1..k : a[i] = rs[i]
  BY <1>1, <1>2, <1>3
<1>5. b \in Seq(X) /\ Len(b) = n - k /\ \A i \in 1..(n - k) : b[i] = rs[k + i]
  BY <1>1, <1>2, <1>3
<1>6. PICK c : c = a \o b
  OBVIOUS
<1>7. /\ c \in Seq(X) /\ Len(c) = n
      /\ \A i \in 1..n : c[i] = IF i <= k THEN a[i] ELSE b[i - k]
  <2>1. c \in Seq(X) /\ Len(c) = Len(a) + Len(b)
        /\ \A i \in 1..(Len(a) + Len(b)) : c[i] = IF i <= Len(a) THEN a[i] ELSE b[i - Len(a)]
    BY <1>4, <1>5, <1>6, ConcatProperties
  <2> QED BY <1>3, <1>4, <1>5, <2>1
<1>8. \A i \in 1..n : c[i] = rs[i]
  <2> SUFFICES ASSUME NEW i \in 1..n PROVE c[i] = rs[i]
    OBVIOUS
  <2>1. CASE i <= k
    BY <1>3, <1>4, <1>7, <2>1
  <2>2. CASE ~(i <= k)
    <3>1. i - k \in 1..(n - k) /\ k + (i - k) = i
      BY <1>3, <2>2
    <3>2. b[i - k] = rs[i]
      BY <1>5, <3>1
    <3> QED BY <1>7, <2>2, <3>2
  <2> QED BY <2>1, <2>2
<1>9. c = rs
  BY <1>2, <1>7, <1>8, SeqEqual
<1>10. a \o b = rs
  BY <1>6, <1>9
<1>11. Halves(X, rs, k, a, b)
  BY <1>2, <1>4, <1>5, <1>10 DEF Halves
<1> QED BY <1>1, <1>11, Zenon

\* A list of one rule.
LEMMA OneOf == ASSUME NEW X, NEW x, x \in X PROVE <<x>> \in Seq(X) /\ Len(<<x>>) = 1 /\ <<x>>[1] = x
OBVIOUS

\* A new rule is the last of its priority, and moves no other.
LEMMA InsertStable ==
  ASSUME NEW X, HavePrio(X), NEW rs, NEW log, Stable(rs, log, X), NEW r, r \in X
  PROVE  Stable(Insert(rs, r), Append(log, r), X)
<1>1. rs \in Seq(X) /\ log \in Seq(X) /\ ByPrio(rs) /\ r.prio \in Int
  BY DEF Stable, HavePrio
<1>2. PICK n : n = Insert(rs, r)
  OBVIOUS
<1>3. PICK k : PlacedBehind(n, rs, r, k)
  BY <1>1, <1>2, InsertPlaces
<1>4. k \in 0..Len(rs)
  BY <1>3 DEF PlacedBehind
<1>5. PICK a, b : a = SubSeq(rs, 1, k) /\ b = SubSeq(rs, k + 1, Len(rs))
  OBVIOUS
<1>5a. Halves(X, rs, k, a, b)
  <2>1. Halves(X, rs, k, SubSeq(rs, 1, k), SubSeq(rs, k + 1, Len(rs)))
    BY <1>1, <1>4, Parts
  <2> QED BY <1>5, <2>1, Zenon
<1>5b. a \in Seq(X) /\ b \in Seq(X)
  BY <1>5a, Zenon DEF Halves
<1>5c. rs = a \o b
  BY <1>5a, Zenon DEF Halves
<1>6. PICK o : o = <<r>> /\ o \in Seq(X) /\ Len(o) = 1 /\ o[1] = r
  BY OneOf
<1>7. n = (a \o o) \o b
  BY <1>3, <1>5, <1>6, Zenon DEF PlacedBehind
<1>8. PICK c : c = a \o o
  OBVIOUS
<1>9. PICK l : l = Len(rs)
  OBVIOUS
<1>10. /\ l \in Nat /\ k \in 0..l /\ Len(a) = k /\ Len(b) = l - k
       /\ (\A i \in 1..k : a[i] = rs[i]) /\ \A i \in 1..(l - k) : b[i] = rs[k + i]
  <2>1. Len(a) = k /\ Len(b) = l - k
    BY <1>9, <1>5a, Zenon DEF Halves
  <2>2. (\A i \in 1..k : a[i] = rs[i]) /\ \A i \in 1..(l - k) : b[i] = rs[k + i]
    BY <1>9, <1>5a, Zenon DEF Halves
  <2>3. l \in Nat /\ k \in 0..l
    BY <1>1, <1>4, <1>9
  <2> QED BY <2>1, <2>2, <2>3, Zenon
<1>11. /\ c \in Seq(X) /\ Len(c) = k + 1
       /\ (\A i \in 1..k : c[i] = a[i]) /\ c[k + 1] = r
  <2>1. Joined(X, a, o, a \o o)
    <3>1. o \in Seq(X)
      BY <1>6
    <3> QED BY <1>5b, <3>1, JoinedConcat
  <2>2. Joined(X, a, o, c)
    BY <1>8, <2>1, Zenon
  <2>3. c \in Seq(X) /\ Len(c) = Len(a) + Len(o)
    BY <2>2, Zenon DEF Joined
  <2>4. (\A i \in 1..Len(a) : c[i] = a[i]) /\ \A i \in 1..Len(o) : c[Len(a) + i] = o[i]
    BY <2>2, Zenon DEF Joined
  <2>5. Len(o) = 1 /\ o[1] = r /\ Len(a) = k
    BY <1>6, <1>10
  <2>6. c[k + 1] = r
    BY <2>4, <2>5
  <2> QED BY <2>3, <2>4, <2>5, <2>6
<1>12. /\ n \in Seq(X) /\ Len(n) = l + 1
       /\ (\A i \in 1..(k + 1) : n[i] = c[i]) /\ \A i \in 1..(l - k) : n[(k + 1) + i] = b[i]
  <2>1. Joined(X, c, b, c \o b)
    <3>1. c \in Seq(X)
      BY <1>11
    <3> QED BY <1>5b, <3>1, JoinedConcat
  <2>2. Joined(X, c, b, n)
    BY <1>7, <1>8, <2>1, Zenon
  <2>3. n \in Seq(X) /\ Len(n) = Len(c) + Len(b)
    BY <2>2, Zenon DEF Joined
  <2>4. (\A i \in 1..Len(c) : n[i] = c[i]) /\ \A i \in 1..Len(b) : n[Len(c) + i] = b[i]
    BY <2>2, Zenon DEF Joined
  <2>5. Len(c) = k + 1 /\ Len(b) = l - k /\ k \in Nat /\ l \in Nat
    BY <1>10, <1>11
  <2>6. Len(n) = l + 1
    BY <2>3, <2>5
  <2> QED BY <2>3, <2>4, <2>5, <2>6
<1>13. \A i \in 1..l : rs[i] \in X /\ rs[i].prio \in Int
  BY <1>1, <1>9 DEF HavePrio
<1>14. \A i \in 1..k : n[i] = rs[i] /\ rs[i].prio <= r.prio /\ i \in 1..l
  <2>1. \A i \in 1..k : rs[i].prio <= r.prio
    BY <1>3, Zenon DEF PlacedBehind
  <2>2. \A i \in 1..k : i \in 1..(k + 1) /\ i \in 1..l
    BY <1>10
  <2> QED BY <1>10, <1>11, <1>12, <2>1, <2>2
<1>15. n[k + 1] = r
  BY <1>10, <1>11, <1>12
<1>16. ASSUME NEW i \in (k + 2)..(l + 1) PROVE n[i] = rs[i - 1] /\ r.prio < rs[i - 1].prio /\ i - 1 \in 1..l
  <2>1. PICK j : j = i - (k + 1)
    OBVIOUS
  <2>2. j \in 1..(l - k) /\ (k + 1) + j = i /\ k + j = i - 1 /\ i - 1 \in (k + 1)..l /\ i - 1 \in 1..l
    BY <1>10, <2>1
  <2>3. n[i] = b[j] /\ b[j] = rs[i - 1]
    BY <1>10, <1>5b, <1>9, <1>12, <2>2
  <2> QED BY <1>3, <1>9, <2>2, <2>3 DEF PlacedBehind
<1>17. ByPrio(n)
  <2> SUFFICES ASSUME NEW i \in 1..(l + 1), NEW j \in 1..(l + 1), i < j PROVE n[i].prio <= n[j].prio
    BY <1>12 DEF ByPrio
  <2>1. \A x, y \in 1..l : x < y => rs[x].prio <= rs[y].prio
    BY <1>1, <1>9 DEF ByPrio
  <2>2. CASE i \in 1..k /\ j \in 1..k
    BY <1>14, <2>1, <2>2
  <2>3. CASE i \in 1..k /\ j = k + 1
    BY <1>14, <1>15, <2>3
  <2>4. CASE i \in 1..k /\ j \in (k + 2)..(l + 1)
    <3>1. n[i].prio <= r.prio /\ r.prio < n[j].prio /\ n[i].prio \in Int /\ n[j].prio \in Int
      BY <1>13, <1>14, <1>16, <2>4
    <3> QED BY <1>1, <3>1
  <2>5. CASE i = k + 1 /\ j \in (k + 2)..(l + 1)
    <3>1. r.prio < n[j].prio /\ n[j].prio \in Int
      BY <1>13, <1>16, <2>5
    <3> QED BY <1>1, <1>15, <2>5, <3>1
  <2>6. CASE i \in (k + 2)..(l + 1) /\ j \in (k + 2)..(l + 1)
    <3>1. n[i] = rs[i - 1] /\ n[j] = rs[j - 1] /\ i - 1 \in 1..l /\ j - 1 \in 1..l /\ i - 1 < j - 1
      BY <1>16, <2>6
    <3> QED BY <2>1, <3>1
  <2> QED BY <1>10, <2>2, <2>3, <2>4, <2>5, <2>6
<1>18. ASSUME NEW p \in Int PROVE Kept(n, OfPrio(X, p)) = Kept(Append(log, r), OfPrio(X, p))
  <2>1. PICK A : A = OfPrio(X, p)
    OBVIOUS
  <2>2. Kept(rs, A) = Kept(log, A)
    BY <2>1 DEF Stable
  <2>3. Kept(rs, A) = Kept(a, A) \o Kept(b, A)
    BY <1>5b, <1>5c, KeptJoin
  <2>4. Kept(n, A) = Kept(c, A) \o Kept(b, A)
    <3>1. n = c \o b
      BY <1>7, <1>8
    <3> QED BY <1>5b, <1>11, <3>1, KeptJoin
  <2>5. c = Append(a, r)
    BY <1>10, <1>5b, <1>6, <1>8, AppendIsConcat
  <2>6. CASE r.prio = p
    <3>1. r \in A
      BY <2>1, <2>6 DEF OfPrio
    <3>2. Kept(b, A) = <<>>
      <4>1. ASSUME NEW y \in ToSet(b) PROVE y \notin A
        <5>1. PICK i \in 1..(l - k) : y = b[i]
          <6>1. DOMAIN b = 1..(l - k)
            BY <1>10, <1>5b
          <6> QED BY <6>1 DEF ToSet
        <5>2. k + i \in (k + 1)..l /\ k + i \in 1..l
          BY <1>10
        <5>3. y = rs[k + i] /\ r.prio < rs[k + i].prio /\ rs[k + i].prio \in Int
          BY <1>3, <1>10, <1>9, <1>13, <5>1, <5>2 DEF PlacedBehind
        <5> QED BY <1>1, <2>1, <2>6, <5>3 DEF OfPrio
      <4> QED BY <1>10, <1>5b, <4>1, KeptNothing
    <3>3. \A t \in Seq(X) : Kept(t, A) \in Seq(X)
      <4> TAKE t \in Seq(X)
      <4>1. Kept(t, A) \in Seq(X \cap A)
        BY KeptType
      <4> QED BY <4>1
    <3>4. Kept(c, A) = Append(Kept(a, A), r)
      <4>1. Kept(Append(a, r), A) = Append(Kept(a, A), r)
        BY <1>10, <1>5b, <3>1, KeptAppend
      <4> QED BY <2>5, <4>1
    <3>5. Kept(Append(log, r), A) = Append(Kept(log, A), r)
      BY <1>1, <3>1, KeptAppend
    <3>6. Kept(rs, A) = Kept(a, A) /\ Kept(n, A) = Kept(c, A)
      <4>1. Kept(a, A) \o <<>> = Kept(a, A) /\ Kept(c, A) \o <<>> = Kept(c, A)
        BY <1>10, <1>5b, <1>11, <3>3, ConcatEmptySeq
      <4> QED BY <2>3, <2>4, <3>2, <4>1, Zenon
    <3> QED BY <2>1, <2>2, <3>4, <3>5, <3>6, Zenon
  <2>7. CASE r.prio # p
    <3>1. r \notin A
      BY <2>1, <2>7 DEF OfPrio
    <3>2. Kept(c, A) = Kept(a, A)
      <4>1. Kept(Append(a, r), A) = Kept(a, A)
        BY <1>10, <1>5b, <3>1, KeptAppend
      <4> QED BY <2>5, <4>1
    <3>3. Kept(Append(log, r), A) = Kept(log, A)
      BY <1>1, <3>1, KeptAppend
    <3> QED BY <2>1, <2>2, <2>3, <2>4, <3>2, <3>3, Zenon
  <2> QED BY <2>6, <2>7
<1>19. Append(log, r) \in Seq(X)
  BY <1>1
<1> QED BY <1>2, <1>12, <1>17, <1>18, <1>19 DEF Stable

\* Rules that go leave the others as they were.
LEMMA KeptStable ==
  ASSUME NEW X, HavePrio(X), NEW rs, NEW log, Stable(rs, log, X), NEW A
  PROVE  Stable(Kept(rs, A), Kept(log, A), X)
<1>1. rs \in Seq(X) /\ log \in Seq(X) /\ ByPrio(rs)
  BY DEF Stable
<1>2. \A t \in Seq(X) : Kept(t, A) \in Seq(X)
  <2> TAKE t \in Seq(X)
  <2>1. Kept(t, A) \in Seq(X \cap A)
    BY KeptType
  <2> QED BY <2>1
<1>3. ByPrio(Kept(rs, A))
  <2>1. PICK R : R = {w \in X \X X : w[1].prio <= w[2].prio}
    OBVIOUS
  <2>2. ASSUME NEW t, t \in Seq(X) PROVE InOrder(t, R) <=> ByPrio(t)
    <3>1. DOMAIN t = 1..Len(t) /\ \A i \in 1..Len(t) : t[i] \in X
      BY <2>2
    <3>2. \A i, j \in 1..Len(t) : <<t[i], t[j]>> \in R <=> t[i].prio <= t[j].prio
      BY <2>1, <3>1
    <3> QED BY <3>1, <3>2 DEF InOrder, ByPrio
  <2>3. InOrder(rs, R)
    BY <1>1, <2>2
  <2>4. InOrder(Kept(rs, A), R)
    BY <1>1, <2>3, InOrderKept
  <2> QED BY <1>1, <1>2, <2>2, <2>4
<1>4. ASSUME NEW p \in Int PROVE Kept(Kept(rs, A), OfPrio(X, p)) = Kept(Kept(log, A), OfPrio(X, p))
  <2>1. PICK C : C = OfPrio(X, p)
    OBVIOUS
  <2>2. Kept(rs, C) = Kept(log, C)
    BY <2>1 DEF Stable
  <2>3. \A t \in Seq(X) : Kept(Kept(t, A), C) = Kept(Kept(t, C), A)
    <3> TAKE t \in Seq(X)
    <3>1. Kept(Kept(t, A), C) = Kept(t, A \cap C) /\ Kept(Kept(t, C), A) = Kept(t, C \cap A)
      BY KeptTwice
    <3>2. A \cap C = C \cap A
      OBVIOUS
    <3> QED BY <3>1, <3>2
  <2> QED BY <1>1, <2>1, <2>2, <2>3
<1> QED BY <1>1, <1>2, <1>3, <1>4 DEF Stable

\* No rules at all are in order.
LEMMA EmptyStable == ASSUME NEW X PROVE Stable(<<>>, <<>>, X)
BY DEF Stable, ByPrio

\* One rule more: the list is one longer, and so is what is kept of it if the
\* new rule is.
LEMMA InsertCounts ==
  ASSUME NEW X, HavePrio(X), NEW rs, rs \in Seq(X), ByPrio(rs), NEW r, r \in X, NEW A
  PROVE  /\ Len(Insert(rs, r)) = Len(rs) + 1
         /\ Len(Kept(Insert(rs, r), A)) = Len(Kept(rs, A)) + (IF r \in A THEN 1 ELSE 0)
<1>1. PICK n : n = Insert(rs, r)
  OBVIOUS
<1>2. PICK k : PlacedBehind(n, rs, r, k)
  BY <1>1, InsertPlaces
<1>3. k \in 0..Len(rs)
  BY <1>2 DEF PlacedBehind
<1>4. PICK a, b : a = SubSeq(rs, 1, k) /\ b = SubSeq(rs, k + 1, Len(rs))
  OBVIOUS
<1>5. Halves(X, rs, k, a, b)
  <2>1. Halves(X, rs, k, SubSeq(rs, 1, k), SubSeq(rs, k + 1, Len(rs)))
    BY <1>3, Parts
  <2> QED BY <1>4, <2>1, Zenon
<1>6. a \in Seq(X) /\ b \in Seq(X)
  BY <1>5, Zenon DEF Halves
<1>7. rs = a \o b
  BY <1>5, Zenon DEF Halves
<1>8. PICK c : c = Append(a, r)
  OBVIOUS
<1>9. c = a \o <<r>> /\ c \in Seq(X)
  BY <1>6, <1>8, AppendIsConcat
<1>10. n = c \o b
  BY <1>2, <1>4, <1>9, Zenon DEF PlacedBehind
<1>11. /\ Len(a) \in Nat /\ Len(b) \in Nat
       /\ Len(rs) = Len(a) + Len(b) /\ Len(c) = Len(a) + 1 /\ Len(n) = Len(c) + Len(b)
  <2>1. Len(a \o b) = Len(a) + Len(b) /\ Len(c \o b) = Len(c) + Len(b)
    BY <1>6, <1>9, ConcatProperties
  <2>2. Len(a) \in Nat /\ Len(b) \in Nat /\ Len(c) = Len(a) + 1
    BY <1>6, <1>8
  <2> QED BY <1>7, <1>10, <2>1, <2>2, Zenon
<1>12. \A t \in Seq(X) : Len(Kept(t, A)) \in Nat
  BY KeptParts
<1>13. Len(Kept(a \o b, A)) = Len(Kept(a, A)) + Len(Kept(b, A))
  BY <1>6, KeptConcat
<1>14. Len(Kept(c \o b, A)) = Len(Kept(c, A)) + Len(Kept(b, A))
  <2>1. c \in Seq(X)
    BY <1>9
  <2> QED BY <1>6, <2>1, KeptConcat
<1>15. Len(Kept(c, A)) = Len(Kept(a, A)) + (IF r \in A THEN 1 ELSE 0)
  <2>1. PICK t : t = Kept(a, A)
    OBVIOUS
  <2>2. t \in Seq(X)
    <3>1. t \in Seq(X \cap A)
      BY <1>6, <2>1, KeptType
    <3> QED BY <3>1
  <2>3. /\ r \in A => Kept(c, A) = Append(t, r)
        /\ r \notin A => Kept(c, A) = t
    BY <1>6, <1>8, <2>1, KeptAppend
  <2>4. Len(Append(t, r)) = Len(t) + 1 /\ Len(t) \in Nat
    BY <2>2
  <2> QED BY <2>1, <2>3, <2>4
<1>16. PICK x, y, z, u, v : /\ x = Len(Kept(a, A)) /\ y = Len(Kept(b, A)) /\ z = Len(Kept(c, A))
                            /\ u = Len(Kept(rs, A)) /\ v = Len(Kept(n, A))
  OBVIOUS
<1>17. x \in Nat /\ y \in Nat
  BY <1>6, <1>12, <1>16
<1>18. u = x + y /\ v = z + y
  BY <1>7, <1>10, <1>13, <1>14, <1>16, Zenon
<1>19. v = u + (IF r \in A THEN 1 ELSE 0)
  BY <1>15, <1>16, <1>17, <1>18
<1>20. Len(n) = Len(rs) + 1
  BY <1>11
<1> QED BY <1>1, <1>16, <1>19, <1>20, Zenon

\* h[S] is the list built by inserting the rules in places S of s.
LEMMA BuiltStable ==
  ASSUME NEW X, HavePrio(X), NEW s, s \in Seq(X)
  PROVE  Stable(Built(s), s, X) /\ Len(Built(s)) = Len(s)
<1> DEFINE I == DOMAIN s
           B == {t \in Seq(X) : ByPrio(t)}
           c == [S \in SUBSET I |-> Max(S)]
           g == [p \in X \X B |-> Insert(p[2], p[1])]
           Step(h, S) == Insert(h[S \ {Max(S)}], s[Max(S)])
           iter == CHOOSE h : h = [S \in SUBSET I |-> IF S = {} THEN <<>> ELSE Step(h, S)]
<1>1. I = 1..Len(s) /\ IsFiniteSet(I) /\ Len(s) \in Nat
  BY FS_Interval
<1>2. \A S \in SUBSET I : S # {} => c[S] \in S
  BY <1>1, PlaceMax
<1>3. <<>> \in B
  BY DEF ByPrio
<1>4. ASSUME NEW x \in X, NEW t \in B PROVE Insert(t, x) \in B
  <2>1. Stable(t, t, X)
    BY DEF Stable
  <2>2. Stable(Insert(t, x), Append(t, x), X)
    BY <2>1, InsertStable
  <2> QED BY <2>2 DEF Stable
<1>5. (\A i \in I : s[i] \in X) /\ \A x \in X, t \in B : g[<<x, t>>] \in B
  BY <1>4
<1> HIDE DEF I, c, g, iter, B
<1>6. PICK h \in [SUBSET I -> B] : Folded(h, I, <<>>, s, g, c)
  BY <1>1, <1>2, <1>3, <1>5, FoldExists
<1>7. \A S \in SUBSET I : h[S] = IF S = {} THEN <<>> ELSE Step(h, S)
  <2> SUFFICES ASSUME NEW S \in SUBSET I, S # {} PROVE h[S] = Step(h, S)
    BY <1>6 DEF Folded
  <2>1. h[S] = g[<<s[c[S]], h[S \ {c[S]}]>>]
    BY <1>6 DEF Folded
  <2>2. s[c[S]] \in X /\ h[S \ {c[S]}] \in B /\ c[S] = Max(S)
    BY <1>2, <1>5 DEF c
  <2> QED BY <2>1, <2>2 DEF g
<1>8. h = [S \in SUBSET I |-> IF S = {} THEN <<>> ELSE Step(h, S)]
  BY <1>7
<1>9. iter = [S \in SUBSET I |-> IF S = {} THEN <<>> ELSE Step(iter, S)]
  BY <1>8 DEF iter
<1>10. Built(s) = iter[I]
  BY DEF Built, FoldLeft, MapThenFoldSet, iter, I
<1> DEFINE P == {i \in Nat : i <= Len(s) => Stable(iter[1..i], SubSeq(s, 1, i), X) /\ Len(iter[1..i]) = i}
<1>11. 0 \in P
  <2>1. 1..0 = {} /\ SubSeq(s, 1, 0) = <<>>
    OBVIOUS
  <2>2. iter[{}] = <<>>
    BY <1>9
  <2>3. Stable(<<>>, <<>>, X) /\ Len(<<>>) = 0
    BY EmptyStable
  <2>4. Stable(iter[1..0], SubSeq(s, 1, 0), X) /\ Len(iter[1..0]) = 0
    BY <2>1, <2>2, <2>3, Zenon
  <2> QED BY <2>4
<1>12. ASSUME NEW i \in Nat, i \in P PROVE i + 1 \in P
  <2> SUFFICES ASSUME i + 1 <= Len(s)
               PROVE  Stable(iter[1..(i + 1)], SubSeq(s, 1, i + 1), X) /\ Len(iter[1..(i + 1)]) = i + 1
    OBVIOUS
  <2>1. PICK j : j = i + 1
    OBVIOUS
  <2>2. j \in 1..Len(s) /\ j \in Nat /\ j > 0 /\ j - 1 = i /\ s[j] \in X
    BY <1>1, <2>1
  <2>3. 1..j # {} /\ Max(1..j) = j /\ (1..j) \ {j} = 1..(j - 1)
    BY <2>2, UpTo
  <2>4. iter[1..j] = Insert(iter[1..i], s[j])
    <3>1. PICK S : S = 1..j
      OBVIOUS
    <3>2. S \in SUBSET I /\ S # {}
      BY <1>1, <2>2, <2>3, <3>1
    <3>3. iter[S] = Step(iter, S)
      BY <1>9, <3>2
    <3>4. Max(S) = j /\ S \ {j} = 1..i
      BY <2>2, <2>3, <3>1
    <3> QED BY <3>1, <3>3, <3>4
  <2>5. PICK t, l : t = iter[1..i] /\ l = SubSeq(s, 1, i)
    OBVIOUS
  <2>6. Stable(t, l, X) /\ Len(t) = i
    BY <1>1, <1>12, <2>2, <2>5
  <2>7. Stable(Insert(t, s[j]), Append(l, s[j]), X)
    BY <2>2, <2>6, InsertStable
  <2>8. Len(Insert(t, s[j])) = Len(t) + 1
    BY <2>2, <2>6, InsertCounts DEF Stable
  <2>9. SubSeq(s, 1, j) = Append(l, s[j])
    <3>1. PICK a, b : a = SubSeq(s, 1, j) /\ b = Append(l, s[j])
      OBVIOUS
    <3>2. l \in Seq(X) /\ Len(l) = i /\ \A m \in 1..i : l[m] = s[m]
      BY <1>1, <2>2, <2>5
    <3>3. b \in Seq(X) /\ Len(b) = j /\ b[j] = s[j] /\ \A m \in 1..i : b[m] = l[m]
      BY <2>2, <3>1, <3>2
    <3>4. a \in Seq(X) /\ Len(a) = j /\ \A m \in 1..j : a[m] = s[m]
      BY <2>2, <3>1
    <3>5. \A m \in 1..j : a[m] = b[m]
      BY <2>2, <3>2, <3>3, <3>4
    <3> QED BY <3>1, <3>3, <3>4, <3>5, SeqEqual
  <2> QED BY <2>1, <2>4, <2>5, <2>6, <2>7, <2>8, <2>9, Zenon
<1> HIDE DEF P
<1>13. Nat \subseteq P
  BY <1>11, <1>12, NatInduct
<1>14. Len(s) \in P /\ SubSeq(s, 1, Len(s)) = s
  BY <1>1, <1>13
<1>15. Stable(iter[1..Len(s)], SubSeq(s, 1, Len(s)), X) /\ Len(iter[1..Len(s)]) = Len(s)
  BY <1>1, <1>14 DEF P
<1> QED BY <1>1, <1>10, <1>14, <1>15, Zenon

\* The same rules are in the list and in the log.
LEMMA StableSet == ASSUME NEW X, HavePrio(X), NEW rs, NEW log, Stable(rs, log, X) PROVE ToSet(rs) = ToSet(log)
<1>1. rs \in Seq(X) /\ log \in Seq(X)
  BY DEF Stable
<1>2. ToSet(rs) \subseteq X /\ ToSet(log) \subseteq X
  BY <1>1, SetOfType
<1>3. ASSUME NEW x \in X PROVE x \in ToSet(rs) <=> x \in ToSet(log)
  <2>1. PICK A : A = OfPrio(X, x.prio)
    OBVIOUS
  <2>2. x.prio \in Int /\ x \in A
    BY <2>1 DEF HavePrio, OfPrio
  <2>3. Kept(rs, A) = Kept(log, A)
    BY <2>1, <2>2 DEF Stable
  <2>4. ToSet(Kept(rs, A)) = ToSet(rs) \cap A /\ ToSet(Kept(log, A)) = ToSet(log) \cap A
    BY <1>1, KeptSet
  <2> QED BY <2>2, <2>3, <2>4
<1> QED BY <1>2, <1>3

\* The first match of a sorted list is the oldest match of the lowest priority.
LEMMA DecidedAlike ==
  ASSUME NEW X, HavePrio(X), NEW rs, NEW log, Stable(rs, log, X), NEW M, NEW default
  PROVE  FirstMatch(rs, {i \in DOMAIN rs : rs[i] \in M}, default)
           = ByPriority(log, {i \in DOMAIN log : log[i] \in M}, default)
<1>1. rs \in Seq(X) /\ log \in Seq(X) /\ ByPrio(rs)
  BY DEF Stable
<1>2. PICK H, K : H = {i \in DOMAIN rs : rs[i] \in M} /\ K = {i \in DOMAIN log : log[i] \in M}
  OBVIOUS
<1>3. /\ DOMAIN rs = 1..Len(rs) /\ DOMAIN log = 1..Len(log)
      /\ (\A i \in DOMAIN rs : rs[i] \in X) /\ \A i \in DOMAIN log : log[i] \in X
  BY <1>1
<1>4. \A j \in DOMAIN log : \E i \in DOMAIN rs : rs[i] = log[j]
  BY StableSet DEF ToSet
<1>5. \A j \in DOMAIN rs : \E i \in DOMAIN log : log[i] = rs[j]
  BY StableSet DEF ToSet
<1>6. CASE H = {}
  <2>1. K = {}
    BY <1>2, <1>4, <1>6
  <2> QED BY <1>2, <1>6, <2>1 DEF FirstMatch, ByPriority
<1>7. CASE H # {}
  <2>1. PICK i : i = Min(H)
    OBVIOUS
  <2>2. i \in H /\ \A j \in H : i <= j
    <3>1. H \in SUBSET Nat
      BY <1>2, <1>3
    <3>2. \E x \in H : \A y \in H : x <= y
      BY <1>7, <3>1, NatMin
    <3> QED BY <2>1, <3>2 DEF Min
  <2>3. i \in DOMAIN rs /\ rs[i] \in M /\ rs[i] \in X /\ \A j \in DOMAIN rs : j < i => rs[j] \notin M
    BY <1>2, <1>3, <2>2
  <2>4. PICK p : p = rs[i].prio
    OBVIOUS
  <2>5. p \in Int /\ (\A j \in DOMAIN rs : rs[j].prio \in Int) /\ \A j \in DOMAIN log : log[j].prio \in Int
    BY <1>3, <2>3, <2>4 DEF HavePrio
  <2>6. \A j \in H : p <= rs[j].prio
    <3> SUFFICES ASSUME NEW j \in H PROVE p <= rs[j].prio
      OBVIOUS
    <3>1. i <= j /\ j \in 1..Len(rs) /\ i \in 1..Len(rs)
      BY <1>2, <1>3, <2>2
    <3>2. CASE i < j
      BY <1>1, <2>4, <3>1, <3>2 DEF ByPrio
    <3>3. CASE i = j
      BY <2>4, <2>5, <3>3
    <3> QED BY <3>1, <3>2, <3>3
  <2>7. \A j \in K : p <= log[j].prio
    <3> SUFFICES ASSUME NEW j \in K PROVE p <= log[j].prio
      OBVIOUS
    <3>1. PICK k \in DOMAIN rs : rs[k] = log[j]
      BY <1>2, <1>4
    <3>2. k \in H
      BY <1>2, <3>1
    <3> QED BY <2>6, <3>1, <3>2
  <2> DEFINE T == {j \in K : log[j].prio = p}
  <2>8. PICK m \in T : \A j \in T : m <= j
    <3>1. T \in SUBSET Nat
      BY <1>2, <1>3
    <3>2. T # {}
      <4>1. PICK j \in DOMAIN log : log[j] = rs[i]
        BY <1>5, <2>3
      <4> QED BY <1>2, <2>3, <2>4, <4>1
    <3> HIDE DEF T
    <3> QED BY <3>1, <3>2, NatMin
  <2>9. m \in K /\ m \in DOMAIN log /\ log[m] \in M /\ log[m].prio = p
    BY <1>2, <2>8
  <2> DEFINE best == {a \in K : \A b \in K : \/ log[a].prio < log[b].prio
                                             \/ log[a].prio = log[b].prio /\ a <= b}
  <2>10. \A a \in K : a \in Nat /\ a \in DOMAIN log
    BY <1>2, <1>3
  <2>11. m \in best
    <3> SUFFICES ASSUME NEW b \in K
                 PROVE  log[m].prio < log[b].prio \/ (log[m].prio = log[b].prio /\ m <= b)
      BY <2>9
    <3>1. p <= log[b].prio /\ log[b].prio \in Int
      BY <2>5, <2>7, <2>10
    <3>2. CASE log[b].prio = p
      BY <2>8, <2>9, <3>2
    <3>3. CASE log[b].prio # p
      BY <2>5, <2>9, <3>1, <3>3
    <3> QED BY <3>2, <3>3
  <2>12. ASSUME NEW a \in best PROVE a = m
    <3>1. a \in K /\ (log[a].prio < log[m].prio \/ (log[a].prio = log[m].prio /\ a <= m))
      BY <2>9
    <3>2. p <= log[a].prio /\ log[a].prio \in Int
      BY <2>5, <2>7, <2>10, <3>1
    <3>3. log[a].prio = p /\ a <= m
      BY <2>5, <2>9, <3>1, <3>2
    <3>4. m <= a
      BY <2>8, <3>1, <3>3
    <3> QED BY <2>9, <2>10, <3>1, <3>3, <3>4
  <2>13. (CHOOSE a \in best : TRUE) = m
    <3> HIDE DEF best
    <3> QED BY <2>11, <2>12
  <2>14. log[m] = rs[i]
    <3>1. PICK C, D : C = OfPrio(X, p) /\ D = C \cap M
      OBVIOUS
    <3>2. Kept(rs, C) = Kept(log, C)
      BY <2>5, <3>1 DEF Stable
    <3>3. Kept(rs, D) = Kept(log, D)
      <4>1. \A t \in Seq(X) : Kept(Kept(t, C), M) = Kept(t, C \cap M)
        BY KeptTwice
      <4>2. Kept(Kept(rs, C), M) = Kept(rs, D) /\ Kept(Kept(log, C), M) = Kept(log, D)
        BY <1>1, <3>1, <4>1
      <4> QED BY <3>2, <4>2
    <3>4. Head(Kept(rs, D)) = rs[i]
      <4>1. rs[i] \in D
        BY <2>3, <2>4, <3>1 DEF OfPrio
      <4>2. \A j \in DOMAIN rs : j < i => rs[j] \notin D
        BY <2>3, <3>1
      <4> QED BY <1>1, <2>3, <4>1, <4>2, KeptFirst
    <3>5. Head(Kept(log, D)) = log[m]
      <4>1. log[m] \in D
        BY <1>3, <2>9, <3>1 DEF OfPrio
      <4>2. \A j \in DOMAIN log : j < m => log[j] \notin D
        <5> SUFFICES ASSUME NEW j \in DOMAIN log, j < m, log[j] \in D PROVE FALSE
          OBVIOUS
        <5>1. j \in K /\ log[j].prio = p
          BY <1>2, <3>1 DEF OfPrio
        <5>2. m <= j /\ j \in Nat /\ m \in Nat
          BY <2>8, <2>9, <2>10, <5>1
        <5> QED BY <5>2
      <4> QED BY <1>1, <2>9, <4>1, <4>2, KeptFirst
    <3> QED BY <3>3, <3>4, <3>5
  <2>15. K # {}
    BY <2>9
  <2>16. FirstMatch(rs, H, default) = rs[i].verdict
    BY <1>7, <2>1 DEF FirstMatch
  <2>17. ByPriority(log, K, default) = log[m].verdict
    BY <2>13, <2>15 DEF ByPriority
  <2> QED BY <1>2, <2>14, <2>16, <2>17, Zenon
<1> QED BY <1>6, <1>7

-----------------------------------------------------------------------------
(* How long the list can get: n rules that are not extra, and m extra ones  *)
(* that are added only while there are fewer.                               *)

Capped(rs, X, E, n, m) ==
  /\ Len(Kept(rs, X \ E)) <= n
  /\ Len(rs) <= n \/ Len(Kept(rs, E)) <= m

\* A capped list is no longer than the default and the extra rules together.
LEMMA CappedLen ==
  ASSUME NEW X, NEW rs, rs \in Seq(X), NEW E, NEW n \in Nat, NEW m \in Nat, Capped(rs, X, E, n, m)
  PROVE  Len(rs) <= n + m
<1>1. PICK a, b, l : a = Len(Kept(rs, E)) /\ b = Len(Kept(rs, X \ E)) /\ l = Len(rs)
  OBVIOUS
<1>2. a \in Nat /\ b \in Nat /\ a + b = l /\ l \in Nat
  <2>1. /\ Len(Kept(rs, E)) \in Nat /\ Len(Kept(rs, X \ E)) \in Nat
        /\ Len(Kept(rs, E)) + Len(Kept(rs, X \ E)) = Len(rs)
    BY KeptParts
  <2>2. Len(rs) \in Nat
    OBVIOUS
  <2> QED BY <1>1, <2>1, <2>2, Zenon
<1>3. b <= n /\ (l <= n \/ a <= m)
  BY <1>1 DEF Capped
<1> QED BY <1>1, <1>2, <1>3

\* Any list is capped by its own length.
LEMMA CappedInit ==
  ASSUME NEW X, NEW rs, rs \in Seq(X), NEW E, NEW m
  PROVE  Capped(rs, X, E, Len(rs), m)
<1>1. PICK a, b, l : a = Len(Kept(rs, E)) /\ b = Len(Kept(rs, X \ E)) /\ l = Len(rs)
  OBVIOUS
<1>2. a \in Nat /\ b \in Nat /\ a + b = l /\ l \in Nat
  <2>1. /\ Len(Kept(rs, E)) \in Nat /\ Len(Kept(rs, X \ E)) \in Nat
        /\ Len(Kept(rs, E)) + Len(Kept(rs, X \ E)) = Len(rs)
    BY KeptParts
  <2>2. Len(rs) \in Nat
    OBVIOUS
  <2> QED BY <1>1, <2>1, <2>2, Zenon
<1>3. b <= l /\ l <= l
  BY <1>2
<1> QED BY <1>1, <1>3 DEF Capped

\* An extra rule is added only if there is room for one.
LEMMA CappedInsert ==
  ASSUME NEW X, HavePrio(X), NEW rs, rs \in Seq(X), ByPrio(rs), NEW E, NEW r, r \in X, r \in E,
         NEW n \in Nat, NEW m \in Nat, Capped(rs, X, E, n, m),
         Cardinality({i \in DOMAIN rs : rs[i] \in E}) < m
  PROVE  Capped(Insert(rs, r), X, E, n, m)
<1>1. PICK N, t : N = X \ E /\ t = Insert(rs, r)
  OBVIOUS
<1>2. r \notin N
  BY <1>1
<1>3. Len(Kept(t, E)) = Len(Kept(rs, E)) + 1
  BY <1>1, InsertCounts
<1>4. Len(Kept(t, N)) = Len(Kept(rs, N)) + 0
  BY <1>1, <1>2, InsertCounts
<1>5. PICK a, b, c, d : a = Len(Kept(rs, E)) /\ b = Len(Kept(rs, N)) /\ c = Len(Kept(t, E)) /\ d = Len(Kept(t, N))
  OBVIOUS
<1>6. a \in Nat /\ b \in Nat /\ a < m
  BY <1>1, <1>5, KeptParts
<1>7. b <= n
  BY <1>1, <1>5 DEF Capped
<1>8. d <= n /\ c <= m
  BY <1>3, <1>4, <1>5, <1>6, <1>7
<1> QED BY <1>1, <1>5, <1>8 DEF Capped

\* Taking rules away makes no room go missing.
LEMMA CappedKept ==
  ASSUME NEW X, NEW rs, rs \in Seq(X), NEW E, NEW A, NEW n \in Nat, NEW m \in Nat, Capped(rs, X, E, n, m)
  PROVE  Capped(Kept(rs, A), X, E, n, m)
<1>0. PICK t : t = Kept(rs, A)
  OBVIOUS
<1>1. t \in Seq(X)
  <2>1. t \in Seq(X \cap A)
    BY <1>0, KeptType
  <2> QED BY <2>1
<1>2. ASSUME NEW u, u \in Seq(X), NEW C PROVE Len(Kept(u, C)) \in Nat /\ Len(u) \in Nat /\ Len(Kept(u, C)) <= Len(u)
  <2>1. PICK a, b, l : a = Len(Kept(u, C)) /\ b = Len(Kept(u, X \ C)) /\ l = Len(u)
    OBVIOUS
  <2>2. a \in Nat /\ b \in Nat /\ a + b = l /\ l \in Nat
    <3>1. /\ Len(Kept(u, C)) \in Nat /\ Len(Kept(u, X \ C)) \in Nat
          /\ Len(Kept(u, C)) + Len(Kept(u, X \ C)) = Len(u)
      BY <1>2, KeptParts
    <3>2. Len(u) \in Nat
      BY <1>2
    <3> QED BY <2>1, <3>1, <3>2, Zenon
  <2>3. a <= l
    BY <2>2
  <2> QED BY <2>1, <2>2, <2>3
<1>3. ASSUME NEW C PROVE Len(Kept(t, C)) <= Len(Kept(rs, C)) /\ Len(Kept(t, C)) \in Nat /\ Len(Kept(rs, C)) \in Nat
  <2>1. Kept(Kept(rs, A), C) = Kept(rs, A \cap C) /\ Kept(Kept(rs, C), A) = Kept(rs, C \cap A)
    BY KeptTwice
  <2>2. A \cap C = C \cap A
    OBVIOUS
  <2>3. PICK u : u = Kept(rs, C)
    OBVIOUS
  <2>4. Kept(t, C) = Kept(u, A)
    BY <1>0, <2>1, <2>2, <2>3
  <2>5. u \in Seq(X)
    <3>1. u \in Seq(X \cap C)
      BY <2>3, KeptType
    <3> QED BY <3>1
  <2> QED BY <1>2, <2>3, <2>4, <2>5
<1>4. PICK N : N = X \ E
  OBVIOUS
<1>5. PICK a, b, l, c, d, k : /\ a = Len(Kept(rs, E)) /\ b = Len(Kept(rs, N)) /\ l = Len(rs)
                              /\ c = Len(Kept(t, E)) /\ d = Len(Kept(t, N)) /\ k = Len(t)
  OBVIOUS
<1>6. a \in Nat /\ b \in Nat /\ c \in Nat /\ d \in Nat /\ c <= a /\ d <= b
  BY <1>3, <1>5
<1>7. k \in Nat /\ l \in Nat /\ k <= l
  BY <1>0, <1>1, <1>2, <1>5
<1>8. b <= n /\ (l <= n \/ a <= m)
  BY <1>4, <1>5 DEF Capped
<1>9. d <= n /\ (k <= n \/ c <= m)
  BY <1>6, <1>7, <1>8
<1> QED BY <1>0, <1>4, <1>5, <1>9 DEF Capped
=============================================================================
