------------------------------ MODULE Document_proofs ------------------------------
(***************************************************************************)
(* Proofs about the tree of a document and how it is changed (MCDomTree),  *)
(* for trees, lists and sequences of calls of any size.                    *)
(*                                                                         *)
(* Sound says that the parents and the lists of children are two sides of  *)
(* one tree, which ranks that grow downwards keep free of cycles, that the *)
(* flags follow the parents, that the map of ids is that of the nodes in   *)
(* the document, and that what is referred to is there.  Every method of   *)
(* the mutator is shown to keep it, as one operator after                  *)
(* another: what is below and above a node (Reached as the least closed    *)
(* set), unlinking, removal, folds of such steps, insertion, dropping,     *)
(* copies.  Ready adds what the flush and the hit tests rely on, and       *)
(* scripts keep that too.  Dioxus does not; for it, Stands parts the nodes *)
(* it removed and may drop (dead) from those it has mounted or put on its  *)
(* stack, with no link between the two.                                    *)
(***************************************************************************)
EXTENDS MCDomTree, SequenceTheorems, FiniteSetTheorems, TLAPS

-----------------------------------------------------------------------------
(* Induction.  The induction theorems of the library take a predicate; a   *)
(* set of numbers does as well, since finite sets have no endless chain of *)
(* subsets.                                                                *)

LEMMA SetInduction ==
    ASSUME NEW S \in SUBSET Nat, 0 \in S, \A n \in S : n + 1 \in S
    PROVE  S = Nat
<1> SUFFICES ASSUME NEW k \in Nat, k \notin S PROVE FALSE
    OBVIOUS
<1> DEFINE T == {1..n : n \in Nat \ S}
<1>1. T \subseteq FiniteSubsetsOf(Nat)
  <2>1. \A n \in Nat : IsFiniteSet(1..n) /\ 1..n \subseteq Nat
      BY FS_Interval
  <2> QED
      BY <2>1 DEF FiniteSubsetsOf
<1>2. T # {}
    OBVIOUS
<1>3. \E x \in T : \A y \in T : <<y, x>> \notin StrictSubsetOrdering(Nat)
  <2> HIDE DEF T
  <2> QED
      BY <1>1, <1>2, WFMin, FS_StrictSubsetOrderingWellFounded
<1>4. PICK m \in Nat \ S : \A n \in Nat \ S : <<1..n, 1..m>> \notin StrictSubsetOrdering(Nat)
    BY <1>3
<1>5. m # 0
    OBVIOUS
<1>6. m - 1 \in Nat /\ m = (m - 1) + 1
    BY <1>5
<1>7. m - 1 \notin S
    BY <1>6
<1>8. 1..(m - 1) \subseteq 1..m /\ 1..(m - 1) # 1..m
  <2>1. m \in 1..m /\ m \notin 1..(m - 1)
      BY <1>5, <1>6
  <2>2. 1..(m - 1) \subseteq 1..m
      BY <1>6
  <2> QED
      BY <2>1, <2>2
<1>9. <<1..(m - 1), 1..m>> \in StrictSubsetOrdering(Nat)
    BY <1>8 DEF StrictSubsetOrdering
<1> QED
    BY <1>4, <1>6, <1>7, <1>9

(* What Filtered counts up, for the first n of the list.                   *)
Step(list, keep, before, n) ==
    IF n = 0 THEN <<>> ELSE IF list[n] \in keep THEN Append(before, list[n]) ELSE before
Counts(list, keep, f, k) == f = [n \in 0..k |-> Step(list, keep, f[n - 1], n)]

LEMMA CountExists ==
    ASSUME NEW list, NEW keep
    PROVE  \A k \in Nat : \E f : Counts(list, keep, f, k)
<1> DEFINE S == {k \in Nat : \E f : Counts(list, keep, f, k)}
<1>1. 0 \in S
  <2> DEFINE f == [n \in 0..0 |-> <<>>]
  <2>1. Counts(list, keep, f, 0)
      BY DEF Counts, Step
  <2> QED
      BY <2>1
<1>2. ASSUME NEW k \in S PROVE k + 1 \in S
  <2>1. PICK f : Counts(list, keep, f, k)
      OBVIOUS
  <2> DEFINE g == [n \in 0..(k + 1) |-> IF n = k + 1 THEN Step(list, keep, f[k], k + 1) ELSE f[n]]
  <2>2. k \in Nat
      OBVIOUS
  <2>3. ASSUME NEW n \in 0..(k + 1) PROVE g[n] = Step(list, keep, g[n - 1], n)
    <3>1. CASE n = k + 1
        BY <2>2, <3>1
    <3>2. CASE n # k + 1 /\ n # 0
      <4>1. n \in 0..k /\ n - 1 \in 0..(k + 1) /\ n - 1 # k + 1
          BY <2>2, <3>2
      <4>2. f[n] = Step(list, keep, f[n - 1], n)
          BY <2>1, <4>1 DEF Counts
      <4> QED
          BY <3>2, <4>1, <4>2
    <3>3. CASE n = 0 /\ n # k + 1
      <4>1. f[0] = Step(list, keep, f[0 - 1], 0) /\ g[0] = f[0]
          BY <2>1, <2>2, <3>3 DEF Counts
      <4> QED
          BY <3>3, <4>1 DEF Step
    <3> QED
        BY <3>1, <3>2, <3>3
  <2>4. Counts(list, keep, g, k + 1)
    <3>1. g = [n \in 0..(k + 1) |-> g[n]]
        OBVIOUS
    <3> HIDE DEF g
    <3> QED
        BY <2>3, <3>1 DEF Counts
  <2> QED
      BY <2>2, <2>4
<1>3. S = Nat
  <2> HIDE DEF S
  <2>1. S \in SUBSET Nat
      BY DEF S
  <2> QED
      BY <1>1, <1>2, <2>1, SetInduction
<1> QED
    BY <1>3

LEMMA FilteredIsCount ==
    ASSUME NEW list, NEW keep, Len(list) \in Nat
    PROVE  \E f : Counts(list, keep, f, Len(list)) /\ Filtered(list, keep) = f[Len(list)]
<1> DEFINE F == CHOOSE f : Counts(list, keep, f, Len(list))
<1>1. Counts(list, keep, F, Len(list))
    BY CountExists
<1>2. Filtered(list, keep) = F[Len(list)]
    BY DEF Filtered, Counts, Step
<1> QED
    BY <1>1, <1>2

(* out holds those of the first n of list that are in keep, in order.      *)
Gathers(list, keep, out, n) ==
    /\ \A i \in 1..Len(out) : out[i] \in keep /\ \E a \in 1..n : out[i] = list[a]
    /\ \A i, j \in 1..Len(out) : i < j =>
          \E a, b \in 1..n : a < b /\ out[i] = list[a] /\ out[j] = list[b]
    /\ \A a \in 1..n : list[a] \in keep => \E i \in 1..Len(out) : out[i] = list[a]

LEMMA GathersNext ==
    ASSUME NEW S, NEW list, NEW keep, NEW out \in Seq(S), NEW n \in Nat, NEW x \in S,
           list[n + 1] = x, Gathers(list, keep, out, n)
    PROVE  Gathers(list, keep, IF x \in keep THEN Append(out, x) ELSE out, n + 1)
<1>1. 1..n \subseteq 1..(n + 1) /\ n + 1 \in 1..(n + 1) /\ \A a \in 1..(n + 1) : a \in 1..n \/ a = n + 1
    OBVIOUS
<1>2. CASE x \notin keep
    BY <1>1, <1>2 DEF Gathers
<1>3. CASE x \in keep
  <2> DEFINE all == Append(out, x)
  <2>1. /\ Len(out) \in Nat /\ Len(all) = Len(out) + 1
        /\ all[Len(out) + 1] = x /\ \A i \in 1..Len(out) : all[i] = out[i]
      BY AppendProperties
  <2> HIDE DEF all
  <2>2. ASSUME NEW i \in 1..Len(all) PROVE all[i] \in keep /\ \E a \in 1..(n + 1) : all[i] = list[a]
    <3>1. CASE i = Len(out) + 1
        BY <1>1, <1>3, <2>1, <3>1
    <3>2. CASE i \in 1..Len(out)
        BY <1>1, <2>1, <3>2 DEF Gathers
    <3> QED
        BY <2>1, <3>1, <3>2
  <2>3. ASSUME NEW i \in 1..Len(all), NEW j \in 1..Len(all), i < j
        PROVE  \E a, b \in 1..(n + 1) : a < b /\ all[i] = list[a] /\ all[j] = list[b]
    <3>1. i \in 1..Len(out)
        BY <2>1, <2>3
    <3>2. CASE j = Len(out) + 1
      <4>1. PICK a \in 1..n : out[i] = list[a]
          BY <3>1 DEF Gathers
      <4>2. a < n + 1 /\ all[i] = list[a] /\ all[j] = list[n + 1]
          BY <2>1, <3>1, <3>2, <4>1
      <4> QED
          BY <1>1, <4>2
    <3>3. CASE j \in 1..Len(out)
      <4>1. PICK a \in 1..n, b \in 1..n : a < b /\ out[i] = list[a] /\ out[j] = list[b]
          BY <2>3, <3>1, <3>3 DEF Gathers
      <4> QED
          BY <1>1, <2>1, <3>1, <3>3, <4>1
    <3> QED
        BY <2>1, <3>2, <3>3
  <2>4. ASSUME NEW a \in 1..(n + 1), list[a] \in keep PROVE \E i \in 1..Len(all) : all[i] = list[a]
    <3>1. CASE a = n + 1
        BY <2>1, <3>1
    <3>2. CASE a \in 1..n
      <4>1. PICK i \in 1..Len(out) : out[i] = list[a]
          BY <2>4, <3>2 DEF Gathers
      <4> QED
          BY <2>1, <4>1
    <3> QED
        BY <1>1, <3>1, <3>2
  <2>5. Gathers(list, keep, all, n + 1)
      BY <2>2, <2>3, <2>4 DEF Gathers
  <2> QED
      BY <1>3, <2>5 DEF all
<1> QED
    BY <1>2, <1>3

LEMMA FilteredProperties ==
    ASSUME NEW S, NEW list \in Seq(S), NEW keep
    PROVE  /\ Filtered(list, keep) \in Seq(S)
           /\ Gathers(list, keep, Filtered(list, keep), Len(list))
<1>1. Len(list) \in Nat
    OBVIOUS
<1>2. PICK f : Counts(list, keep, f, Len(list)) /\ Filtered(list, keep) = f[Len(list)]
    BY <1>1, FilteredIsCount
<1>3. \A n \in 0..Len(list) : f[n] = Step(list, keep, f[n - 1], n)
    BY <1>2 DEF Counts
<1> DEFINE N == {n \in Nat : n <= Len(list) => f[n] \in Seq(S) /\ Gathers(list, keep, f[n], n)}
<1>4. 0 \in N
  <2>1. f[0] = <<>>
      BY <1>1, <1>3 DEF Step
  <2>2. Len(<<>>) = 0 /\ <<>> \in Seq(S)
      OBVIOUS
  <2>3. Gathers(list, keep, <<>>, 0)
      BY <2>2 DEF Gathers
  <2> QED
      BY <2>1, <2>2, <2>3
<1>5. ASSUME NEW n \in N PROVE n + 1 \in N
  <2>1. CASE n + 1 <= Len(list)
    <3>1. n \in Nat /\ n + 1 \in 1..Len(list) /\ n + 1 # 0 /\ (n + 1) - 1 = n /\ n <= Len(list)
        BY <1>1, <2>1
    <3>2. f[n] \in Seq(S) /\ Gathers(list, keep, f[n], n) /\ list[n + 1] \in S
        BY <3>1
    <3>3. f[n + 1] = IF list[n + 1] \in keep THEN Append(f[n], list[n + 1]) ELSE f[n]
        BY <1>3, <3>1 DEF Step
    <3>4. f[n + 1] \in Seq(S)
        BY <3>2, <3>3
    <3>5. Gathers(list, keep, f[n + 1], n + 1)
        BY <3>1, <3>2, <3>3, GathersNext
    <3> QED
        BY <3>1, <3>4, <3>5
  <2> QED
      BY <2>1
<1>6. N = Nat
  <2> HIDE DEF N
  <2>1. N \in SUBSET Nat
      BY DEF N
  <2> QED
      BY <1>4, <1>5, <2>1, SetInduction
<1>7. Len(list) \in N
    BY <1>1, <1>6
<1> QED
    BY <1>1, <1>2, <1>7

-----------------------------------------------------------------------------
(* The tree of a document: closed sets, ranks, and what is below and above *)
(* a node.                                                                 *)

LEMMA FilteredSet ==
    ASSUME NEW S, NEW list \in Seq(S), NEW keep
    PROVE  /\ Filtered(list, keep) \in Seq(S)
           /\ ToSet(Filtered(list, keep)) = ToSet(list) \cap keep
           /\ IsInjective(list) => IsInjective(Filtered(list, keep))
<1> DEFINE out == Filtered(list, keep)
<1>1. out \in Seq(S) /\ Gathers(list, keep, out, Len(list))
    BY FilteredProperties
<1> HIDE DEF out
<1>2. DOMAIN out = 1..Len(out) /\ DOMAIN list = 1..Len(list) /\ Len(out) \in Nat /\ Len(list) \in Nat
    BY <1>1
<1>3. ToSet(out) = ToSet(list) \cap keep
  <2>1. ToSet(out) = {out[i] : i \in 1..Len(out)} /\ ToSet(list) = {list[i] : i \in 1..Len(list)}
      BY <1>2 DEF ToSet
  <2>2. \A i \in 1..Len(out) : out[i] \in keep /\ \E a \in 1..Len(list) : out[i] = list[a]
      BY <1>1 DEF Gathers
  <2>3. \A a \in 1..Len(list) : list[a] \in keep => \E i \in 1..Len(out) : out[i] = list[a]
      BY <1>1 DEF Gathers
  <2> QED
      BY <2>1, <2>2, <2>3
<1>4. ASSUME IsInjective(list), NEW i \in 1..Len(out), NEW j \in 1..Len(out), out[i] = out[j]
      PROVE  i = j
  <2>1. \A a, b \in 1..Len(list) : list[a] = list[b] => a = b
      BY <1>2, <1>4 DEF IsInjective
  <2>2. CASE i < j
    <3>1. PICK a \in 1..Len(list), b \in 1..Len(list) : a < b /\ out[i] = list[a] /\ out[j] = list[b]
        BY <1>1, <2>2 DEF Gathers
    <3>2. a = b
        BY <1>4, <2>1, <3>1
    <3> QED
        BY <1>2, <3>1, <3>2
  <2>3. CASE j < i
    <3>1. PICK a \in 1..Len(list), b \in 1..Len(list) : a < b /\ out[j] = list[a] /\ out[i] = list[b]
        BY <1>1, <2>3 DEF Gathers
    <3>2. a = b
        BY <1>4, <2>1, <3>1
    <3> QED
        BY <1>2, <3>1, <3>2
  <2> QED
      BY <1>2, <2>2, <2>3
<1> QED
    BY <1>1, <1>2, <1>3, <1>4 DEF IsInjective, out

(* A set that grows by what its members lead to is complete after as many  *)
(* rounds as it can have elements.                                         *)
Grows(f, N, L) == \A k \in 1..N : f[k] = f[k - 1] \cup UNION {L[m] : m \in f[k - 1]}

LEMMA GrowthIsBounded ==
    ASSUME NEW X, NEW L \in [X -> SUBSET X], NEW N \in Nat, NEW f, f[0] \in SUBSET X, Grows(f, N, L)
    PROVE  \A k \in 0..N : f[k] \in SUBSET X
<1> DEFINE S == {k \in Nat : k <= N => f[k] \in SUBSET X}
<1>1. 0 \in S
    OBVIOUS
<1>2. ASSUME NEW k \in S PROVE k + 1 \in S
  <2>1. ASSUME k + 1 <= N PROVE f[k + 1] \in SUBSET X
    <3>1. f[k + 1] = f[k] \cup UNION {L[m] : m \in f[k]}
      <4>1. k + 1 \in 1..N /\ (k + 1) - 1 = k
          BY <2>1
      <4> QED
          BY <4>1 DEF Grows
    <3>2. f[k] \in SUBSET X
        BY <2>1
    <3>3. \A m \in f[k] : L[m] \in SUBSET X
        BY <3>2
    <3> QED
        BY <3>1, <3>2, <3>3
  <2> QED
      BY <2>1
<1>3. S \in SUBSET Nat
    OBVIOUS
<1> HIDE DEF S
<1>4. S = Nat
    BY <1>1, <1>2, <1>3, SetInduction
<1> QED
    BY <1>4 DEF S

LEMMA GrowthStaysIn ==
    ASSUME NEW L, NEW N \in Nat, NEW f, Grows(f, N, L),
           NEW T, f[0] \subseteq T, \A m \in T : L[m] \subseteq T
    PROVE  \A k \in 0..N : f[k] \subseteq T
<1> DEFINE S == {k \in Nat : k <= N => f[k] \subseteq T}
<1>1. 0 \in S
    OBVIOUS
<1>2. ASSUME NEW k \in S PROVE k + 1 \in S
  <2>1. ASSUME k + 1 <= N PROVE f[k + 1] \subseteq T
    <3>1. f[k + 1] = f[k] \cup UNION {L[m] : m \in f[k]}
      <4>1. k + 1 \in 1..N /\ (k + 1) - 1 = k
          BY <2>1
      <4> QED
          BY <4>1 DEF Grows
    <3>2. f[k] \subseteq T
        BY <2>1
    <3> QED
        BY <3>1, <3>2
  <2> QED
      BY <2>1
<1>3. S \in SUBSET Nat
    OBVIOUS
<1> HIDE DEF S
<1>4. S = Nat
    BY <1>1, <1>2, <1>3, SetInduction
<1> QED
    BY <1>4 DEF S

Closed(T, L) == \A m \in T : L[m] \subseteq T

LEMMA GrowthCompletes ==
    ASSUME NEW X, IsFiniteSet(X), NEW L \in [X -> SUBSET X], NEW N \in Nat,
           Cardinality(X) <= N + 1, NEW f, f[0] \in SUBSET X, Grows(f, N, L)
    PROVE  /\ f[N] \in SUBSET X /\ f[0] \subseteq f[N]
           /\ Closed(f[N], L)
<1>0. \A k \in 0..N : f[k] \in SUBSET X
    BY GrowthIsBounded
<1> DEFINE S == {k \in Nat : k <= N =>
                    f[0] \subseteq f[k] /\ (Closed(f[k], L) \/ Cardinality(f[k]) >= k + 1)}
<1>1. 0 \in S
  <2>1. CASE f[0] = {}
      BY <2>1 DEF Closed
  <2>2. CASE f[0] # {}
    <3>1. IsFiniteSet(f[0]) /\ Cardinality(f[0]) \in Nat /\ Cardinality(f[0]) # 0
        BY <2>2, FS_Subset, FS_CardinalityType, FS_EmptySet
    <3> QED
        BY <3>1
  <2> QED
      BY <2>1, <2>2
<1>2. ASSUME NEW k \in S PROVE k + 1 \in S
  <2>1. ASSUME k + 1 <= N
        PROVE  f[0] \subseteq f[k + 1] /\ (Closed(f[k + 1], L) \/ Cardinality(f[k + 1]) >= (k + 1) + 1)
    <3>1. f[k + 1] = f[k] \cup UNION {L[m] : m \in f[k]}
      <4>1. k + 1 \in 1..N /\ (k + 1) - 1 = k
          BY <2>1
      <4> QED
          BY <4>1 DEF Grows
    <3>2. k \in 0..N /\ k + 1 \in 0..N /\ k \in Nat
        BY <2>1
    <3>3. f[0] \subseteq f[k] /\ (Closed(f[k], L) \/ Cardinality(f[k]) >= k + 1)
        BY <3>2
    <3>4. CASE Closed(f[k], L)
      <4>1. f[k + 1] = f[k]
          BY <3>1, <3>4 DEF Closed
      <4> QED
          BY <3>3, <3>4, <4>1
    <3>5. CASE ~Closed(f[k], L)
      <4>1. PICK x \in f[k + 1] : x \notin f[k]
          BY <3>1, <3>5 DEF Closed
      <4>2. f[k] \cup {x} \subseteq f[k + 1] /\ IsFiniteSet(f[k + 1]) /\ IsFiniteSet(f[k])
          BY <1>0, <3>1, <3>2, <4>1, FS_Subset
      <4>3. Cardinality(f[k] \cup {x}) = Cardinality(f[k]) + 1
        <5>1. PICK below : below = f[k]
            OBVIOUS
        <5>2. IsFiniteSet(below) /\ x \notin below
            BY <4>1, <4>2, <5>1
        <5>3. Cardinality(below \cup {x}) = Cardinality(below) + 1
            BY <5>2, FS_AddElement
        <5> QED
            BY <5>1, <5>3
      <4>4. Cardinality(f[k] \cup {x}) <= Cardinality(f[k + 1])
          BY <4>2, FS_Subset
      <4>5. Cardinality(f[k]) \in Nat /\ Cardinality(f[k + 1]) \in Nat
          BY <4>2, FS_CardinalityType
      <4>6. Cardinality(f[k + 1]) >= (k + 1) + 1
          BY <3>2, <3>3, <3>5, <4>3, <4>4, <4>5
      <4> QED
          BY <3>1, <3>3, <4>6
    <3> QED
        BY <3>4, <3>5
  <2> QED
      BY <2>1
<1>3. S \in SUBSET Nat
    OBVIOUS
<1> HIDE DEF S
<1>4. N \in S
    BY <1>1, <1>2, <1>3, SetInduction
<1>5. f[0] \subseteq f[N] /\ (Closed(f[N], L) \/ Cardinality(f[N]) >= N + 1)
    BY <1>4 DEF S
<1>6. f[N] \in SUBSET X
    BY <1>0
<1>7. CASE Cardinality(f[N]) >= N + 1
  <2>1. Cardinality(f[N]) <= Cardinality(X) /\ Cardinality(f[N]) \in Nat /\ Cardinality(X) \in Nat
      BY <1>6, FS_Subset, FS_CardinalityType
  <2>2. Cardinality(f[N]) = Cardinality(X)
      BY <1>7, <2>1
  <2>3. f[N] = X
      BY <1>6, <2>2, FS_Subset
  <2>4. Closed(f[N], L)
      BY <2>3 DEF Closed
  <2> QED
      BY <1>5, <1>6, <2>4
<1> QED
    BY <1>5, <1>6, <1>7

LEMMA NodesAreFinite ==
    /\ IsFiniteSet(AllNodes) /\ IsFiniteSet(Nodes)
    /\ Cardinality(Nodes) \in Nat /\ Cardinality(AllNodes) = Cardinality(Nodes) + 1
<1>1. IsFiniteSet(Nodes) /\ Document \notin Nodes
    BY KindsAssumption
<1> QED
    BY <1>1, FS_AddElement, FS_CardinalityType DEF AllNodes

IsGrowth(f, N, L, from) ==
    f = [k \in 0..N |-> IF k = 0 THEN from ELSE f[k - 1] \cup UNION {L[m] : m \in f[k - 1]}]

LEMMA GrowthExists ==
    ASSUME NEW L, NEW from
    PROVE  \A N \in Nat : \E f : IsGrowth(f, N, L, from)
<1> DEFINE Is(f, N) == IsGrowth(f, N, L, from)
           S == {N \in Nat : \E f : Is(f, N)}
<1>1. 0 \in S
  <2>1. Is([k \in 0..0 |-> from], 0)
      BY DEF IsGrowth
  <2> QED
      BY <2>1
<1>2. ASSUME NEW N \in S PROVE N + 1 \in S
  <2>1. PICK f : Is(f, N)
      OBVIOUS
  <2> DEFINE g == [k \in 0..N + 1 |->
                      IF k = N + 1 THEN f[N] \cup UNION {L[m] : m \in f[N]} ELSE f[k]]
  <2>2. ASSUME NEW k \in 0..N + 1
        PROVE  g[k] = IF k = 0 THEN from ELSE g[k - 1] \cup UNION {L[m] : m \in g[k - 1]}
    <3>1. CASE k = N + 1
      <4>1. k # 0 /\ k - 1 = N /\ k - 1 \in 0..N + 1 /\ k - 1 # N + 1
          BY <3>1
      <4> QED
          BY <3>1, <4>1
    <3>2. CASE k # N + 1
      <4>1. k \in 0..N /\ (k # 0 => k - 1 \in 0..N + 1 /\ k - 1 # N + 1)
          BY <3>2
      <4>2. f[k] = IF k = 0 THEN from ELSE f[k - 1] \cup UNION {L[m] : m \in f[k - 1]}
          BY <2>1, <4>1 DEF IsGrowth
      <4> QED
          BY <3>2, <4>1, <4>2
    <3> QED
        BY <3>1, <3>2
  <2>3. g = [k \in 0..N + 1 |-> g[k]] /\ N + 1 \in Nat
      OBVIOUS
  <2> HIDE DEF g
  <2>4. Is(g, N + 1)
      BY <2>2, <2>3 DEF IsGrowth
  <2>5. \E f2 : Is(f2, N + 1)
      BY <2>4
  <2> HIDE DEF Is
  <2> QED
      BY <2>3, <2>5
<1>3. S \in SUBSET Nat
    OBVIOUS
<1> HIDE DEF S
<1>4. S = Nat
    BY <1>1, <1>2, <1>3, SetInduction
<1> QED
    BY <1>4 DEF S

(* What is reached is complete, and no more than is needed for that.       *)
LEMMA ReachedProperties ==
    ASSUME NEW L \in [AllNodes -> SUBSET AllNodes], NEW from \in SUBSET AllNodes
    PROVE  /\ Reached(L, from) \in SUBSET AllNodes
           /\ from \subseteq Reached(L, from)
           /\ Closed(Reached(L, from), L)
           /\ \A T : from \subseteq T /\ Closed(T, L) => Reached(L, from) \subseteq T
<1> DEFINE N == Cardinality(Nodes)
           F == CHOOSE f : IsGrowth(f, N, L, from)
<1>1. N \in Nat
    BY NodesAreFinite
<1>2. \E f : IsGrowth(f, N, L, from)
    BY <1>1, GrowthExists
<1>3. IsGrowth(F, N, L, from)
    BY <1>2
<1>4. Reached(L, from) = F[N]
    BY DEF Reached, IsGrowth
<1>5. F[0] = from
  <2>1. 0 \in 0..N
      BY <1>1
  <2> HIDE DEF F, N
  <2> QED
      BY <1>3, <2>1 DEF IsGrowth
<1>6. Grows(F, N, L)
  <2> SUFFICES ASSUME NEW k \in 1..N PROVE F[k] = F[k - 1] \cup UNION {L[m] : m \in F[k - 1]}
      BY DEF Grows
  <2>1. k \in 0..N /\ k # 0
      BY <1>1
  <2> HIDE DEF F
  <2> QED
      BY <1>3, <2>1 DEF IsGrowth
<1> HIDE DEF F, N
<1>7. IsFiniteSet(AllNodes) /\ Cardinality(AllNodes) <= N + 1
    BY NodesAreFinite DEF N
<1>8. F[N] \in SUBSET AllNodes /\ F[0] \subseteq F[N] /\ Closed(F[N], L)
    BY <1>1, <1>5, <1>6, <1>7, GrowthCompletes
<1>9. ASSUME NEW T, from \subseteq T, Closed(T, L) PROVE F[N] \subseteq T
    BY <1>1, <1>5, <1>6, <1>9, GrowthStaysIn DEF Closed
<1> QED
    BY <1>4, <1>5, <1>8, <1>9

-----------------------------------------------------------------------------
(* Least and greatest ranks.                                               *)

LEMMA LeastRank ==
    ASSUME NEW S, S # {}, NEW h, \A m \in S : h[m] \in Nat
    PROVE  \E m \in S : \A a \in S : h[m] <= h[a]
<1> DEFINE Low(k) == (\E m \in S : h[m] <= k) => \E m \in S : \A a \in S : h[m] <= h[a]
           K == {k \in Nat : Low(k)}
<1>1. 0 \in K
    OBVIOUS
<1>2. ASSUME NEW k \in K PROVE k + 1 \in K
  <2>1. CASE \E m \in S : h[m] <= k
      BY <2>1
  <2>2. CASE \A m \in S : ~(h[m] <= k)
      BY <2>2
  <2> QED
      BY <2>1, <2>2
<1>3. K \in SUBSET Nat
    OBVIOUS
<1> HIDE DEF K
<1>4. K = Nat
    BY <1>1, <1>2, <1>3, SetInduction
<1>5. PICK m \in S : h[m] \in Nat
    OBVIOUS
<1>6. Low(h[m])
    BY <1>4, <1>5 DEF K
<1> QED
    BY <1>5, <1>6

LEMMA GreatestRank ==
    ASSUME NEW X, IsFiniteSet(X), X # {}, NEW h, \A m \in X : h[m] \in Nat
    PROVE  \E m \in X : \A a \in X : h[a] <= h[m]
<1> DEFINE Has(T) == \E m \in T : \A a \in T : h[a] <= h[m]
           K == {k \in Nat : \A T \in SUBSET X : Cardinality(T) = k + 1 => Has(T)}
<1>0. \A T \in SUBSET X : IsFiniteSet(T) /\ Cardinality(T) \in Nat
    BY FS_Subset, FS_CardinalityType
<1>1. 0 \in K
  <2> SUFFICES ASSUME NEW T \in SUBSET X, Cardinality(T) = 1 PROVE Has(T)
      OBVIOUS
  <2>1. \E x : T = {x}
      BY <1>0, FS_Singleton
  <2> QED
      BY <2>1
<1>2. ASSUME NEW k \in K PROVE k + 1 \in K
  <2> SUFFICES ASSUME NEW T \in SUBSET X, Cardinality(T) = k + 2 PROVE Has(T)
      OBVIOUS
  <2>1. T # {}
      BY <1>0, FS_EmptySet
  <2>2. PICK x \in T : TRUE
      BY <2>1
  <2>3. Cardinality(T \ {x}) = k + 1
      BY <1>0, <2>2, FS_RemoveElement
  <2>4. Has(T \ {x})
      BY <2>3
  <2>5. PICK m \in T \ {x} : \A a \in T \ {x} : h[a] <= h[m]
      BY <2>4
  <2>6. CASE h[x] <= h[m]
      BY <2>5, <2>6
  <2>7. CASE ~(h[x] <= h[m])
      BY <2>2, <2>5, <2>7
  <2> QED
      BY <2>6, <2>7
<1>3. K \in SUBSET Nat
    OBVIOUS
<1> HIDE DEF K
<1>4. K = Nat
    BY <1>1, <1>2, <1>3, SetInduction
<1>5. Cardinality(X) \in Nat /\ Cardinality(X) # 0
    BY <1>0, FS_EmptySet
<1>6. Cardinality(X) - 1 \in K /\ Cardinality(X) = (Cardinality(X) - 1) + 1
    BY <1>4, <1>5
<1> QED
    BY <1>6 DEF K

-----------------------------------------------------------------------------
(* What is below a node by the lists of children, and above it by the      *)
(* parents.                                                                *)

Kids(kids, p) == ToSet(kids[p])
Below(kids, n) == Reached([m \in AllNodes |-> ToSet(kids[m])], {n})
Upward(par, m) == IF m \in Nodes THEN {par[m]} \ {None} ELSE {}
Above(par, n) == Reached([m \in AllNodes |-> Upward(par, m)], Upward(par, n))

ParentMaps == [Nodes -> Option(AllNodes)]
ChildLists == [AllNodes -> Seq(Nodes)]

LEMMA NotNone == None \notin AllNodes /\ Document \notin Nodes /\ Nodes \subseteq AllNodes /\ Document \in AllNodes
BY KindsAssumption DEF AllNodes

LEMMA BelowIsSubtree == \A t, n : Subtree(t, n) = Below(t.children, n)
BY DEF Subtree, Below

LEMMA AboveIsAncestors == \A t, n : Ancestors(t, n) = Above(t.parent, n)
BY DEF Ancestors, Above, Up, Upward

LEMMA KidsAreNodes ==
    ASSUME NEW kids \in ChildLists, NEW p \in AllNodes
    PROVE  Kids(kids, p) \in SUBSET Nodes
<1>1. kids[p] \in Seq(Nodes)
    BY DEF ChildLists
<1> QED
    BY <1>1 DEF Kids, ToSet

LEMMA BelowFacts ==
    ASSUME NEW kids \in ChildLists, NEW n \in AllNodes
    PROVE  /\ n \in Below(kids, n)
           /\ Below(kids, n) \in SUBSET AllNodes
           /\ n \in Nodes => Below(kids, n) \in SUBSET Nodes
           /\ \A m \in Below(kids, n) : Kids(kids, m) \subseteq Below(kids, n)
           /\ \A m \in Below(kids, n) \ {n} : \E q \in Below(kids, n) : m \in Kids(kids, q)
           /\ \A T \in SUBSET AllNodes :
                 n \in T /\ (\A m \in T : Kids(kids, m) \subseteq T) => Below(kids, n) \subseteq T
<1> DEFINE L == [m \in AllNodes |-> ToSet(kids[m])]
           B == Below(kids, n)
<1>1. \A m \in AllNodes : L[m] = Kids(kids, m) /\ L[m] \in SUBSET Nodes
    BY KidsAreNodes DEF Kids
<1>2. L \in [AllNodes -> SUBSET AllNodes] /\ {n} \in SUBSET AllNodes
    BY <1>1, NotNone
<1>3. B = Reached(L, {n})
    BY DEF Below
<1> HIDE DEF L, B
<1>4. /\ B \in SUBSET AllNodes /\ n \in B /\ Closed(B, L)
      /\ \A T : {n} \subseteq T /\ Closed(T, L) => B \subseteq T
    BY <1>2, <1>3, ReachedProperties
<1>5. \A m \in B : Kids(kids, m) \subseteq B
    BY <1>1, <1>4 DEF Closed
<1>6. \A T \in SUBSET AllNodes : n \in T /\ (\A m \in T : Kids(kids, m) \subseteq T) => B \subseteq T
    BY <1>1, <1>4 DEF Closed
<1>7. ASSUME n \in Nodes PROVE B \in SUBSET Nodes
    BY <1>1, <1>6, <1>7, NotNone
<1>8. ASSUME NEW m \in B \ {n} PROVE \E q \in B : m \in Kids(kids, q)
  <2> SUFFICES ASSUME \A q \in B : m \notin Kids(kids, q) PROVE FALSE
      OBVIOUS
  <2>1. \A q \in B \ {m} : Kids(kids, q) \subseteq B \ {m}
      BY <1>5
  <2>2. B \subseteq B \ {m}
      BY <1>4, <1>6, <2>1
  <2> QED
      BY <2>2
<1> QED
    BY <1>4, <1>5, <1>6, <1>7, <1>8 DEF B

LEMMA AboveFacts ==
    ASSUME NEW par \in ParentMaps, NEW n \in AllNodes
    PROVE  /\ Above(par, n) \in SUBSET AllNodes
           /\ n \in Nodes /\ par[n] # None => par[n] \in Above(par, n)
           /\ \A m \in Above(par, n) \cap Nodes : par[m] # None => par[m] \in Above(par, n)
           /\ \A T \in SUBSET AllNodes :
                 /\ n \in Nodes /\ par[n] # None => par[n] \in T
                 /\ \A m \in T \cap Nodes : par[m] # None => par[m] \in T
                 => Above(par, n) \subseteq T
<1> DEFINE L == [m \in AllNodes |-> Upward(par, m)]
           A == Above(par, n)
<1>0. \A m \in Nodes : par[m] \in AllNodes \cup {None}
    BY DEF ParentMaps, Option
<1>1. \A m \in AllNodes : L[m] = Upward(par, m) /\ Upward(par, m) \in SUBSET AllNodes
    BY <1>0 DEF Upward
<1>2. L \in [AllNodes -> SUBSET AllNodes]
    BY <1>1
<1>3. A = Reached(L, Upward(par, n))
    BY DEF Above
<1> HIDE DEF L, A
<1>4. /\ A \in SUBSET AllNodes /\ Upward(par, n) \subseteq A /\ Closed(A, L)
      /\ \A T : Upward(par, n) \subseteq T /\ Closed(T, L) => A \subseteq T
    BY <1>1, <1>2, <1>3, ReachedProperties
<1>5. n \in Nodes /\ par[n] # None => par[n] \in A
    BY <1>4 DEF Upward
<1>6. \A m \in A \cap Nodes : par[m] # None => par[m] \in A
    BY <1>1, <1>4 DEF Closed, Upward
<1>7. ASSUME NEW T \in SUBSET AllNodes, n \in Nodes /\ par[n] # None => par[n] \in T,
             \A m \in T \cap Nodes : par[m] # None => par[m] \in T
      PROVE  A \subseteq T
  <2>1. Upward(par, n) \subseteq T
      BY <1>7 DEF Upward
  <2>2. \A m \in T : L[m] \subseteq T
    <3> TAKE m \in T
    <3>1. L[m] = Upward(par, m)
        BY <1>1
    <3> QED
        BY <1>7, <3>1 DEF Upward
  <2> QED
      BY <1>4, <2>1, <2>2 DEF Closed
<1> QED
    BY <1>4, <1>5, <1>6, <1>7 DEF A

(* Ranks that grow from a parent to its children: no node is above itself. *)
Ranked(par, h) == \A n \in Nodes : par[n] # None => h[par[n]] < h[n]
Linked(par, kids) == \A n \in Nodes, p \in AllNodes : n \in Kids(kids, p) <=> par[n] = p

IsTree(par, kids) ==
    /\ par \in ParentMaps
    /\ kids \in ChildLists
    /\ \A p \in AllNodes : IsInjective(kids[p])
    /\ Linked(par, kids)
    /\ \E h \in [AllNodes -> Nat] : Ranked(par, h)

LEMMA AboveWithin ==
    ASSUME NEW par \in ParentMaps, NEW n \in AllNodes, NEW T \in SUBSET AllNodes,
           n \in Nodes /\ par[n] # None => par[n] \in T,
           \A m \in T \cap Nodes : par[m] # None => par[m] \in T
    PROVE  Above(par, n) \subseteq T
BY AboveFacts

LEMMA AboveRanks ==
    ASSUME NEW par \in ParentMaps, NEW h \in [AllNodes -> Nat], Ranked(par, h), NEW n \in Nodes
    PROVE  \A m \in Above(par, n) : h[m] < h[n]
<1> DEFINE T == {m \in AllNodes : h[m] < h[n]}
<1>1. n \in AllNodes /\ \A m \in Nodes : m \in AllNodes /\ par[m] \in AllNodes \cup {None}
    BY NotNone DEF ParentMaps, Option
<1>2. \A m \in AllNodes : h[m] \in Nat
    OBVIOUS
<1>3. par[n] # None => par[n] \in T
    BY <1>1 DEF Ranked
<1>4. \A m \in T \cap Nodes : par[m] # None => par[m] \in T
  <2> TAKE m \in T \cap Nodes
  <2> HAVE par[m] # None
  <2>1. h[par[m]] < h[m] /\ h[m] < h[n] /\ par[m] \in AllNodes
      BY <1>1 DEF Ranked
  <2>2. h[par[m]] \in Nat /\ h[m] \in Nat /\ h[n] \in Nat
      BY <1>1, <1>2, <2>1
  <2> QED
      BY <2>1, <2>2
<1>5. T \in SUBSET AllNodes
    OBVIOUS
<1> HIDE DEF T
<1>6. Above(par, n) \subseteq T
    BY <1>1, <1>3, <1>4, <1>5, AboveWithin
<1> QED
    BY <1>6 DEF T

LEMMA AboveNone ==
    ASSUME NEW par \in ParentMaps, NEW n \in AllNodes, n \notin Nodes \/ par[n] = None
    PROVE  Above(par, n) = {}
<1>1. Above(par, n) \subseteq {}
  <2>1. {} \in SUBSET AllNodes /\ \A m \in {} \cap Nodes : par[m] # None => par[m] \in {}
      OBVIOUS
  <2>2. ~(n \in Nodes /\ par[n] # None)
      OBVIOUS
  <2> QED
      BY <2>1, <2>2, AboveWithin
<1> QED
    BY <1>1

LEMMA AboveParent ==
    ASSUME NEW par \in ParentMaps, NEW n \in Nodes, par[n] # None
    PROVE  par[n] \in AllNodes /\ Above(par, n) = {par[n]} \cup Above(par, par[n])
<1> DEFINE q == par[n]
<1>1. n \in AllNodes /\ q \in AllNodes
    BY NotNone DEF ParentMaps, Option
<1> HIDE DEF q
<1>2. Above(par, n) \subseteq {q} \cup Above(par, q)
  <2>1. {q} \cup Above(par, q) \in SUBSET AllNodes
      BY <1>1, AboveFacts
  <2>2. \A m \in ({q} \cup Above(par, q)) \cap Nodes :
            par[m] # None => par[m] \in {q} \cup Above(par, q)
      BY <1>1, AboveFacts
  <2>3. par[n] \in {q} \cup Above(par, q)
      BY DEF q
  <2> QED
      BY <1>1, <2>1, <2>2, <2>3, AboveFacts
<1>3. q \in Above(par, n)
    BY <1>1, AboveFacts DEF q
<1>4. Above(par, q) \subseteq Above(par, n)
  <2>1. /\ Above(par, n) \in SUBSET AllNodes
        /\ \A m \in Above(par, n) \cap Nodes : par[m] # None => par[m] \in Above(par, n)
      BY <1>1, AboveFacts
  <2>2. q \in Nodes /\ par[q] # None => par[q] \in Above(par, n)
      BY <1>3, <2>1
  <2> QED
      BY <1>1, <2>1, <2>2, AboveFacts
<1> QED
    BY <1>1, <1>2, <1>3, <1>4 DEF q

LEMMA AboveIsChain ==
    ASSUME NEW par \in ParentMaps, NEW n \in AllNodes
    PROVE  \A a, b \in Above(par, n) : a = b \/ a \in Above(par, b) \/ b \in Above(par, a)
<1> DEFINE A == Above(par, n)
           Meets(a) == \A b \in A : a = b \/ a \in Above(par, b) \/ b \in Above(par, a)
           T == {a \in A : Meets(a)}
<1>1. /\ A \in SUBSET AllNodes
      /\ n \in Nodes /\ par[n] # None => par[n] \in A
      /\ \A m \in A \cap Nodes : par[m] # None => par[m] \in A
    BY AboveFacts
<1>2. ASSUME n \in Nodes, par[n] # None PROVE par[n] \in T
  <2>1. A = {par[n]} \cup Above(par, par[n])
      BY <1>2, AboveParent
  <2> QED
      BY <1>1, <1>2, <2>1
<1>3. ASSUME NEW a \in T, a \in Nodes, par[a] # None PROVE par[a] \in T
  <2>1. a \in A /\ Meets(a) /\ par[a] \in A
      BY <1>1, <1>3
  <2>2. Above(par, a) = {par[a]} \cup Above(par, par[a])
      BY <1>3, AboveParent
  <2>3. ASSUME NEW b \in A PROVE par[a] = b \/ par[a] \in Above(par, b) \/ b \in Above(par, par[a])
    <3>1. CASE a = b
        BY <2>2, <3>1
    <3>2. CASE a \in Above(par, b)
      <4>1. b \in AllNodes
          BY <1>1
      <4> QED
          BY <1>3, <3>2, <4>1, AboveFacts
    <3>3. CASE b \in Above(par, a)
        BY <2>2, <3>3
    <3> QED
        BY <2>1, <3>1, <3>2, <3>3
  <2> QED
      BY <2>1, <2>3
<1>4. T \in SUBSET AllNodes
    BY <1>1
<1>5. \A m \in T \cap Nodes : par[m] # None => par[m] \in T
    BY <1>3
<1> HIDE DEF T
<1>6. A \subseteq T
    BY <1>2, <1>4, <1>5, AboveFacts
<1> QED
    BY <1>6 DEF T

LEMMA NearestExists ==
    ASSUME NEW par \in ParentMaps, NEW h \in [AllNodes -> Nat], Ranked(par, h),
           NEW n \in AllNodes, NEW X \in SUBSET Above(par, n), X # {}
    PROVE  \E m \in X : \A a \in X \ {m} : a \in Above(par, m)
<1>1. Above(par, n) \in SUBSET AllNodes
    BY AboveFacts
<1>2. IsFiniteSet(X) /\ \A m \in X : m \in AllNodes /\ h[m] \in Nat
    BY <1>1, NodesAreFinite, FS_Subset
<1>3. PICK m \in X : \A a \in X : h[a] <= h[m]
    BY <1>2, GreatestRank
<1>4. ASSUME NEW a \in X, a # m PROVE a \in Above(par, m)
  <2>1. a \in Above(par, m) \/ m \in Above(par, a)
      BY <1>4, AboveIsChain
  <2>2. ASSUME m \in Above(par, a) PROVE FALSE
    <3>1. a \in Nodes
        BY <1>2, <2>2, AboveNone
    <3>2. h[m] < h[a]
        BY <2>2, <3>1, AboveRanks
    <3> QED
        BY <1>2, <1>3, <3>2
  <2> QED
      BY <2>1, <2>2
<1> QED
    BY <1>4

(* In a tree, below and above are two sides of one relation.               *)
LEMMA BelowLinks ==
    ASSUME NEW par, NEW kids, IsTree(par, kids), NEW n \in AllNodes
    PROVE  /\ \A m \in Below(kids, n) \ {n} : m \in Nodes /\ par[m] \in Below(kids, n)
           /\ \A m \in Nodes : par[m] \in Below(kids, n) => m \in Below(kids, n)
<1>1. kids \in ChildLists /\ Linked(par, kids)
    BY DEF IsTree
<1>2. \A q \in AllNodes : Kids(kids, q) \in SUBSET Nodes
    BY <1>1, KidsAreNodes
<1> QED
    BY <1>1, <1>2, BelowFacts DEF Linked

LEMMA BelowRanks ==
    ASSUME NEW par, NEW kids, IsTree(par, kids), NEW h \in [AllNodes -> Nat], Ranked(par, h),
           NEW n \in AllNodes
    PROVE  \A m \in Below(kids, n) \ {n} : h[n] < h[m]
<1> DEFINE T == {m \in Below(kids, n) : m = n \/ h[n] < h[m]}
<1>1. kids \in ChildLists /\ Linked(par, kids)
    BY DEF IsTree
<1>2. Below(kids, n) \in SUBSET AllNodes /\ n \in Below(kids, n)
    BY <1>1, BelowFacts
<1>3. ASSUME NEW m \in T, NEW c \in Kids(kids, m) PROVE c \in T
  <2>1. c \in Nodes /\ c \in AllNodes /\ m \in AllNodes /\ c \in Below(kids, n)
      BY <1>1, <1>2, KidsAreNodes, NotNone, BelowFacts
  <2>2. par[c] = m
      BY <1>1, <2>1 DEF Linked
  <2>3. h[m] < h[c]
      BY <2>1, <2>2, NotNone DEF Ranked
  <2>4. h[m] \in Nat /\ h[n] \in Nat /\ h[c] \in Nat
      BY <2>1
  <2> QED
      BY <2>1, <2>3, <2>4
<1>4. T \in SUBSET AllNodes /\ n \in T
    BY <1>2
<1>5. \A m \in T : Kids(kids, m) \subseteq T
    BY <1>3
<1> HIDE DEF T
<1>6. Below(kids, n) \subseteq T
    BY <1>1, <1>4, <1>5, BelowFacts
<1> QED
    BY <1>6 DEF T

LEMMA BelowAndAbove ==
    ASSUME NEW par, NEW kids, IsTree(par, kids), NEW n \in AllNodes, NEW m \in Below(kids, n)
    PROVE  /\ m = n \/ n \in Above(par, m)
           /\ Above(par, n) \subseteq Above(par, m)
           /\ Above(par, m) \subseteq Below(kids, n) \cup Above(par, n)
<1> DEFINE Holds(a) == (a = n \/ n \in Above(par, a)) /\ Above(par, n) \subseteq Above(par, a)
           T == {a \in Below(kids, n) : Holds(a)}
           U == Below(kids, n) \cup Above(par, n)
<1>1. kids \in ChildLists /\ par \in ParentMaps /\ Linked(par, kids)
    BY DEF IsTree
<1>2. Below(kids, n) \in SUBSET AllNodes /\ n \in Below(kids, n) /\ Above(par, n) \in SUBSET AllNodes
    BY <1>1, BelowFacts, AboveFacts
<1>3. ASSUME NEW a \in T, NEW c \in Kids(kids, a) PROVE c \in T
  <2>1. c \in Nodes /\ a \in AllNodes /\ c \in Below(kids, n)
      BY <1>1, <1>2, KidsAreNodes, BelowFacts
  <2>2. par[c] = a /\ par[c] # None
      BY <1>1, <2>1, NotNone DEF Linked
  <2>3. Above(par, c) = {a} \cup Above(par, a)
      BY <1>1, <2>1, <2>2, AboveParent
  <2> QED
      BY <2>1, <2>3
<1>4. T \in SUBSET AllNodes /\ n \in T /\ \A a \in T : Kids(kids, a) \subseteq T
    BY <1>2, <1>3
<1> HIDE DEF T
<1>5. Below(kids, n) \subseteq T
    BY <1>1, <1>4, BelowFacts
<1>6. \A a \in U \cap Nodes : par[a] # None => par[a] \in U
  <2> TAKE a \in U \cap Nodes
  <2>1. CASE a = n
      BY <1>1, <2>1, AboveFacts
  <2>2. CASE a \in Below(kids, n) \ {n}
      BY <2>2, BelowLinks
  <2>3. CASE a \in Above(par, n)
      BY <1>1, <2>3, AboveFacts
  <2> QED
      BY <2>1, <2>2, <2>3
<1>7. m \in U /\ m \in AllNodes /\ U \in SUBSET AllNodes
    BY <1>2
<1>8. m \in Nodes /\ par[m] # None => par[m] \in U
    BY <1>6, <1>7
<1> HIDE DEF U
<1>9. Above(par, m) \subseteq U
    BY <1>1, <1>6, <1>7, <1>8, AboveWithin
<1> QED
    BY <1>5, <1>9 DEF T, U

-----------------------------------------------------------------------------
(* Sound documents, and the removal of a node.                             *)

(* The flags of all nodes but those in apart are those of their parents.   *)
Flags(par, in_document, apart) ==
    /\ Document \in in_document
    /\ \A n \in Nodes \ apart : n \in in_document <=> par[n] \in in_document

LEMMA FlagsAdded ==
    ASSUME NEW par, NEW kids, IsTree(par, kids), NEW in_document \in SUBSET AllNodes, NEW apart,
           Flags(par, in_document, apart), NEW n \in Nodes, par[n] \in in_document
    PROVE  Flags(par, in_document \cup Below(kids, n), apart \ {n})
<1>1. n \in AllNodes /\ kids \in ChildLists
    BY NotNone DEF IsTree
<1>2. n \in Below(kids, n)
    BY <1>1, BelowFacts
<1>3. /\ \A m \in Below(kids, n) \ {n} : m \in Nodes /\ par[m] \in Below(kids, n)
      /\ \A m \in Nodes : par[m] \in Below(kids, n) => m \in Below(kids, n)
    BY <1>1, BelowLinks
<1>4. ASSUME NEW m \in Nodes \ (apart \ {n})
      PROVE  m \in in_document \cup Below(kids, n) <=> par[m] \in in_document \cup Below(kids, n)
  <2>1. CASE m = n
      BY <1>2, <2>1
  <2>2. CASE m # n
    <3>1. m \in in_document <=> par[m] \in in_document
        BY <2>2 DEF Flags
    <3> QED
        BY <1>3, <2>2, <3>1
  <2> QED
      BY <2>1, <2>2
<1> QED
    BY <1>4 DEF Flags

LEMMA FlagsRemoved ==
    ASSUME NEW par, NEW kids, IsTree(par, kids), NEW in_document \in SUBSET AllNodes, NEW apart,
           Flags(par, in_document, apart), NEW n \in Nodes,
           NEW cut, \A m \in Nodes \ {n} : cut[m] = par[m],
           cut[n] \notin in_document \ Below(kids, n)
    PROVE  Flags(cut, in_document \ Below(kids, n), apart \ {n})
<1>1. n \in AllNodes /\ kids \in ChildLists
    BY NotNone DEF IsTree
<1>2. n \in Below(kids, n) /\ Below(kids, n) \in SUBSET Nodes
    BY <1>1, BelowFacts
<1>3. Document \in in_document \ Below(kids, n)
    BY <1>2, NotNone DEF Flags
<1> QED
    BY <1>1, <1>2, <1>3, BelowLinks DEF Flags

(* The map of ids is that of the nodes in the document.                    *)
Indexed(t) == \A i \in Ids : t.nodes_to_id[i] = {n \in Nodes : n \in t.in_document /\ t.id[n] = i}

(* What the document refers to is there.                                   *)
Refers(t) ==
    /\ Indexed(t)
    /\ t.in_document \subseteq t.live \cup {Document}
    /\ t.hover \in Option(t.live)
    /\ t.focus \in Option(t.live)
    /\ t.nodes_to_stylesheet \subseteq t.live

(* Only nodes that are there have parents or children.                     *)
Lives(t) ==
    /\ t.unused \cap t.live = {}
    /\ \A n \in Nodes : t.parent[n] # None => n \in t.live /\ t.parent[n] \in t.live \cup {Document}

Sound(t) ==
    /\ t \in Documents
    /\ IsTree(t.parent, t.children)
    /\ Flags(t.parent, t.in_document, {})
    /\ Lives(t)
    /\ Refers(t)

Styles(S) == {n \in S : Kind[n] = "style"}

(* The methods that move nodes neither make nor drop any.                  *)
Keeps(t, u) ==
    /\ u.live = t.live /\ u.unused = t.unused
    /\ u.id = t.id /\ u.paint_children = t.paint_children
    /\ t.style_nodes \subseteq u.style_nodes
    /\ u.style_nodes \subseteq t.style_nodes \cup Styles(t.live)

LEMMA FieldTypes ==
    ASSUME NEW t \in Documents
    PROVE  /\ t.unused \in SUBSET Nodes /\ t.live \in SUBSET Nodes
           /\ t.parent \in ParentMaps /\ t.children \in ChildLists
           /\ t.in_document \in SUBSET AllNodes
           /\ t.id \in [Nodes -> Option(Ids)] /\ t.nodes_to_id \in [Ids -> SUBSET Nodes]
           /\ t.hover \in Option(Nodes) /\ t.focus \in Option(Nodes)
           /\ t.paint_children \in [AllNodes -> SUBSET Nodes]
           /\ t.nodes_to_stylesheet \in SUBSET Nodes /\ t.style_nodes \in SUBSET Nodes
BY DEF Documents, ParentMaps, ChildLists

LEMMA NearestSurvives ==
    ASSUME NEW t \in Documents, NEW h \in [AllNodes -> Nat], Ranked(t.parent, h),
           NEW n \in AllNodes, NEW S
    PROVE  LET found == NearestSurviving(t, n, S)
               surviving == Ancestors(t, n) \cap S \cap Nodes
           IN  /\ found \in Option(S \cap Nodes)
               /\ surviving = {} => found = None
               /\ surviving # {} => /\ found \in surviving
                                    /\ \A a \in surviving \ {found} : a \in Ancestors(t, found)
<1> DEFINE surviving == Ancestors(t, n) \cap S \cap Nodes
           found == NearestSurviving(t, n, S)
<1>1. t.parent \in ParentMaps
    BY FieldTypes
<1>2. surviving \subseteq Above(t.parent, n)
    BY AboveIsAncestors
<1>3. CASE surviving = {}
    BY <1>3 DEF NearestSurviving, Option
<1>4. CASE surviving # {}
  <2>1. \E m \in surviving : \A a \in surviving \ {m} : a \in Above(t.parent, m)
    <3> HIDE DEF surviving
    <3> QED
        BY <1>1, <1>2, <1>4, NearestExists
  <2>2. \E m \in surviving : \A a \in surviving \ {m} : a \in Ancestors(t, m)
      BY <2>1, AboveIsAncestors
  <2>3. found = CHOOSE m \in surviving : \A a \in surviving \ {m} : a \in Ancestors(t, m)
      BY <1>4 DEF NearestSurviving
  <2>4. found \in surviving /\ \A a \in surviving \ {found} : a \in Ancestors(t, found)
    <3> HIDE DEF surviving, found
    <3> QED
        BY <2>2, <2>3
  <2> QED
      BY <1>4, <2>4 DEF Option
<1> QED
    BY <1>3, <1>4

LEMMA ProcessRemovedFacts ==
    ASSUME NEW t \in Documents, NEW h \in [AllNodes -> Nat], Ranked(t.parent, h), Refers(t),
           NEW n \in AllNodes
    PROVE  LET u == ProcessRemoved(t, n)
               gone == Below(t.children, n)
           IN  /\ u \in Documents
               /\ u.parent = t.parent /\ u.children = t.children
               /\ u.live = t.live /\ u.unused = t.unused /\ u.id = t.id
               /\ u.paint_children = t.paint_children /\ u.style_nodes = t.style_nodes
               /\ u.in_document = t.in_document \ gone
               /\ Refers(u)
               /\ u.hover \in {t.hover} \cup Option(u.in_document) /\ u.focus \in {t.focus, None}
               /\ u.hover \in Option(Nodes \ gone) /\ u.focus \in Option(Nodes \ gone)
               /\ u.hover = IF t.hover \in gone THEN NearestSurviving(t, t.hover, t.in_document \ gone)
                            ELSE t.hover
               /\ u.nodes_to_stylesheet = t.nodes_to_stylesheet \ gone
<1> DEFINE u == ProcessRemoved(t, n)
           gone == Below(t.children, n)
           found == IF t.hover \in gone THEN NearestSurviving(t, t.hover, t.in_document \ gone)
                    ELSE t.hover
           ids == [i \in Ids |-> t.nodes_to_id[i] \ {m \in gone : t.id[m] = i}]
<1>1. gone = Subtree(t, n)
    BY BelowIsSubtree
<1> HIDE DEF gone, found
<1>2. u = [t EXCEPT !.hover = found,
                    !.focus = IF @ \in gone THEN None ELSE @,
                    !.in_document = @ \ gone,
                    !.nodes_to_id = ids,
                    !.nodes_to_stylesheet = @ \ gone]
    BY <1>1 DEF ProcessRemoved, InteractionCleared, Documents, found
<1>3. ids \in [Ids -> SUBSET Nodes]
    BY FieldTypes
<1>4. /\ found \in Option(Nodes \ gone) /\ found \in Option(t.live)
      /\ found \in {t.hover} \cup Option(t.in_document \ gone)
  <2>1. CASE t.hover \in gone
    <3>1. t.hover \in AllNodes
        BY <2>1, FieldTypes, BelowFacts DEF gone
    <3>2. found \in Option((t.in_document \ gone) \cap Nodes)
        BY <2>1, <3>1, NearestSurvives DEF found
    <3> QED
        BY <3>2, NotNone DEF Option, Refers
  <2>2. CASE t.hover \notin gone
      BY <2>2, FieldTypes DEF Option, Refers, found
  <2> QED
      BY <2>1, <2>2
<1>5. found \in Option(Nodes)
    BY <1>4 DEF Option
<1>3a. \A i \in Ids : ids[i] = t.nodes_to_id[i] \ {m \in gone : t.id[m] = i}
    OBVIOUS
<1> HIDE DEF ids, u
<1>6. u \in Documents
    BY <1>2, <1>3, <1>5 DEF Documents, Option
<1>7. /\ u.parent = t.parent /\ u.children = t.children
      /\ u.live = t.live /\ u.unused = t.unused /\ u.id = t.id
      /\ u.paint_children = t.paint_children /\ u.style_nodes = t.style_nodes
      /\ u.in_document = t.in_document \ gone
      /\ u.hover = found /\ u.focus = (IF t.focus \in gone THEN None ELSE t.focus)
      /\ u.nodes_to_stylesheet = t.nodes_to_stylesheet \ gone /\ u.nodes_to_id = ids
    BY <1>2 DEF Documents
<1>8. u.focus \in Option(Nodes \ gone)
    BY <1>7, FieldTypes DEF Option
<1>9. Refers(u)
  <2>1. Indexed(u)
      BY <1>3a, <1>7 DEF Refers, Indexed
  <2> QED
      BY <1>4, <1>7, <2>1 DEF Refers, Option
<1> QED
    BY <1>4, <1>6, <1>7, <1>8, <1>9 DEF u, gone, found

(* A tree stays one when n leaves its parent.                              *)
LEMMA UnlinkedTree ==
    ASSUME NEW par, NEW kids, IsTree(par, kids), NEW n \in Nodes, par[n] # None
    PROVE  /\ par[n] \in AllNodes
           /\ IsTree([par EXCEPT ![n] = None],
                     [kids EXCEPT ![par[n]] = Filtered(kids[par[n]], Nodes \ {n})])
<1> DEFINE p == par[n]
           cut == [par EXCEPT ![n] = None]
           kept == Filtered(kids[p], Nodes \ {n})
           left == [kids EXCEPT ![p] = kept]
<1>1. /\ par \in ParentMaps /\ kids \in ChildLists /\ Linked(par, kids)
      /\ \A q \in AllNodes : IsInjective(kids[q])
    BY DEF IsTree
<1>2. p \in AllNodes
    BY <1>1 DEF ParentMaps, Option
<1>3. kids[p] \in Seq(Nodes)
    BY <1>1, <1>2 DEF ChildLists
<1>4. kept \in Seq(Nodes) /\ ToSet(kept) = ToSet(kids[p]) \cap (Nodes \ {n}) /\ IsInjective(kept)
    BY <1>1, <1>2, <1>3, FilteredSet
<1> HIDE DEF kept, p
<1>5. cut \in ParentMaps /\ left \in ChildLists
    BY <1>1, <1>2, <1>4 DEF ParentMaps, ChildLists, Option
<1>6. \A m \in Nodes : cut[m] = IF m = n THEN None ELSE par[m]
    BY <1>1 DEF ParentMaps
<1>7. \A q \in AllNodes : left[q] = IF q = p THEN kept ELSE kids[q]
    BY <1>1 DEF ChildLists
<1> HIDE DEF cut, left
<1>8. Linked(cut, left)
  <2> SUFFICES ASSUME NEW m \in Nodes, NEW q \in AllNodes
               PROVE  m \in Kids(left, q) <=> cut[m] = q
      BY DEF Linked
  <2>1. m \in Kids(kids, q) <=> par[m] = q
      BY <1>1 DEF Linked
  <2>2. Kids(left, q) = IF q = p THEN Kids(kids, p) \ {n} ELSE Kids(kids, q)
    <3>1. Kids(kids, p) \in SUBSET Nodes
        BY <1>1, <1>2, KidsAreNodes
    <3> QED
        BY <1>4, <1>7, <3>1 DEF Kids
  <2>3. par[n] = p
      BY DEF p
  <2> QED
      BY <1>6, <2>1, <2>2, <2>3, NotNone
<1>9. \A q \in AllNodes : IsInjective(left[q])
    BY <1>1, <1>4, <1>7
<1>10. \E h \in [AllNodes -> Nat] : Ranked(cut, h)
  <2>1. PICK h \in [AllNodes -> Nat] : Ranked(par, h)
      BY DEF IsTree
  <2>2. Ranked(cut, h)
      BY <1>6, <2>1 DEF Ranked
  <2> QED
      BY <2>2
<1> QED
    BY <1>2, <1>5, <1>8, <1>9, <1>10 DEF IsTree, cut, left, kept, p

LEMMA RecordedFacts ==
    ASSUME NEW t \in Documents, NEW p \in AllNodes, p \in t.live \cup {Document}
    PROVE  LET u == Recorded(t, p)
           IN  /\ u \in Documents
               /\ u.parent = t.parent /\ u.children = t.children
               /\ u.in_document = t.in_document
               /\ u.hover = t.hover /\ u.focus = t.focus
               /\ u.nodes_to_stylesheet = t.nodes_to_stylesheet /\ u.nodes_to_id = t.nodes_to_id
               /\ Keeps(t, u)
<1>1. CASE p \in Nodes /\ Kind[p] = "style"
  <2> DEFINE u == [t EXCEPT !.style_nodes = @ \cup {p}]
  <2>1. p \in t.live
      BY <1>1, NotNone
  <2>2. /\ u \in Documents
        /\ u.parent = t.parent /\ u.children = t.children
        /\ u.in_document = t.in_document
        /\ u.hover = t.hover /\ u.focus = t.focus
        /\ u.nodes_to_stylesheet = t.nodes_to_stylesheet /\ u.nodes_to_id = t.nodes_to_id
        /\ u.live = t.live /\ u.unused = t.unused
        /\ u.id = t.id /\ u.paint_children = t.paint_children
        /\ u.style_nodes = t.style_nodes \cup {p}
      BY <1>1 DEF Documents
  <2>3. Recorded(t, p) = u
      BY <1>1 DEF Recorded
  <2> HIDE DEF u
  <2> QED
      BY <1>1, <2>1, <2>2, <2>3 DEF Keeps, Styles
<1>2. CASE ~(p \in Nodes /\ Kind[p] = "style")
  <2>1. Recorded(t, p) = t
      BY <1>2 DEF Recorded
  <2> QED
      BY <2>1 DEF Keeps
<1> QED
    BY <1>1, <1>2

LEMMA UnlinkedFacts ==
    ASSUME NEW t \in Documents, IsTree(t.parent, t.children), Lives(t),
           NEW n \in Nodes, t.parent[n] # None
    PROVE  LET u == Unlinked(t, n)
           IN  /\ u \in Documents
               /\ u.parent = [t.parent EXCEPT ![n] = None]
               /\ IsTree(u.parent, u.children)
               /\ Lives(u)
               /\ u.in_document = t.in_document
               /\ u.hover = t.hover /\ u.focus = t.focus
               /\ u.nodes_to_stylesheet = t.nodes_to_stylesheet /\ u.nodes_to_id = t.nodes_to_id
               /\ Keeps(t, u)
<1> DEFINE p == t.parent[n]
           kids == [t.children EXCEPT ![p] = Filtered(t.children[p], Nodes \ {n})]
           cut == [t.parent EXCEPT ![n] = None]
           v == [t EXCEPT !.parent = cut, !.children = kids]
           u == Unlinked(t, n)
<1>1. p \in AllNodes /\ IsTree(cut, kids)
    BY UnlinkedTree
<1>2. u = Recorded(v, p)
    BY DEF Unlinked, Documents
<1>3. p \in t.live \cup {Document}
    BY DEF Lives
<1>4. \A m \in Nodes : cut[m] = IF m = n THEN None ELSE t.parent[m]
    BY FieldTypes DEF ParentMaps
<1> HIDE DEF cut, kids, u
<1>5. /\ v \in Documents /\ v.parent = cut /\ v.children = kids
      /\ v.in_document = t.in_document
      /\ v.hover = t.hover /\ v.focus = t.focus
      /\ v.nodes_to_stylesheet = t.nodes_to_stylesheet /\ v.nodes_to_id = t.nodes_to_id
      /\ v.live = t.live /\ v.unused = t.unused
      /\ v.id = t.id /\ v.paint_children = t.paint_children
      /\ v.style_nodes = t.style_nodes
  <2>1. cut \in ParentMaps /\ kids \in ChildLists
      BY <1>1 DEF IsTree
  <2> QED
      BY <2>1 DEF Documents, ParentMaps, ChildLists
<1> HIDE DEF v, p
<1>6. /\ u \in Documents
      /\ u.parent = v.parent /\ u.children = v.children
      /\ u.in_document = v.in_document
      /\ u.hover = v.hover /\ u.focus = v.focus
      /\ u.nodes_to_stylesheet = v.nodes_to_stylesheet /\ u.nodes_to_id = v.nodes_to_id
      /\ Keeps(v, u)
    BY <1>1, <1>2, <1>3, <1>5, RecordedFacts
<1>7. Lives(u)
    BY <1>4, <1>5, <1>6 DEF Lives, Keeps
<1> QED
    BY <1>1, <1>5, <1>6, <1>7 DEF Keeps, u, cut

(* remove_node keeps a document sound.                                     *)
LEMMA RemoveNodeIsSound ==
    ASSUME NEW t, Sound(t), NEW n \in Nodes
    PROVE  LET u == RemoveNode(t, n)
           IN  /\ Sound(u)
               /\ u.parent = [t.parent EXCEPT ![n] = None]
               /\ Keeps(t, u)
               /\ u.hover = (IF t.hover \in Subtree(t, n)
                             THEN NearestSurviving(t, t.hover, t.in_document \ Subtree(t, n))
                             ELSE t.hover)
<1> DEFINE u == RemoveNode(t, n)
           removed == ProcessRemoved(t, n)
           gone == Below(t.children, n)
           cut == [t.parent EXCEPT ![n] = None]
<1>1. /\ t \in Documents /\ IsTree(t.parent, t.children) /\ Flags(t.parent, t.in_document, {})
      /\ Lives(t) /\ Refers(t) /\ n \in AllNodes
    BY NotNone DEF Sound
<1>2. PICK h \in [AllNodes -> Nat] : Ranked(t.parent, h)
    BY <1>1 DEF IsTree
<1>3. /\ removed \in Documents
      /\ removed.parent = t.parent /\ removed.children = t.children
      /\ removed.live = t.live /\ removed.unused = t.unused /\ removed.id = t.id
      /\ removed.paint_children = t.paint_children /\ removed.style_nodes = t.style_nodes
      /\ removed.in_document = t.in_document \ gone
      /\ Refers(removed)
      /\ removed.hover = IF t.hover \in gone
                         THEN NearestSurviving(t, t.hover, t.in_document \ gone) ELSE t.hover
    BY <1>1, <1>2, ProcessRemovedFacts
<1>4. t.in_document \in SUBSET AllNodes /\ t.parent \in ParentMaps
    BY <1>1, FieldTypes
<1>5. \A m \in Nodes : cut[m] = IF m = n THEN None ELSE t.parent[m]
    BY <1>4 DEF ParentMaps
<1>6. Flags(cut, t.in_document \ gone, {})
  <2>1. cut[n] \notin t.in_document \ gone
      BY <1>4, <1>5, NotNone
  <2>2. Flags(cut, t.in_document \ gone, {} \ {n})
      BY <1>1, <1>4, <1>5, <2>1, FlagsRemoved
  <2> QED
      BY <2>2
<1>7. Lives(removed) /\ Keeps(t, removed)
    BY <1>1, <1>3 DEF Lives, Keeps
<1>8. gone = Subtree(t, n)
    BY BelowIsSubtree
<1> HIDE DEF gone, removed, u, cut
<1>9. CASE t.parent[n] = None
  <2>1. u = removed
      BY <1>9 DEF u, removed, RemoveNode
  <2>2. cut = t.parent
      BY <1>4, <1>9 DEF cut, ParentMaps
  <2>3. Sound(u)
      BY <1>1, <1>3, <1>6, <1>7, <2>1, <2>2 DEF Sound
  <2> QED
      BY <1>3, <1>7, <1>8, <2>1, <2>2, <2>3 DEF u, cut
<1>10. CASE t.parent[n] # None
  <2>1. u = Unlinked(removed, n)
      BY <1>10 DEF u, removed, RemoveNode
  <2>2. /\ u \in Documents
        /\ u.parent = [removed.parent EXCEPT ![n] = None]
        /\ IsTree(u.parent, u.children)
        /\ Lives(u)
        /\ u.in_document = removed.in_document
        /\ u.hover = removed.hover /\ u.focus = removed.focus
        /\ u.nodes_to_stylesheet = removed.nodes_to_stylesheet /\ u.nodes_to_id = removed.nodes_to_id
        /\ Keeps(removed, u)
      BY <1>1, <1>3, <1>7, <1>10, <2>1, UnlinkedFacts
  <2>3. u.parent = cut
      BY <1>3, <2>2 DEF cut
  <2>4. Refers(u) /\ Keeps(t, u)
      BY <1>3, <2>2 DEF Refers, Indexed, Keeps
  <2>5. Sound(u)
      BY <1>3, <1>6, <2>2, <2>3, <2>4 DEF Sound
  <2> QED
      BY <1>3, <1>8, <2>2, <2>3, <2>4, <2>5 DEF u, cut
<1> QED
    BY <1>9, <1>10

(* A fold exists and stays in the sets its steps lead through.             *)
IsFoldOf(f, N, base, s) == f = [k \in 0..N |-> IF k = 0 THEN base ELSE s[k][f[k - 1]]]

LEMMA FoldStays ==
    ASSUME NEW N \in Nat, NEW f, NEW R, f[0] \in R[0],
           \A k \in 1..N : f[k - 1] \in R[k - 1] => f[k] \in R[k]
    PROVE  \A k \in 0..N : f[k] \in R[k]
<1> DEFINE S == {k \in Nat : k <= N => f[k] \in R[k]}
<1>1. 0 \in S
    OBVIOUS
<1>2. ASSUME NEW k \in S PROVE k + 1 \in S
  <2>1. ASSUME k + 1 <= N PROVE f[k + 1] \in R[k + 1]
    <3>1. k + 1 \in 1..N /\ (k + 1) - 1 = k /\ k <= N
        BY <2>1
    <3>2. f[k] \in R[k]
        BY <3>1
    <3> QED
        BY <3>1, <3>2
  <2> QED
      BY <2>1
<1>3. S \in SUBSET Nat
    OBVIOUS
<1> HIDE DEF S
<1>4. S = Nat
    BY <1>1, <1>2, <1>3, SetInduction
<1> QED
    BY <1>4 DEF S

LEMMA FoldExists ==
    ASSUME NEW N \in Nat, NEW base, NEW s
    PROVE  \E f : IsFoldOf(f, N, base, s)
<1> DEFINE S == {M \in Nat : \E f : IsFoldOf(f, M, base, s)}
<1>1. 0 \in S
  <2>1. IsFoldOf([k \in 0..0 |-> base], 0, base, s)
      BY DEF IsFoldOf
  <2> QED
      BY <2>1
<1>2. ASSUME NEW M \in S PROVE M + 1 \in S
  <2>1. PICK f : IsFoldOf(f, M, base, s)
      OBVIOUS
  <2> DEFINE g == [k \in 0..M + 1 |-> IF k = M + 1 THEN s[k][f[M]] ELSE f[k]]
  <2>2. ASSUME NEW k \in 0..M + 1 PROVE g[k] = IF k = 0 THEN base ELSE s[k][g[k - 1]]
    <3>1. CASE k = M + 1
      <4>1. k # 0 /\ k - 1 = M /\ k - 1 \in 0..M + 1 /\ k - 1 # M + 1
          BY <3>1
      <4> QED
          BY <3>1, <4>1
    <3>2. CASE k # M + 1
      <4>1. k \in 0..M /\ (k # 0 => k - 1 \in 0..M + 1 /\ k - 1 # M + 1)
          BY <3>2
      <4>2. f[k] = IF k = 0 THEN base ELSE s[k][f[k - 1]]
          BY <2>1, <4>1 DEF IsFoldOf
      <4> QED
          BY <3>2, <4>1, <4>2
    <3> QED
        BY <3>1, <3>2
  <2>3. g = [k \in 0..M + 1 |-> g[k]] /\ M + 1 \in Nat
      OBVIOUS
  <2> HIDE DEF g
  <2>4. IsFoldOf(g, M + 1, base, s)
      BY <2>2, <2>3 DEF IsFoldOf
  <2> QED
      BY <2>3, <2>4
<1>3. S \in SUBSET Nat
    OBVIOUS
<1> HIDE DEF S
<1>4. S = Nat
    BY <1>1, <1>2, <1>3, SetInduction
<1> QED
    BY <1>4 DEF S

(* A fold of steps that lead from each of these sets to the next.          *)
LEMMA FoldThrough ==
    ASSUME NEW N \in Nat, NEW base, NEW R, base \in R[0], NEW s,
           \A k \in 1..N : \A u \in R[k - 1] : s[k][u] \in R[k]
    PROVE  \E f : IsFoldOf(f, N, base, s) /\ \A k \in 0..N : f[k] \in R[k]
<1>1. PICK f : IsFoldOf(f, N, base, s)
    BY FoldExists
<1>2. f[0] = base /\ \A k \in 1..N : f[k] = s[k][f[k - 1]]
  <2>1. \A k \in 0..N : f[k] = IF k = 0 THEN base ELSE s[k][f[k - 1]]
      BY <1>1 DEF IsFoldOf
  <2> QED
      BY <2>1
<1>3. \A k \in 1..N : f[k - 1] \in R[k - 1] => f[k] \in R[k]
    BY <1>2
<1>4. \A k \in 0..N : f[k] \in R[k]
    BY <1>2, <1>3, FoldStays
<1> QED
    BY <1>1, <1>4

Cleared(par, ns, k) == [m \in Nodes |-> IF \E j \in 1..k : ns[j] = m THEN None ELSE par[m]]

LEMMA KeepsIsTransitive ==
    ASSUME NEW t, NEW u, NEW v, Keeps(t, u), Keeps(u, v)
    PROVE  Keeps(t, v)
BY DEF Keeps

LEMMA ClearedNext ==
    ASSUME NEW par \in ParentMaps, NEW ns \in Seq(Nodes), NEW k \in 1..Len(ns)
    PROVE  /\ Cleared(par, ns, 0) = par
           /\ Cleared(par, ns, k - 1) \in ParentMaps
           /\ [Cleared(par, ns, k - 1) EXCEPT ![ns[k]] = None] = Cleared(par, ns, k)
<1>1. ns[k] \in Nodes
    OBVIOUS
<1>2. \A m \in Nodes : (\E j \in 1..k : ns[j] = m) <=> (ns[k] = m \/ \E j \in 1..k - 1 : ns[j] = m)
  <2>1. \A j \in 1..k : j = k \/ j \in 1..k - 1
      OBVIOUS
  <2> QED
      BY <2>1
<1>3. Cleared(par, ns, k - 1) \in ParentMaps
    BY DEF Cleared, ParentMaps, Option
<1>4. [Cleared(par, ns, k - 1) EXCEPT ![ns[k]] = None] = Cleared(par, ns, k)
    BY <1>1, <1>2 DEF Cleared
<1>5. Cleared(par, ns, 0) = par
    BY DEF Cleared, ParentMaps
<1> QED
    BY <1>3, <1>4, <1>5

Detached(u, n) == IF u.parent[n] = None THEN u ELSE RemoveNode(u, n)

LEMMA DetachAllIsFold ==
    ASSUME NEW t, NEW ns
    PROVE  DetachAll(t, ns) =
              (CHOOSE f : f = [k \in 0..Len(ns) |->
                  IF k = 0 THEN t ELSE Detached(f[k - 1], ns[k])])[Len(ns)]
BY DEF DetachAll, Folded, Detached

LEMMA DetachedIsSound ==
    ASSUME NEW t, Sound(t), NEW n \in Nodes
    PROVE  LET u == Detached(t, n)
           IN  Sound(u) /\ u.parent = [t.parent EXCEPT ![n] = None] /\ Keeps(t, u)
<1>1. t.parent \in ParentMaps
    BY FieldTypes DEF Sound
<1>2. CASE t.parent[n] = None
  <2>1. [t.parent EXCEPT ![n] = None] = t.parent
      BY <1>1, <1>2 DEF ParentMaps
  <2>2. Keeps(t, t)
      BY DEF Keeps
  <2> QED
      BY <1>2, <2>1, <2>2 DEF Detached
<1>3. CASE t.parent[n] # None
    BY <1>3, RemoveNodeIsSound DEF Detached
<1> QED
    BY <1>2, <1>3

SoundFrom(t, par) == {u \in Documents : Sound(u) /\ Keeps(t, u) /\ u.parent = par}

LEMMA SoundFromStart ==
    ASSUME NEW t, Sound(t) PROVE t \in SoundFrom(t, t.parent)
BY DEF SoundFrom, Sound, Keeps

LEMMA DetachAllIsSound ==
    ASSUME NEW t, Sound(t), NEW ns \in Seq(Nodes)
    PROVE  LET u == DetachAll(t, ns)
           IN  /\ Sound(u)
               /\ u.parent = Cleared(t.parent, ns, Len(ns))
               /\ Keeps(t, u)
<1> DEFINE N == Len(ns)
           Is(f) == f = [k \in 0..N |-> IF k = 0 THEN t ELSE Detached(f[k - 1], ns[k])]
           R == [k \in 0..N |-> SoundFrom(t, Cleared(t.parent, ns, k))]
           s == [k \in 1..N |-> [u \in R[k - 1] |-> Detached(u, ns[k])]]
           F == CHOOSE f : Is(f)
<1>0. t.parent \in ParentMaps /\ N \in Nat
    BY FieldTypes DEF Sound
<1>1. DetachAll(t, ns) = F[N]
    BY DetachAllIsFold
<1>2. \A k \in 0..N : R[k] = SoundFrom(t, Cleared(t.parent, ns, k))
    OBVIOUS
<1>3. t \in R[0]
  <2>1. Cleared(t.parent, ns, 0) = t.parent
      BY <1>0 DEF Cleared, ParentMaps
  <2> QED
      BY <1>0, <1>2, <2>1, SoundFromStart
<1>4. ASSUME NEW k \in 1..N, NEW u \in R[k - 1] PROVE Detached(u, ns[k]) \in R[k]
  <2>1. k - 1 \in 0..N /\ k \in 0..N /\ ns[k] \in Nodes
      BY <1>0
  <2>2. Sound(u) /\ Keeps(t, u) /\ u.parent = Cleared(t.parent, ns, k - 1)
      BY <1>2, <2>1 DEF SoundFrom
  <2>3. LET v == Detached(u, ns[k])
        IN  Sound(v) /\ v.parent = [u.parent EXCEPT ![ns[k]] = None] /\ Keeps(u, v)
      BY <2>1, <2>2, DetachedIsSound
  <2>4. Detached(u, ns[k]).parent = Cleared(t.parent, ns, k)
      BY <1>0, <2>2, <2>3, ClearedNext
  <2> QED
      BY <1>2, <2>1, <2>2, <2>3, <2>4, KeepsIsTransitive DEF SoundFrom, Sound
<1>5. \A k \in 1..N : \A u \in R[k - 1] : s[k][u] = Detached(u, ns[k])
    OBVIOUS
<1> HIDE DEF R, s, N
<1>6. PICK f : IsFoldOf(f, N, t, s) /\ \A k \in 0..N : f[k] \in R[k]
  <2>1. \A k \in 1..N : \A u \in R[k - 1] : s[k][u] \in R[k]
      BY <1>4, <1>5
  <2> QED
      BY <1>0, <1>3, <2>1, FoldThrough
<1>7. Is(f)
  <2>1. f = [k \in 0..N |-> IF k = 0 THEN t ELSE s[k][f[k - 1]]]
      BY <1>6 DEF IsFoldOf
  <2>2. ASSUME NEW k \in 0..N, k # 0 PROVE s[k][f[k - 1]] = Detached(f[k - 1], ns[k])
    <3>1. k \in 1..N /\ k - 1 \in 0..N
        BY <1>0, <2>2
    <3> QED
        BY <1>5, <1>6, <3>1
  <2> QED
      BY <2>1, <2>2
<1>8. Is(F)
    BY <1>7
<1> HIDE DEF F
<1>9. F[0] = t /\ \A k \in 1..N : F[k] = Detached(F[k - 1], ns[k])
  <2>1. 0 \in 0..N /\ \A k \in 1..N : k \in 0..N /\ k # 0
      BY <1>0
  <2> QED
      BY <1>8, <2>1
<1> HIDE DEF Is
<1>10. \A k \in 1..N : F[k - 1] \in R[k - 1] => F[k] \in R[k]
    BY <1>4, <1>9
<1>11. F[N] \in R[N]
  <2>1. F[0] \in R[0]
      BY <1>3, <1>9
  <2>2. \A k \in 0..N : F[k] \in R[k]
      BY <1>0, <1>10, <2>1, FoldStays
  <2> QED
      BY <1>0, <2>2
<1> QED
    BY <1>0, <1>1, <1>2, <1>11 DEF SoundFrom, N

LEMMA RemovingChildrenIsSound ==
    ASSUME NEW t, Sound(t), NEW p \in AllNodes
    PROVE  LET u == RemoveChildren(t, p)
               ns == t.children[p]
           IN  /\ Sound(u)
               /\ u.parent = Cleared(t.parent, ns, Len(ns))
               /\ Keeps(t, u)
<1>00. PICK ns : ns = t.children[p]
    OBVIOUS
<1> DEFINE N == Len(ns)
           Is(f) == f = [k \in 0..N |-> IF k = 0 THEN t ELSE RemoveNode(f[k - 1], ns[k])]
           R == [k \in 0..N |-> SoundFrom(t, Cleared(t.parent, ns, k))]
           s == [k \in 1..N |-> [u \in R[k - 1] |-> RemoveNode(u, ns[k])]]
           F == CHOOSE f : Is(f)
<1>0. t.parent \in ParentMaps /\ N \in Nat /\ ns \in Seq(Nodes)
  <2>1. t.parent \in ParentMaps /\ t.children \in ChildLists
      BY FieldTypes DEF Sound
  <2>2. ns \in Seq(Nodes)
      BY <1>00, <2>1 DEF ChildLists
  <2> QED
      BY <2>1, <2>2
<1>1. RemoveChildren(t, p) = F[N]
    BY <1>00 DEF RemoveChildren, Folded
<1>2. \A k \in 0..N : R[k] = SoundFrom(t, Cleared(t.parent, ns, k))
    OBVIOUS
<1>3. t \in R[0]
  <2>1. Cleared(t.parent, ns, 0) = t.parent
      BY <1>0 DEF Cleared, ParentMaps
  <2> QED
      BY <1>0, <1>2, <2>1, SoundFromStart
<1>4. ASSUME NEW k \in 1..N, NEW u \in R[k - 1] PROVE RemoveNode(u, ns[k]) \in R[k]
  <2>1. k - 1 \in 0..N /\ k \in 0..N /\ ns[k] \in Nodes
      BY <1>0
  <2>2. Sound(u) /\ Keeps(t, u) /\ u.parent = Cleared(t.parent, ns, k - 1)
      BY <1>2, <2>1 DEF SoundFrom
  <2>3. LET v == RemoveNode(u, ns[k])
        IN  Sound(v) /\ v.parent = [u.parent EXCEPT ![ns[k]] = None] /\ Keeps(u, v)
      BY <2>1, <2>2, RemoveNodeIsSound
  <2>4. RemoveNode(u, ns[k]).parent = Cleared(t.parent, ns, k)
    <3>1. [Cleared(t.parent, ns, k - 1) EXCEPT ![ns[k]] = None] = Cleared(t.parent, ns, k)
        BY <1>0, ClearedNext
    <3> QED
        BY <2>2, <2>3, <3>1
  <2> QED
      BY <1>2, <2>1, <2>2, <2>3, <2>4, KeepsIsTransitive DEF SoundFrom, Sound
<1>5. \A k \in 1..N : \A u \in R[k - 1] : s[k][u] = RemoveNode(u, ns[k])
    OBVIOUS
<1> HIDE DEF R, s, N
<1>6. PICK f : IsFoldOf(f, N, t, s) /\ \A k \in 0..N : f[k] \in R[k]
  <2>1. \A k \in 1..N : \A u \in R[k - 1] : s[k][u] \in R[k]
      BY <1>4, <1>5
  <2> QED
      BY <1>0, <1>3, <2>1, FoldThrough
<1>7. Is(f)
  <2>1. f = [k \in 0..N |-> IF k = 0 THEN t ELSE s[k][f[k - 1]]]
      BY <1>6 DEF IsFoldOf
  <2>2. ASSUME NEW k \in 0..N, k # 0 PROVE s[k][f[k - 1]] = RemoveNode(f[k - 1], ns[k])
    <3>1. k \in 1..N /\ k - 1 \in 0..N
        BY <1>0, <2>2
    <3> QED
        BY <1>5, <1>6, <3>1
  <2> QED
      BY <2>1, <2>2
<1>8. Is(F)
    BY <1>7
<1> HIDE DEF F
<1>9. F[0] = t /\ \A k \in 1..N : F[k] = RemoveNode(F[k - 1], ns[k])
  <2>1. 0 \in 0..N /\ \A k \in 1..N : k \in 0..N /\ k # 0
      BY <1>0
  <2> QED
      BY <1>8, <2>1
<1> HIDE DEF Is
<1>10. \A k \in 1..N : F[k - 1] \in R[k - 1] => F[k] \in R[k]
    BY <1>4, <1>9
<1>11. F[N] \in R[N]
  <2>1. F[0] \in R[0]
      BY <1>3, <1>9
  <2>2. \A k \in 0..N : F[k] \in R[k]
      BY <1>0, <1>10, <2>1, FoldStays
  <2> QED
      BY <1>0, <2>2
<1> QED
    BY <1>00, <1>0, <1>1, <1>2, <1>11 DEF SoundFrom, N


LEMMA RemoveChildrenIsSound ==
    ASSUME NEW t, Sound(t), NEW p \in AllNodes
    PROVE  LET u == RemoveChildren(t, p)
           IN  /\ Sound(u)
               /\ u.parent = [m \in Nodes |-> IF t.parent[m] = p THEN None ELSE t.parent[m]]
               /\ u.children[p] = <<>>
               /\ Keeps(t, u)
<1> DEFINE u == RemoveChildren(t, p)
           ns == t.children[p]
<1>1. Sound(u) /\ u.parent = Cleared(t.parent, ns, Len(ns)) /\ Keeps(t, u)
    BY RemovingChildrenIsSound
<1>2. t.parent \in ParentMaps /\ t.children \in ChildLists /\ Linked(t.parent, t.children)
    BY FieldTypes DEF Sound, IsTree
<1>3. ns \in Seq(Nodes)
    BY <1>2 DEF ChildLists
<1>4. \A m \in Nodes : (\E j \in 1..Len(ns) : ns[j] = m) <=> t.parent[m] = p
  <2>1. \A m \in Nodes : m \in ToSet(ns) <=> t.parent[m] = p
      BY <1>2 DEF Linked, Kids
  <2>2. DOMAIN ns = 1..Len(ns)
      BY <1>3
  <2> QED
      BY <2>1, <2>2 DEF ToSet
<1>5. u.parent = [m \in Nodes |-> IF t.parent[m] = p THEN None ELSE t.parent[m]]
    BY <1>1, <1>4 DEF Cleared
<1>6. u.children[p] = <<>>
  <2>1. u.children \in ChildLists /\ Linked(u.parent, u.children)
      BY <1>1 DEF Sound, IsTree
  <2>2. u.children[p] \in Seq(Nodes) /\ Kids(u.children, p) \in SUBSET Nodes
      BY <2>1, KidsAreNodes DEF ChildLists
  <2>3. \A m \in Nodes : m \notin Kids(u.children, p)
    <3>1. \A m \in Nodes : u.parent[m] # p
        BY <1>5, NotNone
    <3> QED
        BY <2>1, <3>1 DEF Linked
  <2>4. ToSet(u.children[p]) = {}
      BY <2>2, <2>3 DEF Kids
  <2>5. ASSUME Len(u.children[p]) # 0 PROVE FALSE
    <3>1. 1 \in DOMAIN u.children[p]
        BY <2>2, <2>5
    <3> QED
        BY <2>4, <3>1 DEF ToSet
  <2> QED
      BY <2>2, <2>5
<1> QED
    BY <1>1, <1>5, <1>6

UnlinkOnce(u, n) == IF u.parent[n] = None THEN u ELSE Unlinked(u, n)
UnlinkAll(t, ns) == Folded(LAMBDA u, n : IF u.parent[n] = None THEN u ELSE Unlinked(u, n), t, ns)

(* Between its first steps, add_children_to_parent has only cut links.     *)
Linkage(u) == u \in Documents /\ IsTree(u.parent, u.children) /\ Lives(u)
SameOtherwise(t, u) ==
    /\ u.in_document = t.in_document
    /\ u.hover = t.hover /\ u.focus = t.focus
    /\ u.nodes_to_stylesheet = t.nodes_to_stylesheet /\ u.nodes_to_id = t.nodes_to_id
    /\ Keeps(t, u)

LEMMA UnlinkOnceFacts ==
    ASSUME NEW t, Linkage(t), NEW n \in Nodes
    PROVE  LET u == UnlinkOnce(t, n)
           IN  Linkage(u) /\ u.parent = [t.parent EXCEPT ![n] = None] /\ SameOtherwise(t, u)
<1>1. t.parent \in ParentMaps
    BY FieldTypes DEF Linkage
<1>2. CASE t.parent[n] = None
  <2>1. [t.parent EXCEPT ![n] = None] = t.parent
      BY <1>1, <1>2 DEF ParentMaps
  <2>2. SameOtherwise(t, t)
      BY DEF SameOtherwise, Keeps
  <2> QED
      BY <1>2, <2>1, <2>2 DEF UnlinkOnce
<1>3. CASE t.parent[n] # None
    BY <1>3, UnlinkedFacts DEF UnlinkOnce, Linkage, SameOtherwise
<1> QED
    BY <1>2, <1>3

UnlinkedFrom(t, par) == {u \in Documents : Linkage(u) /\ SameOtherwise(t, u) /\ u.parent = par}

LEMMA UnlinkedFromStart ==
    ASSUME NEW t, Linkage(t) PROVE t \in UnlinkedFrom(t, t.parent)
BY DEF UnlinkedFrom, Linkage, SameOtherwise, Keeps

LEMMA SameIsTransitive ==
    ASSUME NEW t, NEW u, NEW v, SameOtherwise(t, u), SameOtherwise(u, v)
    PROVE  SameOtherwise(t, v)
BY DEF SameOtherwise, Keeps

LEMMA UnlinkAllIsFold ==
    ASSUME NEW t, NEW ns
    PROVE  UnlinkAll(t, ns) =
              (CHOOSE f : f = [k \in 0..Len(ns) |->
                  IF k = 0 THEN t ELSE UnlinkOnce(f[k - 1], ns[k])])[Len(ns)]
BY DEF UnlinkAll, Folded, UnlinkOnce

LEMMA UnlinkAllFacts ==
    ASSUME NEW t, Linkage(t), NEW ns \in Seq(Nodes)
    PROVE  LET u == UnlinkAll(t, ns)
           IN  /\ Linkage(u)
               /\ u.parent = Cleared(t.parent, ns, Len(ns))
               /\ SameOtherwise(t, u)
<1> DEFINE N == Len(ns)
           Is(f) == f = [k \in 0..N |-> IF k = 0 THEN t ELSE UnlinkOnce(f[k - 1], ns[k])]
           R == [k \in 0..N |-> UnlinkedFrom(t, Cleared(t.parent, ns, k))]
           s == [k \in 1..N |-> [u \in R[k - 1] |-> UnlinkOnce(u, ns[k])]]
           F == CHOOSE f : Is(f)
<1>0. t.parent \in ParentMaps /\ N \in Nat
    BY FieldTypes DEF Linkage
<1>1. UnlinkAll(t, ns) = F[N]
    BY UnlinkAllIsFold
<1>2. \A k \in 0..N : R[k] = UnlinkedFrom(t, Cleared(t.parent, ns, k))
    OBVIOUS
<1>3. t \in R[0]
  <2>1. Cleared(t.parent, ns, 0) = t.parent
      BY <1>0 DEF Cleared, ParentMaps
  <2> QED
      BY <1>0, <1>2, <2>1, UnlinkedFromStart
<1>4. ASSUME NEW k \in 1..N, NEW u \in R[k - 1] PROVE UnlinkOnce(u, ns[k]) \in R[k]
  <2>1. k - 1 \in 0..N /\ k \in 0..N /\ ns[k] \in Nodes
      BY <1>0
  <2>2. Linkage(u) /\ SameOtherwise(t, u) /\ u.parent = Cleared(t.parent, ns, k - 1)
      BY <1>2, <2>1 DEF UnlinkedFrom
  <2>3. LET v == UnlinkOnce(u, ns[k])
        IN  Linkage(v) /\ v.parent = [u.parent EXCEPT ![ns[k]] = None] /\ SameOtherwise(u, v)
      BY <2>1, <2>2, UnlinkOnceFacts
  <2>4. UnlinkOnce(u, ns[k]).parent = Cleared(t.parent, ns, k)
      BY <1>0, <2>2, <2>3, ClearedNext
  <2> QED
      BY <1>2, <2>1, <2>2, <2>3, <2>4, SameIsTransitive DEF UnlinkedFrom, Linkage
<1>5. \A k \in 1..N : \A u \in R[k - 1] : s[k][u] = UnlinkOnce(u, ns[k])
    OBVIOUS
<1> HIDE DEF R, s, N
<1>6. PICK f : IsFoldOf(f, N, t, s) /\ \A k \in 0..N : f[k] \in R[k]
  <2>1. \A k \in 1..N : \A u \in R[k - 1] : s[k][u] \in R[k]
      BY <1>4, <1>5
  <2> QED
      BY <1>0, <1>3, <2>1, FoldThrough
<1>7. Is(f)
  <2>1. f = [k \in 0..N |-> IF k = 0 THEN t ELSE s[k][f[k - 1]]]
      BY <1>6 DEF IsFoldOf
  <2>2. ASSUME NEW k \in 0..N, k # 0 PROVE s[k][f[k - 1]] = UnlinkOnce(f[k - 1], ns[k])
    <3>1. k \in 1..N /\ k - 1 \in 0..N
        BY <1>0, <2>2
    <3> QED
        BY <1>5, <1>6, <3>1
  <2> QED
      BY <2>1, <2>2
<1>8. Is(F)
    BY <1>7
<1> HIDE DEF F
<1>9. F[0] = t /\ \A k \in 1..N : F[k] = UnlinkOnce(F[k - 1], ns[k])
  <2>1. 0 \in 0..N /\ \A k \in 1..N : k \in 0..N /\ k # 0
      BY <1>0
  <2> QED
      BY <1>8, <2>1
<1> HIDE DEF Is
<1>10. \A k \in 1..N : F[k - 1] \in R[k - 1] => F[k] \in R[k]
    BY <1>4, <1>9
<1>11. F[N] \in R[N]
  <2>1. F[0] \in R[0]
      BY <1>3, <1>9
  <2>2. \A k \in 0..N : F[k] \in R[k]
      BY <1>0, <1>10, <2>1, FoldStays
  <2> QED
      BY <1>0, <2>2
<1> QED
    BY <1>0, <1>1, <1>2, <1>11 DEF UnlinkedFrom, N

-----------------------------------------------------------------------------
(* Lists of distinct nodes.                                                *)

LEMMA ConcatFacts ==
    ASSUME NEW S, NEW a \in Seq(S), NEW b \in Seq(S)
    PROVE  /\ a \o b \in Seq(S)
           /\ ToSet(a \o b) = ToSet(a) \cup ToSet(b)
           /\ IsInjective(a) /\ IsInjective(b) /\ ToSet(a) \cap ToSet(b) = {} => IsInjective(a \o b)
<1> DEFINE c == a \o b
<1>1. /\ c \in Seq(S) /\ Len(c) = Len(a) + Len(b)
      /\ \A i \in 1..Len(a) + Len(b) : c[i] = IF i <= Len(a) THEN a[i] ELSE b[i - Len(a)]
    BY ConcatProperties
<1>2. DOMAIN a = 1..Len(a) /\ DOMAIN b = 1..Len(b) /\ DOMAIN c = 1..Len(c) /\ Len(a) \in Nat /\ Len(b) \in Nat
    BY <1>1
<1> HIDE DEF c
<1>3. \A i \in 1..Len(a) : i \in 1..Len(c) /\ c[i] = a[i]
    BY <1>1, <1>2
<1>4. \A i \in 1..Len(b) : Len(a) + i \in 1..Len(c) /\ c[Len(a) + i] = b[i]
  <2> TAKE i \in 1..Len(b)
  <2>1. Len(a) + i \in 1..Len(a) + Len(b) /\ ~(Len(a) + i <= Len(a)) /\ (Len(a) + i) - Len(a) = i
      BY <1>2
  <2> QED
      BY <1>1, <2>1
<1>5. \A i \in 1..Len(c) : (i \in 1..Len(a) /\ c[i] = a[i])
                           \/ (i - Len(a) \in 1..Len(b) /\ c[i] = b[i - Len(a)])
  <2> TAKE i \in 1..Len(c)
  <2>1. CASE i <= Len(a)
      BY <1>1, <1>2, <2>1
  <2>2. CASE ~(i <= Len(a))
      BY <1>1, <1>2, <2>2
  <2> QED
      BY <2>1, <2>2
<1>6. ToSet(c) = ToSet(a) \cup ToSet(b)
  <2>1. ToSet(c) = {c[i] : i \in 1..Len(c)} /\ ToSet(a) = {a[i] : i \in 1..Len(a)} /\ ToSet(b) = {b[i] : i \in 1..Len(b)}
      BY <1>2 DEF ToSet
  <2> QED
      BY <1>3, <1>4, <1>5, <2>1
<1>7. ASSUME IsInjective(a), IsInjective(b), ToSet(a) \cap ToSet(b) = {},
             NEW i \in 1..Len(c), NEW j \in 1..Len(c), c[i] = c[j]
      PROVE  i = j
  <2>1. \A x \in 1..Len(a) : a[x] \in ToSet(a)
      BY <1>2 DEF ToSet
  <2>2. \A x \in 1..Len(b) : b[x] \in ToSet(b)
      BY <1>2 DEF ToSet
  <2>3. \A x, y \in 1..Len(a) : a[x] = a[y] => x = y
      BY <1>2, <1>7 DEF IsInjective
  <2>4. \A x, y \in 1..Len(b) : b[x] = b[y] => x = y
      BY <1>2, <1>7 DEF IsInjective
  <2>5. i \in Int /\ j \in Int
      BY <1>2
  <2>6. CASE i \in 1..Len(a) /\ c[i] = a[i]
      BY <1>5, <1>7, <2>1, <2>2, <2>3, <2>6
  <2>7. CASE i - Len(a) \in 1..Len(b) /\ c[i] = b[i - Len(a)]
    <3>1. j - Len(a) \in 1..Len(b) /\ c[j] = b[j - Len(a)]
        BY <1>5, <1>7, <2>1, <2>2, <2>7
    <3>2. i - Len(a) = j - Len(a)
        BY <1>7, <2>4, <2>7, <3>1
    <3> QED
        BY <1>2, <2>5, <3>2
  <2> QED
      BY <1>5, <2>6, <2>7
<1> QED
    BY <1>1, <1>2, <1>6, <1>7 DEF IsInjective, c

LEMMA PlaceOf ==
    ASSUME NEW S, NEW seq \in Seq(S), IsInjective(seq), NEW anchor \in ToSet(seq)
    PROVE  LET at == SelectInSeq(seq, LAMBDA m : m = anchor)
           IN  at \in 1..Len(seq) /\ seq[at] = anchor
<1> DEFINE I == {i \in 1..Len(seq) : seq[i] = anchor}
<1>1. PICK at \in 1..Len(seq) : seq[at] = anchor
    BY DEF ToSet
<1>2. I = {at}
    BY <1>1 DEF IsInjective
<1>3. Min({at}) = at
    BY <1>1 DEF Min
<1>4. SelectInSeq(seq, LAMBDA m : m = anchor) = at
    BY <1>2, <1>3 DEF SelectInSeq
<1> QED
    BY <1>1, <1>4

LEMMA Pieces ==
    ASSUME NEW S, NEW seq \in Seq(S), NEW lo \in 1..Len(seq) + 1, NEW hi \in 0..Len(seq)
    PROVE  LET out == SubSeq(seq, lo, hi)
           IN  /\ out \in Seq(S)
               /\ ToSet(out) = {seq[i] : i \in lo..hi}
               /\ IsInjective(seq) => IsInjective(out)
<1> DEFINE out == SubSeq(seq, lo, hi)
<1>0. Len(seq) \in Nat /\ DOMAIN seq = 1..Len(seq) /\ lo \in Int /\ hi \in Int
    OBVIOUS
<1>1. /\ out \in Seq(S) /\ Len(out) = (IF lo <= hi THEN hi - lo + 1 ELSE 0)
      /\ \A i \in 1..hi - lo + 1 : out[i] = seq[lo + i - 1]
  <2>1. \A i \in lo..hi : seq[i] \in S
      BY <1>0
  <2> QED
      BY <1>0, <2>1, SubSeqProperties
<1>2. DOMAIN out = 1..Len(out)
    BY <1>1
<1> HIDE DEF out
<1>3. \A i \in 1..Len(out) : lo + i - 1 \in lo..hi /\ out[i] = seq[lo + i - 1]
    BY <1>0, <1>1
<1>4. \A i \in lo..hi : i - lo + 1 \in 1..Len(out) /\ out[i - lo + 1] = seq[i]
  <2> TAKE i \in lo..hi
  <2>1. i - lo + 1 \in 1..hi - lo + 1 /\ lo <= hi /\ lo + (i - lo + 1) - 1 = i
      BY <1>0
  <2> QED
      BY <1>1, <2>1
<1>5. ToSet(out) = {seq[i] : i \in lo..hi}
  <2>1. ToSet(out) = {out[i] : i \in 1..Len(out)}
      BY <1>2 DEF ToSet
  <2>2. \A x : (\E i \in 1..Len(out) : x = out[i]) => \E i \in lo..hi : x = seq[i]
      BY <1>3
  <2>3. \A x : (\E i \in lo..hi : x = seq[i]) => \E i \in 1..Len(out) : x = out[i]
      BY <1>4
  <2> QED
      BY <2>1, <2>2, <2>3
<1>6. ASSUME IsInjective(seq), NEW i \in 1..Len(out), NEW j \in 1..Len(out), out[i] = out[j] PROVE i = j
  <2>1. seq[lo + i - 1] = seq[lo + j - 1] /\ lo + i - 1 \in 1..Len(seq) /\ lo + j - 1 \in 1..Len(seq)
      BY <1>0, <1>3, <1>6
  <2>2. lo + i - 1 = lo + j - 1
      BY <1>0, <1>6, <2>1 DEF IsInjective
  <2>3. i \in Int /\ j \in Int
      BY <1>1
  <2> QED
      BY <1>0, <2>2, <2>3
<1> QED
    BY <1>1, <1>2, <1>5, <1>6 DEF IsInjective, out

LEMMA SplicedFacts ==
    ASSUME NEW S, NEW seq \in Seq(S), IsInjective(seq), NEW ns \in Seq(S), IsInjective(ns),
           ToSet(seq) \cap ToSet(ns) = {}, NEW anchor, anchor = None \/ anchor \in ToSet(seq)
    PROVE  LET out == Spliced(seq, anchor, ns)
           IN  /\ out \in Seq(S) /\ IsInjective(out)
               /\ ToSet(out) = ToSet(seq) \cup ToSet(ns)
<1>1. CASE anchor = None
  <2>1. Spliced(seq, anchor, ns) = seq \o ns
      BY <1>1 DEF Spliced
  <2> QED
      BY <2>1, ConcatFacts
<1>2. CASE anchor # None
  <2> DEFINE at == SelectInSeq(seq, LAMBDA m : m = anchor)
             a == SubSeq(seq, 1, at - 1)
             b == SubSeq(seq, at, Len(seq))
  <2>1. at \in 1..Len(seq)
      BY <1>2, PlaceOf
  <2>2. Spliced(seq, anchor, ns) = a \o ns \o b
      BY <1>2 DEF Spliced
  <2> HIDE DEF at
  <2>3. at - 1 \in 0..Len(seq) /\ 1 \in 1..Len(seq) + 1 /\ at \in 1..Len(seq) + 1 /\ Len(seq) \in 0..Len(seq)
        /\ DOMAIN seq = 1..Len(seq) /\ Len(seq) \in Nat
      BY <2>1
  <2>4. /\ a \in Seq(S) /\ ToSet(a) = {seq[i] : i \in 1..at - 1} /\ IsInjective(a)
        /\ b \in Seq(S) /\ ToSet(b) = {seq[i] : i \in at..Len(seq)} /\ IsInjective(b)
      BY <2>3, Pieces
  <2> HIDE DEF a, b
  <2>5. ToSet(a) \cup ToSet(b) = ToSet(seq)
    <3>1. ToSet(seq) = {seq[i] : i \in 1..Len(seq)}
        BY <2>3 DEF ToSet
    <3>2. 1..Len(seq) = (1..at - 1) \cup (at..Len(seq))
        BY <2>1, <2>3
    <3> QED
        BY <2>4, <3>1, <3>2
  <2>6. ToSet(a) \cap ToSet(b) = {}
    <3> SUFFICES ASSUME NEW i \in 1..at - 1, NEW j \in at..Len(seq), seq[i] = seq[j] PROVE FALSE
        BY <2>4
    <3>1. i \in 1..Len(seq) /\ j \in 1..Len(seq) /\ i # j
        BY <2>1, <2>3
    <3> QED
        BY <2>3, <3>1 DEF IsInjective
  <2>7. /\ a \o ns \in Seq(S) /\ ToSet(a \o ns) = ToSet(a) \cup ToSet(ns) /\ IsInjective(a \o ns)
      BY <2>4, <2>5, ConcatFacts
  <2>8. ToSet(a \o ns) \cap ToSet(b) = {}
      BY <2>5, <2>6, <2>7
  <2>9. /\ (a \o ns) \o b \in Seq(S) /\ ToSet((a \o ns) \o b) = ToSet(a \o ns) \cup ToSet(b)
        /\ IsInjective((a \o ns) \o b)
    <3>1. PICK c : c = a \o ns
        OBVIOUS
    <3>2. c \in Seq(S) /\ IsInjective(c) /\ ToSet(c) \cap ToSet(b) = {}
        BY <2>7, <2>8, <3>1
    <3>3. c \o b \in Seq(S) /\ ToSet(c \o b) = ToSet(c) \cup ToSet(b) /\ IsInjective(c \o b)
        BY <2>4, <3>2, ConcatFacts
    <3> QED
        BY <3>1, <3>3
  <2> QED
      BY <2>2, <2>5, <2>7, <2>9
<1> QED
    BY <1>1, <1>2

(* The links once these nodes are in their new place.                      *)
Placed(par, p, ns) == [m \in Nodes |-> IF m \in ToSet(ns) THEN p ELSE par[m]]
PlacedKids(kids, p, anchor, ns) == [kids EXCEPT ![p] = Spliced(kids[p], anchor, ns)]

LEMMA PlacedTree ==
    ASSUME NEW par, NEW kids, IsTree(par, kids), NEW p \in AllNodes,
           NEW ns \in Seq(Nodes), IsInjective(ns),
           \A n \in ToSet(ns) : par[n] = None /\ p \notin Below(kids, n),
           NEW anchor, anchor = None \/ anchor \in Kids(kids, p)
    PROVE  IsTree(Placed(par, p, ns), PlacedKids(kids, p, anchor, ns))
<1> DEFINE P == Placed(par, p, ns)
           K == PlacedKids(kids, p, anchor, ns)
           list == Spliced(kids[p], anchor, ns)
           moved == UNION {Below(kids, n) : n \in ToSet(ns)}
<1>1. /\ par \in ParentMaps /\ kids \in ChildLists /\ Linked(par, kids)
      /\ \A q \in AllNodes : IsInjective(kids[q])
    BY DEF IsTree
<1>2. kids[p] \in Seq(Nodes) /\ IsInjective(kids[p]) /\ Kids(kids, p) = ToSet(kids[p])
    BY <1>1 DEF ChildLists, Kids
<1>3. ToSet(ns) \in SUBSET Nodes
    BY DEF ToSet
<1>4. ToSet(kids[p]) \cap ToSet(ns) = {}
  <2> SUFFICES ASSUME NEW n \in ToSet(ns), n \in Kids(kids, p) PROVE FALSE
      BY <1>2
  <2>1. par[n] = p
      BY <1>1, <1>3 DEF Linked
  <2> QED
      BY <2>1, NotNone
<1>5. list \in Seq(Nodes) /\ IsInjective(list) /\ ToSet(list) = ToSet(kids[p]) \cup ToSet(ns)
  <2>1. PICK seq : seq = kids[p]
      OBVIOUS
  <2>2. /\ Spliced(seq, anchor, ns) \in Seq(Nodes) /\ IsInjective(Spliced(seq, anchor, ns))
        /\ ToSet(Spliced(seq, anchor, ns)) = ToSet(seq) \cup ToSet(ns)
      BY <1>2, <1>4, <2>1, SplicedFacts
  <2> QED
      BY <2>1, <2>2
<1> HIDE DEF list
<1>6. P \in ParentMaps /\ K \in ChildLists
    BY <1>1, <1>5 DEF Placed, PlacedKids, list, ParentMaps, ChildLists, Option
<1>7. \A m \in Nodes : P[m] = IF m \in ToSet(ns) THEN p ELSE par[m]
    BY DEF Placed
<1>8. \A q \in AllNodes : K[q] = IF q = p THEN list ELSE kids[q]
    BY <1>1 DEF PlacedKids, list, ChildLists
<1> HIDE DEF P, K
<1>9. Linked(P, K)
  <2> SUFFICES ASSUME NEW m \in Nodes, NEW q \in AllNodes PROVE m \in Kids(K, q) <=> P[m] = q
      BY DEF Linked
  <2>1. m \in Kids(kids, q) <=> par[m] = q
      BY <1>1 DEF Linked
  <2>2. Kids(K, q) = IF q = p THEN Kids(kids, p) \cup ToSet(ns) ELSE Kids(kids, q)
      BY <1>2, <1>5, <1>8 DEF Kids
  <2> QED
      BY <1>7, <2>1, <2>2, NotNone
<1>10. \A q \in AllNodes : IsInjective(K[q])
    BY <1>1, <1>5, <1>8
<1>11. \E h \in [AllNodes -> Nat] : Ranked(P, h)
  <2>1. PICK h \in [AllNodes -> Nat] : Ranked(par, h)
      BY DEF IsTree
  <2> DEFINE g == [m \in AllNodes |-> IF m \in moved THEN h[m] + h[p] + 1 ELSE h[m]]
  <2>2. p \notin moved
      OBVIOUS
  <2>3. \A m \in Nodes : m \in ToSet(ns) => m \in moved
      BY <1>1, NotNone, BelowFacts
  <2>4. \A m \in Nodes \ ToSet(ns) : m \in moved <=> par[m] \in moved
    <3>1. \A n \in ToSet(ns) : n \in AllNodes
        BY <1>3, NotNone
    <3>2. \A m \in Nodes \ ToSet(ns), n \in ToSet(ns) :
              m \in Below(kids, n) <=> par[m] \in Below(kids, n)
        BY <3>1, BelowLinks
    <3> QED
        BY <3>2
  <2> HIDE DEF moved
  <2>5. g \in [AllNodes -> Nat]
      OBVIOUS
  <2>6. ASSUME NEW m \in Nodes, P[m] # None PROVE g[P[m]] < g[m]
    <3>1. m \in AllNodes /\ P[m] \in AllNodes
        BY <1>6, <2>6, NotNone DEF ParentMaps, Option
    <3>2. h[m] \in Nat /\ h[p] \in Nat /\ h[P[m]] \in Nat
        BY <3>1
    <3>3. CASE m \in ToSet(ns)
        BY <1>7, <2>2, <2>3, <3>1, <3>2, <3>3
    <3>4. CASE m \notin ToSet(ns)
      <4>1. P[m] = par[m] /\ h[P[m]] < h[m]
          BY <1>7, <2>1, <2>6, <3>4 DEF Ranked
      <4>2. m \in moved <=> P[m] \in moved
          BY <2>4, <3>4, <4>1
      <4> QED
          BY <3>1, <3>2, <4>1, <4>2
    <3> QED
        BY <3>3, <3>4
  <2> HIDE DEF g
  <2>7. Ranked(P, g)
      BY <2>6 DEF Ranked
  <2> QED
      BY <2>5, <2>7
<1> QED
    BY <1>6, <1>9, <1>10, <1>11 DEF IsTree, P, K

(* The whole subtree of a node that is there is there.                     *)
LEMMA BelowIsLive ==
    ASSUME NEW par, NEW kids, IsTree(par, kids), NEW live,
           \A m \in Nodes : par[m] # None => m \in live, NEW n \in Nodes, n \in live
    PROVE  Below(kids, n) \subseteq live
<1>1. n \in AllNodes /\ kids \in ChildLists
    BY NotNone DEF IsTree
<1>2. \A m \in Below(kids, n) \ {n} : m \in Nodes /\ par[m] \in Below(kids, n)
    BY <1>1, BelowLinks
<1>3. Below(kids, n) \in SUBSET AllNodes
    BY <1>1, BelowFacts
<1> QED
    BY <1>2, <1>3, NotNone

(* Some of the links of a tree.                                            *)
CutFrom(cut, par) == \A m \in Nodes : cut[m] \in {None, par[m]}

IsAdopted(par, kids, apart, n, p, u, v) ==
    /\ v \in Documents /\ v.children = kids
    /\ v.parent = [u.parent EXCEPT ![n] = p]
    /\ Flags(par, v.in_document, apart \ {n})
    /\ Refers(v) /\ Keeps(u, v)

LEMMA AdoptedFacts ==
    ASSUME NEW par, NEW kids, IsTree(par, kids), NEW u \in Documents, u.children = kids,
           CutFrom(u.parent, par),
           NEW n \in Nodes, NEW p \in AllNodes, par[n] = p, NEW apart,
           Flags(par, u.in_document, apart), Refers(u), Below(kids, n) \subseteq u.live
    PROVE  IsAdopted(par, kids, apart, n, p, u, Adopted(u, p, n))
<1> DEFINE v == Adopted(u, p, n)
           cut == [u.parent EXCEPT ![n] = p]
           linked == [u EXCEPT !.parent = cut]
<1>0. u.parent \in ParentMaps /\ kids \in ChildLists /\ u.in_document \in SUBSET AllNodes
    BY FieldTypes
<1>1. \A m \in Nodes : cut[m] = IF m = n THEN p ELSE u.parent[m]
    BY <1>0 DEF ParentMaps
<1>2. cut \in ParentMaps
    BY <1>0 DEF ParentMaps, Option
<1>3. linked = [u EXCEPT !.parent[n] = p]
    BY DEF Documents
<1> HIDE DEF cut, IsAdopted
<1>4. /\ linked \in Documents /\ linked.parent = cut /\ linked.children = kids
      /\ linked.in_document = u.in_document
      /\ linked.hover = u.hover /\ linked.focus = u.focus
      /\ linked.nodes_to_stylesheet = u.nodes_to_stylesheet /\ linked.nodes_to_id = u.nodes_to_id
      /\ linked.live = u.live /\ linked.unused = u.unused
      /\ linked.id = u.id /\ linked.paint_children = u.paint_children
      /\ linked.style_nodes = u.style_nodes
    BY <1>2 DEF Documents, ParentMaps
<1>5. v = CASE p \in u.in_document /\ n \notin u.in_document -> ProcessAdded(linked, n)
            [] p \notin u.in_document /\ n \in u.in_document -> ProcessRemoved(linked, n)
            [] OTHER -> linked
    BY <1>3 DEF Adopted
<1> HIDE DEF linked
<1>6. Refers(linked) /\ Keeps(u, linked)
    BY <1>4 DEF Refers, Indexed, Keeps
<1>7. CASE p \in u.in_document /\ n \notin u.in_document
  <2> DEFINE added == Below(kids, n)
             ids == [i \in Ids |-> linked.nodes_to_id[i] \cup {m \in added : linked.id[m] = i}]
             styles == linked.style_nodes \cup {m \in added : Kind[m] = "style"}
             w == [linked EXCEPT !.in_document = @ \cup added, !.nodes_to_id = ids, !.style_nodes = styles]
  <2>1. added = Subtree(linked, n)
      BY <1>4, BelowIsSubtree
  <2>2. v = w
      BY <1>4, <1>5, <1>7, <2>1 DEF ProcessAdded, Documents
  <2>3. added \in SUBSET Nodes /\ n \in AllNodes
      BY <1>0, NotNone, BelowFacts
  <2> HIDE DEF added
  <2>4. ids \in [Ids -> SUBSET Nodes] /\ styles \in SUBSET Nodes
      BY <1>4, <2>3, FieldTypes
  <2>5. linked.style_nodes \subseteq styles /\ styles \subseteq linked.style_nodes \cup Styles(u.live)
      BY DEF added, Styles
  <2>5a. \A i \in Ids : ids[i] = linked.nodes_to_id[i] \cup {m \in added : linked.id[m] = i}
      OBVIOUS
  <2> HIDE DEF ids, styles
  <2>6. /\ w \in Documents /\ w.parent = linked.parent /\ w.children = linked.children
        /\ w.in_document = linked.in_document \cup added
        /\ w.hover = linked.hover /\ w.focus = linked.focus
        /\ w.nodes_to_stylesheet = linked.nodes_to_stylesheet
        /\ w.live = linked.live /\ w.unused = linked.unused
        /\ w.id = linked.id /\ w.paint_children = linked.paint_children
        /\ w.style_nodes = styles /\ w.nodes_to_id = ids
      BY <1>4, <2>3, <2>4, NotNone DEF Documents
  <2> HIDE DEF w
  <2>7. Flags(par, w.in_document, apart \ {n})
    <3>1. Flags(par, u.in_document \cup Below(kids, n), apart \ {n})
        BY <1>0, <1>7, FlagsAdded
    <3> QED
        BY <1>4, <2>6, <3>1 DEF added
  <2>8. added \subseteq u.live
      BY DEF added
  <2>9. Indexed(w)
      BY <1>6, <2>3, <2>5a, <2>6 DEF Refers, Indexed
  <2>10. Refers(w) /\ Keeps(u, w)
      BY <1>4, <1>6, <2>5, <2>6, <2>8, <2>9 DEF Refers, Keeps
  <2> QED
      BY <1>4, <2>2, <2>6, <2>7, <2>10 DEF cut, IsAdopted
<1>8. CASE p \notin u.in_document /\ n \in u.in_document
  <2> DEFINE w == ProcessRemoved(linked, n)
  <2>1. v = w
      BY <1>5, <1>8
  <2>2. PICK h \in [AllNodes -> Nat] : Ranked(par, h)
      BY DEF IsTree
  <2>3. Ranked(linked.parent, h)
    <3> SUFFICES ASSUME NEW m \in Nodes, cut[m] # None PROVE h[cut[m]] < h[m]
        BY <1>4 DEF Ranked
    <3>1. cut[m] = par[m]
        BY <1>1 DEF CutFrom
    <3> QED
        BY <2>2, <3>1 DEF Ranked
  <2>4. n \in AllNodes
      BY NotNone
  <2>5. /\ w \in Documents
        /\ w.parent = linked.parent /\ w.children = linked.children
        /\ w.live = linked.live /\ w.unused = linked.unused /\ w.id = linked.id
        /\ w.paint_children = linked.paint_children /\ w.style_nodes = linked.style_nodes
        /\ w.in_document = linked.in_document \ Below(linked.children, n)
        /\ Refers(w)
      BY <1>4, <1>6, <2>3, <2>4, ProcessRemovedFacts
  <2> HIDE DEF w
  <2>6. Flags(par, u.in_document \ Below(kids, n), apart \ {n})
      BY <1>0, <1>8, FlagsRemoved
  <2>7. Keeps(u, w)
      BY <1>4, <2>5 DEF Keeps
  <2> QED
      BY <1>4, <2>1, <2>5, <2>6, <2>7 DEF cut, IsAdopted
<1>9. CASE p \in u.in_document <=> n \in u.in_document
  <2>1. v = linked
      BY <1>5, <1>9
  <2>2. Flags(par, u.in_document, apart \ {n})
      BY <1>9 DEF Flags
  <2> QED
      BY <1>4, <1>6, <2>1, <2>2 DEF cut, IsAdopted
<1> QED
    BY <1>7, <1>8, <1>9

(* Cutting links takes nothing but nodes from what is below.               *)
LEMMA BelowShrinks ==
    ASSUME NEW par, NEW kids, IsTree(par, kids), NEW cut, NEW left, IsTree(cut, left),
           CutFrom(cut, par), NEW n \in AllNodes
    PROVE  Below(left, n) \subseteq Below(kids, n)
<1> DEFINE B == Below(kids, n)
<1>1. kids \in ChildLists /\ left \in ChildLists /\ Linked(par, kids) /\ Linked(cut, left)
    BY DEF IsTree
<1>2. B \in SUBSET AllNodes /\ n \in B /\ \A m \in B : Kids(kids, m) \subseteq B
    BY <1>1, BelowFacts
<1>3. ASSUME NEW m \in B, NEW c \in Kids(left, m) PROVE c \in B
  <2>1. m \in AllNodes /\ c \in Nodes
      BY <1>1, <1>2, <1>3, KidsAreNodes
  <2>2. cut[c] = m /\ m # None
      BY <1>1, <1>3, <2>1, NotNone DEF Linked
  <2>3. c \in Kids(kids, m)
      BY <1>1, <2>1, <2>2 DEF Linked, CutFrom
  <2> QED
      BY <1>2, <1>3, <2>3
<1>4. \A m \in B : Kids(left, m) \subseteq B
    BY <1>3
<1> HIDE DEF B
<1>5. Below(left, n) \subseteq B
    BY <1>1, <1>2, <1>4, BelowFacts
<1> QED
    BY <1>5 DEF B

Later(ns, k) == {ns[j] : j \in k + 1..Len(ns)}
Pending(par, ns, k) == [m \in Nodes |-> IF m \in Later(ns, k) THEN None ELSE par[m]]
AdoptAll(t, p, ns) == Folded(LAMBDA u, n : Adopted(u, p, n), t, ns)

LEMMA LaterNext ==
    ASSUME NEW ns \in Seq(Nodes), IsInjective(ns), NEW k \in 1..Len(ns)
    PROVE  /\ ns[k] \in Nodes /\ ns[k] \in ToSet(ns)
           /\ Later(ns, k) = Later(ns, k - 1) \ {ns[k]}
           /\ Later(ns, 0) = ToSet(ns) /\ Later(ns, Len(ns)) = {}
<1>1. Len(ns) \in Nat /\ DOMAIN ns = 1..Len(ns) /\ k \in Int
    OBVIOUS
<1>2. \A j \in k - 1 + 1..Len(ns) : j = k \/ j \in k + 1..Len(ns)
    BY <1>1
<1>3. \A j \in k + 1..Len(ns) : ns[j] # ns[k] /\ j \in k - 1 + 1..Len(ns)
    BY <1>1 DEF IsInjective
<1>4. k \in k - 1 + 1..Len(ns)
    BY <1>1
<1>5. Later(ns, k) = Later(ns, k - 1) \ {ns[k]}
  <2>1. \A x : x \in Later(ns, k) <=> \E j \in k + 1..Len(ns) : x = ns[j]
      BY DEF Later
  <2>2. \A x : x \in Later(ns, k - 1) <=> \E j \in k - 1 + 1..Len(ns) : x = ns[j]
      BY DEF Later
  <2>3. \A x \in Later(ns, k) : x \in Later(ns, k - 1) /\ x # ns[k]
      BY <1>3, <2>1, <2>2
  <2>4. \A x \in Later(ns, k - 1) : x # ns[k] => x \in Later(ns, k)
      BY <1>2, <2>1, <2>2
  <2> QED
      BY <2>3, <2>4
<1>6. Later(ns, 0) = ToSet(ns)
    BY <1>1 DEF Later, ToSet
<1>7. Later(ns, Len(ns)) = {}
    BY <1>1 DEF Later
<1> QED
    BY <1>1, <1>5, <1>6, <1>7 DEF ToSet

AdoptedFrom(t, par, kids, ns, k) ==
    {u \in Documents :
        /\ u.children = kids /\ u.parent = Pending(par, ns, k)
        /\ Flags(par, u.in_document, Later(ns, k))
        /\ Refers(u) /\ Keeps(t, u)}

(* These nodes have this parent, and what is below them is there.          *)
Arrive(par, kids, p, ns, live) == \A n \in ToSet(ns) : par[n] = p /\ Below(kids, n) \subseteq live

LEMMA AdoptedNext ==
    ASSUME NEW t \in Documents, NEW par, NEW kids, IsTree(par, kids), NEW p \in AllNodes,
           NEW ns \in Seq(Nodes), IsInjective(ns),
           Arrive(par, kids, p, ns, t.live),
           NEW k \in 1..Len(ns), NEW u \in AdoptedFrom(t, par, kids, ns, k - 1)
    PROVE  Adopted(u, p, ns[k]) \in AdoptedFrom(t, par, kids, ns, k)
<1>1. /\ ns[k] \in Nodes /\ ns[k] \in ToSet(ns)
      /\ Later(ns, k) = Later(ns, k - 1) \ {ns[k]}
    BY LaterNext
<1>2. PICK n \in Nodes : n = ns[k]
    BY <1>1
<1>3. PICK apart : apart = Later(ns, k - 1)
    OBVIOUS
<1>4. /\ u \in Documents /\ u.children = kids /\ u.parent = Pending(par, ns, k - 1)
      /\ Flags(par, u.in_document, apart)
      /\ Refers(u) /\ Keeps(t, u)
    BY <1>3 DEF AdoptedFrom
<1>5. CutFrom(u.parent, par)
    BY <1>4 DEF Pending, CutFrom
<1>6. par[n] = p /\ Below(kids, n) \subseteq u.live
    BY <1>1, <1>2, <1>4 DEF Keeps, Arrive
<1>7. IsAdopted(par, kids, apart, n, p, u, Adopted(u, p, n))
    BY <1>4, <1>5, <1>6, AdoptedFacts
<1> DEFINE v == Adopted(u, p, n)
<1>8. /\ v \in Documents /\ v.children = kids
      /\ v.parent = [u.parent EXCEPT ![n] = p]
      /\ Flags(par, v.in_document, apart \ {n})
      /\ Refers(v) /\ Keeps(u, v)
    BY <1>7 DEF IsAdopted
<1> HIDE DEF v
<1>9. v.parent = Pending(par, ns, k)
    BY <1>1, <1>2, <1>3, <1>4, <1>6, <1>8 DEF Pending
<1>10. Keeps(t, v)
    BY <1>4, <1>8, KeepsIsTransitive
<1> QED
    BY <1>1, <1>2, <1>3, <1>8, <1>9, <1>10 DEF AdoptedFrom, v

LEMMA AdoptAllFacts ==
    ASSUME NEW t \in Documents, NEW par, NEW kids, IsTree(par, kids), NEW p \in AllNodes,
           NEW ns \in Seq(Nodes), IsInjective(ns),
           Arrive(par, kids, p, ns, t.live),
           t \in AdoptedFrom(t, par, kids, ns, 0)
    PROVE  AdoptAll(t, p, ns) \in AdoptedFrom(t, par, kids, ns, Len(ns))
<1> DEFINE N == Len(ns)
           Is(f) == f = [k \in 0..N |-> IF k = 0 THEN t ELSE Adopted(f[k - 1], p, ns[k])]
           R == [k \in 0..N |-> AdoptedFrom(t, par, kids, ns, k)]
           s == [k \in 1..N |-> [u \in R[k - 1] |-> Adopted(u, p, ns[k])]]
           F == CHOOSE f : Is(f)
<1>0. N \in Nat
    OBVIOUS
<1>1. AdoptAll(t, p, ns) = F[N]
    BY DEF AdoptAll, Folded
<1>2. \A k \in 0..N : R[k] = AdoptedFrom(t, par, kids, ns, k)
    OBVIOUS
<1>3. t \in R[0]
    BY <1>0, <1>2
<1>4. ASSUME NEW k \in 1..N, NEW u \in R[k - 1] PROVE Adopted(u, p, ns[k]) \in R[k]
  <2>1. k - 1 \in 0..N /\ k \in 0..N
      BY <1>0
  <2>2. u \in AdoptedFrom(t, par, kids, ns, k - 1)
      BY <1>2, <2>1
  <2>3. Adopted(u, p, ns[k]) \in AdoptedFrom(t, par, kids, ns, k)
      BY <2>2, AdoptedNext
  <2> QED
      BY <1>2, <2>1, <2>3
<1>5. \A k \in 1..N : \A u \in R[k - 1] : s[k][u] = Adopted(u, p, ns[k])
    OBVIOUS
<1> HIDE DEF R, s, N
<1>6. PICK f : IsFoldOf(f, N, t, s) /\ \A k \in 0..N : f[k] \in R[k]
  <2>1. \A k \in 1..N : \A u \in R[k - 1] : s[k][u] \in R[k]
      BY <1>4, <1>5
  <2> QED
      BY <1>0, <1>3, <2>1, FoldThrough
<1>7. Is(f)
  <2>1. f = [k \in 0..N |-> IF k = 0 THEN t ELSE s[k][f[k - 1]]]
      BY <1>6 DEF IsFoldOf
  <2>2. ASSUME NEW k \in 0..N, k # 0 PROVE s[k][f[k - 1]] = Adopted(f[k - 1], p, ns[k])
    <3>1. k \in 1..N /\ k - 1 \in 0..N
        BY <1>0, <2>2
    <3> QED
        BY <1>5, <1>6, <3>1
  <2> QED
      BY <2>1, <2>2
<1>8. Is(F)
    BY <1>7
<1> HIDE DEF F
<1>9. F[0] = t /\ \A k \in 1..N : F[k] = Adopted(F[k - 1], p, ns[k])
  <2>1. 0 \in 0..N /\ \A k \in 1..N : k \in 0..N /\ k # 0
      BY <1>0
  <2> QED
      BY <1>8, <2>1
<1> HIDE DEF Is
<1>10. \A k \in 1..N : F[k - 1] \in R[k - 1] => F[k] \in R[k]
    BY <1>4, <1>9
<1>11. F[N] \in R[N]
  <2>1. F[0] \in R[0]
      BY <1>3, <1>9
  <2>2. \A k \in 0..N : F[k] \in R[k]
      BY <1>0, <1>10, <2>1, FoldStays
  <2> QED
      BY <1>0, <2>2
<1> QED
    BY <1>0, <1>1, <1>2, <1>11 DEF N

(* A sound document in which nodes were moved: none made, none dropped.    *)
Moved(t, u, par) == Sound(u) /\ Keeps(t, u) /\ u.parent = par

(* Nodes may go to this place: the parent is there and not below them, and *)
(* the anchor is a child of it that does not move itself.                  *)
Fits(t, p, ns, anchor) ==
    /\ p \in AllNodes /\ p \in t.live \cup {Document}
    /\ ns \in Seq(Nodes) /\ IsInjective(ns) /\ ToSet(ns) \subseteq t.live
    /\ \A n \in ToSet(ns) : p \notin Below(t.children, n)
    /\ anchor = None \/ (anchor \in Nodes /\ t.parent[anchor] = p /\ anchor \notin ToSet(ns))

LEMMA SequenceElements ==
    ASSUME NEW ns \in Seq(Nodes)
    PROVE  /\ ToSet(ns) \in SUBSET Nodes
           /\ \A m : m \in ToSet(ns) <=> \E j \in 1..Len(ns) : ns[j] = m
<1>1. DOMAIN ns = 1..Len(ns)
    OBVIOUS
<1> QED
    BY <1>1 DEF ToSet

LEMMA UnlinkAllIsLinkage ==
    ASSUME NEW t, Sound(t), NEW p, NEW ns, NEW anchor, Fits(t, p, ns, anchor)
    PROVE  LET u == UnlinkAll(t, ns)
           IN  /\ Linkage(u) /\ SameOtherwise(t, u) /\ u \in Documents
               /\ u.parent = [m \in Nodes |-> IF m \in ToSet(ns) THEN None ELSE t.parent[m]]
               /\ \A n \in ToSet(ns) : u.parent[n] = None /\ p \notin Below(u.children, n)
               /\ anchor = None \/ anchor \in Kids(u.children, p)
<1> DEFINE u == UnlinkAll(t, ns)
<1>1. /\ ns \in Seq(Nodes) /\ p \in AllNodes /\ Linkage(t)
      /\ t.parent \in ParentMaps
    BY FieldTypes DEF Fits, Sound, Linkage
<1>2. Linkage(u) /\ u.parent = Cleared(t.parent, ns, Len(ns)) /\ SameOtherwise(t, u)
    BY <1>1, UnlinkAllFacts
<1> HIDE DEF u
<1>3. ToSet(ns) \in SUBSET Nodes /\ \A m : m \in ToSet(ns) <=> \E j \in 1..Len(ns) : ns[j] = m
    BY <1>1, SequenceElements
<1>4. u.parent = [m \in Nodes |-> IF m \in ToSet(ns) THEN None ELSE t.parent[m]]
    BY <1>2, <1>3 DEF Cleared
<1>5. CutFrom(u.parent, t.parent)
    BY <1>4 DEF CutFrom
<1>6. ASSUME NEW n \in ToSet(ns) PROVE u.parent[n] = None /\ p \notin Below(u.children, n)
  <2>1. n \in Nodes /\ n \in AllNodes
      BY <1>3, NotNone
  <2>2. Below(u.children, n) \subseteq Below(t.children, n)
      BY <1>1, <1>2, <1>5, <2>1, BelowShrinks DEF Linkage
  <2> QED
      BY <1>4, <2>1, <2>2 DEF Fits
<1>7. ASSUME anchor # None PROVE anchor \in Kids(u.children, p)
  <2>1. anchor \in Nodes /\ u.parent[anchor] = p
      BY <1>4, <1>7 DEF Fits
  <2> QED
      BY <1>1, <1>2, <2>1 DEF Linkage, IsTree, Linked
<1> QED
    BY <1>2, <1>4, <1>6, <1>7 DEF Linkage, u

LEMMA InsertNodesIsSound ==
    ASSUME NEW t, Sound(t), NEW p, NEW ns, NEW anchor, Fits(t, p, ns, anchor)
    PROVE  Moved(t, InsertNodes(t, p, ns, anchor), Placed(t.parent, p, ns))
<1> DEFINE cut == UnlinkAll(t, ns)
           P == Placed(t.parent, p, ns)
           K == PlacedKids(cut.children, p, anchor, ns)
           inserted == [cut EXCEPT !.children = K]
           adopted == AdoptAll(inserted, p, ns)
           u == InsertNodes(t, p, ns, anchor)
<1>1. /\ p \in AllNodes /\ p \in t.live \cup {Document}
      /\ ns \in Seq(Nodes) /\ IsInjective(ns) /\ ToSet(ns) \subseteq t.live
      /\ t \in Documents /\ Lives(t) /\ Refers(t) /\ Flags(t.parent, t.in_document, {})
    BY DEF Fits, Sound
<1>2. /\ Linkage(cut) /\ SameOtherwise(t, cut) /\ cut \in Documents
      /\ cut.parent = [m \in Nodes |-> IF m \in ToSet(ns) THEN None ELSE t.parent[m]]
      /\ \A n \in ToSet(ns) : cut.parent[n] = None /\ p \notin Below(cut.children, n)
      /\ anchor = None \/ anchor \in Kids(cut.children, p)
    BY UnlinkAllIsLinkage
<1>3. ToSet(ns) \in SUBSET Nodes /\ \A m : m \in ToSet(ns) <=> \E j \in 1..Len(ns) : ns[j] = m
    BY <1>1, SequenceElements
<1>4. u = Recorded(adopted, p)
  <2>1. inserted = [cut EXCEPT !.children[p] = Spliced(@, anchor, ns)]
      BY <1>2 DEF PlacedKids, Documents
  <2> HIDE DEF inserted
  <2> QED
      BY <2>1 DEF InsertNodes, UnlinkAll, AdoptAll
<1> HIDE DEF cut, u
<1>5. IsTree(P, K)
  <2>1. IsTree(Placed(cut.parent, p, ns), K)
      BY <1>1, <1>2, PlacedTree DEF Linkage
  <2>2. Placed(cut.parent, p, ns) = P
      BY <1>2 DEF Placed
  <2> QED
      BY <2>1, <2>2
<1>6. \A m \in Nodes : P[m] = IF m \in ToSet(ns) THEN p ELSE t.parent[m]
    BY DEF Placed
<1> HIDE DEF P, K
<1>7. \A m \in Nodes : P[m] # None => m \in t.live /\ P[m] \in t.live \cup {Document}
    BY <1>1, <1>6 DEF Lives
<1>8. /\ inserted \in Documents /\ inserted.children = K /\ inserted.parent = cut.parent
      /\ inserted.in_document = cut.in_document
      /\ inserted.hover = cut.hover /\ inserted.focus = cut.focus
      /\ inserted.nodes_to_stylesheet = cut.nodes_to_stylesheet /\ inserted.nodes_to_id = cut.nodes_to_id
      /\ inserted.live = cut.live /\ inserted.unused = cut.unused
      /\ inserted.id = cut.id /\ inserted.paint_children = cut.paint_children
      /\ inserted.style_nodes = cut.style_nodes
  <2>1. K \in ChildLists
      BY <1>5 DEF IsTree
  <2> QED
      BY <1>2, <2>1 DEF Documents, ChildLists
<1> HIDE DEF inserted
<1>9. Keeps(t, inserted) /\ Refers(inserted)
    BY <1>1, <1>2, <1>8 DEF Keeps, SameOtherwise, Refers, Indexed
<1>10. Arrive(P, K, p, ns, inserted.live)
  <2> SUFFICES ASSUME NEW n \in ToSet(ns) PROVE P[n] = p /\ Below(K, n) \subseteq t.live
      BY <1>9 DEF Arrive, Keeps
  <2>1. n \in Nodes /\ n \in t.live
      BY <1>1, <1>3
  <2>2. \A m \in Nodes : P[m] # None => m \in t.live
      BY <1>7
  <2>3. Below(K, n) \subseteq t.live
      BY <1>5, <2>1, <2>2, BelowIsLive
  <2> QED
      BY <1>6, <2>1, <2>3
<1>11. Later(ns, 0) = ToSet(ns) /\ Later(ns, Len(ns)) = {}
  <2>1. DOMAIN ns = 1..Len(ns) /\ Len(ns) \in Nat
      BY <1>1
  <2>2. 0 + 1 = 1 /\ Len(ns) + 1..Len(ns) = {}
      BY <2>1
  <2> QED
      BY <2>1, <2>2 DEF Later, ToSet
<1>12. inserted \in AdoptedFrom(inserted, P, K, ns, 0)
  <2>1. inserted.parent = Pending(P, ns, 0)
      BY <1>2, <1>6, <1>8, <1>11 DEF Pending
  <2>2. Flags(P, inserted.in_document, Later(ns, 0))
      BY <1>1, <1>2, <1>6, <1>8, <1>11 DEF Flags, SameOtherwise
  <2>3. Keeps(inserted, inserted)
      BY DEF Keeps
  <2> QED
      BY <1>8, <1>9, <2>1, <2>2, <2>3 DEF AdoptedFrom
<1>13. adopted \in AdoptedFrom(inserted, P, K, ns, Len(ns))
    BY <1>1, <1>5, <1>8, <1>10, <1>12, AdoptAllFacts
<1> HIDE DEF adopted
<1>14. /\ adopted \in Documents /\ adopted.children = K /\ adopted.parent = P
       /\ Flags(P, adopted.in_document, {})
       /\ Refers(adopted) /\ Keeps(t, adopted)
  <2>1. Pending(P, ns, Len(ns)) = P
      BY <1>5, <1>11 DEF Pending, IsTree, ParentMaps
  <2> QED
      BY <1>9, <1>11, <1>13, <2>1, KeepsIsTransitive DEF AdoptedFrom
<1>15. p \in adopted.live \cup {Document}
    BY <1>1, <1>14 DEF Keeps
<1>16. /\ u \in Documents
       /\ u.parent = P /\ u.children = K
       /\ u.in_document = adopted.in_document
       /\ u.hover = adopted.hover /\ u.focus = adopted.focus
       /\ u.nodes_to_stylesheet = adopted.nodes_to_stylesheet /\ u.nodes_to_id = adopted.nodes_to_id
       /\ Keeps(adopted, u)
    BY <1>1, <1>4, <1>14, <1>15, RecordedFacts
<1>17. Keeps(t, u)
    BY <1>14, <1>16, KeepsIsTransitive
<1>18. Lives(u) /\ Refers(u)
    BY <1>1, <1>7, <1>14, <1>16, <1>17 DEF Lives, Keeps, Refers, Indexed
<1> QED
    BY <1>5, <1>14, <1>16, <1>17, <1>18 DEF Moved, Sound, u, P

-----------------------------------------------------------------------------
(* Sequences of moves.                                                     *)

Without(par, S) == [m \in Nodes |-> IF m \in S THEN None ELSE par[m]]

LEMMA RemoveNodeMoves ==
    ASSUME NEW t, Sound(t), NEW n \in Nodes
    PROVE  Moved(t, RemoveNode(t, n), Without(t.parent, {n}))
<1>1. t.parent \in ParentMaps
    BY FieldTypes DEF Sound
<1>2. [t.parent EXCEPT ![n] = None] = Without(t.parent, {n})
    BY <1>1 DEF Without, ParentMaps
<1> QED
    BY <1>2, RemoveNodeIsSound DEF Moved

LEMMA DetachAllMoves ==
    ASSUME NEW t, Sound(t), NEW ns \in Seq(Nodes)
    PROVE  Moved(t, DetachAll(t, ns), Without(t.parent, ToSet(ns)))
<1>1. \A m : m \in ToSet(ns) <=> \E j \in 1..Len(ns) : ns[j] = m
    BY SequenceElements
<1>2. Cleared(t.parent, ns, Len(ns)) = Without(t.parent, ToSet(ns))
    BY <1>1 DEF Cleared, Without
<1> QED
    BY <1>2, DetachAllIsSound DEF Moved

LEMMA RemoveChildrenMoves ==
    ASSUME NEW t, Sound(t), NEW p \in AllNodes
    PROVE  /\ Moved(t, RemoveChildren(t, p), Without(t.parent, ToSet(t.children[p])))
           /\ RemoveChildren(t, p).children[p] = <<>>
<1>1. t.children \in ChildLists /\ Linked(t.parent, t.children)
    BY FieldTypes DEF Sound, IsTree
<1>2. \A m \in Nodes : m \in ToSet(t.children[p]) <=> t.parent[m] = p
    BY <1>1 DEF Linked, Kids
<1>3. [m \in Nodes |-> IF t.parent[m] = p THEN None ELSE t.parent[m]]
          = Without(t.parent, ToSet(t.children[p]))
    BY <1>2 DEF Without
<1> QED
    BY <1>3, RemoveChildrenIsSound DEF Moved

LEMMA WithoutCuts ==
    \A par, S : CutFrom(Without(par, S), par)
BY DEF CutFrom, Without

(* What fits a place still does when links are cut, and the anchor may be  *)
(* any child of the place that does not move.                              *)
LEMMA StillFits ==
    ASSUME NEW t, Sound(t), NEW u, Sound(u), u.live = t.live, CutFrom(u.parent, t.parent),
           NEW p, NEW ns, Fits(t, p, ns, None)
    PROVE  /\ Fits(u, p, ns, None)
           /\ \A anchor \in Nodes : u.parent[anchor] = p /\ anchor \notin ToSet(ns)
                                        => Fits(u, p, ns, anchor)
<1>1. /\ p \in AllNodes /\ p \in t.live \cup {Document}
      /\ ns \in Seq(Nodes) /\ IsInjective(ns) /\ ToSet(ns) \subseteq t.live
      /\ \A n \in ToSet(ns) : p \notin Below(t.children, n)
    BY DEF Fits
<1>2. ToSet(ns) \in SUBSET Nodes
    BY <1>1, SequenceElements
<1>3. ASSUME NEW n \in ToSet(ns) PROVE p \notin Below(u.children, n)
  <2>1. n \in AllNodes
      BY <1>2, NotNone
  <2>2. Below(u.children, n) \subseteq Below(t.children, n)
      BY <2>1, BelowShrinks DEF Sound
  <2> QED
      BY <1>1, <2>2
<1> QED
    BY <1>1, <1>3 DEF Fits

LEMMA FirstChildFacts ==
    ASSUME NEW t, Sound(t), NEW p \in AllNodes
    PROVE  FirstChild(t, p) = None
           \/ (FirstChild(t, p) \in Nodes /\ t.parent[FirstChild(t, p)] = p)
<1>1. t.children \in ChildLists /\ Linked(t.parent, t.children)
    BY FieldTypes DEF Sound, IsTree
<1>2. t.children[p] \in Seq(Nodes)
    BY <1>1 DEF ChildLists
<1>3. CASE t.children[p] # <<>>
  <2>1. Head(t.children[p]) = t.children[p][1] /\ 1 \in DOMAIN t.children[p]
      BY <1>2, <1>3
  <2>2. Head(t.children[p]) \in Kids(t.children, p)
      BY <2>1 DEF Kids, ToSet
  <2>3. Kids(t.children, p) \in SUBSET Nodes
      BY <1>1, KidsAreNodes
  <2> QED
      BY <1>1, <1>3, <2>2, <2>3 DEF FirstChild, Linked
<1> QED
    BY <1>3 DEF FirstChild

(* Both searches for a sibling answer a child of the same parent that is   *)
(* not in the list.                                                        *)
IsSibling(t, anchor, ns, m) ==
    m = None \/ (m \in Nodes /\ t.parent[m] = t.parent[anchor] /\ m \notin ToSet(ns))

LEMMA SiblingPiece ==
    ASSUME NEW t, Sound(t), NEW anchor \in Nodes, t.parent[anchor] # None,
           NEW ns, NEW lo \in 1..Len(t.children[t.parent[anchor]]) + 1,
           NEW hi \in 0..Len(t.children[t.parent[anchor]])
    PROVE  LET out == Filtered(SubSeq(t.children[t.parent[anchor]], lo, hi), Nodes \ ToSet(ns))
           IN  /\ out # <<>> => IsSibling(t, anchor, ns, Head(out))
               /\ out # <<>> => IsSibling(t, anchor, ns, Last(out))
<1>1. /\ t.children \in ChildLists /\ Linked(t.parent, t.children)
      /\ t.parent \in ParentMaps
    BY FieldTypes DEF Sound, IsTree
<1>2. PICK p \in AllNodes : p = t.parent[anchor]
    BY <1>1 DEF ParentMaps, Option
<1>3. PICK siblings \in Seq(Nodes) : siblings = t.children[p]
    BY <1>1 DEF ChildLists
<1>4. \A m \in Nodes : m \in ToSet(siblings) <=> t.parent[m] = p
    BY <1>1, <1>3 DEF Linked, Kids
<1>5. lo \in 1..Len(siblings) + 1 /\ hi \in 0..Len(siblings)
    BY <1>2, <1>3
<1>6. PICK piece \in Seq(Nodes) : piece = SubSeq(siblings, lo, hi)
    BY <1>5, Pieces
<1>7. ToSet(piece) \subseteq ToSet(siblings)
  <2>1. ToSet(piece) = {siblings[i] : i \in lo..hi}
      BY <1>5, <1>6, Pieces
  <2>2. \A i \in lo..hi : i \in DOMAIN siblings
      BY <1>5
  <2> QED
      BY <2>1, <2>2 DEF ToSet
<1>8. PICK out : out = Filtered(piece, Nodes \ ToSet(ns))
    OBVIOUS
<1>9. out \in Seq(Nodes) /\ ToSet(out) = ToSet(piece) \cap (Nodes \ ToSet(ns))
    BY <1>8, FilteredSet
<1>10. \A m \in ToSet(out) : IsSibling(t, anchor, ns, m)
    BY <1>2, <1>4, <1>7, <1>9 DEF IsSibling
<1>11. ASSUME out # <<>> PROVE Head(out) \in ToSet(out) /\ Last(out) \in ToSet(out)
  <2>1. /\ Head(out) = out[1] /\ Last(out) = out[Len(out)]
        /\ 1 \in DOMAIN out /\ Len(out) \in DOMAIN out
      BY <1>9, <1>11 DEF Last
  <2> QED
      BY <2>1 DEF ToSet
<1> QED
    BY <1>2, <1>3, <1>6, <1>8, <1>10, <1>11

LEMMA ViableFacts ==
    ASSUME NEW t, Sound(t), NEW anchor \in Nodes, t.parent[anchor] # None, NEW ns
    PROVE  /\ IsSibling(t, anchor, ns, ViableNext(t, anchor, ns))
           /\ IsSibling(t, anchor, ns, ViablePrevious(t, anchor, ns))
<1> DEFINE siblings == t.children[t.parent[anchor]]
           at == SelectInSeq(siblings, LAMBDA m : m = anchor)
           after == Filtered(SubSeq(siblings, at + 1, Len(siblings)), Nodes \ ToSet(ns))
           before == Filtered(SubSeq(siblings, 1, at - 1), Nodes \ ToSet(ns))
<1>1. /\ t.children \in ChildLists /\ Linked(t.parent, t.children)
      /\ t.parent \in ParentMaps /\ \A q \in AllNodes : IsInjective(t.children[q])
    BY FieldTypes DEF Sound, IsTree
<1>2. t.parent[anchor] \in AllNodes
    BY <1>1 DEF ParentMaps, Option
<1>3. siblings \in Seq(Nodes) /\ IsInjective(siblings) /\ anchor \in ToSet(siblings)
    BY <1>1, <1>2 DEF ChildLists, Linked, Kids
<1>4. at \in 1..Len(siblings)
  <2>1. PICK list : list = siblings
      OBVIOUS
  <2>2. SelectInSeq(list, LAMBDA m : m = anchor) \in 1..Len(list)
      BY <1>3, <2>1, PlaceOf
  <2> QED
      BY <2>1, <2>2
<1> HIDE DEF at
<1>5. /\ at + 1 \in 1..Len(siblings) + 1 /\ Len(siblings) \in 0..Len(siblings)
      /\ 1 \in 1..Len(siblings) + 1 /\ at - 1 \in 0..Len(siblings)
    BY <1>3, <1>4
<1>6. after # <<>> => IsSibling(t, anchor, ns, Head(after))
    BY <1>5, SiblingPiece
<1>7. before # <<>> => IsSibling(t, anchor, ns, Last(before))
    BY <1>5, SiblingPiece
<1>8. ViableNext(t, anchor, ns) = IF after = <<>> THEN None ELSE Head(after)
    BY DEF ViableNext, at
<1>9. ViablePrevious(t, anchor, ns) = IF before = <<>> THEN None ELSE Last(before)
    BY DEF ViablePrevious, at
<1> QED
    BY <1>6, <1>7, <1>8, <1>9 DEF IsSibling

-----------------------------------------------------------------------------
(* A document that scripts drive.                                          *)

(* What the flush and the hit tests index is there, too.                   *)
Ready(t) ==
    /\ Sound(t)
    /\ t.style_nodes \subseteq Styles(t.live)
    /\ \A n \in AllNodes : t.paint_children[n] \subseteq t.live

(* A ready document made of t by moves that only cut and restore links.    *)
Moves(t, u) == Ready(u) /\ u.live = t.live /\ u.unused = t.unused /\ u.paint_children = t.paint_children

LEMMA MovedIsReady ==
    ASSUME NEW t, Ready(t), NEW u, NEW par, Moved(t, u, par)
    PROVE  Moves(t, u) /\ u.parent = par /\ Ready(u) /\ Sound(u) /\ u.live = t.live
BY DEF Moved, Ready, Moves, Keeps

LEMMA FlushedIsReady ==
    ASSUME NEW t, Ready(t)
    PROVE  Moves(t, Flushed(t)) /\ Flushed(t).parent = t.parent /\ Flushed(t).hover = t.hover
<1> DEFINE u == Flushed(t)
<1>1. t \in Documents /\ t.style_nodes \in SUBSET Nodes /\ t.nodes_to_stylesheet \in SUBSET Nodes
    BY FieldTypes DEF Ready, Sound
<1>2. u = [t EXCEPT !.nodes_to_stylesheet = @ \cup t.style_nodes, !.style_nodes = {}]
    BY DEF Flushed
<1> HIDE DEF u
<1>3. /\ u \in Documents /\ u.parent = t.parent /\ u.children = t.children
      /\ u.in_document = t.in_document /\ u.id = t.id /\ u.nodes_to_id = t.nodes_to_id
      /\ u.hover = t.hover /\ u.focus = t.focus
      /\ u.live = t.live /\ u.unused = t.unused /\ u.paint_children = t.paint_children
      /\ u.nodes_to_stylesheet = t.nodes_to_stylesheet \cup t.style_nodes /\ u.style_nodes = {}
    BY <1>1, <1>2 DEF Documents
<1>4. Lives(u) /\ Refers(u)
    BY <1>3 DEF Ready, Sound, Lives, Refers, Indexed, Styles
<1>5. Sound(u)
    BY <1>3, <1>4 DEF Ready, Sound
<1> QED
    BY <1>3, <1>5 DEF Ready, Moves, u

LEMMA MovesIsTransitive ==
    ASSUME NEW t, NEW u, NEW v, Moves(t, u), Moves(u, v) PROVE Moves(t, v)
BY DEF Moves

LEMMA ReadyMoves == ASSUME NEW t, Ready(t) PROVE Moves(t, t)
BY DEF Moves

(* What each method makes of a ready document.                             *)
LEMMA InsertMoves ==
    ASSUME NEW t, Ready(t), NEW p, NEW ns, NEW anchor, Fits(t, p, ns, anchor)
    PROVE  /\ Moves(t, InsertNodes(t, p, ns, anchor))
           /\ InsertNodes(t, p, ns, anchor).parent = Placed(t.parent, p, ns)
BY InsertNodesIsSound, MovedIsReady DEF Ready

LEMMA RemoveMoves ==
    ASSUME NEW t, Ready(t), NEW n \in Nodes
    PROVE  Moves(t, RemoveNode(t, n)) /\ RemoveNode(t, n).parent = Without(t.parent, {n})
BY RemoveNodeMoves, MovedIsReady DEF Ready

LEMMA DetachMoves ==
    ASSUME NEW t, Ready(t), NEW ns \in Seq(Nodes)
    PROVE  Moves(t, DetachAll(t, ns)) /\ DetachAll(t, ns).parent = Without(t.parent, ToSet(ns))
BY DetachAllMoves, MovedIsReady DEF Ready

LEMMA EmptyMoves ==
    ASSUME NEW t, Ready(t), NEW p \in AllNodes
    PROVE  /\ Moves(t, RemoveChildren(t, p))
           /\ RemoveChildren(t, p).parent = Without(t.parent, ToSet(t.children[p]))
           /\ RemoveChildren(t, p).children[p] = <<>>
BY RemoveChildrenMoves, MovedIsReady DEF Ready

(* The new list of a call, with what a fragment stands for: the links of   *)
(* its children are cut, and no others.                                    *)
InNewParent(t, u, new, ns, p) ==
    /\ Moves(t, u)
    /\ CutFrom(u.parent, t.parent)
    /\ \A m \in Nodes : m \notin ToSet(ns) => u.parent[m] = t.parent[m]
    /\ Fits(t, p, ns, None) /\ Fits(u, p, ns, None)
    /\ \A m \in Nodes : t.parent[m] = p => u.parent[m] = p /\ (m \notin ToSet(new) => m \notin ToSet(ns))

(* Lists a call may be given, in a form that holds of any document.        *)
MayInsert(t, p, new) ==
    /\ new \in Seq(Nodes) /\ new # <<>> /\ IsInjective(new) /\ ToSet(new) \subseteq t.live
    /\ \A n \in ToSet(new) : p \notin Subtree(t, n)

LEMMA InsertableFacts ==
    ASSUME Ready(dom), NEW p, NEW new \in Insertable(p)
    PROVE  MayInsert(dom, p, new) /\ new[1] \in ToSet(new)
<1>1. PICK k \in 1..MaxInserted : new \in [1..k -> dom.live]
    BY DEF Insertable
<1>2. IsInjective(new) /\ p \notin UNION {Subtree(dom, n) : n \in ToSet(new)}
    BY DEF Insertable
<1>3. dom.live \in SUBSET Nodes
    BY FieldTypes DEF Ready, Sound
<1>4. k \in Nat /\ k # 0
    BY <1>1, InsertedAssumption
<1>5. new \in Seq(dom.live) /\ Len(new) = k /\ DOMAIN new = 1..k
    BY <1>1, <1>4
<1>6. new \in Seq(Nodes) /\ new # <<>>
    BY <1>3, <1>4, <1>5
<1>7. ToSet(new) \subseteq dom.live /\ new[1] \in ToSet(new)
    BY <1>1, <1>4, <1>5 DEF ToSet
<1>8. \A n \in ToSet(new) : p \notin Subtree(dom, n)
    BY <1>2
<1> QED
    BY <1>2, <1>6, <1>7, <1>8 DEF MayInsert

LEMMA ExpandedFacts ==
    ASSUME NEW t, Ready(t), NEW p \in AllNodes, p \in t.live \cup {Document},
           NEW new, MayInsert(t, p, new)
    PROVE  InNewParent(t, Emptied(t, new), new, Expanded(t, new), p)
<1>0. Sound(t) /\ new \in Seq(Nodes) /\ new # <<>> /\ t.live \in SUBSET Nodes
    BY FieldTypes DEF Ready, Sound, MayInsert
<1>1. CASE Len(new) = 1 /\ Kind[Head(new)] = "fragment"
  <2>1. PICK f : f = Head(new)
      OBVIOUS
  <2>2. f \in ToSet(new)
    <3>1. 1 \in DOMAIN new /\ Head(new) = new[1]
        BY <1>0
    <3> QED
        BY <2>1, <3>1 DEF ToSet
  <2>3. f \in Nodes /\ f \in AllNodes /\ f \in t.live /\ p \notin Below(t.children, f)
      BY <1>0, <2>2, NotNone, BelowIsSubtree DEF MayInsert
  <2>4. PICK ns : ns = t.children[f]
      OBVIOUS
  <2>5. /\ t.children \in ChildLists /\ Linked(t.parent, t.children)
        /\ \A q \in AllNodes : IsInjective(t.children[q])
      BY <1>0, FieldTypes DEF Sound, IsTree
  <2>6. ns \in Seq(Nodes) /\ IsInjective(ns)
      BY <2>3, <2>4, <2>5 DEF ChildLists
  <2>7. \A n \in ToSet(ns) : n \in Nodes /\ n \in AllNodes /\ t.parent[n] = f
      BY <2>3, <2>4, <2>5, <2>6, SequenceElements, NotNone DEF Linked, Kids
  <2>8. ToSet(ns) \subseteq t.live
      BY <1>0, <2>3, <2>7, NotNone DEF Sound, Lives
  <2>9. ASSUME NEW n \in ToSet(ns) PROVE p \notin Below(t.children, n)
    <3>1. Below(t.children, f) \in SUBSET AllNodes /\ n \in Below(t.children, f)
        BY <2>3, <2>4, <2>5, BelowFacts DEF Kids
    <3>2. Below(t.children, n) \subseteq Below(t.children, f)
        BY <2>3, <2>5, <2>7, <3>1, BelowFacts
    <3> QED
        BY <2>3, <3>2
  <2>10. Fits(t, p, ns, None)
      BY <2>6, <2>8, <2>9 DEF Fits
  <2>11. PICK v : v = RemoveChildren(t, f)
      OBVIOUS
  <2>12. Moves(t, v) /\ v.parent = Without(t.parent, ToSet(ns))
      BY <2>3, <2>4, <2>11, EmptyMoves
  <2>13. PICK u : u = Flushed(v)
      OBVIOUS
  <2>14. Moves(v, u) /\ u.parent = v.parent
      BY <2>12, <2>13, FlushedIsReady DEF Moves
  <2>15. Moves(t, u) /\ u.parent = Without(t.parent, ToSet(ns))
      BY <2>12, <2>14, MovesIsTransitive
  <2>16. CutFrom(u.parent, t.parent) /\ \A m \in Nodes : m \notin ToSet(ns) => u.parent[m] = t.parent[m]
      BY <2>15 DEF CutFrom, Without
  <2>17. Fits(u, p, ns, None)
      BY <1>0, <2>10, <2>15, <2>16, StillFits DEF Moves, Ready
  <2>18. p # f
      BY <2>3, <2>5, BelowFacts
  <2>19. \A m \in Nodes : t.parent[m] = p => m \notin ToSet(ns) /\ u.parent[m] = p
      BY <2>7, <2>16, <2>18
  <2>20. InNewParent(t, u, new, ns, p)
      BY <2>10, <2>15, <2>16, <2>17, <2>19 DEF InNewParent
  <2>21. Expanded(t, new) = ns /\ Emptied(t, new) = u
      BY <1>1, <2>1, <2>4, <2>11, <2>13 DEF Expanded, Emptied
  <2> QED
      BY <2>20, <2>21
<1>2. CASE ~(Len(new) = 1 /\ Kind[Head(new)] = "fragment")
  <2>1. Expanded(t, new) = new /\ Emptied(t, new) = t
      BY <1>2 DEF Expanded, Emptied
  <2>2. Fits(t, p, new, None)
    <3>1. \A n \in ToSet(new) : p \notin Below(t.children, n)
        BY BelowIsSubtree DEF MayInsert
    <3> QED
        BY <3>1 DEF MayInsert, Fits
  <2>3. CutFrom(t.parent, t.parent)
      BY DEF CutFrom
  <2>4. InNewParent(t, t, new, new, p)
      BY <2>2, <2>3, ReadyMoves DEF InNewParent
  <2> QED
      BY <2>1, <2>4
<1> QED
    BY <1>1, <1>2

(* After the list left its parents, it fits any place it fitted before.    *)
DetachedFor(t, u, v, ns, p) ==
    /\ Moves(t, v) /\ v.parent = Without(u.parent, ToSet(ns))
    /\ Fits(v, p, ns, None)
    /\ \A anchor \in Nodes : v.parent[anchor] = p => Fits(v, p, ns, anchor)

LEMMA DetachedFacts ==
    ASSUME NEW t, Ready(t), NEW u, NEW new, NEW ns, NEW p, InNewParent(t, u, new, ns, p)
    PROVE  DetachedFor(t, u, DetachAll(u, ns), ns, p)
<1> DEFINE v == DetachAll(u, ns)
<1>1. Moves(t, u) /\ Ready(u) /\ Sound(u) /\ Fits(u, p, ns, None) /\ ns \in Seq(Nodes) /\ p \in AllNodes
    BY DEF InNewParent, Fits, Moves, Ready
<1>2. Moves(u, v) /\ v.parent = Without(u.parent, ToSet(ns))
    BY <1>1, DetachMoves
<1> HIDE DEF v
<1>3. Moves(t, v) /\ Sound(v) /\ v.live = u.live
    BY <1>1, <1>2, MovesIsTransitive DEF Moves, Ready
<1>4. CutFrom(v.parent, u.parent)
    BY <1>2, WithoutCuts
<1>5. /\ Fits(v, p, ns, None)
      /\ \A anchor \in Nodes : v.parent[anchor] = p /\ anchor \notin ToSet(ns) => Fits(v, p, ns, anchor)
    BY <1>1, <1>3, <1>4, StillFits
<1>6. \A anchor \in Nodes : v.parent[anchor] = p => anchor \notin ToSet(ns)
    BY <1>1, <1>2, NotNone DEF Without
<1> QED
    BY <1>2, <1>3, <1>5, <1>6 DEF DetachedFor, v

LEMMA ReadyFacts ==
    ASSUME NEW t, Ready(t)
    PROVE  /\ t.live \in SUBSET Nodes /\ t.parent \in ParentMaps /\ Sound(t)
           /\ \A n \in Nodes : t.parent[n] # None => t.parent[n] \in AllNodes /\ t.parent[n] \in t.live \cup {Document}
BY FieldTypes, NotNone DEF Ready, Sound, Lives, AllNodes

LEMMA ParentsFacts ==
    ASSUME Ready(dom)
    PROVE  /\ \A p \in Parents : p \in AllNodes /\ p \in dom.live \cup {Document}
           /\ \A n \in Parented : /\ n \in Nodes /\ dom.parent[n] # None /\ dom.parent[n] \in AllNodes
                                  /\ dom.parent[n] \in dom.live \cup {Document}
BY ReadyFacts, NotNone DEF Parents, Parented

-----------------------------------------------------------------------------
(* The methods that detach first.                                          *)

LEMMA AppendMoves ==
    ASSUME NEW t, Ready(t), NEW u, NEW new, NEW ns, NEW p, InNewParent(t, u, new, ns, p)
    PROVE  Moves(t, AppendChildren(u, p, ns)) /\ Moves(t, AppendChildren(DetachAll(u, ns), p, ns))
<1>1. Ready(u) /\ Moves(t, u) /\ Fits(u, p, ns, None)
    BY DEF InNewParent, Moves
<1>2. Moves(t, InsertNodes(u, p, ns, None))
    BY <1>1, InsertMoves, MovesIsTransitive
<1>3. PICK v : v = DetachAll(u, ns)
    OBVIOUS
<1>4. Moves(t, v) /\ Ready(v) /\ Fits(v, p, ns, None)
    BY <1>3, DetachedFacts DEF DetachedFor, Moves
<1>5. Moves(t, InsertNodes(v, p, ns, None))
    BY <1>4, InsertMoves, MovesIsTransitive
<1> QED
    BY <1>2, <1>3, <1>5 DEF AppendChildren

LEMMA PrependMoves ==
    ASSUME NEW t, Ready(t), NEW u, NEW new, NEW ns, NEW p, InNewParent(t, u, new, ns, p)
    PROVE  Moves(t, PrependNodes(u, p, ns))
<1>1. PICK v : v = DetachAll(u, ns)
    OBVIOUS
<1>2. DetachedFor(t, u, v, ns, p)
    BY <1>1, DetachedFacts
<1>3. Moves(t, v) /\ Ready(v) /\ p \in AllNodes
    BY <1>2 DEF DetachedFor, Moves, Fits
<1>4. FirstChild(v, p) = None \/ (FirstChild(v, p) \in Nodes /\ v.parent[FirstChild(v, p)] = p)
    BY <1>3, FirstChildFacts DEF Ready
<1>5. Fits(v, p, ns, FirstChild(v, p))
    BY <1>2, <1>4 DEF DetachedFor
<1>6. Moves(t, InsertNodes(v, p, ns, FirstChild(v, p)))
    BY <1>3, <1>5, InsertMoves, MovesIsTransitive
<1> QED
    BY <1>1, <1>6 DEF PrependNodes

LEMMA ReplaceChildrenMoves ==
    ASSUME NEW t, Ready(t), NEW u, NEW new, NEW ns, NEW p, InNewParent(t, u, new, ns, p)
    PROVE  Moves(t, ReplaceChildren(u, p, ns))
<1>1. PICK v : v = DetachAll(u, ns)
    OBVIOUS
<1>2. DetachedFor(t, u, v, ns, p)
    BY <1>1, DetachedFacts
<1>3. Moves(t, v) /\ Ready(v) /\ p \in AllNodes /\ Fits(v, p, ns, None)
    BY <1>2 DEF DetachedFor, Moves, Fits
<1>4. PICK w : w = RemoveChildren(v, p)
    OBVIOUS
<1>5. Moves(v, w) /\ w.parent = Without(v.parent, ToSet(v.children[p]))
    BY <1>3, <1>4, EmptyMoves
<1>6. CutFrom(w.parent, v.parent) /\ Ready(w) /\ Moves(t, w)
    BY <1>3, <1>5, WithoutCuts, MovesIsTransitive DEF Moves
<1>7. Fits(w, p, ns, None)
    BY <1>3, <1>5, <1>6, StillFits DEF Moves, Ready
<1>8. Moves(t, InsertNodes(w, p, ns, None))
    BY <1>6, <1>7, InsertMoves, MovesIsTransitive
<1> QED
    BY <1>1, <1>4, <1>8 DEF ReplaceChildren, AppendChildren

(* A child of p, as an anchor.                                             *)
LEMMA BeforeMoves ==
    ASSUME NEW t, Ready(t), NEW u, NEW new, NEW ns, NEW p, InNewParent(t, u, new, ns, p),
           NEW anchor \in Nodes, t.parent[anchor] = p
    PROVE  Moves(t, BeforeNode(u, anchor, ns))
<1> DEFINE previous == ViablePrevious(u, anchor, ns)
<1>1. PICK v : v = DetachAll(u, ns)
    OBVIOUS
<1>2. DetachedFor(t, u, v, ns, p)
    BY <1>1, DetachedFacts
<1>3. Moves(t, v) /\ Ready(v) /\ Sound(v) /\ p \in AllNodes /\ p # None /\ Sound(u) /\ u.parent[anchor] = p
    BY <1>2, NotNone DEF DetachedFor, Moves, Fits, Ready, InNewParent
<1>4. IsSibling(u, anchor, ns, previous)
    BY <1>3, ViableFacts
<1>5. CASE previous = None
  <2>1. FirstChild(v, p) = None \/ (FirstChild(v, p) \in Nodes /\ v.parent[FirstChild(v, p)] = p)
      BY <1>3, FirstChildFacts
  <2>2. Fits(v, p, ns, FirstChild(v, p))
      BY <1>2, <2>1 DEF DetachedFor
  <2>3. Moves(t, InsertNodes(v, p, ns, FirstChild(v, p)))
      BY <1>3, <2>2, InsertMoves, MovesIsTransitive
  <2> QED
      BY <1>1, <1>3, <1>5, <2>3 DEF BeforeNode
<1>6. CASE previous # None
  <2>1. PICK sibling \in Nodes : sibling = previous
      BY <1>4, <1>6 DEF IsSibling
  <2>2. v.parent[sibling] = p
      BY <1>2, <1>3, <1>4, <1>6, <2>1 DEF IsSibling, DetachedFor, Without
  <2>3. PICK next : next = ViableNext(v, sibling, <<>>)
      OBVIOUS
  <2>4. IsSibling(v, sibling, <<>>, next)
      BY <1>3, <2>2, <2>3, ViableFacts
  <2>5. Fits(v, p, ns, next)
      BY <1>2, <2>2, <2>4 DEF DetachedFor, IsSibling
  <2>6. Moves(t, InsertNodes(v, p, ns, next))
      BY <1>3, <2>5, InsertMoves, MovesIsTransitive
  <2>7. BeforeNode(u, anchor, ns) = InsertNodesAfter(v, sibling, ns)
      BY <1>1, <1>6, <2>1 DEF BeforeNode
  <2>8. InsertNodesAfter(v, sibling, ns) = InsertNodes(v, p, ns, next)
      BY <2>2, <2>3 DEF InsertNodesAfter
  <2> QED
      BY <2>6, <2>7, <2>8
<1> QED
    BY <1>5, <1>6

LEMMA AfterFits ==
    ASSUME NEW t, Ready(t), NEW u, NEW new, NEW ns, NEW p, InNewParent(t, u, new, ns, p),
           NEW anchor \in Nodes, t.parent[anchor] = p
    PROVE  /\ Moves(t, InsertNodes(DetachAll(u, ns), u.parent[anchor], ns, ViableNext(u, anchor, ns)))
           /\ u.parent[anchor] = p
<1>1. PICK v : v = DetachAll(u, ns)
    OBVIOUS
<1>2. DetachedFor(t, u, v, ns, p)
    BY <1>1, DetachedFacts
<1>3. Moves(t, v) /\ Ready(v) /\ p # None /\ Sound(u) /\ u.parent[anchor] = p
    BY <1>2, NotNone DEF DetachedFor, Moves, Fits, Ready, InNewParent
<1>4. PICK next : next = ViableNext(u, anchor, ns)
    OBVIOUS
<1>5. IsSibling(u, anchor, ns, next)
    BY <1>3, <1>4, ViableFacts
<1>6. next = None \/ (next \in Nodes /\ v.parent[next] = p)
    BY <1>2, <1>3, <1>5 DEF IsSibling, DetachedFor, Without
<1>7. Fits(v, p, ns, next)
    BY <1>2, <1>6 DEF DetachedFor
<1>8. Moves(t, InsertNodes(v, p, ns, next))
    BY <1>3, <1>7, InsertMoves, MovesIsTransitive
<1> QED
    BY <1>1, <1>3, <1>4, <1>8

(* A node of the list takes the place of old, which then leaves.           *)
LEMMA ReplaceMoves ==
    ASSUME NEW t, Ready(t), NEW u, NEW new, NEW ns, NEW p, InNewParent(t, u, new, ns, p),
           NEW old \in Nodes, DetachAll(u, ns).parent[old] = p
    PROVE  Moves(t, RemoveNode(InsertNodesBefore(DetachAll(u, ns), old, ns), old))
<1>1. PICK v : v = DetachAll(u, ns)
    OBVIOUS
<1>2. DetachedFor(t, u, v, ns, p)
    BY <1>1, DetachedFacts
<1>3. Moves(t, v) /\ Ready(v) /\ Fits(v, p, ns, old)
    BY <1>1, <1>2 DEF DetachedFor, Moves
<1>4. PICK w : w = InsertNodes(v, p, ns, old)
    OBVIOUS
<1>5. Moves(t, w) /\ Ready(w)
    BY <1>3, <1>4, InsertMoves, MovesIsTransitive DEF Moves
<1>6. Moves(t, RemoveNode(w, old))
    BY <1>5, RemoveMoves, MovesIsTransitive
<1> QED
    BY <1>1, <1>4, <1>6 DEF InsertNodesBefore

LEMMA ReplaceWithMoves ==
    ASSUME NEW t, Ready(t), NEW u, NEW new, NEW ns, NEW p, InNewParent(t, u, new, ns, p),
           NEW anchor \in Nodes, t.parent[anchor] = p
    PROVE  Moves(t, ReplaceWithNodes(u, anchor, ns))
<1>1. DetachedFor(t, u, DetachAll(u, ns), ns, p)
    BY DetachedFacts
<1>2. u.parent[anchor] = p
    BY DEF InNewParent
<1>3. CASE DetachAll(u, ns).parent[anchor] # None
  <2>1. DetachAll(u, ns).parent[anchor] = p
      BY <1>1, <1>2, <1>3 DEF DetachedFor, Without
  <2>2. ReplaceWithNodes(u, anchor, ns)
            = RemoveNode(InsertNodesBefore(DetachAll(u, ns), anchor, ns), anchor)
      BY <1>3 DEF ReplaceWithNodes, ReplaceNodeWith
  <2> QED
      BY <2>1, <2>2, ReplaceMoves
<1>4. CASE DetachAll(u, ns).parent[anchor] = None
  <2>1. ReplaceWithNodes(u, anchor, ns)
            = InsertNodes(DetachAll(u, ns), u.parent[anchor], ns, ViableNext(u, anchor, ns))
      BY <1>4 DEF ReplaceWithNodes
  <2> QED
      BY <2>1, AfterFits
<1> QED
    BY <1>3, <1>4

-----------------------------------------------------------------------------
(* Nodes that come into being, and changes that leave the tree alone.      *)

(* A sound document with other nodes but the same links.                   *)
SameLinks(t, u) ==
    /\ Sound(u)
    /\ u.parent = t.parent /\ u.children = t.children /\ u.hover = t.hover
    /\ u.paint_children = t.paint_children /\ u.style_nodes = t.style_nodes

LEMMA CreatedIsSound ==
    ASSUME NEW t, Sound(t), NEW n \in t.unused
    PROVE  LET u == CreateNode(t, n)
           IN  /\ SameLinks(t, u)
               /\ u.live = t.live \cup {n} /\ u.unused = t.unused \ {n}
<1> DEFINE u == CreateNode(t, n)
<1>1. t \in Documents /\ t.unused \in SUBSET Nodes /\ t.live \in SUBSET Nodes
    BY FieldTypes DEF Sound
<1>2. u = [t EXCEPT !.unused = @ \ {n}, !.live = @ \cup {n}]
    BY DEF CreateNode
<1> HIDE DEF u
<1>3. /\ u \in Documents /\ u.parent = t.parent /\ u.children = t.children
      /\ u.in_document = t.in_document /\ u.id = t.id /\ u.hover = t.hover /\ u.focus = t.focus
      /\ u.live = t.live \cup {n} /\ u.unused = t.unused \ {n} /\ u.paint_children = t.paint_children
      /\ u.nodes_to_stylesheet = t.nodes_to_stylesheet /\ u.nodes_to_id = t.nodes_to_id /\ u.style_nodes = t.style_nodes
    BY <1>1, <1>2 DEF Documents
<1>4. Lives(u) /\ Refers(u)
    BY <1>3 DEF Sound, Lives, Refers, Indexed, Option
<1>5. Sound(u)
    BY <1>3, <1>4 DEF Sound
<1> QED
    BY <1>3, <1>5 DEF SameLinks, u

LEMMA NamedIsSound ==
    ASSUME NEW t, Sound(t), NEW n \in Nodes, NEW i \in Option(Ids)
    PROVE  LET u == SetId(t, n, i)
           IN  SameLinks(t, u) /\ u.live = t.live /\ u.unused = t.unused
<1> DEFINE u == SetId(t, n, i)
           ids == IF n \notin t.in_document THEN t.nodes_to_id
                  ELSE [j \in Ids |-> IF j = i THEN t.nodes_to_id[j] \cup {n} ELSE t.nodes_to_id[j] \ {n}]
           id == [t.id EXCEPT ![n] = i]
<1>1. t \in Documents
    BY DEF Sound
<1>2. u = [t EXCEPT !.id = id, !.nodes_to_id = ids]
    BY <1>1 DEF SetId, Documents
<1>3. ids \in [Ids -> SUBSET Nodes] /\ id \in [Nodes -> Option(Ids)]
    BY <1>1, FieldTypes
<1>3a. \A m \in Nodes : id[m] = IF m = n THEN i ELSE t.id[m]
    BY <1>1, FieldTypes
<1>3b. \A j \in Ids : ids[j] = IF n \notin t.in_document THEN t.nodes_to_id[j]
                             ELSE IF j = i THEN t.nodes_to_id[j] \cup {n} ELSE t.nodes_to_id[j] \ {n}
    OBVIOUS
<1> HIDE DEF u, ids, id
<1>4. /\ u \in Documents /\ u.parent = t.parent /\ u.children = t.children
      /\ u.in_document = t.in_document /\ u.hover = t.hover /\ u.focus = t.focus
      /\ u.live = t.live /\ u.unused = t.unused /\ u.paint_children = t.paint_children
      /\ u.nodes_to_stylesheet = t.nodes_to_stylesheet /\ u.nodes_to_id = ids /\ u.id = id /\ u.style_nodes = t.style_nodes
    BY <1>1, <1>2, <1>3 DEF Documents
<1>5. Lives(u) /\ Refers(u)
  <2>1. Indexed(u)
    <3> SUFFICES ASSUME NEW j \in Ids
                 PROVE  ids[j] = {m \in Nodes : m \in t.in_document /\ id[m] = j}
        BY <1>4 DEF Indexed
    <3>1. t.nodes_to_id[j] = {m \in Nodes : m \in t.in_document /\ t.id[m] = j}
        BY DEF Sound, Refers, Indexed
    <3>2. CASE n \notin t.in_document
        BY <1>3a, <1>3b, <3>1, <3>2
    <3>3. CASE n \in t.in_document
      <4>1. ids[j] = IF j = i THEN t.nodes_to_id[j] \cup {n} ELSE t.nodes_to_id[j] \ {n}
          BY <1>3b, <3>3
      <4>2. ASSUME NEW m PROVE m \in ids[j] <=> m \in Nodes /\ m \in t.in_document /\ id[m] = j
        <5>1. CASE m = n
            BY <1>3a, <3>3, <4>1, <5>1
        <5>2. CASE m # n
            BY <1>3a, <3>1, <4>1, <5>2
        <5> QED
            BY <5>1, <5>2
      <4> QED
          BY <4>2
    <3> QED
        BY <3>2, <3>3
  <2> QED
      BY <1>4, <2>1 DEF Sound, Lives, Refers
<1>6. Sound(u)
    BY <1>4, <1>5 DEF Sound
<1> QED
    BY <1>4, <1>6 DEF SameLinks, u

LEMMA CreatedIsReady ==
    ASSUME NEW t, Ready(t), NEW n \in t.unused
    PROVE  Ready(CreateNode(t, n))
<1>1. LET u == CreateNode(t, n)
      IN  /\ SameLinks(t, u)
          /\ u.live = t.live \cup {n} /\ u.unused = t.unused \ {n}
    BY CreatedIsSound DEF Ready
<1> QED
    BY <1>1 DEF Ready, SameLinks, Styles

LEMMA NamedIsReady ==
    ASSUME NEW t, Ready(t), NEW n \in Nodes, NEW i \in Option(Ids)
    PROVE  Ready(SetId(t, n, i))
<1>1. LET u == SetId(t, n, i)
      IN  SameLinks(t, u) /\ u.live = t.live /\ u.unused = t.unused
    BY NamedIsSound DEF Ready
<1> QED
    BY <1>1 DEF Ready, SameLinks

-----------------------------------------------------------------------------
(* Dropping.                                                               *)

(* A set of nodes with all that is below them.                             *)
Whole(kids, gone) == gone \in SUBSET Nodes /\ \A m \in gone : Kids(kids, m) \subseteq gone

(* The lists of children without these nodes.                              *)
Pruned(kids, left, gone) ==
    /\ left \in ChildLists
    /\ \A q \in AllNodes : /\ IsInjective(left[q])
                           /\ Kids(left, q) = IF q \in gone THEN {} ELSE Kids(kids, q) \ gone

LEMMA PrunedTree ==
    ASSUME NEW par, NEW kids, IsTree(par, kids), NEW gone, Whole(kids, gone),
           NEW left, Pruned(kids, left, gone)
    PROVE  IsTree(Without(par, gone), left)
<1> DEFINE cut == Without(par, gone)
<1>1. par \in ParentMaps /\ kids \in ChildLists /\ Linked(par, kids) /\ gone \in SUBSET Nodes
    BY DEF IsTree, Whole
<1>2. \A m \in Nodes : cut[m] = IF m \in gone THEN None ELSE par[m]
    BY DEF Without
<1>3. cut \in ParentMaps
    BY <1>1 DEF Without, ParentMaps, Option
<1> HIDE DEF cut
<1>4. ASSUME NEW m \in Nodes, NEW q \in AllNodes
      PROVE  m \in Kids(left, q) <=> cut[m] = q
  <2>1. m \in Kids(kids, q) <=> par[m] = q
      BY <1>1 DEF Linked
  <2>2. q \in gone /\ m \in Kids(kids, q) => m \in gone
      BY DEF Whole
  <2>3. Kids(left, q) = IF q \in gone THEN {} ELSE Kids(kids, q) \ gone
      BY DEF Pruned
  <2>4. q # None
      BY NotNone
  <2> QED
      BY <1>2, <2>1, <2>2, <2>3, <2>4
<1>5. \E h \in [AllNodes -> Nat] : Ranked(cut, h)
  <2>1. PICK h \in [AllNodes -> Nat] : Ranked(par, h)
      BY DEF IsTree
  <2>2. Ranked(cut, h)
      BY <1>2, <2>1 DEF Ranked
  <2> QED
      BY <2>2
<1> QED
    BY <1>3, <1>4, <1>5 DEF IsTree, Linked, Pruned, cut

LEMMA WithoutFlags ==
    ASSUME NEW par, NEW kids, IsTree(par, kids), NEW gone, Whole(kids, gone),
           NEW in_document \in SUBSET AllNodes, Flags(par, in_document, {})
    PROVE  Flags(Without(par, gone), in_document \ gone, {})
<1>1. par \in ParentMaps /\ Linked(par, kids) /\ gone \in SUBSET Nodes
    BY DEF IsTree, Whole
<1>2. ASSUME NEW n \in Nodes
      PROVE  n \in in_document \ gone <=> Without(par, gone)[n] \in in_document \ gone
  <2>1. Without(par, gone)[n] = IF n \in gone THEN None ELSE par[n]
      BY DEF Without
  <2>2. n \in in_document <=> par[n] \in in_document
      BY DEF Flags
  <2>3. par[n] \in gone => n \in gone
      BY <1>1, NotNone DEF Linked, Whole
  <2>4. None \notin in_document
      BY NotNone
  <2> QED
      BY <2>1, <2>2, <2>3, <2>4
<1>3. Document \in in_document \ gone
    BY <1>1, NotNone DEF Flags
<1> QED
    BY <1>2, <1>3 DEF Flags

(* What a removal of all these nodes left of the references.               *)
Severed(t, v, gone) ==
    /\ v \in Documents
    /\ v.live = t.live /\ v.unused = t.unused /\ v.parent = t.parent /\ v.id = t.id
    /\ Indexed(v)
    /\ v.paint_children = t.paint_children /\ v.style_nodes = t.style_nodes
    /\ v.in_document = t.in_document \ gone
    /\ v.hover \in Option(t.live \ gone) /\ v.focus \in Option(t.live \ gone)
    /\ v.nodes_to_stylesheet \subseteq t.live \ gone

LEMMA FreedFacts ==
    ASSUME NEW v \in Documents, NEW gone
    PROVE  LET u == Freed(v, gone)
           IN  /\ u \in Documents
               /\ u.live = v.live \ gone /\ u.unused = v.unused
               /\ u.parent = Without(v.parent, gone)
               /\ \A m \in Nodes : u.id[m] = (IF m \in gone THEN None ELSE v.id[m])
               /\ \A q \in AllNodes : u.children[q] = (IF q \in gone THEN <<>> ELSE v.children[q])
               /\ \A q \in AllNodes : u.paint_children[q] = (IF q \in gone THEN {} ELSE v.paint_children[q])
               /\ u.in_document = v.in_document /\ u.hover = v.hover /\ u.focus = v.focus
               /\ u.nodes_to_stylesheet = v.nodes_to_stylesheet /\ u.nodes_to_id = v.nodes_to_id /\ u.style_nodes = v.style_nodes
<1> DEFINE u == Freed(v, gone)
           id == [n \in Nodes |-> IF n \in gone THEN None ELSE v.id[n]]
           par == [n \in Nodes |-> IF n \in gone THEN None ELSE v.parent[n]]
           kids == [n \in AllNodes |-> IF n \in gone THEN <<>> ELSE v.children[n]]
           lists == [n \in AllNodes |-> IF n \in gone THEN {} ELSE v.paint_children[n]]
<1>1. u = [v EXCEPT !.live = @ \ gone, !.id = id, !.parent = par, !.children = kids,
                    !.paint_children = lists]
    BY DEF Freed, Documents
<1>2. /\ id \in [Nodes -> Option(Ids)] /\ par \in [Nodes -> Option(AllNodes)]
      /\ lists \in [AllNodes -> SUBSET Nodes]
    BY FieldTypes DEF Option, ParentMaps
<1>3. kids \in [AllNodes -> Seq(Nodes)]
    BY FieldTypes DEF ChildLists
<1>4. par = Without(v.parent, gone)
    BY DEF Without
<1>5. /\ \A q \in AllNodes : kids[q] = (IF q \in gone THEN <<>> ELSE v.children[q])
      /\ \A q \in AllNodes : lists[q] = (IF q \in gone THEN {} ELSE v.paint_children[q])
    OBVIOUS
<1>5a. \A m \in Nodes : id[m] = (IF m \in gone THEN None ELSE v.id[m])
    OBVIOUS
<1>6. v.live \ gone \in SUBSET Nodes
    BY FieldTypes
<1> HIDE DEF u, id, par, kids, lists
<1>7. u \in Documents
    BY <1>1, <1>2, <1>3, <1>6 DEF Documents
<1>8. /\ u.live = v.live \ gone /\ u.unused = v.unused
      /\ u.id = id /\ u.parent = par /\ u.children = kids /\ u.paint_children = lists
      /\ u.in_document = v.in_document /\ u.hover = v.hover /\ u.focus = v.focus
      /\ u.nodes_to_stylesheet = v.nodes_to_stylesheet /\ u.nodes_to_id = v.nodes_to_id /\ u.style_nodes = v.style_nodes
    BY <1>1 DEF Documents
<1> QED
    BY <1>4, <1>5, <1>5a, <1>7, <1>8 DEF u

(* Nodes that have left the document can be freed.                         *)
LEMMA FreedIsIndexed ==
    ASSUME NEW t, NEW gone, NEW v, Severed(t, v, gone)
    PROVE  Indexed(Freed(v, gone))
<1>1. PICK w : w = Freed(v, gone)
    OBVIOUS
<1>2. v \in Documents /\ Indexed(v) /\ v.in_document = t.in_document \ gone
    BY DEF Severed
<1>3. /\ w.in_document = v.in_document /\ w.nodes_to_id = v.nodes_to_id
      /\ \A m \in Nodes : w.id[m] = (IF m \in gone THEN None ELSE v.id[m])
    BY <1>1, <1>2, FreedFacts
<1>4. Indexed(w)
  <2> SUFFICES ASSUME NEW i \in Ids
               PROVE  {m \in Nodes : m \in w.in_document /\ w.id[m] = i}
                          = {m \in Nodes : m \in v.in_document /\ v.id[m] = i}
      BY <1>2, <1>3 DEF Indexed
  <2> QED
      BY <1>2, <1>3
<1> QED
    BY <1>1, <1>4

LEMMA PurgedFacts ==
    ASSUME NEW v \in Documents, NEW p \in AllNodes, NEW gone
    PROVE  LET u == Purged(v, p, gone)
           IN  /\ u \in Documents
               /\ u.live = v.live /\ u.unused = v.unused
               /\ u.parent = v.parent /\ u.children = v.children /\ u.id = v.id
               /\ \A q \in AllNodes : u.paint_children[q] \subseteq v.paint_children[q]
               /\ u.in_document = v.in_document /\ u.hover = v.hover /\ u.focus = v.focus
               /\ u.nodes_to_stylesheet = v.nodes_to_stylesheet /\ u.nodes_to_id = v.nodes_to_id /\ u.style_nodes = v.style_nodes
<1> DEFINE u == Purged(v, p, gone)
           lists == [n \in AllNodes |-> IF n \in {p} \cup Ancestors(v, p)
                                        THEN v.paint_children[n] \ gone ELSE v.paint_children[n]]
<1>1. u = [v EXCEPT !.paint_children = lists]
    BY DEF Purged, Documents
<1>2. lists \in [AllNodes -> SUBSET Nodes] /\ \A q \in AllNodes : lists[q] \subseteq v.paint_children[q]
    BY FieldTypes
<1> HIDE DEF u, lists
<1>3. /\ u \in Documents /\ u.paint_children = lists
      /\ u.live = v.live /\ u.unused = v.unused
      /\ u.parent = v.parent /\ u.children = v.children /\ u.id = v.id
      /\ u.in_document = v.in_document /\ u.hover = v.hover /\ u.focus = v.focus
      /\ u.nodes_to_stylesheet = v.nodes_to_stylesheet /\ u.nodes_to_id = v.nodes_to_id /\ u.style_nodes = v.style_nodes
    BY <1>1, <1>2 DEF Documents
<1> QED
    BY <1>2, <1>3 DEF u

(* A sound document without these nodes.                                   *)
Dropped(t, u, gone) ==
    /\ Sound(u)
    /\ u.live = t.live \ gone /\ u.unused = t.unused
    /\ u.parent = Without(t.parent, gone)
    /\ \A q \in AllNodes : u.paint_children[q] \subseteq t.paint_children[q]
    /\ t.style_nodes \subseteq u.style_nodes
    /\ u.style_nodes \subseteq t.style_nodes \cup Styles(u.live)

LEMMA SeveredIsSound ==
    ASSUME NEW t, Sound(t), NEW gone, Whole(t.children, gone),
           NEW v, v \in Documents, v.live = t.live \ gone, v.unused = t.unused,
           v.parent = Without(t.parent, gone), Pruned(t.children, v.children, gone),
           v.in_document = t.in_document \ gone,
           v.hover \in Option(t.live \ gone), v.focus \in Option(t.live \ gone),
           v.nodes_to_stylesheet \subseteq t.live \ gone, Indexed(v)
    PROVE  Sound(v)
<1>1. t \in Documents /\ IsTree(t.parent, t.children) /\ t.in_document \in SUBSET AllNodes
    BY FieldTypes DEF Sound
<1>2. IsTree(v.parent, v.children)
    BY <1>1, PrunedTree
<1>3. Flags(v.parent, v.in_document, {})
    BY <1>1, WithoutFlags DEF Sound
<1>4. Lives(v)
  <2>1. v.unused \cap v.live = {}
      BY DEF Sound, Lives
  <2>2. ASSUME NEW n \in Nodes, v.parent[n] # None
        PROVE  n \in v.live /\ v.parent[n] \in v.live \cup {Document}
    <3>1. n \notin gone /\ v.parent[n] = t.parent[n]
        BY <2>2 DEF Without
    <3>2. n \in t.live /\ t.parent[n] \in t.live \cup {Document}
        BY <2>2, <3>1 DEF Sound, Lives
    <3>3. t.parent[n] \notin gone
        BY <1>1, <3>1, NotNone DEF IsTree, Linked, Whole
    <3> QED
        BY <3>1, <3>2, <3>3
  <2> QED
      BY <2>1, <2>2 DEF Lives
<1>5. Refers(v)
    BY DEF Sound, Refers
<1> QED
    BY <1>2, <1>3, <1>4, <1>5 DEF Sound

(* With only the lists of p pruned, and the nodes gone freed.              *)
LEMMA DroppedFacts ==
    ASSUME NEW t, Sound(t), NEW gone, Whole(t.children, gone), NEW v, Severed(t, v, gone),
           NEW p \in AllNodes, p \in (t.live \cup {Document}) \ gone,
           NEW w \in Documents,
           w.live = t.live \ gone, w.unused = t.unused, w.parent = Without(t.parent, gone),
           \A q \in AllNodes : w.paint_children[q] \subseteq t.paint_children[q],
           w.in_document = v.in_document, w.hover = v.hover, w.focus = v.focus,
           w.nodes_to_stylesheet = v.nodes_to_stylesheet, w.nodes_to_id = v.nodes_to_id, w.style_nodes = v.style_nodes,
           Pruned(t.children, w.children, gone), Indexed(w)
    PROVE  Dropped(t, Recorded(Purged(w, p, gone), p), gone)
<1>1. PICK x : x = Purged(w, p, gone)
    OBVIOUS
<1>2. /\ x \in Documents
      /\ x.live = w.live /\ x.unused = w.unused
      /\ x.parent = w.parent /\ x.children = w.children /\ x.id = w.id
      /\ \A q \in AllNodes : x.paint_children[q] \subseteq w.paint_children[q]
      /\ x.in_document = w.in_document /\ x.hover = w.hover /\ x.focus = w.focus
      /\ x.nodes_to_stylesheet = w.nodes_to_stylesheet /\ x.nodes_to_id = w.nodes_to_id /\ x.style_nodes = w.style_nodes
    BY <1>1, PurgedFacts
<1>3. p \in x.live \cup {Document}
    BY <1>2
<1>4. PICK u : u = Recorded(x, p)
    OBVIOUS
<1>5. /\ u \in Documents
      /\ u.parent = x.parent /\ u.children = x.children
      /\ u.in_document = x.in_document
      /\ u.hover = x.hover /\ u.focus = x.focus
      /\ u.nodes_to_stylesheet = x.nodes_to_stylesheet /\ u.nodes_to_id = x.nodes_to_id
      /\ Keeps(x, u)
    BY <1>2, <1>3, <1>4, RecordedFacts
<1>6. Sound(u)
  <2>1. u.live = t.live \ gone /\ u.unused = t.unused
      BY <1>2, <1>5 DEF Keeps
  <2>2. /\ u.in_document = t.in_document \ gone
        /\ u.hover \in Option(t.live \ gone) /\ u.focus \in Option(t.live \ gone)
        /\ u.nodes_to_stylesheet \subseteq t.live \ gone
      BY <1>2, <1>5 DEF Severed
  <2>3. Indexed(u)
      BY <1>2, <1>5 DEF Keeps, Indexed
  <2> QED
      BY <1>2, <1>5, <2>1, <2>2, <2>3, SeveredIsSound
<1>7. Dropped(t, u, gone)
  <2>1. /\ u.live = t.live \ gone /\ u.unused = t.unused /\ u.parent = Without(t.parent, gone)
        /\ u.paint_children = x.paint_children
        /\ t.style_nodes \subseteq u.style_nodes
        /\ u.style_nodes \subseteq t.style_nodes \cup Styles(u.live)
      BY <1>2, <1>5 DEF Keeps, Severed
  <2>2. ASSUME NEW q \in AllNodes PROVE u.paint_children[q] \subseteq t.paint_children[q]
    <3>1. x.paint_children[q] \subseteq w.paint_children[q] /\ w.paint_children[q] \subseteq t.paint_children[q]
        BY <1>2
    <3> QED
        BY <2>1, <3>1
  <2> QED
      BY <1>6, <2>1, <2>2 DEF Dropped
<1> QED
    BY <1>1, <1>4, <1>7

LEMMA BelowIsWhole ==
    ASSUME NEW par, NEW kids, IsTree(par, kids), NEW n \in Nodes
    PROVE  /\ Whole(kids, Below(kids, n)) /\ n \in Below(kids, n)
           /\ par[n] \notin Below(kids, n)
           /\ \A m \in Below(kids, n) \ {n} : par[m] \in Below(kids, n)
<1>1. kids \in ChildLists /\ par \in ParentMaps /\ n \in AllNodes
    BY NotNone DEF IsTree
<1>2. Whole(kids, Below(kids, n)) /\ n \in Below(kids, n) /\ Below(kids, n) \in SUBSET Nodes
    BY <1>1, BelowFacts DEF Whole
<1>3. PICK h \in [AllNodes -> Nat] : Ranked(par, h)
    BY DEF IsTree
<1>4. ASSUME par[n] \in Below(kids, n) PROVE FALSE
  <2>1. par[n] # None /\ par[n] \in AllNodes
      BY <1>2, <1>4, NotNone
  <2>2. h[par[n]] < h[n] /\ h[par[n]] \in Nat /\ h[n] \in Nat
      BY <1>1, <1>3, <2>1 DEF Ranked
  <2>3. par[n] = n \/ h[n] < h[par[n]]
      BY <1>1, <1>3, <1>4, BelowRanks
  <2> QED
      BY <2>2, <2>3
<1> QED
    BY <1>1, <1>2, <1>4, BelowLinks

LEMMA RemovedIsSevered ==
    ASSUME NEW t, Sound(t), NEW n \in Nodes
    PROVE  /\ Severed(t, ProcessRemoved(t, n), Below(t.children, n))
           /\ ProcessRemoved(t, n).children = t.children
<1> DEFINE v == ProcessRemoved(t, n)
           gone == Below(t.children, n)
<1>1. t \in Documents /\ Refers(t) /\ IsTree(t.parent, t.children) /\ n \in AllNodes
    BY NotNone DEF Sound
<1>2. PICK h \in [AllNodes -> Nat] : Ranked(t.parent, h)
    BY <1>1 DEF IsTree
<1>3. /\ v \in Documents
      /\ v.parent = t.parent /\ v.children = t.children
      /\ v.live = t.live /\ v.unused = t.unused /\ v.id = t.id
      /\ v.paint_children = t.paint_children /\ v.style_nodes = t.style_nodes
      /\ v.in_document = t.in_document \ gone
      /\ Refers(v)
      /\ v.hover \in Option(Nodes \ gone) /\ v.focus \in Option(Nodes \ gone)
      /\ v.nodes_to_stylesheet = t.nodes_to_stylesheet \ gone
    BY <1>1, <1>2, ProcessRemovedFacts
<1> HIDE DEF v, gone
<1>4. v.hover \in Option(t.live \ gone) /\ v.focus \in Option(t.live \ gone)
    BY <1>3 DEF Refers, Option
<1>5. v.nodes_to_stylesheet \subseteq t.live \ gone /\ Indexed(v)
    BY <1>1, <1>3 DEF Refers
<1> QED
    BY <1>3, <1>4, <1>5 DEF Severed, v, gone

LEMMA RemoveAndDropFacts ==
    ASSUME NEW t, Sound(t), NEW n \in Nodes
    PROVE  Dropped(t, RemoveAndDrop(t, n), Subtree(t, n))
<1>0. PICK gone : gone = Below(t.children, n)
    OBVIOUS
<1>1. gone = Subtree(t, n)
    BY <1>0, BelowIsSubtree
<1>2. /\ IsTree(t.parent, t.children) /\ t.parent \in ParentMaps /\ t.children \in ChildLists
      /\ Linked(t.parent, t.children) /\ \A q \in AllNodes : IsInjective(t.children[q])
    BY DEF Sound, IsTree
<1>3. /\ Whole(t.children, gone) /\ n \in gone /\ gone \in SUBSET Nodes
      /\ t.parent[n] \notin gone
      /\ \A m \in gone \ {n} : t.parent[m] \in gone
    BY <1>0, <1>2, BelowIsWhole DEF Whole
<1>4. PICK v : v = ProcessRemoved(t, n)
    OBVIOUS
<1>5. Severed(t, v, gone) /\ v.children = t.children
    BY <1>0, <1>4, RemovedIsSevered
<1>6. PICK w : w = Freed(v, gone)
    OBVIOUS
<1>7. /\ w \in Documents
      /\ w.live = t.live \ gone /\ w.unused = t.unused
      /\ w.parent = Without(t.parent, gone)
      /\ \A q \in AllNodes : w.children[q] = (IF q \in gone THEN <<>> ELSE t.children[q])
      /\ \A q \in AllNodes : w.paint_children[q] = (IF q \in gone THEN {} ELSE t.paint_children[q])
      /\ w.in_document = v.in_document /\ w.hover = v.hover /\ w.focus = v.focus
      /\ w.nodes_to_stylesheet = v.nodes_to_stylesheet /\ w.nodes_to_id = v.nodes_to_id /\ w.style_nodes = v.style_nodes
    BY <1>5, <1>6, FreedFacts DEF Severed
<1>7a. Indexed(w)
    BY <1>5, <1>6, FreedIsIndexed
<1>8. \A q \in AllNodes : w.paint_children[q] \subseteq t.paint_children[q]
    BY <1>7
<1>9. w.children \in ChildLists
    BY <1>7, FieldTypes
<1>10. \A q \in AllNodes : Kids(t.children, q) \in SUBSET Nodes /\ t.children[q] \in Seq(Nodes)
    BY <1>2, KidsAreNodes DEF ChildLists
<1>11. \A q \in AllNodes : \A m \in Kids(t.children, q) : t.parent[m] = q
    BY <1>2, <1>10 DEF Linked
<1>12. IsInjective(<<>>) /\ ToSet(<<>>) = {}
    BY DEF IsInjective, ToSet
<1>13. CASE t.parent[n] = None
  <2>1. RemoveAndDrop(t, n) = w
      BY <1>1, <1>4, <1>6, <1>13 DEF RemoveAndDrop
  <2>2. ASSUME NEW q \in AllNodes
        PROVE  IsInjective(w.children[q])
               /\ Kids(w.children, q) = IF q \in gone THEN {} ELSE Kids(t.children, q) \ gone
    <3>1. CASE q \in gone
        BY <1>7, <1>12, <3>1 DEF Kids
    <3>2. CASE q \notin gone
      <4>1. w.children[q] = t.children[q]
          BY <1>7, <3>2
      <4>2. Kids(t.children, q) \cap gone = {}
          BY <1>3, <1>11, <1>13, <3>2, NotNone
      <4> QED
          BY <1>2, <3>2, <4>1, <4>2 DEF Kids
    <3> QED
        BY <3>1, <3>2
  <2>3. Pruned(t.children, w.children, gone)
      BY <1>9, <2>2 DEF Pruned
  <2>4. /\ w.in_document = t.in_document \ gone
        /\ w.hover \in Option(t.live \ gone) /\ w.focus \in Option(t.live \ gone)
        /\ w.nodes_to_stylesheet \subseteq t.live \ gone /\ w.style_nodes = t.style_nodes
      BY <1>5, <1>7 DEF Severed
  <2>5. Sound(w)
      BY <1>3, <1>7, <1>7a, <2>3, <2>4, SeveredIsSound
  <2>6. Dropped(t, w, gone)
      BY <1>7, <1>8, <2>4, <2>5 DEF Dropped
  <2> QED
      BY <1>1, <2>1, <2>6
<1>14. CASE t.parent[n] # None
  <2>1. PICK p : p = t.parent[n]
      OBVIOUS
  <2>2. p \in AllNodes /\ p \in t.live \cup {Document} /\ p \notin gone
      BY <1>2, <1>3, <1>14, <2>1 DEF ParentMaps, Option, Sound, Lives
  <2>3. PICK kept : kept = Filtered(t.children[p], Nodes \ {n})
      OBVIOUS
  <2>4. kept \in Seq(Nodes) /\ ToSet(kept) = Kids(t.children, p) \ {n} /\ IsInjective(kept)
    <3>1. /\ kept \in Seq(Nodes) /\ ToSet(kept) = ToSet(t.children[p]) \cap (Nodes \ {n})
          /\ IsInjective(kept)
        BY <1>2, <1>10, <2>2, <2>3, FilteredSet
    <3> QED
        BY <1>10, <2>2, <3>1 DEF Kids
  <2>5. PICK x : x = [w EXCEPT !.children[p] = kept]
      OBVIOUS
  <2>6. /\ x \in Documents
        /\ x.live = w.live /\ x.unused = w.unused /\ x.parent = w.parent
        /\ x.paint_children = w.paint_children /\ x.id = w.id
        /\ x.in_document = w.in_document /\ x.hover = w.hover /\ x.focus = w.focus
        /\ x.nodes_to_stylesheet = w.nodes_to_stylesheet /\ x.nodes_to_id = w.nodes_to_id /\ x.style_nodes = w.style_nodes
        /\ x.children = [w.children EXCEPT ![p] = kept]
    <3>1. [w.children EXCEPT ![p] = kept] \in [AllNodes -> Seq(Nodes)]
        BY <1>9, <2>4 DEF ChildLists
    <3> QED
        BY <1>7, <2>5, <3>1 DEF Documents
  <2>7. x.children \in ChildLists /\ \A q \in AllNodes : x.children[q] = IF q = p THEN kept ELSE w.children[q]
      BY <1>9, <2>4, <2>6 DEF ChildLists
  <2>8. RemoveAndDrop(t, n) = Recorded(Purged(x, p, gone), p)
    <3>1. w.children[p] = t.children[p]
        BY <1>7, <2>2
    <3> QED
        BY <1>1, <1>4, <1>6, <1>14, <2>1, <2>3, <2>5, <3>1 DEF RemoveAndDrop
  <2>9. ASSUME NEW q \in AllNodes
        PROVE  IsInjective(x.children[q])
               /\ Kids(x.children, q) = IF q \in gone THEN {} ELSE Kids(t.children, q) \ gone
    <3>1. CASE q \in gone
        BY <1>7, <1>12, <2>2, <2>7, <3>1 DEF Kids
    <3>2. CASE q \notin gone /\ q # p
      <4>1. x.children[q] = t.children[q]
          BY <1>7, <2>7, <3>2
      <4>2. Kids(t.children, q) \cap gone = {}
          BY <1>3, <1>11, <2>1, <3>2
      <4> QED
          BY <1>2, <3>2, <4>1, <4>2 DEF Kids
    <3>3. CASE q = p
      <4>1. x.children[q] = kept
          BY <2>7, <3>3
      <4>2. Kids(t.children, p) \cap gone \subseteq {n}
          BY <1>3, <1>11, <2>2
      <4>3. Kids(t.children, p) \ gone = Kids(t.children, p) \ {n}
          BY <1>3, <4>2
      <4> QED
          BY <2>2, <2>4, <3>3, <4>1, <4>3 DEF Kids
    <3> QED
        BY <3>1, <3>2, <3>3
  <2>10. Pruned(t.children, x.children, gone)
      BY <2>7, <2>9 DEF Pruned
  <2>11. Dropped(t, Recorded(Purged(x, p, gone), p), gone)
    <3>1. p \in (t.live \cup {Document}) \ gone
        BY <2>2
    <3>2. /\ x.live = t.live \ gone /\ x.unused = t.unused /\ x.parent = Without(t.parent, gone)
          /\ \A q \in AllNodes : x.paint_children[q] \subseteq t.paint_children[q]
          /\ x.in_document = v.in_document /\ x.hover = v.hover /\ x.focus = v.focus
          /\ x.nodes_to_stylesheet = v.nodes_to_stylesheet /\ x.nodes_to_id = v.nodes_to_id /\ x.style_nodes = v.style_nodes
        BY <1>7, <1>8, <2>6
    <3>3. Indexed(x)
        BY <1>7a, <2>6 DEF Indexed
    <3> QED
        BY <1>3, <1>5, <2>2, <2>6, <2>10, <3>1, <3>2, <3>3, DroppedFacts
  <2> QED
      BY <1>1, <2>8, <2>11
<1> QED
    BY <1>13, <1>14

(* What is below n depends on the lists of these nodes only.               *)
LEMMA BelowSame ==
    ASSUME NEW kids \in ChildLists, NEW left \in ChildLists, NEW n \in AllNodes,
           \A m \in Below(kids, n) : left[m] = kids[m]
    PROVE  Below(left, n) = Below(kids, n)
<1>1. /\ Below(kids, n) \in SUBSET AllNodes /\ n \in Below(kids, n)
      /\ \A m \in Below(kids, n) : Kids(kids, m) \subseteq Below(kids, n)
    BY BelowFacts
<1>2. \A m \in Below(kids, n) : Kids(left, m) = Kids(kids, m)
    BY DEF Kids
<1>3. Below(left, n) \subseteq Below(kids, n)
    BY <1>1, <1>2, BelowFacts
<1>4. /\ n \in Below(left, n)
      /\ \A m \in Below(left, n) : Kids(left, m) \subseteq Below(left, n)
    BY BelowFacts
<1>5. Below(kids, n) \subseteq Below(left, n)
  <2> DEFINE T == Below(kids, n) \cap Below(left, n)
  <2>1. T \in SUBSET AllNodes /\ n \in T /\ \A m \in T : Kids(kids, m) \subseteq T
      BY <1>1, <1>2, <1>4
  <2> HIDE DEF T
  <2>2. Below(kids, n) \subseteq T
      BY <2>1, BelowFacts
  <2> QED
      BY <2>2 DEF T
<1> QED
    BY <1>3, <1>5

(* All that is below p, from the first k of its children on.               *)
BelowFirst(kids, ns, k) == UNION {Below(kids, ns[j]) : j \in 1..k}

LEMMA BelowFirstStart == \A kids, ns : BelowFirst(kids, ns, 0) = {}
<1>1. 1..0 = {}
    OBVIOUS
<1> QED
    BY <1>1 DEF BelowFirst

LEMMA BelowFirstNext ==
    ASSUME NEW kids, NEW ns, NEW k \in Nat, k # 0
    PROVE  BelowFirst(kids, ns, k) = BelowFirst(kids, ns, k - 1) \cup Below(kids, ns[k])
<1>1. 1..k = (1..k - 1) \cup {k}
    OBVIOUS
<1> QED
    BY <1>1 DEF BelowFirst

SeveredFrom(t, kids, gone) ==
    {v \in Documents : Severed(t, v, gone) /\ v.children = kids}

LEMMA SeveredNext ==
    ASSUME NEW t, Sound(t), NEW kids \in ChildLists, NEW n \in Nodes,
           Below(kids, n) = Below(t.children, n), NEW gone,
           NEW v \in SeveredFrom(t, kids, gone)
    PROVE  ProcessRemoved(v, n) \in SeveredFrom(t, kids, gone \cup Below(t.children, n))
<1> DEFINE u == ProcessRemoved(v, n)
           more == Below(t.children, n)
<1>1. /\ v \in Documents /\ v.children = kids
      /\ v.live = t.live /\ v.unused = t.unused /\ v.parent = t.parent
      /\ v.id = t.id /\ Indexed(v)
      /\ v.paint_children = t.paint_children /\ v.style_nodes = t.style_nodes
      /\ v.in_document = t.in_document \ gone
      /\ v.hover \in Option(t.live \ gone) /\ v.focus \in Option(t.live \ gone)
      /\ v.nodes_to_stylesheet \subseteq t.live \ gone
    BY DEF SeveredFrom, Severed
<1>2. Refers(v) /\ n \in AllNodes
    BY <1>1, NotNone DEF Sound, Refers, Option
<1>3. PICK h \in [AllNodes -> Nat] : Ranked(t.parent, h)
    BY DEF Sound, IsTree
<1>4. /\ u \in Documents
      /\ u.parent = v.parent /\ u.children = v.children
      /\ u.live = v.live /\ u.unused = v.unused /\ u.id = v.id
      /\ u.paint_children = v.paint_children /\ u.style_nodes = v.style_nodes
      /\ u.in_document = v.in_document \ more
      /\ Refers(u)
      /\ u.hover \in {v.hover} \cup Option(u.in_document) /\ u.focus \in {v.focus, None}
      /\ u.hover \in Option(Nodes \ more) /\ u.focus \in Option(Nodes \ more)
      /\ u.nodes_to_stylesheet = v.nodes_to_stylesheet \ more
  <2>1. Ranked(v.parent, h) /\ more = Below(v.children, n)
      BY <1>1, <1>3
  <2> HIDE DEF more
  <2> QED
      BY <1>1, <1>2, <2>1, ProcessRemovedFacts
<1> HIDE DEF u, more
<1>5. u.in_document = t.in_document \ (gone \cup more)
    BY <1>1, <1>4
<1>6. /\ u.hover \in Option(t.live \ (gone \cup more))
      /\ u.focus \in Option(t.live \ (gone \cup more))
  <2>1. u.hover \in Option(t.live) /\ u.focus \in Option(t.live)
      BY <1>1, <1>4 DEF Refers
  <2>2. u.hover = None \/ u.hover \notin gone
      BY <1>1, <1>4, <1>5 DEF Option
  <2>3. u.focus = None \/ u.focus \notin gone
      BY <1>1, <1>4 DEF Option
  <2> QED
      BY <1>4, <2>1, <2>2, <2>3 DEF Option
<1>7. u.nodes_to_stylesheet \subseteq t.live \ (gone \cup more) /\ Indexed(u)
    BY <1>1, <1>4 DEF Refers
<1> QED
    BY <1>1, <1>4, <1>5, <1>6, <1>7 DEF SeveredFrom, Severed, u, more

LEMMA SeveredChildren ==
    ASSUME NEW t, Sound(t), NEW kids \in ChildLists, NEW ns \in Seq(Nodes),
           \A k \in 1..Len(ns) : Below(kids, ns[k]) = Below(t.children, ns[k]),
           NEW base \in SeveredFrom(t, kids, {})
    PROVE  Folded(ProcessRemoved, base, ns)
               \in SeveredFrom(t, kids, BelowFirst(t.children, ns, Len(ns)))
<1> DEFINE N == Len(ns)
           Is(f) == f = [k \in 0..N |-> IF k = 0 THEN base ELSE ProcessRemoved(f[k - 1], ns[k])]
           R == [k \in 0..N |-> SeveredFrom(t, kids, BelowFirst(t.children, ns, k))]
           s == [k \in 1..N |-> [u \in R[k - 1] |-> ProcessRemoved(u, ns[k])]]
           F == CHOOSE f : Is(f)
<1>0. N \in Nat
    OBVIOUS
<1>1. Folded(ProcessRemoved, base, ns) = F[N]
    BY DEF Folded
<1>2. \A k \in 0..N : R[k] = SeveredFrom(t, kids, BelowFirst(t.children, ns, k))
    OBVIOUS
<1>3. base \in R[0]
  <2>1. BelowFirst(t.children, ns, 0) = {}
      BY BelowFirstStart
  <2>2. 0 \in 0..N
      BY <1>0
  <2> HIDE DEF R
  <2> QED
      BY <1>2, <2>1, <2>2
<1>4. ASSUME NEW k \in 1..N, NEW u \in R[k - 1] PROVE ProcessRemoved(u, ns[k]) \in R[k]
  <2>1. k - 1 \in 0..N /\ k \in 0..N /\ ns[k] \in Nodes /\ k \in Nat /\ k # 0
      BY <1>0
  <2>2. u \in SeveredFrom(t, kids, BelowFirst(t.children, ns, k - 1))
      BY <1>2, <2>1
  <2>3. ProcessRemoved(u, ns[k])
            \in SeveredFrom(t, kids, BelowFirst(t.children, ns, k - 1) \cup Below(t.children, ns[k]))
      BY <2>1, <2>2, SeveredNext
  <2>4. BelowFirst(t.children, ns, k)
            = BelowFirst(t.children, ns, k - 1) \cup Below(t.children, ns[k])
      BY <2>1, BelowFirstNext
  <2> HIDE DEF R
  <2> QED
      BY <1>2, <2>1, <2>3, <2>4
<1>5. \A k \in 1..N : \A u \in R[k - 1] : s[k][u] = ProcessRemoved(u, ns[k])
    OBVIOUS
<1> HIDE DEF R, s, N
<1>6. PICK f : IsFoldOf(f, N, base, s) /\ \A k \in 0..N : f[k] \in R[k]
  <2>1. \A k \in 1..N : \A u \in R[k - 1] : s[k][u] \in R[k]
      BY <1>4, <1>5
  <2> QED
      BY <1>0, <1>3, <2>1, FoldThrough
<1>7. Is(f)
  <2>1. f = [k \in 0..N |-> IF k = 0 THEN base ELSE s[k][f[k - 1]]]
      BY <1>6 DEF IsFoldOf
  <2>2. ASSUME NEW k \in 0..N, k # 0 PROVE s[k][f[k - 1]] = ProcessRemoved(f[k - 1], ns[k])
    <3>1. k \in 1..N /\ k - 1 \in 0..N
        BY <1>0, <2>2
    <3> QED
        BY <1>5, <1>6, <3>1
  <2> QED
      BY <2>1, <2>2
<1>8. Is(F)
    BY <1>7
<1> HIDE DEF F
<1>9. F[0] = base /\ \A k \in 1..N : F[k] = ProcessRemoved(F[k - 1], ns[k])
  <2>1. 0 \in 0..N /\ \A k \in 1..N : k \in 0..N /\ k # 0
      BY <1>0
  <2> QED
      BY <1>8, <2>1
<1> HIDE DEF Is
<1>10. \A k \in 1..N : F[k - 1] \in R[k - 1] => F[k] \in R[k]
    BY <1>4, <1>9
<1>11. F[N] \in R[N]
  <2>1. F[0] \in R[0]
      BY <1>3, <1>9
  <2>2. \A k \in 0..N : F[k] \in R[k]
      BY <1>0, <1>10, <2>1, FoldStays
  <2> QED
      BY <1>0, <2>2
<1> QED
    BY <1>0, <1>1, <1>2, <1>11 DEF N

LEMMA DropAllChildrenFacts ==
    ASSUME NEW t, Sound(t), NEW p \in AllNodes, p \in t.live \cup {Document}
    PROVE  Dropped(t, DropAllChildren(t, p), UNION {Subtree(t, n) : n \in ToSet(t.children[p])})
<1>0. PICK ns, kids : ns = t.children[p] /\ kids = [t.children EXCEPT ![p] = <<>>]
    OBVIOUS
<1>1. PICK gone : gone = UNION {Subtree(t, n) : n \in ToSet(ns)}
    OBVIOUS
<1>2. /\ t \in Documents /\ IsTree(t.parent, t.children)
      /\ t.parent \in ParentMaps /\ t.children \in ChildLists
      /\ Linked(t.parent, t.children) /\ \A q \in AllNodes : IsInjective(t.children[q])
    BY DEF Sound, IsTree
<1>3. ns \in Seq(Nodes) /\ ToSet(ns) \in SUBSET Nodes /\ ToSet(ns) = Kids(t.children, p)
    BY <1>0, <1>2, SequenceElements DEF ChildLists, Kids
<1>4. gone = UNION {Below(t.children, n) : n \in ToSet(ns)}
    BY <1>1, BelowIsSubtree
<1>5. \A n \in ToSet(ns) : n \in Nodes /\ n \in AllNodes /\ t.parent[n] = p /\ p \notin Below(t.children, n)
    BY <1>2, <1>3, NotNone, BelowIsWhole DEF Linked
<1>6. gone = BelowFirst(t.children, ns, Len(ns))
  <2>1. \A n : n \in ToSet(ns) <=> \E j \in 1..Len(ns) : ns[j] = n
      BY <1>3, SequenceElements
  <2> QED
      BY <1>4, <2>1 DEF BelowFirst
<1>7. /\ \A n \in ToSet(ns) : Whole(t.children, Below(t.children, n)) /\ n \in Below(t.children, n)
                             /\ Below(t.children, n) \in SUBSET Nodes
      /\ Whole(t.children, gone) /\ p \notin gone
  <2>1. \A n \in ToSet(ns) : Whole(t.children, Below(t.children, n)) /\ n \in Below(t.children, n)
                             /\ Below(t.children, n) \in SUBSET Nodes
      BY <1>2, <1>5, BelowIsWhole DEF Whole
  <2>2. Whole(t.children, gone)
      BY <1>4, <2>1 DEF Whole
  <2> QED
      BY <1>4, <1>5, <2>1, <2>2
<1>8. \A m \in gone : m \in ToSet(ns) \/ t.parent[m] \in gone
  <2> TAKE m \in gone
  <2>1. PICK n \in ToSet(ns) : m \in Below(t.children, n)
      BY <1>4
  <2>2. m = n \/ t.parent[m] \in Below(t.children, n)
      BY <1>2, <1>5, <2>1, BelowIsWhole
  <2> QED
      BY <1>4, <2>1, <2>2
<1>9. kids \in ChildLists /\ \A q \in AllNodes : kids[q] = IF q = p THEN <<>> ELSE t.children[q]
    BY <1>0, <1>2 DEF ChildLists
<1>10. ASSUME NEW k \in 1..Len(ns) PROVE Below(kids, ns[k]) = Below(t.children, ns[k])
  <2>1. PICK n : n = ns[k]
      OBVIOUS
  <2>2. n \in ToSet(ns)
      BY <1>3, <2>1, SequenceElements
  <2>3. Below(t.children, n) \in SUBSET AllNodes
      BY <1>2, <1>5, <2>2, BelowFacts
  <2>4. \A m \in Below(t.children, n) : kids[m] = t.children[m]
      BY <1>5, <1>9, <2>2, <2>3
  <2>5. Below(kids, n) = Below(t.children, n)
      BY <1>2, <1>5, <1>9, <2>2, <2>4, BelowSame
  <2> QED
      BY <2>1, <2>5
<1>11. PICK base : base = [t EXCEPT !.children = kids]
    OBVIOUS
<1>12. base \in SeveredFrom(t, kids, {})
  <2>1. /\ base \in Documents /\ base.children = kids
        /\ base.live = t.live /\ base.unused = t.unused /\ base.parent = t.parent
        /\ base.paint_children = t.paint_children /\ base.style_nodes = t.style_nodes
        /\ base.in_document = t.in_document /\ base.id = t.id
        /\ base.hover = t.hover /\ base.focus = t.focus
        /\ base.nodes_to_stylesheet = t.nodes_to_stylesheet /\ base.nodes_to_id = t.nodes_to_id
      BY <1>2, <1>9, <1>11 DEF Documents, ChildLists
  <2> QED
      BY <2>1 DEF SeveredFrom, Severed, Sound, Refers, Indexed, Option
<1>13. PICK v : v = Folded(ProcessRemoved, base, ns)
    OBVIOUS
<1>14. v \in Documents /\ Severed(t, v, gone) /\ v.children = kids
    BY <1>3, <1>6, <1>9, <1>10, <1>12, <1>13, SeveredChildren DEF SeveredFrom
<1>15. PICK w : w = Freed(v, gone)
    OBVIOUS
<1>16. /\ w \in Documents
       /\ w.live = t.live \ gone /\ w.unused = t.unused
       /\ w.parent = Without(t.parent, gone)
       /\ \A q \in AllNodes : w.children[q] = (IF q \in gone THEN <<>> ELSE kids[q])
       /\ \A q \in AllNodes : w.paint_children[q] = (IF q \in gone THEN {} ELSE t.paint_children[q])
       /\ w.in_document = v.in_document /\ w.hover = v.hover /\ w.focus = v.focus
       /\ w.nodes_to_stylesheet = v.nodes_to_stylesheet /\ w.nodes_to_id = v.nodes_to_id /\ w.style_nodes = v.style_nodes
    BY <1>14, <1>15, FreedFacts DEF Severed
<1>16a. Indexed(w)
    BY <1>14, <1>15, FreedIsIndexed
<1>17. DropAllChildren(t, p) = Recorded(Purged(w, p, gone), p)
  <2>1. base = [t EXCEPT !.children[p] = <<>>]
      BY <1>0, <1>2, <1>11 DEF Documents
  <2> QED
      BY <1>0, <1>1, <1>13, <1>15, <2>1 DEF DropAllChildren
<1>18. Pruned(t.children, w.children, gone)
  <2>1. w.children \in ChildLists
      BY <1>16, FieldTypes
  <2>2. IsInjective(<<>>) /\ ToSet(<<>>) = {}
      BY DEF IsInjective, ToSet
  <2>3. ASSUME NEW q \in AllNodes
        PROVE  IsInjective(w.children[q])
               /\ Kids(w.children, q) = IF q \in gone THEN {} ELSE Kids(t.children, q) \ gone
    <3>1. CASE q \in gone
        BY <1>16, <2>2, <3>1 DEF Kids
    <3>2. CASE q \notin gone /\ q # p
      <4>1. w.children[q] = t.children[q]
          BY <1>9, <1>16, <3>2
      <4>2. \A m \in Kids(t.children, q) : m \in Nodes /\ t.parent[m] = q
          BY <1>2, KidsAreNodes DEF Linked
      <4>3. Kids(t.children, q) \cap gone = {}
          BY <1>5, <1>8, <3>2, <4>2
      <4> QED
          BY <1>2, <3>2, <4>1, <4>3 DEF Kids
    <3>3. CASE q = p
      <4>1. w.children[q] = <<>>
          BY <1>7, <1>9, <1>16, <3>3
      <4>2. Kids(t.children, p) \subseteq gone
          BY <1>3, <1>4, <1>7
      <4> QED
          BY <1>7, <2>2, <3>3, <4>1, <4>2 DEF Kids
    <3> QED
        BY <3>1, <3>2, <3>3
  <2> QED
      BY <2>1, <2>3 DEF Pruned
<1>19. Dropped(t, Recorded(Purged(w, p, gone), p), gone)
  <2>1. p \in (t.live \cup {Document}) \ gone
      BY <1>7
  <2>2. \A q \in AllNodes : w.paint_children[q] \subseteq t.paint_children[q]
      BY <1>16
  <2> QED
      BY <1>7, <1>14, <1>16, <1>16a, <1>18, <2>1, <2>2, DroppedFacts
<1> QED
    BY <1>0, <1>1, <1>17, <1>19

LEMMA LeafBelow ==
    ASSUME NEW par, NEW kids, IsTree(par, kids), NEW n \in AllNodes, \A m \in Nodes : par[m] # n
    PROVE  Below(kids, n) = {n}
<1>1. kids \in ChildLists /\ Linked(par, kids) /\ Kids(kids, n) \in SUBSET Nodes
    BY KidsAreNodes DEF IsTree
<1>2. Kids(kids, n) = {}
    BY <1>1 DEF Linked
<1>3. PICK T : T = {n}
    OBVIOUS
<1>4. T \in SUBSET AllNodes /\ n \in T /\ \A m \in T : Kids(kids, m) \subseteq T
    BY <1>2, <1>3
<1>5. n \in Below(kids, n) /\ Below(kids, n) \subseteq T
    BY <1>1, <1>4, BelowFacts
<1> QED
    BY <1>3, <1>5

LEMMA OneNode ==
    ASSUME NEW n \in Nodes
    PROVE  <<n>> \in Seq(Nodes) /\ IsInjective(<<n>>) /\ ToSet(<<n>>) = {n}
BY DEF IsInjective, ToSet

(* One node that is below no other, and nothing below it, goes anywhere.   *)
LEMMA LeafFits ==
    ASSUME NEW t, Sound(t), NEW p \in AllNodes, p \in t.live \cup {Document},
           NEW n \in Nodes, n \in t.live, n # p, \A m \in Nodes : t.parent[m] # n
    PROVE  Moved(t, AppendChildren(t, p, <<n>>), [t.parent EXCEPT ![n] = p])
<1>1. Below(t.children, n) = {n}
    BY NotNone, LeafBelow DEF Sound
<1>2. Fits(t, p, <<n>>, None)
    BY <1>1, OneNode DEF Fits
<1>3. Moved(t, AppendChildren(t, p, <<n>>), Placed(t.parent, p, <<n>>))
    BY <1>2, InsertNodesIsSound DEF AppendChildren
<1>4. Placed(t.parent, p, <<n>>) = [t.parent EXCEPT ![n] = p]
  <2>1. t.parent \in ParentMaps
      BY FieldTypes DEF Sound
  <2> QED
      BY <2>1, OneNode DEF Placed, ParentMaps
<1> QED
    BY <1>3, <1>4

LEMMA UnusedFacts ==
    ASSUME NEW t, Sound(t), NEW n \in t.unused
    PROVE  /\ n \in Nodes /\ n \notin t.live /\ t.parent[n] = None
           /\ \A m \in Nodes : t.parent[m] # n
<1>1. n \in Nodes /\ n \notin t.live
    BY FieldTypes DEF Sound, Lives
<1> QED
    BY <1>1, NotNone DEF Sound, Lives

(* The markup is a new child of p.                                         *)
Parsed(t, u, p, root, n) ==
    /\ Sound(u)
    /\ u.live = t.live \cup {n} /\ u.unused = t.unused \ {root, n}
    /\ u.parent = [t.parent EXCEPT ![n] = p]
    /\ \A q \in AllNodes : u.paint_children[q] \subseteq t.paint_children[q]
    /\ t.style_nodes \subseteq u.style_nodes
    /\ u.style_nodes \subseteq t.style_nodes \cup Styles(u.live)

LEMMA ParseInnerHtmlFacts ==
    ASSUME NEW t, Sound(t), NEW p \in Nodes, p \in t.live,
           NEW root \in t.unused, NEW n \in t.unused, root # n, Kind[root] = "element",
           NEW i \in Option(Ids)
    PROVE  Parsed(t, ParseInnerHtml(t, p, root, n, i), p, root, n)
<1>0. /\ root \in Nodes /\ n \in Nodes /\ root \notin t.live /\ n \notin t.live
      /\ t.parent[root] = None /\ t.parent[n] = None
      /\ \A m \in Nodes : t.parent[m] # root /\ t.parent[m] # n
      /\ t.parent \in ParentMaps /\ t.live \in SUBSET Nodes
    BY UnusedFacts, FieldTypes DEF Sound
<1>1. PICK a : a = CreateNode(t, root)
    OBVIOUS
<1>2. SameLinks(t, a) /\ a.live = t.live \cup {root} /\ a.unused = t.unused \ {root}
    BY <1>1, CreatedIsSound
<1>3. PICK b : b = CreateNode(a, n)
    OBVIOUS
<1>4. SameLinks(a, b) /\ b.live = t.live \cup {root, n} /\ b.unused = t.unused \ {root, n}
  <2>1. n \in a.unused /\ Sound(a)
      BY <1>2 DEF SameLinks
  <2> QED
      BY <1>2, <1>3, <2>1, CreatedIsSound
<1>5. PICK c : c = SetId(b, n, i)
    OBVIOUS
<1>6. SameLinks(b, c) /\ c.live = t.live \cup {root, n} /\ c.unused = t.unused \ {root, n}
    BY <1>0, <1>4, <1>5, NamedIsSound DEF SameLinks
<1>7. /\ Sound(c) /\ c.parent = t.parent
      /\ c.paint_children = t.paint_children /\ c.style_nodes = t.style_nodes
    BY <1>2, <1>4, <1>6 DEF SameLinks
<1>8. PICK d : d = AppendChildren(c, Document, <<root>>)
    OBVIOUS
<1>9. Moved(c, d, [t.parent EXCEPT ![root] = Document])
  <2>1. root # Document /\ root \in c.live /\ Document \in AllNodes
      BY <1>0, <1>6, NotNone
  <2> QED
      BY <1>0, <1>7, <1>8, <2>1, LeafFits
<1>10. /\ Sound(d) /\ Keeps(c, d)
       /\ \A m \in Nodes : d.parent[m] = IF m = root THEN Document ELSE t.parent[m]
    BY <1>0, <1>9 DEF Moved, ParentMaps
<1>11. PICK e : e = AppendChildren(d, root, <<n>>)
    OBVIOUS
<1>12. Moved(d, e, [d.parent EXCEPT ![n] = root])
  <2>1. root \in AllNodes /\ root \in d.live /\ n \in d.live
      BY <1>0, <1>6, <1>10, NotNone DEF Keeps
  <2>2. \A m \in Nodes : d.parent[m] # n
      BY <1>0, <1>10, NotNone
  <2> QED
      BY <1>0, <1>10, <1>11, <2>1, <2>2, LeafFits
<1>13. /\ Sound(e) /\ Keeps(d, e) /\ e.parent \in ParentMaps
       /\ \A m \in Nodes : e.parent[m] = CASE m = n -> root [] m # n -> d.parent[m]
  <2>1. d.parent \in ParentMaps /\ e.parent \in ParentMaps
      BY <1>10, <1>12, FieldTypes DEF Sound, Moved
  <2> QED
      BY <1>0, <1>12, <2>1 DEF Moved, ParentMaps
<1>14. PICK f : f = AppendChildren(e, p, <<n>>)
    OBVIOUS
<1>15. Moved(e, f, [e.parent EXCEPT ![n] = p])
  <2>1. p \in AllNodes /\ p \in e.live /\ n \in e.live /\ n # p
      BY <1>0, <1>6, <1>10, <1>13, NotNone DEF Keeps
  <2>2. \A m \in Nodes : e.parent[m] # n
      BY <1>0, <1>10, <1>13, NotNone
  <2> QED
      BY <1>0, <1>13, <1>14, <2>1, <2>2, LeafFits
<1>16. /\ Sound(f) /\ Keeps(e, f)
       /\ \A m \in Nodes : f.parent[m] = CASE m = n -> p [] m # n -> e.parent[m]
    BY <1>0, <1>13, <1>15 DEF Moved, ParentMaps
<1>17. PICK u : u = RemoveAndDrop(f, root)
    OBVIOUS
<1>18. Subtree(f, root) = {root}
  <2>1. \A m \in Nodes : f.parent[m] # root
      BY <1>0, <1>10, <1>13, <1>16, NotNone
  <2> QED
      BY <1>0, <1>16, <2>1, LeafBelow, BelowIsSubtree, NotNone DEF Sound
<1>19. Dropped(f, u, {root})
    BY <1>0, <1>16, <1>17, <1>18, RemoveAndDropFacts
<1>20. /\ f.live = t.live \cup {root, n} /\ f.unused = t.unused \ {root, n}
       /\ f.paint_children = t.paint_children
       /\ t.style_nodes \subseteq f.style_nodes
       /\ f.style_nodes \subseteq t.style_nodes \cup Styles(t.live \cup {root, n})
    BY <1>6, <1>7, <1>10, <1>13, <1>16 DEF Keeps
<1>21. u.live = t.live \cup {n} /\ u.unused = t.unused \ {root, n}
    BY <1>0, <1>19, <1>20 DEF Dropped
<1>22. Styles(t.live \cup {root, n}) \subseteq Styles(u.live)
    BY <1>21 DEF Styles
<1>23. /\ t.style_nodes \subseteq u.style_nodes
       /\ u.style_nodes \subseteq t.style_nodes \cup Styles(u.live)
    BY <1>19, <1>20, <1>22 DEF Dropped
<1>24. u.parent = [t.parent EXCEPT ![n] = p]
  <2>1. u.parent = [m \in Nodes |-> IF m = root THEN None ELSE f.parent[m]]
      BY <1>19 DEF Dropped, Without
  <2>2. ASSUME NEW m \in Nodes PROVE u.parent[m] = [t.parent EXCEPT ![n] = p][m]
      BY <1>0, <1>10, <1>13, <1>16, <2>1 DEF ParentMaps
  <2> QED
      BY <1>0, <2>1, <2>2 DEF ParentMaps
<1>25. Parsed(t, u, p, root, n)
    BY <1>19, <1>20, <1>21, <1>23, <1>24 DEF Parsed, Dropped
<1> QED
    BY <1>1, <1>3, <1>5, <1>8, <1>11, <1>14, <1>17, <1>25 DEF ParseInnerHtml

LEMMA InnerHtmlIsReady ==
    ASSUME NEW t, Ready(t), NEW p \in Nodes, p \in t.live,
           NEW root \in t.unused, NEW n \in t.unused, root # n, Kind[root] = "element",
           NEW i \in Option(Ids)
    PROVE  Ready(ParseInnerHtml(DropAllChildren(RemoveChildren(t, p), p), p, root, n, i))
<1>0. p \in AllNodes
    BY NotNone
<1>1. PICK v : v = RemoveChildren(t, p)
    OBVIOUS
<1>2. Moves(t, v) /\ v.children[p] = <<>>
    BY <1>0, <1>1, EmptyMoves
<1>3. Sound(v) /\ v.live = t.live /\ v.unused = t.unused /\ v.paint_children = t.paint_children
      /\ v.style_nodes \subseteq Styles(t.live)
    BY <1>2 DEF Moves, Ready
<1>4. PICK w : w = DropAllChildren(v, p)
    OBVIOUS
<1>5. PICK gone : gone = UNION {Subtree(v, m) : m \in ToSet(v.children[p])}
    OBVIOUS
<1>6. gone = {}
  <2>1. ToSet(v.children[p]) = {}
      BY <1>2 DEF ToSet
  <2> QED
      BY <1>5, <2>1
<1>7. Dropped(v, w, gone)
    BY <1>0, <1>3, <1>4, <1>5, DropAllChildrenFacts
<1>8. /\ Sound(w) /\ w.live = t.live /\ w.unused = t.unused
      /\ \A q \in AllNodes : w.paint_children[q] \subseteq t.paint_children[q]
      /\ w.style_nodes \subseteq Styles(t.live)
    BY <1>3, <1>6, <1>7 DEF Dropped
<1>9. PICK u : u = ParseInnerHtml(w, p, root, n, i)
    OBVIOUS
<1>10. Parsed(w, u, p, root, n)
    BY <1>8, <1>9, ParseInnerHtmlFacts
<1>11. u.live = t.live \cup {n} /\ u.style_nodes \subseteq Styles(t.live) \cup Styles(u.live)
    BY <1>8, <1>10 DEF Parsed
<1>12. u.style_nodes \subseteq Styles(u.live)
    BY <1>11 DEF Styles
<1>13. \A q \in AllNodes : u.paint_children[q] \subseteq u.live
  <2> TAKE q \in AllNodes
  <2>1. u.paint_children[q] \subseteq w.paint_children[q] /\ w.paint_children[q] \subseteq t.paint_children[q]
      BY <1>8, <1>10 DEF Parsed
  <2>2. t.paint_children[q] \subseteq t.live
      BY DEF Ready
  <2> QED
      BY <1>11, <2>1, <2>2
<1>14. Ready(u)
    BY <1>10, <1>12, <1>13 DEF Ready, Parsed
<1> QED
    BY <1>1, <1>4, <1>9, <1>14

-----------------------------------------------------------------------------
(* Clones.                                                                 *)

(* A copy of the links between the nodes of D, under fresh names, beside   *)
(* the tree.                                                               *)
CopyTree(par, kids, D, fresh, F, of, par2, kids2) ==
    /\ D \in SUBSET Nodes /\ F \in SUBSET Nodes
    /\ fresh \in [D -> F] /\ of \in [F -> D]
    /\ \A x \in D : of[fresh[x]] = x
    /\ \A m \in F : fresh[of[m]] = m
    /\ \A x \in D : Kids(kids, x) \subseteq D
    /\ \A m \in F : par[m] = None /\ \A x \in Nodes : par[x] # m
    /\ par2 = [m \in Nodes |-> IF m \in F
                               THEN IF par[of[m]] = None \/ par[of[m]] \notin D THEN None
                                    ELSE fresh[par[of[m]]]
                               ELSE par[m]]
    /\ kids2 = [m \in AllNodes |-> IF m \in F
                                   THEN [i \in DOMAIN kids[of[m]] |-> fresh[kids[of[m]][i]]]
                                   ELSE kids[m]]

IsCopy(copy, list, fresh) == copy = [i \in DOMAIN list |-> fresh[list[i]]]

Copied(copy, list, fresh) ==
    /\ copy \in Seq(Nodes) /\ IsInjective(copy)
    /\ ToSet(copy) = {fresh[x] : x \in ToSet(list)}

LEMMA CopiedList ==
    ASSUME NEW D \in SUBSET Nodes, NEW F \in SUBSET Nodes, NEW fresh \in [D -> F],
           \A x, y \in D : fresh[x] = fresh[y] => x = y,
           NEW list \in Seq(Nodes), ToSet(list) \subseteq D, IsInjective(list),
           NEW copy, IsCopy(copy, list, fresh)
    PROVE  Copied(copy, list, fresh)
<1>1. DOMAIN list = 1..Len(list) /\ Len(list) \in Nat
    OBVIOUS
<1>2. \A i \in DOMAIN list : list[i] \in D
    BY DEF ToSet
<1>3. \A i \in 1..Len(list) : copy[i] = fresh[list[i]] /\ copy[i] \in Nodes
    BY <1>1, <1>2 DEF IsCopy
<1>4. copy \in [1..Len(list) -> Nodes]
    BY <1>1, <1>3 DEF IsCopy
<1>5. copy \in Seq(Nodes) /\ DOMAIN copy = DOMAIN list
    BY <1>1, <1>4
<1>6. IsInjective(copy)
    BY <1>1, <1>2, <1>3, <1>5 DEF IsInjective
<1>7. ToSet(copy) = {fresh[x] : x \in ToSet(list)}
    BY <1>1, <1>3, <1>5 DEF ToSet
<1> QED
    BY <1>5, <1>6, <1>7 DEF Copied

LEMMA CopiedTree ==
    ASSUME NEW par, NEW kids, IsTree(par, kids), NEW D, NEW fresh, NEW F, NEW of,
           NEW par2, NEW kids2, CopyTree(par, kids, D, fresh, F, of, par2, kids2)
    PROVE  IsTree(par2, kids2)
<1>1. /\ D \in SUBSET Nodes /\ F \in SUBSET Nodes
      /\ fresh \in [D -> F] /\ of \in [F -> D]
      /\ \A x \in D : of[fresh[x]] = x
      /\ \A m \in F : fresh[of[m]] = m
      /\ \A x \in D : Kids(kids, x) \subseteq D
      /\ \A m \in F : par[m] = None /\ \A x \in Nodes : par[x] # m
    BY DEF CopyTree
<1>2. /\ par \in ParentMaps /\ kids \in ChildLists /\ Linked(par, kids)
      /\ \A q \in AllNodes : IsInjective(kids[q])
    BY DEF IsTree
<1>3. \A m \in Nodes : par2[m] = IF m \in F
                                 THEN IF par[of[m]] = None \/ par[of[m]] \notin D THEN None
                                      ELSE fresh[par[of[m]]]
                                 ELSE par[m]
    BY DEF CopyTree
<1>4. \A m \in F : m \in Nodes /\ of[m] \in D /\ of[m] \in Nodes /\ of[m] \in AllNodes
    BY <1>1, NotNone
<1>5. par2 \in ParentMaps
  <2>1. \A m \in Nodes : par2[m] \in AllNodes \cup {None}
      BY <1>1, <1>2, <1>3, NotNone DEF ParentMaps, Option
  <2>2. DOMAIN par2 = Nodes /\ par2 = [m \in Nodes |-> par2[m]]
      BY DEF CopyTree
  <2> QED
      BY <2>1, <2>2 DEF ParentMaps, Option
<1>6. \A x, y \in D : fresh[x] = fresh[y] => x = y
    BY <1>1
<1>7. \A q \in AllNodes : kids[q] \in Seq(Nodes) /\ Kids(kids, q) \in SUBSET Nodes
    BY <1>2, KidsAreNodes DEF ChildLists
<1>8. ASSUME NEW m \in F
      PROVE  /\ kids2[m] \in Seq(Nodes) /\ IsInjective(kids2[m])
             /\ Kids(kids2, m) = {fresh[x] : x \in Kids(kids, of[m])}
  <2>1. PICK list : list = kids[of[m]]
      OBVIOUS
  <2>2. list \in Seq(Nodes) /\ ToSet(list) \subseteq D /\ IsInjective(list)
      BY <1>1, <1>2, <1>4, <1>7, <2>1 DEF Kids
  <2>3. m \in AllNodes
      BY <1>4, NotNone
  <2>4. IsCopy(kids2[m], list, fresh)
      BY <2>1, <2>3 DEF CopyTree, IsCopy
  <2>5. Copied(kids2[m], list, fresh)
      BY <1>1, <1>6, <2>2, <2>4, CopiedList
  <2> QED
      BY <2>1, <2>5 DEF Kids, Copied
<1>9. \A q \in AllNodes \ F : kids2[q] = kids[q] /\ Kids(kids2, q) = Kids(kids, q)
    BY DEF CopyTree, Kids
<1>10. kids2 \in ChildLists /\ \A q \in AllNodes : IsInjective(kids2[q])
  <2>1. \A q \in AllNodes : kids2[q] \in Seq(Nodes) /\ IsInjective(kids2[q])
      BY <1>2, <1>7, <1>8, <1>9
  <2>2. kids2 = [q \in AllNodes |-> kids2[q]]
      BY DEF CopyTree
  <2> QED
      BY <2>1, <2>2 DEF ChildLists
<1>11. ASSUME NEW m \in Nodes, NEW q \in AllNodes
       PROVE  m \in Kids(kids2, q) <=> par2[m] = q
  <2>1. CASE q \in F /\ m \in F
    <3>1. m \in Kids(kids2, q) <=> of[m] \in Kids(kids, of[q])
      <4>1. \A x \in Kids(kids, of[q]) : x \in D
          BY <1>1, <1>4, <2>1
      <4> QED
          BY <1>1, <1>8, <2>1, <4>1
    <3>2. of[m] \in Kids(kids, of[q]) <=> par[of[m]] = of[q]
        BY <1>2, <1>4, <2>1 DEF Linked
    <3>3. par[of[m]] = of[q] <=> par2[m] = q
        BY <1>1, <1>3, <1>4, <2>1, NotNone
    <3> QED
        BY <3>1, <3>2, <3>3
  <2>2. CASE q \in F /\ m \notin F
    <3>1. m \notin Kids(kids2, q)
      <4>1. \A x \in Kids(kids, of[q]) : x \in D
          BY <1>1, <1>4, <2>2
      <4> QED
          BY <1>1, <1>8, <2>2, <4>1
    <3>2. par2[m] # q
        BY <1>1, <1>3, <2>2
    <3> QED
        BY <3>1, <3>2
  <2>3. CASE q \notin F /\ m \in F
    <3>1. m \notin Kids(kids, q)
        BY <1>1, <1>2, <2>3, NotNone DEF Linked
    <3>2. par2[m] # q
        BY <1>1, <1>3, <1>4, <2>3, NotNone
    <3> QED
        BY <1>9, <2>3, <3>1, <3>2
  <2>4. CASE q \notin F /\ m \notin F
      BY <1>2, <1>3, <1>9, <2>4 DEF Linked
  <2> QED
      BY <2>1, <2>2, <2>3, <2>4
<1>12. \E h \in [AllNodes -> Nat] : Ranked(par2, h)
  <2>1. PICK h \in [AllNodes -> Nat] : Ranked(par, h)
      BY DEF IsTree
  <2> DEFINE g == [m \in AllNodes |-> IF m \in F THEN h[of[m]] ELSE h[m]]
  <2>2. g \in [AllNodes -> Nat]
      BY <1>4
  <2>3. \A m \in AllNodes : g[m] = IF m \in F THEN h[of[m]] ELSE h[m]
      OBVIOUS
  <2> HIDE DEF g
  <2>4. ASSUME NEW m \in Nodes, par2[m] # None PROVE g[par2[m]] < g[m]
    <3>1. CASE m \in F
      <4>1. par[of[m]] # None /\ par[of[m]] \in D /\ par2[m] = fresh[par[of[m]]]
          BY <1>3, <2>4, <3>1
      <4>2. fresh[par[of[m]]] \in F /\ of[fresh[par[of[m]]]] = par[of[m]]
          BY <1>1, <4>1
      <4>3. h[par[of[m]]] < h[of[m]]
          BY <1>4, <2>1, <3>1, <4>1 DEF Ranked
      <4>4. m \in AllNodes /\ par2[m] \in AllNodes /\ par2[m] \in F
          BY <1>4, <3>1, <4>1, <4>2, NotNone
      <4> QED
          BY <2>3, <3>1, <4>1, <4>2, <4>3, <4>4
    <3>2. CASE m \notin F
      <4>1. par2[m] = par[m] /\ par[m] # None
          BY <1>3, <2>4, <3>2
      <4>2. par[m] \notin F /\ par[m] \in AllNodes /\ m \in AllNodes
          BY <1>1, <1>2, <4>1, NotNone DEF ParentMaps, Option
      <4>3. h[par[m]] < h[m]
          BY <2>1, <4>1 DEF Ranked
      <4> QED
          BY <2>3, <3>2, <4>1, <4>2, <4>3
    <3> QED
        BY <3>1, <3>2
  <2> QED
      BY <2>2, <2>4 DEF Ranked
<1> QED
    BY <1>5, <1>10, <1>11, <1>12 DEF IsTree, Linked

LEMMA DeepCloneIsReady ==
    ASSUME NEW t, Ready(t), NEW n \in Nodes, NEW fresh \in [Subtree(t, n) -> t.unused],
           IsInjective(fresh)
    PROVE  Ready(DeepClone(t, fresh))
<1>0. PICK D, F : D = Below(t.children, n) /\ F = ToSet(fresh)
    OBVIOUS
<1>1. /\ Sound(t) /\ t \in Documents /\ IsTree(t.parent, t.children) /\ t.parent \in ParentMaps
      /\ t.children \in ChildLists /\ t.unused \in SUBSET Nodes /\ t.live \in SUBSET Nodes
      /\ t.id \in [Nodes -> Option(Ids)] /\ n \in AllNodes
    BY FieldTypes, NotNone DEF Ready, Sound
<1>2. D \in SUBSET Nodes /\ DOMAIN fresh = D /\ \A x \in D : Kids(t.children, x) \subseteq D
    BY <1>0, <1>1, BelowFacts, BelowIsSubtree
<1>3. F = {fresh[x] : x \in D} /\ fresh \in [D -> F] /\ F \in SUBSET t.unused /\ F \in SUBSET Nodes
    BY <1>0, <1>1, <1>2 DEF ToSet
<1>4. PICK of : of = [m \in F |-> CHOOSE x \in D : fresh[x] = m]
    OBVIOUS
<1>5. of \in [F -> D] /\ \A m \in F : fresh[of[m]] = m
    BY <1>3, <1>4
<1>6. \A x \in D : of[fresh[x]] = x
    BY <1>2, <1>3, <1>5 DEF IsInjective
<1>7. \A m \in F : m \in Nodes /\ m \notin t.live /\ t.parent[m] = None /\ \A x \in Nodes : t.parent[x] # m
    BY <1>1, <1>3, UnusedFacts
<1> DEFINE par == [m \in Nodes |-> IF m \in F
                                   THEN IF t.parent[of[m]] = None \/ t.parent[of[m]] \notin D THEN None
                                        ELSE fresh[t.parent[of[m]]]
                                   ELSE t.parent[m]]
           kids == [m \in AllNodes |-> IF m \in F
                                       THEN [i \in DOMAIN t.children[of[m]] |-> fresh[t.children[of[m]][i]]]
                                       ELSE t.children[m]]
           id == [m \in Nodes |-> IF m \in F THEN t.id[of[m]] ELSE t.id[m]]
           u == DeepClone(t, fresh)
<1>8. CopyTree(t.parent, t.children, D, fresh, F, of, par, kids)
    BY <1>2, <1>3, <1>5, <1>6, <1>7 DEF CopyTree
<1>9. id \in [Nodes -> Option(Ids)]
    BY <1>1, <1>2, <1>5
<1>10. \A m \in Nodes : par[m] = IF m \in F
                                 THEN IF t.parent[of[m]] = None \/ t.parent[of[m]] \notin D THEN None
                                      ELSE fresh[t.parent[of[m]]]
                                 ELSE t.parent[m]
    OBVIOUS
<1>11. u = [t EXCEPT !.unused = @ \ F, !.live = @ \cup F, !.id = id, !.parent = par, !.children = kids]
    BY <1>0, <1>1, <1>2, <1>4, <1>5 DEF DeepClone, Documents
<1>11a. \A m \in Nodes : id[m] = IF m \in F THEN t.id[of[m]] ELSE t.id[m]
    OBVIOUS
<1> HIDE DEF par, kids, id, u
<1>12. IsTree(par, kids)
    BY <1>1, <1>8, CopiedTree
<1>13. par \in [Nodes -> Option(AllNodes)] /\ kids \in [AllNodes -> Seq(Nodes)]
    BY <1>12 DEF IsTree, ParentMaps, ChildLists
<1>14. u \in Documents
    BY <1>1, <1>3, <1>9, <1>11, <1>13 DEF Documents
<1>15. /\ u.unused = t.unused \ F /\ u.live = t.live \cup F
       /\ u.parent = par /\ u.children = kids
       /\ u.in_document = t.in_document /\ u.hover = t.hover /\ u.focus = t.focus
       /\ u.paint_children = t.paint_children /\ u.id = id
       /\ u.nodes_to_stylesheet = t.nodes_to_stylesheet /\ u.nodes_to_id = t.nodes_to_id /\ u.style_nodes = t.style_nodes
    BY <1>1, <1>11 DEF Documents
<1>16. /\ \A m \in F : par[m] \in F \cup {None}
       /\ \A m \in Nodes \ F : par[m] = t.parent[m]
    BY <1>3, <1>5, <1>7, <1>10
<1>17. F \cap t.in_document = {}
    BY <1>1, <1>7, NotNone DEF Sound, Refers
<1>18. Flags(par, t.in_document, {})
  <2>1. None \notin t.in_document
      BY <1>1, FieldTypes, NotNone
  <2> QED
      BY <1>1, <1>16, <1>17, <2>1 DEF Sound, Flags
<1>19. Lives(u)
    BY <1>1, <1>15, <1>16 DEF Sound, Lives
<1>20. Refers(u)
  <2>1. Indexed(u)
      BY <1>1, <1>11a, <1>15, <1>17 DEF Sound, Refers, Indexed
  <2> QED
      BY <1>1, <1>15, <2>1 DEF Sound, Refers, Option
<1>21. Sound(u)
    BY <1>12, <1>14, <1>15, <1>18, <1>19, <1>20 DEF Sound
<1>22. u.style_nodes \subseteq Styles(u.live) /\ \A q \in AllNodes : u.paint_children[q] \subseteq u.live
    BY <1>15 DEF Ready, Styles
<1> QED
    BY <1>21, <1>22 DEF Ready, u

-----------------------------------------------------------------------------
(* Layout and the pointer.                                                 *)

LEMMA FirstChildIsLive ==
    ASSUME NEW t, Sound(t)
    PROVE  /\ {FirstChild(t, Document)} \ {None} \in SUBSET AllNodes
           /\ {FirstChild(t, Document)} \ {None} \subseteq t.live
           /\ {FirstChild(t, Document)} \ {None} \subseteq t.in_document \cap Nodes
<1>1. FirstChild(t, Document) = None
      \/ (FirstChild(t, Document) \in Nodes /\ t.parent[FirstChild(t, Document)] = Document)
    BY FirstChildFacts, NotNone
<1> QED
    BY <1>1, NotNone DEF Sound, Lives, Flags

LEMMA VisitedWithin ==
    ASSUME NEW t, Sound(t), NEW T \in SUBSET AllNodes,
           {FirstChild(t, Document)} \ {None} \subseteq T,
           \A m \in T : t.paint_children[m] \subseteq T
    PROVE  Visited(t) \subseteq T
<1>1. t.paint_children \in [AllNodes -> SUBSET AllNodes]
    BY FieldTypes, NotNone DEF Sound
<1>2. PICK from : from = {FirstChild(t, Document)} \ {None}
    OBVIOUS
<1>3. from \in SUBSET AllNodes /\ from \subseteq T
    BY <1>2, FirstChildIsLive
<1>4. Closed(T, t.paint_children)
    BY DEF Closed
<1>5. Reached(t.paint_children, from) \subseteq T
    BY <1>1, <1>3, <1>4, ReachedProperties
<1> QED
    BY <1>2, <1>5 DEF Visited

LEMMA VisitedIsLive ==
    ASSUME NEW t, Ready(t) PROVE Visited(t) \subseteq t.live
<1>1. Sound(t) /\ t.live \in SUBSET AllNodes
    BY FieldTypes, NotNone DEF Ready, Sound
<1>2. \A m \in t.live : t.paint_children[m] \subseteq t.live
    BY <1>1 DEF Ready
<1> QED
    BY <1>1, <1>2, FirstChildIsLive, VisitedWithin

Rebuilt(t) == [n \in AllNodes |-> IF n \in t.in_document THEN ToSet(t.children[n]) ELSE t.paint_children[n]]

LEMMA PaintedFacts ==
    ASSUME NEW t, Sound(t)
    PROVE  /\ Rebuilt(t) \in [AllNodes -> SUBSET Nodes]
           /\ \A n \in t.in_document : Rebuilt(t)[n] \subseteq t.in_document \cap Nodes
           /\ Visited(Painted(t)) \subseteq t.in_document \cap Nodes
           /\ Visited(Painted(t)) \subseteq t.live
<1>1. /\ t \in Documents /\ t.children \in ChildLists /\ Linked(t.parent, t.children)
      /\ t.in_document \in SUBSET AllNodes /\ t.paint_children \in [AllNodes -> SUBSET Nodes]
    BY FieldTypes DEF Sound, IsTree
<1>2. \A n \in AllNodes : ToSet(t.children[n]) = Kids(t.children, n) /\ Kids(t.children, n) \in SUBSET Nodes
    BY <1>1, KidsAreNodes DEF Kids
<1>3. Rebuilt(t) \in [AllNodes -> SUBSET Nodes]
    BY <1>1, <1>2 DEF Rebuilt
<1>4. \A n \in t.in_document : Rebuilt(t)[n] \subseteq t.in_document \cap Nodes
  <2>1. \A n \in t.in_document : Rebuilt(t)[n] = Kids(t.children, n)
      BY <1>1, <1>2 DEF Rebuilt
  <2>2. \A n \in t.in_document : \A m \in Kids(t.children, n) : m \in Nodes /\ t.parent[m] = n
      BY <1>1, <1>2 DEF Linked
  <2> QED
      BY <2>1, <2>2 DEF Sound, Flags
<1>5. PICK u : u = Painted(t)
    OBVIOUS
<1>6. u = [t EXCEPT !.paint_children = Rebuilt(t)]
    BY <1>1, <1>5 DEF Painted, Rebuilt, Documents
<1>7. /\ u \in Documents /\ u.parent = t.parent /\ u.children = t.children
      /\ u.in_document = t.in_document /\ u.id = t.id /\ u.hover = t.hover /\ u.focus = t.focus
      /\ u.live = t.live /\ u.unused = t.unused /\ u.paint_children = Rebuilt(t)
      /\ u.nodes_to_stylesheet = t.nodes_to_stylesheet /\ u.nodes_to_id = t.nodes_to_id
    BY <1>1, <1>3, <1>6 DEF Documents
<1>8. Sound(u)
    BY <1>7 DEF Sound, Lives, Refers, Indexed
<1>9. PICK T : T = t.in_document \cap Nodes
    OBVIOUS
<1>10. T \in SUBSET AllNodes /\ \A m \in T : u.paint_children[m] \subseteq T
    BY <1>1, <1>4, <1>7, <1>9
<1>11. {FirstChild(u, Document)} \ {None} \subseteq T
    BY <1>7, <1>8, <1>9, FirstChildIsLive
<1>12. Visited(u) \subseteq T
    BY <1>8, <1>10, <1>11, VisitedWithin
<1>13. T \subseteq t.live
    BY <1>9, NotNone DEF Sound, Refers
<1> QED
    BY <1>3, <1>4, <1>5, <1>9, <1>12, <1>13

Listed(t, u, lists) ==
    /\ Sound(u) /\ u.parent = t.parent /\ u.children = t.children
    /\ u.live = t.live /\ u.unused = t.unused
    /\ u.paint_children = lists /\ u.style_nodes = t.style_nodes

LEMMA ListedIsSound ==
    ASSUME NEW t, Sound(t), NEW hover \in Option(t.live), NEW focus \in Option(t.live),
           NEW lists \in [AllNodes -> SUBSET Nodes]
    PROVE  Listed(t, [t EXCEPT !.hover = hover, !.focus = focus, !.paint_children = lists], lists)
<1> DEFINE u == [t EXCEPT !.hover = hover, !.focus = focus, !.paint_children = lists]
<1>1. t \in Documents /\ t.live \in SUBSET Nodes
    BY FieldTypes DEF Sound
<1>2. hover \in Option(Nodes) /\ focus \in Option(Nodes)
    BY <1>1 DEF Option
<1>3. /\ u \in Documents /\ u.parent = t.parent /\ u.children = t.children
      /\ u.in_document = t.in_document /\ u.id = t.id /\ u.hover = hover /\ u.focus = focus
      /\ u.live = t.live /\ u.unused = t.unused /\ u.paint_children = lists
      /\ u.nodes_to_stylesheet = t.nodes_to_stylesheet /\ u.nodes_to_id = t.nodes_to_id /\ u.style_nodes = t.style_nodes
    BY <1>1, <1>2 DEF Documents
<1> HIDE DEF u
<1>4. Lives(u) /\ Refers(u)
    BY <1>3 DEF Sound, Lives, Refers, Indexed
<1>5. Sound(u)
    BY <1>3, <1>4 DEF Sound
<1> QED
    BY <1>3, <1>5 DEF u, Listed

(* What the pointer and the focus do to the document.                      *)
Pointed(t, u) ==
    /\ Sound(u) /\ u.parent = t.parent /\ u.children = t.children
    /\ u.live = t.live /\ u.unused = t.unused /\ u.style_nodes = t.style_nodes
    /\ (\A n \in AllNodes : t.paint_children[n] \subseteq t.live)
           => \A n \in AllNodes : u.paint_children[n] \subseteq t.live

LEMMA HoveredIsPointed ==
    ASSUME NEW t, Sound(t), NEW n \in Option(t.live) PROVE Pointed(t, [t EXCEPT !.hover = n])
<1>1. t \in Documents /\ t.focus \in Option(t.live) /\ t.paint_children \in [AllNodes -> SUBSET Nodes]
    BY FieldTypes DEF Sound, Refers
<1>2. PICK u : u = [t EXCEPT !.hover = n, !.focus = t.focus, !.paint_children = t.paint_children]
    OBVIOUS
<1>3. u = [t EXCEPT !.hover = n]
    BY <1>1, <1>2 DEF Documents
<1>4. Listed(t, u, t.paint_children)
    BY <1>1, <1>2, ListedIsSound
<1>5. Pointed(t, u)
    BY <1>4 DEF Pointed, Listed
<1> QED
    BY <1>3, <1>5

LEMMA FocusedIsPointed ==
    ASSUME NEW t, Sound(t), NEW n \in Option(t.live) PROVE Pointed(t, [t EXCEPT !.focus = n])
<1>1. t \in Documents /\ t.hover \in Option(t.live) /\ t.paint_children \in [AllNodes -> SUBSET Nodes]
    BY FieldTypes DEF Sound, Refers
<1>2. PICK u : u = [t EXCEPT !.hover = t.hover, !.focus = n, !.paint_children = t.paint_children]
    OBVIOUS
<1>3. u = [t EXCEPT !.focus = n]
    BY <1>1, <1>2 DEF Documents
<1>4. Listed(t, u, t.paint_children)
    BY <1>1, <1>2, ListedIsSound
<1>5. Pointed(t, u)
    BY <1>4 DEF Pointed, Listed
<1> QED
    BY <1>3, <1>5

LEMMA ResolvedIsPointed ==
    ASSUME NEW t, Sound(t), NEW n \in Option(Visited(Painted(t)))
    PROVE  Pointed(t, [Painted(t) EXCEPT !.hover = n])
<1>1. t \in Documents /\ t.focus \in Option(t.live)
    BY FieldTypes DEF Sound, Refers
<1>2. n \in Option(t.live)
    BY PaintedFacts DEF Option
<1>3. PICK u : u = [t EXCEPT !.hover = n, !.focus = t.focus, !.paint_children = Rebuilt(t)]
    OBVIOUS
<1>4. u = [Painted(t) EXCEPT !.hover = n]
    BY <1>1, <1>3 DEF Painted, Rebuilt, Documents
<1>5. Listed(t, u, Rebuilt(t))
    BY <1>1, <1>2, <1>3, PaintedFacts, ListedIsSound
<1>6. ASSUME \A m \in AllNodes : t.paint_children[m] \subseteq t.live, NEW m \in AllNodes
      PROVE  Rebuilt(t)[m] \subseteq t.live
  <2>1. CASE m \in t.in_document
      BY <2>1, PaintedFacts, NotNone DEF Sound, Refers
  <2>2. CASE m \notin t.in_document
      BY <1>6, <2>2 DEF Rebuilt
  <2> QED
      BY <2>1, <2>2
<1>7. Pointed(t, u)
    BY <1>5, <1>6 DEF Pointed, Listed
<1> QED
    BY <1>4, <1>7

LEMMA PointedStaysReady ==
    ASSUME NEW t, Ready(t), NEW u, Pointed(t, u) PROVE Ready(u)
BY DEF Ready, Pointed

-----------------------------------------------------------------------------
(* The calls of scripts.                                                   *)

LEMMA FlushKeepsReady ==
    ASSUME NEW u, Ready(u), Flush(u)
    PROVE  Ready(dom') /\ dom' = Flushed(u) /\ panicked' = panicked
<1>1. u.style_nodes \subseteq u.live
    BY DEF Ready, Styles
<1>2. dom' = Flushed(u) /\ panicked' = panicked
    BY <1>1 DEF Flush
<1> QED
    BY <1>2, FlushedIsReady DEF Moves

LEMMA MovesFlush ==
    ASSUME NEW u, Moves(dom, u), Flush(u) PROVE Ready(dom') /\ panicked' = panicked
BY FlushKeepsReady DEF Moves

LEMMA CallFacts ==
    ASSUME Ready(dom), NEW p \in Parents, NEW new \in Insertable(p)
    PROVE  InNewParent(dom, Emptied(dom, new), new, Expanded(dom, new), p)
<1>1. p \in AllNodes /\ p \in dom.live \cup {Document}
    BY ParentsFacts
<1>2. MayInsert(dom, p, new)
    BY InsertableFacts
<1> QED
    BY <1>1, <1>2, ExpandedFacts

LEMMA ParentIsAParent ==
    ASSUME Ready(dom), NEW n \in Parented
    PROVE  /\ dom.parent[n] \in Parents /\ n \in Nodes /\ n \in dom.live
           /\ dom.parent[n] # None /\ dom.parent[n] \in AllNodes
BY ParentsFacts DEF Parents, Parented

LEMMA CreateElementStep ==
    ASSUME Ready(dom), CreateElement PROVE Ready(dom') /\ panicked' = panicked
<1>1. PICK n \in dom.unused : Flush(CreateNode(dom, n))
    BY DEF CreateElement
<1> QED
    BY <1>1, CreatedIsReady, FlushKeepsReady

AppendsSomehow(p, new) ==
    LET u == Emptied(dom, new)
        ns == Expanded(dom, new)
    IN  \/ Flush(AppendChildren(DetachAll(u, ns), p, ns))
        \/ Flush(AppendChildren(u, p, ns))
        \/ Flush(PrependNodes(u, p, ns))
        \/ Flush(ReplaceChildren(u, p, ns))

LEMMA AppendStep ==
    ASSUME Ready(dom), AppendChild \/ Append2 \/ Prepend \/ ReplaceAllChildren
    PROVE  Ready(dom') /\ panicked' = panicked
<1>1. PICK p \in Parents : \E new \in Insertable(p) : AppendsSomehow(p, new)
  <2>1. CASE AppendChild
      BY <2>1 DEF AppendChild, AppendsSomehow
  <2>2. CASE Append2
      BY <2>2 DEF Append2, AppendsSomehow
  <2>3. CASE Prepend
      BY <2>3 DEF Prepend, AppendsSomehow
  <2>4. CASE ReplaceAllChildren
      BY <2>4 DEF ReplaceAllChildren, AppendsSomehow
  <2> QED
      BY <2>1, <2>2, <2>3, <2>4
<1>2. PICK new \in Insertable(p) : AppendsSomehow(p, new)
    BY <1>1
<1>3. PICK u, ns : u = Emptied(dom, new) /\ ns = Expanded(dom, new)
    OBVIOUS
<1>4. InNewParent(dom, u, new, ns, p)
    BY <1>3, CallFacts
<1>5. /\ Moves(dom, AppendChildren(DetachAll(u, ns), p, ns))
      /\ Moves(dom, AppendChildren(u, p, ns))
      /\ Moves(dom, PrependNodes(u, p, ns))
      /\ Moves(dom, ReplaceChildren(u, p, ns))
    BY <1>4, AppendMoves, PrependMoves, ReplaceChildrenMoves
<1> QED
    BY <1>2, <1>3, <1>5, MovesFlush DEF AppendsSomehow

GoesAround(n, new) ==
    LET u == Emptied(dom, new)
        ns == Expanded(dom, new)
    IN  \/ Flush(BeforeNode(u, n, ns))
        \/ Flush(AfterNode(u, n, ns))
        \/ Flush(ReplaceWithNodes(u, n, ns))

LEMMA AroundStep ==
    ASSUME Ready(dom), Before \/ After \/ ReplaceWith
    PROVE  Ready(dom') /\ panicked' = panicked
<1>1. PICK n \in Parented : \E new \in Insertable(dom.parent[n]) : GoesAround(n, new)
  <2>1. CASE Before
      BY <2>1 DEF Before, GoesAround
  <2>2. CASE After
      BY <2>2 DEF After, GoesAround
  <2>3. CASE ReplaceWith
      BY <2>3 DEF ReplaceWith, GoesAround
  <2> QED
      BY <2>1, <2>2, <2>3
<1>2. PICK new \in Insertable(dom.parent[n]) : GoesAround(n, new)
    BY <1>1
<1>3. PICK u, ns, p : u = Emptied(dom, new) /\ ns = Expanded(dom, new) /\ p = dom.parent[n]
    OBVIOUS
<1>4. p \in Parents /\ n \in Nodes
    BY <1>3, ParentIsAParent
<1>5. InNewParent(dom, u, new, ns, p)
    BY <1>3, <1>4, CallFacts
<1>6. Moves(dom, BeforeNode(u, n, ns)) /\ Moves(dom, ReplaceWithNodes(u, n, ns))
    BY <1>3, <1>4, <1>5, BeforeMoves, ReplaceWithMoves
<1>7. Moves(dom, AfterNode(u, n, ns))
  <2>1. Moves(dom, InsertNodes(DetachAll(u, ns), u.parent[n], ns, ViableNext(u, n, ns)))
      BY <1>3, <1>4, <1>5, AfterFits
  <2> QED
      BY <2>1 DEF AfterNode
<1> QED
    BY <1>2, <1>3, <1>6, <1>7, MovesFlush DEF GoesAround

GoesBefore(ref, p, new) ==
    /\ Len(new) = 1 /\ Head(new) # ref
    /\ \A n \in ToSet(Expanded(dom, new)) : dom.parent[ref] \notin Subtree(dom, n)
    /\ LET ns == Expanded(dom, new)
           t == DetachAll(Emptied(dom, new), ns)
       IN  Flush(IF t.parent[ref] # None THEN InsertNodesBefore(t, ref, ns)
                 ELSE AppendChildren(t, p, ns))

LEMMA InsertBeforeStep ==
    ASSUME Ready(dom), InsertBefore PROVE Ready(dom') /\ panicked' = panicked
<1>1. PICK ref \in Parented, p \in Parents : \E new \in Insertable(p) : GoesBefore(ref, p, new)
    BY DEF InsertBefore, GoesBefore
<1>2. PICK new \in Insertable(p) : GoesBefore(ref, p, new)
    BY <1>1
<1>3. PICK u, ns, q, v : /\ u = Emptied(dom, new) /\ ns = Expanded(dom, new) /\ q = dom.parent[ref]
                         /\ v = DetachAll(u, ns)
    OBVIOUS
<1>4. InNewParent(dom, u, new, ns, p)
    BY <1>3, CallFacts
<1>5. DetachedFor(dom, u, v, ns, p)
    BY <1>3, <1>4, DetachedFacts
<1>6. Moves(dom, v) /\ v.parent = Without(u.parent, ToSet(ns)) /\ Ready(v)
    BY <1>5 DEF DetachedFor, Moves
<1>7. CASE v.parent[ref] # None
  <2>1. q \in Parents /\ q \in AllNodes /\ q \in dom.live \cup {Document} /\ ref \in Nodes
      BY <1>3, ParentIsAParent, ParentsFacts
  <2>2. ref \notin ToSet(ns) /\ v.parent[ref] = q
      BY <1>3, <1>4, <1>6, <1>7, <2>1 DEF Without, InNewParent, CutFrom
  <2>3. Fits(dom, q, ns, None)
    <3>1. \A n \in ToSet(ns) : q \notin Below(dom.children, n)
        BY <1>2, <1>3, BelowIsSubtree DEF GoesBefore
    <3> QED
        BY <1>4, <2>1, <3>1 DEF InNewParent, Fits
  <2>4. CutFrom(v.parent, dom.parent)
      BY <1>4, <1>6 DEF Without, InNewParent, CutFrom
  <2>5. Fits(v, q, ns, ref)
      BY <1>6, <2>1, <2>2, <2>3, <2>4, StillFits DEF Moves, Ready
  <2>6. Moves(dom, InsertNodes(v, q, ns, ref))
      BY <1>6, <2>5, InsertMoves, MovesIsTransitive
  <2>7. Flush(InsertNodes(v, q, ns, ref))
      BY <1>2, <1>3, <1>7, <2>2 DEF InsertNodesBefore, GoesBefore
  <2> QED
      BY <2>6, <2>7, MovesFlush
<1>8. CASE v.parent[ref] = None
  <2>1. Moves(dom, AppendChildren(v, p, ns))
      BY <1>3, <1>4, AppendMoves
  <2>2. Flush(AppendChildren(v, p, ns))
      BY <1>2, <1>3, <1>8 DEF GoesBefore
  <2> QED
      BY <2>1, <2>2, MovesFlush
<1> QED
    BY <1>7, <1>8

TakesPlaceOf(old, new) ==
    /\ Len(new) = 1 /\ Head(new) # old
    /\ LET ns == Expanded(dom, new) IN
       Flush(RemoveNode(InsertNodesBefore(DetachAll(Emptied(dom, new), ns), old, ns), old))

LEMMA ReplaceChildStep ==
    ASSUME Ready(dom), ReplaceChild PROVE Ready(dom') /\ panicked' = panicked
<1>1. PICK old \in Parented : \E new \in Insertable(dom.parent[old]) : TakesPlaceOf(old, new)
    BY DEF ReplaceChild, TakesPlaceOf
<1>2. PICK new \in Insertable(dom.parent[old]) : TakesPlaceOf(old, new)
    BY <1>1
<1>3. PICK u, ns, p, v : /\ u = Emptied(dom, new) /\ ns = Expanded(dom, new) /\ p = dom.parent[old]
                         /\ v = DetachAll(u, ns)
    OBVIOUS
<1>4. p \in Parents /\ old \in Nodes
    BY <1>3, ParentIsAParent
<1>5. InNewParent(dom, u, new, ns, p) /\ MayInsert(dom, p, new)
    BY <1>3, <1>4, CallFacts, InsertableFacts
<1>6. old \notin ToSet(new)
  <2>1. new \in Seq(Nodes)
      BY <1>5 DEF MayInsert
  <2>2. \A m \in ToSet(new) : m = Head(new)
      BY <1>2, <2>1 DEF ToSet, TakesPlaceOf
  <2> QED
      BY <1>2, <2>2 DEF TakesPlaceOf
<1>7. old \notin ToSet(ns) /\ u.parent[old] = p
    BY <1>3, <1>4, <1>5, <1>6 DEF InNewParent
<1>8. v.parent = Without(u.parent, ToSet(ns))
    BY <1>3, <1>5, DetachedFacts DEF DetachedFor
<1>9. v.parent[old] = p
    BY <1>4, <1>7, <1>8 DEF Without
<1>10. Moves(dom, RemoveNode(InsertNodesBefore(v, old, ns), old))
    BY <1>3, <1>4, <1>5, <1>9, ReplaceMoves
<1> QED
    BY <1>2, <1>3, <1>10, MovesFlush DEF TakesPlaceOf

LEMMA RemovalStep ==
    ASSUME Ready(dom), (\E n \in Nodes : RemoveChild(n)) \/ (\E p \in AllNodes : SetTextContent(p))
    PROVE  Ready(dom') /\ panicked' = panicked
<1>1. CASE \E n \in Nodes : RemoveChild(n)
  <2>1. PICK n \in Nodes : Flush(RemoveNode(dom, n))
      BY <1>1 DEF RemoveChild
  <2>2. Moves(dom, RemoveNode(dom, n))
      BY RemoveMoves
  <2> QED
      BY <2>1, <2>2, MovesFlush
<1>2. CASE \E p \in AllNodes : SetTextContent(p)
  <2>1. PICK p \in AllNodes : Flush(RemoveChildren(dom, p))
      BY <1>2 DEF SetTextContent
  <2>2. Moves(dom, RemoveChildren(dom, p))
      BY EmptyMoves
  <2> QED
      BY <2>1, <2>2, MovesFlush
<1> QED
    BY <1>1, <1>2

LEMMA TreeCallStep ==
    ASSUME Ready(dom), TreeCall PROVE Ready(dom') /\ panicked' = panicked
BY CreateElementStep, AppendStep, InsertBeforeStep, ReplaceChildStep, RemovalStep, AroundStep
   DEF TreeCall

LEMMA ContentStep ==
    ASSUME Ready(dom), CloneNode \/ SetAttribute \/ SetInnerHtml
    PROVE  Ready(dom') /\ panicked' = panicked
<1>1. dom.live \in SUBSET Nodes
    BY FieldTypes DEF Ready, Sound
<1>2. CASE CloneNode
  <2>1. PICK n \in dom.live :
            \E fresh \in [Subtree(dom, n) -> dom.unused] :
                IsInjective(fresh) /\ Flush(DeepClone(dom, fresh))
      BY <1>2 DEF CloneNode
  <2>2. PICK fresh \in [Subtree(dom, n) -> dom.unused] :
            IsInjective(fresh) /\ Flush(DeepClone(dom, fresh))
      BY <2>1
  <2>3. Ready(DeepClone(dom, fresh))
      BY <1>1, <2>2, DeepCloneIsReady
  <2> QED
      BY <2>2, <2>3, FlushKeepsReady
<1>3. CASE SetAttribute
  <2>1. PICK n \in dom.live, i \in Option(Ids) : Flush(SetId(dom, n, i))
      BY <1>3 DEF SetAttribute
  <2> QED
      BY <1>1, <2>1, NamedIsReady, FlushKeepsReady
<1>4. CASE SetInnerHtml
  <2>1. PICK p \in Parents \ {Document}, root, n \in dom.unused, i \in Option(Ids) :
            /\ root # n /\ Kind[root] = "element"
            /\ Flush(ParseInnerHtml(DropAllChildren(RemoveChildren(dom, p), p), p, root, n, i))
      BY <1>4 DEF SetInnerHtml
  <2>2. p \in Nodes /\ p \in dom.live
      BY <1>1, <2>1 DEF Parents
  <2>3. Ready(ParseInnerHtml(DropAllChildren(RemoveChildren(dom, p), p), p, root, n, i))
      BY <2>1, <2>2, InnerHtmlIsReady
  <2> QED
      BY <2>1, <2>3, FlushKeepsReady
<1> QED
    BY <1>2, <1>3, <1>4

(* The pointer and the focus move a sound document, and panic only if a    *)
(* paint list that is followed names a dropped node.                       *)
LEMMA PointerStep ==
    ASSUME Sound(dom), SetHover \/ Resolve
    PROVE  /\ Pointed(dom, dom')
           /\ panicked' # panicked => ~(Visited(dom) \subseteq dom.live)
<1>1. CASE Resolve
  <2>1. PICK n \in Option(Visited(Painted(dom))) : dom' = [Painted(dom) EXCEPT !.hover = n]
      BY <1>1 DEF Resolve
  <2>2. PICK u : u = [Painted(dom) EXCEPT !.hover = n]
      OBVIOUS
  <2>3. Pointed(dom, u)
      BY <2>2, ResolvedIsPointed
  <2> QED
      BY <1>1, <2>1, <2>2, <2>3 DEF Resolve
<1>2. CASE SetHover
  <2>1. CASE \E n \in Option(Visited(dom) \cap dom.live) :
                 dom' = [dom EXCEPT !.hover = n] /\ UNCHANGED panicked
    <3>1. PICK n \in Option(Visited(dom) \cap dom.live) :
              dom' = [dom EXCEPT !.hover = n] /\ UNCHANGED panicked
        BY <2>1
    <3>2. n \in Option(dom.live)
        BY DEF Option
    <3>3. Pointed(dom, [dom EXCEPT !.hover = n])
        BY <3>2, HoveredIsPointed
    <3> QED
        BY <3>1, <3>3
  <2>2. CASE ~(Visited(dom) \subseteq dom.live) /\ dom' = dom
      BY <2>2 DEF Pointed
  <2> QED
      BY <1>2, <2>1, <2>2 DEF SetHover
<1> QED
    BY <1>1, <1>2

LEMMA PointerStaysReady ==
    ASSUME Ready(dom), SetHover \/ Resolve PROVE Ready(dom') /\ panicked' = panicked
<1>1. Sound(dom) /\ Visited(dom) \subseteq dom.live
    BY VisitedIsLive DEF Ready
<1>2. Pointed(dom, dom') /\ panicked' = panicked
    BY <1>1, PointerStep
<1> QED
    BY <1>2, PointedStaysReady

(* What flushing does to a document that may hold dropped style elements.  *)
LEMMA FlushedIsSound ==
    ASSUME NEW t, Sound(t), t.style_nodes \subseteq t.live
    PROVE  /\ Sound(Flushed(t))
           /\ Flushed(t).parent = t.parent /\ Flushed(t).children = t.children
           /\ Flushed(t).live = t.live /\ Flushed(t).unused = t.unused
<1> DEFINE u == Flushed(t)
<1>1. t \in Documents /\ t.style_nodes \in SUBSET Nodes /\ t.nodes_to_stylesheet \in SUBSET Nodes
    BY FieldTypes DEF Sound
<1>2. u = [t EXCEPT !.nodes_to_stylesheet = @ \cup t.style_nodes, !.style_nodes = {}]
    BY DEF Flushed
<1> HIDE DEF u
<1>3. /\ u \in Documents /\ u.parent = t.parent /\ u.children = t.children
      /\ u.in_document = t.in_document /\ u.id = t.id /\ u.nodes_to_id = t.nodes_to_id
      /\ u.hover = t.hover /\ u.focus = t.focus
      /\ u.live = t.live /\ u.unused = t.unused
      /\ u.nodes_to_stylesheet = t.nodes_to_stylesheet \cup t.style_nodes
    BY <1>1, <1>2 DEF Documents
<1>4. Lives(u) /\ Refers(u)
    BY <1>3 DEF Sound, Lives, Refers, Indexed
<1>5. Sound(u)
    BY <1>3, <1>4 DEF Sound
<1> QED
    BY <1>3, <1>5 DEF u

LEMMA FlushStep ==
    ASSUME NEW t, Sound(t), Flush(t)
    PROVE  /\ Sound(dom') /\ dom'.parent = t.parent /\ dom'.children = t.children
           /\ dom'.live = t.live /\ dom'.unused = t.unused
BY FlushedIsSound DEF Flush

-----------------------------------------------------------------------------
(* What Dioxus has mapped.                                                 *)

(* A set that shares no link with the other nodes.                         *)
Split(par, dead) == \A n \in Nodes : par[n] # None => (n \in dead <=> par[n] \in dead)

Inverses(to_node, to_element) ==
    /\ \A e \in ElementIds : to_node[e] # None => to_element[to_node[e]] = e
    /\ \A n \in Nodes : to_element[n] # None => to_node[to_element[n]] = n

(* Mapped elements are nodes, and those that are not mounted are in dead,  *)
(* apart from the rest.                                                    *)
Accounted(live, to_node, in_use, dead) ==
    /\ \A e \in ElementIds : to_node[e] \in Option(live)
    /\ \A e \in in_use : to_node[e] # None /\ to_node[e] \notin dead
    /\ \A e \in ElementIds \ in_use : to_node[e] # None => to_node[e] \in dead

OnStack(to_node, in_use, st) ==
    /\ IsInjective(st)
    /\ \A x \in ToSet(st) : \E e \in in_use : to_node[e] = x

Standing(live, par, to_node, to_element, st, in_use, dead) ==
    /\ dead \subseteq live
    /\ Split(par, dead)
    /\ Inverses(to_node, to_element)
    /\ Accounted(live, to_node, in_use, dead)
    /\ OnStack(to_node, in_use, st)

Stands(dead) ==
    Standing(dom.live, dom.parent, node_id_mapping, element_id_mapping, stack, mounted, dead)

(* All that Dioxus maps, holds and has put aside is in order.              *)
MappedNow(dead) == Sound(dom) /\ WriterTypeOK /\ Stands(dead)

LEMMA NoneIsNone == None \notin Nodes /\ None \notin ElementIds /\ Document \notin Nodes /\ None # Document
BY NotNone, ElementIdsAssumption DEF AllNodes

(* Cutting links keeps sets apart, and so do links between nodes outside.  *)
LEMMA SplitCut ==
    ASSUME NEW par, NEW dead, Split(par, dead), NEW cut, CutFrom(cut, par)
    PROVE  Split(cut, dead)
BY DEF Split, CutFrom

LEMMA SplitPlaced ==
    ASSUME NEW par, NEW dead, Split(par, dead), NEW p, p \notin dead, NEW ns,
           ToSet(ns) \cap dead = {}
    PROVE  Split(Placed(par, p, ns), dead)
BY DEF Split, Placed

(* What is below a node is on its side.                                    *)
LEMMA BelowSplit ==
    ASSUME NEW par, NEW kids, IsTree(par, kids), NEW dead, Split(par, dead), NEW n \in Nodes
    PROVE  /\ n \in dead /\ dead \in SUBSET Nodes => Below(kids, n) \subseteq dead
           /\ n \notin dead => Below(kids, n) \cap dead = {}
<1>1. kids \in ChildLists /\ Linked(par, kids) /\ n \in AllNodes /\ Nodes \in SUBSET AllNodes
    BY NotNone DEF IsTree
<1>2. \A m \in Nodes : \A c \in Kids(kids, m) : c \in Nodes /\ par[c] = m
    BY <1>1, KidsAreNodes, NotNone DEF Linked
<1>3. \A m \in Nodes : \A c \in Kids(kids, m) : c \in dead <=> m \in dead
    BY <1>2, NotNone DEF Split
<1>4. \A T \in SUBSET AllNodes :
          n \in T /\ (\A m \in T : Kids(kids, m) \subseteq T) => Below(kids, n) \subseteq T
    BY <1>1, BelowFacts
<1>5. ASSUME n \in dead, dead \in SUBSET Nodes PROVE Below(kids, n) \subseteq dead
  <2>1. \A m \in dead : Kids(kids, m) \subseteq dead
      BY <1>3, <1>5
  <2>2. dead \in SUBSET AllNodes
      BY <1>1, <1>5
  <2> QED
      BY <1>4, <1>5, <2>1, <2>2
<1>6. ASSUME n \notin dead PROVE Below(kids, n) \cap dead = {}
  <2>1. PICK T : T = Nodes \ dead
      OBVIOUS
  <2>2. \A m \in T : Kids(kids, m) \subseteq T
      BY <1>2, <1>3, <2>1
  <2>3. T \in SUBSET AllNodes /\ n \in T
      BY <1>1, <1>6, <2>1
  <2>4. Below(kids, n) \subseteq T
      BY <1>4, <2>2, <2>3
  <2> QED
      BY <2>1, <2>4
<1> QED
    BY <1>5, <1>6

(* Dropping a set with all below it, and putting one aside.                *)
LEMMA SplitDropped ==
    ASSUME NEW par, NEW kids, IsTree(par, kids), NEW dead, Split(par, dead),
           NEW gone, Whole(kids, gone)
    PROVE  Split(Without(par, gone), dead \ gone)
<1>1. \A m \in Nodes, q \in AllNodes : par[m] = q => m \in Kids(kids, q)
    BY DEF IsTree, Linked
<1>2. \A m \in Nodes : par[m] \in gone => m \in gone
    BY <1>1, NotNone DEF Whole
<1> QED
    BY <1>2 DEF Split, Without

LEMMA SplitAside ==
    ASSUME NEW par, NEW kids, IsTree(par, kids), NEW dead, Split(par, dead), NEW n \in Nodes
    PROVE  Split(Without(par, {n}), dead \cup Below(kids, n))
<1>1. n \in AllNodes
    BY NotNone
<1>2. /\ \A m \in Below(kids, n) \ {n} : m \in Nodes /\ par[m] \in Below(kids, n)
      /\ \A m \in Nodes : par[m] \in Below(kids, n) => m \in Below(kids, n)
    BY <1>1, BelowLinks
<1> QED
    BY <1>2 DEF Split, Without

MapsTyped(to_node, to_element) ==
    /\ to_node \in [ElementIds -> Option(Nodes)]
    /\ to_element \in [Nodes -> Option(ElementIds)]

(* set_id_mapping, as the two maps that it makes of these.                 *)
Reassigned(to_node, to_element, e, n, to_node2, to_element2) ==
    LET old == to_node[e]
        cleared == IF old # None /\ to_element[old] = e
                   THEN [to_element EXCEPT ![old] = None] ELSE to_element
    IN  to_node2 = [to_node EXCEPT ![e] = n] /\ to_element2 = [cleared EXCEPT ![n] = e]

LEMMA ReassignedFacts ==
    ASSUME NEW to_node, NEW to_element, MapsTyped(to_node, to_element),
           Inverses(to_node, to_element),
           NEW e \in ElementIds, NEW n \in Nodes, to_element[n] = None,
           NEW to_node2, NEW to_element2,
           Reassigned(to_node, to_element, e, n, to_node2, to_element2)
    PROVE  MapsTyped(to_node2, to_element2) /\ Inverses(to_node2, to_element2)
<1> DEFINE old == to_node[e]
<1>1. old \in Option(Nodes) /\ None \notin Nodes /\ None \notin ElementIds
    BY NoneIsNone DEF MapsTyped
<1>2. PICK cleared :
          cleared = IF old # None /\ to_element[old] = e
                    THEN [to_element EXCEPT ![old] = None] ELSE to_element
    OBVIOUS
<1>3. to_node2 = [to_node EXCEPT ![e] = n] /\ to_element2 = [cleared EXCEPT ![n] = e]
    BY <1>2 DEF Reassigned
<1>4. cleared \in [Nodes -> Option(ElementIds)]
    BY <1>1, <1>2 DEF MapsTyped, Option
<1>5. \A m \in Nodes : cleared[m] = IF m = old /\ to_element[m] = e THEN None ELSE to_element[m]
    BY <1>1, <1>2 DEF MapsTyped, Option
<1> HIDE DEF old
<1>6. /\ to_node2 \in [ElementIds -> Option(Nodes)]
      /\ \A x \in ElementIds : to_node2[x] = IF x = e THEN n ELSE to_node[x]
    BY <1>3 DEF MapsTyped, Option
<1>7. /\ to_element2 \in [Nodes -> Option(ElementIds)]
      /\ \A m \in Nodes : to_element2[m] = IF m = n THEN e ELSE cleared[m]
    BY <1>3, <1>4 DEF Option
<1>8. ASSUME NEW x \in ElementIds, to_node2[x] # None PROVE to_element2[to_node2[x]] = x
  <2>1. CASE x = e
      BY <1>6, <1>7, <2>1
  <2>2. CASE x # e
    <3>1. to_node2[x] = to_node[x] /\ to_node[x] \in Nodes
        BY <1>6, <1>8, <2>2 DEF MapsTyped, Option
    <3>2. to_element[to_node[x]] = x
        BY <1>8, <3>1 DEF Inverses
    <3>3. to_node[x] # n /\ cleared[to_node[x]] = x
        BY <1>1, <1>5, <2>2, <3>1, <3>2
    <3> QED
        BY <1>7, <3>1, <3>3
  <2> QED
      BY <2>1, <2>2
<1>9. ASSUME NEW m \in Nodes, to_element2[m] # None PROVE to_node2[to_element2[m]] = m
  <2>1. CASE m = n
      BY <1>6, <1>7, <2>1
  <2>2. CASE m # n
    <3>1. to_element2[m] = to_element[m] /\ to_element[m] # None /\ ~(m = old /\ to_element[m] = e)
        BY <1>5, <1>7, <1>9, <2>2
    <3>2. to_element[m] \in ElementIds /\ to_node[to_element[m]] = m
        BY <3>1 DEF Inverses, MapsTyped, Option
    <3>3. to_element[m] # e
        BY <3>1, <3>2 DEF old
    <3> QED
        BY <1>6, <3>1, <3>2, <3>3
  <2> QED
      BY <2>1, <2>2
<1> QED
    BY <1>6, <1>7, <1>8, <1>9 DEF MapsTyped, Inverses

LEMMA ReassignedIsAccounted ==
    ASSUME NEW to_node, NEW to_element, MapsTyped(to_node, to_element),
           NEW in_use \in SUBSET ElementIds, NEW dead, NEW live \in SUBSET Nodes,
           Accounted(live, to_node, in_use, dead),
           NEW e \in ElementIds, NEW n \in live, n \notin dead,
           NEW to_node2, NEW to_element2,
           Reassigned(to_node, to_element, e, n, to_node2, to_element2)
    PROVE  Accounted(live, to_node2, in_use \cup {e}, dead)
<1>1. to_node2 = [to_node EXCEPT ![e] = n] /\ n # None
    BY NoneIsNone DEF Reassigned
<1>2. \A x \in ElementIds : to_node2[x] = IF x = e THEN n ELSE to_node[x]
    BY <1>1 DEF MapsTyped
<1>3. /\ \A x \in ElementIds : to_node[x] \in Option(live)
      /\ \A x \in in_use : to_node[x] # None /\ to_node[x] \notin dead
      /\ \A x \in ElementIds \ in_use : to_node[x] # None => to_node[x] \in dead
    BY DEF Accounted
<1>4. \A x \in ElementIds : to_node2[x] \in Option(live)
    BY <1>2, <1>3 DEF Option
<1>5. \A x \in in_use \cup {e} : to_node2[x] # None /\ to_node2[x] \notin dead
    BY <1>1, <1>2, <1>3
<1>6. \A x \in ElementIds \ (in_use \cup {e}) : to_node2[x] # None => to_node2[x] \in dead
    BY <1>2, <1>3
<1> QED
    BY <1>4, <1>5, <1>6 DEF Accounted

(* What stays on the stack does so under a larger set of mounted elements, *)
(* and a node that is mapped anew may join it.                             *)
LEMMA OnStackAfter ==
    ASSUME NEW to_node \in [ElementIds -> Option(Nodes)],
           NEW in_use \in SUBSET ElementIds, NEW st, OnStack(to_node, in_use, st),
           NEW e \in ElementIds, e \notin in_use, NEW n,
           NEW to_node2, to_node2 = [to_node EXCEPT ![e] = n]
    PROVE  OnStack(to_node2, in_use \cup {e}, st)
<1>1. \A x \in in_use : to_node2[x] = to_node[x]
    OBVIOUS
<1> QED
    BY <1>1 DEF OnStack

(* Pushing, and cutting the stack.                                         *)
LEMMA Pushed ==
    ASSUME NEW st \in Seq(Nodes), NEW to_node, NEW in_use, OnStack(to_node, in_use, st),
           NEW n \in Nodes, n \notin ToSet(st), \E e \in in_use : to_node[e] = n
    PROVE  Append(st, n) \in Seq(Nodes) /\ OnStack(to_node, in_use, Append(st, n))
<1>1. PICK one : one = <<n>>
    OBVIOUS
<1>2. one \in Seq(Nodes) /\ IsInjective(one) /\ ToSet(one) = {n}
    BY <1>1, OneNode
<1>3. IsInjective(st) /\ ToSet(st) \cap ToSet(one) = {}
    BY <1>2 DEF OnStack
<1>4. /\ st \o one \in Seq(Nodes) /\ ToSet(st \o one) = ToSet(st) \cup {n}
      /\ IsInjective(st \o one)
    BY <1>2, <1>3, ConcatFacts
<1>5. Append(st, n) = st \o one
    BY <1>1
<1> QED
    BY <1>4, <1>5 DEF OnStack

LEMMA StackPieces ==
    ASSUME NEW st \in Seq(Nodes), IsInjective(st), NEW m \in 1..Len(st)
    PROVE  LET top == SubSeq(st, Len(st) - m + 1, Len(st))
               below == SubSeq(st, 1, Len(st) - m)
           IN  /\ top \in Seq(Nodes) /\ IsInjective(top) /\ ToSet(top) \subseteq ToSet(st)
               /\ below \in Seq(Nodes) /\ IsInjective(below) /\ ToSet(below) \subseteq ToSet(st)
               /\ ToSet(top) \cap ToSet(below) = {}
               /\ m < Len(st) => Last(below) \in ToSet(below) /\ Last(below) \in ToSet(st)
<1> DEFINE lo == Len(st) - m + 1
           hi == Len(st) - m
           top == SubSeq(st, lo, Len(st))
           below == SubSeq(st, 1, hi)
<1>1. lo \in 1..Len(st) + 1 /\ Len(st) \in 0..Len(st) /\ 1 \in 1..Len(st) + 1 /\ hi \in 0..Len(st)
      /\ Len(st) \in Nat /\ hi < lo /\ m \in Nat
    OBVIOUS
<1>2. /\ top \in Seq(Nodes) /\ ToSet(top) = {st[i] : i \in lo..Len(st)} /\ IsInjective(top)
      /\ below \in Seq(Nodes) /\ ToSet(below) = {st[i] : i \in 1..hi} /\ IsInjective(below)
    BY <1>1, Pieces
<1>3. ToSet(st) = {st[i] : i \in 1..Len(st)}
    BY DEF ToSet
<1>4. \A i, j \in 1..Len(st) : st[i] = st[j] => i = j
    BY DEF IsInjective
<1> HIDE DEF top, below
<1>5. ToSet(top) \subseteq ToSet(st) /\ ToSet(below) \subseteq ToSet(st)
    BY <1>1, <1>2, <1>3
<1>6. ToSet(top) \cap ToSet(below) = {}
  <2>1. ASSUME NEW i \in lo..Len(st), NEW j \in 1..hi, st[i] = st[j] PROVE FALSE
    <3>1. i \in 1..Len(st) /\ j \in 1..Len(st) /\ i # j
        BY <1>1
    <3> QED
        BY <1>4, <2>1, <3>1
  <2> QED
      BY <1>2, <2>1
<1>7. ASSUME m < Len(st) PROVE Last(below) \in ToSet(below)
  <2>1. hi \in 1..Len(st) /\ Len(below) = hi /\ below[hi] = st[hi]
      BY <1>1, <1>7 DEF below
  <2> QED
      BY <1>2, <2>1 DEF Last
<1> QED
    BY <1>2, <1>5, <1>6, <1>7 DEF top, below

LEMMA MappedFacts ==
    ASSUME NEW dead, MappedNow(dead)
    PROVE  /\ dom.live \in SUBSET Nodes /\ dead \in SUBSET Nodes /\ dead \subseteq dom.live
           /\ dom.parent \in ParentMaps /\ IsTree(dom.parent, dom.children) /\ Lives(dom)
           /\ MapsTyped(node_id_mapping, element_id_mapping) /\ mounted \in SUBSET ElementIds
           /\ stack \in Seq(Nodes) /\ IsInjective(stack) /\ None \notin ElementIds
           /\ \A e \in mounted : /\ NodeOf(e) = node_id_mapping[e] /\ NodeOf(e) \in Nodes
                                 /\ NodeOf(e) \in dom.live /\ NodeOf(e) \notin dead
           /\ \A x \in ToSet(stack) : /\ x \in dom.live /\ x \notin dead
                                      /\ element_id_mapping[x] # None
                                      /\ \E e \in mounted : node_id_mapping[e] = x
<1>1. /\ dom.live \in SUBSET Nodes /\ dom.parent \in ParentMaps
      /\ IsTree(dom.parent, dom.children) /\ Lives(dom)
    BY FieldTypes DEF MappedNow, Sound
<1>2. /\ dead \subseteq dom.live
      /\ Accounted(dom.live, node_id_mapping, mounted, dead)
      /\ Inverses(node_id_mapping, element_id_mapping)
      /\ OnStack(node_id_mapping, mounted, stack)
    BY DEF MappedNow, Stands, Standing
<1>3. /\ MapsTyped(node_id_mapping, element_id_mapping) /\ mounted \in SUBSET ElementIds
      /\ stack \in Seq(Nodes)
    BY DEF MappedNow, WriterTypeOK, MapsTyped
<1>4. None \notin Nodes /\ None \notin ElementIds
    BY NoneIsNone
<1>5. \A e \in mounted : /\ NodeOf(e) = node_id_mapping[e] /\ NodeOf(e) \in Nodes
                         /\ NodeOf(e) \in dom.live /\ NodeOf(e) \notin dead
                         /\ element_id_mapping[NodeOf(e)] # None
    BY <1>1, <1>2, <1>3, <1>4 DEF NodeOf, Accounted, Inverses, Option
<1>6. \A x \in ToSet(stack) : \E e \in mounted : node_id_mapping[e] = x
    BY <1>2 DEF OnStack
<1>7. IsInjective(stack)
    BY <1>2 DEF OnStack
<1> QED
    BY <1>1, <1>2, <1>3, <1>4, <1>5, <1>6, <1>7

LEMMA FreshFacts ==
    ASSUME NEW dead, MappedNow(dead), NEW n \in dom.unused
    PROVE  /\ n \in Nodes /\ n \notin dom.live /\ n \notin dead /\ dom.parent[n] = None
           /\ element_id_mapping[n] = None
           /\ \A m \in Nodes : dom.parent[m] # n
           /\ \A e \in ElementIds : node_id_mapping[e] # n
<1>1. Sound(dom) /\ dead \subseteq dom.live /\ MapsTyped(node_id_mapping, element_id_mapping)
    BY MappedFacts DEF MappedNow
<1>2. /\ n \in Nodes /\ n \notin dom.live /\ dom.parent[n] = None
      /\ \A m \in Nodes : dom.parent[m] # n
    BY <1>1, UnusedFacts
<1>3. /\ \A e \in ElementIds : node_id_mapping[e] \in Option(dom.live)
      /\ Inverses(node_id_mapping, element_id_mapping)
    BY DEF MappedNow, Stands, Standing, Accounted
<1>4. \A e \in ElementIds : node_id_mapping[e] # n
    BY <1>2, <1>3, NoneIsNone DEF Option
<1>5. element_id_mapping[n] = None
    BY <1>1, <1>2, <1>3, <1>4 DEF Inverses, MapsTyped, Option
<1> QED
    BY <1>1, <1>2, <1>4, <1>5

(* The maps and the mounted elements stay, the document changes, and what  *)
(* the stack holds is held on.                                             *)
KeptMaps == UNCHANGED <<node_id_mapping, element_id_mapping, mounted, rendering>>

LEMMA MappedAgain ==
    ASSUME NEW dead, MappedNow(dead), Sound(dom'), dom.live \subseteq dom'.live,
           Split(dom'.parent, dead), KeptMaps,
           stack' \in Seq(Nodes), OnStack(node_id_mapping, mounted, stack')
    PROVE  MappedNow(dead)'
<1>1. WriterTypeOK'
    BY DEF MappedNow, WriterTypeOK, KeptMaps
<1>2. Accounted(dom'.live, node_id_mapping', mounted', dead)
    BY DEF MappedNow, Stands, Standing, Accounted, KeptMaps, Option
<1>3. Inverses(node_id_mapping', element_id_mapping')
    BY DEF MappedNow, Stands, Standing, Inverses, KeptMaps
<1>4. OnStack(node_id_mapping', mounted', stack') /\ dead \subseteq dom'.live
    BY DEF MappedNow, Stands, Standing, KeptMaps
<1> QED
    BY <1>1, <1>2, <1>3, <1>4 DEF MappedNow, Stands, Standing

LEMMA SubStack ==
    ASSUME NEW to_node, NEW in_use, NEW st, OnStack(to_node, in_use, st),
           NEW st2, IsInjective(st2), ToSet(st2) \subseteq ToSet(st)
    PROVE  OnStack(to_node, in_use, st2)
BY DEF OnStack

(* The nodes on top of the stack go to a place that is not below them.     *)
LEMMA TopFits ==
    ASSUME NEW dead, MappedNow(dead), NEW m \in 1..Len(stack),
           NEW p \in AllNodes, p \in dom.live \cup {Document},
           \A n \in ToSet(stack) : p \notin Below(dom.children, n),
           NEW anchor, anchor = None \/ (anchor \in Nodes /\ dom.parent[anchor] = p
                                         /\ anchor \notin ToSet(TopNodes(m)))
    PROVE  /\ Fits(dom, p, TopNodes(m), anchor)
           /\ ToSet(TopNodes(m)) \cap dead = {}
           /\ ToSet(TopNodes(m)) \subseteq ToSet(stack)
<1> DEFINE top == TopNodes(m)
<1>1. /\ stack \in Seq(Nodes) /\ IsInjective(stack)
      /\ \A x \in ToSet(stack) : x \in dom.live /\ x \notin dead
    BY MappedFacts
<1>2. top \in Seq(Nodes) /\ IsInjective(top) /\ ToSet(top) \subseteq ToSet(stack)
    BY <1>1, StackPieces DEF TopNodes
<1> QED
    BY <1>1, <1>2 DEF Fits

LEMMA BelowTopStacked ==
    ASSUME NEW dead, MappedNow(dead), NEW m \in 1..Len(stack)
    PROVE  BelowTop(m) \in Seq(Nodes) /\ OnStack(node_id_mapping, mounted, BelowTop(m))
<1>1. stack \in Seq(Nodes) /\ IsInjective(stack)
    BY MappedFacts
<1>2. BelowTop(m) \in Seq(Nodes) /\ IsInjective(BelowTop(m)) /\ ToSet(BelowTop(m)) \subseteq ToSet(stack)
    BY <1>1, StackPieces DEF BelowTop
<1>3. OnStack(node_id_mapping, mounted, stack)
    BY DEF MappedNow, Stands, Standing
<1> QED
    BY <1>2, <1>3, SubStack

LEMMA InsertingStep ==
    ASSUME NEW dead, MappedNow(dead), NEW m \in 1..Len(stack),
           NEW p, p \notin dead, NEW anchor, Fits(dom, p, TopNodes(m), anchor),
           ToSet(TopNodes(m)) \cap dead = {},
           Inserting(m, InsertNodes(dom, p, TopNodes(m), anchor))
    PROVE  MappedNow(dead)' /\ panicked' = panicked
<1>1. Sound(dom) /\ Split(dom.parent, dead)
    BY DEF MappedNow, Stands, Standing
<1>2. dom' = InsertNodes(dom, p, TopNodes(m), anchor) /\ stack' = BelowTop(m) /\ KeptMaps
      /\ panicked' = panicked
    BY DEF Inserting, Rendering, KeptMaps
<1>3. Moved(dom, dom', Placed(dom.parent, p, TopNodes(m)))
    BY <1>1, <1>2, InsertNodesIsSound
<1>4. Sound(dom') /\ dom'.live = dom.live /\ dom'.parent = Placed(dom.parent, p, TopNodes(m))
    BY <1>3 DEF Moved, Keeps
<1>5. Split(dom'.parent, dead)
    BY <1>1, <1>4, SplitPlaced
<1> QED
    BY <1>2, <1>4, <1>5, BelowTopStacked, MappedAgain

LEMMA BelowStackFacts ==
    ASSUME NEW dead, MappedNow(dead), NEW p, p \notin BelowStack
    PROVE  \A n \in ToSet(stack) : p \notin Below(dom.children, n)
BY BelowIsSubtree DEF BelowStack

LEMMA AppendToStep ==
    ASSUME NEW dead, MappedNow(dead), NEW m \in 1..Len(stack), NEW e \in Option(mounted),
           AppendToElement(e, m)
    PROVE  MappedNow(dead)' /\ panicked' = panicked
<1> DEFINE p == NodeOf(e)
<1>1. /\ dead \in SUBSET Nodes /\ None \notin ElementIds /\ mounted \in SUBSET ElementIds
      /\ \A x \in mounted : NodeOf(x) \in Nodes /\ NodeOf(x) \in dom.live /\ NodeOf(x) \notin dead
    BY MappedFacts
<1>2. p \in AllNodes /\ p \in dom.live \cup {Document} /\ p \notin dead
  <2>1. CASE e = None
    <3>1. p = Document
        BY <2>1 DEF NodeOf
    <3> QED
        BY <1>1, <3>1, NotNone
  <2>2. CASE e \in mounted
      BY <1>1, <2>2, NotNone
  <2> QED
      BY <2>1, <2>2 DEF Option
<1>3. p \notin BelowStack /\ Inserting(m, InsertNodes(dom, p, TopNodes(m), None))
    BY DEF AppendToElement, AppendChildren
<1> HIDE DEF p
<1>4. \A n \in ToSet(stack) : p \notin Below(dom.children, n)
    BY <1>3, BelowStackFacts
<1>5. Fits(dom, p, TopNodes(m), None) /\ ToSet(TopNodes(m)) \cap dead = {}
    BY <1>2, <1>4, TopFits
<1> QED
    BY <1>2, <1>3, <1>5, InsertingStep

LEMMA ApartFacts ==
    ASSUME NEW dead, MappedNow(dead), NEW e \in mounted, Apart(e)
    PROVE  /\ \A x \in ToSet(stack) : NodeOf(e) \notin Below(dom.children, x)
           /\ NodeOf(e) \notin ToSet(stack)
           /\ Below(dom.children, NodeOf(e)) \cap ToSet(stack) = {}
<1>1. NodeOf(e) \in Nodes /\ dom.children \in ChildLists
    BY MappedFacts DEF IsTree
<1>2. \A x \in ToSet(stack) : NodeOf(e) \notin Below(dom.children, x)
    BY BelowStackFacts DEF Apart
<1>3. Below(dom.children, NodeOf(e)) \cap ToSet(stack) = {}
    BY BelowIsSubtree DEF Apart
<1>4. NodeOf(e) \in Below(dom.children, NodeOf(e))
    BY <1>1, BelowFacts, NotNone
<1> QED
    BY <1>2, <1>3, <1>4

LEMMA ParentOfApart ==
    ASSUME NEW dead, MappedNow(dead), NEW e \in mounted, Apart(e), dom.parent[NodeOf(e)] # None
    PROVE  LET p == dom.parent[NodeOf(e)]
           IN  /\ p \in AllNodes /\ p \in dom.live \cup {Document} /\ p \notin dead
               /\ \A x \in ToSet(stack) : p \notin Below(dom.children, x)
<1> DEFINE a == NodeOf(e)
           p == dom.parent[a]
<1>1. /\ a \in Nodes /\ a \notin dead /\ dead \in SUBSET Nodes
      /\ dom.parent \in ParentMaps /\ IsTree(dom.parent, dom.children) /\ Lives(dom)
      /\ stack \in Seq(Nodes)
    BY MappedFacts
<1>2. p \in AllNodes /\ p \in dom.live \cup {Document}
    BY <1>1 DEF ParentMaps, Option, Lives
<1>3. p \notin dead
    BY <1>1 DEF MappedNow, Stands, Standing, Split
<1>4. ASSUME NEW x \in ToSet(stack), p \in Below(dom.children, x) PROVE FALSE
  <2>1. x \in AllNodes
      BY <1>1, SequenceElements, NotNone
  <2>2. a \in Below(dom.children, x)
      BY <1>1, <1>4, <2>1, BelowLinks
  <2> QED
      BY <2>2, ApartFacts
<1> QED
    BY <1>2, <1>3, <1>4

LEMMA InsertBesideStep ==
    ASSUME NEW dead, MappedNow(dead), NEW m \in 1..Len(stack), NEW e \in mounted, Apart(e),
           InsertBeforeElement(e, m) \/ InsertAfterElement(e, m)
    PROVE  MappedNow(dead)' /\ panicked' = panicked
<1> DEFINE a == NodeOf(e)
           p == dom.parent[a]
<1>1. a \in Nodes /\ Sound(dom) /\ p # None /\ a \notin ToSet(stack)
    BY MappedFacts, ApartFacts DEF MappedNow, InsertBeforeElement, InsertAfterElement
<1>2. /\ p \in AllNodes /\ p \in dom.live \cup {Document} /\ p \notin dead
      /\ \A x \in ToSet(stack) : p \notin Below(dom.children, x)
    BY <1>1, ParentOfApart
<1>3. PICK anchor :
          /\ anchor = None \/ (anchor \in Nodes /\ dom.parent[anchor] = p
                               /\ anchor \notin ToSet(TopNodes(m)))
          /\ Inserting(m, InsertNodes(dom, p, TopNodes(m), anchor))
  <2>1. CASE InsertBeforeElement(e, m)
    <3>1. ToSet(TopNodes(m)) \subseteq ToSet(stack)
        BY <1>2, TopFits
    <3>2. Inserting(m, InsertNodes(dom, p, TopNodes(m), a))
        BY <2>1 DEF InsertBeforeElement, InsertNodesBefore
    <3> QED
        BY <1>1, <3>1, <3>2
  <2>2. CASE InsertAfterElement(e, m)
    <3>1. PICK next : next = ViableNext(dom, a, <<>>)
        OBVIOUS
    <3>2. IsSibling(dom, a, <<>>, next)
        BY <1>1, <3>1, ViableFacts
    <3>3. next \notin ToSet(TopNodes(m)) /\ Inserting(m, InsertNodes(dom, p, TopNodes(m), next))
        BY <2>2, <3>1 DEF InsertAfterElement, InsertNodesAfter
    <3> QED
        BY <3>2, <3>3 DEF IsSibling
  <2> QED
      BY <2>1, <2>2
<1> HIDE DEF p
<1>4. Fits(dom, p, TopNodes(m), anchor) /\ ToSet(TopNodes(m)) \cap dead = {}
    BY <1>2, <1>3, TopFits
<1> QED
    BY <1>2, <1>3, <1>4, InsertingStep

LEMMA PushRootStep ==
    ASSUME NEW dead, MappedNow(dead), NEW e \in mounted, Apart(e), PushRoot(e)
    PROVE  MappedNow(dead)' /\ panicked' = panicked
<1>1. /\ stack' = Append(stack, NodeOf(e)) /\ dom' = dom /\ KeptMaps
      /\ panicked' = panicked
    BY DEF PushRoot, Rendering, KeptMaps
<1>2. /\ NodeOf(e) \in Nodes /\ NodeOf(e) = node_id_mapping[e] /\ stack \in Seq(Nodes)
      /\ NodeOf(e) \notin ToSet(stack)
    BY MappedFacts, ApartFacts
<1>3. Sound(dom) /\ Split(dom.parent, dead) /\ OnStack(node_id_mapping, mounted, stack)
    BY DEF MappedNow, Stands, Standing
<1>4. stack' \in Seq(Nodes) /\ OnStack(node_id_mapping, mounted, stack')
    BY <1>1, <1>2, <1>3, Pushed
<1> QED
    BY <1>1, <1>3, <1>4, MappedAgain

(* A node that is removed for good is put aside with all below it.         *)
LEMMA PutAside ==
    ASSUME NEW dead, MappedNow(dead), NEW e \in mounted, Apart(e),
           Sound(dom'), dom'.live = dom.live,
           NEW aside, aside = dead \cup Below(dom.children, NodeOf(e)), Split(dom'.parent, aside),
           UNCHANGED <<node_id_mapping, element_id_mapping, rendering>>,
           mounted' = mounted \ IdsBelow(NodeOf(e)),
           stack' \in Seq(Nodes), OnStack(node_id_mapping, mounted, stack'),
           ToSet(stack') \subseteq ToSet(stack)
    PROVE  MappedNow(aside)'
<1> DEFINE a == NodeOf(e)
           below == Below(dom.children, a)
<1>1. a \in Nodes /\ a \in dom.live /\ dead \subseteq dom.live /\ Lives(dom) /\ mounted \subseteq ElementIds
      /\ IsTree(dom.parent, dom.children) /\ dom.live \in SUBSET Nodes
    BY MappedFacts
<1>2. below \subseteq dom.live
    BY <1>1, BelowIsLive DEF Lives
<1>3. mounted' = {x \in mounted : node_id_mapping[x] \notin below}
    BY BelowIsSubtree DEF IdsBelow
<1>4. below \cap ToSet(stack) = {}
    BY ApartFacts
<1> HIDE DEF below
<1>5. aside = dead \cup below
    BY DEF below
<1>6. Accounted(dom.live, node_id_mapping, mounted, dead)
    BY DEF MappedNow, Stands, Standing
<1>7. Accounted(dom'.live, node_id_mapping', mounted', aside)
    BY <1>1, <1>3, <1>5, <1>6 DEF Accounted
<1>8. OnStack(node_id_mapping', mounted', stack')
    BY <1>3, <1>4 DEF OnStack
<1>9. Inverses(node_id_mapping', element_id_mapping') /\ WriterTypeOK'
    BY <1>1, <1>3 DEF MappedNow, Stands, Standing, Inverses, WriterTypeOK
<1> QED
    BY <1>1, <1>2, <1>5, <1>7, <1>8, <1>9 DEF MappedNow, Stands, Standing

LEMMA RemoveElementStep ==
    ASSUME NEW dead, MappedNow(dead), NEW e \in mounted, Apart(e), NEW kept \in BOOLEAN,
           RemoveElement(e, kept)
    PROVE  (\E aside : MappedNow(aside)') /\ panicked' = panicked
<1> DEFINE a == NodeOf(e)
<1>1. /\ a \in Nodes /\ Sound(dom) /\ stack \in Seq(Nodes) /\ IsTree(dom.parent, dom.children)
    BY MappedFacts DEF MappedNow
<1>2. /\ dom' = RemoveNode(dom, a) /\ UNCHANGED <<node_id_mapping, element_id_mapping, stack, rendering>>
      /\ mounted' = mounted \ (IF kept THEN {} ELSE IdsBelow(a))
      /\ panicked' = panicked
    BY DEF RemoveElement, Rendering
<1> HIDE DEF a
<1>3. Moved(dom, dom', Without(dom.parent, {a}))
    BY <1>1, <1>2, RemoveNodeMoves
<1>4. Sound(dom') /\ dom'.live = dom.live /\ dom'.parent = Without(dom.parent, {a})
    BY <1>3 DEF Moved, Keeps
<1>5. Split(dom.parent, dead) /\ OnStack(node_id_mapping, mounted, stack)
    BY DEF MappedNow, Stands, Standing
<1>6. CASE kept
  <2>1. Split(dom'.parent, dead)
      BY <1>4, <1>5, WithoutCuts, SplitCut
  <2>2. KeptMaps
      BY <1>2, <1>6 DEF KeptMaps
  <2>3. MappedNow(dead)'
      BY <1>1, <1>2, <1>4, <1>5, <2>1, <2>2, MappedAgain
  <2> QED
      BY <1>2, <2>3
<1>7. CASE ~kept
  <2>1. PICK aside : aside = dead \cup Below(dom.children, a)
      OBVIOUS
  <2>2. Split(dom'.parent, aside)
      BY <1>1, <1>4, <1>5, <2>1, SplitAside
  <2>3. MappedNow(aside)'
      BY <1>1, <1>2, <1>4, <1>5, <1>7, <2>1, <2>2, PutAside DEF a
  <2> QED
      BY <1>2, <2>3
<1> QED
    BY <1>6, <1>7

LEMMA ReplacedFacts ==
    ASSUME NEW t, Sound(t), NEW a \in Nodes, t.parent[a] # None, NEW ns,
           Fits(t, t.parent[a], ns, a)
    PROVE  LET u == ReplaceNodeWith(t, a, ns)
           IN  /\ Sound(u) /\ u.live = t.live
               /\ u.parent = Without(Placed(t.parent, t.parent[a], ns), {a})
<1>1. PICK v : v = InsertNodes(t, t.parent[a], ns, a)
    OBVIOUS
<1>2. Moved(t, v, Placed(t.parent, t.parent[a], ns))
    BY <1>1, InsertNodesIsSound
<1>3. Sound(v) /\ v.live = t.live /\ v.parent = Placed(t.parent, t.parent[a], ns)
    BY <1>2 DEF Moved, Keeps
<1>4. Moved(v, RemoveNode(v, a), Without(v.parent, {a}))
    BY <1>3, RemoveNodeMoves
<1>5. ReplaceNodeWith(t, a, ns) = RemoveNode(v, a)
    BY <1>1 DEF ReplaceNodeWith, InsertNodesBefore
<1> QED
    BY <1>3, <1>4, <1>5 DEF Moved, Keeps

LEMMA ReplaceElementStep ==
    ASSUME NEW dead, MappedNow(dead), NEW m \in 1..Len(stack), NEW e \in mounted, Apart(e),
           ReplaceElementWith(e, m)
    PROVE  (\E aside : MappedNow(aside)') /\ panicked' = panicked
<1> DEFINE a == NodeOf(e)
           p == dom.parent[a]
           ns == TopNodes(m)
<1>1. /\ a \in Nodes /\ a \notin dead /\ Sound(dom) /\ p # None /\ a \notin ToSet(stack)
      /\ IsTree(dom.parent, dom.children) /\ dead \in SUBSET Nodes
    BY MappedFacts, ApartFacts DEF MappedNow, ReplaceElementWith
<1>2. /\ p \in AllNodes /\ p \in dom.live \cup {Document} /\ p \notin dead
      /\ \A x \in ToSet(stack) : p \notin Below(dom.children, x)
    BY <1>1, ParentOfApart
<1>3. ToSet(ns) \cap dead = {} /\ ToSet(ns) \subseteq ToSet(stack)
    BY <1>2, TopFits
<1>4. Fits(dom, p, ns, a)
    BY <1>1, <1>2, <1>3, TopFits
<1>5. /\ dom' = ReplaceNodeWith(dom, a, ns) /\ stack' = BelowTop(m)
      /\ UNCHANGED <<node_id_mapping, element_id_mapping, rendering>>
      /\ mounted' = mounted \ IdsBelow(a) /\ panicked' = panicked
    BY DEF ReplaceElementWith, Rendering
<1>6. Sound(dom') /\ dom'.live = dom.live /\ dom'.parent = Without(Placed(dom.parent, p, ns), {a})
    BY <1>1, <1>4, <1>5, ReplacedFacts
<1>7. Split(dom.parent, dead)
    BY DEF MappedNow, Stands, Standing
<1>8. stack' \in Seq(Nodes) /\ OnStack(node_id_mapping, mounted, stack')
    BY <1>5, BelowTopStacked
<1>9. ToSet(stack') \subseteq ToSet(stack)
    BY <1>5, MappedFacts, StackPieces DEF BelowTop
<1>10. PICK below, aside : below = Below(dom.children, a) /\ aside = dead \cup below
    OBVIOUS
<1>11. below \cap ToSet(stack) = {} /\ a \in below /\ p \notin below
    BY <1>1, <1>10, ApartFacts, BelowIsWhole
<1>12. Split(Without(dom.parent, {a}), aside)
    BY <1>1, <1>7, <1>10, SplitAside
<1> HIDE DEF a, p, ns
<1>13. Split(dom'.parent, aside)
  <2>1. \A x \in Nodes : dom'.parent[x] = IF x = a THEN None ELSE IF x \in ToSet(ns) THEN p ELSE dom.parent[x]
      BY <1>6 DEF Without, Placed
  <2>2. p \notin aside /\ ToSet(ns) \cap aside = {}
      BY <1>2, <1>3, <1>10, <1>11
  <2>3. \A x \in Nodes \ {a} : dom.parent[x] # None => (x \in aside <=> dom.parent[x] \in aside)
      BY <1>12 DEF Split, Without
  <2> QED
      BY <2>1, <2>2, <2>3 DEF Split
<1>14. MappedNow(aside)'
    BY <1>5, <1>6, <1>8, <1>9, <1>10, <1>13, PutAside DEF a
<1> QED
    BY <1>5, <1>14

LEMMA ReplacePlaceholderStep ==
    ASSUME NEW dead, MappedNow(dead), NEW m \in 1..Len(stack), NEW n \in Nodes,
           ReplacePlaceholder(m, n)
    PROVE  MappedNow(dead)' /\ panicked' = panicked
<1> DEFINE ns == TopNodes(m)
<1>1. PICK p : p = Last(BelowTop(m))
    OBVIOUS
<1>2. /\ m < Len(stack) /\ dom.parent[p] = None /\ n \in ToSet(dom.children[p])
      /\ element_id_mapping[n] = None
      /\ dom' = ReplaceNodeWith(dom, n, ns) /\ stack' = BelowTop(m) /\ KeptMaps
      /\ panicked' = panicked
    BY <1>1 DEF ReplacePlaceholder, Rendering, KeptMaps
<1>3. /\ stack \in Seq(Nodes) /\ IsInjective(stack) /\ IsTree(dom.parent, dom.children)
      /\ \A x \in ToSet(stack) : x \in dom.live /\ x \notin dead /\ element_id_mapping[x] # None
      /\ dom.live \in SUBSET Nodes
    BY MappedFacts
<1>4. p \in ToSet(stack) /\ p \notin ToSet(ns) /\ ToSet(ns) \subseteq ToSet(stack)
    BY <1>1, <1>2, <1>3, StackPieces DEF BelowTop, TopNodes
<1>5. p \in Nodes /\ p \in AllNodes /\ p \in dom.live \cup {Document} /\ p \notin dead
    BY <1>3, <1>4, NotNone
<1>6. dom.parent[n] = p
    BY <1>2, <1>3, <1>5 DEF IsTree, Linked, Kids
<1>7. n \notin ToSet(stack)
    BY <1>2, <1>3
<1>8. \A x \in ToSet(stack) : x # p => p \notin Below(dom.children, x)
  <2>1. SUFFICES ASSUME NEW x \in ToSet(stack), x # p, p \in Below(dom.children, x) PROVE FALSE
      OBVIOUS
  <2>2. x \in AllNodes
      BY <1>3, NotNone
  <2>3. dom.parent[p] \in Below(dom.children, x) /\ Below(dom.children, x) \in SUBSET AllNodes
      BY <1>3, <2>1, <2>2, BelowLinks, BelowFacts DEF IsTree
  <2> QED
      BY <1>2, <2>3, NotNone
<1>9. ns \in Seq(Nodes) /\ IsInjective(ns) /\ ToSet(ns) \subseteq ToSet(stack)
    BY <1>3, StackPieces DEF TopNodes
<1>10. Fits(dom, p, ns, n)
    BY <1>3, <1>4, <1>5, <1>6, <1>7, <1>8, <1>9 DEF Fits
<1>11. Sound(dom) /\ Split(dom.parent, dead) /\ dom.parent[n] # None
    BY <1>5, <1>6, NotNone DEF MappedNow, Stands, Standing
<1> HIDE DEF ns
<1>12. Sound(dom') /\ dom'.live = dom.live /\ dom'.parent = Without(Placed(dom.parent, p, ns), {n})
    BY <1>2, <1>6, <1>10, <1>11, ReplacedFacts
<1>13. ToSet(ns) \cap dead = {}
    BY <1>3, <1>4
<1>14. Split(dom'.parent, dead)
    BY <1>5, <1>11, <1>12, <1>13, SplitPlaced, WithoutCuts, SplitCut
<1> QED
    BY <1>2, <1>12, <1>14, BelowTopStacked, MappedAgain

LEMMA MapsNew ==
    ASSUME NEW dead, MappedNow(dead), Sound(dom'), dom.live \subseteq dom'.live,
           Split(dom'.parent, dead), rendering' = rendering,
           NEW e \in ElementIds, e \notin mounted,
           NEW n \in Nodes, n \in dom'.live, n \notin dead, element_id_mapping[n] = None,
           SetIdMapping(node_id_mapping, element_id_mapping, e, n),
           stack' = Append(stack, n)
    PROVE  MappedNow(dead)'
<1>1. /\ MapsTyped(node_id_mapping, element_id_mapping) /\ mounted \in SUBSET ElementIds
      /\ stack \in Seq(Nodes) /\ n \notin ToSet(stack) /\ dead \subseteq dom.live
    BY MappedFacts
<1>2. /\ Reassigned(node_id_mapping, element_id_mapping, e, n, node_id_mapping', element_id_mapping')
      /\ mounted' = mounted \cup {e}
    BY DEF SetIdMapping, Reassigned
<1>3. /\ Inverses(node_id_mapping, element_id_mapping)
      /\ OnStack(node_id_mapping, mounted, stack)
      /\ Accounted(dom.live, node_id_mapping, mounted, dead)
    BY DEF MappedNow, Stands, Standing
<1>4. Accounted(dom'.live, node_id_mapping, mounted, dead)
    BY <1>3 DEF Accounted, Option
<1>5. dom'.live \in SUBSET Nodes
    BY FieldTypes DEF Sound
<1>6. MapsTyped(node_id_mapping', element_id_mapping') /\ Inverses(node_id_mapping', element_id_mapping')
    BY <1>1, <1>2, <1>3, ReassignedFacts
<1>7. Accounted(dom'.live, node_id_mapping', mounted', dead)
    BY <1>1, <1>2, <1>4, <1>5, ReassignedIsAccounted
<1>8. node_id_mapping' = [node_id_mapping EXCEPT ![e] = n] /\ node_id_mapping'[e] = n
    BY <1>1, <1>2 DEF Reassigned, MapsTyped
<1>9. OnStack(node_id_mapping', mounted', stack)
    BY <1>1, <1>2, <1>3, <1>8, OnStackAfter DEF MapsTyped
<1>10. stack' \in Seq(Nodes) /\ OnStack(node_id_mapping', mounted', stack')
    BY <1>1, <1>2, <1>8, <1>9, Pushed
<1>11. WriterTypeOK'
    BY <1>1, <1>2, <1>6, <1>10 DEF MappedNow, WriterTypeOK, MapsTyped
<1> QED
    BY <1>1, <1>6, <1>7, <1>10, <1>11 DEF MappedNow, Stands, Standing

LEMMA CreateMappedStep ==
    ASSUME NEW dead, MappedNow(dead), NEW e \in ElementIds, NEW n \in Nodes, CreateMapped(e, n)
    PROVE  MappedNow(dead)' /\ panicked' = panicked
<1>1. /\ e \notin mounted /\ n \in dom.unused /\ dom' = CreateNode(dom, n)
      /\ SetIdMapping(node_id_mapping, element_id_mapping, e, n)
      /\ stack' = Append(stack, n) /\ panicked' = panicked /\ rendering' = rendering
    BY DEF CreateMapped, Rendering
<1>2. Sound(dom) /\ Split(dom.parent, dead)
    BY DEF MappedNow, Stands, Standing
<1>3. Sound(dom') /\ dom'.parent = dom.parent /\ dom'.live = dom.live \cup {n}
    BY <1>1, <1>2, CreatedIsSound DEF SameLinks
<1>4. n \notin dead /\ element_id_mapping[n] = None
    BY <1>1, FreshFacts
<1> QED
    BY <1>1, <1>2, <1>3, <1>4, MapsNew

LEMMA StylesAside ==
    ASSUME NEW t, Sound(t), NEW S \in SUBSET Nodes
    PROVE  LET u == [t EXCEPT !.style_nodes = S]
           IN  Sound(u) /\ u.live = t.live /\ u.parent = t.parent
<1> DEFINE u == [t EXCEPT !.style_nodes = S]
<1>1. t \in Documents
    BY DEF Sound
<1>2. /\ u \in Documents /\ u.parent = t.parent /\ u.children = t.children
      /\ u.in_document = t.in_document /\ u.id = t.id /\ u.hover = t.hover /\ u.focus = t.focus
      /\ u.live = t.live /\ u.unused = t.unused /\ u.nodes_to_stylesheet = t.nodes_to_stylesheet /\ u.nodes_to_id = t.nodes_to_id
    BY <1>1 DEF Documents
<1> HIDE DEF u
<1>3. Lives(u) /\ Refers(u)
    BY <1>2 DEF Sound, Lives, Refers, Indexed
<1>4. Sound(u)
    BY <1>2, <1>3 DEF Sound
<1> QED
    BY <1>2, <1>4 DEF u

LEMMA TemplateFacts ==
    ASSUME NEW t, Sound(t), NEW n \in t.unused, NEW inner \in t.unused, n # inner
    PROVE  LET u == [AppendChildren(CreateNode(CreateNode(t, n), inner), n, <<inner>>)
                        EXCEPT !.style_nodes = t.style_nodes]
           IN  /\ Sound(u) /\ u.live = t.live \cup {n, inner}
               /\ u.parent = [t.parent EXCEPT ![inner] = n]
<1>1. PICK v : v = CreateNode(t, n)
    OBVIOUS
<1>2. Sound(v) /\ v.parent = t.parent /\ v.live = t.live \cup {n} /\ v.unused = t.unused \ {n}
    BY <1>1, CreatedIsSound DEF SameLinks
<1>3. PICK w : w = CreateNode(v, inner)
    OBVIOUS
<1>4. Sound(w) /\ w.parent = t.parent /\ w.live = t.live \cup {n, inner}
    BY <1>2, <1>3, CreatedIsSound DEF SameLinks
<1>5. /\ n \in Nodes /\ inner \in Nodes /\ \A m \in Nodes : t.parent[m] # inner
    BY UnusedFacts
<1>6. PICK x : x = AppendChildren(w, n, <<inner>>)
    OBVIOUS
<1>7. Moved(w, x, [w.parent EXCEPT ![inner] = n])
    BY <1>4, <1>5, <1>6, LeafFits, NotNone
<1>8. Sound(x) /\ x.live = t.live \cup {n, inner} /\ x.parent = [t.parent EXCEPT ![inner] = n]
    BY <1>4, <1>7 DEF Moved, Keeps
<1>9. t.style_nodes \in SUBSET Nodes
    BY FieldTypes DEF Sound
<1> QED
    BY <1>1, <1>3, <1>6, <1>8, <1>9, StylesAside

LEMMA LoadTemplateStep ==
    ASSUME NEW dead, MappedNow(dead), NEW e \in ElementIds, NEW n \in Nodes, NEW inner \in Nodes,
           LoadTemplate(e, n, inner)
    PROVE  MappedNow(dead)' /\ panicked' = panicked
<1>1. /\ e \notin mounted /\ n \in dom.unused /\ inner \in dom.unused /\ n # inner
      /\ SetIdMapping(node_id_mapping, element_id_mapping, e, n)
      /\ stack' = Append(stack, n) /\ panicked' = panicked /\ rendering' = rendering
      /\ dom' = [AppendChildren(CreateNode(CreateNode(dom, n), inner), n, <<inner>>)
                    EXCEPT !.style_nodes = dom.style_nodes]
    BY DEF LoadTemplate, Rendering
<1>2. Sound(dom) /\ Split(dom.parent, dead)
    BY DEF MappedNow, Stands, Standing
<1>3. /\ Sound(dom') /\ dom'.live = dom.live \cup {n, inner}
      /\ dom'.parent = [dom.parent EXCEPT ![inner] = n]
    BY <1>1, <1>2, TemplateFacts
<1>4. n \notin dead /\ element_id_mapping[n] = None /\ inner \notin dead /\ dom.parent \in ParentMaps
    BY <1>1, FreshFacts, MappedFacts
<1>5. Split(dom'.parent, dead)
    BY <1>2, <1>3, <1>4 DEF Split, ParentMaps
<1> QED
    BY <1>1, <1>3, <1>4, <1>5, MapsNew

(* The maps after nodes were dropped that no mounted element has.          *)
LEMMA DroppedMaps ==
    ASSUME NEW dead, MappedNow(dead), NEW gone \in SUBSET Nodes, gone \subseteq dead
    PROVE  /\ MapsTyped(Unmapped(gone), Forgotten(gone))
           /\ Inverses(Unmapped(gone), Forgotten(gone))
           /\ Accounted(dom.live \ gone, Unmapped(gone), mounted, dead \ gone)
           /\ OnStack(Unmapped(gone), mounted, stack)
<1>1. /\ MapsTyped(node_id_mapping, element_id_mapping) /\ mounted \in SUBSET ElementIds
    BY MappedFacts
<1>2. /\ Inverses(node_id_mapping, element_id_mapping)
      /\ OnStack(node_id_mapping, mounted, stack)
      /\ Accounted(dom.live, node_id_mapping, mounted, dead)
    BY DEF MappedNow, Stands, Standing
<1>3. PICK U, F : U = Unmapped(gone) /\ F = Forgotten(gone)
    OBVIOUS
<1>4. None \notin Nodes /\ None \notin ElementIds
    BY NoneIsNone
<1>5. \A e \in ElementIds : U[e] = IF node_id_mapping[e] \in gone THEN None ELSE node_id_mapping[e]
  <2>1. SUFFICES ASSUME NEW e \in ElementIds
                 PROVE  (\E n \in gone : element_id_mapping[n] = e /\ node_id_mapping[e] = n)
                            <=> node_id_mapping[e] \in gone
      BY <1>3 DEF Unmapped
  <2>2. ASSUME node_id_mapping[e] \in gone PROVE element_id_mapping[node_id_mapping[e]] = e
      BY <1>2, <1>4, <2>2 DEF Inverses
  <2> QED
      BY <2>2
<1>6. \A n \in Nodes : F[n] = IF n \in gone THEN None ELSE element_id_mapping[n]
    BY <1>3 DEF Forgotten
<1>7. U \in [ElementIds -> Option(Nodes)]
    BY <1>1, <1>3 DEF Unmapped, MapsTyped, Option
<1>8. F \in [Nodes -> Option(ElementIds)]
    BY <1>1, <1>3 DEF Forgotten, MapsTyped, Option
<1>9. Inverses(U, F)
  <2>1. ASSUME NEW e \in ElementIds, U[e] # None PROVE F[U[e]] = e
    <3>1. U[e] = node_id_mapping[e] /\ node_id_mapping[e] \notin gone /\ node_id_mapping[e] # None
        BY <1>5, <2>1
    <3>2. element_id_mapping[U[e]] = e /\ U[e] \in Nodes
        BY <1>1, <1>2, <3>1 DEF Inverses, MapsTyped, Option
    <3> QED
        BY <1>6, <3>1, <3>2
  <2>2. ASSUME NEW n \in Nodes, F[n] # None PROVE U[F[n]] = n
    <3>1. F[n] = element_id_mapping[n] /\ n \notin gone /\ element_id_mapping[n] # None
        BY <1>6, <2>2
    <3>2. node_id_mapping[F[n]] = n /\ F[n] \in ElementIds
        BY <1>1, <1>2, <3>1 DEF Inverses, MapsTyped, Option
    <3> QED
        BY <1>5, <3>1, <3>2
  <2> QED
      BY <2>1, <2>2 DEF Inverses
<1>10. \A e \in mounted : U[e] = node_id_mapping[e]
    BY <1>1, <1>2, <1>5 DEF Accounted
<1>11. Accounted(dom.live \ gone, U, mounted, dead \ gone)
  <2>1. \A e \in ElementIds : U[e] \in Option(dom.live \ gone)
      BY <1>2, <1>5 DEF Accounted, Option
  <2>2. \A e \in mounted : U[e] # None /\ U[e] \notin dead \ gone
      BY <1>2, <1>10 DEF Accounted
  <2>3. \A e \in ElementIds \ mounted : U[e] # None => U[e] \in dead \ gone
      BY <1>2, <1>5 DEF Accounted
  <2> QED
      BY <2>1, <2>2, <2>3 DEF Accounted
<1>12. OnStack(U, mounted, stack)
    BY <1>2, <1>10 DEF OnStack
<1> QED
    BY <1>3, <1>7, <1>8, <1>9, <1>11, <1>12 DEF MapsTyped

LEMMA AssignNodeIdStep ==
    ASSUME NEW dead, MappedNow(dead), NEW e \in ElementIds, NEW n \in Nodes, AssignNodeId(e, n)
    PROVE  (\E left : MappedNow(left)') /\ panicked' = panicked
<1> DEFINE old == node_id_mapping[e]
           drops == old # None /\ dom.parent[old] = None
<1>1. PICK gone : gone = IF drops THEN Subtree(dom, old) ELSE {}
    OBVIOUS
<1>2. /\ e \notin mounted /\ stack # <<>> /\ dom.parent[Last(stack)] = None
      /\ n \in ToSet(dom.children[Last(stack)]) /\ element_id_mapping[n] = None
      /\ dom' = IF drops THEN RemoveAndDrop(dom, old) ELSE dom
      /\ SetIdMapping(Unmapped(gone), Forgotten(gone), e, n)
      /\ stack' = stack /\ panicked' = panicked /\ rendering' = rendering
    BY <1>1 DEF AssignNodeId, Rendering
<1>3. /\ Sound(dom) /\ IsTree(dom.parent, dom.children) /\ dom.parent \in ParentMaps
      /\ dead \in SUBSET Nodes /\ dead \subseteq dom.live /\ dom.live \in SUBSET Nodes
      /\ mounted \in SUBSET ElementIds /\ stack \in Seq(Nodes) /\ Lives(dom)
      /\ MapsTyped(node_id_mapping, element_id_mapping)
      /\ \A x \in ToSet(stack) : x \in dom.live /\ x \notin dead
    BY MappedFacts DEF MappedNow
<1>4. Split(dom.parent, dead) /\ Accounted(dom.live, node_id_mapping, mounted, dead)
    BY DEF MappedNow, Stands, Standing
<1>5. ASSUME drops
      PROVE  /\ gone \in SUBSET Nodes /\ gone \subseteq dead
             /\ Split(Without(dom.parent, gone), dead \ gone)
             /\ Sound(dom') /\ dom'.live = dom.live \ gone /\ dom'.parent = Without(dom.parent, gone)
  <2>1. old \in Nodes /\ old \in dead
      BY <1>2, <1>3, <1>4, <1>5 DEF Accounted, MapsTyped, Option
  <2>2. gone = Below(dom.children, old)
      BY <1>1, <1>5, BelowIsSubtree
  <2>3. gone \subseteq dead /\ Whole(dom.children, gone) /\ gone \in SUBSET Nodes
      BY <1>3, <1>4, <2>1, <2>2, BelowSplit, BelowIsWhole DEF Whole
  <2>4. Dropped(dom, dom', gone)
      BY <1>1, <1>2, <1>3, <1>5, <2>1, RemoveAndDropFacts
  <2> QED
      BY <1>3, <1>4, <2>3, <2>4, SplitDropped DEF Dropped
<1>6. ASSUME ~drops PROVE gone = {} /\ dom' = dom
    BY <1>1, <1>2, <1>6
<1> HIDE DEF drops
<1>7. /\ gone \in SUBSET Nodes /\ gone \subseteq dead /\ Sound(dom')
      /\ dom'.live = dom.live \ gone /\ Split(dom'.parent, dead \ gone)
  <2>1. CASE drops
      BY <1>5, <2>1
  <2>2. CASE ~drops
    <3>1. dead \ gone = dead /\ dom.live \ gone = dom.live
        BY <1>6, <2>2
    <3> QED
        BY <1>3, <1>4, <1>6, <2>2, <3>1
  <2> QED
      BY <2>1, <2>2
<1>8. PICK U, F : U = Unmapped(gone) /\ F = Forgotten(gone)
    OBVIOUS
<1>9. /\ MapsTyped(U, F) /\ Inverses(U, F) /\ OnStack(U, mounted, stack)
      /\ Accounted(dom.live \ gone, U, mounted, dead \ gone)
    BY <1>7, <1>8, DroppedMaps
<1>10. n \in dom'.live /\ n \notin dead /\ F[n] = None
  <2>1. PICK p : p = Last(stack)
      OBVIOUS
  <2>2. p \in ToSet(stack)
    <3>1. Len(stack) \in 1..Len(stack)
        BY <1>2, <1>3
    <3> QED
        BY <1>3, <2>1, <3>1, SequenceElements DEF Last
  <2>3. p \in Nodes /\ p \in AllNodes /\ p \notin dead /\ p # None
      BY <1>3, <2>2, NotNone
  <2>4. dom.parent[n] = p
      BY <1>2, <1>3, <2>1, <2>3 DEF IsTree, Linked, Kids
  <2>5. n \in dom.live /\ n \notin dead
      BY <1>3, <1>4, <2>3, <2>4 DEF Lives, Split
  <2>6. F[n] = None
      BY <1>2, <1>8 DEF Forgotten
  <2> QED
      BY <1>7, <2>5, <2>6
<1>11. Reassigned(U, F, e, n, node_id_mapping', element_id_mapping') /\ mounted' = mounted \cup {e}
    BY <1>2, <1>8 DEF SetIdMapping, Reassigned
<1>12. MapsTyped(node_id_mapping', element_id_mapping') /\ Inverses(node_id_mapping', element_id_mapping')
    BY <1>9, <1>10, <1>11, ReassignedFacts
<1>13. Accounted(dom'.live, node_id_mapping', mounted', dead \ gone)
  <2>1. dom'.live \in SUBSET Nodes /\ n \notin dead \ gone
      BY <1>3, <1>7, <1>10
  <2>2. Accounted(dom'.live, U, mounted, dead \ gone)
      BY <1>7, <1>9
  <2> QED
      BY <1>3, <1>9, <1>10, <1>11, <2>1, <2>2, ReassignedIsAccounted
<1>14. OnStack(node_id_mapping', mounted', stack')
  <2>1. node_id_mapping' = [U EXCEPT ![e] = n] /\ U \in [ElementIds -> Option(Nodes)]
      BY <1>9, <1>11 DEF Reassigned, MapsTyped
  <2> QED
      BY <1>2, <1>3, <1>9, <1>11, <2>1, OnStackAfter
<1>15. WriterTypeOK'
    BY <1>2, <1>3, <1>11, <1>12 DEF MappedNow, WriterTypeOK, MapsTyped
<1>16. dead \ gone \subseteq dom'.live
    BY <1>3, <1>7
<1>17. MappedNow(dead \ gone)'
    BY <1>7, <1>12, <1>13, <1>14, <1>15, <1>16 DEF MappedNow, Stands, Standing
<1> QED
    BY <1>2, <1>17

(* Dropping what no element is mapped to, and parsing new content.         *)
LEMMA DangerousStep ==
    ASSUME NEW dead, MappedNow(dead), NEW e \in mounted, Apart(e),
           NEW root \in Nodes, NEW n \in Nodes, DangerousInnerHtml(e, root, n)
    PROVE  MappedNow(dead)' /\ panicked' = panicked
<1>1. PICK p : p = NodeOf(e)
    OBVIOUS
<1>2. /\ root \in dom.unused /\ n \in dom.unused /\ root # n /\ Kind[root] = "element"
      /\ \A c \in ToSet(dom.children[p]) : IdsBelow(c) = {}
      /\ dom' = ParseInnerHtml(DropAllChildren(dom, p), p, root, n, None)
      /\ stack' = stack /\ KeptMaps /\ panicked' = panicked
    BY <1>1 DEF DangerousInnerHtml, Rendering, KeptMaps
<1>3. /\ Sound(dom) /\ IsTree(dom.parent, dom.children) /\ dom.parent \in ParentMaps
      /\ dead \in SUBSET Nodes /\ dead \subseteq dom.live /\ dom.live \in SUBSET Nodes
      /\ mounted \in SUBSET ElementIds /\ stack \in Seq(Nodes) /\ Lives(dom)
      /\ MapsTyped(node_id_mapping, element_id_mapping)
      /\ p \in Nodes /\ p \in dom.live /\ p \notin dead /\ p \in AllNodes
    BY <1>1, MappedFacts, NotNone DEF MappedNow
<1>4. /\ Split(dom.parent, dead) /\ Accounted(dom.live, node_id_mapping, mounted, dead)
      /\ Inverses(node_id_mapping, element_id_mapping)
      /\ OnStack(node_id_mapping, mounted, stack)
    BY DEF MappedNow, Stands, Standing
<1>5. PICK gone : gone = UNION {Subtree(dom, c) : c \in ToSet(dom.children[p])}
    OBVIOUS
<1>6. PICK v : v = DropAllChildren(dom, p)
    OBVIOUS
<1>7. Dropped(dom, v, gone)
    BY <1>3, <1>5, <1>6, DropAllChildrenFacts
<1>8. /\ Sound(v) /\ v.live = dom.live \ gone /\ v.unused = dom.unused
      /\ v.parent = Without(dom.parent, gone)
    BY <1>7 DEF Dropped
<1>9. \A c \in ToSet(dom.children[p]) : c \in Nodes /\ c \notin dead
  <2>1. \A c \in ToSet(dom.children[p]) : c \in Nodes /\ dom.parent[c] = p
      BY <1>3, KidsAreNodes DEF IsTree, Linked, Kids
  <2> QED
      BY <1>3, <1>4, <2>1, NotNone DEF Split
<1>10. gone \cap dead = {}
  <2>1. \A c \in ToSet(dom.children[p]) : Below(dom.children, c) \cap dead = {}
      BY <1>3, <1>4, <1>9, BelowSplit
  <2> QED
      BY <1>5, <2>1, BelowIsSubtree
<1>11. \A x \in mounted : node_id_mapping[x] \notin gone
    BY <1>2, <1>5 DEF IdsBelow
<1>12. p \notin gone
    BY <1>1, <1>3, <1>11, MappedFacts
<1>13. Parsed(v, dom', p, root, n)
    BY <1>2, <1>3, <1>6, <1>8, <1>12, ParseInnerHtmlFacts DEF Option
<1>14. Sound(dom') /\ dom'.live = (dom.live \ gone) \cup {n} /\ dom'.parent = [v.parent EXCEPT ![n] = p]
    BY <1>8, <1>13 DEF Parsed
<1>15. n \notin dead
    BY <1>2, FreshFacts
<1>16. Split(v.parent, dead)
    BY <1>4, <1>8, WithoutCuts, SplitCut
<1>17. Split(dom'.parent, dead)
  <2>1. v.parent \in ParentMaps
      BY <1>8, FieldTypes DEF Sound
  <2> QED
      BY <1>3, <1>14, <1>15, <1>16, <2>1 DEF Split, ParentMaps
<1>18. Accounted(dom'.live, node_id_mapping, mounted, dead)
  <2>1. \A x \in ElementIds : node_id_mapping[x] \in Option(dom'.live)
    <3>1. SUFFICES ASSUME NEW x \in ElementIds, node_id_mapping[x] # None
                   PROVE  node_id_mapping[x] \in dom'.live
        BY DEF Option
    <3>2. node_id_mapping[x] \in dom.live
        BY <1>4, <3>1 DEF Accounted, Option
    <3>3. node_id_mapping[x] \notin gone
        BY <1>4, <1>10, <1>11, <3>1 DEF Accounted
    <3> QED
        BY <1>14, <3>2, <3>3
  <2> QED
      BY <1>4, <2>1 DEF Accounted
<1>19. dead \subseteq dom'.live
    BY <1>3, <1>10, <1>14
<1>20. WriterTypeOK'
    BY <1>2 DEF MappedNow, WriterTypeOK, KeptMaps
<1> QED
    BY <1>2, <1>4, <1>14, <1>17, <1>18, <1>19, <1>20 DEF MappedNow, Stands, Standing, KeptMaps

(* Steps that leave the links and the maps alone.                          *)
LEMMA SameLinksStep ==
    ASSUME NEW dead, MappedNow(dead), Sound(dom'), dom'.parent = dom.parent, dom'.live = dom.live,
           UNCHANGED <<node_id_mapping, element_id_mapping, stack, mounted>>, rendering' \in BOOLEAN
    PROVE  MappedNow(dead)'
BY DEF MappedNow, Stands, Standing, WriterTypeOK

LEMMA MutationStep ==
    ASSUME NEW dead, MappedNow(dead), Mutation
    PROVE  (\E left : MappedNow(left)') /\ panicked' = panicked
<1>1. mounted \in SUBSET ElementIds
    BY MappedFacts
<1>2. CASE \E e \in ElementIds, n \in Nodes : CreateMapped(e, n)
    BY <1>2, CreateMappedStep
<1>3. CASE \E e \in ElementIds, n \in Nodes : AssignNodeId(e, n)
    BY <1>3, AssignNodeIdStep
<1>4. CASE \E e \in ElementIds, n \in Nodes : \E inner \in Nodes : LoadTemplate(e, n, inner)
    BY <1>4, LoadTemplateStep
<1>5. CASE \E m \in 1..Len(stack), e \in Option(mounted) : AppendToElement(e, m)
    BY <1>5, AppendToStep
<1>6. CASE \E m \in 1..Len(stack), n \in Nodes : ReplacePlaceholder(m, n)
    BY <1>6, ReplacePlaceholderStep
<1>7. CASE \E e \in mounted :
              Apart(e) /\ \E m \in 1..Len(stack) : InsertBeforeElement(e, m) \/ InsertAfterElement(e, m)
    BY <1>7, InsertBesideStep
<1>8. CASE \E e \in mounted : Apart(e) /\ \E m \in 1..Len(stack) : ReplaceElementWith(e, m)
    BY <1>8, ReplaceElementStep
<1>9. CASE \E e \in mounted : Apart(e) /\ PushRoot(e)
    BY <1>9, PushRootStep
<1>10. CASE \E e \in mounted : Apart(e) /\ \E kept \in BOOLEAN : RemoveElement(e, kept)
    BY <1>10, RemoveElementStep
<1>11. CASE \E e \in mounted : Apart(e) /\ \E root, n \in Nodes : DangerousInnerHtml(e, root, n)
    BY <1>11, DangerousStep
<1> QED
    BY <1>2, <1>3, <1>4, <1>5, <1>6, <1>7, <1>8, <1>9, <1>10, <1>11 DEF Mutation

(* The pointer and the focus between renders, and the ends of a render.    *)
LEMMA OtherDioxusStep ==
    ASSUME NEW dead, MappedNow(dead), panicked \in BOOLEAN,
           \/ StartRender \/ EndRender
           \/ \E e \in mounted, i \in Option(Ids) : SetElementId(e, i)
           \/ (Focus \/ SetHover \/ Resolve) /\ UNCHANGED writerVars
    PROVE  MappedNow(dead)' /\ panicked' \in BOOLEAN
<1>1. Sound(dom) /\ rendering \in BOOLEAN
    BY DEF MappedNow, WriterTypeOK
<1>2. CASE StartRender
  <2>1. /\ UNCHANGED <<node_id_mapping, element_id_mapping, stack, mounted>> /\ rendering' = TRUE
        /\ dom' = dom /\ panicked' = panicked
      BY <1>2 DEF StartRender, domVars
  <2> QED
      BY <1>1, <2>1, SameLinksStep
<1>3. CASE EndRender
  <2>1. /\ UNCHANGED <<node_id_mapping, element_id_mapping, stack, mounted>> /\ rendering' = FALSE
        /\ Flush(dom)
      BY <1>3 DEF EndRender
  <2>2. panicked' \in BOOLEAN
      BY <2>1 DEF Flush
  <2> QED
      BY <1>1, <2>1, <2>2, FlushStep, SameLinksStep
<1>4. CASE \E e \in mounted, i \in Option(Ids) : SetElementId(e, i)
  <2>1. PICK e \in mounted, i \in Option(Ids) : SetElementId(e, i)
      BY <1>4
  <2>2. NodeOf(e) \in Nodes
      BY MappedFacts
  <2>3. /\ UNCHANGED <<node_id_mapping, element_id_mapping, stack, mounted>> /\ rendering' = rendering
        /\ dom' = SetId(dom, NodeOf(e), i) /\ panicked' = panicked
      BY <2>1 DEF SetElementId, Rendering
  <2>4. Sound(dom') /\ dom'.parent = dom.parent /\ dom'.live = dom.live
      BY <1>1, <2>2, <2>3, NamedIsSound DEF SameLinks
  <2> QED
      BY <1>1, <2>3, <2>4, SameLinksStep
<1>5. CASE (Focus \/ SetHover \/ Resolve) /\ UNCHANGED writerVars
  <2>1. /\ UNCHANGED <<node_id_mapping, element_id_mapping, stack, mounted>> /\ rendering' = rendering
      BY <1>5 DEF writerVars
  <2>2. Sound(dom') /\ dom'.parent = dom.parent /\ dom'.live = dom.live /\ panicked' \in BOOLEAN
    <3>1. CASE Focus
      <4>1. PICK n \in Option(dom.live) : Flush([dom EXCEPT !.focus = n])
          BY <3>1 DEF Focus
      <4>2. PICK u : u = [dom EXCEPT !.focus = n]
          OBVIOUS
      <4>3. Pointed(dom, u)
          BY <1>1, <4>2, FocusedIsPointed
      <4>4. Flush(u)
          BY <4>1, <4>2
      <4> QED
          BY <4>3, <4>4, FlushStep DEF Pointed, Flush
    <3>2. CASE SetHover \/ Resolve
      <4>1. Pointed(dom, dom')
          BY <1>1, <3>2, PointerStep
      <4>2. panicked' \in BOOLEAN
          BY <3>2 DEF SetHover, Resolve
      <4> QED
          BY <4>1, <4>2 DEF Pointed
    <3> QED
        BY <1>5, <3>1, <3>2
  <2> QED
      BY <1>1, <2>1, <2>2, SameLinksStep
<1> QED
    BY <1>2, <1>3, <1>4, <1>5

-----------------------------------------------------------------------------
(* The invariant.                                                          *)

ScriptsDrive == scenario \in {"ids", "pointer"}

WriterIdle ==
    /\ node_id_mapping = [e \in ElementIds |-> None]
    /\ element_id_mapping = [n \in Nodes |-> None]
    /\ stack = <<>> /\ mounted = {} /\ rendering = FALSE

(* The document is sound and Dioxus in order; a document that scripts      *)
(* drive also never holds what a flush or a hit test could panic at.       *)
Inv ==
    /\ panicked \in BOOLEAN
    /\ \E dead : MappedNow(dead)
    /\ ScriptsDrive => Ready(dom) /\ ~panicked /\ WriterIdle

LEMMA IdleIsMapped ==
    ASSUME Sound(dom), WriterIdle PROVE MappedNow({})
<1>1. WriterTypeOK
  <2>1. node_id_mapping \in [ElementIds -> Option(Nodes)]
      BY DEF WriterIdle, Option
  <2>2. element_id_mapping \in [Nodes -> Option(ElementIds)]
      BY DEF WriterIdle, Option
  <2>3. stack \in Seq(Nodes) /\ mounted \subseteq ElementIds /\ rendering \in BOOLEAN
    <3>1. stack = <<>> /\ mounted = {}
        BY DEF WriterIdle
    <3>2. rendering = FALSE
        BY DEF WriterIdle
    <3>3. stack \in Seq(Nodes) /\ mounted \subseteq ElementIds
        BY <3>1
    <3>4. rendering \in BOOLEAN
        BY <3>2
    <3> QED
        BY <3>3, <3>4
  <2> QED
      BY <2>1, <2>2, <2>3 DEF WriterTypeOK
<1>2. Inverses(node_id_mapping, element_id_mapping)
    BY DEF WriterIdle, Inverses
<1>3. Accounted(dom.live, node_id_mapping, mounted, {})
    BY DEF WriterIdle, Accounted, Option
<1>4. OnStack(node_id_mapping, mounted, stack)
    BY DEF WriterIdle, OnStack, IsInjective, ToSet
<1>5. Split(dom.parent, {})
    BY DEF Split
<1> QED
    BY <1>1, <1>2, <1>3, <1>4, <1>5 DEF MappedNow, Stands, Standing

LEMMA EmptyTree ==
    ASSUME NEW par, par = [n \in Nodes |-> None], NEW kids, kids = [n \in AllNodes |-> <<>>]
    PROVE  IsTree(par, kids)
<1>1. par \in ParentMaps /\ kids \in ChildLists
    BY DEF ParentMaps, ChildLists, Option
<1>2. \A p \in AllNodes : kids[p] = <<>> /\ Kids(kids, p) = {} /\ IsInjective(kids[p])
    BY DEF Kids, ToSet, IsInjective
<1>3. Linked(par, kids)
    BY <1>2, NotNone DEF Linked
<1>4. PICK h : h = [m \in AllNodes |-> 0]
    OBVIOUS
<1>5. h \in [AllNodes -> Nat] /\ Ranked(par, h)
    BY <1>4 DEF Ranked
<1> QED
    BY <1>1, <1>2, <1>3, <1>5 DEF IsTree

LEMMA InitIsReady ==
    ASSUME TreeInit PROVE Ready(dom) /\ ~panicked
<1>1. /\ dom.unused = Nodes /\ dom.live = {} /\ dom.parent = [n \in Nodes |-> None]
      /\ dom.children = [n \in AllNodes |-> <<>>] /\ dom.in_document = {Document}
      /\ dom.id = [n \in Nodes |-> None] /\ dom.nodes_to_id = [i \in Ids |-> {}]
      /\ dom.hover = None /\ dom.focus = None
      /\ dom.paint_children = [n \in AllNodes |-> {}]
      /\ dom.nodes_to_stylesheet = {} /\ dom.style_nodes = {} /\ ~panicked
    BY DEF TreeInit
<1>2. dom \in Documents
    BY DEF TreeInit, Documents, AllNodes, Option
<1>3. IsTree(dom.parent, dom.children)
    BY <1>1, EmptyTree
<1>4. Flags(dom.parent, dom.in_document, {})
    BY <1>1, NoneIsNone DEF Flags
<1>5. Lives(dom)
    BY <1>1 DEF Lives
<1>6. Refers(dom)
  <2>1. Indexed(dom)
      BY <1>1, KindsAssumption DEF Indexed
  <2> QED
      BY <1>1, <2>1 DEF Refers, Option
<1>7. dom.style_nodes \subseteq Styles(dom.live) /\ \A n \in AllNodes : dom.paint_children[n] \subseteq dom.live
    BY <1>1
<1> QED
    BY <1>1, <1>2, <1>3, <1>4, <1>5, <1>6, <1>7 DEF Ready, Sound

LEMMA InitInv == Init => Inv
<1> SUFFICES ASSUME Init PROVE Inv
    OBVIOUS
<1>1. Ready(dom) /\ Sound(dom) /\ ~panicked /\ panicked \in BOOLEAN
    BY InitIsReady DEF Init, TreeInit, Ready
<1>2. WriterIdle
    BY DEF Init, WriterInit, WriterIdle
<1> QED
    BY <1>1, <1>2, IdleIsMapped DEF Inv

LEMMA ScriptsStep ==
    ASSUME Inv, ScriptsDrive, Scripts PROVE Inv'
<1>1. Ready(dom) /\ ~panicked /\ panicked \in BOOLEAN /\ WriterIdle
    BY DEF Inv
<1>2. Ready(dom') /\ panicked' = panicked
    BY <1>1, TreeCallStep, ContentStep, PointerStaysReady DEF Scripts
<1>3. scenario' = scenario /\ UNCHANGED writerVars
    BY DEF Scripts
<1>4. WriterIdle'
    BY <1>1, <1>3 DEF WriterIdle, writerVars
<1>5. Sound(dom)' /\ Ready(dom)' /\ ScriptsDrive'
    BY <1>2, <1>3 DEF Ready, ScriptsDrive
<1>6. ~panicked' /\ panicked' \in BOOLEAN
    BY <1>1, <1>2
<1>7. MappedNow({})'
    BY <1>4, <1>5, IdleIsMapped, PTL
<1> QED
    BY <1>4, <1>5, <1>6, <1>7 DEF Inv

LEMMA DioxusStep ==
    ASSUME Inv, scenario \in {"renders", "hits"}, Dioxus PROVE Inv'
<1>1. PICK dead : MappedNow(dead)
    BY DEF Inv
<1>2. panicked \in BOOLEAN
    BY DEF Inv
<1>3. (\E left : MappedNow(left)') /\ panicked' \in BOOLEAN
  <2>1. CASE Mutation
      BY <1>1, <1>2, <2>1, MutationStep
  <2>2. CASE ~Mutation
    <3>1. \/ StartRender \/ EndRender
          \/ \E e \in mounted, i \in Option(Ids) : SetElementId(e, i)
          \/ (Focus \/ SetHover \/ Resolve) /\ UNCHANGED writerVars
        BY <2>2 DEF Dioxus
    <3> QED
        BY <1>1, <1>2, <3>1, OtherDioxusStep
  <2> QED
      BY <2>1, <2>2
<1>4. ~ScriptsDrive'
    BY DEF Dioxus, ScriptsDrive
<1> QED
    BY <1>3, <1>4 DEF Inv

LEMMA NextInv == Inv /\ [Next]_vars => Inv'
<1> SUFFICES ASSUME Inv, [Next]_vars PROVE Inv'
    OBVIOUS
<1>1. CASE UNCHANGED vars
  <2>1. dom' = dom /\ panicked' = panicked /\ scenario' = scenario /\ UNCHANGED writerVars
      BY <1>1 DEF vars, domVars
  <2> QED
      BY <2>1 DEF Inv, MappedNow, Stands, WriterTypeOK, WriterIdle, ScriptsDrive, writerVars
<1>2. CASE Next
  <2>1. CASE ScriptsDrive /\ Scripts
      BY <2>1, ScriptsStep
  <2>2. CASE scenario \in {"renders", "hits"} /\ Dioxus
      BY <2>2, DioxusStep
  <2> QED
      BY <1>2, <2>1, <2>2 DEF Next, ScriptsDrive
<1> QED
    BY <1>1, <1>2

LEMMA SpecInv == Spec => []Inv
BY InitInv, NextInv, PTL DEF Spec

LEMMA InvIsSound == ASSUME Inv PROVE Sound(dom) /\ WriterTypeOK
BY DEF Inv, MappedNow

(* The links of a tree, as the lists of children show them.                *)
LEMMA ListedOnce ==
    ASSUME NEW t, Sound(t), NEW n \in Nodes, NEW p \in AllNodes
    PROVE  Cardinality({i \in DOMAIN t.children[p] : t.children[p][i] = n})
               = IF t.parent[n] = p THEN 1 ELSE 0
<1> DEFINE places == {i \in DOMAIN t.children[p] : t.children[p][i] = n}
<1>1. /\ t.children[p] \in Seq(Nodes) /\ IsInjective(t.children[p])
      /\ n \in Kids(t.children, p) <=> t.parent[n] = p
    BY DEF Sound, IsTree, ChildLists, Linked
<1>2. n \in Kids(t.children, p) <=> \E i \in DOMAIN t.children[p] : t.children[p][i] = n
    BY <1>1 DEF Kids, ToSet
<1>3. CASE t.parent[n] = p
  <2>1. PICK i \in DOMAIN t.children[p] : t.children[p][i] = n
      BY <1>1, <1>2, <1>3
  <2>2. places = {i}
      BY <1>1, <2>1 DEF IsInjective
  <2> QED
      BY <1>3, <2>2, FS_Singleton
<1>4. CASE t.parent[n] # p
  <2>1. places = {}
      BY <1>1, <1>2, <1>4
  <2> QED
      BY <1>4, <2>1, FS_EmptySet
<1> QED
    BY <1>3, <1>4

LEMMA RootReaches ==
    ASSUME NEW t, Sound(t) PROVE Subtree(t, Document) = t.in_document
<1> DEFINE all == Below(t.children, Document)
<1>1. /\ IsTree(t.parent, t.children) /\ t.children \in ChildLists /\ t.parent \in ParentMaps
      /\ Flags(t.parent, t.in_document, {}) /\ t.in_document \in SUBSET AllNodes
    BY FieldTypes DEF Sound
<1>2. Document \in AllNodes /\ Document \in all /\ all \in SUBSET AllNodes
    BY <1>1, NotNone, BelowFacts
<1>3. all \subseteq t.in_document
  <2>1. \A m \in t.in_document : Kids(t.children, m) \subseteq t.in_document
    <3>1. SUFFICES ASSUME NEW m \in t.in_document, NEW c \in Kids(t.children, m)
                   PROVE  c \in t.in_document
        OBVIOUS
    <3>2. m \in AllNodes /\ c \in Nodes
        BY <1>1, <3>1, KidsAreNodes
    <3>3. t.parent[c] = m
        BY <1>1, <3>1, <3>2 DEF IsTree, Linked
    <3> QED
        BY <1>1, <3>1, <3>2, <3>3 DEF Flags
  <2>2. Document \in t.in_document
      BY <1>1 DEF Flags
  <2> QED
      BY <1>1, <1>2, <2>1, <2>2, BelowFacts
<1>4. t.in_document \subseteq all
  <2>1. PICK h \in [AllNodes -> Nat] : Ranked(t.parent, h)
      BY <1>1 DEF IsTree
  <2>2. PICK X : X = t.in_document \ all
      OBVIOUS
  <2>3. SUFFICES ASSUME X # {} PROVE FALSE
      BY <2>2
  <2>4. PICK m \in X : \A a \in X : h[m] <= h[a]
      BY <1>1, <2>2, <2>3, LeastRank
  <2>5. m \in Nodes /\ m \in t.in_document /\ m \notin all
      BY <1>1, <1>2, <2>2, <2>4 DEF AllNodes
  <2>6. t.parent[m] \in t.in_document /\ t.parent[m] \in AllNodes /\ t.parent[m] # None
      BY <1>1, <2>5, NotNone DEF Flags
  <2>7. t.parent[m] \notin all
      BY <1>1, <1>2, <2>5, BelowLinks
  <2>8. h[t.parent[m]] < h[m] /\ h[m] <= h[t.parent[m]]
      BY <2>1, <2>2, <2>4, <2>5, <2>6, <2>7 DEF Ranked
  <2> QED
      BY <2>1, <2>5, <2>6, <2>8, NotNone
<1>5. all = t.in_document
    BY <1>3, <1>4
<1> QED
    BY <1>5, BelowIsSubtree

LEMMA SoundIsConsistent ==
    ASSUME Sound(dom) PROVE TreeIsConsistent
<1>1. \A n \in Nodes : n \notin Ancestors(dom, n)
  <2>1. SUFFICES ASSUME NEW n \in Nodes, n \in Above(dom.parent, n) PROVE FALSE
      BY AboveIsAncestors
  <2>2. dom.parent \in ParentMaps /\ n \in AllNodes
      BY NotNone DEF Sound, IsTree
  <2>3. PICK h \in [AllNodes -> Nat] : Ranked(dom.parent, h)
      BY DEF Sound, IsTree
  <2>4. h[n] < h[n] /\ h[n] \in Nat
      BY <2>1, <2>2, <2>3, AboveRanks
  <2> QED
      BY <2>4
<1>2. \A n \in Nodes, p \in AllNodes :
          Cardinality({i \in DOMAIN dom.children[p] : dom.children[p][i] = n})
              = IF dom.parent[n] = p THEN 1 ELSE 0
    BY ListedOnce
<1>3. Subtree(dom, Document) = dom.in_document
    BY RootReaches
<1>4. dom.in_document \ {Document} \subseteq dom.live
    BY DEF Sound, Refers
<1> QED
    BY <1>1, <1>2, <1>3, <1>4 DEF TreeIsConsistent

LEMMA MappedIsLive ==
    ASSUME Inv PROVE NothingDangles
<1>1. PICK dead : MappedNow(dead)
    BY DEF Inv
<1>2. ReferencesAreLive
    BY <1>1 DEF MappedNow, Sound, Refers, ReferencesAreLive
<1>3. /\ \A e \in ElementIds : node_id_mapping[e] \in Option(dom.live)
      /\ \A e \in mounted : node_id_mapping[e] # None
      /\ Inverses(node_id_mapping, element_id_mapping)
    BY <1>1 DEF MappedNow, Stands, Standing, Accounted
<1>4. /\ ToSet(stack) \subseteq dom.live /\ MapsTyped(node_id_mapping, element_id_mapping)
    BY <1>1, MappedFacts
<1>5. \A n \in Nodes : element_id_mapping[n] # None =>
          n \in dom.live /\ node_id_mapping[element_id_mapping[n]] = n
  <2>1. SUFFICES ASSUME NEW n \in Nodes, element_id_mapping[n] # None
                 PROVE  n \in dom.live /\ node_id_mapping[element_id_mapping[n]] = n
      OBVIOUS
  <2>2. element_id_mapping[n] \in ElementIds /\ node_id_mapping[element_id_mapping[n]] = n
      BY <1>3, <1>4, <2>1 DEF Inverses, MapsTyped, Option
  <2> QED
      BY <1>3, <2>2, NoneIsNone DEF Option
<1> QED
    BY <1>2, <1>3, <1>4, <1>5 DEF NothingDangles, MappedElementsAreLive

LEMMA HoverGoesToParent ==
    ASSUME NEW t, Sound(t), NEW n \in Nodes, n \in t.in_document, t.hover \in Subtree(t, n)
    PROVE  RemoveNode(t, n).hover = IF t.parent[n] \in Nodes THEN t.parent[n] ELSE None
<1> DEFINE below == Below(t.children, n)
           p == t.parent[n]
           over == Above(t.parent, n)
<1>1. PICK h0 : h0 = t.hover
    OBVIOUS
<1>2. PICK S : S = t.in_document \ below
    OBVIOUS
<1>3. /\ t \in Documents /\ IsTree(t.parent, t.children) /\ t.children \in ChildLists
      /\ t.parent \in ParentMaps /\ Flags(t.parent, t.in_document, {})
      /\ t.in_document \in SUBSET AllNodes /\ n \in AllNodes
    BY FieldTypes, NotNone DEF Sound
<1>4. PICK h \in [AllNodes -> Nat] : Ranked(t.parent, h)
    BY <1>3 DEF IsTree
<1>5. h0 \in below /\ h0 \in AllNodes /\ below \in SUBSET AllNodes
    BY <1>1, <1>3, BelowIsSubtree, BelowFacts
<1>6. p \in t.in_document /\ p # None
    BY <1>3, NotNone DEF Flags
<1>7. over = {p} \cup Above(t.parent, p) /\ over \in SUBSET AllNodes /\ p \in AllNodes
    BY <1>3, <1>6, AboveParent, AboveFacts
<1>8. over \cap below = {}
  <2>1. SUFFICES ASSUME NEW m \in over, m \in below PROVE FALSE
      OBVIOUS
  <2>2. h[m] < h[n] /\ m \in AllNodes
      BY <1>3, <1>4, <1>7, <2>1, AboveRanks
  <2>3. m = n \/ h[n] < h[m]
      BY <1>3, <1>4, <2>1, BelowRanks
  <2> QED
      BY <1>3, <1>4, <2>2, <2>3
<1>9. over \subseteq Above(t.parent, h0) /\ Above(t.parent, h0) \subseteq below \cup over
    BY <1>3, <1>5, BelowAndAbove
<1>10. PICK found : found = NearestSurviving(t, h0, S)
    OBVIOUS
<1> HIDE DEF below, p, over
<1>11. PICK surviving : surviving = Ancestors(t, h0) \cap S \cap Nodes
    OBVIOUS
<1>12. surviving = over \cap t.in_document \cap Nodes
    BY <1>2, <1>8, <1>9, <1>11, AboveIsAncestors
<1>13. /\ surviving = {} => found = None
       /\ surviving # {} => found \in surviving /\ \A a \in surviving \ {found} : a \in Above(t.parent, found)
    BY <1>3, <1>4, <1>5, <1>10, <1>11, NearestSurvives, AboveIsAncestors
<1>14. RemoveNode(t, n).hover = found
    BY <1>1, <1>2, <1>5, <1>10, RemoveNodeIsSound, BelowIsSubtree DEF below
<1>15. CASE p \in Nodes
  <2>1. p \in surviving
      BY <1>6, <1>7, <1>12, <1>15
  <2>2. SUFFICES ASSUME found # p PROVE FALSE
      BY <1>14, <1>15 DEF p
  <2>3. found \in surviving /\ p \in Above(t.parent, found) /\ found \in Nodes
      BY <1>12, <1>13, <2>1, <2>2
  <2>4. found \in Above(t.parent, p)
      BY <1>7, <1>12, <2>2, <2>3
  <2>5. h[p] < h[found] /\ h[found] < h[p]
      BY <1>3, <1>4, <1>15, <2>3, <2>4, AboveRanks
  <2> QED
      BY <1>4, <1>7, <2>3, <2>5, NotNone
<1>16. CASE p \notin Nodes
  <2>1. Above(t.parent, p) = {}
      BY <1>3, <1>7, <1>16, AboveNone
  <2>2. surviving = {}
      BY <1>7, <1>12, <1>16, <2>1
  <2> QED
      BY <1>13, <1>14, <1>16, <2>2 DEF p
<1> QED
    BY <1>15, <1>16

LEMMA HoverStep ==
    ASSUME Sound(dom), NEW n \in Nodes, RemoveChild(n), n \in dom.in_document,
           dom.hover \in Subtree(dom, n)
    PROVE  dom'.hover = BridgedTo(n)
<1>1. PICK u : u = RemoveNode(dom, n)
    OBVIOUS
<1>2. u.hover = BridgedTo(n)
    BY <1>1, HoverGoesToParent DEF BridgedTo
<1>3. Sound(u)
    BY <1>1, RemoveNodeIsSound
<1>4. Flush(u)
    BY <1>1 DEF RemoveChild
<1>5. Flushed(u).hover = u.hover
    BY <1>3 DEF Flushed, Sound, Documents
<1> QED
    BY <1>2, <1>4, <1>5 DEF Flush

-----------------------------------------------------------------------------
(* Tree order, and who is found by an id.                                  *)

(* What is below a node and not the node itself is below a child of it.    *)
LEMMA OnTheWay ==
    ASSUME NEW par, NEW kids, IsTree(par, kids), NEW p \in AllNodes, NEW n \in Below(kids, p), n # p
    PROVE  \E i \in DOMAIN kids[p] : n \in Below(kids, kids[p][i])
<1> DEFINE T == {m \in AllNodes : m = p \/ \E c \in Kids(kids, p) : m \in Below(kids, c)}
<1>1. kids \in ChildLists
    BY DEF IsTree
<1>2. Kids(kids, p) \in SUBSET Nodes /\ Nodes \subseteq AllNodes
    BY <1>1, KidsAreNodes, NotNone
<1>3. \A c \in Kids(kids, p) : /\ c \in Below(kids, c) /\ Below(kids, c) \in SUBSET AllNodes
                               /\ \A m \in Below(kids, c) : Kids(kids, m) \subseteq Below(kids, c)
    BY <1>1, <1>2, BelowFacts
<1>4. \A m \in T : Kids(kids, m) \subseteq T
    BY <1>2, <1>3
<1>5. p \in T /\ T \in SUBSET AllNodes
    OBVIOUS
<1> HIDE DEF T
<1>6. Below(kids, p) \subseteq T
    BY <1>1, <1>4, <1>5, BelowFacts
<1>7. PICK c \in Kids(kids, p) : n \in Below(kids, c)
    BY <1>6 DEF T
<1> QED
    BY <1>7 DEF Kids, ToSet

(* No child of a node is above another.                                    *)
LEMMA SiblingsAreApart ==
    ASSUME NEW par, NEW kids, IsTree(par, kids), NEW p \in AllNodes,
           NEW i \in DOMAIN kids[p], NEW j \in DOMAIN kids[p],
           NEW n \in Below(kids, kids[p][i]), n \in Below(kids, kids[p][j])
    PROVE  i = j
<1>1. /\ kids \in ChildLists /\ par \in ParentMaps /\ Linked(par, kids) /\ IsInjective(kids[p])
    BY DEF IsTree
<1>2. PICK a \in Nodes : a = kids[p][i] /\ par[a] = p
  <2>1. kids[p][i] \in Kids(kids, p)
      BY DEF Kids, ToSet
  <2> QED
      BY <1>1, <2>1, KidsAreNodes DEF Linked
<1>3. PICK b \in Nodes : b = kids[p][j] /\ par[b] = p
  <2>1. kids[p][j] \in Kids(kids, p)
      BY DEF Kids, ToSet
  <2> QED
      BY <1>1, <2>1, KidsAreNodes DEF Linked
<1>4. PICK h \in [AllNodes -> Nat] : Ranked(par, h)
    BY DEF IsTree
<1>5. p # None /\ a \in AllNodes /\ b \in AllNodes /\ h[p] < h[a] /\ h[p] < h[b]
    BY <1>2, <1>3, <1>4, NotNone DEF Ranked
<1>6. ASSUME NEW x \in Above(par, a) \cup Above(par, b) PROVE h[x] <= h[p] /\ x \in AllNodes
  <2>1. Above(par, a) = {p} \cup Above(par, p) /\ Above(par, b) = {p} \cup Above(par, p)
      BY <1>1, <1>2, <1>3, <1>5, AboveParent
  <2>2. CASE x = p
      BY <1>4, <2>2
  <2>3. CASE x \in Above(par, p)
    <3>1. p \in Nodes
        BY <1>1, <2>3, AboveNone
    <3>2. h[x] < h[p] /\ x \in AllNodes
        BY <1>1, <1>4, <2>3, <3>1, AboveRanks, AboveFacts
    <3> QED
        BY <1>4, <3>2
  <2> QED
      BY <1>6, <2>1, <2>2, <2>3
<1>7. h[a] \in Nat /\ h[b] \in Nat /\ h[p] \in Nat
    BY <1>5
<1>8. a \notin Above(par, b) /\ b \notin Above(par, a)
    BY <1>5, <1>6, <1>7
<1>9. (a = n \/ a \in Above(par, n)) /\ (b = n \/ b \in Above(par, n)) /\ n \in AllNodes
    BY <1>1, <1>2, <1>3, <1>5, BelowAndAbove, BelowFacts
<1>10. a = b
    BY <1>1, <1>8, <1>9, AboveIsChain
<1> QED
    BY <1>1, <1>2, <1>3, <1>10 DEF IsInjective

(* m comes before n in tree order.                                         *)
BesideAndBefore(kids, m, n) ==
    \E p \in AllNodes : \E i, j \in DOMAIN kids[p] :
        i < j /\ m \in Below(kids, kids[p][i]) /\ n \in Below(kids, kids[p][j])
ComesFirst(par, kids, m, n) == m \in Above(par, n) \/ BesideAndBefore(kids, m, n)

LEMMA PrecedesIsFirst == \A t, m, n : Precedes(t, m, n) <=> ComesFirst(t.parent, t.children, m, n)
BY BelowIsSubtree, AboveIsAncestors DEF Precedes, ComesFirst, BesideAndBefore

(* What is above a node and below another: between the two.                *)
LEMMA AboveIsBelow ==
    ASSUME NEW par, NEW kids, IsTree(par, kids), NEW n \in AllNodes, NEW m \in Above(par, n)
    PROVE  n \in Nodes /\ m \in AllNodes /\ n \in Below(kids, m)
<1>1. par \in ParentMaps /\ kids \in ChildLists
    BY DEF IsTree
<1>2. m \in AllNodes /\ n \in Nodes
    BY <1>1, AboveNone, AboveFacts
<1> DEFINE T == {a \in Above(par, n) : n \in Below(kids, a)}
<1>3. Above(par, n) \in SUBSET AllNodes /\ T \in SUBSET AllNodes
    BY <1>1, AboveFacts
<1>4. ASSUME NEW a \in Nodes, n \in Below(kids, a), par[a] # None
      PROVE  par[a] \in AllNodes /\ n \in Below(kids, par[a])
  <2>1. par[a] \in AllNodes /\ a \in AllNodes
      BY <1>1, <1>4, AboveParent, NotNone
  <2>2. /\ par[a] \in Below(kids, par[a])
        /\ \A x \in Nodes : par[x] \in Below(kids, par[a]) => x \in Below(kids, par[a])
      BY <1>1, <2>1, BelowFacts, BelowLinks
  <2>3. a \in Below(kids, par[a]) /\ Below(kids, par[a]) \in SUBSET AllNodes
      BY <1>1, <2>1, <2>2, BelowFacts
  <2>4. \A x \in Below(kids, par[a]) : Kids(kids, x) \subseteq Below(kids, par[a])
      BY <1>1, <2>1, BelowFacts
  <2>5. Below(kids, a) \subseteq Below(kids, par[a])
      BY <1>1, <2>1, <2>3, <2>4, BelowFacts
  <2> QED
      BY <1>4, <2>1, <2>5
<1>5. n \in Below(kids, n)
    BY <1>1, BelowFacts
<1>6. par[n] # None => par[n] \in T
    BY <1>1, <1>2, <1>4, <1>5, AboveFacts
<1>7. \A a \in T \cap Nodes : par[a] # None => par[a] \in T
    BY <1>1, <1>4, AboveFacts
<1> HIDE DEF T
<1>8. Above(par, n) \subseteq T
    BY <1>1, <1>2, <1>3, <1>6, <1>7, AboveWithin
<1> QED
    BY <1>2, <1>8 DEF T

(* Below a node of the subtree: in the subtree.                            *)
LEMMA BelowBelow ==
    ASSUME NEW par, NEW kids, IsTree(par, kids), NEW n \in AllNodes, NEW m \in Below(kids, n)
    PROVE  m \in AllNodes /\ Below(kids, m) \subseteq Below(kids, n)
<1>1. kids \in ChildLists
    BY DEF IsTree
<1>2. /\ Below(kids, n) \in SUBSET AllNodes /\ m \in AllNodes
      /\ \A x \in Below(kids, n) : Kids(kids, x) \subseteq Below(kids, n)
    BY <1>1, BelowFacts
<1> QED
    BY <1>1, <1>2, BelowFacts

(* A child of p, by its place in the list, and what is below it.           *)
LEMMA ChildFacts ==
    ASSUME NEW par, NEW kids, IsTree(par, kids), NEW p \in AllNodes, NEW i \in DOMAIN kids[p]
    PROVE  /\ kids[p][i] \in Nodes /\ kids[p][i] \in AllNodes
           /\ par[kids[p][i]] = p /\ kids[p][i] \in Below(kids, p)
           /\ i \in Nat
           /\ \A n \in Below(kids, kids[p][i]) : p \in Above(par, n) /\ n \in AllNodes
<1>1. kids \in ChildLists /\ par \in ParentMaps /\ Linked(par, kids)
    BY DEF IsTree
<1>2. kids[p][i] \in Kids(kids, p) /\ kids[p] \in Seq(Nodes)
    BY <1>1 DEF Kids, ToSet, ChildLists
<1>3. /\ kids[p][i] \in Nodes /\ kids[p][i] \in AllNodes /\ par[kids[p][i]] = p /\ i \in Nat
    BY <1>1, <1>2, KidsAreNodes, NotNone DEF Linked
<1>4. kids[p][i] \in Below(kids, p)
    BY <1>1, <1>2, BelowFacts
<1>5. p \in Above(par, kids[p][i])
    BY <1>1, <1>3, NotNone, AboveFacts
<1>6. \A n \in Below(kids, kids[p][i]) : Above(par, kids[p][i]) \subseteq Above(par, n) /\ n \in AllNodes
    BY <1>3, BelowAndAbove, BelowBelow
<1> QED
    BY <1>3, <1>4, <1>5, <1>6

(* Two nodes apart at p are not the other way round at q, below p.         *)
LEMMA ApartOnce ==
    ASSUME NEW par, NEW kids, IsTree(par, kids), NEW p \in AllNodes, NEW q \in AllNodes, p \in Above(par, q),
           NEW i \in DOMAIN kids[p], NEW j \in DOMAIN kids[p], i # j,
           NEW m \in Below(kids, kids[p][i]), NEW n \in Below(kids, kids[p][j]),
           m \in Below(kids, q), n \in Below(kids, q)
    PROVE  FALSE
<1>1. q \in Below(kids, p) /\ q # p
  <2>1. q \in Below(kids, p) /\ q \in Nodes
      BY AboveIsBelow
  <2>2. PICK h \in [AllNodes -> Nat] : Ranked(par, h)
      BY DEF IsTree
  <2>3. h[p] < h[q]
      BY <2>1, <2>2, AboveRanks DEF IsTree
  <2> QED
      BY <2>1, <2>2, <2>3
<1>2. PICK x \in DOMAIN kids[p] : q \in Below(kids, kids[p][x])
    BY <1>1, OnTheWay
<1>3. m \in Below(kids, kids[p][x]) /\ n \in Below(kids, kids[p][x])
    BY <1>2, ChildFacts, BelowBelow
<1>4. i = x /\ j = x
    BY <1>2, <1>3, SiblingsAreApart
<1> QED
    BY <1>4

LEMMA FirstIsStrict ==
    ASSUME NEW par, NEW kids, IsTree(par, kids), NEW m \in AllNodes, NEW n \in AllNodes,
           ComesFirst(par, kids, m, n), ComesFirst(par, kids, n, m)
    PROVE  FALSE
<1>1. PICK h \in [AllNodes -> Nat] : Ranked(par, h)
    BY DEF IsTree
<1>2. ASSUME m \in Above(par, n), n \in Above(par, m) PROVE FALSE
  <2>1. m \in Nodes /\ n \in Nodes
      BY <1>2, AboveIsBelow
  <2>2. h[m] < h[n] /\ h[n] < h[m]
      BY <1>1, <1>2, <2>1, AboveRanks DEF IsTree
  <2> QED
      BY <1>1, <2>2
<1>3. ASSUME NEW a \in AllNodes, NEW b \in AllNodes, a \in Above(par, b), BesideAndBefore(kids, b, a)
      PROVE  FALSE
  <2>0. PICK p \in AllNodes : \E i, j \in DOMAIN kids[p] :
            i < j /\ b \in Below(kids, kids[p][i]) /\ a \in Below(kids, kids[p][j])
      BY <1>3 DEF BesideAndBefore
  <2>1. PICK i \in DOMAIN kids[p], j \in DOMAIN kids[p] :
            i < j /\ b \in Below(kids, kids[p][i]) /\ a \in Below(kids, kids[p][j])
      BY <2>0
  <2>2. b \in Below(kids, a)
      BY <1>3, AboveIsBelow
  <2>3. b \in Below(kids, kids[p][j])
      BY <2>1, <2>2, ChildFacts, BelowBelow
  <2>4. i = j
      BY <2>1, <2>3, SiblingsAreApart
  <2> QED
      BY <2>1, <2>4, ChildFacts
<1>4. ASSUME BesideAndBefore(kids, m, n), BesideAndBefore(kids, n, m) PROVE FALSE
  <2>0. PICK p \in AllNodes : \E i, j \in DOMAIN kids[p] :
            i < j /\ m \in Below(kids, kids[p][i]) /\ n \in Below(kids, kids[p][j])
      BY <1>4 DEF BesideAndBefore
  <2>1. PICK i \in DOMAIN kids[p], j \in DOMAIN kids[p] :
            i < j /\ m \in Below(kids, kids[p][i]) /\ n \in Below(kids, kids[p][j])
      BY <2>0
  <2>00. PICK q \in AllNodes : \E k, l \in DOMAIN kids[q] :
            k < l /\ n \in Below(kids, kids[q][k]) /\ m \in Below(kids, kids[q][l])
      BY <1>4 DEF BesideAndBefore
  <2>2. PICK k \in DOMAIN kids[q], l \in DOMAIN kids[q] :
            k < l /\ n \in Below(kids, kids[q][k]) /\ m \in Below(kids, kids[q][l])
      BY <2>00
  <2>3. i \in Nat /\ j \in Nat /\ k \in Nat /\ l \in Nat
      BY ChildFacts
  <2>4. p \in Above(par, m) /\ q \in Above(par, m)
      BY <2>1, <2>2, ChildFacts
  <2>5. /\ m \in Below(kids, p) /\ n \in Below(kids, p)
        /\ m \in Below(kids, q) /\ n \in Below(kids, q)
      BY <2>1, <2>2, ChildFacts, BelowBelow
  <2>6. CASE p = q
    <3>1. i = l /\ j = k
        BY <2>1, <2>2, <2>6, SiblingsAreApart
    <3> QED
        BY <2>1, <2>2, <2>3, <3>1
  <2>7. CASE p \in Above(par, q)
      BY <2>1, <2>3, <2>5, <2>7, ApartOnce
  <2>8. CASE q \in Above(par, p)
      BY <2>2, <2>3, <2>5, <2>8, ApartOnce
  <2> QED
      BY <2>4, <2>6, <2>7, <2>8, AboveIsChain DEF IsTree
<1> QED
    BY <1>2, <1>3, <1>4 DEF ComesFirst

(* Lists in which what comes first is related to all that follows.         *)
Sorted(R, list) == \A x, y \in 1..Len(list) : x < y => <<list[x], list[y]>> \in R

LEMMA ConcatSorted ==
    ASSUME NEW S, NEW a \in Seq(S), NEW b \in Seq(S), NEW R, Sorted(R, a), Sorted(R, b),
           \A m \in ToSet(a), n \in ToSet(b) : <<m, n>> \in R
    PROVE  a \o b \in Seq(S) /\ ToSet(a \o b) = ToSet(a) \cup ToSet(b) /\ Sorted(R, a \o b)
<1> DEFINE c == a \o b
<1>1. /\ c \in Seq(S) /\ Len(c) = Len(a) + Len(b)
      /\ \A i \in 1..Len(a) + Len(b) : c[i] = IF i <= Len(a) THEN a[i] ELSE b[i - Len(a)]
    BY ConcatProperties
<1>2. DOMAIN a = 1..Len(a) /\ DOMAIN b = 1..Len(b) /\ Len(a) \in Nat /\ Len(b) \in Nat
    OBVIOUS
<1>3. (\A i \in 1..Len(a) : a[i] \in ToSet(a)) /\ (\A i \in 1..Len(b) : b[i] \in ToSet(b))
    BY <1>2 DEF ToSet
<1> HIDE DEF c
<1>4. ASSUME NEW x \in 1..Len(c), NEW y \in 1..Len(c), x < y PROVE <<c[x], c[y]>> \in R
  <2>1. CASE y <= Len(a)
    <3>1. x \in 1..Len(a) /\ y \in 1..Len(a) /\ c[x] = a[x] /\ c[y] = a[y]
        BY <1>1, <1>2, <1>4, <2>1
    <3> QED
        BY <1>4, <3>1 DEF Sorted
  <2>2. CASE x <= Len(a) /\ ~(y <= Len(a))
    <3>1. x \in 1..Len(a) /\ y - Len(a) \in 1..Len(b) /\ c[x] = a[x] /\ c[y] = b[y - Len(a)]
        BY <1>1, <1>2, <2>2
    <3> QED
        BY <1>3, <3>1
  <2>3. CASE ~(x <= Len(a))
    <3>1. /\ x - Len(a) \in 1..Len(b) /\ y - Len(a) \in 1..Len(b) /\ x - Len(a) < y - Len(a)
          /\ c[x] = b[x - Len(a)] /\ c[y] = b[y - Len(a)]
        BY <1>1, <1>2, <1>4, <2>3
    <3> QED
        BY <3>1 DEF Sorted
  <2> QED
      BY <1>1, <1>2, <1>4, <2>1, <2>2, <2>3
<1>5. ToSet(c) = ToSet(a) \cup ToSet(b)
    BY ConcatFacts DEF c
<1> QED
    BY <1>1, <1>4, <1>5 DEF Sorted, c

(* What the first k of a list of lists hold.                               *)
HeldBy(lists, k) == UNION {ToSet(lists[i]) : i \in 1..k}

(* What FlattenSeq makes of them, one after another.                       *)
Joins(f, lists) == f = [i \in 1..Len(lists) |-> IF i = 1 THEN lists[i] ELSE f[i - 1] \o lists[i]]

LEMMA JoinExists ==
    ASSUME NEW S, NEW lists \in Seq(Seq(S))
    PROVE  \E f : Joins(f, lists)
<1> DEFINE N == Len(lists)
           s == [k \in 1..N |-> [list \in Seq(S) |-> list \o lists[k]]]
           R == [k \in 0..N |-> Seq(S)]
<1>1. N \in Nat /\ \A k \in 1..N : lists[k] \in Seq(S)
    OBVIOUS
<1>2. <<>> \in R[0]
    BY <1>1
<1>3. \A k \in 1..N : \A u \in R[k - 1] : s[k][u] = u \o lists[k] /\ s[k][u] \in R[k]
  <2> TAKE k \in 1..N
  <2>1. k - 1 \in 0..N /\ k \in 0..N /\ lists[k] \in Seq(S)
      BY <1>1
  <2>2. R[k - 1] = Seq(S) /\ R[k] = Seq(S) /\ \A u \in Seq(S) : s[k][u] = u \o lists[k]
      BY <2>1
  <2>3. \A u \in Seq(S) : u \o lists[k] \in Seq(S)
      BY <2>1, ConcatProperties
  <2> QED
      BY <2>2, <2>3
<1>4. \A k \in 0..N : R[k] = Seq(S)
    OBVIOUS
<1> HIDE DEF s, R, N
<1>5. PICK f : IsFoldOf(f, N, <<>>, s) /\ \A k \in 0..N : f[k] \in R[k]
    BY <1>1, <1>2, <1>3, FoldThrough
<1> DEFINE g == [i \in 1..N |-> f[i]]
<1>6. \A k \in 0..N : f[k] = IF k = 0 THEN <<>> ELSE s[k][f[k - 1]]
    BY <1>5 DEF IsFoldOf
<1>7. ASSUME NEW i \in 1..N PROVE g[i] = IF i = 1 THEN lists[i] ELSE g[i - 1] \o lists[i]
  <2>1. i \in 0..N /\ i - 1 \in 0..N /\ i # 0 /\ lists[i] \in Seq(S)
      BY <1>1
  <2>2. g[i] = f[i - 1] \o lists[i]
      BY <1>3, <1>5, <1>6, <2>1
  <2>3. CASE i = 1
    <3>1. f[i - 1] = <<>>
        BY <1>6, <2>1, <2>3
    <3>2. <<>> \o lists[i] = lists[i]
        BY <2>1, ConcatEmptySeq
    <3> QED
        BY <2>2, <2>3, <3>1, <3>2
  <2>4. CASE i # 1
    <3>1. i - 1 \in 1..N
        BY <1>1, <2>4
    <3> QED
        BY <2>2, <2>4, <3>1
  <2> QED
      BY <2>3, <2>4
<1>8. Joins(g, lists)
  <2>1. g = [i \in 1..N |-> g[i]]
      OBVIOUS
  <2> HIDE DEF g
  <2> QED
      BY <1>7, <2>1 DEF Joins, N
<1> QED
    BY <1>8

LEMMA FlattenedIsSorted ==
    ASSUME NEW S, NEW lists \in Seq(Seq(S)), NEW R,
           \A i \in 1..Len(lists) : Sorted(R, lists[i]),
           \A i, j \in 1..Len(lists) : i < j =>
               \A m \in ToSet(lists[i]), n \in ToSet(lists[j]) : <<m, n>> \in R
    PROVE  /\ FlattenSeq(lists) \in Seq(S)
           /\ ToSet(FlattenSeq(lists)) = HeldBy(lists, Len(lists))
           /\ Sorted(R, FlattenSeq(lists))
<1> DEFINE N == Len(lists)
           F == CHOOSE f : Joins(f, lists)
           Good(k) == F[k] \in Seq(S) /\ ToSet(F[k]) = HeldBy(lists, k) /\ Sorted(R, F[k])
           K == {k \in Nat : k + 1 <= N => Good(k + 1)}
<1>1. N \in Nat /\ \A k \in 1..N : lists[k] \in Seq(S)
    OBVIOUS
<1>2. CASE N = 0
  <2>1. FlattenSeq(lists) = lists /\ lists = <<>>
      BY <1>2 DEF FlattenSeq
  <2>2. <<>> \in Seq(S) /\ ToSet(<<>>) = {} /\ Len(<<>>) = 0
      BY DEF ToSet
  <2>3. HeldBy(lists, N) = {}
      BY <1>2 DEF HeldBy
  <2>4. Sorted(R, <<>>)
      BY <2>2 DEF Sorted
  <2> QED
      BY <2>1, <2>2, <2>3, <2>4
<1>3. CASE N # 0
  <2>1. Joins(F, lists)
      BY JoinExists
  <2>2. FlattenSeq(lists) = F[N]
      BY <1>3 DEF FlattenSeq, Joins
  <2> HIDE DEF F
  <2>3. \A i \in 1..N : F[i] = IF i = 1 THEN lists[i] ELSE F[i - 1] \o lists[i]
      BY <2>1 DEF Joins
  <2>4. 0 \in K
    <3>1. 1 \in 1..N /\ 0 + 1 = 1
        BY <1>1, <1>3
    <3>2. F[1] = lists[1] /\ lists[1] \in Seq(S) /\ Sorted(R, lists[1])
        BY <1>1, <2>3, <3>1
    <3>3. HeldBy(lists, 1) = ToSet(lists[1])
      <4>1. 1..1 = {1}
          OBVIOUS
      <4> QED
          BY <4>1 DEF HeldBy
    <3> QED
        BY <3>1, <3>2, <3>3
  <2>5. ASSUME NEW k \in K PROVE k + 1 \in K
    <3>1. SUFFICES ASSUME (k + 1) + 1 <= N PROVE Good((k + 1) + 1)
        OBVIOUS
    <3>2. PICK l : l = (k + 1) + 1
        OBVIOUS
    <3>3. /\ k \in Nat /\ l \in 1..N /\ l # 1 /\ l - 1 = k + 1 /\ k + 1 \in 1..N /\ k + 1 <= N
          /\ 1..l = (1..k + 1) \cup {l} /\ \A i \in 1..k + 1 : i \in 1..N /\ i < l
        BY <1>1, <3>1, <3>2
    <3>4. Good(k + 1)
        BY <3>3
    <3>5. F[l] = F[k + 1] \o lists[l] /\ lists[l] \in Seq(S) /\ Sorted(R, lists[l])
        BY <1>1, <2>3, <3>3
    <3>6. HeldBy(lists, l) = HeldBy(lists, k + 1) \cup ToSet(lists[l])
        BY <3>3 DEF HeldBy
    <3>7. \A m \in HeldBy(lists, k + 1), n \in ToSet(lists[l]) : <<m, n>> \in R
        BY <3>3 DEF HeldBy
    <3>8. Good(l)
        BY <3>4, <3>5, <3>6, <3>7, ConcatSorted
    <3> QED
        BY <3>2, <3>8
  <2>6. K \in SUBSET Nat
      OBVIOUS
  <2> HIDE DEF K
  <2>7. K = Nat
      BY <2>4, <2>5, <2>6, SetInduction
  <2>8. N - 1 \in Nat /\ (N - 1) + 1 = N
      BY <1>1, <1>3
  <2>9. Good(N)
    <3>1. N - 1 \in K
        BY <2>7, <2>8
    <3>2. (N - 1) + 1 <= N => Good((N - 1) + 1)
        BY <3>1 DEF K
    <3> QED
        BY <1>1, <2>8, <3>2
  <2> QED
      BY <2>2, <2>9
<1> QED
    BY <1>2, <1>3

(* The first of those of a sorted list that are in keep.                   *)
LEMMA FirstOfSorted ==
    ASSUME NEW S, NEW list \in Seq(S), NEW R, Sorted(R, list), NEW keep
    PROVE  LET found == Filtered(list, keep)
           IN  /\ found = <<>> <=> ToSet(list) \cap keep = {}
               /\ found # <<>> => /\ Head(found) \in ToSet(list) \cap keep
                                  /\ \A m \in (ToSet(list) \cap keep) \ {Head(found)} : <<Head(found), m>> \in R
<1> DEFINE found == Filtered(list, keep)
<1>1. found \in Seq(S) /\ Gathers(list, keep, found, Len(list)) /\ ToSet(found) = ToSet(list) \cap keep
    BY FilteredProperties, FilteredSet
<1> HIDE DEF found
<1>2. DOMAIN found = 1..Len(found) /\ Len(found) \in Nat
    BY <1>1
<1>3. found = <<>> <=> ToSet(found) = {}
  <2>1. found = <<>> => ToSet(found) = {}
      BY DEF ToSet
  <2>2. ASSUME found # <<>> PROVE found[1] \in ToSet(found)
    <3>1. 1 \in DOMAIN found
        BY <1>1, <1>2, <2>2, EmptySeq
    <3> QED
        BY <3>1 DEF ToSet
  <2> QED
      BY <2>1, <2>2
<1>4. ASSUME found # <<>> PROVE 1 \in 1..Len(found) /\ Head(found) = found[1]
    BY <1>1, <1>2, <1>4
<1>5. ASSUME found # <<>>, NEW m \in ToSet(found), m # Head(found) PROVE <<Head(found), m>> \in R
  <2>1. PICK i \in 1..Len(found) : found[i] = m
      BY <1>2 DEF ToSet
  <2>2. 1 < i
      BY <1>2, <1>4, <1>5, <2>1
  <2>3. PICK a \in 1..Len(list), b \in 1..Len(list) : a < b /\ found[1] = list[a] /\ found[i] = list[b]
      BY <1>1, <1>4, <1>5, <2>1, <2>2 DEF Gathers
  <2> QED
      BY <1>4, <1>5, <2>1, <2>3 DEF Sorted
<1>6. found # <<>> => Head(found) \in ToSet(found)
    BY <1>2, <1>4 DEF ToSet
<1> QED
    BY <1>1, <1>3, <1>5, <1>6 DEF found

(* How many nodes are above a node: ranks that go up by one at a time.     *)
Depth(par, n) == Cardinality(Above(par, n))

LEMMA DepthFacts ==
    ASSUME NEW par, NEW kids, IsTree(par, kids)
    PROVE  /\ \A n \in AllNodes : Depth(par, n) \in 0..Cardinality(Nodes)
           /\ \A n \in Nodes : par[n] # None => Depth(par, n) = Depth(par, par[n]) + 1
           /\ Depth(par, Document) = 0
           /\ \A n \in AllNodes : \A m \in Below(kids, n) \ {n} : Depth(par, n) < Depth(par, m)
<1>1. par \in ParentMaps
    BY DEF IsTree
<1>2. PICK h \in [AllNodes -> Nat] : Ranked(par, h)
    BY DEF IsTree
<1>3. ASSUME NEW n \in AllNodes
      PROVE  /\ IsFiniteSet(Above(par, n)) /\ n \notin Above(par, n)
             /\ Depth(par, n) \in 0..Cardinality(Nodes)
  <2>1. Above(par, n) \in SUBSET AllNodes
      BY <1>1, AboveFacts
  <2>2. ASSUME n \in Above(par, n) PROVE FALSE
    <3>1. n \in Nodes
        BY <1>1, <2>2, AboveNone
    <3>2. h[n] < h[n] /\ h[n] \in Nat
        BY <1>1, <1>2, <2>2, <3>1, AboveRanks
    <3> QED
        BY <3>2
  <2>3. IsFiniteSet(AllNodes \ {n}) /\ Cardinality(AllNodes \ {n}) = Cardinality(Nodes)
    <3>1. Cardinality(AllNodes \ {n}) = Cardinality(AllNodes) - 1 /\ IsFiniteSet(AllNodes \ {n})
        BY NodesAreFinite, FS_RemoveElement
    <3>2. Cardinality(AllNodes) = Cardinality(Nodes) + 1 /\ Cardinality(Nodes) \in Nat
        BY NodesAreFinite
    <3> QED
        BY <3>1, <3>2
  <2>4. Above(par, n) \in SUBSET (AllNodes \ {n})
      BY <2>1, <2>2
  <2>5. IsFiniteSet(Above(par, n)) /\ Cardinality(Above(par, n)) <= Cardinality(Nodes)
      BY <2>3, <2>4, FS_Subset
  <2>6. Cardinality(Above(par, n)) \in Nat /\ Cardinality(Nodes) \in Nat
      BY <2>5, FS_CardinalityType, NodesAreFinite
  <2> QED
      BY <2>2, <2>5, <2>6 DEF Depth
<1>4. ASSUME NEW n \in Nodes, par[n] # None PROVE Depth(par, n) = Depth(par, par[n]) + 1
  <2>1. par[n] \in AllNodes /\ Above(par, n) = Above(par, par[n]) \cup {par[n]}
      BY <1>1, <1>4, AboveParent
  <2>2. IsFiniteSet(Above(par, par[n])) /\ par[n] \notin Above(par, par[n])
      BY <1>3, <2>1
  <2> QED
      BY <2>1, <2>2, FS_AddElement DEF Depth
<1>5. Depth(par, Document) = 0
    BY <1>1, NotNone, AboveNone, FS_EmptySet DEF Depth
<1>6. ASSUME NEW n \in AllNodes, NEW m \in Below(kids, n), m # n PROVE Depth(par, n) < Depth(par, m)
  <2> DEFINE d == [a \in AllNodes |-> Depth(par, a)]
  <2>1. d \in [AllNodes -> Nat]
      BY <1>3
  <2>2. Ranked(par, d)
    <3> SUFFICES ASSUME NEW a \in Nodes, par[a] # None PROVE d[par[a]] < d[a]
        BY DEF Ranked
    <3>1. par[a] \in AllNodes /\ a \in AllNodes
        BY <1>1, AboveParent, NotNone
    <3>2. d[a] = d[par[a]] + 1 /\ d[par[a]] \in Nat
        BY <1>4, <2>1, <3>1
    <3> QED
        BY <3>2
  <2>3. m \in AllNodes
      BY BelowBelow
  <2>4. d[n] < d[m]
    <3> HIDE DEF d
    <3> QED
        BY <1>6, <2>1, <2>2, BelowRanks
  <2> QED
      BY <2>3, <2>4
<1> QED
    BY <1>3, <1>4, <1>5, <1>6

(* One more round of TreeOrder.                                            *)
RootsOnly == [m \in AllNodes |-> <<m>>]
ListsOf(kids, below, m) == [i \in DOMAIN kids[m] |-> below[kids[m][i]]]
Deeper(kids, below) == [m \in AllNodes |-> <<m>> \o FlattenSeq(ListsOf(kids, below, m))]

LEMMA TreeOrderIsFold ==
    ASSUME NEW t, NEW n
    PROVE  TreeOrder(t, n) =
              (CHOOSE f : f = [depth \in 0..Cardinality(Nodes) |->
                  IF depth = 0 THEN RootsOnly ELSE Deeper(t.children, f[depth - 1])])[Cardinality(Nodes)][n]
BY DEF TreeOrder, RootsOnly, Deeper, ListsOf

First(par, kids) == {mn \in AllNodes \X AllNodes : ComesFirst(par, kids, mn[1], mn[2])}

(* Lists, one for each node, of what is at most so far below it.           *)
Lists(par, kids, depth) ==
    {below \in [AllNodes -> Seq(AllNodes)] : \A m \in AllNodes :
        /\ ToSet(below[m]) \subseteq Below(kids, m)
        /\ \A n \in Below(kids, m) : Depth(par, n) <= Depth(par, m) + depth => n \in ToSet(below[m])
        /\ Sorted(First(par, kids), below[m])}

LEMMA OneIsSorted ==
    ASSUME NEW m \in AllNodes, NEW R
    PROVE  <<m>> \in Seq(AllNodes) /\ ToSet(<<m>>) = {m} /\ Sorted(R, <<m>>)
<1>1. Len(<<m>>) = 1 /\ \A x, y \in 1..1 : ~(x < y)
    OBVIOUS
<1>2. Sorted(R, <<m>>)
    BY <1>1 DEF Sorted
<1> QED
    BY <1>2 DEF ToSet

LEMMA RootsAreLists ==
    ASSUME NEW par, NEW kids, IsTree(par, kids) PROVE RootsOnly \in Lists(par, kids, 0)
<1>1. RootsOnly \in [AllNodes -> Seq(AllNodes)]
    BY OneIsSorted DEF RootsOnly
<1> SUFFICES ASSUME NEW m \in AllNodes
             PROVE  /\ ToSet(RootsOnly[m]) \subseteq Below(kids, m)
                    /\ \A n \in Below(kids, m) : Depth(par, n) <= Depth(par, m) + 0 => n \in ToSet(RootsOnly[m])
                    /\ Sorted(First(par, kids), RootsOnly[m])
    BY <1>1 DEF Lists
<1>2. RootsOnly[m] = <<m>> /\ ToSet(<<m>>) = {m} /\ Sorted(First(par, kids), <<m>>)
    BY OneIsSorted DEF RootsOnly
<1>3. m \in Below(kids, m)
    BY BelowFacts DEF IsTree
<1>4. ASSUME NEW n \in Below(kids, m), Depth(par, n) <= Depth(par, m) + 0 PROVE n = m
  <2>1. n \in AllNodes /\ Depth(par, n) \in Nat /\ Depth(par, m) \in Nat
      BY DepthFacts, BelowBelow
  <2> QED
      BY <1>4, <2>1, DepthFacts
<1> QED
    BY <1>2, <1>3, <1>4

LEMMA DeeperIsLists ==
    ASSUME NEW par, NEW kids, IsTree(par, kids), NEW depth \in Nat, NEW below \in Lists(par, kids, depth)
    PROVE  Deeper(kids, below) \in Lists(par, kids, depth + 1)
<1> DEFINE R == First(par, kids)
<1>1. kids \in ChildLists /\ par \in ParentMaps
    BY DEF IsTree
<1>2. /\ below \in [AllNodes -> Seq(AllNodes)]
      /\ \A m \in AllNodes :
            /\ ToSet(below[m]) \subseteq Below(kids, m)
            /\ \A n \in Below(kids, m) : Depth(par, n) <= Depth(par, m) + depth => n \in ToSet(below[m])
            /\ Sorted(R, below[m])
    BY DEF Lists
<1>3. ASSUME NEW m \in AllNodes
      PROVE  LET list == <<m>> \o FlattenSeq(ListsOf(kids, below, m))
             IN  /\ list \in Seq(AllNodes)
                 /\ ToSet(list) \subseteq Below(kids, m)
                 /\ \A n \in Below(kids, m) : Depth(par, n) <= Depth(par, m) + (depth + 1) => n \in ToSet(list)
                 /\ Sorted(R, list)
  <2> DEFINE lists == ListsOf(kids, below, m)
             N == Len(kids[m])
             all == FlattenSeq(lists)
             list == <<m>> \o all
  <2>1. N \in Nat /\ DOMAIN kids[m] = 1..N
      BY <1>1 DEF ChildLists
  <2>2. ASSUME NEW i \in 1..N
        PROVE  /\ kids[m][i] \in Nodes /\ kids[m][i] \in AllNodes /\ par[kids[m][i]] = m
               /\ \A n \in Below(kids, kids[m][i]) : m \in Above(par, n) /\ n \in AllNodes /\ n \in Below(kids, m)
    <3>1. kids[m][i] \in Below(kids, m)
        BY <2>1, ChildFacts
    <3>2. Below(kids, kids[m][i]) \subseteq Below(kids, m)
        BY <3>1, BelowBelow
    <3> QED
        BY <2>1, <3>2, ChildFacts
  <2>3. lists \in Seq(Seq(AllNodes)) /\ Len(lists) = N /\ \A i \in 1..N : lists[i] = below[kids[m][i]]
    <3>1. lists = [i \in 1..N |-> below[kids[m][i]]]
        BY <2>1 DEF ListsOf
    <3>2. \A i \in 1..N : below[kids[m][i]] \in Seq(AllNodes)
        BY <1>2, <2>2
    <3> QED
        BY <2>1, <3>1, <3>2
  <2> HIDE DEF lists, N
  <2>4. \A i \in 1..N : Sorted(R, lists[i]) /\ ToSet(lists[i]) \subseteq Below(kids, kids[m][i])
      BY <1>2, <2>2, <2>3
  <2>5. ASSUME NEW i \in 1..N, NEW j \in 1..N, i < j, NEW a \in ToSet(lists[i]), NEW b \in ToSet(lists[j])
        PROVE  <<a, b>> \in R
    <3>1. a \in Below(kids, kids[m][i]) /\ b \in Below(kids, kids[m][j])
        BY <2>4
    <3>2. a \in AllNodes /\ b \in AllNodes
        BY <2>2, <3>1
    <3>3. BesideAndBefore(kids, a, b)
        BY <2>1, <2>5, <3>1 DEF BesideAndBefore
    <3> QED
        BY <3>2, <3>3 DEF First, ComesFirst
  <2>6. all \in Seq(AllNodes) /\ ToSet(all) = HeldBy(lists, N) /\ Sorted(R, all)
      BY <2>3, <2>4, <2>5, FlattenedIsSorted
  <2> HIDE DEF all
  <2>7. ASSUME NEW n \in ToSet(all) PROVE <<m, n>> \in R /\ n \in Below(kids, m)
    <3>1. PICK i \in 1..N : n \in ToSet(lists[i])
        BY <2>6 DEF HeldBy
    <3>2. m \in Above(par, n) /\ n \in AllNodes /\ n \in Below(kids, m)
        BY <2>2, <2>4, <3>1
    <3> QED
        BY <3>2 DEF First, ComesFirst
  <2>8. list \in Seq(AllNodes) /\ ToSet(list) = {m} \cup ToSet(all) /\ Sorted(R, list)
    <3>1. PICK one : one = <<m>>
        OBVIOUS
    <3>2. one \in Seq(AllNodes) /\ ToSet(one) = {m} /\ Sorted(R, one)
        BY <3>1, OneIsSorted
    <3>3. \A a \in ToSet(one), n \in ToSet(all) : <<a, n>> \in R
        BY <2>7, <3>2
    <3>4. list = one \o all
        BY <3>1
    <3> HIDE DEF list, R
    <3>5. /\ one \o all \in Seq(AllNodes) /\ ToSet(one \o all) = ToSet(one) \cup ToSet(all)
          /\ Sorted(R, one \o all)
        BY <2>6, <3>2, <3>3, ConcatSorted
    <3> QED
        BY <3>2, <3>4, <3>5
  <2>9. m \in Below(kids, m)
      BY <1>1, BelowFacts
  <2>10. ASSUME NEW n \in Below(kids, m), Depth(par, n) <= Depth(par, m) + (depth + 1), n # m
         PROVE  n \in ToSet(all)
    <3>1. PICK i \in 1..N : n \in Below(kids, kids[m][i])
        BY <2>1, <2>10, OnTheWay
    <3>2. Depth(par, kids[m][i]) = Depth(par, m) + 1
        BY <2>2, DepthFacts, NotNone
    <3>3. Depth(par, n) \in Nat /\ Depth(par, m) \in Nat
        BY <2>2, <3>1, DepthFacts
    <3>4. Depth(par, n) <= Depth(par, kids[m][i]) + depth
        BY <2>10, <3>2, <3>3
    <3>5. n \in ToSet(lists[i])
        BY <1>2, <2>2, <2>3, <3>1, <3>4
    <3> QED
        BY <2>6, <3>5 DEF HeldBy
  <2> QED
      BY <2>7, <2>8, <2>9, <2>10 DEF lists, all
<1>4. \A m \in AllNodes : Deeper(kids, below)[m] = <<m>> \o FlattenSeq(ListsOf(kids, below, m))
    BY DEF Deeper
<1>5. Deeper(kids, below) \in [AllNodes -> Seq(AllNodes)]
    BY <1>3 DEF Deeper
<1> QED
    BY <1>3, <1>4, <1>5 DEF Lists

(* The list of TreeOrder: the nodes of the document, in tree order.        *)
LEMMA TreeOrderFacts ==
    ASSUME NEW t, Sound(t)
    PROVE  LET list == TreeOrder(t, Document)
           IN  /\ list \in Seq(AllNodes) /\ ToSet(list) = t.in_document
               /\ Sorted(First(t.parent, t.children), list)
<1> DEFINE N == Cardinality(Nodes)
           kids == t.children
           Is(f) == f = [k \in 0..N |-> IF k = 0 THEN RootsOnly ELSE Deeper(kids, f[k - 1])]
           R == [k \in 0..N |-> Lists(t.parent, kids, k)]
           s == [k \in 1..N |-> [below \in R[k - 1] |-> Deeper(kids, below)]]
           F == CHOOSE f : Is(f)
<1>0. N \in Nat /\ IsTree(t.parent, kids) /\ Document \in AllNodes
    BY NodesAreFinite, NotNone DEF Sound
<1>1. TreeOrder(t, Document) = F[N][Document]
    BY TreeOrderIsFold
<1>2. \A k \in 0..N : R[k] = Lists(t.parent, kids, k)
    OBVIOUS
<1>3. RootsOnly \in R[0]
    BY <1>0, <1>2, RootsAreLists
<1>4. ASSUME NEW k \in 1..N, NEW below \in R[k - 1] PROVE Deeper(kids, below) \in R[k]
  <2>1. k - 1 \in 0..N /\ k \in 0..N /\ k - 1 \in Nat /\ (k - 1) + 1 = k
      BY <1>0
  <2>2. below \in Lists(t.parent, kids, k - 1)
      BY <1>2, <2>1
  <2>3. Deeper(kids, below) \in Lists(t.parent, kids, (k - 1) + 1)
      BY <1>0, <2>1, <2>2, DeeperIsLists
  <2> QED
      BY <1>2, <2>1, <2>3
<1>5. \A k \in 1..N : \A below \in R[k - 1] : s[k][below] = Deeper(kids, below)
    OBVIOUS
<1> HIDE DEF R, s, N
<1>6. PICK f : IsFoldOf(f, N, RootsOnly, s) /\ \A k \in 0..N : f[k] \in R[k]
  <2>1. \A k \in 1..N : \A u \in R[k - 1] : s[k][u] \in R[k]
      BY <1>4, <1>5
  <2> QED
      BY <1>0, <1>3, <2>1, FoldThrough
<1>7. Is(f)
  <2>1. f = [k \in 0..N |-> IF k = 0 THEN RootsOnly ELSE s[k][f[k - 1]]]
      BY <1>6 DEF IsFoldOf
  <2>2. ASSUME NEW k \in 0..N, k # 0 PROVE s[k][f[k - 1]] = Deeper(kids, f[k - 1])
    <3>1. k \in 1..N /\ k - 1 \in 0..N
        BY <1>0, <2>2
    <3> QED
        BY <1>5, <1>6, <3>1
  <2> QED
      BY <2>1, <2>2
<1>8. Is(F)
    BY <1>7
<1> HIDE DEF F
<1>9. F[0] = RootsOnly /\ \A k \in 1..N : F[k] = Deeper(kids, F[k - 1])
  <2>1. 0 \in 0..N /\ \A k \in 1..N : k \in 0..N /\ k # 0
      BY <1>0
  <2> QED
      BY <1>8, <2>1
<1> HIDE DEF Is
<1>10. F[N] \in R[N]
  <2>1. F[0] \in R[0]
      BY <1>3, <1>9
  <2>2. \A k \in 1..N : F[k - 1] \in R[k - 1] => F[k] \in R[k]
      BY <1>4, <1>9
  <2>3. \A k \in 0..N : F[k] \in R[k]
      BY <1>0, <2>1, <2>2, FoldStays
  <2> QED
      BY <1>0, <2>3
<1>11. F[N] \in Lists(t.parent, kids, N)
    BY <1>0, <1>2, <1>10
<1>12. Below(kids, Document) = t.in_document
    BY RootReaches, BelowIsSubtree
<1>13. \A n \in Below(kids, Document) : Depth(t.parent, n) <= Depth(t.parent, Document) + N
  <2> TAKE n \in Below(kids, Document)
  <2>1. n \in AllNodes
      BY <1>0, BelowBelow
  <2>2. Depth(t.parent, n) \in 0..N /\ Depth(t.parent, Document) = 0
      BY <1>0, <2>1, DepthFacts DEF N
  <2> QED
      BY <1>0, <2>2
<1> QED
    BY <1>0, <1>1, <1>11, <1>12, <1>13 DEF Lists

(* The nodes in the document with this id, by the links of the tree.       *)
Named(t, i) == {n \in Nodes : t.id[n] = i /\ Document \in Ancestors(t, n)}

LEMMA NamedIsIndexed ==
    ASSUME NEW t, Sound(t), NEW i \in Ids
    PROVE  Named(t, i) = t.nodes_to_id[i] /\ Named(t, i) \in SUBSET (t.in_document \cap Nodes)
<1>1. IsTree(t.parent, t.children) /\ Document \in AllNodes /\ t.children \in ChildLists
    BY NotNone DEF Sound, IsTree
<1>2. Below(t.children, Document) = t.in_document
    BY RootReaches, BelowIsSubtree
<1>3. ASSUME NEW n \in Nodes PROVE Document \in Ancestors(t, n) <=> n \in t.in_document
  <2>1. n \in AllNodes /\ n # Document
      BY NotNone
  <2>2. Document \in Above(t.parent, n) => n \in Below(t.children, Document)
      BY <1>1, <2>1, AboveIsBelow
  <2>3. n \in Below(t.children, Document) => Document \in Above(t.parent, n)
      BY <1>1, <2>1, BelowAndAbove
  <2> QED
      BY <1>2, <2>2, <2>3, AboveIsAncestors
<1> QED
    BY <1>3 DEF Named, Indexed, Sound, Refers

(* The one that comes before all others is the only one.                   *)
LEMMA FirstIsUnique ==
    ASSUME NEW t, Sound(t), NEW S \in SUBSET AllNodes, NEW n \in S,
           \A m \in S \ {n} : Precedes(t, n, m)
    PROVE  (CHOOSE a \in S : \A m \in S \ {a} : Precedes(t, a, m)) = n
<1> DEFINE IsFirst(a) == \A m \in S \ {a} : Precedes(t, a, m)
           c == CHOOSE a \in S : IsFirst(a)
<1>1. c \in S /\ IsFirst(c)
    OBVIOUS
<1> HIDE DEF c
<1>2. ASSUME c # n PROVE FALSE
  <2>1. Precedes(t, c, n) /\ Precedes(t, n, c) /\ c \in AllNodes /\ n \in AllNodes
      BY <1>1, <1>2
  <2>2. IsTree(t.parent, t.children)
      BY DEF Sound
  <2> QED
      BY <2>1, <2>2, PrecedesIsFirst, FirstIsStrict
<1> QED
    BY <1>2 DEF c

(* By the map or by the tree: the same node.                               *)
LEMMA FoundById ==
    ASSUME NEW t, Sound(t), NEW i \in Ids
    PROVE  GetElementById(t, i) = FirstInTreeOrder(t, i)
<1> DEFINE candidates == t.nodes_to_id[i]
           list == TreeOrder(t, Document)
           found == Filtered(list, candidates)
           IsFirst(n) == \A m \in candidates \ {n} : Precedes(t, n, m)
<1>1. /\ Named(t, i) = candidates /\ candidates \in SUBSET (t.in_document \cap Nodes)
      /\ candidates \in SUBSET AllNodes
    BY NamedIsIndexed, NotNone
<1>2. FirstInTreeOrder(t, i) = IF candidates = {} THEN None ELSE CHOOSE n \in candidates : IsFirst(n)
  <2>1. FirstInTreeOrder(t, i) =
            IF Named(t, i) = {} THEN None
            ELSE CHOOSE n \in Named(t, i) : \A m \in Named(t, i) \ {n} : Precedes(t, n, m)
      BY DEF FirstInTreeOrder, Named
  <2> HIDE DEF candidates
  <2> QED
      BY <1>1, <2>1
<1>3. GetElementById(t, i) = IF Cardinality(candidates) = 1 THEN CHOOSE n \in candidates : TRUE
                             ELSE IF found = <<>> THEN None ELSE Head(found)
    BY DEF GetElementById
<1>4. IsFiniteSet(candidates)
    BY <1>1, NodesAreFinite, FS_Subset
<1>5. /\ list \in Seq(AllNodes) /\ ToSet(list) = t.in_document
      /\ Sorted(First(t.parent, t.children), list)
    BY TreeOrderFacts
<1> HIDE DEF list, candidates
<1>6. /\ found = <<>> <=> candidates = {}
      /\ found # <<>> => Head(found) \in candidates /\ IsFirst(Head(found))
  <2>1. ToSet(list) \cap candidates = candidates
      BY <1>1, <1>5
  <2>2. /\ found = <<>> <=> candidates = {}
        /\ found # <<>> =>
              /\ Head(found) \in candidates
              /\ \A m \in candidates \ {Head(found)} : <<Head(found), m>> \in First(t.parent, t.children)
      BY <1>5, <2>1, FirstOfSorted
  <2>3. \A n, m : <<n, m>> \in First(t.parent, t.children) => Precedes(t, n, m)
      BY PrecedesIsFirst DEF First
  <2> QED
      BY <2>2, <2>3
<1> HIDE DEF found
<1>7. CASE candidates = {}
  <2>1. Cardinality(candidates) # 1
      BY <1>7, FS_EmptySet
  <2> QED
      BY <1>2, <1>3, <1>6, <1>7, <2>1
<1>8. CASE Cardinality(candidates) = 1
  <2>1. PICK n : candidates = {n}
      BY <1>4, <1>8, FS_Singleton
  <2>2. (CHOOSE m \in candidates : TRUE) = n /\ (CHOOSE m \in candidates : IsFirst(m)) = n
    <3>1. n \in candidates /\ IsFirst(n)
        BY <2>1
    <3> QED
        BY <2>1, <3>1
  <2> QED
      BY <1>2, <1>3, <1>8, <2>1, <2>2
<1>9. CASE candidates # {} /\ Cardinality(candidates) # 1
  <2>1. PICK n \in candidates : n = Head(found) /\ IsFirst(n)
      BY <1>6, <1>9
  <2>2. (CHOOSE a \in candidates : IsFirst(a)) = n
      BY <1>1, <2>1, FirstIsUnique
  <2> QED
      BY <1>2, <1>3, <1>6, <1>9, <2>1, <2>2
<1> QED
    BY <1>7, <1>8, <1>9

-----------------------------------------------------------------------------
(* Theorems.                                                               *)

(* The document and the maps of Dioxus have their types, whatever scripts, *)
(* renders and the pointer do (document.rs:230-316).                       *)
THEOREM DocumentIsTyped == Spec => []TypeOK
<1>1. Inv => TypeOK
  <2> SUFFICES ASSUME Inv PROVE TypeOK
      OBVIOUS
  <2>1. Sound(dom) /\ WriterTypeOK
      BY InvIsSound
  <2>2. panicked \in BOOLEAN
      BY DEF Inv
  <2> QED
      BY <2>1, <2>2 DEF TypeOK, TreeTypeOK, Sound
<1> QED
    BY <1>1, SpecInv, PTL

(* The two ends of every link agree, no node is below itself, and exactly  *)
(* the nodes reached from the root are flagged as in the document, after   *)
(* any sequence of insertions, moves, replacements, drops, clones and      *)
(* parsed markup (mutator.rs:604-1068).                                    *)
THEOREM DocumentIsATree == Spec => []TreeIsConsistent
<1>1. Inv => TreeIsConsistent
    BY InvIsSound, SoundIsConsistent
<1> QED
    BY <1>1, SpecInv, PTL

(* Hover, focus and the owners of sheets are nodes that exist, and so are  *)
(* the node of every ElementId and what the writer holds on its stack,     *)
(* though nodes are dropped when an ElementId is assigned again            *)
(* (document.rs:889-973, mutation_writer.rs:117-143).                      *)
THEOREM NoIdDangles == Spec => []NothingDangles
<1>1. Inv => NothingDangles
    BY MappedIsLive
<1> QED
    BY <1>1, SpecInv, PTL

(* An element is found by its id as a search of the tree in document order *)
(* finds it: the map of ids follows every insertion, removal, drop, clone  *)
(* and change of an attribute, and several nodes of one id are told apart  *)
(* by their order (query_selector.rs:14-55).                               *)
THEOREM IdsAreFound == Spec => []ElementsAreFoundById
<1>1. Inv => ElementsAreFoundById
    BY InvIsSound, FoundById DEF ElementsAreFoundById
<1> QED
    BY <1>1, SpecInv, PTL

(* Hover goes from what a removal takes away to the parent of the removed  *)
(* node, not further up (document.rs:898-918).                             *)
THEOREM HoverFollowsRemovals == Spec => HoverIsBridged
<1>1. Inv => \A n \in Nodes :
          (RemoveChild(n) /\ n \in dom.in_document /\ dom.hover \in Subtree(dom, n))
              => dom'.hover = BridgedTo(n)
    BY InvIsSound, HoverStep
<1> QED
    BY <1>1, SpecInv, PTL DEF HoverIsBridged

(* In a document that only scripts and the pointer change, no flush meets  *)
(* a dropped style element and no hit test a dropped node: all that a      *)
(* script's call drops is the emptied root of what it parsed               *)
(* (mutator.rs:661-669 and 1070-1095, html_sink.rs:138-167).               *)
ScriptsNeverPanic == ScriptsDrive => ~panicked /\ Visited(dom) \subseteq dom.live

(* Scripts alone, whatever they call and however large the tree, bring the *)
(* document into no state in which a flush or a hit test panics: the known *)
(* panic needs the drops of Dioxus (mutation_writer.rs:126).               *)
THEOREM ScriptsArePanicFree == Spec => []ScriptsNeverPanic
<1>1. Inv => ScriptsNeverPanic
    BY VisitedIsLive DEF Inv, ScriptsNeverPanic
<1> QED
    BY <1>1, SpecInv, PTL
=============================================================================
