----------------------- MODULE IntentValidation_proofs -----------------------
(***************************************************************************)
(* Proofs about IntentValidation, for every set of documents.              *)
(*                                                                         *)
(* The invariant is about the report: while there is room in it, it holds  *)
(* everything that the layers so far find in the normal form of the        *)
(* document.  So an eligible document has no error in any layer, and what  *)
(* the properties say of it follows from the absence of each error by      *)
(* itself: first links and devices, then failure domains, scopes and       *)
(* states.  Capacities are sums over sets, which the provers cannot do by  *)
(* induction: they are compared as numbers of units (Units, Count).  The   *)
(* last parts are about pure functions, the normal form and the diff.      *)
(***************************************************************************)
EXTENDS IntentValidation, FiniteSetTheorems, WellFoundedInduction, TLAPS

-----------------------------------------------------------------------------
(* Every set of numbers that is not empty has a least element.             *)
LEMMA LeastExists ==
    ASSUME NEW T \in SUBSET Nat, T # {}
    PROVE  \E m \in T : \A n \in T : m <= n
<1>1. IsWellFoundedOn(OpToRel(<, Nat), Nat)
  BY NatLessThanWellFounded
<1>2. PICK m \in T : \A n \in T : ~ (<<n, m>> \in OpToRel(<, Nat))
  BY <1>1, WFMin
<1>3. \A n \in T : ~ (n < m)
  BY <1>2 DEF OpToRel
<1> QED
  BY <1>3

-----------------------------------------------------------------------------
(* Sequences as the index reads them                                       *)

(* Where an identity is declared, Lookup finds a declaration of it.        *)
LEMMA LookupFinds ==
    ASSUME NEW s, NEW n \in Nat, DOMAIN s = 1 .. n, NEW id, Has(s, id)
    PROVE  Lookup(s, id) \in ToSet(s) /\ Lookup(s, id).id = id
<1> DEFINE T == {i \in 1 .. n : s[i].id = id}
<1>1. T \in SUBSET Nat /\ T # {}
    BY DEF Has
<1>2. PICK m \in T : \A i \in T : m <= i
    BY <1>1, LeastExists
<1>3. m \in DOMAIN s /\ s[m].id = id /\ \A j \in 1 .. m - 1 : s[j].id # id
    <2>1. \A j \in 1 .. m - 1 : j \in 1 .. n /\ ~ (m <= j)
        OBVIOUS
    <2> QED BY <1>2, <2>1
<1>4. \E k \in DOMAIN s : s[k].id = id /\ \A j \in 1 .. k - 1 : s[j].id # id
    BY <1>3
<1> DEFINE k == CHOOSE i \in DOMAIN s : s[i].id = id /\ \A j \in 1 .. i - 1 : s[j].id # id
<1>5. k \in DOMAIN s /\ s[k].id = id
    BY <1>4
<1>6. Lookup(s, id) = s[k]
    BY DEF Lookup
<1> HIDE DEF k
<1> QED BY <1>5, <1>6 DEF ToSet

LEMMA ToSetFinite ==
    ASSUME NEW s, NEW n \in Nat, DOMAIN s = 1 .. n
    PROVE  IsFiniteSet(ToSet(s))
<1> DEFINE f == [i \in 1 .. n |-> s[i]]
<1>1. f \in Surjection(1 .. n, ToSet(s))
    BY DEF Surjection, ToSet
<1>2. IsFiniteSet(1 .. n)
    BY FS_Interval
<1> HIDE DEF f
<1> QED BY <1>1, <1>2, FS_Surjection

-----------------------------------------------------------------------------
(* Sorting                                                                 *)

StrictlyOrders(R, S) ==
    /\ \A i \in S : <<i, i>> \notin R
    /\ \A i, j, k \in S : <<i, j>> \in R /\ <<j, k>> \in R => <<i, k>> \in R
    /\ \A i, j \in S : i = j \/ <<i, j>> \in R \/ <<j, i>> \in R

(* In a strict total order of 1 .. n each rank is taken.                   *)
LEMMA EveryRankTaken ==
    ASSUME NEW n \in Nat, NEW R, StrictlyOrders(R, 1 .. n), NEW k \in 1 .. n
    PROVE  \E j \in 1 .. n : Cardinality({i \in 1 .. n : <<i, j>> \in R}) = k - 1
<1> USE DEF StrictlyOrders
<1> DEFINE B(j) == {i \in 1 .. n : <<i, j>> \in R}
<1> DEFINE r == [j \in 1 .. n |-> Cardinality(B(j))]
<1>1. IsFiniteSet(1 .. n) /\ Cardinality(1 .. n) = n
    BY FS_Interval
<1>2. \A j \in 1 .. n : IsFiniteSet(B(j)) /\ Cardinality(B(j)) \in Nat
    <2>1. \A j \in 1 .. n : B(j) \in SUBSET (1 .. n)
        OBVIOUS
    <2> HIDE DEF B
    <2> QED BY <1>1, <2>1, FS_Subset, FS_CardinalityType
<1>3. ASSUME NEW j \in 1 .. n
      PROVE  r[j] \in 0 .. n - 1
    <2>1. B(j) \in SUBSET ((1 .. n) \ {j})
        OBVIOUS
    <2> HIDE DEF B
    <2>2. IsFiniteSet((1 .. n) \ {j}) /\ Cardinality((1 .. n) \ {j}) = n - 1
        BY <1>1, FS_RemoveElement
    <2>3. Cardinality(B(j)) <= n - 1
        BY <2>1, <2>2, FS_Subset
    <2> QED BY <1>2, <2>3
<1>4. ASSUME NEW i \in 1 .. n, NEW j \in 1 .. n, <<i, j>> \in R
      PROVE  r[i] < r[j]
    <2>1. i \notin B(i) /\ B(i) \cup {i} \in SUBSET B(j)
        BY <1>4
    <2> HIDE DEF B
    <2>2. Cardinality(B(i) \cup {i}) = Cardinality(B(i)) + 1
        BY <1>2, <2>1, FS_AddElement
    <2>3. Cardinality(B(i) \cup {i}) <= Cardinality(B(j))
        BY <1>2, <2>1, FS_Subset
    <2> QED BY <1>2, <2>2, <2>3
<1>5. r \in Injection(1 .. n, 0 .. n - 1)
    <2>1. r \in [1 .. n -> 0 .. n - 1]
        BY <1>3
    <2>2. ASSUME NEW i \in 1 .. n, NEW j \in 1 .. n, r[i] = r[j]
          PROVE  i = j
        <3>1. r[i] \in Int
            BY <1>3
        <3> HIDE DEF r
        <3>2. <<i, j>> \notin R
            BY <1>4, <2>2, <3>1
        <3>3. <<j, i>> \notin R
            BY <1>4, <2>2, <3>1
        <3> QED BY <3>2, <3>3
    <2> HIDE DEF r
    <2> QED BY <2>1, <2>2 DEF Injection, IsInjective
<1>6. IsFiniteSet(0 .. n - 1) /\ Cardinality(0 .. n - 1) = n
    BY FS_Interval
<1> HIDE DEF r
<1>7. r \in Surjection(1 .. n, 0 .. n - 1)
    BY <1>1, <1>5, <1>6, FS_Injection
<1>8. PICK j \in 1 .. n : r[j] = k - 1
    BY <1>7 DEF Surjection
<1> QED BY <1>8 DEF r

(* The tie-break numbers the declarations that share a name.               *)
LEMMA TieRankNumbers ==
    ASSUME NEW c, NEW tied, IsFiniteSet(tied)
    PROVE  LET keys == {TieKey(c, x) : x \in tied}
           IN /\ TieRank(c, tied) \in [keys -> 1 .. Cardinality(keys)]
              /\ Cardinality(keys) \in Nat
              /\ \A k, l \in keys : TieRank(c, tied)[k] = TieRank(c, tied)[l] => k = l
<1> DEFINE keys == {TieKey(c, x) : x \in tied}
<1>1. IsFiniteSet(keys)
    <2> DEFINE f == [x \in tied |-> TieKey(c, x)]
    <2>1. f \in Surjection(tied, keys)
        BY DEF Surjection
    <2> HIDE DEF f, keys
    <2> QED BY <2>1, FS_Surjection
<1>2. TieRank(c, tied) = CHOOSE f \in [keys -> 1 .. Cardinality(keys)] :
                             \A k, l \in keys : f[k] = f[l] => k = l
    BY DEF TieRank
<1> HIDE DEF keys
<1>3. Cardinality(keys) \in Nat /\ ExistsBijection(1 .. Cardinality(keys), keys)
    BY <1>1, FS_CardinalityType
<1>4. \E f \in [keys -> 1 .. Cardinality(keys)] : \A k, l \in keys : f[k] = f[l] => k = l
    <2>2. PICK g \in Bijection(1 .. Cardinality(keys), keys) : TRUE
        BY <1>3 DEF ExistsBijection
    <2>3. \A k \in keys : \E m \in 1 .. Cardinality(keys) : g[m] = k
        BY <2>2 DEF Bijection, Surjection
    <2> DEFINE f == [k \in keys |-> CHOOSE m \in 1 .. Cardinality(keys) : g[m] = k]
    <2>4. \A k \in keys : f[k] \in 1 .. Cardinality(keys) /\ g[f[k]] = k
        BY <2>3
    <2>5. f \in [keys -> 1 .. Cardinality(keys)]
        BY <2>4
    <2> HIDE DEF f
    <2> QED BY <2>4, <2>5
<1>5. /\ TieRank(c, tied) \in [keys -> 1 .. Cardinality(keys)]
      /\ \A k, l \in keys : TieRank(c, tied)[k] = TieRank(c, tied)[l] => k = l
    BY <1>2, <1>4
<1> QED BY <1>3, <1>5 DEF keys

LEMMA RankNumbers ==
    ASSUME NEW c, NEW s, NEW n \in Nat, DOMAIN s = 1 .. n
    PROVE  /\ \A i \in 1 .. n : Rank(c, s, i) \in Nat
           /\ \A i, j \in 1 .. n :
                  s[i].id = s[j].id /\ Rank(c, s, i) = Rank(c, s, j)
                  => TieKey(c, s[i]) = TieKey(c, s[j])
<1> DEFINE tied(i) == {x \in ToSet(s) : x.id = s[i].id}
<1> DEFINE keys(i) == {TieKey(c, x) : x \in tied(i)}
<1>1. \A i : IsFiniteSet(tied(i))
    <2>1. \A i : tied(i) \in SUBSET ToSet(s)
        OBVIOUS
    <2> HIDE DEF tied
    <2> QED BY <2>1, ToSetFinite, FS_Subset
<1>2. \A i \in 1 .. n : TieKey(c, s[i]) \in keys(i)
    BY DEF ToSet
<1>3. \A i, j : s[i].id = s[j].id => tied(i) = tied(j)
    OBVIOUS
<1> HIDE DEF tied
<1>4. \A i : /\ TieRank(c, tied(i)) \in [keys(i) -> 1 .. Cardinality(keys(i))]
             /\ Cardinality(keys(i)) \in Nat
             /\ \A k, l \in keys(i) : TieRank(c, tied(i))[k] = TieRank(c, tied(i))[l] => k = l
    BY <1>1, TieRankNumbers
<1>5. \A i : Rank(c, s, i) = TieRank(c, tied(i))[TieKey(c, s[i])]
    BY DEF Rank, tied
<1>6. ASSUME NEW i \in 1 .. n
      PROVE  Rank(c, s, i) \in Nat
    <2> HIDE DEF keys
    <2>1. /\ TieRank(c, tied(i)) \in [keys(i) -> 1 .. Cardinality(keys(i))]
          /\ Cardinality(keys(i)) \in Nat
        BY <1>4
    <2>2. TieKey(c, s[i]) \in keys(i)
        BY <1>2
    <2>3. Rank(c, s, i) \in 1 .. Cardinality(keys(i))
        BY <1>5, <2>1, <2>2
    <2> QED BY <2>1, <2>3
<1>7. ASSUME NEW i \in 1 .. n, NEW j \in 1 .. n,
             s[i].id = s[j].id, Rank(c, s, i) = Rank(c, s, j)
      PROVE  TieKey(c, s[i]) = TieKey(c, s[j])
    <2>1. tied(i) = tied(j) /\ keys(i) = keys(j)
        BY <1>3, <1>7
    <2> HIDE DEF keys
    <2> QED BY <1>2, <1>4, <1>5, <1>7, <2>1
<1> QED BY <1>6, <1>7

(* The identities of a collection differ in their name alone.              *)
LEMMA NamesOrder ==
    ASSUME NEW class, NEW a \in Identity(class), NEW b \in Identity(class)
    PROVE  a[2] \in Nat /\ b[2] \in Nat /\ (a = b <=> a[2] = b[2])
BY DEF Identity, NoId

(* The k-th place of the order is held by one declaration, with k - 1      *)
(* others before it.                                                       *)
LEMMA SortedPlaces ==
    ASSUME NEW c, NEW class, NEW s, NEW n \in Nat, DOMAIN s = 1 .. n,
           \A x \in ToSet(s) : x.id \in Identity(class), NEW k \in 1 .. n
    PROVE  /\ Nth(c, s, k) \in 1 .. n
           /\ Cardinality({i \in DOMAIN s : Precedes(c, s, i, Nth(c, s, k))}) = k - 1
<1> DEFINE R == {p \in (1 .. n) \X (1 .. n) : Precedes(c, s, p[1], p[2])}
<1> DEFINE B(j) == {i \in DOMAIN s : Precedes(c, s, i, j)}
<1>1. \A i \in 1 .. n : Rank(c, s, i) \in Nat
    BY RankNumbers
<1>2. \A i, j \in 1 .. n :
        s[i].id[2] \in Nat /\ (s[i].id = s[j].id <=> s[i].id[2] = s[j].id[2])
    BY NamesOrder DEF ToSet
<1>3. \A i, j \in 1 .. n : <<i, j>> \in R <=> Precedes(c, s, i, j)
    OBVIOUS
<1> HIDE DEF R
<1>4. ASSUME NEW i \in 1 .. n
      PROVE  <<i, i>> \notin R
    <2>1. Rank(c, s, i) \in Nat /\ s[i].id[2] \in Nat
        BY <1>1, <1>2
    <2>2. ~ Precedes(c, s, i, i)
        BY <2>1 DEF Precedes
    <2> QED BY <1>3, <2>2
<1>5. ASSUME NEW i \in 1 .. n, NEW j \in 1 .. n, NEW h \in 1 .. n,
             <<i, j>> \in R, <<j, h>> \in R
      PROVE  <<i, h>> \in R
    <2>1. Precedes(c, s, i, j) /\ Precedes(c, s, j, h)
        BY <1>3, <1>5
    <2>2. /\ Rank(c, s, i) \in Nat /\ Rank(c, s, j) \in Nat /\ Rank(c, s, h) \in Nat
          /\ s[i].id[2] \in Nat /\ s[j].id[2] \in Nat /\ s[h].id[2] \in Nat
        BY <1>1, <1>2
    <2>3. Precedes(c, s, i, h)
        BY <2>1, <2>2 DEF Precedes
    <2> QED BY <1>3, <2>3
<1>6. ASSUME NEW i \in 1 .. n, NEW j \in 1 .. n
      PROVE  i = j \/ <<i, j>> \in R \/ <<j, i>> \in R
    <2>1. Rank(c, s, i) \in Nat /\ Rank(c, s, j) \in Nat
        BY <1>1
    <2>2. /\ s[i].id[2] \in Nat /\ s[j].id[2] \in Nat
          /\ s[i].id = s[j].id <=> s[i].id[2] = s[j].id[2]
        BY <1>2
    <2>3. i = j \/ Precedes(c, s, i, j) \/ Precedes(c, s, j, i)
        BY <2>1, <2>2 DEF Precedes
    <2> QED BY <1>3, <2>3
<1>7. \A j \in 1 .. n : B(j) = {i \in 1 .. n : <<i, j>> \in R}
    BY <1>3
<1> HIDE DEF B
<1>8. \E j \in 1 .. n : Cardinality(B(j)) = k - 1
    <2>0. StrictlyOrders(R, 1 .. n)
        BY <1>4, <1>5, <1>6 DEF StrictlyOrders
    <2>1. \E j \in 1 .. n : Cardinality({i \in 1 .. n : <<i, j>> \in R}) = k - 1
        BY <2>0, EveryRankTaken
    <2> QED BY <1>7, <2>1
<1> QED BY <1>8 DEF Nth, B

(* Sorting a collection loses and invents nothing: each place of the       *)
(* normal form holds one of the declarations.                              *)
LEMMA SortedKeeps ==
    ASSUME NEW c, NEW class, NEW s, NEW n \in Nat, DOMAIN s = 1 .. n,
           \A x \in ToSet(s) : x.id \in Identity(class)
    PROVE  /\ DOMAIN Sorted(c, s) = 1 .. n
           /\ \A k \in 1 .. n : Nth(c, s, k) \in 1 .. n
           /\ \A k, l \in 1 .. n : Nth(c, s, k) = Nth(c, s, l) => k = l
           /\ ToSet(Sorted(c, s)) = ToSet(s)
<1>9. \A k \in 1 .. n :
          /\ Nth(c, s, k) \in 1 .. n
          /\ Cardinality({i \in DOMAIN s : Precedes(c, s, i, Nth(c, s, k))}) = k - 1
    BY SortedPlaces
<1>10. ASSUME NEW k \in 1 .. n, NEW l \in 1 .. n, Nth(c, s, k) = Nth(c, s, l)
       PROVE  k = l
    <2>1. k - 1 = l - 1
        BY <1>9, <1>10
    <2> QED BY <2>1
<1>a. \A k \in 1 .. n : Nth(c, s, k) \in 1 .. n
    BY <1>9
<1>11. DOMAIN Sorted(c, s) = 1 .. n /\ \A k \in 1 .. n : Sorted(c, s)[k] = s[Nth(c, s, k)]
    BY DEF Sorted
<1>12. \A j \in 1 .. n : \E k \in 1 .. n : Nth(c, s, k) = j
    <2> DEFINE f == [k \in 1 .. n |-> Nth(c, s, k)]
    <2>1. f \in Injection(1 .. n, 1 .. n)
        BY <1>a, <1>10 DEF Injection, IsInjective
    <2>2. IsFiniteSet(1 .. n)
        BY FS_Interval
    <2>3. f \in Surjection(1 .. n, 1 .. n)
        <3> HIDE DEF f
        <3> QED BY <2>1, <2>2, FS_Injection
    <2> QED BY <2>3 DEF Surjection
<1>13. ToSet(Sorted(c, s)) = ToSet(s)
    BY <1>a, <1>11, <1>12 DEF ToSet
<1> QED BY <1>a, <1>10, <1>11, <1>13

-----------------------------------------------------------------------------
(* Documents and their normal form                                         *)

LEMMA Declarations ==
    ASSUME NEW d, WellTyped(d), NEW c \in Collections
    PROVE  /\ Len(d[c]) \in Nat /\ DOMAIN d[c] = 1 .. Len(d[c])
           /\ IsFiniteSet(ToSet(d[c]))
           /\ \A x \in ToSet(d[c]) : x.id \in Identity(ClassIn[c])
<1>1. d[c] \in Seq(ToSet(d[c])) /\ \A x \in ToSet(d[c]) : x.id \in Identity(ClassIn[c])
    BY DEF WellTyped
<1>2. Len(d[c]) \in Nat /\ DOMAIN d[c] = 1 .. Len(d[c])
    BY <1>1
<1> QED BY <1>1, <1>2, ToSetFinite

LEMMA NormalDeclarations ==
    ASSUME NEW d, WellTyped(d), NEW c \in Collections
    PROVE  /\ Normalize(d)[c] = Sorted(c, d[c])
           /\ DOMAIN Normalize(d)[c] = DOMAIN d[c]
           /\ ToSet(Normalize(d)[c]) = ToSet(d[c])
           /\ Normalize(d)[c] \in Seq(ToSet(d[c]))
<1>1. /\ Len(d[c]) \in Nat /\ DOMAIN d[c] = 1 .. Len(d[c])
      /\ \A x \in ToSet(d[c]) : x.id \in Identity(ClassIn[c])
    BY Declarations
<1>2. Normalize(d)[c] = Sorted(c, d[c])
    BY DEF Normalize, WellTyped
<1>3. DOMAIN Sorted(c, d[c]) = DOMAIN d[c] /\ ToSet(Sorted(c, d[c])) = ToSet(d[c])
    BY <1>1, SortedKeeps
<1>4. Sorted(c, d[c]) \in Seq(ToSet(d[c]))
    <2> DEFINE t == Sorted(c, d[c])
    <2> DEFINE n == Len(d[c])
    <2>1. t = [k \in 1 .. n |-> t[k]]
        BY <1>1 DEF Sorted
    <2>2. \A k \in 1 .. n : t[k] \in ToSet(d[c])
        BY <1>1, <1>3 DEF ToSet
    <2>3. n \in Nat
        BY <1>1
    <2> HIDE DEF t, n
    <2>4. t \in [1 .. n -> ToSet(d[c])]
        BY <2>1, <2>2
    <2>5. t \in Seq(ToSet(d[c]))
        BY <2>3, <2>4
    <2> QED BY <2>5 DEF t
<1> QED BY <1>2, <1>3, <1>4

(* The normal form has the types of the document.                          *)
LEMMA NormalWellTyped ==
    ASSUME NEW d, WellTyped(d)
    PROVE  WellTyped(Normalize(d))
<1> DEFINE e == Normalize(d)
<1>1. DOMAIN e = DOMAIN d /\ Collections \cup {"domain"} \subseteq DOMAIN d
    BY DEF Normalize, WellTyped
<1>2. e.domain = d.domain
    BY <1>1 DEF Normalize, Collections, Keyed
<1>3. \A c \in Collections : ToSet(e[c]) = ToSet(d[c]) /\ e[c] \in Seq(ToSet(d[c]))
    BY NormalDeclarations
<1> HIDE DEF e
<1>4. /\ ToSet(e.sites) = ToSet(d.sites)
      /\ ToSet(e.devices) = ToSet(d.devices)
      /\ ToSet(e.ports) = ToSet(d.ports)
      /\ ToSet(e.links) = ToSet(d.links)
      /\ ToSet(e.workloads) = ToSet(d.workloads)
      /\ ToSet(e.policies) = ToSet(d.policies)
    BY <1>3 DEF Collections, Keyed
<1>5. \A c \in Collections :
        e[c] \in Seq(ToSet(e[c])) /\ \A x \in ToSet(e[c]) : x.id \in Identity(ClassIn[c])
    BY <1>3 DEF WellTyped
<1>6. WellTyped(e)
    BY <1>1, <1>2, <1>4, <1>5 DEF WellTyped
<1> QED BY <1>6 DEF e

-----------------------------------------------------------------------------
(* The report                                                              *)

LayerNo ==
    [canonicalize |-> 0, schema |-> 1, syntax |-> 2, references |-> 3, capabilities |-> 4,
     topology |-> 5, conflicts |-> 6, links |-> 7, ports |-> 8, placements |-> 9,
     intents |-> 10, isolation |-> 11, compare |-> 12, done |-> 13]

(* What the layers before s find in d is in the report D.                  *)
Reported(s, d, D) ==
    /\ LayerNo[s] > 1  => SchemaFindings(d) \subseteq D
    /\ LayerNo[s] > 2  => SyntaxFindings(d) \subseteq D
    /\ LayerNo[s] > 3  => ReferenceFindings(d) \subseteq D
    /\ LayerNo[s] > 4  => CapabilityFindings(d) \subseteq D
    /\ LayerNo[s] > 5  => TopologyFindings(d) \subseteq D
    /\ LayerNo[s] > 6  => ConflictFindings(d) \subseteq D
    /\ LayerNo[s] > 7  => LinkStateFindings(d) \subseteq D
    /\ LayerNo[s] > 8  => PortStateFindings(d) \subseteq D
    /\ LayerNo[s] > 9  => PlacementFindings(d) \subseteq D
    /\ LayerNo[s] > 10 => IntentFindings(d) \subseteq D
    /\ LayerNo[s] > 11 => IsolationFindings(d) \subseteq D

Severities == {"error", "warning", "info"}

ReportInv(D) ==
    /\ IsFiniteSet(D)
    /\ Cardinality(D) <= MaxDiagnostics
    /\ \A f \in D : f.severity \in Severities

(* While there is room, the report holds all that the layers found; a      *)
(* document that is refused without a look has an error in its report.     *)
VerdictInv(g, d, s, D) ==
    /\ g \in Documents
    /\ s \in DOMAIN LayerNo
    /\ ReportInv(D)
    /\ s = "canonicalize" => D = {}
    /\ \/ s = "canonicalize"
       \/ /\ s \in {"compare", "done"}
          /\ Objects(g) > MaxObjects
          /\ \E f \in D : f.severity = "error"
       \/ /\ d = Normalize(g)
          /\ Cardinality(D) < MaxDiagnostics => Reported(s, d, D)

ValidationInv == VerdictInv(given, doc, stage, diagnostics)

(* Report, of a report as it was and as it is after.                       *)
Reports(D, found, E) ==
    LET new  == found \ D
        room == MaxDiagnostics - Cardinality(D)
    IN \E kept \in IF Cardinality(new) <= room THEN {new} ELSE kSubset(room, new) :
           E = D \cup kept

(* What is added fits, and as long as there is room afterwards, everything *)
(* was added.                                                              *)
LEMMA ReportsFits ==
    ASSUME NEW D, NEW found, NEW E, ReportInv(D), IsFiniteSet(found),
           \A f \in found : f.severity \in Severities,
           Reports(D, found, E)
    PROVE  /\ ReportInv(E)
           /\ D \subseteq E
           /\ Cardinality(E) < MaxDiagnostics =>
                  Cardinality(D) < MaxDiagnostics /\ found \subseteq E
<1> DEFINE new == found \ D
<1> DEFINE room == MaxDiagnostics - Cardinality(D)
<1>0. /\ IsFiniteSet(D) /\ Cardinality(D) \in Nat /\ Cardinality(D) <= MaxDiagnostics
      /\ MaxDiagnostics \in Nat
    BY FS_CardinalityType, ValidationAssumption DEF ReportInv
<1>1. IsFiniteSet(new) /\ Cardinality(new) \in Nat
    <2>1. new \in SUBSET found
        OBVIOUS
    <2> QED BY <2>1, FS_Subset, FS_CardinalityType
<1>2. PICK kept \in (IF Cardinality(new) <= room THEN {new} ELSE kSubset(room, new)) :
          E = D \cup kept
    BY DEF Reports
<1>3. /\ kept \in SUBSET new
      /\ Cardinality(new) <= room => kept = new
      /\ ~ (Cardinality(new) <= room) => Cardinality(kept) = room
    BY <1>2 DEF kSubset
<1>4. IsFiniteSet(kept) /\ Cardinality(kept) \in Nat
    BY <1>1, <1>3, FS_Subset, FS_CardinalityType
<1>5. IsFiniteSet(E) /\ Cardinality(E) = Cardinality(D) + Cardinality(kept)
    <2>1. D \cap kept = {}
        BY <1>3
    <2>2. Cardinality(D \cap kept) = 0
        BY <2>1, FS_EmptySet
    <2>3. IsFiniteSet(D \cup kept)
          /\ Cardinality(D \cup kept) = Cardinality(D) + Cardinality(kept) - Cardinality(D \cap kept)
        BY <1>0, <1>4, FS_Union
    <2> QED BY <1>0, <1>2, <1>4, <2>2, <2>3
<1>6. Cardinality(E) <= MaxDiagnostics
    <2> HIDE DEF new
    <2> QED BY <1>0, <1>1, <1>3, <1>4, <1>5
<1>7. \A f \in E : f.severity \in Severities
    BY <1>2, <1>3 DEF ReportInv
<1>8. ASSUME Cardinality(E) < MaxDiagnostics
      PROVE  Cardinality(D) < MaxDiagnostics /\ Cardinality(new) <= room
    <2> HIDE DEF new
    <2> QED BY <1>0, <1>1, <1>3, <1>4, <1>5, <1>8
<1> QED BY <1>2, <1>3, <1>5, <1>6, <1>7, <1>8 DEF ReportInv

LEMMA ConflictsAreErrors ==
    ASSUME NEW d
    PROVE  \A f \in ConflictFindings(d) : f.severity = "error"
<1>1. ASSUME NEW f \in ConflictFindings(d)
      PROVE  f.severity = "error"
    <2>1. PICK c \in AllConflicts(d) :
              f = [severity |-> "error", layer |-> "conflicts", code |-> "PolicyConflict",
                   on |-> <<<<"conflict", c[1]>>, c[2]>>]
        BY DEF ConflictFindings
    <2> QED BY <2>1
<1> QED BY <1>1

(* Every layer reports errors, warnings and notes, and nothing else.       *)
LEMMA SeveritiesFound ==
    ASSUME NEW d
    PROVE  \A f \in FindingsOf(d) : f.severity \in Severities
<1>0. \A layer, code, id, about :
          /\ Finding("error", layer, code, id, about).severity \in Severities
          /\ Finding("warning", layer, code, id, about).severity \in Severities
          /\ Finding("info", layer, code, id, about).severity \in Severities
    BY DEF Finding, Severities
<1>1. \A f \in SchemaFindings(d) : f.severity \in Severities
    BY DEF SchemaFindings, Finding, Severities
<1>2. \A f \in SyntaxFindings(d) : f.severity \in Severities
    BY <1>0 DEF SyntaxFindings
<1>3. \A f \in ReferenceFindings(d) : f.severity \in Severities
    BY DEF ReferenceFindings, Finding, Severities
<1>4. \A f \in CapabilityFindings(d) : f.severity \in Severities
    BY <1>0 DEF CapabilityFindings
<1>5. \A f \in TopologyFindings(d) : f.severity \in Severities
    <2>1. \A f \in PortFindings(d) : f.severity \in Severities
        BY DEF PortFindings, Finding, Severities
    <2>2. \A f \in LinkFindings(d) : f.severity \in Severities
        BY <1>0 DEF LinkFindings
    <2>3. \A f \in PathFindings(d) : f.severity \in Severities
        BY DEF PathFindings, Finding, Severities
    <2>4. \A f \in WorkloadFindings(d) : f.severity \in Severities
        BY DEF WorkloadFindings, Finding, Severities
    <2> QED BY <2>1, <2>2, <2>3, <2>4 DEF TopologyFindings, Finding, Severities
<1>6. \A f \in ConflictFindings(d) : f.severity \in Severities
    BY ConflictsAreErrors DEF Severities
<1>7. \A f \in LinkStateFindings(d) : f.severity \in Severities
    BY <1>0 DEF LinkStateFindings
<1>8. \A f \in PortStateFindings(d) : f.severity \in Severities
    BY DEF PortStateFindings, Finding, Severities
<1>9. \A f \in PlacementFindings(d) : f.severity \in Severities
    BY DEF PlacementFindings, Finding, Severities
<1>10. \A f \in IntentFindings(d) : f.severity \in Severities
    BY DEF IntentFindings, Finding, Severities
<1>11. \A f \in IsolationFindings(d) : f.severity \in Severities
    BY DEF IsolationFindings, Finding, Severities
<1> QED
    BY <1>1, <1>2, <1>3, <1>4, <1>5, <1>6, <1>7, <1>8, <1>9, <1>10, <1>11
    DEF FindingsOf

(* A layer that looks keeps what is reported, and adds what it finds.      *)
LEMMA LookKeeps ==
    ASSUME NEW g, NEW d, NEW s, NEW D, NEW E, NEW found, NEW next,
           VerdictInv(g, d, s, D), s \notin {"canonicalize", "compare", "done"},
           found \subseteq FindingsOf(d), Reports(D, found, E),
           next \in DOMAIN LayerNo, next # "canonicalize",
           Reported(s, d, D) /\ D \subseteq E /\ found \subseteq E => Reported(next, d, E)
    PROVE  VerdictInv(g, d, next, E)
<1>1. /\ g \in Documents /\ d = Normalize(g) /\ ReportInv(D)
      /\ Cardinality(D) < MaxDiagnostics => Reported(s, d, D)
    BY DEF VerdictInv
<1>2. IsFiniteSet(FindingsOf(d))
    BY <1>1, FindingsAssumption
<1>3. IsFiniteSet(found)
    BY <1>2, FS_Subset
<1>4. \A f \in found : f.severity \in Severities
    BY SeveritiesFound
<1>5. /\ ReportInv(E)
      /\ D \subseteq E
      /\ Cardinality(E) < MaxDiagnostics =>
             Cardinality(D) < MaxDiagnostics /\ found \subseteq E
    BY <1>1, <1>3, <1>4, ReportsFits
<1>6. Cardinality(E) < MaxDiagnostics => Reported(next, d, E)
    BY <1>1, <1>5
<1> QED BY <1>1, <1>5, <1>6 DEF VerdictInv

LEMMA InitVerdict == Init => ValidationInv
<1> SUFFICES ASSUME Init PROVE ValidationInv
    OBVIOUS
<1>1. IsFiniteSet({}) /\ Cardinality({}) = 0
    BY FS_EmptySet
<1>2. ReportInv(diagnostics)
    BY <1>1, ValidationAssumption DEF Init, ReportInv
<1>3. given \in Documents /\ stage = "canonicalize" /\ diagnostics = {}
    BY DEF Init
<1> QED BY <1>2, <1>3 DEF ValidationInv, VerdictInv, LayerNo

LEMMA NextVerdict == ValidationInv /\ [Next]_vars => ValidationInv'
<1> SUFFICES ASSUME ValidationInv, [Next]_vars PROVE ValidationInv'
    OBVIOUS
<1>0. VerdictInv(given, doc, stage, diagnostics)
    BY DEF ValidationInv
<1> SUFFICES VerdictInv(given', doc', stage', diagnostics')
    BY DEF ValidationInv
<1>1. CASE Refuse
    <2> DEFINE f == Finding("error", "syntax", "LimitExceeded", NoId, Field("$"))
    <2>1. /\ given' = given /\ diagnostics' = {f} /\ stage' = "compare"
          /\ Objects(given) > MaxObjects
        BY <1>1 DEF Refuse
    <2>2. f.severity = "error"
        BY DEF Finding
    <2> HIDE DEF f
    <2>3. IsFiniteSet({f}) /\ Cardinality({f}) = 1
        BY FS_Singleton
    <2>4. ReportInv({f})
        BY <2>2, <2>3, ValidationAssumption DEF ReportInv, Severities
    <2> QED BY <1>0, <2>1, <2>2, <2>4 DEF VerdictInv, LayerNo
<1>2. CASE Canonicalize
    <2>1. /\ given' = given /\ doc' = Normalize(given) /\ diagnostics' = diagnostics
          /\ stage' = "schema"
        BY <1>2 DEF Canonicalize
    <2>2. Reported("schema", doc', diagnostics)
        BY DEF Reported, LayerNo
    <2> QED BY <1>0, <2>1, <2>2 DEF VerdictInv, LayerNo
<1>3. CASE CheckSchema
    <2>1. /\ given' = given /\ doc' = doc /\ stage = "schema" /\ stage' = "syntax"
          /\ Reports(diagnostics, SchemaFindings(doc), diagnostics')
        BY <1>3 DEF CheckSchema, Look, Report, Reports, Room
    <2>2. SchemaFindings(doc) \subseteq FindingsOf(doc)
        BY DEF FindingsOf
    <2>3. /\ Reported("schema", doc, diagnostics) /\ diagnostics \subseteq diagnostics'
          /\ SchemaFindings(doc) \subseteq diagnostics'
          => Reported("syntax", doc, diagnostics')
        BY DEF Reported, LayerNo
    <2>4. "syntax" \in DOMAIN LayerNo
        BY DEF LayerNo
    <2> QED BY <1>0, <2>1, <2>2, <2>3, <2>4, LookKeeps
<1>4. CASE CheckSyntax
    <2>1. /\ given' = given /\ doc' = doc /\ stage = "syntax" /\ stage' = "references"
          /\ Reports(diagnostics, SyntaxFindings(doc), diagnostics')
        BY <1>4 DEF CheckSyntax, Look, Report, Reports, Room
    <2>2. SyntaxFindings(doc) \subseteq FindingsOf(doc)
        BY DEF FindingsOf
    <2>3. /\ Reported("syntax", doc, diagnostics) /\ diagnostics \subseteq diagnostics'
          /\ SyntaxFindings(doc) \subseteq diagnostics'
          => Reported("references", doc, diagnostics')
        BY DEF Reported, LayerNo
    <2>4. "references" \in DOMAIN LayerNo
        BY DEF LayerNo
    <2> QED BY <1>0, <2>1, <2>2, <2>3, <2>4, LookKeeps
<1>5. CASE CheckReferences
    <2>1. /\ given' = given /\ doc' = doc /\ stage = "references" /\ stage' = "capabilities"
          /\ Reports(diagnostics, ReferenceFindings(doc), diagnostics')
        BY <1>5 DEF CheckReferences, Look, Report, Reports, Room
    <2>2. ReferenceFindings(doc) \subseteq FindingsOf(doc)
        BY DEF FindingsOf
    <2>3. /\ Reported("references", doc, diagnostics) /\ diagnostics \subseteq diagnostics'
          /\ ReferenceFindings(doc) \subseteq diagnostics'
          => Reported("capabilities", doc, diagnostics')
        BY DEF Reported, LayerNo
    <2>4. "capabilities" \in DOMAIN LayerNo
        BY DEF LayerNo
    <2> QED BY <1>0, <2>1, <2>2, <2>3, <2>4, LookKeeps
<1>6. CASE CheckCapabilities
    <2>1. /\ given' = given /\ doc' = doc /\ stage = "capabilities" /\ stage' = "topology"
          /\ Reports(diagnostics, CapabilityFindings(doc), diagnostics')
        BY <1>6 DEF CheckCapabilities, Look, Report, Reports, Room
    <2>2. CapabilityFindings(doc) \subseteq FindingsOf(doc)
        BY DEF FindingsOf
    <2>3. /\ Reported("capabilities", doc, diagnostics) /\ diagnostics \subseteq diagnostics'
          /\ CapabilityFindings(doc) \subseteq diagnostics'
          => Reported("topology", doc, diagnostics')
        BY DEF Reported, LayerNo
    <2>4. "topology" \in DOMAIN LayerNo
        BY DEF LayerNo
    <2> QED BY <1>0, <2>1, <2>2, <2>3, <2>4, LookKeeps
<1>7. CASE CheckTopology
    <2>1. /\ given' = given /\ doc' = doc /\ stage = "topology" /\ stage' = "conflicts"
          /\ Reports(diagnostics, TopologyFindings(doc), diagnostics')
        BY <1>7 DEF CheckTopology, Look, Report, Reports, Room
    <2>2. TopologyFindings(doc) \subseteq FindingsOf(doc)
        BY DEF FindingsOf
    <2>3. /\ Reported("topology", doc, diagnostics) /\ diagnostics \subseteq diagnostics'
          /\ TopologyFindings(doc) \subseteq diagnostics'
          => Reported("conflicts", doc, diagnostics')
        BY DEF Reported, LayerNo
    <2>4. "conflicts" \in DOMAIN LayerNo
        BY DEF LayerNo
    <2> QED BY <1>0, <2>1, <2>2, <2>3, <2>4, LookKeeps
<1>8. CASE CheckConflicts
    <2>1. /\ given' = given /\ doc' = doc /\ stage = "conflicts" /\ stage' = "links"
          /\ Reports(diagnostics, ConflictFindings(doc), diagnostics')
        BY <1>8 DEF CheckConflicts, Look, Report, Reports, Room
    <2>2. ConflictFindings(doc) \subseteq FindingsOf(doc)
        BY DEF FindingsOf
    <2>3. /\ Reported("conflicts", doc, diagnostics) /\ diagnostics \subseteq diagnostics'
          /\ ConflictFindings(doc) \subseteq diagnostics'
          => Reported("links", doc, diagnostics')
        BY DEF Reported, LayerNo
    <2>4. "links" \in DOMAIN LayerNo
        BY DEF LayerNo
    <2> QED BY <1>0, <2>1, <2>2, <2>3, <2>4, LookKeeps
<1>9. CASE CheckLinkStates
    <2>1. /\ given' = given /\ doc' = doc /\ stage = "links" /\ stage' = "ports"
          /\ Reports(diagnostics, LinkStateFindings(doc), diagnostics')
        BY <1>9 DEF CheckLinkStates, Look, Report, Reports, Room
    <2>2. LinkStateFindings(doc) \subseteq FindingsOf(doc)
        BY DEF FindingsOf
    <2>3. /\ Reported("links", doc, diagnostics) /\ diagnostics \subseteq diagnostics'
          /\ LinkStateFindings(doc) \subseteq diagnostics'
          => Reported("ports", doc, diagnostics')
        BY DEF Reported, LayerNo
    <2>4. "ports" \in DOMAIN LayerNo
        BY DEF LayerNo
    <2> QED BY <1>0, <2>1, <2>2, <2>3, <2>4, LookKeeps
<1>10. CASE CheckPortStates
    <2>1. /\ given' = given /\ doc' = doc /\ stage = "ports" /\ stage' = "placements"
          /\ Reports(diagnostics, PortStateFindings(doc), diagnostics')
        BY <1>10 DEF CheckPortStates, Look, Report, Reports, Room
    <2>2. PortStateFindings(doc) \subseteq FindingsOf(doc)
        BY DEF FindingsOf
    <2>3. /\ Reported("ports", doc, diagnostics) /\ diagnostics \subseteq diagnostics'
          /\ PortStateFindings(doc) \subseteq diagnostics'
          => Reported("placements", doc, diagnostics')
        BY DEF Reported, LayerNo
    <2>4. "placements" \in DOMAIN LayerNo
        BY DEF LayerNo
    <2> QED BY <1>0, <2>1, <2>2, <2>3, <2>4, LookKeeps
<1>11. CASE CheckPlacements
    <2>1. /\ given' = given /\ doc' = doc /\ stage = "placements" /\ stage' = "intents"
          /\ Reports(diagnostics, PlacementFindings(doc), diagnostics')
        BY <1>11 DEF CheckPlacements, Look, Report, Reports, Room
    <2>2. PlacementFindings(doc) \subseteq FindingsOf(doc)
        BY DEF FindingsOf
    <2>3. /\ Reported("placements", doc, diagnostics) /\ diagnostics \subseteq diagnostics'
          /\ PlacementFindings(doc) \subseteq diagnostics'
          => Reported("intents", doc, diagnostics')
        BY DEF Reported, LayerNo
    <2>4. "intents" \in DOMAIN LayerNo
        BY DEF LayerNo
    <2> QED BY <1>0, <2>1, <2>2, <2>3, <2>4, LookKeeps
<1>12. CASE CheckIntents
    <2>1. /\ given' = given /\ doc' = doc /\ stage = "intents" /\ stage' = "isolation"
          /\ Reports(diagnostics, IntentFindings(doc), diagnostics')
        BY <1>12 DEF CheckIntents, Look, Report, Reports, Room
    <2>2. IntentFindings(doc) \subseteq FindingsOf(doc)
        BY DEF FindingsOf
    <2>3. /\ Reported("intents", doc, diagnostics) /\ diagnostics \subseteq diagnostics'
          /\ IntentFindings(doc) \subseteq diagnostics'
          => Reported("isolation", doc, diagnostics')
        BY DEF Reported, LayerNo
    <2>4. "isolation" \in DOMAIN LayerNo
        BY DEF LayerNo
    <2> QED BY <1>0, <2>1, <2>2, <2>3, <2>4, LookKeeps
<1>13. CASE CheckIsolation
    <2>1. /\ given' = given /\ doc' = doc /\ stage = "isolation" /\ stage' = "compare"
          /\ Reports(diagnostics, IsolationFindings(doc), diagnostics')
        BY <1>13 DEF CheckIsolation, Look, Report, Reports, Room
    <2>2. IsolationFindings(doc) \subseteq FindingsOf(doc)
        BY DEF FindingsOf
    <2>3. /\ Reported("isolation", doc, diagnostics) /\ diagnostics \subseteq diagnostics'
          /\ IsolationFindings(doc) \subseteq diagnostics'
          => Reported("compare", doc, diagnostics')
        BY DEF Reported, LayerNo
    <2>4. "compare" \in DOMAIN LayerNo
        BY DEF LayerNo
    <2> QED BY <1>0, <2>1, <2>2, <2>3, <2>4, LookKeeps
<1>14. CASE Compare
    <2>1. /\ given' = given /\ doc' = doc /\ stage = "compare" /\ stage' = "done"
          /\ diagnostics' = diagnostics
        BY <1>14 DEF Compare
    <2>2. Reported("compare", doc, diagnostics) => Reported("done", doc, diagnostics)
        BY DEF Reported, LayerNo
    <2> QED BY <1>0, <2>1, <2>2 DEF VerdictInv, LayerNo
<1>15. CASE UNCHANGED vars
    BY <1>0, <1>15 DEF vars
<1> QED
    BY <1>1, <1>2, <1>3, <1>4, <1>5, <1>6, <1>7, <1>8, <1>9, <1>10, <1>11, <1>12, <1>13, <1>14, <1>15
    DEF Next

(* The invariant: while there is room in the report, it holds all that the *)
(* layers have found in the normal form of the document.                   *)
THEOREM ValidationInvariant == Spec => []ValidationInv
BY InitVerdict, NextVerdict, PTL DEF Spec

(* The report never holds more than the limit (add and add_subject of      *)
(* src/validate.cpp).                                                      *)
THEOREM TypeCorrect == Spec => []TypeOK
<1>1. ValidationInv => TypeOK
    BY DEF ValidationInv, VerdictInv, ReportInv, TypeOK, LayerNo, Severities
<1> QED BY <1>1, ValidationInvariant, PTL

(* What an eligible document is: the normal form of the one given, without *)
(* an error in any layer.                                                  *)
Flawless(d) == \A f \in FindingsOf(d) : f.severity # "error"

LEMMA EligibleIsFlawless ==
    ASSUME ValidationInv, Eligible
    PROVE  /\ given \in Documents /\ doc = Normalize(given)
           /\ WellTyped(doc)
           /\ Flawless(doc)
<1>1. /\ stage = "done" /\ \A f \in diagnostics : f.severity # "error"
      /\ MaxDiagnostics - Cardinality(diagnostics) > 0
    BY DEF Eligible, Done, Passed, Room
<1>2. Cardinality(diagnostics) \in Nat /\ MaxDiagnostics \in Nat
    BY FS_CardinalityType, ValidationAssumption DEF ValidationInv, VerdictInv, ReportInv
<1>3. Cardinality(diagnostics) < MaxDiagnostics
    BY <1>1, <1>2
<1>4. given \in Documents /\ doc = Normalize(given) /\ Reported("done", doc, diagnostics)
    BY <1>1, <1>3 DEF ValidationInv, VerdictInv
<1>5. FindingsOf(doc) \subseteq diagnostics
    BY <1>4 DEF Reported, LayerNo, FindingsOf
<1>6. WellTyped(doc)
    BY <1>4, NormalWellTyped, ValidationAssumption
<1> QED BY <1>1, <1>4, <1>5, <1>6 DEF Flawless

(* A document that is eligible below the limit has no error in any layer   *)
(* (include/ifabric/validate.hpp): every finding of every layer is in the  *)
(* report.  At the limit this fails, and NoHiddenErrors is violated.       *)
THEOREM NothingHidden == Spec => [](Eligible => Flawless(doc))
<1>1. ValidationInv => (Eligible => Flawless(doc))
    BY EligibleIsFlawless
<1> QED BY <1>1, ValidationInvariant, PTL

-----------------------------------------------------------------------------
(* What the absence of each error says                                     *)

LEMMA NoError ==
    ASSUME NEW d, Flawless(d)
    PROVE  \A layer, code, id, about :
               Finding("error", layer, code, id, about) \notin FindingsOf(d)
<1>1. \A layer, code, id, about : Finding("error", layer, code, id, about).severity = "error"
    BY DEF Finding
<1> QED BY <1>1 DEF Flawless

LEMMA PortsHaveDevices ==
    ASSUME NEW d, Flawless(d), NEW p \in ToSet(d.ports)
    PROVE  p.device # NoId
<1> SUFFICES ASSUME p.device = NoId PROVE FALSE
    OBVIOUS
<1>1. Finding("error", "syntax", "MissingField", p.id, Field("device")) \in SyntaxFindings(d)
    BY DEF SyntaxFindings
<1> QED BY <1>1, NoError DEF FindingsOf

LEMMA ReferencesResolve ==
    ASSUME NEW d, Flawless(d), NEW r \in References(d), r[2] # NoId
    PROVE  Resolves(d, r[2])
<1> SUFFICES ASSUME ~ Resolves(d, r[2]) PROVE FALSE
    OBVIOUS
<1>1. Finding("error", "references", "DanglingReference", r[1], r[2]) \in ReferenceFindings(d)
    BY DEF ReferenceFindings
<1> QED BY <1>1, NoError DEF FindingsOf

LEMMA NoDuplicates ==
    ASSUME NEW d, Flawless(d)
    PROVE  Duplicates(d) = {}
<1> SUFFICES ASSUME NEW id \in Duplicates(d) PROVE FALSE
    OBVIOUS
<1>1. Finding("error", "references", "DuplicateIdentity", id, Field("id")) \in ReferenceFindings(d)
    BY DEF ReferenceFindings
<1> QED BY <1>1, NoError DEF FindingsOf

LEMMA ScopesNamed ==
    ASSUME NEW d, Flawless(d), NEW p \in ToSet(d.policies), p.kind \in Scoped
    PROVE  p.scope # NoId
<1> SUFFICES ASSUME p.scope = NoId PROVE FALSE
    OBVIOUS
<1>1. Finding("error", "references", "IdentityMalformed", p.id, Field("scope"))
          \in ReferenceFindings(d)
    BY DEF ReferenceFindings
<1> QED BY <1>1, NoError DEF FindingsOf

LEMMA NoConflict ==
    ASSUME NEW d, Flawless(d)
    PROVE  AllConflicts(d) = {}
<1> SUFFICES ASSUME NEW c \in AllConflicts(d) PROVE FALSE
    OBVIOUS
<1>1. PICK f \in ConflictFindings(d) : TRUE
    BY DEF ConflictFindings
<1> QED BY <1>1, ConflictsAreErrors DEF Flawless, FindingsOf

LEMMA LinkEndsEnabled ==
    ASSUME NEW d, Flawless(d), NEW l \in ToSet(d.links), Enabled(l),
           NEW e \in Ends(l), Has(d.ports, e)
    PROVE  /\ Enabled(Port(d, e))
           /\ Has(d.devices, DeviceOf(d, e)) =>
                  Lookup(d.devices, DeviceOf(d, e)).admin # "disabled"
<1> DEFINE On(x) == Finding("error", "invariants", "InvariantViolation", l.id, x)
<1>1. ~ Enabled(Port(d, e)) => On(e) \in LinkStateFindings(d)
    BY DEF LinkStateFindings
<1>2. /\ Has(d.devices, DeviceOf(d, e))
      /\ Lookup(d.devices, DeviceOf(d, e)).admin = "disabled"
      => On(DeviceOf(d, e)) \in LinkStateFindings(d)
    BY DEF LinkStateFindings
<1>3. \A x : On(x) \notin LinkStateFindings(d)
    BY NoError DEF FindingsOf
<1> QED BY <1>1, <1>2, <1>3

LEMMA PlacedOnEnabled ==
    ASSUME NEW d, Flawless(d), NEW w \in ToSet(d.workloads),
           NEW id \in w.placement, Has(d.devices, id)
    PROVE  Lookup(d.devices, id).admin # "disabled"
<1> DEFINE x == Lookup(d.devices, id)
<1> DEFINE f == Finding("error", "invariants", "InvariantViolation", w.id, x.id)
<1>1. x.admin = "disabled" => f \in PlacementFindings(d)
    BY DEF PlacementFindings
<1> QED BY <1>1, NoError DEF FindingsOf

LEMMA SpreadWideEnough ==
    ASSUME NEW d, Flawless(d), NEW w \in ToSet(d.workloads), w.placement # {}, w.domains > 1
    PROVE  ~ (Cardinality(SpreadOf(d, w)) < w.domains)
<1> SUFFICES ASSUME Cardinality(SpreadOf(d, w)) < w.domains PROVE FALSE
    OBVIOUS
<1>1. Finding("error", "topology", "InfeasibleTopology", w.id, Field("domains"))
          \in WorkloadFindings(d)
    BY DEF WorkloadFindings
<1> QED BY <1>1, NoError DEF FindingsOf, TopologyFindings

LEMMA NotParted ==
    ASSUME NEW d, Flawless(d)
    PROVE  ~ Parted(d)
<1> SUFFICES ASSUME Parted(d) PROVE FALSE
    OBVIOUS
<1>1. Finding("error", "topology", "InfeasibleTopology", Field("topology"), Field("parted"))
          \in TopologyFindings(d)
    BY DEF TopologyFindings
<1> QED BY <1>1, NoError DEF FindingsOf

LEMMA StatesAreStates ==
    ASSUME NEW d, Flawless(d), NEW i \in ToSet(d.intents), i.property = "admin_state"
    PROVE  i.desired \in AdminStates
<1>1. "admin_state" \in DOMAIN Registry /\ Registry["admin_state"][2] = AdminStates
    BY DEF Registry
<1> DEFINE On(code, f) == Finding("error", "invariants", code, i.id, Field(f))
<1>2. i.subject[1] \notin Registry["admin_state"][1]
      => On("AmbiguousSemantics", "subject") \in IntentFindings(d)
    BY <1>1 DEF IntentFindings
<1>3. i.subject[1] \in Registry["admin_state"][1] /\ i.desired \notin Registry["admin_state"][2]
      => On("JsonTypeMismatch", "desired") \in IntentFindings(d)
    BY <1>1 DEF IntentFindings
<1>4. \A code, f : On(code, f) \notin IntentFindings(d)
    BY NoError DEF FindingsOf
<1> QED BY <1>1, <1>2, <1>3, <1>4

LEMMA ReservationsSeeLinks ==
    ASSUME NEW d, Flawless(d), NEW q \in Reservations(d)
    PROVE  Contributing(d, q.scope) # {}
<1> SUFFICES ASSUME Contributing(d, q.scope) = {} PROVE FALSE
    OBVIOUS
<1>1. Finding("error", "capabilities", "UnknownCapability", q.id, Field("scope"))
          \in CapabilityFindings(d)
    BY DEF CapabilityFindings
<1> QED BY <1>1, NoError DEF FindingsOf

-----------------------------------------------------------------------------
(* What an eligible document promises                                      *)

(* A reference to a device that is not empty finds one.                    *)
LEMMA DeviceFound ==
    ASSUME NEW d, WellTyped(d), NEW id \in Identity("device"), id # NoId, Resolves(d, id)
    PROVE  Has(d.devices, id)
<1>1. id[1] = "device"
    BY DEF Identity
<1>2. id # d.domain
    BY <1>1 DEF WellTyped, Identity, NoId
<1>3. CollectionOf["device"] = "devices"
    BY DEF CollectionOf
<1> QED BY <1>1, <1>2, <1>3 DEF Resolves

LEMMA SmallerMisses ==
    ASSUME NEW S, NEW T, IsFiniteSet(T), ~ (Cardinality(S) <= Cardinality(T))
    PROVE  \E x \in S : x \notin T
<1> SUFFICES ASSUME S \in SUBSET T PROVE FALSE
    OBVIOUS
<1> QED BY FS_Subset

(* The failure domains of the devices are finite, and so is what is lost.  *)
LEMMA LostIsFinite ==
    ASSUME NEW d, WellTyped(d), NEW level,
           NEW lost \in SUBSET {DomainOf(d, y, level) : y \in ToSet(d.devices)}
    PROVE  IsFiniteSet(lost) /\ Cardinality(lost) \in Nat
<1> DEFINE S == ToSet(d.devices)
<1> DEFINE T == {DomainOf(d, y, level) : y \in S}
<1> DEFINE f == [y \in S |-> DomainOf(d, y, level)]
<1>1. "devices" \in Collections
    BY DEF Collections, Keyed
<1>2. IsFiniteSet(S)
    BY <1>1, Declarations
<1>3. f \in Surjection(S, T)
    BY DEF Surjection
<1> HIDE DEF S, f
<1>4. IsFiniteSet(T)
    BY <1>2, <1>3, FS_Surjection
<1> QED BY <1>4, FS_Subset, FS_CardinalityType DEF S

LEMMA DeviceLookup ==
    ASSUME NEW d, WellTyped(d), NEW id, Has(d.devices, id)
    PROVE  Lookup(d.devices, id) \in ToSet(d.devices) /\ Lookup(d.devices, id).id = id
<1>1. "devices" \in Collections
    BY DEF Collections, Keyed
<1>2. Len(d.devices) \in Nat /\ DOMAIN d.devices = 1 .. Len(d.devices)
    BY <1>1, Declarations
<1> QED BY <1>2, LookupFinds

LEMMA PortLookup ==
    ASSUME NEW d, WellTyped(d), NEW id, Has(d.ports, id)
    PROVE  Lookup(d.ports, id) \in ToSet(d.ports) /\ Lookup(d.ports, id).id = id
<1>1. "ports" \in Collections
    BY DEF Collections, Keyed
<1>2. Len(d.ports) \in Nat /\ DOMAIN d.ports = 1 .. Len(d.ports)
    BY <1>1, Declarations
<1> QED BY <1>2, LookupFinds

LEMMA WorkloadSurvives ==
    ASSUME NEW d, WellTyped(d), Flawless(d),
           NEW w \in ToSet(d.workloads), w.placement \ {NoId} # {},
           NEW lost \in SUBSET {DomainOf(d, y, w.level) : y \in ToSet(d.devices)},
           Cardinality(lost) < w.domains
    PROVE  \E y \in ToSet(d.devices) :
               /\ y.id \in w.placement
               /\ y.admin # "disabled"
               /\ DomainOf(d, y, w.level) \notin lost
<1>1. w.placement \subseteq Identity("device") /\ w.domains \in Nat
    BY DEF WellTyped
<1>2. IsFiniteSet(lost) /\ Cardinality(lost) \in Nat
    BY LostIsFinite
<1>3. \E id \in w.placement : /\ Has(d.devices, id)
                              /\ DomainOf(d, Lookup(d.devices, id), w.level) \notin lost
    <2>1. CASE w.domains > 1
        <3>1. ~ (Cardinality(SpreadOf(d, w)) < w.domains)
            BY <2>1, SpreadWideEnough
        <3>2. ~ (Cardinality(SpreadOf(d, w)) <= Cardinality(lost))
            <4>1. IsFiniteSet(SpreadOf(d, w)) => Cardinality(SpreadOf(d, w)) \in Nat
                BY FS_CardinalityType
            <4>2. IsFiniteSet(SpreadOf(d, w))
                <5>1. SpreadOf(d, w) \in SUBSET {DomainOf(d, y, w.level) : y \in ToSet(d.devices)}
                    BY DeviceLookup DEF SpreadOf
                <5> QED BY <5>1, LostIsFinite
            <4> QED BY <1>1, <1>2, <3>1, <4>1, <4>2
        <3>3. PICK x \in SpreadOf(d, w) : x \notin lost
            BY <1>2, <3>2, SmallerMisses
        <3> QED BY <3>3 DEF SpreadOf
    <2>2. CASE ~ (w.domains > 1)
        <3>1. Cardinality(lost) = 0
            BY <1>1, <1>2, <2>2
        <3>2. lost = {}
            BY <1>2, <3>1, FS_EmptySet
        <3>3. PICK id \in w.placement : id # NoId
            OBVIOUS
        <3>4. <<w.id, id>> \in References(d)
            <4> DEFINE targets == {w.tenant, w.class} \cup w.placement \cup w.sites
            <4>1. <<w.id, id>> \in Refs(w, targets)
                BY DEF Refs
            <4>2. Refs(w, targets) \in
                      {Refs(x, {x.tenant, x.class} \cup x.placement \cup x.sites) :
                          x \in ToSet(d.workloads)}
                OBVIOUS
            <4> HIDE DEF targets
            <4> QED BY <4>1, <4>2 DEF References
        <3>5. Resolves(d, id)
            BY <3>3, <3>4, ReferencesResolve
        <3>6. Has(d.devices, id)
            BY <1>1, <3>3, <3>5, DeviceFound
        <3> QED BY <3>2, <3>6
    <2> QED BY <2>1, <2>2
<1>4. PICK id \in w.placement : /\ Has(d.devices, id)
                                /\ DomainOf(d, Lookup(d.devices, id), w.level) \notin lost
    BY <1>3
<1>5. Lookup(d.devices, id) \in ToSet(d.devices) /\ Lookup(d.devices, id).id = id
    BY <1>4, DeviceLookup
<1>6. Lookup(d.devices, id).admin # "disabled"
    BY <1>4, PlacedOnEnabled
<1> QED BY <1>4, <1>5, <1>6

(* A workload of an eligible document survives the failures it was spread  *)
(* for (the spread rule of the topology layer, the references and the      *)
(* placement rule of the invariant layer).                                 *)
THEOREM WorkloadsSurviveHolds == Spec => []WorkloadsSurvive
<1>1. ValidationInv => WorkloadsSurvive
    BY EligibleIsFlawless, WorkloadSurvives DEF WorkloadsSurvive
<1> QED BY <1>1, ValidationInvariant, PTL

(* A port that is declared is on a device that is declared.                *)
LEMMA PortOnDevice ==
    ASSUME NEW d, WellTyped(d), Flawless(d), NEW e, Has(d.ports, e)
    PROVE  Has(d.devices, DeviceOf(d, e))
<1> DEFINE p == Lookup(d.ports, e)
<1>1. p \in ToSet(d.ports) /\ DeviceOf(d, e) = p.device
    BY PortLookup DEF DeviceOf
<1> HIDE DEF p
<1>2. p.device \in Identity("device") /\ p.device # NoId
    BY <1>1, PortsHaveDevices DEF WellTyped
<1>3. <<p.id, p.device>> \in References(d)
    <2> DEFINE targets == {p.device} \cup p.classes
    <2>1. <<p.id, p.device>> \in Refs(p, targets)
        BY DEF Refs
    <2>2. Refs(p, targets) \in {Refs(x, {x.device} \cup x.classes) : x \in ToSet(d.ports)}
        BY <1>1
    <2> HIDE DEF targets
    <2> QED BY <2>1, <2>2 DEF References
<1>4. Resolves(d, p.device)
    BY <1>2, <1>3, ReferencesResolve
<1> QED BY <1>1, <1>2, <1>4, DeviceFound

(* Where no error was found, an enabled link with ports at its ends        *)
(* forwards.                                                               *)
LEMMA WiredForwards ==
    ASSUME WellTyped(doc), Flawless(doc),
           NEW l \in ToSet(doc.links), Enabled(l), Wired(doc, l)
    PROVE  l \in AliveLinks
<1>1. ASSUME NEW e \in Ends(l)
      PROVE  /\ Has(doc.ports, e) /\ Enabled(Port(doc, e))
             /\ Has(doc.devices, DeviceOf(doc, e))
             /\ Lookup(doc.devices, DeviceOf(doc, e)).admin # "disabled"
    <2>1. Has(doc.ports, e)
        BY DEF Wired
    <2>2. Has(doc.devices, DeviceOf(doc, e))
        BY <2>1, PortOnDevice
    <2> QED BY <2>1, <2>2, LinkEndsEnabled
<1> QED BY <1>1 DEF AliveLinks, Alive

LEMMA NeighboursFinite ==
    ASSUME NEW d, WellTyped(d), NEW x, NEW level
    PROVE  IsFiniteSet(Neighbours(d, x, level)) /\ Achievable(d, x, level) \in Nat
<1> DEFINE L == {k \in LinksAt(d, x.id) :
                    /\ Enabled(k)
                    /\ Wired(d, k)
                    /\ FarEnd(d, k, x.id) # x.id
                    /\ Has(d.devices, FarEnd(d, k, x.id))}
<1> DEFINE f == [l \in L |->
                    IF level \in {"link", "port"} THEN l.id
                    ELSE DomainOf(d, Lookup(d.devices, FarEnd(d, l, x.id)), level)]
<1>1. "links" \in Collections
    BY DEF Collections, Keyed
<1>2. IsFiniteSet(ToSet(d.links)) /\ L \in SUBSET ToSet(d.links)
    BY <1>1, Declarations DEF LinksAt
<1>3. IsFiniteSet(L)
    BY <1>2, FS_Subset
<1>4. f \in Surjection(L, Neighbours(d, x, level))
    BY DEF Surjection, Neighbours
<1> HIDE DEF f, L
<1>5. IsFiniteSet(Neighbours(d, x, level))
    BY <1>3, <1>4, FS_Surjection
<1> QED BY <1>5, FS_CardinalityType DEF Achievable

LEMMA DeviceKeepsNeighbour ==
    ASSUME WellTyped(doc), Flawless(doc),
           NEW p \in Policies(doc, "redundancy"), p.level \notin {"link", "port"},
           NEW x \in DevicesOf(doc, p.scope),
           NEW lost \in SUBSET {DomainOf(doc, y, p.level) : y \in ToSet(doc.devices)},
           Cardinality(lost) < p.paths
    PROVE  \E y \in ToSet(doc.devices) \ {x} : \E l \in AliveLinks :
               Between(l, x.id, y.id) /\ DomainOf(doc, y, p.level) \notin lost
<1>1. p.paths \in Nat /\ IsFiniteSet(lost) /\ Cardinality(lost) \in Nat
    BY LostIsFinite DEF WellTyped, Policies
<1>2. RedundancyConflicts(doc) = {}
    BY NoConflict DEF AllConflicts
<1>3. ~ (Achievable(doc, x, p.level) < p.paths)
    BY <1>2 DEF RedundancyConflicts
<1>4. ~ (Cardinality(Neighbours(doc, x, p.level)) <= Cardinality(lost))
    BY <1>1, <1>3, NeighboursFinite DEF Achievable
<1>5. PICK n \in Neighbours(doc, x, p.level) : n \notin lost
    BY <1>1, <1>4, SmallerMisses
<1>6. PICK l \in LinksAt(doc, x.id) :
          /\ Enabled(l) /\ Wired(doc, l)
          /\ FarEnd(doc, l, x.id) # x.id
          /\ Has(doc.devices, FarEnd(doc, l, x.id))
          /\ n = DomainOf(doc, Lookup(doc.devices, FarEnd(doc, l, x.id)), p.level)
    BY <1>5 DEF Neighbours
<1> DEFINE y == Lookup(doc.devices, FarEnd(doc, l, x.id))
<1>7. y \in ToSet(doc.devices) /\ y.id = FarEnd(doc, l, x.id)
    BY <1>6, DeviceLookup
<1>8. l \in ToSet(doc.links) /\ \E e \in Ends(l) : DeviceOf(doc, e) = x.id
    BY <1>6 DEF LinksAt
<1>9. l \in AliveLinks
    BY <1>6, <1>8, WiredForwards
<1>10. Between(l, x.id, y.id)
    BY <1>7, <1>8 DEF Between, FarEnd, Ends
<1>11. DomainOf(doc, y, p.level) \notin lost
    BY <1>5, <1>6
<1> HIDE DEF y
<1>12. y # x
    BY <1>6, <1>7
<1> QED BY <1>7, <1>9, <1>10, <1>11, <1>12

(* A device for which redundancy is required keeps a neighbour over a link *)
(* that forwards, whichever failure domains are lost (rule 5 of            *)
(* src/conflict.cpp with the state and reference rules).                   *)
THEOREM RedundantHolds == Spec => []Redundant
<1>1. ValidationInv => Redundant
    BY EligibleIsFlawless, DeviceKeepsNeighbour DEF Redundant
<1> QED BY <1>1, ValidationInvariant, PTL

-----------------------------------------------------------------------------
(* One state                                                               *)

LEMMA DeviceIsFound ==
    ASSUME NEW d, WellTyped(d), Flawless(d), NEW x \in ToSet(d.devices), x.id # NoId
    PROVE  Found(d, x)
<1>1. "devices" \in Keyed /\ "devices" \in Collections
    BY DEF Keyed, Collections
<1>2. PICK i \in DOMAIN d.devices : d.devices[i] = x
    BY DEF ToSet
<1>3. Has(d.devices, x.id)
    BY <1>2 DEF Has
<1>4. PICK j \in DOMAIN d.devices : d.devices[j] = Lookup(d.devices, x.id)
    BY <1>3, DeviceLookup DEF ToSet
<1>5. d.devices[j].id = x.id
    BY <1>3, <1>4, DeviceLookup
<1>6. j = i
    <2> SUFFICES ASSUME j # i PROVE FALSE
        OBVIOUS
    <2> DEFINE repeated == {d["devices"][a].id : a \in {b \in DOMAIN d["devices"] :
            \E k \in DOMAIN d["devices"] : k # b /\ d["devices"][k].id = d["devices"][b].id}}
    <2>1. x.id \in repeated
        BY <1>2, <1>4, <1>5
    <2>2. repeated \in {{d[c][a].id : a \in {b \in DOMAIN d[c] :
              \E k \in DOMAIN d[c] : k # b /\ d[c][k].id = d[c][b].id}} : c \in Keyed}
        BY <1>1
    <2> HIDE DEF repeated
    <2>3. x.id \in Duplicates(d)
        BY <2>1, <2>2 DEF Duplicates
    <2> QED BY <2>3, NoDuplicates
<1> QED BY <1>2, <1>4, <1>6 DEF Found

(* A scope around a device that names all it lies within covers it.        *)
LEMMA AroundIsCovered ==
    ASSUME NEW d, WellTyped(d), Flawless(d), NEW x \in ToSet(d.devices),
           NEW scope \in {x.id, x.rack, x.pod, x.site, DomainOf(d, x, "fabric")},
           scope # NoId
    PROVE  x \in DevicesOf(d, scope)
<1>0. "devices" \in Collections /\ "sites" \in Collections
    BY DEF Collections, Keyed
<1>1. /\ x.id \in Identity("device") /\ x.site \in Identity("site")
      /\ x.pod \in Identity("pod") /\ x.rack \in Identity("rack")
    <2>1. x.id \in Identity(ClassIn["devices"])
        BY <1>0, Declarations
    <2> QED BY <2>1 DEF WellTyped, ClassIn
<1>2. \A class, id : id \in Identity(class) /\ id # NoId => id[1] = class
    BY DEF Identity
<1>3. CASE scope = x.id
    <2>1. scope[1] = "device"
        BY <1>1, <1>2, <1>3
    <2>2. Found(d, x)
        BY <1>3, DeviceIsFound
    <2> QED BY <1>3, <2>1, <2>2 DEF DevicesOf, Covers
<1>4. CASE scope = x.rack
    <2>1. scope[1] = "rack"
        BY <1>1, <1>2, <1>4
    <2> QED BY <1>4, <2>1 DEF DevicesOf, Covers
<1>5. CASE scope = x.pod
    <2>1. scope[1] = "pod"
        BY <1>1, <1>2, <1>5
    <2> QED BY <1>5, <2>1 DEF DevicesOf, Covers
<1>6. CASE scope = x.site
    <2>1. scope[1] = "site"
        BY <1>1, <1>2, <1>6
    <2> QED BY <1>6, <2>1 DEF DevicesOf, Covers
<1>7. CASE scope = DomainOf(d, x, "fabric")
    <2> DEFINE s == Lookup(d.sites, x.site)
    <2>1. Has(d.sites, x.site) /\ scope = s.fabric
        BY <1>7 DEF DomainOf
    <2>2. Len(d.sites) \in Nat /\ DOMAIN d.sites = 1 .. Len(d.sites)
        BY <1>0, Declarations
    <2>3. s \in ToSet(d.sites) /\ s.id = x.site
        BY <2>1, <2>2, LookupFinds
    <2> HIDE DEF s
    <2>4. s.fabric \in Identity("fabric")
        BY <2>3 DEF WellTyped
    <2>5. scope[1] = "fabric"
        BY <1>2, <2>1, <2>4
    <2> QED BY <2>1, <2>3, <2>5 DEF DevicesOf, Covers
<1> QED BY <1>3, <1>4, <1>5, <1>6, <1>7

(* Where no claims conflict, those on one subject are for one state.       *)
LEMMA ClaimsAgree ==
    ASSUME NEW d, Flawless(d), NEW a \in Claims(d), NEW b \in Claims(d), a[1] = b[1]
    PROVE  a[3] = b[3]
<1> DEFINE s == a[1]
<1> DEFINE first == FirstOf(ClaimsOn(d, s))
<1>1. AdminConflicts(d) = {}
    BY NoConflict DEF AllConflicts
<1>2. s \in {c[1] : c \in Claims(d)}
    OBVIOUS
<1>3. \A c \in ClaimsOn(d, s) : c[2] = first[2]
    <2> SUFFICES ASSUME NEW c \in ClaimsOn(d, s), c[2] # first[2] PROVE FALSE
        OBVIOUS
    <2> DEFINE conflict == Conflict(1, {<<first[1][1], first[2], first[1]>>,
                                       <<c[1][1], c[2], c[1]>>, <<"subject", "subject", s>>})
    <2>1. conflict \in AdminConflicts(d)
        <3> DEFINE Of(t) ==
                {Conflict(1, {<<FirstOf(ClaimsOn(d, t))[1][1], FirstOf(ClaimsOn(d, t))[2],
                                FirstOf(ClaimsOn(d, t))[1]>>,
                              <<e[1][1], e[2], e[1]>>, <<"subject", "subject", t>>}) :
                    e \in {f \in ClaimsOn(d, t) : f[2] # FirstOf(ClaimsOn(d, t))[2]}}
        <3>1. conflict \in Of(s)
            OBVIOUS
        <3>2. AdminConflicts(d) = UNION {Of(t) : t \in {e[1] : e \in Claims(d)}}
            BY DEF AdminConflicts
        <3> HIDE DEF Of, conflict, s
        <3> QED BY <1>2, <3>1, <3>2
    <2> QED BY <1>1, <2>1
<1>4. <<a[2], a[3]>> \in ClaimsOn(d, s) /\ <<b[2], b[3]>> \in ClaimsOn(d, s)
    BY DEF ClaimsOn
<1> HIDE DEF s, first
<1>5. <<a[2], a[3]>>[2] = first[2] /\ <<b[2], b[3]>>[2] = first[2]
    BY <1>3, <1>4
<1> QED BY <1>5

LEMMA StatesAgree ==
    ASSUME WellTyped(doc), Flawless(doc), Nested, NEW x \in ToSet(doc.devices),
           NEW v \in {p.state : p \in {q \in Policies(doc, "admin") : q.scope \in Around(x.id)}}
                     \cup {i.desired : i \in {j \in Enforced(doc) :
                              j.subject = x.id /\ j.property = "admin_state"}}
    PROVE  \E c \in Claims(doc) : c[1] = x.id /\ c[3] = v
<1>1. CASE \E p \in Policies(doc, "admin") : p.scope \in Around(x.id) /\ v = p.state
    <2>1. PICK p \in Policies(doc, "admin") : p.scope \in Around(x.id) /\ v = p.state
        BY <1>1
    <2>2. p \in ToSet(doc.policies) /\ p.kind \in Scoped
        BY DEF Policies, Scoped
    <2>3. p.scope # NoId
        BY <2>2, ScopesNamed
    <2>4. p.scope \in {x.id, x.rack, x.pod, x.site, DomainOf(doc, x, "fabric")}
        BY <2>1 DEF Nested
    <2>5. x \in DevicesOf(doc, p.scope)
        BY <2>3, <2>4, AroundIsCovered
    <2> DEFINE c == <<x.id, p.id, p.state>>
    <2>6. c \in Claims(doc)
        BY <2>5 DEF Claims
    <2> QED BY <2>1, <2>6
<1>2. CASE \E i \in Enforced(doc) :
              i.subject = x.id /\ i.property = "admin_state" /\ v = i.desired
    <2>1. PICK i \in Enforced(doc) :
              i.subject = x.id /\ i.property = "admin_state" /\ v = i.desired
        BY <1>2
    <2>2. i.desired \in AdminStates
        BY <2>1, StatesAreStates DEF Enforced
    <2> DEFINE c == <<i.subject, i.id, i.desired>>
    <2>3. c \in Claims(doc)
        BY <2>1, <2>2 DEF Claims
    <2> QED BY <2>1, <2>3
<1> QED BY <1>1, <1>2

LEMMA AtMostOne ==
    ASSUME NEW S, \A a, b \in S : a = b
    PROVE  Cardinality(S) <= 1
<1>1. CASE S = {}
    <2>1. Cardinality(S) = 0
        BY <1>1, FS_EmptySet
    <2> QED BY <2>1
<1>2. CASE S # {}
    <2>1. PICK a \in S : S = {a}
        BY <1>2
    <2>2. Cardinality({a}) = 1
        BY FS_Singleton
    <2> QED BY <2>1, <2>2
<1> QED BY <1>1, <1>2

(* No two declarations of an eligible document want different states of    *)
(* one device (rule 1 of src/conflict.cpp, and what the index takes a      *)
(* scope to cover).                                                        *)
THEOREM OneStateHolds == Spec => []OneState
<1>1. ASSUME ValidationInv, Eligible, Nested, NEW x \in ToSet(doc.devices)
      PROVE  Cardinality(
                {p.state : p \in {q \in Policies(doc, "admin") : q.scope \in Around(x.id)}}
                \cup {i.desired : i \in {j \in Enforced(doc) :
                         j.subject = x.id /\ j.property = "admin_state"}}) <= 1
    <2> DEFINE S == {p.state : p \in {q \in Policies(doc, "admin") : q.scope \in Around(x.id)}}
                    \cup {i.desired : i \in {j \in Enforced(doc) :
                             j.subject = x.id /\ j.property = "admin_state"}}
    <2>1. WellTyped(doc) /\ Flawless(doc)
        BY <1>1, EligibleIsFlawless
    <2>2. \A v \in S : \E c \in Claims(doc) : c[1] = x.id /\ c[3] = v
        BY <1>1, <2>1, StatesAgree
    <2> HIDE DEF S
    <2>3. \A a, b \in S : a = b
        BY <2>1, <2>2, ClaimsAgree
    <2>4. Cardinality(S) <= 1
        BY <2>3, AtMostOne
    <2> QED BY <2>4 DEF S
<1>2. ValidationInv => OneState
    BY <1>1 DEF OneState
<1> QED BY <1>2, ValidationInvariant, PTL

-----------------------------------------------------------------------------
(* Reachability                                                            *)

(* What is reachable is the least set that the edges do not leave.         *)
LEMMA ReachableIsClosure ==
    ASSUME NEW E, NEW S, IsFiniteSet(E), IsFiniteSet(S)
    PROVE  /\ S \subseteq Reachable(E, S) /\ Closed(E, Reachable(E, S))
           /\ \A C : S \subseteq C /\ Closed(E, C) => Reachable(E, S) \subseteq C
<1> DEFINE U == S \cup {e[2] : e \in E}
<1> DEFINE Step(g, T) ==
        IF Successors(E, T) \subseteq T THEN T ELSE g[T \cup Successors(E, T)]
<1> DEFINE grow == CHOOSE g : g = [T \in SUBSET U |-> Step(g, T)]
<1>1. Reachable(E, S) = grow[S]
    BY DEF Reachable
<1>2. \A T : Successors(E, T) \subseteq U
    BY DEF Successors
<1>3. grow = [T \in SUBSET U |-> Step(grow, T)]
    <2> DEFINE closure == [T \in SUBSET U |->
                              {u \in U : \A X \in SUBSET U : T \subseteq X /\ Closed(E, X) => u \in X}]
    <2>1. ASSUME NEW T \in SUBSET U
          PROVE  closure[T] = Step(closure, T)
        <3>1. CASE Closed(E, T)
            <4>1. closure[T] = T
                BY <3>1
            <4> QED BY <3>1, <4>1 DEF Closed
        <3>2. CASE ~ Closed(E, T)
            <4> DEFINE V == T \cup Successors(E, T)
            <4>1. V \in SUBSET U
                BY <1>2
            <4>2. \A X : T \subseteq X /\ Closed(E, X) => Successors(E, T) \subseteq X
                BY DEF Successors, Closed
            <4>3. \A X : T \subseteq X /\ Closed(E, X) <=> V \subseteq X /\ Closed(E, X)
                BY <4>2
            <4>4. closure[T] = {u \in U : \A X \in SUBSET U : T \subseteq X /\ Closed(E, X) => u \in X}
                OBVIOUS
            <4>5. closure[V] = {u \in U : \A X \in SUBSET U : V \subseteq X /\ Closed(E, X) => u \in X}
                BY <4>1
            <4> HIDE DEF V, closure
            <4>6. closure[T] = closure[V]
                BY <4>3, <4>4, <4>5
            <4> QED BY <3>2, <4>6 DEF Closed, V
        <3> QED BY <3>1, <3>2
    <2>2. closure = [T \in SUBSET U |-> Step(closure, T)]
        <3>1. closure = [T \in SUBSET U |-> closure[T]]
            OBVIOUS
        <3> HIDE DEF closure, Step
        <3> QED BY <2>1, <3>1
    <2> HIDE DEF closure, Step
    <2> QED BY <2>2
<1> HIDE DEF grow
<1>4. IsFiniteSet(U)
    <2> DEFINE f == [e \in E |-> e[2]]
    <2>1. f \in Surjection(E, {e[2] : e \in E})
        BY DEF Surjection
    <2> HIDE DEF f
    <2>2. IsFiniteSet({e[2] : e \in E})
        BY <2>1, FS_Surjection
    <2> QED BY <2>2, FS_Union
<1> DEFINE IsClosure(T, V) ==
        /\ T \subseteq V /\ Closed(E, V)
        /\ \A C : T \subseteq C /\ Closed(E, C) => V \subseteq C
<1> DEFINE Left(T) == Cardinality(U \ T)
<1> DEFINE Bad == {T \in SUBSET U : ~ IsClosure(T, grow[T])}
<1>5. \A T : IsFiniteSet(U \ T) /\ Left(T) \in Nat
    <2>1. \A T : (U \ T) \in SUBSET U
        OBVIOUS
    <2> HIDE DEF U
    <2> QED BY <1>4, <2>1, FS_Subset, FS_CardinalityType
<1>6. Bad = {}
    <2> SUFFICES ASSUME Bad # {} PROVE FALSE
        OBVIOUS
    <2> DEFINE sizes == {Left(T) : T \in Bad}
    <2>1. sizes \in SUBSET Nat /\ sizes # {}
        <3> HIDE DEF Bad, Left
        <3> QED BY <1>5
    <2>2. PICK m \in sizes : \A n \in sizes : m <= n
        BY <2>1, LeastExists
    <2>3. PICK T \in Bad : \A V \in Bad : Left(T) <= Left(V)
        <3> HIDE DEF Bad, Left
        <3> QED BY <2>2
    <2>4. T \in SUBSET U /\ ~ IsClosure(T, grow[T])
        BY <2>3
    <2>5. grow[T] = Step(grow, T)
        BY <1>3, <2>4
    <2> DEFINE V == T \cup Successors(E, T)
    <2>6. ~ (Successors(E, T) \subseteq T) /\ grow[T] = grow[V]
        <3>1. CASE Successors(E, T) \subseteq T
            <4>1. grow[T] = T
                BY <2>5, <3>1
            <4> QED BY <2>4, <3>1, <4>1 DEF Closed
        <3> QED BY <2>5, <3>1
    <2>7. \A C : T \subseteq C /\ Closed(E, C) => V \subseteq C
        BY DEF Successors, Closed
    <2>8. V \in Bad
        <3>1. V \in SUBSET U
            <4> HIDE DEF U
            <4> QED BY <1>2, <2>4
        <3>2. ~ IsClosure(V, grow[V])
            <4> SUFFICES ASSUME IsClosure(V, grow[V]) PROVE IsClosure(T, grow[T])
                BY <2>4
            <4>1. T \subseteq V
                OBVIOUS
            <4> HIDE DEF V, grow, U
            <4> QED BY <2>6, <2>7, <4>1
        <3> HIDE DEF V, IsClosure, U
        <3> QED BY <3>1, <3>2
    <2>9. (U \ V) \in SUBSET (U \ T) /\ U \ V # U \ T
        <3> HIDE DEF U
        <3> QED BY <1>2, <2>6
    <2>10. Left(T) <= Left(V)
        <3> HIDE DEF Bad, Left, V
        <3> QED BY <2>3, <2>8
    <2> DEFINE before == U \ T
    <2> DEFINE after == U \ V
    <2>11. /\ IsFiniteSet(before) /\ Cardinality(before) \in Nat /\ Cardinality(after) \in Nat
        BY <1>5
    <2>12. after \in SUBSET before /\ after # before /\ Cardinality(before) <= Cardinality(after)
        BY <2>9, <2>10
    <2> HIDE DEF before, after
    <2> QED BY <2>11, <2>12, FS_Subset
<1>7. S \in SUBSET U
    OBVIOUS
<1>8. IsClosure(S, grow[S])
    <2> HIDE DEF IsClosure, U
    <2> QED BY <1>6, <1>7
<1> HIDE DEF U
<1> QED BY <1>1, <1>8

(* What is reachable stays within every set that the edges do not leave.   *)
LEMMA ReachableWithin ==
    ASSUME NEW E, NEW S, IsFiniteSet(E), IsFiniteSet(S),
           NEW C, S \subseteq C, \A e \in E : e[1] \in C => e[2] \in C
    PROVE  Reachable(E, S) \subseteq C
<1>1. Closed(E, C)
    BY DEF Closed, Successors
<1> QED BY <1>1, ReachableIsClosure

LEMMA TargetsFinite ==
    ASSUME NEW E, IsFiniteSet(E), NEW v
    PROVE  IsFiniteSet(Successors(E, {v}))
<1>1. IsFiniteSet({e \in E : e[1] \in {v}})
    BY FS_Subset
<1> DEFINE A == {e \in E : e[1] \in {v}}
           f == [e \in A |-> e[2]]
<1>2. f \in Surjection(A, {e[2] : e \in A})
    BY DEF Surjection
<1> HIDE DEF f, A
<1>3. IsFiniteSet({e[2] : e \in A})
    BY <1>1, <1>2, FS_Surjection DEF A
<1> QED BY <1>3 DEF A, Successors

(* The cycles that are computed, for documents, are those of the           *)
(* definition the search is compared with.                                 *)
THEOREM CyclesFoundAreCycles ==
    ASSUME NEW E, IsFiniteSet(E)
    PROVE  CyclesFound(E) = Cycles(E)
<1>1. \A v : Reachable(E, Successors(E, {v})) = Beyond(E, v)
    <2> SUFFICES ASSUME NEW v PROVE Reachable(E, Successors(E, {v})) = Beyond(E, v)
        OBVIOUS
    <2> DEFINE S == Successors(E, {v})
               R == Reachable(E, S)
    <2>1. IsFiniteSet(S)
        BY TargetsFinite
    <2>2. S \subseteq Nodes(E) /\ Closed(E, Nodes(E))
        BY DEF Nodes, Closed, Successors
    <2>3. /\ S \subseteq R /\ Closed(E, R)
          /\ \A C : S \subseteq C /\ Closed(E, C) => R \subseteq C
        BY <2>1, ReachableIsClosure
    <2>4. Beyond(E, v) = {w \in Nodes(E) : \A X \in SUBSET Nodes(E) :
                              S \subseteq X /\ Closed(E, X) => w \in X}
        BY DEF Beyond
    <2> HIDE DEF S, R
    <2>5. R \in SUBSET Nodes(E)
        BY <2>2, <2>3
    <2>6. R = Beyond(E, v)
        BY <2>3, <2>4, <2>5
    <2> QED BY <2>6 DEF R, S
<1>2. \A v : CycleOf(E, v) = {w \in Beyond(E, v) : v \in Beyond(E, w)}
    <2> SUFFICES ASSUME NEW v
                 PROVE  CycleOf(E, v) = {w \in Beyond(E, v) : v \in Beyond(E, w)}
        OBVIOUS
    <2>1. CycleOf(E, v) = {w \in Beyond(E, v) : v \in Reachable(E, Successors(E, {w}))}
        BY <1>1 DEF CycleOf
    <2>2. \A w : (v \in Reachable(E, Successors(E, {w}))) = (v \in Beyond(E, w))
        BY <1>1
    <2> QED BY <2>1, <2>2
<1>3. \A v : v \notin {e[1] : e \in E} => CycleOf(E, v) = {}
    <2> SUFFICES ASSUME NEW v, v \notin {e[1] : e \in E} PROVE CycleOf(E, v) = {}
        OBVIOUS
    <2>1. Successors(E, {v}) = {}
        BY DEF Successors
    <2>2. {} \in SUBSET Nodes(E) /\ Closed(E, {}) /\ Successors(E, {v}) \subseteq {}
        BY <2>1 DEF Closed, Successors
    <2>3. Beyond(E, v) = {}
        BY <2>2 DEF Beyond
    <2> QED BY <1>2, <2>3
<1> HIDE DEF CycleOf
<1>4. Cycles(E) = {CycleOf(E, v) : v \in Nodes(E)} \ {{}}
    BY <1>2 DEF Cycles
<1> QED BY <1>3, <1>4 DEF CyclesFound, Nodes

LEMMA JoinsFinite ==
    ASSUME NEW d, WellTyped(d)
    PROVE  IsFiniteSet(Symmetric(Joins(d)))
<1> DEFINE L == {k \in ToSet(d.links) : Enabled(k) /\ Wired(d, k)}
<1> DEFINE f == [l \in L |-> <<DeviceOf(d, l.a), DeviceOf(d, l.b)>>]
<1>1. "links" \in Collections
    BY DEF Collections, Keyed
<1>2. IsFiniteSet(ToSet(d.links)) /\ L \in SUBSET ToSet(d.links)
    BY <1>1, Declarations
<1>3. IsFiniteSet(L)
    BY <1>2, FS_Subset
<1>4. f \in Surjection(L, Joins(d))
    BY DEF Surjection, Joins
<1> HIDE DEF f, L
<1>5. IsFiniteSet(Joins(d))
    BY <1>3, <1>4, FS_Surjection
<1> DEFINE g == [e \in Joins(d) |-> <<e[2], e[1]>>]
<1>6. g \in Surjection(Joins(d), {<<e[2], e[1]>> : e \in Joins(d)})
    BY DEF Surjection
<1> HIDE DEF g
<1>7. IsFiniteSet({<<e[2], e[1]>> : e \in Joins(d)})
    BY <1>5, <1>6, FS_Surjection
<1> QED BY <1>5, <1>7, FS_Union DEF Symmetric

LEMMA CutIsCrossed ==
    ASSUME WellTyped(doc), Flawless(doc),
           NEW S \in SUBSET Ids(doc.devices), S # {}, S # Ids(doc.devices)
    PROVE  \E l \in AliveLinks :
               Cardinality({DeviceOf(doc, l.a), DeviceOf(doc, l.b)} \cap S) = 1
<1> SUFFICES ASSUME \A l \in AliveLinks :
                        Cardinality({DeviceOf(doc, l.a), DeviceOf(doc, l.b)} \cap S) # 1
             PROVE  FALSE
    OBVIOUS
<1> DEFINE E == Symmetric(Joins(doc))
<1> DEFINE nodes == Ids(doc.devices) \cup UNION {{e[1], e[2]} : e \in Joins(doc)}
<1>1. "devices" \in Collections
    BY DEF Collections, Keyed
<1>2. Len(doc.devices) \in Nat /\ DOMAIN doc.devices = 1 .. Len(doc.devices)
    BY <1>1, Declarations
<1>3. Len(doc.devices) > 1
    <2> SUFFICES ASSUME ~ (Len(doc.devices) > 1) PROVE FALSE
        OBVIOUS
    <2>1. \A i, j \in DOMAIN doc.devices : i = j
        BY <1>2
    <2>2. \A a, b \in Ids(doc.devices) : a = b
        BY <2>1 DEF Ids
    <2> QED BY <2>2
<1>4. \A v \in nodes : Reachable(E, {v}) = nodes
    BY <1>3, NotParted DEF Parted
<1>5. PICK v \in S : TRUE
    OBVIOUS
<1>6. ASSUME NEW l \in ToSet(doc.links), Enabled(l), Wired(doc, l)
      PROVE  DeviceOf(doc, l.a) \in S <=> DeviceOf(doc, l.b) \in S
    <2> DEFINE x == DeviceOf(doc, l.a)
    <2> DEFINE y == DeviceOf(doc, l.b)
    <2>1. Cardinality({x, y} \cap S) # 1
        BY <1>6, WiredForwards
    <2> HIDE DEF x, y
    <2>2. \A z : Cardinality({z}) = 1
        BY FS_Singleton
    <2>3. ~ (x \in S /\ y \notin S)
        <3>1. x \in S /\ y \notin S => {x, y} \cap S = {x}
            OBVIOUS
        <3> QED BY <2>1, <2>2, <3>1
    <2>4. ~ (y \in S /\ x \notin S)
        <3>1. y \in S /\ x \notin S => {x, y} \cap S = {y}
            OBVIOUS
        <3> QED BY <2>1, <2>2, <3>1
    <2> QED BY <2>3, <2>4 DEF x, y
<1>7. \A e \in Joins(doc) : e[1] \in S <=> e[2] \in S
    BY <1>6 DEF Joins
<1>8. \A e \in E : e[1] \in S => e[2] \in S
    BY <1>7 DEF Symmetric
<1> HIDE DEF E
<1>9. IsFiniteSet(E) /\ IsFiniteSet({v})
    BY JoinsFinite, FS_Singleton DEF E
<1>10. Reachable(E, {v}) \subseteq S
    BY <1>5, <1>8, <1>9, ReachableWithin
<1>11. v \in nodes
    BY <1>5
<1> QED BY <1>4, <1>10, <1>11

(* Every cut of an eligible topology is crossed by a link that forwards    *)
(* (the partition rule of the topology layer with the state rules).        *)
THEOREM ConnectedHolds == Spec => []Connected
<1>1. ValidationInv => Connected
    BY EligibleIsFlawless, CutIsCrossed DEF Connected
<1> QED BY <1>1, ValidationInvariant, PTL

-----------------------------------------------------------------------------
(* The order of declaration                                                *)

(* What decides between two declarations before their places do.           *)
Sooner(c, s, i, j) ==
    \/ s[i].id[2] < s[j].id[2]
    \/ s[i].id = s[j].id /\ Rank(c, s, i) < Rank(c, s, j)

Named(s, class) == \A x \in ToSet(s) : x.id \in Identity(class)

LEMMA NamesNumbered ==
    ASSUME NEW class, NEW s, Named(s, class), NEW i \in DOMAIN s, NEW j \in DOMAIN s
    PROVE  /\ s[i].id[2] \in Nat /\ s[j].id[2] \in Nat
           /\ s[i].id = s[j].id <=> s[i].id[2] = s[j].id[2]
<1>1. s[i].id \in Identity(class) /\ s[j].id \in Identity(class)
    BY DEF Named, ToSet
<1> QED BY <1>1, NamesOrder

(* Two declarations of which neither comes sooner: one value, where the    *)
(* tie-break holds all that tells them apart.                              *)
LEMMA NeitherSooner ==
    ASSUME NEW c, NEW class, NEW s, NEW n \in Nat, DOMAIN s = 1 .. n, Named(s, class),
           NEW i \in 1 .. n, NEW j \in 1 .. n
    PROVE  \/ Sooner(c, s, i, j) \/ Sooner(c, s, j, i)
           \/ s[i].id = s[j].id /\ TieKey(c, s[i]) = TieKey(c, s[j])
<1>1. Rank(c, s, i) \in Nat /\ Rank(c, s, j) \in Nat
    BY RankNumbers
<1>2. s[i].id[2] \in Nat /\ s[j].id[2] \in Nat /\ (s[i].id = s[j].id <=> s[i].id[2] = s[j].id[2])
    BY NamesNumbered
<1>3. s[i].id = s[j].id /\ Rank(c, s, i) = Rank(c, s, j) => TieKey(c, s[i]) = TieKey(c, s[j])
    BY RankNumbers
<1> QED BY <1>1, <1>2, <1>3 DEF Sooner

Mirrors(c, s, t, n) ==
    /\ DOMAIN s = 1 .. n /\ DOMAIN t = 1 .. n
    /\ \A i \in 1 .. n : t[i] = s[n - i + 1] /\ Rank(c, t, i) = Rank(c, s, n - i + 1)

(* t is s read backwards.  The declaration that comes k-th in s does not   *)
(* come sooner than the one that comes k-th in t.                          *)
LEMMA NotSooner ==
    ASSUME NEW c, NEW class, NEW s, NEW t, NEW n \in Nat, Mirrors(c, s, t, n),
           Named(s, class),
           NEW k \in 1 .. n, NEW j \in 1 .. n, NEW m \in 1 .. n,
           Cardinality({i \in DOMAIN s : Precedes(c, s, i, j)}) = k - 1,
           Cardinality({i \in DOMAIN t : Precedes(c, t, i, m)}) = k - 1
    PROVE  ~ Sooner(c, s, j, n - m + 1)
<1> SUFFICES ASSUME Sooner(c, s, j, n - m + 1) PROVE FALSE
    OBVIOUS
<1>0. /\ DOMAIN s = 1 .. n /\ DOMAIN t = 1 .. n
      /\ \A i \in 1 .. n : t[i] = s[n - i + 1] /\ Rank(c, t, i) = Rank(c, s, n - i + 1)
    BY DEF Mirrors
<1> DEFINE A == {i \in 1 .. n : Precedes(c, s, i, j)}
<1> DEFINE B == {i \in 1 .. n : Precedes(c, t, i, m)}
<1>1. \A i \in 1 .. n : n - i + 1 \in 1 .. n
    OBVIOUS
<1>2. /\ \A i \in 1 .. n : Rank(c, s, i) \in Nat
      /\ \A a, b \in 1 .. n :
             s[a].id[2] \in Nat /\ (s[a].id = s[b].id <=> s[a].id[2] = s[b].id[2])
    <2>1. \A a, b \in 1 .. n :
             s[a].id[2] \in Nat /\ (s[a].id = s[b].id <=> s[a].id[2] = s[b].id[2])
        BY <1>0, NamesNumbered
    <2> QED BY <1>0, <2>1, RankNumbers
<1>3. ~ Precedes(c, s, j, j)
    BY <1>2 DEF Precedes
<1>4. ASSUME NEW i \in A \cup {j}
      PROVE  n - i + 1 \in B
    <2>1. i \in 1 .. n /\ (i = j \/ Precedes(c, s, i, j))
        OBVIOUS
    <2> DEFINE r == n - i + 1
    <2> DEFINE q == n - m + 1
    <2>2. r \in 1 .. n /\ q \in 1 .. n /\ n - r + 1 = i
        BY <1>1, <2>1
    <2>3. /\ Rank(c, s, i) \in Nat /\ Rank(c, s, j) \in Nat /\ Rank(c, s, q) \in Nat
          /\ s[i].id[2] \in Nat /\ s[j].id[2] \in Nat /\ s[q].id[2] \in Nat
          /\ s[i].id = s[q].id <=> s[i].id[2] = s[q].id[2]
          /\ s[i].id = s[j].id <=> s[i].id[2] = s[j].id[2]
          /\ s[j].id = s[q].id <=> s[j].id[2] = s[q].id[2]
        BY <1>2, <2>1, <2>2
    <2>4. Sooner(c, s, j, q)
        OBVIOUS
    <2> HIDE DEF q
    <2>5. Sooner(c, s, i, q)
        <3>1. CASE i = j
            BY <2>4, <3>1
        <3>2. CASE s[i].id[2] < s[j].id[2]
            BY <2>3, <2>4, <3>2 DEF Sooner
        <3>3. CASE s[i].id = s[j].id /\ Rank(c, s, i) <= Rank(c, s, j)
            BY <2>3, <2>4, <3>3 DEF Sooner
        <3> QED BY <2>1, <2>3, <3>1, <3>2, <3>3 DEF Precedes
    <2>6. /\ t[r] = s[i] /\ Rank(c, t, r) = Rank(c, s, i)
          /\ t[m] = s[q] /\ Rank(c, t, m) = Rank(c, s, q)
        BY <1>0, <2>2 DEF q
    <2> HIDE DEF r
    <2>7. Precedes(c, t, r, m)
        BY <2>5, <2>6 DEF Sooner, Precedes
    <2> QED BY <2>2, <2>7 DEF r
<1>5. IsFiniteSet(1 .. n)
    BY FS_Interval
<1>6. /\ A \in SUBSET (1 .. n) /\ B \in SUBSET (1 .. n) /\ j \notin A
      /\ Cardinality(A) = k - 1 /\ Cardinality(B) = k - 1
    BY <1>0, <1>3
<1> HIDE DEF A, B
<1>7. IsFiniteSet(A) /\ IsFiniteSet(B)
    BY <1>5, <1>6, FS_Subset
<1>8. IsFiniteSet(A \cup {j}) /\ Cardinality(A \cup {j}) = k
    <2>1. IsFiniteSet(A \cup {j}) /\ Cardinality(A \cup {j}) = Cardinality(A) + 1
        BY <1>6, <1>7, FS_AddElement
    <2> QED BY <1>6, <2>1
<1> DEFINE f == [i \in A \cup {j} |-> n - i + 1]
<1>9. f \in Injection(A \cup {j}, B)
    <2>1. f \in [A \cup {j} -> B]
        BY <1>4
    <2>2. \A a, b \in A \cup {j} : f[a] = f[b] => a = b
        BY <1>6
    <2> HIDE DEF f
    <2> QED BY <2>1, <2>2 DEF Injection, IsInjective
<1> HIDE DEF f
<1>10. Cardinality(A \cup {j}) <= Cardinality(B)
    BY <1>7, <1>8, <1>9, FS_Injection
<1> QED BY <1>6, <1>8, <1>10

LEMMA ReverseSorts ==
    ASSUME NEW c, NEW class, NEW s, s \in Seq(ToSet(s)),
           \A x \in ToSet(s) : x.id \in Identity(class),
           \A i, j \in DOMAIN s :
               s[i].id = s[j].id /\ TieKey(c, s[i]) = TieKey(c, s[j]) => s[i] = s[j]
    PROVE  Sorted(c, Reverse(s)) = Sorted(c, s)
<1> DEFINE n == Len(s)
<1> DEFINE t == Reverse(s)
<1>1. n \in Nat /\ DOMAIN s = 1 .. n
    OBVIOUS
<1>2. DOMAIN t = 1 .. n /\ \A i \in 1 .. n : t[i] = s[n - i + 1]
    <2>1. t = [i \in 1 .. n |-> s[(n - i) + 1]]
        BY DEF Reverse
    <2> HIDE DEF t
    <2> QED BY <2>1
<1> HIDE DEF n, t
<1>3. \A i \in 1 .. n : n - i + 1 \in 1 .. n /\ n - (n - i + 1) + 1 = i
    BY <1>1
<1>4. \A i \in 1 .. n : s[i] = t[n - i + 1]
    BY <1>1, <1>2, <1>3
<1>5. ToSet(t) = ToSet(s)
    BY <1>1, <1>2, <1>3, <1>4 DEF ToSet
<1>6. \A i \in 1 .. n : Rank(c, t, i) = Rank(c, s, n - i + 1)
    BY <1>2, <1>5 DEF Rank
<1>7. \A i \in 1 .. n : Rank(c, s, i) = Rank(c, t, n - i + 1)
    BY <1>3, <1>6
<1>m. Mirrors(c, s, t, n) /\ Mirrors(c, t, s, n) /\ Named(s, class) /\ Named(t, class)
    BY <1>1, <1>2, <1>4, <1>5, <1>6, <1>7 DEF Mirrors, Named
<1>8. ASSUME NEW k \in 1 .. n
      PROVE  s[Nth(c, s, k)] = t[Nth(c, t, k)]
    <2> DEFINE j == Nth(c, s, k)
    <2> DEFINE m == Nth(c, t, k)
    <2>1. j \in 1 .. n /\ Cardinality({i \in DOMAIN s : Precedes(c, s, i, j)}) = k - 1
        BY <1>1, SortedPlaces
    <2>2. m \in 1 .. n /\ Cardinality({i \in DOMAIN t : Precedes(c, t, i, m)}) = k - 1
        BY <1>1, <1>2, <1>5, SortedPlaces
    <2> HIDE DEF j, m
    <2> DEFINE q == n - m + 1
    <2>3. q \in 1 .. n /\ n - q + 1 = m /\ n - j + 1 \in 1 .. n /\ n - (n - j + 1) + 1 = j
        BY <1>1, <1>3, <2>1, <2>2
    <2>4. ~ Sooner(c, s, j, q)
        BY <1>1, <1>m, <2>1, <2>2, NotSooner
    <2>5. ~ Sooner(c, t, m, n - j + 1)
        BY <1>1, <1>m, <2>1, <2>2, NotSooner
    <2>6. /\ t[m] = s[q] /\ Rank(c, t, m) = Rank(c, s, q)
          /\ t[n - j + 1] = s[j] /\ Rank(c, t, n - j + 1) = Rank(c, s, j)
        BY <1>2, <1>4, <1>6, <1>7, <2>1, <2>2
    <2>7. ~ Sooner(c, s, q, j)
        BY <2>5, <2>6 DEF Sooner
    <2> HIDE DEF q
    <2>8. s[j].id = s[q].id /\ TieKey(c, s[j]) = TieKey(c, s[q])
        BY <1>1, <1>m, <2>1, <2>3, <2>4, <2>7, NeitherSooner
    <2>9. s[j] = s[q]
        BY <1>1, <2>1, <2>3, <2>8
    <2> QED BY <2>6, <2>9 DEF j, m
<1>9. Sorted(c, t) = [k \in 1 .. n |-> t[Nth(c, t, k)]]
    BY <1>2 DEF Sorted
<1>10. Sorted(c, s) = [k \in 1 .. n |-> s[Nth(c, s, k)]]
    BY <1>1 DEF Sorted
<1> QED BY <1>8, <1>9, <1>10 DEF t

LEMMA ReversedNormalizes ==
    ASSUME NEW d, WellTyped(d), ~ Tied(d)
    PROVE  Normalize(Reversed(d)) = Normalize(d)
<1>1. DOMAIN Reversed(d) = DOMAIN d
    BY DEF Reversed
<1>2. ASSUME NEW c \in DOMAIN d
      PROVE  (IF c \in Collections THEN Sorted(c, Reversed(d)[c]) ELSE Reversed(d)[c])
             = (IF c \in Collections THEN Sorted(c, d[c]) ELSE d[c])
    <2>1. CASE c \in Collections
        <3>1. d[c] \in Seq(ToSet(d[c])) /\ \A x \in ToSet(d[c]) : x.id \in Identity(ClassIn[c])
            BY <2>1 DEF WellTyped
        <3>2. \A i, j \in DOMAIN d[c] :
                  d[c][i].id = d[c][j].id /\ TieKey(c, d[c][i]) = TieKey(c, d[c][j])
                  => d[c][i] = d[c][j]
            BY <2>1 DEF Tied
        <3>3. Sorted(c, Reverse(d[c])) = Sorted(c, d[c])
            BY <3>1, <3>2, ReverseSorts
        <3> QED BY <1>2, <2>1, <3>3 DEF Reversed
    <2>2. CASE c \notin Collections
        BY <1>2, <2>2 DEF Reversed
    <2> QED BY <2>1, <2>2
<1> QED BY <1>1, <1>2 DEF Normalize

(* The normal form does not depend on the order of declaration, unless two *)
(* declarations agree in all that it compares (src/canonical.cpp).         *)
THEOREM OrderInsensitiveHolds == Spec => []OrderInsensitive
<1>1. ASSUME ValidationInv, stage = "schema", ~ Tied(given)
      PROVE  Normalize(Reversed(given)) = doc
    <2>1. given \in Documents /\ doc = Normalize(given)
        BY <1>1 DEF ValidationInv, VerdictInv
    <2> QED BY <1>1, <2>1, ReversedNormalizes, ValidationAssumption
<1>2. ValidationInv => OrderInsensitive
    BY <1>1 DEF OrderInsensitive
<1> QED BY <1>2, ValidationInvariant, PTL

-----------------------------------------------------------------------------
(* Sums.  A sum of numbers is counted in units, one for each of them.      *)

Units(w, T) == UNION {{x} \X (1 .. w[x]) : x \in T}
Count(w, T) == Cardinality(Units(w, T))

LEMMA UnitsFinite ==
    ASSUME NEW w, NEW T, IsFiniteSet(T), \A x \in T : w[x] \in Nat
    PROVE  IsFiniteSet(Units(w, T)) /\ Count(w, T) \in Nat
<1> DEFINE P == {{x} \X (1 .. w[x]) : x \in T}
<1> DEFINE f == [x \in T |-> {x} \X (1 .. w[x])]
<1>1. f \in Surjection(T, P)
    BY DEF Surjection
<1>2. \A x \in T : IsFiniteSet({x} \X (1 .. w[x]))
    <2> TAKE x \in T
    <2>1. IsFiniteSet({x})
        BY FS_Singleton
    <2>2. w[x] \in Int /\ 1 \in Int
        OBVIOUS
    <2>3. IsFiniteSet(1 .. w[x])
        BY <2>2, FS_Interval
    <2> QED BY <2>1, <2>3, FS_Product
<1>3. \A p \in P : IsFiniteSet(p)
    BY <1>2
<1> HIDE DEF f, P
<1>4. IsFiniteSet(P)
    BY <1>1, FS_Surjection
<1>5. IsFiniteSet(UNION P)
    BY <1>3, <1>4, FS_UNION
<1> QED BY <1>5, FS_CardinalityType DEF Units, Count, P

LEMMA CountNothing ==
    ASSUME NEW w
    PROVE  Count(w, {}) = 0
<1>1. Units(w, {}) = {}
    BY DEF Units
<1> QED BY <1>1, FS_EmptySet DEF Count

LEMMA CountOne ==
    ASSUME NEW w, NEW T, IsFiniteSet(T), \A x \in T : w[x] \in Nat, NEW x \in T
    PROVE  Count(w, T) = w[x] + Count(w, T \ {x})
<1> DEFINE A == {x} \X (1 .. w[x])
<1> DEFINE B == Units(w, T \ {x})
<1>1. IsFiniteSet({x}) /\ Cardinality({x}) = 1
    BY FS_Singleton
<1>2. IsFiniteSet(1 .. w[x]) /\ Cardinality(1 .. w[x]) = w[x]
    BY FS_Interval
<1>3. IsFiniteSet(A) /\ Cardinality(A) = w[x]
    <2>1. Cardinality(A) = 1 * w[x] /\ IsFiniteSet(A)
        BY <1>1, <1>2, FS_Product
    <2> QED BY <2>1
<1>4. IsFiniteSet(B) /\ Cardinality(B) \in Nat
    <2>1. IsFiniteSet(T \ {x})
        BY FS_RemoveElement
    <2> QED BY <2>1, UnitsFinite DEF Count
<1>5. Units(w, T) = A \cup B
    BY DEF Units
<1>6. A \cap B = {}
    BY DEF Units
<1> HIDE DEF A, B
<1>7. Cardinality(A \cap B) = 0
    BY <1>6, FS_EmptySet
<1>8. Cardinality(A \cup B) = Cardinality(A) + Cardinality(B) - Cardinality(A \cap B)
    BY <1>3, <1>4, FS_Union
<1> QED BY <1>3, <1>4, <1>5, <1>7, <1>8 DEF Count, B

(* Smaller sums.                                                           *)
LEMMA CountLess ==
    ASSUME NEW w, NEW v, NEW S, NEW T, IsFiniteSet(T), \A x \in T : v[x] \in Nat,
           Units(w, S) \subseteq Units(v, T)
    PROVE  Count(w, S) <= Count(v, T)
<1>1. IsFiniteSet(Units(v, T))
    BY UnitsFinite
<1> QED BY <1>1, FS_Subset DEF Count

(* One step of the sum of a set, taken from the sums of smaller ones, and  *)
(* of the sum that stays at a largest number.                              *)
Chosen(T) == CHOOSE x \in T : TRUE
Clip(m, n) == IF n > m THEN m ELSE n
Adds(w, g, T) == IF T = {} THEN 0 ELSE w[Chosen(T)] + g[T \ {Chosen(T)}]
Fills(m, w, g, T) == IF T = {} THEN 0 ELSE Clip(m, g[T \ {Chosen(T)}] + w[Chosen(T)])

LEMMA CountAdds ==
    ASSUME NEW S, IsFiniteSet(S), NEW w \in [S -> Nat], NEW T \in SUBSET S, T # {}
    PROVE  /\ Chosen(T) \in T /\ w[Chosen(T)] \in Nat
           /\ T \ {Chosen(T)} \in SUBSET S
           /\ Count(w, T) = w[Chosen(T)] + Count(w, T \ {Chosen(T)})
           /\ Count(w, T \ {Chosen(T)}) \in Nat
<1>1. Chosen(T) \in T
    BY DEF Chosen
<1>2. IsFiniteSet(T) /\ \A x \in T : w[x] \in Nat
    BY FS_Subset
<1>3. IsFiniteSet(T \ {Chosen(T)})
    BY <1>2, FS_Subset
<1>4. Count(w, T \ {Chosen(T)}) \in Nat
    BY <1>2, <1>3, UnitsFinite
<1>5. Count(w, T) = w[Chosen(T)] + Count(w, T \ {Chosen(T)})
    BY <1>1, <1>2, CountOne
<1> QED BY <1>1, <1>4, <1>5

(* No other function than the count has the same steps: the smallest set   *)
(* on which it differed would be a step from one on which it does not.     *)
Adding(w, g, S) == \A T \in SUBSET S : g[T] = Adds(w, g, T)
Filling(m, w, g, S) == \A T \in SUBSET S : g[T] = Fills(m, w, g, T)

LEMMA SumsAgree ==
    ASSUME NEW S, IsFiniteSet(S), NEW w \in [S -> Nat], NEW m \in Nat, NEW g, NEW h,
           \/ Adding(w, g, S) /\ Adding(w, h, S)
           \/ Filling(m, w, g, S) /\ Filling(m, w, h, S)
    PROVE  g[S] = h[S]
<1> DEFINE Sizes == {Cardinality(T) : T \in {U \in SUBSET S : g[U] # h[U]}}
<1>1. \A T \in SUBSET S : IsFiniteSet(T) /\ Cardinality(T) \in Nat
    BY FS_Subset, FS_CardinalityType
<1>2. SUFFICES ASSUME g[S] # h[S] PROVE FALSE
    OBVIOUS
<1>3. Sizes \in SUBSET Nat /\ Sizes # {}
    BY <1>1, <1>2
<1>4. PICK n \in Sizes : \A k \in Sizes : n <= k
    BY <1>3, LeastExists
<1>5. PICK T \in SUBSET S : g[T] # h[T] /\ n = Cardinality(T)
    OBVIOUS
<1>6. ASSUME NEW U \in SUBSET S, Cardinality(U) < Cardinality(T)
      PROVE  g[U] = h[U]
    <2>1. ASSUME g[U] # h[U] PROVE FALSE
        <3>1. Cardinality(U) \in Sizes
            BY <2>1
        <3>2. n <= Cardinality(U)
            BY <1>4, <3>1
        <3> QED BY <1>1, <1>5, <1>6, <3>2
    <2> QED BY <2>1
<1> HIDE DEF Sizes
<1>7. T # {}
    BY <1>5 DEF Adding, Adds, Filling, Fills
<1> DEFINE x == Chosen(T)
<1> DEFINE U == T \ {x}
<1>8. x \in T /\ U \in SUBSET S
    BY <1>7 DEF Chosen
<1>9. Cardinality(U) < Cardinality(T)
    <2>1. IsFiniteSet(T) /\ Cardinality(T) \in Nat
        BY <1>1
    <2>2. Cardinality(U) = Cardinality(T) - 1
        BY <1>8, <2>1, FS_RemoveElement
    <2> HIDE DEF U
    <2> QED BY <2>1, <2>2
<1>10. g[U] = h[U]
    BY <1>6, <1>8, <1>9
<1>11. \/ g[T] = w[x] + g[U] /\ h[T] = w[x] + h[U]
       \/ g[T] = Clip(m, g[U] + w[x]) /\ h[T] = Clip(m, h[U] + w[x])
    BY <1>7 DEF Adding, Adds, Filling, Fills
<1> HIDE DEF x, U
<1> QED BY <1>5, <1>10, <1>11

LEMMA CountIsSum ==
    ASSUME NEW S, IsFiniteSet(S), NEW w \in [S -> Nat], NEW m \in Nat
    PROVE  /\ Adding(w, [T \in SUBSET S |-> Count(w, T)], S)
           /\ Filling(m, w, [T \in SUBSET S |-> Clip(m, Count(w, T))], S)
<1> DEFINE g == [T \in SUBSET S |-> Count(w, T)]
<1> DEFINE h == [T \in SUBSET S |-> Clip(m, Count(w, T))]
<1>1. ASSUME NEW T \in SUBSET S
      PROVE  g[T] = Adds(w, g, T) /\ h[T] = Fills(m, w, h, T)
    <2>1. g[T] = Count(w, T) /\ h[T] = Clip(m, Count(w, T))
        OBVIOUS
    <2>2. CASE T = {}
        <3>1. Count(w, T) = 0 /\ Clip(m, 0) = 0
            BY <2>2, CountNothing DEF Clip
        <3> HIDE DEF g, h
        <3> QED BY <2>1, <2>2, <3>1 DEF Adds, Fills
    <2>3. CASE T # {}
        <3> DEFINE x == Chosen(T)
        <3> DEFINE U == T \ {x}
        <3>1. /\ w[x] \in Nat /\ U \in SUBSET S
              /\ Count(w, T) = w[x] + Count(w, U)
              /\ Count(w, U) \in Nat
            BY <2>3, CountAdds
        <3>2. g[U] = Count(w, U) /\ h[U] = Clip(m, Count(w, U))
            BY <3>1
        <3>3. Adds(w, g, T) = w[x] + g[U] /\ Fills(m, w, h, T) = Clip(m, h[U] + w[x])
            BY <2>3 DEF Adds, Fills
        <3> HIDE DEF g, h, x, U
        <3>4. Clip(m, Clip(m, Count(w, U)) + w[x]) = Clip(m, w[x] + Count(w, U))
            BY <3>1 DEF Clip
        <3> QED BY <2>1, <3>1, <3>2, <3>3, <3>4
    <2> QED BY <2>2, <2>3
<1> HIDE DEF g, h
<1>2. Adding(w, g, S) /\ Filling(m, w, h, S)
    BY <1>1 DEF Adding, Filling
<1> QED BY <1>2 DEF g, h

(* The sums of the model are such counts.                                  *)
LEMMA SumIsCount ==
    ASSUME NEW S, IsFiniteSet(S), \A q \in S : q.reserved \in Nat
    PROVE  FoldSet(LAMBDA q, n : q.reserved + n, 0, S) = Count([q \in S |-> q.reserved], S)
<1> DEFINE Step(g, T) ==
        IF T = {} THEN 0
        ELSE (CHOOSE x \in T : TRUE).reserved + g[T \ {CHOOSE x \in T : TRUE}]
<1> DEFINE w == [q \in S |-> q.reserved]
<1> DEFINE c == [T \in SUBSET S |-> Count(w, T)]
<1> DEFINE fold == CHOOSE g : g = [T \in SUBSET S |-> Step(g, T)]
<1>1. FoldSet(LAMBDA q, n : q.reserved + n, 0, S) = fold[S]
    BY DEF FoldSet, MapThenFoldSet
<1>2. w \in [S -> Nat]
    OBVIOUS
<1>3. \A g : \A T \in SUBSET S : Step(g, T) = Adds(w, g, T)
    BY DEF Adds, Chosen
<1>4. Adding(w, c, S)
    BY <1>2, CountIsSum
<1>5. c = [T \in SUBSET S |-> c[T]] /\ c[S] = Count(w, S)
    OBVIOUS
<1> HIDE DEF w, c, Step
<1>6. c = [T \in SUBSET S |-> Step(c, T)]
    BY <1>3, <1>4, <1>5 DEF Adding
<1>7. fold = [T \in SUBSET S |-> Step(fold, T)]
    BY <1>6
<1> HIDE DEF fold
<1>8. Adding(w, fold, S)
    BY <1>3, <1>7 DEF Adding
<1>9. fold[S] = c[S]
    BY <1>2, <1>4, <1>8, SumsAgree
<1> QED BY <1>1, <1>5, <1>9 DEF w

LEMMA OfferIsCount ==
    ASSUME NEW S, IsFiniteSet(S), \A l \in S : l.capacity \in Nat
    PROVE  FoldSet(LAMBDA l, n : l.capacity + n, 0, S) = Count([l \in S |-> l.capacity], S)
<1> DEFINE Step(g, T) ==
        IF T = {} THEN 0
        ELSE (CHOOSE x \in T : TRUE).capacity + g[T \ {CHOOSE x \in T : TRUE}]
<1> DEFINE w == [l \in S |-> l.capacity]
<1> DEFINE c == [T \in SUBSET S |-> Count(w, T)]
<1> DEFINE fold == CHOOSE g : g = [T \in SUBSET S |-> Step(g, T)]
<1>1. FoldSet(LAMBDA l, n : l.capacity + n, 0, S) = fold[S]
    BY DEF FoldSet, MapThenFoldSet
<1>2. w \in [S -> Nat]
    OBVIOUS
<1>3. \A g : \A T \in SUBSET S : Step(g, T) = Adds(w, g, T)
    BY DEF Adds, Chosen
<1>4. Adding(w, c, S)
    BY <1>2, CountIsSum
<1>5. c = [T \in SUBSET S |-> c[T]] /\ c[S] = Count(w, S)
    OBVIOUS
<1> HIDE DEF w, c, Step
<1>6. c = [T \in SUBSET S |-> Step(c, T)]
    BY <1>3, <1>4, <1>5 DEF Adding
<1>7. fold = [T \in SUBSET S |-> Step(fold, T)]
    BY <1>6
<1> HIDE DEF fold
<1>8. Adding(w, fold, S)
    BY <1>3, <1>7 DEF Adding
<1>9. fold[S] = c[S]
    BY <1>2, <1>4, <1>8, SumsAgree
<1> QED BY <1>1, <1>5, <1>9 DEF w

(* What a scope is known to offer never exceeds what its links add up to.  *)
LEMMA CapacityIsCount ==
    ASSUME NEW d, NEW scope, MaxBps \in Nat, IsFiniteSet(Contributing(d, scope)),
           \A l \in Contributing(d, scope) : l.capacity \in Nat
    PROVE  LET w == [l \in Contributing(d, scope) |-> l.capacity]
           IN  Capacity(d, scope) = Clip(MaxBps, Count(w, Contributing(d, scope)))
<1> DEFINE S == Contributing(d, scope)
<1> DEFINE Step(g, T) ==
        IF T = {} THEN 0
        ELSE IF g[T \ {CHOOSE x \in T : TRUE}] + (CHOOSE x \in T : TRUE).capacity > MaxBps
             THEN MaxBps
             ELSE g[T \ {CHOOSE x \in T : TRUE}] + (CHOOSE x \in T : TRUE).capacity
<1> DEFINE w == [l \in S |-> l.capacity]
<1> DEFINE c == [T \in SUBSET S |-> Clip(MaxBps, Count(w, T))]
<1> DEFINE fold == CHOOSE g : g = [T \in SUBSET S |-> Step(g, T)]
<1>1. Capacity(d, scope) = fold[S]
    BY DEF Capacity, FoldSet, MapThenFoldSet
<1> HIDE DEF S
<1>s. IsFiniteSet(S) /\ \A l \in S : l.capacity \in Nat
    BY DEF S
<1>2. w \in [S -> Nat]
    BY <1>s
<1>3. \A g : \A T \in SUBSET S : Step(g, T) = Fills(MaxBps, w, g, T)
    BY DEF Fills, Chosen, Clip
<1>4. Filling(MaxBps, w, c, S)
    BY <1>2, <1>s, CountIsSum
<1>5. c = [T \in SUBSET S |-> c[T]] /\ c[S] = Clip(MaxBps, Count(w, S))
    OBVIOUS
<1> HIDE DEF w, c, Step
<1>6. c = [T \in SUBSET S |-> Step(c, T)]
    BY <1>3, <1>4, <1>5 DEF Filling
<1>7. fold = [T \in SUBSET S |-> Step(fold, T)]
    BY <1>6
<1> HIDE DEF fold
<1>8. Filling(MaxBps, w, fold, S)
    BY <1>3, <1>7 DEF Filling
<1>9. fold[S] = c[S]
    BY <1>2, <1>4, <1>8, <1>s, SumsAgree
<1> QED BY <1>1, <1>5, <1>9 DEF w, S

(* An end of a link that is not empty is a port that is declared.          *)
LEMMA LinkIsWired ==
    ASSUME NEW d, WellTyped(d), Flawless(d), NEW l \in ToSet(d.links), NoId \notin Ends(l)
    PROVE  Wired(d, l)
<1>1. ASSUME NEW e \in Ends(l)
      PROVE  Has(d.ports, e)
    <2>1. e \in Identity("port") /\ e # NoId
        BY DEF WellTyped, Ends
    <2>2. <<l.id, e>> \in References(d)
        <3> DEFINE targets == Ends(l) \cup l.classes
        <3>1. <<l.id, e>> \in Refs(l, targets)
            BY DEF Refs
        <3>2. Refs(l, targets) \in {Refs(x, Ends(x) \cup x.classes) : x \in ToSet(d.links)}
            OBVIOUS
        <3> HIDE DEF targets
        <3> QED BY <3>1, <3>2 DEF References
    <2>3. Resolves(d, e)
        BY <2>1, <2>2, ReferencesResolve
    <2>4. e[1] = "port"
        BY <2>1 DEF Identity
    <2>5. e # d.domain
        BY <2>4 DEF WellTyped, Identity, NoId
    <2>6. CollectionOf["port"] = "ports"
        BY DEF CollectionOf
    <2> QED BY <2>3, <2>4, <2>5, <2>6 DEF Resolves
<1> QED BY <1>1 DEF Wired

LEMMA LinksAreDeclared ==
    ASSUME NEW d, WellTyped(d), NEW scope
    PROVE  /\ LinksOf(d, scope) \subseteq ToSet(d.links)
           /\ IsFiniteSet(LinksOf(d, scope))
<1>1. "links" \in Collections
    BY DEF Collections, Keyed
<1>2. Len(d.links) \in Nat /\ DOMAIN d.links = 1 .. Len(d.links)
    BY <1>1, Declarations
<1>3. ASSUME NEW id \in {scope} \cap Ids(d.links)
      PROVE  Lookup(d.links, id) \in ToSet(d.links)
    <2>1. Has(d.links, id)
        BY DEF Has, Ids
    <2> QED BY <1>2, <2>1, LookupFinds
<1>4. \A x : LinksAt(d, x) \subseteq ToSet(d.links)
    BY DEF LinksAt
<1>5. LinksOf(d, scope) \subseteq ToSet(d.links)
    BY <1>3, <1>4 DEF LinksOf
<1>6. IsFiniteSet(ToSet(d.links))
    BY <1>2, ToSetFinite
<1> QED BY <1>5, <1>6, FS_Subset

(* The reservations of a scope, the empty ones included, fit into the      *)
(* links of the scope that forward.                                        *)
LEMMA ScopeFits ==
    ASSUME WellTyped(doc), Flawless(doc), NEW s,
           \A l \in LinksOf(doc, s) : NoId \notin Ends(l)
    PROVE  FoldSet(LAMBDA q, n : q.reserved + n, 0,
                   {q \in Policies(doc, "capacity") : q.scope = s})
           <= FoldSet(LAMBDA l, n : l.capacity + n, 0, AliveLinks \cap LinksOf(doc, s))
<1> DEFINE Q == {q \in Policies(doc, "capacity") : q.scope = s}
<1> DEFINE R == {q \in Reservations(doc) : q.scope = s}
<1> DEFINE C == Contributing(doc, s)
<1> DEFINE L == AliveLinks \cap LinksOf(doc, s)
<1> DEFINE inQ == [q \in Q |-> q.reserved]
<1> DEFINE inR == [q \in R |-> q.reserved]
<1> DEFINE inC == [l \in C |-> l.capacity]
<1> DEFINE inL == [l \in L |-> l.capacity]
<1>1. IsFiniteSet(Q) /\ IsFiniteSet(R) /\ R \subseteq Q
    <2>1. "policies" \in Collections
        BY DEF Collections, Keyed
    <2>2. IsFiniteSet(ToSet(doc.policies))
        BY <2>1, Declarations, ToSetFinite
    <2>3. Q \subseteq ToSet(doc.policies) /\ R \subseteq Q
        BY DEF Policies, Reservations
    <2> HIDE DEF Q, R
    <2> QED BY <2>2, <2>3, FS_Subset
<1>2. IsFiniteSet(C) /\ IsFiniteSet(L) /\ C \subseteq L
    <2>1. C \subseteq LinksOf(doc, s) /\ L \subseteq LinksOf(doc, s)
        BY DEF Contributing
    <2>2. ASSUME NEW l \in C
          PROVE  l \in AliveLinks
        <3>1. l \in LinksOf(doc, s) /\ Enabled(l)
            BY <2>2 DEF Contributing
        <3>2. l \in ToSet(doc.links)
            BY <3>1, LinksAreDeclared
        <3>3. Wired(doc, l)
            BY <3>1, <3>2, LinkIsWired
        <3> QED BY <3>1, <3>2, <3>3, WiredForwards
    <2>3. C \subseteq L
        BY <2>1, <2>2
    <2>4. IsFiniteSet(LinksOf(doc, s))
        BY LinksAreDeclared
    <2> HIDE DEF C, L
    <2> QED BY <2>1, <2>3, <2>4, FS_Subset
<1>3. /\ \A q \in Q : q.reserved \in Nat
      /\ \A l \in L : l.capacity \in Nat
    <2>1. L \subseteq ToSet(doc.links)
        BY LinksAreDeclared
    <2>2. \A q \in Q : q \in ToSet(doc.policies) /\ q.kind = "capacity"
        BY DEF Policies
    <2> HIDE DEF Q, L
    <2> QED BY <2>1, <2>2 DEF WellTyped
<1>4. FoldSet(LAMBDA q, n : q.reserved + n, 0, Q) = Count(inQ, Q)
    <2> HIDE DEF Q
    <2> QED BY <1>1, <1>3, SumIsCount
<1>5. FoldSet(LAMBDA l, n : l.capacity + n, 0, L) = Count(inL, L)
    <2> HIDE DEF L
    <2> QED BY <1>2, <1>3, OfferIsCount
<1>6. \A q \in R : q.reserved \in Nat
    BY <1>1, <1>3
<1>7. Reserved(doc, s) = Count(inR, R)
    <2>1. Reserved(doc, s) = FoldSet(LAMBDA p, n : p.reserved + n, 0, R)
        BY DEF Reserved
    <2> HIDE DEF R
    <2> QED BY <1>1, <1>6, <2>1, SumIsCount
<1>8. Capacity(doc, s) = Clip(MaxBps, Count(inC, C))
    <2>1. MaxBps \in Nat
        BY DocumentAssumption
    <2>2. \A l \in C : l.capacity \in Nat
        BY <1>2, <1>3
    <2> QED BY <1>2, <2>1, <2>2, CapacityIsCount
<1>9. Count(inQ, Q) <= Count(inR, R)
    <2>1. Units(inQ, Q) \subseteq Units(inR, R)
        <3>1. ASSUME NEW q \in Q, NEW i \in 1 .. q.reserved
              PROVE  q \in R
            <4>1. q \in ToSet(doc.policies) /\ q.kind = "capacity"
                BY DEF Policies
            <4>2. q.scope # NoId
                BY <4>1, ScopesNamed DEF Scoped
            <4>3. q.reserved > 0
                BY <1>3
            <4> QED BY <4>2, <4>3 DEF Reservations
        <3>2. inQ = [q \in Q |-> q.reserved] /\ inR = [q \in R |-> q.reserved]
            OBVIOUS
        <3> HIDE DEF Q, R, inQ, inR
        <3> QED BY <3>1, <3>2 DEF Units
    <2>2. \A q \in R : inR[q] \in Nat
        BY <1>6
    <2> HIDE DEF Q, R, inQ, inR
    <2> QED BY <1>1, <2>1, <2>2, CountLess
<1>10. Count(inC, C) <= Count(inL, L)
    <2>1. Units(inC, C) \subseteq Units(inL, L)
        <3>1. \A l \in C : l \in L /\ inC[l] = inL[l]
            BY <1>2
        <3> HIDE DEF C, L, inC, inL
        <3> QED BY <3>1 DEF Units
    <2>2. \A l \in L : inL[l] \in Nat
        BY <1>3
    <2> HIDE DEF C, L, inC, inL
    <2> QED BY <1>2, <2>1, <2>2, CountLess
<1>11. Count(inR, R) <= Count(inC, C)
    <2>1. CASE R = {}
        <3>1. Count(inR, R) = 0
            <4> HIDE DEF inR, R
            <4> QED BY <2>1, CountNothing
        <3>2. Count(inC, C) \in Nat
            <4>1. \A l \in C : inC[l] \in Nat
                BY <1>2, <1>3
            <4> HIDE DEF inC, C
            <4> QED BY <1>2, <4>1, UnitsFinite
        <3> QED BY <3>1, <3>2
    <2>2. CASE R # {}
        <3>1. PICK q \in R : TRUE
            BY <2>2
        <3>2. q \in Reservations(doc) /\ q.scope = s
            OBVIOUS
        <3>3. Contributing(doc, s) # {}
            BY <3>2, ReservationsSeeLinks
        <3>4. ~ (Reserved(doc, s) > Capacity(doc, s))
            <4>1. SUFFICES ASSUME Reserved(doc, s) > Capacity(doc, s) PROVE FALSE
                OBVIOUS
            <4>2. CapacityConflicts(doc) # {}
                BY <3>2, <3>3, <4>1 DEF CapacityConflicts
            <4> QED BY <4>2, NoConflict DEF AllConflicts
        <3>5. Count(inR, R) \in Nat /\ Count(inC, C) \in Nat
            <4>1. \A l \in C : inC[l] \in Nat
                BY <1>2, <1>3
            <4>2. \A p \in R : inR[p] \in Nat
                BY <1>6
            <4> HIDE DEF inC, C, inR, R
            <4> QED BY <1>1, <1>2, <4>1, <4>2, UnitsFinite
        <3> HIDE DEF inC, C, inR, R
        <3>6. MaxBps \in Nat
            BY DocumentAssumption
        <3> QED BY <1>7, <1>8, <3>4, <3>5, <3>6 DEF Clip
    <2> QED BY <2>1, <2>2
<1>12. Count(inQ, Q) \in Nat /\ Count(inR, R) \in Nat /\ Count(inC, C) \in Nat /\ Count(inL, L) \in Nat
    <2>1. /\ \A q \in Q : inQ[q] \in Nat
          /\ \A q \in R : inR[q] \in Nat
          /\ \A l \in C : inC[l] \in Nat
          /\ \A l \in L : inL[l] \in Nat
        BY <1>2, <1>3, <1>6
    <2> HIDE DEF Q, R, C, L, inQ, inR, inC, inL
    <2> QED BY <1>1, <1>2, <2>1, UnitsFinite
<1> HIDE DEF Q, R, C, L, inQ, inR, inC, inL
<1>13. Count(inQ, Q) <= Count(inL, L)
    BY <1>9, <1>10, <1>11, <1>12
<1> QED BY <1>4, <1>5, <1>13 DEF Q, L

(* What an eligible document reserves on a scope, its links can carry:     *)
(* rule 4 of conflict detection, the capability layer (a reservation where *)
(* nothing is offered) and the state rules taken together.                 *)
THEOREM WithinCapacityHolds == Spec => []WithinCapacity
<1>1. ValidationInv => WithinCapacity
    BY EligibleIsFlawless, ScopeFits DEF WithinCapacity
<1> QED BY <1>1, ValidationInvariant, PTL

-----------------------------------------------------------------------------
(* The diff                                                                *)

(* The entries of one collection, given by key on both sides.              *)
Edits(c, old, new) ==
    {Removed(c, k, old[k]) : k \in DOMAIN old \ DOMAIN new}
    \cup {Added(c, k, new[k]) : k \in DOMAIN new \ DOMAIN old}
    \cup (UNION {Changes(c, k, old[k], new[k]) : k \in DOMAIN old \cap DOMAIN new})

(* A declaration as the entries E leave it.                                *)
Mended(E, k, x) ==
    LET mine    == {e \in E : Where(e)[2] = k}
        body    == {e \in mine : Change(e) = "added"}
        from    == IF body = {} THEN x ELSE After(CHOOSE e \in body : TRUE)
        said(f) == {e \in mine : Change(e) = "modified" /\ Where(e)[3] = f}
    IN [f \in DOMAIN from |->
           IF said(f) # {} THEN After(CHOOSE e \in said(f) : TRUE)
           ELSE IF f \in {"id", "kind"} THEN x[f]
           ELSE from[f]]

(* What can become of a declaration that stays.                            *)
Staying(c, x, y) ==
    /\ y = [f \in DOMAIN y |-> y[f]]
    /\ IF c = "policies" /\ x.kind # y.kind
       THEN {x.kind, y.kind} \subseteq PolicyKinds
       ELSE DOMAIN x = DOMAIN y

LEMMA ChangesPlace ==
    ASSUME NEW c, NEW k, NEW x, NEW y, NEW e \in Changes(c, k, x, y)
    PROVE  Where(e)[1] = c /\ Where(e)[2] = k
BY DEF Changes, KindChange, FieldChanges, Modified, Entry, Where

LEMMA ChangesParts ==
    ASSUME NEW c, NEW k, NEW x, NEW y, Staying(c, x, y), NEW e \in Changes(c, k, x, y)
    PROVE  /\ Where(e)[1] = c /\ Where(e)[2] = k
           /\ Change(e) \in {"added", "removed"} => Where(e)[3] # "whole"
<1>1. CASE c = "policies" /\ x.kind # y.kind
    <2>1. x.kind \in PolicyKinds /\ y.kind \in PolicyKinds
        BY <1>1 DEF Staying
    <2>2. x.kind # "whole" /\ y.kind # "whole"
        BY <2>1 DEF PolicyKinds
    <2>3. \/ e = Entry(<<c, k, x.kind>>, "removed", x, NoValue)
          \/ e = Entry(<<c, k, y.kind>>, "added", NoValue, y)
          \/ \E f : e = Entry(<<c, k, f>>, "modified", x[f], y[f])
        BY <1>1 DEF Changes, KindChange, Modified
    <2> QED BY <2>2, <2>3 DEF Entry, Where, Change
<1>2. CASE ~ (c = "policies" /\ x.kind # y.kind)
    <2>1. PICK f : e = Entry(<<c, k, f>>, "modified", x[f], y[f])
        BY <1>2 DEF Changes, FieldChanges, Modified
    <2> QED BY <2>1 DEF Entry, Where, Change
<1> QED BY <1>1, <1>2

LEMMA WholeParts ==
    ASSUME NEW c, NEW k, NEW x
    PROVE  /\ Where(Removed(c, k, x)) = <<c, k, "whole">> /\ Change(Removed(c, k, x)) = "removed"
           /\ Where(Added(c, k, x)) = <<c, k, "whole">> /\ Change(Added(c, k, x)) = "added"
           /\ After(Added(c, k, x)) = x
BY DEF Removed, Added, Entry, Where, Change, After

(* The members the entries modify.                                         *)
LEMMA AllModified ==
    ASSUME NEW c, NEW k, NEW x, NEW y, NEW F, NEW e \in Modified(c, k, F, x, y)
    PROVE  Change(e) = "modified"
BY DEF Modified, Entry, Change

OfMember(E, f) == {e \in E : Where(e)[3] = f}
Newest(E) == After(CHOOSE e \in E : TRUE)

LEMMA Said ==
    ASSUME NEW c, NEW k, NEW x, NEW y, NEW F, NEW f
    PROVE  /\ f \in F /\ x[f] # y[f] =>
                  /\ OfMember(Modified(c, k, F, x, y), f) # {}
                  /\ Newest(OfMember(Modified(c, k, F, x, y), f)) = y[f]
           /\ ~ (f \in F /\ x[f] # y[f]) => OfMember(Modified(c, k, F, x, y), f) = {}
<1> DEFINE said == OfMember(Modified(c, k, F, x, y), f)
<1> DEFINE at(g) == Entry(<<c, k, g>>, "modified", x[g], y[g])
<1>1. \A e : e \in Modified(c, k, F, x, y) <=> \E g \in F : x[g] # y[g] /\ e = at(g)
    BY DEF Modified
<1>2. \A g : Where(at(g))[3] = g /\ After(at(g)) = y[g] /\ Change(at(g)) = "modified"
    BY DEF Entry, Where, After, Change
<1> HIDE DEF at
<1>3. \A e \in said : f \in F /\ x[f] # y[f] /\ After(e) = y[f]
    BY <1>1, <1>2 DEF OfMember
<1>4. f \in F /\ x[f] # y[f] => at(f) \in said
    BY <1>1, <1>2 DEF OfMember
<1> HIDE DEF said
<1>5. said # {} => (CHOOSE e \in said : TRUE) \in said
    OBVIOUS
<1>6. /\ f \in F /\ x[f] # y[f] => said # {} /\ Newest(said) = y[f]
      /\ ~ (f \in F /\ x[f] # y[f]) => said = {}
    BY <1>3, <1>4, <1>5 DEF Newest
<1> QED BY <1>6 DEF said

(* The changes of a declaration that stays, applied to it, give the new    *)
(* one.                                                                    *)
LEMMA ChangesMend ==
    ASSUME NEW c, NEW k, NEW x, NEW y, Staying(c, x, y),
           NEW E, {e \in E : Where(e)[2] = k} = Changes(c, k, x, y)
    PROVE  Mended(E, k, x) = y
<1> DEFINE mine == {e \in E : Where(e)[2] = k}
<1> DEFINE body == {e \in mine : Change(e) = "added"}
<1> DEFINE from == IF body = {} THEN x ELSE After(CHOOSE e \in body : TRUE)
<1> DEFINE said(f) == {e \in mine : Change(e) = "modified" /\ Where(e)[3] = f}
<1> DEFINE mend(f) == IF said(f) # {} THEN After(CHOOSE e \in said(f) : TRUE)
                      ELSE IF f \in {"id", "kind"} THEN x[f]
                      ELSE from[f]
<1>1. Mended(E, k, x) = [f \in DOMAIN from |-> mend(f)]
    BY DEF Mended
<1>2. y = [f \in DOMAIN y |-> y[f]]
    BY DEF Staying
<1>3. CASE c = "policies" /\ x.kind # y.kind
    <2> DEFINE gone == Entry(<<c, k, x.kind>>, "removed", x, NoValue)
    <2> DEFINE come == Entry(<<c, k, y.kind>>, "added", NoValue, y)
    <2> DEFINE marks == Modified(c, k, {"id", "kind"}, x, y)
    <2>1. mine = {gone, come} \cup marks
        BY <1>3 DEF Changes, KindChange
    <2>2. Change(gone) = "removed" /\ Change(come) = "added" /\ After(come) = y
        BY DEF Entry, Change, After
    <2>3. \A e \in marks : Change(e) = "modified"
        BY AllModified
    <2>m. \A f :
            /\ f \in {"id", "kind"} /\ x[f] # y[f] =>
                  OfMember(marks, f) # {} /\ Newest(OfMember(marks, f)) = y[f]
            /\ ~ (f \in {"id", "kind"} /\ x[f] # y[f]) => OfMember(marks, f) = {}
        BY Said
    <2> HIDE DEF gone, come, mine, marks
    <2>4. body = {come}
        BY <2>1, <2>2, <2>3
    <2>5. \A f : said(f) = OfMember(marks, f)
        BY <2>1, <2>2, <2>3 DEF OfMember
    <2>6. (CHOOSE e \in body : TRUE) = come
        <3> HIDE DEF body
        <3> QED BY <2>4
    <2>7. from = y
        BY <2>2, <2>4, <2>6
    <2> HIDE DEF from, said
    <2>8. \A f \in DOMAIN y : mend(f) = y[f]
        <3> TAKE f \in DOMAIN y
        <3> DEFINE told == OfMember(marks, f)
        <3>1. /\ f \in {"id", "kind"} /\ x[f] # y[f] => told # {} /\ Newest(told) = y[f]
              /\ ~ (f \in {"id", "kind"} /\ x[f] # y[f]) => told = {}
            BY <2>m
        <3>2. mend(f) = IF said(f) # {} THEN Newest(said(f))
                        ELSE IF f \in {"id", "kind"} THEN x[f]
                        ELSE from[f]
            BY DEF Newest
        <3>4. said(f) = told
            BY <2>5
        <3>3. from[f] = y[f]
            BY <2>7
        <3> HIDE DEF mend, told
        <3> QED BY <3>1, <3>2, <3>3, <3>4
    <2> HIDE DEF mend
    <2> QED BY <1>1, <1>2, <2>7, <2>8
<1>4. CASE ~ (c = "policies" /\ x.kind # y.kind)
    <2> DEFINE marks == Modified(c, k, DOMAIN x, x, y)
    <2>1. mine = marks
        BY <1>4 DEF Changes, FieldChanges
    <2>2. \A e \in marks : Change(e) = "modified"
        BY AllModified
    <2>m. \A f :
            /\ f \in DOMAIN x /\ x[f] # y[f] =>
                  OfMember(marks, f) # {} /\ Newest(OfMember(marks, f)) = y[f]
            /\ ~ (f \in DOMAIN x /\ x[f] # y[f]) => OfMember(marks, f) = {}
        BY Said
    <2> HIDE DEF mine, marks
    <2>3. body = {}
        BY <2>1, <2>2
    <2>4. \A f : said(f) = OfMember(marks, f)
        BY <2>1, <2>2 DEF OfMember
    <2>5. from = x /\ DOMAIN x = DOMAIN y
        BY <1>4, <2>3 DEF Staying
    <2> HIDE DEF from, said
    <2>6. \A f \in DOMAIN y : mend(f) = y[f]
        <3> TAKE f \in DOMAIN y
        <3> DEFINE told == OfMember(marks, f)
        <3>1. /\ f \in DOMAIN x /\ x[f] # y[f] => told # {} /\ Newest(told) = y[f]
              /\ ~ (f \in DOMAIN x /\ x[f] # y[f]) => told = {}
            BY <2>m
        <3>2. mend(f) = IF said(f) # {} THEN Newest(said(f))
                        ELSE IF f \in {"id", "kind"} THEN x[f]
                        ELSE from[f]
            BY DEF Newest
        <3>4. said(f) = told
            BY <2>4
        <3>3. from[f] = x[f] /\ f \in DOMAIN x
            BY <2>5
        <3> HIDE DEF mend, told
        <3> QED BY <3>1, <3>2, <3>3, <3>4
    <2> HIDE DEF mend
    <2> QED BY <1>1, <1>2, <2>5, <2>6
<1> QED BY <1>3, <1>4

(* Applied to the old side, the entries of a collection give the new one.  *)
LEMMA EditsRestore ==
    ASSUME NEW c, NEW old, NEW new,
           \A k \in DOMAIN old \cap DOMAIN new : Staying(c, old[k], new[k])
    PROVE  LET E == Edits(c, old, new)
               whole(change) == {e \in E : Change(e) = change /\ Where(e)[3] = "whole"}
           IN {After(e) : e \in whole("added")}
              \cup {Mended(E, k, old[k]) : k \in DOMAIN old \ {Where(e)[2] : e \in whole("removed")}}
              = {new[k] : k \in DOMAIN new}
<1> DEFINE E == Edits(c, old, new)
<1> DEFINE Gone == DOMAIN old \ DOMAIN new
<1> DEFINE Come == DOMAIN new \ DOMAIN old
<1> DEFINE Stay == DOMAIN old \cap DOMAIN new
<1> DEFINE whole(change) == {e \in E : Change(e) = change /\ Where(e)[3] = "whole"}
<1>1. ASSUME NEW e \in E
      PROVE  \/ \E k \in Gone : e = Removed(c, k, old[k])
             \/ \E k \in Come : e = Added(c, k, new[k])
             \/ \E k \in Stay : e \in Changes(c, k, old[k], new[k])
    BY DEF Edits
<1>2. /\ \A k \in Gone : Removed(c, k, old[k]) \in E
      /\ \A k \in Come : Added(c, k, new[k]) \in E
      /\ \A k \in Stay : \A e \in Changes(c, k, old[k], new[k]) : e \in E
    BY DEF Edits
<1>3. \A k \in Stay : \A e \in Changes(c, k, old[k], new[k]) :
          /\ Where(e)[2] = k
          /\ Change(e) \in {"added", "removed"} => Where(e)[3] # "whole"
    BY ChangesParts
<1> HIDE DEF E
<1>4. whole("added") = {Added(c, k, new[k]) : k \in Come}
    <2>1. ASSUME NEW e \in whole("added")
          PROVE  \E k \in Come : e = Added(c, k, new[k])
        <3>1. e \in E /\ Change(e) = "added" /\ Where(e)[3] = "whole"
            OBVIOUS
        <3>2. \A k : Change(Removed(c, k, old[k])) = "removed"
            BY WholeParts
        <3> HIDE DEF Gone, Come, Stay
        <3> QED BY <1>1, <1>3, <3>1, <3>2
    <2>2. ASSUME NEW k \in Come
          PROVE  Added(c, k, new[k]) \in whole("added")
        <3>1. Where(Added(c, k, new[k])) = <<c, k, "whole">> /\ Change(Added(c, k, new[k])) = "added"
            BY WholeParts
        <3>2. Where(Added(c, k, new[k]))[3] = "whole"
            BY <3>1
        <3>3. Added(c, k, new[k]) \in E
            BY <1>2
        <3> QED BY <3>1, <3>2, <3>3
    <2> HIDE DEF whole, Come
    <2> QED BY <2>1, <2>2
<1>5. {Where(e)[2] : e \in whole("removed")} = Gone
    <2>1. ASSUME NEW e \in whole("removed")
          PROVE  Where(e)[2] \in Gone
        <3>1. e \in E /\ Change(e) = "removed" /\ Where(e)[3] = "whole"
            OBVIOUS
        <3>2. \A k : /\ Change(Added(c, k, new[k])) = "added"
                     /\ Where(Removed(c, k, old[k]))[2] = k
            BY WholeParts
        <3> HIDE DEF Gone, Come, Stay
        <3> QED BY <1>1, <1>3, <3>1, <3>2
    <2>2. ASSUME NEW k \in Gone
          PROVE  \E e \in whole("removed") : Where(e)[2] = k
        <3>1. /\ Where(Removed(c, k, old[k])) = <<c, k, "whole">>
              /\ Change(Removed(c, k, old[k])) = "removed"
            BY WholeParts
        <3>2. Where(Removed(c, k, old[k]))[3] = "whole" /\ Where(Removed(c, k, old[k]))[2] = k
            BY <3>1
        <3>3. Removed(c, k, old[k]) \in E
            BY <1>2
        <3>4. Removed(c, k, old[k]) \in whole("removed")
            BY <3>1, <3>2, <3>3
        <3> QED BY <3>2, <3>4
    <2> HIDE DEF whole, Gone
    <2> QED BY <2>1, <2>2
<1>6. \A k \in Stay : Mended(E, k, old[k]) = new[k]
    <2> TAKE k \in Stay
    <2>1. ASSUME NEW e \in E, Where(e)[2] = k
          PROVE  e \in Changes(c, k, old[k], new[k])
        <3>1. \A j : Where(Added(c, j, new[j]))[2] = j /\ Where(Removed(c, j, old[j]))[2] = j
            BY WholeParts
        <3>2. k \notin Gone /\ k \notin Come
            OBVIOUS
        <3> HIDE DEF Gone, Come, Stay
        <3> QED BY <1>1, <1>3, <2>1, <3>1, <3>2
    <2>2. {e \in E : Where(e)[2] = k} = Changes(c, k, old[k], new[k])
        <3>1. \A e \in Changes(c, k, old[k], new[k]) : e \in E /\ Where(e)[2] = k
            BY <1>2, <1>3
        <3> QED BY <2>1, <3>1
    <2>3. Staying(c, old[k], new[k])
        OBVIOUS
    <2> QED BY <2>2, <2>3, ChangesMend
<1>7. {After(e) : e \in whole("added")} = {new[k] : k \in Come}
    <2>1. \A k : After(Added(c, k, new[k])) = new[k]
        BY WholeParts
    <2> HIDE DEF whole, Come
    <2> QED BY <1>4, <2>1
<1>8. DOMAIN old \ Gone = Stay /\ DOMAIN new = Come \cup Stay
    OBVIOUS
<1> HIDE DEF Gone, Come, Stay
<1>9. {Mended(E, k, old[k]) : k \in DOMAIN old \ {Where(e)[2] : e \in whole("removed")}}
      = {new[k] : k \in Stay}
    BY <1>5, <1>6, <1>8
<1>10. {new[k] : k \in DOMAIN new} = {new[k] : k \in Come} \cup {new[k] : k \in Stay}
    BY <1>8
<1> QED BY <1>7, <1>9, <1>10 DEF E

(* Both sides of a comparison, by key.                                     *)
Side(keyed, s) == IF keyed THEN [k \in Ids(s) |-> Lookup(s, k)] ELSE s

LEMMA SideKeeps ==
    ASSUME NEW s, NEW n \in Nat, DOMAIN s = 1 .. n, NEW keyed \in BOOLEAN
    PROVE  /\ DOMAIN Side(keyed, s) = (IF keyed THEN Ids(s) ELSE DOMAIN s)
           /\ \A k \in DOMAIN Side(keyed, s) :
                  /\ Side(keyed, s)[k] = IF keyed THEN Lookup(s, k) ELSE s[k]
                  /\ Side(keyed, s)[k] \in ToSet(s)
           /\ (keyed => \A i, j \in DOMAIN s : s[i].id = s[j].id => i = j) =>
                  {Side(keyed, s)[k] : k \in DOMAIN Side(keyed, s)} = ToSet(s)
<1>1. \A k \in Ids(s) : Lookup(s, k) \in ToSet(s) /\ Lookup(s, k).id = k
    <2> TAKE k \in Ids(s)
    <2>1. Has(s, k)
        BY DEF Ids, Has
    <2> QED BY <2>1, LookupFinds
<1>2. CASE keyed
    <2>1. Side(keyed, s) = [k \in Ids(s) |-> Lookup(s, k)]
        BY <1>2 DEF Side
    <2>2. ASSUME \A i, j \in DOMAIN s : s[i].id = s[j].id => i = j, NEW x \in ToSet(s)
          PROVE  \E k \in Ids(s) : Lookup(s, k) = x
        <3>1. PICK i \in DOMAIN s : x = s[i]
            BY DEF ToSet
        <3>2. x.id \in Ids(s)
            BY <3>1 DEF Ids
        <3>3. PICK j \in DOMAIN s : Lookup(s, x.id) = s[j]
            BY <1>1, <3>2 DEF ToSet
        <3>4. s[j].id = s[i].id
            BY <1>1, <3>1, <3>2, <3>3
        <3>5. i = j
            BY <2>2, <3>4
        <3> QED BY <3>1, <3>2, <3>3, <3>5
    <2>3. /\ DOMAIN Side(keyed, s) = Ids(s)
          /\ \A k \in Ids(s) : Side(keyed, s)[k] = Lookup(s, k)
        BY <2>1
    <2>4. ASSUME \A i, j \in DOMAIN s : s[i].id = s[j].id => i = j
          PROVE  {Side(keyed, s)[k] : k \in DOMAIN Side(keyed, s)} = ToSet(s)
        <3>1. \A x \in ToSet(s) : \E k \in Ids(s) : Lookup(s, k) = x
            BY <2>2, <2>4
        <3>2. {Side(keyed, s)[k] : k \in Ids(s)} = ToSet(s)
            BY <1>1, <2>3, <3>1
        <3> QED BY <2>3, <3>2
    <2> QED BY <1>1, <1>2, <2>3, <2>4
<1>3. CASE ~ keyed
    <2>1. Side(keyed, s) = s
        BY <1>3 DEF Side
    <2> QED BY <1>3, <2>1 DEF ToSet
<1> QED BY <1>2, <1>3

(* What the diff says of one collection.                                   *)
Among(E, c) == {x \in E : Where(x)[1] = c}

LEMMA EntriesOfCollection ==
    ASSUME NEW d, NEW e, NEW c \in Collections
    PROVE  Among(Diff(d, e), c) = Edits(c, Side(IsKeyed(c, d[c], e[c]), d[c]),
                                           Side(IsKeyed(c, d[c], e[c]), e[c]))
<1> DEFINE Of(b) == IF IsKeyed(b, d[b], e[b]) THEN KeyedDiff(b, d[b], e[b])
                                              ELSE PositionalDiff(b, d[b], e[b])
<1> DEFINE Rest == {Entry(<<"document", NoId, f>>, "modified", d[f], e[f]) :
                       f \in {g \in DOMAIN d \ Collections : d[g] # e[g]}}
<1>1. Diff(d, e) = (UNION {Of(b) : b \in Collections}) \cup Rest
    BY DEF Diff
<1>2. \A b : Of(b) = Edits(b, Side(IsKeyed(b, d[b], e[b]), d[b]), Side(IsKeyed(b, d[b], e[b]), e[b]))
    <2> TAKE b
    <2>1. CASE IsKeyed(b, d[b], e[b])
        BY <2>1 DEF KeyedDiff, Edits, Side
    <2>2. CASE ~ IsKeyed(b, d[b], e[b])
        BY <2>2 DEF PositionalDiff, Edits, Side
    <2> QED BY <2>1, <2>2
<1>3. \A b, old, new : \A x \in Edits(b, old, new) : Where(x)[1] = b
    <2> TAKE b, old, new
    <2> TAKE x \in Edits(b, old, new)
    <2>1. \/ \E k \in DOMAIN old : x = Removed(b, k, old[k])
          \/ \E k \in DOMAIN new : x = Added(b, k, new[k])
          \/ \E k \in DOMAIN old : x \in Changes(b, k, old[k], new[k])
        BY DEF Edits
    <2>2. \A k : /\ Where(Removed(b, k, old[k]))[1] = b
                 /\ Where(Added(b, k, new[k]))[1] = b
        BY WholeParts
    <2> QED BY <2>1, <2>2, ChangesPlace
<1>4. \A x \in Rest : Where(x)[1] = "document"
    BY DEF Entry, Where
<1>5. c # "document"
    BY DEF Collections, Keyed
<1> HIDE DEF Of, Rest
<1> QED BY <1>1, <1>2, <1>3, <1>4, <1>5 DEF Among

(* And of the other members of a document.                                 *)
LEMMA EntriesOfDocument ==
    ASSUME NEW d, NEW e, NEW x
    PROVE  x \in Diff(d, e) /\ Where(x)[1] = "document" <=>
           \E f \in DOMAIN d \ Collections :
               d[f] # e[f] /\ x = Entry(<<"document", NoId, f>>, "modified", d[f], e[f])
<1> DEFINE Mine == {Entry(<<"document", NoId, f>>, "modified", d[f], e[f]) :
                       f \in {g \in DOMAIN d \ Collections : d[g] # e[g]}}
<1> DEFINE Of(b) == IF IsKeyed(b, d[b], e[b]) THEN KeyedDiff(b, d[b], e[b])
                                              ELSE PositionalDiff(b, d[b], e[b])
<1>1. Diff(d, e) = (UNION {Of(b) : b \in Collections}) \cup Mine
    BY DEF Diff
<1>2. ASSUME NEW b \in Collections, x \in Of(b)
      PROVE  Where(x)[1] # "document"
    <2>1. x \in Diff(d, e)
        BY <1>1, <1>2
    <2>2. CASE IsKeyed(b, d[b], e[b])
        <3>1. \/ \E k : x = Removed(b, k, Lookup(d[b], k))
              \/ \E k : x = Added(b, k, Lookup(e[b], k))
              \/ \E k : x \in Changes(b, k, Lookup(d[b], k), Lookup(e[b], k))
            BY <1>2, <2>2 DEF KeyedDiff
        <3>2. Where(x)[1] = b
            BY <3>1, WholeParts, ChangesPlace
        <3> QED BY <3>2 DEF Collections, Keyed
    <2>3. CASE ~ IsKeyed(b, d[b], e[b])
        <3>1. \/ \E k : x = Removed(b, k, d[b][k])
              \/ \E k : x = Added(b, k, e[b][k])
              \/ \E k : x \in Changes(b, k, d[b][k], e[b][k])
            BY <1>2, <2>3 DEF PositionalDiff
        <3>2. Where(x)[1] = b
            BY <3>1, WholeParts, ChangesPlace
        <3> QED BY <3>2 DEF Collections, Keyed
    <2> QED BY <2>2, <2>3
<1>3. \A y \in Mine : Where(y)[1] = "document"
    BY DEF Entry, Where
<1>4. x \in Mine <=> \E f \in DOMAIN d \ Collections :
               d[f] # e[f] /\ x = Entry(<<"document", NoId, f>>, "modified", d[f], e[f])
    OBVIOUS
<1> HIDE DEF Of, Mine
<1> QED BY <1>1, <1>2, <1>3, <1>4

(* Normalizing keeps the shape of a document.                              *)
LEMMA NormalAlike ==
    ASSUME NEW d, NEW e, WellTyped(e), Alike(d, e)
    PROVE  Alike(d, Normalize(e))
<1> DEFINE n == Normalize(e)
<1>1. \A c \in Collections : ToSet(n[c]) = ToSet(e[c])
    BY NormalDeclarations
<1>2. DOMAIN n = DOMAIN e
    BY DEF Normalize
<1>3. "policies" \in Collections
    BY DEF Collections, Keyed
<1>4. ToSet(n.policies) = ToSet(e.policies)
    BY <1>1, <1>3
<1> HIDE DEF n
<1>5. Alike(d, n)
    BY <1>1, <1>2, <1>4 DEF Alike
<1> QED BY <1>5 DEF n

(* The objects of a document can be counted.                               *)
LEMMA ObjectsNumber ==
    ASSUME NEW d, WellTyped(d)
    PROVE  Objects(d) \in Nat
<1> DEFINE S == Collections
<1> DEFINE Step(g, T) ==
        IF T = {} THEN 0
        ELSE Len(d[CHOOSE x \in T : TRUE]) + g[T \ {CHOOSE x \in T : TRUE}]
<1> DEFINE w == [c \in S |-> Len(d[c])]
<1> DEFINE c == [T \in SUBSET S |-> Count(w, T)]
<1> DEFINE fold == CHOOSE g : g = [T \in SUBSET S |-> Step(g, T)]
<1>1. Objects(d) = fold[S]
    BY DEF Objects, FoldSet, MapThenFoldSet
<1>2. w \in [S -> Nat]
    BY Declarations
<1>f. IsFiniteSet(S)
    <2> DEFINE all == <<"fabrics", "sites", "pods", "racks", "devices", "ports", "links", "classes",
                        "policies", "tenants", "workloads", "intents", "models">>
    <2>1. DOMAIN all = 1 .. 13 /\ S = ToSet(all)
        BY DEF Collections, Keyed, ToSet
    <2> HIDE DEF all, S
    <2> QED BY <2>1, ToSetFinite
<1> HIDE DEF S
<1>3. \A g : \A T \in SUBSET S : Step(g, T) = Adds(w, g, T)
    BY DEF Adds, Chosen
<1>4. Adding(w, c, S)
    BY <1>2, <1>f, CountIsSum
<1>5. c = [T \in SUBSET S |-> c[T]] /\ c[S] = Count(w, S)
    OBVIOUS
<1>w. \A x \in S : w[x] \in Nat
    BY <1>2
<1> HIDE DEF w, c, Step
<1>6. c = [T \in SUBSET S |-> Step(c, T)]
    BY <1>3, <1>4, <1>5 DEF Adding
<1>7. fold = [T \in SUBSET S |-> Step(fold, T)]
    BY <1>6
<1> HIDE DEF fold
<1>8. Adding(w, fold, S)
    BY <1>3, <1>7 DEF Adding
<1>9. fold[S] = c[S]
    BY <1>2, <1>4, <1>8, <1>f, SumsAgree
<1>10. Count(w, S) \in Nat
    BY <1>f, <1>w, UnitsFinite
<1> QED BY <1>1, <1>5, <1>9, <1>10

(* The comparison compares what the layers looked at.                      *)
ChangesInv ==
    /\ stage \notin {"canonicalize", "done"} => Objects(given) > MaxObjects \/ doc = Normalize(given)
    /\ stage = "done" => /\ changes = Diff(Parent, Normalize(given))
                         /\ Objects(given) > MaxObjects \/ doc = Normalize(given)

(* A collection that is matched by identity and repeats none is declared   *)
(* under different identities.                                             *)
LEMMA KeyedOnce ==
    ASSUME NEW d, Duplicates(d) = {}, NEW s, NEW c, IsKeyed(c, s, d[c]),
           NEW i \in DOMAIN d[c], NEW j \in DOMAIN d[c], d[c][i].id = d[c][j].id
    PROVE  i = j
<1> SUFFICES ASSUME i # j PROVE FALSE
    OBVIOUS
<1>1. c \in Keyed /\ d[c][i].id # NoId
    BY DEF IsKeyed, Ids
<1> DEFINE repeated == {d[c][a].id : a \in {b \in DOMAIN d[c] :
        \E k \in DOMAIN d[c] : k # b /\ d[c][k].id = d[c][b].id}}
<1>2. d[c][i].id \in repeated
    OBVIOUS
<1>3. repeated \in {{d[b][a].id : a \in {n \in DOMAIN d[b] :
          \E k \in DOMAIN d[b] : k # n /\ d[b][k].id = d[b][n].id}} : b \in Keyed}
    BY <1>1
<1> HIDE DEF repeated
<1> QED BY <1>1, <1>2, <1>3 DEF Duplicates

LEMMA DiffIsComplete ==
    ASSUME given \in Documents, doc = Normalize(given), changes = Diff(Parent, doc),
           Duplicates(doc) = {}
    PROVE  Reconstructed
<1>1. WellTyped(Parent) /\ WellTyped(doc) /\ Alike(Parent, doc)
    <2>1. WellTyped(Parent) /\ WellTyped(given) /\ Alike(Parent, given)
        BY ValidationAssumption
    <2> QED BY <2>1, NormalWellTyped, NormalAlike
<1>2. ASSUME NEW c \in Collections
      PROVE  Patched(c) = ToSet(doc[c])
    <2> DEFINE K == IsKeyed(c, Parent[c], doc[c])
    <2> DEFINE old == Side(K, Parent[c])
    <2> DEFINE new == Side(K, doc[c])
    <2>0. K \in BOOLEAN
        BY DEF IsKeyed
    <2>1. Entries(c) = Edits(c, old, new)
        <3>1. Among(Diff(Parent, doc), c) = Edits(c, old, new)
            BY EntriesOfCollection
        <3> QED BY <3>1 DEF Entries, Among
    <2>2. /\ DOMAIN old = Keys(c)
          /\ \A k \in DOMAIN old : old[k] = Old(c, k) /\ old[k] \in ToSet(Parent[c])
        <3>1. Len(Parent[c]) \in Nat /\ DOMAIN Parent[c] = 1 .. Len(Parent[c])
            BY <1>1, Declarations
        <3> QED BY <2>0, <3>1, SideKeeps DEF Keys, Old
    <2>3. /\ \A k \in DOMAIN new : new[k] \in ToSet(doc[c])
          /\ {new[k] : k \in DOMAIN new} = ToSet(doc[c])
        <3>1. Len(doc[c]) \in Nat /\ DOMAIN doc[c] = 1 .. Len(doc[c])
            BY <1>1, Declarations
        <3>2. K => \A i, j \in DOMAIN doc[c] : doc[c][i].id = doc[c][j].id => i = j
            <4> SUFFICES ASSUME K, NEW i \in DOMAIN doc[c], NEW j \in DOMAIN doc[c],
                                doc[c][i].id = doc[c][j].id
                         PROVE  i = j
                OBVIOUS
            <4>1. IsKeyed(c, Parent[c], doc[c])
                OBVIOUS
            <4> HIDE DEF K, old, new
            <4> QED BY <4>1, KeyedOnce
        <3> QED BY <2>0, <3>1, <3>2, SideKeeps
    <2> HIDE DEF K, old, new
    <2>4. \A k \in DOMAIN old \cap DOMAIN new : Staying(c, old[k], new[k])
        <3> TAKE k \in DOMAIN old \cap DOMAIN new
        <3>1. old[k] \in ToSet(Parent[c]) /\ new[k] \in ToSet(doc[c])
            BY <2>2, <2>3
        <3> QED BY <1>1, <3>1 DEF Alike, Staying
    <2>5. {After(e) : e \in Whole(c, "added")}
          \cup {Mended(Entries(c), k, old[k]) :
                  k \in DOMAIN old \ {Where(e)[2] : e \in Whole(c, "removed")}}
          = {new[k] : k \in DOMAIN new}
        BY <2>1, <2>4, EditsRestore DEF Whole
    <2>6. \A k \in DOMAIN old : Mended(Entries(c), k, old[k]) = Edited(c, k)
        BY <2>2 DEF Mended, Edited
    <2>7. Patched(c) = {After(e) : e \in Whole(c, "added")}
                       \cup {Mended(Entries(c), k, old[k]) :
                               k \in DOMAIN old \ {Where(e)[2] : e \in Whole(c, "removed")}}
        BY <2>2, <2>6 DEF Patched
    <2> QED BY <2>3, <2>5, <2>7
<1>3. ASSUME NEW f \in DOMAIN doc \ Collections
      PROVE  doc[f] = IF \E e \in Entries("document") : Where(e)[3] = f
                      THEN After(CHOOSE e \in Entries("document") : Where(e)[3] = f)
                      ELSE Parent[f]
    <2> DEFINE E == Entries("document")
    <2> DEFINE At(g) == Entry(<<"document", NoId, g>>, "modified", Parent[g], doc[g])
    <2>1. \A e : e \in E <=> \E g \in DOMAIN Parent \ Collections : Parent[g] # doc[g] /\ e = At(g)
        <3> TAKE e
        <3>1. e \in E <=> e \in Diff(Parent, doc) /\ Where(e)[1] = "document"
            BY DEF Entries
        <3> HIDE DEF E
        <3> QED BY <3>1, EntriesOfDocument
    <2>2. \A g : Where(At(g))[3] = g /\ After(At(g)) = doc[g]
        BY DEF Entry, Where, After
    <2>3. f \in DOMAIN Parent
        BY <1>1 DEF Alike
    <2> HIDE DEF E, At
    <2>4. CASE \E e \in E : Where(e)[3] = f
        <3> DEFINE one == CHOOSE e \in E : Where(e)[3] = f
        <3>1. one \in E /\ Where(one)[3] = f
            BY <2>4
        <3> HIDE DEF one
        <3>2. After(one) = doc[f]
            BY <2>1, <2>2, <3>1
        <3> QED BY <2>4, <3>2 DEF one, E
    <2>5. CASE ~ \E e \in E : Where(e)[3] = f
        <3>1. Parent[f] = doc[f]
            BY <2>1, <2>2, <2>3, <2>5
        <3> QED BY <2>5, <3>1 DEF E
    <2> QED BY <2>4, <2>5
<1> QED BY <1>2, <1>3 DEF Reconstructed

(* What is compared is the head and the normal form the layers looked at.  *)
LEMMA ChangesInvariant == Spec => []ChangesInv
<1>1. Init => ChangesInv
    BY DEF Init, ChangesInv
<1>2. ChangesInv /\ [Next]_vars => ChangesInv'
    <2> SUFFICES ASSUME ChangesInv, [Next]_vars PROVE ChangesInv'
        OBVIOUS
    <2>1. CASE Refuse
        BY <2>1 DEF Refuse, ChangesInv
    <2>2. CASE Canonicalize
        BY <2>2 DEF Canonicalize, ChangesInv
    <2>3. CASE Compare
        BY <2>3 DEF Compare, ChangesInv
    <2>4. CASE UNCHANGED vars
        BY <2>4 DEF vars, ChangesInv
    <2>5. ASSUME NEW layer, NEW found, NEW next,
                 layer \notin {"canonicalize", "done"}, next # "done", Look(layer, found, next)
          PROVE  ChangesInv'
        BY <2>5 DEF Look, ChangesInv
    <2>6. CASE CheckSchema
        BY <2>5, <2>6 DEF CheckSchema
    <2>7. CASE CheckSyntax
        BY <2>5, <2>7 DEF CheckSyntax
    <2>8. CASE CheckReferences
        BY <2>5, <2>8 DEF CheckReferences
    <2>9. CASE CheckCapabilities
        BY <2>5, <2>9 DEF CheckCapabilities
    <2>10. CASE CheckTopology
        BY <2>5, <2>10 DEF CheckTopology
    <2>11. CASE CheckConflicts
        BY <2>5, <2>11 DEF CheckConflicts
    <2>12. CASE CheckLinkStates
        BY <2>5, <2>12 DEF CheckLinkStates
    <2>13. CASE CheckPortStates
        BY <2>5, <2>13 DEF CheckPortStates
    <2>14. CASE CheckPlacements
        BY <2>5, <2>14 DEF CheckPlacements
    <2>15. CASE CheckIntents
        BY <2>5, <2>15 DEF CheckIntents
    <2>16. CASE CheckIsolation
        BY <2>5, <2>16 DEF CheckIsolation
    <2> QED BY <2>1, <2>2, <2>3, <2>4, <2>6, <2>7, <2>8, <2>9, <2>10, <2>11, <2>12, <2>13,
               <2>14, <2>15, <2>16 DEF Next
<1> QED BY <1>1, <1>2, PTL DEF Spec

(* The diff of a validated document, applied to the head, gives it         *)
(* (diff_documents of src/diff.cpp, as validate_proposal of src/runtime.cpp *)
(* calls it).                                                              *)
THEOREM DiffCompleteHolds == Spec => []DiffComplete
<1>1. ValidationInv /\ ChangesInv => DiffComplete
    <2> SUFFICES ASSUME ValidationInv, ChangesInv, Done, Objects(given) <= MaxObjects,
                        Duplicates(doc) = {}
                 PROVE  Reconstructed
        BY DEF DiffComplete
    <2>1. given \in Documents
        BY DEF ValidationInv, VerdictInv
    <2>2. ~ (Objects(given) > MaxObjects)
        <3>1. Objects(given) \in Nat /\ MaxObjects \in Nat
            BY <2>1, ObjectsNumber, ValidationAssumption
        <3> QED BY <3>1
    <2>3. doc = Normalize(given) /\ changes = Diff(Parent, doc)
        BY <2>2 DEF ChangesInv, Done
    <2> QED BY <2>1, <2>3, DiffIsComplete
<1> QED BY <1>1, ValidationInvariant, ChangesInvariant, PTL

(* The diff an operator decides on never leaves out a change of a document *)
(* that can be committed: one with no error repeats no identity.           *)
THEOREM EligibleIsDescribed == Spec => [](Eligible => Reconstructed)
<1>1. ValidationInv /\ ChangesInv => (Eligible => Reconstructed)
    <2> SUFFICES ASSUME ValidationInv, ChangesInv, Eligible
                 PROVE  Reconstructed
        OBVIOUS
    <2>1. given \in Documents /\ doc = Normalize(given) /\ Duplicates(doc) = {}
        BY EligibleIsFlawless, NoDuplicates
    <2>2. changes = Diff(Parent, doc)
        BY <2>1 DEF ChangesInv, Eligible, Done
    <2> QED BY <2>1, <2>2, DiffIsComplete
<1> QED BY <1>1, ValidationInvariant, ChangesInvariant, PTL
=============================================================================
