-------------------------- MODULE AppRegistryProofs --------------------------
(***************************************************************************)
(* TypeOK, LayoutConsistent and IconsMatchApps hold in every reachable     *)
(* state, for any set of manifests, any dock size and any old home.json.   *)
(* LayoutInv is the inductive invariant: the three of them, plus the fact  *)
(* that a scan lists an application once.  It does not speak of hasSaved   *)
(* or of the file, because reconcileLayout() repairs whatever it loads.    *)
(* The lemmas about the list operators of module Orders come first; after  *)
(* the invariants come what a restart brings back, what a reload leaves    *)
(* where it was, and what a drop may move.                                 *)
(***************************************************************************)
EXTENDS AppRegistry, FiniteSetTheorems, FunctionTheorems, WellFoundedInduction, TLAPS

(* Every rank below the size of K is the rank of exactly one member of K,  *)
(* so the CHOOSE in Pick is well defined.                                  *)
LEMMA RankBijective ==
    ASSUME NEW k \in Nat, NEW K \in SUBSET (1 .. k)
    PROVE  /\ IsFiniteSet(K)
           /\ Cardinality(K) \in Nat
           /\ \A i \in K : Rank(K, i) \in 0 .. Cardinality(K) - 1
           /\ \A i, j \in K : Rank(K, i) = Rank(K, j) => i = j
           /\ \A n \in 1 .. Cardinality(K) : \E i \in K : Rank(K, i) = n - 1
<1> DEFINE below(i) == {j \in K : j < i}
<1>1. IsFiniteSet(K) /\ Cardinality(K) \in Nat
  <2>1. IsFiniteSet(1 .. k)
    BY FS_Interval
  <2>2. IsFiniteSet(K)
    BY <2>1, FS_Subset
  <2> QED BY <2>2, FS_CardinalityType
<1>2. \A i \in K : /\ IsFiniteSet(below(i))
                   /\ Cardinality(below(i)) \in Nat
                   /\ Cardinality(below(i)) < Cardinality(K)
  <2> TAKE i \in K
  <2>1. below(i) \in SUBSET K /\ below(i) # K
    BY DEF below
  <2>2. IsFiniteSet(below(i)) /\ Cardinality(below(i)) <= Cardinality(K)
        /\ Cardinality(below(i)) # Cardinality(K)
    BY <1>1, <2>1, FS_Subset
  <2>3. Cardinality(below(i)) \in Nat
    BY <2>2, FS_CardinalityType
  <2> QED BY <1>1, <2>2, <2>3
<1>3. \A i, j \in K : i < j => Cardinality(below(i)) < Cardinality(below(j))
  <2> SUFFICES ASSUME NEW i \in K, NEW j \in K, i < j
               PROVE  Cardinality(below(i)) < Cardinality(below(j))
    OBVIOUS
  <2>1. i \in Int /\ j \in Int /\ K \subseteq Int
    OBVIOUS
  <2>2. /\ \A x \in K : x < i => x < j
        /\ i \in below(j)
        /\ i \notin below(i)
    BY <2>1
  <2>3. below(i) \in SUBSET below(j) /\ below(i) # below(j)
    BY <2>2
  <2>4. /\ Cardinality(below(i)) <= Cardinality(below(j))
        /\ Cardinality(below(i)) # Cardinality(below(j))
    <3> HIDE DEF below
    <3> QED BY <1>2, <2>3, FS_Subset
  <2> QED BY <1>2, <2>4
<1>4. \A i, j \in K : Cardinality(below(i)) = Cardinality(below(j)) => i = j
  <2> SUFFICES ASSUME NEW i \in K, NEW j \in K,
                      Cardinality(below(i)) = Cardinality(below(j)), i # j
               PROVE  FALSE
    OBVIOUS
  <2>1. i < j \/ j < i
    OBVIOUS
  <2> QED BY <1>2, <1>3, <2>1
<1> DEFINE f == [i \in K |-> Cardinality(below(i)) + 1]
<1>5. f \in [K -> 1 .. Cardinality(K)]
  BY <1>1, <1>2
<1>6. f \in Injection(K, 1 .. Cardinality(K))
  <2>1. \A i, j \in K : f[i] = f[j] => i = j
    BY <1>2, <1>4
  <2> QED BY <1>5, <2>1, Fun_IsInj
<1>7. Cardinality(1 .. Cardinality(K)) = Cardinality(K)
      /\ IsFiniteSet(1 .. Cardinality(K))
  BY <1>1, FS_Interval
<1>8. f \in Surjection(K, 1 .. Cardinality(K))
  BY <1>6, <1>7, FS_Injection
<1>9. \A n \in 1 .. Cardinality(K) : \E i \in K : f[i] = n
  <2> HIDE DEF f
  <2> QED BY <1>8, Fun_SurjectionProperties
<1>10. \A n \in 1 .. Cardinality(K) : \E i \in K : Rank(K, i) = n - 1
  <2> TAKE n \in 1 .. Cardinality(K)
  <2>1. PICK i \in K : f[i] = n
    BY <1>9
  <2>2. Cardinality(below(i)) = n - 1
    BY <2>1, <1>2
  <2> QED BY <2>2 DEF Rank
<1>11. \A i \in K : Rank(K, i) = Cardinality(below(i))
  BY DEF Rank
<1> HIDE DEF below, f
<1>12. \A i \in K : Rank(K, i) \in 0 .. Cardinality(K) - 1
  BY <1>1, <1>2, <1>11
<1>13. \A i, j \in K : Rank(K, i) = Rank(K, j) => i = j
  BY <1>4, <1>11
<1> QED BY <1>1, <1>10, <1>12, <1>13

(* Pick(s, K) is a list whose elements are exactly those at K. *)
LEMMA PickProperties ==
    ASSUME NEW S, NEW s \in Seq(S), NEW K \in SUBSET DOMAIN s
    PROVE  /\ Pick(s, K) \in Seq(S)
           /\ Len(Pick(s, K)) = Cardinality(K)
           /\ Items(Pick(s, K)) = {s[i] : i \in K}
<1> DEFINE at(n) == CHOOSE i \in K : Rank(K, i) = n - 1
<1>1. Len(s) \in Nat /\ K \in SUBSET (1 .. Len(s)) /\ \A i \in K : s[i] \in S
  OBVIOUS
<1>2. Cardinality(K) \in Nat
  BY <1>1, RankBijective
<1>3. \A n \in 1 .. Cardinality(K) : at(n) \in K /\ Rank(K, at(n)) = n - 1
  BY <1>1, RankBijective
<1>4. Pick(s, K) = [n \in 1 .. Cardinality(K) |-> s[at(n)]]
  BY DEF Pick
<1>5. Pick(s, K) \in Seq(S) /\ Len(Pick(s, K)) = Cardinality(K)
  BY <1>1, <1>2, <1>3, <1>4
<1>6. \A i \in K : \E n \in 1 .. Cardinality(K) : at(n) = i
  <2> TAKE i \in K
  <2>1. Rank(K, i) \in 0 .. Cardinality(K) - 1
    BY <1>1, RankBijective
  <2>2. Rank(K, i) + 1 \in 1 .. Cardinality(K)
        /\ (Rank(K, i) + 1) - 1 = Rank(K, i)
    BY <1>2, <2>1
  <2>3. Rank(K, at(Rank(K, i) + 1)) = Rank(K, i) /\ at(Rank(K, i) + 1) \in K
    BY <1>3, <2>2
  <2>4. at(Rank(K, i) + 1) = i
    BY <1>1, <2>3, RankBijective
  <2> QED BY <2>2, <2>4
<1>7. Items(Pick(s, K)) = {s[at(n)] : n \in 1 .. Cardinality(K)}
  BY <1>4 DEF Items
<1>8. {s[at(n)] : n \in 1 .. Cardinality(K)} = {s[i] : i \in K}
  <2> HIDE DEF at
  <2> QED BY <1>3, <1>6
<1> QED BY <1>5, <1>7, <1>8

(* Pick(s, K) repeats nothing when the elements at K are distinct. *)
LEMMA PickNoDup ==
    ASSUME NEW S, NEW s \in Seq(S), NEW K \in SUBSET DOMAIN s,
           \A i, j \in K : s[i] = s[j] => i = j
    PROVE  NoDup(Pick(s, K))
<1> DEFINE at(n) == CHOOSE i \in K : Rank(K, i) = n - 1
<1>1. Len(s) \in Nat /\ K \in SUBSET (1 .. Len(s))
  OBVIOUS
<1>2. Cardinality(K) \in Nat
  BY <1>1, RankBijective
<1>3. \A n \in 1 .. Cardinality(K) : at(n) \in K /\ Rank(K, at(n)) = n - 1
  BY <1>1, RankBijective
<1>4. Pick(s, K) = [n \in 1 .. Cardinality(K) |-> s[at(n)]]
  BY DEF Pick
<1> SUFFICES ASSUME NEW m \in 1 .. Cardinality(K), NEW n \in 1 .. Cardinality(K),
                    s[at(m)] = s[at(n)]
             PROVE  m = n
  BY <1>4 DEF NoDup
<1>5. at(m) = at(n)
  BY <1>3
<1>6. m - 1 = n - 1
  BY <1>3, <1>5
<1> QED BY <1>2, <1>6

-----------------------------------------------------------------------------
(* Filters keep the type, select the elements and add no repetition. *)
LEMMA OnlyProperties ==
    ASSUME NEW S, NEW s \in Seq(S), NEW T
    PROVE  /\ Only(s, T) \in Seq(S)
           /\ Items(Only(s, T)) = Items(s) \cap T
           /\ NoDup(s) => NoDup(Only(s, T))
<1> DEFINE K == {i \in DOMAIN s : s[i] \in T}
<1>1. K \in SUBSET DOMAIN s /\ Only(s, T) = Pick(s, K)
  BY DEF Only
<1>2. Only(s, T) \in Seq(S) /\ Items(Only(s, T)) = {s[i] : i \in K}
  BY <1>1, PickProperties
<1>3. {s[i] : i \in K} = Items(s) \cap T
  BY DEF Items
<1>4. ASSUME NoDup(s) PROVE NoDup(Only(s, T))
  <2>1. \A i, j \in K : s[i] = s[j] => i = j
    BY <1>4 DEF NoDup
  <2> HIDE DEF K
  <2> QED BY <1>1, <2>1, PickNoDup
<1> QED BY <1>2, <1>3, <1>4

(* removeAll(): the other elements stay, and none is doubled. *)
LEMMA WithoutProperties ==
    ASSUME NEW S, NEW s \in Seq(S), NEW T
    PROVE  /\ Without(s, T) \in Seq(S)
           /\ Items(Without(s, T)) = Items(s) \ T
           /\ NoDup(s) => NoDup(Without(s, T))
<1> DEFINE K == {i \in DOMAIN s : s[i] \notin T}
<1>1. K \in SUBSET DOMAIN s /\ Without(s, T) = Pick(s, K)
  BY DEF Without
<1>2. Without(s, T) \in Seq(S) /\ Items(Without(s, T)) = {s[i] : i \in K}
  BY <1>1, PickProperties
<1>3. {s[i] : i \in K} = Items(s) \ T
  BY DEF Items
<1>4. ASSUME NoDup(s) PROVE NoDup(Without(s, T))
  <2>1. \A i, j \in K : s[i] = s[j] => i = j
    BY <1>4 DEF NoDup
  <2> HIDE DEF K
  <2> QED BY <1>1, <2>1, PickNoDup
<1> QED BY <1>2, <1>3, <1>4

(* The append-unless-contained loop never repeats an element, whatever the *)
(* list it is given, and misses none of the elements it looks for.         *)
LEMMA FirstOfProperties ==
    ASSUME NEW S, NEW s \in Seq(S), NEW T
    PROVE  /\ FirstOf(s, T) \in Seq(S)
           /\ Items(FirstOf(s, T)) = Items(s) \cap T
           /\ NoDup(FirstOf(s, T))
<1> DEFINE first(i) == \A j \in 1 .. i - 1 : s[j] # s[i]
           K == {i \in DOMAIN s : s[i] \in T /\ first(i)}
<1>1. K \in SUBSET DOMAIN s /\ FirstOf(s, T) = Pick(s, K)
  BY DEF FirstOf
<1>2. FirstOf(s, T) \in Seq(S) /\ Items(FirstOf(s, T)) = {s[i] : i \in K}
  BY <1>1, PickProperties
<1>3. \A i, j \in K : s[i] = s[j] => i = j
  <2> SUFFICES ASSUME NEW i \in K, NEW j \in K, s[i] = s[j], i < j
               PROVE  FALSE
    OBVIOUS
  <2>1. i \in 1 .. j - 1
    OBVIOUS
  <2> QED BY <2>1
<1>4. \A i \in DOMAIN s : s[i] \in T => \E k \in K : s[k] = s[i]
  <2> SUFFICES ASSUME NEW i \in DOMAIN s, s[i] \in T
               PROVE  \E k \in K : s[k] = s[i]
    OBVIOUS
  <2> DEFINE same == {n \in Nat : n \in DOMAIN s /\ s[n] = s[i]}
  <2>1. i \in same /\ same \in SUBSET Nat
    OBVIOUS
  <2>2. PICK k \in same : \A n \in same : ~ (<<n, k>> \in OpToRel(<, Nat))
    BY <2>1, NatLessThanWellFounded, WFMin
  <2>3. \A n \in same : ~ (n < k)
    BY <2>1, <2>2 DEF OpToRel
  <2>4. k \in DOMAIN s /\ s[k] = s[i]
    OBVIOUS
  <2>5. first(k)
    BY <2>3, <2>4
  <2> QED BY <2>4, <2>5
<1>5. {s[i] : i \in K} = Items(s) \cap T
  BY <1>4 DEF Items
<1> HIDE DEF K
<1>6. NoDup(FirstOf(s, T))
  BY <1>1, <1>3, PickNoDup
<1> QED BY <1>2, <1>5, <1>6

(* A truncated list is a prefix within the limit, and the whole list when  *)
(* it already fits.                                                        *)
LEMMA TruncateProperties ==
    ASSUME NEW S, NEW s \in Seq(S), NEW n \in Nat
    PROVE  /\ Truncate(s, n) \in Seq(S)
           /\ Len(Truncate(s, n)) <= n
           /\ Items(Truncate(s, n)) \subseteq Items(s)
           /\ NoDup(s) => NoDup(Truncate(s, n))
           /\ Len(s) <= n => Truncate(s, n) = s
<1> DEFINE m == IF Len(s) < n THEN Len(s) ELSE n
<1>1. Truncate(s, n) = SubSeq(s, 1, m) /\ m \in 0 .. Len(s) /\ m <= n
  BY DEF Truncate
<1>2. /\ SubSeq(s, 1, m) \in Seq(S)
      /\ Len(SubSeq(s, 1, m)) = m
      /\ \A i \in 1 .. m : SubSeq(s, 1, m)[i] = s[i]
  BY <1>1
<1>3. DOMAIN SubSeq(s, 1, m) = 1 .. m
  BY <1>2
<1>4. Len(s) <= n => SubSeq(s, 1, m) = s
  BY <1>1, <1>2
<1>5. 1 .. m \subseteq DOMAIN s
  BY <1>1
<1> HIDE DEF m
<1>6. Items(SubSeq(s, 1, m)) \subseteq Items(s)
  BY <1>2, <1>3, <1>5 DEF Items
<1>7. NoDup(s) => NoDup(SubSeq(s, 1, m))
  BY <1>2, <1>3, <1>5 DEF NoDup
<1> QED BY <1>1, <1>2, <1>4, <1>6, <1>7

(* Concatenating lists joins their elements; it repeats nothing when they  *)
(* are disjoint and repeat nothing themselves.                             *)
LEMMA ConcatItems ==
    ASSUME NEW S, NEW s \in Seq(S), NEW t \in Seq(S)
    PROVE  /\ s \o t \in Seq(S)
           /\ Len(s \o t) = Len(s) + Len(t)
           /\ Items(s \o t) = Items(s) \cup Items(t)
           /\ NoDup(s) /\ NoDup(t) /\ Items(s) \cap Items(t) = {} => NoDup(s \o t)
<1> DEFINE u == s \o t
<1>1. /\ u \in Seq(S)
      /\ Len(u) = Len(s) + Len(t)
      /\ \A i \in 1 .. Len(s) : u[i] = s[i]
      /\ \A i \in 1 .. Len(t) : u[i + Len(s)] = t[i]
  OBVIOUS
<1>2. \A i \in DOMAIN u : \/ i \in DOMAIN s /\ u[i] = s[i]
                          \/ \E k \in DOMAIN t : i = k + Len(s) /\ u[i] = t[k]
  <2> TAKE i \in DOMAIN u
  <2>1. CASE i <= Len(s)
    BY <1>1, <2>1
  <2>2. CASE i > Len(s)
    <3>1. i - Len(s) \in DOMAIN t /\ i = (i - Len(s)) + Len(s)
      BY <1>1, <2>2
    <3> QED BY <1>1, <3>1
  <2> QED BY <1>1, <2>1, <2>2
<1>3. (\A i \in DOMAIN s : i \in DOMAIN u) /\ \A k \in DOMAIN t : k + Len(s) \in DOMAIN u
  BY <1>1
<1>4. Items(u) = Items(s) \cup Items(t)
  <2>1. Items(u) \subseteq Items(s) \cup Items(t)
    BY <1>2 DEF Items
  <2>2. Items(s) \subseteq Items(u)
    BY <1>1, <1>3 DEF Items
  <2>3. Items(t) \subseteq Items(u)
    BY <1>1, <1>3 DEF Items
  <2> QED BY <2>1, <2>2, <2>3
<1>5. ASSUME NoDup(s), NoDup(t), Items(s) \cap Items(t) = {}
      PROVE  NoDup(u)
  <2>1. \A i \in DOMAIN s, k \in DOMAIN t : s[i] # t[k]
    BY <1>5 DEF Items
  <2> HIDE DEF u
  <2> SUFFICES ASSUME NEW i \in DOMAIN u, NEW j \in DOMAIN u, u[i] = u[j]
               PROVE  i = j
    BY DEF NoDup
  <2> QED BY <1>2, <1>5, <2>1 DEF NoDup
<1> QED BY <1>1, <1>4, <1>5

(* An insertion adds exactly the inserted element. *)
LEMMA InsertProperties ==
    ASSUME NEW S, NEW s \in Seq(S), NEW a \in S, NEW index \in 0 .. Len(s)
    PROVE  /\ Insert(s, index, a) \in Seq(S)
           /\ Len(Insert(s, index, a)) = Len(s) + 1
           /\ Items(Insert(s, index, a)) = Items(s) \cup {a}
           /\ NoDup(s) /\ a \notin Items(s) => NoDup(Insert(s, index, a))
<1> DEFINE l == SubSeq(s, 1, index)
           r == SubSeq(s, index + 1, Len(s))
<1>1. /\ l \in Seq(S) /\ Len(l) = index
      /\ \A i \in 1 .. index : l[i] = s[i]
  OBVIOUS
<1>2. /\ r \in Seq(S) /\ Len(r) = Len(s) - index
      /\ \A i \in 1 .. Len(s) - index : r[i] = s[i + index]
  OBVIOUS
<1>3. /\ <<a>> \in Seq(S) /\ Items(<<a>>) = {a} /\ NoDup(<<a>>)
  BY DEF Items, NoDup
<1>4. Insert(s, index, a) = (l \o <<a>>) \o r
  BY DEF Insert
<1>5. Items(l) \cup Items(r) = Items(s)
  <2>1. Items(l) \subseteq Items(s)
    <3>1. \A i \in DOMAIN l : i \in DOMAIN s /\ l[i] = s[i]
      BY <1>1
    <3> QED BY <3>1 DEF Items
  <2>2. Items(r) \subseteq Items(s)
    <3>1. \A i \in DOMAIN r : i + index \in DOMAIN s /\ r[i] = s[i + index]
      BY <1>2
    <3> QED BY <3>1 DEF Items
  <2>3. Items(s) \subseteq Items(l) \cup Items(r)
    <3>1. \A i \in DOMAIN s : \/ i \in DOMAIN l /\ l[i] = s[i]
                              \/ i - index \in DOMAIN r /\ r[i - index] = s[i]
      BY <1>1, <1>2
    <3> HIDE DEF l, r
    <3> QED BY <3>1 DEF Items
  <2> QED BY <2>1, <2>2, <2>3
<1>6. ASSUME NoDup(s) PROVE NoDup(l) /\ NoDup(r) /\ Items(l) \cap Items(r) = {}
  <2>1. NoDup(l)
    BY <1>1, <1>6 DEF NoDup
  <2>2. NoDup(r)
    <3>1. \A i \in DOMAIN r : i \in Int /\ i + index \in DOMAIN s /\ r[i] = s[i + index]
      BY <1>2
    <3> HIDE DEF r
    <3> SUFFICES ASSUME NEW i \in DOMAIN r, NEW j \in DOMAIN r, r[i] = r[j]
                 PROVE  i = j
      BY DEF NoDup
    <3>2. i + index = j + index
      BY <1>6, <3>1 DEF NoDup
    <3> QED BY <3>1, <3>2
  <2>3. \A i \in DOMAIN l, j \in DOMAIN r : l[i] # r[j]
    <3> SUFFICES ASSUME NEW i \in DOMAIN l, NEW j \in DOMAIN r, l[i] = r[j]
                 PROVE  FALSE
      OBVIOUS
    <3>1. i \in 1 .. index /\ j \in 1 .. Len(s) - index
      BY <1>1, <1>2
    <3>2. i \in DOMAIN s /\ j + index \in DOMAIN s /\ i < j + index
      BY <3>1
    <3>3. s[i] = s[j + index]
      BY <1>1, <1>2, <3>1
    <3> QED BY <1>6, <3>2, <3>3 DEF NoDup
  <2> QED BY <2>1, <2>2, <2>3 DEF Items
<1> DEFINE b == <<a>>
           la == l \o b
<1> HIDE DEF l, r, b
<1>7. /\ la \in Seq(S)
      /\ Len(la) = index + 1
      /\ Items(la) = Items(l) \cup {a}
      /\ NoDup(l) /\ a \notin Items(l) => NoDup(la)
  <2>1. b \in Seq(S) /\ Len(b) = 1 /\ Items(b) = {a} /\ NoDup(b)
    BY <1>3 DEF b
  <2>2. Len(la) = index + 1
    BY <1>1, <2>1, ConcatItems
  <2>3. a \notin Items(l) => Items(l) \cap Items(b) = {}
    BY <2>1
  <2> QED BY <1>1, <2>1, <2>2, <2>3, ConcatItems
<1>8. Insert(s, index, a) = la \o r
  BY <1>4 DEF b
<1> HIDE DEF la
<1>9. /\ Insert(s, index, a) \in Seq(S)
      /\ Items(Insert(s, index, a)) = Items(s) \cup {a}
  BY <1>2, <1>5, <1>7, <1>8, ConcatItems
<1>10. Len(Insert(s, index, a)) = Len(s) + 1
  <2>1. Len(la \o r) = Len(la) + Len(r)
    BY <1>2, <1>7, ConcatItems
  <2> QED BY <1>2, <1>7, <1>8, <2>1
<1>11. ASSUME NoDup(s), a \notin Items(s) PROVE NoDup(Insert(s, index, a))
  <2>1. a \notin Items(l) /\ a \notin Items(r)
    BY <1>5, <1>11
  <2>2. NoDup(la) /\ Items(la) \cap Items(r) = {}
    BY <1>6, <1>7, <1>11, <2>1
  <2> QED BY <1>2, <1>6, <1>7, <1>8, <1>11, <2>2, ConcatItems
<1> QED BY <1>9, <1>10, <1>11

(* A list without repetition is as long as its set of elements. *)
LEMMA ItemsCount ==
    ASSUME NEW S, NEW u \in Seq(S), NoDup(u)
    PROVE  IsFiniteSet(Items(u)) /\ Cardinality(Items(u)) = Len(u)
<1>1. u \in [1 .. Len(u) -> Items(u)]
  BY DEF Items
<1>2. u \in Bijection(1 .. Len(u), Items(u))
  <2>1. \A i, j \in 1 .. Len(u) : u[i] = u[j] => i = j
    BY DEF NoDup
  <2>2. \A x \in Items(u) : \E i \in 1 .. Len(u) : u[i] = x
    BY DEF Items
  <2> QED BY <1>1, <2>1, <2>2, Fun_IsBij
<1>3. ExistsBijection(1 .. Len(u), Items(u))
  BY <1>2 DEF ExistsBijection
<1>4. IsFiniteSet(1 .. Len(u)) /\ Cardinality(1 .. Len(u)) = Len(u)
  <2>1. ASSUME NEW n \in Nat
        PROVE  IsFiniteSet(1 .. n) /\ Cardinality(1 .. n) = n
    BY FS_Interval
  <2> QED BY <2>1
<1> QED BY <1>3, <1>4, FS_Bijection

(* Two lists without repetition and with the same elements are equally long. *)
LEMMA SameItemsSameLen ==
    ASSUME NEW S, NEW s \in Seq(S), NEW t \in Seq(S),
           NoDup(s), NoDup(t), Items(s) = Items(t)
    PROVE  Len(s) = Len(t)
BY ItemsCount

(* Removing elements never makes a list longer. *)
LEMMA WithoutShorter ==
    ASSUME NEW S, NEW s \in Seq(S), NEW T
    PROVE  Len(Without(s, T)) <= Len(s)
<1> DEFINE K == {i \in DOMAIN s : s[i] \notin T}
<1>1. K \in SUBSET DOMAIN s /\ Without(s, T) = Pick(s, K)
  BY DEF Without
<1>2. Len(Without(s, T)) = Cardinality(K)
  BY <1>1, PickProperties
<1> HIDE DEF K
<1>3. ASSUME NEW n \in Nat
      PROVE  IsFiniteSet(1 .. n) /\ Cardinality(1 .. n) = n
  BY FS_Interval
<1>4. DOMAIN s = 1 .. Len(s) /\ Len(s) \in Nat
  OBVIOUS
<1>5. Cardinality(K) <= Cardinality(1 .. Len(s))
  BY <1>1, <1>3, <1>4, FS_Subset
<1> QED BY <1>2, <1>3, <1>4, <1>5

-----------------------------------------------------------------------------
(* What every arrangement the registry shows for the scan l satisfies. *)
GoodLayout(h, d, l) ==
    /\ h \in Seq(Apps)
    /\ d \in Seq(Apps)
    /\ Len(d) <= DockLimit
    /\ NoDup(h)
    /\ NoDup(d)
    /\ Items(h) \cap Items(d) = {}
    /\ Items(h) \cup Items(d) \subseteq Items(l)
    /\ HomeApps \cap Items(l) \subseteq Items(h) \cup Items(d)

LayoutInv ==
    /\ TypeOK
    /\ NoDup(apps)
    /\ GoodLayout(homeOrder, dockOrder, apps)

-----------------------------------------------------------------------------
(* A scan is a list of applications, none of them twice. *)
LEMMA ScanGood ==
    ASSUME NEW found
    PROVE  Scan(found) \in Seq(Apps) /\ NoDup(Scan(found))
BY ManifestAssumption, OnlyProperties DEF Scan

(* The default layout is a good one. *)
LEMMA SeedGood ==
    ASSUME NEW l \in Seq(Apps), NoDup(l)
    PROVE  GoodLayout(SeedHome(l), SeedDock(l), l)
<1> DEFINE dock == SeedDock(l)
           docked == Only(l, DockApps)
           wanted == Only(l, HomeApps)
<1>1. /\ docked \in Seq(Apps) /\ NoDup(docked)
      /\ Items(docked) = Items(l) \cap DockApps
      /\ wanted \in Seq(Apps) /\ NoDup(wanted)
      /\ Items(wanted) = Items(l) \cap HomeApps
  BY OnlyProperties
<1> HIDE DEF docked, wanted
<1>2. dock = Truncate(docked, DockLimit) /\ SeedHome(l) = Without(wanted, Items(dock))
  BY DEF SeedDock, SeedHome, docked, wanted
<1> HIDE DEF dock
<1>3. /\ dock \in Seq(Apps) /\ Len(dock) <= DockLimit
      /\ Items(dock) \subseteq Items(docked) /\ NoDup(dock)
  BY <1>1, <1>2, DockLimitAssumption, TruncateProperties
<1>4. /\ SeedHome(l) \in Seq(Apps) /\ NoDup(SeedHome(l))
      /\ Items(SeedHome(l)) = Items(wanted) \ Items(dock)
  BY <1>1, <1>2, WithoutProperties
<1> QED BY <1>1, <1>3, <1>4 DEF GoodLayout, dock

(* reconcileLayout() makes a good layout of any two lists of ids. *)
LEMMA ReconcileGood ==
    ASSUME NEW l \in Seq(Apps), NoDup(l),
           NEW h \in Seq(Apps), NEW d \in Seq(Apps), NEW had \in BOOLEAN
    PROVE  GoodLayout(ReconciledHome(h, d, had, l), ReconciledDock(d, had, l), l)
<1> DEFINE dock == ReconciledDock(d, had, l)
           home == ReconciledHome(h, d, had, l)
<1>1. CASE ~had
  BY <1>1, SeedGood DEF ReconciledHome, ReconciledDock
<1>2. CASE had
  <2> DEFINE cleanDock == CleanOrder(d, l)
             cleanHome == CleanOrder(h, l)
             kept == Without(cleanHome, Items(dock))
             wanted == Only(l, HomeApps)
             new == Without(wanted, Items(kept) \cup Items(dock))
  <2>1. /\ cleanDock \in Seq(Apps) /\ NoDup(cleanDock)
        /\ Items(cleanDock) \subseteq Items(l)
        /\ cleanHome \in Seq(Apps) /\ NoDup(cleanHome)
        /\ Items(cleanHome) \subseteq Items(l)
    BY FirstOfProperties DEF CleanOrder
  <2>2. dock = Truncate(cleanDock, DockLimit) /\ home = kept \o new
    BY <1>2 DEF ReconciledDock, ReconciledHome, AppendNew
  <2>3. /\ wanted \in Seq(Apps) /\ NoDup(wanted)
        /\ Items(wanted) = Items(l) \cap HomeApps
    BY OnlyProperties
  <2> HIDE DEF dock, home, cleanDock, cleanHome, wanted
  <2>4. /\ dock \in Seq(Apps) /\ Len(dock) <= DockLimit
        /\ Items(dock) \subseteq Items(l) /\ NoDup(dock)
    BY <2>1, <2>2, DockLimitAssumption, TruncateProperties
  <2>5. /\ kept \in Seq(Apps) /\ NoDup(kept)
        /\ Items(kept) = Items(cleanHome) \ Items(dock)
    BY <2>1, WithoutProperties
  <2>6. /\ new \in Seq(Apps) /\ NoDup(new)
        /\ Items(new) = (Items(l) \cap HomeApps) \ (Items(kept) \cup Items(dock))
    BY <2>3, WithoutProperties
  <2> HIDE DEF kept, new
  <2>7. Items(kept) \cap Items(new) = {}
    BY <2>6
  <2>8. /\ home \in Seq(Apps) /\ NoDup(home)
        /\ Items(home) = Items(kept) \cup Items(new)
    BY <2>2, <2>5, <2>6, <2>7, ConcatItems
  <2>9. GoodLayout(home, dock, l)
    BY <2>1, <2>4, <2>5, <2>6, <2>8 DEF GoodLayout
  <2> QED BY <2>9 DEF home, dock
<1> QED BY <1>1, <1>2

(* The loaded orders are lists of ids whatever the file holds. *)
LEMMA LoadedType ==
    ASSUME TypeOK, NEW can \in BOOLEAN
    PROVE  /\ LoadedHome(layoutFile, can) \in Seq(Apps)
           /\ LoadedDock(layoutFile, can) \in Seq(Apps)
<1>1. <<>> \in Seq(Apps)
  OBVIOUS
<1>2. CASE can /\ Loadable(layoutFile)
  <2>1. layoutFile.home \in Seq(Apps) /\ layoutFile.dock \in Seq(Apps)
    BY <1>2 DEF TypeOK, Layout, Loadable
  <2> QED BY <1>2, <2>1, FirstOfProperties DEF LoadedHome, LoadedDock
<1> QED BY <1>1, <1>2 DEF LoadedHome, LoadedDock

-----------------------------------------------------------------------------
(* Every operation that ends in Commit keeps LayoutInv if the arrangement  *)
(* it commits is good.                                                     *)
LEMMA CommitKeepsInv ==
    ASSUME LayoutInv, NEW h, NEW d, GoodLayout(h, d, apps), Commit(h, d)
    PROVE  LayoutInv'
<1>1. /\ homeOrder' = h /\ dockOrder' = d /\ running' = running /\ apps' = apps
      /\ h \in Seq(Apps) /\ d \in Seq(Apps) /\ Len(d) <= DockLimit
  BY DEF Commit, GoodLayout
<1>2. hasSaved' \in BOOLEAN /\ saveFailed' \in BOOLEAN
  BY DEF Commit, SaveLayout, LayoutInv, TypeOK
<1>3. layoutFile' \in {NoFile, BadJson} \/ layoutFile' \in Layout
  BY <1>1 DEF Commit, SaveLayout, LayoutInv, TypeOK, Layout
<1>4. TypeOK'
  BY <1>1, <1>2, <1>3 DEF LayoutInv, TypeOK
<1> QED BY <1>1, <1>4 DEF LayoutInv, GoodLayout

(* reload() establishes it from any two lists of ids. *)
LEMMA ReloadKeepsInv ==
    ASSUME LayoutInv, NEW h \in Seq(Apps), NEW d \in Seq(Apps),
           NEW had \in BOOLEAN, NEW found, ReloadFrom(h, d, had, found),
           running' \in BOOLEAN
    PROVE  LayoutInv'
<1> DEFINE l == Scan(found)
           home == ReconciledHome(h, d, had, l)
           dock == ReconciledDock(d, had, l)
<1>1. l \in Seq(Apps) /\ NoDup(l)
  BY ScanGood
<1>2. GoodLayout(home, dock, l)
  BY <1>1, ReconcileGood
<1>3. /\ apps' = l /\ homeOrder' = home /\ dockOrder' = dock
      /\ \/ SaveLayout(home, dock, had)
         \/ hasSaved' = had /\ UNCHANGED <<layoutFile, saveFailed>>
  BY DEF ReloadFrom
<1> HIDE DEF l, home, dock
<1>4. hasSaved' \in BOOLEAN /\ saveFailed' \in BOOLEAN
  BY <1>3 DEF SaveLayout, LayoutInv, TypeOK
<1>5. layoutFile' \in {NoFile, BadJson} \/ layoutFile' \in Layout
  BY <1>2, <1>3 DEF SaveLayout, LayoutInv, TypeOK, Layout, GoodLayout
<1>6. TypeOK'
  BY <1>1, <1>2, <1>3, <1>4, <1>5 DEF TypeOK, GoodLayout
<1> QED BY <1>1, <1>2, <1>3, <1>6 DEF LayoutInv, GoodLayout

(* qBound returns a position of the list. *)
LEMMA BoundInRange ==
    ASSUME NEW index \in Int, NEW hi \in Nat
    PROVE  Bound(index, hi) \in 0 .. hi
BY DEF Bound

(* A reordered list has the elements it had. *)
LEMMA RequestedProperties ==
    ASSUME NEW ids \in Seq(Apps), NEW s \in Seq(Apps), NoDup(s)
    PROVE  /\ Requested(ids, s) \in Seq(Apps)
           /\ NoDup(Requested(ids, s))
           /\ Items(Requested(ids, s)) = Items(s)
           /\ Len(Requested(ids, s)) = Len(s)
<1> DEFINE sent == FirstOf(ids, Items(s))
           rest == Without(s, Items(sent))
<1>1. /\ sent \in Seq(Apps) /\ NoDup(sent)
      /\ Items(sent) = Items(ids) \cap Items(s)
  BY FirstOfProperties
<1> HIDE DEF sent
<1>2. /\ rest \in Seq(Apps) /\ NoDup(rest)
      /\ Items(rest) = Items(s) \ Items(sent)
  BY <1>1, WithoutProperties
<1>3. Requested(ids, s) = sent \o rest
  BY DEF Requested, sent
<1> HIDE DEF rest
<1>4. Items(sent) \cap Items(rest) = {}
  BY <1>2
<1>5. /\ Requested(ids, s) \in Seq(Apps)
      /\ NoDup(Requested(ids, s))
      /\ Items(Requested(ids, s)) = Items(sent) \cup Items(rest)
  BY <1>1, <1>2, <1>3, <1>4, ConcatItems
<1>6. Items(Requested(ids, s)) = Items(s)
  BY <1>1, <1>2, <1>5
<1> QED BY <1>5, <1>6, SameItemsSameLen

(* A new Home order is a permutation of the old one. *)
LEMMA SetHomeOrderKeepsInv ==
    ASSUME LayoutInv, NEW ids \in Requests, SetHomeOrder(ids)
    PROVE  LayoutInv'
<1> DEFINE requested == Requested(ids, homeOrder)
<1>1. homeOrder \in Seq(Apps) /\ NoDup(homeOrder) /\ ids \in Seq(Apps)
  BY InputAssumption DEF LayoutInv, GoodLayout
<1>2. /\ requested \in Seq(Apps) /\ NoDup(requested)
      /\ Items(requested) = Items(homeOrder)
  BY <1>1, RequestedProperties
<1>3. Commit(requested, dockOrder)
  BY DEF SetHomeOrder
<1> HIDE DEF requested
<1>4. GoodLayout(requested, dockOrder, apps)
  BY <1>2 DEF LayoutInv, GoodLayout
<1> QED BY <1>3, <1>4, CommitKeepsInv

(* A new dock order, too; cutting it to the limit removes nothing. *)
LEMMA SetDockOrderKeepsInv ==
    ASSUME LayoutInv, NEW ids \in Requests, SetDockOrder(ids)
    PROVE  LayoutInv'
<1> DEFINE requested == Requested(ids, dockOrder)
<1>1. /\ dockOrder \in Seq(Apps) /\ NoDup(dockOrder) /\ ids \in Seq(Apps)
      /\ Len(dockOrder) <= DockLimit
  BY InputAssumption DEF LayoutInv, GoodLayout
<1>2. /\ requested \in Seq(Apps) /\ NoDup(requested)
      /\ Items(requested) = Items(dockOrder)
      /\ Len(requested) <= DockLimit
  BY <1>1, RequestedProperties
<1>3. Commit(homeOrder, Truncate(requested, DockLimit))
  BY DEF SetDockOrder
<1> HIDE DEF requested
<1>4. Truncate(requested, DockLimit) = requested
  BY <1>2, DockLimitAssumption, TruncateProperties
<1>5. GoodLayout(homeOrder, requested, apps)
  BY <1>2 DEF LayoutInv, GoodLayout
<1> QED BY <1>3, <1>4, <1>5, CommitKeepsInv

(* Moving an icon within the dock keeps its icons. *)
LEMMA ReorderDockKeepsInv ==
    ASSUME LayoutInv, NEW id \in Apps, NEW index \in Indices,
           ReorderDock(id, index)
    PROVE  LayoutInv'
<1> DEFINE rest == Without(dockOrder, {id})
           at == Bound(index, Len(rest))
           dock == Insert(rest, at, id)
<1>1. dockOrder \in Seq(Apps) /\ NoDup(dockOrder)
      /\ id \in Items(dockOrder) /\ Commit(homeOrder, dock)
  BY DEF LayoutInv, GoodLayout, ReorderDock
<1>2. /\ rest \in Seq(Apps) /\ NoDup(rest) /\ Len(rest) \in Nat
      /\ Items(rest) = Items(dockOrder) \ {id}
  BY <1>1, WithoutProperties
<1> HIDE DEF rest
<1>3. at \in 0 .. Len(rest) /\ id \notin Items(rest)
  BY <1>2, InputAssumption, BoundInRange
<1> HIDE DEF at
<1>4. /\ dock \in Seq(Apps) /\ NoDup(dock)
      /\ Items(dock) = Items(rest) \cup {id}
  <2>1. rest \in Seq(Apps) /\ id \in Apps /\ at \in 0 .. Len(rest)
    BY <1>2, <1>3
  <2>2. dock \in Seq(Apps)
    BY <2>1, InsertProperties
  <2>3. Items(dock) = Items(rest) \cup {id}
    BY <2>1, InsertProperties
  <2>4. NoDup(dock)
    BY <1>2, <1>3, <2>1, InsertProperties
  <2> QED BY <2>2, <2>3, <2>4
<1> HIDE DEF dock
<1>5. Items(dock) = Items(dockOrder)
  BY <1>1, <1>2, <1>4
<1>6. Len(dock) = Len(dockOrder)
  BY <1>1, <1>4, <1>5, SameItemsSameLen
<1>7. GoodLayout(homeOrder, dock, apps)
  BY <1>4, <1>5, <1>6 DEF LayoutInv, GoodLayout
<1> QED BY <1>1, <1>7, CommitKeepsInv

(* An icon that goes to the dock leaves Home, and there is room for it. *)
LEMMA DockAppKeepsInv ==
    ASSUME LayoutInv, NEW id \in Apps, NEW index \in Indices,
           DockApp(id, index)
    PROVE  LayoutInv'
<1> DEFINE home == Without(homeOrder, {id})
           at == Bound(index, Len(dockOrder))
           dock == Insert(dockOrder, at, id)
<1>1. /\ id \in Items(apps) /\ id \notin Items(dockOrder)
      /\ Len(dockOrder) < DockLimit /\ Commit(home, dock)
  BY DEF DockApp
<1>2. /\ home \in Seq(Apps) /\ NoDup(home)
      /\ Items(home) = Items(homeOrder) \ {id}
  BY WithoutProperties DEF LayoutInv, GoodLayout
<1>3. /\ dockOrder \in Seq(Apps) /\ NoDup(dockOrder) /\ Len(dockOrder) \in Nat
  BY DEF LayoutInv, GoodLayout
<1>4. at \in 0 .. Len(dockOrder)
  BY <1>3, InputAssumption, BoundInRange
<1> HIDE DEF at
<1>5. /\ dock \in Seq(Apps) /\ NoDup(dock) /\ Len(dock) = Len(dockOrder) + 1
      /\ Items(dock) = Items(dockOrder) \cup {id}
  BY <1>1, <1>3, <1>4, InsertProperties
<1> HIDE DEF home, dock
<1>6. Len(dock) <= DockLimit
  BY <1>1, <1>3, <1>5, DockLimitAssumption
<1>7. GoodLayout(home, dock, apps)
  BY <1>1, <1>2, <1>5, <1>6 DEF LayoutInv, GoodLayout
<1> QED BY <1>1, <1>7, CommitKeepsInv

(* In a full dock the displaced icon goes to Home, and nowhere else. *)
LEMMA SwapIntoDockKeepsInv ==
    ASSUME LayoutInv, NEW id \in Apps, NEW index \in Indices,
           SwapIntoDock(id, index)
    PROVE  LayoutInv'
<1> DEFINE at == Bound(index, Len(dockOrder) - 1) + 1
           old == IndexOf(homeOrder, id)
           rest == Without(homeOrder, {id})
           back == IF old >= 0 THEN Bound(old, Len(rest)) ELSE Len(rest)
           displaced == dockOrder[at]
           home == Insert(rest, back, displaced)
           dock == [dockOrder EXCEPT ![at] = id]
<1>1. /\ id \in Items(apps) /\ id \notin Items(dockOrder)
      /\ Len(dockOrder) >= DockLimit /\ Commit(home, dock)
  BY DEF SwapIntoDock
<1>2. /\ homeOrder \in Seq(Apps) /\ NoDup(homeOrder)
      /\ dockOrder \in Seq(Apps) /\ NoDup(dockOrder)
      /\ Len(dockOrder) <= DockLimit
      /\ Items(homeOrder) \cap Items(dockOrder) = {}
  BY DEF LayoutInv, GoodLayout
<1>3. Len(dockOrder) - 1 \in Nat
  BY <1>1, <1>2, DockLimitAssumption
<1>4. at \in DOMAIN dockOrder
  <2>1. Bound(index, Len(dockOrder) - 1) \in 0 .. Len(dockOrder) - 1
    BY <1>3, InputAssumption, BoundInRange
  <2> QED BY <1>2, <2>1
<1> HIDE DEF at
<1>5. displaced \in Items(dockOrder) /\ displaced \in Apps
  BY <1>2, <1>4 DEF Items
<1>6. /\ rest \in Seq(Apps) /\ NoDup(rest) /\ Len(rest) \in Nat
      /\ Items(rest) = Items(homeOrder) \ {id}
  BY <1>2, WithoutProperties
<1>7. old \in Int
  BY <1>2 DEF IndexOf, Items
<1> HIDE DEF rest, old, displaced
<1>8. back \in 0 .. Len(rest)
  <2>1. Len(rest) \in Nat
    BY <1>6
  <2>2. Bound(old, Len(rest)) \in 0 .. Len(rest)
    BY <1>7, <2>1, BoundInRange
  <2>3. Len(rest) \in 0 .. Len(rest)
    BY <2>1
  <2> QED BY <2>2, <2>3
<1> HIDE DEF back
<1>9. displaced \notin Items(rest)
  BY <1>2, <1>5, <1>6
<1>10. /\ home \in Seq(Apps) /\ NoDup(home)
       /\ Items(home) = (Items(homeOrder) \ {id}) \cup {displaced}
  <2>1. /\ home \in Seq(Apps) /\ NoDup(home)
        /\ Items(home) = Items(rest) \cup {displaced}
    <3>1. rest \in Seq(Apps) /\ displaced \in Apps /\ back \in 0 .. Len(rest)
      BY <1>5, <1>6, <1>8
    <3>2. home \in Seq(Apps)
      BY <3>1, InsertProperties
    <3>3. Items(home) = Items(rest) \cup {displaced}
      BY <3>1, InsertProperties
    <3>4. NoDup(home)
      BY <1>6, <1>9, <3>1, InsertProperties
    <3> QED BY <3>2, <3>3, <3>4
  <2> QED BY <1>6, <2>1
<1>11. dock \in Seq(Apps) /\ Len(dock) = Len(dockOrder)
       /\ DOMAIN dock = DOMAIN dockOrder
       /\ dock[at] = id
       /\ \A i \in DOMAIN dockOrder : i # at => dock[i] = dockOrder[i]
  BY <1>2, <1>4
<1> HIDE DEF home, dock
<1>12. Items(dock) = (Items(dockOrder) \ {displaced}) \cup {id}
  <2>1. \A i \in DOMAIN dockOrder : i # at => dockOrder[i] # displaced
    BY <1>2, <1>4 DEF NoDup, displaced
  <2>2. Items(dock) \subseteq (Items(dockOrder) \ {displaced}) \cup {id}
    BY <1>11, <2>1 DEF Items
  <2>3. (Items(dockOrder) \ {displaced}) \cup {id} \subseteq Items(dock)
    BY <1>4, <1>11 DEF Items, displaced
  <2> QED BY <2>2, <2>3
<1>13. NoDup(dock)
  <2>1. \A i \in DOMAIN dockOrder : dockOrder[i] # id
    BY <1>1 DEF Items
  <2> QED BY <1>2, <1>11, <2>1 DEF NoDup
<1>14. GoodLayout(home, dock, apps)
  BY <1>1, <1>2, <1>5, <1>10, <1>11, <1>12, <1>13 DEF LayoutInv, GoodLayout
<1> QED BY <1>1, <1>14, CommitKeepsInv

(* An icon moved to Home leaves the dock. *)
LEMMA MoveAppToHomeKeepsInv ==
    ASSUME LayoutInv, NEW id \in Apps, NEW index \in Indices,
           MoveAppToHome(id, index)
    PROVE  LayoutInv'
<1> DEFINE rest == Without(homeOrder, {id})
           home == Insert(rest, Bound(index, Len(rest)), id)
           dock == IF id \in Items(homeOrder) THEN dockOrder
                   ELSE Without(dockOrder, {id})
<1>1. id \in Items(apps) /\ Commit(home, dock)
  BY DEF MoveAppToHome
<1>2. /\ homeOrder \in Seq(Apps) /\ NoDup(homeOrder)
      /\ dockOrder \in Seq(Apps) /\ NoDup(dockOrder)
      /\ Len(dockOrder) <= DockLimit
      /\ Items(homeOrder) \cap Items(dockOrder) = {}
  BY DEF LayoutInv, GoodLayout
<1>3. /\ rest \in Seq(Apps) /\ NoDup(rest) /\ Len(rest) \in Nat
      /\ Items(rest) = Items(homeOrder) \ {id}
  BY <1>2, WithoutProperties
<1> HIDE DEF rest
<1>4. Bound(index, Len(rest)) \in 0 .. Len(rest)
  BY <1>3, InputAssumption, BoundInRange
<1>5. /\ home \in Seq(Apps) /\ NoDup(home)
      /\ Items(home) = Items(homeOrder) \cup {id}
  <2>1. id \notin Items(rest)
    BY <1>3
  <2>2. Items(home) = Items(rest) \cup {id}
    BY <1>3, <1>4, InsertProperties
  <2> QED BY <1>3, <1>4, <2>1, <2>2, InsertProperties
<1>6. /\ dock \in Seq(Apps) /\ NoDup(dock)
      /\ Items(dock) = Items(dockOrder) \ {id}
  BY <1>2, WithoutProperties
<1>7. Len(dock) <= DockLimit
  <2>1. Len(Without(dockOrder, {id})) <= Len(dockOrder)
    BY <1>2, WithoutShorter
  <2>2. Len(Without(dockOrder, {id})) \in Nat
    BY <1>2, WithoutProperties
  <2> QED BY <1>2, <2>1, <2>2, DockLimitAssumption
<1> HIDE DEF home, dock
<1>8. GoodLayout(home, dock, apps)
  BY <1>1, <1>5, <1>6, <1>7 DEF LayoutInv, GoodLayout
<1> QED BY <1>1, <1>8, CommitKeepsInv

-----------------------------------------------------------------------------
(* Before the shell starts there are no icons. *)
LEMMA InitLayoutInv == Init => LayoutInv
<1> SUFFICES ASSUME Init PROVE LayoutInv
  OBVIOUS
<1>1. TypeOK
  <2>1. <<>> \in Seq(Apps) /\ Len(<<>>) <= DockLimit
    BY DockLimitAssumption
  <2>2. layoutFile \in {NoFile, BadJson} \/ layoutFile \in Layout
    BY LayoutFileAssumption DEF Init
  <2> QED BY <2>1, <2>2 DEF Init, TypeOK
<1>2. Items(<<>>) = {} /\ NoDup(<<>>)
  BY DEF Items, NoDup
<1> QED BY <1>1, <1>2 DEF Init, TypeOK, LayoutInv, GoodLayout

(* Every operation of the registry keeps the invariant. *)
LEMMA NextLayoutInv == LayoutInv /\ [Next]_vars => LayoutInv'
<1> SUFFICES ASSUME LayoutInv, [Next]_vars PROVE LayoutInv'
  OBVIOUS
<1>1. ASSUME NEW found \in SUBSET Apps, Reload(found) PROVE LayoutInv'
  <2>1. ReloadFrom(homeOrder, dockOrder, hasSaved, found) /\ running' \in BOOLEAN
    BY <1>1 DEF Reload, LayoutInv, TypeOK
  <2>2. /\ homeOrder \in Seq(Apps) /\ dockOrder \in Seq(Apps)
        /\ hasSaved \in BOOLEAN
    BY DEF LayoutInv, TypeOK
  <2> QED BY <2>1, <2>2, ReloadKeepsInv
<1>2. ASSUME NEW found \in SUBSET Apps, NEW can \in BOOLEAN, Start(found, can)
      PROVE  LayoutInv'
  <2> DEFINE h == LoadedHome(layoutFile, can)
             d == LoadedDock(layoutFile, can)
             had == can /\ Loadable(layoutFile)
  <2>1. h \in Seq(Apps) /\ d \in Seq(Apps) /\ had \in BOOLEAN
    BY LoadedType DEF LayoutInv, Loadable
  <2>2. ReloadFrom(h, d, had, found) /\ running' \in BOOLEAN
    BY <1>2 DEF Start
  <2> HIDE DEF h, d, had
  <2> QED BY <2>1, <2>2, ReloadKeepsInv
<1>3. CASE Stop
  <2>1. TypeOK'
    <3>1. <<>> \in Seq(Apps) /\ Len(<<>>) <= DockLimit
      BY DockLimitAssumption
    <3> QED BY <1>3, <3>1 DEF Stop, LayoutInv, TypeOK
  <2>2. Items(<<>>) = {} /\ NoDup(<<>>)
    BY DEF Items, NoDup
  <2> QED BY <1>3, <2>1, <2>2 DEF Stop, TypeOK, LayoutInv, GoodLayout
<1>4. CASE ResetLayout
  <2>1. GoodLayout(SeedHome(apps), SeedDock(apps), apps)
    BY SeedGood DEF LayoutInv, TypeOK
  <2> QED BY <1>4, <2>1, CommitKeepsInv DEF ResetLayout
<1>5. CASE UNCHANGED vars
  BY <1>5 DEF vars, LayoutInv, TypeOK, GoodLayout
<1> QED BY <1>1, <1>2, <1>3, <1>4, <1>5, SetHomeOrderKeepsInv,
       SetDockOrderKeepsInv, ReorderDockKeepsInv, DockAppKeepsInv,
       SwapIntoDockKeepsInv, MoveAppToHomeKeepsInv DEF Next

(* The invariant of the arrangement holds throughout. *)
THEOREM LayoutInvHolds == Spec => []LayoutInv
BY InitLayoutInv, NextLayoutInv, PTL DEF Spec

(* The state of the registry is well typed and the dock never holds more   *)
(* than DockLimit icons, for every set of manifests and every old file.    *)
THEOREM TypeCorrect == Spec => []TypeOK
<1>1. LayoutInv => TypeOK
  BY DEF LayoutInv
<1> QED BY <1>1, LayoutInvHolds, PTL

(* No icon is ever shown twice, on Home, in the dock or in both, although  *)
(* drops, reloads, old files and failed saves mix in any order.            *)
THEOREM NoIconTwice == Spec => []LayoutConsistent
<1>1. LayoutInv => LayoutConsistent
  BY DEF LayoutInv, GoodLayout, LayoutConsistent
<1> QED BY <1>1, LayoutInvHolds, PTL

(* Every Home application found by the last scan has an icon, and every    *)
(* icon an application.                                                    *)
THEOREM IconsAlwaysMatch == Spec => []IconsMatchApps
<1>1. LayoutInv => IconsMatchApps
  BY DEF LayoutInv, GoodLayout, IconsMatchApps, Placed
<1> QED BY <1>1, LayoutInvHolds, PTL

-----------------------------------------------------------------------------
(* All positions picked: the list itself. *)
LEMMA PickAll ==
    ASSUME NEW S, NEW s \in Seq(S), NEW K, K = DOMAIN s
    PROVE  Pick(s, K) = s
<1>1. K = 1 .. Len(s) /\ Len(s) \in Nat
  OBVIOUS
<1>2. Cardinality(K) = Len(s)
  <2>1. \A n \in Nat : Cardinality(1 .. n) = n
    BY FS_Interval
  <2> QED BY <1>1, <2>1
<1>3. \A i \in 1 .. Len(s) : Rank(K, i) = i - 1
  <2> TAKE i \in 1 .. Len(s)
  <2>1. {j \in K : j < i} = 1 .. i - 1
    BY <1>1
  <2>2. Cardinality(1 .. i - 1) = i - 1
    <3>1. i - 1 \in Nat
      OBVIOUS
    <3> QED BY <3>1, FS_Interval
  <2> QED BY <2>1, <2>2 DEF Rank
<1>4. \A n \in 1 .. Len(s) : (CHOOSE i \in K : Rank(K, i) = n - 1) = n
  <2> TAKE n \in 1 .. Len(s)
  <2>1. n \in K /\ Rank(K, n) = n - 1
    BY <1>1, <1>3
  <2>2. \A i \in K : Rank(K, i) = n - 1 => i = n
    BY <1>1, <1>3
  <2> QED BY <2>1, <2>2
<1>5. Pick(s, K) = [n \in 1 .. Len(s) |-> s[n]]
  <2>1. Pick(s, K) = [n \in 1 .. Len(s) |-> s[CHOOSE i \in K : Rank(K, i) = n - 1]]
    BY <1>2 DEF Pick
  <2> QED BY <1>4, <2>1
<1> QED BY <1>5

(* Filters that have nothing to remove leave the list as it is. *)
LEMMA FiltersKeep ==
    ASSUME NEW S, NEW s \in Seq(S), NEW T
    PROVE  /\ Items(s) \subseteq T => Only(s, T) = s
           /\ Items(s) \cap T = {} => Without(s, T) = s
           /\ Items(s) \subseteq T /\ NoDup(s) => FirstOf(s, T) = s
<1>1. \A i \in DOMAIN s : s[i] \in Items(s)
  BY DEF Items
<1>2. ASSUME Items(s) \subseteq T PROVE Only(s, T) = s
  <2>1. {i \in DOMAIN s : s[i] \in T} = DOMAIN s
    BY <1>1, <1>2
  <2> QED BY <2>1, PickAll DEF Only
<1>3. ASSUME Items(s) \cap T = {} PROVE Without(s, T) = s
  <2>1. {i \in DOMAIN s : s[i] \notin T} = DOMAIN s
    BY <1>1, <1>3
  <2> QED BY <2>1, PickAll DEF Without
<1>4. ASSUME Items(s) \subseteq T, NoDup(s) PROVE FirstOf(s, T) = s
  <2> DEFINE K == {i \in DOMAIN s : s[i] \in T /\ \A j \in 1 .. i - 1 : s[j] # s[i]}
  <2>1. \A i \in DOMAIN s : \A j \in 1 .. i - 1 : s[j] # s[i]
    BY <1>4 DEF NoDup
  <2>2. K = DOMAIN s
    BY <1>1, <1>4, <2>1
  <2> HIDE DEF K
  <2>3. Pick(s, K) = s
    BY <2>2, PickAll
  <2> QED BY <2>3 DEF FirstOf, K
<1> QED BY <1>2, <1>3, <1>4

(* reconcileLayout() finds nothing to do on what it has arranged. *)
LEMMA ReconcileIdempotent ==
    ASSUME NEW h, NEW d, NEW l \in Seq(Apps), GoodLayout(h, d, l)
    PROVE  ReconciledHome(h, d, TRUE, l) = h /\ ReconciledDock(d, TRUE, l) = d
<1>1. /\ h \in Seq(Apps) /\ NoDup(h) /\ Items(h) \subseteq Items(l)
      /\ d \in Seq(Apps) /\ NoDup(d) /\ Items(d) \subseteq Items(l)
      /\ Len(d) <= DockLimit /\ Items(h) \cap Items(d) = {}
      /\ HomeApps \cap Items(l) \subseteq Items(h) \cup Items(d)
  BY DEF GoodLayout
<1>2. CleanOrder(h, l) = h /\ CleanOrder(d, l) = d
  BY <1>1, FiltersKeep DEF CleanOrder
<1>3. Truncate(d, DockLimit) = d
  <2>1. DockLimit \in Nat
    BY DockLimitAssumption
  <2> QED BY <1>1, <2>1, TruncateProperties
<1>4. ReconciledDock(d, TRUE, l) = d
  BY <1>2, <1>3 DEF ReconciledDock
<1>5. Without(h, Items(d)) = h
  BY <1>1, FiltersKeep
<1> DEFINE new == Without(Only(l, HomeApps), Items(h) \cup Items(d))
<1>6. new = <<>>
  <2>1. Only(l, HomeApps) \in Seq(Apps) /\ Items(Only(l, HomeApps)) = Items(l) \cap HomeApps
    BY OnlyProperties
  <2>2. /\ new \in Seq(Apps)
        /\ Items(new) = Items(Only(l, HomeApps)) \ (Items(h) \cup Items(d))
    BY <2>1, WithoutProperties
  <2>3. Items(new) = {}
    BY <1>1, <2>1, <2>2
  <2> HIDE DEF new
  <2>4. \A i \in 1 .. Len(new) : new[i] \in Items(new)
    BY <2>2 DEF Items
  <2>5. Len(new) = 0
    BY <2>2, <2>3, <2>4
  <2> QED BY <2>2, <2>5
<1>7. AppendNew(h, d, l) = h
  <2>1. \A s \in Seq(Apps) : s \o <<>> = s
    OBVIOUS
  <2>2. h \o new = h
    BY <1>1, <1>6, <2>1
  <2> QED BY <2>2 DEF AppendNew
<1> QED BY <1>2, <1>4, <1>5, <1>7 DEF ReconciledHome

(* home.json holds the arrangement, unless the last save failed. *)
Saved(f, h, d) ==
    Loadable(f) /\ LoadedHome(f, TRUE) = h /\ LoadedDock(f, TRUE) = d
FileInv == running /\ ~saveFailed => Saved(layoutFile, homeOrder, dockOrder)

(* A layout that was written is what loadLayout() reads. *)
LEMMA WrittenIsRead ==
    ASSUME NEW h \in Seq(Apps), NEW d \in Seq(Apps), NoDup(h), NoDup(d)
    PROVE  Saved([home |-> h, dock |-> d], h, d)
<1> DEFINE f == [home |-> h, dock |-> d]
<1>1. f \in Layout
  BY DEF Layout
<1>2. Loadable(f)
  BY <1>1, LayoutFileAssumption DEF Loadable
<1>3. FirstOf(h, Items(h)) = h /\ FirstOf(d, Items(d)) = d
  BY FiltersKeep
<1> QED BY <1>2, <1>3 DEF Saved, LoadedHome, LoadedDock

(* After a save the file holds the arrangement, or saveFailed is set.      *)
LEMMA SaveKeepsFile ==
    ASSUME LayoutInv', NEW h, NEW d, NEW had,
           SaveLayout(h, d, had), homeOrder' = h, dockOrder' = d
    PROVE  FileInv'
<1>1. h \in Seq(Apps) /\ d \in Seq(Apps) /\ NoDup(h) /\ NoDup(d)
  BY DEF LayoutInv, GoodLayout
<1>2. CASE layoutFile' = [home |-> h, dock |-> d]
  BY <1>1, <1>2, WrittenIsRead DEF FileInv
<1>3. CASE saveFailed' = TRUE
  BY <1>3 DEF FileInv
<1> QED BY <1>2, <1>3 DEF SaveLayout

(* Every operation keeps the file true. *)
LEMMA FileStep == LayoutInv /\ FileInv /\ [Next]_vars => FileInv'
<1> SUFFICES ASSUME LayoutInv, FileInv, [Next]_vars PROVE FileInv'
  OBVIOUS
<1>1. LayoutInv'
  BY NextLayoutInv
<1>2. ASSUME NEW h, NEW d, Commit(h, d) PROVE FileInv'
  BY <1>1, <1>2, SaveKeepsFile DEF Commit
<1>3. ASSUME NEW h, NEW d, NEW had, NEW found, ReloadFrom(h, d, had, found),
             had => \/ running /\ h = homeOrder /\ d = dockOrder
                    \/ Saved(layoutFile, h, d)
      PROVE  FileInv'
  <2>1. CASE SaveLayout(ReconciledHome(h, d, had, Scan(found)),
                        ReconciledDock(d, had, Scan(found)), had)
    BY <1>1, <1>3, <2>1, SaveKeepsFile DEF ReloadFrom
  <2>2. CASE /\ had /\ homeOrder' = h /\ dockOrder' = d
             /\ UNCHANGED <<layoutFile, saveFailed>>
    BY <1>3, <2>2 DEF FileInv, Saved
  <2>3. homeOrder' = ReconciledHome(h, d, had, Scan(found))
        /\ dockOrder' = ReconciledDock(d, had, Scan(found))
    BY <1>3 DEF ReloadFrom
  <2> QED BY <1>3, <2>1, <2>2, <2>3 DEF ReloadFrom
<1>4. ASSUME NEW found \in SUBSET Apps, Reload(found) PROVE FileInv'
  BY <1>3, <1>4 DEF Reload
<1>5. ASSUME NEW found \in SUBSET Apps, NEW can \in BOOLEAN, Start(found, can)
      PROVE  FileInv'
  <2> DEFINE h == LoadedHome(layoutFile, can)
             d == LoadedDock(layoutFile, can)
             had == can /\ Loadable(layoutFile)
  <2>1. had => Saved(layoutFile, h, d)
    BY DEF Saved
  <2>2. ReloadFrom(h, d, had, found)
    BY <1>5 DEF Start
  <2> HIDE DEF h, d, had
  <2> QED BY <1>3, <2>1, <2>2
<1>6. CASE Stop
  BY <1>6 DEF Stop, FileInv
<1>7. ASSUME NEW ids \in Requests, SetHomeOrder(ids) \/ SetDockOrder(ids)
      PROVE  FileInv'
  BY <1>2, <1>7 DEF SetHomeOrder, SetDockOrder
<1>8. ASSUME NEW id \in Apps, NEW index \in Indices,
             \/ ReorderDock(id, index) \/ DockApp(id, index)
             \/ SwapIntoDock(id, index) \/ MoveAppToHome(id, index)
      PROVE  FileInv'
  BY <1>2, <1>8 DEF ReorderDock, DockApp, SwapIntoDock, MoveAppToHome
<1>9. CASE ResetLayout
  BY <1>2, <1>9 DEF ResetLayout
<1>10. CASE UNCHANGED vars
  BY <1>10 DEF vars, FileInv
<1> QED BY <1>4, <1>5, <1>6, <1>7, <1>8, <1>9, <1>10 DEF Next

(* Whenever the last save succeeded, a restart shows what is on the screen *)
(* now: the file holds the arrangement, and reconciling a good arrangement *)
(* changes nothing.                                                        *)
THEOREM RestartChangesNothing == Spec => []RestartRestores
<1>1. Init => FileInv
  BY DEF Init, FileInv
<1>2. LayoutInv /\ FileInv => RestartRestores
  <2> SUFFICES ASSUME LayoutInv, FileInv, running, ~saveFailed
               PROVE  /\ homeOrder = ReconciledHome(LoadedHome(layoutFile, TRUE),
                                        LoadedDock(layoutFile, TRUE),
                                        Loadable(layoutFile), apps)
                      /\ dockOrder = ReconciledDock(LoadedDock(layoutFile, TRUE),
                                        Loadable(layoutFile), apps)
    BY DEF RestartRestores
  <2>1. Saved(layoutFile, homeOrder, dockOrder)
    BY DEF FileInv
  <2>2. apps \in Seq(Apps) /\ GoodLayout(homeOrder, dockOrder, apps)
    BY DEF LayoutInv, TypeOK
  <2>3. /\ ReconciledHome(homeOrder, dockOrder, TRUE, apps) = homeOrder
        /\ ReconciledDock(dockOrder, TRUE, apps) = dockOrder
    BY <2>2, ReconcileIdempotent
  <2>4. Loadable(layoutFile) = TRUE
    BY <2>1 DEF Saved, Loadable
  <2> QED BY <2>1, <2>3, <2>4 DEF Saved
<1> QED BY <1>1, <1>2, LayoutInvHolds, FileStep, PTL DEF Spec

-----------------------------------------------------------------------------
(* Later members of K have a higher rank. *)
LEMMA RankMonotone ==
    ASSUME NEW k \in Nat, NEW K \in SUBSET (1 .. k), NEW i \in K, NEW j \in K, i < j
    PROVE  Rank(K, i) < Rank(K, j)
<1> DEFINE A == {x \in K : x < i}
           B == {x \in K : x < j}
<1>1. i \in Int /\ j \in Int /\ K \subseteq Int
  OBVIOUS
<1>2. A \in SUBSET B /\ i \in B /\ i \notin A /\ B \in SUBSET K
  <2>1. \A x \in K : x < i => x < j
    BY <1>1
  <2>2. A \in SUBSET B /\ B \in SUBSET K
    BY <2>1
  <2>3. ~(i < i)
    BY <1>1
  <2> QED BY <2>2, <2>3
<1>3. IsFiniteSet(K)
  BY RankBijective
<1>4. Rank(K, i) = Cardinality(A) /\ Rank(K, j) = Cardinality(B)
  BY DEF Rank
<1> HIDE DEF A, B
<1>5. IsFiniteSet(B)
  BY <1>2, <1>3, FS_Subset
<1>6. A # B /\ IsFiniteSet(A)
  BY <1>2, <1>5, FS_Subset
<1>7. Cardinality(A) <= Cardinality(B) /\ Cardinality(A) # Cardinality(B)
  BY <1>2, <1>5, <1>6, FS_Subset
<1>8. Cardinality(A) \in Nat /\ Cardinality(B) \in Nat
  BY <1>5, <1>6, FS_CardinalityType
<1> QED BY <1>4, <1>7, <1>8

(* What is picked keeps the order it had. *)
LEMMA PickOrder ==
    ASSUME NEW S, NEW s \in Seq(S), NEW K \in SUBSET DOMAIN s, NEW a, NEW b
    PROVE  Before(Pick(s, K), a, b) <=>
               \E i, j \in K : i < j /\ s[i] = a /\ s[j] = b
<1> DEFINE at(n) == CHOOSE i \in K : Rank(K, i) = n - 1
           p == Pick(s, K)
           N == 1 .. Cardinality(K)
<1>1. Len(s) \in Nat /\ K \in SUBSET (1 .. Len(s)) /\ K \subseteq Int
  OBVIOUS
<1>2. Cardinality(K) \in Nat
  BY <1>1, RankBijective
<1>3. \A n \in N : at(n) \in K /\ Rank(K, at(n)) = n - 1
  BY <1>1, RankBijective
<1>4. DOMAIN p = N /\ \A n \in N : p[n] = s[at(n)]
  BY DEF Pick
<1>5. \A i \in K : Rank(K, i) + 1 \in N /\ Rank(K, i) \in Int
  <2> TAKE i \in K
  <2>1. Rank(K, i) \in 0 .. Cardinality(K) - 1
    BY <1>1, RankBijective
  <2> QED BY <1>2, <2>1
<1> HIDE DEF p
<1>6. \A i \in K : at(Rank(K, i) + 1) = i
  <2> TAKE i \in K
  <2>1. (Rank(K, i) + 1) - 1 = Rank(K, i)
    BY <1>5
  <2>2. at(Rank(K, i) + 1) \in K /\ Rank(K, at(Rank(K, i) + 1)) = Rank(K, i)
    <3> HIDE DEF at
    <3> QED BY <1>3, <1>5, <2>1
  <2> HIDE DEF at
  <2> QED BY <1>1, <2>2, RankBijective
<1> HIDE DEF at
<1>7. ASSUME NEW m \in N, NEW n \in N, m < n PROVE at(m) < at(n)
  <2>1. at(m) \in K /\ at(n) \in K /\ at(m) \in Int /\ at(n) \in Int
    BY <1>1, <1>3
  <2>2. Rank(K, at(m)) < Rank(K, at(n))
    BY <1>2, <1>3, <1>7
  <2>3. ~(at(n) < at(m))
    <3> SUFFICES ASSUME at(n) < at(m) PROVE FALSE
      OBVIOUS
    <3>1. Rank(K, at(n)) < Rank(K, at(m))
      BY <1>1, <2>1, RankMonotone
    <3> QED BY <1>5, <2>1, <2>2, <3>1
  <2>4. at(m) # at(n)
    BY <1>5, <2>1, <2>2
  <2> QED BY <2>1, <2>3, <2>4
<1>8. ASSUME NEW m \in N, NEW n \in N, m < n, p[m] = a, p[n] = b
      PROVE  \E i, j \in K : i < j /\ s[i] = a /\ s[j] = b
  <2>1. at(m) \in K /\ at(n) \in K /\ at(m) < at(n)
    BY <1>3, <1>7, <1>8
  <2>2. s[at(m)] = a /\ s[at(n)] = b
    BY <1>4, <1>8
  <2> QED BY <2>1, <2>2
<1>9. ASSUME NEW i \in K, NEW j \in K, i < j, s[i] = a, s[j] = b
      PROVE  \E m, n \in N : m < n /\ p[m] = a /\ p[n] = b
  <2>1. Rank(K, i) < Rank(K, j)
    BY <1>1, <1>9, RankMonotone
  <2>2. Rank(K, i) + 1 < Rank(K, j) + 1
    BY <1>5, <2>1
  <2>3. p[Rank(K, i) + 1] = a /\ p[Rank(K, j) + 1] = b
    BY <1>4, <1>5, <1>6, <1>9
  <2> QED BY <1>5, <2>2, <2>3
<1> QED BY <1>4, <1>8, <1>9 DEF Before, p

(* A filter keeps the order of what it lets through. *)
LEMMA FiltersKeepOrder ==
    ASSUME NEW S, NEW s \in Seq(S), NEW T, NEW a, NEW b
    PROVE  /\ a \notin T /\ b \notin T =>
                  (Before(Without(s, T), a, b) <=> Before(s, a, b))
           /\ NoDup(s) /\ a \in T /\ b \in T =>
                  (Before(FirstOf(s, T), a, b) <=> Before(s, a, b))
<1>1. ASSUME a \notin T, b \notin T
      PROVE  Before(Without(s, T), a, b) <=> Before(s, a, b)
  <2> DEFINE K == {i \in DOMAIN s : s[i] \notin T}
  <2>1. Before(Pick(s, K), a, b) <=> \E i, j \in K : i < j /\ s[i] = a /\ s[j] = b
    <3> K \in SUBSET DOMAIN s
      OBVIOUS
    <3> HIDE DEF K
    <3> QED BY PickOrder
  <2> QED BY <1>1, <2>1 DEF Before, Without
<1>2. ASSUME NoDup(s), a \in T, b \in T
      PROVE  Before(FirstOf(s, T), a, b) <=> Before(s, a, b)
  <2> DEFINE K == {i \in DOMAIN s : /\ s[i] \in T
                                    /\ \A j \in 1 .. i - 1 : s[j] # s[i]}
  <2>1. Before(Pick(s, K), a, b) <=> \E i, j \in K : i < j /\ s[i] = a /\ s[j] = b
    <3> K \in SUBSET DOMAIN s
      OBVIOUS
    <3> HIDE DEF K
    <3> QED BY PickOrder
  <2>2. \A i \in DOMAIN s : s[i] \in T => i \in K
    <3> TAKE i \in DOMAIN s
    <3>1. ASSUME NEW j \in 1 .. i - 1 PROVE s[j] # s[i]
      <4>1. j \in DOMAIN s /\ j # i
        OBVIOUS
      <4> QED BY <1>2, <4>1 DEF NoDup
    <3> QED BY <3>1
  <2>3. FirstOf(s, T) = Pick(s, K)
    BY DEF FirstOf
  <2>4. K \subseteq DOMAIN s
    OBVIOUS
  <2> HIDE DEF K
  <2> QED BY <1>2, <2>1, <2>2, <2>3, <2>4 DEF Before
<1> QED BY <1>1, <1>2

(* An insertion keeps the order of the others. *)
LEMMA InsertKeepsOrder ==
    ASSUME NEW S, NEW s \in Seq(S), NEW c \in S, NEW index \in 0 .. Len(s),
           NEW a, NEW b, a # c, b # c
    PROVE  Before(Insert(s, index, c), a, b) <=> Before(s, a, b)
<1> DEFINE l == SubSeq(s, 1, index)
           r == SubSeq(s, index + 1, Len(s))
           t == Insert(s, index, c)
           to(i) == IF i <= index THEN i ELSE i + 1
           from(i) == IF i <= index THEN i ELSE i - 1
<1>1. Len(s) \in Nat /\ index \in Nat /\ index <= Len(s) /\ DOMAIN s = 1 .. Len(s)
  OBVIOUS
<1>2. /\ l \in Seq(S) /\ Len(l) = index
      /\ \A i \in 1 .. index : l[i] = s[i]
  OBVIOUS
<1>3. /\ r \in Seq(S) /\ Len(r) = Len(s) - index
      /\ \A i \in 1 .. Len(s) - index : r[i] = s[i + index]
  OBVIOUS
<1>4. t = (l \o <<c>>) \o r
  BY DEF Insert
<1>5. /\ t \in Seq(S) /\ Len(t) = Len(s) + 1
  BY InsertProperties
<1> HIDE DEF l, r, t
<1>6. /\ DOMAIN t = 1 .. Len(s) + 1
      /\ \A i \in 1 .. index : t[i] = s[i]
      /\ t[index + 1] = c
      /\ \A i \in index + 2 .. Len(s) + 1 : t[i] = s[i - 1]
  <2> DEFINE lc == l \o <<c>>
  <2>1. /\ lc \in Seq(S) /\ Len(lc) = index + 1
        /\ \A i \in 1 .. index : lc[i] = s[i]
        /\ lc[index + 1] = c
    BY <1>1, <1>2
  <2>2. t = lc \o r
    BY <1>4
  <2> HIDE DEF lc
  <2>3. \A i \in 1 .. index + 1 : t[i] = lc[i]
    BY <1>1, <1>3, <2>1, <2>2
  <2>4. \A i \in index + 2 .. Len(s) + 1 : t[i] = r[i - (index + 1)]
    BY <1>1, <1>3, <2>1, <2>2
  <2>5. \A i \in index + 2 .. Len(s) + 1 : r[i - (index + 1)] = s[i - 1]
    <3> TAKE i \in index + 2 .. Len(s) + 1
    <3>1. i - (index + 1) \in 1 .. Len(s) - index /\ (i - (index + 1)) + index = i - 1
      BY <1>1
    <3> QED BY <1>3, <3>1
  <2> QED BY <1>1, <1>5, <2>1, <2>3, <2>4, <2>5
<1>7. ASSUME NEW i \in DOMAIN s PROVE to(i) \in DOMAIN t /\ t[to(i)] = s[i]
  <2>1. CASE i <= index
    BY <1>1, <1>6, <2>1
  <2>2. CASE i > index
    <3>1. i + 1 \in index + 2 .. Len(s) + 1 /\ (i + 1) - 1 = i
      BY <1>1, <2>2
    <3>2. to(i) = i + 1
      BY <1>1, <2>2
    <3> QED BY <1>1, <1>6, <3>1, <3>2
  <2> QED BY <1>1, <2>1, <2>2
<1>8. ASSUME NEW i \in DOMAIN t, t[i] # c
      PROVE  from(i) \in DOMAIN s /\ t[i] = s[from(i)] /\ i # index + 1
  <2>1. CASE i <= index
    BY <1>1, <1>6, <2>1
  <2>2. CASE i > index
    <3>1. i # index + 1
      BY <1>6, <1>8
    <3>2. i \in index + 2 .. Len(s) + 1
      BY <1>1, <1>6, <2>2, <3>1
    <3>3. from(i) = i - 1 /\ i - 1 \in DOMAIN s
      BY <1>1, <2>2, <3>2
    <3> QED BY <1>6, <3>1, <3>2, <3>3
  <2> QED BY <1>1, <1>6, <2>1, <2>2
<1>9. ASSUME NEW i \in DOMAIN s, NEW j \in DOMAIN s, i < j, s[i] = a, s[j] = b
      PROVE  Before(t, a, b)
  <2>1. to(i) < to(j)
    BY <1>1, <1>9
  <2> HIDE DEF to
  <2> QED BY <1>7, <1>9, <2>1 DEF Before
<1>10. ASSUME NEW i \in DOMAIN t, NEW j \in DOMAIN t, i < j, t[i] = a, t[j] = b
       PROVE  Before(s, a, b)
  <2>1. i # index + 1 /\ j # index + 1
    BY <1>8, <1>10
  <2>2. from(i) < from(j)
    BY <1>1, <1>6, <1>10, <2>1
  <2> HIDE DEF from
  <2> QED BY <1>8, <1>10, <2>2 DEF Before
<1> QED BY <1>9, <1>10 DEF Before, t

(* What is appended leaves the order of the others. *)
LEMMA ConcatKeepsOrder ==
    ASSUME NEW S, NEW s \in Seq(S), NEW t \in Seq(S), NEW a, NEW b,
           a \notin Items(t), b \notin Items(t)
    PROVE  Before(s \o t, a, b) <=> Before(s, a, b)
<1> DEFINE u == s \o t
<1>1. /\ DOMAIN s = 1 .. Len(s) /\ Len(s) \in Nat
      /\ DOMAIN u = 1 .. Len(s) + Len(t) /\ Len(t) \in Nat
      /\ \A i \in DOMAIN s : u[i] = s[i]
  OBVIOUS
<1>2. \A i \in DOMAIN u : i \notin DOMAIN s => u[i] \in Items(t)
  <2>1. \A i \in DOMAIN u : i \notin DOMAIN s =>
            i - Len(s) \in DOMAIN t /\ u[i] = t[i - Len(s)]
    OBVIOUS
  <2> HIDE DEF u
  <2> QED BY <2>1 DEF Items
<1> HIDE DEF u
<1>3. \A i \in DOMAIN s : i \in DOMAIN u
  BY <1>1
<1>4. \A i \in DOMAIN u : u[i] \in {a, b} => i \in DOMAIN s
  BY <1>2
<1>5. Before(u, a, b) <=> Before(s, a, b)
  BY <1>1, <1>3, <1>4 DEF Before
<1> QED BY <1>5 DEF u

-----------------------------------------------------------------------------
(* FirstOf() makes no list longer. *)
LEMMA FirstOfShorter ==
    ASSUME NEW S, NEW s \in Seq(S), NEW T
    PROVE  Len(FirstOf(s, T)) <= Len(s) /\ Len(FirstOf(s, T)) \in Nat
<1> DEFINE K == {i \in DOMAIN s : /\ s[i] \in T
                                  /\ \A j \in 1 .. i - 1 : s[j] # s[i]}
<1>1. K \in SUBSET DOMAIN s /\ FirstOf(s, T) = Pick(s, K)
  BY DEF FirstOf
<1> HIDE DEF K
<1>2. Len(FirstOf(s, T)) = Cardinality(K)
  BY <1>1, PickProperties
<1>3. DOMAIN s = 1 .. Len(s) /\ Len(s) \in Nat
  OBVIOUS
<1>4. IsFiniteSet(1 .. Len(s)) /\ Cardinality(1 .. Len(s)) = Len(s)
  <2> DEFINE n == Len(s)
  <2>1. n \in Nat
    BY <1>3
  <2> HIDE DEF n
  <2>2. IsFiniteSet(1 .. n) /\ Cardinality(1 .. n) = IF 1 > n THEN 0 ELSE n - 1 + 1
    BY <2>1, FS_Interval
  <2>3. (IF 1 > n THEN 0 ELSE n - 1 + 1) = n
    BY <2>1
  <2> QED BY <2>2, <2>3 DEF n
<1>5. IsFiniteSet(K) /\ Cardinality(K) <= Cardinality(1 .. Len(s))
  BY <1>1, <1>3, <1>4, FS_Subset
<1>6. Cardinality(K) \in Nat
  BY <1>5, FS_CardinalityType
<1> QED BY <1>2, <1>4, <1>5, <1>6

(* A reload of a saved layout takes out of the dock what was uninstalled,  *)
(* and nothing else.                                                       *)
LEMMA ReloadedDock ==
    ASSUME LayoutInv, NEW found, Reload(found), hasSaved
    PROVE  dockOrder' = FirstOf(dockOrder, Items(apps'))
<1>1. /\ dockOrder \in Seq(Apps) /\ NoDup(dockOrder) /\ Len(dockOrder) <= DockLimit
  BY DEF LayoutInv, GoodLayout
<1>2. dockOrder' = Truncate(FirstOf(dockOrder, Items(apps')), DockLimit)
  BY DEF Reload, ReloadFrom, ReconciledDock, CleanOrder
<1> DEFINE d == FirstOf(dockOrder, Items(apps'))
<1>3. d \in Seq(Apps)
  BY <1>1, FirstOfProperties
<1>4. Len(d) <= Len(dockOrder) /\ Len(d) \in Nat
  BY <1>1, FirstOfShorter
<1>5. DockLimit \in Nat /\ Len(dockOrder) \in Nat
  BY <1>1, DockLimitAssumption
<1> HIDE DEF d
<1>6. Len(d) <= DockLimit
  BY <1>1, <1>4, <1>5
<1>7. Truncate(d, DockLimit) = d
  BY <1>3, <1>5, <1>6, TruncateProperties
<1> QED BY <1>2, <1>7 DEF d

(* A reload of a saved layout keeps the order of what is still there. *)
LEMMA ReloadedHome ==
    ASSUME LayoutInv, NEW found, Reload(found), hasSaved,
           NEW a \in Items(homeOrder) \cap Items(apps'),
           NEW b \in Items(homeOrder) \cap Items(apps')
    PROVE  Before(homeOrder, a, b) <=> Before(homeOrder', a, b)
<1> DEFINE l == Scan(found)
           clean == FirstOf(homeOrder, Items(l))
           kept == Without(clean, Items(dockOrder'))
           new == Without(Only(l, HomeApps), Items(kept) \cup Items(dockOrder'))
<1>1. /\ homeOrder \in Seq(Apps) /\ NoDup(homeOrder)
      /\ dockOrder \in Seq(Apps)
      /\ Items(homeOrder) \cap Items(dockOrder) = {}
  BY DEF LayoutInv, GoodLayout
<1>2. l \in Seq(Apps) /\ apps' = l
  BY ScanGood DEF Reload, ReloadFrom
<1>3. homeOrder' = kept \o new
  BY DEF Reload, ReloadFrom, ReconciledHome, ReconciledDock, CleanOrder, AppendNew
<1>4. Items(dockOrder') = Items(dockOrder) \cap Items(l)
  BY <1>1, <1>2, ReloadedDock, FirstOfProperties
<1> HIDE DEF l
<1>5. clean \in Seq(Apps) /\ Items(clean) = Items(homeOrder) \cap Items(l)
  BY <1>1, FirstOfProperties
<1>6. Before(clean, a, b) <=> Before(homeOrder, a, b)
  BY <1>1, <1>2, FiltersKeepOrder
<1> HIDE DEF clean
<1>7. a \notin Items(dockOrder') /\ b \notin Items(dockOrder')
  BY <1>1, <1>4
<1>8. kept \in Seq(Apps) /\ Items(kept) = Items(clean) \ Items(dockOrder')
  BY <1>5, WithoutProperties
<1>9. Before(kept, a, b) <=> Before(clean, a, b)
  BY <1>5, <1>7, FiltersKeepOrder
<1>10. a \in Items(kept) /\ b \in Items(kept)
  BY <1>2, <1>5, <1>7, <1>8
<1> HIDE DEF kept
<1>11. Only(l, HomeApps) \in Seq(Apps)
  BY <1>2, OnlyProperties
<1>12. new \in Seq(Apps)
       /\ Items(new) = Items(Only(l, HomeApps)) \ (Items(kept) \cup Items(dockOrder'))
  BY <1>11, WithoutProperties
<1>13. a \notin Items(new) /\ b \notin Items(new)
  BY <1>10, <1>12
<1> HIDE DEF new
<1>14. Before(kept \o new, a, b) <=> Before(kept, a, b)
  BY <1>8, <1>12, <1>13, ConcatKeepsOrder
<1> QED BY <1>3, <1>6, <1>9, <1>14

(* A reload never rearranges a layout that has been saved: what is still   *)
(* installed keeps its order, and the dock gets nothing new.               *)
THEOREM ReloadNeverRearranges == Spec => ReloadKeepsArrangement
<1> DEFINE A == (\E found \in SUBSET Apps : Reload(found)) /\ hasSaved =>
                    /\ Items(dockOrder') = Items(dockOrder) \cap Items(apps')
                    /\ SameOrder(dockOrder, dockOrder', Items(apps'))
                    /\ SameOrder(homeOrder, homeOrder',
                                 Items(homeOrder) \cap Items(apps'))
<1>1. LayoutInv => A
  <2> SUFFICES ASSUME LayoutInv, NEW found \in SUBSET Apps, Reload(found), hasSaved
               PROVE  /\ Items(dockOrder') = Items(dockOrder) \cap Items(apps')
                      /\ SameOrder(dockOrder, dockOrder', Items(apps'))
                      /\ SameOrder(homeOrder, homeOrder',
                                   Items(homeOrder) \cap Items(apps'))
    OBVIOUS
  <2>1. dockOrder' = FirstOf(dockOrder, Items(apps'))
    BY ReloadedDock
  <2>2. dockOrder \in Seq(Apps) /\ NoDup(dockOrder)
    BY DEF LayoutInv, GoodLayout
  <2>3. Items(dockOrder') = Items(dockOrder) \cap Items(apps')
    BY <2>1, <2>2, FirstOfProperties
  <2>4. SameOrder(dockOrder, dockOrder', Items(apps'))
    BY <2>1, <2>2, FiltersKeepOrder DEF SameOrder
  <2>5. SameOrder(homeOrder, homeOrder', Items(homeOrder) \cap Items(apps'))
    BY ReloadedHome DEF SameOrder
  <2> QED BY <2>3, <2>4, <2>5
<1>2. LayoutInv /\ [Next]_vars => [A]_vars
  BY <1>1
<1> QED BY <1>2, LayoutInvHolds, PTL DEF Spec, ReloadKeepsArrangement

-----------------------------------------------------------------------------
(* Putting id elsewhere in a list moves nothing but id. *)
LEMMA ReinsertKeepsOrder ==
    ASSUME NEW s \in Seq(Apps), NEW id \in Apps,
           NEW at \in 0 .. Len(Without(s, {id}))
    PROVE  /\ Items(Insert(Without(s, {id}), at, id)) = Items(s) \cup {id}
           /\ \A a, b \in Apps \ {id} :
                  Before(Insert(Without(s, {id}), at, id), a, b) <=> Before(s, a, b)
<1> DEFINE rest == Without(s, {id})
<1>1. rest \in Seq(Apps) /\ Items(rest) = Items(s) \ {id}
  BY WithoutProperties
<1>2. \A a, b \in Apps \ {id} : Before(rest, a, b) <=> Before(s, a, b)
  BY FiltersKeepOrder
<1>3. at \in 0 .. Len(rest)
  OBVIOUS
<1> HIDE DEF rest
<1>4. Items(Insert(rest, at, id)) = Items(rest) \cup {id}
  BY <1>1, <1>3, InsertProperties
<1>5. \A a, b \in Apps \ {id} : Before(Insert(rest, at, id), a, b) <=> Before(rest, a, b)
  BY <1>1, <1>3, InsertKeepsOrder
<1> QED BY <1>1, <1>2, <1>4, <1>5 DEF rest

(* What LayoutInv says of the lists, for the lemmas below. *)
LEMMA ListsGood ==
    ASSUME LayoutInv
    PROVE  /\ homeOrder \in Seq(Apps) /\ NoDup(homeOrder)
           /\ dockOrder \in Seq(Apps) /\ NoDup(dockOrder)
           /\ Len(dockOrder) \in Nat /\ Len(dockOrder) <= DockLimit
           /\ Items(homeOrder) \cap Items(dockOrder) = {}
           /\ Items(homeOrder) \subseteq Apps /\ Items(dockOrder) \subseteq Apps
<1>1. /\ homeOrder \in Seq(Apps) /\ NoDup(homeOrder)
      /\ dockOrder \in Seq(Apps) /\ NoDup(dockOrder)
      /\ Len(dockOrder) <= DockLimit
      /\ Items(homeOrder) \cap Items(dockOrder) = {}
  BY DEF LayoutInv, GoodLayout
<1> QED BY <1>1 DEF Items

(* A drop within the dock. *)
LEMMA ReorderDockMoves ==
    ASSUME LayoutInv, NEW id \in Apps, NEW index \in Indices, ReorderDock(id, index)
    PROVE  Placed \subseteq Placed' /\ OthersStay({id})
<1> DEFINE rest == Without(dockOrder, {id})
           at == Bound(index, Len(rest))
<1>1. /\ homeOrder' = homeOrder /\ dockOrder' = Insert(rest, at, id)
      /\ id \in Items(dockOrder)
  BY DEF ReorderDock, Commit
<1>2. Len(rest) \in Nat
  BY ListsGood, WithoutProperties
<1>3. at \in 0 .. Len(rest)
  BY <1>2, InputAssumption, BoundInRange
<1> HIDE DEF at
<1>4. /\ Items(dockOrder') = Items(dockOrder) \cup {id}
      /\ \A a, b \in Apps \ {id} : Before(dockOrder', a, b) <=> Before(dockOrder, a, b)
  BY <1>1, <1>3, ListsGood, ReinsertKeepsOrder
<1> HIDE DEF rest
<1>5. Placed \subseteq Placed'
  BY <1>1, <1>4 DEF Placed
<1>6. Placed \ {id} \subseteq Apps \ {id}
  BY ListsGood DEF Placed
<1> QED BY <1>1, <1>4, <1>5, <1>6 DEF OthersStay, SameOrder

(* A drop from Home into a dock with room. *)
LEMMA DockAppMoves ==
    ASSUME LayoutInv, NEW id \in Apps, NEW index \in Indices, DockApp(id, index)
    PROVE  Placed \subseteq Placed' /\ OthersStay({id})
<1> DEFINE at == Bound(index, Len(dockOrder))
<1>1. /\ homeOrder' = Without(homeOrder, {id})
      /\ dockOrder' = Insert(dockOrder, at, id)
  BY DEF DockApp, Commit
<1>2. at \in 0 .. Len(dockOrder)
  BY ListsGood, InputAssumption, BoundInRange
<1> HIDE DEF at
<1>3. Items(dockOrder') = Items(dockOrder) \cup {id}
  BY <1>1, <1>2, ListsGood, InsertProperties
<1>4. \A a, b \in Apps \ {id} : Before(dockOrder', a, b) <=> Before(dockOrder, a, b)
  BY <1>1, <1>2, ListsGood, InsertKeepsOrder
<1>5. Items(homeOrder') = Items(homeOrder) \ {id}
  BY <1>1, ListsGood, WithoutProperties
<1>6. \A a, b \in Apps \ {id} : Before(homeOrder', a, b) <=> Before(homeOrder, a, b)
  BY <1>1, ListsGood, FiltersKeepOrder
<1>7. Placed \subseteq Placed'
  BY <1>3, <1>5 DEF Placed
<1>8. Placed \ {id} \subseteq Apps \ {id}
  BY ListsGood DEF Placed
<1> QED BY <1>3, <1>4, <1>6, <1>7, <1>8 DEF OthersStay, SameOrder

(* A drop on Home, from Home or from the dock. *)
LEMMA MoveAppToHomeMoves ==
    ASSUME LayoutInv, NEW id \in Apps, NEW index \in Indices, MoveAppToHome(id, index)
    PROVE  Placed \subseteq Placed' /\ OthersStay({id})
<1> DEFINE rest == Without(homeOrder, {id})
           at == Bound(index, Len(rest))
<1>1. /\ homeOrder' = Insert(rest, at, id)
      /\ dockOrder' = IF id \in Items(homeOrder) THEN dockOrder
                      ELSE Without(dockOrder, {id})
  BY DEF MoveAppToHome, Commit
<1>2. Len(rest) \in Nat
  BY ListsGood, WithoutProperties
<1>3. at \in 0 .. Len(rest)
  BY <1>2, InputAssumption, BoundInRange
<1> HIDE DEF at
<1>4. /\ Items(homeOrder') = Items(homeOrder) \cup {id}
      /\ \A a, b \in Apps \ {id} : Before(homeOrder', a, b) <=> Before(homeOrder, a, b)
  BY <1>1, <1>3, ListsGood, ReinsertKeepsOrder
<1> HIDE DEF rest
<1>5. Items(Without(dockOrder, {id})) = Items(dockOrder) \ {id}
  BY ListsGood, WithoutProperties
<1>6. \A a, b \in Apps \ {id} :
          Before(Without(dockOrder, {id}), a, b) <=> Before(dockOrder, a, b)
  BY ListsGood, FiltersKeepOrder
<1>7. Items(dockOrder') \ {id} = Items(dockOrder) \ {id}
  BY <1>1, <1>5
<1>8. \A a, b \in Apps \ {id} : Before(dockOrder', a, b) <=> Before(dockOrder, a, b)
  BY <1>1, <1>6
<1>9. Placed \subseteq Placed'
  BY <1>4, <1>7 DEF Placed
<1>10. Placed \ {id} \subseteq Apps \ {id}
  BY ListsGood DEF Placed
<1>11. Items(dockOrder) \cap (Placed \ {id}) = Items(dockOrder') \cap (Placed \ {id})
  BY <1>7
<1> QED BY <1>4, <1>8, <1>9, <1>10, <1>11 DEF OthersStay, SameOrder

(* A drop on a full dock: the icon that was there goes to Home. *)
LEMMA SwapIntoDockMoves ==
    ASSUME LayoutInv, NEW id \in Apps, NEW index \in Indices, SwapIntoDock(id, index)
    PROVE  /\ Placed \subseteq Placed'
           /\ \E displaced \in Items(dockOrder) :
                  /\ OthersStay({id, displaced})
                  /\ Items(homeOrder') = (Items(homeOrder) \ {id}) \cup {displaced}
                  /\ Items(dockOrder') = (Items(dockOrder) \ {displaced}) \cup {id}
<1> DEFINE at == Bound(index, Len(dockOrder) - 1) + 1
           old == IndexOf(homeOrder, id)
           rest == Without(homeOrder, {id})
           back == IF old >= 0 THEN Bound(old, Len(rest)) ELSE Len(rest)
           displaced == dockOrder[at]
<1>1. /\ homeOrder' = Insert(rest, back, displaced)
      /\ dockOrder' = [dockOrder EXCEPT ![at] = id]
      /\ id \notin Items(dockOrder) /\ Len(dockOrder) >= DockLimit
  BY DEF SwapIntoDock, Commit
<1>2. Len(dockOrder) - 1 \in Nat
  BY <1>1, ListsGood, DockLimitAssumption
<1>3. at \in DOMAIN dockOrder
  <2>1. Bound(index, Len(dockOrder) - 1) \in 0 .. Len(dockOrder) - 1
    BY <1>2, InputAssumption, BoundInRange
  <2>2. dockOrder \in Seq(Apps)
    BY ListsGood
  <2> QED BY <2>1, <2>2
<1> HIDE DEF at
<1>4. displaced \in Items(dockOrder) /\ displaced \in Apps
  BY <1>3, ListsGood DEF Items
<1>5. /\ rest \in Seq(Apps) /\ Len(rest) \in Nat
      /\ Items(rest) = Items(homeOrder) \ {id}
  BY ListsGood, WithoutProperties
<1>6. \A a, b \in Apps \ {id} : Before(rest, a, b) <=> Before(homeOrder, a, b)
  BY ListsGood, FiltersKeepOrder
<1>7. old \in Int
  <2>1. homeOrder \in Seq(Apps)
    BY ListsGood
  <2> QED BY <2>1 DEF IndexOf, Items
<1> HIDE DEF rest, old
<1>8. back \in 0 .. Len(rest)
  <2>1. Bound(old, Len(rest)) \in 0 .. Len(rest)
    BY <1>5, <1>7, BoundInRange
  <2>2. Len(rest) \in 0 .. Len(rest)
    BY <1>5
  <2> QED BY <2>1, <2>2
<1> HIDE DEF back
<1> DEFINE others == Placed \ {id, displaced}
<1>9. others \subseteq Apps /\ id \notin others /\ displaced \notin others
  BY ListsGood DEF Placed
<1>10. Items(homeOrder') = (Items(homeOrder) \ {id}) \cup {displaced}
  <2> HIDE DEF displaced
  <2>1. rest \in Seq(Apps) /\ displaced \in Apps /\ back \in 0 .. Len(rest)
    BY <1>4, <1>5, <1>8
  <2>2. Items(Insert(rest, back, displaced)) = Items(rest) \cup {displaced}
    BY <2>1, InsertProperties
  <2> QED BY <1>1, <1>5, <2>2
<1>11. \A a, b \in others : Before(homeOrder', a, b) <=> Before(homeOrder, a, b)
  <2> HIDE DEF displaced, others
  <2> TAKE a, b \in others
  <2>1. a # displaced /\ b # displaced /\ a \in Apps \ {id} /\ b \in Apps \ {id}
    BY <1>9
  <2>2. Before(Insert(rest, back, displaced), a, b) <=> Before(rest, a, b)
    BY <1>4, <1>5, <1>8, <2>1, InsertKeepsOrder
  <2> QED BY <1>1, <1>6, <2>1, <2>2
<1>12. /\ DOMAIN dockOrder' = DOMAIN dockOrder
       /\ dockOrder'[at] = id
       /\ \A i \in DOMAIN dockOrder : i # at => dockOrder'[i] = dockOrder[i]
  <2>1. dockOrder \in Seq(Apps)
    BY ListsGood
  <2> QED BY <1>1, <1>3, <2>1
<1>13. \A i \in DOMAIN dockOrder : i # at => dockOrder[i] # displaced
  <2>1. NoDup(dockOrder)
    BY ListsGood
  <2> QED BY <1>3, <2>1 DEF NoDup
<1>14. Items(dockOrder') = (Items(dockOrder) \ {displaced}) \cup {id}
  <2>1. Items(dockOrder') \subseteq (Items(dockOrder) \ {displaced}) \cup {id}
    BY <1>12, <1>13 DEF Items
  <2>2. (Items(dockOrder) \ {displaced}) \cup {id} \subseteq Items(dockOrder')
    BY <1>3, <1>12 DEF Items
  <2> QED BY <2>1, <2>2
<1>15. \A a, b \in others : Before(dockOrder', a, b) <=> Before(dockOrder, a, b)
  <2> HIDE DEF others
  <2> TAKE a, b \in others
  <2>1. a # displaced /\ b # displaced /\ a # id /\ b # id
    BY <1>9
  <2>2. \A i \in DOMAIN dockOrder :
            /\ dockOrder'[i] = a <=> dockOrder[i] = a
            /\ dockOrder'[i] = b <=> dockOrder[i] = b
    BY <1>12, <2>1
  <2> QED BY <1>12, <2>2 DEF Before
<1> HIDE DEF displaced
<1>16. Placed \subseteq Placed'
  BY <1>10, <1>14 DEF Placed
<1>17. Items(dockOrder) \cap others = Items(dockOrder') \cap others
  BY <1>9, <1>14
<1>18. OthersStay({id, displaced})
  BY <1>11, <1>15, <1>17 DEF OthersStay, SameOrder
<1> QED BY <1>4, <1>10, <1>14, <1>16, <1>18

(* A request to reorder a list loses nothing that was in it. *)
LEMMA RequestsKeepIcons ==
    ASSUME LayoutInv, NEW ids \in Requests, SetHomeOrder(ids) \/ SetDockOrder(ids)
    PROVE  Placed \subseteq Placed'
<1>1. ids \in Seq(Apps)
  BY InputAssumption
<1>2. CASE SetHomeOrder(ids)
  <2>1. homeOrder' = Requested(ids, homeOrder) /\ dockOrder' = dockOrder
    BY <1>2 DEF SetHomeOrder, Commit
  <2>2. Items(homeOrder') = Items(homeOrder)
    BY <1>1, <2>1, ListsGood, RequestedProperties
  <2> QED BY <2>1, <2>2 DEF Placed
<1>3. CASE SetDockOrder(ids)
  <2> DEFINE requested == Requested(ids, dockOrder)
  <2>1. homeOrder' = homeOrder /\ dockOrder' = Truncate(requested, DockLimit)
    BY <1>3 DEF SetDockOrder, Commit
  <2>2. /\ requested \in Seq(Apps) /\ Items(requested) = Items(dockOrder)
        /\ Len(requested) <= DockLimit
    BY <1>1, ListsGood, RequestedProperties
  <2> HIDE DEF requested
  <2>3. Truncate(requested, DockLimit) = requested
    BY <2>2, DockLimitAssumption, TruncateProperties
  <2> QED BY <2>1, <2>2, <2>3 DEF Placed
<1> QED BY <1>2, <1>3

(* No drop and no request loses an icon, whatever ids it names. *)
THEOREM DropsLoseNothing == Spec => DropsKeepIcons
<1> DEFINE A == Dropped \/ (\E ids \in Requests : SetHomeOrder(ids) \/ SetDockOrder(ids))
                    => Placed \subseteq Placed'
<1>1. LayoutInv => A
  <2>1. ASSUME LayoutInv, Dropped PROVE Placed \subseteq Placed'
    BY <2>1, ReorderDockMoves, DockAppMoves, SwapIntoDockMoves, MoveAppToHomeMoves
       DEF Dropped
  <2>2. ASSUME LayoutInv, NEW ids \in Requests, SetHomeOrder(ids) \/ SetDockOrder(ids)
        PROVE  Placed \subseteq Placed'
    BY <2>2, RequestsKeepIcons
  <2> QED BY <2>1, <2>2
<1>2. LayoutInv /\ [Next]_vars => [A]_vars
  BY <1>1
<1> QED BY <1>2, LayoutInvHolds, PTL DEF Spec, DropsKeepIcons

(* A drop moves the icon dragged, and in a full dock the one it displaces; *)
(* all the others stay in their list and in their order.                   *)
THEOREM DropsDisturbOne == Spec => DropMovesOneIcon
<1> DEFINE A == \A id \in Apps, index \in Indices :
                    /\ ReorderDock(id, index) \/ DockApp(id, index)
                       \/ MoveAppToHome(id, index) => OthersStay({id})
                    /\ SwapIntoDock(id, index) =>
                         \E displaced \in Items(dockOrder) : OthersStay({id, displaced})
<1>1. LayoutInv => A
  BY ReorderDockMoves, DockAppMoves, SwapIntoDockMoves, MoveAppToHomeMoves
<1>2. LayoutInv /\ [Next]_vars => [A]_vars
  BY <1>1
<1> QED BY <1>2, LayoutInvHolds, PTL DEF Spec, DropMovesOneIcon

-----------------------------------------------------------------------------
(* IconPlacement sees the sets of icons only.  A truncated list that lost  *)
(* something is as long as it may be. *)
LEMMA TruncateLength ==
    ASSUME NEW S, NEW s \in Seq(S), NEW n \in Nat
    PROVE  Truncate(s, n) = s \/ Len(Truncate(s, n)) = n
<1>1. CASE Len(s) <= n
  BY <1>1, TruncateProperties
<1>2. CASE ~(Len(s) <= n)
  <2>1. Truncate(s, n) = SubSeq(s, 1, n) /\ n <= Len(s)
    BY <1>2 DEF Truncate
  <2> QED BY <2>1
<1> QED BY <1>1, <1>2

(* The dock can hold the icons of a list exactly when the list is within   *)
(* the limit, and one more when it is below it. *)
LEMMA DockHolds ==
    ASSUME NEW s \in Seq(Apps), NoDup(s)
    PROVE  /\ Items(s) \in Docks <=> Len(s) <= DockLimit
           /\ \A a \in Apps \ Items(s) :
                  Items(s) \cup {a} \in Docks <=> Len(s) < DockLimit
<1>1. IsFiniteSet(Items(s)) /\ Cardinality(Items(s)) = Len(s) /\ Len(s) \in Nat
  BY ItemsCount
<1>2. Items(s) \in SUBSET Apps
  BY DEF Items
<1>3. ASSUME NEW a \in Apps \ Items(s)
      PROVE  Items(s) \cup {a} \in Docks <=> Len(s) < DockLimit
  <2>1. Cardinality(Items(s) \cup {a}) = Len(s) + 1
    BY <1>1, FS_AddElement
  <2>2. Items(s) \cup {a} \in SUBSET Apps
    BY <1>2
  <2> QED BY <1>1, <2>1, <2>2, DockLimitAssumption DEF Docks
<1> QED BY <1>1, <1>2, <1>3 DEF Docks

(* The default layout is the default placement. *)
LEMMA SeedPlaces ==
    ASSUME NEW l \in Seq(Apps), NoDup(l)
    PROVE  /\ Items(SeedDock(l)) \in Docks
           /\ Items(SeedDock(l)) \subseteq DockApps \cap Items(l)
           /\ \A a \in (DockApps \cap Items(l)) \ Items(SeedDock(l)) :
                  Items(SeedDock(l)) \cup {a} \notin Docks
           /\ Items(SeedHome(l)) = (HomeApps \cap Items(l)) \ Items(SeedDock(l))
<1> DEFINE wanted == Only(l, DockApps)
           dock == SeedDock(l)
<1>1. /\ wanted \in Seq(Apps) /\ NoDup(wanted)
      /\ Items(wanted) = Items(l) \cap DockApps
      /\ Only(l, HomeApps) \in Seq(Apps)
      /\ Items(Only(l, HomeApps)) = Items(l) \cap HomeApps
  BY OnlyProperties
<1>2. dock = Truncate(wanted, DockLimit) /\ DockLimit \in Nat
  BY DockLimitAssumption DEF SeedDock
<1> HIDE DEF wanted
<1>3. /\ dock \in Seq(Apps) /\ NoDup(dock) /\ Items(dock) \subseteq Items(wanted)
      /\ Len(dock) <= DockLimit
      /\ dock = wanted \/ Len(dock) = DockLimit
  BY <1>1, <1>2, TruncateProperties, TruncateLength
<1>4. SeedHome(l) = Without(Only(l, HomeApps), Items(dock))
  BY DEF SeedHome
<1> HIDE DEF dock
<1>5. Items(SeedHome(l)) = Items(Only(l, HomeApps)) \ Items(dock)
  BY <1>1, <1>4, WithoutProperties
<1>6. Items(dock) \in Docks
  BY <1>3, DockHolds
<1>7. ASSUME NEW a \in Items(wanted) \ Items(dock)
      PROVE  Items(dock) \cup {a} \notin Docks
  <2>1. Len(dock) = DockLimit
    BY <1>3, <1>7
  <2>2. a \in Apps \ Items(dock)
    BY <1>1, <1>7 DEF Items
  <2> QED BY <1>2, <1>3, <2>1, <2>2, DockHolds
<1> QED BY <1>1, <1>3, <1>5, <1>6, <1>7 DEF dock

(* The icons on Home once found is installed: those of h, and what is new. *)
HomeAfter(h, d, found) == ((Items(h) \cup HomeApps) \cap found) \ Items(d)

(* Reconciling a dock within its limit takes out what is gone, and puts    *)
(* what is new on Home. *)
LEMMA ReconciledPlaces ==
    ASSUME NEW l \in Seq(Apps), NoDup(l),
           NEW h \in Seq(Apps), NEW d \in Seq(Apps), Len(d) <= DockLimit,
           NEW had \in BOOLEAN, had
    PROVE  /\ Items(ReconciledDock(d, had, l)) = Items(d) \cap Items(l)
           /\ Items(ReconciledHome(h, d, had, l)) = HomeAfter(h, d, Items(l))
<1> DEFINE clean == FirstOf(d, Items(l))
           dock == ReconciledDock(d, had, l)
           home == ReconciledHome(h, d, had, l)
           known == FirstOf(h, Items(l))
           stay == Without(known, Items(dock))
           wanted == Only(l, HomeApps)
           new == Without(wanted, Items(stay) \cup Items(dock))
<1>1. /\ clean \in Seq(Apps) /\ Items(clean) = Items(d) \cap Items(l)
      /\ Len(clean) <= Len(d) /\ Len(clean) \in Nat
      /\ known \in Seq(Apps) /\ Items(known) = Items(h) \cap Items(l)
      /\ wanted \in Seq(Apps) /\ Items(wanted) = Items(l) \cap HomeApps
  BY FirstOfProperties, FirstOfShorter, OnlyProperties
<1>2. dock = Truncate(clean, DockLimit) /\ home = stay \o new
  BY DEF ReconciledDock, ReconciledHome, CleanOrder, AppendNew
<1> HIDE DEF clean, known, wanted, dock, home
<1>3. Len(d) \in Nat /\ DockLimit \in Nat
  BY DockLimitAssumption
<1>4. dock = clean
  BY <1>1, <1>2, <1>3, TruncateProperties
<1>5. stay \in Seq(Apps) /\ Items(stay) = Items(known) \ Items(dock)
  BY <1>1, WithoutProperties
<1> HIDE DEF stay
<1>6. new \in Seq(Apps) /\ Items(new) = Items(wanted) \ (Items(stay) \cup Items(dock))
  BY <1>1, WithoutProperties
<1> HIDE DEF new
<1>7. Items(home) = Items(stay) \cup Items(new)
  BY <1>2, <1>5, <1>6, ConcatItems
<1>8. Items(dock) = Items(d) \cap Items(l)
  BY <1>1, <1>4
<1>9. Items(home) = HomeAfter(h, d, Items(l))
  BY <1>1, <1>5, <1>6, <1>7, <1>8 DEF HomeAfter
<1> QED BY <1>8, <1>9 DEF dock, home

(* What saveLayout() writes is a placement, and it is the new one. *)
LEMMA SavePlaces ==
    ASSUME LayoutInv', NEW was, SaveLayout(homeOrder', dockOrder', was)
    PROVE  Placement!Save(was)
<1>1. CASE /\ layoutFile' = [home |-> homeOrder', dock |-> dockOrder']
           /\ hasSaved' = TRUE
  <2>1. /\ homeOrder' \in Seq(Apps) /\ dockOrder' \in Seq(Apps)
        /\ Len(dockOrder') <= DockLimit
        /\ Items(homeOrder') \cap Items(dockOrder') = {}
    BY DEF LayoutInv, GoodLayout
  <2>2. layoutFile' \in Layout
    BY <1>1, <2>1 DEF Layout
  <2>3. Loadable(layoutFile')
    BY <2>2, LayoutFileAssumption DEF Loadable
  <2>4. layoutFile'.home = homeOrder' /\ layoutFile'.dock = dockOrder'
    BY <1>1
  <2>5. PlacesIn(layoutFile') = {[home |-> Items(homeOrder'), dock |-> Items(dockOrder')]}
    BY <2>1, <2>3, <2>4 DEF PlacesIn
  <2> QED BY <1>1, <2>5 DEF Placement!Save
<1>2. CASE hasSaved' = was /\ UNCHANGED layoutFile
  BY <1>2 DEF Placement!Save
<1> QED BY <1>1, <1>2 DEF SaveLayout

(* Every operation that ends in Commit gives the icons their new places. *)
LEMMA CommitPlaces ==
    ASSUME LayoutInv', NEW h, NEW d, Commit(h, d), running
    PROVE  Placement!Place(Items(h), Items(d))
<1>1. /\ homeOrder' = h /\ dockOrder' = d /\ running' = running /\ apps' = apps
      /\ SaveLayout(homeOrder', dockOrder', hasSaved)
  BY DEF Commit
<1>2. Placement!Save(hasSaved)
  BY <1>1, SavePlaces
<1> QED BY <1>1, <1>2 DEF Placement!Place

(* reload() from two lists follows them, or makes the default placement. *)
LEMMA ReloadPlaces ==
    ASSUME LayoutInv', NEW h \in Seq(Apps), NEW d \in Seq(Apps), NEW had \in BOOLEAN,
           NEW found \in SUBSET Apps, ReloadFrom(h, d, had, found)
    PROVE  /\ Items(apps') = found
           /\ Placement!Save(had)
           /\ had /\ Len(d) <= DockLimit =>
                  Placement!Follow([home |-> Items(h), dock |-> Items(d)], found)
           /\ ~had => Placement!Default(found)
<1> DEFINE l == Scan(found)
<1>1. /\ apps' = l
      /\ homeOrder' = ReconciledHome(h, d, had, l)
      /\ dockOrder' = ReconciledDock(d, had, l)
      /\ \/ SaveLayout(homeOrder', dockOrder', had)
         \/ hasSaved' = had /\ UNCHANGED layoutFile
  BY DEF ReloadFrom
<1>2. l \in Seq(Apps) /\ NoDup(l)
  BY ScanGood
<1>3. Items(l) = found
  <2>1. Items(l) = Items(ManifestOrder) \cap found
    BY ManifestAssumption, OnlyProperties DEF Scan
  <2> QED BY <2>1 DEF Apps
<1> HIDE DEF l
<1>4. Placement!Save(had)
  <2>1. CASE hasSaved' = had /\ UNCHANGED layoutFile
    BY <2>1 DEF Placement!Save
  <2> QED BY <1>1, <2>1, SavePlaces
<1>5. ASSUME had, Len(d) <= DockLimit
      PROVE  Placement!Follow([home |-> Items(h), dock |-> Items(d)], found)
  <2>1. /\ Items(ReconciledDock(d, had, l)) = Items(d) \cap Items(l)
        /\ Items(ReconciledHome(h, d, had, l)) = HomeAfter(h, d, Items(l))
    BY <1>2, <1>5, ReconciledPlaces
  <2> QED BY <1>1, <1>3, <2>1 DEF Placement!Follow, HomeAfter
<1>6. ASSUME ~had PROVE Placement!Default(found)
  <2>1. homeOrder' = SeedHome(l) /\ dockOrder' = SeedDock(l)
    BY <1>1, <1>6 DEF ReconciledHome, ReconciledDock
  <2>2. /\ Items(SeedDock(l)) \in Docks
        /\ Items(SeedDock(l)) \subseteq DockApps \cap found
        /\ \A a \in (DockApps \cap found) \ Items(SeedDock(l)) :
               Items(SeedDock(l)) \cup {a} \notin Docks
        /\ Items(SeedHome(l)) = (HomeApps \cap found) \ Items(SeedDock(l))
    BY <1>2, <1>3, SeedPlaces
  <2> QED BY <2>1, <2>2 DEF Placement!Default
<1> QED BY <1>1, <1>3, <1>4, <1>5, <1>6

(* A start goes on from the file: from its placement if it keeps one. *)
LEMMA StartPlaces ==
    ASSUME LayoutInv, LayoutInv', NEW found \in SUBSET Apps, NEW can \in BOOLEAN,
           Start(found, can)
    PROVE  Placement!Start(found)
<1> DEFINE had == can /\ Loadable(layoutFile)
           h == LoadedHome(layoutFile, can)
           d == LoadedDock(layoutFile, can)
<1>1. ReloadFrom(h, d, had, found) /\ ~running /\ running'
  BY DEF Start
<1>2. h \in Seq(Apps) /\ d \in Seq(Apps) /\ had \in BOOLEAN
  BY LoadedType DEF LayoutInv, Loadable
<1>3. had => /\ layoutFile.home \in Seq(Apps) /\ layoutFile.dock \in Seq(Apps)
             /\ h = FirstOf(layoutFile.home, Items(layoutFile.home))
             /\ d = FirstOf(layoutFile.dock, Items(layoutFile.dock))
             /\ Loadable(layoutFile)
  BY DEF LayoutInv, TypeOK, Layout, Loadable, LoadedHome, LoadedDock
<1> HIDE DEF had, h, d
<1>4. /\ Items(apps') = found
      /\ Placement!Save(had)
      /\ had /\ Len(d) <= DockLimit =>
             Placement!Follow([home |-> Items(h), dock |-> Items(d)], found)
      /\ ~had => Placement!Default(found)
  BY <1>1, <1>2, ReloadPlaces
<1>5. running' = TRUE
  BY DEF Start
<1>6. CASE ~had
  <2>1. had = FALSE
    BY <1>2, <1>6
  <2>2. Placement!Default(found) /\ Placement!Save(FALSE)
    BY <1>4, <2>1
  <2> QED BY <1>1, <1>4, <1>5, <2>2 DEF Placement!Start
<1>7. CASE had
  <2> DEFINE p == [home |-> Items(layoutFile.home), dock |-> Items(layoutFile.dock)]
  <2>1. had = TRUE
    BY <1>2, <1>7
  <2>2. Placement!Save(TRUE)
    BY <1>4, <2>1
  <2>3. /\ Items(h) = Items(layoutFile.home) /\ Items(d) = Items(layoutFile.dock)
        /\ Len(d) <= Len(layoutFile.dock) /\ Len(d) \in Nat
    <3>1. ASSUME NEW t \in Seq(Apps), NEW u, u = FirstOf(t, Items(t))
          PROVE  Items(u) = Items(t) /\ Len(u) <= Len(t) /\ Len(u) \in Nat
      <4>1. Items(u) = Items(t) \cap Items(t)
        BY <3>1, FirstOfProperties
      <4>2. Len(u) <= Len(t) /\ Len(u) \in Nat
        BY <3>1, FirstOfShorter
      <4> QED BY <4>1, <4>2
    <3> QED BY <1>3, <1>7, <3>1
  <2>4. CASE p \in PlacesIn(layoutFile)
    <3>1. Len(layoutFile.dock) <= DockLimit
      BY <2>4 DEF PlacesIn
    <3>2. Len(d) <= DockLimit
      BY <1>3, <1>7, <2>3, <3>1, DockLimitAssumption
    <3>3. Placement!Follow(p, found)
      BY <1>4, <1>7, <2>3, <3>2
    <3> HIDE DEF p
    <3> QED BY <1>1, <1>4, <1>5, <2>2, <2>4, <3>3 DEF Placement!Start
  <2>5. CASE p \notin PlacesIn(layoutFile)
    <3>1. PlacesIn(layoutFile) = {}
      BY <2>5 DEF PlacesIn
    <3>2. /\ Items(homeOrder') \cap Items(dockOrder') = {}
          /\ HomeApps \cap found \subseteq Items(homeOrder') \cup Items(dockOrder')
          /\ Items(homeOrder') \cup Items(dockOrder') \subseteq found
          /\ dockOrder' \in Seq(Apps) /\ NoDup(dockOrder') /\ Len(dockOrder') <= DockLimit
      BY <1>4 DEF LayoutInv, GoodLayout
    <3>3. Items(dockOrder') \in Docks
      BY <3>2, DockHolds
    <3>4. Placement!SomeGood(found)
      BY <3>2, <3>3 DEF Placement!SomeGood
    <3> QED BY <1>1, <1>4, <1>5, <2>2, <3>1, <3>4 DEF Placement!Start
  <2> QED BY <2>4, <2>5
<1> QED BY <1>6, <1>7

(* A drop moves the icons that IconPlacement says. *)
LEMMA DropPlaces ==
    ASSUME LayoutInv, LayoutInv', NEW id \in Apps, NEW index \in Indices,
           \/ ReorderDock(id, index) \/ DockApp(id, index)
           \/ SwapIntoDock(id, index) \/ MoveAppToHome(id, index)
    PROVE  Placement!Next
<1>1. CASE ReorderDock(id, index)
  <2> DEFINE rest == Without(dockOrder, {id})
  <2>1. /\ running /\ id \in Items(dockOrder)
        /\ Commit(homeOrder, Insert(rest, Bound(index, Len(rest)), id))
    BY <1>1 DEF ReorderDock
  <2>2. Bound(index, Len(rest)) \in 0 .. Len(rest)
    <3>1. Len(rest) \in Nat
      BY ListsGood, WithoutProperties
    <3> QED BY <3>1, InputAssumption, BoundInRange
  <2>3. Items(Insert(rest, Bound(index, Len(rest)), id)) = Items(dockOrder)
    <3> DEFINE at == Bound(index, Len(rest))
    <3> HIDE DEF at
    <3>1. Items(Insert(rest, at, id)) = Items(dockOrder) \cup {id}
      BY <2>2, ListsGood, ReinsertKeepsOrder DEF at
    <3> QED BY <2>1, <3>1 DEF at
  <2> HIDE DEF rest
  <2>4. Placement!Reorder
    BY <2>1, <2>3, CommitPlaces DEF Placement!Reorder
  <2> QED BY <2>4 DEF Placement!Next
<1>2. CASE DockApp(id, index)
  <2> DEFINE at == Bound(index, Len(dockOrder))
  <2>1. /\ running /\ id \in Items(apps) /\ id \notin Items(dockOrder)
        /\ Len(dockOrder) < DockLimit
        /\ Commit(Without(homeOrder, {id}), Insert(dockOrder, at, id))
    BY <1>2 DEF DockApp
  <2>2. at \in 0 .. Len(dockOrder)
    BY ListsGood, InputAssumption, BoundInRange
  <2> HIDE DEF at
  <2>3. /\ Items(Without(homeOrder, {id})) = Items(homeOrder) \ {id}
        /\ Items(Insert(dockOrder, at, id)) = Items(dockOrder) \cup {id}
    BY <2>2, ListsGood, WithoutProperties, InsertProperties
  <2>4. Items(dockOrder) \cup {id} \in Docks
    BY <2>1, ListsGood, DockHolds
  <2>5. Placement!Place(Items(homeOrder) \ {id}, Items(dockOrder) \cup {id})
    BY <2>1, <2>3, CommitPlaces
  <2>6. Placement!ToDock(id)
    BY <2>1, <2>4, <2>5 DEF Placement!ToDock
  <2> QED BY <2>6 DEF Placement!Next
<1>3. CASE SwapIntoDock(id, index)
  <2>1. /\ running /\ id \in Items(apps) /\ id \notin Items(dockOrder)
        /\ Len(dockOrder) >= DockLimit
    BY <1>3 DEF SwapIntoDock
  <2>2. PICK out \in Items(dockOrder) :
            /\ Items(homeOrder') = (Items(homeOrder) \ {id}) \cup {out}
            /\ Items(dockOrder') = (Items(dockOrder) \ {out}) \cup {id}
    BY <1>3, SwapIntoDockMoves
  <2>3. Items(dockOrder) \cup {id} \notin Docks
    BY <2>1, ListsGood, DockHolds, DockLimitAssumption
  <2>4. PICK h, d : Commit(h, d)
    BY <1>3 DEF SwapIntoDock
  <2>5. Placement!Place((Items(homeOrder) \ {id}) \cup {out},
                        (Items(dockOrder) \ {out}) \cup {id})
    <3>1. homeOrder' = h /\ dockOrder' = d
      BY <2>4 DEF Commit
    <3>2. Placement!Place(Items(h), Items(d))
      BY <2>1, <2>4, CommitPlaces
    <3> QED BY <2>2, <3>1, <3>2 DEF Placement!Place
  <2>6. Placement!Swap(id, out)
    BY <2>1, <2>2, <2>3, <2>5 DEF Placement!Swap
  <2>7. out \in Apps
    BY <2>2, ListsGood
  <2> QED BY <2>6, <2>7 DEF Placement!Next
<1>4. CASE MoveAppToHome(id, index)
  <2> DEFINE rest == Without(homeOrder, {id})
             at == Bound(index, Len(rest))
             dock == IF id \in Items(homeOrder) THEN dockOrder ELSE Without(dockOrder, {id})
  <2>1. running /\ id \in Items(apps) /\ Commit(Insert(rest, at, id), dock)
    BY <1>4 DEF MoveAppToHome
  <2>2. at \in 0 .. Len(rest)
    <3>1. Len(rest) \in Nat
      BY ListsGood, WithoutProperties
    <3> QED BY <3>1, InputAssumption, BoundInRange
  <2> HIDE DEF at
  <2>3. Items(Insert(rest, at, id)) = Items(homeOrder) \cup {id}
    BY <2>2, ListsGood, ReinsertKeepsOrder
  <2>4. Items(dock) = Items(dockOrder) \ {id}
    <3>1. Items(Without(dockOrder, {id})) = Items(dockOrder) \ {id}
      BY ListsGood, WithoutProperties
    <3>2. id \in Items(homeOrder) => Items(dockOrder) = Items(dockOrder) \ {id}
      BY ListsGood
    <3> QED BY <3>1, <3>2
  <2> HIDE DEF rest, dock
  <2>5. Placement!Place(Items(homeOrder) \cup {id}, Items(dockOrder) \ {id})
    BY <2>1, <2>3, <2>4, CommitPlaces
  <2>6. Placement!ToHome(id)
    BY <2>1, <2>5 DEF Placement!ToHome
  <2> QED BY <2>6 DEF Placement!Next
<1> QED BY <1>1, <1>2, <1>3, <1>4

(* A request to reorder moves no icon to another list. *)
LEMMA RequestPlaces ==
    ASSUME LayoutInv, LayoutInv', NEW ids \in Requests,
           SetHomeOrder(ids) \/ SetDockOrder(ids)
    PROVE  Placement!Reorder
<1>1. ids \in Seq(Apps)
  BY InputAssumption
<1>2. CASE SetHomeOrder(ids)
  <2>1. running /\ Commit(Requested(ids, homeOrder), dockOrder)
    BY <1>2 DEF SetHomeOrder
  <2>2. Items(Requested(ids, homeOrder)) = Items(homeOrder)
    BY <1>1, ListsGood, RequestedProperties
  <2> QED BY <2>1, <2>2, CommitPlaces DEF Placement!Reorder
<1>3. CASE SetDockOrder(ids)
  <2> DEFINE requested == Requested(ids, dockOrder)
  <2>1. running /\ Commit(homeOrder, Truncate(requested, DockLimit))
    BY <1>3 DEF SetDockOrder
  <2>2. /\ requested \in Seq(Apps) /\ Items(requested) = Items(dockOrder)
        /\ Len(requested) <= DockLimit
    BY <1>1, ListsGood, RequestedProperties
  <2> HIDE DEF requested
  <2>3. Truncate(requested, DockLimit) = requested
    BY <2>2, DockLimitAssumption, TruncateProperties
  <2> QED BY <2>1, <2>2, <2>3, CommitPlaces DEF Placement!Reorder
<1> QED BY <1>2, <1>3

LEMMA InitPlaces == Init => Placement!Init
<1> SUFFICES ASSUME Init PROVE Placement!Init
  OBVIOUS
<1>1. Items(<<>>) = {}
  BY DEF Items
<1>2. PlacesIn(layoutFile) \subseteq [home : SUBSET Apps, dock : SUBSET Apps]
  <2>1. CASE Loadable(layoutFile)
    <3>1. layoutFile.home \in Seq(Apps) /\ layoutFile.dock \in Seq(Apps)
      BY <2>1, LayoutFileAssumption DEF Init, Loadable, Layout
    <3>2. Items(layoutFile.home) \subseteq Apps /\ Items(layoutFile.dock) \subseteq Apps
      BY <3>1 DEF Items
    <3> QED BY <3>2 DEF PlacesIn
  <2> QED BY <2>1 DEF PlacesIn
<1> QED BY <1>1, <1>2 DEF Init, Placement!Init

LEMMA NextPlaces ==
    ASSUME LayoutInv, LayoutInv', [Next]_vars
    PROVE  [Placement!Next]_(Placement!vars)
<1>1. ASSUME NEW found \in SUBSET Apps, Reload(found) PROVE Placement!Next
  <2>1. running /\ ReloadFrom(homeOrder, dockOrder, hasSaved, found) /\ UNCHANGED running
    BY <1>1 DEF Reload
  <2>2. hasSaved \in BOOLEAN
    BY DEF LayoutInv, TypeOK
  <2>3. Placement!Reload(found)
    BY <2>1, <2>2, ListsGood, ReloadPlaces DEF Placement!Reload
  <2> QED BY <2>3 DEF Placement!Next
<1>2. ASSUME NEW found \in SUBSET Apps, NEW can \in BOOLEAN, Start(found, can)
      PROVE  Placement!Next
  BY <1>2, StartPlaces DEF Placement!Next
<1>3. CASE Stop
  <2>1. Items(<<>>) = {}
    BY DEF Items
  <2>2. Placement!Stop
    BY <1>3, <2>1 DEF Stop, Placement!Stop
  <2> QED BY <2>2 DEF Placement!Next
<1>4. ASSUME NEW ids \in Requests, SetHomeOrder(ids) \/ SetDockOrder(ids)
      PROVE  Placement!Next
  BY <1>4, RequestPlaces DEF Placement!Next
<1>5. ASSUME NEW id \in Apps, NEW index \in Indices,
             \/ ReorderDock(id, index) \/ DockApp(id, index)
             \/ SwapIntoDock(id, index) \/ MoveAppToHome(id, index)
      PROVE  Placement!Next
  BY <1>5, DropPlaces
<1>6. CASE ResetLayout
  <2>1. /\ running /\ homeOrder' = SeedHome(apps) /\ dockOrder' = SeedDock(apps)
        /\ SaveLayout(homeOrder', dockOrder', hasSaved)
        /\ running' = running /\ apps' = apps
    BY <1>6 DEF ResetLayout, Commit
  <2>2. apps \in Seq(Apps) /\ NoDup(apps)
    BY DEF LayoutInv, TypeOK
  <2>3. Placement!Default(Items(apps))
    <3>1. /\ Items(SeedDock(apps)) \in Docks
          /\ Items(SeedDock(apps)) \subseteq DockApps \cap Items(apps)
          /\ \A a \in (DockApps \cap Items(apps)) \ Items(SeedDock(apps)) :
                 Items(SeedDock(apps)) \cup {a} \notin Docks
          /\ Items(SeedHome(apps)) = (HomeApps \cap Items(apps)) \ Items(SeedDock(apps))
      BY <2>2, SeedPlaces
    <3> QED BY <2>1, <3>1 DEF Placement!Default
  <2>4. Placement!Save(hasSaved)
    BY <2>1, SavePlaces
  <2> QED BY <2>1, <2>3, <2>4 DEF Placement!Reset, Placement!Next
<1>7. CASE UNCHANGED vars
  BY <1>7 DEF vars, Placement!vars
<1> QED BY <1>1, <1>2, <1>3, <1>4, <1>5, <1>6, <1>7 DEF Next

(* The registry implements IconPlacement: whatever the lists, the files    *)
(* and the failures, an icon changes its place only by a drop that names   *)
(* it or its slot, by an uninstallation or by the default layout, and a    *)
(* start brings back what was saved last.                                  *)
THEOREM RegistryKeepsPlacement == Spec => KeepsPlacement
<1>1. Init => Placement!Init
  BY InitPlaces
<1>2. LayoutInv /\ LayoutInv' /\ [Next]_vars => [Placement!Next]_(Placement!vars)
  BY NextPlaces
<1> QED BY <1>1, <1>2, LayoutInvHolds, PTL DEF Spec, KeepsPlacement, Placement!Spec

=============================================================================
