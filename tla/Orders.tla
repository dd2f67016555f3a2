-------------------------------- MODULE Orders --------------------------------
(***************************************************************************)
(* Lists of distinct identifiers, as the shell keeps them in QStringList:  *)
(* the Home order and the dock order of AppRegistry.  A filtered list is   *)
(* written Pick(s, K), the elements of s at the positions K, so that no    *)
(* operator here is recursive and the theorems of AppRegistryProofs can    *)
(* speak about all of them.                                                *)
(***************************************************************************)
EXTENDS Integers, Sequences, FiniteSets

(* The elements that occur in the list s. *)
Items(s) == {s[i] : i \in DOMAIN s}

(* No identifier occurs twice in s. *)
NoDup(s) == \A i, j \in DOMAIN s : s[i] = s[j] => i = j

(* The elements of s at the positions in K, in the order of s. *)
Rank(K, i) == Cardinality({j \in K : j < i})
Pick(s, K) ==
    [n \in 1 .. Cardinality(K) |->
        s[CHOOSE i \in K : Rank(K, i) = n - 1]]

(* QStringList::removeAll and the filters built from contains(). *)
Only(s, S) == Pick(s, {i \in DOMAIN s : s[i] \in S})
Without(s, S) == Pick(s, {i \in DOMAIN s : s[i] \notin S})

(* The first occurrences in s of the members of S: the loops that append   *)
(* an id unless the result already contains it.                            *)
FirstOf(s, S) ==
    Pick(s, {i \in DOMAIN s : /\ s[i] \in S
                              /\ \A j \in 1 .. i - 1 : s[j] # s[i]})

(* while (s.size() > n) s.removeLast(). *)
Truncate(s, n) == SubSeq(s, 1, IF Len(s) < n THEN Len(s) ELSE n)

(* qBound(0, index, hi). *)
Bound(index, hi) == IF index < 0 THEN 0 ELSE IF index > hi THEN hi ELSE index

(* QStringList::insert(index, a); index counts from 0. *)
Insert(s, index, a) ==
    SubSeq(s, 1, index) \o <<a>> \o SubSeq(s, index + 1, Len(s))

(* QStringList::indexOf(a), -1 when s does not contain a. *)
IndexOf(s, a) ==
    IF a \in Items(s) THEN (CHOOSE i \in DOMAIN s : s[i] = a) - 1 ELSE -1

(* a stands before b in s. *)
Before(s, a, b) ==
    \E i, j \in DOMAIN s : i < j /\ s[i] = a /\ s[j] = b
=============================================================================
