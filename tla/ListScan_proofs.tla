--------------------------- MODULE ListScan_proofs ---------------------------
(***************************************************************************)
(* A listing answers what is promised, for any buckets, keys, scopes and   *)
(* requests: byte order is a total order, so a finite set of keys has one  *)
(* sequence in that order; the layout of storage keys keeps the order and  *)
(* the prefixes; and each scan loop has, at every entry, the page that is  *)
(* due of the keys before it.                                              *)
(***************************************************************************)
EXTENDS ListScan, SequenceTheorems, FiniteSetTheorems, TLAPS

USE SMTT(60), ZenonT(60)

Strings == Seq(Nat)

-----------------------------------------------------------------------------
(* Byte order *)

\* A set of naturals that is not empty has a least element.
LEMMA Least ==
  ASSUME NEW S \in SUBSET Nat, S # {}
  PROVE  \E n \in S : \A m \in S : n <= m
  <1>1. PICK n \in S : \A m \in S : <<m, n>> \notin OpToRel(<, Nat)
    BY NatLessThanWellFounded, WFMin, Zenon
  <1>2. ASSUME NEW m \in S PROVE ~(m < n)
    BY <1>1, Zenon DEF OpToRel
  <1>. QED BY <1>2

\* Before, entry by entry.
Differ(a, b, n) ==
  /\ n \in 0 .. Len(a) /\ n < Len(b)
  /\ \A i \in 1 .. n : a[i] = b[i]
  /\ n < Len(a) => a[n + 1] < b[n + 1]

\* One string is before another if, at the first place where they differ, it
\* ends or has the smaller byte.
LEMMA BeforeDiffer ==
  ASSUME NEW a \in Strings, NEW b \in Strings
  PROVE  Before(a, b) <=> \E n \in Nat : Differ(a, b, n)
  <1>1. Len(a) \in Nat /\ Len(b) \in Nat
    BY DEF Strings
  <1>2. ASSUME NEW n \in 0 .. Len(a), n < Len(b)
        PROVE  SubSeq(a, 1, n) = SubSeq(b, 1, n) <=> \A i \in 1 .. n : a[i] = b[i]
    <2>1. /\ SubSeq(a, 1, n) \in Seq(Nat) /\ Len(SubSeq(a, 1, n)) = n
          /\ \A i \in 1 .. n : SubSeq(a, 1, n)[i] = a[i]
      BY <1>1, <1>2 DEF Strings
    <2>2. /\ SubSeq(b, 1, n) \in Seq(Nat) /\ Len(SubSeq(b, 1, n)) = n
          /\ \A i \in 1 .. n : SubSeq(b, 1, n)[i] = b[i]
      BY <1>1, <1>2 DEF Strings
    <2>3. ASSUME \A i \in 1 .. n : a[i] = b[i]
          PROVE  SubSeq(a, 1, n) = SubSeq(b, 1, n)
      BY <2>1, <2>2, <2>3, SeqEqual, Zenon
    <2>. QED BY <2>1, <2>2, <2>3, Zenon
  <1>3. ASSUME NEW n \in 0 .. Len(a) PROVE n \in Nat
    BY <1>1
  <1>. QED BY <1>2, <1>3, Zenon DEF Before, Differ

\* No string is before itself.
LEMMA BeforeIrreflexive ==
  ASSUME NEW a \in Strings
  PROVE  ~Before(a, a)
  <1>1. SUFFICES ASSUME NEW n \in Nat, Differ(a, a, n) PROVE FALSE
    BY BeforeDiffer, Zenon
  <1>2. Len(a) \in Nat /\ \A i \in 1 .. Len(a) : a[i] \in Nat
    BY DEF Strings
  <1>. QED BY <1>1, <1>2 DEF Differ

\* Byte order is transitive.
LEMMA BeforeTransitive ==
  ASSUME NEW a \in Strings, NEW b \in Strings, NEW c \in Strings, Before(a, b), Before(b, c)
  PROVE  Before(a, c)
  <1>1. PICK n \in Nat : Differ(a, b, n)
    BY BeforeDiffer, Zenon
  <1>2. PICK m \in Nat : Differ(b, c, m)
    BY BeforeDiffer, Zenon
  <1>3. /\ Len(a) \in Nat /\ \A i \in 1 .. Len(a) : a[i] \in Nat
        /\ Len(b) \in Nat /\ \A i \in 1 .. Len(b) : b[i] \in Nat
        /\ Len(c) \in Nat /\ \A i \in 1 .. Len(c) : c[i] \in Nat
    BY DEF Strings
  <1>4. CASE n <= m
    <2>1. Differ(a, c, n)
      BY <1>1, <1>2, <1>3, <1>4 DEF Differ
    <2>. QED BY <2>1, BeforeDiffer, Zenon
  <1>5. CASE m < n
    <2>1. Differ(a, c, m)
      BY <1>1, <1>2, <1>3, <1>5 DEF Differ
    <2>. QED BY <2>1, BeforeDiffer, Zenon
  <1>. QED BY <1>4, <1>5

\* Of two strings one is before the other.
LEMMA BeforeTotal ==
  ASSUME NEW a \in Strings, NEW b \in Strings, a # b
  PROVE  Before(a, b) \/ Before(b, a)
  <1>1. /\ Len(a) \in Nat /\ \A i \in 1 .. Len(a) : a[i] \in Nat
        /\ Len(b) \in Nat /\ \A i \in 1 .. Len(b) : b[i] \in Nat
    BY DEF Strings
  <1>. DEFINE D == {i \in Nat : 1 <= i /\ i <= Len(a) /\ i <= Len(b) /\ a[i] # b[i]}
  <1>2. CASE D = {}
    <2>1. \A i \in Nat : 1 <= i /\ i <= Len(a) /\ i <= Len(b) => a[i] = b[i]
      BY <1>2, Zenon
    <2>2. Len(a) # Len(b)
      BY <1>1, <2>1, SeqEqual DEF Strings
    <2>3. CASE Len(a) < Len(b)
      <3>1. Differ(a, b, Len(a))
        BY <1>1, <2>1, <2>3 DEF Differ
      <3>. QED BY <1>1, <3>1, BeforeDiffer, Zenon
    <2>4. CASE Len(b) < Len(a)
      <3>1. Differ(b, a, Len(b))
        BY <1>1, <2>1, <2>4 DEF Differ
      <3>. QED BY <1>1, <3>1, BeforeDiffer, Zenon
    <2>. QED BY <1>1, <2>2, <2>3, <2>4
  <1>3. CASE D # {}
    <2>1. PICK i \in D : \A m \in D : i <= m
      <3>1. D \in SUBSET Nat
        BY Zenon
      <3>. HIDE DEF D
      <3>. QED BY <1>3, <3>1, Least, Zenon
    <2>2. \A j \in 1 .. i - 1 : a[j] = b[j]
      BY <1>1, <2>1
    <2>3. i - 1 \in Nat /\ i - 1 + 1 = i
      BY <2>1
    <2>4. CASE a[i] < b[i]
      <3>1. Differ(a, b, i - 1)
        BY <1>1, <2>1, <2>2, <2>3, <2>4 DEF Differ
      <3>. QED BY <2>3, <3>1, BeforeDiffer, Zenon
    <2>5. CASE b[i] < a[i]
      <3>1. Differ(b, a, i - 1)
        BY <1>1, <2>1, <2>2, <2>3, <2>5 DEF Differ
      <3>. QED BY <2>3, <3>1, BeforeDiffer, Zenon
    <2>. QED BY <1>1, <2>1, <2>4, <2>5
  <1>. QED BY <1>2, <1>3, Zenon

-----------------------------------------------------------------------------
(* The sequence of a set in byte order *)

\* s has the elements of K, each once, in byte order.
Lists(s, K) ==
  /\ s \in Seq(K)
  /\ \A k \in K : \E i \in 1 .. Len(s) : s[i] = k
  /\ \A i, j \in 1 .. Len(s) : i < j => Before(s[i], s[j])

\* Its elements and its length.
LEMMA ListsTyped ==
  ASSUME NEW K, NEW s, Lists(s, K)
  PROVE  /\ s \in Seq(K) /\ Len(s) \in Nat
         /\ \A i \in 1 .. Len(s) : s[i] \in K
  <1>1. s \in Seq(K)
    BY Zenon DEF Lists
  <1>. QED BY <1>1

\* An element occurs once, and the order is that of the elements.
LEMMA ListsOnce ==
  ASSUME NEW K \in SUBSET Strings, NEW s, Lists(s, K), NEW i \in 1 .. Len(s), NEW j \in 1 .. Len(s)
  PROVE  /\ i < j <=> Before(s[i], s[j])
         /\ s[i] = s[j] => i = j
  <1>1. s[i] \in Strings /\ s[j] \in Strings /\ i \in Nat /\ j \in Nat
    <2>1. s[i] \in K /\ s[j] \in K /\ i \in Nat /\ j \in Nat
      BY ListsTyped
    <2>. QED BY <2>1, Zenon
  <1>2. (i < j => Before(s[i], s[j])) /\ (j < i => Before(s[j], s[i]))
    BY Zenon DEF Lists
  <1>3. ~Before(s[i], s[i])
    BY <1>1, BeforeIrreflexive, Zenon
  <1>4. ASSUME Before(s[i], s[j]), Before(s[j], s[i]) PROVE FALSE
    BY <1>1, <1>3, <1>4, BeforeTransitive, Zenon
  <1>5. i < j \/ i = j \/ j < i
    BY <1>1
  <1>. QED BY <1>1, <1>2, <1>3, <1>4, <1>5, Zenon

\* Two sequences in order agree up to where the shorter ends.
LEMMA ListsAgree ==
  ASSUME NEW K \in SUBSET Strings, NEW s, Lists(s, K), NEW t, Lists(t, K)
  PROVE  \A i \in Nat : 1 <= i /\ i <= Len(s) /\ i <= Len(t) => s[i] = t[i]
  <1>. DEFINE D == {i \in Nat : 1 <= i /\ i <= Len(s) /\ i <= Len(t) /\ s[i] # t[i]}
  <1>0. Len(s) \in Nat /\ Len(t) \in Nat
    BY ListsTyped, Zenon
  <1>1. SUFFICES ASSUME D # {} PROVE FALSE
    BY Zenon
  <1>2. PICK i \in D : \A m \in D : i <= m
    <2>1. D \in SUBSET Nat
      BY Zenon
    <2>. HIDE DEF D
    <2>. QED BY <1>1, <2>1, Least, Zenon
  <1>3. \A m \in 1 .. i - 1 : s[m] = t[m]
    BY <1>0, <1>2
  <1>4. i \in 1 .. Len(s) /\ i \in 1 .. Len(t) /\ i \in Nat /\ s[i] # t[i]
    BY <1>0, <1>2
  <1>. HIDE DEF D
  <1>5. s[i] \in K /\ t[i] \in K
    BY <1>4, ListsTyped, Zenon
  <1>6. PICK j \in 1 .. Len(t) : t[j] = s[i]
    BY <1>5, Zenon DEF Lists
  <1>7. PICK m \in 1 .. Len(s) : s[m] = t[i]
    BY <1>5, Zenon DEF Lists
  <1>8. i < j
    <2>1. CASE j < i
      <3>1. j \in 1 .. i - 1 /\ j \in 1 .. Len(s)
        BY <1>0, <1>4, <2>1
      <3>2. s[j] = s[i]
        BY <1>3, <1>6, <3>1, Zenon
      <3>3. j = i
        BY <1>4, <3>1, <3>2, ListsOnce, Zenon
      <3>. QED BY <2>1, <3>3, Zenon
    <2>. QED BY <1>4, <1>6, <2>1
  <1>9. i < m
    <2>1. CASE m < i
      <3>1. m \in 1 .. i - 1 /\ m \in 1 .. Len(t)
        BY <1>0, <1>4, <2>1
      <3>2. t[m] = t[i]
        BY <1>3, <1>7, <3>1, Zenon
      <3>3. m = i
        BY <1>4, <3>1, <3>2, ListsOnce, Zenon
      <3>. QED BY <2>1, <3>3, Zenon
    <2>. QED BY <1>4, <1>7, <2>1
  <1>10. Before(t[i], s[i]) /\ Before(s[i], t[i])
    BY <1>4, <1>6, <1>7, <1>8, <1>9, Zenon DEF Lists
  <1>11. s[i] \in Strings /\ t[i] \in Strings
    BY <1>5, Zenon
  <1>. QED BY <1>10, <1>11, BeforeTransitive, BeforeIrreflexive, Zenon

\* Two sequences that list the same keys in order are equally long.
LEMMA ListsNoLonger ==
  ASSUME NEW K \in SUBSET Strings, NEW s, Lists(s, K), NEW t, Lists(t, K)
  PROVE  Len(s) <= Len(t)
  <1>0. Len(s) \in Nat /\ Len(t) \in Nat
    BY ListsTyped
  <1>1. SUFFICES ASSUME Len(t) < Len(s) PROVE FALSE
    BY <1>0
  <1>2. PICK n \in Nat : n = Len(t) + 1
    BY <1>0
  <1>3. n \in 1 .. Len(s)
    BY <1>0, <1>1, <1>2
  <1>4. s[n] \in K
    BY <1>3, ListsTyped, Zenon
  <1>5. PICK j \in 1 .. Len(t) : t[j] = s[n]
    BY <1>4, Zenon DEF Lists
  <1>6. j \in Nat /\ 1 <= j /\ j <= Len(s) /\ j <= Len(t) /\ j # n /\ j \in 1 .. Len(s)
    BY <1>0, <1>1, <1>2, <1>5
  <1>7. s[j] = t[j]
    BY <1>6, ListsAgree
  <1>8. s[j] = s[n]
    BY <1>5, <1>7, Zenon
  <1>. QED BY <1>3, <1>6, <1>8, ListsOnce, Zenon

\* Only one sequence lists a set in order.
LEMMA ListsUnique ==
  ASSUME NEW K \in SUBSET Strings, NEW s, Lists(s, K), NEW t, Lists(t, K)
  PROVE  s = t
  <1>1. s \in Seq(K) /\ t \in Seq(K) /\ Len(s) \in Nat /\ Len(t) \in Nat
    BY ListsTyped, Zenon
  <1>2. Len(s) <= Len(t) /\ Len(t) <= Len(s)
    BY ListsNoLonger, Zenon
  <1>3. Len(s) = Len(t)
    BY <1>1, <1>2
  <1>4. \A i \in 1 .. Len(s) : s[i] = t[i]
    BY <1>1, <1>3, ListsAgree
  <1>. QED BY <1>1, <1>3, <1>4, SeqEqual, Zenon

\* A finite set is listed: put each element at its rank, the number of elements
\* that are not after it.
LEMMA ListsExists ==
  ASSUME NEW K \in SUBSET Strings, IsFiniteSet(K)
  PROVE  \E s : Lists(s, K) /\ Len(s) = Cardinality(K) /\ s \in [1 .. Cardinality(K) -> K]
  <1>. DEFINE n == Cardinality(K)
              Low(k) == {j \in K : ~Before(k, j)}
              rank == [k \in K |-> Cardinality(Low(k))]
  <1>1. n \in Nat
    BY FS_CardinalityType, Zenon
  <1>2. ASSUME NEW k \in K
        PROVE  k \in Low(k) /\ IsFiniteSet(Low(k)) /\ Cardinality(Low(k)) \in 1 .. n
    <2>1. k \in Low(k) /\ Low(k) \in SUBSET K
      BY BeforeIrreflexive, Zenon
    <2>2. IsFiniteSet(Low(k)) /\ Cardinality(Low(k)) <= n
      BY <2>1, FS_Subset, Zenon
    <2>3. Cardinality(Low(k)) \in Nat /\ Cardinality(Low(k)) # 0
      BY <2>1, <2>2, FS_CardinalityType, FS_EmptySet, Zenon
    <2>. QED BY <1>1, <2>1, <2>2, <2>3
  <1>3. ASSUME NEW j \in K, NEW k \in K, Before(j, k)
        PROVE  Cardinality(Low(j)) < Cardinality(Low(k))
    <2>1. ASSUME NEW i \in Low(j) PROVE i \in Low(k)
      <3>1. i \in K /\ ~Before(j, i)
        BY Zenon
      <3>2. ASSUME Before(k, i) PROVE FALSE
        <4>1. i \in Strings /\ j \in Strings /\ k \in Strings
          BY <3>1, Zenon
        <4>. QED BY <1>3, <3>1, <3>2, <4>1, BeforeTransitive, Zenon
      <3>. QED BY <3>1, <3>2, Zenon
    <2>2. k \in Low(k) /\ k \notin Low(j)
      BY <1>2, <1>3, Zenon
    <2>3. Low(j) \in SUBSET Low(k) /\ Low(j) # Low(k)
      BY <2>1, <2>2, Zenon
    <2>4. IsFiniteSet(Low(k)) /\ Cardinality(Low(k)) \in 1 .. n /\ Cardinality(Low(j)) \in 1 .. n
      BY <1>2, Zenon
    <2>. HIDE DEF Low, n
    <2>5. Cardinality(Low(j)) <= Cardinality(Low(k)) /\ Cardinality(Low(j)) # Cardinality(Low(k))
      BY <2>3, <2>4, FS_Subset, Zenon
    <2>. QED BY <1>1, <2>4, <2>5
  <1>4. \A k \in K : rank[k] = Cardinality(Low(k))
    BY Zenon
  <1>5. rank \in [K -> 1 .. n]
    BY <1>2, Zenon
  <1>. HIDE DEF rank, Low, n
  <1>6. ASSUME NEW j \in K, NEW k \in K, rank[j] < rank[k]
        PROVE  Before(j, k)
    <2>1. rank[j] \in Nat /\ rank[k] \in Nat
      BY <1>1, <1>5
    <2>2. j # k /\ ~(rank[k] < rank[j])
      BY <1>6, <2>1
    <2>3. ~Before(k, j)
      BY <1>3, <1>4, <2>2, Zenon
    <2>. QED BY <2>2, <2>3, BeforeTotal, Zenon
  <1>7. ASSUME NEW j \in K, NEW k \in K, rank[j] = rank[k]
        PROVE  j = k
    <2>1. ASSUME Before(j, k) \/ Before(k, j) PROVE FALSE
      <3>1. rank[j] < rank[k] \/ rank[k] < rank[j]
        BY <1>3, <1>4, <2>1, Zenon
      <3>2. rank[j] \in Nat
        BY <1>1, <1>5
      <3>. QED BY <1>7, <3>1, <3>2
    <2>. QED BY <2>1, BeforeTotal, Zenon
  <1>8. rank \in Surjection(K, 1 .. n)
    <2>1. rank \in Injection(K, 1 .. n)
      BY <1>5, <1>7, Zenon DEF Injection, IsInjective
    <2>2. IsFiniteSet(1 .. n) /\ Cardinality(1 .. n) = n
      BY <1>1, FS_Interval
    <2>. QED BY <2>1, <2>2, FS_Injection, Zenon DEF n
  <1>9. \A i \in 1 .. n : \E k \in K : rank[k] = i
    BY <1>8, Zenon DEF Surjection
  <1>. DEFINE s == [i \in 1 .. n |-> CHOOSE k \in K : rank[k] = i]
  <1>10. \A i \in 1 .. n : s[i] \in K /\ rank[s[i]] = i
    BY <1>9, Zenon
  <1>11. s \in [1 .. n -> K]
    BY <1>9, Zenon
  <1>. HIDE DEF s
  <1>12. s \in Seq(K) /\ Len(s) = n
    BY <1>1, <1>11
  <1>13. ASSUME NEW k \in K PROVE \E i \in 1 .. Len(s) : s[i] = k
    <2>1. rank[k] \in 1 .. n
      BY <1>5, Zenon
    <2>2. s[rank[k]] \in K /\ rank[s[rank[k]]] = rank[k]
      BY <1>10, <2>1, Zenon
    <2>3. s[rank[k]] = k
      BY <1>7, <2>2, Zenon
    <2>. QED BY <1>12, <2>1, <2>3, Zenon
  <1>14. ASSUME NEW i \in 1 .. Len(s), NEW j \in 1 .. Len(s), i < j
         PROVE  Before(s[i], s[j])
    BY <1>6, <1>10, <1>12, <1>14, Zenon
  <1>15. Lists(s, K)
    BY <1>12, <1>13, <1>14, Zenon DEF Lists
  <1>. QED BY <1>11, <1>12, <1>15, Zenon DEF n

\* InOrder lists a finite set.
LEMMA InOrderLists ==
  ASSUME NEW K \in SUBSET Strings, IsFiniteSet(K)
  PROVE  Lists(InOrder(K), K)
  <1>. DEFINE n == Cardinality(K)
              Sorted(s) == \A i, j \in DOMAIN s : i < j => Before(s[i], s[j])
  <1>1. PICK s : Lists(s, K) /\ Len(s) = n /\ s \in [1 .. n -> K]
    BY ListsExists, Zenon
  <1>2. n \in Nat
    BY FS_CardinalityType
  <1>3. DOMAIN s = 1 .. n
    BY <1>1, Zenon
  <1>4. Sorted(s)
    BY <1>1, <1>3, Zenon DEF Lists
  <1>. DEFINE t == InOrder(K)
  <1>5. t \in [1 .. n -> K] /\ Sorted(t)
    BY <1>1, <1>4, Zenon DEF InOrder
  <1>. HIDE DEF t, n
  <1>6. t \in Seq(K) /\ Len(t) = n /\ DOMAIN t = 1 .. n
    BY <1>2, <1>5 DEF n
  <1>7. ASSUME NEW i \in 1 .. n, NEW j \in 1 .. n, i # j PROVE t[i] # t[j]
    <2>1. t[i] \in Strings
      BY <1>5, Zenon
    <2>2. i < j \/ j < i
      BY <1>2, <1>7
    <2>. QED BY <1>5, <1>6, <2>1, <2>2, BeforeIrreflexive, Zenon
  <1>8. t \in Surjection(1 .. n, K)
    <2>1. t \in Injection(1 .. n, K)
      BY <1>5, <1>7, Zenon DEF Injection, IsInjective
    <2>2. IsFiniteSet(1 .. n) /\ Cardinality(1 .. n) = n
      BY <1>2, FS_Interval DEF n
    <2>. QED BY <2>1, <2>2, FS_Injection, Zenon DEF n
  <1>9. \A k \in K : \E i \in 1 .. n : t[i] = k
    BY <1>8, Zenon DEF Surjection
  <1>. QED BY <1>5, <1>6, <1>9, Zenon DEF Lists, t

\* Concatenation, entry by entry.
LEMMA Joined ==
  ASSUME NEW S, NEW s \in Seq(S), NEW t \in Seq(S)
  PROVE  /\ s \o t \in Seq(S) /\ Len(s \o t) = Len(s) + Len(t)
         /\ \A i \in 1 .. Len(s) : (s \o t)[i] = s[i]
         /\ \A i \in 1 .. Len(t) : (s \o t)[Len(s) + i] = t[i]
  <1>. DEFINE c == s \o t
  <1>1. /\ c \in Seq(S) /\ Len(c) = Len(s) + Len(t)
        /\ \A i \in 1 .. Len(s) + Len(t) : c[i] = IF i <= Len(s) THEN s[i] ELSE t[i - Len(s)]
    BY ConcatProperties, Zenon
  <1>2. Len(s) \in Nat /\ Len(t) \in Nat
    OBVIOUS
  <1>. HIDE DEF c
  <1>3. ASSUME NEW i \in 1 .. Len(s) PROVE c[i] = s[i]
    BY <1>1, <1>2
  <1>4. ASSUME NEW i \in 1 .. Len(t) PROVE c[Len(s) + i] = t[i]
    <2>1. Len(s) + i \in 1 .. Len(s) + Len(t) /\ ~(Len(s) + i <= Len(s)) /\ (Len(s) + i) - Len(s) = i
      BY <1>2
    <2>2. c[Len(s) + i] = t[(Len(s) + i) - Len(s)]
      BY <1>1, <2>1, Zenon
    <2>. QED BY <2>1, <2>2, Zenon
  <1>. QED BY <1>1, <1>3, <1>4, Zenon DEF c

\* Sets listed one after the other.
LEMMA ListsConcat ==
  ASSUME NEW A \in SUBSET Strings, NEW B \in SUBSET Strings, NEW s, NEW t,
         Lists(s, A), Lists(t, B), \A a \in A, b \in B : Before(a, b)
  PROVE  Lists(s \o t, A \cup B)
  <1>1. /\ s \in Seq(A) /\ Len(s) \in Nat /\ \A i \in 1 .. Len(s) : s[i] \in A
        /\ t \in Seq(B) /\ Len(t) \in Nat /\ \A i \in 1 .. Len(t) : t[i] \in B
    BY ListsTyped, Zenon
  <1>2. s \in Seq(A \cup B) /\ t \in Seq(A \cup B)
    BY <1>1
  <1>. DEFINE c == s \o t
              AB == A \cup B
  <1>3. /\ c \in Seq(AB) /\ Len(c) = Len(s) + Len(t)
        /\ \A i \in 1 .. Len(s) : c[i] = s[i]
        /\ \A i \in 1 .. Len(t) : c[Len(s) + i] = t[i]
    <2>1. s \in Seq(AB) /\ t \in Seq(AB)
      BY <1>2, Zenon
    <2>. HIDE DEF AB
    <2>. QED BY <2>1, Joined
  <1>. HIDE DEF c
  <1>6. ASSUME NEW j \in 1 .. Len(s) + Len(t), ~(j <= Len(s))
        PROVE  j - Len(s) \in 1 .. Len(t) /\ c[j] = t[j - Len(s)]
    <2>1. j - Len(s) \in 1 .. Len(t) /\ Len(s) + (j - Len(s)) = j
      BY <1>1, <1>6
    <2>2. c[Len(s) + (j - Len(s))] = t[j - Len(s)]
      BY <1>3, <2>1, Zenon
    <2>. QED BY <2>1, <2>2, Zenon
  <1>4. ASSUME NEW k \in A \cup B PROVE \E i \in 1 .. Len(c) : c[i] = k
    <2>1. CASE k \in A
      <3>1. PICK i \in 1 .. Len(s) : s[i] = k
        BY <2>1, Zenon DEF Lists
      <3>2. i \in 1 .. Len(c) /\ c[i] = k
        BY <1>1, <1>3, <3>1
      <3>. QED BY <3>2, Zenon
    <2>2. CASE k \in B
      <3>1. PICK i \in 1 .. Len(t) : t[i] = k
        BY <2>2, Zenon DEF Lists
      <3>2. Len(s) + i \in 1 .. Len(c) /\ c[Len(s) + i] = k
        <4>1. Len(s) + i \in 1 .. Len(c)
          BY <1>1, <1>3, <3>1
        <4>. QED BY <1>3, <3>1, <4>1, Zenon
      <3>. QED BY <3>2, Zenon
    <2>. QED BY <2>1, <2>2, Zenon
  <1>5. ASSUME NEW i \in 1 .. Len(c), NEW j \in 1 .. Len(c), i < j
        PROVE  Before(c[i], c[j])
    <2>0. i \in 1 .. Len(s) + Len(t) /\ j \in 1 .. Len(s) + Len(t)
      BY <1>3, Zenon
    <2>1. CASE j <= Len(s)
      <3>1. i \in 1 .. Len(s) /\ j \in 1 .. Len(s) /\ c[i] = s[i] /\ c[j] = s[j]
        BY <1>1, <1>3, <1>5, <2>0, <2>1
      <3>. QED BY <1>5, <3>1, Zenon DEF Lists
    <2>2. CASE i <= Len(s) /\ ~(j <= Len(s))
      <3>1. i \in 1 .. Len(s) /\ j - Len(s) \in 1 .. Len(t) /\ c[i] = s[i] /\ c[j] = t[j - Len(s)]
        BY <1>1, <1>3, <1>5, <1>6, <2>0, <2>2
      <3>. QED BY <1>1, <3>1, Zenon
    <2>3. CASE ~(i <= Len(s))
      <3>1. /\ i - Len(s) \in 1 .. Len(t) /\ j - Len(s) \in 1 .. Len(t) /\ i - Len(s) < j - Len(s)
            /\ c[i] = t[i - Len(s)] /\ c[j] = t[j - Len(s)]
        BY <1>1, <1>5, <1>6, <2>0, <2>3
      <3>. QED BY <3>1, Zenon DEF Lists
    <2>4. j <= Len(s) => i <= Len(s)
      BY <1>1, <1>5, <2>0
    <2>. QED BY <2>1, <2>2, <2>3, <2>4, Zenon
  <1>. QED BY <1>3, <1>4, <1>5, Zenon DEF Lists, c

\* What comes first in a set comes first in its sequence.
LEMMA InOrderSplit ==
  ASSUME NEW K \in SUBSET Strings, IsFiniteSet(K), NEW A \in SUBSET K,
         \A a \in A, b \in K \ A : Before(a, b)
  PROVE  InOrder(K) = InOrder(A) \o InOrder(K \ A)
  <1>1. IsFiniteSet(A) /\ IsFiniteSet(K \ A)
    BY FS_Subset, FS_Difference, Zenon
  <1>2. Lists(InOrder(A), A) /\ Lists(InOrder(K \ A), K \ A) /\ Lists(InOrder(K), K)
    BY <1>1, InOrderLists, Zenon
  <1>3. Lists(InOrder(A) \o InOrder(K \ A), A \cup (K \ A))
    <2>1. A \in SUBSET Strings /\ K \ A \in SUBSET Strings
      BY Zenon
    <2>. QED BY <1>2, <2>1, ListsConcat, Zenon
  <1>4. A \cup (K \ A) = K
    BY Zenon
  <1>5. Lists(InOrder(A) \o InOrder(K \ A), K)
    BY <1>3, <1>4, Zenon
  <1>. QED BY <1>2, <1>5, ListsUnique, Zenon

\* The sequences of no key and of one.
LEMMA InOrderSmall ==
  /\ InOrder({}) = <<>>
  /\ \A k \in Strings : InOrder({k}) = <<k>>
  <1>1. InOrder({}) = <<>>
    <2>. DEFINE s == InOrder({})
    <2>1. Lists(s, {})
      BY InOrderLists, FS_EmptySet, Zenon
    <2>. HIDE DEF s
    <2>2. s \in Seq({}) /\ Len(s) \in Nat /\ \A i \in 1 .. Len(s) : s[i] \in {}
      BY <2>1, ListsTyped
    <2>3. Len(s) = 0
      BY <2>2
    <2>4. s = <<>>
      BY <2>2, <2>3
    <2>. QED BY <2>4, Zenon DEF s
  <1>2. ASSUME NEW k \in Strings PROVE InOrder({k}) = <<k>>
    <2>1. Lists(InOrder({k}), {k})
      BY InOrderLists, FS_Singleton, Zenon
    <2>2. <<k>> \in Seq({k}) /\ Len(<<k>>) = 1 /\ <<k>>[1] = k
      OBVIOUS
    <2>3. \A j \in {k} : \E i \in 1 .. Len(<<k>>) : <<k>>[i] = j
      BY <2>2
    <2>4. \A i, j \in 1 .. Len(<<k>>) : i < j => Before(<<k>>[i], <<k>>[j])
      <3>1. \A i, j \in 1 .. 1 : ~(i < j)
        OBVIOUS
      <3>. QED BY <2>2, <3>1, Zenon
    <2>5. Lists(<<k>>, {k})
      BY <2>2, <2>3, <2>4, Zenon DEF Lists
    <2>. QED BY <2>1, <2>5, ListsUnique, Zenon
  <1>. QED BY <1>1, <1>2, Zenon

-----------------------------------------------------------------------------
(* The layout of storage keys *)

\* A storage key, byte by byte.
LEMMA Layout ==
  ASSUME ListAssumption, NEW b \in Strings, NEW k \in Strings
  PROVE  /\ DataStorageKey(b, k) \in Strings
         /\ Len(DataStorageKey(b, k)) = Len(b) + 1 + Len(k)
         /\ \A i \in 1 .. Len(b) : DataStorageKey(b, k)[i] = b[i]
         /\ DataStorageKey(b, k)[Len(b) + 1] = Colon
         /\ \A i \in 1 .. Len(k) : DataStorageKey(b, k)[Len(b) + 1 + i] = k[i]
  <1>. DEFINE c == <<Colon>>
              bc == b \o c
              bck == bc \o k
  <1>1. /\ b \in Seq(Nat) /\ Len(b) \in Nat /\ k \in Seq(Nat) /\ Len(k) \in Nat
        /\ c \in Seq(Nat) /\ Len(c) = 1 /\ c[1] = Colon
    BY DEF Strings, ListAssumption
  <1>. HIDE DEF c
  <1>2. /\ bc \in Seq(Nat) /\ Len(bc) = Len(b) + Len(c)
        /\ \A i \in 1 .. Len(b) : bc[i] = b[i]
        /\ \A i \in 1 .. Len(c) : bc[Len(b) + i] = c[i]
    <2>. DEFINE Byte == Nat
    <2>1. b \in Seq(Byte) /\ c \in Seq(Byte)
      BY <1>1, Zenon
    <2>. HIDE DEF Byte
    <2>2. /\ bc \in Seq(Byte) /\ Len(bc) = Len(b) + Len(c)
          /\ \A i \in 1 .. Len(b) : bc[i] = b[i]
          /\ \A i \in 1 .. Len(c) : bc[Len(b) + i] = c[i]
      BY <2>1, Joined
    <2>. QED BY <2>2, Zenon DEF Byte
  <1>. HIDE DEF bc
  <1>3. /\ bck \in Seq(Nat) /\ Len(bck) = Len(bc) + Len(k)
        /\ \A i \in 1 .. Len(bc) : bck[i] = bc[i]
        /\ \A i \in 1 .. Len(k) : bck[Len(bc) + i] = k[i]
    <2>. DEFINE Byte == Nat
    <2>1. bc \in Seq(Byte) /\ k \in Seq(Byte)
      BY <1>1, <1>2, Zenon
    <2>. HIDE DEF Byte
    <2>2. /\ bck \in Seq(Byte) /\ Len(bck) = Len(bc) + Len(k)
          /\ \A i \in 1 .. Len(bc) : bck[i] = bc[i]
          /\ \A i \in 1 .. Len(k) : bck[Len(bc) + i] = k[i]
      BY <2>1, Joined
    <2>. QED BY <2>2, Zenon DEF Byte
  <1>. HIDE DEF bck
  <1>4. DataStorageKey(b, k) = bck
    BY Zenon DEF DataStorageKey, bck, bc, c
  <1>5. Len(bck) = Len(b) + 1 + Len(k)
    BY <1>1, <1>2, <1>3, Zenon
  <1>6. ASSUME NEW i \in 1 .. Len(b) PROVE bck[i] = b[i]
    BY <1>1, <1>2, <1>3
  <1>7. bck[Len(b) + 1] = Colon
    BY <1>1, <1>2, <1>3
  <1>8. ASSUME NEW i \in 1 .. Len(k) PROVE bck[Len(b) + 1 + i] = k[i]
    BY <1>1, <1>2, <1>3, Zenon
  <1>. QED BY <1>3, <1>4, <1>5, <1>6, <1>7, <1>8, Zenon DEF Strings

\* StartsWith, byte by byte.
LEMMA Starts ==
  ASSUME NEW p \in Strings, NEW k \in Strings
  PROVE  StartsWith(k, p) <=> Len(p) <= Len(k) /\ \A i \in 1 .. Len(p) : p[i] = k[i]
  <1>1. Len(p) \in Nat /\ Len(k) \in Nat /\ p \in Seq(Nat)
    BY DEF Strings
  <1>2. ASSUME Len(p) <= Len(k)
        PROVE  SubSeq(k, 1, Len(p)) = p <=> \A i \in 1 .. Len(p) : p[i] = k[i]
    <2>. DEFINE u == SubSeq(k, 1, Len(p))
    <2>1. u \in Seq(Nat) /\ Len(u) = Len(p) /\ \A i \in 1 .. Len(p) : u[i] = k[i]
      BY <1>1, <1>2 DEF Strings
    <2>. HIDE DEF u
    <2>2. ASSUME \A i \in 1 .. Len(p) : p[i] = k[i] PROVE u = p
      BY <1>1, <2>1, <2>2, SeqEqual, Zenon
    <2>3. ASSUME u = p, NEW i \in 1 .. Len(p) PROVE p[i] = k[i]
      BY <2>1, <2>3, Zenon
    <2>. QED BY <2>2, <2>3, Zenon DEF u
  <1>. QED BY <1>2, Zenon DEF StartsWith

\* Within a bucket, storage keys are in the order of their user keys.
LEMMA LayoutOrder ==
  ASSUME ListAssumption, NEW b \in Strings, NEW j \in Strings, NEW k \in Strings,
         Before(DataStorageKey(b, j), DataStorageKey(b, k))
  PROVE  Before(j, k)
  <1>. DEFINE sj == DataStorageKey(b, j)
              sk == DataStorageKey(b, k)
  <1>1. /\ sj \in Strings /\ Len(sj) = Len(b) + 1 + Len(j)
        /\ \A i \in 1 .. Len(b) : sj[i] = b[i]
        /\ sj[Len(b) + 1] = Colon
        /\ \A i \in 1 .. Len(j) : sj[Len(b) + 1 + i] = j[i]
    BY Layout, Zenon
  <1>2. /\ sk \in Strings /\ Len(sk) = Len(b) + 1 + Len(k)
        /\ \A i \in 1 .. Len(b) : sk[i] = b[i]
        /\ sk[Len(b) + 1] = Colon
        /\ \A i \in 1 .. Len(k) : sk[Len(b) + 1 + i] = k[i]
    BY Layout, Zenon
  <1>. HIDE DEF sj, sk
  <1>3. PICK m \in Nat : Differ(sj, sk, m)
    BY <1>1, <1>2, BeforeDiffer, Zenon DEF sj, sk
  <1>4. /\ Len(b) \in Nat /\ \A i \in 1 .. Len(b) : b[i] \in Nat
        /\ Len(j) \in Nat /\ Len(k) \in Nat /\ Colon \in Nat
    BY DEF Strings, ListAssumption
  <1>5. m > Len(b)
    <2>1. SUFFICES ASSUME m <= Len(b) PROVE FALSE
      BY <1>4
    <2>2. sj[m + 1] < sk[m + 1]
      BY <1>1, <1>3, <1>4, <2>1 DEF Differ
    <2>3. CASE m = Len(b)
      BY <1>1, <1>2, <1>4, <2>2, <2>3
    <2>4. CASE m < Len(b)
      <3>1. m + 1 \in 1 .. Len(b)
        BY <1>4, <2>4
      <3>. QED BY <1>1, <1>2, <1>4, <2>2, <3>1
    <2>. QED BY <1>4, <2>1, <2>3, <2>4
  <1>6. PICK n \in Nat : m = Len(b) + 1 + n
    <2>1. m - Len(b) - 1 \in Nat /\ m = Len(b) + 1 + (m - Len(b) - 1)
      BY <1>4, <1>5
    <2>. QED BY <2>1, Zenon
  <1>7. n \in 0 .. Len(j) /\ n < Len(k)
    BY <1>1, <1>2, <1>3, <1>4, <1>6 DEF Differ
  <1>8. ASSUME NEW i \in 1 .. n PROVE j[i] = k[i]
    <2>1. i \in 1 .. Len(j) /\ i \in 1 .. Len(k) /\ Len(b) + 1 + i \in 1 .. m
      BY <1>4, <1>6, <1>7
    <2>2. sj[Len(b) + 1 + i] = sk[Len(b) + 1 + i]
      BY <1>3, <2>1, Zenon DEF Differ
    <2>. QED BY <1>1, <1>2, <2>1, <2>2, Zenon
  <1>9. ASSUME n < Len(j) PROVE j[n + 1] < k[n + 1]
    <2>1. /\ n + 1 \in 1 .. Len(j) /\ n + 1 \in 1 .. Len(k) /\ m < Len(sj)
          /\ m + 1 = Len(b) + 1 + (n + 1)
      BY <1>1, <1>4, <1>6, <1>7, <1>9
    <2>2. sj[m + 1] < sk[m + 1]
      BY <1>3, <2>1, Zenon DEF Differ
    <2>3. sj[Len(b) + 1 + (n + 1)] = j[n + 1] /\ sk[Len(b) + 1 + (n + 1)] = k[n + 1]
      BY <1>1, <1>2, <2>1, Zenon
    <2>. QED BY <2>1, <2>2, <2>3, Zenon
  <1>10. Differ(j, k, n)
    BY <1>7, <1>8, <1>9, Zenon DEF Differ
  <1>. QED BY <1>10, BeforeDiffer, Zenon

\* The separator is no byte of a bucket's id, so a storage key has the prefix
\* of a bucket and of its user keys only if it is of that bucket.
LEMMA LayoutPrefix ==
  ASSUME ListAssumption, NEW b \in Strings, NEW c \in Strings,
         NEW k \in Strings, NEW p \in Strings,
         \A i \in 1 .. Len(b) : b[i] # Colon, \A i \in 1 .. Len(c) : c[i] # Colon
  PROVE  StartsWith(DataStorageKey(b, k), DataStorageKey(c, p)) <=> b = c /\ StartsWith(k, p)
  <1>. DEFINE sk == DataStorageKey(b, k)
              sp == DataStorageKey(c, p)
  <1>1. /\ sk \in Strings /\ Len(sk) = Len(b) + 1 + Len(k)
        /\ \A i \in 1 .. Len(b) : sk[i] = b[i]
        /\ sk[Len(b) + 1] = Colon
        /\ \A i \in 1 .. Len(k) : sk[Len(b) + 1 + i] = k[i]
    BY Layout, Zenon
  <1>2. /\ sp \in Strings /\ Len(sp) = Len(c) + 1 + Len(p)
        /\ \A i \in 1 .. Len(c) : sp[i] = c[i]
        /\ sp[Len(c) + 1] = Colon
        /\ \A i \in 1 .. Len(p) : sp[Len(c) + 1 + i] = p[i]
    BY Layout, Zenon
  <1>. HIDE DEF sk, sp
  <1>3. Len(b) \in Nat /\ Len(c) \in Nat /\ Len(k) \in Nat /\ Len(p) \in Nat
    BY DEF Strings
  <1>4. StartsWith(sk, sp) <=> Len(sp) <= Len(sk) /\ \A i \in 1 .. Len(sp) : sp[i] = sk[i]
    BY <1>1, <1>2, Starts, Zenon
  <1>5. StartsWith(k, p) <=> Len(p) <= Len(k) /\ \A i \in 1 .. Len(p) : p[i] = k[i]
    BY Starts, Zenon
  <1>6. ASSUME StartsWith(sk, sp) PROVE b = c /\ StartsWith(k, p)
    <2>1. ~(Len(b) < Len(c))
      <3>1. SUFFICES ASSUME Len(b) < Len(c) PROVE FALSE
        BY Zenon
      <3>2. Len(b) + 1 \in 1 .. Len(c) /\ Len(b) + 1 \in 1 .. Len(sp)
        BY <1>2, <1>3, <3>1
      <3>. QED BY <1>1, <1>2, <1>4, <1>6, <3>2, Zenon
    <2>2. ~(Len(c) < Len(b))
      <3>1. SUFFICES ASSUME Len(c) < Len(b) PROVE FALSE
        BY Zenon
      <3>2. Len(c) + 1 \in 1 .. Len(b) /\ Len(c) + 1 \in 1 .. Len(sp)
        BY <1>2, <1>3, <3>1
      <3>. QED BY <1>1, <1>2, <1>4, <1>6, <3>2, Zenon
    <2>3. Len(b) = Len(c)
      BY <1>3, <2>1, <2>2
    <2>4. ASSUME NEW i \in 1 .. Len(b) PROVE b[i] = c[i]
      <3>1. i \in 1 .. Len(c) /\ i \in 1 .. Len(sp)
        BY <1>2, <1>3, <2>3
      <3>. QED BY <1>1, <1>2, <1>4, <1>6, <3>1, Zenon
    <2>5. b = c
      BY <2>3, <2>4, SeqEqual, Zenon DEF Strings
    <2>6. Len(p) <= Len(k)
      BY <1>1, <1>2, <1>3, <1>4, <1>6, <2>3
    <2>7. ASSUME NEW i \in 1 .. Len(p) PROVE p[i] = k[i]
      <3>1. i \in 1 .. Len(k) /\ Len(c) + 1 + i \in 1 .. Len(sp) /\ Len(b) + 1 + i = Len(c) + 1 + i
        BY <1>2, <1>3, <2>3, <2>6
      <3>2. sp[Len(c) + 1 + i] = sk[Len(c) + 1 + i]
        BY <1>4, <1>6, <3>1, Zenon
      <3>3. sk[Len(b) + 1 + i] = k[i] /\ sp[Len(c) + 1 + i] = p[i]
        BY <1>1, <1>2, <3>1, Zenon
      <3>. QED BY <3>1, <3>2, <3>3, Zenon
    <2>. QED BY <1>5, <2>5, <2>6, <2>7, Zenon
  <1>7. ASSUME b = c, StartsWith(k, p) PROVE StartsWith(sk, sp)
    <2>1. Len(sp) <= Len(sk)
      BY <1>1, <1>2, <1>3, <1>5, <1>7
    <2>2. ASSUME NEW i \in 1 .. Len(sp) PROVE sp[i] = sk[i]
      <3>1. CASE i <= Len(b)
        BY <1>1, <1>2, <1>3, <1>7, <3>1
      <3>2. CASE i = Len(b) + 1
        BY <1>1, <1>2, <1>7, <3>2, Zenon
      <3>3. CASE i > Len(b) + 1
        <4>1. PICK x \in 1 .. Len(p) : i = Len(c) + 1 + x
          <5>1. i - Len(c) - 1 \in 1 .. Len(p) /\ i = Len(c) + 1 + (i - Len(c) - 1)
            BY <1>2, <1>3, <1>7, <3>3
          <5>. QED BY <5>1, Zenon
        <4>2. x \in 1 .. Len(k) /\ p[x] = k[x]
          BY <1>3, <1>5, <1>7
        <4>. QED BY <1>1, <1>2, <1>7, <4>1, <4>2, Zenon
      <3>. QED BY <1>2, <1>3, <3>1, <3>2, <3>3
    <2>. QED BY <1>4, <2>1, <2>2, Zenon
  <1>. QED BY <1>6, <1>7, Zenon DEF sk, sp

\* The ids of buckets, which have no separator.
Id == {b \in Strings : \A i \in 1 .. Len(b) : b[i] # Colon}

\* A storage key is of one bucket and of one user key, which is cut out of it.
LEMMA LayoutInjective ==
  ASSUME ListAssumption, NEW b \in Id, NEW c \in Id,
         NEW j \in Strings, NEW k \in Strings,
         DataStorageKey(b, j) = DataStorageKey(c, k)
  PROVE  b = c /\ j = k
  <1>0. /\ b \in Strings /\ c \in Strings
        /\ \A i \in 1 .. Len(b) : b[i] # Colon
        /\ \A i \in 1 .. Len(c) : c[i] # Colon
    BY Zenon DEF Id
  <1>1. DataStorageKey(b, j) \in Strings
    BY <1>0, Layout, Zenon
  <1>2. StartsWith(DataStorageKey(b, j), DataStorageKey(b, j))
    <2>. DEFINE s == DataStorageKey(b, j)
    <2>1. Len(s) \in Nat
      BY <1>1 DEF Strings
    <2>. HIDE DEF s
    <2>2. StartsWith(s, s)
      BY <1>1, <2>1, Starts DEF s
    <2>. QED BY <2>2, Zenon DEF s
  <1>3. b = c /\ StartsWith(j, k)
    BY <1>0, <1>2, LayoutPrefix, Zenon
  <1>4. StartsWith(k, j)
    BY <1>0, <1>2, <1>3, LayoutPrefix, Zenon
  <1>5. Len(j) \in Nat /\ Len(k) \in Nat
    BY DEF Strings
  <1>6. Len(j) <= Len(k) /\ Len(k) <= Len(j) /\ \A i \in 1 .. Len(j) : j[i] = k[i]
    BY <1>3, <1>4, Starts, Zenon
  <1>7. Len(j) = Len(k)
    BY <1>5, <1>6
  <1>. QED BY <1>3, <1>6, <1>7, SeqEqual, Zenon DEF Strings

\* The user key is what remains of a storage key behind its bucket's prefix.
LEMMA LayoutUser ==
  ASSUME ListAssumption, NEW b \in Strings, NEW k \in Strings
  PROVE  UserKeyOf(DataStorageKey(b, k), b) = k
  <1>. DEFINE s == DataStorageKey(b, k)
              u == SubSeq(s, Len(b) + 2, Len(s))
  <1>1. /\ s \in Seq(Nat) /\ Len(s) = Len(b) + 1 + Len(k)
        /\ \A i \in 1 .. Len(k) : s[Len(b) + 1 + i] = k[i]
    BY Layout, Zenon DEF Strings
  <1>2. Len(b) \in Nat /\ Len(k) \in Nat /\ k \in Seq(Nat)
    BY DEF Strings
  <1>. HIDE DEF s
  <1>3. u \in Seq(Nat) /\ Len(u) = Len(k)
    BY <1>1, <1>2
  <1>4. ASSUME NEW i \in 1 .. Len(k) PROVE u[i] = k[i]
    <2>0. s \in Seq(Nat) /\ Len(s) = Len(b) + 1 + Len(k) /\ Len(b) \in Nat /\ Len(k) \in Nat
      BY <1>1, <1>2, Zenon
    <2>1. u[i] = s[Len(b) + 2 + i - 1]
      BY <2>0
    <2>2. Len(b) + 2 + i - 1 = Len(b) + 1 + i
      BY <1>2
    <2>. QED BY <1>1, <2>1, <2>2, Zenon
  <1>. HIDE DEF u
  <1>5. u = k
    BY <1>2, <1>3, <1>4, SeqEqual, Zenon
  <1>. QED BY <1>5, Zenon DEF UserKeyOf, u, s

-----------------------------------------------------------------------------
(* The prefix of a listing *)

\* What a listing may see of the bucket: the keys with the requested prefix in
\* the scope of the token.
Asked(k) == (opts.prefix # None => StartsWith(k, opts.prefix)) /\ StartsWith(k, opts.scope)

Matching == {k \in UserKeys : <<Bucket, k>> \in DOMAIN data /\ Asked(k)}

Visible == {k \in Matching : data[<<Bucket, k>>] = "live"}

\* A prefix of a prefix, and two prefixes of one key.
LEMMA PrefixChain ==
  ASSUME NEW p \in Strings, NEW q \in Strings, NEW k \in Strings, StartsWith(k, q)
  PROVE  /\ StartsWith(q, p) => StartsWith(k, p)
         /\ StartsWith(k, p) => StartsWith(q, p) \/ StartsWith(p, q)
  <1>1. Len(p) \in Nat /\ Len(q) \in Nat /\ Len(k) \in Nat
    BY DEF Strings
  <1>2. Len(q) <= Len(k) /\ \A i \in 1 .. Len(q) : q[i] = k[i]
    BY Starts, Zenon
  <1>3. ASSUME StartsWith(q, p) PROVE StartsWith(k, p)
    <2>1. Len(p) <= Len(q) /\ \A i \in 1 .. Len(p) : p[i] = q[i]
      BY <1>3, Starts, Zenon
    <2>2. Len(p) <= Len(k) /\ \A i \in 1 .. Len(p) : p[i] = k[i]
      BY <1>1, <1>2, <2>1
    <2>. QED BY <2>2, Starts, Zenon
  <1>4. ASSUME StartsWith(k, p) PROVE StartsWith(q, p) \/ StartsWith(p, q)
    <2>1. Len(p) <= Len(k) /\ \A i \in 1 .. Len(p) : p[i] = k[i]
      BY <1>4, Starts, Zenon
    <2>2. CASE Len(p) <= Len(q)
      <3>1. \A i \in 1 .. Len(p) : p[i] = q[i]
        BY <1>1, <1>2, <2>1, <2>2
      <3>. QED BY <2>2, <3>1, Starts, Zenon
    <2>3. CASE Len(q) <= Len(p)
      <3>1. \A i \in 1 .. Len(q) : q[i] = p[i]
        BY <1>1, <1>2, <2>1, <2>3
      <3>. QED BY <2>3, <3>1, Starts, Zenon
    <2>. QED BY <1>1, <2>2, <2>3
  <1>. QED BY <1>3, <1>4, Zenon

\* The combined prefix has exactly the keys that have both.
LEMMA Combined ==
  ASSUME ListAssumption, opts \in Requests, NEW k \in UserKeys
  PROVE  LET p == CombineScopedPrefix(opts.scope, opts.prefix)
         IN /\ p # None => p \in Strings
            /\ Asked(k) <=> p # None /\ StartsWith(k, p)
  <1>. DEFINE scope == opts.scope
              asked == opts.prefix
              p == CombineScopedPrefix(scope, asked)
  <1>1. /\ scope \in Scopes /\ asked \in AskedPrefixes \cup {None}
        /\ k \in Strings /\ scope \in Strings /\ scope # None
    BY Zenon DEF Requests, ListAssumption, Strings
  <1>2. asked # None => asked \in Strings
    BY <1>1, Zenon DEF ListAssumption, Strings
  <1>3. Asked(k) <=> (asked # None => StartsWith(k, asked)) /\ StartsWith(k, scope)
    BY Zenon DEF Asked
  <1>4. p = IF asked = None THEN scope
            ELSE IF StartsWith(asked, scope) THEN asked
            ELSE IF StartsWith(scope, asked) THEN scope
            ELSE None
    BY Zenon DEF CombineScopedPrefix
  <1>. HIDE DEF scope, asked, p
  <1>. DEFINE Goal == (p # None => p \in Strings) /\ (Asked(k) <=> p # None /\ StartsWith(k, p))
  <1>5. ASSUME asked = None PROVE Goal
    BY <1>1, <1>3, <1>4, <1>5, Zenon
  <1>6. ASSUME asked # None PROVE Goal
    <2>1. StartsWith(k, asked) => /\ StartsWith(asked, scope) => StartsWith(k, scope)
                                  /\ StartsWith(k, scope) => StartsWith(asked, scope) \/ StartsWith(scope, asked)
      BY <1>1, <1>2, <1>6, PrefixChain, Zenon
    <2>2. StartsWith(k, scope) => (StartsWith(scope, asked) => StartsWith(k, asked))
      BY <1>1, <1>2, <1>6, PrefixChain, Zenon
    <2>. QED BY <1>1, <1>2, <1>3, <1>4, <1>6, <2>1, <2>2, Zenon
  <1>. QED BY <1>5, <1>6, Zenon DEF p, scope, asked

-----------------------------------------------------------------------------
(* The scan *)

\* The storage key of a key of the bucket.
SK(k) == DataStorageKey(Bucket, k)

\* The visible keys that the iterator has passed when sc is left of the scan.
Passed(sc) == {k \in Visible : \A i \in 1 .. Len(sc) : sc[i] # SK(k)}

\* What is left of a scan: storage keys of matching keys in byte order, all
\* after those that the iterator has passed.
ScanOK(sc) ==
  /\ sc \in Seq({SK(k) : k \in Matching})
  /\ \A i, j \in 1 .. Len(sc) : i < j => Before(sc[i], sc[j])
  /\ \A k \in Passed(sc), i \in 1 .. Len(sc) : Before(SK(k), sc[i])

DataOK ==
  /\ DOMAIN data \subseteq Buckets \X UserKeys
  /\ \A x \in DOMAIN data : data[x] \in {"live", "expired"}

\* Keys and ids are byte strings; an id has no separator.
LEMMA Bytes ==
  ASSUME ListAssumption
  PROVE  /\ UserKeys \subseteq Strings /\ Bucket \in Buckets
         /\ \A b \in Buckets : b \in Strings /\ b \in Id
         /\ \A k \in UserKeys : k \in Strings /\ SK(k) \in Strings
         /\ \A j, k \in UserKeys : SK(j) = SK(k) => j = k
         /\ \A j, k \in UserKeys : Before(SK(j), SK(k)) => Before(j, k)
         /\ IsFiniteSet(Visible) /\ Visible \subseteq Matching /\ Matching \subseteq UserKeys
  <1>1. UserKeys \subseteq Strings /\ Buckets \subseteq Strings /\ Bucket \in Buckets
    BY Zenon DEF ListAssumption, Strings
  <1>2. ASSUME NEW b \in Buckets, NEW i \in 1 .. Len(b) PROVE b[i] # Colon
    <2>1. Colon \notin Range(b)
      BY Zenon DEF ListAssumption
    <2>2. i \in DOMAIN b
      BY <1>1 DEF Strings
    <2>. QED BY <2>1, <2>2, Zenon DEF Range
  <1>3. ASSUME NEW k \in UserKeys PROVE SK(k) \in Strings
    <2>1. k \in Strings /\ Bucket \in Strings
      BY <1>1, Zenon
    <2>. QED BY <2>1, Layout, Zenon DEF SK
  <1>4. ASSUME NEW j \in UserKeys, NEW k \in UserKeys, SK(j) = SK(k) PROVE j = k
    <2>1. j \in Strings /\ k \in Strings /\ Bucket \in Id
      BY <1>1, <1>2, Zenon DEF Id
    <2>. QED BY <1>4, <2>1, LayoutInjective, Zenon DEF SK
  <1>5. ASSUME NEW j \in UserKeys, NEW k \in UserKeys, Before(SK(j), SK(k)) PROVE Before(j, k)
    <2>1. j \in Strings /\ k \in Strings /\ Bucket \in Strings
      BY <1>1, Zenon
    <2>. QED BY <1>5, <2>1, LayoutOrder, Zenon DEF SK
  <1>6. Visible \subseteq Matching /\ Matching \subseteq UserKeys
    BY Zenon DEF Visible, Matching
  <1>7. IsFiniteSet(Visible)
    <2>1. Visible \in SUBSET UserKeys /\ IsFiniteSet(UserKeys)
      BY <1>6, Zenon DEF ListAssumption
    <2>. QED BY <2>1, FS_Subset, Zenon
  <1>8. \A b \in Buckets : b \in Strings /\ b \in Id
    BY <1>1, <1>2, Zenon DEF Id
  <1>9. \A k \in UserKeys : k \in Strings
    BY <1>1, Zenon
  <1>. QED BY <1>1, <1>3, <1>4, <1>5, <1>6, <1>7, <1>8, <1>9, Zenon

\* The entry found under a storage key is that of its user key.
LEMMA StatusOf ==
  ASSUME ListAssumption, DataOK, NEW k \in Matching
  PROVE  /\ Status(SK(k)) = data[<<Bucket, k>>] /\ UserKeyOf(SK(k), Bucket) = k
         /\ data[<<Bucket, k>>] \in {"live", "expired"}
  <1>1. <<Bucket, k>> \in DOMAIN data /\ k \in UserKeys
    BY Zenon DEF Matching
  <1>2. k \in Strings /\ Bucket \in Strings /\ Bucket \in Buckets /\ Bucket \in Id
    BY <1>1, Bytes, Zenon
  <1>3. ASSUME NEW bk \in DOMAIN data, DataStorageKey(bk[1], bk[2]) = SK(k)
        PROVE  bk = <<Bucket, k>>
    <2>1. PICK b \in Buckets, j \in UserKeys : bk = <<b, j>>
      BY DEF DataOK
    <2>2. DataStorageKey(b, j) = DataStorageKey(Bucket, k)
      BY <1>3, <2>1, Zenon DEF SK
    <2>3. b \in Id /\ j \in Strings
      BY Bytes, Zenon
    <2>4. b = Bucket /\ j = k
      BY <1>2, <2>2, <2>3, LayoutInjective
    <2>. QED BY <2>1, <2>4, Zenon
  <1>4. DataStorageKey(<<Bucket, k>>[1], <<Bucket, k>>[2]) = SK(k)
    BY Zenon DEF SK
  <1>. DEFINE found == CHOOSE bk \in DOMAIN data : DataStorageKey(bk[1], bk[2]) = SK(k)
  <1>5. found \in DOMAIN data /\ DataStorageKey(found[1], found[2]) = SK(k)
    BY <1>1, <1>4, Zenon
  <1>. HIDE DEF found
  <1>6. found = <<Bucket, k>>
    BY <1>3, <1>5, Zenon
  <1>7. Status(SK(k)) = data[<<Bucket, k>>]
    BY <1>6, Zenon DEF Status, found
  <1>8. UserKeyOf(SK(k), Bucket) = k
    BY <1>2, LayoutUser, Zenon DEF SK
  <1>. QED BY <1>1, <1>7, <1>8, Zenon DEF DataOK

\* The prefix scan yields the matching keys and nothing else, and has passed none.
LEMMA ScanStarts ==
  ASSUME ListAssumption, DataOK, opts \in Requests,
         CombineScopedPrefix(opts.scope, opts.prefix) # None
  PROVE  LET sc == PrefixScan(SK(CombineScopedPrefix(opts.scope, opts.prefix)))
         IN ScanOK(sc) /\ Passed(sc) = {}
  <1>. DEFINE p == CombineScopedPrefix(opts.scope, opts.prefix)
              stored == {DataStorageKey(bk[1], bk[2]) : bk \in DOMAIN data}
              S == {sk \in stored : StartsWith(sk, SK(p))}
              M == {SK(k) : k \in Matching}
              sc == PrefixScan(SK(p))
  <1>1. /\ \A b \in Buckets : b \in Strings /\ b \in Id
        /\ \A k \in UserKeys : k \in Strings /\ SK(k) \in Strings
        /\ Bucket \in Buckets /\ Visible \subseteq Matching /\ Matching \subseteq UserKeys
    BY Bytes, Zenon
  <1>2. \A k \in UserKeys : (p # None => p \in Strings) /\ (Asked(k) <=> p # None /\ StartsWith(k, p))
    BY Combined, Zenon
  <1>3. p # None
    BY Zenon
  <1>. HIDE DEF p
  <1>4. ASSUME NEW b \in Buckets, NEW k \in UserKeys
        PROVE  StartsWith(DataStorageKey(b, k), SK(p)) <=> b = Bucket /\ StartsWith(k, p)
    <2>1. /\ b \in Strings /\ Bucket \in Strings /\ k \in Strings /\ p \in Strings
          /\ \A i \in 1 .. Len(b) : b[i] # Colon
          /\ \A i \in 1 .. Len(Bucket) : Bucket[i] # Colon
      BY <1>1, <1>2, <1>3, Zenon DEF Id
    <2>. QED BY <2>1, LayoutPrefix, Zenon DEF SK
  <1>5. S = M
    <2>1. ASSUME NEW s \in S PROVE s \in M
      <3>1. PICK bk \in DOMAIN data : s = DataStorageKey(bk[1], bk[2])
        BY Zenon
      <3>2. PICK b \in Buckets, k \in UserKeys : bk = <<b, k>>
        BY DEF DataOK
      <3>3. s = DataStorageKey(b, k) /\ StartsWith(s, SK(p))
        BY <3>1, <3>2, Zenon
      <3>4. b = Bucket /\ StartsWith(k, p)
        BY <1>4, <3>3, Zenon
      <3>5. k \in Matching
        BY <1>2, <1>3, <3>2, <3>4, Zenon DEF Matching
      <3>. QED BY <3>3, <3>4, <3>5, Zenon DEF SK
    <2>2. ASSUME NEW s \in M PROVE s \in S
      <3>1. PICK k \in Matching : s = SK(k)
        BY Zenon
      <3>2. k \in UserKeys /\ <<Bucket, k>> \in DOMAIN data /\ Asked(k)
        BY Zenon DEF Matching
      <3>3. StartsWith(s, SK(p))
        BY <1>1, <1>2, <1>4, <3>1, <3>2, Zenon DEF SK
      <3>4. s = DataStorageKey(<<Bucket, k>>[1], <<Bucket, k>>[2])
        BY <3>1, Zenon DEF SK
      <3>. QED BY <3>2, <3>3, <3>4, Zenon
    <2>. HIDE DEF S, M
    <2>. QED BY <2>1, <2>2, Zenon
  <1>6. M \in SUBSET Strings
    BY <1>1, Zenon
  <1>7. IsFiniteSet(M)
    <2>1. IsFiniteSet(Matching)
      <3>1. Matching \in SUBSET UserKeys /\ IsFiniteSet(UserKeys)
        BY <1>1, Zenon DEF ListAssumption
      <3>. QED BY <3>1, FS_Subset, Zenon
    <2>2. [k \in Matching |-> SK(k)] \in Surjection(Matching, M)
      BY Zenon DEF Surjection
    <2>. HIDE DEF M
    <2>. QED BY <2>1, <2>2, FS_Surjection, Zenon
  <1>8. sc = InOrder(M)
    BY <1>5, Zenon DEF PrefixScan
  <1>. HIDE DEF S, M, sc
  <1>9. Lists(sc, M)
    BY <1>6, <1>7, <1>8, InOrderLists, Zenon
  <1>10. Passed(sc) = {}
    <2>1. ASSUME NEW k \in Visible PROVE \E i \in 1 .. Len(sc) : sc[i] = SK(k)
      <3>1. SK(k) \in M
        BY <1>1, Zenon DEF M
      <3>. QED BY <1>9, <3>1, Zenon DEF Lists
    <2>. QED BY <2>1, Zenon DEF Passed
  <1>11. ScanOK(sc)
    BY <1>9, <1>10, Zenon DEF ScanOK, Lists, M
  <1>. QED BY <1>10, <1>11, Zenon DEF sc, p

\* The iterator yields an entry: it passes one key, the first one left, which
\* is counted if it is live.
LEMMA ScanAdvances ==
  ASSUME ListAssumption, DataOK, NEW sc, ScanOK(sc), sc # <<>>
  PROVE  /\ ScanOK(Tail(sc))
         /\ LET h == UserKeyOf(Head(sc), Bucket)
            IN /\ h \in UserKeys /\ Status(Head(sc)) \in {"live", "expired"}
               /\ Passed(Tail(sc)) = IF Status(Head(sc)) = "live" THEN Passed(sc) \cup {h} ELSE Passed(sc)
               /\ \A k \in Passed(sc) : k # h /\ Before(k, h)
  <1>. DEFINE M == {SK(k) : k \in Matching}
              tl == Tail(sc)
  <1>1. /\ sc \in Seq(M) /\ Len(sc) \in Nat /\ Len(sc) > 0
        /\ Head(sc) = sc[1] /\ tl \in Seq(M) /\ Len(tl) = Len(sc) - 1
        /\ \A i \in 1 .. Len(tl) : tl[i] = sc[i + 1]
    <2>1. sc \in Seq(M)
      BY Zenon DEF ScanOK
    <2>. HIDE DEF M
    <2>. QED BY <2>1
  <1>2. sc[1] \in M /\ 1 \in 1 .. Len(sc)
    <2>. HIDE DEF M
    <2>. QED BY <1>1
  <1>3. PICK h \in Matching : Head(sc) = SK(h)
    BY <1>1, <1>2, Zenon
  <1>4. /\ Status(SK(h)) = data[<<Bucket, h>>] /\ UserKeyOf(SK(h), Bucket) = h
        /\ data[<<Bucket, h>>] \in {"live", "expired"}
    BY StatusOf, Zenon
  <1>5. /\ \A j, k \in UserKeys : SK(j) = SK(k) => j = k
        /\ \A j, k \in UserKeys : Before(SK(j), SK(k)) => Before(j, k)
        /\ \A k \in UserKeys : k \in Strings /\ SK(k) \in Strings
        /\ Visible \subseteq Matching /\ Matching \subseteq UserKeys
    BY Bytes, Zenon
  <1>6. h \in UserKeys
    BY <1>5, Zenon
  <1>. HIDE DEF M, tl
  <1>7. ASSUME NEW i \in 1 .. Len(tl) PROVE /\ i + 1 \in 1 .. Len(sc) /\ tl[i] = sc[i + 1]
                                            /\ Before(SK(h), tl[i]) /\ tl[i] # SK(h)
    <2>1. i + 1 \in 1 .. Len(sc) /\ 1 < i + 1 /\ tl[i] = sc[i + 1]
      BY <1>1
    <2>2. Before(sc[1], sc[i + 1])
      BY <1>2, <2>1, Zenon DEF ScanOK
    <2>3. SK(h) \in Strings
      BY <1>5, <1>6, Zenon
    <2>. QED BY <1>1, <1>3, <2>1, <2>2, <2>3, BeforeIrreflexive, Zenon
  <1>8. ASSUME NEW k \in Visible PROVE k \in Passed(tl) <=> k = h \/ k \in Passed(sc)
    <2>1. ASSUME k \in Passed(tl), k # h PROVE k \in Passed(sc)
      <3>1. SUFFICES ASSUME NEW i \in 1 .. Len(sc), sc[i] = SK(k) PROVE FALSE
        BY Zenon DEF Passed
      <3>2. CASE i = 1
        BY <1>1, <1>3, <1>5, <1>6, <2>1, <3>1, <3>2, Zenon
      <3>3. CASE i > 1
        <4>1. i - 1 \in 1 .. Len(tl) /\ (i - 1) + 1 = i
          BY <1>1, <3>3
        <4>2. tl[i - 1] = SK(k)
          BY <1>1, <3>1, <4>1, Zenon
        <4>. QED BY <2>1, <4>1, <4>2, Zenon DEF Passed
      <3>. QED BY <1>1, <3>2, <3>3
    <2>2. ASSUME k = h PROVE k \in Passed(tl)
      BY <1>7, <2>2, Zenon DEF Passed
    <2>3. ASSUME k \in Passed(sc) PROVE k \in Passed(tl)
      BY <1>7, <2>3, Zenon DEF Passed
    <2>. QED BY <2>1, <2>2, <2>3, Zenon
  <1>9. h \in Visible <=> data[<<Bucket, h>>] = "live"
    BY Zenon DEF Visible
  <1>10. Passed(tl) \subseteq Visible /\ Passed(sc) \subseteq Visible
    BY Zenon DEF Passed
  <1>11. Passed(tl) = IF Status(Head(sc)) = "live" THEN Passed(sc) \cup {h} ELSE Passed(sc)
    BY <1>3, <1>4, <1>8, <1>9, <1>10, Zenon
  <1>12. ASSUME NEW k \in Passed(sc) PROVE k # h /\ Before(k, h)
    <2>1. k \in UserKeys /\ k \in Strings
      BY <1>5, <1>10, Zenon
    <2>2. Before(SK(k), SK(h))
      BY <1>1, <1>2, <1>3, Zenon DEF ScanOK
    <2>3. Before(k, h)
      BY <1>5, <1>6, <2>1, <2>2, Zenon
    <2>. QED BY <2>1, <2>3, BeforeIrreflexive, Zenon
  <1>13. ASSUME NEW k \in Passed(tl), NEW i \in 1 .. Len(tl) PROVE Before(SK(k), tl[i])
    <2>1. CASE k = h
      BY <1>7, <2>1, Zenon
    <2>2. CASE k \in Passed(sc)
      BY <1>7, <2>2, Zenon DEF ScanOK
    <2>. QED BY <1>8, <1>10, <2>1, <2>2, Zenon
  <1>14. ASSUME NEW i \in 1 .. Len(tl), NEW j \in 1 .. Len(tl), i < j PROVE Before(tl[i], tl[j])
    <2>1. i + 1 < j + 1
      BY <1>1, <1>14
    <2>. QED BY <1>7, <2>1, Zenon DEF ScanOK
  <1>15. ScanOK(tl)
    BY <1>1, <1>13, <1>14, Zenon DEF ScanOK, M
  <1>. QED BY <1>3, <1>4, <1>6, <1>11, <1>12, <1>15, Zenon DEF tl

-----------------------------------------------------------------------------
(* The page *)

\* What a listing has passed, in order.
Seen(sc) == InOrder(Passed(sc))

\* A forward scan has skipped or taken all it has seen, and takes once it has
\* skipped enough.
ForwardOK(sc, left, o) ==
  /\ left \in 0 .. opts.skip
  /\ o \in Seq(UserKeys) /\ Len(o) <= opts.limit
  /\ Len(Seen(sc)) = opts.skip - left + Len(o)
  /\ \A i \in 1 .. Len(o) : o[i] = Seen(sc)[opts.skip - left + i]
  /\ Len(o) > 0 => left = 0

\* A reverse scan holds the last of what it has seen, as much as the window has
\* room for.
ReverseOK(sc, o) ==
  /\ o \in Seq(UserKeys)
  /\ Len(o) = IF Len(Seen(sc)) < opts.skip + opts.limit THEN Len(Seen(sc)) ELSE opts.skip + opts.limit
  /\ \A i \in 1 .. Len(o) : o[i] = Seen(sc)[Len(Seen(sc)) - Len(o) + i]

\* The inductive invariant.
ListInv ==
  /\ DataOK /\ opts \in Requests
  /\ pc \in {"start", "forward", "reverse", "done"}
  /\ pc = "start" => out = <<>>
  /\ pc \in {"forward", "reverse"} => opts.limit > 0 /\ ScanOK(scan)
  /\ pc = "forward" => ~opts.reverse /\ ForwardOK(scan, skipLeft, out)
  /\ pc = "reverse" =>
       opts.reverse /\ Window(opts) = opts.skip + opts.limit /\ ReverseOK(scan, out)
  /\ pc = "done" => answer \in {ReadError, Panicked} \/ answer = Promised
  /\ pc # "done" => answer = None

\* A page, entry by entry.
IsPage(u, v, skip, limit) ==
  /\ Len(u) \in Nat /\ Len(u) <= limit
  /\ Len(v) <= skip => Len(u) = 0
  /\ skip < Len(v) /\ Len(v) <= skip + limit => Len(u) = Len(v) - skip
  /\ skip + limit <= Len(v) => Len(u) = limit
  /\ \A i \in 1 .. Len(u) : u[i] = v[skip + i]

\* The page of a sequence has, from the first entry behind the skipped ones, as
\* many as the limit and the sequence allow.
LEMMA Paged ==
  ASSUME NEW S, NEW v \in Seq(S), NEW skip \in Nat, NEW limit \in Nat
  PROVE  Page(v, skip, limit) \in Seq(S) /\ IsPage(Page(v, skip, limit), v, skip, limit)
  <1>. DEFINE last == IF skip + limit > Len(v) THEN Len(v) ELSE skip + limit
              u == SubSeq(v, skip + 1, last)
  <1>1. Len(v) \in Nat
    OBVIOUS
  <1>2. last \in Nat /\ last <= Len(v) /\ last <= skip + limit /\ (last = Len(v) \/ last = skip + limit)
    BY <1>1
  <1>3. skip + limit <= Len(v) => last = skip + limit
    BY <1>1
  <1>4. Len(v) <= skip + limit => last = Len(v)
    BY <1>1
  <1>. HIDE DEF last
  <1>5. u \in Seq(S) /\ Len(u) = IF skip + 1 <= last THEN last - skip ELSE 0
    BY <1>1, <1>2
  <1>6. ASSUME NEW i \in 1 .. Len(u) PROVE u[i] = v[skip + i]
    <2>1. i \in 1 .. last - skip /\ skip + 1 <= last
      BY <1>2, <1>5
    <2>2. u[i] = v[skip + 1 + i - 1]
      BY <1>1, <1>2, <2>1
    <2>3. skip + 1 + i - 1 = skip + i
      BY <2>1, <1>2
    <2>. QED BY <2>2, <2>3, Zenon
  <1>7. Page(v, skip, limit) = u
    BY Zenon DEF Page, u, last
  <1>. HIDE DEF u
  <1>8. /\ Len(u) \in Nat /\ Len(u) <= limit
        /\ Len(v) <= skip => Len(u) = 0
        /\ skip < Len(v) /\ Len(v) <= skip + limit => Len(u) = Len(v) - skip
        /\ skip + limit <= Len(v) => Len(u) = limit
    BY <1>1, <1>2, <1>3, <1>4, <1>5
  <1>. QED BY <1>5, <1>6, <1>7, <1>8, Zenon DEF IsPage

\* What has been seen is a sequence of keys; a live key that is passed comes at
\* its end, and nothing changes with an expired one.
LEMMA SeenGrows ==
  ASSUME ListAssumption, DataOK, NEW sc, ScanOK(sc)
  PROVE  /\ Seen(sc) \in Seq(UserKeys) /\ Len(Seen(sc)) \in Nat
         /\ sc # <<>> /\ Status(Head(sc)) = "expired" => Seen(Tail(sc)) = Seen(sc)
         /\ sc # <<>> /\ Status(Head(sc)) # "expired" =>
              /\ Len(Seen(Tail(sc))) = Len(Seen(sc)) + 1
              /\ \A i \in 1 .. Len(Seen(sc)) : Seen(Tail(sc))[i] = Seen(sc)[i]
              /\ Seen(Tail(sc))[Len(Seen(sc)) + 1] = UserKeyOf(Head(sc), Bucket)
  <1>1. Passed(sc) \subseteq Visible /\ Visible \subseteq UserKeys /\ UserKeys \subseteq Strings /\ IsFiniteSet(Visible)
    <2>1. Passed(sc) \subseteq Visible
      BY Zenon DEF Passed
    <2>2. Visible \subseteq Matching /\ Matching \subseteq UserKeys /\ UserKeys \subseteq Strings /\ IsFiniteSet(Visible)
      BY Bytes, Zenon
    <2>. QED BY <2>1, <2>2, Zenon
  <1>2. Passed(sc) \in SUBSET Strings /\ IsFiniteSet(Passed(sc))
    <2>1. Passed(sc) \in SUBSET Visible
      BY <1>1, Zenon
    <2>. QED BY <1>1, <2>1, FS_Subset, Zenon
  <1>3. Lists(Seen(sc), Passed(sc))
    BY <1>2, InOrderLists, Zenon DEF Seen
  <1>4. Seen(sc) \in Seq(UserKeys) /\ Len(Seen(sc)) \in Nat
    <2>1. Seen(sc) \in Seq(Passed(sc)) /\ Len(Seen(sc)) \in Nat
      BY <1>3, ListsTyped, Zenon
    <2>2. Passed(sc) \subseteq UserKeys
      BY <1>1, Zenon
    <2>. HIDE DEF Seen, Passed
    <2>. QED BY <2>1, <2>2
  <1>5. ASSUME sc # <<>>, Status(Head(sc)) = "expired" PROVE Seen(Tail(sc)) = Seen(sc)
    <2>1. Passed(Tail(sc)) = Passed(sc)
      BY <1>5, ScanAdvances, Zenon
    <2>. QED BY <2>1, Zenon DEF Seen
  <1>6. ASSUME sc # <<>>, Status(Head(sc)) # "expired"
        PROVE  /\ Len(Seen(Tail(sc))) = Len(Seen(sc)) + 1
               /\ \A i \in 1 .. Len(Seen(sc)) : Seen(Tail(sc))[i] = Seen(sc)[i]
               /\ Seen(Tail(sc))[Len(Seen(sc)) + 1] = UserKeyOf(Head(sc), Bucket)
    <2>. DEFINE h == UserKeyOf(Head(sc), Bucket)
                P == Passed(sc)
                Q == Passed(Tail(sc))
    <2>1. h \in UserKeys /\ Q = P \cup {h} /\ \A k \in P : k # h /\ Before(k, h)
      BY <1>6, ScanAdvances, Zenon
    <2>2. Q \in SUBSET Strings /\ h \in Strings /\ IsFiniteSet(Q)
      <3>1. IsFiniteSet(P \cup {h})
        BY <1>2, FS_AddElement, Zenon
      <3>. QED BY <1>1, <1>2, <2>1, <3>1, Zenon
    <2>. HIDE DEF h, P, Q
    <2>3. P \in SUBSET Q /\ Q \ P = {h} /\ \A a \in P, b \in Q \ P : Before(a, b)
      BY <2>1, Zenon
    <2>4. InOrder(Q) = InOrder(P) \o InOrder(Q \ P)
      BY <2>2, <2>3, InOrderSplit, Zenon
    <2>5. InOrder(Q) = Seen(sc) \o <<h>>
      BY <2>2, <2>3, <2>4, InOrderSmall, Zenon DEF Seen, P
    <2>6. InOrder(Q) = Seen(Tail(sc))
      BY Zenon DEF Seen, Q
    <2>. DEFINE s == Seen(sc)
                t == Seen(Tail(sc))
    <2>7. t = s \o <<h>> /\ s \in Seq(UserKeys) /\ Len(s) \in Nat /\ <<h>> \in Seq(UserKeys) /\ Len(<<h>>) = 1
      <3>1. t = s \o <<h>>
        BY <2>5, <2>6, Zenon
      <3>2. s \in Seq(UserKeys) /\ Len(s) \in Nat
        BY <1>4, Zenon
      <3>3. <<h>> \in Seq(UserKeys) /\ Len(<<h>>) = 1
        BY <2>1
      <3>. QED BY <3>1, <3>2, <3>3, Zenon
    <2>. HIDE DEF s, t
    <2>8. /\ Len(t) = Len(s) + Len(<<h>>) /\ \A i \in 1 .. Len(s) : t[i] = s[i]
          /\ \A i \in 1 .. Len(<<h>>) : t[Len(s) + i] = <<h>>[i]
      BY <2>7, Joined
    <2>9. t[Len(s) + 1] = h
      BY <2>7, <2>8
    <2>. QED BY <2>7, <2>8, <2>9, Zenon DEF s, t, h
  <1>. QED BY <1>4, <1>5, <1>6, Zenon

\* What has been seen comes first of what is visible, and is all of it at the
\* end of the scan.
LEMMA SeenFirst ==
  ASSUME ListAssumption, DataOK, NEW sc, ScanOK(sc)
  PROVE  /\ InOrder(Visible) \in Seq(UserKeys) /\ Len(InOrder(Visible)) \in Nat
         /\ Len(Seen(sc)) <= Len(InOrder(Visible))
         /\ \A i \in 1 .. Len(Seen(sc)) : InOrder(Visible)[i] = Seen(sc)[i]
         /\ sc = <<>> => Seen(sc) = InOrder(Visible)
  <1>. DEFINE V == Visible
              P == Passed(sc)
              R == V \ P
  <1>1. /\ \A j, k \in UserKeys : Before(SK(j), SK(k)) => Before(j, k)
        /\ V \subseteq UserKeys /\ UserKeys \subseteq Strings /\ IsFiniteSet(V)
    <2>1. /\ Visible \subseteq Matching /\ Matching \subseteq UserKeys /\ UserKeys \subseteq Strings
          /\ IsFiniteSet(Visible) /\ \A j, k \in UserKeys : Before(SK(j), SK(k)) => Before(j, k)
      BY Bytes, Zenon
    <2>. QED BY <2>1, Zenon
  <1>2. P \in SUBSET V
    BY Zenon DEF Passed
  <1>3. ASSUME NEW a \in P, NEW b \in R PROVE Before(a, b)
    <2>1. PICK i \in 1 .. Len(sc) : sc[i] = SK(b)
      BY Zenon DEF Passed
    <2>2. Before(SK(a), SK(b))
      BY <2>1, Zenon DEF ScanOK
    <2>3. a \in UserKeys /\ b \in UserKeys
      BY <1>1, <1>2, Zenon
    <2>. QED BY <1>1, <2>2, <2>3, Zenon
  <1>4. V \in SUBSET Strings /\ R \in SUBSET V /\ IsFiniteSet(R)
    <2>1. R \in SUBSET V
      BY Zenon
    <2>2. IsFiniteSet(R)
      BY <1>1, <2>1, FS_Subset, Zenon
    <2>. QED BY <1>1, <2>1, <2>2, Zenon
  <1>5. InOrder(V) = Seen(sc) \o InOrder(R)
    BY <1>1, <1>2, <1>3, <1>4, InOrderSplit, Zenon DEF Seen
  <1>. DEFINE s == Seen(sc)
              r == InOrder(R)
              v == InOrder(V)
  <1>6. s \in Seq(UserKeys) /\ Len(s) \in Nat
    BY SeenGrows, Zenon
  <1>7. r \in Seq(UserKeys) /\ Len(r) \in Nat
    <2>. HIDE DEF R
    <2>1. R \in SUBSET Strings /\ R \subseteq UserKeys
      BY <1>1, <1>4, Zenon
    <2>2. Lists(r, R)
      BY <1>4, <2>1, InOrderLists, Zenon
    <2>. HIDE DEF r
    <2>3. r \in Seq(R) /\ Len(r) \in Nat
      BY <2>2, ListsTyped, Zenon
    <2>. QED BY <2>1, <2>3
  <1>. HIDE DEF s, r, v, V, P, R
  <1>8. v = s \o r
    BY <1>5, Zenon DEF s, r, v
  <1>9. v \in Seq(UserKeys) /\ Len(v) = Len(s) + Len(r) /\ \A i \in 1 .. Len(s) : v[i] = s[i]
    BY <1>6, <1>7, <1>8, Joined
  <1>10. Len(v) \in Nat /\ Len(s) <= Len(v)
    BY <1>6, <1>7, <1>9
  <1>11. ASSUME sc = <<>> PROVE s = v
    <2>1. Len(sc) = 0
      BY <1>11, Zenon
    <2>2. \A i \in 1 .. Len(sc) : FALSE
      BY <2>1
    <2>3. P = V
      BY <2>2, Zenon DEF Passed, P, V
    <2>. QED BY <2>3, Zenon DEF s, v, Seen, P
  <1>. QED BY <1>9, <1>10, <1>11, Zenon DEF s, v, V

\* The promise, over the visible keys.
LEMMA PromisedPage ==
  Promised = Page(IF opts.reverse THEN Reverse(InOrder(Visible)) ELSE InOrder(Visible),
                  opts.skip, opts.limit)
  <1>1. Visible = {k \in UserKeys : /\ <<Bucket, k>> \in DOMAIN data
                                    /\ data[<<Bucket, k>>] = "live"
                                    /\ opts.prefix # None => StartsWith(k, opts.prefix)
                                    /\ StartsWith(k, opts.scope)}
    BY Zenon DEF Visible, Matching, Asked
  <1>. QED BY <1>1, Zenon DEF Promised

\* A listing is of naturals.
LEMMA RequestTyped ==
  ASSUME ListAssumption, opts \in Requests
  PROVE  opts.skip \in Nat /\ opts.limit \in Nat /\ opts.reverse \in BOOLEAN
  <1>1. opts.skip \in Skips /\ opts.limit \in Limits /\ opts.reverse \in BOOLEAN
    BY Zenon DEF Requests
  <1>2. Skips \subseteq 0 .. MaxUsize /\ Limits \subseteq 0 .. MaxUsize /\ MaxUsize \in Nat
    BY Zenon DEF ListAssumption
  <1>3. opts.skip \in 0 .. MaxUsize /\ opts.limit \in 0 .. MaxUsize
    BY <1>1, <1>2, Zenon
  <1>4. \A n \in 0 .. MaxUsize : n \in Nat
    BY <1>2
  <1>. QED BY <1>1, <1>3, <1>4, Zenon

\* A forward scan that ends has the promised page.
LEMMA ForwardAnswers ==
  ASSUME ListAssumption, DataOK, opts \in Requests, NEW sc, NEW left, NEW o,
         ScanOK(sc), ForwardOK(sc, left, o), ~opts.reverse, opts.limit > 0,
         sc = <<>> \/ Len(o) >= opts.limit
  PROVE  o = Promised
  <1>. DEFINE v == InOrder(Visible)
              s == Seen(sc)
              skip == opts.skip
              limit == opts.limit
              u == Page(v, skip, limit)
  <1>1. skip \in Nat /\ limit \in Nat /\ limit > 0
    BY RequestTyped, Zenon
  <1>2. /\ v \in Seq(UserKeys) /\ Len(v) \in Nat /\ Len(s) <= Len(v)
        /\ \A i \in 1 .. Len(s) : v[i] = s[i]
        /\ sc = <<>> => s = v
    BY SeenFirst, Zenon
  <1>3. /\ u \in Seq(UserKeys) /\ Len(u) \in Nat /\ Len(u) <= limit
        /\ Len(v) <= skip => Len(u) = 0
        /\ skip < Len(v) /\ Len(v) <= skip + limit => Len(u) = Len(v) - skip
        /\ skip + limit <= Len(v) => Len(u) = limit
        /\ \A i \in 1 .. Len(u) : u[i] = v[skip + i]
    <2>. HIDE DEF v, skip, limit
    <2>1. u \in Seq(UserKeys) /\ IsPage(u, v, skip, limit)
      BY <1>1, <1>2, Paged, Zenon
    <2>. QED BY <2>1, Zenon DEF IsPage
  <1>4. /\ left \in 0 .. skip /\ o \in Seq(UserKeys) /\ Len(o) <= limit
        /\ Len(s) = skip - left + Len(o)
        /\ \A i \in 1 .. Len(o) : o[i] = s[skip - left + i]
        /\ Len(o) > 0 => left = 0
    BY Zenon DEF ForwardOK
  <1>5. Promised = u
    BY PromisedPage, Zenon
  <1>6. sc = <<>> \/ Len(o) >= limit
    BY Zenon
  <1>. HIDE DEF u, v, s, skip, limit
  <1>7. /\ Len(o) \in Nat /\ left \in Nat /\ left <= skip
        /\ Len(s) = skip - left + Len(o) /\ Len(o) <= limit /\ (Len(o) > 0 => left = 0)
    BY <1>1, <1>4
  <1>8. Len(o) = Len(u)
    <2>1. CASE Len(o) >= limit
      <3>1. Len(o) = limit /\ left = 0 /\ Len(s) = skip + limit
        BY <1>1, <1>7, <2>1
      <3>. QED BY <1>2, <1>3, <3>1, Zenon
    <2>2. CASE sc = <<>>
      <3>1. Len(v) = skip - left + Len(o)
        BY <1>2, <1>4, <2>2, Zenon
      <3>. QED BY <1>1, <1>3, <1>7, <3>1
    <2>. QED BY <1>6, <2>1, <2>2, Zenon
  <1>9. ASSUME NEW i \in 1 .. Len(o) PROVE o[i] = u[i]
    <2>1. left = 0 /\ skip - left + i = skip + i /\ skip + i \in 1 .. Len(s) /\ i \in 1 .. Len(u)
      BY <1>1, <1>4, <1>7, <1>8
    <2>2. o[i] = s[skip + i]
      BY <1>4, <2>1, Zenon
    <2>. QED BY <1>2, <1>3, <2>1, <2>2, Zenon
  <1>. QED BY <1>3, <1>4, <1>5, <1>8, <1>9, SeqEqual, Zenon

\* Reverse, entry by entry.
LEMMA Reversed ==
  ASSUME NEW S, NEW s \in Seq(S)
  PROVE  /\ Reverse(s) \in Seq(S) /\ Len(Reverse(s)) = Len(s)
         /\ \A i \in 1 .. Len(s) : Reverse(s)[i] = s[(Len(s) - i) + 1]
  BY DEF Reverse

\* The last of what was seen, reversed, has the promised page of a reverse
\* listing: the window keeps enough.
LEMMA ReverseAnswers ==
  ASSUME ListAssumption, DataOK, opts \in Requests, NEW o,
         ScanOK(<<>>), ReverseOK(<<>>, o), opts.reverse
  PROVE  Page(Reverse(o), opts.skip, opts.limit) = Promised
  <1>. DEFINE v == InOrder(Visible)
              skip == opts.skip
              limit == opts.limit
              ro == Reverse(o)
              rv == Reverse(v)
              u == Page(ro, skip, limit)
              w == Page(rv, skip, limit)
  <1>1. skip \in Nat /\ limit \in Nat
    BY RequestTyped, Zenon
  <1>2. v \in Seq(UserKeys) /\ Len(v) \in Nat /\ Seen(<<>>) = v
    BY SeenFirst, Zenon
  <1>3. /\ o \in Seq(UserKeys)
        /\ Len(o) = IF Len(v) < skip + limit THEN Len(v) ELSE skip + limit
        /\ \A i \in 1 .. Len(o) : o[i] = v[Len(v) - Len(o) + i]
    BY <1>2, Zenon DEF ReverseOK
  <1>4. Promised = w
    BY PromisedPage, Zenon
  <1>. HIDE DEF v, skip, limit
  <1>5. Len(o) \in Nat /\ Len(o) <= Len(v)
    BY <1>1, <1>2, <1>3
  <1>6. ro \in Seq(UserKeys) /\ Len(ro) = Len(o) /\ \A i \in 1 .. Len(o) : ro[i] = o[(Len(o) - i) + 1]
    BY <1>3, Reversed, Zenon
  <1>7. rv \in Seq(UserKeys) /\ Len(rv) = Len(v) /\ \A i \in 1 .. Len(v) : rv[i] = v[(Len(v) - i) + 1]
    BY <1>2, Reversed, Zenon
  <1>. HIDE DEF ro, rv
  <1>8. ASSUME NEW i \in 1 .. Len(o) PROVE ro[i] = rv[i]
    <2>1. /\ (Len(o) - i) + 1 \in 1 .. Len(o) /\ i \in 1 .. Len(v)
          /\ Len(v) - Len(o) + ((Len(o) - i) + 1) = (Len(v) - i) + 1
      BY <1>2, <1>5
    <2>2. o[(Len(o) - i) + 1] = v[Len(v) - Len(o) + ((Len(o) - i) + 1)]
      BY <1>3, <2>1, Zenon
    <2>. QED BY <1>6, <1>7, <2>1, <2>2, Zenon
  <1>9. u \in Seq(UserKeys) /\ IsPage(u, ro, skip, limit)
    BY <1>1, <1>6, Paged, Zenon
  <1>10. w \in Seq(UserKeys) /\ IsPage(w, rv, skip, limit)
    BY <1>1, <1>7, Paged, Zenon
  <1>. HIDE DEF u, w
  <1>11. /\ Len(u) \in Nat /\ Len(u) <= limit
         /\ Len(o) <= skip => Len(u) = 0
         /\ skip < Len(o) /\ Len(o) <= skip + limit => Len(u) = Len(o) - skip
         /\ skip + limit <= Len(o) => Len(u) = limit
    BY <1>6, <1>9, Zenon DEF IsPage
  <1>12. /\ Len(w) \in Nat /\ Len(w) <= limit
         /\ Len(v) <= skip => Len(w) = 0
         /\ skip < Len(v) /\ Len(v) <= skip + limit => Len(w) = Len(v) - skip
         /\ skip + limit <= Len(v) => Len(w) = limit
    BY <1>7, <1>10, Zenon DEF IsPage
  <1>13. Len(o) = Len(v) \/ (Len(o) = skip + limit /\ skip + limit <= Len(v))
    BY <1>1, <1>2, <1>3
  <1>14. Len(u) = Len(w)
    BY <1>1, <1>2, <1>5, <1>11, <1>12, <1>13
  <1>15. ASSUME NEW i \in 1 .. Len(u) PROVE u[i] = w[i]
    <2>1. skip + i \in 1 .. Len(o) /\ i \in 1 .. Len(w)
      BY <1>1, <1>5, <1>11, <1>13, <1>14
    <2>2. u[i] = ro[skip + i] /\ w[i] = rv[skip + i]
      BY <1>9, <1>10, <2>1, Zenon DEF IsPage
    <2>. QED BY <1>8, <2>1, <2>2, Zenon
  <1>16. u = w
    BY <1>9, <1>10, <1>14, <1>15, SeqEqual, Zenon
  <1>. QED BY <1>4, <1>16, Zenon DEF u, ro, skip, limit

\* An entry of a forward scan keeps it right.
LEMMA ForwardKeeps ==
  ASSUME ListAssumption, DataOK, opts \in Requests, NEW sc, NEW left, NEW o,
         ScanOK(sc), sc # <<>>, ForwardOK(sc, left, o), Len(o) < opts.limit
  PROVE  LET h == UserKeyOf(Head(sc), Bucket)
         IN /\ Status(Head(sc)) = "expired" => ForwardOK(Tail(sc), left, o)
            /\ Status(Head(sc)) # "expired" /\ left > 0 => ForwardOK(Tail(sc), left - 1, o)
            /\ Status(Head(sc)) # "expired" /\ ~(left > 0) => ForwardOK(Tail(sc), left, Append(o, h))
  <1>. DEFINE s == Seen(sc)
              t == Seen(Tail(sc))
              h == UserKeyOf(Head(sc), Bucket)
              skip == opts.skip
              limit == opts.limit
  <1>1. skip \in Nat /\ limit \in Nat /\ Len(o) < limit
    BY RequestTyped, Zenon
  <1>2. /\ Len(s) \in Nat
        /\ Status(Head(sc)) = "expired" => t = s
        /\ Status(Head(sc)) # "expired" => /\ Len(t) = Len(s) + 1
                                           /\ \A i \in 1 .. Len(s) : t[i] = s[i]
                                           /\ t[Len(s) + 1] = h
    BY SeenGrows, Zenon
  <1>3. h \in UserKeys
    BY ScanAdvances, Zenon
  <1>4. /\ left \in 0 .. skip /\ o \in Seq(UserKeys) /\ Len(o) <= limit
        /\ Len(s) = skip - left + Len(o)
        /\ \A i \in 1 .. Len(o) : o[i] = s[skip - left + i]
        /\ Len(o) > 0 => left = 0
    BY Zenon DEF ForwardOK
  <1>5. ASSUME Status(Head(sc)) = "expired" PROVE ForwardOK(Tail(sc), left, o)
    <2>1. Seen(Tail(sc)) = Seen(sc)
      BY <1>2, <1>5, Zenon
    <2>. QED BY <2>1, Zenon DEF ForwardOK
  <1>. HIDE DEF s, t, h, skip, limit
  <1>6. /\ left \in Nat /\ left <= skip /\ Len(o) \in Nat
        /\ Len(s) = skip - left + Len(o) /\ (Len(o) > 0 => left = 0)
    BY <1>1, <1>4
  <1>7. ASSUME Status(Head(sc)) # "expired", left > 0 PROVE ForwardOK(Tail(sc), left - 1, o)
    <2>1. /\ left - 1 \in 0 .. skip /\ Len(o) = 0 /\ Len(t) = skip - (left - 1) + Len(o)
          /\ \A i \in 1 .. Len(o) : FALSE
      BY <1>1, <1>2, <1>6, <1>7
    <2>2. Len(o) <= limit /\ ~(Len(o) > 0)
      BY <1>1, <2>1
    <2>. QED BY <1>4, <2>1, <2>2, Zenon DEF ForwardOK, t, skip, limit
  <1>8. ASSUME Status(Head(sc)) # "expired", ~(left > 0) PROVE ForwardOK(Tail(sc), left, Append(o, h))
    <2>. DEFINE q == Append(o, h)
    <2>1. left = 0 /\ Len(s) = skip + Len(o) /\ left \in 0 .. skip
      BY <1>1, <1>6, <1>8
    <2>2. /\ q \in Seq(UserKeys) /\ Len(q) = Len(o) + 1 /\ q[Len(o) + 1] = h
          /\ \A i \in 1 .. Len(o) : q[i] = o[i]
      BY <1>3, <1>4
    <2>. HIDE DEF q
    <2>3. Len(q) <= limit /\ Len(t) = skip - left + Len(q)
      BY <1>1, <1>2, <1>6, <1>8, <2>1, <2>2
    <2>4. ASSUME NEW i \in 1 .. Len(q) PROVE q[i] = t[skip - left + i]
      <3>1. CASE i = Len(o) + 1
        <4>1. skip - left + i = Len(s) + 1
          BY <1>1, <1>6, <2>1, <3>1
        <4>. QED BY <1>2, <1>8, <2>2, <3>1, <4>1, Zenon
      <3>2. CASE i \in 1 .. Len(o)
        <4>1. skip - left + i \in 1 .. Len(s)
          BY <1>1, <1>6, <2>1, <3>2
        <4>. QED BY <1>2, <1>4, <1>8, <2>2, <3>2, <4>1, Zenon
      <3>. QED BY <1>6, <2>2, <3>1, <3>2
    <2>. QED BY <2>1, <2>2, <2>3, <2>4, Zenon DEF ForwardOK, q, t, skip, limit
  <1>. QED BY <1>5, <1>7, <1>8, Zenon DEF h

\* So does an entry of a reverse scan.
LEMMA ReverseKeeps ==
  ASSUME ListAssumption, DataOK, opts \in Requests, NEW sc, NEW o,
         ScanOK(sc), sc # <<>>, ReverseOK(sc, o), opts.limit > 0
  PROVE  LET q == Append(o, UserKeyOf(Head(sc), Bucket))
         IN /\ Status(Head(sc)) = "expired" => ReverseOK(Tail(sc), o)
            /\ Status(Head(sc)) # "expired" =>
                 ReverseOK(Tail(sc), IF Len(q) > opts.skip + opts.limit THEN Tail(q) ELSE q)
  <1>. DEFINE s == Seen(sc)
              t == Seen(Tail(sc))
              h == UserKeyOf(Head(sc), Bucket)
              q == Append(o, h)
              tq == Tail(q)
              win == opts.skip + opts.limit
  <1>1. win \in Nat /\ win > 0
    <2>1. opts.skip \in Nat /\ opts.limit \in Nat /\ opts.limit > 0
      BY RequestTyped, Zenon
    <2>. QED BY <2>1
  <1>2. /\ Len(s) \in Nat
        /\ Status(Head(sc)) = "expired" => t = s
        /\ Status(Head(sc)) # "expired" => /\ Len(t) = Len(s) + 1
                                           /\ \A i \in 1 .. Len(s) : t[i] = s[i]
                                           /\ t[Len(s) + 1] = h
    BY SeenGrows, Zenon
  <1>3. h \in UserKeys
    BY ScanAdvances, Zenon
  <1>4. /\ o \in Seq(UserKeys)
        /\ Len(o) = IF Len(s) < win THEN Len(s) ELSE win
        /\ \A i \in 1 .. Len(o) : o[i] = s[Len(s) - Len(o) + i]
    BY Zenon DEF ReverseOK
  <1>5. ASSUME Status(Head(sc)) = "expired" PROVE ReverseOK(Tail(sc), o)
    <2>1. Seen(Tail(sc)) = Seen(sc)
      BY <1>2, <1>5, Zenon
    <2>. QED BY <2>1, Zenon DEF ReverseOK
  <1>. HIDE DEF s, t, h, win
  <1>6. /\ q \in Seq(UserKeys) /\ Len(q) = Len(o) + 1 /\ q[Len(o) + 1] = h
        /\ \A i \in 1 .. Len(o) : q[i] = o[i]
    BY <1>3, <1>4
  <1>. HIDE DEF q
  <1>7. Len(o) \in Nat /\ Len(o) <= Len(s) /\ Len(o) <= win /\ (Len(o) = Len(s) \/ Len(o) = win)
    BY <1>1, <1>2, <1>4
  <1>8. ASSUME Status(Head(sc)) # "expired", NEW i \in 1 .. Len(q)
        PROVE  q[i] = t[Len(t) - Len(q) + i]
    <2>0. /\ Len(t) = Len(s) + 1 /\ Len(q) = Len(o) + 1
          /\ Len(s) \in Nat /\ Len(o) \in Nat /\ Len(o) <= Len(s)
      BY <1>2, <1>6, <1>7, <1>8, Zenon
    <2>1. CASE i = Len(o) + 1
      <3>1. Len(t) - Len(q) + i = Len(s) + 1
        BY <2>0, <2>1
      <3>. QED BY <1>2, <1>6, <1>8, <2>1, <3>1, Zenon
    <2>2. CASE i \in 1 .. Len(o)
      <3>1. Len(s) - Len(o) + i \in 1 .. Len(s) /\ Len(t) - Len(q) + i = Len(s) - Len(o) + i
        BY <2>0, <2>2
      <3>. QED BY <1>2, <1>4, <1>6, <1>8, <2>2, <3>1, Zenon
    <2>. QED BY <1>6, <1>7, <2>1, <2>2
  <1>9. ASSUME Status(Head(sc)) # "expired", ~(Len(q) > win) PROVE ReverseOK(Tail(sc), q)
    <2>1. Len(q) = IF Len(t) < win THEN Len(t) ELSE win
      BY <1>1, <1>2, <1>6, <1>7, <1>9
    <2>. QED BY <1>6, <1>8, <1>9, <2>1, Zenon DEF ReverseOK, t, win
  <1>10. ASSUME Status(Head(sc)) # "expired", Len(q) > win PROVE ReverseOK(Tail(sc), tq)
    <2>1. /\ tq \in Seq(UserKeys) /\ Len(tq) = Len(q) - 1 /\ \A i \in 1 .. Len(tq) : tq[i] = q[i + 1]
      BY <1>6, <1>7
    <2>. HIDE DEF tq
    <2>2. Len(tq) = win /\ Len(o) = win /\ Len(q) = win + 1 /\ ~(Len(t) < win) /\ Len(t) \in Nat
      BY <1>1, <1>2, <1>6, <1>7, <1>10, <2>1
    <2>3. ASSUME NEW i \in 1 .. Len(tq) PROVE tq[i] = t[Len(t) - Len(tq) + i]
      <3>1. i + 1 \in 1 .. Len(q) /\ Len(t) - Len(q) + (i + 1) = Len(t) - Len(tq) + i
        BY <1>1, <2>2
      <3>2. q[i + 1] = t[Len(t) - Len(q) + (i + 1)]
        BY <1>8, <1>10, <3>1, Zenon
      <3>. QED BY <2>1, <3>1, <3>2, Zenon
    <2>4. Len(tq) = IF Len(t) < win THEN Len(t) ELSE win
      BY <2>2, Zenon
    <2>. QED BY <2>1, <2>3, <2>4, Zenon DEF ReverseOK, t, win
  <1>. QED BY <1>5, <1>9, <1>10, Zenon DEF q, h, tq, win

-----------------------------------------------------------------------------
(* The invariant *)

\* A request starts with nothing collected.
LEMMA InitList ==
  ASSUME Init
  PROVE  ListInv
  <1>1. PICK stored \in SUBSET (Buckets \X UserKeys) : data \in [stored -> {"live", "expired"}]
    BY Zenon DEF Init
  <1>2. DataOK
    BY <1>1, Zenon DEF DataOK
  <1>. QED BY <1>2, Zenon DEF Init, ListInv

\* The keyspace and the request are fixed, so what is said of a scan before a
\* step is said of it after.
LEMMA Fixed ==
  ASSUME data' = data, opts' = opts
  PROVE  /\ DataOK' <=> DataOK
         /\ Promised' = Promised
         /\ \A sc : /\ ScanOK(sc)' <=> ScanOK(sc)
                    /\ \A o : (ReverseOK(sc, o)' <=> ReverseOK(sc, o))
                    /\ \A o, left : (ForwardOK(sc, left, o)' <=> ForwardOK(sc, left, o))
  BY DEF DataOK, Promised, ScanOK, ReverseOK, ForwardOK, Seen, Passed, Visible, Matching, Asked,
         SK, DataStorageKey, InOrder, Page, Before, StartsWith

\* Every step of a listing keeps the invariant.
LEMMA NextList ==
  ASSUME ListAssumption, ListInv, [Next]_vars
  PROVE  ListInv'
  <1>1. DataOK /\ opts \in Requests /\ pc \in {"start", "forward", "reverse", "done"}
    BY Zenon DEF ListInv
  <1>2. opts.skip \in Nat /\ opts.limit \in Nat /\ opts.reverse \in BOOLEAN
    BY <1>1, RequestTyped, Zenon
  <1>3. ASSUME data' = data, opts' = opts
        PROVE  /\ DataOK' /\ opts' \in Requests /\ Requests' = Requests /\ Promised' = Promised
               /\ \A sc : /\ ScanOK(sc)' <=> ScanOK(sc)
                          /\ \A o : (ReverseOK(sc, o)' <=> ReverseOK(sc, o))
                          /\ \A o, left : (ForwardOK(sc, left, o)' <=> ForwardOK(sc, left, o))
    <2>1. Requests' = Requests
      BY Zenon DEF Requests
    <2>. QED BY <1>1, <1>3, <2>1, Fixed, Zenon
  <1>4. ASSUME data' = data, opts' = opts, pc' = "done",
               answer' \in {ReadError, Panicked} \/ answer' = Promised
        PROVE  ListInv'
    <2>1. DataOK' /\ opts' \in Requests' /\ Promised' = Promised
      BY <1>3, <1>4, Zenon
    <2>. QED BY <1>4, <2>1, Zenon DEF ListInv
  <1>5. CASE Start
    <2>. DEFINE p == CombineScopedPrefix(opts.scope, opts.prefix)
    <2>1. pc = "start" /\ out = <<>> /\ data' = data /\ opts' = opts /\ out' = out
      BY <1>5, Zenon DEF Start, ListInv
    <2>2. CASE p = None \/ opts.limit = 0
      <3>1. answer' = <<>> /\ pc' = "done"
        BY <1>5, <2>2, Zenon DEF Start, Answer
      <3>2. <<>> = Promised
        <4>. DEFINE v == InOrder(Visible)
                    ord == IF opts.reverse THEN Reverse(v) ELSE v
                    u == Page(ord, opts.skip, opts.limit)
        <4>1. v \in Seq(UserKeys) /\ (p = None => v = <<>>)
          <5>1. /\ Visible \subseteq UserKeys /\ UserKeys \subseteq Strings /\ IsFiniteSet(Visible)
            <6>1. /\ Visible \subseteq Matching /\ Matching \subseteq UserKeys
                  /\ UserKeys \subseteq Strings /\ IsFiniteSet(Visible)
              BY Bytes, Zenon
            <6>. QED BY <6>1, Zenon
          <5>2. Lists(v, Visible)
            BY <5>1, InOrderLists, Zenon
          <5>3. v \in Seq(Visible)
            BY <5>2, ListsTyped, Zenon
          <5>4. v \in Seq(UserKeys)
            <6>. HIDE DEF v
            <6>. QED BY <5>1, <5>3
          <5>5. ASSUME p = None PROVE v = <<>>
            <6>1. ASSUME NEW k \in UserKeys PROVE ~Asked(k)
              BY <1>1, <5>5, Combined, Zenon
            <6>2. Visible = {}
              BY <6>1, Zenon DEF Visible, Matching
            <6>. QED BY <6>2, InOrderSmall, Zenon
          <5>. QED BY <5>4, <5>5, Zenon
        <4>. HIDE DEF v, p
        <4>2. ord \in Seq(UserKeys) /\ Len(ord) = Len(v)
          <5>1. Reverse(v) \in Seq(UserKeys) /\ Len(Reverse(v)) = Len(v)
            BY <4>1, Reversed, Zenon
          <5>. QED BY <4>1, <5>1, Zenon
        <4>. HIDE DEF ord
        <4>3. u \in Seq(UserKeys) /\ IsPage(u, ord, opts.skip, opts.limit)
          BY <1>2, <4>2, Paged, Zenon
        <4>4. Len(u) \in Nat /\ Len(u) <= opts.limit /\ (Len(ord) <= opts.skip => Len(u) = 0)
          BY <4>3, Zenon DEF IsPage
        <4>. HIDE DEF u
        <4>5. Len(u) = 0
          <5>1. CASE opts.limit = 0
            BY <4>4, <5>1
          <5>2. CASE p = None
            <6>1. Len(v) = 0
              BY <4>1, <5>2
            <6>. QED BY <1>2, <4>2, <4>4, <6>1
          <5>. QED BY <2>2, <5>1, <5>2, Zenon DEF p
        <4>6. u = <<>>
          BY <4>3, <4>5
        <4>. QED BY <4>6, PromisedPage, Zenon DEF u, ord, v
      <3>. QED BY <1>4, <2>1, <3>1, <3>2, Zenon
    <2>3. CASE ~(p = None \/ opts.limit = 0) /\ opts.reverse /\ Window(opts) > MaxCapacity
      <3>1. answer' = Panicked /\ pc' = "done"
        BY <1>5, <2>3, Zenon DEF Start, Answer
      <3>. QED BY <1>4, <2>1, <3>1, Zenon
    <2>4. CASE ~(p = None \/ opts.limit = 0) /\ ~(opts.reverse /\ Window(opts) > MaxCapacity)
      <3>1. /\ pc' = IF opts.reverse THEN "reverse" ELSE "forward"
            /\ scan' = PrefixScan(SK(p)) /\ skipLeft' = opts.skip /\ answer' = answer
        BY <1>5, <2>4, Zenon DEF Start, SK
      <3>2. ScanOK(scan') /\ Passed(scan') = {}
        BY <1>1, <2>4, <3>1, ScanStarts, Zenon
      <3>3. Seen(scan') = <<>> /\ Len(Seen(scan')) = 0
        BY <3>2, InOrderSmall DEF Seen
      <3>4. out' = <<>> /\ out' \in Seq(UserKeys) /\ Len(out') = 0 /\ \A i \in 1 .. Len(out') : FALSE
        BY <2>1
      <3>5. opts.limit > 0
        BY <1>2, <2>4
      <3>6. ForwardOK(scan', skipLeft', out')
        <4>1. skipLeft' \in 0 .. opts.skip /\ Len(out') <= opts.limit /\ ~(Len(out') > 0)
              /\ Len(Seen(scan')) = opts.skip - skipLeft' + Len(out')
          BY <1>2, <3>1, <3>3, <3>4
        <4>. QED BY <3>4, <4>1, Zenon DEF ForwardOK
      <3>7. ReverseOK(scan', out')
        <4>1. Len(out') = IF Len(Seen(scan')) < opts.skip + opts.limit THEN Len(Seen(scan')) ELSE opts.skip + opts.limit
          BY <1>2, <3>3, <3>4, <3>5
        <4>. QED BY <3>4, <4>1, Zenon DEF ReverseOK
      <3>8. opts.reverse => Window(opts) = opts.skip + opts.limit
        BY <1>2, <2>4 DEF Window, ListAssumption
      <3>9. answer = None
        BY <2>1, Zenon DEF ListInv
      <3>10. /\ DataOK' /\ opts' \in Requests' /\ Window(opts)' = Window(opts)
             /\ (ScanOK(scan))' /\ (ForwardOK(scan, skipLeft, out))' /\ (ReverseOK(scan, out))'
        BY <1>3, <2>1, <3>2, <3>6, <3>7, Zenon DEF Window
      <3>. QED BY <1>2, <2>1, <3>1, <3>5, <3>8, <3>9, <3>10, Zenon DEF ListInv
    <2>. QED BY <2>2, <2>3, <2>4, Zenon
  <1>6. CASE ReverseNext
    <2>. DEFINE h == Head(scan)
                q == Append(out, UserKeyOf(h, Bucket))
                win == opts.skip + opts.limit
    <2>1. /\ pc = "reverse" /\ scan # <<>> /\ data' = data /\ opts' = opts /\ pc' = pc
          /\ scan' = Tail(scan) /\ answer' = answer
          /\ out' = IF Status(h) = "expired" THEN out ELSE IF Len(q) > Window(opts) THEN Tail(q) ELSE q
      BY <1>6, Zenon DEF ReverseNext
    <2>2. /\ opts.limit > 0 /\ ScanOK(scan) /\ opts.reverse /\ Window(opts) = win
          /\ ReverseOK(scan, out) /\ answer = None
      BY <2>1, Zenon DEF ListInv
    <2>3. ScanOK(Tail(scan))
      BY <1>1, <2>1, <2>2, ScanAdvances, Zenon
    <2>4. /\ Status(h) = "expired" => ReverseOK(Tail(scan), out)
          /\ Status(h) # "expired" => ReverseOK(Tail(scan), IF Len(q) > win THEN Tail(q) ELSE q)
      BY <1>1, <2>1, <2>2, ReverseKeeps, Zenon
    <2>. HIDE DEF h, q
    <2>5. ReverseOK(scan', out')
      <3>1. CASE Status(h) = "expired"
        BY <2>1, <2>4, <3>1, Zenon
      <3>2. CASE Status(h) # "expired"
        <4>1. out' = IF Len(q) > win THEN Tail(q) ELSE q
          BY <2>1, <2>2, <3>2, Zenon
        <4>. QED BY <2>1, <2>4, <3>2, <4>1, Zenon
      <3>. QED BY <3>1, <3>2, Zenon
    <2>6. /\ DataOK' /\ opts' \in Requests' /\ Window(opts)' = Window(opts)
          /\ (ScanOK(scan))' /\ (ReverseOK(scan, out))'
      BY <1>3, <2>1, <2>3, <2>5, Zenon DEF Window
    <2>. QED BY <1>2, <2>1, <2>2, <2>6, Zenon DEF ListInv
  <1>7. CASE ReverseEnd
    <2>1. /\ pc = "reverse" /\ scan = <<>> /\ data' = data /\ opts' = opts
          /\ answer' = Page(Reverse(out), opts.skip, opts.limit) /\ pc' = "done"
      BY <1>7, Zenon DEF ReverseEnd, Answer
    <2>2. ScanOK(<<>>) /\ opts.reverse /\ ReverseOK(<<>>, out)
      BY <2>1, Zenon DEF ListInv
    <2>3. answer' = Promised
      BY <1>1, <2>1, <2>2, ReverseAnswers, Zenon
    <2>. QED BY <1>4, <2>1, <2>3, Zenon
  <1>8. CASE ForwardNext
    <2>. DEFINE h == Head(scan)
                q == Append(out, UserKeyOf(h, Bucket))
    <2>1. /\ pc = "forward" /\ scan # <<>> /\ Len(out) < opts.limit
          /\ data' = data /\ opts' = opts /\ pc' = pc /\ scan' = Tail(scan) /\ answer' = answer
          /\ \/ Status(h) = "expired" /\ skipLeft' = skipLeft /\ out' = out
             \/ Status(h) # "expired" /\ skipLeft > 0 /\ skipLeft' = skipLeft - 1 /\ out' = out
             \/ Status(h) # "expired" /\ ~(skipLeft > 0) /\ skipLeft' = skipLeft /\ out' = q
      BY <1>8, Zenon DEF ForwardNext
    <2>2. opts.limit > 0 /\ ScanOK(scan) /\ ~opts.reverse /\ ForwardOK(scan, skipLeft, out) /\ answer = None
      BY <2>1, Zenon DEF ListInv
    <2>3. ScanOK(Tail(scan))
      BY <1>1, <2>1, <2>2, ScanAdvances, Zenon
    <2>4. /\ Status(h) = "expired" => ForwardOK(Tail(scan), skipLeft, out)
          /\ Status(h) # "expired" /\ skipLeft > 0 => ForwardOK(Tail(scan), skipLeft - 1, out)
          /\ Status(h) # "expired" /\ ~(skipLeft > 0) => ForwardOK(Tail(scan), skipLeft, q)
      BY <1>1, <2>1, <2>2, ForwardKeeps, Zenon
    <2>. HIDE DEF h, q
    <2>5. ForwardOK(scan', skipLeft', out')
      BY <2>1, <2>4, Zenon
    <2>6. /\ DataOK' /\ opts' \in Requests' /\ (ScanOK(scan))' /\ (ForwardOK(scan, skipLeft, out))'
      BY <1>3, <2>1, <2>3, <2>5, Zenon
    <2>. QED BY <1>2, <2>1, <2>2, <2>6, Zenon DEF ListInv
  <1>9. CASE ForwardEnd
    <2>1. /\ pc = "forward" /\ (scan = <<>> \/ Len(out) >= opts.limit) /\ data' = data /\ opts' = opts
          /\ answer' = out /\ pc' = "done"
      BY <1>9, Zenon DEF ForwardEnd, Answer
    <2>2. opts.limit > 0 /\ ScanOK(scan) /\ ~opts.reverse /\ ForwardOK(scan, skipLeft, out)
      BY <2>1, Zenon DEF ListInv
    <2>3. out = Promised
      BY <1>1, <2>1, <2>2, ForwardAnswers, Zenon
    <2>. QED BY <1>4, <2>1, <2>3, Zenon
  <1>10. CASE ScanError
    <2>1. data' = data /\ opts' = opts /\ answer' = ReadError /\ pc' = "done"
      BY <1>10, Zenon DEF ScanError, Answer
    <2>. QED BY <1>4, <2>1, Zenon
  <1>11. CASE UNCHANGED vars
    <2>1. /\ data' = data /\ opts' = opts /\ pc' = pc /\ scan' = scan /\ skipLeft' = skipLeft
          /\ out' = out /\ answer' = answer
      BY <1>11, Zenon DEF vars
    <2>2. DataOK' /\ opts' \in Requests' /\ Promised' = Promised
      BY <1>3, <2>1, Zenon
    <2>3. Window(opts)' = Window(opts)
      BY <2>1, Zenon DEF Window
    <2>4. /\ (ScanOK(scan))' <=> ScanOK(scan)
          /\ (ForwardOK(scan, skipLeft, out))' <=> ForwardOK(scan, skipLeft, out)
          /\ (ReverseOK(scan, out))' <=> ReverseOK(scan, out)
      BY <1>3, <2>1, Zenon
    <2>. QED BY <2>1, <2>2, <2>3, <2>4, Zenon DEF ListInv
  <1>. QED BY <1>5, <1>6, <1>7, <1>8, <1>9, <1>10, <1>11, Zenon DEF Next

\* The invariant of a listing.
LEMMA ListInvariant ==
  ASSUME ListAssumption
  PROVE  Spec => []ListInv
  <1>1. Init => ListInv
    BY InitList, Zenon
  <1>2. ListInv /\ [Next]_vars => ListInv'
    BY NextList, Zenon
  <1>. QED BY <1>1, <1>2, PTL DEF Spec

-----------------------------------------------------------------------------
\* A listing that answers gives the live keys of the bucket that have the
\* requested prefix and lie in the token's scope, in byte order or its
\* reverse, without the first `skip`, at most `limit` of them: list_inner's
\* two loops over the storage keys, and combine_scoped_prefix.
THEOREM ListsWhatIsPromised ==
  ASSUME ListAssumption
  PROVE  Spec => []AnswersPromised
  <1>1. ListInv => AnswersPromised
    BY Zenon DEF ListInv, AnswersPromised
  <1>. QED BY <1>1, ListInvariant, PTL

\* A reverse scan never holds more than skip + limit entries, and no answer
\* is longer than its limit.
THEOREM WindowHolds ==
  ASSUME ListAssumption
  PROVE  Spec => []WindowBounded
  <1>1. ASSUME ListInv PROVE WindowBounded
    <2>1. DataOK /\ opts \in Requests
      BY <1>1, Zenon DEF ListInv
    <2>2. opts.skip \in Nat /\ opts.limit \in Nat
      BY <2>1, RequestTyped, Zenon
    <2>3. ASSUME pc = "reverse" PROVE Len(out) <= Window(opts)
      <3>1. ScanOK(scan) /\ ReverseOK(scan, out) /\ Window(opts) = opts.skip + opts.limit
        BY <1>1, <2>3, Zenon DEF ListInv
      <3>2. Len(Seen(scan)) \in Nat
        BY <2>1, <3>1, SeenGrows, Zenon
      <3>3. Len(out) = IF Len(Seen(scan)) < opts.skip + opts.limit THEN Len(Seen(scan)) ELSE opts.skip + opts.limit
        BY <3>1, Zenon DEF ReverseOK
      <3>. QED BY <2>2, <3>1, <3>2, <3>3
    <2>4. ASSUME pc = "done", answer \notin {ReadError, Panicked} PROVE Len(answer) <= opts.limit
      <3>. DEFINE v == InOrder(Visible)
                  ord == IF opts.reverse THEN Reverse(v) ELSE v
      <3>1. answer = Page(ord, opts.skip, opts.limit)
        BY <1>1, <2>4, PromisedPage, Zenon DEF ListInv
      <3>2. Lists(v, Visible)
        <4>1. /\ Visible \subseteq Matching /\ Matching \subseteq UserKeys
              /\ UserKeys \subseteq Strings /\ IsFiniteSet(Visible)
          BY Bytes, Zenon
        <4>2. Visible \in SUBSET Strings
          BY <4>1, Zenon
        <4>. QED BY <4>1, <4>2, InOrderLists, Zenon
      <3>3. v \in Seq(Visible)
        BY <3>2, ListsTyped, Zenon
      <3>4. ord \in Seq(Visible)
        <4>. HIDE DEF v
        <4>1. Reverse(v) \in Seq(Visible)
          BY <3>3, Reversed, Zenon
        <4>. QED BY <3>3, <4>1, Zenon
      <3>. HIDE DEF ord
      <3>5. IsPage(answer, ord, opts.skip, opts.limit)
        BY <2>2, <3>1, <3>4, Paged, Zenon
      <3>. QED BY <3>5, Zenon DEF IsPage
    <2>. QED BY <2>3, <2>4, Zenon DEF WindowBounded
  <1>. QED BY <1>1, ListInvariant, PTL
=============================================================================
