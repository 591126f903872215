------------------------ MODULE CacheEvictionProofs ------------------------
(***************************************************************************)
(* What ExpireCache evicts, for any keys, contents and limit: the proof of *)
(* EvictionIsFrugal.  The loop over the rows is a recursive function; what *)
(* it computes is shown by induction over the rows, in the form that a set *)
(* of indices with the first one, and with each its successor, has all.    *)
(***************************************************************************)
EXTENDS BlobStores, TLAPS, FiniteSetTheorems

\* A nonempty set of numbers has a least one.
LEMMA LeastOf ==
  ASSUME NEW S \in SUBSET Nat, S # {}
  PROVE  \E k \in S : \A l \in S : k <= l
<1>. DEFINE less == {p \in Nat \X Nat : p[1] < p[2]}
<1>1. IsWellFoundedOn(less, Nat)
  BY Zenon, NatLessThanWellFounded DEF OpToRel
<1>2. PICK k \in S : \A l \in S : <<l, k>> \notin less
  BY Zenon, <1>1, WFMin
<1>3. ASSUME NEW l \in S, l < k  PROVE FALSE
  <2>1. <<l, k>> \in less
    BY Zenon, <1>3
  <2>. QED
    BY Zenon, <1>2, <2>1
<1>4. k \in Int /\ \A l \in S : l \in Int /\ ~(l < k)
  <2>. HIDE DEF less
  <2>. QED
    BY <1>3
<1>5. \A l \in S : k <= l
  BY <1>4
<1>. QED
  BY Zenon, <1>5

\* Induction over the indices of a sequence.
LEMMA AllIndices ==
  ASSUME NEW n \in Nat, NEW T \in SUBSET (0 .. n), 0 \in T,
         \A i \in 1 .. n : i - 1 \in T => i \in T
  PROVE  T = 0 .. n
<1>. SUFFICES ASSUME T # 0 .. n PROVE FALSE
  BY Zenon
<1>. DEFINE Rest == (0 .. n) \ T
<1>1. Rest \in SUBSET Nat /\ Rest # {}
  <2>1. 0 .. n \subseteq Nat
    OBVIOUS
  <2>. QED
    BY Zenon, <2>1
<1>2. PICK k \in Rest : \A l \in Rest : k <= l
  BY Zenon, <1>1, LeastOf
<1>3. k \in 1 .. n /\ k - 1 \in 0 .. n /\ ~(k <= k - 1)
  BY <1>2
<1>. QED
  BY Zenon, <1>2, <1>3

\* The functions that go from a, through n steps.
Iterations(X, a, n, step) ==
  {g \in [0 .. n -> X] : g[0] = a /\ \A i \in 1 .. n : g[i] = step[i][g[i - 1]]}

\* A function that is defined from its value at the index before exists.
LEMMA Iterates ==
  ASSUME NEW X, NEW a \in X, NEW n \in Nat, NEW step \in [1 .. n -> [X -> X]]
  PROVE  Iterations(X, a, n, step) # {}
<1>. DEFINE Upto(m, g) == /\ g \in [0 .. m -> X]
                          /\ g[0] = a
                          /\ \A i \in 1 .. m : g[i] = step[i][g[i - 1]]
            T == {m \in 0 .. n : \E g : Upto(m, g)}
<1>1. 0 \in T
  <2>1. Upto(0, [i \in 0 .. 0 |-> a])
    OBVIOUS
  <2>2. 0 \in 0 .. n
    OBVIOUS
  <2>. HIDE DEF Upto
  <2>. QED
    BY Zenon, <2>1, <2>2
<1>2. ASSUME NEW m \in 1 .. n, m - 1 \in T  PROVE m \in T
  <2>1. PICK g : Upto(m - 1, g)
    BY Zenon, <1>2
  <2>. DEFINE h == [i \in 0 .. m |-> IF i = m THEN step[m][g[m - 1]] ELSE g[i]]
  <2>2. /\ \A i \in 0 .. m : i = m \/ i \in 0 .. m - 1
        /\ m - 1 \in 0 .. m - 1 /\ m \notin 0 .. m - 1 /\ 0 \in 0 .. m - 1
    OBVIOUS
  <2>3. h \in [0 .. m -> X] /\ h[0] = a
    BY <2>1, <2>2
  <2>4. ASSUME NEW i \in 1 .. m  PROVE h[i] = step[i][h[i - 1]]
    <3>1. i \in 0 .. m /\ i - 1 \in 0 .. m - 1 /\ i - 1 \in 0 .. m
      OBVIOUS
    <3>2. h[i - 1] = g[i - 1]
      BY Zenon, <2>2, <3>1
    <3>3. CASE i = m
      BY Zenon, <3>1, <3>2, <3>3
    <3>4. CASE i # m
      <4>1. i \in 1 .. m - 1
        BY <3>4
      <4>. QED
        BY Zenon, <2>1, <3>1, <3>2, <3>4, <4>1
    <3>. QED
      BY Zenon, <3>3, <3>4
  <2>. HIDE DEF h
  <2>5. Upto(m, h)
    BY Zenon, <2>3, <2>4
  <2>. QED
    BY <2>5
<1>3. n \in T
  <2>. HIDE DEF T
  <2>1. T = 0 .. n
    <3>1. T \in SUBSET (0 .. n)
      BY Zenon DEF T
    <3>. QED
      BY Zenon, <1>1, <1>2, <3>1, AllIndices
  <2>. QED
    BY <2>1
<1>4. PICK g : Upto(n, g)
  BY Zenon, <1>3
<1>5. g \in Iterations(X, a, n, step)
  BY Zenon, <1>4 DEF Iterations
<1>. QED
  BY Zenon, <1>5

-----------------------------------------------------------------------------
(***************************************************************************)
(* The keys of a sequence without some of them, and the size of contents.  *)
(***************************************************************************)

\* Without leaves the keys that are not in K, and no others.
LEMMA WithoutRange ==
  ASSUME NEW S, NEW s \in Seq(S), NEW K
  PROVE  Without(s, K) \in Seq(S) /\ Range(Without(s, K)) = Range(s) \ K
<1>. DEFINE n == Len(s)
            step == [i \in 1 .. n |-> [t \in Seq(S) |-> IF s[i] \in K THEN t ELSE Append(t, s[i])]]
            Rest(g) == [i \in 0 .. n |-> IF i = 0 THEN <<>>
                                        ELSE IF s[i] \in K THEN g[i - 1] ELSE Append(g[i - 1], s[i])]
            rest == CHOOSE g : g = Rest(g)
<1>1. n \in Nat /\ DOMAIN s = 1 .. n /\ <<>> \in Seq(S) /\ \A i \in 1 .. n : s[i] \in S
  OBVIOUS
<1>2. step \in [1 .. n -> [Seq(S) -> Seq(S)]]
  BY <1>1
<1>3. Without(s, K) = rest[n]
  BY Zenon DEF Without
<1>. HIDE DEF n
<1>4. PICK g : /\ g \in [0 .. n -> Seq(S)] /\ g[0] = <<>>
               /\ \A i \in 1 .. n : g[i] = step[i][g[i - 1]]
  <2>. HIDE DEF step
  <2>1. Iterations(Seq(S), <<>>, n, step) # {}
    BY Zenon, <1>1, <1>2, Iterates
  <2>. QED
    BY Zenon, <2>1 DEF Iterations
<1>5. g = Rest(g)
  <2>1. ASSUME NEW i \in 0 .. n
        PROVE  g[i] = Rest(g)[i]
    <3>1. CASE i = 0
      BY Zenon, <1>4, <3>1
    <3>2. CASE i # 0
      <4>1. i \in 1 .. n /\ i - 1 \in 0 .. n
        BY <1>1, <3>2
      <4>2. g[i] = step[i][g[i - 1]] /\ g[i - 1] \in Seq(S)
        BY Zenon, <1>4, <4>1
      <4>. QED
        BY Zenon, <3>2, <4>1, <4>2
    <3>. QED
      BY Zenon, <3>1, <3>2
  <2>. QED
    BY Zenon, <1>4, <2>1
<1>6. rest = Rest(rest)
  <2>. HIDE DEF Rest
  <2>. QED
    BY Zenon, <1>5
<1>. HIDE DEF rest
<1>7. /\ rest[0] = <<>>
      /\ \A i \in 1 .. n : rest[i] = IF s[i] \in K THEN rest[i - 1] ELSE Append(rest[i - 1], s[i])
  <2>1. \A i \in 1 .. n : i \in 0 .. n /\ i # 0
    BY <1>1
  <2>2. 0 \in 0 .. n
    BY <1>1
  <2>. QED
    BY Zenon, <1>6, <2>1, <2>2
<1>. HIDE DEF Rest, step
<1>. DEFINE Before(i) == {s[j] : j \in 1 .. i} \ K
            T == {i \in 0 .. n : rest[i] \in Seq(S) /\ Range(rest[i]) = Before(i)}
<1>8. 0 \in T
  <2>1. 0 \in 0 .. n /\ 1 .. 0 = {} /\ DOMAIN <<>> = {}
    BY <1>1
  <2>. QED
    BY Zenon, <1>1, <1>7, <2>1 DEF Range
<1>9. ASSUME NEW i \in 1 .. n, i - 1 \in T  PROVE i \in T
  <2>1. rest[i - 1] \in Seq(S) /\ Range(rest[i - 1]) = Before(i - 1) /\ s[i] \in S /\ i \in 0 .. n
    BY <1>1, <1>9
  <2>2. \A j \in 1 .. i : j \in 1 .. i - 1 \/ j = i
    BY <1>1
  <2>3. 1 .. i - 1 \subseteq 1 .. i /\ i \in 1 .. i
    BY <1>1
  <2>4. Before(i) = Before(i - 1) \cup ({s[i]} \ K)
    BY Zenon, <2>2, <2>3
  <2>5. CASE s[i] \in K
    BY Zenon, <1>7, <2>1, <2>4, <2>5
  <2>6. CASE s[i] \notin K
    <3>. HIDE DEF Before
    <3>1. rest[i] = Append(rest[i - 1], s[i])
      BY Zenon, <1>7, <2>6
    <3>2. PICK t \in Seq(S) : t = rest[i - 1]
      BY Zenon, <2>1
    <3>3. Append(t, s[i]) \in Seq(S) /\ Range(Append(t, s[i])) = Range(t) \cup {s[i]}
      <4>1. PICK x \in S : x = s[i]
        BY Zenon, <2>1
      <4>2. PICK m \in Nat : m = Len(t) /\ DOMAIN t = 1 .. m
        OBVIOUS
      <4>3. /\ Append(t, x) \in Seq(S) /\ DOMAIN Append(t, x) = 1 .. m + 1
            /\ Append(t, x)[m + 1] = x
            /\ \A j \in 1 .. m : Append(t, x)[j] = t[j]
        BY <4>2
      <4>4. \A j \in 1 .. m + 1 : j \in 1 .. m \/ j = m + 1
        OBVIOUS
      <4>5. 1 .. m \subseteq 1 .. m + 1 /\ m + 1 \in 1 .. m + 1
        OBVIOUS
      <4>. QED
        BY Zenon, <4>1, <4>2, <4>3, <4>4, <4>5 DEF Range
    <3>4. {s[i]} \ K = {s[i]}
      BY Zenon, <2>6
    <3>. QED
      BY Zenon, <2>1, <2>4, <3>1, <3>2, <3>3, <3>4
  <2>. QED
    BY Zenon, <2>5, <2>6
<1>10. n \in T
  <2>. HIDE DEF T
  <2>1. T \in SUBSET (0 .. n)
    BY Zenon DEF T
  <2>2. T = 0 .. n
    BY Zenon, <1>1, <1>8, <1>9, <2>1, AllIndices
  <2>. QED
    BY <1>1, <2>2
<1>11. Range(s) = {s[j] : j \in 1 .. n}
  BY Zenon, <1>1 DEF Range
<1>. QED
  BY Zenon, <1>3, <1>10, <1>11

\* The places of the bytes of the contents D.
Places(D) == UNION {{d} \X (1 .. Size[d]) : d \in D}

\* The contents of one digest.
LEMMA PlacesOfOne ==
  ASSUME NEW d \in Digest
  PROVE  /\ IsFiniteSet({d} \X (1 .. Size[d]))
         /\ Cardinality({d} \X (1 .. Size[d])) = Size[d]
         /\ Size[d] \in Nat
<1>1. PICK n \in Nat : n = Size[d]
  BY Zenon, CacheAssumption
<1>2. IsFiniteSet({d}) /\ Cardinality({d}) = 1
  BY Zenon, FS_Singleton
<1>3. IsFiniteSet(1 .. n) /\ Cardinality(1 .. n) = n
  <2>1. 1 \in Int /\ n \in Int
    OBVIOUS
  <2>2. IsFiniteSet(1 .. n) /\ Cardinality(1 .. n) = IF 1 > n THEN 0 ELSE n - 1 + 1
    BY Zenon, <2>1, FS_Interval
  <2>. QED
    BY <2>2
<1>4. IsFiniteSet({d} \X (1 .. n)) /\ Cardinality({d} \X (1 .. n)) = Cardinality({d}) * Cardinality(1 .. n)
  BY Zenon, <1>2, <1>3, FS_Product
<1>5. Cardinality({d} \X (1 .. n)) = n
  BY <1>2, <1>3, <1>4
<1>. QED
  BY Zenon, <1>1, <1>4, <1>5

\* The bytes of finitely many contents can be counted.
LEMMA PlacesFinite ==
  ASSUME NEW D \in SUBSET Digest, IsFiniteSet(D)
  PROVE  IsFiniteSet(Places(D))
<1>. DEFINE P(d) == {d} \X (1 .. Size[d])
            F == {P(d) : d \in D}
            f == [d \in D |-> P(d)]
<1>1. f \in Surjection(D, F)
  BY Zenon DEF Surjection
<1>2. IsFiniteSet(F)
  <2>. HIDE DEF f, F
  <2>. QED
    BY Zenon, <1>1, FS_Surjection
<1>3. \A A \in F : IsFiniteSet(A)
  BY Zenon, PlacesOfOne
<1>4. IsFiniteSet(UNION F)
  <2>. HIDE DEF F
  <2>. QED
    BY Zenon, <1>2, <1>3, FS_UNION
<1>. QED
  BY Zenon, <1>4 DEF Places

\* The total of the eviction loop may be kept by subtraction.
LEMMA BytesLess ==
  ASSUME NEW D \in SUBSET Digest, IsFiniteSet(D), NEW d \in D
  PROVE  /\ Bytes(D \ {d}) = Bytes(D) - Size[d]
         /\ Bytes(D) \in Nat /\ Bytes(D \ {d}) \in Nat
<1>. DEFINE A == Places(D \ {d})
            B == {d} \X (1 .. Size[d])
<1>1. IsFiniteSet(D \ {d}) /\ D \ {d} \in SUBSET Digest
  BY Zenon, FS_RemoveElement
<1>2. IsFiniteSet(A) /\ IsFiniteSet(Places(D))
  BY Zenon, <1>1, PlacesFinite
<1>3. IsFiniteSet(B) /\ Cardinality(B) = Size[d] /\ Size[d] \in Nat
  BY Zenon, PlacesOfOne
<1>4. Places(D) = A \cup B
  BY Zenon DEF Places
<1>5. A \cap B = {}
  BY DEF Places
<1>6. Bytes(D) = Cardinality(Places(D)) /\ Bytes(D \ {d}) = Cardinality(A)
  BY Zenon DEF Bytes, Places
<1>. HIDE DEF A, B
<1>7. Cardinality(A \cup B) = Cardinality(A) + Cardinality(B) - Cardinality(A \cap B)
  BY Zenon, <1>2, <1>3, FS_Union
<1>8. Cardinality(A) \in Nat /\ Cardinality(Places(D)) \in Nat /\ Cardinality({}) = 0
  BY Zenon, <1>2, FS_CardinalityType, FS_EmptySet
<1>9. PICK a \in Nat, b \in Nat, c \in Nat : /\ a = Cardinality(A) /\ b = Cardinality(B)
                                              /\ c = Cardinality(Places(D))
  BY Zenon, <1>3, <1>8
<1>10. c = a + b - 0
  BY Zenon, <1>4, <1>5, <1>7, <1>8, <1>9
<1>11. a = c - b
  BY <1>9, <1>10
<1>. QED
  BY Zenon, <1>3, <1>6, <1>9, <1>11

\* No blob takes no bytes.
LEMMA NoBytes == Bytes({}) = 0
<1>1. UNION {{d} \X (1 .. Size[d]) : d \in {}} = {}
  BY Zenon
<1>. QED
  BY Zenon, <1>1, FS_EmptySet DEF Bytes

-----------------------------------------------------------------------------
(***************************************************************************)
(* The loop of ExpireCache.                                                *)
(***************************************************************************)

\* The digests of the first i rows.
FirstDigests(i) == {entry[kept[j]] : j \in 1 .. i}

content == {entry[k] : k \in Range(kept)}

\* The rows that the loop is over.
RowsOK == kept \in Seq(Key) /\ \A i \in DOMAIN kept : entry[kept[i]] \in Digest

\* The contents of the rows are those of all the rows, and finitely many.
LEMMA ContentOf ==
  ASSUME RowsOK
  PROVE  /\ Len(kept) \in Nat /\ DOMAIN kept = 1 .. Len(kept)
         /\ content = FirstDigests(Len(kept)) /\ content \in SUBSET Digest
         /\ IsFiniteSet(content)
         /\ \A i \in 0 .. Len(kept) : FirstDigests(i) \subseteq content
<1>1. PICK n \in Nat : n = Len(kept) /\ DOMAIN kept = 1 .. n
  BY DEF RowsOK
<1>2. content = FirstDigests(n) /\ content \in SUBSET Digest
  BY Zenon, <1>1 DEF content, FirstDigests, RowsOK, Range
<1>3. IsFiniteSet(content)
  <2>. DEFINE f == [j \in 1 .. n |-> entry[kept[j]]]
  <2>1. f \in Surjection(1 .. n, content)
    BY Zenon, <1>2 DEF Surjection, FirstDigests
  <2>2. 1 \in Int /\ n \in Int
    OBVIOUS
  <2>3. IsFiniteSet(1 .. n)
    BY Zenon, <2>2, FS_Interval
  <2>. QED
    BY Zenon, <2>1, <2>3, FS_Surjection
<1>4. ASSUME NEW i \in 0 .. n  PROVE FirstDigests(i) \subseteq content
  <2>1. 1 .. i \subseteq 1 .. n
    OBVIOUS
  <2>. QED
    BY Zenon, <1>2, <2>1 DEF FirstDigests
<1>. QED
  BY Zenon, <1>1, <1>2, <1>3, <1>4

\* FirstUse is the place of the first row of a content.
LEMMA FirstUseOf ==
  ASSUME RowsOK, NEW d \in content
  PROVE  /\ FirstUse(d) \in 1 .. Len(kept) /\ entry[kept[FirstUse(d)]] = d
         /\ \A i \in 1 .. Len(kept) : entry[kept[i]] = d => FirstUse(d) <= i
<1>1. PICK n \in Nat : n = Len(kept) /\ DOMAIN kept = 1 .. n
  BY Zenon, ContentOf
<1>. DEFINE S == {i \in 1 .. n : entry[kept[i]] = d}
<1>2. S \in SUBSET Nat
  <2>1. 1 .. n \subseteq Nat
    OBVIOUS
  <2>. QED
    BY Zenon, <2>1
<1>3. S # {}
  BY Zenon, <1>1, ContentOf DEF FirstDigests
<1>4. PICK i \in S : \A j \in S : i <= j
  BY Zenon, <1>2, <1>3, LeastOf
<1>. QED
  BY Zenon, <1>1, <1>4 DEF FirstUse

\* A content that the first rows do not have is first used by row i, and those
\* that the first rows do not have are first used from there on.
LEMMA UsedFrom ==
  ASSUME RowsOK, NEW i \in 1 .. Len(kept), entry[kept[i]] \notin FirstDigests(i - 1)
  PROVE  {e \in content : FirstUse(e) >= FirstUse(entry[kept[i]])} = content \ FirstDigests(i - 1)
<1>1. PICK n \in Nat : n = Len(kept) /\ DOMAIN kept = 1 .. n
  BY Zenon, ContentOf
<1>2. i \in 1 .. n /\ i \in Nat /\ i - 1 \in 0 .. n
  BY <1>1
<1>3. entry[kept[i]] \in content
  BY Zenon, <1>1, <1>2, ContentOf DEF FirstDigests
<1>4. FirstUse(entry[kept[i]]) = i
  <2>1. PICK f \in 1 .. n : /\ f = FirstUse(entry[kept[i]]) /\ entry[kept[f]] = entry[kept[i]]
                            /\ f <= i
    BY Zenon, <1>1, <1>2, <1>3, FirstUseOf
  <2>2. ~(f \in 1 .. i - 1)
    BY Zenon, <2>1 DEF FirstDigests
  <2>3. f = i
    BY <1>2, <2>1, <2>2
  <2>. QED
    BY Zenon, <2>1, <2>3
<1>5. ASSUME NEW e \in content
      PROVE  FirstUse(e) >= i <=> e \notin FirstDigests(i - 1)
  <2>1. PICK f \in 1 .. n : /\ f = FirstUse(e) /\ entry[kept[f]] = e
                            /\ \A j \in 1 .. n : entry[kept[j]] = e => f <= j
    BY Zenon, <1>1, FirstUseOf
  <2>2. ASSUME f >= i, e \in FirstDigests(i - 1)  PROVE FALSE
    <3>1. PICK j \in 1 .. i - 1 : entry[kept[j]] = e
      BY Zenon, <2>2 DEF FirstDigests
    <3>2. j \in 1 .. n /\ j < i /\ j \in Int
      BY <1>2
    <3>3. f <= j
      BY Zenon, <2>1, <3>1, <3>2
    <3>. QED
      BY <1>2, <2>2, <3>2, <3>3
  <2>3. ASSUME ~(f >= i)  PROVE e \in FirstDigests(i - 1)
    <3>1. f \in 1 .. i - 1
      BY <1>2, <2>3
    <3>. QED
      BY Zenon, <2>1, <3>1 DEF FirstDigests
  <2>. QED
    BY Zenon, <2>1, <2>2, <2>3
<1>. QED
  BY Zenon, <1>4, <1>5

\* What the loop has kept and evicted, and how much that is, after i rows: while
\* it is too much, all of them are evicted; and each went when it and what is
\* used after it was too much.
Account == [total : Int, digests : SUBSET Digest]

LoopInv(acc, i) ==
  /\ acc.digests \subseteq FirstDigests(i)
  /\ acc.total = Bytes(content \ acc.digests)
  /\ acc.total > MaxBytes => acc.digests = FirstDigests(i)
  /\ \A d \in acc.digests : Bytes({e \in content : FirstUse(e) >= FirstUse(d)}) > MaxBytes

\* One row of the loop keeps the account an account.
LEMMA EvictType ==
  ASSUME RowsOK, NEW acc \in Account, NEW i \in 1 .. Len(kept)
  PROVE  Evict(acc, kept[i]) \in Account
<1>1. entry[kept[i]] \in Digest
  BY Zenon, ContentOf DEF RowsOK
<1>2. PICK d \in Digest, z \in Int : d = entry[kept[i]] /\ z = Size[d]
  BY <1>1, CacheAssumption
<1>3. acc.total - z \in Int /\ acc.digests \cup {d} \in SUBSET Digest
  BY DEF Account
<1>. QED
  BY Zenon, <1>2, <1>3 DEF Account, Evict

\* One row of the loop of ExpireCache keeps what the loop maintains.
LEMMA LoopStep ==
  ASSUME RowsOK, NEW acc \in Account, NEW i \in 1 .. Len(kept), LoopInv(acc, i - 1)
  PROVE  LoopInv(Evict(acc, kept[i]), i)
<1>1. PICK d \in Digest : d = entry[kept[i]]
  BY Zenon, ContentOf DEF RowsOK
<1>2. PICK n \in Nat : n = Len(kept) /\ DOMAIN kept = 1 .. n
  BY Zenon, ContentOf
<1>3. i \in 0 .. n /\ i - 1 \in 0 .. n /\ i \in 1 .. i
  BY <1>2
<1>4. FirstDigests(i) = FirstDigests(i - 1) \cup {d}
  <2>1. \A j \in 1 .. i : j \in 1 .. i - 1 \/ j = i
    BY <1>2
  <2>2. \A j \in 1 .. i - 1 : j \in 1 .. i
    BY <1>2
  <2>. QED
    BY Zenon, <1>1, <1>3, <2>1, <2>2 DEF FirstDigests
<1>5. d \in content
  BY Zenon, <1>2, <1>3, <1>4, ContentOf
<1>6. CASE acc.total > MaxBytes /\ d \notin acc.digests
  <2>1. acc.digests = FirstDigests(i - 1)
    BY Zenon, <1>6 DEF LoopInv
  <2>2. PICK D : D = content \ acc.digests
    BY Zenon
  <2>3. D \in SUBSET Digest /\ IsFiniteSet(D) /\ d \in D
    BY Zenon, <1>5, <1>6, <2>2, ContentOf, FS_Subset
  <2>4. Bytes(D \ {d}) = Bytes(D) - Size[d]
    BY Zenon, <2>3, BytesLess
  <2>5. D \ {d} = content \ (acc.digests \cup {d})
    BY Zenon, <2>2
  <2>6. Bytes(D) > MaxBytes /\ acc.total = Bytes(D)
    BY Zenon, <1>6, <2>2 DEF LoopInv
  <2>7. {e \in content : FirstUse(e) >= FirstUse(d)} = D
    BY Zenon, <1>1, <1>6, <2>1, <2>2, UsedFrom
  <2>8. Evict(acc, kept[i]) = [total |-> acc.total - Size[d], digests |-> acc.digests \cup {d}]
    BY Zenon, <1>1, <1>6 DEF Evict
  <2>9. PICK t, A : t = acc.total - Size[d] /\ A = acc.digests \cup {d}
    BY Zenon
  <2>10. [total |-> t, digests |-> A].total = t /\ [total |-> t, digests |-> A].digests = A
    BY Zenon
  <2>11. /\ t = Bytes(content \ A) /\ A = FirstDigests(i)
         /\ \A e \in A : Bytes({c \in content : FirstUse(c) >= FirstUse(e)}) > MaxBytes
    BY Zenon, <1>4, <2>1, <2>4, <2>5, <2>6, <2>7, <2>9 DEF LoopInv
  <2>. QED
    BY Zenon, <2>8, <2>9, <2>10, <2>11 DEF LoopInv
<1>7. CASE ~(acc.total > MaxBytes /\ d \notin acc.digests)
  <2>1. Evict(acc, kept[i]) = acc
    BY Zenon, <1>1, <1>7 DEF Evict
  <2>. QED
    BY Zenon, <1>4, <1>7, <2>1 DEF LoopInv
<1>. QED
  BY Zenon, <1>6, <1>7

\* The loop ends within the limit, and what it has evicted did not fit.
LEMMA EvictionLoop ==
  ASSUME RowsOK
  PROVE  /\ evicted \subseteq content
         /\ Bytes(content \ evicted) <= MaxBytes
         /\ \A d \in evicted : Bytes({e \in content : FirstUse(e) >= FirstUse(d)}) > MaxBytes
<1>. DEFINE first == [total |-> Bytes({entry[k] : k \in Range(kept)}), digests |-> {}]
            After(g) == [i \in 0 .. Len(kept) |-> IF i = 0 THEN first ELSE Evict(g[i - 1], kept[i])]
            after == CHOOSE g : g = After(g)
            step == [i \in 1 .. Len(kept) |-> [acc \in Account |-> Evict(acc, kept[i])]]
<1>1. evicted = after[Len(kept)].digests
  BY Zenon DEF evicted
<1>2. PICK n \in Nat : n = Len(kept)
  BY Zenon, ContentOf
<1>3. Bytes(content) \in Nat
  <2>1. IsFiniteSet(Places(content))
    BY Zenon, ContentOf, PlacesFinite
  <2>. QED
    BY Zenon, <2>1, FS_CardinalityType DEF Bytes, Places
<1>4. first.total = Bytes(content) /\ first.digests = {} /\ first \in Account
  <2>1. PICK b \in Int : b = Bytes(content)
    BY <1>3
  <2>2. /\ [total |-> b, digests |-> {}] \in Account
        /\ [total |-> b, digests |-> {}].total = b /\ [total |-> b, digests |-> {}].digests = {}
    BY Zenon DEF Account
  <2>. QED
    BY Zenon, <2>1, <2>2 DEF content
<1>5. step \in [1 .. n -> [Account -> Account]]
  BY Zenon, <1>2, EvictType
<1>6. PICK g : /\ g \in [0 .. n -> Account] /\ g[0] = first
               /\ \A i \in 1 .. n : g[i] = step[i][g[i - 1]]
  <2>. HIDE DEF step, first
  <2>1. Iterations(Account, first, n, step) # {}
    BY Zenon, <1>4, <1>5, Iterates
  <2>. QED
    BY Zenon, <2>1 DEF Iterations
<1>. HIDE DEF first
<1>7. /\ \A i \in 0 .. n : i # 0 => i \in 1 .. n /\ i - 1 \in 0 .. n
      /\ \A i \in 1 .. n : i \in 0 .. n /\ i # 0 /\ i - 1 \in 0 .. n
      /\ 0 \in 0 .. n /\ n \in 0 .. n /\ 1 .. 0 = {}
  OBVIOUS
<1>8. g = After(g)
  <2>1. ASSUME NEW i \in 0 .. n
        PROVE  g[i] = After(g)[i]
    BY Zenon, <1>2, <1>6, <1>7
  <2>2. g \in [0 .. n -> Account] /\ DOMAIN After(g) = 0 .. n
    BY Zenon, <1>2, <1>6
  <2>. QED
    BY Zenon, <1>2, <2>1, <2>2
<1>9. after = After(after)
  <2>. HIDE DEF After
  <2>. QED
    BY Zenon, <1>8
<1>. HIDE DEF after, step
<1>10. /\ after[0] = first
       /\ \A i \in 1 .. n : after[i] = Evict(after[i - 1], kept[i])
  BY Zenon, <1>2, <1>7, <1>9
<1>. HIDE DEF After
<1>. DEFINE T == {i \in 0 .. n : after[i] \in Account /\ LoopInv(after[i], i)}
<1>11. 0 \in T
  <2>1. FirstDigests(0) = {} /\ content \ {} = content
    BY Zenon, <1>7 DEF FirstDigests
  <2>. QED
    BY Zenon, <1>4, <1>7, <1>10, <2>1 DEF LoopInv
<1>12. ASSUME NEW i \in 1 .. n, i - 1 \in T  PROVE i \in T
  <2>1. PICK acc \in Account : acc = after[i - 1] /\ LoopInv(acc, i - 1)
    BY Zenon, <1>12
  <2>2. after[i] = Evict(acc, kept[i]) /\ i \in 1 .. Len(kept)
    BY Zenon, <1>2, <1>10, <2>1
  <2>3. Evict(acc, kept[i]) \in Account
    BY Zenon, <2>2, EvictType
  <2>4. LoopInv(Evict(acc, kept[i]), i)
    BY Zenon, <2>1, <2>2, LoopStep
  <2>. QED
    BY Zenon, <1>7, <2>2, <2>3, <2>4
<1>13. after[n] \in Account /\ LoopInv(after[n], n)
  <2>1. T \in SUBSET (0 .. n)
    BY Zenon
  <2>. HIDE DEF T
  <2>2. T = 0 .. n
    BY Zenon, <1>11, <1>12, <2>1, AllIndices
  <2>. QED
    BY Zenon, <1>7, <2>2 DEF T
<1>14. after[n].digests = evicted
  BY Zenon, <1>1, <1>2
<1>15. ~(after[n].total > MaxBytes)
  <2>. SUFFICES ASSUME after[n].total > MaxBytes PROVE FALSE
    BY Zenon
  <2>1. after[n].digests = content /\ content \ content = {}
    BY Zenon, <1>2, <1>13, ContentOf DEF LoopInv
  <2>2. after[n].total = 0
    BY Zenon, <1>13, <2>1, NoBytes DEF LoopInv
  <2>. QED
    BY <2>2, CacheAssumption
<1>16. after[n].total \in Int /\ MaxBytes \in Int
  BY <1>13, CacheAssumption DEF Account
<1>17. after[n].total <= MaxBytes
  BY <1>15, <1>16
<1>. QED
  BY Zenon, <1>2, <1>13, <1>14, <1>17, ContentOf DEF LoopInv

-----------------------------------------------------------------------------
(***************************************************************************)
(* The order of use has the keys with a row, so that the loop is over the  *)
(* rows that have not expired.                                             *)
(***************************************************************************)
RecencyInv ==
  /\ entry \in [Key -> Digest \cup {NoDigest}]
  /\ recency \in Seq(Key) /\ Range(recency) = {k \in Key : Live(k)}
  /\ found \in [User -> Digest \cup {NoDigest}]
  /\ user \in [User -> {"lookup", "open", "fetch", "run", "commit"}]
  /\ \A u \in User : user[u] = "commit" => found[u] \in Digest
  /\ \A u \in User : user[u] \in {"lookup", "open", "fetch"} => Restores[u] \in Key

\* Setting last_used_at adds the key to those in use, and drops none.
LEMMA UsedRange ==
  ASSUME recency \in Seq(Key), NEW k \in Key, Used(k)
  PROVE  recency' \in Seq(Key) /\ Range(recency') = Range(recency) \cup {k}
<1>1. PICK t : t = Without(recency, {k})
  BY Zenon
<1>2. t \in Seq(Key) /\ Range(t) = Range(recency) \ {k}
  BY Zenon, <1>1, WithoutRange
<1>3. recency' = Append(t, k)
  BY Zenon, <1>1 DEF Used
<1>4. PICK m \in Nat : m = Len(t) /\ DOMAIN t = 1 .. m
  BY <1>2
<1>5. /\ Append(t, k) \in Seq(Key) /\ DOMAIN Append(t, k) = 1 .. m + 1
      /\ Append(t, k)[m + 1] = k
      /\ \A j \in 1 .. m : Append(t, k)[j] = t[j]
  BY <1>2, <1>4
<1>6. /\ \A j \in 1 .. m + 1 : j \in 1 .. m \/ j = m + 1
      /\ \A j \in 1 .. m : j \in 1 .. m + 1
      /\ m + 1 \in 1 .. m + 1
  OBVIOUS
<1>7. Range(Append(t, k)) = Range(t) \cup {k}
  BY Zenon, <1>4, <1>5, <1>6 DEF Range
<1>. QED
  BY Zenon, <1>2, <1>3, <1>5, <1>7

\* At first nothing has been used.
LEMMA RecencyStarts == Init => RecencyInv
<1>. SUFFICES ASSUME Init PROVE RecencyInv
  BY Zenon
<1>1. recency = <<>> /\ <<>> \in Seq(Key) /\ Range(<<>>) = {}
  <2>1. <<>> \in Seq(Key) /\ DOMAIN <<>> = {}
    OBVIOUS
  <2>. QED
    BY Zenon, <2>1 DEF Init, CacheInit, Range
<1>2. {k \in Key : Live(k)} = {}
  BY Zenon DEF Init, CacheInit, Live
<1>3. user \in [User -> {"lookup", "open", "fetch", "run", "commit"}] /\ \A u \in User : user[u] # "commit"
  BY Zenon DEF Init, CacheInit, First
<1>4. \A u \in User : user[u] \in {"lookup", "open", "fetch"} => Restores[u] \in Key
  BY Zenon, CacheAssumption DEF Init, CacheInit, First
<1>. QED
  BY Zenon, <1>1, <1>2, <1>3, <1>4 DEF Init, CacheInit, RecencyInv

\* A step of a job: it may have looked a key up, whose row is used then.
LEMMA JobKeepsRecency ==
  ASSUME RecencyInv, NEW u \in User,
         (\E remote \in BOOLEAN : Lookup(u, remote)) \/ Download(u) \/ Bypass(u) \/ CacheUpload(u)
           \/ CommitCache(u) \/ EndWithoutSave(u)
  PROVE  RecencyInv'
<1>. USE CacheAssumption
<1>1. First(u) \in {"lookup", "run"} /\ (First(u) = "lookup" => Restores[u] \in Key)
  BY Zenon DEF First
<1>2. ASSUME NEW s \in {"lookup", "open", "fetch", "run", "commit"}, NEW d \in Digest \cup {NoDigest},
             user' = [user EXCEPT ![u] = s], found' = [found EXCEPT ![u] = d],
             s = "commit" => d \in Digest,
             s \in {"lookup", "open", "fetch"} => Restores[u] \in Key
      PROVE  /\ found' \in [User -> Digest \cup {NoDigest}]
             /\ user' \in [User -> {"lookup", "open", "fetch", "run", "commit"}]
             /\ \A v \in User : user'[v] = "commit" => found'[v] \in Digest
             /\ \A v \in User : user'[v] \in {"lookup", "open", "fetch"} => Restores[v] \in Key
  BY Zenon, <1>2 DEF RecencyInv
<1>3. ASSUME NEW k \in Key, Live(k), Used(k), UNCHANGED entry
      PROVE  recency' \in Seq(Key) /\ Range(recency') = {x \in Key : Live(x)'}
  <2>1. recency' \in Seq(Key) /\ Range(recency') = Range(recency) \cup {k}
    BY Zenon, <1>3, UsedRange DEF RecencyInv
  <2>2. {x \in Key : Live(x)'} = {x \in Key : Live(x)}
    BY Zenon, <1>3 DEF Live
  <2>3. {x \in Key : Live(x)} \cup {k} = {x \in Key : Live(x)}
    BY Zenon, <1>3
  <2>. QED
    BY Zenon, <2>1, <2>2, <2>3 DEF RecencyInv
<1>4. ASSUME UNCHANGED <<entry, recency>>
      PROVE  recency' \in Seq(Key) /\ Range(recency') = {x \in Key : Live(x)'}
  BY Zenon, <1>4 DEF RecencyInv, Live
<1>5. ASSUME NEW remote \in BOOLEAN, Lookup(u, remote)  PROVE RecencyInv'
  <2>. DEFINE k == Restores[u]
              hit == Usable(k) /\ (remote => Present(entry[k]))
              s == IF ~hit THEN "run" ELSE IF remote THEN "fetch" ELSE "open"
              d == IF hit THEN entry[k] ELSE NoDigest
  <2>1. /\ user[u] = "lookup" /\ user' = [user EXCEPT ![u] = s] /\ found' = [found EXCEPT ![u] = d]
        /\ UNCHANGED entry /\ (IF Usable(k) THEN Used(k) ELSE UNCHANGED recency)
    BY Zenon, <1>5 DEF Lookup, UserAt, About
  <2>2. k \in Key
    BY Zenon, <2>1 DEF RecencyInv
  <2>3. s \in {"run", "fetch", "open"} /\ d \in Digest \cup {NoDigest} /\ s # "commit"
    BY Zenon, <2>2 DEF RecencyInv
  <2>4. Usable(k) => Live(k)
    BY Zenon DEF Usable
  <2>. HIDE DEF s, d, hit
  <2>5. recency' \in Seq(Key) /\ Range(recency') = {x \in Key : Live(x)'}
    BY Zenon, <1>3, <1>4, <2>1, <2>2, <2>4
  <2>. QED
    BY Zenon, <1>2, <2>1, <2>2, <2>3, <2>5 DEF RecencyInv
<1>6. ASSUME Download(u)  PROVE RecencyInv'
  <2>. DEFINE k == Restores[u]
              d == Extract(u, Served(u))
  <2>1. /\ user[u] \in {"open", "fetch"} /\ user' = [user EXCEPT ![u] = "run"] /\ found' = [found EXCEPT ![u] = d]
        /\ UNCHANGED entry /\ ((Usable(k) /\ Used(k)) \/ UNCHANGED recency)
    BY Zenon, <1>6 DEF Download, UserAt, About
  <2>2. k \in Key
    BY Zenon, <2>1 DEF RecencyInv
  <2>3. d \in Digest \cup {NoDigest}
    BY Zenon DEF Extract, RecencyInv
  <2>4. Usable(k) => Live(k)
    BY Zenon DEF Usable
  <2>. HIDE DEF d
  <2>5. recency' \in Seq(Key) /\ Range(recency') = {x \in Key : Live(x)'}
    BY Zenon, <1>3, <1>4, <2>1, <2>2, <2>4
  <2>. QED
    BY Zenon, <1>2, <2>1, <2>3, <2>5 DEF RecencyInv
<1>7. ASSUME Bypass(u) \/ EndWithoutSave(u)  PROVE RecencyInv'
  <2>1. PICK s \in {"run", First(u)} :
             user' = [user EXCEPT ![u] = s] /\ found' = [found EXCEPT ![u] = NoDigest]
    BY Zenon, <1>7 DEF Bypass, EndWithoutSave, JobOver, UserAt, About
  <2>2. UNCHANGED <<entry, recency>>
    BY Zenon, <1>7 DEF Bypass, EndWithoutSave
  <2>3. s \in {"lookup", "run"} /\ s # "commit" /\ (s = "lookup" => Restores[u] \in Key)
    BY Zenon, <1>1, <2>1
  <2>. QED
    BY Zenon, <1>2, <1>4, <2>1, <2>2, <2>3 DEF RecencyInv
<1>8. ASSUME CacheUpload(u)  PROVE RecencyInv'
  <2>1. PICK d \in Makes[u] :
             user' = [user EXCEPT ![u] = "commit"] /\ found' = [found EXCEPT ![u] = d]
    BY Zenon, <1>8 DEF CacheUpload, UserAt, About
  <2>2. d \in Digest /\ UNCHANGED <<entry, recency>>
    BY Zenon, <1>8, <2>1 DEF CacheUpload
  <2>. QED
    BY Zenon, <1>2, <1>4, <2>1, <2>2 DEF RecencyInv
<1>9. ASSUME CommitCache(u)  PROVE RecencyInv'
  <2>. DEFINE k == Saves[u]
  <2>1. /\ user[u] = "commit" /\ user' = [user EXCEPT ![u] = First(u)] /\ found' = [found EXCEPT ![u] = NoDigest]
        /\ \/ UNCHANGED <<entry, recency>>
           \/ entry' = [entry EXCEPT ![k] = found[u]] /\ Used(k)
    BY Zenon, <1>9 DEF CommitCache, JobOver, UserAt, About
  <2>2. k \in Key /\ found[u] \in Digest /\ found[u] # NoDigest
    BY Zenon, <2>1 DEF RecencyInv
  <2>3. entry' \in [Key -> Digest \cup {NoDigest}]
    BY Zenon, <2>1, <2>2 DEF RecencyInv
  <2>4. recency' \in Seq(Key) /\ Range(recency') = {x \in Key : Live(x)'}
    <3>1. CASE UNCHANGED <<entry, recency>>
      BY Zenon, <1>4, <3>1
    <3>2. CASE entry' = [entry EXCEPT ![k] = found[u]] /\ Used(k)
      <4>1. recency' \in Seq(Key) /\ Range(recency') = Range(recency) \cup {k}
        BY Zenon, <2>2, <3>2, UsedRange DEF RecencyInv
      <4>2. entry \in [Key -> Digest \cup {NoDigest}] /\ Range(recency) = {x \in Key : Live(x)}
        BY Zenon DEF RecencyInv
      <4>3. \A x \in Key : entry'[x] # NoDigest <=> x = k \/ entry[x] # NoDigest
        BY Zenon, <2>2, <3>2, <4>2
      <4>4. {x \in Key : Live(x)'} = {x \in Key : Live(x)} \cup {k}
        BY Zenon, <2>2, <4>3 DEF Live
      <4>. QED
        BY Zenon, <4>1, <4>2, <4>4
    <3>. QED
      BY Zenon, <2>1, <3>1, <3>2
  <2>. QED
    BY Zenon, <1>1, <1>2, <2>1, <2>3, <2>4 DEF RecencyInv
<1>. QED
  BY Zenon, <1>5, <1>6, <1>7, <1>8, <1>9

\* Rows that are marked deleted leave the order of use.
LEMMA DeleteKeepsRecency ==
  ASSUME RecencyInv, NEW K, Delete(K), UNCHANGED <<user, found>>
  PROVE  RecencyInv'
<1>1. recency' \in Seq(Key) /\ Range(recency') = Range(recency) \ K
  BY Zenon, WithoutRange DEF Delete, RecencyInv
<1>2. entry' = [k \in Key |-> IF k \in K THEN NoDigest ELSE entry[k]]
  BY Zenon DEF Delete
<1>3. entry' \in [Key -> Digest \cup {NoDigest}]
  BY Zenon, <1>2 DEF RecencyInv
<1>4. {k \in Key : Live(k)'} = {k \in Key : Live(k)} \ K
  BY Zenon, <1>2 DEF Live
<1>. QED
  BY Zenon, <1>1, <1>3, <1>4 DEF RecencyInv

\* Every step keeps the order of use that of the live entries.
LEMMA RecencyKept == RecencyInv /\ [Next]_vars => RecencyInv'
<1>. SUFFICES ASSUME RecencyInv, [Next]_vars PROVE RecencyInv'
  BY Zenon
<1>1. CASE UNCHANGED <<entry, recency, user, found>>
  BY Zenon, <1>1 DEF RecencyInv, Live
<1>2. CASE ~UNCHANGED <<entry, recency, user, found>>
  <2>1. CacheNext
    BY Zenon, <1>2 DEF Next, vars, ArtifactsDo, CacheDoes, cacheVars
  <2>2. ASSUME NEW u \in User,
               (\E remote \in BOOLEAN : Lookup(u, remote)) \/ Download(u) \/ Bypass(u) \/ CacheUpload(u)
                 \/ CommitCache(u) \/ EndWithoutSave(u)
        PROVE  RecencyInv'
    BY Zenon, <2>2, JobKeepsRecency
  <2>3. ASSUME NEW k \in Key, DeleteCache(k)  PROVE RecencyInv'
    BY Zenon, <2>3, DeleteKeepsRecency DEF DeleteCache
  <2>4. ASSUME ExpireCache  PROVE RecencyInv'
    BY Zenon, <2>4, DeleteKeepsRecency DEF ExpireCache
  <2>5. ~(unreferencedCacheBlobs \/ LiveCacheBlobs \/ CacheSweep \/ CacheTick)
    BY Zenon, <1>2 DEF unreferencedCacheBlobs, LiveCacheBlobs, CacheSweep, CacheTick
  <2>. QED
    BY Zenon, <2>1, <2>2, <2>3, <2>4, <2>5 DEF CacheNext, CacheGC
<1>. QED
  BY Zenon, <1>1, <1>2

\* So it always is.
LEMMA RecencyInvariant == Spec => []RecencyInv
<1>. QED
  BY RecencyStarts, RecencyKept, PTL DEF Spec

-----------------------------------------------------------------------------
\* No other step goes where ExpireCache goes.
LEMMA OnlyExpireCacheExpires ==
  ASSUME [Next]_vars, pass = "idle", pass' = "expired"
  PROVE  ExpireCache
<1>1. pass' # pass /\ pass' # "remove" /\ pass' # "orphans" /\ pass' # "idle"
  BY Zenon
<1>2. ArtifactNext \/ CacheNext
  BY Zenon, <1>1 DEF Next, vars, storeVars, ArtifactsDo, CacheDoes
<1>3. ASSUME ArtifactNext PROVE FALSE
  <2>1. ASSUME NEW p \in Producer,
               PublishFails(p) \/ Upload(p) \/ HasBlobs(p) \/ CommitArtifacts(p) \/ JobEnds(p) \/ RunEnds(p)
                 \/ GetArtifact(p)
        PROVE  FALSE
    BY Zenon, <1>1, <2>1
       DEF PublishFails, Upload, Put, HasBlobs, CommitArtifacts, JobEnds, RunEnds, GetArtifact, storeVars
  <2>2. ~(OpenBlob \/ ArtifactTick)
    BY Zenon, <1>1 DEF OpenBlob, ArtifactTick, storeVars
  <2>3. ~(ExpireArtifacts \/ LiveArtifactBlobs \/ ArtifactSweep)
    BY Zenon, <1>1 DEF ExpireArtifacts, BeginPass, LiveArtifactBlobs, CleanupOrphans, ArtifactSweep, RemoveBlob,
                       EndPass
  <2>. QED
    BY Zenon, <1>3, <2>1, <2>2, <2>3 DEF ArtifactNext, PublishStep, ArtifactGC
<1>4. ASSUME CacheNext PROVE ExpireCache
  <2>1. ASSUME NEW u \in User,
               (\E remote \in BOOLEAN : Lookup(u, remote)) \/ Download(u) \/ Bypass(u) \/ CacheUpload(u)
                 \/ CommitCache(u) \/ EndWithoutSave(u)
        PROVE  FALSE
    BY Zenon, <1>1, <2>1 DEF Lookup, Download, Bypass, CacheUpload, Put, CommitCache, EndWithoutSave, storeVars
  <2>2. ASSUME NEW k \in Key, DeleteCache(k) PROVE FALSE
    BY Zenon, <1>1, <2>2 DEF DeleteCache, storeVars
  <2>3. ~(unreferencedCacheBlobs \/ LiveCacheBlobs \/ CacheSweep \/ CacheTick)
    BY Zenon, <1>1 DEF unreferencedCacheBlobs, LiveCacheBlobs, CleanupOrphans, CacheSweep, RemoveBlob, EndPass,
                       CacheTick
  <2>. QED
    BY Zenon, <1>4, <2>1, <2>2, <2>3 DEF CacheNext, CacheGC
<1>. QED
  BY Zenon, <1>2, <1>3, <1>4

\* ExpireCache leaves the cache within its limit, and evicts only what did not
\* fit with what was used after it: for any contents, keys and sizes.
THEOREM EvictionsAreFrugal == Spec => EvictionIsFrugal
<1>1. RecencyInv /\ [Next]_vars =>
        [pass = "idle" /\ pass' = "expired" =>
           LET all == {entry[k] : k \in Range(kept)}
               remains == {entry'[k] : k \in {x \in Key : entry'[x] # NoDigest}}
           IN  /\ Bytes(remains) <= MaxBytes
               /\ \A d \in all \ remains :
                    Bytes({e \in all : FirstUse(e) >= FirstUse(d)}) > MaxBytes]_<<storeVars, cacheVars>>
  <2>. DEFINE remains == {entry'[k] : k \in {x \in Key : entry'[x] # NoDigest}}
  <2>. SUFFICES ASSUME RecencyInv, [Next]_vars, pass = "idle", pass' = "expired"
                PROVE  /\ Bytes(remains) <= MaxBytes
                       /\ \A d \in content \ remains :
                            Bytes({e \in content : FirstUse(e) >= FirstUse(d)}) > MaxBytes
    BY Zenon DEF content
  <2>1. ExpireCache
    BY Zenon, OnlyExpireCacheExpires
  <2>2. entry' = [k \in Key |-> IF k \in stale \cup (KeysOf(evicted) \ stale) THEN NoDigest ELSE entry[k]]
    BY Zenon, <2>1 DEF ExpireCache, Delete
  <2>3. kept \in Seq(Key) /\ Range(kept) = {k \in Key : Live(k)} \ stale
    <3>1. recency \in Seq(Key) /\ Range(recency) = {k \in Key : Live(k)}
      BY Zenon DEF RecencyInv
    <3>2. Without(recency, stale) \in Seq(Key) /\ Range(Without(recency, stale)) = Range(recency) \ stale
      BY Zenon, <3>1, WithoutRange
    <3>. QED
      BY Zenon, <3>1, <3>2 DEF kept
  <2>4. \A k \in Range(kept) : k \in Key /\ entry[k] \in Digest
    BY Zenon, <2>3 DEF RecencyInv, Live
  <2>5. RowsOK
    <3>1. \A i \in DOMAIN kept : kept[i] \in Range(kept)
      BY Zenon DEF Range
    <3>. QED
      BY Zenon, <2>3, <2>4, <3>1 DEF RowsOK
  <2>6. content = {entry[k] : k \in {x \in Key : Live(x) /\ x \notin stale}}
    BY Zenon, <2>3 DEF content
  <2>7. /\ evicted \subseteq content
        /\ Bytes(content \ evicted) <= MaxBytes
        /\ \A d \in evicted : Bytes({e \in content : FirstUse(e) >= FirstUse(d)}) > MaxBytes
    BY Zenon, <2>5, EvictionLoop
  <2>8. remains = content \ evicted
    <3>1. \A k \in Key : entry'[k] # NoDigest <=> Live(k) /\ k \notin stale /\ entry[k] \notin evicted
      BY Zenon, <2>2 DEF Live, KeysOf
    <3>2. \A k \in Key : entry'[k] # NoDigest => entry'[k] = entry[k]
      BY Zenon, <2>2
    <3>. QED
      BY Zenon, <2>6, <3>1, <3>2
  <2>. QED
    BY Zenon, <2>7, <2>8
<1>. QED
  BY <1>1, RecencyInvariant, PTL DEF Spec, EvictionIsFrugal
=============================================================================
