--------------------------- MODULE OrderedMapProofs ---------------------------
(***************************************************************************)
(* Proofs about the ordered map, for every set of keys, values, positions  *)
(* and documents and every capacity.                                       *)
(*                                                                         *)
(* MapInv says what the slice and the map have to do with each other at    *)
(* every step; with it every write is one step of PairList.  ReaderInv     *)
(* says where a reader finds what it took: in the array the map has, or in *)
(* the one it had; ValuesOK what the values are not.  Lemmas about orders, *)
(* sequences and arrays come first or where they are needed.  What the     *)
(* search of mapToOrderedMap finds in a text is not proved: it is a        *)
(* hypothesis, KeysFound, of the theorem that needs it.                    *)
(***************************************************************************)
EXTENDS OrderedMap, SequenceTheorems, FiniteSetTheorems, TLAPS

-----------------------------------------------------------------------------
(* Functions and orders.                                                   *)

LEMMA SameFunction ==
    ASSUME NEW A, NEW B, NEW f \in [A -> B], NEW g \in [A -> B], \A a \in A : f[a] = g[a]
    PROVE  f = g
OBVIOUS

LEMMA SameRange ==
    ASSUME NEW A, NEW B, NEW f \in [A -> B], NEW g \in [A -> B],
           \A a \in A : \E b \in A : g[b] = f[a],
           \A a \in A : \E b \in A : f[b] = g[a]
    PROVE  Range(f) = Range(g)
BY DEF Range

LEMMA Interval ==
    ASSUME NEW n \in Nat
    PROVE  IsFiniteSet(1..n) /\ Cardinality(1..n) = n
BY FS_Interval

LEMMA Strictly ==
    ASSUME NEW S, IsFiniteSet(S), NEW T, T \subseteq S, NEW x \in S, x \notin T
    PROVE  Cardinality(T) \in Nat /\ Cardinality(S) \in Nat /\ Cardinality(T) < Cardinality(S)
<1>1. IsFiniteSet(T) /\ Cardinality(T) <= Cardinality(S) /\ (Cardinality(S) = Cardinality(T) => S = T)
  BY FS_Subset
<1>2. Cardinality(T) \in Nat /\ Cardinality(S) \in Nat
  BY <1>1, FS_CardinalityType
<1> QED
  BY <1>1, <1>2

(* There is an order by places. *)
LEMMA Ordered ==
    ASSUME NEW S, IsFiniteSet(S), NEW place, \A k \in S : place[k] \in Nat,
           \A j, k \in S : place[j] = place[k] => j = k
    PROVE  /\ Cardinality(S) \in Nat
           /\ InOrder(S, place) \in [1..Cardinality(S) -> S]
           /\ \A i, j \in 1..Cardinality(S) :
                 i < j => place[InOrder(S, place)[i]] < place[InOrder(S, place)[j]]
           /\ \A k \in S : \E i \in 1..Cardinality(S) : InOrder(S, place)[i] = k
<1> DEFINE n == Cardinality(S)
           Upto(k) == {j \in S : place[j] <= place[k]}
           rank == [k \in S |-> Cardinality(Upto(k))]
<1>1. n \in Nat /\ IsFiniteSet(1..n) /\ Cardinality(1..n) = n
  <2>1. n \in Nat
    BY FS_CardinalityType
  <2> QED
    BY <2>1, FS_Interval
<1>2. ASSUME NEW k \in S
      PROVE  rank[k] \in 1..n
  <2>1. IsFiniteSet(Upto(k)) /\ Cardinality(Upto(k)) <= n
    BY FS_Subset
  <2>2. Cardinality(Upto(k)) \in Nat /\ Upto(k) # {}
    BY <2>1, FS_CardinalityType
  <2>3. Cardinality(Upto(k)) # 0
    BY <2>1, <2>2, FS_EmptySet
  <2> QED
    BY <1>1, <2>1, <2>2, <2>3
<1>3. ASSUME NEW j \in S, NEW k \in S, place[j] < place[k]
      PROVE  rank[j] < rank[k]
  <2>1. Upto(j) \subseteq Upto(k) /\ k \in Upto(k) /\ k \notin Upto(j)
    BY <1>3
  <2>2. IsFiniteSet(Upto(k))
    BY FS_Subset
  <2> HIDE DEF Upto
  <2>3. Cardinality(Upto(j)) < Cardinality(Upto(k))
    BY <2>1, <2>2, Strictly
  <2> QED
    BY <2>3
<1> HIDE DEF rank
<1>4. rank \in [S -> 1..n]
  BY <1>2 DEF rank
<1>5. \A j, k \in S : rank[j] = rank[k] => j = k
  <2> SUFFICES ASSUME NEW j \in S, NEW k \in S, rank[j] = rank[k]
               PROVE  j = k
    OBVIOUS
  <2>1. ~ (place[j] < place[k]) /\ ~ (place[k] < place[j])
    BY <1>2, <1>3
  <2> QED
    BY <2>1
<1>6. rank \in Injection(S, 1..n)
  BY <1>4, <1>5 DEF Injection, IsInjective
<1>7. rank \in Surjection(S, 1..n)
  BY <1>1, <1>6, FS_Injection
<1>8. \A i \in 1..n : \E k \in S : rank[k] = i
  BY <1>7 DEF Surjection
<1> DEFINE s == [i \in 1..n |-> CHOOSE k \in S : rank[k] = i]
<1>9. /\ s \in [1..n -> S]
      /\ \A i \in 1..n : rank[s[i]] = i
  BY <1>8
<1> HIDE DEF s
<1>10. \A i, j \in 1..n : i < j => place[s[i]] < place[s[j]]
  <2> SUFFICES ASSUME NEW i \in 1..n, NEW j \in 1..n, i < j
               PROVE  place[s[i]] < place[s[j]]
    OBVIOUS
  <2>1. s[i] \in S /\ s[j] \in S /\ rank[s[i]] = i /\ rank[s[j]] = j
    BY <1>9
  <2>2. s[i] # s[j] /\ ~ (place[s[j]] < place[s[i]])
    BY <1>1, <1>3, <2>1
  <2> QED
    BY <2>1, <2>2
<1> DEFINE q == InOrder(S, place)
<1>11. q \in [1..n -> S] /\ \A i, j \in 1..n : i < j => place[q[i]] < place[q[j]]
  BY <1>9, <1>10 DEF InOrder
<1> HIDE DEF q
<1>12. \A i, j \in 1..n : q[i] = q[j] => i = j
  BY <1>1, <1>11
<1>13. q \in Injection(1..n, S)
  BY <1>11, <1>12 DEF Injection, IsInjective
<1>14. q \in Surjection(1..n, S)
  BY <1>1, <1>13, FS_Injection
<1>15. \A k \in S : \E i \in 1..n : q[i] = k
  BY <1>14 DEF Surjection
<1> QED
  BY <1>1, <1>11, <1>15 DEF q

LEMMA Increasing ==
    ASSUME NEW n \in Nat, NEW p \in [1..n -> Nat],
           \A i, j \in 1..n : i < j => p[i] < p[j],
           NEW a \in 1..n, NEW b \in 1..n
    PROVE  p[a] <= p[b] <=> a <= b
<1>1. p[a] \in Nat /\ p[b] \in Nat
  OBVIOUS
<1>2. a < b => p[a] < p[b]
  OBVIOUS
<1>3. b < a => p[b] < p[a]
  OBVIOUS
<1> QED
  BY <1>1, <1>2, <1>3

(* Two increasing sequences of the same numbers are the same.              *)
LEMMA SameNumbers ==
    ASSUME NEW n \in Nat, NEW p \in [1..n -> Nat], NEW q \in [1..n -> Nat],
           \A i, j \in 1..n : i < j => p[i] < p[j],
           \A i, j \in 1..n : i < j => q[i] < q[j],
           Range(p) = Range(q)
    PROVE  p = q
<1>1. SUFFICES ASSUME NEW i \in 1..n
               PROVE  p[i] = q[i]
  OBVIOUS
<1>0. /\ \A a \in 1..n : \E b \in 1..n : q[b] = p[a]
      /\ \A a \in 1..n : \E b \in 1..n : p[b] = q[a]
  BY DEF Range
<1>2. ASSUME NEW a \in 1..n, NEW b \in 1..n
      PROVE  /\ p[a] <= p[b] <=> a <= b
             /\ q[a] <= q[b] <=> a <= b
  BY Increasing
<1>3. PICK j \in 1..n : q[j] = p[i]
  BY <1>0
<1>4. PICK f \in [1..n -> 1..n] : \A a \in 1..n : q[f[a]] = p[a]
  <2> DEFINE f == [a \in 1..n |-> CHOOSE b \in 1..n : q[b] = p[a]]
  <2>1. \A a \in 1..n : f[a] \in 1..n /\ q[f[a]] = p[a]
    BY <1>0, Zenon
  <2>2. f \in [1..n -> 1..n]
    BY <2>1, Zenon
  <2> HIDE DEF f
  <2> QED
    BY <2>1, <2>2, Zenon
<1> DEFINE g == [a \in 1..i |-> f[a]]
<1>5. ASSUME NEW a \in 1..i
      PROVE  a \in 1..n /\ g[a] = f[a] /\ g[a] \in 1..j
  <2>1. a \in 1..n /\ a <= i /\ f[a] \in 1..n /\ q[f[a]] = p[a]
    BY <1>4
  <2>2. q[f[a]] <= q[j]
    BY <1>2, <1>3, <2>1
  <2>3. f[a] <= j
    BY <1>2, <2>1, <2>2
  <2> QED
    BY <2>1, <2>3
<1>6. ASSUME NEW b \in 1..j
      PROVE  \E a \in 1..i : g[a] = b
  <2>1. b \in 1..n /\ b <= j
    OBVIOUS
  <2>2. PICK a \in 1..n : p[a] = q[b]
    BY <1>0, <2>1
  <2>3. p[a] <= p[i]
    BY <1>2, <1>3, <2>1, <2>2
  <2>4. a \in 1..i
    <3>1. a <= i
      BY <1>2, <2>3
    <3> QED
      BY <3>1
  <2>5. f[a] \in 1..n /\ q[f[a]] = q[b] /\ q[b] \in Nat
    BY <1>4, <2>1, <2>2
  <2>6. q[f[a]] <= q[b] /\ q[b] <= q[f[a]]
    BY <2>5
  <2>7. f[a] <= b /\ b <= f[a]
    BY <1>2, <2>1, <2>5, <2>6
  <2> QED
    BY <2>4, <2>5, <2>7
<1>7. ASSUME NEW a \in 1..i, NEW b \in 1..i, g[a] = g[b]
      PROVE  a = b
  <2>1. p[a] = p[b] /\ a \in 1..n /\ b \in 1..n
    BY <1>4, <1>5, <1>7
  <2>2. p[a] <= p[b] /\ p[b] <= p[a]
    BY <2>1
  <2>3. a <= b /\ b <= a
    BY <1>2, <2>1, <2>2
  <2> QED
    BY <2>3
<1>8. IsFiniteSet(1..i) /\ Cardinality(1..i) = i /\ Cardinality(1..j) = j
  BY Interval
<1>9. g \in [1..i -> 1..j]
  BY <1>5, Zenon
<1> HIDE DEF g
<1>10. g \in Surjection(1..i, 1..j) /\ g \in Injection(1..i, 1..j)
  BY <1>6, <1>7, <1>9, Zenon DEF Surjection, Injection, IsInjective
<1>11. i = j
  BY <1>8, <1>10, FS_Surjection
<1> QED
  BY <1>3, <1>11

(* The members of S have different places.                                 *)
Placed(S, place) ==
    /\ \A k \in S : place[k] \in Nat
    /\ \A j, k \in S : place[j] = place[k] => j = k

(* The n members of S by their places.                                     *)
Lists(s, n, S, place) ==
    /\ s \in [1..n -> S]
    /\ \A i, j \in 1..n : i < j => place[s[i]] < place[s[j]]
    /\ \A k \in S : \E i \in 1..n : s[i] = k

(* The places of such a sequence.                                          *)
PlacesIn(p, s, n, S, place) ==
    /\ p \in [1..n -> Nat]
    /\ \A i \in 1..n : p[i] = place[s[i]]
    /\ \A i, j \in 1..n : i < j => p[i] < p[j]
    /\ Range(p) = {place[k] : k \in S}

LEMMA HasPlaces ==
    ASSUME NEW S, NEW n \in Nat, NEW place, Placed(S, place), NEW s, Lists(s, n, S, place)
    PROVE  \E p : PlacesIn(p, s, n, S, place)
<1> DEFINE p == [i \in 1..n |-> place[s[i]]]
<1>1. p \in [1..n -> Nat]
  BY DEF Placed, Lists
<1>2. \A i, j \in 1..n : i < j => p[i] < p[j]
  BY DEF Lists
<1>3. Range(p) = {place[s[i]] : i \in 1..n}
  BY DEF Range
<1>4. {place[s[i]] : i \in 1..n} = {place[k] : k \in S}
  BY DEF Lists
<1>5. PlacesIn(p, s, n, S, place)
  BY <1>1, <1>2, <1>3, <1>4 DEF PlacesIn
<1> QED
  BY <1>5

(* Only one sequence lists the members of a set by their places.           *)
LEMMA OneOrder ==
    ASSUME NEW S, NEW n \in Nat, NEW place, Placed(S, place),
           NEW s, Lists(s, n, S, place), NEW t, Lists(t, n, S, place)
    PROVE  s = t
<1>1. PICK p : PlacesIn(p, s, n, S, place)
  BY HasPlaces
<1>2. PICK q : PlacesIn(q, t, n, S, place)
  BY HasPlaces
<1>3. p = q
  <2>1. p \in [1..n -> Nat] /\ q \in [1..n -> Nat] /\ Range(p) = Range(q)
    BY <1>1, <1>2 DEF PlacesIn
  <2>2. \A i, j \in 1..n : i < j => p[i] < p[j]
    BY <1>1 DEF PlacesIn
  <2>3. \A i, j \in 1..n : i < j => q[i] < q[j]
    BY <1>2 DEF PlacesIn
  <2> QED
    BY <2>1, <2>2, <2>3, SameNumbers
<1>4. \A i \in 1..n : place[s[i]] = place[t[i]]
  BY <1>1, <1>2, <1>3 DEF PlacesIn
<1>5. s \in [1..n -> S] /\ t \in [1..n -> S]
  BY DEF Lists
<1>6. \A i \in 1..n : s[i] = t[i]
  BY <1>4, <1>5 DEF Placed
<1> QED
  BY <1>5, <1>6, SameFunction

LEMMA InOrderLists ==
    ASSUME NEW S, IsFiniteSet(S), NEW place, Placed(S, place)
    PROVE  Cardinality(S) \in Nat /\ Lists(InOrder(S, place), Cardinality(S), S, place)
<1>1. /\ \A k \in S : place[k] \in Nat
      /\ \A j, k \in S : place[j] = place[k] => j = k
  BY DEF Placed
<1> QED
  BY <1>1, Ordered DEF Lists

-----------------------------------------------------------------------------
(* Sequences by position.                                                  *)

LEMMA FunctionIsSeq ==
    ASSUME NEW S, NEW n \in Nat, NEW f \in [1..n -> S]
    PROVE  f \in Seq(S) /\ Len(f) = n
<1>1. f \in Seq(S)
  BY SeqDef
<1>2. Len(f) \in Nat /\ DOMAIN f = 1..Len(f)
  BY <1>1, LenProperties
<1>3. 1..Len(f) = 1..n
  BY <1>2
<1> QED
  BY <1>1, <1>2, <1>3

LEMMA SameSeq ==
    ASSUME NEW S, NEW s \in Seq(S), NEW t \in Seq(S), Len(s) = Len(t),
           \A i \in 1..Len(s) : s[i] = t[i]
    PROVE  s = t
<1>1. s \in [1..Len(s) -> S] /\ t \in [1..Len(s) -> S]
  BY LenProperties
<1> QED
  BY <1>1, SameFunction

LEMMA Concatenated ==
    ASSUME NEW S, NEW s \in Seq(S), NEW t \in Seq(S)
    PROVE  /\ s \o t \in Seq(S) /\ Len(s) \in Nat /\ Len(t) \in Nat
           /\ Len(s \o t) = Len(s) + Len(t)
           /\ \A i \in 1..Len(s) : (s \o t)[i] = s[i]
           /\ \A i \in 1..Len(t) : (s \o t)[Len(s) + i] = t[i]
<1>1. Len(s) \in Nat /\ Len(t) \in Nat
  BY LenProperties
<1>2. /\ s \o t \in Seq(S) /\ Len(s \o t) = Len(s) + Len(t)
      /\ \A i \in 1 .. Len(s) + Len(t) : (s \o t)[i] = IF i <= Len(s) THEN s[i] ELSE t[i - Len(s)]
  BY ConcatProperties
<1>3. \A i \in 1..Len(s) : (s \o t)[i] = s[i]
  BY <1>1, <1>2
<1>4. ASSUME NEW i \in 1..Len(t)
      PROVE  (s \o t)[Len(s) + i] = t[i]
  <2>1. Len(s) + i \in 1 .. Len(s) + Len(t) /\ ~ (Len(s) + i <= Len(s)) /\ Len(s) + i - Len(s) = i
    BY <1>1
  <2> QED
    BY <1>2, <2>1
<1> QED
  BY <1>1, <1>2, <1>3, <1>4

LEMMA Part ==
    ASSUME NEW S, NEW s \in Seq(S), NEW m \in Nat, NEW n \in Nat, 1 <= m, m <= n + 1, n <= Len(s)
    PROVE  /\ SubSeq(s, m, n) \in Seq(S) /\ Len(SubSeq(s, m, n)) = n - m + 1
           /\ \A i \in 1 .. n - m + 1 : SubSeq(s, m, n)[i] = s[m + i - 1]
<1>1. Len(s) \in Nat /\ \A i \in 1..Len(s) : s[i] \in S
  BY LenProperties
<1>2. \A i \in m..n : s[i] \in S
  BY <1>1
<1>3. /\ SubSeq(s, m, n) \in Seq(S)
      /\ Len(SubSeq(s, m, n)) = IF m <= n THEN n - m + 1 ELSE 0
      /\ \A i \in 1 .. n - m + 1 : SubSeq(s, m, n)[i] = s[m + i - 1]
  BY <1>2, SubSeqProperties
<1> QED
  BY <1>3

(* r is s with x at position p + 1.                                        *)
WithAt(r, s, p, x) ==
    /\ Len(r) = Len(s) + 1
    /\ \A i \in 1..p : r[i] = s[i]
    /\ r[p + 1] = x
    /\ \A i \in p + 1 .. Len(s) : r[i + 1] = s[i]

LEMMA Insertion ==
    ASSUME NEW S, NEW s \in Seq(S), NEW r \in Seq(S), NEW x \in S, NEW p \in Nat, p <= Len(s),
           WithAt(r, s, p, x)
    PROVE  r = SubSeq(s, 1, p) \o <<x>> \o SubSeq(s, p + 1, Len(s))
<1> DEFINE a == SubSeq(s, 1, p)
           b == SubSeq(s, p + 1, Len(s))
           c == a \o <<x>>
<1>0. Len(s) \in Nat
  BY LenProperties
<1>1. a \in Seq(S) /\ Len(a) = p /\ \A i \in 1..p : a[i] = s[i]
  <2>1. /\ a \in Seq(S) /\ Len(a) = p - 1 + 1
        /\ \A i \in 1 .. p - 1 + 1 : a[i] = s[1 + i - 1]
    BY Part
  <2> HIDE DEF a
  <2>2. p - 1 + 1 = p /\ \A i \in 1..p : 1 + i - 1 = i
    OBVIOUS
  <2> QED
    BY <2>1, <2>2
<1>2. b \in Seq(S) /\ Len(b) = Len(s) - p /\ \A i \in 1 .. Len(s) - p : b[i] = s[p + i]
  <2>1. /\ b \in Seq(S) /\ Len(b) = Len(s) - (p + 1) + 1
        /\ \A i \in 1 .. Len(s) - (p + 1) + 1 : b[i] = s[(p + 1) + i - 1]
    BY <1>0, Part
  <2> HIDE DEF b
  <2>2. Len(s) - (p + 1) + 1 = Len(s) - p /\ \A i \in 1 .. Len(s) - p : (p + 1) + i - 1 = p + i
    BY <1>0
  <2> QED
    BY <2>1, <2>2
<1> HIDE DEF a, b
<1>3. <<x>> \in Seq(S) /\ Len(<<x>>) = 1 /\ <<x>>[1] = x
  OBVIOUS
<1>4. c \in Seq(S) /\ Len(c) = p + 1 /\ (\A i \in 1..p : c[i] = s[i]) /\ c[p + 1] = x
  <2>1. /\ c \in Seq(S) /\ Len(c) = Len(a) + Len(<<x>>)
        /\ \A i \in 1..Len(a) : c[i] = a[i]
        /\ \A i \in 1..Len(<<x>>) : c[Len(a) + i] = <<x>>[i]
    BY <1>1, <1>3, Concatenated
  <2> HIDE DEF c
  <2>2. c[Len(a) + 1] = <<x>>[1]
    BY <1>3, <2>1
  <2> QED
    BY <1>1, <1>3, <2>1, <2>2
<1> HIDE DEF c
<1>5. /\ c \o b \in Seq(S) /\ Len(c \o b) = Len(s) + 1
      /\ \A i \in 1 .. p + 1 : (c \o b)[i] = c[i]
      /\ \A i \in 1 .. Len(s) - p : (c \o b)[(p + 1) + i] = b[i]
  <2>1. /\ c \o b \in Seq(S) /\ Len(c \o b) = Len(c) + Len(b)
        /\ \A i \in 1..Len(c) : (c \o b)[i] = c[i]
        /\ \A i \in 1..Len(b) : (c \o b)[Len(c) + i] = b[i]
    <3>1. c \in Seq(S) /\ b \in Seq(S)
      BY <1>2, <1>4, Zenon
    <3> QED
      BY <3>1, Concatenated
  <2>2. Len(c) = p + 1 /\ Len(b) = Len(s) - p /\ Len(c) + Len(b) = Len(s) + 1
    BY <1>0, <1>2, <1>4
  <2> QED
    BY <2>1, <2>2
<1>6. ASSUME NEW i \in 1..Len(r)
      PROVE  r[i] = (c \o b)[i]
  <2>0. Len(r) = Len(s) + 1
    BY DEF WithAt
  <2>1. CASE i <= p
    BY <1>4, <1>5, <2>1 DEF WithAt
  <2>2. CASE i = p + 1
    BY <1>4, <1>5, <2>2 DEF WithAt
  <2>3. CASE i > p + 1
    <3>1. PICK j \in 1 .. Len(s) - p : i = (p + 1) + j
      <4>1. i - (p + 1) \in 1 .. Len(s) - p /\ i = (p + 1) + (i - (p + 1))
        BY <1>0, <2>0, <2>3
      <4> QED
        BY <4>1
    <3>2. (c \o b)[i] = s[p + j]
      BY <1>2, <1>5, <3>1
    <3>3. p + j \in p + 1 .. Len(s) /\ (p + j) + 1 = i
      BY <1>0, <3>1
    <3>4. r[(p + j) + 1] = s[p + j]
      BY <3>3 DEF WithAt
    <3> QED
      BY <3>2, <3>3, <3>4
  <2>4. i <= p \/ i = p + 1 \/ i > p + 1
    BY <1>0, <2>0
  <2> QED
    BY <2>1, <2>2, <2>3, <2>4, Zenon
<1>7. r = c \o b
  BY <1>5, <1>6, SameSeq DEF WithAt
<1> QED
  BY <1>7 DEF a, b, c

LEMMA AtEnd ==
    ASSUME NEW S, NEW s \in Seq(S), NEW r \in Seq(S), NEW x \in S, WithAt(r, s, Len(s), x)
    PROVE  r = Append(s, x)
<1>0. Len(s) \in Nat
  BY LenProperties
<1>1. /\ Append(s, x) \in Seq(S) /\ Len(Append(s, x)) = Len(s) + 1
      /\ \A i \in 1..Len(s) : Append(s, x)[i] = s[i]
      /\ Append(s, x)[Len(s) + 1] = x
  BY AppendProperties
<1>2. Len(r) = Len(s) + 1 /\ r[Len(s) + 1] = x /\ \A i \in 1..Len(s) : r[i] = s[i]
  BY DEF WithAt
<1>3. ASSUME NEW i \in 1..Len(r)
      PROVE  r[i] = Append(s, x)[i]
  <2>1. i \in 1..Len(s) \/ i = Len(s) + 1
    BY <1>0, <1>2
  <2> QED
    BY <1>1, <1>2, <2>1
<1> QED
  BY <1>1, <1>2, <1>3, SameSeq

LEMMA AtFront ==
    ASSUME NEW S, NEW s \in Seq(S), NEW r \in Seq(S), NEW x \in S, WithAt(r, s, 0, x)
    PROVE  r = <<x>> \o s
<1>0. Len(s) \in Nat /\ <<x>> \in Seq(S) /\ Len(<<x>>) = 1 /\ <<x>>[1] = x
  BY LenProperties
<1>1. /\ <<x>> \o s \in Seq(S) /\ Len(<<x>> \o s) = Len(<<x>>) + Len(s)
      /\ \A i \in 1..Len(<<x>>) : (<<x>> \o s)[i] = <<x>>[i]
      /\ \A i \in 1..Len(s) : (<<x>> \o s)[Len(<<x>>) + i] = s[i]
  BY <1>0, Concatenated
<1> DEFINE c == <<x>> \o s
<1>2. c \in Seq(S) /\ Len(c) = Len(s) + 1 /\ c[1] = x /\ \A i \in 1..Len(s) : c[i + 1] = s[i]
  <2>1. c[1] = x
    BY <1>0, <1>1
  <2>2. \A i \in 1..Len(s) : Len(<<x>>) + i = i + 1
    BY <1>0
  <2> QED
    BY <1>0, <1>1, <2>1, <2>2
<1> HIDE DEF c
<1>3. Len(r) = Len(s) + 1 /\ r[1] = x /\ \A i \in 1..Len(s) : r[i + 1] = s[i]
  BY <1>0 DEF WithAt
<1>4. ASSUME NEW i \in 1..Len(r)
      PROVE  r[i] = c[i]
  <2>1. i = 1 \/ (i - 1 \in 1..Len(s) /\ (i - 1) + 1 = i)
    BY <1>0, <1>3
  <2>2. CASE i = 1
    BY <1>2, <1>3, <2>2
  <2>3. CASE i - 1 \in 1..Len(s) /\ (i - 1) + 1 = i
    <3>1. r[(i - 1) + 1] = s[i - 1] /\ c[(i - 1) + 1] = s[i - 1]
      BY <1>2, <1>3, <2>3
    <3> QED
      BY <2>3, <3>1
  <2> QED
    BY <2>1, <2>2, <2>3
<1>5. r = c
  BY <1>2, <1>3, <1>4, SameSeq
<1> QED
  BY <1>5 DEF c

(* r is s without position p.                                              *)
WithoutAt(r, s, p) ==
    /\ Len(r) = Len(s) - 1
    /\ \A i \in 1 .. p - 1 : r[i] = s[i]
    /\ \A i \in p .. Len(s) - 1 : r[i] = s[i + 1]

LEMMA Removal ==
    ASSUME NEW S, NEW s \in Seq(S), NEW r \in Seq(S), NEW p \in 1..Len(s), WithoutAt(r, s, p)
    PROVE  r = SubSeq(s, 1, p - 1) \o SubSeq(s, p + 1, Len(s))
<1> DEFINE a == SubSeq(s, 1, p - 1)
           b == SubSeq(s, p + 1, Len(s))
<1>0. Len(s) \in Nat /\ p \in Nat /\ p - 1 \in Nat /\ p <= Len(s)
  BY LenProperties
<1>1. a \in Seq(S) /\ Len(a) = p - 1 /\ \A i \in 1 .. p - 1 : a[i] = s[i]
  <2>1. /\ a \in Seq(S) /\ Len(a) = (p - 1) - 1 + 1
        /\ \A i \in 1 .. (p - 1) - 1 + 1 : a[i] = s[1 + i - 1]
    BY <1>0, Part
  <2> HIDE DEF a
  <2>2. (p - 1) - 1 + 1 = p - 1 /\ \A i \in 1 .. p - 1 : 1 + i - 1 = i
    BY <1>0
  <2> QED
    BY <2>1, <2>2
<1>2. b \in Seq(S) /\ Len(b) = Len(s) - p /\ \A i \in 1 .. Len(s) - p : b[i] = s[p + i]
  <2>1. /\ b \in Seq(S) /\ Len(b) = Len(s) - (p + 1) + 1
        /\ \A i \in 1 .. Len(s) - (p + 1) + 1 : b[i] = s[(p + 1) + i - 1]
    BY <1>0, Part
  <2> HIDE DEF b
  <2>2. Len(s) - (p + 1) + 1 = Len(s) - p /\ \A i \in 1 .. Len(s) - p : (p + 1) + i - 1 = p + i
    BY <1>0
  <2> QED
    BY <2>1, <2>2
<1> HIDE DEF a, b
<1>3. /\ a \o b \in Seq(S) /\ Len(a \o b) = Len(s) - 1
      /\ \A i \in 1 .. p - 1 : (a \o b)[i] = a[i]
      /\ \A i \in 1 .. Len(s) - p : (a \o b)[(p - 1) + i] = b[i]
  <2>1. /\ a \o b \in Seq(S) /\ Len(a \o b) = Len(a) + Len(b)
        /\ \A i \in 1..Len(a) : (a \o b)[i] = a[i]
        /\ \A i \in 1..Len(b) : (a \o b)[Len(a) + i] = b[i]
    <3>1. a \in Seq(S) /\ b \in Seq(S)
      BY <1>1, <1>2, Zenon
    <3> QED
      BY <3>1, Concatenated
  <2>2. Len(a) = p - 1 /\ Len(b) = Len(s) - p /\ Len(a) + Len(b) = Len(s) - 1
    BY <1>0, <1>1, <1>2
  <2> QED
    BY <2>1, <2>2
<1>4. ASSUME NEW i \in 1..Len(r)
      PROVE  r[i] = (a \o b)[i]
  <2>0. Len(r) = Len(s) - 1
    BY DEF WithoutAt
  <2>1. CASE i \in 1 .. p - 1
    BY <1>1, <1>3, <2>1 DEF WithoutAt
  <2>2. CASE i \in p .. Len(s) - 1
    <3>1. PICK j \in 1 .. Len(s) - p : i = (p - 1) + j
      <4>1. i - (p - 1) \in 1 .. Len(s) - p /\ i = (p - 1) + (i - (p - 1))
        BY <1>0, <2>0, <2>2
      <4> QED
        BY <4>1
    <3>2. (a \o b)[i] = s[p + j]
      BY <1>2, <1>3, <3>1
    <3>3. p + j = i + 1
      BY <1>0, <3>1
    <3>4. r[i] = s[i + 1]
      BY <2>2 DEF WithoutAt
    <3> QED
      BY <3>2, <3>3, <3>4
  <2>3. i \in 1 .. p - 1 \/ i \in p .. Len(s) - 1
    BY <1>0, <2>0
  <2> QED
    BY <2>1, <2>2, <2>3, Zenon
<1>5. r = a \o b
  BY <1>3, <1>4, SameSeq DEF WithoutAt
<1> QED
  BY <1>5 DEF a, b

-----------------------------------------------------------------------------
(* The slice and the map.                                                  *)

Cell == Key \cup {NoKey}

SliceOK == cells \in Seq(Cell) /\ len \in Nat /\ len <= Len(cells)

LEMMA Prefix ==
    ASSUME NEW S, NEW s \in Seq(S), NEW n \in Nat, n <= Len(s)
    PROVE  /\ SubSeq(s, 1, n) \in Seq(S) /\ Len(SubSeq(s, 1, n)) = n
           /\ \A i \in 1..n : SubSeq(s, 1, n)[i] = s[i]
           /\ ToSet(SubSeq(s, 1, n)) = {s[i] : i \in 1..n}
<1> DEFINE t == SubSeq(s, 1, n)
<1>1. /\ t \in Seq(S) /\ Len(t) = n - 1 + 1
      /\ \A i \in 1 .. n - 1 + 1 : t[i] = s[1 + i - 1]
  BY Part
<1> HIDE DEF t
<1>2. n - 1 + 1 = n /\ \A i \in 1..n : 1 + i - 1 = i
  OBVIOUS
<1>3. Len(t) = n /\ \A i \in 1..n : t[i] = s[i]
  BY <1>1, <1>2
<1>4. ToSet(t) = {t[i] : i \in 1..n}
  <2>1. DOMAIN t = 1..n
    BY <1>1, <1>3, LenProperties
  <2> QED
    BY <2>1 DEF ToSet
<1>5. {t[i] : i \in 1..n} = {s[i] : i \in 1..n}
  BY <1>3
<1> QED
  BY <1>1, <1>3, <1>4, <1>5 DEF t

LEMMA SliceIs ==
    /\ SliceOK => /\ Slice \in Seq(Cell) /\ Len(Slice) = len
                  /\ \A i \in 1..len : Slice[i] = cells[i]
                  /\ ToSet(Slice) = {cells[i] : i \in 1..len}
    /\ SliceOK' => /\ Slice' \in Seq(Cell) /\ Len(Slice') = len'
                   /\ \A i \in 1..len' : Slice'[i] = cells'[i]
                   /\ ToSet(Slice') = {cells'[i] : i \in 1..len'}
<1>1. ASSUME SliceOK
      PROVE  /\ Slice \in Seq(Cell) /\ Len(Slice) = len
             /\ \A i \in 1..len : Slice[i] = cells[i]
             /\ ToSet(Slice) = {cells[i] : i \in 1..len}
  BY <1>1, Prefix DEF SliceOK, Slice
<1>2. ASSUME SliceOK'
      PROVE  /\ Slice' \in Seq(Cell) /\ Len(Slice') = len'
             /\ \A i \in 1..len' : Slice'[i] = cells'[i]
             /\ ToSet(Slice') = {cells'[i] : i \in 1..len'}
  <2>1. cells' \in Seq(Cell) /\ len' \in Nat /\ len' <= Len(cells')
    BY <1>2 DEF SliceOK, Cell
  <2>2. Slice' = SubSeq(cells', 1, len')
    BY DEF Slice
  <2> QED
    BY <2>1, <2>2, Prefix
<1> QED
  BY <1>1, <1>2

(* A new array has the keys it is made for.                                *)
LEMMA Moved ==
    ASSUME NEW ks \in Seq(Cell), NewArray(ks)
    PROVE  /\ cells' \in Seq(Cell) /\ Len(ks) \in Nat /\ Len(ks) <= Len(cells')
           /\ \A i \in 1..Len(ks) : cells'[i] = ks[i]
<1>0. Len(ks) \in Nat /\ \A i \in 1..Len(ks) : ks[i] \in Cell
  BY LenProperties
<1>1. PICK cap \in Len(ks)..MaxCap :
            cells' = [i \in 1..cap |-> IF i <= Len(ks) THEN ks[i] ELSE NoKey]
  BY DEF NewArray
<1>2. cap \in Nat /\ Len(ks) <= cap
  BY <1>0, <1>1, MapAssumption
<1>3. cells' \in [1..cap -> Cell]
  BY <1>0, <1>1, <1>2 DEF Cell
<1>4. cells' \in Seq(Cell) /\ Len(cells') = cap
  BY <1>2, <1>3, FunctionIsSeq
<1>5. \A i \in 1..Len(ks) : cells'[i] = ks[i]
  BY <1>0, <1>1, <1>2
<1> QED
  BY <1>0, <1>2, <1>4, <1>5

(* append keeps what is before from and puts the keys after it.            *)
LEMMA Appended ==
    ASSUME SliceOK, NEW from \in Nat, from <= len, NEW ks \in Seq(Cell), AppendTo(from, ks)
    PROVE  /\ SliceOK' /\ Len(ks) \in Nat /\ len' = from + Len(ks)
           /\ \A i \in 1..from : cells'[i] = cells[i]
           /\ \A i \in 1..Len(ks) : cells'[from + i] = ks[i]
<1>0. /\ Len(ks) \in Nat /\ (\A i \in 1..Len(ks) : ks[i] \in Cell)
      /\ Len(cells) \in Nat /\ cells \in [1..Len(cells) -> Cell]
  BY LenProperties DEF SliceOK
<1>1. CASE from + Len(ks) <= Len(cells)
  <2>1. /\ cells' = [i \in DOMAIN cells |-> IF i \in (from + 1)..(from + Len(ks)) THEN ks[i - from] ELSE cells[i]]
        /\ len' = from + Len(ks)
    BY <1>1 DEF AppendTo, InPlace
  <2>2. cells' = [i \in 1..Len(cells) |-> IF i \in (from + 1)..(from + Len(ks)) THEN ks[i - from] ELSE cells[i]]
    BY <1>0, <2>1
  <2>3. cells' \in [1..Len(cells) -> Cell]
    <3>1. \A i \in 1..Len(cells) : i \in (from + 1)..(from + Len(ks)) => i - from \in 1..Len(ks)
      BY <1>0
    <3> QED
      BY <1>0, <2>2, <3>1
  <2>4. cells' \in Seq(Cell) /\ Len(cells') = Len(cells)
    BY <1>0, <2>3, FunctionIsSeq
  <2>5. \A i \in 1..from : cells'[i] = cells[i]
    BY <1>0, <2>2 DEF SliceOK
  <2>6. ASSUME NEW i \in 1..Len(ks)
        PROVE  cells'[from + i] = ks[i]
    <3>1. from + i \in 1..Len(cells) /\ from + i \in (from + 1)..(from + Len(ks)) /\ (from + i) - from = i
      BY <1>0, <1>1
    <3> QED
      BY <2>2, <3>1
  <2> QED
    BY <1>0, <1>1, <2>1, <2>4, <2>5, <2>6 DEF SliceOK
<1>2. CASE ~ (from + Len(ks) <= Len(cells))
  <2> DEFINE a == SubSeq(cells, 1, from)
  <2>1. NewArray(a \o ks) /\ len' = from + Len(ks)
    BY <1>2 DEF AppendTo
  <2>2. a \in Seq(Cell) /\ Len(a) = from /\ \A i \in 1..from : a[i] = cells[i]
    <3>1. /\ a \in Seq(Cell) /\ Len(a) = from - 1 + 1
          /\ \A i \in 1 .. from - 1 + 1 : a[i] = cells[1 + i - 1]
      BY <1>0, Part DEF SliceOK
    <3> HIDE DEF a
    <3>2. from - 1 + 1 = from /\ \A i \in 1..from : 1 + i - 1 = i
      OBVIOUS
    <3> QED
      BY <3>1, <3>2
  <2> HIDE DEF a
  <2> DEFINE all == a \o ks
  <2>3. /\ all \in Seq(Cell) /\ Len(all) = from + Len(ks)
        /\ \A i \in 1..from : all[i] = cells[i]
        /\ \A i \in 1..Len(ks) : all[from + i] = ks[i]
    <3>1. /\ all \in Seq(Cell) /\ Len(all) = Len(a) + Len(ks)
          /\ \A i \in 1..Len(a) : all[i] = a[i]
          /\ \A i \in 1..Len(ks) : all[Len(a) + i] = ks[i]
      <4>1. a \in Seq(Cell) /\ ks \in Seq(Cell)
        BY <2>2, Zenon
      <4> QED
        BY <4>1, Concatenated
    <3> HIDE DEF all
    <3>2. Len(a) = from /\ \A i \in 1..from : a[i] = cells[i]
      BY <2>2
    <3>3. \A i \in 1..from : all[i] = cells[i]
      BY <3>1, <3>2
    <3> QED
      BY <3>1, <3>2, <3>3
  <2>4. NewArray(all)
    BY <2>1
  <2> HIDE DEF all
  <2>5. /\ cells' \in Seq(Cell) /\ Len(all) <= Len(cells')
        /\ \A i \in 1..Len(all) : cells'[i] = all[i]
    BY <2>3, <2>4, Moved
  <2>6. SliceOK'
    BY <1>0, <2>1, <2>3, <2>5 DEF SliceOK
  <2>7. \A i \in 1..from : cells'[i] = cells[i]
    BY <1>0, <2>3, <2>5
  <2>8. ASSUME NEW i \in 1..Len(ks)
        PROVE  cells'[from + i] = ks[i]
    <3>1. from + i \in 1..Len(all)
      BY <1>0, <2>3
    <3> QED
      BY <2>3, <2>5, <3>1
  <2> QED
    BY <1>0, <2>1, <2>6, <2>7, <2>8
<1> QED
  BY <1>1, <1>2

(* The keys of the slice are different and have values.                    *)
KeysOK ==
    /\ \A i, j \in 1..len : cells[i] = cells[j] => i = j
    /\ \A i \in 1..len : cells[i] \in DOMAIN values

(* The list the map stands for.                                            *)
Pairs == [i \in 1..len |-> <<cells[i], values[cells[i]]>>]

Unlisted == {<<k, values[k]>> : k \in DOMAIN values \ ToSet(Slice)}

LEMMA PairsLen ==
    /\ len \in Nat => Pairs \in Seq(Range(Pairs)) /\ Len(Pairs) = len
    /\ len' \in Nat => Pairs' \in Seq(Range(Pairs')) /\ Len(Pairs') = len'
<1>1. Pairs \in [1..len -> Range(Pairs)] /\ Pairs' \in [1..len' -> Range(Pairs')]
  BY DEF Pairs, Range
<1> QED
  BY <1>1, FunctionIsSeq

(* The slice with k at position p + 1.                                     *)
Grown(p, k) ==
    /\ len' = len + 1
    /\ \A i \in 1..p : cells'[i] = cells[i]
    /\ cells'[p + 1] = k
    /\ \A i \in p + 1 .. len : cells'[i + 1] = cells[i]

LEMMA GrownCells ==
    ASSUME SliceOK, NEW p \in Nat, p <= len, NEW k, Grown(p, k)
    PROVE  /\ \A i \in 1..len : \E j \in 1..len' : cells'[j] = cells[i]
           /\ \E j \in 1..len' : cells'[j] = k
           /\ \A j \in 1..len' : \/ j <= p /\ j \in 1..len /\ cells'[j] = cells[j]
                                 \/ j = p + 1 /\ cells'[j] = k
                                 \/ j > p + 1 /\ j - 1 \in 1..len /\ cells'[j] = cells[j - 1]
<1>0. len \in Nat /\ len' = len + 1
  BY DEF SliceOK, Grown
<1>1. ASSUME NEW i \in 1..len
      PROVE  \E j \in 1..len' : cells'[j] = cells[i]
  <2>1. CASE i <= p
    BY <1>0, <2>1 DEF Grown
  <2>2. CASE i > p
    <3>1. i \in p + 1 .. len /\ i + 1 \in 1..len'
      BY <1>0, <2>2
    <3> QED
      BY <3>1 DEF Grown
  <2> QED
    BY <1>0, <2>1, <2>2
<1>2. p + 1 \in 1..len' /\ cells'[p + 1] = k
  BY <1>0 DEF Grown
<1>3. ASSUME NEW j \in 1..len'
      PROVE  \/ j <= p /\ j \in 1..len /\ cells'[j] = cells[j]
             \/ j = p + 1 /\ cells'[j] = k
             \/ j > p + 1 /\ j - 1 \in 1..len /\ cells'[j] = cells[j - 1]
  <2>1. CASE j <= p
    BY <1>0, <2>1 DEF Grown
  <2>2. CASE j = p + 1
    BY <1>2, <2>2
  <2>3. CASE j > p + 1
    <3>1. j - 1 \in p + 1 .. len /\ (j - 1) + 1 = j /\ j - 1 \in 1..len
      BY <1>0, <2>3
    <3>2. cells'[(j - 1) + 1] = cells[j - 1]
      BY <3>1 DEF Grown
    <3> QED
      BY <2>3, <3>1, <3>2
  <2>4. j <= p \/ j = p + 1 \/ j > p + 1
    BY <1>0
  <2> QED
    BY <2>1, <2>2, <2>3, <2>4, Zenon
<1> QED
  BY <1>1, <1>2, <1>3

LEMMA GrowKeys ==
    ASSUME SliceOK, KeysOK, SliceOK', NEW k, NEW v, ~ Exists(k), NEW p \in Nat, p <= len,
           Grown(p, k), Put(k, v)
    PROVE  KeysOK' /\ WithAt(Pairs', Pairs, p, <<k, v>>) /\ Unlisted' = Unlisted
<1>0. len \in Nat /\ len' = len + 1 /\ len' \in Nat
  BY DEF SliceOK, Grown
<1>1. /\ \A i \in 1..len : \E j \in 1..len' : cells'[j] = cells[i]
      /\ \E j \in 1..len' : cells'[j] = k
  BY GrownCells
<1>2. \A j \in 1..len' : \/ j <= p /\ j \in 1..len /\ cells'[j] = cells[j]
                         \/ j = p + 1 /\ cells'[j] = k
                         \/ j > p + 1 /\ j - 1 \in 1..len /\ cells'[j] = cells[j - 1]
  BY GrownCells
<1>3. /\ DOMAIN values' = DOMAIN values \cup {k} /\ values'[k] = v /\ k \notin DOMAIN values
      /\ \A j \in DOMAIN values : values'[j] = values[j]
  BY DEF Put, Exists
<1>4. \A i \in 1..len : cells[i] \in DOMAIN values /\ cells[i] # k
  BY <1>3 DEF KeysOK
<1>5. ASSUME NEW i \in 1..len', NEW j \in 1..len', cells'[i] = cells'[j]
      PROVE  i = j
  <2>1. \A a, b \in 1..len : cells[a] = cells[b] => a = b
    BY DEF KeysOK
  <2>2. /\ \/ i <= p /\ i \in 1..len /\ cells'[i] = cells[i]
           \/ i = p + 1 /\ cells'[i] = k
           \/ i > p + 1 /\ i - 1 \in 1..len /\ cells'[i] = cells[i - 1]
        /\ \/ j <= p /\ j \in 1..len /\ cells'[j] = cells[j]
           \/ j = p + 1 /\ cells'[j] = k
           \/ j > p + 1 /\ j - 1 \in 1..len /\ cells'[j] = cells[j - 1]
    BY <1>2
  <2> QED
    BY <1>0, <1>4, <1>5, <2>1, <2>2
<1>6. \A i \in 1..len' : cells'[i] \in DOMAIN values'
  BY <1>2, <1>3, <1>4
<1>8. KeysOK'
  BY <1>5, <1>6 DEF KeysOK
<1>9. Unlisted' = Unlisted
  <2>1. ToSet(Slice) = {cells[i] : i \in 1..len} /\ ToSet(Slice)' = {cells'[i] : i \in 1..len'}
    BY SliceIs
  <2>2. DOMAIN values' \ {cells'[i] : i \in 1..len'} = DOMAIN values \ {cells[i] : i \in 1..len}
    <3>1. {cells'[i] : i \in 1..len'} = {cells[i] : i \in 1..len} \cup {k}
      BY <1>1, <1>2
    <3> QED
      BY <1>3, <3>1
  <2> QED
    BY <1>3, <2>1, <2>2 DEF Unlisted
<1>10. Len(Pairs) = len /\ Len(Pairs') = len'
  BY <1>0, PairsLen
<1>11. /\ \A i \in 1..len : Pairs[i] = <<cells[i], values[cells[i]]>>
       /\ \A i \in 1..len' : Pairs'[i] = <<cells'[i], values'[cells'[i]]>>
  BY DEF Pairs
<1>12. \A i \in 1..len : values'[cells[i]] = values[cells[i]]
  BY <1>3, <1>4
<1>13. \A i \in 1..p : Pairs'[i] = Pairs[i]
  <2> SUFFICES ASSUME NEW i \in 1..p
               PROVE  Pairs'[i] = Pairs[i]
    OBVIOUS
  <2>1. i \in 1..len /\ i \in 1..len' /\ cells'[i] = cells[i]
    BY <1>0 DEF Grown
  <2> QED
    BY <1>11, <1>12, <2>1
<1>14. Pairs'[p + 1] = <<k, v>>
  <2>1. p + 1 \in 1..len' /\ cells'[p + 1] = k
    BY <1>0 DEF Grown
  <2> QED
    BY <1>3, <1>11, <2>1
<1>15. \A i \in p + 1 .. len : Pairs'[i + 1] = Pairs[i]
  <2> SUFFICES ASSUME NEW i \in p + 1 .. len
               PROVE  Pairs'[i + 1] = Pairs[i]
    OBVIOUS
  <2>1. i \in 1..len /\ i + 1 \in 1..len' /\ cells'[i + 1] = cells[i]
    BY <1>0 DEF Grown
  <2> QED
    BY <1>11, <1>12, <2>1
<1>16. WithAt(Pairs', Pairs, p, <<k, v>>)
  BY <1>0, <1>10, <1>13, <1>14, <1>15 DEF WithAt
<1> QED
  BY <1>8, <1>9, <1>16

(* A key that has a value keeps its place.                                 *)
Replaced(k, v) ==
    /\ Pairs' = [i \in DOMAIN Pairs |-> IF Pairs[i][1] = k THEN <<k, v>> ELSE Pairs[i]]
    /\ Unlisted' = {IF p[1] = k THEN <<k, v>> ELSE p : p \in Unlisted}

LEMMA ReplaceKeys ==
    ASSUME SliceOK, KeysOK, NEW k, NEW v, Exists(k), KeepSlice, Put(k, v)
    PROVE  SliceOK' /\ KeysOK' /\ Replaced(k, v)
<1>1. cells' = cells /\ len' = len
  BY DEF KeepSlice
<1>2. DOMAIN values' = DOMAIN values /\ values'[k] = v /\ \A j \in DOMAIN values : j # k => values'[j] = values[j]
  BY DEF Put, Exists
<1>3. SliceOK' /\ KeysOK'
  BY <1>1, <1>2 DEF SliceOK, KeysOK, Cell
<1>4. \A i \in 1..len : cells[i] \in DOMAIN values
  BY DEF KeysOK
<1>5. Pairs' = [i \in DOMAIN Pairs |-> IF Pairs[i][1] = k THEN <<k, v>> ELSE Pairs[i]]
  <2>1. Pairs' = [i \in 1..len |-> <<cells[i], values'[cells[i]]>>]
    BY <1>1 DEF Pairs
  <2>2. DOMAIN Pairs = 1..len /\ \A i \in 1..len : Pairs[i] = <<cells[i], values[cells[i]]>>
    BY DEF Pairs
  <2>3. ASSUME NEW i \in 1..len
        PROVE  <<cells[i], values'[cells[i]]>> = IF Pairs[i][1] = k THEN <<k, v>> ELSE Pairs[i]
    <3>1. Pairs[i] = <<cells[i], values[cells[i]]>> /\ Pairs[i][1] = cells[i] /\ cells[i] \in DOMAIN values
      BY <1>4, <2>2
    <3> QED
      BY <1>2, <3>1
  <2> QED
    BY <2>1, <2>2, <2>3
<1>6. Unlisted' = {IF p[1] = k THEN <<k, v>> ELSE p : p \in Unlisted}
  <2> DEFINE U == DOMAIN values \ ToSet(Slice)
  <2>1. Unlisted' = {<<j, values'[j]>> : j \in U}
    BY <1>1, <1>2 DEF Unlisted, Slice
  <2>2. \A j \in U : <<j, values'[j]>> = IF <<j, values[j]>>[1] = k THEN <<k, v>> ELSE <<j, values[j]>>
    BY <1>2
  <2>3. Unlisted = {<<j, values[j]>> : j \in U}
    BY DEF Unlisted
  <2> HIDE DEF U
  <2> DEFINE new(p) == IF p[1] = k THEN <<k, v>> ELSE p
  <2>4. \A j \in U : <<j, values'[j]>> = new(<<j, values[j]>>)
    BY <2>2
  <2> HIDE DEF new
  <2>5. {<<j, values'[j]>> : j \in U} = {new(p) : p \in {<<j, values[j]>> : j \in U}}
    BY <2>4
  <2>6. Unlisted' = {new(p) : p \in Unlisted}
    BY <2>1, <2>3, <2>5
  <2> QED
    BY <2>6 DEF new
<1> QED
  BY <1>3, <1>5, <1>6 DEF Replaced

(* The slice without position p.                                           *)
Shrunk(p) ==
    /\ len' = len - 1
    /\ \A i \in 1 .. p - 1 : cells'[i] = cells[i]
    /\ \A i \in p .. len - 1 : cells'[i] = cells[i + 1]

LEMMA ShrunkCells ==
    ASSUME SliceOK, NEW p \in 1..len, Shrunk(p)
    PROVE  /\ \A i \in 1..len : i # p => \E j \in 1..len' : cells'[j] = cells[i]
           /\ \A j \in 1..len' : \/ j < p /\ j \in 1..len /\ cells'[j] = cells[j]
                                 \/ j >= p /\ j + 1 \in 1..len /\ cells'[j] = cells[j + 1]
<1>0. len \in Nat /\ len' = len - 1 /\ p \in Nat
  BY DEF SliceOK, Shrunk
<1>1. ASSUME NEW i \in 1..len, i # p
      PROVE  \E j \in 1..len' : cells'[j] = cells[i]
  <2>1. CASE i < p
    <3>1. i \in 1 .. p - 1 /\ i \in 1..len'
      BY <1>0, <2>1
    <3> QED
      BY <3>1 DEF Shrunk
  <2>2. CASE i > p
    <3>1. i - 1 \in p .. len - 1 /\ i - 1 \in 1..len' /\ (i - 1) + 1 = i
      BY <1>0, <2>2
    <3>2. cells'[i - 1] = cells[(i - 1) + 1]
      BY <3>1 DEF Shrunk
    <3> QED
      BY <3>1, <3>2
  <2>3. i < p \/ i > p
    BY <1>0, <1>1
  <2> QED
    BY <2>1, <2>2, <2>3, Zenon
<1>2. ASSUME NEW j \in 1..len'
      PROVE  \/ j < p /\ j \in 1..len /\ cells'[j] = cells[j]
             \/ j >= p /\ j + 1 \in 1..len /\ cells'[j] = cells[j + 1]
  <2>1. CASE j < p
    <3>1. j \in 1 .. p - 1 /\ j \in 1..len
      BY <1>0, <2>1
    <3> QED
      BY <2>1, <3>1 DEF Shrunk
  <2>2. CASE j >= p
    <3>1. j \in p .. len - 1 /\ j + 1 \in 1..len
      BY <1>0, <2>2
    <3> QED
      BY <2>2, <3>1 DEF Shrunk
  <2>3. j < p \/ j >= p
    BY <1>0
  <2> QED
    BY <2>1, <2>2, <2>3, Zenon
<1> QED
  BY <1>1, <1>2

LEMMA ShrinkKeys ==
    ASSUME SliceOK, KeysOK, SliceOK', NEW k, NEW p \in 1..len, cells[p] = k, Shrunk(p),
           values' = [j \in DOMAIN values \ {k} |-> values[j]]
    PROVE  KeysOK' /\ WithoutAt(Pairs', Pairs, p) /\ Unlisted' = {u \in Unlisted : u[1] # k}
<1>0. len \in Nat /\ len' = len - 1 /\ len' \in Nat
  BY DEF SliceOK, Shrunk
<1>1. \A i \in 1..len : i # p => \E j \in 1..len' : cells'[j] = cells[i]
  BY ShrunkCells
<1>2. \A j \in 1..len' : \/ j < p /\ j \in 1..len /\ cells'[j] = cells[j]
                         \/ j >= p /\ j + 1 \in 1..len /\ cells'[j] = cells[j + 1]
  BY ShrunkCells
<1>3. DOMAIN values' = DOMAIN values \ {k} /\ \A j \in DOMAIN values' : values'[j] = values[j]
  OBVIOUS
<1>4. /\ \A i \in 1..len : cells[i] \in DOMAIN values
      /\ \A i, j \in 1..len : cells[i] = cells[j] => i = j
  BY DEF KeysOK
<1>5. ASSUME NEW i \in 1..len', NEW j \in 1..len', cells'[i] = cells'[j]
      PROVE  i = j
  <2>1. /\ \/ i < p /\ i \in 1..len /\ cells'[i] = cells[i]
           \/ i >= p /\ i + 1 \in 1..len /\ cells'[i] = cells[i + 1]
        /\ \/ j < p /\ j \in 1..len /\ cells'[j] = cells[j]
           \/ j >= p /\ j + 1 \in 1..len /\ cells'[j] = cells[j + 1]
    BY <1>2
  <2> QED
    BY <1>0, <1>4, <1>5, <2>1
<1>6. \A i \in 1..len' : cells'[i] \in DOMAIN values'
  <2> SUFFICES ASSUME NEW i \in 1..len'
               PROVE  cells'[i] \in DOMAIN values /\ cells'[i] # k
    BY <1>3
  <2>1. PICK j \in 1..len : j # p /\ cells'[i] = cells[j]
    <3>1. i # p \/ i + 1 # p
      BY <1>0
    <3>2. (i < p => i # p) /\ (i >= p => i + 1 # p)
      BY <1>0
    <3> QED
      BY <1>2, <3>2
  <2> QED
    BY <1>4, <2>1
<1>8. KeysOK'
  BY <1>5, <1>6 DEF KeysOK
<1>9. Unlisted' = {u \in Unlisted : u[1] # k}
  <2>1. ToSet(Slice) = {cells[i] : i \in 1..len} /\ ToSet(Slice)' = {cells'[i] : i \in 1..len'}
    BY SliceIs
  <2>2. DOMAIN values' \ {cells'[i] : i \in 1..len'} = DOMAIN values \ {cells[i] : i \in 1..len}
    <3>1. {cells'[i] : i \in 1..len'} = {cells[i] : i \in 1..len} \ {k}
      BY <1>1, <1>2, <1>3, <1>4, <1>6
    <3>2. k \in {cells[i] : i \in 1..len}
      OBVIOUS
    <3> QED
      BY <1>3, <3>1, <3>2
  <2>3. k \notin DOMAIN values \ ToSet(Slice)
    BY <2>1
  <2> QED
    BY <1>3, <2>1, <2>2, <2>3 DEF Unlisted
<1>10. Len(Pairs) = len /\ Len(Pairs') = len'
  BY <1>0, PairsLen
<1>11. /\ \A i \in 1..len : Pairs[i] = <<cells[i], values[cells[i]]>>
       /\ \A i \in 1..len' : Pairs'[i] = <<cells'[i], values[cells'[i]]>>
  BY <1>3, <1>6 DEF Pairs
<1>12. \A i \in 1 .. p - 1 : Pairs'[i] = Pairs[i]
  <2> SUFFICES ASSUME NEW i \in 1 .. p - 1
               PROVE  Pairs'[i] = Pairs[i]
    OBVIOUS
  <2>1. i \in 1..len /\ i \in 1..len' /\ cells'[i] = cells[i]
    BY <1>0 DEF Shrunk
  <2> QED
    BY <1>11, <2>1
<1>13. \A i \in p .. len - 1 : Pairs'[i] = Pairs[i + 1]
  <2> SUFFICES ASSUME NEW i \in p .. len - 1
               PROVE  Pairs'[i] = Pairs[i + 1]
    OBVIOUS
  <2>1. i + 1 \in 1..len /\ i \in 1..len' /\ cells'[i] = cells[i + 1]
    BY <1>0 DEF Shrunk
  <2> QED
    BY <1>11, <2>1
<1>14. WithoutAt(Pairs', Pairs, p)
  BY <1>0, <1>10, <1>12, <1>13 DEF WithoutAt
<1> QED
  BY <1>8, <1>9, <1>14

-----------------------------------------------------------------------------
(* The operations are those of a list of pairs.                            *)

LEMMA ListKeys ==
    ASSUME SliceOK, KeysOK
    PROVE  List!Keys = DOMAIN values
<1>1. List!Keys = {Pairs[i][1] : i \in DOMAIN Pairs} \cup {p[1] : p \in Unlisted}
  BY DEF List!Keys, Pairs, Unlisted
<1>2. DOMAIN Pairs = 1..len /\ \A i \in 1..len : Pairs[i][1] = cells[i]
  BY DEF Pairs
<1>3. {Pairs[i][1] : i \in DOMAIN Pairs} = {cells[i] : i \in 1..len}
  BY <1>2
<1>4. {p[1] : p \in Unlisted} = DOMAIN values \ ToSet(Slice)
  <2>1. \A p \in Unlisted : p[1] \in DOMAIN values \ ToSet(Slice)
    BY DEF Unlisted
  <2>2. \A k \in DOMAIN values \ ToSet(Slice) : <<k, values[k]>> \in Unlisted /\ <<k, values[k]>>[1] = k
    BY DEF Unlisted
  <2> QED
    BY <2>1, <2>2
<1>5. ToSet(Slice) = {cells[i] : i \in 1..len}
  BY SliceIs
<1>6. {cells[i] : i \in 1..len} \subseteq DOMAIN values
  BY DEF KeysOK
<1> QED
  BY <1>1, <1>3, <1>4, <1>5, <1>6

LEMMA HasValue ==
    ASSUME SliceOK, KeysOK, NEW k
    PROVE  k \in List!Keys <=> Exists(k)
BY ListKeys DEF Exists

LEMMA PairsTogether ==
    ASSUME SliceOK, SliceOK', NEW p \in Nat, p <= len, NEW x, WithAt(Pairs', Pairs, p, x)
    PROVE  \E S : Pairs \in Seq(S) /\ Pairs' \in Seq(S) /\ x \in S /\ Len(Pairs) = len
<1> DEFINE S == Range(Pairs) \cup Range(Pairs') \cup {x}
<1>1. /\ Pairs \in Seq(Range(Pairs)) /\ Len(Pairs) = len
      /\ Pairs' \in Seq(Range(Pairs'))
  BY PairsLen DEF SliceOK
<1>2. Pairs \in Seq(S) /\ Pairs' \in Seq(S)
  BY <1>1, SeqMonotonic
<1> QED
  BY <1>1, <1>2

(* Set, InsertAt and Prepend of a key that has a value.                    *)
LEMMA StoreAgain ==
    ASSUME SliceOK, KeysOK, NEW k, NEW v, Exists(k), KeepSlice, Put(k, v)
    PROVE  /\ SliceOK' /\ KeysOK' /\ List!AddLast(k, v) /\ List!AddFirst(k, v)
           /\ \A position \in Int : Index(position) \in 0..len => List!AddAt(k, v, position)
<1>1. SliceOK' /\ KeysOK' /\ Replaced(k, v)
  BY ReplaceKeys
<1>2. k \in List!Keys
  BY HasValue
<1>3. List!AddLast(k, v) /\ List!AddFirst(k, v)
  BY <1>1, <1>2 DEF List!AddLast, List!AddFirst, List!Store, Replaced, Pairs, Unlisted
<1>4. ASSUME NEW position \in Int, Index(position) \in 0..len
      PROVE  List!AddAt(k, v, position)
  <2>1. len \in Nat /\ Len(Pairs) = len
    BY PairsLen DEF SliceOK
  <2>2. (IF position < 0 THEN Len(Pairs) + 2 + position ELSE position + 1) \in 1 .. Len(Pairs) + 1
    BY <1>4, <2>1 DEF Index
  <2> QED
    BY <1>1, <1>2, <2>2 DEF List!AddAt, List!Store, Replaced, Pairs, Unlisted
<1> QED
  BY <1>1, <1>3, <1>4

LEMMA SetStep ==
    ASSUME SliceOK, KeysOK, NEW k \in Key, NEW v, MapSet(k, v)
    PROVE  SliceOK' /\ KeysOK' /\ List!AddLast(k, v)
<1>1. CASE Exists(k)
  <2>1. KeepSlice /\ Put(k, v)
    BY <1>1 DEF MapSet
  <2> QED
    BY <1>1, <2>1, StoreAgain
<1>2. CASE ~ Exists(k)
  <2>1. PICK n \in Nat : n = len
    BY DEF SliceOK
  <2>2. PICK ks \in Seq(Cell) : ks = <<k>> /\ Len(ks) = 1 /\ ks[1] = k
    <3>1. <<k>> \in Seq(Cell) /\ Len(<<k>>) = 1 /\ <<k>>[1] = k
      BY DEF Cell
    <3> QED
      BY <3>1
  <2>3. AppendTo(n, ks) /\ Put(k, v)
    BY <1>2, <2>1, <2>2 DEF MapSet
  <2>4. /\ SliceOK' /\ len' = n + Len(ks)
        /\ \A i \in 1..n : cells'[i] = cells[i]
        /\ \A i \in 1..Len(ks) : cells'[n + i] = ks[i]
    BY <2>1, <2>3, Appended
  <2>5. Grown(n, k)
    <3>1. cells'[n + 1] = k
      BY <2>2, <2>4
    <3> QED
      BY <2>1, <2>2, <2>4, <3>1 DEF Grown
  <2>6. KeysOK' /\ WithAt(Pairs', Pairs, n, <<k, v>>) /\ Unlisted' = Unlisted
    BY <1>2, <2>1, <2>3, <2>4, <2>5, GrowKeys
  <2>7. PICK S : Pairs \in Seq(S) /\ Pairs' \in Seq(S) /\ <<k, v>> \in S /\ Len(Pairs) = n
    BY <2>1, <2>4, <2>6, PairsTogether
  <2>8. Pairs' = Append(Pairs, <<k, v>>)
    BY <2>6, <2>7, AtEnd
  <2>9. k \notin List!Keys
    BY <1>2, HasValue
  <2>10. List!AddLast(k, v)
    BY <2>6, <2>8, <2>9 DEF List!AddLast, List!Store, Pairs, Unlisted
  <2> QED
    BY <2>4, <2>6, <2>10
<1> QED
  BY <1>1, <1>2

LEMMA PrependStep ==
    ASSUME SliceOK, KeysOK, NEW k \in Key, NEW v, Prepend(k, v)
    PROVE  SliceOK' /\ KeysOK' /\ List!AddFirst(k, v)
<1>1. CASE Exists(k)
  <2>1. KeepSlice /\ Put(k, v)
    BY <1>1 DEF Prepend
  <2> QED
    BY <1>1, <2>1, StoreAgain
<1>2. CASE ~ Exists(k)
  <2>1. PICK n \in Nat : n = len
    BY DEF SliceOK
  <2>2. /\ Slice \in Seq(Cell) /\ Len(Slice) = n
        /\ \A i \in 1..n : Slice[i] = cells[i]
    BY <2>1, SliceIs
  <2>3. <<k>> \in Seq(Cell) /\ Len(<<k>>) = 1 /\ <<k>>[1] = k
    BY DEF Cell
  <2>4. PICK ks \in Seq(Cell) : ks = <<k>> \o Slice
    <3>1. <<k>> \o Slice \in Seq(Cell)
      BY <2>2, <2>3, Concatenated
    <3> QED
      BY <3>1
  <2>5. Len(ks) = n + 1 /\ ks[1] = k /\ \A i \in 1..n : ks[i + 1] = cells[i]
    <3>1. /\ Len(ks) = Len(<<k>>) + Len(Slice)
          /\ \A i \in 1..Len(<<k>>) : ks[i] = <<k>>[i]
          /\ \A i \in 1..Len(Slice) : ks[Len(<<k>>) + i] = Slice[i]
      BY <2>2, <2>3, <2>4, Concatenated
    <3>2. \A i \in 1..n : Len(<<k>>) + i = i + 1
      BY <2>3
    <3>3. ks[1] = <<k>>[1]
      BY <2>3, <3>1
    <3> QED
      BY <2>2, <2>3, <3>1, <3>2, <3>3
  <2>6. NewArray(ks) /\ len' = len + 1 /\ Put(k, v)
    BY <1>2, <2>4 DEF Prepend
  <2>7. /\ cells' \in Seq(Cell) /\ Len(ks) <= Len(cells')
        /\ \A i \in 1..Len(ks) : cells'[i] = ks[i]
    BY <2>6, Moved
  <2>8. SliceOK'
    BY <2>1, <2>5, <2>6, <2>7 DEF SliceOK, Cell
  <2>9. Grown(0, k)
    <3>1. cells'[0 + 1] = k
      BY <2>5, <2>7
    <3>2. \A i \in 0 + 1 .. len : cells'[i + 1] = cells[i]
      <4> SUFFICES ASSUME NEW i \in 0 + 1 .. len
                   PROVE  cells'[i + 1] = cells[i]
        OBVIOUS
      <4>1. i \in 1..n /\ i + 1 \in 1..Len(ks)
        BY <2>1, <2>5
      <4> QED
        BY <2>5, <2>7, <4>1
    <3> QED
      BY <2>6, <3>1, <3>2 DEF Grown
  <2>10. KeysOK' /\ WithAt(Pairs', Pairs, 0, <<k, v>>) /\ Unlisted' = Unlisted
    BY <1>2, <2>1, <2>6, <2>8, <2>9, GrowKeys
  <2>11. PICK S : Pairs \in Seq(S) /\ Pairs' \in Seq(S) /\ <<k, v>> \in S /\ Len(Pairs) = len
    BY <2>1, <2>8, <2>10, PairsTogether
  <2>12. Pairs' = <<<<k, v>>>> \o Pairs
    BY <2>10, <2>11, AtFront
  <2>13. k \notin List!Keys
    BY <1>2, HasValue
  <2>14. List!AddFirst(k, v)
    BY <2>10, <2>12, <2>13 DEF List!AddFirst, List!Store, Pairs, Unlisted
  <2> QED
    BY <2>8, <2>10, <2>14
<1> QED
  BY <1>1, <1>2

LEMMA InsertStep ==
    ASSUME SliceOK, KeysOK, NEW k \in Key, NEW v, NEW position \in Int, InsertKeyAt(k, v, position)
    PROVE  SliceOK' /\ KeysOK' /\ List!AddAt(k, v, position)
<1>0. PICK n \in Nat : n = len
  BY DEF SliceOK
<1>1. PICK p \in 0..n : p = Index(position)
  BY <1>0 DEF InsertKeyAt
<1>2. CASE Exists(k)
  <2>1. KeepSlice /\ Put(k, v)
    BY <1>2 DEF InsertKeyAt
  <2> QED
    BY <1>0, <1>1, <1>2, <2>1, StoreAgain
<1>3. CASE ~ Exists(k)
  <2> DEFINE right == SubSeq(cells, p + 1, n)
  <2>1. right \in Seq(Cell) /\ Len(right) = n - p /\ \A i \in 1 .. n - p : right[i] = cells[p + i]
    <3>1. p \in Nat /\ p + 1 \in Nat /\ 1 <= p + 1 /\ p + 1 <= n + 1 /\ n <= Len(cells) /\ cells \in Seq(Cell)
      BY <1>0 DEF SliceOK
    <3>2. /\ right \in Seq(Cell) /\ Len(right) = n - (p + 1) + 1
          /\ \A i \in 1 .. n - (p + 1) + 1 : right[i] = cells[(p + 1) + i - 1]
      BY <3>1, Part
    <3> HIDE DEF right
    <3>3. n - (p + 1) + 1 = n - p /\ \A i \in 1 .. n - p : (p + 1) + i - 1 = p + i
      OBVIOUS
    <3> QED
      BY <3>2, <3>3
  <2>2. <<k>> \in Seq(Cell) /\ Len(<<k>>) = 1 /\ <<k>>[1] = k
    BY DEF Cell
  <2>3. PICK ks \in Seq(Cell) : ks = <<k>> \o right
    <3> HIDE DEF right
    <3>1. <<k>> \o right \in Seq(Cell)
      BY <2>1, <2>2, Concatenated
    <3> QED
      BY <3>1
  <2>4. AppendTo(p, ks) /\ Put(k, v)
    BY <1>0, <1>1, <1>3, <2>3 DEF InsertKeyAt, InsertKey
  <2> HIDE DEF right
  <2>5. Len(ks) = n - p + 1 /\ ks[1] = k /\ \A i \in 1 .. n - p : ks[i + 1] = cells[p + i]
    <3>0. PICK one : one = <<k>>
      OBVIOUS
    <3>1. /\ Len(one \o right) = Len(one) + Len(right)
          /\ \A i \in 1..Len(one) : (one \o right)[i] = one[i]
          /\ \A i \in 1..Len(right) : (one \o right)[Len(one) + i] = right[i]
      <4>1. one \in Seq(Cell) /\ right \in Seq(Cell)
        BY <2>1, <2>2, <3>0
      <4> QED
        BY <4>1, Concatenated
    <3>2. ks = one \o right /\ Len(one) = 1 /\ one[1] = k
      BY <2>2, <2>3, <3>0
    <3>3. ks[1] = k
      BY <3>1, <3>2
    <3>4. Len(ks) = n - p + 1
      BY <2>1, <3>1, <3>2
    <3>5. \A i \in 1 .. n - p : ks[i + 1] = cells[p + i]
      <4>1. \A i \in 1 .. n - p : 1 + i = i + 1
        OBVIOUS
      <4>2. \A i \in 1 .. n - p : ks[1 + i] = cells[p + i]
        BY <2>1, <3>1, <3>2
      <4> QED
        BY <4>1, <4>2
    <3> QED
      BY <3>3, <3>4, <3>5
  <2>6. /\ SliceOK' /\ len' = p + Len(ks)
        /\ \A i \in 1..p : cells'[i] = cells[i]
        /\ \A i \in 1..Len(ks) : cells'[p + i] = ks[i]
    BY <1>0, <2>4, Appended
  <2>7. Grown(p, k)
    <3>1. len' = len + 1
      BY <1>0, <2>5, <2>6
    <3>2. cells'[p + 1] = k
      BY <2>5, <2>6
    <3>3. \A i \in p + 1 .. len : cells'[i + 1] = cells[i]
      <4> SUFFICES ASSUME NEW i \in p + 1 .. len
                   PROVE  cells'[i + 1] = cells[i]
        OBVIOUS
      <4>1. PICK j \in 1 .. n - p : i = p + j
        <5>1. i - p \in 1 .. n - p /\ i = p + (i - p)
          BY <1>0
        <5> QED
          BY <5>1
      <4>2. j + 1 \in 1..Len(ks) /\ p + (j + 1) = i + 1
        BY <2>5, <4>1
      <4>3. cells'[p + (j + 1)] = ks[j + 1]
        BY <2>6, <4>2
      <4>4. ks[j + 1] = cells[p + j]
        BY <2>5
      <4> QED
        BY <4>1, <4>2, <4>3, <4>4
    <3> QED
      BY <2>6, <3>1, <3>2, <3>3 DEF Grown
  <2>8. KeysOK' /\ WithAt(Pairs', Pairs, p, <<k, v>>) /\ Unlisted' = Unlisted
    BY <1>0, <1>3, <2>4, <2>6, <2>7, GrowKeys
  <2>9. PICK S : Pairs \in Seq(S) /\ Pairs' \in Seq(S) /\ <<k, v>> \in S /\ Len(Pairs) = n
    BY <1>0, <2>6, <2>8, PairsTogether
  <2>10. Pairs' = SubSeq(Pairs, 1, p) \o <<<<k, v>>>> \o SubSeq(Pairs, p + 1, Len(Pairs))
    <3>1. p \in Nat /\ p <= Len(Pairs)
      BY <2>9
    <3> QED
      BY <2>8, <2>9, <3>1, Insertion
  <2> DEFINE place == IF position < 0 THEN Len(Pairs) + 2 + position ELSE position + 1
  <2>11. place = p + 1 /\ place - 1 = p /\ place \in 1 .. Len(Pairs) + 1
    BY <1>0, <1>1, <2>9 DEF Index
  <2>12. Pairs' = List!InsertAt(Pairs, place, <<k, v>>)
    BY <2>10, <2>11 DEF List!InsertAt
  <2>13. k \notin List!Keys
    BY <1>3, HasValue
  <2>14. List!AddAt(k, v, position)
    BY <2>8, <2>11, <2>12, <2>13 DEF List!AddAt, List!Store, Pairs, Unlisted
  <2> QED
    BY <2>6, <2>8, <2>14
<1> QED
  BY <1>2, <1>3

LEMMA DeleteStep ==
    ASSUME SliceOK, KeysOK, NEW k \in Key, Delete(k)
    PROVE  SliceOK' /\ KeysOK' /\ List!Drop(k)
<1>0. PICK n \in Nat : n = len
  BY DEF SliceOK
<1> DEFINE at == {i \in 1..len : cells[i] = k}
<1>1. values' = [j \in DOMAIN values \ {k} |-> values[j]] /\ RemoveCell(k)
  BY DEF Delete
<1>2. CASE at = {}
  <2>1. cells' = cells /\ len' = len
    BY <1>1, <1>2 DEF RemoveCell, KeepSlice
  <2>2. \A i \in 1..len : cells[i] # k
    BY <1>2
  <2>3. /\ DOMAIN values' = DOMAIN values \ {k}
        /\ \A j \in DOMAIN values' : values'[j] = values[j]
    BY <1>1
  <2>4. SliceOK' /\ KeysOK'
    BY <2>1, <2>2, <2>3 DEF SliceOK, KeysOK, Cell
  <2>5. Pairs' = Pairs
    BY <2>1, <2>2, <2>3 DEF Pairs, KeysOK
  <2>6. Unlisted' = {u \in Unlisted : u[1] # k}
    BY <2>1, <2>3 DEF Unlisted, Slice
  <2>7. \A i \in DOMAIN Pairs : Pairs[i][1] # k
    BY <2>2 DEF Pairs
  <2> QED
    BY <2>4, <2>5, <2>6, <2>7 DEF List!Drop, Pairs, Unlisted
<1>3. CASE at # {}
  <2>1. PICK p \in 1..n : cells[p] = k /\ AppendTo(p - 1, SubSeq(cells, p + 1, len))
    <3>1. PICK j \in 1..len : cells[j] = k
      BY <1>3
    <3>2. \A i \in 1..len : cells[i] = k => i = j
      BY <3>1 DEF KeysOK
    <3>3. at = {j} /\ j <= j
      BY <1>0, <3>1, <3>2
    <3>4. (CHOOSE i \in at : \A m \in at : i <= m) = j
      BY <3>3
    <3> QED
      BY <1>0, <1>1, <1>3, <3>1, <3>4 DEF RemoveCell
  <2> DEFINE right == SubSeq(cells, p + 1, n)
  <2>2. right \in Seq(Cell) /\ Len(right) = n - p /\ \A i \in 1 .. n - p : right[i] = cells[p + i]
    <3>1. p \in Nat /\ p + 1 \in Nat /\ 1 <= p + 1 /\ p + 1 <= n + 1 /\ n <= Len(cells) /\ cells \in Seq(Cell)
      BY <1>0 DEF SliceOK
    <3>2. /\ right \in Seq(Cell) /\ Len(right) = n - (p + 1) + 1
          /\ \A i \in 1 .. n - (p + 1) + 1 : right[i] = cells[(p + 1) + i - 1]
      BY <3>1, Part
    <3> HIDE DEF right
    <3>3. n - (p + 1) + 1 = n - p /\ \A i \in 1 .. n - p : (p + 1) + i - 1 = p + i
      OBVIOUS
    <3> QED
      BY <3>2, <3>3
  <2>3. PICK ks \in Seq(Cell) : ks = right
    BY <2>2
  <2>4. PICK from \in Nat : from = p - 1
    OBVIOUS
  <2>5. AppendTo(from, ks)
    BY <1>0, <2>1, <2>3, <2>4
  <2> HIDE DEF right
  <2>6. /\ SliceOK' /\ len' = from + Len(ks)
        /\ \A i \in 1..from : cells'[i] = cells[i]
        /\ \A i \in 1..Len(ks) : cells'[from + i] = ks[i]
    BY <1>0, <2>4, <2>5, Appended
  <2>7. Shrunk(p)
    <3>1. len' = len - 1
      BY <1>0, <2>2, <2>3, <2>4, <2>6
    <3>2. \A i \in p .. len - 1 : cells'[i] = cells[i + 1]
      <4> SUFFICES ASSUME NEW i \in p .. len - 1
                   PROVE  cells'[i] = cells[i + 1]
        OBVIOUS
      <4>1. PICK j \in 1 .. n - p : i = from + j /\ p + j = i + 1
        <5>1. i - from \in 1 .. n - p /\ i = from + (i - from) /\ p + (i - from) = i + 1
          BY <1>0, <2>4
        <5> QED
          BY <5>1
      <4>2. cells'[from + j] = ks[j] /\ ks[j] = cells[p + j]
        BY <2>2, <2>3, <2>6
      <4> QED
        BY <4>1, <4>2
    <3> QED
      BY <2>4, <2>6, <3>1, <3>2 DEF Shrunk
  <2>8. KeysOK' /\ WithoutAt(Pairs', Pairs, p) /\ Unlisted' = {u \in Unlisted : u[1] # k}
    BY <1>0, <1>1, <2>1, <2>6, <2>7, ShrinkKeys
  <2>9. /\ Pairs \in Seq(Range(Pairs)) /\ Pairs' \in Seq(Range(Pairs')) /\ Len(Pairs) = n
    BY <1>0, <2>6, PairsLen DEF SliceOK
  <2>10. PICK S : Pairs \in Seq(S) /\ Pairs' \in Seq(S)
    <3> DEFINE S == Range(Pairs) \cup Range(Pairs')
    <3>1. Pairs \in Seq(S) /\ Pairs' \in Seq(S)
      BY <2>9, SeqMonotonic
    <3> QED
      BY <3>1
  <2>11. Pairs' = SubSeq(Pairs, 1, p - 1) \o SubSeq(Pairs, p + 1, Len(Pairs))
    BY <2>8, <2>9, <2>10, Removal
  <2>12. Pairs' = List!RemoveAt(Pairs, p)
    BY <2>11 DEF List!RemoveAt
  <2>13. p \in DOMAIN Pairs /\ Pairs[p][1] = k
    BY <1>0, <2>1 DEF Pairs
  <2>14. List!Drop(k)
    BY <2>8, <2>12, <2>13 DEF List!Drop, Pairs, Unlisted
  <2> QED
    BY <2>6, <2>8, <2>14
<1> QED
  BY <1>2, <1>3

-----------------------------------------------------------------------------
(* Loading a document.                                                     *)

LEMMA Greatest ==
    ASSUME NEW n \in Nat, NEW T, T \subseteq 1..n, T # {}
    PROVE  \E m \in T : \A j \in T : j <= m
<1> DEFINE D == {n - i : i \in T}
<1>1. D \subseteq Nat /\ D # {}
  <2>1. \A i \in T : n - i \in Nat
    <3> SUFFICES ASSUME NEW i \in T
                 PROVE  n - i \in Nat
      OBVIOUS
    <3>1. i \in 1..n
      OBVIOUS
    <3> QED
      BY <3>1
  <2>2. PICK i : i \in T
    OBVIOUS
  <2> QED
    BY <2>1, <2>2
<1> HIDE DEF D
<1>2. PICK d \in D : \A e \in D : <<e, d>> \notin OpToRel(<, Nat)
  BY <1>1, NatLessThanWellFounded, WFMin, Zenon
<1>3. \A e \in D : ~ (e < d)
  BY <1>1, <1>2 DEF OpToRel
<1>4. PICK m \in T : d = n - m
  BY <1>2 DEF D
<1>5. ASSUME NEW j \in T
      PROVE  j <= m
  <2>1. n - j \in D
    BY DEF D
  <2>2. ~ (n - j < n - m)
    BY <1>3, <1>4, <2>1
  <2>3. j \in Int /\ m \in Int
    OBVIOUS
  <2> QED
    BY <2>2, <2>3
<1> QED
  BY <1>5

LEMMA LastIs ==
    ASSUME NEW doc, NEW n \in Nat, DOMAIN doc = 1..n, NEW k \in DocKeys(doc)
    PROVE  /\ LastOf(doc, k) \in 1..n /\ doc[LastOf(doc, k)][1] = k
           /\ \A j \in 1..n : doc[j][1] = k => j <= LastOf(doc, k)
<1> DEFINE T == {i \in 1..n : doc[i][1] = k}
<1>1. T \subseteq 1..n /\ T # {}
  BY DEF DocKeys
<1> HIDE DEF T
<1>2. PICK m \in T : \A j \in T : j <= m
  BY <1>1, Greatest
<1>3. m \in DOMAIN doc /\ doc[m][1] = k /\ \A j \in DOMAIN doc : doc[j][1] = k => j <= m
  BY <1>2 DEF T
<1>4. /\ LastOf(doc, k) \in DOMAIN doc /\ doc[LastOf(doc, k)][1] = k
      /\ \A j \in DOMAIN doc : doc[j][1] = k => j <= LastOf(doc, k)
  BY <1>3, Zenon DEF LastOf
<1> QED
  BY <1>4, Zenon

LEMMA KeysFinite ==
    ASSUME NEW doc, NEW n \in Nat, DOMAIN doc = 1..n
    PROVE  IsFiniteSet(DocKeys(doc))
<1> DEFINE f == [i \in 1..n |-> doc[i][1]]
<1>1. f \in Surjection(1..n, DocKeys(doc))
  BY DEF Surjection, DocKeys
<1>2. IsFiniteSet(1..n)
  BY Interval
<1> QED
  BY <1>1, <1>2, FS_Surjection

(* The keys of a document, without those that are written with an escape,  *)
(* in their order.                                                         *)
LEMMA DocOrder ==
    ASSUME NEW doc, NEW n \in Nat, DOMAIN doc = 1..n
    PROVE  LET S == DocKeys(doc) \ Special
               place == [k \in DocKeys(doc) |-> LastOf(doc, k)]
           IN  /\ IsFiniteSet(S) /\ Placed(S, place) /\ Cardinality(S) \in Nat
               /\ Lists(Listed(doc), Cardinality(S), S, place)
<1> DEFINE S == DocKeys(doc) \ Special
           place == [k \in DocKeys(doc) |-> LastOf(doc, k)]
<1>1. IsFiniteSet(DocKeys(doc))
  BY KeysFinite
<1>2. IsFiniteSet(S)
  BY <1>1, FS_Subset
<1>3. Placed(S, place)
  <2>1. \A k \in S : place[k] \in 1..n /\ doc[place[k]][1] = k
    BY LastIs
  <2> HIDE DEF place, S
  <2> QED
    BY <2>1 DEF Placed
<1>4. Cardinality(S) \in Nat /\ Lists(InOrder(S, place), Cardinality(S), S, place)
  BY <1>2, <1>3, InOrderLists
<1> QED
  BY <1>2, <1>3, <1>4 DEF Listed

(* Whatever the search finds, different keys are at different places of    *)
(* the text: the keys it lists are different keys of the document.         *)
LEMMA FoundKeys ==
    ASSUME NEW doc \in Document
    PROVE  \E N \in Nat : /\ Loaded[doc].keys \in [1..N -> DocKeys(doc.members)]
                         /\ \A i, j \in 1..N : Loaded[doc].keys[i] = Loaded[doc].keys[j] => i = j
<1> DEFINE s == doc.text
           S == {k \in DocKeys(doc.members) : Places(s, k) # {}}
           place == [k \in S |-> KeyIndex(s, k)]
<1>1. PICK n \in Nat : DOMAIN doc.members = 1..n
  BY MapAssumption, LenProperties
<1>2. PICK l \in Nat : DOMAIN s = 1..l
  BY MapAssumption, LenProperties
<1>3. IsFiniteSet(S)
  BY <1>1, KeysFinite, FS_Subset
<1>4. Loaded[doc].keys = InOrder(S, place)
  <2> DEFINE vs == [k \in DocKeys(doc.members) |-> Unmarshal(LastValues(doc.members)[k])]
  <2>1. Loaded[doc] = mapToOrderedMap(s, vs)
    BY DEF Loaded, Read
  <2>2. DOMAIN vs = DocKeys(doc.members)
    OBVIOUS
  <2> HIDE DEF vs
  <2>3. Loaded[doc].keys = OrderedKeys(s, DOMAIN vs)
    BY <2>1 DEF mapToOrderedMap, MapOf
  <2> QED
    BY <2>2, <2>3 DEF OrderedKeys
<1>5. \A k \in S : KeyIndex(s, k) \in 1..l /\ s[KeyIndex(s, k)] = k
  <2> SUFFICES ASSUME NEW k \in S
               PROVE  KeyIndex(s, k) \in 1..l /\ s[KeyIndex(s, k)] = k
    OBVIOUS
  <2>1. PICK T : T = Places(s, k)
    OBVIOUS
  <2>2. T \subseteq 1..l /\ T # {} /\ \A i \in T : s[i] = k
    BY <1>2, <2>1 DEF Places
  <2>3. PICK m \in T : \A j \in T : j <= m
    BY <2>2, Greatest
  <2>4. \A j \in T : m >= j
    BY <2>2, <2>3
  <2>5. Max(T) \in T
    BY <2>3, <2>4, Zenon DEF Max
  <2> QED
    BY <2>1, <2>2, <2>5 DEF KeyIndex
<1>6. \A k \in S : place[k] \in 1..l /\ s[place[k]] = k
  BY <1>5
<1>12. S \subseteq DocKeys(doc.members)
  OBVIOUS
<1> HIDE DEF S, place
<1>7. Placed(S, place)
  BY <1>6 DEF Placed
<1>8. PICK N \in Nat : Lists(Loaded[doc].keys, N, S, place)
  BY <1>3, <1>4, <1>7, InOrderLists
<1>9. PICK q : q = Loaded[doc].keys
  OBVIOUS
<1>10. q \in [1..N -> S] /\ \A i, j \in 1..N : i < j => place[q[i]] < place[q[j]]
  BY <1>8, <1>9 DEF Lists
<1>11. \A i, j \in 1..N : q[i] = q[j] => i = j
  <2> SUFFICES ASSUME NEW i \in 1..N, NEW j \in 1..N, q[i] = q[j]
               PROVE  i = j
    OBVIOUS
  <2>1. place[q[i]] \in Nat /\ place[q[i]] = place[q[j]]
    BY <1>7, <1>10 DEF Placed
  <2>2. ~ (i < j) /\ ~ (j < i)
    BY <1>10, <2>1
  <2> QED
    BY <2>2
<1> QED
  BY <1>9, <1>10, <1>11, <1>12

LEMMA LoadedMap ==
    ASSUME NEW doc \in Document, UnmarshalJSON(doc)
    PROVE  /\ SliceOK' /\ KeysOK'
           /\ DOMAIN values' = DocKeys(doc.members) /\ values' = Loaded[doc].values
           /\ len' = Len(Loaded[doc].keys) /\ \A i \in 1..len' : cells'[i] = Loaded[doc].keys[i]
<1>1. PICK q : q = Loaded[doc].keys
  OBVIOUS
<1>2. PICK N \in Nat : q \in [1..N -> DocKeys(doc.members)] /\ \A i, j \in 1..N : q[i] = q[j] => i = j
  BY <1>1, FoundKeys
<1>3. DocKeys(doc.members) \subseteq Key
  BY MapAssumption DEF DocKeys
<1>4. q \in Seq(Cell) /\ Len(q) = N
  <2>1. q \in [1..N -> Cell]
    BY <1>2, <1>3 DEF Cell
  <2> QED
    BY <2>1, FunctionIsSeq
<1>5. NewArray(q) /\ len' = N /\ values' = Loaded[doc].values
  BY <1>1, <1>4 DEF UnmarshalJSON
<1>6. /\ cells' \in Seq(Cell) /\ N <= Len(cells')
      /\ \A i \in 1..N : cells'[i] = q[i]
  BY <1>4, <1>5, Moved
<1>7. SliceOK'
  BY <1>5, <1>6 DEF SliceOK, Cell
<1>8. DOMAIN values' = DocKeys(doc.members)
  <2> DEFINE vs == [k \in DocKeys(doc.members) |-> Unmarshal(LastValues(doc.members)[k])]
  <2>1. Loaded[doc] = mapToOrderedMap(doc.text, vs)
    BY DEF Loaded, Read
  <2>2. DOMAIN vs = DocKeys(doc.members)
    OBVIOUS
  <2> HIDE DEF vs
  <2>3. Loaded[doc].values = [k \in DOMAIN vs |-> FoundValue(doc.text, k, vs[k])]
    BY <2>1 DEF mapToOrderedMap, MapOf
  <2> QED
    BY <1>5, <2>2, <2>3
<1>9. KeysOK'
  <2>1. \A i, j \in 1..len' : cells'[i] = cells'[j] => i = j
    BY <1>2, <1>5, <1>6
  <2>2. \A i \in 1..len' : cells'[i] \in DOMAIN values'
    BY <1>2, <1>5, <1>6, <1>8
  <2> QED
    BY <2>1, <2>2 DEF KeysOK
<1> QED
  BY <1>1, <1>4, <1>5, <1>6, <1>7, <1>8, <1>9

(* If it finds all that is to be found, the document is loaded in its      *)
(* order.                                                                  *)
LEMMA LoadStep ==
    ASSUME KeysFound, NEW doc0 \in Document, UnmarshalJSON(doc0)
    PROVE  List!Load([i \in DOMAIN doc0.members |->
                         <<doc0.members[i][1], Loaded[doc0].values[doc0.members[i][1]]>>])
<1> DEFINE doc == doc0.members
           read == [i \in DOMAIN doc |-> <<doc[i][1], Loaded[doc0].values[doc[i][1]]>>]
<1>1. PICK n \in Nat : DOMAIN doc = 1..n
  BY MapAssumption, LenProperties
<1> DEFINE S == DocKeys(doc) \ Special
           place == [k \in DocKeys(doc) |-> LastOf(doc, k)]
           c == Cardinality(S)
<1>2. PICK q : q = Listed(doc)
  OBVIOUS
<1>3. /\ IsFiniteSet(S) /\ Placed(S, place) /\ c \in Nat
      /\ Lists(q, c, S, place)
  BY <1>1, <1>2, DocOrder
<1>4. /\ \A i \in 1..n : doc[i][1] \in DocKeys(doc) /\ doc[i][1] \in Key
      /\ DocKeys(doc) = {doc[i][1] : i \in 1..n}
  BY <1>1, MapAssumption DEF DocKeys
<1>5. \A k \in DocKeys(doc) : /\ LastOf(doc, k) \in 1..n /\ doc[LastOf(doc, k)][1] = k
                              /\ \A j \in 1..n : doc[j][1] = k => j <= LastOf(doc, k)
  BY <1>1, LastIs
<1>6. S \subseteq DocKeys(doc) /\ \A k \in DocKeys(doc) : place[k] = LastOf(doc, k)
  OBVIOUS
<1>7. \A k \in DocKeys(doc) : k \in S \/ k \in Special
  OBVIOUS
<1>8. \A k \in S : k \notin Special
  OBVIOUS
<1>9. PICK N \in Nat : N = c
  BY <1>3
<1> HIDE DEF S, place, c
<1>10. /\ q \in [1..N -> S]
       /\ \A i, j \in 1..N : i < j => place[q[i]] < place[q[j]]
       /\ \A k \in S : \E i \in 1..N : q[i] = k
  BY <1>3, <1>9 DEF Lists
<1>11. Len(q) = N
  BY <1>10, FunctionIsSeq
<1>12. /\ SliceOK' /\ len' = N /\ values' = Loaded[doc0].values /\ DOMAIN values' = DocKeys(doc)
       /\ \A i \in 1..N : cells'[i] = q[i]
  <2>1. Loaded[doc0].keys = q
    BY <1>2 DEF KeysFound
  <2> QED
    BY <1>11, <2>1, LoadedMap
<1> DEFINE last == List!LastMembers(read)
           listed == {i \in last : read[i][1] \notin Special}
<1>18. DOMAIN read = 1..n /\ \A i \in 1..n : read[i] = <<doc[i][1], values'[doc[i][1]]>> /\ read[i][1] = doc[i][1]
  BY <1>1, <1>12
<1> HIDE DEF read, doc
<1>19. last = {LastOf(doc, k) : k \in DocKeys(doc)}
  <2>1. last = {i \in 1..n : \A j \in 1..n : doc[j][1] = doc[i][1] => j <= i}
    BY <1>18 DEF List!LastMembers
  <2>2. ASSUME NEW i \in 1..n, \A j \in 1..n : doc[j][1] = doc[i][1] => j <= i
        PROVE  doc[i][1] \in DocKeys(doc) /\ i = LastOf(doc, doc[i][1])
    <3>1. /\ doc[i][1] \in DocKeys(doc) /\ LastOf(doc, doc[i][1]) \in 1..n
          /\ doc[LastOf(doc, doc[i][1])][1] = doc[i][1] /\ i <= LastOf(doc, doc[i][1])
      BY <1>4, <1>5
    <3>2. LastOf(doc, doc[i][1]) <= i
      BY <2>2, <3>1
    <3> QED
      BY <3>1, <3>2
  <2>3. ASSUME NEW k \in DocKeys(doc)
        PROVE  LastOf(doc, k) \in last
    BY <1>5, <2>1
  <2> QED
    BY <2>1, <2>2, <2>3
<1>20. \A k \in DocKeys(doc) : /\ LastOf(doc, k) \in 1..n
                               /\ read[LastOf(doc, k)] = <<k, values'[k]>>
                               /\ read[LastOf(doc, k)][1] = k
  BY <1>5, <1>18
<1>21. listed = {LastOf(doc, k) : k \in S}
  BY <1>6, <1>7, <1>8, <1>19, <1>20
<1> HIDE DEF last
<1>22. last \ listed = {LastOf(doc, k) : k \in DocKeys(doc) \ S}
  BY <1>6, <1>19, <1>20, <1>21
<1> HIDE DEF listed
<1>23. Cardinality(listed) = N
  <2> DEFINE f == [k \in S |-> LastOf(doc, k)]
  <2>1. f \in Surjection(S, listed)
    BY <1>21 DEF Surjection
  <2>2. f \in Injection(S, listed)
    <3>1. \A j, k \in S : f[j] = f[k] => j = k
      BY <1>6, <1>20
    <3> HIDE DEF f
    <3> QED
      BY <2>1, <3>1 DEF Injection, IsInjective, Surjection
  <2> HIDE DEF f
  <2> QED
    BY <1>3, <1>9, <2>1, <2>2, FS_Surjection DEF c
<1> DEFINE at == [m \in 1..N |-> LastOf(doc, q[m])]
<1>24. at \in [1..N -> listed] /\ \A m \in 1..N : at[m] = LastOf(doc, q[m])
  BY <1>10, <1>21
<1>25. \A i, j \in 1..N : i < j => at[i] < at[j]
  BY <1>6, <1>10
<1> HIDE DEF at
<1>26. Pairs' = [m \in 1..N |-> read[at[m]]]
  <2>1. Pairs' = [m \in 1..N |-> <<cells'[m], values'[cells'[m]]>>]
    BY <1>12 DEF Pairs
  <2>2. \A m \in 1..N : <<cells'[m], values'[cells'[m]]>> = read[at[m]]
    BY <1>6, <1>10, <1>12, <1>20, <1>24
  <2> QED
    BY <2>1, <2>2
<1>27. Unlisted' = {read[i] : i \in last \ listed}
  <2>1. ToSet(Slice') = S
    <3>1. ToSet(Slice') = {cells'[i] : i \in 1..N}
      BY <1>12, SliceIs
    <3> QED
      BY <1>10, <1>12, <3>1
  <2>2. Unlisted' = {<<k, values'[k]>> : k \in DocKeys(doc) \ S}
    BY <1>12, <2>1 DEF Unlisted
  <2>3. \A k \in DocKeys(doc) \ S : read[LastOf(doc, k)] = <<k, values'[k]>>
    BY <1>20
  <2>4. {read[i] : i \in last \ listed} = {read[LastOf(doc, k)] : k \in DocKeys(doc) \ S}
    BY <1>22
  <2>5. {read[LastOf(doc, k)] : k \in DocKeys(doc) \ S} = {<<k, values'[k]>> : k \in DocKeys(doc) \ S}
    BY <2>3
  <2> QED
    BY <2>2, <2>4, <2>5
<1>28. \E a \in [1..Cardinality(listed) -> listed] :
          /\ \A i, j \in 1..Cardinality(listed) : i < j => a[i] < a[j]
          /\ Pairs' = [m \in 1..Cardinality(listed) |-> read[a[m]]]
  BY <1>23, <1>24, <1>25, <1>26, Zenon
<1>29. List!Load(read)
  <2>1. List!Cardinality(listed) = Cardinality(listed)
    BY DEF List!Cardinality, Cardinality
  <2> QED
    BY <1>27, <1>28, <2>1, Zenon DEF List!Load, Pairs, Unlisted, last, listed
<1> QED
  BY <1>29 DEF read, doc

-----------------------------------------------------------------------------
(* The map implements the list.                                            *)

MapInv == SliceOK /\ KeysOK

(* The abstract list's step, in this module's terms.                       *)
ListStep == List!Next \/ UNCHANGED <<Pairs, Unlisted>>

LEMMA InitMap == MapInit => MapInv /\ List!Init
<1> SUFFICES ASSUME MapInit
             PROVE  MapInv /\ List!Init
  OBVIOUS
<1>1. cells = <<>> /\ len = 0 /\ values = <<>> /\ DOMAIN values = {} /\ 1..len = {}
  BY DEF MapInit
<1>2. SliceOK
  BY <1>1 DEF SliceOK
<1>3. KeysOK
  BY <1>1 DEF KeysOK
<1>4. Pairs = <<>> /\ Unlisted = {}
  BY <1>1 DEF Pairs, Unlisted
<1> QED
  BY <1>2, <1>3, <1>4 DEF MapInv, List!Init, Pairs, Unlisted

LEMMA NextMap == MapInv /\ [MapNext]_mapVars => MapInv' /\ (KeysFound => ListStep)
<1> SUFFICES ASSUME MapInv, [MapNext]_mapVars
             PROVE  MapInv' /\ (KeysFound => ListStep)
  OBVIOUS
<1>0. SliceOK /\ KeysOK
  BY DEF MapInv
<1>1. ASSUME UNCHANGED <<cells, len, values>>
      PROVE  MapInv' /\ ListStep
  <2>1. SliceOK' /\ KeysOK'
    BY <1>0, <1>1 DEF SliceOK, KeysOK, Cell
  <2>2. Pairs' = Pairs /\ Unlisted' = Unlisted
    BY <1>1 DEF Pairs, Unlisted, Slice
  <2> QED
    BY <2>1, <2>2 DEF MapInv, ListStep
<1>2. ASSUME NEW k \in Key, NEW v \in MapValue, MapSet(k, v)
      PROVE  MapInv' /\ ListStep
  BY <1>0, <1>2, SetStep DEF MapInv, ListStep, List!Next
<1>3. ASSUME NEW k \in Key, NEW v \in MapValue, Prepend(k, v)
      PROVE  MapInv' /\ ListStep
  BY <1>0, <1>3, PrependStep DEF MapInv, ListStep, List!Next
<1>4. ASSUME NEW k \in Key, NEW v \in MapValue, NEW position \in Position, InsertKeyAt(k, v, position)
      PROVE  MapInv' /\ ListStep
  <2>1. position \in Int
    BY MapAssumption
  <2> QED
    BY <1>0, <1>4, <2>1, InsertStep DEF MapInv, ListStep, List!Next
<1>5. ASSUME NEW k \in Key, Delete(k)
      PROVE  MapInv' /\ ListStep
  BY <1>0, <1>5, DeleteStep DEF MapInv, ListStep, List!Next
<1>6. ASSUME NEW doc \in Document, UnmarshalJSON(doc)
      PROVE  MapInv' /\ (KeysFound => ListStep)
  <2>1. MapInv'
    BY <1>6, LoadedMap DEF MapInv
  <2>2. ASSUME KeysFound
        PROVE  ListStep
    BY <1>6, <2>2, LoadStep DEF ListStep, List!Next
  <2> QED
    BY <2>1, <2>2
<1>7. CASE Unlock
  BY <1>1, <1>7 DEF Unlock
<1>8. CASE ReadKeys
  BY <1>1, <1>8 DEF ReadKeys, Take
<1>9. CASE StartCopy
  BY <1>1, <1>9 DEF StartCopy, Take
<1>10. CASE ReadCell
  BY <1>1, <1>10 DEF ReadCell
<1>11. CASE CopyValue
  BY <1>1, <1>11 DEF CopyValue
<1>12. CASE UNCHANGED mapVars
  BY <1>1, <1>12 DEF mapVars
<1> QED
  BY <1>2, <1>3, <1>4, <1>5, <1>6, <1>7, <1>8, <1>9, <1>10, <1>11, <1>12 DEF MapNext

(* At every step of every writer the keys of the slice, within its array,  *)
(* are different and have values.                                          *)
THEOREM MapInvariance == MapSpec => []MapInv
<1>1. MapInit => MapInv
  BY InitMap
<1>2. MapInv /\ [MapNext]_mapVars => MapInv'
  BY NextMap
<1> QED
  BY <1>1, <1>2, PTL DEF MapSpec

(* Set, Prepend, InsertAt, Delete and UnmarshalJSON do to the list of keys *)
(* and values, in whatever array it is, what PairList says, one whole      *)
(* operation at a time, and no reader changes it; of UnmarshalJSON this    *)
(* needs that the search finds the keys of the documents in their order.   *)
THEOREM ImplementsList ==
    ASSUME KeysFound
    PROVE  MapSpec => IsPairList
<1>1. MapInit => List!Init
  BY InitMap
<1>2. MapInv /\ [MapNext]_mapVars => ListStep
  BY NextMap
<1>3. ListStep => [List!Next]_<<Pairs, Unlisted>>
  BY DEF ListStep
<1>4. MapSpec => []MapInv
  BY MapInvariance
<1> QED
  BY <1>1, <1>2, <1>3, <1>4, PTL DEF MapSpec, IsPairList, List!Spec, Pairs, Unlisted

-----------------------------------------------------------------------------
(* Every value of the map is one a caller set or a document had.           *)

Storable(v) == v.t # "nil"

LEMMA StorableNotNil ==
    ASSUME NEW v, Storable(v)
    PROVE  v # Nil
BY DEF Nil, Storable

LEMMA ValueStorable ==
    ASSUME NEW v \in MapValue
    PROVE  Storable(v)
BY MapAssumption DEF Storable

LEMMA UnmarshalStorable ==
    ASSUME NEW w, w.t \in {"scalar", "object", "list"}
    PROVE  Storable(Unmarshal(w))
BY DEF Unmarshal, UnmarshalItem, ArrayOf, GoMapOf, Storable

LEMMA FoundStorable ==
    ASSUME NEW s, NEW k, NEW v, Storable(v)
    PROVE  Storable(FoundValue(s, k, v))
<1>1. \A x, y : Storable(OrderedItem(x, y))
  BY DEF OrderedItem, PanicValue, MapOf, Storable
<1>2. \A x, y : Storable(OrderedArray(x, y))
  BY DEF OrderedArray, PanicValue, ArrayOf, Storable
<1>3. \A x : Storable(OrderedValue(x, v))
  BY <1>1, <1>2 DEF OrderedValue
<1> QED
  BY <1>3 DEF FoundValue

ValuesOK == \A k \in DOMAIN values : Storable(values[k])

LEMMA PutValue ==
    ASSUME ValuesOK, NEW k, NEW v \in MapValue, Put(k, v)
    PROVE  ValuesOK' /\ DOMAIN values \subseteq DOMAIN values'
<1>1. Storable(v)
  BY ValueStorable
<1>2. DOMAIN values' = DOMAIN values \cup {k} /\
      \A j \in DOMAIN values' : values'[j] = IF j = k THEN v ELSE values[j]
  BY DEF Put
<1> QED
  BY <1>1, <1>2, Zenon DEF ValuesOK

LEMMA LoadedValues ==
    ASSUME NEW doc \in Document, UnmarshalJSON(doc)
    PROVE  ValuesOK'
<1> DEFINE vs == [k \in DocKeys(doc.members) |-> Unmarshal(LastValues(doc.members)[k])]
<1>1. PICK n \in Nat : DOMAIN doc.members = 1..n
  BY MapAssumption, LenProperties
<1>2. ASSUME NEW k \in DocKeys(doc.members)
      PROVE  Storable(vs[k])
  <2>1. PICK w : w = doc.members[LastOf(doc.members, k)][2]
    OBVIOUS
  <2>2. LastValues(doc.members)[k] = w
    BY <2>1 DEF LastValues
  <2>3. LastOf(doc.members, k) \in 1..n
    BY <1>1, LastIs
  <2>4. w.t \in {"scalar", "object", "list"}
    BY <1>1, <2>1, <2>3, MapAssumption
  <2>5. vs[k] = Unmarshal(w)
    BY <2>2
  <2> QED
    BY <2>4, <2>5, UnmarshalStorable
<1>3. DOMAIN vs = DocKeys(doc.members)
  OBVIOUS
<1>4. values' = Loaded[doc].values /\ Loaded[doc] = mapToOrderedMap(doc.text, vs)
  BY DEF UnmarshalJSON, Loaded, Read
<1> HIDE DEF vs
<1>5. values' = [k \in DOMAIN vs |-> FoundValue(doc.text, k, vs[k])]
  BY <1>4 DEF mapToOrderedMap, MapOf
<1> QED
  BY <1>2, <1>3, <1>5, FoundStorable, Zenon DEF ValuesOK

LEMMA NextValues == ValuesOK /\ [MapNext]_mapVars => ValuesOK'
<1> SUFFICES ASSUME ValuesOK, [MapNext]_mapVars
             PROVE  ValuesOK'
  OBVIOUS
<1>1. ASSUME UNCHANGED values
      PROVE  ValuesOK'
  BY <1>1 DEF ValuesOK
<1>2. ASSUME NEW k \in Key, NEW v \in MapValue,
             MapSet(k, v) \/ Prepend(k, v) \/ \E position \in Position : InsertKeyAt(k, v, position)
      PROVE  ValuesOK'
  <2>1. Put(k, v)
    BY <1>2 DEF MapSet, Prepend, InsertKeyAt
  <2> QED
    BY <2>1, PutValue
<1>3. ASSUME NEW k \in Key, Delete(k)
      PROVE  ValuesOK'
  BY <1>3 DEF Delete, ValuesOK
<1>4. ASSUME NEW doc \in Document, UnmarshalJSON(doc)
      PROVE  ValuesOK'
  BY <1>4, LoadedValues
<1>5. CASE Unlock \/ ReadKeys \/ StartCopy \/ ReadCell \/ CopyValue \/ UNCHANGED mapVars
  BY <1>1, <1>5 DEF Unlock, ReadKeys, StartCopy, Take, ReadCell, CopyValue, mapVars
<1> QED
  BY <1>2, <1>3, <1>4, <1>5 DEF MapNext

-----------------------------------------------------------------------------
(* The reader.                                                             *)

Fields == {"pc", "kind", "shared", "cells", "len", "next", "events", "writes", "start", "out", "copied"}

ReaderShape == DOMAIN reader = Fields /\ reader.shared \in BOOLEAN

Undisturbed == reader.events \cap {"Delete", "InsertAt", "race"} = {}

(* The values of a copy were there all the time.                           *)
Copies == reader.kind = "copy" /\ "UnmarshalJSON" \notin reader.events

Agrees(a, n, s) == n <= Len(a) /\ \A i \in 1..n : a[i] = s[i]

(* How many cells were read.                                               *)
Got == IF reader.pc = "get" THEN reader.next ELSE reader.next - 1

(* What was taken is a list of different keys, which the array still holds *)
(* where the reader looks for it, and so does the array as it was before   *)
(* the writer that has the lock.                                           *)
HoldsStart ==
    /\ reader.start \in Seq(Cell) /\ reader.len \in Nat /\ Len(reader.start) = reader.len
    /\ \A i, j \in 1..reader.len : reader.start[i] = reader.start[j] => i = j
    /\ Array \in Seq(Cell) /\ Agrees(Array, reader.len, reader.start)
    /\ reader.shared => reader.len <= len
    /\ reader.shared /\ writing # <<>> => Agrees(writing[1].cells, reader.len, reader.start)

(* What was read so far is the first part of it.                           *)
HasRead ==
    /\ reader.next \in 1..reader.len
    /\ reader.out \in Seq(Cell) /\ Len(reader.out) = Got
    /\ \A i \in 1..Got : reader.out[i] = reader.start[i]
    /\ reader.pc = "get" => reader.kind = "copy"
    /\ reader.kind = "copy" => DOMAIN reader.copied = 1 .. reader.next - 1
    /\ Copies => \A i \in 1 .. reader.next - 1 : reader.copied[i] # Nil

HasValues == Copies => \A i \in 1..reader.len : reader.start[i] \in DOMAIN values

HasAll ==
    /\ reader.out = reader.start
    /\ Copies => \A i \in DOMAIN reader.copied : reader.copied[i] # Nil

ReaderInv ==
    /\ ReaderShape
    /\ Undisturbed =>
          /\ reader.pc # "wild"
          /\ reader.pc \in {"cell", "get"} => HoldsStart /\ HasRead /\ HasValues
          /\ reader.pc = "done" => HasAll

LEMMA IdleReader ==
    /\ reader = Idle => ReaderInv
    /\ reader' = Idle => ReaderInv'
<1>1. /\ DOMAIN Idle = Fields /\ Idle.shared \in BOOLEAN
      /\ Idle.pc \notin {"cell", "get", "done", "wild"}
  BY DEF Idle, Fields
<1>2. ASSUME reader = Idle
      PROVE  ReaderInv
  BY <1>1, <1>2 DEF ReaderInv, ReaderShape
<1>3. ASSUME reader' = Idle
      PROVE  ReaderInv'
  BY <1>1, <1>3 DEF ReaderInv, ReaderShape
<1> QED
  BY <1>2, <1>3

(* What a write changes of a reader that reads.                            *)
LEMMA Seen ==
    ASSUME ReaderShape, NEW event, NEW moved \in BOOLEAN, ReaderSees(event, moved),
           reader.pc \in {"cell", "get"}
    PROVE  /\ ReaderShape'
           /\ reader'.pc = reader.pc /\ reader'.kind = reader.kind /\ reader'.len = reader.len
           /\ reader'.next = reader.next /\ reader'.start = reader.start
           /\ reader'.out = reader.out /\ reader'.copied = reader.copied
           /\ reader'.events = reader.events \cup ({event} \ {"Set", "Prepend"})
           /\ reader'.shared <=> reader.shared /\ ~ moved
           /\ reader'.cells = IF reader.shared /\ moved THEN cells ELSE reader.cells
<1>1. reader' = [reader EXCEPT !.events = @ \cup ({event} \ {"Set", "Prepend"}), !.writes = @ + 1,
                               !.shared = @ /\ ~moved,
                               !.cells  = IF reader.shared /\ moved THEN cells ELSE @]
  BY DEF ReaderSees
<1>2. DOMAIN reader = Fields /\ reader.shared \in BOOLEAN
  BY DEF ReaderShape
<1>3. DOMAIN reader' = Fields
  BY <1>1, <1>2
<1>4. /\ reader'.pc = reader.pc /\ reader'.kind = reader.kind /\ reader'.len = reader.len
      /\ reader'.next = reader.next /\ reader'.start = reader.start
      /\ reader'.out = reader.out /\ reader'.copied = reader.copied
  BY <1>1, <1>2 DEF Fields
<1>5. reader'.events = reader.events \cup ({event} \ {"Set", "Prepend"})
  BY <1>1, <1>2 DEF Fields
<1>6. reader'.shared = (reader.shared /\ ~ moved)
  BY <1>1, <1>2 DEF Fields
<1>7. reader'.cells = IF reader.shared /\ moved THEN cells ELSE reader.cells
  BY <1>1, <1>2 DEF Fields
<1> QED
  BY <1>2, <1>3, <1>4, <1>5, <1>6, <1>7 DEF ReaderShape

(* A write that moves the list, or keeps it where it is and adds to it.    *)
Spares(event, moved) ==
    /\ moved \/ (len <= len' /\ \A i \in 1..len : cells'[i] = cells[i])
    /\ event = "UnmarshalJSON" \/ DOMAIN values \subseteq DOMAIN values'

LEMMA StartHeld ==
    ASSUME SliceOK, SliceOK', ReaderShape, NEW event, NEW moved \in BOOLEAN, Locked(event, moved),
           Spares(event, moved), reader.pc \in {"cell", "get"}, HoldsStart
    PROVE  HoldsStart'
<1>1. /\ reader'.len = reader.len /\ reader'.start = reader.start
      /\ reader'.shared <=> reader.shared /\ ~ moved
      /\ reader'.cells = IF reader.shared /\ moved THEN cells ELSE reader.cells
  BY Seen DEF Locked
<1>2. writing' # <<>> /\ writing'[1].cells = cells
  BY DEF Locked
<1>3. PICK n \in Nat : n = reader.len
  BY DEF HoldsStart
<1>4. PICK s : s = reader.start
  OBVIOUS
<1>5. s \in Seq(Cell) /\ Len(s) = n /\ \A i, j \in 1..n : s[i] = s[j] => i = j
  BY <1>3, <1>4 DEF HoldsStart
<1>6. Array \in Seq(Cell) /\ Agrees(Array, n, s) /\ (reader.shared => n <= len)
  BY <1>3, <1>4 DEF HoldsStart
<1>7. /\ Array' \in Seq(Cell) /\ Agrees(Array', n, s)
      /\ reader'.shared => n <= len' /\ Agrees(writing'[1].cells, n, s)
  <2>1. CASE ~ reader.shared
    <3>1. Array' = Array /\ ~ reader'.shared
      BY <1>1, <2>1 DEF Array
    <3> QED
      BY <1>6, <3>1
  <2>2. CASE reader.shared /\ moved
    <3>1. Array' = Array /\ ~ reader'.shared
      BY <1>1, <2>2 DEF Array
    <3> QED
      BY <1>6, <3>1
  <2>3. CASE reader.shared /\ ~ moved
    <3>1. Array = cells /\ Array' = cells' /\ n <= len
      BY <1>1, <1>6, <2>3 DEF Array
    <3>2. len <= len' /\ \A i \in 1..len : cells'[i] = cells[i]
      BY <2>3 DEF Spares
    <3>3. len \in Nat /\ len' \in Nat /\ len' <= Len(cells') /\ Len(cells') \in Nat
      BY LenProperties DEF SliceOK
    <3>4. n <= len' /\ n <= Len(cells')
      BY <3>1, <3>2, <3>3
    <3>5. \A i \in 1..n : i \in 1..len
      BY <3>1, <3>3
    <3>6. \A i \in 1..n : cells[i] = s[i]
      BY <1>6, <3>1 DEF Agrees
    <3>7. Agrees(cells', n, s)
      BY <3>2, <3>4, <3>5, <3>6 DEF Agrees
    <3>8. cells' \in Seq(Cell)
      BY DEF SliceOK
    <3> QED
      BY <1>2, <1>6, <3>1, <3>4, <3>7, <3>8
  <2> QED
    BY <2>1, <2>2, <2>3
<1> QED
  BY <1>1, <1>3, <1>4, <1>5, <1>7 DEF HoldsStart

(* A reader stays with what it took unless an entry is deleted or inserted.*)
LEMMA WriterKeeps ==
    ASSUME SliceOK, SliceOK', ReaderInv, NEW event, NEW moved \in BOOLEAN, Locked(event, moved),
           event \in {"Delete", "InsertAt"} \/ Spares(event, moved)
    PROVE  ReaderInv'
<1>0. ReaderShape /\ ReaderSees(event, moved)
  BY DEF ReaderInv, Locked
<1>1. CASE reader.pc \notin {"cell", "get"}
  <2>1. reader' = Idle
    BY <1>0, <1>1 DEF ReaderSees
  <2> QED
    BY <2>1, IdleReader
<1>2. CASE reader.pc \in {"cell", "get"}
  <2>1. /\ ReaderShape'
        /\ reader'.pc = reader.pc /\ reader'.kind = reader.kind /\ reader'.len = reader.len
        /\ reader'.next = reader.next /\ reader'.start = reader.start
        /\ reader'.out = reader.out /\ reader'.copied = reader.copied
        /\ reader'.events = reader.events \cup ({event} \ {"Set", "Prepend"})
    BY <1>0, <1>2, Seen
  <2> SUFFICES ASSUME Undisturbed'
               PROVE  HoldsStart' /\ HasRead' /\ HasValues'
    BY <1>2, <2>1 DEF ReaderInv
  <2>2. reader.events \subseteq reader'.events /\ event \notin {"Delete", "InsertAt"}
    BY <2>1 DEF Undisturbed
  <2>3. HoldsStart /\ HasRead /\ HasValues
    BY <1>2, <2>2 DEF ReaderInv, Undisturbed
  <2>4. Spares(event, moved)
    BY <2>2
  <2>5. HoldsStart'
    BY <1>0, <1>2, <2>3, <2>4, StartHeld
  <2>6. Copies' => Copies /\ event # "UnmarshalJSON"
    BY <2>1 DEF Copies
  <2>7. Got' = Got
    BY <2>1 DEF Got
  <2>8. HasRead'
    BY <2>1, <2>3, <2>6, <2>7 DEF HasRead
  <2>9. HasValues'
    BY <2>1, <2>3, <2>4, <2>6 DEF HasValues, Spares
  <2> QED
    BY <2>5, <2>8, <2>9
<1> QED
  BY <1>1, <1>2

LEMMA SetSpares ==
    ASSUME SliceOK, NEW k \in Key, NEW v, MapSet(k, v)
    PROVE  Spares("Set", ~ Exists(k) /\ ArrayFull)
<1>1. len \in Nat /\ Put(k, v)
  BY DEF SliceOK, MapSet
<1>2. DOMAIN values \subseteq DOMAIN values'
  BY <1>1 DEF Put
<1>3. CASE Exists(k)
  <2>1. cells' = cells /\ len' = len
    BY <1>3 DEF MapSet, KeepSlice
  <2> QED
    BY <1>1, <1>2, <2>1 DEF Spares
<1>4. CASE ~ Exists(k)
  <2>1. PICK n \in Nat : n = len
    BY <1>1
  <2>2. PICK ks \in Seq(Cell) : ks = <<k>> /\ Len(ks) = 1
    <3>1. <<k>> \in Seq(Cell) /\ Len(<<k>>) = 1
      BY DEF Cell
    <3> QED
      BY <3>1
  <2>4. AppendTo(n, ks)
    BY <1>4, <2>1, <2>2 DEF MapSet
  <2>5. len' = n + Len(ks) /\ \A i \in 1..n : cells'[i] = cells[i]
    BY <2>1, <2>4, Appended
  <2> QED
    BY <1>2, <2>1, <2>2, <2>5 DEF Spares
<1> QED
  BY <1>3, <1>4

LEMMA PrependSpares ==
    ASSUME SliceOK, NEW k, NEW v, Prepend(k, v)
    PROVE  Spares("Prepend", ~ Exists(k))
<1>1. len \in Nat /\ Put(k, v)
  BY DEF SliceOK, Prepend
<1>2. DOMAIN values \subseteq DOMAIN values'
  BY <1>1 DEF Put
<1>3. Exists(k) => cells' = cells /\ len' = len
  BY DEF Prepend, KeepSlice
<1> QED
  BY <1>1, <1>2, <1>3 DEF Spares

(* The slice that was taken under the lock, or while nobody had it.        *)
LEMMA TakenKeeps ==
    ASSUME MapInv, writing = <<>>, NEW kind, Take(kind, TRUE, cells, len, {})
    PROVE  ReaderInv'
<1>0. SliceOK /\ KeysOK /\ len \in Nat
  BY DEF MapInv, SliceOK
<1>1. reader' = [pc |-> IF len = 0 THEN "done" ELSE "cell", kind |-> kind, shared |-> TRUE,
                 cells |-> <<>>, len |-> len, next |-> 1, events |-> {}, writes |-> 0,
                 start |-> Slice, out |-> <<>>, copied |-> <<>>]
  BY DEF Take, Idle
<1>2. /\ reader'.pc = IF len = 0 THEN "done" ELSE "cell"
      /\ reader'.kind = kind /\ reader'.shared = TRUE /\ reader'.len = len /\ reader'.next = 1
      /\ reader'.events = {} /\ reader'.start = Slice /\ reader'.out = <<>> /\ reader'.copied = <<>>
  BY <1>1
<1>3. ReaderShape'
  BY <1>1 DEF ReaderShape, Fields
<1>4. cells' = cells /\ len' = len /\ values' = values /\ writing' = <<>>
  BY DEF Take
<1>5. PICK s \in Seq(Cell) : s = Slice
  BY <1>0, SliceIs
<1>6. Len(s) = len /\ \A i \in 1..len : s[i] = cells[i]
  BY <1>0, <1>5, SliceIs
<1>7. CASE len = 0
  <2>1. s = <<>>
    BY <1>6, <1>7
  <2>2. HasAll'
    BY <1>2, <1>5, <2>1 DEF HasAll
  <2> QED
    BY <1>2, <1>3, <1>7, <2>2 DEF ReaderInv
<1>8. CASE len # 0
  <2>1. Array' = cells /\ cells \in Seq(Cell) /\ len <= Len(cells)
    BY <1>0, <1>2, <1>4 DEF Array, SliceOK
  <2>2. Agrees(cells, len, s)
    BY <1>6, <2>1 DEF Agrees
  <2>3. \A i, j \in 1..len : s[i] = s[j] => i = j
    BY <1>0, <1>6 DEF KeysOK
  <2>4. HoldsStart'
    BY <1>0, <1>2, <1>4, <1>5, <1>6, <2>1, <2>2, <2>3 DEF HoldsStart
  <2>5. Got' = 0
    BY <1>2, <1>8 DEF Got
  <2>6. 1 \in 1..len /\ 1 .. 1 - 1 = {} /\ 1..0 = {}
    BY <1>0, <1>8
  <2>7. HasRead'
    <3>1. <<>> \in Seq(Cell) /\ Len(<<>>) = 0 /\ DOMAIN <<>> = {}
      OBVIOUS
    <3>2. reader'.pc # "get"
      BY <1>2, <1>8
    <3> QED
      BY <1>2, <2>5, <2>6, <3>1, <3>2 DEF HasRead
  <2>8. HasValues'
    BY <1>0, <1>2, <1>4, <1>5, <1>6 DEF HasValues, KeysOK
  <2> QED
    BY <1>2, <1>3, <1>8, <2>4, <2>7, <2>8 DEF ReaderInv
<1> QED
  BY <1>7, <1>8

LEMMA RaceKeeps ==
    ASSUME NEW kind, NEW shared \in BOOLEAN, NEW array, NEW length,
           Take(kind, shared, array, length, {"race"})
    PROVE  ReaderInv'
<1>1. reader' = [pc |-> IF length = 0 THEN "done" ELSE "cell", kind |-> kind, shared |-> shared,
                 cells |-> IF shared THEN <<>> ELSE array, len |-> length, next |-> 1,
                 events |-> {"race"}, writes |-> 0,
                 start |-> Slice, out |-> <<>>, copied |-> <<>>]
  BY DEF Take, Idle
<1>2. ReaderShape' /\ reader'.events = {"race"}
  BY <1>1 DEF ReaderShape, Fields
<1> QED
  BY <1>2 DEF ReaderInv, Undisturbed

LEMMA AdvanceFields ==
    ASSUME NEW r, DOMAIN r = Fields, r.shared \in BOOLEAN
    PROVE  LET a == Advance(r)
           IN  /\ DOMAIN a = Fields /\ a.shared \in BOOLEAN
               /\ a.kind = r.kind /\ a.len = r.len /\ a.events = r.events
               /\ a.start = r.start /\ a.out = r.out /\ a.copied = r.copied
               /\ r.next < r.len => /\ a.pc = "cell" /\ a.next = r.next + 1
                                    /\ a.shared = r.shared /\ a.cells = r.cells
               /\ ~ (r.next < r.len) => a.pc = "done"
<1>1. CASE r.next < r.len
  <2>1. Advance(r) = [r EXCEPT !.next = @ + 1, !.pc = "cell"]
    BY <1>1 DEF Advance
  <2> QED
    BY <1>1, <2>1 DEF Fields
<1>2. CASE ~ (r.next < r.len)
  <2>1. Advance(r) = [r EXCEPT !.pc = "done", !.shared = FALSE, !.cells = <<>>, !.writes = 0]
    BY <1>2 DEF Advance
  <2> QED
    BY <1>2, <2>1 DEF Fields
<1> QED
  BY <1>1, <1>2

(* A reader that has read a cell, and its value if it makes a copy.        *)
ReadNext(r) ==
    /\ r.out \in Seq(Cell) /\ Len(r.out) = r.next
    /\ \A i \in 1..r.next : r.out[i] = r.start[i]
    /\ r.kind = "copy" => DOMAIN r.copied = 1..r.next
    /\ Copies => \A i \in 1..r.next : r.copied[i] # Nil

LEMMA AdvanceKeeps ==
    ASSUME HoldsStart, HasValues, NEW r, DOMAIN r = Fields, r.shared \in BOOLEAN,
           reader' = Advance(r), UNCHANGED <<cells, len, values, writing>>,
           r.kind = reader.kind, r.len = reader.len, r.events = reader.events,
           r.start = reader.start, r.next = reader.next, r.shared = reader.shared,
           r.cells = reader.cells, reader.next \in 1..reader.len, ReadNext(r)
    PROVE  ReaderInv'
<1>1. /\ ReaderShape'
      /\ reader'.kind = reader.kind /\ reader'.len = reader.len /\ reader'.events = reader.events
      /\ reader'.start = reader.start /\ reader'.out = r.out /\ reader'.copied = r.copied
      /\ reader.next < reader.len => /\ reader'.pc = "cell" /\ reader'.next = reader.next + 1
                                     /\ reader'.shared = reader.shared
                                     /\ reader'.cells = reader.cells
      /\ ~ (reader.next < reader.len) => reader'.pc = "done"
  BY AdvanceFields DEF ReaderShape
<1>2. Copies' <=> Copies
  BY <1>1 DEF Copies
<1>3. PICK n \in Nat : n = reader.len
  BY DEF HoldsStart
<1>4. PICK m \in 1..n : m = reader.next
  BY <1>3
<1>5. /\ r.out \in Seq(Cell) /\ Len(r.out) = m
      /\ \A i \in 1..m : r.out[i] = reader.start[i]
      /\ r.kind = "copy" => DOMAIN r.copied = 1..m
      /\ Copies => \A i \in 1..m : r.copied[i] # Nil
  BY <1>4 DEF ReadNext
<1>6. CASE m < n
  <2>1. /\ reader'.pc = "cell" /\ reader'.next = m + 1
        /\ reader'.shared = reader.shared /\ reader'.cells = reader.cells
    BY <1>1, <1>3, <1>4, <1>6
  <2>2. Array' = Array
    BY <2>1 DEF Array
  <2>3. HoldsStart'
    BY <1>1, <2>1, <2>2 DEF HoldsStart
  <2>4. Got' = m /\ m + 1 \in 1..n /\ (m + 1) - 1 = m
    BY <1>6, <2>1 DEF Got
  <2>5. HasRead'
    <3>1. reader'.pc # "get"
      BY <2>1
    <3> QED
      BY <1>1, <1>2, <1>3, <1>5, <2>1, <2>4, <3>1 DEF HasRead
  <2>6. HasValues'
    BY <1>1, <1>2 DEF HasValues
  <2> QED
    BY <1>1, <2>1, <2>3, <2>5, <2>6 DEF ReaderInv
<1>7. CASE ~ (m < n)
  <2>1. reader'.pc = "done" /\ m = n
    BY <1>1, <1>3, <1>4, <1>7
  <2>2. reader.start \in Seq(Cell) /\ Len(reader.start) = n
    BY <1>3 DEF HoldsStart
  <2>3. r.out = reader.start
    BY <1>5, <2>1, <2>2, SameSeq
  <2>4. Copies => \A i \in DOMAIN r.copied : r.copied[i] # Nil
    <3>1. Copies => r.kind = "copy"
      BY DEF Copies
    <3> QED
      BY <1>5, <3>1
  <2>5. HasAll'
    BY <1>1, <1>2, <2>3, <2>4 DEF HasAll
  <2> QED
    BY <1>1, <2>1, <2>5 DEF ReaderInv
<1> QED
  BY <1>6, <1>7

(* A cell of an undisturbed reader reads as it was taken.                  *)
LEMMA ReadsStart ==
    ASSUME HoldsStart, reader.next \in 1..reader.len
    PROVE  /\ CellReads = {reader.start[reader.next]} /\ reader.start[reader.next] \in Cell
           /\ ~ (reader.next > Len(Array))
<1>1. PICK n \in Nat : n = reader.len
  BY DEF HoldsStart
<1>2. PICK m \in 1..n : m = reader.next
  BY <1>1
<1>3. PICK s \in Seq(Cell) : s = reader.start /\ Len(s) = n
  BY <1>1 DEF HoldsStart
<1>4. s[m] \in Cell
  BY <1>3, LenProperties
<1>5. n <= Len(Array) /\ Array[m] = s[m]
  BY <1>1, <1>3 DEF HoldsStart, Agrees
<1>6. reader.shared /\ writing # <<>> => writing[1].cells[m] = s[m]
  BY <1>1, <1>3 DEF HoldsStart, Agrees
<1>7. CellReads = {s[m]}
  BY <1>2, <1>5, <1>6 DEF CellReads
<1>8. ~ (m > Len(Array))
  <2>1. Len(Array) \in Nat
    BY LenProperties DEF HoldsStart
  <2> QED
    BY <1>5, <2>1
<1> QED
  BY <1>2, <1>3, <1>4, <1>7, <1>8

LEMMA ReadCellKeeps ==
    ASSUME ReaderInv, ReadCell
    PROVE  ReaderInv'
<1>0. /\ ReaderShape /\ DOMAIN reader = Fields /\ reader.shared \in BOOLEAN /\ reader.pc = "cell"
      /\ UNCHANGED <<cells, len, values, writing>>
  BY DEF ReaderInv, ReaderShape, ReadCell
<1>1. CASE reader.next > Len(Array)
  <2>1. reader' = [reader EXCEPT !.pc = "wild", !.writes = 0]
    BY <1>1 DEF ReadCell
  <2>2. ReaderShape' /\ reader'.events = reader.events
    BY <1>0, <2>1 DEF ReaderShape, Fields
  <2>3. ~ Undisturbed
    BY <1>0, <1>1, ReadsStart DEF ReaderInv, HasRead
  <2> QED
    BY <2>2, <2>3 DEF ReaderInv, Undisturbed
<1>2. CASE ~ (reader.next > Len(Array))
  <2>1. PICK k \in CellReads :
           reader' = IF reader.kind = "copy"
                     THEN [[reader EXCEPT !.out = Append(@, k)] EXCEPT !.pc = "get"]
                     ELSE Advance([reader EXCEPT !.out = Append(@, k)])
    BY <1>2 DEF ReadCell
  <2> DEFINE r == [reader EXCEPT !.out = Append(@, k)]
  <2>2. /\ DOMAIN r = Fields /\ r.shared = reader.shared /\ r.events = reader.events
        /\ r.pc = reader.pc /\ r.kind = reader.kind /\ r.cells = reader.cells
        /\ r.len = reader.len /\ r.next = reader.next /\ r.start = reader.start
        /\ r.copied = reader.copied
    BY <1>0 DEF Fields
  <2>3. r.out = Append(reader.out, k)
    BY <1>0 DEF Fields
  <2>4. reader' = IF reader.kind = "copy" THEN [r EXCEPT !.pc = "get"] ELSE Advance(r)
    BY <2>1
  <2> HIDE DEF r
  <2>5. ReaderShape' /\ reader'.events = reader.events
    <3>1. CASE reader.kind = "copy"
      BY <1>0, <2>2, <2>4, <3>1 DEF ReaderShape, Fields
    <3>2. CASE reader.kind # "copy"
      <4>1. reader' = Advance(r)
        BY <2>4, <3>2
      <4> QED
        BY <1>0, <2>2, <4>1, AdvanceFields DEF ReaderShape
    <3> QED
      BY <3>1, <3>2
  <2>6. CASE ~ Undisturbed
    BY <2>5, <2>6 DEF ReaderInv, Undisturbed
  <2>7. CASE Undisturbed
    <3>1. HoldsStart /\ HasRead /\ HasValues
      BY <1>0, <2>7 DEF ReaderInv
    <3>2. PICK n \in Nat : n = reader.len
      BY <3>1 DEF HoldsStart
    <3>3. PICK m \in 1..n : m = reader.next
      BY <3>1, <3>2 DEF HasRead
    <3>4. k = reader.start[m] /\ k \in Cell
      BY <3>1, <3>2, <3>3, ReadsStart
    <3>5. /\ reader.out \in Seq(Cell) /\ Len(reader.out) = m - 1
          /\ \A i \in 1 .. m - 1 : reader.out[i] = reader.start[i]
      BY <1>0, <3>1, <3>3 DEF HasRead, Got
    <3>6. /\ Append(reader.out, k) \in Seq(Cell) /\ Len(Append(reader.out, k)) = Len(reader.out) + 1
          /\ \A i \in 1..Len(reader.out) : Append(reader.out, k)[i] = reader.out[i]
          /\ Append(reader.out, k)[Len(reader.out) + 1] = k
      BY <3>4, <3>5, AppendProperties
    <3>7. /\ r.out \in Seq(Cell) /\ Len(r.out) = m
          /\ \A i \in 1 .. m - 1 : r.out[i] = reader.start[i]
          /\ r.out[m] = reader.start[m]
      BY <2>3, <3>4, <3>5, <3>6
    <3>8. \A i \in 1..m : i \in 1 .. m - 1 \/ i = m
      OBVIOUS
    <3>9. \A i \in 1..m : r.out[i] = reader.start[i]
      BY <3>7, <3>8
    <3>10. CASE reader.kind = "copy"
      <4>1. reader' = [r EXCEPT !.pc = "get"]
        BY <2>4, <3>10
      <4>2. /\ reader'.pc = "get" /\ reader'.kind = reader.kind /\ reader'.shared = reader.shared
            /\ reader'.cells = reader.cells /\ reader'.len = reader.len /\ reader'.out = r.out
            /\ reader'.next = reader.next /\ reader'.start = reader.start
            /\ reader'.copied = reader.copied
        BY <2>2, <4>1 DEF Fields
      <4>3. Array' = Array
        BY <1>0, <4>2 DEF Array
      <4>4. HoldsStart'
        BY <1>0, <3>1, <4>2, <4>3 DEF HoldsStart
      <4>5. (Copies' <=> Copies) /\ Got' = m
        BY <2>5, <3>3, <4>2 DEF Copies, Got
      <4>6. HasRead'
        BY <3>1, <3>3, <3>7, <3>9, <3>10, <4>2, <4>5 DEF HasRead
      <4>7. HasValues'
        BY <1>0, <3>1, <4>2, <4>5 DEF HasValues
      <4> QED
        BY <2>5, <4>2, <4>4, <4>6, <4>7 DEF ReaderInv
    <3>11. CASE reader.kind # "copy"
      <4>1. reader' = Advance(r)
        BY <2>4, <3>11
      <4>2. ReadNext(r)
        BY <2>2, <3>3, <3>7, <3>9, <3>11 DEF ReadNext, Copies
      <4>3. reader.next \in 1..reader.len
        BY <3>2, <3>3
      <4> QED
        BY <1>0, <2>2, <3>1, <4>1, <4>2, <4>3, AdvanceKeeps
    <3> QED
      BY <3>10, <3>11
  <2> QED
    BY <2>6, <2>7
<1> QED
  BY <1>1, <1>2

LEMMA CopyValueKeeps ==
    ASSUME ReaderInv, ValuesOK, CopyValue
    PROVE  ReaderInv'
<1>0. /\ ReaderShape /\ DOMAIN reader = Fields /\ reader.shared \in BOOLEAN /\ reader.pc = "get"
      /\ UNCHANGED <<cells, len, values, writing>>
  BY DEF ReaderInv, ReaderShape, CopyValue
<1> DEFINE k    == Last(reader.out)
           v    == IF Exists(k) THEN values[k] ELSE Nil
           keys == IF k \in ToSet(Front(reader.out)) THEN Front(reader.out) ELSE reader.out
           vals == [i \in DOMAIN keys |-> IF keys[i] = k THEN v ELSE reader.copied[i]]
           r    == [reader EXCEPT !.out = keys, !.copied = vals]
<1>1. reader' = Advance(r)
  BY DEF CopyValue
<1>2. /\ DOMAIN r = Fields /\ r.shared = reader.shared /\ r.events = reader.events
      /\ r.pc = reader.pc /\ r.kind = reader.kind /\ r.cells = reader.cells
      /\ r.len = reader.len /\ r.next = reader.next /\ r.start = reader.start
  <2> HIDE DEF keys, vals
  <2> QED
    BY <1>0 DEF Fields
<1>3. r.out = keys /\ r.copied = vals
  <2> HIDE DEF keys, vals
  <2> QED
    BY <1>0 DEF Fields
<1> HIDE DEF r
<1>4. ReaderShape' /\ reader'.events = reader.events
  BY <1>0, <1>1, <1>2, AdvanceFields DEF ReaderShape
<1>5. CASE ~ Undisturbed
  BY <1>4, <1>5 DEF ReaderInv, Undisturbed
<1>6. CASE Undisturbed
  <2>1. HoldsStart /\ HasRead /\ HasValues
    BY <1>0, <1>6 DEF ReaderInv
  <2>2. PICK n \in Nat : n = reader.len
    BY <2>1 DEF HoldsStart
  <2>3. PICK m \in 1..n : m = reader.next
    BY <2>1, <2>2 DEF HasRead
  <2>4. PICK s \in Seq(Cell) : s = reader.out /\ Len(s) = m /\ \A i \in 1..m : s[i] = reader.start[i]
    BY <1>0, <2>1, <2>3 DEF HasRead, Got
  <2>5. \A i, j \in 1..n : reader.start[i] = reader.start[j] => i = j
    BY <2>1, <2>2 DEF HoldsStart
  <2>6. m \in 1..m /\ m - 1 \in Nat /\ m - 1 <= m /\ \A i \in 1..m : i \in 1..n /\ (i = m \/ i \in 1 .. m - 1)
    OBVIOUS
  <2>7. k = s[m] /\ k = reader.start[m]
    BY <2>4, <2>6 DEF Last
  <2>8. ToSet(Front(s)) = {s[i] : i \in 1 .. m - 1}
    BY <2>4, <2>6, Prefix DEF Front
  <2>9. \A i \in 1 .. m - 1 : i \in 1..m /\ i # m
    OBVIOUS
  <2>10. \A i \in 1 .. m - 1 : s[i] # k
    BY <2>4, <2>5, <2>6, <2>7, <2>9
  <2>11. keys = s
    BY <2>4, <2>8, <2>10
  <2>12. DOMAIN s = 1..m
    BY <2>4, LenProperties
  <2>13. vals = [i \in 1..m |-> IF s[i] = k THEN v ELSE reader.copied[i]]
    BY <2>11, <2>12
  <2>14. ASSUME Copies
         PROVE  \A i \in 1..m : vals[i] # Nil
    <3>1. k \in DOMAIN values
      BY <2>1, <2>2, <2>6, <2>7, <2>14 DEF HasValues
    <3>2. v # Nil
      <4>1. v = values[k] /\ Storable(values[k])
        BY <3>1 DEF ValuesOK, Exists
      <4> QED
        BY <4>1, StorableNotNil
    <3>3. \A i \in 1 .. m - 1 : reader.copied[i] # Nil
      BY <2>1, <2>3, <2>14 DEF HasRead
    <3> HIDE DEF v, k, vals
    <3> QED
      BY <2>6, <2>7, <2>10, <2>13, <3>2, <3>3
  <2>15. DOMAIN vals = 1..m
    BY <2>13
  <2> HIDE DEF v, k, vals, keys
  <2>16. ReadNext(r)
    BY <1>2, <1>3, <2>3, <2>4, <2>11, <2>14, <2>15 DEF ReadNext
  <2>17. reader.next \in 1..reader.len
    BY <2>2, <2>3
  <2> QED
    BY <1>0, <1>1, <1>2, <2>1, <2>16, <2>17, AdvanceKeeps
<1> QED
  BY <1>5, <1>6

-----------------------------------------------------------------------------

Inv == MapInv /\ ValuesOK /\ ReaderInv

LEMMA InitInv == MapInit => Inv
<1> SUFFICES ASSUME MapInit
             PROVE  Inv
  OBVIOUS
<1>1. DOMAIN values = {} /\ reader = Idle
  BY DEF MapInit
<1>2. ValuesOK
  BY <1>1 DEF ValuesOK
<1> QED
  BY <1>1, <1>2, InitMap, IdleReader DEF Inv

LEMMA NextReader == Inv /\ [MapNext]_mapVars => ReaderInv'
<1> SUFFICES ASSUME Inv, [MapNext]_mapVars
             PROVE  ReaderInv'
  OBVIOUS
<1>0. /\ MapInv /\ SliceOK /\ KeysOK /\ ValuesOK /\ ReaderInv /\ SliceOK'
  BY NextMap DEF Inv, MapInv
<1>1. ASSUME NEW k \in Key, NEW v \in MapValue, MapSet(k, v)
      PROVE  ReaderInv'
  <2>1. Locked("Set", ~ Exists(k) /\ ArrayFull) /\ Spares("Set", ~ Exists(k) /\ ArrayFull)
    BY <1>0, <1>1, SetSpares DEF MapSet
  <2>2. (~ Exists(k) /\ ArrayFull) \in BOOLEAN
    OBVIOUS
  <2> QED
    BY <1>0, <2>1, <2>2, WriterKeeps, Zenon
<1>2. ASSUME NEW k \in Key, NEW v \in MapValue, Prepend(k, v)
      PROVE  ReaderInv'
  <2>1. Locked("Prepend", ~ Exists(k)) /\ Spares("Prepend", ~ Exists(k))
    BY <1>0, <1>2, PrependSpares DEF Prepend
  <2>2. (~ Exists(k)) \in BOOLEAN
    OBVIOUS
  <2> QED
    BY <1>0, <2>1, <2>2, WriterKeeps, Zenon
<1>3. ASSUME NEW k \in Key, NEW v \in MapValue, NEW position \in Position, InsertKeyAt(k, v, position)
      PROVE  ReaderInv'
  <2>1. Locked("InsertAt", ~ Exists(k) /\ ArrayFull)
    BY <1>3 DEF InsertKeyAt
  <2>2. (~ Exists(k) /\ ArrayFull) \in BOOLEAN
    OBVIOUS
  <2> QED
    BY <1>0, <2>1, <2>2, WriterKeeps, Zenon
<1>4. ASSUME NEW k \in Key, Delete(k)
      PROVE  ReaderInv'
  <2>1. Locked("Delete", FALSE)
    BY <1>4 DEF Delete
  <2> QED
    BY <1>0, <2>1, WriterKeeps
<1>5. ASSUME NEW doc \in Document, UnmarshalJSON(doc)
      PROVE  ReaderInv'
  <2>1. Locked("UnmarshalJSON", TRUE)
    BY <1>5 DEF UnmarshalJSON
  <2>2. Spares("UnmarshalJSON", TRUE)
    BY DEF Spares
  <2> QED
    BY <1>0, <2>1, <2>2, WriterKeeps
<1>6. ASSUME UNCHANGED <<cells, len, values, reader>>, writing' = <<>> \/ writing' = writing
      PROVE  ReaderInv'
  <2>1. (Copies' <=> Copies) /\ (Undisturbed' <=> Undisturbed) /\ (ReaderShape' <=> ReaderShape)
    BY <1>6 DEF Copies, Undisturbed, ReaderShape
  <2>2. Got' = Got /\ Array' = Array
    BY <1>6 DEF Got, Array
  <2>3. HoldsStart => HoldsStart'
    BY <1>6, <2>2 DEF HoldsStart
  <2>4. HasRead => HasRead'
    BY <1>6, <2>1, <2>2 DEF HasRead
  <2>5. (HasValues => HasValues') /\ (HasAll => HasAll')
    BY <1>6, <2>1 DEF HasValues, HasAll
  <2> QED
    BY <1>0, <1>6, <2>1, <2>3, <2>4, <2>5 DEF ReaderInv
<1>7. CASE Unlock \/ UNCHANGED mapVars
  BY <1>6, <1>7 DEF Unlock, mapVars
<1>8. CASE ReadKeys
  BY <1>0, <1>8, TakenKeeps DEF ReadKeys
<1>9. CASE StartCopy
  <2>1. CASE writing = <<>> /\ Take("copy", TRUE, cells, len, {})
    BY <1>0, <2>1, TakenKeeps
  <2>2. CASE \E length \in {len, writing[1].len} :
                \/ Take("copy", TRUE, cells, length, {"race"})
                \/ writing[1].moved /\ Take("copy", FALSE, writing[1].cells, length, {"race"})
    BY <2>2, RaceKeeps
  <2> QED
    BY <1>9, <2>1, <2>2 DEF StartCopy
<1>10. CASE ReadCell
  BY <1>0, <1>10, ReadCellKeeps
<1>11. CASE CopyValue
  BY <1>0, <1>11, CopyValueKeeps
<1> QED
  BY <1>1, <1>2, <1>3, <1>4, <1>5, <1>7, <1>8, <1>9, <1>10, <1>11 DEF MapNext

LEMMA Invariance == MapSpec => []Inv
<1>1. MapInit => Inv
  BY InitInv
<1>2. Inv /\ [MapNext]_mapVars => Inv'
  BY NextMap, NextValues, NextReader DEF Inv
<1> QED
  BY <1>1, <1>2, PTL DEF MapSpec

(* What Keys gave out, or Copy made, is the list as it was taken, unless   *)
(* an entry was deleted or inserted meanwhile or the slice was taken while *)
(* a writer held the lock, and a copy has its values unless the map was    *)
(* replaced: for every set of keys, values, positions and documents, and   *)
(* any number of writes during the read.                                   *)
THEOREM ReadersKeepTheirList == MapSpec => []ReaderUndisturbed
<1>1. Inv => ReaderUndisturbed
  <2> SUFFICES ASSUME Inv, reader.pc \in {"done", "wild"}, Undisturbed
               PROVE  /\ reader.out = reader.start
                      /\ Copies => Nil \notin ToSet(reader.copied)
    BY DEF ReaderUndisturbed, Undisturbed, Copies
  <2>1. HasAll
    BY DEF Inv, ReaderInv
  <2> QED
    BY <2>1 DEF HasAll, ToSet
<1>2. MapSpec => []Inv
  BY Invariance
<1> QED
  BY <1>1, <1>2, PTL

=============================================================================
